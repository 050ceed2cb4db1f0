---------------------------- MODULE MCMapCompiler ----------------------------
(* Model values for MapCompiler. *)
EXTENDS MapCompiler, TLC

\* A document may leave out any ids; references may be to nodes before, after or
\* between those it has.
MCNodeIds == {1, 3}
MCPlace == 1 :> <<2, 3>> @@ 3 :> <<1, 5>>
MCReferences == 1 .. 3

\* Two parts that have a point in common, the longer of which is ended twice, the
\* second time at its last point.
MCShapePlaces == {<<1, 1>>}
MCShapeParts ==
  {<< <<<<1, 1>>, <<3, 1>>>>, <<<<3, 1>>, <<2, 2>>, <<3, 3>>, <<4, 3>>, <<5, 5>>>> >>}
=============================================================================
