-------------------------- MODULE MCServerPipeline --------------------------
(* Model values for ServerPipeline. *)
EXTENDS ServerPipeline, TLC

CONSTANTS a, b, r1, r2, e1, w1, w2

MCConns == {a, b}
MCReaders == {r1, r2}
MCWriters == {w1, w2}

\* Connections and the threads of one kind are interchangeable.  LowestFree
\* chooses among descriptors, which are numbers, not among these.
PipelineSymmetry ==
  Permutations(MCConns) \cup Permutations(MCReaders) \cup Permutations(MCWriters)
=============================================================================
