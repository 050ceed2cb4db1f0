---------------------------- MODULE MCIndexSort ----------------------------
(* Model values for IndexSort. *)
EXTENDS IndexSort

MCKeys == 1 .. 3
MCBuffers == {1, 2}
=============================================================================
