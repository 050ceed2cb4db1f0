---------------------------- MODULE MCIndexFile ----------------------------
(* Model values for IndexFile. *)
EXTENDS IndexFile

\* Three keys with gaps between and around them, so that searches hit, miss
\* inside, miss before the first and miss after the last.
MCKeys == {2, 4, 6}
MCQueries == 1 .. 7
=============================================================================
