----------------------------- MODULE PointCache -----------------------------
(***************************************************************************)
(* The cache of points of CompiledDataManager, which all Exec threads load  *)
(* points through: loadPoint looks a point up, reads it if it is missing,   *)
(* and puts it there, the first and the last step under the lock of the     *)
(* cache and nothing in between.  Points are only read, so a point is known *)
(* by its id, and what is read for an id is the constant PointOf[id].       *)
(***************************************************************************)
EXTENDS Integers, SequencesExt

CONSTANTS Loaders,     \* the threads
          PointOf,     \* id -> what nodeIndex has for it
          MaxPoints    \* size of the cache, 10000 in the code

ASSUME CacheAssumption == MaxPoints \in Nat \ {0} /\ Loaders # {}

PointIds == DOMAIN PointOf

VARIABLES order,       \* _order: the ids, the latest first
          points,      \* _map: id -> point
          loader       \* thread -> where in loadPoint it is

cacheVars == <<order, points, loader>>

NotLoading == [at |-> "idle"]

CacheInit ==
  /\ order = << >> /\ points = << >>
  /\ loader = [t \in Loaders |-> NotLoading]

\* (Variant of Put that does not look whether the id is there by now.)
PutAgain(id, p) ==
  LET full == Cardinality(DOMAIN points) >= MaxPoints
      kept == IF full THEN Restrict(points, DOMAIN points \ {Last(order)}) ELSE points
  IN /\ order' = <<id>> \o (IF full THEN Front(order) ELSE order)
     /\ points' = [k \in DOMAIN kept \cup {id} |-> IF k \in DOMAIN kept THEN kept[k] ELSE p]

\* put: nothing if the id is there; else it takes the place of the oldest.
Put(id, p) ==
  LET full == Cardinality(DOMAIN points) >= MaxPoints
      kept == IF full THEN Restrict(points, DOMAIN points \ {Last(order)}) ELSE points
  IN IF id \in DOMAIN points THEN UNCHANGED <<order, points>>
     ELSE /\ order' = <<id>> \o (IF full THEN Front(order) ELSE order)
          /\ points' = [k \in DOMAIN kept \cup {id} |-> IF k = id THEN p ELSE kept[k]]

\* get, under the shared lock: a point that is found is the answer.
Lookup(t, id) ==
  /\ loader[t].at = "idle"
  /\ loader' = [loader EXCEPT ![t] =
                  IF id \in DOMAIN points THEN [at |-> "answered", id |-> id, point |-> points[id]]
                  ELSE [at |-> "missed", id |-> id]]
  /\ UNCHANGED <<order, points>>

\* The point is read from nodeIndex and its tags from baliseTags, and put.
ReadAndPut(t) ==
  /\ loader[t].at = "missed"
  /\ LET id == loader[t].id
     IN /\ Put(id, PointOf[id])
        /\ loader' = [loader EXCEPT ![t] = [at |-> "answered", id |-> id, point |-> PointOf[id]]]

ReturnPoint(t) ==
  /\ loader[t].at = "answered"
  /\ loader' = [loader EXCEPT ![t] = NotLoading]
  /\ UNCHANGED <<order, points>>

CacheNext ==
  \E t \in Loaders : (\E id \in PointIds : Lookup(t, id)) \/ ReadAndPut(t) \/ ReturnPoint(t)

CacheSpec == CacheInit /\ [][CacheNext]_cacheVars
-----------------------------------------------------------------------------
\* The list of the cache and its map hold the same ids, each once and no more than
\* the cache may hold, so that the id at the end of the list is always there to be
\* evicted; and every loader is answered with the point of its id.  This is so
\* although two threads may miss a point at the same time and both put it.
CacheIsConsistent ==
  /\ ToSet(order) = DOMAIN points /\ Len(order) = Cardinality(DOMAIN points)
  /\ Len(order) <= MaxPoints
  /\ \A t \in Loaders :
       loader[t].at = "answered" => loader[t].point = PointOf[loader[t].id]
=============================================================================
