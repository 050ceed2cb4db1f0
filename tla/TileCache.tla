------------------------------ MODULE TileCache ------------------------------
(***************************************************************************)
(* The cache of rendered tiles on disk: Tile::processRequest (svgz files)   *)
(* and RasterImage::processRequest (png files), run by several Exec threads *)
(* at once.  A tile whose file can be opened is answered with what is read  *)
(* from it, without any lock; any other tile is rendered, and written to    *)
(* its file under the file_mtx of its class if it is large enough.          *)
(*                                                                          *)
(* A tile is a sequence of Blocks blocks, numbered in order, and a file is  *)
(* the sequence of the blocks it holds; Hole is what a file holds where it  *)
(* was never written.  Requests for zoom levels above CacheLevel touch no   *)
(* file and are left out.                                                   *)
(***************************************************************************)
EXTENDS Naturals, Sequences

CONSTANTS Threads,      \* Exec threads
          SvgTiles, PngTiles,   \* tiles at or below CacheLevel, by class
          SmallTiles,   \* those whose rendering is not longer than the threshold
          Blocks,       \* the number of blocks of a tile
          MaxFaults,    \* bound: crashes of the server and errors of the disk
          Absent, NoTile, NoThread, Hole

Tiles == SvgTiles \cup PngTiles

\* The first n blocks of what the renderer makes of a tile, which is always the same
\* for the same data.
Beginning(n) == [i \in 1 .. n |-> i]
Rendered == Beginning(Blocks)

ASSUME TileCacheAssumption ==
  /\ Blocks \in Nat \ {0}
  /\ MaxFaults \in Nat
  /\ SvgTiles \cap PngTiles = {}
  /\ SmallTiles \subseteq Tiles
  /\ NoThread \notin Threads /\ NoTile \notin Tiles
  /\ Absent \notin {Beginning(n) : n \in 0 .. Blocks}

VARIABLES
  file,         \* per tile, Absent or the blocks in its cache file
  svgMutex, pngMutex,   \* the static file_mtx of each processRequest
  thread,       \* per thread: where it is, its tile, its string res
  faults,       \* crashes and errors of the disk so far
  cut           \* tiles whose file a fault has left unfinished

vars == <<file, svgMutex, pngMutex, thread, faults, cut>>

IsPrefixOf(s, t) == Len(s) <= Len(t) /\ \A i \in 1 .. Len(s) : s[i] = t[i]

Goes(t, to) == thread' = [thread EXCEPT ![t].at = to]

Idle == [at |-> "idle", tile |-> NoTile, res |-> <<>>, pos |-> 0]

Init ==
  /\ file = [f \in Tiles |-> Absent]
  /\ svgMutex = NoThread /\ pngMutex = NoThread
  /\ thread = [t \in Threads |-> Idle]
  /\ faults = 0
  /\ cut = {}
-----------------------------------------------------------------------------
Request(t, f) ==
  /\ thread[t].at = "idle"
  /\ thread' = [thread EXCEPT ![t] = [at |-> "open", tile |-> f, res |-> <<>>, pos |-> 0]]
  /\ UNCHANGED <<file, svgMutex, pngMutex, faults, cut>>

\* fopen(filename, "r") finds the file, complete or not.
OpenFound(t) ==
  /\ thread[t].at = "open"
  /\ file[thread[t].tile] # Absent
  /\ Goes(t, "read")
  /\ UNCHANGED <<file, svgMutex, pngMutex, faults, cut>>

\* The next fread finds a block at the position reached.
ReadBlock(t) ==
  LET f == thread[t].tile
      n == Len(thread[t].res)
  IN
  /\ thread[t].at = "read"
  /\ n < Len(file[f])
  /\ thread' = [thread EXCEPT ![t].res = Append(@, file[f][n + 1])]
  /\ UNCHANGED <<file, svgMutex, pngMutex, faults, cut>>

\* The next fread returns 0: what was read is the answer.
ReadEnd(t) ==
  /\ thread[t].at = "read"
  /\ Len(thread[t].res) >= Len(file[thread[t].tile])
  /\ Goes(t, "answer")
  /\ UNCHANGED <<file, svgMutex, pngMutex, faults, cut>>

\* No file: render.  The directories of a large tile are there or are made, and it is
\* written to the cache before it is answered.
Render(t) ==
  /\ thread[t].at = "open"
  /\ file[thread[t].tile] = Absent
  /\ thread' = [thread EXCEPT ![t].res = Rendered,
                  ![t].at = IF thread[t].tile \in SmallTiles THEN "answer" ELSE "lock"]
  /\ UNCHANGED <<file, svgMutex, pngMutex, faults, cut>>

\* A directory of a large tile is missing and create_directory throws, on a full disk
\* or for want of rights: processRequest is left with the tile rendered.
DirectoryFails(t) ==
  /\ thread[t].at = "open"
  /\ file[thread[t].tile] = Absent
  /\ thread[t].tile \notin SmallTiles
  /\ faults < MaxFaults
  /\ faults' = faults + 1
  /\ Goes(t, "thrown")
  /\ UNCHANGED <<file, svgMutex, pngMutex, cut>>

\* The catch of Exec: the request is counted as aborted and nothing is sent.
Drop(t) ==
  /\ thread[t].at = "thrown"
  /\ thread' = [thread EXCEPT ![t] = Idle]
  /\ UNCHANGED <<file, svgMutex, pngMutex, faults, cut>>

\* (Variant of Lock in which each thread has a file_mtx of its own.)
LockNothing(t, to) ==
  /\ Goes(t, to)
  /\ UNCHANGED <<svgMutex, pngMutex>>

\* lock_guard on the file_mtx of the tile's class.
Lock(t, to) ==
  /\ Goes(t, to)
  /\ IF thread[t].tile \in SvgTiles
     THEN svgMutex = NoThread /\ svgMutex' = t /\ UNCHANGED pngMutex
     ELSE pngMutex = NoThread /\ pngMutex' = t /\ UNCHANGED svgMutex

Unlock(t) ==
  /\ svgMutex' = IF svgMutex = t THEN NoThread ELSE svgMutex
  /\ pngMutex' = IF pngMutex = t THEN NoThread ELSE pngMutex

\* fopen(filename, "w") empties the file, whoever wrote or reads it.
OpenForWriting(t) ==
  /\ thread[t].at = "lock"
  /\ Lock(t, "write")
  /\ file' = [file EXCEPT ![thread[t].tile] = <<>>]
  /\ UNCHANGED <<faults, cut>>

\* The file cannot be opened for writing: the lock is taken and given back.
OpenFails(t) ==
  /\ thread[t].at = "lock"
  /\ faults < MaxFaults
  /\ faults' = faults + 1
  /\ svgMutex = NoThread \/ thread[t].tile \in PngTiles
  /\ pngMutex = NoThread \/ thread[t].tile \in SvgTiles
  /\ Goes(t, "answer")
  /\ UNCHANGED <<file, svgMutex, pngMutex, cut>>

\* A write at position n of a file of some length.
Written(content, n, block) ==
  [i \in 1 .. (IF n > Len(content) THEN n ELSE Len(content)) |->
     IF i = n THEN block ELSE IF i \in DOMAIN content THEN content[i] ELSE Hole]

\* fwrite, or a round of the deflate loop.
WriteBlock(t) ==
  LET f == thread[t].tile
      n == thread[t].pos + 1
  IN
  /\ thread[t].at = "write"
  /\ n <= Blocks
  /\ file' = [file EXCEPT ![f] = Written(@, n, thread[t].res[n])]
  /\ thread' = [thread EXCEPT ![t].pos = n]
  /\ UNCHANGED <<svgMutex, pngMutex, faults, cut>>

\* (Variant of CloseFile that keeps the lock.)
CloseFileLocked(t) ==
  /\ thread[t].at = "write"
  /\ thread[t].pos = Blocks
  /\ Goes(t, "answer")
  /\ cut' = cut \ {thread[t].tile}
  /\ UNCHANGED <<file, svgMutex, pngMutex, faults>>

\* fclose, and the end of the lock_guard.
CloseFile(t) ==
  /\ thread[t].at = "write"
  /\ thread[t].pos = Blocks
  /\ Goes(t, "answer")
  /\ Unlock(t)
  /\ cut' = cut \ {thread[t].tile}
  /\ UNCHANGED <<file, faults>>

\* A write fails, on a full disk for instance: the rest is not written, and the
\* file stays as it is.
WriteFails(t) ==
  /\ thread[t].at = "write"
  /\ thread[t].pos < Blocks
  /\ faults < MaxFaults
  /\ faults' = faults + 1
  /\ Goes(t, "answer")
  /\ Unlock(t)
  /\ cut' = cut \cup {thread[t].tile}
  /\ UNCHANGED file

\* processRequest returns.
Answer(t) ==
  /\ thread[t].at = "answer"
  /\ thread' = [thread EXCEPT ![t] = Idle]
  /\ UNCHANGED <<file, svgMutex, pngMutex, faults, cut>>

\* The server dies, with all its threads; the files stay.
Crash ==
  /\ \A t \in Threads : thread[t].at # "down"
  /\ faults < MaxFaults
  /\ faults' = faults + 1
  /\ cut' = cut \cup {thread[t].tile : t \in {u \in Threads : thread[u].at = "write"}}
  /\ thread' = [t \in Threads |-> [Idle EXCEPT !.at = "down"]]
  /\ svgMutex' = NoThread /\ pngMutex' = NoThread
  /\ UNCHANGED file

\* It is started again.
Restart ==
  /\ \A t \in Threads : thread[t].at = "down"
  /\ thread' = [t \in Threads |-> Idle]
  /\ UNCHANGED <<file, svgMutex, pngMutex, faults, cut>>
-----------------------------------------------------------------------------
Step(t) ==
  \/ OpenFound(t) \/ ReadBlock(t) \/ ReadEnd(t) \/ Render(t)
  \/ DirectoryFails(t) \/ Drop(t) \/ OpenForWriting(t) \/ OpenFails(t) \/ WriteBlock(t) \/ CloseFile(t)
  \/ WriteFails(t) \/ Answer(t)

Next ==
  \/ \E t \in Threads : Step(t) \/ \E f \in Tiles : Request(t, f)
  \/ Crash
  \/ Restart

\* The threads run; a thread that waits for file_mtx gets it when it is given
\* back often enough.
Fairness ==
  \A t \in Threads : WF_vars(Step(t)) /\ SF_vars(OpenForWriting(t))

Spec == Init /\ [][Next]_vars /\ Fairness
-----------------------------------------------------------------------------
Writing(t, f) == thread[t].at = "write" /\ thread[t].tile = f

\* A cache file is a beginning of the tile at all times: two threads that have
\* both missed write it one after the other and never into each other.
FilesAreBeginnings ==
  \A f \in Tiles : file[f] # Absent => IsPrefixOf(file[f], Rendered)

\* What a thread has read is a beginning of the tile, although it reads without
\* the lock while others empty the file under it and fill it again.
AnswersAreBeginnings ==
  \A t \in Threads : IsPrefixOf(thread[t].res, Rendered)

\* A file that lacks its end is being written right now, by one thread, or a
\* fault has cut its writing.
ShortFilesAreExplained ==
  \A f \in Tiles :
    /\ file[f] # Absent /\ file[f] # Rendered /\ f \notin cut
         => \E t \in Threads : Writing(t, f)
    /\ \A t, u \in Threads : Writing(t, f) /\ Writing(u, f) => t = u

\* Every request is answered, though its file be cut, grow while it is read or be
\* refused for writing, and no thread waits for ever for a file_mtx; unless the server
\* dies, or a directory of the tile cannot be made: then the tile was rendered, but
\* the exception takes the answer away.
RequestsAreAnswered ==
  \A t \in Threads : thread[t].at = "open" ~> thread[t].at \in {"answer", "thrown", "down"}

\* docs/index.md says of large tiles: "those ones will be cached for next use".
\* A tile answered from its cache file is the tile.
CachedForNextUse ==
  \A t \in Threads : thread[t].at = "answer" => thread[t].res = Rendered
=============================================================================
