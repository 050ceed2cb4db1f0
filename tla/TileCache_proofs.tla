--------------------------- MODULE TileCache_proofs ---------------------------
(***************************************************************************)
(* Theorems about the cache of tiles on disk, for any number of threads,    *)
(* tiles, blocks, crashes and errors of the disk.                           *)
(***************************************************************************)
EXTENDS TileCache, TLAPS

Beginnings == {Beginning(n) : n \in 0 .. Blocks}

MutexOf(f) == IF f \in SvgTiles THEN svgMutex ELSE pngMutex

\* What a file is.
FilesOK ==
  /\ DOMAIN file = Tiles
  /\ \A f \in Tiles : file[f] \in Beginnings \cup {Absent}

\* What a thread has: of what it reads a beginning, of what it writes all; and a file
\* that was there when it was opened is there.
ThreadOK(t) ==
  /\ thread[t] \in [at : {"idle", "open", "read", "answer", "lock", "write", "thrown", "down"},
                    tile : Tiles \cup {NoTile}, res : Beginnings, pos : 0 .. Blocks]
  /\ thread[t].at \notin {"idle", "down"} => thread[t].tile \in Tiles
  /\ thread[t].at = "open" => thread[t].res = Beginning(0)
  /\ thread[t].at = "read" => file[thread[t].tile] # Absent
  /\ thread[t].at \in {"open", "lock"} => thread[t].pos = 0
  /\ thread[t].at \in {"lock", "write"} => thread[t].res = Rendered

\* A thread that writes has the mutex of its tile, and the file ends where it is.
WriterOK(t) ==
  thread[t].at = "write" =>
    /\ MutexOf(thread[t].tile) = t
    /\ file[thread[t].tile] = Beginning(thread[t].pos)

\* A file without its end is being written or was cut.
CutOK ==
  \A f \in Tiles : file[f] # Absent /\ file[f] # Rendered /\ f \notin cut
                     => \E t \in Threads : Writing(t, f)

\* The inductive invariant.  That files are beginnings follows from the place of the
\* one thread that writes, and that it is one from the mutex it holds.
TileInv ==
  /\ FilesOK
  /\ DOMAIN thread = Threads
  /\ \A t \in Threads : ThreadOK(t) /\ WriterOK(t)
  /\ CutOK
-----------------------------------------------------------------------------
\* A beginning is as long as its number says.
LEMMA BeginningLength ==
  ASSUME NEW n \in Nat
  PROVE  /\ Beginning(n) \in Seq(Nat) /\ Len(Beginning(n)) = n
         /\ DOMAIN Beginning(n) = 1 .. n /\ \A i \in 1 .. n : Beginning(n)[i] = i
BY DEF Beginning

\* Beginnings of different lengths differ.
LEMMA BeginningsDiffer ==
  ASSUME NEW m \in Nat, NEW n \in Nat, Beginning(m) = Beginning(n)
  PROVE  m = n
BY BeginningLength

\* A file may be empty, which is not to be absent.
LEMMA EmptyBeginning ==
  /\ << >> = Beginning(0) /\ Beginning(0) \in Beginnings
  /\ \A s \in Beginnings : s # Absent
<1>1. << >> = Beginning(0)
  BY DEF Beginning
<1>2. 0 \in 0 .. Blocks
  BY TileCacheAssumption
<1> QED
  BY <1>1, <1>2, TileCacheAssumption DEF Beginnings

\* Every beginning is one of the whole tile.
LEMMA BeginningIsPrefix ==
  ASSUME NEW s \in Beginnings
  PROVE  IsPrefixOf(s, Rendered)
<1>1. PICK n \in 0 .. Blocks : s = Beginning(n)
  BY DEF Beginnings
<1>2. n \in Nat /\ Blocks \in Nat /\ n <= Blocks
  BY TileCacheAssumption
<1> QED
  BY <1>1, <1>2, BeginningLength DEF IsPrefixOf, Rendered

\* A block read behind a beginning makes the next one.
LEMMA AppendToBeginning ==
  ASSUME NEW n \in Nat
  PROVE  Append(Beginning(n), n + 1) = Beginning(n + 1)
BY DEF Beginning

\* A block written behind a beginning makes the next one.
LEMMA WriteToBeginning ==
  ASSUME NEW n \in 0 .. Blocks - 1
  PROVE  Written(Beginning(n), n + 1, Rendered[n + 1]) = Beginning(n + 1)
<1>1. n \in Nat /\ Rendered[n + 1] = n + 1
  BY TileCacheAssumption, BeginningLength DEF Rendered
<1>2. Len(Beginning(n)) = n /\ DOMAIN Beginning(n) = 1 .. n
      /\ \A i \in 1 .. n : Beginning(n)[i] = i
  BY <1>1, BeginningLength
<1>3. Written(Beginning(n), n + 1, n + 1) = [i \in 1 .. n + 1 |-> i]
  BY <1>1, <1>2 DEF Written
<1> QED
  BY <1>1, <1>3 DEF Beginning
-----------------------------------------------------------------------------
LEMMA TileInvStart == Init => TileInv
<1> SUFFICES ASSUME Init PROVE TileInv
  OBVIOUS
<1>1. << >> = Beginning(0) /\ Beginning(0) \in Beginnings
  BY EmptyBeginning
<1>2. FilesOK /\ CutOK
  BY DEF Init, FilesOK, CutOK
<1>3. ASSUME NEW t \in Threads PROVE ThreadOK(t) /\ WriterOK(t)
  BY <1>1, TileCacheAssumption DEF Init, Idle, ThreadOK, WriterOK
<1> QED
  BY <1>2, <1>3 DEF Init, TileInv

\* A step of one thread, on the way to anything but writing, that leaves the files and
\* the mutexes alone.
LEMMA QuietStep ==
  ASSUME TileInv, NEW t \in Threads, UNCHANGED <<file, svgMutex, pngMutex, cut>>,
         DOMAIN thread' = Threads, \A u \in Threads \ {t} : thread'[u] = thread[u],
         thread[t].at # "write", thread'[t].at # "write", ThreadOK(t)'
  PROVE  TileInv'
<1>1. FilesOK'
  BY DEF TileInv, FilesOK
<1>2. ASSUME NEW u \in Threads PROVE ThreadOK(u)' /\ WriterOK(u)'
  BY DEF TileInv, ThreadOK, WriterOK, MutexOf
<1>3. CutOK'
  BY DEF TileInv, CutOK, Writing
<1> QED
  BY <1>1, <1>2, <1>3 DEF TileInv

\* The reading of a request: it starts, the file is opened, read and read to its end.
LEMMA RequestInv ==
  ASSUME TileInv, NEW t \in Threads, NEW f \in Tiles, Request(t, f)
  PROVE  TileInv'
<1>1. << >> = Beginning(0) /\ Beginning(0) \in Beginnings
  BY EmptyBeginning
<1>2. /\ thread'[t] = [at |-> "open", tile |-> f, res |-> << >>, pos |-> 0]
      /\ DOMAIN thread' = Threads /\ \A u \in Threads \ {t} : thread'[u] = thread[u]
  BY DEF Request, TileInv
<1>3. ThreadOK(t)'
  BY <1>1, <1>2, TileCacheAssumption DEF ThreadOK
<1> QED
  BY <1>2, <1>3, QuietStep DEF Request

LEMMA OpenFoundInv ==
  ASSUME TileInv, NEW t \in Threads, OpenFound(t)
  PROVE  TileInv'
<1>1. DOMAIN thread' = Threads /\ \A u \in Threads \ {t} : thread'[u] = thread[u]
  BY DEF OpenFound, Goes, TileInv
<1>2. thread'[t].at = "read" /\ ThreadOK(t)'
  BY DEF OpenFound, Goes, TileInv, ThreadOK
<1> QED
  BY <1>1, <1>2, QuietStep DEF OpenFound

LEMMA ReadBlockInv ==
  ASSUME TileInv, NEW t \in Threads, ReadBlock(t)
  PROVE  TileInv'
<1> DEFINE f == thread[t].tile
           n == Len(thread[t].res)
<1>1. DOMAIN thread' = Threads /\ \A u \in Threads \ {t} : thread'[u] = thread[u]
  BY DEF ReadBlock, TileInv
<1>2. PICK k \in 0 .. Blocks : thread[t].res = Beginning(k)
  BY DEF TileInv, ThreadOK, Beginnings
<1>3. f \in Tiles /\ file[f] # Absent
  BY DEF ReadBlock, TileInv, ThreadOK
<1>4. PICK m \in 0 .. Blocks : file[f] = Beginning(m)
  BY <1>3 DEF TileInv, FilesOK, Beginnings
<1>5. k < m /\ n = k /\ file[f][n + 1] = k + 1
  <2>1. k \in Nat /\ m \in Nat
    BY TileCacheAssumption
  <2>2. Len(thread[t].res) = k /\ Len(file[f]) = m /\ \A i \in 1 .. m : file[f][i] = i
    BY <2>1, <1>2, <1>4, BeginningLength
  <2> QED BY <2>1, <2>2 DEF ReadBlock
<1>6. Append(thread[t].res, file[f][n + 1]) = Beginning(k + 1) /\ k + 1 \in 0 .. Blocks
  <2>1. k \in Nat /\ k + 1 \in 0 .. Blocks
    BY <1>5, TileCacheAssumption
  <2> QED BY <2>1, <1>2, <1>5, AppendToBeginning
<1>7. Beginning(k + 1) \in Beginnings
  BY <1>6 DEF Beginnings
<1>8. thread'[t] = [thread[t] EXCEPT !.res = Beginning(k + 1)]
  BY <1>6 DEF ReadBlock, TileInv
<1>9. thread'[t].at = "read" /\ ThreadOK(t)'
  BY <1>7, <1>8 DEF ReadBlock, TileInv, ThreadOK
<1> QED
  BY <1>1, <1>9, QuietStep DEF ReadBlock

LEMMA ReadEndInv ==
  ASSUME TileInv, NEW t \in Threads, ReadEnd(t)
  PROVE  TileInv'
<1>1. DOMAIN thread' = Threads /\ \A u \in Threads \ {t} : thread'[u] = thread[u]
  BY DEF ReadEnd, Goes, TileInv
<1>2. thread'[t].at = "answer" /\ ThreadOK(t)'
  BY DEF ReadEnd, Goes, TileInv, ThreadOK
<1> QED
  BY <1>1, <1>2, QuietStep DEF ReadEnd

\* The steps around the writing of a file: rendering, a file that cannot be written,
\* and the answer.
LEMMA RenderInv ==
  ASSUME TileInv, NEW t \in Threads, Render(t)
  PROVE  TileInv'
<1>1. DOMAIN thread' = Threads /\ \A u \in Threads \ {t} : thread'[u] = thread[u]
  BY DEF Render, TileInv
<1>2. Rendered \in Beginnings
  BY TileCacheAssumption DEF Rendered, Beginnings
<1>3. /\ thread'[t].at \in {"answer", "lock"} /\ thread'[t].res = Rendered
      /\ thread'[t].tile = thread[t].tile /\ thread'[t].pos = thread[t].pos
      /\ thread'[t] \in [at : {"answer", "lock"}, tile : Tiles \cup {NoTile},
                         res : Beginnings, pos : 0 .. Blocks]
  BY <1>2 DEF Render, TileInv, ThreadOK
<1>4. ThreadOK(t)'
  BY <1>3 DEF Render, TileInv, ThreadOK
<1> QED
  BY <1>1, <1>3, <1>4, QuietStep DEF Render

LEMMA OpenFailsInv ==
  ASSUME TileInv, NEW t \in Threads, OpenFails(t)
  PROVE  TileInv'
<1>1. DOMAIN thread' = Threads /\ \A u \in Threads \ {t} : thread'[u] = thread[u]
  BY DEF OpenFails, Goes, TileInv
<1>2. thread'[t].at = "answer" /\ ThreadOK(t)'
  BY DEF OpenFails, Goes, TileInv, ThreadOK
<1> QED
  BY <1>1, <1>2, QuietStep DEF OpenFails

LEMMA DirectoryFailsInv ==
  ASSUME TileInv, NEW t \in Threads, DirectoryFails(t)
  PROVE  TileInv'
<1>1. DOMAIN thread' = Threads /\ \A u \in Threads \ {t} : thread'[u] = thread[u]
  BY DEF DirectoryFails, Goes, TileInv
<1>2. thread'[t].at = "thrown" /\ ThreadOK(t)'
  BY DEF DirectoryFails, Goes, TileInv, ThreadOK
<1> QED
  BY <1>1, <1>2, QuietStep DEF DirectoryFails

\* A request ends, answered or dropped.
LEMMA AnswerInv ==
  ASSUME TileInv, NEW t \in Threads, Answer(t) \/ Drop(t)
  PROVE  TileInv'
<1>1. << >> = Beginning(0) /\ Beginning(0) \in Beginnings
  BY EmptyBeginning
<1>2. /\ thread'[t] = Idle /\ DOMAIN thread' = Threads
      /\ \A u \in Threads \ {t} : thread'[u] = thread[u]
  BY DEF Answer, Drop, TileInv
<1>3. thread'[t].at = "idle" /\ ThreadOK(t)'
  BY <1>1, <1>2, TileCacheAssumption DEF ThreadOK, Idle
<1> QED
  BY <1>2, <1>3, QuietStep DEF Answer, Drop
-----------------------------------------------------------------------------
\* At most one thread writes a tile, for it has the mutex of the tile.
LEMMA OneWriter ==
  ASSUME TileInv, NEW f \in Tiles, NEW t \in Threads, NEW u \in Threads,
         Writing(t, f), Writing(u, f)
  PROVE  t = u
BY DEF TileInv, WriterOK, Writing

\* The file is emptied under the mutex, which nobody else of the class has.
LEMMA OpenForWritingInv ==
  ASSUME TileInv, NEW t \in Threads, OpenForWriting(t)
  PROVE  TileInv'
<1>1. PICK f \in Tiles : f = thread[t].tile /\ thread[t].pos = 0 /\ thread[t].res = Rendered
  BY DEF OpenForWriting, TileInv, ThreadOK
<1>2. << >> = Beginning(0) /\ Beginning(0) \in Beginnings /\ Beginning(0) # Absent
  BY EmptyBeginning
<1>3. /\ DOMAIN file' = Tiles /\ file'[f] = Beginning(0)
      /\ \A g \in Tiles \ {f} : file'[g] = file[g]
  BY <1>1, <1>2 DEF OpenForWriting, TileInv, FilesOK
<1>4. /\ DOMAIN thread' = Threads /\ thread'[t] = [thread[t] EXCEPT !.at = "write"]
      /\ \A u \in Threads \ {t} : thread'[u] = thread[u]
  BY DEF OpenForWriting, Lock, Goes, TileInv
<1>5. MutexOf(f)' = t /\ \A g \in Tiles : MutexOf(g)' # MutexOf(g) => MutexOf(g) = NoThread
  BY <1>1, TileCacheAssumption DEF OpenForWriting, Lock, MutexOf, Tiles
<1>6. FilesOK'
  BY <1>2, <1>3 DEF TileInv, FilesOK
<1>7. ThreadOK(t)' /\ WriterOK(t)' /\ Writing(t, f)'
  BY <1>1, <1>3, <1>4, <1>5 DEF TileInv, ThreadOK, WriterOK, Writing
<1>8. ASSUME NEW u \in Threads, u # t PROVE ThreadOK(u)' /\ WriterOK(u)'
  <2>1. ThreadOK(u)'
    BY <1>2, <1>3, <1>4, <1>8 DEF TileInv, ThreadOK
  <2>2. CASE thread[u].at = "write"
    <3>1. PICK g \in Tiles : g = thread[u].tile /\ MutexOf(g) = u
      BY <2>2 DEF TileInv, ThreadOK, WriterOK
    <3>2. MutexOf(g)' = u /\ g # f
      BY <3>1, <1>5, <1>8, TileCacheAssumption
    <3> QED BY <2>2, <3>1, <3>2, <2>1, <1>3, <1>4, <1>8 DEF TileInv, WriterOK
  <2> QED BY <2>1, <2>2, <1>4, <1>8 DEF WriterOK
<1>9. CutOK'
  <2> SUFFICES ASSUME NEW g \in Tiles, file'[g] # Absent, file'[g] # Rendered, g \notin cut'
               PROVE  \E u \in Threads : Writing(u, g)'
    BY DEF CutOK, Rendered
  <2>1. CASE g = f
    BY <2>1, <1>7
  <2>2. CASE g # f
    <3>1. PICK u \in Threads : Writing(u, g)
      BY <2>2, <1>3 DEF OpenForWriting, TileInv, CutOK
    <3> QED BY <3>1, <1>4 DEF OpenForWriting, Writing
  <2> QED BY <2>1, <2>2
<1> QED
  BY <1>4, <1>6, <1>7, <1>8, <1>9 DEF TileInv

\* The block goes to the end of the file, which is where the thread is.
LEMMA WriteBlockInv ==
  ASSUME TileInv, NEW t \in Threads, WriteBlock(t)
  PROVE  TileInv'
<1>1. PICK f \in Tiles, n \in 0 .. Blocks - 1 :
        /\ f = thread[t].tile /\ n = thread[t].pos /\ thread[t].res = Rendered
        /\ file[f] = Beginning(n) /\ Writing(t, f)
  BY TileCacheAssumption DEF WriteBlock, TileInv, ThreadOK, WriterOK, Writing
<1>2. Beginning(n + 1) \in Beginnings /\ Beginning(n + 1) # Absent
  <2>1. n + 1 \in 0 .. Blocks
    BY <1>1, TileCacheAssumption
  <2> QED BY <2>1, EmptyBeginning DEF Beginnings
<1>3. /\ DOMAIN file' = Tiles /\ file'[f] = Beginning(n + 1)
      /\ \A g \in Tiles \ {f} : file'[g] = file[g]
  BY <1>1, WriteToBeginning DEF WriteBlock, TileInv, FilesOK
<1>4. /\ DOMAIN thread' = Threads /\ thread'[t] = [thread[t] EXCEPT !.pos = n + 1]
      /\ \A u \in Threads \ {t} : thread'[u] = thread[u]
  BY <1>1 DEF WriteBlock, TileInv
<1>5. FilesOK'
  BY <1>2, <1>3 DEF TileInv, FilesOK
<1>6. ThreadOK(t)' /\ WriterOK(t)' /\ Writing(t, f)'
  <2>1. n + 1 \in 0 .. Blocks /\ thread[t].at = "write"
    BY <1>1, TileCacheAssumption DEF WriteBlock
  <2>2. thread'[t].at = "write" /\ thread'[t].pos = n + 1 /\ thread'[t].tile = f
        /\ thread'[t].res = Rendered
        /\ thread'[t] \in [at : {"write"}, tile : Tiles, res : Beginnings, pos : 0 .. Blocks]
    BY <1>1, <1>4, <2>1 DEF TileInv, ThreadOK
  <2>3. MutexOf(f)' = t
    BY <1>1, <2>1 DEF WriteBlock, TileInv, WriterOK, MutexOf
  <2> QED BY <1>1, <1>3, <2>2, <2>3 DEF ThreadOK, WriterOK, Writing
<1>7. ASSUME NEW u \in Threads, u # t PROVE ThreadOK(u)' /\ WriterOK(u)'
  <2>1. ThreadOK(u)'
    BY <1>2, <1>3, <1>4, <1>7 DEF TileInv, ThreadOK
  <2>2. CASE thread[u].at = "write"
    <3>1. thread[u].tile # f /\ thread[u].tile \in Tiles
      BY <1>1, <1>7, <2>2, OneWriter DEF TileInv, ThreadOK, Writing
    <3> QED BY <2>1, <3>1, <1>3, <1>4, <1>7 DEF WriteBlock, TileInv, WriterOK, MutexOf
  <2> QED BY <2>1, <2>2, <1>4, <1>7 DEF WriterOK
<1>8. CutOK'
  <2> SUFFICES ASSUME NEW g \in Tiles, file'[g] # Absent, file'[g] # Rendered, g \notin cut'
               PROVE  \E u \in Threads : Writing(u, g)'
    BY DEF CutOK, Rendered
  <2>1. CASE g = f
    BY <2>1, <1>6
  <2>2. CASE g # f
    <3>1. PICK u \in Threads : Writing(u, g)
      BY <2>2, <1>3 DEF WriteBlock, TileInv, CutOK
    <3> QED BY <3>1, <1>1, <2>2, <1>4 DEF WriteBlock, Writing
  <2> QED BY <2>1, <2>2
<1> QED
  BY <1>4, <1>5, <1>6, <1>7, <1>8 DEF TileInv

\* A thread leaves its file, which is then whole or cut, and gives its mutex back.
LEMMA LeaveFile ==
  ASSUME TileInv, NEW t \in Threads, thread[t].at = "write", Goes(t, "answer"), Unlock(t),
         UNCHANGED file,
         \/ file[thread[t].tile] = Rendered /\ cut' = cut \ {thread[t].tile}
         \/ cut' = cut \cup {thread[t].tile}
  PROVE  TileInv'
<1>1. PICK f \in Tiles : f = thread[t].tile /\ Writing(t, f)
  BY DEF TileInv, ThreadOK, Writing
<1>2. /\ DOMAIN thread' = Threads /\ thread'[t] = [thread[t] EXCEPT !.at = "answer"]
      /\ \A u \in Threads \ {t} : thread'[u] = thread[u]
  BY DEF Goes, TileInv
<1>3. FilesOK'
  BY DEF TileInv, FilesOK
<1>4. ThreadOK(t)' /\ thread'[t].at = "answer"
  BY <1>2 DEF TileInv, ThreadOK
<1>5. ASSUME NEW u \in Threads, u # t PROVE ThreadOK(u)' /\ WriterOK(u)'
  BY <1>2, <1>5 DEF TileInv, ThreadOK, WriterOK, Unlock, MutexOf
<1>6. CutOK'
  <2> SUFFICES ASSUME NEW g \in Tiles, file'[g] # Absent, file'[g] # Rendered, g \notin cut'
               PROVE  \E u \in Threads : Writing(u, g)'
    BY DEF CutOK, Rendered
  <2>1. g # f /\ g \notin cut
    BY <1>1
  <2>2. PICK u \in Threads : Writing(u, g)
    BY <2>1 DEF TileInv, CutOK
  <2> QED BY <2>1, <2>2, <1>2 DEF Writing
<1> QED
  BY <1>2, <1>3, <1>4, <1>5, <1>6 DEF TileInv, WriterOK

\* A crash leaves the files that were being written cut.
LEMMA CrashInv ==
  ASSUME TileInv, Crash
  PROVE  TileInv'
<1>1. << >> = Beginning(0) /\ Beginning(0) \in Beginnings
  BY EmptyBeginning
<1>2. /\ DOMAIN thread' = Threads
      /\ \A t \in Threads : thread'[t] = [at |-> "down", tile |-> NoTile, res |-> << >>, pos |-> 0]
  BY DEF Crash, Idle
<1>3. FilesOK'
  BY DEF Crash, TileInv, FilesOK
<1>4. ASSUME NEW t \in Threads PROVE ThreadOK(t)' /\ WriterOK(t)'
  BY <1>1, <1>2, TileCacheAssumption DEF ThreadOK, WriterOK
<1>5. CutOK'
  BY DEF Crash, TileInv, CutOK, Writing
<1> QED
  BY <1>2, <1>3, <1>4, <1>5 DEF TileInv

\* The server started again finds the files as they are.
LEMMA RestartInv ==
  ASSUME TileInv, Restart
  PROVE  TileInv'
<1>1. << >> = Beginning(0) /\ Beginning(0) \in Beginnings
  BY EmptyBeginning
<1>2. DOMAIN thread' = Threads /\ \A t \in Threads : thread'[t] = Idle
  BY DEF Restart
<1>3. FilesOK'
  BY DEF Restart, TileInv, FilesOK
<1>4. ASSUME NEW t \in Threads PROVE ThreadOK(t)' /\ WriterOK(t)'
  BY <1>1, <1>2, TileCacheAssumption DEF ThreadOK, WriterOK, Idle
<1>5. CutOK'
  BY DEF Restart, TileInv, CutOK, Writing
<1> QED
  BY <1>2, <1>3, <1>4, <1>5 DEF TileInv
-----------------------------------------------------------------------------
LEMMA TileInvStep == TileInv /\ [Next]_vars => TileInv'
<1> SUFFICES ASSUME TileInv, [Next]_vars PROVE TileInv'
  OBVIOUS
<1>1. CASE UNCHANGED vars
  <2>1. FilesOK' /\ CutOK'
    BY <1>1 DEF TileInv, FilesOK, CutOK, Writing, vars
  <2>2. \A t \in Threads : ThreadOK(t)' /\ WriterOK(t)'
    BY <1>1 DEF TileInv, ThreadOK, WriterOK, MutexOf, vars
  <2> QED BY <1>1, <2>1, <2>2 DEF TileInv, vars
<1>2. ASSUME NEW t \in Threads, Step(t) PROVE TileInv'
  <2>1. CASE CloseFile(t)
    <3>1. file[thread[t].tile] = Rendered
      BY <2>1 DEF CloseFile, TileInv, WriterOK, Rendered
    <3> QED BY <2>1, <3>1, LeaveFile DEF CloseFile
  <2>2. CASE WriteFails(t)
    BY <2>2, LeaveFile DEF WriteFails
  <2> QED
    BY <1>2, <2>1, <2>2, OpenFoundInv, ReadBlockInv, ReadEndInv, RenderInv,
       DirectoryFailsInv, OpenForWritingInv, OpenFailsInv, WriteBlockInv, AnswerInv DEF Step
<1>3. ASSUME NEW t \in Threads, NEW f \in Tiles, Request(t, f) PROVE TileInv'
  BY <1>3, RequestInv
<1>4. CASE Crash \/ Restart
  BY <1>4, CrashInv, RestartInv
<1> QED
  BY <1>1, <1>2, <1>3, <1>4 DEF Next

\* The inductive invariant holds in every reachable state.
THEOREM TileInvariance == Spec => []TileInv
<1> QED
  BY TileInvStart, TileInvStep, PTL DEF Spec

\* A cache file is a beginning of the tile at all times, whichever threads write it, and
\* however often the server dies or the disk is full.
THEOREM FilesCorrect == Spec => []FilesAreBeginnings
<1>1. TileInv => FilesAreBeginnings
  BY BeginningIsPrefix DEF TileInv, FilesOK, FilesAreBeginnings
<1> QED
  BY <1>1, TileInvariance, PTL

\* What a thread reads without the mutex is a beginning of the tile as well.
THEOREM AnswersCorrect == Spec => []AnswersAreBeginnings
<1>1. TileInv => AnswersAreBeginnings
  BY BeginningIsPrefix DEF TileInv, ThreadOK, AnswersAreBeginnings
<1> QED
  BY <1>1, TileInvariance, PTL

\* A file that lacks its end and was not cut is being written, by one thread.
THEOREM ShortFilesExplained == Spec => []ShortFilesAreExplained
<1>1. TileInv => ShortFilesAreExplained
  BY OneWriter DEF TileInv, CutOK, ShortFilesAreExplained
<1> QED
  BY <1>1, TileInvariance, PTL
=============================================================================
