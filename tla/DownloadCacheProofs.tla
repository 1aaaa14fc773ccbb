------------------------ MODULE DownloadCacheProofs ------------------------
(***************************************************************************)
(* Theorems about DownloadCache, for every number of commands, files and   *)
(* pieces, and any number of failures.                                     *)
(***************************************************************************)
EXTENDS DownloadCache, TLAPS

-----------------------------------------------------------------------------
(* Types *)

\* A file that is created has an inode, whether it was there or not.
LEMMA CreateType ==
  ASSUME TypeOK, NEW c \in Callers, NEW path \in {tmp, cache, binary}, Create(c, path)
  PROVE  \E f \in Inodes :
           /\ IF path = None THEN f \notin {tmp, cache, binary} ELSE f = path
           /\ data' = [data EXCEPT ![f] = {}]
           /\ fd' = [fd EXCEPT ![c] = f] /\ fd'[c] = f
           /\ pos' = [pos EXCEPT ![c] = 1]
  <1> DEFINE f == IF path = None THEN NewInode ELSE path
  <1>1. path = None => NewInode \in Unused
    BY DEF Create, NewInode
  <1>2. f \in Inodes /\ (path = None => f \notin {tmp, cache, binary})
    BY <1>1 DEF Unused, TypeOK
  <1>3. /\ data' = [data EXCEPT ![f] = {}]
        /\ fd' = [fd EXCEPT ![c] = f]
        /\ pos' = [pos EXCEPT ![c] = 1]
    BY DEF Create
  <1>4. fd'[c] = f
    BY <1>3 DEF TypeOK
  <1> HIDE DEF f
  <1>5. path # None => f = path
    BY DEF f
  <1> QED
    BY <1>2, <1>3, <1>4, <1>5

LEMMA PutType ==
  ASSUME TypeOK, NEW c \in Callers, pos[c] <= Pieces, Put(c)
  PROVE  /\ pos[c] \in Whole
         /\ data' \in [Inodes -> SUBSET Whole]
         /\ pos' \in [Callers -> 1..(Pieces + 1)]
         /\ UNCHANGED <<src, holds, tmp, cache, binary, link, pc, fd, archive, faults, overlap,
                        cut>>
  <1>1. pos[c] \in 1..(Pieces + 1) /\ Pieces \in Nat
    BY Parameters DEF TypeOK
  <1>2. pos[c] \in Whole /\ pos[c] + 1 \in 1..(Pieces + 1)
    BY <1>1 DEF Whole
  <1> QED
    BY <1>2 DEF Put, TypeOK, wanted, paths, history

\* A file that a command wrote every piece of is complete.
LEMMA WholeWritten ==
  ASSUME TypeOK, NEW c \in Callers, pos[c] > Pieces,
         NEW f \in Inodes, 1..(pos[c] - 1) \subseteq data[f]
  PROVE  Complete(f)
  <1>1. pos[c] \in 1..(Pieces + 1) /\ Pieces \in Nat
    BY Parameters DEF TypeOK
  <1>2. Whole \subseteq 1..(pos[c] - 1)
    BY <1>1 DEF Whole
  <1>3. data[f] \subseteq Whole
    BY DEF TypeOK
  <1>4. Whole \subseteq data[f]
    BY <1>2
  <1> QED
    BY <1>3, <1>4 DEF Complete

\* The inodes that the paths name: no file has two names.
PathsInv ==
  /\ tmp # None => tmp \notin {cache, binary}
  /\ cache # None => cache # binary

\* Only an archive without the binary is removed with nothing unpacked.
CleanInv == \A c \in Callers : pc[c] = "clean" => ~holds

TypeInv == TypeOK /\ PathsInv /\ CleanInv

LEMMA TypeInit == Init => TypeInv
  <1> SUFFICES ASSUME Init PROVE TypeInv
    OBVIOUS
  <1>1. (CHOOSE f \in Inodes : TRUE) \in Inodes
    BY Parameters
  <1>2. cache \in Inodes \cup {None}
    BY <1>1 DEF Init
  <1>3. PathsInv /\ {tmp, cache, binary} \subseteq Inodes \cup {None}
    BY <1>2, Parameters DEF Init, PathsInv
  <1>4. data \in [Inodes -> SUBSET Whole]
    BY DEF Init
  <1>5. 1 \in 1..(Pieces + 1) /\ 0 \in 0..MaxFaults
    BY Parameters
  <1> QED
    BY <1>3, <1>4, <1>5 DEF Init, TypeInv, TypeOK, CleanInv, Sources

LEMMA TypeStep == TypeInv /\ [Next]_vars => TypeInv'
  <1> SUFFICES ASSUME TypeInv, [Next]_vars PROVE TypeInv'
    OBVIOUS
  <1>A. 1 \in 1..(Pieces + 1)
    BY Parameters
  <1>F. ASSUME faults < MaxFaults PROVE faults + 1 \in 0..MaxFaults
    BY <1>F, Parameters DEF TypeInv, TypeOK
  <1> USE Parameters
      DEF TypeInv, TypeOK, PathsInv, CleanInv, Sources, Whole, wanted, paths, locals, history,
          Goto
  <1>1. ASSUME NEW c \in Callers, Stat(c) PROVE TypeInv'
    BY <1>1 DEF Stat
  <1>2. ASSUME NEW c \in Callers, StatBinary(c) PROVE TypeInv'
    BY <1>2 DEF StatBinary
  <1>3. ASSUME NEW c \in Callers, StatCache(c) PROVE TypeInv'
    BY <1>3 DEF StatCache, Found
  <1>4. ASSUME NEW c \in Callers, Open(c) PROVE TypeInv'
    <2>1. PICK f \in Inodes :
            /\ IF tmp = None THEN f \notin {tmp, cache, binary} ELSE f = tmp
            /\ data' = [data EXCEPT ![f] = {}]
            /\ fd' = [fd EXCEPT ![c] = f] /\ fd'[c] = f
            /\ pos' = [pos EXCEPT ![c] = 1]
      BY <1>4, CreateType DEF Open
    <2>2. data' \in [Inodes -> SUBSET Whole]
      BY <2>1
    <2>3. pos' \in [Callers -> 1..(Pieces + 1)]
      BY <1>A, <2>1
    <2>4. PathsInv'
      BY <1>4, <2>1 DEF Open
    <2> QED
      BY <1>4, <2>1, <2>2, <2>3, <2>4 DEF Open
  <1>5. ASSUME NEW c \in Callers, Copy(c) PROVE TypeInv'
    BY <1>5, PutType DEF Copy
  <1>6. ASSUME NEW c \in Callers, Rename(c) PROVE TypeInv'
    BY <1>6 DEF Rename, Renamed, Found
  <1>7. ASSUME NEW c \in Callers, RenameFails(c) PROVE TypeInv'
    BY <1>7 DEF RenameFails, Fail
  <1>8. ASSUME NEW c \in Callers, Unpack(c) PROVE TypeInv'
    <2>1. PICK f \in Inodes :
            /\ IF binary = None THEN f \notin {tmp, cache, binary} ELSE f = binary
            /\ data' = [data EXCEPT ![f] = {}]
            /\ fd' = [fd EXCEPT ![c] = f] /\ fd'[c] = f
            /\ pos' = [pos EXCEPT ![c] = 1]
      BY <1>8, CreateType DEF Unpack
    <2>2. data' \in [Inodes -> SUBSET Whole]
      BY <2>1
    <2>3. pos' \in [Callers -> 1..(Pieces + 1)]
      BY <1>A, <2>1
    <2>4. PathsInv'
      BY <1>8, <2>1 DEF Unpack
    <2>5. /\ archive' \in [Callers -> Inodes \cup {None}]
          /\ fd' \in [Callers -> Inodes \cup {None}]
          /\ {tmp', cache', binary'} \subseteq Inodes \cup {None}
      BY <1>8, <2>1 DEF Unpack
    <2> QED
      BY <1>8, <2>2, <2>3, <2>4, <2>5 DEF Unpack
  <1>9. ASSUME NEW c \in Callers, UnpackFails(c) PROVE TypeInv'
    BY <1>9 DEF UnpackFails, Fail
  <1>19. ASSUME NEW c \in Callers, UnpackNothing(c) PROVE TypeInv'
    BY <1>19 DEF UnpackNothing
  <1>10. ASSUME NEW c \in Callers, Write(c) PROVE TypeInv'
    BY <1>10, PutType DEF Write
  <1>11. ASSUME NEW c \in Callers, WriteFails(c) PROVE TypeInv'
    BY <1>11 DEF WriteFails, Fail
  <1>12. ASSUME NEW c \in Callers, RemoveArchive(c) PROVE TypeInv'
    BY <1>12 DEF RemoveArchive, Removed
  <1>13. ASSUME NEW c \in Callers, Link(c) PROVE TypeInv'
    BY <1>13 DEF Link
  <1>14. ASSUME NEW c \in Callers, LinkFails(c) PROVE TypeInv'
    BY <1>14 DEF LinkFails, Fail
  <1>15. ASSUME NEW c \in Callers, Again(c) PROVE TypeInv'
    BY <1>15 DEF Again, Fail
  <1>16. ASSUME NEW c \in Callers, Crash(c) PROVE TypeInv'
    BY <1>16, <1>F DEF Crash, Fail
  <1>17. CASE RemoveCache
    BY <1>17, <1>F DEF RemoveCache
  <1>18. CASE UNCHANGED vars
    BY <1>18 DEF vars
  <1> QED
    BY <1>1, <1>2, <1>3, <1>4, <1>5, <1>6, <1>7, <1>8, <1>9, <1>10, <1>11, <1>12,
       <1>13, <1>14, <1>15, <1>16, <1>17, <1>18, <1>19 DEF Next, Step

\* Every path names a file or none, and every command writes within the file.
THEOREM TypeCorrect == Spec => []TypeOK
  <1>1. TypeInv => TypeOK
    BY DEF TypeInv
  <1> QED
    BY TypeInit, TypeStep, <1>1, PTL DEF Spec

-----------------------------------------------------------------------------
(* Commands that download together *)

\* Whoever of several commands truncated the file last writes it from its first
\* piece on.  So a file that has a name is complete, or the command that will
\* complete it is still at work, also after another one has renamed it.
RestInv ==
  faults = 0 =>
    \A f \in {tmp, cache} \ {None} :
      \/ Complete(f)
      \/ \E c \in Callers :
           pc[c] = "copy" /\ fd[c] = f /\ 1..(pos[c] - 1) \subseteq data[f]

LEMMA RestInit == Init => RestInv
  <1>1. Init => tmp = None /\ cache \in Inodes \cup {None}
    BY TypeInit DEF TypeInv, TypeOK, Init
  <1>2. Init => data = [f \in Inodes |-> IF f = cache THEN Whole ELSE {}]
    BY DEF Init
  <1> QED
    BY <1>1, <1>2 DEF RestInv, Complete

LEMMA RestStep == TypeInv /\ RestInv /\ [Next]_vars => RestInv'
  <1> SUFFICES ASSUME TypeInv, RestInv, [Next]_vars, faults' = 0 PROVE RestInv'
    BY DEF RestInv
  <1> USE DEF TypeInv, TypeOK, PathsInv, RestInv, Complete, wanted, paths, locals, history, Goto
  <1>1. ASSUME NEW c \in Callers, Stat(c) PROVE RestInv'
    BY <1>1 DEF Stat
  <1>2. ASSUME NEW c \in Callers, StatBinary(c) PROVE RestInv'
    BY <1>2 DEF StatBinary
  <1>3. ASSUME NEW c \in Callers, StatCache(c) PROVE RestInv'
    BY <1>3 DEF StatCache, Found
  <1>4. ASSUME NEW c \in Callers, Open(c) PROVE RestInv'
    <2>1. PICK f \in Inodes :
            /\ IF tmp = None THEN f \notin {tmp, cache, binary} ELSE f = tmp
            /\ data' = [data EXCEPT ![f] = {}]
            /\ fd' = [fd EXCEPT ![c] = f] /\ fd'[c] = f
            /\ pos' = [pos EXCEPT ![c] = 1]
      BY <1>4, CreateType DEF Open
    <2>2. /\ pc'[c] = "copy" /\ fd'[c] = tmp' /\ 1..(pos'[c] - 1) = {}
          /\ tmp' = f /\ cache' = cache /\ cache # f /\ faults' = faults
      BY <1>4, <2>1, Parameters DEF Open
    <2>3. ASSUME NEW d \in Callers, pc[d] = "copy"
          PROVE  d # c /\ pc'[d] = "copy" /\ fd'[d] = fd[d] /\ pos'[d] = pos[d]
      BY <1>4, <2>1, <2>3 DEF Open
    <2>4. cache # None => data'[cache] = data[cache]
      BY <2>1, <2>2
    <2> QED
      BY <2>2, <2>3, <2>4
  <1>5. ASSUME NEW c \in Callers, Copy(c) PROVE RestInv'
    <2>1. pos[c] \in Whole /\ UNCHANGED <<tmp, cache, pc, fd, faults>>
      BY <1>5, PutType DEF Copy
    <2>2. /\ data' = [data EXCEPT ![fd[c]] = @ \cup {pos[c]}]
          /\ pos' = [pos EXCEPT ![c] = @ + 1]
      BY <1>5 DEF Copy, Put
    <2>3. ASSUME NEW f \in Inodes, Complete(f) PROVE data'[f] = Whole
      BY <2>1, <2>2, <2>3
    <2>4. ASSUME NEW d \in Callers, fd[d] \in Inodes, 1..(pos[d] - 1) \subseteq data[fd[d]]
          PROVE  1..(pos'[d] - 1) \subseteq data'[fd[d]]
      <3>1. CASE d = c
        <4>1. 1..(pos'[c] - 1) = 1..(pos[c] - 1) \cup {pos[c]}
          BY <2>1, <2>2 DEF Whole
        <4> QED
          BY <2>2, <2>4, <3>1, <4>1
      <3>2. CASE d # c
        BY <2>2, <2>4, <3>2
      <3> QED
        BY <3>1, <3>2
    <2> QED
      BY <2>1, <2>3, <2>4
  <1>6. ASSUME NEW c \in Callers, Rename(c) PROVE RestInv'
    <2>1. tmp \in Inodes /\ cache' = tmp /\ tmp' = None
      BY <1>6 DEF Rename, Renamed
    <2>2. UNCHANGED <<data, fd, pos, faults>> /\ \A d \in Callers \ {c} : pc'[d] = pc[d]
      BY <1>6 DEF Rename, Renamed
    <2>3. 1..(pos[c] - 1) \subseteq data[tmp] => Complete(tmp)
      BY <1>6, <2>1, WholeWritten DEF Rename
    <2> QED
      BY <2>1, <2>2, <2>3
  <1>7. ASSUME NEW c \in Callers, RenameFails(c) PROVE RestInv'
    <2>1. UNCHANGED <<tmp, cache, data, fd, pos, faults>> /\ \A d \in Callers \ {c} : pc'[d] = pc[d]
      BY <1>7 DEF RenameFails, Fail
    <2>2. ASSUME NEW f \in Inodes, 1..(pos[c] - 1) \subseteq data[f] PROVE Complete(f)
      BY <1>7, <2>2, WholeWritten DEF RenameFails
    <2> QED
      BY <2>1, <2>2
  <1>8. ASSUME NEW c \in Callers, Unpack(c) PROVE RestInv'
    <2>1. PICK f \in Inodes :
            /\ IF binary = None THEN f \notin {tmp, cache, binary} ELSE f = binary
            /\ data' = [data EXCEPT ![f] = {}]
            /\ fd' = [fd EXCEPT ![c] = f] /\ fd'[c] = f
            /\ pos' = [pos EXCEPT ![c] = 1]
      BY <1>8, CreateType DEF Unpack
    <2>2. UNCHANGED <<tmp, cache, faults>> /\ f \notin {tmp, cache}
      BY <1>8, <2>1 DEF Unpack
    <2>3. ASSUME NEW d \in Callers, pc[d] = "copy"
          PROVE  pc'[d] = "copy" /\ fd'[d] = fd[d] /\ pos'[d] = pos[d]
      BY <1>8, <2>1, <2>3 DEF Unpack
    <2>4. \A g \in {tmp, cache} \ {None} : data'[g] = data[g]
      BY <2>1, <2>2
    <2> QED
      BY <2>2, <2>3, <2>4
  <1>9. ASSUME NEW c \in Callers, UnpackFails(c) PROVE RestInv'
    BY <1>9 DEF UnpackFails, Fail
  <1>19. ASSUME NEW c \in Callers, UnpackNothing(c) PROVE RestInv'
    BY <1>19 DEF UnpackNothing
  <1>10. ASSUME NEW c \in Callers, Write(c) PROVE RestInv'
    <2>1. pos[c] \in Whole /\ UNCHANGED <<tmp, cache, pc, fd, faults>>
      BY <1>10, PutType DEF Write
    <2>2. /\ data' = [data EXCEPT ![fd[c]] = @ \cup {pos[c]}]
          /\ \A d \in Callers \ {c} : pos'[d] = pos[d]
      BY <1>10 DEF Write, Put
    <2>3. \A f \in Inodes : data[f] \subseteq data'[f] /\ (data[f] = Whole => data'[f] = Whole)
      BY <2>1, <2>2
    <2>4. pc[c] # "copy"
      BY <1>10 DEF Write
    <2> QED
      BY <2>1, <2>2, <2>3, <2>4
  <1>11. ASSUME NEW c \in Callers, WriteFails(c) PROVE RestInv'
    BY <1>11 DEF WriteFails, Fail
  <1>12. ASSUME NEW c \in Callers, RemoveArchive(c) PROVE RestInv'
    BY <1>12 DEF RemoveArchive, Removed
  <1>13. ASSUME NEW c \in Callers, Link(c) PROVE RestInv'
    BY <1>13 DEF Link
  <1>14. ASSUME NEW c \in Callers, LinkFails(c) PROVE RestInv'
    BY <1>14 DEF LinkFails, Fail
  <1>15. ASSUME NEW c \in Callers, Again(c) PROVE RestInv'
    BY <1>15 DEF Again, Fail
  <1>16. ASSUME NEW c \in Callers, Crash(c) PROVE RestInv'
    BY <1>16 DEF Crash
  <1>17. CASE RemoveCache
    BY <1>17 DEF RemoveCache
  <1>18. CASE UNCHANGED vars
    BY <1>18 DEF vars
  <1> QED
    BY <1>1, <1>2, <1>3, <1>4, <1>5, <1>6, <1>7, <1>8, <1>9, <1>10, <1>11, <1>12,
       <1>13, <1>14, <1>15, <1>16, <1>17, <1>18, <1>19 DEF Next, Step

\* DownloadWithCache, however many commands run it together: when nothing failed
\* and all are done, the file in the cache is complete.
THEOREM DownloadsSettle == Spec => []CompleteAtRest
  <1>1. TypeInv /\ RestInv => CompleteAtRest
    BY DEF TypeInv, TypeOK, RestInv, CompleteAtRest
  <1> QED
    BY TypeInit, TypeStep, RestInit, RestStep, <1>1, PTL DEF Spec

-----------------------------------------------------------------------------
(* Commands that download one at a time *)

AtWork(c) == pc[c] \notin {"start", "linked"}

Alone == \A c, d \in Callers : AtWork(c) /\ AtWork(d) => c = d

\* What is downloaded is not in the cache yet.
CopyInv ==
  \A c \in Callers : pc[c] = "copy" =>
    /\ fd[c] \in Inodes \ {cache, binary} /\ tmp \in {fd[c], None}
    /\ 1..(pos[c] - 1) \subseteq data[fd[c]]

\* What is unpacked comes from a complete archive, which stays until the binary
\* is complete.  An archive of the user's own and its binary keep their names.
WriteInv ==
  \A c \in Callers : pc[c] = "write" =>
    /\ fd[c] \in Inodes /\ archive[c] \in Inodes \ {fd[c]} /\ Complete(archive[c])
    /\ binary \in {fd[c], None} /\ cache \in {archive[c], None}
    /\ 1..(pos[c] - 1) \subseteq data[fd[c]]
    /\ src = "own archive" => binary = fd[c] /\ cache = archive[c]

OwnKept ==
  holds /\ src = "own archive" /\ cache = None => binary # None /\ Complete(binary)

Sound ==
  /\ Alone /\ CopyInv /\ WriteInv
  /\ CacheComplete /\ BinaryComplete /\ OwnKept

AloneInv == ~overlap => Sound

LEMMA AloneInit == Init => AloneInv
  <1>1. Init => cache \in Inodes \cup {None}
    BY TypeInit DEF TypeInv, TypeOK
  <1>2. Init => data = [f \in Inodes |-> IF f = cache THEN Whole ELSE {}]
    BY DEF Init
  <1>3. Init => CacheComplete
    BY <1>1, <1>2 DEF CacheComplete, Complete
  <1>4. Init => Alone /\ CopyInv /\ WriteInv
    BY DEF Init, Alone, AtWork, CopyInv, WriteInv
  <1>5. Init => BinaryComplete /\ OwnKept
    <2>1. (CHOOSE f \in Inodes : TRUE) # None
      BY Parameters
    <2> QED
      BY <2>1 DEF Init, BinaryComplete, OwnKept
  <1> QED
    BY <1>3, <1>4, <1>5 DEF AloneInv, Sound

\* A command that looks at files, links or gives up does no harm, unless it was
\* unpacking.
LEMMA Quiet ==
  ASSUME TypeOK, Sound, ~overlap, NEW c \in Callers, NEW s,
         pc[c] # "write", s \notin {"copy", "write"}, Goto(c, s),
         s \in {"start", "linked"} \/ AtWork(c) \/ \A d \in Callers : ~AtWork(d),
         UNCHANGED <<src, holds, tmp, cache, binary, data, fd, pos, archive, cut>>
  PROVE  Sound'
  <1> USE DEF TypeOK, Sound, Goto
  <1>1. pc'[c] = s /\ \A d \in Callers \ {c} : pc'[d] = pc[d]
    OBVIOUS
  <1>2. Alone'
    BY <1>1 DEF Alone, AtWork
  <1>3. CopyInv'
    BY <1>1 DEF CopyInv
  <1>4. WriteInv'
    BY <1>1 DEF WriteInv, Complete
  <1>5. CacheComplete' /\ OwnKept'
    BY DEF CacheComplete, OwnKept, Complete
  <1>6. BinaryComplete'
    BY <1>1 DEF BinaryComplete, Complete
  <1> QED
    BY <1>2, <1>3, <1>4, <1>5, <1>6

LEMMA AloneStep == TypeInv /\ AloneInv /\ [Next]_vars => AloneInv'
  <1> SUFFICES ASSUME TypeInv, AloneInv, [Next]_vars, ~overlap' PROVE Sound'
    BY DEF AloneInv
  <1>1. TypeOK /\ PathsInv
    BY DEF TypeInv
  <1>2. ASSUME ~overlap PROVE Sound
    BY <1>2 DEF AloneInv
  <1>3. ASSUME NEW c \in Callers, AtWork(c), Sound
        PROVE  \A d \in Callers \ {c} : ~AtWork(d) /\ pc[d] \notin {"copy", "write"}
    BY <1>3 DEF Sound, Alone, AtWork
  <1> USE DEF wanted, paths, locals, history
  <1>4. ASSUME NEW c \in Callers, Stat(c) PROVE Sound'
    <2>1. ~overlap /\ \A d \in Callers : ~AtWork(d)
      BY <1>4 DEF Stat, AtWork
    <2> QED
      BY <1>1, <1>2, <1>4, <2>1, Quiet DEF Stat
  <1>5. ASSUME NEW c \in Callers, StatBinary(c) PROVE Sound'
    BY <1>1, <1>2, <1>5, Quiet DEF StatBinary, AtWork
  <1>6. ASSUME NEW c \in Callers, StatCache(c) PROVE Sound'
    <2>1. PICK s \in {"open", "link", "unpack"} : Goto(c, s)
      BY <1>6 DEF StatCache, Found
    <2> QED
      BY <1>1, <1>2, <1>6, <2>1, Quiet DEF StatCache, AtWork
  <1>7. ASSUME NEW c \in Callers, RenameFails(c) PROVE Sound'
    BY <1>1, <1>2, <1>7, Quiet DEF RenameFails, Fail, AtWork
  <1>8. ASSUME NEW c \in Callers, UnpackFails(c) PROVE Sound'
    BY <1>1, <1>2, <1>8, Quiet DEF UnpackFails, Fail, AtWork
  <1>9. ASSUME NEW c \in Callers, Link(c) PROVE Sound'
    BY <1>1, <1>2, <1>9, Quiet DEF Link, AtWork
  <1>10. ASSUME NEW c \in Callers, LinkFails(c) PROVE Sound'
    BY <1>1, <1>2, <1>10, Quiet DEF LinkFails, Fail, AtWork
  <1>11. ASSUME NEW c \in Callers, Again(c) PROVE Sound'
    BY <1>1, <1>2, <1>11, Quiet DEF Again, Fail, AtWork
  <1>12. ASSUME NEW c \in Callers, Open(c) PROVE Sound'
    <2>1. PICK f \in Inodes :
            /\ IF tmp = None THEN f \notin {tmp, cache, binary} ELSE f = tmp
            /\ data' = [data EXCEPT ![f] = {}]
            /\ fd' = [fd EXCEPT ![c] = f] /\ fd'[c] = f
            /\ pos' = [pos EXCEPT ![c] = 1]
      BY <1>1, <1>12, CreateType DEF Open
    <2>2. /\ ~overlap /\ Sound /\ AtWork(c)
          /\ UNCHANGED <<src, holds, cache, binary, archive, overlap, cut>> /\ tmp' = f
          /\ f \notin {cache, binary}
      BY <1>1, <1>2, <1>12, <2>1 DEF Open, AtWork, PathsInv
    <2>3. \A d \in Callers \ {c} : pc'[d] = pc[d] /\ pc[d] \notin {"copy", "write"} /\ ~AtWork(d)
      BY <1>1, <1>3, <1>12, <2>2 DEF Open, Goto, TypeOK
    <2>4. pc'[c] = "copy" /\ pc[c] = "open" /\ 1..(pos'[c] - 1) = {}
      BY <1>1, <1>12, <2>1 DEF Open, Goto, TypeOK
    <2>5. \A g \in Inodes \ {f} : data'[g] = data[g]
      BY <2>1
    <2>6. Alone'
      BY <2>3 DEF Alone, AtWork
    <2>7. CopyInv' /\ WriteInv'
      BY <2>1, <2>2, <2>3, <2>4 DEF CopyInv, WriteInv
    <2>8. CacheComplete' /\ OwnKept'
      BY <1>1, <2>2, <2>5 DEF Sound, CacheComplete, OwnKept, Complete, TypeOK
    <2>9. BinaryComplete'
      BY <1>1, <2>2, <2>3, <2>4, <2>5 DEF Sound, BinaryComplete, Complete, TypeOK
    <2> QED
      BY <2>6, <2>7, <2>8, <2>9 DEF Sound
  <1>13. ASSUME NEW c \in Callers, pc[c] \in {"copy", "write"}, pos[c] <= Pieces, Put(c)
         PROVE  Sound'
    <2>1. /\ pos[c] \in Whole /\ data' \in [Inodes -> SUBSET Whole]
          /\ UNCHANGED <<src, holds, tmp, cache, binary, pc, fd, archive, overlap, cut>>
      BY <1>1, <1>13, PutType
    <2>2. /\ data' = [data EXCEPT ![fd[c]] = @ \cup {pos[c]}]
          /\ pos' = [pos EXCEPT ![c] = @ + 1]
      BY <1>13 DEF Put
    <2>3. ~overlap /\ Sound /\ AtWork(c)
      BY <1>1, <1>2, <1>13, <2>1 DEF AtWork
    <2>4. \A d \in Callers \ {c} : pc[d] \notin {"copy", "write"}
      BY <1>3, <2>3
    <2>5. \A f \in Inodes : data[f] \subseteq data'[f]
      BY <1>1, <2>2 DEF TypeOK
    <2>6. \A f \in Inodes : Complete(f) => Complete(f)'
      BY <2>1, <2>5 DEF Complete
    <2>7. Alone'
      BY <2>1, <2>3 DEF Sound, Alone, AtWork
    <2>8. fd[c] \in Inodes /\ 1..(pos[c] - 1) \subseteq data[fd[c]]
      BY <1>13, <2>3 DEF Sound, CopyInv, WriteInv
    <2>9. 1..(pos'[c] - 1) \subseteq data'[fd[c]]
      <3>1. 1..(pos'[c] - 1) = 1..(pos[c] - 1) \cup {pos[c]}
        BY <1>1, <2>1, <2>2 DEF Whole, TypeOK
      <3> QED
        BY <1>1, <2>2, <2>8, <3>1 DEF TypeOK
    <2>10. CopyInv'
      BY <2>1, <2>3, <2>4, <2>9 DEF Sound, CopyInv
    <2>11. WriteInv'
      BY <2>1, <2>3, <2>4, <2>6, <2>9 DEF Sound, WriteInv
    <2>12. CacheComplete' /\ OwnKept'
      BY <1>1, <2>1, <2>3, <2>6 DEF Sound, CacheComplete, OwnKept, TypeOK
    <2>13. BinaryComplete'
      BY <1>1, <2>1, <2>3, <2>6 DEF Sound, BinaryComplete, TypeOK
    <2> QED
      BY <2>7, <2>10, <2>11, <2>12, <2>13 DEF Sound
  <1>14. ASSUME NEW c \in Callers, Copy(c) PROVE Sound'
    BY <1>13, <1>14 DEF Copy
  <1>15. ASSUME NEW c \in Callers, Write(c) PROVE Sound'
    BY <1>13, <1>15 DEF Write
  <1>16. ASSUME NEW c \in Callers, Rename(c) PROVE Sound'
    <2>1. ~overlap /\ Sound /\ AtWork(c) /\ pc[c] = "copy" /\ tmp # None
      BY <1>1, <1>2, <1>16 DEF Rename, Renamed, AtWork
    <2>2. PICK s \in {"link", "unpack"} : pc' = [pc EXCEPT ![c] = s]
      BY <1>16 DEF Rename, Renamed, Goto, Found
    <2>3. \A d \in Callers \ {c} : pc'[d] = pc[d] /\ pc[d] \notin {"copy", "write"} /\ ~AtWork(d)
      BY <1>1, <1>3, <2>1, <2>2
    <2>4. pc'[c] \notin {"copy", "write"}
      BY <1>1, <2>2 DEF TypeOK
    <2>5. tmp = fd[c] /\ fd[c] \in Inodes /\ Complete(tmp)
      BY <1>1, <1>16, <2>1, WholeWritten DEF Sound, CopyInv, Rename
    <2>6. /\ cache' = tmp /\ tmp' = None
          /\ UNCHANGED <<src, holds, binary, data, fd, pos, archive, overlap, cut>>
      BY <1>16 DEF Rename, Renamed
    <2>7. Alone' /\ CopyInv' /\ WriteInv'
      BY <2>3, <2>4 DEF Alone, AtWork, CopyInv, WriteInv
    <2>8. CacheComplete' /\ OwnKept'
      BY <1>1, <2>1, <2>5, <2>6 DEF CacheComplete, OwnKept, Complete
    <2>9. BinaryComplete'
      BY <2>1, <2>3, <2>6 DEF Sound, BinaryComplete, Complete
    <2> QED
      BY <2>7, <2>8, <2>9 DEF Sound
  <1>17. ASSUME NEW c \in Callers, Unpack(c) PROVE Sound'
    <2>1. PICK f \in Inodes :
            /\ IF binary = None THEN f \notin {tmp, cache, binary} ELSE f = binary
            /\ data' = [data EXCEPT ![f] = {}]
            /\ fd' = [fd EXCEPT ![c] = f] /\ fd'[c] = f
            /\ pos' = [pos EXCEPT ![c] = 1]
      BY <1>1, <1>17, CreateType DEF Unpack
    <2>2. /\ ~overlap /\ Sound /\ AtWork(c) /\ cache # None
          /\ UNCHANGED <<src, holds, tmp, cache, overlap, cut>> /\ binary' = f
          /\ archive'[c] = cache
      BY <1>1, <1>2, <1>17, <2>1 DEF Unpack, AtWork, TypeOK
    <2>3. cache \in Inodes \ {f} /\ Complete(cache) /\ Complete(cache)'
      BY <1>1, <2>1, <2>2 DEF Sound, CacheComplete, Complete, PathsInv, TypeOK
    <2>4. \A d \in Callers \ {c} : pc'[d] = pc[d] /\ pc[d] \notin {"copy", "write"} /\ ~AtWork(d)
      BY <1>1, <1>3, <1>17, <2>2 DEF Unpack, Goto, TypeOK
    <2>5. pc'[c] = "write" /\ 1..(pos'[c] - 1) = {}
      BY <1>1, <1>17, <2>1 DEF Unpack, Goto, TypeOK
    <2>6. Alone'
      BY <2>4 DEF Alone, AtWork
    <2>7. CopyInv'
      BY <2>4, <2>5 DEF CopyInv
    <2>8. WriteInv'
      BY <2>1, <2>2, <2>3, <2>4, <2>5 DEF WriteInv, Complete
    <2>9. CacheComplete' /\ OwnKept' /\ BinaryComplete'
      BY <2>2, <2>3, <2>5 DEF CacheComplete, OwnKept, BinaryComplete
    <2> QED
      BY <2>6, <2>7, <2>8, <2>9 DEF Sound
  <1>18. ASSUME NEW c \in Callers, WriteFails(c) PROVE FALSE
    <2>1. Complete(archive[c]) /\ pos[c] <= Pieces /\ pos[c] \notin data[archive[c]]
      BY <1>1, <1>2, <1>18 DEF WriteFails, Sound, WriteInv
    <2>2. pos[c] \in Whole
      BY <1>1, <2>1, Parameters DEF TypeOK, Whole
    <2> QED
      BY <2>1, <2>2 DEF Complete
  <1>23. ASSUME NEW c \in Callers, UnpackNothing(c) PROVE Sound'
    BY <1>1, <1>2, <1>23, Quiet DEF UnpackNothing, AtWork
  <1>24. ASSUME NEW c \in Callers, RemoveArchive(c), pc[c] = "clean" PROVE Sound'
    <2>1. /\ ~overlap /\ Sound /\ AtWork(c) /\ ~holds /\ cache' = None
          /\ UNCHANGED <<src, holds, tmp, binary, data, fd, pos, archive, overlap, cut>>
      BY <1>2, <1>24 DEF RemoveArchive, Removed, AtWork, TypeInv, CleanInv
    <2>2. \A d \in Callers \ {c} : pc'[d] = pc[d] /\ pc[d] \notin {"copy", "write"} /\ ~AtWork(d)
      BY <1>1, <1>3, <1>24, <2>1 DEF RemoveArchive, Removed, Goto, TypeOK
    <2>3. pc'[c] = "link"
      BY <1>1, <1>24 DEF RemoveArchive, Removed, Goto, TypeOK
    <2>4. Alone' /\ CopyInv' /\ WriteInv'
      BY <2>2, <2>3 DEF Alone, AtWork, CopyInv, WriteInv
    <2>5. CacheComplete' /\ OwnKept' /\ BinaryComplete'
      BY <1>24, <2>1, <2>2 DEF Sound, CacheComplete, OwnKept, BinaryComplete, Complete
    <2> QED
      BY <2>4, <2>5 DEF Sound
  <1>19. ASSUME NEW c \in Callers, RemoveArchive(c), pc[c] # "clean" PROVE Sound'
    <2>1. /\ ~overlap /\ Sound /\ AtWork(c) /\ pc[c] = "write" /\ pos[c] > Pieces
          /\ UNCHANGED <<src, holds, tmp, binary, data, fd, pos, archive, overlap, cut>>
          /\ cache' = None
      BY <1>1, <1>2, <1>19 DEF RemoveArchive, Removed, AtWork
    <2>2. \A d \in Callers \ {c} : pc'[d] = pc[d] /\ pc[d] \notin {"copy", "write"} /\ ~AtWork(d)
      BY <1>1, <1>3, <1>19, <2>1 DEF RemoveArchive, Removed, Goto, TypeOK
    <2>3. pc'[c] = "link"
      BY <1>1, <1>19 DEF RemoveArchive, Removed, Goto, TypeOK
    <2>4. /\ Complete(fd[c]) /\ fd[c] # None /\ binary \in {fd[c], None}
          /\ src = "own archive" => binary = fd[c]
      BY <1>1, <2>1, WholeWritten, Parameters DEF Sound, WriteInv
    <2>5. Alone' /\ CopyInv' /\ WriteInv'
      BY <2>2, <2>3 DEF Alone, AtWork, CopyInv, WriteInv
    <2>6. CacheComplete' /\ OwnKept' /\ BinaryComplete'
      BY <2>1, <2>4 DEF CacheComplete, OwnKept, BinaryComplete, Complete
    <2> QED
      BY <2>5, <2>6 DEF Sound
  <1>20. ASSUME NEW c \in Callers, Crash(c) PROVE Sound'
    <2>1. /\ ~overlap /\ Sound /\ AtWork(c)
          /\ UNCHANGED <<src, holds, tmp, cache, binary, data, fd, pos, archive, overlap>>
          /\ cut' = (cut \/ pc[c] = "write")
      BY <1>1, <1>2, <1>20 DEF Crash, Fail, AtWork
    <2>2. pc' = [pc EXCEPT ![c] = "start"]
      BY <1>20 DEF Crash, Fail, Goto
    <2>3. \A d \in Callers \ {c} : pc'[d] = pc[d] /\ pc[d] \notin {"copy", "write"} /\ ~AtWork(d)
      BY <1>1, <1>3, <2>1, <2>2
    <2>4. pc'[c] = "start"
      BY <1>1, <2>2 DEF TypeOK
    <2>5. Alone' /\ CopyInv' /\ WriteInv'
      BY <2>3, <2>4 DEF Alone, AtWork, CopyInv, WriteInv
    <2>6. CacheComplete' /\ OwnKept' /\ BinaryComplete'
      BY <2>1, <2>3 DEF Sound, CacheComplete, OwnKept, BinaryComplete, Complete
    <2> QED
      BY <2>5, <2>6 DEF Sound
  <1>21. CASE RemoveCache
    <2>1. /\ ~overlap /\ Sound /\ src # "own archive"
          /\ tmp' = None /\ cache' = None /\ binary' = None
          /\ UNCHANGED <<src, holds, data, pc, fd, pos, archive, overlap, cut>>
      BY <1>1, <1>2, <1>21 DEF RemoveCache
    <2>2. Alone' /\ CopyInv' /\ WriteInv'
      BY <2>1, Parameters DEF Sound, Alone, AtWork, CopyInv, WriteInv, Complete
    <2> QED
      BY <2>1, <2>2 DEF Sound, CacheComplete, OwnKept, BinaryComplete
  <1>22. CASE UNCHANGED vars
    BY <1>1, <1>2, <1>22 DEF vars, Sound, Alone, AtWork, CopyInv, WriteInv, CacheComplete,
       BinaryComplete, OwnKept, Complete
  <1> QED
    BY <1>4, <1>5, <1>6, <1>7, <1>8, <1>9, <1>10, <1>11, <1>12, <1>14, <1>15, <1>16,
       <1>17, <1>18, <1>19, <1>20, <1>21, <1>22, <1>23, <1>24 DEF Next, Step

LEMMA AlwaysAlone == Spec => [](AloneInv)
  BY TypeInit, TypeStep, AloneInit, AloneStep, PTL DEF Spec

\* DownloadWithCache renames only what it wrote completely, so while commands
\* download one at a time the cached file or archive is complete, whatever fails.
THEOREM CachedIsComplete == Spec => []CacheComplete
  <1>1. AloneInv => CacheComplete
    BY DEF AloneInv, Sound, CacheComplete
  <1> QED
    BY AlwaysAlone, <1>1, PTL

\* DownloadWithCacheAndExtract has no temporary file for the binary; still, while
\* commands work one at a time and none ends as it unpacks, it is complete.
THEOREM UnpackedIsComplete == Spec => []BinaryComplete
  <1>1. AloneInv => BinaryComplete
    BY DEF AloneInv, Sound, BinaryComplete
  <1> QED
    BY AlwaysAlone, <1>1, PTL

-----------------------------------------------------------------------------
(* Commands that unpack an archive of the user's own together *)

OwnSource == src = "own archive"

\* The archive is never written.  Whoever emptied the binary last unpacks all of it, so
\* a binary that is there is complete, or a command that will complete it is at work.
OwnInv ==
  OwnSource =>
    /\ \A c \in Callers : pc[c] \notin {"open", "copy"}
    /\ cache # None => Complete(cache)
    /\ cache = None /\ holds => binary # None
    /\ \A c \in Callers : pc[c] = "write" =>
         /\ binary # None /\ fd[c] = binary
         /\ archive[c] \in Inodes \ {binary} /\ Complete(archive[c])
    /\ binary # None /\ ~cut =>
         \/ Complete(binary)
         \/ \E c \in Callers : pc[c] = "write" /\ 1..(pos[c] - 1) \subseteq data[binary]

LEMMA OwnInit == Init => OwnInv
  <1> SUFFICES ASSUME Init, OwnSource PROVE OwnInv
    BY DEF OwnInv
  <1>1. cache \in Inodes /\ None \notin Inodes
    BY Parameters DEF Init, OwnSource
  <1>2. data = [f \in Inodes |-> IF f = cache THEN Whole ELSE {}]
    BY DEF Init
  <1> QED
    BY <1>1, <1>2 DEF Init, OwnInv, OwnSource, Complete

\* A command that writes nothing, and was not unpacking.
LEMMA OwnQuiet ==
  ASSUME TypeOK, OwnInv, NEW c \in Callers, NEW s,
         pc[c] # "write", s \notin {"open", "copy", "write"}, Goto(c, s),
         UNCHANGED <<src, holds, cache, binary, data, fd, pos, archive, cut>>
  PROVE  OwnInv'
  <1>1. pc'[c] = s /\ \A d \in Callers \ {c} : pc'[d] = pc[d]
    BY DEF TypeOK, Goto
  <1> QED
    BY <1>1 DEF OwnInv, OwnSource, Complete

LEMMA OwnStep == TypeInv /\ OwnInv /\ [Next]_vars => OwnInv'
  <1> SUFFICES ASSUME TypeInv, OwnInv, [Next]_vars, OwnSource' PROVE OwnInv'
    BY DEF OwnInv
  <1>1. TypeOK /\ PathsInv /\ CleanInv
    BY DEF TypeInv
  <1>2. OwnSource /\ OwnSource'
    <2> USE DEF wanted, Renamed, Removed, Fail
    <2>1. ASSUME NEW c \in Callers, Step(c) PROVE src' = src
      BY <2>1 DEF Step, Stat, StatBinary, StatCache, Open, Copy, Put, Rename, RenameFails,
         Unpack, UnpackNothing, UnpackFails, Write, WriteFails, RemoveArchive, Link, LinkFails,
         Again
    <2> QED
      BY <2>1 DEF Next, Crash, RemoveCache, vars, OwnSource
  <1>3. \A c \in Callers : pc[c] \notin {"open", "copy"}
    BY <1>2 DEF OwnInv
  <1> USE DEF wanted, paths, locals, history
  <1>4. ASSUME NEW c \in Callers, Stat(c) PROVE OwnInv'
    BY <1>1, <1>2, <1>4, OwnQuiet DEF Stat
  <1>5. ASSUME NEW c \in Callers, StatBinary(c) PROVE OwnInv'
    BY <1>1, <1>5, OwnQuiet DEF StatBinary
  <1>6. ASSUME NEW c \in Callers, StatCache(c) PROVE OwnInv'
    <2>1. Goto(c, "unpack")
      BY <1>2, <1>6 DEF StatCache, Found, OwnSource
    <2> QED
      BY <1>1, <1>6, <2>1, OwnQuiet DEF StatCache
  <1>7. ASSUME NEW c \in Callers, Open(c) \/ Copy(c) \/ Rename(c) \/ RenameFails(c)
        PROVE  FALSE
    BY <1>3, <1>7 DEF Open, Copy, Rename, RenameFails
  <1>8. ASSUME NEW c \in Callers, UnpackNothing(c) PROVE OwnInv'
    BY <1>1, <1>8, OwnQuiet DEF UnpackNothing
  <1>9. ASSUME NEW c \in Callers, UnpackFails(c) PROVE OwnInv'
    BY <1>1, <1>9, OwnQuiet DEF UnpackFails, Fail
  <1>10. ASSUME NEW c \in Callers, Link(c) PROVE OwnInv'
    BY <1>1, <1>10, OwnQuiet DEF Link
  <1>11. ASSUME NEW c \in Callers, LinkFails(c) PROVE OwnInv'
    BY <1>1, <1>11, OwnQuiet DEF LinkFails, Fail
  <1>12. ASSUME NEW c \in Callers, Again(c) PROVE OwnInv'
    BY <1>1, <1>12, OwnQuiet DEF Again, Fail
  <1>13. ASSUME NEW c \in Callers, Unpack(c) PROVE OwnInv'
    <2>1. PICK f \in Inodes :
            /\ IF binary = None THEN f \notin {tmp, cache, binary} ELSE f = binary
            /\ data' = [data EXCEPT ![f] = {}]
            /\ fd' = [fd EXCEPT ![c] = f] /\ fd'[c] = f
            /\ pos' = [pos EXCEPT ![c] = 1]
      BY <1>1, <1>13, CreateType DEF Unpack
    <2>2. /\ UNCHANGED <<holds, cache, cut>> /\ cache # None /\ binary' = f
          /\ archive' = [archive EXCEPT ![c] = cache]
          /\ pc' = [pc EXCEPT ![c] = "write"]
      BY <1>13, <2>1 DEF Unpack, Goto
    <2>3. cache \in Inodes \ {f} /\ Complete(cache) /\ Complete(cache)'
      BY <1>1, <1>2, <2>1, <2>2 DEF OwnInv, Complete, PathsInv, TypeOK
    <2>4. /\ pc'[c] = "write" /\ archive'[c] = cache /\ 1..(pos'[c] - 1) = {}
          /\ f # None
      BY <1>1, <2>1, <2>2, Parameters DEF TypeOK
    <2>5. ASSUME NEW d \in Callers \ {c}, pc'[d] = "write"
          PROVE  fd'[d] = f /\ archive'[d] \in Inodes \ {f} /\ Complete(archive[d])'
      <3>1. /\ pc[d] = "write" /\ fd'[d] = fd[d] /\ archive'[d] = archive[d]
        BY <1>1, <2>1, <2>2, <2>5 DEF TypeOK
      <3>2. /\ binary # None /\ fd[d] = binary /\ archive[d] \in Inodes \ {binary}
            /\ Complete(archive[d])
        BY <1>2, <3>1 DEF OwnInv
      <3> QED
        BY <1>1, <2>1, <3>1, <3>2 DEF Complete, TypeOK
    <2>6. \A d \in Callers : pc'[d] \notin {"open", "copy"}
      BY <1>1, <1>3, <2>2 DEF TypeOK
    <2> QED
      BY <2>1, <2>2, <2>3, <2>4, <2>5, <2>6 DEF OwnInv, Complete
  <1>14. ASSUME NEW c \in Callers, Write(c) PROVE OwnInv'
    <2>1. /\ pos[c] \in Whole /\ data' \in [Inodes -> SUBSET Whole]
          /\ UNCHANGED <<src, holds, cache, binary, pc, fd, archive, cut>>
      BY <1>1, <1>14, PutType DEF Write
    <2>2. /\ data' = [data EXCEPT ![fd[c]] = @ \cup {pos[c]}]
          /\ pos' = [pos EXCEPT ![c] = @ + 1]
          /\ fd[c] = binary /\ pc[c] = "write" /\ binary # None
      BY <1>2, <1>14 DEF Write, Put, OwnInv
    <2>3. \A f \in Inodes : Complete(f) => Complete(f)'
      BY <1>1, <2>1, <2>2 DEF Complete, TypeOK
    <2>4. cache # None => cache \in Inodes
      BY <1>1 DEF TypeOK
    <2>5. binary \in Inodes
      BY <1>1, <2>2 DEF TypeOK
    <2>6. ASSUME NEW d \in Callers, 1..(pos[d] - 1) \subseteq data[binary]
          PROVE  1..(pos'[d] - 1) \subseteq data'[binary]
      <3>1. CASE d = c
        <4>1. pos[c] \in Nat /\ pos[c] >= 1 /\ pos'[c] = pos[c] + 1
          BY <1>1, <2>1, <2>2, Parameters DEF Whole, TypeOK
        <4>2. 1..(pos'[c] - 1) = 1..(pos[c] - 1) \cup {pos[c]}
          BY <4>1
        <4> QED
          BY <1>1, <2>2, <2>5, <2>6, <3>1, <4>2 DEF TypeOK
      <3>2. CASE d # c
        BY <1>1, <2>2, <2>5, <2>6, <3>2 DEF TypeOK
      <3> QED
        BY <3>1, <3>2
    <2>7. \A d \in Callers : pc[d] = "write" => Complete(archive[d])'
      BY <1>2, <2>1, <2>3 DEF OwnInv, Complete
    <2> QED
      BY <1>2, <2>1, <2>3, <2>4, <2>5, <2>6, <2>7 DEF OwnInv, Complete
  <1>15. ASSUME NEW c \in Callers, WriteFails(c) PROVE FALSE
    <2>1. Complete(archive[c]) /\ pos[c] <= Pieces /\ pos[c] \notin data[archive[c]]
      BY <1>2, <1>15 DEF WriteFails, OwnInv
    <2>2. pos[c] \in Whole
      BY <1>1, <2>1, Parameters DEF TypeOK, Whole
    <2> QED
      BY <2>1, <2>2 DEF Complete
  <1>16. ASSUME NEW c \in Callers, RemoveArchive(c) PROVE OwnInv'
    <2>1. /\ cache' = None /\ pc' = [pc EXCEPT ![c] = "link"]
          /\ UNCHANGED <<src, holds, binary, data, fd, pos, archive, cut>>
      BY <1>16 DEF RemoveArchive, Removed, Goto
    <2>2. pc'[c] = "link" /\ \A d \in Callers \ {c} : pc'[d] = pc[d]
      BY <1>1, <2>1 DEF TypeOK
    <2>3. CASE pc[c] = "clean"
      BY <1>1, <1>2, <2>1, <2>2, <2>3 DEF OwnInv, Complete, CleanInv
    <2>4. CASE pc[c] = "write" /\ pos[c] > Pieces
      <3>1. binary # None /\ binary \in Inodes
        BY <1>1, <1>2, <2>4 DEF OwnInv, TypeOK
      <3>2. 1..(pos[c] - 1) \subseteq data[binary] => Complete(binary)
        BY <1>1, <2>4, <3>1, WholeWritten
      <3> QED
        BY <1>2, <2>1, <2>2, <3>1, <3>2 DEF OwnInv, Complete
    <2> QED
      BY <1>16, <2>3, <2>4 DEF RemoveArchive
  <1>17. ASSUME NEW c \in Callers, Crash(c) PROVE OwnInv'
    <2>1. /\ UNCHANGED <<src, holds, cache, binary, data, fd, pos, archive>>
          /\ Goto(c, "start") /\ cut' = (cut \/ pc[c] = "write")
      BY <1>17 DEF Crash, Fail
    <2>2. CASE pc[c] # "write"
      <3>1. cut' = cut
        BY <1>1, <2>1, <2>2, ZenonT(30) DEF TypeOK
      <3> QED
        BY <1>1, <2>1, <2>2, <3>1, OwnQuiet
    <2>3. CASE pc[c] = "write"
      <3>1. cut' /\ pc'[c] = "start" /\ \A d \in Callers \ {c} : pc'[d] = pc[d]
        BY <1>1, <2>1, <2>3 DEF Goto, TypeOK
      <3> QED
        BY <1>2, <2>1, <3>1 DEF OwnInv, Complete
    <2> QED
      BY <2>2, <2>3
  <1>18. CASE RemoveCache
    BY <1>2, <1>18 DEF RemoveCache, OwnSource
  <1>19. CASE UNCHANGED vars
    BY <1>2, <1>19 DEF vars, OwnInv, Complete
  <1> QED
    BY <1>4, <1>5, <1>6, <1>7, <1>8, <1>9, <1>10, <1>11, <1>12, <1>13, <1>14, <1>15, <1>16,
       <1>17, <1>18, <1>19 DEF Next, Step

\* clean (download.go:40-42) removes an archive of the user's own that holds the binary
\* only when the binary is complete, or, after commands that unpacked it together, is by
\* the time they are done.
THEOREM OwnArchiveIsKept == Spec => []OwnArchiveNotLost
  <1>1. AloneInv /\ OwnInv => OwnArchiveNotLost
    BY DEF AloneInv, Sound, OwnKept, OwnInv, OwnSource, OwnArchiveNotLost
  <1> QED
    BY AlwaysAlone, TypeInit, TypeStep, OwnInit, OwnStep, <1>1, PTL DEF Spec
=============================================================================
