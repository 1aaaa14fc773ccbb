--------------------------- MODULE DownloadCache ---------------------------
(***************************************************************************)
(* pkg/utils/download.go: DownloadWithCache and                            *)
(* DownloadWithCacheAndExtract for one source of the download cache that   *)
(* every cluster of the user shares, and the commands that want it.  A     *)
(* file is downloaded to <cache>.tmp and renamed; a binary is unpacked     *)
(* from an archive straight to its place in the cache, and the archive     *)
(* removed.  A command that finds what it wants links it without a look at *)
(* its contents.                                                           *)
(*                                                                         *)
(* Paths name inodes, as a command goes on with the inode it opened        *)
(* whatever happens to the path.  What is written at a position is the     *)
(* same for every command: only a missing piece makes a file incomplete.   *)
(***************************************************************************)
EXTENDS Naturals

CONSTANTS
  Callers,      \* commands, each of a cluster of its own
  Inodes,
  Pieces,       \* number of writes it takes to copy the file, or unpack the binary
  None,         \* the path does not exist
  MaxFaults     \* bound of the model: commands that fail or are killed, caches removed

ASSUME Parameters ==
  Pieces \in Nat \ {0} /\ Inodes # {} /\ None \notin Inodes /\ MaxFaults \in Nat

VARIABLES
  src,          \* what is wanted: a file, a binary in an archive, or a
                \* binary in an archive of the user's own
  holds,        \* whether the archive has an entry of the wanted name
  tmp, cache, binary,  \* the inodes the three paths name
  data,         \* the pieces written to each inode
  link,         \* whether each cluster has its link, which may dangle
  pc, fd, pos,  \* each command's position, the inode it writes and the next piece
  archive,      \* the inode it unpacks
  faults,       \* history: failures, kills and removals so far
  overlap,      \* history: whether two commands have been at work together
  cut           \* history: whether a command ended while it was unpacking

paths == <<tmp, cache, binary>>
locals == <<fd, pos, archive>>
history == <<faults, overlap, cut>>
wanted == <<src, holds>>
vars == <<src, holds, tmp, cache, binary, data, link, pc, fd, pos, archive,
          faults, overlap, cut>>

Sources == {"file", "archive", "own archive"}
Whole == 1..Pieces
Complete(f) == data[f] = Whole

Init ==
  /\ src \in Sources /\ holds \in BOOLEAN /\ (src = "file" => holds)
  /\ tmp = None /\ binary = None
  /\ cache = IF src = "own archive" THEN CHOOSE f \in Inodes : TRUE ELSE None
  /\ data = [f \in Inodes |-> IF f = cache THEN Whole ELSE {}]
  /\ link = [c \in Callers |-> FALSE]
  /\ pc = [c \in Callers |-> "start"]
  /\ fd = [c \in Callers |-> None] /\ archive = [c \in Callers |-> None]
  /\ pos = [c \in Callers |-> 1]
  /\ faults = 0 /\ overlap = FALSE /\ cut = FALSE

Goto(c, s) == pc' = [pc EXCEPT ![c] = s]

\* The path that links lead to.
Target == IF src = "file" THEN cache ELSE binary
Resolves(c) == link[c] /\ Target # None

\* Variant: a link is in the way of the next command before it downloads.
StatLink(c) ==
  /\ pc[c] = "start" /\ (link[c] => Resolves(c))
  /\ Goto(c, IF link[c] THEN "linked" ELSE IF src = "file" THEN "cache" ELSE "binary")
  /\ overlap' = (overlap \/ \E d \in Callers : pc[d] \notin {"start", "linked"})
  /\ UNCHANGED <<wanted, paths, data, link, locals, faults, cut>>

\* os.Stat of the destination, which follows the link.
Stat(c) ==
  /\ pc[c] = "start"
  /\ Goto(c, IF Resolves(c) THEN "linked" ELSE IF src = "file" THEN "cache" ELSE "binary")
  /\ overlap' = (overlap \/ \E d \in Callers : pc[d] \notin {"start", "linked"})
  /\ UNCHANGED <<wanted, paths, data, link, locals, faults, cut>>

\* os.Stat of the unpacked binary in the cache.
StatBinary(c) ==
  /\ pc[c] = "binary"
  /\ Goto(c, IF binary = None THEN "cache" ELSE "link")
  /\ UNCHANGED <<wanted, paths, data, link, locals, history>>

\* os.Stat of the cached file, then the GET request.  For an archive of the
\* user's own there is nothing to download.
Found == IF src = "file" THEN "link" ELSE "unpack"
StatCache(c) ==
  /\ pc[c] = "cache"
  /\ Goto(c, IF cache = None /\ src # "own archive" THEN "open" ELSE Found)
  /\ UNCHANGED <<wanted, paths, data, link, locals, history>>

-----------------------------------------------------------------------------
(* The download *)

\* Which unused inode a new file gets makes no difference.
Unused ==
  {f \in Inodes : f \notin {tmp, cache, binary} /\
                  \A c \in Callers : pc[c] \in {"copy", "write"} => f \notin {fd[c], archive[c]}}
NewInode == CHOOSE f \in Unused : TRUE

\* O_CREATE | O_TRUNC: a file that is there is emptied, also under the hands of
\* the command that writes it.
Create(c, path) ==
  LET f == IF path = None THEN NewInode ELSE path
  IN  /\ path # None \/ Unused # {}
      /\ data' = [data EXCEPT ![f] = {}]
      /\ fd' = [fd EXCEPT ![c] = f]
      /\ pos' = [pos EXCEPT ![c] = 1]

\* Variant: the download goes to the cached file itself.
OpenInPlace(c) ==
  /\ pc[c] = "open"
  /\ Create(c, cache) /\ cache' = fd'[c] /\ tmp' = cache'
  /\ Goto(c, "copy")
  /\ UNCHANGED <<wanted, binary, link, archive, history>>

Open(c) ==
  /\ pc[c] = "open"
  /\ Create(c, tmp) /\ tmp' = fd'[c]
  /\ Goto(c, "copy")
  /\ UNCHANGED <<wanted, cache, binary, link, archive, history>>

Put(c) ==
  /\ data' = [data EXCEPT ![fd[c]] = @ \cup {pos[c]}]
  /\ pos' = [pos EXCEPT ![c] = @ + 1]
  /\ UNCHANGED <<wanted, paths, link, pc, fd, archive, history>>

\* Variant: end of file is not noticed.
CopyPast(c) == pc[c] = "copy" /\ Put(c)

Copy(c) == pc[c] = "copy" /\ pos[c] <= Pieces /\ Put(c)

Renamed(c) ==
  /\ cache' = tmp /\ tmp' = None
  /\ Goto(c, Found)
  /\ UNCHANGED <<wanted, binary, data, link, locals, history>>

\* Variant: the error of io.Copy is not looked at.
RenameEarly(c) == pc[c] = "copy" /\ tmp # None /\ Renamed(c)

\* os.Rename takes the file that has the name now, whoever opened it.
Rename(c) == pc[c] = "copy" /\ pos[c] > Pieces /\ tmp # None /\ Renamed(c)

Fail(c) == Goto(c, "start") /\ UNCHANGED <<wanted, paths, data, link, locals>>

\* Another command renamed it: an error, and the user runs the command again.
RenameFails(c) ==
  /\ pc[c] = "copy" /\ pos[c] > Pieces /\ tmp = None
  /\ Fail(c) /\ UNCHANGED history

-----------------------------------------------------------------------------
(* Untar *)

\* The archive is opened, read up to the binary, and the binary created.
Unpack(c) ==
  /\ pc[c] = "unpack" /\ cache # None /\ holds
  /\ Create(c, binary) /\ binary' = fd'[c]
  /\ archive' = [archive EXCEPT ![c] = cache]
  /\ Goto(c, "write")
  /\ UNCHANGED <<wanted, tmp, cache, link, history>>

\* No entry has the wanted name: nothing is unpacked, which is no error.
UnpackNothing(c) ==
  /\ pc[c] = "unpack" /\ cache # None /\ Complete(cache) /\ ~holds
  /\ Goto(c, "clean")
  /\ UNCHANGED <<wanted, paths, data, link, locals, history>>

\* There is no archive, or it ends before the binary.
UnpackFails(c) ==
  /\ pc[c] = "unpack" /\ (cache # None => ~Complete(cache))
  /\ Fail(c) /\ UNCHANGED history

Write(c) ==
  /\ pc[c] = "write" /\ pos[c] <= Pieces /\ pos[c] \in data[archive[c]]
  /\ Put(c)

\* The archive ends early; what was unpacked stays.
WriteFails(c) ==
  /\ pc[c] = "write" /\ pos[c] <= Pieces /\ pos[c] \notin data[archive[c]]
  /\ Fail(c) /\ UNCHANGED history

Removed(c, s) ==
  /\ cache' = None
  /\ Goto(c, s)
  /\ UNCHANGED <<wanted, tmp, binary, data, link, locals, history>>

\* Variant: the archive is removed before the binary is whole.
RemoveEarly(c) ==
  /\ pc[c] \in {"write", "clean"}
  /\ Removed(c, IF pc[c] = "write" /\ pos[c] <= Pieces THEN "write" ELSE "link")

\* clean: the archive is removed, the user's own like a cached one.
RemoveArchive(c) ==
  /\ pc[c] = "clean" \/ (pc[c] = "write" /\ pos[c] > Pieces)
  /\ Removed(c, "link")

-----------------------------------------------------------------------------

\* os.Symlink to the path of the cached file or binary.
Link(c) ==
  /\ pc[c] = "link" /\ ~link[c]
  /\ link' = [link EXCEPT ![c] = TRUE]
  /\ Goto(c, "linked")
  /\ UNCHANGED <<wanted, paths, data, locals, history>>

\* A link that dangled is in the way.
LinkFails(c) ==
  /\ pc[c] = "link" /\ link[c]
  /\ Fail(c) /\ UNCHANGED history

\* The command fails or is killed.  What was written stays; the user runs it again.
Crash(c) ==
  /\ pc[c] \notin {"start", "linked"} /\ faults < MaxFaults
  /\ faults' = faults + 1
  /\ cut' = (cut \/ pc[c] = "write")
  /\ Fail(c)
  /\ UNCHANGED overlap

\* The cache, a directory for temporary files, is removed.
RemoveCache ==
  /\ src # "own archive" /\ faults < MaxFaults /\ {tmp, cache, binary} # {None}
  /\ faults' = faults + 1
  /\ tmp' = None /\ cache' = None /\ binary' = None
  /\ UNCHANGED <<wanted, data, link, pc, locals, overlap, cut>>

\* The user runs a command of a cluster whose link dangles.
Again(c) ==
  /\ pc[c] = "linked" /\ ~Resolves(c)
  /\ Fail(c) /\ UNCHANGED history

Step(c) ==
  \/ Stat(c) \/ StatBinary(c) \/ StatCache(c)
  \/ Open(c) \/ Copy(c) \/ Rename(c) \/ RenameFails(c)
  \/ Unpack(c) \/ UnpackNothing(c) \/ UnpackFails(c) \/ Write(c) \/ WriteFails(c) \/ RemoveArchive(c)
  \/ Link(c) \/ LinkFails(c) \/ Again(c)

Next == RemoveCache \/ \E c \in Callers : Step(c) \/ Crash(c)

Spec == Init /\ [][Next]_vars /\ \A c \in Callers : WF_vars(Step(c))

-----------------------------------------------------------------------------
(* Properties *)

TypeOK ==
  /\ src \in Sources /\ holds \in BOOLEAN
  /\ {tmp, cache, binary} \subseteq Inodes \cup {None}
  /\ data \in [Inodes -> SUBSET Whole]
  /\ link \in [Callers -> BOOLEAN]
  /\ pc \in [Callers -> {"start", "binary", "cache", "open", "copy", "unpack",
                         "write", "clean", "link", "linked"}]
  /\ fd \in [Callers -> Inodes \cup {None}]
  /\ archive \in [Callers -> Inodes \cup {None}]
  /\ pos \in [Callers -> 1..(Pieces + 1)]
  /\ faults \in 0..MaxFaults /\ overlap \in BOOLEAN /\ cut \in BOOLEAN

\* As long as commands download one at a time, whatever fails or is killed, a
\* file or an archive in the cache is complete: commands may use it unseen.
CacheComplete == ~overlap /\ cache # None => Complete(cache)

\* Commands that download together empty each other's file and rename it half
\* written; but when nothing has failed, and all are done writing, the file that
\* stays in the cache is complete.
CompleteAtRest ==
  faults = 0 /\ cache # None /\ (\A c \in Callers : pc[c] # "copy") => Complete(cache)

\* The unpacked binary has no temporary file.  Nevertheless, as long as commands
\* work one at a time and none ends while it is unpacking, a binary that is
\* there is complete, whatever happened to downloads and to the cache.
BinaryComplete ==
  ~overlap /\ ~cut /\ binary # None /\ (\A c \in Callers : pc[c] # "write")
    => Complete(binary)

\* An archive of the user's own that holds the binary is removed only when the
\* binary, which may be the one thing left of it, is complete, also if commands are
\* cut short.  Commands that unpack together empty each other's binary; it is
\* complete once they are done, unless one of them was cut short.  An archive without
\* the binary is removed all the same (UnpackNothing), and nothing is left of it.
OwnArchiveNotLost ==
  ( /\ holds /\ src = "own archive" /\ cache = None
    /\ ~overlap \/ (~cut /\ \A c \in Callers : pc[c] # "write") )
  => binary # None /\ Complete(binary)

\* Commands that work together, some of which fail, and a cache that is removed,
\* keep nobody from it for ever: run again, each ends with a link that leads to
\* a file, also where the link dangled.  The exceptions are an archive without
\* the binary, and one that two commands downloaded together, one of which was
\* killed: cut short as it is, it stays in the cache, and every command fails to
\* unpack it.
EveryoneLinks ==
  \/ ~holds
  \/ <>[](\A c \in Callers : pc[c] = "linked" /\ Resolves(c))
  \/ src = "archive" /\ <>[](overlap /\ cache # None /\ ~Complete(cache))
=============================================================================
