------------------------------ MODULE ForkExec ------------------------------
(***************************************************************************)
(* The process supervisor: ForkExec, ForkExecRestart and ForkExecKill of   *)
(* pkg/utils/cmd.go over the files pids/<component>.pid and                *)
(* cmdline/<component> of one work directory.  There is no daemon and no   *)
(* lock: every call is made by a short-lived fake-k8s command, which may   *)
(* be killed between any two system calls, and the processes it starts     *)
(* outlive it (Setsid), may exit by themselves and may have their process  *)
(* numbers reused by the host.                                             *)
(***************************************************************************)
EXTENDS Naturals, Sequences

CONSTANTS
  Callers,      \* fake-k8s commands at work in the directory
  Components,   \* base names of the binaries
  Pids,
  None,         \* the file does not exist
  Torn,         \* created or truncated by os.WriteFile, not yet written
  Free, Dead, Outsiders, Root,
  Args,         \* words of a command line besides the name
  ArgLists,     \* argument lists Up passes to ForkExec
  MaxArgv,      \* bound of the model: longest command line
  Serial,       \* TRUE: a command starts when no other one is at work
  Faults,       \* TRUE: a call may fail or be killed at any step
  Recycle       \* TRUE: the host reuses the numbers of dead processes

ASSUME FlagsBoolean == Serial \in BOOLEAN /\ Faults \in BOOLEAN /\ Recycle \in BOOLEAN
ASSUME FileStates == None \notin Pids /\ Torn \notin Pids /\ None # Torn
ASSUME ArgListsAreSequences == ArgLists \subseteq Seq(Args)
ASSUME OwnersDisjoint ==
  /\ Root \in Outsiders
  /\ Components \cap (Outsiders \cup {Free, Dead}) = {}
  /\ Free \notin Outsiders \cup {Dead}
  /\ Dead \notin Outsiders

VARIABLES
  pidFile,      \* contents of pids/<n>.pid
  cmdline,      \* contents of cmdline/<n>
  proc,         \* process table: who runs under each number
  argv,         \* process table: command line of each component process
  pc, comp, want, pid,  \* each caller's position, component, argv and pid locals
  lost          \* history: running components whose number was never recorded

files == <<pidFile, cmdline>>
table == <<proc, argv>>
locals == <<comp, want, pid>>
vars == <<pidFile, cmdline, proc, argv, pc, comp, want, pid, lost>>

Owners == Components \cup Outsiders \cup {Free, Dead}
Starting == {"cmdline", "write_cmdline", "start"}
Unrecorded == {"pid_file", "write_pid"}
Killing == {"kill", "remove"}
Steps == {"idle", "check"} \cup Starting \cup Unrecorded \cup Killing

Init ==
  /\ pidFile = [n \in Components |-> None]
  /\ cmdline = [n \in Components |-> None]
  /\ proc = [p \in Pids |-> Free]
  /\ argv = [p \in Pids |-> <<>>]
  /\ pc = [c \in Callers |-> "idle"]
  /\ comp \in [Callers -> Components]
  /\ want = [c \in Callers |-> <<>>]
  /\ pid = [c \in Callers |-> None]
  /\ lost = {}

Goto(c, s) == pc' = [pc EXCEPT ![c] = s]

MayBegin(c) ==
  /\ pc[c] = "idle"
  /\ Serial => \A d \in Callers : pc[d] = "idle"

\* The command line of ForkExec(dir, name, arg...): the name, then the arguments.
Argv(n, args) == <<n>> \o args
-----------------------------------------------------------------------------
(* ForkExec(dir, name, arg...) *)

BeginFork(c, n, args) ==
  /\ MayBegin(c)
  /\ comp' = [comp EXCEPT ![c] = n]
  /\ want' = [want EXCEPT ![c] = Argv(n, args)]
  /\ Goto(c, "check")
  /\ UNCHANGED <<files, table, pid, lost>>

\* Variant: the command line is recorded before the pid file is looked at.
AlreadyRunningRecords(c) ==
  /\ pc[c] = "check" /\ pidFile[comp[c]] \in Pids
  /\ cmdline' = [cmdline EXCEPT ![comp[c]] = want[c]]
  /\ Goto(c, "idle")
  /\ UNCHANGED <<pidFile, table, locals, lost>>

\* A file that holds a number is enough for "already running".
AlreadyRunning(c) ==
  /\ pc[c] = "check" /\ pidFile[comp[c]] \in Pids
  /\ Goto(c, "idle")
  /\ UNCHANGED <<files, table, locals, lost>>

\* Variant: the pid file is not looked at.
ProceedAlways(c) ==
  /\ pc[c] = "check"
  /\ Goto(c, "cmdline")
  /\ UNCHANGED <<files, table, locals, lost>>

Proceed(c) ==
  /\ pc[c] = "check" /\ pidFile[comp[c]] \notin Pids
  /\ Goto(c, "cmdline")
  /\ UNCHANGED <<files, table, locals, lost>>

\* os.WriteFile truncates the file, then writes it.
OpenCmdline(c) ==
  /\ pc[c] = "cmdline"
  /\ cmdline' = [cmdline EXCEPT ![comp[c]] = Torn]
  /\ Goto(c, "write_cmdline")
  /\ UNCHANGED <<pidFile, table, locals, lost>>

WriteCmdline(c) ==
  /\ pc[c] = "write_cmdline"
  /\ cmdline' = [cmdline EXCEPT ![comp[c]] = want[c]]
  /\ Goto(c, "start")
  /\ UNCHANGED <<pidFile, table, locals, lost>>

StartProcess(c, p) ==
  /\ pc[c] = "start" /\ proc[p] = Free
  /\ proc' = [proc EXCEPT ![p] = comp[c]]
  /\ argv' = [argv EXCEPT ![p] = want[c]]
  /\ pid' = [pid EXCEPT ![c] = p]
  /\ Goto(c, "pid_file")
  /\ UNCHANGED <<files, comp, want, lost>>

OpenPidFile(c) ==
  /\ pc[c] = "pid_file"
  /\ pidFile' = [pidFile EXCEPT ![comp[c]] = Torn]
  /\ Goto(c, "write_pid")
  /\ UNCHANGED <<cmdline, table, locals, lost>>

\* Variant: the pid path leaves out the name, one file serves every component.
WritePidShared(c) ==
  /\ pc[c] = "write_pid"
  /\ pidFile' = [n \in Components |-> pid[c]]
  /\ Goto(c, "idle")
  /\ UNCHANGED <<cmdline, table, locals, lost>>

WritePid(c) ==
  /\ pc[c] = "write_pid"
  /\ pidFile' = [pidFile EXCEPT ![comp[c]] = pid[c]]
  /\ Goto(c, "idle")
  /\ UNCHANGED <<cmdline, table, locals, lost>>

(* ForkExecRestart(dir, name): the recorded words, name included, are passed *)
(* to ForkExec as arguments after the name.  A missing or an empty file is   *)
(* an error that changes nothing, so there is no action for it.              *)
BeginRestart(c, n) ==
  /\ MayBegin(c)
  /\ cmdline[n] \notin {None, Torn}
  /\ Len(cmdline[n]) < MaxArgv
  /\ comp' = [comp EXCEPT ![c] = n]
  /\ want' = [want EXCEPT ![c] = Argv(Head(cmdline[n]), cmdline[n])]
  /\ Goto(c, "check")
  /\ UNCHANGED <<files, table, pid, lost>>

-----------------------------------------------------------------------------
(* ForkExecKill(dir, name): a missing file is success and an unreadable one *)
(* an error; neither changes anything.                                      *)

\* Variant: the pid file is removed before the process is signalled.
BeginKillRemoves(c, n) ==
  /\ MayBegin(c)
  /\ pidFile[n] \in Pids
  /\ comp' = [comp EXCEPT ![c] = n]
  /\ pid' = [pid EXCEPT ![c] = pidFile[n]]
  /\ pidFile' = [pidFile EXCEPT ![n] = None]
  /\ Goto(c, "kill")
  /\ UNCHANGED <<cmdline, table, want, lost>>

\* Variant: the error of strconv.Atoi is not looked at.
BeginKillUnparsed(c, n) ==
  /\ MayBegin(c)
  /\ pidFile[n] # None
  /\ comp' = [comp EXCEPT ![c] = n]
  /\ pid' = [pid EXCEPT ![c] = pidFile[n]]
  /\ Goto(c, "kill")
  /\ UNCHANGED <<files, table, want, lost>>

BeginKill(c, n) ==
  /\ MayBegin(c)
  /\ pidFile[n] \in Pids
  /\ comp' = [comp EXCEPT ![c] = n]
  /\ pid' = [pid EXCEPT ![c] = pidFile[n]]
  /\ Goto(c, "kill")
  /\ UNCHANGED <<files, table, want, lost>>

\* Variant: the error of killProcess is not looked at.
KillGoneAny(c) ==
  /\ pc[c] = "kill"
  /\ Goto(c, "remove")
  /\ UNCHANGED <<files, table, locals, lost>>

\* os.ErrProcessDone counts as success.
KillGone(c) ==
  /\ pc[c] = "kill" /\ proc[pid[c]] \in {Free, Dead}
  /\ Goto(c, "remove")
  /\ UNCHANGED <<files, table, locals, lost>>

Die(p) ==
  /\ proc' = [proc EXCEPT ![p] = Dead]
  /\ argv' = [argv EXCEPT ![p] = <<>>]
  /\ lost' = lost \ {p}

Kill(c) ==
  /\ pc[c] = "kill" /\ proc[pid[c]] \notin {Free, Dead, Root}
  /\ Die(pid[c])
  /\ Goto(c, "remove")
  /\ UNCHANGED <<files, locals>>

\* Any other error of the signal: the pid file stays.
KillRefused(c) ==
  /\ pc[c] = "kill" /\ proc[pid[c]] = Root
  /\ Goto(c, "idle")
  /\ UNCHANGED <<files, table, locals, lost>>

\* os.Remove fails when another caller removed the file; the result is the same.
Remove(c) ==
  /\ pc[c] = "remove"
  /\ pidFile' = [pidFile EXCEPT ![comp[c]] = None]
  /\ Goto(c, "idle")
  /\ UNCHANGED <<cmdline, table, locals, lost>>

\* A system call fails, or the command is killed: the call ends where it is.
Abort(c) ==
  /\ Faults /\ pc[c] # "idle"
  /\ lost' = IF pc[c] \in Unrecorded /\ proc[pid[c]] = comp[c]
             THEN lost \cup {pid[c]} ELSE lost
  /\ Goto(c, "idle")
  /\ UNCHANGED <<files, table, locals>>

-----------------------------------------------------------------------------
(* The host *)

Exit(p) ==
  /\ proc[p] \notin {Free, Dead}
  /\ Die(p)
  /\ UNCHANGED <<files, pc, locals>>

Reap(p) ==
  /\ Recycle /\ proc[p] = Dead
  /\ proc' = [proc EXCEPT ![p] = Free]
  /\ UNCHANGED <<files, argv, pc, locals, lost>>

Squat(p, o) ==
  /\ proc[p] = Free
  /\ proc' = [proc EXCEPT ![p] = o]
  /\ UNCHANGED <<files, argv, pc, locals, lost>>

Fork(c) ==
  \/ \E n \in Components, a \in ArgLists : BeginFork(c, n, a)
  \/ AlreadyRunning(c) \/ Proceed(c)
  \/ OpenCmdline(c) \/ WriteCmdline(c)
  \/ \E p \in Pids : StartProcess(c, p)
  \/ OpenPidFile(c) \/ WritePid(c)

Host(p) == Exit(p) \/ Reap(p) \/ (\E o \in Outsiders : Squat(p, o))

Next ==
  \/ \E c \in Callers :
       \/ Fork(c)
       \/ \E n \in Components : BeginRestart(c, n) \/ BeginKill(c, n)
       \/ KillGone(c) \/ Kill(c) \/ KillRefused(c) \/ Remove(c)
       \/ Abort(c)
  \/ \E p \in Pids : Host(p)

Spec == Init /\ [][Next]_vars

-----------------------------------------------------------------------------
(* Properties *)

Argvs == Seq(Components \cup Args)

\* Every variable has its type; in particular a pid file is absent, torn or a number.
TypeOK ==
  /\ pidFile \in [Components -> Pids \cup {None, Torn}]
  /\ cmdline \in [Components -> Argvs \cup {None, Torn}]
  /\ proc \in [Pids -> Owners]
  /\ argv \in [Pids -> Argvs]
  /\ pc \in [Callers -> Steps]
  /\ comp \in [Callers -> Components]
  /\ want \in [Callers -> Argvs]
  /\ pid \in [Callers -> Pids \cup {None}]
  /\ lost \subseteq Pids

InFlight(c, n) == pc[c] \in Unrecorded /\ comp[c] = n

\* When commands do not overlap, a running component is one that Stop and Down
\* can find: its number is in its pid file, or the command that started it is
\* about to write it there.  The one way to lose a process is a command that
\* ends between cmd.Start and the pid file; numbers that are stale, reused or
\* refused a signal lose none.
UnrecordedOnlyIfLost ==
  \A p \in Pids : proc[p] \in Components =>
    \/ p \in lost
    \/ pidFile[proc[p]] = p
    \/ \E c \in Callers : InFlight(c, proc[p]) /\ pid[c] = p

\* When commands do not overlap, repeated and interrupted Up, Start, Stop and
\* Down never leave two instances of a component, lost processes apart.
AtMostOneInstance ==
  \A p, q \in Pids :
    proc[p] \in Components /\ proc[q] = proc[p] /\ {p, q} \cap lost = {} => p = q

\* When commands do not overlap, cmdline/<n> is the command line of the process
\* that pids/<n>.pid names, whatever was interrupted before: Start after Stop
\* never replays the words of an attempt that did not start the process.
RecordedCommandLine ==
  \A n \in Components : \A p \in Pids :
    pidFile[n] = p /\ proc[p] = n => argv[p] = cmdline[n]

\* As long as the host does not reuse numbers, overlapping and interrupted calls
\* never make ForkExecKill signal anything but the component it was asked for.
KillsOnlyOwn ==
  \A c \in Callers : pc[c] = "kill" => proc[pid[c]] \in {comp[c], Dead}

\* A component that Start brings back ("failed to restart", binary/cluster.go:471)
\* runs the command line that Up gave it.
RestartKeepsCommandLine ==
  \A p \in Pids : proc[p] \in Components =>
    argv[p] \in {Argv(proc[p], a) : a \in ArgLists}

\* The promise of Supervisor: a process is managed from the moment it starts.
managed ==
  [n \in Components |->
     IF pidFile[n] \in Pids THEN pidFile[n]
     ELSE IF \E c \in Callers : InFlight(c, n)
          THEN pid[CHOOSE c \in Callers : InFlight(c, n)]
          ELSE None]

Abstract == INSTANCE Supervisor WITH stray <- lost

\* When commands do not overlap, the calls of cmd.go, with their files and their
\* crashes, implement the atomic operations of Supervisor.
ImplementsSupervisor == Abstract!Spec
=============================================================================
