--------------------------- MODULE ForkExecProofs ---------------------------
(***************************************************************************)
(* Theorems about ForkExec, for every number of callers, components and    *)
(* process numbers.                                                        *)
(***************************************************************************)
EXTENDS ForkExec, SequenceTheorems, TLAPS

-----------------------------------------------------------------------------
(* Types *)

\* A call that starts a component has a command line, and a recorded command
\* line is not empty: ForkExecRestart finds a first word.
WordsInv ==
  /\ \A c \in Callers :
       pc[c] \in {"check"} \cup Starting \cup Unrecorded => want[c] # <<>>
  /\ \A n \in Components : cmdline[n] \notin {None, Torn} => cmdline[n] # <<>>

\* A call that signals or records a process has its number.
PidInv == \A c \in Callers : pc[c] \in Unrecorded \cup Killing => pid[c] \in Pids

TypeInv == TypeOK /\ WordsInv /\ PidInv

\* Argv of a component (or of a first word) and a list of words is a non-empty
\* command line.
LEMMA ArgvType ==
  ASSUME NEW n \in Components \cup Args, NEW a \in Argvs
  PROVE  Argv(n, a) \in Argvs /\ Argv(n, a) # <<>>
  <1>1. <<n>> \in Argvs
    BY DEF Argvs
  <1>2. Argv(n, a) \in Argvs /\ Len(Argv(n, a)) = Len(<<n>>) + Len(a)
    BY <1>1, ConcatProperties DEF Argv, Argvs
  <1>3. Len(<<n>>) = 1 /\ Len(a) \in Nat
    BY DEF Argvs
  <1> QED
    BY <1>2, <1>3

LEMMA TypeInit == Init => TypeInv
  <1> SUFFICES ASSUME Init PROVE TypeInv
    OBVIOUS
  <1>1. <<>> \in Argvs
    BY DEF Argvs
  <1> QED
    BY <1>1 DEF Init, TypeInv, TypeOK, WordsInv, PidInv, Steps, Owners, Starting,
       Unrecorded, Killing

LEMMA TypeStep == TypeInv /\ [Next]_vars => TypeInv'
  <1> SUFFICES ASSUME TypeInv, [Next]_vars PROVE TypeInv'
    OBVIOUS
  <1> USE DEF TypeInv, TypeOK, WordsInv, PidInv, Steps, Owners, Starting,
          Unrecorded, Killing, files, table, locals, Goto, MayBegin, Die
  <1>1. ASSUME NEW c \in Callers, NEW n \in Components, NEW a \in ArgLists,
               BeginFork(c, n, a)
        PROVE  TypeInv'
    <2>1. a \in Argvs
      BY ArgListsAreSequences DEF Argvs
    <2>2. Argv(n, a) \in Argvs /\ Argv(n, a) # <<>>
      BY <2>1, ArgvType
    <2> QED
      BY <1>1, <2>2 DEF BeginFork
  <1>2. ASSUME NEW c \in Callers, AlreadyRunning(c) PROVE TypeInv'
    BY <1>2 DEF AlreadyRunning
  <1>3. ASSUME NEW c \in Callers, Proceed(c) PROVE TypeInv'
    BY <1>3 DEF Proceed
  <1>4. ASSUME NEW c \in Callers, OpenCmdline(c) PROVE TypeInv'
    BY <1>4 DEF OpenCmdline
  <1>5. ASSUME NEW c \in Callers, WriteCmdline(c) PROVE TypeInv'
    BY <1>5 DEF WriteCmdline
  <1>6. ASSUME NEW c \in Callers, NEW p \in Pids, StartProcess(c, p)
        PROVE  TypeInv'
    BY <1>6 DEF StartProcess
  <1>7. ASSUME NEW c \in Callers, OpenPidFile(c) PROVE TypeInv'
    BY <1>7 DEF OpenPidFile
  <1>8. ASSUME NEW c \in Callers, WritePid(c) PROVE TypeInv'
    BY <1>8 DEF WritePid
  <1>9. ASSUME NEW c \in Callers, NEW n \in Components, BeginRestart(c, n)
        PROVE  TypeInv'
    <2>1. cmdline[n] \in Argvs /\ cmdline[n] # <<>>
      BY <1>9 DEF BeginRestart
    <2>2. Head(cmdline[n]) \in Components \cup Args
      BY <2>1 DEF Argvs
    <2>3. Argv(Head(cmdline[n]), cmdline[n]) \in Argvs
          /\ Argv(Head(cmdline[n]), cmdline[n]) # <<>>
      BY <2>1, <2>2, ArgvType
    <2> QED
      BY <1>9, <2>3 DEF BeginRestart
  <1>10. ASSUME NEW c \in Callers, NEW n \in Components, BeginKill(c, n)
         PROVE  TypeInv'
    BY <1>10 DEF BeginKill
  <1>11. ASSUME NEW c \in Callers, KillGone(c) PROVE TypeInv'
    BY <1>11 DEF KillGone
  <1>12. <<>> \in Argvs
    BY DEF Argvs
  <1>13. ASSUME NEW c \in Callers, Kill(c) PROVE TypeInv'
    BY <1>12, <1>13 DEF Kill
  <1>14. ASSUME NEW c \in Callers, KillRefused(c) PROVE TypeInv'
    BY <1>14 DEF KillRefused
  <1>15. ASSUME NEW c \in Callers, Remove(c) PROVE TypeInv'
    BY <1>15 DEF Remove
  <1>16. ASSUME NEW c \in Callers, Abort(c) PROVE TypeInv'
    BY <1>16 DEF Abort
  <1>17. ASSUME NEW p \in Pids, Host(p) PROVE TypeInv'
    BY <1>12, <1>17 DEF Host, Exit, Reap, Squat
  <1>18. CASE UNCHANGED vars
    BY <1>18 DEF vars
  <1> QED
    BY <1>1, <1>2, <1>3, <1>4, <1>5, <1>6, <1>7, <1>8, <1>9, <1>10, <1>11,
       <1>13, <1>14, <1>15, <1>16, <1>17, <1>18 DEF Next, Fork

\* pkg/utils/cmd.go keeps every file, process and local of its type; in
\* particular the number that is signalled or recorded is always a number.
THEOREM TypeCorrect == Spec => []TypeOK
  <1>1. TypeInv => TypeOK
    BY DEF TypeInv
  <1> QED
    BY TypeInit, TypeStep, <1>1, PTL DEF Spec

-----------------------------------------------------------------------------
(* Commands that do not overlap *)

\* At most one call is in progress.
Alone == \A c, d \in Callers : pc[c] # "idle" /\ pc[d] # "idle" => c = d

\* From the check to the last write, the pid file holds no number.
Checked ==
  \A c \in Callers :
    pc[c] \in Starting \cup Unrecorded => pidFile[comp[c]] \notin Pids

\* From the write of the command line on, it is the one that is started.
Written ==
  \A c \in Callers :
    /\ pc[c] \in {"start"} \cup Unrecorded => cmdline[comp[c]] = want[c]
    /\ pc[c] \in Unrecorded /\ proc[pid[c]] = comp[c] => argv[pid[c]] = want[c]

\* The number that is signalled is in the pid file, and the file is removed when
\* that number is no longer the component's.
Signalled ==
  \A c \in Callers :
    /\ pc[c] \in Killing => pidFile[comp[c]] = pid[c]
    /\ pc[c] = "remove" => proc[pid[c]] # comp[c]

SerialInv ==
  /\ TypeInv
  /\ Alone /\ Checked /\ Written /\ Signalled
  /\ UnrecordedOnlyIfLost /\ RecordedCommandLine

LEMMA SerialInit == Init => SerialInv
  BY TypeInit, OwnersDisjoint, FileStates
  DEF Init, SerialInv, Alone, Checked, Written, Signalled, UnrecordedOnlyIfLost,
      RecordedCommandLine, Starting, Unrecorded, Killing

LEMMA SerialStep ==
  ASSUME Serial, SerialInv, [Next]_vars
  PROVE  SerialInv'
  <1>0. TypeInv'
    BY TypeStep DEF SerialInv
  <1>t. /\ pidFile \in [Components -> Pids \cup {None, Torn}]
        /\ cmdline \in [Components -> Argvs \cup {None, Torn}]
        /\ proc \in [Pids -> Owners]
        /\ argv \in [Pids -> Argvs]
        /\ pc \in [Callers -> Steps]
        /\ comp \in [Callers -> Components]
        /\ want \in [Callers -> Argvs]
        /\ pid \in [Callers -> Pids \cup {None}]
        /\ PidInv
    BY DEF SerialInv, TypeInv, TypeOK
  <1>d. None \notin Pids /\ Torn \notin Pids /\ Free \notin Components
        /\ Dead \notin Components /\ Outsiders \cap Components = {}
    BY OwnersDisjoint, FileStates
  <1> DEFINE I == /\ Alone /\ Checked /\ Written /\ Signalled
                  /\ UnrecordedOnlyIfLost /\ RecordedCommandLine
  <1> SUFFICES I'
    BY <1>0 DEF SerialInv
  <1> USE <1>t, <1>d DEF SerialInv, PidInv, Alone, Checked, Written, Signalled,
          UnrecordedOnlyIfLost, RecordedCommandLine, InFlight, Starting,
          Unrecorded, Killing, files, table, locals, Goto, MayBegin, Die
  <1>1. ASSUME NEW c \in Callers, NEW n \in Components, NEW a \in ArgLists,
               BeginFork(c, n, a)
        PROVE  I'
    BY <1>1 DEF BeginFork
  <1>2. ASSUME NEW c \in Callers, AlreadyRunning(c) PROVE I'
    BY <1>2 DEF AlreadyRunning
  <1>3. ASSUME NEW c \in Callers, Proceed(c) PROVE I'
    BY <1>3 DEF Proceed
  <1>4. ASSUME NEW c \in Callers, OpenCmdline(c) PROVE I'
    BY <1>4 DEF OpenCmdline
  <1>5. ASSUME NEW c \in Callers, WriteCmdline(c) PROVE I'
    BY <1>5 DEF WriteCmdline
  <1>6. ASSUME NEW c \in Callers, NEW p \in Pids, StartProcess(c, p)
        PROVE  I'
    BY <1>6 DEF StartProcess
  <1>7. ASSUME NEW c \in Callers, OpenPidFile(c) PROVE I'
    BY <1>7 DEF OpenPidFile
  <1>8. ASSUME NEW c \in Callers, WritePid(c) PROVE I'
    BY <1>8 DEF WritePid
  <1>9. ASSUME NEW c \in Callers, NEW n \in Components, BeginRestart(c, n)
        PROVE  I'
    BY <1>9 DEF BeginRestart
  <1>10. ASSUME NEW c \in Callers, NEW n \in Components, BeginKill(c, n)
         PROVE  I'
    BY <1>10 DEF BeginKill
  <1>11. ASSUME NEW c \in Callers, KillGone(c) PROVE I'
    BY <1>11 DEF KillGone
  <1>12. ASSUME NEW c \in Callers, Kill(c) PROVE I'
    BY <1>12 DEF Kill
  <1>13. ASSUME NEW c \in Callers, KillRefused(c) PROVE I'
    BY <1>13 DEF KillRefused
  <1>14. ASSUME NEW c \in Callers, Remove(c) PROVE I'
    BY <1>14 DEF Remove
  <1>15. ASSUME NEW c \in Callers, Abort(c) PROVE I'
    BY <1>15 DEF Abort
  <1>16. ASSUME NEW p \in Pids, Exit(p) PROVE I'
    BY <1>16 DEF Exit
  <1>17. ASSUME NEW p \in Pids, Reap(p) PROVE I'
    BY <1>17 DEF Reap
  <1>18. ASSUME NEW p \in Pids, NEW o \in Outsiders, Squat(p, o) PROVE I'
    BY <1>18 DEF Squat
  <1>19. CASE UNCHANGED vars
    BY <1>19 DEF vars
  <1> QED
    BY <1>1, <1>2, <1>3, <1>4, <1>5, <1>6, <1>7, <1>8, <1>9, <1>10, <1>11,
       <1>12, <1>13, <1>14, <1>15, <1>16, <1>17, <1>18, <1>19
    DEF Next, Fork, Host

THEOREM SerialInvariant == ASSUME Serial PROVE Spec => []SerialInv
  <1>1. SerialInv /\ [Next]_vars => SerialInv'
    BY SerialStep
  <1> QED
    BY SerialInit, <1>1, PTL DEF Spec

\* When commands do not overlap, every running component is in its pid file, is
\* about to be, or was started by a command that was interrupted before it
\* could write the file (pkg/utils/cmd.go:57-62).
THEOREM NothingElseIsLost == ASSUME Serial PROVE Spec => []UnrecordedOnlyIfLost
  <1>1. SerialInv => UnrecordedOnlyIfLost
    BY DEF SerialInv
  <1> QED
    BY SerialInvariant, <1>1, PTL

\* When commands do not overlap, no component has two instances, lost ones apart.
THEOREM OneInstance == ASSUME Serial PROVE Spec => []AtMostOneInstance
  <1>1. SerialInv => AtMostOneInstance
    <2> SUFFICES ASSUME SerialInv, NEW p \in Pids, NEW q \in Pids,
                        proc[p] \in Components, proc[q] = proc[p],
                        p \notin lost, q \notin lost
                 PROVE  p = q
      BY DEF AtMostOneInstance
    <2>1. CASE pidFile[proc[p]] \in Pids
      \* A number is recorded, so no call is about to record one.
      BY <2>1 DEF SerialInv, UnrecordedOnlyIfLost, Checked, InFlight
    <2>2. CASE pidFile[proc[p]] \notin Pids
      \* Both are in flight, in the only call there is.
      <3>1. PICK c \in Callers : InFlight(c, proc[p]) /\ pid[c] = p
        BY <2>2 DEF SerialInv, UnrecordedOnlyIfLost
      <3>2. PICK d \in Callers : InFlight(d, proc[p]) /\ pid[d] = q
        BY <2>2 DEF SerialInv, UnrecordedOnlyIfLost
      <3> QED
        BY <3>1, <3>2 DEF SerialInv, Alone, InFlight, Unrecorded
    <2> QED
      BY <2>1, <2>2
  <1> QED
    BY SerialInvariant, <1>1, PTL

\* When commands do not overlap, cmdline/<n> belongs to the process in pids/<n>.pid.
THEOREM CommandLineIsRecorded ==
  ASSUME Serial PROVE Spec => []RecordedCommandLine
  <1>1. SerialInv => RecordedCommandLine
    BY DEF SerialInv
  <1> QED
    BY SerialInvariant, <1>1, PTL

-----------------------------------------------------------------------------
(* Refinement *)

\* What managed stands for when the only call in progress is c.
LEMMA ManagedInFlight ==
  ASSUME SerialInv, NEW c \in Callers, pc[c] \in Unrecorded
  PROVE  managed[comp[c]] = pid[c] /\ pid[c] \in Pids
  <1>1. comp[c] \in Components /\ pid[c] \in Pids
    BY DEF SerialInv, TypeInv, TypeOK, PidInv
  <1>2. pidFile[comp[c]] \notin Pids /\ InFlight(c, comp[c])
    BY DEF SerialInv, Checked, InFlight
  <1>3. \A d \in Callers : InFlight(d, comp[c]) => d = c
    BY DEF SerialInv, Alone, InFlight, Unrecorded
  <1>4. (CHOOSE d \in Callers : InFlight(d, comp[c])) = c
    BY <1>2, <1>3
  <1> QED
    BY <1>1, <1>2, <1>4 DEF managed

\* The same of the next state.
LEMMA ManagedInFlightNext ==
  ASSUME SerialInv', NEW c \in Callers, NEW n, n = comp'[c], pc'[c] \in Unrecorded
  PROVE  managed'[n] = pid'[c]
  <1>1. n \in Components /\ pid'[c] \in Pids
    BY DEF SerialInv, TypeInv, TypeOK, PidInv
  <1>2. pidFile'[n] \notin Pids /\ InFlight(c, n)'
    BY DEF SerialInv, Checked, InFlight
  <1>3. \A d \in Callers : InFlight(d, n)' => d = c
    BY DEF SerialInv, Alone, InFlight, Unrecorded
  <1>4. (CHOOSE d \in Callers : InFlight(d, n)') = c
    BY <1>2, <1>3
  <1> QED
    BY <1>1, <1>2, <1>4 DEF managed

\* Steps that touch neither the pid files nor what is in flight.
Quiet ==
  /\ pidFile' = pidFile
  /\ \A n \in Components, c \in Callers : InFlight(c, n)' <=> InFlight(c, n)
  /\ \A n \in Components, c \in Callers : InFlight(c, n) => pid'[c] = pid[c]

LEMMA QuietManaged ==
  ASSUME Quiet PROVE managed' = managed
  <1> SUFFICES ASSUME NEW n \in Components
               PROVE  managed'[n] = managed[n]
    BY DEF managed
  <1>1. CASE pidFile[n] \in Pids
    BY <1>1 DEF Quiet, managed
  <1>2. CASE pidFile[n] \notin Pids /\ ~\E c \in Callers : InFlight(c, n)
    BY <1>2 DEF Quiet, managed
  <1>3. CASE pidFile[n] \notin Pids /\ \E c \in Callers : InFlight(c, n)
    <2>1. (CHOOSE c \in Callers : InFlight(c, n))
          = (CHOOSE c \in Callers : InFlight(c, n)')
      BY DEF Quiet
    <2> DEFINE f == CHOOSE c \in Callers : InFlight(c, n)
    <2>2. f \in Callers /\ InFlight(f, n)
      BY <1>3
    <2>3. pid'[f] = pid[f]
      BY <2>2 DEF Quiet
    <2> QED
      BY <1>3, <2>1, <2>3 DEF Quiet, managed
  <1> QED
    BY <1>1, <1>2, <1>3

\* Where no start is in flight, the pid file decides.
LEMMA ManagedRecorded ==
  ASSUME NEW n \in Components,
         pidFile[n] \in Pids \/ ~\E c \in Callers : InFlight(c, n)
  PROVE  managed[n] = IF pidFile[n] \in Pids THEN pidFile[n] ELSE None
  BY DEF managed

\* A step of the call in progress leaves the other components alone.
LEMMA OthersManaged ==
  ASSUME SerialInv, NEW c \in Callers, pc[c] # "idle",
         comp' = comp, NEW l \in Steps, pc' = [pc EXCEPT ![c] = l],
         NEW m \in Components, m # comp[c], pidFile'[m] = pidFile[m]
  PROVE  managed'[m] = managed[m]
  <1>1. \A d \in Callers : d # c => pc[d] = "idle" /\ pc'[d] = "idle"
    BY DEF SerialInv, TypeInv, TypeOK, Alone
  <1>2. ~\E d \in Callers : InFlight(d, m)
    BY <1>1 DEF InFlight, Unrecorded
  <1>3. ~\E d \in Callers : InFlight(d, m)'
    BY <1>1 DEF InFlight, Unrecorded
  <1> QED
    BY <1>2, <1>3 DEF managed

LEMMA SimulationInit == Init => Abstract!Init
  <1> SUFFICES ASSUME Init PROVE Abstract!Init
    OBVIOUS
  <1>1. managed = [n \in Components |-> None]
    BY FileStates DEF Init, managed, InFlight, Unrecorded
  <1> QED
    BY <1>1 DEF Init, Abstract!Init

LEMMA SimulationStep ==
  ASSUME Serial, SerialInv, [Next]_vars
  PROVE  [Abstract!Next]_(Abstract!vars)
  <1>i. SerialInv'
    BY SerialStep
  <1>t. /\ pidFile \in [Components -> Pids \cup {None, Torn}]
        /\ proc \in [Pids -> Owners]
        /\ pc \in [Callers -> Steps]
        /\ comp \in [Callers -> Components]
        /\ pid \in [Callers -> Pids \cup {None}]
        /\ PidInv /\ Alone /\ Checked /\ Signalled
    BY DEF SerialInv, TypeInv, TypeOK
  <1>d. None \notin Pids /\ Torn \notin Pids /\ Free \notin Components
        /\ Dead \notin Components /\ Outsiders \cap Components = {}
        /\ Root \in Outsiders /\ Dead \notin Outsiders /\ Free \notin Outsiders
    BY OwnersDisjoint, FileStates
  <1> DEFINE Stutter == UNCHANGED <<managed, proc, lost>>
  <1>s. Stutter => [Abstract!Next]_(Abstract!vars)
    BY DEF Abstract!vars
  <1>q. ASSUME Quiet PROVE managed' = managed
    BY <1>q, QuietManaged
  <1>1. ASSUME NEW c \in Callers, NEW n \in Components, NEW a \in ArgLists,
               BeginFork(c, n, a)
        PROVE  Stutter
    <2>1. Quiet
      BY <1>1, <1>t DEF BeginFork, MayBegin, Quiet, InFlight, Unrecorded, Goto, files
    <2> QED
      BY <1>1, <1>q, <2>1 DEF BeginFork, table
  <1>2. ASSUME NEW c \in Callers, AlreadyRunning(c) \/ Proceed(c) PROVE Stutter
    <2>1. Quiet
      BY <1>2, <1>t DEF AlreadyRunning, Proceed, Quiet, InFlight, Unrecorded, Goto,
         files, locals
    <2> QED
      BY <1>2, <1>q, <2>1 DEF AlreadyRunning, Proceed, table
  <1>3. ASSUME NEW c \in Callers, OpenCmdline(c) \/ WriteCmdline(c) PROVE Stutter
    <2>1. Quiet
      BY <1>3, <1>t DEF OpenCmdline, WriteCmdline, Quiet, InFlight, Unrecorded, Goto,
         locals
    <2> QED
      BY <1>3, <1>q, <2>1 DEF OpenCmdline, WriteCmdline, table
  <1>4. ASSUME NEW c \in Callers, NEW p \in Pids, StartProcess(c, p)
        PROVE  Abstract!Start(comp[c], p)
    <2>0. comp[c] \in Components /\ pc[c] = "start" /\ pc'[c] = "pid_file"
          /\ comp' = comp /\ pidFile' = pidFile
      BY <1>4, <1>t DEF StartProcess, Goto, files
    <2>1. pidFile[comp[c]] \notin Pids
      BY <2>0, <1>t DEF Checked, Starting
    <2>2. \A d \in Callers : pc[d] \notin Unrecorded
      BY <2>0, <1>t DEF Alone, Unrecorded
    <2>3. managed[comp[c]] = None
      BY <2>0, <2>1, <2>2, ManagedRecorded DEF InFlight
    <2>4. managed'[comp[c]] = p
      <3>1. pc'[c] \in Unrecorded /\ pid'[c] = p
        BY <1>4, <1>t, <2>0 DEF Unrecorded, StartProcess
      <3>2. managed'[comp[c]] = pid'[c]
        BY <1>i, <2>0, <3>1, ManagedInFlightNext
      <3> QED
        BY <3>1, <3>2, <2>0
    <2>5. ASSUME NEW m \in Components, m # comp[c] PROVE managed'[m] = managed[m]
      BY <1>4, <2>0, <2>5, OthersManaged DEF StartProcess, Goto, Steps, Unrecorded
    <2>6. managed' = [managed EXCEPT ![comp[c]] = p]
      <3>1. /\ managed = [m \in Components |-> managed[m]]
            /\ managed' = [m \in Components |-> managed'[m]]
        BY DEF managed
      <3> QED
        BY <2>0, <2>4, <2>5, <3>1
    <2> QED
      BY <1>4, <2>0, <2>3, <2>6 DEF StartProcess, Abstract!Start
  <1>5. ASSUME NEW c \in Callers, OpenPidFile(c) PROVE Stutter
    <2>0. pc[c] \in Unrecorded /\ pc'[c] \in Unrecorded /\ comp' = comp /\ pid' = pid
      BY <1>5, <1>t DEF OpenPidFile, Goto, Unrecorded, locals
    <2>1. managed[comp[c]] = pid[c] /\ managed'[comp[c]] = pid'[c]
      BY <1>i, <2>0, ManagedInFlight, ManagedInFlightNext
    <2>2. ASSUME NEW m \in Components, m # comp[c] PROVE managed'[m] = managed[m]
      BY <1>5, <1>t, <2>0, <2>2, OthersManaged DEF OpenPidFile, Goto, Steps, Unrecorded
    <2>3. managed' = managed
      BY <2>0, <2>1, <2>2 DEF managed
    <2> QED
      BY <1>5, <2>3 DEF OpenPidFile, table
  <1>6. ASSUME NEW c \in Callers, WritePid(c) PROVE Stutter
    <2>0. pc[c] \in Unrecorded /\ comp' = comp /\ pid' = pid /\ comp[c] \in Components
      BY <1>6, <1>t DEF WritePid, Unrecorded, locals
    <2>1. managed[comp[c]] = pid[c] /\ pid[c] \in Pids
      BY <2>0, ManagedInFlight
    <2>2. pidFile'[comp[c]] = pid[c]
      BY <1>6, <1>t, <2>0 DEF WritePid
    <2>3. managed'[comp[c]] = pid[c]
      BY <2>0, <2>1, <2>2 DEF managed
    <2>4. ASSUME NEW m \in Components, m # comp[c] PROVE managed'[m] = managed[m]
      BY <1>6, <1>t, <2>0, <2>4, OthersManaged DEF WritePid, Goto, Steps, Unrecorded
    <2>5. managed' = managed
      BY <2>0, <2>1, <2>3, <2>4 DEF managed
    <2> QED
      BY <1>6, <2>5 DEF WritePid, table
  <1>7. ASSUME NEW c \in Callers, NEW n \in Components,
               BeginRestart(c, n) \/ BeginKill(c, n)
        PROVE  Stutter
    <2>1. Quiet
      BY <1>7, <1>t DEF BeginRestart, BeginKill, MayBegin, Quiet, InFlight,
         Unrecorded, Goto, files
    <2> QED
      BY <1>7, <1>q, <2>1 DEF BeginRestart, BeginKill, table
  <1>8. ASSUME NEW c \in Callers, KillGone(c) \/ KillRefused(c) PROVE Stutter
    <2>1. Quiet
      BY <1>8, <1>t DEF KillGone, KillRefused, Quiet, InFlight, Unrecorded, Goto,
         files, locals
    <2> QED
      BY <1>8, <1>q, <2>1 DEF KillGone, KillRefused, table
  <1>k. ASSUME NEW c \in Callers, pc[c] \in Killing
        PROVE  managed[comp[c]] = pid[c] /\ pid[c] \in Pids /\ comp[c] \in Components
    <2>1. pidFile[comp[c]] = pid[c] /\ pid[c] \in Pids /\ comp[c] \in Components
      BY <1>k, <1>t DEF Signalled, PidInv
    <2> QED
      BY <2>1, ManagedRecorded
  <1>9. ASSUME NEW c \in Callers, Kill(c) PROVE Abstract!Signal(comp[c])
    <2>1. Quiet
      BY <1>9, <1>t DEF Kill, Quiet, InFlight, Unrecorded, Goto, files, locals
    <2>2. pc[c] \in Killing
      BY <1>9 DEF Kill, Killing
    <2>3. managed[comp[c]] = pid[c] /\ pid[c] \in Pids /\ managed' = managed
      BY <1>k, <1>q, <2>1, <2>2
    <2> QED
      BY <1>9, <1>t, <1>d, <2>3 DEF Kill, Die, Abstract!Signal, Abstract!Owners, Owners
  <1>10. ASSUME NEW c \in Callers, Remove(c) PROVE Abstract!Forget(comp[c])
    <2>0. pc[c] = "remove" /\ pc[c] \in Killing /\ comp' = comp
          /\ pidFile' = [pidFile EXCEPT ![comp[c]] = None]
          /\ pc' = [pc EXCEPT ![c] = "idle"]
      BY <1>10 DEF Remove, Killing, Goto, locals
    <2>1. managed[comp[c]] = pid[c] /\ pid[c] \in Pids /\ proc[pid[c]] # comp[c]
          /\ comp[c] \in Components
      BY <1>k, <1>t, <2>0 DEF Signalled
    <2>2. \A d \in Callers : pc'[d] = "idle"
      BY <1>t, <2>0 DEF Alone
    <2>3. managed'[comp[c]] = None
      BY <1>d, <1>t, <2>0, <2>1, <2>2 DEF managed, InFlight, Unrecorded
    <2>4. ASSUME NEW m \in Components, m # comp[c] PROVE managed'[m] = managed[m]
      BY <1>t, <2>0, <2>4, OthersManaged DEF Steps
    <2>5. managed' = [managed EXCEPT ![comp[c]] = None]
      BY <2>3, <2>4 DEF managed
    <2> QED
      BY <1>10, <1>d, <2>1, <2>5 DEF Remove, table, Abstract!Forget
  <1>11. ASSUME NEW c \in Callers, Abort(c)
         PROVE  Stutter \/ Abstract!Lose(comp[c])
    <2>1. CASE pc[c] \notin Unrecorded
      <3>1. Quiet
        BY <1>11, <1>t, <2>1 DEF Abort, Quiet, InFlight, Unrecorded, Goto, files, locals
      <3> QED
        BY <1>11, <1>q, <2>1, <3>1 DEF Abort, table
    <2>2. CASE pc[c] \in Unrecorded
      <3>0. comp' = comp /\ pidFile' = pidFile /\ pc' = [pc EXCEPT ![c] = "idle"]
            /\ comp[c] \in Components /\ pc[c] # "idle"
        BY <1>11, <1>t DEF Abort, Goto, files, locals
      <3>1. managed[comp[c]] = pid[c] /\ pid[c] \in Pids
        BY <2>2, ManagedInFlight
      <3>2. \A d \in Callers : pc'[d] = "idle"
        BY <1>t, <3>0 DEF Alone
      <3>3. pidFile[comp[c]] \notin Pids
        BY <1>t, <2>2 DEF Checked
      <3>4. managed'[comp[c]] = None
        BY <3>0, <3>2, <3>3 DEF managed, InFlight, Unrecorded
      <3>5. ASSUME NEW m \in Components, m # comp[c] PROVE managed'[m] = managed[m]
        BY <1>t, <3>0, <3>5, OthersManaged DEF Steps
      <3>6. managed' = [managed EXCEPT ![comp[c]] = None]
        BY <3>4, <3>5 DEF managed
      <3> QED
        BY <1>11, <1>d, <2>2, <3>1, <3>6 DEF Abort, table, Abstract!Lose
    <2> QED
      BY <2>1, <2>2
  <1>12. ASSUME NEW p \in Pids, Host(p)
         PROVE  \/ Abstract!Exit(p) \/ Abstract!Reap(p)
                \/ \E o \in Outsiders : Abstract!Squat(p, o)
    <2>1. Quiet
      BY <1>12 DEF Host, Exit, Reap, Squat, Quiet, InFlight, Unrecorded, files, locals, Die
    <2>2. managed' = managed
      BY <1>q, <2>1
    <2> QED
      BY <1>12, <2>2 DEF Host, Exit, Reap, Squat, Die, Abstract!Exit, Abstract!Reap,
         Abstract!Squat
  <1>13. UNCHANGED vars => Stutter
    <2> SUFFICES ASSUME UNCHANGED vars PROVE Stutter
      OBVIOUS
    <2>1. Quiet
      BY DEF vars, Quiet, InFlight, Unrecorded
    <2> QED
      BY <1>q, <2>1 DEF vars
  <1>14. \A c \in Callers : comp[c] \in Components
    BY <1>t
  <1> QED
    BY <1>s, <1>1, <1>2, <1>3, <1>4, <1>5, <1>6, <1>7, <1>8, <1>9, <1>10, <1>11,
       <1>12, <1>13, <1>14 DEF Next, Fork, Abstract!Next

\* When commands do not overlap, ForkExec, ForkExecRestart and ForkExecKill
\* implement the atomic supervisor that the rest of the code relies on.
THEOREM Implementation == ASSUME Serial PROVE Spec => ImplementsSupervisor
  <1>1. SerialInv /\ [Next]_vars => [Abstract!Next]_(Abstract!vars)
    BY SimulationStep
  <1> QED
    BY SimulationInit, SerialInvariant, <1>1, PTL
    DEF Spec, ImplementsSupervisor, Abstract!Spec

-----------------------------------------------------------------------------
(* Commands that overlap *)

\* A number that is recorded, or on its way to or from a file, is the
\* component's own or that of a dead process.
OwnNumbers ==
  /\ TypeInv
  /\ \A n \in Components : \A p \in Pids :
       pidFile[n] = p => proc[p] \in {n, Dead}
  /\ \A c \in Callers :
       pc[c] \in Unrecorded \cup {"kill"} => proc[pid[c]] \in {comp[c], Dead}

LEMMA OwnNumbersStep ==
  ASSUME ~Recycle, OwnNumbers, [Next]_vars
  PROVE  OwnNumbers'
  <1>0. TypeInv'
    BY TypeStep DEF OwnNumbers
  <1>t. /\ pidFile \in [Components -> Pids \cup {None, Torn}]
        /\ proc \in [Pids -> Owners]
        /\ pc \in [Callers -> Steps]
        /\ comp \in [Callers -> Components]
        /\ pid \in [Callers -> Pids \cup {None}]
        /\ PidInv
    BY DEF OwnNumbers, TypeInv, TypeOK
  <1> USE <1>0, <1>t, OwnersDisjoint, FileStates
      DEF OwnNumbers, PidInv, Unrecorded, Killing, files, table, locals, Goto, Die
  <1>1. ASSUME NEW c \in Callers, Fork(c) PROVE OwnNumbers'
    <2>1. ASSUME NEW n \in Components, NEW a \in ArgLists, BeginFork(c, n, a)
          PROVE  OwnNumbers'
      BY <2>1 DEF BeginFork
    <2>2. CASE AlreadyRunning(c) \/ Proceed(c)
      BY <2>2 DEF AlreadyRunning, Proceed
    <2>3. CASE OpenCmdline(c) \/ WriteCmdline(c)
      BY <2>3 DEF OpenCmdline, WriteCmdline
    <2>4. ASSUME NEW p \in Pids, StartProcess(c, p) PROVE OwnNumbers'
      \* Nobody holds the number p: it was free.
      BY <2>4 DEF StartProcess
    <2>5. CASE OpenPidFile(c)
      BY <2>5 DEF OpenPidFile
    <2>6. CASE WritePid(c)
      BY <2>6 DEF WritePid
    <2> QED
      BY <1>1, <2>1, <2>2, <2>3, <2>4, <2>5, <2>6 DEF Fork
  <1>2. ASSUME NEW c \in Callers, NEW n \in Components,
               BeginRestart(c, n) \/ BeginKill(c, n)
        PROVE  OwnNumbers'
    BY <1>2 DEF BeginRestart, BeginKill
  <1>3. ASSUME NEW c \in Callers, KillGone(c) \/ KillRefused(c) PROVE OwnNumbers'
    BY <1>3 DEF KillGone, KillRefused
  <1>4. ASSUME NEW c \in Callers, Kill(c) PROVE OwnNumbers'
    BY <1>4 DEF Kill
  <1>5. ASSUME NEW c \in Callers, Remove(c) \/ Abort(c) PROVE OwnNumbers'
    BY <1>5 DEF Remove, Abort
  <1>6. ASSUME NEW p \in Pids, Host(p) PROVE OwnNumbers'
    BY <1>6 DEF Host, Exit, Reap, Squat
  <1>7. CASE UNCHANGED vars
    BY <1>7 DEF vars
  <1> QED
    BY <1>1, <1>2, <1>3, <1>4, <1>5, <1>6, <1>7 DEF Next

\* On a host that does not reuse process numbers ForkExecKill signals no process
\* but the component's, whatever commands overlap or are interrupted.
THEOREM KillIsSafe == ASSUME ~Recycle PROVE Spec => []KillsOnlyOwn
  <1>1. Init => OwnNumbers
    BY TypeInit, FileStates DEF Init, OwnNumbers, Unrecorded
  <1>2. OwnNumbers /\ [Next]_vars => OwnNumbers'
    BY OwnNumbersStep
  <1>3. OwnNumbers => KillsOnlyOwn
    BY DEF OwnNumbers, KillsOnlyOwn
  <1> QED
    BY <1>1, <1>2, <1>3, PTL DEF Spec
=============================================================================
