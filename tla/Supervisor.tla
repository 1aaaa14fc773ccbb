----------------------------- MODULE Supervisor -----------------------------
(***************************************************************************)
(* What the process supervisor of fake-k8s promises to the binary runtime: *)
(* starting a component and remembering its process is one step, a         *)
(* component that is remembered is not started again, and a process is     *)
(* forgotten only once it is gone.  The exception is Lose: a start that is *)
(* interrupted leaves a running process nobody remembers, a stray.         *)
(*                                                                         *)
(* ForkExec.tla is the code (pkg/utils/cmd.go) that implements this.       *)
(***************************************************************************)
EXTENDS Naturals

CONSTANTS
  Components,   \* etcd, kube-apiserver, ...: what Up starts
  Pids,         \* process numbers of the host
  None,         \* nothing is remembered
  Free,         \* a process number nobody uses
  Dead,         \* a process that ended and whose number is not yet reused
  Outsiders,    \* owners of processes that are not components
  Root          \* the outsider whose processes may not be signalled

ASSUME OwnersDistinct ==
  /\ None \notin Pids
  /\ Root \in Outsiders
  /\ Components \cap (Outsiders \cup {Free, Dead}) = {}
  /\ Free \notin Outsiders \cup {Dead}
  /\ Dead \notin Outsiders

VARIABLES
  managed,      \* the process remembered for each component
  proc,         \* who runs under each process number
  stray         \* running components that nobody remembers

vars == <<managed, proc, stray>>

Owners == Components \cup Outsiders \cup {Free, Dead}

Init ==
  /\ managed = [n \in Components |-> None]
  /\ proc = [p \in Pids |-> Free]
  /\ stray = {}

Start(n, p) ==
  /\ managed[n] = None
  /\ proc[p] = Free
  /\ managed' = [managed EXCEPT ![n] = p]
  /\ proc' = [proc EXCEPT ![p] = n]
  /\ UNCHANGED stray

\* The caller dies, or a write fails, after the process started.
Lose(n) ==
  /\ managed[n] # None
  /\ managed' = [managed EXCEPT ![n] = None]
  /\ stray' = IF proc[managed[n]] = n THEN stray \cup {managed[n]} ELSE stray
  /\ UNCHANGED proc

\* Kill whatever holds the remembered number.
Signal(n) ==
  /\ managed[n] # None
  /\ proc[managed[n]] \in Owners \ {Free, Dead, Root}
  /\ proc' = [proc EXCEPT ![managed[n]] = Dead]
  /\ stray' = stray \ {managed[n]}
  /\ UNCHANGED managed

Forget(n) ==
  /\ managed[n] # None
  /\ proc[managed[n]] # n
  /\ managed' = [managed EXCEPT ![n] = None]
  /\ UNCHANGED <<proc, stray>>

\* A process ends by itself.
Exit(p) ==
  /\ proc[p] \notin {Free, Dead}
  /\ proc' = [proc EXCEPT ![p] = Dead]
  /\ stray' = stray \ {p}
  /\ UNCHANGED managed

\* The host gives the number back, and may hand it to somebody else.
Reap(p) ==
  /\ proc[p] = Dead
  /\ proc' = [proc EXCEPT ![p] = Free]
  /\ UNCHANGED <<managed, stray>>

Squat(p, o) ==
  /\ proc[p] = Free
  /\ proc' = [proc EXCEPT ![p] = o]
  /\ UNCHANGED <<managed, stray>>

Next ==
  \/ \E n \in Components, p \in Pids : Start(n, p)
  \/ \E n \in Components : Lose(n) \/ Signal(n) \/ Forget(n)
  \/ \E p \in Pids : Exit(p) \/ Reap(p) \/ (\E o \in Outsiders : Squat(p, o))

Spec == Init /\ [][Next]_vars
=============================================================================
