------------------------------ MODULE Restore ------------------------------
(***************************************************************************)
(* What load promises for a dump of objects that own each other: an object *)
(* is created once, and until the API server refuses an object, it is      *)
(* created after the one that controls it, which it names by the UID of    *)
(* the new cluster.                                                        *)
(*                                                                         *)
(* Load.tla is the code (pkg/resource/load/load.go) that implements this.  *)
(***************************************************************************)
EXTENDS Naturals

CONSTANTS
  N,            \* number of objects in the dump: they are 1..N
  None          \* the owner of an object without a controller

VARIABLES
  owner,        \* UID of each object's controller in the dump
  store,        \* for each object created, the controller it names
  faulty        \* whether an object was refused

Objects == 1..N

\* The UID an object had, and the one that the API server gives it: never seen
\* before.  UID 0 is that of an object outside the dump.
Old(o) == o
New(o) == N + o

Roots == {o \in Objects : owner[o] = None}

RestoreInit ==
  /\ owner \in [Objects -> Objects \cup {0, None}]
  /\ store = [o \in {} |-> None]
  /\ faulty = FALSE

Ready(o) == o \in Roots \/ \E p \in DOMAIN store : owner[o] = Old(p)

Controller(o) == IF o \in Roots THEN None ELSE New(owner[o])

\* A round creates some objects; whether it is refused others shows in the next.
Create(created) ==
  /\ created \cap DOMAIN store = {}
  /\ DOMAIN store' = DOMAIN store \cup created
  /\ \A o \in DOMAIN store : store'[o] = store[o]
  /\ ~faulty => \A o \in created : Ready(o) /\ store'[o] = Controller(o)
  /\ faulty' \in {faulty, TRUE}
  /\ UNCHANGED owner

RestoreSpec ==
  RestoreInit /\ [][\E S \in SUBSET Objects : Create(S)]_<<owner, store, faulty>>
=============================================================================
