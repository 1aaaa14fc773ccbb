-------------------------------- MODULE Load --------------------------------
(***************************************************************************)
(* pkg/resource/load/load.go: create the objects of a dump in a running    *)
(* cluster, in rounds.  The first round creates the objects without a      *)
(* controller; every other one those whose controller the previous round   *)
(* created, after replacing the controller's UID by its new one.           *)
(*                                                                         *)
(* A round is one kubectl create.  When the API server refuses some of the *)
(* objects, kubectl prints those it created, and load goes on with them.   *)
(***************************************************************************)
EXTENDS Naturals, Sequences, Functions

CONSTANTS
  N,            \* number of objects in the dump
  None          \* the owner of an object without a controller

ASSUME Parameters == N \in Nat /\ None \notin Nat

VARIABLES
  owner, builtin,   \* the dump: each object's controller; the namespaces that every cluster has
  pc,
  apply, other,     \* applyResource, otherResource
  next,             \* nextApplyResource
  new, i,           \* newResource and the index of the loop over it
  ref,              \* the controller that each object in memory names
  store,            \* the controller that each object in the cluster names
  refused,          \* objects the API server refused
  again             \* whether an object was created a second time

vars == <<owner, builtin, pc, apply, other, next, new, i, ref, store, refused, again>>
dump == <<owner, builtin>>
cluster == <<store, refused, again>>

Objects == 1..N
Old(o) == o
New(o) == N + o
Elsewhere == 0

Init ==
  /\ owner \in [Objects -> Objects \cup {Elsewhere, None}]
  /\ builtin \in SUBSET {o \in Objects : owner[o] = None}
  /\ pc = "classify"
  /\ apply = <<>> /\ other = <<>> /\ next = <<>> /\ new = <<>> /\ i = 1
  /\ ref = owner
  /\ store = [o \in {} |-> None] /\ refused = {} /\ again = FALSE

\* The members of input that are in keep, in their order.
filter(input, keep) ==
  LET ret[n \in 0..Len(input)] ==
        IF n = 0 THEN <<>>
        ELSE IF input[n] \in keep THEN Append(ret[n - 1], input[n]) ELSE ret[n - 1]
  IN  ret[Len(input)]

\* Built-in namespaces are left out; the first owner reference decides whether
\* an object has a controller.
Classify ==
  /\ pc = "classify"
  /\ LET input == [o \in Objects |-> o]
         roots == {o \in Objects : ref[o] = None}
     IN  /\ apply' = filter(input, roots \ builtin)
         /\ other' = filter(input, Objects \ (roots \cup builtin))
  /\ pc' = IF apply' = <<>> THEN "done" ELSE "apply"
  /\ UNCHANGED <<dump, next, new, i, ref, cluster>>

\* What kubectl create leaves in the cluster when some objects are refused.
Post(refuse) ==
  LET created == Range(apply) \ refuse
  IN  /\ store' = [o \in DOMAIN store \cup created |->
                     IF o \in created THEN ref[o] ELSE store[o]]
      /\ again' = (again \/ created \cap DOMAIN store # {})
      /\ refused' = refused \cup refuse

\* Variants: the index starts before the list, or the last round's list stays.
ApplyFromZero(refuse) ==
  /\ pc = "apply"
  /\ Post(refuse)
  /\ new' = filter(apply, Objects \ refuse)
  /\ i' = 0 /\ next' = <<>>
  /\ pc' = IF other = <<>> THEN "done" ELSE "match"
  /\ UNCHANGED <<dump, apply, other, ref>>

ApplyAppends(refuse) ==
  /\ pc = "apply"
  /\ Post(refuse)
  /\ new' = filter(apply, Objects \ refuse)
  /\ i' = 1
  /\ pc' = IF other = <<>> THEN "done" ELSE "match"
  /\ UNCHANGED <<dump, apply, other, next, ref>>

Apply(refuse) ==
  /\ pc = "apply"
  /\ Post(refuse)
  /\ new' = filter(apply, Objects \ refuse)
  /\ i' = 1 /\ next' = <<>>
  /\ pc' = IF other = <<>> THEN "done" ELSE "match"
  /\ UNCHANGED <<dump, apply, other, ref>>

\* The output of kubectl cannot be decoded: load returns the error.
ApplyFails(refuse) ==
  /\ pc = "apply"
  /\ Post(refuse)
  /\ pc' = "failed"
  /\ UNCHANGED <<dump, apply, other, next, new, i, ref>>

\* Variants: the list of the next round is overwritten, or the UID is not replaced.
MatchOverwrites ==
  /\ pc = "match" /\ i <= Len(new)
  /\ LET controlled == {o \in Objects : ref[o] = Old(apply[i])}
         children == filter(other, controlled)
     IN  /\ ref' = [o \in Objects |-> IF o \in Range(children) THEN New(new[i]) ELSE ref[o]]
         /\ other' = filter(other, Objects \ controlled)
         /\ next' = children
  /\ i' = i + 1
  /\ UNCHANGED <<dump, pc, apply, new, cluster>>

MatchKeepsRef ==
  /\ pc = "match" /\ i <= Len(new)
  /\ LET controlled == {o \in Objects : ref[o] = Old(apply[i])}
     IN  /\ other' = filter(other, Objects \ controlled)
         /\ next' = next \o filter(other, controlled)
  /\ i' = i + 1
  /\ UNCHANGED <<dump, pc, apply, new, ref, cluster>>

\* One pass of the loop: the objects that the i-th object applied controls name
\* the i-th object created, and are next.
Match ==
  /\ pc = "match" /\ i <= Len(new)
  /\ LET controlled == {o \in Objects : ref[o] = Old(apply[i])}
         children == filter(other, controlled)
     IN  /\ ref' = [o \in Objects |-> IF o \in Range(children) THEN New(new[i]) ELSE ref[o]]
         /\ other' = filter(other, Objects \ controlled)
         /\ next' = next \o children
  /\ i' = i + 1
  /\ UNCHANGED <<dump, pc, apply, new, cluster>>

\* Variants: there is no further round, or it is the same again.
EndRoundLast ==
  /\ pc = "match" /\ i > Len(new)
  /\ apply' = next
  /\ pc' = "done"
  /\ UNCHANGED <<dump, other, next, new, i, ref, cluster>>

EndRoundSame ==
  /\ pc = "match" /\ i > Len(new)
  /\ pc' = IF apply = <<>> THEN "done" ELSE "apply"
  /\ UNCHANGED <<dump, apply, other, next, new, i, ref, cluster>>

EndRound ==
  /\ pc = "match" /\ i > Len(new)
  /\ apply' = next
  /\ pc' = IF next = <<>> THEN "done" ELSE "apply"
  /\ UNCHANGED <<dump, other, next, new, i, ref, cluster>>

Round ==
  \E refuse \in SUBSET Range(apply) : Apply(refuse) \/ ApplyFails(refuse)

Next == Classify \/ Round \/ Match \/ EndRound

Spec == Init /\ [][Next]_vars /\ WF_vars(Next)

-----------------------------------------------------------------------------
(* Properties *)

Lists == Seq(Objects)
UIDs == 0..(2 * N)

TypeOK ==
  /\ pc \in {"classify", "apply", "match", "done", "failed"}
  /\ {apply, other, next, new} \subseteq Lists
  /\ pc = "match" => i \in 1..(Len(new) + 1)
  /\ ref \in [Objects -> UIDs \cup {None}]
  /\ DOMAIN store \subseteq Objects /\ Range(store) \subseteq UIDs \cup {None}
  /\ refused \subseteq Objects /\ again \in BOOLEAN

\* Whatever the API server refuses, no object is sent to it again.
CreatedOnce == ~again /\ DOMAIN store \cap refused = {}

\* Whatever the API server refuses, an object that load returns without having
\* created, or seen refused, is among those it reports as skipped.
NothingDropped ==
  pc = "done" => Objects = builtin \cup DOMAIN store \cup refused \cup Range(other)

\* The objects that load can create: the smallest set with the roots that are
\* not built in, and with every object that a member controls.
Restorable ==
  LET Closed(S) ==
        \A o \in Objects \ builtin :
          owner[o] = None \/ (\E p \in S : owner[o] = Old(p)) => o \in S
  IN  {o \in Objects \ builtin : \A S \in SUBSET Objects : Closed(S) => o \in S}

\* When nothing is refused, load creates every object whose chain of controllers
\* ends in a root, however deep it is, and skips the others: those that are
\* orphaned, owned by a built-in namespace or on a cycle.
RestoresAll ==
  pc = "done" /\ refused = {} =>
    DOMAIN store = Restorable /\ Range(other) = Objects \ (Restorable \cup builtin)

\* Every call of kubectl create is for an object that none was for before, whatever
\* is refused and however the owners refer to each other: the loop, which has no
\* bound of its own, makes at most as many calls as the dump has objects.
Sent == DOMAIN store \cup refused
RoundsProgress == [][pc = "apply" /\ pc' # "apply" => \E o \in Objects : o \in Sent' \ Sent]_vars

\* load returns, also for dumps with cycles.
Returns == <>(pc \in {"done", "failed"})

\* load_test.go:51-68 wants the pod to name the new UID of its own controller.
OwnControllerNamed ==
  \A o \in DOMAIN store : owner[o] # None => store[o] = New(owner[o])

Abstract == INSTANCE Restore WITH faulty <- (refused # {})

\* The rounds create every object once, whatever is refused; until then they
\* create owners first, and the objects they own with the owners' new UIDs.
ImplementsRestore == Abstract!RestoreSpec
=============================================================================
