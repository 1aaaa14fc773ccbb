----------------------------- MODULE LoadProofs -----------------------------
(***************************************************************************)
(* Theorems about Load, for dumps of any size.                             *)
(***************************************************************************)
EXTENDS Load, SequenceTheorems, NaturalsInduction, WellFoundedInduction, TLAPS

-----------------------------------------------------------------------------
(* What filter returns *)

\* Induction, stated of a set instead of a predicate.
LEMMA Induction ==
  ASSUME NEW P \in SUBSET Nat, 0 \in P, \A n \in P : n + 1 \in P
  PROVE  P = Nat
  <1> DEFINE R == OpToRel(<, Nat)
  <1>1. IsWellFoundedOn(R, Nat)
    BY NatLessThanWellFounded
  <1>2. \A m, n \in Nat : m < n => <<m, n>> \in R
    BY DEF OpToRel
  <1> HIDE DEF R
  <1>3. SUFFICES ASSUME Nat \ P # {}
                 PROVE  FALSE
    OBVIOUS
  <1>4. PICK n \in Nat \ P : \A m \in Nat \ P : ~(<<m, n>> \in R)
    BY <1>1, <1>3, WFMin
  <1>5. n - 1 \in Nat /\ n - 1 < n /\ n - 1 \notin P
    BY <1>4
  <1> QED
    BY <1>2, <1>4, <1>5

\* The list after n passes of the loop, when ret gives the lists after fewer.
Pass(s, T, ret, n) ==
  IF n = 0 THEN <<>> ELSE IF s[n] \in T THEN Append(ret[n - 1], s[n]) ELSE ret[n - 1]

\* The loop ends with such lists.
LEMMA Passes ==
  ASSUME NEW S, NEW s \in Seq(S), NEW T
  PROVE  \E ret : ret = [n \in 0..Len(s) |-> Pass(s, T, ret, n)]
  <1> DEFINE Listed(m, f) == f = [n \in 0..m |-> Pass(s, T, f, n)]
             P == {m \in Nat : \E f : Listed(m, f)}
  <1>1. 0 \in P
    <2>1. Listed(0, [n \in 0..0 |-> <<>>])
      BY DEF Pass
    <2> HIDE DEF Listed
    <2> QED
      BY <2>1
  <1>2. ASSUME NEW m \in P PROVE m + 1 \in P
    <2>1. PICK f : Listed(m, f)
      OBVIOUS
    <2> DEFINE g == [n \in 0..(m + 1) |-> Pass(s, T, f, n)]
    <2>2. ASSUME NEW n \in 0..m PROVE g[n] = f[n]
      BY <2>1
    <2>3. ASSUME NEW n \in 0..(m + 1) PROVE Pass(s, T, f, n) = Pass(s, T, g, n)
      <3>1. n # 0 => n - 1 \in 0..m
        OBVIOUS
      <3>2. n # 0 => g[n - 1] = f[n - 1]
        BY <2>2, <3>1
      <3> QED
        BY <3>2 DEF Pass
    <2>4. Listed(m + 1, g)
      BY <2>3
    <2> QED
      BY <2>4
  <1>3. Len(s) \in P
    <2> HIDE DEF P
    <2>1. P \in SUBSET Nat
      BY DEF P
    <2>2. P = Nat
      BY <1>1, <1>2, <2>1, Induction
    <2> QED
      BY <2>2, LenProperties
  <1> QED
    BY <1>3

\* filter keeps the members of the list that are in a set, and all of the list
\* when all its members are.
LEMMA Filtered ==
  ASSUME NEW S, NEW s \in Seq(S), NEW T
  PROVE  /\ filter(s, T) \in Seq(S)
         /\ Range(filter(s, T)) = Range(s) \cap T
         /\ Range(s) \subseteq T => filter(s, T) = s
  <1> DEFINE ret == CHOOSE ret : ret = [n \in 0..Len(s) |-> Pass(s, T, ret, n)]
  <1>1. filter(s, T) = ret[Len(s)]
    BY DEF filter, Pass
  <1>2. ret = [n \in 0..Len(s) |-> Pass(s, T, ret, n)]
    BY Passes
  <1> HIDE DEF ret
  <1>3. Len(s) \in Nat /\ \A n \in 1..Len(s) : s[n] \in S
    BY LenProperties
  <1> DEFINE First(n) == {s[k] : k \in 1..n}
             Good(n, f) == /\ f \in Seq(S) /\ Range(f) = First(n) \cap T
                           /\ First(n) \subseteq T =>
                                Len(f) = n /\ \A k \in 1..n : f[k] = s[k]
             P == {n \in Nat : n <= Len(s) => Good(n, ret[n])}
  <1>4. 0 \in P
    <2>1. ret[0] = <<>>
      BY <1>2, <1>3 DEF Pass
    <2>2. Range(<<>>) = {} /\ First(0) = {}
      BY DEF Range
    <2>3. Good(0, <<>>)
      BY <2>2
    <2> HIDE DEF Good
    <2> QED
      BY <2>1, <2>3
  <1>5. ASSUME NEW n \in P PROVE n + 1 \in P
    <2>1. n \in Nat
      OBVIOUS
    <2>2. SUFFICES ASSUME n + 1 <= Len(s)
                   PROVE  Good(n + 1, ret[n + 1])
      BY <2>1
    <2>3. /\ Good(n, ret[n]) /\ n + 1 \in 1..Len(s) /\ s[n + 1] \in S
          /\ ret[n + 1] = IF s[n + 1] \in T THEN Append(ret[n], s[n + 1]) ELSE ret[n]
      <3>1. n + 1 \in 1..Len(s) /\ n + 1 # 0 /\ n + 1 - 1 = n /\ n <= Len(s)
        BY <1>3, <2>1, <2>2
      <3>2. ret[n + 1] = Pass(s, T, ret, n + 1)
        <4>1. n + 1 \in 0..Len(s)
          BY <1>3, <3>1
        <4> QED
          BY <1>2, <4>1, Zenon
      <3> QED
        BY <1>3, <3>1, <3>2 DEF Pass
    <2>4. First(n + 1) = First(n) \cup {s[n + 1]}
      BY <2>1
    <2> DEFINE f == ret[n]
               x == s[n + 1]
    <2> HIDE DEF First, f, x
    <2>5. CASE x \in T
      <3>1. ret[n + 1] = Append(f, x) /\ f \in Seq(S) /\ x \in S
        BY <2>3, <2>5 DEF f, x
      <3>2. Append(f, x) \in Seq(S) /\ Range(Append(f, x)) = Range(f) \cup {x}
        <4>1. /\ Append(f, x) \in Seq(S) /\ Len(Append(f, x)) = Len(f) + 1
              /\ \A k \in 1..Len(f) : Append(f, x)[k] = f[k]
              /\ Append(f, x)[Len(f) + 1] = x
          BY <3>1, AppendProperties
        <4>2. Len(f) \in Nat /\ DOMAIN f = 1..Len(f) /\ DOMAIN Append(f, x) = 1..(Len(f) + 1)
          BY <3>1, <4>1, LenProperties
        <4> QED
          BY <4>1, <4>2 DEF Range
      <3>3. Range(Append(f, x)) = First(n + 1) \cap T
        BY <2>3, <2>4, <2>5, <3>2 DEF f, x
      <3>4. ASSUME First(n + 1) \subseteq T
            PROVE  Len(Append(f, x)) = n + 1 /\ \A k \in 1..(n + 1) : Append(f, x)[k] = s[k]
        <4>1. Len(f) = n /\ \A k \in 1..n : f[k] = s[k]
          BY <2>3, <2>4, <3>4 DEF f
        <4> QED
          BY <2>1, <3>1, <4>1, AppendProperties DEF x
      <3> QED
        BY <3>1, <3>2, <3>3, <3>4
    <2>6. CASE x \notin T
      <3>1. ret[n + 1] = f /\ f \in Seq(S) /\ Range(f) = First(n + 1) \cap T
        BY <2>3, <2>4, <2>6 DEF f, x
      <3>2. ~(First(n + 1) \subseteq T)
        BY <2>4, <2>6 DEF x
      <3> QED
        BY <3>1, <3>2
    <2> QED
      BY <2>5, <2>6
  <1>6. Good(Len(s), ret[Len(s)])
    <2> HIDE DEF Good
    <2>1. P \in SUBSET Nat
      OBVIOUS
    <2> HIDE DEF P
    <2>2. P = Nat
      BY <1>4, <1>5, <2>1, Induction
    <2>3. Len(s) \in P
      BY <1>3, <2>2
    <2> QED
      BY <1>3, <2>3 DEF P
  <1>7. First(Len(s)) = Range(s)
    BY <1>3, LenProperties DEF Range
  <1>8. ASSUME Range(s) \subseteq T PROVE ret[Len(s)] = s
    <2>1. /\ ret[Len(s)] \in Seq(S) /\ Len(ret[Len(s)]) = Len(s)
          /\ \A k \in 1..Len(s) : ret[Len(s)][k] = s[k]
      BY <1>6, <1>7, <1>8
    <2> QED
      BY <2>1, SeqEqual
  <1> QED
    BY <1>1, <1>6, <1>7, <1>8

-----------------------------------------------------------------------------
(* What the properties rest on *)

Created == DOMAIN store

\* Types that TypeOK leaves out.
TypeInv ==
  /\ TypeOK
  /\ owner \in [Objects -> Objects \cup {Elsewhere, None}]
  /\ builtin \subseteq {o \in Objects : owner[o] = None}

\* The objects that are still to be sent to the API server.
Pending ==
  CASE pc = "apply" -> Range(apply)
    [] pc = "match" -> Range(next)
    [] OTHER -> {}

\* Every object is in one place.
PlacesInv ==
  /\ pc = "classify" => ref = owner /\ Created = {} /\ refused = {}
  /\ ~again /\ Created \cap refused = {} /\ builtin \cap (Created \cup refused) = {}
  /\ Pending \cap (builtin \cup Created \cup refused \cup Range(other)) = {}
  /\ pc # "classify" =>
       \A o \in Range(other) :
         /\ o \notin builtin \cup Created \cup refused
         /\ owner[o] # None /\ ref[o] = owner[o]
  /\ pc \in {"apply", "match", "done"} =>
       Objects = builtin \cup Created \cup refused \cup Pending \cup Range(other)

\* An object that names the controller that was created for it.
Adopted(o) == owner[o] \in Created /\ ref[o] = New(owner[o])

\* As long as nothing is refused, objects follow their controllers.
OrderInv ==
  refused = {} =>
    /\ Created \subseteq Restorable
    /\ pc \in {"apply", "match", "done"} =>
         \A o \in Objects \ builtin : owner[o] = None => o \in Created \cup Pending
    /\ \A o \in Pending : (owner[o] = None /\ ref[o] = None) \/ Adopted(o)
    /\ pc \in {"apply", "done"} => \A o \in Range(other) : owner[o] \notin Created
    /\ pc = "match" =>
         /\ new = apply /\ Range(apply) \subseteq Created
         /\ \A o \in Range(other) : owner[o] \in Created =>
              \E k \in i..Len(apply) : apply[k] = owner[o]

-----------------------------------------------------------------------------
(* What load keeps in the cluster and in its lists *)

\* Objects is Nat's up to N: what each step does with it.
LEMMA Numbers == /\ None \notin Objects /\ None # Elsewhere /\ Elsewhere \notin Objects
                 /\ Objects \subseteq UIDs
                 /\ \A o \in Objects : Old(o) = o /\ New(o) \in UIDs /\ New(o) # None
  BY Parameters DEF Objects, Elsewhere, UIDs, Old, New

\* The dump as a list.
LEMMA Input ==
  LET input == [o \in Objects |-> o]
  IN  input \in Seq(Objects) /\ Range(input) = Objects
  <1> DEFINE input == [o \in Objects |-> o]
  <1>1. input \in [1..N -> Objects] /\ N \in Nat
    BY Parameters DEF Objects
  <1>2. input \in Seq(Objects)
    BY <1>1, SeqDef
  <1>3. Range(input) = Objects
    BY DEF Range
  <1> QED
    BY <1>2, <1>3

LEMMA TypeInit == Init => TypeInv
  <1> SUFFICES ASSUME Init
               PROVE  TypeInv
    OBVIOUS
  <1>1. ref \in [Objects -> UIDs \cup {None}]
    <2>1. Objects \cup {Elsewhere, None} \subseteq UIDs \cup {None}
      BY Parameters DEF Objects, Elsewhere, UIDs
    <2>2. ref = owner /\ owner \in [Objects -> Objects \cup {Elsewhere, None}]
      BY DEF Init
    <2> QED
      BY <2>1, <2>2
  <1>2. DOMAIN store = {} /\ Range(store) = {}
    BY DEF Init, Range
  <1> QED
    <2>1. /\ pc = "classify" /\ {apply, other, next, new} \subseteq Lists
          /\ refused = {} /\ again = FALSE
      BY DEF Init, Lists
    <2>2. /\ owner \in [Objects -> Objects \cup {Elsewhere, None}]
          /\ builtin \subseteq {o \in Objects : owner[o] = None}
      BY DEF Init
    <2> QED
      BY <1>1, <1>2, <2>1, <2>2 DEF TypeInv, TypeOK

\* What a list of objects has for members.
LEMMA Members ==
  ASSUME NEW s \in Lists
  PROVE  /\ Len(s) \in Nat /\ Range(s) \subseteq Objects
         /\ \A k \in 1..Len(s) : s[k] \in Range(s)
         /\ \A o \in Range(s) : \E k \in 1..Len(s) : s[k] = o
         /\ s = <<>> <=> Range(s) = {}
  <1>1. Len(s) \in Nat /\ DOMAIN s = 1..Len(s) /\ \A k \in 1..Len(s) : s[k] \in Objects
    BY LenProperties DEF Lists
  <1>2. s # <<>> => 1 \in 1..Len(s)
    BY <1>1, EmptySeq DEF Lists
  <1>3. Range(<<>>) = {}
    BY DEF Range
  <1> QED
    BY <1>1, <1>2, <1>3 DEF Range

LEMMA Posted ==
  ASSUME NEW refuse, Post(refuse)
  PROVE  LET created == Range(apply) \ refuse
         IN  /\ Created' = Created \cup created /\ refused' = refused \cup refuse
             /\ again' = (again \/ created \cap Created # {})
             /\ \A o \in created : store'[o] = ref[o]
             /\ \A o \in Created \ created : store'[o] = store[o]
             /\ Range(store') \subseteq Range(store) \cup {ref[o] : o \in created}
  BY DEF Post, Created, Range

\* Apply and ApplyFails, with what they have in common.
Sends(refuse) ==
  /\ refuse \in SUBSET Range(apply) /\ pc = "apply" /\ Post(refuse)
  /\ UNCHANGED <<owner, builtin, apply, other, ref>>
  /\ \/ pc' = "failed" /\ next' = next /\ new' = new /\ i' = i
     \/ /\ pc' = IF other = <<>> THEN "done" ELSE "match"
        /\ new' = filter(apply, Objects \ refuse) /\ i' = 1 /\ next' = <<>>

LEMMA Steps ==
  ASSUME [Next]_vars
  PROVE  Classify \/ (\E refuse : Sends(refuse)) \/ Match \/ EndRound \/ UNCHANGED vars
  BY DEF Next, Round, Apply, ApplyFails, Sends, dump

LEMMA TypeStep == TypeInv /\ [Next]_vars => TypeInv'
  <1> SUFFICES ASSUME TypeInv, [Next]_vars
               PROVE  TypeInv'
    OBVIOUS
  <1>1. /\ TypeOK /\ {apply, other, next, new} \subseteq Lists
        /\ owner \in [Objects -> Objects \cup {Elsewhere, None}]
        /\ builtin \subseteq {o \in Objects : owner[o] = None}
    BY DEF TypeInv, TypeOK
  <1>2. ASSUME NEW s \in Lists, NEW T PROVE filter(s, T) \in Lists
    BY Filtered DEF Lists
  <1>3. CASE Classify
    <2>1. {apply', other'} \subseteq Lists
      BY <1>2, <1>3, Input DEF Classify, Lists
    <2> QED
      BY <1>1, <1>3, <2>1 DEF Classify, TypeInv, TypeOK, dump, cluster
  <1>4. ASSUME NEW refuse, Sends(refuse) PROVE TypeInv'
    <2>1. /\ pc' \in {"done", "match", "failed"} /\ {apply, other, next, new}' \subseteq Lists
          /\ refuse \subseteq Objects
      <3>1. <<>> \in Lists /\ filter(apply, Objects \ refuse) \in Lists
        BY <1>1, <1>2 DEF Lists
      <3>2. refuse \subseteq Objects
        BY <1>1, <1>4, Members DEF Sends
      <3> QED
        BY <1>1, <1>4, <3>1, <3>2 DEF Sends
    <2>2. pc' = "match" => i' \in 1..(Len(new') + 1)
      <3>1. pc' = "match" => i' = 1
        BY <1>4 DEF Sends
      <3>2. Len(new') \in Nat
        BY <2>1, Members
      <3> QED
        BY <3>1, <3>2
    <2>3. DOMAIN store' \subseteq Objects /\ Range(store') \subseteq UIDs \cup {None}
      <3>1. /\ Created' = Created \cup (Range(apply) \ refuse) /\ Range(apply) \subseteq Objects
            /\ Range(store') \subseteq Range(store) \cup {ref[o] : o \in Range(apply) \ refuse}
        BY <1>1, <1>4, Posted, Members DEF Sends
      <3> QED
        BY <1>1, <3>1 DEF TypeOK, Created
    <2>4. refused' \subseteq Objects /\ again' \in BOOLEAN
      <3>1. refused' = refused \cup refuse
        BY <1>4, Posted DEF Sends
      <3>2. again' \in BOOLEAN
        BY <1>4, Zenon DEF Sends, Post
      <3> QED
        BY <1>1, <2>1, <3>1, <3>2 DEF TypeOK
    <2> QED
      BY <1>1, <1>4, <2>1, <2>2, <2>3, <2>4 DEF Sends, TypeInv, TypeOK
  <1>5. CASE Match
    <2>1. i \in 1..Len(new) /\ i + 1 \in 1..(Len(new) + 1) /\ new[i] \in Objects
      <3>1. i \in 1..(Len(new) + 1) /\ i <= Len(new) /\ Len(new) \in Nat
        BY <1>1, <1>5, Members DEF Match, TypeOK
      <3>2. i \in 1..Len(new) /\ i + 1 \in 1..(Len(new) + 1)
        BY <3>1
      <3> QED
        BY <1>1, <3>2, Members
    <2>2. {other', next'} \subseteq Lists
      BY <1>1, <1>2, <1>5, ConcatProperties DEF Match, Lists
    <2>3. ref' \in [Objects -> UIDs \cup {None}]
      BY <1>1, <1>5, <2>1, Numbers DEF Match, TypeOK
    <2> QED
      BY <1>1, <1>5, <2>1, <2>2, <2>3 DEF Match, TypeInv, TypeOK, dump, cluster
  <1>6. CASE EndRound
    BY <1>1, <1>6 DEF EndRound, TypeInv, TypeOK, dump, cluster
  <1>7. CASE UNCHANGED vars
    BY <1>1, <1>7 DEF vars, TypeInv, TypeOK
  <1> QED
    BY <1>3, <1>4, <1>5, <1>6, <1>7, Steps

\* The lists, the loop's index and the references have the types that the model
\* gives them (load/load.go load).
THEOREM TypeCorrect == Spec => []TypeOK
  <1>1. TypeInv => TypeOK
    BY DEF TypeInv
  <1> QED
    BY TypeInit, TypeStep, <1>1, PTL DEF Spec

-----------------------------------------------------------------------------
(* Every object is in one place *)

LEMMA PlacesInit == Init => PlacesInv
  <1> SUFFICES ASSUME Init
               PROVE  PlacesInv
    OBVIOUS
  <1>1. pc = "classify" /\ ref = owner /\ Created = {} /\ refused = {} /\ again = FALSE
    BY DEF Init, Created
  <1>2. Pending = {}
    BY <1>1 DEF Pending
  <1> QED
    BY <1>1, <1>2 DEF PlacesInv

\* The lists after the dump has been classified.
LEMMA Classified ==
  ASSUME TypeInv, PlacesInv, Classify
  PROVE  /\ pc = "classify" /\ pc' \in {"apply", "done"} /\ Created = {} /\ refused = {}
         /\ ref = owner /\ UNCHANGED <<owner, builtin, ref, store, refused, again>>
         /\ Range(apply') = {o \in Objects : owner[o] = None} \ builtin
         /\ Range(other') = {o \in Objects : owner[o] # None} \ builtin
         /\ Pending' = Range(apply')
  <1> DEFINE input == [o \in Objects |-> o]
             roots == {o \in Objects : ref[o] = None}
  <1>1. /\ pc = "classify" /\ UNCHANGED <<owner, builtin, ref, store, refused, again>>
        /\ apply' = filter(input, roots \ builtin)
        /\ other' = filter(input, Objects \ (roots \cup builtin))
        /\ pc' = IF apply' = <<>> THEN "done" ELSE "apply"
    BY DEF Classify, dump, cluster
  <1>2. Created = {} /\ refused = {} /\ ref = owner
    BY <1>1 DEF PlacesInv
  <1>3. input \in Seq(Objects) /\ Range(input) = Objects
    BY Input
  <1> HIDE DEF input
  <1>4. /\ Range(apply') = Objects \cap (roots \ builtin)
        /\ Range(other') = Objects \cap (Objects \ (roots \cup builtin))
    BY <1>1, <1>3, Filtered
  <1>5. Pending' = Range(apply')
    BY <1>1 DEF Pending, Range
  <1> QED
    BY <1>1, <1>2, <1>4, <1>5

\* The cluster and the lists after a round has been sent.
LEMMA RoundSent ==
  ASSUME TypeInv, PlacesInv, NEW refuse, Sends(refuse)
  PROVE  /\ pc = "apply" /\ pc' \in {"match", "done", "failed"} /\ Pending = Range(apply)
         /\ Pending' = {} /\ refuse \subseteq Range(apply)
         /\ UNCHANGED <<owner, builtin, apply, other, ref>>
         /\ Created' = Created \cup (Range(apply) \ refuse) /\ refused' = refused \cup refuse
         /\ again' = again
         /\ \A o \in Range(apply) \ refuse : store'[o] = ref[o]
         /\ \A o \in Created : store'[o] = store[o]
         /\ pc' \in {"match", "done"} =>
              /\ i' = 1 /\ new' = filter(apply, Objects \ refuse)
              /\ pc' = "done" => other = <<>>
  <1>1. /\ refuse \subseteq Range(apply) /\ pc = "apply" /\ Post(refuse)
        /\ UNCHANGED <<owner, builtin, apply, other, ref>>
    BY DEF Sends
  <1>2. Pending = Range(apply)
    BY <1>1 DEF Pending
  <1>3. pc' \in {"match", "done", "failed"} /\ Pending' = {}
    <2>1. Range(<<>>) = {}
      BY DEF Range
    <2> QED
      BY <2>1 DEF Sends, Pending
  <1>4. Created \cap Range(apply) = {}
    BY <1>2 DEF PlacesInv
  <1>5. /\ Created' = Created \cup (Range(apply) \ refuse) /\ refused' = refused \cup refuse
        /\ \A o \in Range(apply) \ refuse : store'[o] = ref[o]
        /\ \A o \in Created : store'[o] = store[o]
    BY <1>1, <1>4, Posted
  <1>6. again' = again
    <2>1. (Range(apply) \ refuse) \cap DOMAIN store = {}
      BY <1>4 DEF Created
    <2> QED
      BY <1>1, <2>1 DEF Post, TypeInv, TypeOK
  <1>7. pc' \in {"match", "done"} =>
          /\ i' = 1 /\ new' = filter(apply, Objects \ refuse)
          /\ pc' = "done" => other = <<>>
    BY DEF Sends
  <1> QED
    BY <1>1, <1>2, <1>3, <1>5, <1>6, <1>7

\* The lists after a pass of the loop over the objects created.
LEMMA Matched ==
  ASSUME TypeInv, Match
  PROVE  LET children == {o \in Range(other) : ref[o] = apply[i]}
         IN  /\ pc = "match" /\ pc' = "match" /\ i \in 1..Len(new) /\ i' = i + 1
             /\ UNCHANGED <<owner, builtin, apply, new, store, refused, again>>
             /\ Range(other') = Range(other) \ children
             /\ Pending = Range(next) /\ Pending' = Pending \cup children
             /\ \A o \in Objects : ref'[o] = IF o \in children THEN New(new[i]) ELSE ref[o]
  <1> DEFINE controlled == {o \in Objects : ref[o] = Old(apply[i])}
             list == filter(other, controlled)
  <1>1. /\ pc = "match" /\ pc' = "match" /\ i' = i + 1
        /\ UNCHANGED <<owner, builtin, apply, new, store, refused, again>>
        /\ ref' = [o \in Objects |-> IF o \in Range(list) THEN New(new[i]) ELSE ref[o]]
        /\ other' = filter(other, Objects \ controlled) /\ next' = next \o list
    BY DEF Match, dump, cluster
  <1>2. i \in 1..Len(new)
    <2>1. i \in 1..(Len(new) + 1) /\ i <= Len(new) /\ Len(new) \in Nat
      BY <1>1, Members DEF Match, TypeInv, TypeOK
    <2> QED
      BY <2>1
  <1>3. other \in Seq(Objects) /\ next \in Seq(Objects) /\ Range(other) \subseteq Objects
    BY Members DEF TypeInv, TypeOK, Lists
  <1>4. list \in Seq(Objects) /\ Range(list) = {o \in Range(other) : ref[o] = apply[i]}
    <2>1. list \in Seq(Objects) /\ Range(list) = Range(other) \cap controlled
      BY <1>3, Filtered
    <2> QED
      BY <1>3, <2>1 DEF Old
  <1>5. Range(other') = Range(other) \ Range(list)
    <2>1. Range(other') = Range(other) \cap (Objects \ controlled)
      BY <1>1, <1>3, Filtered
    <2>2. Range(list) = Range(other) \cap controlled
      BY <1>3, Filtered
    <2> QED
      BY <1>3, <2>1, <2>2
  <1> HIDE DEF list
  <1>6. Range(next \o list) = Range(next) \cup Range(list)
    BY <1>3, <1>4, RangeConcatenation
  <1>7. Pending = Range(next) /\ Pending' = Range(next')
    BY <1>1 DEF Pending
  <1> QED
    BY <1>1, <1>2, <1>4, <1>5, <1>6, <1>7

LEMMA RoundEnded ==
  ASSUME TypeInv, EndRound
  PROVE  /\ pc = "match" /\ pc' \in {"apply", "done"} /\ Pending' = Pending
         /\ UNCHANGED <<owner, builtin, other, new, ref, store, refused, again>>
         /\ i > Len(new)
         /\ pc' = "apply" => Pending' = Range(apply')
         /\ pc' = "done" => Pending' = {}
  <1>1. /\ pc = "match" /\ pc' = IF next = <<>> THEN "done" ELSE "apply"
        /\ apply' = next /\ i > Len(new)
        /\ UNCHANGED <<owner, builtin, other, new, ref, store, refused, again>>
    BY DEF EndRound, dump, cluster
  <1>2. next = <<>> => Range(next) = {}
    BY DEF Range
  <1> QED
    BY <1>1, <1>2 DEF Pending

LEMMA PlacesStep == TypeInv /\ PlacesInv /\ [Next]_vars => PlacesInv'
  <1> SUFFICES ASSUME TypeInv, PlacesInv, [Next]_vars
               PROVE  PlacesInv'
    OBVIOUS
  <1>1. builtin \subseteq {o \in Objects : owner[o] = None}
    BY DEF TypeInv
  <1>2. CASE Classify
    <2>1. Created' = {}
      BY <1>2, Classified DEF Created
    <2> QED
      BY <1>1, <1>2, <2>1, Classified DEF PlacesInv
  <1>3. ASSUME NEW refuse, Sends(refuse) PROVE PlacesInv'
    BY <1>3, RoundSent DEF PlacesInv
  <1>4. CASE Match
    <2> DEFINE children == {o \in Range(other) : ref[o] = apply[i]}
    <2>1. /\ pc = "match" /\ pc' = "match" /\ Created' = Created
          /\ UNCHANGED <<owner, builtin, refused, again>>
          /\ Range(other') = Range(other) \ children
          /\ Pending' = Pending \cup children
          /\ \A o \in Objects \ children : ref'[o] = ref[o]
      BY <1>4, Matched DEF Created
    <2>2. Range(other) \subseteq Objects
      BY Members DEF TypeInv, TypeOK
    <2> QED
      BY <2>1, <2>2 DEF PlacesInv
  <1>5. CASE EndRound
    BY <1>5, RoundEnded DEF PlacesInv, Created
  <1>6. CASE UNCHANGED vars
    BY <1>6 DEF vars, PlacesInv, Pending, Created
  <1> QED
    BY <1>2, <1>3, <1>4, <1>5, <1>6, Steps

\* No object is sent to the API server twice, whatever it refuses (load/load.go load).
THEOREM SentOnce == Spec => []CreatedOnce
  <1>1. PlacesInv => CreatedOnce
    BY DEF PlacesInv, CreatedOnce, Created
  <1> QED
    BY TypeInit, TypeStep, PlacesInit, PlacesStep, <1>1, PTL DEF Spec

\* What load returns without having created it or seen it refused is reported as
\* skipped (load/load.go load, Load).
THEOREM Accounted == Spec => []NothingDropped
  <1>1. PlacesInv => NothingDropped
    <2>1. pc = "done" => Pending = {}
      BY DEF Pending
    <2> QED
      BY <2>1 DEF PlacesInv, NothingDropped, Created
  <1> QED
    BY TypeInit, TypeStep, PlacesInit, PlacesStep, <1>1, PTL DEF Spec

\* A round that begins has something to send.
RoundInv == pc = "apply" => apply # <<>>

LEMMA RoundStep == RoundInv /\ [Next]_vars => RoundInv'
  <1> SUFFICES ASSUME RoundInv, [Next]_vars
               PROVE  RoundInv'
    OBVIOUS
  <1>1. CASE Classify
    BY <1>1 DEF Classify, RoundInv
  <1>2. ASSUME NEW refuse, Sends(refuse) PROVE RoundInv'
    BY <1>2 DEF Sends, RoundInv
  <1>3. CASE Match
    BY <1>3 DEF Match, RoundInv
  <1>4. CASE EndRound
    BY <1>4 DEF EndRound, RoundInv
  <1>5. CASE UNCHANGED vars
    BY <1>5 DEF vars, RoundInv
  <1> QED
    BY <1>1, <1>2, <1>3, <1>4, <1>5, Steps

\* Every call of kubectl create is for an object that none was for before: load
\* makes at most N of them (load/load.go load).
THEOREM RoundsAreFinite == Spec => RoundsProgress
  <1>1. Init => RoundInv
    BY DEF Init, RoundInv
  <1>2. ASSUME TypeInv, PlacesInv, RoundInv, [Next]_vars, pc = "apply", pc' # "apply"
        PROVE  \E o \in Objects : o \in Sent' \ Sent
    <2>1. PICK refuse : Sends(refuse)
      BY <1>2, Steps DEF Classify, Match, EndRound, vars
    <2>2. /\ Pending = Range(apply) /\ refuse \subseteq Range(apply)
          /\ Created' = Created \cup (Range(apply) \ refuse) /\ refused' = refused \cup refuse
      BY <1>2, <2>1, RoundSent
    <2>3. PICK o \in Objects : o \in Range(apply)
      <3>1. apply \in Seq(Objects) /\ apply # <<>>
        BY <1>2 DEF TypeInv, TypeOK, Lists, RoundInv
      <3>2. Range(apply) \subseteq Objects /\ Range(apply) = {apply[k] : k \in 1..Len(apply)}
        BY <3>1, RangeOfSeq, RangeEquality
      <3>3. 1 \in 1..Len(apply)
        BY <3>1, EmptySeq
      <3> QED
        BY <3>2, <3>3
    <2>4. o \notin Created \cup refused
      BY <1>2, <2>2, <2>3 DEF PlacesInv
    <2> QED
      BY <2>2, <2>3, <2>4 DEF Sent, Created
  <1>3. TypeInv /\ PlacesInv /\ RoundInv /\ [Next]_vars =>
          [pc = "apply" /\ pc' # "apply" => \E o \in Objects : o \in Sent' \ Sent]_vars
    BY <1>2
  <1> QED
    BY <1>1, <1>3, TypeInit, TypeStep, PlacesInit, PlacesStep, RoundStep, PTL
    DEF Spec, RoundsProgress

-----------------------------------------------------------------------------
(* Controllers come first *)

Closed(S) ==
  \A o \in Objects \ builtin :
    owner[o] = None \/ (\E p \in S : owner[o] = Old(p)) => o \in S

LEMMA RestorableClosed == Closed(Restorable) /\ Restorable \subseteq Objects \ builtin
  BY DEF Restorable, Closed

LEMMA RestorableLeast ==
  ASSUME NEW S \in SUBSET Objects, Closed(S)
  PROVE  Restorable \subseteq S
  BY DEF Restorable, Closed

LEMMA OrderInit == Init => OrderInv
  BY DEF Init, OrderInv, Created, Pending

LEMMA OrderStep == TypeInv /\ PlacesInv /\ OrderInv /\ [Next]_vars => OrderInv'
  <1> SUFFICES ASSUME TypeInv, PlacesInv, OrderInv, [Next]_vars, refused' = {}
               PROVE  OrderInv'
    BY DEF OrderInv
  <1> USE Numbers
  <1>1. /\ owner \in [Objects -> Objects \cup {Elsewhere, None}]
        /\ builtin \subseteq {o \in Objects : owner[o] = None}
        /\ Created \subseteq Objects /\ Range(apply) \subseteq Objects
        /\ Range(other) \subseteq Objects /\ Range(next) \subseteq Objects
    BY Members DEF TypeInv, TypeOK, Created
  <1>2. CASE Classify
    <2>1. Created' = {} /\ Created = {}
      BY <1>2, Classified DEF Created
    <2>2. /\ pc' \in {"apply", "done"} /\ UNCHANGED <<owner, builtin, ref>> /\ ref = owner
          /\ Pending' = {o \in Objects : owner[o] = None} \ builtin
      BY <1>2, Classified
    <2> QED
      BY <1>1, <2>1, <2>2 DEF OrderInv
  <1>3. ASSUME NEW refuse, Sends(refuse) PROVE OrderInv'
    <2>1. /\ pc = "apply" /\ pc' \in {"match", "done", "failed"} /\ Pending' = {}
          /\ UNCHANGED <<owner, builtin, apply, other>> /\ Pending = Range(apply)
          /\ refused = {} /\ refuse = {}
          /\ Created' = Created \cup Range(apply)
      BY <1>3, RoundSent
    <2>2. Created' \subseteq Restorable
      <3>1. ASSUME NEW o \in Range(apply) PROVE o \in Restorable
        <4>1. o \in Objects \ builtin
          BY <1>1, <2>1 DEF PlacesInv
        <4>2. owner[o] = None \/ owner[o] \in Created
          BY <2>1 DEF OrderInv, Adopted
        <4>3. Created \subseteq Restorable
          BY <2>1 DEF OrderInv
        <4> QED
          BY <4>1, <4>2, <4>3, RestorableClosed DEF Closed, Old
      <3> QED
        BY <2>1, <3>1 DEF OrderInv
    <2>3. Restorable' = Restorable
      BY <2>1 DEF Restorable
    <2>4. \A o \in Objects \ builtin : owner[o] = None => o \in Created'
      BY <2>1 DEF OrderInv
    <2>5. pc' = "done" => Range(other') = {}
      BY <1>3, <2>1, RoundSent, Members DEF TypeInv, TypeOK
    <2>6. CASE pc' = "match"
      <3>1. new' = apply /\ i' = 1
        <4>1. Objects \ refuse = Objects /\ apply \in Seq(Objects)
          BY <2>1 DEF TypeInv, TypeOK, Lists
        <4>2. filter(apply, Objects) = apply
          BY <1>1, <4>1, Filtered
        <4> QED
          BY <1>3, <2>6, <4>1, <4>2, RoundSent
      <3>2. \A o \in Range(other) : owner[o] \in Created' => owner[o] \in Range(apply)
        BY <2>1 DEF OrderInv
      <3>3. \A o \in Range(other) : owner[o] \in Created' =>
              \E k \in 1..Len(apply) : apply[k] = owner[o]
        BY <3>2, Members DEF TypeInv, TypeOK
      <3> QED
        BY <2>1, <2>2, <2>3, <2>4, <2>6, <3>1, <3>3 DEF OrderInv
    <2>7. CASE pc' # "match"
      BY <2>1, <2>2, <2>3, <2>4, <2>5, <2>7 DEF OrderInv
    <2> QED
      BY <2>6, <2>7
  <1>4. CASE Match
    <2> DEFINE children == {o \in Range(other) : ref[o] = apply[i]}
    <2>1. /\ pc = "match" /\ pc' = "match" /\ i \in 1..Len(new) /\ i' = i + 1
          /\ UNCHANGED <<owner, builtin, apply, new, refused>> /\ Created' = Created
          /\ Range(other') = Range(other) \ children
          /\ Pending = Range(next) /\ Pending' = Pending \cup children
          /\ \A o \in Objects : ref'[o] = IF o \in children THEN New(new[i]) ELSE ref[o]
      BY <1>4, Matched DEF Created
    <2>2. Restorable' = Restorable
      BY <2>1 DEF Restorable
    <2>3. /\ Created \subseteq Restorable /\ new = apply /\ Range(apply) \subseteq Created
          /\ \A o \in Objects \ builtin : owner[o] = None => o \in Created \cup Pending
          /\ \A o \in Pending : (owner[o] = None /\ ref[o] = None) \/ Adopted(o)
          /\ \A o \in Range(other) : owner[o] \in Created =>
               \E k \in i..Len(apply) : apply[k] = owner[o]
      BY <2>1 DEF OrderInv
    <2>4. /\ Pending \cap Range(other) = {} /\ Pending \subseteq Objects
          /\ \A o \in Range(other) : ref[o] = owner[o]
      BY <1>1, <2>1 DEF PlacesInv
    <2>5. new[i] = apply[i] /\ apply[i] \in Created
      BY <2>1, <2>3, Members DEF TypeInv, TypeOK
    <2>6. \A o \in Pending' : (owner[o] = None /\ ref'[o] = None) \/ Adopted(o)'
      <3>1. ASSUME NEW o \in children PROVE Adopted(o)'
        BY <1>1, <2>1, <2>4, <2>5, <3>1 DEF Adopted
      <3>2. ASSUME NEW o \in Pending, o \notin children
            PROVE  (owner[o] = None /\ ref'[o] = None) \/ Adopted(o)'
        BY <2>1, <2>3, <2>4, <3>2 DEF Adopted
      <3> QED
        BY <2>1, <3>1, <3>2
    <2>7. ASSUME NEW o \in Range(other'), owner[o] \in Created
          PROVE  \E k \in i'..Len(apply) : apply[k] = owner[o]
      <3>1. PICK k \in i..Len(apply) : apply[k] = owner[o]
        BY <2>1, <2>3, <2>7
      <3>2. owner[o] # apply[i]
        BY <2>1, <2>4, <2>7
      <3>3. i \in Nat /\ Len(apply) \in Nat
        BY <2>1, <2>3, Members DEF TypeInv, TypeOK
      <3>4. k \in (i + 1)..Len(apply)
        BY <3>1, <3>2, <3>3
      <3> QED
        BY <2>1, <3>1, <3>4
    <2> QED
      BY <2>1, <2>2, <2>3, <2>6, <2>7 DEF OrderInv
  <1>5. CASE EndRound
    <2>1. /\ pc = "match" /\ pc' \in {"apply", "done"} /\ Pending' = Pending
          /\ UNCHANGED <<owner, builtin, other, new, ref, refused>> /\ Created' = Created
          /\ i > Len(new)
      BY <1>5, RoundEnded DEF Created
    <2>2. Restorable' = Restorable /\ \A o \in Pending : Adopted(o)' <=> Adopted(o)
      BY <2>1 DEF Restorable, Adopted
    <2>3. \A o \in Range(other) : owner[o] \notin Created
      <3>1. i \in Nat /\ Len(new) \in Nat /\ new = apply
        BY <2>1, Members DEF TypeInv, TypeOK, OrderInv
      <3>2. i..Len(apply) = {}
        BY <2>1, <3>1
      <3> QED
        BY <2>1, <3>2 DEF OrderInv
    <2> QED
      BY <2>1, <2>2, <2>3 DEF OrderInv
  <1>6. CASE UNCHANGED vars
    BY <1>6 DEF vars, OrderInv, Created, Pending, Restorable, Adopted
  <1> QED
    BY <1>2, <1>3, <1>4, <1>5, <1>6, Steps

LEMMA Invariant == Spec => [](TypeInv /\ PlacesInv /\ OrderInv)
  BY TypeInit, TypeStep, PlacesInit, PlacesStep, OrderInit, OrderStep, PTL DEF Spec

\* When nothing is refused, load creates the objects whose chain of controllers ends
\* in a root, however deep it is, and reports the others (load/load.go load).
THEOREM WholeChains == Spec => []RestoresAll
  <1>1. ASSUME TypeInv, PlacesInv, OrderInv, pc = "done", refused = {}
        PROVE  DOMAIN store = Restorable /\ Range(other) = Objects \ (Restorable \cup builtin)
    <2>1. /\ Created \subseteq Objects /\ Pending = {} /\ Range(other) \subseteq Objects
          /\ Objects = builtin \cup Created \cup Range(other)
          /\ builtin \cap Created = {}
          /\ \A o \in Range(other) : o \notin builtin \cup Created
      BY <1>1, Members DEF TypeInv, TypeOK, Created, Pending, PlacesInv
    <2>2. Closed(Created)
      <3>1. \A o \in Objects \ builtin : owner[o] = None => o \in Created
        BY <1>1, <2>1 DEF OrderInv
      <3>2. \A o \in Range(other) : owner[o] \notin Created
        BY <1>1 DEF OrderInv
      <3> QED
        BY <2>1, <3>1, <3>2 DEF Closed, Old
    <2>3. Created = Restorable
      BY <1>1, <2>1, <2>2, RestorableLeast DEF OrderInv
    <2> QED
      BY <2>1, <2>3 DEF Created
  <1>2. TypeInv /\ PlacesInv /\ OrderInv => RestoresAll
    BY <1>1 DEF RestoresAll
  <1> QED
    BY <1>2, Invariant, PTL

-----------------------------------------------------------------------------
(* Refinement *)

LEMMA RestoreInit == Init => Abstract!RestoreInit
  BY DEF Init, Abstract!RestoreInit, Abstract!Objects, Objects, Elsewhere

LEMMA RestoreStep ==
  TypeInv /\ PlacesInv /\ OrderInv /\ [Next]_vars =>
    [\E S \in SUBSET Abstract!Objects : Abstract!Create(S)]_<<owner, store, refused # {}>>
  <1> SUFFICES ASSUME TypeInv, PlacesInv, OrderInv, [Next]_vars
               PROVE  \/ \E S \in SUBSET Abstract!Objects : Abstract!Create(S)
                      \/ UNCHANGED <<owner, store, refused # {}>>
    OBVIOUS
  <1>1. ASSUME NEW refuse, Sends(refuse)
        PROVE  \E S \in SUBSET Abstract!Objects : Abstract!Create(S)
    <2> DEFINE S == Range(apply) \ refuse
    <2>1. /\ pc = "apply" /\ Pending = Range(apply) /\ owner' = owner
          /\ Created' = Created \cup S /\ refused' = refused \cup refuse
          /\ \A o \in S : store'[o] = ref[o]
          /\ \A o \in Created : store'[o] = store[o]
      BY <1>1, RoundSent
    <2>2. S \in SUBSET Abstract!Objects /\ S \cap Created = {} /\ S \subseteq Objects
      <3>1. Range(apply) \subseteq Objects
        BY Members DEF TypeInv, TypeOK
      <3> QED
        BY <2>1, <3>1 DEF PlacesInv, Abstract!Objects, Objects
    <2>3. ASSUME refused = {}, NEW o \in S
          PROVE  Abstract!Ready(o) /\ store'[o] = Abstract!Controller(o)
      <3>1. (owner[o] = None /\ ref[o] = None) \/ Adopted(o)
        BY <2>1, <2>3 DEF OrderInv
      <3>2. owner[o] \in Created => owner[o] # None
        BY Numbers DEF TypeInv, TypeOK, Created
      <3>3. o \in Abstract!Roots <=> owner[o] = None
        BY <2>2, <2>3 DEF Abstract!Roots, Abstract!Objects, Objects
      <3> QED
        BY <2>1, <3>1, <3>2, <3>3
           DEF Adopted, Created, New, Abstract!Ready, Abstract!Controller, Abstract!Old,
               Abstract!New
    <2>4. (refused' # {}) \in {refused # {}, TRUE}
      BY <2>1
    <2>5. Abstract!Create(S)
      BY <2>1, <2>2, <2>3, <2>4 DEF Abstract!Create, Created
    <2> QED
      BY <2>2, <2>5
  <1>2. CASE Classify \/ Match \/ EndRound \/ UNCHANGED vars
    BY <1>2 DEF Classify, Match, EndRound, vars, dump, cluster
  <1> QED
    BY <1>1, <1>2, Steps

\* The rounds create every object once and, until one is refused, controllers before
\* what they control (load/load.go load).
THEOREM Implementation == Spec => ImplementsRestore
  <1>1. TypeInv /\ PlacesInv /\ OrderInv /\ [Next]_vars =>
          [\E S \in SUBSET Abstract!Objects : Abstract!Create(S)]_<<owner, store, refused # {}>>
    BY RestoreStep
  <1> QED
    BY RestoreInit, Invariant, <1>1, PTL DEF Spec, ImplementsRestore, Abstract!RestoreSpec

=============================================================================
