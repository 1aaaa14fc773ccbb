------------------------- MODULE KindClustersProofs -------------------------
(***************************************************************************)
(* Theorems about KindClusters, for every number of clusters, shells,      *)
(* manifests and events.                                                   *)
(***************************************************************************)
EXTENDS KindClusters, SequenceTheorems, TLAPS

-----------------------------------------------------------------------------
(* The calls that a command has left *)

Verbs ==
  {"config", "pull", "unset", "forget", "delete", "nodes", "context", "dump", "wait",
   "cordon", "image", "apply", "alias", "get_node", "uninstall", "stop", "load", "start"}
Calls == Verbs \X (Kinds \cup {None})
Jobs == [op : {"create", "delete", "load"}, on : Clusters, todo : Seq(Calls)]

\* The number of calls that apply the manifests, and of those a command has left.
D == Len(Deploy)
Left(u) == Len(job[u].todo)

\* What a call is, if l calls are left with it.
CreatePlace(call, l) ==
  \/ l = 1 /\ call[1] = "get_node"
  \/ l \in {2, D + 5} /\ call[1] = "wait"
  \/ l = 3 /\ call[1] = "alias"
  \/ l \in 4..(D + 3) /\ call = Deploy[D + 4 - l]
  \/ l = D + 4 /\ call[1] = "cordon"
  \/ l = D + 6 /\ call[1] = "dump"
  \/ l = D + 7 /\ call[1] = "context"
  \/ l = D + 8 /\ call[1] = "nodes"
  \/ l = D + 9 /\ call[1] = "delete"
  \/ l = D + 10 /\ call[1] = "forget"
  \/ l = D + 11 /\ call[1] = "unset"
  \/ l \in {D + 9, D + 12} /\ call[1] = "pull"
  \/ l \in {D + 10, D + 13} /\ call[1] = "config"

DeletePlace(call, l) ==
  \/ l = 1 /\ call[1] = "uninstall"
  \/ l = 2 /\ call[1] = "delete"
  \/ l = 3 /\ call[1] = "forget"
  \/ l = 4 /\ call[1] = "unset"

LoadPlace(call, l) ==
  \/ l = 1 /\ call[1] = "start"
  \/ l = 2 /\ call[1] = "load"
  \/ l = 3 /\ call[1] = "stop"

Place(op, call, l) ==
  \/ op = "create" /\ CreatePlace(call, l)
  \/ op = "delete" /\ DeletePlace(call, l)
  \/ op = "load" /\ LoadPlace(call, l)

\* Down goes from the fake-k8s context over kind's to the containers.
After(v) == IF v = "unset" THEN "forget" ELSE "delete"
InOrder(s) ==
  \A i \in 1..Len(s) :
    s[i][1] \in {"unset", "forget"} => i + 1 \in 1..Len(s) /\ s[i + 1][1] = After(s[i][1])

\* The calls of a command are those of its course, or the last of them.
Course(op, s) ==
  /\ s \in Seq(Calls) /\ Len(s) > 0 /\ InOrder(s)
  /\ \A i \in 1..Len(s) : Place(op, s[i], Len(s) + 1 - i)

JobInv ==
  /\ job \in [Users -> {Idle} \cup Jobs]
  /\ \A u \in Users : job[u] # Idle => Course(job[u].op, job[u].todo)

LEMMA DeployType ==
  /\ Len(Manifests) \in Nat /\ D = 2 * Len(Manifests)
  /\ Deploy \in Seq(Calls)
  /\ \A i \in 1..D :
       Deploy[i] = <<IF i % 2 = 1 THEN "image" ELSE "apply", Manifests[(i + 1) \div 2]>>
  <1>1. Len(Manifests) \in Nat /\ DOMAIN Manifests = 1..Len(Manifests)
    BY ManifestList, LenProperties
  <1>2. ASSUME NEW i \in 1..(2 * Len(Manifests))
        PROVE  (i + 1) \div 2 \in 1..Len(Manifests)
    BY <1>1
  <1>3. ASSUME NEW i \in 1..(2 * Len(Manifests)) PROVE Manifests[(i + 1) \div 2] \in Kinds
    BY <1>1, <1>2 DEF Kinds
  <1>4. Deploy \in [1..(2 * Len(Manifests)) -> Calls]
    <2>1. ASSUME NEW i \in 1..(2 * Len(Manifests))
          PROVE  <<IF i % 2 = 1 THEN "image" ELSE "apply", Manifests[(i + 1) \div 2]>> \in Calls
      <3>1. (IF i % 2 = 1 THEN "image" ELSE "apply") \in Verbs
        BY DEF Verbs
      <3>2. ASSUME NEW a \in Verbs, NEW b \in Kinds PROVE <<a, b>> \in Calls
        BY DEF Calls
      <3> QED
        BY <1>3, <3>1, <3>2
    <2> QED
      BY <2>1 DEF Deploy
  <1>5. 2 * Len(Manifests) \in Nat
    BY <1>1
  <1>6. Deploy \in Seq(Calls) /\ Len(Deploy) = 2 * Len(Manifests)
    <2>1. Deploy \in Seq(Calls)
      BY <1>4, <1>5, SeqDef
    <2> QED
      BY <1>4, <1>5, <2>1, LenProperties
  <1> QED
    BY <1>1, <1>6 DEF D, Deploy

LEMMA CallType == \A v \in Verbs : Call(v) \in Calls /\ Call(v)[1] = v
  BY DEF Call, Calls

\* The calls of a course from the one with k calls left to before the one with l.
Segment(op, s, k, l) ==
  /\ s \in Seq(Calls) /\ k \in Nat /\ l \in Nat /\ k = l + Len(s) /\ InOrder(s)
  /\ \A i \in 1..Len(s) : Place(op, s[i], k + 1 - i)

LEMMA Concatenate ==
  ASSUME NEW op, NEW s, NEW t, NEW k, NEW l, NEW m,
         Segment(op, s, k, m), Segment(op, t, m, l)
  PROVE  Segment(op, s \o t, k, l)
  <1>1. s \in Seq(Calls) /\ t \in Seq(Calls)
    BY DEF Segment
  <1>2. /\ Len(s) \in Nat /\ Len(t) \in Nat /\ k \in Nat /\ m \in Nat /\ l \in Nat
        /\ k = m + Len(s) /\ m = l + Len(t)
    BY <1>1, LenProperties DEF Segment
  <1>3. s \o t \in Seq(Calls) /\ Len(s \o t) = Len(s) + Len(t)
    BY <1>1, ConcatProperties
  <1>4. ASSUME NEW i \in 1..Len(s \o t) PROVE Place(op, (s \o t)[i], k + 1 - i)
    <2>1. (s \o t)[i] = IF i <= Len(s) THEN s[i] ELSE t[i - Len(s)]
      BY <1>1, <1>3, ConcatProperties
    <2>2. CASE i <= Len(s)
      <3>1. i \in 1..Len(s)
        BY <1>2, <1>3, <2>2
      <3> QED
        BY <2>1, <2>2, <3>1 DEF Segment
    <2>3. CASE i > Len(s)
      <3>1. i - Len(s) \in 1..Len(t) /\ k + 1 - i = m + 1 - (i - Len(s))
        BY <1>2, <1>3, <2>3
      <3>2. (s \o t)[i] = t[i - Len(s)]
        BY <1>2, <2>1, <2>3
      <3> QED
        BY <3>1, <3>2 DEF Segment
    <2> QED
      BY <1>2, <1>3, <2>2, <2>3
  <1>5. \A i \in 1..Len(s) : (s \o t)[i] = s[i]
    BY <1>1, <1>2, ConcatProperties
  <1>6. \A j \in 1..Len(t) : (s \o t)[Len(s) + j] = t[j]
    BY <1>1, <1>2, ConcatProperties
  <1>7. ASSUME NEW i \in 1..Len(s \o t) PROVE i \in 1..Len(s) \/ \E j \in 1..Len(t) : i = Len(s) + j
    <2>1. CASE i > Len(s)
      <3>1. i - Len(s) \in 1..Len(t) /\ i = Len(s) + (i - Len(s))
        BY <1>2, <1>3, <2>1
      <3> QED
        BY <3>1
    <2> QED
      BY <1>2, <1>3, <2>1
  <1>8. InOrder(s \o t)
    <2> SUFFICES ASSUME NEW i \in 1..Len(s \o t), (s \o t)[i][1] \in {"unset", "forget"}
                 PROVE  /\ i + 1 \in 1..Len(s \o t)
                        /\ (s \o t)[i + 1][1] = After((s \o t)[i][1])
      BY DEF InOrder
    <2>1. CASE i \in 1..Len(s)
      <3>1. i + 1 \in 1..Len(s) /\ s[i + 1][1] = After(s[i][1])
        BY <1>5, <2>1 DEF Segment, InOrder
      <3> QED
        BY <1>2, <1>3, <1>5, <3>1
    <2>2. ASSUME NEW j \in 1..Len(t), i = Len(s) + j
          PROVE  i + 1 \in 1..Len(s \o t) /\ (s \o t)[i + 1][1] = After((s \o t)[i][1])
      <3>1. j + 1 \in 1..Len(t) /\ t[j + 1][1] = After(t[j][1])
        BY <1>6, <2>2 DEF Segment, InOrder
      <3>2. i + 1 = Len(s) + (j + 1)
        BY <1>2, <2>2
      <3> QED
        BY <1>2, <1>3, <1>6, <3>1, <3>2
    <2> QED
      BY <1>7, <2>1, <2>2
  <1> QED
    BY <1>2, <1>3, <1>4, <1>8 DEF Segment

\* Each command starts with the whole of its course.
LEMMA Courses ==
  /\ Course("create", Create) /\ Len(Create) = D + 10
  /\ Course("create", Recreate) /\ Len(Recreate) = D + 13
  /\ Course("delete", Delete) /\ Len(Delete) = 4
  /\ Course("load", Load) /\ Len(Load) = 3
  <1>1. \A v \in Verbs : Call(v) \in Calls /\ Call(v)[1] = v
    BY CallType
  <1>2. D \in Nat /\ Deploy \in Seq(Calls) /\ Len(Deploy) = D
    BY DeployType DEF D
  <1>3. ASSUME NEW op, NEW s, NEW k \in Nat \ {0}, Segment(op, s, k, 0)
        PROVE  Course(op, s) /\ Len(s) = k
    BY <1>3, LenProperties DEF Segment, Course
  <1>4. Course("load", Load) /\ Len(Load) = 3
    BY <1>1 DEF Load, Course, InOrder, After, Place, LoadPlace, Verbs
  <1>5. Course("delete", Delete) /\ Len(Delete) = 4
    <2>1. Segment("delete", <<Call("uninstall")>>, 1, 0)
      BY <1>1 DEF Segment, InOrder, After, Place, DeletePlace, Verbs
    <2>2. Segment("delete", Down, 4, 1)
      BY <1>1 DEF Down, Segment, InOrder, After, Place, DeletePlace, Verbs
    <2>3. Segment("delete", Delete, 4, 0)
      BY <2>1, <2>2, Concatenate DEF Delete
    <2>4. 4 \in Nat \ {0}
      OBVIOUS
    <2> QED
      BY <1>3, <2>3, <2>4
  <1>6. Segment("create", Ready, 2, 0)
    BY <1>1, <1>2 DEF Ready, Segment, InOrder, After, Place, CreatePlace, Verbs
  <1>7. Segment("create", Up, D + 8, 2)
    <2> DEFINE a == <<Call("nodes"), Call("context"), Call("dump"), Call("wait"), Call("cordon")>>
               z == <<Call("alias")>>
    <2>1. Segment("create", z, 3, 2)
      BY <1>1, <1>2 DEF Segment, InOrder, After, Place, CreatePlace, Verbs
    <2>2. Segment("create", Deploy, D + 3, 3)
      <3>1. ASSUME NEW i \in 1..D PROVE CreatePlace(Deploy[i], D + 3 + 1 - i)
        <4>1. D + 3 + 1 - i \in 4..(D + 3) /\ D + 4 - (D + 3 + 1 - i) = i
          BY <1>2
        <4> QED
          BY <4>1 DEF CreatePlace
      <3>2. \A i \in 1..D : Deploy[i][1] \in {"image", "apply"}
        BY DeployType
      <3>3. InOrder(Deploy)
        BY <1>2, <3>2 DEF InOrder
      <3> QED
        BY <1>2, <3>1, <3>3 DEF Segment, Place
    <2>3. Segment("create", a, D + 8, D + 3)
      BY <1>1, <1>2 DEF Segment, InOrder, After, Place, CreatePlace, Verbs
    <2> QED
      BY <2>1, <2>2, <2>3, Concatenate DEF Up
  <1>8. Segment("create", Install, D + 10, D + 8) /\ Segment("create", Install, D + 13, D + 11)
    <2>1. /\ Install \in Seq(Calls) /\ Len(Install) = 2
          /\ Install[1][1] = "config" /\ Install[2][1] = "pull"
      BY <1>1 DEF Install, Verbs
    <2>2. Segment("create", Install, D + 10, D + 8)
      BY <1>2, <2>1 DEF Segment, InOrder, After, Place, CreatePlace
    <2>3. Segment("create", Install, D + 13, D + 11)
      BY <1>2, <2>1 DEF Segment, InOrder, After, Place, CreatePlace
    <2> QED
      BY <2>2, <2>3
  <1>9. Segment("create", Down, D + 11, D + 8)
    BY <1>1, <1>2 DEF Down, Segment, InOrder, After, Place, CreatePlace, Verbs
  <1>10. Course("create", Create) /\ Len(Create) = D + 10
    <2>1. Segment("create", Create, D + 10, 0)
      BY <1>6, <1>7, <1>8, Concatenate DEF Create
    <2> QED
      BY <1>2, <1>3, <2>1
  <1>11. Course("create", Recreate) /\ Len(Recreate) = D + 13
    <2>1. Segment("create", Recreate, D + 13, 0)
      BY <1>6, <1>7, <1>8, <1>9, Concatenate DEF Recreate
    <2> QED
      BY <1>2, <1>3, <2>1
  <1> QED
    BY <1>4, <1>5, <1>10, <1>11

-----------------------------------------------------------------------------
(* Every command follows its course *)

LEMMA Working ==
  ASSUME JobInv, NEW u \in Users
  PROVE  /\ job[u] = Idle \/ job[u] \in Jobs
         /\ Idle \notin Jobs
  BY DEF JobInv, Idle, Jobs

\* The call that a command is at, and how many it has left with it.
LEMMA AtPlace ==
  ASSUME JobInv, NEW u \in Users, job[u] # Idle
  PROVE  /\ job[u] \in Jobs /\ Left(u) \in Nat \ {0}
         /\ Head(job[u].todo) \in Calls
         /\ Place(job[u].op, Head(job[u].todo), Left(u))
  <1>1. job[u] \in Jobs /\ Course(job[u].op, job[u].todo)
    BY DEF JobInv
  <1>2. job[u].todo \in Seq(Calls) /\ Left(u) \in Nat \ {0}
    BY <1>1, LenProperties DEF Course, Left
  <1>3. job[u].todo # <<>>
    BY <1>2 DEF Left
  <1>4. Head(job[u].todo) = job[u].todo[1] /\ Head(job[u].todo) \in Calls
    BY <1>2, <1>3, HeadTailProperties
  <1>5. 1 \in 1..Left(u) /\ Left(u) + 1 - 1 = Left(u)
    BY <1>2
  <1> QED
    BY <1>1, <1>2, <1>4, <1>5 DEF Course, Left

\* A command ends, or goes on to its next call.
Ends(u) == job' = [job EXCEPT ![u] = Idle]
GoesOn(u) == Left(u) > 1 /\ job' = [job EXCEPT ![u].todo = Tail(@)]
Moves(u) == job[u] # Idle /\ (Ends(u) \/ GoesOn(u))

LEMMA MovesOn ==
  ASSUME JobInv, NEW u \in Users, Moves(u)
  PROVE  /\ JobInv'
         /\ \A v \in Users \ {u} : job'[v] = job[v] /\ Left(v)' = Left(v)
         /\ \/ Ends(u) /\ job'[u] = Idle
            \/ /\ GoesOn(u) /\ job'[u] \in Jobs /\ Left(u)' = Left(u) - 1
               /\ job'[u].on = job[u].on /\ job'[u].op = job[u].op
               /\ job'[u].todo = Tail(job[u].todo)
  <1> USE DEF Moves
  <1>1. job[u] \in Jobs /\ Course(job[u].op, job[u].todo)
    BY DEF JobInv
  <1>2. job' \in [Users -> {Idle} \cup Jobs] /\ Course(job'[u].op, job'[u].todo) => JobInv'
    <2>1. \A v \in Users \ {u} : job'[v] = job[v]
      BY DEF JobInv, Ends, GoesOn
    <2> QED
      BY <2>1 DEF JobInv
  <1>3. CASE Ends(u)
    <2>1. job' \in [Users -> {Idle} \cup Jobs] /\ job'[u] = Idle
      BY <1>3 DEF JobInv, Ends
    <2>2. \A v \in Users \ {u} : job'[v] = job[v]
      BY <1>3 DEF JobInv, Ends
    <2>3. JobInv'
      BY <2>1, <2>2 DEF JobInv
    <2> QED
      BY <1>3, <2>1, <2>2, <2>3 DEF Left
  <1>4. CASE GoesOn(u)
    <2> DEFINE s == job[u].todo
               t == Tail(s)
    <2>1. s \in Seq(Calls) /\ Len(s) \in Nat /\ Len(s) > 1 /\ s # <<>>
      BY <1>1, <1>4, LenProperties DEF Course, GoesOn, Left
    <2>2. t \in Seq(Calls) /\ Len(t) = Len(s) - 1 /\ \A i \in 1..Len(t) : t[i] = s[i + 1]
      BY <2>1, HeadTailProperties
    <2>3. /\ job'[u] = [job[u] EXCEPT !.todo = t]
          /\ \A v \in Users \ {u} : job'[v] = job[v]
      BY <1>4 DEF JobInv, GoesOn
    <2> HIDE DEF t
    <2>4. job'[u] \in Jobs /\ job'[u].on = job[u].on /\ job'[u].op = job[u].op /\ job'[u].todo = t
      BY <1>1, <2>2, <2>3 DEF Jobs
    <2> HIDE DEF s
    <2>5. Course(job[u].op, t)
      <3>1. Course(job[u].op, s)
        BY <1>1 DEF s
      <3>2. ASSUME NEW i \in 1..Len(t)
            PROVE  i + 1 \in 1..Len(s) /\ Len(t) + 1 - i = Len(s) + 1 - (i + 1)
        BY <2>1, <2>2
      <3>3. ASSUME NEW i \in 1..Len(t) PROVE Place(job[u].op, t[i], Len(t) + 1 - i)
        BY <2>2, <3>1, <3>2 DEF Course
      <3>4. InOrder(t)
        <4>1. InOrder(s)
          BY <3>1 DEF Course
        <4>2. ASSUME NEW i \in 1..Len(t) PROVE i + 1 \in 1..Len(s) /\ t[i] = s[i + 1]
          BY <2>1, <2>2
        <4>3. ASSUME NEW i \in 1..Len(t), i + 1 + 1 \in 1..Len(s)
              PROVE  i + 1 \in 1..Len(t) /\ t[i + 1] = s[i + 1 + 1]
          BY <2>1, <2>2, <4>3
        <4> SUFFICES ASSUME NEW i \in 1..Len(t), t[i][1] \in {"unset", "forget"}
                     PROVE  i + 1 \in 1..Len(t) /\ t[i + 1][1] = After(t[i][1])
          BY DEF InOrder
        <4>4. i + 1 + 1 \in 1..Len(s) /\ s[i + 1 + 1][1] = After(s[i + 1][1])
          BY <4>1, <4>2 DEF InOrder
        <4> QED
          BY <4>2, <4>3, <4>4
      <3> QED
        BY <2>1, <2>2, <3>3, <3>4 DEF Course
    <2>6. job' \in [Users -> {Idle} \cup Jobs]
      BY <1>4, <2>3, <2>4 DEF JobInv, GoesOn
    <2>7. Left(u)' = Left(u) - 1
      BY <2>2, <2>4 DEF Left, s
    <2>8. JobInv'
      BY <2>3, <2>4, <2>5, <2>6 DEF JobInv
    <2>9. \A v \in Users \ {u} : Left(v)' = Left(v)
      BY <2>3 DEF Left
    <2> QED
      BY <1>4, <2>3, <2>4, <2>7, <2>8, <2>9 DEF s, t
  <1> QED
    BY <1>3, <1>4

CreateCall(x, l) ==
  /\ x[1] = "config" => l \in {D + 10, D + 13}
  /\ x[1] = "pull" => l \in {D + 9, D + 12}
  /\ x[1] = "unset" => l = D + 11
  /\ x[1] = "forget" => l = D + 10
  /\ x[1] = "delete" => l = D + 9
  /\ x[1] = "nodes" => l = D + 8
  /\ x[1] = "context" => l = D + 7
  /\ x[1] = "dump" => l = D + 6
  /\ x[1] = "wait" => l \in {D + 5, 2}
  /\ x[1] = "cordon" => l = D + 4
  /\ x[1] \in {"image", "apply"} => l \in 4..(D + 3) /\ x = Deploy[D + 4 - l]
  /\ x[1] = "alias" => l = 3
  /\ x[1] = "get_node" => l = 1
  /\ x[1] \notin {"uninstall", "stop", "load", "start"}

LEMMA CreateCalls ==
  ASSUME NEW x, NEW l, CreatePlace(x, l)
  PROVE  CreateCall(x, l)
  <1> USE DEF CreateCall
  <1>1. CASE l \in 4..(D + 3) /\ x = Deploy[D + 4 - l]
    <2>1. D + 4 - l \in 1..D
      BY <1>1, DeployType
    <2>2. x[1] \in {"image", "apply"}
      BY <1>1, <2>1, DeployType
    <2> HIDE DEF D
    <2> QED
      BY <1>1, <2>2
  <1>2. CASE ~(l \in 4..(D + 3) /\ x = Deploy[D + 4 - l])
    BY <1>2 DEF CreatePlace
  <1> QED
    BY <1>1, <1>2

\* The command that is at a call, and the calls it has left.
LEMMA Whereabouts ==
  ASSUME JobInv, NEW u \in Users
  PROVE  /\ At(u, "config") => job[u].op = "create" /\ Left(u) \in {D + 10, D + 13}
         /\ At(u, "pull") => job[u].op = "create" /\ Left(u) \in {D + 9, D + 12}
         /\ At(u, "nodes") => job[u].op = "create" /\ Left(u) = D + 8
         /\ At(u, "context") => job[u].op = "create" /\ Left(u) = D + 7
         /\ At(u, "dump") => job[u].op = "create" /\ Left(u) = D + 6
         /\ At(u, "wait") => job[u].op = "create" /\ Left(u) \in {D + 5, 2}
         /\ At(u, "cordon") => job[u].op = "create" /\ Left(u) = D + 4
         /\ At(u, "image") \/ At(u, "apply") =>
              job[u].op = "create" /\ Left(u) \in 4..(D + 3)
              /\ Head(job[u].todo) = Deploy[D + 4 - Left(u)]
         /\ At(u, "alias") => job[u].op = "create" /\ Left(u) = 3
         /\ At(u, "get_node") => job[u].op = "create" /\ Left(u) = 1
         /\ At(u, "unset") =>
              \/ job[u].op = "create" /\ Left(u) = D + 11
              \/ job[u].op = "delete" /\ Left(u) = 4
         /\ At(u, "forget") =>
              \/ job[u].op = "create" /\ Left(u) = D + 10
              \/ job[u].op = "delete" /\ Left(u) = 3
         /\ At(u, "delete") =>
              \/ job[u].op = "create" /\ Left(u) = D + 9
              \/ job[u].op = "delete" /\ Left(u) = 2
         /\ At(u, "uninstall") => job[u].op = "delete" /\ Left(u) = 1
         /\ At(u, "stop") => job[u].op = "load" /\ Left(u) = 3
         /\ At(u, "load") => job[u].op = "load" /\ Left(u) = 2
         /\ At(u, "start") => job[u].op = "load" /\ Left(u) = 1
  <1>1. CASE job[u] = Idle
    BY <1>1 DEF At
  <1>2. CASE job[u] # Idle
    <2>1. Place(job[u].op, Head(job[u].todo), Left(u)) /\ Left(u) \in Nat
      BY <1>2, AtPlace
    <2>2. CASE job[u].op = "create" /\ CreatePlace(Head(job[u].todo), Left(u))
      <3>1. CreateCall(Head(job[u].todo), Left(u))
        BY <2>2, CreateCalls
      <3> QED
        BY <2>2, <3>1 DEF CreateCall, At
    <2>3. CASE job[u].op = "delete" /\ DeletePlace(Head(job[u].todo), Left(u))
      BY <2>3 DEF At, DeletePlace
    <2>4. CASE job[u].op = "load" /\ LoadPlace(Head(job[u].todo), Left(u))
      BY <2>4 DEF At, LoadPlace
    <2> QED
      BY <2>1, <2>2, <2>3, <2>4 DEF Place
  <1> QED
    BY <1>1, <1>2

Acts(u) == Step(u) \/ Interrupt(u) \/ Tear(u) \/ DeleteFails(u) \/ KubectlFails(u)

\* A call that is not the last of its course leads to the next call, or to the
\* end of the command.
LEMMA ActsMove ==
  ASSUME JobInv, NEW u \in Users, Acts(u)
  PROVE  Moves(u)
  <1>1. ASSUME NEW v \in Verbs \ {"get_node", "uninstall", "start"}, At(u, v)
        PROVE  job[u] # Idle /\ Left(u) > 1
    <2>1. D \in Nat
      BY DeployType
    <2> HIDE DEF D
    <2>2. v \notin {"get_node", "uninstall", "start"} => Left(u) # 1
      BY <1>1, <2>1, Whereabouts DEF Verbs
    <2>3. job[u] # Idle
      BY <1>1 DEF At
    <2> QED
      BY <1>1, <2>2, <2>3, AtPlace
  <1>2. ASSUME NEW v, At(u, v) PROVE job[u] # Idle
    BY <1>2 DEF At
  <1>3. ASSUME NEW v \in Verbs \ {"get_node", "uninstall", "start"}, At(u, v),
               Continue(u) \/ Return(u, "failed")
        PROVE  Moves(u)
    BY <1>1, <1>3 DEF Continue, Return, Give, Moves, Ends, GoesOn
  <1>4. ASSUME NEW v \in Verbs \ {"get_node", "uninstall", "start"}, At(u, v),
               job' = [job EXCEPT ![u].todo = Tail(@)]
        PROVE  Moves(u)
    BY <1>1, <1>4 DEF Moves, GoesOn
  <1>5. ASSUME NEW v, At(u, v), job' = [job EXCEPT ![u] = Idle] PROVE Moves(u)
    BY <1>2, <1>5 DEF Moves, Ends
  <1> USE DEF Verbs, Require
  <1>6. CASE WriteConfig(u)
    BY <1>3, <1>6 DEF WriteConfig
  <1>7. CASE Pull(u)
    BY <1>3, <1>7 DEF Pull
  <1>8. CASE KindNodes(u)
    BY <1>3, <1>8 DEF KindNodes
  <1>9. CASE KindContext(u)
    BY <1>3, <1>9 DEF KindContext
  <1>10. CASE Dump(u)
    BY <1>3, <1>10 DEF Dump
  <1>11. CASE Wait(u)
    BY <1>3, <1>11 DEF Wait
  <1>12. CASE Cordon(u)
    BY <1>3, <1>12 DEF Cordon
  <1>13. CASE LoadImage(u)
    BY <1>3, <1>13 DEF LoadImage
  <1>14. CASE Apply(u)
    BY <1>3, <1>14 DEF Apply
  <1>15. CASE Alias(u)
    BY <1>3, <1>15 DEF Alias
  <1>16. CASE Unset(u)
    BY <1>3, <1>16 DEF Unset
  <1>17. CASE KindForget(u)
    BY <1>3, <1>17 DEF KindForget
  <1>18. CASE KindDelete(u)
    BY <1>4, <1>18 DEF KindDelete
  <1>19. CASE Stop(u)
    BY <1>3, <1>19 DEF Stop
  <1>20. CASE LoadObjects(u)
    BY <1>3, <1>20 DEF LoadObjects
  <1>21. CASE GetNode(u) \/ Uninstall(u) \/ Start(u)
    BY <1>5, <1>21 DEF GetNode, Uninstall, Start, Return, Give
  <1>22. CASE Interrupt(u)
    BY <1>22 DEF Interrupt, Give, Moves, Ends
  <1>23. CASE Tear(u)
    BY <1>5, <1>23 DEF Tear, Cut, Give
  <1>24. CASE DeleteFails(u)
    BY <1>4, <1>24 DEF DeleteFails
  <1>25. CASE KubectlFails(u)
    BY <1>4, <1>25 DEF KubectlFails
  <1> QED
    BY <1>6, <1>7, <1>8, <1>9, <1>10, <1>11, <1>12, <1>13, <1>14, <1>15, <1>16, <1>17,
       <1>18, <1>19, <1>20, <1>21, <1>22, <1>23, <1>24, <1>25 DEF Acts, Step

\* A command that begins takes a shell in which none is at work.
LEMMA Begins ==
  ASSUME JobInv, NEW op \in {"create", "delete", "load"}, NEW c \in Clusters, NEW steps,
         Course(op, steps), Begin(op, c, steps)
  PROVE  /\ JobInv'
         /\ \E u \in Users :
              /\ job[u] = Idle /\ job'[u] \in Jobs
              /\ job'[u].op = op /\ job'[u].on = c /\ job'[u].todo = steps
              /\ \A v \in Users \ {u} : job'[v] = job[v] /\ Left(v)' = Left(v)
  <1>1. Shell \in Users /\ job[Shell] = Idle
    BY DEF Begin, Free, Busy, Shell
  <1> DEFINE j == [op |-> op, on |-> c, todo |-> steps]
  <1>2. j \in Jobs /\ j.op = op /\ j.on = c /\ j.todo = steps
    BY DEF Jobs, Course
  <1>3. job' = [job EXCEPT ![Shell] = j]
    BY DEF Begin
  <1> HIDE DEF j
  <1>4. job' \in [Users -> {Idle} \cup Jobs] /\ job'[Shell] = j
        /\ \A v \in Users \ {Shell} : job'[v] = job[v]
    BY <1>1, <1>2, <1>3 DEF JobInv
  <1>5. JobInv'
    BY <1>1, <1>2, <1>4 DEF JobInv
  <1> QED
    BY <1>1, <1>2, <1>4, <1>5 DEF Left

LEMMA JobInit == Init => JobInv
  BY DEF Init, JobInv

LEMMA JobStep == JobInv /\ [Next]_vars => JobInv'
  <1> SUFFICES ASSUME JobInv, [Next]_vars PROVE JobInv'
    OBVIOUS
  <1>1. ASSUME NEW u \in Users, Acts(u) PROVE JobInv'
    BY <1>1, ActsMove, MovesOn
  <1>2. ASSUME NEW c \in Clusters, BeginCreate(c) \/ BeginDelete(c) \/ BeginLoad(c) PROVE JobInv'
    BY <1>2, Begins, Courses DEF BeginCreate, BeginDelete, BeginLoad
  <1>3. ASSUME UNCHANGED job PROVE JobInv'
    BY <1>3 DEF JobInv
  <1>4. ASSUME NEW c \in Clusters, CreateReady(c) \/ Refuse(c) PROVE JobInv'
    BY <1>3, <1>4 DEF CreateReady, Refuse
  <1>5. CASE Switch
    BY <1>3, <1>5 DEF Switch
  <1>6. CASE UNCHANGED vars
    BY <1>3, <1>6 DEF vars
  <1> QED
    BY <1>1, <1>2, <1>4, <1>5, <1>6 DEF Next, Acts

-----------------------------------------------------------------------------
(* Types *)

TypeInv == TypeOK /\ JobInv

\* A command that works is on one of the clusters.
LEMMA OnCluster ==
  ASSUME JobInv, NEW u \in Users, job[u] # Idle
  PROVE  /\ Self(u) \in Clusters /\ job[u].op \in {"create", "delete", "load"}
         /\ job[u].todo # <<>>
  <1>1. job[u] \in Jobs /\ Left(u) \in Nat \ {0} /\ job[u].todo \in Seq(Calls)
    BY AtPlace DEF Jobs
  <1> QED
    BY <1>1 DEF Jobs, Self, Left

\* The manifest that a command applies, from the number of calls it has left.
LEMMA Applies ==
  ASSUME JobInv, NEW u \in Users, At(u, "apply")
  PROVE  \E i \in DOMAIN Manifests :
           Left(u) = D + 4 - 2 * i /\ Head(job[u].todo)[2] = Manifests[i]
  <1> DEFINE k == D + 4 - Left(u)
  <1>1. Len(Manifests) \in Nat /\ D = 2 * Len(Manifests) /\ DOMAIN Manifests = 1..Len(Manifests)
    BY DeployType, ManifestList, LenProperties
  <1>2. Left(u) \in 4..(D + 3) /\ Head(job[u].todo) = Deploy[k] /\ Head(job[u].todo)[1] = "apply"
    BY Whereabouts DEF At
  <1>3. k \in 1..D /\ Left(u) = D + 4 - k
    BY <1>1, <1>2
  <1> HIDE DEF k
  <1>4. Deploy[k] = <<IF k % 2 = 1 THEN "image" ELSE "apply", Manifests[(k + 1) \div 2]>>
    BY <1>3, DeployType
  <1>5. k % 2 # 1
    BY <1>2, <1>4
  <1>6. PICK i \in 1..Len(Manifests) : k = 2 * i /\ (k + 1) \div 2 = i
    BY <1>1, <1>3, <1>5
  <1>7. Left(u) = D + 4 - 2 * i
    BY <1>3, <1>6
  <1>8. Head(job[u].todo)[2] = Manifests[i]
    BY <1>2, <1>4, <1>6
  <1> QED
    BY <1>1, <1>7, <1>8

LEMMA TypeInit == Init => TypeInv
  BY JobInit, Bound DEF Init, TypeInv, TypeOK

LEMMA TypeStep == TypeInv /\ [Next]_vars => TypeInv'
  <1> SUFFICES ASSUME TypeInv, [Next]_vars PROVE TypeInv'
    OBVIOUS
  <1> DEFINE T ==
        /\ conf \in [Clusters -> {None, Torn, "kind"}]
        /\ kubeconfig \in [Clusters -> Clusters \cup {Other, None, Gone}]
        /\ nodes \subseteq Clusters /\ contexts \subseteq Clusters \cup {Other}
        /\ current \in contexts \cup {None}
        /\ alias \subseteq Clusters /\ moved \subseteq nodes
        /\ deployed \in [Clusters \cup {Other} -> SUBSET (Kinds \X Clusters)]
        /\ result \in [Clusters -> {"none", "failed", "ready", "deleted", "loaded"}]
        /\ events \in 0..MaxEvents
  <1>1. T /\ JobInv /\ JobInv'
    BY JobStep DEF TypeInv, TypeOK
  <1>2. T' => TypeInv'
    <2>1. \A u \in Users : job'[u] # Idle => job'[u].on \in Clusters /\ job'[u].todo # <<>>
      <3> SUFFICES ASSUME NEW u \in Users, job'[u] # Idle
                   PROVE  job'[u].on \in Clusters /\ job'[u].todo # <<>>
        OBVIOUS
      <3>1. job'[u] \in Jobs /\ Course(job'[u].op, job'[u].todo)
        BY <1>1 DEF JobInv
      <3>2. job'[u].todo # <<>>
        BY <3>1 DEF Course
      <3> QED
        BY <3>1, <3>2 DEF Jobs
    <2> QED
      BY <1>1, <2>1 DEF TypeInv, TypeOK, Self
  <1>3. ASSUME NEW u \in Users, NEW v, At(u, v) PROVE Self(u) \in Clusters
    BY <1>1, <1>3, OnCluster DEF At
  <1>4. ASSUME Event PROVE events' \in 0..MaxEvents
    BY <1>1, <1>4, Bound DEF Event
  <1>5. ASSUME NEW u \in Users, NEW v, At(u, v), Continue(u) \/ Return(u, "failed"),
               UNCHANGED <<conf, kubeconfig, nodes, contexts, current, alias, deployed, moved>>
        PROVE  T'
    BY <1>1, <1>3, <1>5 DEF Continue, Return, Give, history
  <1>6. ASSUME NEW u \in Users, NEW v, At(u, v), Continue(u) \/ Return(u, "failed")
        PROVE  result' \in [Clusters -> {"none", "failed", "ready", "deleted", "loaded"}]
               /\ events' \in 0..MaxEvents
    BY <1>1, <1>3, <1>6 DEF Continue, Return, Give, history
  <1> USE DEF Require, files, kind, history
  <1>7. ASSUME NEW u \in Users, WriteConfig(u) PROVE T'
    BY <1>1, <1>3, <1>6, <1>7 DEF WriteConfig
  <1>8. ASSUME NEW u \in Users, Pull(u) PROVE T'
    BY <1>5, <1>8 DEF Pull, Untouched
  <1>9. ASSUME NEW u \in Users, KindNodes(u) PROVE T'
    BY <1>1, <1>3, <1>6, <1>9 DEF KindNodes
  <1>10. ASSUME NEW u \in Users, KindContext(u) PROVE T'
    BY <1>1, <1>3, <1>6, <1>10 DEF KindContext
  <1>11. ASSUME NEW u \in Users, Dump(u) PROVE T'
    <2>1. Leads \in Clusters \cup {Other, Gone}
      BY <1>1 DEF Leads, Running
    <2> QED
      BY <1>1, <1>3, <1>6, <1>11, <2>1 DEF Dump
  <1>12. ASSUME NEW u \in Users, Wait(u) PROVE T'
    BY <1>5, <1>12 DEF Wait, Untouched
  <1>13. ASSUME NEW u \in Users, Cordon(u) PROVE T'
    BY <1>5, <1>13 DEF Cordon, Untouched
  <1>14. ASSUME NEW u \in Users, LoadImage(u) PROVE T'
    BY <1>5, <1>14 DEF LoadImage, Untouched
  <1>15. ASSUME NEW u \in Users, Apply(u) PROVE T'
    <2>1. Head(job[u].todo)[2] \in Kinds
      BY <1>1, <1>15, Applies DEF Apply, Kinds
    <2>2. CanApply(u) => current \in Clusters \cup {Other}
      BY <1>1 DEF CanApply, Running
    <2>3. Self(u) \in Clusters
      BY <1>3, <1>15 DEF Apply
    <2>4. <<Head(job[u].todo)[2], Self(u)>> \in Kinds \X Clusters
      BY <2>1, <2>3
    <2>5. deployed' \in [Clusters \cup {Other} -> SUBSET (Kinds \X Clusters)]
      BY <1>1, <1>15, <2>2, <2>4 DEF Apply
    <2> QED
      BY <1>1, <1>6, <1>15, <2>5 DEF Apply
  <1>16. ASSUME NEW u \in Users, Alias(u) PROVE T'
    BY <1>1, <1>3, <1>6, <1>16 DEF Alias
  <1>17. ASSUME NEW u \in Users, GetNode(u) PROVE T'
    BY <1>1, <1>3, <1>17 DEF GetNode, Return, Give, Untouched
  <1>18. ASSUME NEW u \in Users, Unset(u) PROVE T'
    BY <1>1, <1>3, <1>6, <1>18 DEF Unset
  <1>19. ASSUME NEW u \in Users, KindForget(u) PROVE T'
    BY <1>1, <1>3, <1>6, <1>19 DEF KindForget
  <1>20. ASSUME NEW u \in Users, KindDelete(u) PROVE T'
    BY <1>1, <1>3, <1>20 DEF KindDelete
  <1>21. ASSUME NEW u \in Users, Uninstall(u) PROVE T'
    BY <1>1, <1>3, <1>21 DEF Uninstall, Return, Give
  <1>22. ASSUME NEW u \in Users, Stop(u) PROVE T'
    BY <1>1, <1>3, <1>6, <1>22 DEF Stop
  <1>23. ASSUME NEW u \in Users, LoadObjects(u) PROVE T'
    BY <1>5, <1>23 DEF LoadObjects, Untouched
  <1>24. ASSUME NEW u \in Users, Start(u) PROVE T'
    BY <1>1, <1>3, <1>24 DEF Start, Return, Give
  <1>25. ASSUME NEW u \in Users, Interrupt(u) PROVE T'
    BY <1>1, <1>4, <1>25, OnCluster DEF Interrupt, Spoil, Give
  <1>26. ASSUME NEW u \in Users, Tear(u) PROVE T'
    BY <1>1, <1>3, <1>4, <1>26 DEF Tear, Cut, Spoil, Give
  <1>27. ASSUME NEW u \in Users, DeleteFails(u) PROVE T'
    BY <1>1, <1>4, <1>27 DEF DeleteFails, Spoil
  <1>33. ASSUME NEW u \in Users, KubectlFails(u) PROVE T'
    BY <1>1, <1>4, <1>33 DEF KubectlFails, Spoil
  <1>28. ASSUME NEW c \in Clusters, NEW op, NEW steps, Begin(op, c, steps),
                Event \/ UNCHANGED events, UNCHANGED conf
         PROVE  T'
    BY <1>1, <1>4, <1>28 DEF Begin
  <1>29. ASSUME NEW c \in Clusters, BeginCreate(c) \/ BeginDelete(c) \/ BeginLoad(c) PROVE T'
    BY <1>28, <1>29 DEF BeginCreate, BeginDelete, BeginLoad, Begin
  <1>30. ASSUME NEW c \in Clusters, CreateReady(c) \/ Refuse(c) PROVE T'
    BY <1>1, <1>4, <1>30 DEF CreateReady, Refuse
  <1>31. ASSUME Switch PROVE T'
    BY <1>1, <1>4, <1>31 DEF Switch
  <1>32. ASSUME UNCHANGED vars PROVE T'
    BY <1>1, <1>32 DEF vars
  <1> HIDE DEF T
  <1> QED
    BY <1>2, <1>7, <1>8, <1>9, <1>10, <1>11, <1>12, <1>13, <1>14, <1>15, <1>16, <1>17,
       <1>18, <1>19, <1>20, <1>21, <1>22, <1>23, <1>24, <1>25, <1>26, <1>27, <1>29,
       <1>30, <1>31, <1>32, <1>33 DEF Next, Step

\* pkg/runtime/kind: every file, cluster and command is of its type.
THEOREM TypeCorrect == Spec => []TypeOK
  <1>1. TypeInv => TypeOK
    BY DEF TypeInv
  <1> QED
    BY TypeInit, TypeStep, <1>1, PTL DEF Spec

-----------------------------------------------------------------------------
(* The current context *)

\* A step of a command leaves the others where they are, and brings its own one
\* call further.
LEMMA Keeps ==
  ASSUME JobInv, NEW u \in Users, Acts(u), NEW v \in Users, job'[v] # Idle
  PROVE  /\ job[v] # Idle /\ job'[v].op = job[v].op /\ job'[v].on = job[v].on
         /\ Left(v)' = IF v = u THEN Left(v) - 1 ELSE Left(v)
         /\ v # u => job'[v] = job[v]
  <1>1. Moves(u)
    BY ActsMove
  <1>2. CASE v # u
    BY <1>1, <1>2, MovesOn
  <1>3. CASE v = u
    BY <1>1, <1>3, MovesOn DEF Moves
  <1> QED
    BY <1>2, <1>3

OneCreate ==
  \A u, v \in Users : job[u].op = "create" /\ job[v].op = "create" => u = v

\* From the moment that kind has made the context, it is the current one of the
\* cluster that is created, until it is deleted.
OwnContext ==
  \A u \in Users : job[u].op = "create" /\ Left(u) <= D + 6 => current \in {Self(u), None}

HomeInv == ~raced => OneCreate /\ OwnContext /\ StaysHome

LEMMA HomeInit == Init => HomeInv
  BY Names DEF Init, HomeInv, OneCreate, OwnContext, StaysHome, Idle

LEMMA HomeStep == TypeInv /\ HomeInv /\ [Next]_vars => HomeInv'
  <1> SUFFICES ASSUME TypeInv, HomeInv, [Next]_vars, ~raced'
               PROVE  OneCreate' /\ OwnContext' /\ StaysHome'
    BY DEF HomeInv
  <1>1. TypeOK /\ JobInv /\ JobInv'
    BY JobStep DEF TypeInv
  <1>2. D \in Nat
    BY DeployType
  <1>3. ASSUME ~raced PROVE OneCreate /\ OwnContext /\ StaysHome
    BY <1>3 DEF HomeInv
  <1>4. ASSUME NEW u \in Users, job[u] # Idle PROVE Self(u) \in Clusters /\ Left(u) \in Nat
    BY <1>1, <1>4, OnCluster, AtPlace
  <1>5. ASSUME NEW u \in Users, job[u].op \in {"create", "delete", "load"} PROVE job[u] # Idle
    BY <1>5 DEF Idle
  <1>6. ASSUME NEW u \in Users, job'[u].op \in {"create", "delete", "load"} PROVE job'[u] # Idle
    BY <1>6 DEF Idle
  <1>7. ASSUME NEW u \in Users, NEW v \in Verbs \ {"context"}, At(u, v)
        PROVE  ~(job[u].op = "create" /\ Left(u) = D + 7)
    <2> HIDE DEF D
    <2> QED
      BY <1>1, <1>2, <1>7, Whereabouts DEF Verbs
  <1>8. ASSUME ~raced, NEW u \in Users, Acts(u), current' \in {current, None},
               job[u].op = "create" /\ Left(u) = D + 7 => job'[u] = Idle
        PROVE  OneCreate' /\ OwnContext'
    <2>1. OneCreate /\ OwnContext
      BY <1>3, <1>8
    <2>2. OneCreate'
      BY <1>1, <1>6, <1>8, <2>1, Keeps DEF OneCreate
    <2>3. ASSUME NEW v \in Users, job'[v].op = "create", Left(v)' <= D + 6
          PROVE  current' \in {job'[v].on, None}
      <3>1. /\ job[v] # Idle /\ job[v].op = "create" /\ job'[v].on = job[v].on
            /\ Left(v)' = IF v = u THEN Left(v) - 1 ELSE Left(v)
            /\ job'[v] # Idle
        BY <1>1, <1>6, <1>8, <2>3, Keeps
      <3>2. Left(v) \in Nat
        BY <1>4, <3>1
      <3>3. Left(v) <= D + 6
        BY <1>2, <1>8, <2>3, <3>1, <3>2
      <3> QED
        BY <1>8, <2>1, <3>1, <3>3 DEF OwnContext, Self
    <2> QED
      BY <2>2, <2>3 DEF OwnContext, Self
  <1>9. ASSUME NEW u \in Users, Acts(u), UNCHANGED <<kubeconfig, current, deployed, raced>>,
               job[u].op = "create" /\ Left(u) = D + 7 => job'[u] = Idle
        PROVE  OneCreate' /\ OwnContext' /\ StaysHome'
    BY <1>3, <1>8, <1>9 DEF StaysHome
  <1> HIDE DEF D
  <1> USE DEF Require, Continue, Return, Give, Untouched, files, kind, history, Verbs
  <1>10. ASSUME NEW u \in Users, WriteConfig(u) PROVE OneCreate' /\ OwnContext' /\ StaysHome'
    BY <1>7, <1>9, <1>10 DEF WriteConfig, Acts, Step
  <1>11. ASSUME NEW u \in Users, Pull(u) PROVE OneCreate' /\ OwnContext' /\ StaysHome'
    BY <1>7, <1>9, <1>11 DEF Pull, Acts, Step
  <1>12. ASSUME NEW u \in Users, KindNodes(u) PROVE OneCreate' /\ OwnContext' /\ StaysHome'
    BY <1>7, <1>9, <1>12 DEF KindNodes, Acts, Step
  <1>13. ASSUME NEW u \in Users, Wait(u) PROVE OneCreate' /\ OwnContext' /\ StaysHome'
    BY <1>7, <1>9, <1>13 DEF Wait, Acts, Step
  <1>14. ASSUME NEW u \in Users, Cordon(u) PROVE OneCreate' /\ OwnContext' /\ StaysHome'
    BY <1>7, <1>9, <1>14 DEF Cordon, Acts, Step
  <1>15. ASSUME NEW u \in Users, LoadImage(u) PROVE OneCreate' /\ OwnContext' /\ StaysHome'
    BY <1>7, <1>9, <1>15 DEF LoadImage, Acts, Step
  <1>16. ASSUME NEW u \in Users, Alias(u) PROVE OneCreate' /\ OwnContext' /\ StaysHome'
    BY <1>7, <1>9, <1>16 DEF Alias, Acts, Step
  <1>17. ASSUME NEW u \in Users, GetNode(u) PROVE OneCreate' /\ OwnContext' /\ StaysHome'
    BY <1>7, <1>9, <1>17 DEF GetNode, Acts, Step
  <1>18. ASSUME NEW u \in Users, Unset(u) PROVE OneCreate' /\ OwnContext' /\ StaysHome'
    BY <1>7, <1>9, <1>18 DEF Unset, Acts, Step
  <1>19. ASSUME NEW u \in Users, Stop(u) PROVE OneCreate' /\ OwnContext' /\ StaysHome'
    BY <1>7, <1>9, <1>19 DEF Stop, Acts, Step
  <1>20. ASSUME NEW u \in Users, LoadObjects(u) PROVE OneCreate' /\ OwnContext' /\ StaysHome'
    BY <1>7, <1>9, <1>20 DEF LoadObjects, Acts, Step
  <1>21. ASSUME NEW u \in Users, Start(u) PROVE OneCreate' /\ OwnContext' /\ StaysHome'
    BY <1>7, <1>9, <1>21 DEF Start, Acts, Step
  <1>22. ASSUME NEW u \in Users, KindContext(u) PROVE OneCreate' /\ OwnContext' /\ StaysHome'
    <2>1. /\ OneCreate /\ StaysHome /\ job[u] # Idle /\ job[u].op = "create" /\ Acts(u)
          /\ UNCHANGED <<kubeconfig, deployed, raced>>
      BY <1>1, <1>3, <1>22, Whereabouts DEF KindContext, Acts, Step, At
    <2>2. OneCreate'
      BY <1>1, <1>6, <2>1, Keeps DEF OneCreate
    <2>3. current' = Self(u) \/ job'[u] = Idle
      BY <1>1, <1>22 DEF KindContext, JobInv
    <2>4. ASSUME NEW v \in Users, job'[v].op = "create"
          PROVE  v = u /\ job'[u].on = Self(u) /\ job'[u] # Idle
      BY <1>1, <1>6, <2>1, <2>4, Keeps DEF OneCreate, Self
    <2>5. OwnContext'
      BY <2>3, <2>4 DEF OwnContext, Self
    <2> QED
      BY <2>1, <2>2, <2>5 DEF StaysHome
  <1>23. ASSUME NEW u \in Users, Dump(u) PROVE OneCreate' /\ OwnContext' /\ StaysHome'
    <2>1. Acts(u) /\ At(u, "dump") /\ UNCHANGED <<current, deployed, raced>>
      BY <1>23 DEF Dump, Acts, Step
    <2>2. OneCreate' /\ OwnContext'
      BY <1>7, <1>8, <2>1
    <2>3. job[u] # Idle /\ job[u].op = "create" /\ Left(u) = D + 6 /\ StaysHome /\ OwnContext
      BY <1>1, <1>3, <2>1, Whereabouts DEF At
    <2>4. current \in {Self(u), None} /\ Self(u) \in Clusters
      BY <1>2, <1>4, <2>3 DEF OwnContext
    <2>5. CanDump(u) => Leads \in {Self(u), Gone}
      BY <2>4 DEF CanDump, Leads
    <2>6. \A c \in Clusters : kubeconfig'[c] \in {c, None, Gone}
      BY <1>1, <1>23, <2>3, <2>4, <2>5 DEF Dump, StaysHome, TypeOK
    <2> QED
      BY <2>1, <2>2, <2>3, <2>6 DEF StaysHome
  <1>24. ASSUME NEW u \in Users, Apply(u) PROVE OneCreate' /\ OwnContext' /\ StaysHome'
    <2>1. Acts(u) /\ At(u, "apply") /\ UNCHANGED <<current, kubeconfig, raced>>
      BY <1>24 DEF Apply, Acts, Step
    <2>2. OneCreate' /\ OwnContext'
      BY <1>7, <1>8, <2>1
    <2>3. job[u] # Idle /\ job[u].op = "create" /\ Left(u) <= D + 6 /\ StaysHome /\ OwnContext
      BY <1>1, <1>2, <1>3, <2>1, Whereabouts DEF At
    <2>4. current \in {Self(u), None} /\ Self(u) \in Clusters
      BY <1>4, <2>3 DEF OwnContext
    <2>5. CanApply(u) => current = Self(u)
      BY <1>1, <2>4, Names DEF CanApply, Running, TypeOK
    <2>6. Head(job[u].todo)[2] \in Kinds
      BY <1>1, <2>1, Applies DEF Kinds
    <2>7. <<Head(job[u].todo)[2], Self(u)>> \in Kinds \X {Self(u)}
      BY <2>6
    <2>8. CASE CanApply(u)
      <3>1. deployed' = [deployed EXCEPT ![Self(u)] = @ \cup {<<Head(job[u].todo)[2], Self(u)>>}]
        BY <1>24, <2>5, <2>8 DEF Apply
      <3>2. \A c \in Clusters \cup {Other} : deployed'[c] \subseteq Kinds \X {c}
        <4>1. deployed'[Self(u)] = deployed[Self(u)] \cup {<<Head(job[u].todo)[2], Self(u)>>}
          BY <1>1, <2>4, <3>1 DEF TypeOK
        <4>2. \A c \in (Clusters \cup {Other}) \ {Self(u)} : deployed'[c] = deployed[c]
          BY <1>1, <3>1 DEF TypeOK
        <4>3. \A c \in Clusters \cup {Other} : deployed[c] \subseteq Kinds \X {c}
          BY <2>1, <2>3 DEF StaysHome
        <4>4. deployed'[Self(u)] \subseteq Kinds \X {Self(u)}
          BY <2>4, <2>7, <4>1, <4>3
        <4> QED
          BY <4>2, <4>3, <4>4
      <3> QED
        BY <2>1, <2>2, <2>3, <3>2 DEF StaysHome
    <2>9. CASE ~CanApply(u)
      BY <1>24, <2>1, <2>2, <2>3, <2>9 DEF Apply, StaysHome
    <2> QED
      BY <2>8, <2>9
  <1>25. ASSUME NEW u \in Users, KindForget(u) PROVE OneCreate' /\ OwnContext' /\ StaysHome'
    <2>1. Acts(u) /\ At(u, "forget") /\ current' \in {current, None}
          /\ UNCHANGED <<kubeconfig, deployed, raced>>
      BY <1>25 DEF KindForget, Acts, Step
    <2> QED
      BY <1>3, <1>7, <1>8, <2>1 DEF StaysHome
  <1>26. ASSUME NEW u \in Users, KindDelete(u) PROVE OneCreate' /\ OwnContext' /\ StaysHome'
    <2>1. Acts(u) /\ At(u, "delete") /\ UNCHANGED <<current, raced>>
      BY <1>26 DEF KindDelete, Acts, Step
    <2>2. \A c \in Clusters : kubeconfig'[c] \in {kubeconfig[c], Gone}
      BY <1>26 DEF KindDelete
    <2>3. \A c \in Clusters \cup {Other} : deployed'[c] \subseteq deployed[c]
      BY <1>1, <1>26 DEF KindDelete, TypeOK
    <2> QED
      BY <1>3, <1>7, <1>8, <2>1, <2>2, <2>3 DEF StaysHome
  <1>27. ASSUME NEW u \in Users, Acts(u), UNCHANGED <<current, deployed, raced>>,
                \A c \in Clusters : kubeconfig'[c] \in {kubeconfig[c], None},
                job[u].op = "create" /\ Left(u) = D + 7 => job'[u] = Idle
         PROVE  OneCreate' /\ OwnContext' /\ StaysHome'
    BY <1>3, <1>8, <1>27 DEF StaysHome
  <1>28. ASSUME NEW u \in Users, Uninstall(u) PROVE OneCreate' /\ OwnContext' /\ StaysHome'
    BY <1>1, <1>7, <1>27, <1>28 DEF Uninstall, Acts, Step, TypeOK
  <1>29. ASSUME NEW u \in Users, Tear(u) PROVE OneCreate' /\ OwnContext' /\ StaysHome'
    BY <1>1, <1>7, <1>27, <1>29 DEF Tear, Cut, Spoil, Acts, TypeOK
  <1>30. ASSUME NEW u \in Users, DeleteFails(u) PROVE OneCreate' /\ OwnContext' /\ StaysHome'
    BY <1>7, <1>9, <1>30 DEF DeleteFails, Acts
  <1>31. ASSUME NEW u \in Users, Interrupt(u) PROVE OneCreate' /\ OwnContext' /\ StaysHome'
    BY <1>1, <1>9, <1>31 DEF Interrupt, Spoil, Acts, JobInv
  <1>32. ASSUME NEW op \in {"create", "delete", "load"}, NEW c \in Clusters, NEW steps,
                Begin(op, c, steps), Course(op, steps), op = "create" => Len(steps) > D + 6
         PROVE  OneCreate' /\ OwnContext' /\ StaysHome'
    <2>1. /\ ~raced /\ UNCHANGED <<kubeconfig, current, deployed>>
          /\ OneCreate /\ OwnContext /\ StaysHome
      BY <1>3, <1>32 DEF Begin
    <2>2. op = "create" => \A v \in Users : job[v].op # "create"
      BY <1>5, <1>32 DEF Begin, Busy
    <2>3. PICK u \in Users :
            /\ job[u] = Idle /\ job'[u] \in Jobs
            /\ job'[u].op = op /\ job'[u].on = c /\ job'[u].todo = steps
            /\ \A v \in Users \ {u} : job'[v] = job[v] /\ Left(v)' = Left(v)
      BY <1>1, <1>32, Begins
    <2>4. Left(u)' = Len(steps)
      BY <2>3 DEF Left
    <2>5. OneCreate'
      BY <2>1, <2>2, <2>3 DEF OneCreate
    <2>6. Len(steps) \in Nat
      BY <1>32, LenProperties DEF Course
    <2>7. op = "create" => ~(Left(u)' <= D + 6)
      BY <1>2, <1>32, <2>4, <2>6
    <2>8. OwnContext'
      BY <2>1, <2>3, <2>7 DEF OwnContext, Self
    <2> QED
      BY <2>1, <2>5, <2>8 DEF StaysHome
  <1>33. ASSUME NEW c \in Clusters, BeginCreate(c) PROVE OneCreate' /\ OwnContext' /\ StaysHome'
    BY <1>2, <1>32, <1>33, Courses DEF BeginCreate
  <1>34. ASSUME NEW c \in Clusters, BeginDelete(c) PROVE OneCreate' /\ OwnContext' /\ StaysHome'
    BY <1>32, <1>34, Courses DEF BeginDelete
  <1>35. ASSUME NEW c \in Clusters, BeginLoad(c) PROVE OneCreate' /\ OwnContext' /\ StaysHome'
    BY <1>32, <1>35, Courses DEF BeginLoad
  <1>36. ASSUME UNCHANGED <<kubeconfig, current, deployed, job, raced>>
         PROVE  OneCreate' /\ OwnContext' /\ StaysHome'
    BY <1>3, <1>36 DEF OneCreate, OwnContext, StaysHome, Left, Self
  <1>37. ASSUME NEW c \in Clusters, CreateReady(c) \/ Refuse(c)
         PROVE  OneCreate' /\ OwnContext' /\ StaysHome'
    BY <1>36, <1>37 DEF CreateReady, Refuse
  <1>38. CASE Switch
    <2>1. ~raced /\ \A v \in Users : job[v].op # "create"
      BY <1>5, <1>38 DEF Switch, Busy
    <2> QED
      BY <1>3, <1>38, <2>1 DEF Switch, OneCreate, OwnContext, StaysHome
  <1>39. CASE UNCHANGED vars
    BY <1>36, <1>39 DEF vars
  <1>40. ASSUME NEW u \in Users, KubectlFails(u) PROVE OneCreate' /\ OwnContext' /\ StaysHome'
    BY <1>7, <1>9, <1>40 DEF KubectlFails, Acts
  <1> QED
    BY <1>10, <1>11, <1>12, <1>13, <1>14, <1>15, <1>16, <1>17, <1>18, <1>19, <1>20,
       <1>21, <1>22, <1>23, <1>24, <1>25, <1>26, <1>28, <1>29, <1>30, <1>31, <1>33,
       <1>34, <1>35, <1>37, <1>38, <1>39, <1>40 DEF Next, Step

\* Up of pkg/runtime/kind/cluster.go: unless creates race, or the user switches
\* the context under one, a cluster's kubeconfig never leads to another cluster
\* and no manifest is applied to one, whatever deletes, loads and failures do.
THEOREM UpStaysHome == Spec => []StaysHome
  <1>1. HomeInv => StaysHome
    BY DEF HomeInv, StaysHome
  <1> QED
    BY TypeInit, TypeStep, HomeInit, HomeStep, <1>1, PTL DEF Spec

-----------------------------------------------------------------------------
(* Commands on the same cluster *)

\* Two commands at work on a cluster are in each other's way, unless both load.
Apart ==
  \A u, v \in Users :
    u # v /\ job[u] # Idle /\ job[v] # Idle /\ Self(u) = Self(v)
      => Self(u) \in clash \/ (job[u].op = "load" /\ job[v].op = "load")

LEMMA ApartInit == Init => Apart
  BY DEF Init, Apart

LEMMA ActsKeepClash ==
  ASSUME NEW u \in Users, Acts(u)
  PROVE  UNCHANGED clash
  BY DEF Acts, Step, WriteConfig, Pull, KindNodes, KindContext, Dump, Wait, Cordon,
     LoadImage, Apply, Alias, GetNode, Unset, KindForget, KindDelete, Uninstall, Stop,
     LoadObjects, Start, Interrupt, Tear, DeleteFails, KubectlFails, Require, Continue, Return,
     history

\* A command that begins has all its calls to do, and no other in its way that is
\* not in clash.
LEMMA BeginsApart ==
  ASSUME JobInv, NEW c \in Clusters, BeginCreate(c) \/ BeginDelete(c) \/ BeginLoad(c)
  PROVE  /\ clash \subseteq clash' /\ (raced => raced')
         /\ UNCHANGED <<files, kind, alias, cut, leaked>>
         /\ result' = [result EXCEPT ![c] = "none"]
         /\ \E u \in Users :
              /\ job[u] = Idle /\ job'[u] \in Jobs /\ job'[u].on = c
              /\ \A v \in Users \ {u} : job'[v] = job[v] /\ Left(v)' = Left(v)
              /\ job'[u].op = "create" => Left(u)' \in {D + 10, D + 13}
              /\ job'[u].op = "delete" => Left(u)' = 4
              /\ job'[u].op = "load" => Left(u)' = 3
              /\ \A v \in Users \ {u} :
                   job[v] # Idle /\ Self(v) = c
                     => c \in clash' \/ (job'[u].op = "load" /\ job[v].op = "load")
  <1>1. ASSUME NEW op \in {"create", "delete", "load"}, NEW steps,
               Begin(op, c, steps), Course(op, steps)
        PROVE  /\ clash \subseteq clash' /\ (raced => raced')
               /\ UNCHANGED <<files, kind, alias, cut, leaked>>
               /\ result' = [result EXCEPT ![c] = "none"]
               /\ \E u \in Users :
                    /\ job[u] = Idle /\ job'[u] \in Jobs /\ job'[u].on = c
                    /\ job'[u].op = op /\ Left(u)' = Len(steps)
                    /\ \A v \in Users \ {u} : job'[v] = job[v] /\ Left(v)' = Left(v)
                    /\ \A v \in Users \ {u} :
                         job[v] # Idle /\ Self(v) = c
                           => c \in clash' \/ (op = "load" /\ job[v].op = "load")
    <2>1. PICK u \in Users :
            /\ job[u] = Idle /\ job'[u] \in Jobs
            /\ job'[u].op = op /\ job'[u].on = c /\ job'[u].todo = steps
            /\ \A v \in Users \ {u} : job'[v] = job[v] /\ Left(v)' = Left(v)
      BY <1>1, Begins
    <2>2. Left(u)' = Len(steps)
      BY <2>1 DEF Left
    <2>3. clash' = Clash(op, c)
      BY <1>1 DEF Begin
    <2>4. clash \subseteq clash'
      BY <2>3 DEF Clash
    <2>5. ASSUME NEW v \in Users, job[v] # Idle, Self(v) = c, ~(op = "load" /\ job[v].op = "load")
          PROVE  c \in clash'
      <3>1. v \in Busy /\ job[v].on = c /\ {op, job[v].op} # {"load"}
        BY <2>5 DEF Busy, Self
      <3> QED
        BY <2>3, <3>1 DEF Clash
    <2>6. /\ UNCHANGED <<files, kind, alias, cut, leaked>>
          /\ result' = [result EXCEPT ![c] = "none"] /\ (raced => raced')
      BY <1>1 DEF Begin
    <2> QED
      BY <2>1, <2>2, <2>4, <2>5, <2>6
  <1>2. CASE BeginCreate(c)
    <2>1. Begin("create", c, Create) \/ Begin("create", c, Recreate)
      BY <1>2 DEF BeginCreate
    <2>2. "create" \in {"create", "delete", "load"}
      OBVIOUS
    <2>3. CASE Begin("create", c, Create)
      BY <1>1, <2>2, <2>3, Courses
    <2>4. CASE Begin("create", c, Recreate)
      BY <1>1, <2>2, <2>4, Courses
    <2> QED
      BY <2>1, <2>3, <2>4
  <1>3. CASE BeginDelete(c)
    <2>1. "delete" \in {"create", "delete", "load"} /\ Begin("delete", c, Delete)
      BY <1>3 DEF BeginDelete
    <2>2. Course("delete", Delete) /\ Len(Delete) = 4
      BY Courses
    <2> QED
      BY <1>1, <2>1, <2>2
  <1>4. CASE BeginLoad(c)
    <2>1. "load" \in {"create", "delete", "load"} /\ Begin("load", c, Load)
      BY <1>4 DEF BeginLoad
    <2>2. Course("load", Load) /\ Len(Load) = 3
      BY Courses
    <2> QED
      BY <1>1, <2>1, <2>2
  <1> QED
    BY <1>2, <1>3, <1>4

LEMMA ApartStep == TypeInv /\ Apart /\ [Next]_vars => Apart'
  <1> SUFFICES ASSUME TypeInv, Apart, [Next]_vars PROVE Apart'
    OBVIOUS
  <1>1. JobInv
    BY DEF TypeInv
  <1>2. ASSUME NEW u \in Users, Acts(u) PROVE Apart'
    BY <1>1, <1>2, ActsKeepClash, Keeps DEF Apart, Self
  <1>3. ASSUME NEW c \in Clusters, BeginCreate(c) \/ BeginDelete(c) \/ BeginLoad(c) PROVE Apart'
    <2>1. clash \subseteq clash'
      BY <1>1, <1>3, BeginsApart
    <2>2. PICK u \in Users :
            /\ job[u] = Idle /\ job'[u] \in Jobs /\ job'[u].on = c
            /\ \A v \in Users \ {u} : job'[v] = job[v] /\ Left(v)' = Left(v)
            /\ \A v \in Users \ {u} :
                 job[v] # Idle /\ Self(v) = c
                   => c \in clash' \/ (job'[u].op = "load" /\ job[v].op = "load")
      BY <1>1, <1>3, BeginsApart
    <2> QED
      BY <2>1, <2>2 DEF Apart, Self
  <1>4. ASSUME NEW c \in Clusters, CreateReady(c) \/ Refuse(c) PROVE Apart'
    <2>1. UNCHANGED job /\ clash \subseteq clash'
      BY <1>4 DEF CreateReady, Refuse, Clash, history
    <2> QED
      BY <2>1 DEF Apart, Self
  <1>5. CASE Switch \/ UNCHANGED vars
    BY <1>5 DEF Switch, vars, Apart, Self
  <1> QED
    BY <1>2, <1>3, <1>4, <1>5 DEF Next, Acts

-----------------------------------------------------------------------------
(* Load and delete *)

\* A load that has moved the manifest of the controller manager away.
PastStop(u) == job[u].op = "load" /\ Left(u) <= 2

\* It is moved, by this load and no other.
StopInv ==
  \A u \in Users : PastStop(u) /\ Self(u) \notin clash =>
    Self(u) \in moved /\ \A v \in Users : PastStop(v) /\ Self(v) = Self(u) => v = u

\* It is moved only by a load that will move it back.
BackInv == \A c \in moved \ cut : \E u \in Users : PastStop(u) /\ Self(u) = c

\* A delete that comes to the work directory has deleted the containers.
DownInv ==
  \A u \in Users : job[u].op = "delete" /\ Left(u) = 1 /\ Self(u) \in nodes
    => Self(u) \in leaked \cup clash

CareInv == StopInv /\ BackInv /\ DownInv /\ NothingOrphaned

LEMMA CareInit == Init => CareInv
  BY DEF Init, CareInv, StopInv, BackInv, DownInv, NothingOrphaned, PastStop, Idle

LEMMA CareStep == TypeInv /\ Apart /\ CareInv /\ [Next]_vars => CareInv'
  <1> SUFFICES ASSUME TypeInv, Apart, CareInv, [Next]_vars PROVE CareInv'
    OBVIOUS
  <1>1. TypeOK /\ JobInv
    BY DEF TypeInv
  <1>2. D \in Nat
    BY DeployType
  <1> HIDE DEF D
  <1>3. StopInv /\ BackInv /\ DownInv /\ NothingOrphaned
    BY DEF CareInv
  <1>4. ASSUME NEW u \in Users, job[u].op \in {"create", "delete", "load"}
        PROVE  job[u] # Idle /\ Self(u) \in Clusters /\ Left(u) \in Nat \ {0}
    <2>1. job[u] # Idle
      BY <1>4 DEF Idle
    <2> QED
      BY <1>1, <2>1, OnCluster, AtPlace
  <1>5. ASSUME NEW u \in Users, job'[u].op \in {"create", "delete", "load"} PROVE job'[u] # Idle
    BY <1>5 DEF Idle
  \* What a step of u leaves of the commands of others.
  <1>6. ASSUME NEW u \in Users, Acts(u), NEW v \in Users \ {u}
        PROVE  /\ PastStop(v)' <=> PastStop(v)
               /\ job'[v] = job[v] /\ Left(v)' = Left(v) /\ Self(v)' = Self(v)
    <2>1. job'[v] = job[v] /\ Left(v)' = Left(v)
      BY <1>1, <1>6, ActsMove, MovesOn
    <2> QED
      BY <2>1 DEF PastStop, Self
  <1>7. ASSUME NEW u \in Users, Acts(u), job'[u].op \in {"create", "delete", "load"}
        PROVE  job'[u].op = job[u].op /\ Self(u)' = Self(u) /\ Left(u)' = Left(u) - 1
    BY <1>1, <1>5, <1>7, Keeps DEF Self
  \* A step that is not one of a load, nor brings a delete to the work directory.
  <1>8. ASSUME NEW u \in Users, Acts(u), ~PastStop(u), ~PastStop(u)',
               job'[u].op = "delete" => Left(u)' # 1,
               UNCHANGED <<nodes, moved, leaked>>, cut \subseteq cut',
               \A c \in Clusters : conf'[c] = None => conf[c] = None
        PROVE  CareInv'
    <2>1. UNCHANGED clash
      BY <1>8, ActsKeepClash
    <2>2. StopInv' /\ BackInv'
      BY <1>3, <1>6, <1>8, <2>1 DEF StopInv, BackInv
    <2>3. DownInv'
      BY <1>3, <1>6, <1>8, <2>1 DEF DownInv
    <2>4. NothingOrphaned'
      BY <1>1, <1>3, <1>8, <2>1 DEF NothingOrphaned, TypeOK
    <2> QED
      BY <2>2, <2>3, <2>4 DEF CareInv
  <1>9. ASSUME NEW u \in Users, NEW v \in Verbs \ {"stop", "load", "start", "uninstall", "delete"},
               At(u, v), Acts(u)
        PROVE  /\ ~PastStop(u) /\ ~PastStop(u)'
               /\ job'[u].op = "delete" => Left(u)' # 1
    <2>1. job[u].op # "load" /\ (job[u].op = "delete" => Left(u) # 2)
      BY <1>1, <1>2, <1>9, Whereabouts DEF Verbs
    <2>2. job'[u].op = "delete" => Left(u)' # 1
      <3> SUFFICES ASSUME job'[u].op = "delete" PROVE Left(u)' # 1
        OBVIOUS
      <3>1. job[u].op = "delete" /\ Left(u)' = Left(u) - 1
        BY <1>7, <1>9
      <3>2. Left(u) \in Nat
        BY <1>4, <3>1
      <3> QED
        BY <2>1, <3>1, <3>2
    <2> QED
      BY <1>7, <1>9, <2>1, <2>2 DEF PastStop
  <1> USE DEF Require, Continue, Return, Give, Untouched, files, kind, history, Verbs
  <1>10. ASSUME NEW u \in Users, WriteConfig(u) PROVE CareInv'
    BY <1>1, Names, <1>8, <1>9, <1>10 DEF WriteConfig, Acts, Step, TypeOK
  <1>11. ASSUME NEW u \in Users, Pull(u) PROVE CareInv'
    BY <1>8, <1>9, <1>11 DEF Pull, Acts, Step
  <1>12. ASSUME NEW u \in Users, KindContext(u) PROVE CareInv'
    BY <1>8, <1>9, <1>12 DEF KindContext, Acts, Step
  <1>13. ASSUME NEW u \in Users, Dump(u) PROVE CareInv'
    BY <1>8, <1>9, <1>13 DEF Dump, Acts, Step
  <1>14. ASSUME NEW u \in Users, Wait(u) PROVE CareInv'
    BY <1>8, <1>9, <1>14 DEF Wait, Acts, Step
  <1>15. ASSUME NEW u \in Users, Cordon(u) PROVE CareInv'
    BY <1>8, <1>9, <1>15 DEF Cordon, Acts, Step
  <1>16. ASSUME NEW u \in Users, LoadImage(u) PROVE CareInv'
    BY <1>8, <1>9, <1>16 DEF LoadImage, Acts, Step
  <1>17. ASSUME NEW u \in Users, Apply(u) PROVE CareInv'
    BY <1>8, <1>9, <1>17 DEF Apply, Acts, Step
  <1>18. ASSUME NEW u \in Users, Alias(u) PROVE CareInv'
    BY <1>8, <1>9, <1>18 DEF Alias, Acts, Step
  <1>19. ASSUME NEW u \in Users, GetNode(u) PROVE CareInv'
    BY <1>8, <1>9, <1>19 DEF GetNode, Acts, Step
  <1>20. ASSUME NEW u \in Users, Unset(u) PROVE CareInv'
    BY <1>8, <1>9, <1>20 DEF Unset, Acts, Step
  <1>21. ASSUME NEW u \in Users, KindForget(u) PROVE CareInv'
    BY <1>8, <1>9, <1>21 DEF KindForget, Acts, Step
  <1>22. ASSUME NEW u \in Users, KindNodes(u) PROVE CareInv'
    <2>1. /\ Acts(u) /\ At(u, "nodes") /\ job[u].op = "create" /\ Self(u) \in Clusters
          /\ UNCHANGED <<conf, moved, clash, cut, leaked>>
      BY <1>1, <1>4, <1>22, Whereabouts DEF KindNodes, Acts, Step
    <2>2. ~PastStop(u) /\ ~PastStop(u)' /\ (job'[u].op = "delete" => Left(u)' # 1)
      BY <1>9, <2>1
    <2>3. nodes' \in {nodes, nodes \cup {Self(u)}} /\ (nodes' # nodes => conf[Self(u)] # None)
      BY <1>22 DEF KindNodes, HasDirectory
    <2>4. StopInv' /\ BackInv'
      BY <1>3, <1>6, <2>1, <2>2 DEF StopInv, BackInv
    <2>5. ASSUME NEW v \in Users, job'[v].op = "delete", Left(v)' = 1, job'[v].on \in nodes'
          PROVE  job'[v].on \in leaked \cup clash
      <3>1. v # u /\ job'[v] = job[v] /\ Left(v) = 1
        BY <1>6, <2>1, <2>2, <2>5
      <3>2. job[v] # Idle /\ job[u] # Idle
        BY <1>4, <2>1, <2>5, <3>1
      <3> QED
        BY <1>3, <2>1, <2>3, <2>5, <3>1, <3>2 DEF Apart, DownInv, Self
    <2>6. NothingOrphaned'
      BY <1>3, <2>1, <2>3 DEF NothingOrphaned
    <2> QED
      BY <2>1, <2>4, <2>5, <2>6 DEF CareInv, DownInv, Self
  <1>23. ASSUME NEW u \in Users, KindDelete(u) PROVE CareInv'
    <2>1. /\ Acts(u) /\ At(u, "delete") /\ job[u].op \in {"create", "delete"}
          /\ nodes' = nodes \ {Self(u)} /\ moved' = moved \ {Self(u)}
          /\ cut' = cut \ {Self(u)} /\ leaked' = leaked \ {Self(u)} /\ UNCHANGED <<conf, clash>>
      BY <1>1, <1>23, Whereabouts DEF KindDelete, Acts, Step
    <2>2. ~PastStop(u) /\ ~PastStop(u)'
      BY <1>7, <2>1 DEF PastStop
    <2>3. ASSUME NEW v \in Users, PastStop(v), Self(v) = Self(u) PROVE Self(u) \in clash
      BY <1>4, <2>1, <2>2, <2>3 DEF PastStop, Apart
    <2>4. StopInv'
      BY <1>3, <1>6, <2>1, <2>2, <2>3 DEF StopInv
    <2>5. BackInv'
      BY <1>3, <1>6, <2>1, <2>2 DEF BackInv
    <2>6. DownInv'
      BY <1>3, <1>6, <1>7, <2>1 DEF DownInv
    <2>7. NothingOrphaned'
      BY <1>3, <2>1 DEF NothingOrphaned
    <2> QED
      BY <2>4, <2>5, <2>6, <2>7 DEF CareInv
  <1>24. ASSUME NEW u \in Users, DeleteFails(u) PROVE CareInv'
    <2>1. /\ Acts(u) /\ At(u, "delete") /\ job[u].op \in {"create", "delete"}
          /\ leaked' = leaked \cup ({Self(u)} \cap nodes) /\ cut \subseteq cut'
          /\ UNCHANGED <<conf, nodes, moved, clash>>
      BY <1>1, <1>24, Whereabouts DEF DeleteFails, Spoil, Acts
    <2>2. ~PastStop(u) /\ ~PastStop(u)'
      BY <1>7, <2>1 DEF PastStop
    <2>3. StopInv' /\ BackInv'
      BY <1>3, <1>6, <2>1, <2>2 DEF StopInv, BackInv
    <2>4. DownInv'
      BY <1>3, <1>6, <1>7, <2>1 DEF DownInv
    <2>5. NothingOrphaned'
      BY <1>3, <2>1 DEF NothingOrphaned
    <2> QED
      BY <2>3, <2>4, <2>5 DEF CareInv
  <1>25. ASSUME NEW u \in Users, Uninstall(u) PROVE CareInv'
    <2>1. /\ Acts(u) /\ At(u, "uninstall") /\ job[u].op = "delete" /\ Left(u) = 1
          /\ UNCHANGED <<nodes, moved, clash, cut, leaked>>
          /\ job' = [job EXCEPT ![u] = Idle] /\ conf' = [conf EXCEPT ![Self(u)] = None]
      BY <1>1, <1>25, Whereabouts DEF Uninstall, Acts, Step
    <2>2. job'[u] = Idle /\ ~PastStop(u) /\ ~PastStop(u)' /\ job'[u].op # "delete"
      BY <1>1, <2>1 DEF JobInv, PastStop, Idle
    <2>3. StopInv' /\ BackInv' /\ DownInv'
      BY <1>3, <1>6, <2>1, <2>2 DEF StopInv, BackInv, DownInv
    <2>4. Self(u) \in nodes => Self(u) \in leaked \cup clash
      BY <1>3, <2>1 DEF DownInv
    <2>5. NothingOrphaned'
      BY <1>1, <1>3, <2>1, <2>4 DEF NothingOrphaned, TypeOK
    <2> QED
      BY <2>3, <2>5 DEF CareInv
  <1>26. ASSUME NEW u \in Users, Acts(u), job[u].op = "load",
                UNCHANGED <<conf, nodes, leaked>>, StopInv', BackInv'
         PROVE  CareInv'
    <2>1. UNCHANGED clash
      BY <1>26, ActsKeepClash
    <2>2. job'[u].op # "delete"
      BY <1>7, <1>26
    <2>3. DownInv' /\ NothingOrphaned'
      BY <1>3, <1>6, <1>26, <2>1, <2>2 DEF DownInv, NothingOrphaned
    <2> QED
      BY <1>26, <2>3 DEF CareInv
  <1>27. ASSUME NEW u \in Users, Stop(u) PROVE CareInv'
    <2>1. /\ Acts(u) /\ At(u, "stop") /\ job[u].op = "load" /\ Left(u) = 3
          /\ UNCHANGED <<conf, nodes, clash, cut, leaked>> /\ moved \subseteq moved'
          /\ Self(u) \in Clusters
      BY <1>1, <1>4, <1>27, Whereabouts DEF Stop, Acts, Step
    <2>2. CASE HasDirectory(u) /\ Self(u) \in nodes \ moved
      <3>1. moved' = moved \cup {Self(u)} /\ job' = [job EXCEPT ![u].todo = Tail(@)]
        BY <1>27, <2>2 DEF Stop
      <3>2. PastStop(u)' /\ Self(u)' = Self(u)
        <4>1. Moves(u) /\ job'[u] # Idle
          BY <1>1, <2>1, <3>1, ActsMove, AtPlace, Working DEF JobInv, Idle, Jobs
        <4>2. Left(u)' = 2 /\ job'[u].op = "load" /\ Self(u)' = Self(u)
          BY <1>1, <2>1, <4>1, Keeps DEF Self
        <4> QED
          BY <4>2 DEF PastStop
      <3>3. \A v \in Users \ {u} : PastStop(v) /\ Self(v) = Self(u) => Self(u) \in clash
        BY <1>3, <2>2 DEF StopInv
      <3>4. StopInv'
        BY <1>3, <1>6, <2>1, <3>1, <3>2, <3>3 DEF StopInv
      <3>5. BackInv'
        BY <1>3, <1>6, <2>1, <3>1, <3>2 DEF BackInv, PastStop
      <3> QED
        BY <1>26, <2>1, <3>4, <3>5
    <2>3. CASE ~(HasDirectory(u) /\ Self(u) \in nodes \ moved)
      <3>1. job' = [job EXCEPT ![u] = Idle] /\ moved' = moved
        BY <1>27, <2>3 DEF Stop
      <3>2. ~PastStop(u) /\ ~PastStop(u)'
        BY <1>1, <2>1, <3>1 DEF PastStop, Idle, JobInv
      <3>3. StopInv' /\ BackInv'
        BY <1>3, <1>6, <2>1, <3>1, <3>2 DEF StopInv, BackInv
      <3> QED
        BY <1>26, <2>1, <3>3
    <2> QED
      BY <2>2, <2>3
  <1>28. ASSUME NEW u \in Users, LoadObjects(u) PROVE CareInv'
    <2>1. /\ Acts(u) /\ At(u, "load") /\ job[u].op = "load" /\ Left(u) = 2
          /\ UNCHANGED <<conf, nodes, moved, clash, cut, leaked>>
          /\ job' = [job EXCEPT ![u].todo = Tail(@)]
      BY <1>1, <1>28, Whereabouts DEF LoadObjects, Acts, Step
    <2>2. PastStop(u) /\ PastStop(u)' /\ Self(u)' = Self(u)
      <3>1. job'[u] # Idle
        BY <1>1, <1>4, <2>1 DEF JobInv, Idle, Jobs
      <3> QED
        BY <1>1, <2>1, <3>1, Keeps DEF PastStop, Self
    <2>3. StopInv' /\ BackInv'
      BY <1>3, <1>6, <2>1, <2>2 DEF StopInv, BackInv
    <2> QED
      BY <1>26, <2>1, <2>3
  <1>29. ASSUME NEW u \in Users, Start(u) PROVE CareInv'
    <2>1. /\ Acts(u) /\ At(u, "start") /\ job[u].op = "load" /\ Left(u) = 1
          /\ UNCHANGED <<conf, nodes, clash, cut, leaked>> /\ moved' = moved \ {Self(u)}
          /\ job' = [job EXCEPT ![u] = Idle]
      BY <1>1, <1>29, Whereabouts DEF Start, Acts, Step
    <2>2. PastStop(u) /\ ~PastStop(u)'
      BY <1>1, <2>1 DEF PastStop, Idle, JobInv
    <2>3. StopInv' /\ BackInv'
      BY <1>3, <1>6, <2>1, <2>2 DEF StopInv, BackInv
    <2> QED
      BY <1>26, <2>1, <2>3
  <1>30. ASSUME NEW u \in Users, Interrupt(u) PROVE CareInv'
    <2>1. /\ Acts(u) /\ UNCHANGED <<conf, nodes, moved, clash, leaked>>
          /\ cut' = cut \cup ({Self(u)} \cap nodes) /\ job' = [job EXCEPT ![u] = Idle]
      BY <1>30 DEF Interrupt, Spoil, Acts
    <2>2. job'[u] = Idle /\ ~PastStop(u)' /\ job'[u].op # "delete"
      BY <1>1, <2>1 DEF JobInv, PastStop, Idle
    <2>3. StopInv' /\ DownInv' /\ NothingOrphaned'
      BY <1>3, <1>6, <2>1, <2>2 DEF StopInv, DownInv, NothingOrphaned
    <2>4. BackInv'
      BY <1>1, <1>3, <1>6, <2>1 DEF BackInv, TypeOK
    <2> QED
      BY <2>3, <2>4 DEF CareInv
  <1>31. ASSUME NEW u \in Users, Tear(u) PROVE CareInv'
    <2>1. At(u, "config") \/ At(u, "dump")
      BY <1>31 DEF Tear
    <2>2. \A c \in Clusters : conf'[c] = None => conf[c] = None
      BY <1>1, <1>31, Names DEF Tear, TypeOK
    <2> QED
      BY <1>8, <1>9, <1>31, <2>1, <2>2 DEF Tear, Cut, Spoil, Acts
  <1>32. ASSUME NEW c \in Clusters, BeginCreate(c) \/ BeginDelete(c) \/ BeginLoad(c) PROVE CareInv'
    <2>1. clash \subseteq clash' /\ UNCHANGED <<conf, nodes, moved, cut, leaked>>
      BY <1>1, <1>32, BeginsApart
    <2>2. PICK u \in Users :
            /\ job[u] = Idle /\ job'[u] \in Jobs
            /\ \A v \in Users \ {u} : job'[v] = job[v] /\ Left(v)' = Left(v)
            /\ job'[u].op = "delete" => Left(u)' = 4
            /\ job'[u].op = "load" => Left(u)' = 3
      BY <1>1, <1>32, BeginsApart
    <2>3. ~PastStop(u) /\ ~PastStop(u)' /\ ~(job'[u].op = "delete" /\ Left(u)' = 1)
      BY <2>2 DEF PastStop, Idle
    <2>4. \A v \in Users \ {u} : PastStop(v)' <=> PastStop(v)
      BY <2>2 DEF PastStop
    <2>5. StopInv' /\ BackInv'
      BY <1>3, <2>1, <2>2, <2>3, <2>4 DEF StopInv, BackInv, Self
    <2>6. DownInv' /\ NothingOrphaned'
      BY <1>3, <2>1, <2>2, <2>3 DEF DownInv, NothingOrphaned, Self
    <2> QED
      BY <2>5, <2>6 DEF CareInv
  <1>33. ASSUME UNCHANGED <<conf, nodes, moved, job, cut, leaked>>, clash \subseteq clash'
         PROVE  CareInv'
    BY <1>3, <1>33 DEF CareInv, StopInv, BackInv, DownInv, NothingOrphaned, PastStop, Left, Self
  <1>34. ASSUME NEW c \in Clusters, CreateReady(c) \/ Refuse(c) PROVE CareInv'
    BY <1>33, <1>34 DEF CreateReady, Refuse, Clash
  <1>35. CASE Switch \/ UNCHANGED vars
    BY <1>33, <1>35 DEF Switch, vars
  <1>36. ASSUME NEW u \in Users, KubectlFails(u) PROVE CareInv'
    <2>1. /\ Acts(u) /\ (At(u, "alias") \/ At(u, "unset"))
          /\ cut \subseteq cut' /\ UNCHANGED <<conf, nodes, moved, leaked>>
      BY <1>36 DEF KubectlFails, Spoil, Acts
    <2> QED
      BY <1>8, <1>9, <2>1
  <1> QED
    BY <1>10, <1>11, <1>12, <1>13, <1>14, <1>15, <1>16, <1>17, <1>18, <1>19, <1>20,
       <1>21, <1>22, <1>23, <1>24, <1>25, <1>27, <1>28, <1>29, <1>30, <1>31, <1>32,
       <1>34, <1>35, <1>36 DEF Next, Step

LEMMA AlwaysCare == Spec => [](TypeInv /\ Apart /\ CareInv)
  BY TypeInit, TypeStep, ApartInit, ApartStep, CareInit, CareStep, PTL DEF Spec

\* Stop of the kind runtime fails for a manifest that is not there, so that the
\* controller manager is stopped while load creates objects, for every number of
\* loads that overlap.
THEOREM StoppedWhileLoading == Spec => []ControllerStopped
  <1>1. TypeInv /\ CareInv => ControllerStopped
    BY Whereabouts DEF TypeInv, CareInv, StopInv, PastStop, ControllerStopped
  <1> QED
    BY AlwaysCare, <1>1, PTL

\* The deferred Start of load moves the manifest back, unless load is cut short.
THEOREM StartedAfterLoading == Spec => []ControllerBack
  <1>1. ASSUME TypeInv, CareInv, NEW c \in moved \ cut
        PROVE  \E u \in Busy : Self(u) = c /\ (At(u, "load") \/ At(u, "start"))
    <2>1. PICK u \in Users : job[u].op = "load" /\ Left(u) <= 2 /\ Self(u) = c
      BY <1>1 DEF CareInv, BackInv, PastStop
    <2>2. job[u] # Idle
      BY <2>1 DEF Idle
    <2>3. Place("load", Head(job[u].todo), Left(u))
      BY <1>1, <2>1, <2>2, AtPlace DEF TypeInv
    <2> QED
      BY <2>1, <2>2, <2>3 DEF Place, LoadPlace, Busy, At
  <1>2. TypeInv /\ CareInv => ControllerBack
    BY <1>1 DEF ControllerBack
  <1> QED
    BY AlwaysCare, <1>2, PTL

\* Delete removes the work directory after the containers: what is left without
\* one, kind could not delete, or a create made under the delete.
THEOREM DirectoryOutlivesNodes == Spec => []NothingOrphaned
  <1>1. CareInv => NothingOrphaned
    BY DEF CareInv
  <1> QED
    BY AlwaysCare, <1>1, PTL

-----------------------------------------------------------------------------
(* Create *)

\* A create between the containers and its end, and a command that is taking a
\* cluster down.
Raising(u) == job[u].op = "create" /\ Left(u) <= D + 7
Lowering(u) == At(u, "forget") \/ At(u, "delete")

\* What is there of a cluster when create has l calls left, and in the end.
Applied(c, l) ==
  \A i \in DOMAIN Manifests : l < D + 4 - 2 * i => <<Manifests[i], c>> \in deployed[c]

Progress(c, l) ==
  /\ c \in nodes /\ Applied(c, l)
  /\ l <= D + 6 => c \in contexts /\ current = c
  /\ l <= D + 5 => kubeconfig[c] = c
  /\ l <= 2 => c \in alias

Built(c) ==
  /\ c \in alias \cap contexts /\ kubeconfig[c] = c
  /\ \A m \in Kinds : <<m, c>> \in deployed[c]

RaiseInv ==
  \A u \in Users : Raising(u) /\ Self(u) \notin clash \cup cut => Progress(Self(u), Left(u))

\* Containers that run are those of a cluster that is whole, or they are on their
\* way up or down, if no command was cut short on them.
NodesInv ==
  \A c \in nodes \ (clash \cup cut) :
    \/ Built(c)
    \/ \E u \in Users : Self(u) = c /\ (Raising(u) \/ Lowering(u))

RestInv ==
  \A c \in Clusters \ clash : result[c] = "ready" =>
    c \in nodes /\ \A u \in Users : job[u] # Idle => Self(u) # c

ReadyInv == leaked \subseteq cut /\ (~raced => RaiseInv /\ NodesInv /\ RestInv)

\* The invariants on which these rest.
Base == TypeInv /\ Apart /\ HomeInv /\ CareInv

LEMMA ReadyInit == Init => ReadyInv
  <1>1. ASSUME Init, NEW u \in Users PROVE ~Raising(u)
    BY <1>1 DEF Init, Raising, Idle
  <1> QED
    BY <1>1 DEF Init, ReadyInv, RaiseInv, NodesInv, RestInv

\* A command that works on a cluster, but neither raises nor lowers it, works on
\* a whole one, or on none.
LEMMA OwnBuilt ==
  ASSUME JobInv, Apart, NodesInv, NEW u \in Users, job[u] # Idle,
         ~Raising(u), ~Lowering(u), Self(u) \in nodes \ (clash \cup cut)
  PROVE  Built(Self(u))
  <1> SUFFICES ASSUME NEW v \in Users, Self(v) = Self(u), Raising(v) \/ Lowering(v)
               PROVE  FALSE
    BY DEF NodesInv
  <1>1. v # u
    OBVIOUS
  <1>2. job[v] # Idle /\ job[v].op # "load"
    <2>1. CASE Raising(v)
      BY <2>1 DEF Raising, Idle
    <2>2. CASE Lowering(v)
      BY <2>2, Whereabouts DEF Lowering, At
    <2> QED
      BY <2>1, <2>2
  <1> QED
    BY <1>1, <1>2 DEF Apart

LEMMA ActsKeepRaced ==
  ASSUME NEW u \in Users, Acts(u)
  PROVE  UNCHANGED raced
  BY DEF Acts, Step, WriteConfig, Pull, KindNodes, KindContext, Dump, Wait, Cordon,
     LoadImage, Apply, Alias, GetNode, Unset, KindForget, KindDelete, Uninstall, Stop,
     LoadObjects, Start, Interrupt, Tear, DeleteFails, KubectlFails, Require, Continue, Return,
     history

\* What a command leaves of the other clusters.
Spares(u, c) ==
  /\ c \in nodes' <=> c \in nodes
  /\ c \in contexts' <=> c \in contexts
  /\ c \in alias' <=> c \in alias
  /\ c \in cut' <=> c \in cut
  /\ result'[c] = result[c]
  /\ deployed[c] \subseteq deployed'[c]
  /\ kubeconfig'[c] = kubeconfig[c] \/ kubeconfig[c] = Self(u)
  /\ current' = current \/ current = Self(u) \/ At(u, "context")

LEMMA Elsewhere ==
  ASSUME TypeInv, NEW u \in Users, Acts(u), NEW c \in Clusters, c # Self(u)
  PROVE  Spares(u, c)
  <1>1. TypeOK /\ JobInv
    BY DEF TypeInv
  <1> USE DEF Spares, Require, Continue, Return, Give, Untouched, files, kind, history
  <1>2. CASE WriteConfig(u)
    BY <1>1, <1>2 DEF WriteConfig, TypeOK
  <1>3. CASE Pull(u) \/ Wait(u) \/ Cordon(u) \/ LoadImage(u) \/ LoadObjects(u)
    BY <1>1, <1>3 DEF Pull, Wait, Cordon, LoadImage, LoadObjects, TypeOK
  <1>4. CASE KindNodes(u)
    BY <1>1, <1>4 DEF KindNodes, TypeOK
  <1>5. CASE KindContext(u)
    BY <1>1, <1>5 DEF KindContext, TypeOK
  <1>6. CASE Dump(u)
    BY <1>1, <1>6 DEF Dump, TypeOK
  <1>7. CASE Apply(u)
    <2>1. deployed[c] \subseteq deployed'[c]
      BY <1>1, <1>7 DEF Apply, TypeOK
    <2> QED
      BY <1>1, <1>7, <2>1 DEF Apply, TypeOK
  <1>8. CASE Alias(u)
    BY <1>1, <1>8 DEF Alias, TypeOK
  <1>9. CASE GetNode(u)
    BY <1>1, <1>9 DEF GetNode, TypeOK
  <1>10. CASE Unset(u)
    BY <1>1, <1>10 DEF Unset, TypeOK
  <1>11. CASE KindForget(u)
    BY <1>1, <1>11 DEF KindForget, TypeOK
  <1>12. CASE KindDelete(u)
    BY <1>1, <1>12 DEF KindDelete, TypeOK
  <1>13. CASE Uninstall(u)
    BY <1>1, <1>13 DEF Uninstall, TypeOK
  <1>14. CASE Stop(u) \/ Start(u)
    BY <1>1, <1>14 DEF Stop, Start, TypeOK
  <1>15. CASE Interrupt(u)
    BY <1>1, <1>15 DEF Interrupt, Spoil, TypeOK
  <1>16. CASE Tear(u)
    BY <1>1, <1>16 DEF Tear, Cut, Spoil, TypeOK
  <1>17. CASE DeleteFails(u)
    BY <1>1, <1>17 DEF DeleteFails, Spoil, TypeOK
  <1>18. CASE KubectlFails(u)
    BY <1>1, <1>18 DEF KubectlFails, Spoil, TypeOK
  <1> QED
    BY <1>2, <1>3, <1>4, <1>5, <1>6, <1>7, <1>8, <1>9, <1>10, <1>11, <1>12, <1>13,
       <1>14, <1>15, <1>16, <1>17, <1>18 DEF Acts, Step

\* What a step must do to the cluster c of its own command.
OwnNodes(u, c) ==
  c \in nodes' \ (clash \cup cut') => Built(c)' \/ Raising(u)' \/ Lowering(u)'
OwnRaise(u, c) == Raising(u)' /\ c \notin clash \cup cut' => Progress(c, Left(u))'
OwnRest(u, c) ==
  result'[c] = "ready" /\ c \notin clash =>
    c \in nodes' /\ job[u].op = "create" /\ job'[u] = Idle
Own(u, c) == OwnNodes(u, c) /\ OwnRaise(u, c) /\ OwnRest(u, c)

\* Then it does what it must to all of them.
LEMMA OwnOnly ==
  ASSUME Base, ReadyInv, NEW u \in Users, Acts(u), ~raced, NEW d \in Clusters, d = Self(u),
         Own(u, d)
  PROVE  RaiseInv' /\ NodesInv' /\ RestInv'
  <1>1. TypeInv /\ TypeOK /\ JobInv /\ Apart /\ OneCreate /\ StaysHome
    BY DEF Base, TypeInv, HomeInv
  <1>2. RaiseInv /\ NodesInv /\ RestInv /\ UNCHANGED clash
    BY ActsKeepClash DEF ReadyInv
  <1>3. Moves(u) /\ job[u] # Idle
    BY <1>1, ActsMove DEF Moves
  <1>4. ASSUME NEW v \in Users \ {u} PROVE job'[v] = job[v] /\ Left(v)' = Left(v)
    BY <1>1, <1>3, <1>4, MovesOn
  <1>5. ASSUME NEW v \in Users, job'[v] # Idle
        PROVE  job[v] # Idle /\ job'[v].op = job[v].op /\ job'[v].on = job[v].on
    BY <1>1, <1>5, Keeps
  <1>6. ASSUME NEW c \in Clusters, c # d PROVE Spares(u, c)
    BY <1>1, <1>6, Elsewhere
  <1>7. ASSUME NEW c \in Clusters, c # d, kubeconfig[c] = c PROVE kubeconfig'[c] = c
    BY <1>6, <1>7 DEF Spares
  <1>8. RaiseInv'
    <2> SUFFICES ASSUME NEW v \in Users, Raising(v)', job'[v].on \notin clash \cup cut'
                 PROVE  Progress(Self(v), Left(v))'
      BY <1>2 DEF RaiseInv, Self
    <2>1. job'[v] # Idle /\ job'[v].op = "create"
      BY DEF Raising, Idle
    <2>2. job[v].op = "create" /\ job'[v].on = job[v].on /\ job[v] # Idle
      BY <1>5, <2>1
    <2>3. job[v].on \in Clusters
      BY <1>1, <2>2, OnCluster DEF Self
    <2> DEFINE c == job[v].on
    <2>4. CASE v = u
      BY <2>2, <2>4 DEF Own, OwnRaise, Self, Progress, Applied
    <2>5. CASE v # u
      <3>1. job'[v] = job[v] /\ Left(v)' = Left(v) /\ Raising(v)
        BY <1>4, <2>5 DEF Raising
      <3>2. c # d
        BY <1>1, <1>2, <1>3, <2>2, <2>5 DEF Apart, Self, OneCreate
      <3>3. Spares(u, c)
        BY <1>6, <2>3, <3>2
      <3>4. Progress(c, Left(v))
        BY <1>2, <2>2, <3>1, <3>3 DEF RaiseInv, Spares, Self
      <3>5. ~At(u, "context")
        BY <1>1, <2>2, <2>5, Whereabouts DEF OneCreate
      <3>6. Left(v) <= D + 6 => current' = c
        BY <3>2, <3>3, <3>4, <3>5 DEF Spares, Progress
      <3>7. Left(v) <= D + 5 => kubeconfig'[c] = c
        BY <1>7, <2>3, <3>2, <3>4 DEF Progress
      <3>8. \A i \in DOMAIN Manifests :
              Left(v)' < D + 4 - 2 * i => <<Manifests[i], job'[v].on>> \in deployed'[job'[v].on]
        BY <2>2, <3>1, <3>3, <3>4 DEF Progress, Applied, Spares
      <3> HIDE DEF D
      <3> QED
        BY <2>2, <3>1, <3>3, <3>4, <3>6, <3>7, <3>8 DEF Progress, Applied, Spares, Self
    <2> QED
      BY <2>4, <2>5
  <1>9. NodesInv'
    <2> SUFFICES ASSUME NEW c \in nodes' \ (clash \cup cut')
                 PROVE  \/ Built(c)'
                        \/ \E v \in Users : job'[v].on = c /\ (Raising(v)' \/ Lowering(v)')
      BY <1>2 DEF NodesInv, Self
    <2>1. CASE c = d
      <3>1. Raising(u)' \/ Lowering(u)' => job'[u] # Idle
        BY DEF Raising, Lowering, At, Idle
      <3>2. job'[u] # Idle => job'[u].on = d
        BY <1>5 DEF Self
      <3>3. Built(d)' \/ Raising(u)' \/ Lowering(u)'
        BY <2>1 DEF Own, OwnNodes
      <3> QED
        BY <2>1, <3>1, <3>2, <3>3
    <2>2. CASE c # d
      <3>1. c \in Clusters
        BY <1>1, TypeStep DEF Acts, Next, TypeInv, TypeOK
      <3>2. Spares(u, c)
        BY <1>6, <2>2, <3>1
      <3>3. CASE Built(c)
        BY <1>7, <2>2, <3>1, <3>2, <3>3 DEF Built, Spares
      <3>4. ASSUME NEW v \in Users, Self(v) = c, Raising(v) \/ Lowering(v)
            PROVE  job'[v].on = c /\ (Raising(v)' \/ Lowering(v)')
        <4>1. v # u
          BY <2>2, <3>4
        <4> QED
          BY <1>4, <3>4, <4>1 DEF Raising, Lowering, At, Self
      <3> QED
        BY <1>2, <3>2, <3>3, <3>4 DEF NodesInv, Spares
    <2> QED
      BY <2>1, <2>2
  <1>10. RestInv'
    <2> SUFFICES ASSUME NEW c \in Clusters \ clash, result'[c] = "ready"
                 PROVE  c \in nodes' /\ \A v \in Users : job'[v] # Idle => job'[v].on # c
      BY <1>2 DEF RestInv, Self
    <2>1. CASE c = d
      <3>1. c \in nodes' /\ job[u].op = "create" /\ job'[u] = Idle
        BY <2>1 DEF Own, OwnRest
      <3>2. ASSUME NEW v \in Users, job'[v] # Idle, job'[v].on = c PROVE FALSE
        BY <1>1, <1>3, <1>5, <2>1, <3>1, <3>2 DEF Apart, Self
      <3> QED
        BY <3>1, <3>2
    <2>2. CASE c # d
      BY <1>2, <1>5, <1>6, <2>2 DEF Spares, RestInv, Self
    <2> QED
      BY <2>1, <2>2
  <1> QED
    BY <1>8, <1>9, <1>10
\* The call with an image comes before the call that applies the manifest.
LEMMA Images ==
  ASSUME JobInv, NEW u \in Users, At(u, "image")
  PROVE  \E k \in 1..D : k % 2 = 1 /\ Left(u) = D + 4 - k
  <1> DEFINE k == D + 4 - Left(u)
  <1>1. Left(u) \in 4..(D + 3) /\ Head(job[u].todo) = Deploy[k] /\ Head(job[u].todo)[1] = "image"
    BY Whereabouts DEF At
  <1>2. D \in Nat
    BY DeployType
  <1>3. k \in 1..D /\ Left(u) = D + 4 - k
    BY <1>1, <1>2
  <1> HIDE DEF k
  <1>4. Deploy[k] = <<IF k % 2 = 1 THEN "image" ELSE "apply", Manifests[(k + 1) \div 2]>>
    BY <1>3, DeployType
  <1>5. k % 2 = 1
    BY <1>1, <1>4
  <1> QED
    BY <1>3, <1>5

\* A call that does not apply a manifest has none due.
LEMMA NoneDue ==
  ASSUME NEW c, NEW l \in Nat, Applied(c, l), deployed[c] \subseteq deployed'[c],
         l \notin 4..(D + 3) \/ \E k \in 1..D : k % 2 = 1 /\ l = D + 4 - k
  PROVE  Applied(c, l - 1)'
  <1>1. /\ Len(Manifests) \in Nat /\ D = 2 * Len(Manifests)
        /\ DOMAIN Manifests = 1..Len(Manifests)
    BY DeployType, ManifestList, LenProperties
  <1> SUFFICES ASSUME NEW i \in 1..Len(Manifests), l - 1 < D + 4 - 2 * i
               PROVE  <<Manifests[i], c>> \in deployed'[c]
    BY <1>1 DEF Applied
  <1> HIDE DEF D
  <1>2. l < D + 4 - 2 * i
    <2>1. CASE l \notin 4..(D + 3)
      BY <1>1, <2>1
    <2>2. ASSUME NEW k \in 1..D, k % 2 = 1, l = D + 4 - k PROVE l < D + 4 - 2 * i
      <3>1. 2 * i < k + 1
        BY <1>1, <2>2
      <3>2. k # 2 * i
        BY <1>1, <2>2
      <3> QED
        BY <1>1, <2>2, <3>1, <3>2
    <2> QED
      BY <2>1, <2>2
  <1> QED
    BY <1>1, <1>2 DEF Applied
\* After the context of fake-k8s goes kind's, and then the containers.
LEMMA Follows ==
  ASSUME JobInv, NEW u \in Users, NEW v \in {"unset", "forget"}, At(u, v), Acts(u), job'[u] # Idle
  PROVE  job'[u].todo # <<>> /\ Head(job'[u].todo)[1] = After(v)
  <1> DEFINE s == job[u].todo
  <1>1. job[u] # Idle /\ Head(s)[1] = v
    BY DEF At
  <1>2. s \in Seq(Calls) /\ Len(s) > 0 /\ InOrder(s)
    BY <1>1 DEF JobInv, Course
  <1>3. GoesOn(u) /\ job'[u].todo = Tail(s)
    BY ActsMove, MovesOn
  <1>4. Len(s) > 1
    BY <1>3 DEF GoesOn, Left
  <1> HIDE DEF s
  <1>5. Len(s) \in Nat /\ Head(s) = s[1]
    BY <1>2, LenProperties, HeadTailProperties
  <1>6. s[2][1] = After(v)
    <2>1. 1 \in 1..Len(s) /\ 1 + 1 = 2
      BY <1>4, <1>5
    <2> QED
      BY <1>1, <1>2, <1>5, <2>1 DEF InOrder
  <1>7. Tail(s) # <<>> /\ Head(Tail(s)) = s[2]
    <2> DEFINE t == Tail(s)
    <2>1. t \in Seq(Calls) /\ Len(t) = Len(s) - 1 /\ \A i \in 1..Len(t) : t[i] = s[i + 1]
      BY <1>2, <1>4, HeadTailProperties
    <2> HIDE DEF t
    <2>2. Len(t) \in Nat \ {0}
      BY <1>4, <1>5, <2>1
    <2>3. 1 \in 1..Len(t) /\ t # <<>>
      BY <2>1, <2>2, EmptySeq
    <2>4. Head(t) = t[1]
      BY <2>1, <2>3, HeadTailProperties
    <2>5. t[1] = s[1 + 1]
      BY <2>1, <2>3
    <2> QED
      BY <2>3, <2>4, <2>5 DEF t
  <1> QED
    BY <1>3, <1>6, <1>7

\* Every step of a command does so.
LEMMA ActsOwn ==
  ASSUME Base, ReadyInv, NEW u \in Users, Acts(u), ~raced,
         NEW d \in Clusters, d = Self(u), NEW l \in Nat, l = Left(u)
  PROVE  Own(u, d)
  <1>1. TypeInv /\ TypeOK /\ JobInv /\ Apart /\ OneCreate /\ OwnContext /\ StaysHome
        /\ DownInv /\ NothingOrphaned
    BY DEF Base, TypeInv, HomeInv, CareInv
  <1>2. RaiseInv /\ NodesInv /\ RestInv /\ leaked \subseteq cut /\ UNCHANGED clash
    BY ActsKeepClash DEF ReadyInv
  <1>3. /\ Moves(u) /\ job[u] # Idle /\ job[u] \in Jobs
        /\ job[u].op \in {"create", "delete", "load"}
    BY <1>1, ActsMove, AtPlace, OnCluster DEF Moves
  <1>4. D \in Nat
    BY DeployType
  <1>5. ASSUME job'[u] # Idle
        PROVE  job'[u].op = job[u].op /\ Left(u)' = l - 1 /\ job'[u].todo = Tail(job[u].todo)
    BY <1>1, <1>3, <1>5, MovesOn, Keeps
  <1> HIDE DEF D
  <1>6. job'[u] = Idle => ~Raising(u)' /\ ~Lowering(u)'
    BY DEF Raising, Lowering, At, Idle
  <1>7. result'[d] \in {result[d], "failed", "deleted", "loaded"} => OwnRest(u, d)
    BY <1>2, <1>3 DEF RestInv, OwnRest
  <1>8. d \notin clash \cup cut /\ d \in nodes => conf[d] # None
    BY <1>1, <1>2 DEF NothingOrphaned
  \* A step that leaves alone what is there,
  <1>9. ASSUME ~Raising(u), ~Lowering(u), ~Raising(u)',
               UNCHANGED <<nodes, contexts, alias, kubeconfig, deployed, cut>>
        PROVE  OwnNodes(u, d) /\ OwnRaise(u, d)
    BY <1>1, <1>2, <1>3, <1>9, OwnBuilt DEF OwnNodes, OwnRaise, Built
  \* one that ends the command too soon,
  <1>10. ASSUME job'[u] = Idle, UNCHANGED nodes, cut' = cut \cup ({d} \cap nodes)
         PROVE  OwnNodes(u, d) /\ OwnRaise(u, d)
    BY <1>1, <1>6, <1>10 DEF OwnNodes, OwnRaise, TypeOK
  \* and one that raises the cluster.
  <1>11. ASSUME Raising(u), UNCHANGED cut,
                d \notin clash \cup cut /\ Progress(d, l) => job'[u] # Idle /\ Progress(d, l - 1)'
         PROVE  OwnNodes(u, d) /\ OwnRaise(u, d)
    <2>1. ASSUME d \notin clash \cup cut
          PROVE  Raising(u)' /\ Progress(d, l - 1)' /\ Left(u)' = l - 1
      <3>1. Progress(d, l)
        BY <1>2, <1>11, <2>1 DEF RaiseInv
      <3>2. job'[u] # Idle /\ Progress(d, l - 1)'
        BY <1>11, <2>1, <3>1
      <3>3. Left(u)' = l - 1 /\ Left(u)' <= D + 7 /\ job'[u].op = "create"
        BY <1>3, <1>4, <1>5, <1>11, <3>2 DEF Raising
      <3> QED
        BY <3>2, <3>3 DEF Raising
    <2>2. OwnNodes(u, d)
      BY <1>2, <1>11, <2>1 DEF OwnNodes
    <2>3. OwnRaise(u, d)
      BY <1>2, <1>11, <2>1 DEF OwnRaise, Progress, Applied
    <2> QED
      BY <2>2, <2>3
  <1>12. ASSUME job' = [job EXCEPT ![u].todo = Tail(@)] PROVE job'[u] # Idle
    BY <1>1, <1>3, <1>12 DEF JobInv, Idle, Jobs
  <1>13. ASSUME l \notin 4..(D + 3) \/ \E k \in 1..D : k % 2 = 1 /\ l = D + 4 - k,
                Applied(d, l), UNCHANGED deployed
         PROVE  Applied(d, l - 1)'
    BY <1>3, <1>13, NoneDue
  <1>14. ASSUME At(u, "config") \/ At(u, "pull") PROVE ~Raising(u) /\ ~Lowering(u) /\ ~Raising(u)'
    <2>1. job[u].op = "create" /\ l \in {D + 9, D + 10, D + 12, D + 13}
      BY <1>1, <1>14, Whereabouts
    <2>2. ~Raising(u) /\ ~Lowering(u)
      BY <1>4, <1>14, <2>1 DEF Raising, Lowering, At
    <2>3. ~Raising(u)'
      <3>1. CASE job'[u] # Idle
        BY <1>4, <1>5, <2>1, <3>1 DEF Raising
      <3> QED
        BY <1>6, <3>1
    <2> QED
      BY <2>2, <2>3
  <1>15. ASSUME job[u].op # "create" PROVE ~Raising(u) /\ ~Raising(u)'
    BY <1>5, <1>6, <1>15 DEF Raising
  <1>16. ASSUME NEW r, result' = [result EXCEPT ![d] = r], r \in {"failed", "deleted", "loaded"}
         PROVE  OwnRest(u, d)
    BY <1>1, <1>7, <1>16 DEF TypeOK
  <1>17. ASSUME NEW ok, Require(u, ok)
         PROVE  OwnRest(u, d) /\ UNCHANGED cut /\ (ok => job'[u] # Idle) /\ (~ok => job'[u] = Idle)
    <2>1. CASE ok
      BY <1>7, <1>12, <1>17, <2>1 DEF Require, Continue, history
    <2>2. CASE ~ok
      BY <1>1, <1>16, <1>17, <2>2 DEF Require, Return, Give, history, JobInv
    <2> QED
      BY <2>1, <2>2
  <1>18. ASSUME Continue(u) PROVE OwnRest(u, d) /\ UNCHANGED cut /\ job'[u] # Idle
    BY <1>7, <1>12, <1>18 DEF Continue, history
  <1> USE DEF Own, files, kind, Untouched
  <1>19. CASE WriteConfig(u) \/ Pull(u)
    BY <1>9, <1>14, <1>18, <1>19 DEF WriteConfig, Pull
  <1>20. CASE Interrupt(u) \/ Tear(u)
    <2>1. job'[u] = Idle
      BY <1>1, <1>20 DEF Interrupt, Tear, Cut, Spoil, Give, JobInv
    <2> QED
      BY <1>10, <1>16, <1>20, <2>1 DEF Interrupt, Tear, Cut, Spoil, Give
  <1>21. CASE KindNodes(u)
    <2>1. /\ job[u].op = "create" /\ l = D + 8 /\ At(u, "nodes")
          /\ UNCHANGED <<contexts, alias, kubeconfig, deployed>>
      BY <1>1, <1>21, Whereabouts DEF KindNodes
    <2>2. ~Raising(u) /\ ~Lowering(u)
      BY <1>4, <2>1 DEF Raising, Lowering, At
    <2>3. OwnRest(u, d) /\ UNCHANGED cut
      BY <1>17, <1>21 DEF KindNodes
    <2>4. CASE HasDirectory(u) /\ d \notin nodes
      <3>1. nodes' = nodes \cup {d} /\ job'[u] # Idle
        BY <1>17, <1>21, <2>4 DEF KindNodes
      <3>2. Left(u)' = D + 7 /\ Raising(u)'
        BY <1>4, <1>5, <2>1, <3>1 DEF Raising
      <3>3. Applied(d, D + 7)'
        <4>1. \A i \in DOMAIN Manifests : ~(D + 7 < D + 4 - 2 * i)
          BY <1>4, ManifestList, LenProperties
        <4> QED
          BY <4>1 DEF Applied
      <3>4. ~(D + 7 <= D + 6) /\ ~(D + 7 <= D + 5) /\ ~(D + 7 <= 2)
        BY <1>4
      <3>5. OwnRaise(u, d)
        BY <3>1, <3>2, <3>3, <3>4 DEF OwnRaise, Progress, Applied
      <3> QED
        BY <2>3, <3>2, <3>5 DEF OwnNodes
    <2>5. CASE ~(HasDirectory(u) /\ d \notin nodes)
      <3>1. job'[u] = Idle
        BY <1>17, <1>21, <2>5 DEF KindNodes
      <3>2. UNCHANGED nodes
        BY <1>1, <1>21, <2>5 DEF KindNodes
      <3>3. OwnNodes(u, d) /\ OwnRaise(u, d)
        BY <1>6, <1>9, <2>1, <2>2, <2>3, <3>1, <3>2
      <3> QED
        BY <2>3, <3>3
    <2> QED
      BY <2>4, <2>5
  <1>22. CASE KindContext(u)
    <2>1. job[u].op = "create" /\ l = D + 7 /\ UNCHANGED <<nodes, alias, kubeconfig, deployed>>
      BY <1>1, <1>22, Whereabouts DEF KindContext
    <2>2. Raising(u) /\ l \notin 4..(D + 3) /\ l - 1 = D + 6
      BY <1>4, <2>1 DEF Raising
    <2>3. ASSUME Progress(d, l) PROVE job'[u] # Idle /\ Progress(d, l - 1)'
      <3>1. d \in nodes /\ Applied(d, l - 1)'
        BY <1>13, <2>1, <2>2, <2>3 DEF Progress
      <3>2. d \in contexts' /\ current' = d /\ job'[u] # Idle
        BY <1>17, <1>22, <3>1 DEF KindContext
      <3>3. ~(l - 1 <= D + 5) /\ ~(l - 1 <= 2)
        BY <1>4, <2>2
      <3> QED
        BY <2>1, <3>1, <3>2, <3>3 DEF Progress
    <2>4. OwnRest(u, d) /\ UNCHANGED cut
      BY <1>17, <1>22 DEF KindContext
    <2> QED
      BY <1>11, <2>2, <2>3, <2>4
  <1>23. CASE Dump(u)
    <2>1. job[u].op = "create" /\ l = D + 6
          /\ UNCHANGED <<nodes, contexts, current, alias, deployed>>
      BY <1>1, <1>23, Whereabouts DEF Dump
    <2>2. Raising(u) /\ l \notin 4..(D + 3) /\ l - 1 = D + 5
      BY <1>4, <2>1 DEF Raising
    <2>3. ASSUME d \notin clash \cup cut, Progress(d, l)
          PROVE  job'[u] # Idle /\ Progress(d, l - 1)'
      <3>1. d \in nodes /\ d \in contexts /\ current = d /\ Applied(d, l - 1)'
        BY <1>4, <1>13, <2>1, <2>2, <2>3 DEF Progress
      <3>2. CanDump(u) /\ Leads = d
        BY <1>8, <2>3, <3>1, Names DEF CanDump, HasDirectory, Leads, Running
      <3>3. kubeconfig'[d] = d /\ job'[u] # Idle
        BY <1>1, <1>17, <1>23, <3>2 DEF Dump, TypeOK
      <3>4. ~(l - 1 <= 2)
        BY <1>4, <2>2
      <3> QED
        BY <2>1, <3>1, <3>3, <3>4 DEF Progress
    <2>4. OwnRest(u, d) /\ UNCHANGED cut
      BY <1>17, <1>23 DEF Dump
    <2> QED
      BY <1>11, <2>2, <2>3, <2>4
  \* A call that finds what it needs and leaves all as it is.
  <1>24. ASSUME Raising(u), l # D + 7, l # D + 6, l # 3,
                l \notin 4..(D + 3) \/ \E k \in 1..D : k % 2 = 1 /\ l = D + 4 - k,
                UNCHANGED <<nodes, contexts, current, alias, kubeconfig, deployed>>,
                NEW ok, Require(u, ok), Progress(d, l) => ok
         PROVE  Own(u, d)
    <2>1. ASSUME Progress(d, l) PROVE job'[u] # Idle /\ Progress(d, l - 1)'
      <3>1. Applied(d, l - 1)'
        BY <1>13, <1>24, <2>1 DEF Progress
      <3>2. /\ l - 1 <= D + 6 => l <= D + 6
            /\ l - 1 <= D + 5 => l <= D + 5
            /\ l - 1 <= 2 => l <= 2
        BY <1>4, <1>24
      <3>3. job'[u] # Idle
        BY <1>17, <1>24, <2>1
      <3> QED
        BY <1>24, <2>1, <3>1, <3>2, <3>3 DEF Progress
    <2>2. OwnRest(u, d) /\ UNCHANGED cut
      BY <1>17, <1>24
    <2> QED
      BY <1>11, <1>24, <2>1, <2>2
  <1>25. CASE Wait(u)
    <2>1. /\ job[u].op = "create" /\ l \in {D + 5, 2}
          /\ UNCHANGED <<nodes, contexts, current, alias, kubeconfig, deployed>>
      BY <1>1, <1>25, Whereabouts DEF Wait
    <2>2. Raising(u) /\ l # D + 7 /\ l # D + 6 /\ l # 3 /\ l \notin 4..(D + 3) /\ l <= D + 5
      BY <1>4, <2>1 DEF Raising
    <2>3. Progress(d, l) => Reachable(d)
      BY <2>2 DEF Progress, Reachable, Running
    <2> QED
      BY <1>24, <1>25, <2>1, <2>2, <2>3 DEF Wait
  <1>26. CASE Cordon(u)
    <2>1. /\ job[u].op = "create" /\ l = D + 4
          /\ UNCHANGED <<nodes, contexts, current, alias, kubeconfig, deployed>>
      BY <1>1, <1>26, Whereabouts DEF Cordon
    <2>2. Raising(u) /\ l # D + 7 /\ l # D + 6 /\ l # 3 /\ l \notin 4..(D + 3) /\ l <= D + 6
      BY <1>4, <2>1 DEF Raising
    <2>3. Progress(d, l) => current = d /\ current \in nodes
      BY <2>2 DEF Progress
    <2>4. Require(u, current = d /\ current \in nodes)
      BY <1>26 DEF Cordon
    <2> QED
      BY <1>24, <2>1, <2>2, <2>3, <2>4
  <1>27. CASE LoadImage(u)
    <2>1. /\ job[u].op = "create" /\ l \in 4..(D + 3)
          /\ UNCHANGED <<nodes, contexts, current, alias, kubeconfig, deployed>>
      BY <1>1, <1>27, Whereabouts DEF LoadImage
    <2>2. Raising(u) /\ l # D + 7 /\ l # D + 6 /\ l # 3
      BY <1>4, <2>1 DEF Raising
    <2>3. \E k \in 1..D : k % 2 = 1 /\ l = D + 4 - k
      BY <1>1, <1>27, Images DEF LoadImage
    <2>4. Require(u, d \in nodes) /\ (Progress(d, l) => d \in nodes)
      BY <1>27 DEF LoadImage, Progress
    <2> QED
      BY <1>24, <2>1, <2>2, <2>3, <2>4
  <1>28. CASE Apply(u)
    <2>1. /\ job[u].op = "create" /\ l \in 4..(D + 3)
          /\ UNCHANGED <<nodes, contexts, current, alias, kubeconfig>>
      BY <1>1, <1>28, Whereabouts DEF Apply
    <2>2. /\ Raising(u) /\ l <= D + 6 /\ l <= D + 5
          /\ l - 1 <= 2 => l = 3
      BY <1>4, <2>1 DEF Raising
    <2>3. PICK i \in DOMAIN Manifests : l = D + 4 - 2 * i /\ Head(job[u].todo)[2] = Manifests[i]
      BY <1>1, <1>28, Applies DEF Apply
    <2>4. ASSUME d \notin clash \cup cut, Progress(d, l)
          PROVE  job'[u] # Idle /\ Progress(d, l - 1)'
      <3>1. d \in nodes /\ d \in contexts /\ current = d /\ kubeconfig[d] = d
        BY <2>2, <2>4 DEF Progress
      <3>2. CanApply(u)
        BY <1>8, <2>4, <3>1 DEF CanApply, HasDirectory, Running
      <3>3. deployed'[d] = deployed[d] \cup {<<Manifests[i], d>>} /\ job'[u] # Idle
        BY <1>1, <1>17, <1>28, <2>3, <3>1, <3>2 DEF Apply, TypeOK
      <3>4. Applied(d, l - 1)'
        <4> SUFFICES ASSUME NEW j \in DOMAIN Manifests, l - 1 < D + 4 - 2 * j
                     PROVE  <<Manifests[j], d>> \in deployed'[d]
          BY DEF Applied
        <4>1. i \in Nat /\ j \in Nat
          BY ManifestList, LenProperties
        <4>2. j # i => l < D + 4 - 2 * j
          BY <1>4, <2>3, <4>1
        <4> QED
          BY <2>4, <3>3, <4>2 DEF Progress, Applied
      <3>5. ~(l - 1 <= 2)
        BY <1>4, <2>1, <2>3, ManifestList, LenProperties, DeployType
      <3> QED
        BY <2>1, <3>1, <3>3, <3>4, <3>5 DEF Progress
    <2>5. OwnRest(u, d) /\ UNCHANGED cut
      BY <1>17, <1>28 DEF Apply
    <2> QED
      BY <1>11, <2>2, <2>4, <2>5
  <1>29. CASE Alias(u)
    <2>1. /\ job[u].op = "create" /\ l = 3
          /\ UNCHANGED <<nodes, contexts, current, kubeconfig, deployed>>
      BY <1>1, <1>29, Whereabouts DEF Alias
    <2>2. Raising(u) /\ l \notin 4..(D + 3) /\ l <= D + 6 /\ l <= D + 5
      BY <1>4, <2>1 DEF Raising
    <2>3. ASSUME Progress(d, l) PROVE Progress(d, l - 1)'
      <3>1. Applied(d, l - 1)'
        BY <1>13, <2>1, <2>2, <2>3 DEF Progress
      <3>2. d \in alias'
        BY <1>29 DEF Alias
      <3> QED
        BY <2>1, <2>2, <2>3, <3>1, <3>2 DEF Progress
    <2>4. OwnRest(u, d) /\ UNCHANGED cut /\ job'[u] # Idle
      BY <1>18, <1>29 DEF Alias
    <2> QED
      BY <1>11, <2>2, <2>3, <2>4
  <1>30. CASE GetNode(u)
    <2>1. /\ job[u].op = "create" /\ l = 1 /\ job'[u] = Idle
          /\ UNCHANGED <<nodes, contexts, alias, kubeconfig, deployed, cut>>
      BY <1>1, <1>30, Whereabouts DEF GetNode, Return, Give, JobInv, history
    <2>2. Raising(u) /\ 1 <= D + 6 /\ 1 <= D + 5
      BY <1>4, <2>1 DEF Raising
    <2>3. d \notin clash \cup cut => Built(d)
      <3> SUFFICES ASSUME d \notin clash \cup cut PROVE Built(d)
        OBVIOUS
      <3>1. Progress(d, 1)
        BY <1>2, <2>1, <2>2 DEF RaiseInv
      <3>2. ASSUME NEW i \in DOMAIN Manifests PROVE 1 < D + 4 - 2 * i
        BY <1>4, ManifestList, LenProperties, DeployType
      <3> QED
        BY <2>2, <3>1, <3>2 DEF Progress, Applied, Built, Kinds
    <2>4. OwnNodes(u, d)
      BY <1>2, <2>1, <2>3 DEF OwnNodes, Built
    <2>5. OwnRaise(u, d)
      BY <1>6, <2>1 DEF OwnRaise
    <2>6. OwnRest(u, d)
      <3>1. CASE d \in alias \cap contexts \cap nodes
        BY <2>1, <3>1 DEF OwnRest
      <3>2. CASE d \notin alias \cap contexts \cap nodes
        BY <1>16, <1>30, <3>2 DEF GetNode, Return, Give
      <3> QED
        BY <3>1, <3>2
    <2> QED
      BY <2>4, <2>5, <2>6
  \* A step of Down.
  <1>31. ASSUME At(u, "unset") \/ At(u, "forget") \/ At(u, "delete")
         PROVE  ~Raising(u) /\ ~Raising(u)'
    <2>1. job[u].op = "create" => l \in {D + 9, D + 10, D + 11}
      BY <1>1, <1>31, Whereabouts
    <2>2. ~Raising(u)
      BY <1>4, <2>1 DEF Raising
    <2>3. job'[u] # Idle => ~Raising(u)'
      BY <1>4, <1>5, <2>1 DEF Raising
    <2> QED
      BY <1>6, <2>2, <2>3
  <1>32. CASE Unset(u)
    <2>1. At(u, "unset") /\ ~Raising(u) /\ ~Raising(u)' /\ ~Lowering(u)
      BY <1>31, <1>32 DEF Unset, Lowering, At
    <2>2. OwnRest(u, d) /\ UNCHANGED cut /\ UNCHANGED <<nodes, contexts, kubeconfig, deployed>>
      BY <1>17, <1>32 DEF Unset
    <2>3. CASE CanDown(u)
      <3>1. job'[u] # Idle
        BY <1>17, <1>32, <2>3 DEF Unset
      <3>2. Lowering(u)'
        BY <1>1, <2>1, <3>1, Follows DEF Lowering, At, After
      <3> QED
        BY <2>1, <2>2, <3>2 DEF OwnNodes, OwnRaise
    <2>4. CASE ~CanDown(u)
      BY <1>9, <1>32, <2>1, <2>2, <2>4 DEF Unset
    <2> QED
      BY <2>3, <2>4
  <1>33. CASE KindForget(u)
    <2>1. At(u, "forget") /\ ~Raising(u)'
      BY <1>31, <1>33 DEF KindForget
    <2>2. OwnRest(u, d) /\ UNCHANGED cut /\ job'[u] # Idle
      BY <1>18, <1>33 DEF KindForget
    <2>3. Lowering(u)'
      BY <1>1, <2>1, <2>2, Follows DEF Lowering, At, After
    <2> QED
      BY <2>1, <2>2, <2>3 DEF OwnNodes, OwnRaise
  <1>34. CASE KindDelete(u)
    <2>1. d \notin nodes' /\ ~Raising(u)' /\ UNCHANGED result
      BY <1>31, <1>34 DEF KindDelete
    <2> QED
      BY <1>7, <2>1 DEF OwnNodes, OwnRaise
  <1>35. CASE DeleteFails(u)
    <2>1. /\ ~Raising(u)' /\ UNCHANGED <<nodes, result>> /\ (d \in nodes => d \in cut')
      BY <1>31, <1>35 DEF DeleteFails, Spoil
    <2> QED
      BY <1>7, <2>1 DEF OwnNodes, OwnRaise
  <1>41. CASE KubectlFails(u)
    <2>1. /\ UNCHANGED <<nodes, result>>
          /\ cut \subseteq cut' /\ (d \in nodes => d \in cut')
      BY <1>41 DEF KubectlFails, Spoil
    <2>2. CASE At(u, "unset")
      BY <1>7, <1>31, <2>1, <2>2 DEF OwnNodes, OwnRaise
    <2>3. CASE At(u, "alias")
      <3>1. job[u].op = "create" /\ l = 3
        BY <1>1, <2>3, Whereabouts
      <3>2. Raising(u)
        BY <1>4, <3>1 DEF Raising
      <3>3. d \in clash \cup cut'
        BY <1>2, <2>1, <3>2 DEF RaiseInv, Progress
      <3> QED
        BY <1>7, <2>1, <3>3 DEF OwnNodes, OwnRaise
    <2> QED
      BY <1>41, <2>2, <2>3 DEF KubectlFails
  <1>36. CASE Uninstall(u)
    <2>1. job[u].op = "delete" /\ l = 1 /\ UNCHANGED <<nodes, cut>>
      BY <1>1, <1>36, Whereabouts DEF Uninstall, Return, history
    <2>2. d \in nodes => d \in cut \cup clash
      BY <1>1, <1>2, <2>1 DEF DownInv
    <2>3. OwnRest(u, d)
      BY <1>16, <1>36 DEF Uninstall, Return, Give
    <2> QED
      BY <1>15, <2>1, <2>2, <2>3 DEF OwnNodes, OwnRaise
  \* A step of load.
  <1>37. ASSUME At(u, "stop") \/ At(u, "load") \/ At(u, "start"),
                UNCHANGED <<nodes, contexts, alias, kubeconfig, deployed, cut>>
         PROVE  OwnNodes(u, d) /\ OwnRaise(u, d)
    <2>1. job[u].op = "load" /\ ~Lowering(u)
      BY <1>1, <1>37, Whereabouts DEF Lowering, At
    <2> QED
      BY <1>9, <1>15, <1>37, <2>1
  <1>38. CASE Stop(u)
    BY <1>17, <1>37, <1>38 DEF Stop
  <1>39. CASE LoadObjects(u)
    BY <1>18, <1>37, <1>39 DEF LoadObjects
  <1>40. CASE Start(u)
    BY <1>16, <1>37, <1>40 DEF Start, Return, Give, history
  <1> QED
    BY <1>19, <1>20, <1>21, <1>22, <1>23, <1>25, <1>26, <1>27, <1>28, <1>29, <1>30,
       <1>32, <1>33, <1>34, <1>35, <1>36, <1>38, <1>39, <1>40, <1>41 DEF Acts, Step

LEMMA LeakedCut ==
  ASSUME NEW u \in Users, Acts(u), leaked \subseteq cut
  PROVE  leaked' \subseteq cut'
  BY DEF Acts, Step, WriteConfig, Pull, KindNodes, KindContext, Dump, Wait, Cordon,
     LoadImage, Apply, Alias, GetNode, Unset, KindForget, KindDelete, Uninstall, Stop,
     LoadObjects, Start, Interrupt, Tear, DeleteFails, KubectlFails, Require, Continue, Return,
     Cut, Spoil, history

LEMMA ReadyStep == Base /\ ReadyInv /\ [Next]_vars => ReadyInv'
  <1> SUFFICES ASSUME Base, ReadyInv, [Next]_vars PROVE ReadyInv'
    OBVIOUS
  <1>1. TypeInv /\ TypeOK /\ JobInv /\ leaked \subseteq cut
    BY DEF Base, TypeInv, ReadyInv
  <1>2. ASSUME ~raced PROVE OneCreate /\ StaysHome /\ RaiseInv /\ NodesInv /\ RestInv
    BY <1>2 DEF Base, HomeInv, ReadyInv
  <1>3. D \in Nat
    BY DeployType
  <1>4. ASSUME NEW u \in Users, Acts(u) PROVE ReadyInv'
    <2>1. leaked' \subseteq cut' /\ UNCHANGED raced
      BY <1>1, <1>4, LeakedCut, ActsKeepRaced
    <2>2. ASSUME ~raced PROVE RaiseInv' /\ NodesInv' /\ RestInv'
      <3>1. Self(u) \in Clusters /\ Left(u) \in Nat
        BY <1>1, <1>4, ActsMove, OnCluster, AtPlace DEF Moves
      <3>2. PICK d \in Clusters, l \in Nat : d = Self(u) /\ l = Left(u)
        BY <3>1
      <3>3. Own(u, d)
        BY <1>4, <2>2, <3>2, ActsOwn
      <3> QED
        BY <1>4, <2>2, <3>2, <3>3, OwnOnly
    <2> QED
      BY <2>1, <2>2 DEF ReadyInv
  <1>5. ASSUME NEW c \in Clusters, BeginCreate(c) \/ BeginDelete(c) \/ BeginLoad(c)
        PROVE  ReadyInv'
    <2>1. /\ clash \subseteq clash' /\ (raced => raced')
          /\ UNCHANGED <<files, kind, alias, cut, leaked>>
          /\ result' = [result EXCEPT ![c] = "none"]
      BY <1>1, <1>5, BeginsApart
    <2>2. PICK u \in Users :
            /\ job[u] = Idle /\ job'[u] \in Jobs /\ job'[u].on = c
            /\ \A v \in Users \ {u} : job'[v] = job[v] /\ Left(v)' = Left(v)
            /\ job'[u].op = "create" => Left(u)' \in {D + 10, D + 13}
      BY <1>1, <1>5, BeginsApart
    <2> SUFFICES ASSUME ~raced' PROVE RaiseInv' /\ NodesInv' /\ RestInv'
      BY <1>1, <2>1 DEF ReadyInv
    <2>3. RaiseInv /\ NodesInv /\ RestInv
      BY <1>2, <2>1
    <2> HIDE DEF D
    <2>4. ~Raising(u)'
      BY <1>3, <2>2 DEF Raising
    <2>5. RaiseInv'
      <3> SUFFICES ASSUME NEW v \in Users, Raising(v)', job'[v].on \notin clash' \cup cut'
                   PROVE  Progress(Self(v), Left(v))'
        BY DEF RaiseInv, Self
      <3>1. v # u /\ job'[v] = job[v] /\ Left(v)' = Left(v)
        BY <2>2, <2>4
      <3>2. Progress(job[v].on, Left(v))
        BY <2>1, <2>3, <3>1 DEF RaiseInv, Raising, Self
      <3> QED
        BY <2>1, <3>1, <3>2 DEF Progress, Applied, Self, files, kind
    <2>6. NodesInv'
      <3> SUFFICES ASSUME NEW d \in nodes' \ (clash' \cup cut')
                   PROVE  \/ Built(d)'
                          \/ \E v \in Users : job'[v].on = d /\ (Raising(v)' \/ Lowering(v)')
        BY DEF NodesInv, Self
      <3>1. Built(d) => Built(d)'
        BY <2>1 DEF Built, files, kind
      <3>2. ASSUME NEW v \in Users, Self(v) = d, Raising(v) \/ Lowering(v)
            PROVE  job'[v].on = d /\ (Raising(v)' \/ Lowering(v)')
        <4>1. v # u
          BY <2>2, <3>2 DEF Raising, Lowering, At, Idle
        <4> QED
          BY <2>2, <3>2, <4>1 DEF Raising, Lowering, At, Self
      <3> QED
        BY <2>1, <2>3, <3>1, <3>2 DEF NodesInv, kind
    <2>7. RestInv'
      <3> SUFFICES ASSUME NEW d \in Clusters \ clash', result'[d] = "ready"
                   PROVE  d \in nodes' /\ \A v \in Users : job'[v] # Idle => job'[v].on # d
        BY DEF RestInv, Self
      <3>1. d # c /\ result[d] = "ready"
        BY <1>1, <2>1 DEF TypeOK
      <3> QED
        BY <2>1, <2>2, <2>3, <3>1 DEF RestInv, Self, kind
    <2> QED
      BY <2>5, <2>6, <2>7
  <1>6. ASSUME UNCHANGED <<files, nodes, contexts, current, alias, deployed, job>>,
               UNCHANGED <<cut, leaked, raced>>,
               clash \subseteq clash', ~raced => RestInv'
        PROVE  ReadyInv'
    <2> HIDE DEF D
    <2>1. ASSUME ~raced PROVE RaiseInv'
      BY <1>2, <1>6, <2>1 DEF RaiseInv, Raising, Progress, Applied, Left, Self, files
    <2>2. ASSUME ~raced PROVE NodesInv'
      BY <1>2, <1>6, <2>2 DEF NodesInv, Raising, Lowering, Built, At, Left, Self, files
    <2> QED
      BY <1>1, <1>6, <2>1, <2>2 DEF ReadyInv
  <1>7. ASSUME NEW c \in Clusters, CreateReady(c) PROVE ReadyInv'
    <2>1. ASSUME NEW u \in Users, job[u] # Idle, Self(u) = c PROVE c \in clash'
      <3>1. u \in Busy /\ job[u].on = c /\ {"create", job[u].op} # {"load"}
        BY <2>1 DEF Busy, Self
      <3> QED
        BY <1>7, <3>1 DEF CreateReady, Clash
    <2>2. clash \subseteq clash' /\ UNCHANGED <<nodes, job, raced>>
      BY <1>7 DEF CreateReady, Clash, kind
    <2>3. ASSUME ~raced PROVE c \in nodes
      <3>1. kubeconfig[c] \in Running /\ kubeconfig[c] \in {c, None, Gone}
        BY <1>2, <1>7, <2>3 DEF CreateReady, Reachable, StaysHome
      <3> QED
        BY <1>1, <3>1, Names DEF Running, TypeOK
    <2>4. ASSUME ~raced PROVE RestInv'
      <3> SUFFICES ASSUME NEW d \in Clusters \ clash', result'[d] = "ready"
                   PROVE  d \in nodes /\ \A v \in Users : job[v] # Idle => Self(v) # d
        BY <2>2 DEF RestInv, Self
      <3>1. CASE d = c
        BY <2>1, <2>3, <2>4, <3>1
      <3>2. CASE d # c
        <4>1. result[d] = "ready"
          BY <1>1, <1>7, <3>2 DEF CreateReady, TypeOK
        <4> QED
          BY <1>2, <2>2, <2>4, <4>1 DEF RestInv
      <3> QED
        BY <3>1, <3>2
    <2> QED
      BY <1>6, <1>7, <2>2, <2>4 DEF CreateReady, kind
  <1>8. ASSUME NEW c \in Clusters, Refuse(c) PROVE ReadyInv'
    <2>1. ASSUME ~raced PROVE RestInv'
      BY <1>1, <1>2, <1>8, <2>1 DEF RestInv, Refuse, TypeOK, Self, kind, history
    <2> QED
      BY <1>6, <1>8, <2>1 DEF Refuse, kind, history
  <1>9. CASE Switch
    <2> HIDE DEF D
    <2> SUFFICES ASSUME ~raced' PROVE RaiseInv' /\ NodesInv' /\ RestInv'
      BY <1>1, <1>9 DEF ReadyInv, Switch
    <2>1. ~raced /\ \A u \in Users : job[u].op # "create"
      <3>1. \A u \in Users : job[u].op = "create" => job[u] # Idle
        BY DEF Idle
      <3> QED
        BY <1>9, <3>1 DEF Switch, Busy
    <2>2. RaiseInv'
      BY <1>9, <2>1 DEF Switch, RaiseInv, Raising
    <2>3. NodesInv' /\ RestInv'
      BY <1>2, <1>9, <2>1
         DEF Switch, NodesInv, RestInv, Raising, Lowering, Built, At, Left, Self, files
    <2> QED
      BY <2>2, <2>3
  <1>10. CASE UNCHANGED vars
    <2>1. ASSUME ~raced PROVE RestInv'
      BY <1>2, <1>10, <2>1 DEF vars, RestInv, Self
    <2> QED
      BY <1>6, <1>10, <2>1 DEF vars, files
  <1> QED
    BY <1>4, <1>5, <1>7, <1>8, <1>9, <1>10 DEF Next, Acts

\* Up of pkg/runtime/kind/cluster.go and runE of create, for every number of
\* clusters, shells and manifests: a cluster that is reported ready has all its
\* manifests, its own kubeconfig, a context and its controller manager, unless a
\* command was cut short on it or commands were in each other's way.
THEOREM ReadyMeansComplete == Spec => []ReadyIsComplete
  <1>1. ASSUME Base, ReadyInv, NEW c \in Clusters \ (clash \cup cut), result[c] = "ready", ~raced
        PROVE  /\ c \in alias \cap contexts \cap nodes /\ kubeconfig[c] = c /\ c \notin moved
               /\ deployed[c] = Kinds \X {c}
    <2>1. RestInv /\ NodesInv /\ BackInv /\ StaysHome
      BY <1>1 DEF Base, CareInv, HomeInv, ReadyInv
    <2>2. c \in nodes /\ \A u \in Users : job[u] # Idle => Self(u) # c
      BY <1>1, <2>1 DEF RestInv
    <2>3. \A u \in Users : Raising(u) \/ Lowering(u) \/ PastStop(u) => job[u] # Idle
      BY DEF Raising, Lowering, PastStop, At, Idle
    <2>4. c \in nodes \ (clash \cup cut)
      BY <1>1, <2>2
    <2>5. Built(c)
      BY <2>1, <2>2, <2>3, <2>4 DEF NodesInv
    <2>6. c \notin moved
      BY <2>1, <2>2, <2>3, <2>4 DEF BackInv
    <2>7. deployed[c] \subseteq Kinds \X {c}
      BY <1>1, <2>1 DEF StaysHome
    <2>8. ASSUME NEW x \in Kinds \X {c} PROVE x \in deployed[c]
      <3>1. PICK m \in Kinds : x = <<m, c>>
        OBVIOUS
      <3> QED
        BY <2>5, <3>1 DEF Built
    <2> QED
      BY <2>2, <2>5, <2>6, <2>7, <2>8 DEF Built
  <1>2. Base /\ ReadyInv => ReadyIsComplete
    BY <1>1 DEF ReadyIsComplete
  <1>3. Init => Base
    BY TypeInit, ApartInit, HomeInit, CareInit DEF Base
  <1>4. Base /\ [Next]_vars => Base'
    BY TypeStep, ApartStep, HomeStep, CareStep DEF Base
  <1> QED
    BY <1>2, <1>3, <1>4, ReadyInit, ReadyStep, PTL DEF Spec
=============================================================================
