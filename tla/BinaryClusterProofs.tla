------------------------ MODULE BinaryClusterProofs ------------------------
(***************************************************************************)
(* Theorems about BinaryCluster, for any process numbers, ports and number *)
(* of crashes.                                                             *)
(***************************************************************************)
EXTENDS BinaryCluster, SequenceTheorems, TLAPS

-----------------------------------------------------------------------------
(* The order of a command's calls *)

Ops ==
  {"config", "download", "ports", "kubeconfig", "wait", "get_node", "uninstall", "apply",
   "fork", "kill", "stop", "forget", "restart"}

Steps == Ops \X (Components \cup Confs \cup {None})

Servers == {Etcd, Apiserver}

\* What may be left to do after the call x.
Before(x, y) ==
  /\ x[1] = "config" => y[1] # "config"
  /\ x[1] = "ports" => y[1] \notin {"kill", "ports"}
  /\ x[1] = "uninstall" => y[1] # "kill"
  /\ x[1] = "fork" => y # x /\ y[1] \notin {"config", "ports", "uninstall", "apply"}
  /\ x[1] = "fork" /\ x[2] \notin Servers => y[1] # "kubeconfig"
  /\ x[1] = "kubeconfig" =>
       y[1] \notin {"ports", "kubeconfig"} /\ (y[1] = "fork" => y[2] \notin Servers)
  /\ x[1] = "get_node" => y[1] \notin {"ports", "kubeconfig"}
  /\ x[1] \in {"kill", "stop", "forget", "apply"} => y[1] # "stop"
  /\ x[1] \in {"wait", "get_node"} => y[1] # "restart"

Ordered(s) == \A i, j \in 1..Len(s) : i < j => Before(s[i], s[j])

Plan(s) == s \in Seq(Steps) /\ Ordered(s)

LEMMA Nothing == Plan(<<>>) /\ Range(<<>>) = {}
  BY DEF Plan, Ordered, Range

LEMMA Single ==
  ASSUME NEW x \in Steps
  PROVE  Plan(<<x>>) /\ Range(<<x>>) = {x}
  BY DEF Plan, Ordered, Range

\* Two orderly lists make one, when all of the second may follow all of the first.
LEMMA Joined ==
  ASSUME NEW s, NEW t, Plan(s), Plan(t),
         \A x \in Range(s), y \in Range(t) : Before(x, y)
  PROVE  Plan(s \o t) /\ Range(s \o t) = Range(s) \cup Range(t)
  <1>1. s \in Seq(Steps) /\ t \in Seq(Steps)
    BY DEF Plan
  <1>2. Len(s) \in Nat /\ Len(t) \in Nat
    BY <1>1, LenProperties
  <1>3. /\ s \o t \in Seq(Steps) /\ Len(s \o t) = Len(s) + Len(t)
        /\ \A i \in 1..(Len(s) + Len(t)) :
             (s \o t)[i] = IF i <= Len(s) THEN s[i] ELSE t[i - Len(s)]
    BY <1>1, ConcatProperties
  <1>4. /\ \A i \in 1..Len(s) : s[i] \in Range(s)
        /\ \A i \in 1..Len(t) : t[i] \in Range(t)
    BY <1>1, RangeEquality
  <1>5. ASSUME NEW i \in 1..Len(s \o t), NEW j \in 1..Len(s \o t), i < j
        PROVE  Before((s \o t)[i], (s \o t)[j])
    <2>1. i \in 1..(Len(s) + Len(t)) /\ j \in 1..(Len(s) + Len(t))
      BY <1>3
    <2>2. CASE j <= Len(s)
      <3>1. i \in 1..Len(s) /\ j \in 1..Len(s) /\ Before(s[i], s[j])
        BY <1>2, <1>5, <2>1, <2>2 DEF Plan, Ordered
      <3> QED
        BY <1>2, <1>3, <2>1, <3>1
    <2>3. CASE i <= Len(s) /\ ~(j <= Len(s))
      <3>1. i \in 1..Len(s) /\ j - Len(s) \in 1..Len(t)
        BY <1>2, <2>1, <2>3
      <3>2. Before(s[i], t[j - Len(s)])
        BY <1>4, <3>1
      <3> QED
        BY <1>2, <1>3, <2>1, <2>3, <3>2
    <2>4. CASE ~(i <= Len(s))
      <3>1. /\ i - Len(s) \in 1..Len(t) /\ j - Len(s) \in 1..Len(t)
            /\ i - Len(s) < j - Len(s) /\ ~(j <= Len(s))
        BY <1>2, <1>5, <2>1, <2>4
      <3>2. Before(t[i - Len(s)], t[j - Len(s)])
        BY <3>1 DEF Plan, Ordered
      <3> QED
        BY <1>2, <1>3, <2>1, <2>4, <3>1, <3>2
    <2> QED
      BY <1>2, <2>1, <2>2, <2>3, <2>4
  <1>6. Range(s \o t) = Range(s) \cup Range(t)
    BY <1>1, RangeConcatenation
  <1> QED
    BY <1>3, <1>5, <1>6 DEF Plan, Ordered

\* What is left after the first call of an orderly list.
LEMMA Rest ==
  ASSUME NEW s, Plan(s), s # <<>>
  PROVE  /\ Plan(Tail(s)) /\ Head(s) \in Steps
         /\ Range(s) = {Head(s)} \cup Range(Tail(s))
         /\ \A y \in Range(Tail(s)) : Before(Head(s), y)
  <1>1. s \in Seq(Steps)
    BY DEF Plan
  <1>2. /\ Head(s) \in Steps /\ Tail(s) \in Seq(Steps)
        /\ Len(Tail(s)) = Len(s) - 1
        /\ \A i \in 1..Len(Tail(s)) : Tail(s)[i] = s[i + 1]
    BY <1>1, HeadTailProperties
  <1>3. Len(s) \in Nat \ {0}
    BY <1>1, EmptySeq
  <1>4. Head(s) = s[1]
    BY <1>1
  <1>5. /\ Range(s) = {s[i] : i \in 1..Len(s)}
        /\ Range(Tail(s)) = {Tail(s)[i] : i \in 1..Len(Tail(s))}
    BY <1>1, <1>2, RangeEquality
  <1>6. Ordered(Tail(s))
    <2>1. \A i \in 1..Len(Tail(s)) : i + 1 \in 1..Len(s)
      BY <1>2, <1>3
    <2> QED
      BY <1>2, <1>3, <2>1 DEF Plan, Ordered
  <1>7. ASSUME NEW y \in Range(Tail(s)) PROVE Before(Head(s), y) /\ y \in Range(s)
    <2>1. PICK i \in 1..Len(Tail(s)) : y = s[i + 1]
      BY <1>2, <1>5
    <2>2. i + 1 \in 1..Len(s) /\ 1 \in 1..Len(s) /\ 1 < i + 1
      BY <1>2, <1>3
    <2> QED
      BY <1>4, <1>5, <2>1, <2>2 DEF Plan, Ordered
  <1>8. ASSUME NEW y \in Range(s) PROVE y = Head(s) \/ y \in Range(Tail(s))
    <2>1. PICK i \in 1..Len(s) : y = s[i]
      BY <1>5
    <2>2. CASE i = 1
      BY <1>4, <2>1, <2>2
    <2>3. CASE i # 1
      <3>1. i - 1 \in 1..Len(Tail(s)) /\ (i - 1) + 1 = i
        BY <1>2, <1>3, <2>3
      <3> QED
        BY <1>2, <1>5, <2>1, <3>1
    <2> QED
      BY <2>2, <2>3
  <1>9. Head(s) \in Range(s)
    BY <1>3, <1>4, <1>5
  <1> QED
    BY <1>2, <1>6, <1>7, <1>8, <1>9 DEF Plan

-----------------------------------------------------------------------------
(* The calls of each command *)

LEMMA Calls ==
  /\ {Etcd, Apiserver, Kcm, Scheduler, Kubelet, Prometheus} \subseteq Components
  /\ \A n \in Components :
       /\ Fork(n) \in Steps /\ Kill(n) \in Steps /\ <<"forget", n>> \in Steps
       /\ <<"stop", n>> \in Steps /\ <<"restart", n>> \in Steps
  /\ Call("download") \in Steps /\ Call("ports") \in Steps /\ Call("kubeconfig") \in Steps
  /\ Call("wait") \in Steps /\ Call("get_node") \in Steps
  /\ Call("uninstall") \in Steps /\ Call("apply") \in Steps
  /\ \A c \in Confs : <<"config", c>> \in Steps
  <1>1. {Etcd, Apiserver, Kcm, Scheduler, Kubelet, Prometheus} \subseteq Components
    BY ComponentNames
  <1> DEFINE A == Components \cup Confs \cup {None}
  <1>2. ASSUME NEW op \in Ops, NEW a \in A PROVE <<op, a>> \in Steps
    BY DEF Steps
  <1>3. None \in A /\ Components \subseteq A /\ Confs \subseteq A
    OBVIOUS
  <1> HIDE DEF A
  <1>4. ASSUME NEW n \in Components
        PROVE  /\ Fork(n) \in Steps /\ Kill(n) \in Steps /\ <<"forget", n>> \in Steps
               /\ <<"stop", n>> \in Steps /\ <<"restart", n>> \in Steps
    BY <1>2, <1>3 DEF Fork, Kill, Ops
  <1>5. /\ Call("download") \in Steps /\ Call("ports") \in Steps /\ Call("kubeconfig") \in Steps
        /\ Call("wait") \in Steps /\ Call("get_node") \in Steps
        /\ Call("uninstall") \in Steps /\ Call("apply") \in Steps
    BY <1>2, <1>3 DEF Call, Ops
  <1>6. ASSUME NEW c \in Confs PROVE <<"config", c>> \in Steps
    BY <1>2, <1>3 DEF Ops
  <1> QED
    BY <1>1, <1>4, <1>5, <1>6

LEMMA IfEnabled ==
  ASSUME NEW c, NEW x \in Steps
  PROVE  /\ Plan(Enabled(c, x))
         /\ Range(Enabled(c, x)) = IF c = "prometheus" THEN {x} ELSE {}
  BY Single, Nothing DEF Enabled

\* Down kills every component, prometheus if it is enabled.
LEMMA Stopping ==
  ASSUME NEW c \in Confs
  PROVE  /\ Plan(Down(c))
         /\ \A x \in Range(Down(c)) : x[1] = "kill"
         /\ \A n \in Components : Kill(n) \in Range(Down(c)) \/ (n = Prometheus /\ c = "plain")
  <1> DEFINE s == <<Kill(Kubelet), Kill(Scheduler), Kill(Kcm), Kill(Apiserver), Kill(Etcd)>>
             t == Enabled(c, Kill(Prometheus))
  <1>1. s \in Seq(Steps)
    <2>1. /\ Kill(Kubelet) \in Steps /\ Kill(Scheduler) \in Steps /\ Kill(Kcm) \in Steps
          /\ Kill(Apiserver) \in Steps /\ Kill(Etcd) \in Steps
      BY Calls
    <2> QED
      BY <2>1
  <1>2. Len(s) = 5 /\ \A i \in 1..5 : s[i][1] = "kill"
    BY DEF Kill
  <1>3. Range(s) = {Kill(Kubelet), Kill(Scheduler), Kill(Kcm), Kill(Apiserver), Kill(Etcd)}
    <2>1. Range(s) = {s[i] : i \in 1..5}
      BY <1>1, <1>2, RangeEquality
    <2>2. /\ s[1] = Kill(Kubelet) /\ s[2] = Kill(Scheduler) /\ s[3] = Kill(Kcm)
          /\ s[4] = Kill(Apiserver) /\ s[5] = Kill(Etcd)
      OBVIOUS
    <2>3. 1..5 = {1, 2, 3, 4, 5}
      OBVIOUS
    <2> HIDE DEF s
    <2> QED
      BY <2>1, <2>2, <2>3
  <1>4. Plan(s)
    <2> HIDE DEF s
    <2> QED
      BY <1>1, <1>2 DEF Plan, Ordered, Before
  <1>5. Plan(t) /\ Range(t) = IF c = "prometheus" THEN {Kill(Prometheus)} ELSE {}
    BY Calls, IfEnabled
  <1>6. \A x \in Range(s) \cup Range(t) : x[1] = "kill"
    BY <1>3, <1>5 DEF Kill
  <1> HIDE DEF s, t
  <1>7. Plan(s \o t) /\ Range(s \o t) = Range(s) \cup Range(t)
    <2>1. \A x \in Range(s), y \in Range(t) : Before(x, y)
      BY <1>6 DEF Before
    <2> QED
      BY <1>4, <1>5, <2>1, Joined
  <1>8. Down(c) = s \o t
    BY DEF Down, s, t
  <1>9. \A n \in Components : Kill(n) \in Range(s \o t) \/ (n = Prometheus /\ c = "plain")
    <2>1. c = "plain" \/ c = "prometheus"
      BY DEF Confs
    <2> QED
      BY <1>3, <1>5, <1>7, <2>1, ComponentNames
  <1> QED
    BY <1>6, <1>7, <1>8, <1>9

\* What Up calls: it chooses ports, writes them down and starts the components.
UpCalls == {"ports", "fork", "kubeconfig", "wait"}

LEMMA Starting ==
  ASSUME NEW c \in Confs
  PROVE  /\ Plan(Up(c))
         /\ \A x \in Range(Up(c)) : x[1] \in UpCalls
         /\ {Call("ports"), Call("kubeconfig")} \subseteq Range(Up(c))
         /\ Fork(Prometheus) \in Range(Up(c)) => c = "prometheus"
  <1> DEFINE s == <<Call("ports"), Fork(Etcd), Fork(Apiserver), Call("kubeconfig"),
                    Call("wait"), Fork(Kcm), Fork(Scheduler), Fork(Kubelet)>>
             t == Enabled(c, Fork(Prometheus))
  <1>1. s \in Seq(Steps)
    <2>1. /\ Call("ports") \in Steps /\ Fork(Etcd) \in Steps /\ Fork(Apiserver) \in Steps
          /\ Call("kubeconfig") \in Steps /\ Call("wait") \in Steps /\ Fork(Kcm) \in Steps
          /\ Fork(Scheduler) \in Steps /\ Fork(Kubelet) \in Steps
      BY Calls
    <2> QED
      BY <2>1
  <1>2. /\ s[1] = Call("ports") /\ s[2] = Fork(Etcd) /\ s[3] = Fork(Apiserver)
        /\ s[4] = Call("kubeconfig") /\ s[5] = Call("wait") /\ s[6] = Fork(Kcm)
        /\ s[7] = Fork(Scheduler) /\ s[8] = Fork(Kubelet) /\ Len(s) = 8
    OBVIOUS
  <1> HIDE DEF s
  <1>3. Range(s) = {Call("ports"), Fork(Etcd), Fork(Apiserver), Call("kubeconfig"),
                    Call("wait"), Fork(Kcm), Fork(Scheduler), Fork(Kubelet)}
    <2>1. Range(s) = {s[i] : i \in 1..8}
      BY <1>1, <1>2, RangeEquality
    <2>2. 1..8 = {1, 2, 3, 4, 5, 6, 7, 8}
      OBVIOUS
    <2> QED
      BY <1>2, <2>1, <2>2
  <1>4. Plan(s)
    <2> SUFFICES ASSUME NEW i \in 1..8, NEW j \in 1..8, i < j
                 PROVE  Before(s[i], s[j])
      BY <1>1, <1>2 DEF Plan, Ordered
    <2>1. i \in {1, 2, 3, 4, 5, 6, 7} /\ j \in {2, 3, 4, 5, 6, 7, 8}
      OBVIOUS
    <2> QED
      BY <1>2, <2>1 DEF Before, Call, Fork, Servers, Etcd, Apiserver, Kcm, Scheduler, Kubelet
  <1>5. Plan(t) /\ Range(t) = IF c = "prometheus" THEN {Fork(Prometheus)} ELSE {}
    BY Calls, IfEnabled
  <1> HIDE DEF t
  <1>6. Plan(s \o t) /\ Range(s \o t) = Range(s) \cup Range(t)
    <2>1. \A x \in Range(s), y \in Range(t) : Before(x, y)
      BY <1>3, <1>5 DEF Before, Call, Fork, Servers, Etcd, Apiserver, Kcm, Scheduler, Kubelet,
         Prometheus
    <2> QED
      BY <1>4, <1>5, <2>1, Joined
  <1>7. Up(c) = s \o t
    BY DEF Up, s, t
  <1>8. \A x \in Range(s) \cup Range(t) : x[1] \in UpCalls
    BY <1>3, <1>5 DEF UpCalls, Call, Fork
  <1>9. Fork(Prometheus) \in Range(s) => c = "prometheus"
    BY <1>3 DEF Call, Fork, Etcd, Apiserver, Kcm, Scheduler, Kubelet, Prometheus
  <1> QED
    BY <1>3, <1>5, <1>6, <1>7, <1>8, <1>9

\* A create: it installs the config c, stops what runs, or has nothing to stop, and
\* calls Up.
Creation(s, c) ==
  /\ Plan(s) /\ s # <<>> /\ Head(s) = <<"config", c>>
  /\ \A x \in Range(s) :
       /\ x[1] \in {"config", "download", "kill", "get_node"} \cup UpCalls
       /\ x[1] = "config" => x = <<"config", c>>
  /\ {Call("ports"), Call("kubeconfig")} \subseteq Range(s)
  /\ Fork(Prometheus) \in Range(s) => c = "prometheus"

LEMMA CreationOf ==
  ASSUME NEW c \in Confs, NEW d, Plan(d), \A x \in Range(d) : x[1] = "kill"
  PROVE  LET s == Install(c) \o d \o Up(c) \o <<Call("wait"), Call("get_node")>>
         IN  Creation(s, c) /\ Range(d) \subseteq Range(s)
  <1> DEFINE e == <<Call("wait"), Call("get_node")>>
             i == Install(c)
             u == Up(c)
  <1>1. /\ Plan(i) /\ Range(i) = {<<"config", c>>, Call("download")}
        /\ i # <<>> /\ Head(i) = <<"config", c>>
    <2>1. /\ i \in Seq(Steps) /\ Len(i) = 2 /\ i[1] = <<"config", c>> /\ i[2] = Call("download")
      BY Calls DEF Install
    <2>2. Range(i) = {i[k] : k \in 1..2} /\ 1..2 = {1, 2}
      BY <2>1, RangeEquality
    <2>3. Before(i[1], i[2])
      BY <2>1 DEF Before, Call
    <2>4. i # <<>> /\ Head(i) = i[1]
      BY DEF Install
    <2> HIDE DEF i
    <2> QED
      BY <2>1, <2>2, <2>3, <2>4 DEF Plan, Ordered
  <1>2. Plan(e) /\ Range(e) = {Call("wait"), Call("get_node")}
    <2>1. /\ e \in Seq(Steps) /\ Len(e) = 2 /\ e[1] = Call("wait") /\ e[2] = Call("get_node")
      BY Calls
    <2> HIDE DEF e
    <2>2. Range(e) = {e[k] : k \in 1..2} /\ 1..2 = {1, 2}
      BY <2>1, RangeEquality
    <2>3. Before(e[1], e[2])
      BY <2>1 DEF Before, Call
    <2> QED
      BY <2>1, <2>2, <2>3 DEF Plan, Ordered
  <1>3. /\ Plan(u) /\ \A x \in Range(u) : x[1] \in UpCalls
        /\ {Call("ports"), Call("kubeconfig")} \subseteq Range(u)
        /\ Fork(Prometheus) \in Range(u) => c = "prometheus"
    BY Starting
  <1> HIDE DEF e, i, u
  <1>4. Plan(i \o d) /\ Range(i \o d) = Range(i) \cup Range(d)
    <2>1. \A x \in Range(i), y \in Range(d) : Before(x, y)
      BY <1>1 DEF Before, Call
    <2> QED
      BY <1>1, <2>1, Joined
  <1>5. Plan(i \o d \o u) /\ Range(i \o d \o u) = Range(i) \cup Range(d) \cup Range(u)
    <2>1. \A x \in Range(i \o d), y \in Range(u) : Before(x, y)
      BY <1>1, <1>3, <1>4 DEF Before, Call, UpCalls
    <2> QED
      BY <1>3, <1>4, <2>1, Joined
  <1> DEFINE s == i \o d \o u \o e
  <1>6. Plan(s) /\ Range(s) = Range(i) \cup Range(d) \cup Range(u) \cup Range(e)
    <2>1. \A x \in Range(i \o d \o u), y \in Range(e) : Before(x, y)
      BY <1>1, <1>2, <1>3, <1>5 DEF Before, Call, UpCalls
    <2> QED
      BY <1>2, <1>5, <2>1, Joined
  <1>7. s # <<>> /\ Head(s) = Head(i)
    <2>1. /\ i \in Seq(Steps) /\ d \in Seq(Steps) /\ u \in Seq(Steps) /\ e \in Seq(Steps)
      BY <1>1, <1>2, <1>3 DEF Plan
    <2>2. Len(i) \in Nat \ {0} /\ Len(d) \in Nat /\ Len(u) \in Nat /\ Len(e) \in Nat
      BY <1>1, <2>1, EmptySeq, LenProperties
    <2>3. (i \o d)[1] = i[1] /\ Len(i \o d) = Len(i) + Len(d) /\ i \o d \in Seq(Steps)
      BY <2>1, <2>2, ConcatProperties
    <2>4. /\ (i \o d \o u)[1] = i[1] /\ Len(i \o d \o u) = Len(i) + Len(d) + Len(u)
          /\ i \o d \o u \in Seq(Steps)
      BY <2>1, <2>2, <2>3, ConcatProperties
    <2>5. s[1] = i[1] /\ Len(s) = Len(i) + Len(d) + Len(u) + Len(e) /\ s \in Seq(Steps)
      BY <2>1, <2>2, <2>4, ConcatProperties
    <2> HIDE DEF s
    <2>6. s # <<>>
      BY <2>2, <2>5, EmptySeq
    <2> QED
      BY <1>1, <2>1, <2>5, <2>6
  <1> HIDE DEF s
  <1>8. \A x \in Range(s) :
          /\ x[1] \in {"config", "download", "kill", "get_node"} \cup UpCalls
          /\ x[1] = "config" => x = <<"config", c>>
    BY <1>1, <1>2, <1>3, <1>6 DEF Call, UpCalls
  <1>9. Fork(Prometheus) \in Range(s) => Fork(Prometheus) \in Range(u)
    BY <1>1, <1>2, <1>6 DEF Call, Fork
  <1>10. Creation(s, c)
    BY <1>1, <1>3, <1>6, <1>7, <1>8, <1>9 DEF Creation
  <1> QED
    BY <1>6, <1>10 DEF s, i, u, e

LEMMA Creating ==
  ASSUME NEW c \in Confs
  PROVE  Creation(Create(c), c)
  <1>1. Install(c) \in Seq(Steps)
    BY Calls DEF Install
  <1>2. Install(c) \o <<>> = Install(c)
    BY <1>1, ConcatEmptySeq
  <1> QED
    BY <1>2, CreationOf, Nothing DEF Create

\* A cluster that exists is stopped before it is started again.
LEMMA Recreating ==
  ASSUME NEW c \in Confs
  PROVE  /\ Creation(Recreate(c), c)
         /\ \A n \in Components :
              Kill(n) \in Range(Recreate(c)) \/ (n = Prometheus /\ c = "plain")
  BY CreationOf, Stopping DEF Recreate

\* A delete stops the cluster, then removes its files.
LEMMA Deleting ==
  ASSUME NEW c \in Confs
  PROVE  /\ Plan(Delete(c))
         /\ \A x \in Range(Delete(c)) : x[1] \in {"kill", "uninstall"}
         /\ \A n \in Components :
              Kill(n) \in Range(Delete(c)) \/ (n = Prometheus /\ c = "plain")
  <1> DEFINE e == <<Call("uninstall")>>
             d == Down(c)
  <1>1. Plan(e) /\ Range(e) = {Call("uninstall")}
    BY Calls, Single
  <1>2. /\ Plan(d) /\ \A x \in Range(d) : x[1] = "kill"
        /\ \A n \in Components : Kill(n) \in Range(d) \/ (n = Prometheus /\ c = "plain")
    BY Stopping
  <1> HIDE DEF e, d
  <1>3. \A x \in Range(d), y \in Range(e) : Before(x, y)
    BY <1>1, <1>2 DEF Before, Call
  <1>4. Plan(d \o e) /\ Range(d \o e) = Range(d) \cup Range(e)
    BY <1>1, <1>2, <1>3, Joined
  <1> QED
    BY <1>1, <1>2, <1>4 DEF Delete, Call, d, e

\* A load stops the controller manager and starts it again at its end.
LEMMA LoadCalls ==
  /\ Plan(Load) /\ Range(Load) = {<<"stop", Kcm>>, Call("apply"), <<"restart", Kcm>>}
  <1>1. /\ Load \in Seq(Steps) /\ Len(Load) = 3
        /\ Load[1] = <<"stop", Kcm>> /\ Load[2] = Call("apply") /\ Load[3] = <<"restart", Kcm>>
    <2>1. <<"stop", Kcm>> \in Steps /\ Call("apply") \in Steps /\ <<"restart", Kcm>> \in Steps
      BY Calls
    <2> QED
      BY <2>1 DEF Load
  <1>2. Range(Load) = {Load[k] : k \in 1..3} /\ 1..3 = {1, 2, 3}
    BY <1>1, RangeEquality
  <1>3. ASSUME NEW i \in 1..3, NEW j \in 1..3, i < j
        PROVE  Before(Load[i], Load[j])
    <2>1. i \in {1, 2} /\ j \in {2, 3}
      BY <1>3
    <2> QED
      BY <1>1, <1>3, <2>1 DEF Before, Call
  <1> QED
    BY <1>1, <1>2, <1>3 DEF Plan, Ordered

-----------------------------------------------------------------------------
(* The inductive invariant *)

Left == Range(todo)

\* The kubeconfig is written after the etcd and the API server are started, and the
\* controller manager is started after the objects are created.
PlanInv ==
  /\ Plan(todo)
  /\ \A x \in Left : x[1] \in {"stop", "restart"} => x[2] = Kcm
  /\ \A x \in Left :
       x[1] = "ports" \/ (x[1] = "fork" /\ x[2] \in Servers) => Call("kubeconfig") \in Left
  /\ Call("apply") \in Left => <<"restart", Kcm>> \in Left

\* The process that is remembered for a component is the component's.
Runs(n) == managed[n] \in Live(n)

\* Those of a component's processes that no pid file names.
Astray(n) == {p \in Live(n) : p # managed[n]}

TrackedInv == \A n \in Components : Live(n) \subseteq stray \cup {managed[n]}

\* The config is older than every component, and a command but create's first call
\* finds one; only a config with prometheus starts it.
ConfInv ==
  /\ conf = None => \A n \in Components : ~Runs(n)
  /\ conf = "plain" => ~Runs(Prometheus)
  /\ todo # <<>> => conf \in Confs \/ Head(todo)[1] = "config"
  /\ \A c \in Confs : <<"config", c>> \in Left => conf \in {None, c}
  /\ Fork(Prometheus) \in Left => conf = "prometheus" \/ <<"config", "prometheus">> \in Left

\* A command that is to start the components or to remove the files stops them
\* first, each one that runs; load stops the controller manager.
DownInv ==
  /\ Call("ports") \in Left \/ Call("uninstall") \in Left =>
       \A n \in Components : Runs(n) => Kill(n) \in Left
  /\ Call("ports") \notin Left => \A n \in Components : Fork(n) \in Left => ~Runs(n)
  /\ Call("apply") \in Left => (Runs(Kcm) => <<"stop", Kcm>> \in Left)

OnPorts(g) == \A n \in Components : Runs(n) => link[managed[n]] = g
OffPorts(g) == \A n \in Servers : Runs(n) => link[managed[n]] # g

\* Either every component that runs is on the ports of kubeconfig.yaml, or neither
\* the etcd nor the API server is.
LinkInv ==
  /\ OnPorts(kubeconfig) \/ OffPorts(kubeconfig)
  /\ \A n \in Servers : \A p \in Live(n) : link[p] \in Gens
  /\ \A n \in Servers : \A p \in Astray(n) : link[p] # kubeconfig

\* An Up is past the choice of its ports.
Upping ==
  /\ Call("ports") \notin Left
  /\ \E x \in Left : x[1] \in {"fork", "kubeconfig", "get_node"}

\* What an Up has started is on its ports, and kubeconfig.yaml has them once it
\* is written; before, nobody uses them.
UpInv ==
  Upping =>
    /\ gen \in Gens /\ OnPorts(gen)
    /\ Call("kubeconfig") \notin Left => kubeconfig = gen
    /\ Call("kubeconfig") \in Left =>
         gen # kubeconfig /\ \A n \in Servers : \A p \in Astray(n) : link[p] # gen

ResultInv ==
  /\ todo # <<>> => result = "none"
  /\ result = "ready" => OnPorts(kubeconfig)

\* A controller manager that is owed is not running, and only the load that stopped
\* it, once past its Stop, need not say why.
BackInv ==
  owed =>
    /\ managed[Kcm] = None
    /\ \/ cut \/ Kcm \notin launched
       \/ Loading /\ <<"stop", Kcm>> \notin Left

ClusterInv ==
  /\ ClusterTypeOK /\ PlanInv /\ TrackedInv /\ ConfInv
  /\ DownInv /\ LinkInv /\ UpInv /\ ResultInv /\ BackInv

LEMMA Initially == ClusterInit => ClusterInv
  <1> SUFFICES ASSUME ClusterInit PROVE ClusterInv
    OBVIOUS
  <1> USE DEF ClusterInit, Init
  <1>1. ClusterTypeOK
    <2>1. owed \in BOOLEAN /\ cut \in BOOLEAN
      OBVIOUS
    <2> QED
      BY <2>1, Bounds DEF ClusterTypeOK, Owners, Results
  <1>2. Left = {} /\ Plan(todo)
    BY Nothing DEF Left
  <1>3. \A n \in Components : Live(n) = {}
    BY OwnersDistinct DEF Live
  <1>4. \A n \in Components : ~Runs(n) /\ Astray(n) = {}
    BY <1>3 DEF Runs, Astray
  <1>5. Servers \subseteq Components /\ Prometheus \in Components /\ Kcm \in Components
    BY ComponentNames DEF Servers
  <1>6. PlanInv /\ TrackedInv
    BY <1>2, <1>3 DEF PlanInv, TrackedInv
  <1>7. ConfInv /\ DownInv
    BY <1>2, <1>4, <1>5, Names DEF ConfInv, DownInv
  <1>8. LinkInv /\ UpInv
    BY <1>2, <1>3, <1>4, <1>5 DEF LinkInv, UpInv, Upping, OnPorts
  <1>9. ResultInv /\ BackInv
    BY DEF ResultInv, BackInv
  <1> QED
    BY <1>1, <1>6, <1>7, <1>8, <1>9 DEF ClusterInv

-----------------------------------------------------------------------------
(* Steps that start nothing *)

LEMMA Known == Servers \subseteq Components /\ Prometheus \in Components /\ Kcm \in Components
  BY ComponentNames DEF Servers

Quiet ==
  /\ \A n \in Components :
       /\ Live(n)' \subseteq Live(n)
       /\ Runs(n)' => Runs(n) /\ managed'[n] = managed[n]
       /\ Astray(n)' \subseteq Astray(n)
  /\ link' = link

LEMMA QuietLinks ==
  ASSUME LinkInv, Quiet, kubeconfig' \in {kubeconfig, None}
  PROVE  LinkInv'
  <1>1. \A n \in Servers : \A p \in Live(n)' : link'[p] \in Gens
    BY Known DEF LinkInv, Quiet
  <1>2. \A n \in Servers : \A p \in Astray(n)' : link'[p] # kubeconfig'
    <2> SUFFICES ASSUME NEW n \in Servers, NEW p \in Astray(n)'
                 PROVE  link[p] # kubeconfig'
      BY DEF Quiet
    <2>1. p \in Astray(n) /\ p \in Live(n)
      BY Known DEF Quiet, Astray
    <2>2. link[p] # kubeconfig /\ link[p] \in Gens
      BY <2>1 DEF LinkInv
    <2> QED
      BY <2>2, Names
  <1>3. CASE kubeconfig' = kubeconfig
    <2>1. OnPorts(kubeconfig) => OnPorts(kubeconfig)'
      BY <1>3 DEF OnPorts, Quiet
    <2>2. OffPorts(kubeconfig) => OffPorts(kubeconfig)'
      BY <1>3, Known DEF OffPorts, Quiet
    <2> QED
      BY <1>1, <1>2, <2>1, <2>2 DEF LinkInv
  <1>4. CASE kubeconfig' = None
    <2>1. OffPorts(kubeconfig)'
      <3> SUFFICES ASSUME NEW n \in Servers, Runs(n)'
                   PROVE  link[managed[n]] # None /\ managed'[n] = managed[n]
        BY <1>4, Known DEF OffPorts, Quiet
      <3>1. Runs(n) /\ managed'[n] = managed[n]
        BY Known DEF Quiet
      <3>2. link[managed[n]] \in Gens
        BY <3>1 DEF LinkInv, Runs
      <3> QED
        BY <3>1, <3>2, Names
    <2> QED
      BY <1>1, <1>2, <2>1 DEF LinkInv
  <1> QED
    BY <1>3, <1>4

\* A command that is over.
LEMMA Ended ==
  ASSUME todo' = <<>>,
         conf' = None => \A n \in Components : ~Runs(n)',
         conf' = "plain" => ~Runs(Prometheus)'
  PROVE  PlanInv' /\ ConfInv' /\ DownInv' /\ UpInv'
  <1>1. Left' = {} /\ Plan(todo')
    BY Nothing DEF Left
  <1>2. PlanInv' /\ ConfInv'
    BY <1>1 DEF PlanInv, ConfInv
  <1>3. DownInv' /\ UpInv'
    BY <1>1 DEF DownInv, UpInv, Upping
  <1> QED
    BY <1>2, <1>3

\* A command whose first call is done, and may have left something to forget.
LEMMA Advanced ==
  ASSUME PlanInv, ConfInv, DownInv, UpInv, Quiet, UNCHANGED <<conf, kubeconfig, gen>>,
         todo # <<>>, Head(todo)[1] \notin {"config", "ports", "kubeconfig", "restart"},
         Plan(todo'), Range(Tail(todo)) \subseteq Left',
         \A x \in Left' : x \in Range(Tail(todo)) \/ x[1] = "forget",
         \A n \in Components : Head(todo) = Kill(n) => ~Runs(n)',
         Head(todo) = <<"stop", Kcm>> => ~Runs(Kcm)'
  PROVE  PlanInv' /\ ConfInv' /\ DownInv' /\ UpInv'
  <1> DEFINE h == Head(todo)
             T == Range(Tail(todo))
  <1>1. Left = {h} \cup T /\ \A y \in T : Before(h, y)
    BY Rest DEF PlanInv, Left
  <1>2. T \subseteq Left' /\ \A x \in Left' : x \in T \/ x[1] = "forget"
    OBVIOUS
  <1>3. h[1] \notin {"config", "ports", "kubeconfig", "restart"}
    OBVIOUS
  <1>4. \A n \in Components : h = Kill(n) => ~Runs(n)'
    OBVIOUS
  <1>5. h = <<"stop", Kcm>> => ~Runs(Kcm)'
    OBVIOUS
  <1> HIDE DEF h, T
  <1>6. \A x \in Left : x[1] \in {"config", "ports", "kubeconfig", "restart"} => x \in Left'
    BY <1>1, <1>2, <1>3
  <1>7. \A x \in Left' : x[1] # "forget" => x \in Left
    BY <1>1, <1>2
  <1>8. /\ Call("ports") \in Left <=> Call("ports") \in Left'
        /\ Call("kubeconfig") \in Left <=> Call("kubeconfig") \in Left'
    BY <1>6, <1>7 DEF Call
  <1>9. PlanInv'
    <2>1. \A x \in Left' : x[1] \in {"stop", "restart"} => x[2] = Kcm
      BY <1>7 DEF PlanInv
    <2>2. \A x \in Left' :
            x[1] = "ports" \/ (x[1] = "fork" /\ x[2] \in Servers) => Call("kubeconfig") \in Left'
      BY <1>7, <1>8 DEF PlanInv
    <2>3. Call("apply") \in Left' => <<"restart", Kcm>> \in Left'
      BY <1>6, <1>7 DEF PlanInv, Call
    <2> QED
      BY <2>1, <2>2, <2>3 DEF PlanInv
  <1>10. ConfInv'
    <2>1. conf \in Confs
      BY <1>3 DEF ConfInv, h
    <2>2. conf = None => \A n \in Components : ~Runs(n)'
      BY DEF ConfInv, Quiet
    <2>3. conf = "plain" => ~Runs(Prometheus)'
      BY Known DEF ConfInv, Quiet
    <2>4. \A c \in Confs : <<"config", c>> \in Left' => conf \in {None, c}
      BY <1>7 DEF ConfInv
    <2>5. Fork(Prometheus) \in Left' => conf = "prometheus" \/ <<"config", "prometheus">> \in Left'
      <3>1. Fork(Prometheus) \in Left' => Fork(Prometheus) \in Left
        BY <1>7 DEF Fork
      <3>2. <<"config", "prometheus">> \in Left => <<"config", "prometheus">> \in Left'
        BY <1>6
      <3> QED
        BY <3>1, <3>2 DEF ConfInv
    <2> QED
      BY <2>1, <2>2, <2>3, <2>4, <2>5 DEF ConfInv
  <1>11. DownInv'
    <2>1. ASSUME NEW n \in Components, Runs(n)', Kill(n) \in Left
          PROVE  Kill(n) \in Left'
      BY <1>1, <1>2, <1>4, <2>1
    <2>2. Call("ports") \in Left' \/ Call("uninstall") \in Left' =>
            \A n \in Components : Runs(n)' => Kill(n) \in Left'
      <3>1. Call("uninstall") \in Left' => Call("uninstall") \in Left
        BY <1>7 DEF Call
      <3> QED
        BY <1>8, <2>1, <3>1 DEF DownInv, Quiet
    <2>3. Call("ports") \notin Left' => \A n \in Components : Fork(n) \in Left' => ~Runs(n)'
      <3>1. \A n \in Components : Fork(n) \in Left' => Fork(n) \in Left
        BY <1>7 DEF Fork
      <3> QED
        BY <1>8, <3>1 DEF DownInv, Quiet
    <2>4. Call("apply") \in Left' => (Runs(Kcm)' => <<"stop", Kcm>> \in Left')
      <3>1. Call("apply") \in Left' => Call("apply") \in Left
        BY <1>7 DEF Call
      <3> QED
        BY <1>1, <1>2, <1>5, <3>1, Known DEF DownInv, Quiet
    <2> QED
      BY <2>2, <2>3, <2>4 DEF DownInv
  <1>12. UpInv'
    <2> SUFFICES ASSUME Upping'
                 PROVE  /\ gen \in Gens /\ OnPorts(gen)'
                        /\ Call("kubeconfig") \notin Left' => kubeconfig = gen
                        /\ Call("kubeconfig") \in Left' =>
                             /\ gen # kubeconfig
                             /\ \A n \in Servers : \A p \in Astray(n)' : link'[p] # gen
      BY DEF UpInv
    <2>1. Upping
      BY <1>7, <1>8 DEF Upping
    <2>2. OnPorts(gen)'
      BY <2>1 DEF UpInv, OnPorts, Quiet
    <2> QED
      BY <1>8, <2>1, <2>2, Known DEF UpInv, Quiet
  <1> QED
    BY <1>9, <1>10, <1>11, <1>12

-----------------------------------------------------------------------------
(* What a step does to the processes *)

LEMMA Same ==
  ASSUME UNCHANGED <<managed, proc, stray, link>>
  PROVE  /\ Quiet /\ (TrackedInv => TrackedInv')
         /\ \A n \in Components : Runs(n)' <=> Runs(n)
  <1>1. \A n \in Components : Live(n)' = Live(n)
    BY DEF Live
  <1>2. \A n \in Components : (Runs(n)' <=> Runs(n)) /\ Astray(n)' = Astray(n)
    BY <1>1 DEF Runs, Astray
  <1> QED
    BY <1>1, <1>2 DEF Quiet, TrackedInv

\* A process ends, or its number changes hands.
LEMMA Lost ==
  ASSUME ClusterTypeOK, TrackedInv, NEW p \in Pids, NEW o \in Owners \ Components,
         proc' = [proc EXCEPT ![p] = o], UNCHANGED <<managed, link>>,
         stray' = stray \ {p} \/ (stray' = stray /\ proc[p] \notin Components)
  PROVE  /\ Quiet /\ TrackedInv' /\ proc' \in [Pids -> Owners] /\ stray' \subseteq Pids
         /\ \A n \in Components : managed[n] = p => ~Runs(n)'
  <1>1. proc \in [Pids -> Owners] /\ stray \subseteq Pids
    BY DEF ClusterTypeOK
  <1>2. \A n \in Components : Live(n)' = Live(n) \ {p}
    BY <1>1 DEF Live
  <1>3. \A n \in Components : Astray(n)' \subseteq Astray(n) /\ (Runs(n)' => Runs(n))
    BY <1>2 DEF Astray, Runs
  <1>4. Quiet
    BY <1>2, <1>3 DEF Quiet
  <1>5. TrackedInv'
    <2>1. CASE stray' = stray \ {p}
      BY <1>2, <2>1 DEF TrackedInv
    <2>2. CASE stray' = stray
      BY <1>2, <2>2 DEF TrackedInv
    <2> QED
      BY <2>1, <2>2
  <1>6. \A n \in Components : managed[n] = p => ~Runs(n)'
    BY <1>2 DEF Runs
  <1> QED
    BY <1>1, <1>4, <1>5, <1>6

LEMMA Signalled ==
  ASSUME ClusterTypeOK, TrackedInv, NEW n \in Components, Signal(n), link' = link
  PROVE  /\ Quiet /\ TrackedInv' /\ managed' = managed /\ ~Runs(n)'
         /\ proc' \in [Pids -> Owners] /\ stray' \subseteq Pids
  <1>1. managed[n] \in Pids
    BY DEF ClusterTypeOK, Signal
  <1>2. Dead \in Owners \ Components
    BY OwnersDistinct DEF Owners
  <1>3. /\ proc' = [proc EXCEPT ![managed[n]] = Dead] /\ managed' = managed
        /\ stray' = stray \ {managed[n]}
    BY DEF Signal
  <1> QED
    BY <1>1, <1>2, <1>3, Lost

\* Pid files of components that do not run are removed.
LEMMA Erased ==
  ASSUME ClusterTypeOK, TrackedInv, UNCHANGED <<proc, stray, link>>,
         managed' \in [Components -> Pids \cup {None}],
         \A n \in Components : managed'[n] # managed[n] => managed'[n] = None /\ ~Runs(n)
  PROVE  Quiet /\ TrackedInv' /\ \A n \in Components : Runs(n)' <=> Runs(n)
  <1>1. \A n \in Components : Live(n)' = Live(n) /\ Live(n) \subseteq Pids
    BY DEF Live
  <1>2. ASSUME NEW n \in Components
        PROVE  /\ Runs(n)' <=> Runs(n)
               /\ Runs(n) => managed'[n] = managed[n]
               /\ Astray(n)' \subseteq Astray(n)
               /\ Live(n)' \subseteq stray' \cup {managed'[n]}
    <2>1. CASE managed'[n] = managed[n]
      BY <1>1, <2>1 DEF Runs, Astray, TrackedInv
    <2>2. CASE managed'[n] # managed[n]
      <3>1. managed'[n] = None /\ ~Runs(n) /\ None \notin Live(n)
        BY <1>1, <2>2, OwnersDistinct
      <3> QED
        BY <1>1, <3>1 DEF Runs, Astray, TrackedInv
    <2> QED
      BY <2>1, <2>2
  <1> QED
    BY <1>1, <1>2 DEF Quiet, TrackedInv

LEMMA Forgotten ==
  ASSUME ClusterTypeOK, TrackedInv, NEW n \in Components, Forget(n), link' = link
  PROVE  /\ Quiet /\ TrackedInv' /\ UNCHANGED <<proc, stray>> /\ ~Runs(n)'
         /\ managed' \in [Components -> Pids \cup {None}]
  <1>1. managed \in [Components -> Pids \cup {None}]
    BY DEF ClusterTypeOK
  <1>2. /\ proc[managed[n]] # n /\ UNCHANGED <<proc, stray>>
        /\ managed' = [managed EXCEPT ![n] = None]
    BY DEF Forget
  <1>3. ~Runs(n)
    BY <1>2 DEF Runs, Live
  <1>4. /\ managed' \in [Components -> Pids \cup {None}]
        /\ \A m \in Components : managed'[m] # managed[m] => managed'[m] = None /\ ~Runs(m)
    BY <1>1, <1>2, <1>3
  <1> QED
    BY <1>2, <1>3, <1>4, Erased

LEMMA Uninstalled ==
  ASSUME ClusterTypeOK, TrackedInv, UNCHANGED <<proc, stray, link>>,
         \A n \in Components : ~Runs(n),
         managed' \in {managed, [n \in Components |-> None]}
  PROVE  /\ Quiet /\ TrackedInv' /\ \A n \in Components : ~Runs(n)'
         /\ managed' \in [Components -> Pids \cup {None}]
  <1>1. managed \in [Components -> Pids \cup {None}]
    BY DEF ClusterTypeOK
  <1>2. /\ managed' \in [Components -> Pids \cup {None}]
        /\ \A m \in Components : managed'[m] # managed[m] => managed'[m] = None /\ ~Runs(m)
    BY <1>1
  <1> QED
    BY <1>2, Erased

-----------------------------------------------------------------------------
(* How a step leaves the command *)

\* A step of a command that goes on leaves it without a result.
LEMMA Working ==
  ASSUME ResultInv, todo # <<>>, result' = result
  PROVE  ResultInv'
  BY DEF ResultInv

LEMMA GivenUp ==
  ASSUME todo' = <<>>, result' \in {"failed", "deleted", "loaded"}
  PROVE  ResultInv'
  BY DEF ResultInv

\* A command is a load as long as it has the controller manager to start.
LEMMA Loads ==
  /\ Loading <=> <<"restart", Kcm>> \in Left
  /\ Loading' <=> <<"restart", Kcm>> \in Left'
  BY DEF Loading, Left, Range

\* Nothing is owed anew; a load goes on, or it is cut short.
LEMMA BackKept ==
  ASSUME BackInv, owed' => owed, cut => cut',
         owed' => managed'[Kcm] \in {managed[Kcm], None},
         owed' => (Kcm \in launched' => Kcm \in launched),
         Loading /\ <<"stop", Kcm>> \notin Left =>
           cut' \/ (Loading' /\ <<"stop", Kcm>> \notin Left')
  PROVE  BackInv'
  BY DEF BackInv

\* The event of a step is counted, or the step is none.
LEMMA Counted ==
  ASSUME ClusterTypeOK, Event \/ events' = events
  PROVE  events' \in 0..MaxEvents
  BY Bounds DEF ClusterTypeOK, Event

\* The next call of the command, and the calls after it.
LEMMA AtStep ==
  ASSUME PlanInv, NEW x, At(x)
  PROVE  /\ todo # <<>> /\ Head(todo) = x /\ Plan(Tail(todo)) /\ x \in Steps /\ x \in Left
         /\ Left = {x} \cup Range(Tail(todo))
         /\ \A y \in Range(Tail(todo)) : Before(x, y)
  BY Rest DEF PlanInv, Left, At

\* A call of a command that is done, other than the last of a load.
LEMMA Onward ==
  ASSUME PlanInv, NEW x, At(x), x[1] # "restart", todo' = Tail(todo)
  PROVE  Loading /\ <<"stop", Kcm>> \notin Left => Loading' /\ <<"stop", Kcm>> \notin Left'
  <1>1. Left = {x} \cup Left'
    BY AtStep DEF Left
  <1>2. x # <<"restart", Kcm>>
    OBVIOUS
  <1> QED
    BY <1>1, <1>2, Loads

LEMMA GoesOn ==
  ASSUME ClusterInv, Quiet, TrackedInv', ClusterTypeOK', UNCHANGED <<conf, kubeconfig, gen>>,
         NEW x, At(x), todo' = Tail(todo), result' = result, BackInv',
         x[1] \notin {"config", "ports", "kubeconfig", "restart"},
         \A n \in Components : x = Kill(n) => ~Runs(n)',
         x = <<"stop", Kcm>> => ~Runs(Kcm)'
  PROVE  ClusterInv'
  <1>1. /\ todo # <<>> /\ Head(todo) = x /\ todo' = Tail(todo) /\ Plan(todo')
        /\ result' = result
    BY AtStep DEF ClusterInv
  <1>2. Left' = Range(Tail(todo))
    BY <1>1 DEF Left
  <1>3. PlanInv' /\ ConfInv' /\ DownInv' /\ UpInv'
    BY <1>1, <1>2, Advanced DEF ClusterInv
  <1>4. LinkInv' /\ ResultInv'
    BY <1>1, QuietLinks, Working DEF ClusterInv
  <1> QED
    BY <1>3, <1>4 DEF ClusterInv

LEMMA GoesHome ==
  ASSUME ClusterInv, Quiet, TrackedInv', ClusterTypeOK', conf' = conf,
         kubeconfig' \in {kubeconfig, None}, todo' = <<>>, ResultInv', BackInv'
  PROVE  ClusterInv'
  <1>1. PlanInv' /\ ConfInv' /\ DownInv' /\ UpInv'
    <2>1. conf' = None => \A n \in Components : ~Runs(n)'
      BY DEF ClusterInv, ConfInv, Quiet
    <2>2. conf' = "plain" => ~Runs(Prometheus)'
      BY Known DEF ClusterInv, ConfInv, Quiet
    <2> QED
      BY <2>1, <2>2, Ended
  <1>2. LinkInv'
    BY QuietLinks DEF ClusterInv
  <1> QED
    BY <1>1, <1>2 DEF ClusterInv

-----------------------------------------------------------------------------
(* The user's commands *)

LEMMA CreationBegins ==
  ASSUME ClusterInv, NEW c \in Confs, NEW s, Creation(s, c), conf \in {None, c},
         \A n \in Components : Runs(n) => Kill(n) \in Range(s),
         Begin(s), Event \/ events' = events
  PROVE  ClusterInv'
  <1> USE DEF Begin, host, store, history
  <1>1. ClusterTypeOK'
    <2>1. events' \in 0..MaxEvents
      BY Counted DEF ClusterInv
    <2> QED
      BY <2>1 DEF ClusterInv, ClusterTypeOK, Results
  <1>2. Quiet /\ TrackedInv' /\ \A n \in Components : Runs(n)' <=> Runs(n)
    BY Same DEF ClusterInv
  <1>3. LinkInv'
    BY <1>2, QuietLinks DEF ClusterInv
  <1>4. /\ Plan(todo') /\ Left' = Range(s) /\ todo' # <<>> /\ Head(todo') = <<"config", c>>
        /\ {Call("ports"), Call("kubeconfig"), <<"config", c>>} \subseteq Left'
    BY Rest DEF Creation, Left
  <1>5. \A x \in Left' :
          /\ x[1] \notin {"stop", "apply", "restart", "uninstall"}
          /\ x[1] = "config" => x = <<"config", c>>
    BY <1>4 DEF Creation, UpCalls
  <1>6. PlanInv'
    <2>1. Call("apply") \notin Left'
      BY <1>5 DEF Call
    <2>2. \A x \in Left' : x[1] \in {"stop", "restart"} => x[2] = Kcm
      BY <1>5
    <2> QED
      BY <1>4, <2>1, <2>2 DEF PlanInv
  <1>7. ConfInv'
    <2>1. /\ conf' = None => \A n \in Components : ~Runs(n)'
          /\ conf' = "plain" => ~Runs(Prometheus)'
      BY <1>2, Known DEF ClusterInv, ConfInv
    <2>2. Head(todo')[1] = "config"
      BY <1>4
    <2>3. ASSUME NEW d \in Confs, <<"config", d>> \in Left'
          PROVE  conf' \in {None, d}
      <3>1. <<"config", d>>[1] = "config"
        OBVIOUS
      <3>2. <<"config", d>> = <<"config", c>>
        BY <1>5, <2>3, <3>1
      <3> QED
        BY <3>2
    <2>4. Fork(Prometheus) \in Left' => <<"config", "prometheus">> \in Left'
      BY <1>4 DEF Creation
    <2> QED
      BY <2>1, <2>2, <2>3, <2>4 DEF ConfInv
  <1>8. DownInv'
    <2>1. Call("apply") \notin Left'
      BY <1>5 DEF Call
    <2> QED
      BY <1>2, <1>4, <2>1 DEF DownInv
  <1>9. UpInv'
    BY <1>4 DEF UpInv, Upping
  <1>10. ResultInv'
    BY DEF ResultInv
  <1>11. BackInv'
    BY BackKept DEF ClusterInv, Idle, Loading
  <1> QED
    BY <1>1, <1>2, <1>3, <1>6, <1>7, <1>8, <1>9, <1>10, <1>11 DEF ClusterInv

LEMMA CreateNewStep == ClusterInv /\ CreateNew => ClusterInv'
  <1> SUFFICES ASSUME ClusterInv, CreateNew PROVE ClusterInv'
    OBVIOUS
  <1>1. PICK c \in Confs : conf = None /\ Begin(Create(c)) /\ events' = events
    BY DEF CreateNew
  <1>2. \A n \in Components : ~Runs(n)
    BY <1>1 DEF ClusterInv, ConfInv
  <1> QED
    BY <1>1, <1>2, Creating, CreationBegins

LEMMA CreateAgainStep == ClusterInv /\ CreateAgain => ClusterInv'
  <1> SUFFICES ASSUME ClusterInv, CreateAgain PROVE ClusterInv'
    OBVIOUS
  <1>1. conf \in Confs /\ Begin(Recreate(conf)) /\ events' = events
    BY DEF CreateAgain
  <1>2. \A n \in Components : Runs(n) => Kill(n) \in Range(Recreate(conf))
    BY <1>1, Recreating DEF ClusterInv, ConfInv
  <1> QED
    BY <1>1, <1>2, Recreating, CreationBegins

LEMMA CreateUnreadyStep == ClusterInv /\ CreateUnready => ClusterInv'
  <1> SUFFICES ASSUME ClusterInv, CreateUnready PROVE ClusterInv'
    OBVIOUS
  <1>1. conf \in Confs /\ Begin(Recreate(conf)) /\ Event
    BY DEF CreateUnready
  <1>2. \A n \in Components : Runs(n) => Kill(n) \in Range(Recreate(conf))
    BY <1>1, Recreating DEF ClusterInv, ConfInv
  <1> QED
    BY <1>1, <1>2, Recreating, CreationBegins

\* A delete or a load begins: a list without calls of Up.
LEMMA OtherBegins ==
  ASSUME ClusterInv, NEW s, Plan(s), conf \in Confs, Begin(s), Event,
         \A x \in Range(s) :
           /\ x[1] \in {"kill", "uninstall", "stop", "apply", "restart"}
           /\ x[1] \in {"stop", "restart"} => x[2] = Kcm,
         Call("uninstall") \in Range(s) =>
           \A n \in Components : Runs(n) => Kill(n) \in Range(s),
         Call("apply") \in Range(s) => {<<"stop", Kcm>>, <<"restart", Kcm>>} \subseteq Range(s)
  PROVE  ClusterInv'
  <1> USE DEF Begin, host, store, history
  <1>1. ClusterTypeOK'
    <2>1. events' \in 0..MaxEvents
      BY Counted DEF ClusterInv
    <2> QED
      BY <2>1 DEF ClusterInv, ClusterTypeOK, Results
  <1>2. Quiet /\ TrackedInv' /\ \A n \in Components : Runs(n)' <=> Runs(n)
    BY Same DEF ClusterInv
  <1>3. LinkInv'
    BY <1>2, QuietLinks DEF ClusterInv
  <1>4. Plan(todo') /\ Left' = Range(s)
    BY DEF Left
  <1>5. \A x \in Left' :
          /\ x[1] \notin {"config", "ports", "fork", "kubeconfig", "get_node"}
          /\ x[1] \in {"stop", "restart"} => x[2] = Kcm
    BY <1>4
  <1>6. PlanInv'
    BY <1>4, <1>5 DEF PlanInv, Call
  <1>7. ConfInv'
    <2>1. /\ conf' = None => \A n \in Components : ~Runs(n)'
          /\ conf' = "plain" => ~Runs(Prometheus)'
      BY <1>2, Known DEF ClusterInv, ConfInv
    <2>2. Fork(Prometheus) \notin Left' /\ \A c \in Confs : <<"config", c>> \notin Left'
      BY <1>5 DEF Fork
    <2> QED
      BY <2>1, <2>2 DEF ConfInv
  <1>8. DownInv'
    <2>1. Call("ports") \notin Left' /\ \A n \in Components : Fork(n) \notin Left'
      BY <1>5 DEF Call, Fork
    <2> QED
      BY <1>2, <1>4, <2>1 DEF DownInv
  <1>9. UpInv'
    BY <1>5 DEF UpInv, Upping
  <1>10. ResultInv'
    BY DEF ResultInv
  <1>11. BackInv'
    BY BackKept DEF ClusterInv, Idle, Loading
  <1> QED
    BY <1>1, <1>2, <1>3, <1>6, <1>7, <1>8, <1>9, <1>10, <1>11 DEF ClusterInv

LEMMA BeginDeleteStep == ClusterInv /\ BeginDelete => ClusterInv'
  <1> SUFFICES ASSUME ClusterInv, BeginDelete PROVE ClusterInv'
    OBVIOUS
  <1>1. conf \in Confs /\ Event /\ Begin(Delete(conf))
    BY DEF BeginDelete
  <1>2. \A n \in Components : Runs(n) => Kill(n) \in Range(Delete(conf))
    BY <1>1, Deleting DEF ClusterInv, ConfInv
  <1>3. Plan(Delete(conf)) /\ \A x \in Range(Delete(conf)) : x[1] \in {"kill", "uninstall"}
    BY <1>1, Deleting
  <1>4. Call("apply") \notin Range(Delete(conf))
    BY <1>3 DEF Call
  <1> QED
    BY <1>1, <1>2, <1>3, <1>4, OtherBegins

LEMMA BeginLoadStep == ClusterInv /\ BeginLoad => ClusterInv'
  <1> SUFFICES ASSUME ClusterInv, BeginLoad PROVE ClusterInv'
    OBVIOUS
  <1>1. conf \in Confs /\ Event /\ Begin(Load)
    BY DEF BeginLoad
  <1>2. /\ Plan(Load) /\ {<<"stop", Kcm>>, <<"restart", Kcm>>} \subseteq Range(Load)
        /\ \A x \in Range(Load) :
             /\ x[1] \in {"stop", "apply", "restart"}
             /\ x[1] \in {"stop", "restart"} => x[2] = Kcm
    BY LoadCalls DEF Call
  <1>3. Call("uninstall") \notin Range(Load)
    BY <1>2 DEF Call
  <1> QED
    BY <1>1, <1>2, <1>3, OtherBegins

LEMMA CreateReadyStep == ClusterInv /\ CreateReady => ClusterInv'
  <1> SUFFICES ASSUME ClusterInv, CreateReady PROVE ClusterInv'
    OBVIOUS
  <1> USE DEF CreateReady, host, store, history, Idle
  <1>1. ClusterTypeOK'
    BY DEF ClusterInv, ClusterTypeOK, Results
  <1>2. Quiet /\ TrackedInv'
    BY Same DEF ClusterInv
  <1>3. OnPorts(kubeconfig)
    <2>1. PICK a \in Live(Apiserver) : link[a] = kubeconfig
      BY DEF Reachable
    <2>2. a \notin Astray(Apiserver) /\ Apiserver \in Servers
      BY <2>1 DEF ClusterInv, LinkInv, Servers
    <2>3. a = managed[Apiserver]
      BY <2>2 DEF Astray
    <2>4. Runs(Apiserver) /\ link[managed[Apiserver]] = kubeconfig
      BY <2>1, <2>3 DEF Runs
    <2> QED
      BY <2>2, <2>4 DEF ClusterInv, LinkInv, OffPorts
  <1>4. ResultInv'
    <2>1. OnPorts(kubeconfig)'
      BY <1>2, <1>3 DEF OnPorts, Quiet
    <2> QED
      BY <2>1 DEF ResultInv
  <1>5. BackInv'
    BY BackKept DEF ClusterInv, Loading
  <1> QED
    BY <1>1, <1>2, <1>4, <1>5, GoesHome

LEMMA RefuseStep == ClusterInv /\ Refuse => ClusterInv'
  <1> SUFFICES ASSUME ClusterInv, Refuse PROVE ClusterInv'
    OBVIOUS
  <1> USE DEF Refuse, host, store, history, Idle
  <1>1. ClusterTypeOK'
    BY DEF ClusterInv, ClusterTypeOK, Results
  <1>2. Quiet /\ TrackedInv'
    BY Same DEF ClusterInv
  <1>3. ResultInv'
    BY GivenUp
  <1>4. BackInv'
    BY BackKept DEF ClusterInv, Loading
  <1> QED
    BY <1>1, <1>2, <1>3, <1>4, GoesHome

-----------------------------------------------------------------------------
(* The calls that start nothing *)

LEMMA DownloadStep == ClusterInv /\ Download => ClusterInv'
  <1> SUFFICES ASSUME ClusterInv, Download PROVE ClusterInv'
    OBVIOUS
  <1> USE DEF Download, Continue, host, store
  <1>1. Call("download")[1] = "download"
    BY DEF Call
  <1>2. ClusterTypeOK'
    BY DEF ClusterInv, ClusterTypeOK
  <1>3. Quiet /\ TrackedInv'
    BY Same DEF ClusterInv
  <1>4. Call("download") # <<"stop", Kcm>> /\ \A n \in Components : Call("download") # Kill(n)
    BY DEF Call, Kill
  <1>5. BackInv'
    BY <1>1, Onward, BackKept DEF ClusterInv
  <1> QED
    BY <1>1, <1>2, <1>3, <1>4, <1>5, GoesOn

LEMMA ApplyStep == ClusterInv /\ Apply => ClusterInv'
  <1> SUFFICES ASSUME ClusterInv, Apply PROVE ClusterInv'
    OBVIOUS
  <1> USE DEF Apply, host, store
  <1>1. Call("apply")[1] = "apply"
    BY DEF Call
  <1>2. ClusterTypeOK'
    BY DEF ClusterInv, ClusterTypeOK
  <1>3. Quiet /\ TrackedInv'
    BY Same DEF ClusterInv
  <1>4. Call("apply") # <<"stop", Kcm>> /\ \A n \in Components : Call("apply") # Kill(n)
    BY DEF Call, Kill
  \* What is owed from here on is owed by this load.
  <1>5. BackInv'
    <2>1. /\ Call("apply") \in Left /\ Left = {Call("apply")} \cup Left'
          /\ \A y \in Left' : Before(Call("apply"), y)
      BY AtStep DEF ClusterInv, Left
    <2>2. <<"restart", Kcm>> \in Left' /\ <<"stop", Kcm>> \notin Left'
      BY <2>1 DEF ClusterInv, PlanInv, Before, Call
    <2> QED
      BY <2>2, Loads DEF ClusterInv, BackInv
  <1> QED
    BY <1>1, <1>2, <1>3, <1>4, <1>5, GoesOn

LEMMA WaitStep == ClusterInv /\ Wait => ClusterInv'
  <1> SUFFICES ASSUME ClusterInv, Wait PROVE ClusterInv'
    OBVIOUS
  <1> USE DEF Wait, host, store
  <1>1. Quiet /\ TrackedInv'
    BY Same DEF ClusterInv
  <1>2. CASE Continue
    <2>1. Call("wait")[1] = "wait"
      BY DEF Call
    <2>2. ClusterTypeOK'
      BY <1>2 DEF ClusterInv, ClusterTypeOK, Continue
    <2>3. Call("wait") # <<"stop", Kcm>> /\ \A n \in Components : Call("wait") # Kill(n)
      BY DEF Call, Kill
    <2>4. BackInv'
      BY <1>2, <2>1, Onward, BackKept DEF ClusterInv, Continue
    <2> QED
      BY <1>1, <1>2, <2>1, <2>2, <2>3, <2>4, GoesOn DEF Continue
  <1>3. CASE Return("failed")
    <2>1. ClusterTypeOK'
      BY <1>3 DEF ClusterInv, ClusterTypeOK, Return, Results
    <2>2. todo' = <<>> /\ ResultInv'
      BY <1>3, GivenUp DEF Return
    <2>3. BackInv'
      <3>1. ~Loading
        BY AtStep, Loads DEF ClusterInv, Before, Call
      <3> QED
        BY <1>3, <3>1, BackKept DEF ClusterInv, Return
    <2> QED
      BY <1>1, <2>1, <2>2, <2>3, GoesHome
  <1> QED
    BY <1>2, <1>3

LEMMA GetNodeStep == ClusterInv /\ GetNode => ClusterInv'
  <1> SUFFICES ASSUME ClusterInv, GetNode PROVE ClusterInv'
    OBVIOUS
  <1> USE DEF GetNode, Return, host, store
  <1>1. Quiet /\ TrackedInv'
    BY Same DEF ClusterInv
  <1>2. ClusterTypeOK'
    BY DEF ClusterInv, ClusterTypeOK, Results
  <1>3. OnPorts(kubeconfig)
    <2>1. Call("get_node")[1] = "get_node" /\ Call("get_node") \in Left
      BY AtStep DEF ClusterInv, Call
    <2>2. Call("ports") \notin Left /\ Call("kubeconfig") \notin Left
      <3>1. /\ Left = {Call("get_node")} \cup Range(Tail(todo))
            /\ \A y \in Range(Tail(todo)) : Before(Call("get_node"), y)
        BY AtStep DEF ClusterInv
      <3> QED
        BY <3>1 DEF Before, Call
    <2>3. Upping
      BY <2>1, <2>2 DEF Upping
    <2> QED
      BY <2>2, <2>3 DEF ClusterInv, UpInv
  <1>4. ResultInv'
    <2>1. OnPorts(kubeconfig)'
      BY <1>1, <1>3 DEF OnPorts, Quiet
    <2> QED
      BY <2>1 DEF ResultInv
  <1>5. BackInv'
    <2>1. ~Loading
      BY AtStep, Loads DEF ClusterInv, Before, Call
    <2> QED
      BY <2>1, BackKept DEF ClusterInv
  <1> QED
    BY <1>1, <1>2, <1>4, <1>5, GoesHome

\* A load that makes the supervisor forget the controller manager owes it.
LEMMA ForgottenBy ==
  ASSUME BackInv, managed \in [Components -> Pids \cup {None}],
         NEW n \in Components, ForgetBy(n), NEW x, x # <<"restart", Kcm>>,
         Left = {x} \cup Left', \A y \in Left' : y[1] # "stop",
         UNCHANGED <<launched, cut>>
  PROVE  BackInv'
  <1>1. managed' = [managed EXCEPT ![n] = None] /\ owed' = (owed \/ (n = Kcm /\ Loading))
    BY DEF ForgetBy, Forget
  <1>2. Loading => Loading' /\ <<"stop", Kcm>> \notin Left'
    BY Loads
  <1>3. managed'[Kcm] \in {managed[Kcm], None} /\ (n = Kcm => managed'[Kcm] = None)
    BY <1>1, Known
  <1>4. CASE n = Kcm /\ Loading
    BY <1>2, <1>3, <1>4 DEF BackInv
  <1>5. CASE ~(n = Kcm /\ Loading)
    BY <1>1, <1>2, <1>3, <1>5, BackKept
  <1> QED
    BY <1>4, <1>5

LEMMA KillSteps == \A n \in Components : ClusterInv /\ KillStep(n) => ClusterInv'
  <1> SUFFICES ASSUME NEW n \in Components, ClusterInv, KillStep(n) PROVE ClusterInv'
    OBVIOUS
  <1>1. /\ At(Kill(n)) \/ At(<<"stop", n>>)
        /\ UNCHANGED <<conf, kubeconfig, gen, link, launched>>
    BY DEF KillStep, store
  <1>2. PICK x \in {Kill(n), <<"stop", n>>} : At(x)
    BY <1>1
  <1>3. x[1] \notin {"config", "ports", "kubeconfig", "restart"}
    BY <1>2 DEF Kill
  <1>4. /\ \A m \in Components : x = Kill(m) => m = n
        /\ x = <<"stop", Kcm>> => n = Kcm
    BY <1>2 DEF Kill
  <1>11. /\ Left = {x} \cup Range(Tail(todo)) /\ x # <<"restart", Kcm>>
         /\ \A y \in Range(Tail(todo)) : y[1] # "stop"
    <2>1. /\ Left = {x} \cup Range(Tail(todo))
          /\ \A y \in Range(Tail(todo)) : Before(x, y)
      BY <1>2, AtStep DEF ClusterInv
    <2> QED
      BY <1>2, <1>3, <2>1 DEF Before, Kill
  \* The process is signalled, and forgotten by the next call.
  <1>5. CASE Signal(n) /\ todo' = <<<<"forget", n>>>> \o Tail(todo) /\ UNCHANGED <<result, events, history>>
    <2>1. /\ Quiet /\ TrackedInv' /\ managed' = managed /\ ~Runs(n)'
          /\ proc' \in [Pids -> Owners] /\ stray' \subseteq Pids
      BY <1>1, <1>5, Signalled DEF ClusterInv
    <2>2. ClusterTypeOK'
      BY <1>1, <1>5, <2>1 DEF ClusterInv, ClusterTypeOK, history
    <2>3. /\ todo # <<>> /\ Head(todo) = x /\ Plan(Tail(todo))
      BY <1>2, AtStep DEF ClusterInv
    <2> DEFINE f == <<"forget", n>>
    <2>4. Plan(<<f>>) /\ Range(<<f>>) = {f} /\ \A y : y[1] # "stop" => Before(f, y)
      BY Calls, Single DEF Before
    <2> HIDE DEF f
    <2>5. Plan(todo') /\ Left' = {f} \cup Range(Tail(todo))
      <3>1. \A y \in Range(Tail(todo)) : Before(f, y)
        BY <1>11, <2>4
      <3> QED
        BY <1>5, <2>3, <2>4, <3>1, Joined DEF Left, f
    <2>6. \A y \in Left' : y \in Range(Tail(todo)) \/ y[1] = "forget"
      BY <2>5 DEF f
    <2>7. PlanInv' /\ ConfInv' /\ DownInv' /\ UpInv'
      BY <1>1, <1>3, <1>4, <2>1, <2>3, <2>5, <2>6, Advanced DEF ClusterInv
    <2>8. LinkInv' /\ ResultInv'
      BY <1>1, <1>5, <2>1, <2>3, QuietLinks, Working DEF ClusterInv
    <2>9. BackInv'
      <3>1. Loading /\ <<"stop", Kcm>> \notin Left => Loading' /\ <<"stop", Kcm>> \notin Left'
        BY <1>11, <2>5, Loads DEF f
      <3> QED
        BY <1>1, <1>5, <2>1, <3>1, BackKept DEF ClusterInv, history
    <2> QED
      BY <2>1, <2>2, <2>7, <2>8, <2>9 DEF ClusterInv
  <1>6. ~Runs(n) \/ Signal(n)
    <2>1. Gone(n) => proc[managed[n]] # n
      BY OwnersDistinct DEF Gone
    <2>2. Refused(n) => proc[managed[n]] # n
      BY OwnersDistinct DEF Refused
    <2>3. managed[n] = None => managed[n] \notin Pids
      BY OwnersDistinct
    <2> QED
      BY <2>1, <2>2, <2>3 DEF KillStep, Runs, Live
  <1>7. CASE Gone(n) /\ ForgetBy(n) /\ Continue
    <2>1. /\ Quiet /\ TrackedInv' /\ UNCHANGED <<proc, stray>> /\ ~Runs(n)'
          /\ managed' \in [Components -> Pids \cup {None}]
      BY <1>1, <1>7, Forgotten DEF ClusterInv, ForgetBy
    <2>2. ClusterTypeOK'
      BY <1>1, <1>7, <2>1 DEF ClusterInv, ClusterTypeOK, Continue, ForgetBy
    <2>3. BackInv'
      BY <1>1, <1>7, <1>11, ForgottenBy DEF ClusterInv, ClusterTypeOK, Continue, Left
    <2> QED
      BY <1>1, <1>2, <1>3, <1>4, <1>7, <2>1, <2>2, <2>3, GoesOn DEF Continue
  <1>8. CASE Spare /\ ~Signal(n) /\ Continue
    <2>1. Quiet /\ TrackedInv' /\ ~Runs(n)'
      BY <1>1, <1>6, <1>8, Same DEF ClusterInv, host, Spare
    <2>2. ClusterTypeOK'
      BY <1>1, <1>8 DEF ClusterInv, ClusterTypeOK, Continue, host, Spare
    <2>3. BackInv'
      BY <1>1, <1>2, <1>3, <1>8, Onward, BackKept DEF ClusterInv, Continue, host, Spare
    <2> QED
      BY <1>1, <1>2, <1>3, <1>4, <1>8, <2>1, <2>2, <2>3, GoesOn DEF Continue
  <1>9. CASE Spare /\ At(<<"stop", n>>) /\ Return("failed")
    <2>1. Quiet /\ TrackedInv'
      BY <1>1, <1>9, Same DEF ClusterInv, host, Spare
    <2>2. ClusterTypeOK'
      BY <1>1, <1>9 DEF ClusterInv, ClusterTypeOK, Return, Results, host, Spare
    <2>3. todo' = <<>> /\ ResultInv'
      BY <1>9, GivenUp DEF Return
    <2>4. BackInv'
      <3>1. ~Loading \/ <<"stop", Kcm>> \in Left
        BY <1>9, AtStep DEF ClusterInv, PlanInv
      <3> QED
        BY <1>1, <1>9, <3>1, BackKept DEF ClusterInv, Return, host, Spare
    <2> QED
      BY <1>1, <2>1, <2>2, <2>3, <2>4, GoesHome
  <1>10. managed[n] = None \/ Refused(n) => ~Signal(n)
    BY DEF Refused, Signal
  <1> QED
    BY <1>5, <1>7, <1>8, <1>9, <1>10 DEF KillStep

LEMMA ForgetSteps == \A n \in Components : ClusterInv /\ ForgetStep(n) => ClusterInv'
  <1> SUFFICES ASSUME NEW n \in Components, ClusterInv, ForgetStep(n) PROVE ClusterInv'
    OBVIOUS
  <1> USE DEF ForgetStep, ForgetBy, Continue, store
  <1>1. /\ Quiet /\ TrackedInv' /\ UNCHANGED <<proc, stray>>
        /\ managed' \in [Components -> Pids \cup {None}]
    BY Forgotten DEF ClusterInv, ForgetBy
  <1>2. ClusterTypeOK'
    BY <1>1 DEF ClusterInv, ClusterTypeOK, Continue
  <1>3. <<"forget", n>>[1] = "forget"
    OBVIOUS
  <1>4. <<"forget", n>> # <<"stop", Kcm>> /\ \A m \in Components : <<"forget", n>> # Kill(m)
    BY DEF Kill
  <1>5. BackInv'
    <2>1. /\ Left = {<<"forget", n>>} \cup Left'
          /\ \A y \in Left' : Before(<<"forget", n>>, y)
      BY AtStep DEF ClusterInv, Left
    <2>2. \A y \in Left' : y[1] # "stop"
      BY <2>1 DEF Before
    <2> QED
      BY <2>1, <2>2, ForgottenBy DEF ClusterInv, ClusterTypeOK
  <1> QED
    BY <1>1, <1>2, <1>3, <1>4, <1>5, GoesOn

LEMMA UninstallStep == ClusterInv /\ Uninstall => ClusterInv'
  <1> SUFFICES ASSUME ClusterInv, Uninstall PROVE ClusterInv'
    OBVIOUS
  <1> USE DEF Uninstall, Return
  <1>1. \A n \in Components : ~Runs(n)
    <2>1. /\ Left = {Call("uninstall")} \cup Range(Tail(todo))
          /\ \A y \in Range(Tail(todo)) : Before(Call("uninstall"), y)
      BY AtStep DEF ClusterInv
    <2>2. \A n \in Components : Kill(n) \notin Left
      BY <2>1 DEF Before, Call, Kill
    <2> QED
      BY <2>1, <2>2 DEF ClusterInv, DownInv
  <1>2. /\ Quiet /\ TrackedInv' /\ \A n \in Components : ~Runs(n)'
        /\ managed' \in [Components -> Pids \cup {None}]
    BY <1>1, Uninstalled DEF ClusterInv
  <1>3. ClusterTypeOK'
    BY <1>2 DEF ClusterInv, ClusterTypeOK, Results
  <1>4. PlanInv' /\ ConfInv' /\ DownInv' /\ UpInv'
    BY <1>2, Known, Ended
  <1>5. LinkInv' /\ ResultInv'
    BY <1>2, QuietLinks, GivenUp DEF ClusterInv
  \* There is no cmdline file left to start the controller manager from.
  <1>6. BackInv'
    BY Known DEF ClusterInv, BackInv
  <1> QED
    BY <1>2, <1>3, <1>4, <1>5, <1>6 DEF ClusterInv

-----------------------------------------------------------------------------
(* The calls that write, choose ports and start *)

LEMMA WriteConfigStep == ClusterInv /\ WriteConfig => ClusterInv'
  <1> SUFFICES ASSUME ClusterInv, WriteConfig PROVE ClusterInv'
    OBVIOUS
  <1>1. PICK c \in Confs :
          /\ At(<<"config", c>>) /\ conf' = c /\ Continue
          /\ UNCHANGED <<managed, proc, stray, kubeconfig, gen, link, launched, owed>>
    BY DEF WriteConfig, host
  <1>2. /\ todo # <<>> /\ todo' = Tail(todo) /\ Plan(todo') /\ UNCHANGED <<result, events, cut>>
        /\ <<"config", c>> \in Left
        /\ Left = {<<"config", c>>} \cup Left' /\ \A y \in Left' : Before(<<"config", c>>, y)
    BY <1>1, AtStep DEF ClusterInv, Continue, Left
  <1>3. \A y \in Left' : y[1] # "config"
    BY <1>2 DEF Before
  <1>4. \A y \in Left : y[1] # "config" => y \in Left'
    BY <1>2
  <1>5. Quiet /\ TrackedInv' /\ \A n \in Components : Runs(n)' <=> Runs(n)
    BY <1>1, Same DEF ClusterInv
  <1>6. ClusterTypeOK'
    BY <1>1, <1>2 DEF ClusterInv, ClusterTypeOK
  <1>7. /\ Call("ports") \in Left' <=> Call("ports") \in Left
        /\ Call("kubeconfig") \in Left' <=> Call("kubeconfig") \in Left
        /\ Call("uninstall") \in Left' <=> Call("uninstall") \in Left
        /\ Call("apply") \in Left' <=> Call("apply") \in Left
        /\ <<"stop", Kcm>> \in Left' <=> <<"stop", Kcm>> \in Left
        /\ \A n \in Components : Kill(n) \in Left' <=> Kill(n) \in Left
        /\ \A n \in Components : Fork(n) \in Left' <=> Fork(n) \in Left
    BY <1>2, <1>4 DEF Call, Kill, Fork
  <1>8. PlanInv'
    BY <1>2, <1>4, <1>7 DEF ClusterInv, PlanInv
  <1>9. ConfInv'
    <2>1. conf \in {None, c}
      BY <1>2 DEF ClusterInv, ConfInv
    <2>2. conf' # None
      BY <1>1, Names DEF Confs
    <2>3. conf' = "plain" => ~Runs(Prometheus)'
      BY <1>1, <1>5, <2>1, Known DEF ClusterInv, ConfInv
    <2>4. \A d \in Confs : <<"config", d>> \notin Left'
      BY <1>3
    <2>5. ASSUME Fork(Prometheus) \in Left' PROVE conf' = "prometheus"
      <3>1. conf = "prometheus" \/ <<"config", "prometheus">> \in Left
        BY <1>7, <2>5, Known DEF ClusterInv, ConfInv
      <3>2. CASE conf = "prometheus"
        BY <1>1, <2>1, <3>2, Names
      <3>3. CASE <<"config", "prometheus">> \in Left
        <4>1. "prometheus" \in Confs
          BY DEF Confs
        <4>2. <<"config", "prometheus">> = <<"config", c>>
          BY <1>2, <2>4, <3>3, <4>1
        <4>3. c = "prometheus"
          BY <4>2
        <4> QED
          BY <1>1, <4>3
      <3> QED
        BY <3>1, <3>2, <3>3
    <2> QED
      BY <1>1, <2>2, <2>3, <2>4, <2>5 DEF ConfInv
  <1>10. DownInv'
    BY <1>5, <1>7, Known DEF ClusterInv, DownInv
  <1>11. UpInv'
    <2>1. Upping' => Upping
      BY <1>2, <1>7 DEF Upping
    <2>2. OnPorts(gen) => OnPorts(gen)'
      BY <1>1, <1>5 DEF OnPorts, Quiet
    <2> QED
      BY <1>1, <1>5, <1>7, <2>1, <2>2, Known DEF ClusterInv, UpInv, Quiet
  <1>12. LinkInv' /\ ResultInv'
    BY <1>1, <1>2, <1>5, QuietLinks, Working DEF ClusterInv
  <1>13. BackInv'
    BY <1>1, <1>2, Onward, BackKept DEF ClusterInv
  <1> QED
    BY <1>5, <1>6, <1>8, <1>9, <1>10, <1>11, <1>12, <1>13 DEF ClusterInv

LEMMA PortsStep == ClusterInv /\ PickPorts => ClusterInv'
  <1> SUFFICES ASSUME ClusterInv, PickPorts PROVE ClusterInv'
    OBVIOUS
  <1> DEFINE h == Call("ports")
  <1>1. /\ At(h) /\ Continue /\ gen' \in Gens \ InUse
        /\ UNCHANGED <<managed, proc, stray, conf, kubeconfig, link, launched, owed>>
    BY DEF PickPorts, host
  <1>2. /\ todo # <<>> /\ Head(todo) = h /\ todo' = Tail(todo) /\ Plan(todo')
        /\ UNCHANGED <<result, events, cut>>
        /\ Left = {h} \cup Left' /\ \A y \in Left' : Before(h, y)
    BY <1>1, AtStep DEF ClusterInv, Continue, Left
  <1>3. h[1] = "ports" /\ h \in Left
    BY <1>2 DEF Call
  <1>4. \A y \in Left' : y[1] \notin {"kill", "ports"}
    BY <1>2, <1>3 DEF Before
  <1> HIDE DEF h
  <1>5. Call("kubeconfig") \in Left'
    <2>1. Call("kubeconfig") \in Left
      BY <1>3 DEF ClusterInv, PlanInv
    <2> QED
      BY <1>2, <1>3, <2>1 DEF Call
  <1>6. \A n \in Components : ~Runs(n)
    <2>1. \A n \in Components : Kill(n) \notin Left
      BY <1>2, <1>3, <1>4 DEF Kill
    <2> QED
      BY <1>3, <2>1 DEF ClusterInv, DownInv, h
  <1>7. Quiet /\ TrackedInv' /\ \A n \in Components : ~Runs(n)'
    BY <1>1, <1>6, Same DEF ClusterInv
  <1>8. ClusterTypeOK'
    BY <1>1, <1>2 DEF ClusterInv, ClusterTypeOK
  <1>9. PlanInv'
    BY <1>2, <1>3, <1>5 DEF ClusterInv, PlanInv
  <1>10. ConfInv'
    <2>1. conf \in Confs
      BY <1>2, <1>3 DEF ClusterInv, ConfInv
    <2>2. /\ \A c \in Confs : <<"config", c>> \in Left <=> <<"config", c>> \in Left'
          /\ <<"config", "prometheus">> \in Left <=> <<"config", "prometheus">> \in Left'
          /\ Fork(Prometheus) \in Left <=> Fork(Prometheus) \in Left'
      BY <1>2, <1>3 DEF Fork
    <2> QED
      BY <1>1, <1>7, <2>1, <2>2, Known DEF ClusterInv, ConfInv
  <1>11. DownInv'
    BY <1>7, Known DEF DownInv
  <1>12. UpInv'
    <2>1. gen' # kubeconfig
      BY <1>1 DEF InUse
    <2>2. ASSUME NEW n \in Servers, NEW p \in Astray(n) PROVE link[p] # gen'
      <3>1. p \in Live(n) /\ n \in Components
        BY Known DEF Astray
      <3> QED
        BY <1>1, <3>1 DEF InUse
    <2>3. OnPorts(gen)'
      BY <1>7 DEF OnPorts
    <2> QED
      BY <1>1, <1>5, <1>7, <2>1, <2>2, <2>3, Known DEF UpInv, Quiet
  <1>13. LinkInv' /\ ResultInv'
    BY <1>1, <1>2, <1>7, QuietLinks, Working DEF ClusterInv
  <1>14. BackInv'
    BY <1>1, <1>2, <1>3, Onward, BackKept DEF ClusterInv
  <1> QED
    BY <1>7, <1>8, <1>9, <1>10, <1>11, <1>12, <1>13, <1>14 DEF ClusterInv

LEMMA WriteKubeconfigStep == ClusterInv /\ WriteKubeconfig => ClusterInv'
  <1> SUFFICES ASSUME ClusterInv, WriteKubeconfig PROVE ClusterInv'
    OBVIOUS
  <1> DEFINE h == Call("kubeconfig")
  <1>1. /\ At(h) /\ Continue /\ kubeconfig' = gen
        /\ UNCHANGED <<managed, proc, stray, conf, gen, link, launched, owed>>
    BY DEF WriteKubeconfig, host
  <1>2. /\ todo # <<>> /\ Head(todo) = h /\ todo' = Tail(todo) /\ Plan(todo')
        /\ UNCHANGED <<result, events, cut>>
        /\ Left = {h} \cup Left' /\ \A y \in Left' : Before(h, y)
    BY <1>1, AtStep DEF ClusterInv, Continue, Left
  <1>3. h[1] = "kubeconfig" /\ h \in Left
    BY <1>2 DEF Call
  <1>4. \A y \in Left' : /\ y[1] \notin {"ports", "kubeconfig"}
                         /\ y[1] = "fork" => y[2] \notin Servers
    BY <1>2, <1>3 DEF Before
  <1>5. Call("kubeconfig") \notin Left' /\ Call("ports") \notin Left'
    BY <1>4 DEF Call
  <1>6. Call("ports") \notin Left /\ Upping
    <2>1. Call("ports") # h
      BY <1>3 DEF Call
    <2> QED
      BY <1>2, <1>3, <1>5, <2>1 DEF Upping
  <1> HIDE DEF h
  <1>7. /\ gen \in Gens /\ OnPorts(gen) /\ gen # kubeconfig
        /\ \A n \in Servers : \A p \in Astray(n) : link[p] # gen
    BY <1>3, <1>6 DEF ClusterInv, UpInv, h
  <1>8. Quiet /\ TrackedInv' /\ \A n \in Components : Runs(n)' <=> Runs(n)
    BY <1>1, Same DEF ClusterInv
  <1>9. ClusterTypeOK'
    BY <1>1, <1>2 DEF ClusterInv, ClusterTypeOK
  <1>10. PlanInv'
    BY <1>2, <1>3, <1>4 DEF ClusterInv, PlanInv
  <1>11. \A x \in Left : x[1] # "kubeconfig" => x \in Left'
    BY <1>2, <1>3
  <1>12. ConfInv'
    <2>1. conf \in Confs
      BY <1>2, <1>3 DEF ClusterInv, ConfInv
    <2>2. /\ \A c \in Confs : <<"config", c>> \in Left <=> <<"config", c>> \in Left'
          /\ <<"config", "prometheus">> \in Left <=> <<"config", "prometheus">> \in Left'
          /\ Fork(Prometheus) \in Left <=> Fork(Prometheus) \in Left'
      BY <1>2, <1>11 DEF Fork
    <2> QED
      BY <1>1, <1>8, <2>1, <2>2, Known DEF ClusterInv, ConfInv
  <1>13. DownInv'
    <2>1. /\ Call("uninstall") \in Left' <=> Call("uninstall") \in Left
          /\ Call("apply") \in Left' <=> Call("apply") \in Left
          /\ <<"stop", Kcm>> \in Left' <=> <<"stop", Kcm>> \in Left
          /\ \A n \in Components : Kill(n) \in Left' <=> Kill(n) \in Left
          /\ \A n \in Components : Fork(n) \in Left' <=> Fork(n) \in Left
      BY <1>2, <1>11 DEF Call, Kill, Fork
    <2> QED
      BY <1>5, <1>6, <1>8, <2>1, Known DEF ClusterInv, DownInv
  <1>14. OnPorts(gen)'
    BY <1>1, <1>7, <1>8 DEF OnPorts, Quiet
  <1>15. LinkInv'
    <2>1. OnPorts(kubeconfig)'
      BY <1>1, <1>14 DEF OnPorts
    <2>2. \A n \in Servers : \A p \in Live(n)' : link'[p] \in Gens
      BY <1>8, Known DEF ClusterInv, LinkInv, Quiet
    <2>3. \A n \in Servers : \A p \in Astray(n)' : link'[p] # kubeconfig'
      BY <1>1, <1>7, <1>8, Known DEF Quiet
    <2> QED
      BY <2>1, <2>2, <2>3 DEF LinkInv
  <1>16. UpInv'
    BY <1>1, <1>5, <1>7, <1>14 DEF UpInv
  <1>17. ResultInv'
    BY <1>2, Working DEF ClusterInv
  <1>18. BackInv'
    BY <1>1, <1>2, <1>3, Onward, BackKept DEF ClusterInv
  <1> QED
    BY <1>8, <1>9, <1>10, <1>12, <1>13, <1>15, <1>16, <1>17, <1>18 DEF ClusterInv

-----------------------------------------------------------------------------
(* The calls that start a process *)

\* The process that is started is the only one that is linked anew.
LEMMA Started ==
  ASSUME ClusterTypeOK, TrackedInv, NEW n \in Components, Numbered(n), managed[n] = None,
         NEW q, q = NextNumber(n), NEW g \in Gens \cup {None},
         proc' = [proc EXCEPT ![q] = n], link' = [link EXCEPT ![q] = g],
         \/ managed' = [managed EXCEPT ![n] = q] /\ stray' = stray
         \/ managed' = managed /\ stray' = stray \cup {q}
  PROVE  /\ q \in Pids /\ link'[q] = g /\ TrackedInv' /\ ~Runs(n)
         /\ proc' \in [Pids -> Owners] /\ stray' \subseteq Pids
         /\ managed' \in [Components -> Pids \cup {None}]
         /\ link' \in [Pids -> Gens \cup {None}]
         /\ Live(n)' = Live(n) \cup {q}
         /\ \A m \in Components : \A p \in Live(m) : link'[p] = link[p]
         /\ \A m \in Components \ {n} :
              /\ Live(m)' = Live(m) /\ Astray(m)' = Astray(m)
              /\ managed'[m] = managed[m] /\ (Runs(m)' <=> Runs(m))
         /\ Runs(n)' => managed'[n] = q
         /\ Astray(n)' = IF managed'[n] = q THEN Astray(n) ELSE Astray(n) \cup {q}
  <1>1. /\ proc \in [Pids -> Owners] /\ stray \subseteq Pids
        /\ managed \in [Components -> Pids \cup {None}]
        /\ link \in [Pids -> Gens \cup {None}] /\ n \in Owners
    BY DEF ClusterTypeOK, Owners
  <1>2. q \in Pids /\ proc[q] = Free
    <2>1. \E r \in NumbersOf[n] : proc[r] = Free
      BY DEF Numbered
    <2>2. q \in NumbersOf[n] /\ proc[q] = Free
      BY <2>1 DEF NextNumber
    <2> QED
      BY <2>2, Numbers
  <1>3. \A m \in Components : m # Free
    BY OwnersDistinct
  <1>4. \A m \in Components : q \notin Live(m)
    BY <1>2, <1>3 DEF Live
  <1>5. Live(n)' = Live(n) \cup {q} /\ \A m \in Components \ {n} : Live(m)' = Live(m)
    BY <1>1, <1>2, <1>3 DEF Live
  <1>6. None \notin Pids
    BY OwnersDistinct
  <1>7. ~Runs(n) /\ Astray(n) = Live(n)
    BY <1>6 DEF Runs, Astray, Live
  <1>8. \A m \in Components \ {n} : managed'[m] = managed[m]
    BY <1>1
  <1>9. \A m \in Components \ {n} :
          /\ Live(m)' = Live(m) /\ Astray(m)' = Astray(m)
          /\ managed'[m] = managed[m] /\ (Runs(m)' <=> Runs(m))
    BY <1>5, <1>8 DEF Astray, Runs
  <1>10. \A m \in Components : \A p \in Live(m) : link'[p] = link[p]
    BY <1>1, <1>4 DEF Live
  <1>11. managed'[n] = q \/ managed'[n] = None
    BY <1>1
  <1>12. Runs(n)' => managed'[n] = q
    BY <1>5, <1>6, <1>11, <1>2 DEF Runs, Live
  <1>13. Astray(n)' = IF managed'[n] = q THEN Astray(n) ELSE Astray(n) \cup {q}
    <2>1. CASE managed'[n] = q
      BY <1>4, <1>5, <1>7, <2>1 DEF Astray
    <2>2. CASE managed'[n] # q
      <3>1. managed'[n] \notin Live(n)'
        BY <1>2, <1>6, <1>11, <2>2 DEF Live
      <3> QED
        BY <1>5, <1>7, <2>2, <3>1 DEF Astray
    <2> QED
      BY <2>1, <2>2
  <1>14. TrackedInv'
    <2>1. q \in stray' \cup {managed'[n]} /\ stray \subseteq stray'
      BY <1>1
    <2>2. Live(n) \subseteq stray
      BY <1>6 DEF TrackedInv, Live
    <2> QED
      BY <1>5, <1>8, <2>1, <2>2 DEF TrackedInv
  <1>15. /\ proc' \in [Pids -> Owners] /\ stray' \subseteq Pids
         /\ managed' \in [Components -> Pids \cup {None}]
         /\ link' \in [Pids -> Gens \cup {None}] /\ link'[q] = g
    BY <1>1, <1>2
  <1> QED
    BY <1>2, <1>5, <1>7, <1>9, <1>10, <1>12, <1>13, <1>14, <1>15

\* What an Up knows when it starts a component.
LEMMA AtFork ==
  ASSUME ClusterInv, NEW n \in Components, At(Fork(n))
  PROVE  /\ Call("ports") \notin Left /\ Call("uninstall") \notin Left
         /\ Call("apply") \notin Left /\ \A c \in Confs : <<"config", c>> \notin Left
         /\ gen \in Gens /\ OnPorts(gen) /\ Ports(n) = gen
         /\ n \in Servers => gen # kubeconfig
         /\ n \notin Servers => gen = kubeconfig
         /\ conf \in Confs /\ (n = Prometheus => conf = "prometheus")
  <1> DEFINE h == Fork(n)
             T == Range(Tail(todo))
  <1>1. todo # <<>> /\ Head(todo) = h /\ Left = {h} \cup T /\ \A y \in T : Before(h, y)
    BY AtStep DEF ClusterInv
  <1>2. h \in Left /\ h[1] = "fork" /\ h[2] = n
    BY <1>1 DEF Fork
  <1> HIDE DEF h, T
  <1>3. \A y \in Left : y[1] \notin {"config", "ports", "uninstall", "apply"}
    BY <1>1, <1>2 DEF Before
  <1>4. /\ Call("ports") \notin Left /\ Call("uninstall") \notin Left
        /\ Call("apply") \notin Left /\ \A c \in Confs : <<"config", c>> \notin Left
    BY <1>3 DEF Call
  <1>5. Upping
    BY <1>2, <1>4 DEF Upping
  <1>6. gen \in Gens /\ OnPorts(gen)
    BY <1>5 DEF ClusterInv, UpInv
  <1>7. n \in Servers => gen # kubeconfig
    <2>1. n \in Servers => Call("kubeconfig") \in Left
      BY <1>2 DEF ClusterInv, PlanInv
    <2> QED
      BY <1>5, <2>1 DEF ClusterInv, UpInv
  <1>8. n \notin Servers => gen = kubeconfig
    <2>1. n \notin Servers => Call("kubeconfig") \notin Left
      BY <1>1, <1>2 DEF Before, Call
    <2> QED
      BY <1>5, <2>1 DEF ClusterInv, UpInv
  <1>9. Ports(n) = gen
    <2>1. n \in Servers => n \notin {Kcm, Scheduler, Kubelet}
      BY DEF Servers, Etcd, Apiserver, Kcm, Scheduler, Kubelet
    <2> QED
      BY <1>8, <2>1 DEF Ports
  <1>10. conf \in Confs
    BY <1>1, <1>2 DEF ClusterInv, ConfInv
  <1>11. n = Prometheus => conf = "prometheus"
    <2>1. "prometheus" \in Confs
      BY DEF Confs
    <2> QED
      BY <1>2, <1>4, <2>1 DEF ClusterInv, ConfInv, h
  <1> QED
    BY <1>4, <1>6, <1>7, <1>8, <1>9, <1>10, <1>11

\* Whatever is started is on the ports of the Up at work, or of kubeconfig.yaml.
LEMMA StartedLinks ==
  ASSUME ClusterTypeOK, TrackedInv, LinkInv, NEW n \in Components, Numbered(n),
         managed[n] = None, NEW q, q = NextNumber(n), NEW g \in Gens \cup {None},
         proc' = [proc EXCEPT ![q] = n], link' = [link EXCEPT ![q] = g],
         \/ managed' = [managed EXCEPT ![n] = q] /\ stray' = stray
         \/ managed' = managed /\ stray' = stray \cup {q},
         kubeconfig' = kubeconfig,
         n \in Servers => g \in Gens /\ g # kubeconfig /\ (OnPorts(kubeconfig) => OnPorts(g)),
         n \notin Servers => g = kubeconfig
  PROVE  LinkInv'
  <1> DEFINE Change ==
    /\ q \in Pids /\ link'[q] = g /\ ~Runs(n)
    /\ Live(n)' = Live(n) \cup {q}
    /\ \A m \in Components : \A p \in Live(m) : link'[p] = link[p]
    /\ \A m \in Components \ {n} :
         /\ Live(m)' = Live(m) /\ Astray(m)' = Astray(m)
         /\ managed'[m] = managed[m] /\ (Runs(m)' <=> Runs(m))
    /\ Runs(n)' => managed'[n] = q
    /\ Astray(n)' = IF managed'[n] = q THEN Astray(n) ELSE Astray(n) \cup {q}
  <1>1. Change
    BY Started
  <1>2. \A m \in Servers : \A p \in Live(m)' : link'[p] \in Gens
    BY <1>1, Known DEF LinkInv
  <1>3. \A m \in Servers : \A p \in Astray(m)' : link'[p] # kubeconfig'
    <2> SUFFICES ASSUME NEW m \in Servers, NEW p \in Astray(m)' PROVE link'[p] # kubeconfig
      OBVIOUS
    <2>1. CASE m = n /\ p = q
      BY <1>1, <2>1
    <2>2. CASE ~(m = n /\ p = q)
      <3>1. p \in Astray(m) /\ p \in Live(m)
        BY <1>1, <2>2, Known DEF Astray
      <3> QED
        BY <1>1, <3>1, Known DEF LinkInv
    <2> QED
      BY <2>1, <2>2
  <1>4. ASSUME NEW m \in Components, m # n, Runs(m)'
        PROVE  Runs(m) /\ managed'[m] = managed[m] /\ link'[managed[m]] = link[managed[m]]
    BY <1>1, <1>4 DEF Runs
  <1>5. CASE n \in Servers
    <2>1. OffPorts(kubeconfig)
      BY <1>5, Known DEF LinkInv, OnPorts, OffPorts
    <2>2. OffPorts(kubeconfig)'
      BY <1>1, <1>4, <1>5, <2>1, Known DEF OffPorts
    <2> QED
      BY <1>2, <1>3, <2>2 DEF LinkInv
  <1>6. CASE n \notin Servers
    <2>1. OnPorts(kubeconfig) => OnPorts(kubeconfig)'
      BY <1>1, <1>4, <1>6 DEF OnPorts
    <2>2. OffPorts(kubeconfig) => OffPorts(kubeconfig)'
      BY <1>4, <1>6, Known DEF OffPorts
    <2> QED
      BY <1>2, <1>3, <2>1, <2>2 DEF LinkInv
  <1> QED
    BY <1>5, <1>6

LEMMA ForkSteps == \A n \in Components : ClusterInv /\ ForkStep(n) => ClusterInv'
  <1> SUFFICES ASSUME NEW n \in Components, ClusterInv, ForkStep(n) PROVE ClusterInv'
    OBVIOUS
  <1>1. At(Fork(n)) /\ Continue
    BY DEF ForkStep
  <1>2. CASE UNCHANGED <<host, store, owed>>
    <2>1. Quiet /\ TrackedInv'
      BY <1>2, Same DEF ClusterInv, host, store
    <2>2. ClusterTypeOK'
      BY <1>1, <1>2 DEF ClusterInv, ClusterTypeOK, Continue, host, store
    <2>3. Fork(n)[1] = "fork"
      BY DEF Fork
    <2>4. Fork(n) # <<"stop", Kcm>> /\ \A m \in Components : Fork(n) # Kill(m)
      BY DEF Fork, Kill
    <2>5. BackInv'
      BY <1>1, <1>2, <2>3, Onward, BackKept DEF ClusterInv, Continue, host, store
    <2> QED
      BY <1>1, <1>2, <2>1, <2>2, <2>3, <2>4, <2>5, GoesOn DEF Continue, store
  <1>3. CASE Run(n)
    <2> DEFINE q == NextNumber(n)
    <2>1. /\ /\ Call("ports") \notin Left /\ Call("uninstall") \notin Left
             /\ Call("apply") \notin Left /\ \A c \in Confs : <<"config", c>> \notin Left
          /\ gen \in Gens /\ OnPorts(gen) /\ Ports(n) = gen
          /\ n \in Servers => gen # kubeconfig
          /\ n \notin Servers => gen = kubeconfig
          /\ conf \in Confs /\ (n = Prometheus => conf = "prometheus")
      BY <1>1, AtFork
    <2>2. /\ Numbered(n) /\ managed[n] = None
          /\ proc' = [proc EXCEPT ![q] = n] /\ link' = [link EXCEPT ![q] = gen]
          /\ managed' = [managed EXCEPT ![n] = q] /\ stray' = stray
          /\ launched' = launched \cup {n} /\ owed' = (owed /\ n # Kcm)
          /\ UNCHANGED <<conf, kubeconfig, gen>>
      BY <1>3, <2>1 DEF Run, Start, Launch
    <2> HIDE DEF q
    <2>3. /\ q \in Pids /\ link'[q] = gen /\ TrackedInv'
          /\ proc' \in [Pids -> Owners] /\ stray' \subseteq Pids
          /\ managed' \in [Components -> Pids \cup {None}]
          /\ link' \in [Pids -> Gens \cup {None}]
          /\ \A m \in Components : \A p \in Live(m) : link'[p] = link[p]
          /\ \A m \in Components \ {n} :
               /\ Astray(m)' = Astray(m)
               /\ managed'[m] = managed[m] /\ (Runs(m)' <=> Runs(m))
          /\ Runs(n)' => managed'[n] = q
          /\ Astray(n)' = Astray(n)
      <3>1. managed'[n] = q
        BY <2>2 DEF ClusterInv, ClusterTypeOK
      <3> QED
        BY <2>1, <2>2, <3>1, Started DEF ClusterInv, q
    <2>4. /\ todo # <<>> /\ Head(todo) = Fork(n) /\ todo' = Tail(todo) /\ Plan(todo')
          /\ UNCHANGED <<result, events, cut>> /\ Fork(n) \in Left
          /\ Left = {Fork(n)} \cup Left' /\ \A y \in Left' : Before(Fork(n), y)
      BY <1>1, AtStep DEF ClusterInv, Continue, Left
    <2>5. /\ Fork(n)[1] = "fork" /\ Fork(n) \notin Left'
          /\ \A x \in Left : x[1] # "fork" => x \in Left'
      BY <2>4 DEF Before, Fork
    <2>6. ClusterTypeOK'
      BY <2>2, <2>3, <2>4 DEF ClusterInv, ClusterTypeOK
    <2>7. PlanInv'
      <3>1. Call("kubeconfig") \in Left => Call("kubeconfig") \in Left'
        BY <2>5 DEF Call
      <3> QED
        BY <2>4, <2>5, <3>1 DEF ClusterInv, PlanInv
    <2>8. ConfInv'
      <3>1. conf' # None
        BY <2>1, <2>2, Names DEF Confs
      <3>2. conf' = "plain" => ~Runs(Prometheus)'
        BY <2>1, <2>2, <2>3, Known DEF ClusterInv, ConfInv
      <3>3. /\ \A c \in Confs : <<"config", c>> \notin Left'
            /\ Fork(Prometheus) \in Left' => conf' = "prometheus"
        <4>1. "prometheus" \in Confs
          BY DEF Confs
        <4> QED
          BY <2>1, <2>2, <2>4, <4>1 DEF ClusterInv, ConfInv
      <3> QED
        BY <2>1, <2>2, <3>1, <3>2, <3>3 DEF ConfInv
    <2>9. DownInv'
      BY <2>1, <2>3, <2>4, <2>5 DEF ClusterInv, DownInv
    <2>10. LinkInv'
      BY <2>1, <2>2, StartedLinks DEF ClusterInv, q
    <2>11. OnPorts(gen)'
      <3> SUFFICES ASSUME NEW m \in Components, Runs(m)' PROVE link'[managed'[m]] = gen
        BY <2>2 DEF OnPorts
      <3>1. CASE m = n
        BY <2>3, <3>1
      <3>2. CASE m # n
        <4>1. Runs(m) /\ managed'[m] = managed[m] /\ managed[m] \in Live(m)
          BY <2>3, <3>2 DEF Runs
        <4> QED
          BY <2>1, <2>3, <4>1 DEF OnPorts
      <3> QED
        BY <3>1, <3>2
    <2>12. UpInv'
      <3>1. Call("kubeconfig") \in Left <=> Call("kubeconfig") \in Left'
        BY <2>4, <2>5 DEF Call
      <3>2. Upping
        BY <2>1, <2>4, <2>5 DEF Upping
      <3>3. \A m \in Servers : Astray(m)' = Astray(m) /\ Astray(m) \subseteq Live(m)
        BY <2>3, Known DEF Astray
      <3> QED
        BY <2>1, <2>2, <2>3, <2>11, <3>1, <3>2, <3>3, Known DEF ClusterInv, UpInv
    <2>13. ResultInv'
      BY <2>4, Working DEF ClusterInv
    \* A component that an Up starts may be the one that is owed.
    <2>14. BackInv'
      <3>1. owed' => owed /\ managed'[Kcm] = managed[Kcm] /\ (Kcm \in launched' => Kcm \in launched)
        BY <2>2, <2>3, Known
      <3> QED
        BY <1>1, <2>4, <2>5, <3>1, Onward, BackKept DEF ClusterInv
    <2> QED
      BY <2>3, <2>6, <2>7, <2>8, <2>9, <2>10, <2>12, <2>13, <2>14 DEF ClusterInv
  <1> QED
    BY <1>2, <1>3 DEF ForkStep

\* Only the controller manager is ever restarted.
LEMMA AtRestart ==
  ASSUME ClusterInv, NEW n \in Components, At(<<"restart", n>>)
  PROVE  n = Kcm /\ n \notin Servers /\ n # Prometheus /\ conf \in Confs /\ Ports(n) = kubeconfig
  <1>1. todo # <<>> /\ Head(todo) = <<"restart", n>> /\ <<"restart", n>> \in Left
    BY AtStep DEF ClusterInv
  <1>2. n = Kcm
    BY <1>1 DEF ClusterInv, PlanInv
  <1>3. conf \in Confs
    BY <1>1 DEF ClusterInv, ConfInv
  <1> QED
    BY <1>2, <1>3 DEF Servers, Etcd, Apiserver, Kcm, Prometheus, Ports

LEMMA RestartSteps == \A n \in Components : ClusterInv /\ RestartStep(n) => ClusterInv'
  <1> SUFFICES ASSUME NEW n \in Components, ClusterInv, RestartStep(n) PROVE ClusterInv'
    OBVIOUS
  <1>1. /\ At(<<"restart", n>>) /\ todo' = <<>> /\ result' \in {"loaded", "failed"}
        /\ UNCHANGED <<events, cut>>
    BY DEF RestartStep, Return
  <1>2. n = Kcm /\ n \notin Servers /\ n # Prometheus /\ conf \in Confs /\ Ports(n) = kubeconfig
    BY <1>1, AtRestart
  <1>3. CASE (managed[n] # None \/ n \notin launched) /\ UNCHANGED <<host, store, owed>>
    <2>1. Quiet /\ TrackedInv'
      BY <1>3, Same DEF ClusterInv, host, store
    <2>2. ClusterTypeOK'
      BY <1>1, <1>3 DEF ClusterInv, ClusterTypeOK, host, store, Results
    <2>3. ResultInv'
      BY <1>1, GivenUp
    \* What runs is not owed; without its cmdline file it cannot be started.
    <2>4. BackInv'
      BY <1>1, <1>2, <1>3 DEF ClusterInv, BackInv, host, store
    <2> QED
      BY <1>1, <1>3, <2>1, <2>2, <2>3, <2>4, GoesHome DEF store
  <1>4. CASE Run(n)
    <2> DEFINE q == NextNumber(n)
    <2>1. /\ Numbered(n) /\ managed[n] = None
          /\ proc' = [proc EXCEPT ![q] = n] /\ link' = [link EXCEPT ![q] = kubeconfig]
          /\ managed' = [managed EXCEPT ![n] = q] /\ stray' = stray
          /\ launched' = launched \cup {n} /\ owed' = FALSE
          /\ UNCHANGED <<conf, kubeconfig, gen>>
      BY <1>2, <1>4 DEF Run, Start, Launch
    <2>2. kubeconfig \in Gens \cup {None}
      BY DEF ClusterInv, ClusterTypeOK
    <2> HIDE DEF q
    <2>3. /\ q \in Pids /\ TrackedInv'
          /\ proc' \in [Pids -> Owners] /\ stray' \subseteq Pids
          /\ managed' \in [Components -> Pids \cup {None}]
          /\ link' \in [Pids -> Gens \cup {None}]
          /\ \A m \in Components \ {n} : Runs(m)' <=> Runs(m)
      BY <2>1, <2>2, Started DEF ClusterInv, q
    <2>4. ClusterTypeOK'
      BY <1>1, <2>1, <2>3 DEF ClusterInv, ClusterTypeOK, Results
    <2>5. PlanInv' /\ ConfInv' /\ DownInv' /\ UpInv'
      <3>1. conf' # None
        BY <1>2, <2>1, Names DEF Confs
      <3>2. conf' = "plain" => ~Runs(Prometheus)'
        BY <1>2, <2>1, <2>3, Known DEF ClusterInv, ConfInv
      <3> QED
        BY <1>1, <3>1, <3>2, Ended
    <2>6. LinkInv'
      BY <1>2, <2>1, <2>2, StartedLinks DEF ClusterInv, q
    <2>7. ResultInv' /\ BackInv'
      BY <1>1, <2>1, GivenUp DEF BackInv
    <2> QED
      BY <2>3, <2>4, <2>5, <2>6, <2>7 DEF ClusterInv
  <1> QED
    BY <1>3, <1>4 DEF RestartStep

-----------------------------------------------------------------------------
(* Failures *)

LEMMA InterruptStep == ClusterInv /\ Interrupt => ClusterInv'
  <1> SUFFICES ASSUME ClusterInv, Interrupt PROVE ClusterInv'
    OBVIOUS
  <1> USE DEF Interrupt, Fail, Give, host, store
  <1>1. Quiet /\ TrackedInv'
    BY Same DEF ClusterInv
  <1>2. events' \in 0..MaxEvents
    BY Counted DEF ClusterInv
  <1>3. ClusterTypeOK'
    BY <1>2 DEF ClusterInv, ClusterTypeOK, Results
  <1>4. ResultInv'
    BY GivenUp
  <1>5. BackInv'
    BY BackKept DEF ClusterInv
  <1> QED
    BY <1>1, <1>3, <1>4, <1>5, GoesHome

LEMMA TearStep == ClusterInv /\ Tear => ClusterInv'
  <1> SUFFICES ASSUME ClusterInv, Tear PROVE ClusterInv'
    OBVIOUS
  <1>1. /\ Event /\ todo' = <<>> /\ result' \in {"failed", "loaded"}
        /\ cut' = (cut \/ Loading)
        /\ UNCHANGED <<managed, proc, stray, gen, link, launched, owed>>
    BY DEF Tear, Fail, Give, host
  <1>2. Quiet /\ TrackedInv' /\ \A n \in Components : Runs(n)' <=> Runs(n)
    BY <1>1, Same DEF ClusterInv
  <1>3. events' \in 0..MaxEvents
    BY <1>1, Counted DEF ClusterInv
  <1>4. ResultInv'
    BY <1>1, GivenUp
  <1>7. BackInv'
    BY <1>1, BackKept DEF ClusterInv
  <1>5. CASE conf' = Torn /\ kubeconfig' = kubeconfig
    <2>1. ClusterTypeOK'
      BY <1>1, <1>3, <1>5 DEF ClusterInv, ClusterTypeOK, Results
    <2>2. PlanInv' /\ ConfInv' /\ DownInv' /\ UpInv'
      BY <1>1, <1>5, Names, Ended
    <2>3. LinkInv'
      BY <1>2, <1>5, QuietLinks DEF ClusterInv
    <2> QED
      BY <1>2, <1>4, <1>7, <2>1, <2>2, <2>3 DEF ClusterInv
  <1>6. CASE kubeconfig' = None /\ conf' = conf
    <2>1. ClusterTypeOK'
      BY <1>1, <1>3, <1>6 DEF ClusterInv, ClusterTypeOK, Results
    <2> QED
      BY <1>1, <1>2, <1>4, <1>6, <1>7, <2>1, GoesHome
  <1> QED
    BY <1>5, <1>6 DEF Tear

LEMMA TearCmdlineSteps == \A n \in Components : ClusterInv /\ TearCmdline(n) => ClusterInv'
  <1> SUFFICES ASSUME NEW n \in Components, ClusterInv, TearCmdline(n) PROVE ClusterInv'
    OBVIOUS
  <1> USE DEF TearCmdline, Fail, Give, host
  <1>1. Quiet /\ TrackedInv'
    BY Same DEF ClusterInv
  <1>2. events' \in 0..MaxEvents
    BY Counted DEF ClusterInv
  <1>3. ClusterTypeOK'
    BY <1>2 DEF ClusterInv, ClusterTypeOK, Results
  <1>4. ResultInv'
    BY GivenUp
  <1>5. BackInv'
    BY BackKept DEF ClusterInv
  <1> QED
    BY <1>1, <1>3, <1>4, <1>5, GoesHome

LEMMA LoseProcessSteps == \A n \in Components : ClusterInv /\ LoseProcess(n) => ClusterInv'
  <1> SUFFICES ASSUME NEW n \in Components, ClusterInv, LoseProcess(n) PROVE ClusterInv'
    OBVIOUS
  <1> DEFINE q == NextNumber(n)
             g == Ports(n)
  <1>1. /\ At(Fork(n)) \/ At(<<"restart", n>>)
        /\ Numbered(n) /\ managed[n] = None /\ Event /\ todo' = <<>>
        /\ result' \in {"failed", "loaded"} /\ cut' = (cut \/ Loading)
        /\ proc' = [proc EXCEPT ![q] = n] /\ link' = [link EXCEPT ![q] = g]
        /\ managed' = managed /\ stray' = stray \cup {q}
        /\ launched' = launched \cup {n} /\ owed' = (owed /\ n # Kcm)
        /\ UNCHANGED <<conf, kubeconfig, gen>>
    BY DEF LoseProcess, Launch, Fail, Give
  <1>2. /\ g \in Gens \cup {None}
        /\ n \in Servers => g \in Gens /\ g # kubeconfig /\ (OnPorts(kubeconfig) => OnPorts(g))
        /\ n \notin Servers => g = kubeconfig
        /\ conf \in Confs
    <2>1. CASE At(Fork(n))
      BY <2>1, AtFork
    <2>2. CASE At(<<"restart", n>>)
      BY <2>2, AtRestart DEF ClusterInv, ClusterTypeOK
    <2> QED
      BY <1>1, <2>1, <2>2
  <1> HIDE DEF q, g
  <1>3. /\ TrackedInv' /\ ~Runs(n)
        /\ proc' \in [Pids -> Owners] /\ stray' \subseteq Pids
        /\ link' \in [Pids -> Gens \cup {None}]
        /\ \A m \in Components \ {n} : Runs(m)' <=> Runs(m)
        /\ Runs(n)' => managed'[n] = q
        /\ q \in Pids
    BY <1>1, <1>2, Started DEF ClusterInv, q
  <1>4. ~Runs(n)'
    BY <1>1, <1>3, OwnersDistinct
  <1>5. events' \in 0..MaxEvents
    BY <1>1, Counted DEF ClusterInv
  <1>6. ClusterTypeOK'
    BY <1>1, <1>3, <1>5 DEF ClusterInv, ClusterTypeOK, Results
  <1>7. PlanInv' /\ ConfInv' /\ DownInv' /\ UpInv'
    <2>1. conf' # None
      BY <1>1, <1>2, Names DEF Confs
    <2>2. conf' = "plain" => ~Runs(Prometheus)'
      BY <1>1, <1>3, <1>4, Known DEF ClusterInv, ConfInv
    <2> QED
      BY <1>1, <2>1, <2>2, Ended
  <1>8. LinkInv'
    BY <1>1, <1>2, StartedLinks DEF ClusterInv, q
  <1>9. ResultInv'
    BY <1>1, GivenUp
  <1>10. BackInv'
    BY <1>1, BackKept DEF ClusterInv
  <1> QED
    BY <1>3, <1>6, <1>7, <1>8, <1>9, <1>10 DEF ClusterInv

LEMMA RemoveSomeStep == ClusterInv /\ RemoveSome => ClusterInv'
  <1> SUFFICES ASSUME ClusterInv, RemoveSome PROVE ClusterInv'
    OBVIOUS
  <1> USE DEF RemoveSome, Give
  <1>1. \A n \in Components : ~Runs(n)
    <2>1. /\ Left = {Call("uninstall")} \cup Range(Tail(todo))
          /\ \A y \in Range(Tail(todo)) : Before(Call("uninstall"), y)
      BY AtStep DEF ClusterInv
    <2>2. \A n \in Components : Kill(n) \notin Left
      BY <2>1 DEF Before, Call, Kill
    <2> QED
      BY <2>1, <2>2 DEF ClusterInv, DownInv
  <1>2. /\ Quiet /\ TrackedInv' /\ \A n \in Components : ~Runs(n)'
        /\ managed' \in [Components -> Pids \cup {None}]
    BY <1>1, Uninstalled DEF ClusterInv
  <1>3. events' \in 0..MaxEvents
    BY Counted DEF ClusterInv
  <1>4. ClusterTypeOK'
    BY <1>2, <1>3 DEF ClusterInv, ClusterTypeOK, Results
  <1>5. PlanInv' /\ ConfInv' /\ DownInv' /\ UpInv'
    BY <1>2, Known, Ended
  <1>6. LinkInv' /\ ResultInv'
    BY <1>2, QuietLinks, GivenUp DEF ClusterInv
  <1>7. BackInv'
    BY Known, BackKept DEF ClusterInv, ClusterTypeOK
  <1> QED
    BY <1>2, <1>4, <1>5, <1>6, <1>7 DEF ClusterInv

LEMMA HostSteps == \A p \in Pids : ClusterInv /\ HostStep(p) => ClusterInv'
  <1> SUFFICES ASSUME NEW p \in Pids, ClusterInv, HostStep(p) PROVE ClusterInv'
    OBVIOUS
  <1>1. UNCHANGED <<conf, kubeconfig, gen, link, launched, todo, result, owed, cut>>
    BY DEF HostStep, store, history, store
  <1>2. PICK o \in Owners \ Components :
          /\ proc' = [proc EXCEPT ![p] = o] /\ managed' = managed
          /\ stray' = stray \ {p} \/ (stray' = stray /\ proc[p] \notin Components)
    <2>1. {Free, Dead} \cup Outsiders \subseteq Owners \ Components
      BY OwnersDistinct DEF Owners
    <2>2. CASE Exit(p)
      BY <2>1, <2>2 DEF Exit
    <2>3. CASE Reap(p)
      BY <2>1, <2>3 DEF Reap
    <2>4. CASE \E o \in Outsiders : GiveAway(p, o)
      BY <2>1, <2>4 DEF GiveAway
    <2> QED
      BY <2>2, <2>3, <2>4 DEF HostStep
  <1>3. events' \in 0..MaxEvents
    <2>1. Event \/ events' = events
      BY DEF HostStep
    <2> QED
      BY <2>1, Counted DEF ClusterInv
  <1>4. Quiet /\ TrackedInv' /\ proc' \in [Pids -> Owners] /\ stray' \subseteq Pids
    BY <1>1, <1>2, Lost DEF ClusterInv
  <1>5. ClusterTypeOK'
    BY <1>1, <1>2, <1>3, <1>4 DEF ClusterInv, ClusterTypeOK
  <1>6. Left' = Left
    BY <1>1 DEF Left
  <1>7. PlanInv'
    BY <1>1, <1>6 DEF ClusterInv, PlanInv
  <1>8. ConfInv' /\ DownInv'
    BY <1>1, <1>4, <1>6, Known DEF ClusterInv, ConfInv, DownInv, Quiet
  <1>9. LinkInv'
    BY <1>1, <1>4, QuietLinks DEF ClusterInv
  <1>10. \A g : OnPorts(g) => \A n \in Components : Runs(n)' => link'[managed'[n]] = g
    BY <1>4 DEF OnPorts, Quiet
  <1>11. UpInv'
    <2>1. Upping' => Upping
      BY <1>6 DEF Upping
    <2>2. OnPorts(gen) => OnPorts(gen)'
      BY <1>1, <1>10 DEF OnPorts
    <2> QED
      BY <1>1, <1>4, <1>6, <2>1, <2>2, Known DEF ClusterInv, UpInv, Quiet
  <1>12. ResultInv'
    <2>1. OnPorts(kubeconfig) => OnPorts(kubeconfig)'
      BY <1>1, <1>10 DEF OnPorts
    <2> QED
      BY <1>1, <1>2, <2>1 DEF ClusterInv, ResultInv
  <1>13. BackInv'
    BY <1>1, <1>2, <1>6, BackKept DEF ClusterInv, Loading
  <1> QED
    BY <1>4, <1>5, <1>7, <1>8, <1>9, <1>11, <1>12, <1>13 DEF ClusterInv

-----------------------------------------------------------------------------
(* Theorems *)

LEMMA Stutter == ClusterInv /\ UNCHANGED state => ClusterInv'
  <1> SUFFICES ASSUME ClusterInv, UNCHANGED state PROVE ClusterInv'
    OBVIOUS
  <1> USE DEF state
  <1>1. Quiet /\ TrackedInv' /\ \A n \in Components : Runs(n)' <=> Runs(n)
    BY Same DEF ClusterInv
  <1>2. ClusterTypeOK'
    BY DEF ClusterInv, ClusterTypeOK
  <1>3. Left' = Left
    BY DEF Left
  <1>4. PlanInv' /\ ConfInv' /\ DownInv'
    BY <1>1, <1>3, Known DEF ClusterInv, PlanInv, ConfInv, DownInv, Quiet
  <1>5. LinkInv'
    BY <1>1, QuietLinks DEF ClusterInv
  <1>6. \A g : OnPorts(g) => \A n \in Components : Runs(n)' => link'[managed'[n]] = g
    BY <1>1 DEF OnPorts, Quiet
  <1>7. UpInv'
    <2>1. Upping' => Upping
      BY <1>3 DEF Upping
    <2>2. OnPorts(gen) => OnPorts(gen)'
      BY <1>6 DEF OnPorts
    <2> QED
      BY <1>1, <1>3, <2>1, <2>2, Known DEF ClusterInv, UpInv, Quiet
  <1>8. ResultInv'
    <2>1. OnPorts(kubeconfig) => OnPorts(kubeconfig)'
      BY <1>6 DEF OnPorts
    <2> QED
      BY <2>1 DEF ClusterInv, ResultInv
  <1>9. BackInv'
    BY <1>3, BackKept DEF ClusterInv, Loading
  <1> QED
    BY <1>1, <1>2, <1>4, <1>5, <1>7, <1>8, <1>9 DEF ClusterInv

\* The invariant holds whatever the user, the commands, failures and the host do.
LEMMA Invariant == ClusterSpec => []ClusterInv
  <1>1. ClusterInv /\ [ClusterNext]_state => ClusterInv'
    <2> SUFFICES ASSUME ClusterInv, [ClusterNext]_state PROVE ClusterInv'
      OBVIOUS
    <2>1. CASE CreateNew \/ CreateAgain \/ CreateUnready \/ CreateReady \/ Refuse \/ BeginDelete \/ BeginLoad
      BY <2>1, CreateNewStep, CreateAgainStep, CreateUnreadyStep, CreateReadyStep, RefuseStep,
         BeginDeleteStep, BeginLoadStep
    <2>2. CASE Command
      BY <2>2, WriteConfigStep, DownloadStep, PortsStep, WriteKubeconfigStep, WaitStep,
         GetNodeStep, ApplyStep, UninstallStep, ForkSteps, KillSteps, ForgetSteps,
         RestartSteps DEF Command
    <2>3. CASE Interrupt \/ Tear \/ RemoveSome
      BY <2>3, InterruptStep, TearStep, RemoveSomeStep
    <2>4. CASE \E n \in Components : TearCmdline(n) \/ LoseProcess(n)
      BY <2>4, TearCmdlineSteps, LoseProcessSteps
    <2>5. CASE \E p \in Pids : HostStep(p)
      BY <2>5, HostSteps
    <2>6. CASE UNCHANGED state
      BY <2>6, Stutter
    <2> QED
      BY <2>1, <2>2, <2>3, <2>4, <2>5, <2>6 DEF ClusterNext
  <1> QED
    BY <1>1, Initially, PTL DEF ClusterSpec

\* The type invariant of the cluster, for any process numbers and ports.
THEOREM TypeCorrect == ClusterSpec => []ClusterTypeOK
  <1>1. ClusterInv => ClusterTypeOK
    BY DEF ClusterInv
  <1> QED
    BY <1>1, Invariant, PTL

\* create and delete find every component in the files, apart from those a start has
\* lost, and without a config there is none to find: Down (binary/cluster.go:407-458)
\* reaches all that Up (:92-405) started, whatever was interrupted in between.
THEOREM NothingIsOrphaned == ClusterSpec => []NothingOrphaned
  <1>1. ClusterInv => NothingOrphaned
    <2> SUFFICES ASSUME ClusterInv, NEW n \in Components
                 PROVE  /\ Live(n) \subseteq stray \cup {managed[n]}
                        /\ conf = None => Live(n) \subseteq stray
      BY DEF NothingOrphaned
    <2>1. Live(n) \subseteq stray \cup {managed[n]}
      BY DEF ClusterInv, TrackedInv
    <2>2. conf = None => managed[n] \notin Live(n)
      BY DEF ClusterInv, ConfInv, Runs
    <2> QED
      BY <2>1, <2>2
  <1> QED
    BY <1>1, Invariant, PTL

\* When create returns, all the components that the files name are on the ports of
\* kubeconfig.yaml: one cluster, not the remains of two.
THEOREM ReadyIsCoherent == ClusterSpec => []Coherent
  <1>1. ClusterInv => Coherent
    BY DEF ClusterInv, ResultInv, Coherent, OnPorts, Runs
  <1> QED
    BY <1>1, Invariant, PTL

\* While load creates objects (load/resource/resource.go:46-66), no controller manager
\* runs except one that a start has lost.
THEOREM StoppedWhileLoading == ClusterSpec => []ControllerStopped
  <1>1. ClusterInv => ControllerStopped
    <2> SUFFICES ASSUME ClusterInv, At(Call("apply"))
                 PROVE  Live(Kcm) \subseteq stray
      BY DEF ControllerStopped
    <2>1. /\ Left = {Call("apply")} \cup Range(Tail(todo))
          /\ \A y \in Range(Tail(todo)) : Before(Call("apply"), y)
      BY AtStep DEF ClusterInv
    <2>2. Call("apply") \in Left /\ <<"stop", Kcm>> \notin Left
      BY <2>1 DEF Before, Call
    <2>3. ~Runs(Kcm)
      BY <2>2 DEF ClusterInv, DownInv
    <2> QED
      BY <2>3, Known DEF ClusterInv, TrackedInv, Runs
  <1> QED
    BY <1>1, Invariant, PTL

\* What a load's Stop has stopped (resource.go:46-50) is started by its deferred Start
\* (:51-57) or by a later command's, unless a load was cut short since load.Load was last
\* called, or the cmdline file to start it from is gone.
THEOREM StartedAfterLoading == ClusterSpec => []ControllerBack
  <1>1. ClusterInv => ControllerBack
    BY DEF ClusterInv, BackInv, ControllerBack
  <1> QED
    BY <1>1, Invariant, PTL

=============================================================================
