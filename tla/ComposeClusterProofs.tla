------------------------ MODULE ComposeClusterProofs ------------------------
(***************************************************************************)
(* Theorems about ComposeCluster, for every number of ports, shells and    *)
(* events.                                                                 *)
(***************************************************************************)
EXTENDS ComposeCluster, SequenceTheorems, TLAPS

-----------------------------------------------------------------------------
(* The calls that a command has left *)

\* Which call may follow which.
DockerFlow ==
  {<<"config", "port">>, <<"port", "kubeconfig">>, <<"kubeconfig", "compose">>,
   <<"compose", "context">>, <<"context", "images">>, <<"images", "down">>,
   <<"images", "up_api">>, <<"down", "up_api">>, <<"up_api", "up_manager">>,
   <<"up_manager", "wait">>, <<"wait", "get_node">>}
BinaryFlow ==
  {<<"config", "port">>, <<"config", "unset">>, <<"unset", "kill">>, <<"kill", "port">>,
   <<"port", "spawn">>, <<"spawn", "kubeconfig">>, <<"kubeconfig", "context">>,
   <<"context", "wait">>, <<"wait", "get_node">>}
DeleteFlow ==
  {<<"down", "unset">>, <<"unset", "kill">>, <<"kill", "uninstall">>, <<"unset", "uninstall">>}
LoadFlow == {<<"stop", "load">>, <<"load", "start">>}

Flow(op, x, y) ==
  \/ op = "docker" /\ <<x, y>> \in DockerFlow
  \/ op = "binary" /\ <<x, y>> \in BinaryFlow
  \/ op = "delete" /\ <<x, y>> \in DeleteFlow
  \/ op = "load" /\ <<x, y>> \in LoadFlow

Ops == {"docker", "binary", "delete", "load"}
Last == {"get_node", "uninstall", "start"}
Calls(op) ==
  CASE op = "docker" -> {"config", "port", "kubeconfig", "compose", "context", "images",
                         "down", "up_api", "up_manager", "wait", "get_node"}
    [] op = "binary" -> {"config", "unset", "kill", "port", "spawn", "kubeconfig",
                         "context", "wait", "get_node"}
    [] op = "delete" -> {"down", "unset", "kill", "uninstall"}
    [] op = "load" -> {"stop", "load", "start"}
Jobs ==
  UNION {[op : {op}, port : Ports \cup {None}, todo : Seq(Calls(op))] : op \in Ops}

\* Calls that flow into each other, and those down to the last of a command.
Stretch(op, s) ==
  /\ op \in Ops /\ s \in Seq(Calls(op)) /\ Len(s) > 0
  /\ \A i \in 1..Len(s) :
       /\ s[i] \in Last => i = Len(s)
       /\ i < Len(s) => Flow(op, s[i], s[i + 1])

Course(op, s) == Stretch(op, s) /\ s[Len(s)] \in Last

\* A create that is past the call that picks its port.
Picked(u) ==
  /\ job[u].op \in Runtimes
  /\ \A x \in {"config", "unset", "kill", "port"} : ~At(u, x)

JobInv ==
  /\ job \in [Users -> {Idle} \cup Jobs]
  /\ \A u \in Users : job[u] # Idle => Course(job[u].op, job[u].todo)
  /\ \A u \in Users : Picked(u) => job[u].port \in Ports

TypeInv == TypeOK /\ JobInv

\* Only loads work at the same time, and only if one began while another worked.
Alone ==
  \A u, v \in Users : u # v /\ job[u] # Idle /\ job[v] # Idle =>
    job[u].op = "load" /\ job[v].op = "load" /\ overlap

\* What the proofs use of a sequence st that consists of s and t.
Joined(st, s, t) ==
  /\ Len(st) = Len(s) + Len(t)
  /\ st[Len(s) + 1] = t[1] /\ st[Len(st)] = t[Len(t)]
  /\ \A i \in 1..Len(s) : st[i] = s[i]

\* Two stretches, of which the second may follow the first.
LEMMA Joins ==
  ASSUME NEW op, NEW s, NEW t, Stretch(op, s), Stretch(op, t),
         s[Len(s)] \notin Last, Flow(op, s[Len(s)], t[1])
  PROVE  Stretch(op, s \o t) /\ Joined(s \o t, s, t)
  <1> DEFINE st == s \o t
  <1>1. /\ s \in Seq(Calls(op)) /\ t \in Seq(Calls(op)) /\ op \in Ops
        /\ Len(s) \in Nat \ {0} /\ Len(t) \in Nat \ {0}
    BY LenProperties DEF Stretch
  <1>2. /\ st \in Seq(Calls(op)) /\ Len(st) = Len(s) + Len(t)
        /\ \A i \in 1..Len(st) : st[i] = IF i <= Len(s) THEN s[i] ELSE t[i - Len(s)]
    BY <1>1, ConcatProperties
  <1> HIDE DEF st
  <1>3. \A i \in 1..Len(s) : i \in 1..Len(st) /\ st[i] = s[i]
    BY <1>1, <1>2
  <1>4. ASSUME NEW j \in 1..Len(t)
        PROVE  Len(s) + j \in 1..Len(st) /\ st[Len(s) + j] = t[j]
    <2>1. Len(s) + j \in 1..Len(st) /\ ~(Len(s) + j <= Len(s)) /\ Len(s) + j - Len(s) = j
      BY <1>1, <1>2
    <2>2. st[Len(s) + j] = t[Len(s) + j - Len(s)]
      BY <1>2, <2>1
    <2> QED
      BY <2>1, <2>2
  <1>5. st[Len(st)] = t[Len(t)]
    <2>1. Len(t) \in 1..Len(t)
      BY <1>1
    <2> QED
      BY <1>2, <1>4, <2>1
  <1>6. ASSUME NEW i \in 1..Len(st)
        PROVE  (st[i] \in Last => i = Len(st)) /\ (i < Len(st) => Flow(op, st[i], st[i + 1]))
    <2>1. CASE i < Len(s)
      <3>1. i \in 1..Len(s) /\ i + 1 \in 1..Len(s)
        BY <1>1, <2>1
      <3> QED
        BY <1>1, <1>3, <2>1, <3>1 DEF Stretch
    <2>2. CASE i = Len(s)
      <3>1. i \in 1..Len(s) /\ 1 \in 1..Len(t)
        BY <1>1, <2>2
      <3>2. st[i] = s[Len(s)] /\ st[i + 1] = t[1]
        BY <1>3, <1>4, <2>2, <3>1
      <3> QED
        BY <3>2
    <2>3. CASE i > Len(s)
      <3>1. PICK j \in 1..Len(t) : i = Len(s) + j
        <4>1. i - Len(s) \in 1..Len(t) /\ i = Len(s) + (i - Len(s))
          BY <1>1, <1>2, <2>3
        <4> QED
          BY <4>1
      <3>2. st[i] = t[j] /\ (j = Len(t) => i = Len(st))
        <4>1. st[i] = t[j]
          BY <1>4, <3>1
        <4> QED
          BY <1>2, <3>1, <4>1
      <3>3. j < Len(t) => st[i + 1] = t[j + 1]
        <4>1. j < Len(t) => j + 1 \in 1..Len(t) /\ i + 1 = Len(s) + (j + 1)
          BY <1>1, <3>1
        <4> QED
          BY <1>4, <4>1
      <3>4. i < Len(st) => j < Len(t)
        BY <1>1, <1>2, <3>1
      <3> QED
        BY <3>2, <3>3, <3>4 DEF Stretch
    <2> QED
      BY <1>1, <1>2, <2>1, <2>2, <2>3
  <1>7. Stretch(op, st)
    BY <1>1, <1>2, <1>6 DEF Stretch
  <1>8. Joined(st, s, t)
    <2>1. 1 \in 1..Len(t)
      BY <1>1
    <2>2. st[Len(s) + 1] = t[1]
      BY <1>4, <2>1
    <2> QED
      BY <1>2, <1>3, <1>5, <2>2 DEF Joined
  <1> QED
    BY <1>7, <1>8 DEF st

\* The parts of which the commands are made.
LEMMA InstallStretch ==
  /\ Stretch("docker", Install("docker")) /\ Len(Install("docker")) = 6
  /\ Install("docker")[1] = "config" /\ Install("docker")[6] = "images"
  <1> DEFINE s == <<"config", "port", "kubeconfig", "compose", "context", "images">>
  <1>1. s = Install("docker")
    BY DEF Install
  <1>2. s \in Seq(Calls("docker"))
    BY DEF Calls
  <1>3. /\ Len(s) = 6 /\ s[1] = "config" /\ s[2] = "port" /\ s[3] = "kubeconfig"
        /\ s[4] = "compose" /\ s[5] = "context" /\ s[6] = "images"
    OBVIOUS
  <1> HIDE DEF s
  <1>4. ASSUME NEW i \in 1..6 PROVE s[i] \notin Last
    BY <1>3 DEF Last
  <1>5. ASSUME NEW i \in 1..6, i < 6 PROVE Flow("docker", s[i], s[i + 1])
    <2>1. <<s[i], s[i + 1]>> \in {<<s[1], s[2]>>, <<s[2], s[3]>>, <<s[3], s[4]>>,
                                 <<s[4], s[5]>>, <<s[5], s[6]>>}
      BY <1>5
    <2> QED
      BY <1>3, <2>1 DEF Flow, DockerFlow
  <1>6. Stretch("docker", s)
    BY <1>2, <1>3, <1>4, <1>5 DEF Stretch, Ops
  <1> QED
    BY <1>1, <1>3, <1>6

LEMMA Stretches ==
  LET c == <<"config">>
      p == <<"port", "spawn", "kubeconfig", "context">>
      k == <<"unset", "kill">>
      d == <<"down">>
      a == <<"up_api", "up_manager">>
      e == <<"unset", "uninstall">>
      w == <<"uninstall">>
  IN
  /\ Stretch("binary", c) /\ Len(c) = 1 /\ c[1] = "config"
  /\ Stretch("binary", p) /\ Len(p) = 4 /\ p[1] = "port" /\ p[4] = "context"
  /\ Stretch("binary", k) /\ Stretch("delete", k) /\ Len(k) = 2 /\ k[1] = "unset" /\ k[2] = "kill"
  /\ Stretch("docker", d) /\ Stretch("delete", d) /\ Len(d) = 1 /\ d[1] = "down"
  /\ Stretch("docker", a) /\ Len(a) = 2 /\ a[1] = "up_api" /\ a[2] = "up_manager"
  /\ Stretch("delete", e) /\ Len(e) = 2 /\ e[1] = "unset" /\ e[2] = "uninstall"
  /\ Stretch("delete", w) /\ Len(w) = 1 /\ w[1] = "uninstall"
  /\ Stretch("docker", Ready) /\ Stretch("binary", Ready) /\ Len(Ready) = 2
  /\ Ready[1] = "wait" /\ Ready[2] = "get_node"
  <1>1. Stretch("binary", <<"config">>)
    BY DEF Stretch, Ops, Flow, Last, Calls
  <1>2. Stretch("binary", <<"port", "spawn", "kubeconfig", "context">>)
    BY DEF Stretch, Ops, Flow, Last, Calls, BinaryFlow
  <1>3. Stretch("binary", <<"unset", "kill">>)
    BY DEF Stretch, Ops, Flow, Last, Calls, BinaryFlow
  <1>4. Stretch("delete", <<"unset", "kill">>)
    BY DEF Stretch, Ops, Flow, Last, Calls, DeleteFlow
  <1>5. Stretch("docker", <<"down">>)
    BY DEF Stretch, Ops, Flow, Last, Calls
  <1>6. Stretch("delete", <<"down">>)
    BY DEF Stretch, Ops, Flow, Last, Calls
  <1>7. Stretch("docker", <<"up_api", "up_manager">>)
    <2>1. Flow("docker", "up_api", "up_manager") /\ Flow("docker", "wait", "get_node")
      BY DEF Flow, DockerFlow
    <2> QED
      BY <2>1 DEF Stretch, Ops, Last, Calls
  <1>8. Stretch("delete", <<"unset", "uninstall">>)
    BY DEF Stretch, Ops, Flow, Last, Calls, DeleteFlow
  <1>11. Stretch("delete", <<"uninstall">>)
    BY DEF Stretch, Ops, Flow, Last, Calls, DeleteFlow
  <1>9. Stretch("docker", <<"wait", "get_node">>)
    <2>1. Flow("docker", "up_api", "up_manager") /\ Flow("docker", "wait", "get_node")
      BY DEF Flow, DockerFlow
    <2> QED
      BY <2>1 DEF Stretch, Ops, Last, Calls
  <1>10. Stretch("binary", <<"wait", "get_node">>)
    BY DEF Stretch, Ops, Flow, Last, Calls, BinaryFlow
  <1> QED
    BY <1>1, <1>2, <1>3, <1>4, <1>5, <1>6, <1>7, <1>8, <1>9, <1>10, <1>11 DEF Ready

\* Each command starts with the whole of its course.
LEMMA Courses ==
  /\ \A r \in Runtimes :
       /\ Course(r, Create(r)) /\ Create(r)[1] = "config"
       /\ Course(r, Recreate(r)) /\ Recreate(r)[1] = "config"
       /\ Course("delete", Delete(r))
  /\ Len(Recreate("binary")) > 1 /\ Recreate("binary")[2] = "unset"
  /\ Delete("docker")[1] = "down"
  /\ Delete("binary")[1] = "unset" /\ Len(Delete("binary")) > 1 /\ Delete("binary")[2] = "kill"
  /\ Course("load", Load) /\ Load[1] = "stop"
  <1> DEFINE c == <<"config">>
             p == <<"port", "spawn", "kubeconfig", "context">>
             k == <<"unset", "kill">>
             d == <<"down">>
             a == <<"up_api", "up_manager">>
             e == <<"unset", "uninstall">>
             w == <<"uninstall">>
             n == Install("docker")
  <1>1. Stretch("binary", c) /\ Len(c) = 1 /\ c[1] = "config"
    BY Stretches
  <1>2. Stretch("binary", p) /\ Len(p) = 4 /\ p[1] = "port" /\ p[4] = "context"
    BY Stretches
  <1>3. /\ Stretch("binary", k) /\ Stretch("delete", k)
        /\ Len(k) = 2 /\ k[1] = "unset" /\ k[2] = "kill"
    BY Stretches
  <1>4. Stretch("docker", d) /\ Stretch("delete", d) /\ Len(d) = 1 /\ d[1] = "down"
    BY Stretches
  <1>5. Stretch("docker", a) /\ Len(a) = 2 /\ a[1] = "up_api" /\ a[2] = "up_manager"
    BY Stretches
  <1>6. Stretch("delete", e) /\ Len(e) = 2 /\ e[1] = "unset" /\ e[2] = "uninstall"
    BY Stretches
  <1>7. /\ Stretch("docker", Ready) /\ Stretch("binary", Ready)
        /\ Len(Ready) = 2 /\ Ready[1] = "wait" /\ Ready[2] = "get_node"
    BY Stretches
  <1>8. Stretch("docker", n) /\ Len(n) = 6 /\ n[1] = "config" /\ n[6] = "images"
    BY InstallStretch
  <1>9. /\ Create("docker") = n \o a \o Ready
        /\ Recreate("docker") = n \o d \o a \o Ready
        /\ Delete("docker") = d \o e
    BY DEF Create, Recreate, Delete, Down, Up
  <1>10. /\ Create("binary") = c \o p \o Ready
        /\ Recreate("binary") = c \o k \o p \o Ready
        /\ Delete("binary") = k \o w
    BY DEF Create, Recreate, Delete, Install, Down, Up
  <1>11. Course("load", Load) /\ Load[1] = "stop"
    BY DEF Load, LoadFlow, Course, Stretch, Ops, Flow, Last, Calls
  <1>12. "get_node" \in Last /\ "uninstall" \in Last
    BY DEF Last
  <1>19. Stretch("delete", w) /\ Len(w) = 1 /\ w[1] = "uninstall"
    BY Stretches
  <1> HIDE DEF c, p, k, d, a, e, w, n
  <1>13. Course("docker", Create("docker")) /\ Create("docker")[1] = "config"
    <2> DEFINE x == n \o a
               y == x \o Ready
    <2>1. Create("docker") = y
      BY <1>9
    <2> HIDE DEF x, y
    <2>2. n[Len(n)] \notin Last /\ Flow("docker", n[Len(n)], a[1])
      BY <1>8, <1>5 DEF Flow, DockerFlow, Last
    <2>3. Stretch("docker", x) /\ Joined(x, n, a)
      BY <1>8, <1>5, <2>2, Joins, Zenon DEF x
    <2>4. /\ Stretch("docker", x) /\ Len(x) \in Nat /\ Len(x) > 1
          /\ x[Len(x)] = "up_manager" /\ x[1] = "config"
      <3>1. Len(x) \in Nat /\ Len(x) > 1
        BY <1>8, <1>5, <2>3 DEF Joined
      <3>2. x[Len(x)] = "up_manager"
        BY <1>5, <2>3 DEF Joined
      <3>3. x[1] = "config"
        BY <1>8, <2>3 DEF Joined
      <3> QED
        BY <2>3, <3>1, <3>2, <3>3
    <2>5. x[Len(x)] \notin Last /\ Flow("docker", x[Len(x)], Ready[1])
      BY <2>4, <1>7 DEF Flow, DockerFlow, Last
    <2>6. Stretch("docker", y) /\ Joined(y, x, Ready)
      BY <2>4, <1>7, <2>5, Joins, Zenon DEF y
    <2>7. /\ Stretch("docker", y) /\ Len(y) \in Nat /\ Len(y) > 1
          /\ y[Len(y)] = "get_node" /\ y[1] = "config"
      <3>1. Len(y) \in Nat /\ Len(y) > 1
        BY <2>4, <1>7, <2>6 DEF Joined
      <3>2. y[Len(y)] = "get_node"
        BY <1>7, <2>6 DEF Joined
      <3>3. y[1] = "config"
        BY <2>4, <2>6 DEF Joined
      <3> QED
        BY <2>6, <3>1, <3>2, <3>3
    <2> QED
      BY <1>12, <2>1, <2>7 DEF Course
  <1>14. Course("docker", Recreate("docker")) /\ Recreate("docker")[1] = "config"
    <2> DEFINE x == n \o d
               y == x \o a
               z == y \o Ready
    <2>1. Recreate("docker") = z
      BY <1>9
    <2> HIDE DEF x, y, z
    <2>2. n[Len(n)] \notin Last /\ Flow("docker", n[Len(n)], d[1])
      BY <1>8, <1>4 DEF Flow, DockerFlow, Last
    <2>3. Stretch("docker", x) /\ Joined(x, n, d)
      BY <1>8, <1>4, <2>2, Joins, Zenon DEF x
    <2>4. /\ Stretch("docker", x) /\ Len(x) \in Nat /\ Len(x) > 1
          /\ x[Len(x)] = "down" /\ x[1] = "config"
      <3>1. Len(x) \in Nat /\ Len(x) > 1
        BY <1>8, <1>4, <2>3 DEF Joined
      <3>2. x[Len(x)] = "down"
        BY <1>4, <2>3 DEF Joined
      <3>3. x[1] = "config"
        BY <1>8, <2>3 DEF Joined
      <3> QED
        BY <2>3, <3>1, <3>2, <3>3
    <2>5. x[Len(x)] \notin Last /\ Flow("docker", x[Len(x)], a[1])
      BY <2>4, <1>5 DEF Flow, DockerFlow, Last
    <2>6. Stretch("docker", y) /\ Joined(y, x, a)
      BY <2>4, <1>5, <2>5, Joins, Zenon DEF y
    <2>7. /\ Stretch("docker", y) /\ Len(y) \in Nat /\ Len(y) > 1
          /\ y[Len(y)] = "up_manager" /\ y[1] = "config"
      <3>1. Len(y) \in Nat /\ Len(y) > 1
        BY <2>4, <1>5, <2>6 DEF Joined
      <3>2. y[Len(y)] = "up_manager"
        BY <1>5, <2>6 DEF Joined
      <3>3. y[1] = "config"
        BY <2>4, <2>6 DEF Joined
      <3> QED
        BY <2>6, <3>1, <3>2, <3>3
    <2>8. y[Len(y)] \notin Last /\ Flow("docker", y[Len(y)], Ready[1])
      BY <2>7, <1>7 DEF Flow, DockerFlow, Last
    <2>9. Stretch("docker", z) /\ Joined(z, y, Ready)
      BY <2>7, <1>7, <2>8, Joins, Zenon DEF z
    <2>10. /\ Stretch("docker", z) /\ Len(z) \in Nat /\ Len(z) > 1
          /\ z[Len(z)] = "get_node" /\ z[1] = "config"
      <3>1. Len(z) \in Nat /\ Len(z) > 1
        BY <2>7, <1>7, <2>9 DEF Joined
      <3>2. z[Len(z)] = "get_node"
        BY <1>7, <2>9 DEF Joined
      <3>3. z[1] = "config"
        BY <2>7, <2>9 DEF Joined
      <3> QED
        BY <2>9, <3>1, <3>2, <3>3
    <2> QED
      BY <1>12, <2>1, <2>10 DEF Course
  <1>15. Course("delete", Delete("docker")) /\ Delete("docker")[1] = "down"
    <2> DEFINE x == d \o e
    <2>1. Delete("docker") = x
      BY <1>9
    <2> HIDE DEF x
    <2>2. d[Len(d)] \notin Last /\ Flow("delete", d[Len(d)], e[1])
      BY <1>4, <1>6 DEF Flow, DeleteFlow, Last
    <2>3. Stretch("delete", x) /\ Joined(x, d, e)
      BY <1>4, <1>6, <2>2, Joins, Zenon DEF x
    <2>4. /\ Stretch("delete", x) /\ Len(x) \in Nat /\ Len(x) > 1
          /\ x[Len(x)] = "uninstall" /\ x[1] = "down"
      <3>1. Len(x) \in Nat /\ Len(x) > 1
        BY <1>4, <1>6, <2>3 DEF Joined
      <3>2. x[Len(x)] = "uninstall"
        BY <1>6, <2>3 DEF Joined
      <3>3. x[1] = "down"
        BY <1>4, <2>3 DEF Joined
      <3> QED
        BY <2>3, <3>1, <3>2, <3>3
    <2> QED
      BY <1>12, <2>1, <2>4 DEF Course
  <1>16. Course("binary", Create("binary")) /\ Create("binary")[1] = "config"
    <2> DEFINE x == c \o p
               y == x \o Ready
    <2>1. Create("binary") = y
      BY <1>10
    <2> HIDE DEF x, y
    <2>2. c[Len(c)] \notin Last /\ Flow("binary", c[Len(c)], p[1])
      BY <1>1, <1>2 DEF Flow, BinaryFlow, Last
    <2>3. Stretch("binary", x) /\ Joined(x, c, p)
      BY <1>1, <1>2, <2>2, Joins, Zenon DEF x
    <2>4. /\ Stretch("binary", x) /\ Len(x) \in Nat /\ Len(x) > 1
          /\ x[Len(x)] = "context" /\ x[1] = "config"
      <3>1. Len(x) \in Nat /\ Len(x) > 1
        BY <1>1, <1>2, <2>3 DEF Joined
      <3>2. x[Len(x)] = "context"
        BY <1>2, <2>3 DEF Joined
      <3>3. x[1] = "config"
        BY <1>1, <1>3, <2>3 DEF Joined
      <3> QED
        BY <2>3, <3>1, <3>2, <3>3
    <2>5. x[Len(x)] \notin Last /\ Flow("binary", x[Len(x)], Ready[1])
      BY <2>4, <1>7 DEF Flow, BinaryFlow, Last
    <2>6. Stretch("binary", y) /\ Joined(y, x, Ready)
      BY <2>4, <1>7, <2>5, Joins, Zenon DEF y
    <2>7. /\ Stretch("binary", y) /\ Len(y) \in Nat /\ Len(y) > 1
          /\ y[Len(y)] = "get_node" /\ y[1] = "config"
      <3>1. Len(y) \in Nat /\ Len(y) > 1
        BY <2>4, <1>7, <2>6 DEF Joined
      <3>2. y[Len(y)] = "get_node"
        BY <1>7, <2>6 DEF Joined
      <3>3. y[1] = "config"
        BY <2>4, <2>6 DEF Joined
      <3> QED
        BY <2>6, <3>1, <3>2, <3>3
    <2> QED
      BY <1>12, <2>1, <2>7 DEF Course
  <1>17. /\ Course("binary", Recreate("binary")) /\ Recreate("binary")[1] = "config"
         /\ Len(Recreate("binary")) > 1 /\ Recreate("binary")[2] = "unset"
    <2> DEFINE x == c \o k
               y == x \o p
               z == y \o Ready
    <2>1. Recreate("binary") = z
      BY <1>10
    <2> HIDE DEF x, y, z
    <2>2. c[Len(c)] \notin Last /\ Flow("binary", c[Len(c)], k[1])
      BY <1>1, <1>3 DEF Flow, BinaryFlow, Last
    <2>3. Stretch("binary", x) /\ Joined(x, c, k)
      BY <1>1, <1>3, <2>2, Joins, Zenon DEF x
    <2>4. /\ Stretch("binary", x) /\ Len(x) \in Nat /\ Len(x) > 1
          /\ x[Len(x)] = "kill" /\ x[1] = "config" /\ x[2] = "unset"
      <3>1. Len(x) \in Nat /\ Len(x) > 1
        BY <1>1, <1>3, <2>3 DEF Joined
      <3>2. x[Len(x)] = "kill"
        BY <1>3, <2>3 DEF Joined
      <3>3. x[1] = "config" /\ x[2] = "unset"
        BY <1>1, <1>3, <2>3 DEF Joined
      <3> QED
        BY <2>3, <3>1, <3>2, <3>3
    <2>5. x[Len(x)] \notin Last /\ Flow("binary", x[Len(x)], p[1])
      BY <2>4, <1>2 DEF Flow, BinaryFlow, Last
    <2>6. Stretch("binary", y) /\ Joined(y, x, p)
      BY <2>4, <1>2, <2>5, Joins, Zenon DEF y
    <2>7. /\ Stretch("binary", y) /\ Len(y) \in Nat /\ Len(y) > 1
          /\ y[Len(y)] = "context" /\ y[1] = "config" /\ y[2] = "unset"
      <3>1. Len(y) \in Nat /\ Len(y) > 1
        BY <2>4, <1>2, <2>6 DEF Joined
      <3>2. y[Len(y)] = "context"
        BY <1>2, <2>6 DEF Joined
      <3>3. y[1] = "config" /\ y[2] = "unset"
        BY <2>4, <2>6 DEF Joined
      <3> QED
        BY <2>6, <3>1, <3>2, <3>3
    <2>8. y[Len(y)] \notin Last /\ Flow("binary", y[Len(y)], Ready[1])
      BY <2>7, <1>7 DEF Flow, BinaryFlow, Last
    <2>9. Stretch("binary", z) /\ Joined(z, y, Ready)
      BY <2>7, <1>7, <2>8, Joins, Zenon DEF z
    <2>10. /\ Stretch("binary", z) /\ Len(z) \in Nat /\ Len(z) > 1
          /\ z[Len(z)] = "get_node" /\ z[1] = "config" /\ z[2] = "unset"
      <3>1. Len(z) \in Nat /\ Len(z) > 1
        BY <2>7, <1>7, <2>9 DEF Joined
      <3>2. z[Len(z)] = "get_node"
        BY <1>7, <2>9 DEF Joined
      <3>3. z[1] = "config" /\ z[2] = "unset"
        BY <2>7, <2>9 DEF Joined
      <3> QED
        BY <2>9, <3>1, <3>2, <3>3
    <2> QED
      BY <1>12, <2>1, <2>10 DEF Course
  <1>18. /\ Course("delete", Delete("binary")) /\ Delete("binary")[1] = "unset"
         /\ Len(Delete("binary")) > 1 /\ Delete("binary")[2] = "kill"
    <2> DEFINE x == k \o w
    <2>1. Delete("binary") = x
      BY <1>10
    <2> HIDE DEF x
    <2>2. k[Len(k)] \notin Last /\ Flow("delete", k[Len(k)], w[1])
      BY <1>3, <1>19 DEF Flow, DeleteFlow, Last
    <2>3. Stretch("delete", x) /\ Joined(x, k, w)
      BY <1>3, <1>19, <2>2, Joins, Zenon DEF x
    <2>4. /\ Stretch("delete", x) /\ Len(x) \in Nat /\ Len(x) > 1
          /\ x[Len(x)] = "uninstall" /\ x[1] = "unset" /\ x[2] = "kill"
      <3>1. Len(x) \in Nat /\ Len(x) > 1
        BY <1>3, <1>19, <2>3 DEF Joined
      <3>2. x[Len(x)] = "uninstall"
        BY <1>19, <2>3 DEF Joined
      <3>3. x[1] = "unset" /\ x[2] = "kill"
        BY <1>3, <2>3 DEF Joined
      <3> QED
        BY <2>3, <3>1, <3>2, <3>3
    <2> QED
      BY <1>12, <2>1, <2>4 DEF Course
  <1> QED
    <2>1. ASSUME NEW r \in Runtimes PROVE r = "docker" \/ r = "binary"
      BY DEF Runtimes
    <2> QED
      BY <1>11, <1>13, <1>14, <1>15, <1>16, <1>17, <1>18, <2>1

-----------------------------------------------------------------------------
(* How the commands proceed *)

AtOneOf(u, steps) == \E x \in steps : At(u, x)

Ends(u) == job' = [job EXCEPT ![u] = Idle]
GoesOn(u) ==
  /\ ~AtOneOf(u, Last)
  /\ \/ ~At(u, "port") /\ Proceed(u)
     \/ /\ At(u, "port")
        /\ \E p \in Ports : job' = [job EXCEPT ![u].port = p, ![u].todo = Tail(@)]
Moves(u) == job[u] # Idle /\ (Ends(u) \/ GoesOn(u))

\* A command that is at work is at a call of its own.
LEMMA Working ==
  ASSUME JobInv, NEW u \in Users, job[u] # Idle
  PROVE  /\ job[u] \in Jobs /\ job[u].op \in Ops /\ Course(job[u].op, job[u].todo)
         /\ job[u].todo \in Seq(Calls(job[u].op)) /\ Len(job[u].todo) \in Nat \ {0}
         /\ Head(job[u].todo) = job[u].todo[1] /\ Head(job[u].todo) \in Calls(job[u].op)
  <1> DEFINE s == job[u].todo
  <1>1. job[u] \in Jobs /\ Course(job[u].op, s)
    BY DEF JobInv
  <1>2. job[u].op \in Ops /\ s \in Seq(Calls(job[u].op)) /\ Len(s) > 0
    BY <1>1 DEF Course, Stretch
  <1> HIDE DEF s
  <1>3. Len(s) \in Nat \ {0} /\ Head(s) = s[1] /\ 1 \in 1..Len(s)
    BY <1>2, LenProperties
  <1>4. s[1] \in Calls(job[u].op)
    BY <1>2, <1>3
  <1> QED
    BY <1>1, <1>2, <1>3, <1>4 DEF s

\* Every step of a command leads to the call that follows or ends the command.
LEMMA MovesOn ==
  ASSUME JobInv, NEW u \in Users, Moves(u)
  PROVE  /\ JobInv'
         /\ \A v \in Users \ {u} : job'[v] = job[v]
         /\ \/ Ends(u) /\ job'[u] = Idle
            \/ /\ GoesOn(u) /\ job'[u] \in Jobs /\ job'[u].op = job[u].op
               /\ job'[u].todo = Tail(job[u].todo)
               /\ IF At(u, "port") THEN job'[u].port \in Ports
                                   ELSE job'[u].port = job[u].port
               /\ Flow(job[u].op, Head(job[u].todo), Head(job'[u].todo))
  <1> DEFINE op == job[u].op
             s == job[u].todo
             t == Tail(s)
  <1>1. job[u] # Idle /\ (Ends(u) \/ GoesOn(u))
    BY DEF Moves
  <1>2. /\ job[u] \in Jobs /\ op \in Ops /\ Course(op, s) /\ s \in Seq(Calls(op))
        /\ Len(s) \in Nat \ {0} /\ Head(s) = s[1]
    BY <1>1, Working
  <1>3. CASE Ends(u)
    <2>1. /\ job' \in [Users -> {Idle} \cup Jobs] /\ job'[u] = Idle
          /\ \A v \in Users \ {u} : job'[v] = job[v]
      BY <1>3 DEF JobInv, Ends
    <2>2. ASSUME NEW v \in Users PROVE Picked(v)' => v # u /\ Picked(v)
      BY <2>1 DEF Picked, At, Runtimes, Idle
    <2>3. JobInv'
      BY <2>1, <2>2 DEF JobInv
    <2> QED
      BY <1>3, <2>1, <2>3
  <1>4. CASE GoesOn(u)
    <2>1. PICK p \in Ports \cup {None} :
            /\ job' = [job EXCEPT ![u].port = p, ![u].todo = Tail(@)]
            /\ IF At(u, "port") THEN p \in Ports ELSE p = job[u].port
      <3>1. job[u].port \in Ports \cup {None}
        BY <1>2 DEF Jobs
      <3>2. CASE ~At(u, "port") /\ Proceed(u)
        <4>1. job' = [job EXCEPT ![u].port = job[u].port, ![u].todo = Tail(@)]
          BY <1>2, <3>2 DEF Proceed, JobInv, Jobs
        <4> QED
          BY <3>1, <3>2, <4>1
      <3> QED
        BY <1>4, <3>2 DEF GoesOn
    <2>2. s[1] \notin Last
      BY <1>1, <1>2, <1>4 DEF GoesOn, AtOneOf, At
    <2>3. Len(s) > 1 /\ Flow(op, s[1], s[2])
      <3>1. Len(s) > 1
        BY <1>2, <2>2 DEF Course
      <3> QED
        BY <1>2, <3>1 DEF Course, Stretch
    <2>4. /\ t \in Seq(Calls(op)) /\ Len(t) = Len(s) - 1 /\ \A i \in 1..Len(t) : t[i] = s[i + 1]
      <3>1. s # <<>>
        BY <2>3
      <3> QED
        BY <1>2, <2>3, <3>1, HeadTailProperties
    <2>5. /\ job'[u] = [job[u] EXCEPT !.port = p, !.todo = t]
          /\ \A v \in Users \ {u} : job'[v] = job[v]
      BY <2>1 DEF JobInv
    <2> HIDE DEF t
    <2>6. job'[u] \in Jobs /\ job'[u].op = op /\ job'[u].port = p /\ job'[u].todo = t
      <3>1. job[u] \in [op : {op}, port : Ports \cup {None}, todo : Seq(Calls(op))]
        BY <1>2 DEF Jobs
      <3> QED
        BY <1>2, <2>4, <2>5, <3>1 DEF Jobs
    <2>7. job' \in [Users -> {Idle} \cup Jobs]
      BY <2>1, <2>5, <2>6 DEF JobInv
    <2> HIDE DEF s
    <2>8. Course(op, t)
      <3>1. ASSUME NEW i \in 1..Len(t)
            PROVE  /\ i + 1 \in 1..Len(s) /\ (i + 1 = Len(s) => i = Len(t))
                   /\ i < Len(t) => i + 1 < Len(s) /\ i + 1 \in 1..Len(t) /\ t[i + 1] = s[i + 1 + 1]
        BY <1>2, <2>3, <2>4
      <3>2. ASSUME NEW i \in 1..Len(t)
            PROVE  /\ t[i] \in Last => i = Len(t)
                   /\ i < Len(t) => Flow(op, t[i], t[i + 1])
        BY <1>2, <2>4, <3>1 DEF Course, Stretch
      <3>3. Len(t) > 0 /\ t[Len(t)] = s[Len(s)]
        <4>1. Len(t) \in 1..Len(t) /\ Len(t) + 1 = Len(s)
          BY <1>2, <2>3, <2>4
        <4> QED
          BY <2>4, <4>1
      <3> QED
        BY <1>2, <2>4, <3>2, <3>3 DEF Course, Stretch
    <2>9. Head(t) = t[1] /\ t[1] = s[2] /\ Flow(op, s[1], t[1])
      <3>1. Len(t) > 0 /\ 1 \in 1..Len(t)
        BY <1>2, <2>3, <2>4
      <3> QED
        BY <2>3, <2>4, <3>1, LenProperties
    <2>10. ASSUME NEW v \in Users, Picked(v)' PROVE job'[v].port \in Ports
      <3>1. CASE v = u
        <4>1. op \in Runtimes /\ t[1] \notin {"config", "unset", "kill", "port"}
          BY <2>6, <2>9, <2>10, <3>1 DEF Picked, At, Jobs, Idle, Ops
        <4>2. s[1] \notin {"config", "unset", "kill"}
          BY <2>9, <4>1 DEF Flow, DockerFlow, BinaryFlow, Runtimes
        <4>3. At(u, "port") \/ Picked(u)
          BY <1>1, <1>2, <4>1, <4>2 DEF Picked, At, s
        <4> QED
          BY <2>1, <2>6, <3>1, <4>3 DEF JobInv
      <3>2. CASE v # u
        BY <2>5, <2>10, <3>2 DEF Picked, At, JobInv
      <3> QED
        BY <3>1, <3>2
    <2>11. JobInv'
      BY <2>5, <2>6, <2>7, <2>8, <2>10 DEF JobInv
    <2> QED
      BY <1>2, <1>4, <2>1, <2>5, <2>6, <2>9, <2>11 DEF s, t
  <1> QED
    BY <1>1, <1>3, <1>4

\* The steps of a command, those that fail included.
Acts(u) == Step(u) \/ Interrupt(u) \/ Tear(u) \/ DownFails(u) \/ KubectlFails(u)

LEMMA ActsMove ==
  ASSUME NEW u \in Users, Acts(u)
  PROVE  Moves(u)
  <1> USE DEF Moves, At
  <1>1. ASSUME NEW x, At(u, x), x \notin Last \cup {"port"}, Proceed(u)
        PROVE  Moves(u)
    BY <1>1 DEF GoesOn, AtOneOf
  <1>2. ASSUME NEW r, job[u] # Idle, Give(u, r)
        PROVE  Moves(u)
    BY <1>2 DEF Give, Ends
  <1>3. ASSUME NEW x, NEW ok, At(u, x), x \notin Last \cup {"port"}, Require(u, ok)
        PROVE  Moves(u)
    BY <1>1, <1>2, <1>3 DEF Require, Continue, Return
  <1>4. CASE PickPort(u)
    BY <1>4 DEF PickPort, GoesOn, AtOneOf, Last
  <1>5. CASE \/ WriteConfig(u) \/ WriteKubeconfig(u) \/ WriteCompose(u)
             \/ SetContext(u) \/ UnsetContext(u)
    BY <1>1, <1>5 DEF WriteConfig, WriteKubeconfig, WriteCompose, SetContext, UnsetContext,
                      Continue, Last
  <1>6. CASE UpManager(u) \/ ComposeDown(u) \/ KillProcesses(u) \/ Spawn(u) \/ LoadObjects(u)
    BY <1>1, <1>6 DEF UpManager, ComposeDown, KillProcesses, Spawn, LoadObjects, Continue, Last
  <1>7. CASE PullImages(u) \/ UpApi(u) \/ Wait(u) \/ Stop(u)
    BY <1>3, <1>7 DEF PullImages, UpApi, Wait, Stop, Last
  <1>8. CASE GetNode(u) \/ Uninstall(u) \/ Start(u)
    BY <1>2, <1>8 DEF GetNode, Uninstall, Start, Return
  <1>9. CASE Interrupt(u) \/ Tear(u)
    BY <1>2, <1>9 DEF Interrupt, Tear
  <1>10. CASE DownFails(u) \/ KubectlFails(u)
    BY <1>1, <1>10 DEF DownFails, KubectlFails, Last
  <1> QED
    BY <1>4, <1>5, <1>6, <1>7, <1>8, <1>9, <1>10 DEF Acts, Step

\* A command begins in a shell that is free.
LEMMA Begins ==
  ASSUME JobInv, NEW op \in Ops, NEW s, Course(op, s), Begin(op, s),
         op \in Runtimes => s[1] = "config"
  PROVE  /\ JobInv'
         /\ \E u \in Users :
              /\ job[u] = Idle /\ \A v \in Users \ {u} : job'[v] = job[v]
              /\ job'[u] = [op |-> op, port |-> None, todo |-> s]
  <1> DEFINE j == [op |-> op, port |-> None, todo |-> s]
  <1>1. PICK u \in Users : job[u] = Idle /\ job' = [job EXCEPT ![u] = j]
    <2>1. \E v \in Users : job[v] = Idle
      BY DEF Begin, Busy
    <2> QED
      BY <2>1 DEF Begin
  <1>2. j \in Jobs /\ j.op = op /\ j.todo = s
    <2>1. s \in Seq(Calls(op))
      BY DEF Course, Stretch
    <2> QED
      BY <2>1 DEF Jobs
  <1>3. /\ job' \in [Users -> {Idle} \cup Jobs] /\ job'[u] = j
        /\ \A v \in Users \ {u} : job'[v] = job[v]
    BY <1>1, <1>2 DEF JobInv
  <1>4. ASSUME NEW v \in Users, Picked(v)' PROVE job'[v].port \in Ports
    <2>1. CASE v = u
      <3>1. op \in Runtimes /\ j # Idle
        BY <1>2, <1>3, <1>4, <2>1 DEF Picked, Idle, Runtimes
      <3>2. s \in Seq(Calls(op)) /\ Len(s) > 0
        BY DEF Course, Stretch
      <3>3. Head(s) = s[1]
        BY <3>2, LenProperties
      <3> QED
        BY <1>2, <1>3, <1>4, <2>1, <3>1, <3>3 DEF Picked, At
    <2>2. CASE v # u
      BY <1>3, <1>4, <2>2 DEF Picked, At, JobInv
    <2> QED
      BY <2>1, <2>2
  <1>5. JobInv'
    BY <1>2, <1>3, <1>4 DEF JobInv
  <1> QED
    BY <1>1, <1>3, <1>5

Idlers(us) == \A v \in us : job[v] = Idle

\* A create begins with its config, in a work directory of which no command works.
LEMMA CreateBegins ==
  ASSUME JobInv, NEW r \in Runtimes, BeginCreate(r)
  PROVE  /\ JobInv' /\ Idlers(Users)
         /\ \E u \in Users :
              /\ Idlers(Users \ {u})' /\ job'[u] # Idle /\ job'[u].op = r
              /\ Head(job'[u].todo) = "config"
              /\ r = "binary" /\ conf # None =>
                   Len(job'[u].todo) > 1 /\ job'[u].todo[2] = "unset"
  <1>1. Idlers(Users)
    BY DEF BeginCreate, Busy, Idlers
  <1>2. PICK s : /\ Begin(r, s) /\ Course(r, s) /\ s[1] = "config"
                 /\ r = "binary" /\ conf # None => Len(s) > 1 /\ s[2] = "unset"
    <2>1. CASE conf = None /\ Begin(r, Create(r))
      BY <2>1, Courses
    <2>2. CASE conf \in Runtimes /\ Begin(r, Recreate(r))
      BY <2>2, Courses
    <2> QED
      BY <2>1, <2>2 DEF BeginCreate
  <1>3. Head(s) = s[1]
    <2>1. s \in Seq(Calls(r)) /\ Len(s) > 0
      BY <1>2 DEF Course, Stretch
    <2> QED
      BY <2>1, LenProperties
  <1>4. r \in Ops
    BY DEF Runtimes, Ops
  <1>5. PICK u \in Users : /\ \A v \in Users \ {u} : job'[v] = job[v]
                           /\ job'[u] = [op |-> r, port |-> None, todo |-> s]
    BY <1>2, <1>4, Begins
  <1>6. job'[u] # Idle
    BY <1>5 DEF Idle, Runtimes
  <1>7. JobInv'
    BY <1>2, <1>4, Begins
  <1> QED
    BY <1>1, <1>2, <1>3, <1>5, <1>6, <1>7 DEF Idlers

\* A delete begins by stopping what the runtime on record has.
LEMMA DeleteBegins ==
  ASSUME JobInv, BeginDelete
  PROVE  /\ JobInv' /\ Idlers(Users) /\ conf \in Runtimes
         /\ \E u \in Users :
              /\ Idlers(Users \ {u})' /\ job'[u] # Idle /\ job'[u].op = "delete"
              /\ conf = "docker" => Head(job'[u].todo) = "down"
              /\ conf = "binary" => Len(job'[u].todo) > 1 /\ job'[u].todo[2] = "kill"
  <1> DEFINE s == Delete(conf)
  <1>1. Idlers(Users) /\ conf \in Runtimes /\ Begin("delete", s)
    BY DEF BeginDelete, Busy, Idlers
  <1>2. /\ Course("delete", s)
        /\ conf = "docker" => s[1] = "down"
        /\ conf = "binary" => Len(s) > 1 /\ s[2] = "kill"
    BY <1>1, Courses
  <1> HIDE DEF s
  <1>3. Head(s) = s[1]
    <2>1. s \in Seq(Calls("delete")) /\ Len(s) > 0
      BY <1>2 DEF Course, Stretch
    <2> QED
      BY <2>1, LenProperties
  <1>4. "delete" \in Ops /\ "delete" \notin Runtimes
    BY DEF Runtimes, Ops
  <1>5. PICK u \in Users : /\ \A v \in Users \ {u} : job'[v] = job[v]
                           /\ job'[u] = [op |-> "delete", port |-> None, todo |-> s]
    BY <1>1, <1>2, <1>4, Begins
  <1>6. job'[u] # Idle
    BY <1>5 DEF Idle
  <1>7. JobInv'
    BY <1>1, <1>2, <1>4, Begins
  <1> QED
    BY <1>1, <1>2, <1>3, <1>5, <1>6, <1>7 DEF Idlers

\* A load may begin while others are at work.
LEMMA LoadBegins ==
  ASSUME JobInv, BeginLoad
  PROVE  /\ JobInv' /\ conf = "docker" /\ \A v \in Users : job[v] = Idle \/ job[v].op = "load"
         /\ overlap' = (~Idlers(Users))
         /\ \E u \in Users :
              /\ job[u] = Idle /\ \A v \in Users \ {u} : job'[v] = job[v]
              /\ job'[u] # Idle /\ job'[u].op = "load" /\ Head(job'[u].todo) = "stop"
  <1>1. /\ conf = "docker" /\ Begin("load", Load)
        /\ \A v \in Users : job[v] = Idle \/ job[v].op = "load"
    BY DEF BeginLoad, Busy
  <1>2. overlap' = (~Idlers(Users))
    <2>1. overlap' = (Busy # {})
      BY <1>1 DEF Begin
    <2>2. Busy = {} <=> Idlers(Users)
      BY DEF Busy, Idlers
    <2> QED
      BY <2>1, <2>2, Zenon
  <1>3. Course("load", Load) /\ Load[1] = "stop"
    BY Courses
  <1>4. Head(Load) = Load[1]
    <2>1. Load \in Seq(Calls("load")) /\ Len(Load) > 0
      BY <1>3 DEF Course, Stretch
    <2> QED
      BY <2>1, LenProperties
  <1>5. "load" \in Ops /\ "load" \notin Runtimes
    BY DEF Runtimes, Ops
  <1>6. PICK u \in Users : /\ job[u] = Idle /\ \A v \in Users \ {u} : job'[v] = job[v]
                           /\ job'[u] = [op |-> "load", port |-> None, todo |-> Load]
    BY <1>1, <1>3, <1>5, Begins
  <1>7. job'[u] # Idle
    BY <1>6 DEF Idle
  <1>8. JobInv'
    BY <1>1, <1>3, <1>5, Begins
  <1> QED
    BY <1>1, <1>2, <1>3, <1>4, <1>6, <1>7, <1>8

\* What stays as it is when no command begins or moves.
LEMMA Resting ==
  ASSUME JobInv, \/ CreateReady \/ Refuse \/ UNCHANGED vars
                 \/ \E u \in Users : Occupy(u)
  PROVE  JobInv' /\ job' = job
  <1>1. job' = job
    BY DEF CreateReady, Refuse, Occupy, vars
  <1>2. ASSUME NEW u \in Users PROVE Picked(u)' <=> Picked(u)
    BY <1>1 DEF Picked, At
  <1> QED
    BY <1>1, <1>2 DEF JobInv

LEMMA Steps ==
  ASSUME [Next]_vars
  PROVE  \/ \E r \in Runtimes : BeginCreate(r)
         \/ BeginDelete \/ BeginLoad \/ CreateReady \/ Refuse
         \/ \E u \in Users : Acts(u) \/ Occupy(u)
         \/ UNCHANGED vars
  BY DEF Next, Acts

LEMMA JobInit == Init => JobInv
  BY DEF Init, JobInv, Picked, Idle, Runtimes

LEMMA JobStep == JobInv /\ [Next]_vars => JobInv'
  <1> SUFFICES ASSUME JobInv, [Next]_vars
               PROVE  JobInv'
    OBVIOUS
  <1>1. ASSUME NEW u \in Users, Acts(u) PROVE JobInv'
    BY <1>1, ActsMove, MovesOn
  <1> QED
    BY <1>1, Steps, CreateBegins, DeleteBegins, LoadBegins, Resting

-----------------------------------------------------------------------------
(* Types *)

\* What each call is made by.
LEMMA Whose ==
  ASSUME JobInv, NEW u \in Users
  PROVE  /\ \A x \in {"compose", "images", "down", "up_api", "up_manager"} :
              At(u, x) => job[u].op \in {"docker", "delete"}
         /\ \A x \in {"config", "port", "kubeconfig", "context", "wait", "get_node"} :
              At(u, x) => job[u].op \in Runtimes
         /\ \A x \in {"compose", "images", "up_api", "up_manager"} :
              At(u, x) => job[u].op = "docker"
         /\ \A x \in {"unset", "kill"} : At(u, x) => job[u].op \in {"binary", "delete"}
         /\ At(u, "spawn") => job[u].op = "binary"
         /\ At(u, "uninstall") => job[u].op = "delete"
         /\ \A x \in {"stop", "load", "start"} : At(u, x) => job[u].op = "load"
  <1> SUFFICES ASSUME job[u] # Idle
               PROVE  /\ \A x \in {"compose", "images", "down", "up_api", "up_manager"} :
                           At(u, x) => job[u].op \in {"docker", "delete"}
                      /\ \A x \in {"config", "port", "kubeconfig", "context", "wait", "get_node"} :
                           At(u, x) => job[u].op \in Runtimes
                      /\ \A x \in {"compose", "images", "up_api", "up_manager"} :
                           At(u, x) => job[u].op = "docker"
                      /\ \A x \in {"unset", "kill"} : At(u, x) => job[u].op \in {"binary", "delete"}
                      /\ At(u, "spawn") => job[u].op = "binary"
                      /\ At(u, "uninstall") => job[u].op = "delete"
                      /\ \A x \in {"stop", "load", "start"} : At(u, x) => job[u].op = "load"
    BY DEF At
  <1>1. job[u].op \in Ops /\ Head(job[u].todo) \in Calls(job[u].op)
    BY Working
  <1> QED
    BY <1>1 DEF At, Ops, Calls, Runtimes

LEMMA TypeInit == Init => TypeInv
  BY JobInit, Bound DEF TypeInv, TypeOK, Init, Idle

LEMMA TypeStep == TypeInv /\ [Next]_vars => TypeInv'
  <1> SUFFICES ASSUME TypeInv, [Next]_vars
               PROVE  TypeInv'
    OBVIOUS
  <1> DEFINE Sets ==
        /\ conf \in Runtimes \cup {None, Torn}
        /\ {kubeconfig, compose, context, api, pids} \subseteq Ports \cup {None}
        /\ manager \in {"absent", "stopped", "running"}
        /\ procs \cup taken \subseteq Ports /\ pids \in procs \cup {None}
  <1> DEFINE Counts ==
        /\ result \in {"none", "failed", "ready", "deleted", "loaded"} /\ events \in 0..MaxEvents
  <1>1. JobInv /\ JobInv'
    BY JobStep DEF TypeInv
  <1>2. ASSUME JobInv, NEW u \in Users
        PROVE  job[u].port \in Ports \cup {None} /\ (job[u] # Idle => job[u].todo # <<>>)
    <2>1. CASE job[u] = Idle
      BY <2>1 DEF Idle
    <2>2. CASE job[u] # Idle
      <3>1. job[u] \in Jobs /\ Len(job[u].todo) \in Nat \ {0}
        BY <1>2, <2>2, Working
      <3>2. job[u].todo # <<>>
        BY <3>1
      <3> QED
        BY <3>1, <3>2 DEF Jobs
    <2> QED
      BY <2>1, <2>2
  <1>3. Sets /\ Counts
    BY DEF TypeInv, TypeOK
  <1>4. ASSUME NEW u \in Users, Acts(u) PROVE Sets'
    <2>1. job[u].port \in Ports \cup {None}
      BY <1>1, <1>2
    <2>2. At(u, "config") => job[u].op \in Runtimes
      BY <1>1, Whose
    <2>3. At(u, "spawn") => job[u].port \in Ports
      <3>1. At(u, "spawn") => job[u].op \in Runtimes /\ job[u] # Idle
        BY <1>1, Whose DEF Runtimes, At
      <3> QED
        BY <1>1, <3>1 DEF Picked, At, JobInv
    <2> USE <1>3, <2>1 DEF files, host
    <2>4. CASE WriteConfig(u) \/ WriteKubeconfig(u) \/ WriteCompose(u)
      BY <2>2, <2>4 DEF WriteConfig, WriteKubeconfig, WriteCompose
    <2>5. CASE PickPort(u) \/ SetContext(u) \/ UnsetContext(u)
      BY <2>5 DEF PickPort, SetContext, UnsetContext
    <2>6. CASE PullImages(u) \/ Wait(u) \/ GetNode(u) \/ LoadObjects(u)
      BY <2>6 DEF PullImages, Wait, GetNode, LoadObjects, Untouched
    <2>7. CASE UpApi(u) \/ UpManager(u) \/ ComposeDown(u)
      BY <2>7 DEF UpApi, UpManager, ComposeDown
    <2>8. CASE KillProcesses(u) \/ Spawn(u) \/ Uninstall(u)
      BY <2>3, <2>8 DEF KillProcesses, Spawn, Uninstall
    <2>9. CASE Stop(u) \/ Start(u)
      BY <2>9 DEF Stop, Start
    <2>10. CASE Interrupt(u) \/ Tear(u) \/ DownFails(u) \/ KubectlFails(u)
      BY <2>10 DEF Interrupt, Tear, DownFails, KubectlFails
    <2> QED
      BY <1>4, <2>4, <2>5, <2>6, <2>7, <2>8, <2>9, <2>10 DEF Acts, Step
  <1>5. ASSUME NEW u \in Users, Acts(u) PROVE Counts'
    <2> USE <1>3, Bound DEF Event, Continue, Return, Give, Require
    <2>1. CASE Step(u)
      BY <2>1 DEF Step, WriteConfig, PickPort, WriteKubeconfig, WriteCompose, SetContext,
                  UnsetContext, PullImages, UpApi, UpManager, ComposeDown, KillProcesses, Spawn,
                  Wait, GetNode, Uninstall, Stop, LoadObjects, Start
    <2>2. CASE Interrupt(u) \/ Tear(u) \/ DownFails(u) \/ KubectlFails(u)
      BY <2>2 DEF Interrupt, Tear, DownFails, KubectlFails
    <2> QED
      BY <1>5, <2>1, <2>2 DEF Acts
  <1>6. ASSUME NEW u \in Users, Occupy(u) PROVE Sets' /\ Counts'
    <2>1. job[u].port \in Ports
      BY <1>1, <1>2, <1>6 DEF Occupy
    <2> QED
      BY <1>3, <1>6, <2>1, Bound DEF Occupy, files, Event
  <1>7. ASSUME NEW op, NEW s, Begin(op, s), Event \/ UNCHANGED events PROVE Sets' /\ Counts'
    <2>1. result' = "none" /\ UNCHANGED <<files, context, host>>
      BY <1>7 DEF Begin
    <2> QED
      BY <1>3, <1>7, <2>1, Bound DEF files, host, Event
  <1>8. ASSUME NEW r \in Runtimes, BeginCreate(r) PROVE Sets' /\ Counts'
    <2>1. Event \/ UNCHANGED events
      BY <1>8 DEF BeginCreate
    <2>2. Begin(r, Create(r)) \/ Begin(r, Recreate(r))
      BY <1>8 DEF BeginCreate
    <2> QED
      BY <1>7, <2>1, <2>2
  <1>9. ASSUME BeginDelete \/ BeginLoad PROVE Sets' /\ Counts'
    BY <1>7, <1>9 DEF BeginDelete, BeginLoad
  <1>10. ASSUME CreateReady \/ Refuse \/ UNCHANGED vars PROVE Sets' /\ Counts'
    <2>1. UNCHANGED <<files, context, host, events>>
      BY <1>10 DEF CreateReady, Refuse, vars, files, host
    <2>2. result' \in {result, "ready", "failed"}
      BY <1>10 DEF CreateReady, Refuse, vars
    <2>3. Sets'
      BY <1>3, <2>1 DEF files, host
    <2>4. Counts'
      BY <1>3, <2>1, <2>2
    <2> QED
      BY <2>3, <2>4
  <1>11. Sets' /\ Counts'
    BY <1>4, <1>5, <1>6, <1>8, <1>9, <1>10, Steps
  <1>12. \A u \in Users :
           job'[u].port \in Ports \cup {None} /\ (job'[u] # Idle => job'[u].todo # <<>>)
    <2> SUFFICES ASSUME NEW u \in Users
                 PROVE  /\ job'[u].port \in Ports \cup {None}
                        /\ job'[u] # Idle => job'[u].todo # <<>>
      OBVIOUS
    <2>1. CASE job'[u] = Idle
      BY <2>1 DEF Idle
    <2>2. CASE job'[u] # Idle
      <3>1. job'[u] \in Jobs /\ Course(job'[u].op, job'[u].todo)
        BY <1>1, <2>2 DEF JobInv
      <3>2. job'[u].todo # <<>>
        BY <3>1 DEF Course, Stretch
      <3> QED
        BY <3>1, <3>2 DEF Jobs
    <2> QED
      BY <2>1, <2>2
  <1> QED
    BY <1>1, <1>11, <1>12 DEF TypeInv, TypeOK

\* The files, containers, processes and jobs have the types that the model gives
\* them (create/cluster/cluster.go, compose/cluster.go, binary/cluster.go).
THEOREM TypeCorrect == Spec => []TypeOK
  <1>1. Spec => []TypeInv
    BY TypeInit, TypeStep, PTL DEF Spec
  <1>2. TypeInv => TypeOK
    BY DEF TypeInv
  <1> QED
    BY <1>1, <1>2, PTL

-----------------------------------------------------------------------------
(* Who is at work *)

LEMMA AloneInit == Init => Alone
  BY DEF Init, Alone

\* What the steps of commands leave alone.
LEMMA ActsKeep ==
  ASSUME NEW u \in Users, Acts(u)
  PROVE  overlap' = overlap /\ mixed' = mixed
  <1> USE DEF history
  <1>1. CASE WriteConfig(u) \/ PickPort(u) \/ WriteKubeconfig(u) \/ WriteCompose(u) \/ SetContext(u)
             \/ UnsetContext(u) \/ KillProcesses(u) \/ Spawn(u) \/ Uninstall(u)
    BY <1>1 DEF WriteConfig, PickPort, WriteKubeconfig, WriteCompose, SetContext, UnsetContext,
                KillProcesses, Spawn, Uninstall
  <1>2. CASE PullImages(u) \/ Wait(u) \/ GetNode(u) \/ LoadObjects(u)
    BY <1>2 DEF PullImages, Wait, GetNode, LoadObjects, Untouched
  <1>3. CASE UpApi(u) \/ UpManager(u) \/ ComposeDown(u) \/ Stop(u) \/ Start(u)
    BY <1>3 DEF UpApi, UpManager, ComposeDown, Stop, Start
  <1>4. CASE Interrupt(u) \/ Tear(u) \/ DownFails(u) \/ KubectlFails(u)
    BY <1>4 DEF Interrupt, Tear, DownFails, KubectlFails
  <1> QED
    BY <1>1, <1>2, <1>3, <1>4 DEF Acts, Step

LEMMA AloneStep == TypeInv /\ Alone /\ [Next]_vars => Alone'
  <1> SUFFICES ASSUME TypeInv, Alone, [Next]_vars
               PROVE  Alone'
    OBVIOUS
  <1>1. JobInv
    BY DEF TypeInv
  <1>2. ASSUME NEW u \in Users, Acts(u) PROVE Alone'
    <2>1. /\ \A v \in Users \ {u} : job'[v] = job[v]
          /\ job[u] # Idle /\ (job'[u] = Idle \/ job'[u].op = job[u].op)
      BY <1>1, <1>2, ActsMove, MovesOn DEF Moves
    <2>2. overlap' = overlap
      BY <1>2, ActsKeep
    <2> QED
      BY <2>1, <2>2, Zenon DEF Alone
  <1>3. ASSUME NEW r \in Runtimes, BeginCreate(r) PROVE Alone'
    <2>1. PICK u \in Users : Idlers(Users \ {u})'
      BY <1>1, <1>3, CreateBegins
    <2> QED
      BY <2>1 DEF Alone, Idlers
  <1>4. CASE BeginDelete
    <2>1. PICK u \in Users : Idlers(Users \ {u})'
      BY <1>1, <1>4, DeleteBegins
    <2> QED
      BY <2>1 DEF Alone, Idlers
  <1>5. CASE BeginLoad
    <2>1. /\ \A v \in Users : job[v] = Idle \/ job[v].op = "load"
          /\ overlap' = (~Idlers(Users))
      BY <1>1, <1>5, LoadBegins
    <2>2. PICK u \in Users : /\ \A v \in Users \ {u} : job'[v] = job[v]
                             /\ job'[u].op = "load"
      BY <1>1, <1>5, LoadBegins
    <2>3. ASSUME NEW v \in Users, NEW w \in Users, v # w, job'[v] # Idle, job'[w] # Idle
          PROVE  job'[v].op = "load" /\ job'[w].op = "load" /\ ~Idlers(Users)
      BY <2>1, <2>2, <2>3 DEF Idlers
    <2> QED
      BY <2>1, <2>3, Zenon DEF Alone
  <1>6. CASE CreateReady \/ Refuse \/ UNCHANGED vars \/ \E u \in Users : Occupy(u)
    <2>1. job' = job
      BY <1>1, <1>6, Resting
    <2>2. overlap' = overlap
      BY <1>6 DEF CreateReady, Refuse, vars, Occupy, history
    <2> QED
      BY <2>1, <2>2, Zenon DEF Alone
  <1> QED
    BY <1>2, <1>3, <1>4, <1>5, <1>6, Steps

\* The call that follows each.
DockerNext(x, y) ==
  /\ x \in {"config", "port", "kubeconfig", "compose", "context", "images", "down",
           "up_api", "up_manager", "wait"}
  /\ x = "config" => y = "port"
  /\ x = "port" => y = "kubeconfig"
  /\ x = "kubeconfig" => y = "compose"
  /\ x = "compose" => y = "context"
  /\ x = "context" => y = "images"
  /\ x = "images" => y \in {"down", "up_api"}
  /\ x = "down" => y = "up_api"
  /\ x = "up_api" => y = "up_manager"
  /\ x = "up_manager" => y = "wait"
  /\ x = "wait" => y = "get_node"
BinaryNext(x, y) ==
  /\ x \in {"config", "unset", "kill", "port", "spawn", "kubeconfig", "context", "wait"}
  /\ x = "config" => y \in {"port", "unset"}
  /\ x = "unset" => y = "kill"
  /\ x = "kill" => y = "port"
  /\ x = "port" => y = "spawn"
  /\ x = "spawn" => y = "kubeconfig"
  /\ x = "kubeconfig" => y = "context"
  /\ x = "context" => y = "wait"
  /\ x = "wait" => y = "get_node"
DeleteNext(x, y) ==
  \/ x = "down" /\ y = "unset"
  \/ x = "kill" /\ y = "uninstall"
  \/ x = "unset" /\ y \in {"kill", "uninstall"}
LoadNext(x, y) == (x = "stop" /\ y = "load") \/ (x = "load" /\ y = "start")

LEMMA FlowsTo ==
  ASSUME NEW op, NEW x, NEW y, Flow(op, x, y)
  PROVE  /\ op = "docker" => DockerNext(x, y)
         /\ op = "binary" => BinaryNext(x, y)
         /\ op = "delete" => DeleteNext(x, y)
         /\ op = "load" => LoadNext(x, y)
  <1>1. op = "docker" => DockerNext(x, y)
    BY DEF Flow, DockerFlow, DockerNext
  <1>2. op = "binary" => BinaryNext(x, y)
    BY DEF Flow, BinaryFlow, BinaryNext
  <1>3. op = "delete" => DeleteNext(x, y)
    BY DEF Flow, DeleteFlow, DeleteNext
  <1>4. op = "load" => LoadNext(x, y)
    BY DEF Flow, LoadFlow, LoadNext
  <1> QED
    BY <1>1, <1>2, <1>3, <1>4

\* The step of a command that is not a load, while nothing else is at work.
Turn(u) ==
  /\ Acts(u) /\ job[u].op \in {"docker", "binary", "delete"}
  /\ Idlers(Users \ {u}) /\ Idlers(Users \ {u})'
  /\ \/ job'[u] = Idle
     \/ /\ job'[u] # Idle /\ job'[u].op = job[u].op /\ job'[u].todo = Tail(job[u].todo)
        /\ job[u].op = "docker" => DockerNext(Head(job[u].todo), Head(job'[u].todo))
        /\ job[u].op = "binary" => BinaryNext(Head(job[u].todo), Head(job'[u].todo))
        /\ job[u].op = "delete" => DeleteNext(Head(job[u].todo), Head(job'[u].todo))
        /\ IF At(u, "port") THEN job'[u].port \in Ports ELSE job'[u].port = job[u].port

\* The step of a load.
LoadTurn(u) ==
  /\ Acts(u) /\ job[u].op = "load"
  /\ \A v \in Users : job[v] = Idle \/ job[v].op = "load"
  /\ \A v \in Users \ {u} : job'[v] = job[v] /\ (job[v] # Idle => overlap)
  /\ \/ job'[u] = Idle
     \/ /\ job'[u] # Idle /\ job'[u].op = "load"
        /\ LoadNext(Head(job[u].todo), Head(job'[u].todo))

LEMMA Turns ==
  ASSUME TypeInv, Alone, NEW u \in Users, Acts(u)
  PROVE  Turn(u) \/ LoadTurn(u)
  <1>1. JobInv
    BY DEF TypeInv
  <1>2. job[u] # Idle /\ job[u] \in Jobs /\ job[u].op \in Ops
    BY <1>1, ActsMove, Working DEF Moves
  <1>3. \A v \in Users \ {u} :
          job[v] = Idle \/ (job[v].op = "load" /\ job[u].op = "load" /\ overlap)
    BY <1>2, Zenon DEF Alone
  <1>4. /\ \A v \in Users \ {u} : job'[v] = job[v]
        /\ \/ job'[u] = Idle
           \/ /\ job'[u] \in Jobs /\ job'[u].op = job[u].op /\ job'[u].todo = Tail(job[u].todo)
              /\ Flow(job[u].op, Head(job[u].todo), Head(job'[u].todo))
              /\ IF At(u, "port") THEN job'[u].port \in Ports ELSE job'[u].port = job[u].port
    BY <1>1, ActsMove, MovesOn
  <1>5. job'[u].op \in Ops => job'[u] # Idle
    BY DEF Idle, Ops
  <1>6. CASE job[u].op = "load"
    <2>1. \A v \in Users \ {u} : job'[v] = job[v] /\ (job[v] # Idle => overlap)
      BY <1>3, <1>4, Zenon
    <2>2. \A v \in Users : job[v] = Idle \/ job[v].op = "load"
      BY <1>3, <1>6
    <2>3. \/ job'[u] = Idle
          \/ /\ job'[u] # Idle /\ job'[u].op = "load"
             /\ LoadNext(Head(job[u].todo), Head(job'[u].todo))
      BY <1>2, <1>4, <1>5, <1>6, FlowsTo
    <2> QED
      BY <1>6, <2>1, <2>2, <2>3, Zenon DEF LoadTurn
  <1>7. CASE job[u].op # "load"
    <2>1. Idlers(Users \ {u}) /\ Idlers(Users \ {u})'
      BY <1>3, <1>4, <1>7 DEF Idlers
    <2>2. job[u].op \in {"docker", "binary", "delete"}
      BY <1>2, <1>7 DEF Ops
    <2> QED
      BY <1>2, <1>4, <1>5, <2>1, <2>2, FlowsTo DEF Turn
  <1> QED
    BY <1>6, <1>7

\* Which steps change what.
LEMMA Frames ==
  ASSUME NEW u \in Users, Acts(u)
  PROVE  /\ ~(WriteConfig(u) \/ Uninstall(u) \/ Tear(u)) => conf' = conf
         /\ ~(WriteKubeconfig(u) \/ Uninstall(u) \/ Tear(u)) => kubeconfig' = kubeconfig
         /\ ~(WriteCompose(u) \/ Uninstall(u) \/ Tear(u)) => compose' = compose
         /\ ~(SetContext(u) \/ UnsetContext(u)) => context' = context
         /\ ~(UpApi(u) \/ ComposeDown(u)) => api' = api
         /\ ~(UpManager(u) \/ ComposeDown(u) \/ Stop(u) \/ Start(u)) => manager' = manager
         /\ ~(KillProcesses(u) \/ Spawn(u)) => procs' = procs
         /\ ~(KillProcesses(u) \/ Spawn(u) \/ Uninstall(u)) => pids' = pids
         /\ ~(Tear(u) \/ ComposeDown(u)) => torn' = torn
         /\ ~(DownFails(u) \/ ComposeDown(u)) => leaked' = leaked
         /\ ~(Interrupt(u) \/ ComposeDown(u)) => cut' = cut
         /\ ~KubectlFails(u) => ignored' = ignored
         /\ ~GetNode(u) => result' \in {result, "none", "failed", "deleted", "loaded"}
         /\ taken' = taken
  <1> USE DEF files, host, history, Untouched, Continue, Return, Require, Give
  <1>1. CASE WriteConfig(u)
    BY <1>1 DEF WriteConfig
  <1>2. CASE PickPort(u) \/ WriteKubeconfig(u)
    BY <1>2 DEF PickPort, WriteKubeconfig
  <1>3. CASE WriteCompose(u) \/ SetContext(u) \/ UnsetContext(u)
    BY <1>3 DEF WriteCompose, SetContext, UnsetContext
  <1>4. CASE PullImages(u) \/ Wait(u)
    BY <1>4 DEF PullImages, Wait
  <1>5. CASE GetNode(u) \/ LoadObjects(u)
    BY <1>5 DEF GetNode, LoadObjects
  <1>6. CASE UpApi(u)
    BY <1>6 DEF UpApi
  <1>7. CASE UpManager(u) \/ KillProcesses(u)
    BY <1>7 DEF UpManager, KillProcesses
  <1>8. CASE Spawn(u) \/ Uninstall(u)
    BY <1>8 DEF Spawn, Uninstall
  <1>9. CASE ComposeDown(u)
    BY <1>9 DEF ComposeDown
  <1>10. CASE Stop(u) \/ Start(u)
    BY <1>10 DEF Stop, Start
  <1>11. CASE Interrupt(u)
    BY <1>11 DEF Interrupt
  <1>12. CASE Tear(u)
    BY <1>12 DEF Tear
  <1>13. CASE DownFails(u) \/ KubectlFails(u)
    BY <1>13 DEF DownFails, KubectlFails
  <1> QED
    BY <1>1, <1>2, <1>3, <1>4, <1>5, <1>6, <1>7, <1>8, <1>9, <1>10, <1>11, <1>12, <1>13
       DEF Acts, Step

-----------------------------------------------------------------------------
(* What the properties rest on *)

\* No containers, or a history that tells why there are some.
Cleared == (api = None /\ manager = "absent") \/ leaked \/ torn
NoProcs == procs = {} \/ mixed
Awaits(u, x) == \E i \in 1..Len(job[u].todo) : job[u].todo[i] = x

\* A command that is at work has a runtime on record.
RecordOf(u) ==
  /\ job[u].op \in Runtimes => conf # Torn /\ (At(u, "config") \/ conf # None)
  /\ job[u].op = "binary" /\ conf = "docker" => mixed
  /\ job[u].op \in {"delete", "load"} => conf \in Runtimes
  /\ job[u].op = "docker" /\ AtOneOf(u, {"down", "up_api", "up_manager", "wait", "get_node"})
       => conf = "docker"
RecordInv ==
  /\ conf = None => kubeconfig = None /\ compose = None
  /\ \A u \in Users : RecordOf(u)

\* What create has written by the call it is at.
WrittenOf(u) ==
  job[u].op = "docker" =>
    /\ AtOneOf(u, {"kubeconfig", "compose", "context", "images", "down"}) => job[u].port # api
    /\ AtOneOf(u, {"compose", "context", "images", "down", "up_api", "up_manager", "wait",
                   "get_node"}) => kubeconfig = job[u].port
    /\ AtOneOf(u, {"context", "images", "down", "up_api", "up_manager", "wait", "get_node"})
         => compose = job[u].port
    /\ AtOneOf(u, {"images", "down", "up_api", "up_manager", "wait", "get_node"})
         => context = job[u].port \/ ignored
    /\ AtOneOf(u, {"up_manager", "wait", "get_node"}) => api = job[u].port /\ api \notin taken
WrittenInv == \A u \in Users : WrittenOf(u)

\* Containers are there for the docker runtime only, and as long as compose down
\* has its file.
ContainersOf(u) == job[u].op = "delete" /\ conf = "docker" => At(u, "down") \/ Cleared
ContainersInv ==
  /\ compose = None => Cleared
  /\ conf \in {None, "binary"} => Cleared
  /\ \A u \in Users : ContainersOf(u)

\* Processes are there for the binary runtime only, those of the pid files.
ProcessesOf(u) ==
  /\ job[u].op = "binary" /\ AtOneOf(u, {"port", "spawn"}) => NoProcs
  /\ job[u].op = "binary" /\ At(u, "config") =>
       conf = None \/ (Len(job[u].todo) > 1 /\ job[u].todo[2] = "unset")
  /\ job[u].op = "delete" /\ conf = "binary" => Awaits(u, "kill") \/ NoProcs
ProcessesInv ==
  /\ procs \subseteq {pids} \/ mixed
  /\ conf \in {None, "docker"} => NoProcs
  /\ \A u \in Users : ProcessesOf(u)

\* The kubeconfig leads to the container that runs.
Linked == conf = "docker" /\ ~mixed /\ kubeconfig = api /\ api # None

LinkOf(u) == job[u].op = "delete" /\ Linked => At(u, "down") \/ leaked
LinkInv ==
  /\ Linked => context = api \/ ignored \/ leaked
  /\ Linked => api \in taken \/ manager # "absent" \/ cut \/ \E u \in Users : At(u, "up_manager")
  /\ Linked => compose = api
  /\ \A u \in Users : LinkOf(u)
  /\ result = "ready" =>
       /\ \A u \in Users : job[u] = Idle
       /\ conf = "docker" /\ ~mixed => Linked /\ api \notin taken

ControlInv ==
  /\ \A u \in Users : At(u, "load") => manager # "running" \/ overlap
  /\ manager = "stopped" => cut \/ \E u \in Users : At(u, "load") \/ At(u, "start")

-----------------------------------------------------------------------------
(* The steps of creates and deletes *)

\* What is said of a command does not concern a shell that is free.
LEMMA FreeShells ==
  ASSUME NEW v \in Users, job'[v] = Idle
  PROVE  RecordOf(v)' /\ WrittenOf(v)' /\ ContainersOf(v)' /\ ProcessesOf(v)' /\ LinkOf(v)'
  BY DEF RecordOf, WrittenOf, ContainersOf, ProcessesOf, LinkOf, Idle, Runtimes

LEMMA TurnTypes ==
  ASSUME TypeInv, NEW u \in Users, Turn(u)
  PROVE  /\ JobInv /\ Acts(u) /\ job[u] # Idle /\ mixed' = mixed /\ overlap' = overlap
         /\ ~(Stop(u) \/ Start(u) \/ LoadObjects(u))
         /\ job[u].op \in {"docker", "binary", "delete"}
         /\ job'[u] # Idle => job'[u].op = job[u].op
         /\ conf \in Runtimes \cup {None, Torn}
  <1>1. JobInv /\ Acts(u) /\ job[u] # Idle /\ mixed' = mixed /\ overlap' = overlap
    BY ActsMove, ActsKeep DEF Turn, Moves, TypeInv
  <1>2. ~(Stop(u) \/ Start(u) \/ LoadObjects(u))
    BY <1>1, Whose DEF Turn, Stop, Start, LoadObjects
  <1> QED
    BY <1>1, <1>2 DEF Turn, TypeInv, TypeOK

\* The steps that end a command.
LEMMA Endings ==
  ASSUME JobInv, NEW u \in Users, GetNode(u) \/ Uninstall(u) \/ Start(u) \/ Interrupt(u) \/ Tear(u)
  PROVE  job'[u] = Idle
  <1>1. \E r : Give(u, r)
    BY DEF GetNode, Uninstall, Start, Interrupt, Tear, Return
  <1> QED
    BY <1>1 DEF Give, JobInv

\* The step by which a command goes on from each call.
LEMMA Goings ==
  ASSUME JobInv, NEW u \in Users, Acts(u), job'[u] # Idle
  PROVE  /\ At(u, "config") => WriteConfig(u)
         /\ At(u, "port") => PickPort(u)
         /\ At(u, "kubeconfig") => WriteKubeconfig(u)
         /\ At(u, "compose") => WriteCompose(u)
         /\ At(u, "spawn") => Spawn(u)
         /\ At(u, "kill") => KillProcesses(u)
         /\ At(u, "up_manager") => UpManager(u)
         /\ At(u, "wait") => Wait(u)
         /\ At(u, "stop") => Stop(u)
         /\ At(u, "load") => LoadObjects(u)
         /\ At(u, "context") => SetContext(u) \/ KubectlFails(u)
         /\ At(u, "unset") => UnsetContext(u) \/ KubectlFails(u)
         /\ At(u, "down") => ComposeDown(u) \/ DownFails(u)
         /\ At(u, "images") => PullImages(u) /\ conf = "docker"
         /\ At(u, "up_api") => UpApi(u) /\ compose \notin taken
         /\ ~At(u, "get_node") /\ ~At(u, "uninstall") /\ ~At(u, "start")
  <1>1. ~(GetNode(u) \/ Uninstall(u) \/ Start(u) \/ Interrupt(u) \/ Tear(u))
    BY Endings
  <1>2. ASSUME NEW ok, Require(u, ok) PROVE ok
    BY <1>2 DEF Require, Return, Give, JobInv
  <1>3. CASE WriteConfig(u)
    BY <1>3 DEF WriteConfig, At
  <1>4. CASE PickPort(u)
    BY <1>4 DEF PickPort, At
  <1>5. CASE WriteKubeconfig(u)
    BY <1>5 DEF WriteKubeconfig, At
  <1>6. CASE WriteCompose(u)
    BY <1>6 DEF WriteCompose, At
  <1>7. CASE SetContext(u)
    BY <1>7 DEF SetContext, At
  <1>8. CASE UnsetContext(u)
    BY <1>8 DEF UnsetContext, At
  <1>9. CASE PullImages(u)
    BY <1>2, <1>9 DEF PullImages, At
  <1>10. CASE UpApi(u)
    BY <1>2, <1>10 DEF UpApi, At
  <1>11. CASE UpManager(u)
    BY <1>11 DEF UpManager, At
  <1>12. CASE ComposeDown(u)
    BY <1>12 DEF ComposeDown, At
  <1>13. CASE KillProcesses(u)
    BY <1>13 DEF KillProcesses, At
  <1>14. CASE Spawn(u)
    BY <1>14 DEF Spawn, At
  <1>15. CASE Wait(u)
    BY <1>15 DEF Wait, At
  <1>16. CASE Stop(u)
    BY <1>16 DEF Stop, At
  <1>17. CASE LoadObjects(u)
    BY <1>17 DEF LoadObjects, At
  <1>18. CASE DownFails(u)
    BY <1>18 DEF DownFails, At
  <1>19. CASE KubectlFails(u)
    BY <1>19 DEF KubectlFails, At
  <1> QED
    BY <1>1, <1>3, <1>4, <1>5, <1>6, <1>7, <1>8, <1>9, <1>10, <1>11, <1>12, <1>13, <1>14,
       <1>15, <1>16, <1>17, <1>18, <1>19 DEF Acts, Step

LEMMA RecordTurn ==
  ASSUME TypeInv, RecordInv, NEW u \in Users, Turn(u)
  PROVE  RecordInv'
  <1> DEFINE Gone == conf' = None => kubeconfig' = None /\ compose' = None
             x == Head(job[u].todo)
             y == Head(job'[u].todo)
  <1>1. ASSUME Gone, job'[u] # Idle => RecordOf(u)'
        PROVE  RecordInv'
    BY <1>1, FreeShells DEF RecordInv, Turn, Idlers
  <1>2. /\ job[u] # Idle /\ RecordOf(u) /\ mixed' = mixed
        /\ job[u].op \in {"docker", "binary", "delete"} /\ conf \in Runtimes \cup {None, Torn}
        /\ job'[u] # Idle => /\ job'[u].op = job[u].op
                             /\ job[u].op = "docker" => DockerNext(x, y)
                             /\ job[u].op = "binary" => BinaryNext(x, y)
    BY TurnTypes DEF RecordInv, Turn
  <1>3. job'[u] # Idle =>
          (At(u, "config") => WriteConfig(u)) /\ (At(u, "images") => conf = "docker")
    BY TurnTypes, Goings
  <1> HIDE DEF Gone
  <1> USE <1>2, Names DEF RecordOf, At, AtOneOf, Runtimes
  <1>4. CASE WriteConfig(u)
    <2>1. Gone
      BY <1>4 DEF WriteConfig, Gone
    <2>2. job'[u] # Idle => RecordOf(u)'
      BY <1>4 DEF WriteConfig, DockerNext, BinaryNext
    <2> QED
      BY <1>1, <2>1, <2>2
  <1>5. CASE WriteKubeconfig(u) \/ WriteCompose(u)
    <2>1. conf' = conf /\ conf # None
      BY <1>5 DEF WriteKubeconfig, WriteCompose
    <2>2. Gone
      BY <2>1 DEF Gone
    <2>3. job'[u] # Idle => RecordOf(u)'
      BY <1>5, <2>1 DEF WriteKubeconfig, WriteCompose, DockerNext, BinaryNext
    <2> QED
      BY <1>1, <2>2, <2>3
  <1>6. CASE Uninstall(u)
    <2>1. Gone /\ (job'[u] # Idle => FALSE)
      BY <1>6, TurnTypes, Endings DEF Uninstall, Gone
    <2> QED
      BY <1>1, <2>1
  <1>7. CASE Tear(u)
    <2>1. Gone
      BY <1>7 DEF Tear, Gone, RecordInv, files
    <2>2. job'[u] = Idle
      BY <1>7, TurnTypes, Endings
    <2> QED
      BY <1>1, <2>1, <2>2
  <1>8. CASE ~(WriteConfig(u) \/ WriteKubeconfig(u) \/ WriteCompose(u) \/ Uninstall(u) \/ Tear(u))
    <2>1. UNCHANGED <<conf, kubeconfig, compose>>
      BY <1>8, TurnTypes, Frames
    <2>2. Gone
      BY <2>1 DEF Gone, RecordInv
    <2>3. job'[u] # Idle => RecordOf(u)'
      BY <1>3, <1>8, <2>1 DEF DockerNext, BinaryNext
    <2> QED
      BY <1>1, <2>2, <2>3
  <1> QED
    BY <1>4, <1>5, <1>6, <1>7, <1>8

LEMMA WrittenTurn ==
  ASSUME TypeInv, WrittenInv, NEW u \in Users, Turn(u)
  PROVE  WrittenInv'
  <1> DEFINE x == Head(job[u].todo)
             y == Head(job'[u].todo)
  <1>1. SUFFICES ASSUME job'[u] # Idle, job[u].op = "docker"
                 PROVE  WrittenOf(u)'
    <2>1. job'[u] # Idle => job'[u].op = job[u].op
      BY TurnTypes
    <2>2. WrittenOf(u)'
      BY <1>1, <2>1, FreeShells DEF WrittenOf
    <2> QED
      BY <2>2, FreeShells DEF WrittenInv, Turn, Idlers
  <1>2. /\ job[u] # Idle /\ job[u].op = "docker" /\ job'[u] # Idle /\ job'[u].op = "docker"
        /\ WrittenOf(u) /\ DockerNext(x, y)
        /\ IF At(u, "port") THEN TRUE ELSE job'[u].port = job[u].port
    BY <1>1, TurnTypes DEF WrittenInv, Turn
  <1>3. /\ x = "config" => WriteConfig(u)
        /\ x = "port" => PickPort(u)
        /\ x = "kubeconfig" => WriteKubeconfig(u)
        /\ x = "compose" => WriteCompose(u)
        /\ x = "context" => SetContext(u) \/ KubectlFails(u)
        /\ x = "images" => PullImages(u)
        /\ x = "down" => ComposeDown(u) \/ DownFails(u)
        /\ x = "up_api" => UpApi(u) /\ compose \notin taken
        /\ x = "up_manager" => UpManager(u)
        /\ x = "wait" => Wait(u)
    BY <1>1, <1>2, TurnTypes, Goings DEF At
  <1> USE DEF WrittenOf, AtOneOf, At, DockerNext
  <1>4. CASE x = "config"
    BY <1>2, <1>4
  <1>5. CASE x = "port"
    <2>1. job'[u].port # api /\ api' = api
      <3>1. PICK p \in Ports \ {api} : job' = [job EXCEPT ![u].port = p, ![u].todo = Tail(@)]
        BY <1>3, <1>5 DEF PickPort
      <3>2. job[u] \in Jobs /\ job \in [Users -> {Idle} \cup Jobs]
        BY <1>2, TurnTypes, Working DEF JobInv
      <3>3. job'[u].port = p
        BY <3>1, <3>2 DEF Jobs
      <3> QED
        BY <1>3, <1>5, <3>3 DEF PickPort, host
    <2> QED
      BY <1>2, <1>5, <2>1
  <1>6. CASE x = "kubeconfig"
    <2>1. kubeconfig' = job[u].port /\ api' = api
      BY <1>3, <1>6 DEF WriteKubeconfig, host
    <2> QED
      BY <1>2, <1>6, <2>1
  <1>7. CASE x = "compose"
    <2>1. compose' = job[u].port /\ kubeconfig' = kubeconfig /\ api' = api
      BY <1>3, <1>7 DEF WriteCompose, host
    <2> QED
      BY <1>2, <1>7, <2>1
  <1>8. CASE x = "context"
    <2>1. /\ context' = job[u].port \/ ignored'
          /\ compose' = compose /\ kubeconfig' = kubeconfig /\ api' = api
      BY <1>3, <1>8 DEF SetContext, KubectlFails, host, files
    <2> QED
      BY <1>2, <1>8, <2>1
  <1>9. CASE x = "images"
    <2>1. UNCHANGED <<context, compose, kubeconfig, api, ignored>>
      BY <1>3, <1>9 DEF PullImages, Untouched, host, files, history
    <2> QED
      BY <1>2, <1>9, <2>1
  <1>10. CASE x = "down"
    <2>1. UNCHANGED <<context, compose, kubeconfig, ignored>>
      BY <1>3, <1>10 DEF ComposeDown, DownFails, files
    <2> QED
      BY <1>2, <1>10, <2>1
  <1>11. CASE x = "up_api"
    <2>1. UNCHANGED <<context, compose, kubeconfig, ignored, taken>> /\ api' = compose
      BY <1>3, <1>11 DEF UpApi, files, history
    <2> QED
      BY <1>2, <1>3, <1>11, <2>1
  <1>12. CASE x = "up_manager" \/ x = "wait"
    <2>1. UNCHANGED <<context, compose, kubeconfig, api, ignored, taken>>
      BY <1>3, <1>12 DEF UpManager, Wait, Untouched, host, files, history
    <2> QED
      BY <1>2, <1>12, <2>1
  <1> QED
    BY <1>2, <1>4, <1>5, <1>6, <1>7, <1>8, <1>9, <1>10, <1>11, <1>12

\* A create that has picked its port.
LEMMA OwnPort ==
  ASSUME JobInv, NEW u \in Users, job[u].op \in Runtimes,
         NEW x, At(u, x), x \notin {"config", "unset", "kill", "port"}
  PROVE  job[u].port \in Ports /\ job[u].port # None
  <1>1. Picked(u)
    BY DEF Picked, At
  <1> QED
    BY <1>1, Names DEF JobInv

LEMMA ContainersTurn ==
  ASSUME TypeInv, RecordInv, WrittenInv, ContainersInv, NEW u \in Users, Turn(u)
  PROVE  ContainersInv'
  <1>1. /\ JobInv /\ Acts(u) /\ RecordOf(u) /\ WrittenOf(u) /\ ContainersOf(u)
        /\ job[u] # Idle /\ (job'[u] # Idle => job'[u].op = job[u].op)
        /\ compose = None => Cleared
        /\ conf \in {None, "binary"} => Cleared
    BY TurnTypes DEF RecordInv, WrittenInv, ContainersInv
  <1>2. ASSUME compose' = None => Cleared', conf' \in {None, "binary"} => Cleared',
               job'[u] # Idle => ContainersOf(u)'
        PROVE  ContainersInv'
    BY <1>2, FreeShells DEF ContainersInv, Turn, Idlers
  <1>3. ASSUME Cleared' PROVE ContainersInv'
    BY <1>3, <1>2 DEF ContainersOf
  <1>4. ASSUME conf' = "docker", compose' # None, job[u].op \in Runtimes PROVE ContainersInv'
    <2>1. job'[u] # Idle => ContainersOf(u)'
      BY <1>1, <1>4 DEF ContainersOf, Runtimes
    <2> QED
      BY <1>2, <1>4, <2>1, Names
  <1>5. CASE ComposeDown(u)
    <2>1. CASE compose # None
      <3>1. api' = None /\ manager' = "absent"
        BY <1>5, <2>1 DEF ComposeDown
      <3> QED
        BY <1>3, <3>1 DEF Cleared
    <2>2. CASE compose = None
      <3>1. Cleared /\ UNCHANGED <<api, manager, torn, leaked>>
        BY <1>1, <1>5, <2>2 DEF ComposeDown
      <3> QED
        BY <1>3, <3>1 DEF Cleared
    <2> QED
      BY <2>1, <2>2
  <1>6. CASE DownFails(u)
    BY <1>3, <1>6 DEF DownFails, Cleared
  <1>7. CASE Uninstall(u)
    <2>1. At(u, "uninstall") /\ job[u].op = "delete"
      BY <1>1, <1>7, Whose DEF Uninstall
    <2>2. Cleared
      BY <1>1, <2>1 DEF RecordOf, ContainersOf, Runtimes, At
    <2>3. Cleared'
      BY <1>7, <2>2 DEF Cleared, Uninstall, history
    <2> QED
      BY <1>3, <2>3
  <1>8. CASE Tear(u)
    <2>1. job'[u] = Idle /\ UNCHANGED <<api, manager, leaked>>
      BY <1>1, <1>8, Endings DEF Tear, host
    <2>2. CASE At(u, "config")
      <3>1. conf' = Torn /\ UNCHANGED <<compose, torn>>
        BY <1>8, <2>2 DEF Tear, At
      <3> QED
        BY <1>1, <1>2, <2>1, <3>1, Names DEF Cleared
    <2>3. CASE At(u, "kubeconfig")
      <3>1. UNCHANGED <<conf, compose, torn>>
        BY <1>8, <2>3 DEF Tear, At
      <3> QED
        BY <1>1, <1>2, <2>1, <3>1 DEF Cleared
    <2>4. CASE At(u, "compose")
      <3>1. torn'
        BY <1>8, <2>4 DEF Tear, At
      <3> QED
        BY <1>3, <3>1 DEF Cleared
    <2> QED
      BY <1>8, <2>2, <2>3, <2>4 DEF Tear
  <1>9. CASE WriteConfig(u)
    <2>1. /\ UNCHANGED <<compose, api, manager, torn, leaked>>
          /\ conf # None => conf' = conf
          /\ job[u].op \in Runtimes
      BY <1>1, <1>9, Whose DEF WriteConfig, host, history
    <2>2. CASE conf = None
      BY <1>1, <1>3, <2>1, <2>2 DEF Cleared
    <2>3. CASE conf # None
      BY <1>1, <1>2, <2>1, <2>3 DEF Cleared, ContainersOf, Runtimes
    <2> QED
      BY <2>2, <2>3
  <1>10. CASE WriteCompose(u)
    <2>1. /\ job[u].op \in Runtimes /\ compose' = job[u].port
          /\ UNCHANGED <<conf, api, manager, torn, leaked>>
      BY <1>1, <1>10, Whose DEF WriteCompose, host, history, Runtimes
    <2>2. compose' # None
      BY <1>1, <1>10, <2>1, OwnPort DEF WriteCompose
    <2> QED
      BY <1>1, <1>2, <2>1, <2>2 DEF Cleared, ContainersOf, Runtimes
  <1>11. CASE UpApi(u) \/ UpManager(u)
    <2>1. /\ AtOneOf(u, {"up_api", "up_manager"}) /\ UNCHANGED <<conf, compose>>
      BY <1>11 DEF UpApi, UpManager, AtOneOf, files
    <2>2. job[u].op = "docker" /\ conf = "docker"
      BY <1>1, <2>1, Whose DEF AtOneOf, RecordOf
    <2>3. compose = job[u].port
      BY <1>1, <2>1, <2>2 DEF AtOneOf, WrittenOf
    <2>4. job[u].port # None
      BY <1>1, <2>1, <2>2, OwnPort DEF AtOneOf, Runtimes
    <2> QED
      BY <1>4, <2>1, <2>2, <2>3, <2>4 DEF Runtimes
  <1>12. CASE ~(ComposeDown(u) \/ DownFails(u) \/ Uninstall(u) \/ Tear(u) \/ WriteConfig(u)
                \/ WriteCompose(u) \/ UpApi(u) \/ UpManager(u))
    <2>1. UNCHANGED <<conf, compose, api, manager, torn, leaked>>
      BY <1>12, TurnTypes, Frames
    <2>2. job'[u] # Idle => ~At(u, "down")
      BY <1>1, <1>12, Goings
    <2> QED
      BY <1>1, <1>2, <2>1, <2>2 DEF Cleared, ContainersOf
  <1> QED
    BY <1>5, <1>6, <1>7, <1>8, <1>9, <1>10, <1>11, <1>12

LEMMA FirstAndRest ==
  ASSUME NEW S, NEW q \in Seq(S), Len(q) > 0
  PROVE  /\ Len(q) \in Nat \ {0} /\ Head(q) = q[1]
         /\ Len(Tail(q)) = Len(q) - 1 /\ \A i \in 1..Len(Tail(q)) : Tail(q)[i] = q[i + 1]
  <1>1. q # <<>>
    OBVIOUS
  <1> QED
    BY <1>1, LenProperties, HeadTailProperties

LEMMA ProcessesTurn ==
  ASSUME TypeInv, RecordInv, ProcessesInv, NEW u \in Users, Turn(u)
  PROVE  ProcessesInv'
  <1> DEFINE s == job[u].todo
             t == job'[u].todo
  <1>1. /\ JobInv /\ Acts(u) /\ RecordOf(u) /\ ProcessesOf(u) /\ job[u] # Idle
        /\ procs \subseteq {pids} \/ mixed
        /\ conf \in {None, "docker"} => NoProcs
        /\ mixed' = mixed
    BY TurnTypes DEF RecordInv, ProcessesInv
  <1>2. /\ job[u].op \in {"docker", "binary", "delete"}
        /\ job'[u] # Idle =>
             /\ job'[u].op = job[u].op /\ t = Tail(s)
             /\ job[u].op = "binary" => BinaryNext(Head(s), Head(t))
             /\ job[u].op = "delete" => DeleteNext(Head(s), Head(t))
    BY DEF Turn
  <1>3. /\ s \in Seq(Calls(job[u].op)) /\ Len(s) \in Nat \ {0} /\ Head(s) = s[1]
        /\ Course(job[u].op, s)
    BY <1>1, Working
  <1>4. ASSUME Len(s) > 1
        PROVE  Len(Tail(s)) = Len(s) - 1 /\ \A i \in 1..Len(Tail(s)) : Tail(s)[i] = s[i + 1]
    BY <1>3, FirstAndRest
  <1>5. job'[u] # Idle => Head(t) = s[2] /\ Len(s) > 1
    <2> SUFFICES ASSUME job'[u] # Idle
                 PROVE  Head(t) = s[2] /\ Len(s) > 1
      OBVIOUS
    <2>1. Head(t) = t[1] /\ Len(t) \in Nat \ {0} /\ t = Tail(s)
      <3>1. JobInv'
        BY <1>1, ActsMove, MovesOn
      <3>2. Len(t) > 0 /\ t \in Seq(Calls(job'[u].op))
        BY <3>1 DEF JobInv, Course, Stretch
      <3>3. t = Tail(s)
        BY <1>2
      <3> HIDE DEF t
      <3> QED
        BY <3>2, <3>3, FirstAndRest
    <2>2. Len(s) > 1
      <3> DEFINE m == Len(s)
                 n == Len(Tail(s))
      <3>1. m \in Nat /\ n = m - 1
        BY <1>3, FirstAndRest
      <3>2. n \in Nat /\ n # 0
        BY <2>1
      <3> HIDE DEF m, n
      <3>3. m > 1
        BY <3>1, <3>2
      <3> QED
        BY <3>3 DEF m
    <2>3. 1 \in 1..Len(Tail(s))
      BY <1>3, <1>4, <2>2
    <2> QED
      BY <1>4, <2>1, <2>2, <2>3
  <1>6. ASSUME procs' \subseteq {pids'} \/ mixed', conf' \in {None, "docker"} => NoProcs',
               job'[u] # Idle => ProcessesOf(u)'
        PROVE  ProcessesInv'
    BY <1>6, FreeShells DEF ProcessesInv, Turn, Idlers
  <1>7. ASSUME NoProcs', job'[u] # Idle => ~At(u, "config")' PROVE ProcessesInv'
    <2>1. procs' \subseteq {pids'} \/ mixed'
      BY <1>7 DEF NoProcs
    <2>2. job'[u] # Idle => ProcessesOf(u)'
      BY <1>7 DEF ProcessesOf
    <2> QED
      BY <1>6, <1>7, <2>1, <2>2
  <1>8. job'[u] # Idle /\ job[u].op = "binary" => ~At(u, "config")'
    BY <1>2 DEF At, BinaryNext
  <1>9. CASE KillProcesses(u)
    <2>1. procs' = {} \/ mixed'
      BY <1>1, <1>9 DEF KillProcesses
    <2>2. job'[u] # Idle => ~At(u, "config")'
      BY <1>1, <1>2, <1>8, <1>9, Whose DEF KillProcesses, At, DeleteNext
    <2> QED
      BY <1>7, <2>1, <2>2 DEF NoProcs
  <1>10. CASE Spawn(u)
    <2>1. At(u, "spawn") /\ job[u].op = "binary"
      BY <1>1, <1>10, Whose DEF Spawn
    <2>2. NoProcs
      BY <1>1, <2>1 DEF ProcessesOf, AtOneOf
    <2>3. procs' \subseteq {pids'} \/ mixed'
      BY <1>1, <1>10, <2>2 DEF Spawn, NoProcs
    <2>4. conf' = conf
      BY <1>10 DEF Spawn, files
    <2>5. conf' \in {None, "docker"} => NoProcs'
      BY <1>1, <2>1, <2>4 DEF RecordOf, Runtimes, At, NoProcs
    <2>6. job'[u] # Idle => ProcessesOf(u)'
      BY <1>2, <2>1 DEF ProcessesOf, At, AtOneOf, BinaryNext
    <2> QED
      BY <1>6, <2>3, <2>5, <2>6
  <1>11. CASE Uninstall(u)
    <2>1. At(u, "uninstall") /\ job[u].op = "delete" /\ job'[u] = Idle
      BY <1>1, <1>11, Whose, Endings DEF Uninstall
    <2>2. ~Awaits(u, "kill")
      <3>1. s[1] = "uninstall"
        BY <1>3, <2>1 DEF At
      <3>2. s[1] \in Last => 1 = Len(s)
        <4>1. 1 \in 1..Len(s)
          BY <1>3
        <4> QED
          BY <1>3, <4>1 DEF Course, Stretch
      <3>3. Len(s) = 1
        BY <3>1, <3>2 DEF Last
      <3> QED
        BY <3>1, <3>3 DEF Awaits
    <2>3. NoProcs
      BY <1>1, <2>1, <2>2 DEF RecordOf, ProcessesOf, Runtimes
    <2>4. NoProcs'
      BY <1>1, <1>11, <2>3 DEF NoProcs, Uninstall
    <2> QED
      BY <1>7, <2>1, <2>4
  <1>12. CASE Tear(u)
    <2>1. job'[u] = Idle /\ UNCHANGED <<procs, pids>> /\ conf' \in {conf, Torn}
      BY <1>1, <1>12, Endings DEF Tear, host
    <2> QED
      BY <1>1, <1>6, <2>1, Names DEF NoProcs
  <1>13. CASE WriteConfig(u)
    <2>1. /\ At(u, "config") /\ job[u].op \in Runtimes
          /\ UNCHANGED <<procs, pids>> /\ (conf # None => conf' = conf)
      BY <1>1, <1>13, Whose DEF WriteConfig, host
    <2>2. CASE conf = None
      <3>1. NoProcs'
        BY <1>1, <2>1, <2>2 DEF NoProcs
      <3>2. procs' \subseteq {pids'} \/ mixed'
        BY <1>1, <2>1
      <3>3. job'[u] # Idle => ProcessesOf(u)'
        BY <1>2, <1>8, <2>1, <3>1 DEF ProcessesOf, Runtimes
      <3> QED
        BY <1>6, <3>1, <3>2, <3>3
    <2>3. CASE conf # None
      <3>1. job'[u] # Idle /\ job[u].op = "binary" => Head(t) = "unset"
        BY <1>1, <1>5, <2>1, <2>3 DEF ProcessesOf
      <3>2. job'[u] # Idle => ProcessesOf(u)'
        BY <1>2, <1>8, <2>1, <3>1 DEF ProcessesOf, Runtimes, AtOneOf, At
      <3> QED
        BY <1>1, <1>6, <2>1, <2>3, <3>2 DEF NoProcs
    <2> QED
      BY <2>2, <2>3
  <1>14. CASE ~(KillProcesses(u) \/ Spawn(u) \/ Uninstall(u) \/ Tear(u) \/ WriteConfig(u))
    <2>1. UNCHANGED <<conf, procs, pids>>
      BY <1>1, <1>14, Frames
    <2>2. job'[u] # Idle => ~At(u, "kill") /\ ~At(u, "config") /\ ~At(u, "spawn")
      BY <1>1, <1>14, Goings
    <2>3. ASSUME job'[u] # Idle, job[u].op = "binary", AtOneOf(u, {"port", "spawn"})' PROVE NoProcs'
      <3>1. Head(t) \in {"port", "spawn"}
        BY <2>3 DEF AtOneOf, At
      <3>2. At(u, "port")
        BY <1>1, <1>2, <2>2, <2>3, <3>1 DEF BinaryNext, At
      <3> QED
        BY <1>1, <2>1, <2>3, <3>2 DEF ProcessesOf, AtOneOf, NoProcs
    <2>4. ASSUME job'[u] # Idle, Awaits(u, "kill") PROVE Awaits(u, "kill")'
      <3>1. PICK i \in 1..Len(s) : s[i] = "kill"
        BY <2>4 DEF Awaits
      <3>2. i # 1
        BY <1>1, <1>3, <2>2, <2>4, <3>1 DEF At
      <3>3. t = Tail(s) /\ Len(s) > 1
        BY <1>2, <1>5, <2>4
      <3>4. i - 1 \in 1..Len(Tail(s)) /\ i - 1 + 1 = i
        BY <1>3, <1>4, <3>1, <3>2, <3>3
      <3>5. Tail(s)[i - 1] = "kill"
        BY <1>4, <3>1, <3>3, <3>4
      <3> QED
        BY <3>3, <3>4, <3>5 DEF Awaits
    <2>5. job'[u] # Idle => ProcessesOf(u)'
      BY <1>1, <1>2, <1>8, <2>1, <2>3, <2>4 DEF ProcessesOf, NoProcs
    <2> QED
      BY <1>1, <1>6, <2>1, <2>5 DEF NoProcs
  <1> QED
    BY <1>9, <1>10, <1>11, <1>12, <1>13, <1>14

\* Between the call that writes the kubeconfig and compose up, the kubeconfig does
\* not lead to the container; after it, all files do.
LEMMA DockerPorts ==
  ASSUME TypeInv, RecordInv, WrittenInv, NEW u \in Users, Turn(u), job[u].op = "docker"
  PROVE  /\ AtOneOf(u, {"compose", "context", "images", "down"}) => kubeconfig # api
         /\ AtOneOf(u, {"compose", "context", "images", "down", "up_api", "up_manager", "wait",
                        "get_node"}) => kubeconfig # None
         /\ At(u, "up_api") => compose = kubeconfig /\ (context = compose \/ ignored)
         /\ AtOneOf(u, {"up_manager", "wait", "get_node"}) =>
              /\ conf = "docker" /\ kubeconfig = api /\ compose = api
              /\ api # None /\ api \notin taken
              /\ context = api \/ ignored
  <1> DEFINE x == Head(job[u].todo)
  <1>1. JobInv /\ RecordOf(u) /\ WrittenOf(u)
    BY TurnTypes DEF RecordInv, WrittenInv
  <1>2. /\ AtOneOf(u, {"compose", "context", "images", "down"}) =>
             kubeconfig = job[u].port /\ job[u].port # api
        /\ At(u, "up_api") => /\ compose = job[u].port /\ kubeconfig = job[u].port
                              /\ context = job[u].port \/ ignored
        /\ AtOneOf(u, {"up_manager", "wait", "get_node"}) =>
             /\ conf = "docker" /\ kubeconfig = job[u].port /\ compose = job[u].port
             /\ api = job[u].port /\ api \notin taken /\ (context = job[u].port \/ ignored)
    BY <1>1 DEF WrittenOf, RecordOf, AtOneOf
  <1>3. AtOneOf(u, {"compose", "context", "images", "down", "up_api", "up_manager", "wait",
                    "get_node"}) => kubeconfig = job[u].port /\ job[u].port # None
    <2>1. SUFFICES ASSUME NEW z \in {"compose", "context", "images", "down", "up_api", "up_manager",
                                     "wait", "get_node"}, At(u, z)
                   PROVE  kubeconfig = job[u].port /\ job[u].port # None
      BY DEF AtOneOf
    <2>2. kubeconfig = job[u].port
      BY <1>1, <2>1 DEF WrittenOf, AtOneOf
    <2>3. job[u].port # None
      BY <1>1, <2>1, OwnPort DEF Runtimes
    <2> QED
      BY <2>2, <2>3
  <1>4. AtOneOf(u, {"up_manager", "wait", "get_node"}) => job[u].port # None
    BY <1>3 DEF AtOneOf
  <1> QED
    BY <1>2, <1>3, <1>4

LEMMA LinkTurn ==
  ASSUME TypeInv, RecordInv, WrittenInv, LinkInv, NEW u \in Users, Turn(u)
  PROVE  LinkInv'
  <1> DEFINE Files == /\ Linked => context = api \/ ignored \/ leaked
                      /\ Linked => compose = api
             Manager == Linked => api \in taken \/ manager # "absent" \/ cut \/ At(u, "up_manager")
             Answer == result = "ready" =>
                         /\ \A v \in Users : job[v] = Idle
                         /\ conf = "docker" /\ ~mixed => Linked /\ api \notin taken
  <1>1. /\ JobInv /\ Acts(u) /\ RecordOf(u) /\ WrittenOf(u) /\ LinkOf(u) /\ job[u] # Idle
        /\ mixed' = mixed /\ taken' = taken /\ job[u].op \in {"docker", "binary", "delete"}
        /\ job'[u] # Idle => job'[u].op = job[u].op
    BY TurnTypes, Frames DEF RecordInv, WrittenInv, LinkInv
  <1>2. Files /\ Manager
    <2>1. \A v \in Users : At(v, "up_manager") => v = u
      BY DEF Turn, Idlers, At
    <2> QED
      BY <2>1 DEF LinkInv
  <1>3. Answer'
    <2>1. SUFFICES ASSUME result' = "ready"
                   PROVE  /\ \A v \in Users : job'[v] = Idle
                          /\ conf' = "docker" /\ ~mixed' => Linked' /\ api' \notin taken'
      OBVIOUS
    <2>2. result # "ready"
      BY <1>1 DEF LinkInv
    <2>3. GetNode(u)
      BY <1>1, <2>1, <2>2, Frames
    <2>4. \A v \in Users : job'[v] = Idle
      BY <1>1, <2>3, Endings DEF Turn, Idlers
    <2>5. At(u, "get_node") /\ UNCHANGED <<conf, kubeconfig, api>>
      BY <2>3 DEF GetNode, Untouched, files, host
    <2>6. conf = "docker" /\ ~mixed => job[u].op = "docker"
      BY <1>1, <2>5, Whose DEF RecordOf, Runtimes
    <2>7. conf = "docker" /\ ~mixed => Linked /\ api \notin taken
      BY <2>5, <2>6, DockerPorts DEF AtOneOf, Linked
    <2> QED
      BY <1>1, <2>4, <2>5, <2>7 DEF Linked
  <1>4. ASSUME Files', Manager', job'[u] # Idle => LinkOf(u)'
        PROVE  LinkInv'
    BY <1>3, <1>4, FreeShells DEF LinkInv, Turn, Idlers
  <1>5. ASSUME ~Linked' PROVE LinkInv'
    BY <1>4, <1>5 DEF LinkOf
  <1>6. conf = "docker" /\ ~mixed => job[u].op \in {"docker", "delete"}
    BY <1>1 DEF RecordOf
  <1>7. CASE WriteConfig(u)
    <2>1. /\ At(u, "config") /\ job[u].op \in Runtimes
          /\ UNCHANGED <<kubeconfig, compose, context, api, manager, ignored, leaked, cut>>
          /\ conf # None => conf' = conf
      BY <1>1, <1>7, Whose DEF WriteConfig, host, history
    <2>2. CASE conf = None
      BY <1>5, <2>1, <2>2 DEF RecordInv, Linked
    <2>3. CASE conf # None
      <3>1. Linked' => Linked
        BY <1>1, <2>1, <2>3 DEF Linked
      <3>2. Files' /\ Manager'
        BY <1>1, <1>2, <2>1, <3>1 DEF At
      <3>3. job'[u] # Idle => LinkOf(u)'
        BY <1>1, <2>1 DEF LinkOf, Runtimes
      <3> QED
        BY <1>4, <3>2, <3>3
    <2> QED
      BY <2>2, <2>3
  <1>8. CASE WriteKubeconfig(u)
    <2>1. At(u, "kubeconfig") /\ kubeconfig' = job[u].port /\ UNCHANGED <<conf, api>>
      BY <1>8 DEF WriteKubeconfig, host
    <2>2. job[u].op = "docker" => job[u].port # api
      BY <1>1, <2>1 DEF WrittenOf, AtOneOf
    <2>3. job[u].op \in Runtimes
      BY <1>1, <2>1, Whose
    <2> QED
      BY <1>1, <1>5, <1>6, <2>1, <2>2, <2>3 DEF Linked, Runtimes
  <1>9. CASE WriteCompose(u)
    <2>1. At(u, "compose") /\ job[u].op = "docker" /\ UNCHANGED <<kubeconfig, api>>
      BY <1>1, <1>9, Whose DEF WriteCompose, host
    <2>2. kubeconfig # api
      BY <2>1, DockerPorts DEF AtOneOf
    <2> QED
      BY <1>5, <2>1, <2>2 DEF Linked
  <1>10. CASE Uninstall(u)
    BY <1>5, <1>10, Names DEF Uninstall, Linked
  <1>11. CASE Tear(u)
    <2>1. api' = api
      BY <1>11 DEF Tear, host
    <2>2. CASE At(u, "config")
      <3>1. conf' = Torn
        BY <1>11, <2>2 DEF Tear, At
      <3> QED
        BY <1>5, <3>1, Names DEF Linked
    <2>3. CASE At(u, "kubeconfig")
      <3>1. kubeconfig' = None
        BY <1>11, <2>3 DEF Tear, At
      <3> QED
        BY <1>5, <3>1 DEF Linked
    <2>4. CASE At(u, "compose")
      <3>1. kubeconfig' = kubeconfig /\ job[u].op = "docker"
        BY <1>1, <1>11, <2>4, Whose DEF Tear, At
      <3>2. kubeconfig # api
        BY <2>4, <3>1, DockerPorts DEF AtOneOf
      <3> QED
        BY <1>5, <2>1, <3>1, <3>2 DEF Linked
    <2> QED
      BY <1>11, <2>2, <2>3, <2>4 DEF Tear
  <1>12. CASE UpApi(u)
    <2>1. /\ At(u, "up_api") /\ job[u].op = "docker" /\ api' = compose
          /\ UNCHANGED <<conf, kubeconfig, compose, context, ignored>>
      BY <1>1, <1>12, Whose DEF UpApi, files, history
    <2>2. compose = kubeconfig /\ kubeconfig # None /\ (context = compose \/ ignored)
      BY <2>1, DockerPorts DEF AtOneOf
    <2>3. Files'
      BY <2>1, <2>2
    <2>4. CASE compose \in taken
      <3>1. Manager'
        BY <1>1, <2>1, <2>4
      <3>2. job'[u] # Idle => LinkOf(u)'
        BY <1>1, <2>1 DEF LinkOf
      <3> QED
        BY <1>4, <2>3, <3>1, <3>2
    <2>5. CASE compose \notin taken
      <3>1. Proceed(u)
        BY <1>12, <2>5 DEF UpApi, Require, Continue
      <3>2. job'[u].op = job[u].op
        <4>1. job \in [Users -> {Idle} \cup Jobs] /\ job[u] \in Jobs
          BY <1>1, Working DEF JobInv
        <4> QED
          BY <3>1, <4>1 DEF Proceed, Jobs
      <3>3. job'[u] # Idle
        BY <2>1, <3>2 DEF Idle
      <3>4. Head(job'[u].todo) = "up_manager"
        BY <2>1, <3>3 DEF Turn, DockerNext, At
      <3>5. Manager'
        BY <3>3, <3>4 DEF At
      <3>6. LinkOf(u)'
        BY <2>1, <3>2 DEF LinkOf
      <3> QED
        BY <1>4, <2>3, <3>5, <3>6
    <2> QED
      BY <2>4, <2>5
  <1>13. CASE ComposeDown(u)
    <2>1. CASE compose # None
      BY <1>5, <1>13, <2>1 DEF ComposeDown, Linked
    <2>2. CASE compose = None
      <3>1. /\ At(u, "down") /\ compose' = None
            /\ UNCHANGED <<conf, kubeconfig, api>>
        BY <1>13, <2>2 DEF ComposeDown, files
      <3>2. ~Linked'
        BY <1>1, <1>2, <2>2, <3>1 DEF Linked
      <3> QED
        BY <1>5, <3>2
    <2> QED
      BY <2>1, <2>2
  <1>14. CASE DownFails(u)
    <2>1. /\ At(u, "down") /\ leaked'
          /\ UNCHANGED <<conf, kubeconfig, compose, api, manager, cut>>
      BY <1>14 DEF DownFails, files, host
    <2>2. Files' /\ Manager'
      BY <1>1, <1>2, <2>1 DEF At, Linked
    <2>3. LinkOf(u)'
      BY <2>1 DEF LinkOf
    <2> QED
      BY <1>4, <2>2, <2>3
  <1>15. ASSUME UNCHANGED <<conf, kubeconfig, compose, api, leaked>>,
                ~At(u, "down"), cut => cut', ignored => ignored',
                Linked => context' = context \/ ignored' \/ leaked,
                Linked /\ manager # "absent" => manager' # "absent",
                Linked /\ At(u, "up_manager") => manager' # "absent" \/ cut'
         PROVE  LinkInv'
    <2>1. Linked' => Linked
      BY <1>1, <1>15 DEF Linked
    <2>2. Files' /\ Manager'
      BY <1>1, <1>2, <1>15, <2>1
    <2>3. job'[u] # Idle => LinkOf(u)'
      BY <1>1, <1>15, <2>1 DEF LinkOf
    <2> QED
      BY <1>4, <2>2, <2>3
  <1>16. CASE SetContext(u)
    <2>1. /\ At(u, "context") /\ job[u].op \in Runtimes
          /\ UNCHANGED <<conf, kubeconfig, compose, api, leaked, cut, ignored, manager>>
      BY <1>1, <1>16, Whose DEF SetContext, files, host, history
    <2>2. ~Linked
      BY <1>6, <2>1, DockerPorts DEF Linked, AtOneOf, Runtimes
    <2> QED
      BY <1>15, <2>1, <2>2 DEF At
  <1>17. CASE UnsetContext(u)
    <2>1. /\ At(u, "unset") /\ job[u].op \in {"binary", "delete"}
          /\ UNCHANGED <<conf, kubeconfig, compose, api, leaked, cut, ignored, manager>>
      BY <1>1, <1>17, Whose DEF UnsetContext, files, host, history
    <2>2. Linked => leaked
      BY <1>1, <1>6, <2>1 DEF Linked, LinkOf, At
    <2> QED
      BY <1>15, <2>1, <2>2 DEF At
  <1>18. CASE KubectlFails(u)
    <2>1. /\ ~At(u, "down") /\ ~At(u, "up_manager") /\ ignored'
          /\ UNCHANGED <<conf, kubeconfig, compose, api, leaked, cut, manager>>
      BY <1>18 DEF KubectlFails, files, host, At
    <2> QED
      BY <1>15, <2>1
  <1>19. CASE UpManager(u)
    <2>1. /\ At(u, "up_manager") /\ manager' = "running"
          /\ UNCHANGED <<conf, kubeconfig, compose, api, context, leaked, cut, ignored>>
      BY <1>19 DEF UpManager, files, history
    <2> QED
      BY <1>15, <2>1 DEF At
  <1>20. CASE Interrupt(u)
    <2>1. /\ UNCHANGED <<conf, kubeconfig, compose, api, manager, context, leaked, ignored>>
          /\ (cut \/ At(u, "up_manager")) => cut'
      BY <1>20 DEF Interrupt, files, host
    <2>2. CASE Linked /\ At(u, "down")
      <3>1. job'[u] = Idle
        BY <1>1, <1>20, Endings
      <3>2. Linked' => Linked
        BY <1>1, <2>1 DEF Linked
      <3>3. Files' /\ Manager'
        BY <1>1, <1>2, <2>1, <2>2, <3>2
      <3> QED
        BY <1>4, <3>1, <3>3
    <2>3. CASE ~Linked
      <3>1. ~Linked'
        BY <1>1, <2>1, <2>3 DEF Linked
      <3> QED
        BY <1>5, <3>1
    <2> QED
      BY <1>15, <2>1, <2>2, <2>3
  <1>21. CASE PickPort(u) \/ PullImages(u) \/ KillProcesses(u) \/ Spawn(u) \/ Wait(u) \/ GetNode(u)
    <2>1. /\ ~At(u, "down") /\ ~At(u, "up_manager")
          /\ UNCHANGED <<conf, kubeconfig, compose, api, manager, context, leaked, cut, ignored>>
      BY <1>21 DEF PickPort, PullImages, KillProcesses, Spawn, Wait, GetNode, Untouched, files,
                   host, history, At
    <2> QED
      BY <1>15, <2>1
  <1> QED
    BY <1>7, <1>8, <1>9, <1>10, <1>11, <1>12, <1>13, <1>14, <1>16, <1>17, <1>18, <1>19, <1>20,
       <1>21, TurnTypes DEF Acts, Step

LEMMA ControlTurn ==
  ASSUME TypeInv, ControlInv, NEW u \in Users, Turn(u)
  PROVE  ControlInv'
  <1>1. /\ JobInv /\ Acts(u) /\ job[u].op \in {"docker", "binary", "delete"}
        /\ ~(Stop(u) \/ Start(u))
    BY TurnTypes
  <1>2. \A v \in Users : ~At(v, "load")'
    <2>1. ~At(u, "load")'
      BY DEF Turn, At, DockerNext, BinaryNext, DeleteNext
    <2> QED
      BY <2>1 DEF Turn, Idlers, At
  <1>3. \A v \in Users : ~At(v, "load") /\ ~At(v, "start")
    <2>1. ~At(u, "load") /\ ~At(u, "start")
      BY <1>1, Whose
    <2> QED
      BY <2>1 DEF Turn, Idlers, At
  <1>4. manager = "stopped" => cut
    BY <1>3 DEF ControlInv
  <1>5. manager' = "stopped" => cut'
    <2>1. CASE ComposeDown(u)
      <3>1. manager' = "absent" \/ (manager' = manager /\ cut' = cut)
        BY <2>1 DEF ComposeDown
      <3> QED
        BY <1>4, <3>1
    <2>2. CASE UpManager(u)
      BY <2>2 DEF UpManager
    <2>3. CASE Interrupt(u)
      BY <1>4, <2>3 DEF Interrupt, host
    <2>4. CASE ~(ComposeDown(u) \/ UpManager(u) \/ Interrupt(u))
      <3>1. manager' = manager /\ cut' = cut
        BY <1>1, <2>4, Frames
      <3> QED
        BY <1>4, <3>1
    <2> QED
      BY <2>1, <2>2, <2>3, <2>4
  <1> QED
    BY <1>2, <1>5 DEF ControlInv

\* What holds of the docker and the binary runtime.
Agreed == RecordInv /\ WrittenInv /\ ContainersInv /\ ProcessesInv /\ LinkInv

LEMMA TurnAgrees ==
  ASSUME TypeInv, Agreed, ControlInv, NEW u \in Users, Turn(u)
  PROVE  Agreed' /\ ControlInv'
  BY RecordTurn, WrittenTurn, ContainersTurn, ProcessesTurn, LinkTurn, ControlTurn DEF Agreed

-----------------------------------------------------------------------------
(* The steps of loads *)

LEMMA LoadChanges ==
  ASSUME TypeInv, NEW u \in Users, LoadTurn(u)
  PROVE  /\ JobInv /\ Acts(u) /\ job[u] # Idle /\ overlap' = overlap
         /\ Stop(u) \/ LoadObjects(u) \/ Start(u) \/ Interrupt(u)
         /\ UNCHANGED <<conf, kubeconfig, compose, context, api, procs, pids, taken>>
         /\ UNCHANGED <<mixed, torn, leaked, ignored>>
         /\ manager' = "absent" <=> manager = "absent"
         /\ cut => cut'
         /\ result' = "ready" => result = "ready"
         /\ \A v \in Users : job'[v] = Idle \/ (job'[v].op = "load" /\ job[v].op = "load")
  <1>1. JobInv /\ Acts(u) /\ job[u] # Idle /\ mixed' = mixed /\ overlap' = overlap
    BY ActsMove, ActsKeep DEF LoadTurn, Moves, TypeInv
  <1>2. Stop(u) \/ LoadObjects(u) \/ Start(u) \/ Interrupt(u)
    <2>1. \A x \in {"compose", "images", "up_api", "up_manager", "config", "port", "kubeconfig",
                    "context", "wait", "get_node", "unset", "kill", "spawn", "uninstall", "down"} :
            ~At(u, x)
      BY <1>1, Whose DEF LoadTurn, Runtimes
    <2> QED
      BY <1>1, <2>1 DEF Acts, Step, WriteConfig, PickPort, WriteKubeconfig, WriteCompose,
         SetContext, UnsetContext, PullImages, UpApi, UpManager, ComposeDown, KillProcesses,
         Spawn, Wait, GetNode, Uninstall, Tear, DownFails, KubectlFails
  <1>3. /\ UNCHANGED <<conf, kubeconfig, compose, context, api, procs, pids, taken>>
        /\ UNCHANGED <<torn, leaked, ignored>>
    BY <1>2 DEF Stop, LoadObjects, Start, Interrupt, Untouched, files, host, history
  <1>4. manager' = "absent" <=> manager = "absent"
    BY <1>2 DEF Stop, LoadObjects, Start, Interrupt, Untouched, host
  <1>5. cut => cut'
    BY <1>2 DEF Stop, LoadObjects, Start, Interrupt, Untouched, history
  <1>6. result' = "ready" => result = "ready"
    BY <1>2 DEF Stop, LoadObjects, Start, Interrupt, Require, Continue, Return, Give
  <1>7. \A v \in Users : job'[v] = Idle \/ (job'[v].op = "load" /\ job[v].op = "load")
    BY DEF LoadTurn
  <1> QED
    BY <1>1, <1>2, <1>3, <1>4, <1>5, <1>6, <1>7

LEMMA LoadAgrees ==
  ASSUME TypeInv, Agreed, NEW u \in Users, LoadTurn(u)
  PROVE  Agreed'
  <1> USE LoadChanges DEF Agreed
  <1>1. \A v \in Users : job[v].op = "load" => conf \in Runtimes
    BY DEF RecordInv, RecordOf
  <1>2. ASSUME NEW v \in Users
        PROVE  RecordOf(v)' /\ WrittenOf(v)' /\ ContainersOf(v)' /\ ProcessesOf(v)' /\ LinkOf(v)'
    <2>1. CASE job'[v] = Idle
      BY <2>1, FreeShells
    <2>2. CASE job'[v].op = "load" /\ job[v].op = "load"
      BY <1>1, <2>2 DEF RecordOf, WrittenOf, ContainersOf, ProcessesOf, LinkOf, Runtimes
    <2> QED
      BY <2>1, <2>2
  <1>3. RecordInv'
    BY <1>2 DEF RecordInv
  <1>4. WrittenInv'
    BY <1>2 DEF WrittenInv
  <1>5. ContainersInv'
    <2>1. Cleared => Cleared'
      BY DEF Cleared
    <2> QED
      BY <1>2, <2>1 DEF ContainersInv
  <1>6. ProcessesInv'
    BY <1>2 DEF ProcessesInv, NoProcs
  <1>7. LinkInv'
    <2>1. Linked' <=> Linked
      BY DEF Linked
    <2>2. \A v \in Users : ~At(v, "up_manager")
      <3>1. JobInv /\ \A v \in Users : job[v] = Idle \/ job[v].op = "load"
        BY DEF LoadTurn
      <3> QED
        BY <3>1, Whose DEF At
    <2>3. result' # "ready"
      BY DEF LinkInv
    <2> QED
      BY <1>2, <2>1, <2>2, <2>3 DEF LinkInv
  <1> QED
    BY <1>3, <1>4, <1>5, <1>6, <1>7

LEMMA LoadControl ==
  ASSUME TypeInv, ControlInv, NEW u \in Users, LoadTurn(u)
  PROVE  ControlInv'
  <1> DEFINE x == Head(job[u].todo)
             y == Head(job'[u].todo)
  <1>1. /\ JobInv /\ Acts(u) /\ job[u] # Idle /\ overlap' = overlap /\ (cut => cut')
        /\ job'[u] # Idle => LoadNext(x, y)
        /\ \A v \in Users \ {u} : job'[v] = job[v] /\ (job[v] # Idle => overlap)
    BY LoadChanges DEF LoadTurn
  <1>2. \A v \in Users \ {u} : At(v, "load") => overlap
    BY <1>1 DEF At
  <1>3. \A v \in Users \ {u}, z \in {"load", "start"} : At(v, z)' <=> At(v, z)
    BY <1>1 DEF At
  <1>4. CASE Stop(u)
    <2>1. At(u, "stop") /\ manager' \in {"absent", "stopped"}
      BY <1>4 DEF Stop
    <2>2. manager' = "stopped" => At(u, "load")'
      <3>1. manager' = "stopped" => manager # "absent"
        BY <1>4 DEF Stop
      <3>2. manager # "absent" => Proceed(u)
        BY <1>4 DEF Stop, Require, Continue
      <3>3. Proceed(u) => job'[u] # Idle
        <4>1. job \in [Users -> {Idle} \cup Jobs] /\ job[u] \in Jobs
          BY <1>1, Working DEF JobInv
        <4> QED
          BY <4>1 DEF Proceed, Jobs, Idle, LoadTurn
      <3> QED
        BY <1>1, <2>1, <3>1, <3>2, <3>3 DEF At, LoadNext
    <2> QED
      BY <2>1, <2>2 DEF ControlInv
  <1>5. CASE LoadObjects(u)
    <2>1. At(u, "load") /\ manager' = manager /\ Proceed(u)
      BY <1>5 DEF LoadObjects, Untouched, host, Continue
    <2>2. At(u, "start")'
      <3>1. job \in [Users -> {Idle} \cup Jobs] /\ job[u] \in Jobs
        BY <1>1, Working DEF JobInv
      <3>2. job'[u] # Idle
        BY <2>1, <3>1 DEF Proceed, Jobs, Idle, LoadTurn
      <3> QED
        BY <1>1, <2>1, <3>2 DEF At, LoadNext
    <2>3. ~At(u, "load")'
      BY <2>2 DEF At
    <2>4. \A v \in Users : At(v, "load")' => manager' # "running" \/ overlap'
      BY <1>1, <1>2, <1>3, <2>3
    <2> QED
      BY <2>2, <2>4 DEF ControlInv
  <1>6. CASE Start(u)
    <2>1. manager' # "stopped" /\ ~At(u, "load")'
      <3>1. manager' # "stopped"
        BY <1>6 DEF Start
      <3> QED
        BY <1>1, <1>6, <3>1, Endings DEF At
    <2>2. \A v \in Users : At(v, "load")' => overlap'
      BY <1>1, <1>2, <1>3, <2>1
    <2> QED
      BY <2>1, <2>2 DEF ControlInv
  <1>7. CASE Interrupt(u)
    <2>1. /\ manager' = manager /\ job'[u] = Idle
          /\ At(u, "load") \/ At(u, "start") => cut'
      BY <1>1, <1>7, Endings DEF Interrupt, host
    <2>2. \A v \in Users : At(v, "load")' => manager' # "running" \/ overlap'
      BY <1>1, <1>2, <1>3, <2>1 DEF At
    <2>3. manager' = "stopped" => cut' \/ \E v \in Users : At(v, "load")' \/ At(v, "start")'
      BY <1>1, <1>3, <2>1 DEF ControlInv
    <2> QED
      BY <2>2, <2>3 DEF ControlInv
  <1> QED
    BY <1>4, <1>5, <1>6, <1>7, LoadChanges

-----------------------------------------------------------------------------
(* The steps of the user *)

LEMMA AgreedInit == Init => Agreed /\ ControlInv
  <1> SUFFICES ASSUME Init
               PROVE  Agreed /\ ControlInv
    OBVIOUS
  <1>1. /\ conf = None /\ kubeconfig = None /\ compose = None /\ api = None
        /\ manager = "absent" /\ procs = {} /\ result = "none"
        /\ \A u \in Users : job[u] = Idle
    BY DEF Init
  <1>2. Idle.op \notin Runtimes \cup {"delete", "load"} /\ \A u \in Users : \A x : ~At(u, x)
    BY <1>1 DEF Idle, Runtimes, At
  <1>3. \A u \in Users :
          RecordOf(u) /\ WrittenOf(u) /\ ContainersOf(u) /\ ProcessesOf(u) /\ LinkOf(u)
    BY <1>1, <1>2 DEF RecordOf, WrittenOf, ContainersOf, ProcessesOf, LinkOf, Runtimes
  <1>4. Cleared /\ NoProcs /\ ~Linked
    BY <1>1 DEF Cleared, NoProcs, Linked
  <1> QED
    BY <1>1, <1>2, <1>3, <1>4
       DEF Agreed, RecordInv, WrittenInv, ContainersInv, ProcessesInv, LinkInv, ControlInv

\* A command that begins while no other is at work has done nothing yet.
LEMMA Beginnings ==
  ASSUME TypeInv, Agreed, ControlInv, Idlers(Users),
         UNCHANGED <<files, context, host, torn, leaked, cut, ignored>>,
         result' = "none", mixed => mixed',
         NEW u \in Users, Idlers(Users \ {u})', ~At(u, "load")',
         RecordOf(u)', WrittenOf(u)', ContainersOf(u)', ProcessesOf(u)', LinkOf(u)'
  PROVE  Agreed' /\ ControlInv'
  <1>1. /\ UNCHANGED <<conf, kubeconfig, compose, context, api, manager, procs, pids, taken>>
        /\ UNCHANGED <<torn, leaked, cut, ignored>>
    BY DEF files, host
  <1>2. \A v \in Users : /\ RecordOf(v)' /\ WrittenOf(v)' /\ ContainersOf(v)'
                         /\ ProcessesOf(v)' /\ LinkOf(v)' /\ ~At(v, "load")'
    BY FreeShells DEF Idlers, At
  <1>3. \A v \in Users : \A x : ~At(v, x)
    BY DEF Idlers, At
  <1>4. (Cleared => Cleared') /\ (NoProcs => NoProcs') /\ (Linked' => Linked)
    BY <1>1 DEF Cleared, NoProcs, Linked
  <1>5. RecordInv' /\ WrittenInv'
    BY <1>1, <1>2 DEF Agreed, RecordInv, WrittenInv
  <1>6. ContainersInv'
    BY <1>1, <1>2, <1>4 DEF Agreed, ContainersInv
  <1>7. ProcessesInv'
    BY <1>1, <1>2, <1>4 DEF Agreed, ProcessesInv
  <1>8. LinkInv'
    BY <1>1, <1>2, <1>3, <1>4 DEF Agreed, LinkInv
  <1>9. ControlInv'
    BY <1>1, <1>2, <1>3 DEF ControlInv
  <1> QED
    BY <1>5, <1>6, <1>7, <1>8, <1>9 DEF Agreed

LEMMA CreateAgrees ==
  ASSUME TypeInv, Agreed, ControlInv, NEW r \in Runtimes, BeginCreate(r)
  PROVE  Agreed' /\ ControlInv'
  <1>1. /\ Idlers(Users) /\ result' = "none"
        /\ UNCHANGED <<files, context, host, torn, leaked, cut, ignored>>
    BY CreateBegins DEF TypeInv, BeginCreate, Begin
  <1>2. /\ mixed => mixed'
        /\ conf = "docker" /\ r = "binary" => mixed'
        /\ conf' = conf /\ conf # Torn
    BY <1>1, Names DEF BeginCreate, files, Runtimes
  <1>3. PICK u \in Users : /\ Idlers(Users \ {u})' /\ job'[u] # Idle /\ job'[u].op = r
                           /\ Head(job'[u].todo) = "config"
                           /\ r = "binary" /\ conf # None =>
                                Len(job'[u].todo) > 1 /\ job'[u].todo[2] = "unset"
    BY CreateBegins DEF TypeInv
  <1>4. At(u, "config")' /\ \A x : At(u, x)' => x = "config"
    BY <1>3 DEF At
  <1>5. RecordOf(u)'
    BY <1>2, <1>3, <1>4 DEF RecordOf, AtOneOf, Runtimes
  <1>6. WrittenOf(u)' /\ ContainersOf(u)' /\ LinkOf(u)' /\ ~At(u, "load")'
    BY <1>3, <1>4 DEF WrittenOf, ContainersOf, LinkOf, AtOneOf, Runtimes
  <1>7. ProcessesOf(u)'
    BY <1>2, <1>3, <1>4 DEF ProcessesOf, AtOneOf, Runtimes
  <1> QED
    BY <1>1, <1>2, <1>3, <1>5, <1>6, <1>7, Beginnings

LEMMA DeleteAgrees ==
  ASSUME TypeInv, Agreed, ControlInv, BeginDelete
  PROVE  Agreed' /\ ControlInv'
  <1>1. /\ Idlers(Users) /\ conf \in Runtimes /\ result' = "none" /\ mixed' = mixed
        /\ UNCHANGED <<files, context, host, torn, leaked, cut, ignored>>
    BY DeleteBegins DEF TypeInv, BeginDelete, Begin
  <1>2. PICK u \in Users : /\ Idlers(Users \ {u})' /\ job'[u] # Idle /\ job'[u].op = "delete"
                           /\ conf = "docker" => Head(job'[u].todo) = "down"
                           /\ conf = "binary" => Len(job'[u].todo) > 1 /\ job'[u].todo[2] = "kill"
    BY DeleteBegins DEF TypeInv
  <1>3. conf' = conf
    BY <1>1 DEF files
  <1>4. conf = "docker" => At(u, "down")'
    BY <1>2 DEF At
  <1>5. conf = "binary" => Awaits(u, "kill")'
    <2>1. JobInv'
      BY DeleteBegins DEF TypeInv
    <2>2. Len(job'[u].todo) \in Nat
      <3>1. job'[u].todo \in Seq(Calls(job'[u].op))
        BY <1>2, <2>1 DEF JobInv, Course, Stretch
      <3> QED
        BY <3>1, LenProperties
    <2>3. conf = "binary" => 2 \in 1..Len(job'[u].todo)
      BY <1>2, <2>2
    <2> QED
      BY <1>2, <2>3 DEF Awaits
  <1>6. RecordOf(u)' /\ WrittenOf(u)' /\ ~At(u, "load")'
    <2>1. ~At(u, "load")'
      <3>1. JobInv'
        BY DeleteBegins DEF TypeInv
      <3>2. job'[u].todo \in Seq(Calls("delete")) /\ Len(job'[u].todo) > 0
        BY <1>2, <3>1 DEF JobInv, Course, Stretch
      <3>3. Head(job'[u].todo) \in Calls("delete")
        BY <3>2
      <3> QED
        BY <3>3 DEF At, Calls
    <2> QED
      BY <1>1, <1>2, <1>3, <2>1 DEF RecordOf, WrittenOf, Runtimes
  <1>7. ContainersOf(u)' /\ ProcessesOf(u)' /\ LinkOf(u)'
    BY <1>2, <1>3, <1>4, <1>5 DEF ContainersOf, ProcessesOf, LinkOf, Linked
  <1> QED
    BY <1>1, <1>2, <1>6, <1>7, Beginnings

LEMMA LoadBeginsAgreed ==
  ASSUME TypeInv, Agreed, ControlInv, BeginLoad
  PROVE  Agreed' /\ ControlInv'
  <1>1. /\ conf = "docker" /\ \A v \in Users : job[v] = Idle \/ job[v].op = "load"
        /\ overlap' = (~Idlers(Users)) /\ JobInv /\ JobInv'
    BY LoadBegins DEF TypeInv
  <1>2. /\ UNCHANGED <<conf, kubeconfig, compose, context, api, manager, procs, pids, taken>>
        /\ UNCHANGED <<torn, leaked, cut, ignored, mixed>> /\ result' = "none"
    BY DEF BeginLoad, Begin, files, host
  <1>3. PICK u \in Users : /\ job[u] = Idle /\ \A v \in Users \ {u} : job'[v] = job[v]
                           /\ job'[u] # Idle /\ job'[u].op = "load"
                           /\ Head(job'[u].todo) = "stop"
    BY LoadBegins DEF TypeInv
  <1>4. \A v \in Users : job'[v] = Idle \/ job'[v].op = "load"
    BY <1>1, <1>3
  <1>5. ASSUME NEW v \in Users
        PROVE  RecordOf(v)' /\ WrittenOf(v)' /\ ContainersOf(v)' /\ ProcessesOf(v)' /\ LinkOf(v)'
    <2>1. CASE job'[v] = Idle
      BY <2>1, FreeShells
    <2>2. CASE job'[v].op = "load"
      BY <1>1, <1>2, <2>2
         DEF RecordOf, WrittenOf, ContainersOf, ProcessesOf, LinkOf, Runtimes
    <2> QED
      BY <1>4, <2>1, <2>2
  <1>6. (Cleared => Cleared') /\ (NoProcs => NoProcs') /\ (Linked' => Linked)
    BY <1>2 DEF Cleared, NoProcs, Linked
  <1>7. \A v \in Users : ~At(v, "up_manager")
    BY <1>1, Whose DEF At
  <1>8. RecordInv' /\ WrittenInv' /\ ContainersInv' /\ ProcessesInv'
    <2>1. RecordInv' /\ WrittenInv'
      BY <1>2, <1>5 DEF Agreed, RecordInv, WrittenInv
    <2>2. ContainersInv' /\ ProcessesInv'
      BY <1>2, <1>5, <1>6 DEF Agreed, ContainersInv, ProcessesInv
    <2> QED
      BY <2>1, <2>2
  <1>9. LinkInv'
    BY <1>2, <1>5, <1>6, <1>7 DEF Agreed, LinkInv
  <1>10. \A v \in Users, x \in {"load", "start"} : At(v, x)' <=> At(v, x)
    BY <1>3 DEF At
  <1>11. \A v \in Users : At(v, "load") => overlap'
    BY <1>1 DEF Idlers, At
  <1>12. ControlInv'
    BY <1>2, <1>10, <1>11 DEF ControlInv
  <1> QED
    BY <1>8, <1>9, <1>12 DEF Agreed

\* create reports a cluster as ready when its API server answers already.
LEMMA ReadyAnswers ==
  ASSUME Agreed, CreateReady, conf = "docker", ~mixed
  PROVE  Linked /\ api \notin taken
  <1>1. procs = {} /\ kubeconfig # None /\ kubeconfig \in (procs \cup {api}) \ taken
    BY DEF CreateReady, Reachable, Answers, Agreed, ProcessesInv, NoProcs
  <1> QED
    BY <1>1 DEF Linked

LEMMA RestAgrees ==
  ASSUME TypeInv, Agreed, ControlInv, CreateReady \/ Refuse \/ UNCHANGED vars
  PROVE  Agreed' /\ ControlInv'
  <1>1. /\ UNCHANGED <<conf, kubeconfig, compose, context, api, manager, procs, pids, taken, job>>
        /\ UNCHANGED <<overlap, mixed, torn, leaked, cut, ignored>>
    BY DEF CreateReady, Refuse, vars, files, host, history
  <1>2. /\ RecordInv' /\ WrittenInv' /\ ContainersInv' /\ ProcessesInv' /\ ControlInv'
        /\ (Linked' <=> Linked) /\ \A u \in Users : LinkOf(u)' /\ (\A x : At(u, x)' <=> At(u, x))
    BY <1>1 DEF Agreed, RecordInv, RecordOf, WrittenInv, WrittenOf, ContainersInv, ContainersOf,
                Cleared, ProcessesInv, ProcessesOf, NoProcs, Awaits, ControlInv, Linked, LinkInv,
                LinkOf, AtOneOf, At
  <1>3. result' = "ready" => /\ \A u \in Users : job'[u] = Idle
                             /\ conf' = "docker" /\ ~mixed' => Linked' /\ api' \notin taken'
    <2>1. CASE CreateReady
      <3>1. \A u \in Users : job[u] = Idle
        BY <2>1 DEF CreateReady, Busy
      <3> QED
        BY <1>1, <1>2, <2>1, <3>1, ReadyAnswers
    <2>2. CASE Refuse
      BY <2>2 DEF Refuse
    <2>3. CASE UNCHANGED vars
      BY <1>1, <1>2, <2>3 DEF vars, Agreed, LinkInv
    <2> QED
      BY <2>1, <2>2, <2>3
  <1>4. LinkInv'
    BY <1>1, <1>2, <1>3 DEF Agreed, LinkInv
  <1> QED
    BY <1>2, <1>4 DEF Agreed

\* Whoever listens on a port that a command has picked was not let in by compose up:
\* from there on the port is the container's.
LEMMA OccupyAgrees ==
  ASSUME TypeInv, Agreed, ControlInv, NEW u \in Users, Occupy(u)
  PROVE  Agreed' /\ ControlInv'
  <1>1. /\ UNCHANGED <<conf, kubeconfig, compose, context, api, manager, procs, pids, job, result>>
        /\ UNCHANGED <<overlap, mixed, torn, leaked, cut, ignored>>
        /\ taken' = taken \cup {job[u].port} /\ job[u].port # api /\ job[u] # Idle
    BY DEF Occupy, files, history, Idle
  <1>2. api \in taken' <=> api \in taken
    BY <1>1
  <1>3. result # "ready"
    BY <1>1 DEF Agreed, LinkInv
  <1>4. RecordInv' /\ ContainersInv' /\ ProcessesInv' /\ ControlInv'
    BY <1>1 DEF Agreed, RecordInv, RecordOf, ContainersInv, ContainersOf, Cleared, ProcessesInv,
                ProcessesOf, NoProcs, Awaits, ControlInv, LinkOf, AtOneOf, At
  <1>5. WrittenInv'
    BY <1>1, <1>2 DEF Agreed, WrittenInv, WrittenOf, AtOneOf, At
  <1>6. LinkInv'
    BY <1>1, <1>2, <1>3 DEF Agreed, LinkInv, LinkOf, Linked, At
  <1> QED
    BY <1>4, <1>5, <1>6 DEF Agreed

LEMMA AgreedStep ==
  TypeInv /\ Alone /\ Agreed /\ ControlInv /\ [Next]_vars => Agreed' /\ ControlInv'
  <1> SUFFICES ASSUME TypeInv, Alone, Agreed, ControlInv, [Next]_vars
               PROVE  Agreed' /\ ControlInv'
    OBVIOUS
  <1>1. ASSUME NEW u \in Users, Acts(u) PROVE Agreed' /\ ControlInv'
    BY <1>1, Turns, TurnAgrees, LoadAgrees, LoadControl
  <1> QED
    BY <1>1, Steps, CreateAgrees, DeleteAgrees, LoadBeginsAgreed, RestAgrees, OccupyAgrees

LEMMA Invariant == Spec => [](TypeInv /\ Agreed /\ ControlInv)
  BY TypeInit, TypeStep, AloneInit, AloneStep, AgreedInit, AgreedStep, PTL DEF Spec

-----------------------------------------------------------------------------
(* Theorems *)

\* A cluster that is deleted leaves no container behind, unless compose down failed
\* or a create had torn its file (compose/cluster.go Down), and no process, unless a
\* create of the binary runtime had started them in the directory of a docker
\* cluster (create/cluster/cluster.go).
THEOREM Orphanless == Spec => []NothingOrphaned
  <1>1. Agreed => NothingOrphaned
    BY DEF Agreed, ContainersInv, Cleared, ProcessesInv, NoProcs, NothingOrphaned
  <1> QED
    BY <1>1, Invariant, PTL

\* What create reports as ready has its files, containers and context on one port
\* (compose/cluster.go Install, Up; cluster.go WaitReady).
THEOREM ReadyIsOneCluster == Spec => []ReadyAgrees
  <1>1. TypeInv /\ Agreed /\ ControlInv => ReadyAgrees
    <2>1. SUFFICES ASSUME TypeInv, Agreed, ControlInv, result = "ready", conf = "docker", ~mixed
                   PROVE  /\ manager = "running" \/ cut
                          /\ kubeconfig = api /\ compose = api
                          /\ (context = api \/ ignored \/ leaked)
      BY DEF ReadyAgrees
    <2>2. Linked /\ api \notin taken /\ \A u \in Users : \A x : ~At(u, x)
      BY <2>1 DEF Agreed, LinkInv, At
    <2>3. manager \in {"absent", "stopped", "running"}
      BY <2>1 DEF TypeInv, TypeOK
    <2>4. (manager # "absent" \/ cut) /\ (manager = "stopped" => cut)
      BY <2>1, <2>2 DEF Agreed, LinkInv, ControlInv
    <2>5. compose = api /\ (context = api \/ ignored \/ leaked)
      BY <2>1, <2>2 DEF Agreed, LinkInv
    <2> QED
      BY <2>2, <2>3, <2>4, <2>5 DEF Linked
  <1> QED
    BY <1>1, Invariant, PTL

\* No controller manager runs while load creates objects, unless loads overlap
\* (load/resource/resource.go, compose/cluster.go Stop).
THEOREM StoppedWhileLoading == Spec => []ControllerStopped
  <1>1. ControlInv => ControllerStopped
    BY DEF ControlInv, ControllerStopped
  <1> QED
    BY <1>1, Invariant, PTL

\* load starts the controller manager again unless it is cut short
\* (load/resource/resource.go).
THEOREM StartedAfterLoading == Spec => []ControllerBack
  <1>1. ControlInv => ControllerBack
    BY DEF ControlInv, ControllerBack, Busy, At
  <1> QED
    BY <1>1, Invariant, PTL

=============================================================================
