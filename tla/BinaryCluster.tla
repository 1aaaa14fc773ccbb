--------------------------- MODULE BinaryCluster ---------------------------
(***************************************************************************)
(* One cluster of the binary runtime, and the commands create, delete and  *)
(* load that work on it (pkg/cmd/fake-k8s, pkg/runtime/cluster.go and      *)
(* pkg/runtime/binary/cluster.go), over the supervisor they start and stop *)
(* components with.                                                        *)
(*                                                                         *)
(* A command is a list of steps, the calls it still has to make.  It may   *)
(* be killed or fail at any of them; nothing undoes what it did, and the   *)
(* next command starts from the files and the processes it finds.          *)
(***************************************************************************)
EXTENDS Supervisor, Sequences

CONSTANTS
  NumbersOf,    \* the numbers the host may give to each component's processes
  Gens,         \* generations of ports: each Up picks ports nobody uses
  Torn,         \* a config file that is empty: it reads as the zero Config
  Reuse,        \* TRUE: the host gives the numbers of dead processes away
  MaxEvents     \* bound of the model: what is not a create running its course

Etcd == "etcd"
Apiserver == "kube-apiserver"
Kcm == "kube-controller-manager"
Scheduler == "kube-scheduler"
Kubelet == "fake-kubelet"
Prometheus == "prometheus"

ASSUME ComponentNames ==
  Components = {Etcd, Apiserver, Kcm, Scheduler, Kubelet, Prometheus}
ASSUME Numbers == NumbersOf \in [Components -> SUBSET Pids]
ASSUME Bounds == Reuse \in BOOLEAN /\ MaxEvents \in Nat
ASSUME Names ==
  /\ None \notin Gens /\ None \notin {Torn, "plain", "prometheus"}
  /\ Torn \notin {"plain", "prometheus"}

VARIABLES
  conf,         \* the config file: None, Torn, "plain" or "prometheus"
  kubeconfig,   \* generation of the ports in kubeconfig.yaml, or None
  gen,          \* generation of the Up in progress
  link,         \* generation of the ports each process was started with
  launched,     \* components with a cmdline file
  todo,         \* steps the command at work has left
  result,       \* how the last command ended
  events,       \* crashes, exits, reused numbers, deletes and loads so far
  owed,         \* history: a load stopped the controller manager, and it has
                \* not been started since
  cut           \* history: a load was killed, or its Start failed, after the
                \* last call of load.Load

store == <<conf, kubeconfig, gen, link, launched>>
host == <<managed, proc, stray>>
history == <<owed, cut>>
state == <<managed, proc, stray, conf, kubeconfig, gen, link, launched, todo,
           result, events, owed, cut>>

Confs == {"plain", "prometheus"}
Results == {"none", "failed", "ready", "deleted", "loaded"}

ClusterInit ==
  /\ Init
  /\ conf = None /\ kubeconfig = None /\ gen = None
  /\ link = [p \in Pids |-> None]
  /\ launched = {} /\ todo = <<>> /\ result = "none" /\ events = 0
  /\ owed = FALSE /\ cut = FALSE

-----------------------------------------------------------------------------
(* What the processes offer *)

Live(n) == {p \in Pids : proc[p] = n}

\* kubectl get node through kubeconfig.yaml: the API server of those ports runs
\* on an etcd of the same ports, which is the only one on its data directory.
Reachable ==
  \E a \in Live(Apiserver), e \in Live(Etcd) :
    /\ link[a] = kubeconfig /\ link[e] = link[a]
    /\ Live(Etcd) = {e}

InUse == {kubeconfig} \cup {link[p] : p \in UNION {Live(n) : n \in Components}}

-----------------------------------------------------------------------------
(* The calls of each command, in order *)

Call(op) == <<op, None>>
Fork(n) == <<"fork", n>>
Kill(n) == <<"kill", n>>
Enabled(c, step) == IF c = "prometheus" THEN <<step>> ELSE <<>>

\* config.yaml, then the binaries.
Install(c) == <<<<"config", c>>, Call("download")>>

\* Variant: Down forgets one component.
DownKeepsEtcd(c) ==
  <<Kill(Kubelet), Kill(Scheduler), Kill(Kcm), Kill(Apiserver)>>
    \o Enabled(c, Kill(Prometheus))

Down(c) ==
  <<Kill(Kubelet), Kill(Scheduler), Kill(Kcm), Kill(Apiserver), Kill(Etcd)>>
    \o Enabled(c, Kill(Prometheus))

Up(c) ==
  <<Call("ports"), Fork(Etcd), Fork(Apiserver), Call("kubeconfig"), Call("wait"),
    Fork(Kcm), Fork(Scheduler), Fork(Kubelet)>> \o Enabled(c, Fork(Prometheus))

Create(c) == Install(c) \o Up(c) \o <<Call("wait"), Call("get_node")>>

\* Variants: the config is made from the flags, or the cluster is not stopped.
RecreateFromFlags(c) == LET d == "plain" IN
  Install(d) \o Down(d) \o Up(d) \o <<Call("wait"), Call("get_node")>>

RecreateRunning(c) ==
  Install(c) \o Up(c) \o <<Call("wait"), Call("get_node")>>

\* A cluster that exists is installed again with its own config, and stopped.
Recreate(c) ==
  Install(c) \o Down(c) \o Up(c) \o <<Call("wait"), Call("get_node")>>

Delete(c) == Down(c) \o <<Call("uninstall")>>

\* Variant: the controller manager is not stopped.
LoadUnderController == <<Call("apply"), <<"restart", Kcm>>>>

Load == <<<<"stop", Kcm>>, Call("apply"), <<"restart", Kcm>>>>

-----------------------------------------------------------------------------
(* The user *)

Idle == todo = <<>>
Event == events < MaxEvents /\ events' = events + 1

Begin(steps) ==
  /\ Idle
  /\ todo' = steps
  /\ result' = "none"
  /\ UNCHANGED <<host, store, history>>

CreateNew == conf = None /\ (\E c \in Confs : Begin(Create(c))) /\ UNCHANGED events

\* Ready is false when the API server does not answer, or answers that a node is
\* NotReady, as it does some time after the fake-kubelet is gone.
CreateAgain ==
  /\ conf \in Confs /\ (~Reachable \/ Live(Kubelet) = {})
  /\ Begin(Recreate(conf)) /\ UNCHANGED events

\* Its kubectl may also fail, or the node be NotReady, with all of them running.
CreateUnready == conf \in Confs /\ Event /\ Begin(Recreate(conf))

CreateReady ==
  /\ Idle /\ conf \in Confs /\ Reachable
  /\ result' = "ready"
  /\ UNCHANGED <<host, store, todo, events, history>>

\* create installs the zero Config again, which fails for want of binaries;
\* delete and load find neither a config nor the name of a runtime.
Refuse ==
  /\ Idle /\ conf \in {None, Torn}
  /\ result' = "failed"
  /\ UNCHANGED <<host, store, todo, events, history>>

BeginDelete == conf \in Confs /\ Event /\ Begin(Delete(conf))
BeginLoad == conf \in Confs /\ Event /\ Begin(Load)

-----------------------------------------------------------------------------
(* The steps of a command *)

At(step) == todo # <<>> /\ Head(todo) = step
Continue == todo' = Tail(todo) /\ UNCHANGED <<result, events, cut>>
Return(r) == todo' = <<>> /\ result' = r /\ UNCHANGED <<events, cut>>

\* The command at work is a load, which is to start the controller manager.
Loading == \E i \in DOMAIN todo : todo[i] = <<"restart", Kcm>>

WriteConfig ==
  \E c \in Confs :
    /\ At(<<"config", c>>)
    /\ conf' = c
    /\ Continue
    /\ UNCHANGED <<host, kubeconfig, gen, link, launched, owed>>

Download == At(Call("download")) /\ Continue /\ UNCHANGED <<host, store, owed>>

PickPorts ==
  /\ At(Call("ports"))
  /\ ~(Gens \subseteq InUse)
  /\ gen' = CHOOSE g \in Gens : g \notin InUse
  /\ Continue
  /\ UNCHANGED <<host, conf, kubeconfig, link, launched, owed>>

\* The controllers find the API server in kubeconfig.yaml; the others are given
\* their ports by Up.
Ports(n) == IF n \in {Kcm, Scheduler, Kubelet} THEN kubeconfig ELSE gen

\* Which free number the host picks makes no difference; the model has it pick
\* one when it has given back those of the component's dead processes.
Numbered(n) ==
  /\ \E q \in NumbersOf[n] : proc[q] = Free
  /\ \A q \in NumbersOf[n] : proc[q] # Dead
NextNumber(n) == CHOOSE q \in NumbersOf[n] : proc[q] = Free

Launch(n) ==
  /\ link' = [link EXCEPT ![NextNumber(n)] = Ports(n)]
  /\ launched' = launched \cup {n}
  /\ owed' = (owed /\ n # Kcm)
  /\ UNCHANGED <<conf, kubeconfig, gen>>

Run(n) == Numbered(n) /\ Start(n, NextNumber(n)) /\ Launch(n)

ForkStep(n) ==
  /\ At(Fork(n))
  /\ \/ managed[n] # None /\ UNCHANGED <<host, store, owed>>
     \/ Run(n)
  /\ Continue

WriteKubeconfig ==
  /\ At(Call("kubeconfig"))
  /\ kubeconfig' = gen
  /\ Continue
  /\ UNCHANGED <<host, conf, gen, link, launched, owed>>

\* Half a minute of polling; the error of the last poll decides.
Wait ==
  /\ At(Call("wait"))
  /\ IF Reachable THEN Continue ELSE Return("failed")
  /\ UNCHANGED <<host, store, owed>>

GetNode ==
  /\ At(Call("get_node"))
  /\ Return(IF Reachable THEN "ready" ELSE "failed")
  /\ UNCHANGED <<host, store, owed>>

Gone(n) == managed[n] # None /\ proc[managed[n]] \in {Free, Dead}
Refused(n) == managed[n] # None /\ proc[managed[n]] = Root

\* The pid file is removed; a load has the controller manager to start again.
ForgetBy(n) == Forget(n) /\ owed' = (owed \/ (n = Kcm /\ Loading))

Spare == UNCHANGED <<host, owed>>

\* ForkExecKill for Down, which goes on after an error, and for Stop.
KillStep(n) ==
  /\ \/ At(Kill(n)) \/ At(<<"stop", n>>)
  /\ \/ /\ Signal(n)
        /\ todo' = <<<<"forget", n>>>> \o Tail(todo)
        /\ UNCHANGED <<result, events, history>>
     \/ Gone(n) /\ ForgetBy(n) /\ Continue
     \/ managed[n] = None /\ Continue /\ Spare
     \/ Refused(n) /\ At(Kill(n)) /\ Continue /\ Spare
     \/ Refused(n) /\ At(<<"stop", n>>) /\ Return("failed") /\ Spare
     \* a pid file that a crash left empty
     \/ managed[n] = None /\ At(<<"stop", n>>) /\ Return("failed") /\ Spare
  /\ UNCHANGED store

ForgetStep(n) ==
  /\ At(<<"forget", n>>)
  /\ ForgetBy(n) /\ Continue
  /\ UNCHANGED store

\* Variant: an error returns before the deferred Start is registered.
ApplyReturns ==
  /\ At(Call("apply"))
  /\ todo' \in {Tail(todo), <<>>} /\ cut' = FALSE
  /\ UNCHANGED <<host, store, result, events, owed>>

\* load.Load; whether or not it fails, the deferred Start follows.
Apply ==
  /\ At(Call("apply"))
  /\ todo' = Tail(todo) /\ cut' = FALSE
  /\ UNCHANGED <<host, store, result, events, owed>>

\* The deferred Start, which needs the cmdline file and whose error is only logged:
\* the load returns what load.Load returned.
RestartStep(n) ==
  /\ At(<<"restart", n>>)
  /\ \/ (managed[n] # None \/ n \notin launched) /\ UNCHANGED <<host, store, owed>>
     \/ n \in launched /\ Run(n)
  /\ \E r \in {"loaded", "failed"} : Return(r)

\* os.RemoveAll, whose error nobody looks at.
Uninstall ==
  /\ At(Call("uninstall"))
  /\ conf' = None /\ kubeconfig' = None /\ launched' = {}
  /\ managed' = [n \in Components |-> None]
  /\ Return("deleted")
  /\ UNCHANGED <<proc, stray, gen, link, owed>>

Command ==
  \/ WriteConfig \/ Download \/ PickPorts \/ WriteKubeconfig \/ Wait \/ GetNode
  \/ Apply \/ Uninstall
  \/ \E n \in Components :
       ForkStep(n) \/ KillStep(n) \/ ForgetStep(n) \/ RestartStep(n)

-----------------------------------------------------------------------------
(* Failures *)

Give(r) == todo' = <<>> /\ result' = r /\ cut' = (cut \/ Loading)

\* A load whose Start fails does not fail: its result is what load.Load returned.
Fail == Give("failed") \/ (At(<<"restart", Kcm>>) /\ Give("loaded"))

\* The step fails, or the command is killed, before the step has an effect.
Interrupt ==
  /\ ~Idle /\ Event /\ Fail
  /\ UNCHANGED <<host, store, owed>>

\* Variant: an empty kubeconfig.yaml is taken for a config.
TearKept ==
  /\ ~Idle /\ Event /\ Fail
  /\ At(Call("kubeconfig")) /\ kubeconfig' = Torn
  /\ UNCHANGED <<host, conf, gen, link, launched, owed>>

\* os.WriteFile truncated the file and wrote nothing.
Tear ==
  /\ ~Idle /\ Event /\ Fail
  /\ \/ /\ \E c \in Confs : At(<<"config", c>>)
        /\ conf' = Torn /\ UNCHANGED kubeconfig
     \/ /\ At(Call("kubeconfig"))
        /\ kubeconfig' = None /\ UNCHANGED conf
  /\ UNCHANGED <<host, gen, link, launched, owed>>

\* The same of the cmdline file, which ForkExec writes before it starts anything.
TearCmdline(n) ==
  /\ At(Fork(n)) \/ At(<<"restart", n>>)
  /\ managed[n] = None /\ Event /\ Fail
  /\ launched' = launched \ {n}
  /\ UNCHANGED <<host, conf, kubeconfig, gen, link, owed>>

\* The process started and its number was not recorded.
LoseProcess(n) ==
  /\ At(Fork(n)) \/ (At(<<"restart", n>>) /\ n \in launched)
  /\ managed[n] = None /\ Numbered(n)
  /\ Event /\ Fail
  /\ proc' = [proc EXCEPT ![NextNumber(n)] = n]
  /\ stray' = stray \cup {NextNumber(n)}
  /\ UNCHANGED managed
  /\ Launch(n)

\* The work directory is removed in part.
RemoveSome ==
  /\ At(Call("uninstall")) /\ Event /\ Give("deleted")
  /\ conf' \in {conf, None} /\ kubeconfig' \in {kubeconfig, None}
  /\ launched' \in {launched, {}}
  /\ managed' \in {managed, [n \in Components |-> None]}
  /\ UNCHANGED <<proc, stray, gen, link, owed>>

Needed(p) ==
  \E n \in Components :
    /\ At(Fork(n)) \/ At(<<"restart", n>>)
    /\ managed[n] = None /\ p \in NumbersOf[n]

\* The host gives a number that a pid file still names to somebody else: Reap,
\* then Squat.
GiveAway(p, o) ==
  /\ proc[p] = Dead
  /\ \E n \in Components : managed[n] = p
  /\ proc' = [proc EXCEPT ![p] = o]
  /\ UNCHANGED <<managed, stray>>

\* A process ends; the host gives back the numbers it needs for new processes.
HostStep(p) ==
  /\ \/ Event /\ Exit(p)
     \/ Needed(p) /\ Reap(p) /\ UNCHANGED events
     \/ Reuse /\ Event /\ (\E o \in Outsiders : GiveAway(p, o))
  /\ UNCHANGED <<store, todo, result, history>>

ClusterNext ==
  \/ CreateNew \/ CreateAgain \/ CreateUnready \/ CreateReady \/ Refuse
  \/ BeginDelete \/ BeginLoad
  \/ Command
  \/ Interrupt \/ Tear \/ RemoveSome \/ (\E n \in Components : TearCmdline(n) \/ LoseProcess(n))
  \/ \E p \in Pids : HostStep(p)

ClusterSpec == ClusterInit /\ [][ClusterNext]_state

\* A user who runs create again when it failed or when the cluster is not ready.
RetrySpec ==
  /\ ClusterSpec
  /\ WF_state(CreateNew \/ CreateAgain)
  /\ WF_state(Command)
  /\ WF_state(\E p \in Pids : Reap(p) /\ HostStep(p))

-----------------------------------------------------------------------------
(* Properties *)

ClusterTypeOK ==
  /\ managed \in [Components -> Pids \cup {None}]
  /\ proc \in [Pids -> Owners]
  /\ stray \subseteq Pids
  /\ conf \in Confs \cup {None, Torn}
  /\ {kubeconfig, gen} \subseteq Gens \cup {None}
  /\ link \in [Pids -> Gens \cup {None}]
  /\ launched \subseteq Components
  /\ result \in Results /\ events \in 0..MaxEvents
  /\ owed \in BOOLEAN /\ cut \in BOOLEAN

\* Neither a delete that was interrupted, nor one that removed only a part of
\* the directory, nor a create with other flags, leaves a process behind that
\* the files no longer name: create and delete find every component, apart from
\* those a start has lost, and without a config there is none to find.
NothingOrphaned ==
  \A n \in Components :
    /\ Live(n) \subseteq stray \cup {managed[n]}
    /\ conf = None => Live(n) \subseteq stray

\* Each Up picks new ports.  When create returns, no component of the cluster
\* still runs on the ports of an earlier Up, whatever was interrupted before.
Coherent ==
  result = "ready" =>
    \A n \in Components :
      managed[n] \in Live(n) => link[managed[n]] = kubeconfig

\* While load creates objects with their owners, no controller manager runs that
\* could garbage-collect or adopt them, except one that a start has lost.
ControllerStopped == At(Call("apply")) => Live(Kcm) \subseteq stray

\* A controller manager that a load stopped is started again, also one that an
\* earlier load left stopped when it was killed: by the first load that is not
\* itself cut short, whether or not load.Load fails, or by a create that starts what
\* does not run.  For want of its cmdline file, torn by a start or removed with a
\* part of the directory, it stays stopped, and load does not say so.
ControllerBack == owed => Loading \/ cut \/ Kcm \notin launched

\* A user who repeats create ends with an API server that answers, and keeps
\* it, unless the config was torn, an etcd that nobody remembers holds the data
\* directory, or the number in a pid file went to a process that the user may
\* not signal.
RetryConverges ==
  \/ <>[](conf = Torn)
  \/ <>[](Live(Etcd) \cap stray # {})
  \/ \E n \in {Etcd, Apiserver, Kubelet} : <>[]Refused(n)
  \/ <>[]Reachable

\* create says "is already ready" (create/cluster/cluster.go:125) of a cluster
\* whose components have all been started.
ReadyIsStarted ==
  result = "ready" =>
    \A n \in Components \ {Prometheus} : managed[n] # None
=============================================================================
