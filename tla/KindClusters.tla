---------------------------- MODULE KindClusters ----------------------------
(***************************************************************************)
(* Clusters of the kind runtime (pkg/runtime/kind/cluster.go) and the      *)
(* commands create, delete and load on them.  They share the kubeconfig of *)
(* the user, whose current context kind sets and Up reads, writes to and   *)
(* dumps as the cluster's own.  Commands may overlap: nothing locks.       *)
(*                                                                         *)
(* kind itself, docker and kubectl are modelled by what they leave in      *)
(* nodes, contexts and current.                                            *)
(***************************************************************************)
EXTENDS Naturals, Sequences

CONSTANTS
  Clusters,     \* the names that the user gives to --name
  Other,        \* a cluster of the user's own
  Users,        \* shells in which the user runs commands
  Manifests,    \* the manifests that Up applies, in order
  None,
  Torn,         \* a config file that is empty: it reads as the zero Config
  Gone,         \* a control plane that no longer exists
  MaxEvents     \* bound of the model: what is not a create running its course

ASSUME Names ==
  /\ Other \notin Clusters /\ {None, Torn, Gone} \cap (Clusters \cup {Other}) = {}
  /\ None \notin {Torn, "kind"}
ASSUME Bound == MaxEvents \in Nat

VARIABLES
  conf,         \* the config file of each cluster
  kubeconfig,   \* whose control plane each kubeconfig.yaml leads to
  nodes,        \* clusters whose containers run
  contexts,     \* clusters with a context of kind's in the user's kubeconfig
  current,      \* the current context of the user's kubeconfig
  alias,        \* clusters with the context of fake-k8s, which leads to kind's
  deployed,     \* what was applied to each cluster: manifest, cluster it is for
  moved,        \* clusters whose controller manager's manifest was moved away
  job,          \* the command that runs in each shell
  result,       \* how the last command on each cluster ended
  events,
  raced,        \* history: two creates at work together, or the user switched
                \* the context under one
  clash,        \* history: clusters on which a create or a delete overlapped
                \* another command
  cut,          \* history: clusters on which a command was cut short since
                \* kind made them
  leaked        \* history: clusters that a delete could not delete

files == <<conf, kubeconfig>>
kind == <<nodes, contexts, current, deployed, moved>>
history == <<raced, clash, cut, leaked>>
vars == <<conf, kubeconfig, nodes, contexts, current, alias, deployed, moved,
          job, result, events, raced, clash, cut, leaked>>

Running == nodes \cup {Other}
Idle == [op |-> "none", on |-> None, todo |-> <<>>]

Init ==
  /\ conf = [c \in Clusters |-> None] /\ kubeconfig = [c \in Clusters |-> None]
  /\ nodes = {} /\ contexts = {Other} /\ current = Other /\ alias = {}
  /\ deployed = [c \in Clusters \cup {Other} |-> {}] /\ moved = {}
  /\ job = [u \in Users |-> Idle]
  /\ result = [c \in Clusters |-> "none"] /\ events = 0
  /\ raced = FALSE /\ clash = {} /\ cut = {} /\ leaked = {}

-----------------------------------------------------------------------------
(* The calls of each command, in order *)

Call(name) == <<name, None>>
Kinds == {Manifests[i] : i \in DOMAIN Manifests}

ASSUME ManifestList == Manifests \in Seq(Kinds)

Install == <<Call("config"), Call("pull")>>

Down == <<Call("unset"), Call("forget"), Call("delete")>>

\* Each manifest after its image.
Deploy ==
  [i \in 1..(2 * Len(Manifests)) |->
     <<IF i % 2 = 1 THEN "image" ELSE "apply", Manifests[(i + 1) \div 2]>>]

\* Variant: the API server answers before the manifests are applied.
UpThenDeploy ==
  <<Call("nodes"), Call("context"), Call("dump"), Call("wait"), Call("cordon"), Call("alias")>>

Up == <<Call("nodes"), Call("context"), Call("dump"), Call("wait"), Call("cordon")>>
        \o Deploy \o <<Call("alias")>>

Ready == <<Call("wait"), Call("get_node")>>

Create == Install \o Up \o Ready

\* Variant: the cluster is not deleted before kind creates it again.
RecreateOver == Install \o Up \o Ready

Recreate == Install \o Down \o Up \o Ready

\* Variant: the containers stay.
DeleteFiles == <<Call("unset"), Call("uninstall")>>

Delete == Down \o <<Call("uninstall")>>

Load == <<Call("stop"), Call("load"), Call("start")>>

-----------------------------------------------------------------------------
(* The user *)

Busy == {u \in Users : job[u] # Idle}
Event == events < MaxEvents /\ events' = events + 1

\* kubectl get node through kubeconfig.yaml.
Reachable(c) == kubeconfig[c] \in Running

\* Whether a command is in the way of those at work on the same cluster.
Clash(op, c) ==
  IF \E v \in Busy : job[v].on = c /\ {op, job[v].op} # {"load"} THEN clash \cup {c} ELSE clash

\* Which of the free shells the user takes makes no difference.
Free == Busy # Users
Shell == CHOOSE u \in Users : job[u] = Idle

Begin(op, c, steps) ==
  /\ Free
  /\ job' = [job EXCEPT ![Shell] = [op |-> op, on |-> c, todo |-> steps]]
  /\ result' = [result EXCEPT ![c] = "none"]
  /\ raced' = (raced \/ (op = "create" /\ \E v \in Busy : job[v].op = "create"))
  /\ clash' = Clash(op, c)
  /\ UNCHANGED <<files, kind, alias, cut, leaked>>

\* A create that is not the only command, or that finds a cluster that answers
\* but has a node that is not ready yet, is an event.
BeginCreate(c) ==
  /\ IF Busy = {} /\ ~Reachable(c) THEN UNCHANGED events ELSE Event
  /\ \/ conf[c] = None /\ Begin("create", c, Create)
     \/ conf[c] = "kind" /\ Begin("create", c, Recreate)

CreateReady(c) ==
  /\ Free /\ conf[c] = "kind" /\ Reachable(c)
  /\ IF Busy = {} THEN UNCHANGED events ELSE Event
  /\ result' = [result EXCEPT ![c] = "ready"]
  /\ clash' = Clash("create", c)
  /\ UNCHANGED <<files, kind, alias, job, raced, cut, leaked>>

\* Of the zero Config, create has no image to pull and delete and load no runtime.
Refuse(c) ==
  /\ Free /\ conf[c] = Torn
  /\ result' = [result EXCEPT ![c] = "failed"]
  /\ UNCHANGED <<files, kind, alias, job, events, history>>

BeginDelete(c) == conf[c] = "kind" /\ Event /\ Begin("delete", c, Delete)
BeginLoad(c) == conf[c] = "kind" /\ Event /\ Begin("load", c, Load)

\* kubectl config use-context, in a shell of the user's.
Switch ==
  /\ Event /\ current' \in contexts \ {current}
  /\ raced' = (raced \/ \E u \in Busy : job[u].op = "create")
  /\ UNCHANGED <<files, nodes, contexts, alias, deployed, moved, job, result,
                 clash, cut, leaked>>

-----------------------------------------------------------------------------
(* The steps of a command *)

Untouched == UNCHANGED <<files, kind, alias>>
Self(u) == job[u].on
At(u, name) == job[u] # Idle /\ Head(job[u].todo)[1] = name
Continue(u) ==
  job' = [job EXCEPT ![u].todo = Tail(@)] /\ UNCHANGED <<result, events, history>>
Give(u, r) ==
  job' = [job EXCEPT ![u] = Idle] /\ result' = [result EXCEPT ![Self(u)] = r]
Return(u, r) == Give(u, r) /\ UNCHANGED <<events, history>>
Require(u, ok) == IF ok THEN Continue(u) ELSE Return(u, "failed")

\* The files that Install wrote are there: no delete has removed them meanwhile.
HasDirectory(u) == conf[Self(u)] # None

WriteConfig(u) ==
  /\ At(u, "config")
  /\ conf' = [conf EXCEPT ![Self(u)] = "kind"]
  /\ Continue(u)
  /\ UNCHANGED <<kubeconfig, kind, alias>>

\* docker inspect, or docker pull.
Pull(u) == At(u, "pull") /\ Continue(u) /\ Untouched

\* kind create cluster reads kind.yaml and makes the containers, which must not
\* exist,
KindNodes(u) ==
  /\ At(u, "nodes")
  /\ Require(u, HasDirectory(u) /\ Self(u) \notin nodes)
  /\ nodes' = IF HasDirectory(u) THEN nodes \cup {Self(u)} ELSE nodes
  /\ UNCHANGED <<files, contexts, current, alias, deployed, moved>>

\* Variant: a current context stays the current one.
KindContextKept(u) ==
  /\ At(u, "context")
  /\ Require(u, Self(u) \in nodes)
  /\ IF Self(u) \in nodes
       THEN /\ contexts' = contexts \cup {Self(u)}
            /\ current' = IF current = None THEN Self(u) ELSE current
       ELSE UNCHANGED <<contexts, current>>
  /\ UNCHANGED <<files, nodes, alias, deployed, moved>>

\* and then the context, which becomes the current one.
KindContext(u) ==
  /\ At(u, "context")
  /\ Require(u, Self(u) \in nodes)
  /\ IF Self(u) \in nodes
       THEN contexts' = contexts \cup {Self(u)} /\ current' = Self(u)
       ELSE UNCHANGED <<contexts, current>>
  /\ UNCHANGED <<files, nodes, alias, deployed, moved>>

CanDump(u) == HasDirectory(u) /\ current # None
Leads == IF current \in Running THEN current ELSE Gone

\* kubectl config view --minify: the current context, whatever it is by now.
Dump(u) ==
  /\ At(u, "dump")
  /\ Require(u, CanDump(u))
  /\ kubeconfig' = IF CanDump(u) THEN [kubeconfig EXCEPT ![Self(u)] = Leads] ELSE kubeconfig
  /\ UNCHANGED <<conf, kind, alias>>

\* Half a minute of polling; the error of the last poll decides.
Wait(u) == At(u, "wait") /\ Require(u, Reachable(Self(u))) /\ Untouched

\* kubectl cordon <name>-control-plane, a node that only this cluster has.
Cordon(u) == At(u, "cordon") /\ Require(u, current = Self(u) /\ current \in nodes) /\ Untouched

\* kind load docker-image
LoadImage(u) == At(u, "image") /\ Require(u, Self(u) \in nodes) /\ Untouched

CanApply(u) == HasDirectory(u) /\ current \in Running

\* kubectl apply, in the current context.
Apply(u) ==
  /\ At(u, "apply")
  /\ Require(u, CanApply(u))
  /\ deployed' = IF CanApply(u)
                   THEN [deployed EXCEPT ![current] = @ \cup {<<Head(job[u].todo)[2], Self(u)>>}]
                   ELSE deployed
  /\ UNCHANGED <<files, nodes, contexts, current, alias, moved>>

Alias(u) ==
  /\ At(u, "alias")
  /\ alias' = alias \cup {Self(u)}
  /\ Continue(u)
  /\ UNCHANGED <<files, kind>>

\* kubectl --context <name> get node
GetNode(u) ==
  /\ At(u, "get_node")
  /\ Return(u, IF Self(u) \in alias \cap contexts \cap nodes THEN "ready" ELSE "failed")
  /\ Untouched

\* A create has the config in memory.
CanDown(u) == HasDirectory(u) \/ job[u].op = "create"

Unset(u) ==
  /\ At(u, "unset")
  /\ Require(u, CanDown(u))
  /\ alias' = IF CanDown(u) THEN alias \ {Self(u)} ELSE alias
  /\ UNCHANGED <<files, kind>>

\* Variant: a context that is deleted stays the current one.
KindForgetsLess(u) ==
  /\ At(u, "forget")
  /\ contexts' = contexts \ {Self(u)}
  /\ Continue(u)
  /\ UNCHANGED <<files, nodes, current, alias, deployed, moved>>

\* kind delete cluster: the context,
KindForget(u) ==
  /\ At(u, "forget")
  /\ contexts' = contexts \ {Self(u)}
  /\ current' = IF current = Self(u) THEN None ELSE current
  /\ Continue(u)
  /\ UNCHANGED <<files, nodes, alias, deployed, moved>>

\* and then the containers; what led to them leads nowhere.
KindDelete(u) ==
  LET c == Self(u) IN
  /\ At(u, "delete")
  /\ nodes' = nodes \ {c} /\ moved' = moved \ {c}
  /\ deployed' = [deployed EXCEPT ![c] = {}]
  /\ kubeconfig' = [d \in Clusters |-> IF kubeconfig[d] = c THEN Gone ELSE kubeconfig[d]]
  /\ job' = [job EXCEPT ![u].todo = Tail(@)]
  /\ cut' = cut \ {c} /\ leaked' = leaked \ {c}
  /\ UNCHANGED <<conf, contexts, current, alias, result, events, raced, clash>>

\* os.RemoveAll of the work directory.
Uninstall(u) ==
  /\ At(u, "uninstall")
  /\ conf' = [conf EXCEPT ![Self(u)] = None]
  /\ kubeconfig' = [kubeconfig EXCEPT ![Self(u)] = None]
  /\ Return(u, "deleted")
  /\ UNCHANGED <<kind, alias>>

\* Variant: a manifest that is not there is no error.
StopAnyway(u) ==
  /\ At(u, "stop")
  /\ Require(u, HasDirectory(u) /\ Self(u) \in nodes)
  /\ moved' = IF HasDirectory(u) THEN moved \cup ({Self(u)} \cap nodes) ELSE moved
  /\ UNCHANGED <<files, nodes, contexts, current, alias, deployed>>

\* docker exec <name>-control-plane mv: the manifest must be there.
Stop(u) ==
  /\ At(u, "stop")
  /\ Require(u, HasDirectory(u) /\ Self(u) \in nodes \ moved)
  /\ moved' = IF HasDirectory(u) THEN moved \cup ({Self(u)} \cap nodes) ELSE moved
  /\ UNCHANGED <<files, nodes, contexts, current, alias, deployed>>

\* load.Load through kubeconfig.yaml.  Variant: its error skips the deferred Start.
LoadReturns(u) == At(u, "load") /\ (Continue(u) \/ Return(u, "failed")) /\ Untouched

LoadObjects(u) == At(u, "load") /\ Continue(u) /\ Untouched

\* The manifest is moved back, if it was; the error of load.Load decides.
Start(u) ==
  /\ At(u, "start")
  /\ moved' = moved \ {Self(u)}
  /\ \E r \in {"loaded", "failed"} : Return(u, r)
  /\ UNCHANGED <<files, nodes, contexts, current, alias, deployed>>

Step(u) ==
  \/ WriteConfig(u) \/ Pull(u) \/ KindNodes(u) \/ KindContext(u) \/ Dump(u) \/ Wait(u)
  \/ Cordon(u) \/ LoadImage(u) \/ Apply(u) \/ Alias(u) \/ GetNode(u)
  \/ Unset(u) \/ KindForget(u) \/ KindDelete(u) \/ Uninstall(u)
  \/ Stop(u) \/ LoadObjects(u) \/ Start(u)

-----------------------------------------------------------------------------
(* Failures *)

Spoil(u) == Event /\ cut' = cut \cup ({Self(u)} \cap nodes)
Cut(u) == Give(u, "failed") /\ Spoil(u)

\* The step fails, or the command is killed, before the step has an effect.  The
\* error of the deferred Start is only logged, and may end a load that has loaded.
Interrupt(u) ==
  /\ job[u] # Idle /\ Spoil(u)
  /\ Give(u, "failed") \/ (At(u, "start") /\ Give(u, "loaded"))
  /\ UNCHANGED <<files, kind, alias, raced, clash, leaked>>

\* os.WriteFile truncated the file and wrote nothing.
Tear(u) ==
  /\ Cut(u)
  /\ \/ /\ At(u, "config") /\ conf' = [conf EXCEPT ![Self(u)] = Torn]
        /\ UNCHANGED kubeconfig
     \/ /\ At(u, "dump") /\ kubeconfig' = [kubeconfig EXCEPT ![Self(u)] = None]
        /\ UNCHANGED conf
  /\ UNCHANGED <<kind, alias, raced, clash, leaked>>

\* kind delete cluster fails; Down only logs it, and the command goes on.
DeleteFails(u) ==
  /\ At(u, "delete") /\ Spoil(u)
  /\ job' = [job EXCEPT ![u].todo = Tail(@)]
  /\ leaked' = leaked \cup ({Self(u)} \cap nodes)
  /\ UNCHANGED <<files, kind, alias, result, raced, clash>>

\* kubectl config set or unset fails; nobody looks at the error.
KubectlFails(u) ==
  /\ At(u, "alias") \/ (At(u, "unset") /\ CanDown(u))
  /\ Spoil(u)
  /\ job' = [job EXCEPT ![u].todo = Tail(@)]
  /\ UNCHANGED <<files, kind, alias, result, raced, clash, leaked>>

Next ==
  \/ Switch
  \/ \E c \in Clusters :
       BeginCreate(c) \/ CreateReady(c) \/ Refuse(c) \/ BeginDelete(c) \/ BeginLoad(c)
  \/ \E u \in Users : Step(u) \/ Interrupt(u) \/ Tear(u) \/ DeleteFails(u) \/ KubectlFails(u)

\* A user who waits for commands to end, and runs create again for a cluster
\* that does not answer.
Retry(c) == Busy = {} /\ ~Reachable(c) /\ BeginCreate(c)

Spec ==
  /\ Init /\ [][Next]_vars
  /\ \A u \in Users : WF_vars(Step(u))
  /\ \A c \in Clusters : WF_vars(Retry(c))

-----------------------------------------------------------------------------
(* Properties *)

TypeOK ==
  /\ conf \in [Clusters -> {None, Torn, "kind"}]
  /\ kubeconfig \in [Clusters -> Clusters \cup {Other, None, Gone}]
  /\ nodes \subseteq Clusters /\ contexts \subseteq Clusters \cup {Other}
  /\ current \in contexts \cup {None}
  /\ alias \subseteq Clusters /\ moved \subseteq nodes
  /\ deployed \in [Clusters \cup {Other} -> SUBSET (Kinds \X Clusters)]
  /\ \A u \in Users : job[u] # Idle => Self(u) \in Clusters /\ job[u].todo # <<>>
  /\ result \in [Clusters -> {"none", "failed", "ready", "deleted", "loaded"}]
  /\ events \in 0..MaxEvents

\* Between kind create and the last apply, Up trusts the current context.  As
\* long as neither another create nor the user changes it meanwhile, a cluster's
\* kubeconfig.yaml never leads to another cluster, and nothing is ever applied
\* to one, not to the user's own either: deletes and loads may overlap, and any
\* command may be cut short.
StaysHome ==
  ~raced =>
    /\ \A c \in Clusters : kubeconfig[c] \in {c, None, Gone}
    /\ \A c \in Clusters \cup {Other} : deployed[c] \subseteq Kinds \X {c}

\* A cluster that create reports as ready has its nodes, its manifests, its own
\* kubeconfig, a context that works, and its controller manager, unless a command
\* was cut short on it since kind made it, or commands were in each other's way.
ReadyIsComplete ==
  \A c \in Clusters \ (clash \cup cut) :
    result[c] = "ready" /\ ~raced =>
      /\ c \in alias \cap contexts \cap nodes /\ kubeconfig[c] = c /\ c \notin moved
      /\ deployed[c] = Kinds \X {c}

\* A second load of a cluster finds no manifest to move, and fails before it
\* harms the first.  So no controller manager runs while load creates objects,
\* however loads overlap, and whatever goes on in other clusters.
ControllerStopped ==
  \A u \in Users : At(u, "load") /\ Self(u) \notin clash => Self(u) \in moved

\* Only a load that is cut short leaves a cluster without its controller manager.
ControllerBack ==
  \A c \in moved \ cut : \E u \in Busy : Self(u) = c /\ (At(u, "load") \/ At(u, "start"))

\* A cluster whose directory is gone has no containers left, unless kind could
\* not delete them, or a create overlapped the delete.
NothingOrphaned ==
  \A c \in nodes : conf[c] = None => c \in leaked \cup clash

\* A user who repeats create ends with a cluster that answers, its own unless
\* creates raced for the context, or with a config that was torn.
RetryConverges ==
  \A c \in Clusters :
    \/ <>[](conf[c] = Torn)
    \/ <>[](Reachable(c) /\ (raced \/ kubeconfig[c] = c))
=============================================================================
