--------------------------- MODULE ComposeCluster ---------------------------
(***************************************************************************)
(* One cluster of the docker or nerdctl runtime                            *)
(* (pkg/runtime/compose/cluster.go) and the commands create, delete and    *)
(* load on it.  create takes the runtime of its flags, delete and load the *)
(* one on record (create/cluster/cluster.go:110, runtime/registry.go:35),  *)
(* so that a cluster may come into the hands of two runtimes: of the       *)
(* binary one the model has the ports only, its processes being one unit.  *)
(*                                                                         *)
(* Containers are started again whenever they end (restart: always) and    *)
(* never end here.  Loads may overlap each other; other commands do not.   *)
(***************************************************************************)
EXTENDS Naturals, Sequences

CONSTANTS
  Ports,        \* ports on the host for API servers
  Users,        \* shells in which the user runs commands
  None,
  Torn,         \* a config file that is empty: it reads as the zero Config
  MaxEvents     \* bound of the model: what is not a create running its course

ASSUME Bound == MaxEvents \in Nat
ASSUME Names ==
  None \notin Ports \cup {Torn, "docker", "binary"} /\ Torn \notin {"docker", "binary"}

VARIABLES
  conf,         \* the runtime in the config file
  kubeconfig,   \* the port in kubeconfig.yaml
  compose,      \* the port in docker-compose.yaml; None: torn, or not there
  context,      \* the port in the user's kubeconfig
  api,          \* the port of the API server's container
  manager,      \* the container of the controller manager
  procs,        \* the ports of API servers of the binary runtime
  pids,         \* the one that pid files in the directory name
  taken,        \* ports that somebody else came to listen on
  job,          \* the command in each shell: a create by its runtime, a delete
                \* or a load; the port it picked; the calls it has to make
  result,       \* how the last command ended
  events,
  overlap,      \* history: a load began while another was at work
  mixed,        \* history: create --runtime=binary on a docker cluster
  torn,         \* history: docker-compose.yaml was torn over containers
  leaked,       \* history: compose down failed
  cut,          \* history: a load or compose up was cut short since the last
                \* compose down
  ignored         \* history: an error of kubectl's was ignored

files == <<conf, kubeconfig, compose>>
host == <<api, manager, procs, pids, taken>>
history == <<overlap, mixed, torn, leaked, cut, ignored>>
vars == <<conf, kubeconfig, compose, context, api, manager, procs, pids, taken,
          job, result, events, overlap, mixed, torn, leaked, cut, ignored>>

Runtimes == {"docker", "binary"}
Idle == [op |-> "none", port |-> None, todo |-> <<>>]

Init ==
  /\ conf = None /\ kubeconfig = None /\ compose = None /\ context = None
  /\ api = None /\ manager = "absent" /\ procs = {} /\ pids = None /\ taken = {}
  /\ job = [u \in Users |-> Idle] /\ result = "none" /\ events = 0
  /\ overlap = FALSE /\ mixed = FALSE /\ torn = FALSE
  /\ leaked = FALSE /\ cut = FALSE /\ ignored = FALSE

-----------------------------------------------------------------------------
(* The calls of each command, in order *)

\* Variant: the user's context keeps the port of an earlier Install.
InstallNoContext(r) ==
  IF r = "docker" THEN <<"config", "port", "kubeconfig", "compose", "images">> ELSE <<"config">>

Install(r) ==
  IF r = "docker" THEN <<"config", "port", "kubeconfig", "compose", "context", "images">>
                  ELSE <<"config">>

Down(r) == IF r = "docker" THEN <<"down">> ELSE <<"unset", "kill">>

Up(r) == IF r = "docker" THEN <<"up_api", "up_manager">>
                         ELSE <<"port", "spawn", "kubeconfig", "context">>

Ready == <<"wait", "get_node">>

Create(r) == Install(r) \o Up(r) \o Ready

Recreate(r) == Install(r) \o Down(r) \o Up(r) \o Ready

\* Variant: docker clusters are removed without being stopped.
DeleteRunning(r) ==
  IF r = "docker" THEN <<"unset", "uninstall">> ELSE Down(r) \o <<"uninstall">>

Delete(r) ==
  Down(r) \o (IF r = "docker" THEN <<"unset", "uninstall">> ELSE <<"uninstall">>)

\* Variant: the controller manager is not stopped.
LoadUnderController == <<"load", "start">>

Load == <<"stop", "load", "start">>

-----------------------------------------------------------------------------
(* The user *)

Busy == {u \in Users : job[u] # Idle}
Event == events < MaxEvents /\ events' = events + 1
Answers(p) == p # None /\ p \in (procs \cup {api}) \ taken

\* kubectl get node through kubeconfig.yaml.
Reachable == Answers(kubeconfig)

\* Which of the free shells the user takes makes no difference.
Begin(op, steps) ==
  /\ Busy # Users
  /\ LET u == CHOOSE v \in Users : job[v] = Idle
     IN job' = [job EXCEPT ![u] = [op |-> op, port |-> None, todo |-> steps]]
  /\ result' = "none"
  /\ overlap' = (Busy # {})
  /\ UNCHANGED <<files, context, host, torn, leaked, cut, ignored>>

\* A create with another runtime than the one on record, or that finds a cluster
\* that answers but has a node that is not ready yet, is an event.
BeginCreate(r) ==
  /\ Busy = {}
  /\ IF conf \in {None, r} /\ ~Reachable THEN UNCHANGED events ELSE Event
  /\ mixed' = (mixed \/ (conf = "docker" /\ r = "binary"))
  /\ \/ conf = None /\ Begin(r, Create(r))
     \/ conf \in Runtimes /\ Begin(r, Recreate(r))

CreateReady ==
  /\ Busy = {} /\ conf \in Runtimes /\ Reachable
  /\ result' = "ready"
  /\ UNCHANGED <<files, context, host, job, events, history>>

\* Of the zero Config, create has no image or binary and delete and load no runtime.
Refuse ==
  /\ Busy = {} /\ conf = Torn
  /\ result' = "failed"
  /\ UNCHANGED <<files, context, host, job, events, history>>

BeginDelete ==
  /\ Busy = {} /\ conf \in Runtimes /\ Event
  /\ Begin("delete", Delete(conf)) /\ UNCHANGED mixed

\* Loads of a binary cluster are in BinaryCluster.
BeginLoad ==
  /\ \A u \in Busy : job[u].op = "load"
  /\ conf = "docker" /\ Event /\ Begin("load", Load) /\ UNCHANGED mixed

-----------------------------------------------------------------------------
(* The steps of a command *)

Untouched == UNCHANGED <<files, context, host, history>>
At(u, step) == job[u] # Idle /\ Head(job[u].todo) = step
Proceed(u) == job' = [job EXCEPT ![u].todo = Tail(@)]
Give(u, r) == job' = [job EXCEPT ![u] = Idle] /\ result' = r
Continue(u) == Proceed(u) /\ UNCHANGED <<result, events>>
Return(u, r) == Give(u, r) /\ UNCHANGED events
Require(u, ok) == IF ok THEN Continue(u) ELSE Return(u, "failed")

\* The flags' runtime in a new config, and else the one on record.
WriteConfig(u) ==
  /\ At(u, "config")
  /\ conf' = IF conf = None THEN job[u].op ELSE conf
  /\ Continue(u) /\ UNCHANGED <<kubeconfig, compose, context, host, history>>

\* GetUnusedPort
PickPort(u) ==
  /\ At(u, "port")
  /\ \E p \in Ports \ (procs \cup {api} \cup taken) :
       job' = [job EXCEPT ![u].port = p, ![u].todo = Tail(@)]
  /\ UNCHANGED <<files, context, host, result, events, history>>

WriteKubeconfig(u) ==
  /\ At(u, "kubeconfig") /\ kubeconfig' = job[u].port
  /\ Continue(u) /\ UNCHANGED <<conf, compose, context, host, history>>

\* Variant: a compose file that is there is kept.
KeepCompose(u) ==
  /\ At(u, "compose") /\ compose' = IF compose = None THEN job[u].port ELSE compose
  /\ Continue(u) /\ UNCHANGED <<conf, kubeconfig, context, host, history>>

WriteCompose(u) ==
  /\ At(u, "compose") /\ compose' = job[u].port
  /\ Continue(u) /\ UNCHANGED <<conf, kubeconfig, context, host, history>>

\* kubectl config set and unset in the user's kubeconfig; errors are ignored.
SetContext(u) ==
  /\ At(u, "context") /\ context' = job[u].port
  /\ Continue(u) /\ UNCHANGED <<files, host, history>>

UnsetContext(u) ==
  /\ At(u, "unset") /\ context' = None
  /\ Continue(u) /\ UNCHANGED <<files, host, history>>

\* The runtime on record is asked for the images: there is no command "binary".
PullImages(u) == At(u, "images") /\ Require(u, conf = "docker") /\ Untouched

\* compose up -d converges on the compose file, one service after the other:
\* containers that differ are made again, and those that are stopped started,
\* which fails when the port has been taken since.
UpApi(u) ==
  /\ At(u, "up_api") /\ api' = compose
  /\ Require(u, compose \notin taken)
  /\ UNCHANGED <<files, context, manager, procs, pids, taken, history>>

UpManager(u) ==
  /\ At(u, "up_manager") /\ manager' = "running"
  /\ Continue(u) /\ UNCHANGED <<files, context, api, procs, pids, taken, history>>

\* compose down, which fails without a compose file; the error is only logged.
ComposeDown(u) ==
  /\ At(u, "down")
  /\ \/ /\ compose # None
        /\ api' = None /\ manager' = "absent"
        /\ torn' = FALSE /\ leaked' = FALSE /\ cut' = FALSE
     \/ compose = None /\ UNCHANGED <<api, manager, torn, leaked, cut>>
  /\ Continue(u) /\ UNCHANGED <<files, context, procs, pids, taken, overlap, mixed, ignored>>

\* Variant: a pid file outlives its process.
KillKeepsPids(u) ==
  /\ At(u, "kill") /\ procs' = procs \ {pids}
  /\ Continue(u) /\ UNCHANGED <<files, context, api, manager, pids, taken, history>>

\* The binary runtime kills what its pid files name,
KillProcesses(u) ==
  /\ At(u, "kill") /\ procs' = procs \ {pids} /\ pids' = None
  /\ Continue(u) /\ UNCHANGED <<files, context, api, manager, taken, history>>

\* and starts its processes on the ports that Up picked.
Spawn(u) ==
  /\ At(u, "spawn") /\ procs' = procs \cup {job[u].port} /\ pids' = job[u].port
  /\ Continue(u) /\ UNCHANGED <<files, context, api, manager, taken, history>>

Wait(u) == At(u, "wait") /\ Require(u, Reachable) /\ Untouched

\* kubectl --context <name> get node
GetNode(u) ==
  /\ At(u, "get_node") /\ Return(u, IF Answers(context) THEN "ready" ELSE "failed")
  /\ Untouched

\* os.RemoveAll of the work directory.
Uninstall(u) ==
  /\ At(u, "uninstall")
  /\ conf' = None /\ kubeconfig' = None /\ compose' = None /\ pids' = None
  /\ Return(u, "deleted") /\ UNCHANGED <<context, api, manager, procs, taken, history>>

\* docker stop, of a container that exists.
Stop(u) ==
  /\ At(u, "stop") /\ Require(u, manager # "absent")
  /\ manager' = IF manager = "absent" THEN manager ELSE "stopped"
  /\ UNCHANGED <<files, context, api, procs, pids, taken, history>>

\* load.Load through kubeconfig.yaml.  Variant: its error skips the deferred Start.
LoadReturns(u) == At(u, "load") /\ (Continue(u) \/ Return(u, "failed")) /\ Untouched

LoadObjects(u) == At(u, "load") /\ Continue(u) /\ Untouched

\* docker start; the error of load.Load decides.
Start(u) ==
  /\ At(u, "start") /\ manager' = IF manager = "absent" THEN manager ELSE "running"
  /\ \E r \in {"loaded", "failed"} : Return(u, r)
  /\ UNCHANGED <<files, context, api, procs, pids, taken, history>>

Step(u) ==
  \/ WriteConfig(u) \/ PickPort(u) \/ WriteKubeconfig(u) \/ WriteCompose(u)
  \/ SetContext(u) \/ UnsetContext(u) \/ PullImages(u) \/ UpApi(u) \/ UpManager(u)
  \/ ComposeDown(u) \/ KillProcesses(u) \/ Spawn(u) \/ Wait(u) \/ GetNode(u)
  \/ Uninstall(u) \/ Stop(u) \/ LoadObjects(u) \/ Start(u)

-----------------------------------------------------------------------------
(* Failures *)

\* The step fails, or the command is killed, before the step has an effect.  The
\* error of the deferred Start is only logged, and may end a load that has loaded.
Interrupt(u) ==
  /\ job[u] # Idle /\ Event
  /\ Give(u, "failed") \/ (At(u, "start") /\ Give(u, "loaded"))
  /\ cut' = (cut \/ \E step \in {"load", "start", "up_manager"} : At(u, step))
  /\ UNCHANGED <<files, context, host, overlap, mixed, torn, leaked, ignored>>

\* os.WriteFile truncated the file and wrote nothing.
Tear(u) ==
  /\ Event /\ Give(u, "failed")
  /\ \/ At(u, "config") /\ conf' = Torn /\ UNCHANGED <<kubeconfig, compose, torn>>
     \/ At(u, "kubeconfig") /\ kubeconfig' = None /\ UNCHANGED <<conf, compose, torn>>
     \/ At(u, "compose") /\ compose' = None /\ torn' = TRUE /\ UNCHANGED <<conf, kubeconfig>>
  /\ UNCHANGED <<context, host, overlap, mixed, leaked, cut, ignored>>

DownFails(u) ==
  /\ At(u, "down") /\ Event /\ Proceed(u) /\ leaked' = TRUE
  /\ UNCHANGED <<files, context, host, result, overlap, mixed, torn, cut, ignored>>

KubectlFails(u) ==
  /\ At(u, "context") \/ At(u, "unset")
  /\ Event /\ Proceed(u) /\ ignored' = TRUE
  /\ UNCHANGED <<files, context, host, result, overlap, mixed, torn, leaked, cut>>

\* Somebody listens on the port that a command has picked and not used yet.
Occupy(u) ==
  /\ job[u].port \notin {None, api} \cup procs \cup taken /\ Event
  /\ taken' = taken \cup {job[u].port}
  /\ UNCHANGED <<files, context, api, manager, procs, pids, job, result, history>>

Next ==
  \/ (\E r \in Runtimes : BeginCreate(r)) \/ CreateReady \/ Refuse
  \/ BeginDelete \/ BeginLoad
  \/ \E u \in Users :
       Step(u) \/ Interrupt(u) \/ Tear(u) \/ DownFails(u) \/ KubectlFails(u) \/ Occupy(u)

\* A user who waits for commands to end, and runs create with the runtime on
\* record again for a cluster that does not answer.
Retry == ~Reachable /\ \E r \in Runtimes : conf \in {None, r} /\ BeginCreate(r)

Spec ==
  /\ Init /\ [][Next]_vars
  /\ \A u \in Users : WF_vars(Step(u))
  /\ WF_vars(Retry)

-----------------------------------------------------------------------------
(* Properties *)

TypeOK ==
  /\ conf \in Runtimes \cup {None, Torn}
  /\ {kubeconfig, compose, context, api, pids} \subseteq Ports \cup {None}
  /\ manager \in {"absent", "stopped", "running"}
  /\ procs \cup taken \subseteq Ports /\ pids \in procs \cup {None}
  /\ \A u \in Users :
       /\ job[u].port \in Ports \cup {None}
       /\ job[u] # Idle => job[u].todo # <<>>
  /\ result \in {"none", "failed", "ready", "deleted", "loaded"}
  /\ events \in 0..MaxEvents

\* A cluster that is deleted leaves no container behind, unless compose down
\* failed, of itself or for want of the compose file that a create had torn; and
\* no process, unless a create of the other runtime had started them.
NothingOrphaned ==
  /\ conf \in {None, "binary"} => (api = None /\ manager = "absent") \/ leaked \/ torn
  /\ procs \subseteq {pids} \/ mixed
  /\ conf \in {None, "docker"} => procs = {} \/ mixed

\* A docker cluster that create reports as ready has its files, its containers
\* and the user's context on one port, unless a create by the binary runtime came
\* in between; the context may be missing or an earlier one when kubectl failed
\* to set it, whose errors are ignored, and when a delete unset it that had not
\* got the containers down.  It has its controller manager, too, unless a load
\* or compose up was cut short: create does not look for it.
ReadyAgrees ==
  result = "ready" /\ conf = "docker" /\ ~mixed =>
    /\ manager = "running" \/ cut
    /\ kubeconfig = api /\ compose = api /\ (context = api \/ ignored \/ leaked)

\* No controller manager runs while load creates objects, unless another load,
\* which stops what is stopped already without an error, overlaps with it.
ControllerStopped ==
  \A u \in Users : At(u, "load") => manager # "running" \/ overlap

\* Only a load that is cut short leaves a cluster without its controller manager.
ControllerBack ==
  manager = "stopped" => cut \/ \E u \in Busy : At(u, "load") \/ At(u, "start")

\* A user who repeats create ends with a cluster that answers, or with a config
\* that was torn: every create picks another port for all its files, when the
\* last one is taken or the containers it led to are not those that run.
RetryConverges == <>[](conf = Torn) \/ <>[]Reachable
=============================================================================
