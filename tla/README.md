# fake-k8s in TLA+

fake-k8s creates Kubernetes clusters whose control plane is real (etcd, API
server, controller manager, scheduler) and whose nodes are faked. There is no
daemon: every `fake-k8s create|delete|load` is a short-lived process that reads
and writes files under `clusters/<name>` of a directory for temporary files
(`pkg/vars/vars.go:21-24`), starts processes or containers that outlive it, and may be interrupted anywhere. What one command leaves behind is
all that the next one knows. That is what these modules model.

## The system

| part | state | operations |
|---|---|---|
| process supervisor, `pkg/utils/cmd.go` | `pids/<n>.pid`, `cmdline/<n>`, the host's process table | `ForkExec`, `ForkExecRestart`, `ForkExecKill` |
| binary runtime, `pkg/runtime/binary` | the files above, `kubeconfig.yaml`, a binary per component | `Install`, `Up`, `Down`, `Start`, `Stop` |
| cluster base, `pkg/runtime/cluster.go` | `fake-k8s.yaml` (the config) | `Config`, `Load`, `Install`, `Uninstall`, `Ready`, `WaitReady` |
| commands, `pkg/cmd/fake-k8s` | none of their own | create, delete, load; get, logs, kubectl only read |
| resource loader, `pkg/resource/load` | two lists of objects in memory, the objects in the cluster | `decodeObjects`; `Load`: rounds of `kubectl create` |
| download cache, `pkg/utils/download.go` | `cache` of the same directory, shared by all clusters | `DownloadWithCache`, `DownloadWithCacheAndExtract`, `Untar` |
| compose runtime, `pkg/runtime/compose` | `docker-compose.yaml`, `kubeconfig.yaml`; containers, kept by docker; a context in the user's kubeconfig | the same interface as binary |
| kind runtime, `pkg/runtime/kind` | `kind.yaml`, manifests, `kubeconfig.yaml`; containers, kept by kind; contexts and the current context of the user's kubeconfig | the same interface |
| registry, list, ports, version tables | none, or pure functions | `Get`, `Load`; `GetUnusedPort` |

A command reads the config, asks the registry for the runtime it names, and
calls that runtime. The binary runtime downloads through the cache, starts and
stops components through the supervisor, and polls the API server with
`WaitReady`; compose and kind leave that to docker, and share the user's
kubeconfig with each other and with the user. `load` stops the controller manager, hands the dump to the loader
and starts it again.

Hard to test are: a command that dies between two system calls (PROJECT.json
lists the lines); pid files that outlive their process, whose numbers the host
reuses; commands that overlap, as nothing locks; partial failures that are only
logged (`Down`, `kubectl create`); and the restart of what was half made.

What makes each part correct:

* supervisor: a running component can always be found again; there is one of
  each; what is signalled is the component; what is restarted is what ran.
* binary runtime and commands: nothing keeps running that no file names; the
  components of a ready cluster belong together; `load` runs without the
  controller manager and brings it back; repeating create gets there.
* loader: owners before what they own, with the new UIDs; every object created,
  refused or reported; it terminates.
* compose and kind: the same, and a cluster's files lead to the cluster, never
  to another; its containers go with its files.
* cache: what is linked is complete; everyone gets it; archives are removed only
  when they are of no more use.
* `WaitReady`: success means ready.

## Modules

**Supervisor** is the abstract supervisor: `Start` and the memory of its number
are one step, `Forget` happens only to a process that is gone, and `Lose` is
the one way to have a running component nobody remembers (`stray`).

**ForkExec** is `cmd.go`, one action per system call. A caller's `pc` is the
call it makes next:

    BeginFork / BeginRestart -> check -> AlreadyRunning
                                      -> Proceed -> OpenCmdline -> WriteCmdline
                                         -> StartProcess -> OpenPidFile -> WritePid
    BeginKill -> kill -> KillGone / Kill -> Remove,  KillRefused

`os.WriteFile` is two actions, since it truncates before it writes: a file is
absent (`None`), empty (`Torn`) or has a value. `Abort` is a system call that
fails or a command that is killed. `Exit`, `Reap` and `Squat` are the host:
processes end, numbers are given back, and go to processes that are not
components; those of `Root` refuse the signal. The flags `Serial`, `Faults` and
`Recycle` choose whether commands overlap, whether calls fail, and whether
numbers are reused. `argv` is what a process was really started with. `lost` is
history. A signalled process ends with the signal, see "Not modelled".

**BinaryCluster** EXTENDS Supervisor, whose actions are the steps of its
commands. A command is the list of calls it still has to make (`todo`):
`Create`, `Recreate`, `Delete` and `Load` are those lists as the code has them,
and one action per kind of call takes the head. Each `Up` picks ports nobody
uses: a generation number (`gen`); `link` is the generation each process was
started with and `kubeconfig` the one in `kubeconfig.yaml`. `Reachable` is an
API server that answers: it and its etcd run on the ports of the kubeconfig,
and no second etcd holds the data directory. `Interrupt`, `Tear`,
`TearCmdline`, `LoseProcess` and `RemoveSome` end a command between, or in the
middle of, its calls. A load whose deferred `Start` fails does not fail for that:
the error is only logged (`Fail`), and what `load.Load` returned is the result.
`CreateUnready` is a create whose look at the nodes fails though all components
run. `owed` (a load stopped the controller manager and nothing has started it since)
and `cut` (a load ended before its `Start`, or that failed) are history.

**Restore** promises what loading a dump means; **Load** is `load.go`. Objects
are numbers in the order of the dump, and their old UIDs; `owner` is any
function from objects to a controller, so chains, forests, cycles, missing
owners and children before parents all occur. A round (`Apply`) is one
`kubectl create` that is refused any subset; `Match` is one iteration of the
loop that gives children their new owner.

**Decode** is `decodeObjects`: a document is a function from its top-level keys
to their values, and `tmp` the map that all documents are decoded into.

**DownloadCache** is `download.go` with the part of `untar.go` that matters:
three paths, of the temporary file, the cached file or archive, and the binary
unpacked from it. Paths name inodes, for a command goes on writing to the inode
it has open when the path is truncated or renamed by another; a file is the set
of its pieces that were written. `src` is what is wanted: a file, a binary in an
archive, or a binary in an archive of the user's own, which is never downloaded
but removed all the same; `holds` is whether the archive has an entry of the wanted
name. If it has none, `Untar` passes over all of it and returns no error
(`UnpackNothing`). `faults`, `overlap` and `cut` are history.

**KindClusters** is the kind runtime with the commands on it, for several
clusters and shells. As in BinaryCluster, a command is the list of calls it
still has to make, but each shell has its own (`job`) and they interleave. kind
and docker are their effects: `nodes` (containers), `contexts` and `current` (in
the user's kubeconfig), `deployed` (which manifest went where) and `moved` (the
controller manager's manifest is away). `kind create` is two steps, containers
then context, and so is `kind delete`: another command may come in between.
`Switch` is the user's own `kubectl config use-context`. The errors of the kubectl
calls of `Up` and `Down` that set and unset the alias are ignored (`KubectlFails`), and,
as everywhere, that of the deferred `Start` only logged.

**ComposeCluster** is the compose runtime for one cluster, with what the binary
runtime does to it when `create --runtime` names that one: the registry gives
create the runtime of its flags, delete and load the one on record. What matters
is ports: those in `kubeconfig.yaml` (`kubeconfig`), `docker-compose.yaml`
(`compose`) and the user's kubeconfig (`context`), and those that API servers
were started on (`api`, `procs`). `manager` is the controller manager's
container. `Occupy` is another program that takes a port between
`GetUnusedPort` and its use.

**WaitReady** is the loop of `WaitReady` over `Ready`.

The MC modules give each an instance. The theorems are in **ForkExecProofs**,
**BinaryClusterProofs**, **LoadProofs**, **DownloadCacheProofs**,
**KindClustersProofs** and **ComposeClusterProofs**, each of which extends its
component. Operators commented "Variant" are what the code would do with a plausible bug;
PROJECT.json pairs each with the property that notices. No specification uses
them.

## What the runs check

| run | instance | shows |
|---|---|---|
| ForkExecSerial | 1 command at a time, 2 components, 2 numbers, 2 argument lists, faults, reuse | `UnrecordedOnlyIfLost`, `AtMostOneInstance`, `RecordedCommandLine`, and that the code implements Supervisor |
| ForkExecConcurrent | 2 overlapping commands, 2 components, 2 numbers, faults, no reuse | `KillsOnlyOwn` |
| BinaryCluster | 6 components, 4 numbers each, 3 events | `NothingOrphaned`, `Coherent`, `ControllerStopped`, `ControllerBack`, `RetryConverges` |
| Load | every dump of 5 objects, every refusal | `CreatedOnce`, `NothingDropped`, `RestoresAll`, `RoundsProgress`, `Returns`, and that the code implements Restore |
| DownloadCache | 2 commands, 6 inodes, 2 pieces, 2 faults, archives with and without the binary | `CacheComplete`, `CompleteAtRest`, `BinaryComplete`, `OwnArchiveNotLost`, `EveryoneLinks` |
| KindClusters | 2 clusters and one of the user's, 2 shells, 2 manifests, 2 events | `StaysHome`, `ReadyIsComplete`, `ControllerStopped`, `ControllerBack`, `NothingOrphaned`, `RetryConverges` |
| ComposeCluster | 1 cluster, 2 shells, 5 ports, 4 events | `NothingOrphaned`, `ReadyAgrees`, `ControllerStopped`, `ControllerBack`, `RetryConverges` |

Each also checks its type invariant. The bounds:

* ForkExec. With one command at a time the idle ones have no state that counts,
  so one caller stands for any number. Two numbers give two instances of one
  component, or one of each, or a squatter beside a component. Two argument
  lists tell a recorded command line from a stale one. `MaxArgv` cuts the words
  that restarts add (see the findings).
* BinaryCluster. An *event* is anything but a create running its course: a
  crash, a failed call, an exit, a number given away, a delete, a load. Three
  reach, for instance, a create that loses a process, a load that is
  interrupted, and a stale number that refuses the signal. Four numbers suffice
  as each event leaves at most one process of a component beyond the one
  managed. Eight generations are never all in use; were they, `PickPorts` would have to wait,
  while GetUnusedPort finds some port on any real host.
  The host picks one particular free number of a component, and gives numbers back
  only when they are needed, which no property can tell from other choices.
  Components have numbers of their own; a number that goes to *another
  component* is met in ForkExec, whose `KillsOnlyOwn` needs that not to happen.
* Load. Five objects reach chains of depth five and two families with two
  levels and a stray.
* DownloadCache. Two commands: one renames or is killed while the other's file
  is emptied. Two pieces make a half-written file. Six inodes are one per path
  and those that removed paths leave in the hands of commands. Two faults are a
  kill and a removal of the cache, or two kills.
* KindClusters. Two clusters are enough for one to be mistaken for the other, and
  two shells for any two commands to overlap. An event is a delete, a load, a
  switch of the context, a failure, or a create that is not the only command.
  Two of them make, for instance, creates that overlap while the user switches
  contexts, or a load that is killed. With three events and one manifest the
  same properties hold of 1.6 million states.
* ComposeCluster. Four events reach a create with the other runtime, a delete,
  a failure of compose down and a create after that. Each event uses up at most
  one port, so that one of five is always free.

Deadlock is checked, but where the system stops by design: `Load`,
`LoadMisaligned`, `Decode` and `DownloadCache`, whose work is done.

### Fairness

`RetrySpec` assumes a user who repeats create when it failed or the cluster is
not ready (`WF(CreateNew \/ CreateAgain)`), commands that take their next step
(`WF(Command)`: no call blocks for ever, downloads and polling are bounded), and
a host that gives back numbers new processes need. There is no fairness for
events. `DownloadCache` is weakly fair for each command's own step, as the host
schedules processes; `Crash` is not fair and is bounded. In `KindClusters` and
`ComposeCluster` commands take their steps, and a user repeats create, with the
runtime on record, for a cluster that does not answer, once no command is at
work (`WF(Retry)`). `Load` is a single thread that goes on while it can.

### What the properties leave out, and why

Most properties name the histories under which the code breaks them; TLC shows
that each exception is needed, and that nothing else is.

* `RetryConverges` of BinaryCluster: a config that was torn (it reads as no
  cluster and yet is in the way), an etcd that was started and not recorded,
  which holds the data directory for ever, and a pid file whose number went to a
  process the user may not signal. The config is in the way of the other
  runtimes, too.
* `StaysHome`: `Up` of kind trusts the current context from `kind create` to the
  last `kubectl apply`. When two creates overlap, or the user switches contexts
  meanwhile (`raced`), manifests go to another cluster, also to one that is none
  of fake-k8s's, and `kubeconfig.yaml` of one cluster leads to the other; as
  that one answers, every later create says "already ready" and leaves it so.
  Deletes and loads are harmless to other clusters.
* `ControllerStopped`: kind's `Stop` fails when the manifest is away already, so
  that loads exclude each other; docker's `stop` of a stopped container
  succeeds, so that of two loads the one that ends first starts the controller
  manager under the other (`overlap`). A create or a delete of the same cluster
  brings the controller manager up, or takes the cluster away, under a load of
  kind's (`clash`).
* `ControllerBack`: a load that is killed leaves the controller manager stopped
  (`cut`), and so does one whose `Start` fails, although it returns no error for
  that. For kind that is for good, as each later load fails at `Stop`, until the
  cluster is made anew; for docker until the next load. For the binary runtime the
  property says that the next load starts it again, if no create has. There, a cmdline file
  that a start left empty, or that went with a part of the directory, is an exception
  of its own: without it `Start` fails, load after load, until a create starts the components.
* `NothingOrphaned` of kind and compose: `kind delete` and `compose down` fail
  and the error is only logged (`leaked`); a create was killed while it rewrote
  `docker-compose.yaml`, and a delete came next (`torn`); a create overlapped
  the delete (`clash`); a create with `--runtime=binary` started processes for a
  cluster whose record says docker, and delete goes by the record (`mixed`).
* `ReadyAgrees`, `ReadyIsComplete`: a create that finds an API server that
  answers returns at once. It does not look for the controller manager, the
  manifests or the context that an earlier command left out, lost, or could not
  set as kubectl's errors are ignored (`cut`, `ignored`).
* `BinaryComplete`: an extraction that was interrupted (`cut`) is trusted ever
  after.
* `OwnArchiveNotLost`, `EveryoneLinks`: an archive without the wanted binary (`holds`)
  is removed with nothing unpacked, also when it is the user's own, and the command makes
  a link that leads nowhere and reports no error: `Untar` skips entries of other names
  (`pkg/utils/untar.go:104-107`), and nothing looks whether the binary is there. When
  commands that unpack one archive overlap, they empty each other's binary; until they
  are done, or when one of them was killed, an archive may be gone and the binary not whole.
* `EveryoneLinks`: two commands download one archive, one of them is killed, and
  the other renames what is left of it; the archive cannot be unpacked, and is
  never removed, so that every later command fails.

### Findings

| run | property | what TLC finds |
|---|---|---|
| ForkExecRestart | `RestartKeepsCommandLine` | `ForkExecRestart` passes the recorded name as an argument; each restart adds a word |
| BinaryReady | `ReadyIsStarted` | an interrupted create is "already ready" without controllers and nodes |
| LoadMisaligned | `OwnControllerNamed` | when an object is refused, children get another object's owner |
| Decode | `OwnDocument` | a document after a List keeps the List's items, is taken for a List itself, and is lost |
| WaitReadyNil | `NilMeansReady` | nodes that stay NotReady end in success |

## What is proved

Every invariant that a passing run checks is a theorem, for every value of the
constants, and so are the two refinements and the action property. A theorem is about
the same definitions that TLC checks; its invariant was checked by TLC before it was
proved. Type invariants are called `TypeCorrect` everywhere and are the first
conjunct of what follows.

The assumptions are those that the modules name, besides that bounds are numbers:

* states of a file (`None`, `Torn`, ...) and values it may have are distinct, as are
  the owners of a process number;
* argument lists are sequences of words (ForkExec), the manifests are a sequence
  (KindClusters);
* files have at least one piece, and there is an inode (DownloadCache);
* the components of the binary runtime are the six that Up starts, each of which may get
  certain process numbers, shared with others or not (BinaryCluster).

Nothing is assumed of how many callers, shells, clusters, numbers, ports or events there
are.

### ForkExec

| theorem | assumes | says |
|---|---|---|
| `NothingElseIsLost` | `Serial` | `Spec => []UnrecordedOnlyIfLost` |
| `OneInstance` | `Serial` | `Spec => []AtMostOneInstance` |
| `CommandLineIsRecorded` | `Serial` | `Spec => []RecordedCommandLine` |
| `Implementation` | `Serial` | `Spec => ImplementsSupervisor` |
| `KillIsSafe` | `~Recycle` | `Spec => []KillsOnlyOwn`, commands overlapping at will |

Every one rests on `TypeInv`: `TypeOK` alone is not inductive, as `ForkExecRestart`
takes the head of the recorded words (`WordsInv`: they are not empty) and `Kill` the
owner of a number (`PidInv`: it has one).

The serial theorems share `SerialInv`. `Alone` says that no two calls are in
progress, from which every other conjunct survives the steps of "another"
caller. `Checked`: between the look at the pid file and the last write the file
holds no number, so recording a number overwrites none. `Written`: from the
write of the command line on, the file, the words the caller wants and those of
the process it started agree. `Signalled`: the number being signalled is the
recorded one, and is no longer the component's when the file is removed, so the
removal loses nothing. `UnrecordedOnlyIfLost` and `RecordedCommandLine` are
inductive with these; `AtMostOneInstance` follows.

`Implementation` is a step simulation under `SerialInv`. The mapping `managed`
remembers a process from `StartProcess` on: the caller's local `pid` until the
pid file has it. `StartProcess` maps to `Start`, `Kill` to `Signal`, `Remove`
to `Forget`, an `Abort` before the pid file is complete to `Lose`, the host's
steps to themselves and all others to stutters; the file steps in between leave
`managed` alone (`QuietManaged`, `OthersManaged`).

`KillIsSafe` needs no order of commands, only that dead numbers stay dead: in
`OwnNumbers`, a number on its way from `cmd.Start` to a pid file, in one, or on
its way to a signal belongs to its component or to a dead process.

### BinaryCluster

| theorem | says |
|---|---|
| `NothingIsOrphaned` | `ClusterSpec => []NothingOrphaned` |
| `ReadyIsCoherent` | `ClusterSpec => []Coherent` |
| `StoppedWhileLoading` | `ClusterSpec => []ControllerStopped` |
| `StartedAfterLoading` | `ClusterSpec => []ControllerBack` |

They share `ClusterInv`. None of the properties is inductive, for what a call may do
depends on what the command does after it. `PlanInv` therefore speaks of the whole of
`todo`: for any call and any that is left after it, the order is one that the code
has (`Before`), such as that no component is killed once the ports are picked, that
`kubeconfig.yaml` is written after etcd and API server are started, and that no config
is written twice. Each list of calls has that order
(`Creating`, `Recreating`, `Deleting`, `LoadCalls`) and its tails have it, so that one
lemma per kind of call is enough for all commands. With it:

* `TrackedInv`: a live process is the one remembered, or lost. A start finds none that
  is remembered and alive, since (`DownInv`) every component that runs is killed before
  the ports are picked or the directory is removed, and what is forked after that does
  not run.
* `ConfInv`: the config is there before any component and goes after all of them; only
  a config with prometheus starts it, without which a create with other flags would
  not stop it.
* `LinkInv`, `UpInv`: either all that runs is on the ports of `kubeconfig.yaml`, or
  neither etcd nor API server is. Between the choice of the ports and the write of
  the kubeconfig what runs is on ports that nobody else uses. That is
  why a create that finds an API server that answers can return at once, and
  `Coherent` holds of it too.
* `BackInv`: a controller manager that is owed has no pid file, so that the next start
  does start it; and the load that owes it is past its `Stop` and has its `Start` left, or
  was cut short.

### Load

| theorem | says |
|---|---|
| `SentOnce` | `Spec => []CreatedOnce` |
| `Accounted` | `Spec => []NothingDropped` |
| `RoundsAreFinite` | `Spec => RoundsProgress` |
| `WholeChains` | `Spec => []RestoresAll` |
| `Implementation` | `Spec => ImplementsRestore` |

`filter` is a recursive function; what it returns (`Passes`, `Filtered`: the members
that pass, in their order, the whole list if all do) is proved with `Induction`, which
states induction over the numbers of a set, as the provers cannot use the library's
theorem about predicates.

`PlacesInv` gives every object one place: built in, created, refused, about to be
sent (`Pending`) or waiting. `SentOnce`, `Accounted` and, with `RoundInv` (a round has
something to send), `RoundsAreFinite` follow. `OrderInv` says that, while nothing is
refused, what is pending is a root or names the controller created for it, and that
a waiting object whose controller is created will still be met by the loop over the
round's objects. From it the set of created objects is closed under
"owns" when load is done, and within every closed set before: it is `Restorable`, which
is defined as the least such set, so that chains of any length need no induction. The
same invariant gives `Implementation`: an `Apply` is a step of Restore, all others are
stutters.

### DownloadCache

| theorem | says |
|---|---|
| `DownloadsSettle` | `Spec => []CompleteAtRest`, commands overlapping at will |
| `CachedIsComplete` | `Spec => []CacheComplete` |
| `UnpackedIsComplete` | `Spec => []BinaryComplete` |
| `OwnArchiveIsKept` | `Spec => []OwnArchiveNotLost` |

`TypeInv` adds that no file has two names. For the first theorem, `RestInv` says of a
file with a name that it is complete, or that the command that truncated it last is
still writing it and has written it from its first piece on: a file that a command
renames half written is made complete under its new name. The next two hold without
overlap and share `Sound`: what is downloaded has no name but the temporary one, and
what is unpacked comes from a complete archive. `OwnArchiveIsKept` needs `Sound` for
commands that are cut short, and for those that overlap `OwnInv`: an archive of the
user's own is never written, and the command that emptied the binary last unpacks all of
it. `CleanInv` says that only an archive without the binary is removed with nothing
unpacked.

### KindClusters

| theorem | says |
|---|---|
| `UpStaysHome` | `Spec => []StaysHome` |
| `ReadyMeansComplete` | `Spec => []ReadyIsComplete` |
| `StoppedWhileLoading` | `Spec => []ControllerStopped` |
| `StartedAfterLoading` | `Spec => []ControllerBack` |
| `DirectoryOutlivesNodes` | `Spec => []NothingOrphaned` |

In `JobInv` each command has the last calls of its course left, and how many they are
says which call is next; a create has as many as the manifests make it. `HomeInv`: as
long as nothing raced, one create is at work at most, and from `kind create` on the
current context is its own or none. `Apart`: two commands on a cluster are both loads,
or the cluster is in `clash`. `CareInv`: a load past `Stop` is the one that moved the
manifest, and the only one; a manifest that is away is so for a load that will bring it
back; a delete removes the directory after the containers. `ReadyInv`, on top of all
these, says what of a cluster is there when its create has a number of calls left, that
containers belong to a whole cluster or to a command on its way up or down, and
that nothing is at work on a cluster whose create has just succeeded.

### ComposeCluster

| theorem | says |
|---|---|
| `Orphanless` | `Spec => []NothingOrphaned` |
| `ReadyIsOneCluster` | `Spec => []ReadyAgrees` |
| `StoppedWhileLoading` | `Spec => []ControllerStopped` |
| `StartedAfterLoading` | `Spec => []ControllerBack` |

`JobInv` says which call may follow which (`Flow`) and which is the last. `Alone`: only
loads work at the same time. `RecordInv` ties the config on record to the command at
work, `WrittenInv` the port of a create to what it has written by the call it is at,
`ContainersInv` and `ProcessesInv` say when containers and processes are certain to be
gone, and `LinkInv` what holds as long as `kubeconfig.yaml` leads to a container that
runs, which is when a create returns at once.

### Only model-checked

* Liveness under fairness, which the prover does not reach: `RetryConverges`, three
  times, `EveryoneLinks` and `Returns`. `RoundsAreFinite` is the part of `Returns` that
  is not about scheduling.
* What the code breaks (`ForkExecRestart`, `BinaryReady`, `LoadMisaligned`, `Decode`,
  `WaitReadyNil`): the runs are the counterexamples, and Decode and WaitReady have no
  other property.
* Which exceptions the properties need: a proof shows that they suffice, the runs that
  led to them that they are needed.

## Not modelled

* A signalled process takes time to end, and `process.Wait` of another's child
  fails at once, so the pid file may be removed before the process is gone. The
  models let it end with the signal; the code has no bound that would let them
  do otherwise and converge.
* Overlapping commands on one cluster of the binary runtime; on one of docker
  only loads overlap. KindClusters has them all.
* An API server port that the user fixes: every port is picked, as by default.
* Containers that end by themselves (`restart: always` brings them back), the
  ones beside API server and controller manager, which compose treats alike, and
  contexts that the user deletes. A create that finds a port taken leaves a
  container that was made and not started; it counts as made.
* The time the kubelet of a kind cluster takes to stop the controller manager once its
  manifest is moved away: `Stop` returns before, and load may create its first objects
  with it still running. No call of the code waits for it; `Stop` of the model stops it.
* Archives with several entries of the wanted name, which are unpacked over each other,
  and kinds of archives that `Untar` does not know.
* Failures of `os.RemoveAll` outside BinaryCluster, and the download of kubectl
  where none is installed.
* nerdctl, whose commands are docker's, and creates that mix kind with another
  runtime. `--runtime=kind` on another's cluster, and docker on kind's, run the
  runtime on record with words it does not know (`docker create cluster`) and
  fail; `--runtime=binary` does to kind's what it does to docker's in
  ComposeCluster.
* The read-only commands, logging, progress bars, PKI and templates: no state
  that another operation reads. The registry and the lists: a map filled at
  start-up, a directory listing and constants.
* The version tables: pure functions over generated data.
* `fake-k8s.sh` is the unmaintained predecessor.

## Plan

Done, in this order: Supervisor, ForkExec and its proofs (the part everything
else stands on), BinaryCluster over Supervisor, Restore and Load, WaitReady,
DownloadCache with archives, Decode, KindClusters, ComposeCluster.

Done after that: the theorems about all six components that have a passing run.

Next:

1. Overlapping commands in BinaryCluster. The proofs say what needs that there be none:
   `DownInv` (a second create forks what the first has killed) and with it
   `TrackedInv` and `UpInv`; `ConfInv` for deletes.
2. The life of a cluster as an abstract specification (created, ready, loading,
   deleted, lost) that the three runtimes implement, with the exceptions that their
   properties name now.
