# Verification of simnet

SimNet runs a decentralised application on many nodes, in Docker containers or
in a Kubernetes cluster: it deploys the nodes, emulates the network between
them, executes a round of the user's code, collects statistics and cleans up.
This directory has TLA+ models of it, the TLC configurations that check them on
small instances, and proofs that TLAPS checks for every value of the constants.

Paths are relative to the repository (`src/` in `PROJECT.json`).

## 1. The system

| Component | Code | State it keeps | Operations | What is hard |
|---|---|---|---|---|
| Simulation runner | `mod.go` | flags of one process | `Run` | four flags in any combination, errors and panics against a deferred cleaning |
| Docker strategy | `sim/docker/mod.go` | `updated`, `streamingLogs`, `containers`; in the daemon: containers | `Deploy`, `Execute`, `WriteStats`, `Clean` | calls that fail between two creations, containers that die, events of all containers in one channel, processes that end anywhere |
| Docker IO | `sim/docker/io.go` | open stats streams, statistics in memory | `monitorContainers`, `FetchStats`, `Read`, `Write`, `Exec`, `Disconnect`, `Reconnect` | a stream and a goroutine per container, closed on every way out; an `Exec` with the events of all containers, a connection and two goroutines that copy |
| Kubernetes strategy | `sim/kubernetes/mod.go` | `updated`, `executeTime`, `doneTime`; in the cluster: objects | the same four | several processes over one cluster, a window of time kept in one of them |
| Kubernetes engine | `sim/kubernetes/engine.go` | `pods`, `streamingLogs`; watches | `CreateDeployment`, `WaitDeployment`, `FetchPods`, `UploadConfig`, `DeployRouter`, `WaitRouter`, `FetchCertificates`, `FetchStats`, `DeleteAll`, `WaitDeletion`, node primitives | watches with events of other objects, replaced pods, a closed channel; fan-outs of goroutines |
| Kubernetes IO | `sim/kubernetes/io.go` | - | `Read`, `Write`, `Exec` | pipes between goroutines, connections that break while the program in the pod goes on |
| VPN tunnel | `sim/tunnel.go` | PID file, log file, a root daemon | `Start`, `Stop` | all three outlive the process; a timeout, a stale log |
| Monitor daemon | `daemon/monitor` | two channels, a stats stream, a file | `Start`, `Stop`, `main` | three threads, a signal, a stream that breaks |
| Network emulator | `daemon/monitor/netem` | - | `Execute` | first error ends a list of `tc` commands, whose numbers must not meet |
| Topologies | `network` | nodes and links | `NewXTopology`, `GetNodes`, `Rules` | which rules a node gets, in an order that Go leaves open, from addresses that may be missing |
| Metrics | `metrics/mod.go` | - | `NewNodeStats`, summaries | window of time, broken streams |
| Plots, options, Docker VPN, router image, examples | `metrics/simplot`, `sim/option.go`, `sim/docker/vpn*.go`, `daemon/router`, `examples` | - | - | mostly formatting, wiring and scripts |

**Interactions.** `main` makes a strategy and calls `Run`, which calls
`Deploy`, `Execute`, `WriteStats` and, deferred, `Clean`. The user's round has
`Before`, `Execute` and `After`, called from the first two. The Docker strategy
talks to the daemon, one call after the other, and hears from it by a channel
of events and by one stats stream per container. The Kubernetes strategy calls
the engine, which talks to the API server and hears from it by watches, runs
commands in pods over pipes, and then starts the tunnel through the router. In
each pod the monitor copies the stats stream of Docker to a file, which
`FetchStats` reads at the end. Processes share nothing but what outlives them:
the daemon or the cluster, the tunnel's files, the statistics file.

**What makes it correct.** Whatever fails or is interrupted, a run comes to the
cleaning it owes and returns the first error; a cleaning without an error has
left nothing behind; the round is told of a deployment only when all nodes are
there with their rules; nothing that was opened for a call outlives it; the
statistics of a round are all there and of that round; a node delays and drops
the packets that the topology and the round ask for, and no others; a call on a
node that succeeds has done all of it; every wait ends. Not all of this holds of
the code: section 3 says what does, under which conditions, and section 6 what
does not.

`PROJECT.json` lists the components, the hazards with their lines, the runs, a
mutant per property, the source lines of every definition, and the theorems.

## 2. The modules

```
Simulation  <-- DockerSimulation --> DockerStrategy
            <-- KubeSimulation   --> Tunnel
KubeDeploy, KubeUpload, KubeRouter, KubeClean   (inside calls of KubeSimulation)
Node --> KubeNode, DockerNode --> NodeIO --> Netem --> Topology
                                   (inside UploadConfig and the calls of a round)
StatsPipe <== Monitor       FanOut <== KubeUpload      (refinements)
```

`-->` is EXTENDS, `<==` a refinement with `INSTANCE ... WITH`. `X`'s proofs are
in `XProofs`, its model-checking constants in `MC_X`; the proofs of `KubeUpload`,
`KubeClean` and `KubeRouter` are in `KubeEngineProofs`, those of `DockerStrategy` with
those of its composition, those of `Topology` and `Netem` in `RulesProofs`, which
`NodeProofs` extends.

- **Simulation** - `Simulation.Run`. `phase` is the place in `Run`, `args` the
  command line, `calls` what was called on the strategy and how it ended, `err`
  the returned error. A call of the strategy is one step, `Returns`, which
  succeeds, fails or lets a panic of the round through. `Wants` is `flagset.Parse`
  and `doAll`; an argument it does not know ends the parsing and its error is
  dropped. `NextProcess` ends the process, at the end or in the middle.
- **DockerStrategy** - one action per call to the daemon or to the round. The
  daemon's side is `app`, `gen`, `emu`, `shaped`; the Strategy's is `updated`,
  `streamingLogs`, `containers`; the IO's is `open` and `stats`. `gen` gives each
  container an identity, so that a list kept too long names a container that is
  gone. A call that fails may have been carried out (only its answer was lost).
  Containers die by themselves (`AppDies`), emulators end with 0 or not
  (`EmuApplies`, `EmuFails`), and the strategy gets the events only while it
  listens. Its `Spec` is the strategy under a client that calls anything at any
  time.
- **DockerSimulation** - the two above: a sequence of processes over one daemon.
- **KubeDeploy** - `CreateDeployment`, `WaitDeployment`, `checkPodStatus`,
  `FetchPods`. `queue` is the watch; `status` the API server, whose controllers
  replace pods (`NewPod`), change them and delete them.
- **KubeUpload** - `configureContainer` and `UploadConfig`: in each stage one
  goroutine per pod (`worker`), a second one that feeds its command (`feeder`),
  the wait group `wg`, the channel `errCh`. **FanOut** is what a stage promises.
- **KubeRouter** - `DeployRouter`, `WaitRouter`, `createVPNService`,
  `FetchCertificates`, `writeCertificates`, against a watch of pods and one of
  services.
- **KubeClean** - `Clean`, `DeleteAll`, `deleteService`, `WaitDeletion`.
- **Tunnel** - `Start` and `Stop` with `running_pid`, `vpn.log` and the daemons,
  whose identifiers the system may give to other processes. `since`, `earlier` and
  `last` are not in the code: they record which daemons got through while `Start`
  waited, which were alive when it was called, and which one was started last.
- **KubeSimulation** - a sequence of processes over one cluster. A step of the
  engine is one step here, which succeeds or fails with what it may leave behind
  (`\E S \in SUBSET ...` in `CreateDeployment` and `DeleteAll`); the modules above
  open those steps up. The cluster acts on its own: pods start, end and stay listed
  for a while (`running`, `over`), and deployments whose deletion was accepted
  (`deleting`) vanish in their own time. `AllPods` counts the listed pods, as the
  code does, whatever their nodes. `intact` is not in the code: it records that all
  the pods ran and nothing was being deleted when they were listed. The module adds
  the clock, the samples that the monitors write, the statistics file and its window.
- **Topology** - pure functions: the nodes, links and rules of the simple, area,
  full and cloud topologies. `Links` is a set of sequences because the links to
  another area come in the order in which Go walks a map.
- **Netem** - the `tc` commands that the emulator makes of the rules, and as
  external definitions what the kernel accepts of them and does with a packet.
- **NodeIO** - what the two implementations of `sim.IO` share when a round calls
  them on one node. A call is a record: where its caller is (`pc`, `res`), the
  goroutine that feeds a pipe (`feed`), the one that copies the input (`sin`), the
  connection, the program in the node with its commands left (`remote`,
  `script`), its output and the copy of it. A call begins when the one before has
  returned, but the program and the goroutines of that one may still be at work.
- **KubeNode** - `kio.Read`, `Write` and `Exec` under `Read`, `Write`, `Exec`,
  `Disconnect`, `Reconnect` and the second half of `UploadConfig`, which runs
  `netem` in the pod. **DockerNode** - the same interface in `sim/docker/io.go`.
- **Node** - a round over one of the two; `setup` fixes the topology, the node, the
  order of its links and what the mapping of the addresses has. `Latency` is the
  reference: what each topology promises for a pair of nodes.
- **Monitor** - decoder, forwarder and main as three threads, `chanData`,
  `chanErr` and the unbuffered `m.c` (the joint step `Deliver`). **StatsPipe** is
  what the reader of the file relies on.

Definitions named `Mutant:` in a comment are plausible bugs of the definition
that follows them; `PROJECT.json` pairs them with the property that notices.
They are used by nothing else.

## 3. What the runs check

Passing runs, with the size of the state space:

| Run | Shows | Bounds |
|---|---|---|
| `monitor` (8k) | The file is a prefix of the stream and the threads implement `StatsPipe`; at most four samples are under way; the error that `Stop` provokes is never printed; without a break or a signal each sample gets to the file; `Stop` can only be held up by a send on `m.c`. | 6 samples: four can be under way (in the decoder, the channel, the forwarder and main), and more must be held back |
| `docker_simulation` (1.58M) | Two processes with any command line of up to two arguments, interrupted anywhere. The phases come in order, the first error is returned, the cleaning comes last and does come; a cleaning without an error leaves no container of a node running (the emulators are another matter, see `docker_simulation_leak`); streams are closed; every listed container has its rules when `Before` is called. | 2 nodes: one that works and one that fails, in any order. 2 containers per node, so that a second process creates again and an old identity may be stale. 2 processes: one leaves, one finds. 2 arguments: two flags, or one behind an unknown argument |
| `kube_upload` (6k) | No goroutine blocks or panics when it reports its error; when each pod has a label of its own, aliases come before rules and an upload without an error has done both for all; both stages implement `FanOut`; the upload ends. | 3 pods: the channel with room for none, some or all errors |
| `kube_deploy` (214k) | In a calm cluster a deployment that succeeds has exactly one ready pod per node; when pods are ready for good and the watch stays open the wait ends. | 2 nodes, 2 pods each (one replaced), one pod of an earlier simulation, 2 events unread |
| `kube_router` (271k) | Certificates are whole, from one router with generated keys, in a calm cluster the new one; the port is the router's when no other service has a node port; the wait ends. | 2 files, 2 other services, an old and two new router pods, 2 events unread |
| `kube_clean` (206k) | After a cleaning without an error the service is gone and the deletion of every deployment that is left has been accepted; if all had replicas when the watch was opened, none has at the end; the cleaning ends. | 2 nodes and the router, 2 cleanings, so that the second meets what the first left; 4 events unread |
| `kube_simulation` (7.5M) | Two processes with at most one argument. A round finds a deployment of every node, none of them being deleted, if its process has deployed, or if all the pods that it listed ran and no deletion was under way. Statistics without an error have the whole last round, unless a stream broke or a pod was gone, and after a `Deploy` in the same process only that round. `Start` succeeds on a message written since it was called, by its own daemon or by one that was alive before - never on one that the log had. `Stop` without an error has closed the last tunnel. | 2 nodes, so that an ended pod and its replacement can make up the number; `MaxOver` 1: one such pod. 2 process identifiers, so that an old daemon lives on and one is used again. 2 processes: one leaves, one finds. 2 seconds: samples in and after a round (those before it only in the theorem) |
| `node_io` (445k) | An upload that succeeds has the kernel of the node delay the packets to each other node as `Latency` says, whatever the order of the links, repeated links, missing addresses and what an earlier upload left; the commands of a first upload never refuse one another. A `Write` that succeeds has put all that was read of its content in the file, once and in order, and has read it to its end unless its reader failed; a reader that comes to the end has had all of the file; on Kubernetes `Disconnect` drops every target and `Reconnect` none, as far as no earlier command is still at work; `Exec` reports the end of its own command; a call that succeeds leaves no goroutine blocked on the input, but for an `Exec` or an upload of Kubernetes; every call returns, but for a Docker `Exec` whose input stays open. | 2 calls: one that leaves something, one that finds it, and the events of one in the other. 1 fault. 2 chunks of a content: one may arrive without the other. A topology of each kind with 2 or 3 nodes: three targets of one node in one case, a repeated and a reflexive link, more nodes asked for than `MaxSize`; 29 classes at most, so that a third one is refused |

"Calm" (in `KubeDeploy` and `KubeRouter`): no pod of an earlier simulation, and
no pod has stopped being ready or been deleted. Without it the statements are
false of the code (section 6), which counts events, not pods.

Some theorems are about invariants that no run repeats: the type invariants of
`Monitor`, `Simulation`, `DockerStrategy`, `KubeUpload`, `KubeDeploy` and
`KubeSimulation`; that a Docker `Clean` stops all of its list and that this list
has all that run (`CleanStopsListed`, `KnowsRunning`); and that nothing is called
which a well-formed command line left out (`RunsOnlyWanted`).

`kube_simulation` and `docker_simulation_leak` identify states that differ by a
permutation of nodes (and of process identifiers): no definition tells two of them
apart, and these runs have no liveness property.

CHECK_DEADLOCK is off in all runs: each of these programs ends, and the
environments may stop.

Runs that end in a violation. Each checks what the repository says of the program:

| Run | The code | The text |
|---|---|---|
| `monitor_stop` | The forwarder may be at `m.c <- data` when main calls `Stop`; main no longer receives, the forwarder no longer looks at `closing`, and `wg.Wait()` never returns. | "Wait for the go routines to complete", `daemon/monitor/mod.go:173` |
| `docker_simulation_leak` | The list has running containers with the label of a node only: a node's container that was not started, or an emulator in any state, stays after a cleaning without an error. | "Clean wipes off any resources that has been created for the simulation.", `sim/mod.go:88` |
| `kube_clean_missing` | The error is wrapped before its type is looked at: a missing service ends the cleaning and no deployment is deleted. | "If the service is simply not found, it ignores the error and keep on the cleaning.", `engine.go:573-574` |
| `node_io_output` | `Exec` of Docker returns when the command has ended, and its deferred `conn.Close` ends the goroutine that copies the output: the caller of a command that succeeded may have a part of it, or nothing. | "Exec executes a command on a simulation node and returns the output if the command is successful", `sim/mod.go:31-32` |

### Fairness

- `Monitor`: each of the three goroutines goes on when it can (Go's scheduler).
  Docker need not emit, nor anybody signal; reads fail only when the stream broke.
- `DockerSimulation`: the process goes on, since calls to the daemon return or
  fail and the round ends. Nothing is asked of the containers, and the user may
  interrupt the process.
- `KubeUpload`: goroutines are scheduled and commands in pods end.
- `KubeDeploy`: the program goes on, the controllers create missing pods, and a
  pending pod comes to some status - not to a good one. `KubeRouter`: the program.
- `KubeClean`: the program and its timer. Nothing is asked of the server.
- `Node`: the goroutines of a call go on, a connection is made or fails, and a
  program that has what it waits for ends. The round need not make a call, nor
  read what it asked for, nor end the input that it gives (`stdin = "never"`).

The liveness properties of `KubeDeploy` and `KubeRouter` carry their condition in
the formula (`<>[]AllUp => ...`): pods that stay ready and a watch that stays open.

## 4. What is proved

All theorems are of the specification without fairness, for every value of the
constants under the assumptions in the modules: bounds are natural numbers, sets
of nodes, pods and names finite where the code counts them, and names that the
code keeps apart are different.

- **MonitorProofs** - the safety properties of the run and `Spec => PipeSpec`, for
  any number of samples. `LinesFollowStream` is not inductive: `InFlight` says
  that the samples in main, the forwarder, the channel and the decoder are the
  ones that follow the file, consecutively. From it also the lag of four.
  `NoMisleadingError` needs that the body is closed only after the forwarder is
  done (`Closed`).
- **SimulationProofs** - the properties of `Simulation`, for command lines of
  any length. `Earlier`: all calls made are of earlier phases, and after one that
  failed the phase is the cleaning; `ErrorFound`: the error belongs to the failed
  call already during the run. `FollowingPhase` is the lemma about the loop over
  the flags.
- **DockerSimulationProofs** - first streams, rules and cleaning of one strategy
  under any client. `Shaping`: the containers done by the loop so far are shaped, and an
  event of the emulator with code 0 implies it for its container; `Stopping`:
  without an error so far, what the loop has behind it is stopped; `Numbered`:
  identities are given once. Then the composition implements both of its parts, so
  that all of the above holds in it; and the two properties of the composition
  alone. `Loading`: containers start only while the flag says that the list is
  not loaded, and once it is, what runs is in it. `LastIsClean`: after a cleaning
  without an error nothing is started in that process.
- **KubeDeployProofs** - `ReadyPodPerNode`, for any set of nodes. In a
  calm cluster the ready pods seen are among the first pods of the nodes, so that
  as many of them as nodes are all of them.
- **KubeSimulationProofs** - the composition implements `Simulation`, and is a client
  of the tunnel that starts it and stops it at most once and in that order
  (`ImplementsTunnel`), so that what is proved of the tunnel for such a client
  (`TunInv`) holds in it: once the log has been emptied it has only new messages;
  while `Start` waits the daemons are those that were alive before and its own, so
  that a message that ends the wait is of one of them (`TunLog`); the PID file is
  the last daemon's. For `RunsOnDeployment`, `Placed` says where pods and deletions
  can be, and `Deployed` which steps of a process find all the nodes deployed; the
  step from the count of `AllPods` to the nodes is the lemma `IntactList`: as many
  running pods as nodes, at most one of each node, are pods of all of them. Only
  a cleaning deletes a deployment, and no other phase of its process follows it.
  `StrategyTypes` adds to the types that the
  times of a round that has begun are readings of the clock. The statistics
  (`StatsCoverRound`) need one invariant about three actors (`WInv`): no sample is
  later than the clock (`Clocked`); samples are only in pods that run (`Held`); what a
  process keeps in memory of a round is
  the window in which that round was (`Opened`, `Windows`), whatever the processes
  before it left; a file that was written whole has every sample of its window
  (`Whole`, `Covered`). A step of the clock, of a monitor, of the cluster and of a
  process each keep it (`WindowStep`).
- **KubeEngineProofs** - the upload, the cleaning and the router, for any set of pods,
  nodes, files and services and any order of events. In the upload `Goroutines` ties
  each worker to the wait group and to its error, so that the channel closes only when
  all have sent and has room for each; both stages refine `FanOut`. `CleanInv`
  follows a deletion from the call to the loop that counts: what the loop has passed
  has been asked to go, and the replicas that it counts are those of the events it
  has seen. `RouterInv` says of
  which pod each file is, and that the port comes from the event of a service that
  has one.
- **NodeProofs** - the calls on a node, of both engines, for any number of calls,
  faults and chunks. `Calling` gives each call an invariant of its own, by its place
  (`KubePlace`, `DockerPlace`), its input and its result; the only thing that one
  call knows of another is the events of the daemon, which tell how a command has
  ended for good (`Told`). `Filed` adds that the chunks of a `Write` in the file are
  the first that `cat` took, in order, whatever other calls append between them.
  `CutInv` says of every command of iptables that is to come, or has been taken, what
  it leaves in the kernel: an address to cut off is either in the commands that are
  left or dropped. A call whose program is at work after it has returned has lost its
  connection, which is what `CutAsAsked` excludes.

  `UploadInv` is about the uploads of the rules: of all those that were started, over
  whatever connections broke, at most one is past its first command, because each
  begins with the root of the device and the kernel has one already. So the kernel is
  always what the first commands of one upload make of a new one (`Uploading`), and
  an upload that succeeds is that one, and has run them all. `FirstInv` says that the
  first upload is on its way to succeed as long as nothing but its commands could
  fail; they cannot, since the numbers that the rules get are different, at most
  `MaxMinor`, and each class is made before its qdisc.
- **RulesProofs** - what such a complete list of commands comes to, for each of the four
  topologies, as one chain: the links of a node say what the topology promises
  (`Latency`), although an area's come in any order and a full topology may give a
  link twice; the rules say what the links do, to different addresses for different
  nodes; `Execute` keeps the first rule of each address (`Pick`, by the rank of its
  position); and after its three commands the filter of an address leads to the one
  qdisc of its class, which has its delay (`RulesShape`). `Pick`, `Commands` and the
  links inside an area are functions of a position, not recursive or folded, so that no
  step needs an induction over data. It takes from `NodeAssumption` that a topology is
  built as its constructor allows (`TopologyRecords`): an area has a number of nodes
  and whole coordinates, the others are not restricted; and that `MaxMinor` is a
  natural number.

Every safety invariant and action property of the passing runs is a theorem. Only
model-checked are the liveness properties (`SampleWritten`, `StopWaitsOnlyForSend`,
`CleanedInTheEnd`, `UploadEnds`, `NoticesReady`, `NoticesRouter`, `CleanReturns`,
`CallReturns`): fairness and ENABLED are beyond the prover.

## 5. What is assumed of the outside

- Docker: a container that ends is removed (AutoRemove); a name in use is refused;
  the list shows running containers; an emulator can join a running container only;
  events are received only while they are listened to.
- API server: without a resource version a watch begins with an event for each
  object; events come in order; deleting something reports its last state; a closed
  watch gives empty events. In `KubeSimulation` the deployments
  that `DeleteAll` has deleted may outlast the call and vanish in their own time, and
  `WaitDeployment` may return at any time - `KubeClean` and `KubeDeploy` have the
  watches. A node has at most one pod that runs and one that has ended and is listed.
- The init container of the router has generated the keys when it has ended
  (`daemon/router/init.sh`).
- openvpn is root until it is initialised and drops its privileges then; the PID
  file is written before the command returns; the message appears only when an
  initialisation is complete, again after a reconnection.
- `tc` refuses to add what is there or to add under what is not, and a class number
  of more than four digits; it reads the digits as hexadecimal, which keeps
  different numbers different. A filter needs an address (`/32` alone is refused).
  The first filter that matches a packet decides. `iptables -I` inserts what it is
  given and `-F` empties the chain; nothing else uses them in the container.
- `exec.Stream` of Kubernetes returns when the program has ended and its output is
  copied, or when the connection breaks; the program is not told of the latter.
  Whether it reports an error of the input is left open.
- The command of a Docker exec runs from `ContainerExecAttach` on, and
  `ContainerExecStart` of a command that runs or has ended succeeds, or fails as any
  call may; an archive is written to the
  file that `path` names, and the length in its header is that of the content.
- The round may fail, and may panic in `Before`, `Execute` and `After`.

Abstracted: the contents of configurations, statistics and logs, names and labels
(members of small sets), the order of independent pods, and time, which only
`KubeSimulation` has, in seconds.

## 6. Seen while modelling, shown by no run

- The wait for the pods has no timeout: the progress deadline marks the Deployment,
  the loop receives events of pods (`sim/kubernetes/engine.go:263`; the comment
  above it says that deployments time out).
- A process that only executes has `updated` false at `WriteStats`, so that its
  window is everything since 1970 and the file has the samples of all rounds
  (`sim/kubernetes/mod.go:236`; `README.md:131-132` says they are overwritten).
- A second upload to a pod is refused: the comment says that the root is replaced,
  the command is `qdisc add` (`daemon/monitor/netem/executor.go:28-31` and `81`).
- After a connection that broke, the commands of an upload or of a `Disconnect` may
  still be at work when the next one comes; a `Reconnect` can then be undone.
- `Disconnect` and `Reconnect` of Docker report success and do nothing
  (`sim/docker/io.go:183-190`), where `sim/mod.go:35-42` describes a network failure;
  `CutAsAsked` is about Kubernetes.
- `Exec` of Docker does not return while its input is open, even when the command
  has ended (`sim/docker/io.go:159`); the one of Kubernetes does, and leaves the
  goroutine that reads the input.
- A `Write` of Kubernetes to an unknown node leaves a goroutine that waits on the
  pipe (`sim/kubernetes/engine.go:738`), and one that fails may have written a part.
  A content whose reader fails in the middle closes the input of `cat` like an end:
  the program may exit with 0 and `Write` report success with a part of the content
  (`engine.go:741`; `sim/mod.go:26-28` promises an error).
- An error of `CreateDeployment` after its watch was opened leaves it open
  (`sim/kubernetes/engine.go:244`): the model does so too, and no property speaks of it.
- An unknown argument hides the flags behind it: the error of the parsing is
  dropped, and with no flag set everything is run (`mod.go:52`).
- A container that died during `Deploy` is not in the list, and is not missed
  (`sim/docker/mod.go:227`). An emulator whose rules could not be sent, or whose wait
  timed out, may run on after a cleaning without an error: it has no label, and the
  comment at `sim/docker/mod.go:513` speaks of all the containers.
- `-do-stats` on Docker in a process of its own replaces the result by an empty one
  (`sim/docker/mod.go:503`).
- `readyMap` counts pods that were replaced or are of an earlier simulation
  (`sim/kubernetes/engine.go:272`), and `FetchPods` those that are listed
  (`engine.go:333`): a pod that has ended and its replacement, or pods that are
  being deleted, make up the number, and a round may run without one of its nodes
  (`RunsOnDeployment` leaves that out); of two pods with one label the first gets the
  aliases twice and the other never (`engine.go:713`); a deployment without replicas
  yet, or none any more, may end the wait for all the others (`engine.go:631`); the first service with a node port is taken for the router's
  (`engine.go:433`), the router pod is listed again after the wait (`engine.go:545`),
  and that wait has no timeout (`engine.go:474`).
- `-do-execute` after a `Deploy` that failed runs without `Before`
  (`sim/kubernetes/mod.go:194`).
- A stats stream that breaks is not reported (`metrics/mod.go:43`), nor is a pod that
  is gone: samples of the round are then missing from a file written without an error.
- The daemon of a `Start` that timed out may be root and survive the cleaning
  (`sim/tunnel.go:183`, reported as the error of `Stop`); the PID file is never
  removed, so that a second `Stop` may kill another process (`tunnel.go:215`); a
  daemon that was alive before `Start` may write the message that ends the wait
  (`tunnel.go:187`), and `Start` returns before its own tunnel is set up
  (`tunnel.go:113-114` speaks of any error before that).

## 7. Not modelled

Docker VPN (nothing to do on Linux; on macOS one container, whose failure is one of
the errors of `Before` in `DockerStrategy`), plots (formatting), options (one
structure filled before anything runs), the router image (shell scripts), examples,
summary statistics (floating point), the loss of a link (no topology sets one), the
text of the logs and of the tags.

## 8. Plan

Done: the runner, both strategies over several processes, the engine's four
multi-step operations, the tunnel, the monitor, the primitives of both engines on
a node, the topologies and the emulator.

Next, in this order:

1. Runs for the statements of section 6 that the repository makes and the code does
   not keep, where a counterexample says more than a sentence.
2. Refinements: `KubeDeploy`, `KubeRouter` and `KubeClean` each implement the step
   that stands for them in `KubeSimulation`.
3. `int2human` of the plots against a reference, and the Docker VPN of macOS as a
   part of `DockerStrategy`.
