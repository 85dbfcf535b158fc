--------------------------- MODULE DockerStrategy ---------------------------
(***************************************************************************)
(* The Docker strategy (sim/docker/mod.go) and the part of its IO that     *)
(* watches the containers (sim/docker/io.go), against a Docker daemon in   *)
(* which every call may fail, before or after the daemon has done what it  *)
(* asks, and every container may die between two calls.  Each action is    *)
(* one call to the daemon, or one call of the round.                       *)
(*                                                                         *)
(* The daemon outlives the process of the simulation; what the Strategy    *)
(* object and its IO remember does not.                                    *)
(***************************************************************************)
EXTENDS Naturals

CONSTANTS
  Nodes,    \* the nodes of the topology
  MaxGen    \* bound on the containers created for a node over time

ASSUME MaxGenAssumption == MaxGen \in Nat \ {0}

VARIABLES
  \* the Docker daemon
  app,        \* per node, its container: "none", "created" or "running"
  gen,        \* per node, the containers created so far; names the last one
  emu,        \* per container, the emulator that shares its network: "none",
              \*   "created", "running" or "fed" (it has read the rules)
  shaped,     \* the containers whose network rules have been applied
  \* the Strategy
  updated, streamingLogs, containers,
  \* its dockerio
  open,       \* the containers whose stats stream is open
  stats,      \* the nodes with statistics in memory
  \* the call in progress
  op, pc,
  pending,    \* the nodes that createContainers has not come to
  todo,       \* the containers that the loop in progress has not come to
  cur,        \* the element the loop works on
  events,     \* the die events received from the daemon, with exit codes
  failed,     \* Clean has collected an error, that of vpn.Clean to begin with
  \* the file system
  result      \* the nodes with statistics in result.json

daemonVars == <<app, gen, emu, shaped>>
memVars    == <<updated, streamingLogs, containers>>
ioVars     == <<open, stats>>
callVars   == <<op, pc, pending, todo, cur, events, failed>>
vars       == <<app, gen, emu, shaped, updated, streamingLogs, containers,
                open, stats, op, pc, pending, todo, cur, events, failed, result>>

Ids    == Nodes \X (1 .. MaxGen)
NoId   == <<>>
Ops    == {"deploy", "execute", "stats", "clean"}
Done   == {"idle", "ok", "err", "panic"}
CfgPcs == {"configure", "cfgAttach", "cfgStart", "cfgRules", "waitExec"}

\* The container that a node has now.
Id(n)      == <<n, gen[n]>>
Live(i)    == gen[i[1]] = i[2] /\ app[i[1]] = "running"
RunningIds == {i \in Ids : Live(i)}
Named(ids) == {i[1] : i \in ids}

TypeOK ==
  /\ app \in [Nodes -> {"none", "created", "running"}]
  /\ gen \in [Nodes -> 0 .. MaxGen]
  /\ emu \in [Ids -> {"none", "created", "running", "fed"}]
  /\ shaped \subseteq Ids
  /\ updated \in BOOLEAN /\ streamingLogs \in BOOLEAN
  /\ containers \subseteq Ids
  /\ open \subseteq Ids /\ stats \subseteq Nodes /\ result \subseteq Nodes
  /\ op \in Ops
  /\ pc \in Done \cup CfgPcs \cup
            {"pull", "create", "start", "list", "logs", "pullNetem", "before",
             "monitor", "execute", "after", "fetch", "stop"}
  /\ pending \subseteq Nodes /\ todo \subseteq Ids
  /\ cur \in Ids \cup {NoId}
  /\ events \subseteq [from : {"app", "emu"}, id : Ids, code : {0, 1}]
  /\ failed \in BOOLEAN

\* A process that has just called NewStrategy.
NewMemory ==
  /\ updated' = FALSE /\ streamingLogs' = FALSE /\ containers' = {}
  /\ open' = {} /\ stats' = {}
  /\ op' = "clean" /\ pc' = "idle" /\ pending' = {} /\ todo' = {} /\ cur' = NoId
  /\ events' = {} /\ failed' = FALSE

Init ==
  /\ app = [n \in Nodes |-> "none"] /\ gen = [n \in Nodes |-> 0]
  /\ emu = [i \in Ids |-> "none"] /\ shaped = {}
  /\ updated = FALSE /\ streamingLogs = FALSE /\ containers = {}
  /\ open = {} /\ stats = {} /\ result = {}
  /\ op = "clean" /\ pc = "idle" /\ pending = {} /\ todo = {} /\ cur = NoId
  /\ events = {} /\ failed = FALSE

-----------------------------------------------------------------------------
(* The environment: containers end by themselves, and AutoRemove then      *)
(* removes them.  The strategy is told while it listens to the events.     *)

Listening == pc \in CfgPcs

Event(from, i, code) ==
  events' = IF Listening
              THEN events \cup {[from |-> from, id |-> i, code |-> code]}
              ELSE events

AppDies(n) ==
  /\ app[n] = "running"
  /\ app' = [app EXCEPT ![n] = "none"]
  /\ \E code \in {0, 1} : Event("app", Id(n), code)
  /\ UNCHANGED <<gen, emu, shaped, memVars, ioVars, op, pc, pending, todo, cur, failed,
                 result>>

\* netem has applied the rules it was sent and exits with 0.
EmuApplies(i) ==
  /\ emu[i] = "fed"
  /\ emu' = [emu EXCEPT ![i] = "none"]
  /\ shaped' = shaped \cup {i}
  /\ Event("emu", i, 0)
  /\ UNCHANGED <<app, gen, memVars, ioVars, op, pc, pending, todo, cur, failed, result>>

EmuFails(i) ==
  /\ emu[i] \in {"running", "fed"}
  /\ emu' = [emu EXCEPT ![i] = "none"]
  /\ Event("emu", i, 1)
  /\ UNCHANGED <<app, gen, shaped, memVars, ioVars, op, pc, pending, todo, cur, failed,
                 result>>

\* A stats stream delivers a sample of a container that is still there.
Sample(i) ==
  /\ i \in open /\ Live(i) /\ i[1] \notin stats
  /\ stats' = stats \cup {i[1]}
  /\ UNCHANGED <<daemonVars, memVars, open, callVars, result>>

-----------------------------------------------------------------------------
(* The calls.  An operation ends with pc in Done.                          *)

Call(o) ==
  /\ pc \in Done
  /\ op' = o
  /\ pc' = CASE o = "deploy"  -> "pull"
             [] o = "stats"   -> "fetch"
             [] o \in {"execute", "clean"} -> "list"
  /\ pending' = {} /\ todo' = {} /\ cur' = NoId /\ events' = {}
  /\ failed' \in {FALSE, o = "clean"}
  /\ UNCHANGED <<daemonVars, memVars, ioVars, result>>

\* The step of a loop: the rest of the loop, or what comes after it.
Loop(here, left, after) == pc' = IF left = {} THEN after ELSE here

Fails ==
  /\ pc' = "err"
  /\ UNCHANGED <<op, pending, todo, cur, events, failed>>

\* Mutant: monitorContainers returns its error without closing the streams.
KeepStreams == UNCHANGED open

\* The deferred closer of Execute, or globalCloser in monitorContainers.
CloseStreams == open' = {}

-----------------------------------------------------------------------------
(* Deploy: pull, create and start the containers, list them, follow their  *)
(* logs, apply the network rules one container after the other, Before.    *)

\* Mutant: the flag is set before the state is loaded.
PullImageMarkingUpdated ==
  /\ pc = "pull"
  /\ updated' = TRUE
  /\ \/ /\ pending' = Nodes /\ Loop("create", pending', "list")
        /\ UNCHANGED <<op, todo, cur, events, failed>>
     \/ Fails
  /\ UNCHANGED <<daemonVars, streamingLogs, containers, ioVars, result>>

PullImage ==
  /\ pc = "pull"
  /\ \/ /\ pending' = Nodes /\ Loop("create", pending', "list")
        /\ UNCHANGED <<op, todo, cur, events, failed>>
     \/ Fails
  /\ UNCHANGED <<daemonVars, memVars, ioVars, result>>

\* ContainerCreate; a name that is taken is refused.
CreateFor(n) ==
  /\ app[n] = "none" /\ gen[n] < MaxGen
  /\ app' = [app EXCEPT ![n] = "created"]
  /\ gen' = [gen EXCEPT ![n] = gen[n] + 1]

CreateContainer ==
  /\ pc = "create"
  /\ \/ \E n \in pending :
          /\ CreateFor(n)
          /\ cur' = <<n, gen[n] + 1>> /\ pending' = pending \ {n}
          /\ pc' = "start"
          /\ UNCHANGED <<op, todo, events, failed>>
     \/ /\ UNCHANGED <<app, gen>> \/ \E n \in pending : CreateFor(n)
        /\ Fails
  /\ UNCHANGED <<emu, shaped, memVars, ioVars, result>>

\* The daemon removes a container that it cannot start; one it was never
\* asked to start stays.
StartContainer ==
  /\ pc = "start"
  /\ \/ /\ app' = [app EXCEPT ![cur[1]] = "running"]
        /\ Loop("create", pending, "list")
        /\ UNCHANGED <<op, pending, todo, cur, events, failed>>
     \/ /\ \E s \in {"none", "created", "running"} :
             app' = [app EXCEPT ![cur[1]] = s]
        /\ Fails
  /\ UNCHANGED <<gen, emu, shaped, memVars, ioVars, result>>

\* What a list of the running containers leads to.
AfterList ==
  CASE op = "deploy"  -> pc' = "logs" /\ todo' = {} /\ UNCHANGED updated
    [] op = "execute" -> /\ todo' = containers' /\ Loop("monitor", todo', "logs")
                         /\ UNCHANGED updated
    [] op = "clean"   -> /\ todo' = containers'
                         /\ Loop("stop", todo', IF failed THEN "err" ELSE "ok")
                         /\ updated' = (updated \/ pc' = "ok")

\* refreshContainers, in the three operations that call it: an object that
\* is updated keeps the list it has.
RefreshContainers ==
  /\ pc = "list"
  /\ \/ /\ updated
        /\ UNCHANGED containers /\ AfterList
        /\ UNCHANGED <<op, pending, cur, events, failed>>
     \/ /\ ~updated
        /\ containers' = RunningIds /\ AfterList
        /\ UNCHANGED <<op, pending, cur, events, failed>>
     \/ ~updated /\ Fails /\ UNCHANGED <<updated, containers>>
  /\ UNCHANGED <<daemonVars, streamingLogs, ioVars, result>>

\* streamLogs, in Deploy and in Execute: tried once per object.
StreamLogs ==
  /\ pc = "logs"
  /\ streamingLogs' = TRUE
  /\ \/ /\ streamingLogs \/ \A i \in containers : Live(i)
        /\ pc' = IF op = "deploy" THEN "pullNetem" ELSE "execute"
        /\ UNCHANGED <<op, pending, todo, cur, events, failed, open>>
     \/ ~streamingLogs /\ Fails /\ CloseStreams
  /\ UNCHANGED <<daemonVars, updated, containers, stats, result>>

\* configureContainers: the events are received from here on.
PullNetem ==
  /\ pc = "pullNetem"
  /\ \/ /\ todo' = containers /\ events' = {}
        /\ Loop("configure", todo', "before")
        /\ UNCHANGED <<op, pending, cur, failed>>
     \/ Fails
  /\ UNCHANGED <<daemonVars, memVars, ioVars, result>>

CreateEmulator ==
  /\ pc = "configure"
  /\ \/ \E i \in todo :
          /\ emu' = [emu EXCEPT ![i] = "created"]
          /\ cur' = i /\ todo' = todo \ {i}
          /\ pc' = "cfgAttach"
          /\ UNCHANGED <<op, pending, events, failed>>
     \/ /\ emu' \in {emu} \cup {[emu EXCEPT ![i] = "created"] : i \in todo}
        /\ Fails
  /\ UNCHANGED <<app, gen, shaped, memVars, ioVars, result>>

AttachEmulator ==
  /\ pc = "cfgAttach"
  /\ \/ pc' = "cfgStart" /\ UNCHANGED <<op, pending, todo, cur, events, failed>>
     \/ Fails
  /\ UNCHANGED <<daemonVars, memVars, ioVars, result>>

\* It joins the network of a container that must be running.
StartEmulator ==
  /\ pc = "cfgStart"
  /\ \/ /\ Live(cur)
        /\ emu' = [emu EXCEPT ![cur] = "running"]
        /\ pc' = "cfgRules"
        /\ UNCHANGED <<op, pending, todo, cur, events, failed>>
     \/ /\ \E s \in {"none", "created"} \cup (IF Live(cur) THEN {"running"} ELSE {}) :
             emu' = [emu EXCEPT ![cur] = s]
        /\ Fails
  /\ UNCHANGED <<app, gen, shaped, memVars, ioVars, result>>

SendRules ==
  /\ pc = "cfgRules"
  /\ LET fed == [emu EXCEPT ![cur] = IF @ = "running" THEN "fed" ELSE @]
     IN  \/ /\ emu' = fed
            /\ pc' = "waitExec"
            /\ UNCHANGED <<op, pending, todo, cur, events, failed>>
         \/ emu' \in {emu, fed} /\ Fails
  /\ UNCHANGED <<app, gen, shaped, memVars, ioVars, result>>

\* Mutant: waitExec takes the end of any container for the one it waits for.
AnyDeath(e) == TRUE

\* The die event of the emulator that was started for cur.
OwnDeath(e) == e.from = "emu" /\ e.id = cur

\* waitExec; an error of the event stream or the ten seconds may come first.
WaitExec ==
  /\ pc = "waitExec"
  /\ \/ /\ \E e \in events : OwnDeath(e) /\ e.code = 0
        /\ Loop("configure", todo, "before")
        /\ UNCHANGED <<op, pending, todo, cur, events, failed>>
     \/ Fails
  /\ UNCHANGED <<daemonVars, memVars, ioVars, result>>

Before ==
  /\ pc = "before"
  /\ pc' \in {"ok", "err", "panic"}
  /\ updated' = (updated \/ pc' = "ok")
  /\ UNCHANGED <<daemonVars, streamingLogs, containers, ioVars, op, pending, todo, cur,
                 events, failed, result>>

-----------------------------------------------------------------------------
(* Execute: open a stats stream per container, follow the logs, run the    *)
(* round; the streams are closed on every way out.                         *)

MonitorContainer ==
  /\ pc = "monitor"
  /\ \/ \E i \in todo :
          /\ Live(i)
          /\ open' = open \cup {i}
          /\ todo' = todo \ {i}
          /\ Loop("monitor", todo', "logs")
          /\ UNCHANGED <<op, pending, cur, events, failed>>
     \/ Fails /\ CloseStreams
  /\ UNCHANGED <<daemonVars, memVars, stats, result>>

ExecuteRound ==
  /\ pc = "execute"
  /\ pc' \in {"after", "err", "panic"}
  /\ IF pc' = "after" THEN UNCHANGED open ELSE CloseStreams
  /\ UNCHANGED <<daemonVars, memVars, stats, op, pending, todo, cur, events, failed,
                 result>>

AfterRound ==
  /\ pc = "after"
  /\ pc' \in {"ok", "err", "panic"}
  /\ updated' = (updated \/ pc' = "ok")
  /\ CloseStreams
  /\ UNCHANGED <<daemonVars, streamingLogs, containers, stats, op, pending, todo, cur,
                 events, failed, result>>

-----------------------------------------------------------------------------
(* WriteStats and Clean.                                                   *)

\* The file is created, and emptied, before the statistics are encoded.
FetchStats ==
  /\ pc = "fetch"
  /\ \/ pc' = "ok" /\ result' = stats
     \/ pc' = "err" /\ result' \in {result, {}}
  /\ UNCHANGED <<daemonVars, memVars, ioVars, op, pending, todo, cur, events, failed>>

\* The loop goes on after an error and reports it at the end.
StopContainer ==
  /\ pc = "stop"
  /\ \E i \in todo :
       /\ todo' = todo \ {i}
       /\ \/ /\ Live(i)
             /\ app' = [app EXCEPT ![i[1]] = "none"]
             /\ failed' \in {failed, TRUE}
          \/ failed' = TRUE /\ UNCHANGED app
  /\ Loop("stop", todo', IF failed' THEN "err" ELSE "ok")
  /\ updated' = (updated \/ pc' = "ok")
  /\ UNCHANGED <<gen, emu, shaped, streamingLogs, containers, ioVars, op, pending, cur,
                 events, result>>

-----------------------------------------------------------------------------
Deploy == \/ PullImage \/ CreateContainer \/ StartContainer \/ PullNetem
          \/ CreateEmulator \/ AttachEmulator \/ StartEmulator \/ SendRules
          \/ WaitExec \/ Before

Execute == MonitorContainer \/ ExecuteRound \/ AfterRound

\* A step of the operation in progress.
Strategy == \/ Deploy \/ Execute \/ FetchStats \/ StopContainer
            \/ RefreshContainers \/ StreamLogs

Environment == \/ \E n \in Nodes : AppDies(n)
               \/ \E i \in Ids : EmuApplies(i) \/ EmuFails(i) \/ Sample(i)

\* The process is killed, or ends, and another one starts.
NewProcess == NewMemory /\ UNCHANGED <<daemonVars, result>>

\* A client that calls the operations of a Strategy in any order.
Next == (\E o \in Ops : Call(o)) \/ Strategy \/ Environment \/ NewProcess

Spec == Init /\ [][Next]_vars

-----------------------------------------------------------------------------
\* No stats stream outlives the call that opened it, whether it succeeds,
\* fails half-way through the containers or is left by a panic of the round.
StreamsClosed == pc \in Done => open = {}

\* The round is told of a deployment only when the emulator of each of its
\* containers has itself reported that the rules are applied.
RulesBeforeRound ==
  op = "deploy" /\ pc \in {"before", "ok"} => containers \subseteq shaped

\* A cleaning that reports no error has stopped every container of its list.
CleanStopsListed ==
  op = "clean" /\ pc = "ok" => \A i \in containers : ~Live(i)
=============================================================================
