------------------------ MODULE KubeSimulationProofs ------------------------
(***************************************************************************)
(* Simulation.Run over the Kubernetes strategy, for any topology, any      *)
(* command lines and any number of processes, and the tunnel for any       *)
(* client that starts it and stops it in that order.                       *)
(***************************************************************************)
EXTENDS KubeSimulation, SimulationProofs, FiniteSetTheorems

\* The program counter of the tunnel follows the call; the log has only new
\* messages from the moment it is emptied, and the only daemons are those that
\* were there before and, once it runs, the one of Start; the PID file is the
\* last daemon's.
TunPlace ==
  /\ top \in {"none", "start", "stop"}
  /\ top = "none" => tpc = "idle"
  /\ tpc \in {"log", "run", "poll"} => top = "start"
  /\ tpc = "kill" => top = "stop"

TunLog ==
  /\ top = "start" /\ tpc \in {"run", "poll"} => log \subseteq since
  /\ top = "start" /\ tpc \in {"log", "run"} => Alive \cup since \subseteq earlier
  /\ top = "start" /\ tpc = "poll" => Alive \cup since \subseteq earlier \cup {last}
  /\ NoStaleSuccess

TunDaemon ==
  /\ procs \in [Pids -> Daemon \cup {"none", "stranger"}]
  /\ pidFile \in Pids \cup {NoFile} /\ last = pidFile
  /\ StopClosesLast

TunInv == TunPlace /\ TunLog /\ TunDaemon

\* No tunnel has been started yet.
LEMMA TunInitInv == TunInit => TunInv
BY PidsAssumption
DEF TunInit, TunInv, TunPlace, TunLog, TunDaemon, NoStaleSuccess, StopClosesLast

\* Every step of the tunnel, of its client and of the daemons keeps TunInv.
LEMMA TunNextInv == TunInv /\ [TunNext]_tunVars => TunInv'
<1> SUFFICES ASSUME TunInv, [TunNext]_tunVars PROVE TunInv'
  OBVIOUS
<1> USE DEF TunInv, TunPlace, TunLog, TunDaemon, NoStaleSuccess, StopClosesLast, Alive
<1>1. CASE Caller
  BY <1>1 DEF Caller, CallStart, CallStop, Forget
<1>2. CASE CreateLog
  BY <1>2 DEF CreateLog, CreatedLog
<1>3. CASE RunCommand
  <2>1. ASSUME NEW p \in Pids, procs' = [procs EXCEPT ![p] = "connecting"]
        PROVE  /\ procs' \in [Pids -> Daemon \cup {"none", "stranger"}]
               /\ Alive' \subseteq Alive \cup {p}
    BY <2>1 DEF Daemon
  <2> HIDE DEF Alive
  <2> QED  BY <1>3, <2>1 DEF RunCommand, WritePid
<1>4. CASE FindMessage \/ TimesOut
  BY <1>4 DEF FindMessage, TimesOut
<1>5. CASE KillRecorded
  <2>1. CASE pidFile = NoFile
    BY <1>5, <2>1 DEF KillRecorded
  <2>2. CASE pidFile # NoFile
    BY <1>5, <2>2 DEF KillRecorded, Kill, Daemon
  <2> QED  BY <2>1, <2>2
<1>6. CASE System
  <2>1. PICK p \in Pids : Connect(p) \/ Exit(p) \/ Reuse(p)
    BY <1>6 DEF System
  <2>2. UNCHANGED <<top, tpc, pidFile, earlier, last>>
    BY <2>1 DEF Connect, Exit, Reuse
  <2>3. /\ procs' \in [Pids -> Daemon \cup {"none", "stranger"}]
        /\ \A q \in Pids : procs'[q] \in Daemon => procs[q] \in Daemon
    BY <2>1 DEF Connect, Exit, Reuse, Daemon
  <2>4. /\ tpc \in {"run", "poll"} /\ log \subseteq since => log' \subseteq since'
        /\ since \subseteq since' /\ since' \subseteq since \cup Alive
    BY <2>1 DEF Connect, Exit, Reuse
  <2> QED  BY <2>2, <2>3, <2>4
<1>7. CASE UNCHANGED tunVars
  BY <1>7 DEF tunVars
<1> QED  BY <1>1, <1>2, <1>3, <1>4, <1>5, <1>6, <1>7 DEF TunNext, Tunnelling

\* TunInv is an invariant of the tunnel.
LEMMA TunInvariance == TunSpec => []TunInv
BY TunInitInv, TunNextInv, PTL DEF TunSpec

-----------------------------------------------------------------------------
\* The steps of a call belong to its phase.
InPhase ==
  /\ pc \in {"create", "wait", "upload", "router", "waitrouter", "certs",
             "tunnel", "before"} => phase = "deploy"
  /\ pc \in {"round", "after"} => phase = "execute"
  /\ pc = "read" => phase = "stats"
  /\ pc \in {"stop", "delete"} => phase = "clean"
  /\ pc \in {"logs", "panic"} => phase \in {"deploy", "execute"}
  /\ pc = "fetch" => phase \in {"deploy", "execute", "stats"}
  /\ pc # "off" => phase \in Flags
  /\ phase = "off" => ~updated

\* How far a process has come with its tunnel.
TunnelPlace ==
  /\ top \in {"none", "start", "stop"}
  /\ top = "none" => tpc = "idle" /\ since = {} /\ earlier = {}
  /\ phase = "off" => top = "none"
  /\ pc \in {"create", "wait", "upload", "router", "waitrouter", "certs"}
       => top = "none"
  /\ phase = "deploy" /\ pc \in {"fetch", "logs"} => top = "none"
  /\ top = "start" => tpc \in {"ok", "err"} \/ pc = "tunnel"
  /\ top = "stop" => phase \in {"clean", "returned", "panicked"}
  /\ pc \in {"stop", "delete"} \/ (phase = "clean" /\ pc \in Outcomes)
       => top = "stop"
  /\ pc = "delete" \/ (pc = "ok" /\ phase = "clean") => tpc \in {"ok", "err"}

\* What the cluster has of the simulation.
Placed ==
  /\ deleting \subseteq objects \ {Service}
  /\ running \cup over \subseteq Nodes \cap objects

\* Nothing but a cleaning deletes a deployment, and nothing follows it.
AllDeployed == Nodes \subseteq objects \ deleting

Deployed ==
  /\ pc \in {"wait", "upload", "router", "waitrouter", "certs", "tunnel", "before"}
       => AllDeployed
  /\ phase = "deploy" /\ pc \in {"fetch", "logs"} => AllDeployed
  /\ phase = "execute" /\ pc \in {"logs", "round", "after"} /\ intact => AllDeployed
  /\ updated => AllDeployed \/ phase \in {"clean", "returned", "panicked"}

KInv == InPhase /\ TunnelPlace /\ Placed /\ Deployed /\ CallsType

\* As many pods as nodes, each of another node, are one of every node.
LEMMA IntactList ==
  ASSUME Placed, AllPods, over = {}, deleting = {}
  PROVE  AllDeployed
<1>1. running \subseteq Nodes /\ running \subseteq objects /\ IsFiniteSet(Nodes)
  BY KubeNamesAssumption DEF Placed
<1>2. IsFiniteSet(running)
  BY <1>1, FS_Subset
<1>3. Cardinality(running) = Cardinality(Nodes)
  <2>1. Cardinality(over) = 0
    BY FS_EmptySet
  <2>2. Cardinality(running) \in Nat
    BY <1>2, FS_CardinalityType
  <2> QED  BY <2>1, <2>2 DEF AllPods
<1>4. running = Nodes
  BY <1>1, <1>3, FS_Subset
<1> QED  BY <1>1, <1>4 DEF AllDeployed

\* What the next process or the next call starts with.
LEMMA EnterPhase ==
  ASSUME Enter
  PROVE  /\ phase' = "deploy" => pc' = "create"
         /\ phase' = "execute" => pc' = IF updated THEN "logs" ELSE "fetch"
         /\ phase' = "stats" => pc' = IF updated THEN "read" ELSE "fetch"
         /\ phase' = "clean" => pc' = "stop" /\ CallStop
         /\ phase' # "clean" => UNCHANGED tunVars
         /\ phase' \notin Flags => pc' = "off"
  BY DEF Enter, First, Flags

\* The invariant of the places holds of the first step of a call.
LEMMA EnterInv ==
  ASSUME Enter, InPhase, TunnelPlace, Deployed,
         UNCHANGED <<updated, intact, objects, deleting>>, phase' # "off",
         \/ phase = "off"
         \/ /\ phase \in Flags /\ pc \in Outcomes
            /\ phase' \in {"execute", "stats", "clean", "returned", "panicked"}
            /\ phase = "clean" => phase' \in {"returned", "panicked"}
  PROVE  InPhase' /\ TunnelPlace' /\ Deployed'
<1>1. /\ phase' = "deploy" => pc' = "create"
      /\ phase' = "execute" => pc' = IF updated THEN "logs" ELSE "fetch"
      /\ phase' = "stats" => pc' = IF updated THEN "read" ELSE "fetch"
      /\ phase' = "clean" => pc' = "stop" /\ CallStop
      /\ phase' # "clean" => UNCHANGED tunVars
      /\ phase' \notin Flags => pc' = "off"
  BY EnterPhase
<1>2. InPhase'
  BY <1>1 DEF InPhase, Flags
<1>3. TunnelPlace'
  BY <1>1 DEF TunnelPlace, tunVars, CallStop, Flags, Outcomes
<1>4. Deployed'
  BY <1>1 DEF Deployed, AllDeployed, Flags
<1> QED  BY <1>2, <1>3, <1>4

\* Within a call.
LEMMA StrategyInv ==
  ASSUME InPhase, TunnelPlace, Placed, Deployed, Strategy
  PROVE  InPhase' /\ TunnelPlace' /\ Placed' /\ Deployed'
<1> USE KubeNamesAssumption
    DEF InPhase, TunnelPlace, Placed, Deployed, AllDeployed, rest, simVars,
        tunVars, memVars, podVars, clusterVars, outVars, Fail, Flags, Outcomes
<1>1. CASE CreateDeployment
  BY <1>1 DEF CreateDeployment
<1>2. CASE FetchPods
  <2>1. AllPods /\ over = {} /\ deleting = {} => AllDeployed
    BY IntactList
  <2> QED  BY <1>2, <2>1 DEF FetchPods
<1>3. CASE StreamLogs
  BY <1>3 DEF StreamLogs
<1>4. CASE UploadConfig \/ WaitDeployment
  BY <1>4 DEF UploadConfig, WaitDeployment
<1>5. CASE DeployRouter
  BY <1>5 DEF DeployRouter
<1>6. CASE WaitRouter
  BY <1>6 DEF WaitRouter
<1>7. CASE FetchCertificates
  BY <1>7 DEF FetchCertificates, CallStart
<1>8. CASE TunnelStarted
  BY <1>8 DEF TunnelStarted
<1>9. CASE Before
  BY <1>9 DEF Before
<1>10. CASE ExecuteRound
  BY <1>10 DEF ExecuteRound
<1>11. CASE AfterRound
  BY <1>11 DEF AfterRound
<1>12. CASE FetchStats
  BY <1>12 DEF FetchStats
<1>13. CASE TunnelStopped
  BY <1>13 DEF TunnelStopped
<1>14. CASE Delete
  <2>1. /\ phase = "clean" /\ pc = "delete" /\ pc' \in {"ok", "err"}
        /\ UNCHANGED <<rest, memVars, tunVars>>
    BY <1>14 DEF Delete, DeleteAll
  <2>2. Placed'
    BY <1>14 DEF Delete, DeleteAll, Deployments
  <2> QED  BY <2>1, <2>2
<1> QED
  BY <1>1, <1>2, <1>3, <1>4, <1>5, <1>6, <1>7, <1>8, <1>9, <1>10, <1>11, <1>12,
     <1>13, <1>14
  DEF Strategy

\* What goes on around the calls.
LEMMA AroundInv ==
  ASSUME InPhase, TunnelPlace, Placed, Deployed, TunnelStep \/ World
  PROVE  /\ InPhase' /\ TunnelPlace' /\ Placed' /\ Deployed'
         /\ UNCHANGED simVars
<1> USE DEF InPhase, TunnelPlace, Placed, Deployed, AllDeployed, rest, simVars,
            tunVars, memVars, podVars, clusterVars, outVars
<1>1. CASE TunnelStep
  BY <1>1 DEF TunnelStep, Tunnelling, CreateLog, RunCommand, FindMessage,
              TimesOut, KillRecorded, Kill
<1>2. CASE Tick
  BY <1>2 DEF Tick
<1>3. ASSUME NEW n \in Nodes, StartPod(n) \/ EndPod(n) \/ RemovePod(n)
      PROVE  InPhase' /\ TunnelPlace' /\ Placed' /\ Deployed' /\ UNCHANGED simVars
  BY <1>3 DEF StartPod, EndPod, RemovePod
<1>4. ASSUME NEW d \in deleting, Vanish(d)
      PROVE  InPhase' /\ TunnelPlace' /\ Placed' /\ Deployed' /\ UNCHANGED simVars
  BY <1>4 DEF Vanish
<1>5. CASE System /\ UNCHANGED <<rest, pc, memVars, clusterVars, outVars>>
  BY <1>5 DEF System, Connect, Exit, Reuse
<1> QED  BY <1>1, <1>2, <1>3, <1>4, <1>5 DEF World, Cluster

\* Everything else.
LEMMA NextKInv == KInv /\ [KubeNext]_allVars => KInv'
<1> SUFFICES ASSUME KInv, [KubeNext]_allVars PROVE KInv'
  OBVIOUS
<1>0. InPhase /\ TunnelPlace /\ Placed /\ Deployed /\ CallsType
  BY DEF KInv
<1>1. ASSUME UNCHANGED calls PROVE CallsType'
  BY <1>0, <1>1 DEF CallsType
<1>2. ASSUME NEW line, StartRun(line) PROVE KInv'
  <2>1. /\ phase = "off" /\ Enter /\ calls' = <<>> /\ phase' # "off"
        /\ UNCHANGED <<updated, intact, objects, deleting, running, over>>
    BY <1>2, FirstPhase DEF StartRun, Run, Flags, memVars, clusterVars, podVars
  <2>2. InPhase' /\ TunnelPlace' /\ Deployed'
    BY <1>0, <2>1, EnterInv
  <2> QED  BY <1>0, <2>1, <2>2 DEF KInv, CallsType, Placed
<1>3. CASE EndCall
  <2> DEFINE e == [op |-> phase, out |-> pc]
  <2>1. /\ phase \in Flags /\ pc \in Outcomes /\ Enter
        /\ UNCHANGED <<updated, intact, objects, deleting, running, over>>
        /\ phase' \in {"execute", "stats", "clean", "returned", "panicked"}
        /\ phase = "clean" => phase' \in {"returned", "panicked"}
    BY <1>3, AfterCall DEF EndCall, memVars, clusterVars, podVars
  <2>2. InPhase' /\ TunnelPlace' /\ Deployed'
    BY <1>0, <2>1, EnterInv
  <2>3. e \in [op : Flags, out : Outcomes] /\ calls' = Append(calls, e)
    BY <1>3 DEF EndCall, Returns
  <2>4. CallsType'
    BY <1>0, <2>3, LastOfAppend DEF CallsType
  <2> QED  BY <1>0, <2>1, <2>2, <2>4 DEF KInv, Placed
<1>4. CASE EndProcess
  BY <1>4
  DEF EndProcess, NextProcess, NewStrategy, Forget, KInv, InPhase, TunnelPlace,
      Placed, Deployed, AllDeployed, CallsType, Flags, Outcomes, clusterVars, podVars
<1>5. CASE Strategy
  <2>1. UNCHANGED calls
    BY <1>5
    DEF Strategy, CreateDeployment, WaitDeployment, FetchPods, StreamLogs,
        UploadConfig, DeployRouter, WaitRouter, FetchCertificates, TunnelStarted,
        Before, ExecuteRound, AfterRound, FetchStats, TunnelStopped, Delete,
        rest, simVars
  <2> QED  BY <1>0, <1>1, <1>5, <2>1, StrategyInv DEF KInv
<1>6. CASE TunnelStep \/ World
  <2>1. InPhase' /\ TunnelPlace' /\ Placed' /\ Deployed' /\ UNCHANGED simVars
    BY <1>0, <1>6, AroundInv
  <2> QED  BY <1>1, <2>1 DEF KInv, simVars
<1>7. CASE UNCHANGED allVars
  BY <1>7
  DEF KInv, InPhase, TunnelPlace, Placed, Deployed, AllDeployed, CallsType,
      allVars, rest, simVars, memVars, podVars, clusterVars, outVars, tunVars
<1> QED
  BY <1>2, <1>3, <1>4, <1>5, <1>6, <1>7 DEF KubeNext

\* KInv is an invariant of the composition.
LEMMA KubeInvariance == KubeSpec => []KInv
<1>1. KubeInit => KInv
  BY DEF KubeInit, TunInit, SimInit, KInv, InPhase, TunnelPlace, Placed,
         Deployed, CallsType, Flags, Outcomes
<1> QED  BY <1>1, NextKInv, PTL DEF KubeSpec

-----------------------------------------------------------------------------
\* A simulation uses the tunnel as the client of TunSpec does: it is started
\* at most once in a process and stopped at most once, and never during Start.
THEOREM ImplementsTunnel == KubeSpec => TunSpec
<1>1. KubeInit => TunInit
  BY DEF KubeInit
<1>2. KInv /\ [KubeNext]_allVars => [TunNext]_tunVars
  <2> SUFFICES ASSUME KInv, [KubeNext]_allVars PROVE [TunNext]_tunVars
    OBVIOUS
  <2>0. InPhase /\ TunnelPlace
    BY DEF KInv
  <2>1. ASSUME NEW line, StartRun(line) PROVE [TunNext]_tunVars
    <3>1. phase = "off" /\ Enter
      BY <2>1 DEF StartRun, Run
    <3> QED  BY <2>0, <3>1, EnterPhase DEF TunnelPlace, TunNext, Caller
  <2>2. CASE EndCall
    <3>1. /\ phase \in Flags /\ pc \in Outcomes /\ Enter
          /\ phase = "clean" => phase' \in {"returned", "panicked"}
      BY <2>2, AfterCall DEF EndCall
    <3>2. CASE phase' = "clean"
      <4>1. top \in {"none", "start"} /\ CallStop
        BY <2>0, <3>1, <3>2, EnterPhase DEF TunnelPlace, Flags
      <4>2. top = "start" => tpc \in {"ok", "err"}
        BY <2>0, <3>1 DEF TunnelPlace, Outcomes
      <4> QED  BY <4>1, <4>2 DEF TunNext, Caller
    <3>3. CASE phase' # "clean"
      BY <3>1, <3>3, EnterPhase
    <3> QED  BY <3>2, <3>3
  <2>3. CASE EndProcess
    <3>1. Forget
      BY <2>3 DEF EndProcess
    <3>2. CASE top = "none"
      BY <2>0, <3>1, <3>2 DEF TunnelPlace, Forget, tunVars
    <3>3. CASE top # "none"
      BY <3>1, <3>3 DEF TunNext, Caller
    <3> QED  BY <3>2, <3>3
  <2>4. CASE Strategy
    <3>1. CASE FetchCertificates
      BY <2>0, <3>1 DEF FetchCertificates, TunnelPlace, TunNext, Caller
    <3>2. CASE ~FetchCertificates
      BY <2>4, <3>2
      DEF Strategy, CreateDeployment, WaitDeployment, FetchPods, StreamLogs,
          UploadConfig, DeployRouter, WaitRouter, TunnelStarted, Before, ExecuteRound,
          AfterRound, FetchStats, TunnelStopped, Delete
    <3> QED  BY <3>1, <3>2
  <2>5. CASE TunnelStep \/ World
    BY <2>5
    DEF TunnelStep, World, Tick, Cluster, StartPod, EndPod, RemovePod, Vanish, TunNext
  <2>6. CASE UNCHANGED allVars
    BY <2>6 DEF allVars
  <2> QED  BY <2>1, <2>2, <2>3, <2>4, <2>5, <2>6 DEF KubeNext
<1> QED  BY <1>1, <1>2, KubeInvariance, PTL DEF KubeSpec, TunSpec

\* It runs the phases as Simulation.Run does over a strategy of which only the
\* outcomes of the calls are known.
THEOREM ImplementsRun == KubeSpec => SimSpec
<1>1. KubeInit => SimInit
  BY DEF KubeInit
<1>2. KInv /\ [KubeNext]_allVars => [SimNext]_simVars
  <2> SUFFICES ASSUME KInv, [KubeNext]_allVars PROVE [SimNext]_simVars
    OBVIOUS
  <2>0. InPhase /\ TunnelPlace /\ Placed /\ Deployed
    BY DEF KInv
  <2>1. ASSUME NEW k \in 0 .. MaxArgs, NEW line \in [1 .. k -> Args], StartRun(line)
        PROVE  SimNext
    <3>1. line \in BoundedSeq(Args, MaxArgs)
      BY DEF BoundedSeq, SeqOf
    <3> QED  BY <2>1, <3>1 DEF StartRun, SimNext
  <2>2. CASE EndCall
    <3>1. pc = "panic" => RunsRound(phase)
      BY <2>0 DEF InPhase, RunsRound
    <3> QED  BY <2>2, <3>1 DEF EndCall, Outcomes, SimNext
  <2>3. CASE EndProcess
    BY <2>3 DEF EndProcess, SimNext
  <2>4. CASE Strategy
    BY <2>4
    DEF Strategy, CreateDeployment, WaitDeployment, FetchPods, StreamLogs,
        UploadConfig, DeployRouter, WaitRouter, FetchCertificates, TunnelStarted,
        Before, ExecuteRound, AfterRound, FetchStats, TunnelStopped, Delete, rest
  <2>5. CASE TunnelStep \/ World
    BY <2>0, <2>5, AroundInv DEF simVars
  <2>6. CASE UNCHANGED allVars
    BY <2>6 DEF allVars, rest
  <2> QED  BY <2>1, <2>2, <2>3, <2>4, <2>5, <2>6 DEF KubeNext
<1> QED  BY <1>1, <1>2, KubeInvariance, PTL DEF KubeSpec, SimSpec

\* Whatever becomes of the daemons, Start does not succeed on what an earlier
\* tunnel has left in the log: its own daemon has completed its initialization
\* since, or one that an earlier process has left alive has done so again.
THEOREM TunnelIsNew == KubeSpec => []NoStaleSuccess
<1>1. TunInv => NoStaleSuccess
  BY DEF TunInv, TunLog
<1> QED  BY <1>1, ImplementsTunnel, TunInvariance, PTL

\* A Stop without an error has closed the last tunnel, whichever process
\* started it.
THEOREM TunnelIsClosed == KubeSpec => []StopClosesLast
<1>1. TunInv => StopClosesLast
  BY DEF TunInv, TunDaemon
<1> QED  BY <1>1, ImplementsTunnel, TunInvariance, PTL

\* A round finds the deployments of all the nodes when its own process has
\* deployed them, or when it has listed pods that ran while none was being
\* deleted, after any number of processes that failed or were interrupted.
THEOREM RoundHasNodes == KubeSpec => []RunsOnDeployment
<1>1. KInv => RunsOnDeployment
  BY DEF KInv, InPhase, Deployed, AllDeployed, RunsOnDeployment
<1> QED  BY <1>1, KubeInvariance, PTL

-----------------------------------------------------------------------------
\* Every step of the tunnel keeps the types of its variables.
LEMMA TunNextTypes == TunTypeOK /\ [TunNext]_tunVars => TunTypeOK'
<1> SUFFICES ASSUME TunTypeOK, [TunNext]_tunVars PROVE TunTypeOK'
  OBVIOUS
<1> USE DEF TunTypeOK
<1>1. CASE Caller
  BY <1>1 DEF Caller, CallStart, CallStop, Forget, Alive
<1>2. CASE CreateLog
  BY <1>2 DEF CreateLog, CreatedLog
<1>3. CASE RunCommand
  BY <1>3 DEF RunCommand, WritePid, Daemon
<1>4. CASE FindMessage \/ TimesOut
  BY <1>4 DEF FindMessage, TimesOut
<1>5. CASE KillRecorded
  BY <1>5 DEF KillRecorded, Kill
<1>6. CASE System
  <2>1. PICK p \in Pids : Connect(p) \/ Exit(p) \/ Reuse(p)
    BY <1>6 DEF System
  <2> QED  BY <2>1 DEF Connect, Exit, Reuse, Daemon
<1>7. CASE UNCHANGED tunVars
  BY <1>7 DEF tunVars
<1> QED  BY <1>1, <1>2, <1>3, <1>4, <1>5, <1>6, <1>7 DEF TunNext, Tunnelling

\* The tunnel keeps its types, whoever its client is.
LEMMA TunTypes == TunSpec => []TunTypeOK
<1>1. TunInit => TunTypeOK
  BY DEF TunInit, TunTypeOK
<1> QED  BY <1>1, TunNextTypes, PTL DEF TunSpec

\* The variables of the strategy and of the cluster.  The times of a round
\* that has begun are those of the clock.
StrategyTypes ==
  /\ runs \in 0 .. MaxRuns
  /\ pc \in Steps \cup Outcomes \cup {"off"}
  /\ updated \in BOOLEAN /\ streaming \in BOOLEAN /\ intact \in BOOLEAN
  /\ known \subseteq Nodes /\ objects \subseteq Names
  /\ from \in Times \cup {0, Never} /\ to \in Times \cup {0, Never}
  /\ pc \in {"round", "after"} => from \in Times
  /\ pc = "after" => to \in Times
  /\ clock \in Times
  /\ data \in [Nodes -> SUBSET Times] /\ file \in [Nodes -> SUBSET Times]
  /\ cut \in BOOLEAN
  /\ rounds \in Seq(Times \X Times)

\* They are right at first.
LEMMA InitTypes == KubeInit => StrategyTypes
<1>1. 1 \in Times /\ 0 \in 0 .. MaxRuns
  BY KubeBoundsAssumption DEF Times
<1>2. KubeInit => rounds \in Seq(Times \X Times)
  BY DEF KubeInit
<1> QED  BY <1>1, <1>2 DEF KubeInit, StrategyTypes

\* Every step of a call keeps them.
LEMMA StrategyTypesStep ==
  ASSUME StrategyTypes, TunnelPlace, Placed, Strategy
  PROVE  StrategyTypes'
<1> USE KubeBoundsAssumption
    DEF StrategyTypes, Steps, Outcomes, Names, rest, simVars, memVars, podVars,
        clusterVars, outVars, Fail
<1>1. CASE CreateDeployment
  BY <1>1 DEF CreateDeployment
<1>2. CASE FetchPods
  BY <1>2 DEF FetchPods, WholeWindow, Times, Placed
<1>3. CASE StreamLogs
  BY <1>3 DEF StreamLogs
<1>4. CASE UploadConfig \/ WaitDeployment
  BY <1>4 DEF UploadConfig, WaitDeployment
<1>5. CASE DeployRouter \/ WaitRouter
  BY <1>5 DEF DeployRouter, WaitRouter
<1>6. CASE FetchCertificates \/ TunnelStarted
  BY <1>6 DEF FetchCertificates, TunnelStarted
<1>7. CASE Before
  BY <1>7 DEF Before
<1>8. CASE ExecuteRound
  BY <1>8 DEF ExecuteRound
<1>9. CASE AfterRound
  <2>1. pc = "after" /\ pc' \in Outcomes /\ UNCHANGED <<file, cut>>
    BY <1>9 DEF AfterRound
  <2>2. rounds' \in Seq(Times \X Times)
    <3>1. <<from, to>> \in Times \X Times
      BY <2>1
    <3>2. rounds' = rounds \/ rounds' = Append(rounds, <<from, to>>)
      BY <1>9 DEF AfterRound
    <3> QED  BY SMTT(60), <3>1, <3>2
  <2> QED  BY <1>9, <2>1, <2>2 DEF AfterRound
<1>10. CASE FetchStats
  <2>1. /\ pc' \in {"ok", "err"} /\ cut' \in BOOLEAN
        /\ UNCHANGED <<rest, memVars, clusterVars, rounds>>
    BY <1>10 DEF FetchStats
  <2>2. file' \in [Nodes -> SUBSET Times]
    <3>1. CASE pc' = "err"
      BY <1>10, <3>1 DEF FetchStats
    <3>2. CASE pc' = "ok"
      <4>1. PICK end \in [Nodes -> 0 .. MaxTime] :
              file' = [n \in Nodes |->
                 {t \in [m \in Nodes |-> IF m \in known
                           THEN data[m] \cap 0 .. end[m] ELSE {}][n] : InWindow(t)}]
        BY <1>10, <3>2, Zenon DEF FetchStats, Fail
      <4> QED  BY <4>1
    <3> QED  BY <2>1, <3>1, <3>2
  <2> QED  BY <2>1, <2>2
<1>11. CASE TunnelStopped
  BY <1>11 DEF TunnelStopped
<1>12. CASE Delete
  <2>1. objects' \subseteq Names
    BY <1>12 DEF Delete, DeleteAll, Deployments
  <2>2. pc' \in Outcomes
    BY <1>12 DEF Delete, DeleteAll, TunnelPlace
  <2> QED  BY <1>12, <2>1, <2>2 DEF Delete
<1> QED
  BY <1>1, <1>2, <1>3, <1>4, <1>5, <1>6, <1>7, <1>8, <1>9, <1>10, <1>11, <1>12
  DEF Strategy

\* So does every step of the composition.
LEMMA NextTypes == KInv /\ StrategyTypes /\ [KubeNext]_allVars => StrategyTypes'
<1> SUFFICES ASSUME KInv, StrategyTypes, [KubeNext]_allVars PROVE StrategyTypes'
  OBVIOUS
<1>0. TunnelPlace /\ Placed
  BY DEF KInv
<1> USE KubeBoundsAssumption
    DEF StrategyTypes, Steps, Outcomes, rest, simVars, memVars, podVars,
        clusterVars, outVars
<1>2. ASSUME NEW line, StartRun(line) PROVE StrategyTypes'
  <2>1. runs' \in 0 .. MaxRuns
    BY <1>2 DEF StartRun
  <2>2. pc' \in Steps \cup {"off"} /\ pc' \notin {"round", "after"}
    BY <1>2 DEF StartRun, Enter, First
  <2> QED  BY <1>2, <2>1, <2>2 DEF StartRun
<1>3. CASE EndCall
  <2>1. pc' \in Steps \cup {"off"} /\ pc' \notin {"round", "after"}
    BY <1>3 DEF EndCall, Enter, First
  <2> QED  BY <1>3, <2>1 DEF EndCall
<1>4. CASE EndProcess
  BY <1>4 DEF EndProcess, NewStrategy
<1>5. CASE TunnelStep
  BY <1>5 DEF TunnelStep
<1>6. CASE Strategy
  BY <1>0, <1>6, StrategyTypesStep
<1>7. CASE Tick
  <2>1. clock' \in Times
    BY <1>7 DEF Tick, Times
  <2>2. data' \in [Nodes -> SUBSET Times]
    BY <1>7, <2>1 DEF Tick
  <2> QED  BY <1>7, <2>1, <2>2 DEF Tick
<1>8. CASE Cluster
  <2>1. ASSUME NEW n \in Nodes, StartPod(n) \/ EndPod(n) \/ RemovePod(n)
        PROVE  StrategyTypes'
    BY <2>1 DEF StartPod, EndPod, RemovePod
  <2>2. ASSUME NEW d \in deleting, Vanish(d) PROVE StrategyTypes'
    <3>1. data' \in [Nodes -> SUBSET Times]
      BY <2>2 DEF Vanish
    <3> QED  BY <2>2, <3>1 DEF Vanish
  <2> QED  BY <1>8, <2>1, <2>2 DEF Cluster
<1>9. CASE System /\ UNCHANGED <<rest, pc, memVars, clusterVars, outVars>>
  BY <1>9
<1>10. CASE UNCHANGED allVars
  BY <1>10 DEF allVars
<1> QED
  BY <1>2, <1>3, <1>4, <1>5, <1>6, <1>7, <1>8, <1>9, <1>10 DEF KubeNext, World

\* All the variables of the composition keep their types, whatever fails, for
\* any number of processes.
THEOREM KubeTypeCorrect == KubeSpec => []KubeTypeOK
<1>1. TunTypeOK /\ SimTypeOK /\ StrategyTypes /\ KInv => KubeTypeOK
  BY DEF StrategyTypes, KInv, Placed, KubeTypeOK
<1> QED
  BY <1>1, InitTypes, NextTypes, KubeInvariance, ImplementsTunnel, TunTypes,
     ImplementsRun, SimTypeCorrect, PTL DEF KubeSpec

-----------------------------------------------------------------------------
\* Nothing has a time that is still to come.
Clocked ==
  /\ \A n \in Nodes : \A t \in data[n] : t <= clock
  /\ rounds # <<>> => LastRound[2] <= clock
  /\ pc = "after" => to <= clock

\* All the samples are later than the last round: they are of monitors that
\* this process has created.
Fresh == rounds # <<>> => \A n \in Nodes : \A t \in data[n] : LastRound[2] < t

\* The window of a process that has deployed: the last round if it executed
\* one itself, and otherwise nothing.
Opened ==
  \/ Fresh /\ from = Never /\ to = Never
  \/ rounds # <<>> /\ from = LastRound[1] /\ to = LastRound[2]

\* The window of one that has not: everything until the statistics.
Whole == from = 0 /\ (rounds # <<>> => LastRound[2] <= to)

\* What StatsCoverRound says of the files.
Covered ==
  rounds # <<>> =>
    \A n \in Nodes :
      /\ ~cut => {t \in data[n] : InRound(LastRound, t)} \subseteq file[n]
      /\ updated => \A t \in file[n] : InRound(LastRound, t)

\* How the window comes about from the calls.
Windows ==
  /\ phase \in {"off", "deploy"} => from = Never /\ to = Never
  /\ phase = "deploy" /\ pc \notin {"create", "err", "panic"} => Fresh
  /\ phase = "deploy" => (updated <=> pc = "ok")
  /\ pc = "fetch" => ~updated
  /\ phase = "execute" /\ pc = "ok" => Opened
  /\ pc = "read" => IF updated THEN Opened ELSE Whole
  /\ phase = "stats" /\ pc = "ok" => Covered
  /\ LastCall("stats", "ok") => Covered /\ phase \in {"clean", "returned", "panicked"}

\* There are samples only in pods that run.
Held == \A n \in Nodes : data[n] # {} => n \in running

WInv == Clocked /\ Held /\ Windows

\* The statistics follow a call that succeeded, and only a cleaning follows them.
LEMMA AroundStats ==
  ASSUME NEW out, Returns(out)
  PROVE  /\ phase' = "stats" => out = "ok"
         /\ phase = "stats" => phase' \in {"clean", "returned", "panicked"}
<1> DEFINE done == IF \E c \in ToSet(calls') : c.out = "panic" THEN "panicked"
                                                               ELSE "returned"
<1>1. phase \in Flags /\ phase' = PhaseAfter(out, done)
  BY DEF Returns
<1>2. phase' = "stats" => out = "ok"
  BY <1>1 DEF PhaseAfter
<1>3. ASSUME phase = "stats", out = "ok"
      PROVE  phase' \in {"clean", "returned", "panicked"}
  <2>1. phase' = Following(args, 3)
    BY <1>1, <1>3, Positions DEF PhaseAfter
  <2>2. \A k \in 3 + 1 .. 4 : k = 4
    OBVIOUS
  <2>3. Phases[4] = "clean"
    BY DEF Phases
  <2> QED  BY <2>1, <2>2, <2>3, FollowingPhase
<1>4. phase = "stats" /\ out # "ok" => phase' \in {"clean", "returned", "panicked"}
  BY <1>1 DEF PhaseAfter
<1> QED  BY <1>2, <1>3, <1>4

\* Samples that disappear, and new ones, change nothing of what was written of
\* the last round.
LEMMA SamplesInv ==
  ASSUME StrategyTypes, WInv,
         UNCHANGED <<phase, pc, calls, updated, from, to, rounds, file, cut>>,
         clock' \in Times, clock <= clock',
         data' \in [Nodes -> SUBSET Times], Held',
         \A n \in Nodes : \A t \in data'[n] : t \in data[n] \/ (clock < t /\ t <= clock')
  PROVE  WInv'
<1> USE DEF StrategyTypes, Times, WInv
<1>0. rounds # <<>> => LastRound \in Times \X Times
  BY ElementOfSeq DEF LastRound
<1>1. LastRound' = LastRound
  BY DEF LastRound
<1>2. Clocked'
  BY <1>0, <1>1 DEF Clocked
<1>3. Fresh => Fresh'
  BY <1>0, <1>1 DEF Clocked, Fresh
<1>4. Opened => Opened'
  BY <1>1, <1>3 DEF Opened
<1>5. Whole => Whole'
  BY <1>1 DEF Whole
<1>6. Covered => Covered'
  <2> SUFFICES ASSUME Covered, rounds # <<>>, NEW n \in Nodes
               PROVE  /\ ~cut => {t \in data'[n] : InRound(LastRound, t)} \subseteq file[n]
                      /\ updated => \A t \in file[n] : InRound(LastRound, t)
    BY <1>1 DEF Covered, InRound
  <2>1. \A t \in data'[n] : InRound(LastRound, t) => t \in data[n]
    BY <1>0 DEF Clocked, InRound
  <2> QED  BY <2>1 DEF Covered
<1>7. LastCall("stats", "ok")' = LastCall("stats", "ok")
  BY DEF LastCall
<1> QED  BY <1>2, <1>3, <1>4, <1>5, <1>6, <1>7 DEF Windows

\* A step that goes on with the same call.
LEMMA SameWindowInv ==
  ASSUME WInv,
         UNCHANGED <<phase, calls, updated, from, to, rounds, file, cut>>,
         UNCHANGED <<data, clock>>, Held',
         pc' \notin {"after", "read"}, phase # "deploy" => pc' # "fetch",
         phase = "deploy" => pc \notin {"create"} \cup Outcomes /\ pc' # "ok",
         phase \in {"execute", "stats"} => pc' # "ok"
  PROVE  WInv'
<1>1. /\ Fresh' = Fresh /\ Opened' = Opened /\ Covered' = Covered
      /\ LastCall("stats", "ok")' = LastCall("stats", "ok")
  BY DEF Fresh, Opened, Covered, LastRound, LastCall, InRound
<1>2. Clocked'
  BY DEF WInv, Clocked, LastRound
<1> QED  BY <1>1, <1>2 DEF WInv, Windows, Outcomes

\* Within a call.
LEMMA WindowStep ==
  ASSUME InPhase, TunnelPlace, Placed, StrategyTypes, WInv, Strategy
  PROVE  WInv'
<1> USE DEF rest, simVars, memVars, podVars, clusterVars, outVars, Fail
<1>0. rounds # <<>> => LastRound \in Times \X Times
  BY ElementOfSeq DEF LastRound, StrategyTypes
<1>h. Held'
  <2>1. UNCHANGED <<data, running>>
    BY DEF Strategy, CreateDeployment, WaitDeployment, FetchPods, StreamLogs,
           UploadConfig, DeployRouter, WaitRouter, FetchCertificates,
           TunnelStarted, Before, ExecuteRound, AfterRound, FetchStats,
           TunnelStopped, Delete
  <2> QED  BY <2>1 DEF WInv, Held
<1>1. CASE CreateDeployment
  <2>1. phase = "deploy" /\ pc = "create" /\ pc' \in {"wait", "err"}
    BY <1>1 DEF CreateDeployment, InPhase
  <2>2. UNCHANGED <<phase, calls, updated, from, to, rounds, file, cut, data, clock>>
    BY <1>1 DEF CreateDeployment
  <2>3. Clocked'
    BY <2>1, <2>2 DEF WInv, Clocked, LastRound
  <2>4. pc' = "wait" => Fresh'
    <3>1. pc' = "wait" => \A n \in Nodes : n \notin running
      BY <1>1 DEF CreateDeployment, Placed
    <3>2. pc' = "wait" => \A n \in Nodes : data[n] = {}
      BY <3>1 DEF WInv, Held
    <3> QED  BY <2>2, <3>2 DEF Fresh
  <2>5. ~LastCall("stats", "ok")'
    BY <2>1, <2>2 DEF WInv, Windows, LastCall
  <2> QED  BY <1>h, <2>1, <2>2, <2>3, <2>4, <2>5 DEF WInv, Windows
<1>2. CASE FetchPods
  <2>1. CASE phase = "stats" /\ pc' = "read"
    <3>1. from' = 0 /\ to' = clock
      BY <1>2, <2>1 DEF FetchPods, WholeWindow
    <3>2. ~updated
      BY <1>2, <2>1 DEF FetchPods, Windows, WInv
    <3>3. UNCHANGED <<phase, calls, updated, data, clock, rounds, file, cut>>
      BY <1>2 DEF FetchPods
    <3>4. Clocked'
      BY <2>1, <3>3 DEF WInv, Clocked, LastRound
    <3>5. Whole'
      BY <3>1, <3>3 DEF WInv, Clocked, Whole, LastRound
    <3>6. LastCall("stats", "ok")' = LastCall("stats", "ok")
      BY <3>3 DEF LastCall
    <3> QED  BY <1>h, <2>1, <3>2, <3>3, <3>4, <3>5, <3>6 DEF WInv, Windows
  <2>2. CASE ~(phase = "stats" /\ pc' = "read")
    <3>1. /\ UNCHANGED <<phase, calls, updated, from, to, rounds, file, cut, data, clock>>
          /\ pc' \in {"logs", "err"}
      BY <1>2, <2>2 DEF FetchPods, WholeWindow
    <3> QED  BY <1>2, <3>1, SameWindowInv, <1>h DEF FetchPods, Outcomes
  <2> QED  BY <2>1, <2>2
<1>3. CASE StreamLogs
  <2>1. CASE phase = "deploy" \/ pc' = "err"
    <3>1. /\ UNCHANGED <<phase, calls, updated, from, to, rounds, file, cut, data, clock>>
          /\ pc' \in {"upload", "round", "err"} /\ pc = "logs"
      BY <1>3, <2>1 DEF StreamLogs
    <3> QED  BY <3>1, SameWindowInv, <1>h DEF Outcomes
  <2>2. CASE phase # "deploy" /\ pc' # "err"
    <3>1. phase = "execute" /\ pc' = "round"
      BY <1>3, <2>2 DEF StreamLogs, InPhase
    <3>2. UNCHANGED <<phase, calls, updated, data, clock, rounds, file, cut>>
      BY <1>3 DEF StreamLogs
    <3>3. Clocked'
      BY <3>1, <3>2 DEF WInv, Clocked, LastRound
    <3>4. ~LastCall("stats", "ok")'
      BY <3>1, <3>2 DEF WInv, Windows, LastCall
    <3> QED  BY <1>h, <3>1, <3>2, <3>3, <3>4 DEF WInv, Windows
  <2> QED  BY <2>1, <2>2
<1>4. CASE UploadConfig \/ WaitDeployment
  BY <1>4, SameWindowInv, <1>h DEF UploadConfig, WaitDeployment, InPhase, Outcomes
<1>5. CASE DeployRouter
  BY <1>5, SameWindowInv, <1>h DEF DeployRouter, InPhase, Outcomes
<1>6. CASE WaitRouter
  BY <1>6, SameWindowInv, <1>h DEF WaitRouter, InPhase, Outcomes
<1>7. CASE FetchCertificates
  BY <1>7, SameWindowInv, <1>h DEF FetchCertificates, InPhase, Outcomes
<1>8. CASE TunnelStarted
  BY <1>8, SameWindowInv, <1>h DEF TunnelStarted, InPhase, Outcomes
<1>9. CASE Before
  <2>1. /\ phase = "deploy" /\ pc' \in {"ok", "err", "panic"}
        /\ updated' = (updated \/ pc' = "ok")
        /\ UNCHANGED <<phase, calls, from, to, data, clock, rounds, file, cut>>
    BY <1>9 DEF Before, InPhase, StrategyTypes, WInv, Windows
  <2>2. Fresh' /\ Clocked'
    BY <1>9, <2>1 DEF WInv, Clocked, Windows, Fresh, LastRound, Before
  <2>3. ~LastCall("stats", "ok")' /\ ~updated
    BY <1>9, <2>1 DEF WInv, Windows, LastCall, Before
  <2> QED  BY <1>h, <2>1, <2>2, <2>3 DEF WInv, Windows
<1>10. CASE ExecuteRound
  <2>1. /\ phase = "execute" /\ pc' \in {"after", "err", "panic"}
        /\ UNCHANGED <<phase, calls, updated, from, data, clock, rounds, file, cut>>
        /\ pc' = "after" => to' = clock
    BY <1>10 DEF ExecuteRound, InPhase
  <2>2. Clocked'
    BY <2>1 DEF WInv, Clocked, LastRound, StrategyTypes, Times
  <2>3. ~LastCall("stats", "ok")'
    BY <2>1 DEF WInv, Windows, LastCall
  <2> QED  BY <1>h, <2>1, <2>2, <2>3 DEF WInv, Windows
<1>11. CASE AfterRound
  <2>1. /\ phase = "execute" /\ pc = "after" /\ pc' \in {"ok", "err", "panic"}
        /\ UNCHANGED <<phase, calls, updated, from, to, data, clock, file, cut>>
    BY <1>11 DEF AfterRound, InPhase
  <2>2. ~LastCall("stats", "ok")'
    BY <2>1 DEF WInv, Windows, LastCall
  <2>3. CASE pc' = "ok"
    <3>1. rounds' = Append(rounds, <<from, to>>) /\ <<from, to>> \in Times \X Times
      BY <1>11, <2>1, <2>3 DEF AfterRound, StrategyTypes
    <3>2. rounds' # <<>> /\ LastRound' = <<from, to>>
      BY <3>1, LastOfAppend DEF LastRound, StrategyTypes
    <3>3. Opened' /\ Clocked'
      BY <2>1, <2>3, <3>2 DEF Opened, WInv, Clocked
    <3> QED  BY <1>h, <2>1, <2>2, <2>3, <3>3 DEF WInv, Windows
  <2>4. CASE pc' # "ok"
    <3>1. UNCHANGED rounds
      BY <1>11, <2>4 DEF AfterRound
    <3>2. Clocked'
      BY <2>1, <3>1 DEF WInv, Clocked, LastRound
    <3> QED  BY <1>h, <2>1, <2>2, <2>4, <3>2 DEF WInv, Windows
  <2> QED  BY <2>3, <2>4
<1>12. CASE FetchStats
  <2>1. /\ phase = "stats" /\ pc = "read" /\ pc' \in {"ok", "err"}
        /\ UNCHANGED <<phase, calls, updated, from, to, data, clock, rounds>>
    BY <1>12 DEF FetchStats, InPhase
  <2>2. Clocked'
    BY <2>1 DEF WInv, Clocked, LastRound
  <2>3. ~LastCall("stats", "ok")'
    BY <2>1 DEF WInv, Windows, LastCall
  <2>4. pc' = "ok" => Covered'
    <3> SUFFICES ASSUME pc' = "ok", rounds # <<>>, NEW n \in Nodes
                 PROVE  /\ ~cut' => {t \in data[n] : InRound(LastRound, t)} \subseteq file'[n]
                        /\ updated => \A t \in file'[n] : InRound(LastRound, t)
      BY <2>1 DEF Covered, LastRound, InRound
    <3>1. \E end \in [Nodes -> 0 .. MaxTime] :
             LET read == [m \in Nodes |-> IF m \in known THEN data[m] \cap 0 .. end[m]
                                                         ELSE {}]
             IN  /\ file' = [m \in Nodes |-> {t \in read[m] : InWindow(t)}]
                 /\ cut' = (read # data)
      BY <1>12 DEF FetchStats
    <3>2. PICK read : /\ \A m \in Nodes : read[m] \subseteq data[m]
                      /\ file' = [m \in Nodes |-> {t \in read[m] : InWindow(t)}]
                      /\ cut' = (read # data)
      BY <3>1
    <3>3. file'[n] = {t \in read[n] : InWindow(t)}
      BY <3>2
    <3>4. IF updated THEN Opened ELSE Whole
      BY <2>1 DEF WInv, Windows
    <3>5. \A t \in data[n] : t \in Times /\ t \in Int /\ t >= 1
      BY DEF StrategyTypes, Times
    <3>6. \A t \in data[n] : InRound(LastRound, t) => InWindow(t)
      <4>1. LastRound[2] \in Times /\ to \in Int
        BY <1>0 DEF StrategyTypes, Times, Never
      <4>2. CASE Whole
        BY <3>5, <4>1, <4>2 DEF Whole, InRound, InWindow, Times
      <4>3. CASE Opened
        BY <3>5, <4>1, <4>3 DEF Opened, Fresh, InRound, InWindow, Times
      <4> QED  BY <3>4, <4>2, <4>3
    <3>7. updated => \A t \in data[n] : InWindow(t) => InRound(LastRound, t)
      BY <1>0, <3>4, <3>5 DEF Opened, InRound, InWindow, Times, Never
    <3> QED  BY <3>2, <3>3, <3>6, <3>7
  <2> QED  BY <1>h, <2>1, <2>2, <2>3, <2>4 DEF WInv, Windows
<1>13. CASE TunnelStopped
  BY <1>13, SameWindowInv, <1>h DEF TunnelStopped, InPhase, Outcomes
<1>14. CASE Delete
  <2>1. /\ phase = "clean" /\ pc' \in Outcomes
        /\ UNCHANGED <<phase, calls, updated, from, to, rounds, file, cut, data, clock>>
    BY <1>14 DEF Delete, DeleteAll, InPhase, TunnelPlace, Outcomes
  <2> QED  BY <1>h, <2>1, SameWindowInv DEF Outcomes
<1> QED
  BY <1>1, <1>2, <1>3, <1>4, <1>5, <1>6, <1>7, <1>8, <1>9, <1>10, <1>11, <1>12,
     <1>13, <1>14
  DEF Strategy

\* Every step of the composition.
LEMMA WindowNext ==
  KInv /\ StrategyTypes /\ WInv /\ [KubeNext]_allVars => WInv'
<1> SUFFICES ASSUME KInv, StrategyTypes, WInv, [KubeNext]_allVars PROVE WInv'
  OBVIOUS
<1>0. InPhase /\ TunnelPlace /\ Placed /\ CallsType
  BY DEF KInv
<1>t. StrategyTypes'
  BY NextTypes
<1>h. ASSUME UNCHANGED clusterVars PROVE Held'
  BY <1>h DEF WInv, Held, clusterVars, podVars
<1>1. ASSUME NEW line, StartRun(line) PROVE WInv'
  <2>1. /\ phase = "off" /\ Enter /\ calls' = <<>> /\ ~updated
        /\ UNCHANGED <<updated, from, to, rounds, file, cut, data, clock>>
    BY <1>0, <1>1 DEF StartRun, Run, InPhase, memVars, clusterVars, outVars
  <2>2. pc' \in {"create", "fetch", "stop", "off"}
    BY <2>1 DEF Enter, First
  <2>3. phase' = "deploy" => pc' = "create"
    BY <2>1, EnterPhase
  <2>4. Clocked' /\ ~LastCall("stats", "ok")'
    BY <2>1, <2>2 DEF WInv, Clocked, LastRound, LastCall
  <2> QED  BY <1>1, <1>h, <2>1, <2>2, <2>3, <2>4 DEF WInv, Windows, StartRun
<1>2. CASE EndCall
  <2> DEFINE e == [op |-> phase, out |-> pc]
  <2>1. /\ phase \in Flags /\ pc \in Outcomes /\ Enter
        /\ UNCHANGED <<updated, from, to, rounds, file, cut, data, clock>>
        /\ phase' \in {"execute", "stats", "clean", "returned", "panicked"}
        /\ phase' = "stats" => pc = "ok"
        /\ phase = "stats" => phase' \in {"clean", "returned", "panicked"}
        /\ phase = "clean" => phase' \in {"returned", "panicked"}
    BY <1>2, AfterCall, AroundStats DEF EndCall, memVars, clusterVars, outVars
  <2>2. /\ Fresh' = Fresh /\ Opened' = Opened /\ Covered' = Covered
    BY <2>1 DEF Fresh, Opened, Covered, LastRound, InRound
  <2>3. LastCall("stats", "ok")' => phase = "stats" /\ pc = "ok"
    <3>1. e \in [op : Flags, out : Outcomes] /\ calls' = Append(calls, e)
      BY <1>2 DEF EndCall, Returns
    <3> QED  BY <1>0, <3>1, LastOfAppend DEF CallsType, LastCall
  <2>4. Clocked'
    <3>1. pc' # "after"
      BY <2>1 DEF Enter, First
    <3> QED  BY <2>1, <3>1 DEF WInv, Clocked, LastRound
  <2>5. /\ pc' \in {"logs", "fetch", "read", "stop", "off"}
        /\ pc' = "fetch" => ~updated
        /\ pc' = "read" => phase' = "stats" /\ updated
    BY <2>1 DEF Enter, First
  <2>6. phase' = "stats" /\ updated => Opened
    BY <2>1 DEF WInv, Windows, Opened, Flags
  <2> QED  BY <1>2, <1>h, <2>1, <2>2, <2>3, <2>4, <2>5, <2>6 DEF WInv, Windows, EndCall
<1>3. CASE EndProcess
  <2>1. /\ phase' = "off" /\ pc' = "off" /\ calls' = <<>>
        /\ from' = Never /\ to' = Never /\ updated' = FALSE
        /\ UNCHANGED <<rounds, file, data, clock>>
    BY <1>3 DEF EndProcess, NextProcess, NewStrategy, clusterVars, outVars
  <2> QED
    BY <1>3, <1>h, <2>1
    DEF WInv, Windows, Clocked, LastRound, LastCall, EndProcess
<1>4. CASE Strategy
  BY <1>0, <1>4, WindowStep
<1>5. CASE Tick \/ Cluster
  <2> USE DEF rest, simVars, memVars, podVars, clusterVars, outVars
  <2>1. CASE Tick
    <3>1. Held'
      BY <2>1 DEF Tick, Held
    <3> QED  BY <1>t, <2>1, <3>1, SamplesInv DEF Tick, StrategyTypes, Times
  <2>2. ASSUME NEW n \in Nodes, StartPod(n) \/ EndPod(n) \/ RemovePod(n) PROVE WInv'
    <3>1. Held'
      BY <2>2 DEF StartPod, EndPod, RemovePod, WInv, Held, StrategyTypes
    <3> QED
      BY <1>t, <2>2, <3>1, SamplesInv
      DEF StartPod, EndPod, RemovePod, StrategyTypes, Times
  <2>3. ASSUME NEW d \in deleting, Vanish(d) PROVE WInv'
    <3>1. Held'
      BY <2>3 DEF Vanish, WInv, Held
    <3> QED  BY <1>t, <2>3, <3>1, SamplesInv DEF Vanish, StrategyTypes, Times
  <2> QED  BY <1>5, <2>1, <2>2, <2>3 DEF Cluster
<1>6. CASE UNCHANGED <<rest, pc, memVars, clusterVars, outVars>>
  <2>1. /\ UNCHANGED <<phase, pc, calls, updated, from, to, rounds, file, cut>>
        /\ UNCHANGED <<data, clock>>
    BY <1>6 DEF rest, simVars, memVars, clusterVars, outVars
  <2> QED  BY <1>6, <1>h, <2>1, SamplesInv DEF StrategyTypes, Times
<1> QED
  BY <1>1, <1>2, <1>3, <1>4, <1>5, <1>6
  DEF KubeNext, World, TunnelStep, allVars

\* A WriteStats without an error, and without a broken stream, leaves in the
\* files all the samples of the last round, whichever process executed it, and
\* nothing else if its own process deployed: for any number of processes that
\* fail or are interrupted anywhere, and of rounds, nodes and seconds.
THEOREM StatsCover == KubeSpec => []StatsCoverRound
<1>1. KubeInit => WInv
  BY DEF KubeInit, SimInit, WInv, Windows, Clocked, Held, LastCall
<1>2. WInv => StatsCoverRound
  BY DEF WInv, Windows, Covered, StatsCoverRound
<1> QED  BY <1>1, <1>2, InitTypes, NextTypes, WindowNext, KubeInvariance, PTL DEF KubeSpec
=============================================================================
