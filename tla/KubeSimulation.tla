--------------------------- MODULE KubeSimulation ---------------------------
(***************************************************************************)
(* Simulation.Run over the Kubernetes strategy (sim/kubernetes/mod.go):    *)
(* one process per command line, each with a Strategy of its own, against  *)
(* a cluster, a tunnel and files that outlive them.  Simulation decides    *)
(* what is called and Tunnel what its calls do; what the engine does       *)
(* inside a call is in KubeDeploy, KubeUpload, KubeRouter and KubeClean,   *)
(* and here a call succeeds or fails with what it leaves behind.           *)
(***************************************************************************)
EXTENDS Tunnel, Simulation, Integers

CONSTANTS
  Nodes,            \* the nodes of the topology
  Router, Service,  \* the deployment and the service of the router
  MaxRuns,          \* bound on the processes
  MaxTime,          \* bound on the clock
  MaxOver           \* bound on the pods that are listed and do not run

ASSUME KubeNamesAssumption ==
  IsFiniteSet(Nodes) /\ {Router, Service} \cap Nodes = {} /\ Router # Service
ASSUME KubeBoundsAssumption ==
  MaxRuns \in Nat /\ MaxTime \in Nat \ {0} /\ MaxOver \in Nat

VARIABLES
  runs,       \* processes started
  pc,         \* the next step of the call, or "off", "ok", "err", "panic"
  updated,    \* Strategy.updated
  known,      \* the nodes of which a pod of kd.pods runs
  intact,     \* when the pods were listed all of them ran, and no deployment
              \*   was being deleted
  from, to,   \* executeTime and doneTime, in seconds since 1970
  streaming,  \* kubeEngine.streamingLogs
  objects,    \* the deployments and the service that exist in the cluster
  deleting,   \* the deployments among them whose deletion has been accepted
  running,    \* the nodes that have a pod that runs
  over,       \* the nodes that have a pod that has ended and is still listed
  data,       \* per node, the times of the samples that its monitor has written
  clock,      \* the time in seconds
  file,       \* per node, the times of the samples of the statistics file
  cut,        \* WriteStats lost the samples of a pod, or a part of them
  rounds      \* <<start, end>> of the rounds that were executed

memVars == <<updated, known, intact, from, to, streaming>>
podVars == <<deleting, running, over>>
clusterVars == <<objects, podVars, data, clock>>
outVars == <<file, cut, rounds>>
rest    == <<simVars, runs>>
allVars == <<rest, pc, memVars, clusterVars, outVars, tunVars>>

Names  == Nodes \cup {Router, Service}
Times  == 1 .. MaxTime
Never  == -1     \* the zero value of time.Time, before 1970

Steps == {"create", "wait", "fetch", "logs", "upload", "router", "waitrouter", "certs",
          "tunnel", "before", "round", "after", "read", "stop", "delete"}

KubeTypeOK ==
  /\ TunTypeOK /\ SimTypeOK
  /\ runs \in 0 .. MaxRuns
  /\ pc \in Steps \cup Outcomes \cup {"off"}
  /\ updated \in BOOLEAN /\ streaming \in BOOLEAN
  /\ known \subseteq Nodes /\ intact \in BOOLEAN
  /\ objects \subseteq Names /\ deleting \subseteq objects \ {Service}
  /\ running \cup over \subseteq Nodes \cap objects
  /\ {from, to} \subseteq Times \cup {0, Never}
  /\ clock \in Times
  /\ data \in [Nodes -> SUBSET Times] /\ file \in [Nodes -> SUBSET Times]
  /\ cut \in BOOLEAN
  /\ rounds \in Seq(Times \X Times)

NewStrategy ==
  /\ updated' = FALSE /\ known' = {} /\ intact' = FALSE
  /\ from' = Never /\ to' = Never /\ streaming' = FALSE

KubeInit ==
  /\ TunInit /\ SimInit /\ runs = 0 /\ pc = "off"
  /\ updated = FALSE /\ known = {} /\ intact = FALSE
  /\ from = Never /\ to = Never /\ streaming = FALSE
  /\ objects = {} /\ deleting = {} /\ running = {} /\ over = {} /\ clock = 1
  /\ data = [n \in Nodes |-> {}] /\ file = [n \in Nodes |-> {}]
  /\ cut = FALSE /\ rounds = <<>>

-----------------------------------------------------------------------------
\* Deploy.  A step that fails ends the call; \E S is what it has created.
Fail == pc' = "err"

\* CreateDeployment: a deployment that exists, be it on its way out, is an
\* error; those that came before it are created.
CreateDeployment ==
  /\ pc = "create"
  /\ \/ /\ Nodes \cap objects = {}
        /\ pc' = "wait" /\ objects' = objects \cup Nodes
     \/ Fail /\ \E S \in SUBSET Nodes : objects' = objects \cup S
  /\ UNCHANGED <<rest, memVars, podVars, data, clock, outVars, tunVars>>

\* WaitDeployment counts pods that have been ready, which may not run any more
\* when it returns (KubeDeploy); here it returns at any time.
WaitDeployment ==
  /\ pc = "wait"
  /\ pc' \in {"fetch", "err"}
  /\ UNCHANGED <<rest, memVars, clusterVars, outVars, tunVars>>

\* Mutant: the number of pods is not compared with the topology.
AnyPods == TRUE

\* len(pods.Items) = Topology.Len(), whatever the nodes and the states of the
\* pods.
AllPods == Cardinality(running) + Cardinality(over) = Cardinality(Nodes)

\* The assignments that follow FetchPods in WriteStats: everything until now.
WholeWindow ==
  IF phase = "stats" THEN from' = 0 /\ to' = clock ELSE UNCHANGED <<from, to>>

\* FetchPods: in Deploy, and at the start of Execute and WriteStats if Deploy
\* has not come before.
FetchPods ==
  /\ pc = "fetch"
  /\ \/ /\ AllPods
        /\ pc' = IF phase = "stats" THEN "read" ELSE "logs"
        /\ known' = running /\ intact' = (over = {} /\ deleting = {})
        /\ WholeWindow
     \/ Fail /\ UNCHANGED <<known, intact, from, to>>
  /\ UNCHANGED <<rest, updated, streaming, clusterVars, outVars, tunVars>>

\* StreamLogs is done once, and even if it failed; executeTime is next.
StreamLogs ==
  /\ pc = "logs"
  /\ streaming' = TRUE
  /\ \/ /\ pc' = IF phase = "deploy" THEN "upload" ELSE "round"
        /\ from' = IF phase = "deploy" THEN from ELSE clock
     \/ ~streaming /\ Fail /\ UNCHANGED from
  /\ UNCHANGED <<rest, updated, known, intact, to, clusterVars, outVars, tunVars>>

UploadConfig ==
  /\ pc = "upload"
  /\ pc' \in {"router", "err"}
  /\ UNCHANGED <<rest, memVars, clusterVars, outVars, tunVars>>

\* An error of a creation may come from its answer alone.
DeployRouter ==
  /\ pc = "router"
  /\ \/ Router \notin objects /\ pc' = "waitrouter" /\ objects' = objects \cup {Router}
     \/ Fail /\ objects' \in {objects, objects \cup {Router}}
  /\ UNCHANGED <<rest, memVars, podVars, data, clock, outVars, tunVars>>

\* WaitRouter, with the service that it creates.
WaitRouter ==
  /\ pc = "waitrouter"
  /\ \/ Service \notin objects /\ pc' = "certs" /\ objects' = objects \cup {Service}
     \/ Fail /\ objects' \in {objects, objects \cup {Service}}
  /\ UNCHANGED <<rest, memVars, podVars, data, clock, outVars, tunVars>>

FetchCertificates ==
  /\ pc = "certs"
  /\ \/ pc' = "tunnel" /\ CallStart
     \/ Fail /\ UNCHANGED tunVars
  /\ UNCHANGED <<rest, memVars, clusterVars, outVars>>

\* tun.Start has returned.
TunnelStarted ==
  /\ pc = "tunnel" /\ tpc \in {"ok", "err"}
  /\ pc' = IF tpc = "ok" THEN "before" ELSE "err"
  /\ UNCHANGED <<rest, memVars, clusterVars, outVars, tunVars>>

\* round.Before; "updated" is the last assignment.
Before ==
  /\ pc = "before"
  /\ \/ pc' = "ok" /\ updated' = TRUE
     \/ pc' \in {"err", "panic"} /\ UNCHANGED updated
  /\ UNCHANGED <<rest, known, intact, from, to, streaming, clusterVars, outVars, tunVars>>

-----------------------------------------------------------------------------
\* Execute: round.Execute, doneTime, round.After.
ExecuteRound ==
  /\ pc = "round"
  /\ \/ pc' = "after" /\ to' = clock
     \/ pc' \in {"err", "panic"} /\ UNCHANGED to
  /\ UNCHANGED <<rest, updated, known, intact, from, streaming>>
  /\ UNCHANGED <<clusterVars, outVars, tunVars>>

AfterRound ==
  /\ pc = "after"
  /\ \/ pc' = "ok" /\ rounds' = Append(rounds, <<from, to>>)
     \/ pc' \in {"err", "panic"} /\ UNCHANGED rounds
  /\ UNCHANGED <<rest, memVars, clusterVars, file, cut, tunVars>>

\* Mutant: ts > start
StrictlyInside(t) == from < t /\ t <= to

\* NewNodeStats: ts >= start.Unix() && ts <= end.Unix()
InWindow(t) == from <= t /\ t <= to

\* FetchStats.  A pod that has ended, and a stream that breaks, are only the
\* end of the samples for NewNodeStats, and of two listed pods of a node the
\* last one counts; the errors are those of making the request and of the
\* local file.
FetchStats ==
  /\ pc = "read"
  /\ \/ /\ pc' = "ok"
        /\ \E end \in [Nodes -> 0 .. MaxTime] :
             LET read == [n \in Nodes |-> IF n \in known THEN data[n] \cap 0 .. end[n]
                                                         ELSE {}]
             IN  /\ file' = [n \in Nodes |-> {t \in read[n] : InWindow(t)}]
                 /\ cut' = (read # data)
     \/ Fail /\ file' \in {file, [n \in Nodes |-> {}]} /\ UNCHANGED cut
  /\ UNCHANGED <<rest, memVars, clusterVars, rounds, tunVars>>

-----------------------------------------------------------------------------
\* Clean: whatever tun.Stop returns, DeleteAll comes next.
TunnelStopped ==
  /\ pc = "stop" /\ tpc \in {"ok", "err"}
  /\ pc' = "delete"
  /\ UNCHANGED <<rest, memVars, clusterVars, outVars, tunVars>>

Deployments == objects \ {Service}

\* DeleteAll and WaitDeletion: a missing service is an error, and only after
\* it are the deployments deleted, all of them or, with an error, some.  When
\* there is none no event ends the wait; otherwise it may end long before the
\* deployments are gone (KubeClean), which they are in their own time.
DeleteAll ==
  \/ /\ Service \in objects /\ Deployments # {}
     /\ pc' = tpc
     /\ objects' = Deployments /\ deleting' = Deployments
  \/ Fail /\ objects' \in {objects, Deployments} /\ UNCHANGED deleting
  \/ /\ Service \in objects
     /\ Fail
     /\ objects' = Deployments
     /\ \E S \in SUBSET Deployments : deleting' = deleting \cup S

Delete ==
  /\ pc = "delete"
  /\ DeleteAll
  /\ UNCHANGED <<rest, memVars, running, over, data, clock, outVars, tunVars>>

Strategy ==
  \/ CreateDeployment \/ WaitDeployment \/ FetchPods \/ StreamLogs \/ UploadConfig
  \/ DeployRouter \/ WaitRouter \/ FetchCertificates \/ TunnelStarted \/ Before
  \/ ExecuteRound \/ AfterRound \/ FetchStats \/ TunnelStopped \/ Delete

-----------------------------------------------------------------------------
\* The call that Simulation.Run makes next, if there is one.
First(p) ==
  CASE p = "deploy"  -> "create"
    [] p = "execute" -> IF updated THEN "logs" ELSE "fetch"
    [] p = "stats"   -> IF updated THEN "read" ELSE "fetch"
    [] p = "clean"   -> "stop"
    [] OTHER         -> "off"

Enter ==
  /\ pc' = First(phase')
  /\ IF phase' = "clean" THEN CallStop ELSE UNCHANGED tunVars

StartRun(line) ==
  /\ runs < MaxRuns
  /\ runs' = runs + 1
  /\ Run(line) /\ Enter
  /\ UNCHANGED <<memVars, clusterVars, outVars>>

EndCall ==
  /\ phase \in Flags /\ pc \in Outcomes
  /\ Returns(pc) /\ Enter
  /\ UNCHANGED <<runs, memVars, clusterVars, outVars>>

\* The process ends after Run, or is interrupted during it.
EndProcess ==
  /\ NextProcess
  /\ pc' = "off" /\ NewStrategy /\ Forget /\ cut' = FALSE
  /\ UNCHANGED <<runs, clusterVars, file, rounds>>

TunnelStep ==
  /\ pc \in {"tunnel", "stop"} /\ Tunnelling
  /\ UNCHANGED <<rest, pc, memVars, clusterVars, outVars>>

-----------------------------------------------------------------------------
\* A second goes by, and the monitors write a sample.
Tick ==
  /\ clock < MaxTime
  /\ clock' = clock + 1
  /\ data' = [n \in Nodes |-> IF n \in running THEN data[n] \cup {clock'} ELSE {}]
  /\ UNCHANGED <<rest, pc, memVars, objects, podVars, outVars, tunVars>>

\* A deployment that is not being deleted has a pod that runs, or makes one.
StartPod(n) ==
  /\ n \in objects \ (deleting \cup running)
  /\ running' = running \cup {n}
  /\ UNCHANGED <<objects, deleting, over, data, clock>>
  /\ UNCHANGED <<rest, pc, memVars, outVars, tunVars>>

\* A pod is evicted or deleted; its monitor and its data are gone, and it is
\* listed for a while.
EndPod(n) ==
  /\ n \in running /\ Cardinality(over) < MaxOver
  /\ running' = running \ {n} /\ over' = over \cup {n} /\ known' = known \ {n}
  /\ data' = [data EXCEPT ![n] = {}]
  /\ UNCHANGED <<objects, deleting, clock>>
  /\ UNCHANGED <<rest, pc, updated, intact, from, to, streaming, outVars, tunVars>>

RemovePod(n) ==
  /\ n \in over /\ over' = over \ {n}
  /\ UNCHANGED <<objects, deleting, running, data, clock>>
  /\ UNCHANGED <<rest, pc, memVars, outVars, tunVars>>

\* A deletion is complete; the pods go before their deployment.
Vanish(d) ==
  /\ d \in deleting
  /\ objects' = objects \ {d} /\ deleting' = deleting \ {d}
  /\ running' = running \ {d} /\ over' = over \ {d} /\ known' = known \ {d}
  /\ data' = [n \in Nodes |-> IF n = d THEN {} ELSE data[n]]
  /\ UNCHANGED <<clock, rest, pc, updated, intact, from, to, streaming, outVars, tunVars>>

Cluster ==
  \/ \E n \in Nodes : StartPod(n) \/ EndPod(n) \/ RemovePod(n)
  \/ \E d \in deleting : Vanish(d)

World ==
  \/ Tick \/ Cluster
  \/ System /\ UNCHANGED <<rest, pc, memVars, clusterVars, outVars>>

KubeNext ==
  \/ \E k \in 0 .. MaxArgs : \E line \in [1 .. k -> Args] : StartRun(line)
  \/ EndCall \/ EndProcess \/ TunnelStep \/ Strategy \/ World

KubeSpec == KubeInit /\ [][KubeNext]_allVars

-----------------------------------------------------------------------------
LastCall(o, out) ==
  calls # <<>> /\ calls[Len(calls)] = [op |-> o, out |-> out]

InRound(r, t) == r[1] <= t /\ t <= r[2]
LastRound == rounds[Len(rounds)]

\* A WriteStats that reports no error, and whose streams have not broken, has
\* written all that the pods measured during the last round, whichever process
\* executed it; after a Deploy in the same process it has nothing else.
StatsCoverRound ==
  LastCall("stats", "ok") /\ rounds # <<>> =>
    \A n \in Nodes :
      /\ ~cut => {t \in data[n] : InRound(LastRound, t)} \subseteq file[n]
      /\ updated => \A t \in file[n] : InRound(LastRound, t)

\* A round finds a deployment of every node, and none that is being deleted,
\* when its process has deployed them, or when the pods that it listed ran and
\* no deletion was under way: whichever process created them and whatever
\* failed in between.
RunsOnDeployment ==
  pc = "round" /\ (updated \/ intact) => Nodes \subseteq objects \ deleting
=============================================================================
