----------------------------- MODULE KubeDeploy -----------------------------
(***************************************************************************)
(* The first part of Strategy.Deploy on Kubernetes: CreateDeployment,      *)
(* WaitDeployment and FetchPods of sim/kubernetes/engine.go, against an    *)
(* API server that creates the pods, changes their status, and reports     *)
(* every change to the watch in order.                                     *)
(***************************************************************************)
EXTENDS Naturals, Sequences, FiniteSets, SequencesExt

CONSTANTS
  Nodes,    \* the nodes of the topology
  OldPods,  \* pods of an earlier simulation, of nodes not in this topology
  MaxGen,   \* pods that a deployment may create, one after the other
  MaxQueue  \* events in the watch that the program has not read

ASSUME NodesAssumption == IsFiniteSet(Nodes) /\ Nodes # {}
ASSUME BoundsAssumption == MaxGen \in Nat \ {0} /\ MaxQueue \in Nat

NewPods == Nodes \X (1..MaxGen)
Pods    == NewPods \cup OldPods

ASSUME OldPodsAssumption == IsFiniteSet(OldPods) /\ OldPods \cap NewPods = {}

VARIABLES
  pc,       \* "open", "create", "wait", "list" or "done"
  result,   \* "none", "ok", "err" or "panic"
  created,  \* the nodes whose deployment has been created
  watch,    \* "none", "open", "closed" by the server or "stopped"
  queue,    \* the events of the watch: <<pod, status>>
  ready,    \* readyMap: pods that an event has shown to be ready
  listed,   \* kd.pods
  status,   \* per pod, what the API server says
  calm      \* no old pod, and no pod has lost its readiness or been deleted

apiVars == <<status, calm>>
runVars == <<pc, result, created, ready, listed>>
vars    == <<runVars, watch, queue, apiVars>>

Statuses == {"pending", "backoff", "unsched", "error", "ready"}

Exists(p) == status[p] \in Statuses

TypeOK ==
  /\ pc \in {"open", "create", "wait", "list", "done"}
  /\ result \in {"none", "ok", "err", "panic"}
  /\ created \subseteq Nodes
  /\ watch \in {"none", "open", "closed", "stopped"}
  /\ queue \in Seq(Pods \X Statuses)
  /\ ready \subseteq Pods /\ listed \subseteq Pods
  /\ status \in [Pods -> Statuses \cup {"none", "gone"}]
  /\ calm \in BOOLEAN

Init ==
  /\ pc = "open" /\ result = "none" /\ created = {} /\ watch = "none"
  /\ queue = <<>> /\ ready = {} /\ listed = {}
  /\ \E old \in SUBSET OldPods :
       /\ status = [p \in Pods |-> IF p \in old THEN "ready" ELSE "none"]
       /\ calm = (old = {})

-----------------------------------------------------------------------------
\* The API server.  Without a resource version a watch starts with an event
\* for every pod that exists, in any order; the event of a deletion carries
\* the last status of the pod.
InitialEvents ==
  {[i \in DOMAIN s |-> <<s[i], status[s[i]]>>] : s \in SetToSeqs({p \in Pods : Exists(p)})}

Notify(p, s) ==
  queue' = IF watch = "open" THEN Append(queue, <<p, s>>) ELSE queue

CanNotify == pc # "done" /\ Len(queue) < MaxQueue

\* The controller of the deployment gives it a pod when it has none.
NewPod(n, k) ==
  /\ CanNotify /\ n \in created
  /\ status[<<n, k>>] = "none" /\ \A i \in 1..(k-1) : status[<<n, i>>] = "gone"
  /\ status' = [status EXCEPT ![<<n, k>>] = "pending"]
  /\ Notify(<<n, k>>, "pending")
  /\ UNCHANGED <<runVars, watch, calm>>

\* A pod is scheduled, fails to start, becomes ready or stops being so.
NextStatus(s) ==
  CASE s = "pending" -> {"backoff", "unsched", "error", "ready"}
    [] s = "ready"   -> {"pending"}
    [] OTHER         -> {"pending"}

Change(p) ==
  /\ CanNotify /\ Exists(p)
  /\ \E s \in NextStatus(status[p]) :
       /\ status' = [status EXCEPT ![p] = s]
       /\ Notify(p, s)
       /\ calm' = (calm /\ status[p] # "ready")
  /\ UNCHANGED <<runVars, watch>>

Delete(p) ==
  /\ CanNotify /\ Exists(p)
  /\ status' = [status EXCEPT ![p] = "gone"]
  /\ Notify(p, status[p])
  /\ calm' = FALSE
  /\ UNCHANGED <<runVars, watch>>

CloseWatch ==
  /\ pc # "done" /\ watch = "open"
  /\ watch' = "closed"
  /\ UNCHANGED <<runVars, queue, apiVars>>

-----------------------------------------------------------------------------
\* CreateDeployment: the watch is opened first.
OpenWatch ==
  /\ pc = "open"
  /\ \/ /\ pc' = "create" /\ watch' = "open"
        /\ queue' \in InitialEvents
        /\ UNCHANGED result
     \/ pc' = "done" /\ result' = "err" /\ UNCHANGED <<watch, queue>>
  /\ UNCHANGED <<created, ready, listed, apiVars>>

\* One deployment is created; an error leaves the watch open.
Create(n) ==
  /\ pc = "create" /\ n \notin created
  /\ \/ created' = created \cup {n} /\ UNCHANGED <<pc, result>>
     \/ pc' = "done" /\ result' = "err" /\ UNCHANGED created
  /\ UNCHANGED <<ready, listed, watch, queue, apiVars>>

EndCreate ==
  /\ pc = "create" /\ created = Nodes
  /\ pc' = "wait"
  /\ UNCHANGED <<result, created, ready, listed, watch, queue, apiVars>>

\* Mutant: every pod that has not failed counts.
IsReadyUnlessFailed(s) == s \in {"pending", "backoff", "ready"}

\* checkPodStatus
IsReady(s) == s = "ready"
IsFailed(s) == s \in {"unsched", "error"}

\* Mutant: len(readyMap) > Topology.Len()
MoreThanAll(S) == Cardinality(S) > Cardinality(Nodes)

\* len(readyMap) == Topology.Len()
AllReady(S) == Cardinality(S) = Cardinality(Nodes)

\* w.Stop() follows WaitDeployment in Strategy.Deploy.
StopWatch == watch' = "stopped"

\* WaitDeployment: the next event, of whatever type; pod.Name is the key of
\* readyMap.
TakeEvent ==
  /\ pc = "wait" /\ queue # <<>>
  /\ LET p == Head(queue)[1]
         s == Head(queue)[2]
     IN  IF IsFailed(s)
           THEN /\ pc' = "done" /\ result' = "err" /\ StopWatch
                /\ queue' = <<>> /\ UNCHANGED ready
           ELSE /\ ready' = IF IsReady(s) THEN ready \cup {p} ELSE ready
                /\ IF AllReady(ready')
                     THEN pc' = "list" /\ StopWatch /\ queue' = <<>>
                     ELSE queue' = Tail(queue) /\ UNCHANGED <<pc, watch>>
                /\ UNCHANGED result
  /\ UNCHANGED <<created, listed, apiVars>>

\* A closed channel gives an event without an object, which is no *Pod.
TakeClosed ==
  /\ pc = "wait" /\ queue = <<>> /\ watch = "closed"
  /\ pc' = "done" /\ result' = "panic"
  /\ UNCHANGED <<created, ready, listed, watch, queue, apiVars>>

\* FetchPods
FetchPods ==
  /\ pc = "list"
  /\ LET items == {p \in Pods : Exists(p)}
     IN  \/ /\ Cardinality(items) = Cardinality(Nodes)
            /\ listed' = items /\ result' = "ok"
         \/ result' = "err" /\ UNCHANGED listed
  /\ pc' = "done"
  /\ UNCHANGED <<created, ready, watch, queue, apiVars>>

-----------------------------------------------------------------------------
Program == \/ OpenWatch \/ EndCreate \/ TakeEvent \/ TakeClosed \/ FetchPods
           \/ \E n \in Nodes : Create(n)

Server  == \/ CloseWatch
           \/ \E n \in Nodes, k \in 1..MaxGen : NewPod(n, k)
           \/ \E p \in Pods : Change(p) \/ Delete(p)

Next == Program \/ Server

Spec == Init /\ [][Next]_vars

\* The program runs, and the controllers make pods and try to start them.
FairSpec ==
  /\ Spec
  /\ WF_vars(Program)
  /\ \A n \in Nodes, k \in 1..MaxGen : WF_vars(NewPod(n, k))
  /\ \A p \in NewPods : WF_vars(status[p] = "pending" /\ Change(p))

-----------------------------------------------------------------------------
\* The pods that a calm deployment gives to the simulation are one per node,
\* and each of them is ready.
ReadyPodPerNode ==
  result = "ok" /\ calm =>
    /\ listed = Nodes \X {1}
    /\ \A p \in listed : status[p] = "ready"

\* When the pods of all the nodes become ready and stay so, and the server
\* does not close the watch, Deploy stops waiting.
NodeReady(n) == \E k \in 1..MaxGen : status[<<n, k>>] = "ready"
AllUp == watch # "closed" /\ \A n \in Nodes : NodeReady(n)

NoticesReady == <>[]AllUp => <>(pc = "done")
=============================================================================
