-------------------------- MODULE KubeDeployProofs --------------------------
(***************************************************************************)
(* Deploy gives the simulation one ready pod per node, for any topology    *)
(* and any order of the events, as long as no pod is left from before and  *)
(* none is lost: an event that says that a pod is ready is then still true *)
(* when it is read.                                                        *)
(***************************************************************************)
EXTENDS KubeDeploy, TLAPS, FiniteSetTheorems, SequenceTheorems

\* The first pod of every node.
FirstPods == Nodes \X {1}

Events == Pods \X Statuses

\* Before the deployments there are no pods; a success ends Deploy.
Early ==
  /\ pc = "open" => created = {} /\ queue = <<>> /\ watch = "none"
  /\ pc = "list" => AllReady(ready)
  /\ result = "ok" => pc = "done"
  /\ pc \in {"wait", "list"} => created = Nodes /\ watch # "none"
  /\ pc = "list" => watch # "open"
  /\ pc # "open" /\ watch = "none" => pc = "done" /\ created = {}

\* While all is calm every pod is the first of its node, and what readyMap
\* and the watch say to be ready is ready.
Calm ==
  calm =>
    /\ \A p \in Pods : status[p] # "gone"
    /\ \A p \in Pods : p \notin FirstPods => status[p] = "none"
    /\ \A p \in ready : status[p] = "ready"
    /\ \A i \in 1..Len(queue) :
         queue[i][2] = "ready" => status[queue[i][1]] = "ready"

IInv == TypeOK /\ Early /\ Calm /\ ReadyPodPerNode

-----------------------------------------------------------------------------
\* The pods that the deployments create first are pods of the cluster.
LEMMA FirstPodsType == FirstPods \in SUBSET NewPods /\ FirstPods \in SUBSET Pods
  BY BoundsAssumption DEF FirstPods, NewPods, Pods

\* There are finitely many pods, so that those of a list can be counted.
LEMMA PodsFinite == IsFiniteSet(Pods)
<1>1. IsFiniteSet(1..MaxGen)
  BY BoundsAssumption, FS_Interval
<1>2. IsFiniteSet(NewPods)
  BY <1>1, NodesAssumption, FS_Product DEF NewPods
<1> QED
  BY <1>2, OldPodsAssumption, FS_Union DEF Pods

\* There are as many first pods as nodes.
LEMMA FirstPodsCount ==
  /\ IsFiniteSet(FirstPods)
  /\ Cardinality(FirstPods) = Cardinality(Nodes)
<1>1. IsFiniteSet({1}) /\ Cardinality({1}) = 1
  BY FS_Singleton
<1>2. Cardinality(Nodes) \in Nat
  BY NodesAssumption, FS_CardinalityType
<1> QED
  BY <1>1, <1>2, NodesAssumption, FS_Product DEF FirstPods

\* A set of first pods that is as large as the topology has all of them.
LEMMA AllOfThem ==
  ASSUME NEW S, S \subseteq FirstPods, AllReady(S)
  PROVE  S = FirstPods
<1>1. S \in SUBSET FirstPods /\ Cardinality(S) = Cardinality(FirstPods)
  BY FirstPodsCount DEF AllReady
<1> QED
  BY <1>1, FirstPodsCount, FS_Subset

\* A function over 1 .. n is a sequence.
LEMMA FunctionIsSeq ==
  ASSUME NEW T, NEW m \in Nat, NEW f \in [1..m -> T]
  PROVE  f \in Seq(T) /\ Len(f) = m
  OBVIOUS

\* The events at the opening of the watch are true.
LEMMA InitialEventsTrue ==
  ASSUME TypeOK, NEW q \in InitialEvents
  PROVE  /\ q \in Seq(Events)
         /\ \A i \in 1..Len(q) : q[i][2] = status[q[i][1]] /\ q[i][1] \in Pods
<1> DEFINE S == {p \in Pods : Exists(p)}
<1>1. PICK s \in SetToSeqs(S) : q = [i \in DOMAIN s |-> <<s[i], status[s[i]]>>]
  BY DEF InitialEvents
<1>2. s \in [1..Cardinality(S) -> S]
  BY <1>1 DEF SetToSeqs
<1>3. \A i \in 1..Cardinality(S) : q[i] = <<s[i], status[s[i]]>> /\ q[i] \in Events
  BY <1>1, <1>2 DEF Events, Exists
<1>4. IsFiniteSet(S)
  BY PodsFinite, FS_Subset
<1>5. Cardinality(S) \in Nat
  BY <1>4, FS_CardinalityType
<1>6. q \in [1..Cardinality(S) -> Events]
  BY <1>1, <1>2, <1>3
<1>7. q \in Seq(Events) /\ Len(q) = Cardinality(S)
  BY <1>5, <1>6, FunctionIsSeq
<1> QED
  BY <1>2, <1>3, <1>7

\* What Append does to the events.
LEMMA AppendEvent ==
  ASSUME NEW q \in Seq(Events), NEW e \in Events
  PROVE  /\ Append(q, e) \in Seq(Events)
         /\ Len(Append(q, e)) = Len(q) + 1
         /\ \A i \in 1..Len(q) : Append(q, e)[i] = q[i]
         /\ Append(q, e)[Len(q) + 1] = e
  BY AppendProperties

\* What the first event is, and what is left without it.
LEMMA FirstEvent ==
  ASSUME NEW q \in Seq(Events), q # <<>>
  PROVE  /\ Head(q) = q[1] /\ q[1] \in Events /\ 1 \in 1..Len(q)
         /\ Tail(q) \in Seq(Events)
         /\ Len(Tail(q)) = Len(q) - 1
         /\ \A i \in 1..Len(Tail(q)) : Tail(q)[i] = q[i + 1]
<1>1. Len(q) \in Nat /\ Len(q) # 0
  BY EmptySeq
<1>2. 1 \in 1..Len(q)
  BY <1>1
<1> QED
  BY <1>1, <1>2, ElementOfSeq, HeadTailProperties

\* The invariant holds initially.
LEMMA InitInv == Init => IInv
<1> SUFFICES ASSUME Init PROVE IInv
  OBVIOUS
<1> USE DEF Init
<1>1. TypeOK
  BY EmptySeq DEF TypeOK, Statuses
<1>2. Early /\ ReadyPodPerNode
  BY DEF Early, ReadyPodPerNode
<1>3. Calm
  <2> SUFFICES ASSUME calm PROVE Calm
    BY DEF Calm
  <2>1. status = [p \in Pods |-> "none"]
    OBVIOUS
  <2>2. Len(queue) = 0 /\ ready = {}
    BY EmptySeq
  <2> QED
    BY <2>1, <2>2 DEF Calm
<1> QED
  BY <1>1, <1>2, <1>3 DEF IInv

\* Notify keeps the type of the queue and adds at most the given event.
LEMMA NotifyType ==
  ASSUME TypeOK, NEW p \in Pods, NEW s \in Statuses, Notify(p, s)
  PROVE  /\ queue' \in Seq(Events)
         /\ \A i \in 1..Len(queue') :
              \/ i \in 1..Len(queue) /\ queue'[i] = queue[i]
              \/ queue'[i] = <<p, s>>
<1>1. queue \in Seq(Events) /\ <<p, s>> \in Events
  BY DEF TypeOK, Events
<1>2. CASE watch = "open"
  <2>1. queue' = Append(queue, <<p, s>>)
    BY <1>2 DEF Notify
  <2>2. Len(queue) \in Nat
    BY <1>1, LenProperties
  <2>3. \A i \in 1..(Len(queue) + 1) : i \in 1..Len(queue) \/ i = Len(queue) + 1
    BY <2>2
  <2> QED
    BY <1>1, <2>1, <2>3, AppendEvent
<1>3. CASE watch # "open"
  BY <1>1, <1>3 DEF Notify
<1> QED
  BY <1>2, <1>3

\* The event that WaitDeployment takes.
LEMMA HeadType ==
  ASSUME TypeOK, queue # <<>>
  PROVE  /\ Head(queue) = queue[1] /\ 1 \in 1..Len(queue)
         /\ Head(queue)[1] \in Pods /\ Head(queue)[2] \in Statuses
         /\ Tail(queue) \in Seq(Events)
         /\ \A i \in 1..Len(Tail(queue)) :
              i + 1 \in 1..Len(queue) /\ Tail(queue)[i] = queue[i + 1]
<1>1. queue \in Seq(Events)
  BY DEF TypeOK, Events
<1>2. Len(queue) \in Nat /\ Len(Tail(queue)) = Len(queue) - 1
  BY <1>1, FirstEvent, LenProperties
<1>3. \A i \in 1..Len(Tail(queue)) : i + 1 \in 1..Len(queue)
  BY <1>2
<1>4. queue[1] \in Events
  BY <1>1, FirstEvent
<1> QED
  BY <1>1, <1>3, <1>4, FirstEvent DEF Events

\* The steps keep the types.
LEMMA TypeStep == TypeOK /\ [Next]_vars => TypeOK'
<1> SUFFICES ASSUME TypeOK, [Next]_vars PROVE TypeOK'
  OBVIOUS
<1> USE DEF Events
<1>1. CASE OpenWatch
  BY <1>1, InitialEventsTrue DEF OpenWatch, TypeOK, Statuses, Exists, NextStatus, CanNotify, apiVars, runVars
<1>2. ASSUME NEW n \in Nodes, Create(n) PROVE TypeOK'
  BY <1>2 DEF Create, TypeOK, Statuses, Exists, NextStatus, CanNotify, apiVars, runVars
<1>3. CASE EndCreate
  BY <1>3 DEF EndCreate, TypeOK, Statuses, Exists, NextStatus, CanNotify, apiVars, runVars
<1>4. CASE TakeEvent
  <2>1. /\ Head(queue)[1] \in Pods /\ queue # <<>>
        /\ queue' \in {<<>>, Tail(queue)}
        /\ ready' \in {ready, ready \cup {Head(queue)[1]}}
    BY <1>4, HeadType DEF TakeEvent
  <2>2. queue' \in Seq(Events) /\ ready' \subseteq Pods
    BY <2>1, HeadType, EmptySeq DEF TypeOK
  <2> QED
    BY <1>4, <2>2 DEF TakeEvent, TypeOK, Statuses, apiVars, StopWatch
<1>5. CASE TakeClosed
  BY <1>5 DEF TakeClosed, TypeOK, Statuses, Exists, NextStatus, CanNotify, apiVars, runVars
<1>6. CASE FetchPods
  BY <1>6 DEF FetchPods, TypeOK, Statuses, Exists, NextStatus, CanNotify, apiVars, runVars
<1>7. ASSUME NEW n \in Nodes, NEW k \in 1..MaxGen, NewPod(n, k) PROVE TypeOK'
  BY <1>7, NotifyType DEF NewPod, TypeOK, Statuses, Exists, NextStatus, CanNotify, apiVars, runVars, Pods, NewPods
<1>8. ASSUME NEW p \in Pods, Change(p) PROVE TypeOK'
  BY <1>8, NotifyType DEF Change, TypeOK, Statuses, Exists, NextStatus, CanNotify, apiVars, runVars
<1>9. ASSUME NEW p \in Pods, Delete(p) PROVE TypeOK'
  BY <1>9, NotifyType DEF Delete, TypeOK, Statuses, Exists, NextStatus, CanNotify, apiVars, runVars
<1>10. CASE CloseWatch
  BY <1>10 DEF CloseWatch, TypeOK, Statuses, Exists, NextStatus, CanNotify, apiVars, runVars
<1>11. CASE UNCHANGED vars
  BY <1>11 DEF vars, TypeOK, Statuses, Exists, NextStatus, CanNotify, apiVars, runVars
<1> QED
  BY <1>1, <1>2, <1>3, <1>4, <1>5, <1>6, <1>7, <1>8, <1>9, <1>10, <1>11 DEF Next, Program, Server

\* The steps keep what is said of the phases.
LEMMA EarlyStep == IInv /\ [Next]_vars => Early'
<1> SUFFICES ASSUME IInv, [Next]_vars PROVE Early'
  OBVIOUS
<1> USE DEF IInv, Early
<1>1. CASE OpenWatch
  BY <1>1 DEF OpenWatch, CanNotify, apiVars, runVars
<1>2. ASSUME NEW n \in Nodes, Create(n) PROVE Early'
  BY <1>2 DEF Create, CanNotify, apiVars, runVars
<1>3. CASE EndCreate
  BY <1>3 DEF EndCreate, CanNotify, apiVars, runVars
<1>4. CASE TakeEvent
  BY <1>4 DEF TakeEvent, CanNotify, apiVars, runVars, StopWatch
<1>5. CASE TakeClosed
  BY <1>5 DEF TakeClosed, CanNotify, apiVars, runVars
<1>6. CASE FetchPods
  BY <1>6 DEF FetchPods, CanNotify, apiVars, runVars
<1>7. ASSUME NEW n \in Nodes, NEW k \in 1..MaxGen, NewPod(n, k) PROVE Early'
  BY <1>7 DEF NewPod, CanNotify, apiVars, runVars, Notify
<1>8. ASSUME NEW p \in Pods, Change(p) PROVE Early'
  BY <1>8 DEF Change, CanNotify, apiVars, runVars, Notify
<1>9. ASSUME NEW p \in Pods, Delete(p) PROVE Early'
  BY <1>9 DEF Delete, CanNotify, apiVars, runVars, Notify
<1>10. CASE CloseWatch
  BY <1>10 DEF CloseWatch, CanNotify, apiVars, runVars
<1>11. CASE UNCHANGED vars
  BY <1>11 DEF vars, CanNotify, apiVars, runVars
<1> QED
  BY <1>1, <1>2, <1>3, <1>4, <1>5, <1>6, <1>7, <1>8, <1>9, <1>10, <1>11 DEF Next, Program, Server

\* The events are about pods.
LEMMA QueuedPods ==
  ASSUME TypeOK, NEW i \in 1..Len(queue)
  PROVE  queue[i][1] \in Pods
  BY ElementOfSeq DEF TypeOK

\* The steps keep the calm.
LEMMA CalmStep == IInv /\ [Next]_vars => Calm'
<1> SUFFICES ASSUME IInv, [Next]_vars PROVE Calm'
  OBVIOUS
<1> USE DEF IInv
<1>1. CASE OpenWatch
  BY <1>1, InitialEventsTrue DEF OpenWatch, TypeOK, Statuses, Exists, NextStatus, CanNotify, apiVars, runVars, Calm, Early
<1>2. ASSUME NEW n \in Nodes, Create(n) PROVE Calm'
  BY <1>2 DEF Create, TypeOK, Statuses, Exists, NextStatus, CanNotify, apiVars, runVars, Calm
<1>3. CASE EndCreate
  BY <1>3 DEF EndCreate, TypeOK, Statuses, Exists, NextStatus, CanNotify, apiVars, runVars, Calm
<1>4. CASE TakeEvent
  <2> SUFFICES ASSUME calm PROVE Calm'
    BY <1>4 DEF TakeEvent, apiVars, Calm
  <2>1. queue # <<>> /\ status' = status /\ queue' \in {<<>>, Tail(queue)}
    BY <1>4 DEF TakeEvent, apiVars
  <2>2. \A i \in 1..Len(queue') : queue'[i][2] = "ready" => status[queue'[i][1]] = "ready"
    BY <2>1, HeadType, EmptySeq DEF Calm
  <2>3. ready' = ready \/ (ready' = ready \cup {Head(queue)[1]} /\ Head(queue)[2] = "ready")
    BY <1>4 DEF TakeEvent, IsReady
  <2>4. \A p \in ready' : status[p] = "ready"
    BY <2>1, <2>3, HeadType DEF Calm
  <2> QED
    BY <2>1, <2>2, <2>4 DEF Calm
<1>5. CASE TakeClosed
  BY <1>5 DEF TakeClosed, TypeOK, Statuses, Exists, NextStatus, CanNotify, apiVars, runVars, Calm
<1>6. CASE FetchPods
  BY <1>6 DEF FetchPods, TypeOK, Statuses, Exists, NextStatus, CanNotify, apiVars, runVars, Calm
<1>7. ASSUME NEW n \in Nodes, NEW k \in 1..MaxGen, NewPod(n, k) PROVE Calm'
  <2> SUFFICES ASSUME calm PROVE Calm'
    BY <1>7 DEF NewPod, Calm
  <2>1. \A i \in 1..(k-1) : <<n, i>> \in Pods /\ status[<<n, i>>] = "gone"
    BY <1>7, BoundsAssumption DEF NewPod, Pods, NewPods
  <2>0. k = 1
    <3>1. k > 1 => <<n, 1>> \in Pods /\ status[<<n, 1>>] = "gone"
      BY <2>1
    <3> QED
      BY <3>1, BoundsAssumption DEF Calm
  <2>2. <<n, k>> \in FirstPods /\ <<n, k>> \in Pods
    BY <2>0, FirstPodsType DEF FirstPods
  <2>3. /\ status' = [status EXCEPT ![<<n, k>>] = "pending"] /\ status[<<n, k>>] = "none"
        /\ ready' = ready
    BY <1>7 DEF NewPod, runVars
  <2>4. \A i \in 1..Len(queue') : queue'[i][2] = "ready" => status'[queue'[i][1]] = "ready"
    <3>1. Notify(<<n, k>>, "pending") /\ "pending" \in Statuses
      BY <1>7 DEF NewPod, Statuses
    <3>2. \A i \in 1..Len(queue') :
            \/ i \in 1..Len(queue) /\ queue'[i] = queue[i]
            \/ queue'[i] = <<<<n, k>>, "pending">>
      BY <2>2, <3>1, NotifyType
    <3>3. \A i \in 1..Len(queue) : queue[i][2] = "ready" =>
            queue[i][1] \in Pods /\ status[queue[i][1]] = "ready" /\ queue[i][1] # <<n, k>>
      BY <2>3, QueuedPods DEF Calm
    <3> QED
      BY <2>2, <2>3, <3>2, <3>3 DEF TypeOK
  <2> QED
    BY <2>2, <2>3, <2>4 DEF Calm, TypeOK
<1>8. ASSUME NEW p \in Pods, Change(p) PROVE Calm'
  <2> SUFFICES ASSUME calm' PROVE Calm'
    BY DEF Calm
  <2>1. PICK s \in NextStatus(status[p]) :
          status' = [status EXCEPT ![p] = s] /\ Notify(p, s)
    BY <1>8 DEF Change
  <2>2. calm /\ status[p] # "ready" /\ Exists(p) /\ ready' = ready
    BY <1>8 DEF Change, runVars
  <2>3. s \in Statuses /\ p \in FirstPods
    BY <2>1, <2>2 DEF NextStatus, Statuses, Calm, Exists
  <2>4. \A i \in 1..Len(queue') : queue'[i][2] = "ready" => status'[queue'[i][1]] = "ready"
    BY <2>1, <2>2, <2>3, NotifyType, QueuedPods DEF Calm, TypeOK
  <2> QED
    BY <2>1, <2>2, <2>3, <2>4 DEF Calm, TypeOK, Statuses
<1>9. ASSUME NEW p \in Pods, Delete(p) PROVE Calm'
  BY <1>9, NotifyType DEF Delete, TypeOK, Statuses, Exists, NextStatus, CanNotify, apiVars, runVars, Calm
<1>10. CASE CloseWatch
  BY <1>10 DEF CloseWatch, TypeOK, Statuses, Exists, NextStatus, CanNotify, apiVars, runVars, Calm
<1>11. CASE UNCHANGED vars
  BY <1>11 DEF vars, TypeOK, Statuses, Exists, NextStatus, CanNotify, apiVars, runVars, Calm
<1> QED
  BY <1>1, <1>2, <1>3, <1>4, <1>5, <1>6, <1>7, <1>8, <1>9, <1>10, <1>11 DEF Next, Program, Server

\* FetchPods finds exactly the first pods when all is calm.
LEMMA ReadyStep == IInv /\ [Next]_vars => ReadyPodPerNode'
<1> SUFFICES ASSUME IInv, [Next]_vars PROVE ReadyPodPerNode'
  OBVIOUS
<1> USE DEF IInv, ReadyPodPerNode, Early
<1>1. CASE OpenWatch
  BY <1>1 DEF OpenWatch, CanNotify, apiVars, runVars
<1>2. ASSUME NEW n \in Nodes, Create(n) PROVE ReadyPodPerNode'
  BY <1>2 DEF Create, CanNotify, apiVars, runVars
<1>3. CASE EndCreate
  BY <1>3 DEF EndCreate, CanNotify, apiVars, runVars
<1>4. CASE TakeEvent
  BY <1>4 DEF TakeEvent, CanNotify, apiVars, runVars
<1>5. CASE TakeClosed
  BY <1>5 DEF TakeClosed, CanNotify, apiVars, runVars
<1>6. CASE FetchPods
  <2> SUFFICES ASSUME result' = "ok", calm
               PROVE  listed' = FirstPods /\ \A p \in listed' : status[p] = "ready"
    BY <1>6 DEF FetchPods, apiVars, FirstPods
  <2>1. listed' = {p \in Pods : Exists(p)} /\ pc = "list"
    BY <1>6 DEF FetchPods
  <2>2. ready \subseteq FirstPods
    BY DEF Calm, TypeOK
  <2>3. ready = FirstPods
    BY <2>1, <2>2, AllOfThem
  <2>4. \A p \in FirstPods : status[p] = "ready"
    BY <2>3 DEF Calm
  <2>5. {p \in Pods : Exists(p)} = FirstPods
    BY <2>4, FirstPodsType DEF Calm, Exists, Statuses
  <2> QED
    BY <2>1, <2>4, <2>5
<1>7. ASSUME NEW n \in Nodes, NEW k \in 1..MaxGen, NewPod(n, k) PROVE ReadyPodPerNode'
  BY <1>7 DEF NewPod, CanNotify, apiVars, runVars
<1>8. ASSUME NEW p \in Pods, Change(p) PROVE ReadyPodPerNode'
  BY <1>8 DEF Change, CanNotify, apiVars, runVars
<1>9. ASSUME NEW p \in Pods, Delete(p) PROVE ReadyPodPerNode'
  BY <1>9 DEF Delete, CanNotify, apiVars, runVars
<1>10. CASE CloseWatch
  BY <1>10 DEF CloseWatch, CanNotify, apiVars, runVars
<1>11. CASE UNCHANGED vars
  BY <1>11 DEF vars, CanNotify, apiVars, runVars
<1> QED
  BY <1>1, <1>2, <1>3, <1>4, <1>5, <1>6, <1>7, <1>8, <1>9, <1>10, <1>11 DEF Next, Program, Server

-----------------------------------------------------------------------------
\* IInv is an invariant of Deploy.
LEMMA Invariance == Spec => []IInv
<1>1. IInv /\ [Next]_vars => IInv'
  BY TypeStep, EarlyStep, CalmStep, ReadyStep DEF IInv
<1> QED
  BY InitInv, <1>1, PTL DEF Spec

\* The variables of Deploy and of the API server keep their types.
THEOREM TypeCorrect == Spec => []TypeOK
<1>1. IInv => TypeOK
  BY DEF IInv
<1> QED
  BY Invariance, <1>1, PTL

\* For any topology, a Deploy that succeeds while no pod is left from before
\* or lost has one pod per node, and all of them are ready.
THEOREM DeploysReadyPods == Spec => []ReadyPodPerNode
<1>1. IInv => ReadyPodPerNode
  BY DEF IInv
<1> QED
  BY Invariance, <1>1, PTL
=============================================================================
