----------------------------- MODULE KubeRouter -----------------------------
(***************************************************************************)
(* The second part of Strategy.Deploy on Kubernetes: DeployRouter,         *)
(* WaitRouter with createVPNService, and FetchCertificates with            *)
(* writeCertificates (sim/kubernetes/engine.go).  The watches report, in   *)
(* order, what the API server does to the pods of the router and to the    *)
(* services of the namespace, those of other users among them.             *)
(***************************************************************************)
EXTENDS Naturals, Sequences, FiniteSets, SequencesExt

CONSTANTS
  Files,     \* the CA, the key and the certificate of the client
  Others,    \* services of the namespace that are not of the simulation
  Service,   \* the service simnet-router
  None, Part,  \* no pod, and the content of a file that is not complete
  MaxGen,    \* pods that the deployment may create, one after the other
  MaxQueue   \* events in the watch that the program has not read

ASSUME NamesAssumption ==
  /\ IsFiniteSet(Files) /\ Files # {}
  /\ IsFiniteSet(Others) /\ Service \notin Others
ASSUME BoundsAssumption == MaxGen \in Nat /\ MaxQueue \in Nat
ASSUME NoneAssumption ==
  None \notin 0..MaxGen /\ Part \notin 0..MaxGen /\ None # Part

\* Pod 0 is left by an earlier simulation, which was not cleaned or is still
\* terminating.
RouterPods == 0..MaxGen

VARIABLES
  pc,         \* the next call: "watch", "create", "wait", "svcwatch",
              \*   "svccreate", "svcwait", "list", "read"; or "done"
  result,     \* "none", "ok", "err" or "panic"
  watch,      \* of the pods: "none", "open", "closed" by the server, "stopped"
  queue,      \* its events: <<pod, status>>
  svcWatch, svcQueue,  \* the same for the services; an event is the service
  port,       \* the service whose node port createVPNService returns
  router,     \* the pod that FetchCertificates has found
  todo,       \* the files that writeCertificates still has to write
  files,      \* per local file: None, Part or the pod that it comes from
  status,     \* per pod, what the API server says
  generated,  \* the pods whose init container has ended
  made,       \* the deployment of the router has been created
  others,     \* per other service, whether it exists and has a node port
  calm        \* no old pod, and no pod has lost its readiness or been deleted

apiVars == <<status, generated, calm>>
podVars == <<watch, queue>>
svcVars == <<svcWatch, svcQueue, port>>
outVars == <<router, todo, files>>
vars    == <<pc, result, podVars, svcVars, outVars, apiVars, made, others>>

Statuses == {"pending", "unsched", "error", "ready"}
Exists(p) == status[p] \in Statuses

Init ==
  /\ pc = "watch" /\ result = "none"
  /\ watch = "none" /\ queue = <<>> /\ svcWatch = "none" /\ svcQueue = <<>>
  /\ port = None /\ router = None /\ made = FALSE
  /\ todo = Files /\ files = [f \in Files |-> None]
  /\ others \in [Others -> {"absent", "internal", "nodeport"}]
  /\ \E old \in {"none", "ready"} :
       /\ status = [p \in RouterPods |-> IF p = 0 THEN old ELSE "none"]
       /\ generated = IF old = "ready" THEN {0} ELSE {}
       /\ calm = (old = "none")

-----------------------------------------------------------------------------
\* The API server and the cluster.
Notify(p, s) ==
  queue' = IF watch = "open" THEN Append(queue, <<p, s>>) ELSE queue

CanNotify == pc # "done" /\ Len(queue) < MaxQueue

NewPod(p) ==
  /\ CanNotify /\ made /\ p # 0
  /\ status[p] = "none" /\ \A i \in 1..(p-1) : status[i] = "gone"
  /\ status' = [status EXCEPT ![p] = "pending"]
  /\ Notify(p, "pending")
  /\ UNCHANGED <<pc, result, watch, svcVars, outVars, generated, calm, made, others>>

\* The router container starts when the init container has ended.
NextStatus(s) ==
  IF s = "pending" THEN {"unsched", "error", "ready"} ELSE {"pending"}

Change(p) ==
  /\ CanNotify /\ Exists(p)
  /\ \E s \in NextStatus(status[p]) :
       /\ status' = [status EXCEPT ![p] = s]
       /\ Notify(p, s)
       /\ generated' = IF s = "ready" THEN generated \cup {p} ELSE generated
  /\ calm' = (calm /\ status[p] # "ready")
  /\ UNCHANGED <<pc, result, watch, svcVars, outVars, made, others>>

Delete(p) ==
  /\ CanNotify /\ Exists(p)
  /\ status' = [status EXCEPT ![p] = "gone"]
  /\ Notify(p, status[p])
  /\ calm' = FALSE
  /\ UNCHANGED <<pc, result, watch, svcVars, outVars, generated, made, others>>

CloseWatch ==
  /\ pc # "done"
  /\ \/ watch = "open" /\ watch' = "closed" /\ UNCHANGED svcWatch
     \/ svcWatch = "open" /\ svcWatch' = "closed" /\ UNCHANGED watch
  /\ UNCHANGED <<pc, result, queue, svcQueue, port, outVars, apiVars, made, others>>

-----------------------------------------------------------------------------
\* A call fails, or panics; a panic runs no Stop.
End(r) == pc' = "done" /\ result' = r

\* DeployRouter
OpenWatch ==
  /\ pc = "watch"
  /\ \/ /\ pc' = "create" /\ watch' = "open" /\ UNCHANGED result
        /\ queue' \in {[i \in DOMAIN s |-> <<s[i], status[s[i]]>>] :
                         s \in SetToSeqs({p \in RouterPods : Exists(p)})}
     \/ End("err") /\ UNCHANGED podVars
  /\ UNCHANGED <<svcVars, outVars, apiVars, made, others>>

\* An error, of a deployment that is still there for one, leaves the watch.
CreateRouter ==
  /\ pc = "create"
  /\ \/ pc' = "wait" /\ made' = TRUE /\ UNCHANGED result
     \/ End("err") /\ UNCHANGED made
  /\ UNCHANGED <<podVars, svcVars, outVars, apiVars, others>>

\* w.Stop() follows WaitRouter in Strategy.Deploy.
StopWatch == watch' = "stopped" /\ queue' = <<>>

\* Mutant: the event is read once, before the loop.
SameEvents(q) == q

\* Every turn of the loop reads the next event.
NextEvents(q) == Tail(q)

\* WaitRouter: the next event of any pod with the label of the router.
TakePod ==
  /\ pc = "wait" /\ queue # <<>>
  /\ LET s == Head(queue)[2]
     IN  CASE s \in {"unsched", "error"} -> End("err") /\ StopWatch
           [] s = "ready" -> /\ pc' = "svcwatch" /\ queue' = NextEvents(queue)
                             /\ UNCHANGED <<result, watch>>
           [] OTHER -> queue' = NextEvents(queue) /\ UNCHANGED <<pc, result, watch>>
  /\ UNCHANGED <<svcVars, outVars, apiVars, made, others>>

\* A closed channel gives an event without an object.
TakeClosed ==
  /\ \/ pc = "wait" /\ queue = <<>> /\ watch = "closed"
     \/ pc = "svcwait" /\ svcQueue = <<>> /\ svcWatch = "closed"
  /\ End("panic")
  /\ UNCHANGED <<podVars, svcVars, outVars, apiVars, made, others>>

\* createVPNService: the watch has no selector, and starts with an event for
\* every service of the namespace.
OpenServiceWatch ==
  /\ pc = "svcwatch"
  /\ \/ /\ pc' = "svccreate" /\ svcWatch' = "open"
        /\ svcQueue' \in SetToSeqs({o \in Others : others[o] # "absent"})
        /\ UNCHANGED <<result, podVars>>
     \/ End("err") /\ StopWatch /\ UNCHANGED <<svcWatch, svcQueue>>
  /\ UNCHANGED <<port, outVars, apiVars, made, others>>

CreateService ==
  /\ pc = "svccreate"
  /\ \/ /\ pc' = "svcwait"
        /\ svcQueue' = IF svcWatch = "open" THEN Append(svcQueue, Service) ELSE svcQueue
        /\ UNCHANGED <<result, podVars>>
     \/ End("err") /\ StopWatch /\ UNCHANGED svcQueue
  /\ UNCHANGED <<svcWatch, port, outVars, apiVars, made, others>>

\* Mutant: the first port of any service is returned, a node port or not.
HasPort(s) == TRUE

\* port.NodePort > 0
HasNodePort(s) == s = Service \/ others[s] = "nodeport"

\* The first node port of any event, which the service stands for; the watch of the services stays open.
TakeService ==
  /\ pc = "svcwait" /\ svcQueue # <<>>
  /\ svcQueue' = Tail(svcQueue)
  /\ IF HasNodePort(Head(svcQueue))
       THEN port' = Head(svcQueue) /\ pc' = "list" /\ StopWatch
       ELSE UNCHANGED <<port, pc, podVars>>
  /\ UNCHANGED <<result, svcWatch, outVars, apiVars, made, others>>

\* FetchCertificates
ListRouter ==
  /\ pc = "list"
  /\ \/ /\ \E p \in RouterPods : {q \in RouterPods : Exists(q)} = {p} /\ router' = p
        /\ pc' = "read" /\ UNCHANGED result
     \/ End("err") /\ UNCHANGED router
  /\ UNCHANGED <<podVars, svcVars, todo, files, apiVars, made, others>>

\* Mutant: the error of io.Copy is dropped.
CopyAnyway(f) == files' \in {[files EXCEPT ![f] = c] : c \in {Part, router}}

\* io.Copy has read all that the command in the pod wrote.
Copy(f) == files' = [files EXCEPT ![f] = router]

\* writeCertificates: the files are read in the order of a map.  Reading,
\* opening the local file, which empties it, or copying may fail.
WriteFile(f) ==
  /\ pc = "read" /\ f \in todo
  /\ \/ /\ Exists(router) /\ router \in generated
        /\ Copy(f) /\ todo' = todo \ {f}
        /\ UNCHANGED <<pc, result>>
     \/ /\ End("err") /\ UNCHANGED todo
        /\ files' \in {files, [files EXCEPT ![f] = Part]}
  /\ UNCHANGED <<podVars, svcVars, router, apiVars, made, others>>

EndCertificates ==
  /\ pc = "read" /\ todo = {}
  /\ End("ok")
  /\ UNCHANGED <<podVars, svcVars, outVars, apiVars, made, others>>

-----------------------------------------------------------------------------
Program ==
  \/ OpenWatch \/ CreateRouter \/ TakePod \/ TakeClosed
  \/ OpenServiceWatch \/ CreateService \/ TakeService
  \/ ListRouter \/ EndCertificates \/ \E f \in Files : WriteFile(f)

Cluster == CloseWatch \/ \E p \in RouterPods : NewPod(p) \/ Change(p) \/ Delete(p)

Next == Program \/ Cluster

Spec == Init /\ [][Next]_vars

\* The program runs, and every call to the API server returns.
FairSpec == Spec /\ WF_vars(Program)

-----------------------------------------------------------------------------
\* A Deploy that goes on to the tunnel has the three files, complete and from
\* one router whose keys were generated; in a calm cluster that is the pod of
\* this deployment, and it is ready.
CertsOfReadyRouter ==
  result = "ok" =>
    /\ router \in generated /\ files = [f \in Files |-> router]
    /\ calm => router = 1 /\ status[1] = "ready"

\* The port that the tunnel will use is the node port of the router, whatever
\* the order of the events, when no service of another user has a node port.
PortOfRouter ==
  pc \in {"list", "read"} /\ (\A o \in Others : others[o] # "nodeport")
    => port = Service

\* When a pod of the router becomes ready and stays so, and the server does
\* not close a watch, Deploy stops waiting.
RouterUp ==
  /\ "closed" \notin {watch, svcWatch}
  /\ \E p \in RouterPods \ {0} : status[p] = "ready"

NoticesRouter == <>[]RouterUp => <>(pc = "done")
=============================================================================
