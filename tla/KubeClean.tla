----------------------------- MODULE KubeClean ------------------------------
(***************************************************************************)
(* Strategy.Clean on Kubernetes with DeleteAll and WaitDeletion of         *)
(* sim/kubernetes/engine.go: the router service is deleted, then all the   *)
(* deployments, and the events of a watch tell when they have no replicas. *)
(* Clean may be called again after it returned.                            *)
(***************************************************************************)
EXTENDS Naturals, Sequences, FiniteSets, SequencesExt

CONSTANTS
  Apps,      \* the deployments of the nodes
  Router,    \* the deployment of the router
  MaxEvents, \* events in the watch that the program has not read
  MaxCleans  \* calls of Clean

ASSUME CleanNamesAssumption == IsFiniteSet(Apps) /\ Router \notin Apps
ASSUME CleanBoundsAssumption == MaxEvents \in Nat /\ MaxCleans \in Nat

Names == Apps \cup {Router}

VARIABLES
  at,       \* the next call: "stop", "service", "watch", "delete",
            \*   "wait"; or "done"
  cleans,   \* the number of this call
  errs,     \* the errors of this call
  reply,    \* of the API server to the deletion of the service
  feed,     \* the watch: "none", "open", "closed" by the server or "stopped"
  events,   \* the events of the watch: <<name, status>>
  count,    \* the deployments seen in an event
  countDeleted, \* those seen without replicas
  settled,  \* no deployment was without replicas when the watch was opened
  service,  \* the service of the router exists
  dep,      \* per deployment, its status in the API server
  deleting  \* the deployments whose deletion has been accepted

deployVars == <<service, dep, deleting>>
waitVars   == <<events, count, countDeleted>>
cleanVars  == <<at, cleans, errs, reply, feed, waitVars, settled, deployVars>>

\* "fresh": created, no replica is reported yet; "up": it has replicas;
\* "empty": they have been removed.
Present == {"fresh", "up", "empty"}
Deployed(n) == dep[n] \in Present

\* AvailableReplicas == 0 && UnavailableReplicas == 0
IsEmpty(s) == s \in {"fresh", "empty"}

\* What a Deploy has left, complete or not: the router comes after the nodes,
\* and its service after its pod.
CleanInit ==
  /\ at = "stop" /\ cleans = 1 /\ errs = {} /\ reply = "none"
  /\ feed = "none" /\ events = <<>> /\ count = {} /\ countDeleted = {}
  /\ settled = FALSE /\ deleting = {}
  /\ dep \in [Names -> {"none", "fresh", "up"}]
  /\ dep[Router] # "none" => \A n \in Apps : dep[n] # "none"
  /\ service \in BOOLEAN /\ (service => dep[Router] = "up")

-----------------------------------------------------------------------------
\* The API server.  That a deletion is accepted is an event with the status
\* seen before, which changes nothing in WaitDeletion and is left out.
InitialEvents ==
  {[i \in DOMAIN s |-> <<s[i], dep[s[i]]>>] :
     s \in SetToSeqs({n \in Names : Deployed(n)})}

Become(n, s) ==
  /\ at # "done" /\ Len(events) < MaxEvents
  /\ dep' = [dep EXCEPT ![n] = s]
  /\ events' = IF feed = "open"
                 THEN Append(events, <<n, IF s = "gone" THEN dep[n] ELSE s>>)
                 ELSE events
  /\ UNCHANGED <<at, cleans, errs, reply, feed, count, countDeleted, settled,
                 service, deleting>>

Scale(n) == dep[n] = "fresh" /\ Become(n, "up")
Shrink(n) == n \in deleting /\ dep[n] = "up" /\ Become(n, "empty")
Vanish(n) == n \in deleting /\ Deployed(n) /\ Become(n, "gone")

CloseFeed ==
  /\ at # "done" /\ feed = "open" /\ feed' = "closed"
  /\ UNCHANGED <<at, cleans, errs, reply, waitVars, settled, deployVars>>

-----------------------------------------------------------------------------
\* DeleteAll or WaitDeletion returns an error, and the watch is stopped.
Fail(e) ==
  /\ at' = "done" /\ errs' = errs \cup {e}
  /\ feed' = IF feed \in {"open", "closed"} THEN "stopped" ELSE feed

StopTunnel ==
  /\ at = "stop" /\ at' = "service"
  /\ errs' \in {errs, errs \cup {"tunnel"}}
  /\ UNCHANGED <<cleans, reply, feed, waitVars, settled, deployVars>>

\* deleteService formats the error, so that DeleteAll finds no StatusError in
\* it and takes a service that is not found for any other failure.
Aborts(r) == r # "ok"

DeleteService ==
  /\ at = "service"
  /\ reply' \in {IF service THEN "ok" ELSE "NotFound", "fault"}
  /\ service' \in {FALSE, service /\ reply' = "fault"}
  /\ IF Aborts(reply')
       THEN Fail("service")
       ELSE at' = "watch" /\ UNCHANGED <<errs, feed>>
  /\ UNCHANGED <<cleans, waitVars, settled, dep, deleting>>

OpenFeed ==
  /\ at = "watch"
  /\ \/ /\ at' = "delete" /\ feed' = "open" /\ events' \in InitialEvents
        /\ settled' = \A n \in Names : Deployed(n) => ~IsEmpty(dep[n])
        /\ UNCHANGED errs
     \/ Fail("watch") /\ UNCHANGED <<events, settled>>
  /\ UNCHANGED <<cleans, reply, count, countDeleted, deployVars>>

\* Mutant: DeleteAll returns the watch although DeleteCollection failed.
DeleteOrNot ==
  /\ at = "delete" /\ at' = "wait"
  /\ deleting' \in {deleting, deleting \cup {n \in Names : Deployed(n)}}
  /\ UNCHANGED <<cleans, errs, reply, feed, waitVars, settled, service, dep>>

\* A DeleteCollection that fails may have accepted some of the deletions.
DeleteCollection ==
  /\ at = "delete"
  /\ LET found == {n \in Names : Deployed(n)}
     IN  \/ /\ deleting' = deleting \cup found
            /\ at' = "wait" /\ UNCHANGED <<errs, feed>>
         \/ \E S \in SUBSET found : deleting' = deleting \cup S /\ Fail("delete")
  /\ UNCHANGED <<cleans, reply, waitVars, settled, service, dep>>

\* Mutant: a deployment is counted only when it is seen without replicas.
CountEmpty(n, s) == IF IsEmpty(s) THEN count \cup {n} ELSE count

CountSeen(n, s) == count \cup {n}

\* WaitDeletion: the next event, of whatever type.
TakeEvent ==
  /\ at = "wait" /\ events # <<>>
  /\ LET n == Head(events)[1]
         s == Head(events)[2]
     IN  /\ count' = CountSeen(n, s)
         /\ countDeleted' = IF IsEmpty(s) THEN countDeleted \cup {n} ELSE countDeleted
  /\ events' = Tail(events)
  /\ IF Cardinality(countDeleted') >= Cardinality(count')
       THEN at' = "done" /\ feed' = "stopped"
       ELSE UNCHANGED <<at, feed>>
  /\ UNCHANGED <<cleans, errs, reply, settled, deployVars>>

\* Mutant: without a tick, a watch that is closed is read forever.
NoTimeout == FALSE /\ UNCHANGED cleanVars

\* The tick.  Until then a watch that is closed gives events without an
\* object, which are skipped.
Timeout ==
  /\ at = "wait" /\ Fail("timeout")
  /\ UNCHANGED <<cleans, reply, waitVars, settled, deployVars>>

\* Clean is called again.
CleanAgain ==
  /\ at = "done" /\ cleans < MaxCleans
  /\ at' = "stop" /\ cleans' = cleans + 1 /\ errs' = {} /\ reply' = "none"
  /\ feed' = "none" /\ events' = <<>> /\ count' = {} /\ countDeleted' = {}
  /\ settled' = FALSE
  /\ UNCHANGED deployVars

-----------------------------------------------------------------------------
Cleaning == \/ StopTunnel \/ DeleteService \/ OpenFeed \/ DeleteCollection
            \/ TakeEvent

Server == CloseFeed \/ \E n \in Names : Scale(n) \/ Shrink(n) \/ Vanish(n)

CleanNext == Cleaning \/ Timeout \/ CleanAgain \/ Server

CleanSpec == CleanInit /\ [][CleanNext]_cleanVars

\* The program runs and its timer fires; the server promises nothing.
CleanFairSpec == CleanSpec /\ WF_cleanVars(Cleaning) /\ WF_cleanVars(Timeout)

-----------------------------------------------------------------------------
\* A Clean without an error has removed the service, and the deletion of every
\* deployment that exists has been accepted.
CleanMeansDeleted ==
  at = "done" /\ errs = {} =>
    ~service /\ \A n \in Names : Deployed(n) => n \in deleting

\* When every deployment had replicas at the opening of the watch, a Clean
\* without an error returns only after all of them have none.
NoReplicasLeft ==
  at = "done" /\ errs = {} /\ settled => \A n \in Names : dep[n] # "up"

\* Clean returns, even when the server closes the watch or deletes nothing.
CleanReturns == at = "stop" ~> at = "done"

\* "If the service is simply not found, it ignores the error and keep on the
\* cleaning." (sim/kubernetes/engine.go:573-574)
MissingServiceIgnored == reply = "NotFound" => "service" \notin errs
=============================================================================
