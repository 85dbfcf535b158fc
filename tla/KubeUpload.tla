----------------------------- MODULE KubeUpload -----------------------------
(***************************************************************************)
(* kubeEngine.UploadConfig (sim/kubernetes/engine.go): two stages, the     *)
(* host aliases and then the network rules, each a fan-out of one          *)
(* goroutine per pod, a WaitGroup and a buffered channel of errors.  Every *)
(* goroutine feeds a command that runs in the pod through an io.Pipe,      *)
(* written by a second goroutine.                                          *)
(***************************************************************************)
EXTENDS Naturals, FiniteSets

CONSTANTS
  Pods,     \* kd.pods
  Label     \* the node that each pod is labelled with

ASSUME PodsAssumption == IsFiniteSet(Pods)

VARIABLES
  stage,    \* "hosts" or "rules"
  parent,   \* UploadConfig: "spawn", "wait", "recv", "ok" or "err"
  spawned,  \* pods whose goroutine has been started in this stage
  worker,   \* per pod: "off", "exec", "send", "finish" or "done"
  wg,       \* the goroutines that the WaitGroup still waits for
  errCh,    \* the pods whose error is in the channel, or has been in it
  closed,   \* the channel is closed
  feeder,   \* per stage and pod: "off", "feed" or "done"
  hosts,    \* the pods whose /etc/hosts has all the aliases
  rules,    \* the pods whose network rules are applied
  outcome,  \* per stage and pod: what its goroutine has come to
  stageResult  \* per stage: what the parent has come to

execVars == <<feeder, hosts, rules, outcome>>
goVars   == <<worker, wg, errCh, closed>>
uploadVars ==
  <<stage, parent, spawned, worker, wg, errCh, closed, feeder, hosts, rules,
    outcome, stageResult>>

Stages == {"hosts", "rules"}
Ended  == {"ok", "err", "panic"}

\* make(chan error, len(pods))
Capacity == Cardinality(Pods)

TypeOK ==
  /\ stage \in Stages
  /\ parent \in {"spawn", "wait", "recv"} \cup Ended
  /\ spawned \subseteq Pods
  /\ worker \in [Pods -> {"off", "exec", "send", "finish", "done"}]
  /\ wg \subseteq Pods /\ errCh \subseteq Pods /\ closed \in BOOLEAN
  /\ feeder \in [Stages -> [Pods -> {"off", "feed", "done"}]]
  /\ hosts \subseteq Pods /\ rules \subseteq Pods
  /\ outcome \in [Stages -> [Pods -> {"none", "ok", "err"}]]
  /\ stageResult \in [Stages -> {"none", "ok", "err"}]

UploadInit ==
  /\ stage = "hosts" /\ parent = "spawn" /\ spawned = {}
  /\ worker = [p \in Pods |-> "off"]
  /\ wg = Pods /\ errCh = {} /\ closed = FALSE
  /\ feeder = [s \in Stages |-> [p \in Pods |-> "off"]]
  /\ hosts = {} /\ rules = {}
  /\ outcome = [s \in Stages |-> [p \in Pods |-> "none"]]
  /\ stageResult = [s \in Stages |-> "none"]

-----------------------------------------------------------------------------
\* go func(pod) of the loop, which starts its feeder.
Spawn(p) ==
  /\ parent = "spawn" /\ p \notin spawned
  /\ spawned' = spawned \cup {p}
  /\ worker' = [worker EXCEPT ![p] = "exec"]
  /\ feeder' = [feeder EXCEPT ![stage][p] = "feed"]
  /\ UNCHANGED <<stage, parent, wg, errCh, closed, hosts, rules, outcome,
                 stageResult>>

EndSpawn ==
  /\ parent = "spawn" /\ spawned = Pods
  /\ parent' = "wait"
  /\ UNCHANGED <<stage, spawned, goVars, execVars, stageResult>>

\* findPod: the aliases go to the first pod with the label of this one, the
\* rules to the pod itself.
FindPod(node) == CHOOSE p \in Pods : Label[p] = node

Target(p) == IF stage = "hosts" THEN FindPod(Label[p]) ELSE p

\* The command has read its input to the end and exits with 0.
ExecOk(p) ==
  /\ worker[p] = "exec"
  /\ feeder' = [feeder EXCEPT ![stage][p] = "done"]
  /\ IF stage = "hosts"
       THEN hosts' = hosts \cup {Target(p)} /\ UNCHANGED rules
       ELSE rules' = rules \cup {Target(p)} /\ UNCHANGED hosts
  /\ outcome' = [outcome EXCEPT ![stage][p] = "ok"]
  /\ worker' = [worker EXCEPT ![p] = "finish"]
  /\ UNCHANGED <<stage, parent, spawned, wg, errCh, closed, stageResult>>

\* The pod, the command or the encoder fails.  The input may have been read,
\* and used, or not: then the feeder blocks on a pipe that nobody reads.
ExecFails(p) ==
  /\ worker[p] = "exec"
  /\ \/ UNCHANGED <<feeder, hosts, rules>>
     \/ /\ feeder' = [feeder EXCEPT ![stage][p] = "done"]
        /\ hosts' \in {hosts, hosts \cup IF stage = "hosts" THEN {Target(p)} ELSE {}}
        /\ UNCHANGED rules
  /\ outcome' = [outcome EXCEPT ![stage][p] = "err"]
  /\ worker' = [worker EXCEPT ![p] = "send"]
  /\ UNCHANGED <<stage, parent, spawned, wg, errCh, closed, stageResult>>

\* Mutant: make(chan error, 1).
SendErrorOnSmallChannel(p) ==
  /\ worker[p] = "send" /\ parent \notin Ended
  /\ Cardinality(errCh) < 1
  /\ errCh' = errCh \cup {p}
  /\ worker' = [worker EXCEPT ![p] = "finish"]
  /\ UNCHANGED <<stage, parent, spawned, wg, closed, execVars, stageResult>>

\* errCh <- err; to send on a closed channel is a panic.
SendError(p) ==
  /\ worker[p] = "send" /\ parent \notin Ended
  /\ IF closed
       THEN parent' = "panic" /\ UNCHANGED <<errCh, worker>>
       ELSE /\ Cardinality(errCh) < Capacity
            /\ errCh' = errCh \cup {p}
            /\ worker' = [worker EXCEPT ![p] = "finish"]
            /\ UNCHANGED parent
  /\ UNCHANGED <<stage, spawned, wg, closed, execVars, stageResult>>

\* Mutant: wg.Done() is called before the error is sent.
FinishBeforeSend(p) ==
  /\ \/ worker[p] = "finish" /\ worker' = [worker EXCEPT ![p] = "done"]
     \/ worker[p] = "send" /\ p \in wg /\ UNCHANGED worker
  /\ wg' = wg \ {p}
  /\ UNCHANGED <<stage, parent, spawned, errCh, closed, execVars, stageResult>>

\* defer wg.Done()
Finish(p) ==
  /\ worker[p] = "finish"
  /\ wg' = wg \ {p}
  /\ worker' = [worker EXCEPT ![p] = "done"]
  /\ UNCHANGED <<stage, parent, spawned, errCh, closed, execVars, stageResult>>

\* Mutant: the channel is closed and read without wg.Wait().
WaitForNobody ==
  /\ parent = "wait"
  /\ closed' = TRUE
  /\ parent' = "recv"
  /\ UNCHANGED <<stage, spawned, worker, wg, errCh, execVars, stageResult>>

\* wg.Wait() and close(errCh)
WaitAll ==
  /\ parent = "wait" /\ wg = {}
  /\ closed' = TRUE
  /\ parent' = "recv"
  /\ UNCHANGED <<stage, spawned, worker, wg, errCh, execVars, stageResult>>

\* Mutant: UploadConfig goes on after an error of configureContainer.
RecvErrorGoOn ==
  /\ parent = "recv" /\ errCh # {}
  /\ stageResult' = [stageResult EXCEPT ![stage] = "err"]
  /\ IF stage = "hosts"
       THEN /\ stage' = "rules" /\ parent' = "spawn" /\ spawned' = {}
            /\ worker' = [p \in Pods |-> "off"]
            /\ wg' = Pods /\ errCh' = {} /\ closed' = FALSE
       ELSE parent' = "err" /\ UNCHANGED <<stage, spawned, goVars>>
  /\ UNCHANGED execVars

\* err := <-errCh is nil on a closed channel that is empty.
RecvError ==
  /\ parent = "recv" /\ errCh # {}
  /\ parent' = "err"
  /\ stageResult' = [stageResult EXCEPT ![stage] = "err"]
  /\ UNCHANGED <<stage, spawned, goVars, execVars>>

RecvNil ==
  /\ parent = "recv" /\ errCh = {}
  /\ stageResult' = [stageResult EXCEPT ![stage] = "ok"]
  /\ IF stage = "hosts"
       THEN /\ stage' = "rules" /\ parent' = "spawn" /\ spawned' = {}
            /\ worker' = [p \in Pods |-> "off"]
            /\ wg' = Pods /\ errCh' = {} /\ closed' = FALSE
       ELSE parent' = "ok" /\ UNCHANGED <<stage, spawned, goVars>>
  /\ UNCHANGED execVars

-----------------------------------------------------------------------------
Exec(p)   == ExecOk(p) \/ ExecFails(p)
Worker(p) == Exec(p) \/ SendError(p) \/ Finish(p)
Parent    == \/ \E p \in Pods : Spawn(p)
             \/ EndSpawn \/ WaitAll \/ RecvError \/ RecvNil

UploadNext == Parent \/ \E p \in Pods : Worker(p)

UploadSpec == UploadInit /\ [][UploadNext]_uploadVars

\* The goroutines are scheduled, and the commands end.
UploadFairSpec == UploadSpec /\ WF_uploadVars(Parent) /\ \A p \in Pods : WF_uploadVars(Worker(p))

-----------------------------------------------------------------------------
\* Each stage implements the abstract fan-out: its result comes after every
\* pod has reported, and is an error exactly when a pod has failed.
Hosts == INSTANCE FanOut
           WITH outcome <- outcome["hosts"], result <- stageResult["hosts"]
Rules == INSTANCE FanOut
           WITH outcome <- outcome["rules"], result <- stageResult["rules"]

FanOuts == Hosts!Spec /\ Rules!Spec

\* A goroutine that has an error to send never waits for room in the channel
\* and never finds it closed.
SendsFreely ==
  \A p \in Pods : worker[p] = "send" /\ parent \notin Ended
    => ~closed /\ Cardinality(errCh) < Capacity

\* Pods are named in the rules by the addresses that the aliases give: no
\* rule is written before every pod of the list has its aliases, provided
\* that no two of them have the same label.
Distinct == \A p, q \in Pods : Label[p] = Label[q] => p = q

AliasesBeforeRules == Distinct /\ stage = "rules" => hosts = Pods

\* An upload without an error has configured every pod and leaves no feeder.
UploadedAll ==
  Distinct /\ parent = "ok" =>
    /\ hosts = Pods /\ rules = Pods
    /\ \A s \in Stages, p \in Pods : feeder[s][p] = "done"

\* The upload ends, however many of the pods fail.
UploadEnds == <>(parent \in {"ok", "err"})
=============================================================================
