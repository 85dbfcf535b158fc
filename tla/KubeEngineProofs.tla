-------------------------- MODULE KubeEngineProofs --------------------------
(***************************************************************************)
(* Safety of three parts of the engine of Kubernetes: the upload of the    *)
(* configuration, for any finite list of pods; the start of the router,    *)
(* for any files, services and pods; and the cleaning, for any set of      *)
(* deployments and any number of calls.                                    *)
(***************************************************************************)
EXTENDS KubeUpload, KubeClean, KubeRouter, TLAPS, FiniteSetTheorems, SequenceTheorems

-----------------------------------------------------------------------------
(* The upload: the WaitGroup makes each stage a fan-out that reports every *)
(* pod, and the capacity of the channel lets every goroutine report        *)
(* without waiting for the parent.                                         *)

\* What the position of each goroutine says of the WaitGroup, of the channel
\* and of what the goroutine has done.
Goroutines ==
  \A p \in Pods :
    /\ p \in wg <=> worker[p] # "done"
    /\ p \in spawned <=> worker[p] # "off"
    /\ worker[p] \in {"off", "exec"} <=> outcome[stage][p] = "none"
    /\ worker[p] = "send" => outcome[stage][p] = "err" /\ p \notin errCh
    /\ p \in errCh => outcome[stage][p] = "err"
    /\ worker[p] \in {"finish", "done"} /\ outcome[stage][p] = "err"
         => p \in errCh

\* What the position of the parent says of the goroutines and of the results.
Phases ==
  /\ parent # "panic"
  /\ parent # "spawn" => spawned = Pods
  /\ closed <=> parent \in {"recv", "ok", "err"}
  /\ closed => wg = {}
  /\ parent \in {"spawn", "wait", "recv"} => stageResult[stage] = "none"
  /\ stage = "hosts" =>
       /\ parent # "ok" /\ stageResult["rules"] = "none"
       /\ \A p \in Pods : outcome["rules"][p] = "none"
  /\ stage = "rules" => \A p \in Pods : outcome["hosts"][p] = "ok"
  /\ parent = "ok" => stage = "rules" /\ \A p \in Pods : outcome["rules"][p] = "ok"

\* What a command that succeeded has done.
Effects ==
  \A p \in Pods :
    /\ outcome["hosts"][p] = "ok" =>
         FindPod(Label[p]) \in hosts /\ feeder["hosts"][p] = "done"
    /\ outcome["rules"][p] = "ok" => p \in rules /\ feeder["rules"][p] = "done"

UploadInv == TypeOK /\ Goroutines /\ Phases /\ Effects

-----------------------------------------------------------------------------
\* findPod returns a pod of the list, and the pod itself when labels differ.
LEMMA TargetInPods ==
  ASSUME NEW p \in Pods
  PROVE  /\ Target(p) \in Pods
         /\ FindPod(Label[p]) \in Pods
         /\ Distinct => FindPod(Label[p]) = p
         /\ stage = "hosts" => Target(p) = FindPod(Label[p])
         /\ stage = "rules" => Target(p) = p
<1>1. FindPod(Label[p]) \in Pods /\ Label[FindPod(Label[p])] = Label[p]
  BY DEF FindPod
<1> QED
  BY <1>1 DEF Target, Distinct

\* The channel has room for every pod that has not reported.
LEMMA Room ==
  ASSUME TypeOK, NEW p \in Pods, p \notin errCh
  PROVE  Cardinality(errCh) < Capacity
<1>1. errCh \in SUBSET Pods /\ errCh # Pods
  BY DEF TypeOK
<1>2. /\ Cardinality(errCh) <= Cardinality(Pods)
      /\ Cardinality(errCh) # Cardinality(Pods)
      /\ IsFiniteSet(errCh)
  BY <1>1, PodsAssumption, FS_Subset
<1>3. Cardinality(errCh) \in Nat /\ Cardinality(Pods) \in Nat
  BY <1>2, PodsAssumption, FS_CardinalityType
<1> QED
  BY <1>2, <1>3 DEF Capacity

\* When the channel is closed every goroutine has reported, and the channel
\* is empty exactly when all of them have succeeded.
LEMMA AllReported ==
  ASSUME UploadInv, parent = "recv"
  PROVE  /\ \A p \in Pods : outcome[stage][p] \in {"ok", "err"}
         /\ errCh = {} <=> \A p \in Pods : outcome[stage][p] = "ok"
<1>1. \A p \in Pods : worker[p] = "done"
  BY DEF UploadInv, Phases, Goroutines
<1>2. \A p \in Pods : outcome[stage][p] \in {"ok", "err"}
  BY <1>1 DEF UploadInv, Goroutines, TypeOK
<1>3. \A p \in Pods : p \in errCh <=> outcome[stage][p] = "err"
  BY <1>1 DEF UploadInv, Goroutines
<1> QED
  BY <1>2, <1>3 DEF UploadInv, TypeOK

\* The invariant holds initially.
LEMMA InitUploadInv == UploadInit => UploadInv
<1> SUFFICES ASSUME UploadInit PROVE UploadInv
  OBVIOUS
<1> USE DEF UploadInit
<1>1. TypeOK
  BY DEF TypeOK, Stages, Ended
<1>2. Goroutines
  BY DEF Goroutines, Stages
<1>3. Phases
  BY DEF Phases, Stages
<1>4. Effects
  BY DEF Effects, Stages
<1> QED
  BY <1>1, <1>2, <1>3, <1>4 DEF UploadInv

\* The steps keep the types.
LEMMA TypeStep == TypeOK /\ [UploadNext]_uploadVars => TypeOK'
<1> SUFFICES ASSUME TypeOK, [UploadNext]_uploadVars PROVE TypeOK'
  OBVIOUS
<1>1. ASSUME NEW p \in Pods, Spawn(p) PROVE TypeOK'
  BY <1>1 DEF Spawn, TypeOK, Stages, Ended, goVars, execVars
<1>2. CASE EndSpawn
  BY <1>2 DEF EndSpawn, TypeOK, Stages, Ended, goVars, execVars
<1>3. ASSUME NEW p \in Pods, ExecOk(p) PROVE TypeOK'
  BY <1>3, TargetInPods DEF ExecOk, TypeOK, Stages, Ended, goVars, execVars
<1>4. ASSUME NEW p \in Pods, ExecFails(p) PROVE TypeOK'
  BY <1>4, TargetInPods DEF ExecFails, TypeOK, Stages, Ended, goVars, execVars
<1>5. ASSUME NEW p \in Pods, SendError(p) PROVE TypeOK'
  BY <1>5 DEF SendError, TypeOK, Stages, Ended, goVars, execVars
<1>6. ASSUME NEW p \in Pods, Finish(p) PROVE TypeOK'
  BY <1>6 DEF Finish, TypeOK, Stages, Ended, goVars, execVars
<1>7. CASE WaitAll
  BY <1>7 DEF WaitAll, TypeOK, Stages, Ended, goVars, execVars
<1>8. CASE RecvError
  BY <1>8 DEF RecvError, TypeOK, Stages, Ended, goVars, execVars
<1>9. CASE RecvNil
  BY <1>9 DEF RecvNil, TypeOK, Stages, Ended, goVars, execVars
<1>10. CASE UNCHANGED uploadVars
  BY <1>10 DEF uploadVars, execVars, goVars, TypeOK, Stages, Ended
<1> QED
  BY <1>1, <1>2, <1>3, <1>4, <1>5, <1>6, <1>7, <1>8, <1>9, <1>10
  DEF UploadNext, Parent, Worker, Exec

\* The steps keep what is said of the goroutines.
LEMMA GoroutinesStep == UploadInv /\ [UploadNext]_uploadVars => Goroutines'
<1> SUFFICES ASSUME UploadInv, [UploadNext]_uploadVars PROVE Goroutines'
  OBVIOUS
<1> USE DEF UploadInv
<1>1. ASSUME NEW p \in Pods, Spawn(p) PROVE Goroutines'
  BY <1>1 DEF Spawn, TypeOK, Goroutines, Phases, Stages, Ended, goVars, execVars
<1>2. CASE EndSpawn
  BY <1>2 DEF EndSpawn, TypeOK, Goroutines, Phases, Stages, Ended, goVars, execVars
<1>3. ASSUME NEW p \in Pods, ExecOk(p) PROVE Goroutines'
  BY <1>3, TargetInPods DEF ExecOk, TypeOK, Goroutines, Phases, Stages, Ended, goVars, execVars
<1>4. ASSUME NEW p \in Pods, ExecFails(p) PROVE Goroutines'
  BY <1>4, TargetInPods DEF ExecFails, TypeOK, Goroutines, Phases, Stages, Ended, goVars, execVars
<1>5. ASSUME NEW p \in Pods, SendError(p) PROVE Goroutines'
  BY <1>5 DEF SendError, TypeOK, Goroutines, Phases, Stages, Ended, goVars, execVars
<1>6. ASSUME NEW p \in Pods, Finish(p) PROVE Goroutines'
  BY <1>6 DEF Finish, TypeOK, Goroutines, Phases, Stages, Ended, goVars, execVars
<1>7. CASE WaitAll
  BY <1>7 DEF WaitAll, TypeOK, Goroutines, Phases, Stages, Ended, goVars, execVars
<1>8. CASE RecvError
  BY <1>8 DEF RecvError, TypeOK, Goroutines, Phases, Stages, Ended, goVars, execVars
<1>9. CASE RecvNil
  BY <1>9 DEF RecvNil, TypeOK, Goroutines, Phases, Stages, Ended, goVars, execVars
<1>10. CASE UNCHANGED uploadVars
  BY <1>10 DEF uploadVars, execVars, goVars, TypeOK, Goroutines, Phases, Stages, Ended
<1> QED
  BY <1>1, <1>2, <1>3, <1>4, <1>5, <1>6, <1>7, <1>8, <1>9, <1>10
  DEF UploadNext, Parent, Worker, Exec

\* The steps keep what is said of the parent.
LEMMA PhasesStep == UploadInv /\ [UploadNext]_uploadVars => Phases'
<1> SUFFICES ASSUME UploadInv, [UploadNext]_uploadVars PROVE Phases'
  OBVIOUS
<1> USE DEF UploadInv
<1>1. ASSUME NEW p \in Pods, Spawn(p) PROVE Phases'
  BY <1>1 DEF Spawn, TypeOK, Goroutines, Phases, Stages, Ended, goVars, execVars
<1>2. CASE EndSpawn
  BY <1>2 DEF EndSpawn, TypeOK, Goroutines, Phases, Stages, Ended, goVars, execVars
<1>3. ASSUME NEW p \in Pods, ExecOk(p) PROVE Phases'
  BY <1>3, TargetInPods DEF ExecOk, TypeOK, Goroutines, Phases, Stages, Ended, goVars, execVars
<1>4. ASSUME NEW p \in Pods, ExecFails(p) PROVE Phases'
  BY <1>4, TargetInPods DEF ExecFails, TypeOK, Goroutines, Phases, Stages, Ended, goVars, execVars
<1>5. ASSUME NEW p \in Pods, SendError(p) PROVE Phases'
  BY <1>5 DEF SendError, TypeOK, Goroutines, Phases, Stages, Ended, goVars, execVars
<1>6. ASSUME NEW p \in Pods, Finish(p) PROVE Phases'
  BY <1>6 DEF Finish, TypeOK, Goroutines, Phases, Stages, Ended, goVars, execVars
<1>7. CASE WaitAll
  BY <1>7 DEF WaitAll, TypeOK, Goroutines, Phases, Stages, Ended, goVars, execVars
<1>8. CASE RecvError
  BY <1>8 DEF RecvError, TypeOK, Goroutines, Phases, Stages, Ended, goVars, execVars
<1>9. CASE RecvNil
  BY <1>9, AllReported DEF RecvNil, TypeOK, Phases, Stages, Ended, goVars, execVars
<1>10. CASE UNCHANGED uploadVars
  BY <1>10 DEF uploadVars, execVars, goVars, TypeOK, Goroutines, Phases, Stages, Ended
<1> QED
  BY <1>1, <1>2, <1>3, <1>4, <1>5, <1>6, <1>7, <1>8, <1>9, <1>10
  DEF UploadNext, Parent, Worker, Exec

\* The steps keep what successful commands have done.
LEMMA EffectsStep == UploadInv /\ [UploadNext]_uploadVars => Effects'
<1> SUFFICES ASSUME UploadInv, [UploadNext]_uploadVars PROVE Effects'
  OBVIOUS
<1> USE DEF UploadInv
<1>1. ASSUME NEW p \in Pods, Spawn(p) PROVE Effects'
  BY <1>1 DEF Spawn, TypeOK, Goroutines, Effects, Stages, Ended, goVars, execVars
<1>2. CASE EndSpawn
  BY <1>2 DEF EndSpawn, TypeOK, Goroutines, Effects, Stages, Ended, goVars, execVars
<1>3. ASSUME NEW p \in Pods, ExecOk(p) PROVE Effects'
  BY <1>3, TargetInPods DEF ExecOk, TypeOK, Goroutines, Effects, Stages, Ended, goVars, execVars
<1>4. ASSUME NEW p \in Pods, ExecFails(p) PROVE Effects'
  BY <1>4, TargetInPods DEF ExecFails, TypeOK, Goroutines, Effects, Stages, Ended, goVars, execVars
<1>5. ASSUME NEW p \in Pods, SendError(p) PROVE Effects'
  BY <1>5 DEF SendError, TypeOK, Goroutines, Effects, Stages, Ended, goVars, execVars
<1>6. ASSUME NEW p \in Pods, Finish(p) PROVE Effects'
  BY <1>6 DEF Finish, TypeOK, Goroutines, Effects, Stages, Ended, goVars, execVars
<1>7. CASE WaitAll
  BY <1>7 DEF WaitAll, TypeOK, Goroutines, Effects, Stages, Ended, goVars, execVars
<1>8. CASE RecvError
  BY <1>8 DEF RecvError, TypeOK, Goroutines, Effects, Stages, Ended, goVars, execVars
<1>9. CASE RecvNil
  BY <1>9 DEF RecvNil, TypeOK, Goroutines, Effects, Stages, Ended, goVars, execVars
<1>10. CASE UNCHANGED uploadVars
  BY <1>10 DEF uploadVars, execVars, goVars, TypeOK, Goroutines, Effects, Stages, Ended
<1> QED
  BY <1>1, <1>2, <1>3, <1>4, <1>5, <1>6, <1>7, <1>8, <1>9, <1>10
  DEF UploadNext, Parent, Worker, Exec

-----------------------------------------------------------------------------
\* UploadInv is an invariant of the upload.
LEMMA UploadInvariance == UploadSpec => []UploadInv
<1>1. UploadInv /\ [UploadNext]_uploadVars => UploadInv'
  BY TypeStep, GoroutinesStep, PhasesStep, EffectsStep DEF UploadInv
<1> QED
  BY InitUploadInv, <1>1, PTL DEF UploadSpec

\* The variables of UploadConfig keep their types.
THEOREM TypeCorrect == UploadSpec => []TypeOK
<1>1. UploadInv => TypeOK
  BY DEF UploadInv
<1> QED
  BY UploadInvariance, <1>1, PTL

\* For any number of pods and whichever of them fail, no goroutine waits for
\* room in the channel of errors or finds it closed.
THEOREM ReportsFreely == UploadSpec => []SendsFreely
<1>1. UploadInv => SendsFreely
  <2> SUFFICES ASSUME UploadInv, NEW p \in Pods, worker[p] = "send"
               PROVE  ~closed /\ Cardinality(errCh) < Capacity
    BY DEF SendsFreely
  <2>1. p \in wg /\ p \notin errCh
    BY DEF UploadInv, Goroutines
  <2>2. ~closed
    BY <2>1 DEF UploadInv, Phases
  <2>3. Cardinality(errCh) < Capacity
    BY <2>1, Room DEF UploadInv
  <2> QED
    BY <2>2, <2>3
<1> QED
  BY UploadInvariance, <1>1, PTL

\* Every pod knows the addresses of all before a rule is written.
THEOREM AliasesFirst == UploadSpec => []AliasesBeforeRules
<1>1. UploadInv => AliasesBeforeRules
  BY TargetInPods DEF UploadInv, TypeOK, Phases, Effects, AliasesBeforeRules
<1> QED
  BY UploadInvariance, <1>1, PTL

\* An upload that reports no error has configured every pod.
THEOREM UploadComplete == UploadSpec => []UploadedAll
<1>1. UploadInv => UploadedAll
  BY TargetInPods DEF UploadInv, TypeOK, Phases, Effects, UploadedAll, Stages
<1> QED
  BY UploadInvariance, <1>1, PTL

-----------------------------------------------------------------------------
\* A goroutine reports once, while its stage has no result.
LEMMA ReportsOnce ==
  ASSUME UploadInv, NEW p \in Pods, worker[p] = "exec"
  PROVE  outcome[stage][p] = "none" /\ stageResult[stage] = "none"
<1>1. p \in wg /\ outcome[stage][p] = "none"
  BY DEF UploadInv, Goroutines
<1>2. parent \in {"spawn", "wait"}
  BY <1>1 DEF UploadInv, Phases, TypeOK, Ended
<1> QED
  BY <1>1, <1>2 DEF UploadInv, Phases

\* A step of the upload is a step of the fan-out of the hosts stage, or leaves
\* its variables alone.
LEMMA HostsStep ==
  UploadInv /\ [UploadNext]_uploadVars => [Hosts!Next]_<<outcome["hosts"], stageResult["hosts"]>>
<1> SUFFICES ASSUME UploadInv, [UploadNext]_uploadVars
             PROVE  Hosts!Next \/ UNCHANGED <<outcome["hosts"], stageResult["hosts"]>>
  OBVIOUS
<1> USE DEF UploadInv
<1>1. ASSUME NEW p \in Pods, ExecOk(p) \/ ExecFails(p)
      PROVE  Hosts!Next \/ UNCHANGED <<outcome["hosts"], stageResult["hosts"]>>
  <2>1. PICK o \in {"ok", "err"} : outcome' = [outcome EXCEPT ![stage][p] = o]
    BY <1>1 DEF ExecOk, ExecFails
  <2>2. stageResult' = stageResult /\ worker[p] = "exec" /\ stage \in Stages
    BY <1>1 DEF ExecOk, ExecFails, TypeOK
  <2>3. CASE stage = "hosts"
    <3>1. Hosts!Report(p, o)
      BY <2>1, <2>2, <2>3, ReportsOnce DEF Hosts!Report, TypeOK, Stages
    <3> QED
      BY <3>1 DEF Hosts!Next
  <2>4. CASE stage # "hosts"
    BY <2>1, <2>2, <2>4 DEF TypeOK, Stages
  <2> QED
    BY <2>3, <2>4
<1>2. ASSUME RecvError \/ RecvNil
      PROVE  Hosts!Next \/ UNCHANGED <<outcome["hosts"], stageResult["hosts"]>>
  <2>1. /\ parent = "recv" /\ outcome' = outcome /\ stage \in Stages
        /\ stageResult' = [stageResult EXCEPT ![stage] = IF errCh = {} THEN "ok" ELSE "err"]
    BY <1>2 DEF RecvError, RecvNil, execVars, TypeOK
  <2>2. CASE stage = "hosts"
    <3>1. stageResult["hosts"] = "none"
      BY <2>1, <2>2 DEF Phases
    <3>2. Hosts!Conclude
      BY <2>1, <2>2, <3>1, AllReported DEF Hosts!Conclude, TypeOK, Stages
    <3> QED
      BY <3>2 DEF Hosts!Next
  <2>3. CASE stage # "hosts"
    BY <2>1, <2>3 DEF TypeOK, Stages
  <2> QED
    BY <2>2, <2>3
<1>3. ASSUME NEW p \in Pods, Spawn(p) \/ SendError(p) \/ Finish(p)
      PROVE  UNCHANGED <<outcome["hosts"], stageResult["hosts"]>>
  BY <1>3 DEF Spawn, SendError, Finish, execVars
<1>4. CASE EndSpawn \/ WaitAll \/ UNCHANGED uploadVars
  BY <1>4 DEF EndSpawn, WaitAll, uploadVars, execVars
<1> QED
  BY <1>1, <1>2, <1>3, <1>4 DEF UploadNext, Parent, Worker, Exec

\* The hosts stage implements the abstract fan-out.
LEMMA HostsImplementsFanOut == UploadSpec => Hosts!Spec
<1>1. UploadInit => Hosts!Init
  BY DEF UploadInit, Hosts!Init, Stages
<1> QED
  BY UploadInvariance, <1>1, HostsStep, PTL DEF UploadSpec, Hosts!Spec

\* A step of the upload is a step of the fan-out of the rules stage, or leaves
\* its variables alone.
LEMMA RulesStep ==
  UploadInv /\ [UploadNext]_uploadVars => [Rules!Next]_<<outcome["rules"], stageResult["rules"]>>
<1> SUFFICES ASSUME UploadInv, [UploadNext]_uploadVars
             PROVE  Rules!Next \/ UNCHANGED <<outcome["rules"], stageResult["rules"]>>
  OBVIOUS
<1> USE DEF UploadInv
<1>1. ASSUME NEW p \in Pods, ExecOk(p) \/ ExecFails(p)
      PROVE  Rules!Next \/ UNCHANGED <<outcome["rules"], stageResult["rules"]>>
  <2>1. PICK o \in {"ok", "err"} : outcome' = [outcome EXCEPT ![stage][p] = o]
    BY <1>1 DEF ExecOk, ExecFails
  <2>2. stageResult' = stageResult /\ worker[p] = "exec" /\ stage \in Stages
    BY <1>1 DEF ExecOk, ExecFails, TypeOK
  <2>3. CASE stage = "rules"
    <3>1. Rules!Report(p, o)
      BY <2>1, <2>2, <2>3, ReportsOnce DEF Rules!Report, TypeOK, Stages
    <3> QED
      BY <3>1 DEF Rules!Next
  <2>4. CASE stage # "rules"
    BY <2>1, <2>2, <2>4 DEF TypeOK, Stages
  <2> QED
    BY <2>3, <2>4
<1>2. ASSUME RecvError \/ RecvNil
      PROVE  Rules!Next \/ UNCHANGED <<outcome["rules"], stageResult["rules"]>>
  <2>1. /\ parent = "recv" /\ outcome' = outcome /\ stage \in Stages
        /\ stageResult' = [stageResult EXCEPT ![stage] = IF errCh = {} THEN "ok" ELSE "err"]
    BY <1>2 DEF RecvError, RecvNil, execVars, TypeOK
  <2>2. CASE stage = "rules"
    <3>1. stageResult["rules"] = "none"
      BY <2>1, <2>2 DEF Phases
    <3>2. Rules!Conclude
      BY <2>1, <2>2, <3>1, AllReported DEF Rules!Conclude, TypeOK, Stages
    <3> QED
      BY <3>2 DEF Rules!Next
  <2>3. CASE stage # "rules"
    BY <2>1, <2>3 DEF TypeOK, Stages
  <2> QED
    BY <2>2, <2>3
<1>3. ASSUME NEW p \in Pods, Spawn(p) \/ SendError(p) \/ Finish(p)
      PROVE  UNCHANGED <<outcome["rules"], stageResult["rules"]>>
  BY <1>3 DEF Spawn, SendError, Finish, execVars
<1>4. CASE EndSpawn \/ WaitAll \/ UNCHANGED uploadVars
  BY <1>4 DEF EndSpawn, WaitAll, uploadVars, execVars
<1> QED
  BY <1>1, <1>2, <1>3, <1>4 DEF UploadNext, Parent, Worker, Exec

\* The rules stage implements the abstract fan-out.
LEMMA RulesImplementsFanOut == UploadSpec => Rules!Spec
<1>1. UploadInit => Rules!Init
  BY DEF UploadInit, Rules!Init, Stages
<1> QED
  BY UploadInvariance, <1>1, RulesStep, PTL DEF UploadSpec, Rules!Spec

\* Each of the two rounds of goroutines implements FanOut.
THEOREM ImplementsFanOuts == UploadSpec => FanOuts
BY HostsImplementsFanOut, RulesImplementsFanOut DEF FanOuts

-----------------------------------------------------------------------------
(* The cleaning.                                                           *)
CleanEvents == Names \X Present

CleanTypes ==
  /\ at \in {"stop", "service", "watch", "delete", "wait", "done"}
  /\ events \in Seq(CleanEvents)
  /\ count \subseteq Names /\ countDeleted \subseteq count
  /\ dep \in [Names -> Present \cup {"none", "gone"}]
  /\ settled \in BOOLEAN /\ service \in BOOLEAN

\* What has been deleted when the program has come to a step.
Deleted ==
  /\ at \in {"watch", "delete", "wait"} => ~service
  /\ at = "wait" => \A n \in Names : Deployed(n) => n \in deleting
  /\ at \notin {"wait", "done"} => count = {} /\ countDeleted = {}
  /\ at \in {"stop", "service", "watch"} => ~settled
  /\ CleanMeansDeleted

\* Once every deployment had replicas, one that still has them has been seen
\* in an event, or its first event comes before any that tells of none.
Coming(n) ==
  \E i \in 1 .. Len(events) :
    events[i][1] = n /\ \A j \in 1 .. i : ~IsEmpty(events[j][2])

Settled ==
  settled =>
    /\ \A n \in Names : dep[n] # "fresh"
    /\ \A n \in countDeleted : dep[n] # "up"
    /\ \A i \in 1 .. Len(events) :
         IsEmpty(events[i][2]) => dep[events[i][1]] # "up"
    /\ \A n \in Names : dep[n] = "up" =>
         n \in count \/ (countDeleted = {} /\ Coming(n))
    /\ NoReplicasLeft

CleanInv == CleanTypes /\ Deleted /\ Settled

-----------------------------------------------------------------------------
\* What Append does to a sequence.
LEMMA AppendSeq ==
  ASSUME NEW T, NEW q \in Seq(T), NEW e \in T
  PROVE  /\ Append(q, e) \in Seq(T)
         /\ Len(q) \in Nat /\ Len(Append(q, e)) = Len(q) + 1
         /\ \A i \in 1 .. Len(q) : Append(q, e)[i] = q[i]
         /\ Append(q, e)[Len(q) + 1] = e
  BY AppendProperties

\* What the first element is, and what is left without it.
LEMMA FirstOfSeq ==
  ASSUME NEW T, NEW q \in Seq(T), q # <<>>
  PROVE  /\ Head(q) = q[1] /\ q[1] \in T /\ 1 \in 1 .. Len(q)
         /\ Tail(q) \in Seq(T) /\ Len(q) \in Nat
         /\ Len(Tail(q)) = Len(q) - 1
         /\ \A i \in 1 .. Len(q) : i - 1 \in 1 .. Len(Tail(q)) \/ i = 1
         /\ \A i \in 1 .. Len(Tail(q)) :
              i + 1 \in 1 .. Len(q) /\ Tail(q)[i] = q[i + 1]
<1>1. Len(q) \in Nat /\ Len(q) # 0
  BY EmptySeq
<1>2. 1 \in 1 .. Len(q)
  BY <1>1
<1> QED
  BY <1>1, <1>2, ElementOfSeq, HeadTailProperties

\* The orders in which all the elements of a finite set may come.
Orders(S) ==
  LET D == 1 .. Cardinality(S)
  IN  {s \in [D -> S] : \A i, j \in D : i # j => s[i] # s[j]}

\* They are what SetToSeqs gives.
LEMMA AllOrders ==
  \A S : SetToSeqs(S) = Orders(S)
  BY DEF SetToSeqs, Orders

\* Each of them is a sequence that has every element.
LEMMA AllInOrder ==
  ASSUME NEW S, IsFiniteSet(S), NEW s \in Orders(S)
  PROVE  /\ s \in Seq(S) /\ Len(s) \in Nat /\ DOMAIN s = 1 .. Len(s)
         /\ \A x \in S : \E i \in 1 .. Len(s) : s[i] = x
<1> DEFINE D == 1 .. Cardinality(S)
<1>1. s \in [D -> S] /\ \A i, j \in D : i # j => s[i] # s[j]
  BY DEF Orders
<1>2. Cardinality(S) \in Nat
  BY FS_CardinalityType
<1>3. s \in Seq(S) /\ Len(s) = Cardinality(S)
  BY <1>1, <1>2
<1>4. s \in Injection(D, S)
  BY <1>1 DEF Injection, IsInjective
<1>5. Cardinality(D) = Cardinality(S)
  BY <1>2, FS_Interval
<1>6. s \in Surjection(D, S)
  BY <1>4, <1>5, FS_Injection
<1> QED  BY <1>1, <1>2, <1>3, <1>6 DEF Surjection

-----------------------------------------------------------------------------
\* There are finitely many deployments.
LEMMA NamesFinite ==
  IsFiniteSet(Names)
  BY CleanNamesAssumption, FS_AddElement DEF Names

\* The watch begins with an event of every deployment, which is true.
LEMMA FirstEventsTrue ==
  ASSUME CleanTypes, NEW q \in InitialEvents
  PROVE  /\ q \in Seq(CleanEvents)
         /\ \A i \in 1 .. Len(q) : q[i][2] = dep[q[i][1]]
         /\ \A n \in Names : Deployed(n) => \E i \in 1 .. Len(q) : q[i][1] = n
<1> DEFINE S == {n \in Names : Deployed(n)}
<1>1. PICK s \in Orders(S) : q = [i \in DOMAIN s |-> <<s[i], dep[s[i]]>>]
  BY AllOrders DEF InitialEvents
<1>2. IsFiniteSet(S)
  BY NamesFinite, FS_Subset
<1>3. /\ s \in Seq(S) /\ Len(s) \in Nat /\ DOMAIN s = 1 .. Len(s)
      /\ \A x \in S : \E i \in 1 .. Len(s) : s[i] = x
  BY <1>2, AllInOrder
<1>4. \A i \in 1 .. Len(s) : q[i] = <<s[i], dep[s[i]]>> /\ q[i] \in CleanEvents
  BY <1>1, <1>3 DEF CleanEvents, Deployed
<1>5. q \in Seq(CleanEvents) /\ Len(q) = Len(s)
  BY <1>1, <1>3, <1>4
<1> QED  BY <1>3, <1>4, <1>5

\* A deployment changes, and the watch tells of it.
LEMMA BecomeStep ==
  ASSUME CleanTypes, NEW n \in Names, NEW s \in Present \cup {"gone"},
         Deployed(n), Become(n, s)
  PROVE  /\ CleanTypes'
         /\ UNCHANGED <<at, errs, settled, service, deleting, count, countDeleted>>
         /\ at # "done" /\ dep' = [dep EXCEPT ![n] = s]
         /\ Len(events) \in Nat /\ Len(events') \in Nat
         /\ Len(events) <= Len(events')
         /\ \A i \in 1 .. Len(events) : events'[i] = events[i]
         /\ \A i \in 1 .. Len(events') : \/ i \in 1 .. Len(events)
                                       \/ events'[i] = <<n, IF s = "gone" THEN dep[n] ELSE s>>
<1> DEFINE e == <<n, IF s = "gone" THEN dep[n] ELSE s>>
<1>1. e \in CleanEvents
  BY DEF CleanEvents, Deployed
<1>2. events' = events \/ events' = Append(events, e)
  BY DEF Become
<1>3. events \in Seq(CleanEvents)
  BY DEF CleanTypes
<1> HIDE DEF e
<1>4. /\ events' \in Seq(CleanEvents) /\ Len(events) \in Nat
      /\ Len(events') = Len(events) \/ Len(events') = Len(events) + 1
      /\ \A i \in 1 .. Len(events) : events'[i] = events[i]
      /\ Len(events') = Len(events) + 1 => events'[Len(events) + 1] = e
  BY <1>1, <1>2, <1>3, AppendSeq
<1>5. dep' \in [Names -> Present \cup {"none", "gone"}]
  BY DEF Become, CleanTypes
<1>6. CleanTypes' /\ UNCHANGED <<at, errs, settled, service, deleting, count, countDeleted>>
  BY <1>4, <1>5 DEF Become, CleanTypes
<1>7. at # "done" /\ dep' = [dep EXCEPT ![n] = s]
  BY DEF Become
<1>8. \A i \in 1 .. Len(events') : i \in 1 .. Len(events) \/ events'[i] = e
  BY <1>4
<1> QED  BY <1>4, <1>6, <1>7, <1>8 DEF e

\* Three things happen to a deployment that exists; none gives it replicas
\* again once it has had some.
LEMMA ChangeInv ==
  ASSUME CleanInv, NEW n \in Names, Scale(n) \/ Shrink(n) \/ Vanish(n)
  PROVE  CleanInv'
<1>1. PICK s \in {"up", "empty", "gone"} :
        /\ Become(n, s) /\ Deployed(n)
        /\ s = "up" => dep[n] = "fresh"
        /\ s # "up" => n \in deleting
  BY DEF Scale, Shrink, Vanish, Deployed, Present
<1>2. CleanTypes /\ Deleted /\ Settled
  BY DEF CleanInv
<1>3. /\ CleanTypes'
      /\ UNCHANGED <<at, errs, settled, service, deleting, count, countDeleted>>
      /\ at # "done" /\ dep' = [dep EXCEPT ![n] = s]
      /\ Len(events) \in Nat /\ Len(events') \in Nat /\ Len(events) <= Len(events')
      /\ \A i \in 1 .. Len(events) : events'[i] = events[i]
      /\ \A i \in 1 .. Len(events') : \/ i \in 1 .. Len(events)
                                    \/ events'[i] = <<n, IF s = "gone" THEN dep[n] ELSE s>>
  BY <1>1, <1>2, BecomeStep DEF Present
<1>4. /\ dep \in [Names -> Present \cup {"none", "gone"}]
      /\ \A m \in Names : dep'[m] = IF m = n THEN s ELSE dep[m]
  BY <1>2, <1>3 DEF CleanTypes
<1>5. Deleted'
  <2>1. \A m \in Names : Deployed(m)' => Deployed(m)
    BY <1>1, <1>4 DEF Deployed
  <2> QED  BY <1>2, <1>3, <2>1 DEF Deleted, CleanMeansDeleted
<1>6. ASSUME settled PROVE Settled'
  <2>1. \A m \in Names : dep[m] # "fresh"
    BY <1>2, <1>6 DEF Settled
  <2>2. s # "up"
    BY <1>1, <2>1
  <2>3. \A m \in Names : dep'[m] # "fresh" /\ (dep'[m] = "up" => dep[m] = "up")
    BY <1>4, <2>1, <2>2
  <2>4. \A i \in 1 .. Len(events) : events[i][1] \in Names
    BY <1>2, ElementOfSeq DEF CleanTypes, CleanEvents
  <2>5. \A i \in 1 .. Len(events') :
          IsEmpty(events'[i][2]) => dep'[events'[i][1]] # "up"
    <3> SUFFICES ASSUME NEW i \in 1 .. Len(events'), IsEmpty(events'[i][2])
                 PROVE  dep'[events'[i][1]] # "up"
      OBVIOUS
    <3>1. CASE i \in 1 .. Len(events)
      BY <1>2, <1>3, <1>6, <2>3, <2>4, <3>1 DEF Settled
    <3>2. CASE events'[i] = <<n, IF s = "gone" THEN dep[n] ELSE s>>
      BY <1>4, <2>2, <3>2
    <3> QED  BY <1>3, <3>1, <3>2
  <2>6. \A m \in Names : Coming(m) => Coming(m)'
    <3> SUFFICES ASSUME NEW m \in Names, Coming(m) PROVE Coming(m)'
      OBVIOUS
    <3>1. PICK i \in 1 .. Len(events) :
            events[i][1] = m /\ \A j \in 1 .. i : ~IsEmpty(events[j][2])
      BY DEF Coming
    <3>2. i \in 1 .. Len(events') /\ \A j \in 1 .. i : events'[j] = events[j]
      BY <1>3
    <3> QED  BY SMTT(60), <3>1, <3>2 DEF Coming, IsEmpty
  <2>7. \A m \in countDeleted : m \in Names
    BY <1>2 DEF CleanTypes
  <2> QED
    BY <1>2, <1>3, <1>6, <2>3, <2>5, <2>6, <2>7 DEF Settled, NoReplicasLeft
<1> QED
  BY <1>2, <1>3, <1>5, <1>6 DEF CleanInv, Settled

\* The watch is opened: what exists and has replicas has an event.
LEMMA OpenWatchInv ==
  ASSUME CleanInv, OpenFeed
  PROVE  CleanInv'
<1>1. CleanTypes /\ Deleted /\ Settled /\ at = "watch"
  BY DEF CleanInv, OpenFeed
<1>2. CASE Fail("watch") /\ UNCHANGED <<events, settled>>
  BY <1>1, <1>2
  DEF OpenFeed, Fail, deployVars, CleanInv, CleanTypes, Deleted, Settled,
      CleanMeansDeleted, Deployed
<1>3. CASE /\ at' = "delete" /\ events' \in InitialEvents
           /\ settled' = \A n \in Names : Deployed(n) => ~IsEmpty(dep[n])
           /\ UNCHANGED errs
  <2>1. UNCHANGED <<count, countDeleted, service, dep, deleting>>
    BY DEF OpenFeed, deployVars
  <2>2. /\ events' \in Seq(CleanEvents)
        /\ \A i \in 1 .. Len(events') : events'[i][2] = dep[events'[i][1]]
        /\ \A n \in Names : Deployed(n) => \E i \in 1 .. Len(events') : events'[i][1] = n
    BY <1>1, <1>3, FirstEventsTrue
  <2>3. CleanTypes' /\ Deleted'
    BY <1>1, <1>3, <2>1, <2>2 DEF CleanTypes, Deleted, CleanMeansDeleted
  <2>4. ASSUME settled' PROVE Settled'
    <3>1. \A n \in Names : Deployed(n) => dep[n] = "up"
      BY <1>3, <2>4 DEF Deployed, IsEmpty, Present
    <3>2. \A i \in 1 .. Len(events') : events'[i] \in CleanEvents
      BY <2>2, ElementOfSeq
    <3>3. \A i \in 1 .. Len(events') : ~IsEmpty(events'[i][2])
      BY <2>2, <3>1, <3>2 DEF CleanEvents, Deployed, IsEmpty
    <3>4. \A n \in Names : dep[n] = "up" => Coming(n)'
      <4> SUFFICES ASSUME NEW n \in Names, dep[n] = "up" PROVE Coming(n)'
        OBVIOUS
      <4>1. PICK i \in 1 .. Len(events') : events'[i][1] = n
        BY <2>2 DEF Deployed, Present
      <4>2. Len(events') \in Nat
        BY <2>2
      <4>3. \A j \in 1 .. i : j \in 1 .. Len(events')
        BY <4>2
      <4> QED  BY <3>3, <4>1, <4>3 DEF Coming, IsEmpty
    <3>5. count' = {} /\ countDeleted' = {} /\ at' # "done"
      BY <1>1, <1>3, <2>1 DEF Deleted
    <3>6. \A n \in Names : dep[n] # "fresh"
      BY <3>1 DEF Deployed, Present
    <3> QED
      BY <2>1, <3>3, <3>4, <3>5, <3>6 DEF Settled, NoReplicasLeft, IsEmpty
  <2> QED  BY <2>3, <2>4 DEF CleanInv, Settled
<1> QED  BY <1>2, <1>3 DEF OpenFeed

\* WaitDeletion takes an event; with the last of them all have been seen, and
\* seen without replicas.
LEMMA TakeEventInv ==
  ASSUME CleanInv, TakeEvent
  PROVE  CleanInv'
<1> DEFINE n == Head(events)[1]
           s == Head(events)[2]
<1>1. /\ CleanTypes /\ Deleted /\ Settled
      /\ at = "wait" /\ events # <<>> /\ events' = Tail(events)
      /\ UNCHANGED <<errs, settled, service, dep, deleting>>
  BY DEF CleanInv, TakeEvent, deployVars
<1>2. /\ Head(events) = events[1] /\ events[1] \in CleanEvents /\ 1 \in 1 .. Len(events)
      /\ Tail(events) \in Seq(CleanEvents) /\ Len(events) \in Nat
      /\ Len(Tail(events)) = Len(events) - 1
      /\ \A i \in 1 .. Len(events) : i - 1 \in 1 .. Len(Tail(events)) \/ i = 1
      /\ \A i \in 1 .. Len(Tail(events)) :
           i + 1 \in 1 .. Len(events) /\ Tail(events)[i] = events[i + 1]
  BY <1>1, FirstOfSeq DEF CleanTypes
<1>3. n \in Names /\ n = events[1][1] /\ s = events[1][2]
  BY <1>2 DEF CleanEvents
<1>4. /\ count' = count \cup {n}
      /\ countDeleted' = IF IsEmpty(s) THEN countDeleted \cup {n} ELSE countDeleted
  BY DEF TakeEvent, CountSeen
<1>5. \/ at' = "done" /\ Cardinality(countDeleted') >= Cardinality(count')
      \/ at' = "wait"
  BY <1>1, AllOrders DEF TakeEvent
<1> HIDE DEF n, s
<1>6. CleanTypes'
  BY <1>1, <1>2, <1>3, <1>4, <1>5 DEF CleanTypes
<1>7. at' = "done" => countDeleted' = count'
  <2>1. IsFiniteSet(count') /\ IsFiniteSet(countDeleted')
    BY <1>6, NamesFinite, FS_Subset DEF CleanTypes
  <2>2. Cardinality(count') \in Nat /\ Cardinality(countDeleted') \in Nat
    BY <2>1, FS_CardinalityType
  <2> QED  BY <1>5, <1>6, <2>1, <2>2, FS_Subset DEF CleanTypes
<1>8. Deleted'
  BY <1>1, <1>5 DEF Deleted, CleanMeansDeleted, Deployed
<1>9. ASSUME settled PROVE Settled'
  <2>1. /\ \A m \in Names : dep[m] # "fresh"
        /\ \A m \in countDeleted : dep[m] # "up"
        /\ \A i \in 1 .. Len(events) :
             IsEmpty(events[i][2]) => dep[events[i][1]] # "up"
        /\ \A m \in Names : dep[m] = "up" =>
             m \in count \/ (countDeleted = {} /\ Coming(m))
    BY <1>1, <1>9 DEF Settled
  <2>2. \A m \in countDeleted' : dep[m] # "up"
    BY <1>2, <1>3, <1>4, <2>1
  <2>3. \A i \in 1 .. Len(events') :
          IsEmpty(events'[i][2]) => dep[events'[i][1]] # "up"
    BY <1>1, <1>2, <2>1
  <2>4. ASSUME NEW m \in Names, dep[m] = "up"
        PROVE  m \in count' \/ (countDeleted' = {} /\ Coming(m)')
    <3>1. CASE m \in count \/ m = n
      BY <1>4, <3>1
    <3>2. CASE countDeleted = {} /\ Coming(m) /\ m # n
      <4>1. PICK i \in 1 .. Len(events) :
              events[i][1] = m /\ \A j \in 1 .. i : ~IsEmpty(events[j][2])
        BY <3>2 DEF Coming
      <4>2. 1 \in 1 .. i /\ ~IsEmpty(s)
        BY <1>2, <1>3, <4>1
      <4>3. i - 1 \in 1 .. Len(events')
        BY <1>1, <1>2, <1>3, <3>2, <4>1
      <4>4. \A j \in 1 .. i - 1 : events'[j] = events[j + 1] /\ j + 1 \in 1 .. i
        BY <1>1, <1>2, <4>1, <4>3
      <4>5. events'[i - 1] = events[i]
        BY <1>1, <1>2, <4>3
      <4> QED  BY <1>4, <3>2, <4>1, <4>2, <4>3, <4>4, <4>5 DEF Coming, IsEmpty
    <3> QED  BY <2>1, <2>4, <3>1, <3>2
  <2>5. at' = "done" => \A m \in Names : dep[m] # "up"
    <3>1. n \in count'
      BY <1>4
    <3> QED  BY <1>7, <2>2, <2>4, <3>1
  <2> QED
    BY <1>1, <2>1, <2>2, <2>3, <2>4, <2>5 DEF Settled, NoReplicasLeft
<1> QED
  BY <1>1, <1>6, <1>8, <1>9 DEF CleanInv, Settled

\* Every step keeps the invariant of the cleaning.
LEMMA CleanStep ==
  ASSUME CleanInv, [CleanNext]_cleanVars
  PROVE  CleanInv'
<1>0. CleanTypes /\ Deleted /\ Settled
  BY DEF CleanInv
<1> USE DEF deployVars, waitVars
<1>1. CASE StopTunnel \/ DeleteService \/ Timeout \/ CloseFeed
  <2>1. UNCHANGED <<events, count, countDeleted, dep, deleting>>
    BY <1>1 DEF StopTunnel, DeleteService, Timeout, CloseFeed
  <2>2. CleanTypes' /\ UNCHANGED settled
    BY <1>0, <1>1
    DEF CleanTypes, StopTunnel, DeleteService, Timeout, CloseFeed,
        Fail, Aborts
  <2>3. Deleted'
    <3> USE DEF Deleted, CleanMeansDeleted, Deployed
    <3>1. CASE StopTunnel \/ CloseFeed
      BY <1>0, <2>1, <3>1 DEF StopTunnel, CloseFeed
    <3>2. CASE DeleteService
      BY <1>0, <2>1, <3>2 DEF DeleteService, Fail, Aborts
    <3>3. CASE Timeout
      BY <1>0, <2>1, <3>3 DEF Timeout, Fail
    <3> QED  BY <1>1, <3>1, <3>2, <3>3
  <2>4. Settled'
    <3>1. NoReplicasLeft'
      BY <1>0, <1>1, <2>1
      DEF Settled, Deleted, NoReplicasLeft, StopTunnel, DeleteService,
          Timeout, CloseFeed, Fail, Aborts
    <3> QED  BY <1>0, <2>1, <2>2, <3>1 DEF Settled, Coming, IsEmpty
  <2> QED  BY <2>2, <2>3, <2>4 DEF CleanInv
<1>2. CASE DeleteCollection
  <2>1. UNCHANGED <<events, count, countDeleted, dep, settled, service>>
    BY <1>2 DEF DeleteCollection
  <2>2. CleanTypes' /\ Deleted'
    BY <1>0, <1>2, <2>1
    DEF CleanTypes, Deleted, CleanMeansDeleted, Deployed, DeleteCollection, Fail
  <2>3. Settled'
    <3>1. NoReplicasLeft'
      BY <1>2 DEF NoReplicasLeft, DeleteCollection, Fail
    <3> QED  BY <1>0, <2>1, <3>1 DEF Settled, Coming, IsEmpty
  <2> QED  BY <2>2, <2>3 DEF CleanInv
<1>3. CASE OpenFeed
  BY <1>3, OpenWatchInv
<1>4. CASE TakeEvent
  BY <1>4, TakeEventInv
<1>5. CASE CleanAgain
  BY <1>0, <1>5, EmptySeq
  DEF CleanAgain, CleanInv, CleanTypes, Deleted, Settled, CleanMeansDeleted
<1>6. ASSUME NEW n \in Names, Scale(n) \/ Shrink(n) \/ Vanish(n)
      PROVE  CleanInv'
  BY <1>6, ChangeInv
<1>7. CASE UNCHANGED cleanVars
  BY <1>0, <1>7
  DEF cleanVars, CleanInv, CleanTypes, Deleted, Settled, CleanMeansDeleted,
      NoReplicasLeft, Coming, Deployed, IsEmpty
<1> QED
  BY <1>1, <1>2, <1>3, <1>4, <1>5, <1>6, <1>7 DEF CleanNext, Cleaning, Server

\* CleanInv is an invariant of the cleaning.
LEMMA CleanInvariance ==
  CleanSpec => []CleanInv
<1>1. CleanInit => CleanInv
  BY EmptySeq
  DEF CleanInit, CleanInv, CleanTypes, Deleted, Settled, CleanMeansDeleted, Present
<1>2. CleanInv /\ [CleanNext]_cleanVars => CleanInv'
  BY CleanStep
<1> QED  BY <1>1, <1>2, PTL DEF CleanSpec

\* A Clean without an error has removed the service, and has had the deletion
\* of every deployment accepted, whatever an earlier call left.
THEOREM CleanDeletes ==
  CleanSpec => []CleanMeansDeleted
<1>1. CleanInv => CleanMeansDeleted
  BY DEF CleanInv, Deleted
<1> QED  BY <1>1, CleanInvariance, PTL

\* When all deployments had replicas as the watch was opened, a Clean without
\* an error has waited for the end of each of them, whatever the order of the
\* events.
THEOREM CleanWaits ==
  CleanSpec => []NoReplicasLeft
<1>1. CleanInv => NoReplicasLeft
  BY DEF CleanInv, Settled, NoReplicasLeft
<1> QED  BY <1>1, CleanInvariance, PTL

-----------------------------------------------------------------------------
(* The router.                                                             *)
RouterEvents == RouterPods \X Statuses

RouterTypes ==
  /\ result \in {"none", "ok", "err", "panic"} /\ (result # "none" <=> pc = "done")
  /\ queue \in Seq(RouterEvents)
  /\ svcQueue \in Seq(Others \cup {Service})
  /\ todo \subseteq Files /\ router \in RouterPods \cup {None}
  /\ files \in [Files -> RouterPods \cup {None, Part}]
  /\ status \in [RouterPods -> Statuses \cup {"none", "gone"}]
  /\ generated \subseteq RouterPods
  /\ calm \in BOOLEAN

\* The certificates are being written, or all of them are.
Reading == pc = "read" \/ result = "ok"

\* The files that have been written come from the router that was listed,
\* which had its keys when the first was read.
Written ==
  /\ ~Reading => todo = Files \/ pc = "done"
  /\ Reading => /\ \A f \in Files \ todo : files[f] = router
                /\ todo # Files => router \in generated
  /\ result = "ok" => todo = {}

\* While all is calm the only pod is the first of the deployment, and the
\* events that say that it is ready are still true.
Calm ==
  calm =>
    /\ \A p \in RouterPods \ {1} : status[p] = "none"
    /\ 1 \in RouterPods => status[1] # "gone"
    /\ \A i \in 1 .. Len(queue) : queue[i][2] = "ready" =>
         queue[i][1] = 1 /\ status[1] = "ready"
    /\ pc \in {"svcwatch", "svccreate", "svcwait", "list"} \/ Reading =>
         1 \in RouterPods /\ status[1] = "ready"
    /\ Reading => router = 1

RouterInv == RouterTypes /\ Written /\ Calm /\ PortOfRouter

\* The pods are finitely many.
LEMMA PodsFinite ==
  IsFiniteSet(RouterPods)
  BY BoundsAssumption, FS_Interval DEF RouterPods

\* The watch of the pods begins with true events.
LEMMA FirstPodEvents ==
  ASSUME RouterTypes,
         NEW q \in {[i \in DOMAIN s |-> <<s[i], status[s[i]]>>] :
                      s \in SetToSeqs({p \in RouterPods : Exists(p)})}
  PROVE  /\ q \in Seq(RouterEvents)
         /\ \A i \in 1 .. Len(q) : q[i][1] \in RouterPods /\ q[i][2] = status[q[i][1]]
<1> DEFINE S == {p \in RouterPods : Exists(p)}
<1>1. PICK s \in Orders(S) : q = [i \in DOMAIN s |-> <<s[i], status[s[i]]>>]
  BY AllOrders
<1>2. IsFiniteSet(S)
  BY PodsFinite, FS_Subset
<1>3. s \in Seq(S) /\ Len(s) \in Nat /\ DOMAIN s = 1 .. Len(s)
  BY <1>2, AllInOrder
<1>4. \A i \in 1 .. Len(s) : q[i] = <<s[i], status[s[i]]>> /\ q[i] \in RouterEvents
  BY <1>1, <1>3 DEF RouterEvents, Exists
<1>5. q \in Seq(RouterEvents) /\ Len(q) = Len(s)
  BY <1>1, <1>3, <1>4
<1> QED  BY <1>3, <1>4, <1>5 DEF RouterEvents

\* A pod changes its status to s2, and an event says s1 of it.
LEMMA NotifyStep ==
  ASSUME RouterTypes, NEW p \in RouterPods, NEW s \in Statuses, Notify(p, s)
  PROVE  /\ queue' \in Seq(RouterEvents)
         /\ \A i \in 1 .. Len(queue') :
              \/ i \in 1 .. Len(queue) /\ queue'[i] = queue[i]
              \/ queue'[i] = <<p, s>>
<1>1. <<p, s>> \in RouterEvents /\ queue \in Seq(RouterEvents)
  BY DEF RouterEvents, RouterTypes
<1>2. queue' = queue \/ queue' = Append(queue, <<p, s>>)
  BY DEF Notify
<1>3. CASE queue' = queue
  BY <1>1, <1>3
<1>4. CASE queue' = Append(queue, <<p, s>>)
  <2> DEFINE e == <<p, s>>
  <2>1. e \in RouterEvents /\ queue' = Append(queue, e)
    BY <1>1, <1>4
  <2> HIDE DEF e
  <2>2. /\ queue' \in Seq(RouterEvents)
        /\ Len(queue) \in Nat /\ Len(queue') = Len(queue) + 1
        /\ \A i \in 1 .. Len(queue) : queue'[i] = queue[i]
        /\ queue'[Len(queue) + 1] = e
    BY <1>1, <2>1, AppendSeq
  <2>3. \A i \in 1 .. Len(queue') : i \in 1 .. Len(queue) \/ i = Len(queue) + 1
    BY <2>2
  <2> QED  BY <2>2, <2>3 DEF e
<1> QED  BY <1>2, <1>3, <1>4

\* The cluster keeps the invariant.
LEMMA ClusterStep ==
  ASSUME RouterInv, Cluster
  PROVE  RouterInv'
<1>0. RouterTypes /\ Written /\ Calm /\ PortOfRouter
  BY DEF RouterInv
<1> USE DEF apiVars, podVars, svcVars, outVars
<1>1. CASE CloseWatch
  BY <1>0, <1>1
  DEF CloseWatch, RouterInv, RouterTypes, Written, Reading, Calm, PortOfRouter
<1>2. ASSUME NEW p \in RouterPods, NEW s \in Statuses, NEW t \in Statuses \cup {"gone"},
             Notify(p, s), status' = [status EXCEPT ![p] = t],
             generated' \in SUBSET RouterPods, generated \subseteq generated',
             UNCHANGED <<pc, result, watch, svcWatch, svcQueue, port, router,
                         todo, files, others>>,
             calm' \in BOOLEAN,
             calm' => calm /\ p = 1 /\ t = s /\ status[p] # "ready"
      PROVE  RouterInv'
  <2>1. /\ queue' \in Seq(RouterEvents)
        /\ \A i \in 1 .. Len(queue') :
             \/ i \in 1 .. Len(queue) /\ queue'[i] = queue[i]
             \/ queue'[i] = <<p, s>>
    BY <1>0, <1>2, NotifyStep
  <2>2. RouterTypes'
    BY <1>0, <1>2, <2>1 DEF RouterTypes
  <2>3. Written' /\ PortOfRouter'
    BY <1>0, <1>2 DEF Written, Reading, PortOfRouter
  <2>4. ASSUME calm' PROVE Calm'
    <3>1. /\ \A q \in RouterPods \ {1} : status[q] = "none"
          /\ \A i \in 1 .. Len(queue) : queue[i][2] # "ready"
          /\ ~(pc \in {"svcwatch", "svccreate", "svcwait", "list"} \/ Reading)
      BY <1>0, <1>2, <2>4 DEF Calm
    <3>2. status'[1] = s /\ \A q \in RouterPods \ {1} : status'[q] = "none"
      BY <1>0, <1>2, <2>4, <3>1 DEF RouterTypes
    <3>3. \A i \in 1 .. Len(queue') : queue'[i][2] = "ready" =>
            queue'[i][1] = 1 /\ status'[1] = "ready"
      BY <1>2, <2>1, <2>4, <3>1, <3>2
    <3> QED  BY <1>2, <3>1, <3>2, <3>3 DEF Calm, Reading, Statuses
  <2> QED  BY <2>2, <2>3, <2>4 DEF RouterInv, Calm
<1>3. ASSUME NEW p \in RouterPods, NewPod(p) PROVE RouterInv'
  <2>1. calm => p = 1 /\ status[1] # "ready"
    <3> SUFFICES ASSUME calm, p # 1 PROVE FALSE
      BY <1>3 DEF NewPod
    <3>1. 1 \in 1 .. p - 1 /\ 1 \in RouterPods
      BY BoundsAssumption, <1>3 DEF NewPod, RouterPods
    <3> QED  BY <1>0, <1>3, <3>1 DEF NewPod, Calm
  <2> QED  BY <1>0, <1>2, <1>3, <2>1 DEF NewPod, Statuses, RouterTypes
<1>4. ASSUME NEW p \in RouterPods, Change(p) PROVE RouterInv'
  <2>1. PICK t \in Statuses :
          /\ status' = [status EXCEPT ![p] = t] /\ Notify(p, t)
          /\ generated' = IF t = "ready" THEN generated \cup {p} ELSE generated
    BY <1>4 DEF Change, NextStatus, Statuses
  <2>2. calm => p = 1
    BY <1>0, <1>4 DEF Change, Exists, Statuses, Calm
  <2>3. /\ generated' \in SUBSET RouterPods /\ generated \subseteq generated'
        /\ calm' \in BOOLEAN /\ (calm' => calm /\ status[p] # "ready")
    BY <1>0, <1>4, <2>1 DEF Change, RouterTypes
  <2> QED  BY <1>2, <1>4, <2>1, <2>2, <2>3 DEF Change
<1>5. ASSUME NEW p \in RouterPods, Delete(p) PROVE RouterInv'
  <2>1. status[p] \in Statuses
    BY <1>5 DEF Delete, Exists
  <2> QED  BY <1>0, <1>2, <1>5, <2>1 DEF Delete, RouterTypes
<1> QED  BY <1>1, <1>3, <1>4, <1>5 DEF Cluster

\* A watch that is stopped has no more events.
LEMMA NoEvents ==
  ASSUME queue' = <<>>
  PROVE  queue' \in Seq(RouterEvents) /\ \A i \in 1 .. Len(queue') : FALSE
  BY EmptySeq

\* The program keeps the invariant.
LEMMA ProgramStep ==
  ASSUME RouterInv, Program
  PROVE  RouterInv'
<1>0. RouterTypes /\ Written /\ Calm /\ PortOfRouter
  BY DEF RouterInv
<1> USE DEF apiVars, podVars, svcVars, outVars, End, StopWatch
<1>1. CASE OpenWatch
  <2>1. CASE End("err") /\ UNCHANGED <<watch, queue>>
    BY <1>0, <1>1, <2>1
    DEF OpenWatch, RouterInv, RouterTypes, Written, Reading, Calm, PortOfRouter
  <2>2. CASE pc' = "create"
    <3>1. /\ queue' \in Seq(RouterEvents) /\ result' = result
          /\ \A i \in 1 .. Len(queue') :
               queue'[i][1] \in RouterPods /\ queue'[i][2] = status[queue'[i][1]]
      BY <1>0, <1>1, <2>2, FirstPodEvents DEF OpenWatch
    <3> QED
      BY <1>0, <1>1, <2>2, <3>1
      DEF OpenWatch, RouterInv, RouterTypes, Written, Reading, Calm, PortOfRouter
  <2> QED  BY <1>1, <2>1, <2>2 DEF OpenWatch
<1>2. CASE CreateRouter \/ TakeClosed
  BY <1>0, <1>2
  DEF CreateRouter, TakeClosed, RouterInv, RouterTypes, Written, Reading,
      Calm, PortOfRouter
<1>3. CASE TakePod
  <2>1. /\ Head(queue) = queue[1] /\ queue[1] \in RouterEvents /\ 1 \in 1 .. Len(queue)
        /\ Tail(queue) \in Seq(RouterEvents)
        /\ \A i \in 1 .. Len(Tail(queue)) :
             i + 1 \in 1 .. Len(queue) /\ Tail(queue)[i] = queue[i + 1]
    BY <1>0, <1>3, FirstOfSeq DEF TakePod, RouterTypes
  <2>2. pc = "wait" /\ result = "none"
    BY <1>0, <1>3 DEF TakePod, RouterTypes
  <2>3. CASE End("err") /\ queue' = <<>>
    BY <1>0, <1>3, <2>3, NoEvents
    DEF TakePod, RouterInv, RouterTypes, Written, Reading, Calm, PortOfRouter
  <2>4. CASE /\ queue' = Tail(queue) /\ UNCHANGED result
             /\ pc' = "wait" \/ (pc' = "svcwatch" /\ Head(queue)[2] = "ready")
    <3>1. calm /\ pc' = "svcwatch" => 1 \in RouterPods /\ status[1] = "ready"
      BY <1>0, <2>1, <2>4 DEF Calm, RouterEvents
    <3> QED
      BY <1>0, <1>3, <2>1, <2>2, <2>4, <3>1
      DEF TakePod, RouterInv, RouterTypes, Written, Reading, Calm, PortOfRouter
  <2>5. Head(queue)[2] \in Statuses
    BY <2>1 DEF RouterEvents
  <2> QED  BY <1>3, <2>2, <2>3, <2>4, <2>5 DEF TakePod, NextEvents, Statuses
<1>4. CASE OpenServiceWatch
  <2>1. CASE End("err") /\ queue' = <<>> /\ UNCHANGED svcQueue
    BY <1>0, <1>4, <2>1, NoEvents
    DEF OpenServiceWatch, RouterInv, RouterTypes, Written, Reading, Calm, PortOfRouter
  <2>2. CASE pc' = "svccreate" /\ UNCHANGED <<result, queue>>
    <3>1. svcQueue' \in Seq(Others \cup {Service})
      <4> DEFINE S == {o \in Others : others[o] # "absent"}
      <4>1. svcQueue' \in Orders(S) \/ UNCHANGED svcQueue
        BY <1>4, AllOrders DEF OpenServiceWatch
      <4>2. IsFiniteSet(S)
        BY NamesAssumption, FS_Subset
      <4>3. svcQueue' \in Seq(S) \/ UNCHANGED svcQueue
        BY <4>1, <4>2, AllInOrder
      <4> QED  BY <1>0, <4>3 DEF RouterTypes
    <3> QED
      BY <1>0, <1>4, <2>2, <3>1
      DEF OpenServiceWatch, RouterInv, RouterTypes, Written, Reading, Calm, PortOfRouter
  <2> QED  BY <1>4, <2>1, <2>2 DEF OpenServiceWatch
<1>5. CASE CreateService
  <2>1. svcQueue' \in Seq(Others \cup {Service})
    BY <1>0, <1>5 DEF CreateService, RouterTypes
  <2> QED
    BY <1>0, <1>5, <2>1, NoEvents
    DEF CreateService, RouterInv, RouterTypes, Written, Reading, Calm, PortOfRouter
<1>6. CASE TakeService
  <2>1. /\ Head(svcQueue) \in Others \cup {Service}
        /\ svcQueue' \in Seq(Others \cup {Service})
    BY <1>0, <1>6, FirstOfSeq DEF TakeService, RouterTypes
  <2>2. PortOfRouter'
    BY <1>0, <1>6, <2>1 DEF TakeService, HasNodePort, PortOfRouter
  <2> QED
    BY <1>0, <1>6, <2>1, <2>2, NoEvents
    DEF TakeService, RouterInv, RouterTypes, Written, Reading, Calm
<1>7. CASE ListRouter
  <2>1. calm /\ pc' = "read" => router' = 1
    BY <1>0, <1>7 DEF ListRouter, Calm, Exists, Statuses
  <2> QED
    BY <1>0, <1>7, <2>1
    DEF ListRouter, RouterInv, RouterTypes, Written, Reading, Calm, PortOfRouter
<1>8. ASSUME NEW f \in Files, WriteFile(f) PROVE RouterInv'
  <2>1. files' \in [Files -> RouterPods \cup {None, Part}]
    BY <1>0, <1>8 DEF WriteFile, Copy, RouterTypes
  <2>2. Written'
    BY <1>0, <1>8 DEF WriteFile, Copy, RouterTypes, Written, Reading
  <2>3. result' \in {"none", "err"} /\ (result' = "none" <=> pc' = "read")
    BY <1>0, <1>8 DEF WriteFile, RouterTypes
  <2> QED
    BY <1>0, <1>8, <2>1, <2>2, <2>3
    DEF WriteFile, RouterInv, RouterTypes, Reading, Calm, PortOfRouter
<1>9. CASE EndCertificates
  BY <1>0, <1>9
  DEF EndCertificates, RouterInv, RouterTypes, Written, Reading, Calm, PortOfRouter
<1> QED
  BY <1>1, <1>2, <1>3, <1>4, <1>5, <1>6, <1>7, <1>8, <1>9 DEF Program

\* RouterInv is an invariant of the start of the router.
LEMMA RouterInvariance ==
  Spec => []RouterInv
<1>1. Init => RouterInv
  <2>1. MaxGen \in Nat
    BY BoundsAssumption
  <2> QED
    BY <2>1, EmptySeq
    DEF Init, RouterInv, RouterTypes, Written, Reading, Calm, PortOfRouter,
        Statuses, RouterPods
<1>2. RouterInv /\ [Next]_vars => RouterInv'
  <2>1. RouterInv /\ UNCHANGED vars => RouterInv'
    BY DEF vars, podVars, svcVars, outVars, apiVars, RouterInv,
           RouterTypes, Written, Reading, Calm, PortOfRouter
  <2> QED  BY <2>1, ClusterStep, ProgramStep DEF Next
<1> QED  BY <1>1, <1>2, PTL DEF Spec

\* A Deploy that goes on to the tunnel has all the files, whole and from one
\* router that had generated its keys; in a calm cluster that is the pod of
\* this deployment, which is ready.
THEOREM CertificatesOfRouter ==
  Spec => []CertsOfReadyRouter
<1>1. RouterInv => CertsOfReadyRouter
  BY NamesAssumption
  DEF RouterInv, RouterTypes, Written, Reading, Calm, CertsOfReadyRouter
<1> QED  BY <1>1, RouterInvariance, PTL

\* Whatever the order of the events, the tunnel gets the node port of the
\* router when no other service of the namespace has one.
THEOREM PortIsRouters ==
  Spec => []PortOfRouter
<1>1. RouterInv => PortOfRouter
  BY DEF RouterInv
<1> QED  BY <1>1, RouterInvariance, PTL
=============================================================================
