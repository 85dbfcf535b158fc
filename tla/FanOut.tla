------------------------------- MODULE FanOut -------------------------------
(***************************************************************************)
(* What a stage of UploadConfig promises: the same task is done for every  *)
(* pod, in any order; one result comes out when all have reported, and it  *)
(* is an error exactly when a task has failed.                             *)
(***************************************************************************)
CONSTANT Pods

VARIABLES
  outcome,  \* per pod: "none", "ok" or "err"
  result    \* "none", "ok" or "err"

Init == outcome = [p \in Pods |-> "none"] /\ result = "none"

Report(p, o) ==
  /\ outcome[p] = "none" /\ result = "none"
  /\ outcome' = [outcome EXCEPT ![p] = o]
  /\ UNCHANGED result

Conclude ==
  /\ result = "none"
  /\ \A p \in Pods : outcome[p] # "none"
  /\ result' = IF \A p \in Pods : outcome[p] = "ok" THEN "ok" ELSE "err"
  /\ UNCHANGED outcome

Next == (\E p \in Pods, o \in {"ok", "err"} : Report(p, o)) \/ Conclude

Spec == Init /\ [][Next]_<<outcome, result>>
=============================================================================
