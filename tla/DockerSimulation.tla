-------------------------- MODULE DockerSimulation --------------------------
(***************************************************************************)
(* Simulation.Run over the Docker strategy: one process per command line,  *)
(* each with a Strategy of its own, against a daemon that outlives them.   *)
(* Simulation decides what is called, DockerStrategy what the call does.   *)
(***************************************************************************)
EXTENDS DockerStrategy, Simulation

CONSTANT MaxRuns          \* bound on the processes

ASSUME MaxRunsAssumption == MaxRuns \in Nat

VARIABLE
  runs      \* processes started

allVars == <<vars, simVars, runs>>

RunInit == Init /\ SimInit /\ runs = 0

\* The phase that has just been chosen is called, if there is one.
Enter ==
  IF phase' \in Ops
    THEN Call(phase')
    ELSE UNCHANGED vars

\* main calls Run once, with the arguments of the process.
StartRun(line) ==
  /\ runs < MaxRuns
  /\ runs' = runs + 1
  /\ Run(line)
  /\ Enter

\* A Run that is not even given the name of the program.
StartRunWithoutArgs ==
  /\ runs < MaxRuns
  /\ runs' = runs + 1
  /\ RunMissingArgs
  /\ UNCHANGED vars

\* The call of the phase has returned, or panicked.
EndCall ==
  /\ phase \in Ops /\ pc \in Outcomes
  /\ Returns(pc)
  /\ Enter
  /\ UNCHANGED runs

\* The process ends after Run, or is interrupted during it.
EndProcess ==
  /\ NextProcess
  /\ NewProcess
  /\ UNCHANGED runs

StrategyStep ==
  /\ phase \in Ops
  /\ Strategy
  /\ UNCHANGED <<simVars, runs>>

EnvironmentStep == Environment /\ UNCHANGED <<simVars, runs>>

RunNext ==
  \/ \E n \in 0 .. MaxArgs : \E line \in [1 .. n -> Args] : StartRun(line)
  \/ StartRunWithoutArgs
  \/ EndCall \/ EndProcess \/ StrategyStep \/ EnvironmentStep

RunSpec == RunInit /\ [][RunNext]_allVars

\* Every call to the daemon and of the round returns, or fails; the main
\* goroutine then goes on.
FairRunSpec == RunSpec /\ WF_allVars(StrategyStep) /\ WF_allVars(EndCall)

-----------------------------------------------------------------------------
LastCall(o, out) ==
  calls # <<>> /\ calls[Len(calls)] = [op |-> o, out |-> out]

\* After a run whose cleaning reports no error no container of a node runs,
\* whichever phases came before, in this process or in an earlier one that was
\* interrupted.  An emulator has no label, so that the list of Clean never has it,
\* and may run on: CleanWipesAll is the statement that includes them.
CleanWipesRunning ==
  LastCall("clean", "ok") => \A n \in Nodes : app[n] # "running"

\* A run that owes a cleaning comes to it and ends, however the daemon and
\* the round fail, unless the process is interrupted.
CleanedInTheEnd ==
  (phase = "deploy" /\ Wants(args, "clean"))
    ~> (phase = "off" \/ (calls # <<>> /\ calls[Len(calls)].op = "clean"))

\* While the round is executed and while containers are stopped, and as long
\* as the flag says that the state is loaded, the list has every container
\* that runs: none is left out of the monitoring or of the cleaning.
KnowsRunning ==
  updated \/ pc \in {"monitor", "execute", "after", "stop"}
    => RunningIds \subseteq containers

\* "Clean wipes off any resources that has been created for the simulation"
\* (sim/mod.go:88): nothing is left in the daemon after a cleaning without
\* an error, emulators and containers that were never started included.
CleanWipesAll ==
  LastCall("clean", "ok") =>
    /\ \A n \in Nodes : app[n] = "none"
    /\ \A i \in Ids : emu[i] = "none"
=============================================================================
