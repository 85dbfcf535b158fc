----------------------- MODULE DockerSimulationProofs -----------------------
(***************************************************************************)
(* First the Docker strategy on its own, for any topology and any order of *)
(* calls.  Then Simulation.Run over it, for any command lines and any      *)
(* number of processes: the composition implements both of its parts, and  *)
(* a cleaning leaves no container of a node running.                       *)
(***************************************************************************)
EXTENDS DockerSimulation, SimulationProofs

-----------------------------------------------------------------------------
(* The strategy.                                                           *)

\* Which operation the program counter belongs to.
OpOf ==
  /\ pc \in CfgPcs \cup {"pull", "create", "start", "pullNetem", "before"}
       => op = "deploy"
  /\ pc = "list" => op \in {"deploy", "execute", "clean"}
  /\ pc = "logs" => op \in {"deploy", "execute"}
  /\ pc \in {"monitor", "execute", "after"} => op = "execute"
  /\ pc = "stop" => op = "clean"
  /\ pc = "fetch" => op = "stats"
  /\ pc \in {"start", "cfgAttach", "cfgStart", "cfgRules", "waitExec"}
       => cur \in Ids

\* Every container has a number.
Numbered ==
  /\ \A n \in Nodes : app[n] # "none" => gen[n] # 0
  /\ pc = "start" => gen[cur[1]] = cur[2]

\* The streams are open only between the monitoring and the end of Execute.
OpenStreams ==
  open # {} => op = "execute" /\ pc \in {"monitor", "logs", "execute", "after"}

\* The containers that configureContainers has gone past are shaped.
Shaping ==
  /\ \A e \in events : e.from = "emu" /\ e.code = 0 => e.id \in shaped
  /\ pc = "configure" => containers \subseteq shaped \cup todo
  /\ pc \in {"cfgAttach", "cfgStart", "cfgRules", "waitExec"}
       => containers \subseteq shaped \cup todo \cup {cur}
  /\ op = "deploy" /\ pc \in {"before", "ok"} => containers \subseteq shaped

\* The containers that the loop of Clean has gone past do not run, as long as
\* no error has been collected.
Stopping ==
  /\ pc = "stop" /\ ~failed => \A i \in containers \ todo : ~Live(i)
  /\ op = "clean" /\ pc = "ok" => \A i \in containers : ~Live(i)

IInv == TypeOK /\ OpOf /\ Numbered /\ OpenStreams /\ Shaping /\ Stopping

-----------------------------------------------------------------------------
\* A fresh object has loaded nothing and opened nothing.
LEMMA InitIInv == Init => IInv
<1> SUFFICES ASSUME Init PROVE IInv
  OBVIOUS
<1> USE DEF Init
<1>1. TypeOK
  <2>1. /\ app \in [Nodes -> {"none", "created", "running"}]
        /\ gen \in [Nodes -> 0 .. MaxGen]
        /\ emu \in [Ids -> {"none", "created", "running", "fed"}]
    BY MaxGenAssumption
  <2>2. cur \in Ids \cup {NoId} /\ op \in Ops /\ pc \in Done
    BY DEF NoId, Ops, Done
  <2> QED  BY <2>1, <2>2 DEF TypeOK
<1>2. OpOf /\ Numbered
  BY DEF OpOf, Numbered, CfgPcs
<1>3. OpenStreams /\ Shaping /\ Stopping
  BY DEF OpenStreams, Shaping, Stopping
<1> QED  BY <1>1, <1>2, <1>3 DEF IInv

\* One more within the bound.
LEMMA Bump ==
  ASSUME NEW S, NEW m \in Nat, NEW f \in [S -> 0 .. m], NEW n \in S, f[n] < m
  PROVE  [f EXCEPT ![n] = f[n] + 1] \in [S -> 0 .. m]
  OBVIOUS

\* The container that createContainers makes for a node.
LEMMA NextNumber ==
  ASSUME IInv, NEW n \in pending, gen[n] < MaxGen
  PROVE  <<n, gen[n] + 1>> \in Ids
<1>1. n \in Nodes /\ gen[n] \in 0 .. MaxGen
  BY DEF IInv, TypeOK
<1>2. gen[n] + 1 \in 1 .. MaxGen
  BY <1>1, MaxGenAssumption
<1> QED  BY <1>1, <1>2 DEF Ids

\* Every call keeps the typing.
LEMMA NextTypeOK == IInv /\ [Next]_vars => TypeOK'
<1> SUFFICES ASSUME IInv, [Next]_vars PROVE TypeOK'
  OBVIOUS
<1> USE DEF IInv, TypeOK, OpOf, Ids, Ops, Done, CfgPcs, NoId, daemonVars, memVars, ioVars, callVars
<1>1. CASE PullImage
  BY <1>1 DEF PullImage, Loop, Fails
<1>2. CASE CreateContainer
  <2>1. ASSUME NEW n \in pending, CreateFor(n)
        PROVE  /\ app' \in [Nodes -> {"none", "created", "running"}]
               /\ gen' \in [Nodes -> 0 .. MaxGen] /\ <<n, gen[n] + 1>> \in Ids
    <3>1. n \in Nodes /\ gen[n] < MaxGen
      BY <2>1 DEF CreateFor
    <3>2. <<n, gen[n] + 1>> \in Ids
      BY <3>1, NextNumber
    <3>3. gen' \in [Nodes -> 0 .. MaxGen]
      BY <2>1, <3>1, Bump, MaxGenAssumption DEF CreateFor
    <3> QED  BY <2>1, <3>1, <3>2, <3>3 DEF CreateFor
  <2>2. CASE Fails
    <3>1. /\ app' \in [Nodes -> {"none", "created", "running"}]
          /\ gen' \in [Nodes -> 0 .. MaxGen]
      BY <1>2, <2>1 DEF CreateContainer
    <3> QED  BY <1>2, <2>2, <3>1 DEF CreateContainer, Fails
  <2>3. ASSUME NEW n \in pending, CreateFor(n), cur' = <<n, gen[n] + 1>>,
               pending' = pending \ {n}, pc' = "start",
               UNCHANGED <<op, todo, events, failed>>
        PROVE  TypeOK'
    <3>1. /\ app' \in [Nodes -> {"none", "created", "running"}]
          /\ gen' \in [Nodes -> 0 .. MaxGen] /\ cur' \in Ids
      BY <2>1, <2>3
    <3>2. /\ UNCHANGED <<emu, shaped, updated, streamingLogs, containers, open, stats, result>>
          /\ pending' \subseteq Nodes
      BY <1>2, <2>3 DEF CreateContainer
    <3> QED  BY <2>3, <3>1, <3>2
  <2> HIDE DEF TypeOK, IInv
  <2> QED  BY <1>2, <2>2, <2>3 DEF CreateContainer
<1>3. CASE StartContainer
  BY <1>3 DEF StartContainer, Loop, Fails
<1>4. CASE RefreshContainers
  BY <1>4 DEF RefreshContainers, AfterList, Loop, Fails, RunningIds
<1>5. CASE StreamLogs
  BY <1>5 DEF StreamLogs, Fails, CloseStreams
<1>6. CASE PullNetem
  BY <1>6 DEF PullNetem, Loop, Fails
<1>7. CASE CreateEmulator
  BY ZenonT(60), <1>7 DEF CreateEmulator, Fails
<1>8. CASE AttachEmulator
  BY <1>8 DEF AttachEmulator, Fails
<1>9. CASE StartEmulator
  BY <1>9 DEF StartEmulator, Fails
<1>10. CASE SendRules
  BY <1>10 DEF SendRules, Fails
<1>11. CASE WaitExec
  BY <1>11 DEF WaitExec, Loop, Fails, OwnDeath
<1>12. CASE Before
  BY <1>12 DEF Before
<1>13. CASE MonitorContainer
  BY <1>13 DEF MonitorContainer, Loop, Fails, CloseStreams
<1>14. CASE ExecuteRound
  BY <1>14 DEF ExecuteRound, CloseStreams
<1>15. CASE AfterRound
  BY <1>15 DEF AfterRound, CloseStreams
<1>16. CASE FetchStats
  BY <1>16 DEF FetchStats
<1>17. CASE StopContainer
  BY <1>17 DEF StopContainer, Loop, Live
<1>18. CASE NewProcess
  BY <1>18 DEF NewProcess, NewMemory
<1>19. ASSUME NEW o \in Ops, Call(o) PROVE TypeOK'
  BY <1>19 DEF Call
<1>20. ASSUME NEW n \in Nodes, AppDies(n) PROVE TypeOK'
  <2>1. Id(n) \in Ids
    BY <1>20, MaxGenAssumption DEF AppDies, Id, Numbered
  <2>2. app' \in [Nodes -> {"none", "created", "running"}]
    BY <1>20 DEF AppDies
  <2> QED  BY <1>20, <2>1, <2>2 DEF AppDies, Event
<1>21. ASSUME NEW i \in Ids, EmuApplies(i) PROVE TypeOK'
  BY <1>21 DEF EmuApplies, Event
<1>22. ASSUME NEW i \in Ids, EmuFails(i) PROVE TypeOK'
  BY <1>22 DEF EmuFails, Event
<1>23. ASSUME NEW i \in Ids, Sample(i) PROVE TypeOK'
  BY <1>23 DEF Sample
<1>24. CASE UNCHANGED vars
  BY <1>24 DEF vars
<1> QED
  BY <1>1, <1>2, <1>3, <1>4, <1>5, <1>6, <1>7, <1>8, <1>9, <1>10, <1>11,
     <1>12, <1>13, <1>14, <1>15, <1>16, <1>17, <1>18, <1>19, <1>20, <1>21,
     <1>22, <1>23, <1>24
  DEF Next, Strategy, Deploy, Execute, Environment

\* A container is created under the next number.
LEMMA NextNumbered == IInv /\ [Next]_vars => Numbered'
<1> SUFFICES ASSUME IInv, [Next]_vars PROVE Numbered'
  OBVIOUS
<1> USE DEF IInv, TypeOK, OpOf, Numbered, Ids, Ops, CfgPcs, Done, daemonVars, memVars, ioVars, callVars
<1>1. CASE PullImage
  BY <1>1 DEF PullImage, Loop, Fails
<1>2. CASE CreateContainer
  BY <1>2 DEF CreateContainer, CreateFor, Fails
<1>3. CASE StartContainer
  BY <1>3 DEF StartContainer, Loop, Fails
<1>4. CASE RefreshContainers
  BY <1>4 DEF RefreshContainers, AfterList, Loop, Fails, RunningIds
<1>5. CASE StreamLogs
  BY <1>5 DEF StreamLogs, Fails, CloseStreams
<1>6. CASE PullNetem
  BY <1>6 DEF PullNetem, Loop, Fails
<1>7. CASE CreateEmulator
  BY <1>7 DEF CreateEmulator, Fails
<1>8. CASE AttachEmulator
  BY <1>8 DEF AttachEmulator, Fails
<1>9. CASE StartEmulator
  BY <1>9 DEF StartEmulator, Fails
<1>10. CASE SendRules
  BY <1>10 DEF SendRules, Fails
<1>11. CASE WaitExec
  BY <1>11 DEF WaitExec, Loop, Fails, OwnDeath
<1>12. CASE Before
  BY <1>12 DEF Before
<1>13. CASE MonitorContainer
  BY <1>13 DEF MonitorContainer, Loop, Fails, CloseStreams
<1>14. CASE ExecuteRound
  BY <1>14 DEF ExecuteRound, CloseStreams
<1>15. CASE AfterRound
  BY <1>15 DEF AfterRound, CloseStreams
<1>16. CASE FetchStats
  BY <1>16 DEF FetchStats
<1>17. CASE StopContainer
  BY <1>17 DEF StopContainer, Loop, Live
<1>18. CASE NewProcess
  BY <1>18 DEF NewProcess, NewMemory
<1>19. ASSUME NEW o \in Ops, Call(o) PROVE Numbered'
  BY <1>19 DEF Call
<1>20. ASSUME NEW n \in Nodes, AppDies(n) PROVE Numbered'
  BY <1>20 DEF AppDies, Event, Id, Live
<1>21. ASSUME NEW i \in Ids, EmuApplies(i) PROVE Numbered'
  BY <1>21 DEF EmuApplies, Event
<1>22. ASSUME NEW i \in Ids, EmuFails(i) PROVE Numbered'
  BY <1>22 DEF EmuFails, Event
<1>23. ASSUME NEW i \in Ids, Sample(i) PROVE Numbered'
  BY <1>23 DEF Sample
<1>24. CASE UNCHANGED vars
  BY <1>24 DEF vars
<1> QED
  BY <1>1, <1>2, <1>3, <1>4, <1>5, <1>6, <1>7, <1>8, <1>9, <1>10, <1>11,
     <1>12, <1>13, <1>14, <1>15, <1>16, <1>17, <1>18, <1>19, <1>20, <1>21,
     <1>22, <1>23, <1>24
  DEF Next, Strategy, Deploy, Execute, Environment

\* The program counter stays within its operation.
LEMMA NextOpOf == IInv /\ [Next]_vars => OpOf'
<1> SUFFICES ASSUME IInv, [Next]_vars PROVE OpOf'
  OBVIOUS
<1> USE DEF IInv, TypeOK, OpOf, Ops, Done, CfgPcs, daemonVars, memVars, ioVars, callVars
<1>1. CASE PullImage
  BY <1>1 DEF PullImage, Loop, Fails
<1>2. CASE CreateContainer
  BY <1>2, NextNumber DEF CreateContainer, CreateFor, Fails
<1>3. CASE StartContainer
  BY <1>3 DEF StartContainer, Loop, Fails
<1>4. CASE RefreshContainers
  BY <1>4 DEF RefreshContainers, AfterList, Loop, Fails, RunningIds
<1>5. CASE StreamLogs
  BY <1>5 DEF StreamLogs, Fails, CloseStreams
<1>6. CASE PullNetem
  BY <1>6 DEF PullNetem, Loop, Fails
<1>7. CASE CreateEmulator
  BY <1>7 DEF CreateEmulator, Fails
<1>8. CASE AttachEmulator
  BY <1>8 DEF AttachEmulator, Fails
<1>9. CASE StartEmulator
  BY <1>9 DEF StartEmulator, Fails
<1>10. CASE SendRules
  BY <1>10 DEF SendRules, Fails
<1>11. CASE WaitExec
  BY <1>11 DEF WaitExec, Loop, Fails, OwnDeath
<1>12. CASE Before
  BY <1>12 DEF Before
<1>13. CASE MonitorContainer
  BY <1>13 DEF MonitorContainer, Loop, Fails, CloseStreams
<1>14. CASE ExecuteRound
  BY <1>14 DEF ExecuteRound, CloseStreams
<1>15. CASE AfterRound
  BY <1>15 DEF AfterRound, CloseStreams
<1>16. CASE FetchStats
  BY <1>16 DEF FetchStats
<1>17. CASE StopContainer
  BY <1>17 DEF StopContainer, Loop, Live
<1>18. CASE NewProcess
  BY <1>18 DEF NewProcess, NewMemory
<1>19. ASSUME NEW o \in Ops, Call(o) PROVE OpOf'
  BY <1>19 DEF Call
<1>20. ASSUME NEW n \in Nodes, AppDies(n) PROVE OpOf'
  BY <1>20 DEF AppDies, Event, Id, Live
<1>21. ASSUME NEW i \in Ids, EmuApplies(i) PROVE OpOf'
  BY <1>21 DEF EmuApplies, Event
<1>22. ASSUME NEW i \in Ids, EmuFails(i) PROVE OpOf'
  BY <1>22 DEF EmuFails, Event
<1>23. ASSUME NEW i \in Ids, Sample(i) PROVE OpOf'
  BY <1>23 DEF Sample
<1>24. CASE UNCHANGED vars
  BY <1>24 DEF vars
<1> QED
  BY <1>1, <1>2, <1>3, <1>4, <1>5, <1>6, <1>7, <1>8, <1>9, <1>10, <1>11,
     <1>12, <1>13, <1>14, <1>15, <1>16, <1>17, <1>18, <1>19, <1>20, <1>21,
     <1>22, <1>23, <1>24
  DEF Next, Strategy, Deploy, Execute, Environment

\* Every way out of Execute closes the streams.
LEMMA NextOpenStreams == IInv /\ [Next]_vars => OpenStreams'
<1> SUFFICES ASSUME IInv, [Next]_vars PROVE OpenStreams'
  OBVIOUS
<1> USE DEF IInv, OpOf, OpenStreams, Ops, Done, CfgPcs, daemonVars, memVars, ioVars, callVars
<1>1. CASE PullImage
  BY <1>1 DEF PullImage, Loop, Fails
<1>2. CASE CreateContainer
  BY <1>2 DEF CreateContainer, CreateFor, Fails
<1>3. CASE StartContainer
  BY <1>3 DEF StartContainer, Loop, Fails
<1>4. CASE RefreshContainers
  BY <1>4 DEF RefreshContainers, AfterList, Loop, Fails, RunningIds
<1>5. CASE StreamLogs
  BY <1>5 DEF StreamLogs, Fails, CloseStreams
<1>6. CASE PullNetem
  BY <1>6 DEF PullNetem, Loop, Fails
<1>7. CASE CreateEmulator
  BY <1>7 DEF CreateEmulator, Fails
<1>8. CASE AttachEmulator
  BY <1>8 DEF AttachEmulator, Fails
<1>9. CASE StartEmulator
  BY <1>9 DEF StartEmulator, Fails
<1>10. CASE SendRules
  BY <1>10 DEF SendRules, Fails
<1>11. CASE WaitExec
  BY <1>11 DEF WaitExec, Loop, Fails, OwnDeath
<1>12. CASE Before
  BY <1>12 DEF Before
<1>13. CASE MonitorContainer
  BY <1>13 DEF MonitorContainer, Loop, Fails, CloseStreams
<1>14. CASE ExecuteRound
  BY <1>14 DEF ExecuteRound, CloseStreams
<1>15. CASE AfterRound
  BY <1>15 DEF AfterRound, CloseStreams
<1>16. CASE FetchStats
  BY <1>16 DEF FetchStats
<1>17. CASE StopContainer
  BY <1>17 DEF StopContainer, Loop, Live
<1>18. CASE NewProcess
  BY <1>18 DEF NewProcess, NewMemory
<1>19. ASSUME NEW o \in Ops, Call(o) PROVE OpenStreams'
  BY <1>19 DEF Call
<1>20. ASSUME NEW n \in Nodes, AppDies(n) PROVE OpenStreams'
  BY <1>20 DEF AppDies, Event, Id, Live
<1>21. ASSUME NEW i \in Ids, EmuApplies(i) PROVE OpenStreams'
  BY <1>21 DEF EmuApplies, Event
<1>22. ASSUME NEW i \in Ids, EmuFails(i) PROVE OpenStreams'
  BY <1>22 DEF EmuFails, Event
<1>23. ASSUME NEW i \in Ids, Sample(i) PROVE OpenStreams'
  BY <1>23 DEF Sample
<1>24. CASE UNCHANGED vars
  BY <1>24 DEF vars
<1> QED
  BY <1>1, <1>2, <1>3, <1>4, <1>5, <1>6, <1>7, <1>8, <1>9, <1>10, <1>11,
     <1>12, <1>13, <1>14, <1>15, <1>16, <1>17, <1>18, <1>19, <1>20, <1>21,
     <1>22, <1>23, <1>24
  DEF Next, Strategy, Deploy, Execute, Environment

\* The loop of configureContainers goes on only past a shaped container.
LEMMA NextShaping == IInv /\ [Next]_vars => Shaping'
<1> SUFFICES ASSUME IInv, [Next]_vars PROVE Shaping'
  OBVIOUS
<1> USE DEF IInv, TypeOK, OpOf, Shaping, Ops, Done, CfgPcs, Listening, daemonVars, memVars, ioVars, callVars
<1>1. CASE PullImage
  BY <1>1 DEF PullImage, Loop, Fails
<1>2. CASE CreateContainer
  BY <1>2 DEF CreateContainer, CreateFor, Fails
<1>3. CASE StartContainer
  BY <1>3 DEF StartContainer, Loop, Fails
<1>4. CASE RefreshContainers
  BY <1>4 DEF RefreshContainers, AfterList, Loop, Fails, RunningIds
<1>5. CASE StreamLogs
  BY <1>5 DEF StreamLogs, Fails, CloseStreams
<1>6. CASE PullNetem
  BY <1>6 DEF PullNetem, Loop, Fails
<1>7. CASE CreateEmulator
  BY <1>7 DEF CreateEmulator, Fails
<1>8. CASE AttachEmulator
  BY <1>8 DEF AttachEmulator, Fails
<1>9. CASE StartEmulator
  BY <1>9 DEF StartEmulator, Fails
<1>10. CASE SendRules
  BY <1>10 DEF SendRules, Fails
<1>11. CASE WaitExec
  BY <1>11 DEF WaitExec, Loop, Fails, OwnDeath
<1>12. CASE Before
  BY <1>12 DEF Before
<1>13. CASE MonitorContainer
  BY <1>13 DEF MonitorContainer, Loop, Fails, CloseStreams
<1>14. CASE ExecuteRound
  BY <1>14 DEF ExecuteRound, CloseStreams
<1>15. CASE AfterRound
  BY <1>15 DEF AfterRound, CloseStreams
<1>16. CASE FetchStats
  BY <1>16 DEF FetchStats
<1>17. CASE StopContainer
  BY <1>17 DEF StopContainer, Loop, Live
<1>18. CASE NewProcess
  BY <1>18 DEF NewProcess, NewMemory
<1>19. ASSUME NEW o \in Ops, Call(o) PROVE Shaping'
  BY <1>19 DEF Call
<1>20. ASSUME NEW n \in Nodes, AppDies(n) PROVE Shaping'
  BY <1>20 DEF AppDies, Event, Id, Live
<1>21. ASSUME NEW i \in Ids, EmuApplies(i) PROVE Shaping'
  BY <1>21 DEF EmuApplies, Event
<1>22. ASSUME NEW i \in Ids, EmuFails(i) PROVE Shaping'
  BY <1>22 DEF EmuFails, Event
<1>23. ASSUME NEW i \in Ids, Sample(i) PROVE Shaping'
  BY <1>23 DEF Sample
<1>24. CASE UNCHANGED vars
  BY <1>24 DEF vars
<1> QED
  BY <1>1, <1>2, <1>3, <1>4, <1>5, <1>6, <1>7, <1>8, <1>9, <1>10, <1>11,
     <1>12, <1>13, <1>14, <1>15, <1>16, <1>17, <1>18, <1>19, <1>20, <1>21,
     <1>22, <1>23, <1>24
  DEF Next, Strategy, Deploy, Execute, Environment

\* The loop of Clean stops a container or records an error.
LEMMA NextStopping == IInv /\ [Next]_vars => Stopping'
<1> SUFFICES ASSUME IInv, [Next]_vars PROVE Stopping'
  OBVIOUS
<1> USE DEF IInv, TypeOK, OpOf, Stopping, Ids, Ops, Done, CfgPcs, Live, daemonVars, memVars, ioVars, callVars
<1>1. CASE PullImage
  BY <1>1 DEF PullImage, Loop, Fails
<1>2. CASE CreateContainer
  BY <1>2 DEF CreateContainer, CreateFor, Fails
<1>3. CASE StartContainer
  BY <1>3 DEF StartContainer, Loop, Fails
<1>4. CASE RefreshContainers
  BY <1>4 DEF RefreshContainers, AfterList, Loop, Fails, RunningIds
<1>5. CASE StreamLogs
  BY <1>5 DEF StreamLogs, Fails, CloseStreams
<1>6. CASE PullNetem
  BY <1>6 DEF PullNetem, Loop, Fails
<1>7. CASE CreateEmulator
  BY <1>7 DEF CreateEmulator, Fails
<1>8. CASE AttachEmulator
  BY <1>8 DEF AttachEmulator, Fails
<1>9. CASE StartEmulator
  BY <1>9 DEF StartEmulator, Fails
<1>10. CASE SendRules
  BY <1>10 DEF SendRules, Fails
<1>11. CASE WaitExec
  BY <1>11 DEF WaitExec, Loop, Fails, OwnDeath
<1>12. CASE Before
  BY <1>12 DEF Before
<1>13. CASE MonitorContainer
  BY <1>13 DEF MonitorContainer, Loop, Fails, CloseStreams
<1>14. CASE ExecuteRound
  BY <1>14 DEF ExecuteRound, CloseStreams
<1>15. CASE AfterRound
  BY <1>15 DEF AfterRound, CloseStreams
<1>16. CASE FetchStats
  BY <1>16 DEF FetchStats
<1>17. CASE StopContainer
  <2>1. PICK i \in todo :
          /\ todo' = todo \ {i}
          /\ \/ app' = [app EXCEPT ![i[1]] = "none"] /\ Live(i)
             \/ failed' = TRUE /\ UNCHANGED app
          /\ failed' \in {failed, TRUE}
    BY <1>17 DEF StopContainer
  <2>2. /\ pc = "stop" /\ op' = op /\ op = "clean" /\ UNCHANGED <<gen, containers>>
        /\ pc' = IF todo' = {} THEN (IF failed' THEN "err" ELSE "ok") ELSE "stop"
    BY <1>17 DEF StopContainer, Loop
  <2>3. ~failed' => /\ ~failed /\ app' = [app EXCEPT ![i[1]] = "none"]
    BY <2>1
  <2>4. ~failed' => \A j \in containers \ todo' : ~(Live(j))'
    BY <2>1, <2>2, <2>3
  <2> QED  BY <2>2, <2>4
<1>18. CASE NewProcess
  BY <1>18 DEF NewProcess, NewMemory
<1>19. ASSUME NEW o \in Ops, Call(o) PROVE Stopping'
  BY <1>19 DEF Call
<1>20. ASSUME NEW n \in Nodes, AppDies(n) PROVE Stopping'
  BY <1>20 DEF AppDies, Event, Id, Live
<1>21. ASSUME NEW i \in Ids, EmuApplies(i) PROVE Stopping'
  BY <1>21 DEF EmuApplies, Event
<1>22. ASSUME NEW i \in Ids, EmuFails(i) PROVE Stopping'
  BY <1>22 DEF EmuFails, Event
<1>23. ASSUME NEW i \in Ids, Sample(i) PROVE Stopping'
  BY <1>23 DEF Sample
<1>24. CASE UNCHANGED vars
  BY <1>24 DEF vars
<1> QED
  BY <1>1, <1>2, <1>3, <1>4, <1>5, <1>6, <1>7, <1>8, <1>9, <1>10, <1>11,
     <1>12, <1>13, <1>14, <1>15, <1>16, <1>17, <1>18, <1>19, <1>20, <1>21,
     <1>22, <1>23, <1>24
  DEF Next, Strategy, Deploy, Execute, Environment

\* IInv is an invariant of the strategy.
LEMMA Invariance == Spec => []IInv
<1>1. IInv /\ [Next]_vars => IInv'
  BY NextTypeOK, NextOpOf, NextNumbered, NextOpenStreams, NextShaping, NextStopping DEF IInv
<1> QED  BY InitIInv, <1>1, PTL DEF Spec

-----------------------------------------------------------------------------
\* Every variable of the strategy and of the daemon keeps its type.
THEOREM TypeCorrect == Spec => []TypeOK
<1>1. IInv => TypeOK  BY DEF IInv
<1> QED  BY <1>1, Invariance, PTL

\* No call leaves a stats stream open, whatever fails or panics in it.
THEOREM NoStreamLeaks == Spec => []StreamsClosed
<1>1. IInv => StreamsClosed  BY DEF IInv, OpenStreams, StreamsClosed, Done
<1> QED  BY <1>1, Invariance, PTL

\* The round is never told of a deployment whose rules are not applied.
THEOREM DeploysShaped == Spec => []RulesBeforeRound
<1>1. IInv => RulesBeforeRound  BY DEF IInv, Shaping, RulesBeforeRound
<1> QED  BY <1>1, Invariance, PTL

\* A cleaning without an error has stopped all that it had listed.
THEOREM CleansItsList == Spec => []CleanStopsListed
<1>1. IInv => CleanStopsListed  BY DEF IInv, Stopping, CleanStopsListed
<1> QED  BY <1>1, Invariance, PTL

-----------------------------------------------------------------------------
(* The composition.                                                        *)

\* The steps that come after the containers have been listed.
Listed == CfgPcs \cup {"logs", "pullNetem", "before", "monitor", "execute",
                       "after", "stop"}

\* The call in progress is the one of the phase.
InPhase ==
  /\ phase \in Ops => op = phase
  /\ phase = "off" => ~updated /\ pc = "idle"
  /\ pc = "panic" => op \in {"deploy", "execute"}

\* Containers are started only while the flag says that the list is not
\* loaded; once it is loaded, nothing runs that is not in it.
Loading ==
  /\ pc \in {"pull", "create", "start"} \/ (pc = "list" /\ op = "deploy")
       => ~updated
  /\ updated \/ pc \in Listed => RunningIds \subseteq containers
  /\ op = "clean" /\ pc = "ok" => updated

\* A cleaning is the last call of its process.
LastIsClean ==
  LastCall("clean", "ok") => phase \in {"returned", "panicked"} /\ RunningIds = {}

RInv == InPhase /\ Loading /\ CallsType /\ LastIsClean

-----------------------------------------------------------------------------
\* The first process has not called anything.
LEMMA InitRInv == RunInit => RInv
<1> SUFFICES ASSUME RunInit PROVE RInv
  OBVIOUS
<1> USE DEF RunInit, Init, SimInit
<1>1. InPhase
  BY DEF InPhase, Ops
<1>2. Loading
  BY DEF Loading, Listed, CfgPcs
<1>3. CallsType
  BY DEF CallsType
<1>4. LastIsClean
  BY DEF LastIsClean, LastCall
<1> QED  BY <1>1, <1>2, <1>3, <1>4 DEF RInv

\* The containers that run change with app and gen only.
LEMMA SameRunning ==
  ASSUME UNCHANGED <<app, gen>>
  PROVE  RunningIds' = RunningIds
  BY DEF RunningIds, Live, Ids

\* Stopping a container, or the end of one, makes no other run.
LEMMA FewerRunning ==
  ASSUME TypeOK, NEW n \in Nodes, app' = [app EXCEPT ![n] = "none"], UNCHANGED gen
  PROVE  RunningIds' \subseteq RunningIds
<1> SUFFICES ASSUME NEW i \in RunningIds' PROVE i \in RunningIds
  OBVIOUS
<1>1. i \in Ids /\ gen[i[1]] = i[2] /\ app'[i[1]] = "running" /\ i[1] \in Nodes
  BY DEF RunningIds, Live, Ids
<1>2. app[i[1]] = "running"
  BY <1>1 DEF TypeOK
<1> QED  BY <1>1, <1>2 DEF RunningIds, Live

-----------------------------------------------------------------------------
\* Every process that is started, and every phase that is chosen, finds the
\* strategy ready to be called.
LEMMA EnterPhase ==
  ASSUME Enter, phase' \in Ops
  PROVE  /\ op' = phase' /\ pc' \in {"pull", "fetch", "list"}
         /\ pc' = "pull" <=> phase' = "deploy"
         /\ phase' = "deploy" => pc' # "list"
         /\ UNCHANGED <<app, gen, updated, containers>>
  BY DEF Enter, Call, Ops, daemonVars, memVars

\* The call in progress stays the one of the phase.
LEMMA NextInPhase == IInv /\ RInv /\ [RunNext]_allVars => InPhase'
<1> SUFFICES ASSUME IInv, RInv, [RunNext]_allVars PROVE InPhase'
  OBVIOUS
<1>0. InPhase /\ OpOf
  BY DEF RInv, IInv
<1> USE <1>0 DEF InPhase
<1>1. ASSUME NEW line, StartRun(line) PROVE InPhase'
  <2>1. CASE phase' \in Ops
    <3>1. op' = phase' /\ pc' \in {"pull", "fetch", "list"}
      BY <1>1, <2>1, EnterPhase DEF StartRun
    <3> QED  BY <2>1, <3>1 DEF Ops
  <2>2. CASE phase' \notin Ops
    <3>1. pc = "idle" /\ phase = "off" /\ UNCHANGED vars
      BY <1>1, <2>2 DEF StartRun, Run, Enter
    <3> QED  BY <2>2, <3>1 DEF vars
  <2> QED  BY <2>1, <2>2
<1>2. CASE StartRunWithoutArgs
  BY <1>2 DEF StartRunWithoutArgs, RunMissingArgs, vars, Ops
<1>3. CASE EndCall
  <2>1. phase' \in {"execute", "stats", "clean", "returned", "panicked"}
    BY <1>3, AfterCall DEF EndCall
  <2>2. CASE phase' \in Ops
    <3>1. op' = phase' /\ pc' \in {"pull", "fetch", "list"}
      BY <1>3, <2>2, EnterPhase DEF EndCall
    <3> QED  BY <2>2, <3>1 DEF Ops
  <2>3. CASE phase' \notin Ops
    BY <1>3, <2>1, <2>3 DEF EndCall, Enter, vars
  <2> QED  BY <2>2, <2>3
<1>4. CASE EndProcess
  BY <1>4 DEF EndProcess, NextProcess, NewProcess, NewMemory, Ops
<1>5. CASE StrategyStep
  <2>1. phase \in Ops /\ phase # "off" /\ phase' = phase
    BY <1>5 DEF StrategyStep, simVars, Ops
  <2>2. op' = op
    BY <1>5
    DEF StrategyStep, Strategy, Deploy, Execute, PullImage, CreateContainer,
        CreateFor, StartContainer, RefreshContainers, StreamLogs, PullNetem,
        CreateEmulator, AttachEmulator, StartEmulator, SendRules, WaitExec,
        Before, MonitorContainer, ExecuteRound, AfterRound, FetchStats,
        StopContainer, Fails
  <2>3. pc' = "panic" => op \in {"deploy", "execute"}
    <3>1. Strategy
      BY <1>5 DEF StrategyStep
    <3>2. CASE Before \/ ExecuteRound \/ AfterRound
      BY <3>2 DEF Before, ExecuteRound, AfterRound, OpOf
    <3>3. CASE ~(Before \/ ExecuteRound \/ AfterRound)
      <4>1. CASE Deploy
        BY <3>3, <4>1
        DEF Deploy, PullImage, CreateContainer, CreateFor, StartContainer,
            PullNetem, CreateEmulator, AttachEmulator, StartEmulator,
            SendRules, WaitExec, Fails, Loop
      <4>2. CASE MonitorContainer \/ FetchStats \/ StopContainer
        BY <4>2 DEF MonitorContainer, FetchStats, StopContainer, Fails, Loop
      <4>3. CASE RefreshContainers \/ StreamLogs
        BY <4>3 DEF RefreshContainers, StreamLogs, AfterList, Fails, Loop, OpOf
      <4> QED  BY <3>1, <3>3, <4>1, <4>2, <4>3 DEF Strategy, Execute
    <3> QED  BY <3>2, <3>3
  <2> QED  BY <2>1, <2>2, <2>3
<1>6. CASE EnvironmentStep
  <2>1. UNCHANGED <<phase, op, pc, updated>>
    BY <1>6
    DEF EnvironmentStep, Environment, AppDies, EmuApplies, EmuFails, Sample,
        simVars, memVars, callVars
  <2> QED  BY <2>1
<1>7. CASE UNCHANGED allVars
  BY <1>7 DEF allVars, vars, simVars
<1> QED
  BY <1>1, <1>2, <1>3, <1>4, <1>5, <1>6, <1>7 DEF RunNext

\* Within an operation: a container is started only before the list is read,
\* and the list that is read has all that run.
LEMMA StrategyLoading ==
  ASSUME IInv, Loading, Strategy
  PROVE  Loading'
<1>0. /\ OpOf /\ TypeOK
      /\ pc = "pull" \/ pc = "create" \/ pc = "start" => op = "deploy" /\ ~updated
  BY DEF IInv, OpOf, Loading
<1>1. CASE PullImage
  <2>1. RunningIds' = RunningIds
    BY <1>1, SameRunning DEF PullImage, daemonVars
  <2> QED  BY <1>0, <1>1, <2>1
           DEF Loading, PullImage, Loop, Fails, memVars, Listed, CfgPcs
<1>2. CASE CreateContainer
  BY <1>0, <1>2
  DEF Loading, CreateContainer, CreateFor, Fails, memVars, Listed, CfgPcs
<1>3. CASE StartContainer
  BY <1>0, <1>3
  DEF Loading, StartContainer, Loop, Fails, memVars, Listed, CfgPcs
<1>4. CASE RefreshContainers
  <2>1. RunningIds' = RunningIds
    BY <1>4, SameRunning DEF RefreshContainers, daemonVars
  <2>2. pc = "list" /\ (op = "deploy" => ~updated)
    BY <1>4 DEF RefreshContainers, Loading
  <2>3. CASE updated /\ UNCHANGED containers /\ AfterList
    <3>1. op \in {"execute", "clean"} /\ UNCHANGED op
      BY <1>0, <1>4, <2>2, <2>3 DEF OpOf, RefreshContainers, Fails
    <3>2. updated' = TRUE /\ pc' \notin {"pull", "create", "start", "list"}
      BY <2>3, <3>1 DEF AfterList, Loop, Loading
    <3> QED  BY <2>1, <2>3, <3>1, <3>2 DEF Loading
  <2>4. CASE containers' = RunningIds /\ AfterList /\ UNCHANGED op
    <3>1. pc' \notin {"pull", "create", "start", "list"}
      BY <1>0, <2>2, <2>4 DEF AfterList, Loop, OpOf
    <3>2. op = "clean" /\ pc' = "ok" => updated'
      BY <2>4 DEF AfterList, Loop
    <3> QED  BY <2>1, <2>4, <3>1, <3>2 DEF Loading
  <2>5. CASE ~updated /\ Fails /\ UNCHANGED <<updated, containers>>
    BY <2>5 DEF Loading, Fails, Listed, CfgPcs
  <2> QED  BY <1>4, <2>3, <2>4, <2>5 DEF RefreshContainers
<1>5. CASE StreamLogs \/ PullNetem \/ CreateEmulator \/ AttachEmulator
           \/ StartEmulator \/ SendRules \/ WaitExec \/ MonitorContainer
           \/ ExecuteRound
  <2>1. UNCHANGED <<app, gen, updated, containers, op>> /\ pc \in Listed
    BY <1>5
    DEF StreamLogs, PullNetem, CreateEmulator, AttachEmulator, StartEmulator,
        SendRules, WaitExec, MonitorContainer, ExecuteRound, Fails,
        daemonVars, memVars, Listed, CfgPcs
  <2>2. pc' \notin {"pull", "create", "start", "list"}
    BY <1>5
    DEF StreamLogs, PullNetem, CreateEmulator, AttachEmulator, StartEmulator,
        SendRules, WaitExec, MonitorContainer, ExecuteRound, Fails, Loop
  <2>3. ~(op = "clean" /\ pc' = "ok")
    BY <1>5
    DEF StreamLogs, PullNetem, CreateEmulator, AttachEmulator, StartEmulator,
        SendRules, WaitExec, MonitorContainer, ExecuteRound, Fails, Loop
  <2>4. RunningIds' = RunningIds
    BY <2>1, SameRunning
  <2> QED  BY <2>1, <2>2, <2>3, <2>4 DEF Loading
<1>6. CASE Before \/ AfterRound
  <2>1. UNCHANGED <<app, gen, containers, op>> /\ pc \in Listed
    BY <1>6 DEF Before, AfterRound, daemonVars, Listed
  <2>2. /\ pc' \in {"ok", "err", "panic"} /\ op # "clean"
    BY <1>0, <1>6 DEF Before, AfterRound, OpOf
  <2>3. RunningIds' = RunningIds
    BY <2>1, SameRunning
  <2> QED  BY <2>1, <2>2, <2>3 DEF Loading, Listed, CfgPcs
<1>7. CASE FetchStats
  <2>1. RunningIds' = RunningIds
    BY <1>7, SameRunning DEF FetchStats, daemonVars
  <2> QED  BY <1>0, <1>7, <2>1
           DEF Loading, FetchStats, memVars, Listed, CfgPcs, OpOf
<1>8. CASE StopContainer
  <2>1. RunningIds' \subseteq RunningIds
    <3>1. CASE UNCHANGED app
      BY <1>8, <3>1, SameRunning DEF StopContainer
    <3>2. ASSUME NEW i \in todo, app' = [app EXCEPT ![i[1]] = "none"]
          PROVE  RunningIds' \subseteq RunningIds
      <4>1. i[1] \in Nodes
        BY <1>0 DEF TypeOK, Ids
      <4> QED  BY <1>0, <1>8, <3>2, <4>1, FewerRunning DEF StopContainer
    <3> QED  BY <1>8, <3>1, <3>2 DEF StopContainer
  <2>2. RunningIds \subseteq containers
    BY <1>8 DEF StopContainer, Loading, Listed
  <2>3. UNCHANGED containers /\ pc' \in {"stop", "ok", "err"} /\ op' = op
        /\ updated' = (updated \/ pc' = "ok")
    BY <1>8 DEF StopContainer, Loop
  <2> QED  BY <2>1, <2>2, <2>3 DEF Loading
<1> QED
  BY <1>1, <1>2, <1>3, <1>4, <1>5, <1>6, <1>7, <1>8 DEF Strategy, Deploy, Execute

\* What the environment does makes no container run.
LEMMA EnvironmentRunning ==
  ASSUME TypeOK, Environment
  PROVE  /\ RunningIds' \subseteq RunningIds
         /\ UNCHANGED <<op, pc, updated, containers>>
<1>1. ASSUME NEW n \in Nodes, AppDies(n) PROVE RunningIds' \subseteq RunningIds
  BY <1>1, FewerRunning DEF AppDies
<1>2. ASSUME NEW i \in Ids, EmuApplies(i) \/ EmuFails(i) \/ Sample(i)
      PROVE  RunningIds' \subseteq RunningIds
  BY <1>2, SameRunning DEF EmuApplies, EmuFails, Sample, daemonVars
<1>3. UNCHANGED <<op, pc, updated, containers>>
  BY DEF Environment, AppDies, EmuApplies, EmuFails, Sample, memVars, callVars
<1> QED  BY <1>1, <1>2, <1>3 DEF Environment

\* Between the operations: a deployment comes first in its process, when
\* nothing is loaded.
LEMMA NextLoading == IInv /\ RInv /\ [RunNext]_allVars => Loading'
<1> SUFFICES ASSUME IInv, RInv, [RunNext]_allVars PROVE Loading'
  OBVIOUS
<1>0. InPhase /\ Loading /\ TypeOK
  BY DEF RInv, IInv
<1>1. ASSUME Enter, phase' = "deploy" => ~updated PROVE Loading'
  <2>1. CASE phase' \in Ops
    <3>1. /\ op' = phase' /\ pc' \in {"pull", "fetch", "list"}
          /\ pc' = "pull" <=> phase' = "deploy"
          /\ phase' = "deploy" => pc' # "list"
          /\ UNCHANGED <<app, gen, updated, containers>>
      BY <1>1, <2>1, EnterPhase
    <3>2. RunningIds' = RunningIds
      BY <3>1, SameRunning
    <3> QED  BY <1>0, <1>1, <3>1, <3>2 DEF Loading, Listed, CfgPcs
  <2>2. CASE phase' \notin Ops
    <3>1. UNCHANGED vars
      BY <1>1, <2>2 DEF Enter
    <3>2. RunningIds' = RunningIds
      BY <3>1, SameRunning DEF vars
    <3> QED  BY <1>0, <3>1, <3>2 DEF Loading, vars
  <2> QED  BY <2>1, <2>2
<1>2. ASSUME NEW line, StartRun(line) PROVE Loading'
  <2>1. phase = "off" /\ Enter
    BY <1>2 DEF StartRun, Run
  <2> QED  BY <1>0, <1>1, <2>1 DEF InPhase
<1>3. CASE EndCall
  <2>1. phase' # "deploy" /\ Enter
    BY <1>3, AfterCall DEF EndCall
  <2> QED  BY <1>1, <2>1
<1>4. CASE EndProcess
  BY <1>4 DEF EndProcess, NewProcess, NewMemory, Loading, Listed, CfgPcs
<1>5. CASE StrategyStep
  BY <1>0, <1>5, StrategyLoading DEF StrategyStep
<1>6. CASE EnvironmentStep
  <2>1. /\ RunningIds' \subseteq RunningIds
        /\ UNCHANGED <<op, pc, updated, containers>>
    BY <1>0, <1>6, EnvironmentRunning DEF EnvironmentStep
  <2> QED  BY <1>0, <2>1 DEF Loading
<1>7. CASE StartRunWithoutArgs \/ UNCHANGED allVars
  <2>1. UNCHANGED vars
    BY <1>7 DEF StartRunWithoutArgs, allVars
  <2>2. RunningIds' = RunningIds
    BY <2>1, SameRunning DEF vars
  <2> QED  BY <1>0, <2>1, <2>2 DEF Loading, vars
<1> QED
  BY <1>2, <1>3, <1>4, <1>5, <1>6, <1>7 DEF RunNext

\* The outcome of the cleaning is the last thing a process is told, and
\* nothing runs from there on.
LEMMA NextCalls == IInv /\ RInv /\ [RunNext]_allVars => CallsType' /\ LastIsClean'
<1> SUFFICES ASSUME IInv, RInv, [RunNext]_allVars PROVE CallsType' /\ LastIsClean'
  OBVIOUS
<1>0. InPhase /\ Loading /\ TypeOK /\ Stopping /\ CallsType /\ LastIsClean
  BY DEF RInv, IInv
<1>1. ASSUME calls' = <<>> PROVE CallsType' /\ LastIsClean'
  BY <1>1 DEF CallsType, LastIsClean, LastCall
<1>2. ASSUME NEW line, StartRun(line) PROVE calls' = <<>>
  BY <1>2 DEF StartRun, Run
<1>3. CASE StartRunWithoutArgs
  BY <1>1, <1>3 DEF StartRunWithoutArgs, RunMissingArgs
<1>4. CASE EndProcess
  BY <1>1, <1>4 DEF EndProcess, NextProcess
<1>5. CASE EndCall
  <2> DEFINE e == [op |-> phase, out |-> pc]
  <2>1. e \in [op : Flags, out : Outcomes] /\ calls' = Append(calls, e)
    BY <1>5 DEF EndCall, Returns
  <2>2. CallsType' /\ (LastCall("clean", "ok"))' => phase = "clean" /\ pc = "ok"
    BY <1>0, <2>1, LastOfAppend DEF CallsType, LastCall
  <2>3. CallsType'
    BY <1>0, <2>1, LastOfAppend DEF CallsType
  <2>4. ASSUME phase = "clean", pc = "ok"
        PROVE  phase' \in {"returned", "panicked"} /\ RunningIds' = {}
    <3>1. phase' \in {"returned", "panicked"}
      BY <1>5, <2>4, AfterCall DEF EndCall
    <3>2. UNCHANGED vars
      BY <1>5, <3>1 DEF EndCall, Enter, Ops
    <3>3. op = "clean"
      BY <1>0, <2>4 DEF InPhase, Ops
    <3>4. RunningIds = {}
      <4>1. RunningIds \subseteq containers /\ \A i \in containers : ~Live(i)
        BY <1>0, <2>4, <3>3 DEF Loading, Stopping
      <4> QED  BY <4>1 DEF RunningIds
    <3>5. RunningIds' = RunningIds
      BY <3>2, SameRunning DEF vars
    <3> QED  BY <3>1, <3>4, <3>5
  <2> QED  BY <2>2, <2>3, <2>4 DEF LastIsClean
<1>6. ASSUME UNCHANGED <<phase, calls>>,
             phase \in {"returned", "panicked"} => RunningIds' \subseteq RunningIds
      PROVE  CallsType' /\ LastIsClean'
  BY <1>0, <1>6 DEF CallsType, LastIsClean, LastCall
<1>7. CASE StrategyStep
  <2>1. UNCHANGED <<phase, calls>> /\ phase \notin {"returned", "panicked"}
    BY <1>7 DEF StrategyStep, simVars, Ops
  <2> QED  BY <1>6, <2>1
<1>8. CASE EnvironmentStep
  <2>1. UNCHANGED <<phase, calls>> /\ RunningIds' \subseteq RunningIds
    BY <1>0, <1>8, EnvironmentRunning DEF EnvironmentStep, simVars
  <2> QED  BY <1>6, <2>1
<1>9. CASE UNCHANGED allVars
  <2>1. UNCHANGED <<phase, calls, app, gen>>
    BY <1>9 DEF allVars, vars, simVars
  <2> QED  BY <1>6, <2>1, SameRunning
<1> QED
  BY <1>1, <1>2, <1>3, <1>4, <1>5, <1>7, <1>8, <1>9 DEF RunNext

-----------------------------------------------------------------------------
\* The composition calls the strategy as a client may, so that all that is
\* proved of DockerStrategy holds in it.
THEOREM ImplementsStrategy == RunSpec => Spec
<1>1. RunInit => Init
  BY DEF RunInit
<1>2. [RunNext]_allVars => [Next]_vars
  <2> SUFFICES ASSUME [RunNext]_allVars PROVE [Next]_vars
    OBVIOUS
  <2>1. CASE Enter
    BY <2>1 DEF Enter, Next
  <2>2. CASE EndProcess
    BY <2>2 DEF EndProcess, Next
  <2>3. CASE StrategyStep \/ EnvironmentStep
    BY <2>3 DEF StrategyStep, EnvironmentStep, Next
  <2>4. CASE UNCHANGED vars
    BY <2>4
  <2> QED
    BY <2>1, <2>2, <2>3, <2>4
    DEF RunNext, StartRun, StartRunWithoutArgs, EndCall, allVars
<1> QED  BY <1>1, <1>2, PTL DEF RunSpec, Spec

\* RInv is an invariant of the composition.
LEMMA RunInvariance == RunSpec => [](IInv /\ RInv)
<1>1. IInv /\ RInv /\ [RunNext]_allVars => RInv'
  BY NextInPhase, NextLoading, NextCalls DEF RInv
<1>2. RunSpec => []IInv
  BY ImplementsStrategy, Invariance, PTL
<1> QED  BY <1>1, <1>2, InitRInv, PTL DEF RunSpec

\* The composition runs the phases as Simulation.Run does over a strategy of
\* which only the outcomes of the calls are known.
THEOREM ImplementsRun == RunSpec => SimSpec
<1>1. RunInit => SimInit
  BY DEF RunInit
<1>2. IInv /\ RInv /\ [RunNext]_allVars => [SimNext]_simVars
  <2> SUFFICES ASSUME RInv, [RunNext]_allVars PROVE [SimNext]_simVars
    OBVIOUS
  <2>1. ASSUME NEW n \in 0 .. MaxArgs, NEW line \in [1 .. n -> Args], StartRun(line)
        PROVE  SimNext
    <3>1. line \in BoundedSeq(Args, MaxArgs)
      BY DEF BoundedSeq, SeqOf
    <3> QED  BY <2>1, <3>1 DEF StartRun, SimNext
  <2>2. CASE EndCall
    <3>1. phase \in Ops /\ Returns(pc) /\ pc \in {"ok", "err", "panic"}
      BY <2>2 DEF EndCall, Outcomes
    <3>2. pc = "panic" => RunsRound(phase)
      BY <3>1 DEF RInv, InPhase, RunsRound
    <3> QED  BY <3>1, <3>2 DEF SimNext
  <2>3. CASE EndProcess
    BY <2>3 DEF EndProcess, SimNext
  <2>4. CASE StartRunWithoutArgs
    BY <2>4 DEF StartRunWithoutArgs, SimNext
  <2>5. CASE StrategyStep \/ EnvironmentStep \/ UNCHANGED allVars
    BY <2>5 DEF StrategyStep, EnvironmentStep, allVars
  <2> QED  BY <2>1, <2>2, <2>3, <2>4, <2>5 DEF RunNext
<1> QED  BY <1>1, <1>2, RunInvariance, PTL DEF RunSpec, SimSpec

\* Nothing that runs is ever left out of the monitoring or of the cleaning.
THEOREM KeepsTrack == RunSpec => []KnowsRunning
<1>1. RInv => KnowsRunning
  BY DEF RInv, Loading, KnowsRunning, Listed
<1> QED  BY <1>1, RunInvariance, PTL

\* A cleaning that reports no error leaves no container of a node running,
\* whatever the earlier processes did and wherever they ended.
THEOREM WipesRunning == RunSpec => []CleanWipesRunning
<1>1. ASSUME IInv, RInv PROVE CleanWipesRunning
  <2> SUFFICES ASSUME LastCall("clean", "ok"), NEW n \in Nodes, app[n] = "running"
               PROVE  FALSE
    BY DEF CleanWipesRunning
  <2>1. RunningIds = {}
    BY <1>1 DEF RInv, LastIsClean
  <2>2. gen[n] \in 1 .. MaxGen
    BY <1>1, MaxGenAssumption DEF IInv, TypeOK, Numbered
  <2>3. <<n, gen[n]>> \in RunningIds
    BY <2>2 DEF RunningIds, Ids, Live
  <2> QED  BY <2>1, <2>3
<1> QED  BY <1>1, RunInvariance, PTL
=============================================================================
