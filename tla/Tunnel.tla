------------------------------- MODULE Tunnel -------------------------------
(***************************************************************************)
(* DefaultTunnel (sim/tunnel.go): Start runs openvpn as a daemon, which    *)
(* writes its PID and its log to two files, and waits for a message in the *)
(* log; Stop kills the process of the PID file.  The files and the daemons *)
(* outlive the program.                                                    *)
(***************************************************************************)
EXTENDS FiniteSets

CONSTANTS
  Pids,    \* process identifiers that the daemons may get
  NoFile   \* there is no PID file

ASSUME PidsAssumption == IsFiniteSet(Pids) /\ NoFile \notin Pids

VARIABLES
  top,      \* the call: "none", "start" or "stop"
  tpc,      \* "idle"; "log", "run", "poll"; "kill"; then "ok" or "err"
  pidFile,  \* the content of running_pid
  log,      \* the processes whose completed initialization vpn.log reports
  since,    \* those that completed one while the last Start waited
  earlier,  \* the daemons that were alive when Start was called
  last,     \* the daemon that was started last
  procs     \* per process identifier, what it is

callVars == <<top, tpc>>
tunVars  == <<top, tpc, pidFile, log, since, earlier, last, procs>>

\* A daemon is root while it connects ("connecting") and runs as the user
\* afterwards ("open"); "stranger" is any other process of the user.
Daemon == {"connecting", "open"}
Alive  == {p \in Pids : procs[p] \in Daemon}

TunTypeOK ==
  /\ top \in {"none", "start", "stop"}
  /\ tpc \in {"idle", "log", "run", "poll", "kill", "ok", "err"}
  /\ pidFile \in Pids \cup {NoFile} /\ last \in Pids \cup {NoFile}
  /\ log \subseteq Pids /\ since \subseteq Pids /\ earlier \subseteq Pids
  /\ procs \in [Pids -> Daemon \cup {"none", "stranger"}]

TunInit ==
  /\ top = "none" /\ tpc = "idle" /\ pidFile = NoFile /\ last = NoFile
  /\ log = {} /\ since = {} /\ earlier = {} /\ procs = [p \in Pids |-> "none"]

-----------------------------------------------------------------------------
\* The calls and the end of the process.
CallStart ==
  /\ top' = "start" /\ tpc' = "log" /\ since' = {} /\ earlier' = Alive
  /\ UNCHANGED <<pidFile, log, last, procs>>

CallStop ==
  /\ top' = "stop" /\ tpc' = "kill" /\ since' = {} /\ earlier' = {}
  /\ UNCHANGED <<pidFile, log, last, procs>>

Forget ==
  /\ top' = "none" /\ tpc' = "idle" /\ since' = {} /\ earlier' = {}
  /\ UNCHANGED <<pidFile, log, last, procs>>

\* Mutant: the log is opened without being emptied.
AppendedLog == log

\* What os.Create leaves in vpn.log.
CreatedLog == {}

\* os.Create of the log, then user.Current, which may fail too.
CreateLog ==
  /\ tpc = "log"
  /\ \/ tpc' = "run" /\ log' = CreatedLog
     \/ tpc' = "err" /\ log' \in {log, CreatedLog}
  /\ UNCHANGED <<top, pidFile, since, earlier, last, procs>>

\* --writepid
WritePid(p) == p

\* cmd.Run, which fails or returns when openvpn has become a daemon.
RunCommand ==
  /\ tpc = "run"
  /\ \/ /\ \E p \in Pids :
             /\ procs[p] = "none"
             /\ procs' = [procs EXCEPT ![p] = "connecting"]
             /\ pidFile' = WritePid(p) /\ last' = p
        /\ tpc' = "poll"
     \/ tpc' = "err" /\ UNCHANGED <<procs, pidFile, last>>
  /\ UNCHANGED <<top, log, since, earlier>>

\* A turn of the loop finds the message.
FindMessage ==
  /\ tpc = "poll" /\ log # {}
  /\ tpc' = "ok"
  /\ UNCHANGED <<top, pidFile, log, since, earlier, last, procs>>

\* time.After(v.timeout) expires; so it may although the message is there.
\* errTunnelTimeout; the daemon is left as it is.
TimesOut ==
  /\ tpc = "poll"
  /\ tpc' = "err"
  /\ UNCHANGED <<top, pidFile, log, since, earlier, last, procs>>

\* Mutant: no error of Kill is returned.
KillQuietly(p) ==
  IF procs[p] = "connecting"
    THEN tpc' = "ok" /\ UNCHANGED procs
    ELSE tpc' = "ok" /\ procs' = [procs EXCEPT ![p] = "none"]

\* proc.Kill: a process of root cannot be killed, one that has ended is fine.
Kill(p) ==
  IF procs[p] = "connecting"
    THEN tpc' = "err" /\ UNCHANGED procs
    ELSE tpc' = "ok" /\ procs' = [procs EXCEPT ![p] = "none"]

\* Stop; the PID file stays.
KillRecorded ==
  /\ tpc = "kill"
  /\ IF pidFile = NoFile
       THEN tpc' = "err" /\ UNCHANGED procs
       ELSE Kill(pidFile)
  /\ UNCHANGED <<top, pidFile, log, since, earlier, last>>

Tunnelling == CreateLog \/ RunCommand \/ FindMessage \/ TimesOut \/ KillRecorded

-----------------------------------------------------------------------------
\* The daemon gets through, at first or again after an interruption.
Connect(p) ==
  /\ procs[p] \in Daemon
  /\ procs' = [procs EXCEPT ![p] = "open"]
  /\ log' = log \cup {p}
  /\ since' = IF tpc \in {"log", "run", "poll"} THEN since \cup {p} ELSE since
  /\ UNCHANGED <<top, tpc, pidFile, earlier, last>>

\* A daemon ends by itself, and its identifier is used again.
Exit(p) ==
  /\ procs[p] \in Daemon
  /\ procs' = [procs EXCEPT ![p] = "none"]
  /\ UNCHANGED <<top, tpc, pidFile, log, since, earlier, last>>

Reuse(p) ==
  /\ procs[p] = "none" /\ p = pidFile
  /\ procs' = [procs EXCEPT ![p] = "stranger"]
  /\ UNCHANGED <<top, tpc, pidFile, log, since, earlier, last>>

System == \E p \in Pids : Connect(p) \/ Exit(p) \/ Reuse(p)

\* A simulation starts the tunnel at most once in a process, and stops it at
\* most once; the process may end anywhere.
Caller ==
  \/ top = "none" /\ CallStart
  \/ top = "none" /\ CallStop
  \/ top = "start" /\ tpc \in {"ok", "err"} /\ CallStop
  \/ top # "none" /\ Forget

TunNext == Caller \/ Tunnelling \/ System

TunSpec == TunInit /\ [][TunNext]_tunVars

-----------------------------------------------------------------------------
\* Start succeeds only on a message written since it was called, by the daemon
\* that it started or by one that an earlier process has left alive; never on
\* what the log of an earlier tunnel said before.
NoStaleSuccess ==
  top = "start" /\ tpc = "ok" => last \in since \/ since \cap earlier # {}

\* When Stop returns without an error a daemon has been started, and the last
\* one that was does not run.
StopClosesLast ==
  top = "stop" /\ tpc = "ok" => last # NoFile /\ procs[last] \notin Daemon
=============================================================================
