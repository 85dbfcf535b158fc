-------------------------------- MODULE Node --------------------------------
(***************************************************************************)
(* A round that calls sim.IO on one node of a simulation, with the engine  *)
(* of Kubernetes or with that of Docker, down to the rules that the kernel *)
(* of the node applies; and what the calls promise.                        *)
(***************************************************************************)
EXTENDS KubeNode, DockerNode

CONSTANT Topologies

ASSUME NodeAssumption ==
  /\ MaxCalls \in Nat /\ MaxFaults \in Nat /\ Chunks \in Nat
  /\ Topologies \subseteq TopologyRecords

\* The address that the pod of a node has, and what the list of pods may say:
\* it may not have the pod, or not yet its address.
Address(node) == node + 1
Known(t)      == [n \in Nodes(t) |-> Address(n)]
Mappings(t)   ==
  {Known(t)} \cup {[Known(t) EXCEPT ![n] = NoIP] : n \in Nodes(t)}
    \cup {[n \in Nodes(t) \ {m} |-> Address(n)] : m \in Nodes(t)}

\* What a round calls on the node: the engine itself uploads the rules; the
\* calls about the network, and those about files and programs, share no state.
CutOps == {"disconnect", "reconnect"}
IOOps  == {"write", "exec", "read"}

Setup(e, ops, t, n, l, m) ==
  [engine |-> e, ops |-> ops, topo |-> t, node |-> n, links |-> l, ip |-> m]

UploadSetups ==
  UNION {UNION {{Setup("kube", {"upload"}, t, n, l, m) :
                   l \in Links(t, n), m \in Mappings(t)} :
                n \in Nodes(t)} : t \in Topologies}

OtherSetups ==
  LET t == [kind |-> "cloud", n |-> 3]
  IN {Setup("kube", CutOps, t, 0, <<>>, m) : m \in Mappings(t)}
       \cup {Setup("kube", IOOps, t, 0, <<>>, Known(t)),
             Setup("docker", IOOps \cup CutOps, t, 0, <<>>, Known(t))}

Init ==
  /\ setup \in UploadSetups \cup OtherSetups
  /\ call = [c \in Calls |-> NoCall]
  /\ file = <<>> /\ kernel = NewKernel /\ faults = 0

Step(c) == KubeStep(c) \/ DockerStep(c)

Next == \E c \in Calls : \/ Step(c) \/ FeedEnds(c) \/ Copier(c) \/ Remote(c)
                         \/ Emit(c) \/ CopyOutput(c) \/ Abandon(c)

Spec == Init /\ [][Next]_vars

\* The goroutines are scheduled, connections are made and programs end; a
\* round need not make a call, nor read what it asked for.
Fairness ==
  \A c \in Calls :
    /\ WF_vars(Step(c) /\ call[c].op # "none")
    /\ WF_vars(FeedEnds(c)) /\ WF_vars(Copier(c))
    /\ WF_vars(Remote(c)) /\ WF_vars(CopyOutput(c))

FairSpec == Spec /\ Fairness

-----------------------------------------------------------------------------
\* The latency that each topology promises from one node to another: the
\* first that was given for the pair, in whole milliseconds; a negative one is
\* none.
Whole(latency) == IF latency <= 0 THEN 0 ELSE latency \div Milli

Latency(t, from, to) ==
  CASE t.kind = "simple" -> IF from # 0 /\ to = 0 THEN Whole(t.delay) ELSE 0
    [] t.kind = "area"   ->
         LET a == AreaOf(t.areas, from)
             b == AreaOf(t.areas, to)
         IN IF from = to THEN 0
            ELSE Whole(IF a = b THEN t.areas[a].latency
                       ELSE CalculateLatency(t.areas[a], t.areas[b]))
    [] t.kind = "full"   ->
         LET of == {k \in DOMAIN t.inputs : t.inputs[k].from = from /\ t.inputs[k].to = to}
         IN IF of = {} THEN 0 ELSE Whole(t.inputs[Min(of)].latency)
    [] t.kind = "cloud"  -> 0

\* An upload that succeeds, the first or a later one, has the node hold back
\* the packets to every other node as the topology says, whatever the order
\* of the links, rules given twice, and commands left by an upload whose
\* connection broke.
ShapedAsAsked ==
  (\E c \in Calls : call[c].op = "upload" /\ call[c].res = "ok") =>
    \A n \in Nodes(setup.topo) :
      Shaping(kernel, Address(n)) = Latency(setup.topo, setup.node, n)

\* The commands of one upload never refuse one another: an emulator that is
\* given an address for each link, few enough for tc, on a fresh device,
\* fails only when something else does.
FirstUploadSucceeds ==
  \A c \in Calls :
    /\ call[c].op = "upload" /\ call[c].pc = "done" /\ faults = 0
    /\ call[c].stdin = "eof"
    /\ \A d \in 1 .. c - 1 : call[d].op # "upload"
    /\ LET known == {rule.ip : rule \in ToSet(Rules(setup.links, setup.ip))}
       IN NoIP \notin known /\ 10 * Cardinality(known) <= MaxMinor
    => call[c].res = "ok"

Finishes(c) == call[c].res = "none" /\ call'[c].res = "ok"

\* The chunks of a call in a file are its first n, in order, each once.
Holds(f, c, n) ==
  LET own == {k \in DOMAIN f : f[k][1] = c}
  IN  /\ {f[k][2] : k \in own} = 1 .. n
      /\ \A j, k \in own : j < k => f[j][2] < f[k][2]

\* A write that succeeds has put in the file all that was read of its content,
\* in order and once; and it was read to its end, unless its reader failed.
WriteWhole ==
  [][\A c \in Calls :
       Finishes(c) /\ call[c].op = "write" =>
         /\ Holds(file', c, call[c].taken)
         /\ call[c].stdin = "eof" => call[c].taken = Chunks]_vars

\* On Kubernetes, Disconnect cuts every target off and Reconnect brings all of
\* them back, unless the connection of an earlier call broke: its commands may
\* still come.
Undisturbed(c) == \A d \in 1 .. c - 1 : call[d].conn # "broken"

CutAsAsked ==
  [][\A c \in Calls :
       Finishes(c) /\ setup.engine = "kube" /\ Undisturbed(c) =>
         /\ call[c].op = "disconnect" =>
              \A n \in ToSet(call[c].targets) : setup.ip[n] \in kernel'.drops
         /\ call[c].op = "reconnect" => kernel'.drops = {}]_vars

\* Exec succeeds only when its own command has ended with 0, and fails without
\* a fault only when it has not or its input failed.
ExecReports ==
  \A c \in Calls :
    call[c].op = "exec" /\ call[c].pc = "done" =>
      /\ call[c].res = "ok" => call[c].remote = "ok"
      /\ call[c].remote = "ok" /\ faults = 0 /\ call[c].sin # "failed"
           => call[c].res = "ok"

\* A reader that comes to the end without an error has had the whole file.
ReadWhole == \A c \in Calls : call[c].reader = "eof" => call[c].got = Chunks

\* No goroutine for the input is left blocked by a call that succeeds, but for
\* the copier of an Exec of Kubernetes, which may wait for the input of its
\* caller, and that of an upload of the rules, for the end of its pipe.
SuccessLeavesNothing ==
  \A c \in Calls :
    call[c].res = "ok" =>
      /\ call[c].feed = "on" => call[c].taken = Size(call[c])
      /\ call[c].sin = "on" =>
           setup.engine = "kube" /\ call[c].op \in {"upload", "exec"}

\* Every call returns, whatever fails and whatever events of other commands
\* come; but for an Exec of Docker whose input never ends.
CallReturns ==
  \A c \in Calls :
    call[c].op \notin {"none", "read"}
      ~> \/ call[c].pc = "done"
         \/ setup.engine = "docker" /\ call[c].stdin = "never"

\* What a command wrote before it ended has all been copied to the caller.
OutputComplete ==
  \A c \in Calls :
    call[c].op = "exec" /\ call[c].res = "ok" => call[c].got = call[c].out
=============================================================================
