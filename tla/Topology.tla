------------------------------ MODULE Topology ------------------------------
(***************************************************************************)
(* The topologies of package network: the nodes, the links of each node    *)
(* and the rules that a node gets.  A node is the number in its name,      *)
(* a duration is in microseconds and the coordinates of an area are        *)
(* milliseconds.  A topology is the record of what it is built from, for   *)
(* instance [kind |-> "simple", n |-> 3, delay |-> 50000].                 *)
(***************************************************************************)
EXTENDS Integers, Sequences, SequencesExt

CONSTANTS
  MaxSize,  \* the largest number of nodes of a simple topology
  NoIP      \* the empty string that a map gives for a key it does not have

Milli == 1000

Link(distant, delay) == [distant |-> distant, delay |-> delay]

-----------------------------------------------------------------------------
\* The size that NewSimpleTopology makes of its argument.
Clamp(n) == IF n < 0 THEN 0 ELSE IF n > MaxSize THEN MaxSize ELSE n

\* Every node but the first has one link, to the first.
SimpleLinks(t, node) == IF node = 0 THEN <<>> ELSE <<Link(0, t.delay)>>

\* NewAreaTopology numbers the nodes through all the areas: the number of the
\* first one of an area is how many there are in the areas before.
FirstOf(areas, i) == Cardinality(UNION {{j} \X (1 .. areas[j].n) : j \in 1 .. i - 1})
Members(areas, i) == FirstOf(areas, i) .. FirstOf(areas, i) + areas[i].n - 1
AreaOf(areas, node) ==
  CHOOSE i \in DOMAIN areas : node \in Members(areas, i)

\* The whole milliseconds of the distance between two areas.
CalculateLatency(a, b) ==
  LET square == (a.x - b.x) * (a.x - b.x) + (a.y - b.y) * (a.y - b.y)
  IN Milli * CHOOSE d \in 0 .. square :
               d * d <= square /\ square < (d + 1) * (d + 1)

\* The links inside the area, to its other members, and those to each other
\* area; these come in the order in which Go walks the map of its nodes, which
\* is any order.
OwnLinks(areas, i, node) ==
  [k \in 1 .. areas[i].n - 1 |->
     LET peer == FirstOf(areas, i) + k - 1
     IN Link(IF peer < node THEN peer ELSE peer + 1, areas[i].latency)]
Abroad(areas, i) ==
  {p \in SetToSeqs(UNION {Members(areas, j) : j \in DOMAIN areas \ {i}}) :
     \A k \in 1 .. Len(p) - 1 : AreaOf(areas, p[k]) <= AreaOf(areas, p[k + 1])}
AreaLinks(areas, node) ==
  LET i == AreaOf(areas, node)
      To(peer) == Link(peer, CalculateLatency(areas[i], areas[AreaOf(areas, peer)]))
  IN {OwnLinks(areas, i, node) \o [k \in DOMAIN p |-> To(p[k])] :
        p \in Abroad(areas, i)}

\* The elements of a sequence at some of its positions, in their order.
Pick(s, P) ==
  [i \in 1 .. Cardinality(P) |->
     s[CHOOSE k \in P : Cardinality({j \in P : j < k}) = i - 1]]

\* The links of a full topology are its inputs, repeated ones included.
FullLinks(inputs, node) ==
  LET own == Pick(inputs, {k \in DOMAIN inputs : inputs[k].from = node})
  IN [k \in DOMAIN own |-> Link(own[k].to, own[k].latency)]

-----------------------------------------------------------------------------
\* What the constructors take.
AreaRecords == [n : Nat, latency : Int, x : Int, y : Int]
TopologyRecords ==
  [kind : {"simple"}, n : Int, delay : Int]
    \cup [kind : {"area"}, areas : Seq(AreaRecords)]
    \cup [kind : {"full"}, inputs : Seq([from : Nat, to : Nat, latency : Int])]
    \cup [kind : {"cloud"}, n : Int]

Nodes(t) ==
  CASE t.kind = "simple" -> 0 .. Clamp(t.n) - 1
    [] t.kind = "area"   -> 0 .. FirstOf(t.areas, Len(t.areas) + 1) - 1
    [] t.kind = "full"   -> UNION {{x.from, x.to} : x \in ToSet(t.inputs)}
    [] t.kind = "cloud"  -> 0 .. t.n - 1

\* The sequences that the links of a node may be.
Links(t, node) ==
  CASE t.kind = "simple" -> {SimpleLinks(t, node)}
    [] t.kind = "area"   -> AreaLinks(t.areas, node)
    [] t.kind = "full"   -> {FullLinks(t.inputs, node)}
    [] t.kind = "cloud"  -> {<<>>}

\* Rules(node, mapping)
Rules(links, mapping) ==
  [k \in DOMAIN links |->
     [ip    |-> IF links[k].distant \in DOMAIN mapping
                  THEN mapping[links[k].distant] ELSE NoIP,
      delay |-> links[k].delay]]
=============================================================================
