-------------------------------- MODULE Netem --------------------------------
(***************************************************************************)
(* daemon/monitor/netem: the tc commands that the emulator makes of the    *)
(* rules, and what the kernel does with them and with those of iptables.   *)
(* A tc identifier is 1:minor; the decimal digits that the code prints are *)
(* read as a hexadecimal number of 16 bits, so that different numbers of   *)
(* at most four digits stay different and longer ones are refused.         *)
(***************************************************************************)
EXTENDS Topology

CONSTANT MaxMinor   \* the largest number tc takes for a class, 9999

ASSUME NetemAssumption == MaxMinor \in Nat

-----------------------------------------------------------------------------
\* Delay.String and makeNetEm: whole milliseconds, nothing when it is zero.
MakeNetEm(rule) == IF rule.delay <= 0 THEN 0 ELSE rule.delay \div Milli

MakeClass(minor)         == [do |-> "class", minor |-> minor]
MakeFilter(ip, minor)    == [do |-> "filter", ip |-> ip, flow |-> minor]
MakeQDisc(minor, major, rule) ==
  [do |-> "qdisc", minor |-> minor, handle |-> major,
   delay |-> MakeNetEm(rule)]

\* Mutant: the filter is given the handle of the qdisc.
PathToHandle(i, rule) ==
  << MakeClass(i * 10), MakeFilter(rule.ip, i * 10 + 1),
     MakeQDisc(i * 10, i * 10 + 1, rule) >>

\* Mutant: the classes are numbered one by one.
PathUnspaced(i, rule) ==
  << MakeClass(i), MakeFilter(rule.ip, i), MakeQDisc(i, i + 1, rule) >>

\* The commands for the rule whose address is the i-th.
Path(i, rule) ==
  LET minor == i * 10
  IN << MakeClass(minor), MakeFilter(rule.ip, minor),
        MakeQDisc(minor, minor + 1, rule) >>

\* Only the first rule of an address gets a class.
FirstRules(rules) ==
  Pick(rules, {k \in DOMAIN rules : \A j \in 1 .. k - 1 : rules[j].ip # rules[k].ip})

\* The root and the parent, and three commands for each address.
Commands(rules) ==
  LET first == FirstRules(rules)
  IN [k \in 1 .. 2 + 3 * Len(first) |->
        IF k <= 2 THEN [do |-> IF k = 1 THEN "root" ELSE "parent"]
        ELSE Path(k \div 3, first[k \div 3])[(k % 3) + 1]]

-----------------------------------------------------------------------------
\* The kernel of a network namespace: the HTB tree of the device, and the
\* addresses that its OUTPUT chain drops.
NewKernel == [root |-> FALSE, classes |-> {}, filters |-> <<>>,
              qdiscs |-> {}, drops |-> {}]

\* What is added must be new, under what is there, and well-formed.
Accepts(k, c) ==
  CASE c.do = "root"   -> ~k.root
    [] c.do = "parent" -> k.root /\ 1 \notin k.classes
    [] c.do = "class"  -> /\ 1 \in k.classes /\ c.minor \notin k.classes
                          /\ c.minor <= MaxMinor
    [] c.do = "filter" -> k.root /\ c.ip # NoIP
    [] c.do = "qdisc"  -> /\ c.minor \in k.classes
                          /\ \A q \in k.qdiscs :
                               q.minor # c.minor /\ q.handle # c.handle
    [] c.do = "drop"   -> c.ip # NoIP
    [] c.do = "flush"  -> TRUE

Apply(k, c) ==
  CASE c.do = "root"   -> [k EXCEPT !.root = TRUE]
    [] c.do = "parent" -> [k EXCEPT !.classes = @ \cup {1}]
    [] c.do = "class"  -> [k EXCEPT !.classes = @ \cup {c.minor}]
    [] c.do = "filter" -> [k EXCEPT !.filters = Append(@, c)]
    [] c.do = "qdisc"  -> [k EXCEPT !.qdiscs = @ \cup {c}]
    [] c.do = "drop"   -> [k EXCEPT !.drops = @ \cup {c.ip}]
    [] c.do = "flush"  -> [k EXCEPT !.drops = {}]

\* The milliseconds that a packet for an address is held back: the first
\* filter that matches gives its class, the qdisc of the class the delay.
Shaping(k, ip) ==
  LET match == {i \in DOMAIN k.filters : k.filters[i].ip = ip}
      found == {q \in k.qdiscs : q.minor = k.filters[Min(match)].flow}
  IN IF match = {} \/ found = {} THEN 0 ELSE (CHOOSE q \in found : TRUE).delay
=============================================================================
