----------------------------- MODULE RulesProofs -----------------------------
(***************************************************************************)
(* From a topology to the packets that the kernel holds back, without the  *)
(* calls that come in between: the links of a node say what the topology   *)
(* promises, the rules say what the links do, the first rule of an address *)
(* is the one that gets a class, and the commands of the rules, accepted   *)
(* one by one on a fresh device, make the kernel apply them.               *)
(***************************************************************************)
EXTENDS Node, TLAPS, FiniteSetTheorems, SequenceTheorems, WellFoundedInduction

-----------------------------------------------------------------------------
(* Sets of positions, and what Pick takes from them.                       *)

\* A set of naturals has a least one.
LEMMA LeastNat ==
  ASSUME NEW T, T \subseteq Nat, T # {}
  PROVE  \E m \in T : \A k \in T : m <= k
<1>1. PICK R : /\ IsWellFoundedOn(R, Nat)
               /\ \A x, y \in Nat : y < x => <<y, x>> \in R
  <2> DEFINE Q == OpToRel(<, Nat)
  <2>1. IsWellFoundedOn(Q, Nat)
    BY NatLessThanWellFounded
  <2>2. \A x, y \in Nat : y < x => <<y, x>> \in Q
    BY DEF OpToRel
  <2> HIDE DEF Q
  <2> QED  BY <2>1, <2>2
<1>2. PICK m \in T : \A y \in T : ~(<<y, m>> \in R)
  BY <1>1, WFMin
<1>3. ASSUME NEW k \in T PROVE m <= k
  <2>1. m \in Nat /\ k \in Nat
    OBVIOUS
  <2>2. ~(k < m)
    BY <1>1, <1>2, <2>1
  <2> QED  BY <2>1, <2>2
<1> QED  BY <1>3

\* The positions before one of a set.
Before(P, k) == {j \in P : j < k}

\* Each of the positions has a rank, by which they are in order.
LEMMA Ranked ==
  ASSUME NEW N \in Nat, NEW P \in SUBSET (1 .. N)
  PROVE  /\ Cardinality(P) \in Nat /\ Cardinality(P) <= N
         /\ \E rank \in [P -> 0 .. Cardinality(P) - 1] :
              /\ \A k \in P : rank[k] = Cardinality(Before(P, k))
              /\ \A j, k \in P : rank[j] = rank[k] => j = k
              /\ \A j, k \in P : rank[j] < rank[k] => j < k
              /\ \A i \in 0 .. Cardinality(P) - 1 : \E k \in P : rank[k] = i
<1> DEFINE C == Cardinality(P)
           R == 0 .. C - 1
           f == [k \in P |-> Cardinality(Before(P, k))]
<1>0. \A k \in P : k \in Nat
  OBVIOUS
<1>1. IsFiniteSet(P) /\ C \in Nat /\ C <= N
  <2>1. IsFiniteSet(1 .. N) /\ Cardinality(1 .. N) = N
    BY FS_Interval
  <2> QED  BY <2>1, FS_Subset, FS_CardinalityType
<1>2. \A k \in P : /\ IsFiniteSet(Before(P, k)) /\ f[k] \in Nat
                   /\ k \notin Before(P, k) /\ Before(P, k) \subseteq P
  <2> SUFFICES ASSUME NEW k \in P
               PROVE  /\ IsFiniteSet(Before(P, k)) /\ Cardinality(Before(P, k)) \in Nat
                      /\ k \notin Before(P, k) /\ Before(P, k) \subseteq P
    OBVIOUS
  <2>1. k \notin Before(P, k) /\ Before(P, k) \subseteq P
    BY <1>0 DEF Before
  <2> QED  BY <1>1, <2>1, FS_Subset, FS_CardinalityType
<1>3. ASSUME NEW S, IsFiniteSet(S), NEW T \in SUBSET S, NEW x \in S, x \notin T
      PROVE  Cardinality(T) < Cardinality(S)
  <2>1. Cardinality(T) <= Cardinality(S) /\ Cardinality(S) # Cardinality(T)
    BY <1>3, FS_Subset
  <2>2. IsFiniteSet(T)
    BY <1>3, FS_Subset
  <2>3. Cardinality(T) \in Nat /\ Cardinality(S) \in Nat
    BY <1>3, <2>2, FS_CardinalityType
  <2> QED  BY <2>1, <2>3
<1>4. \A k \in P : f[k] < C
  BY <1>1, <1>2, <1>3
<1>5. ASSUME NEW j \in P, NEW k \in P, j < k
      PROVE  f[j] < f[k]
  <2>0. \A x \in P : x < j => x < k
    BY <1>0, <1>5
  <2>1. Before(P, j) \subseteq Before(P, k) /\ j \in Before(P, k)
    BY <1>5, <2>0 DEF Before
  <2>2. IsFiniteSet(Before(P, k)) /\ j \notin Before(P, j)
    BY <1>2
  <2>3. Cardinality(Before(P, j)) < Cardinality(Before(P, k))
    BY <2>1, <2>2, <1>3
  <2> QED  BY <2>3
<1>6. f \in [P -> R]
  BY <1>1, <1>2, <1>4
<1>7. \A k \in P : f[k] = Cardinality(Before(P, k))
  OBVIOUS
<1> HIDE DEF f
<1>8. \A j, k \in P : f[j] = f[k] => j = k
  <2> SUFFICES ASSUME NEW j \in P, NEW k \in P, f[j] = f[k], j # k PROVE FALSE
    OBVIOUS
  <2>1. j < k \/ k < j
    BY <1>0
  <2>2. f[j] \in Nat /\ f[k] \in Nat
    BY <1>2
  <2> QED  BY <1>5, <2>1, <2>2
<1>9. \A j, k \in P : f[j] < f[k] => j < k
  <2> SUFFICES ASSUME NEW j \in P, NEW k \in P, f[j] < f[k], ~(j < k) PROVE FALSE
    OBVIOUS
  <2>1. j = k \/ k < j
    BY <1>0
  <2>2. f[j] \in Nat /\ f[k] \in Nat
    BY <1>2
  <2> QED  BY <1>5, <2>1, <2>2
<1>10. f \in Injection(P, R)
  BY <1>6, <1>8 DEF Injection, IsInjective
<1>11. IsFiniteSet(R) /\ Cardinality(R) = C
  <2>1. C - 1 \in Int
    BY <1>1
  <2>2. IsFiniteSet(R) /\ Cardinality(R) = IF 0 > C - 1 THEN 0 ELSE C - 1 - 0 + 1
    BY <2>1, FS_Interval
  <2> QED  BY <1>1, <2>2
<1>12. f \in Surjection(P, R)
  BY <1>1, <1>10, <1>11, FS_Injection
<1>13. \A i \in R : \E k \in P : f[k] = i
  BY <1>12 DEF Surjection
<1> QED  BY <1>1, <1>6, <1>7, <1>8, <1>9, <1>13

\* The elements that Pick takes are those at the positions, in their order.
LEMMA Picked ==
  ASSUME NEW T, NEW s \in Seq(T), NEW P \in SUBSET (1 .. Len(s))
  PROVE  \E at \in [1 .. Cardinality(P) -> P] :
           /\ Cardinality(P) \in Nat /\ Cardinality(P) <= Len(s)
           /\ Pick(s, P) \in Seq(T) /\ Len(Pick(s, P)) = Cardinality(P)
           /\ Pick(s, P) = [i \in 1 .. Cardinality(P) |-> s[at[i]]]
           /\ \A i, j \in 1 .. Cardinality(P) : i < j => at[i] < at[j]
           /\ \A k \in P : \E i \in 1 .. Cardinality(P) : at[i] = k
<1> DEFINE C == Cardinality(P)
           D == 1 .. C
           at == [i \in D |-> CHOOSE k \in P : Cardinality(Before(P, k)) = i - 1]
<1>1. Len(s) \in Nat /\ s \in [1 .. Len(s) -> T]
  BY SeqDef, LenProperties
<1>2. C \in Nat /\ C <= Len(s)
  BY <1>1, Ranked
<1>3. PICK rank \in [P -> 0 .. C - 1] :
        /\ \A k \in P : rank[k] = Cardinality(Before(P, k))
        /\ \A j, k \in P : rank[j] = rank[k] => j = k
        /\ \A j, k \in P : rank[j] < rank[k] => j < k
        /\ \A i \in 0 .. C - 1 : \E k \in P : rank[k] = i
  BY <1>1, Ranked
<1>4. \A i \in D : at[i] \in P /\ rank[at[i]] = i - 1
  <2> SUFFICES ASSUME NEW i \in D PROVE at[i] \in P /\ rank[at[i]] = i - 1
    OBVIOUS
  <2>1. i - 1 \in 0 .. C - 1
    BY <1>2
  <2>2. \E k \in P : Cardinality(Before(P, k)) = i - 1
    BY <1>3, <2>1
  <2>3. at[i] \in P /\ Cardinality(Before(P, at[i])) = i - 1
    BY <2>2
  <2> HIDE DEF at
  <2> QED  BY <1>3, <2>3
<1>5. at \in [D -> P]
  BY <1>4
<1>6. Pick(s, P) = [i \in D |-> s[at[i]]]
  BY DEF Pick, Before
<1> HIDE DEF at, C
<1>7. \A i, j \in D : i < j => at[i] < at[j]
  <2> SUFFICES ASSUME NEW i \in D, NEW j \in D, i < j PROVE at[i] < at[j]
    OBVIOUS
  <2>1. i - 1 < j - 1
    BY <1>2
  <2>2. /\ at[i] \in P /\ rank[at[i]] = i - 1
        /\ at[j] \in P /\ rank[at[j]] = j - 1
    BY <1>4
  <2>3. rank[at[i]] < rank[at[j]]
    BY <2>1, <2>2
  <2> QED  BY <1>3, <2>2, <2>3
<1>8. ASSUME NEW k \in P PROVE \E i \in D : at[i] = k
  <2>1. rank[k] \in 0 .. C - 1 /\ rank[k] + 1 \in D /\ rank[k] + 1 - 1 = rank[k]
    BY <1>2, <1>3
  <2>2. at[rank[k] + 1] \in P /\ rank[at[rank[k] + 1]] = rank[k]
    BY <1>4, <2>1
  <2>3. at[rank[k] + 1] = k
    BY <1>3, <2>2
  <2> QED  BY <2>1, <2>3
<1>9. \A i \in D : s[at[i]] \in T
  BY <1>1, <1>4
<1>10. Pick(s, P) \in Seq(T) /\ Len(Pick(s, P)) = C
  BY <1>2, <1>6, <1>9
<1> QED  BY <1>2, <1>5, <1>6, <1>7, <1>8, <1>10 DEF C

-----------------------------------------------------------------------------
(* The rules that get a class, and their commands.                         *)

\* One sequence has the first rule of each address of another.
Firsts(rules, first) ==
  /\ Len(first) \in Nat
  /\ \A i \in 1 .. Len(first) : \E k \in 1 .. Len(rules) :
       /\ first[i] = rules[k]
       /\ \A j \in 1 .. k - 1 : rules[j].ip # rules[k].ip
  /\ \A i, j \in 1 .. Len(first) : i # j => first[i].ip # first[j].ip
  /\ \A k \in 1 .. Len(rules) : \E i \in 1 .. Len(first) : first[i].ip = rules[k].ip

\* The rules that get a class are those.
LEMMA FirstRulesAre ==
  ASSUME NEW T, NEW rules \in Seq(T), NEW first, first = FirstRules(rules)
  PROVE  Firsts(rules, first)
<1> DEFINE N == Len(rules)
           P == {k \in 1 .. N : \A j \in 1 .. k - 1 : rules[j].ip # rules[k].ip}
           C == Cardinality(P)
<1>1. N \in Nat /\ DOMAIN rules = 1 .. N
  BY LenProperties
<1>2. first = Pick(rules, P)
  BY <1>1 DEF FirstRules
<1>3. PICK at \in [1 .. C -> P] :
        /\ C \in Nat /\ C <= N
        /\ Pick(rules, P) \in Seq(T) /\ Len(Pick(rules, P)) = C
        /\ Pick(rules, P) = [i \in 1 .. C |-> rules[at[i]]]
        /\ \A i, j \in 1 .. C : i < j => at[i] < at[j]
        /\ \A k \in P : \E i \in 1 .. C : at[i] = k
  <2> P \in SUBSET (1 .. Len(rules))
    OBVIOUS
  <2> HIDE DEF P
  <2> QED  BY Picked
<1>4. /\ first \in Seq(T) /\ Len(first) = C /\ C \in Nat
      /\ \A i \in 1 .. C : first[i] = rules[at[i]] /\ at[i] \in P /\ at[i] \in 1 .. N
  BY <1>2, <1>3
<1>5. ASSUME NEW i \in 1 .. C, NEW j \in 1 .. C, i < j PROVE first[i].ip # first[j].ip
  <2>1. at[i] < at[j] /\ at[i] \in P /\ at[j] \in P
    BY <1>3, <1>4, <1>5
  <2>2. at[i] \in 1 .. at[j] - 1
    BY <1>1, <2>1
  <2>3. rules[at[i]].ip # rules[at[j]].ip
    BY <2>1, <2>2
  <2> QED  BY <1>4, <2>3
<1>6. ASSUME NEW i \in 1 .. C, NEW j \in 1 .. C, i # j PROVE first[i].ip # first[j].ip
  <2>1. i < j \/ j < i
    BY <1>4, <1>6
  <2> QED  BY <1>5, <2>1
<1>7. ASSUME NEW k \in 1 .. N PROVE \E i \in 1 .. C : first[i].ip = rules[k].ip
  <2> DEFINE Q == {j \in 1 .. N : rules[j].ip = rules[k].ip}
  <2>1. k \in Q /\ Q \subseteq Nat
    BY <1>1
  <2>2. PICK j \in Q : \A x \in Q : j <= x
    <3> HIDE DEF Q
    <3> QED  BY <2>1, LeastNat
  <2>3. \A x \in 1 .. j - 1 : x \in 1 .. N /\ x \notin Q
    BY <1>1, <2>2
  <2>4. j \in P
    BY <2>2, <2>3
  <2>5. PICK i \in 1 .. C : at[i] = j
    BY <1>3, <2>4
  <2> QED  BY <1>4, <2>2, <2>5
<1>8. ASSUME NEW i \in 1 .. C
      PROVE  \E k \in 1 .. N : /\ first[i] = rules[k]
                               /\ \A j \in 1 .. k - 1 : rules[j].ip # rules[k].ip
  BY <1>4
<1> QED  BY <1>4, <1>6, <1>7, <1>8 DEF Firsts

\* There are not more of them than addresses.
LEMMA FewRules ==
  ASSUME NEW T, NEW rules \in Seq(T), NEW first, first = FirstRules(rules)
  PROVE  LET known == {rule.ip : rule \in ToSet(rules)}
         IN Len(first) <= Cardinality(known) /\ Cardinality(known) \in Nat
<1> DEFINE N == Len(rules)
           known == {rule.ip : rule \in ToSet(rules)}
           M == Len(first)
<1>1. N \in Nat /\ DOMAIN rules = 1 .. N
  BY LenProperties
<1>2. /\ M \in Nat
      /\ \A i \in 1 .. M : \E k \in 1 .. N : first[i] = rules[k]
      /\ \A i, j \in 1 .. M : i # j => first[i].ip # first[j].ip
  <2>1. Firsts(rules, first)
    BY FirstRulesAre
  <2> QED  BY <2>1 DEF Firsts
<1>3. IsFiniteSet(known)
  <2> DEFINE g == [k \in 1 .. N |-> rules[k].ip]
  <2>1. known = {rules[k].ip : k \in 1 .. N}
    BY <1>1 DEF ToSet
  <2>2. g \in Surjection(1 .. N, known)
    BY <2>1 DEF Surjection
  <2>3. IsFiniteSet(1 .. N)
    BY <1>1, FS_Interval
  <2> QED  BY <2>2, <2>3, FS_Surjection
<1>4. [i \in 1 .. M |-> first[i].ip] \in Injection(1 .. M, known)
  <2>1. \A i \in 1 .. M : first[i].ip \in known
    <3> SUFFICES ASSUME NEW i \in 1 .. M PROVE first[i].ip \in known
      OBVIOUS
    <3>1. PICK k \in 1 .. N : first[i] = rules[k]
      BY <1>2
    <3>2. rules[k] \in ToSet(rules)
      BY <1>1 DEF ToSet
    <3> QED  BY <3>1, <3>2
  <2> DEFINE g == [i \in 1 .. M |-> first[i].ip]
  <2> HIDE DEF known, M
  <2>2. g \in [1 .. M -> known]
    BY <2>1
  <2>3. \A i, j \in 1 .. M : g[i] = g[j] => i = j
    BY <1>2
  <2> QED  BY <2>2, <2>3 DEF Injection, IsInjective
<1>5. Cardinality(1 .. M) = M
  <2>1. M \in Nat
    BY <1>2
  <2> HIDE DEF M
  <2> QED  BY <2>1, FS_Interval
<1> HIDE DEF known
<1>6. Cardinality(1 .. M) <= Cardinality(known)
  BY <1>3, <1>4, FS_Injection
<1>7. Cardinality(known) \in Nat
  BY <1>3, FS_CardinalityType
<1> QED  BY <1>5, <1>6, <1>7 DEF known

\* A function on 1 .. n is a sequence.
LEMMA FunctionSeq ==
  ASSUME NEW n \in Nat, NEW f, f = [k \in 1 .. n |-> f[k]]
  PROVE  /\ Len(f) = n /\ DOMAIN f = 1 .. n
         /\ f \in Seq({f[k] : k \in 1 .. n})
<1> DEFINE T == {f[k] : k \in 1 .. n}
<1>1. \A k \in 1 .. n : f[k] \in T
  OBVIOUS
<1>2. DOMAIN f = 1 .. n
  OBVIOUS
<1> HIDE DEF T
<1>3. f \in [1 .. n -> T]
  BY <1>1
<1>4. f \in Seq(T)
  BY <1>3, SeqDef
<1>5. Len(f) = n
  BY <1>2, <1>4, LenProperties
<1> QED  BY <1>2, <1>4, <1>5 DEF T

\* A sequence has the root, the parent, and three commands for each rule.
CommandsOf(cmds, first) ==
  /\ Len(cmds) = 2 + 3 * Len(first)
  /\ cmds \in Seq({cmds[k] : k \in 1 .. Len(cmds)})
  /\ cmds[1] = [do |-> "root"] /\ cmds[2] = [do |-> "parent"]
  /\ \A i \in 1 .. Len(first) :
       /\ cmds[3 * i] = MakeClass(10 * i)
       /\ cmds[3 * i + 1] = MakeFilter(first[i].ip, 10 * i)
       /\ cmds[3 * i + 2] = MakeQDisc(10 * i, 10 * i + 1, first[i])

\* The commands are those.
LEMMA CommandsAre ==
  ASSUME NEW rules, NEW first, first = FirstRules(rules), Len(first) \in Nat,
         NEW cmds, cmds = Commands(rules)
  PROVE  CommandsOf(cmds, first)
<1> DEFINE M == Len(first)
           L == 2 + 3 * M
<1>1. M \in Nat /\ L \in Nat
  OBVIOUS
<1>2. cmds = [k \in 1 .. L |->
        IF k <= 2 THEN [do |-> IF k = 1 THEN "root" ELSE "parent"]
        ELSE Path(k \div 3, first[k \div 3])[(k % 3) + 1]]
  BY DEF Commands
<1> HIDE DEF M
<1>3. Len(cmds) = L /\ cmds \in Seq({cmds[k] : k \in 1 .. Len(cmds)})
  <2>1. cmds = [k \in 1 .. L |-> cmds[k]]
    BY <1>2
  <2> HIDE DEF L
  <2> QED  BY <1>1, <2>1, FunctionSeq
<1>4. cmds[1] = [do |-> "root"] /\ cmds[2] = [do |-> "parent"]
  BY <1>1, <1>2
<1>5. ASSUME NEW i \in 1 .. M
      PROVE  /\ cmds[3 * i] = MakeClass(10 * i)
             /\ cmds[3 * i + 1] = MakeFilter(first[i].ip, 10 * i)
             /\ cmds[3 * i + 2] = MakeQDisc(10 * i, 10 * i + 1, first[i])
  <2>1. \A d \in 0 .. 2 : /\ 3 * i + d \in 1 .. L /\ 3 * i + d > 2
                          /\ (3 * i + d) \div 3 = i /\ (3 * i + d) % 3 = d
    BY <1>1
  <2>2. \A d \in 0 .. 2 : cmds[3 * i + d] = Path(i, first[i])[d + 1]
    <3> SUFFICES ASSUME NEW d \in 0 .. 2
                 PROVE  cmds[3 * i + d] = Path(i, first[i])[d + 1]
      OBVIOUS
    <3> DEFINE k == 3 * i + d
    <3>1. k \in 1 .. L /\ ~(k <= 2) /\ k \div 3 = i /\ k % 3 = d
      BY <2>1
    <3> HIDE DEF k, L
    <3>2. cmds[k] = Path(k \div 3, first[k \div 3])[(k % 3) + 1]
      BY <1>2, <3>1
    <3> QED  BY <3>1, <3>2 DEF k
  <2>3. i * 10 = 10 * i /\ 3 * i + 0 = 3 * i
    BY <1>1
  <2>4. /\ Path(i, first[i])[1] = MakeClass(10 * i)
        /\ Path(i, first[i])[2] = MakeFilter(first[i].ip, 10 * i)
        /\ Path(i, first[i])[3] = MakeQDisc(10 * i, 10 * i + 1, first[i])
    BY <2>3 DEF Path
  <2>5. /\ cmds[3 * i + 0] = Path(i, first[i])[1]
        /\ cmds[3 * i + 1] = Path(i, first[i])[2]
        /\ cmds[3 * i + 2] = Path(i, first[i])[3]
    BY <2>2
  <2> QED  BY <2>3, <2>4, <2>5
<1> QED  BY <1>3, <1>4, <1>5 DEF M, CommandsOf

-----------------------------------------------------------------------------
(* The kernel.                                                             *)

\* The kernel after the first p commands of a fresh device.
After(first, p) ==
  [root    |-> p >= 1,
   classes |-> {10 * i : i \in 1 .. p \div 3} \cup (IF p >= 2 THEN {1} ELSE {}),
   filters |-> [i \in 1 .. (p - 1) \div 3 |-> MakeFilter(first[i].ip, 10 * i)],
   qdiscs  |-> {MakeQDisc(10 * i, 10 * i + 1, first[i]) : i \in 1 .. (p - 2) \div 3},
   drops   |-> {}]

\* A function on 1 .. n and its next value.
LEMMA AppendNext ==
  ASSUME NEW n \in Nat, NEW f, DOMAIN f = 1 .. n + 1
  PROVE  Append([i \in 1 .. n |-> f[i]], f[n + 1]) = [i \in 1 .. n + 1 |-> f[i]]
<1> DEFINE T == {f[i] : i \in 1 .. n + 1}
           s == [i \in 1 .. n |-> f[i]]
<1>1. \A i \in 1 .. n + 1 : f[i] \in T
  OBVIOUS
<1> HIDE DEF T
<1>2. s \in Seq(T) /\ Len(s) = n /\ f[n + 1] \in T
  BY <1>1
<1>3. /\ Append(s, f[n + 1]) \in Seq(T) /\ Len(Append(s, f[n + 1])) = n + 1
      /\ \A i \in 1 .. n : Append(s, f[n + 1])[i] = s[i]
      /\ Append(s, f[n + 1])[n + 1] = f[n + 1]
  BY <1>2, AppendProperties
<1>4. DOMAIN Append(s, f[n + 1]) = 1 .. n + 1
  BY <1>3, LenProperties
<1>5. \A i \in 1 .. n + 1 : Append(s, f[n + 1])[i] = f[i]
  <2> SUFFICES ASSUME NEW i \in 1 .. n + 1 PROVE Append(s, f[n + 1])[i] = f[i]
    OBVIOUS
  <2>1. i \in 1 .. n \/ i = n + 1
    OBVIOUS
  <2> QED  BY <1>3, <2>1
<1> QED  BY <1>4, <1>5

\* The places in the commands.
LEMMA Places ==
  ASSUME NEW m \in Nat, NEW p \in 0 .. 1 + 3 * m
  PROVE  \/ p = 0 \/ p = 1
         \/ \E i \in 1 .. m : p = 3 * i - 1 \/ p = 3 * i \/ p = 3 * i + 1
<1> SUFFICES ASSUME p >= 2
             PROVE  \E i \in 1 .. m : p = 3 * i - 1 \/ p = 3 * i \/ p = 3 * i + 1
  OBVIOUS
<1>1. (p + 1) \div 3 \in 1 .. m
  OBVIOUS
<1>2. LET i == (p + 1) \div 3 IN p = 3 * i - 1 \/ p = 3 * i \/ p = 3 * i + 1
  OBVIOUS
<1> QED  BY <1>1, <1>2

\* The kernel, by how many there are of each.
Tree(first, root, parent, c, f, q) ==
  [root    |-> root,
   classes |-> {10 * i : i \in 1 .. c} \cup (IF parent THEN {1} ELSE {}),
   filters |-> [i \in 1 .. f |-> MakeFilter(first[i].ip, 10 * i)],
   qdiscs  |-> {MakeQDisc(10 * i, 10 * i + 1, first[i]) : i \in 1 .. q},
   drops   |-> {}]

\* The places fall in threes: a class, its filter, its qdisc.
LEMMA AfterIsTree ==
  ASSUME NEW first, NEW i \in Nat, i >= 1
  PROVE  /\ After(first, 3 * i - 1) = Tree(first, TRUE, TRUE, i - 1, i - 1, i - 1)
         /\ After(first, 3 * i) = Tree(first, TRUE, TRUE, i, i - 1, i - 1)
         /\ After(first, 3 * i + 1) = Tree(first, TRUE, TRUE, i, i, i - 1)
         /\ After(first, 3 * i + 2) = Tree(first, TRUE, TRUE, i, i, i)
<1>1. After(first, 3 * i - 1) = Tree(first, TRUE, TRUE, i - 1, i - 1, i - 1)
  <2> DEFINE p == 3 * i - 1
  <2>1. (p >= 1) = TRUE /\ (p >= 2) = TRUE
    OBVIOUS
  <2>2. p \div 3 = i - 1 /\ (p - 1) \div 3 = i - 1 /\ (p - 2) \div 3 = i - 1
    OBVIOUS
  <2> HIDE DEF p
  <2>3. After(first, p) = Tree(first, TRUE, TRUE, i - 1, i - 1, i - 1)
    BY <2>1, <2>2 DEF After, Tree
  <2> QED  BY <2>3 DEF p
<1>2. After(first, 3 * i) = Tree(first, TRUE, TRUE, i, i - 1, i - 1)
  <2> DEFINE p == 3 * i
  <2>1. (p >= 1) = TRUE /\ (p >= 2) = TRUE
    OBVIOUS
  <2>2. p \div 3 = i /\ (p - 1) \div 3 = i - 1 /\ (p - 2) \div 3 = i - 1
    OBVIOUS
  <2> HIDE DEF p
  <2>3. After(first, p) = Tree(first, TRUE, TRUE, i, i - 1, i - 1)
    BY <2>1, <2>2 DEF After, Tree
  <2> QED  BY <2>3 DEF p
<1>3. After(first, 3 * i + 1) = Tree(first, TRUE, TRUE, i, i, i - 1)
  <2> DEFINE p == 3 * i + 1
  <2>1. (p >= 1) = TRUE /\ (p >= 2) = TRUE
    OBVIOUS
  <2>2. p \div 3 = i /\ (p - 1) \div 3 = i /\ (p - 2) \div 3 = i - 1
    OBVIOUS
  <2> HIDE DEF p
  <2>3. After(first, p) = Tree(first, TRUE, TRUE, i, i, i - 1)
    BY <2>1, <2>2 DEF After, Tree
  <2> QED  BY <2>3 DEF p
<1>4. After(first, 3 * i + 2) = Tree(first, TRUE, TRUE, i, i, i)
  <2> DEFINE p == 3 * i + 2
  <2>1. (p >= 1) = TRUE /\ (p >= 2) = TRUE
    OBVIOUS
  <2>2. p \div 3 = i /\ (p - 1) \div 3 = i /\ (p - 2) \div 3 = i
    OBVIOUS
  <2> HIDE DEF p
  <2>3. After(first, p) = Tree(first, TRUE, TRUE, i, i, i)
    BY <2>1, <2>2 DEF After, Tree
  <2> QED  BY <2>3 DEF p
<1> QED  BY <1>1, <1>2, <1>3, <1>4

\* The first ones come before any rule.
LEMMA AfterFirst ==
  ASSUME NEW first
  PROVE  /\ After(first, 0) = Tree(first, FALSE, FALSE, 0, 0, 0)
         /\ After(first, 1) = Tree(first, TRUE, FALSE, 0, 0, 0)
         /\ After(first, 2) = Tree(first, TRUE, TRUE, 0, 0, 0)
<1>1. After(first, 0) = Tree(first, FALSE, FALSE, 0, 0, 0)
  <2>1. (0 >= 1) = FALSE /\ (0 >= 2) = FALSE
    OBVIOUS
  <2>2. 1 .. 0 \div 3 = 1 .. 0 /\ 1 .. (0 - 1) \div 3 = 1 .. 0 /\ 1 .. (0 - 2) \div 3 = 1 .. 0
    OBVIOUS
  <2> QED  BY <2>1, <2>2 DEF After, Tree
<1>2. After(first, 1) = Tree(first, TRUE, FALSE, 0, 0, 0)
  <2>1. (1 >= 1) = TRUE /\ (1 >= 2) = FALSE
    OBVIOUS
  <2>2. 1 .. 1 \div 3 = 1 .. 0 /\ 1 .. (1 - 1) \div 3 = 1 .. 0 /\ 1 .. (1 - 2) \div 3 = 1 .. 0
    OBVIOUS
  <2> QED  BY <2>1, <2>2 DEF After, Tree
<1>3. After(first, 2) = Tree(first, TRUE, TRUE, 0, 0, 0)
  <2>1. (2 >= 1) = TRUE /\ (2 >= 2) = TRUE
    OBVIOUS
  <2>2. 1 .. 2 \div 3 = 1 .. 0 /\ 1 .. (2 - 1) \div 3 = 1 .. 0 /\ 1 .. (2 - 2) \div 3 = 1 .. 0
    OBVIOUS
  <2> QED  BY <2>1, <2>2 DEF After, Tree
<1> QED  BY <1>1, <1>2, <1>3

\* Every command adds the next of its kind.
LEMMA TreeGrows ==
  ASSUME NEW first, NEW i \in Nat, i >= 1
  PROVE  /\ Apply(Tree(first, TRUE, TRUE, i - 1, i - 1, i - 1), MakeClass(10 * i))
              = Tree(first, TRUE, TRUE, i, i - 1, i - 1)
         /\ Apply(Tree(first, TRUE, TRUE, i, i - 1, i - 1), MakeFilter(first[i].ip, 10 * i))
              = Tree(first, TRUE, TRUE, i, i, i - 1)
         /\ Apply(Tree(first, TRUE, TRUE, i, i, i - 1), MakeQDisc(10 * i, 10 * i + 1, first[i]))
              = Tree(first, TRUE, TRUE, i, i, i)
<1>1. 1 .. i = (1 .. i - 1) \cup {i} /\ i - 1 \in Nat /\ i - 1 + 1 = i
  OBVIOUS
<1>2. {10 * j : j \in 1 .. i} = {10 * j : j \in 1 .. i - 1} \cup {10 * i}
  BY <1>1
<1>3. {MakeQDisc(10 * j, 10 * j + 1, first[j]) : j \in 1 .. i}
        = {MakeQDisc(10 * j, 10 * j + 1, first[j]) : j \in 1 .. i - 1}
            \cup {MakeQDisc(10 * i, 10 * i + 1, first[i])}
  BY <1>1
<1>4. Append([j \in 1 .. i - 1 |-> MakeFilter(first[j].ip, 10 * j)],
             MakeFilter(first[i].ip, 10 * i))
        = [j \in 1 .. i |-> MakeFilter(first[j].ip, 10 * j)]
  <2> DEFINE f == [j \in 1 .. i |-> MakeFilter(first[j].ip, 10 * j)]
             n == i - 1
  <2>1. DOMAIN f = 1 .. n + 1 /\ n \in Nat /\ n + 1 = i
    BY <1>1
  <2>2. f[i] = MakeFilter(first[i].ip, 10 * i) /\ f = [j \in 1 .. i |-> f[j]]
    BY <1>1
  <2>3. [j \in 1 .. n |-> f[j]] = [j \in 1 .. i - 1 |-> MakeFilter(first[j].ip, 10 * j)]
    BY <1>1
  <2> HIDE DEF f, n
  <2>4. Append([j \in 1 .. n |-> f[j]], f[n + 1]) = [j \in 1 .. n + 1 |-> f[j]]
    BY <2>1, AppendNext
  <2> QED  BY <2>1, <2>2, <2>3, <2>4 DEF f
<1>5. /\ MakeClass(10 * i).do = "class" /\ MakeClass(10 * i).minor = 10 * i
      /\ MakeFilter(first[i].ip, 10 * i).do = "filter"
      /\ MakeQDisc(10 * i, 10 * i + 1, first[i]).do = "qdisc"
  BY DEF MakeClass, MakeFilter, MakeQDisc
<1>6. Apply(Tree(first, TRUE, TRUE, i - 1, i - 1, i - 1), MakeClass(10 * i))
        = Tree(first, TRUE, TRUE, i, i - 1, i - 1)
  BY <1>2, <1>5 DEF Apply, Tree
<1>7. Apply(Tree(first, TRUE, TRUE, i, i - 1, i - 1), MakeFilter(first[i].ip, 10 * i))
        = Tree(first, TRUE, TRUE, i, i, i - 1)
  BY <1>4, <1>5 DEF Apply, Tree
<1>8. Apply(Tree(first, TRUE, TRUE, i, i, i - 1), MakeQDisc(10 * i, 10 * i + 1, first[i]))
        = Tree(first, TRUE, TRUE, i, i, i)
  BY <1>3, <1>5 DEF Apply, Tree
<1> QED  BY <1>6, <1>7, <1>8

\* The next command.
LEMMA NextCommand ==
  ASSUME NEW first, Len(first) \in Nat, NEW cmds, CommandsOf(cmds, first),
         NEW p \in 0 .. 1 + 3 * Len(first)
  PROVE  Apply(After(first, p), cmds[p + 1]) = After(first, p + 1)
<1> DEFINE m == Len(first)
<1>0. p \in Nat /\ p + 1 \in Nat
  OBVIOUS
<1>1. CASE p = 0
  <2>1. cmds[0 + 1].do = "root"
    BY DEF CommandsOf
  <2>2. Apply(Tree(first, FALSE, FALSE, 0, 0, 0), cmds[0 + 1])
          = Tree(first, TRUE, FALSE, 0, 0, 0)
    BY <2>1 DEF Apply, Tree
  <2>3. 0 + 1 = 1
    OBVIOUS
  <2> QED  BY <1>1, <2>2, <2>3, AfterFirst
<1>2. CASE p = 1
  <2>1. cmds[1 + 1].do = "parent"
    BY DEF CommandsOf
  <2>2. Apply(Tree(first, TRUE, FALSE, 0, 0, 0), cmds[1 + 1])
          = Tree(first, TRUE, TRUE, 0, 0, 0)
    BY <2>1 DEF Apply, Tree
  <2>3. 1 + 1 = 2
    OBVIOUS
  <2> QED  BY <1>2, <2>2, <2>3, AfterFirst
<1>3. ASSUME NEW i \in 1 .. m, p = 3 * i - 1 \/ p = 3 * i \/ p = 3 * i + 1
      PROVE  Apply(After(first, p), cmds[p + 1]) = After(first, p + 1)
  <2>1. i \in Nat /\ i >= 1 /\ 3 * i - 1 + 1 = 3 * i /\ 3 * i + 1 + 1 = 3 * i + 2
    OBVIOUS
  <2>3. /\ After(first, 3 * i - 1) = Tree(first, TRUE, TRUE, i - 1, i - 1, i - 1)
        /\ After(first, 3 * i) = Tree(first, TRUE, TRUE, i, i - 1, i - 1)
        /\ After(first, 3 * i + 1) = Tree(first, TRUE, TRUE, i, i, i - 1)
        /\ After(first, 3 * i + 2) = Tree(first, TRUE, TRUE, i, i, i)
    BY <2>1, AfterIsTree
  <2>4. /\ cmds[3 * i] = MakeClass(10 * i)
        /\ cmds[3 * i + 1] = MakeFilter(first[i].ip, 10 * i)
        /\ cmds[3 * i + 2] = MakeQDisc(10 * i, 10 * i + 1, first[i])
    BY DEF CommandsOf
  <2>5. /\ Apply(Tree(first, TRUE, TRUE, i - 1, i - 1, i - 1), MakeClass(10 * i))
             = Tree(first, TRUE, TRUE, i, i - 1, i - 1)
        /\ Apply(Tree(first, TRUE, TRUE, i, i - 1, i - 1), MakeFilter(first[i].ip, 10 * i))
             = Tree(first, TRUE, TRUE, i, i, i - 1)
        /\ Apply(Tree(first, TRUE, TRUE, i, i, i - 1), MakeQDisc(10 * i, 10 * i + 1, first[i]))
             = Tree(first, TRUE, TRUE, i, i, i)
    BY <2>1, TreeGrows
  <2>6. CASE p = 3 * i - 1
    <3>1. p + 1 = 3 * i
      BY <2>1, <2>6
    <3> QED  BY <2>3, <2>4, <2>5, <2>6, <3>1
  <2>7. CASE p = 3 * i
    BY <2>3, <2>4, <2>5, <2>7
  <2>8. CASE p = 3 * i + 1
    <3>1. p + 1 = 3 * i + 2
      BY <2>1, <2>8
    <3> QED  BY <2>3, <2>4, <2>5, <2>8, <3>1
  <2> QED  BY <1>3, <2>6, <2>7, <2>8
<1> QED  BY <1>1, <1>2, <1>3, Places

\* On a kernel that has the first of them the next is refused only for an
\* address that is not known or a number that is too large for tc.
LEMMA NextAccepted ==
  ASSUME NEW first, Len(first) \in Nat, NEW cmds, CommandsOf(cmds, first),
         NEW p \in 0 .. 1 + 3 * Len(first),
         \A i \in 1 .. Len(first) : first[i].ip # NoIP, 10 * Len(first) <= MaxMinor
  PROVE  Accepts(After(first, p), cmds[p + 1])
<1> DEFINE m == Len(first)
<1>1. CASE p = 0
  <2>1. cmds[0 + 1].do = "root"
    BY DEF CommandsOf
  <2>2. Accepts(Tree(first, FALSE, FALSE, 0, 0, 0), cmds[0 + 1])
    BY <2>1 DEF Accepts, Tree
  <2> QED  BY <1>1, <2>2, AfterFirst
<1>2. CASE p = 1
  <2>1. cmds[1 + 1].do = "parent"
    BY DEF CommandsOf
  <2>2. Accepts(Tree(first, TRUE, FALSE, 0, 0, 0), cmds[1 + 1])
    BY <2>1 DEF Accepts, Tree
  <2> QED  BY <1>2, <2>2, AfterFirst
<1>3. ASSUME NEW i \in 1 .. m, p = 3 * i - 1 \/ p = 3 * i \/ p = 3 * i + 1
      PROVE  Accepts(After(first, p), cmds[p + 1])
  <2>1. /\ i \in Nat /\ i >= 1 /\ 10 * i <= MaxMinor /\ 10 * i # 1 /\ first[i].ip # NoIP
    BY <1>3, NetemAssumption
  <2>2. /\ cmds[3 * i] = MakeClass(10 * i)
        /\ cmds[3 * i + 1] = MakeFilter(first[i].ip, 10 * i)
        /\ cmds[3 * i + 2] = MakeQDisc(10 * i, 10 * i + 1, first[i])
    BY DEF CommandsOf
  <2>3. /\ After(first, 3 * i - 1) = Tree(first, TRUE, TRUE, i - 1, i - 1, i - 1)
        /\ After(first, 3 * i) = Tree(first, TRUE, TRUE, i, i - 1, i - 1)
        /\ After(first, 3 * i + 1) = Tree(first, TRUE, TRUE, i, i, i - 1)
    BY <2>1, AfterIsTree
  <2>4. CASE p = 3 * i - 1
    <3>1. p + 1 = 3 * i
      BY <2>1, <2>4
    <3>2. cmds[p + 1].do = "class" /\ cmds[p + 1].minor = 10 * i
      BY <2>2, <3>1 DEF MakeClass
    <3>3. LET k == Tree(first, TRUE, TRUE, i - 1, i - 1, i - 1)
          IN 1 \in k.classes /\ 10 * i \notin k.classes
      BY <2>1 DEF Tree
    <3> QED  BY <2>1, <2>3, <2>4, <3>2, <3>3 DEF Accepts
  <2>5. CASE p = 3 * i
    <3>1. cmds[p + 1].do = "filter" /\ cmds[p + 1].ip # NoIP
      BY <2>1, <2>2, <2>5 DEF MakeFilter
    <3>2. Tree(first, TRUE, TRUE, i, i - 1, i - 1).root
      BY DEF Tree
    <3> QED  BY <2>3, <2>5, <3>1, <3>2 DEF Accepts
  <2>6. CASE p = 3 * i + 1
    <3> DEFINE k == Tree(first, TRUE, TRUE, i, i, i - 1)
    <3>1. p + 1 = 3 * i + 2
      BY <2>1, <2>6
    <3>2. 10 * i \in k.classes
      BY <2>1 DEF Tree
    <3>3. \A q \in k.qdiscs : q.minor # 10 * i /\ q.handle # 10 * i + 1
      <4>1. \A j \in 1 .. i - 1 : 10 * j # 10 * i /\ 10 * j + 1 # 10 * i + 1
        BY <2>1
      <4> QED  BY <4>1 DEF Tree, MakeQDisc
    <3>4. cmds[p + 1] = MakeQDisc(10 * i, 10 * i + 1, first[i])
      BY <2>2, <3>1
    <3>5. /\ cmds[p + 1].do = "qdisc" /\ cmds[p + 1].minor = 10 * i
          /\ cmds[p + 1].handle = 10 * i + 1
      BY <3>4 DEF MakeQDisc
    <3> HIDE DEF k
    <3>6. Accepts(k, cmds[p + 1])
      BY <3>2, <3>3, <3>5 DEF Accepts
    <3> QED  BY <2>3, <2>6, <3>6 DEF k
  <2> QED  BY <1>3, <2>4, <2>5, <2>6
<1> QED  BY <1>1, <1>2, <1>3, Places

\* The device has one root.
LEMMA RootOnce ==
  ASSUME NEW first, NEW p \in Nat, p >= 1, NEW cmds, CommandsOf(cmds, first)
  PROVE  ~Accepts(After(first, p), cmds[1])
<1>1. (p >= 1) = TRUE
  OBVIOUS
<1>2. After(first, p).root = TRUE
  BY <1>1 DEF After
<1>3. cmds[1].do = "root"
  BY DEF CommandsOf
<1> HIDE DEF CommandsOf
<1> QED  BY <1>2, <1>3 DEF Accepts

\* No address of a filter is the empty one.
LEMMA NextKnown ==
  ASSUME NEW first, Len(first) \in Nat, NEW cmds, CommandsOf(cmds, first),
         NEW p \in 0 .. 1 + 3 * Len(first), NEW k, Accepts(k, cmds[p + 1]),
         \A i \in 1 .. (p - 1) \div 3 : first[i].ip # NoIP
  PROVE  \A i \in 1 .. (p + 1 - 1) \div 3 : first[i].ip # NoIP
<1> SUFFICES ASSUME NEW i \in 1 .. (p + 1 - 1) \div 3, i \notin 1 .. (p - 1) \div 3
             PROVE  first[i].ip # NoIP
  OBVIOUS
<1>1. p = 3 * i /\ i \in 1 .. Len(first)
  OBVIOUS
<1>2. cmds[p + 1] = MakeFilter(first[i].ip, 10 * i)
  BY <1>1 DEF CommandsOf
<1> QED  BY <1>2 DEF Accepts, MakeFilter

\* At the end, a packet for the address of a rule is held back as it says, and
\* one for another address is not.
LEMMA AfterShapes ==
  ASSUME NEW first, Len(first) \in Nat, NEW ip,
         \A i, j \in 1 .. Len(first) : i # j => first[i].ip # first[j].ip
  PROVE  LET k == After(first, 2 + 3 * Len(first))
         IN /\ \A i \in 1 .. Len(first) :
                 first[i].ip = ip => Shaping(k, ip) = MakeNetEm(first[i])
            /\ (\A i \in 1 .. Len(first) : first[i].ip # ip) => Shaping(k, ip) = 0
<1> DEFINE m == Len(first)
           k == After(first, 2 + 3 * m)
           match == {i \in DOMAIN k.filters : k.filters[i].ip = ip}
<1>1. k = Tree(first, TRUE, TRUE, m, m, m)
  <2>1. CASE m = 0
    <3>1. 2 + 3 * m = 2
      BY <2>1
    <3> QED  BY <2>1, <3>1, AfterFirst
  <2>2. CASE m >= 1
    <3>1. 2 + 3 * m = 3 * m + 2
      OBVIOUS
    <3> QED  BY <2>2, <3>1, AfterIsTree
  <2>3. m \in Nat /\ (m = 0 \/ m >= 1)
    OBVIOUS
  <2> HIDE DEF m, k
  <2> QED  BY <2>1, <2>2, <2>3
<1>2. /\ k.filters = [i \in 1 .. m |-> MakeFilter(first[i].ip, 10 * i)]
      /\ k.qdiscs = {MakeQDisc(10 * i, 10 * i + 1, first[i]) : i \in 1 .. m}
  BY <1>1 DEF Tree
<1> HIDE DEF k
<1>3. match = {i \in 1 .. m : first[i].ip = ip}
  BY <1>2 DEF MakeFilter
<1>4. ASSUME NEW i \in 1 .. m, first[i].ip = ip PROVE Shaping(k, ip) = MakeNetEm(first[i])
  <2>1. match = {i}
    BY <1>3, <1>4
  <2>2. Min(match) = i
    BY <2>1 DEF Min
  <2>3. k.filters[Min(match)].flow = 10 * i
    BY <1>2, <2>2 DEF MakeFilter
  <2>4. {q \in k.qdiscs : q.minor = 10 * i} = {MakeQDisc(10 * i, 10 * i + 1, first[i])}
    <3> DEFINE D == [j \in 1 .. m |-> MakeQDisc(10 * j, 10 * j + 1, first[j])]
    <3>1. /\ k.qdiscs = {D[j] : j \in 1 .. m}
          /\ D[i] = MakeQDisc(10 * i, 10 * i + 1, first[i])
      BY <1>2
    <3>2. \A j \in 1 .. m : D[j].minor = 10 * j
      BY DEF MakeQDisc
    <3>3. \A j \in 1 .. m : 10 * j = 10 * i => j = i
      OBVIOUS
    <3> HIDE DEF D
    <3>4. \A q \in k.qdiscs : q.minor = 10 * i => q = D[i]
      BY <3>1, <3>2, <3>3
    <3>5. D[i] \in k.qdiscs /\ D[i].minor = 10 * i
      BY <3>1, <3>2
    <3> QED  BY <3>1, <3>4, <3>5
  <2>5. MakeQDisc(10 * i, 10 * i + 1, first[i]).delay = MakeNetEm(first[i])
    BY DEF MakeQDisc
  <2> QED  BY <2>1, <2>3, <2>4, <2>5 DEF Shaping
<1>5. ASSUME \A i \in 1 .. m : first[i].ip # ip PROVE Shaping(k, ip) = 0
  <2>1. match = {}
    BY <1>3, <1>5
  <2> QED  BY <2>1 DEF Shaping
<1> QED  BY <1>4, <1>5 DEF k

-----------------------------------------------------------------------------
(* The nodes of an area topology.                                          *)

\* The pairs that stand for the nodes of the areas up to one.
Upto(areas, i) == UNION {{j} \X (1 .. areas[j].n) : j \in 1 .. i - 1}

\* The next area brings its own.
LEMMA UptoNext ==
  ASSUME NEW areas \in Seq(AreaRecords), NEW i \in 1 .. Len(areas)
  PROVE  /\ Upto(areas, i + 1) = Upto(areas, i) \cup ({i} \X (1 .. areas[i].n))
         /\ Upto(areas, i) \cap ({i} \X (1 .. areas[i].n)) = {}
<1>1. i + 1 - 1 = i /\ 1 .. i = (1 .. i - 1) \cup {i} /\ i \notin 1 .. i - 1
  OBVIOUS
<1>2. Upto(areas, i + 1) = UNION {{j} \X (1 .. areas[j].n) : j \in 1 .. i}
  BY <1>1 DEF Upto
<1>3. UNION {{j} \X (1 .. areas[j].n) : j \in 1 .. i}
        = (UNION {{j} \X (1 .. areas[j].n) : j \in 1 .. i - 1}) \cup ({i} \X (1 .. areas[i].n))
  <2> DEFINE F == [j \in 1 .. i |-> {j} \X (1 .. areas[j].n)]
  <2>1. /\ {{j} \X (1 .. areas[j].n) : j \in 1 .. i} = {F[j] : j \in 1 .. i}
        /\ {{j} \X (1 .. areas[j].n) : j \in 1 .. i - 1} = {F[j] : j \in 1 .. i - 1}
        /\ F[i] = {i} \X (1 .. areas[i].n)
    BY <1>1
  <2> HIDE DEF F
  <2>2. ASSUME NEW J, NEW K, J = K \cup {i}
        PROVE  UNION {F[j] : j \in J} = (UNION {F[j] : j \in K}) \cup F[i]
    <3>1. {F[j] : j \in J} = {F[j] : j \in K} \cup {F[i]}
      BY <2>2
    <3>2. \A A, B : UNION (A \cup {B}) = (UNION A) \cup B
      OBVIOUS
    <3> QED  BY <3>1, <3>2
  <2>3. UNION {F[j] : j \in 1 .. i} = (UNION {F[j] : j \in 1 .. i - 1}) \cup F[i]
    BY <1>1, <2>2
  <2> QED  BY <2>1, <2>3
<1>4. \A x \in Upto(areas, i) : x[1] \in 1 .. i - 1
  BY DEF Upto
<1>5. \A x \in {i} \X (1 .. areas[i].n) : x[1] = i
  OBVIOUS
<1>6. Upto(areas, i) \cap ({i} \X (1 .. areas[i].n)) = {}
  BY <1>1, <1>4, <1>5
<1> QED  BY <1>2, <1>3, <1>6 DEF Upto

\* They are finitely many.
LEMMA UptoFinite ==
  ASSUME NEW areas \in Seq(AreaRecords), NEW i \in 1 .. Len(areas) + 1
  PROVE  IsFiniteSet(Upto(areas, i))
<1> DEFINE F == [j \in 1 .. i - 1 |-> {j} \X (1 .. areas[j].n)]
           S == {F[j] : j \in 1 .. i - 1}
<1>0. Len(areas) \in Nat /\ i \in Nat /\ i - 1 \in Int
  BY LenProperties
<1>1. IsFiniteSet(1 .. i - 1)
  BY <1>0, FS_Interval
<1>2. F \in Surjection(1 .. i - 1, S)
  BY DEF Surjection
<1>3. IsFiniteSet(S)
  <2> HIDE DEF F, S
  <2> QED  BY <1>1, <1>2, FS_Surjection
<1>4. \A j \in 1 .. i - 1 : IsFiniteSet(F[j])
  <2> SUFFICES ASSUME NEW j \in 1 .. i - 1 PROVE IsFiniteSet({j} \X (1 .. areas[j].n))
    OBVIOUS
  <2>1. areas[j] \in AreaRecords
    BY <1>0, ElementOfSeq
  <2>2. areas[j].n \in Int
    <3>1. \A r \in AreaRecords : r.n \in Nat
      BY DEF AreaRecords
    <3> QED  BY <2>1, <3>1
  <2>3. IsFiniteSet(1 .. areas[j].n)
    <3> DEFINE n == areas[j].n
    <3>1. n \in Int
      BY <2>2
    <3> HIDE DEF n
    <3>2. IsFiniteSet(1 .. n)
      BY <3>1, FS_Interval
    <3> QED  BY <3>2 DEF n
  <2>4. IsFiniteSet({j})
    BY FS_Singleton
  <2> QED  BY <2>3, <2>4, FS_Product
<1>5. IsFiniteSet(UNION S)
  <2>1. \A T \in S : IsFiniteSet(T)
    BY <1>4
  <2> HIDE DEF S
  <2> QED  BY <1>3, <2>1, FS_UNION
<1> QED  BY <1>5 DEF Upto

\* The first node of each area comes after the last one of the area before.
LEMMA FirstOfIs ==
  ASSUME NEW areas \in Seq(AreaRecords)
  PROVE  /\ \A i \in 1 .. Len(areas) + 1 : FirstOf(areas, i) \in Nat
         /\ FirstOf(areas, 1) = 0
         /\ \A i \in 1 .. Len(areas) : FirstOf(areas, i + 1) = FirstOf(areas, i) + areas[i].n
         /\ \A i, j \in 1 .. Len(areas) + 1 : i <= j => FirstOf(areas, i) <= FirstOf(areas, j)
<1>0. Len(areas) \in Nat
  BY LenProperties
<1>1. \A i \in 1 .. Len(areas) + 1 : /\ FirstOf(areas, i) = Cardinality(Upto(areas, i))
                                     /\ FirstOf(areas, i) \in Nat
  BY UptoFinite, FS_CardinalityType DEF FirstOf, Upto
<1>2. FirstOf(areas, 1) = 0
  <2>1. 1 .. 1 - 1 = {}
    OBVIOUS
  <2>2. Upto(areas, 1) = {}
    BY <2>1 DEF Upto
  <2>3. 1 \in 1 .. Len(areas) + 1
    BY <1>0
  <2> QED  BY <1>1, <2>2, <2>3, FS_EmptySet
<1>3. ASSUME NEW i \in 1 .. Len(areas)
      PROVE  FirstOf(areas, i + 1) = FirstOf(areas, i) + areas[i].n
  <2> DEFINE A == Upto(areas, i)
             B == {i} \X (1 .. areas[i].n)
             n == areas[i].n
  <2>0. areas[i] \in AreaRecords
    BY ElementOfSeq
  <2>1. n \in Nat /\ i \in 1 .. Len(areas) + 1 /\ i + 1 \in 1 .. Len(areas) + 1
    BY <1>0, <2>0 DEF AreaRecords
  <2>2. IsFiniteSet(A)
    BY <2>1, UptoFinite
  <2>3. IsFiniteSet(B) /\ Cardinality(B) = n
    <3>1. IsFiniteSet(1 .. n) /\ Cardinality(1 .. n) = n
      <4>1. n \in Nat
        BY <2>1
      <4> HIDE DEF n
      <4>2. /\ IsFiniteSet(1 .. n) /\ Cardinality(1 .. n) = IF 1 > n THEN 0 ELSE n - 1 + 1
        BY <4>1, FS_Interval
      <4> QED  BY <4>1, <4>2
    <3>2. IsFiniteSet({i}) /\ Cardinality({i}) = 1
      BY FS_Singleton
    <3>3. Cardinality(B) = 1 * n
      BY <3>1, <3>2, FS_Product
    <3>4. IsFiniteSet(B)
      BY <3>1, <3>2, FS_Product
    <3> HIDE DEF B, n
    <3> QED  BY <2>1, <3>3, <3>4
  <2>4. Upto(areas, i + 1) = A \cup B /\ A \cap B = {}
    BY UptoNext
  <2>5. Cardinality(A) = FirstOf(areas, i)
    BY <1>1, <2>1
  <2>6. Cardinality(Upto(areas, i + 1)) = FirstOf(areas, i + 1)
    BY <1>1, <2>1
  <2>7. FirstOf(areas, i) \in Nat
    BY <1>1, <2>1
  <2> HIDE DEF A, B
  <2>8. Cardinality(A \cup B) = Cardinality(A) + Cardinality(B) - Cardinality({})
    BY <2>2, <2>3, <2>4, FS_Union
  <2>9. Cardinality({}) = 0
    BY FS_EmptySet
  <2> HIDE DEF n
  <2>10. Cardinality(A \cup B) = FirstOf(areas, i) + n
    BY <2>1, <2>3, <2>5, <2>7, <2>8, <2>9
  <2> QED  BY <2>4, <2>6, <2>10 DEF n
<1>4. ASSUME NEW i \in 1 .. Len(areas) + 1, NEW j \in 1 .. Len(areas) + 1, i <= j
      PROVE  FirstOf(areas, i) <= FirstOf(areas, j)
  <2>1. 1 .. i - 1 \subseteq 1 .. j - 1
    BY <1>4
  <2>2. Upto(areas, i) \subseteq Upto(areas, j)
    BY <2>1 DEF Upto
  <2>3. Cardinality(Upto(areas, i)) <= Cardinality(Upto(areas, j))
    BY <2>2, UptoFinite, FS_Subset
  <2> QED  BY <1>1, <2>3
<1> QED  BY <1>1, <1>2, <1>3, <1>4

\* Every node is in exactly one area.
LEMMA AreaIs ==
  ASSUME NEW areas \in Seq(AreaRecords), NEW node \in 0 .. FirstOf(areas, Len(areas) + 1) - 1
  PROVE  /\ AreaOf(areas, node) \in 1 .. Len(areas)
         /\ node \in Members(areas, AreaOf(areas, node))
         /\ \A i \in 1 .. Len(areas) : node \in Members(areas, i) => i = AreaOf(areas, node)
<1> DEFINE N == Len(areas)
           T == {i \in 1 .. N + 1 : node < FirstOf(areas, i)}
<1>0. N \in Nat /\ DOMAIN areas = 1 .. N
  BY LenProperties
<1>1. /\ \A i \in 1 .. N + 1 : FirstOf(areas, i) \in Nat
      /\ FirstOf(areas, 1) = 0
      /\ \A i \in 1 .. N : FirstOf(areas, i + 1) = FirstOf(areas, i) + areas[i].n
      /\ \A i, j \in 1 .. N + 1 : i <= j => FirstOf(areas, i) <= FirstOf(areas, j)
  BY FirstOfIs
<1>2. \A i \in 1 .. N : areas[i].n \in Nat
  <2>1. \A i \in 1 .. N : areas[i] \in AreaRecords
    BY ElementOfSeq
  <2> QED  BY <2>1 DEF AreaRecords
<1>3. \A i \in 1 .. N : node \in Members(areas, i) <=>
                          FirstOf(areas, i) <= node /\ node < FirstOf(areas, i + 1)
  <2> SUFFICES ASSUME NEW i \in 1 .. N
               PROVE  node \in Members(areas, i) <=>
                          FirstOf(areas, i) <= node /\ node < FirstOf(areas, i + 1)
    OBVIOUS
  <2>1. /\ i \in 1 .. N + 1 /\ FirstOf(areas, i) \in Nat /\ areas[i].n \in Nat /\ node \in Int
        /\ FirstOf(areas, i + 1) = FirstOf(areas, i) + areas[i].n
    BY <1>0, <1>1, <1>2
  <2> HIDE DEF N
  <2> QED  BY <2>1 DEF Members
<1>4. PICK m \in T : \A k \in T : m <= k
  <2>1. N + 1 \in T /\ T \subseteq Nat
    <3>1. N + 1 \in 1 .. N + 1
      BY <1>0
    <3>2. FirstOf(areas, N + 1) \in Nat
      BY <1>1, <3>1
    <3>3. node < FirstOf(areas, N + 1)
      BY <3>2
    <3> HIDE DEF N
    <3> QED  BY <1>0, <3>1, <3>3
  <2> HIDE DEF T
  <2> QED  BY <2>1, LeastNat
<1>5. m - 1 \in 1 .. N /\ node \in Members(areas, m - 1)
  <2>1. m # 1
    <3>1. node < FirstOf(areas, m)
      BY <1>4
    <3> QED  BY <1>1, <3>1
  <2>2. m - 1 \in 1 .. N /\ m - 1 \in 1 .. N + 1 /\ m - 1 + 1 = m
    BY <1>0, <2>1
  <2>3. m - 1 \notin T
    BY <1>4, <2>2
  <2>4. FirstOf(areas, m - 1) <= node
    BY <1>1, <2>2, <2>3
  <2> QED  BY <1>3, <1>4, <2>2, <2>4
<1>6. ASSUME NEW i \in 1 .. N, NEW j \in 1 .. N, i < j,
             node \in Members(areas, i), node \in Members(areas, j)
      PROVE  FALSE
  <2>1. i + 1 \in 1 .. N + 1 /\ j \in 1 .. N + 1 /\ i + 1 <= j
    BY <1>0, <1>6
  <2>2. /\ FirstOf(areas, i + 1) <= FirstOf(areas, j)
        /\ FirstOf(areas, i + 1) \in Nat /\ FirstOf(areas, j) \in Nat
    BY <1>1, <2>1
  <2>3. node < FirstOf(areas, i + 1) /\ FirstOf(areas, j) <= node
    BY <1>3, <1>6
  <2> QED  BY <2>2, <2>3
<1>7. /\ AreaOf(areas, node) \in 1 .. N /\ node \in Members(areas, AreaOf(areas, node))
  BY <1>0, <1>5 DEF AreaOf
<1>8. \A i \in 1 .. N : node \in Members(areas, i) => i = AreaOf(areas, node)
  <2> SUFFICES ASSUME NEW i \in 1 .. N, node \in Members(areas, i), i # AreaOf(areas, node)
               PROVE  FALSE
    OBVIOUS
  <2>1. i < AreaOf(areas, node) \/ AreaOf(areas, node) < i
    BY <1>0, <1>7
  <2> QED  BY <1>6, <1>7, <2>1
<1> QED  BY <1>7, <1>8

-----------------------------------------------------------------------------
(* The links, and what they say of each node.                              *)

\* The first link to a node has the latency of the topology; to a node without
\* a link there is none.
Keeps(t, node, links) ==
  /\ links \in Seq({links[k] : k \in 1 .. Len(links)})
  /\ \A k \in 1 .. Len(links), n \in Nodes(t) :
       /\ links[k].distant = n
       /\ \A j \in 1 .. k - 1 : links[j].distant # n
       => Whole(links[k].delay) = Latency(t, node, n)
  /\ \A n \in Nodes(t) :
       (\A k \in 1 .. Len(links) : links[k].distant # n) => Latency(t, node, n) = 0

\* The one link of a simple topology has its delay.
LEMMA SimpleKeeps ==
  ASSUME NEW t, t.kind = "simple", NEW node \in Nodes(t), NEW links \in Links(t, node)
  PROVE  Keeps(t, node, links)
<1>1. links = SimpleLinks(t, node)
  BY DEF Links
<1>2. \A n : Latency(t, node, n) = IF node # 0 /\ n = 0 THEN Whole(t.delay) ELSE 0
  BY DEF Latency
<1>3. CASE node = 0
  <2>1. links = <<>>
    BY <1>1, <1>3 DEF SimpleLinks
  <2>2. Len(links) = 0 /\ links \in Seq({links[k] : k \in 1 .. Len(links)})
    BY <2>1
  <2> QED  BY <1>2, <1>3, <2>2 DEF Keeps
<1>4. CASE node # 0
  <2> DEFINE l == Link(0, t.delay)
  <2>1. links = <<l>>
    BY <1>1, <1>4 DEF SimpleLinks
  <2>2. l.distant = 0 /\ l.delay = t.delay
    BY DEF Link
  <2> HIDE DEF l
  <2>3. Len(links) = 1 /\ links[1] = l
    BY <2>1
  <2>4. l \in {links[k] : k \in 1 .. Len(links)}
    BY <2>3
  <2>5. links \in Seq({links[k] : k \in 1 .. Len(links)})
    BY <2>1, <2>4
  <2>6. \A k \in 1 .. Len(links) : k = 1
    BY <2>3
  <2>7. 1 \in 1 .. Len(links)
    BY <2>3
  <2>8. ASSUME NEW k \in 1 .. Len(links), NEW n \in Nodes(t), links[k].distant = n
        PROVE  Whole(links[k].delay) = Latency(t, node, n)
    BY <1>2, <1>4, <2>2, <2>3, <2>6, <2>8
  <2>9. ASSUME NEW n \in Nodes(t), \A k \in 1 .. Len(links) : links[k].distant # n
        PROVE  Latency(t, node, n) = 0
    BY <1>2, <2>2, <2>3, <2>7, <2>9
  <2> QED  BY <2>5, <2>8, <2>9 DEF Keeps
<1> QED  BY <1>3, <1>4

\* A cloud has no links, and promises nothing.
LEMMA CloudKeeps ==
  ASSUME NEW t, t.kind = "cloud", NEW node \in Nodes(t), NEW links \in Links(t, node)
  PROVE  Keeps(t, node, links)
<1>1. links = <<>>
  BY DEF Links
<1>2. \A n : Latency(t, node, n) = 0
  BY DEF Latency
<1>3. Len(links) = 0 /\ links \in Seq({links[k] : k \in 1 .. Len(links)})
  BY <1>1
<1> QED  BY <1>2, <1>3 DEF Keeps

\* A sequence has the inputs of a node, in their order.
Selects(s, node, L) ==
  /\ L \in Seq({L[k] : k \in 1 .. Len(L)})
  /\ \E C \in Nat : \E at \in [1 .. C -> 1 .. Len(s)] :
       /\ Len(L) = C
       /\ \A i \in 1 .. C : L[i].distant = s[at[i]].to /\ L[i].delay = s[at[i]].latency
       /\ \A i \in 1 .. C : s[at[i]].from = node
       /\ \A i, j \in 1 .. C : i < j => at[i] < at[j]
       /\ \A k \in 1 .. Len(s) : s[k].from = node => \E i \in 1 .. C : at[i] = k

\* The links of a full topology are those.
LEMMA FullLinksAre ==
  ASSUME NEW T, NEW s \in Seq(T), NEW node, NEW L, L = FullLinks(s, node)
  PROVE  Selects(s, node, L)
<1> DEFINE P == {k \in DOMAIN s : s[k].from = node}
           C == Cardinality(P)
<1>1. DOMAIN s = 1 .. Len(s) /\ Len(s) \in Nat
  BY LenProperties
<1> P \in SUBSET (1 .. Len(s))
  BY <1>1
<1>2. PICK at \in [1 .. C -> P] :
        /\ C \in Nat /\ C <= Len(s)
        /\ Pick(s, P) \in Seq(T) /\ Len(Pick(s, P)) = C
        /\ Pick(s, P) = [i \in 1 .. C |-> s[at[i]]]
        /\ \A i, j \in 1 .. C : i < j => at[i] < at[j]
        /\ \A k \in P : \E i \in 1 .. C : at[i] = k
  <2> HIDE DEF P
  <2> QED  BY Picked
<1>3. L = [i \in 1 .. C |-> Link(s[at[i]].to, s[at[i]].latency)]
  <2>1. DOMAIN Pick(s, P) = 1 .. C
    BY <1>2
  <2>2. \A i \in 1 .. C : Pick(s, P)[i] = s[at[i]]
    BY <1>2
  <2>3. L = [i \in DOMAIN Pick(s, P) |-> Link(Pick(s, P)[i].to, Pick(s, P)[i].latency)]
    BY DEF FullLinks
  <2> HIDE DEF C, P
  <2> QED  BY <2>1, <2>2, <2>3
<1>8. Len(L) = C /\ L \in Seq({L[k] : k \in 1 .. Len(L)})
  <2>1. L = [i \in 1 .. C |-> L[i]]
    BY <1>3
  <2>2. C \in Nat
    BY <1>2
  <2> HIDE DEF C
  <2>3. Len(L) = C /\ L \in Seq({L[k] : k \in 1 .. C})
    BY <2>1, <2>2, FunctionSeq
  <2> QED  BY <2>3
<1>9. \A i \in 1 .. C : L[i].distant = s[at[i]].to /\ L[i].delay = s[at[i]].latency
  BY <1>3 DEF Link
<1>4. \A i \in 1 .. C : at[i] \in P
  <2> HIDE DEF P
  <2> QED  BY <1>2
<1>5. \A k \in P : k \in 1 .. Len(s) /\ s[k].from = node
  BY <1>1
<1>6. \A k \in 1 .. Len(s) : s[k].from = node => k \in P
  BY <1>1
<1> HIDE DEF P
<1>7. at \in [1 .. C -> 1 .. Len(s)] /\ \A i \in 1 .. C : s[at[i]].from = node
  BY <1>2, <1>4, <1>5
<1> HIDE DEF C
<1> QED  BY <1>2, <1>6, <1>7, <1>8, <1>9 DEF Selects

\* The first input of a pair is the first link.
LEMMA FullKeeps ==
  ASSUME NEW T, NEW s \in Seq(T), NEW t, t.kind = "full", t.inputs = s,
         NEW node \in Nodes(t), NEW links \in Links(t, node)
  PROVE  Keeps(t, node, links)
<1>1. DOMAIN s = 1 .. Len(s) /\ Len(s) \in Nat
  BY LenProperties
<1>2. links = FullLinks(s, node)
  BY DEF Links
<1>9. Selects(s, node, links)
  BY <1>2, FullLinksAre
<1>8. links \in Seq({links[k] : k \in 1 .. Len(links)})
  BY <1>9 DEF Selects
<1>3. \A n : Latency(t, node, n)
             = LET of == {k \in DOMAIN s : s[k].from = node /\ s[k].to = n}
               IN IF of = {} THEN 0 ELSE Whole(s[Min(of)].latency)
  BY DEF Latency
<1>4. PICK C \in Nat : \E at \in [1 .. C -> 1 .. Len(s)] :
           /\ Len(links) = C
           /\ \A i \in 1 .. C : links[i].distant = s[at[i]].to /\ links[i].delay = s[at[i]].latency
           /\ \A i \in 1 .. C : s[at[i]].from = node
           /\ \A i, j \in 1 .. C : i < j => at[i] < at[j]
           /\ \A k \in 1 .. Len(s) : s[k].from = node => \E i \in 1 .. C : at[i] = k
  BY <1>9 DEF Selects
<1>5. PICK at \in [1 .. C -> 1 .. Len(s)] :
           /\ Len(links) = C
           /\ \A i \in 1 .. C : links[i].distant = s[at[i]].to /\ links[i].delay = s[at[i]].latency
           /\ \A i \in 1 .. C : s[at[i]].from = node
           /\ \A i, j \in 1 .. C : i < j => at[i] < at[j]
           /\ \A k \in 1 .. Len(s) : s[k].from = node => \E i \in 1 .. C : at[i] = k
  BY <1>4
<1>7. \A i \in 1 .. C : at[i] \in Nat /\ at[i] \in DOMAIN s /\ s[at[i]].from = node
  BY <1>1, <1>5
<1>10. ASSUME NEW k \in 1 .. C, NEW n \in Nodes(t), links[k].distant = n,
              \A j \in 1 .. k - 1 : links[j].distant # n
       PROVE  Whole(links[k].delay) = Latency(t, node, n)
  <2> DEFINE of == {x \in DOMAIN s : s[x].from = node /\ s[x].to = n}
  <2>1. at[k] \in of /\ of \subseteq Nat /\ \A x \in of : x \in 1 .. Len(s) /\ s[x].from = node
    BY <1>1, <1>5, <1>7, <1>10
  <2>2. ASSUME NEW x \in of, x < at[k] PROVE FALSE
    <3>1. PICK i \in 1 .. C : at[i] = x
      BY <1>5, <2>1
    <3>2. ~(k < i) /\ k # i
      <4>1. k < i => at[k] < at[i]
        BY <1>5
      <4> QED  BY <1>7, <2>2, <3>1, <4>1
    <3>3. i \in 1 .. k - 1
      BY <1>5, <3>2
    <3> QED  BY <1>5, <1>10, <3>1, <3>3
  <2> HIDE DEF of
  <2>3. \A x \in of : at[k] <= x
    <3> SUFFICES ASSUME NEW x \in of PROVE at[k] <= x
      OBVIOUS
    <3>1. x \in Nat /\ at[k] \in Nat /\ ~(x < at[k])
      BY <2>1, <2>2
    <3> QED  BY <3>1
  <2>4. Min(of) = at[k]
    <3>1. \A x \in of : (\A y \in of : x <= y) => x = at[k]
      <4> SUFFICES ASSUME NEW x \in of, \A y \in of : x <= y PROVE x = at[k]
        OBVIOUS
      <4>1. x \in Nat /\ at[k] \in Nat /\ x <= at[k] /\ at[k] <= x
        BY <2>1, <2>3
      <4> QED  BY <4>1
    <3> QED  BY <2>1, <2>3, <3>1 DEF Min
  <2>5. Latency(t, node, n) = IF of = {} THEN 0 ELSE Whole(s[Min(of)].latency)
    BY <1>3 DEF of
  <2>6. of # {}
    BY <2>1
  <2> QED  BY <1>5, <2>4, <2>5, <2>6
<1>11. ASSUME NEW n \in Nodes(t), \A k \in 1 .. C : links[k].distant # n
       PROVE  Latency(t, node, n) = 0
  <2> DEFINE of == {x \in DOMAIN s : s[x].from = node /\ s[x].to = n}
  <2>1. of = {}
    <3> SUFFICES ASSUME NEW x \in of PROVE FALSE
      OBVIOUS
    <3>1. x \in 1 .. Len(s) /\ s[x].from = node
      BY <1>1
    <3>2. PICK i \in 1 .. C : at[i] = x
      BY <1>5, <3>1
    <3> QED  BY <1>5, <1>11, <3>2
  <2> QED  BY <1>3, <2>1
<1> QED  BY <1>5, <1>8, <1>10, <1>11 DEF Keeps

\* The nodes of an area are nodes.
LEMMA MembersAre ==
  ASSUME NEW areas \in Seq(AreaRecords), NEW i \in 1 .. Len(areas)
  PROVE  /\ Members(areas, i) \subseteq 0 .. FirstOf(areas, Len(areas) + 1) - 1
         /\ FirstOf(areas, i) \in Nat /\ areas[i].n \in Nat
<1>1. Len(areas) \in Nat /\ i \in Nat /\ areas[i] \in AreaRecords
  BY LenProperties, ElementOfSeq
<1>2. areas[i].n \in Nat
  BY <1>1 DEF AreaRecords
<1>3. i \in 1 .. Len(areas) + 1 /\ i + 1 \in 1 .. Len(areas) + 1
      /\ Len(areas) + 1 \in 1 .. Len(areas) + 1 /\ i + 1 <= Len(areas) + 1
  BY <1>1
<1>4. /\ FirstOf(areas, i) \in Nat /\ FirstOf(areas, i + 1) = FirstOf(areas, i) + areas[i].n
      /\ FirstOf(areas, i + 1) <= FirstOf(areas, Len(areas) + 1)
      /\ FirstOf(areas, Len(areas) + 1) \in Nat
  BY <1>3, FirstOfIs
<1> QED  BY <1>2, <1>4 DEF Members

\* The links inside an area.
LEMMA OwnLinksAre ==
  ASSUME NEW areas \in Seq(AreaRecords), NEW i \in 1 .. Len(areas),
         NEW node \in Members(areas, i), NEW own, own = OwnLinks(areas, i, node)
  PROVE  /\ Len(own) \in Nat /\ own = [k \in 1 .. Len(own) |-> own[k]]
         /\ \A k \in 1 .. Len(own) : /\ own[k].distant \in Members(areas, i) \ {node}
                                     /\ own[k].delay = areas[i].latency
         /\ \A m \in Members(areas, i) \ {node} : \E k \in 1 .. Len(own) : own[k].distant = m
<1> DEFINE F == FirstOf(areas, i)
           n == areas[i].n
<1>1. F \in Nat /\ n \in Nat
  BY MembersAre
<1>2. Members(areas, i) = F .. F + n - 1
  BY DEF Members
<1>3. own = [k \in 1 .. n - 1 |-> LET peer == F + k - 1
             IN Link(IF peer < node THEN peer ELSE peer + 1, areas[i].latency)]
  BY DEF OwnLinks
<1> HIDE DEF F, n
<1>4. n - 1 \in Nat /\ node \in Nat
  BY <1>1, <1>2
<1>5. own = [k \in 1 .. n - 1 |-> own[k]]
  BY <1>3
<1>6. Len(own) = n - 1
  BY <1>4, <1>5, FunctionSeq
<1>7. \A k \in 1 .. n - 1 :
        /\ own[k].distant = IF F + k - 1 < node THEN F + k - 1 ELSE F + k - 1 + 1
        /\ own[k].delay = areas[i].latency
  BY <1>3 DEF Link
<1>8. \A k \in 1 .. n - 1 : own[k].distant \in Members(areas, i) \ {node}
  BY <1>1, <1>2, <1>4, <1>7
<1>9. ASSUME NEW m \in Members(areas, i) \ {node}
      PROVE  \E k \in 1 .. n - 1 : own[k].distant = m
  <2>1. m \in Nat /\ F <= m /\ m <= F + n - 1 /\ F <= node /\ node <= F + n - 1
    BY <1>1, <1>2
  <2>2. CASE m < node
    <3>1. m - F + 1 \in 1 .. n - 1 /\ F + (m - F + 1) - 1 = m
      BY <1>1, <1>4, <2>1, <2>2
    <3>2. own[m - F + 1].distant = m
      BY <1>7, <2>2, <3>1
    <3> QED  BY <3>1, <3>2
  <2>3. CASE ~(m < node)
    <3>1. m - F \in 1 .. n - 1 /\ F + (m - F) - 1 = m - 1 /\ ~(m - 1 < node)
      BY <1>1, <1>4, <2>1, <2>3
    <3>2. own[m - F].distant = m - 1 + 1
      BY <1>7, <3>1
    <3>3. own[m - F].distant = m
      BY <2>1, <3>2
    <3> QED  BY <3>1, <3>3
  <2> QED  BY <2>2, <2>3
<1> QED  BY <1>4, <1>5, <1>6, <1>7, <1>8, <1>9

\* An order of the nodes of the other areas has each of them.
LEMMA AbroadIs ==
  ASSUME NEW areas \in Seq(AreaRecords), NEW i \in 1 .. Len(areas),
         NEW p \in Abroad(areas, i)
  PROVE  LET nodes == 0 .. FirstOf(areas, Len(areas) + 1) - 1
         IN  /\ Len(p) \in Nat /\ p = [k \in 1 .. Len(p) |-> p[k]]
             /\ \A k \in 1 .. Len(p) : p[k] \in nodes /\ AreaOf(areas, p[k]) # i
             /\ \A m \in nodes : AreaOf(areas, m) # i => \E k \in 1 .. Len(p) : p[k] = m
<1> DEFINE S == (1 .. Len(areas)) \ {i}
           U == UNION {Members(areas, j) : j \in S}
           nodes == 0 .. FirstOf(areas, Len(areas) + 1) - 1
           C == Cardinality(U)
<1>1. DOMAIN areas = 1 .. Len(areas) /\ Len(areas) \in Nat
  BY LenProperties
<1>2. \A x \in U : x \in nodes /\ AreaOf(areas, x) # i
  <2> SUFFICES ASSUME NEW x \in U PROVE x \in nodes /\ AreaOf(areas, x) # i
    OBVIOUS
  <2>1. PICK j \in S : x \in Members(areas, j)
    OBVIOUS
  <2>2. x \in nodes
    BY <2>1, MembersAre
  <2>3. j = AreaOf(areas, x)
    BY <2>1, <2>2, AreaIs
  <2> QED  BY <2>1, <2>2, <2>3
<1>3. \A m \in nodes : AreaOf(areas, m) # i => m \in U
  <2> SUFFICES ASSUME NEW m \in nodes, AreaOf(areas, m) # i PROVE m \in U
    OBVIOUS
  <2>1. AreaOf(areas, m) \in S /\ m \in Members(areas, AreaOf(areas, m))
    BY AreaIs
  <2> QED  BY <2>1
<1>4. IsFiniteSet(U)
  <2>1. Len(areas) + 1 \in 1 .. Len(areas) + 1
    BY <1>1
  <2>2. FirstOf(areas, Len(areas) + 1) - 1 \in Int
    BY <2>1, FirstOfIs
  <2>3. IsFiniteSet(nodes)
    <3> DEFINE l == FirstOf(areas, Len(areas) + 1) - 1
    <3>1. l \in Int
      BY <2>2
    <3> HIDE DEF l
    <3>2. IsFiniteSet(0 .. l)
      BY <3>1, FS_Interval
    <3> QED  BY <3>2 DEF l
  <2>4. U \subseteq nodes
    BY <1>2
  <2> HIDE DEF U, nodes
  <2> QED  BY <2>3, <2>4, FS_Subset
<1>5. p \in SetToSeqs(U)
  BY <1>1 DEF Abroad
<1> HIDE DEF U, nodes
<1>6. p \in [1 .. C -> U] /\ \A a, b \in 1 .. C : a # b => p[a] # p[b]
  BY <1>5 DEF SetToSeqs
<1>7. C \in Nat
  BY <1>4, FS_CardinalityType
<1> HIDE DEF C
<1>8. p \in Injection(1 .. C, U)
  BY <1>6 DEF Injection, IsInjective
<1>9. IsFiniteSet(1 .. C) /\ Cardinality(1 .. C) = C
  <2>1. /\ IsFiniteSet(1 .. C) /\ Cardinality(1 .. C) = IF 1 > C THEN 0 ELSE C - 1 + 1
    BY <1>7, FS_Interval
  <2> QED  BY <1>7, <2>1
<1>10. p \in Surjection(1 .. C, U)
  <2>1. Cardinality(1 .. C) = Cardinality(U)
    BY <1>9 DEF C
  <2> QED  BY <1>4, <1>8, <2>1, FS_Injection
<1>11. Len(p) = C /\ p = [k \in 1 .. C |-> p[k]]
  <2>1. p = [k \in 1 .. C |-> p[k]]
    BY <1>6
  <2> QED  BY <1>7, <2>1, FunctionSeq
<1>12. \A m \in U : \E k \in 1 .. C : p[k] = m
  BY <1>10 DEF Surjection
<1>13. \A k \in 1 .. C : p[k] \in U
  BY <1>6
<1> QED  BY <1>2, <1>3, <1>7, <1>11, <1>12, <1>13 DEF nodes

\* There is a link to each other node, with what the areas of the two say.
Reaches(areas, node, links) ==
  LET nodes == 0 .. FirstOf(areas, Len(areas) + 1) - 1
      a == AreaOf(areas, node)
  IN  /\ links \in Seq({links[k] : k \in 1 .. Len(links)})
      /\ \A k \in 1 .. Len(links) :
           /\ links[k].distant \in nodes \ {node}
           /\ links[k].delay =
                IF a = AreaOf(areas, links[k].distant) THEN areas[a].latency
                ELSE CalculateLatency(areas[a], areas[AreaOf(areas, links[k].distant)])
      /\ \A m \in nodes \ {node} : \E k \in 1 .. Len(links) : links[k].distant = m

\* The links of an area topology.
LEMMA AreaLinksAre ==
  ASSUME NEW areas \in Seq(AreaRecords),
         NEW node \in 0 .. FirstOf(areas, Len(areas) + 1) - 1,
         NEW links \in AreaLinks(areas, node)
  PROVE  Reaches(areas, node, links)
<1> DEFINE nodes == 0 .. FirstOf(areas, Len(areas) + 1) - 1
<1> DEFINE a == AreaOf(areas, node)
           To(peer) == Link(peer, CalculateLatency(areas[a], areas[AreaOf(areas, peer)]))
           Delay(m) == IF a = AreaOf(areas, m) THEN areas[a].latency
                       ELSE CalculateLatency(areas[a], areas[AreaOf(areas, m)])
<1>1. a \in 1 .. Len(areas) /\ node \in Members(areas, a)
  BY AreaIs
<1>2. PICK p \in Abroad(areas, a) :
        links = OwnLinks(areas, a, node) \o [k \in DOMAIN p |-> To(p[k])]
  BY DEF AreaLinks
<1> DEFINE own == OwnLinks(areas, a, node)
           out == [k \in DOMAIN p |-> To(p[k])]
<1> HIDE DEF a
<1>3. /\ Len(own) \in Nat /\ own = [k \in 1 .. Len(own) |-> own[k]]
      /\ \A k \in 1 .. Len(own) : /\ own[k].distant \in Members(areas, a) \ {node}
                                  /\ own[k].delay = areas[a].latency
      /\ \A m \in Members(areas, a) \ {node} : \E k \in 1 .. Len(own) : own[k].distant = m
  BY <1>1, OwnLinksAre
<1>4. /\ Len(p) \in Nat /\ p = [k \in 1 .. Len(p) |-> p[k]]
      /\ \A k \in 1 .. Len(p) : p[k] \in nodes /\ AreaOf(areas, p[k]) # a
      /\ \A m \in nodes : AreaOf(areas, m) # a => \E k \in 1 .. Len(p) : p[k] = m
  BY <1>1, AbroadIs
<1>5. /\ Members(areas, a) \subseteq nodes
      /\ \A m \in Members(areas, a) : AreaOf(areas, m) = a
  <2>1. Members(areas, a) \subseteq nodes
    BY <1>1, MembersAre
  <2> QED  BY <1>1, <2>1, AreaIs
<1>6. DOMAIN p = 1 .. Len(p)
  BY <1>4
<1> HIDE DEF own
<1>7. \A k \in 1 .. Len(own) : /\ own[k].distant \in nodes \ {node}
                               /\ own[k].delay = Delay(own[k].distant)
  BY <1>3, <1>5
<1>8. /\ out = [k \in 1 .. Len(p) |-> out[k]]
      /\ \A k \in 1 .. Len(p) :
           /\ out[k].distant = p[k]
           /\ out[k].delay = CalculateLatency(areas[a], areas[AreaOf(areas, p[k])])
  BY <1>6 DEF Link
<1>9. Len(out) = Len(p)
  <2> HIDE DEF out
  <2> QED  BY <1>4, <1>8, FunctionSeq
<1>10. \A k \in 1 .. Len(p) : /\ out[k].distant \in nodes \ {node}
                              /\ out[k].delay = Delay(out[k].distant)
  <2>1. AreaOf(areas, node) = a
    BY DEF a
  <2> HIDE DEF out
  <2> QED  BY <1>4, <1>8, <2>1
<1> HIDE DEF out, Delay
<1>11. links = own \o out
  BY <1>2 DEF own, out
<1> DEFINE T == {own[k] : k \in 1 .. Len(own)} \cup {out[k] : k \in 1 .. Len(out)}
<1>12. own \in Seq(T) /\ out \in Seq(T)
  <2>1. \A k \in 1 .. Len(own) : own[k] \in T
    OBVIOUS
  <2>2. \A k \in 1 .. Len(out) : out[k] \in T
    OBVIOUS
  <2> HIDE DEF T
  <2>3. own \in [1 .. Len(own) -> T] /\ out \in [1 .. Len(out) -> T]
    BY <1>3, <1>8, <1>9, <2>1, <2>2
  <2>4. ASSUME NEW n \in Nat, NEW f \in [1 .. n -> T] PROVE f \in Seq(T)
    BY SeqDef
  <2> QED  BY <1>3, <1>4, <1>9, <2>3, <2>4
<1> HIDE DEF T
<1>13. /\ links \in Seq(T) /\ Len(links) = Len(own) + Len(out)
       /\ \A k \in 1 .. Len(own) + Len(out) :
            links[k] = IF k <= Len(own) THEN own[k] ELSE out[k - Len(own)]
  BY <1>11, <1>12, ConcatProperties
<1>14. links \in Seq({links[k] : k \in 1 .. Len(links)})
  <2>1. links = [k \in 1 .. Len(links) |-> links[k]] /\ Len(links) \in Nat
    BY <1>13, LenProperties
  <2> QED  BY <2>1, FunctionSeq
<1>15. \A k \in 1 .. Len(links) : /\ links[k].distant \in nodes \ {node}
                                  /\ links[k].delay = Delay(links[k].distant)
  <2> SUFFICES ASSUME NEW k \in 1 .. Len(links)
               PROVE  /\ links[k].distant \in nodes \ {node}
                      /\ links[k].delay = Delay(links[k].distant)
    OBVIOUS
  <2>1. CASE k <= Len(own)
    <3>1. k \in 1 .. Len(own) /\ links[k] = own[k]
      BY <1>3, <1>13, <2>1
    <3> QED  BY <1>7, <3>1
  <2>2. CASE ~(k <= Len(own))
    <3>1. k - Len(own) \in 1 .. Len(p) /\ links[k] = out[k - Len(own)]
      BY <1>3, <1>4, <1>9, <1>13, <2>2
    <3> QED  BY <1>10, <3>1
  <2> QED  BY <2>1, <2>2
<1>16. ASSUME NEW m \in nodes \ {node} PROVE \E k \in 1 .. Len(links) : links[k].distant = m
  <2>1. CASE AreaOf(areas, m) = a
    <3>1. m \in Members(areas, a) \ {node}
      BY <2>1, AreaIs
    <3>2. PICK k \in 1 .. Len(own) : own[k].distant = m
      BY <1>3, <3>1 DEF own
    <3>3. k \in 1 .. Len(links) /\ links[k] = own[k]
      BY <1>3, <1>4, <1>9, <1>13
    <3> QED  BY <3>2, <3>3
  <2>2. CASE AreaOf(areas, m) # a
    <3>1. PICK k \in 1 .. Len(p) : p[k] = m
      BY <1>4, <2>2
    <3>2. k + Len(own) \in 1 .. Len(links) /\ links[k + Len(own)] = out[k]
      BY <1>3, <1>4, <1>9, <1>13
    <3> QED  BY <1>8, <3>1, <3>2
  <2> QED  BY <2>1, <2>2
<1> QED  BY <1>14, <1>15, <1>16 DEF Delay, a, Reaches

\* Each node of an area topology has one link to each other node.
LEMMA AreaKeeps ==
  ASSUME NEW areas \in Seq(AreaRecords), NEW t, t.kind = "area", t.areas = areas,
         NEW node \in Nodes(t), NEW links \in Links(t, node)
  PROVE  Keeps(t, node, links)
<1> DEFINE a == AreaOf(areas, node)
<1>1. Nodes(t) = 0 .. FirstOf(areas, Len(areas) + 1) - 1
  BY DEF Nodes
<1>2. links \in AreaLinks(areas, node)
  BY DEF Links
<1>3. /\ links \in Seq({links[k] : k \in 1 .. Len(links)})
      /\ \A k \in 1 .. Len(links) :
           /\ links[k].distant \in Nodes(t) \ {node}
           /\ links[k].delay =
                IF a = AreaOf(areas, links[k].distant) THEN areas[a].latency
                ELSE CalculateLatency(areas[a], areas[AreaOf(areas, links[k].distant)])
      /\ \A m \in Nodes(t) \ {node} : \E k \in 1 .. Len(links) : links[k].distant = m
  <2>1. Reaches(areas, node, links)
    BY <1>1, <1>2, AreaLinksAre
  <2> QED  BY <1>1, <2>1 DEF Reaches
<1>4. \A n : Latency(t, node, n) =
         IF node = n THEN 0
         ELSE Whole(IF a = AreaOf(areas, n) THEN areas[a].latency
                    ELSE CalculateLatency(areas[a], areas[AreaOf(areas, n)]))
  BY DEF Latency
<1> HIDE DEF a
<1>5. ASSUME NEW k \in 1 .. Len(links), NEW n \in Nodes(t), links[k].distant = n
      PROVE  Whole(links[k].delay) = Latency(t, node, n)
  BY <1>3, <1>4, <1>5
<1>6. ASSUME NEW n \in Nodes(t), \A k \in 1 .. Len(links) : links[k].distant # n
      PROVE  Latency(t, node, n) = 0
  <2>1. n = node
    BY <1>3, <1>6
  <2> QED  BY <1>4, <2>1
<1> QED  BY <1>3, <1>5, <1>6 DEF Keeps

\* The links of every topology promise what it says.
LEMMA LinksKeep ==
  ASSUME NEW t \in TopologyRecords, NEW node \in Nodes(t), NEW links \in Links(t, node)
  PROVE  Keeps(t, node, links) /\ Nodes(t) \subseteq Int
<1>1. CASE t \in [kind : {"simple"}, n : Int, delay : Int]
  <2>1. t.kind = "simple"
    BY <1>1
  <2>2. Nodes(t) \subseteq Int
    BY <2>1 DEF Nodes
  <2> QED  BY <2>1, <2>2, SimpleKeeps
<1>2. CASE t \in [kind : {"area"}, areas : Seq(AreaRecords)]
  <2>1. t.kind = "area" /\ t.areas \in Seq(AreaRecords)
    BY <1>2
  <2>2. Nodes(t) \subseteq Int
    BY <2>1 DEF Nodes
  <2> QED  BY <2>1, <2>2, AreaKeeps
<1>3. CASE t \in [kind : {"full"}, inputs : Seq([from : Nat, to : Nat, latency : Int])]
  <2> DEFINE I == [from : Nat, to : Nat, latency : Int]
  <2>1. t.kind = "full" /\ t.inputs \in Seq(I)
    BY <1>3
  <2>2. Nodes(t) \subseteq Int
    <3>1. Nodes(t) = UNION {{x.from, x.to} : x \in ToSet(t.inputs)}
      BY <2>1 DEF Nodes
    <3>2. \A x \in ToSet(t.inputs) : x \in I
      <4> SUFFICES ASSUME NEW x \in ToSet(t.inputs) PROVE x \in I
        OBVIOUS
      <4>1. PICK k \in DOMAIN t.inputs : x = t.inputs[k]
        BY DEF ToSet
      <4> HIDE DEF I
      <4>2. k \in 1 .. Len(t.inputs)
        BY <2>1, LenProperties
      <4> QED  BY <2>1, <4>1, <4>2, ElementOfSeq
    <3> QED  BY <3>1, <3>2
  <2> HIDE DEF I
  <2> QED  BY <2>1, <2>2, FullKeeps
<1>4. CASE t \in [kind : {"cloud"}, n : Int]
  <2>1. t.kind = "cloud"
    BY <1>4
  <2>2. Nodes(t) \subseteq Int
    BY <2>1 DEF Nodes
  <2> QED  BY <2>1, <2>2, CloudKeeps
<1> QED  BY <1>1, <1>2, <1>3, <1>4 DEF TopologyRecords, AreaRecords

-----------------------------------------------------------------------------
(* The rules.                                                              *)

\* The rules of a node, one for each link.
LEMMA RulesAre ==
  ASSUME NEW links, links \in Seq({links[k] : k \in 1 .. Len(links)}), NEW mapping,
         NEW rules, rules = Rules(links, mapping)
  PROVE  /\ \E T : rules \in Seq(T)
         /\ Len(rules) = Len(links) /\ Len(links) \in Nat
         /\ \A k \in 1 .. Len(links) :
              /\ rules[k].ip = IF links[k].distant \in DOMAIN mapping
                                 THEN mapping[links[k].distant] ELSE NoIP
              /\ rules[k].delay = links[k].delay
<1>1. Len(links) \in Nat /\ DOMAIN links = 1 .. Len(links)
  BY LenProperties
<1>2. rules = [k \in 1 .. Len(links) |->
                 [ip    |-> IF links[k].distant \in DOMAIN mapping
                              THEN mapping[links[k].distant] ELSE NoIP,
                  delay |-> links[k].delay]]
  BY <1>1 DEF Rules
<1>3. rules = [k \in 1 .. Len(links) |-> rules[k]]
  BY <1>2
<1>4. Len(rules) = Len(links) /\ rules \in Seq({rules[k] : k \in 1 .. Len(rules)})
  <2>1. Len(rules) = Len(links) /\ rules \in Seq({rules[k] : k \in 1 .. Len(links)})
    BY <1>1, <1>3, FunctionSeq
  <2> QED  BY <2>1
<1>5. \A k \in 1 .. Len(links) :
        /\ rules[k].ip = IF links[k].distant \in DOMAIN mapping
                           THEN mapping[links[k].distant] ELSE NoIP
        /\ rules[k].delay = links[k].delay
  BY <1>2
<1> QED  BY <1>1, <1>4, <1>5

\* What the list of pods says of a node.
LEMMA MappingIs ==
  ASSUME NEW t, NEW mapping \in Mappings(t), NEW d \in DOMAIN mapping
  PROVE  d \in Nodes(t) /\ mapping[d] \in {Address(d), NoIP}
<1>1. CASE mapping = Known(t)
  BY <1>1 DEF Known
<1>2. CASE \E n \in Nodes(t) : mapping = [Known(t) EXCEPT ![n] = NoIP]
  BY <1>2 DEF Known
<1>3. CASE \E m \in Nodes(t) : mapping = [n \in Nodes(t) \ {m} |-> Address(n)]
  BY <1>3
<1> QED  BY <1>1, <1>2, <1>3 DEF Mappings

\* When all of its commands have been accepted, the packets to each node are
\* held back as the topology says.
LEMMA RulesShape ==
  ASSUME NEW t \in TopologyRecords, NEW node \in Nodes(t), NEW links \in Links(t, node),
         NEW mapping \in Mappings(t), NEW rules, rules = Rules(links, mapping),
         NEW first, first = FirstRules(rules),
         \A i \in 1 .. Len(first) : first[i].ip # NoIP,
         NEW n \in Nodes(t)
  PROVE  Shaping(After(first, 2 + 3 * Len(first)), Address(n)) = Latency(t, node, n)
<1> DEFINE k1 == After(first, 2 + 3 * Len(first))
<1>1. /\ links \in Seq({links[k] : k \in 1 .. Len(links)}) /\ Nodes(t) \subseteq Int
      /\ \A k \in 1 .. Len(links), x \in Nodes(t) :
           /\ links[k].distant = x
           /\ \A j \in 1 .. k - 1 : links[j].distant # x
           => Whole(links[k].delay) = Latency(t, node, x)
      /\ \A x \in Nodes(t) :
           (\A k \in 1 .. Len(links) : links[k].distant # x) => Latency(t, node, x) = 0
  <2>1. Keeps(t, node, links) /\ Nodes(t) \subseteq Int
    BY LinksKeep
  <2> QED  BY <2>1 DEF Keeps
<1>2. /\ \E T : rules \in Seq(T)
      /\ Len(rules) = Len(links) /\ Len(links) \in Nat
      /\ \A k \in 1 .. Len(links) :
           /\ rules[k].ip = IF links[k].distant \in DOMAIN mapping
                              THEN mapping[links[k].distant] ELSE NoIP
           /\ rules[k].delay = links[k].delay
  BY <1>1, RulesAre
<1>3. /\ Len(first) \in Nat
      /\ \A i \in 1 .. Len(first) : \E k \in 1 .. Len(rules) :
           /\ first[i] = rules[k]
           /\ \A j \in 1 .. k - 1 : rules[j].ip # rules[k].ip
      /\ \A i, j \in 1 .. Len(first) : i # j => first[i].ip # first[j].ip
      /\ \A k \in 1 .. Len(rules) : \E i \in 1 .. Len(first) : first[i].ip = rules[k].ip
  <2>1. PICK T : rules \in Seq(T)
    BY <1>2
  <2>2. Firsts(rules, first)
    BY <2>1, FirstRulesAre
  <2> QED  BY <2>2 DEF Firsts
<1>4. \A k \in 1 .. Len(links) : /\ links[k].distant \in DOMAIN mapping
                                 /\ links[k].distant \in Nodes(t)
                                 /\ rules[k].ip = Address(links[k].distant)
  <2> SUFFICES ASSUME NEW k \in 1 .. Len(links)
               PROVE  /\ links[k].distant \in DOMAIN mapping
                      /\ links[k].distant \in Nodes(t)
                      /\ rules[k].ip = Address(links[k].distant)
    OBVIOUS
  <2>1. rules[k].ip # NoIP
    <3>1. PICK i \in 1 .. Len(first) : first[i].ip = rules[k].ip
      BY <1>2, <1>3
    <3> QED  BY <3>1
  <2> QED  BY <1>2, <2>1, MappingIs
<1>5. /\ \A i \in 1 .. Len(first) :
           first[i].ip = Address(n) => Shaping(k1, Address(n)) = MakeNetEm(first[i])
      /\ (\A i \in 1 .. Len(first) : first[i].ip # Address(n)) => Shaping(k1, Address(n)) = 0
  <2>1. Len(first) \in Nat /\ \A i, j \in 1 .. Len(first) : i # j => first[i].ip # first[j].ip
    BY <1>3
  <2> QED  BY <2>1, AfterShapes
<1> HIDE DEF k1
<1>6. \A k \in 1 .. Len(links) : rules[k].ip = Address(n) <=> links[k].distant = n
  BY <1>1, <1>4 DEF Address
<1>7. CASE \E i \in 1 .. Len(first) : first[i].ip = Address(n)
  <2>1. PICK i \in 1 .. Len(first) : first[i].ip = Address(n)
    BY <1>7
  <2>2. PICK k \in 1 .. Len(rules) : /\ first[i] = rules[k]
                                     /\ \A j \in 1 .. k - 1 : rules[j].ip # rules[k].ip
    BY <1>3
  <2>3. links[k].distant = n /\ k \in 1 .. Len(links)
    BY <1>2, <1>6, <2>1, <2>2
  <2>4. \A j \in 1 .. k - 1 : links[j].distant # n
    <3>1. \A j \in 1 .. k - 1 : j \in 1 .. Len(links)
      BY <1>2, <2>3
    <3> QED  BY <1>6, <2>2, <2>3, <3>1
  <2>5. Whole(links[k].delay) = Latency(t, node, n)
    BY <1>1, <2>3, <2>4
  <2>6. MakeNetEm(first[i]) = Whole(links[k].delay)
    BY <1>2, <2>2, <2>3 DEF MakeNetEm, Whole
  <2>7. Shaping(k1, Address(n)) = MakeNetEm(first[i])
    BY <1>5, <2>1
  <2> QED  BY <2>5, <2>6, <2>7 DEF k1
<1>8. CASE \A i \in 1 .. Len(first) : first[i].ip # Address(n)
  <2>1. \A k \in 1 .. Len(links) : links[k].distant # n
    <3> SUFFICES ASSUME NEW k \in 1 .. Len(links), links[k].distant = n PROVE FALSE
      OBVIOUS
    <3>1. rules[k].ip = Address(n)
      BY <1>6
    <3>2. PICK i \in 1 .. Len(first) : first[i].ip = rules[k].ip
      BY <1>2, <1>3
    <3> QED  BY <1>8, <3>1, <3>2
  <2>2. Latency(t, node, n) = 0
    BY <1>1, <2>1
  <2> QED  BY <1>5, <1>8, <2>2 DEF k1
<1> QED  BY <1>7, <1>8
=============================================================================
