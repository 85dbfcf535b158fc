-------------------------- MODULE SimulationProofs --------------------------
(***************************************************************************)
(* Facts about the order of the phases of Simulation.Run, for command      *)
(* lines of any length.                                                    *)
(***************************************************************************)
EXTENDS Simulation, TLAPS

\* The phase that follows the first i ones is a later one that is wanted, or
\* there is none.
LEMMA FollowingPhase ==
  ASSUME NEW line, NEW i \in 0 .. 4
  PROVE  \/ Following(line, i) = "returned" /\ \A k \in i + 1 .. 4 : ~Wants(line, Phases[k])
         \/ \E k \in i + 1 .. 4 :
              /\ Following(line, i) = Phases[k] /\ Wants(line, Phases[k])
              /\ \A j \in i + 1 .. k - 1 : ~Wants(line, Phases[j])
<1> DEFINE W(k) == k \in i + 1 .. 4 /\ Wants(line, Phases[k])
           Least(k) == /\ Wants(line, Phases[k])
                       /\ \A j \in i + 1 .. k - 1 : ~Wants(line, Phases[j])
<1>1. CASE \E k \in i + 1 .. 4 : Wants(line, Phases[k])
  <2>1. \E k \in i + 1 .. 4 : Least(k)
    <3>1. CASE W(1)
      BY <3>1
    <3>2. CASE ~W(1) /\ W(2)
      <4>1. \A j \in i + 1 .. 2 - 1 : j = 1 /\ j \in i + 1 .. 4
        OBVIOUS
      <4>2. 2 \in i + 1 .. 4 /\ Least(2)
        BY <3>2, <4>1
      <4> QED  BY <4>2
    <3>3. CASE ~W(1) /\ ~W(2) /\ W(3)
      <4>1. \A j \in i + 1 .. 3 - 1 : j \in {1, 2} /\ j \in i + 1 .. 4
        OBVIOUS
      <4>2. 3 \in i + 1 .. 4 /\ Least(3)
        BY <3>3, <4>1
      <4> QED  BY <4>2
    <3>4. CASE ~W(1) /\ ~W(2) /\ ~W(3)
      <4>1. \A j \in i + 1 .. 4 - 1 : j \in {1, 2, 3} /\ j \in i + 1 .. 4
        OBVIOUS
      <4>2. \A k \in i + 1 .. 4 : k \in {1, 2, 3, 4}
        OBVIOUS
      <4>3. \A j \in i + 1 .. 4 - 1 : ~Wants(line, Phases[j])
        BY <3>4, <4>1
      <4>4. 4 \in i + 1 .. 4 /\ Wants(line, Phases[4])
        BY <1>1, <3>4, <4>2
      <4>5. Least(4)
        BY <4>3, <4>4
      <4> QED  BY <4>4, <4>5
    <3> QED  BY <3>1, <3>2, <3>3, <3>4
  <2> DEFINE c == CHOOSE k \in i + 1 .. 4 : Least(k)
  <2>2. c \in i + 1 .. 4 /\ Least(c)
    BY <2>1
  <2>3. Following(line, i) = Phases[c]
    BY <1>1 DEF Following
  <2> HIDE DEF c
  <2> QED  BY <2>2, <2>3
<1>2. CASE ~\E k \in i + 1 .. 4 : Wants(line, Phases[k])
  BY <1>2 DEF Following
<1> QED  BY <1>1, <1>2

\* A run starts with one of its phases, or with none.
LEMMA FirstPhase ==
  ASSUME NEW line
  PROVE  Following(line, 0) \in Flags \cup {"returned"}
<1>1. \A k \in 0 + 1 .. 4 : Phases[k] \in Flags
  BY DEF Phases, Flags
<1> QED  BY <1>1, FollowingPhase

\* The phases that come after another one do not include the first.
LEMMA NotDeployAgain ==
  ASSUME NEW line, NEW i \in 1 .. 4
  PROVE  Following(line, i) \in {"execute", "stats", "clean", "returned"}
<1>1. \A k \in i + 1 .. 4 : k \in {2, 3, 4}
  OBVIOUS
<1>2. Phases[2] = "execute" /\ Phases[3] = "stats" /\ Phases[4] = "clean"
  BY DEF Phases
<1> QED  BY <1>1, <1>2, FollowingPhase

\* What the end of a call leads to.
LEMMA AfterCall ==
  ASSUME NEW out, Returns(out)
  PROVE  /\ phase' \in {"execute", "stats", "clean", "returned", "panicked"}
         /\ phase = "clean" => phase' \in {"returned", "panicked"}
<1> DEFINE done == IF \E c \in ToSet(calls') : c.out = "panic" THEN "panicked"
                                                               ELSE "returned"
<1>1. phase \in Flags /\ phase' = PhaseAfter(out, done)
  BY DEF Returns
<1>2. Position(phase) \in 1 .. 4
  <2>1. \E i \in 1 .. 4 : Phases[i] = phase
    <3>1. /\ Phases[1] = "deploy" /\ Phases[2] = "execute"
          /\ Phases[3] = "stats" /\ Phases[4] = "clean"
      BY DEF Phases
    <3> QED  BY <1>1, <3>1 DEF Flags
  <2> QED  BY <2>1 DEF Position
<1>3. CASE phase = "clean"
  BY <1>1, <1>3 DEF PhaseAfter
<1>4. CASE phase # "clean" /\ out = "ok"
  <2>1. phase' = Following(args, Position(phase))
    BY <1>1, <1>4 DEF PhaseAfter
  <2> QED  BY <1>2, <1>4, <2>1, NotDeployAgain
<1>5. CASE phase # "clean" /\ out # "ok"
  BY <1>1, <1>5 DEF PhaseAfter
<1> QED  BY <1>3, <1>4, <1>5

\* An element of a sequence.
LEMMA ElementOfSeq ==
  ASSUME NEW S, NEW s \in Seq(S), NEW i \in 1 .. Len(s)
  PROVE  s[i] \in S
  OBVIOUS

\* The call that has ended is the last of the list.
LEMMA LastOfAppend ==
  ASSUME NEW S, NEW s \in Seq(S), NEW e \in S
  PROVE  /\ Append(s, e) \in Seq(S) /\ Append(s, e) # <<>>
         /\ Append(s, e)[Len(Append(s, e))] = e
  OBVIOUS

-----------------------------------------------------------------------------
\* The order of the four phases.
LEMMA Positions ==
  /\ Position("deploy") = 1 /\ Position("execute") = 2
  /\ Position("stats") = 3 /\ Position("clean") = 4
<1>1. /\ Phases[1] = "deploy" /\ Phases[2] = "execute"
      /\ Phases[3] = "stats" /\ Phases[4] = "clean"
  BY DEF Phases
<1>2. ASSUME NEW k \in 1 .. 4, NEW p, Phases[k] = p PROVE Position(p) = k
  <2>1. \A j \in 1 .. 4 : Phases[j] = p => j = k
    BY <1>1, <1>2
  <2> QED  BY <1>2, <2>1 DEF Position
<1> QED  BY <1>1, <1>2

\* A phase that follows is wanted, and is a later one.
LEMMA FollowingWanted ==
  ASSUME NEW line, NEW i \in 0 .. 4, NEW p \in Flags, Following(line, i) = p
  PROVE  Wants(line, p) /\ i < Position(p)
<1>1. \A k \in i + 1 .. 4 : k \in {1, 2, 3, 4} /\ i < k
  OBVIOUS
<1>2. p # "returned"
  BY DEF Flags
<1>3. PICK k \in i + 1 .. 4 : p = Phases[k] /\ Wants(line, Phases[k])
  BY <1>2, FollowingPhase
<1>4. Position(Phases[k]) = k
  <2>1. /\ Phases[1] = "deploy" /\ Phases[2] = "execute"
        /\ Phases[3] = "stats" /\ Phases[4] = "clean"
    BY DEF Phases
  <2> QED  BY <1>1, <1>3, <2>1, Positions
<1> QED  BY <1>1, <1>3, <1>4

\* When nothing follows, the cleaning was not wanted.
LEMMA NothingFollows ==
  ASSUME NEW line, NEW i \in 0 .. 3, Following(line, i) = "returned"
  PROVE  ~Wants(line, "clean")
<1>1. 4 \in i + 1 .. 4 /\ Phases[4] = "clean"
  BY DEF Phases
<1>2. \A k \in i + 1 .. 4 : Phases[k] # "returned"
  BY DEF Phases
<1> QED  BY <1>1, <1>2, FollowingPhase

\* The calls made so far are earlier phases that were asked for, and a call
\* that did not succeed leaves only the cleaning.
CallsType == calls \in Seq([op : Flags, out : Outcomes])

Earlier ==
  phase \in Flags =>
    /\ Wants(args, phase)
    /\ \A i \in 1 .. Len(calls) :
         /\ Position(calls[i].op) < Position(phase)
         /\ calls[i].out # "ok" => phase = "clean"

AllWanted == \A i \in 1 .. Len(calls) : Wants(args, calls[i].op)

\* The error is the one of the call that has failed, at any time.
ErrorFound ==
  /\ err = "args" => phase = "returned" /\ calls = <<>> /\ args = <<>>
  /\ err # "args" =>
       \A p \in Flags :
         err = p <=> p # "clean" /\ [op |-> p, out |-> "err"] \in ToSet(calls)

SimInv ==
  CallsType /\ Earlier /\ AllWanted /\ ErrorFound /\ CallsInOrder /\ CleansBeforeReturn

\* A call more.
LEMMA Appended ==
  ASSUME CallsType, NEW e \in [op : Flags, out : Outcomes],
         calls' = Append(calls, e)
  PROVE  /\ CallsType' /\ calls' # <<>> /\ Last(calls') = e
         /\ Len(calls') = Len(calls) + 1 /\ Len(calls) \in Nat
         /\ calls'[Len(calls) + 1] = e
         /\ \A i \in 1 .. Len(calls) : calls'[i] = calls[i]
         /\ ToSet(calls') = ToSet(calls) \cup {e}
<1>1. /\ CallsType' /\ calls' # <<>>
      /\ Len(calls') = Len(calls) + 1 /\ Len(calls) \in Nat
      /\ calls'[Len(calls) + 1] = e
      /\ \A i \in 1 .. Len(calls) : calls'[i] = calls[i]
  BY DEF CallsType
<1>2. ToSet(calls') = ToSet(calls) \cup {e}
  <2>1. DOMAIN calls' = 1 .. Len(calls) + 1 /\ DOMAIN calls = 1 .. Len(calls)
    BY DEF CallsType
  <2> QED  BY <1>1, <2>1 DEF ToSet
<1> QED  BY <1>1, <1>2 DEF Last

\* The calls start anew with a process.
LEMMA NoCalls ==
  ASSUME calls' = <<>>, err' = "none", phase' \in Flags => Wants(args', phase'),
         phase' \in {"returned", "panicked"} => ~Wants(args', "clean")
  PROVE  SimInv'
<1>1. ToSet(<<>>) = {}
  BY DEF ToSet
<1> QED
  BY <1>1
  DEF SimInv, CallsType, Earlier, AllWanted, ErrorFound, CallsInOrder,
      CleansBeforeReturn, Ended, Flags

\* Every step of a run keeps SimInv.
LEMMA NextSimInv == SimInv /\ [SimNext]_simVars => SimInv'
<1> SUFFICES ASSUME SimInv, [SimNext]_simVars PROVE SimInv'
  OBVIOUS
<1> USE DEF SimInv
<1>1. CASE RunMissingArgs
  <2>1. calls' = <<>> /\ err' = "args" /\ phase' = "returned" /\ args' = <<>>
    BY <1>1 DEF RunMissingArgs
  <2> QED
    BY <2>1 DEF CallsType, Earlier, AllWanted, ErrorFound, CallsInOrder,
                CleansBeforeReturn, Flags
<1>2. ASSUME NEW line, Run(line) PROVE SimInv'
  <2>1. /\ calls' = <<>> /\ err' = "none" /\ args' = line
        /\ phase' = Following(line, 0)
    BY <1>2 DEF Run
  <2>2. phase' \in Flags => Wants(line, phase')
    BY <2>1, FollowingWanted
  <2>3. phase' \in {"returned", "panicked"} => ~Wants(line, "clean")
    BY <2>1, FirstPhase, NothingFollows DEF Flags
  <2> QED  BY <2>1, <2>2, <2>3, NoCalls
<1>3. CASE NextProcess
  BY <1>3, NoCalls DEF NextProcess, Flags
<1>4. ASSUME NEW out \in Outcomes, Returns(out) PROVE SimInv'
  <2> DEFINE e == [op |-> phase, out |-> out]
             done == IF \E c \in ToSet(calls') : c.out = "panic"
                       THEN "panicked" ELSE "returned"
  <2>1. /\ phase \in Flags /\ calls' = Append(calls, e) /\ args' = args
        /\ err' = ErrorAfter(out) /\ phase' = PhaseAfter(out, done)
        /\ e \in [op : Flags, out : Outcomes]
    BY <1>4 DEF Returns
  <2>2. /\ CallsType' /\ calls' # <<>> /\ Last(calls') = e
        /\ Len(calls') = Len(calls) + 1 /\ Len(calls) \in Nat
        /\ calls'[Len(calls) + 1] = e
        /\ \A i \in 1 .. Len(calls) : calls'[i] = calls[i]
        /\ ToSet(calls') = ToSet(calls) \cup {e}
    BY <2>1, Appended
  <2>3. Position(phase) \in 1 .. 4 /\ (phase # "clean" => Position(phase) \in 1 .. 3)
    BY <2>1, Positions DEF Flags
  <2>4. /\ phase' \in Flags => /\ Wants(args, phase')
                               /\ Position(phase) < Position(phase')
                               /\ out # "ok" => phase' = "clean"
        /\ phase' \in {"returned", "panicked"} /\ phase # "clean"
             => ~Wants(args, "clean")
    <3>1. CASE phase = "clean"
      BY <2>1, <3>1 DEF PhaseAfter, Flags
    <3>2. CASE phase # "clean" /\ out = "ok"
      <4>1. phase' = Following(args, Position(phase))
        BY <2>1, <3>2 DEF PhaseAfter
      <4>2. phase' \in {"execute", "stats", "clean", "returned"}
        BY <2>3, <3>2, <4>1, NotDeployAgain
      <4> QED
        BY <2>3, <3>2, <4>1, <4>2, FollowingWanted, NothingFollows DEF Flags
    <3>3. CASE phase # "clean" /\ out # "ok"
      BY <2>1, <2>3, <3>3, Positions DEF PhaseAfter, Flags
    <3> QED  BY <3>1, <3>2, <3>3
  <2>5. \A i \in 1 .. Len(calls') : i = Len(calls) + 1 \/ i \in 1 .. Len(calls)
    BY <2>2
  <2>6. \A i \in 1 .. Len(calls) : Position(calls[i].op) < Position(phase)
                                   /\ (calls[i].out # "ok" => phase = "clean")
    BY <2>1 DEF Earlier
  <2>7. CallsInOrder'
    <3> SUFFICES ASSUME NEW i \in 1 .. Len(calls'), NEW j \in 1 .. Len(calls'), i < j
                 PROVE  /\ Position(calls'[i].op) < Position(calls'[j].op)
                        /\ calls'[i].out # "ok" => calls'[j].op = "clean"
      BY DEF CallsInOrder
    <3>1. i \in 1 .. Len(calls)
      BY <2>2, <2>5
    <3>2. CASE j = Len(calls) + 1
      BY <2>2, <2>6, <3>1, <3>2
    <3>3. CASE j \in 1 .. Len(calls)
      BY <2>2, <3>1, <3>3 DEF CallsInOrder
    <3> QED  BY <2>5, <3>2, <3>3
  <2>8. AllWanted'
    BY <2>1, <2>2, <2>5 DEF AllWanted, Earlier
  <2>9. Earlier'
    <3> SUFFICES ASSUME phase' \in Flags, NEW i \in 1 .. Len(calls')
                 PROVE  /\ Position(calls'[i].op) < Position(phase')
                        /\ calls'[i].out # "ok" => phase' = "clean"
      BY <2>1, <2>4 DEF Earlier
    <3>1. CASE i = Len(calls) + 1
      BY <2>2, <2>4, <3>1
    <3>2. CASE i \in 1 .. Len(calls)
      <4>1. Position(calls[i].op) \in 1 .. 4 /\ Position(phase') \in 1 .. 4
        <5>1. calls[i] \in [op : Flags, out : Outcomes]
          BY <3>2, ElementOfSeq DEF CallsType
        <5> QED  BY <5>1, Positions DEF Flags
      <4>2. Position(calls'[i].op) < Position(phase')
        BY <2>2, <2>3, <2>4, <2>6, <3>2, <4>1
      <4>3. calls'[i].out # "ok" => FALSE
        <5>1. calls'[i].out # "ok" => phase = "clean"
          BY <2>2, <2>6, <3>2
        <5>2. phase # "clean"
          BY <2>3, <2>4, Positions, <4>1
        <5> QED  BY <5>1, <5>2
      <4> QED  BY <4>2, <4>3
    <3> QED  BY <2>5, <3>1, <3>2
  <2>10. ErrorFound'
    <3>1. err # "args"
      BY <2>1 DEF ErrorFound, Flags
    <3>2. err' # "args"
      BY <2>1, <3>1 DEF ErrorAfter, Flags
    <3>3. ASSUME NEW p \in Flags
          PROVE  err' = p <=> p # "clean" /\ [op |-> p, out |-> "err"] \in ToSet(calls')
      <4>1. [op |-> p, out |-> "err"] \in ToSet(calls')
              <=> \/ [op |-> p, out |-> "err"] \in ToSet(calls)
                  \/ p = phase /\ out = "err"
        BY <2>2
      <4>2. err = p <=> p # "clean" /\ [op |-> p, out |-> "err"] \in ToSet(calls)
        BY <3>1, <3>3 DEF ErrorFound
      <4>3. CASE out = "err" /\ phase # "clean"
        <5>1. [op |-> p, out |-> "err"] \notin ToSet(calls)
          <6> SUFFICES ASSUME [op |-> p, out |-> "err"] \in ToSet(calls) PROVE FALSE
            OBVIOUS
          <6>1. PICK i \in DOMAIN calls : calls[i] = [op |-> p, out |-> "err"]
            BY DEF ToSet
          <6>2. i \in 1 .. Len(calls) /\ calls[i].out # "ok"
            BY <6>1 DEF CallsType
          <6> QED  BY <2>6, <4>3, <6>2
        <5> QED  BY <2>1, <4>1, <4>3, <5>1 DEF ErrorAfter
      <4>4. CASE ~(out = "err" /\ phase # "clean")
        BY <2>1, <4>1, <4>2, <4>4 DEF ErrorAfter
      <4> QED  BY <4>3, <4>4
    <3> QED  BY <3>2, <3>3 DEF ErrorFound
  <2>11. CleansBeforeReturn'
    BY <2>1, <2>2, <2>4 DEF CleansBeforeReturn, Ended
  <2> QED  BY <2>2, <2>7, <2>8, <2>9, <2>10, <2>11
<1>5. CASE UNCHANGED simVars
  BY <1>5
  DEF simVars, CallsType, Earlier, AllWanted, ErrorFound, CallsInOrder,
      CleansBeforeReturn, Ended
<1> QED
  BY <1>1, <1>2, <1>3, <1>4, <1>5 DEF SimNext, Outcomes

\* SimInv is an invariant.
LEMMA SimInvariance == SimSpec => []SimInv
<1>1. SimInit => SimInv
  <2>1. ToSet(<<>>) = {}
    BY DEF ToSet
  <2> QED
    BY <2>1
    DEF SimInit, SimInv, CallsType, Earlier, AllWanted, ErrorFound,
        CallsInOrder, CleansBeforeReturn, Ended, Flags
<1> QED  BY <1>1, NextSimInv, PTL DEF SimSpec

\* A process makes at most four calls.
LEMMA AtMostFour == CallsType /\ CallsInOrder => Len(calls) <= 4
<1> SUFFICES ASSUME CallsType, CallsInOrder, Len(calls) > 4 PROVE FALSE
  BY DEF CallsType
<1>1. Len(calls) \in Nat /\ {1, 2, 3, 4, 5} \subseteq 1 .. Len(calls)
  BY DEF CallsType
<1>2. ASSUME NEW i \in {1, 2, 3, 4, 5} PROVE Position(calls[i].op) \in 1 .. 4
  <2>1. calls[i] \in [op : Flags, out : Outcomes]
    BY <1>1, ElementOfSeq DEF CallsType
  <2> QED  BY <2>1, Positions DEF Flags
<1>3. ASSUME NEW i \in {1, 2, 3, 4}
      PROVE  Position(calls[i].op) < Position(calls[i + 1].op)
  BY <1>1 DEF CallsInOrder
<1>4. /\ Position(calls[1].op) < Position(calls[2].op)
      /\ Position(calls[2].op) < Position(calls[3].op)
      /\ Position(calls[3].op) < Position(calls[4].op)
      /\ Position(calls[4].op) < Position(calls[5].op)
  BY <1>3
<1> QED  BY <1>2, <1>4

\* The types, whatever the bound on the length of a command line.
THEOREM SimTypeCorrect == SimSpec => []SimTypeOK
<1> DEFINE Types == /\ phase \in Flags \cup {"off", "returned", "panicked"}
                    /\ args \in Seq(Args) /\ Len(args) <= MaxArgs
                    /\ err \in Flags \cup {"none", "args"}
<1>1. SimInit => Types
  BY MaxArgsAssumption DEF SimInit
<1>2. Types /\ [SimNext]_simVars => Types'
  <2> SUFFICES ASSUME Types, [SimNext]_simVars PROVE Types'
    OBVIOUS
  <2>1. ASSUME NEW line \in BoundedSeq(Args, MaxArgs), Run(line) PROVE Types'
    <3>1. line \in Seq(Args) /\ Len(line) <= MaxArgs
      BY MaxArgsAssumption DEF BoundedSeq, SeqOf
    <3> QED  BY <2>1, <3>1, FirstPhase DEF Run
  <2>2. ASSUME NEW out, Returns(out) PROVE Types'
    BY <2>2, AfterCall DEF Returns, ErrorAfter, Flags
  <2>3. CASE RunMissingArgs \/ NextProcess
    <3>1. <<>> \in Seq(Args) /\ Len(<<>>) = 0
      OBVIOUS
    <3>2. /\ phase' \in {"off", "returned"} /\ args' = <<>>
          /\ err' \in {"none", "args"}
      BY <2>3 DEF RunMissingArgs, NextProcess
    <3>3. Len(args') = 0 /\ 0 <= MaxArgs
      BY <3>1, <3>2, MaxArgsAssumption
    <3> QED  BY <3>1, <3>2, <3>3
  <2>4. CASE UNCHANGED simVars
    BY <2>4 DEF simVars
  <2> QED  BY <2>1, <2>2, <2>3, <2>4 DEF SimNext
<1>3. Types /\ SimInv => SimTypeOK
  BY AtMostFour DEF SimInv, CallsType, SimTypeOK
<1> HIDE DEF Types
<1> QED  BY <1>1, <1>2, <1>3, SimInvariance, PTL DEF SimSpec

\* The phases are called in order, and only the cleaning after a failure.
THEOREM InOrder == SimSpec => []CallsInOrder
<1>1. SimInv => CallsInOrder
  BY DEF SimInv
<1> QED  BY <1>1, SimInvariance, PTL

\* No run ends before the cleaning that it owes, by an error or by a panic.
THEOREM AlwaysCleans == SimSpec => []CleansBeforeReturn
<1>1. SimInv => CleansBeforeReturn
  BY DEF SimInv
<1> QED  BY <1>1, SimInvariance, PTL

\* The error of the phase that failed is returned, and the cleaning does not
\* hide it.
THEOREM ReturnsFirstError == SimSpec => []FirstErrorReturned
<1>1. SimInv => FirstErrorReturned
  BY DEF SimInv, ErrorFound, FirstErrorReturned
<1> QED  BY <1>1, SimInvariance, PTL

\* What the user left out of a well-formed line is not called.
THEOREM OnlyWanted == SimSpec => []RunsOnlyWanted
<1>1. SimInv /\ SimTypeOK => RunsOnlyWanted
  <2> SUFFICES ASSUME SimInv, SimTypeOK, Parsed(args) # {}, NEW i \in 1 .. Len(calls)
               PROVE  \/ calls[i].op \in ToSet(args)
                      \/ calls[i].op = "stats" /\ "execute" \in ToSet(args)
    BY DEF RunsOnlyWanted
  <2>1. Wants(args, calls[i].op)
    BY DEF SimInv, AllWanted
  <2>2. Parsed(args) \subseteq ToSet(args)
    <3>1. DOMAIN args = 1 .. Len(args)
      BY DEF SimTypeOK
    <3> QED  BY <3>1 DEF Parsed, ToSet
  <2> QED  BY <2>1, <2>2 DEF Wants
<1> QED  BY <1>1, SimInvariance, SimTypeCorrect, PTL
=============================================================================
