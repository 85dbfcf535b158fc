----------------------------- MODULE Simulation -----------------------------
(***************************************************************************)
(* Simulation.Run (mod.go): the flags of the command line choose the       *)
(* phases, which are called in order on a strategy; the first error ends   *)
(* the run, and the deferred cleaning comes last.  The strategy is         *)
(* abstract here: a call returns "ok", "err" or lets a panic of the        *)
(* round go through.                                                       *)
(***************************************************************************)
EXTENDS Naturals, Sequences, SequencesExt

CONSTANT MaxArgs        \* bound on the arguments after the program name

ASSUME MaxArgsAssumption == MaxArgs \in Nat

VARIABLES
  phase,    \* "off", the phase being run, "returned", or "panicked"
  args,     \* the command line
  calls,    \* the calls made on the strategy by this run, with their outcome
  err       \* the error that Run returns: a phase, "args" or "none"

simVars == <<phase, args, calls, err>>

Phases   == <<"deploy", "execute", "stats", "clean">>
Outcomes == {"ok", "err", "panic"}

\* The four boolean flags, and any argument that flagset.Parse stops at: an
\* unknown flag, -h, or a word.
Flags == {"deploy", "execute", "stats", "clean"}
Args  == Flags \cup {"other"}

SimTypeOK ==
  /\ phase \in Flags \cup {"off", "returned", "panicked"}
  /\ args \in Seq(Args) /\ Len(args) <= MaxArgs
  /\ calls \in Seq([op : Flags, out : Outcomes]) /\ Len(calls) <= 4
  /\ err \in Flags \cup {"none", "args"}

SimInit == phase = "off" /\ args = <<>> /\ calls = <<>> /\ err = "none"

-----------------------------------------------------------------------------
\* What flagset.Parse has set when it returns; its error is dropped.
Parsed(line) ==
  {f \in Flags : \E i \in 1 .. Len(line) :
                   line[i] = f /\ \A j \in 1 .. i : line[j] # "other"}

Wants(line, p) ==
  LET flags == Parsed(line)
      doAll == flags = {}
  IN  doAll \/ p \in flags \/ (p = "stats" /\ "execute" \in flags)

\* The phase that follows the first i ones.
Following(line, i) ==
  IF \E k \in i + 1 .. 4 : Wants(line, Phases[k])
    THEN Phases[CHOOSE k \in i + 1 .. 4 :
           /\ Wants(line, Phases[k])
           /\ \A j \in i + 1 .. k - 1 : ~Wants(line, Phases[j])]
    ELSE "returned"

Position(p) == CHOOSE i \in 1 .. 4 : Phases[i] = p

\* Run without even a program name: errMissingArgs.
RunMissingArgs ==
  /\ phase = "off"
  /\ phase' = "returned" /\ err' = "args" /\ calls' = <<>> /\ args' = <<>>

Run(line) ==
  /\ phase = "off"
  /\ args' = line
  /\ phase' = Following(line, 0)
  /\ calls' = <<>> /\ err' = "none"

\* Mutant: the error of the cleaning replaces the one of the run.
LastError(out) == IF out = "err" THEN phase ELSE err

\* The error of the cleaning is printed, never returned.
ErrorAfter(out) == IF out = "err" /\ phase # "clean" THEN phase ELSE err

\* Mutant: the cleaning is a call at the end of the function.
PhaseWithoutDefer(out, done) ==
  IF out = "ok" THEN Following(args, Position(phase)) ELSE "returned"

\* Mutant: the error of a phase is only printed.
PhaseWhateverHappens(out, done) ==
  IF phase = "clean" THEN done
  ELSE IF out = "panic" THEN "clean" ELSE Following(args, Position(phase))

\* An error or a panic leaves only the deferred cleaning to do.
PhaseAfter(out, done) ==
  CASE phase = "clean"               -> done
    [] phase # "clean" /\ out = "ok" -> Following(args, Position(phase))
    [] OTHER -> IF Wants(args, "clean") THEN "clean" ELSE done

\* The call of this phase returns or panics.
Returns(out) ==
  /\ phase \in Flags
  /\ calls' = Append(calls, [op |-> phase, out |-> out])
  /\ err' = ErrorAfter(out)
  /\ phase' = PhaseAfter(out,
                IF \E c \in ToSet(calls') : c.out = "panic" THEN "panicked"
                                                            ELSE "returned")
  /\ UNCHANGED args

\* The phases that run code of the round, which may panic.
RunsRound(p) == p \in {"deploy", "execute"}

\* The process ends, at the end of main or anywhere, and another is started.
NextProcess ==
  /\ phase # "off"
  /\ phase' = "off" /\ args' = <<>> /\ calls' = <<>> /\ err' = "none"

SimNext ==
  \/ RunMissingArgs
  \/ \E line \in BoundedSeq(Args, MaxArgs) : Run(line)
  \/ Returns("ok")
  \/ Returns("err")
  \/ RunsRound(phase) /\ Returns("panic")
  \/ NextProcess

SimSpec == SimInit /\ [][SimNext]_simVars

-----------------------------------------------------------------------------
Ended == phase \in {"returned", "panicked"}

\* The calls come in the order of the phases, each at most once, and after a
\* call that fails nothing but the cleaning is called.
CallsInOrder ==
  \A i, j \in 1 .. Len(calls) : i < j =>
    /\ Position(calls[i].op) < Position(calls[j].op)
    /\ calls[i].out # "ok" => calls[j].op = "clean"

\* However the run goes, it does not end before the cleaning that the user
\* asked for or that a full run owes ("defer" in Simulation.Run).
CleansBeforeReturn ==
  Ended /\ err # "args" /\ Wants(args, "clean")
    => calls # <<>> /\ Last(calls).op = "clean"

\* Run returns the error of the phase that failed, which the cleaning does
\* not hide ("so an error of the simulation is returned if any").
FirstErrorReturned ==
  phase = "returned" /\ err # "args" =>
    \A p \in Flags :
      err = p <=> p # "clean" /\ [op |-> p, out |-> "err"] \in ToSet(calls)

\* Phases that were deselected on a well-formed line are not called.
RunsOnlyWanted ==
  Parsed(args) # {} =>
    \A i \in 1 .. Len(calls) :
      \/ calls[i].op \in ToSet(args)
      \/ calls[i].op = "stats" /\ "execute" \in ToSet(args)
=============================================================================
