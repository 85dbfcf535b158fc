------------------------------- MODULE NodeIO -------------------------------
(***************************************************************************)
(* What the two implementations of sim.IO share when a round calls them on *)
(* one node: the program that runs in the node, the connection to it, the  *)
(* goroutine that copies the input into the connection and, for a Write of *)
(* Kubernetes, the one that feeds the io.Pipe it reads.  A call is made    *)
(* when the previous one has returned; what that one started may still run.*)
(***************************************************************************)
EXTENDS Netem

CONSTANTS
  MaxCalls,   \* bound on the calls of the round
  MaxFaults,  \* bound on what fails for no reason of the model
  Chunks      \* the length of the content of a Write and of a file

VARIABLES
  setup,      \* the engine, what the round calls, the topology, the node,
              \* its links and the addresses of the nodes
  call,       \* per call, the record of what it is and where it has come to
  file,       \* the chunks in the file that is written: <<call, number>>
  kernel,     \* the network namespace of the node
  faults      \* how many there have been

vars     == <<setup, call, file, kernel, faults>>
nodeVars == <<setup, file, kernel, faults>>

Calls == 1 .. MaxCalls

\* op:      the call
\* stdin:   how its input ends: it has none, or "eof", "error" or "never"
\* targets: the nodes of a Disconnect
\* pc, res: where the caller is, and what it was returned
\* feed, sin: the goroutine that writes the pipe, and the one that copies the
\*          input ("failed": with an error); taken, sent, fed: the chunks of
\*          the input that were taken, are in the connection, were used
\* conn:    the connection; "broken" when it is lost, "closed" by the caller
\* remote:  the program, "on" or how it ended; script: its commands left
\* out, got: the chunks of its output, those copied to the caller
\* reader:  what a reader that Read returned has come to
\* listen, events: the events of the daemon that the call receives
NoCall ==
  [op |-> "none", stdin |-> "none", targets |-> <<>>,
   pc |-> "idle", res |-> "none",
   feed |-> "off", sin |-> "off", taken |-> 0, sent |-> 0, fed |-> 0,
   conn |-> "off", remote |-> "off", script |-> <<>>,
   out |-> 0, got |-> 0, reader |-> "off",
   listen |-> FALSE, events |-> <<>>]

Set(c, r) == call' = [call EXCEPT ![c] = r]

\* Something fails: a connection, a request, a command.
Fault == faults < MaxFaults /\ faults' = faults + 1

Begins(c) ==
  /\ call[c].op = "none"
  /\ \A d \in 1 .. c - 1 : call[d].pc = "done"

\* A Write and a Read have several chunks, a command has one of input and one
\* of output, and the rules are encoded before they are written.
Size(r)   == CASE r.op = "write"  -> Chunks
               [] r.op = "upload" -> IF r.stdin = "error" THEN 0 ELSE 1
               [] OTHER           -> 1
Output(r) == CASE r.op = "read" -> Chunks [] r.op = "exec" -> 1 [] OTHER -> 0

-----------------------------------------------------------------------------
(* The input.                                                              *)

\* io.Copy takes a chunk, from the caller's reader or through the pipe from
\* the feeder.  It is lost if nobody reads the connection any more.
CopyChunk(c) ==
  LET r == call[c] IN
  /\ r.sin = "on" /\ r.taken < Size(r) /\ r.feed \in {"off", "on"}
  /\ \/ /\ r.conn = "up"
        /\ Set(c, [r EXCEPT !.taken = @ + 1, !.sent = @ + 1])
     \/ /\ r.conn # "up" \/ r.remote \in {"ok", "err"}
        /\ Set(c, [r EXCEPT !.taken = @ + 1, !.sin = "failed"])
  /\ UNCHANGED nodeVars

\* Mutant: the pipe is closed by the caller, while the goroutine copies.
FeedEndsEarly(c) ==
  LET r == call[c] IN
  /\ r.feed = "on"
  /\ Set(c, [r EXCEPT !.feed = "ended"])
  /\ UNCHANGED nodeVars

\* The feeder closes the pipe at the end of the content, or at an error of it.
FeedEnds(c) ==
  LET r == call[c] IN
  /\ r.feed = "on"
  /\ r.taken = Size(r) \/ r.stdin = "error"
  /\ Set(c, [r EXCEPT !.feed = "ended"])
  /\ UNCHANGED nodeVars

\* The copy reaches the end, or the error, of what it reads, and closes the
\* input of the program.
CopyEnds(c) ==
  LET r == call[c]
      piped == r.op \in {"write", "upload"}
  IN
  /\ r.sin = "on"
  /\ IF piped THEN r.feed = "ended"
     ELSE r.stdin = "error" \/ (r.stdin = "eof" /\ r.taken = Size(r))
  /\ Set(c, [r EXCEPT !.sin = IF r.stdin = "error" THEN "failed" ELSE "ended"])
  /\ UNCHANGED nodeVars

InputClosed(r) == r.sin \in {"ended", "failed"} \/ r.conn # "up"

-----------------------------------------------------------------------------
(* The program in the node.                                                *)

\* cat - >> path
CatChunk(c) ==
  LET r == call[c] IN
  /\ r.remote = "on" /\ r.op = "write" /\ r.fed < r.sent
  /\ file' = Append(file, <<c, r.fed + 1>>)
  /\ Set(c, [r EXCEPT !.fed = @ + 1])
  /\ UNCHANGED <<setup, kernel, faults>>

\* netem decodes the rules, and panics when the input ends before.
DecodeRules(c) ==
  LET r == call[c] IN
  /\ r.remote = "on" /\ r.op = "upload" /\ r.fed = 0
  /\ \/ /\ r.sent = 1
        /\ Set(c, [r EXCEPT !.fed = 1,
                            !.script = Commands(Rules(setup.links, setup.ip))])
     \/ /\ r.sent = 0 /\ InputClosed(r)
        /\ Set(c, [r EXCEPT !.remote = "err"])
  /\ UNCHANGED nodeVars

\* Mutant: the commands go on after one that fails.
RunCommandGoOn(c) ==
  LET r == call[c] IN
  /\ r.remote = "on" /\ r.script # <<>>
  /\ \/ /\ Accepts(kernel, Head(r.script))
        /\ kernel' = Apply(kernel, Head(r.script))
        /\ UNCHANGED faults
     \/ /\ Fault \/ (~Accepts(kernel, Head(r.script)) /\ UNCHANGED faults)
        /\ UNCHANGED kernel
  /\ Set(c, [r EXCEPT !.script = Tail(@)])
  /\ UNCHANGED <<setup, file>>

\* The commands of tc, or those of iptables joined by &&, run one by one.
\* The first that is refused, or fails, is the last.
RunCommand(c) ==
  LET r == call[c] IN
  /\ r.remote = "on" /\ r.script # <<>>
  /\ \/ /\ Accepts(kernel, Head(r.script))
        /\ kernel' = Apply(kernel, Head(r.script))
        /\ Set(c, [r EXCEPT !.script = Tail(@)])
        /\ UNCHANGED faults
     \/ /\ Fault \/ (~Accepts(kernel, Head(r.script)) /\ UNCHANGED faults)
        /\ Set(c, [r EXCEPT !.remote = "err"])
        /\ UNCHANGED kernel
  /\ UNCHANGED <<setup, file>>

\* A chunk of output; what comes when the connection is gone is not seen.
Emit(c) ==
  LET r == call[c] IN
  /\ r.remote = "on" /\ r.conn = "up" /\ r.out < Output(r)
  /\ Set(c, [r EXCEPT !.out = @ + 1])
  /\ UNCHANGED nodeVars

\* How the program may end.  A command of the round does as it likes.
Exits(r) ==
  CASE r.op = "exec"   -> {"ok", "err"}
    [] r.op = "read"   -> IF r.out = Output(r) THEN {"ok"} ELSE {}
    [] r.op = "write"  -> IF r.fed = r.sent /\ InputClosed(r) THEN {"ok"} ELSE {}
    [] r.op = "upload" -> IF r.fed = 1 /\ r.script = <<>> THEN {"ok"} ELSE {}
    [] OTHER           -> IF r.script = <<>> THEN {"ok"} ELSE {}

\* It ends, and whoever listens to the daemon is told.
RemoteExits(c) ==
  /\ call[c].remote = "on"
  /\ \E code \in Exits(call[c]) :
       call' = [d \in Calls |->
         [call[d] EXCEPT !.remote = IF d = c THEN code ELSE @,
                         !.events = IF call[d].listen
                                      THEN Append(@, <<c, code>>) ELSE @]]
  /\ UNCHANGED nodeVars

-----------------------------------------------------------------------------
(* The output.                                                             *)

\* A chunk of the output is copied, to the caller's writer or to its reader.
CopyOutput(c) ==
  LET r == call[c] IN
  /\ r.conn = "up" /\ r.got < r.out
  /\ r.op = "read" => r.reader = "open"
  /\ Set(c, [r EXCEPT !.got = @ + 1])
  /\ UNCHANGED nodeVars

\* The caller does not read the rest.
Abandon(c) ==
  LET r == call[c] IN
  /\ r.reader = "open"
  /\ Set(c, [r EXCEPT !.pc = "done", !.reader = "left"])
  /\ UNCHANGED nodeVars

Remote(c) == \/ CatChunk(c) \/ DecodeRules(c) \/ RunCommand(c) \/ RemoteExits(c)
Copier(c) == CopyChunk(c) \/ CopyEnds(c)
=============================================================================
