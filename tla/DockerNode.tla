----------------------------- MODULE DockerNode -----------------------------
(***************************************************************************)
(* sim/docker/io.go on one node: Read and Write as archives, Exec with the *)
(* events of the daemon, the hijacked connection and the channel done,     *)
(* which has room for the error of the input and is closed after it.       *)
(* Disconnect and Reconnect do nothing.                                    *)
(***************************************************************************)
EXTENDS NodeIO

At(c, pc) == setup.engine = "docker" /\ call[c].pc = pc

\* The deferred cancel and conn.Close run when Exec returns.
Returned(r, res) ==
  [r EXCEPT !.pc = "done", !.res = res, !.listen = FALSE,
            !.conn = IF @ = "up" THEN "closed" ELSE @]

Returns(c, res) == Set(c, Returned(call[c], res)) /\ UNCHANGED nodeVars

\* A request to the daemon fails.
RequestFails(c) ==
  /\ \E pc \in {"create", "attach", "start", "event", "copyFrom"} : At(c, pc)
  /\ Fault
  /\ Set(c, Returned(call[c], "err"))
  /\ UNCHANGED <<setup, file, kernel>>

DockerCalls ==
  {[NoCall EXCEPT !.op = "write", !.stdin = s, !.pc = "buffer"] :
     s \in {"eof", "error"}}
  \cup {[NoCall EXCEPT !.op = "exec", !.stdin = s, !.pc = "create"] :
     s \in {"none", "eof", "error", "never"}}
  \cup {[NoCall EXCEPT !.op = "read", !.pc = "copyFrom"],
        [NoCall EXCEPT !.op = "disconnect", !.pc = "done", !.res = "ok"],
        [NoCall EXCEPT !.op = "reconnect", !.pc = "done", !.res = "ok"]}

DockerCall(c) ==
  /\ setup.engine = "docker" /\ Begins(c)
  /\ \E r \in {x \in DockerCalls : x.op \in setup.ops} : Set(c, r)
  /\ UNCHANGED nodeVars

-----------------------------------------------------------------------------
(* Write: the content is read first, then a goroutine writes the archive   *)
(* that CopyToContainer reads.                                             *)

Buffer(c) ==
  /\ At(c, "buffer")
  /\ IF call[c].stdin = "error" THEN Returns(c, "err")
     ELSE /\ Set(c, [call[c] EXCEPT !.pc = "copyTo", !.feed = "on",
                                    !.taken = Chunks])
          /\ UNCHANGED nodeVars

Content(c, n) == [k \in 1 .. n |-> <<c, k>>]

\* The archive replaces the file.
CopyToContainer(c) ==
  /\ At(c, "copyTo")
  /\ file' = Content(c, Chunks)
  /\ Set(c, [Returned(call[c], "ok") EXCEPT !.feed = "ended"])
  /\ UNCHANGED <<setup, kernel, faults>>

\* It fails with the file as it was or cut, and the archive read or not.
CopyToContainerFails(c) ==
  /\ At(c, "copyTo") /\ Fault
  /\ file' \in {file} \cup {Content(c, n) : n \in 0 .. Chunks}
  /\ \E feed \in {"on", "ended"} :
       Set(c, [Returned(call[c], "err") EXCEPT !.feed = feed])
  /\ UNCHANGED <<setup, kernel>>

-----------------------------------------------------------------------------
(* Read: the stream of the archive, whose header tells the size of what    *)
(* must come.  Closing the reader closes nothing.                          *)

CopyFromContainer(c) ==
  /\ At(c, "copyFrom")
  /\ Set(c, [call[c] EXCEPT !.pc = "read", !.res = "ok", !.reader = "open",
                            !.conn = "up", !.remote = "on"])
  /\ UNCHANGED nodeVars

\* The reader has come to the size in the header.
ReadToEnd(c) ==
  /\ At(c, "read") /\ call[c].got = Chunks
  /\ Set(c, [call[c] EXCEPT !.pc = "done", !.reader = "eof"])
  /\ UNCHANGED nodeVars

ReadBreaks(c) ==
  /\ At(c, "read") /\ Fault
  /\ Set(c, [call[c] EXCEPT !.pc = "done", !.reader = "err", !.conn = "broken"])
  /\ UNCHANGED <<setup, file, kernel>>

-----------------------------------------------------------------------------
(* Exec.                                                                   *)

\* Mutant: nobody asks for the events before the command starts.
ExecCreateOnly(c) ==
  /\ At(c, "create")
  /\ Set(c, [call[c] EXCEPT !.pc = "attach"])
  /\ UNCHANGED nodeVars

\* ContainerExecCreate, and then Events.
ExecCreate(c) ==
  /\ At(c, "create")
  /\ Set(c, [call[c] EXCEPT !.pc = "attach", !.listen = TRUE])
  /\ UNCHANGED nodeVars

\* ContainerExecAttach, which starts the command already, and the goroutines
\* that copy the input and output.
ExecAttach(c) ==
  /\ At(c, "attach")
  /\ Set(c, [call[c] EXCEPT !.pc = "start", !.conn = "up", !.remote = "on",
               !.sin = IF call[c].stdin = "none" THEN "ended" ELSE "on"])
  /\ UNCHANGED nodeVars

\* ContainerExecStart of a command that runs, or that has already ended.
ExecStart(c) ==
  /\ At(c, "start")
  /\ Set(c, [call[c] EXCEPT !.pc = "stdin"])
  /\ UNCHANGED nodeVars

\* Mutant: the error of the input is not waited for.
InputNotDone(c) ==
  /\ At(c, "stdin")
  /\ Set(c, [call[c] EXCEPT !.pc = "event"])
  /\ UNCHANGED nodeVars

\* err, ok := <-done
InputDone(c) ==
  /\ At(c, "stdin")
  /\ \/ call[c].sin = "failed" /\ Returns(c, "err")
     \/ /\ call[c].sin = "ended"
        /\ Set(c, [call[c] EXCEPT !.pc = "event"])
        /\ UNCHANGED nodeVars

\* Mutant: the event of any command ends the wait.
TakeAnyEvent(c) ==
  /\ At(c, "event") /\ call[c].events # <<>>
  /\ Returns(c, Head(call[c].events)[2])

\* An event of another command is dropped.
TakeEvent(c) ==
  /\ At(c, "event") /\ call[c].events # <<>>
  /\ LET e == Head(call[c].events) IN
     IF e[1] = c THEN Returns(c, e[2])
     ELSE /\ Set(c, [call[c] EXCEPT !.events = Tail(@)])
          /\ UNCHANGED nodeVars

DockerStep(c) ==
  \/ DockerCall(c) \/ RequestFails(c)
  \/ Buffer(c) \/ CopyToContainer(c) \/ CopyToContainerFails(c)
  \/ CopyFromContainer(c) \/ ReadToEnd(c) \/ ReadBreaks(c)
  \/ ExecCreate(c) \/ ExecAttach(c) \/ ExecStart(c) \/ InputDone(c) \/ TakeEvent(c)
=============================================================================
