------------------------------ MODULE KubeNode ------------------------------
(***************************************************************************)
(* The primitives of sim/kubernetes on one node: kio.Read, Write and Exec  *)
(* (io.go) under Read, Write, Exec, Disconnect, Reconnect and the upload   *)
(* of the rules (engine.go).  Each runs a program in the pod through       *)
(* remotecommand, in a goroutine; the unbuffered channel done, or the pipe *)
(* of a reader, hands its result over.                                     *)
(***************************************************************************)
EXTENDS NodeIO

\* findPod finds no pod for the node, or newExecutor fails.  Write has then
\* started the goroutine that feeds the pipe.
KubeCallFails(c, r) ==
  /\ \/ r.op # "upload" /\ UNCHANGED faults
     \/ Fault
  /\ Set(c, [r EXCEPT !.pc = "done", !.res = "err"])
  /\ UNCHANGED <<setup, file, kernel>>

\* The call starts its goroutines, and waits; Read has returned its reader.
KubeCallStarts(c, r) ==
  /\ Set(c, IF r.op = "read"
              THEN [r EXCEPT !.pc = "read", !.res = "ok", !.reader = "open"]
              ELSE [r EXCEPT !.pc = "wait"])
  /\ UNCHANGED nodeVars

\* Disconnect(src, targets...) and Reconnect(node)
Drops(targets) ==
  [k \in DOMAIN targets |-> [do |-> "drop", ip |-> setup.ip[targets[k]]]]
Flush == <<[do |-> "flush"]>>

KubeCalls ==
  {[NoCall EXCEPT !.op = "write", !.stdin = s, !.feed = "on"] :
     s \in {"eof", "error"}}
  \cup {[NoCall EXCEPT !.op = "upload", !.stdin = s, !.feed = "on"] :
     s \in {"eof", "error"}}
  \cup {[NoCall EXCEPT !.op = "exec", !.stdin = s] :
     s \in {"none", "eof", "error", "never"}}
  \cup {[NoCall EXCEPT !.op = "read"],
        [NoCall EXCEPT !.op = "reconnect", !.script = Flush]}
  \cup {[NoCall EXCEPT !.op = "disconnect", !.targets = SetToSeq(s),
                       !.script = Drops(SetToSeq(s))] :
     s \in SUBSET (Nodes(setup.topo) \cap DOMAIN setup.ip)}

KubeCall(c) ==
  /\ setup.engine = "kube" /\ Begins(c)
  /\ \E r \in {x \in KubeCalls : x.op \in setup.ops} :
       KubeCallFails(c, r) \/ KubeCallStarts(c, r)

-----------------------------------------------------------------------------
\* exec.Stream is under way for this call.
Streams(c) == setup.engine = "kube" /\ call[c].pc \in {"wait", "read"}

\* It connects, and the program starts.
Connect(c) ==
  LET r == call[c] IN
  /\ Streams(c) /\ r.conn = "off"
  /\ Set(c, [r EXCEPT !.conn = "up", !.remote = "on",
                      !.sin = IF r.stdin = "none" THEN "ended" ELSE "on"])
  /\ UNCHANGED nodeVars

\* cat path: there is no such file.
FileMissing(c) ==
  LET r == call[c] IN
  /\ Streams(c) /\ r.remote = "on" /\ r.op = "read" /\ r.out = 0
  /\ Set(c, [r EXCEPT !.remote = "err"])
  /\ UNCHANGED nodeVars

\* Mutant: outStream.Close() whatever the error.
HandOverClosing(r, res) ==
  IF r.pc = "read" THEN [r EXCEPT !.pc = "done", !.reader = "eof"]
  ELSE [r EXCEPT !.pc = "done", !.res = res]

\* The goroutine gives the error of Stream to the caller, through done or by
\* the way it closes the pipe of the reader.
HandOver(r, res) ==
  IF r.pc = "read"
    THEN [r EXCEPT !.pc = "done",
                   !.reader = IF res = "ok" THEN "eof" ELSE "err"]
    ELSE [r EXCEPT !.pc = "done", !.res = res]

\* Stream returns when the program has ended and all its output is copied.
\* Whether it reports an error of the input is left open.
StreamEnds(c) ==
  LET r == call[c] IN
  /\ Streams(c) /\ r.remote \in {"ok", "err"} /\ r.got = r.out
  /\ \E res \in {r.remote} \cup (IF r.sin = "failed" THEN {"err"} ELSE {}) :
       Set(c, [HandOver(r, res) EXCEPT !.conn = "closed"])
  /\ UNCHANGED nodeVars

\* It cannot connect, or the connection breaks; the program is not told.
StreamBreaks(c) ==
  LET r == call[c] IN
  /\ Streams(c) /\ Fault
  /\ Set(c, [HandOver(r, "err") EXCEPT !.conn = "broken"])
  /\ UNCHANGED <<setup, file, kernel>>

KubeStep(c) == \/ KubeCall(c) \/ Connect(c) \/ FileMissing(c)
               \/ StreamEnds(c) \/ StreamBreaks(c)
=============================================================================
