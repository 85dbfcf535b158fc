----------------------------- MODULE NodeProofs -----------------------------
(***************************************************************************)
(* The calls of sim.IO on one node, for either engine, any topology and    *)
(* any number of calls, chunks and faults: Calling tells what each call    *)
(* has come to by itself; Filed relates the calls to the file they write,  *)
(* CutInv to the rules of iptables, UploadInv to the rules of tc, and      *)
(* FirstInv says why the first upload of the rules does not fail.          *)
(***************************************************************************)
EXTENDS RulesProofs

\* The calls there are, and where their callers may be.
Ops == {"none", "write", "upload", "exec", "read", "disconnect", "reconnect"}
Pcs == {"idle", "wait", "read", "done",
        "buffer", "copyTo", "create", "attach", "start", "stdin", "event", "copyFrom"}

\* The fields of a call.
Fields == {"op", "stdin", "targets", "pc", "res", "feed", "sin", "taken", "sent", "fed",
           "conn", "remote", "script", "out", "got", "reader", "listen", "events"}

\* A call is a record of these fields.
Shape(r) == r = [f \in Fields |-> r[f]]

\* The values that they take.
Types(r) ==
  /\ r.op \in Ops /\ r.stdin \in {"none", "eof", "error", "never"}
  /\ r.pc \in Pcs /\ r.res \in {"none", "ok", "err"}
  /\ r.feed \in {"off", "on", "ended"} /\ r.sin \in {"off", "on", "ended", "failed"}
  /\ r.taken \in Nat /\ r.sent \in Nat /\ r.fed \in Nat
  /\ r.conn \in {"off", "up", "closed", "broken"}
  /\ r.remote \in {"off", "on", "ok", "err"}
  /\ r.out \in Nat /\ r.got \in Nat
  /\ r.reader \in {"off", "open", "eof", "err", "left"}
  /\ r.listen \in BOOLEAN

\* Where a call of the engine of Kubernetes is.
KubePlace(r) ==
  /\ r.pc \in {"idle", "wait", "read", "done"}
  /\ r.op = "none" => r.pc = "idle"
  /\ r.pc = "idle" => r.conn = "off" /\ r.feed = "off" /\ r.reader = "off" /\ r.res = "none"
  /\ r.reader # "off" => r.op = "read"
  /\ r.pc = "read" <=> r.reader = "open"
  /\ r.pc = "wait" => r.op # "read" /\ r.res = "none"
  /\ r.pc \in {"wait", "read"} => r.conn \in {"off", "up"}
  /\ r.conn = "off" => r.remote = "off" /\ r.sin = "off"
  /\ r.pc = "done" /\ r.op # "read" /\ r.remote = "on" => r.conn = "broken"

\* What has become of its input.
KubeInput(r) ==
  /\ r.op \in {"write", "upload"} => r.stdin \in {"eof", "error"} 
  /\ r.op \notin {"write", "upload"} => r.feed = "off"
  /\ r.op \notin {"write", "upload", "exec"} => r.stdin = "none"
  /\ r.stdin = "none" => r.sin # "on"
  /\ r.fed <= r.sent /\ r.sent <= r.taken /\ r.taken <= Size(r)
  /\ r.feed = "ended" => r.taken = Size(r) \/ r.stdin = "error"
  /\ r.op = "upload" /\ r.remote = "ok" => r.fed = 1
  /\ r.op = "write" =>
       /\ r.sin # "failed" => r.sent = r.taken
       /\ r.sin = "ended" => r.feed = "ended" /\ r.stdin = "eof"
       /\ r.sin = "failed" /\ r.conn = "up" /\ r.remote = "on"
            => r.feed = "ended" /\ r.stdin = "error" /\ r.sent = r.taken
       /\ r.remote = "ok" /\ r.conn = "up" =>
            /\ r.fed = r.sent /\ r.sent = r.taken /\ r.feed = "ended"
            /\ r.sin = "ended" \/ (r.sin = "failed" /\ r.stdin = "error")

\* What its caller knows.
KubeResult(r) ==
  /\ r.conn = "broken" => faults > 0
  /\ r.op = "read" /\ r.remote = "ok" => r.out = Chunks
  /\ r.reader = "eof" => r.got = Chunks
  /\ r.res = "ok" /\ r.op = "write" => r.feed = "ended" /\ r.sin # "on"
  /\ r.res = "ok" /\ r.op = "upload" => r.fed = 1
  /\ r.op = "exec" /\ r.pc = "done" =>
       /\ r.res = "ok" => r.remote = "ok"
       /\ r.remote = "ok" /\ faults = 0 /\ r.sin # "failed" => r.res = "ok"

\* All that is known of a call of Kubernetes.
KubeRecord(r) == Shape(r) /\ Types(r) /\ KubePlace(r) /\ KubeInput(r) /\ KubeResult(r)

\* Only the call that takes a step changes, and what others are told.
KubeAction(c) ==
  KubeStep(c) \/ FeedEnds(c) \/ Copier(c) \/ Remote(c) \/ Emit(c) \/ CopyOutput(c)
    \/ Abandon(c)

\* The fields of a call that has not begun.
LEMMA NoCallIs ==
  /\ Shape(NoCall) /\ Types(NoCall)
  /\ NoCall.op = "none" /\ NoCall.stdin = "none" /\ NoCall.pc = "idle" /\ NoCall.res = "none"
  /\ NoCall.feed = "off" /\ NoCall.sin = "off" /\ NoCall.conn = "off"
  /\ NoCall.remote = "off" /\ NoCall.reader = "off" /\ NoCall.listen = FALSE
  /\ NoCall.taken = 0 /\ NoCall.sent = 0 /\ NoCall.fed = 0 /\ NoCall.out = 0
  /\ NoCall.got = 0 /\ NoCall.events = <<>> /\ NoCall.script = <<>>
<1>1. Shape(NoCall)
  BY DEF NoCall, Shape, Fields
<1>2. Types(NoCall)
  BY DEF NoCall, Types, Ops, Pcs
<1> QED BY <1>1, <1>2 DEF NoCall

\* A call as its arguments make it.
New(x) ==
  /\ Shape(x) /\ Types(x)
  /\ x.op # "none"
  /\ x.op \in {"write", "upload"} => x.stdin \in {"eof", "error"}
  /\ x.op \notin {"write", "upload", "exec"} => x.stdin = "none"
  /\ x.feed = IF x.op \in {"write", "upload"} THEN "on" ELSE "off"
  /\ x.sin = "off" /\ x.conn = "off" /\ x.remote = "off" /\ x.listen = FALSE
  /\ x.taken = 0 /\ x.sent = 0 /\ x.fed = 0 /\ x.out = 0 /\ x.got = 0
  /\ x.events = <<>>

\* The calls that a round may make of Kubernetes are new.
LEMMA KubeCallsAre ==
  ASSUME NEW x \in KubeCalls
  PROVE  New(x) /\ x.pc = "idle" /\ x.res = "none" /\ x.reader = "off"
<1>1. \/ \E s \in {"eof", "error"} :
           x = [NoCall EXCEPT !.op = "write", !.stdin = s, !.feed = "on"]
      \/ \E s \in {"eof", "error"} :
           x = [NoCall EXCEPT !.op = "upload", !.stdin = s, !.feed = "on"]
      \/ \E s \in {"none", "eof", "error", "never"} :
           x = [NoCall EXCEPT !.op = "exec", !.stdin = s]
      \/ x = [NoCall EXCEPT !.op = "read"]
      \/ x = [NoCall EXCEPT !.op = "reconnect", !.script = Flush]
      \/ \E t, p : x = [NoCall EXCEPT !.op = "disconnect", !.targets = t, !.script = p]
  BY Zenon DEF KubeCalls
<1>2. Shape(x)
  BY <1>1, NoCallIs DEF Shape
<1>3. Types(x)
  BY ZenonT(60), <1>1, NoCallIs DEF Shape, Fields, Types, Ops, Pcs
<1>4. /\ x.op # "none"
      /\ x.op \in {"write", "upload"} => x.stdin \in {"eof", "error"}
      /\ x.op \notin {"write", "upload", "exec"} => x.stdin = "none"
      /\ x.feed = IF x.op \in {"write", "upload"} THEN "on" ELSE "off"
  BY ZenonT(60), <1>1, NoCallIs DEF Shape, Fields
<1>5. /\ x.sin = "off" /\ x.conn = "off" /\ x.remote = "off" /\ x.listen = FALSE
      /\ x.taken = 0 /\ x.sent = 0 /\ x.fed = 0 /\ x.out = 0 /\ x.got = 0
      /\ x.events = <<>> /\ x.pc = "idle" /\ x.res = "none" /\ x.reader = "off"
  BY ZenonT(60), <1>1, NoCallIs DEF Shape, Fields
<1> QED  BY <1>2, <1>3, <1>4, <1>5 DEF New

\* A call of Kubernetes has failed at once, or waits, or has returned a reader.
LEMMA KubeCallIs ==
  ASSUME NEW c \in Calls, DOMAIN call = Calls, KubeCall(c)
  PROVE  /\ New(call'[c])
         /\ \/ call'[c].pc = "done" /\ call'[c].res = "err" /\ call'[c].reader = "off"
            \/ /\ call'[c].op # "read" /\ call'[c].pc = "wait"
               /\ call'[c].res = "none" /\ call'[c].reader = "off"
            \/ /\ call'[c].op = "read" /\ call'[c].pc = "read"
               /\ call'[c].res = "ok" /\ call'[c].reader = "open"
<1>1. PICK x \in KubeCalls : KubeCallFails(c, x) \/ KubeCallStarts(c, x)
  BY DEF KubeCall
<1>2. New(x) /\ x.pc = "idle" /\ x.res = "none" /\ x.reader = "off"
  BY KubeCallsAre
<1>3. \/ call'[c] = [x EXCEPT !.pc = "done", !.res = "err"]
      \/ x.op = "read" /\ call'[c] = [x EXCEPT !.pc = "read", !.res = "ok", !.reader = "open"]
      \/ x.op # "read" /\ call'[c] = [x EXCEPT !.pc = "wait"]
  BY <1>1 DEF KubeCallFails, KubeCallStarts, Set
<1>4. Shape(call'[c])
  BY <1>2, <1>3 DEF New, Shape
<1>5. Types(call'[c])
  BY ZenonT(60), <1>2, <1>3 DEF New, Shape, Fields, Types, Ops, Pcs
<1> QED  BY ZenonT(60), <1>2, <1>3, <1>4, <1>5 DEF New, Shape, Fields

\* What a step may leave alone.
SamePlace(r, x)  == x.op = r.op /\ x.pc = r.pc /\ x.res = r.res /\ x.reader = r.reader
SameInput(r, x)  == /\ x.op = r.op /\ x.stdin = r.stdin /\ x.feed = r.feed /\ x.sin = r.sin
                    /\ x.taken = r.taken /\ x.sent = r.sent /\ x.fed = r.fed
SameOutput(r, x) == x.op = r.op /\ x.out = r.out /\ x.got = r.got /\ x.listen = r.listen

\* What a step of the goroutine that copies the input changes.
LEMMA CopyChunkIs ==
  ASSUME NEW c \in Calls, DOMAIN call = Calls, Shape(call[c]), CopyChunk(c)
  PROVE  /\ Shape(call'[c]) /\ UNCHANGED nodeVars
         /\ SamePlace(call[c], call'[c]) /\ SameOutput(call[c], call'[c])
         /\ call'[c].remote = call[c].remote /\ call'[c].conn = call[c].conn
         /\ call'[c].stdin = call[c].stdin /\ call'[c].feed = call[c].feed
         /\ call'[c].fed = call[c].fed /\ call'[c].taken = call[c].taken + 1
         /\ call[c].sin = "on" /\ call[c].taken < Size(call[c])
         /\ call[c].feed \in {"off", "on"}
         /\ call'[c].script = call[c].script /\ call'[c].targets = call[c].targets
         /\ \/ call'[c].sent = call[c].sent + 1 /\ call'[c].sin = "on"
            \/ /\ call'[c].sent = call[c].sent /\ call'[c].sin = "failed"
               /\ call[c].conn # "up" \/ call[c].remote \in {"ok", "err"}
<1> DEFINE r == call[c]
<1>1. \/ call'[c] = [r EXCEPT !.taken = @ + 1, !.sent = @ + 1]
      \/ /\ call'[c] = [r EXCEPT !.taken = @ + 1, !.sin = "failed"]
         /\ call[c].conn # "up" \/ call[c].remote \in {"ok", "err"}
  BY DEF CopyChunk, Set
<1>2. Shape(call'[c])
  BY <1>1 DEF Shape
<1>3. SamePlace(r, call'[c]) /\ SameOutput(r, call'[c])
  BY <1>1 DEF SamePlace, SameOutput, Shape, Fields
<1>4. /\ call'[c].remote = call[c].remote /\ call'[c].conn = call[c].conn
      /\ call'[c].stdin = call[c].stdin /\ call'[c].feed = call[c].feed
      /\ call'[c].fed = call[c].fed /\ call'[c].taken = call[c].taken + 1
      /\ call'[c].script = call[c].script /\ call'[c].targets = call[c].targets
  BY <1>1 DEF Shape, Fields
<1>5. r.sin = "on" /\ r.taken < Size(r) /\ r.feed \in {"off", "on"} /\ UNCHANGED nodeVars
  BY DEF CopyChunk
<1>6. \/ call'[c].sent = call[c].sent + 1 /\ call'[c].sin = "on"
      \/ /\ call'[c].sent = call[c].sent /\ call'[c].sin = "failed"
         /\ call[c].conn # "up" \/ call[c].remote \in {"ok", "err"}
  BY <1>1, <1>5 DEF Shape, Fields
<1> QED  BY <1>2, <1>3, <1>4, <1>5, <1>6

\* What the end of exec.Stream changes, with or without an error.
LEMMA StreamIs ==
  ASSUME NEW c \in Calls, DOMAIN call = Calls, Shape(call[c]), StreamEnds(c) \/ StreamBreaks(c)
  PROVE  /\ Shape(call'[c]) /\ UNCHANGED <<setup, file, kernel>>
         /\ SameInput(call[c], call'[c]) /\ SameOutput(call[c], call'[c])
         /\ call'[c].remote = call[c].remote
         /\ call'[c].script = call[c].script /\ call'[c].targets = call[c].targets
         /\ call[c].pc \in {"wait", "read"} /\ call'[c].pc = "done"
         /\ \E res \in {"ok", "err"} :
              /\ IF call[c].pc = "read"
                   THEN /\ call'[c].res = call[c].res
                        /\ call'[c].reader = IF res = "ok" THEN "eof" ELSE "err"
                   ELSE call'[c].res = res /\ call'[c].reader = call[c].reader
              /\ \/ /\ call'[c].conn = "closed" /\ faults' = faults
                    /\ call[c].remote \in {"ok", "err"} /\ call[c].got = call[c].out
                    /\ res = call[c].remote \/ (res = "err" /\ call[c].sin = "failed")
                 \/ call'[c].conn = "broken" /\ faults' = faults + 1 /\ res = "err"
<1> DEFINE r == call[c]
<1>1. PICK res \in {"ok", "err"} :
        \/ /\ call'[c] = [HandOver(r, res) EXCEPT !.conn = "closed"] /\ faults' = faults
           /\ r.remote \in {"ok", "err"} /\ r.got = r.out
           /\ res = r.remote \/ (res = "err" /\ r.sin = "failed")
        \/ /\ call'[c] = [HandOver(r, res) EXCEPT !.conn = "broken"]
           /\ faults' = faults + 1 /\ res = "err"
  BY DEF StreamEnds, StreamBreaks, Set, Fault, nodeVars
<1>2. /\ r.pc \in {"wait", "read"} /\ UNCHANGED <<setup, file, kernel>>
  BY DEF StreamEnds, StreamBreaks, Streams, nodeVars
<1> DEFINE h == HandOver(r, res)
<1>3. /\ Shape(h) /\ SameInput(r, h)
  <2>1. Shape(h)
    BY DEF HandOver, Shape
  <2>2. SameInput(r, h)
    BY DEF HandOver, Shape, Fields, SameInput
  <2> QED BY <2>1, <2>2
<1>4. /\ SameOutput(r, h) /\ h.remote = r.remote /\ h.pc = "done"
      /\ h.script = r.script /\ h.targets = r.targets
  BY DEF HandOver, Shape, Fields, SameOutput
<1>5. IF r.pc = "read"
        THEN h.res = r.res /\ h.reader = IF res = "ok" THEN "eof" ELSE "err"
        ELSE h.res = res /\ h.reader = r.reader
  BY <1>1 DEF HandOver, Shape, Fields
<1> HIDE DEF h
<1>6. \E x \in {"closed", "broken"} : call'[c] = [h EXCEPT !.conn = x]
  BY <1>1 DEF h
<1>7. Shape(call'[c])
  BY <1>3, <1>6 DEF Shape
<1>8. SameInput(h, call'[c])
  BY <1>3, <1>6 DEF Shape, Fields, SameInput
<1>9. /\ SameOutput(h, call'[c]) /\ call'[c].remote = h.remote /\ call'[c].pc = h.pc
      /\ call'[c].res = h.res /\ call'[c].reader = h.reader
      /\ call'[c].script = h.script /\ call'[c].targets = h.targets
  BY <1>3, <1>6 DEF Shape, Fields, SameOutput
<1>10. \/ /\ call'[c].conn = "closed" /\ faults' = faults
          /\ r.remote \in {"ok", "err"} /\ r.got = r.out
          /\ res = r.remote \/ (res = "err" /\ r.sin = "failed")
       \/ call'[c].conn = "broken" /\ faults' = faults + 1 /\ res = "err"
  BY <1>1, <1>3 DEF Shape, Fields, h
<1>11. SameInput(r, call'[c]) /\ SameOutput(r, call'[c]) /\ call'[c].remote = r.remote
  BY <1>3, <1>4, <1>8, <1>9 DEF SameInput, SameOutput
<1>12. IF r.pc = "read"
        THEN call'[c].res = r.res /\ call'[c].reader = IF res = "ok" THEN "eof" ELSE "err"
        ELSE call'[c].res = res /\ call'[c].reader = r.reader
  BY <1>5, <1>9
<1> QED  BY <1>2, <1>4, <1>7, <1>9, <1>10, <1>11, <1>12

\* What netem changes when it has decoded the rules, or cannot.
LEMMA DecodeRulesIs ==
  ASSUME NEW c \in Calls, DOMAIN call = Calls, Shape(call[c]), DecodeRules(c)
  PROVE  /\ Shape(call'[c]) /\ UNCHANGED nodeVars
         /\ SamePlace(call[c], call'[c]) /\ SameOutput(call[c], call'[c])
         /\ call'[c].stdin = call[c].stdin /\ call'[c].feed = call[c].feed
         /\ call'[c].sin = call[c].sin /\ call'[c].conn = call[c].conn
         /\ call'[c].sent = call[c].sent /\ call'[c].taken = call[c].taken
         /\ call[c].remote = "on" /\ call[c].op = "upload" /\ call[c].fed = 0
         /\ \/ call[c].sent = 1 /\ call'[c].fed = 1 /\ call'[c].remote = "on"
            \/ /\ call'[c].fed = 0 /\ call'[c].remote = "err"
<1> DEFINE r == call[c]
<1>1. \/ r.sent = 1 /\ \E p : call'[c] = [r EXCEPT !.fed = 1, !.script = p]
      \/ call'[c] = [r EXCEPT !.remote = "err"]
  BY DEF DecodeRules, Set
<1>2. Shape(call'[c])
  BY <1>1 DEF Shape
<1>3. SamePlace(r, call'[c]) /\ SameOutput(r, call'[c])
  BY <1>1 DEF SamePlace, SameOutput, Shape, Fields
<1>4. /\ call'[c].stdin = call[c].stdin /\ call'[c].feed = call[c].feed
      /\ call'[c].sin = call[c].sin /\ call'[c].conn = call[c].conn
      /\ call'[c].sent = call[c].sent /\ call'[c].taken = call[c].taken
  BY <1>1 DEF Shape, Fields
<1>5. r.remote = "on" /\ r.op = "upload" /\ r.fed = 0 /\ UNCHANGED nodeVars
  BY DEF DecodeRules
<1>6. \/ call[c].sent = 1 /\ call'[c].fed = 1 /\ call'[c].remote = "on"
      \/ /\ call'[c].fed = 0 /\ call'[c].remote = "err"
  BY <1>1, <1>5 DEF Shape, Fields
<1> QED  BY <1>2, <1>3, <1>4, <1>5, <1>6

\* What must be so when a program ends with 0.
Ready(r) ==
  /\ r.op = "read" => r.out = Chunks
  /\ r.op = "write" => r.fed = r.sent /\ InputClosed(r)
  /\ r.op = "upload" => r.fed = 1
  /\ r.op \notin {"exec", "read", "write"} => r.script = <<>>

\* What the end of the program changes in its own call.
LEMMA RemoteExitsIs ==
  ASSUME NEW c \in Calls, Shape(call[c]), RemoteExits(c)
  PROVE  /\ Shape(call'[c]) /\ UNCHANGED nodeVars
         /\ SamePlace(call[c], call'[c]) /\ SameInput(call[c], call'[c])
         /\ SameOutput(call[c], call'[c]) /\ call'[c].conn = call[c].conn
         /\ call[c].remote = "on" /\ call'[c].remote \in {"ok", "err"}
         /\ call'[c].remote = "ok" => Ready(call[c])
         /\ call'[c].script = call[c].script /\ call'[c].targets = call[c].targets
<1> DEFINE r == call[c]
<1>1. PICK code \in Exits(r) :
        call' = [d \in Calls |->
         [call[d] EXCEPT !.remote = IF d = c THEN code ELSE @,
                         !.events = IF call[d].listen
                                      THEN Append(@, <<c, code>>) ELSE @]]
  BY DEF RemoteExits
<1>2. PICK e : call'[c] = [r EXCEPT !.remote = code, !.events = e]
  BY <1>1
<1>3. code \in {"ok", "err"}
  BY DEF Exits
<1>4. code = "ok" => Ready(r)
  BY DEF Exits, Output, Ready
<1>5. Shape(call'[c])
  BY <1>2 DEF Shape
<1>6. /\ SamePlace(r, call'[c]) /\ SameOutput(r, call'[c])
  BY <1>2 DEF SamePlace, SameOutput, Shape, Fields
<1>7. SameInput(r, call'[c])
  BY <1>2 DEF SameInput, Shape, Fields
<1>8. /\ call'[c].conn = r.conn /\ call'[c].script = r.script /\ call'[c].targets = r.targets
      /\ call'[c].remote = code
  BY <1>2 DEF Shape, Fields
<1> QED  BY <1>3, <1>4, <1>5, <1>6, <1>7, <1>8 DEF RemoteExits

\* The steps of a call of Kubernetes keep the types of its fields.
LEMMA KubeTypesStep ==
  ASSUME NEW c \in Calls, DOMAIN call = Calls, faults \in Nat, Chunks \in Nat,
         KubeRecord(call[c]), KubeAction(c)
  PROVE  (Shape(call[c]) /\ Types(call[c]))'
<1> USE DEF KubeRecord, Types, Ops, Pcs
<1>1. CASE KubeCall(c)
  BY ZenonT(60), <1>1, KubeCallIs DEF New
<1>2. CASE Connect(c)
  BY ZenonT(60), <1>2 DEF Connect, Streams, Set, nodeVars, Shape, Fields
<1>3. CASE FileMissing(c)
  BY <1>3 DEF FileMissing, Streams, Set, nodeVars, Shape, Fields
<1>4. CASE StreamEnds(c) \/ StreamBreaks(c)
  BY <1>4, StreamIs DEF SamePlace, SameInput, SameOutput, nodeVars
<1>5. CASE FeedEnds(c)
  BY <1>5 DEF FeedEnds, Set, nodeVars, Shape, Fields
<1>6. CASE CopyChunk(c)
  BY <1>6, CopyChunkIs DEF SamePlace, SameInput, SameOutput, nodeVars
<1>7. CASE CopyEnds(c)
  BY <1>7 DEF CopyEnds, Set, nodeVars, Shape, Fields
<1>8. CASE CatChunk(c)
  <2>1. Shape(call[c])'
    BY <1>8 DEF CatChunk, Set, nodeVars, Shape, Fields
  <2>2. Types(call[c])'
    BY <1>8, <2>1 DEF CatChunk, Set, nodeVars, Shape, Fields
  <2> QED  BY <2>1, <2>2
<1>9. CASE DecodeRules(c)
  BY <1>9, DecodeRulesIs DEF SamePlace, SameInput, SameOutput, nodeVars
<1>10. CASE RunCommand(c)
  <2>1. Shape(call[c])'
    BY <1>10 DEF RunCommand, Fault, Set, nodeVars, Shape, Fields
  <2>2. Types(call[c])'
    BY <1>10, <2>1 DEF RunCommand, Fault, Set, nodeVars, Shape, Fields
  <2> QED  BY <2>1, <2>2
<1>11. CASE RemoteExits(c)
  BY <1>11, RemoteExitsIs DEF SamePlace, SameInput, SameOutput, nodeVars, Ready, InputClosed
<1>12. CASE Emit(c)
  BY <1>12 DEF Emit, Set, nodeVars, Shape, Fields
<1>13. CASE CopyOutput(c)
  BY <1>13 DEF CopyOutput, Set, nodeVars, Shape, Fields
<1>14. CASE Abandon(c)
  BY <1>14 DEF Abandon, Set, nodeVars, Shape, Fields
<1> QED  BY <1>1, <1>2, <1>3, <1>4, <1>5, <1>6, <1>7, <1>8, <1>9, <1>10, <1>11,
            <1>12, <1>13, <1>14
  DEF KubeAction, KubeStep, Copier, Remote

\* They keep what is known of its place, its input and its result.
LEMMA KubeStepIs ==
  ASSUME NEW c \in Calls, DOMAIN call = Calls, faults \in Nat, Chunks \in Nat,
         KubeRecord(call[c]), KubeAction(c)
  PROVE  (KubePlace(call[c]) /\ KubeInput(call[c]) /\ KubeResult(call[c]))'
<1> USE DEF KubeRecord, Types, KubePlace, KubeInput, KubeResult, Size
<1>1. CASE KubeCall(c)
  <2>1. New(call'[c]) /\ Size(call'[c]) \in Nat
    BY <1>1, KubeCallIs
  <2>2. KubePlace(call[c])'
    BY ZenonT(60), <1>1, KubeCallIs DEF New
  <2>3. KubeInput(call[c])'
    BY <2>1 DEF New
  <2>4. KubeResult(call[c])'
    BY ZenonT(60), <1>1, KubeCallIs DEF New
  <2> QED  BY <2>2, <2>3, <2>4
<1>2. CASE Connect(c)
  BY <1>2 DEF Connect, Streams, Set, nodeVars, Shape, Fields, Output
<1>3. CASE FileMissing(c)
  BY <1>3 DEF FileMissing, Streams, Set, nodeVars, Shape, Fields, Output
<1>4. CASE StreamEnds(c) \/ StreamBreaks(c)
  BY <1>4, StreamIs DEF SamePlace, SameInput, SameOutput, nodeVars, Size
<1>5. CASE FeedEnds(c)
  BY <1>5 DEF FeedEnds, Set, nodeVars, Shape, Fields, Output
<1>6. CASE CopyChunk(c)
  BY <1>6, CopyChunkIs DEF SamePlace, SameInput, SameOutput, nodeVars, Size
<1>7. CASE CopyEnds(c)
  BY <1>7 DEF CopyEnds, Set, nodeVars, Shape, Fields, Output
<1>8. CASE CatChunk(c)
  BY <1>8 DEF CatChunk, Set, nodeVars, Shape, Fields, Output
<1>9. CASE DecodeRules(c)
  BY <1>9, DecodeRulesIs DEF SamePlace, SameInput, SameOutput, nodeVars, Size
<1>10. CASE RunCommand(c)
  BY <1>10 DEF RunCommand, Fault, Set, nodeVars, Shape, Fields, Output
<1>11. CASE RemoteExits(c)
  BY <1>11, RemoteExitsIs DEF SamePlace, SameInput, SameOutput, nodeVars, Ready, InputClosed, Size
<1>12. CASE Emit(c)
  BY <1>12 DEF Emit, Set, nodeVars, Shape, Fields, Output
<1>13. CASE CopyOutput(c)
  BY <1>13 DEF CopyOutput, Set, nodeVars, Shape, Fields, Output
<1>14. CASE Abandon(c)
  BY <1>14 DEF Abandon, Set, nodeVars, Shape, Fields, Output
<1> QED  BY <1>1, <1>2, <1>3, <1>4, <1>5, <1>6, <1>7, <1>8, <1>9, <1>10, <1>11,
            <1>12, <1>13, <1>14
  DEF KubeAction, KubeStep, Copier, Remote

-----------------------------------------------------------------------------
\* Where a call of the engine of Docker is.
DockerPlace(r) ==
  /\ r.pc # "wait" /\ r.op # "upload"
  /\ r.op = "none" <=> r.pc = "idle"
  /\ r.pc \in {"buffer", "copyTo"} => r.op = "write"
  /\ r.pc \in {"create", "attach", "start", "stdin", "event"} => r.op = "exec"
  /\ r.pc \in {"copyFrom", "read"} => r.op = "read"
  /\ r.pc \notin {"done", "read"} => r.res = "none"
  /\ r.pc = "read" <=> r.reader = "open"
  /\ r.reader # "off" => r.op = "read"
  /\ r.remote # "off" => /\ r.op \in {"exec", "read"}
                        /\ r.pc \notin {"create", "attach", "copyFrom"}

\* What has become of its input.
DockerInput(r) ==
  /\ r.op # "write" => r.feed = "off"
  /\ r.op = "write" => r.stdin \in {"eof", "error"}
  /\ r.op # "exec" => r.sin = "off"
  /\ r.pc = "event" => r.sin = "ended"
  /\ r.pc = "copyTo" => r.taken = Chunks /\ r.stdin = "eof"
  /\ r.res = "ok" => r.feed # "on" /\ r.sin # "on"

\* What its caller knows.
DockerResult(r) ==
  /\ r.reader = "eof" => r.got = Chunks
  /\ r.op = "exec" /\ r.pc = "done" =>
       /\ r.res = "ok" => r.remote = "ok"
       /\ faults = 0 /\ r.sin # "failed" => r.res \in {"ok", "err"} /\ r.remote = r.res

\* All that is known of a call of Docker.
DockerRecord(r) == Shape(r) /\ Types(r) /\ DockerPlace(r) /\ DockerInput(r) /\ DockerResult(r)

\* The events that a call has been told of.
Told(c) ==
  /\ call[c].events \in Seq(Calls \X {"ok", "err"})
  /\ \A i \in 1 .. Len(call[c].events) :
       call[call[c].events[i][1]].remote = call[c].events[i][2]

\* The steps of a call of the engine of Docker.
DockerAction(c) ==
  DockerStep(c) \/ FeedEnds(c) \/ Copier(c) \/ Remote(c) \/ Emit(c) \/ CopyOutput(c)
    \/ Abandon(c)

\* How a call begins.
LEMMA DockerCallIs ==
  ASSUME NEW c \in Calls, DOMAIN call = Calls, DockerCall(c)
  PROVE  LET x == call'[c] IN
         /\ Shape(x) /\ Types(x) /\ UNCHANGED nodeVars
         /\ x.feed = "off" /\ x.sin = "off" /\ x.remote = "off" /\ x.reader = "off"
         /\ x.events = <<>>
         /\ x.op = "write" => x.stdin \in {"eof", "error"}
         /\ \/ x.op = "write" /\ x.pc = "buffer" /\ x.res = "none"
            \/ x.op = "exec" /\ x.pc = "create" /\ x.res = "none"
            \/ x.op = "read" /\ x.pc = "copyFrom" /\ x.res = "none"
            \/ x.op \in {"disconnect", "reconnect"} /\ x.pc = "done" /\ x.res = "ok"
<1> DEFINE x == call'[c]
<1>1. \/ \E s \in {"eof", "error"} :
           x = [NoCall EXCEPT !.op = "write", !.stdin = s, !.pc = "buffer"]
      \/ \E s \in {"none", "eof", "error", "never"} :
           x = [NoCall EXCEPT !.op = "exec", !.stdin = s, !.pc = "create"]
      \/ x = [NoCall EXCEPT !.op = "read", !.pc = "copyFrom"]
      \/ x = [NoCall EXCEPT !.op = "disconnect", !.pc = "done", !.res = "ok"]
      \/ x = [NoCall EXCEPT !.op = "reconnect", !.pc = "done", !.res = "ok"]
  <2>1. PICK y \in DockerCalls : Set(c, y)
    BY DEF DockerCall
  <2>2. x = y
    BY <2>1 DEF Set
  <2> HIDE DEF x
  <2> QED  BY <2>1, <2>2, Zenon DEF DockerCalls
<1> HIDE DEF x
<1>2. Shape(x)
  BY <1>1, NoCallIs DEF Shape
<1>3. Types(x)
  BY ZenonT(60), <1>1, NoCallIs DEF Shape, Fields, Types, Ops, Pcs
<1>4. /\ x.feed = "off" /\ x.sin = "off" /\ x.remote = "off" /\ x.reader = "off"
      /\ x.events = <<>>
      /\ x.op = "write" => x.stdin \in {"eof", "error"}
  BY ZenonT(60), <1>1, NoCallIs DEF Shape, Fields
<1>5. \/ x.op = "write" /\ x.pc = "buffer" /\ x.res = "none"
      \/ x.op = "exec" /\ x.pc = "create" /\ x.res = "none"
      \/ x.op = "read" /\ x.pc = "copyFrom" /\ x.res = "none"
      \/ x.op \in {"disconnect", "reconnect"} /\ x.pc = "done" /\ x.res = "ok"
  BY ZenonT(60), <1>1, NoCallIs DEF Shape, Fields
<1> QED  BY <1>2, <1>3, <1>4, <1>5 DEF DockerCall, x

\* What a call that returns leaves.
Ended(r, x, res) ==
  /\ Shape(x) /\ SameInput(r, x) /\ x.pc = "done" /\ x.res = res
  /\ x.listen = FALSE /\ x.reader = r.reader /\ x.remote = r.remote
  /\ x.out = r.out /\ x.got = r.got /\ x.conn \in {r.conn, "closed"}
  /\ x.events = r.events

\* A return changes the place, the result and what is deferred.
LEMMA ReturnedIs ==
  ASSUME NEW r, NEW res, Shape(r)
  PROVE  Ended(r, Returned(r, res), res)
<1> DEFINE x == Returned(r, res)
<1>1. Shape(x)
  BY DEF Returned, Shape
<1>2. SameInput(r, x)
  BY DEF Returned, Shape, Fields, SameInput
<1>3. /\ x.pc = "done" /\ x.res = res
      /\ x.listen = FALSE /\ x.reader = r.reader /\ x.remote = r.remote
  BY DEF Returned, Shape, Fields
<1>4. x.out = r.out /\ x.got = r.got /\ x.conn \in {r.conn, "closed"} /\ x.events = r.events
  BY DEF Returned, Shape, Fields
<1> QED  BY <1>1, <1>2, <1>3, <1>4 DEF Ended

\* The first element of a sequence.
LEMMA HeadOfSeq ==
  ASSUME NEW S, NEW s \in Seq(S), s # <<>>
  PROVE  Head(s) = s[1] /\ s[1] \in S /\ 1 \in 1 .. Len(s)
  OBVIOUS

\* The event that a call takes tells what has become of its command.
LEMMA EventIs ==
  ASSUME NEW c \in Calls, Told(c), call[c].events # <<>>
  PROVE  LET e == Head(call[c].events)
         IN  e \in Calls \X {"ok", "err"} /\ call[e[1]].remote = e[2]
<1>1. Head(call[c].events) = call[c].events[1] /\ 1 \in 1 .. Len(call[c].events)
  BY HeadOfSeq DEF Told
<1>2. call[c].events[1] \in Calls \X {"ok", "err"}
  BY HeadOfSeq DEF Told
<1> QED  BY <1>1, <1>2 DEF Told

\* The steps by which a call returns.
Return(c) ==
  \/ RequestFails(c)
  \/ Buffer(c) /\ call[c].stdin = "error"
  \/ InputDone(c) /\ call[c].sin = "failed"
  \/ TakeEvent(c) /\ Head(call[c].events)[1] = c

\* Why a call of Docker returns, and with what.
LEMMA ReturnIs ==
  ASSUME NEW c \in Calls, DOMAIN call = Calls, Shape(call[c]), Told(c),
         Return(c)
  PROVE  \E res \in {"ok", "err"} :
           /\ Ended(call[c], call'[c], res) /\ UNCHANGED <<setup, file, kernel>>
           /\ \/ /\ call[c].pc \in {"create", "attach", "start", "event", "copyFrom"}
                 /\ res = "err" /\ faults' = faults + 1
              \/ call[c].pc = "buffer" /\ res = "err" /\ faults' = faults
              \/ /\ call[c].pc = "stdin" /\ call[c].sin = "failed"
                 /\ res = "err" /\ faults' = faults
              \/ call[c].pc = "event" /\ res = call[c].remote /\ faults' = faults
<1> DEFINE How(res) ==
             \/ /\ call[c].pc \in {"create", "attach", "start", "event", "copyFrom"}
                /\ res = "err" /\ faults' = faults + 1
             \/ call[c].pc = "buffer" /\ res = "err" /\ faults' = faults
             \/ /\ call[c].pc = "stdin" /\ call[c].sin = "failed"
                /\ res = "err" /\ faults' = faults
             \/ call[c].pc = "event" /\ res = call[c].remote /\ faults' = faults
<1>1. PICK res \in {"ok", "err"} :
        /\ Set(c, Returned(call[c], res)) /\ How(res) /\ UNCHANGED <<setup, file, kernel>>
  <2>1. CASE RequestFails(c)
    BY <2>1 DEF RequestFails, At, Fault
  <2>2. CASE Buffer(c) /\ call[c].stdin = "error"
    BY <2>2 DEF Buffer, At, Returns, nodeVars
  <2>3. CASE InputDone(c) /\ call[c].sin = "failed"
    BY <2>3 DEF InputDone, At, Returns, nodeVars
  <2>4. CASE TakeEvent(c) /\ Head(call[c].events)[1] = c
    <3> DEFINE e == Head(call[c].events)
    <3>1. call[c].events # <<>> /\ call[c].pc = "event"
      BY <2>4 DEF TakeEvent, At
    <3>2. Returns(c, e[2])
      BY <2>4 DEF TakeEvent
    <3>3. e[2] \in {"ok", "err"} /\ e[2] = call[c].remote
      BY <2>4, <3>1, EventIs
    <3> HIDE DEF e
    <3> QED  BY <3>1, <3>2, <3>3 DEF Returns, nodeVars
  <2> QED  BY <2>1, <2>2, <2>3, <2>4 DEF Return
<1>2. call'[c] = Returned(call[c], res)
  BY <1>1 DEF Set
<1>3. Ended(call[c], call'[c], res)
  BY <1>2, ReturnedIs
<1> QED  BY <1>1, <1>3

\* A Write ends.
LEMMA CopyToIs ==
  ASSUME NEW c \in Calls, DOMAIN call = Calls, Shape(call[c]), 
         CopyToContainer(c) \/ CopyToContainerFails(c)
  PROVE  LET r == call[c] x == call'[c] IN
         /\ Shape(x) /\ r.pc = "copyTo" /\ x.op = r.op /\ x.stdin = r.stdin
         /\ x.sin = r.sin /\ x.taken = r.taken /\ x.sent = r.sent /\ x.fed = r.fed
         /\ x.pc = "done"
         /\ \/ x.res = "ok" /\ x.feed = "ended" /\ CopyToContainer(c)
            \/ x.res = "err" /\ x.feed \in {"on", "ended"}
         /\ x.listen = FALSE /\ x.reader = r.reader /\ x.remote = r.remote
         /\ x.out = r.out /\ x.got = r.got /\ x.conn \in {r.conn, "closed"}
         /\ x.events = r.events
<1> DEFINE r == call[c] x == call'[c]
<1>1. PICK res \in {"ok", "err"}, feed \in {"on", "ended"} :
        /\ x = [Returned(r, res) EXCEPT !.feed = feed]
        /\ res = "ok" => CopyToContainer(c) /\ feed = "ended"
  BY DEF CopyToContainer, CopyToContainerFails, Set
<1> DEFINE h == Returned(r, res)
<1>2. /\ Shape(h) /\ SameInput(r, h) /\ h.pc = "done" /\ h.res = res
      /\ h.listen = FALSE /\ h.reader = r.reader /\ h.remote = r.remote
      /\ h.out = r.out /\ h.got = r.got /\ h.conn \in {r.conn, "closed"}
      /\ h.events = r.events
  BY ReturnedIs DEF Ended
<1> HIDE DEF h
<1>3. x = [h EXCEPT !.feed = feed]
  BY <1>1 DEF h
<1>4. Shape(x)
  BY <1>2, <1>3 DEF Shape
<1>5. /\ x.op = h.op /\ x.stdin = h.stdin /\ x.feed = feed
      /\ x.sin = h.sin /\ x.taken = h.taken /\ x.sent = h.sent /\ x.fed = h.fed
  BY <1>2, <1>3 DEF Shape, Fields
<1>6. /\ x.pc = h.pc /\ x.res = h.res /\ x.listen = h.listen /\ x.reader = h.reader
      /\ x.remote = h.remote /\ x.out = h.out /\ x.got = h.got /\ x.conn = h.conn
      /\ x.events = h.events
  BY <1>2, <1>3 DEF Shape, Fields
<1>7. r.pc = "copyTo"
  BY DEF CopyToContainer, CopyToContainerFails, At
<1> QED  BY <1>1, <1>2, <1>4, <1>5, <1>6, <1>7 DEF SameInput

\* The steps of a call of Docker keep the types of its fields.
LEMMA DockerTypesStep ==
  ASSUME NEW c \in Calls, DOMAIN call = Calls, faults \in Nat, Chunks \in Nat,
         DockerRecord(call[c]), Told(c), DockerAction(c)
  PROVE  (Shape(call[c]) /\ Types(call[c]))'
<1> USE DEF DockerRecord, Types, Ops, Pcs
<1>1. CASE DockerCall(c)
  BY <1>1, DockerCallIs DEF nodeVars
<1>2. CASE Return(c)
  <2>1. PICK res \in {"ok", "err"} :
           /\ Ended(call[c], call'[c], res)
           /\ \/ res = "err" /\ faults' = faults + 1
              \/ call[c].pc = "buffer" /\ faults' = faults
              \/ call[c].pc = "stdin" /\ call[c].sin = "failed" /\ res = "err" /\ faults' = faults
              \/ call[c].pc = "event" /\ res = call[c].remote /\ faults' = faults
           /\ call[c].pc \notin {"read", "done"}
    BY <1>2, ReturnIs
  <2> QED  BY <2>1 DEF Ended, SameInput
<1>3. CASE Buffer(c) /\ call[c].stdin # "error"
  <2>1. /\ call'[c] = [call[c] EXCEPT !.pc = "copyTo", !.feed = "on", !.taken = Chunks]
        /\ call[c].pc = "buffer" /\ UNCHANGED nodeVars
    BY <1>3 DEF Buffer, Set, At
  <2> QED  BY ZenonT(60), <2>1 DEF Shape, Fields, nodeVars
<1>4. CASE CopyToContainer(c) \/ CopyToContainerFails(c)
  BY ZenonT(60), <1>4, CopyToIs
<1>5. CASE CopyFromContainer(c)
  <2>1. Shape(call[c])'
    BY <1>5 DEF CopyFromContainer, At, Set, nodeVars, Shape, Fields
  <2>2. Types(call[c])'
    BY <1>5, <2>1 DEF CopyFromContainer, At, Set, nodeVars, Shape, Fields
  <2> QED  BY <2>1, <2>2
<1>6. CASE ReadToEnd(c)
  <2>1. Shape(call[c])'
    BY <1>6 DEF ReadToEnd, At, Set, nodeVars, Shape, Fields
  <2>2. Types(call[c])'
    BY <1>6, <2>1 DEF ReadToEnd, At, Set, nodeVars, Shape, Fields
  <2> QED  BY <2>1, <2>2
<1>7. CASE ReadBreaks(c)
  <2>1. Shape(call[c])'
    BY <1>7 DEF ReadBreaks, At, Set, nodeVars, Shape, Fields, Fault
  <2>2. Types(call[c])'
    BY <1>7, <2>1 DEF ReadBreaks, At, Set, nodeVars, Shape, Fields, Fault
  <2> QED  BY <2>1, <2>2
<1>8. CASE ExecCreate(c)
  BY <1>8 DEF ExecCreate, At, Set, nodeVars, Shape, Fields
<1>9. CASE ExecAttach(c)
  BY ZenonT(60), <1>9 DEF ExecAttach, At, Set, nodeVars, Shape, Fields
<1>10. CASE ExecStart(c)
  BY ZenonT(60), <1>10 DEF ExecStart, At, Set, nodeVars, Shape, Fields
<1>11. CASE InputDone(c) /\ call[c].sin # "failed"
  BY <1>11 DEF InputDone, Set, At, Shape, Fields, nodeVars
<1>12. CASE TakeEvent(c) /\ Head(call[c].events)[1] # c
  <2>1. call'[c] = [call[c] EXCEPT !.events = Tail(@)] /\ UNCHANGED nodeVars
    BY <1>12 DEF TakeEvent, Set
  <2> QED  BY <2>1 DEF Shape, Fields, nodeVars
<1>13. CASE FeedEnds(c)
  BY <1>13 DEF FeedEnds, Set, nodeVars, Shape, Fields
<1>14. CASE CopyChunk(c)
  BY <1>14, CopyChunkIs DEF SamePlace, SameInput, SameOutput, nodeVars
<1>15. CASE CopyEnds(c)
  BY <1>15 DEF CopyEnds, Set, nodeVars, Shape, Fields
<1>16. CASE CatChunk(c)
  BY SMTT(60), <1>16 DEF CatChunk, Set, nodeVars, Shape, Fields
<1>17. CASE DecodeRules(c)
  BY <1>17, DecodeRulesIs DEF SamePlace, SameInput, SameOutput, nodeVars
<1>18. CASE RunCommand(c)
  <2>1. Shape(call[c])'
    BY <1>18 DEF RunCommand, Set, nodeVars, Shape, Fields, Fault
  <2>2. Types(call[c])'
    BY <1>18, <2>1 DEF RunCommand, Set, nodeVars, Shape, Fields, Fault
  <2> QED  BY <2>1, <2>2
<1>19. CASE RemoteExits(c)
  BY <1>19, RemoteExitsIs DEF SamePlace, SameInput, SameOutput, nodeVars
<1>20. CASE Emit(c)
  BY <1>20 DEF Emit, Set, nodeVars, Shape, Fields
<1>21. CASE CopyOutput(c)
  BY <1>21 DEF CopyOutput, Set, nodeVars, Shape, Fields
<1>22. CASE Abandon(c)
  BY <1>22 DEF Abandon, Set, nodeVars, Shape, Fields
<1> QED
  BY <1>1, <1>2, <1>3, <1>4, <1>5, <1>6, <1>7, <1>8, <1>9, <1>10, <1>11, <1>12,
     <1>13, <1>14, <1>15, <1>16, <1>17, <1>18, <1>19, <1>20, <1>21, <1>22
  DEF DockerAction, DockerStep, Copier, Remote, Return

\* They keep what is known of its place, its input and its result.
LEMMA DockerStepIs ==
  ASSUME NEW c \in Calls, DOMAIN call = Calls, faults \in Nat, Chunks \in Nat,
         DockerRecord(call[c]), Told(c), DockerAction(c)
  PROVE  (DockerPlace(call[c]) /\ DockerInput(call[c]) /\ DockerResult(call[c]))'
<1> USE DEF DockerRecord, Types, DockerPlace, DockerInput, DockerResult, Size
<1>1. CASE DockerCall(c)
  BY <1>1, DockerCallIs DEF nodeVars
<1>2. CASE Return(c)
  <2>1. DockerPlace(call[c])'
    BY ZenonT(60), <1>2, ReturnIs DEF Ended, SameInput
  <2>2. DockerInput(call[c])'
    BY ZenonT(60), <1>2, ReturnIs DEF Ended, SameInput
  <2>3. DockerResult(call[c])'
    <3>1. PICK res \in {"ok", "err"} :
             /\ Ended(call[c], call'[c], res)
             /\ \/ res = "err" /\ faults' = faults + 1
                \/ call[c].pc = "buffer" /\ faults' = faults
                \/ /\ call[c].pc = "stdin" /\ call[c].sin = "failed"
                   /\ res = "err" /\ faults' = faults
                \/ call[c].pc = "event" /\ res = call[c].remote /\ faults' = faults
             /\ call[c].pc \notin {"read", "done"}
      BY <1>2, ReturnIs
    <3> QED  BY <3>1 DEF Ended, SameInput
  <2> QED  BY <2>1, <2>2, <2>3
<1>3. CASE Buffer(c) /\ call[c].stdin # "error"
  <2>1. /\ call'[c] = [call[c] EXCEPT !.pc = "copyTo", !.feed = "on", !.taken = Chunks]
        /\ call[c].pc = "buffer" /\ UNCHANGED nodeVars
    BY <1>3 DEF Buffer, Set, At
  <2>2. /\ call[c].op = "write" /\ call[c].stdin = "eof"
        /\ call[c].remote = "off" /\ call[c].reader = "off"
    BY <1>3, <2>1
  <2>3. DockerPlace(call[c])'
    BY <2>1, <2>2 DEF Shape, Fields
  <2>4. DockerInput(call[c])'
    BY <2>1, <2>2 DEF Shape, Fields
  <2>5. DockerResult(call[c])'
    BY <2>1, <2>2 DEF Shape, Fields
  <2> QED  BY <2>3, <2>4, <2>5
<1>4. CASE CopyToContainer(c) \/ CopyToContainerFails(c)
  BY ZenonT(60), <1>4, CopyToIs
<1>5. CASE CopyFromContainer(c)
  BY <1>5 DEF CopyFromContainer, At, Set, nodeVars, Shape, Fields
<1>6. CASE ReadToEnd(c)
  BY <1>6 DEF ReadToEnd, At, Set, nodeVars, Shape, Fields
<1>7. CASE ReadBreaks(c)
  BY <1>7 DEF ReadBreaks, At, Set, nodeVars, Shape, Fields, Fault
<1>8. CASE ExecCreate(c)
  BY <1>8 DEF ExecCreate, At, Set, nodeVars, Shape, Fields
<1>9. CASE ExecAttach(c)
  BY <1>9 DEF ExecAttach, At, Set, nodeVars, Shape, Fields
<1>10. CASE ExecStart(c)
  BY <1>10 DEF ExecStart, At, Set, nodeVars, Shape, Fields
<1>11. CASE InputDone(c) /\ call[c].sin # "failed"
  BY <1>11 DEF InputDone, Set, At, Shape, Fields, nodeVars
<1>12. CASE TakeEvent(c) /\ Head(call[c].events)[1] # c
  <2>1. call'[c] = [call[c] EXCEPT !.events = Tail(@)] /\ UNCHANGED nodeVars
    BY <1>12 DEF TakeEvent, Set
  <2> QED  BY <2>1 DEF Shape, Fields, nodeVars
<1>13. CASE FeedEnds(c)
  BY <1>13 DEF FeedEnds, Set, nodeVars, Shape, Fields
<1>14. CASE CopyChunk(c)
  BY <1>14, CopyChunkIs DEF SamePlace, SameInput, SameOutput, nodeVars
<1>15. CASE CopyEnds(c)
  BY <1>15 DEF CopyEnds, Set, nodeVars, Shape, Fields
<1>16. CASE CatChunk(c)
  BY <1>16 DEF CatChunk, Set, nodeVars, Shape, Fields
<1>17. CASE DecodeRules(c)
  BY <1>17, DecodeRulesIs DEF SamePlace, SameInput, SameOutput, nodeVars
<1>18. CASE RunCommand(c)
  BY <1>18 DEF RunCommand, Set, nodeVars, Shape, Fields, Fault
<1>19. CASE RemoteExits(c)
  BY <1>19, RemoteExitsIs DEF SamePlace, SameInput, SameOutput, nodeVars
<1>20. CASE Emit(c)
  BY <1>20 DEF Emit, Set, nodeVars, Shape, Fields
<1>21. CASE CopyOutput(c)
  BY <1>21 DEF CopyOutput, Set, nodeVars, Shape, Fields
<1>22. CASE Abandon(c)
  BY <1>22 DEF Abandon, Set, nodeVars, Shape, Fields
<1> QED
  BY <1>1, <1>2, <1>3, <1>4, <1>5, <1>6, <1>7, <1>8, <1>9, <1>10, <1>11, <1>12,
     <1>13, <1>14, <1>15, <1>16, <1>17, <1>18, <1>19, <1>20, <1>21, <1>22
  DEF DockerAction, DockerStep, Copier, Remote, Return

-----------------------------------------------------------------------------
\* The steps of a call are those of its engine.
Action(c) == KubeAction(c) \/ DockerAction(c)

\* The rest of the calls are as they were, but for the events they receive.
Apart(r, x) == x = r \/ \E e : x = [r EXCEPT !.remote = @, !.events = e]

\* Only the end of a program may change other calls.
LEMMA OnlyOwn ==
  ASSUME NEW c \in Calls, Action(c), ~RemoteExits(c)
  PROVE  \E r : Set(c, r)
<1>1. CASE KubeStep(c)
  BY <1>1 DEF KubeStep, KubeCall, KubeCallFails, KubeCallStarts, Connect, FileMissing,
              StreamEnds, StreamBreaks
<1>2. CASE DockerStep(c)
  BY <1>2
  DEF DockerStep, DockerCall, RequestFails, Buffer, CopyToContainer,
      CopyToContainerFails, CopyFromContainer, ReadToEnd, ReadBreaks, ExecCreate,
      ExecAttach, ExecStart, InputDone, TakeEvent, Returns
<1>3. CASE FeedEnds(c) \/ Copier(c) \/ Remote(c) \/ Emit(c) \/ CopyOutput(c) \/ Abandon(c)
  BY <1>3 DEF FeedEnds, Copier, CopyChunk, CopyEnds, Remote, CatChunk, DecodeRules,
              RunCommand, Emit, CopyOutput, Abandon
<1> QED  BY <1>1, <1>2, <1>3 DEF Action, KubeAction, DockerAction

\* A step of one call changes no more of the others than their events.
LEMMA OthersApart ==
  ASSUME NEW c \in Calls, DOMAIN call = Calls, Action(c)
  PROVE  /\ DOMAIN call' = Calls /\ setup' = setup /\ faults' \in {faults, faults + 1}
         /\ \A d \in Calls \ {c} : Apart(call[d], call'[d])
<1>1. CASE \E r : Set(c, r)
  <2>1. DOMAIN call' = Calls /\ \A d \in Calls \ {c} : call'[d] = call[d]
    BY <1>1 DEF Set
  <2>2. setup' = setup /\ faults' \in {faults, faults + 1}
    <3> USE DEF nodeVars, Fault
    <3>1. CASE KubeStep(c)
      BY <3>1 DEF KubeStep, KubeCall, KubeCallFails, KubeCallStarts, Connect, FileMissing,
                  StreamEnds, StreamBreaks
    <3>2. CASE DockerStep(c)
      BY <3>2
      DEF DockerStep, DockerCall, RequestFails, Buffer, CopyToContainer,
          CopyToContainerFails, CopyFromContainer, ReadToEnd, ReadBreaks, ExecCreate,
          ExecAttach, ExecStart, InputDone, TakeEvent, Returns
    <3>3. CASE FeedEnds(c) \/ Copier(c) \/ Remote(c) \/ Emit(c) \/ CopyOutput(c) \/ Abandon(c)
      BY <3>3 DEF FeedEnds, Copier, CopyChunk, CopyEnds, Remote, CatChunk, DecodeRules,
                  RunCommand, RemoteExits, Emit, CopyOutput, Abandon
    <3> QED  BY <3>1, <3>2, <3>3 DEF Action, KubeAction, DockerAction
  <2> QED  BY <2>1, <2>2 DEF Apart
<1>2. CASE RemoteExits(c)
  <2>1. PICK code :
        call' = [d \in Calls |->
         [call[d] EXCEPT !.remote = IF d = c THEN code ELSE @,
                         !.events = IF call[d].listen
                                      THEN Append(@, <<c, code>>) ELSE @]]
    BY <1>2 DEF RemoteExits
  <2>2. \A d \in Calls \ {c} :
          call'[d] = [call[d] EXCEPT !.remote = @,
                         !.events = IF call[d].listen
                                      THEN Append(@, <<c, code>>) ELSE @]
    BY <2>1
  <2> QED  BY <1>2, <2>1, <2>2 DEF Apart, RemoteExits, nodeVars
<1>3. ~RemoteExits(c) => \E r : Set(c, r)
  BY OnlyOwn
<1> QED  BY <1>1, <1>2, <1>3

\* The events apart, a call that another one leaves apart is the same.
LEMMA ApartIs ==
  ASSUME NEW r, NEW x, Shape(r), Apart(r, x)
  PROVE  /\ Shape(x) /\ SamePlace(r, x) /\ SameInput(r, x) /\ SameOutput(r, x)
         /\ x.conn = r.conn /\ x.remote = r.remote
         /\ x.script = r.script /\ x.targets = r.targets
<1>1. CASE x = r
  BY <1>1 DEF SamePlace, SameInput, SameOutput
<1>2. CASE \E e : x = [r EXCEPT !.remote = @, !.events = e]
  <2>1. Shape(x)
    BY <1>2 DEF Shape
  <2>2. SamePlace(r, x)
    BY <1>2 DEF SamePlace, Shape, Fields
  <2>3. SameInput(r, x)
    BY <1>2 DEF SameInput, Shape, Fields
  <2>4. SameOutput(r, x)
    BY <1>2 DEF SameOutput, Shape, Fields
  <2>5. /\ x.conn = r.conn /\ x.remote = r.remote
        /\ x.script = r.script /\ x.targets = r.targets
    BY <1>2 DEF Shape, Fields
  <2> QED  BY <2>1, <2>2, <2>3, <2>4, <2>5
<1> QED  BY <1>1, <1>2 DEF Apart

\* What is known of a call does not change with the steps of others.
LEMMA ApartRecord ==
  ASSUME NEW d, NEW x, Apart(call[d], x), call'[d] = x,
         faults \in Nat, faults' \in {faults, faults + 1}
  PROVE  /\ KubeRecord(call[d]) => KubeRecord(call[d])'
         /\ DockerRecord(call[d]) => DockerRecord(call[d])'
<1>1. ASSUME KubeRecord(call[d]) PROVE KubeRecord(call[d])'
  <2>1. /\ Shape(x) /\ SamePlace(call[d], x) /\ SameInput(call[d], x)
        /\ SameOutput(call[d], x)
        /\ x.conn = call[d].conn /\ x.remote = call[d].remote
    BY <1>1, ApartIs DEF KubeRecord
  <2>2. Types(x)
    BY <1>1, <2>1 DEF KubeRecord, Types, SamePlace, SameInput, SameOutput
  <2>3. KubePlace(x)
    BY <1>1, <2>1 DEF KubeRecord, KubePlace, SamePlace, SameInput
  <2>4. KubeInput(x)
    BY <1>1, <2>1 DEF KubeRecord, KubeInput, SameInput, Size
  <2>5. KubeResult(call[d])'
    BY <1>1, <2>1 DEF KubeRecord, KubeResult, SamePlace, SameInput, SameOutput
  <2> QED  BY <2>1, <2>2, <2>3, <2>4, <2>5 DEF KubeRecord
<1>2. ASSUME DockerRecord(call[d]) PROVE DockerRecord(call[d])'
  <2>1. /\ Shape(x) /\ SamePlace(call[d], x) /\ SameInput(call[d], x)
        /\ SameOutput(call[d], x)
        /\ x.conn = call[d].conn /\ x.remote = call[d].remote
    BY <1>2, ApartIs DEF DockerRecord
  <2>2. Types(x)
    BY <1>2, <2>1 DEF DockerRecord, Types, SamePlace, SameInput, SameOutput
  <2>3. DockerPlace(x)
    BY <1>2, <2>1 DEF DockerRecord, DockerPlace, SamePlace, SameInput
  <2>4. DockerInput(x)
    BY <1>2, <2>1 DEF DockerRecord, DockerInput, SameInput, SamePlace
  <2>5. DockerResult(call[d])'
    BY <1>2, <2>1 DEF DockerRecord, DockerResult, SamePlace, SameInput, SameOutput
  <2> QED  BY <2>1, <2>2, <2>3, <2>4, <2>5 DEF DockerRecord
<1> QED  BY <1>1, <1>2

\* A step is one of a call, by the engine of the round.
LEMMA StepOfEngine ==
  ASSUME Next
  PROVE  \E c \in Calls :
           /\ Action(c)
           /\ setup.engine = "kube" => KubeAction(c)
           /\ setup.engine = "docker" => DockerAction(c)
<1>1. PICK c \in Calls :
        \/ Step(c) \/ FeedEnds(c) \/ Copier(c) \/ Remote(c)
        \/ Emit(c) \/ CopyOutput(c) \/ Abandon(c)
  BY DEF Next
<1>2. KubeStep(c) => setup.engine = "kube"
  BY DEF KubeStep, KubeCall, Connect, FileMissing, StreamEnds, StreamBreaks, Streams
<1>3. DockerStep(c) => setup.engine = "docker"
  BY DEF DockerStep, DockerCall, RequestFails, Buffer, CopyToContainer, At,
         CopyToContainerFails, CopyFromContainer, ReadToEnd, ReadBreaks, ExecCreate,
         ExecAttach, ExecStart, InputDone, TakeEvent
<1> QED  BY <1>1, <1>2, <1>3 DEF Step, Action, KubeAction, DockerAction

\* Every call is a call of the engine of the round.
Calling ==
  /\ DOMAIN call = Calls /\ faults \in Nat
  /\ setup \in UploadSetups \cup OtherSetups
  /\ setup.engine = "kube" => \A c \in Calls : KubeRecord(call[c])
  /\ setup.engine = "docker" => \A c \in Calls : DockerRecord(call[c]) /\ Told(c)

\* A command that has ended has ended for good, and events come to those who
\* listen.
LEMMA DockerEvents ==
  ASSUME NEW c \in Calls, DOMAIN call = Calls, DockerRecord(call[c]), Told(c), DockerAction(c)
  PROVE  /\ call[c].remote \in {"ok", "err"} => call'[c].remote = call[c].remote
         /\ RemoteExits(c) \/ call'[c].events \in {call[c].events, Tail(call[c].events), <<>>}
<1> USE DEF DockerRecord, DockerPlace
<1>1. CASE DockerCall(c)
  BY <1>1, DockerCallIs DEF Begins, DockerCall
<1>2. CASE Return(c)
  BY <1>2, ReturnIs DEF Ended
<1>3. CASE Buffer(c) /\ call[c].stdin # "error"
  <2>1. call'[c] = [call[c] EXCEPT !.pc = "copyTo", !.feed = "on", !.taken = Chunks]
    BY <1>3 DEF Buffer, Set
  <2> QED  BY <2>1 DEF Shape, Fields
<1>4. CASE CopyToContainer(c) \/ CopyToContainerFails(c)
  BY <1>4, CopyToIs
<1>5. CASE CopyFromContainer(c)
  BY <1>5 DEF CopyFromContainer, At, Set, Shape, Fields
<1>6. CASE ReadToEnd(c)
  BY <1>6 DEF ReadToEnd, At, Set, Shape, Fields
<1>7. CASE ReadBreaks(c)
  BY <1>7 DEF ReadBreaks, At, Set, Shape, Fields
<1>8. CASE ExecCreate(c)
  BY <1>8 DEF ExecCreate, At, Set, Shape, Fields
<1>9. CASE ExecAttach(c)
  BY <1>9 DEF ExecAttach, At, Set, Shape, Fields
<1>10. CASE ExecStart(c)
  BY <1>10 DEF ExecStart, At, Set, Shape, Fields
<1>11. CASE InputDone(c) /\ call[c].sin # "failed"
  BY <1>11 DEF InputDone, At, Set, Shape, Fields
<1>12. CASE TakeEvent(c) /\ Head(call[c].events)[1] # c
  <2>1. call'[c] = [call[c] EXCEPT !.events = Tail(@)]
    BY <1>12 DEF TakeEvent, Set
  <2> QED  BY <2>1 DEF Shape, Fields
<1>13. CASE FeedEnds(c)
  BY <1>13 DEF FeedEnds, At, Set, Shape, Fields
<1>14. CASE CopyChunk(c)
  BY <1>14 DEF CopyChunk, At, Set, Shape, Fields
<1>15. CASE CopyEnds(c)
  BY <1>15 DEF CopyEnds, At, Set, Shape, Fields
<1>16. CASE CatChunk(c)
  BY <1>16 DEF CatChunk, At, Set, Shape, Fields
<1>17. CASE DecodeRules(c)
  BY <1>17 DEF DecodeRules
<1>18. CASE RunCommand(c)
  BY <1>18 DEF RunCommand, At, Set, Shape, Fields
<1>19. CASE RemoteExits(c)
  BY <1>19, RemoteExitsIs
<1>20. CASE Emit(c)
  BY <1>20 DEF Emit, At, Set, Shape, Fields
<1>21. CASE CopyOutput(c)
  BY <1>21 DEF CopyOutput, At, Set, Shape, Fields
<1>22. CASE Abandon(c)
  BY <1>22 DEF Abandon, At, Set, Shape, Fields
<1> QED
  BY <1>1, <1>2, <1>3, <1>4, <1>5, <1>6, <1>7, <1>8, <1>9, <1>10, <1>11, <1>12,
     <1>13, <1>14, <1>15, <1>16, <1>17, <1>18, <1>19, <1>20, <1>21, <1>22
  DEF DockerAction, DockerStep, Copier, Remote, Return

\* What is left of a list of events is true as long as it was.
LEMMA ToldLess ==
  ASSUME NEW S, NEW s \in Seq(S), NEW t, t \in {s, Tail(s), <<>>}
  PROVE  t \in Seq(S) /\ \A i \in 1 .. Len(t) : \E j \in 1 .. Len(s) : t[i] = s[j]
<1>1. CASE t = s
  BY <1>1
<1>2. CASE t = <<>>
  BY <1>2
<1>3. CASE t = Tail(s) /\ s # <<>>
  <2>1. t \in Seq(S) /\ Len(t) = Len(s) - 1 /\ \A i \in 1 .. Len(t) : t[i] = s[i + 1]
    BY <1>3
  <2>2. \A i \in 1 .. Len(t) : i + 1 \in 1 .. Len(s)
    BY <2>1
  <2> QED  BY <2>1, <2>2
<1>4. CASE t = Tail(s) /\ s = <<>>
  BY <1>4
<1> QED  BY <1>1, <1>2, <1>3, <1>4

\* An element of a sequence.
LEMMA ElementOf ==
  ASSUME NEW S, NEW s \in Seq(S), NEW i \in 1 .. Len(s)
  PROVE  s[i] \in S
  OBVIOUS

\* Only the end of a program makes an event.
LEMMA EventsKept ==
  ASSUME NEW c \in Calls, DOMAIN call = Calls, Action(c), ~RemoteExits(c)
  PROVE  \A d \in Calls \ {c} : call'[d] = call[d]
<1>1. \E r : Set(c, r)
  BY OnlyOwn
<1> QED  BY <1>1 DEF Set

\* Events stay true.
LEMMA ToldStep ==
  ASSUME NEW c \in Calls, DOMAIN call = Calls, DockerAction(c),
         \A d \in Calls : DockerRecord(call[d]) /\ Told(d)
  PROVE  \A d \in Calls : Told(d)'
<1> SUFFICES ASSUME NEW d \in Calls PROVE Told(d)'
  OBVIOUS
<1>1. \A e \in Calls : call[e].remote \in {"ok", "err"} => call'[e].remote = call[e].remote
  BY DockerEvents, OthersApart, ApartIs DEF Action, DockerRecord
<1>2. CASE RemoteExits(c)
  <2>1. PICK code \in Exits(call[c]) :
        call' = [e \in Calls |->
         [call[e] EXCEPT !.remote = IF e = c THEN code ELSE @,
                         !.events = IF call[e].listen
                                      THEN Append(@, <<c, code>>) ELSE @]]
    BY <1>2 DEF RemoteExits
  <2>2. /\ call'[d].events = IF call[d].listen THEN Append(call[d].events, <<c, code>>)
                                              ELSE call[d].events
        /\ call'[c].remote = code
    BY <2>1 DEF DockerRecord, Shape, Fields
  <2>3. code \in {"ok", "err"}
    BY DEF Exits
  <2> DEFINE old == call[d].events
             new == call'[d].events
  <2>4. /\ new \in Seq(Calls \X {"ok", "err"})
        /\ \A i \in 1 .. Len(new) : new[i] = <<c, code>> \/ \E j \in 1 .. Len(old) : new[i] = old[j]
    <3>1. old \in Seq(Calls \X {"ok", "err"}) /\ <<c, code>> \in Calls \X {"ok", "err"}
      BY <2>3 DEF Told
    <3>2. new = old \/ new = Append(old, <<c, code>>)
      BY <2>2
    <3> HIDE DEF old, new
    <3> DEFINE p == <<c, code>>
    <3> HIDE DEF p
    <3>3. CASE new = Append(old, p)
      BY <3>1, <3>3 DEF p
    <3> QED  BY <3>1, <3>2, <3>3 DEF p
  <2>5. \A j \in 1 .. Len(old) : /\ old[j] \in Calls \X {"ok", "err"}
                                 /\ call[old[j][1]].remote = old[j][2]
    BY ElementOf DEF Told
  <2> HIDE DEF old, new
  <2>6. \A j \in 1 .. Len(old) : call'[old[j][1]].remote = old[j][2]
    BY <1>1, <2>5
  <2>7. \A i \in 1 .. Len(new) : call'[new[i][1]].remote = new[i][2]
    BY <2>2, <2>4, <2>6
  <2> QED  BY <2>4, <2>7 DEF Told, new
<1>3. CASE ~RemoteExits(c)
  <2> DEFINE old == call[d].events
             new == call'[d].events
  <2>1. new \in {old, Tail(old), <<>>}
    <3>1. CASE d = c
      BY <1>3, <3>1, DockerEvents
    <3>2. CASE d # c
      BY <1>3, <3>2, EventsKept DEF Action
    <3> QED  BY <3>1, <3>2
  <2>2. /\ new \in Seq(Calls \X {"ok", "err"})
        /\ \A i \in 1 .. Len(new) : \E j \in 1 .. Len(old) : new[i] = old[j]
    <3>1. old \in Seq(Calls \X {"ok", "err"})
      BY DEF Told
    <3> HIDE DEF old, new
    <3> QED  BY <2>1, <3>1, ToldLess
  <2>3. \A j \in 1 .. Len(old) : /\ old[j] \in Calls \X {"ok", "err"}
                                 /\ call[old[j][1]].remote = old[j][2]
    BY ElementOf DEF Told
  <2> HIDE DEF old, new
  <2>4. \A j \in 1 .. Len(old) : call'[old[j][1]].remote = old[j][2]
    BY <1>1, <2>3
  <2> QED  BY <2>2, <2>4 DEF Told, new
<1> QED  BY <1>2, <1>3

\* Nothing is called at first.
LEMMA InitCalling == Init => Calling
<1> SUFFICES ASSUME Init PROVE Calling
  OBVIOUS
<1>1. \A c \in Calls : call[c] = NoCall
  BY DEF Init
<1>2. KubeRecord(NoCall)
  <2>1. Size(NoCall) \in Nat
    BY NodeAssumption, NoCallIs DEF Size
  <2> QED  BY <2>1, NoCallIs DEF KubeRecord, KubePlace, KubeInput, KubeResult
<1>3. DockerRecord(NoCall)
  BY NoCallIs DEF DockerRecord, DockerPlace, DockerInput, DockerResult
<1>4. \A c \in Calls : Told(c)
  <2> SUFFICES ASSUME NEW c \in Calls PROVE Told(c)
    OBVIOUS
  <2>1. call[c].events = <<>>
    BY <1>1, NoCallIs
  <2>2. Len(call[c].events) = 0 /\ call[c].events \in Seq(Calls \X {"ok", "err"})
    BY <2>1
  <2> QED  BY <2>2 DEF Told
<1> QED  BY <1>1, <1>2, <1>3, <1>4 DEF Init, Calling

\* No step makes a call anything else.
LEMMA NextCalling == Calling /\ [Next]_vars => Calling'
<1> SUFFICES ASSUME Calling, [Next]_vars PROVE Calling'
  OBVIOUS
<1>1. CASE Next
  <2>1. PICK c \in Calls : /\ Action(c)
                           /\ setup.engine = "kube" => KubeAction(c)
                           /\ setup.engine = "docker" => DockerAction(c)
    BY <1>1, StepOfEngine
  <2>2. /\ DOMAIN call' = Calls /\ setup' = setup /\ faults' \in {faults, faults + 1}
        /\ \A d \in Calls \ {c} : Apart(call[d], call'[d])
    BY <2>1, OthersApart DEF Calling
  <2>3. ASSUME setup.engine = "kube", NEW d \in Calls PROVE KubeRecord(call[d])'
    <3>0. /\ KubeRecord(call[d]) /\ KubeAction(c)
          /\ faults \in Nat /\ Chunks \in Nat /\ DOMAIN call = Calls
      BY <2>1, <2>3, NodeAssumption DEF Calling
    <3>1. CASE d = c
      BY <3>0, <3>1, KubeTypesStep, KubeStepIs
      DEF KubeRecord
    <3>2. CASE d # c
      BY <2>2, <3>0, <3>2, ApartRecord
    <3> QED  BY <3>1, <3>2
  <2>4. ASSUME setup.engine = "docker", NEW d \in Calls PROVE DockerRecord(call[d])' /\ Told(d)'
    <3>0. /\ DockerRecord(call[d]) /\ Told(d) /\ DockerAction(c)
          /\ faults \in Nat /\ Chunks \in Nat /\ DOMAIN call = Calls
      BY <2>1, <2>4, NodeAssumption DEF Calling
    <3>1. d = c => DockerRecord(call[d])'
      BY <3>0, DockerTypesStep, DockerStepIs
      DEF DockerRecord
    <3>2. d # c => DockerRecord(call[d])'
      BY <2>2, <3>0, ApartRecord
    <3>3. Told(d)'
      BY <2>1, <2>4, ToldStep DEF Calling
    <3> QED  BY <3>1, <3>2, <3>3
  <2> QED  BY <2>2, <2>3, <2>4 DEF Calling
<1>2. CASE UNCHANGED vars
  BY <1>2
  DEF vars, Calling, KubeRecord, DockerRecord, Told, KubeResult, DockerResult
<1> QED  BY <1>1, <1>2

\* A call is what it is in all states.
LEMMA CallingInvariance == Spec => []Calling
BY InitCalling, NextCalling, PTL DEF Spec

\* A round is one of Kubernetes or one of Docker.
LEMMA Engines == Calling => setup.engine \in {"kube", "docker"}
BY DEF Calling, UploadSetups, OtherSetups, Setup

\* A reader that Read returned, of either engine, comes to its end without an
\* error only when it has had the whole file, whatever fails in between.
THEOREM ReadsWhole == Spec => []ReadWhole
<1>1. Calling => ReadWhole
  BY Engines DEF Calling, KubeRecord, KubeResult, DockerRecord, DockerResult, ReadWhole
<1> QED  BY <1>1, CallingInvariance, PTL

\* Exec of either engine reports the end of its own command and of no other.
THEOREM ExecIsRight == Spec => []ExecReports
<1>1. Calling => ExecReports
  BY Engines DEF Calling, KubeRecord, KubeResult, DockerRecord, DockerResult, ExecReports
<1> QED  BY <1>1, CallingInvariance, PTL

\* A call that succeeds leaves no goroutine blocked on the input it was given,
\* that of an Exec or an upload of Kubernetes apart.
THEOREM NothingLeft == Spec => []SuccessLeavesNothing
<1>1. Calling => SuccessLeavesNothing
  <2> SUFFICES ASSUME Calling, NEW c \in Calls, call[c].res = "ok"
               PROVE  /\ call[c].feed = "on" => call[c].taken = Size(call[c])
                      /\ call[c].sin = "on" =>
                           setup.engine = "kube" /\ call[c].op \in {"upload", "exec"}
    BY DEF SuccessLeavesNothing
  <2>1. CASE setup.engine = "kube"
    <3>1. KubeRecord(call[c])
      BY <2>1 DEF Calling
    <3>2. call[c].feed = "on" => call[c].taken = Size(call[c])
      <4>1. call[c].feed = "on" => call[c].op = "upload" /\ call[c].fed = 1
        BY <3>1 DEF KubeRecord, KubeInput, KubeResult
      <4> QED  BY <3>1, <4>1 DEF KubeRecord, KubeInput, Types, Size
    <3>3. call[c].sin = "on" => call[c].op \in {"upload", "exec"}
      BY <3>1 DEF KubeRecord, KubeInput, KubeResult
    <3> QED  BY <2>1, <3>2, <3>3
  <2>2. CASE setup.engine = "docker"
    BY <2>2 DEF Calling, DockerRecord, DockerInput
  <2> QED  BY <2>1, <2>2, Engines
<1> QED  BY <1>1, CallingInvariance, PTL

-----------------------------------------------------------------------------
\* The chunks that a Write of Kubernetes has put in the file.
Fed(r) == IF r.op = "write" THEN r.fed ELSE 0

\* The file holds, of each Write of Kubernetes, as many chunks as cat has taken.
Filed ==
  setup.engine = "kube" =>
    /\ file \in Seq(Calls \X Nat)
    /\ \A c \in Calls : Holds(file, c, Fed(call[c]))

\* Only cat writes the file.
LEMMA FedKept ==
  ASSUME NEW c \in Calls, DOMAIN call = Calls, KubeRecord(call[c]), KubeAction(c), ~CatChunk(c)
  PROVE  file' = file /\ Fed(call'[c]) = Fed(call[c])
<1> USE DEF KubeRecord, Fed
<1>1. CASE KubeCall(c)
  BY <1>1, KubeCallIs DEF New, KubeCall, KubeCallFails, KubeCallStarts, nodeVars, Begins
<1>2. CASE Connect(c)
  BY <1>2 DEF Connect, Streams, Set, nodeVars, Shape, Fields
<1>3. CASE FileMissing(c)
  BY <1>3 DEF FileMissing, Streams, Set, nodeVars, Shape, Fields
<1>4. CASE StreamEnds(c) \/ StreamBreaks(c)
  BY <1>4, StreamIs DEF SamePlace, SameInput, nodeVars
<1>5. CASE FeedEnds(c)
  BY <1>5 DEF FeedEnds, Set, nodeVars, Shape, Fields
<1>6. CASE CopyChunk(c)
  BY <1>6, CopyChunkIs DEF SamePlace, SameInput, nodeVars
<1>7. CASE CopyEnds(c)
  BY <1>7 DEF CopyEnds, Set, nodeVars, Shape, Fields
<1>8. CASE DecodeRules(c)
  BY <1>8, DecodeRulesIs DEF SamePlace, SameInput, nodeVars
<1>9. CASE RunCommand(c)
  BY <1>9 DEF RunCommand, Set, nodeVars, Shape, Fields
<1>10. CASE RemoteExits(c)
  BY <1>10, RemoteExitsIs DEF SamePlace, SameInput, nodeVars
<1>11. CASE Emit(c)
  BY <1>11 DEF Emit, Set, nodeVars, Shape, Fields
<1>12. CASE CopyOutput(c)
  BY <1>12 DEF CopyOutput, Set, nodeVars, Shape, Fields
<1>13. CASE Abandon(c)
  BY <1>13 DEF Abandon, Set, nodeVars, Shape, Fields
<1> QED
  BY <1>1, <1>2, <1>3, <1>4, <1>5, <1>6, <1>7, <1>8, <1>9, <1>10, <1>11, <1>12,
     <1>13
  DEF KubeAction, KubeStep, Copier, Remote

\* The next chunk of a call comes after the others.
LEMMA HoldsAppend ==
  ASSUME NEW f \in Seq(Calls \X Nat), NEW c \in Calls, NEW d \in Calls, NEW n \in Nat,
         NEW m \in Nat, Holds(f, d, n), d = c => m = n
  PROVE  Holds(Append(f, <<c, m + 1>>), d, IF d = c THEN n + 1 ELSE n)
<1> DEFINE e == <<c, m + 1>>
           g == Append(f, e)
           L == Len(f)
           Own(h) == {k \in DOMAIN h : h[k][1] = d}
<1>1. e \in Calls \X Nat /\ e[1] = c /\ e[2] = m + 1
  OBVIOUS
<1> HIDE DEF e
<1>2. /\ DOMAIN f = 1 .. L /\ L \in Nat /\ DOMAIN g = 1 .. L + 1
      /\ \A k \in 1 .. L : g[k] = f[k]
      /\ g[L + 1] = e
  BY <1>1
<1> HIDE DEF g, L
<1>3. Own(g) = IF d = c THEN Own(f) \cup {L + 1} ELSE Own(f)
  <2>1. \A k : k \in 1 .. L + 1 <=> k \in 1 .. L \/ k = L + 1
    BY <1>2
  <2>2. L + 1 \notin 1 .. L
    BY <1>2
  <2> QED  BY <1>1, <1>2, <2>1, <2>2
<1>4. /\ {f[k][2] : k \in Own(f)} = 1 .. n
      /\ \A j, k \in Own(f) : j < k => f[j][2] < f[k][2]
  BY DEF Holds
<1>5. \A k \in Own(f) : g[k] = f[k] /\ k \in 1 .. L /\ f[k][2] \in 1 .. n
  BY <1>2, <1>4
<1>6. CASE d # c
  <2>1. {g[k][2] : k \in Own(g)} = 1 .. n
    BY <1>3, <1>4, <1>5, <1>6
  <2>2. \A j, k \in Own(g) : j < k => g[j][2] < g[k][2]
    BY <1>3, <1>4, <1>5, <1>6
  <2> QED  BY <1>6, <2>1, <2>2 DEF Holds, g, e
<1>7. CASE d = c
  <2>1. {g[k][2] : k \in Own(g)} = {f[k][2] : k \in Own(f)} \cup {n + 1}
    BY <1>1, <1>2, <1>3, <1>5, <1>7
  <2>2. (1 .. n) \cup {n + 1} = 1 .. n + 1
    OBVIOUS
  <2>3. ASSUME NEW j \in Own(g), NEW k \in Own(g), j < k PROVE g[j][2] < g[k][2]
    <3>1. j \in Own(f)
      BY <1>2, <1>3, <1>5, <1>7, <2>3
    <3>2. CASE k = L + 1
      BY <1>1, <1>2, <1>5, <1>7, <3>1, <3>2
    <3>3. CASE k \in Own(f)
      BY <1>4, <1>5, <2>3, <3>1, <3>3
    <3> QED  BY <1>3, <1>7, <3>2, <3>3
  <2> QED  BY <1>4, <1>7, <2>1, <2>2, <2>3 DEF Holds, g, e
<1> QED  BY <1>6, <1>7

\* No step adds a chunk to the file out of its order.
LEMMA NextFiled == Calling /\ Filed /\ [Next]_vars => Filed'
<1> SUFFICES ASSUME Calling, Filed, [Next]_vars PROVE Filed'
  OBVIOUS
<1>1. CASE Next /\ setup.engine = "kube"
  <2>1. PICK c \in Calls : Action(c) /\ KubeAction(c)
    BY <1>1, StepOfEngine
  <2>2. /\ DOMAIN call = Calls /\ \A d \in Calls : KubeRecord(call[d])
        /\ setup' = setup /\ \A d \in Calls \ {c} : Apart(call[d], call'[d])
    BY <1>1, <2>1, OthersApart DEF Calling
  <2>3. \A d \in Calls \ {c} : Fed(call'[d]) = Fed(call[d])
    BY <2>2, ApartIs DEF KubeRecord, SameInput, Fed
  <2>4. CASE ~CatChunk(c)
    BY <1>1, <2>1, <2>2, <2>3, <2>4, FedKept DEF Filed
  <2>5. CASE CatChunk(c)
    <3>1. /\ file' = Append(file, <<c, call[c].fed + 1>>) /\ call[c].op = "write"
          /\ call'[c] = [call[c] EXCEPT !.fed = @ + 1]
      BY <2>2, <2>5 DEF CatChunk, Set
    <3>2. Fed(call[c]) = call[c].fed /\ Fed(call'[c]) = call[c].fed + 1
      BY <2>2, <3>1 DEF KubeRecord, Shape, Fields, Fed
    <3>3. \A d \in Calls : Fed(call[d]) \in Nat
      BY <2>2 DEF KubeRecord, Types, Fed
    <3>4. file \in Seq(Calls \X Nat) /\ \A d \in Calls : Holds(file, d, Fed(call[d]))
      BY <1>1 DEF Filed
    <3>5. \A d \in Calls : Holds(file', d, IF d = c THEN Fed(call[d]) + 1 ELSE Fed(call[d]))
      BY <3>1, <3>2, <3>3, <3>4, HoldsAppend
    <3>6. \A d \in Calls : Holds(file', d, Fed(call'[d]))
      BY <2>3, <3>2, <3>5
    <3>7. file' \in Seq(Calls \X Nat)
      <4>1. <<c, call[c].fed + 1>> \in Calls \X Nat
        BY <3>2, <3>3
      <4> QED  BY <3>1, <3>4, <4>1
    <3> QED  BY <3>6, <3>7 DEF Filed
  <2> QED  BY <2>4, <2>5
<1>2. CASE Next /\ setup.engine # "kube"
  <2>1. setup' = setup
    BY <1>2, StepOfEngine, OthersApart DEF Calling
  <2> QED  BY <1>2, <2>1 DEF Filed
<1>3. CASE UNCHANGED vars
  BY <1>3 DEF vars, Filed
<1> QED  BY <1>1, <1>2, <1>3

\* A call of Kubernetes that finishes has had the result of its program.
LEMMA KubeFinishes ==
  ASSUME NEW c \in Calls, DOMAIN call = Calls, KubeRecord(call[c]), KubeAction(c),
         Finishes(c), call[c].op # "none"
  PROVE  /\ call[c].pc = "wait" /\ call[c].remote = "ok" /\ call[c].conn = "up"
         /\ file' = file /\ kernel' = kernel
<1> USE DEF KubeRecord, Finishes
<1>1. CASE KubeCall(c)
  BY <1>1 DEF KubeCall, Begins
<1>2. CASE Connect(c)
  BY <1>2 DEF Connect, Streams, Set, nodeVars, Shape, Fields
<1>3. CASE FileMissing(c)
  BY <1>3 DEF FileMissing, Streams, Set, nodeVars, Shape, Fields
<1>4. CASE StreamEnds(c) \/ StreamBreaks(c)
  BY <1>4, StreamIs DEF KubePlace, Types
<1>5. CASE FeedEnds(c)
  BY <1>5 DEF FeedEnds, Set, nodeVars, Shape, Fields
<1>6. CASE CopyChunk(c)
  BY <1>6, CopyChunkIs DEF SamePlace, SameInput, nodeVars
<1>7. CASE CopyEnds(c)
  BY <1>7 DEF CopyEnds, Set, nodeVars, Shape, Fields
<1>8. CASE CatChunk(c)
  BY <1>8 DEF CatChunk, Set, nodeVars, Shape, Fields
<1>9. CASE DecodeRules(c)
  BY <1>9, DecodeRulesIs DEF SamePlace, SameInput, nodeVars
<1>10. CASE RunCommand(c)
  BY <1>10 DEF RunCommand, Set, nodeVars, Shape, Fields
<1>11. CASE RemoteExits(c)
  BY <1>11, RemoteExitsIs DEF SamePlace, SameInput, nodeVars
<1>12. CASE Emit(c)
  BY <1>12 DEF Emit, Set, nodeVars, Shape, Fields
<1>13. CASE CopyOutput(c)
  BY <1>13 DEF CopyOutput, Set, nodeVars, Shape, Fields
<1>14. CASE Abandon(c)
  BY <1>14 DEF Abandon, Set, nodeVars, Shape, Fields
<1> QED
  BY <1>1, <1>2, <1>3, <1>4, <1>5, <1>6, <1>7, <1>8, <1>9, <1>10, <1>11, <1>12,
     <1>13, <1>14
  DEF KubeAction, KubeStep, Copier, Remote

\* A Write of Docker that finishes has replaced the file.
LEMMA DockerFinishes ==
  ASSUME NEW c \in Calls, DOMAIN call = Calls, DockerRecord(call[c]), Told(c), DockerAction(c),
         Finishes(c), call[c].op = "write"
  PROVE  file' = Content(c, Chunks) /\ call[c].pc = "copyTo"
<1> USE DEF DockerRecord, DockerPlace, Finishes
<1>1. CASE DockerCall(c)
  BY <1>1 DEF Begins, DockerCall
<1>2. CASE Return(c)
  BY <1>2, ReturnIs DEF Ended
<1>3. CASE Buffer(c) /\ call[c].stdin # "error"
  <2>1. call'[c] = [call[c] EXCEPT !.pc = "copyTo", !.feed = "on", !.taken = Chunks]
    BY <1>3 DEF Buffer, Set
  <2> QED  BY <2>1 DEF Shape, Fields
<1>4. CASE CopyToContainer(c) \/ CopyToContainerFails(c)
  BY <1>4, CopyToIs DEF CopyToContainer
<1>5. CASE CopyFromContainer(c)
  BY <1>5 DEF CopyFromContainer, At
<1>6. CASE ReadToEnd(c)
  BY <1>6 DEF ReadToEnd, At
<1>7. CASE ReadBreaks(c)
  BY <1>7 DEF ReadBreaks, At
<1>8. CASE ExecCreate(c)
  BY <1>8 DEF ExecCreate, At
<1>9. CASE ExecAttach(c)
  BY <1>9 DEF ExecAttach, At
<1>10. CASE ExecStart(c)
  BY <1>10 DEF ExecStart, At
<1>11. CASE InputDone(c) /\ call[c].sin # "failed"
  BY <1>11 DEF InputDone, At
<1>12. CASE TakeEvent(c) /\ Head(call[c].events)[1] # c
  BY <1>12 DEF TakeEvent, At
<1>13. CASE FeedEnds(c)
  BY <1>13 DEF FeedEnds, At, Set, Shape, Fields
<1>14. CASE CopyChunk(c)
  BY <1>14, CopyChunkIs DEF SamePlace
<1>15. CASE CopyEnds(c)
  BY <1>15 DEF CopyEnds, At, Set, Shape, Fields
<1>16. CASE CatChunk(c)
  BY <1>16 DEF CatChunk, At, Set, Shape, Fields
<1>17. CASE DecodeRules(c)
  BY <1>17, DecodeRulesIs DEF SamePlace
<1>18. CASE RunCommand(c)
  BY <1>18 DEF RunCommand, At, Set, Shape, Fields
<1>19. CASE RemoteExits(c)
  BY <1>19, RemoteExitsIs DEF SamePlace
<1>20. CASE Emit(c)
  BY <1>20 DEF Emit, At, Set, Shape, Fields
<1>21. CASE CopyOutput(c)
  BY <1>21 DEF CopyOutput, At, Set, Shape, Fields
<1>22. CASE Abandon(c)
  BY <1>22 DEF Abandon, At, Set, Shape, Fields
<1> QED
  BY <1>1, <1>2, <1>3, <1>4, <1>5, <1>6, <1>7, <1>8, <1>9, <1>10, <1>11, <1>12,
     <1>13, <1>14, <1>15, <1>16, <1>17, <1>18, <1>19, <1>20, <1>21, <1>22
  DEF DockerAction, DockerStep, Copier, Remote, Return

\* A Write of either engine that succeeds has put in the file all that was read
\* of its content, in order and once, also when an earlier one still writes to
\* it; and a content whose reader does not fail has been read to its end.
THEOREM WritesWhole == Spec => WriteWhole
<1>1. Init => Filed
  <2> SUFFICES ASSUME Init PROVE Filed
    OBVIOUS
  <2>1. file \in Seq(Calls \X Nat) /\ DOMAIN file = {}
    BY DEF Init
  <2>2. \A c \in Calls : Fed(call[c]) = 0
    BY NoCallIs DEF Init, Fed
  <2> QED  BY <2>1, <2>2 DEF Filed, Holds
<1>2. ASSUME Calling, Filed, [Next]_vars, NEW c \in Calls,
             Finishes(c), call[c].op = "write"
      PROVE  /\ Holds(file', c, call[c].taken)
             /\ call[c].stdin = "eof" => call[c].taken = Chunks
  <2>1. Next
    <3>1. CASE UNCHANGED vars
      BY <1>2, <3>1 DEF vars, Finishes
    <3> QED  BY <1>2, <3>1
  <2>2. PICK d \in Calls : /\ Action(d)
                           /\ setup.engine = "kube" => KubeAction(d)
                           /\ setup.engine = "docker" => DockerAction(d)
    BY <2>1, StepOfEngine
  <2>3. c = d
    <3>1. c # d => Apart(call[c], call'[c]) /\ Shape(call[c])
      BY <1>2, <2>2, OthersApart, Engines DEF Calling, KubeRecord, DockerRecord
    <3> QED  BY <1>2, <3>1, ApartIs DEF Finishes, SamePlace
  <2>4. CASE setup.engine = "kube"
    <3>1. KubeRecord(call[c]) /\ KubeAction(c) /\ DOMAIN call = Calls
      BY <1>2, <2>2, <2>3, <2>4 DEF Calling
    <3>2. call[c].pc = "wait" /\ call[c].remote = "ok" /\ call[c].conn = "up" /\ file' = file
      BY <1>2, <3>1, KubeFinishes
    <3>3. /\ call[c].fed = call[c].sent /\ call[c].sent = call[c].taken
          /\ call[c].feed = "ended"
      BY <1>2, <3>1, <3>2 DEF KubeRecord, KubeInput
    <3>4. call[c].stdin = "eof" => call[c].taken = Chunks
      BY <1>2, <3>1, <3>3 DEF KubeRecord, KubeInput, Size
    <3> QED  BY <1>2, <2>4, <3>2, <3>3, <3>4 DEF Filed, Fed
  <2>5. CASE setup.engine = "docker"
    <3>1. file' = Content(c, Chunks) /\ call[c].taken = Chunks
      BY <1>2, <2>2, <2>3, <2>5, DockerFinishes DEF Calling, DockerRecord, DockerInput
    <3>2. /\ DOMAIN file' = 1 .. Chunks
          /\ \A k \in 1 .. Chunks : file'[k] = <<c, k>>
      BY <3>1 DEF Content
    <3>3. \A k \in 1 .. Chunks : file'[k][1] = c /\ file'[k][2] = k
      BY <3>2
    <3> QED  BY <3>1, <3>2, <3>3 DEF Holds
  <2> QED  BY <1>2, <2>4, <2>5, Engines
<1>3. Calling /\ Filed /\ [Next]_vars =>
        (\A c \in Calls : Finishes(c) /\ call[c].op = "write" =>
           /\ Holds(file', c, call[c].taken)
           /\ call[c].stdin = "eof" => call[c].taken = Chunks)
  BY <1>2
<1> QED  BY <1>1, <1>3, NextFiled, CallingInvariance, PTL DEF Spec, WriteWhole

-----------------------------------------------------------------------------
\* The rules that may cut a node off.
CutRules == {[do |-> "drop", ip |-> setup.ip[n]] : n \in DOMAIN setup.ip}

\* What the rules of a cut or of a repair still have to do.
Cutting(c) ==
  LET r       == call[c]
      running == r.pc = "wait" /\ Undisturbed(c)
  IN  /\ r.op = "disconnect" =>
           /\ r.targets \in Seq(Nat) /\ r.script \in Seq(CutRules)
           /\ \A i \in 1 .. Len(r.targets) :
                LET ip == setup.ip[r.targets[i]]
                IN  \/ \E j \in 1 .. Len(r.script) : r.script[j].ip = ip
                    \/ running => ip \in kernel.drops
      /\ r.op = "reconnect" =>
           \/ r.script = Flush
           \/ r.script = <<>> /\ (running => kernel.drops = {})
      /\ r.op \in CutOps /\ r.remote = "ok" => r.script = <<>>

\* A call is made when the others have returned.
InTurn ==
  \A c, d \in Calls : c < d /\ call[d].op # "none" => call[c].pc = "done"

\* What holds of a round that cuts nodes off and brings them back.
CutInv ==
  setup.engine = "kube" =>
    /\ \A c \in Calls : call[c].op \in setup.ops \cup {"none"}
    /\ setup.ops = CutOps =>
         InTurn /\ "drops" \in DOMAIN kernel /\ \A c \in Calls : Cutting(c)

\* The operations of a round that cuts.
LEMMA OpsOfSetup ==
  ASSUME Calling, setup.engine = "kube"
  PROVE  /\ setup.ops = CutOps \/ setup.ops \cap CutOps = {}
         /\ "none" \notin setup.ops
         /\ setup.ops = CutOps => setup.topo.kind = "cloud" /\ setup.topo.n = 3
<1>1. \/ \E t, n, l, m : setup = Setup("kube", {"upload"}, t, n, l, m)
      \/ \E m : setup = Setup("kube", CutOps, [kind |-> "cloud", n |-> 3], 0, <<>>, m)
      \/ \E m : setup = Setup("kube", IOOps, [kind |-> "cloud", n |-> 3], 0, <<>>, m)
  <2>1. CASE setup \in UploadSetups
    BY <2>1 DEF UploadSetups
  <2>2. CASE setup \in OtherSetups
    <3> DEFINE t == [kind |-> "cloud", n |-> 3]
    <3>1. setup # Setup("docker", IOOps \cup CutOps, t, 0, <<>>, Known(t))
      BY DEF Setup
    <3> QED  BY <2>2, <3>1 DEF OtherSetups
  <2> QED  BY <2>1, <2>2 DEF Calling
<1>2. CutOps # {"upload"} /\ {"upload"} \cap CutOps = {} /\ CutOps # IOOps /\ IOOps \cap CutOps = {}
  BY DEF CutOps, IOOps
<1>3. "none" \notin {"upload"} \cup CutOps \cup IOOps
  BY DEF CutOps, IOOps
<1> QED  BY <1>1, <1>2, <1>3 DEF Setup

\* A finite set of nodes can be listed.
LEMMA ListOf ==
  ASSUME NEW S \in SUBSET (0 .. 2)
  PROVE  SetToSeq(S) \in Seq(S)
<1>1. IsFiniteSet(S)
  <2>1. IsFiniteSet(0 .. 2)
    <3>1. 0 \in Int /\ 2 \in Int
      OBVIOUS
    <3> QED  BY <3>1, FS_Interval, Zenon
  <2> QED  BY <2>1, FS_Subset
<1>2. Cardinality(S) \in Nat /\ ExistsBijection(1 .. Cardinality(S), S)
  BY <1>1, FS_CardinalityType
<1>3. \E f \in [1 .. Cardinality(S) -> S] : IsInjective(f)
  BY <1>2 DEF ExistsBijection, Bijection, Injection, IsInjective
<1>4. SetToSeq(S) \in [1 .. Cardinality(S) -> S]
  BY <1>3 DEF SetToSeq
<1> QED  BY <1>2, <1>4

\* A call of a round that cuts.
LEMMA CutCallIs ==
  ASSUME NEW c \in Calls, DOMAIN call = Calls, KubeCall(c), setup.ops = CutOps,
         setup.topo.kind = "cloud", setup.topo.n = 3
  PROVE  /\ call'[c].op \in CutOps /\ call'[c].remote = "off" /\ call'[c].conn = "off"
         /\ call'[c].op = "reconnect" => call'[c].script = Flush
         /\ call'[c].op = "disconnect" =>
              LET t == call'[c].targets
                  s == call'[c].script
              IN  /\ t \in Seq(Nat) /\ s \in Seq(CutRules)
                  /\ \A i \in 1 .. Len(t) :
                       \E j \in 1 .. Len(s) : s[j].ip = setup.ip[t[i]]
<1>1. PICK x \in KubeCalls : /\ x.op \in CutOps
                             /\ KubeCallFails(c, x) \/ KubeCallStarts(c, x)
  BY DEF KubeCall
<1>2. New(x)
  BY KubeCallsAre
<1>3. \/ call'[c] = [x EXCEPT !.pc = "done", !.res = "err"]
      \/ call'[c] = [x EXCEPT !.pc = "read", !.res = "ok", !.reader = "open"]
      \/ call'[c] = [x EXCEPT !.pc = "wait"]
  BY <1>1 DEF KubeCallFails, KubeCallStarts, Set
<1>4. /\ call'[c].op = x.op /\ call'[c].remote = x.remote /\ call'[c].conn = x.conn
      /\ call'[c].script = x.script /\ call'[c].targets = x.targets
  BY <1>2, <1>3 DEF New, Shape, Fields
<1>5. \/ x = [NoCall EXCEPT !.op = "reconnect", !.script = Flush]
      \/ \E s \in SUBSET (Nodes(setup.topo) \cap DOMAIN setup.ip) :
           x = [NoCall EXCEPT !.op = "disconnect", !.targets = SetToSeq(s),
                              !.script = Drops(SetToSeq(s))]
  <2>1. \A s : /\ [NoCall EXCEPT !.op = "write", !.stdin = s, !.feed = "on"].op = "write"
               /\ [NoCall EXCEPT !.op = "upload", !.stdin = s, !.feed = "on"].op = "upload"
               /\ [NoCall EXCEPT !.op = "exec", !.stdin = s].op = "exec"
               /\ [NoCall EXCEPT !.op = "read"].op = "read"
    BY NoCallIs DEF Shape, Fields
  <2>2. \/ \E s \in {"eof", "error"} :
                x = [NoCall EXCEPT !.op = "write", !.stdin = s, !.feed = "on"]
        \/ \E s \in {"eof", "error"} :
                x = [NoCall EXCEPT !.op = "upload", !.stdin = s, !.feed = "on"]
        \/ \E s \in {"none", "eof", "error", "never"} :
                x = [NoCall EXCEPT !.op = "exec", !.stdin = s]
        \/ x = [NoCall EXCEPT !.op = "read"]
        \/ x = [NoCall EXCEPT !.op = "reconnect", !.script = Flush]
        \/ \E s \in SUBSET (Nodes(setup.topo) \cap DOMAIN setup.ip) :
             x = [NoCall EXCEPT !.op = "disconnect", !.targets = SetToSeq(s),
                                !.script = Drops(SetToSeq(s))]
    BY Zenon DEF KubeCalls
  <2> QED  BY <1>1, <2>1, <2>2 DEF CutOps
<1>6. CASE x = [NoCall EXCEPT !.op = "reconnect", !.script = Flush]
  <2>1. x.op = "reconnect" /\ x.script = Flush
    BY <1>6, NoCallIs DEF Shape, Fields
  <2> QED  BY <1>1, <1>2, <1>4, <2>1 DEF New
<1>7. CASE \E s \in SUBSET (Nodes(setup.topo) \cap DOMAIN setup.ip) :
             x = [NoCall EXCEPT !.op = "disconnect", !.targets = SetToSeq(s),
                                !.script = Drops(SetToSeq(s))]
  <2>1. PICK s \in SUBSET (Nodes(setup.topo) \cap DOMAIN setup.ip) :
             x = [NoCall EXCEPT !.op = "disconnect", !.targets = SetToSeq(s),
                                !.script = Drops(SetToSeq(s))]
    BY <1>7
  <2> DEFINE t == SetToSeq(s)
  <2>2. x.op = "disconnect" /\ x.targets = t /\ x.script = Drops(t)
    BY <2>1, NoCallIs DEF Shape, Fields
  <2>3. t \in Seq(s) /\ s \subseteq Nat /\ s \subseteq DOMAIN setup.ip
    <3>1. Nodes(setup.topo) = 0 .. 2
      BY DEF Nodes
    <3>2. s \in SUBSET (0 .. 2)
      BY <3>1
    <3> QED  BY <3>2, ListOf
  <2> HIDE DEF t
  <2>4. t \in Seq(Nat) /\ \A i \in 1 .. Len(t) : t[i] \in DOMAIN setup.ip
    <3>1. \A i \in 1 .. Len(t) : t[i] \in s
      BY <2>3
    <3>2. t \in [1 .. Len(t) -> s] /\ Len(t) \in Nat
      BY <2>3
    <3>3. t \in [1 .. Len(t) -> Nat]
      BY <2>3, <3>2
    <3> QED  BY <2>3, <3>1, <3>2, <3>3
  <2>5. Drops(t) = [k \in 1 .. Len(t) |-> [do |-> "drop", ip |-> setup.ip[t[k]]]]
    BY <2>3 DEF Drops
  <2>6. Drops(t) \in Seq(CutRules) /\ Len(Drops(t)) = Len(t)
    <3>1. \A k \in 1 .. Len(t) : [do |-> "drop", ip |-> setup.ip[t[k]]] \in CutRules
      BY <2>4 DEF CutRules
    <3>2. Drops(t) \in [1 .. Len(t) -> CutRules]
      BY <2>5, <3>1
    <3>3. Len(t) \in Nat
      BY <2>4
    <3> QED  BY <3>2, <3>3
  <2>7. \A i \in 1 .. Len(t) : Drops(t)[i].ip = setup.ip[t[i]]
    BY <2>5
  <2> QED  BY <1>1, <1>2, <1>4, <2>2, <2>4, <2>6, <2>7 DEF New
<1> QED  BY <1>5, <1>6, <1>7

\* The other steps of a call leave what it has to do, and can only end it.
LEMMA CutKept ==
  ASSUME NEW c \in Calls, DOMAIN call = Calls, KubeRecord(call[c]), KubeAction(c),
         ~KubeCall(c), ~RunCommand(c), call[c].op \in CutOps \cup {"none"}
  PROVE  LET r == call[c]
             x == call'[c]
         IN  /\ x.op = r.op /\ x.script = r.script /\ x.targets = r.targets
             /\ kernel' = kernel
             /\ x.pc = "wait" => r.pc = "wait"
             /\ r.pc = "done" => x.pc = "done"
             /\ r.conn = "broken" => x.conn = "broken"
             /\ r.op \in CutOps /\ x.remote = "ok" => r.script = <<>> \/ r.remote = "ok"
<1> USE DEF KubeRecord, KubePlace, CutOps
<1>1. CASE Connect(c)
  BY <1>1 DEF Connect, Streams, Set, nodeVars, Shape, Fields
<1>2. CASE FileMissing(c)
  BY <1>2 DEF FileMissing, Streams, Set, nodeVars, Shape, Fields
<1>3. CASE StreamEnds(c) \/ StreamBreaks(c)
  BY <1>3, StreamIs DEF SamePlace, SameInput, nodeVars
<1>4. CASE FeedEnds(c)
  BY <1>4 DEF FeedEnds, Set, nodeVars, Shape, Fields
<1>5. CASE CopyChunk(c)
  BY <1>5, CopyChunkIs DEF SamePlace, SameInput, nodeVars
<1>6. CASE CopyEnds(c)
  BY <1>6 DEF CopyEnds, Set, nodeVars, Shape, Fields
<1>7. CASE CatChunk(c)
  BY <1>7 DEF CatChunk
<1>8. CASE DecodeRules(c)
  BY <1>8 DEF DecodeRules
<1>9. CASE RemoteExits(c)
  BY <1>9, RemoteExitsIs DEF SamePlace, Ready, nodeVars
<1>10. CASE Emit(c)
  BY <1>10 DEF Emit, Set, nodeVars, Shape, Fields
<1>11. CASE CopyOutput(c)
  BY <1>11 DEF CopyOutput, Set, nodeVars, Shape, Fields
<1>12. CASE Abandon(c)
  BY <1>12 DEF Abandon, Set, nodeVars, Shape, Fields
<1> QED
  BY <1>1, <1>2, <1>3, <1>4, <1>5, <1>6, <1>7, <1>8, <1>9, <1>10, <1>11, <1>12
  DEF KubeAction, KubeStep, Copier, Remote

\* Other calls that may wait have been disturbed by one whose commands still come.
LEMMA CutApart ==
  ASSUME Calling, setup.engine = "kube", InTurn, NEW c \in Calls, NEW d \in Calls, d # c,
         KubeAction(c), DOMAIN call' = Calls, setup' = setup, Apart(call[d], call'[d]),
         call[c].conn = "broken" => call'[c].conn = "broken",
         \A e \in Calls \ {c} : Apart(call[e], call'[e]),
         Cutting(d), kernel' = kernel \/ (call[c].remote = "on" /\ call[c].op # "read")
  PROVE  Cutting(d)'
<1>1. KubeRecord(call[c]) /\ KubeRecord(call[d]) /\ \A e \in Calls : Shape(call[e])
  BY DEF Calling, KubeRecord
<1>2. /\ call'[d].op = call[d].op /\ call'[d].script = call[d].script
      /\ call'[d].targets = call[d].targets /\ call'[d].pc = call[d].pc
      /\ call'[d].remote = call[d].remote
  BY <1>1, ApartIs DEF SamePlace
<1>3. Undisturbed(d)' => Undisturbed(d)
  <2>1. \A e \in Calls : call[e].conn = "broken" => call'[e].conn = "broken"
    BY <1>1, ApartIs
  <2>2. \A e \in 1 .. d - 1 : e \in Calls
    BY NodeAssumption DEF Calls
  <2> QED  BY <2>1, <2>2 DEF Undisturbed
<1>4. CASE kernel' = kernel
  BY <1>2, <1>3, <1>4 DEF Cutting, CutRules
<1>5. CASE kernel' # kernel
  <2>1. call[c].remote = "on" /\ call[c].op # "read"
    BY <1>5
  <2>2. c \in Int /\ d \in Int /\ (c < d \/ d < c)
    BY NodeAssumption DEF Calls
  <2>3. c < d => call[d].pc # "wait" \/ ~Undisturbed(d)
    <3>1. ASSUME c < d, call[d].pc = "wait" PROVE ~Undisturbed(d)
      <4>1. call[d].op # "none"
        BY <1>1, <3>1 DEF KubeRecord, KubePlace
      <4>2. call[c].pc = "done"
        BY <3>1, <4>1 DEF InTurn
      <4>3. call[c].conn = "broken"
        BY <1>1, <2>1, <4>2 DEF KubeRecord, KubePlace
      <4>4. c \in 1 .. d - 1
        BY <2>2, <3>1 DEF Calls
      <4> QED  BY <4>3, <4>4 DEF Undisturbed
    <3> QED  BY <3>1
  <2>4. d < c => call[d].pc # "wait"
    <3>1. call[c].op # "none"
      BY <1>1, <2>1 DEF KubeRecord, KubePlace
    <3> QED  BY <3>1 DEF InTurn
  <2>5. ~(call'[d].pc = "wait" /\ Undisturbed(d)')
    BY <1>2, <1>3, <2>2, <2>3, <2>4
  <2> QED  BY <1>2, <2>5 DEF Cutting, CutRules
<1> QED  BY <1>4, <1>5

\* A command of iptables.
LEMMA CutRun ==
  ASSUME NEW c \in Calls, DOMAIN call = Calls, KubeRecord(call[c]), RunCommand(c),
         call[c].op \in CutOps, "drops" \in DOMAIN kernel, Cutting(c), setup' = setup,
         Undisturbed(c)' => Undisturbed(c)
  PROVE  Cutting(c)' /\ "drops" \in DOMAIN kernel'
<1> DEFINE r == call[c]
           x == call'[c]
<1>1. /\ r.remote = "on" /\ r.script # <<>>
      /\ \/ kernel' = Apply(kernel, Head(r.script)) /\ x = [r EXCEPT !.script = Tail(@)]
         \/ kernel' = kernel /\ x = [r EXCEPT !.remote = "err"]
  BY DEF RunCommand, Set
<1>2. CASE kernel' = kernel /\ x = [r EXCEPT !.remote = "err"]
  <2>1. /\ x.op = r.op /\ x.script = r.script /\ x.targets = r.targets /\ x.pc = r.pc
        /\ x.remote = "err"
    BY <1>2 DEF KubeRecord, Shape, Fields
  <2> QED  BY <1>2, <2>1 DEF Cutting, CutRules
<1>3. CASE kernel' = Apply(kernel, Head(r.script)) /\ x = [r EXCEPT !.script = Tail(@)]
  <2>1. /\ x.op = r.op /\ x.script = Tail(r.script) /\ x.targets = r.targets /\ x.pc = r.pc
        /\ x.remote = "on"
    BY <1>1, <1>3 DEF KubeRecord, Shape, Fields
  <2>2. CASE r.op = "reconnect"
    <3>1. r.script = Flush
      BY <1>1, <2>2 DEF Cutting
    <3>2. Head(r.script).do = "flush" /\ Tail(r.script) = <<>>
      BY <3>1 DEF Flush
    <3>3. kernel' = [kernel EXCEPT !.drops = {}]
      BY <1>3, <3>2 DEF Apply
    <3> QED  BY <2>1, <2>2, <3>2, <3>3 DEF Cutting
  <2>3. CASE r.op = "disconnect"
    <3> DEFINE s == r.script
               t == r.targets
    <3>1. /\ s \in Seq(CutRules) /\ s # <<>> /\ t \in Seq(Nat)
      BY <1>1, <2>3 DEF Cutting
    <3>2. \A i \in 1 .. Len(t) : \/ \E j \in 1 .. Len(s) : s[j].ip = setup.ip[t[i]]
                                 \/ r.pc = "wait" /\ Undisturbed(c)
                                       => setup.ip[t[i]] \in kernel.drops
      BY <2>3 DEF Cutting
    <3> HIDE DEF s, t
    <3>3. /\ Head(s) = s[1] /\ s[1] \in CutRules /\ Tail(s) \in Seq(CutRules)
          /\ Len(s) \in Nat /\ Len(Tail(s)) = Len(s) - 1
          /\ \A j \in 1 .. Len(s) - 1 : Tail(s)[j] = s[j + 1]
      BY <3>1
    <3>4. Head(s).do = "drop"
      BY <3>3 DEF CutRules
    <3>5. kernel' = [kernel EXCEPT !.drops = @ \cup {s[1].ip}]
      BY <1>3, <3>3, <3>4 DEF Apply, s
    <3>6. "drops" \in DOMAIN kernel' /\ kernel'.drops = kernel.drops \cup {s[1].ip}
      BY <3>5
    <3>7. ASSUME NEW i \in 1 .. Len(t)
          PROVE  \/ \E j \in 1 .. Len(Tail(s)) : Tail(s)[j].ip = setup.ip[t[i]]
                 \/ r.pc = "wait" /\ Undisturbed(c) => setup.ip[t[i]] \in kernel'.drops
      <4>1. CASE \E j \in 1 .. Len(s) : s[j].ip = setup.ip[t[i]]
        <5>1. PICK j \in 1 .. Len(s) : s[j].ip = setup.ip[t[i]]
          BY <4>1
        <5>2. CASE j = 1
          BY <3>6, <5>1, <5>2
        <5>3. CASE j # 1
          <6>1. j - 1 \in 1 .. Len(Tail(s)) /\ Tail(s)[j - 1] = s[j]
            BY <3>3, <5>3
          <6> QED  BY <5>1, <6>1
        <5> QED  BY <5>2, <5>3
      <4>2. CASE r.pc = "wait" /\ Undisturbed(c) => setup.ip[t[i]] \in kernel.drops
        BY <3>6, <4>2
      <4> QED  BY <3>2, <4>1, <4>2
    <3> QED  BY <2>1, <2>3, <3>1, <3>3, <3>6, <3>7 DEF Cutting, s, t, CutRules
  <2> QED  BY <2>2, <2>3 DEF CutOps
<1> QED  BY <1>1, <1>2, <1>3

\* A call stays the call it is.
LEMMA OpKept ==
  ASSUME NEW c \in Calls, DOMAIN call = Calls, KubeRecord(call[c]), KubeAction(c)
  PROVE  call'[c].op = call[c].op \/ (KubeCall(c) /\ call'[c].op \in setup.ops)
<1> USE DEF KubeRecord
<1>14. CASE KubeCall(c)
  <2>1. PICK x \in KubeCalls : /\ x.op \in setup.ops
                               /\ KubeCallFails(c, x) \/ KubeCallStarts(c, x)
    BY <1>14 DEF KubeCall
  <2>2. Shape(x)
    BY KubeCallsAre DEF New
  <2>3. \/ call'[c] = [x EXCEPT !.pc = "done", !.res = "err"]
        \/ call'[c] = [x EXCEPT !.pc = "read", !.res = "ok", !.reader = "open"]
        \/ call'[c] = [x EXCEPT !.pc = "wait"]
    BY <2>1 DEF KubeCallFails, KubeCallStarts, Set
  <2>4. call'[c].op = x.op
    BY <2>2, <2>3 DEF Shape, Fields
  <2> QED  BY <1>14, <2>1, <2>4 DEF KubeCall, Begins
<1>1. CASE Connect(c)
  BY <1>1 DEF Connect, Streams, Set, nodeVars, Shape, Fields
<1>2. CASE FileMissing(c)
  BY <1>2 DEF FileMissing, Streams, Set, nodeVars, Shape, Fields
<1>3. CASE StreamEnds(c) \/ StreamBreaks(c)
  BY <1>3, StreamIs DEF SamePlace, SameInput, nodeVars
<1>4. CASE FeedEnds(c)
  BY <1>4 DEF FeedEnds, Set, nodeVars, Shape, Fields
<1>5. CASE CopyChunk(c)
  BY <1>5, CopyChunkIs DEF SamePlace, SameInput, nodeVars
<1>6. CASE CopyEnds(c)
  BY <1>6 DEF CopyEnds, Set, nodeVars, Shape, Fields
<1>7. CASE CatChunk(c)
  BY <1>7 DEF CatChunk, Set, nodeVars, Shape, Fields
<1>8. CASE DecodeRules(c)
  BY <1>8 DEF DecodeRules, Set, nodeVars, Shape, Fields
<1>9. CASE RunCommand(c)
  BY <1>9 DEF RunCommand, Set, nodeVars, Shape, Fields
<1>10. CASE RemoteExits(c)
  BY <1>10, RemoteExitsIs DEF SamePlace, SameInput, nodeVars
<1>11. CASE Emit(c)
  BY <1>11 DEF Emit, Set, nodeVars, Shape, Fields
<1>12. CASE CopyOutput(c)
  BY <1>12 DEF CopyOutput, Set, nodeVars, Shape, Fields
<1>13. CASE Abandon(c)
  BY <1>13 DEF Abandon, Set, nodeVars, Shape, Fields
<1> QED
  BY <1>1, <1>2, <1>3, <1>4, <1>5, <1>6, <1>7, <1>8, <1>9, <1>10, <1>11, <1>12,
     <1>13, <1>14
  DEF KubeAction, KubeStep, Copier, Remote

\* The steps of a round that cuts.
LEMMA CutStep ==
  ASSUME Calling, CutInv, NEW c \in Calls, KubeAction(c), Action(c), setup.engine = "kube",
         setup.ops = CutOps
  PROVE  (InTurn /\ "drops" \in DOMAIN kernel /\ \A d \in Calls : Cutting(d))'
<1>1. /\ DOMAIN call = Calls /\ DOMAIN call' = Calls /\ setup' = setup
      /\ \A d \in Calls \ {c} : Apart(call[d], call'[d])
      /\ \A d \in Calls : KubeRecord(call[d])
  BY OthersApart DEF Calling
<1>2. /\ InTurn /\ "drops" \in DOMAIN kernel
      /\ \A d \in Calls : Cutting(d) /\ call[d].op \in CutOps \cup {"none"}
  BY DEF CutInv
<1>3. \A d \in Calls \ {c} : SamePlace(call[d], call'[d]) /\ call'[d].conn = call[d].conn
  BY <1>1, ApartIs DEF KubeRecord
<1>4. CASE KubeCall(c)
  <2>1. /\ call'[c].op \in CutOps /\ call'[c].remote = "off" /\ call'[c].conn = "off"
        /\ call'[c].op = "reconnect" => call'[c].script = Flush
        /\ call'[c].op = "disconnect" =>
              LET t == call'[c].targets
                  s == call'[c].script
              IN  /\ t \in Seq(Nat) /\ s \in Seq(CutRules)
                  /\ \A i \in 1 .. Len(t) :
                       \E j \in 1 .. Len(s) : s[j].ip = setup.ip[t[i]]
    BY <1>1, <1>4, CutCallIs, OpsOfSetup
  <2>2. /\ call[c].op = "none" /\ kernel' = kernel
        /\ \A d \in 1 .. c - 1 : call[d].pc = "done"
    BY <1>4 DEF KubeCall, Begins, KubeCallFails, KubeCallStarts, nodeVars
  <2>3. call[c].pc = "idle" /\ call[c].conn = "off"
    BY <1>1, <2>2 DEF KubeRecord, KubePlace
  <2>4. InTurn'
    <3> SUFFICES ASSUME NEW d \in Calls, NEW e \in Calls, d < e, call'[e].op # "none"
                 PROVE  call'[d].pc = "done"
      BY DEF InTurn
    <3>1. CASE e = c
      <4>1. d \in 1 .. c - 1
        BY <3>1 DEF Calls
      <4> QED  BY <1>3, <2>2, <3>1, <4>1 DEF SamePlace, Calls
    <3>2. CASE e # c
      <4>1. call[d].pc = "done"
        BY <1>2, <1>3, <3>2 DEF InTurn, SamePlace
      <4> QED  BY <1>3, <2>3, <4>1 DEF SamePlace
    <3> QED  BY <3>1, <3>2
  <2>5. Cutting(c)'
    BY <1>1, <2>1 DEF Cutting, CutRules
  <2>6. \A d \in Calls \ {c} : Cutting(d)'
    BY <1>1, <1>2, <2>2, <2>3, CutApart
  <2> QED  BY <1>2, <2>2, <2>4, <2>5, <2>6
<1>5. CASE ~KubeCall(c)
  <2>1. call[c].op = "none" => ~RunCommand(c)
    BY <1>1 DEF RunCommand, KubeRecord, KubePlace
  <2>2. /\ call'[c].op = call[c].op
        /\ call[c].pc = "done" => call'[c].pc = "done"
        /\ call[c].conn = "broken" => call'[c].conn = "broken"
    <3>1. CASE RunCommand(c)
      BY <1>1, <3>1 DEF RunCommand, KubeRecord, Set, Shape, Fields
    <3>2. CASE ~RunCommand(c)
      BY <1>1, <1>2, <1>5, <3>2, CutKept
    <3> QED  BY <3>1, <3>2
  <2>3. InTurn'
    BY <1>2, <1>3, <2>2 DEF InTurn, SamePlace
  <2>4. Undisturbed(c)' => Undisturbed(c)
    <3>1. \A e \in 1 .. c - 1 : e \in Calls \ {c}
      BY NodeAssumption DEF Calls
    <3> QED  BY <1>3, <3>1 DEF Undisturbed
  <2>5. CASE RunCommand(c)
    <3>1. call[c].op \in CutOps /\ call[c].remote = "on"
      BY <1>2, <2>1, <2>5 DEF RunCommand
    <3>2. Cutting(c)' /\ "drops" \in DOMAIN kernel'
      BY <1>1, <1>2, <2>4, <2>5, <3>1, CutRun
    <3>3. \A d \in Calls \ {c} : Cutting(d)'
      BY <1>1, <1>2, <2>2, <3>1, CutApart DEF CutOps
    <3> QED  BY <2>3, <3>2, <3>3
  <2>6. CASE ~RunCommand(c)
    <3>1. LET r == call[c]
              x == call'[c]
          IN  /\ x.op = r.op /\ x.script = r.script /\ x.targets = r.targets
              /\ kernel' = kernel
              /\ x.pc = "wait" => r.pc = "wait"
              /\ r.op \in CutOps /\ x.remote = "ok" => r.script = <<>> \/ r.remote = "ok"
      BY <1>1, <1>2, <1>5, <2>6, CutKept
    <3>2. Cutting(c)'
      <4>1. Cutting(c) /\ setup' = setup
        BY <1>1, <1>2
      <4> QED  BY <2>4, <3>1, <4>1 DEF Cutting, CutRules
    <3>3. \A d \in Calls \ {c} : Cutting(d)'
      <4>1. kernel' = kernel
        BY <3>1
      <4> QED  BY <1>1, <1>2, <2>2, <4>1, CutApart
    <3> QED  BY <1>2, <2>3, <3>1, <3>2, <3>3
  <2> QED  BY <2>5, <2>6
<1> QED  BY <1>4, <1>5

\* Nothing is cut at first.
LEMMA InitCut == Init => CutInv
<1> SUFFICES ASSUME Init PROVE CutInv
  OBVIOUS
<1>1. \A c \in Calls : call[c].op = "none"
  BY NoCallIs DEF Init
<1>2. "drops" \in DOMAIN kernel
  BY DEF Init, NewKernel
<1>3. "none" \notin CutOps
  BY DEF CutOps
<1> QED  BY <1>1, <1>2, <1>3 DEF CutInv, InTurn, Cutting

\* No step of a round makes its cuts come out otherwise.
LEMMA NextCut == Calling /\ CutInv /\ [Next]_vars => CutInv'
<1> SUFFICES ASSUME Calling, CutInv, [Next]_vars PROVE CutInv'
  OBVIOUS
<1>1. CASE Next
  <2>1. PICK c \in Calls : Action(c) /\ (setup.engine = "kube" => KubeAction(c))
    BY <1>1, StepOfEngine
  <2>2. setup' = setup /\ \A d \in Calls \ {c} : Apart(call[d], call'[d])
    BY <2>1, OthersApart DEF Calling
  <2>3. ASSUME setup.engine = "kube", NEW d \in Calls
        PROVE  call'[d].op \in setup.ops \cup {"none"}
    <3>1. KubeRecord(call[d]) /\ call[d].op \in setup.ops \cup {"none"} /\ DOMAIN call = Calls
      BY <2>3 DEF Calling, CutInv
    <3>2. CASE d = c
      BY <2>1, <2>3, <3>1, <3>2, OpKept
    <3>3. CASE d # c
      BY <2>2, <3>1, <3>3, ApartIs DEF KubeRecord, SamePlace
    <3> QED  BY <3>2, <3>3
  <2>4. setup.engine = "kube" /\ setup.ops = CutOps =>
          (InTurn /\ "drops" \in DOMAIN kernel /\ \A d \in Calls : Cutting(d))'
    BY <2>1, CutStep
  <2> QED  BY <2>2, <2>3, <2>4 DEF CutInv
<1>2. CASE UNCHANGED vars
  BY ZenonT(60), <1>2 DEF vars, CutInv, InTurn, Cutting, CutRules, Undisturbed
<1> QED  BY <1>1, <1>2

\* On Kubernetes a Disconnect that succeeds has had every target dropped, and a
\* Reconnect has had all of them accepted, unless commands of a broken call may
\* still come.
THEOREM CutsAsAsked == Spec => CutAsAsked
<1>1. ASSUME Calling, CutInv, [Next]_vars, NEW c \in Calls,
             Finishes(c), setup.engine = "kube", Undisturbed(c)
      PROVE  /\ call[c].op = "disconnect" =>
                  \A n \in ToSet(call[c].targets) : setup.ip[n] \in kernel'.drops
             /\ call[c].op = "reconnect" => kernel'.drops = {}
  <2>1. SUFFICES ASSUME call[c].op \in CutOps
                 PROVE  /\ call[c].op = "disconnect" =>
                             \A n \in ToSet(call[c].targets) : setup.ip[n] \in kernel'.drops
                        /\ call[c].op = "reconnect" => kernel'.drops = {}
    BY DEF CutOps
  <2>2. PICK d \in Calls : Action(d) /\ KubeAction(d)
    <3>1. Next
      BY <1>1 DEF vars, Finishes
    <3> QED  BY <1>1, <3>1, StepOfEngine
  <2>3. c = d
    <3>1. c # d => Apart(call[c], call'[c]) /\ Shape(call[c])
      BY <1>1, <2>2, OthersApart DEF Calling, KubeRecord
    <3> QED  BY <1>1, <3>1, ApartIs DEF Finishes, SamePlace
  <2>4. /\ call[c].pc = "wait" /\ call[c].remote = "ok" /\ kernel' = kernel
    BY <1>1, <2>1, <2>2, <2>3, KubeFinishes DEF Calling, CutOps
  <2>5. Cutting(c)
    <3>1. setup.ops = CutOps
      BY <1>1, <2>1, OpsOfSetup DEF CutInv, CutOps
    <3> QED  BY <1>1, <3>1 DEF CutInv
  <2>6. call[c].script = <<>>
    BY <2>1, <2>4, <2>5 DEF Cutting
  <2>7. ASSUME call[c].op = "disconnect", NEW n \in ToSet(call[c].targets)
        PROVE  setup.ip[n] \in kernel'.drops
    <3>1. call[c].targets \in Seq(Nat)
      BY <2>5, <2>7 DEF Cutting
    <3>2. PICK i \in 1 .. Len(call[c].targets) : call[c].targets[i] = n
      BY <3>1, <2>7 DEF ToSet
    <3>3. Len(call[c].script) = 0
      BY <2>6
    <3> QED  BY <1>1, <2>4, <2>5, <2>7, <3>2, <3>3 DEF Cutting
  <2>8. call[c].op = "reconnect" => kernel'.drops = {}
    <3>1. Flush # <<>>
      BY DEF Flush
    <3> QED  BY <1>1, <2>4, <2>5, <2>6, <3>1 DEF Cutting
  <2> QED  BY <2>7, <2>8
<1>2. Calling /\ CutInv /\ [Next]_vars =>
        (\A c \in Calls :
           Finishes(c) /\ setup.engine = "kube" /\ Undisturbed(c) =>
             /\ call[c].op = "disconnect" =>
                  \A n \in ToSet(call[c].targets) : setup.ip[n] \in kernel'.drops
             /\ call[c].op = "reconnect" => kernel'.drops = {})
  BY <1>1
<1> QED  BY <1>2, InitCut, NextCut, CallingInvariance, PTL DEF Spec, CutAsAsked

-----------------------------------------------------------------------------
(* The upload of the rules.                                                *)

\* The rules of the node that get a class, and the commands of its emulator.
Classed == FirstRules(Rules(setup.links, setup.ip))
Orders  == Commands(Rules(setup.links, setup.ip))

\* What an upload that has run the first p of them still has to run.
Rest(p) == SubSeq(Orders, p + 1, Len(Orders))

\* The commands on the device are the first p of those of one upload, the
\* others have run none.
Uploading(p, o) ==
  /\ kernel = After(Classed, p)
  /\ p > 0 => o \in Calls /\ call[o].fed = 1
  /\ \A c \in Calls :
       call[c].script = IF call[c].fed = 1 THEN Rest(IF c = o THEN p ELSE 0) ELSE <<>>
  /\ \A i \in 1 .. (p - 1) \div 3 : Classed[i].ip # NoIP

\* A call of such a round is an upload, and one that is done has run all of
\* its commands.
Uploaded(c) ==
  /\ call[c].op \in {"none", "upload"}
  /\ call[c].op = "none" => call[c].fed = 0
  /\ call[c].remote = "ok" \/ call[c].res = "ok" => call[c].script = <<>>

\* In a round that uploads the rules, the kernel is what the commands of one
\* upload have made of it so far.
UploadInv ==
  setup.engine = "kube" /\ setup.ops = {"upload"} =>
    /\ InTurn
    /\ \A c \in Calls : Uploaded(c)
    /\ \E p \in 0 .. Len(Orders), o \in Calls \cup {0} : Uploading(p, o)

\* An upload is of a node of a topology, with its links.
LEMMA SetupOfUpload ==
  ASSUME Calling, setup.ops = {"upload"}
  PROVE  /\ setup.engine = "kube" /\ setup.topo \in TopologyRecords
         /\ setup.node \in Nodes(setup.topo)
         /\ setup.links \in Links(setup.topo, setup.node)
         /\ setup.ip \in Mappings(setup.topo)
<1>1. setup \notin OtherSetups
  <2>1. setup \in OtherSetups => setup.ops \in {CutOps, IOOps, IOOps \cup CutOps}
    BY DEF OtherSetups, Setup
  <2>2. "disconnect" \in CutOps /\ "read" \in IOOps
    BY DEF CutOps, IOOps
  <2> QED  BY <2>1, <2>2
<1>2. PICK t \in Topologies : setup \in UNION {{Setup("kube", {"upload"}, t, n, l, m) :
                   l \in Links(t, n), m \in Mappings(t)} :
                n \in Nodes(t)}
  BY <1>1 DEF Calling, UploadSetups
<1>3. PICK n \in Nodes(t) : setup \in {Setup("kube", {"upload"}, t, n, l, m) :
                   l \in Links(t, n), m \in Mappings(t)}
  BY <1>2
<1>4. PICK l \in Links(t, n), m \in Mappings(t) : setup = Setup("kube", {"upload"}, t, n, l, m)
  BY <1>3
<1>5. /\ setup.engine = "kube" /\ setup.topo = t /\ setup.node = n /\ setup.links = l
      /\ setup.ip = m
  BY <1>4 DEF Setup
<1>6. t \in TopologyRecords
  BY NodeAssumption
<1> QED  BY <1>5, <1>6

\* Its rules, and their commands.
LEMMA CommandsOfUpload ==
  ASSUME Calling, setup.ops = {"upload"}
  PROVE  /\ CommandsOf(Orders, Classed) /\ Len(Classed) \in Nat
         /\ Firsts(Rules(setup.links, setup.ip), Classed)
         /\ Len(Orders) = 2 + 3 * Len(Classed) /\ Len(Orders) \in Nat
<1> DEFINE l == setup.links
<1>1. Keeps(setup.topo, setup.node, l)
  BY SetupOfUpload, LinksKeep
<1>2. l \in Seq({l[k] : k \in 1 .. Len(l)})
  BY <1>1 DEF Keeps
<1> HIDE DEF l
<1> DEFINE rules == Rules(l, setup.ip)
<1>3. PICK T : rules \in Seq(T)
  BY <1>2, RulesAre
<1> HIDE DEF rules
<1>4. Classed = FirstRules(rules) /\ Orders = Commands(rules)
  BY DEF Classed, Orders, rules, l
<1> HIDE DEF Classed
<1>5. Firsts(rules, Classed)
  BY <1>3, <1>4, FirstRulesAre
<1>6. Len(Classed) \in Nat
  BY <1>5 DEF Firsts
<1>7. CommandsOf(Orders, Classed)
  BY <1>4, <1>6, CommandsAre
<1>8. Len(Orders) = 2 + 3 * Len(Classed) /\ Len(Orders) \in Nat
  BY <1>6, <1>7 DEF CommandsOf
<1> QED  BY <1>5, <1>6, <1>7, <1>8 DEF rules, l

\* What is left after one more command.
LEMMA RestIs ==
  ASSUME NEW T, Orders \in Seq(T)
  PROVE  /\ Rest(0) = Orders /\ Rest(Len(Orders)) = <<>>
         /\ \A p \in 0 .. Len(Orders) - 1 :
              Rest(p) # <<>> /\ Head(Rest(p)) = Orders[p + 1] /\ Tail(Rest(p)) = Rest(p + 1)
<1>1. Len(Orders) \in Nat
  BY LenProperties
<1>2. Rest(0) = Orders
  BY SubSeqFull DEF Rest
<1>3. Rest(Len(Orders)) = <<>>
  BY <1>1, SubSeqEmpty DEF Rest
<1>4. ASSUME NEW p \in 0 .. Len(Orders) - 1
      PROVE  Rest(p) # <<>> /\ Head(Rest(p)) = Orders[p + 1] /\ Tail(Rest(p)) = Rest(p + 1)
  <2>1. p + 1 \in 1 .. Len(Orders) /\ Len(Orders) \in p + 1 .. Len(Orders) /\ p + 1 \in Int
    BY <1>1
  <2>2. Head(Rest(p)) = Orders[p + 1] /\ Tail(Rest(p)) = Rest(p + 1)
    BY <2>1, HeadTailOfSubSeq DEF Rest
  <2>3. Len(Rest(p)) = Len(Orders) - (p + 1) + 1
    <3>1. \A i \in p + 1 .. Len(Orders) : Orders[i] \in T
      BY <1>1, <2>1, ElementOfSeq
    <3> QED  BY <1>1, <2>1, <3>1, SubSeqProperties DEF Rest
  <2>4. Rest(p) # <<>>
    BY <1>1, <2>1, <2>3
  <2> QED  BY <2>2, <2>4
<1> QED  BY <1>2, <1>3, <1>4

\* A new upload has nothing to run yet.
LEMMA UploadCallIs ==
  ASSUME NEW c \in Calls, DOMAIN call = Calls, KubeCall(c), setup.ops = {"upload"}
  PROVE  /\ call'[c].op = "upload" /\ call'[c].script = <<>> /\ call'[c].fed = 0
         /\ call'[c].remote = "off" /\ call'[c].res # "ok"
<1>1. PICK x \in KubeCalls : /\ x.op = "upload"
                             /\ KubeCallFails(c, x) \/ KubeCallStarts(c, x)
  BY DEF KubeCall
<1>2. \E s \in {"eof", "error"} :
        x = [NoCall EXCEPT !.op = "upload", !.stdin = s, !.feed = "on"]
  <2>1. \/ \E s \in {"eof", "error"} :
             x = [NoCall EXCEPT !.op = "write", !.stdin = s, !.feed = "on"]
        \/ \E s \in {"eof", "error"} :
             x = [NoCall EXCEPT !.op = "upload", !.stdin = s, !.feed = "on"]
        \/ \E s \in {"none", "eof", "error", "never"} :
             x = [NoCall EXCEPT !.op = "exec", !.stdin = s]
        \/ x = [NoCall EXCEPT !.op = "read"]
        \/ x = [NoCall EXCEPT !.op = "reconnect", !.script = Flush]
        \/ \E t, p : x = [NoCall EXCEPT !.op = "disconnect", !.targets = t, !.script = p]
    BY Zenon DEF KubeCalls
  <2>2. "op" \in DOMAIN NoCall
    BY DEF NoCall
  <2> QED  BY <1>1, <2>1, <2>2
<1>3. /\ Shape(x) /\ x.script = <<>> /\ x.fed = 0 /\ x.remote = "off" /\ x.res = "none"
  BY <1>2, NoCallIs DEF Shape, Fields
<1>4. \/ call'[c] = [x EXCEPT !.pc = "done", !.res = "err"]
      \/ call'[c] = [x EXCEPT !.pc = "wait"]
  BY <1>1 DEF KubeCallFails, KubeCallStarts, Set
<1> QED  BY ZenonT(60), <1>1, <1>3, <1>4 DEF Shape, Fields

\* The steps of an upload that is neither decoded nor run.
LEMMA UploadKept ==
  ASSUME NEW c \in Calls, DOMAIN call = Calls, KubeRecord(call[c]), KubeAction(c),
         ~KubeCall(c), ~RunCommand(c), ~DecodeRules(c), call[c].op \in {"none", "upload"}
  PROVE  LET r == call[c]
             x == call'[c]
         IN  /\ x.op = r.op /\ x.script = r.script /\ x.fed = r.fed /\ kernel' = kernel
             /\ r.pc = "done" => x.pc = "done"
             /\ x.remote = "ok" \/ x.res = "ok"
                  => r.script = <<>> \/ r.remote = "ok" \/ r.res = "ok"
<1> USE DEF KubeRecord, KubePlace
<1>1. CASE Connect(c)
  BY <1>1 DEF Connect, Streams, Set, nodeVars, Shape, Fields
<1>2. CASE FileMissing(c)
  BY <1>2 DEF FileMissing, Streams, Set, nodeVars, Shape, Fields
<1>3. CASE StreamEnds(c) \/ StreamBreaks(c)
  BY <1>3, StreamIs DEF SamePlace, SameInput, nodeVars
<1>4. CASE FeedEnds(c)
  BY <1>4 DEF FeedEnds, Set, nodeVars, Shape, Fields
<1>5. CASE CopyChunk(c)
  BY <1>5, CopyChunkIs DEF SamePlace, SameInput, nodeVars
<1>6. CASE CopyEnds(c)
  BY <1>6 DEF CopyEnds, Set, nodeVars, Shape, Fields
<1>7. CASE CatChunk(c)
  BY <1>7 DEF CatChunk
<1>8. CASE RemoteExits(c)
  <2>1. RemoteExits(c) => call[c].op = "upload"
    BY DEF RemoteExits
  <2> QED  BY <1>8, <2>1, RemoteExitsIs DEF SamePlace, SameInput, Ready, nodeVars
<1>9. CASE Emit(c)
  BY <1>9 DEF Emit, Set, nodeVars, Shape, Fields
<1>10. CASE CopyOutput(c)
  BY <1>10 DEF CopyOutput, Set, nodeVars, Shape, Fields
<1>11. CASE Abandon(c)
  BY <1>11 DEF Abandon, Set, nodeVars, Shape, Fields
<1> QED
  BY <1>1, <1>2, <1>3, <1>4, <1>5, <1>6, <1>7, <1>8, <1>9, <1>10, <1>11
  DEF KubeAction, KubeStep, Copier, Remote

\* What netem does when it has decoded the rules, or cannot.
LEMMA UploadDecodes ==
  ASSUME NEW c \in Calls, DOMAIN call = Calls, KubeRecord(call[c]), DecodeRules(c)
  PROVE  LET r == call[c]
             x == call'[c]
         IN  /\ x.op = "upload" /\ r.op = "upload" /\ r.fed = 0
             /\ x.pc = r.pc /\ x.res = r.res /\ x.remote # "ok" /\ kernel' = kernel
             /\ \/ x.fed = 1 /\ x.script = Orders
                \/ x.fed = 0 /\ x.script = r.script
<1>1. LET r == call[c]
          x == call'[c]
      IN  \/ x = [r EXCEPT !.fed = 1, !.script = Orders]
          \/ x = [r EXCEPT !.remote = "err"]
  BY DEF DecodeRules, Set, Orders
<1>2. call[c].remote = "on" /\ call[c].op = "upload" /\ call[c].fed = 0 /\ kernel' = kernel
  BY DEF DecodeRules, nodeVars
<1> HIDE DEF Orders
<1> QED  BY <1>1, <1>2 DEF KubeRecord, Shape, Fields

\* A command of the rules is accepted or refused.
LEMMA UploadRuns ==
  ASSUME NEW c \in Calls, DOMAIN call = Calls, KubeRecord(call[c]), RunCommand(c)
  PROVE  LET r == call[c]
             x == call'[c]
         IN  /\ r.remote = "on" /\ r.script # <<>>
             /\ x.op = r.op /\ x.pc = r.pc /\ x.res = r.res /\ x.remote # "ok" /\ x.fed = r.fed
             /\ \/ /\ Accepts(kernel, Head(r.script)) /\ kernel' = Apply(kernel, Head(r.script))
                   /\ x.script = Tail(r.script)
                \/ kernel' = kernel /\ x.script = r.script
<1>1. LET r == call[c]
          x == call'[c]
      IN  /\ r.remote = "on" /\ r.script # <<>>
          /\ \/ /\ Accepts(kernel, Head(r.script)) /\ kernel' = Apply(kernel, Head(r.script))
                /\ x = [r EXCEPT !.script = Tail(r.script)]
             \/ kernel' = kernel /\ x = [r EXCEPT !.remote = "err"]
  BY DEF RunCommand, Set
<1> QED  BY <1>1 DEF KubeRecord, Shape, Fields

\* The next command of an upload, which is the one that runs them, or the first.
LEMMA UploadRunsNext ==
  ASSUME NEW c \in Calls, NEW p \in 0 .. Len(Orders), NEW o \in Calls \cup {0}, Uploading(p, o),
         CommandsOf(Orders, Classed), Len(Classed) \in Nat, Len(Orders) = 2 + 3 * Len(Classed),
         call[c].script # <<>>, Accepts(kernel, Head(call[c].script))
  PROVE  /\ p > 0 => c = o
         /\ p \in 0 .. Len(Orders) - 1
         /\ call[c].fed = 1 /\ call[c].script = Rest(p)
         /\ Apply(kernel, Head(call[c].script)) = After(Classed, p + 1)
         /\ Tail(call[c].script) = Rest(p + 1)
         /\ \A i \in 1 .. (p + 1 - 1) \div 3 : Classed[i].ip # NoIP
<1> DEFINE T == {Orders[k] : k \in 1 .. Len(Orders)}
<1>1. Orders \in Seq(T) /\ Len(Orders) \in Nat
  BY DEF CommandsOf
<1> HIDE DEF T
<1>2. /\ Rest(0) = Orders /\ Rest(Len(Orders)) = <<>>
      /\ \A k \in 0 .. Len(Orders) - 1 :
           Rest(k) # <<>> /\ Head(Rest(k)) = Orders[k + 1] /\ Tail(Rest(k)) = Rest(k + 1)
  BY <1>1, RestIs
<1>3. call[c].fed = 1 /\ call[c].script = Rest(IF c = o THEN p ELSE 0)
  BY DEF Uploading
<1>4. p > 0 => c = o
  <2> SUFFICES ASSUME p > 0, c # o PROVE FALSE
    OBVIOUS
  <2>1. call[c].script = Rest(0) /\ 0 \in 0 .. Len(Orders) - 1
    BY <1>1, <1>3
  <2>2. Head(call[c].script) = Orders[1]
    BY <1>2, <2>1
  <2>3. ~Accepts(After(Classed, p), Orders[1])
    BY RootOnce
  <2> QED  BY <2>2, <2>3 DEF Uploading
<1>5. call[c].script = Rest(p)
  BY <1>3, <1>4
<1>6. p \in 0 .. Len(Orders) - 1
  <2>1. p # Len(Orders)
    BY <1>2, <1>5
  <2> QED  BY <1>1, <2>1
<1>7. Head(call[c].script) = Orders[p + 1] /\ Tail(call[c].script) = Rest(p + 1)
  BY <1>2, <1>5, <1>6
<1>8. p \in 0 .. 1 + 3 * Len(Classed) /\ kernel = After(Classed, p)
  BY <1>6 DEF Uploading
<1>9. Apply(kernel, Head(call[c].script)) = After(Classed, p + 1)
  BY <1>7, <1>8, NextCommand
<1>10. \A i \in 1 .. (p + 1 - 1) \div 3 : Classed[i].ip # NoIP
  <2>1. Accepts(kernel, Orders[p + 1]) /\ \A i \in 1 .. (p - 1) \div 3 : Classed[i].ip # NoIP
    BY <1>7 DEF Uploading
  <2> QED  BY <1>8, <2>1, NextKnown
<1> QED  BY <1>3, <1>4, <1>5, <1>6, <1>7, <1>9, <1>10

\* The calls are still made in turn.
LEMMA TurnStep ==
  ASSUME InTurn, NEW c \in Calls, NEW d \in Calls, NEW e \in Calls, d < e, call'[e].op # "none",
         \A x \in Calls \ {c} : SamePlace(call[x], call'[x]),
         KubeCall(c) => /\ call[c].pc = "idle"
                        /\ \A x \in 1 .. c - 1 : call[x].pc = "done",
         ~KubeCall(c) => /\ call'[c].op = call[c].op
                         /\ call[c].pc = "done" => call'[c].pc = "done"
  PROVE  call'[d].pc = "done"
<1>1. CASE e = c /\ KubeCall(c)
  <2>1. d \in 1 .. c - 1
    BY <1>1 DEF Calls
  <2>2. d # c
    BY <1>1, <2>1 DEF Calls
  <2> QED  BY <1>1, <2>1, <2>2 DEF SamePlace
<1>2. CASE ~(e = c /\ KubeCall(c))
  <2>1. call[e].op # "none"
    BY <1>2 DEF SamePlace
  <2>2. call[d].pc = "done"
    BY <2>1 DEF InTurn
  <2> QED  BY <2>2 DEF SamePlace
<1> QED  BY <1>1, <1>2

\* The steps of a round that uploads.
LEMMA UploadStep ==
  ASSUME Calling, UploadInv, NEW c \in Calls, KubeAction(c), Action(c), setup.engine = "kube",
         setup.ops = {"upload"}
  PROVE  (/\ InTurn
          /\ \A d \in Calls : Uploaded(d)
          /\ \E p \in 0 .. Len(Orders), o \in Calls \cup {0} : Uploading(p, o))'
<1>1. /\ DOMAIN call = Calls /\ DOMAIN call' = Calls /\ setup' = setup
      /\ \A d \in Calls \ {c} : Apart(call[d], call'[d])
      /\ \A d \in Calls : KubeRecord(call[d])
  BY OthersApart DEF Calling
<1>2. Classed' = Classed /\ Orders' = Orders
  BY <1>1 DEF Classed, Orders
<1>3. InTurn /\ \A d \in Calls : Uploaded(d)
  BY DEF UploadInv
<1>4. PICK p \in 0 .. Len(Orders), o \in Calls \cup {0} : Uploading(p, o)
  BY DEF UploadInv
<1>5. CommandsOf(Orders, Classed) /\ Len(Classed) \in Nat /\ Len(Orders) = 2 + 3 * Len(Classed)
  BY CommandsOfUpload
<1>6. \A d \in Calls \ {c} : /\ SamePlace(call[d], call'[d]) /\ call'[d].fed = call[d].fed
                             /\ call'[d].remote = call[d].remote
                             /\ call'[d].script = call[d].script
  BY <1>1, ApartIs DEF KubeRecord, SameInput
<1>7. \A d \in Calls \ {c} : Uploaded(d)'
  BY <1>3, <1>6 DEF Uploaded, SamePlace
<1>8. \A k : Rest(k)' = Rest(k)
  BY <1>2 DEF Rest
<1>9. Orders = Rest(0)
  <2>1. Orders \in Seq({Orders[k] : k \in 1 .. Len(Orders)})
    BY <1>5 DEF CommandsOf
  <2> QED  BY <2>1, RestIs
<1>10. /\ kernel = After(Classed, p)
       /\ p > 0 => o \in Calls /\ call[o].fed = 1
       /\ \A d \in Calls :
            call[d].script = IF call[d].fed = 1 THEN Rest(IF d = o THEN p ELSE 0) ELSE <<>>
       /\ \A i \in 1 .. (p - 1) \div 3 : Classed[i].ip # NoIP
  BY <1>4 DEF Uploading
<1>11. ASSUME kernel' = kernel, Uploaded(c)',
              KubeCall(c) => /\ call[c].pc = "idle"
                             /\ \A x \in 1 .. c - 1 : call[x].pc = "done",
              ~KubeCall(c) => /\ call'[c].op = call[c].op
                              /\ call[c].pc = "done" => call'[c].pc = "done",
              call[c].fed = 1 => call'[c].fed = 1,
              \/ call'[c].fed = call[c].fed /\ call'[c].script = call[c].script
              \/ call'[c].fed = 1 /\ call[c].fed = 0 /\ call'[c].script = Orders
              \/ call'[c].fed = 0 /\ call'[c].script = <<>>
       PROVE  (/\ InTurn
               /\ \A d \in Calls : Uploaded(d)
               /\ \E k \in 0 .. Len(Orders), x \in Calls \cup {0} : Uploading(k, x))'
  <2>1. InTurn'
    <3> SUFFICES ASSUME NEW d \in Calls, NEW e \in Calls, d < e, call'[e].op # "none"
                 PROVE  call'[d].pc = "done"
      BY DEF InTurn
    <3> QED  BY <1>3, <1>6, <1>11, TurnStep
  <2>2. \A d \in Calls : Uploaded(d)'
    BY <1>7, <1>11
  <2>3. kernel' = After(Classed', p)
    BY <1>2, <1>10, <1>11
  <2>4. p > 0 => o \in Calls /\ call'[o].fed = 1
    BY <1>6, <1>10, <1>11
  <2>5. ASSUME NEW d \in Calls
        PROVE  call'[d].script = IF call'[d].fed = 1 THEN Rest(IF d = o THEN p ELSE 0) ELSE <<>>
    <3>1. CASE d # c
      BY <1>6, <1>10, <3>1
    <3>2. CASE d = c
      <4>1. call[c].fed = 0 => p = 0 \/ c # o
        BY <1>10
      <4> QED  BY <1>9, <1>10, <1>11, <3>2, <4>1
    <3> QED  BY <3>1, <3>2
  <2>6. Uploading(p, o)'
    BY <1>2, <1>8, <1>10, <2>3, <2>4, <2>5 DEF Uploading
  <2> QED  BY <1>2, <2>1, <2>2, <2>6
<1>12. CASE KubeCall(c)
  <2>1. /\ call'[c].op = "upload" /\ call'[c].script = <<>> /\ call'[c].fed = 0
        /\ call'[c].remote = "off" /\ call'[c].res # "ok"
    BY <1>1, <1>12, UploadCallIs
  <2>2. /\ call[c].op = "none" /\ kernel' = kernel
        /\ \A d \in 1 .. c - 1 : call[d].pc = "done"
    BY <1>12 DEF KubeCall, Begins, KubeCallFails, KubeCallStarts, nodeVars
  <2>3. call[c].pc = "idle" /\ call[c].fed = 0
    BY <1>1, <1>3, <2>2 DEF KubeRecord, KubePlace, Uploaded
  <2>4. Uploaded(c)'
    BY <2>1 DEF Uploaded
  <2> QED  BY <1>11, <1>12, <2>1, <2>2, <2>3, <2>4
<1>13. CASE DecodeRules(c)
  <2>1. LET r == call[c]
            x == call'[c]
        IN  /\ x.op = "upload" /\ r.op = "upload" /\ r.fed = 0
            /\ x.pc = r.pc /\ x.res = r.res /\ x.remote # "ok" /\ kernel' = kernel
            /\ \/ x.fed = 1 /\ x.script = Orders
               \/ x.fed = 0 /\ x.script = r.script
    BY <1>1, <1>13, UploadDecodes
  <2>2. ~KubeCall(c)
    BY <2>1 DEF KubeCall, Begins
  <2>3. call'[c].res # "ok"
    <3>1. call[c].res = "ok" => call[c].fed = 1
      BY <1>1, <2>1 DEF KubeRecord, KubeResult
    <3> QED  BY <2>1, <3>1
  <2>4. Uploaded(c)'
    BY <2>1, <2>3 DEF Uploaded
  <2> QED  BY <1>11, <2>1, <2>2, <2>4
<1>14. CASE RunCommand(c)
  <2>1. LET r == call[c]
            x == call'[c]
        IN  /\ r.remote = "on" /\ r.script # <<>>
            /\ x.op = r.op /\ x.pc = r.pc /\ x.res = r.res /\ x.remote # "ok" /\ x.fed = r.fed
            /\ \/ /\ Accepts(kernel, Head(r.script)) /\ kernel' = Apply(kernel, Head(r.script))
                  /\ x.script = Tail(r.script)
               \/ kernel' = kernel /\ x.script = r.script
    BY <1>1, <1>14, UploadRuns
  <2>2. call[c].fed = 1
    BY <1>10, <2>1
  <2>3. call[c].op = "upload" /\ call[c].res # "ok"
    BY <1>3, <2>1, <2>2 DEF Uploaded
  <2>4. ~KubeCall(c)
    BY <2>3 DEF KubeCall, Begins
  <2>5. Uploaded(c)'
    BY <1>3, <2>1, <2>3 DEF Uploaded
  <2>6. CASE kernel' = kernel /\ call'[c].script = call[c].script
    BY <1>11, <2>1, <2>4, <2>5, <2>6
  <2>7. CASE /\ Accepts(kernel, Head(call[c].script))
             /\ kernel' = Apply(kernel, Head(call[c].script))
             /\ call'[c].script = Tail(call[c].script)
    <3>1. /\ p > 0 => c = o
          /\ p \in 0 .. Len(Orders) - 1
          /\ call[c].script = Rest(p)
          /\ Apply(kernel, Head(call[c].script)) = After(Classed, p + 1)
          /\ Tail(call[c].script) = Rest(p + 1)
          /\ \A i \in 1 .. (p + 1 - 1) \div 3 : Classed[i].ip # NoIP
      BY <1>4, <1>5, <2>1, <2>7, UploadRunsNext
    <3>2. p + 1 \in 0 .. Len(Orders)
      BY <1>5, <3>1
    <3>3. InTurn'
      <4> SUFFICES ASSUME NEW d \in Calls, NEW e \in Calls, d < e, call'[e].op # "none"
                   PROVE  call'[d].pc = "done"
        BY DEF InTurn
      <4> QED  BY <1>3, <1>6, <2>1, <2>4, TurnStep
    <3>4. \A d \in Calls :
            call'[d].script = IF call'[d].fed = 1 THEN Rest(IF d = c THEN p + 1 ELSE 0) ELSE <<>>
      <4> SUFFICES ASSUME NEW d \in Calls
                   PROVE  call'[d].script
                     = IF call'[d].fed = 1 THEN Rest(IF d = c THEN p + 1 ELSE 0) ELSE <<>>
        OBVIOUS
      <4>1. CASE d = c
        BY <2>1, <2>2, <2>7, <3>1, <4>1
      <4>2. CASE d # c
        <5>1. d = o => p = 0
          BY <3>1, <4>2
        <5> QED  BY <1>6, <1>10, <4>2, <5>1
      <4> QED  BY <4>1, <4>2
    <3>5. /\ kernel' = After(Classed', p + 1) /\ call'[c].fed = 1
          /\ \A i \in 1 .. (p + 1 - 1) \div 3 : Classed'[i].ip # NoIP
      BY <1>2, <2>1, <2>2, <2>7, <3>1
    <3>6. Uploading(p + 1, c)'
      BY <1>8, <3>4, <3>5 DEF Uploading
    <3> QED  BY <1>2, <1>7, <2>5, <3>2, <3>3, <3>6
  <2> QED  BY <2>1, <2>6, <2>7
<1>15. CASE ~KubeCall(c) /\ ~DecodeRules(c) /\ ~RunCommand(c)
  <2>1. LET r == call[c]
            x == call'[c]
        IN  /\ x.op = r.op /\ x.script = r.script /\ x.fed = r.fed /\ kernel' = kernel
            /\ r.pc = "done" => x.pc = "done"
            /\ x.remote = "ok" \/ x.res = "ok"
                 => r.script = <<>> \/ r.remote = "ok" \/ r.res = "ok"
    BY <1>1, <1>3, <1>15, UploadKept DEF Uploaded
  <2>2. Uploaded(c)'
    BY <1>3, <2>1 DEF Uploaded
  <2> QED  BY <1>11, <1>15, <2>1, <2>2
<1> QED  BY <1>12, <1>13, <1>14, <1>15

\* A fresh device has had no command.
LEMMA InitUpload == Init => UploadInv
<1> SUFFICES ASSUME Init, setup.engine = "kube", setup.ops = {"upload"}
             PROVE  /\ InTurn
                    /\ \A c \in Calls : Uploaded(c)
                    /\ \E p \in 0 .. Len(Orders), o \in Calls \cup {0} : Uploading(p, o)
  BY DEF UploadInv
<1>1. \A c \in Calls : call[c] = NoCall
  BY DEF Init
<1>2. InTurn
  BY <1>1, NoCallIs DEF InTurn
<1>3. \A c \in Calls : Uploaded(c)
  BY <1>1, NoCallIs DEF Uploaded
<1>4. Len(Orders) \in Nat
  BY InitCalling, CommandsOfUpload
<1>5. kernel = After(Classed, 0)
  <2>1. Tree(Classed, FALSE, FALSE, 0, 0, 0) = NewKernel
    <3>1. /\ {10 * i : i \in 1 .. 0} = {}
         /\ {MakeQDisc(10 * i, 10 * i + 1, Classed[i]) : i \in 1 .. 0} = {}
      OBVIOUS
    <3>2. [i \in 1 .. 0 |-> MakeFilter(Classed[i].ip, 10 * i)] = <<>>
      OBVIOUS
    <3> QED  BY <3>1, <3>2 DEF Tree, NewKernel
  <2> QED  BY <2>1, AfterFirst DEF Init
<1>6. Uploading(0, 0)
  <2>1. \A c \in Calls : call[c].script = <<>> /\ call[c].fed = 0
    BY <1>1, NoCallIs
  <2>2. \A c \in Calls :
          call[c].script = IF call[c].fed = 1 THEN Rest(IF c = 0 THEN 0 ELSE 0) ELSE <<>>
    BY <2>1
  <2>3. 1 .. (0 - 1) \div 3 = {} /\ ~(0 > 0)
    OBVIOUS
  <2>4. \A i \in 1 .. (0 - 1) \div 3 : Classed[i].ip # NoIP
    BY <2>3
  <2> QED  BY Zenon, <1>5, <2>2, <2>3, <2>4 DEF Uploading
<1> QED  BY <1>2, <1>3, <1>4, <1>6

\* No step of a round leaves it otherwise.
LEMMA NextUpload == Calling /\ UploadInv /\ [Next]_vars => UploadInv'
<1> SUFFICES ASSUME Calling, UploadInv, [Next]_vars PROVE UploadInv'
  OBVIOUS
<1>1. CASE Next
  <2>1. PICK c \in Calls : Action(c) /\ (setup.engine = "kube" => KubeAction(c))
    BY <1>1, StepOfEngine
  <2>2. setup' = setup
    BY <2>1, OthersApart DEF Calling
  <2>3. CASE setup.engine = "kube" /\ setup.ops = {"upload"}
    BY <2>1, <2>2, <2>3, UploadStep DEF UploadInv
  <2> QED  BY <2>2, <2>3 DEF UploadInv
<1>2. CASE UNCHANGED vars
  <2>1. Classed' = Classed /\ Orders' = Orders
    BY <1>2 DEF vars, Classed, Orders
  <2>2. \A p : Rest(p)' = Rest(p)
    BY <2>1 DEF Rest
  <2>3. \A p, o : Uploading(p, o) => Uploading(p, o)'
    BY <1>2, <2>1, <2>2 DEF vars, Uploading
  <2>4. (InTurn => InTurn') /\ \A c : Uploaded(c) => Uploaded(c)'
    BY <1>2 DEF vars, InTurn, Uploaded
  <2> QED  BY <1>2, <2>1, <2>3, <2>4 DEF vars, UploadInv
<1> QED  BY <1>1, <1>2

\* Only the engine of Kubernetes uploads, and its round does nothing else.
LEMMA RoundUploads ==
  ASSUME Calling, setup.engine = "kube", "upload" \in setup.ops
  PROVE  setup.ops = {"upload"}
<1>1. setup.ops # {"upload"} => setup \in OtherSetups
  BY DEF Calling, UploadSetups, Setup
<1>2. setup \in OtherSetups => setup.ops \in {CutOps, IOOps, IOOps \cup CutOps}
  BY DEF OtherSetups, Setup
<1>3. "upload" \notin CutOps \cup IOOps
  BY DEF CutOps, IOOps
<1> QED  BY <1>1, <1>2, <1>3

\* An upload of the rules that succeeds has had every command accepted, each
\* once and on a device that no other upload has touched, and then every
\* packet is held back as the topology says.
THEOREM RulesAreApplied == Spec => []ShapedAsAsked
<1>1. ASSUME Calling, CutInv, UploadInv, NEW c \in Calls, call[c].op = "upload", call[c].res = "ok",
             NEW n \in Nodes(setup.topo)
      PROVE  Shaping(kernel, Address(n)) = Latency(setup.topo, setup.node, n)
  <2>1. setup.engine = "kube" /\ setup.ops = {"upload"}
    <3>1. setup.engine = "kube"
      BY <1>1, Engines DEF Calling, DockerRecord, DockerPlace
    <3>2. "upload" \in setup.ops
      BY <1>1, <3>1 DEF CutInv
    <3> QED  BY <1>1, <3>1, <3>2, RoundUploads
  <2>2. /\ setup.topo \in TopologyRecords /\ setup.node \in Nodes(setup.topo)
        /\ setup.links \in Links(setup.topo, setup.node) /\ setup.ip \in Mappings(setup.topo)
    BY <1>1, <2>1, SetupOfUpload
  <2>3. /\ CommandsOf(Orders, Classed) /\ Len(Classed) \in Nat
        /\ Len(Orders) = 2 + 3 * Len(Classed) /\ Len(Orders) \in Nat
    BY <1>1, <2>1, CommandsOfUpload
  <2>4. PICK p \in 0 .. Len(Orders), o \in Calls \cup {0} : Uploading(p, o)
    BY <1>1, <2>1 DEF UploadInv
  <2>5. call[c].script = <<>>
    BY <1>1, <2>1 DEF UploadInv, Uploaded
  <2>6. call[c].fed = 1
    BY <1>1, <2>1 DEF Calling, KubeRecord, KubeResult
  <2>7. Rest(IF c = o THEN p ELSE 0) = <<>>
    BY <2>4, <2>5, <2>6 DEF Uploading
  <2>8. \A k \in 0 .. Len(Orders) - 1 : Rest(k) # <<>>
    <3>1. Orders \in Seq({Orders[k] : k \in 1 .. Len(Orders)})
      BY <2>3 DEF CommandsOf
    <3> QED  BY <3>1, RestIs
  <2>9. p = Len(Orders)
    BY <2>3, <2>7, <2>8
  <2>10. /\ kernel = After(Classed, 2 + 3 * Len(Classed))
         /\ \A i \in 1 .. Len(Classed) : Classed[i].ip # NoIP
    <3>1. (2 + 3 * Len(Classed) - 1) \div 3 = Len(Classed)
      BY <2>3
    <3> QED  BY <2>3, <2>4, <2>9, <3>1 DEF Uploading
  <2>11. Classed = FirstRules(Rules(setup.links, setup.ip))
    BY DEF Classed
  <2> HIDE DEF Classed
  <2> QED  BY <2>2, <2>10, <2>11, RulesShape
<1>2. Calling /\ CutInv /\ UploadInv => ShapedAsAsked
  BY <1>1 DEF ShapedAsAsked
<1> QED
  BY <1>2, InitCut, NextCut, InitUpload, NextUpload, CallingInvariance, PTL DEF Spec

\* An upload for which nothing fails is under way, or has succeeded.
Succeeding(r) ==
  IF r.pc = "done" THEN r.res = "ok"
  ELSE /\ r.pc = "wait" /\ r.remote # "err" /\ r.sin # "failed"
       /\ r.sent = r.taken
       /\ r.sin = "ended" => r.feed = "ended"

\* There are classes enough for the rules of the node, and all have an address.
Enough ==
  LET known == {rule.ip : rule \in ToSet(Rules(setup.links, setup.ip))}
  IN NoIP \notin known /\ 10 * Cardinality(known) <= MaxMinor

\* The first upload is about to succeed, or has, unless something else failed.
FirstInv ==
  1 \in Calls /\ call[1].op = "upload" /\ call[1].stdin = "eof" /\ faults = 0 /\ Enough
    => Succeeding(call[1])

\* The steps of the first upload fail only by a fault or a command refused.
LEMMA SucceedingKept ==
  ASSUME NEW c \in Calls, DOMAIN call = Calls, KubeRecord(call[c]), KubeAction(c),
         ~KubeCall(c), call[c].op = "upload", faults = 0,
         call[c].stdin = "eof" => Succeeding(call[c]),
         RunCommand(c) /\ call[c].pc # "done" => Accepts(kernel, Head(call[c].script))
  PROVE  /\ call'[c].op = "upload" /\ call'[c].stdin = call[c].stdin
         /\ call[c].stdin = "eof" /\ faults' = 0 => Succeeding(call'[c])
<1> USE DEF KubeRecord
<1> DEFINE r == call[c]
           x == call'[c]
<1>0. r.pc = "done" => r.remote # "on"
  BY DEF KubePlace, KubeResult
<1>1. CASE Connect(c)
  <2>1. /\ x = [r EXCEPT !.conn = "up", !.remote = "on",
                         !.sin = IF r.stdin = "none" THEN "ended" ELSE "on"]
        /\ r.pc \in {"wait", "read"}
    BY <1>1 DEF Connect, Streams, Set
  <2>2. /\ x.op = r.op /\ x.stdin = r.stdin /\ x.pc = r.pc /\ x.remote = "on"
        /\ r.stdin = "eof" => x.sin = "on"
        /\ x.sent = r.sent /\ x.taken = r.taken /\ x.feed = r.feed
    BY <2>1 DEF Shape, Fields
  <2> QED  BY <2>1, <2>2 DEF Succeeding
<1>2. CASE FileMissing(c)
  BY <1>2 DEF FileMissing
<1>3. CASE StreamEnds(c) \/ StreamBreaks(c)
  BY <1>3, StreamIs DEF SamePlace, SameInput, Succeeding
<1>4. CASE FeedEnds(c)
  <2>1. x = [r EXCEPT !.feed = "ended"]
    BY <1>4 DEF FeedEnds, Set
  <2> QED  BY <2>1 DEF Shape, Fields, Succeeding
<1>5. CASE CopyChunk(c)
  <2>1. r.op = "upload" /\ r.remote = "ok" => r.fed = 1 /\ r.taken >= 1
    BY DEF KubeInput, Types
  <2>2. r.taken < Size(r) /\ r.stdin = "eof" => r.taken < 1
    BY DEF Size
  <2>3. r.pc = "wait" => r.conn = "up"
    BY <1>5 DEF CopyChunk, KubePlace
  <2> QED  BY <1>5, <2>1, <2>2, <2>3, CopyChunkIs DEF SamePlace, Succeeding, Types
<1>6. CASE CopyEnds(c)
  <2>1. /\ x = [r EXCEPT !.sin = IF r.stdin = "error" THEN "failed" ELSE "ended"]
        /\ r.feed = "ended"
    BY <1>6 DEF CopyEnds, Set
  <2> QED  BY <2>1 DEF Shape, Fields, Succeeding
<1>7. CASE CatChunk(c)
  BY <1>7 DEF CatChunk
<1>8. CASE DecodeRules(c)
  <2>1. r.sent = 0 /\ r.stdin = "eof" => ~InputClosed(r)
    <3>1. r.conn = "up"
      BY <1>0, <1>8 DEF DecodeRules, KubePlace, Succeeding, Types, Pcs, KubeResult
    <3>2. r.stdin = "eof" => Size(r) = 1
      BY DEF Size
    <3> QED  BY <1>0, <1>8, <3>1, <3>2 DEF DecodeRules, InputClosed, Succeeding, KubeInput, Types
  <2>2. /\ x.op = r.op /\ x.stdin = r.stdin /\ x.pc = r.pc /\ x.sin = r.sin /\ x.sent = r.sent
        /\ x.taken = r.taken /\ x.feed = r.feed /\ r.remote = "on"
        /\ x.remote = "on" \/ (r.sent = 0 /\ InputClosed(r))
    <3>1. /\ r.remote = "on"
          /\ \/ \E s : x = [r EXCEPT !.fed = 1, !.script = s]
             \/ x = [r EXCEPT !.remote = "err"] /\ r.sent = 0 /\ InputClosed(r)
      BY <1>8 DEF DecodeRules, Set
    <3> QED  BY <3>1 DEF Shape, Fields
  <2> QED  BY <1>0, <2>1, <2>2 DEF Succeeding
<1>9. CASE RunCommand(c)
  <2>1. /\ r.remote = "on"
        /\ \/ x = [r EXCEPT !.script = Tail(@)]
           \/ x = [r EXCEPT !.remote = "err"] /\ faults' # 0
           \/ x = [r EXCEPT !.remote = "err"] /\ ~Accepts(kernel, Head(r.script))
    BY <1>9 DEF RunCommand, Set, Fault
  <2>2. /\ x.op = r.op /\ x.stdin = r.stdin /\ x.pc = r.pc /\ x.sin = r.sin /\ x.sent = r.sent
        /\ x.taken = r.taken /\ x.feed = r.feed
        /\ x.remote = "on" \/ faults' # 0 \/ ~Accepts(kernel, Head(r.script))
    BY <2>1 DEF Shape, Fields
  <2> QED  BY <1>0, <1>9, <2>1, <2>2 DEF Succeeding
<1>10. CASE RemoteExits(c)
  <2>1. x.remote = "ok"
    <3>1. PICK code \in Exits(r) :
        call' = [d \in Calls |->
         [call[d] EXCEPT !.remote = IF d = c THEN code ELSE @,
                         !.events = IF call[d].listen
                                      THEN Append(@, <<c, code>>) ELSE @]]
      BY <1>10 DEF RemoteExits
    <3>2. PICK e : call'[c] = [r EXCEPT !.remote = code, !.events = e]
      BY <3>1
    <3>3. code = "ok"
      BY DEF Exits
    <3> QED  BY <3>2, <3>3 DEF Shape, Fields
  <2> QED  BY <1>10, <2>1, RemoteExitsIs DEF SamePlace, SameInput, Succeeding
<1>11. CASE Emit(c) \/ CopyOutput(c)
  <2>1. \/ x = [r EXCEPT !.out = @ + 1]
        \/ x = [r EXCEPT !.got = @ + 1]
    BY <1>11 DEF Emit, CopyOutput, Set
  <2> QED  BY <2>1 DEF Shape, Fields, Succeeding
<1>12. CASE Abandon(c)
  BY <1>12 DEF Abandon, KubePlace
<1> QED
  BY <1>1, <1>2, <1>3, <1>4, <1>5, <1>6, <1>7, <1>8, <1>9, <1>10, <1>11, <1>12
  DEF KubeAction, KubeStep, Copier, Remote

\* An upload begins without fault, or does not.
LEMMA SucceedingBegins ==
  ASSUME NEW c \in Calls, DOMAIN call = Calls, KubeCall(c), setup.ops = {"upload"},
         faults = 0, faults' = 0
  PROVE  Succeeding(call'[c])
<1>1. PICK x \in KubeCalls : /\ x.op = "upload"
                             /\ KubeCallFails(c, x) \/ KubeCallStarts(c, x)
  BY DEF KubeCall
<1>2. New(x) /\ x.pc = "idle"
  BY KubeCallsAre
<1>3. call'[c] = [x EXCEPT !.pc = "wait"]
  BY <1>1 DEF KubeCallFails, KubeCallStarts, Set, Fault
<1>4. /\ call'[c].pc = "wait" /\ call'[c].remote = x.remote /\ call'[c].sin = x.sin
      /\ call'[c].sent = x.sent /\ call'[c].taken = x.taken
  BY <1>2, <1>3 DEF New, Shape, Fields
<1> QED  BY <1>2, <1>4 DEF New, Succeeding

\* While it is under way no command of it is refused.
LEMMA SucceedingAccepted ==
  ASSUME Calling, UploadInv, 1 \in Calls, setup.engine = "kube", setup.ops = {"upload"},
         Enough, RunCommand(1), call[1].pc # "done"
  PROVE  Accepts(kernel, Head(call[1].script))
<1>1. /\ CommandsOf(Orders, Classed) /\ Len(Classed) \in Nat
      /\ Len(Orders) = 2 + 3 * Len(Classed) /\ Len(Orders) \in Nat
      /\ Firsts(Rules(setup.links, setup.ip), Classed)
  BY CommandsOfUpload
<1>2. PICK p \in 0 .. Len(Orders), o \in Calls \cup {0} : Uploading(p, o)
  BY DEF UploadInv
<1>3. p > 0 => o = 1
  <2> SUFFICES ASSUME p > 0, o # 1 PROVE FALSE
    OBVIOUS
  <2>1. o \in Calls /\ call[o].fed = 1
    BY <1>2 DEF Uploading
  <2>2. call[o].op # "none" /\ 1 < o
    BY <2>1 DEF UploadInv, Uploaded, Calls
  <2> QED  BY <2>1, <2>2 DEF UploadInv, InTurn
<1>4. call[1].script = Rest(p) /\ call[1].script # <<>>
  <2>1. call[1].script # <<>>
    BY DEF RunCommand
  <2> QED  BY <1>2, <1>3, <2>1 DEF Uploading
<1>5. p # Len(Orders) /\ \A k \in 0 .. Len(Orders) - 1 : Head(Rest(k)) = Orders[k + 1]
  <2>1. Orders \in Seq({Orders[k] : k \in 1 .. Len(Orders)})
    BY <1>1 DEF CommandsOf
  <2> QED  BY <1>4, <2>1, RestIs
<1>6. p \in 0 .. Len(Orders) - 1 /\ p \in 0 .. 1 + 3 * Len(Classed)
  <2>1. p # Len(Orders) /\ p \in 0 .. Len(Orders)
    BY <1>5
  <2>2. Len(Orders) = 2 + 3 * Len(Classed) /\ Len(Orders) \in Nat /\ Len(Classed) \in Nat
    BY <1>1
  <2> HIDE DEF Uploading
  <2> QED  BY <2>1, <2>2
<1>14. Head(call[1].script) = Orders[p + 1] /\ kernel = After(Classed, p)
  BY <1>2, <1>4, <1>5, <1>6 DEF Uploading
<1> DEFINE rules == Rules(setup.links, setup.ip)
           known == {rule.ip : rule \in ToSet(rules)}
<1>7. PICK T : rules \in Seq(T)
  <2>1. Keeps(setup.topo, setup.node, setup.links)
    BY SetupOfUpload, LinksKeep
  <2>2. setup.links \in Seq({setup.links[k] : k \in 1 .. Len(setup.links)})
    BY <2>1 DEF Keeps
  <2> QED  BY <2>2, RulesAre
<1>8. NoIP \notin known /\ 10 * Cardinality(known) <= MaxMinor
  BY DEF Enough
<1>9. Classed = FirstRules(rules)
  BY DEF Classed
<1>10. Firsts(rules, Classed)
  BY <1>1
<1> HIDE DEF rules, Classed
<1>11. Len(Classed) <= Cardinality(known) /\ Cardinality(known) \in Nat
  BY <1>7, <1>9, FewRules
<1>12. \A i \in 1 .. Len(Classed) : Classed[i].ip # NoIP
  <2> SUFFICES ASSUME NEW i \in 1 .. Len(Classed) PROVE Classed[i].ip # NoIP
    OBVIOUS
  <2>1. PICK k \in 1 .. Len(rules) : Classed[i] = rules[k]
    BY <1>10 DEF Firsts
  <2>2. rules[k] \in ToSet(rules)
    BY <1>7, <2>1 DEF ToSet
  <2>3. rules[k].ip \in known
    BY <2>2
  <2> QED  BY <1>8, <2>1, <2>3
<1>13. 10 * Len(Classed) <= MaxMinor
  <2> HIDE DEF known
  <2> QED  BY <1>1, <1>8, <1>11, NetemAssumption
<1> QED  BY <1>1, <1>6, <1>14, <1>12, <1>13, NextAccepted

\* No call has been made.
LEMMA InitFirst == Init => FirstInv
BY NoCallIs DEF Init, FirstInv

\* No step of a round makes the first upload fail.
LEMMA NextFirst == Calling /\ CutInv /\ UploadInv /\ FirstInv /\ [Next]_vars => FirstInv'
<1> SUFFICES ASSUME Calling, CutInv, UploadInv, FirstInv, [Next]_vars,
                    1 \in Calls, call'[1].op = "upload", call'[1].stdin = "eof",
                    faults' = 0, Enough'
             PROVE  Succeeding(call'[1])
  BY DEF FirstInv, Calls
<1>1. CASE Next
  <2>1. PICK c \in Calls : Action(c) /\ (setup.engine = "kube" => KubeAction(c))
    BY <1>1, StepOfEngine
  <2>2. /\ DOMAIN call = Calls /\ setup' = setup /\ faults' \in {faults, faults + 1}
        /\ \A d \in Calls \ {c} : Apart(call[d], call'[d])
    BY <2>1, OthersApart DEF Calling
  <2>3. setup.engine = "kube" /\ setup.ops = {"upload"}
    <3>1. Calling' /\ CutInv'
      BY NextCalling, NextCut
    <3>2. setup.engine = "kube"
      <4>1. setup.engine = "docker" => call'[1].op # "upload"
        BY <2>2, <3>1 DEF Calling, DockerRecord, DockerPlace
      <4> QED  BY <4>1, Engines
    <3>3. "upload" \in setup.ops
      BY <2>2, <3>1, <3>2 DEF CutInv
    <3> QED  BY <3>2, <3>3, RoundUploads
  <2>4. KubeAction(c) /\ \A d \in Calls : KubeRecord(call[d])
    BY <2>1, <2>3 DEF Calling
  <2>5. faults = 0 /\ Enough
    BY <2>2 DEF Calling, Enough
  <2>6. CASE c # 1
    <3>1. /\ SamePlace(call[1], call'[1]) /\ SameInput(call[1], call'[1])
          /\ call'[1].remote = call[1].remote
      BY <2>2, <2>4, <2>6, ApartIs DEF KubeRecord
    <3> QED  BY <2>5, <3>1 DEF SamePlace, SameInput, FirstInv, Succeeding
  <2>7. CASE c = 1 /\ KubeCall(c)
    BY <2>2, <2>3, <2>5, <2>7, SucceedingBegins
  <2>8. CASE c = 1 /\ ~KubeCall(c)
    <3>1. call[1].op = "upload"
      BY <2>2, <2>4, <2>8, OpKept
    <3>2. RunCommand(1) /\ call[1].pc # "done" => Accepts(kernel, Head(call[1].script))
      BY <2>3, <2>5, SucceedingAccepted
    <3>3. call[1].stdin = "eof" => Succeeding(call[1])
      BY <2>5, <3>1 DEF FirstInv
    <3> QED  BY <2>2, <2>4, <2>5, <2>8, <3>1, <3>2, <3>3, SucceedingKept
  <2> QED  BY <2>6, <2>7, <2>8
<1>2. CASE UNCHANGED vars
  BY <1>2 DEF vars, FirstInv, Enough
<1> QED  BY <1>1, <1>2

\* The first upload of the rules fails only when something else does: the
\* commands of one emulator never refuse one another.
THEOREM FirstSucceeds == Spec => []FirstUploadSucceeds
<1>1. ASSUME Calling, CutInv, UploadInv, FirstInv, NEW c \in Calls,
             call[c].op = "upload", call[c].pc = "done", faults = 0, call[c].stdin = "eof",
             \A d \in 1 .. c - 1 : call[d].op # "upload", Enough
      PROVE  call[c].res = "ok"
  <2>1. setup.engine = "kube" /\ setup.ops = {"upload"}
    <3>1. setup.engine = "kube"
      BY <1>1, Engines DEF Calling, DockerRecord, DockerPlace
    <3>2. "upload" \in setup.ops
      BY <1>1, <3>1 DEF CutInv
    <3> QED  BY <1>1, <3>1, <3>2, RoundUploads
  <2>2. c = 1
    <3> SUFFICES ASSUME c # 1 PROVE FALSE
      OBVIOUS
    <3>1. 1 \in Calls /\ 1 \in 1 .. c - 1 /\ 1 < c
      BY NodeAssumption DEF Calls
    <3>2. call[1].op = "none"
      BY <1>1, <2>1, <3>1 DEF UploadInv, Uploaded
    <3>3. call[1].pc = "idle"
      BY <1>1, <2>1, <3>1, <3>2 DEF Calling, KubeRecord, KubePlace
    <3>4. call[1].pc = "done"
      BY <1>1, <2>1, <3>1 DEF UploadInv, InTurn
    <3> QED  BY <3>3, <3>4
  <2> QED  BY <1>1, <2>2 DEF FirstInv, Succeeding
<1>2. Calling /\ CutInv /\ UploadInv /\ FirstInv => FirstUploadSucceeds
  BY <1>1 DEF FirstUploadSucceeds, Enough
<1> QED
  BY <1>2, InitCut, NextCut, InitUpload, NextUpload, InitFirst, NextFirst, CallingInvariance, PTL
  DEF Spec
=============================================================================
