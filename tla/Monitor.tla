------------------------------ MODULE Monitor ------------------------------
(***************************************************************************)
(* The monitor daemon that runs beside the application in every simulation *)
(* pod (daemon/monitor).  Three threads share two buffered channels, one   *)
(* unbuffered channel and the body of a Docker stats request:              *)
(*                                                                         *)
(*   Docker --body--> decoder --chanData--> forwarder --m.c--> main --file *)
(*                       \------chanErr------/                             *)
(*                                                                         *)
(* main also takes SIGTERM and then stops the monitor.  Samples are        *)
(* numbered by their position in the stats stream.                         *)
(***************************************************************************)
EXTENDS Naturals, Sequences

CONSTANT MaxSamples     \* bound on the samples the Docker daemon emits

ASSUME MaxSamplesAssumption == MaxSamples \in Nat

VARIABLES
  body,       \* the stats stream: "none", "open", "broken" (ended by
              \*   Docker or the network) or "closed" (by Stop)
  emitted,    \* samples Docker has written to the body
  decoded,    \* samples the decoder has read from the body
  decoder,    \* thread 1: "off", "decode", "push", "report", "done"
  chanData,   \* chan *types.StatsJSON, capacity 1
  chanErr,    \* chan error, capacity 1: the reason of the error in it
  forwarder,  \* thread 2: "off", "select", "gather", "send", "done"
  held,       \* the sample the forwarder works on
  closing,    \* the closing channel is closed
  logged,     \* the reason of the error printed by the forwarder
  sigterm,    \* a signal waits in sigc, capacity 1
  main,       \* thread 3, see Main
  line,       \* the sample main has received and not yet written
  file        \* the samples written to the output file, one per line

docker  == <<body, emitted>>
decVars == <<decoded, decoder>>
fwdVars == <<forwarder, held, logged>>
outVars == <<line, file>>
vars    == <<body, emitted, decoded, decoder, chanData, chanErr, forwarder,
             held, closing, logged, sigterm, main, line, file>>

Samples == 1 .. MaxSamples
Main    == {"start", "select", "write", "stop", "wait", "closeBody",
            "closeFile", "exit", "panic"}
Ended   == {"exit", "panic"}

\* The process is gone once main has returned or a checkErr has panicked.
Alive == main \notin Ended

TypeOK ==
  /\ body \in {"none", "open", "broken", "closed"}
  /\ emitted \in 0 .. MaxSamples
  /\ decoded \in 0 .. MaxSamples
  /\ decoder \in {"off", "decode", "push", "report", "done"}
  /\ chanData \in Seq(Samples) /\ Len(chanData) <= 1
  /\ chanErr \in {"none", "broken", "closed"}
  /\ forwarder \in {"off", "select", "gather", "send", "done"}
  /\ held \in 0 .. MaxSamples
  /\ closing \in BOOLEAN
  /\ logged \in {"none", "broken", "closed"}
  /\ sigterm \in BOOLEAN
  /\ main \in Main
  /\ line \in 0 .. MaxSamples
  /\ file \in Seq(Samples)

Init ==
  /\ body = "none" /\ emitted = 0
  /\ decoded = 0   /\ decoder = "off"
  /\ chanData = <<>> /\ chanErr = "none"
  /\ forwarder = "off" /\ held = 0 /\ logged = "none"
  /\ closing = FALSE /\ sigterm = FALSE
  /\ main = "start" /\ line = 0 /\ file = <<>>

-----------------------------------------------------------------------------
(* The environment: the Docker daemon and the signal sent by docker stop.  *)

Emit ==
  /\ Alive /\ body = "open" /\ emitted < MaxSamples
  /\ emitted' = emitted + 1
  /\ UNCHANGED <<body, decVars, chanData, chanErr, fwdVars, closing, sigterm,
                 main, outVars>>

Break ==
  /\ Alive /\ body = "open"
  /\ body' = "broken"
  /\ UNCHANGED <<emitted, decVars, chanData, chanErr, fwdVars, closing,
                 sigterm, main, outVars>>

Signal ==
  /\ Alive /\ ~sigterm
  /\ sigterm' = TRUE
  /\ UNCHANGED <<docker, decVars, chanData, chanErr, fwdVars, closing, main,
                 outVars>>

-----------------------------------------------------------------------------
(* defaultMonitor.Start: any of its calls may fail, and main panics.       *)

Start ==
  /\ main = "start"
  /\ body' = "open" /\ decoder' = "decode" /\ forwarder' = "select"
  /\ main' = "select"
  /\ UNCHANGED <<emitted, decoded, chanData, chanErr, held, logged, closing,
                 sigterm, outVars>>

StartFails ==
  /\ main = "start"
  /\ main' = "panic"
  /\ UNCHANGED <<docker, decVars, chanData, chanErr, fwdVars, closing,
                 sigterm, outVars>>

-----------------------------------------------------------------------------
(* Thread 1 decodes samples until the first error.                         *)

DecodeSample ==
  /\ Alive /\ decoder = "decode" /\ body # "closed" /\ decoded < emitted
  /\ decoded' = decoded + 1
  /\ decoder' = "push"
  /\ UNCHANGED <<docker, chanData, chanErr, fwdVars, closing, sigterm, main,
                 outVars>>

\* Mutant: a channel of capacity two.
PushBeyondCapacity ==
  /\ Alive /\ decoder = "push" /\ Len(chanData) < 2
  /\ chanData' = Append(chanData, decoded)
  /\ decoder' = "decode"
  /\ UNCHANGED <<docker, decoded, chanErr, fwdVars, closing, sigterm, main,
                 outVars>>

PushSample ==
  /\ Alive /\ decoder = "push" /\ chanData = <<>>
  /\ chanData' = <<decoded>>
  /\ decoder' = "decode"
  /\ UNCHANGED <<docker, decoded, chanErr, fwdVars, closing, sigterm, main,
                 outVars>>

\* chanErr has room: this is the only send the thread makes on it.
DecodeError ==
  /\ Alive /\ decoder = "decode" /\ body \in {"broken", "closed"}
  /\ chanErr' = body
  /\ decoder' = "done"
  /\ UNCHANGED <<docker, decoded, chanData, fwdVars, closing, sigterm, main,
                 outVars>>

-----------------------------------------------------------------------------
(* Thread 2 selects among the closing channel, an error and a sample; Go   *)
(* picks any case that is ready.                                           *)

\* Mutant: the closing case returns without m.wg.Done().
TakeClosingWithoutDone ==
  /\ Alive /\ forwarder = "select" /\ closing
  /\ forwarder' = "off"
  /\ UNCHANGED <<docker, decVars, chanData, chanErr, held, logged, closing,
                 sigterm, main, outVars>>

TakeClosing ==
  /\ Alive /\ forwarder = "select" /\ closing
  /\ forwarder' = "done"
  /\ UNCHANGED <<docker, decVars, chanData, chanErr, held, logged, closing,
                 sigterm, main, outVars>>

TakeError ==
  /\ Alive /\ forwarder = "select" /\ chanErr # "none"
  /\ logged' = chanErr
  /\ chanErr' = "none"
  /\ forwarder' = "done"
  /\ UNCHANGED <<docker, decVars, chanData, held, closing, sigterm, main,
                 outVars>>

TakeSample ==
  /\ Alive /\ forwarder = "select" /\ chanData # <<>>
  /\ held' = Head(chanData)
  /\ chanData' = <<>>
  /\ forwarder' = "gather"
  /\ UNCHANGED <<docker, decVars, chanErr, logged, closing, sigterm, main,
                 outVars>>

\* Mutant: a failed gatherNetworkStats drops the sample.
GatherOrDrop ==
  /\ Alive /\ forwarder = "gather"
  /\ forwarder' \in {"send", "select"}
  /\ UNCHANGED <<docker, decVars, chanData, chanErr, held, logged, closing,
                 sigterm, main, outVars>>

\* Mutant: a failed gatherNetworkStats ends the thread.
GatherOrReturn ==
  /\ Alive /\ forwarder = "gather"
  /\ forwarder' \in {"send", "done"}
  /\ UNCHANGED <<docker, decVars, chanData, chanErr, held, logged, closing,
                 sigterm, main, outVars>>

\* gatherNetworkStats may fail; the sample is sent in either case.
GatherNetworkStats ==
  /\ Alive /\ forwarder = "gather"
  /\ forwarder' = "send"
  /\ UNCHANGED <<docker, decVars, chanData, chanErr, held, logged, closing,
                 sigterm, main, outVars>>

\* m.c is unbuffered: the forwarder and main step together.
Deliver ==
  /\ forwarder = "send" /\ main = "select"
  /\ line' = held
  /\ main' = "write"
  /\ forwarder' = "select"
  /\ UNCHANGED <<docker, decVars, chanData, chanErr, held, logged, closing,
                 sigterm, file>>

-----------------------------------------------------------------------------
(* Thread 3, main: writes each sample it receives; on SIGTERM it calls     *)
(* Stop, which closes the closing channel, waits for the forwarder (the    *)
(* WaitGroup counts it alone) and closes the body.                         *)

\* Mutant: the line stays in the buffer and is flushed again.
WriteLineTwice ==
  /\ main = "write"
  /\ file' = file \o <<line, line>>
  /\ main' = "select"
  /\ UNCHANGED <<docker, decVars, chanData, chanErr, fwdVars, closing,
                 sigterm, line>>

WriteLine ==
  /\ main = "write"
  /\ file' = Append(file, line)
  /\ main' = "select"
  /\ UNCHANGED <<docker, decVars, chanData, chanErr, fwdVars, closing,
                 sigterm, line>>

TakeSignal ==
  /\ main = "select" /\ sigterm
  /\ sigterm' = FALSE
  /\ main' = "stop"
  /\ UNCHANGED <<docker, decVars, chanData, chanErr, fwdVars, closing,
                 outVars>>

StopClosing ==
  /\ main = "stop"
  /\ closing' = TRUE
  /\ main' = "wait"
  /\ UNCHANGED <<docker, decVars, chanData, chanErr, fwdVars, sigterm,
                 outVars>>

\* Mutant: Stop does not wait for the forwarder.
StopWithoutWait ==
  /\ main = "wait"
  /\ main' = "closeBody"
  /\ UNCHANGED <<docker, decVars, chanData, chanErr, fwdVars, closing,
                 sigterm, outVars>>

StopWait ==
  /\ main = "wait" /\ forwarder = "done"
  /\ main' = "closeBody"
  /\ UNCHANGED <<docker, decVars, chanData, chanErr, fwdVars, closing,
                 sigterm, outVars>>

StopCloseBody ==
  /\ main = "closeBody"
  /\ body' = "closed"
  /\ main' = "closeFile"
  /\ UNCHANGED <<emitted, decVars, chanData, chanErr, fwdVars, closing,
                 sigterm, outVars>>

CloseFile ==
  /\ main = "closeFile"
  /\ main' = "exit"
  /\ UNCHANGED <<docker, decVars, chanData, chanErr, fwdVars, closing,
                 sigterm, outVars>>

\* checkErr: the write, the close of the body or of the file failed.
Panic ==
  /\ main \in {"write", "closeBody", "closeFile"}
  /\ main' = "panic"
  /\ UNCHANGED <<docker, decVars, chanData, chanErr, fwdVars, closing,
                 sigterm, outVars>>

-----------------------------------------------------------------------------
Decoder   == DecodeSample \/ PushSample \/ DecodeError
Forwarder == TakeClosing \/ TakeError \/ TakeSample \/ GatherNetworkStats
MainSteps == \/ Start \/ StartFails \/ Deliver \/ WriteLine \/ TakeSignal
             \/ StopClosing \/ StopWait \/ StopCloseBody \/ CloseFile \/ Panic

Next == Emit \/ Break \/ Signal \/ Decoder \/ Forwarder \/ MainSteps

Spec == Init /\ [][Next]_vars

\* The Go scheduler runs every thread that can step; Docker and the sender
\* of the signal owe nothing.
Fairness == WF_vars(Decoder) /\ WF_vars(Forwarder) /\ WF_vars(MainSteps)

FairSpec == Spec /\ Fairness

-----------------------------------------------------------------------------
\* The output file holds the samples of the stream in order: no sample is
\* lost, written twice or overtaken between the decoder and main.
LinesFollowStream == \A i \in 1 .. Len(file) : file[i] = i

\* The forwarder never prints the error that Stop itself provokes by closing
\* the body: Stop waits for it first ("so that we don't get an IO misleading
\* error").
NoMisleadingError == logged # "closed"

\* A slow file holds the stream back: at most one sample waits in each of the
\* decoder, chanData, the forwarder and main, however long the run is.
BackPressure == decoded <= Len(file) + 4

\* The monitor implements the pipe that its reader relies on: lines are only
\* ever appended, one at a time, each the next sample of the stream.
Pipe == INSTANCE StatsPipe WITH written <- file

PipeSpec == Pipe!Spec

\* A sample is written to the file unless the stream breaks, a signal comes
\* or main stops.
SampleWritten ==
  \A n \in Samples :
    (emitted >= n) ~> \/ Len(file) >= n
                      \/ body # "open" \/ sigterm
                      \/ main \notin {"select", "write"}

\* The only thing that can hold Stop is a forwarder that sends on m.c, which
\* main no longer receives from.
StopWaitsOnlyForSend ==
  (main = "wait") ~> (main \in Ended \/ forwarder = "send")

\* Stop returns: "Wait for the go routines to complete"
\* (daemon/monitor/mod.go:173), and the process ends on SIGTERM ("to
\* gracefully stop the containers", daemon/monitor/main.go:37).
StopCompletes == (main = "stop") ~> (main \in Ended)
=============================================================================
