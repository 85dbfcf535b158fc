----------------------------- MODULE StatsPipe -----------------------------
(***************************************************************************)
(* What the monitor daemon promises to whoever reads its file: the samples *)
(* of the stats stream, in order, each once, with a lag but without a gap. *)
(***************************************************************************)
EXTENDS Naturals, Sequences

CONSTANT MaxSamples     \* bound on the samples the Docker daemon emits

VARIABLES
  emitted,  \* samples of the stream so far
  written   \* the lines of the file

Init == emitted = 0 /\ written = <<>>

Sample ==
  /\ emitted < MaxSamples
  /\ emitted' = emitted + 1
  /\ UNCHANGED written

Write ==
  /\ Len(written) < emitted
  /\ written' = Append(written, Len(written) + 1)
  /\ UNCHANGED emitted

Next == Sample \/ Write

Spec == Init /\ [][Next]_<<emitted, written>>
=============================================================================
