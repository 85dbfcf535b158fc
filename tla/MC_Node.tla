------------------------------- MODULE MC_Node -------------------------------
(* A topology of each kind; the simple one is asked for more nodes than    *)
(* MaxSize, and a node of the full one has more targets than MaxMinor has  *)
(* classes for.                                                            *)
EXTENDS Node
Area(n, latency, x, y) == [n |-> n, latency |-> latency, x |-> x, y |-> y]
Input(from, to, ms)    == [from |-> from, to |-> to, latency |-> ms * Milli]
MCTopologies ==
  { [kind |-> "simple", n |-> 4, delay |-> 1500],
    [kind |-> "cloud", n |-> 2],
    [kind |-> "area", areas |-> << Area(2, 20 * Milli, 0, 0),
                                   Area(1, 0, 3, 5) >>],
    [kind |-> "full", inputs |-> << Input(0, 1, 30), Input(1, 0, 40),
                                    Input(0, 1, 50), Input(0, 2, 0),
                                    Input(1, 1, 10), Input(2, 0, 5),
                                    Input(2, 1, 6), Input(2, 2, 7) >>] }
=============================================================================
