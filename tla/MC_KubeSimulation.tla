------------------------- MODULE MC_KubeSimulation -------------------------
(* Two nodes; processes one after the other, with any short command line.   *)
EXTENDS KubeSimulation, TLC
CONSTANTS n1, n2, p1, p2
MCNodes == {n1, n2}
MCPids  == {p1, p2}
Symmetry == Permutations(MCNodes) \cup Permutations(MCPids)
=============================================================================
