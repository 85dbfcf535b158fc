------------------------ MODULE MC_DockerSimulation ------------------------
(* Two nodes; two processes, one after the other, with any short line.     *)
EXTENDS DockerSimulation, TLC
CONSTANTS n1, n2
MCNodes == {n1, n2}
Symmetry == Permutations(MCNodes)
=============================================================================
