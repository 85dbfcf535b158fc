--------------------------- MODULE MC_KubeDeploy ---------------------------
(* Two nodes and a pod left by an earlier topology.                        *)
EXTENDS KubeDeploy, TLC
CONSTANTS n1, n2, old
MCNodes   == {n1, n2}
MCOldPods == {old}
=============================================================================
