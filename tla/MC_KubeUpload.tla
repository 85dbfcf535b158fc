--------------------------- MODULE MC_KubeUpload ---------------------------
(* Three pods, each with the label of a node of its own.                   *)
EXTENDS KubeUpload, TLC
CONSTANTS p1, p2, p3, n1, n2, n3
MCPods     == {p1, p2, p3}
OwnLabels  == p1 :> n1 @@ p2 :> n2 @@ p3 :> n3
=============================================================================
