---------------------------- MODULE MC_KubeClean ----------------------------
(* Two nodes and the router.                                               *)
EXTENDS KubeClean
CONSTANTS a1, a2, router
MCApps   == {a1, a2}
=============================================================================
