--------------------------- MODULE MC_KubeRouter ---------------------------
(* Two other services, two files, and a router pod that may be replaced.   *)
EXTENDS KubeRouter
CONSTANTS ca, key, svc1, svc2
MCFiles  == {ca, key}
MCOthers == {svc1, svc2}
=============================================================================
