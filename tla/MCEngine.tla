------------------------------ MODULE MCEngine ------------------------------
(* Small instance of Engine for TLC.                                       *)
EXTENDS Engine, TLC

CONSTANTS d1, h1

MCDockerKeys == {d1}
MCHostKeys == {h1}
\* The container's published port is the host's socket.
MCPublishes == d1 :> {h1}
MCPicked == {h1}
=============================================================================
