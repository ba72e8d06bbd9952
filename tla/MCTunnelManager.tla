-------------------------- MODULE MCTunnelManager --------------------------
(* Small instances of TunnelManager for TLC.                               *)
EXTENDS TunnelManager, TLC

CONSTANTS k1, k2, u1, t1, t2

\* Two tunnels that compete for the ports, for safety.
MCTwoTunnels == {k1, k2}
MCNoUdp == {}

\* One tunnel and one row SSH cannot carry, for liveness.
MCTunnelAndUdp == {k1, u1}
MCUdp == {u1}

\* A published port is the preferred local port.
MCTargets == {t1, t2}
MCPreferred == (t1 :> 1) @@ (t2 :> 2)

MCIds == 1..3
MCForeignPorts == {1}
=============================================================================
