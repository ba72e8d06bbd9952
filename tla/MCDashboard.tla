---------------------------- MODULE MCDashboard ----------------------------
(* A small instance of Dashboard for TLC.                                  *)
EXTENDS Dashboard, TLC

CONSTANTS tcp, udp, web

\* Two rows of one container that agree in name and port, and a host socket.
MCKeys == {tcp, udp, web}
MCRank == (tcp :> 1) @@ (udp :> 1) @@ (web :> 2)
MCSource == (tcp :> "docker") @@ (udp :> "docker") @@ (web :> "host")
MCLocalPort == (tcp :> 3) @@ (udp :> 2) @@ (web :> 1)
MCRemoteKey == (tcp :> 1) @@ (udp :> 2) @@ (web :> 0)

\* One text finds the socket, its first letter also every row that is on.
MCHits == (<<>> :> {}) @@ (<<"a">> :> {"ACTIVE", "LISTENING", web})
            @@ (<<"a", "b">> :> {web})

MCDiscovered == {tcp, web}

MCSourceFilters == <<"all", "host">>
MCSortModes == <<"name", "local", "traffic", "remote">>
=============================================================================
