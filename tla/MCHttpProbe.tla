---------------------------- MODULE MCHttpProbe ----------------------------
(* Small instance of HttpProbe for TLC.                                    *)
EXTENDS HttpProbe

CONSTANTS a, b

MCTunnels == {a, b}
=============================================================================
