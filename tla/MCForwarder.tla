---------------------------- MODULE MCForwarder ----------------------------
(* Small instance of Forwarder for TLC.                                    *)
EXTENDS Forwarder

CONSTANTS c1, c2

MCConns == {c1, c2}
=============================================================================
