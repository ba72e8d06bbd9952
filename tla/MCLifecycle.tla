---------------------------- MODULE MCLifecycle ----------------------------
(* Small instance of Lifecycle for TLC.                                    *)
EXTENDS Lifecycle
=============================================================================
