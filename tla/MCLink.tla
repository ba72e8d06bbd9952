------------------------------- MODULE MCLink -------------------------------
(* Small instance of Link for TLC: a host dialed directly, one dialed over   *)
(* a jump host, one whose jump host has a ProxyJump of its own.              *)
EXTENDS Link

CONSTANTS w1, w2, direct, tunneled, nested

MCWaiters == {w1, w2}
MCHosts == {direct, tunneled, nested}
MCProxyJump ==
  [h \in MCHosts |-> CASE h = direct   -> <<>>
                       [] h = tunneled -> <<direct>>
                       [] h = nested   -> <<tunneled>>]
=============================================================================
