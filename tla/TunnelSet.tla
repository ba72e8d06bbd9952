----------------------------- MODULE TunnelSet -----------------------------
(***************************************************************************)
(* What Manager promises the engine, without its maps, its lock, the       *)
(* search for a port and the forwarders ("Manager keeps the set of live    *)
(* local listeners equal to what discovery reports", manager.go): each     *)
(* request says what is wanted, and is settled once what is open is what   *)
(* is wanted, but for the keys that got no port.  No two tunnels share a   *)
(* port, and one that is wanted stays until the end.                       *)
(***************************************************************************)
CONSTANTS
  Keys, Targets,
  Ports,      \* ports a tunnel may open
  NoTarget    \* not wanted

VARIABLES
  wanted,    \* key -> the target it is to be forwarded to, or NoTarget
  refused,   \* the keys that got no port since the last request
  open,      \* the tunnels that are open
  taken,     \* ports of other processes
  settled,   \* no request is being carried out
  ended      \* the end has come

vars == <<wanted, refused, open, taken, settled, ended>>

Tunnels == [key : Keys, target : Targets, port : Ports]

Init ==
  /\ wanted = [k \in Keys |-> NoTarget]
  /\ refused = {} /\ open = {} /\ taken = {}
  /\ settled = TRUE /\ ended = FALSE

Wanted(t) == wanted[t.key] = t.target
IsOpen(k) == \E t \in open : t.key = k /\ Wanted(t)
PortsInUse == taken \cup {t.port : t \in open}

Request(want) ==
  /\ settled /\ settled' = FALSE
  /\ wanted' = want
  /\ refused' = {}
  /\ UNCHANGED <<open, taken, ended>>

\* Until the end a key is forwarded once.
Open(t) ==
  /\ ~settled
  /\ Wanted(t) /\ t.key \notin refused
  /\ ended \/ ~IsOpen(t.key)
  /\ t.port \notin PortsInUse
  /\ open' = open \cup {t}
  /\ UNCHANGED <<wanted, refused, taken, settled, ended>>

Refuse(k) ==
  /\ ~settled
  /\ wanted[k] # NoTarget
  /\ ended \/ ~IsOpen(k)
  /\ refused' = refused \cup {k}
  /\ UNCHANGED <<wanted, open, taken, settled, ended>>

Shut(t) ==
  /\ t \in open
  /\ ended \/ ~Wanted(t)
  /\ open' = open \ {t}
  /\ UNCHANGED <<wanted, refused, taken, settled, ended>>

Settle ==
  /\ ~settled /\ settled' = TRUE
  /\ \/ ended
     \/ /\ \A t \in open : Wanted(t)
        /\ \A k \in Keys : wanted[k] # NoTarget => IsOpen(k) \/ k \in refused
  /\ UNCHANGED <<wanted, refused, open, taken, ended>>

End ==
  /\ ended' = TRUE
  /\ UNCHANGED <<wanted, refused, open, taken, settled>>

Take(p) ==
  /\ p \notin PortsInUse
  /\ taken' = taken \cup {p}
  /\ UNCHANGED <<wanted, refused, open, settled, ended>>

GiveBack(p) ==
  /\ taken' = taken \ {p}
  /\ UNCHANGED <<wanted, refused, open, settled, ended>>

Next ==
  \/ \E want \in [Keys -> Targets \cup {NoTarget}] : Request(want)
  \/ \E t \in Tunnels : Open(t) \/ Shut(t)
  \/ \E k \in Keys : Refuse(k)
  \/ Settle \/ End
  \/ \E p \in taken' : Take(p)
  \/ \E p \in taken : GiveBack(p)

Spec == Init /\ [][Next]_vars

\* After the end every tunnel shuts, one that opened even later included: what
\* weak fairness of Shut says then, in terms of states.
Fairness == \A t \in Tunnels : []<>(t \notin open \/ ~ended)

FairSpec == Spec /\ Fairness
=============================================================================
