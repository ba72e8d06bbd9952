----------------------------- MODULE ReadyGate -----------------------------
(***************************************************************************)
(* What Conn.WaitReady promises its callers, without the channel, the      *)
(* lock and the dial loop that keep the promise ("WaitReady blocks until   *)
(* the connection is up, ctx ends, or Run exits", keepalive.go): a gate    *)
(* that opens and shuts and in the end is removed, and callers who pass    *)
(* while it is open, are turned away once it is removed, or lose patience. *)
(***************************************************************************)
CONSTANT Waiters   \* goroutines that call WaitReady

VARIABLES
  gate,    \* "down", "up", or "removed" for good
  caller   \* of each waiter: waiting, or how its last call ended

vars == <<gate, caller>>

Answers == {"client", "closed", "cancelled"}

Init ==
  /\ gate = "down"
  /\ caller = [w \in Waiters |-> "none"]

Open   == gate = "down" /\ gate' = "up" /\ UNCHANGED caller
Shut   == gate = "up" /\ gate' = "down" /\ UNCHANGED caller
Remove == gate = "down" /\ gate' = "removed" /\ UNCHANGED caller

Ends(w, answer) ==
  /\ caller[w] = "waiting"
  /\ caller' = [caller EXCEPT ![w] = answer]
  /\ UNCHANGED gate

Call(w) ==
  /\ caller[w] # "waiting"
  /\ caller' = [caller EXCEPT ![w] = "waiting"]
  /\ UNCHANGED gate

Pass(w)       == gate = "up" /\ Ends(w, "client")
TurnedAway(w) == gate = "removed" /\ Ends(w, "closed")
GivesUp(w)    == Ends(w, "cancelled")

Next ==
  \/ Open \/ Shut \/ Remove
  \/ \E w \in Waiters : Call(w) \/ Pass(w) \/ TurnedAway(w) \/ GivesUp(w)

Spec == Init /\ [][Next]_vars

\* Nobody is left waiting in front of a gate that stays open or is gone: what
\* weak fairness of Pass and TurnedAway says, in terms of states.
Fairness == \A w \in Waiters : []<>(caller[w] # "waiting" \/ gate = "down")

FairSpec == Spec /\ Fairness
=============================================================================
