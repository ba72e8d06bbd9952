----------------------------- MODULE HttpProbe -----------------------------
(***************************************************************************)
(* forwarder.probe and internal/probe: each tunnel asks its service once   *)
(* whether it speaks HTTP, over TLS first and then in the clear, while at  *)
(* most MaxProbes of them hold a slot.                                     *)
(*                                                                         *)
(* The service and the network are modelled by what an attempt sees: an    *)
(* answer that fits the service, or none, because the link dropped or the  *)
(* timeout came first.                                                     *)
(***************************************************************************)
EXTENDS Naturals, FiniteSets

CONSTANTS
  Tunnels,    \* forwarders that probe
  MaxProbes   \* maxConcurrentProbes

ASSUME ProbeAssumption == IsFiniteSet(Tunnels) /\ MaxProbes \in Nat \ {0}

VARIABLES
  service,  \* what listens behind each tunnel
  place,    \* where each probe stands
  slots,    \* how many values probeSlots holds
  open,     \* tunnels whose probe has an SSH channel open
  stale,    \* tunnels whose probe holds a client that is gone
  found,    \* Detect's result, before probe stores it
  scheme,   \* forwarder.scheme
  missed,   \* history: an attempt was lost to the link or the timeout
  linkUp,   \* the client function returns a client
  ended     \* tunnels whose context is cancelled

vars == <<service, place, slots, open, stale, found, scheme, missed, linkUp, ended>>

Services == {"https", "http", "other", "silent"}
Places == {"queue", "client", "wait", "tlsDial", "tlsRead", "plainDial", "plainRead",
           "verdict", "done"}

\* Between taking a slot and the deferred release.
HoldsSlot(t) == place[t] \notin {"queue", "done"}

Goto(t, p) == place' = [place EXCEPT ![t] = p]

\* A definition named Faulty... is a seeded fault: the definition that follows
\* it with a plausible slip of the code.  Nothing uses it; the properties below
\* are expected to reject it.

Init ==
  /\ service \in [Tunnels -> Services]
  /\ place = [t \in Tunnels |-> "queue"]
  /\ slots = 0
  /\ open = {} /\ stale = {}
  /\ found = [t \in Tunnels |-> "none"]
  /\ scheme = [t \in Tunnels |-> "unset"]
  /\ missed = {}
  /\ linkUp \in BOOLEAN
  /\ ended = {}

-----------------------------------------------------------------------------
(* probe.                                                                  *)

HasSlot == slots < MaxProbes

TakeSlot(t) ==
  /\ place[t] = "queue"
  /\ HasSlot
  /\ slots' = slots + 1
  /\ Goto(t, "client")
  /\ UNCHANGED <<service, open, stale, found, scheme, missed, linkUp, ended>>

LeaveQueue(t) ==
  /\ place[t] = "queue"
  /\ t \in ended
  /\ Goto(t, "done")
  /\ UNCHANGED <<service, slots, open, stale, found, scheme, missed, linkUp, ended>>

FaultyFirst == "plainDial"
First == "tlsDial"

GetClient(t) ==
  /\ place[t] = "client"
  /\ linkUp
  /\ stale' = stale \ {t}
  /\ Goto(t, First)
  /\ UNCHANGED <<service, slots, open, found, scheme, missed, linkUp, ended>>

\* SSH is down: look again in a second, keeping the slot.
NoClient(t) ==
  /\ place[t] = "client"
  /\ ~linkUp
  /\ Goto(t, "wait")
  /\ UNCHANGED <<service, slots, open, stale, found, scheme, missed, linkUp,
                 ended>>

LookAgain(t) ==
  /\ place[t] = "wait"
  /\ Goto(t, "client")
  /\ UNCHANGED <<service, slots, open, stale, found, scheme, missed, linkUp,
                 ended>>

FaultySlotsAfterWait == slots
SlotsAfterWait == slots - 1

StopWaiting(t) ==
  /\ place[t] = "wait"
  /\ t \in ended
  /\ slots' = SlotsAfterWait
  /\ Goto(t, "done")
  /\ UNCHANGED <<service, open, stale, found, scheme, missed, linkUp, ended>>

-----------------------------------------------------------------------------
(* Detect: two calls of speaksHTTP, each with a channel of its own.        *)

Dial(t) ==
  /\ place[t] \in {"tlsDial", "plainDial"}
  /\ t \notin stale
  /\ open' = open \cup {t}
  /\ Goto(t, IF place[t] = "tlsDial" THEN "tlsRead" ELSE "plainRead")
  /\ UNCHANGED <<service, slots, stale, found, scheme, missed, linkUp, ended>>

AfterAttempt(t) == IF place[t] \in {"tlsDial", "tlsRead"} THEN "plainDial" ELSE "verdict"

\* The port refuses (nothing listens there any more) or the client is gone.
DialFails(t) ==
  /\ place[t] \in {"tlsDial", "plainDial"}
  /\ missed' = missed \cup {t}
  /\ Goto(t, AfterAttempt(t))
  /\ UNCHANGED <<service, slots, open, stale, found, scheme, linkUp, ended>>

\* An HTTPS server answers a request in the clear with an HTTP status line.
Speaks(t) ==
  \/ service[t] = "https"
  \/ place[t] = "plainRead" /\ service[t] = "http"

Protocol(t) == IF place[t] = "tlsRead" THEN "https" ELSE "http"

FaultyOpenAfterAnswer(t) == IF Speaks(t) THEN open \ {t} ELSE open
OpenAfterAnswer(t) == open \ {t}

Answers(t) ==
  /\ place[t] \in {"tlsRead", "plainRead"}
  /\ t \notin stale
  /\ service[t] # "silent"
  /\ open' = OpenAfterAnswer(t)
  /\ found' = IF Speaks(t) THEN [found EXCEPT ![t] = Protocol(t)] ELSE found
  /\ Goto(t, IF Speaks(t) THEN "verdict" ELSE AfterAttempt(t))
  /\ UNCHANGED <<service, slots, stale, scheme, missed, linkUp, ended>>

\* The deadline or the end of the tunnel's context closes the channel, or the
\* link has gone.
NoAnswer(t) ==
  /\ place[t] \in {"tlsRead", "plainRead"}
  /\ open' = open \ {t}
  /\ missed' = missed \cup {t}
  /\ Goto(t, AfterAttempt(t))
  /\ UNCHANGED <<service, slots, stale, found, scheme, linkUp, ended>>

\* Detect has returned: a negative verdict is stored too, unless the tunnel has
\* been stopped meanwhile.
Verdict(t) ==
  /\ place[t] = "verdict"
  /\ scheme' = IF t \in ended THEN scheme ELSE [scheme EXCEPT ![t] = found[t]]
  /\ slots' = slots - 1
  /\ Goto(t, "done")
  /\ UNCHANGED <<service, open, stale, found, missed, linkUp, ended>>

-----------------------------------------------------------------------------
(* The environment.                                                        *)

LinkChanges ==
  /\ linkUp' = ~linkUp
  /\ stale' = IF linkUp THEN Tunnels ELSE stale
  /\ UNCHANGED <<service, place, slots, open, found, scheme, missed, ended>>

TunnelEnds(t) ==
  /\ t \notin ended
  /\ ended' = ended \cup {t}
  /\ UNCHANGED <<service, place, slots, open, stale, found, scheme, missed, linkUp>>

-----------------------------------------------------------------------------
Step(t) == LeaveQueue(t) \/ GetClient(t) \/ NoClient(t) \/ LookAgain(t)
             \/ StopWaiting(t) \/ Dial(t) \/ DialFails(t) \/ Answers(t)
             \/ NoAnswer(t) \/ Verdict(t)

Next ==
  \/ \E t \in Tunnels : TakeSlot(t) \/ Step(t) \/ TunnelEnds(t)
  \/ LinkChanges

Spec == Init /\ [][Next]_vars

\* A probe that can move does: a dial fails at the latest when keepalive drops
\* the link, a read at the deadline.  Senders queue in order on a full channel,
\* hence strong fairness for the slot.  The link need not come back.
Fairness == \A t \in Tunnels : WF_vars(Step(t)) /\ SF_vars(TakeSlot(t))

FairSpec == Spec /\ Fairness

-----------------------------------------------------------------------------
(* Properties.                                                             *)

TypeOK ==
  /\ service \in [Tunnels -> Services]
  /\ place \in [Tunnels -> Places]
  /\ slots \in 0..MaxProbes
  /\ open \in SUBSET Tunnels /\ stale \in SUBSET Tunnels
  /\ found \in [Tunnels -> {"none", "http", "https"}]
  /\ scheme \in [Tunnels -> {"unset", "none", "http", "https"}]
  /\ missed \in SUBSET Tunnels /\ ended \in SUBSET Tunnels
  /\ linkUp \in BOOLEAN

\* Every slot in use belongs to a probe at work and every channel to an attempt
\* under way, on each path out of probe and of speaksHTTP: nothing is leaked to
\* an answer that never came, a dropped link or a tunnel that was stopped.
NothingIsLeaked ==
  /\ slots = Cardinality({t \in Tunnels : HoldsSlot(t)})
  /\ open = {t \in Tunnels : place[t] \in {"tlsRead", "plainRead"}}

\* The URL on the dashboard fits the service unless an attempt was lost: in
\* particular an HTTPS service, which answers in the clear as well, is called
\* http only if its TLS handshake was cut short ("the order matters").
VerdictFitsService ==
  \A t \in Tunnels \ missed :
    /\ scheme[t] = "https" => service[t] = "https"
    /\ scheme[t] = "http" => service[t] = "http"
    /\ scheme[t] = "none" => service[t] \in {"other", "silent"}

\* Once the link stays up every probe comes to its end, also those that queue
\* behind others and those whose service never says a word: no slot is kept by
\* a probe that waits for something that does not come.
ProbesEnd == <>[]linkUp => \A t \in Tunnels : <>(place[t] = "done")
=============================================================================
