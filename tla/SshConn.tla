------------------------------ MODULE SshConn ------------------------------
(***************************************************************************)
(* The managed SSH connection of internal/sshconn/keepalive.go: the Run    *)
(* goroutine dials, watches the connection with keepalive requests, drops  *)
(* it and redials with exponential backoff, while any number of goroutines *)
(* block in WaitReady on the channel readyCh.                              *)
(*                                                                         *)
(* Every critical section of Conn.mu is one action.  Dial and the SSH      *)
(* transport belong to golang.org/x/crypto/ssh: they are modelled by the   *)
(* outcomes Run can observe.  Clients are numbered by the generation that  *)
(* created them, channels in the order they are made.                      *)
(***************************************************************************)
EXTENDS Naturals

CONSTANTS
  Waiters,            \* goroutines that call WaitReady
  MinBackoff,         \* timings.minBackoff
  MaxBackoff,         \* timings.maxBackoff
  KeepaliveFailsMax,  \* keepaliveFailsMax
  MaxAttempts,        \* bound: failed dials in a row that are told apart
  MaxGeneration       \* bound: connections made; the last one is never lost

ASSUME BackoffAssumption ==
  /\ MinBackoff \in Nat \ {0}
  /\ MaxBackoff \in Nat
  /\ MinBackoff <= MaxBackoff

ASSUME BoundAssumption ==
  /\ KeepaliveFailsMax \in Nat \ {0}
  /\ MaxAttempts \in Nat
  /\ MaxGeneration \in Nat

VARIABLES
  pc,           \* where Run stands
  backoff,      \* Run's local: the wait after the next failed dial
  fails,        \* monitor's local: keepalives missed in a row
  answered,     \* history: the last keepalive of this connection was answered
  client,       \* Conn.client, 0 for nil
  state,        \* Status.State
  attempts,     \* Status.Attempts
  lastError,    \* Status.LastError # ""
  rtt,          \* Status.RTT # 0
  generation,   \* Status.Generation
  readyCh,      \* Conn.readyCh
  closedChs,    \* the channels that have been closed
  transport,    \* what the network does to the current client
  openClients,  \* clients dialed and not closed yet
  ctxDone,      \* Run's context is cancelled
  wpc,          \* where each waiter stands
  wch           \* the channel each waiter read under the lock

runVars    == <<pc, backoff, fails, answered>>
statusVars == <<state, attempts, lastError, rtt, generation>>
chanVars   == <<readyCh, closedChs>>
netVars    == <<transport, openClients>>
waitVars   == <<wpc, wch>>
vars == <<runVars, client, statusVars, chanVars, netVars, ctxDone, waitVars>>

None == 0

RunPCs == {"loop", "dialing", "backoff", "monitor", "ping", "drop",
           "disconnect", "exit", "done"}
States == {"connecting", "connected", "reconnecting", "closed"}
Transports == {"none", "up", "silent", "dead"}

\* A definition named Faulty... is a seeded fault: the definition that follows
\* it with a plausible slip of the code.  Nothing uses it; the properties below
\* are expected to reject it.

\* Where Run goes after a drop: back to the loop, or to the deferred setClosed.
LoopOrExit == IF ctxDone THEN "exit" ELSE "loop"

DoubledBackoff == IF 2 * backoff < MaxBackoff THEN 2 * backoff ELSE MaxBackoff

FaultyClosedAfterConnect == closedChs
ClosedAfterConnect == closedChs \cup {readyCh}

FreshChannel == readyCh + 1

Init ==
  /\ pc = "loop" /\ backoff = MinBackoff /\ fails = 0 /\ answered = TRUE
  /\ client = None
  /\ state = "connecting"
  /\ attempts = 0 /\ lastError = FALSE /\ rtt = FALSE /\ generation = 0
  /\ readyCh = 0 /\ closedChs = {}
  /\ transport = "none" /\ openClients = {}
  /\ ctxDone = FALSE
  /\ wpc = [w \in Waiters |-> "none"]
  /\ wch = [w \in Waiters |-> 0]

-----------------------------------------------------------------------------
(* Run: the dial loop.                                                     *)

CheckContext ==
  /\ pc = "loop"
  /\ pc' = IF ctxDone THEN "exit" ELSE "dialing"
  /\ UNCHANGED <<backoff, fails, answered, client, statusVars, chanVars,
                 netVars, ctxDone, waitVars>>

\* Dial fails: recordFailure, then the select on the backoff timer.
\* The number of attempts is only shown to the user: it stops at its bound.
DialFails ==
  /\ pc = "dialing"
  /\ client' = None
  /\ state' = "reconnecting"
  /\ attempts' = IF attempts < MaxAttempts THEN attempts + 1 ELSE attempts
  /\ lastError' = TRUE
  /\ pc' = "backoff"
  /\ UNCHANGED <<backoff, fails, answered, rtt, generation, chanVars,
                 netVars, ctxDone, waitVars>>

BackoffElapsed ==
  /\ pc = "backoff"
  /\ backoff' = DoubledBackoff
  /\ pc' = "loop"
  /\ UNCHANGED <<fails, answered, client, statusVars, chanVars, netVars,
                 ctxDone, waitVars>>

BackoffCancelled ==
  /\ pc = "backoff"
  /\ ctxDone
  /\ pc' = "exit"
  /\ UNCHANGED <<backoff, fails, answered, client, statusVars, chanVars,
                 netVars, ctxDone, waitVars>>

\* Dial succeeds, whatever became of the context meanwhile: the backoff is
\* reset, setConnected publishes the client and closes readyCh, and monitor
\* starts counting.
BackoffAfterConnect == MinBackoff

DialSucceeds ==
  /\ pc = "dialing"
  /\ generation < MaxGeneration
  /\ generation' = generation + 1
  /\ client' = generation + 1
  /\ openClients' = openClients \cup {generation + 1}
  /\ transport' = "up"
  /\ backoff' = BackoffAfterConnect
  /\ state' = "connected"
  /\ attempts' = 0 /\ lastError' = FALSE
  /\ closedChs' = ClosedAfterConnect
  /\ fails' = 0 /\ answered' = TRUE
  /\ pc' = "monitor"
  /\ UNCHANGED <<rtt, readyCh, ctxDone, waitVars>>

-----------------------------------------------------------------------------
(* monitor and ping.  The select takes any ready case.                     *)

FaultyMonitorCancelled == FALSE /\ UNCHANGED vars
MonitorCancelled ==
  /\ pc = "monitor"
  /\ ctxDone
  /\ pc' = "drop"
  /\ UNCHANGED <<backoff, fails, answered, client, statusVars, chanVars,
                 netVars, ctxDone, waitVars>>

\* client.Wait returned.
MonitorLinkClosed ==
  /\ pc = "monitor"
  /\ transport = "dead"
  /\ pc' = "drop"
  /\ UNCHANGED <<backoff, fails, answered, client, statusVars, chanVars,
                 netVars, ctxDone, waitVars>>

FaultyKeepaliveTick ==
  /\ pc = "monitor"
  /\ answered
  /\ pc' = "ping"
  /\ UNCHANGED <<backoff, fails, answered, client, statusVars, chanVars,
                 netVars, ctxDone, waitVars>>

KeepaliveTick ==
  /\ pc = "monitor"
  /\ pc' = "ping"
  /\ UNCHANGED <<backoff, fails, answered, client, statusVars, chanVars,
                 netVars, ctxDone, waitVars>>

FaultyFailsAfterAnswer == fails
FailsAfterAnswer == 0

\* ping returns a round-trip time: the streak of misses ends, setRTT.
PingAnswered ==
  /\ pc = "ping"
  /\ transport = "up"
  /\ fails' = FailsAfterAnswer
  /\ answered' = TRUE
  /\ rtt' = TRUE
  /\ pc' = "monitor"
  /\ UNCHANGED <<backoff, client, state, attempts, lastError,
                 generation, chanVars, netVars, ctxDone, waitVars>>

GiveUp(n) == n >= KeepaliveFailsMax

\* ping returns an error: the transport is gone, black-holed, or so slow that
\* the answer loses the race with the timeout.  A late answer lands in the
\* buffered channel nobody reads and changes nothing.  On the last connection
\* of the bound the answer is in time.
PingMissed ==
  /\ pc = "ping"
  /\ transport = "up" => generation < MaxGeneration
  /\ fails' = fails + 1
  /\ answered' = FALSE
  /\ pc' = IF GiveUp(fails + 1) THEN "drop" ELSE "monitor"
  /\ UNCHANGED <<backoff, client, statusVars, chanVars, netVars, ctxDone,
                 waitVars>>

\* Run closes the client monitor gave up on.
FaultyOpenAfterDrop == openClients
OpenAfterDrop == openClients \ {client}

CloseClient ==
  /\ pc = "drop"
  /\ openClients' = OpenAfterDrop
  /\ transport' = "dead"
  /\ pc' = "disconnect"
  /\ UNCHANGED <<backoff, fails, answered, client, statusVars, chanVars,
                 ctxDone, waitVars>>

FaultyRttAfterDrop == rtt
RttAfterDrop == FALSE

\* setDisconnected with monitor's reason, then Run's check of the context.
SetDisconnected ==
  /\ pc = "disconnect"
  /\ client' = None
  /\ transport' = "none"
  /\ state' = "reconnecting"
  /\ rtt' = RttAfterDrop /\ lastError' = TRUE
  /\ readyCh' = FreshChannel
  /\ pc' = LoopOrExit
  /\ UNCHANGED <<backoff, fails, answered, attempts, generation, closedChs,
                 openClients, ctxDone, waitVars>>

ClosedAtExit == closedChs \cup {readyCh}

\* The deferred setClosed: the last words of Run.
SetClosed ==
  /\ pc = "exit"
  /\ openClients' = openClients \ {client}
  /\ client' = None
  /\ state' = "closed"
  /\ closedChs' = ClosedAtExit
  /\ pc' = "done"
  /\ UNCHANGED <<backoff, fails, answered, attempts, lastError, rtt,
                 generation, readyCh, transport, ctxDone, waitVars>>

-----------------------------------------------------------------------------
(* WaitReady.  The snapshot is taken under the read lock; the decision it  *)
(* leads to uses nothing but the snapshot, so both are one action.         *)

Returned == {"none", "client", "closed", "cancelled"}

WaitCall(w) ==
  /\ wpc[w] \in Returned
  /\ wpc' = [wpc EXCEPT ![w] = "reading"]
  /\ UNCHANGED <<runVars, client, statusVars, chanVars, netVars, ctxDone, wch>>

WaitRead(w) ==
  /\ wpc[w] = "reading"
  /\ \/ /\ client # None
        /\ wpc' = [wpc EXCEPT ![w] = "client"]
        /\ UNCHANGED wch
     \/ /\ client = None /\ state = "closed"
        /\ wpc' = [wpc EXCEPT ![w] = "closed"]
        /\ UNCHANGED wch
     \/ /\ client = None /\ state # "closed"
        /\ wpc' = [wpc EXCEPT ![w] = "blocked"]
        /\ wch' = [wch EXCEPT ![w] = readyCh]
  /\ UNCHANGED <<runVars, client, statusVars, chanVars, netVars, ctxDone>>

\* The channel is closed: round the loop, to read everything again.
FaultyAfterWake == "client"
AfterWake == "reading"

WaitWoken(w) ==
  /\ wpc[w] = "blocked"
  /\ wch[w] \in closedChs
  /\ wpc' = [wpc EXCEPT ![w] = AfterWake]
  /\ UNCHANGED <<runVars, client, statusVars, chanVars, netVars, ctxDone, wch>>

\* The context the caller passed to WaitReady, which need not be Run's, ends.
WaitCancelled(w) ==
  /\ wpc[w] = "blocked"
  /\ wpc' = [wpc EXCEPT ![w] = "cancelled"]
  /\ UNCHANGED <<runVars, client, statusVars, chanVars, netVars, ctxDone, wch>>

-----------------------------------------------------------------------------
(* The environment: the network, and the cancellation of Run's context.    *)

LinkDies ==
  /\ transport \in {"up", "silent"}
  /\ transport = "up" => generation < MaxGeneration
  /\ transport' = "dead"
  /\ UNCHANGED <<runVars, client, statusVars, chanVars, openClients, ctxDone,
                 waitVars>>

LinkGoesSilent ==
  /\ transport = "up"
  /\ generation < MaxGeneration
  /\ transport' = "silent"
  /\ UNCHANGED <<runVars, client, statusVars, chanVars, openClients, ctxDone,
                 waitVars>>

Cancel ==
  /\ ~ctxDone
  /\ ctxDone' = TRUE
  /\ UNCHANGED <<runVars, client, statusVars, chanVars, netVars, waitVars>>

-----------------------------------------------------------------------------
Run ==
  \/ CheckContext \/ DialFails \/ DialSucceeds
  \/ BackoffElapsed \/ BackoffCancelled
  \/ MonitorCancelled \/ MonitorLinkClosed \/ KeepaliveTick
  \/ PingAnswered \/ PingMissed
  \/ CloseClient \/ SetDisconnected \/ SetClosed

WaitReady(w) == WaitRead(w) \/ WaitWoken(w)

Next ==
  \/ Run
  \/ \E w \in Waiters : WaitCall(w) \/ WaitReady(w) \/ WaitCancelled(w)
  \/ LinkDies \/ LinkGoesSilent \/ Cancel

Spec == Init /\ [][Next]_vars

-----------------------------------------------------------------------------
(* Properties.                                                             *)

FlagsOK ==
  /\ answered \in BOOLEAN
  /\ lastError \in BOOLEAN
  /\ rtt \in BOOLEAN
  /\ ctxDone \in BOOLEAN

ValuesOK ==
  /\ pc \in RunPCs
  /\ backoff \in MinBackoff..MaxBackoff
  /\ fails \in 0..KeepaliveFailsMax
  /\ client \in 0..MaxGeneration
  /\ state \in States
  /\ attempts \in 0..MaxAttempts
  /\ generation \in 0..MaxGeneration
  /\ readyCh \in Nat /\ closedChs \in SUBSET Nat
  /\ transport \in Transports
  /\ openClients \in SUBSET Nat
  /\ wpc \in [Waiters -> Returned \cup {"reading", "blocked"}]
  /\ wch \in [Waiters -> Nat]

\* The types, with the ranges the code's own limits give: the backoff stays
\* between minBackoff and maxBackoff (Run), the misses counted never pass
\* keepaliveFailsMax (monitor).
TypeOK == FlagsOK /\ ValuesOK

\* readyCh is what the comment on the field says, "closed while connected,
\* fresh and open while not", extended to the end of Run: the channel is
\* closed exactly while a reader of it would find a client or StateClosed.
ReadySignal ==
  readyCh \in closedChs <=> (client # None \/ state = "closed")

\* A waiter that sleeps is not forgotten: the channel it read under the lock
\* either is closed already or is the one the next setConnected or setClosed
\* closes, however often the link flapped in between.
NoLostWakeup ==
  \A w \in Waiters :
    wpc[w] = "blocked" => wch[w] \in closedChs \/ wch[w] = readyCh

\* What Status tells the dashboard agrees with the client it describes: no
\* error, no failed attempts and a round-trip time only while connected.
StatusMatchesClient ==
  /\ state = "connected" <=> client # None
  /\ state = "connected" => attempts = 0 /\ ~lastError
  /\ rtt => state = "connected"

\* Every client that was dialed is closed before it is forgotten, so a link
\* that flaps does not leak SSH connections, and none survives Run.
NoClientLeak ==
  /\ openClients \subseteq {client} \ {None}
  /\ pc = "done" => openClients = {}

\* A single missed keepalive never costs the connection: monitor gives up
\* only when the keepalive before was missed too.
OneMissIsForgiven ==
  [][(pc = "ping" /\ pc' = "drop") => ~answered]_vars

\* A connection that is dead or black-holed is noticed and taken away from
\* Client, even if the transport never reports its own end.
DropIsNoticed == (client # None /\ transport # "up") ~> (client = None)

\* WaitReady keeps the promise stated in ReadyGate: a caller gets a client only
\* while there is one, an error only once Run is over or its own context has
\* ended, and (with the fairness of Link) is not left waiting while the
\* connection is up or Run is over.
Gate ==
  IF state = "closed" THEN "removed" ELSE IF client # None THEN "up" ELSE "down"

Caller ==
  [w \in Waiters |-> IF wpc[w] \in Returned THEN wpc[w] ELSE "waiting"]

Promise == INSTANCE ReadyGate WITH gate <- Gate, caller <- Caller

KeepsPromise == Promise!FairSpec
=============================================================================
