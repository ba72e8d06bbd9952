----------------------------- MODULE LinkProofs -----------------------------
(***************************************************************************)
(* Proofs about SshConn and Link for any hosts, any waiters and any        *)
(* bounds: first the connection, then that Link implements it, so that     *)
(* what is shown of the connection holds of the connection with its dials, *)
(* and that the jump host serves its client.                               *)
(***************************************************************************)
EXTENDS Link, TLAPS

USE BackoffAssumption, BoundAssumption

\* Where Run stands tells what it has published: a client while it watches or
\* drops one, StateClosed once it is done, Connected in no other case; and the
\* client is open until Run has closed it.
PhaseInv ==
  /\ client # None <=> pc \in {"monitor", "ping", "drop", "disconnect"}
  /\ state = "connected" <=> client # None
  /\ state = "closed" <=> pc = "done"
  /\ openClients \subseteq {client}
  /\ pc \notin {"monitor", "ping", "drop"} => openClients = {}

\* Every channel but the current one has been closed, and a channel is read by
\* a waiter only after it was made.
ChannelInv ==
  /\ \A c \in Nat : c < readyCh => c \in closedChs
  /\ \A c \in closedChs : c <= readyCh
  /\ \A w \in Waiters : wch[w] <= readyCh

\* The misses counted stay below the limit while monitor goes on, and the
\* counters of failed attempts are clear while a client is published.
CountInv ==
  /\ pc \in {"monitor", "ping"} => fails < KeepaliveFailsMax
  /\ state = "connected" => attempts = 0

Inv == ValuesOK /\ PhaseInv /\ ChannelInv /\ ReadySignal /\ CountInv

\* The booleans of Status agree with the state.
FlagInv ==
  /\ FlagsOK
  /\ state = "connected" => lastError = FALSE
  /\ state # "connected" => rtt = FALSE

-----------------------------------------------------------------------------
\* The initial state satisfies the inductive invariant.
LEMMA InitInv == Init => Inv
BY DEF Init, Inv, ValuesOK, PhaseInv, ChannelInv, ReadySignal, CountInv, None,
       RunPCs, States, Transports, Returned

\* Every step of the specification preserves the inductive invariant: one step
\* per action, the dial loop first, then monitor, the waiters and the
\* environment.
LEMMA StepInv == Inv /\ [Next]_vars => Inv'
<1> SUFFICES ASSUME Inv, [Next]_vars PROVE Inv'
  OBVIOUS
<1> USE DEF Inv, ValuesOK, PhaseInv, ChannelInv, ReadySignal, CountInv, None,
            RunPCs, States, Transports, Returned, runVars, statusVars, chanVars, netVars,
            waitVars
<1>1. CASE CheckContext
  BY <1>1 DEF CheckContext
<1>2. CASE DialFails
  BY <1>2 DEF DialFails
<1>3. CASE DialSucceeds
  BY <1>3 DEF DialSucceeds, BackoffAfterConnect, ClosedAfterConnect
<1>4. CASE BackoffElapsed
  BY <1>4 DEF BackoffElapsed, DoubledBackoff
<1>5. CASE BackoffCancelled
  BY <1>5 DEF BackoffCancelled
<1>6. CASE MonitorCancelled
  BY <1>6 DEF MonitorCancelled
<1>7. CASE MonitorLinkClosed
  BY <1>7 DEF MonitorLinkClosed
<1>8. CASE KeepaliveTick
  BY <1>8 DEF KeepaliveTick
<1>9. CASE PingAnswered
  BY <1>9 DEF PingAnswered, FailsAfterAnswer
<1>10. CASE PingMissed
  BY <1>10 DEF PingMissed, GiveUp
<1>11. CASE CloseClient
  BY <1>11 DEF CloseClient, OpenAfterDrop
<1>12. CASE SetDisconnected
  BY <1>12 DEF SetDisconnected, FreshChannel, LoopOrExit, RttAfterDrop
<1>13. CASE SetClosed
  BY <1>13 DEF SetClosed, ClosedAtExit
<1>14. ASSUME NEW w \in Waiters, WaitCall(w) PROVE Inv'
  BY <1>14 DEF WaitCall
<1>15. ASSUME NEW w \in Waiters, WaitRead(w) PROVE Inv'
  BY <1>15 DEF WaitRead
<1>16. ASSUME NEW w \in Waiters, WaitWoken(w) PROVE Inv'
  BY <1>16 DEF WaitWoken, AfterWake
<1>17. ASSUME NEW w \in Waiters, WaitCancelled(w) PROVE Inv'
  BY <1>17 DEF WaitCancelled
<1>18. CASE LinkDies
  BY <1>18 DEF LinkDies
<1>19. CASE LinkGoesSilent
  BY <1>19 DEF LinkGoesSilent
<1>20. CASE Cancel
  BY <1>20 DEF Cancel
<1>21. CASE UNCHANGED vars
  BY <1>21 DEF vars
<1> QED
  BY <1>1, <1>2, <1>3, <1>4, <1>5, <1>6, <1>7, <1>8, <1>9, <1>10, <1>11,
     <1>12, <1>13, <1>14, <1>15, <1>16, <1>17, <1>18, <1>19, <1>20, <1>21
  DEF Next, Run, WaitReady

\* No error, and a round-trip time only while connected: from the phases above.
LEMMA StepFlags == FlagInv /\ Inv /\ [Next]_vars => FlagInv'
<1> SUFFICES ASSUME FlagInv, Inv, [Next]_vars PROVE FlagInv'
  OBVIOUS
<1>1. client # None <=> state = "connected"
  BY DEF Inv, PhaseInv
<1>2. pc \in {"dialing", "exit"} => state # "connected"
  BY DEF Inv, PhaseInv
<1>3. pc = "ping" => state = "connected"
  BY DEF Inv, PhaseInv
<1> USE DEF FlagInv, FlagsOK, statusVars, netVars, runVars
<1>4. CASE DialFails
  BY <1>4, <1>2, Zenon DEF DialFails
<1>5. CASE DialSucceeds
  BY <1>5, <1>2, Zenon DEF DialSucceeds
<1>6. CASE PingAnswered
  BY <1>6, <1>3, Zenon DEF PingAnswered
<1>7. CASE PingMissed
  BY <1>7, Zenon DEF PingMissed
<1>8. CASE SetDisconnected
  BY <1>8, Zenon DEF SetDisconnected, RttAfterDrop
<1>9. CASE SetClosed
  BY <1>9, <1>2, Zenon DEF SetClosed
<1>10. CASE Cancel
  BY <1>10, Zenon DEF Cancel
<1>11. CASE UNCHANGED <<answered, statusVars, ctxDone>>
  BY <1>11, Zenon
<1>12. ASSUME CheckContext \/ BackoffElapsed \/ BackoffCancelled
              \/ MonitorCancelled \/ MonitorLinkClosed \/ KeepaliveTick
              \/ CloseClient
       PROVE  UNCHANGED <<answered, statusVars, ctxDone>>
  BY <1>12, Zenon DEF CheckContext, BackoffElapsed, BackoffCancelled,
     MonitorCancelled, MonitorLinkClosed, KeepaliveTick, CloseClient
<1>13. ASSUME NEW w \in Waiters,
              WaitCall(w) \/ WaitRead(w) \/ WaitWoken(w) \/ WaitCancelled(w)
       PROVE  UNCHANGED <<answered, statusVars, ctxDone>>
  BY <1>13, Zenon DEF WaitCall, WaitRead, WaitWoken, WaitCancelled
<1>14. ASSUME LinkDies \/ LinkGoesSilent
       PROVE  UNCHANGED <<answered, statusVars, ctxDone>>
  BY <1>14, Zenon DEF LinkDies, LinkGoesSilent
<1>15. CASE UNCHANGED vars
  BY <1>15, Zenon DEF vars
<1> QED
  BY <1>4, <1>5, <1>6, <1>7, <1>8, <1>9, <1>10, <1>11, <1>12, <1>13, <1>14,
     <1>15, Zenon DEF Next, Run, WaitReady

\* Both invariants hold in every reachable state.
LEMMA Invariance == Spec => [](Inv /\ FlagInv)
<1>1. Init => FlagInv
  BY Zenon DEF Init, FlagInv, FlagsOK
<1> QED
  BY <1>1, InitInv, StepInv, StepFlags, PTL DEF Spec

-----------------------------------------------------------------------------
\* The variables of the connection keep their types: the backoff stays between
\* its two bounds and the misses counted never pass the limit.
THEOREM TypeCorrect == Spec => []TypeOK
<1>1. Inv /\ FlagInv => TypeOK
  BY Zenon DEF Inv, FlagInv, TypeOK
<1> QED
  BY Invariance, <1>1, PTL

\* readyCh is closed exactly while a reader of it would find a client or the
\* end of Run.
THEOREM ReadySignalHolds == Spec => []ReadySignal
<1>1. Inv => ReadySignal
  BY Zenon DEF Inv
<1> QED
  BY Invariance, <1>1, PTL

\* No waiter sleeps on a channel nobody will close: the only channel that can
\* be open is the current one.
THEOREM NoWakeupIsLost == Spec => []NoLostWakeup
<1>1. Inv => NoLostWakeup
  BY DEF Inv, ValuesOK, ChannelInv, NoLostWakeup
<1> QED
  BY Invariance, <1>1, PTL

\* The status shown agrees with the client it describes.
THEOREM StatusIsHonest == Spec => []StatusMatchesClient
<1>1. Inv /\ FlagInv => StatusMatchesClient
  <2> SUFFICES ASSUME Inv, FlagInv PROVE StatusMatchesClient
    OBVIOUS
  <2>1. state = "connected" <=> client # None
    BY DEF Inv, PhaseInv
  <2>2. state = "connected" => attempts = 0
    BY DEF Inv, CountInv
  <2> QED
    BY <2>1, <2>2, Zenon DEF FlagInv, FlagsOK, StatusMatchesClient
<1> QED
  BY Invariance, <1>1, PTL

\* Every client dialed is closed before it is forgotten.
THEOREM ClientsAreClosed == Spec => []NoClientLeak
<1>1. Inv => NoClientLeak
  BY DEF Inv, PhaseInv, NoClientLeak, None
<1> QED
  BY Invariance, <1>1, PTL

\* A keepalive that was answered leaves no miss counted.
MissInv == answered = TRUE => fails = 0

\* Only an answer, a miss or a new connection touches the count.
LEMMA StepMissInv == MissInv /\ [Next]_vars => MissInv'
<1> SUFFICES ASSUME MissInv, [Next]_vars PROVE MissInv'
  OBVIOUS
<1>1. CASE DialSucceeds
  BY <1>1, Zenon DEF DialSucceeds, MissInv
<1>2. CASE PingAnswered
  BY <1>2, Zenon DEF PingAnswered, FailsAfterAnswer, MissInv
<1>3. CASE PingMissed
  BY <1>3, Zenon DEF PingMissed, MissInv
<1>4. CASE UNCHANGED <<fails, answered>>
  BY <1>4, Zenon DEF MissInv
<1>5. \/ DialSucceeds \/ PingAnswered \/ PingMissed
      \/ UNCHANGED <<fails, answered>>
  BY DEF Next, Run, CheckContext, DialFails, BackoffElapsed, BackoffCancelled,
     MonitorCancelled, MonitorLinkClosed, KeepaliveTick, CloseClient,
     SetDisconnected, SetClosed, WaitCall, WaitReady, WaitRead, WaitWoken,
     WaitCancelled, LinkDies, LinkGoesSilent, Cancel, vars, runVars
<1> QED
  BY <1>1, <1>2, <1>3, <1>4, <1>5

\* A single missed keepalive never costs the connection, for every limit but
\* one miss: keepalive.go's is two.
THEOREM MissIsForgiven ==
  ASSUME KeepaliveFailsMax # 1
  PROVE  Spec => OneMissIsForgiven
<1>1. Init => MissInv
  BY DEF Init, MissInv
<1>2. Inv /\ MissInv /\ [Next]_vars
        => [(pc = "ping" /\ pc' = "drop") => ~answered]_vars
  <2> SUFFICES ASSUME Inv, MissInv, Next, pc = "ping", pc' = "drop", answered = TRUE
               PROVE  FALSE
    BY Zenon
  <2>1. fails = 0
    BY DEF MissInv
  <2>2. CASE PingMissed
    BY <2>1, <2>2 DEF PingMissed, GiveUp
  <2>3. CASE pc # "ping" \/ pc' # "drop"
    BY <2>3
  <2> QED
    BY <2>2, <2>3 DEF Next, Run, CheckContext, DialFails, DialSucceeds,
       BackoffElapsed, BackoffCancelled, MonitorCancelled, MonitorLinkClosed,
       KeepaliveTick, PingAnswered, CloseClient, SetDisconnected, SetClosed,
       WaitCall, WaitReady, WaitRead, WaitWoken, WaitCancelled, LinkDies,
       LinkGoesSilent, Cancel, runVars
<1> QED
  BY <1>1, <1>2, StepMissInv, Invariance, PTL DEF Spec, OneMissIsForgiven

-----------------------------------------------------------------------------
\* Every state of the connection is a state of the gate, so every step of it is
\* a step of the gate or none: Run opens, shuts and removes it, a waiter that
\* reads or gives up is answered, and nothing else shows.
THEOREM ImplementsReadyGate == Spec => Promise!Spec
<1>1. Init => Promise!Init
  BY DEF Init, Promise!Init, Gate, Caller, Returned, None
<1>2. Inv /\ [Next]_vars => [Promise!Next]_(Promise!vars)
  <2> SUFFICES ASSUME Inv, [Next]_vars
               PROVE  Promise!Next \/ UNCHANGED <<Gate, Caller>>
    BY DEF Promise!vars
  <2>1. /\ client # None <=> pc \in {"monitor", "ping", "drop", "disconnect"}
        /\ state = "connected" <=> client # None
        /\ state = "closed" <=> pc = "done"
        /\ client \in Nat /\ generation \in Nat
        /\ wpc \in [Waiters -> Returned \cup {"reading", "blocked"}]
    BY DEF Inv, PhaseInv, ValuesOK
  <2>2. UNCHANGED wpc => UNCHANGED Caller
    BY DEF Caller
  <2>3. UNCHANGED <<client, state>> => UNCHANGED Gate
    BY DEF Gate
  <2>4. CASE CheckContext \/ BackoffElapsed \/ BackoffCancelled
             \/ MonitorCancelled \/ MonitorLinkClosed \/ KeepaliveTick
             \/ PingAnswered \/ PingMissed \/ CloseClient
             \/ LinkDies \/ LinkGoesSilent \/ Cancel
    <3>1. UNCHANGED <<client, state, wpc>>
      BY <2>4, Zenon DEF CheckContext, BackoffElapsed, BackoffCancelled,
         MonitorCancelled, MonitorLinkClosed, KeepaliveTick, PingAnswered,
         PingMissed, CloseClient, LinkDies, LinkGoesSilent, Cancel,
         statusVars, waitVars
    <3> QED
      BY <3>1, <2>2, <2>3
  <2>5. CASE DialFails
    <3>1. UNCHANGED wpc /\ client = None /\ client' = None
          /\ state # "closed" /\ state' # "closed"
      BY <2>5, <2>1 DEF DialFails, waitVars
    <3> QED
      BY <3>1, <2>2 DEF Gate
  <2>6. CASE DialSucceeds
    <3>1. UNCHANGED wpc /\ client = None /\ client' # None
          /\ state # "closed" /\ state' # "closed"
      BY <2>6, <2>1 DEF DialSucceeds, waitVars, None
    <3>2. Promise!Open
      BY <3>1, <2>2 DEF Gate, Promise!Open
    <3> QED
      BY <3>2 DEF Promise!Next
  <2>7. CASE SetDisconnected
    <3>1. UNCHANGED wpc /\ client # None /\ client' = None
          /\ state # "closed" /\ state' # "closed"
      BY <2>7, <2>1 DEF SetDisconnected, waitVars
    <3>2. Promise!Shut
      BY <3>1, <2>2 DEF Gate, Promise!Shut
    <3> QED
      BY <3>2 DEF Promise!Next
  <2>8. CASE SetClosed
    <3>1. UNCHANGED wpc /\ client = None /\ state # "closed" /\ state' = "closed"
      BY <2>8, <2>1 DEF SetClosed, waitVars
    <3>2. Promise!Remove
      BY <3>1, <2>2 DEF Gate, Promise!Remove
    <3> QED
      BY <3>2 DEF Promise!Next
  <2>9. ASSUME NEW w \in Waiters,
               WaitCall(w) \/ WaitRead(w) \/ WaitWoken(w) \/ WaitCancelled(w)
        PROVE  Promise!Next \/ UNCHANGED <<Gate, Caller>>
    <3>1. UNCHANGED Gate
      BY <2>9, <2>3 DEF WaitCall, WaitRead, WaitWoken, WaitCancelled, statusVars
    <3>2. CASE WaitCall(w)
      <4>1. Promise!Call(w)
        BY <3>1, <3>2, <2>1 DEF WaitCall, Promise!Call, Caller, Returned
      <4> QED
        BY <4>1 DEF Promise!Next
    <3>3. CASE WaitWoken(w)
      <4>1. UNCHANGED Caller
        BY <3>3, <2>1 DEF WaitWoken, AfterWake, Caller, Returned
      <4> QED
        BY <3>1, <4>1
    <3>4. CASE WaitCancelled(w)
      <4>1. Promise!GivesUp(w)
        BY <3>1, <3>4, <2>1
        DEF WaitCancelled, Promise!GivesUp, Promise!Ends, Caller, Returned
      <4> QED
        BY <4>1 DEF Promise!Next
    <3>5. CASE WaitRead(w)
      <4>1. CASE client # None
        <5>1. Promise!Pass(w)
          BY <3>1, <3>5, <4>1, <2>1
          DEF WaitRead, Promise!Pass, Promise!Ends, Gate, Caller, Returned
        <5> QED
          BY <5>1 DEF Promise!Next
      <4>2. CASE client = None /\ state = "closed"
        <5>1. Promise!TurnedAway(w)
          BY <3>1, <3>5, <4>2, <2>1
          DEF WaitRead, Promise!TurnedAway, Promise!Ends, Gate, Caller, Returned
        <5> QED
          BY <5>1 DEF Promise!Next
      <4>3. CASE client = None /\ state # "closed"
        <5>1. UNCHANGED Caller
          BY <3>5, <4>3, <2>1 DEF WaitRead, Caller, Returned
        <5> QED
          BY <3>1, <5>1
      <4> QED
        BY <4>1, <4>2, <4>3
    <3> QED
      BY <2>9, <3>2, <3>3, <3>4, <3>5
  <2>10. CASE UNCHANGED vars
    BY <2>10, <2>2, <2>3 DEF vars, statusVars, waitVars
  <2> QED
    BY <2>4, <2>5, <2>6, <2>7, <2>8, <2>9, <2>10 DEF Next, Run, WaitReady
<1> QED
  BY <1>1, <1>2, Invariance, PTL DEF Spec, Promise!Spec

-----------------------------------------------------------------------------
(* The link.                                                               *)

USE ProxyJumpAssumption

\* Every step of the link is a step of the connection or leaves it alone.
LEMMA LinkStep == [LinkNext]_linkVars => [Next]_vars
<1> SUFFICES ASSUME [LinkNext]_linkVars PROVE [Next]_vars
  OBVIOUS
<1>1. CASE BeginDial
  BY <1>1 DEF BeginDial, Next, Run
<1>2. CASE DialOn \/ DialHangs
  BY <1>2 DEF DialOn, DialHangs
<1>3. CASE DialGivesUp
  BY <1>3 DEF DialGivesUp, Next, Run
<1>4. CASE DialConnects
  BY <1>4 DEF DialConnects, Next, Run
<1>5. CASE Drop
  BY <1>5 DEF Drop, Next, Run
<1>6. CASE RunElsewhere
  BY <1>6 DEF RunElsewhere, Next, Run
<1>7. ASSUME NEW w \in Waiters, LinkWaitReady(w) PROVE Next
  BY <1>7 DEF LinkWaitReady, Next
<1>8. ASSUME NEW g \in jumps, Reap(g) \/ StuckEnds(g) PROVE UNCHANGED vars
  BY <1>8 DEF Reap, StuckEnds
<1>9. CASE Environment
  BY <1>9 DEF Environment, Next
<1>10. CASE UNCHANGED linkVars
  BY <1>10 DEF linkVars
<1> QED
  BY <1>1, <1>2, <1>3, <1>4, <1>5, <1>6, <1>7, <1>8, <1>9, <1>10
  DEF LinkNext, LinkRun

\* The connection with its dials does nothing the connection of SshConn could
\* not do.
THEOREM ImplementsSshConn == LinkSpec => Spec
<1>1. LinkInit => Init
  BY DEF LinkInit
<1> QED
  BY <1>1, LinkStep, PTL DEF LinkSpec, Spec

-----------------------------------------------------------------------------
\* A dial is under way exactly while Run is in Dial, it is on the route its
\* target asks for, and holds the jump host from the handshake with it on; a
\* client that can still carry data is open, and has its jump host.
RouteInv ==
  /\ step \in {"connect", "shake"} => D!Route(target) = "direct"
  /\ step \notin {"idle", "config", "connect", "shake"}
       => D!Route(target) = "jump"
  /\ step \in {"jumpDial", "hopShake"} => jump

OpenInv ==
  /\ step # "idle" <=> pc = "dialing"
  /\ transport \in {"up", "silent"} =>
       /\ client \in openClients
       /\ pc \in {"monitor", "ping", "drop"}

LinkInv == DialTypeOK /\ JumpServesItsClient /\ RouteInv /\ OpenInv

LEMMA InitLinkInv == LinkInit => LinkInv
BY DEF LinkInit, Init, D!Init, LinkInv, DialTypeOK, JumpServesItsClient,
       RouteInv, OpenInv, D!Steps, None

\* One step per action of the link.
LEMMA StepLinkInv == Inv /\ LinkInv /\ [LinkNext]_linkVars => LinkInv'
<1> SUFFICES ASSUME Inv, LinkInv, [LinkNext]_linkVars PROVE LinkInv'
  OBVIOUS
<1>1. /\ client # None <=> pc \in {"monitor", "ping", "drop", "disconnect"}
      /\ openClients \subseteq {client}
      /\ generation \in 0..MaxGeneration
  BY DEF Inv, PhaseInv, ValuesOK
<1>2. UNCHANGED target => UNCHANGED D!Route(target)
  BY DEF D!Route
<1>3. UNCHANGED step => UNCHANGED D!NextStep \/ target' # target
  BY DEF D!NextStep, D!Route
<1> USE DEF LinkInv, DialTypeOK, JumpServesItsClient, RouteInv, OpenInv,
            dialVars, reapVars, runVars, statusVars, chanVars, netVars,
            waitVars
<1>4. CASE BeginDial
  BY <1>1, <1>2, <1>4 DEF BeginDial, CheckContext, D!Start, D!Steps
<1>5. CASE DialOn
  <2>1. UNCHANGED <<client, transport, openClients, pc, target, jumps, stuck>>
    BY <1>5 DEF DialOn, D!Advance, vars
  <2>2. D!Route(target) \in {"direct", "jump", "refused"}
    BY DEF D!Route
  <2> QED
    BY <1>1, <1>2, <1>5, <2>1, <2>2 DEF DialOn, D!Advance, D!NextStep, D!Steps
<1>6. CASE DialGivesUp
  BY <1>1, <1>2, <1>6
  DEF DialGivesUp, DialFails, D!Fail, D!KeptOnFailure, D!Steps
<1>7. CASE DialConnects
  <2>1. /\ client' = generation + 1 /\ generation < MaxGeneration
        /\ openClients' = openClients \cup {generation + 1}
        /\ transport' = "up" /\ pc' = "monitor"
    BY <1>7 DEF DialConnects, DialSucceeds
  <2>2. /\ step \in {"shake", "hopShake"} /\ step' = "idle"
        /\ jump' = FALSE /\ hop' = FALSE /\ UNCHANGED <<target, hung, stuck>>
        /\ jumps' = IF jump THEN jumps \cup {generation + 1} ELSE jumps
    BY <1>7 DEF DialConnects, D!Succeed, JumpsAfterDial
  <2>3. D!Route(target)' = "jump" => client' \in jumps'
    BY <1>2, <2>1, <2>2
  <2>4. jumps' \in SUBSET (1..MaxGeneration)
    <3>1. generation + 1 \in 1..MaxGeneration
      BY <1>1, <2>1, BoundAssumption
    <3> QED
      BY <2>2, <3>1
  <2> QED
    BY <1>2, <2>1, <2>2, <2>3, <2>4 DEF D!Steps
<1>8. CASE Drop
  BY <1>1, <1>2, <1>8 DEF Drop, CloseClient
<1>9. CASE RunElsewhere
  <2>1. UNCHANGED dialVars /\ UNCHANGED reapVars
    BY <1>9 DEF RunElsewhere
  <2>2. CASE SetDisconnected
    BY <1>1, <1>2, <2>1, <2>2 DEF SetDisconnected, LoopOrExit
  <2>3. CASE SetClosed
    BY <1>1, <1>2, <2>1, <2>3 DEF SetClosed
  <2>4. CASE BackoffElapsed \/ BackoffCancelled
    BY <1>1, <1>2, <2>1, <2>4 DEF BackoffElapsed, BackoffCancelled
  <2>5. CASE MonitorCancelled \/ MonitorLinkClosed \/ KeepaliveTick
    BY <1>1, <1>2, <2>1, <2>5
    DEF MonitorCancelled, MonitorLinkClosed, KeepaliveTick
  <2>6. CASE PingAnswered \/ PingMissed
    BY <1>1, <1>2, <2>1, <2>6 DEF PingAnswered, PingMissed
  <2> QED
    BY <1>9, <2>2, <2>3, <2>4, <2>5, <2>6 DEF RunElsewhere
<1>10. ASSUME NEW w \in Waiters, LinkWaitReady(w) PROVE LinkInv'
  BY <1>2, <1>10 DEF LinkWaitReady, WaitReady, WaitRead, WaitWoken
<1>11. ASSUME NEW g \in jumps, Reap(g) PROVE LinkInv'
  BY <1>2, <1>11 DEF Reap, Ended, vars
<1>12. ASSUME NEW g \in jumps, StuckEnds(g) PROVE LinkInv'
  BY <1>2, <1>12 DEF StuckEnds, vars
<1>13. CASE DialHangs
  BY <1>2, <1>13 DEF DialHangs, D!Hang, vars
<1>14. CASE Environment
  BY <1>2, <1>14
  DEF Environment, LinkDies, LinkGoesSilent, Cancel, WaitCall, WaitCancelled
<1>15. CASE UNCHANGED linkVars
  BY <1>2, <1>15 DEF linkVars, vars
<1> QED
  BY <1>4, <1>5, <1>6, <1>7, <1>8, <1>9, <1>10, <1>11, <1>12, <1>13, <1>14,
     <1>15 DEF LinkNext, LinkRun

LEMMA LinkInvariance == LinkSpec => []LinkInv
<1>1. LinkSpec => [](Inv /\ FlagInv)
  BY ImplementsSshConn, Invariance, PTL
<1> QED
  BY <1>1, InitLinkInv, StepLinkInv, PTL DEF LinkSpec

\* The types of a dial and of the clients to jump hosts it leaves behind.
THEOREM DialTypeCorrect == LinkSpec => []DialTypeOK
BY LinkInvariance, PTL DEF LinkInv

\* The connection to the jump host lives as long as somebody needs it.
THEOREM JumpServes == LinkSpec => []JumpServesItsClient
BY LinkInvariance, PTL DEF LinkInv

\* What holds of the connection holds with its dials: no waiter sleeps on a
\* channel nobody closes, the status is honest, and no client is leaked.
THEOREM LinkIsSafe ==
  LinkSpec => [](NoLostWakeup /\ StatusMatchesClient /\ NoClientLeak)
BY ImplementsSshConn, NoWakeupIsLost, StatusIsHonest, ClientsAreClosed, PTL

\* A missed keepalive does not cost the connection with its dials either.
THEOREM LinkForgivesAMiss ==
  ASSUME KeepaliveFailsMax # 1
  PROVE  LinkSpec => OneMissIsForgiven
BY ImplementsSshConn, MissIsForgiven, PTL

\* WaitReady keeps its promise over the steps of the dials: a caller gets a
\* client only while there is one, and an error only once Run is over.
THEOREM LinkImplementsReadyGate == LinkSpec => Promise!Spec
BY ImplementsSshConn, ImplementsReadyGate, PTL
=============================================================================
