-------------------------- MODULE ForwarderProofs --------------------------
(***************************************************************************)
(* Theorems about Forwarder, for any finite set of connections: the        *)
(* counters of the dashboard are exact, and handle leaves nothing behind.  *)
(***************************************************************************)
EXTENDS Forwarder, FiniteSetTheorems, TLAPS

-----------------------------------------------------------------------------
\* The values of TypeOK that are neither flags nor counters.
PlacesOK ==
  /\ apc \in {"accept", "dispatch", "backoff", "exited"}
  /\ hpc \in [Conns -> Places]
  /\ localOpen \in SUBSET Conns
  /\ outDone \in SUBSET Conns /\ inDone \in SUBSET Conns
  /\ spc \in {"idle", "cancelled", "listenerClosed", "waiting", "returned"}

\* Where a connection stands tells what is held for it: the map has it between
\* track and untrack, the SSH channel is open while it is bridged, and nothing
\* is held of a connection that does not exist yet or any more.
HeldInv ==
  /\ conns = In({"tracked", "dialing", "bridging"})
  /\ remoteOpen = In({"bridging"})
  /\ localOpen \cap In({"new", "finished"}) = {}

\* The connections bridged now, and these with all that are over.
Bridged == In({"bridging"})
Past == In({"bridging", "finished"})

CountInv ==
  /\ active = Cardinality(Bridged)
  /\ total \in Nat
  /\ active =< total /\ total =< Cardinality(Past)

FlagsOK ==
  /\ listenerUp \in BOOLEAN /\ ctxDone \in BOOLEAN /\ paused \in BOOLEAN
  /\ lastErr \in BOOLEAN /\ sshUp \in BOOLEAN

\* Sets of connections are finite.
LEMMA ConnsFinite ==
  /\ IsFiniteSet(Bridged) /\ Cardinality(Bridged) \in Nat
  /\ IsFiniteSet(Past) /\ Cardinality(Past) \in Nat
<1>1. Bridged \in SUBSET Conns /\ Past \in SUBSET Conns
  BY DEF Bridged, Past, In
<1> QED
  BY <1>1, ConnAssumption, FS_Subset, FS_CardinalityType

-----------------------------------------------------------------------------
\* A step that bridges nothing and ends no bridge may only add to what is over.
LEMMA QuietCount ==
  ASSUME CountInv, UNCHANGED <<active, total, Bridged>>, Past \subseteq Past',
         Past' \in SUBSET Conns
  PROVE  CountInv'
<1>1. IsFiniteSet(Past')
  BY ConnAssumption, FS_Subset
<1>2. Cardinality(Past) =< Cardinality(Past') /\ Cardinality(Past') \in Nat
  BY <1>1, FS_Subset, FS_CardinalityType
<1> QED
  BY <1>2, ConnsFinite DEF CountInv

\* A dial that succeeds adds one to each count, and to what is counted.
LEMMA BridgeCount ==
  ASSUME PlacesOK, CountInv, NEW c \in Conns, RemoteDialSucceeds(c)
  PROVE  CountInv'
<1>1. /\ c \notin Bridged /\ Bridged' = Bridged \cup {c}
      /\ c \notin Past /\ Past' = Past \cup {c}
  BY DEF PlacesOK, RemoteDialSucceeds, Goto, Bridged, Past, In
<1>2. /\ Cardinality(Bridged') = Cardinality(Bridged) + 1
      /\ Cardinality(Past') = Cardinality(Past) + 1
  BY <1>1, ConnsFinite, FS_AddElement
<1> QED
  BY <1>2, ConnsFinite DEF CountInv, RemoteDialSucceeds

\* A bridge that ends is taken off the active ones; it is over.
LEMMA UnbridgeCount ==
  ASSUME PlacesOK, CountInv, NEW c \in Conns, Unbridge(c)
  PROVE  CountInv'
<1>1. c \in Bridged /\ Bridged' = Bridged \ {c} /\ Past' = Past
  BY DEF PlacesOK, Unbridge, Goto, Bridged, Past, In
<1>2. Cardinality(Bridged') = Cardinality(Bridged) - 1
  BY <1>1, ConnsFinite, FS_RemoveElement
<1>3. active' = active - 1 /\ total' = total
  BY DEF Unbridge, ActiveAfter
<1> QED
  BY <1>1, <1>2, <1>3, ConnsFinite DEF CountInv

-----------------------------------------------------------------------------
Inv == PlacesOK /\ HeldInv /\ CountInv

\* The initial states satisfy the inductive invariant.
LEMMA InitInv == Init => Inv /\ FlagsOK
<1> SUFFICES ASSUME Init PROVE Inv /\ FlagsOK
  OBVIOUS
<1>1. PlacesOK /\ HeldInv
  BY DEF Init, PlacesOK, HeldInv, In, Places
<1>2. Bridged = {} /\ Past = {}
  BY DEF Init, Bridged, Past, In
<1>3. CountInv
  BY <1>2, FS_EmptySet DEF Init, CountInv
<1>4. FlagsOK
  BY DEF Init, FlagsOK
<1> QED
  BY <1>1, <1>3, <1>4 DEF Inv

\* What a step of the accept loop, of stop or of a client does: the connections in
\* the backlog or in the loop may come to their end, the bridged ones do not.
Quiet ==
  /\ UNCHANGED <<active, total, Bridged>>
  /\ Past \subseteq Past' /\ Past' \in SUBSET Conns

\* Every step preserves the inductive invariant.
LEMMA StepInv == Inv /\ [Next]_vars => Inv'
<1> SUFFICES ASSUME Inv, [Next]_vars PROVE Inv'
  OBVIOUS
<1> USE DEF Inv, PlacesOK, HeldInv, Places, In, Goto, connVars, countVars
<1>1. ASSUME PlacesOK' /\ HeldInv', Quiet PROVE Inv'
  BY <1>1, QuietCount DEF Quiet
<1>2. ASSUME NEW c \in Conns, AcceptReturns(c) \/ Dispatch(c) PROVE Inv'
  <2>1. PlacesOK' /\ HeldInv'
    BY <1>2 DEF AcceptReturns, Dispatch
  <2>2. Quiet
    BY <1>2 DEF AcceptReturns, Dispatch, Quiet, Bridged, Past
  <2> QED
    BY <1>1, <2>1, <2>2
<1>3. CASE AcceptClosed \/ AcceptError \/ BackoffElapsed \/ BackoffCancelled
  <2>1. PlacesOK' /\ HeldInv'
    BY <1>3 DEF AcceptClosed, AfterClosed, AcceptError, BackoffElapsed,
                BackoffCancelled
  <2>2. Quiet
    BY <1>3 DEF AcceptClosed, AcceptError, BackoffElapsed, BackoffCancelled,
                Quiet, Bridged, Past
  <2> QED
    BY <1>1, <2>1, <2>2
<1>4. CASE CloserStep \/ StopListener
  <2>1. PlacesOK' /\ HeldInv'
    BY <1>4 DEF CloserStep, StopListener, ListenerCloses
  <2>2. Quiet
    BY <1>4 DEF CloserStep, StopListener, ListenerCloses, Quiet, Bridged, Past
  <2> QED
    BY <1>1, <2>1, <2>2
<1>5. ASSUME NEW c \in Conns, Track(c) \/ GetClient(c) PROVE Inv'
  <2>1. PlacesOK' /\ HeldInv'
    BY <1>5 DEF Track, GetClient
  <2>2. Quiet
    BY <1>5 DEF Track, GetClient, Quiet, Bridged, Past
  <2> QED
    BY <1>1, <2>1, <2>2
<1>6. ASSUME NEW c \in Conns, NoClient(c) \/ RemoteDialFails(c) PROVE Inv'
  <2>1. PlacesOK' /\ HeldInv'
    BY <1>6 DEF NoClient, RemoteDialFails, GiveUp, LocalAfterError, Untracked
  <2>2. Quiet
    BY <1>6 DEF NoClient, RemoteDialFails, GiveUp, Quiet, Bridged, Past
  <2> QED
    BY <1>1, <2>1, <2>2
<1>7. ASSUME NEW c \in Conns, RemoteDialSucceeds(c) PROVE Inv'
  <2>1. PlacesOK' /\ HeldInv'
    BY <1>7 DEF RemoteDialSucceeds
  <2> QED
    BY <1>7, <2>1, BridgeCount
<1>8. ASSUME NEW c \in Conns, Unbridge(c) PROVE Inv'
  <2>1. PlacesOK' /\ HeldInv'
    BY <1>8 DEF Unbridge, RemoteAfter, Untracked
  <2> QED
    BY <1>8, <2>1, UnbridgeCount
<1>9. ASSUME NEW c \in Conns, CopyOutEnds(c) \/ CopyInEnds(c) \/ ClientConnects(c)
      PROVE  Inv'
  <2>1. PlacesOK' /\ HeldInv'
    BY <1>9 DEF CopyOutEnds, CopyInEnds, ClientConnects
  <2>2. Quiet
    BY <1>9 DEF CopyOutEnds, CopyInEnds, ClientConnects, Quiet, Bridged, Past
  <2> QED
    BY <1>1, <2>1, <2>2
<1>10. CASE StopCancel \/ StopConns \/ StopReturn \/ TogglePause
  <2>1. PlacesOK' /\ HeldInv'
    BY <1>10 DEF StopCancel, StopConns, StopReturn, TogglePause
  <2>2. Quiet
    BY <1>10 DEF StopCancel, StopConns, StopReturn, TogglePause, Quiet, Bridged,
                 Past
  <2> QED
    BY <1>1, <2>1, <2>2
<1>11. CASE SshFlips \/ ParentCancels \/ UNCHANGED vars
  <2>1. PlacesOK' /\ HeldInv'
    BY <1>11 DEF SshFlips, ParentCancels, vars
  <2>2. Quiet
    BY <1>11 DEF SshFlips, ParentCancels, vars, Quiet, Bridged, Past
  <2> QED
    BY <1>1, <2>1, <2>2
<1> QED
  BY <1>2, <1>3, <1>4, <1>5, <1>6, <1>7, <1>8, <1>9, <1>10, <1>11
  DEF Next, AcceptStep, Handle, StopStep

\* The flags stay flags.
LEMMA StepFlags == FlagsOK /\ [Next]_vars => FlagsOK'
<1> SUFFICES ASSUME FlagsOK, [Next]_vars PROVE FlagsOK'
  OBVIOUS
<1> USE DEF FlagsOK, countVars
<1>1. CASE AcceptStep
  <2>1. CASE AcceptError
    BY <2>1, Zenon DEF AcceptError
  <2>2. CASE AcceptClosed \/ BackoffElapsed \/ BackoffCancelled
    BY <2>2, Zenon DEF AcceptClosed, BackoffElapsed, BackoffCancelled
  <2>3. CASE \E c \in Conns : AcceptReturns(c) \/ Dispatch(c)
    BY <2>3, Zenon DEF AcceptReturns, Dispatch
  <2> QED
    BY <1>1, <2>1, <2>2, <2>3 DEF AcceptStep
<1>2. ASSUME NEW c, Handle(c) PROVE FlagsOK'
  <2>1. CASE Track(c) \/ GetClient(c) \/ Unbridge(c)
    BY <2>1, Zenon DEF Track, GetClient, Unbridge
  <2>2. CASE NoClient(c) \/ RemoteDialFails(c) \/ RemoteDialSucceeds(c)
    BY <2>2, Zenon DEF NoClient, RemoteDialFails, RemoteDialSucceeds, GiveUp
  <2> QED
    BY <1>2, <2>1, <2>2 DEF Handle
<1>3. CASE CloserStep \/ StopListener
  BY <1>3, Zenon DEF CloserStep, StopListener, ListenerCloses
<1>4. ASSUME NEW c, CopyOutEnds(c) \/ CopyInEnds(c) \/ ClientConnects(c)
      PROVE  FlagsOK'
  BY <1>4, Zenon DEF CopyOutEnds, CopyInEnds, ClientConnects
<1>5. CASE StopCancel \/ StopConns \/ StopReturn \/ TogglePause
  BY <1>5, Zenon DEF StopCancel, StopConns, StopReturn, TogglePause
<1>6. CASE SshFlips \/ ParentCancels
  BY <1>6, Zenon DEF SshFlips, ParentCancels
<1>7. CASE UNCHANGED vars
  BY <1>7, Zenon DEF vars
<1> QED
  BY <1>1, <1>2, <1>3, <1>4, <1>5, <1>6, <1>7 DEF Next, StopStep

\* Both hold in every behaviour.
LEMMA Invariance == Spec => [](Inv /\ FlagsOK)
BY InitInv, StepInv, StepFlags, PTL DEF Spec

-----------------------------------------------------------------------------
\* Every variable of the forwarder keeps its type; no more connections are counted
\* than were made.
THEOREM TypeCorrect == Spec => []TypeOK
<1>1. Inv /\ FlagsOK => TypeOK
  <2> SUFFICES ASSUME Inv, FlagsOK PROVE TypeOK
    OBVIOUS
  <2>1. /\ Bridged \in SUBSET Conns /\ Past \in SUBSET Conns
        /\ conns \in SUBSET Conns /\ remoteOpen \in SUBSET Conns
    BY DEF Bridged, Past, Inv, HeldInv, In
  <2>2. /\ Cardinality(Bridged) =< Cardinality(Conns)
        /\ Cardinality(Past) =< Cardinality(Conns)
        /\ Cardinality(Conns) \in Nat
    BY <2>1, ConnAssumption, FS_Subset, FS_CardinalityType
  <2>3. active \in 0..Cardinality(Conns) /\ total \in 0..Cardinality(Conns)
    BY <2>2, ConnsFinite DEF Inv, CountInv
  <2> QED
    BY <2>1, <2>3 DEF Inv, PlacesOK, FlagsOK, TypeOK
<1> QED
  BY <1>1, Invariance, PTL

\* The dashboard's count of active connections is exact in every state, on every
\* path through handle.
THEOREM CountsHold == Spec => []CountsAreExact
<1>1. Inv => CountsAreExact
  BY ConnsFinite DEF Inv, CountInv, Bridged, CountsAreExact
<1> QED
  BY <1>1, Invariance, PTL

\* A handle that has returned holds neither end of its connection and is in no map.
THEOREM HandlesCleanUp == Spec => []HandleCleansUp
<1>1. Inv => HandleCleansUp
  BY DEF Inv, HeldInv, In, HandleCleansUp
<1> QED
  BY <1>1, Invariance, PTL
=============================================================================
