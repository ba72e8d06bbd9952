------------------------ MODULE TunnelManagerProofs ------------------------
(***************************************************************************)
(* Proofs about TunnelManager for any keys, targets, ports and bounds.     *)
(***************************************************************************)
EXTENDS TunnelManager, TLAPS

USE KeyAssumption, PortAssumption

\* Who refers to a forwarder: a live one stands under its own key, is not
\* about to be stopped, and an open listener is referred to by somebody.
OwnerInv ==
  /\ \A k \in Keys : forwarders[k] # NoForwarder => forwarders[k].key = k
  /\ \A k \in UdpKeys : forwarders[k] = NoForwarder
  /\ \A k \in Keys : forwarders[k] \notin toStop \cup closing
  /\ \A f \in listening : f \in toStop \cup closing \/ forwarders[f.key] = f

\* What is left to do in each phase of Reconcile and Close.
PhaseInv ==
  /\ rpc \notin {"applying", "binding"} => pending = {}
  /\ rpc = "idle" => toStop = {}
  /\ cpc = "running" => closing = {}
  /\ cpc # "running" => ctxDone
  /\ rpc = "binding" =>
       /\ cur \in pending \ (UdpKeys \cup offeredKeys)
       /\ cur \notin offered
       /\ forwarders[cur] = NoForwarder

\* The loop over desired: the keys it has passed have their row, those it has
\* not reached are wanted and live only on the target they are wanted on.
LoopInv ==
  /\ \A k \in offeredKeys : desired[k] # NoTarget /\ k \notin UdpKeys
  /\ \A k \in pending :
       /\ desired[k] # NoTarget
       /\ forwarders[k] # NoForwarder => forwarders[k].target = desired[k]
  /\ cpc = "running" => \A k \in Keys \ pending : RowMatches(k)

\* What Reconcile stops is not wanted where it is: it moved, is gone or was
\* switched off.
StopInv == \A f \in toStop : ~StillWanted(f)

\* Until the context ends a live forwarder listens on its remembered port.
BoundInv ==
  \A k \in Keys :
    forwarders[k] # NoForwarder /\ ~ctxDone =>
      forwarders[k] \in listening /\ forwarders[k].port = assigned[k]

\* No two listeners share a port, nor does one share it with another process.
PortInv ==
  /\ \A f, g \in listening : f.port = g.port => f = g
  /\ \A f \in listening : f.port \notin foreign

Inv == /\ ValuesOK /\ OwnerInv /\ PhaseInv /\ LoopInv /\ StopInv
       /\ BoundInv /\ OneRowPerKey /\ PortInv

-----------------------------------------------------------------------------
\* Every port Listen considers is a number.
LEMMA AttemptPortType ==
  ASSUME ValuesOK, cur \in Keys, desired[cur] \in Targets
  PROVE  AttemptPort \in Nat
BY DEF ValuesOK, AttemptPort

\* The id chosen for a new forwarder makes it one nobody refers to.
LEMMA NewIdFresh ==
  ASSUME \E i \in Ids : Unused(Started(i))
  PROVE  NewId \in Ids /\ Unused(Started(NewId))
BY Zenon DEF NewId

\* The initial state satisfies the inductive invariant.
LEMMA InitInv == Init => Inv
BY DEF Init, Inv, ValuesOK, OwnerInv, PhaseInv, LoopInv, StopInv,
       StillWanted, BoundInv, OneRowPerKey, PortInv, RowMatches, WantsForward, RowKinds, Forwarders

\* Every step of the specification preserves the inductive invariant: one step
\* per action, those of Reconcile first, then Close and the environment.
LEMMA StepInv == Inv /\ [Next]_vars => Inv'
<1> SUFFICES ASSUME Inv, [Next]_vars PROVE Inv'
  OBVIOUS
<1> USE DEF Inv, ValuesOK, OwnerInv, PhaseInv, LoopInv, StopInv,
            StillWanted, BoundInv, OneRowPerKey, PortInv, RowMatches, WantsForward, RowKinds, Forwarders,
            rowVars, loopVars, bindVars, endVars
<1>1. ASSUME NEW want \in [Keys -> Targets \cup {NoTarget}],
             NEW off \in SUBSET {k \in Keys \ UdpKeys : want[k] # NoTarget},
             Begin(want, off)
      PROVE  Inv'
  BY <1>1 DEF Begin, Dropped, Collected, PrunedProblems
<1>2. ASSUME NEW k \in Keys, ApplyUnsupported(k) PROVE Inv'
  BY <1>2 DEF ApplyUnsupported
<1>3. ASSUME NEW k \in Keys, ApplyOffered(k) PROVE Inv'
  BY <1>3 DEF ApplyOffered, StoppedByOffer, ProblemsOfOffered
<1>4. ASSUME NEW k \in Keys, ApplyLive(k) PROVE Inv'
  BY <1>4 DEF ApplyLive, HasForwarder
<1>5. ASSUME NEW k \in Keys, ApplyStart(k) PROVE Inv'
  BY <1>5 DEF ApplyStart, HasForwarder
<1>6. CASE AttemptFails
  <2> USE <1>6 DEF AttemptFails
  <2>1. cur \in Keys /\ desired[cur] \in Targets
    OBVIOUS
  <2>2. AttemptPort \in Nat
    BY <2>1, AttemptPortType
  <2>3. tried' \in SUBSET (1..MaxPort)
    BY <2>2 DEF Invalid
  <2>4. idx' \in 1..(FallbackSize + 3)
    BY DEF NextIdx, Exhausted
  <2> QED
    BY <2>3, <2>4
<1>7. CASE AttemptBinds
  <2> DEFINE f == Started(NewId)
  <2> USE <1>7 DEF AttemptBinds
  <2>1. cur \in Keys /\ desired[cur] \in Targets
    OBVIOUS
  <2>2. AttemptPort \in 1..MaxPort /\ ~Busy(AttemptPort)
    BY <2>1, AttemptPortType DEF Invalid
  <2>3. NewId \in Ids /\ Unused(f)
    BY NewIdFresh
  <2>4. /\ f \in Forwarders
        /\ f.key = cur /\ f.target = desired[cur] /\ f.port = AttemptPort
    BY <2>1, <2>2, <2>3 DEF Started
  <2>5. /\ f # NoForwarder
        /\ f \notin listening /\ f \notin toStop \cup closing
        /\ \A k \in Keys : forwarders[k] # f
    BY <2>3, <2>4 DEF Unused, Live
  <2>6. /\ forwarders' = [forwarders EXCEPT ![cur] = f]
        /\ listening' = listening \cup {f}
        /\ assigned' = [assigned EXCEPT ![cur] = f.port]
    BY <2>4 DEF Remember
  <2>7. \A g \in listening : g.port # f.port
    BY <2>2, <2>4 DEF Busy
  <2>8. f.port \notin foreign
    BY <2>2, <2>4 DEF Busy
  <2> HIDE DEF f
  <2>9. ValuesOK' /\ OwnerInv' /\ PhaseInv' /\ StopInv' /\ BoundInv'
    BY <2>1, <2>2, <2>4, <2>5, <2>6
  <2>10. LoopInv' /\ OneRowPerKey'
    BY <2>1, <2>4, <2>5, <2>6
  <2>11. PortInv'
    BY <2>4, <2>6, <2>7, <2>8
  <2> QED
    BY <2>9, <2>10, <2>11
<1>8. CASE ListenFails
  BY <1>8 DEF ListenFails
<1>9. CASE Unlock
  BY <1>9 DEF Unlock
<1>10. ASSUME NEW f \in toStop, StopOne(f) PROVE Inv'
  BY <1>10 DEF StopOne, AfterStop
<1>11. CASE Return
  BY <1>11 DEF Return
<1>12. CASE CloseBegin
  BY <1>12 DEF CloseBegin, CloseList, Live, Unlocked
<1>13. ASSUME NEW f \in closing, CloseStop(f) PROVE Inv'
  BY <1>13 DEF CloseStop, AfterStop
<1>14. CASE CloseReturn
  BY <1>14 DEF CloseReturn
<1>15. CASE Cancel
  BY <1>15 DEF Cancel
<1>16. ASSUME NEW f \in listening, ListenerCloses(f) PROVE Inv'
  BY <1>16 DEF ListenerCloses
<1>17. ASSUME NEW p \in ForeignPorts, ForeignBind(p) PROVE Inv'
  BY <1>17 DEF ForeignBind, Busy
<1>18. ASSUME NEW p \in ForeignPorts, ForeignRelease(p) PROVE Inv'
  BY <1>18 DEF ForeignRelease
<1>19. CASE UNCHANGED vars
  BY <1>19 DEF vars
<1> QED
  BY <1>1, <1>2, <1>3, <1>4, <1>5, <1>6, <1>7, <1>8, <1>9, <1>10, <1>11,
     <1>12, <1>13, <1>14, <1>15, <1>16, <1>17, <1>18, <1>19, Zenon
  DEF Next, BeginAny, ReconcileStep, CloseStep

\* The inductive invariant holds in every reachable state.
LEMMA Invariance == Spec => []Inv
BY InitInv, StepInv, PTL DEF Spec

-----------------------------------------------------------------------------
\* The variables of the manager and of the allocator keep their types: no port
\* outside the valid range is bound or remembered.
THEOREM TypeCorrect == Spec => []TypeOK
<1>1. Inv => ValuesOK
  BY Zenon DEF Inv
<1>2. Init => ctxDone \in BOOLEAN
  BY Zenon DEF Init
<1>3. ctxDone \in BOOLEAN /\ [Next]_vars => (ctxDone \in BOOLEAN)'
  <2>1. [Next]_vars => ctxDone' = ctxDone \/ ctxDone' = TRUE
    BY DEF Next, BeginAny, Begin, ReconcileStep, ApplyUnsupported,
       ApplyOffered, ApplyLive, ApplyStart, AttemptFails, AttemptBinds,
       ListenFails, Unlock, Return, StopOne, CloseStep, CloseBegin,
       CloseReturn, CloseStop, Cancel, ListenerCloses, ForeignBind,
       ForeignRelease, vars, endVars
  <2> QED
    BY <2>1, Zenon
<1> QED
  BY Invariance, <1>1, <1>2, <1>3, PTL DEF Spec, TypeOK

\* A tunnel key never has two rows.
THEOREM OneRowPerKeyHolds == Spec => []OneRowPerKey
<1>1. Inv => OneRowPerKey
  BY Zenon DEF Inv
<1> QED
  BY Invariance, <1>1, PTL

\* No open listener is forgotten.
THEOREM ListenersAreOwned == Spec => []NoOrphanListener
<1>1. Inv => NoOrphanListener
  BY DEF Inv, ValuesOK, OwnerInv, NoOrphanListener, Live, Forwarders
<1> QED
  BY Invariance, <1>1, PTL

\* Until the context ends a tunnel in the map is bound to its remembered port.
THEOREM LiveTunnelsAreBound == Spec => []LiveTunnelIsBound
<1>1. Inv => LiveTunnelIsBound
  BY DEF Inv, OwnerInv, BoundInv, LiveTunnelIsBound
<1> QED
  BY Invariance, <1>1, PTL

\* When Reconcile has returned the rows are exactly what discovery asked for.
THEOREM ReconcileConverges == Spec => []Converged
<1>1. Inv => Converged
  BY DEF Inv, ValuesOK, OwnerInv, PhaseInv, LoopInv, Converged, Live, Forwarders
<1> QED
  BY Invariance, <1>1, PTL

\* A listener closes only because its tunnel is unwanted or the context ended.
THEOREM WantedTunnelsSurvive == Spec => NeverTearsDownWanted
<1>1. Inv /\ [Next]_vars =>
        [\A f \in listening \ listening' : ctxDone \/ ~StillWanted(f)]_vars
  <2> SUFFICES ASSUME Inv, Next, NEW f \in listening \ listening'
               PROVE  ctxDone \/ ~StillWanted(f)
    OBVIOUS
  <2>1. ASSUME NEW g \in toStop, StopOne(g) PROVE ~StillWanted(f)
    BY <2>1 DEF StopOne, AfterStop, Inv, StopInv
  <2>2. ASSUME NEW g \in closing, CloseStop(g) PROVE ctxDone
    BY <2>2 DEF CloseStop, Inv, PhaseInv
  <2>3. ASSUME NEW g \in listening, ListenerCloses(g) PROVE ctxDone
    BY <2>3 DEF ListenerCloses
  <2>4. CASE AttemptBinds
    BY <2>4 DEF AttemptBinds
  <2>5. CASE listening' = listening
    BY <2>5
  <2> QED
    BY <2>1, <2>2, <2>3, <2>4, <2>5 DEF Next, BeginAny, Begin, ReconcileStep,
       ApplyUnsupported, ApplyOffered, ApplyLive, ApplyStart, AttemptFails,
       ListenFails, Unlock, Return, CloseStep, CloseBegin, CloseReturn,
       Cancel, ForeignBind, ForeignRelease
<1> QED
  BY Invariance, <1>1, PTL DEF Spec, NeverTearsDownWanted

\* Where Listen stands in its list: the ports before idx have been considered.
Considered(p) ==
  \/ idx > 1 /\ p = assigned[cur]
  \/ idx > 2 /\ p = Preferred[desired[cur]]
  \/ FallbackBase <= p /\ p + 3 < FallbackBase + idx

\* A port of the key that Listen has considered is one that it has tried.
SearchInv ==
  rpc = "binding" => \A p \in PortsFor(cur) : Considered(p) => p \in tried

\* An attempt tries the port it considers, unless it has been tried before.
LEMMA StepSearchInv == Inv /\ SearchInv /\ [Next]_vars => SearchInv'
<1> SUFFICES ASSUME Inv, SearchInv, [Next]_vars PROVE SearchInv'
  OBVIOUS
<1>1. /\ assigned \in [Keys -> 0..MaxPort] /\ idx \in 1..(FallbackSize + 3)
      /\ rpc = "binding" => cur \in Keys /\ desired[cur] \in Targets
  BY DEF Inv, ValuesOK, PhaseInv, LoopInv
<1>2. CASE AttemptFails
  <2>1. /\ idx' = idx + 1 /\ rpc = "binding"
        /\ UNCHANGED <<assigned, desired, cur>>
    BY <1>2 DEF AttemptFails, NextIdx, loopVars
  <2>2. ASSUME NEW p \in PortsFor(cur), p = AttemptPort PROVE p \in tried'
    BY <1>2, <2>2 DEF AttemptFails, Invalid, PortsFor
  <2>3. ASSUME NEW p \in PortsFor(cur), Considered(p)'
        PROVE  Considered(p) \/ p = AttemptPort
    <3>1. p \in 1..MaxPort /\ Preferred[desired[cur]] \in Nat /\ assigned[cur] \in Nat
      BY <1>1, <2>1 DEF PortsFor
    <3>2. CASE idx = 1
      BY <1>1, <2>1, <2>3, <3>1, <3>2 DEF Considered, AttemptPort
    <3>3. CASE idx = 2
      BY <1>1, <2>1, <2>3, <3>1, <3>3 DEF Considered, AttemptPort
    <3>4. CASE idx > 2
      BY <1>1, <2>1, <2>3, <3>1, <3>4 DEF Considered, AttemptPort
    <3> QED
      BY <1>1, <3>2, <3>3, <3>4
  <2>4. tried \subseteq tried' /\ PortsFor(cur)' = PortsFor(cur)
    BY <1>2, <2>1 DEF AttemptFails, PortsFor
  <2> QED
    BY <2>1, <2>2, <2>3, <2>4 DEF SearchInv
<1>3. CASE rpc' # "binding"
  BY <1>3 DEF SearchInv
<1>4. CASE UNCHANGED <<rpc, cur, idx, tried, assigned, desired>>
  BY <1>4 DEF SearchInv, Considered, PortsFor
<1>5. ASSUME NEW k \in Keys, ApplyStart(k) PROVE SearchInv'
  <2>1. idx' = 1 /\ \A p \in PortsFor(cur)' : p \in Nat
    BY <1>5 DEF ApplyStart, PortsFor
  <2>2. \A p \in Nat : ~Considered(p)'
    BY <2>1 DEF Considered
  <2> QED
    BY <2>1, <2>2 DEF SearchInv
<1> QED
  BY <1>2, <1>3, <1>4, <1>5 DEF Next, BeginAny, Begin, ReconcileStep,
     ApplyUnsupported, ApplyOffered, ApplyLive, AttemptBinds, ListenFails,
     Unlock, Return, StopOne, CloseStep, CloseBegin, CloseReturn, CloseStop,
     Cancel, ListenerCloses, ForeignBind, ForeignRelease, vars, loopVars,
     bindVars

LEMMA SearchInvariance == Spec => []SearchInv
<1>1. Init => SearchInv
  BY DEF Init, SearchInv
<1> QED
  BY <1>1, StepSearchInv, Invariance, PTL DEF Spec

\* A key gives up its remembered port only after Listen has found it taken.
THEOREM StickyIsTriedFirst == Spec => StickyTriedFirst
<1>1. Inv /\ SearchInv /\ [Next]_vars =>
        [\A k \in Keys : assigned[k] # 0 /\ assigned'[k] # assigned[k]
                            => assigned[k] \in tried]_vars
  <2> SUFFICES ASSUME Inv, SearchInv, Next, NEW k \in Keys,
                      assigned[k] # 0, assigned'[k] # assigned[k]
               PROVE  assigned[k] \in tried
    OBVIOUS
  <2>1. /\ assigned \in [Keys -> 0..MaxPort] /\ idx \in 1..(FallbackSize + 3)
        /\ rpc = "binding" => cur \in Keys
    BY DEF Inv, ValuesOK, PhaseInv
  <2>2. CASE AttemptBinds
    <3>1. k = cur /\ assigned'[k] = AttemptPort /\ rpc = "binding"
      BY <2>1, <2>2 DEF AttemptBinds, Remember
    <3>2. idx > 1
      BY <2>1, <3>1 DEF AttemptPort
    <3>3. assigned[k] \in PortsFor(cur) /\ Considered(assigned[k])
      BY <2>1, <3>1, <3>2 DEF PortsFor, Considered
    <3> QED
      BY <3>1, <3>3 DEF SearchInv
  <2>3. CASE UNCHANGED assigned
    BY <2>3
  <2> QED
    BY <2>2, <2>3 DEF Next, BeginAny, Begin, ReconcileStep, ApplyUnsupported,
       ApplyOffered, ApplyLive, ApplyStart, AttemptFails, ListenFails, Unlock,
       Return, StopOne, CloseStep, CloseBegin, CloseReturn, CloseStop, Cancel,
       ListenerCloses, ForeignBind, ForeignRelease
<1> QED
  BY <1>1, SearchInvariance, Invariance, PTL DEF Spec, StickyTriedFirst

\* A key is left without a tunnel only when this Reconcile has found every port
\* it may have taken.
THEOREM NoPortIsOverlooked == Spec => NoPortOverlooked
<1>1. Inv /\ SearchInv /\ [Next]_vars =>
        [\A k \in pending \ pending' :
           problems'[k] = "error" => PortsFor(k) \subseteq tried]_vars
  <2> SUFFICES ASSUME Inv, SearchInv, Next, NEW k \in pending \ pending',
                      problems'[k] = "error"
               PROVE  PortsFor(k) \subseteq tried
    OBVIOUS
  <2>1. /\ problems \in [Keys -> RowKinds] /\ k \in Keys
        /\ assigned \in [Keys -> 0..MaxPort] /\ idx \in 1..(FallbackSize + 3)
    BY DEF Inv, ValuesOK
  <2>2. ASSUME NEW j \in Keys, ApplyUnsupported(j) \/ ApplyOffered(j) PROVE FALSE
    BY <2>1, <2>2 DEF ApplyUnsupported, ApplyOffered, ProblemsOfOffered
  <2>3. ASSUME NEW j \in Keys, ApplyLive(j) PROVE FALSE
    BY <2>1, <2>3 DEF ApplyLive, HasForwarder, Inv, OneRowPerKey
  <2>4. CASE AttemptBinds
    BY <2>1, <2>4 DEF AttemptBinds, Inv, PhaseInv
  <2>5. CASE ListenFails
    <3>1. k = cur /\ rpc = "binding" /\ idx > FallbackSize + 2
      BY <2>5 DEF ListenFails, Exhausted
    <3>2. \A p \in PortsFor(cur) : Considered(p)
      BY <2>1, <3>1 DEF PortsFor, Considered
    <3> QED
      BY <3>1, <3>2 DEF SearchInv
  <2>6. CASE pending \subseteq pending'
    BY <2>6
  <2>7. ASSUME NEW want \in [Keys -> Targets \cup {NoTarget}],
               NEW off \in SUBSET Keys, Begin(want, off)
        PROVE  FALSE
    BY <2>7 DEF Begin, Inv, PhaseInv
  <2> QED
    BY <2>2, <2>3, <2>4, <2>5, <2>6, <2>7 DEF Next, BeginAny, ReconcileStep, ApplyStart,
       AttemptFails, Unlock, Return, StopOne, CloseStep, CloseBegin, CloseReturn,
       CloseStop, Cancel, ListenerCloses, ForeignBind, ForeignRelease, loopVars
<1> QED
  BY <1>1, SearchInvariance, Invariance, PTL DEF Spec, NoPortOverlooked

-----------------------------------------------------------------------------
(* The manager implements TunnelSet.                                       *)

Opened == {TunnelOf(f) : f \in listening}

\* A listener stands for a tunnel of its own, wanted exactly if its forwarder is.
LEMMA TunnelsOfListeners ==
  ASSUME Inv
  PROVE  /\ \A f \in Forwarders : TunnelOf(f) \in Promise!Tunnels
         /\ \A f, g \in listening : TunnelOf(f) = TunnelOf(g) => f = g
         /\ \A f \in Forwarders : Promise!Wanted(TunnelOf(f))
                                   <=> StillWanted(f) /\ f.key \notin UdpKeys
<1>1. \A f \in Forwarders : /\ f.key \in Keys /\ f.target \in Targets /\ f.port \in 1..MaxPort
                            /\ TunnelOf(f).key = f.key /\ TunnelOf(f).port = f.port
                            /\ TunnelOf(f).target = f.target
  BY DEF Forwarders, TunnelOf
<1>2. \A f \in Forwarders : TunnelOf(f) \in Promise!Tunnels
  BY DEF Forwarders, TunnelOf, Promise!Tunnels
<1>3. \A f, g \in listening : TunnelOf(f) = TunnelOf(g) => f = g
  BY <1>1 DEF Inv, ValuesOK, PortInv
<1>4. ASSUME NEW f \in Forwarders
      PROVE  Promise!Wanted(TunnelOf(f)) <=> StillWanted(f) /\ f.key \notin UdpKeys
  <2>1. WantedTargets[f.key] = IF WantsForward(f.key) THEN desired[f.key] ELSE NoTarget
    BY <1>1 DEF WantedTargets
  <2>2. f.target # NoTarget
    BY <1>1
  <2> QED
    BY <1>1, <2>1, <2>2 DEF Promise!Wanted, StillWanted, WantsForward
<1> QED
  BY <1>2, <1>3, <1>4

\* One listener less is one tunnel less, and one that the end or the request
\* allows to shut.
LEMMA ListenerShuts ==
  ASSUME Inv, NEW f \in toStop \cup closing \cup listening,
         listening' = listening \ {f}, ctxDone \/ ~StillWanted(f),
         UNCHANGED <<WantedTargets, WithoutPort, foreign, rpc = "idle", ctxDone>>
  PROVE  [Promise!Next]_(Promise!vars)
<1>1. CASE f \in listening
  <2>1. f \in Forwarders
    BY <1>1 DEF Inv, ValuesOK
  <2>2. Opened' = Opened \ {TunnelOf(f)} /\ TunnelOf(f) \in Opened
    BY <1>1, TunnelsOfListeners DEF Opened, TunnelOf
  <2>3. ctxDone \/ ~Promise!Wanted(TunnelOf(f))
    BY <2>1, TunnelsOfListeners
  <2>4. Promise!Shut(TunnelOf(f))
    BY <2>2, <2>3 DEF Promise!Shut, Opened
  <2>5. TunnelOf(f) \in Promise!Tunnels
    BY <2>1, TunnelsOfListeners
  <2> QED
    BY <2>4, <2>5 DEF Promise!Next
<1>2. CASE f \notin listening
  <2>1. listening' = listening
    BY <1>2
  <2> QED
    BY <2>1 DEF Promise!vars, TunnelOf
<1> QED
  BY <1>1, <1>2

\* Every step of the manager is a step of TunnelSet or none.
THEOREM ImplementsTunnelSet == Spec => Promise!Spec
<1>1. Init => Promise!Init
  BY DEF Init, Promise!Init, WantedTargets, WantsForward, WithoutPort
<1>2. Inv /\ [Next]_vars => [Promise!Next]_(Promise!vars)
  <2> SUFFICES ASSUME Inv, [Next]_vars PROVE [Promise!Next]_(Promise!vars)
    OBVIOUS
  <2> DEFINE Stutters == UNCHANGED <<WantedTargets, WithoutPort, listening, foreign,
                                     rpc = "idle", ctxDone>>
  <2>0. Stutters => UNCHANGED Promise!vars
    BY DEF Promise!vars, TunnelOf
  <2>w. UNCHANGED <<desired, offeredKeys>> => UNCHANGED WantedTargets
    BY DEF WantedTargets, WantsForward
  <2>1. ASSUME NEW want \in [Keys -> Targets \cup {NoTarget}],
               NEW off \in SUBSET {k \in Keys \ UdpKeys : want[k] # NoTarget},
               Begin(want, off)
        PROVE  Promise!Next
    <3>1. /\ rpc = "idle" /\ rpc' = "applying"
          /\ UNCHANGED <<listening, foreign, ctxDone>>
      BY <2>1 DEF Begin, endVars
    <3>2. WithoutPort' = {}
      BY <2>1 DEF Begin, WithoutPort, PrunedProblems
    <3>3. WantedTargets' \in [Keys -> Targets \cup {NoTarget}]
      BY <2>1 DEF Begin, WantedTargets, WantsForward
    <3>4. Promise!Request(WantedTargets')
      BY <3>1, <3>2 DEF Promise!Request, TunnelOf
    <3> QED
      BY <3>3, <3>4 DEF Promise!Next
  <2>2. CASE (\E k \in Keys : ApplyUnsupported(k) \/ ApplyOffered(k) \/ ApplyLive(k)
                               \/ ApplyStart(k))
             \/ AttemptFails \/ Unlock
    <3>1. /\ UNCHANGED <<desired, offeredKeys, listening, foreign, ctxDone>>
          /\ rpc # "idle" /\ rpc' # "idle"
      BY <2>2 DEF ApplyUnsupported, ApplyOffered, ApplyLive, ApplyStart, AttemptFails,
         Unlock, loopVars, endVars
    <3>2. WithoutPort' = WithoutPort
      BY <2>2 DEF ApplyUnsupported, ApplyOffered, ApplyLive, ApplyStart, AttemptFails,
         Unlock, WithoutPort, ProblemsOfOffered, HasForwarder, Inv, ValuesOK, OneRowPerKey, rowVars,
         loopVars
    <3> QED
      BY <3>1, <3>2, <2>0, <2>w
  <2>3. CASE AttemptBinds
    <3> DEFINE f == Started(NewId)
    <3>1. /\ cur \in pending /\ cur \in Keys \ (UdpKeys \cup offeredKeys)
          /\ desired[cur] \in Targets /\ forwarders[cur] = NoForwarder
      BY <2>3 DEF AttemptBinds, Inv, ValuesOK, PhaseInv, LoopInv
    <3>2. AttemptPort \in 1..MaxPort /\ ~Busy(AttemptPort) /\ NewId \in Ids
      BY <2>3, <3>1, AttemptPortType, NewIdFresh DEF AttemptBinds, Invalid, Inv
    <3>3. /\ f \in Forwarders
          /\ f.key = cur /\ f.target = desired[cur] /\ f.port = AttemptPort
      BY <3>1, <3>2 DEF Started, Forwarders
    <3>4. /\ listening' = listening \cup {f} /\ rpc # "idle" /\ rpc' # "idle"
          /\ UNCHANGED <<desired, offeredKeys, foreign, ctxDone>>
      BY <2>3 DEF AttemptBinds, endVars
    <3>5. WithoutPort' = WithoutPort /\ cur \notin WithoutPort
      BY <2>3, <3>1 DEF AttemptBinds, WithoutPort, Inv, ValuesOK
    <3> HIDE DEF f
    <3>6. Opened' = Opened \cup {TunnelOf(f)} /\ TunnelOf(f).key = cur
          /\ TunnelOf(f).port = AttemptPort
      BY <3>3, <3>4 DEF Opened, TunnelOf
    <3>7. Promise!Wanted(TunnelOf(f))
      BY <3>1, <3>3, TunnelsOfListeners DEF StillWanted
    <3>8. ctxDone \/ ~Promise!IsOpen(cur)
      <4> SUFFICES ASSUME ~ctxDone, NEW g \in listening, TunnelOf(g).key = cur,
                          Promise!Wanted(TunnelOf(g))
                   PROVE  FALSE
        BY DEF Promise!IsOpen
      <4>1. g \in Forwarders /\ g.key = cur /\ StillWanted(g)
        BY TunnelsOfListeners DEF Inv, ValuesOK, TunnelOf
      <4>2. g \in toStop \cup closing
        BY <3>1, <4>1 DEF Inv, OwnerInv, Forwarders
      <4>3. g \notin toStop /\ g \notin closing
        BY <4>1 DEF Inv, StopInv, PhaseInv
      <4> QED
        BY <4>2, <4>3
    <3>9. AttemptPort \notin Promise!PortsInUse
      BY <3>2 DEF Promise!PortsInUse, Busy, TunnelOf
    <3>10. Promise!Open(TunnelOf(f))
      BY <3>4, <3>5, <3>6, <3>7, <3>8, <3>9, <2>w DEF Promise!Open, Opened
    <3>11. TunnelOf(f) \in Promise!Tunnels
      BY <3>3, TunnelsOfListeners
    <3> QED
      BY <3>10, <3>11 DEF Promise!Next
  <2>4. CASE ListenFails
    <3>1. /\ cur \in pending /\ cur \in Keys \ (UdpKeys \cup offeredKeys)
          /\ desired[cur] # NoTarget /\ forwarders[cur] = NoForwarder
      BY <2>4 DEF ListenFails, Inv, ValuesOK, PhaseInv, LoopInv
    <3>2. /\ rpc # "idle" /\ rpc' # "idle"
          /\ UNCHANGED <<desired, offeredKeys, listening, foreign, ctxDone>>
      BY <2>4 DEF ListenFails, endVars
    <3>3. WithoutPort' = WithoutPort \cup {cur}
      BY <2>4, <3>1 DEF ListenFails, WithoutPort, Inv, ValuesOK
    <3>4. WantedTargets[cur] # NoTarget
      BY <3>1 DEF WantedTargets, WantsForward
    <3>5. ctxDone \/ ~Promise!IsOpen(cur)
      <4> SUFFICES ASSUME ~ctxDone, NEW g \in listening, TunnelOf(g).key = cur,
                          Promise!Wanted(TunnelOf(g))
                   PROVE  FALSE
        BY DEF Promise!IsOpen
      <4>1. g \in Forwarders /\ g.key = cur /\ StillWanted(g)
        BY TunnelsOfListeners DEF Inv, ValuesOK, TunnelOf
      <4>2. g \in toStop \cup closing
        BY <3>1, <4>1 DEF Inv, OwnerInv, Forwarders
      <4>3. g \notin toStop /\ g \notin closing
        BY <4>1 DEF Inv, StopInv, PhaseInv
      <4> QED
        BY <4>2, <4>3
    <3>6. Promise!Refuse(cur)
      BY <3>2, <3>3, <3>4, <3>5, <2>w DEF Promise!Refuse, TunnelOf
    <3> QED
      BY <3>1, <3>6 DEF Promise!Next
  <2>5. ASSUME NEW f \in toStop, StopOne(f) PROVE [Promise!Next]_(Promise!vars)
    <3>1. /\ listening' = listening \ {f} /\ ~StillWanted(f)
          /\ UNCHANGED <<desired, offeredKeys, problems, pending, foreign, rpc, ctxDone>>
      BY <2>5 DEF StopOne, AfterStop, Inv, StopInv, rowVars, endVars
    <3> QED
      BY <3>1, <2>w, ListenerShuts DEF WithoutPort
  <2>6. ASSUME NEW f \in closing, CloseStop(f) PROVE [Promise!Next]_(Promise!vars)
    <3>1. /\ listening' = listening \ {f} /\ ctxDone
          /\ UNCHANGED <<desired, offeredKeys, problems, pending, foreign, rpc, ctxDone>>
      BY <2>6 DEF CloseStop, AfterStop, Inv, PhaseInv, rowVars, loopVars
    <3> QED
      BY <3>1, <2>w, ListenerShuts DEF WithoutPort
  <2>7. ASSUME NEW f \in listening, ListenerCloses(f)
        PROVE  [Promise!Next]_(Promise!vars)
    <3>1. /\ listening' = listening \ {f} /\ ctxDone
          /\ UNCHANGED <<desired, offeredKeys, problems, pending, foreign, rpc, ctxDone>>
      BY <2>7 DEF ListenerCloses, rowVars, loopVars, endVars
    <3> QED
      BY <3>1, <2>w, ListenerShuts DEF WithoutPort
  <2>8. CASE Return
    <3>1. /\ rpc = "stopping" /\ rpc' = "idle" /\ toStop = {} /\ pending = {}
          /\ UNCHANGED <<desired, offeredKeys, problems, pending, listening, foreign,
                         ctxDone>>
      BY <2>8 DEF Return, Inv, PhaseInv, rowVars, endVars
    <3>2. CASE ~ctxDone
      <4>1. closing = {} /\ \A k \in Keys : RowMatches(k)
        BY <3>1, <3>2 DEF Inv, PhaseInv, LoopInv
      <4>2. ASSUME NEW f \in listening PROVE Promise!Wanted(TunnelOf(f))
        <5>1. f \in Forwarders /\ forwarders[f.key] = f /\ f.key \in Keys /\ f # NoForwarder
          BY <3>1, <4>1 DEF Inv, ValuesOK, OwnerInv, Forwarders
        <5>2. WantsForward(f.key) /\ f.target = desired[f.key]
          BY <4>1, <5>1 DEF RowMatches
        <5> QED
          BY <5>1, <5>2, TunnelsOfListeners DEF WantsForward, StillWanted
      <4>3. ASSUME NEW k \in Keys, WantedTargets[k] # NoTarget
            PROVE  Promise!IsOpen(k) \/ k \in WithoutPort
        <5>1. WantsForward(k)
          BY <4>3 DEF WantedTargets
        <5>2. CASE forwarders[k] = NoForwarder
          BY <3>1, <4>1, <5>1, <5>2 DEF RowMatches, WithoutPort
        <5>3. CASE forwarders[k] # NoForwarder
          <6>1. forwarders[k] \in listening /\ forwarders[k].key = k
            BY <3>2, <5>3 DEF Inv, BoundInv, OwnerInv
          <6>2. TunnelOf(forwarders[k]).key = k /\ Promise!Wanted(TunnelOf(forwarders[k]))
            BY <4>2, <6>1 DEF TunnelOf
          <6> QED
            BY <6>1, <6>2 DEF Promise!IsOpen
        <5> QED
          BY <5>2, <5>3
      <4>4. \A t \in Opened : Promise!Wanted(t)
        BY <4>2 DEF Opened
      <4>5. Promise!Settle
        BY <3>1, <4>3, <4>4, <2>w DEF Promise!Settle, Opened, WithoutPort, TunnelOf
      <4> QED
        BY <4>5 DEF Promise!Next
    <3>3. CASE ctxDone
      <4>1. Promise!Settle
        BY <3>1, <3>3, <2>w DEF Promise!Settle, WithoutPort, TunnelOf
      <4> QED
        BY <4>1 DEF Promise!Next
    <3> QED
      BY <3>2, <3>3
  <2>9. CASE CloseBegin \/ CloseReturn \/ UNCHANGED vars
    <3>1. UNCHANGED <<desired, offeredKeys, problems, pending, listening, foreign, rpc,
                      ctxDone>>
      BY <2>9 DEF CloseBegin, CloseReturn, vars, rowVars, loopVars, endVars
    <3> QED
      BY <3>1, <2>0, <2>w DEF WithoutPort
  <2>10. CASE Cancel
    <3>1. /\ UNCHANGED <<desired, offeredKeys, problems, pending, listening, foreign, rpc>>
          /\ ctxDone' = TRUE
      BY <2>10 DEF Cancel, rowVars, loopVars
    <3>2. Promise!End
      BY <3>1, <2>w DEF Promise!End, WithoutPort, TunnelOf
    <3> QED
      BY <3>2 DEF Promise!Next
  <2>11. ASSUME NEW p \in ForeignPorts, ForeignBind(p) PROVE Promise!Next
    <3>1. /\ UNCHANGED <<desired, offeredKeys, problems, pending, listening, rpc, ctxDone>>
          /\ foreign' = foreign \cup {p} /\ ~Busy(p)
      BY <2>11 DEF ForeignBind, rowVars, loopVars, endVars
    <3>2. p \notin Promise!PortsInUse
      BY <3>1 DEF Busy, Promise!PortsInUse, TunnelOf
    <3>3. Promise!Take(p) /\ p \in foreign'
      BY <3>1, <3>2, <2>w DEF Promise!Take, WithoutPort, TunnelOf
    <3> QED
      BY <3>3 DEF Promise!Next
  <2>12. ASSUME NEW p \in ForeignPorts, ForeignRelease(p) PROVE Promise!Next
    <3>1. /\ UNCHANGED <<desired, offeredKeys, problems, pending, listening, rpc, ctxDone>>
          /\ foreign' = foreign \ {p} /\ p \in foreign
      BY <2>12 DEF ForeignRelease, rowVars, loopVars, endVars
    <3>2. Promise!GiveBack(p)
      BY <3>1, <2>w DEF Promise!GiveBack, WithoutPort, TunnelOf
    <3> QED
      BY <3>1, <3>2 DEF Promise!Next
  <2> QED
    BY <2>1, <2>2, <2>3, <2>4, <2>5, <2>6, <2>7, <2>8, <2>9, <2>10, <2>11, <2>12
    DEF Next, BeginAny, ReconcileStep, CloseStep
<1> QED
  BY <1>1, <1>2, Invariance, PTL DEF Spec, Promise!Spec
=============================================================================
