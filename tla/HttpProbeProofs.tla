-------------------------- MODULE HttpProbeProofs --------------------------
(* Theorems about HttpProbe: the verdict a probe stores, and that slots    *)
(* and channels come back on every path.                                   *)
EXTENDS HttpProbe, FiniteSetTheorems, TLAPS

-----------------------------------------------------------------------------
PlacesOK ==
  /\ service \in [Tunnels -> Services]
  /\ place \in [Tunnels -> Places]
  /\ found \in [Tunnels -> {"none", "http", "https"}]
  /\ scheme \in [Tunnels -> {"unset", "none", "http", "https"}]

\* A probe has found nothing before its verdict and stored nothing before its
\* end.
OrderInv ==
  \A t \in Tunnels :
    /\ place[t] \notin {"verdict", "done"} => found[t] = "none"
    /\ place[t] # "done" => scheme[t] = "unset"

\* What an attempt that was not lost has shown of the service.
KnownInv ==
  \A t \in Tunnels \ missed :
    /\ place[t] \in {"plainDial", "plainRead"} => service[t] \notin {"https", "silent"}
    /\ found[t] = "https" => service[t] = "https"
    /\ found[t] = "http" => service[t] = "http"
    /\ place[t] = "verdict" /\ found[t] = "none" =>
         service[t] \in {"other", "silent"}

Inv == PlacesOK /\ OrderInv /\ KnownInv /\ VerdictFitsService

\* The initial states satisfy the inductive invariant.
LEMMA InitInv == Init => Inv
BY DEF Init, Inv, PlacesOK, OrderInv, KnownInv, VerdictFitsService, Places

\* Every step of a probe and of its surroundings preserves the inductive
\* invariant; the answers of a service and the verdict are the steps that matter.
LEMMA StepInv == Inv /\ [Next]_vars => Inv'
<1> SUFFICES ASSUME Inv, [Next]_vars PROVE Inv'
  OBVIOUS
<1> USE DEF Inv, PlacesOK, OrderInv, KnownInv, VerdictFitsService, Places,
            Services, Goto
<1>1. ASSUME NEW t \in Tunnels, TakeSlot(t) \/ LeaveQueue(t) PROVE Inv'
  BY <1>1 DEF TakeSlot, LeaveQueue
<1>2. ASSUME NEW t \in Tunnels, GetClient(t) \/ NoClient(t) \/ LookAgain(t)
      PROVE  Inv'
  BY <1>2 DEF GetClient, First, NoClient, LookAgain
<1>3. ASSUME NEW t \in Tunnels, StopWaiting(t) PROVE Inv'
  BY <1>3 DEF StopWaiting
<1>4. ASSUME NEW t \in Tunnels, Dial(t) PROVE Inv'
  BY <1>4 DEF Dial
<1>5. ASSUME NEW t \in Tunnels, DialFails(t) \/ NoAnswer(t) PROVE Inv'
  BY <1>5 DEF DialFails, NoAnswer, AfterAttempt
<1>6. ASSUME NEW t \in Tunnels, Answers(t) PROVE Inv'
  BY <1>6 DEF Answers, AfterAttempt, Speaks, Protocol
<1>7. ASSUME NEW t \in Tunnels, Verdict(t) PROVE Inv'
  BY <1>7 DEF Verdict
<1>8. CASE LinkChanges \/ \E t \in Tunnels : TunnelEnds(t)
  BY <1>8 DEF LinkChanges, TunnelEnds
<1>9. CASE UNCHANGED vars
  BY <1>9 DEF vars
<1> QED
  BY <1>1, <1>2, <1>3, <1>4, <1>5, <1>6, <1>7, <1>8, <1>9 DEF Next, Step

\* The inductive invariant holds in every behaviour.
LEMMA Invariance == Spec => []Inv
BY InitInv, StepInv, PTL DEF Spec

-----------------------------------------------------------------------------
\* A probe none of whose attempts was lost stores what the service speaks: an
\* HTTPS service is never called http, nor a web server nothing.
THEOREM VerdictsAreRight == Spec => []VerdictFitsService
<1>1. Inv => VerdictFitsService
  BY DEF Inv
<1> QED
  BY Invariance, <1>1, PTL

-----------------------------------------------------------------------------
\* The probes that hold a slot, which are as many as there are values in the
\* channel, and no more than it takes.
Holders == {t \in Tunnels : HoldsSlot(t)}

ChannelsOK ==
  /\ open = {t \in Tunnels : place[t] \in {"tlsRead", "plainRead"}}
  /\ stale \in SUBSET Tunnels /\ missed \in SUBSET Tunnels
  /\ ended \in SUBSET Tunnels

SlotInv ==
  /\ slots = Cardinality(Holders)
  /\ slots =< MaxProbes

LinkOK == linkUp \in BOOLEAN

\* The probes that hold a slot are finitely many.
LEMMA HoldersFinite == IsFiniteSet(Holders) /\ Cardinality(Holders) \in Nat
<1>1. Holders \in SUBSET Tunnels
  BY DEF Holders
<1> QED
  BY <1>1, ProbeAssumption, FS_Subset, FS_CardinalityType

\* The initial states have no slot taken and no channel open.
LEMMA InitLeakInv == Init => ChannelsOK /\ SlotInv /\ LinkOK
<1> SUFFICES ASSUME Init PROVE ChannelsOK /\ SlotInv /\ LinkOK
  OBVIOUS
<1>1. ChannelsOK
  BY DEF Init, ChannelsOK
<1>2. Holders = {}
  BY DEF Init, Holders, HoldsSlot
<1>3. SlotInv
  BY <1>2, FS_EmptySet, ProbeAssumption DEF Init, SlotInv
<1> QED
  BY <1>1, <1>3 DEF Init, LinkOK

\* Every path opens and closes its channel with the place it moves to.
LEMMA StepChannels == Inv /\ ChannelsOK /\ [Next]_vars => ChannelsOK'
<1> SUFFICES ASSUME Inv, ChannelsOK, [Next]_vars PROVE ChannelsOK'
  OBVIOUS
<1> USE DEF Inv, PlacesOK, ChannelsOK, Places, Goto
<1>1. ASSUME NEW t \in Tunnels, TakeSlot(t) \/ LeaveQueue(t) \/ GetClient(t)
      PROVE  ChannelsOK'
  BY <1>1 DEF TakeSlot, LeaveQueue, GetClient, First
<1>2. ASSUME NEW t \in Tunnels, NoClient(t) \/ LookAgain(t) \/ StopWaiting(t)
      PROVE  ChannelsOK'
  BY <1>2 DEF NoClient, LookAgain, StopWaiting
<1>3. ASSUME NEW t \in Tunnels, Dial(t) PROVE ChannelsOK'
  BY <1>3 DEF Dial
<1>4. ASSUME NEW t \in Tunnels, DialFails(t) PROVE ChannelsOK'
  BY <1>4 DEF DialFails, AfterAttempt
<1>5. ASSUME NEW t \in Tunnels, Answers(t) PROVE ChannelsOK'
  BY <1>5 DEF Answers, AfterAttempt, OpenAfterAnswer
<1>6. ASSUME NEW t \in Tunnels, NoAnswer(t) PROVE ChannelsOK'
  BY <1>6 DEF NoAnswer, AfterAttempt
<1>7. ASSUME NEW t \in Tunnels, Verdict(t) PROVE ChannelsOK'
  BY <1>7 DEF Verdict
<1>8. CASE LinkChanges \/ \E t \in Tunnels : TunnelEnds(t)
  BY <1>8 DEF LinkChanges, TunnelEnds
<1>9. CASE UNCHANGED vars
  BY <1>9 DEF vars
<1> QED
  BY <1>1, <1>2, <1>3, <1>4, <1>5, <1>6, <1>7, <1>8, <1>9 DEF Next, Step

\* A slot is taken by a probe that had none and returned by one that had it; any
\* other step leaves the holders as they are.
LEMMA StepSlots == Inv /\ SlotInv /\ [Next]_vars => SlotInv'
<1> SUFFICES ASSUME Inv, SlotInv, [Next]_vars PROVE SlotInv'
  OBVIOUS
<1> USE HoldersFinite, ProbeAssumption DEF Inv, PlacesOK, Places, Goto
<1>1. ASSUME NEW t \in Tunnels, TakeSlot(t) PROVE SlotInv'
  <2>1. t \notin Holders /\ Holders' = Holders \cup {t}
    BY <1>1 DEF TakeSlot, Holders, HoldsSlot
  <2>2. Cardinality(Holders') = Cardinality(Holders) + 1
    BY <2>1, FS_AddElement
  <2> QED
    BY <1>1, <2>2 DEF TakeSlot, HasSlot, SlotInv
<1>2. ASSUME NEW t \in Tunnels, StopWaiting(t) \/ Verdict(t) PROVE SlotInv'
  <2>1. t \in Holders /\ Holders' = Holders \ {t} /\ slots' = slots - 1
    BY <1>2 DEF StopWaiting, SlotsAfterWait, Verdict, Holders, HoldsSlot
  <2>2. Cardinality(Holders') = Cardinality(Holders) - 1
    BY <2>1, FS_RemoveElement
  <2> QED
    BY <2>1, <2>2 DEF SlotInv
<1>3. ASSUME UNCHANGED <<Holders, slots>> PROVE SlotInv'
  BY <1>3 DEF SlotInv
<1>4. ASSUME NEW t \in Tunnels, LeaveQueue(t) \/ GetClient(t) \/ NoClient(t)
      PROVE  UNCHANGED <<Holders, slots>>
  BY <1>4 DEF LeaveQueue, GetClient, First, NoClient, Holders, HoldsSlot
<1>5. ASSUME NEW t \in Tunnels, LookAgain(t) \/ Dial(t)
      PROVE  UNCHANGED <<Holders, slots>>
  BY <1>5 DEF LookAgain, Dial, Holders, HoldsSlot
<1>6. ASSUME NEW t \in Tunnels, DialFails(t) \/ Answers(t) \/ NoAnswer(t)
      PROVE  UNCHANGED <<Holders, slots>>
  BY <1>6 DEF DialFails, Answers, NoAnswer, AfterAttempt, Holders, HoldsSlot
<1>7. CASE LinkChanges \/ (\E t \in Tunnels : TunnelEnds(t)) \/ UNCHANGED vars
  <2>1. UNCHANGED <<Holders, slots>>
    BY <1>7 DEF LinkChanges, TunnelEnds, vars, Holders, HoldsSlot
  <2> QED
    BY <2>1, <1>3
<1> QED
  BY <1>1, <1>2, <1>3, <1>4, <1>5, <1>6, <1>7 DEF Next, Step

\* The link is up or down.
LEMMA StepLink == LinkOK /\ [Next]_vars => LinkOK'
<1> SUFFICES ASSUME LinkOK, [Next]_vars PROVE LinkOK'
  OBVIOUS
<1>1. CASE LinkChanges
  BY <1>1 DEF LinkChanges, LinkOK
<1>2. CASE UNCHANGED linkUp
  BY <1>2 DEF LinkOK
<1>3. LinkChanges \/ UNCHANGED linkUp
  BY DEF Next, Step, TakeSlot, LeaveQueue, GetClient, NoClient, LookAgain,
         StopWaiting, Dial, DialFails, Answers, NoAnswer, Verdict, TunnelEnds, vars
<1> QED
  BY <1>1, <1>2, <1>3

\* Slots and channels are in order in every behaviour.
LEMMA LeakInvariance == Spec => [](Inv /\ ChannelsOK /\ SlotInv /\ LinkOK)
BY Invariance, InitLeakInv, StepChannels, StepSlots, StepLink, PTL DEF Spec

-----------------------------------------------------------------------------
\* Every variable of the probes keeps its type, and the slots their limit, for any
\* number of tunnels.
THEOREM TypeCorrect == Spec => []TypeOK
<1>1. Inv /\ ChannelsOK /\ SlotInv /\ LinkOK => TypeOK
  BY HoldersFinite, ProbeAssumption
  DEF Inv, PlacesOK, ChannelsOK, SlotInv, LinkOK, TypeOK
<1> QED
  BY <1>1, LeakInvariance, PTL

\* A slot in use belongs to a probe at work and an open channel to an attempt under
\* way, however probes, drops and stops interleave.
THEOREM NothingLeaks == Spec => []NothingIsLeaked
<1>1. ChannelsOK /\ SlotInv => NothingIsLeaked
  BY DEF ChannelsOK, SlotInv, Holders, NothingIsLeaked
<1> QED
  BY <1>1, LeakInvariance, PTL
=============================================================================
