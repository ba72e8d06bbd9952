-------------------------- MODULE LifecycleProofs --------------------------
(* Theorems about Lifecycle: the types, and the state main leaves behind.  *)
EXTENDS Lifecycle, TLAPS

-----------------------------------------------------------------------------
\* Where main stands and what it has waited for to get there.
WaitInv ==
  /\ main = "waitReady" => engine = "none" /\ feed = "none" /\ program = "none"
  /\ main = "plain" => feed = "none" /\ program = "none" /\ noTUI
  /\ main \in {"tui", "feed"} => ~noTUI
  /\ main = "feed" => program # "running"
  /\ main \in {"engStop", "waitEng", "stop", "waitConn", "exited", "killed"} =>
       feed \in {"none", "done"} /\ program # "running"
  /\ main \in {"stop", "waitConn", "exited", "killed"} => engine # "running"
  /\ main = "exited" => conn = "done"

\* Listeners need an engine or a dashboard; a plain engine that is done has none.
TunnelInv ==
  /\ conn = "done" => link = "closed"
  /\ engine = "none" => ~tunnels
  /\ noTUI => program = "none"
  /\ noTUI /\ engine = "done" => ~tunnels

PlacesOK ==
  /\ main \in {"waitReady", "plain", "tui", "feed", "engStop", "waitEng",
               "stop", "waitConn", "exited", "killed"}
  /\ conn \in {"running", "hung", "done"}
  /\ link \in {"down", "up", "closed"}
  /\ drops \in 0..MaxDrops
  /\ engine \in {"none", "running", "done"}
  /\ feed \in {"none", "send", "select", "done"}
  /\ program \in {"none", "running", "quit", "broken"}
  /\ feed # "none" => engine # "none"
  /\ program # "none" => engine # "none"

FlagsOK ==
  /\ noTUI \in BOOLEAN /\ ctxDone \in BOOLEAN /\ engStopped \in BOOLEAN
  /\ tunnels \in BOOLEAN /\ failed \in BOOLEAN

Inv == PlacesOK /\ WaitInv /\ TunnelInv

\* The initial states satisfy the inductive invariant.
LEMMA InitInv == Init => Inv
BY DropAssumption DEF Init, Inv, PlacesOK, WaitInv, TunnelInv

\* Every step of main, of the connection, of the engine and of the front end
\* preserves the inductive invariant.
LEMMA StepInv == Inv /\ [Next]_vars => Inv'
<1> SUFFICES ASSUME Inv, [Next]_vars PROVE Inv'
  OBVIOUS
<1> USE DropAssumption DEF Inv, PlacesOK, WaitInv, TunnelInv, uiVars, Running
<1>1. CASE Ready
  BY <1>1 DEF Ready, EngineAfterReady
<1>2. CASE NotReady
  BY <1>2 DEF NotReady
<1>3. CASE PlainReturns \/ ProgramReturns \/ FeedDone
  BY <1>3 DEF PlainReturns, ProgramReturns, FeedDone
<1>4. CASE EngStop \/ EngDone \/ StopSignals \/ ConnDone
  BY <1>4 DEF EngStop, AfterEngStop, EngDone, StopSignals, ConnDone
<1>5. CASE Connects \/ Drops \/ ConnHangs \/ ConnEnds
  BY <1>5 DEF Connects, Drops, ConnHangs, ConnEnds
<1>6. CASE Opens \/ EngineEnds \/ ListenersClose
  BY <1>6 DEF Opens, EngineEnds, ListenersClose
<1>7. CASE FeedSends \/ FeedTicks \/ FeedEnds
  BY <1>7 DEF FeedSends, FeedTicks, FeedEnds
<1>8. CASE Quit \/ Breaks \/ Signal \/ SecondSignal
  BY <1>8 DEF Quit, Breaks, Signal, SecondSignal
<1>9. CASE Exited \/ UNCHANGED vars
  BY <1>9 DEF Exited, vars, Running
<1> QED
  BY <1>1, <1>2, <1>3, <1>4, <1>5, <1>6, <1>7, <1>8, <1>9 DEF Next, Main

\* The inductive invariant holds in every behaviour.
LEMMA Invariance == Spec => []Inv
BY InitInv, StepInv, PTL DEF Spec

-----------------------------------------------------------------------------
\* When run has returned, whatever made it return and with either front end, the
\* link is closed, the engine has stopped and nobody draws.
THEOREM ExitIsCleanHolds == Spec => []ExitIsClean
<1>1. Inv => ExitIsClean
  BY DEF Inv, PlacesOK, WaitInv, TunnelInv, ExitIsClean
<1> QED
  BY Invariance, <1>1, PTL

\* The flags stay Boolean: no action sets them to anything else.
LEMMA FlagsInvariance == Spec => []FlagsOK
<1>1. Init => FlagsOK
  BY Zenon DEF Init, FlagsOK
<1>2. FlagsOK /\ [Next]_vars => FlagsOK'
  <2> SUFFICES ASSUME FlagsOK, [Next]_vars PROVE FlagsOK'
    OBVIOUS
  <2>1. CASE FeedDone
    BY <2>1, Zenon DEF FeedDone, FlagsOK
  <2>2. CASE Next /\ ~FeedDone
    BY <2>2, Zenon DEF FlagsOK, Next, Main, Ready, NotReady, PlainReturns,
       ProgramReturns, EngStop, EngDone, StopSignals, ConnDone, Connects,
       Drops, ConnHangs, ConnEnds, Opens, EngineEnds, ListenersClose,
       FeedSends, FeedTicks, FeedEnds, Quit, Breaks, Signal, SecondSignal,
       Exited, vars, uiVars
  <2>3. CASE UNCHANGED vars
    BY <2>3, Zenon DEF FlagsOK, vars
  <2> QED
    BY <2>1, <2>2, <2>3
<1> QED
  BY <1>1, <1>2, PTL DEF Spec

\* Every variable of the process keeps its type, and the feed starts no earlier
\* than the engine it reads.
THEOREM TypeCorrect == Spec => []TypeOK
<1>1. Inv /\ FlagsOK => TypeOK
  BY Zenon DEF Inv, PlacesOK, FlagsOK, TypeOK
<1> QED
  BY Invariance, FlagsInvariance, <1>1, PTL
=============================================================================
