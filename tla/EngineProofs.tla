---------------------------- MODULE EngineProofs ----------------------------
(* Theorems about Engine: mutual exclusion of the two reconciles, that the *)
(* user's picks survive it and reach the file, that no request to rescan   *)
(* is lost, and that a source that fails drops nothing.                    *)
EXTENDS Engine, TLAPS

-----------------------------------------------------------------------------
Places ==
  /\ ppc \in {"client", "docker", "host", "publish", "lock", "apply",
              "reconcile", "status", "wait", "done"}
  /\ upc \in {"idle", "select", "selectAll", "save", "write", "read", "lock",
              "apply", "reconcile"}
  /\ reconcileMu \in {"free", "poll", "ui"}
  /\ selected \in [Keys -> Choices] /\ file \in [Keys -> Choices]
  /\ uVal \in {"on", "off"}

\* The poll is on its way from storing a set to handing it to the manager.
Handing == ppc \in {"lock", "apply", "reconcile"}

\* The dashboard's command has not changed a pick, or its reconcile is through.
Settled == upc \in {"idle", "select", "selectAll"}

\* The command is about keys that were in the last set, and has not read that
\* set to reconcile it.
Choosing == \/ upc \in {"select", "save", "write", "read"}
            \/ upc = "selectAll" /\ uKeys # {}

\* reconcileMu tells who is inside.
LockInv ==
  /\ reconcileMu = "poll" <=> ppc \in {"apply", "reconcile"}
  /\ reconcileMu = "ui" <=> upc \in {"apply", "reconcile"}

\* The set being handed over is the last set; and while a command is choosing, an
\* empty last set that has been handed over has left no row.
SetInv ==
  /\ Handing => pMaps = lastMaps
  /\ Choosing /\ lastMaps = {} /\ ~Handing /\ ppc # "done" => listed = {}

\* What either goroutine takes to the manager, and what is there.
RowInv ==
  /\ ppc = "reconcile" => pOn \subseteq pMaps
  /\ ppc = "reconcile" /\ Settled => pOn = ApplySelection(pMaps)
  /\ upc = "reconcile" => uOn = ApplySelection(uMaps)
  /\ forwarded \subseteq listed
  /\ Settled /\ ~Handing /\ ppc # "done" => forwarded = ApplySelection(listed)

Inv == Places /\ LockInv /\ SetInv /\ RowInv

\* The initial state satisfies the inductive invariant.
LEMMA InitInv == Init => Inv
BY DEF Init, Inv, Places, LockInv, SetInv, RowInv, Handing, Settled, Choosing,
       ApplySelection, Choices, NoPicks

\* Every step of the poll, of the dashboard and of the environment preserves the
\* inductive invariant.
LEMMA StepInv == Inv /\ [Next]_vars => Inv'
<1> SUFFICES ASSUME Inv, [Next]_vars PROVE Inv'
  OBVIOUS
<1> USE DEF Inv, Places, LockInv, SetInv, RowInv, Handing, Settled, Choosing,
            ApplySelection, Enabled, Choices, Unreadable, NoPicks,
            Chosen, pollVars, uiVars, cacheVars, pickVars,
            rowVars, scanVars
<1>1. CASE PollStart
  BY <1>1 DEF PollStart
<1>2. CASE \E found \in SUBSET DockerKeys : DockerAnswers(found)
  BY <1>2 DEF DockerAnswers, AfterDocker
<1>3. CASE DockerFails
  BY <1>3 DEF DockerFails, AfterDocker
<1>4. CASE \E found \in SUBSET HostKeys : HostAnswers(found)
  BY <1>4 DEF HostAnswers
<1>5. CASE HostFails
  BY <1>5 DEF HostFails
<1>6. CASE Publish
  BY <1>6 DEF Publish
<1>7. CASE PollLock
  BY <1>7 DEF PollLock, MayLock
<1>8. CASE PollApply
  BY <1>8 DEF PollApply
<1>9. CASE PollReconcile
  BY <1>9 DEF PollReconcile
<1>10. CASE PollStatus
  BY <1>10 DEF PollStatus
<1>11. CASE Tick \/ TakeRescan
  BY <1>11 DEF Tick, TakeRescan
<1>12. CASE Stop
  BY <1>12 DEF Stop
<1>13. ASSUME NEW k \in Picked, NEW on \in {"on", "off"}, SetEnabled(k, on)
       PROVE  Inv'
  BY <1>13 DEF SetEnabled
<1>14. ASSUME NEW shown \in SUBSET Picked, NEW on \in {"on", "off"},
              SetEnabledAll(shown, on)
       PROVE  Inv'
  BY <1>14 DEF SetEnabledAll
<1>15. CASE Select
  BY <1>15 DEF Select
<1>16. CASE SelectAll
  <2>1. CASE Chosen = selected
    BY <1>16, <2>1 DEF SelectAll, AfterSelectAll
  <2>2. CASE Chosen # selected /\ uKeys # {}
    BY <1>16, <2>2 DEF SelectAll, AfterSelectAll
  <2>3. CASE uKeys = {}
    <3>1. Chosen = selected
      BY <2>3
    <3> QED
      BY <2>1, <3>1
  <2> QED
    BY <2>1, <2>2, <2>3
<1>17. CASE SaveTruncate \/ SaveWrite \/ SaveFails
  BY <1>17 DEF SaveTruncate, SaveWrite, SaveFails
<1>18. CASE ReadLast
  BY <1>18 DEF ReadLast
<1>19. CASE UiLock
  BY <1>19 DEF UiLock, MayLock
<1>20. CASE UiApply
  BY <1>20 DEF UiApply
<1>21. CASE UiReconcile
  BY <1>21 DEF UiReconcile, MuAfterUi
<1>22. CASE Rescan \/ LinkChanges \/ Cancel
  BY <1>22 DEF Rescan, LinkChanges, Cancel
<1>23. CASE Restart
  BY <1>23 DEF Restart
<1>24. CASE UNCHANGED vars
  BY <1>24 DEF vars
<1> QED
  BY <1>1, <1>2, <1>3, <1>4, <1>5, <1>6, <1>7, <1>8, <1>9, <1>10, <1>11,
     <1>12, <1>13, <1>14, <1>15, <1>16, <1>17, <1>18, <1>19, <1>20, <1>21,
     <1>22, <1>23, <1>24
  DEF Next, Poll, Ui

\* The inductive invariant holds in every behaviour.
LEMMA Invariance == Spec => []Inv
BY InitInv, StepInv, PTL DEF Spec

-----------------------------------------------------------------------------
\* However a poll and a keypress interleave, once both are through exactly the
\* rows the picks call for are forwarded.
THEOREM PicksSurvive == Spec => []PicksAreApplied
<1>1. Inv => PicksAreApplied
  BY DEF Inv, RowInv, Handing, Settled, PicksAreApplied, Quiet
<1> QED
  BY Invariance, <1>1, PTL

-----------------------------------------------------------------------------
\* What a poll has in hand is what the sources last answered, whether they did so
\* now or before; and what is to be forwarded is decided anew for every set.
CacheInv ==
  /\ ppc \in {"host", "publish"} => pDocker = lastDocker
  /\ ppc = "publish" => pHost = lastHost
  /\ ppc \notin {"reconcile", "status"} => pOn = {}
  /\ upc # "reconcile" => uOn = {}

\* The values of TypeOK, and apart from them its flags: a leaf that assigns one
\* flag to another is beyond the solver that knows about sets.
ValuesOK ==
  /\ ppc \in {"client", "docker", "host", "publish", "lock", "apply",
              "reconcile", "status", "wait", "done"}
  /\ pDocker \in SUBSET DockerKeys /\ pHost \in SUBSET HostKeys
  /\ pMaps \in SUBSET Keys /\ pOn \in SUBSET pMaps
  /\ upc \in {"idle", "select", "selectAll", "save", "write", "read", "lock",
              "apply", "reconcile"}
  /\ uKeys \in SUBSET Keys /\ uVal \in {"on", "off"}
  /\ uMaps \in SUBSET Keys /\ uOn \in SUBSET uMaps
  /\ lastDocker \in SUBSET DockerKeys /\ lastHost \in SUBSET HostKeys
  /\ lastMaps \in SUBSET Keys
  /\ selected \in [Keys -> Choices]
  /\ file \in [Keys -> Choices]
  /\ reconcileMu \in {"free", "poll", "ui"}
  /\ listed \in SUBSET Keys /\ forwarded \in SUBSET listed

FlagsOK ==
  /\ pAlive \in BOOLEAN /\ pOk \in BOOLEAN
  /\ discoveryErr \in BOOLEAN /\ saved \in BOOLEAN
  /\ rescan \in BOOLEAN /\ asked \in BOOLEAN
  /\ linkUp \in BOOLEAN /\ ctxDone \in BOOLEAN

DataInv == ValuesOK /\ CacheInv /\ RescanIsNotLost /\ PicksAreSaved

\* The initial state satisfies both.
LEMMA InitDataInv == Init => DataInv /\ FlagsOK
<1> SUFFICES ASSUME Init PROVE DataInv /\ FlagsOK
  OBVIOUS
<1>1. DataInv
  BY DEF Init, DataInv, ValuesOK, CacheInv, RescanIsNotLost, PicksAreSaved,
         Choices, NoPicks
<1>2. FlagsOK
  BY DEF Init, FlagsOK
<1> QED
  BY <1>1, <1>2

\* A flag is set to TRUE, to FALSE or to another flag.
LEMMA StepFlags == FlagsOK /\ [Next]_vars => FlagsOK'
<1> SUFFICES ASSUME FlagsOK, [Next]_vars PROVE FlagsOK'
  OBVIOUS
<1> USE DEF FlagsOK, pollVars, uiVars, cacheVars, pickVars, rowVars, scanVars
<1>1. CASE Poll
  <2>1. CASE PollStart
    BY <2>1, Zenon DEF PollStart
  <2>2. CASE DockerFails
    BY <2>2, Zenon DEF DockerFails
  <2>3. CASE PollStatus
    BY <2>3, Zenon DEF PollStatus, ErrorAfter
  <2>4. CASE \/ \E found \in SUBSET DockerKeys : DockerAnswers(found)
             \/ \E found \in SUBSET HostKeys : HostAnswers(found)
    BY <2>4, Zenon DEF DockerAnswers, HostAnswers
  <2>5. CASE HostFails \/ Publish \/ PollApply \/ PollReconcile
    BY <2>5, Zenon DEF HostFails, Publish, PollApply, PollReconcile
  <2> QED
    BY <1>1, <2>1, <2>2, <2>3, <2>4, <2>5 DEF Poll
<1>2. CASE PollLock \/ Tick \/ TakeRescan \/ Stop
  BY <1>2, Zenon DEF PollLock, Tick, TakeRescan, Stop
<1>3. ASSUME NEW k, NEW shown, NEW on, SetEnabled(k, on) \/ SetEnabledAll(shown, on)
      PROVE  FlagsOK'
  BY <1>3, Zenon DEF SetEnabled, SetEnabledAll
<1>4. CASE Ui
  <2>1. CASE Select \/ SelectAll \/ ReadLast \/ UiApply \/ UiReconcile
    BY <2>1, Zenon DEF Select, SelectAll, ReadLast, UiApply, UiReconcile
  <2>2. CASE SaveTruncate \/ SaveWrite \/ SaveFails
    BY <2>2, Zenon DEF SaveTruncate, SaveWrite, SaveFails
  <2> QED
    BY <1>4, <2>1, <2>2 DEF Ui
<1>5. CASE UiLock \/ Rescan
  BY <1>5, Zenon DEF UiLock, Rescan, Queued
<1>6. CASE LinkChanges \/ Cancel
  BY <1>6, Zenon DEF LinkChanges, Cancel
<1>7. CASE Restart
  BY <1>7, Zenon DEF Restart
<1>8. CASE UNCHANGED vars
  BY <1>8, Zenon DEF vars
<1> QED
  BY <1>1, <1>2, <1>3, <1>4, <1>5, <1>6, <1>7, <1>8 DEF Next

\* Every step preserves the rest: the poll fills its locals one by one, and a
\* command changes the picks only on its way to the file.
LEMMA StepDataInv == DataInv /\ [Next]_vars => DataInv'
<1> SUFFICES ASSUME DataInv, [Next]_vars PROVE DataInv'
  OBVIOUS
<1> USE DEF DataInv, ValuesOK, CacheInv, RescanIsNotLost, PicksAreSaved, Choices,
            pollVars, uiVars, cacheVars, pickVars, rowVars, scanVars
<1>1. CASE PollStart
  BY <1>1 DEF PollStart
<1>2. CASE \E found \in SUBSET DockerKeys : DockerAnswers(found)
  BY <1>2 DEF DockerAnswers, AfterDocker
<1>3. CASE DockerFails
  BY <1>3 DEF DockerFails, AfterDocker, CachedDocker
<1>4. CASE \E found \in SUBSET HostKeys : HostAnswers(found)
  BY <1>4 DEF HostAnswers
<1>5. CASE HostFails
  BY <1>5 DEF HostFails
<1>6. CASE Publish
  <2>1. Merged(pDocker, pHost) \in SUBSET Keys
    BY DEF Merged, Unpublished, Keys
  <2>2. pOn \in SUBSET pMaps'
    BY <1>6 DEF Publish
  <2> QED
    BY <1>6, <2>1, <2>2 DEF Publish
<1>7. CASE PollLock
  BY <1>7 DEF PollLock
<1>8. CASE PollApply
  BY <1>8 DEF PollApply, ApplySelection
<1>9. CASE PollReconcile
  BY <1>9 DEF PollReconcile
<1>10. CASE PollStatus
  BY <1>10 DEF PollStatus, ErrorAfter
<1>11. CASE Tick \/ TakeRescan \/ Stop
  BY <1>11 DEF Tick, TakeRescan, Stop
<1>12. ASSUME NEW k \in Picked, NEW on \in {"on", "off"}, SetEnabled(k, on)
       PROVE  DataInv'
  BY <1>12, SourceAssumption DEF SetEnabled, Keys
<1>13. ASSUME NEW shown \in SUBSET Picked, NEW on \in {"on", "off"},
              SetEnabledAll(shown, on)
       PROVE  DataInv'
  BY <1>13, SourceAssumption DEF SetEnabledAll, Keys
<1>14. CASE Select \/ SelectAll
  <2>1. Chosen \in [Keys -> Choices]
    BY DEF Chosen
  <2> QED
    BY <1>14, <2>1 DEF Select, SelectAll, AfterSelectAll
<1>15. CASE SaveTruncate \/ SaveWrite \/ SaveFails
  BY <1>15 DEF SaveTruncate, SaveWrite, SaveFails, Unreadable, NoPicks
<1>16. CASE ReadLast \/ UiLock
  BY <1>16 DEF ReadLast, UiLock
<1>17. CASE UiApply
  BY <1>17 DEF UiApply, ApplySelection
<1>18. CASE UiReconcile
  BY <1>18 DEF UiReconcile, MuAfterUi
<1>19. CASE Rescan \/ LinkChanges \/ Cancel
  BY <1>19 DEF Rescan, Queued, LinkChanges, Cancel
<1>20. CASE Restart
  BY <1>20 DEF Restart
<1>21. CASE UNCHANGED vars
  BY <1>21 DEF vars
<1> QED
  BY <1>1, <1>2, <1>3, <1>4, <1>5, <1>6, <1>7, <1>8, <1>9, <1>10, <1>11,
     <1>12, <1>13, <1>14, <1>15, <1>16, <1>17, <1>18, <1>19, <1>20, <1>21
  DEF Next, Poll, Ui

\* Both hold in every behaviour.
LEMMA DataInvariance == Spec => [](DataInv /\ FlagsOK)
BY InitDataInv, StepDataInv, StepFlags, PTL DEF Spec

-----------------------------------------------------------------------------
\* Every variable of the engine keeps its type: what is forwarded is listed, and
\* what a goroutine forwards is in the set it took, for any keys.
THEOREM TypeCorrect == Spec => []TypeOK
<1>1. DataInv /\ FlagsOK => TypeOK
  BY DEF DataInv, ValuesOK, FlagsOK, TypeOK
<1> QED
  BY <1>1, DataInvariance, PTL

\* A request to rescan is queued, or the next poll has not begun.
THEOREM RescansAreKept == Spec => []RescanIsNotLost
BY DataInvariance, PTL DEF DataInv

\* The file holds the picks whenever the last save went through.
THEOREM PicksAreOnFile == Spec => []PicksAreSaved
BY DataInvariance, PTL DEF DataInv

\* A candidate leaves the set only because a source answered without it or docker
\* publishes it, however many commands fail and whenever the link drops.
THEOREM FailuresDropNothing == Spec => FailureDropsNothing
<1> DEFINE Drops ==
      lastMaps' # {} =>
        \A k \in lastMaps \ lastMaps' :
          \/ k \in DockerKeys \ lastDocker
          \/ k \in HostKeys \ lastHost
          \/ k \in UNION {Publishes[d] : d \in lastDocker}
<1>1. DataInv /\ [Next]_vars => [Drops]_vars
  <2> SUFFICES ASSUME DataInv, Next, lastMaps' # {},
                      NEW k \in lastMaps \ lastMaps'
               PROVE  \/ k \in DockerKeys \ lastDocker
                      \/ k \in HostKeys \ lastHost
                      \/ k \in UNION {Publishes[d] : d \in lastDocker}
    OBVIOUS
  <2>1. Publish
    BY DEF Next, Poll, Ui, PollStart, DockerAnswers, DockerFails, HostAnswers,
           HostFails, PollApply, PollReconcile, PollStatus, PollLock, Tick,
           TakeRescan, Stop, SetEnabled, SetEnabledAll, Select, SelectAll,
           SaveTruncate, SaveWrite, SaveFails, ReadLast, UiApply, UiReconcile,
           UiLock, Rescan, LinkChanges, Cancel, Restart, cacheVars
  <2>2. k \in Keys /\ k \notin Merged(lastDocker, lastHost)
    BY <2>1 DEF Publish, DataInv, ValuesOK, CacheInv
  <2> QED
    BY <2>2 DEF Merged, Unpublished, Keys
<1> QED
  BY <1>1, DataInvariance, PTL DEF Spec, FailureDropsNothing
=============================================================================
