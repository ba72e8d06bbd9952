------------------------------- MODULE Engine -------------------------------
(***************************************************************************)
(* engine.go: the poll loop that merges three sources of ports and hands   *)
(* the result to the tunnel manager, and the dashboard's goroutine, which  *)
(* changes the user's picks and reconciles the last set again.             *)
(*                                                                         *)
(* A candidate is its key.  The manager is modelled by what a Reconcile    *)
(* leaves behind (module TunnelManager shows that it does): the rows       *)
(* listed and, among them, those the user's picks say to forward.  The     *)
(* remote commands are modelled by their outcomes; -host-ports is at its   *)
(* default, where host sockets are listed and not forwarded until picked.  *)
(***************************************************************************)
EXTENDS Naturals

CONSTANTS
  DockerKeys,  \* candidates docker can report
  HostKeys,    \* candidates the host's own sockets can give
  StaticKeys,  \* candidates declared with -forward
  Publishes,   \* docker key -> host keys that are its published port
  Picked       \* the candidates the user gives an opinion on (a bound)

ASSUME SourceAssumption ==
  /\ DockerKeys \cap HostKeys = {}
  /\ (DockerKeys \cup HostKeys) \cap StaticKeys = {}
  /\ Publishes \in [DockerKeys -> SUBSET HostKeys]
  /\ Picked \subseteq DockerKeys \cup HostKeys \cup StaticKeys

Keys == DockerKeys \cup HostKeys \cup StaticKeys

VARIABLES
  ppc,          \* where the poll loop stands
  pAlive,       \* the client poll holds is still the live one
  pDocker,      \* poll's local dockerMaps
  pHost,        \* poll's local hostMaps
  pOk,          \* poll's local ok: docker answered
  pMaps,        \* poll's local maps
  pOn,          \* what applySelection made of them: the keys to forward
  upc,          \* where the dashboard's goroutine stands
  uKeys,        \* the keys its command is about
  uVal,         \* "on" or "off"
  uMaps,        \* reapply's local maps
  uOn,          \* what applySelection made of them
  lastDocker,   \* engine.lastDocker
  lastHost,     \* engine.lastHost
  lastMaps,     \* engine.lastMaps
  discoveryErr, \* engine.discoveryErr # ""
  selected,     \* engine.selected
  file,         \* what loadSelection would read from the selection file
  saved,        \* history: the last saveSelection went through
  reconcileMu,  \* who holds engine.reconcileMu
  listed,       \* rows of the manager
  forwarded,    \* rows of the manager that have, or want, a listener
  rescan,       \* engine.rescan holds a request
  asked,        \* history: Rescan was called after the last poll began
  linkUp,       \* conn.Client is not nil
  ctxDone       \* the engine's context is cancelled

pollVars  == <<pAlive, pDocker, pHost, pOk, pMaps, pOn>>
uiVars    == <<upc, uKeys, uVal, uMaps, uOn>>
cacheVars == <<lastDocker, lastHost, lastMaps, discoveryErr>>
pickVars  == <<selected, file, saved>>
rowVars   == <<listed, forwarded>>
scanVars  == <<rescan, asked>>
vars == <<ppc, pollVars, uiVars, cacheVars, pickVars, reconcileMu, rowVars,
          scanVars, linkUp, ctxDone>>

Choices == {"unset", "on", "off"}
NoPicks == [k \in Keys |-> "unset"]

\* A definition named Faulty... is a seeded fault: the definition that follows
\* it with a plausible slip of the code.  Nothing uses it; the properties below
\* are expected to reject it.

\* Candidate.Offered after applySelection: the choice if there is one, else the
\* default of the source.
Enabled(k) == selected[k] = "on" \/ (selected[k] = "unset" /\ k \notin HostKeys)

ApplySelection(maps) == {k \in maps : Enabled(k)}

\* loadSelection: a file that is missing or cannot be parsed counts as no
\* choices.
Unreadable == NoPicks

\* newEngine.
Init ==
  /\ ppc = "client"
  /\ pAlive = FALSE /\ pDocker = {} /\ pHost = {} /\ pOk = FALSE
  /\ pMaps = {} /\ pOn = {}
  /\ upc = "idle" /\ uKeys = {} /\ uVal = "off" /\ uMaps = {} /\ uOn = {}
  /\ lastDocker = {} /\ lastHost = {} /\ lastMaps = {}
  /\ discoveryErr = FALSE
  /\ file = NoPicks /\ selected = file /\ saved = TRUE
  /\ reconcileMu = "free"
  /\ listed = {} /\ forwarded = {}
  /\ rescan = FALSE /\ asked = FALSE
  /\ linkUp = TRUE
  /\ ctxDone = FALSE

-----------------------------------------------------------------------------
(* poll.                                                                   *)

PollStart ==
  /\ ppc = "client"
  /\ asked' = FALSE
  /\ pAlive' = linkUp
  /\ ppc' = IF linkUp THEN "docker" ELSE "wait"
  /\ discoveryErr' = IF linkUp THEN discoveryErr ELSE FALSE
  /\ UNCHANGED <<pDocker, pHost, pOk, pMaps, pOn, uiVars, lastDocker, lastHost,
                 lastMaps, pickVars, reconcileMu, rowVars, rescan, linkUp,
                 ctxDone>>

\* After pollDocker, poll returns if the context has ended meanwhile.
AfterDocker == IF ctxDone THEN "wait" ELSE "host"

DockerAnswers(found) ==
  /\ ppc = "docker"
  /\ pAlive
  /\ lastDocker' = found
  /\ pDocker' = found
  /\ pOk' = TRUE
  /\ ppc' = AfterDocker
  /\ UNCHANGED <<pAlive, pHost, pMaps, pOn, uiVars, lastHost, lastMaps,
                 discoveryErr, pickVars, reconcileMu, rowVars, scanVars,
                 linkUp, ctxDone>>

\* The command fails, times out or the connection is gone: the last good
\* answer stands in, and the banner says so.
FaultyCachedDocker == {}
CachedDocker == lastDocker

DockerFails ==
  /\ ppc = "docker"
  /\ pDocker' = IF ctxDone THEN {} ELSE CachedDocker
  /\ pOk' = FALSE
  /\ discoveryErr' = IF ctxDone THEN discoveryErr ELSE TRUE
  /\ ppc' = AfterDocker
  /\ UNCHANGED <<pAlive, pHost, pMaps, pOn, uiVars, lastDocker, lastHost,
                 lastMaps, pickVars, reconcileMu, rowVars, scanVars, linkUp,
                 ctxDone>>

HostAnswers(found) ==
  /\ ppc = "host"
  /\ pAlive
  /\ lastHost' = found
  /\ pHost' = found
  /\ ppc' = "publish"
  /\ UNCHANGED <<pAlive, pDocker, pOk, pMaps, pOn, uiVars, lastDocker,
                 lastMaps, discoveryErr, pickVars, reconcileMu, rowVars,
                 scanVars, linkUp, ctxDone>>

HostFails ==
  /\ ppc = "host"
  /\ pHost' = lastHost
  /\ ppc' = "publish"
  /\ UNCHANGED <<pAlive, pDocker, pOk, pMaps, pOn, uiVars, cacheVars, pickVars,
                 reconcileMu, rowVars, scanVars, linkUp, ctxDone>>

\* dropDockerPublished
Unpublished(docker, host) == host \ UNION {Publishes[d] : d \in docker}

Merged(docker, host) == docker \cup Unpublished(docker, host) \cup StaticKeys

\* The first half of reconcile: the set is remembered under mu.  Locals that are
\* not read again are reset.
Publish ==
  /\ ppc = "publish"
  /\ pMaps' = Merged(pDocker, pHost)
  /\ lastMaps' = Merged(pDocker, pHost)
  /\ pAlive' = FALSE /\ pDocker' = {} /\ pHost' = {}
  /\ ppc' = "lock"
  /\ UNCHANGED <<pOk, pOn, uiVars, lastDocker, lastHost, discoveryErr, pickVars,
                 reconcileMu, rowVars, scanVars, linkUp, ctxDone>>

FaultyMayLock == TRUE
MayLock == reconcileMu = "free"

PollLock ==
  /\ ppc = "lock"
  /\ MayLock
  /\ reconcileMu' = "poll"
  /\ ppc' = "apply"
  /\ UNCHANGED <<pollVars, uiVars, cacheVars, pickVars, rowVars, scanVars,
                 linkUp, ctxDone>>

PollApply ==
  /\ ppc = "apply"
  /\ pOn' = ApplySelection(pMaps)
  /\ ppc' = "reconcile"
  /\ UNCHANGED <<pAlive, pDocker, pHost, pOk, pMaps, uiVars, cacheVars,
                 pickVars, reconcileMu, rowVars, scanVars, linkUp, ctxDone>>

\* manager.Reconcile and the unlock.
PollReconcile ==
  /\ ppc = "reconcile"
  /\ listed' = pMaps
  /\ forwarded' = pOn
  /\ reconcileMu' = "free"
  /\ ppc' = "status"
  /\ UNCHANGED <<pollVars, uiVars, cacheVars, pickVars, scanVars, linkUp,
                 ctxDone>>

ErrorAfter == IF pOk THEN FALSE ELSE discoveryErr

PollStatus ==
  /\ ppc = "status"
  /\ discoveryErr' = ErrorAfter
  /\ pOk' = FALSE /\ pMaps' = {} /\ pOn' = {}
  /\ ppc' = "wait"
  /\ UNCHANGED <<pAlive, pDocker, pHost, uiVars, lastDocker, lastHost, lastMaps,
                 pickVars, reconcileMu, rowVars, scanVars, linkUp, ctxDone>>

-----------------------------------------------------------------------------
(* run: the select between polls, and the deferred Close.                  *)

Tick ==
  /\ ppc = "wait"
  /\ ppc' = "client"
  /\ UNCHANGED <<pollVars, uiVars, cacheVars, pickVars, reconcileMu, rowVars,
                 scanVars, linkUp, ctxDone>>

TakeRescan ==
  /\ ppc = "wait"
  /\ rescan
  /\ rescan' = FALSE
  /\ ppc' = "client"
  /\ UNCHANGED <<pollVars, uiVars, cacheVars, pickVars, reconcileMu, rowVars,
                 asked, linkUp, ctxDone>>

Stop ==
  /\ ppc = "wait"
  /\ ctxDone
  /\ ppc' = "done"
  /\ listed' = listed \ forwarded
  /\ forwarded' = {}
  /\ UNCHANGED <<pollVars, uiVars, cacheVars, pickVars, reconcileMu, scanVars,
                 linkUp, ctxDone>>

-----------------------------------------------------------------------------
(* The dashboard's goroutine: one key at a time.                           *)

\* A key the engine does not know is turned down.
SetEnabled(k, on) ==
  /\ upc = "idle"
  /\ k \in lastMaps
  /\ uKeys' = {k} /\ uVal' = on
  /\ upc' = "select"
  /\ UNCHANGED <<ppc, pollVars, uMaps, uOn, cacheVars, pickVars, reconcileMu,
                 rowVars, scanVars, linkUp, ctxDone>>

Chosen == [k \in Keys |-> IF k \in uKeys THEN uVal ELSE selected[k]]

Select ==
  /\ upc = "select"
  /\ selected' = Chosen
  /\ uKeys' = {} /\ uVal' = "off"
  /\ upc' = "save"
  /\ UNCHANGED <<ppc, pollVars, uMaps, uOn, cacheVars, file, saved,
                 reconcileMu, rowVars, scanVars, linkUp, ctxDone>>

\* The bulk keys act on the rows on screen, known or not.
SetEnabledAll(shown, on) ==
  /\ upc = "idle"
  /\ uKeys' = shown \cap lastMaps /\ uVal' = on
  /\ upc' = "selectAll"
  /\ UNCHANGED <<ppc, pollVars, uMaps, uOn, cacheVars, pickVars, reconcileMu,
                 rowVars, scanVars, linkUp, ctxDone>>

FaultyAfterSelectAll == IF Chosen = selected THEN "idle" ELSE "read"
AfterSelectAll == IF Chosen = selected THEN "idle" ELSE "save"

SelectAll ==
  /\ upc = "selectAll"
  /\ selected' = Chosen
  /\ uKeys' = {} /\ uVal' = "off"
  /\ upc' = AfterSelectAll
  /\ UNCHANGED <<ppc, pollVars, uMaps, uOn, cacheVars, file, saved,
                 reconcileMu, rowVars, scanVars, linkUp, ctxDone>>

\* os.WriteFile truncates, then writes; either can fail, and is only logged.
SaveTruncate ==
  /\ upc = "save"
  /\ file' = Unreadable
  /\ upc' = "write"
  /\ UNCHANGED <<ppc, pollVars, uKeys, uVal, uMaps, uOn, cacheVars, selected,
                 saved, reconcileMu, rowVars, scanVars, linkUp, ctxDone>>

SaveWrite ==
  /\ upc = "write"
  /\ file' = selected
  /\ saved' = TRUE
  /\ upc' = "read"
  /\ UNCHANGED <<ppc, pollVars, uKeys, uVal, uMaps, uOn, cacheVars, selected,
                 reconcileMu, rowVars, scanVars, linkUp, ctxDone>>

SaveFails ==
  /\ upc \in {"save", "write"}
  /\ saved' = FALSE
  /\ upc' = "read"
  /\ UNCHANGED <<ppc, pollVars, uKeys, uVal, uMaps, uOn, cacheVars, selected,
                 file, reconcileMu, rowVars, scanVars, linkUp, ctxDone>>

\* reapply: the set is read under mu, before reconcileMu is taken.
ReadLast ==
  /\ upc = "read"
  /\ uMaps' = lastMaps
  /\ upc' = IF lastMaps = {} THEN "idle" ELSE "lock"
  /\ UNCHANGED <<ppc, pollVars, uKeys, uVal, uOn, cacheVars, pickVars,
                 reconcileMu, rowVars, scanVars, linkUp, ctxDone>>

UiLock ==
  /\ upc = "lock"
  /\ MayLock
  /\ reconcileMu' = "ui"
  /\ upc' = "apply"
  /\ UNCHANGED <<ppc, pollVars, uKeys, uVal, uMaps, uOn, cacheVars, pickVars,
                 rowVars, scanVars, linkUp, ctxDone>>

UiApply ==
  /\ upc = "apply"
  /\ uOn' = ApplySelection(uMaps)
  /\ upc' = "reconcile"
  /\ UNCHANGED <<ppc, pollVars, uKeys, uVal, uMaps, cacheVars, pickVars,
                 reconcileMu, rowVars, scanVars, linkUp, ctxDone>>

FaultyMuAfterUi == "ui"
MuAfterUi == "free"

UiReconcile ==
  /\ upc = "reconcile"
  /\ listed' = uMaps
  /\ forwarded' = uOn
  /\ reconcileMu' = MuAfterUi
  /\ upc' = "idle"
  /\ uMaps' = {} /\ uOn' = {}
  /\ UNCHANGED <<ppc, pollVars, uKeys, uVal, cacheVars, pickVars, scanVars, linkUp, ctxDone>>

\* A request already queued is as good as a second one.
FaultyQueued == rescan
Queued == TRUE

Rescan ==
  /\ upc = "idle"
  /\ rescan' = Queued
  /\ asked' = TRUE
  /\ UNCHANGED <<ppc, pollVars, uiVars, cacheVars, pickVars, reconcileMu,
                 rowVars, linkUp, ctxDone>>

-----------------------------------------------------------------------------
(* The environment.                                                        *)

LinkChanges ==
  /\ linkUp' = ~linkUp
  /\ pAlive' = FALSE
  /\ UNCHANGED <<ppc, pDocker, pHost, pOk, pMaps, pOn, uiVars, cacheVars,
                 pickVars, reconcileMu, rowVars, scanVars, ctxDone>>

Cancel ==
  /\ ~ctxDone
  /\ ctxDone' = TRUE
  /\ UNCHANGED <<ppc, pollVars, uiVars, cacheVars, pickVars, reconcileMu,
                 rowVars, scanVars, linkUp>>

\* The process ends, in good order or not, and is started again later: only
\* the file is left.
Restart ==
  /\ ppc' = "client"
  /\ pAlive' = FALSE /\ pDocker' = {} /\ pHost' = {} /\ pOk' = FALSE
  /\ pMaps' = {} /\ pOn' = {}
  /\ upc' = "idle" /\ uKeys' = {} /\ uVal' = "off" /\ uMaps' = {} /\ uOn' = {}
  /\ lastDocker' = {} /\ lastHost' = {} /\ lastMaps' = {}
  /\ discoveryErr' = FALSE
  /\ selected' = file /\ saved' = TRUE
  /\ reconcileMu' = "free"
  /\ listed' = {} /\ forwarded' = {}
  /\ rescan' = FALSE /\ asked' = FALSE
  /\ linkUp' = TRUE
  /\ ctxDone' = FALSE
  /\ UNCHANGED file

-----------------------------------------------------------------------------
Poll ==
  \/ PollStart
  \/ \E found \in SUBSET DockerKeys : DockerAnswers(found)
  \/ DockerFails
  \/ \E found \in SUBSET HostKeys : HostAnswers(found)
  \/ HostFails
  \/ Publish \/ PollApply \/ PollReconcile \/ PollStatus

Ui == Select \/ SelectAll \/ SaveTruncate \/ SaveWrite \/ SaveFails
        \/ ReadLast \/ UiApply \/ UiReconcile

Next ==
  \/ Poll \/ PollLock \/ Tick \/ TakeRescan \/ Stop
  \/ \E k \in Picked, on \in {"on", "off"} : SetEnabled(k, on)
  \/ \E shown \in SUBSET Picked, on \in {"on", "off"} : SetEnabledAll(shown, on)
  \/ Ui \/ UiLock \/ Rescan
  \/ LinkChanges \/ Cancel \/ Restart

Spec == Init /\ [][Next]_vars

\* Both goroutines run; a remote command ends (it is given the context and
\* fails when the connection does).  Go's select takes a ready case at random
\* and its mutex does not starve a waiter, hence strong fairness.  The ticker
\* ticks.  Nobody need press a key, lose a link, cancel or restart.
Fairness ==
  /\ WF_vars(Poll) /\ WF_vars(Tick) /\ SF_vars(Stop) /\ SF_vars(PollLock)
  /\ WF_vars(Ui) /\ SF_vars(UiLock)

FairSpec == Spec /\ Fairness

-----------------------------------------------------------------------------
(* Properties.                                                             *)

TypeOK ==
  /\ ppc \in {"client", "docker", "host", "publish", "lock", "apply",
              "reconcile", "status", "wait", "done"}
  /\ pAlive \in BOOLEAN /\ pOk \in BOOLEAN
  /\ pDocker \in SUBSET DockerKeys /\ pHost \in SUBSET HostKeys
  /\ pMaps \in SUBSET Keys /\ pOn \in SUBSET pMaps
  /\ upc \in {"idle", "select", "selectAll", "save", "write", "read", "lock",
              "apply", "reconcile"}
  /\ uKeys \in SUBSET Keys /\ uVal \in {"on", "off"}
  /\ uMaps \in SUBSET Keys /\ uOn \in SUBSET uMaps
  /\ lastDocker \in SUBSET DockerKeys /\ lastHost \in SUBSET HostKeys
  /\ lastMaps \in SUBSET Keys
  /\ discoveryErr \in BOOLEAN
  /\ selected \in [Keys -> Choices]
  /\ file \in [Keys -> Choices] /\ saved \in BOOLEAN
  /\ reconcileMu \in {"free", "poll", "ui"}
  /\ listed \in SUBSET Keys /\ forwarded \in SUBSET listed
  /\ rescan \in BOOLEAN /\ asked \in BOOLEAN
  /\ linkUp \in BOOLEAN /\ ctxDone \in BOOLEAN

\* No reconcile is under way or about to be.
Quiet == ppc \in {"client", "docker", "host", "publish", "status", "wait"}
           /\ upc = "idle"

\* The user's picks are never undone by a poll that raced with a keypress: once
\* both are through, exactly the rows the picks call for are forwarded
\* ("letting them interleave would let one undo the other's decision").
PicksAreApplied == Quiet => forwarded = ApplySelection(listed)

\* A remote command that fails drops nothing: a docker row leaves the set only
\* when docker answered without it, a host row only when the host did or
\* docker publishes it, a declared one never.
FailureDropsNothing ==
  [][lastMaps' # {} =>
       \A k \in lastMaps \ lastMaps' :
         \/ k \in DockerKeys \ lastDocker
         \/ k \in HostKeys \ lastHost
         \/ k \in UNION {Publishes[d] : d \in lastDocker}]_vars

\* Every request to rescan is followed by a poll that begins after it, however
\* many requests were folded into one.
RescanIsNotLost == asked => rescan \/ ppc = "client"

\* Once a command has saved, the file holds the picks, so a restart brings
\* them back, and a bulk key that changes nothing need not save; only a process
\* that dies inside os.WriteFile loses them.
PicksAreSaved ==
  saved /\ upc \notin {"save", "write"} => selected = file

\* reapply reads the last set before it waits for its turn, so a poll that is
\* quicker is undone by an older set.  That heals: for as long as the link is up
\* the rows come back to the set discovered last, again and again, and a
\* keypress only delays it.  Once the context has ended, the engine stops.  The
\* two goroutines never wait for each other for good.
StaleRowsHeal ==
  []<>(IF ctxDone THEN ppc = "done" ELSE listed = lastMaps \/ ~linkUp)
=============================================================================
