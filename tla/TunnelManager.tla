--------------------------- MODULE TunnelManager ---------------------------
(***************************************************************************)
(* internal/tunnel: Manager keeps the set of local listeners equal to what *)
(* the engine asks for, Allocator chooses the local port of each tunnel.   *)
(*                                                                         *)
(* Reconcile runs under the engine's reconcileMu, so there is one of it at *)
(* a time; within it the section under Manager.mu (phases "applying" and   *)
(* "binding") is taken apart key by key and bind by bind, because other    *)
(* processes take and release ports meanwhile, and stopping (phase         *)
(* "stopping") happens after the unlock.  Close runs in another goroutine  *)
(* than a Reconcile a keypress started.  A forwarder is a record of what   *)
(* never changes in it, told apart from another one with the same key,     *)
(* target and port by its id; its listener is open while it is in          *)
(* listening.  What a forwarder does with connections is in Forwarder.     *)
(***************************************************************************)
EXTENDS Naturals

CONSTANTS
  Keys,          \* tunnel keys
  UdpKeys,       \* those of a protocol SSH cannot carry (part of the key)
  Targets,       \* remote addresses
  Preferred,     \* PreferredLocal of a candidate with that target
  Ids,           \* tell apart forwarders alike in everything else
  FallbackBase,  \* Allocator.fallbackBase
  FallbackSize,  \* Allocator.fallbackSize
  MaxPort,       \* 65535
  ForeignPorts,  \* ports other processes may bind
  NoForwarder,   \* no forwarder
  NoKey,         \* no key
  NoTarget       \* not discovered

ASSUME KeyAssumption ==
  /\ UdpKeys \subseteq Keys
  /\ NoKey \notin Keys
  /\ NoTarget \notin Targets
  /\ NoForwarder \notin [key : Keys, target : Targets, port : 1..MaxPort, id : Ids]

ASSUME PortAssumption ==
  /\ Preferred \in [Targets -> Nat]
  /\ FallbackBase \in Nat
  /\ FallbackSize \in Nat
  /\ MaxPort \in Nat
  /\ ForeignPorts \in SUBSET Nat

VARIABLES
  forwarders,   \* Manager.forwarders: key -> live forwarder
  problems,     \* Manager.problems: the kind of row of each key
  offered,      \* Manager.offered
  assigned,     \* Allocator.assigned, 0 when the key has none
  listening,    \* forwarders whose listener is open
  foreign,      \* ports bound by other processes
  rpc,          \* phase of Reconcile
  desired,      \* Reconcile's argument: key -> target
  offeredKeys,  \* the wanted keys whose candidate is Offered
  pending,      \* keys the loop over desired has not reached
  toStop,       \* Reconcile's local toStop
  cur,          \* the key Allocator.Listen works for
  idx,          \* how many ports Listen has considered, plus one
  tried,        \* Listen's local tried
  cpc,          \* where Close stands
  closing,      \* Close's local copy of the forwarders
  ctxDone       \* the engine's context is cancelled

rowVars  == <<forwarders, problems, offered>>
loopVars == <<rpc, desired, offeredKeys, pending, toStop>>
bindVars == <<cur, idx, tried>>
endVars  == <<cpc, closing, ctxDone>>
vars == <<rowVars, assigned, listening, foreign, loopVars, bindVars, endVars>>

Forwarders == [key : Keys, target : Targets, port : 1..MaxPort, id : Ids]

Live == {forwarders[k] : k \in Keys} \ {NoForwarder}

Unlocked == rpc \notin {"applying", "binding"}

\* A definition named Faulty... is a seeded fault: the definition that follows
\* it with a plausible slip of the code.  Nothing uses it; the properties below
\* are expected to reject it.

\* net.Listen fails on a port somebody listens on: another process, or a
\* forwarder of ours that has not been stopped yet.
Busy(p) == p \in foreign \/ \E f \in listening : f.port = p

Init ==
  /\ forwarders = [k \in Keys |-> NoForwarder]
  /\ problems = [k \in Keys |-> "none"]
  /\ offered = {}
  /\ assigned = [k \in Keys |-> 0]
  /\ listening = {}
  /\ foreign = {}
  /\ rpc = "idle"
  /\ desired = [k \in Keys |-> NoTarget]
  /\ offeredKeys = {} /\ pending = {} /\ toStop = {}
  /\ cur = NoKey /\ idx = 1 /\ tried = {}
  /\ cpc = "running" /\ closing = {} /\ ctxDone = FALSE

-----------------------------------------------------------------------------
(* Reconcile.                                                              *)

\* The live keys the first loop drops: no longer wanted, or moved.
FaultyDropped(want) == {k \in Keys : forwarders[k] # NoForwarder}
Dropped(want) ==
  {k \in Keys : forwarders[k] # NoForwarder /\ want[k] # forwarders[k].target}

\* What becomes of the rows of keys that are no longer wanted.
FaultyPrunedProblems(want) == problems
PrunedProblems(want) ==
  [k \in Keys |-> IF want[k] = NoTarget THEN "none" ELSE problems[k]]

FaultyCollected(gone) == {}
Collected(gone) == {forwarders[k] : k \in gone}

\* The lock is taken; tunnels that are gone or moved and stale rows are dropped.
Begin(want, off) ==
  /\ rpc = "idle"
  /\ desired' = want
  /\ offeredKeys' = off
  /\ forwarders' = [k \in Keys |-> IF k \in Dropped(want) THEN NoForwarder
                                                          ELSE forwarders[k]]
  /\ toStop' = Collected(Dropped(want))
  /\ problems' = PrunedProblems(want)
  /\ offered' = {k \in offered : want[k] # NoTarget}
  /\ pending' = {k \in Keys : want[k] # NoTarget}
  /\ rpc' = "applying"
  /\ UNCHANGED <<assigned, listening, foreign, bindVars, endVars>>

BeginAny ==
  \E want \in [Keys -> Targets \cup {NoTarget}] :
    \E off \in SUBSET {k \in Keys \ UdpKeys : want[k] # NoTarget} :
      Begin(want, off)

\* The body of the loop over desired, for a port SSH cannot carry.
ApplyUnsupported(k) ==
  /\ rpc = "applying"
  /\ k \in pending \cap UdpKeys
  /\ offered' = offered \ {k}
  /\ problems' = [problems EXCEPT ![k] = "unsupported"]
  /\ pending' = pending \ {k}
  /\ UNCHANGED <<forwarders, assigned, listening, foreign, rpc, desired,
                 offeredKeys, toStop, bindVars, endVars>>

\* For a port that is listed and not forwarded: a live forwarder is stopped.
StoppedByOffer(k) == {forwarders[k]} \ {NoForwarder}

FaultyProblemsOfOffered(k) == problems
ProblemsOfOffered(k) == [problems EXCEPT ![k] = "none"]

ApplyOffered(k) ==
  /\ rpc = "applying"
  /\ k \in (pending \cap offeredKeys) \ UdpKeys
  /\ toStop' = toStop \cup StoppedByOffer(k)
  /\ forwarders' = [forwarders EXCEPT ![k] = NoForwarder]
  /\ problems' = ProblemsOfOffered(k)
  /\ offered' = offered \cup {k}
  /\ pending' = pending \ {k}
  /\ UNCHANGED <<assigned, listening, foreign, rpc, desired, offeredKeys,
                 bindVars, endVars>>

\* For a port that is forwarded already.
FaultyHasForwarder(k) == forwarders[k] # NoForwarder \/ problems[k] = "error"
HasForwarder(k) == forwarders[k] # NoForwarder

ApplyLive(k) ==
  /\ rpc = "applying"
  /\ k \in pending \ (offeredKeys \cup UdpKeys)
  /\ HasForwarder(k)
  /\ offered' = offered \ {k}
  /\ pending' = pending \ {k}
  /\ UNCHANGED <<forwarders, problems, assigned, listening, foreign, rpc,
                 desired, offeredKeys, toStop, bindVars, endVars>>

\* For a port to be forwarded: start calls Allocator.Listen.
ApplyStart(k) ==
  /\ rpc = "applying"
  /\ k \in pending \ (offeredKeys \cup UdpKeys)
  /\ ~HasForwarder(k)
  /\ offered' = offered \ {k}
  /\ cur' = k /\ idx' = 1 /\ tried' = {}
  /\ rpc' = "binding"
  /\ UNCHANGED <<forwarders, problems, assigned, listening, foreign, desired,
                 offeredKeys, pending, toStop, endVars>>

-----------------------------------------------------------------------------
(* Allocator.Listen: the remembered port, the preferred one, then the      *)
(* fallback range in order.  Each attempt is a step of its own.            *)

FaultyAttemptPort ==
  CASE idx = 1 -> Preferred[desired[cur]]
    [] idx = 2 -> assigned[cur]
    [] idx > 2 -> FallbackBase + idx - 3
AttemptPort ==
  CASE idx = 1 -> assigned[cur]
    [] idx = 2 -> Preferred[desired[cur]]
    [] idx > 2 -> FallbackBase + idx - 3

Exhausted == idx > FallbackSize + 2

FaultyInvalid(p) == p = 0 \/ p \in tried
Invalid(p) == p = 0 \/ p > MaxPort \/ p \in tried

NextIdx == idx + 1

\* The attempt fails, or the port is skipped without a system call.
AttemptFails ==
  /\ rpc = "binding"
  /\ ~Exhausted
  /\ Invalid(AttemptPort) \/ Busy(AttemptPort)
  /\ idx' = NextIdx
  /\ tried' = IF Invalid(AttemptPort) THEN tried ELSE tried \cup {AttemptPort}
  /\ UNCHANGED <<rowVars, assigned, listening, foreign, loopVars, cur, endVars>>

Unused(f) == f \notin Live \cup toStop \cup closing \cup listening

Started(i) == [key |-> cur, target |-> desired[cur], port |-> AttemptPort, id |-> i]

NewId == CHOOSE i \in Ids : Unused(Started(i))

Remember(p) == [assigned EXCEPT ![cur] = p]

\* The bind succeeds: the port is remembered, the forwarder started and listed.
AttemptBinds ==
  /\ rpc = "binding"
  /\ ~Exhausted
  /\ ~Invalid(AttemptPort) /\ ~Busy(AttemptPort)
  /\ \E i \in Ids : Unused(Started(i))
  /\ assigned' = Remember(AttemptPort)
  /\ listening' = listening \cup {Started(NewId)}
  /\ forwarders' = [forwarders EXCEPT ![cur] = Started(NewId)]
  /\ problems' = [problems EXCEPT ![cur] = "none"]
  /\ pending' = pending \ {cur}
  /\ cur' = NoKey /\ idx' = 1 /\ tried' = {}
  /\ rpc' = "applying"
  /\ UNCHANGED <<offered, foreign, desired, offeredKeys, toStop, endVars>>

\* No port is left: the key gets an error row.
ListenFails ==
  /\ rpc = "binding"
  /\ Exhausted
  /\ problems' = [problems EXCEPT ![cur] = "error"]
  /\ pending' = pending \ {cur}
  /\ cur' = NoKey /\ idx' = 1 /\ tried' = {}
  /\ rpc' = "applying"
  /\ UNCHANGED <<forwarders, offered, assigned, listening, foreign, desired,
                 offeredKeys, toStop, endVars>>

-----------------------------------------------------------------------------
(* After the unlock, and Close.                                            *)

Unlock ==
  /\ rpc = "applying"
  /\ pending = {}
  /\ rpc' = "stopping"
  /\ UNCHANGED <<rowVars, assigned, listening, foreign, desired, offeredKeys,
                 pending, toStop, bindVars, endVars>>

\* forwarder.stop closes the listener and returns once the accept loop has
\* ended.
AfterStop(f) == listening \ {f}

StopOne(f) ==
  /\ rpc = "stopping"
  /\ f \in toStop
  /\ listening' = AfterStop(f)
  /\ toStop' = toStop \ {f}
  /\ UNCHANGED <<rowVars, assigned, foreign, rpc, desired, offeredKeys,
                 pending, bindVars, endVars>>

Return ==
  /\ rpc = "stopping"
  /\ toStop = {}
  /\ rpc' = "idle"
  /\ UNCHANGED <<rowVars, assigned, listening, foreign, desired, offeredKeys,
                 pending, toStop, bindVars, endVars>>

\* Close is deferred by the engine's run, which returns once its context ends.
CloseList == Live

CloseBegin ==
  /\ cpc = "running"
  /\ ctxDone
  /\ Unlocked
  /\ closing' = CloseList
  /\ forwarders' = [k \in Keys |-> NoForwarder]
  /\ cpc' = "stopping"
  /\ UNCHANGED <<problems, offered, assigned, listening, foreign, loopVars,
                 bindVars, ctxDone>>

CloseStop(f) ==
  /\ cpc = "stopping"
  /\ f \in closing
  /\ listening' = AfterStop(f)
  /\ closing' = closing \ {f}
  /\ UNCHANGED <<rowVars, assigned, foreign, loopVars, bindVars, cpc, ctxDone>>

CloseReturn ==
  /\ cpc = "stopping"
  /\ closing = {}
  /\ cpc' = "done"
  /\ UNCHANGED <<rowVars, assigned, listening, foreign, loopVars, bindVars,
                 closing, ctxDone>>

-----------------------------------------------------------------------------
(* The environment.                                                        *)

Cancel ==
  /\ ~ctxDone
  /\ ctxDone' = TRUE
  /\ UNCHANGED <<rowVars, assigned, listening, foreign, loopVars, bindVars, cpc,
                 closing>>

\* The goroutine acceptLoop starts closes the listener when the context ends,
\* which is also what ends a forwarder started after Close.
FaultyListenerCloses(f) == FALSE /\ UNCHANGED vars
ListenerCloses(f) ==
  /\ ctxDone
  /\ f \in listening
  /\ listening' = listening \ {f}
  /\ UNCHANGED <<rowVars, assigned, foreign, loopVars, bindVars, endVars>>

ForeignBind(p) ==
  /\ ~Busy(p)
  /\ foreign' = foreign \cup {p}
  /\ UNCHANGED <<rowVars, assigned, listening, loopVars, bindVars, endVars>>

ForeignRelease(p) ==
  /\ p \in foreign
  /\ foreign' = foreign \ {p}
  /\ UNCHANGED <<rowVars, assigned, listening, loopVars, bindVars, endVars>>

-----------------------------------------------------------------------------
ReconcileStep ==
  \/ \E k \in Keys : ApplyUnsupported(k) \/ ApplyOffered(k) \/ ApplyLive(k)
                       \/ ApplyStart(k)
  \/ AttemptFails \/ AttemptBinds \/ ListenFails
  \/ Unlock \/ Return
  \/ \E f \in toStop : StopOne(f)

CloseStep ==
  \/ CloseBegin \/ CloseReturn
  \/ \E f \in closing : CloseStop(f)

Next ==
  \/ BeginAny
  \/ ReconcileStep
  \/ CloseStep
  \/ Cancel
  \/ \E f \in listening : ListenerCloses(f)
  \/ \E p \in ForeignPorts : ForeignBind(p) \/ ForeignRelease(p)

Spec == Init /\ [][Next]_vars

\* A Reconcile and a Close that run are goroutines that are scheduled, and so
\* is the one that closes a cancelled listener.  Close waits for Manager.mu:
\* Go's mutex hands the lock to a waiter that starves, hence strong fairness.
\* Nothing forces a Reconcile to begin, a cancellation or other processes.
Fairness ==
  /\ WF_vars(ReconcileStep)
  /\ SF_vars(CloseStep)
  /\ \A f \in Forwarders : WF_vars(ListenerCloses(f))

FairSpec == Spec /\ Fairness

-----------------------------------------------------------------------------
(* Properties.                                                             *)

RowKinds == {"none", "unsupported", "error"}

ValuesOK ==
  /\ forwarders \in [Keys -> Forwarders \cup {NoForwarder}]
  /\ problems \in [Keys -> RowKinds]
  /\ offered \in SUBSET Keys
  /\ assigned \in [Keys -> 0..MaxPort]
  /\ listening \in SUBSET Forwarders
  /\ foreign \in SUBSET ForeignPorts
  /\ rpc \in {"idle", "applying", "binding", "stopping"}
  /\ desired \in [Keys -> Targets \cup {NoTarget}]
  /\ offeredKeys \in SUBSET Keys
  /\ pending \in SUBSET Keys
  /\ toStop \in SUBSET Forwarders
  /\ cur \in Keys \cup {NoKey}
  /\ idx \in 1..(FallbackSize + 3)
  /\ tried \in SUBSET (1..MaxPort)
  /\ cpc \in {"running", "stopping", "done"}
  /\ closing \in SUBSET Forwarders

\* The types: no port outside 1..65535 is ever bound or remembered.
TypeOK == ValuesOK /\ ctxDone \in BOOLEAN

\* The dashboard shows a tunnel key once: Tunnels appends the rows of the three
\* maps, so a key is in one of them at most, even in the middle of Reconcile.
OneRowPerKey ==
  \A k \in Keys :
    /\ forwarders[k] # NoForwarder => problems[k] = "none" /\ k \notin offered
    /\ problems[k] # "none" => k \notin offered

\* Every open listener belongs to somebody who will close it: it is in the
\* manager's map, in the toStop of the running Reconcile or in Close's copy.
\* Otherwise the local port would stay bound for the life of the process.
NoOrphanListener == listening \subseteq Live \cup toStop \cup closing

\* Until the context ends, every tunnel in the map is really bound, to the port
\* the allocator remembers for its key: no stop ever hits a live forwarder,
\* though the same key may be stopped and started in one Reconcile.
LiveTunnelIsBound ==
  \A k \in Keys :
    forwarders[k] # NoForwarder /\ ~ctxDone =>
      /\ forwarders[k] \in listening
      /\ forwarders[k].key = k
      /\ forwarders[k].port = assigned[k]

\* "Manager keeps the set of live local listeners equal to what discovery
\* reports" (manager.go): when Reconcile has returned, and until Close, every
\* key has exactly the row its candidate calls for and nothing else listens.
WantsForward(k) ==
  desired[k] # NoTarget /\ k \notin UdpKeys \cup offeredKeys

RowMatches(k) ==
  /\ k \in offered <=> k \in offeredKeys
  /\ problems[k] = "unsupported" <=> desired[k] # NoTarget /\ k \in UdpKeys
  /\ problems[k] = "error" <=> WantsForward(k) /\ forwarders[k] = NoForwarder
  /\ forwarders[k] # NoForwarder =>
       WantsForward(k) /\ forwarders[k].target = desired[k]

Converged ==
  rpc = "idle" /\ cpc = "running" =>
    /\ \A k \in Keys : RowMatches(k)
    /\ listening \subseteq Live

\* "It never tears down a working tunnel that is still wanted: only genuinely
\* new, gone, or re-targeted ports cause a change" (manager.go); switching a
\* row off and shutting down are the two other reasons the code has.
StillWanted(f) ==
  /\ desired[f.key] = f.target
  /\ f.key \notin offeredKeys

NeverTearsDownWanted ==
  [][\A f \in listening \ listening' : ctxDone \/ ~StillWanted(f)]_vars

\* A key gives up the port it had only after Listen has tried that port and
\* found it taken: a fallback or preferred port never wins over a free
\* remembered one.
StickyTriedFirst ==
  [][\A k \in Keys :
       assigned[k] # 0 /\ assigned'[k] # assigned[k] => assigned[k] \in tried]_vars

\* "No free local port for ..." (portalloc.go): a key that a Reconcile leaves with
\* an error row has no port it could have had.  Whatever became of it in earlier
\* Reconciles, this one has found each of its ports taken: the one remembered, the
\* one preferred and the whole fallback range.  A port that is given back is
\* therefore used by the next request.
PortsFor(k) ==
  {p \in 1..MaxPort : \/ p \in {assigned[k], Preferred[desired[k]]}
                      \/ FallbackBase <= p /\ p < FallbackBase + FallbackSize}

NoPortOverlooked ==
  [][\A k \in pending \ pending' :
       problems'[k] = "error" => PortsFor(k) \subseteq tried]_vars

\* The manager keeps the promise stated in TunnelSet: what it is asked for is
\* opened, each tunnel once and on a port of its own, or refused for lack of a
\* port; what is wanted stays; and after the context has ended every listener is
\* closed, also one that a Reconcile racing with Close opened when Close had
\* already returned.
WantedTargets == [k \in Keys |-> IF WantsForward(k) THEN desired[k] ELSE NoTarget]
WithoutPort   == {k \in Keys : problems[k] = "error"} \ pending
TunnelOf(f)   == [key |-> f.key, target |-> f.target, port |-> f.port]

Promise == INSTANCE TunnelSet WITH
             Ports <- 1..MaxPort, wanted <- WantedTargets, refused <- WithoutPort,
             open <- {TunnelOf(f) : f \in listening}, taken <- foreign,
             settled <- (rpc = "idle"), ended <- ctxDone
KeepsPromise == Promise!FairSpec

\* README.md: "A container that restarts keeps the local port it had, even if
\* its published port changed".  A key's local port changes only if somebody
\* else has the old one.
KeepsLocalPort ==
  [][\A k \in Keys :
       assigned[k] # 0 /\ assigned'[k] # assigned[k] =>
         \/ assigned[k] \in foreign
         \/ \E f \in listening : f.port = assigned[k] /\ f.key # k]_vars
=============================================================================
