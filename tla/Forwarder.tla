----------------------------- MODULE Forwarder -----------------------------
(***************************************************************************)
(* internal/tunnel/forwarder.go: one local listener, the accept loop, one  *)
(* handle goroutine per connection and the goroutine that stops them all.  *)
(*                                                                         *)
(* The TCP stack (backlog, reset of what was never accepted) and the SSH   *)
(* channel are modelled by what the forwarder sees of them.  Bytes are not *)
(* modelled: a copy goroutine runs until it ends.                          *)
(***************************************************************************)
EXTENDS Naturals, FiniteSets

CONSTANT Conns   \* connections local clients may open

ASSUME ConnAssumption == IsFiniteSet(Conns)

VARIABLES
  apc,         \* where acceptLoop stands; done is closed once it is "exited"
  listenerUp,  \* the listener is open
  ctxDone,     \* the forwarder's context is cancelled
  paused,      \* forwarder.paused
  hpc,         \* connection -> where it stands on its way through handle
  localOpen,   \* local connections not closed by the forwarder
  remoteOpen,  \* connections whose SSH channel is open
  conns,       \* forwarder.conns: tracked local connections
  outDone,     \* connections whose local-to-remote copy has ended
  inDone,      \* connections whose remote-to-local copy has ended
  active,      \* forwarder.activeConns
  total,       \* forwarder.totalConns
  lastErr,     \* forwarder.lastErr # ""
  sshUp,       \* the client function returns a client
  spc          \* where the caller of stop stands

connVars  == <<hpc, localOpen, remoteOpen, conns, outDone, inDone>>
countVars == <<active, total, lastErr>>
vars == <<apc, listenerUp, ctxDone, paused, connVars, countVars, sshUp, spc>>

In(places) == {c \in Conns : hpc[c] \in places}

\* A definition named Faulty... is a seeded fault: the definition that follows
\* it with a plausible slip of the code.  Nothing uses it; the properties below
\* are expected to reject it.

Init ==
  /\ apc = "accept" /\ listenerUp = TRUE
  /\ ctxDone = FALSE /\ paused = FALSE
  /\ hpc = [c \in Conns |-> "new"]
  /\ localOpen = {} /\ remoteOpen = {} /\ conns = {}
  /\ outDone = {} /\ inDone = {}
  /\ active = 0 /\ total = 0 /\ lastErr = FALSE
  /\ sshUp \in BOOLEAN
  /\ spc = "idle"

Goto(c, place) == hpc' = [hpc EXCEPT ![c] = place]

-----------------------------------------------------------------------------
(* The accept loop.                                                        *)

\* Accept returns a connection, which the loop now holds.
AcceptReturns(c) ==
  /\ apc = "accept"
  /\ hpc[c] = "backlog"
  /\ Goto(c, "inLoop")
  /\ apc' = "dispatch"
  /\ UNCHANGED <<listenerUp, ctxDone, paused, localOpen, remoteOpen, conns,
                 outDone, inDone, countVars, sshUp, spc>>

\* A paused forwarder closes the connection at once; else a goroutine handles
\* it.  The context is not looked at here.
Dispatch(c) ==
  /\ apc = "dispatch"
  /\ hpc[c] = "inLoop"
  /\ Goto(c, IF paused THEN "finished" ELSE "accepted")
  /\ localOpen' = IF paused THEN localOpen \ {c} ELSE localOpen
  /\ apc' = "accept"
  /\ UNCHANGED <<listenerUp, ctxDone, paused, remoteOpen, conns, outDone,
                 inDone, countVars, sshUp, spc>>

\* Accept fails because the listener is closed.
FaultyAfterClosed == "backoff"
AfterClosed == "exited"

AcceptClosed ==
  /\ apc = "accept"
  /\ ~listenerUp
  /\ apc' = AfterClosed
  /\ UNCHANGED <<listenerUp, ctxDone, paused, connVars, countVars, sshUp, spc>>

\* Accept fails for another reason, such as too many open files.
AcceptError ==
  /\ apc = "accept"
  /\ listenerUp
  /\ apc' = IF ctxDone THEN "exited" ELSE "backoff"
  /\ lastErr' = IF ctxDone THEN lastErr ELSE TRUE
  /\ UNCHANGED <<listenerUp, ctxDone, paused, connVars, active, total, sshUp,
                 spc>>

BackoffElapsed ==
  /\ apc = "backoff"
  /\ apc' = "accept"
  /\ UNCHANGED <<listenerUp, ctxDone, paused, connVars, countVars, sshUp, spc>>

BackoffCancelled ==
  /\ apc = "backoff"
  /\ ctxDone
  /\ apc' = "exited"
  /\ UNCHANGED <<listenerUp, ctxDone, paused, connVars, countVars, sshUp, spc>>

\* Closing the listener resets the connections nobody has accepted.
ListenerCloses ==
  /\ listenerUp' = FALSE
  /\ hpc' = [c \in Conns |-> IF hpc[c] = "backlog" THEN "finished" ELSE hpc[c]]

\* The goroutine that turns a cancelled context into a closed listener.
CloserStep ==
  /\ ctxDone
  /\ listenerUp
  /\ ListenerCloses
  /\ localOpen' = localOpen \ In({"backlog"})
  /\ UNCHANGED <<apc, ctxDone, paused, remoteOpen, conns, outDone, inDone,
                 countVars, sshUp, spc>>

-----------------------------------------------------------------------------
(* handle.  The deferred calls run when it returns: whatever was opened is *)
(* closed, the counters and the map are put right.                         *)

Untracked(c) == conns \ {c}

\* handle returns before the remote connection is open: setError, close, untrack.
FaultyLocalAfterError(c) == localOpen
LocalAfterError(c) == localOpen \ {c}

GiveUp(c) ==
  /\ lastErr' = TRUE
  /\ Goto(c, "finished")
  /\ localOpen' = LocalAfterError(c)
  /\ conns' = Untracked(c)

Track(c) ==
  /\ hpc[c] = "accepted"
  /\ conns' = conns \cup {c}
  /\ Goto(c, "tracked")
  /\ UNCHANGED <<apc, listenerUp, ctxDone, paused, localOpen, remoteOpen,
                 outDone, inDone, countVars, sshUp, spc>>

GetClient(c) ==
  /\ hpc[c] = "tracked"
  /\ sshUp
  /\ Goto(c, "dialing")
  /\ UNCHANGED <<apc, listenerUp, ctxDone, paused, localOpen, remoteOpen,
                 conns, outDone, inDone, countVars, sshUp, spc>>

NoClient(c) ==
  /\ hpc[c] = "tracked"
  /\ ~sshUp
  /\ GiveUp(c)
  /\ UNCHANGED <<apc, listenerUp, ctxDone, paused, remoteOpen, outDone, inDone,
                 active, total, sshUp, spc>>

\* The client may have died since GetClient, or the remote port refuses.
RemoteDialFails(c) ==
  /\ hpc[c] = "dialing"
  /\ GiveUp(c)
  /\ UNCHANGED <<apc, listenerUp, ctxDone, paused, remoteOpen, outDone, inDone,
                 active, total, sshUp, spc>>

RemoteDialSucceeds(c) ==
  /\ hpc[c] = "dialing"
  /\ sshUp
  /\ remoteOpen' = remoteOpen \cup {c}
  /\ total' = total + 1
  /\ active' = active + 1
  /\ lastErr' = FALSE
  /\ Goto(c, "bridging")
  /\ UNCHANGED <<apc, listenerUp, ctxDone, paused, localOpen, conns, outDone,
                 inDone, sshUp, spc>>

\* A copy goroutine ends: its source reports EOF or either side fails.
CopyOutEnds(c) ==
  /\ hpc[c] = "bridging"
  /\ c \notin outDone
  /\ outDone' = outDone \cup {c}
  /\ UNCHANGED <<apc, listenerUp, ctxDone, paused, hpc, localOpen, remoteOpen,
                 conns, inDone, countVars, sshUp, spc>>

CopyInEnds(c) ==
  /\ hpc[c] = "bridging"
  /\ c \notin inDone
  /\ inDone' = inDone \cup {c}
  /\ UNCHANGED <<apc, listenerUp, ctxDone, paused, hpc, localOpen, remoteOpen,
                 conns, outDone, countVars, sshUp, spc>>

\* The select on waited and on the context.
FaultyMayLeave(c) == c \in outDone \cap inDone
MayLeave(c) == c \in outDone \cap inDone \/ ctxDone

FaultyActiveAfter == active
ActiveAfter == active - 1

RemoteAfter(c) == remoteOpen \ {c}

Unbridge(c) ==
  /\ hpc[c] = "bridging"
  /\ MayLeave(c)
  /\ active' = ActiveAfter
  /\ remoteOpen' = RemoteAfter(c)
  /\ localOpen' = localOpen \ {c}
  /\ conns' = Untracked(c)
  /\ Goto(c, "finished")
  /\ UNCHANGED <<apc, listenerUp, ctxDone, paused, outDone, inDone, total,
                 lastErr, sshUp, spc>>

-----------------------------------------------------------------------------
(* stop, step by step, and togglePause.                                    *)

StopCancel ==
  /\ spc = "idle"
  /\ ctxDone' = TRUE
  /\ spc' = "cancelled"
  /\ UNCHANGED <<apc, listenerUp, paused, connVars, countVars, sshUp>>

StopListener ==
  /\ spc = "cancelled"
  /\ ListenerCloses
  /\ localOpen' = localOpen \ In({"backlog"})
  /\ spc' = "listenerClosed"
  /\ UNCHANGED <<apc, ctxDone, paused, remoteOpen, conns, outDone, inDone,
                 countVars, sshUp>>

StopConns ==
  /\ spc = "listenerClosed"
  /\ localOpen' = localOpen \ conns
  /\ spc' = "waiting"
  /\ UNCHANGED <<apc, listenerUp, ctxDone, paused, hpc, remoteOpen, conns,
                 outDone, inDone, countVars, sshUp>>

\* <-f.done
LoopEnded == apc = "exited"

StopReturn ==
  /\ spc = "waiting"
  /\ LoopEnded
  /\ spc' = "returned"
  /\ UNCHANGED <<apc, listenerUp, ctxDone, paused, connVars, countVars, sshUp>>

\* The manager looks the forwarder up under its lock and toggles it after the
\* unlock, so it may be a forwarder that is being stopped or has been.
TogglePause ==
  /\ paused' = ~paused
  /\ UNCHANGED <<apc, listenerUp, ctxDone, connVars, countVars, sshUp, spc>>

-----------------------------------------------------------------------------
(* The environment.                                                        *)

ClientConnects(c) ==
  /\ listenerUp
  /\ hpc[c] = "new"
  /\ Goto(c, "backlog")
  /\ localOpen' = localOpen \cup {c}
  /\ UNCHANGED <<apc, listenerUp, ctxDone, paused, remoteOpen, conns, outDone,
                 inDone, countVars, sshUp, spc>>

SshFlips ==
  /\ sshUp' = ~sshUp
  /\ UNCHANGED <<apc, listenerUp, ctxDone, paused, connVars, countVars, spc>>

\* The engine's context, which the forwarder's descends from, is cancelled.
ParentCancels ==
  /\ ~ctxDone
  /\ ctxDone' = TRUE
  /\ UNCHANGED <<apc, listenerUp, paused, connVars, countVars, sshUp, spc>>

-----------------------------------------------------------------------------
AcceptStep ==
  \/ AcceptClosed \/ AcceptError \/ BackoffElapsed \/ BackoffCancelled
  \/ \E c \in Conns : AcceptReturns(c) \/ Dispatch(c)

Handle(c) ==
  \/ Track(c) \/ GetClient(c) \/ NoClient(c)
  \/ RemoteDialFails(c) \/ RemoteDialSucceeds(c) \/ Unbridge(c)

StopStep == StopListener \/ StopConns \/ StopReturn

Next ==
  \/ AcceptStep \/ CloserStep
  \/ \E c \in Conns : Handle(c) \/ CopyOutEnds(c) \/ CopyInEnds(c)
  \/ StopCancel \/ StopStep \/ TogglePause
  \/ \E c \in Conns : ClientConnects(c)
  \/ SshFlips \/ ParentCancels

Spec == Init /\ [][Next]_vars

\* Goroutines that can run do, and a dial over SSH is answered in the end (the
\* server accepts or refuses the channel, or the connection dies and the dial
\* with it).  A copy need never end, nobody need connect, stop or toggle.
Fairness ==
  /\ WF_vars(AcceptClosed) /\ WF_vars(BackoffElapsed \/ BackoffCancelled)
  /\ WF_vars(CloserStep)
  /\ \A c \in Conns : WF_vars(AcceptReturns(c) \/ Dispatch(c)) /\ WF_vars(Handle(c))
  /\ WF_vars(StopStep)

FairSpec == Spec /\ Fairness

-----------------------------------------------------------------------------
(* Properties.                                                             *)

Places == {"new", "backlog", "inLoop", "accepted", "tracked", "dialing",
           "bridging", "finished"}

TypeOK ==
  /\ apc \in {"accept", "dispatch", "backoff", "exited"}
  /\ listenerUp \in BOOLEAN /\ ctxDone \in BOOLEAN /\ paused \in BOOLEAN
  /\ hpc \in [Conns -> Places]
  /\ localOpen \in SUBSET Conns /\ remoteOpen \in SUBSET Conns
  /\ conns \in SUBSET Conns
  /\ outDone \in SUBSET Conns /\ inDone \in SUBSET Conns
  /\ active \in 0..Cardinality(Conns)
  /\ total \in 0..Cardinality(Conns) /\ lastErr \in BOOLEAN
  /\ sshUp \in BOOLEAN
  /\ spc \in {"idle", "cancelled", "listenerClosed", "waiting", "returned"}

\* The number of active connections the dashboard shows is the number of
\* connections being bridged, on every path through handle, and the total never
\* falls behind it.
CountsAreExact ==
  /\ active = Cardinality(In({"bridging"}))
  /\ total >= active

\* A handle that has returned leaves nothing behind, however it ended: the
\* local connection and the SSH channel are closed and the map forgets it.
HandleCleansUp ==
  In({"finished"}) \cap (localOpen \cup remoteOpen \cup conns) = {}

\* stop returns: it waits for the accept loop, never for a connection.
StopReturns == (spc = "cancelled") ~> (spc = "returned")

\* Cancelling the context is enough for everything to be closed in the end,
\* also a connection that was accepted but not yet tracked when stop closed
\* the tracked ones.
CancelDrains == ctxDone ~> (~listenerUp /\ localOpen = {} /\ remoteOpen = {})
=============================================================================
