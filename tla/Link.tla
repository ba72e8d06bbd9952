-------------------------------- MODULE Link --------------------------------
(***************************************************************************)
(* The managed connection together with its dials: SshConn, whose dial is  *)
(* one step that succeeds or fails, with the steps of Dial in its place,   *)
(* and the goroutine that a successful dial over a jump host leaves behind *)
(* ("Tear the jump connection down once the tunneled session ends",        *)
(* dial.go) for every client until its end.                                *)
(***************************************************************************)
EXTENDS SshConn, Sequences

CONSTANTS Hosts, ProxyJump

VARIABLES
  target, step, jump, hop, hung,   \* of Dial
  jumps,   \* the generations whose client to the jump host is open
  stuck    \* those among them whose tunneled session cannot see its end

D == INSTANCE Dial

ASSUME ProxyJumpAssumption ==
  /\ ProxyJump \in [Hosts -> Seq(Hosts \cup {D!Off})]
  /\ D!Off \notin Hosts

dialVars == <<target, step, jump, hop, hung>>
reapVars == <<jumps, stuck>>
linkVars == <<vars, dialVars, reapVars>>

\* A definition named Faulty... is a seeded fault, as in SshConn.

LinkInit ==
  /\ Init
  /\ D!Init
  /\ jumps = {} /\ stuck = {}

-----------------------------------------------------------------------------
(* Run with its dials.                                                     *)

BeginDial ==
  /\ CheckContext
  /\ IF ctxDone THEN UNCHANGED dialVars ELSE D!Start
  /\ UNCHANGED reapVars

DialOn == D!Advance /\ UNCHANGED <<vars, reapVars>>

DialGivesUp == DialFails /\ D!Fail /\ UNCHANGED reapVars

JumpsAfterDial == IF jump THEN jumps \cup {generation + 1} ELSE jumps

DialConnects ==
  /\ DialSucceeds
  /\ D!Succeed
  /\ jumps' = JumpsAfterDial
  /\ UNCHANGED stuck

\* Closing a client that runs over a hop sends a message and waits for the
\* jump host to confirm: if the way there swallows everything, the client's
\* Wait does not return.  Closing a direct client closes its socket.
Drop ==
  /\ CloseClient
  /\ stuck' = IF transport = "silent" THEN stuck \cup ({client} \cap jumps)
              ELSE stuck
  /\ UNCHANGED <<dialVars, jumps>>

RunElsewhere ==
  /\ \/ BackoffElapsed \/ BackoffCancelled
     \/ MonitorCancelled \/ MonitorLinkClosed \/ KeepaliveTick
     \/ PingAnswered \/ PingMissed
     \/ SetDisconnected \/ SetClosed
  /\ UNCHANGED <<dialVars, reapVars>>

LinkRun == BeginDial \/ DialOn \/ DialGivesUp \/ DialConnects \/ Drop
             \/ RunElsewhere

-----------------------------------------------------------------------------
(* The goroutine of each tunneled client: client.Wait, jumpClient.Close.   *)

FaultyEnded(g) == g = client /\ transport = "dead"
Ended(g) == g \notin openClients \/ (g = client /\ transport = "dead")

Reap(g) ==
  /\ g \in jumps \ stuck
  /\ Ended(g)
  /\ jumps' = jumps \ {g}
  /\ UNCHANGED <<vars, dialVars, stuck>>

-----------------------------------------------------------------------------
(* The environment.                                                        *)

DialHangs == D!Hang /\ UNCHANGED <<vars, reapVars>>

\* The kernel gives the silent connection to the jump host up.
StuckEnds(g) ==
  /\ g \in stuck
  /\ stuck' = stuck \ {g}
  /\ UNCHANGED <<vars, dialVars, jumps>>

\* A link that dies or goes silent does so on either part of the way.
Environment ==
  /\ \/ LinkDies \/ LinkGoesSilent \/ Cancel
     \/ \E w \in Waiters : WaitCall(w) \/ WaitCancelled(w)
  /\ UNCHANGED <<dialVars, reapVars>>

LinkWaitReady(w) == WaitReady(w) /\ UNCHANGED <<dialVars, reapVars>>

LinkNext ==
  \/ LinkRun
  \/ \E w \in Waiters : LinkWaitReady(w)
  \/ \E g \in jumps : Reap(g) \/ StuckEnds(g)
  \/ DialHangs
  \/ Environment

LinkSpec == LinkInit /\ [][LinkNext]_linkVars

\* Run goes on unless the peer of a dial hangs: every other wait of it has a
\* timer, a timeout or the context.  Go's select picks among ready cases at
\* random, so a cancellation that stays ready is not passed over for ever.
\* Goroutines woken by a closed channel or a returned Wait run.  Nothing forces
\* a dial to succeed, a call of WaitReady, its cancellation, a failure of the
\* link, the end of a silent connection or Cancel.
LinkFairness ==
  /\ WF_linkVars(LinkRun)
  /\ SF_linkVars(MonitorCancelled /\ UNCHANGED <<dialVars, reapVars>>)
  /\ SF_linkVars(BackoffCancelled /\ UNCHANGED <<dialVars, reapVars>>)
  /\ \A w \in Waiters : WF_linkVars(LinkWaitReady(w))
  /\ \A g \in 1..MaxGeneration : WF_linkVars(Reap(g))

LinkFairSpec == LinkSpec /\ LinkFairness

-----------------------------------------------------------------------------
(* Properties.                                                             *)

DialTypeOK ==
  /\ target \in Hosts /\ step \in D!Steps
  /\ jump \in BOOLEAN /\ hop \in BOOLEAN /\ hung \in BOOLEAN
  /\ jumps \in SUBSET (1..MaxGeneration)
  /\ stuck \subseteq jumps

\* The connection to the jump host lives exactly as long as somebody needs it:
\* a dial holds one only on its way through it and drops it when it fails, the
\* hop never outlives it, and a live client that came over a jump host still
\* has it.
JumpServesItsClient ==
  /\ jump => step \in {"jumpDial", "hopShake"}
  /\ hop => jump
  /\ step = "idle" \/ pc = "dialing"
  /\ client # None /\ D!Route(target) = "jump" /\ transport \in {"up", "silent"}
       => client \in jumps

\* A client's connection to the jump host does not stay behind: when the
\* session over it ends, or is dropped, it is closed, unless the jump host went
\* silent, when only the kernel can end it.
JumpsAreClosed ==
  \A g \in 1..MaxGeneration :
    (g \in jumps /\ g # client) ~> (g \notin jumps \/ g \in stuck)

\* Cancelling Run's context ends Run, from any point of a dial, a backoff, a
\* keepalive or a drop, unless the peer of a dial has stopped answering.
CancelEndsRun == ctxDone ~> (pc = "done" \/ hung)
=============================================================================
