----------------------------- MODULE Lifecycle -----------------------------
(***************************************************************************)
(* main.go: how the process starts, and how it ends.  run() starts the     *)
(* connection's goroutine, waits for the first connection, starts the      *)
(* engine's goroutine and then shows either the dashboard (the bubbletea   *)
(* program and a goroutine that feeds it) or a plain table.  Everything    *)
(* hangs on one context, which a signal ends.                              *)
(*                                                                         *)
(* The connection and the engine are reduced to what main waits for; the   *)
(* modules SshConn and Engine hold their detail.                           *)
(***************************************************************************)
EXTENDS Naturals

CONSTANT MaxDrops  \* how often the link may drop (a bound)

ASSUME DropAssumption == MaxDrops \in Nat

VARIABLES
  noTUI,      \* the flag: a plain table and no dashboard
  main,       \* where run() stands
  ctxDone,    \* the signal context has ended
  engStopped, \* engStop was called
  conn,       \* the goroutine of conn.Run; "hung" in a dial nobody answers
  link,       \* the ssh client: "down", "up" or, after Run, "closed"
  drops,      \* history: how often the link dropped
  engine,     \* the goroutine of eng.run
  tunnels,    \* the manager holds listeners
  feed,       \* the goroutine that sends snapshots to the program
  program,    \* program.Run
  failed      \* run returns an error

uiVars == <<feed, program>>
vars == <<noTUI, main, ctxDone, engStopped, conn, link, drops, engine, tunnels,
          uiVars, failed>>

\* A definition named Faulty... is a seeded fault: the definition that follows
\* it with a plausible slip of the code.  Nothing uses it; the properties below
\* are expected to reject it.

EngCtxDone == ctxDone \/ engStopped

Init ==
  /\ noTUI \in BOOLEAN
  /\ main = "waitReady"
  /\ ctxDone = FALSE /\ engStopped = FALSE
  /\ conn = "running" /\ link = "down" /\ drops = 0
  /\ engine = "none" /\ tunnels = FALSE
  /\ feed = "none" /\ program = "none"
  /\ failed = FALSE

-----------------------------------------------------------------------------
(* run.                                                                    *)

EngineAfterReady == "running"

\* WaitReady returns a client: the engine's goroutine, then the front end.
Ready ==
  /\ main = "waitReady"
  /\ link = "up"
  /\ engine' = EngineAfterReady
  /\ main' = IF noTUI THEN "plain" ELSE "tui"
  /\ feed' = IF noTUI THEN "none" ELSE "send"
  /\ program' = IF noTUI THEN "none" ELSE "running"
  /\ UNCHANGED <<noTUI, ctxDone, engStopped, conn, link, drops, tunnels, failed>>

\* WaitReady gives up, because the context ended or because Run did: stop().
\* Its select may prefer the context to a connection that has just come up.
NotReady ==
  /\ main = "waitReady"
  /\ ctxDone \/ link = "closed"
  /\ failed' = TRUE
  /\ ctxDone' = TRUE
  /\ main' = "waitConn"
  /\ UNCHANGED <<noTUI, engStopped, conn, link, drops, engine, tunnels, uiVars>>

PlainReturns ==
  /\ main = "plain"
  /\ ctxDone
  /\ main' = "engStop"
  /\ UNCHANGED <<noTUI, ctxDone, engStopped, conn, link, drops, engine, tunnels,
                 uiVars, failed>>

ProgramReturns ==
  /\ main = "tui"
  /\ program \in {"quit", "broken"}
  /\ main' = "feed"
  /\ UNCHANGED <<noTUI, ctxDone, engStopped, conn, link, drops, engine, tunnels,
                 uiVars, failed>>

\* The receive from feedDone: then an error of the program counts only if the
\* context has not ended.
FeedDone ==
  /\ main = "feed"
  /\ feed = "done"
  /\ failed' = (program = "broken" /\ ~ctxDone)
  /\ main' = "engStop"
  /\ UNCHANGED <<noTUI, ctxDone, engStopped, conn, link, drops, engine, tunnels,
                 uiVars>>

FaultyAfterEngStop == "stop"
AfterEngStop == "waitEng"

EngStop ==
  /\ main = "engStop"
  /\ engStopped' = TRUE
  /\ main' = AfterEngStop
  /\ UNCHANGED <<noTUI, ctxDone, conn, link, drops, engine, tunnels, uiVars,
                 failed>>

EngDone ==
  /\ main = "waitEng"
  /\ engine = "done"
  /\ main' = "stop"
  /\ UNCHANGED <<noTUI, ctxDone, engStopped, conn, link, drops, engine, tunnels,
                 uiVars, failed>>

StopSignals ==
  /\ main = "stop"
  /\ ctxDone' = TRUE
  /\ main' = "waitConn"
  /\ UNCHANGED <<noTUI, engStopped, conn, link, drops, engine, tunnels, uiVars,
                 failed>>

ConnDone ==
  /\ main = "waitConn"
  /\ conn = "done"
  /\ main' = "exited"
  /\ UNCHANGED <<noTUI, ctxDone, engStopped, conn, link, drops, engine, tunnels,
                 uiVars, failed>>

-----------------------------------------------------------------------------
(* The other goroutines, until main returns.                               *)

Running == main \notin {"exited", "killed"}

Connects ==
  /\ Running /\ conn = "running" /\ link = "down"
  /\ link' = "up"
  /\ UNCHANGED <<noTUI, main, ctxDone, engStopped, conn, drops, engine, tunnels,
                 uiVars, failed>>

Drops ==
  /\ Running /\ conn = "running" /\ link = "up"
  /\ drops < MaxDrops
  /\ link' = "down"
  /\ drops' = drops + 1
  /\ UNCHANGED <<noTUI, main, ctxDone, engStopped, conn, engine, tunnels, uiVars,
                 failed>>

\* The peer of a dial stops answering, and Dial has no deadline and no context.
ConnHangs ==
  /\ Running /\ conn = "running" /\ link = "down"
  /\ conn' = "hung"
  /\ UNCHANGED <<noTUI, main, ctxDone, engStopped, link, drops, engine, tunnels,
                 uiVars, failed>>

\* conn.Run returns: setClosed.
ConnEnds ==
  /\ Running /\ conn = "running" /\ ctxDone
  /\ conn' = "done"
  /\ link' = "closed"
  /\ UNCHANGED <<noTUI, main, ctxDone, engStopped, drops, engine, tunnels,
                 uiVars, failed>>

\* A poll, which needs a client, or a key in the dashboard, which does not and
\* may even come after the engine closed its tunnels.
Opens ==
  /\ Running
  /\ \/ engine = "running" /\ link = "up"
     \/ engine # "none" /\ program = "running"
  /\ ~tunnels
  /\ tunnels' = TRUE
  /\ UNCHANGED <<noTUI, main, ctxDone, engStopped, conn, link, drops, engine,
                 uiVars, failed>>

\* eng.run returns: manager.Close.
EngineEnds ==
  /\ Running /\ engine = "running" /\ EngCtxDone
  /\ engine' = "done"
  /\ tunnels' = FALSE
  /\ UNCHANGED <<noTUI, main, ctxDone, engStopped, conn, link, drops, uiVars,
                 failed>>

\* A listener whose context has ended closes itself.
ListenersClose ==
  /\ Running /\ tunnels /\ EngCtxDone
  /\ tunnels' = FALSE
  /\ UNCHANGED <<noTUI, main, ctxDone, engStopped, conn, link, drops, engine,
                 uiVars, failed>>

\* program.Send does not block once the program has returned.
FaultyMaySend == program = "running"
MaySend == TRUE

FeedSends ==
  /\ Running /\ feed = "send" /\ MaySend
  /\ feed' = "select"
  /\ UNCHANGED <<noTUI, main, ctxDone, engStopped, conn, link, drops, engine,
                 tunnels, program, failed>>

FeedTicks ==
  /\ Running /\ feed = "select"
  /\ feed' = "send"
  /\ UNCHANGED <<noTUI, main, ctxDone, engStopped, conn, link, drops, engine,
                 tunnels, program, failed>>

FeedEnds ==
  /\ Running /\ feed = "select" /\ ctxDone
  /\ feed' = "done"
  /\ UNCHANGED <<noTUI, main, ctxDone, engStopped, conn, link, drops, engine,
                 tunnels, program, failed>>

\* The user presses q, Esc or Ctrl-C: tea.Quit.
Quit ==
  /\ Running /\ program = "running"
  /\ program' = "quit"
  /\ UNCHANGED <<noTUI, main, ctxDone, engStopped, conn, link, drops, engine,
                 tunnels, feed, failed>>

\* The terminal fails, or the context of the program has ended.
Breaks ==
  /\ Running /\ program = "running"
  /\ program' = "broken"
  /\ UNCHANGED <<noTUI, main, ctxDone, engStopped, conn, link, drops, engine,
                 tunnels, feed, failed>>

ProgramCancelled == ctxDone /\ Breaks

\* SIGINT or SIGTERM.
Signal ==
  /\ Running /\ ~ctxDone
  /\ ctxDone' = TRUE
  /\ UNCHANGED <<noTUI, main, engStopped, conn, link, drops, engine, tunnels,
                 uiVars, failed>>

\* stop() gave the signals their default meaning back: the next one kills.
SecondSignal ==
  /\ main = "waitConn"
  /\ main' = "killed"
  /\ UNCHANGED <<noTUI, ctxDone, engStopped, conn, link, drops, engine, tunnels,
                 uiVars, failed>>

Exited == ~Running /\ UNCHANGED vars

-----------------------------------------------------------------------------
Main == Ready \/ NotReady \/ PlainReturns \/ ProgramReturns \/ FeedDone
          \/ EngStop \/ EngDone \/ StopSignals \/ ConnDone

Next ==
  \/ Main
  \/ Connects \/ Drops \/ ConnHangs \/ ConnEnds
  \/ Opens \/ EngineEnds \/ ListenersClose
  \/ FeedSends \/ FeedTicks \/ FeedEnds
  \/ Quit \/ Breaks \/ Signal \/ SecondSignal \/ Exited

Spec == Init /\ [][Next]_vars

\* Every goroutine runs when it can.  A goroutine that looks at its context
\* once per round sees it in the end: strong fairness for the feed, whose
\* select takes a ready case at random.  Nobody need press a key or send a
\* signal, and no dial need ever succeed.
Fairness ==
  /\ WF_vars(Main) /\ WF_vars(ConnEnds) /\ WF_vars(EngineEnds)
  /\ WF_vars(FeedSends) /\ WF_vars(FeedTicks) /\ SF_vars(FeedEnds)
  /\ WF_vars(ProgramCancelled)

FairSpec == Spec /\ Fairness

-----------------------------------------------------------------------------
(* Properties.                                                             *)

\* The front end reads an engine, so there is one before it starts.
TypeOK ==
  /\ noTUI \in BOOLEAN
  /\ main \in {"waitReady", "plain", "tui", "feed", "engStop", "waitEng",
               "stop", "waitConn", "exited", "killed"}
  /\ ctxDone \in BOOLEAN /\ engStopped \in BOOLEAN
  /\ conn \in {"running", "hung", "done"}
  /\ link \in {"down", "up", "closed"}
  /\ drops \in 0..MaxDrops
  /\ engine \in {"none", "running", "done"}
  /\ tunnels \in BOOLEAN
  /\ feed \in {"none", "send", "select", "done"}
  /\ program \in {"none", "running", "quit", "broken"}
  /\ failed \in BOOLEAN
  /\ feed # "none" => engine # "none"

\* The process never returns from run with a goroutine of its own still at
\* work on the link or on the tunnels: the link is closed, the engine has closed
\* its tunnels and nobody draws.  (A key pressed in the dashboard while a signal
\* ends the engine may leave a listener to close itself.)
ExitIsClean ==
  main = "exited" =>
    /\ conn = "done" /\ link = "closed"
    /\ engine # "running"
    /\ feed \in {"none", "done"}
    /\ program # "running"
    /\ noTUI => ~tunnels

\* A signal ends the process, whatever it was doing: waiting for the first
\* connection, showing the table or the dashboard, or between two of these;
\* unless the connection is in a dial that nobody answers, when run waits for it
\* and it takes a second signal.
SignalExits == ctxDone ~> (~Running \/ conn = "hung")

\* README.md: "`q` or `Ctrl-C` shuts everything down cleanly".  When the user
\* quits the dashboard the process exits.
QuitExits == (program = "quit") ~> (~Running \/ conn = "hung")
=============================================================================
