----------------------------- MODULE Dashboard -----------------------------
(***************************************************************************)
(* internal/ui/model.go, the table the user looks at and switches rows in, *)
(* with the goroutine of main.runTUI that feeds it and what the engine and *)
(* the manager show it.                                                    *)
(*                                                                         *)
(* The table is a view of a snapshot, and the snapshot is older than the   *)
(* engine: it is taken, waits until Update takes it, and stays on screen   *)
(* until the next.  Update handles one message at a time, key or snapshot. *)
(* A row is what the filters, the sort orders and the keys look at; the    *)
(* cursor counts from 1.                                                   *)
(***************************************************************************)
EXTENDS Naturals, Sequences, FiniteSets

CONSTANTS
  Keys,           \* tunnel keys
  Rank,           \* key -> where its name and container port sort it
  Source,         \* key -> "docker", "host" or "static"
  LocalPort,      \* key -> its local port when it is forwarded
  RemoteKey,      \* key -> where the text of its remote column sorts it
  Hits,           \* filter text -> the labels that contain it
  SourceFilters,  \* the cycle of the "t" key
  SortModes,      \* the cycle of the "s" key
  Discovered,     \* what the engine has listed when the dashboard opens
  MaxFilter,      \* bound: letters typed at the filter prompt
  MaxChanges,     \* bound: changes of the engine, the user's included
  NoSnapshot      \* no snapshot waits for the dashboard

ASSUME KeysAssumption ==
  /\ IsFiniteSet(Keys) /\ Discovered \subseteq Keys
  /\ {Rank, LocalPort, RemoteKey} \subseteq [Keys -> Nat]
ASSUME SortAssumption ==
  SortModes \in Seq({"name", "local", "traffic", "remote"}) \ {<<>>}

VARIABLES
  listed,    \* the engine: the keys discovery lists
  chosen,    \* engine.selected: the user's choice for each key
  paused,    \* the forwarders that are paused
  busy,      \* the rows with more traffic than the others
  flight,    \* a snapshot the feed has taken and Update has not
  running,   \* the program has not quit
  snap,      \* Model.snap.Tunnels
  rows,      \* Model.rows
  cursor,    \* Model.cursor
  sort, source, onlyOn, filter, editing, \* the fields of Model by these names
  changes    \* bound

engineVars  == <<listed, chosen, paused, busy>>
settingVars == <<sort, source, onlyOn, filter, editing>>
tableVars   == <<rows, cursor>>
vars == <<engineVars, flight, running, snap, tableVars, settingVars, changes>>

\* A definition named Faulty... is a seeded fault: the definition that follows
\* it with a plausible slip of the code.  Nothing uses it; the properties below
\* are expected to reject it.

-----------------------------------------------------------------------------
(* The engine as the dashboard sees it.                                    *)

\* -host-ports select: a host socket is forwarded once it is chosen.
Enabled(k) == chosen[k] = "on" \/ (chosen[k] = "unset" /\ Source[k] # "host")

Row(k) == [key |-> k, on |-> Enabled(k), paused |-> k \in paused,
           busy |-> k \in busy]

\* Manager.Tunnels sorts by name and container port what it read from three
\* maps: rows that agree in both come in any order.
Snapshots ==
  {s \in [1..Cardinality(listed) -> {Row(k) : k \in listed}] :
     /\ \A i, j \in DOMAIN s : s[i] = s[j] => i = j
     /\ \A i, j \in DOMAIN s : i < j => Rank[s[i].key] =< Rank[s[j].key]}

-----------------------------------------------------------------------------
(* sortRows and the filters.                                               *)

\* What a row sorts on first, smaller first.
Value(row, mode) ==
  CASE mode = "name"    -> 0
    [] mode = "local"   -> IF row.on THEN LocalPort[row.key] ELSE 0
    [] mode = "traffic" -> IF row.busy THEN 0 ELSE 1
    [] mode = "remote"  -> RemoteKey[row.key]

FaultyBefore(s, i, j, mode) ==
  \/ Value(s[i], mode) < Value(s[j], mode)
  \/ Value(s[i], mode) = Value(s[j], mode) /\ s[i].busy /\ ~s[j].busy
  \/ Value(s[i], mode) = Value(s[j], mode) /\ s[i].busy = s[j].busy /\ i < j

\* The order is stable: rows that compare equal stay as they came.
Before(s, i, j, mode) ==
  \/ Value(s[i], mode) < Value(s[j], mode)
  \/ /\ Value(s[i], mode) = Value(s[j], mode)
     /\ \/ Rank[s[i].key] < Rank[s[j].key]
        \/ Rank[s[i].key] = Rank[s[j].key] /\ i < j

\* Of the rows of s at the indices shown, the n-th has n - 1 before it.
Place(s, shown, i, mode) == Cardinality({j \in shown : Before(s, j, i, mode)})

SortRows(s, shown, mode) ==
  [n \in 1..Cardinality(shown) |->
     s[CHOOSE i \in shown : Place(s, shown, i, mode) = n - 1]]

\* The text a filter is looked for in: the name, the state and the rest.
StateOf(row) == IF ~row.on THEN "AVAILABLE" ELSE IF row.paused THEN "PAUSED"
                ELSE IF row.busy THEN "ACTIVE" ELSE "LISTENING"
Labels(row) == {row.key, Source[row.key], StateOf(row)}
Matches(row, text) == text = <<>> \/ Labels(row) \cap Hits[text] # {}

Visible(row, src, on, text) ==
  /\ on => row.on
  /\ src \in {"all", Source[row.key]}
  /\ Matches(row, text)

View(s, mode, src, on, text) ==
  SortRows(s, {i \in DOMAIN s : Visible(s[i], src, on, text)}, mode)

-----------------------------------------------------------------------------
(* refresh: the table anew, with the cursor on the row it was on.          *)

At(table, k) == {i \in DOMAIN table : table[i].key = k}
Selected == IF cursor \in DOMAIN rows THEN {rows[cursor].key} ELSE {}

FaultyCursorIn(table) == IF cursor \in DOMAIN table THEN cursor ELSE 1

CursorIn(table) ==
  LET same == UNION {At(table, k) : k \in Selected} IN
  IF same = {} THEN 1 ELSE CHOOSE i \in same : \A j \in same : i =< j

\* To be used where snap' and the settings' next values are given.
FaultyRefresh ==
  /\ rows' = View(snap', sort, source, onlyOn, filter)
  /\ cursor' = CursorIn(rows')

Refresh ==
  /\ rows' = View(snap', sort', source', onlyOn', filter')
  /\ cursor' = CursorIn(rows')

Init ==
  /\ listed = Discovered /\ chosen = [k \in Keys |-> "unset"]
  /\ paused = {} /\ busy = {}
  /\ flight = NoSnapshot /\ running = TRUE
  /\ snap = <<>> /\ rows = <<>> /\ cursor = 1
  /\ sort \in {SortModes[i] : i \in DOMAIN SortModes}   \* what Prefs remembers
  /\ source = SourceFilters[1] /\ onlyOn = FALSE
  /\ filter = <<>> /\ editing = FALSE
  /\ changes = 0

-----------------------------------------------------------------------------
(* The feed, and SnapshotMsg.                                              *)

FeedTakes ==
  /\ running
  /\ flight = NoSnapshot
  /\ flight' \in Snapshots
  /\ UNCHANGED <<engineVars, running, snap, tableVars, settingVars, changes>>

FaultyTakesSnapshot == ~editing
TakesSnapshot == TRUE

SnapshotMsg ==
  /\ running
  /\ flight # NoSnapshot
  /\ TakesSnapshot
  /\ snap' = flight
  /\ flight' = NoSnapshot
  /\ UNCHANGED settingVars
  /\ Refresh
  /\ UNCHANGED <<engineVars, running, changes>>

-----------------------------------------------------------------------------
(* handleKey.                                                              *)

Key == running /\ ~editing

Move ==
  /\ Key
  /\ cursor' \in {IF cursor > 1 THEN cursor - 1 ELSE cursor,
                  IF cursor < Len(rows) THEN cursor + 1 ELSE cursor,
                  1,
                  IF rows = <<>> THEN 1 ELSE Len(rows)}
  /\ UNCHANGED <<engineVars, flight, running, snap, rows, settingVars, changes>>

Changes == changes < MaxChanges /\ changes' = changes + 1

\* engine.SetEnabled and SetEnabledAll: a key the engine no longer lists is
\* turned down.
Choose(keys, on) ==
  /\ Changes
  /\ chosen' = [k \in Keys |-> IF k \in keys \cap listed
                               THEN IF on THEN "on" ELSE "off"
                               ELSE chosen[k]]
  /\ paused' = {k \in paused : Enabled(k)'}
  /\ UNCHANGED <<listed, busy, flight, running, snap, tableVars, settingVars>>

ToggleEnabled ==
  /\ Key
  /\ cursor \in DOMAIN rows
  /\ Choose(Selected, ~rows[cursor].on)

FaultyBulkKeys == {snap[i].key : i \in DOMAIN snap}
BulkKeys == {rows[i].key : i \in DOMAIN rows}

BulkOn == \E i \in DOMAIN rows : ~rows[i].on

ToggleAllVisible ==
  /\ Key
  /\ rows # <<>>
  /\ Choose(BulkKeys, BulkOn)

TogglePause ==
  /\ Key
  /\ Changes
  /\ \E k \in Selected \cap listed :
       /\ Enabled(k)
       /\ paused' = IF k \in paused THEN paused \ {k} ELSE paused \cup {k}
  /\ UNCHANGED <<listed, chosen, busy, flight, running, snap, tableVars,
                 settingVars>>

Following(cycle, x) ==
  cycle[((CHOOSE i \in DOMAIN cycle : cycle[i] = x) % Len(cycle)) + 1]

\* "f", "t" and "s".
Setting ==
  /\ Key
  /\ \/ onlyOn' = ~onlyOn /\ UNCHANGED <<sort, source>>
     \/ source' = Following(SourceFilters, source) /\ UNCHANGED <<sort, onlyOn>>
     \/ sort' = Following(SortModes, sort) /\ UNCHANGED <<source, onlyOn>>
  /\ UNCHANGED <<filter, editing, snap>>
  /\ Refresh
  /\ UNCHANGED <<engineVars, flight, running, changes>>

\* "/" clears the filter and leaves the table as it is.
OpenPrompt ==
  /\ Key
  /\ editing' = TRUE
  /\ filter' = <<>>
  /\ UNCHANGED <<engineVars, flight, running, snap, tableVars, sort, source,
                 onlyOn, changes>>

Quit ==
  /\ running
  /\ running' = FALSE
  /\ UNCHANGED <<engineVars, flight, snap, tableVars, settingVars, changes>>

-----------------------------------------------------------------------------
(* handleFilterKey: every key of the prompt refreshes.                     *)

Prompt == running /\ editing

Typed == {text \in DOMAIN Hits : Len(text) = Len(filter) + 1
                                   /\ SubSeq(text, 1, Len(filter)) = filter}

FilterKey ==
  /\ Prompt
  /\ \/ editing' = FALSE /\ filter' = <<>>          \* Esc
     \/ editing' = FALSE /\ UNCHANGED filter        \* Enter
     \/ /\ editing' = TRUE                          \* Backspace
        /\ filter' = IF filter = <<>> THEN <<>>
                     ELSE SubSeq(filter, 1, Len(filter) - 1)
     \/ /\ editing' = TRUE                          \* a letter or a space
        /\ Len(filter) < MaxFilter
        /\ filter' \in Typed
  /\ UNCHANGED <<sort, source, onlyOn, snap>>
  /\ Refresh
  /\ UNCHANGED <<engineVars, flight, running, changes>>

-----------------------------------------------------------------------------
(* The engine: discovery lists and drops rows, traffic comes and goes.     *)

EngineChanges ==
  /\ running
  /\ Changes
  /\ \E k \in Keys :
       \/ /\ listed' = IF k \in listed THEN listed \ {k} ELSE listed \cup {k}
          /\ paused' = paused \ {k}
          /\ busy' = busy \ {k}
       \/ /\ k \in listed /\ Enabled(k)
          /\ busy' = IF k \in busy THEN busy \ {k} ELSE busy \cup {k}
          /\ UNCHANGED <<listed, paused>>
  /\ UNCHANGED <<chosen, flight, running, snap, tableVars, settingVars>>

-----------------------------------------------------------------------------
Next ==
  \/ FeedTakes \/ SnapshotMsg
  \/ Move \/ ToggleEnabled \/ ToggleAllVisible \/ TogglePause
  \/ Setting \/ OpenPrompt \/ FilterKey \/ Quit
  \/ EngineChanges

Spec == Init /\ [][Next]_vars

\* The feed's ticker ticks and Update takes what is sent.  Bubble Tea gives the
\* keys and the snapshots one queue, which no key can hold up for good.  Nobody
\* need press a key.
Fairness == WF_vars(FeedTakes) /\ WF_vars(SnapshotMsg)

FairSpec == Spec /\ Fairness

-----------------------------------------------------------------------------
(* Properties.                                                             *)

\* What is on screen is what the footer says: the rows of the snapshot that pass
\* the filters, each once and in the order chosen, whatever keys came before.
\* Only between "/" and the next message the table is the one of the filter that
\* "/" cleared.  The cursor is on a row, if there is one, and the part of the
\* table that view.go prints, however many rows fit, holds it.
WindowStart(fits) == IF cursor - 1 >= fits THEN cursor - fits + 1 ELSE 1
WindowEnd(fits) == IF Len(rows) < WindowStart(fits) + fits - 1 THEN Len(rows)
                   ELSE WindowStart(fits) + fits - 1

Shows(row) == Visible(row, source, onlyOn, filter)

ScreenIsConsistent ==
  /\ ~editing => /\ {rows[i] : i \in DOMAIN rows} =
                      {row \in {snap[i] : i \in DOMAIN snap} : Shows(row)}
                 /\ \A i, j \in DOMAIN rows :
                      i < j => Value(rows[i], sort) =< Value(rows[j], sort)
  /\ \A i, j \in DOMAIN rows : rows[i].key = rows[j].key => i = j
  /\ rows # <<>> => \A fits \in 1..(Cardinality(Keys) + 1) :
       cursor \in WindowStart(fits)..WindowEnd(fits)

\* "keeping the cursor on the same tunnel where possible so a background
\* snapshot never moves the selection": nothing but a movement key takes the
\* cursor off a row that stays in the table, however rows come, go and trade
\* places above it.
CursorKeepsItsRow ==
  [][~Move => \A k \in Selected : At(rows', k) # {} => k \in Selected']_vars

\* "The bulk keys act on exactly what the user can see": a key the settings hide
\* is never switched, though the engine may have moved on since the snapshot;
\* and a table in which some row is off, as far as it shows, is never switched
\* off.
SwitchesOnlyWhatIsShown ==
  [][\A k \in Keys : chosen'[k] # chosen[k] =>
       /\ \E i \in DOMAIN snap : snap[i].key = k /\ Shows(snap[i])
       /\ \/ chosen'[k] = "on"
          \/ \A i \in At(rows, k) : rows[i].on]_vars

\* Tunnels returns its rows "sorted for stable display": two rows of different
\* name or port do not trade places when what the table is sorted on has not
\* changed, whatever else a snapshot brings.  Rows that agree in both do.
Unmoved(row, new) == row.key = new.key /\ Value(row, sort) = Value(new, sort)

OrderIsStable ==
  [][\A i, j \in DOMAIN rows : \A m, n \in DOMAIN rows' :
       /\ sort' = sort /\ i < j
       /\ Unmoved(rows[i], rows'[m]) /\ Unmoved(rows[j], rows'[n])
       /\ Rank[rows[i].key] # Rank[rows[j].key]
       => m < n]_vars

\* The screen comes to show the engine as it is, the user's choices included:
\* when no more changes come, the table is true for good, in spite of a snapshot
\* in flight that was older than the last key, and of an open prompt.
Truth == {Row(k) : k \in listed}
ScreenComesTrue == <>[](running => {snap[i] : i \in DOMAIN snap} = Truth)
=============================================================================
