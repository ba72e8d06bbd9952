-------------------------- MODULE DashboardProofs --------------------------
(***************************************************************************)
(* Proofs about Dashboard for any tunnels, any filter and any number of    *)
(* changes.                                                                *)
(***************************************************************************)
EXTENDS Dashboard, TLAPS, FiniteSetTheorems

-----------------------------------------------------------------------------
(* What a snapshot is, and the table: rows with a key each.                *)

RowSet == [key : Keys, on : BOOLEAN, paused : BOOLEAN, busy : BOOLEAN]
Modes == {"name", "local", "traffic", "remote"}

OneRowEach(s) == \A i, j \in DOMAIN s : s[i].key = s[j].key => i = j

IsTable(s) == (\E n \in Nat : s \in [1..n -> RowSet]) /\ OneRowEach(s)

LEMMA TableIsASequence ==
  ASSUME NEW s, IsTable(s)
  PROVE  /\ s \in Seq(RowSet) /\ Len(s) \in Nat /\ DOMAIN s = 1..Len(s)
         /\ s \in [1..Len(s) -> RowSet]
         /\ s # <<>> <=> Len(s) > 0
<1>1. PICK n \in Nat : s \in [1..n -> RowSet]
  BY DEF IsTable
<1>2. s \in Seq(RowSet) /\ Len(s) = n /\ DOMAIN s = 1..n
  BY <1>1
<1> QED
  BY <1>1, <1>2

LEMMA ValueType ==
  ASSUME NEW row \in RowSet, NEW mode \in Modes
  PROVE  Value(row, mode) \in Nat /\ Rank[row.key] \in Nat
<1>1. row.key \in Keys
  BY DEF RowSet
<1>2. Rank[row.key] \in Nat /\ LocalPort[row.key] \in Nat /\ RemoteKey[row.key] \in Nat
  BY <1>1, KeysAssumption
<1> QED
  BY <1>2 DEF Value, Modes

-----------------------------------------------------------------------------
(* SortRows places each row that is shown once, in the order of Before.    *)

\* Before is a strict total order of the indices of a snapshot.
LEMMA BeforeIsAnOrder ==
  ASSUME NEW n \in Nat, NEW s \in [1..n -> RowSet], NEW mode \in Modes,
         NEW i \in 1..n, NEW j \in 1..n, NEW k \in 1..n
  PROVE  /\ ~Before(s, i, i, mode)
         /\ Before(s, i, j, mode) /\ Before(s, j, k, mode) => Before(s, i, k, mode)
         /\ i # j => Before(s, i, j, mode) \/ Before(s, j, i, mode)
<1>1. /\ Value(s[i], mode) \in Nat /\ Rank[s[i].key] \in Nat
      /\ Value(s[j], mode) \in Nat /\ Rank[s[j].key] \in Nat
      /\ Value(s[k], mode) \in Nat /\ Rank[s[k].key] \in Nat
  BY ValueType
<1> QED
  BY <1>1 DEF Before

LEMMA FiniteIndices ==
  ASSUME NEW n \in Nat, NEW shown \in SUBSET (1..n)
  PROVE  IsFiniteSet(shown)
<1>1. IsFiniteSet(1..n)
  BY 1 \in Int, n \in Int, FS_Interval
<1> QED
  BY <1>1, FS_Subset

PlacesAreInOrder(s, shown, mode) ==
  \A i, j \in shown :
    /\ Place(s, shown, i, mode) \in 0..(Cardinality(shown) - 1)
    /\ Before(s, i, j, mode) => Place(s, shown, i, mode) < Place(s, shown, j, mode)
    /\ Place(s, shown, i, mode) = Place(s, shown, j, mode) => i = j

LEMMA PlacesDiffer ==
  ASSUME NEW n \in Nat, NEW s \in [1..n -> RowSet], NEW mode \in Modes,
         NEW shown \in SUBSET (1..n)
  PROVE  PlacesAreInOrder(s, shown, mode)
<1> SUFFICES ASSUME NEW i \in shown, NEW j \in shown
             PROVE  /\ Place(s, shown, i, mode) \in 0..(Cardinality(shown) - 1)
                    /\ Before(s, i, j, mode) =>
                         Place(s, shown, i, mode) < Place(s, shown, j, mode)
                    /\ Place(s, shown, i, mode) = Place(s, shown, j, mode) => i = j
  BY DEF PlacesAreInOrder
<1> DEFINE Prior(k) == {l \in shown : Before(s, l, k, mode)}
<1>1. IsFiniteSet(shown)
  BY FiniteIndices
<1>2. ASSUME NEW k \in shown
      PROVE  /\ IsFiniteSet(Prior(k)) /\ Cardinality(Prior(k)) \in Nat
             /\ Cardinality(Prior(k)) < Cardinality(shown)
  <2>1. Prior(k) \subseteq shown /\ k \in shown \ Prior(k)
    BY BeforeIsAnOrder
  <2> HIDE DEF Prior
  <2> QED
    BY <1>1, <2>1, FS_Subset, FS_CardinalityType
<1>3. ASSUME Before(s, i, j, mode)
      PROVE  Cardinality(Prior(i)) < Cardinality(Prior(j))
  <2>1. Prior(i) \subseteq Prior(j) /\ i \in Prior(j) \ Prior(i)
    BY <1>3, BeforeIsAnOrder
  <2>2. IsFiniteSet(Prior(i)) /\ IsFiniteSet(Prior(j))
    BY <1>2
  <2> HIDE DEF Prior
  <2> QED
    BY <2>1, <2>2, FS_Subset, FS_CardinalityType
<1>4. Cardinality(shown) \in Nat
  BY <1>1, FS_CardinalityType
<1>5. /\ Place(s, shown, i, mode) = Cardinality(Prior(i))
      /\ Place(s, shown, j, mode) = Cardinality(Prior(j))
  BY DEF Place
<1>6. ASSUME Before(s, j, i, mode)
      PROVE  Cardinality(Prior(j)) < Cardinality(Prior(i))
  <2>1. Prior(j) \subseteq Prior(i) /\ j \in Prior(i) \ Prior(j)
    BY <1>6, BeforeIsAnOrder
  <2>2. IsFiniteSet(Prior(i)) /\ IsFiniteSet(Prior(j))
    BY <1>2
  <2> HIDE DEF Prior
  <2> QED
    BY <2>1, <2>2, FS_Subset, FS_CardinalityType
<1>7. i # j => Before(s, i, j, mode) \/ Before(s, j, i, mode)
  BY BeforeIsAnOrder
<1> HIDE DEF Prior
<1> QED
  BY <1>2, <1>3, <1>4, <1>5, <1>6, <1>7

\* Every place is taken, by one row.
LEMMA PlacesAreTaken ==
  ASSUME NEW n \in Nat, NEW s \in [1..n -> RowSet], NEW mode \in Modes,
         NEW shown \in SUBSET (1..n)
  PROVE  /\ Cardinality(shown) \in Nat
         /\ \A p \in 0..(Cardinality(shown) - 1) :
              \E i \in shown : Place(s, shown, i, mode) = p
<1> DEFINE T == 0..(Cardinality(shown) - 1)
           place == [i \in shown |-> Place(s, shown, i, mode)]
<1>a. PlacesAreInOrder(s, shown, mode)
  BY PlacesDiffer
<1> USE DEF PlacesAreInOrder
<1>1. IsFiniteSet(shown)
  BY FiniteIndices
<1>2. Cardinality(shown) \in Nat
  BY <1>1, FS_CardinalityType
<1>3. IsFiniteSet(T) /\ Cardinality(T) = Cardinality(shown)
  <2>1. 0 \in Int /\ Cardinality(shown) - 1 \in Int
    BY <1>2
  <2>2. /\ IsFiniteSet(T)
        /\ Cardinality(T) = IF 0 > Cardinality(shown) - 1 THEN 0
                            ELSE (Cardinality(shown) - 1) - 0 + 1
    BY <2>1, FS_Interval
  <2> QED
    BY <1>2, <2>2
<1>4. place \in [shown -> T]
  BY <1>a
<1>5. ASSUME NEW i \in shown, NEW j \in shown, place[i] = place[j] PROVE i = j
  <2>1. Place(s, shown, i, mode) = Place(s, shown, j, mode)
    BY <1>5
  <2> QED
    BY <2>1, <1>a
<1>6. place \in Injection(shown, T)
  BY <1>4, <1>5 DEF Injection, IsInjective
<1>7. place \in Surjection(shown, T)
  <2> HIDE DEF place, T
  <2> QED
    BY <1>3, <1>6, FS_Injection
<1>8. ASSUME NEW p \in T PROVE \E i \in shown : Place(s, shown, i, mode) = p
  BY <1>7 DEF Surjection
<1> QED
  BY <1>2, <1>8

\* The table: which index of the snapshot each of its rows is.
SortedAs(v, s, shown, mode) ==
  \E at \in [1..Cardinality(shown) -> shown] :
    /\ v = [m \in 1..Cardinality(shown) |-> s[at[m]]]
    /\ \A i \in shown : \E m \in 1..Cardinality(shown) : at[m] = i
    /\ \A l, m \in 1..Cardinality(shown) : l < m => Before(s, at[l], at[m], mode)

LEMMA Sorted ==
  ASSUME NEW n \in Nat, NEW s \in [1..n -> RowSet], NEW mode \in Modes,
         NEW shown \in SUBSET (1..n)
  PROVE  /\ Cardinality(shown) \in Nat
         /\ SortedAs(SortRows(s, shown, mode), s, shown, mode)
<1> DEFINE N == Cardinality(shown)
           at == [m \in 1..N |-> CHOOSE i \in shown : Place(s, shown, i, mode) = m - 1]
<1>a. PlacesAreInOrder(s, shown, mode)
  BY PlacesDiffer
<1> USE DEF PlacesAreInOrder
<1>1. N \in Nat
  BY PlacesAreTaken
<1>2. ASSUME NEW m \in 1..N
      PROVE  at[m] \in shown /\ Place(s, shown, at[m], mode) = m - 1
  <2>1. m - 1 \in 0..(N - 1)
    BY <1>1
  <2>2. \E i \in shown : Place(s, shown, i, mode) = m - 1
    BY <2>1, PlacesAreTaken
  <2> QED
    BY <2>2
<1>3. SortRows(s, shown, mode) = [m \in 1..N |-> s[at[m]]]
  BY DEF SortRows
<1> HIDE DEF at
<1>4. at \in [1..N -> shown]
  BY <1>2 DEF at
<1>5. ASSUME NEW l \in 1..N, NEW m \in 1..N, l < m
      PROVE  Before(s, at[l], at[m], mode)
  <2>1. /\ Place(s, shown, at[l], mode) = l - 1 /\ at[l] \in shown
        /\ Place(s, shown, at[m], mode) = m - 1 /\ at[m] \in shown
    BY <1>2
  <2>2. at[l] # at[m]
    BY <1>1, <1>5, <2>1
  <2>3. ~Before(s, at[m], at[l], mode)
    <3>1. ~(m - 1 < l - 1)
      BY <1>1, <1>5
    <3> QED
      BY <2>1, <3>1, <1>a
  <2> QED
    BY <2>1, <2>2, <2>3, BeforeIsAnOrder
<1>6. ASSUME NEW i \in shown PROVE \E m \in 1..N : at[m] = i
  <2> DEFINE m == Place(s, shown, i, mode) + 1
  <2>1. m \in 1..N /\ m - 1 = Place(s, shown, i, mode)
    <3>1. Place(s, shown, i, mode) \in 0..(N - 1)
      BY <1>a
    <3> HIDE DEF N
    <3> QED
      BY <1>1, <3>1
  <2>2. Place(s, shown, at[m], mode) = Place(s, shown, i, mode) /\ at[m] \in shown
    BY <1>2, <2>1
  <2>3. at[m] = i
    BY <2>2, <1>a
  <2> QED
    BY <2>1, <2>3
<1> QED
  BY <1>1, <1>3, <1>4, <1>5, <1>6 DEF SortedAs
-----------------------------------------------------------------------------
(* refresh.                                                                *)

Shown(v) == {v[i] : i \in DOMAIN v}

InOrder(v, mode) ==
  \A l, m \in DOMAIN v : l < m =>
    \/ Value(v[l], mode) < Value(v[m], mode)
    \/ /\ Value(v[l], mode) = Value(v[m], mode)
       /\ Rank[v[l].key] =< Rank[v[m].key]

LEMMA ViewOfATable ==
  ASSUME NEW s, IsTable(s), NEW mode \in Modes, NEW src, NEW on, NEW text
  PROVE  /\ IsTable(View(s, mode, src, on, text))
         /\ Shown(View(s, mode, src, on, text)) =
              {row \in Shown(s) : Visible(row, src, on, text)}
         /\ InOrder(View(s, mode, src, on, text), mode)
<1> DEFINE n == Len(s)
           shown == {i \in DOMAIN s : Visible(s[i], src, on, text)}
           N == Cardinality(shown)
           v == View(s, mode, src, on, text)
<1>1. n \in Nat /\ DOMAIN s = 1..n /\ s \in [1..n -> RowSet]
  BY TableIsASequence
<1>2. shown \in SUBSET (1..n)
  BY <1>1
<1>3. v = SortRows(s, shown, mode)
  BY DEF View
<1>4. ASSUME NEW i \in shown PROVE i \in 1..n /\ s[i] \in RowSet
  BY <1>1
<1>s. \A i \in 1..n : i \in shown <=> Visible(s[i], src, on, text)
  BY <1>1
<1> HIDE DEF n, shown, v
<1>5. N \in Nat /\ SortedAs(SortRows(s, shown, mode), s, shown, mode)
  BY <1>1, <1>2, Sorted
<1>6. PICK at \in [1..N -> shown] :
        /\ v = [m \in 1..N |-> s[at[m]]]
        /\ \A i \in shown : \E m \in 1..N : at[m] = i
        /\ \A l, m \in 1..N : l < m => Before(s, at[l], at[m], mode)
  BY <1>3, <1>5 DEF SortedAs
<1> HIDE DEF N
<1>7. DOMAIN v = 1..N /\ \A m \in 1..N : at[m] \in shown /\ v[m] = s[at[m]]
  BY <1>6
<1>8. v \in [1..N -> RowSet]
  BY <1>4, <1>6, <1>7
<1>9. InOrder(v, mode)
  <2> SUFFICES ASSUME NEW l \in 1..N, NEW m \in 1..N, l < m
               PROVE  \/ Value(v[l], mode) < Value(v[m], mode)
                      \/ /\ Value(v[l], mode) = Value(v[m], mode)
                         /\ Rank[v[l].key] =< Rank[v[m].key]
    BY <1>7 DEF InOrder
  <2>1. Before(s, at[l], at[m], mode)
    BY <1>6
  <2>2. /\ Value(v[l], mode) = Value(s[at[l]], mode)
        /\ Value(v[m], mode) = Value(s[at[m]], mode)
        /\ Rank[v[l].key] = Rank[s[at[l]].key] /\ Rank[v[m].key] = Rank[s[at[m]].key]
    BY <1>7
  <2>3. Rank[v[l].key] \in Nat /\ Rank[v[m].key] \in Nat
    BY <1>8, ValueType
  <2> QED
    BY <2>1, <2>2, <2>3 DEF Before
<1>10. OneRowEach(v)
  <2> SUFFICES ASSUME NEW l \in 1..N, NEW m \in 1..N, v[l].key = v[m].key, l < m
               PROVE  FALSE
    BY <1>5, <1>7 DEF OneRowEach
  <2>1. at[l] \in 1..n /\ at[m] \in 1..n /\ s[at[l]].key = s[at[m]].key
    BY <1>4, <1>7
  <2>2. at[l] = at[m]
    BY <1>1, <2>1 DEF IsTable, OneRowEach
  <2>3. Before(s, at[l], at[l], mode)
    BY <1>6, <2>2
  <2> QED
    BY <1>1, <2>1, <2>3, BeforeIsAnOrder
<1>11. Shown(v) = {row \in Shown(s) : Visible(row, src, on, text)}
  <2>1. ASSUME NEW r \in Shown(v)
        PROVE  r \in Shown(s) /\ Visible(r, src, on, text)
    <3>1. PICK m \in 1..N : r = v[m]
      BY <1>7, <2>1 DEF Shown
    <3>2. r = s[at[m]] /\ at[m] \in shown /\ at[m] \in 1..n
      BY <1>4, <1>7, <3>1
    <3> QED
      BY <1>1, <1>s, <3>2 DEF Shown
  <2>2. ASSUME NEW r \in Shown(s), Visible(r, src, on, text)
        PROVE  r \in Shown(v)
    <3>1. PICK i \in 1..n : r = s[i]
      BY <1>1, <2>2 DEF Shown
    <3>2. i \in shown
      BY <1>s, <2>2, <3>1
    <3>3. PICK m \in 1..N : at[m] = i
      BY <1>6, <3>2
    <3> QED
      BY <1>7, <3>1, <3>3 DEF Shown
  <2> QED
    BY <2>1, <2>2
<1>12. IsTable(v)
  BY <1>5, <1>8, <1>10 DEF IsTable, N
<1> QED
  BY <1>9, <1>11, <1>12 DEF v

\* The cursor is on a row of the table, or first where there is none.
CursorOn(t, c) == IF t = <<>> THEN c = 1 ELSE c \in DOMAIN t

LEMMA CursorStays ==
  ASSUME IsTable(rows), CursorOn(rows, cursor), NEW t, IsTable(t)
  PROVE  /\ CursorOn(t, CursorIn(t))
         /\ \A k \in Selected : At(t, k) # {} =>
              CursorIn(t) \in DOMAIN t /\ t[CursorIn(t)].key = k
<1> DEFINE same == UNION {At(t, k) : k \in Selected}
<1>1. DOMAIN t = 1..Len(t) /\ Len(t) \in Nat /\ (t # <<>> <=> Len(t) > 0)
  BY TableIsASequence
<1>2. \A k : \A i, j \in At(t, k) : i = j
  BY DEF At, IsTable, OneRowEach
<1>3. Selected = {} \/ \E k : Selected = {k}
  BY DEF Selected
<1>4. CASE same = {}
  <2>1. CursorIn(t) = 1
    BY <1>4 DEF CursorIn
  <2>2. \A k \in Selected : At(t, k) = {}
    BY <1>4
  <2> QED
    BY <1>1, <2>1, <2>2 DEF CursorOn
<1>5. CASE same # {}
  <2>1. PICK k : Selected = {k} /\ same = At(t, k)
    BY <1>3, <1>5
  <2>2. PICK i \in At(t, k) : same = {i}
    BY <1>2, <1>5, <2>1
  <2>3. i \in DOMAIN t /\ t[i].key = k
    BY DEF At
  <2>4. CursorIn(t) = CHOOSE l \in same : \A j \in same : l =< j
    BY <1>5 DEF CursorIn
  <2> HIDE DEF same
  <2>5. i =< i
    BY <1>1, <2>3
  <2>6. \E l \in same : \A j \in same : l =< j
    BY <2>2, <2>5
  <2>7. CursorIn(t) = i
    BY <2>2, <2>4, <2>6
  <2>8. t # <<>>
    BY <1>1, <2>3
  <2> QED
    BY <2>1, <2>3, <2>7, <2>8 DEF CursorOn
<1> QED
  BY <1>4, <1>5
-----------------------------------------------------------------------------
(* The invariant: snapshots in flight, taken and shown are tables, and the *)
(* screen is what the settings make of the snapshot.                       *)

TableInv ==
  /\ listed \subseteq Keys
  /\ flight = NoSnapshot \/ IsTable(flight)
  /\ IsTable(snap) /\ IsTable(rows)
  /\ \E i \in DOMAIN SortModes : sort = SortModes[i]

ScreenInv ==
  /\ ~editing => Shown(rows) = {row \in Shown(snap) : Shows(row)}
  /\ InOrder(rows, sort)
  /\ CursorOn(rows, cursor)

Inv == TableInv /\ ScreenInv

LEMMA SortIsAMode == ASSUME TableInv PROVE sort \in Modes
BY SortAssumption DEF TableInv, Modes

LEMMA RowsOfTheEngine ==
  ASSUME NEW k \in Keys
  PROVE  Row(k) \in RowSet /\ Row(k).key = k
<1>1. Enabled(k) \in BOOLEAN
  BY Zenon DEF Enabled
<1>2. (k \in paused) \in BOOLEAN /\ (k \in busy) \in BOOLEAN
  OBVIOUS
<1> QED
  BY <1>1, <1>2 DEF Row, RowSet

LEMMA SnapshotsAreTables ==
  ASSUME TableInv, NEW s \in Snapshots
  PROVE  IsTable(s)
<1>1. IsFiniteSet(listed) /\ \A k \in listed : k \in Keys
  BY KeysAssumption, FS_Subset DEF TableInv
<1>2. Cardinality(listed) \in Nat
  BY <1>1, FS_CardinalityType
<1> DEFINE n == Cardinality(listed)
<1>3. s \in [1..n -> {Row(k) : k \in listed}]
      /\ \A i, j \in DOMAIN s : s[i] = s[j] => i = j
  BY DEF Snapshots
<1> HIDE DEF n
<1>4. DOMAIN s = 1..n /\ \A i \in 1..n : \E k \in listed : s[i] = Row(k)
  BY <1>3
<1>5. \A i \in 1..n : s[i] \in RowSet /\ s[i] = Row(s[i].key)
  BY <1>1, <1>4, RowsOfTheEngine
<1>6. s \in [1..n -> RowSet]
  BY <1>3, <1>5
<1>7. OneRowEach(s)
  BY <1>3, <1>4, <1>5 DEF OneRowEach
<1> QED
  BY <1>2, <1>6, <1>7 DEF IsTable, n

LEMMA EmptyTable == IsTable(<<>>)
<1>1. <<>> \in [1..0 -> RowSet]
  OBVIOUS
<1>2. OneRowEach(<<>>)
  BY DEF OneRowEach
<1> QED
  BY <1>1, <1>2 DEF IsTable

LEMMA InitInv == Init => Inv
<1> SUFFICES ASSUME Init PROVE Inv
  OBVIOUS
<1>1. TableInv
  BY EmptyTable, KeysAssumption DEF Init, TableInv
<1>2. ScreenInv
  BY DEF Init, ScreenInv, Shown, InOrder, CursorOn
<1> QED
  BY <1>1, <1>2 DEF Inv

LEMMA RefreshInv ==
  ASSUME Inv, IsTable(snap'), sort' \in Modes, Refresh
  PROVE  /\ IsTable(rows') /\ ScreenInv'
         /\ \A k \in Selected : At(rows', k) # {} =>
              cursor' \in DOMAIN rows' /\ rows'[cursor'].key = k
<1> DEFINE v == View(snap', sort', source', onlyOn', filter')
<1>1. rows' = v /\ cursor' = CursorIn(v)
  BY DEF Refresh
<1>2. /\ IsTable(v)
      /\ Shown(v) = {row \in Shown(snap') : Visible(row, source', onlyOn', filter')}
      /\ InOrder(v, sort')
  BY ViewOfATable
<1> HIDE DEF v
<1>3. /\ CursorOn(v, CursorIn(v))
      /\ \A k \in Selected : At(v, k) # {} =>
           CursorIn(v) \in DOMAIN v /\ v[CursorIn(v)].key = k
  BY <1>2, CursorStays DEF Inv, TableInv, ScreenInv
<1>4. ScreenInv'
  BY <1>1, <1>2, <1>3 DEF ScreenInv, Shown, Shows, InOrder, CursorOn
<1> QED
  BY <1>1, <1>2, <1>3, <1>4

LEMMA NextMode ==
  ASSUME TableInv
  PROVE  \E i \in DOMAIN SortModes : Following(SortModes, sort) = SortModes[i]
<1> DEFINE n == Len(SortModes)
           i == CHOOSE j \in DOMAIN SortModes : SortModes[j] = sort
<1>1. n \in Nat \ {0} /\ DOMAIN SortModes = 1..n
  BY SortAssumption
<1>2. i \in 1..n
  BY <1>1 DEF TableInv
<1>3. Following(SortModes, sort) = SortModes[(i % n) + 1]
  BY DEF Following
<1> HIDE DEF i, n
<1>4. (i % n) + 1 \in 1..n
  BY <1>1, <1>2
<1> QED
  BY <1>1, <1>3, <1>4

\* The actions that make the table anew, and those that leave what it is.
Refreshes == SnapshotMsg \/ Setting \/ FilterKey
Leaves == UNCHANGED <<snap, rows, cursor, sort, source, onlyOn, filter, editing>>

LEMMA StepOfARefresh ==
  ASSUME Inv, Refreshes
  PROVE  /\ TableInv' /\ ScreenInv'
         /\ \A k \in Selected : At(rows', k) # {} =>
              cursor' \in DOMAIN rows' /\ rows'[cursor'].key = k
<1>1. CASE SnapshotMsg
  <2>1. /\ Refresh /\ flight # NoSnapshot /\ snap' = flight
        /\ flight' = NoSnapshot /\ sort' = sort /\ listed' = listed
    BY <1>1 DEF SnapshotMsg, settingVars, engineVars
  <2>2. IsTable(snap') /\ sort' \in Modes
    BY <2>1, SortIsAMode DEF Inv, TableInv
  <2>3. /\ IsTable(rows') /\ ScreenInv'
        /\ \A k \in Selected : At(rows', k) # {} =>
             cursor' \in DOMAIN rows' /\ rows'[cursor'].key = k
    BY <2>1, <2>2, RefreshInv
  <2>4. TableInv'
    BY <2>1, <2>2, <2>3 DEF Inv, TableInv
  <2> QED
    BY <2>3, <2>4
<1>2. CASE Setting \/ FilterKey
  <2>1. Refresh /\ UNCHANGED <<snap, flight, listed>>
    BY <1>2 DEF Setting, FilterKey, engineVars
  <2>2. sort' = sort \/ sort' = Following(SortModes, sort)
    BY <1>2 DEF Setting, FilterKey
  <2>3. \E i \in DOMAIN SortModes : sort' = SortModes[i]
    BY <2>2, NextMode DEF Inv, TableInv
  <2>4. sort' \in Modes
    BY <2>3, SortAssumption DEF Modes
  <2>5. IsTable(snap')
    BY <2>1 DEF Inv, TableInv
  <2>6. /\ IsTable(rows') /\ ScreenInv'
        /\ \A k \in Selected : At(rows', k) # {} =>
             cursor' \in DOMAIN rows' /\ rows'[cursor'].key = k
    BY <2>1, <2>4, <2>5, RefreshInv
  <2>7. TableInv'
    BY <2>1, <2>3, <2>6 DEF Inv, TableInv
  <2> QED
    BY <2>6, <2>7
<1> QED
  BY <1>1, <1>2 DEF Refreshes

LEMMA StepsThatLeave ==
  ASSUME FeedTakes \/ ToggleEnabled \/ ToggleAllVisible \/ TogglePause \/ Quit
         \/ EngineChanges \/ UNCHANGED vars
  PROVE  Leaves
BY DEF FeedTakes, ToggleEnabled, ToggleAllVisible, Choose, TogglePause, Quit,
       EngineChanges, Leaves, vars, tableVars, settingVars

LEMMA StepInv == Inv /\ [Next]_vars => Inv'
<1> SUFFICES ASSUME Inv, [Next]_vars PROVE Inv'
  OBVIOUS
<1>1. CASE Refreshes
  BY <1>1, StepOfARefresh DEF Inv
<1>2. ASSUME Leaves PROVE ScreenInv'
  BY <1>2 DEF Leaves, Inv, ScreenInv, Shown, Shows, InOrder
<1>3. CASE FeedTakes
  <2>1. flight' \in Snapshots /\ UNCHANGED <<listed, snap, rows, sort>>
    BY <1>3 DEF FeedTakes, engineVars, tableVars, settingVars
  <2>2. IsTable(flight')
    BY <2>1, SnapshotsAreTables DEF Inv
  <2>3. TableInv'
    BY <2>1, <2>2 DEF Inv, TableInv
  <2> QED
    BY <1>2, <1>3, <2>3, StepsThatLeave DEF Inv
<1>4. CASE Move
  <2>1. UNCHANGED <<listed, flight, snap, rows, sort, source, onlyOn, filter, editing>>
    BY <1>4 DEF Move, engineVars, settingVars
  <2>2. TableInv'
    BY <2>1 DEF Inv, TableInv
  <2>3. CursorOn(rows, cursor')
    <3>1. /\ DOMAIN rows = 1..Len(rows) /\ Len(rows) \in Nat
          /\ rows # <<>> <=> Len(rows) > 0
      BY TableIsASequence DEF Inv, TableInv
    <3>2. CursorOn(rows, cursor)
      BY DEF Inv, ScreenInv
    <3>3. cursor' \in {IF cursor > 1 THEN cursor - 1 ELSE cursor,
                       IF cursor < Len(rows) THEN cursor + 1 ELSE cursor,
                       1, IF rows = <<>> THEN 1 ELSE Len(rows)}
      BY <1>4 DEF Move
    <3>4. CASE rows = <<>>
      BY <3>1, <3>2, <3>3, <3>4 DEF CursorOn
    <3>5. CASE rows # <<>>
      BY <3>1, <3>2, <3>3, <3>5 DEF CursorOn
    <3> QED
      BY <3>4, <3>5
  <2>4. ScreenInv'
    BY <2>1, <2>3 DEF Inv, ScreenInv, Shown, Shows, InOrder, CursorOn
  <2> QED
    BY <2>2, <2>4 DEF Inv
<1>5. CASE OpenPrompt
  <2>1. editing' = TRUE /\ UNCHANGED <<listed, flight, snap, rows, cursor, sort>>
    BY <1>5 DEF OpenPrompt, engineVars, tableVars
  <2> QED
    BY <2>1 DEF Inv, TableInv, ScreenInv, InOrder, CursorOn
<1>6. CASE EngineChanges
  <2>1. UNCHANGED <<flight, snap, rows, sort>> /\ listed' \subseteq Keys
    BY <1>6 DEF EngineChanges, tableVars, settingVars, Inv, TableInv
  <2>2. TableInv'
    BY <2>1 DEF Inv, TableInv
  <2> QED
    BY <1>2, <1>6, <2>2, StepsThatLeave DEF Inv
<1>7. CASE ToggleEnabled \/ ToggleAllVisible \/ TogglePause \/ Quit \/ UNCHANGED vars
  <2>1. UNCHANGED <<listed, flight, snap, rows, sort>>
    BY <1>7 DEF ToggleEnabled, ToggleAllVisible, Choose, TogglePause, Quit, vars,
       engineVars, tableVars, settingVars
  <2>2. TableInv'
    BY <2>1 DEF Inv, TableInv
  <2> QED
    BY <1>2, <1>7, <2>2, StepsThatLeave DEF Inv
<1> QED
  BY <1>1, <1>3, <1>4, <1>5, <1>6, <1>7 DEF Next, Refreshes

\* Every snapshot and the table hold a tunnel once, and the screen is what the
\* settings make of the snapshot.
THEOREM InvHolds == Spec => []Inv
<1> QED
  BY InitInv, StepInv, PTL DEF Spec

-----------------------------------------------------------------------------
(* The screen, the cursor and the keys.                                    *)

\* However many rows fit the window, the cursor is in it.
LEMMA CursorIsInTheWindow ==
  ASSUME Inv, rows # <<>>, NEW fits \in Nat \ {0}
  PROVE  cursor \in WindowStart(fits)..WindowEnd(fits)
<1>1. Len(rows) \in Nat /\ cursor \in 1..Len(rows)
  BY TableIsASequence DEF Inv, TableInv, ScreenInv, CursorOn
<1> QED
  BY <1>1 DEF WindowStart, WindowEnd

\* The table shows the rows of the snapshot that pass the filters, each once and
\* in order, and the cursor is on one that is visible.
THEOREM ScreenHolds == Spec => []ScreenIsConsistent
<1>1. Inv => ScreenIsConsistent
  <2> SUFFICES ASSUME Inv PROVE ScreenIsConsistent
    OBVIOUS
  <2>1. ~editing => {rows[i] : i \in DOMAIN rows} =
                     {row \in {snap[i] : i \in DOMAIN snap} : Shows(row)}
    BY DEF Inv, ScreenInv, Shown
  <2>2. \A i, j \in DOMAIN rows : i < j => Value(rows[i], sort) =< Value(rows[j], sort)
    <3>1. \A i \in DOMAIN rows : Value(rows[i], sort) \in Nat
      <4>1. \A i \in DOMAIN rows : rows[i] \in RowSet
        BY DEF Inv, TableInv, IsTable
      <4> QED
        BY <4>1, ValueType, SortIsAMode DEF Inv
    <3> QED
      BY <3>1 DEF Inv, ScreenInv, InOrder
  <2>3. \A i, j \in DOMAIN rows : rows[i].key = rows[j].key => i = j
    BY DEF Inv, TableInv, IsTable, OneRowEach
  <2>4. Cardinality(Keys) \in Nat
    BY KeysAssumption, FS_CardinalityType
  <2>5. rows # <<>> => \A fits \in 1..(Cardinality(Keys) + 1) :
          cursor \in WindowStart(fits)..WindowEnd(fits)
    <3> SUFFICES ASSUME rows # <<>>, NEW fits \in 1..(Cardinality(Keys) + 1)
                 PROVE  cursor \in WindowStart(fits)..WindowEnd(fits)
      OBVIOUS
    <3>1. fits \in Nat \ {0}
      BY <2>4
    <3> QED
      BY <3>1, CursorIsInTheWindow
  <2> QED
    BY <2>1, <2>2, <2>3, <2>5 DEF ScreenIsConsistent
<1> QED
  BY <1>1, InvHolds, PTL

\* A step either makes the table anew, opens the prompt, moves, or leaves it.
LEMMA Steps ==
  [Next]_vars => Refreshes \/ OpenPrompt \/ Move \/ Leaves
BY StepsThatLeave DEF Next, Refreshes

\* Nothing but a movement key takes the cursor off a row that stays.
THEOREM CursorIsKept == Spec => CursorKeepsItsRow
<1> DEFINE Kept == ~Move => \A k \in Selected : At(rows', k) # {} => k \in Selected'
<1>1. Inv /\ [Next]_vars => [Kept]_vars
  <2> SUFFICES ASSUME Inv, [Next]_vars, ~Move, NEW k \in Selected, At(rows', k) # {}
               PROVE  k \in Selected'
    OBVIOUS
  <2>1. CASE Refreshes
    <3>1. cursor' \in DOMAIN rows' /\ rows'[cursor'].key = k
      BY <2>1, StepOfARefresh
    <3> QED
      BY <3>1 DEF Selected
  <2>2. CASE UNCHANGED <<rows, cursor>>
    BY <2>2 DEF Selected
  <2>3. CASE OpenPrompt
    BY <2>2, <2>3 DEF OpenPrompt, tableVars
  <2> QED
    BY <2>1, <2>2, <2>3, Steps DEF Leaves
<1> QED
  BY <1>1, InvHolds, PTL DEF Spec, CursorKeepsItsRow, Kept

\* Two rows that differ in name or port keep their order for as long as what the
\* table is sorted on stays the same.
THEOREM OrderHolds == Spec => OrderIsStable
<1> DEFINE Stable ==
      \A i, j \in DOMAIN rows : \A m, n \in DOMAIN rows' :
         /\ sort' = sort /\ i < j
         /\ Unmoved(rows[i], rows'[m]) /\ Unmoved(rows[j], rows'[n])
         /\ Rank[rows[i].key] # Rank[rows[j].key]
         => m < n
<1>1. Inv /\ Inv' => Stable
  <2> SUFFICES ASSUME Inv, Inv', sort' = sort,
                      NEW i \in DOMAIN rows, NEW j \in DOMAIN rows,
                      NEW m \in DOMAIN rows', NEW n \in DOMAIN rows', i < j,
                      Unmoved(rows[i], rows'[m]), Unmoved(rows[j], rows'[n]),
                      Rank[rows[i].key] # Rank[rows[j].key]
               PROVE  m < n
    OBVIOUS
  <2>1. IsTable(rows) /\ IsTable(rows') /\ sort \in Modes
    BY SortIsAMode DEF Inv, TableInv
  <2>2. /\ rows[i] \in RowSet /\ rows[j] \in RowSet /\ m \in Nat /\ n \in Nat
    BY <2>1, TableIsASequence
  <2>3. /\ Value(rows[i], sort) \in Nat /\ Rank[rows[i].key] \in Nat
        /\ Value(rows[j], sort) \in Nat /\ Rank[rows[j].key] \in Nat
    BY <2>1, <2>2, ValueType
  <2>4. \/ Value(rows[i], sort) < Value(rows[j], sort)
        \/ /\ Value(rows[i], sort) = Value(rows[j], sort)
           /\ Rank[rows[i].key] < Rank[rows[j].key]
    BY <2>3 DEF Inv, ScreenInv, InOrder
  <2>5. /\ Value(rows'[m], sort) = Value(rows[i], sort) /\ rows'[m].key = rows[i].key
        /\ Value(rows'[n], sort) = Value(rows[j], sort) /\ rows'[n].key = rows[j].key
    BY DEF Unmoved
  <2>6. n < m => \/ Value(rows'[n], sort) < Value(rows'[m], sort)
                 \/ /\ Value(rows'[n], sort) = Value(rows'[m], sort)
                    /\ Rank[rows'[n].key] =< Rank[rows'[m].key]
    BY DEF Inv, ScreenInv, InOrder
  <2>7. ~(n < m) /\ n # m
    BY <2>3, <2>4, <2>5, <2>6
  <2> QED
    BY <2>2, <2>7
<1>2. Inv /\ Inv' => [Stable]_vars
  BY <1>1
<1> QED
  BY <1>2, InvHolds, PTL DEF Spec, OrderIsStable, Stable

\* A key switches only rows the table shows, and off only when all of them are
\* on.
THEOREM KeysSwitchWhatIsShown == Spec => SwitchesOnlyWhatIsShown
<1> DEFINE Switched(k) ==
      /\ \E i \in DOMAIN snap : snap[i].key = k /\ Shows(snap[i])
      /\ \/ chosen'[k] = "on"
         \/ \A i \in At(rows, k) : rows[i].on
<1>1. Inv /\ [Next]_vars => [\A k \in Keys : chosen'[k] # chosen[k] => Switched(k)]_vars
  <2> SUFFICES ASSUME Inv, [Next]_vars, NEW k \in Keys, chosen'[k] # chosen[k]
               PROVE  Switched(k)
    OBVIOUS
  <2>0. ASSUME NEW i \in DOMAIN rows, rows[i].key = k, ~editing
        PROVE  \E j \in DOMAIN snap : snap[j].key = k /\ Shows(snap[j])
    <3>1. rows[i] \in {row \in Shown(snap) : Shows(row)}
      BY <2>0 DEF Inv, ScreenInv, Shown
    <3> QED
      BY <3>1, <2>0 DEF Shown
  <2>1. CASE ToggleEnabled
    <3>1. ~editing /\ cursor \in DOMAIN rows /\ Choose(Selected, ~rows[cursor].on)
      BY <2>1 DEF ToggleEnabled, Key
    <3>2. k \in Selected /\ chosen'[k] = IF ~rows[cursor].on THEN "on" ELSE "off"
      BY <3>1 DEF Choose
    <3>3. rows[cursor].key = k
      BY <3>2 DEF Selected
    <3>4. \A i \in At(rows, k) : i = cursor
      BY <3>1, <3>3 DEF At, Inv, TableInv, IsTable, OneRowEach
    <3>5. chosen'[k] = "on" \/ rows[cursor].on
      BY <3>2
    <3> QED
      BY <2>0, <3>1, <3>3, <3>4, <3>5
  <2>2. CASE ToggleAllVisible
    <3>1. ~editing /\ Choose(BulkKeys, BulkOn)
      BY <2>2 DEF ToggleAllVisible, Key
    <3>2. k \in BulkKeys /\ chosen'[k] = IF BulkOn THEN "on" ELSE "off"
      BY <3>1 DEF Choose
    <3>3. PICK i \in DOMAIN rows : rows[i].key = k
      BY <3>2 DEF BulkKeys
    <3>4. chosen'[k] = "on" \/ \A j \in At(rows, k) : rows[j].on
      BY <3>2 DEF BulkOn, At
    <3> QED
      BY <2>0, <3>1, <3>3, <3>4
  <2>3. CASE chosen' = chosen
    BY <2>3
  <2> QED
    BY <2>1, <2>2, <2>3 DEF Next, FeedTakes, SnapshotMsg, Move, TogglePause, Setting,
       OpenPrompt, FilterKey, Quit, EngineChanges, vars, engineVars
<1> QED
  BY <1>1, InvHolds, PTL DEF Spec, SwitchesOnlyWhatIsShown, Switched
=============================================================================
