-------------------------- MODULE DiscoveryProofs --------------------------
(***************************************************************************)
(* Proofs about Discovery for any containers, columns, sockets and         *)
(* declared forwards.                                                      *)
(***************************************************************************)
EXTENDS Discovery, TLAPS, WellFoundedInduction, SequenceTheorems

-----------------------------------------------------------------------------
(* Induction and recursion over 1..n, with the induction hypothesis a set. *)

LEMMA LeastOf ==
  ASSUME NEW S \in SUBSET Nat, NEW x \in S
  PROVE  \E m \in S : \A k \in S : m <= k
<1>1. PICK m \in S : \A y \in S : ~(<<y, m>> \in OpToRel(<, Nat))
  BY NatLessThanWellFounded, WFMin, Zenon
<1>2. \A y \in S : ~(y < m)
  BY <1>1 DEF OpToRel
<1> QED
  BY <1>2

LEMMA SetInduction ==
  ASSUME NEW S, 0 \in S, \A n \in Nat : n \in S => n + 1 \in S
  PROVE  Nat \subseteq S
<1> SUFFICES ASSUME NEW x \in Nat \ S PROVE FALSE
  OBVIOUS
<1>1. PICK m \in Nat \ S : \A k \in Nat \ S : m <= k
  BY LeastOf, Nat \ S \in SUBSET Nat, x \in Nat \ S
<1>2. m # 0 /\ m - 1 \in Nat /\ m - 1 \in S
  BY <1>1
<1> QED
  BY <1>1, <1>2

\* What a fold of s by op from e gives after each of its n steps.
FoldExists(T, e, n, op, s) ==
  \E f \in [0..n -> T] : f[0] = e /\ \A i \in 1..n : f[i] = op[f[i - 1]][s[i]]

\* The recursive functions of the model are such folds: they exist.
LEMMA Fold ==
  ASSUME NEW T, NEW U, NEW e \in T, NEW n \in Nat, NEW s \in [1..n -> U],
         NEW op \in [T -> [U -> T]]
  PROVE  FoldExists(T, e, n, op, s)
<1> DEFINE Good(m, f) == f[0] = e /\ \A i \in 1..m : f[i] = op[f[i - 1]][s[i]]
           Reached(m) == \E f \in [0..m -> T] : Good(m, f)
           S == {m \in Nat : m <= n => Reached(m)}
<1>1. 0 \in S
  <2>1. [i \in 0..0 |-> e] \in [0..0 -> T] /\ Good(0, [i \in 0..0 |-> e])
    OBVIOUS
  <2> QED
    BY <2>1
<1>2. ASSUME NEW m \in Nat, m \in S PROVE m + 1 \in S
  <2>0. SUFFICES ASSUME m + 1 <= n PROVE Reached(m + 1)
    <3> HIDE DEF Reached
    <3> QED
      OBVIOUS
  <2>a. Reached(m)
    <3> HIDE DEF Reached
    <3> QED
      BY <1>2, <2>0
  <2>1. PICK f \in [0..m -> T] : Good(m, f)
    BY <2>a
  <2> DEFINE g == [i \in 0..(m + 1) |-> IF i = m + 1 THEN op[f[m]][s[m + 1]] ELSE f[i]]
  <2>2. f[m] \in T /\ s[m + 1] \in U /\ op[f[m]][s[m + 1]] \in T
    BY <2>0
  <2>3. g \in [0..(m + 1) -> T]
    BY <2>2
  <2>4. g[0] = e
    BY <2>1
  <2>5. ASSUME NEW i \in 1..(m + 1) PROVE g[i] = op[g[i - 1]][s[i]]
    <3>1. CASE i = m + 1
      <4>1. g[i] = op[f[m]][s[m + 1]] /\ g[i - 1] = f[m]
        BY <3>1
      <4> QED
        BY <4>1, <3>1
    <3>2. CASE i \in 1..m
      <4>1. g[i] = f[i] /\ g[i - 1] = f[i - 1]
        BY <3>2
      <4>2. f[i] = op[f[i - 1]][s[i]]
        BY <2>1, <3>2
      <4> QED
        BY <4>1, <4>2
    <3> QED
      BY <3>1, <3>2
  <2>6. Good(m + 1, g)
    BY <2>4, <2>5
  <2> HIDE DEF g, Good
  <2> QED
    BY <2>3, <2>6
<1> HIDE DEF S
<1>3. n \in S
  BY <1>1, <1>2, SetInduction
<1>4. Reached(n)
  <2> HIDE DEF Reached
  <2> QED
    BY <1>3 DEF S
<1> QED
  BY <1>4 DEF FoldExists

\* FlattenSeq gives a sequence of exactly what the sequences hold.
LEMMA Flattened ==
  ASSUME NEW X, NEW n \in Nat, NEW seqs \in [1..n -> Seq(X)]
  PROVE  /\ FlattenSeq(seqs) \in Seq(X)
         /\ Range(FlattenSeq(seqs)) = UNION {Range(seqs[i]) : i \in 1..n}
<1>1. Len(seqs) = n /\ \A i \in 1..n : seqs[i] \in Seq(X)
  OBVIOUS
<1>2. CASE n = 0
  <2>1. seqs = <<>> /\ 1..n = {}
    BY <1>2
  <2>2. FlattenSeq(seqs) = <<>>
    BY <2>1 DEF FlattenSeq
  <2>3. Range(<<>>) = {}
    BY DEF Range
  <2> QED
    BY <2>1, <2>2, <2>3, EmptySeq
<1>3. CASE n # 0
  <2> DEFINE Eqn(f) == f = [i \in 1..n |-> IF i = 1 THEN seqs[i]
                                          ELSE f[i - 1] \o seqs[i]]
             flat == CHOOSE f : Eqn(f)
             cat == [t \in Seq(X) |-> [u \in Seq(X) |-> t \o u]]
  <2>1. FlattenSeq(seqs) = flat[n]
    BY <1>1, <1>3 DEF FlattenSeq
  <2>2. \E f : Eqn(f)
    <3>1. cat \in [Seq(X) -> [Seq(X) -> Seq(X)]] /\ <<>> \in Seq(X)
      OBVIOUS
    <3>2. PICK g \in [0..n -> Seq(X)] :
                 g[0] = <<>> /\ \A i \in 1..n : g[i] = cat[g[i - 1]][seqs[i]]
      <4> HIDE DEF cat
      <4>1. FoldExists(Seq(X), <<>>, n, cat, seqs)
        BY <3>1, Fold, Zenon
      <4> QED
        BY <4>1 DEF FoldExists
    <3>3. ASSUME NEW i \in 1..n PROVE g[i] = g[i - 1] \o seqs[i]
      <4>1. g[i - 1] \in Seq(X) /\ seqs[i] \in Seq(X)
        BY <1>1
      <4>2. cat[g[i - 1]][seqs[i]] = g[i - 1] \o seqs[i]
        BY <4>1
      <4> QED
        BY <4>2, <3>2
    <3> HIDE DEF cat
    <3>4. g[1] = seqs[1]
      <4>1. 1 \in 1..n /\ seqs[1] \in Seq(X)
        BY <1>1, <1>3
      <4>2. g[1] = g[1 - 1] \o seqs[1] /\ 1 - 1 = 0
        BY <3>3, <4>1
      <4>3. g[1] = <<>> \o seqs[1]
        BY <3>2, <4>2, Zenon
      <4> QED
        BY <4>1, <4>3, ConcatEmptySeq
    <3> DEFINE h == [i \in 1..n |-> g[i]]
    <3>5. ASSUME NEW i \in 1..n, i # 1 PROVE h[i - 1] = g[i - 1]
      BY <3>5
    <3>6. h = [i \in 1..n |-> IF i = 1 THEN seqs[i] ELSE g[i - 1] \o seqs[i]]
      BY <3>3, <3>4
    <3> HIDE DEF h
    <3>7. Eqn(h)
      BY <3>5, <3>6
    <3> QED
      BY <3>7
  <2>3. Eqn(flat)
    BY <2>2
  <2> HIDE DEF flat
  <2>a. \A i \in 1..n : flat[i] = IF i = 1 THEN seqs[i] ELSE flat[i - 1] \o seqs[i]
    BY <2>3, Zenon
  <2> DEFINE S == {i \in Nat : i \in 1..n =>
                     /\ flat[i] \in Seq(X)
                     /\ Range(flat[i]) = UNION {Range(seqs[j]) : j \in 1..i}}
  <2>4. 0 \in S
    OBVIOUS
  <2>5. ASSUME NEW i \in Nat, i \in S PROVE i + 1 \in S
    <3> SUFFICES ASSUME i + 1 \in 1..n
                 PROVE  /\ flat[i + 1] \in Seq(X)
                        /\ Range(flat[i + 1]) = UNION {Range(seqs[j]) : j \in 1..(i + 1)}
      OBVIOUS
    <3>1. CASE i = 0
      <4>1. flat[1] = seqs[1]
        BY <2>a, <3>1
      <4> QED
        BY <4>1, <3>1, <1>1
    <3>2. CASE i # 0
      <4>1. flat[i + 1] = flat[i] \o seqs[i + 1]
        <5>1. i + 1 \in 1..n /\ i + 1 # 1 /\ (i + 1) - 1 = i
          BY <3>2
        <5> QED
          BY <2>a, <5>1, Zenon
      <4>2. /\ flat[i] \in Seq(X) /\ seqs[i + 1] \in Seq(X)
            /\ Range(flat[i]) = UNION {Range(seqs[j]) : j \in 1..i}
        BY <2>5, <3>2, <1>1
      <4>3. flat[i + 1] \in Seq(X)
            /\ Range(flat[i + 1]) = Range(flat[i]) \cup Range(seqs[i + 1])
        BY <4>1, <4>2, RangeConcatenation
      <4>4. 1..(i + 1) = 1..i \cup {i + 1}
        BY <3>2
      <4> QED
        BY <4>2, <4>3, <4>4
    <3> QED
      BY <3>1, <3>2
  <2> HIDE DEF S
  <2>6. n \in S
    BY <2>4, <2>5, <1>1, SetInduction
  <2> QED
    BY <2>1, <2>6, <1>1, <1>3 DEF S
<1> QED
  BY <1>2, <1>3
-----------------------------------------------------------------------------
(* Parsing: what the loop of ParsePorts keeps is what wins.                *)

\* Mention k wins among the first i of m.
WinsUpTo(m, i, k) ==
  \A j \in 1..i : SamePort(m[k], m[j]) =>
    /\ j < k => IsPublished(m[k]) /\ ~IsPublished(m[j])
    /\ IsPublished(m[j]) => IsPublished(m[k])

Winners(m, i) == {m[k] : k \in {j \in 1..i : WinsUpTo(m, i, j)}}

LEMMA BestIsTheWinners ==
  ASSUME NEW X, NEW m \in Seq(X)
  PROVE  Best(m) = Winners(m, Len(m))
BY DEF Best, Wins, Rivals, Winners, WinsUpTo

\* Every port that is mentioned has a winner,
LEMMA HasWinner ==
  ASSUME NEW m, NEW i \in Nat, NEW k \in 1..i
  PROVE  \E w \in 1..i : SamePort(m[k], m[w]) /\ WinsUpTo(m, i, w)
<1> DEFINE R == {j \in 1..i : SamePort(m[k], m[j])}
           P == {j \in R : IsPublished(m[j])}
<1>1. CASE P = {}
  <2>1. k \in R /\ R \in SUBSET Nat
    BY DEF SamePort
  <2>2. PICK w \in R : \A j \in R : w <= j
    <3> HIDE DEF R
    <3> QED
      BY <2>1, LeastOf
  <2>3. WinsUpTo(m, i, w)
    BY <1>1, <2>2 DEF WinsUpTo, SamePort
  <2> QED
    BY <2>3
<1>2. CASE P # {}
  <2>1. PICK p : p \in P
    BY <1>2
  <2>2. PICK w \in P : \A j \in P : w <= j
    <3>1. P \in SUBSET Nat
      OBVIOUS
    <3> HIDE DEF P
    <3> QED
      BY <2>1, <3>1, LeastOf
  <2>3. WinsUpTo(m, i, w)
    BY <2>2 DEF WinsUpTo, SamePort
  <2> QED
    BY <2>3
<1> QED
  BY <1>1, <1>2

\* and only one.
LEMMA OneWinner ==
  ASSUME NEW m, NEW i \in Nat, NEW v \in 1..i, NEW w \in 1..i,
         WinsUpTo(m, i, v), WinsUpTo(m, i, w), SamePort(m[v], m[w])
  PROVE  v = w
<1>1. SamePort(m[w], m[v])
  BY DEF SamePort
<1>2. ~(v < w) /\ ~(w < v)
  BY <1>1 DEF WinsUpTo
<1> QED
  BY <1>2

\* One more mention makes of the winners what Collapse makes of them.
LEMMA CollapseAddsAMention ==
  ASSUME NEW m, NEW i \in Nat
  PROVE  Collapse(Winners(m, i), m[i + 1]) = Winners(m, i + 1)
<1> DEFINE s == m[i + 1]
           W == Winners(m, i)
           same == {t \in W : SamePort(s, t)}
<1>w. \A k \in 1..i : WinsUpTo(m, i, k) => m[k] \in W
  BY DEF Winners
<1>v. \A t \in W : \E k \in 1..i : t = m[k] /\ WinsUpTo(m, i, k)
  BY DEF Winners
<1>s. \A x, y, z : SamePort(x, x) /\ (SamePort(x, y) => SamePort(y, x))
                   /\ (SamePort(x, y) /\ SamePort(y, z) => SamePort(x, z))
  BY DEF SamePort
\* Those that were winners and are no rivals of the new mention still are.
<1>o. ASSUME NEW k \in 1..i, ~SamePort(m[k], s)
      PROVE  WinsUpTo(m, i, k) <=> WinsUpTo(m, i + 1, k)
  BY <1>o DEF WinsUpTo
<1>a. Winners(m, i + 1) = {m[k] : k \in {j \in 1..i : WinsUpTo(m, i + 1, j)}}
                          \cup (IF WinsUpTo(m, i + 1, i + 1) THEN {s} ELSE {})
  <2>1. 1..(i + 1) = 1..i \cup {i + 1}
    OBVIOUS
  <2> QED
    BY <2>1 DEF Winners
<1>1. CASE same = {}
  <2>1. ASSUME NEW k \in 1..i PROVE ~SamePort(m[k], s)
    <3> SUFFICES ASSUME SamePort(m[k], s) PROVE FALSE
      OBVIOUS
    <3>1. PICK w \in 1..i : SamePort(m[k], m[w]) /\ WinsUpTo(m, i, w)
      BY HasWinner
    <3>2. SamePort(s, m[w]) /\ m[w] \in W
      BY <3>1, <1>s, <1>w
    <3> QED
      BY <3>2, <1>1
  <2>2. WinsUpTo(m, i + 1, i + 1)
    BY <2>1, <1>s DEF WinsUpTo
  <2>3. {m[k] : k \in {j \in 1..i : WinsUpTo(m, i + 1, j)}} = W
    BY <2>1, <1>o DEF Winners
  <2>4. Collapse(W, s) = W \cup {s}
    BY <1>1 DEF Collapse
  <2> QED
    BY <2>2, <2>3, <2>4, <1>a
<1>2. CASE same # {} /\ IsPublished(s) /\ \A t \in same : ~IsPublished(t)
  <2>1. ASSUME NEW k \in 1..i, SamePort(m[k], s) PROVE ~IsPublished(m[k])
    <3>1. PICK w \in 1..i : SamePort(m[k], m[w]) /\ WinsUpTo(m, i, w)
      BY HasWinner
    <3>2. SamePort(m[w], m[k]) /\ SamePort(s, m[w]) /\ m[w] \in W
      BY <3>1, <2>1, <1>s, <1>w
    <3>3. ~IsPublished(m[w])
      BY <3>2, <1>2
    <3> QED
      BY <3>1, <3>2, <3>3 DEF WinsUpTo
  <2>2. WinsUpTo(m, i + 1, i + 1)
    BY <2>1, <1>2, <1>s DEF WinsUpTo
  <2>3. ASSUME NEW k \in 1..i
        PROVE  WinsUpTo(m, i + 1, k) <=> WinsUpTo(m, i, k) /\ ~SamePort(s, m[k])
    <3>1. CASE SamePort(s, m[k])
      <4>1. SamePort(m[k], m[i + 1]) /\ IsPublished(m[i + 1]) /\ ~IsPublished(m[k])
        BY <3>1, <1>s, <2>1, <1>2
      <4> QED
        BY <3>1, <4>1 DEF WinsUpTo
    <3>2. CASE ~SamePort(s, m[k])
      BY <3>2, <1>o, <1>s
    <3> QED
      BY <3>1, <3>2
  <2>4. {m[k] : k \in {j \in 1..i : WinsUpTo(m, i + 1, j)}} = W \ same
    BY <2>3 DEF Winners
  <2>5. Collapse(W, s) = (W \ same) \cup {s}
    BY <1>2 DEF Collapse
  <2> QED
    BY <2>2, <2>4, <2>5, <1>a
<1>3. CASE same # {} /\ ~(IsPublished(s) /\ \A t \in same : ~IsPublished(t))
  <2>1. PICK w \in 1..i : /\ WinsUpTo(m, i, w) /\ SamePort(s, m[w])
                          /\ IsPublished(s) => IsPublished(m[w])
    BY <1>3, <1>v
  <2>2. ~WinsUpTo(m, i + 1, i + 1)
    BY <2>1 DEF WinsUpTo
  <2>3. ASSUME NEW k \in 1..i PROVE WinsUpTo(m, i + 1, k) <=> WinsUpTo(m, i, k)
    <3>1. CASE SamePort(m[k], s)
      <4>1. SamePort(m[k], m[w])
        BY <3>1, <2>1, <1>s
      <4>2. WinsUpTo(m, i, k) => (IsPublished(s) => IsPublished(m[k]))
        BY <4>1, <2>1 DEF WinsUpTo
      <4> QED
        BY <4>2 DEF WinsUpTo
    <3>2. CASE ~SamePort(m[k], s)
      BY <3>2, <1>o
    <3> QED
      BY <3>1, <3>2
  <2>4. {m[k] : k \in {j \in 1..i : WinsUpTo(m, i + 1, j)}} = W
    BY <2>3 DEF Winners
  <2>5. Collapse(W, s) = W
    BY <1>3 DEF Collapse
  <2> QED
    BY <2>2, <2>4, <2>5, <1>a
<1> QED
  BY <1>1, <1>2, <1>3

LEMMA CollapsedIsBest ==
  ASSUME NEW X, NEW m \in Seq(X)
  PROVE  Collapsed(m) = Best(m)
<1> DEFINE n == Len(m)
           Eqn(f) == f = [i \in 0..n |-> IF i = 0 THEN {} ELSE Collapse(f[i - 1], m[i])]
           kept == CHOOSE f : Eqn(f)
           op == [t \in SUBSET X |-> [x \in X |-> Collapse(t, x)]]
<1>0. n \in Nat /\ m \in [1..n -> X]
  OBVIOUS
<1>1. Collapsed(m) = kept[n]
  BY DEF Collapsed
<1>2. \E f : Eqn(f)
  <2>1. op \in [SUBSET X -> [X -> SUBSET X]] /\ {} \in SUBSET X
    BY DEF Collapse
  <2>2. PICK g \in [0..n -> SUBSET X] :
               g[0] = {} /\ \A i \in 1..n : g[i] = op[g[i - 1]][m[i]]
    <3> HIDE DEF op, n
    <3>1. FoldExists(SUBSET X, {}, n, op, m)
      BY <1>0, <2>1, Fold, Zenon
    <3> QED
      BY <3>1 DEF FoldExists
  <2>3. ASSUME NEW i \in 1..n PROVE g[i] = Collapse(g[i - 1], m[i])
    <3>1. g[i - 1] \in SUBSET X /\ m[i] \in X
      BY <1>0
    <3>2. op[g[i - 1]][m[i]] = Collapse(g[i - 1], m[i])
      BY <3>1
    <3> QED
      BY <2>2, <3>2
  <2> HIDE DEF op, n
  <2>4. g = [i \in 0..n |-> IF i = 0 THEN {} ELSE Collapse(g[i - 1], m[i])]
    BY <1>0, <2>2, <2>3
  <2> QED
    BY <2>4
<1>3. Eqn(kept)
  BY <1>2
<1> HIDE DEF kept
<1>4. kept[0] = {} /\ \A i \in 1..n : kept[i] = Collapse(kept[i - 1], m[i])
  <2> HIDE DEF n
  <2>1. \A i \in 0..n : kept[i] = IF i = 0 THEN {} ELSE Collapse(kept[i - 1], m[i])
    BY <1>3, Zenon
  <2>2. 0 \in 0..n /\ \A i \in 1..n : i \in 0..n /\ i # 0
    BY <1>0
  <2> QED
    BY <2>1, <2>2, Zenon
<1> DEFINE S == {i \in Nat : i <= n => kept[i] = Winners(m, i)}
<1>5. 0 \in S
  BY <1>4 DEF Winners
<1>6. ASSUME NEW i \in Nat, i \in S PROVE i + 1 \in S
  <2> SUFFICES ASSUME i + 1 <= n PROVE kept[i + 1] = Winners(m, i + 1)
    OBVIOUS
  <2>1. i + 1 \in 1..n /\ (i + 1) - 1 = i /\ i <= n
    BY <1>0
  <2>2. kept[i + 1] = Collapse(kept[i], m[i + 1])
    BY <2>1, <1>4, Zenon
  <2>3. kept[i] = Winners(m, i)
    BY <1>6, <2>1
  <2> QED
    BY <2>2, <2>3, CollapseAddsAMention
<1> HIDE DEF S
<1>7. n \in S
  BY <1>0, <1>5, <1>6, SetInduction
<1> QED
  BY <1>0, <1>1, <1>7, BestIsTheWinners DEF S
-----------------------------------------------------------------------------
(* The types of what the parser reads and gives.                           *)

Specs == [ip : STRING, hostPort : Nat, port : Nat, proto : STRING]

LEMMA SequenceOf ==
  ASSUME NEW X, NEW n \in Nat, NEW s \in [1..n -> X]
  PROVE  s \in Seq(X) /\ Len(s) = n
OBVIOUS

LEMMA ExpandedPorts ==
  ASSUME NEW r \in Ranges
  PROVE  /\ ExpandRange(r) \in Seq(Nat)
         /\ ~FitsCap(r) => ExpandRange(r) = <<>>
<1>1. CASE r \in [1..1 -> Nat]
  <2>1. r \in Seq(Nat) /\ Len(r) = 1
    BY <1>1, SequenceOf
  <2> QED
    BY <2>1 DEF ExpandRange, FitsCap
<1>2. CASE r \in [1..2 -> Nat]
  <2>1. Len(r) = 2 /\ r[1] \in Nat /\ r[2] \in Nat
    BY <1>2
  <2>2. CASE FitsCap(r)
    <3>1. r[2] >= r[1] /\ r[2] - r[1] + 1 \in Nat /\ ~(r[2] < r[1])
      BY <2>1, <2>2 DEF FitsCap
    <3>2. [i \in 1..(r[2] - r[1] + 1) |-> r[1] + i - 1] \in Seq(Nat)
      BY <2>1, <3>1
    <3>3. CASE r[2] - r[1] + 1 > MaxPortsPerRange
      BY <2>1, <2>2, <3>3 DEF ExpandRange, Refused
    <3>4. CASE ~(r[2] - r[1] + 1 > MaxPortsPerRange)
      <4>1. ExpandRange(r) = [i \in 1..(r[2] - r[1] + 1) |-> r[1] + i - 1]
        BY <2>1, <3>1, <3>4 DEF ExpandRange
      <4> QED
        BY <2>2, <3>2, <4>1
    <3> QED
      BY <3>3, <3>4
  <2>3. CASE ~FitsCap(r)
    BY <2>1, <2>3, LimitAssumption DEF FitsCap, ExpandRange, Refused
  <2> QED
    BY <2>2, <2>3
<1> QED
  BY <1>1, <1>2 DEF Ranges

LEMMA SpecsOfAnEntry ==
  ASSUME NEW e \in Entries
  PROVE  /\ SpecsOf(e) \in Seq(Specs)
         /\ ~Fits(e) => SpecsOf(e) = <<>>
<1> DEFINE inner == ExpandRange(e.cont)
           outer == ExpandRange(e.host)
<1>0. /\ e.ip \in STRING /\ e.proto \in STRING /\ e.cont \in Ranges
      /\ e.kind = "published" => e.host \in Ranges
  BY DEF Entries
<1>1. inner \in Seq(Nat) /\ (~FitsCap(e.cont) => inner = <<>>)
  BY <1>0, ExpandedPorts
<1>2. CASE e.kind = "exposed"
  <2>1. SpecsOf(e) = [i \in DOMAIN inner |-> [ip |-> e.ip, hostPort |-> 0,
                                          port |-> inner[i], proto |-> e.proto]]
    BY <1>2 DEF SpecsOf
  <2> HIDE DEF inner
  <2>a. DOMAIN inner = 1..Len(inner) /\ \A i \in DOMAIN inner : inner[i] \in Nat
    BY <1>1
  <2>2. SpecsOf(e) \in Seq(Specs)
    BY <1>0, <1>1, <2>1, <2>a DEF Specs
  <2>3. inner = <<>> => SpecsOf(e) = <<>>
    BY <2>1
  <2> QED
    BY <1>1, <1>2, <2>2, <2>3 DEF Fits
<1>3. CASE e.kind = "published"
  <2>0. outer \in Seq(Nat) /\ (~FitsCap(e.host) => outer = <<>>)
    BY <1>0, <1>3, ExpandedPorts
  <2>1. CASE Len(outer) = Len(inner)
    <3>1. SpecsOf(e) = [i \in DOMAIN inner |-> [ip |-> e.ip, hostPort |-> outer[i],
                                            port |-> inner[i], proto |-> e.proto]]
      BY <1>3, <2>1 DEF SpecsOf
    <3> HIDE DEF inner, outer
    <3>2. DOMAIN inner = 1..Len(inner) /\ \A i \in DOMAIN inner : outer[i] \in Nat
      BY <1>1, <2>0, <2>1
    <3>3. SpecsOf(e) \in Seq(Specs)
      BY <1>0, <1>1, <3>1, <3>2 DEF Specs
    <3>4. inner = <<>> => SpecsOf(e) = <<>>
      BY <3>1
    <3>5. outer = <<>> => inner = <<>>
      BY <1>1, <2>1
    <3> QED
      BY <1>1, <1>3, <2>0, <3>3, <3>4, <3>5 DEF Fits
  <2>2. CASE Len(outer) # Len(inner)
    <3>1. SpecsOf(e) = <<>>
      BY <1>3, <2>2 DEF SpecsOf
    <3> QED
      BY <3>1
  <2> QED
    BY <2>1, <2>2
<1>4. CASE e.kind \notin {"exposed", "published"}
  <2>1. SpecsOf(e) = <<>>
    BY <1>4 DEF SpecsOf
  <2> QED
    BY <2>1
<1> QED
  BY <1>2, <1>3, <1>4

LEMMA MentionsOfAColumn ==
  ASSUME NEW column \in Seq(Entries)
  PROVE  /\ Mentioned(column) \in Seq(Specs)
         /\ Mentioned(column) = MentionsThatFit(column)
<1> DEFINE n == Len(column)
           seqs == [i \in DOMAIN column |-> SpecsOf(column[i])]
<1>0. n \in Nat /\ DOMAIN column = 1..n /\ \A i \in 1..n : column[i] \in Entries
  OBVIOUS
<1>1. seqs \in [1..n -> Seq(Specs)]
  BY <1>0, SpecsOfAnEntry
<1>2. Mentioned(column) \in Seq(Specs)
  <2> HIDE DEF seqs, n
  <2>1. FlattenSeq(seqs) \in Seq(Specs)
    BY <1>0, <1>1, Flattened
  <2> QED
    BY <2>1 DEF Mentioned, seqs
<1>3. seqs = [i \in DOMAIN column |->
                IF Fits(column[i]) THEN SpecsOf(column[i]) ELSE <<>>]
  BY <1>0, SpecsOfAnEntry
<1> QED
  BY <1>2, <1>3 DEF Mentioned, MentionsThatFit

LEMMA ParsedIsBest ==
  ASSUME NEW column \in Seq(Entries)
  PROVE  ParsePorts(column) = Best(MentionsThatFit(column))
BY MentionsOfAColumn, CollapsedIsBest DEF ParsePorts

\* What is parsed has one spec per port.
LEMMA ParsedSpecs ==
  ASSUME NEW column \in Seq(Entries)
  PROVE  /\ ParsePorts(column) \subseteq Specs
         /\ \A s, t \in ParsePorts(column) : SamePort(s, t) => s = t
<1> DEFINE m == Mentioned(column)
<1>1. m \in Seq(Specs) /\ ParsePorts(column) = Best(m)
  BY MentionsOfAColumn, CollapsedIsBest DEF ParsePorts
<1> HIDE DEF m
<1>2. ParsePorts(column) = Winners(m, Len(m)) /\ Len(m) \in Nat
  BY <1>1, BestIsTheWinners
<1>3. ParsePorts(column) \subseteq Specs
  BY <1>1, <1>2 DEF Winners
<1>4. ASSUME NEW s \in ParsePorts(column), NEW t \in ParsePorts(column), SamePort(s, t)
      PROVE  s = t
  <2>1. PICK v \in 1..Len(m) : s = m[v] /\ WinsUpTo(m, Len(m), v)
    BY <1>2 DEF Winners
  <2>2. PICK w \in 1..Len(m) : t = m[w] /\ WinsUpTo(m, Len(m), w)
    BY <1>2 DEF Winners
  <2> QED
    BY <1>2, <1>4, <2>1, <2>2, OneWinner
<1> QED
  BY <1>3, <1>4

-----------------------------------------------------------------------------
(* What docker shows is always a column.                                   *)

UpInv == up \in [Containers -> Seq(Entries)]

LEMMA StepUpInv == UpInv /\ [Next]_vars => UpInv'
<1> SUFFICES ASSUME UpInv, [Next]_vars PROVE UpInv'
  OBVIOUS
<1>1. CASE UNCHANGED up
  BY <1>1 DEF UpInv
<1>2. ASSUME NEW c \in Containers, NEW column \in Columns[c], ContainerStarts(c, column)
      PROVE  UpInv'
  BY <1>2, HostAssumption DEF UpInv, ContainerStarts
<1>3. ASSUME NEW c \in Containers, ContainerEnds(c) PROVE UpInv'
  BY <1>3 DEF UpInv, ContainerEnds, Down
<1>4. CASE Poll
  BY <1>4, <1>1 DEF Poll, PsAnswers, PsFails, InspectAnswers, InspectFails,
                    HostAnswers, HostFails, Merge, remoteVars
<1>5. CASE \E s \in Services : ServiceStarts(s) \/ ServiceStops(s)
  BY <1>5, <1>1 DEF ServiceStarts, ServiceStops
<1> QED
  BY <1>1, <1>2, <1>3, <1>4, <1>5 DEF Next, vars, remoteVars

LEMMA UpInvHolds == Spec => []UpInv
<1>1. Init => UpInv
  BY DEF Init, UpInv, Down
<1> QED
  BY <1>1, StepUpInv, PTL DEF Spec

\* Whatever a column holds, the loop of ParsePorts keeps the best mention of
\* each port.
THEOREM ParsingTakesTheBest == Spec => []ParseTakesTheBest
<1>1. UpInv => ParseTakesTheBest
  BY ParsedIsBest DEF UpInv, ParseTakesTheBest
<1> QED
  BY <1>1, UpInvHolds, PTL
-----------------------------------------------------------------------------
(* The rows of each source have one per key.                               *)

OneEach(R) == \A r, s \in R : KeyOf(r) = KeyOf(s) => r = s

DockerRows ==
  [src : {"docker"}, owner : Containers, port : Nat, proto : STRING,
   hostPort : Nat, pref : Nat, target : Containers \cup {"", Loopback}]

AtLoopback(R) == {r \in R : r.src = "docker" /\ r.target = Loopback}

\* The rows of the published ports when the containers are as in view.
PublishedOf(view) ==
  UNION {{DockerRow(c, s) : s \in {t \in ParsePorts(view[c]) : IsPublished(t)}} :
           c \in {d \in Containers \ Hidden : view[d] # Down}}

LEMMA ADockerRow ==
  ASSUME NEW c \in Containers, NEW s \in Specs
  PROVE  /\ DockerRow(c, s) \in DockerRows
         /\ KeyOf(DockerRow(c, s)) = <<"docker", c, s.port, s.proto>>
         /\ DockerRow(c, s).target = Loopback <=> IsPublished(s)
BY DEF DockerRow, DockerRows, KeyOf, Specs, IsPublished, Loopback

LEMMA WantedRows ==
  ASSUME UpInv
  PROVE  /\ Wanted \subseteq DockerRows
         /\ OneEach(Wanted)
         /\ AtLoopback(Wanted) = PublishedOf(up)
<1>1. \A c \in Containers :
        /\ ParsePorts(up[c]) \subseteq Specs
        /\ \A s, t \in ParsePorts(up[c]) : SamePort(s, t) => s = t
  BY ParsedSpecs DEF UpInv
<1>2. \A r \in Wanted : \E c \in Listed : \E s \in ParsePorts(up[c]) :
        r = DockerRow(c, s)
  BY DEF Wanted
<1>3. Wanted \subseteq DockerRows
  BY <1>1, <1>2, ADockerRow DEF Listed
<1>4. ASSUME NEW r \in Wanted, NEW q \in Wanted, KeyOf(r) = KeyOf(q) PROVE r = q
  <2>a. PICK c \in Listed : \E s \in ParsePorts(up[c]) : r = DockerRow(c, s)
    BY <1>2
  <2>1. PICK s \in ParsePorts(up[c]) : r = DockerRow(c, s)
    BY <2>a
  <2>b. PICK d \in Listed : \E t \in ParsePorts(up[d]) : q = DockerRow(d, t)
    BY <1>2
  <2>2. PICK t \in ParsePorts(up[d]) : q = DockerRow(d, t)
    BY <2>b
  <2>3. c \in Containers /\ s \in Specs /\ d \in Containers /\ t \in Specs
    BY <1>1 DEF Listed
  <2>4. <<"docker", c, s.port, s.proto>> = <<"docker", d, t.port, t.proto>>
    BY <1>4, <2>1, <2>2, <2>3, ADockerRow
  <2>5. c = d /\ SamePort(s, t)
    BY <2>4 DEF SamePort
  <2>6. s = t
    BY <1>1, <2>3, <2>5
  <2> QED
    BY <2>1, <2>2, <2>5, <2>6
<1>5. AtLoopback(Wanted) = PublishedOf(up)
  <2>1. ASSUME NEW r \in AtLoopback(Wanted) PROVE r \in PublishedOf(up)
    <3>a. PICK c \in Listed : \E s \in ParsePorts(up[c]) : r = DockerRow(c, s)
      BY <1>2, <2>1 DEF AtLoopback
    <3>1. PICK s \in ParsePorts(up[c]) : r = DockerRow(c, s)
      BY <3>a
    <3>2. IsPublished(s)
      BY <3>1, <2>1, <1>1, ADockerRow DEF AtLoopback, Listed
    <3> QED
      BY <3>1, <3>2 DEF PublishedOf, Listed
  <2>2. ASSUME NEW r \in PublishedOf(up) PROVE r \in AtLoopback(Wanted)
    <3>1. PICK c \in Listed : \E s \in ParsePorts(up[c]) :
            IsPublished(s) /\ r = DockerRow(c, s)
      BY <2>2 DEF PublishedOf, Listed
    <3>2. PICK s \in ParsePorts(up[c]) : IsPublished(s) /\ r = DockerRow(c, s)
      BY <3>1
    <3>3. r \in Wanted
      BY <3>2 DEF Wanted
    <3>4. r.target = Loopback /\ r \in DockerRows
      BY <3>2, <1>1, ADockerRow DEF Listed
    <3> QED
      BY <3>3, <3>4 DEF AtLoopback, DockerRows
  <2> QED
    BY <2>1, <2>2
<1> QED
  BY <1>3, <1>4, <1>5 DEF OneEach

\* Whoever has an address, the rows that need none stay as they are.
LEMMA AttachedRows ==
  ASSUME NEW D \in SUBSET DockerRows, OneEach(D), NEW R
  PROVE  /\ Attached(D, R) \subseteq DockerRows
         /\ OneEach(Attached(D, R))
         /\ AtLoopback(Attached(D, R)) = AtLoopback(D)
<1> DEFINE A(d) == IF d.target = "" THEN [d EXCEPT !.target = d.owner] ELSE d
<1>1. ASSUME NEW d \in DockerRows
      PROVE  /\ A(d) \in DockerRows /\ KeyOf(A(d)) = KeyOf(d)
             /\ A(d).target = Loopback <=> d.target = Loopback
             /\ d.target = Loopback => A(d) = d
  BY IdAssumption DEF DockerRows, KeyOf, Loopback
<1>2. \A r \in Attached(D, R) : \E d \in D : r = A(d)
  BY DEF Attached, NeedsIP
<1>3. \A d \in D : d.target = Loopback => d \in Attached(D, R)
  BY DEF Attached, NeedsIP, Loopback
<1> HIDE DEF A
<1>4. Attached(D, R) \subseteq DockerRows
  BY <1>1, <1>2
<1>5. ASSUME NEW r \in Attached(D, R), NEW q \in Attached(D, R), KeyOf(r) = KeyOf(q)
      PROVE  r = q
  BY <1>1, <1>2, <1>5 DEF OneEach
<1>6. AtLoopback(Attached(D, R)) = AtLoopback(D)
  <2>1. ASSUME NEW r \in AtLoopback(Attached(D, R)) PROVE r \in AtLoopback(D)
    <3>1. PICK d \in D : r = A(d)
      BY <1>2, <2>1 DEF AtLoopback
    <3>2. d.target = Loopback /\ r = d
      BY <3>1, <2>1, <1>1 DEF AtLoopback
    <3> QED
      BY <3>2, <2>1 DEF AtLoopback
  <2>2. ASSUME NEW r \in AtLoopback(D) PROVE r \in AtLoopback(Attached(D, R))
    BY <1>3, <2>2 DEF AtLoopback
  <2> QED
    BY <2>1, <2>2
<1> QED
  BY <1>4, <1>5, <1>6 DEF OneEach

\* The first row of each key: one per key, and one for every key.
LEMMA FirstRows ==
  ASSUME NEW X, NEW s \in Seq(X)
  PROVE  /\ FirstPerKey(s) \subseteq Range(s)
         /\ OneEach(FirstPerKey(s))
         /\ \A f \in Range(s) : \E r \in FirstPerKey(s) : KeyOf(r) = KeyOf(f)
<1>0. Len(s) \in Nat /\ DOMAIN s = 1..Len(s)
  OBVIOUS
<1> DEFINE First(j) == \A k \in 1..(j - 1) : KeyOf(s[k]) # KeyOf(s[j])
<1>1. FirstPerKey(s) = {s[i] : i \in {j \in DOMAIN s : First(j)}}
  BY DEF FirstPerKey
<1>2. ASSUME NEW r \in FirstPerKey(s), NEW q \in FirstPerKey(s), KeyOf(r) = KeyOf(q)
      PROVE  r = q
  <2>1. PICK i \in 1..Len(s) : r = s[i] /\ First(i)
    BY <1>0, <1>1, <1>2
  <2>2. PICK j \in 1..Len(s) : q = s[j] /\ First(j)
    BY <1>0, <1>1, <1>2
  <2>3. ~(i < j)
    BY <1>0, <1>2, <2>1, <2>2
  <2>4. ~(j < i)
    BY <1>0, <1>2, <2>1, <2>2
  <2> QED
    BY <1>0, <2>1, <2>2, <2>3, <2>4
<1>3. ASSUME NEW f \in Range(s) PROVE \E r \in FirstPerKey(s) : KeyOf(r) = KeyOf(f)
  <2>1. PICK i \in 1..Len(s) : f = s[i]
    BY <1>0, <1>3 DEF Range
  <2> DEFINE S == {j \in 1..Len(s) : KeyOf(s[j]) = KeyOf(f)}
  <2>2. i \in S /\ S \in SUBSET Nat
    BY <1>0, <2>1
  <2>3. PICK j \in S : \A k \in S : j <= k
    <3> HIDE DEF S
    <3> QED
      BY <2>2, LeastOf
  <2>4. First(j)
    BY <1>0, <2>3
  <2>5. s[j] \in FirstPerKey(s) /\ KeyOf(s[j]) = KeyOf(f)
    BY <1>0, <1>1, <2>3, <2>4
  <2> QED
    BY <2>5
<1> QED
  BY <1>1, <1>2, <1>3 DEF OneEach, Range

DeclaredRows ==
  [src : {"static"}, owner : STRING, port : Nat, proto : {"tcp"}, hostPort : Nat,
   pref : Nat, target : STRING]

LEMMA ForwardsAreRows ==
  ASSUME NEW i \in DOMAIN Forwards
  PROVE  ForwardRows(Forwards[i]) \in Seq(DeclaredRows)
<1> DEFINE f == Forwards[i]
           remote == ExpandRange(f.remote)
           local  == ExpandRange(f.local)
           Pref(j) == IF f.local = <<>> THEN remote[j] ELSE local[j]
           Flags == [label : STRING, local : Ranges \cup {<<>>}, remote : Ranges,
                     host : STRING]
<1>1. f \in Flags
  <2>1. Forwards \in Seq(Flags)
    BY HostAssumption
  <2> HIDE DEF Flags
  <2> QED
    BY <2>1
<1>2. remote \in Seq(Nat)
  BY <1>1, ExpandedPorts
<1>3. \A j \in DOMAIN remote : remote[j] \in Nat
  BY <1>2
<1>4. ASSUME f.local # <<>>, NEW j \in DOMAIN remote PROVE local[j] \in Nat
  <2>1. local \in Seq(Nat)
    BY <1>1, <1>4, ExpandedPorts
  <2>2. Len(local) = Len(remote)
    BY <1>4, ForwardsAssumption DEF ValidForward
  <2> HIDE DEF local, remote
  <2> QED
    BY <1>2, <1>4, <2>1, <2>2
<1>5. ForwardRows(f) = [j \in DOMAIN remote |->
         [src |-> "static", owner |-> f.label, port |-> remote[j], proto |-> "tcp",
          hostPort |-> remote[j], pref |-> Pref(j), target |-> f.host]]
  BY DEF ForwardRows
<1>6. \A j \in DOMAIN remote : Pref(j) \in Nat
  BY <1>3, <1>4
<1> HIDE DEF remote, Pref
<1>7. DOMAIN remote = 1..Len(remote) /\ Len(remote) \in Nat
  BY <1>2
<1>8. f.label \in STRING /\ f.host \in STRING
  BY <1>1
<1> HIDE DEF f
<1>9. ForwardRows(f) \in [1..Len(remote) -> DeclaredRows]
  BY <1>3, <1>5, <1>6, <1>7, <1>8 DEF DeclaredRows
<1>10. ForwardRows(f) \in Seq(DeclaredRows)
  BY <1>7, <1>9, SequenceOf
<1> QED
  BY <1>10 DEF f

LEMMA DeclaredRowsStand ==
  /\ OneEach(StaticRows)
  /\ \A r \in StaticRows : r.src = "static"
  /\ \A i \in DOMAIN Forwards : \A f \in Range(ForwardRows(Forwards[i])) :
       \E r \in StaticRows : KeyOf(r) = KeyOf(f)
<1> DEFINE n == Len(Forwards)
           seqs == [i \in DOMAIN Forwards |-> ForwardRows(Forwards[i])]
           flat == FlattenSeq(seqs)
<1>1. n \in Nat /\ DOMAIN Forwards = 1..n
  BY HostAssumption
<1>2. seqs \in [1..n -> Seq(DeclaredRows)]
  BY <1>1, ForwardsAreRows
<1>3. /\ flat \in Seq(DeclaredRows)
      /\ Range(flat) = UNION {Range(seqs[i]) : i \in 1..n}
  <2> HIDE DEF seqs, n
  <2> QED
    BY <1>1, <1>2, Flattened
<1>4. StaticRows = FirstPerKey(flat)
  BY DEF StaticRows
<1>5. \A i \in 1..n : seqs[i] = ForwardRows(Forwards[i])
  BY <1>1
<1> HIDE DEF seqs, n, flat
<1>6. \A r \in Range(flat) : r.src = "static"
  <2>1. \A r \in Range(flat) : r \in DeclaredRows
    BY <1>3 DEF Range
  <2> QED
    BY <2>1 DEF DeclaredRows
<1>7. ASSUME NEW i \in DOMAIN Forwards, NEW f \in Range(ForwardRows(Forwards[i]))
      PROVE  \E r \in StaticRows : KeyOf(r) = KeyOf(f)
  <2>1. f \in Range(flat)
    BY <1>1, <1>3, <1>5, <1>7
  <2> QED
    BY <1>3, <1>4, <2>1, FirstRows
<1> QED
  BY <1>3, <1>4, <1>6, <1>7, FirstRows

-----------------------------------------------------------------------------
(* A poll's rows.                                                          *)

HostRowsInv == OneEach(lastHost) /\ \A h \in lastHost : h.src = "host"

\* What Discover has got, when the poll is not between its two commands the
\* engine's last answer.
Docker == IF pc = "inspect" THEN found ELSE lastDocker

\* RowsInv: every source has one row per key, and so has what was merged.
\* PollInv: the published ports are exactly those of the containers as docker
\* ps last listed them, in what the poll has found, and at the last merge, in
\* the rows.
RowsInv ==
  /\ found \subseteq DockerRows /\ OneEach(found)
  /\ lastDocker \subseteq DockerRows /\ OneEach(lastDocker)
  /\ HostRowsInv
  /\ OneEach(rows)
  /\ rows # {} => StaticRows \subseteq rows

PollInv ==
  /\ AtLoopback(Docker) = PublishedOf(seen)
  /\ AtLoopback(rows) = PublishedOf(shown)

Inv == UpInv /\ RowsInv /\ PollInv

LEMMA InitInv == Init => Inv
<1> SUFFICES ASSUME Init PROVE Inv
  OBVIOUS
<1>1. UpInv
  BY DEF Init, UpInv, Down
<1>2. RowsInv
  BY DEF Init, RowsInv, HostRowsInv, OneEach
<1>3. \A c \in Containers : seen[c] = Down /\ shown[c] = Down
  BY DEF Init
<1>4. PollInv
  BY <1>3 DEF Init, PollInv, Docker, AtLoopback, PublishedOf
<1> QED
  BY <1>1, <1>2, <1>4 DEF Inv

LEMMA MergedRows ==
  ASSUME RowsInv
  PROVE  /\ OneEach(Merged(lastDocker, lastHost))
         /\ StaticRows \subseteq Merged(lastDocker, lastHost)
         /\ AtLoopback(Merged(lastDocker, lastHost)) = AtLoopback(lastDocker)
<1> DEFINE H == DropDockerPublished(lastDocker, lastHost)
           M == Merged(lastDocker, lastHost)
<1>1. M = lastDocker \cup H \cup StaticRows /\ H \subseteq lastHost
  BY DEF Merged, DropDockerPublished
<1>2. /\ \A d \in lastDocker : d.src = "docker"
      /\ \A h \in H : h.src = "host"
      /\ \A r \in StaticRows : r.src = "static"
  BY <1>1, DeclaredRowsStand DEF RowsInv, HostRowsInv, DockerRows
<1>3. OneEach(lastDocker) /\ OneEach(H) /\ OneEach(StaticRows)
  BY <1>1, DeclaredRowsStand DEF RowsInv, HostRowsInv, OneEach
<1> HIDE DEF H, M
<1>4. ASSUME NEW r \in M, NEW q \in M, KeyOf(r) = KeyOf(q) PROVE r = q
  <2>1. r.src = q.src
    BY <1>4 DEF KeyOf
  <2> QED
    BY <1>1, <1>2, <1>3, <1>4, <2>1 DEF OneEach
<1>5. AtLoopback(M) = AtLoopback(lastDocker)
  BY <1>1, <1>2 DEF AtLoopback
<1> QED
  BY <1>1, <1>4, <1>5 DEF OneEach, M

LEMMA StepInv == Inv /\ [Next]_vars => Inv'
<1> SUFFICES ASSUME Inv, [Next]_vars PROVE Inv'
  OBVIOUS
<1>0. UpInv'
  BY StepUpInv DEF Inv
<1>1. CASE PsAnswers
  <2>1. /\ Wanted \subseteq DockerRows /\ OneEach(Wanted)
        /\ AtLoopback(Wanted) = PublishedOf(up)
    BY WantedRows DEF Inv
  <2>2. RowsInv'
    BY <1>1, <2>1 DEF PsAnswers, Inv, RowsInv, HostRowsInv, OneEach
  <2>3. Docker' = Wanted /\ seen' = up /\ rows' = rows /\ shown' = shown
    BY <1>1 DEF PsAnswers, Docker
  <2>4. PollInv'
    BY <2>1, <2>3 DEF Inv, PollInv, AtLoopback, PublishedOf
  <2> QED
    BY <1>0, <2>2, <2>4 DEF Inv
<1>2. CASE PsFails
  <2>1. /\ Docker' = Docker
        /\ UNCHANGED <<found, lastDocker, lastHost, rows, seen, shown>>
    BY <1>2 DEF PsFails, DockerAfterFailure, Docker, seenVars
  <2>2. RowsInv'
    BY <2>1 DEF Inv, RowsInv, HostRowsInv, OneEach
  <2>3. PollInv'
    BY <2>1 DEF Inv, PollInv, AtLoopback, PublishedOf
  <2> QED
    BY <1>0, <2>2, <2>3 DEF Inv
<1>3. CASE InspectAnswers
  <2> DEFINE got == Attached(found, {c \in Asked(found) : HasAddress(c)})
  <2>1. found \subseteq DockerRows /\ OneEach(found)
    BY DEF Inv, RowsInv
  <2>2. /\ got \subseteq DockerRows /\ OneEach(got)
        /\ AtLoopback(got) = AtLoopback(found)
    BY <2>1, AttachedRows
  <2>3. /\ Docker = found /\ Docker' = got
        /\ lastDocker' = got /\ found' = {}
        /\ UNCHANGED <<lastHost, rows, seen, shown>>
    BY <1>3 DEF InspectAnswers, Docker, seenVars
  <2> HIDE DEF got
  <2>4. RowsInv'
    BY <2>2, <2>3 DEF Inv, RowsInv, HostRowsInv, OneEach
  <2>5. PollInv'
    BY <2>2, <2>3 DEF Inv, PollInv, AtLoopback, PublishedOf
  <2> QED
    BY <1>0, <2>4, <2>5 DEF Inv
<1>4. CASE InspectFails
  <2> DEFINE got == Attached(found, {})
  <2>1. found \subseteq DockerRows /\ OneEach(found)
    BY DEF Inv, RowsInv
  <2>2. /\ got \subseteq DockerRows /\ OneEach(got)
        /\ AtLoopback(got) = AtLoopback(found)
    BY <2>1, AttachedRows
  <2>3. /\ Docker = found /\ Docker' = got
        /\ lastDocker' = got /\ found' = {}
        /\ UNCHANGED <<lastHost, rows, seen, shown>>
    BY <1>4 DEF InspectFails, Docker, seenVars
  <2> HIDE DEF got
  <2>4. RowsInv'
    BY <2>2, <2>3 DEF Inv, RowsInv, HostRowsInv, OneEach
  <2>5. PollInv'
    BY <2>2, <2>3 DEF Inv, PollInv, AtLoopback, PublishedOf
  <2> QED
    BY <1>0, <2>4, <2>5 DEF Inv
<1>5. CASE HostAnswers
  <2>1. PICK first \in [{s.port : s \in Sockets} -> Sockets] :
          /\ \A p \in DOMAIN first : first[p].port = p
          /\ lastHost' = {HostRow(first[p]) :
                            p \in DOMAIN first \ (SkipPorts \cup ExcludedPorts)}
    BY <1>5 DEF HostAnswers
  <2>2. \A h \in lastHost' : /\ h.src = "host" /\ h.port \in DOMAIN first
                             /\ h = HostRow(first[h.port])
    BY <2>1 DEF HostRow
  <2>3. HostRowsInv'
    BY <2>2 DEF HostRowsInv, OneEach, KeyOf
  <2>4. Docker' = Docker /\ UNCHANGED <<found, lastDocker, rows, seen, shown>>
    BY <1>5 DEF HostAnswers, Docker, seenVars
  <2>5. RowsInv'
    BY <2>3, <2>4 DEF Inv, RowsInv, OneEach
  <2>6. PollInv'
    BY <2>4 DEF Inv, PollInv, AtLoopback, PublishedOf
  <2> QED
    BY <1>0, <2>5, <2>6 DEF Inv
<1>6. CASE Merge
  <2>1. /\ OneEach(Merged(lastDocker, lastHost))
        /\ StaticRows \subseteq Merged(lastDocker, lastHost)
        /\ AtLoopback(Merged(lastDocker, lastHost)) = AtLoopback(lastDocker)
    BY MergedRows DEF Inv
  <2>2. /\ rows' = Merged(lastDocker, lastHost) /\ shown' = seen
        /\ Docker = lastDocker /\ Docker' = Docker
        /\ UNCHANGED <<found, lastDocker, lastHost, seen>>
    BY <1>6 DEF Merge, Docker, cacheVars
  <2>3. RowsInv'
    BY <2>1, <2>2 DEF Inv, RowsInv, HostRowsInv, OneEach
  <2>4. PollInv'
    BY <2>1, <2>2 DEF Inv, PollInv, AtLoopback, PublishedOf
  <2> QED
    BY <1>0, <2>3, <2>4 DEF Inv
<1>7. CASE UNCHANGED <<pc, found, lastDocker, lastHost, rows, seen, shown>>
  <2>1. Docker' = Docker
    BY <1>7 DEF Docker
  <2>2. RowsInv'
    BY <1>7 DEF Inv, RowsInv, HostRowsInv, OneEach
  <2>3. PollInv'
    BY <1>7, <2>1 DEF Inv, PollInv, AtLoopback, PublishedOf
  <2> QED
    BY <1>0, <2>2, <2>3 DEF Inv
<1>8. CASE HostFails
  <2>1. Docker' = Docker /\ UNCHANGED <<found, lastDocker, lastHost, rows, seen, shown>>
    BY <1>8 DEF HostFails, Docker, cacheVars, seenVars
  <2>2. RowsInv'
    BY <2>1 DEF Inv, RowsInv, HostRowsInv, OneEach
  <2>3. PollInv'
    BY <2>1 DEF Inv, PollInv, AtLoopback, PublishedOf
  <2> QED
    BY <1>0, <2>2, <2>3 DEF Inv
<1>9. CASE \E c \in Containers : (\E column \in Columns[c] : ContainerStarts(c, column))
                                 \/ ContainerEnds(c)
  BY <1>9, <1>7 DEF ContainerStarts, ContainerEnds, cacheVars, seenVars
<1>10. CASE \E s \in Services : ServiceStarts(s) \/ ServiceStops(s)
  BY <1>10, <1>7 DEF ServiceStarts, ServiceStops, cacheVars, seenVars
<1>11. CASE UNCHANGED vars
  BY <1>11, <1>7 DEF vars, cacheVars, seenVars
<1> QED
  BY <1>1, <1>2, <1>3, <1>4, <1>5, <1>6, <1>8, <1>9, <1>10, <1>11 DEF Next, Poll

THEOREM InvHolds == Spec => []Inv
<1> QED
  BY InitInv, StepInv, PTL DEF Spec

\* Whatever is fresh and whatever is cached, a poll hands the manager one row
\* per key, with a row for every declared forward.
THEOREM KeysAreUnique == Spec => []OneRowPerKey
<1>1. Inv => OneRowPerKey
  <2> SUFFICES ASSUME Inv PROVE OneRowPerKey
    OBVIOUS
  <2>1. OneEach(rows) /\ (rows # {} => StaticRows \subseteq rows)
    BY DEF Inv, RowsInv
  <2>2. ASSUME rows # {}, NEW i \in DOMAIN Forwards,
               NEW f \in Range(ForwardRows(Forwards[i]))
        PROVE  \E r \in rows : KeyOf(r) = KeyOf(f)
    BY <2>1, <2>2, DeclaredRowsStand
  <2> QED
    BY <2>1, <2>2 DEF OneRowPerKey, OneEach
<1> QED
  BY <1>1, InvHolds, PTL

\* A poll that finds a container as the last one did, or whose docker ps fails,
\* leaves the rows of its published ports alone.
THEOREM PublishedPortsStay == Spec => PublishedAreUndisturbed
<1> DEFINE Undisturbed ==
      pc = "merge" => \A r \in rows : Stays(r) /\ r.target = Loopback => r \in rows'
<1>1. Inv /\ Inv' /\ [Next]_vars => [Undisturbed]_vars
  <2> SUFFICES ASSUME Inv, Inv', [Next]_vars, pc = "merge",
                      NEW r \in rows, Stays(r), r.target = Loopback
               PROVE  r \in rows'
    OBVIOUS
  <2>1. CASE Merge
    <3>1. r \in PublishedOf(shown)
      BY DEF Inv, PollInv, AtLoopback, Stays
    <3>2. PICK c \in Containers \ Hidden :
            /\ shown[c] # Down
            /\ \E s \in ParsePorts(shown[c]) : IsPublished(s) /\ r = DockerRow(c, s)
      BY <3>1 DEF PublishedOf
    <3>3. r.owner = c
      BY <3>2 DEF DockerRow
    <3>4. shown[c] = seen[c] /\ shown' = seen
      BY <3>3, <2>1 DEF Stays, Merge
    <3>5. r \in PublishedOf(seen)
      BY <3>2, <3>4 DEF PublishedOf
    <3>6. AtLoopback(rows') = PublishedOf(seen)
      BY <3>4 DEF Inv, PollInv, AtLoopback, PublishedOf
    <3> QED
      BY <3>5, <3>6 DEF AtLoopback
  <2>2. CASE rows' = rows
    BY <2>2
  <2> QED
    BY <2>1, <2>2 DEF Next, Poll, PsAnswers, PsFails, InspectAnswers, InspectFails,
       HostAnswers, HostFails, ContainerStarts, ContainerEnds, ServiceStarts,
       ServiceStops, vars
<1> QED
  BY <1>1, InvHolds, PTL DEF Spec, PublishedAreUndisturbed, Undisturbed
=============================================================================
