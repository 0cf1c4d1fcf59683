--------------------------- MODULE PipelineProofs --------------------------
(***************************************************************************)
(* For any transcripts, any capacity of the buffer and any number of       *)
(* backfills and restarts: the types of Pipeline, its three safety         *)
(* invariants and what the rollup agrees with.                             *)
(*                                                                         *)
(* None of them is inductive as it is checked.  TypeInv adds where each    *)
(* reader may stand: the poll loop is in the middle of a line only where it*)
(* began, the backfill never.  RowInv adds to OneRowPerEvent what is on its*)
(* way in the buffer and in the backfill's hands.  SkipInv extends         *)
(* NothingSkipped to the line that an offset cuts in two and to the lines  *)
(* that the poll loop has passed since.  SyncInv says what a running       *)
(* backfill has read so far.  RollInv says that a rollup row without log   *)
(* rows belongs to a model that a row was taken away from.                 *)
(*                                                                         *)
(* The last part shows that Pipeline implements UsageLedger.  SentInv adds *)
(* that what the proxy sent is dealt with, LedgerInv is the whole.         *)
(*                                                                         *)
(* Rows, GroupCount and a batch are folds of the community modules, which  *)
(* CHOOSE a recursive function: that it exists is proved first.            *)
(***************************************************************************)
EXTENDS Pipeline, FiniteSetTheorems, SequenceTheorems, WellFoundedInduction, TLAPS

(* Induction on the natural numbers, of a set of them.                     *)
LEMMA NatSetInduction ==
    ASSUME NEW T, 0 \in T, \A n \in Nat : n \in T => n + 1 \in T
    PROVE  Nat \subseteq T
<1> SUFFICES ASSUME Nat \ T # {} PROVE FALSE
  OBVIOUS
<1> DEFINE Out == Nat \ T
<1>1. Out \subseteq Nat /\ Out # {}
  OBVIOUS
<1>2. PICK n \in Out : \A m \in Out : ~(<<m, n>> \in OpToRel(<, Nat))
  <2> HIDE DEF Out
  <2> QED BY <1>1, NatLessThanWellFounded, WFMin
<1>3. \A m \in Nat, h \in Nat : m < h => <<m, h>> \in OpToRel(<, Nat)
  BY Zenon DEF OpToRel
<1>4. n \in Nat /\ n # 0
  BY <1>2
<1>5. n - 1 \in Nat /\ n - 1 < n /\ n = (n - 1) + 1
  BY <1>4
<1>6. n - 1 \notin Out
  BY <1>2, <1>3, <1>4, <1>5
<1>7. n - 1 \in T
  BY <1>5, <1>6
<1>8. n \in T
  BY <1>5, <1>7
<1> QED BY <1>2, <1>8

(* Induction on the subsets of a finite set: from a set without one element*)
(* of its own to the set.                                                  *)
LEMMA SubsetInduction ==
    ASSUME NEW S, IsFiniteSet(S), NEW T, {} \in T,
           \A s \in SUBSET S : s # {} => \E x \in s : s \ {x} \in T => s \in T
    PROVE  SUBSET S \subseteq T
<1> DEFINE N == {n \in Nat : \A s \in SUBSET S : Cardinality(s) <= n => s \in T}
<1>1. \A s \in SUBSET S : IsFiniteSet(s) /\ Cardinality(s) \in Nat
  BY FS_Subset, FS_CardinalityType
<1>2. 0 \in N
  <2>1. \A s \in SUBSET S : Cardinality(s) <= 0 => s = {}
    BY <1>1, FS_EmptySet
  <2> QED BY <2>1
<1>3. ASSUME NEW n \in Nat, n \in N PROVE n + 1 \in N
  <2>1. ASSUME NEW s \in SUBSET S, Cardinality(s) <= n + 1, s # {} PROVE s \in T
    <3>1. PICK x \in s : s \ {x} \in T => s \in T
      BY <2>1
    <3>2. Cardinality(s \ {x}) = Cardinality(s) - 1
      BY <1>1, FS_RemoveElement
    <3>3. s \ {x} \in SUBSET S /\ Cardinality(s \ {x}) <= n
      BY <1>1, <2>1, <3>2
    <3>4. s \ {x} \in T
      BY <1>3, <3>3
    <3> QED BY <3>1, <3>4
  <2>2. \A s \in SUBSET S : Cardinality(s) <= n + 1 => s \in T
    BY <2>1
  <2> QED BY <1>3, <2>2
<1>4. Nat \subseteq N
  <2> HIDE DEF N
  <2> QED BY <1>2, <1>3, NatSetInduction
<1> QED BY <1>1, <1>4

Folded(F, S, base, step, pick) ==
    \A s \in SUBSET S : F[s] = IF s = {} THEN base ELSE step[s][F[s \ {pick[s]}]]

(* A fold is well defined: the function that CHOOSE takes exists.          *)
LEMMA FoldExists ==
    ASSUME NEW S, IsFiniteSet(S), NEW C, NEW base \in C,
           NEW pick,
           \A s \in SUBSET S : s # {} => pick[s] \in s,
           NEW step \in [SUBSET S -> [C -> C]]
    PROVE  \E F \in [SUBSET S -> C] : Folded(F, S, base, step, pick)
<1> DEFINE After(F, s) == IF s = {} THEN base ELSE step[s][F[s \ {pick[s]}]]
           UpTo(F, n) == \A s \in SUBSET S : Cardinality(s) <= n => F[s] = After(F, s)
           N == {n \in Nat : \E F \in [SUBSET S -> C] : UpTo(F, n)}
<1>1. \A s \in SUBSET S : /\ IsFiniteSet(s) /\ Cardinality(s) \in Nat
                          /\ Cardinality(s) <= Cardinality(S)
  BY FS_Subset, FS_CardinalityType
<1>2. 0 \in N
  <2>1. \A s \in SUBSET S : Cardinality(s) <= 0 => s = {}
    BY <1>1, FS_EmptySet
  <2>2. UpTo([s \in SUBSET S |-> base], 0)
    BY <2>1
  <2>3. [s \in SUBSET S |-> base] \in [SUBSET S -> C]
    OBVIOUS
  <2> HIDE DEF UpTo
  <2> QED BY <2>2, <2>3
<1>3. ASSUME NEW n \in Nat, n \in N PROVE n + 1 \in N
  <2>1. PICK F \in [SUBSET S -> C] : UpTo(F, n)
    BY <1>3
  <2> DEFINE G == [s \in SUBSET S |-> After(F, s)]
  <2>2. G \in [SUBSET S -> C]
    <3>1. ASSUME NEW s \in SUBSET S, s # {} PROVE After(F, s) \in C
      <4>1. F[s \ {pick[s]}] \in C
        OBVIOUS
      <4> QED BY <3>1, <4>1
    <3>2. \A s \in SUBSET S : After(F, s) \in C
      BY <3>1
    <3> QED BY <3>2
  <2>3. ASSUME NEW s \in SUBSET S, Cardinality(s) <= n + 1, s # {}
        PROVE  G[s] = After(G, s)
    <3> DEFINE r == s \ {pick[s]}
    <3>1. pick[s] \in s
      BY <2>3
    <3>2. Cardinality(r) = Cardinality(s) - 1
      BY <1>1, <3>1, FS_RemoveElement
    <3>3. r \in SUBSET S /\ Cardinality(r) <= n
      BY <1>1, <2>3, <3>2
    <3>4. F[r] = After(F, r)
      BY <2>1, <3>3
    <3>5. G[r] = F[r]
      BY <3>3, <3>4
    <3> QED BY <3>5
  <2>4. UpTo(G, n + 1)
    BY <2>3
  <2> HIDE DEF G, UpTo
  <2> QED BY <2>2, <2>4
<1>4. Nat \subseteq N
  <2> HIDE DEF N
  <2> QED BY <1>2, <1>3, NatSetInduction
<1>5. Cardinality(S) \in N
  BY <1>1, <1>4
<1>6. PICK F \in [SUBSET S -> C] : UpTo(F, Cardinality(S))
  BY <1>5
<1>7. \A s \in SUBSET S : F[s] = After(F, s)
  BY <1>1, <1>6
<1> QED BY <1>7 DEF Folded

----------------------------------------------------------------------------
(* Sums.                                                                   *)

Pick(s) == CHOOSE x \in s : TRUE
SumUp(F, f, S) ==
    F = [s \in SUBSET S |-> IF s = {} THEN 0 ELSE f[Pick(s)] + F[s \ {Pick(s)}]]

(* A sum is 0 only if every summand is, and is the only other one.         *)
LEMMA SumFacts ==
    ASSUME NEW S, IsFiniteSet(S), NEW f \in [S -> Nat]
    PROVE  /\ SumFunctionOnSet(f, S) \in Nat
           /\ SumFunctionOnSet(f, S) = 0 <=> \A x \in S : f[x] = 0
           /\ \A m \in S : (\A x \in S \ {m} : f[x] = 0) => SumFunctionOnSet(f, S) = f[m]
<1> DEFINE F == CHOOSE G : SumUp(G, f, S)
<1>1. SumFunctionOnSet(f, S) = F[S]
  BY DEF SumFunctionOnSet, FoldFunctionOnSet, MapThenFoldSet, SumUp, Pick
<1>2. \A s \in SUBSET S : s # {} => Pick(s) \in s
  BY DEF Pick
<1>3. SumUp(F, f, S)
  <2> DEFINE pick == [s \in SUBSET S |-> Pick(s)]
             step == [s \in SUBSET S |-> [n \in Nat |-> IF s = {} THEN 0 ELSE f[Pick(s)] + n]]
  <2>1. step \in [SUBSET S -> [Nat -> Nat]]
    BY <1>2
  <2>2. \A s \in SUBSET S : s # {} => pick[s] \in s
    BY <1>2
  <2>3. 0 \in Nat
    OBVIOUS
  <2> HIDE DEF pick, step
  <2> HIDE DEF F
  <2>4. PICK G \in [SUBSET S -> Nat] : Folded(G, S, 0, step, pick)
    BY <2>1, <2>2, <2>3, FoldExists
  <2>5. ASSUME NEW s \in SUBSET S, s # {}
        PROVE  step[s][G[s \ {pick[s]}]] = f[Pick(s)] + G[s \ {Pick(s)}]
    <3>1. G[s \ {pick[s]}] \in Nat
      BY <2>4
    <3> QED BY <2>5, <3>1 DEF step, pick
  <2>6. G = [s \in SUBSET S |-> IF s = {} THEN 0 ELSE f[Pick(s)] + G[s \ {Pick(s)}]]
    BY <2>4, <2>5 DEF Folded
  <2>7. SumUp(G, f, S)
    BY <2>6 DEF SumUp
  <2> QED BY <2>7 DEF F
<1> DEFINE Fact(s) ==
      /\ F[s] \in Nat
      /\ F[s] = 0 <=> \A x \in s : f[x] = 0
      /\ \A m \in S : (\A x \in S \ {m} : f[x] = 0) => F[s] = IF m \in s THEN f[m] ELSE 0
<1>4. F[{}] = 0
  BY <1>3 DEF SumUp
<1>5. ASSUME NEW s \in SUBSET S, s # {}
      PROVE  \E x \in s : F[s] = f[x] + F[s \ {x}]
  BY <1>2, <1>3, <1>5 DEF SumUp
<1> HIDE DEF F
<1>6. Fact({})
  BY <1>4
<1>7. ASSUME NEW s \in SUBSET S, s # {} PROVE \E x \in s : Fact(s \ {x}) => Fact(s)
  <2>1. PICK x \in s : F[s] = f[x] + F[s \ {x}]
    BY <1>5, <1>7
  <2>2. f[x] \in Nat
    OBVIOUS
  <2> DEFINE r == s \ {x}
  <2>3. ASSUME Fact(r) PROVE Fact(s)
    <3>1. F[s] \in Nat /\ F[r] \in Nat /\ F[s] = f[x] + F[r]
      BY <2>1, <2>2, <2>3
    <3>2. F[s] = 0 <=> f[x] = 0 /\ F[r] = 0
      BY <2>2, <3>1
    <3>3. F[s] = 0 <=> \A y \in s : f[y] = 0
      BY <2>3, <3>2
    <3>4. ASSUME NEW m \in S, \A y \in S \ {m} : f[y] = 0
          PROVE  F[s] = IF m \in s THEN f[m] ELSE 0
      <4>1. F[r] = IF m \in r THEN f[m] ELSE 0
        BY <2>3, <3>4
      <4>2. CASE x = m
        BY <2>2, <3>1, <4>1, <4>2
      <4>3. CASE x # m
        <5>1. f[x] = 0 /\ (m \in r <=> m \in s)
          BY <3>4, <4>3
        <5> QED BY <3>1, <4>1, <5>1
      <4> QED BY <4>2, <4>3
    <3> QED BY <3>1, <3>3, <3>4
  <2> QED BY <2>3
<1> DEFINE T == {s \in SUBSET S : Fact(s)}
<1>8. SUBSET S \subseteq T
  <2>1. {} \in T
    BY <1>6
  <2>2. \A s \in SUBSET S : s # {} => \E x \in s : s \ {x} \in T => s \in T
    BY <1>7
  <2> HIDE DEF T
  <2> QED BY <2>1, <2>2, SubsetInduction
<1>9. Fact(S)
  BY <1>8
<1> QED BY <1>1, <1>9
----------------------------------------------------------------------------
(* What a batch does to the log.                                           *)

Table == [Key -> [Model -> Nat]]
MaxOf(s) == CHOOSE x \in s : \A y \in s : x >= y
Replaced(F, table, events) ==
    F = [s \in SUBSET DOMAIN events |->
            IF s = {} THEN table ELSE ReplaceRow(F[s \ {MaxOf(s)}], events[MaxOf(s)])]

(* The largest element of a set of positions.                              *)
LEMMA MaxOfSet ==
    ASSUME NEW n \in Nat, NEW s \in SUBSET (1 .. n), s # {}
    PROVE  MaxOf(s) \in s /\ \A y \in s : MaxOf(s) >= y
<1>1. SUFFICES \E x \in s : \A y \in s : x >= y
  BY DEF MaxOf
<1> SUFFICES ASSUME \A x \in s : \E y \in s : y > x
             PROVE  FALSE
  OBVIOUS
<1> DEFINE N == {i \in Nat : i <= n => \A y \in s : n - i >= y}
<1>2. 0 \in N
  OBVIOUS
<1>3. ASSUME NEW i \in Nat, i \in N PROVE i + 1 \in N
  <2>1. ASSUME i + 1 <= n, NEW y \in s PROVE n - (i + 1) >= y
    <3>1. \A z \in s : n - i >= z /\ z \in Nat
      BY <1>3, <2>1
    <3>2. PICK z \in s : z > y
      OBVIOUS
    <3> QED BY <2>1, <3>1, <3>2
  <2> QED BY <2>1
<1>4. Nat \subseteq N
  <2> HIDE DEF N
  <2> QED BY <1>2, <1>3, NatSetInduction
<1>5. \A y \in s : 0 >= y
  <2>1. n \in N
    BY <1>4
  <2> QED BY <2>1
<1>6. PICK y \in s : TRUE
  OBVIOUS
<1>7. y \in 1 .. n
  OBVIOUS
<1> QED BY <1>5, <1>6, <1>7

(* INSERT OR REPLACE keeps the table a table.                              *)
LEMMA ReplaceRowType ==
    ASSUME NEW table \in Table, NEW e \in TokenEvent
    PROVE  ReplaceRow(table, e) \in Table
BY DEF ReplaceRow, Table, TokenEvent

(* The batch is written in its order, one event after the other.           *)
LEMMA BatchSteps ==
    ASSUME NEW table \in Table, NEW events \in Seq(TokenEvent)
    PROVE  \E P \in [0 .. Len(events) -> Table] :
            /\ P[0] = table
            /\ \A i \in 1 .. Len(events) : P[i] = ReplaceRow(P[i - 1], events[i])
            /\ FoldLeft(ReplaceRow, table, events) = P[Len(events)]
<1> DEFINE F == CHOOSE G : Replaced(G, table, events)
           S == DOMAIN events
           n == Len(events)
<1>1. FoldLeft(ReplaceRow, table, events) = F[S]
  BY DEF FoldLeft, MapThenFoldSet, Max, Replaced, MaxOf
<1>2. S = 1 .. n /\ n \in Nat /\ \A i \in S : events[i] \in TokenEvent
  BY ElementOfSeq, LenProperties
<1>3. IsFiniteSet(S)
  BY <1>2, FS_Interval
<1> HIDE DEF F
<1>8. \A s \in SUBSET S : s # {} => MaxOf(s) \in s
  BY <1>2, MaxOfSet
<1>4. Replaced(F, table, events)
  <2> DEFINE pick == [s \in SUBSET S |-> MaxOf(s)]
             step == [s \in SUBSET S |-> [t \in Table |->
                        IF s = {} THEN t ELSE ReplaceRow(t, events[MaxOf(s)])]]
  <2>2. step \in [SUBSET S -> [Table -> Table]]
    BY <1>2, <1>8, ReplaceRowType
  <2>3. \A s \in SUBSET S : s # {} => pick[s] \in s
    BY <1>8
  <2> HIDE DEF pick, step, S
  <2>4. PICK G \in [SUBSET S -> Table] : Folded(G, S, table, step, pick)
    BY <1>3, <2>2, <2>3, FoldExists
  <2>5. ASSUME NEW s \in SUBSET S, s # {}
        PROVE  step[s][G[s \ {pick[s]}]] = ReplaceRow(G[s \ {MaxOf(s)}], events[MaxOf(s)])
    <3>1. G[s \ {pick[s]}] \in Table
      BY <2>4
    <3> QED BY <2>5, <3>1 DEF step, pick
  <2>6. G = [s \in SUBSET S |-> IF s = {} THEN table
                                ELSE ReplaceRow(G[s \ {MaxOf(s)}], events[MaxOf(s)])]
    BY <2>4, <2>5 DEF Folded
  <2>7. Replaced(G, table, events)
    BY <2>4, <2>6 DEF Replaced, S
  <2> QED BY <2>7 DEF F
<1>10. \A s \in SUBSET S :
        F[s] = IF s = {} THEN table ELSE ReplaceRow(F[s \ {MaxOf(s)}], events[MaxOf(s)])
  BY <1>4 DEF Replaced
<1> HIDE DEF S
<1>9. \A s \in SUBSET S : F[s] \in Table
  <2> DEFINE T == {s \in SUBSET S : F[s] \in Table}
  <2>1. {} \in T
    BY <1>10
  <2>2. ASSUME NEW s \in SUBSET S, s # {} PROVE \E x \in s : s \ {x} \in T => s \in T
    <3>1. MaxOf(s) \in s /\ F[s] = ReplaceRow(F[s \ {MaxOf(s)}], events[MaxOf(s)])
      BY <1>10, <1>8, <2>2
    <3> QED BY <1>2, <3>1, ReplaceRowType
  <2>3. SUBSET S \subseteq T
    <3> HIDE DEF T
    <3> QED BY <1>3, <2>1, <2>2, SubsetInduction
  <2> QED BY <2>3
<1> DEFINE P == [i \in 0 .. n |-> F[1 .. i]]
<1>5. P \in [0 .. n -> Table] /\ P[0] = table
  <2>1. \A i \in 0 .. n : 1 .. i \in SUBSET S
    BY <1>2
  <2>2. 1 .. 0 = {} /\ F[{}] = table
    <3>1. {} \in SUBSET S
      OBVIOUS
    <3>2. 1 .. 0 = {}
      OBVIOUS
    <3>3. F[{}] = table
      BY <1>10, <3>1
    <3> QED BY <3>2, <3>3
  <2> QED BY <1>2, <1>9, <2>1, <2>2
<1>6. ASSUME NEW i \in 1 .. n PROVE P[i] = ReplaceRow(P[i - 1], events[i])
  <2>1. 1 .. i \in SUBSET S /\ 1 .. i # {}
    <3>1. i \in Nat /\ i <= n /\ n \in Nat /\ i \in 1 .. i
      BY <1>2
    <3>2. 1 .. i \subseteq 1 .. n
      BY <3>1
    <3> QED BY <1>2, <3>1, <3>2
  <2>2. MaxOf(1 .. i) = i
    <3>1. MaxOf(1 .. i) \in 1 .. i /\ MaxOf(1 .. i) >= i
      <4>1. i \in Nat /\ 1 .. i \in SUBSET (1 .. i) /\ i \in 1 .. i
        BY <1>2
      <4> QED BY <2>1, <4>1, MaxOfSet
    <3> QED BY <1>2, <3>1
  <2>3. (1 .. i) \ {i} = 1 .. (i - 1)
    BY <1>2
  <2>4. F[1 .. i] = ReplaceRow(F[1 .. (i - 1)], events[i])
    BY <1>10, <2>1, <2>2, <2>3
  <2> QED BY <2>4
<1>7. FoldLeft(ReplaceRow, table, events) = P[n]
  BY <1>1, <1>2
<1> HIDE DEF P
<1> QED BY <1>5, <1>6, <1>7

----------------------------------------------------------------------------
(* Rows, and what a batch does to them.                                    *)

Empty(row) == \A m \in Model : row[m] = 0
Single(row) == \E m \in Model : row[m] = 1 /\ \A n \in Model \ {m} : row[n] = 0

(* What a batch of events does to the row of each key.                     *)
Has(events, k) == \E i \in 1 .. Len(events) : events[i].key = k
Once(events, k) ==
    \A i, j \in 1 .. Len(events) : events[i].key = k /\ events[j].key = k => i = j

(* One INSERT OR REPLACE (idx_token_dedup_chat): it touches the rows of    *)
(* its own key only, and leaves exactly one when it is a CHAT_ key or had  *)
(* none.                                                                   *)
LEMMA ReplaceRowFacts ==
    ASSUME NEW table \in Table, NEW e \in TokenEvent
    PROVE  /\ \A k \in Key \ {e.key} : ReplaceRow(table, e)[k] = table[k]
           /\ ~Empty(ReplaceRow(table, e)[e.key])
           /\ e.key \in Chat \/ Empty(table[e.key]) => Single(ReplaceRow(table, e)[e.key])
<1> DEFINE row == [m \in Model |-> (IF m = e.model THEN 1 ELSE 0)
                         + (IF e.key \in Chat THEN 0 ELSE table[e.key][m])]
<1>1. e.key \in Key /\ e.model \in Model
  BY DEF TokenEvent
<1>2. /\ ReplaceRow(table, e)[e.key] = row
      /\ \A k \in Key \ {e.key} : ReplaceRow(table, e)[k] = table[k]
  BY <1>1 DEF ReplaceRow, Table
<1>3. table[e.key] \in [Model -> Nat]
  BY <1>1 DEF Table
<1>4. row[e.model] # 0
  BY <1>1, <1>3
<1>5. e.key \in Chat \/ Empty(table[e.key]) =>
        row[e.model] = 1 /\ \A n \in Model \ {e.model} : row[n] = 0
  BY <1>1, <1>3 DEF Empty
<1> HIDE DEF row
<1> QED BY <1>1, <1>2, <1>4, <1>5 DEF Empty, Single

BatchDoes(before, after, events) ==
    /\ after \in Table
    /\ \A k \in Key : ~Has(events, k) => after[k] = before[k]
    /\ \A k \in Key : Has(events, k) \/ ~Empty(before[k]) => ~Empty(after[k])
    /\ \A k \in Key : Has(events, k) /\ (k \in Chat \/ (Once(events, k) /\ Empty(before[k])))
                        => Single(after[k])

(* One InsertUsageBatch, by induction on the length of the batch: keys     *)
(* that are not in it keep their rows, keys in it have one.                *)
LEMMA BatchFacts ==
    ASSUME NEW table \in Table, NEW events \in Seq(TokenEvent)
    PROVE  BatchDoes(table, FoldLeft(ReplaceRow, table, events), events)
<1> DEFINE n == Len(events)
<1>1. n \in Nat /\ \A i \in 1 .. n : events[i] \in TokenEvent /\ events[i].key \in Key
  <2>1. n \in Nat /\ \A i \in 1 .. n : events[i] \in TokenEvent
    BY ElementOfSeq, LenProperties
  <2> QED BY <2>1 DEF TokenEvent
<1>2. PICK P \in [0 .. n -> Table] :
            /\ P[0] = table
            /\ \A i \in 1 .. n : P[i] = ReplaceRow(P[i - 1], events[i])
            /\ FoldLeft(ReplaceRow, table, events) = P[n]
  BY BatchSteps
<1> DEFINE Seen(i, k) == \E j \in 1 .. i : events[j].key = k
           Fact(i, k) ==
             /\ ~Seen(i, k) => P[i][k] = table[k]
             /\ Seen(i, k) \/ ~Empty(table[k]) => ~Empty(P[i][k])
             /\ Seen(i, k) /\ (k \in Chat \/ (Once(events, k) /\ Empty(table[k])))
                  => Single(P[i][k])
           N == {i \in Nat : i <= n => \A k \in Key : Fact(i, k)}
<1>3. 0 \in N
  BY <1>2
<1>4. ASSUME NEW i \in Nat, i \in N PROVE i + 1 \in N
  <2> SUFFICES ASSUME i + 1 <= n, NEW k \in Key PROVE Fact(i + 1, k)
    OBVIOUS
  <2> DEFINE e == events[i + 1]
  <2>1. i \in 0 .. n /\ i + 1 \in 1 .. n /\ P[i] \in Table /\ e \in TokenEvent
    BY <1>1
  <2>2. P[i + 1] = ReplaceRow(P[i], e)
    BY <1>2, <2>1
  <2>3. Fact(i, k)
    BY <1>4, <2>1
  <2>4. Seen(i + 1, k) <=> Seen(i, k) \/ e.key = k
    BY <1>1, <2>1
  <2>5. e.key = k /\ Once(events, k) => ~Seen(i, k)
    BY <1>1, <2>1 DEF Once
  <2>6. /\ k # e.key => P[i + 1][k] = P[i][k]
        /\ k = e.key => ~Empty(P[i + 1][k])
        /\ k = e.key /\ (k \in Chat \/ Empty(P[i][k])) => Single(P[i + 1][k])
    BY <2>1, <2>2, ReplaceRowFacts
  <2> HIDE DEF e, Seen
  <2> QED BY <2>3, <2>4, <2>5, <2>6
<1>5. n \in N
  <2> HIDE DEF N
  <2> QED BY <1>1, <1>3, <1>4, NatSetInduction
<1>6. \A k \in Key : Fact(n, k)
  BY <1>1, <1>5
<1>7. P[n] \in Table
  BY <1>1
<1> QED BY <1>2, <1>6, <1>7 DEF BatchDoes, Has

(* Rows and groups.                                                        *)
LEMMA RowFacts ==
    ASSUME StoreTypeOK, NEW k \in Key
    PROVE  /\ Rows(k) \in Nat
           /\ Stored(k) <=> ~Empty(logs[k])
           /\ Single(logs[k]) => Rows(k) = 1
<1>2. logs[k] \in [Model -> Nat] /\ IsFiniteSet(Model)
  BY StoreAssumption DEF StoreTypeOK
<1>1. Rows(k) = SumFunctionOnSet(logs[k], Model)
  BY <1>2 DEF Rows, SumFunction
<1>3. /\ Rows(k) \in Nat
      /\ Rows(k) = 0 <=> \A m \in Model : logs[k][m] = 0
      /\ \A m \in Model : (\A x \in Model \ {m} : logs[k][x] = 0) => Rows(k) = logs[k][m]
  BY <1>1, <1>2, SumFacts
<1> QED BY <1>3 DEF Stored, Empty, Single

(* A group is in the SELECT of the rollup when some key has a row in it.   *)
LEMMA GroupFacts ==
    ASSUME StoreTypeOK, NEW m \in Model
    PROVE  /\ GroupCount(m) \in Nat
           /\ GroupCount(m) > 0 <=> \E k \in Key : logs[k][m] > 0
<1> DEFINE column == [k \in Key |-> logs[k][m]]
<1>1. GroupCount(m) = SumFunctionOnSet(column, Key)
  BY DEF GroupCount, SumFunction
<1>2. column \in [Key -> Nat] /\ IsFiniteSet(Key)
  BY StoreAssumption DEF StoreTypeOK
<1>3. /\ GroupCount(m) \in Nat
      /\ GroupCount(m) = 0 <=> \A k \in Key : column[k] = 0
  BY <1>1, <1>2, SumFacts
<1> QED BY <1>2, <1>3

----------------------------------------------------------------------------
(* Removing the first element of a non-empty sequence and putting it back  *)
(* in front restores the sequence.                                         *)
LEMMA HeadThenTail ==
    ASSUME NEW S, NEW s \in Seq(S), s # <<>>
    PROVE  /\ Head(s) \in S
           /\ Tail(s) \in Seq(S)
           /\ Len(Tail(s)) = Len(s) - 1
           /\ <<Head(s)>> \o Tail(s) = s
<1>1. /\ Head(s) \in S
      /\ Tail(s) \in Seq(S)
      /\ Len(Tail(s)) = Len(s) - 1
    BY HeadTailProperties
<1>2. /\ Len(s) \in Nat \ {0}
      /\ s[1] = Head(s)
    BY EmptySeq, LenProperties
<1>3. /\ <<Head(s)>> \in Seq(S)
      /\ Len(<<Head(s)>>) = 1
      /\ <<Head(s)>>[1] = Head(s)
    BY <1>1
<1>4. <<Head(s)>> \o Tail(s) \in Seq(S)
    BY <1>1, <1>3, ConcatProperties
<1>5. Len(<<Head(s)>> \o Tail(s)) = Len(s)
    BY <1>1, <1>2, <1>3, ConcatProperties
<1>6. ASSUME NEW i \in 1 .. Len(s)
      PROVE  (<<Head(s)>> \o Tail(s))[i] = s[i]
    BY <1>1, <1>2, <1>3, ConcatProperties, HeadTailProperties
<1>. QED  BY <1>1, <1>4, <1>5, <1>6, SeqEqual

----------------------------------------------------------------------------
(* Moving the head of the channel to the end of the batch changes nothing  *)
(* in what the two hold together.                                          *)
LEMMA ReceiveKeepsOrder ==
    ASSUME NEW S, NEW b \in Seq(S), NEW c \in Seq(S), c # <<>>
    PROVE  /\ Append(b, Head(c)) \in Seq(S)
           /\ Tail(c) \in Seq(S)
           /\ Append(b, Head(c)) \o Tail(c) = b \o c
           /\ Len(Append(b, Head(c))) = Len(b) + 1
           /\ Len(Tail(c)) = Len(c) - 1
<1>1. /\ Head(c) \in S
      /\ Tail(c) \in Seq(S)
      /\ Len(Tail(c)) = Len(c) - 1
      /\ <<Head(c)>> \o Tail(c) = c
    BY HeadThenTail
<1>2. /\ Append(b, Head(c)) = b \o <<Head(c)>>
      /\ Append(b, Head(c)) \in Seq(S)
      /\ Len(Append(b, Head(c))) = Len(b) + 1
      /\ <<Head(c)>> \in Seq(S)
    BY <1>1, AppendIsConcat, AppendProperties
<1>3. (b \o <<Head(c)>>) \o Tail(c) = b \o (<<Head(c)>> \o Tail(c))
    BY <1>1, <1>2, ConcatAssociative, SMTT(60)
<1>. QED  BY <1>1, <1>2, <1>3

----------------------------------------------------------------------------
(* What is in the buffer, in the order in which it will be written.        *)
InBuffer == batch \o chan
Pending(k) == Has(InBuffer, k)

BufferInv ==
    /\ BufTypeOK(TokenEvent)
    /\ pc \in {"select", "flush"}
    /\ pc = "select" => Len(batch) < BatchSize

(* Positions of a concatenation.                                           *)
LEMMA Positions ==
    ASSUME NEW S, NEW s \in Seq(S), NEW t \in Seq(S)
    PROVE  /\ s \o t \in Seq(S) /\ Len(s) \in Nat /\ Len(t) \in Nat
           /\ Len(s \o t) = Len(s) + Len(t)
           /\ \A i \in 1 .. Len(s) : (s \o t)[i] = s[i]
           /\ \A i \in 1 .. Len(t) : (s \o t)[Len(s) + i] = t[i]
<1>1. Len(s) \in Nat /\ Len(t) \in Nat
  BY LenProperties
<1>2. /\ s \o t \in Seq(S)
      /\ Len(s \o t) = Len(s) + Len(t)
      /\ \A i \in 1 .. Len(s) + Len(t) :
            (s \o t)[i] = IF i <= Len(s) THEN s[i] ELSE t[i - Len(s)]
  BY ConcatProperties
<1>3. ASSUME NEW i \in 1 .. Len(s) PROVE (s \o t)[i] = s[i]
  BY <1>1, <1>2
<1>4. ASSUME NEW i \in 1 .. Len(t) PROVE (s \o t)[Len(s) + i] = t[i]
  <2>1. Len(s) + i \in 1 .. Len(s) + Len(t) /\ ~(Len(s) + i <= Len(s)) /\ (Len(s) + i) - Len(s) = i
    BY <1>1
  <2> QED BY <1>2, <2>1
<1> QED BY <1>1, <1>2, <1>3, <1>4

(* What two sequences hold together.                                       *)
LEMMA HasConcat ==
    ASSUME NEW s \in Seq(TokenEvent), NEW t \in Seq(TokenEvent), NEW k
    PROVE  Has(s \o t, k) <=> Has(s, k) \/ Has(t, k)
<1>1. /\ Len(s) \in Nat /\ Len(t) \in Nat
      /\ Len(s \o t) = Len(s) + Len(t)
      /\ \A i \in 1 .. Len(s) : (s \o t)[i] = s[i]
      /\ \A i \in 1 .. Len(t) : (s \o t)[Len(s) + i] = t[i]
  BY Positions
<1>2. ASSUME Has(s, k) PROVE Has(s \o t, k)
  <2>1. PICK i \in 1 .. Len(s) : s[i].key = k
    BY <1>2 DEF Has
  <2>2. i \in 1 .. Len(s \o t) /\ (s \o t)[i].key = k
    BY <1>1, <2>1
  <2> QED BY <2>2 DEF Has
<1>3. ASSUME Has(t, k) PROVE Has(s \o t, k)
  <2>1. PICK i \in 1 .. Len(t) : t[i].key = k
    BY <1>3 DEF Has
  <2>2. Len(s) + i \in 1 .. Len(s \o t) /\ (s \o t)[Len(s) + i].key = k
    BY <1>1, <2>1
  <2> QED BY <2>2 DEF Has
<1>4. ASSUME Has(s \o t, k) PROVE Has(s, k) \/ Has(t, k)
  <2>1. PICK i \in 1 .. Len(s \o t) : (s \o t)[i].key = k
    BY <1>4 DEF Has
  <2>2. CASE i <= Len(s)
    <3>1. i \in 1 .. Len(s) /\ s[i].key = k
      BY <1>1, <2>1, <2>2
    <3> QED BY <3>1 DEF Has
  <2>3. CASE i > Len(s)
    <3>1. i - Len(s) \in 1 .. Len(t) /\ Len(s) + (i - Len(s)) = i
      BY <1>1, <2>1, <2>3
    <3>2. t[i - Len(s)].key = k
      BY <1>1, <2>1, <3>1
    <3> QED BY <3>1, <3>2 DEF Has
  <2> QED BY <1>1, <2>1, <2>2, <2>3
<1> QED BY <1>2, <1>3, <1>4

(* The keys of a sequence of events, as positions.                         *)
LEMMA HasKey ==
    ASSUME NEW s \in Seq(TokenEvent), NEW k
    PROVE  /\ k \in KeysOf(s) <=> Has(s, k)
           /\ Has(s, k) => k \in Key
<1>1. Len(s) \in Nat /\ DOMAIN s = 1 .. Len(s)
  BY LenProperties
<1>2. \A i \in 1 .. Len(s) : s[i] \in TokenEvent
  BY ElementOfSeq
<1> QED BY <1>1, <1>2 DEF KeysOf, ToSet, Has, TokenEvent

(* What is in a sequence after an append.                                  *)
LEMMA HasAppended ==
    ASSUME NEW s \in Seq(TokenEvent), NEW e \in TokenEvent
    PROVE  \A k : Has(Append(s, e), k) <=> Has(s, k) \/ k = e.key
<1>1. /\ Len(s) \in Nat
      /\ Len(Append(s, e)) = Len(s) + 1
      /\ \A i \in 1 .. Len(s) : Append(s, e)[i] = s[i]
      /\ Append(s, e)[Len(s) + 1] = e
  BY AppendProperties, LenProperties
<1>2. /\ Len(s) + 1 \in 1 .. Len(s) + 1
      /\ \A i \in 1 .. Len(s) + 1 : i \in 1 .. Len(s) \/ i = Len(s) + 1
  BY <1>1
<1> QED BY <1>1, <1>2 DEF Has

(* The empty sequence has no key.                                          *)
LEMMA HasNothing == \A k : ~Has(<<>>, k)
BY EmptySeq DEF Has

(* The keys in the buffer, however channel and batch are put together.     *)
LEMMA PendingIs ==
    ASSUME BufferInv, NEW k
    PROVE  /\ k \in KeysOf(chan \o batch) <=> Pending(k)
           /\ Pending(k) <=> Has(batch, k) \/ Has(chan, k)
           /\ Pending(k) => k \in Key
<1>1. chan \in Seq(TokenEvent) /\ batch \in Seq(TokenEvent)
  BY DEF BufferInv, BufTypeOK
<1>2. chan \o batch \in Seq(TokenEvent) /\ InBuffer \in Seq(TokenEvent)
  BY <1>1, Positions DEF InBuffer
<1> QED BY <1>1, <1>2, HasConcat, HasKey DEF InBuffer, Pending

----------------------------------------------------------------------------
(* The steps of the buffer.                                                *)

PushEffect(e) ==
    /\ Len(InBuffer') = Len(InBuffer) + 1
    /\ \A i \in 1 .. Len(InBuffer) : InBuffer'[i] = InBuffer[i]
    /\ InBuffer'[Len(InBuffer) + 1] = e
    /\ \A k : Pending(k)' <=> Pending(k) \/ k = e.key
    /\ chan' # chan

(* Push puts one event at the end of what is in the buffer.                *)
LEMMA PushStep ==
    ASSUME BufferInv, NEW e \in TokenEvent, Push(e)
    PROVE  BufferInv' /\ PushEffect(e) /\ Len(InBuffer) \in Nat
<1>1. /\ chan \in Seq(TokenEvent) /\ batch \in Seq(TokenEvent)
      /\ Len(chan) < Capacity /\ Len(chan) \in Nat
      /\ chan' = Append(chan, e) /\ batch' = batch /\ pc' = pc /\ cancelled' = cancelled
  BY LenProperties DEF BufferInv, BufTypeOK, Push, HasRoom
<1>2. chan' \in Seq(TokenEvent) /\ Len(chan') = Len(chan) + 1
  BY <1>1, AppendProperties
<1>3. BufferInv'
  BY <1>1, <1>2, BufferAssumption DEF BufferInv, BufTypeOK
<1>4. InBuffer' = Append(InBuffer, e)
  <2>1. Append(chan, e) = chan \o <<e>> /\ <<e>> \in Seq(TokenEvent)
    BY <1>1, AppendIsConcat
  <2>2. batch \o (chan \o <<e>>) = (batch \o chan) \o <<e>>
    BY <1>1, <2>1, ConcatAssociative, SMTT(60)
  <2>3. batch \o chan \in Seq(TokenEvent)
    BY <1>1, Positions
  <2>4. Append(batch \o chan, e) = (batch \o chan) \o <<e>>
    BY <2>3, AppendIsConcat
  <2> QED BY <1>1, <2>1, <2>2, <2>4 DEF InBuffer
<1>5. InBuffer \in Seq(TokenEvent) /\ Len(InBuffer) \in Nat
  BY <1>1, Positions, LenProperties DEF InBuffer
<1>6. PushEffect(e)
  <2>1. /\ Len(InBuffer') = Len(InBuffer) + 1
        /\ \A i \in 1 .. Len(InBuffer) : InBuffer'[i] = InBuffer[i]
        /\ InBuffer'[Len(InBuffer) + 1] = e
    BY <1>4, <1>5, AppendProperties
  <2>2. \A k : Has(InBuffer', k) <=> Has(InBuffer, k) \/ k = e.key
    BY <1>4, <1>5, HasAppended
  <2>3. chan' # chan
    BY <1>1, <1>2
  <2> QED BY <2>1, <2>2, <2>3 DEF PushEffect, Pending
<1> QED BY <1>3, <1>5, <1>6

(* The worker's receive and tick leave what is in the buffer as it is.     *)
LEMMA TakeStep ==
    ASSUME BufferInv, TakeEvent \/ Tick
    PROVE  BufferInv' /\ InBuffer' = InBuffer
<1>1. /\ chan \in Seq(TokenEvent) /\ batch \in Seq(TokenEvent)
      /\ Len(chan) \in Nat /\ Len(batch) \in Nat
  BY LenProperties DEF BufferInv, BufTypeOK
<1>2. CASE Tick
  BY <1>2 DEF Tick, BufferInv, BufTypeOK, InBuffer, WorkerStates, Flushing
<1>3. CASE TakeEvent
  <2>1. /\ chan # <<>> /\ batch' = Append(batch, Head(chan)) /\ chan' = Tail(chan)
        /\ pc = "select" /\ pc' = IF IsFull(batch') THEN "flush" ELSE "select"
        /\ cancelled' = cancelled
    BY <1>3 DEF TakeEvent
  <2>2. /\ batch' \in Seq(TokenEvent) /\ chan' \in Seq(TokenEvent)
        /\ batch' \o chan' = batch \o chan
        /\ Len(batch') = Len(batch) + 1 /\ Len(chan') = Len(chan) - 1
    BY <1>1, <2>1, ReceiveKeepsOrder
  <2>3. BufferInv'
    BY <1>1, <2>1, <2>2, BufferAssumption
       DEF BufferInv, BufTypeOK, IsFull, WorkerStates, Flushing
  <2> QED BY <2>2, <2>3 DEF InBuffer
<1> QED BY <1>2, <1>3

FlushEffect ==
    /\ Len(InBuffer) = Len(batch) + Len(InBuffer')
    /\ \A i \in 1 .. Len(batch) : InBuffer[i] = batch[i]
    /\ \A i \in 1 .. Len(InBuffer') : InBuffer'[i] = InBuffer[Len(batch) + i]
    /\ \A k : Pending(k) <=> Pending(k)' \/ Has(batch, k)

(* The worker takes the batch, the front of what is in the buffer, away.   *)
LEMMA FlushStep ==
    ASSUME BufferInv, FlushReturns
    PROVE  BufferInv' /\ FlushEffect /\ Len(batch) \in Nat /\ Len(InBuffer') \in Nat
<1>1. /\ chan \in Seq(TokenEvent) /\ batch \in Seq(TokenEvent)
      /\ Len(chan) \in Nat /\ Len(batch) \in Nat
  BY LenProperties DEF BufferInv, BufTypeOK
<1>2. /\ batch' = <<>> /\ chan' = chan /\ cancelled' = cancelled
      /\ pc = "flush" /\ pc' = "select"
  BY DEF BufferInv, FlushReturns, Flushing
<1>3. <<>> \in Seq(TokenEvent) /\ Len(<<>>) = 0
  BY EmptySeq
<1>4. BufferInv'
  BY <1>1, <1>2, <1>3, BufferAssumption DEF BufferInv, BufTypeOK, WorkerStates
<1>5. InBuffer' = chan
  BY <1>1, <1>2, ConcatEmptySeq DEF InBuffer
<1>6. \A k : Pending(k) <=> Has(batch, k) \/ Has(chan, k)
  BY PendingIs
<1>7. \A k : Pending(k)' <=> Has(chan, k)
  BY <1>5 DEF Pending
<1> QED BY <1>1, <1>4, <1>5, <1>6, <1>7, Positions DEF FlushEffect, InBuffer

----------------------------------------------------------------------------
(* The constants and the types.                                            *)

(* What is known of the constants.                                         *)
Turn(k) == Script[k[1]][k[2]]

(* The directories, the scripts and the chat keys.                         *)
LEMMA ScriptFacts ==
    /\ \A i \in 1 .. Len(Dirs) : Dirs[i] \in Conv
    /\ Len(Dirs) \in Nat
    /\ \A c \in Conv : Len(Script[c]) \in Nat
    /\ \A c \in Conv : \A n \in 1 .. Len(Script[c]) :
        /\ Script[c][n] \in Line
        /\ Script[c][n].responds => <<c, n>> \in Chat
        /\ Script[c][n].calls => Script[c][n].responds
    /\ \A k \in Chat : /\ k[1] \in Conv /\ k[2] \in 1 .. Len(Script[k[1]])
                       /\ k = <<k[1], k[2]>>
<1>1. \A i \in 1 .. Len(Dirs) : Dirs[i] \in Conv
  BY TailerAssumption, ElementOfSeq
<1>2. Len(Dirs) \in Nat
  BY TailerAssumption, LenProperties
<1>3. ASSUME NEW c \in Conv
      PROVE  /\ Len(Script[c]) \in Nat /\ Lines(c) = 1 .. Len(Script[c])
             /\ \A n \in 1 .. Len(Script[c]) : Script[c][n] \in Line
  <2>1. Script[c] \in Seq(Line)
    BY TailerAssumption
  <2> QED BY <2>1, ElementOfSeq, LenProperties DEF Lines
<1>4. ASSUME NEW c \in Conv, NEW n \in 1 .. Len(Script[c])
      PROVE  /\ Script[c][n].responds => <<c, n>> \in Chat
             /\ Script[c][n].calls => Script[c][n].responds
  BY <1>3, TailerAssumption
<1>5. ASSUME NEW k \in Chat
      PROVE  /\ k[1] \in Conv /\ k[2] \in 1 .. Len(Script[k[1]])
             /\ k = <<k[1], k[2]>>
  <2>1. PICK c \in Conv : \E n \in Lines(c) : k = <<c, n>>
    BY TailerAssumption
  <2>2. PICK n \in Lines(c) : k = <<c, n>>
    BY <2>1
  <2> QED BY <1>3, <2>1, <2>2
<1> QED BY <1>1, <1>2, <1>3, <1>4, <1>5

(* The end of the line at a position, for a position at a line and one in  *)
(* its middle.                                                             *)
LEMMA Halves ==
    ASSUME NEW p \in Nat
    PROVE  /\ LineNo(p) \in Nat \ {0} /\ LineEnd(p) \in Nat
           /\ LineEnd(p) = 2 * LineNo(p)
           /\ Whole(p) => LineEnd(p) = p + 2
           /\ ~Whole(p) => LineEnd(p) = p + 1
           /\ Whole(LineEnd(p))
BY DEF LineNo, LineEnd, Whole

----------------------------------------------------------------------------
(* Types, and what is known of where each reader is.                       *)
Places ==
    /\ written \in [Conv -> Nat] /\ offset \in [Conv -> Nat]
    /\ mark \in [Conv -> Nat] /\ synced \in [Conv -> Nat]
    /\ clean \in BOOLEAN
    /\ \A c \in Conv : written[c] <= 2 * Len(Script[c])
    /\ \A c \in Conv : mark[c] <= written[c] /\ synced[c] <= written[c]
    /\ \A c \in Conv : offset[c] <= written[c]
PollRecord == [at : {"idle", "stat", "read"}, i : Nat, pos : Nat, size : Nat]
PollInv ==
    /\ currentModel \in Model
    /\ mu \in {"free", "poll", "fill"}
    /\ poll \in PollRecord
    /\ poll.at = "idle" <=> mu # "poll"
    /\ poll.at # "idle" => poll.i \in 1 .. Len(Dirs) + 1
    /\ poll.at = "read" =>
        /\ poll.i <= Len(Dirs)
        /\ offset[Dirs[poll.i]] <= poll.pos
        /\ ~Whole(poll.pos) => poll.pos = offset[Dirs[poll.i]]
        /\ offset[Dirs[poll.i]] < poll.size
        /\ poll.size <= written[Dirs[poll.i]]
FillRecord == [at : {"idle", "read"}, i : Nat, pos : Nat, model : Model,
               events : Seq(TokenEvent), tasks : SUBSET Chat]
FillInv ==
    /\ fill \in FillRecord
    /\ fill.at = "idle" <=> mu # "fill"
    /\ fill.at = "idle" => fill = NoFill
    /\ fill.at = "read" => fill.i \in 1 .. Len(Dirs) + 1
    /\ Whole(fill.pos)
    /\ Len(fill.events) < FlushEvery
    /\ Cardinality(fill.tasks) < TasksEvery
TypeInv == BufferInv /\ StoreTypeOK /\ Places /\ PollInv /\ FillInv

(* The strengthened types imply the checked ones.                          *)
LEMMA TypesImplied == TypeInv => TypeOK
<1> SUFFICES ASSUME TypeInv PROVE TypeOK
  OBVIOUS
<1>1. /\ \A c \in Conv : written[c] \in 0 .. 2 * Len(Script[c])
      /\ \A c \in Conv : offset[c] \in 0 .. written[c]
  BY ScriptFacts DEF TypeInv, Places
<1> QED BY <1>1 DEF TypeInv, BufferInv, PollInv, FillInv, FillRecord, TypeOK

(* A backfill that is not running.                                         *)
LEMMA NoFillType ==
    /\ NoFill \in FillRecord
    /\ Whole(NoFill.pos) /\ Len(NoFill.events) < FlushEvery
    /\ Cardinality(NoFill.tasks) < TasksEvery
    /\ NoFill.at = "idle"
<1>1. <<>> \in Seq(TokenEvent) /\ Len(<<>>) = 0
  BY EmptySeq
<1>2. Cardinality({}) = 0
  BY FS_EmptySet
<1>3. DefaultModel \in Model /\ 0 < FlushEvery /\ 0 < TasksEvery
  BY TailerAssumption
<1> QED BY <1>1, <1>2, <1>3 DEF NoFill, FillRecord, Whole

(* The initial states have their types.                                    *)
LEMMA TypeInit == Init => TypeInv
<1> SUFFICES ASSUME Init PROVE TypeInv
  OBVIOUS
<1> USE DEF Init
<1>1. <<>> \in Seq(TokenEvent) /\ Len(<<>>) = 0
  BY EmptySeq
<1>2. BufferInv
  <2>1. 0 <= Capacity /\ 0 <= BatchSize /\ 0 < BatchSize
    BY BufferAssumption
  <2>2. chan = <<>> /\ batch = <<>> /\ pc = "select" /\ cancelled = FALSE
    BY DEF BufInit
  <2> QED BY <1>1, <2>1, <2>2 DEF BufferInv, BufTypeOK, WorkerStates
<1>3. StoreTypeOK
  BY DEF StoreInit, StoreTypeOK
<1>4. Places
  BY ScriptFacts DEF TailerInit, Places
<1>5. PollInv
  BY TailerAssumption DEF TailerInit, PollInv, PollRecord, Idle
<1>6. FillInv
  BY NoFillType DEF TailerInit, FillInv
<1> QED BY <1>2, <1>3, <1>4, <1>5, <1>6 DEF TypeInv

(* Writes to the store keep its types.                                     *)
LEMMA UsageBatch ==
    ASSUME StoreTypeOK, NEW events \in Seq(TokenEvent), NEW ok \in BOOLEAN,
           InsertUsageBatch(events, ok)
    PROVE  /\ logs' \in Table
           /\ ok => BatchDoes(logs, logs', events)
           /\ ~ok => logs' = logs
<1>1. logs \in Table
  BY DEF StoreTypeOK, Table
<1>2. BatchDoes(logs, FoldLeft(ReplaceRow, logs, events), events)
  BY <1>1, BatchFacts
<1> QED BY <1>1, <1>2 DEF InsertUsageBatch, AfterBatch, BatchDoes

(* There are finitely many tool calls to hold back.                        *)
LEMMA ChatFinite == \A T \in SUBSET Chat : IsFiniteSet(T)
BY StoreAssumption, FS_Subset DEF Key

----------------------------------------------------------------------------
(* The types are kept: the IDE, the proxy and the poll loop.               *)

(* A step that leaves the buffer alone, the store, ...                     *)
LEMMA Untouched ==
    /\ BufferInv /\ UNCHANGED bufVars => BufferInv'
    /\ StoreTypeOK /\ UNCHANGED storeVars => StoreTypeOK'
BY DEF BufferInv, BufTypeOK, bufVars, StoreTypeOK, storeVars

(* An append of the IDE keeps the types: no reader is ahead of it.         *)
LEMMA AppendType ==
    TypeInv /\ IDEAppends => TypeInv'
<1> SUFFICES ASSUME TypeInv, IDEAppends PROVE TypeInv'
  OBVIOUS
<1>1. PICK c \in Conv : IDEWrites(c)
  BY DEF IDEAppends
<1>2. /\ written[c] < 2 * Len(Script[c])
      /\ written' = [written EXCEPT ![c] = @ + 1]
      /\ UNCHANGED <<bufVars, storeVars, offset, currentModel, mu, poll, fill, mark, synced, clean>>
  BY <1>1 DEF IDEWrites, tailerVars, IDEAppends, history
<1>3. /\ written' \in [Conv -> Nat]
      /\ \A d \in Conv : written[d] <= written'[d] /\ written'[d] <= 2 * Len(Script[d])
  <2>1. written \in [Conv -> Nat] /\ \A d \in Conv : written[d] <= 2 * Len(Script[d])
    BY DEF TypeInv, Places
  <2>2. \A d \in Conv : written'[d] = IF d = c THEN written[c] + 1 ELSE written[d]
    BY <1>2, <2>1
  <2>3. written' \in [Conv -> Nat]
    BY <1>2, <2>1
  <2>4. \A d \in Conv : Len(Script[d]) \in Nat
    BY ScriptFacts
  <2>5. ASSUME NEW d \in Conv
        PROVE  written[d] <= written'[d] /\ written'[d] <= 2 * Len(Script[d])
    BY <1>2, <2>1, <2>2, <2>4
  <2> QED BY <2>3, <2>5
<1>4. BufferInv' /\ StoreTypeOK'
  BY <1>2, Untouched DEF TypeInv
<1>5. Places'
  BY <1>2, <1>3 DEF TypeInv, Places
<1>6. PollInv'
  BY <1>2, <1>3, ScriptFacts DEF TypeInv, PollInv, PollRecord, Places
<1>7. FillInv'
  BY <1>2 DEF TypeInv, FillInv
<1> QED BY <1>4, <1>5, <1>6, <1>7 DEF TypeInv

(* A recording of the proxy keeps the types.                               *)
LEMMA ProxyType ==
    ASSUME TypeInv, ProxyRecords
    PROVE  TypeInv'
<1>1. PICK k \in Interactive \ sent :
        \/ Push([key |-> k, model |-> DefaultModel])
        \/ PushRefused
  BY DEF ProxyRecords
<1>2. [key |-> k, model |-> DefaultModel] \in TokenEvent
  BY TailerAssumption DEF TokenEvent, Key
<1>3. BufferInv'
  BY <1>1, <1>2, PushStep, Untouched DEF TypeInv, PushRefused
<1>4. UNCHANGED <<storeVars, written, tailerVars, mark, clean, synced>>
  BY DEF ProxyRecords
<1>5. StoreTypeOK'
  BY <1>4, Untouched DEF TypeInv
<1>6. Places' /\ PollInv' /\ FillInv'
  BY <1>4 DEF TypeInv, Places, PollInv, PollRecord, FillInv, tailerVars
<1> QED BY <1>3, <1>5, <1>6 DEF TypeInv

(* The poll loop.                                                          *)
LEMMA AtStat ==
    \A n \in Nat : LET there == [Idle EXCEPT !.at = "stat", !.i = n]
                  IN  /\ there \in PollRecord /\ there.at = "stat"
                      /\ there.i = n /\ there.pos = 0 /\ there.size = 0
BY DEF Idle, PollRecord

(* The line at which the polling goroutine stands is one the IDE wrote.    *)
LEMMA PollKeyFacts ==
    ASSUME TypeInv, AtLine
    PROVE  /\ Dirs[poll.i] \in Conv /\ poll.pos \in Nat
           /\ LineNo(poll.pos) \in 1 .. Len(Script[Dirs[poll.i]])
           /\ PollLine \in Line
           /\ PollLine.responds => PollKey \in Chat
           /\ ModelAfter(PollLine, currentModel) \in Model
           /\ 2 * LineNo(poll.pos) <= written[Dirs[poll.i]]
<1>1. /\ poll.i \in 1 .. Len(Dirs) /\ poll.pos \in Nat /\ currentModel \in Model
      /\ HasLine(Dirs[poll.i], poll.pos)
  BY ScriptFacts DEF TypeInv, PollInv, PollRecord, AtLine
<1>2. Dirs[poll.i] \in Conv
  BY <1>1, ScriptFacts
<1>3. /\ LineNo(poll.pos) \in Nat \ {0}
      /\ LineEnd(poll.pos) = 2 * LineNo(poll.pos)
      /\ LineEnd(poll.pos) <= written[Dirs[poll.i]]
      /\ written[Dirs[poll.i]] \in Nat
      /\ written[Dirs[poll.i]] <= 2 * Len(Script[Dirs[poll.i]])
      /\ Len(Script[Dirs[poll.i]]) \in Nat
  BY <1>1, <1>2, Halves, ScriptFacts DEF HasLine, TypeInv, Places
<1>4. LineNo(poll.pos) \in 1 .. Len(Script[Dirs[poll.i]])
  BY <1>3
<1>5. PollLine \in Line /\ (PollLine.responds => PollKey \in Chat)
  BY <1>2, <1>4, ScriptFacts DEF PollLine, PollKey
<1>6. ModelAfter(PollLine, currentModel) \in Model
  BY <1>1, <1>5 DEF ModelAfter, Line
<1> QED BY <1>1, <1>2, <1>3, <1>4, <1>5, <1>6

AdvanceFacts ==
    /\ Places' /\ FillInv'
    /\ currentModel' \in Model => PollInv'

(* A step to the next line keeps the types: it may only stand in the       *)
(* middle of a line where it began.                                        *)
LEMMA AdvanceType ==
    ASSUME TypeInv, AtLine, Advance, UNCHANGED <<mark, clean, synced>>
    PROVE  AdvanceFacts
<1>1. /\ poll' = [poll EXCEPT !.pos = LineEnd(@)]
      /\ UNCHANGED <<logs, rollup, written, offset, mu, fill>>
  BY DEF Advance
<1>2. Places' /\ FillInv'
  BY <1>1 DEF TypeInv, Places, FillInv
<1>3. /\ poll \in PollRecord
      /\ poll.at = "read" /\ offset[Dirs[poll.i]] <= poll.pos
      /\ Dirs[poll.i] \in Conv /\ offset[Dirs[poll.i]] \in Nat
  BY PollKeyFacts DEF TypeInv, PollInv, PollRecord, Places, AtLine
<1>4. /\ poll' \in PollRecord
      /\ poll'.at = "read" /\ poll'.i = poll.i /\ poll'.size = poll.size
      /\ poll'.pos = LineEnd(poll.pos) /\ poll.pos < LineEnd(poll.pos)
      /\ Whole(poll'.pos)
  BY <1>1, <1>3, Halves DEF PollRecord
<1>5. ASSUME currentModel' \in Model PROVE PollInv'
  BY <1>1, <1>3, <1>4, <1>5 DEF TypeInv, PollInv, PollRecord
<1> QED BY <1>2, <1>5 DEF AdvanceFacts

(* The steps of the poll loop that record nothing keep the types.          *)
LEMMA PollQuietType ==
    ASSUME TypeInv, PollTick \/ PollStat \/ PollFragment \/ PollOther \/ PollEnd,
           UNCHANGED <<mark, clean, synced>>
    PROVE  TypeInv'
<1>1. UNCHANGED bufVars /\ UNCHANGED storeVars
  BY DEF PollTick, PollStat, PollFragment, PollOther, PollEnd, Advance, storeVars
<1>2. BufferInv' /\ StoreTypeOK'
  BY <1>1, Untouched DEF TypeInv
<1>3. SUFFICES Places' /\ PollInv' /\ FillInv'
  BY <1>2 DEF TypeInv
<1>4. CASE PollFragment
  <2>1. currentModel' \in Model
    BY <1>4 DEF PollFragment, TypeInv, PollInv, PollRecord
  <2> QED BY <1>4, <2>1, AdvanceType DEF PollFragment, AdvanceFacts
<1>5. CASE PollOther
  <2>1. currentModel' \in Model
    BY <1>5, PollKeyFacts DEF PollOther
  <2> QED BY <1>5, <2>1, AdvanceType DEF PollOther, AdvanceFacts
<1>6. CASE PollTick \/ PollEnd
  <2>1. UNCHANGED <<written, offset, currentModel, fill, mark, clean, synced>>
    BY <1>6 DEF PollTick, PollEnd
  <2>2. Places'
    BY <2>1 DEF TypeInv, Places
  <2>3. FillInv'
    BY <1>6, <2>1 DEF TypeInv, PollInv, PollRecord, FillInv, PollTick, PollEnd
  <2>4. Len(Dirs) \in Nat /\ 1 \in 1 .. Len(Dirs) + 1 /\ Idle \in PollRecord /\ Idle.at = "idle"
    BY ScriptFacts DEF Idle, PollRecord
  <2>5. ASSUME PollEnd PROVE PollInv'
    BY <2>1, <2>4, <2>5 DEF TypeInv, PollInv, PollEnd, PollRecord
  <2>6. ASSUME PollTick PROVE PollInv'
    <3>1. poll' \in PollRecord /\ poll'.at = "stat" /\ poll'.i = 1
      BY <2>6, AtStat DEF PollTick
    <3> QED BY <2>1, <2>4, <2>6, <3>1 DEF TypeInv, PollInv, PollTick, PollRecord
  <2>7. PollInv'
    BY <1>6, <2>5, <2>6
  <2> QED BY <2>2, <2>3, <2>7
<1>7. CASE PollStat
  <2>1. UNCHANGED <<written, offset, currentModel, mu, fill, mark, clean, synced>>
    BY <1>7 DEF PollStat
  <2>2. Places' /\ FillInv'
    BY <2>1 DEF TypeInv, Places, FillInv
  <2> DEFINE c == Dirs[poll.i]
  <2>3. /\ poll.at = "stat" /\ poll.i \in 1 .. Len(Dirs) /\ c \in Conv
        /\ poll' = IF written[c] > offset[c]
                   THEN [at |-> "read", i |-> poll.i, pos |-> offset[c], size |-> written[c]]
                   ELSE [poll EXCEPT !.i = @ + 1]
    BY <1>7, ScriptFacts DEF PollStat, TypeInv, PollInv, PollRecord
  <2>4. written[c] \in Nat /\ offset[c] \in Nat
    BY <2>3 DEF TypeInv, Places
  <2>5. CASE written[c] > offset[c]
    <3>1. /\ poll'.at = "read" /\ poll'.i = poll.i /\ poll'.pos = offset[c]
          /\ poll'.size = written[c] /\ poll' \in PollRecord
      BY <2>3, <2>4, <2>5, ScriptFacts DEF PollRecord
    <3>2. PollInv'
      BY <2>1, <2>3, <2>4, <2>5, <3>1 DEF TypeInv, PollInv
    <3> QED BY <2>2, <3>2
  <2>6. CASE ~(written[c] > offset[c])
    <3>1. poll \in PollRecord /\ poll.i + 1 \in 1 .. Len(Dirs) + 1 /\ poll.i + 1 \in Nat
      BY <2>3, ScriptFacts DEF TypeInv, PollInv
    <3>2. poll'.at = "stat" /\ poll'.i = poll.i + 1 /\ poll' \in PollRecord
      BY <2>3, <2>6, <3>1 DEF PollRecord
    <3>3. PollInv'
      BY <2>1, <2>3, <3>1, <3>2 DEF TypeInv, PollInv
    <3> QED BY <2>2, <3>3
  <2> QED BY <2>5, <2>6
<1> QED BY <1>4, <1>5, <1>6, <1>7

(* Recording a response keeps the types.                                   *)
LEMMA PollResponseType ==
    ASSUME TypeInv, PollResponse, UNCHANGED <<mark, clean, synced>>
    PROVE  TypeInv'
<1>1. /\ AtLine /\ Advance /\ PollLine.responds
      /\ currentModel' = ModelAfter(PollLine, currentModel)
      /\ Push([key |-> PollKey, model |-> currentModel']) \/ PushRefused
  BY DEF PollResponse
<1>2. currentModel' \in Model /\ PollKey \in Chat
  BY <1>1, PollKeyFacts
<1>3. [key |-> PollKey, model |-> currentModel'] \in TokenEvent
  BY <1>2 DEF TokenEvent, Key
<1>4. BufferInv'
  BY <1>1, <1>3, PushStep, Untouched DEF TypeInv, PushRefused
<1>5. StoreTypeOK'
  <2>1. logs' = logs /\ rollup' = rollup
    BY <1>1 DEF Advance
  <2>2. tasks' \in SUBSET Chat
    BY <1>2 DEF PollResponse, InsertAgentTaskBatch, TypeInv, StoreTypeOK
  <2> QED BY <2>1, <2>2 DEF TypeInv, StoreTypeOK
<1>6. Places' /\ FillInv' /\ PollInv'
  BY <1>1, <1>2, AdvanceType DEF AdvanceFacts
<1> QED BY <1>4, <1>5, <1>6 DEF TypeInv

(* Leaving a transcript keeps the types: the offset is not beyond what is  *)
(* written.                                                                *)
LEMMA PollLeavesType ==
    ASSUME TypeInv, PollEOF \/ PollOpenFails, UNCHANGED <<mark, clean, synced>>
    PROVE  TypeInv'
<1>1. /\ poll.at = "read"
      /\ offset' = [offset EXCEPT ![Dirs[poll.i]] = poll.size]
      /\ poll' = [Idle EXCEPT !.at = "stat", !.i = poll.i + 1]
      /\ UNCHANGED <<bufVars, storeVars, written, currentModel, mu, fill>>
  BY DEF PollEOF, PollOpenFails
<1>2. BufferInv' /\ StoreTypeOK'
  BY <1>1, Untouched DEF TypeInv
<1>3. /\ poll.i \in 1 .. Len(Dirs) /\ Dirs[poll.i] \in Conv
      /\ poll.size \in Nat /\ poll.size <= written[Dirs[poll.i]]
  BY <1>1, ScriptFacts DEF TypeInv, PollInv, PollRecord
<1>4. Places'
  BY <1>1, <1>3 DEF TypeInv, Places
<1>5. FillInv'
  BY <1>1 DEF TypeInv, FillInv
<1>6. PollInv'
  <2>1. poll' \in PollRecord /\ poll'.at = "stat" /\ poll'.i = poll.i + 1
    <3>1. poll.i + 1 \in Nat
      BY <1>3, ScriptFacts
    <3> QED BY <1>1, <3>1, AtStat
  <2>2. poll'.i \in 1 .. Len(Dirs) + 1
    BY <1>3, <2>1, ScriptFacts
  <2>3. mu = "poll"
    BY <1>1 DEF TypeInv, PollInv, PollRecord
  <2> QED BY <1>1, <2>1, <2>2, <2>3 DEF TypeInv, PollInv, PollRecord
<1> QED BY <1>2, <1>4, <1>5, <1>6 DEF TypeInv

----------------------------------------------------------------------------
(* The backfill.                                                           *)
FillKey == <<Dirs[fill.i], LineNo(fill.pos)>>
FillModel == ModelAfter(Turn(FillKey), fill.model)
FillEvents ==
    IF Turn(FillKey).responds
    THEN Append(fill.events, [key |-> FillKey, model |-> FillModel]) ELSE fill.events
FillTasks == fill.tasks \cup {k \in {FillKey} : Turn(FillKey).calls}

FillKeyFacts ==
    /\ fill.i \in 1 .. Len(Dirs) /\ Dirs[fill.i] \in Conv /\ fill.pos \in Nat
    /\ FillKey[1] = Dirs[fill.i] /\ 2 * FillKey[2] = fill.pos + 2
    /\ FillKey[2] \in 1 .. Len(Script[FillKey[1]]) /\ 2 * FillKey[2] <= written[FillKey[1]]
    /\ Turn(FillKey).responds => FillKey \in Chat
    /\ Turn(FillKey).calls => FillKey \in Chat
    /\ FillModel \in Model
    /\ FillEvents \in Seq(TokenEvent)
    /\ \A k : Has(FillEvents, k) <=>
                Has(fill.events, k) \/ (Turn(FillKey).responds /\ k = FillKey)
    /\ FillTasks \in SUBSET Chat /\ Cardinality(FillTasks) \in Nat
    /\ ~Turn(FillKey).responds => FillTasks = fill.tasks

(* The line at which the backfill stands, and what it will hold after it.  *)
LEMMA FillKeyLemma ==
    ASSUME TypeInv, fill.at = "read", fill.i <= Len(Dirs), HasLine(Dirs[fill.i], fill.pos)
    PROVE  FillKeyFacts
<1>1. /\ fill \in FillRecord /\ fill.i \in 1 .. Len(Dirs) /\ Whole(fill.pos)
  BY ScriptFacts DEF TypeInv, FillInv, FillRecord
<1>2. /\ Dirs[fill.i] \in Conv /\ fill.pos \in Nat /\ fill.model \in Model
      /\ fill.events \in Seq(TokenEvent) /\ fill.tasks \in SUBSET Chat
  BY <1>1, ScriptFacts DEF FillRecord
<1>3. /\ LineNo(fill.pos) \in Nat \ {0}
      /\ 2 * LineNo(fill.pos) = fill.pos + 2
      /\ 2 * LineNo(fill.pos) <= written[Dirs[fill.i]]
  BY <1>1, <1>2, Halves DEF HasLine
<1>4. /\ written[Dirs[fill.i]] \in Nat
      /\ written[Dirs[fill.i]] <= 2 * Len(Script[Dirs[fill.i]])
      /\ Len(Script[Dirs[fill.i]]) \in Nat
  BY <1>2, ScriptFacts DEF TypeInv, Places
<1>5. LineNo(fill.pos) \in 1 .. Len(Script[Dirs[fill.i]])
  BY <1>3, <1>4
<1>6. FillKey[1] = Dirs[fill.i] /\ FillKey[2] = LineNo(fill.pos)
  BY DEF FillKey
<1>7. /\ Turn(FillKey) \in Line
      /\ Turn(FillKey).responds => FillKey \in Chat
      /\ Turn(FillKey).calls => Turn(FillKey).responds
  BY <1>2, <1>5, <1>6, ScriptFacts DEF Turn, FillKey
<1>8. FillModel \in Model
  BY <1>2, <1>7 DEF FillModel, ModelAfter, Line
<1>9. /\ FillEvents \in Seq(TokenEvent)
      /\ \A k : Has(FillEvents, k) <=>
                Has(fill.events, k) \/ (Turn(FillKey).responds /\ k = FillKey)
  <2>1. CASE ~Turn(FillKey).responds
    BY <1>2, <2>1 DEF FillEvents
  <2>2. CASE Turn(FillKey).responds
    <3> DEFINE e == [key |-> FillKey, model |-> FillModel]
    <3>1. e \in TokenEvent /\ e.key = FillKey
      BY <1>7, <1>8, <2>2 DEF TokenEvent, Key
    <3>2. FillEvents = Append(fill.events, e)
      BY <2>2 DEF FillEvents
    <3> HIDE DEF e
    <3>3. FillEvents \in Seq(TokenEvent)
      BY <1>2, <3>1, <3>2, AppendProperties
    <3> QED BY <1>2, <2>2, <3>1, <3>2, <3>3, HasAppended
  <2> QED BY <2>1, <2>2
<1>10. FillTasks \in SUBSET Chat /\ (~Turn(FillKey).responds => FillTasks = fill.tasks)
  BY <1>2, <1>7 DEF FillTasks
<1>11. Cardinality(FillTasks) \in Nat
  BY <1>10, ChatFinite, FS_CardinalityType
<1> QED BY <1>1, <1>2, <1>3, <1>4, <1>5, <1>6, <1>7, <1>8, <1>9, <1>10, <1>11 DEF FillKeyFacts

FillLineEffect(ok, okTasks) ==
    /\ fill' \in FillRecord /\ fill'.at = "read" /\ fill'.i = fill.i
    /\ fill'.pos = 2 * FillKey[2]
    /\ \/ fill'.events = FillEvents /\ Len(FillEvents) < FlushEvery /\ logs' = logs
       \/ fill'.events = <<>> /\ InsertUsageBatch(FillEvents, ok)
    /\ \/ fill'.tasks = FillTasks /\ Cardinality(FillTasks) < TasksEvery /\ tasks' = tasks
       \/ fill'.tasks = {} /\ InsertAgentTaskBatch(FillTasks, okTasks)
    /\ UNCHANGED <<bufVars, rollup, written, offset, currentModel, mu, poll>>

(* What one line does to the backfill and to the store.                    *)
LEMMA FillLineLemma ==
    ASSUME TypeInv, NEW ok \in BOOLEAN, NEW okTasks \in BOOLEAN, FillLine(ok, okTasks)
    PROVE  FillKeyFacts /\ FillLineEffect(ok, okTasks)
<1>1. /\ fill.at = "read" /\ fill.i <= Len(Dirs) /\ HasLine(Dirs[fill.i], fill.pos)
      /\ UNCHANGED <<bufVars, rollup, written, offset, currentModel, mu, poll>>
  BY DEF FillLine
<1>2. FillKeyFacts
  BY <1>1, FillKeyLemma
<1> DEFINE full == Len(FillEvents) >= FlushEvery
           fullTasks == Turn(FillKey).responds /\ Cardinality(FillTasks) >= TasksEvery
<1>3. /\ IF full THEN InsertUsageBatch(FillEvents, ok) ELSE UNCHANGED logs
      /\ IF fullTasks THEN InsertAgentTaskBatch(FillTasks, okTasks) ELSE UNCHANGED tasks
      /\ fill' = [fill EXCEPT !.pos = LineEnd(@), !.model = FillModel,
                                  !.events = IF full THEN <<>> ELSE FillEvents,
                                  !.tasks = IF fullTasks THEN {} ELSE FillTasks]
  BY DEF FillLine, FillEvents, FillModel, FillTasks, FillKey, Turn
<1>4. /\ FlushEvery \in Nat /\ TasksEvery \in Nat /\ Len(FillEvents) \in Nat
      /\ fill \in FillRecord /\ Cardinality(fill.tasks) < TasksEvery
      /\ LineEnd(fill.pos) \in Nat /\ LineEnd(fill.pos) = 2 * FillKey[2]
      /\ <<>> \in Seq(TokenEvent)
  <2>1. FlushEvery \in Nat /\ TasksEvery \in Nat
    BY TailerAssumption
  <2>2. Len(FillEvents) \in Nat /\ <<>> \in Seq(TokenEvent)
    BY <1>2, LenProperties, EmptySeq DEF FillKeyFacts
  <2>3. fill \in FillRecord /\ Cardinality(fill.tasks) < TasksEvery
    BY DEF TypeInv, FillInv
  <2>4. LineEnd(fill.pos) \in Nat /\ LineEnd(fill.pos) = 2 * FillKey[2]
    BY <1>2, Halves DEF FillKeyFacts, FillKey
  <2> QED BY <2>1, <2>2, <2>3, <2>4
<1>5. /\ full \/ Len(FillEvents) < FlushEvery
      /\ fullTasks \/ Cardinality(FillTasks) < TasksEvery
  BY <1>2, <1>4 DEF FillKeyFacts
<1>6. /\ fill'.at = "read" /\ fill'.i = fill.i /\ fill'.pos = LineEnd(fill.pos)
      /\ fill'.events = IF full THEN <<>> ELSE FillEvents
      /\ fill'.tasks = IF fullTasks THEN {} ELSE FillTasks
      /\ fill' \in FillRecord
  <2>1. /\ (IF full THEN <<>> ELSE FillEvents) \in Seq(TokenEvent)
        /\ (IF fullTasks THEN {} ELSE FillTasks) \in SUBSET Chat
        /\ FillModel \in Model
    BY <1>2, <1>4 DEF FillKeyFacts
  <2> HIDE DEF full, fullTasks
  <2> QED BY <1>1, <1>3, <1>4, <2>1 DEF FillRecord
<1> HIDE DEF full, fullTasks
<1> QED BY <1>1, <1>2, <1>3, <1>4, <1>5, <1>6 DEF FillLineEffect

(* One line of the backfill keeps the types; it holds fewer events and     *)
(* tool calls than make it write.                                          *)
LEMMA FillLineType ==
    ASSUME TypeInv, NEW ok \in BOOLEAN, NEW okTasks \in BOOLEAN, FillLine(ok, okTasks),
           UNCHANGED mark, clean' \in BOOLEAN, synced' = synced
    PROVE  TypeInv'
<1>1. FillKeyFacts /\ FillLineEffect(ok, okTasks)
  BY FillLineLemma
<1>2. BufferInv'
  BY <1>1, Untouched DEF TypeInv, FillLineEffect
<1>3. StoreTypeOK'
  <2>1. logs' \in Table
    BY <1>1, UsageBatch DEF TypeInv, StoreTypeOK, Table, FillLineEffect, FillKeyFacts
  <2>2. tasks' \in SUBSET Chat /\ rollup' = rollup
    BY <1>1 DEF TypeInv, StoreTypeOK, FillLineEffect, FillKeyFacts, InsertAgentTaskBatch
  <2> QED BY <2>1, <2>2 DEF TypeInv, StoreTypeOK, Table
<1>4. Places' /\ PollInv'
  BY <1>1 DEF TypeInv, Places, PollInv, FillLineEffect
<1>5. FillInv'
  <2>1. mu = "fill" /\ mu' = mu
    BY <1>1 DEF TypeInv, FillInv, FillLine, FillLineEffect
  <2>2. Whole(fill'.pos) /\ fill'.i \in 1 .. Len(Dirs) + 1
    BY <1>1, ScriptFacts DEF FillLineEffect, FillKeyFacts, Whole
  <2>3. Len(fill'.events) < FlushEvery
    <3>1. Len(<<>>) = 0 /\ 0 < FlushEvery
      BY EmptySeq, TailerAssumption
    <3> QED BY <1>1, <3>1 DEF FillLineEffect
  <2>4. Cardinality(fill'.tasks) < TasksEvery
    <3>1. Cardinality({}) = 0 /\ 0 < TasksEvery
      BY FS_EmptySet, TailerAssumption
    <3> QED BY <1>1, <3>1 DEF FillLineEffect
  <2> QED BY <1>1, <2>1, <2>2, <2>3, <2>4 DEF FillInv, FillLineEffect
<1> QED BY <1>2, <1>3, <1>4, <1>5 DEF TypeInv

(* The end of the backfill keeps the types.                                *)
LEMMA FillEndType ==
    ASSUME TypeInv, NEW ok \in BOOLEAN, NEW okTasks \in BOOLEAN, FillEnd(ok, okTasks),
           UNCHANGED mark, clean' \in BOOLEAN, synced' \in {mark, synced}
    PROVE  TypeInv'
<1>1. /\ fill.at = "read" /\ fill' = NoFill /\ mu' = "free"
      /\ InsertUsageBatch(fill.events, ok) /\ InsertAgentTaskBatch(fill.tasks, okTasks)
      /\ UNCHANGED <<bufVars, rollup, written, offset, currentModel, poll>>
  BY DEF FillEnd
<1>2. BufferInv'
  BY <1>1, Untouched DEF TypeInv
<1>3. fill.events \in Seq(TokenEvent) /\ fill.tasks \in SUBSET Chat /\ mu = "fill"
  BY <1>1 DEF TypeInv, FillInv, FillRecord
<1>4. StoreTypeOK'
  <2>1. logs' \in Table
    BY <1>1, <1>3, UsageBatch DEF TypeInv
  <2>2. tasks' \in SUBSET Chat
    BY <1>1, <1>3 DEF TypeInv, StoreTypeOK, InsertAgentTaskBatch
  <2> QED BY <1>1, <2>1, <2>2 DEF TypeInv, StoreTypeOK, Table
<1>5. Places'
  BY <1>1 DEF TypeInv, Places
<1>6. PollInv'
  BY <1>1, <1>3 DEF TypeInv, PollInv, PollRecord
<1>7. FillInv'
  BY <1>1, NoFillType DEF FillInv
<1> QED BY <1>2, <1>4, <1>5, <1>6, <1>7 DEF TypeInv

(* Going to the next transcript keeps the types.                           *)
LEMMA FillMovesType ==
    ASSUME TypeInv, FillNextFile \/ FillOpenFails, UNCHANGED <<mark, synced>>, clean' \in BOOLEAN
    PROVE  TypeInv'
<1>1. /\ fill.at = "read" /\ fill.i <= Len(Dirs)
      /\ UNCHANGED <<bufVars, storeVars, written, offset, currentModel, mu, poll>>
  BY DEF FillNextFile, FillOpenFails
<1>2. BufferInv' /\ StoreTypeOK'
  BY <1>1, Untouched DEF TypeInv
<1>3. Places' /\ PollInv'
  BY <1>1 DEF TypeInv, Places, PollInv
<1>4. fill \in FillRecord /\ fill.i \in 1 .. Len(Dirs) /\ Dirs[fill.i] \in Conv /\ mu = "fill"
  BY <1>1, ScriptFacts DEF TypeInv, FillInv
<1>5. /\ fill' \in FillRecord /\ fill'.at = "read" /\ fill'.i \in 1 .. Len(Dirs) + 1
      /\ fill'.events = fill.events /\ fill'.tasks = fill.tasks /\ Whole(fill'.pos)
  <2>1. CASE FillNextFile
    <3>1. fill' = [fill EXCEPT !.i = @ + 1, !.pos = 0, !.model = DefaultModel]
      BY <2>1 DEF FillNextFile
    <3>2. fill.i + 1 \in 1 .. Len(Dirs) + 1 /\ fill.i + 1 \in Nat /\ DefaultModel \in Model
      BY <1>4, ScriptFacts, TailerAssumption
    <3>3. fill' \in FillRecord
      BY <1>4, <3>1, <3>2 DEF FillRecord
    <3>4. /\ fill'.at = fill.at /\ fill'.i = fill.i + 1 /\ fill'.pos = 0
          /\ fill'.events = fill.events /\ fill'.tasks = fill.tasks
      BY <1>4, <3>1 DEF FillRecord
    <3>5. Whole(0)
      BY DEF Whole
    <3> QED BY <1>1, <3>2, <3>3, <3>4, <3>5
  <2>2. CASE FillOpenFails
    <3>1. fill' = [fill EXCEPT !.pos = 2 * Len(Script[Dirs[fill.i]])]
      BY <2>2 DEF FillOpenFails
    <3>2. Len(Script[Dirs[fill.i]]) \in Nat /\ Len(Dirs) \in Nat
      BY <1>4, ScriptFacts
    <3>3. \A n \in Nat : 2 * n \in Nat /\ Whole(2 * n)
      BY DEF Whole
    <3>4. fill' \in FillRecord
      BY <1>4, <3>1, <3>2, <3>3 DEF FillRecord
    <3>5. /\ fill'.at = fill.at /\ fill'.i = fill.i /\ fill'.pos = 2 * Len(Script[Dirs[fill.i]])
          /\ fill'.events = fill.events /\ fill'.tasks = fill.tasks
      BY <1>4, <3>1 DEF FillRecord
    <3>6. fill.i \in 1 .. Len(Dirs) + 1
      BY <1>4, <3>2
    <3> QED BY <1>1, <3>2, <3>3, <3>4, <3>5, <3>6
  <2> QED BY <2>1, <2>2
<1>6. FillInv'
  BY <1>1, <1>4, <1>5 DEF TypeInv, FillInv
<1> QED BY <1>2, <1>3, <1>6 DEF TypeInv

(* The start of a backfill keeps the types.                                *)
LEMMA BackfillStartsType ==
    ASSUME TypeInv, BackfillStarts
    PROVE  TypeInv'
<1>1. /\ fill.at = "idle" /\ mu = "free" /\ mu' = "fill"
      /\ fill' = [NoFill EXCEPT !.at = "read", !.i = 1]
      /\ UNCHANGED <<bufVars, storeVars, written, offset, currentModel, poll>>
      /\ mark' = written /\ clean' = TRUE /\ UNCHANGED synced
  BY DEF BackfillStarts, FillStart
<1>2. BufferInv' /\ StoreTypeOK'
  BY <1>1, Untouched DEF TypeInv
<1>3. Places'
  BY <1>1 DEF TypeInv, Places
<1>4. PollInv'
  BY <1>1 DEF TypeInv, PollInv, PollRecord
<1>5. /\ fill'.at = "read" /\ fill'.i = 1 /\ fill'.pos = 0 /\ fill'.events = NoFill.events
      /\ fill'.tasks = NoFill.tasks /\ fill' \in FillRecord
  BY <1>1, NoFillType DEF FillRecord, NoFill
<1>6. FillInv'
  BY <1>1, <1>5, NoFillType, ScriptFacts DEF FillInv, Whole
<1> QED BY <1>2, <1>3, <1>4, <1>6 DEF TypeInv

(* A flush of the worker keeps the types.                                  *)
LEMMA FlushType ==
    ASSUME TypeInv, NEW ok \in BOOLEAN, WorkerFlushes(ok)
    PROVE  TypeInv'
<1>1. /\ FlushReturns /\ InsertUsageBatch(batch, ok)
      /\ UNCHANGED <<rollup, tasks, written, tailerVars, mark, clean, synced>>
  BY DEF WorkerFlushes
<1>2. BufferInv'
  BY <1>1, FlushStep DEF TypeInv
<1>3. logs' \in Table
  BY <1>1, UsageBatch DEF TypeInv, BufferInv, BufTypeOK
<1>4. StoreTypeOK'
  BY <1>1, <1>3 DEF TypeInv, StoreTypeOK, Table
<1>5. Places' /\ PollInv' /\ FillInv'
  BY <1>1 DEF TypeInv, Places, PollInv, FillInv, tailerVars
<1> QED BY <1>2, <1>4, <1>5 DEF TypeInv

(* A rollup keeps the types.                                               *)
LEMMA RollupType ==
    ASSUME TypeInv, Rollup
    PROVE  TypeInv'
<1>1. /\ rollup' = [m \in Model |-> IF GroupCount(m) > 0 THEN GroupCount(m) ELSE rollup[m]]
      /\ UNCHANGED <<logs, tasks, bufVars, written, tailerVars, mark, clean, synced>>
  BY DEF Rollup, RollupHourlyMetrics, history
<1>2. BufferInv'
  BY <1>1, Untouched DEF TypeInv
<1>3. StoreTypeOK'
  BY <1>1, GroupFacts DEF TypeInv, StoreTypeOK
<1>4. Places' /\ PollInv' /\ FillInv'
  BY <1>1 DEF TypeInv, Places, PollInv, FillInv, tailerVars
<1> QED BY <1>2, <1>3, <1>4 DEF TypeInv

(* A restart keeps the types: initOffsets never goes beyond the end of a   *)
(* transcript.                                                             *)
LEMMA CrashType ==
    ASSUME TypeInv, CrashAndRestart
    PROVE  TypeInv'
<1>1. PICK recent \in [Conv -> BOOLEAN] : Restart(recent)
  BY DEF CrashAndRestart
<1>2. /\ chan' = <<>> /\ batch' = <<>> /\ pc' = "select" /\ cancelled' = FALSE
      /\ offset' = [c \in Conv |-> InitOffset(c, recent[c])]
      /\ currentModel' = DefaultModel /\ mu' = "free" /\ poll' = Idle /\ fill' = NoFill
      /\ UNCHANGED <<storeVars, written>>
      /\ clean' = TRUE /\ mark' = synced /\ synced' = synced
  BY <1>1 DEF Restart, CrashAndRestart
<1>3. BufferInv'
  <2>1. /\ <<>> \in Seq(TokenEvent) /\ Len(<<>>) = 0
        /\ 0 <= Capacity /\ 0 <= BatchSize /\ 0 < BatchSize
    BY EmptySeq, BufferAssumption
  <2> QED BY <1>2, <2>1 DEF BufferInv, BufTypeOK, WorkerStates
<1>4. StoreTypeOK'
  BY <1>2, Untouched DEF TypeInv
<1>5. ASSUME NEW c \in Conv
      PROVE  InitOffset(c, recent[c]) \in Nat /\ InitOffset(c, recent[c]) <= written[c]
  <2>1. written[c] \in Nat /\ Lookback \in Nat
    BY TailerAssumption DEF TypeInv, Places
  <2> QED BY <2>1 DEF InitOffset
<1>6. Places'
  BY <1>2, <1>5 DEF TypeInv, Places
<1>7. PollInv'
  BY <1>2, TailerAssumption DEF PollInv, PollRecord, Idle
<1>8. FillInv'
  BY <1>2, NoFillType DEF FillInv
<1> QED BY <1>3, <1>4, <1>6, <1>7, <1>8 DEF TypeInv

(* Every step keeps the types.                                             *)
LEMMA TypeStep == TypeInv /\ [Next]_vars => TypeInv'
<1> SUFFICES ASSUME TypeInv, [Next]_vars PROVE TypeInv'
  OBVIOUS
<1>1. CASE IDEAppends
  BY <1>1, AppendType
<1>2. CASE ProxyRecords
  BY <1>2, ProxyType
<1>3. CASE PollLoop
  BY <1>3, PollQuietType, PollResponseType, PollLeavesType DEF PollLoop
<1>4. CASE BackfillStarts
  BY <1>4, BackfillStartsType
<1>5. CASE Backfill
  <2>1. CASE (FillNextFile /\ UNCHANGED <<clean, synced, left>>)
                \/ (FillOpenFails /\ clean' = FALSE /\ UNCHANGED <<synced, left>>)
    <3>1. clean' \in BOOLEAN
      BY <2>1 DEF TypeInv, Places
    <3> QED BY <1>5, <2>1, <3>1, FillMovesType DEF Backfill
  <2>2. ASSUME NEW ok \in BOOLEAN, NEW okTasks \in BOOLEAN, FillStep(ok, okTasks),
               clean' = (clean /\ ok /\ okTasks),
               synced' = IF fill'.at = "idle" /\ clean' THEN mark ELSE synced
        PROVE  TypeInv'
    <3>1. clean' \in BOOLEAN /\ UNCHANGED mark
      BY <1>5, <2>2 DEF TypeInv, Places, Backfill
    <3>2. CASE FillLine(ok, okTasks)
      <4>1. fill'.at = "read"
        BY <3>2, FillLineLemma DEF FillLineEffect
      <4> QED BY <2>2, <3>1, <3>2, <4>1, FillLineType
    <3>3. CASE FillEnd(ok, okTasks)
      BY <2>2, <3>1, <3>3, FillEndType
    <3> QED BY <2>2, <3>2, <3>3 DEF FillStep
  <2> QED BY <1>5, <2>1, <2>2 DEF Backfill
<1>6. CASE Worker
  <2>1. CASE (TakeEvent \/ Tick) /\ UNCHANGED <<storeVars, written, tailerVars, history, bounds>>
    <3>1. BufferInv'
      BY <2>1, TakeStep DEF TypeInv
    <3>2. StoreTypeOK'
      BY <2>1, Untouched DEF TypeInv
    <3>3. Places' /\ PollInv' /\ FillInv'
      BY <2>1 DEF TypeInv, Places, PollInv, FillInv, tailerVars, history
    <3> QED BY <3>1, <3>2, <3>3 DEF TypeInv
  <2> QED BY <1>6, <2>1, FlushType DEF Worker
<1>7. CASE Rollup
  BY <1>7, RollupType
<1>8. CASE CrashAndRestart
  BY <1>8, CrashType
<1>9. CASE UNCHANGED vars
  <2>1. BufferInv' /\ StoreTypeOK'
    BY <1>9, Untouched DEF TypeInv, vars
  <2>2. Places' /\ PollInv' /\ FillInv'
    BY <1>9 DEF TypeInv, Places, PollInv, FillInv, tailerVars, history, vars
  <2> QED BY <2>1, <2>2 DEF TypeInv
<1> QED BY <1>1, <1>2, <1>3, <1>4, <1>5, <1>6, <1>7, <1>8, <1>9 DEF Next

(* The types, and where each reader may stand, hold in every state.        *)
LEMMA TypeInvariant == Spec => []TypeInv
BY TypeInit, TypeStep, PTL DEF Spec

(* TypeOK of Pipeline, with the bounds of the buffer, of the offset (never *)
(* beyond what is written) and of what the backfill holds back.            *)
THEOREM TypeCorrect == Spec => []TypeOK
BY TypeInvariant, TypesImplied, PTL

----------------------------------------------------------------------------
(* One row per event.                                                      *)
RowInv ==
    /\ \A k \in Key : Empty(logs[k]) \/ Single(logs[k])
    /\ \A k \in Key : ~Empty(logs[k]) \/ Pending(k) \/ Has(fill.events, k) => OnDisk(k)
    /\ \A k \in Interactive :
        /\ ~Has(fill.events, k)
        /\ k \notin sent => Empty(logs[k]) /\ ~Pending(k)
        /\ Pending(k) => Empty(logs[k])
        /\ Once(InBuffer, k)

(* Pushing the event of another key, or the first of its key.              *)
LEMMA OnceAppended ==
    ASSUME NEW e \in TokenEvent, PushEffect(e), Len(InBuffer) \in Nat, NEW k,
           Once(InBuffer, k), k # e.key \/ ~Pending(k)
    PROVE  Once(InBuffer', k)
<1> SUFFICES ASSUME NEW i \in 1 .. Len(InBuffer'), NEW j \in 1 .. Len(InBuffer'),
                    InBuffer'[i].key = k, InBuffer'[j].key = k, i # j
             PROVE  FALSE
  BY DEF Once
<1> DEFINE n == Len(InBuffer)
<1>1. /\ i \in 1 .. n \/ i = n + 1
      /\ j \in 1 .. n \/ j = n + 1
  BY DEF PushEffect
<1>2. CASE i \in 1 .. n /\ j \in 1 .. n
  BY <1>2 DEF Once, PushEffect
<1>3. CASE i = n + 1 /\ j \in 1 .. n
  BY <1>3 DEF Pending, Has, PushEffect
<1>4. CASE j = n + 1 /\ i \in 1 .. n
  BY <1>4 DEF Pending, Has, PushEffect
<1> QED BY <1>1, <1>2, <1>3, <1>4

(* Taking the front of the buffer away: what was only once in it is in the *)
(* batch or in the rest, not in both.                                      *)
LEMMA OnceFlushed ==
    ASSUME FlushEffect, Len(batch) \in Nat, Len(InBuffer') \in Nat, NEW k, Once(InBuffer, k)
    PROVE  /\ Once(InBuffer', k) /\ Once(batch, k)
           /\ Has(batch, k) => ~Pending(k)'
<1> DEFINE b == Len(batch)
<1>1. /\ \A i \in 1 .. b : i \in 1 .. Len(InBuffer) /\ InBuffer[i] = batch[i]
      /\ \A i \in 1 .. Len(InBuffer') :
            b + i \in 1 .. Len(InBuffer) /\ InBuffer'[i] = InBuffer[b + i]
  BY DEF FlushEffect
<1>2. Once(batch, k)
  BY <1>1 DEF Once
<1>3. Once(InBuffer', k)
  <2> SUFFICES ASSUME NEW i \in 1 .. Len(InBuffer'), NEW j \in 1 .. Len(InBuffer'),
                      InBuffer'[i].key = k, InBuffer'[j].key = k
               PROVE  i = j
    BY DEF Once
  <2>1. b + i = b + j
    BY <1>1 DEF Once
  <2> QED BY <2>1
<1>4. ASSUME Has(batch, k), Pending(k)' PROVE FALSE
  <2>1. PICK i \in 1 .. b : batch[i].key = k
    BY <1>4 DEF Has
  <2>2. PICK j \in 1 .. Len(InBuffer') : InBuffer'[j].key = k
    BY <1>4 DEF Pending, Has
  <2>3. i = b + j
    BY <1>1, <2>1, <2>2 DEF Once
  <2> QED BY <2>1, <2>2, <2>3
<1> QED BY <1>2, <1>3, <1>4

(* The keys of the proxy are not the keys of the transcripts.              *)
LEMMA DisjointKeys == \A k \in Interactive : k \in Key /\ k \notin Chat
BY StoreAssumption DEF Key

(* In the beginning there are no rows.                                     *)
LEMMA RowInit == Init => RowInv
<1> SUFFICES ASSUME Init PROVE RowInv
  OBVIOUS
<1>1. /\ \A k \in Key : Empty(logs[k])
      /\ chan = <<>> /\ batch = <<>> /\ fill.events = <<>>
  BY DEF Init, StoreInit, BufInit, TailerInit, NoFill, Empty
<1>2. InBuffer = <<>>
  <2>1. \A s \in Seq(TokenEvent) : s \o <<>> = s
    BY ConcatEmptySeq
  <2>2. <<>> \in Seq(TokenEvent)
    BY EmptySeq
  <2> QED BY <1>1, <2>1, <2>2 DEF InBuffer
<1>3. \A k : ~Pending(k) /\ ~Has(fill.events, k) /\ Once(InBuffer, k)
  BY <1>1, <1>2, HasNothing, EmptySeq DEF Pending, Once
<1> QED BY <1>1, <1>3, DisjointKeys DEF RowInv

(* A step that adds no event to the buffer and no row to the log.          *)
LEMMA RowQuiet ==
    ASSUME TypeInv, RowInv, logs' = logs, sent' = sent,
           \A k : Pending(k)' => Pending(k),
           \A k : Once(InBuffer, k) => Once(InBuffer', k),
           \A k : Has(fill'.events, k) => Has(fill.events, k),
           \A c \in Conv : written[c] <= written'[c],
           written' \in [Conv -> Nat]
    PROVE  RowInv'
<1>1. \A k \in Key : OnDisk(k) => OnDisk(k)'
  <2> SUFFICES ASSUME NEW k \in Chat, OnDisk(k) PROVE OnDisk(k)'
    BY DEF OnDisk
  <2>1. /\ k[1] \in Conv /\ k[2] \in Nat
        /\ written[k[1]] \in Nat /\ written'[k[1]] \in Nat
        /\ written[k[1]] <= written'[k[1]]
    BY ScriptFacts DEF TypeInv, Places
  <2> QED BY <2>1 DEF OnDisk
<1> QED BY <1>1, DisjointKeys DEF RowInv

(* A step that leaves the buffer alone.                                    *)
LEMMA SameBuffer ==
    UNCHANGED bufVars => /\ InBuffer' = InBuffer
                         /\ \A k : Pending(k)' <=> Pending(k)
                         /\ \A k : Once(InBuffer', k) <=> Once(InBuffer, k)
BY DEF bufVars, InBuffer, Pending

(* An append only puts more on disk.                                       *)
LEMMA RowAppend ==
    ASSUME TypeInv, RowInv, TypeInv', IDEAppends
    PROVE  RowInv'
<1>1. PICK c \in Conv : IDEWrites(c)
  BY DEF IDEAppends
<1>2. /\ UNCHANGED <<bufVars, storeVars, fill, sent>>
      /\ written' = [written EXCEPT ![c] = @ + 1]
  BY <1>1 DEF IDEWrites, tailerVars, IDEAppends, history
<1>3. /\ \A d \in Conv : written[d] <= written'[d]
      /\ written' \in [Conv -> Nat]
  <2>1. written \in [Conv -> Nat] /\ written' \in [Conv -> Nat]
    BY DEF TypeInv, Places
  <2>2. \A d \in Conv : written'[d] = IF d = c THEN written[c] + 1 ELSE written[d]
    BY <1>2, <2>1
  <2> QED BY <2>1, <2>2
<1> QED BY <1>2, <1>3, SameBuffer, RowQuiet DEF storeVars

(* The proxy pushes an event of its own key once.                          *)
LEMMA RowProxy ==
    ASSUME TypeInv, RowInv, ProxyRecords
    PROVE  RowInv'
<1>1. PICK k \in Interactive \ sent :
        /\ sent' = sent \cup {k}
        /\ Push([key |-> k, model |-> DefaultModel]) \/ PushRefused
  BY DEF ProxyRecords
<1>2. UNCHANGED <<storeVars, written, tailerVars>>
  BY DEF ProxyRecords
<1> DEFINE e == [key |-> k, model |-> DefaultModel]
<1>3. e \in TokenEvent /\ e.key = k
  BY TailerAssumption DEF TokenEvent, Key
<1>4. /\ \A n : Pending(n)' => Pending(n) \/ n = k
      /\ \A n : Once(InBuffer, n) /\ (n # k \/ ~Pending(n)) => Once(InBuffer', n)
  <2>1. CASE PushRefused
    BY <2>1, SameBuffer DEF PushRefused
  <2>2. CASE Push(e)
    <3>1. PushEffect(e) /\ Len(InBuffer) \in Nat
      BY <1>3, <2>2, PushStep DEF TypeInv
    <3> QED BY <1>3, <3>1, OnceAppended DEF PushEffect
  <2> QED BY <1>1, <2>1, <2>2
<1>5. \A n \in Key : OnDisk(n)' <=> OnDisk(n)
  BY <1>2 DEF OnDisk
<1>6. Empty(logs[k]) /\ ~Pending(k)
  BY <1>1 DEF RowInv
<1>7. logs' = logs /\ fill' = fill
  BY <1>2 DEF storeVars, tailerVars
<1>8. OnDisk(k)
  BY DisjointKeys DEF OnDisk
<1> HIDE DEF e
<1> QED BY <1>1, <1>4, <1>5, <1>6, <1>7, <1>8, DisjointKeys DEF RowInv

(* The poll loop pushes an event only when its whole line is on disk.      *)
LEMMA RowResponse ==
    ASSUME TypeInv, RowInv, PollResponse, UNCHANGED sent
    PROVE  RowInv'
<1>1. /\ AtLine /\ PollLine.responds
      /\ currentModel' = ModelAfter(PollLine, currentModel)
      /\ Push([key |-> PollKey, model |-> currentModel']) \/ PushRefused
      /\ UNCHANGED <<logs, written, fill>>
  BY DEF PollResponse, Advance
<1> DEFINE e == [key |-> PollKey, model |-> currentModel']
<1>2. e \in TokenEvent /\ e.key = PollKey /\ PollKey \in Chat /\ OnDisk(PollKey)
  <2>1. /\ PollKey \in Chat /\ currentModel' \in Model
        /\ 2 * LineNo(poll.pos) <= written[Dirs[poll.i]]
    BY <1>1, PollKeyFacts
  <2>2. PollKey[1] = Dirs[poll.i] /\ PollKey[2] = LineNo(poll.pos)
    BY DEF PollKey
  <2>3. LineNo(poll.pos) \in Nat /\ written[Dirs[poll.i]] \in Nat
    BY <1>1, PollKeyFacts, Halves DEF TypeInv, Places
  <2> QED BY <2>1, <2>2, <2>3 DEF TokenEvent, Key, OnDisk
<1>3. /\ \A n : Pending(n)' => Pending(n) \/ n = PollKey
      /\ \A n : Once(InBuffer, n) /\ n # PollKey => Once(InBuffer', n)
  <2>1. CASE PushRefused
    BY <2>1, SameBuffer DEF PushRefused
  <2>2. CASE Push(e)
    <3>1. PushEffect(e) /\ Len(InBuffer) \in Nat
      BY <1>2, <2>2, PushStep DEF TypeInv
    <3> QED BY <1>2, <3>1, OnceAppended DEF PushEffect
  <2> QED BY <1>1, <2>1, <2>2
<1>4. \A n \in Key : OnDisk(n)' <=> OnDisk(n)
  BY <1>1 DEF OnDisk
<1> HIDE DEF e
<1> QED BY <1>1, <1>2, <1>3, <1>4, DisjointKeys DEF RowInv

(* The worker writes its batch: no event of the proxy is in it twice or in *)
(* the log already.                                                        *)
LEMMA RowFlush ==
    ASSUME TypeInv, RowInv, NEW ok \in BOOLEAN, WorkerFlushes(ok)
    PROVE  RowInv'
<1>1. /\ FlushReturns /\ InsertUsageBatch(batch, ok)
      /\ UNCHANGED <<written, fill, sent>>
  BY DEF WorkerFlushes, tailerVars
<1>2. FlushEffect /\ Len(batch) \in Nat /\ Len(InBuffer') \in Nat
  BY <1>1, FlushStep DEF TypeInv
<1>3. /\ \A k : Pending(k) <=> Pending(k)' \/ Has(batch, k)
      /\ \A k : Once(InBuffer, k) => /\ Once(InBuffer', k) /\ Once(batch, k)
                                     /\ Has(batch, k) => ~Pending(k)'
  BY <1>2, OnceFlushed DEF FlushEffect
<1>4. (ok => BatchDoes(logs, logs', batch)) /\ (~ok => logs' = logs)
  BY <1>1, UsageBatch DEF TypeInv, BufferInv, BufTypeOK
<1>5. \A k \in Key : OnDisk(k)' <=> OnDisk(k)
  BY <1>1 DEF OnDisk
<1>6. CASE ~ok
  BY <1>1, <1>3, <1>4, <1>5, <1>6, DisjointKeys DEF RowInv
<1>7. CASE ok
  <2>1. ASSUME NEW k \in Key
        PROVE  /\ Empty(logs'[k]) \/ Single(logs'[k])
               /\ ~Empty(logs'[k]) => ~Empty(logs[k]) \/ Has(batch, k)
               /\ ~Has(batch, k) => logs'[k] = logs[k]
    <3>1. ~Has(batch, k) => logs'[k] = logs[k]
      BY <1>4, <1>7, <2>1 DEF BatchDoes
    <3>2. Has(batch, k) => Single(logs'[k])
      <4> SUFFICES ASSUME Has(batch, k) PROVE Single(logs'[k])
        OBVIOUS
      <4>1. k \in Chat \/ (Once(batch, k) /\ Empty(logs[k]))
        BY <1>3, <2>1, DisjointKeys DEF RowInv, Key
      <4> QED BY <1>4, <1>7, <2>1, <4>1 DEF BatchDoes
    <3> QED BY <2>1, <3>1, <3>2 DEF RowInv
  <2>2. \A k \in Key : ~Empty(logs'[k]) \/ Pending(k)' \/ Has(fill'.events, k) => OnDisk(k)'
    BY <1>1, <1>3, <1>5, <2>1 DEF RowInv
  <2>3. ASSUME NEW k \in Interactive
        PROVE  /\ ~Has(fill'.events, k) /\ Once(InBuffer', k)
               /\ k \notin sent' => Empty(logs'[k]) /\ ~Pending(k)'
               /\ Pending(k)' => Empty(logs'[k])
    BY <1>1, <1>3, <2>1, <2>3, DisjointKeys DEF RowInv
  <2> QED BY <2>1, <2>2, <2>3 DEF RowInv
<1> QED BY <1>6, <1>7

(* A write of the backfill, which only has events of transcripts.          *)
LEMMA RowFill ==
    ASSUME TypeInv, RowInv, NEW ok \in BOOLEAN,
           NEW events \in Seq(TokenEvent),
           logs' = logs \/ InsertUsageBatch(events, ok),
           \A k : Has(events, k) => k \in Chat /\ OnDisk(k),
           \A k : Has(fill'.events, k) => Has(events, k),
           UNCHANGED <<bufVars, written, sent>>
    PROVE  RowInv'
<1>1. \A k \in Key : OnDisk(k)' <=> OnDisk(k)
  BY DEF OnDisk
<1>2. /\ \A k : Pending(k)' <=> Pending(k)
      /\ \A k : Once(InBuffer', k) <=> Once(InBuffer, k)
  BY SameBuffer
<1>3. ASSUME NEW k \in Key
      PROVE  /\ Empty(logs'[k]) \/ Single(logs'[k])
             /\ ~Empty(logs'[k]) => ~Empty(logs[k]) \/ Has(events, k)
             /\ ~Has(events, k) => logs'[k] = logs[k]
  <2>1. CASE logs' = logs
    BY <1>3, <2>1 DEF RowInv
  <2>2. CASE InsertUsageBatch(events, ok)
    <3>1. (ok => BatchDoes(logs, logs', events)) /\ (~ok => logs' = logs)
      BY <2>2, UsageBatch DEF TypeInv
    <3>2. ~Has(events, k) => logs'[k] = logs[k]
      BY <1>3, <3>1 DEF BatchDoes
    <3>3. Has(events, k) /\ ok => Single(logs'[k])
      BY <1>3, <3>1 DEF BatchDoes
    <3> QED BY <1>3, <3>1, <3>2, <3>3 DEF RowInv
  <2> QED BY <2>1, <2>2
<1>4. \A k \in Key : ~Empty(logs'[k]) \/ Pending(k)' \/ Has(fill'.events, k) => OnDisk(k)'
  BY <1>1, <1>2, <1>3 DEF RowInv
<1>5. ASSUME NEW k \in Interactive
      PROVE  /\ ~Has(fill'.events, k) /\ Once(InBuffer', k)
             /\ k \notin sent' => Empty(logs'[k]) /\ ~Pending(k)'
             /\ Pending(k)' => Empty(logs'[k])
  BY <1>2, <1>3, <1>5, DisjointKeys DEF RowInv
<1> QED BY <1>3, <1>4, <1>5 DEF RowInv

(* The backfill holds and writes events of whole lines.                    *)
LEMMA RowFillStep ==
    ASSUME TypeInv, RowInv, NEW ok \in BOOLEAN, NEW okTasks \in BOOLEAN,
           FillStep(ok, okTasks), UNCHANGED sent
    PROVE  RowInv'
<1>1. \A k : Has(fill.events, k) => k \in Chat /\ OnDisk(k)
  <2>1. fill.events \in Seq(TokenEvent)
    BY DEF TypeInv, FillInv, FillRecord
  <2> QED BY <2>1, HasKey DEF RowInv, Key
<1>2. CASE FillLine(ok, okTasks)
  <2>1. FillKeyFacts /\ FillLineEffect(ok, okTasks)
    BY <1>2, FillLineLemma
  <2>2. ASSUME NEW k, Has(FillEvents, k) PROVE k \in Chat /\ OnDisk(k)
    <3>1. CASE Has(fill.events, k)
      BY <1>1, <3>1
    <3>2. CASE Turn(FillKey).responds /\ k = FillKey
      <4>1. /\ FillKey \in Chat /\ 2 * FillKey[2] <= written[FillKey[1]]
            /\ written[FillKey[1]] \in Nat /\ FillKey[2] \in Nat
        BY <2>1, <3>2, ScriptFacts DEF FillKeyFacts, TypeInv, Places
      <4> QED BY <3>2, <4>1 DEF OnDisk
    <3> QED BY <2>1, <2>2, <3>1, <3>2 DEF FillKeyFacts
  <2>3. FillEvents \in Seq(TokenEvent)
    BY <2>1 DEF FillKeyFacts
  <2>4. /\ logs' = logs \/ InsertUsageBatch(FillEvents, ok)
        /\ \A k : Has(fill'.events, k) => Has(FillEvents, k)
        /\ UNCHANGED <<bufVars, written>>
    BY <2>1, HasNothing DEF FillLineEffect
  <2> QED BY <2>2, <2>3, <2>4, RowFill
<1>3. CASE FillEnd(ok, okTasks)
  <2>1. /\ fill.events \in Seq(TokenEvent)
        /\ InsertUsageBatch(fill.events, ok) /\ fill' = NoFill
        /\ UNCHANGED <<bufVars, written>>
    BY <1>3 DEF FillEnd, TypeInv, FillInv, FillRecord
  <2>2. \A k : ~Has(fill'.events, k)
    BY <2>1, HasNothing DEF NoFill
  <2> QED BY <1>1, <2>1, <2>2, RowFill
<1> QED BY <1>2, <1>3 DEF FillStep

(* A crash empties the buffer and leaves the log.                          *)
LEMMA RowCrash ==
    ASSUME TypeInv, RowInv, CrashAndRestart
    PROVE  RowInv'
<1>1. PICK recent \in [Conv -> BOOLEAN] : Restart(recent)
  BY DEF CrashAndRestart
<1>2. /\ chan' = <<>> /\ batch' = <<>> /\ fill' = NoFill
      /\ UNCHANGED <<storeVars, written, sent>>
  BY <1>1 DEF Restart, CrashAndRestart
<1>3. InBuffer' = <<>>
  <2>1. <<>> \in Seq(TokenEvent) /\ \A s \in Seq(TokenEvent) : s \o <<>> = s
    BY ConcatEmptySeq, EmptySeq
  <2> QED BY <1>2, <2>1 DEF InBuffer
<1>4. \A k : ~Pending(k)' /\ ~Has(fill'.events, k) /\ Once(InBuffer', k)
  BY <1>2, <1>3, HasNothing, EmptySeq DEF Pending, Once, NoFill
<1>5. /\ logs' = logs /\ written' \in [Conv -> Nat]
      /\ \A c \in Conv : written[c] <= written'[c]
  BY <1>2 DEF storeVars, TypeInv, Places
<1> QED BY <1>2, <1>4, <1>5, RowQuiet

(* Every step keeps RowInv.                                                *)
LEMMA RowStep == TypeInv /\ TypeInv' /\ RowInv /\ [Next]_vars => RowInv'
<1> SUFFICES ASSUME TypeInv, TypeInv', RowInv, [Next]_vars PROVE RowInv'
  OBVIOUS
<1> DEFINE Quiet == /\ InBuffer' = InBuffer
                    /\ UNCHANGED <<logs, sent, written>>
                    /\ \A k : Has(fill'.events, k) => Has(fill.events, k)
<1>1. ASSUME Quiet PROVE RowInv'
  <2>1. /\ \A k : Pending(k)' => Pending(k)
        /\ \A k : Once(InBuffer, k) => Once(InBuffer', k)
    BY <1>1 DEF Pending
  <2>2. /\ \A c \in Conv : written[c] <= written'[c]
        /\ written' \in [Conv -> Nat]
    BY <1>1 DEF TypeInv, Places
  <2> QED BY <1>1, <2>1, <2>2, RowQuiet
<1>2. CASE IDEAppends
  BY <1>2, RowAppend
<1>3. CASE ProxyRecords
  BY <1>3, RowProxy
<1>4. CASE PollLoop
  <2>1. CASE PollResponse
    BY <1>4, <2>1, RowResponse DEF PollLoop
  <2>2. CASE ~PollResponse
    <3>1. /\ UNCHANGED <<bufVars, logs, written, fill, sent>>
      BY <1>4, <2>2 DEF PollLoop, PollTick, PollStat, PollFragment, PollOther, PollEnd,
                        PollEOF, PollOpenFails, Advance, storeVars
    <3> QED BY <1>1, <3>1, SameBuffer
  <2> QED BY <2>1, <2>2
<1>5. CASE BackfillStarts
  <2>1. /\ UNCHANGED <<bufVars, logs, written, sent>> /\ fill'.events = <<>>
    BY <1>5, NoFillType DEF BackfillStarts, FillStart, storeVars, NoFill, FillRecord
  <2> QED BY <1>1, <2>1, SameBuffer, HasNothing
<1>6. CASE Backfill
  <2>1. CASE FillNextFile \/ FillOpenFails
    <3>1. /\ UNCHANGED <<bufVars, logs, written, sent>> /\ fill'.events = fill.events
      BY <1>6, <2>1 DEF Backfill, FillNextFile, FillOpenFails, storeVars, TypeInv, FillInv,
                        FillRecord
    <3> QED BY <1>1, <3>1, SameBuffer
  <2> QED BY <1>6, <2>1, RowFillStep DEF Backfill
<1>7. CASE Worker
  <2>1. CASE (TakeEvent \/ Tick) /\ UNCHANGED <<storeVars, written, tailerVars, history, bounds>>
    <3>1. InBuffer' = InBuffer
      BY <2>1, TakeStep DEF TypeInv
    <3> QED BY <1>1, <2>1, <3>1 DEF storeVars, tailerVars, history
  <2> QED BY <1>7, <2>1, RowFlush DEF Worker
<1>8. CASE Rollup
  BY <1>1, <1>8, SameBuffer DEF Rollup, RollupHourlyMetrics, tailerVars, history
<1>9. CASE CrashAndRestart
  BY <1>9, RowCrash
<1>10. CASE UNCHANGED vars
  BY <1>1, <1>10, SameBuffer DEF vars, storeVars, tailerVars, history
<1> QED BY <1>2, <1>3, <1>4, <1>5, <1>6, <1>7, <1>8, <1>9, <1>10 DEF Next

(* RowInv implies the checked property.                                    *)
LEMMA RowImplies == TypeInv /\ RowInv => OneRowPerEvent
<1> SUFFICES ASSUME TypeInv, RowInv, NEW k \in Key
             PROVE  Rows(k) <= 1 /\ (Stored(k) => OnDisk(k))
  BY DEF OneRowPerEvent
<1>1. /\ Rows(k) \in Nat
      /\ Stored(k) <=> ~Empty(logs[k])
      /\ Single(logs[k]) => Rows(k) = 1
  BY RowFacts DEF TypeInv
<1>2. CASE Empty(logs[k])
  BY <1>1, <1>2 DEF Stored
<1>3. CASE Single(logs[k])
  BY <1>1, <1>3 DEF RowInv
<1> QED BY <1>2, <1>3 DEF RowInv

(* RowInv holds in every state.                                            *)
LEMMA RowInvariant == Spec => [](TypeInv /\ RowInv)
<1>1. Init => TypeInv /\ RowInv
  BY TypeInit, RowInit
<1>2. TypeInv /\ RowInv /\ [Next]_vars => (TypeInv /\ RowInv)'
  BY TypeStep, RowStep
<1> QED BY <1>1, <1>2, PTL DEF Spec

(* OneRowPerEvent of Pipeline: however often and by whomever a line is     *)
(* read, crash or not, the log has at most one row for it and only when it *)
(* is completely on disk; an event of the proxy, which no index protects,  *)
(* is stored at most once.                                                 *)
THEOREM OneRow == Spec => []OneRowPerEvent
BY RowInvariant, RowImplies, PTL

----------------------------------------------------------------------------
(* Nothing skipped by the poll loop.                                       *)
Handled(k) == ~Empty(logs[k]) \/ Pending(k)

SkipInv ==
    \A k \in Chat \ excused : Turn(k).responds =>
        /\ 2 * k[2] - 1 <= offset[k[1]] => Handled(k)
        /\ poll.at = "read" /\ k[1] = Dirs[poll.i] /\ 2 * k[2] <= poll.pos => Handled(k)

(* The steps that may give up on a response put it in excused.             *)
Running == \/ IDEAppends \/ ProxyRecords \/ PollLoop \/ BackfillStarts \/ Backfill
           \/ Worker \/ Rollup \/ UNCHANGED vars

(* While the program runs, a response that is stored or in the buffer      *)
(* stays so, or is excused.                                                *)
LEMMA HandledStays ==
    ASSUME TypeInv, TypeInv', Running, NEW k \in Key, k \notin excused'
    PROVE  /\ k \notin excused
           /\ Handled(k) => Handled(k)'
<1> DEFINE Calm == UNCHANGED <<bufVars, logs, excused>>
<1>2. ASSUME Calm PROVE k \notin excused /\ (Handled(k) => Handled(k)')
  BY <1>2, SameBuffer DEF Handled
<1>3. CASE IDEAppends
  BY <1>2, <1>3 DEF IDEAppends, IDEWrites, storeVars, history
<1>4. CASE ProxyRecords
  <2>1. PICK n \in Interactive \ sent :
            \/ Push([key |-> n, model |-> DefaultModel])
            \/ PushRefused
    BY <1>4 DEF ProxyRecords
  <2>2. logs' = logs /\ k \notin excused
    BY <1>4 DEF ProxyRecords, storeVars
  <2> DEFINE e == [key |-> n, model |-> DefaultModel]
  <2>3. e \in TokenEvent
    BY TailerAssumption DEF TokenEvent, Key
  <2> HIDE DEF e
  <2>4. Pending(k) => Pending(k)'
    <3>1. CASE Push(e)
      BY <2>3, <3>1, PushStep DEF TypeInv, PushEffect
    <3>2. CASE PushRefused
      BY <3>2, SameBuffer DEF PushRefused
    <3> QED BY <2>1, <3>1, <3>2 DEF e
  <2> QED BY <2>2, <2>4 DEF Handled
<1>5. CASE PollLoop
  <2>1. CASE PollResponse
    <3>1. /\ AtLine /\ PollLine.responds /\ logs' = logs
          /\ currentModel' = ModelAfter(PollLine, currentModel)
          /\ Push([key |-> PollKey, model |-> currentModel']) \/ PushRefused
      BY <2>1 DEF PollResponse, Advance
    <3> DEFINE e == [key |-> PollKey, model |-> currentModel']
    <3>2. e \in TokenEvent
      BY <3>1, PollKeyFacts DEF TokenEvent, Key
    <3> HIDE DEF e
    <3>3. Pending(k) => Pending(k)'
      <4>1. CASE Push(e)
        BY <3>2, <4>1, PushStep DEF TypeInv, PushEffect
      <4>2. CASE PushRefused
        BY <4>2, SameBuffer DEF PushRefused
      <4> QED BY <3>1, <4>1, <4>2 DEF e
    <3>4. k \notin excused
      BY <1>5 DEF PollLoop
    <3> QED BY <3>1, <3>3, <3>4 DEF Handled
  <2>2. CASE ~PollResponse
    <3>1. UNCHANGED <<bufVars, logs>>
      BY <1>5, <2>2 DEF PollLoop, PollTick, PollStat, PollFragment, PollOther, PollEnd,
                        PollEOF, PollOpenFails, Advance, storeVars
    <3>2. k \notin excused
      BY <1>5 DEF PollLoop
    <3> QED BY <3>1, <3>2, SameBuffer DEF Handled
  <2> QED BY <2>1, <2>2
<1>6. CASE BackfillStarts
  BY <1>2, <1>6 DEF BackfillStarts, FillStart, storeVars
<1>7. CASE Backfill
  <2>1. CASE FillNextFile \/ FillOpenFails
    BY <1>2, <1>7, <2>1 DEF Backfill, FillNextFile, FillOpenFails, storeVars
  <2>2. ASSUME NEW ok \in BOOLEAN, NEW okTasks \in BOOLEAN, FillStep(ok, okTasks)
        PROVE  UNCHANGED bufVars /\ (~Empty(logs[k]) => ~Empty(logs'[k]))
    <3>1. ASSUME NEW events \in Seq(TokenEvent), InsertUsageBatch(events, ok)
          PROVE  ~Empty(logs[k]) => ~Empty(logs'[k])
      BY <3>1, UsageBatch DEF TypeInv, BatchDoes
    <3>2. CASE FillLine(ok, okTasks)
      BY <3>1, <3>2, FillLineLemma DEF FillLineEffect, FillKeyFacts
    <3>3. CASE FillEnd(ok, okTasks)
      BY <3>1, <3>3 DEF FillEnd, TypeInv, FillInv, FillRecord
    <3> QED BY <2>2, <3>2, <3>3 DEF FillStep
  <2>3. excused' = excused
    BY <1>7 DEF Backfill
  <2>4. CASE \E ok, okTasks \in BOOLEAN : FillStep(ok, okTasks)
    BY <2>2, <2>3, <2>4, SameBuffer DEF Handled
  <2> QED BY <1>7, <2>1, <2>4 DEF Backfill
<1>8. CASE Worker
  <2>1. CASE (TakeEvent \/ Tick) /\ UNCHANGED <<storeVars, written, tailerVars, history, bounds>>
    BY <2>1, TakeStep DEF TypeInv, storeVars, history, Handled, Pending
  <2>2. ASSUME NEW ok \in BOOLEAN, WorkerFlushes(ok)
        PROVE  k \notin excused /\ (Handled(k) => Handled(k)')
    <3>1. /\ FlushReturns /\ InsertUsageBatch(batch, ok)
          /\ excused' = IF ok THEN excused ELSE excused \cup KeysOf(batch)
          /\ batch \in Seq(TokenEvent)
      BY <2>2 DEF WorkerFlushes, TypeInv, BufferInv, BufTypeOK
    <3>2. Pending(k) <=> Pending(k)' \/ Has(batch, k)
      BY <3>1, FlushStep DEF TypeInv, FlushEffect
    <3>3. k \notin excused /\ (~ok => ~Has(batch, k))
      BY <3>1, HasKey
    <3>4. (ok => BatchDoes(logs, logs', batch)) /\ (~ok => logs' = logs)
      BY <3>1, UsageBatch DEF TypeInv
    <3> QED BY <3>2, <3>3, <3>4 DEF Handled, BatchDoes
  <2> QED BY <1>8, <2>1, <2>2 DEF Worker
<1>9. CASE Rollup
  BY <1>2, <1>9 DEF Rollup, RollupHourlyMetrics, history
<1>10. CASE UNCHANGED vars
  BY <1>2, <1>10 DEF vars, storeVars, history
<1> QED BY <1>3, <1>4, <1>5, <1>6, <1>7, <1>8, <1>9, <1>10 DEF Running

(* In the beginning the offsets are before the first line.                 *)
LEMMA SkipInit == Init => SkipInv
<1> SUFFICES ASSUME Init, NEW k \in Chat PROVE ~(2 * k[2] - 1 <= offset[k[1]]) /\ poll.at # "read"
  BY DEF SkipInv
<1>1. poll.at = "idle" /\ offset = [c \in Conv |-> 0]
  BY DEF Init, TailerInit, Idle
<1>2. k[1] \in Conv /\ k[2] \in Nat /\ k[2] # 0
  BY ScriptFacts
<1>3. offset[k[1]] = 0
  BY <1>1, <1>2
<1> QED BY <1>1, <1>2, <1>3

(* Which line a position is at.                                            *)
LEMMA LineAt ==
    ASSUME NEW p \in Nat, Whole(p), NEW n \in Nat, 2 * n <= p + 2, ~(2 * n <= p)
    PROVE  n = LineNo(p) /\ n = LineNo(p + 1) /\ 2 * n = p + 2
BY DEF Whole, LineNo

(* Where a poll step leaves the offset and the reader, and what it excuses.*)
LEMMA SkipPoll ==
    ASSUME TypeInv, TypeInv', SkipInv, PollLoop, NEW k \in Chat \ excused',
           Turn(k).responds,
           \/ 2 * k[2] - 1 <= offset'[k[1]]
           \/ poll'.at = "read" /\ k[1] = Dirs[poll'.i] /\ 2 * k[2] <= poll'.pos
    PROVE  Handled(k)'
<1>1. k \notin excused /\ (Handled(k) => Handled(k)')
  BY HandledStays DEF Running, Key
<1>2. /\ 2 * k[2] - 1 <= offset[k[1]] => Handled(k)
      /\ poll.at = "read" /\ k[1] = Dirs[poll.i] /\ 2 * k[2] <= poll.pos => Handled(k)
  BY <1>1 DEF SkipInv
<1>3. /\ k[1] \in Conv /\ k[2] \in Nat \ {0} /\ k = <<k[1], k[2]>>
      /\ offset \in [Conv -> Nat] /\ offset[k[1]] \in Nat
      /\ poll \in PollRecord
  BY ScriptFacts DEF TypeInv, Places, PollInv
<1>4. CASE PollTick \/ PollEnd
  <2>1. offset' = offset /\ poll'.at # "read"
    <3>1. Idle.at = "idle"
      BY DEF Idle
    <3> QED BY <1>4, <3>1, AtStat DEF PollTick, PollEnd
  <2> QED BY <1>1, <1>2, <2>1
<1>5. CASE PollStat
  <2>1. /\ offset' = offset /\ poll.at = "stat" /\ poll.i <= Len(Dirs)
        /\ poll' = IF written[Dirs[poll.i]] > offset[Dirs[poll.i]]
                   THEN [at |-> "read", i |-> poll.i, pos |-> offset[Dirs[poll.i]],
                         size |-> written[Dirs[poll.i]]]
                   ELSE [poll EXCEPT !.i = @ + 1]
    BY <1>5 DEF PollStat
  <2>2. CASE 2 * k[2] - 1 <= offset[k[1]]
    BY <1>1, <1>2, <2>2
  <2>3. CASE poll'.at = "read" /\ k[1] = Dirs[poll'.i] /\ 2 * k[2] <= poll'.pos
    <3>1. poll'.i = poll.i /\ poll'.pos = offset[k[1]]
      BY <1>3, <2>1, <2>3 DEF PollRecord
    <3> QED BY <1>1, <1>2, <1>3, <2>3, <3>1
  <2> QED BY <2>1, <2>2, <2>3
<1>6. ASSUME AtLine, Advance
      PROVE  /\ offset' = offset /\ poll.at = "read" /\ poll'.i = poll.i
             /\ poll'.pos = LineEnd(poll.pos) /\ poll.pos \in Nat
             /\ offset[Dirs[poll.i]] <= poll.pos
             /\ ~Whole(poll.pos) => poll.pos = offset[Dirs[poll.i]]
  BY <1>3, <1>6 DEF AtLine, Advance, PollRecord, TypeInv, PollInv
<1>7. CASE PollFragment
  <2>1. /\ offset' = offset /\ poll'.i = poll.i /\ poll.pos \in Nat
        /\ poll'.pos = poll.pos + 1 /\ poll.pos = offset[Dirs[poll.i]]
    BY <1>6, <1>7, Halves DEF PollFragment
  <2> QED BY <1>1, <1>2, <1>3, <2>1
<1>8. ASSUME AtLine, Advance, Whole(poll.pos) PROVE Handled(k)' \/ k = PollKey
  <2>1. /\ offset' = offset /\ poll.at = "read" /\ poll'.i = poll.i /\ poll.pos \in Nat
        /\ poll'.pos = poll.pos + 2
    BY <1>6, <1>8, Halves
  <2>2. CASE 2 * k[2] - 1 <= offset[k[1]] \/ (k[1] = Dirs[poll.i] /\ 2 * k[2] <= poll.pos)
    BY <1>1, <1>2, <2>1, <2>2
  <2>3. CASE ~(2 * k[2] - 1 <= offset[k[1]] \/ (k[1] = Dirs[poll.i] /\ 2 * k[2] <= poll.pos))
    <3>1. k[1] = Dirs[poll.i] /\ k[2] = LineNo(poll.pos)
      BY <1>3, <1>8, <2>1, <2>3, LineAt
    <3> QED BY <1>3, <3>1 DEF PollKey
  <2> QED BY <2>2, <2>3
<1>9. k = PollKey => Turn(k) = PollLine
  BY DEF PollKey, PollLine, Turn
<1>10. CASE PollOther
  BY <1>8, <1>9, <1>10 DEF PollOther
<1>11. CASE PollResponse /\ excused' = excused \cup {n \in {PollKey} : chan' = chan}
  <2> DEFINE e == [key |-> PollKey, model |-> currentModel']
  <2>1. /\ AtLine /\ Advance /\ Whole(poll.pos) /\ PollLine.responds
        /\ currentModel' = ModelAfter(PollLine, currentModel)
        /\ Push(e) \/ PushRefused
    BY <1>11 DEF PollResponse
  <2>2. e \in TokenEvent /\ e.key = PollKey
    BY <2>1, PollKeyFacts DEF TokenEvent, Key
  <2> HIDE DEF e
  <2>3. SUFFICES ASSUME k = PollKey PROVE Handled(k)'
    BY <1>8, <2>1
  <2>4. ~PushRefused
    BY <1>11, <2>3 DEF PushRefused, bufVars
  <2>5. Pending(k)'
    BY <2>1, <2>2, <2>3, <2>4, PushStep DEF TypeInv, PushEffect
  <2> QED BY <2>5 DEF Handled
(* The reader leaves the file: the offset becomes the size it had statted. *)
<1>12. ASSUME PollEOF \/ PollOpenFails,
              ASSUME k[1] = Dirs[poll.i], 2 * k[2] - 1 <= poll.size, ~(2 * k[2] <= poll.pos)
              PROVE  FALSE
       PROVE  Handled(k)'
  <2>1. /\ poll.at = "read" /\ offset' = [offset EXCEPT ![Dirs[poll.i]] = poll.size]
        /\ poll'.at = "stat"
    <3>1. poll.i + 1 \in Nat
      BY <1>3 DEF PollRecord
    <3> QED BY <1>12, <3>1, AtStat DEF PollEOF, PollOpenFails
  <2>2. 2 * k[2] - 1 <= offset'[k[1]]
    BY <2>1
  <2>3. CASE k[1] = Dirs[poll.i]
    <3>1. offset'[k[1]] = poll.size
      BY <1>3, <2>1, <2>3
    <3> QED BY <1>1, <1>2, <1>12, <2>1, <2>2, <2>3, <3>1
  <2>4. CASE k[1] # Dirs[poll.i]
    <3>1. offset'[k[1]] = offset[k[1]]
      BY <1>3, <2>1, <2>4
    <3> QED BY <1>1, <1>2, <2>2, <3>1
  <2> QED BY <2>3, <2>4
<1>13. CASE PollEOF /\ excused' = excused \cup
                {n \in {<<Dirs[poll.i], LineNo(poll.size)>>} : poll.pos < poll.size}
  <2> SUFFICES ASSUME k[1] = Dirs[poll.i], 2 * k[2] - 1 <= poll.size, ~(2 * k[2] <= poll.pos)
               PROVE  FALSE
    BY <1>12, <1>13
  <2>1. /\ poll.pos \in Nat /\ poll.size \in Nat /\ k[2] \in Nat
        /\ written[k[1]] \in Nat /\ poll.size <= written[k[1]]
        /\ offset[k[1]] < poll.size
        /\ ~Whole(poll.pos) => poll.pos = offset[k[1]]
        /\ ~(LineEnd(poll.pos) <= written[k[1]])
    BY <1>3, <1>13 DEF PollEOF, PollRecord, TypeInv, PollInv, Places, HasLine
  <2>2. Whole(poll.pos)
    BY <2>1, Halves
  <2>3. poll.size <= poll.pos + 1
    BY <2>1, <2>2, Halves
  <2>4. 2 * k[2] <= poll.pos + 2
    BY <2>1, <2>3
  <2>5. k[2] = LineNo(poll.pos + 1) /\ 2 * k[2] = poll.pos + 2
    BY <2>1, <2>2, <2>4, LineAt
  <2>6. poll.size = poll.pos + 1
    BY <2>1, <2>3, <2>5
  <2>7. k = <<Dirs[poll.i], LineNo(poll.size)>> /\ poll.pos < poll.size
    BY <1>3, <2>1, <2>5, <2>6
  <2> QED BY <1>13, <2>7
<1>14. CASE PollOpenFails /\ excused' = excused \cup {n \in Chat :
                n[1] = Dirs[poll.i] /\ 2 * n[2] > poll.pos /\ 2 * n[2] - 1 <= poll.size}
  <2> SUFFICES ASSUME k[1] = Dirs[poll.i], 2 * k[2] - 1 <= poll.size, ~(2 * k[2] <= poll.pos)
               PROVE  FALSE
    BY <1>12, <1>14
  <2>1. 2 * k[2] > poll.pos
    BY <1>3 DEF PollRecord
  <2> QED BY <1>14, <2>1
<1> QED BY <1>4, <1>5, <1>7, <1>10, <1>11, <1>13, <1>14 DEF PollLoop

(* Every step keeps SkipInv.                                               *)
LEMMA SkipStep == TypeInv /\ TypeInv' /\ SkipInv /\ [Next]_vars => SkipInv'
<1> SUFFICES ASSUME TypeInv, TypeInv', SkipInv, [Next]_vars, NEW k \in Chat \ excused',
                    Turn(k).responds,
                    \/ 2 * k[2] - 1 <= offset'[k[1]]
                    \/ poll'.at = "read" /\ k[1] = Dirs[poll'.i] /\ 2 * k[2] <= poll'.pos
             PROVE  Handled(k)'
  BY DEF SkipInv, Turn
<1>1. CASE CrashAndRestart
  <2>1. poll'.at = "idle" /\ ~(2 * k[2] - 1 <= offset'[k[1]])
    BY <1>1 DEF CrashAndRestart, Restart, Idle
  <2> QED BY <2>1
<1>2. CASE PollLoop
  BY <1>2, SkipPoll
<1>3. ASSUME Running, UNCHANGED <<offset, poll>> PROVE Handled(k)'
  BY <1>3, HandledStays DEF SkipInv, Key
<1>4. CASE IDEAppends \/ ProxyRecords \/ BackfillStarts \/ Rollup \/ UNCHANGED vars
  <2>1. UNCHANGED <<offset, poll>>
    BY <1>4 DEF IDEAppends, IDEWrites, ProxyRecords, BackfillStarts, FillStart, Rollup,
                tailerVars, vars
  <2> QED BY <1>3, <1>4, <2>1 DEF Running
<1>5. CASE Worker
  <2>1. UNCHANGED <<offset, poll>>
    BY <1>5 DEF Worker, WorkerFlushes, tailerVars
  <2> QED BY <1>3, <1>5, <2>1 DEF Running
<1>6. CASE Backfill
  <2>1. UNCHANGED <<offset, poll>>
    BY <1>6 DEF Backfill, FillStep, FillNextFile, FillOpenFails, FillLine, FillEnd
  <2> QED BY <1>3, <1>6, <2>1 DEF Running
<1> QED BY <1>1, <1>2, <1>4, <1>5, <1>6 DEF Next

(* SkipInv implies the checked property.                                   *)
LEMMA SkipImplies == TypeInv /\ SkipInv => NothingSkipped
<1> SUFFICES ASSUME TypeInv, SkipInv, NEW k \in Chat \ excused,
                    Script[k[1]][k[2]].responds, 2 * k[2] <= offset[k[1]]
             PROVE  Stored(k) \/ k \in KeysOf(chan \o batch)
  BY DEF NothingSkipped
<1>1. k \in Key /\ k[1] \in Conv /\ k[2] \in Nat /\ offset[k[1]] \in Nat
  BY ScriptFacts DEF Key, TypeInv, Places
<1>2. Handled(k)
  BY <1>1 DEF SkipInv, Turn
<1> QED BY <1>1, <1>2, RowFacts, PendingIs DEF Handled, TypeInv

(* SkipInv holds in every state.                                           *)
LEMMA SkipInvariant == Spec => [](TypeInv /\ SkipInv)
<1>1. Init => TypeInv /\ SkipInv
  BY TypeInit, SkipInit
<1>2. TypeInv /\ SkipInv /\ [Next]_vars => (TypeInv /\ SkipInv)'
  BY TypeStep, SkipStep
<1> QED BY <1>1, <1>2, PTL DEF Spec

(* NothingSkipped of Pipeline: every response below the offset of its      *)
(* transcript is stored, in the buffer, or lost in one of the ways that    *)
(* excused names.                                                          *)
THEOREM Skipped == Spec => []NothingSkipped
BY SkipInvariant, SkipImplies, PTL

----------------------------------------------------------------------------
(* A clean backfill is complete.                                           *)
Passed(k) ==
    \/ \E j \in 1 .. Len(Dirs) : j < fill.i /\ Dirs[j] = k[1]
    \/ fill.i <= Len(Dirs) /\ Dirs[fill.i] = k[1] /\ 2 * k[2] <= fill.pos
Written(k) ==
    /\ Turn(k).responds => ~Empty(logs[k])
    /\ Turn(k).calls => k \in tasks
Read(k) ==
    /\ Turn(k).responds => ~Empty(logs[k]) \/ Has(fill.events, k)
    /\ Turn(k).calls => k \in tasks \cup fill.tasks
SyncInv ==
    /\ \A k \in Chat : 2 * k[2] <= synced[k[1]] => Written(k)
    /\ fill.at = "read" /\ clean =>
        \A k \in Chat : 2 * k[2] <= mark[k[1]] /\ Passed(k) => Read(k)

(* No step takes the last row of a key, or a response's tool calls, away.  *)
Keeps ==
    /\ \A k \in Key : ~Empty(logs[k]) => ~Empty(logs'[k])
    /\ tasks \subseteq tasks'

(* A batch adds rows for its keys and takes the last row of none away.     *)
LEMMA BatchKeeps ==
    ASSUME TypeInv, NEW events \in Seq(TokenEvent), NEW ok \in BOOLEAN,
           InsertUsageBatch(events, ok)
    PROVE  /\ \A k \in Key : ~Empty(logs[k]) => ~Empty(logs'[k])
           /\ ok => \A k \in Key : Has(events, k) => ~Empty(logs'[k])
BY UsageBatch DEF TypeInv, BatchDoes

(* No step takes the last row of a key away.                               *)
LEMMA KeepsStep ==
    ASSUME TypeInv, [Next]_vars
    PROVE  Keeps
<1>1. ASSUME UNCHANGED <<logs, tasks>> PROVE Keeps
  BY <1>1 DEF Keeps
<1>2. CASE \/ IDEAppends \/ ProxyRecords \/ BackfillStarts \/ Rollup
           \/ CrashAndRestart \/ UNCHANGED vars
  BY <1>1, <1>2 DEF IDEAppends, IDEWrites, ProxyRecords, BackfillStarts, FillStart, Rollup,
                    RollupHourlyMetrics, CrashAndRestart, Restart, storeVars, vars
<1>3. CASE PollLoop
  <2>1. logs' = logs
    BY <1>3 DEF PollLoop, PollTick, PollStat, PollFragment, PollOther, PollEnd, PollResponse,
                PollEOF, PollOpenFails, Advance, storeVars
  <2>2. tasks \subseteq tasks'
    <3>1. CASE PollResponse
      BY <3>1 DEF PollResponse, InsertAgentTaskBatch
    <3>2. CASE ~PollResponse
      BY <1>3, <3>2 DEF PollLoop, PollTick, PollStat, PollFragment, PollOther, PollEnd,
                        PollEOF, PollOpenFails, Advance, storeVars
    <3> QED BY <3>1, <3>2
  <2> QED BY <2>1, <2>2 DEF Keeps
<1>4. CASE Worker
  <2>1. CASE (TakeEvent \/ Tick) /\ UNCHANGED <<storeVars, written, tailerVars, history, bounds>>
    BY <1>1, <2>1 DEF storeVars
  <2>2. ASSUME NEW ok \in BOOLEAN, WorkerFlushes(ok) PROVE Keeps
    BY <2>2, BatchKeeps DEF WorkerFlushes, Keeps, TypeInv, BufferInv, BufTypeOK
  <2> QED BY <1>4, <2>1, <2>2 DEF Worker
<1>5. CASE Backfill
  <2>1. CASE FillNextFile \/ FillOpenFails
    BY <1>1, <2>1 DEF FillNextFile, FillOpenFails, storeVars
  <2>2. ASSUME NEW ok \in BOOLEAN, NEW okTasks \in BOOLEAN, FillStep(ok, okTasks) PROVE Keeps
    <3>1. CASE FillEnd(ok, okTasks)
      BY <3>1, BatchKeeps DEF FillEnd, Keeps, InsertAgentTaskBatch, TypeInv, FillInv, FillRecord
    <3>2. CASE FillLine(ok, okTasks)
      <4>1. /\ FillEvents \in Seq(TokenEvent)
            /\ logs' = logs \/ InsertUsageBatch(FillEvents, ok)
            /\ tasks' = tasks \/ InsertAgentTaskBatch(FillTasks, okTasks)
        BY <3>2, FillLineLemma DEF FillLineEffect, FillKeyFacts
      <4> QED BY <4>1, BatchKeeps DEF Keeps, InsertAgentTaskBatch
    <3> QED BY <2>2, <3>1, <3>2 DEF FillStep
  <2> QED BY <1>5, <2>1, <2>2 DEF Backfill
<1> QED BY <1>2, <1>3, <1>4, <1>5 DEF Next

(* In the beginning no backfill has finished.                              *)
LEMMA SyncInit == Init => SyncInv
<1> SUFFICES ASSUME Init PROVE SyncInv
  OBVIOUS
<1>1. synced = [c \in Conv |-> 0] /\ fill.at = "idle"
  BY NoFillType DEF Init, TailerInit
<1>2. \A k \in Chat : ~(2 * k[2] <= synced[k[1]])
  <2> SUFFICES ASSUME NEW k \in Chat PROVE ~(2 * k[2] <= synced[k[1]])
    OBVIOUS
  <2>1. k[1] \in Conv /\ k[2] \in Nat /\ k[2] # 0
    BY ScriptFacts
  <2>2. synced[k[1]] = 0
    BY <1>1, <2>1
  <2> QED BY <2>1, <2>2
<1> QED BY <1>1, <1>2 DEF SyncInv

(* The first conjunct, when the backfill does not end.                     *)
LEMMA SyncedStays ==
    ASSUME TypeInv, SyncInv, Keeps, synced' = synced
    PROVE  \A k \in Chat : 2 * k[2] <= synced'[k[1]] => Written(k)'
BY DEF SyncInv, Keeps, Written, Turn, Key

(* The backfill reads one line.                                            *)
LEMMA SyncLine ==
    ASSUME TypeInv, SyncInv, Keeps, NEW ok \in BOOLEAN, NEW okTasks \in BOOLEAN,
           FillLine(ok, okTasks), clean, ok, okTasks, mark' = mark,
           NEW k \in Chat, 2 * k[2] <= mark[k[1]], Passed(k)'
    PROVE  Read(k)'
<1>1. FillKeyFacts /\ FillLineEffect(ok, okTasks) /\ fill.at = "read"
  BY FillLineLemma DEF FillLine
<1>2. /\ fill'.i = fill.i /\ fill'.pos = fill.pos + 2
      /\ fill.pos \in Nat /\ Whole(fill.pos) /\ fill.i \in 1 .. Len(Dirs)
  BY <1>1 DEF FillKeyFacts, FillLineEffect, TypeInv, FillInv
<1>3. Passed(k) \/ k = FillKey
  <2> SUFFICES ASSUME ~Passed(k) PROVE k = FillKey
    OBVIOUS
  <2>1. k[1] = Dirs[fill.i] /\ 2 * k[2] <= fill.pos + 2 /\ ~(2 * k[2] <= fill.pos)
    BY <1>2 DEF Passed
  <2>2. k[2] = LineNo(fill.pos)
    BY <1>2, <2>1, ScriptFacts, LineAt
  <2>3. k = <<k[1], k[2]>>
    BY ScriptFacts
  <2> QED BY <2>1, <2>2, <2>3 DEF FillKey
<1>4. Passed(k) => Read(k)
  BY <1>1 DEF SyncInv
<1>5. /\ Turn(k).responds => ~Empty(logs[k]) \/ Has(FillEvents, k)
      /\ Turn(k).calls => k \in tasks \cup FillTasks
  BY <1>1, <1>3, <1>4 DEF FillKeyFacts, Read, FillTasks
<1>6. Turn(k).responds => ~Empty(logs'[k]) \/ Has(fill'.events, k)
  <2>1. k \in Key
    BY DEF Key
  <2>2. CASE fill'.events = FillEvents
    BY <1>5, <2>1, <2>2 DEF Keeps
  <2>3. CASE InsertUsageBatch(FillEvents, ok)
    BY <1>1, <1>5, <2>1, <2>3, BatchKeeps DEF FillKeyFacts
  <2> QED BY <1>1, <2>2, <2>3 DEF FillLineEffect
<1>7. Turn(k).calls => k \in tasks' \cup fill'.tasks
  BY <1>1, <1>5 DEF FillLineEffect, InsertAgentTaskBatch
<1> QED BY <1>6, <1>7 DEF Read, Turn

(* The backfill leaves a transcript when it has passed every line that was *)
(* complete at its start.                                                  *)
LEMMA SyncNextFile ==
    ASSUME TypeInv, SyncInv, Keeps, FillNextFile, clean, mark' = mark,
           NEW k \in Chat, 2 * k[2] <= mark[k[1]], Passed(k)'
    PROVE  Read(k)'
<1>1. /\ fill.at = "read" /\ fill.i <= Len(Dirs)
      /\ ~HasLine(Dirs[fill.i], fill.pos)
      /\ fill' = [fill EXCEPT !.i = @ + 1, !.pos = 0, !.model = DefaultModel]
  BY DEF FillNextFile
<1>2. fill \in FillRecord /\ fill.i \in 1 .. Len(Dirs) /\ Dirs[fill.i] \in Conv /\ Whole(fill.pos)
  BY <1>1, ScriptFacts DEF TypeInv, FillInv
<1>3. /\ fill'.i = fill.i + 1 /\ fill'.pos = 0
      /\ fill'.events = fill.events /\ fill'.tasks = fill.tasks /\ fill.pos \in Nat
  BY <1>1, <1>2 DEF FillRecord
<1>4. k[1] \in Conv /\ k[2] \in Nat \ {0}
  BY ScriptFacts
<1>5. Passed(k)
  <2>1. PICK j \in 1 .. Len(Dirs) : j < fill.i + 1 /\ Dirs[j] = k[1]
    BY <1>3, <1>4 DEF Passed
  <2>2. CASE j < fill.i
    BY <2>1, <2>2 DEF Passed
  <2>3. CASE j = fill.i
    <3>1. /\ written[k[1]] \in Nat /\ mark[k[1]] \in Nat /\ mark[k[1]] <= written[k[1]]
      BY <1>4 DEF TypeInv, Places
    <3>2. ~(fill.pos + 2 <= written[k[1]])
      BY <1>1, <1>2, <1>3, <2>1, <2>3, Halves DEF HasLine
    <3>3. 2 * k[2] <= fill.pos + 1
      BY <1>3, <1>4, <3>1, <3>2
    <3>4. 2 * k[2] <= fill.pos
      BY <1>2, <1>3, <1>4, <3>3, LineAt
    <3> QED BY <1>1, <2>1, <2>3, <3>4 DEF Passed
  <2> QED BY <1>2, <2>1, <2>2, <2>3
<1>6. Read(k)
  BY <1>1, <1>5 DEF SyncInv
<1> QED BY <1>3, <1>6 DEF Read, Turn, Keeps, Key

(* The backfill ends when it has passed every transcript.                  *)
LEMMA SyncEnd ==
    ASSUME TypeInv, SyncInv, Keeps, NEW ok \in BOOLEAN, NEW okTasks \in BOOLEAN,
           FillEnd(ok, okTasks), clean, ok, okTasks,
           NEW k \in Chat, 2 * k[2] <= mark[k[1]]
    PROVE  Written(k)'
<1>1. /\ fill.at = "read" /\ fill.i > Len(Dirs)
      /\ InsertUsageBatch(fill.events, ok) /\ InsertAgentTaskBatch(fill.tasks, okTasks)
  BY DEF FillEnd
<1>2. fill \in FillRecord /\ fill.i \in Nat /\ fill.events \in Seq(TokenEvent)
  BY DEF TypeInv, FillInv, FillRecord
<1>3. \E j \in 1 .. Len(Dirs) : Dirs[j] = k[1]
  <2>1. k[1] \in Conv /\ DOMAIN Dirs = 1 .. Len(Dirs)
    BY ScriptFacts, TailerAssumption, LenProperties
  <2> QED BY <2>1 DEF Conv, ToSet
<1>4. Passed(k)
  BY <1>1, <1>2, <1>3, ScriptFacts DEF Passed
<1>5. Read(k)
  BY <1>1, <1>4 DEF SyncInv
<1>6. Turn(k).responds => ~Empty(logs'[k])
  BY <1>1, <1>2, <1>5, BatchKeeps DEF Read, Key
<1>7. Turn(k).calls => k \in tasks'
  BY <1>1, <1>5 DEF Read, InsertAgentTaskBatch
<1> QED BY <1>6, <1>7 DEF Written, Turn

(* Every step keeps SyncInv.                                               *)
LEMMA SyncStep == TypeInv /\ SyncInv /\ [Next]_vars => SyncInv'
<1> SUFFICES ASSUME TypeInv, SyncInv, [Next]_vars PROVE SyncInv'
  OBVIOUS
<1> DEFINE Reading == fill'.at = "read" /\ clean' =>
                        \A k \in Chat : 2 * k[2] <= mark'[k[1]] /\ Passed(k)' => Read(k)'
<1>1. Keeps
  BY KeepsStep
<1>2. ASSUME UNCHANGED synced, Reading PROVE SyncInv'
  BY <1>1, <1>2, SyncedStays DEF SyncInv
<1>3. ASSUME UNCHANGED <<fill, clean, mark, synced>> PROVE SyncInv'
  <2>1. \A k \in Chat : (Passed(k)' => Passed(k)) /\ (Read(k) => Read(k)')
    BY <1>1, <1>3 DEF Passed, Read, Turn, Keeps, Key
  <2> QED BY <1>2, <1>3, <2>1 DEF SyncInv
<1>4. CASE IDEAppends \/ ProxyRecords \/ Rollup \/ UNCHANGED vars
  BY <1>3, <1>4 DEF IDEAppends, IDEWrites, ProxyRecords, Rollup, tailerVars, history, vars
<1>5. CASE PollLoop
  BY <1>3, <1>5 DEF PollLoop, PollTick, PollStat, PollFragment, PollOther, PollEnd, PollResponse,
                    PollEOF, PollOpenFails, Advance
<1>6. CASE Worker
  BY <1>3, <1>6 DEF Worker, WorkerFlushes, tailerVars, history
<1>7. CASE BackfillStarts
  <2>1. /\ fill' = [NoFill EXCEPT !.at = "read", !.i = 1] /\ UNCHANGED synced
    BY <1>7 DEF BackfillStarts, FillStart
  <2>2. fill'.i = 1 /\ fill'.pos = 0
    BY <2>1 DEF NoFill
  <2>3. \A k \in Chat : ~Passed(k)'
    <3>1. \A k \in Chat : k[2] \in Nat \ {0}
      BY ScriptFacts
    <3> QED BY <2>2, <3>1 DEF Passed
  <2> QED BY <1>2, <2>1, <2>3
<1>8. CASE CrashAndRestart
  <2>1. fill'.at = "idle" /\ UNCHANGED synced
    BY <1>8, NoFillType DEF CrashAndRestart, Restart
  <2> QED BY <1>2, <2>1
<1>9. CASE Backfill
  <2>1. mark' = mark
    BY <1>9 DEF Backfill
  <2>2. CASE FillNextFile /\ UNCHANGED <<clean, synced, left>>
    BY <1>1, <1>2, <2>1, <2>2, SyncNextFile
  <2>3. CASE FillOpenFails /\ clean' = FALSE /\ UNCHANGED <<synced, left>>
    BY <1>2, <2>3
  <2>4. ASSUME NEW ok \in BOOLEAN, NEW okTasks \in BOOLEAN, FillStep(ok, okTasks),
               clean' = (clean /\ ok /\ okTasks),
               synced' = IF fill'.at = "idle" /\ clean' THEN mark ELSE synced
        PROVE  SyncInv'
    <3>1. CASE FillLine(ok, okTasks)
      <4>1. fill'.at = "read" /\ UNCHANGED synced
        BY <2>4, <3>1, FillLineLemma DEF FillLineEffect
      <4>2. Reading
        BY <1>1, <2>1, <2>4, <3>1, SyncLine
      <4> QED BY <1>2, <4>1, <4>2
    <3>2. CASE FillEnd(ok, okTasks)
      <4>1. fill'.at = "idle"
        BY <3>2, NoFillType DEF FillEnd
      <4>2. CASE ~clean'
        BY <1>2, <2>4, <4>1, <4>2
      <4>3. CASE clean'
        <5>1. clean /\ ok /\ okTasks /\ synced' = mark
          BY <2>4, <4>1, <4>3
        <5>2. \A k \in Chat : 2 * k[2] <= synced'[k[1]] => Written(k)'
          BY <1>1, <3>2, <5>1, SyncEnd
        <5> QED BY <4>1, <5>2 DEF SyncInv
      <4> QED BY <4>2, <4>3
    <3> QED BY <2>4, <3>1, <3>2 DEF FillStep
  <2> QED BY <1>9, <2>2, <2>3, <2>4 DEF Backfill
<1> QED BY <1>4, <1>5, <1>6, <1>7, <1>8, <1>9 DEF Next

(* SyncInv implies the checked property.                                   *)
LEMMA SyncImplies == TypeInv /\ SyncInv => BackfillComplete
<1> SUFFICES ASSUME TypeInv, SyncInv, NEW k \in Chat, 2 * k[2] <= synced[k[1]]
             PROVE  /\ Script[k[1]][k[2]].responds => Stored(k)
                    /\ Script[k[1]][k[2]].calls => k \in tasks
  BY DEF BackfillComplete
<1> QED BY RowFacts DEF SyncInv, Written, Turn, TypeInv, Key

(* SyncInv holds in every state.                                           *)
LEMMA SyncInvariant == Spec => [](TypeInv /\ SyncInv)
<1>1. Init => TypeInv /\ SyncInv
  BY TypeInit, SyncInit
<1>2. TypeInv /\ SyncInv /\ [Next]_vars => (TypeInv /\ SyncInv)'
  BY TypeStep, SyncStep
<1> QED BY <1>1, <1>2, PTL DEF Spec

(* BackfillComplete of Pipeline: a backfill that ends without a failure    *)
(* has stored every response, with its tool calls, that was complete when  *)
(* it began, and nothing takes them away later.                            *)
THEOREM Backfilled == Spec => []BackfillComplete
BY SyncInvariant, SyncImplies, PTL

----------------------------------------------------------------------------
(* The rollup.                                                             *)
RollInv == \A m \in Model \ left : rollup[m] > 0 => \E k \in Key : logs[k][m] > 0

(* In the beginning the rollup is empty.                                   *)
LEMMA RollInit == Init => RollInv
<1> SUFFICES ASSUME Init, NEW m \in Model PROVE ~(rollup[m] > 0)
  BY DEF RollInv
<1> QED BY DEF Init, StoreInit

(* left takes in every model that loses a row.                             *)
LEMMA LeftGrows ==
    ASSUME TypeInv, TypeInv', [Next]_vars, NEW m \in Model \ left'
    PROVE  /\ m \notin left
           /\ \A k \in Key : logs'[k][m] >= logs[k][m]
<1>1. ASSUME UNCHANGED <<logs, left>>
      PROVE  m \notin left /\ \A k \in Key : logs'[k][m] >= logs[k][m]
  BY <1>1 DEF TypeInv, StoreTypeOK
<1>2. ASSUME left' = left \cup RowsLeft
      PROVE  m \notin left /\ \A k \in Key : logs'[k][m] >= logs[k][m]
  BY <1>2 DEF RowsLeft, TypeInv, StoreTypeOK
<1>3. CASE \/ IDEAppends \/ ProxyRecords \/ BackfillStarts \/ Rollup
           \/ CrashAndRestart \/ UNCHANGED vars
  BY <1>1, <1>3 DEF IDEAppends, IDEWrites, ProxyRecords, BackfillStarts, FillStart, Rollup,
                    RollupHourlyMetrics, CrashAndRestart, Restart, storeVars, history, vars
<1>4. CASE PollLoop
  BY <1>1, <1>4 DEF PollLoop, PollTick, PollStat, PollFragment, PollOther, PollEnd, PollResponse,
                    PollEOF, PollOpenFails, Advance, storeVars
<1>5. CASE Worker
  BY <1>1, <1>2, <1>5 DEF Worker, WorkerFlushes, storeVars, history
<1>6. CASE Backfill
  BY <1>1, <1>2, <1>6 DEF Backfill, FillNextFile, FillOpenFails, storeVars
<1> QED BY <1>3, <1>4, <1>5, <1>6 DEF Next

(* Every step keeps RollInv.                                               *)
LEMMA RollStep == TypeInv /\ TypeInv' /\ RollInv /\ [Next]_vars => RollInv'
<1> SUFFICES ASSUME TypeInv, TypeInv', RollInv, [Next]_vars, NEW m \in Model \ left', rollup'[m] > 0
             PROVE  \E k \in Key : logs'[k][m] > 0
  BY DEF RollInv
<1>1. m \notin left /\ \A k \in Key : logs'[k][m] >= logs[k][m]
  BY LeftGrows
<1>2. \A k \in Key : logs[k][m] \in Nat /\ logs'[k][m] \in Nat
  BY DEF TypeInv, StoreTypeOK
<1>3. CASE rollup' = rollup
  BY <1>1, <1>2, <1>3 DEF RollInv
<1>4. CASE Rollup
  <2>1. /\ rollup'[m] = IF GroupCount(m) > 0 THEN GroupCount(m) ELSE rollup[m]
    BY <1>4 DEF Rollup, RollupHourlyMetrics
  <2> QED BY <1>1, <1>2, <2>1, GroupFacts DEF RollInv, TypeInv
<1>5. CASE IDEAppends \/ ProxyRecords \/ BackfillStarts \/ CrashAndRestart \/ UNCHANGED vars
  BY <1>3, <1>5 DEF IDEAppends, IDEWrites, ProxyRecords, BackfillStarts, FillStart,
                    CrashAndRestart, Restart, storeVars, vars
<1>6. CASE PollLoop
  BY <1>3, <1>6 DEF PollLoop, PollTick, PollStat, PollFragment, PollOther, PollEnd, PollResponse,
                    PollEOF, PollOpenFails, Advance, storeVars
<1>7. CASE Worker
  BY <1>3, <1>7 DEF Worker, WorkerFlushes, storeVars
<1>8. CASE Backfill
  BY <1>3, <1>8 DEF Backfill, FillNextFile, FillOpenFails, FillStep, FillLine, FillEnd, storeVars
<1> QED BY <1>4, <1>5, <1>6, <1>7, <1>8 DEF Next

(* What the rollup makes of a model that has lost no row.                  *)
LEMMA RollImplies ==
    ASSUME TypeInv, RollInv, Rollup, NEW m \in Model \ left
    PROVE  rollup'[m] = GroupCount(m)
<1>1. rollup'[m] = IF GroupCount(m) > 0 THEN GroupCount(m) ELSE rollup[m]
  BY DEF Rollup, RollupHourlyMetrics
<1>2. /\ GroupCount(m) \in Nat /\ rollup[m] \in Nat
      /\ GroupCount(m) > 0 <=> \E k \in Key : logs[k][m] > 0
  BY GroupFacts DEF TypeInv, StoreTypeOK
<1>3. CASE GroupCount(m) > 0
  BY <1>1, <1>3
<1>4. CASE ~(GroupCount(m) > 0)
  BY <1>1, <1>2, <1>4 DEF RollInv
<1> QED BY <1>3, <1>4

(* RollInv holds in every state.                                           *)
LEMMA RollInvariant == Spec => [](TypeInv /\ RollInv)
<1>1. Init => TypeInv /\ RollInv
  BY TypeInit, RollInit
<1>2. TypeInv /\ RollInv /\ [Next]_vars => (TypeInv /\ RollInv)'
  BY TypeStep, RollStep
<1> QED BY <1>1, <1>2, PTL DEF Spec

(* RollupExact of Pipeline: a rollup agrees with the log for every model   *)
(* that a replaced row was never taken away from.                          *)
THEOREM RollupIsExact == Spec => RollupExact
<1>1. TypeInv /\ RollInv /\ [Next]_vars
        => [Rollup => \A m \in Model \ left : rollup'[m] = GroupCount(m)]_vars
  BY RollImplies
<1> QED BY <1>1, RollInvariant, PTL DEF Spec, RollupExact

-----------------------------------------------------------------------------
(***************************************************************************)
(* The refinement of UsageLedger: its events are the keys, the booked ones *)
(* those with a row, the coming ones those in the buffer.                  *)
(***************************************************************************)
Coming == {k \in Key : Pending(k)}
Booked == {k \in Key : ~Empty(logs[k])}

(* The mapping of Ledger in terms of positions and rows.                   *)
Views ==
    /\ KeysOf(chan \o batch) = Coming
    /\ {k \in Key : Stored(k)} = Booked
    /\ Happened = {k \in Chat : written[k[1]] >= 2 * k[2]} \cup sent
    /\ Collected = {k \in Chat : Turn(k).responds /\ 2 * k[2] <= offset[k[1]]} \cup sent

(* They are what the mapping of Ledger says, for well-typed states.        *)
LEMMA ViewsHold == TypeInv => Views
<1> SUFFICES ASSUME TypeInv PROVE Views
  OBVIOUS
<1>1. KeysOf(chan \o batch) = Coming
  BY PendingIs DEF TypeInv, Coming
<1>2. {k \in Key : Stored(k)} = Booked
  BY RowFacts DEF TypeInv, Booked
<1>3. Happened = {k \in Chat : written[k[1]] >= 2 * k[2]} \cup sent
  BY DEF Happened, OnDisk
<1>4. Collected = {k \in Chat : Turn(k).responds /\ 2 * k[2] <= offset[k[1]]} \cup sent
  BY DEF Collected, Turn
<1> QED BY <1>1, <1>2, <1>3, <1>4 DEF Views

LEMMA ViewsHoldNext == TypeInv' => Views'
BY ViewsHold, PTL

(* An event of the proxy that was sent is dealt with.                      *)
SentInv == sent \subseteq Interactive /\ \A k \in sent : Handled(k) \/ k \in excused

(* No event was sent before the program starts.                            *)
LEMMA SentInit == Init => SentInv
BY DEF Init, SentInv

(* ProxyRecords pushes its event or writes it off, and what is handled     *)
(* stays so.                                                               *)
LEMMA SentStep == TypeInv /\ TypeInv' /\ SentInv /\ [Next]_vars => SentInv'
<1> SUFFICES ASSUME TypeInv, TypeInv', SentInv, [Next]_vars PROVE SentInv'
  OBVIOUS
<1>1. ASSUME NEW k \in Key, Running, Handled(k) \/ k \in excused
      PROVE  Handled(k)' \/ k \in excused'
  <2>1. excused \subseteq excused'
    BY <1>1 DEF Running, IDEAppends, ProxyRecords, PollLoop, BackfillStarts, Backfill, Worker,
                WorkerFlushes, Rollup, vars, history
  <2> QED BY <1>1, <2>1, HandledStays
<1>2. sent \subseteq Key
  BY DisjointKeys DEF SentInv
<1>3. CASE ProxyRecords
  <2>1. PICK n \in Interactive \ sent :
            /\ sent' = sent \cup {n}
            /\ \/ Push([key |-> n, model |-> DefaultModel])
               \/ excused' = excused \cup {n}
    BY <1>3 DEF ProxyRecords
  <2> DEFINE e == [key |-> n, model |-> DefaultModel]
  <2>2. e \in TokenEvent /\ e.key = n
    BY TailerAssumption DEF TokenEvent, Key
  <2> HIDE DEF e
  <2>3. Pending(n)' \/ n \in excused'
    BY <2>1, <2>2, PushStep DEF TypeInv, PushEffect, e
  <2>4. \A k \in sent : Handled(k)' \/ k \in excused'
    BY <1>1, <1>2, <1>3 DEF Running, SentInv
  <2> QED BY <2>1, <2>3, <2>4 DEF SentInv, Handled
<1>4. CASE CrashAndRestart
  <2>1. /\ sent' = sent /\ logs' = logs
        /\ excused' = excused
            \cup {k \in Chat : 2 * k[2] - 1 <= offset'[k[1]]}
            \cup {k \in Interactive : k \in KeysOf(chan \o batch)}
    BY <1>4 DEF CrashAndRestart, Restart, storeVars
  <2>2. ASSUME NEW k \in sent PROVE Handled(k)' \/ k \in excused'
    <3>1. CASE Pending(k)
      BY <2>1, <3>1, PendingIs DEF SentInv, TypeInv
    <3>2. CASE ~Empty(logs[k]) \/ k \in excused
      BY <2>1, <3>2 DEF Handled
    <3> QED BY <3>1, <3>2 DEF SentInv, Handled
  <2> QED BY <2>1, <2>2 DEF SentInv
<1>5. CASE Running /\ sent' = sent
  BY <1>1, <1>2, <1>5 DEF SentInv
<1>6. CASE ~ProxyRecords /\ ~CrashAndRestart
  <2>1. Running
    BY <1>6 DEF Next, Running
  <2>2. sent' = sent
    BY <1>6, <2>1 DEF Running, IDEAppends, PollLoop, BackfillStarts, Backfill, Worker,
                      WorkerFlushes, Rollup, vars, history
  <2> QED BY <1>5, <2>1, <2>2
<1> QED BY <1>3, <1>4, <1>6

(* The invariant, and what is known of both ends of a step.                *)
LedgerInv == TypeInv /\ RowInv /\ SkipInv /\ SentInv
Around == /\ LedgerInv /\ LedgerInv' /\ [Next]_vars
          /\ Views /\ Views'

Grounded == Booked \subseteq Happened /\ Happened \subseteq Key

(* Only what happened is in the books, and it is an event of the model.    *)
LEMMA BookedHappened == LedgerInv => Grounded
<1> SUFFICES ASSUME LedgerInv PROVE Grounded
  OBVIOUS
<1>1. ASSUME NEW k \in Booked PROVE k \in Happened
  BY <1>1, DisjointKeys DEF LedgerInv, RowInv, Booked, Happened, Key
<1>2. Happened \subseteq Key
  BY DEF Happened, LedgerInv, SentInv, Key
<1> QED BY <1>1, <1>2 DEF Grounded

LEMMA BookedHappenedNext == LedgerInv' => Grounded'
BY BookedHappened, PTL

(* A step that concerns neither transcripts, offsets, buffer nor log.      *)
LEMMA LedgerStutters ==
    ASSUME Around, UNCHANGED <<written, offset, sent, logs, excused>>,
           \A k : Pending(k)' <=> Pending(k)
    PROVE  UNCHANGED Ledger!ledger
<1>1. Coming' = Coming /\ Booked' = Booked
  BY DEF Coming, Booked
<1> QED BY <1>1 DEF Around, Views, Ledger!ledger

(* The IDE completes a line.                                               *)
LEMMA AppendRefines == ASSUME Around, IDEAppends PROVE Ledger!Happen
<1>1. /\ UNCHANGED <<offset, sent, logs, excused>>
      /\ UNCHANGED bufVars
      /\ \A c \in Conv : written[c] <= written'[c]
  BY DEF IDEAppends, IDEWrites, storeVars, tailerVars, history, Around, LedgerInv, TypeInv, Places
<1>2. Coming' = Coming /\ Booked' = Booked /\ Collected' = Collected
  BY <1>1, SameBuffer DEF Coming, Booked, Around, Views
<1>3. \A k \in Chat : k[1] \in Conv /\ k[2] \in Nat
  BY ScriptFacts
<1>4. Happened \subseteq Happened'
  BY <1>1, <1>3 DEF Around, Views, LedgerInv, TypeInv, Places
<1>5. Happened' \subseteq Key
  BY BookedHappenedNext DEF Around, Grounded
<1> QED BY <1>1, <1>2, <1>4, <1>5 DEF Around, Views, Ledger!Happen, Ledger!Grows

(* A proxied response is pushed or refused.                                *)
LEMMA ProxyRefines == ASSUME Around, ProxyRecords PROVE \E k \in Key : Ledger!Collect(k)
<1>1. PICK n \in Interactive \ sent :
            /\ sent' = sent \cup {n}
            /\ \/ Push([key |-> n, model |-> DefaultModel]) /\ UNCHANGED excused
               \/ PushRefused /\ excused' = excused \cup {n}
            /\ UNCHANGED <<written, offset, logs>>
  BY DEF ProxyRecords, storeVars, tailerVars
<1> DEFINE e == [key |-> n, model |-> DefaultModel]
<1>2. e \in TokenEvent /\ e.key = n /\ n \in Key
  BY TailerAssumption DEF TokenEvent, Key
<1> HIDE DEF e
<1>3. Booked' = Booked /\ Happened' = Happened \cup {n} /\ Collected' = Collected \cup {n}
  BY <1>1 DEF Booked, Around, Views
<1>4. \/ Coming' = Coming \cup {n} /\ (excused \cap Key)' = excused \cap Key
      \/ Coming' = Coming /\ (excused \cap Key)' = (excused \cap Key) \cup {n}
  <2>1. CASE Push(e) /\ UNCHANGED excused
    BY <1>2, <2>1, PushStep DEF Around, LedgerInv, TypeInv, PushEffect, Coming
  <2>2. CASE PushRefused /\ excused' = excused \cup {n}
    <3>1. UNCHANGED bufVars
      BY <2>2 DEF PushRefused
    <3> QED BY <1>2, <2>2, <3>1, SameBuffer DEF Coming
  <2> QED BY <1>1, <2>1, <2>2 DEF e
<1>5. Ledger!Collect(n)
  BY <1>3, <1>4 DEF Around, Views, Ledger!Collect
<1> QED BY <1>2, <1>5
(* The poll loop sends a response on its way, or clears away what it has   *)
(* dealt with.                                                             *)
LEMMA ResponseRefines ==
    ASSUME Around, PollResponse, excused' = excused \cup {k \in {PollKey} : chan' = chan},
           sent' = sent
    PROVE  \E k \in Key : Ledger!Collect(k)
<1> DEFINE e == [key |-> PollKey, model |-> currentModel']
<1>1. /\ AtLine /\ PollLine.responds /\ currentModel' = ModelAfter(PollLine, currentModel)
      /\ Push(e) \/ PushRefused
      /\ UNCHANGED <<logs, written, offset>>
  BY DEF PollResponse, Advance
<1>2. e \in TokenEvent /\ e.key = PollKey /\ PollKey \in Chat /\ PollKey \in Key
  BY <1>1, PollKeyFacts DEF Around, LedgerInv, TokenEvent, Key
<1> HIDE DEF e
<1>3. 2 * LineNo(poll.pos) <= written[Dirs[poll.i]]
  BY <1>1, PollKeyFacts DEF Around, LedgerInv
<1>4. written[PollKey[1]] >= 2 * PollKey[2]
  <2>1. LineNo(poll.pos) \in Nat /\ written[Dirs[poll.i]] \in Nat
    BY <1>1, PollKeyFacts DEF Around, LedgerInv, TypeInv, Places
  <2> QED BY <1>3, <2>1 DEF PollKey
<1>5. Booked' = Booked /\ Happened' = Happened \cup {PollKey} /\ Collected' = Collected
  BY <1>1, <1>2, <1>4 DEF Booked, Around, Views
<1>6. \/ Coming' = Coming \cup {PollKey} /\ (excused \cap Key)' = excused \cap Key
      \/ Coming' = Coming /\ (excused \cap Key)' = (excused \cap Key) \cup {PollKey}
  <2>1. CASE Push(e)
    BY <1>2, <2>1, PushStep DEF Around, LedgerInv, TypeInv, PushEffect, Coming
  <2>2. CASE PushRefused
    <3>1. UNCHANGED bufVars /\ chan' = chan
      BY <2>2 DEF PushRefused, bufVars
    <3> QED BY <1>2, <3>1, SameBuffer DEF Coming
  <2> QED BY <1>1, <2>1, <2>2
<1>7. Ledger!Collect(PollKey)
  BY <1>5, <1>6 DEF Around, Views, Ledger!Collect
<1> QED BY <1>2, <1>7

(* The steps of the poll loop at which no response is read.                *)
PollPasses ==
    /\ \/ PollTick \/ PollStat \/ PollFragment \/ PollOther \/ PollEnd
       \/ PollEOF \/ PollOpenFails
    /\ excused \subseteq excused'
    /\ sent' = sent

(* They move an offset past what has been dealt with, or is written off.   *)
LEMMA PollRefines == ASSUME Around, PollPasses PROVE Ledger!Clear
<1>1. /\ UNCHANGED bufVars /\ UNCHANGED <<logs, written, sent>>
      /\ excused \subseteq excused'
  BY DEF PollPasses, PollTick, PollStat, PollFragment, PollOther, PollEnd,
         PollEOF, PollOpenFails, Advance, storeVars
<1>2. Coming' = Coming /\ Booked' = Booked /\ Happened' = Happened
  BY <1>1, SameBuffer DEF Coming, Booked, Around, Views
<1>3. \A c \in Conv : offset[c] <= offset'[c]
  <2>1. offset \in [Conv -> Nat] /\ poll \in PollRecord
        /\ (poll.at = "read" => offset[Dirs[poll.i]] < poll.size)
    BY DEF Around, LedgerInv, TypeInv, Places, PollInv
  <2>2. \/ offset' = offset
        \/ poll.at = "read" /\ offset' = [offset EXCEPT ![Dirs[poll.i]] = poll.size]
    BY DEF PollPasses, PollTick, PollStat, PollFragment, PollOther, PollEnd,
           PollEOF, PollOpenFails, Advance
  <2> QED BY <2>1, <2>2 DEF PollRecord
<1>4. ASSUME NEW k \in Chat
      PROVE  /\ k[1] \in Conv /\ k[2] \in Nat \ {0} /\ k \in Key
             /\ offset[k[1]] \in Nat /\ offset'[k[1]] \in Nat /\ written'[k[1]] \in Nat
             /\ offset[k[1]] <= offset'[k[1]] /\ offset'[k[1]] <= written'[k[1]]
  BY <1>3, ScriptFacts DEF Around, LedgerInv, TypeInv, Places, Key
<1>5. Collected \subseteq Collected'
  BY <1>1, <1>4 DEF Around, Views
<1>6. ASSUME NEW k \in Collected' \ Collected
      PROVE  k \in Key /\ k \in Happened /\ k \in Booked \cup Coming \cup (excused \cap Key)'
  <2>1. k \in Chat /\ Turn(k).responds /\ 2 * k[2] <= offset'[k[1]]
    BY <1>1, <1>6 DEF Around, Views
  <2>2. k \in Happened'
    BY <1>4, <2>1 DEF Around, Views
  <2>3. k \in excused' \/ Handled(k)'
    <3>1. 2 * k[2] - 1 <= offset'[k[1]]
      BY <1>4, <2>1
    <3>2. Turn(k)' = Turn(k)
      BY DEF Turn
    <3> QED BY <2>1, <3>1, <3>2 DEF Around, LedgerInv, SkipInv
  <2>4. k \in Key
    BY <1>4, <2>1
  <2>5. Handled(k)' => k \in Booked' \cup Coming'
    BY <2>4 DEF Handled, Booked, Coming
  <2> QED BY <1>2, <2>2, <2>3, <2>4, <2>5
<1>7. Collected' \subseteq Key
  BY <1>5, <1>6, BookedHappenedNext DEF Around, Views, LedgerInv, SentInv, Key
<1> QED BY <1>1, <1>2, <1>5, <1>6, <1>7 DEF Around, Views, Ledger!Clear, Ledger!Grows

(* What a transaction that adds rows may do.                               *)
LEMMA BookRefines ==
    ASSUME Around, UNCHANGED <<written, offset, sent, excused>>,
           NEW E \in SUBSET Key, E \subseteq Booked', Booked' \subseteq Booked \cup E,
           \A k : Pending(k)' => Pending(k),
           \A k : Pending(k) => Pending(k)' \/ k \in E
    PROVE  \E F \in SUBSET Key : Ledger!Book(F)
<1> DEFINE F == E
<1>1. Booked \subseteq Booked'
  BY KeepsStep DEF Around, LedgerInv, Keeps, Booked
<1>2. Booked' = Booked \cup E
  BY <1>1
<1>3. Happened' = Happened /\ Collected' = Collected
  BY DEF Around, Views
<1>4. E \subseteq Happened
  BY <1>3, BookedHappenedNext DEF Around, Grounded
<1>5. Coming' \in SUBSET Coming /\ Coming \ Coming' \subseteq E
  BY DEF Coming
<1>6. Ledger!Book(E)
  BY <1>2, <1>3, <1>4, <1>5 DEF Around, Views, Ledger!Book
<1> QED BY <1>6

(* A batch of the backfill books its events around the buffer.             *)
LEMMA BackfillRefines == ASSUME Around, Backfill PROVE \E E \in SUBSET Key : Ledger!Book(E)
<1>1. UNCHANGED bufVars /\ UNCHANGED <<written, offset, sent, excused>>
  BY DEF Backfill, FillNextFile, FillOpenFails, FillStep, FillLine, FillEnd
<1>2. Booked' \in SUBSET Key
  BY DEF Booked
<1>3. \A k : Pending(k)' <=> Pending(k)
  BY <1>1, SameBuffer
<1> QED BY <1>1, <1>2, <1>3, BookRefines

(* The worker's transaction books the batch or writes it off.              *)
LEMMA FlushRefines ==
    ASSUME Around, NEW ok \in BOOLEAN, WorkerFlushes(ok)
    PROVE  \E E \in SUBSET Key : Ledger!Book(E) \/ Ledger!Fail(E)
<1> DEFINE E == {k \in Key : Has(batch, k)}
<1>1. /\ FlushReturns /\ InsertUsageBatch(batch, ok)
      /\ excused' = IF ok THEN excused ELSE excused \cup KeysOf(batch)
      /\ UNCHANGED <<written, offset, sent>>
      /\ batch \in Seq(TokenEvent)
  BY DEF WorkerFlushes, Around, LedgerInv, TypeInv, BufferInv, BufTypeOK, tailerVars
<1>2. \A k : Pending(k) <=> Pending(k)' \/ Has(batch, k)
  BY <1>1, FlushStep DEF Around, LedgerInv, TypeInv, FlushEffect
<1>3. \A k : Has(batch, k) => k \in Key
  BY <1>1, HasKey
<1>4. KeysOf(batch) = E
  BY <1>1, <1>3, HasKey
<1>5. CASE ok
  <2>1. BatchDoes(logs, logs', batch)
    BY <1>1, <1>5, UsageBatch DEF Around, LedgerInv, TypeInv
  <2>2. E \subseteq Booked' /\ Booked' \subseteq Booked \cup E
    BY <2>1 DEF BatchDoes, Booked
  <2>3. E \in SUBSET Key /\ (\A k : Pending(k) => Pending(k)' \/ k \in E)
    BY <1>2, <1>3
  <2> HIDE DEF E
  <2> QED BY <1>1, <1>2, <1>5, <2>2, <2>3, BookRefines
<1>6. CASE ~ok
  <2>1. logs' = logs /\ excused' = excused \cup E
    BY <1>1, <1>4, <1>6, UsageBatch DEF Around, LedgerInv, TypeInv
  <2>2. Booked' = Booked /\ Happened' = Happened /\ Collected' = Collected
    BY <1>1, <2>1 DEF Booked, Around, Views
  <2>3. /\ E \subseteq Coming /\ Coming' \in SUBSET Coming /\ Coming \ Coming' \subseteq E
        /\ E \in SUBSET Key
    BY <1>2, <1>3 DEF Coming
  <2>4. (excused \cap Key)' = (excused \cap Key) \cup E
    BY <2>1
  <2> HIDE DEF E
  <2>5. Ledger!Fail(E)
    BY <2>2, <2>3, <2>4 DEF Around, Views, Ledger!Fail
  <2> QED BY <2>3, <2>5
<1> QED BY <1>5, <1>6

(* A restart keeps the books, and writes off what it will not read again.  *)
LEMMA CrashRefines == ASSUME Around, CrashAndRestart PROVE Ledger!Restart
<1>1. /\ chan' = <<>> /\ batch' = <<>>
      /\ UNCHANGED <<logs, written, sent>>
      /\ excused' = excused
            \cup {k \in Chat : 2 * k[2] - 1 <= offset'[k[1]]}
            \cup {k \in Interactive : k \in KeysOf(chan \o batch)}
  BY DEF CrashAndRestart, Restart, storeVars
<1>2. Coming' = {}
  <2>1. KeysOf(<<>>) = {}
    BY HasKey, HasNothing, EmptySeq
  <2>2. chan' \o batch' = <<>>
    BY <1>1, EmptySeq, ConcatEmptySeq
  <2> QED BY <2>1, <2>2 DEF Around, Views
<1>3. Booked' = Booked /\ Happened' = Happened
  BY <1>1 DEF Booked, Around, Views
<1>4. ASSUME NEW k \in Collected'
      PROVE  k \in Happened /\ k \in Booked \cup (excused \cap Key)'
  <2>1. CASE k \in Chat /\ 2 * k[2] <= offset'[k[1]]
    <3>1. /\ k[1] \in Conv /\ k[2] \in Nat \ {0} /\ k \in Key
          /\ offset'[k[1]] \in Nat /\ written'[k[1]] \in Nat
          /\ offset'[k[1]] <= written'[k[1]]
      BY <2>1, ScriptFacts DEF Around, LedgerInv, TypeInv, Places, Key
    <3>2. 2 * k[2] - 1 <= offset'[k[1]] /\ written'[k[1]] >= 2 * k[2]
      BY <2>1, <3>1
    <3>3. k \in Happened'
      BY <2>1, <3>2 DEF Around, Views
    <3>4. k \in excused'
      BY <1>1, <2>1, <3>2
    <3> QED BY <1>3, <3>1, <3>3, <3>4
  <2>2. CASE k \in sent
    <3>1. k \in Key /\ k \in Happened /\ k \in Interactive
      BY <2>2, DisjointKeys DEF Around, Views, LedgerInv, SentInv
    <3>2. Handled(k) \/ k \in excused
      BY <2>2 DEF Around, LedgerInv, SentInv
    <3>3. Pending(k) => k \in excused'
      BY <1>1, <3>1, PendingIs DEF Around, LedgerInv, TypeInv
    <3> QED BY <1>1, <3>1, <3>2, <3>3 DEF Handled, Booked
  <2> QED BY <1>1, <1>4, <2>1, <2>2 DEF Around, Views
<1> QED BY <1>1, <1>2, <1>3, <1>4 DEF Around, Views, Ledger!Restart, Ledger!Grows

(* Every step of the program is one of the ledger, or none.                *)
LEMMA StepRefines ==
    ASSUME LedgerInv, LedgerInv', [Next]_vars
    PROVE  [Ledger!Next]_(Ledger!ledger)
<1>1. Around
  BY ViewsHold, ViewsHoldNext DEF Around, LedgerInv
<1>2. CASE IDEAppends
  BY <1>1, <1>2, AppendRefines DEF Ledger!Next
<1>3. CASE ProxyRecords
  BY <1>1, <1>3, ProxyRefines DEF Ledger!Next
<1>4. CASE PollLoop
  <2>1. \/ PollPasses
        \/ /\ PollResponse
           /\ excused' = excused \cup {k \in {PollKey} : chan' = chan}
           /\ sent' = sent
    BY <1>4 DEF PollLoop, PollPasses
  <2>2. CASE PollPasses
    BY <1>1, <2>2, PollRefines DEF Ledger!Next
  <2> QED BY <1>1, <2>1, <2>2, ResponseRefines DEF Ledger!Next
<1>5. CASE BackfillStarts
  BY <1>1, <1>5, LedgerStutters, SameBuffer DEF BackfillStarts, FillStart, storeVars
<1>6. CASE Backfill
  BY <1>1, <1>6, BackfillRefines DEF Ledger!Next
<1>7. CASE Worker
  <2>1. CASE (TakeEvent \/ Tick) /\ UNCHANGED <<storeVars, written, tailerVars, history, bounds>>
    <3>1. \A k : Pending(k)' <=> Pending(k)
      BY <2>1, TakeStep DEF LedgerInv, TypeInv, Pending
    <3> QED BY <1>1, <2>1, <3>1, LedgerStutters DEF storeVars, tailerVars, history
  <2>2. CASE \E ok \in BOOLEAN : WorkerFlushes(ok)
    BY <1>1, <2>2, FlushRefines DEF Ledger!Next
  <2> QED BY <1>7, <2>1, <2>2 DEF Worker
<1>8. CASE Rollup
  BY <1>1, <1>8, LedgerStutters, SameBuffer DEF Rollup, RollupHourlyMetrics, tailerVars, history
<1>9. CASE CrashAndRestart
  BY <1>1, <1>9, CrashRefines DEF Ledger!Next
<1>10. CASE UNCHANGED vars
  BY <1>1, <1>10, LedgerStutters, SameBuffer DEF vars, storeVars, tailerVars, history
<1> QED BY <1>2, <1>3, <1>4, <1>5, <1>6, <1>7, <1>8, <1>9, <1>10 DEF Next

(* In the beginning the books are empty.                                   *)
LEMMA InitRefines == Init => Ledger!Init
<1> SUFFICES ASSUME Init PROVE Ledger!Init
  OBVIOUS
<1>1. TypeInv /\ Views
  BY TypeInit, ViewsHold
<1>2. /\ written = [c \in Conv |-> 0] /\ offset = [c \in Conv |-> 0]
      /\ sent = {} /\ excused = {} /\ chan = <<>> /\ batch = <<>>
      /\ \A k \in Key : Empty(logs[k])
  BY DEF Init, TailerInit, BufInit, StoreInit, Empty
<1>3. ASSUME NEW k \in Chat PROVE ~(0 >= 2 * k[2]) /\ ~(2 * k[2] <= 0) /\ k[1] \in Conv
  BY ScriptFacts
<1>4. Happened = {} /\ Collected = {}
  BY <1>1, <1>2, <1>3 DEF Views
<1>5. Booked = {} /\ excused \cap Key = {}
  BY <1>2 DEF Booked
<1>6. Coming = {}
  <2>1. KeysOf(<<>>) = {}
    BY HasKey, HasNothing, EmptySeq
  <2>2. chan \o batch = <<>>
    BY <1>2, EmptySeq, ConcatEmptySeq
  <2> QED BY <1>1, <2>1, <2>2 DEF Views
<1> QED BY <1>1, <1>4, <1>5, <1>6 DEF Views, Ledger!Init

(* ImplementsLedger of Pipeline: the log is what UsageLedger promises.     *)
THEOREM PipelineImplementsLedger == Spec => ImplementsLedger
<1>1. Init => SentInv
  BY SentInit
<1>2. TypeInv /\ TypeInv' /\ SentInv /\ [Next]_vars => SentInv'
  BY SentStep
<1>3. Spec => []LedgerInv
  <2>1. TypeInv /\ RowInv /\ SkipInv /\ SentInv => LedgerInv
    BY DEF LedgerInv
  <2> QED BY <1>1, <1>2, <2>1, TypeInvariant, RowInvariant, SkipInvariant, PTL DEF Spec
<1>4. LedgerInv /\ LedgerInv' /\ [Next]_vars => [Ledger!Next]_(Ledger!ledger)
  BY StepRefines
<1> QED BY InitRefines, <1>3, <1>4, PTL DEF Spec, ImplementsLedger, Ledger!Spec
=============================================================================
