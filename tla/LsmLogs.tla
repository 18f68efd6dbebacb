------------------------------ MODULE LsmLogs -------------------------------
(***************************************************************************)
(* What a replay makes of the tree's two journals: the memtable of module  *)
(* Memtable and the version of module Manifest, frame by frame.            *)
(***************************************************************************)
EXTENDS Lsm, Counting, TLAPS

Entry == [key : Keys, seq : Nat, op : {"put", "delete"}, val : Vals \cup {Empty}]

Version == [runs : Seq(Nat), next : Nat, last : Nat]

Table == [map : SUBSET Entry, size : Nat, capacity : Nat, full : BOOLEAN]

\* The tables of a budget, whose versions are numbered up to some bound.
Tables(capacity) ==
    {t \in Table : t.capacity = capacity /\ \E b \in Nat : \A e \in t.map : e.seq <= b}

Whole(log) == \A i \in DOMAIN log : log[i] # Torn

-----------------------------------------------------------------------------
\* A recursion over the numbers to m defines a function.
Defines(T, b, m, G) ==
    b \in T /\ m \in Nat /\ G \in [1..m -> [T -> T]] =>
        \E f \in [0..m -> T] : (f[0] = b /\ \A n \in 1..m : f[n] = G[n][f[n - 1]])

\* A replay, one record after the other, has a result for every log.
LEMMA FoldDefined ==
    ASSUME InductionFact, NEW T, NEW b, NEW m, NEW G
    PROVE  Defines(T, b, m, G)
  <1> SUFFICES ASSUME b \in T, m \in Nat, G \in [1..m -> [T -> T]]
               PROVE  \E f \in [0..m -> T] : (f[0] = b /\ \A n \in 1..m : f[n] = G[n][f[n - 1]])
    BY Zenon DEF Defines
  <1> DEFINE P(k) == \E f \in [0..k -> T] : f[0] = b /\ \A n \in 1..k : f[n] = G[n][f[n - 1]]
             S == {k \in Nat : k <= m => P(k)}
  <1>1. P(0)
    <2> DEFINE g == [n \in 0..0 |-> b]
    <2>1. g \in [0..0 -> T] /\ g[0] = b /\ \A n \in 1..0 : g[n] = G[n][g[n - 1]]
      OBVIOUS
    <2> QED
      BY <2>1, Zenon
  <1>2. \A k \in Nat : k \in S => k + 1 \in S
    <2>1. SUFFICES ASSUME NEW k \in Nat, k \in S, k + 1 <= m
                   PROVE  P(k + 1)
      OBVIOUS
    <2>2. PICK f \in [0..k -> T] : f[0] = b /\ \A n \in 1..k : f[n] = G[n][f[n - 1]]
      BY <2>1
    <2> DEFINE g == [n \in 0..(k + 1) |-> IF n = k + 1 THEN G[k + 1][f[k]] ELSE f[n]]
    <2>3. k + 1 \in 1..m /\ G[k + 1] \in [T -> T] /\ f[k] \in T
      BY <2>1
    <2>4. g \in [0..(k + 1) -> T]
      BY <2>3
    <2>5. g[0] = b
      BY <2>2
    <2>6. ASSUME NEW n \in 1..(k + 1)
          PROVE  g[n] = G[n][g[n - 1]]
      <3>1. CASE n = k + 1
        <4>1. g[n] = G[k + 1][f[k]] /\ g[n - 1] = f[k]
          BY <3>1
        <4> QED
          BY <3>1, <4>1, Zenon
      <3>2. CASE n # k + 1
        <4>1. n \in 1..k /\ n - 1 \in 0..k /\ n - 1 # k + 1
          BY <3>2
        <4>2. g[n] = f[n] /\ g[n - 1] = f[n - 1]
          BY <3>2, <4>1
        <4> QED
          BY <2>2, <4>1, <4>2, Zenon
      <3> QED
        BY <3>1, <3>2, Zenon
    <2> HIDE DEF g
    <2> QED
      BY <2>4, <2>5, <2>6, Zenon
  <1> HIDE DEF P
  <1>3. 0 \in S
    BY <1>1, Zenon
  <1>4. Nat \in SUBSET S
    <2> HIDE DEF S
    <2> QED
      BY <1>2, <1>3, Zenon DEF InductionFact
  <1>5. P(m)
    BY <1>4
  <1> QED
    BY <1>5, Zenon DEF P

\* Two functions that start alike and go on alike are the same.
Agree(f, g, m) ==
    m \in Nat /\ f[0] = g[0] /\ (\A n \in 1..m : f[n - 1] = g[n - 1] => f[n] = g[n]) =>
        \A n \in 0..m : f[n] = g[n]

\* Two replays whose steps agree have the same result.
LEMMA FoldSame ==
    ASSUME InductionFact, NEW m, NEW f, NEW g
    PROVE  Agree(f, g, m)
  <1> SUFFICES ASSUME m \in Nat, f[0] = g[0],
                      \A n \in 1..m : f[n - 1] = g[n - 1] => f[n] = g[n]
               PROVE  \A n \in 0..m : f[n] = g[n]
    BY Zenon DEF Agree
  <1> DEFINE S == {n \in Nat : n <= m => f[n] = g[n]}
  <1>1. 0 \in S
    BY Zenon
  <1>2. ASSUME NEW n \in Nat, n \in S
        PROVE  n + 1 \in S
    <2>1. SUFFICES ASSUME n + 1 <= m
                   PROVE  f[n + 1] = g[n + 1]
      OBVIOUS
    <2>2. n + 1 \in 1..m /\ (n + 1) - 1 = n
      BY <2>1
    <2>3. f[n] = g[n]
      BY <1>2, <2>1
    <2>4. f[(n + 1) - 1] = g[(n + 1) - 1]
      BY <2>2, <2>3, Zenon
    <2> QED
      BY <2>2, <2>4, Zenon
  <1> HIDE DEF S
  <1>3. Nat \in SUBSET S
    BY <1>1, <1>2, Zenon DEF InductionFact
  <1> QED
    BY <1>3 DEF S

-----------------------------------------------------------------------------
\* A replay yields the frames before the first torn one: all of a whole log.
LEMMA ReplayFrames ==
    ASSUME CountFact, NEW S, NEW log \in Seq(S \cup {Torn})
    PROVE  /\ Replay(log) \in Seq(S)
           /\ Whole(log) => Replay(log) = log
  <1> DEFINE R == ReachedIndices(log)
             c == Cardinality(R)
  <1>1. Len(log) \in Nat /\ DOMAIN log = 1..Len(log)
    OBVIOUS
  <1>2. R \in SUBSET (1..Len(log))
    BY <1>1, Zenon DEF ReachedIndices
  <1>3. c \in 0..Len(log)
    BY <1>1, <1>2, Zenon DEF CountFact
  <1>4. ASSUME NEW i \in 1..c
        PROVE  i \in R
    <2>1. SUFFICES ASSUME i \notin R
                   PROVE  FALSE
      BY Zenon
    <2>2. ASSUME NEW j \in R
          PROVE  j \in 1..(i - 1)
      <3>1. j \in 1..Len(log) /\ \A n \in 1..j : log[n] # Torn
        BY <1>2, <2>2, Zenon DEF ReachedIndices, Reached
      <3>2. i \in 1..Len(log)
        BY <1>3
      <3>3. CASE i <= j
        <4>1. \A n \in 1..i : log[n] # Torn
          BY <3>1, <3>2, <3>3
        <4> QED
          BY <1>1, <2>1, <3>2, <4>1, Zenon DEF ReachedIndices, Reached
      <3> QED
        BY <3>1, <3>2, <3>3
    <2>3. R \in SUBSET (1..(i - 1))
      BY <2>2, Zenon
    <2>4. i - 1 \in Nat
      BY <1>3
    <2> HIDE DEF R
    <2>5. Cardinality(R) \in 0..(i - 1)
      BY <2>3, <2>4, Zenon DEF CountFact
    <2> QED
      BY <1>3, <2>5
  <1>5. \A i \in 1..c : i \in 1..Len(log) /\ log[i] # Torn
    <2>1. ASSUME NEW i \in 1..c
          PROVE  i \in 1..Len(log) /\ log[i] # Torn
      <3>1. i \in R
        BY <1>4, Zenon
      <3> QED
        BY <1>2, <3>1 DEF ReachedIndices, Reached
    <2> QED
      BY <2>1, Zenon
  <1>6. \A i \in 1..c : log[i] \in S
    BY <1>1, <1>5
  <1>7. Replay(log) = [i \in 1..c |-> log[i]]
    <2>1. Replay(log) = SubSeq(log, 1, c)
      BY Zenon DEF Replay
    <2> HIDE DEF c
    <2> QED
      BY <1>3, <2>1
  <1>8. Replay(log) \in Seq(S)
    <2> HIDE DEF c
    <2>1. c \in Nat
      BY <1>3
    <2> QED
      BY <1>6, <1>7, <2>1
  <1>9. ASSUME Whole(log)
        PROVE  Replay(log) = log
    <2>1. 1..Len(log) \in SUBSET R
      BY <1>1, <1>9 DEF ReachedIndices, Reached, Whole
    <2> HIDE DEF R
    <2>2. Len(log) <= Cardinality(R)
      BY <1>1, <1>2, <2>1, Zenon DEF CountFact
    <2>3. c = Len(log)
      BY <1>1, <1>3, <2>2
    <2> HIDE DEF c
    <2> QED
      BY <1>1, <1>7, <2>3
  <1> QED
    BY <1>8, <1>9, Zenon

-----------------------------------------------------------------------------
(* The memtable a journal replays to.                                      *)

\* A new memtable is one, within its budget.
LEMMA EmptyIsTable ==
    ASSUME NEW capacity \in Nat
    PROVE  EmptyTable(capacity) \in Tables(capacity)
  <1>1. EmptyTable(capacity) \in Table /\ EmptyTable(capacity).capacity = capacity
    BY Zenon DEF EmptyTable, Table
  <1>2. 0 \in Nat /\ \A e \in EmptyTable(capacity).map : e.seq <= 0
    BY Zenon DEF EmptyTable
  <1> QED
    BY <1>1, <1>2, Zenon DEF Tables

\* A put keeps the budget and the bound, and counts at most two bytes.
LEMMA PutIsTable ==
    ASSUME NEW capacity \in Nat, NEW t \in Tables(capacity), NEW e \in Entry
    PROVE  /\ TablePut(t, e) \in Tables(capacity)
           /\ TablePut(t, e).size <= t.size + 2
           /\ t.full => TablePut(t, e).full
           /\ ~TablePut(t, e).full => TablePut(t, e).map = Insert(t.map, e)
  <1>1. t \in Table /\ t.capacity = capacity
    BY Zenon DEF Tables
  <1>2. t.map \in SUBSET Entry /\ t.size \in Nat /\ t.full \in BOOLEAN
    BY <1>1, Zenon DEF Table
  <1>3. PICK b \in Nat : \A f \in t.map : f.seq <= b
    BY Zenon DEF Tables
  <1>4. e.key \in Keys /\ e.seq \in Nat /\ e.op \in {"put", "delete"}
            /\ e.val \in Vals \cup {Empty}
    BY Zenon DEF Entry
  <1>5. Bytes(e) \in {1, 2}
    BY Zenon DEF Bytes
  <1>6. CASE t.full \/ (t.map # {} /\ t.size + Bytes(e) > t.capacity)
    <2>1. TablePut(t, e) = [t EXCEPT !.full = TRUE]
      BY <1>6, Zenon DEF TablePut
    <2>2. TablePut(t, e) \in Table /\ TablePut(t, e).capacity = capacity
      BY <1>1, <2>1, Zenon DEF Table
    <2>3. TablePut(t, e).map = t.map /\ TablePut(t, e).size = t.size
      BY <1>1, <2>1, Zenon DEF Table
    <2>4. TablePut(t, e).full
      BY <1>1, <2>1, Zenon DEF Table
    <2>5. TablePut(t, e) \in Tables(capacity)
      BY <1>3, <2>2, <2>3, Zenon DEF Tables
    <2> QED
      BY <1>2, <2>3, <2>4, <2>5
  <1>7. CASE ~(t.full \/ (t.map # {} /\ t.size + Bytes(e) > t.capacity))
    <2>1. TablePut(t, e) = [t EXCEPT !.map = Insert(t.map, e), !.size = t.size + Bytes(e)]
      BY <1>7, Zenon DEF TablePut
    <2>2. ASSUME NEW f \in Insert(t.map, e)
          PROVE  f \in Entry /\ (f.seq <= b \/ f.seq <= e.seq)
      <3>1. CASE f \in t.map
        BY <1>2, <1>3, <3>1, Zenon
      <3>2. CASE f = e
        BY <1>4, <3>2
      <3>3. CASE \E g \in t.map : SameSlot(e, g) /\ f = [g EXCEPT !.val = e.val]
        <4>1. PICK g \in t.map : f = [g EXCEPT !.val = e.val]
          BY <3>3, Zenon
        <4>2. g \in Entry /\ g.seq <= b
          BY <1>2, <1>3, Zenon
        <4> QED
          BY <1>4, <4>1, <4>2, Zenon DEF Entry
      <3> QED
        BY <2>2, <3>1, <3>2, <3>3, Zenon DEF Insert
    <2>3. Insert(t.map, e) \in SUBSET Entry
      BY <2>2, Zenon
    <2>4. TablePut(t, e).map = Insert(t.map, e) /\ TablePut(t, e).size = t.size + Bytes(e)
      BY <1>1, <2>1, Zenon DEF Table
    <2>5. TablePut(t, e) \in Table /\ TablePut(t, e).capacity = capacity
      <3>1. t.size + Bytes(e) \in Nat
        BY <1>2, <1>5
      <3> QED
        BY <1>1, <2>1, <2>3, <3>1, Zenon DEF Table
    <2>6. \E c \in Nat : \A f \in Insert(t.map, e) : f.seq <= c
      <3>1. CASE b <= e.seq
        <4>1. \A f \in Insert(t.map, e) : f.seq \in Nat
          BY <2>3, Zenon DEF Entry
        <4>2. \A f \in Insert(t.map, e) : f.seq <= e.seq
          BY <1>4, <2>2, <3>1, <4>1
        <4> QED
          BY <1>4, <4>2, Zenon
      <3>2. CASE ~(b <= e.seq)
        <4>1. \A f \in Insert(t.map, e) : f.seq \in Nat
          BY <2>3, Zenon DEF Entry
        <4>2. \A f \in Insert(t.map, e) : f.seq <= b
          BY <1>4, <2>2, <3>2, <4>1
        <4> QED
          BY <4>2, Zenon
      <3> QED
        BY <3>1, <3>2, Zenon
    <2>7. TablePut(t, e) \in Tables(capacity)
      BY <2>4, <2>5, <2>6, Zenon DEF Tables
    <2>8. ~t.full
      BY <1>7, Zenon
    <2> QED
      BY <1>2, <1>5, <2>4, <2>7, <2>8
  <1> QED
    BY <1>6, <1>7, Zenon

\* The tables of a replay, one for each number of records replayed.
LEMMA RecoverFold ==
    ASSUME InductionFact, NEW capacity \in Nat, NEW log, Replay(log) \in Seq(Entry)
    PROVE  \E f \in [0..Len(Replay(log)) -> Tables(capacity)] :
              /\ f[0] = EmptyTable(capacity)
              /\ \A n \in 1..Len(Replay(log)) : f[n] = TablePut(f[n - 1], Replay(log)[n])
              /\ Recover(capacity, log) = f[Len(Replay(log))]
  <1> DEFINE w == Replay(log)
             m == Len(w)
             T == Tables(capacity)
  <1>1. m \in Nat /\ \A n \in 1..m : w[n] \in Entry
    OBVIOUS
  <1>2. PICK G : /\ G \in [1..m -> [T -> T]]
                 /\ \A n \in 1..m : G[n] = [t \in T |-> TablePut(t, w[n])]
    <2> DEFINE F == [n \in 1..m |-> [t \in T |-> TablePut(t, w[n])]]
    <2>1. F \in [1..m -> [T -> T]]
      BY <1>1, PutIsTable, Zenon
    <2>2. \A n \in 1..m : F[n] = [t \in T |-> TablePut(t, w[n])]
      BY Zenon
    <2> HIDE DEF F
    <2> QED
      BY <2>1, <2>2, Zenon
  <1>3. EmptyTable(capacity) \in T
    BY EmptyIsTable, Zenon
  <1>4. PICK f : /\ f \in [0..m -> T]
                 /\ f[0] = EmptyTable(capacity)
                 /\ \A n \in 1..m : f[n] = G[n][f[n - 1]]
    <2>1. m \in Nat
      BY <1>1, Zenon
    <2>2. G \in [1..m -> [T -> T]]
      BY <1>2, Zenon
    <2> HIDE DEF m, T
    <2>3. Defines(T, EmptyTable(capacity), m, G)
      BY FoldDefined, Zenon
    <2> QED
      BY <1>3, <2>1, <2>2, <2>3, Zenon DEF Defines
  <1>5. \A n \in 1..m : n - 1 \in 0..m /\ f[n - 1] \in T
    BY <1>1, <1>4
  <1>6. \A n \in 1..m : f[n] = TablePut(f[n - 1], w[n])
    BY <1>2, <1>4, <1>5
  <1> DEFINE Rec(g) == g = [n \in 0..m |-> IF n = 0 THEN EmptyTable(capacity)
                                           ELSE TablePut(g[n - 1], w[n])]
  <1>7. Rec(f)
    <2> DEFINE r == [n \in 0..m |-> IF n = 0 THEN EmptyTable(capacity)
                                    ELSE TablePut(f[n - 1], w[n])]
    <2>1. ASSUME NEW n \in 0..m
          PROVE  f[n] = r[n]
      BY <1>1, <1>4, <1>6
    <2>2. f \in [0..m -> T] /\ DOMAIN r = 0..m
      BY <1>4, Zenon
    <2> HIDE DEF m, w
    <2> QED
      BY <2>1, <2>2, Zenon
  <1>8. PICK h : Rec(h) /\ Recover(capacity, log) = h[m]
    <2> DEFINE c == CHOOSE g : Rec(g)
    <2>1. Rec(c)
      <3> HIDE DEF Rec
      <3> QED
        BY <1>7, Zenon
    <2>2. Recover(capacity, log) = c[m]
      BY Zenon DEF Recover
    <2> HIDE DEF c, Rec
    <2> QED
      BY <2>1, <2>2, Zenon
  <1>9. h[0] = EmptyTable(capacity) /\ \A n \in 1..m : h[n] = TablePut(h[n - 1], w[n])
    <2>1. m \in Nat
      BY <1>1, Zenon
    <2>2. h = [n \in 0..m |-> IF n = 0 THEN EmptyTable(capacity) ELSE TablePut(h[n - 1], w[n])]
      BY <1>8, Zenon
    <2> HIDE DEF m, w
    <2>3. \A n \in 0..m : h[n] = IF n = 0 THEN EmptyTable(capacity)
                                            ELSE TablePut(h[n - 1], w[n])
      BY <2>2, Zenon
    <2>4. 0 \in 0..m /\ \A n \in 1..m : n \in 0..m /\ n # 0
      BY <2>1
    <2> QED
      BY <2>3, <2>4, Zenon
  <1>10. \A n \in 0..m : f[n] = h[n]
    <2> HIDE DEF m, w
    <2>1. f[0] = h[0] /\ \A n \in 1..m : f[n - 1] = h[n - 1] => f[n] = h[n]
      BY <1>4, <1>6, <1>9, Zenon
    <2>2. m \in Nat
      BY <1>1, Zenon
    <2>3. Agree(f, h, m)
      BY FoldSame, Zenon
    <2> QED
      BY <2>1, <2>2, <2>3, Zenon DEF Agree
  <1>11. Recover(capacity, log) = f[m]
    BY <1>1, <1>8, <1>10
  <1> QED
    BY <1>4, <1>6, <1>11, Zenon

\* A torn frame is a record of neither journal.
LEMMA TornIsNoRecord ==
    Torn \notin Entry /\ Torn \notin Version
  BY LsmAssumption, Zenon DEF Entry, Version

\* A journal stays whole when a complete frame is appended.
LEMMA WholeAppend ==
    ASSUME NEW S, NEW log \in Seq(S), NEW e \in S
    PROVE  Whole(Append(log, e)) <=> Whole(log) /\ e # Torn
  <1>1. Len(log) \in Nat /\ DOMAIN log = 1..Len(log)
    OBVIOUS
  <1>2. Append(log, e) \in Seq(S) /\ Len(Append(log, e)) = Len(log) + 1
    OBVIOUS
  <1>3. DOMAIN Append(log, e) = 1..(Len(log) + 1)
    BY <1>2
  <1>4. \A i \in 1..Len(log) : Append(log, e)[i] = log[i]
    BY <1>1
  <1>5. Append(log, e)[Len(log) + 1] = e
    BY <1>1
  <1>6. \A i \in 1..(Len(log) + 1) : i = Len(log) + 1 \/ i \in 1..Len(log)
    BY <1>1
  <1>7. Len(log) + 1 \in 1..(Len(log) + 1) /\ \A i \in 1..Len(log) : i \in 1..(Len(log) + 1)
    BY <1>1
  <1> QED
    BY <1>1, <1>3, <1>4, <1>5, <1>6, <1>7, Zenon DEF Whole

\* Replay of the memtable journal gives a memtable.
LEMMA RecoverType ==
    ASSUME CountFact, InductionFact, NEW capacity \in Nat, NEW log \in Seq(Entry \cup {Torn})
    PROVE  Recover(capacity, log) \in Tables(capacity)
  <1>1. Replay(log) \in Seq(Entry)
    BY ReplayFrames, Zenon
  <1>2. PICK f : /\ f \in [0..Len(Replay(log)) -> Tables(capacity)]
                 /\ Recover(capacity, log) = f[Len(Replay(log))]
    BY <1>1, RecoverFold, Zenon
  <1>3. Len(Replay(log)) \in Nat
    BY <1>1
  <1>4. Len(Replay(log)) \in 0..Len(Replay(log))
    BY <1>3
  <1> QED
    BY <1>2, <1>4, Zenon

\* Replay of an empty journal gives an empty memtable.
LEMMA RecoverNone ==
    ASSUME CountFact, InductionFact, NEW capacity \in Nat
    PROVE  Recover(capacity, <<>>) = EmptyTable(capacity)
  <1>1. Replay(<<>>) = SubSeq(<<>>, 1, Cardinality(ReachedIndices(<<>>)))
    BY Zenon DEF Replay
  <1>2. Replay(<<>>) = <<>>
    <2>1. ReachedIndices(<<>>) \in SUBSET (1..0)
      BY DEF ReachedIndices
    <2>2. Cardinality(ReachedIndices(<<>>)) \in 0..0
      BY <2>1, Zenon DEF CountFact
    <2>3. Cardinality(ReachedIndices(<<>>)) = 0
      BY <2>2
    <2> QED
      BY <1>1, <2>3
  <1>3. Replay(<<>>) \in Seq(Entry)
    <2>1. PICK S : S = Entry
      BY Zenon
    <2>2. <<>> \in Seq(S)
      OBVIOUS
    <2> QED
      BY <1>2, <2>1, <2>2, Zenon
  <1>4. PICK f : /\ f[0] = EmptyTable(capacity)
                 /\ Recover(capacity, <<>>) = f[Len(Replay(<<>>))]
    BY <1>3, RecoverFold, Zenon
  <1>5. Len(Replay(<<>>)) = 0
    BY <1>2
  <1> QED
    BY <1>4, <1>5, Zenon

\* One more record behind a whole log is one more put.
LEMMA RecoverAppend ==
    ASSUME CountFact, InductionFact, NEW capacity \in Nat,
           NEW log \in Seq(Entry \cup {Torn}), NEW e \in Entry, Whole(log)
    PROVE  Recover(capacity, Append(log, e)) = TablePut(Recover(capacity, log), e)
  <1> DEFINE log2 == Append(log, e)
             m == Len(log)
  <1>1. log2 \in Seq(Entry \cup {Torn}) /\ m \in Nat /\ Len(log2) = m + 1
    OBVIOUS
  <1>2. Whole(log2)
    <2>1. e \in Entry \cup {Torn} /\ e # Torn
      BY TornIsNoRecord, Zenon
    <2> QED
      BY <2>1, WholeAppend, Zenon
  <1>3. Replay(log) = log /\ Replay(log) \in Seq(Entry)
    BY ReplayFrames, Zenon
  <1>4. Replay(log2) = log2 /\ Replay(log2) \in Seq(Entry)
    BY <1>1, <1>2, ReplayFrames, Zenon
  <1>5. PICK f : /\ f[0] = EmptyTable(capacity)
                 /\ \A n \in 1..m : f[n] = TablePut(f[n - 1], log[n])
                 /\ Recover(capacity, log) = f[m]
    <2>1. \E f \in [0..Len(Replay(log)) -> Tables(capacity)] :
              /\ f[0] = EmptyTable(capacity)
              /\ \A n \in 1..Len(Replay(log)) : f[n] = TablePut(f[n - 1], Replay(log)[n])
              /\ Recover(capacity, log) = f[Len(Replay(log))]
      BY <1>3, RecoverFold, Zenon
    <2> QED
      BY <1>3, <2>1, Zenon
  <1>6. PICK g : /\ g[0] = EmptyTable(capacity)
                 /\ \A n \in 1..(m + 1) : g[n] = TablePut(g[n - 1], log2[n])
                 /\ Recover(capacity, log2) = g[m + 1]
    <2>1. \E h \in [0..Len(Replay(log2)) -> Tables(capacity)] :
              /\ h[0] = EmptyTable(capacity)
              /\ \A n \in 1..Len(Replay(log2)) : h[n] = TablePut(h[n - 1], Replay(log2)[n])
              /\ Recover(capacity, log2) = h[Len(Replay(log2))]
      BY <1>4, RecoverFold, Zenon
    <2> HIDE DEF log2
    <2> QED
      BY <1>1, <1>4, <2>1, Zenon
  <1>7. log2[m + 1] = e /\ \A n \in 1..m : log2[n] = log[n] /\ n \in 1..(m + 1)
    BY <1>1
  <1>8. \A n \in 0..m : f[n] = g[n]
    <2>1. f[0] = g[0] /\ \A n \in 1..m : f[n - 1] = g[n - 1] => f[n] = g[n]
      <3> HIDE DEF log2, m
      <3> QED
        BY <1>5, <1>6, <1>7, Zenon
    <2>2. Agree(f, g, m)
      BY FoldSame, Zenon
    <2> QED
      BY <1>1, <2>1, <2>2, Zenon DEF Agree
  <1>9. m \in 0..m /\ m + 1 \in 1..(m + 1) /\ (m + 1) - 1 = m
    BY <1>1
  <1>10. g[m + 1] = TablePut(g[m], e)
    <2> HIDE DEF log2, m
    <2> QED
      BY <1>6, <1>7, <1>9, Zenon
  <1> QED
    BY <1>5, <1>6, <1>8, <1>9, <1>10, Zenon

-----------------------------------------------------------------------------
(* The version a manifest folds into.                                      *)

\* The runs of a version with those of an edit behind them, element by element.
LEMMA Concat ==
    ASSUME NEW r \in Seq(Nat), NEW q \in Seq(Nat)
    PROVE  /\ r \o q \in Seq(Nat)
           /\ DOMAIN r = 1..Len(r) /\ DOMAIN q = 1..Len(q)
           /\ DOMAIN (r \o q) = 1..(Len(r) + Len(q))
           /\ \A i \in 1..Len(r) : (r \o q)[i] = r[i]
           /\ \A i \in 1..Len(q) : (r \o q)[Len(r) + i] = q[i]
           /\ \A i \in DOMAIN (r \o q) : i \in 1..Len(r) \/ i - Len(r) \in 1..Len(q)
           /\ {(r \o q)[i] : i \in DOMAIN (r \o q)}
                 = {r[i] : i \in DOMAIN r} \cup {q[i] : i \in DOMAIN q}
  <1>1. Len(r) \in Nat /\ Len(q) \in Nat /\ DOMAIN r = 1..Len(r) /\ DOMAIN q = 1..Len(q)
    OBVIOUS
  <1>2. r \o q \in Seq(Nat) /\ Len(r \o q) = Len(r) + Len(q)
    OBVIOUS
  <1>3. DOMAIN (r \o q) = 1..(Len(r) + Len(q))
    BY <1>2
  <1>4. \A i \in 1..Len(r) : (r \o q)[i] = r[i]
    BY <1>1
  <1>5. \A i \in 1..Len(q) : (r \o q)[Len(r) + i] = q[i]
    BY <1>1
  <1>6. PICK c : c = r \o q
    BY Zenon
  <1>7. \A i \in DOMAIN c : i \in 1..Len(r) \/ i - Len(r) \in 1..Len(q)
    BY <1>1, <1>3, <1>6
  <1>8. ASSUME NEW i \in DOMAIN c
        PROVE  (\E j \in DOMAIN r : c[i] = r[j]) \/ (\E j \in DOMAIN q : c[i] = q[j])
    <2>1. CASE i \in 1..Len(r)
      BY <1>1, <1>4, <1>6, <2>1, Zenon
    <2>2. CASE i - Len(r) \in 1..Len(q)
      <3>1. Len(r) + (i - Len(r)) = i
        BY <1>1, <1>3, <1>6
      <3>2. c[Len(r) + (i - Len(r))] = q[i - Len(r)]
        BY <1>5, <1>6, <2>2, Zenon
      <3> QED
        BY <1>1, <2>2, <3>1, <3>2, Zenon
    <2> QED
      BY <1>7, <2>1, <2>2, Zenon
  <1>9. ASSUME NEW j \in DOMAIN r
        PROVE  \E i \in DOMAIN c : c[i] = r[j]
    BY <1>1, <1>3, <1>4, <1>6
  <1>10. ASSUME NEW j \in DOMAIN q
         PROVE  \E i \in DOMAIN c : c[i] = q[j]
    <2>1. Len(r) + j \in DOMAIN c /\ c[Len(r) + j] = q[j]
      BY <1>1, <1>3, <1>5, <1>6
    <2> QED
      BY <2>1, Zenon
  <1>11. {c[i] : i \in DOMAIN c} = {r[i] : i \in DOMAIN r} \cup {q[i] : i \in DOMAIN q}
    BY <1>8, <1>9, <1>10
  <1> QED
    BY <1>1, <1>2, <1>3, <1>4, <1>5, <1>6, <1>7, <1>11, Zenon

\* An edit applied to a version: its files are added, its counters replace.
LEMMA ApplyIsVersion ==
    ASSUME NEW v \in Version, NEW e \in Version
    PROVE  /\ Apply(v, e) \in Version
           /\ Apply(v, e).runs = v.runs \o e.runs
           /\ Apply(v, e).next = e.next
           /\ Apply(v, e).last = e.last
           /\ LiveFiles(Apply(v, e)) = LiveFiles(v) \cup LiveFiles(e)
  <1>1. v.runs \in Seq(Nat) /\ e.runs \in Seq(Nat) /\ e.next \in Nat /\ e.last \in Nat
    BY Zenon DEF Version
  <1>2. PICK c : c = v.runs \o e.runs
    BY Zenon
  <1>3. c \in Seq(Nat)
    BY <1>1, <1>2
  <1>4. Apply(v, e) = [runs |-> c, next |-> e.next, last |-> e.last]
    BY <1>2, Zenon DEF Apply
  <1>5. Apply(v, e) \in Version
    BY <1>1, <1>3, <1>4 DEF Version
  <1>6. Apply(v, e).runs = c /\ Apply(v, e).next = e.next /\ Apply(v, e).last = e.last
    BY <1>4
  <1>7. {c[i] : i \in DOMAIN c}
            = {v.runs[i] : i \in DOMAIN v.runs} \cup {e.runs[i] : i \in DOMAIN e.runs}
    <2>1. PICK r, q : r = v.runs /\ q = e.runs
      BY Zenon
    <2>2. r \in Seq(Nat) /\ q \in Seq(Nat)
      BY <1>1, <2>1, Zenon
    <2>3. {(r \o q)[i] : i \in DOMAIN (r \o q)}
              = {r[i] : i \in DOMAIN r} \cup {q[i] : i \in DOMAIN q}
      BY <2>2, Concat, Zenon
    <2>4. c = r \o q
      BY <1>2, <2>1, Zenon
    <2>5. {c[i] : i \in DOMAIN c} = {r[i] : i \in DOMAIN r} \cup {q[i] : i \in DOMAIN q}
      BY <2>3, <2>4, Zenon
    <2> QED
      BY <2>1, <2>5, Zenon
  <1>8. LiveFiles(Apply(v, e)) = LiveFiles(v) \cup LiveFiles(e)
    BY <1>6, <1>7, Zenon DEF LiveFiles
  <1> QED
    BY <1>2, <1>5, <1>6, <1>8, Zenon

\* The version an empty manifest folds to.
LEMMA EmptyIsVersion ==
    EmptyVersion \in Version /\ LiveFiles(EmptyVersion) = {}
  BY DEF EmptyVersion, Version, LiveFiles

\* The versions of a replay, one for each number of edits replayed.
LEMMA FoldVersions ==
    ASSUME InductionFact, NEW log, Replay(log) \in Seq(Version)
    PROVE  \E f \in [0..Len(Replay(log)) -> Version] :
              /\ f[0] = EmptyVersion
              /\ \A n \in 1..Len(Replay(log)) : f[n] = Apply(f[n - 1], Replay(log)[n])
              /\ Fold(log) = f[Len(Replay(log))]
  <1> DEFINE w == Replay(log)
             m == Len(w)
             T == Version
  <1>1. m \in Nat /\ \A n \in 1..m : w[n] \in Version
    OBVIOUS
  <1>2. PICK G : /\ G \in [1..m -> [T -> T]]
                 /\ \A n \in 1..m : G[n] = [t \in T |-> Apply(t, w[n])]
    <2> DEFINE F == [n \in 1..m |-> [t \in T |-> Apply(t, w[n])]]
    <2>1. F \in [1..m -> [T -> T]]
      BY <1>1, ApplyIsVersion, Zenon
    <2>2. \A n \in 1..m : F[n] = [t \in T |-> Apply(t, w[n])]
      BY Zenon
    <2> HIDE DEF F
    <2> QED
      BY <2>1, <2>2, Zenon
  <1>3. EmptyVersion \in T
    BY EmptyIsVersion, Zenon
  <1>4. PICK f : /\ f \in [0..m -> T]
                 /\ f[0] = EmptyVersion
                 /\ \A n \in 1..m : f[n] = G[n][f[n - 1]]
    <2>1. m \in Nat
      BY <1>1, Zenon
    <2>2. G \in [1..m -> [T -> T]]
      BY <1>2, Zenon
    <2> HIDE DEF m, T
    <2>3. Defines(T, EmptyVersion, m, G)
      BY FoldDefined, Zenon
    <2> QED
      BY <1>3, <2>1, <2>2, <2>3, Zenon DEF Defines
  <1>5. \A n \in 1..m : n - 1 \in 0..m /\ f[n - 1] \in T
    BY <1>1, <1>4
  <1>6. \A n \in 1..m : f[n] = Apply(f[n - 1], w[n])
    BY <1>2, <1>4, <1>5
  <1> DEFINE Rec(g) == g = [n \in 0..m |-> IF n = 0 THEN EmptyVersion
                                           ELSE Apply(g[n - 1], w[n])]
  <1>7. Rec(f)
    <2> DEFINE r == [n \in 0..m |-> IF n = 0 THEN EmptyVersion
                                    ELSE Apply(f[n - 1], w[n])]
    <2>1. ASSUME NEW n \in 0..m
          PROVE  f[n] = r[n]
      BY <1>1, <1>4, <1>6
    <2>2. f \in [0..m -> T] /\ DOMAIN r = 0..m
      BY <1>4, Zenon
    <2> HIDE DEF m, w
    <2> QED
      BY <2>1, <2>2, Zenon
  <1>8. PICK h : Rec(h) /\ Fold(log) = h[m]
    <2> DEFINE c == CHOOSE g : Rec(g)
    <2>1. Rec(c)
      <3> HIDE DEF Rec
      <3> QED
        BY <1>7, Zenon
    <2>2. Fold(log) = c[m]
      BY Zenon DEF Fold
    <2> HIDE DEF c, Rec
    <2> QED
      BY <2>1, <2>2, Zenon
  <1>9. h[0] = EmptyVersion /\ \A n \in 1..m : h[n] = Apply(h[n - 1], w[n])
    <2>1. m \in Nat
      BY <1>1, Zenon
    <2>2. h = [n \in 0..m |-> IF n = 0 THEN EmptyVersion ELSE Apply(h[n - 1], w[n])]
      BY <1>8, Zenon
    <2> HIDE DEF m, w
    <2>3. \A n \in 0..m : h[n] = IF n = 0 THEN EmptyVersion
                                            ELSE Apply(h[n - 1], w[n])
      BY <2>2, Zenon
    <2>4. 0 \in 0..m /\ \A n \in 1..m : n \in 0..m /\ n # 0
      BY <2>1
    <2> QED
      BY <2>3, <2>4, Zenon
  <1>10. \A n \in 0..m : f[n] = h[n]
    <2> HIDE DEF m, w
    <2>1. f[0] = h[0] /\ \A n \in 1..m : f[n - 1] = h[n - 1] => f[n] = h[n]
      BY <1>4, <1>6, <1>9, Zenon
    <2>2. m \in Nat
      BY <1>1, Zenon
    <2>3. Agree(f, h, m)
      BY FoldSame, Zenon
    <2> QED
      BY <2>1, <2>2, <2>3, Zenon DEF Agree
  <1>11. Fold(log) = f[m]
    BY <1>1, <1>8, <1>10
  <1> QED
    BY <1>4, <1>6, <1>11, Zenon

\* A manifest folds to a version.
LEMMA FoldType ==
    ASSUME CountFact, InductionFact, NEW log \in Seq(Version \cup {Torn})
    PROVE  Fold(log) \in Version
  <1>1. Replay(log) \in Seq(Version)
    BY ReplayFrames, Zenon
  <1>2. PICK f : /\ f \in [0..Len(Replay(log)) -> Version]
                 /\ Fold(log) = f[Len(Replay(log))]
    BY <1>1, FoldVersions, Zenon
  <1>3. Len(Replay(log)) \in Nat
    BY <1>1
  <1>4. Len(Replay(log)) \in 0..Len(Replay(log))
    BY <1>3
  <1> QED
    BY <1>2, <1>4, Zenon

\* An empty manifest folds to the empty version.
LEMMA FoldNone ==
    ASSUME CountFact, InductionFact
    PROVE  Fold(<<>>) = EmptyVersion
  <1>1. Replay(<<>>) = SubSeq(<<>>, 1, Cardinality(ReachedIndices(<<>>)))
    BY Zenon DEF Replay
  <1>2. Replay(<<>>) = <<>>
    <2>1. ReachedIndices(<<>>) \in SUBSET (1..0)
      BY DEF ReachedIndices
    <2>2. Cardinality(ReachedIndices(<<>>)) \in 0..0
      BY <2>1, Zenon DEF CountFact
    <2>3. Cardinality(ReachedIndices(<<>>)) = 0
      BY <2>2
    <2> QED
      BY <1>1, <2>3
  <1>3. Replay(<<>>) \in Seq(Version)
    <2>1. PICK S : S = Version
      BY Zenon
    <2>2. <<>> \in Seq(S)
      OBVIOUS
    <2> QED
      BY <1>2, <2>1, <2>2, Zenon
  <1>4. PICK f : /\ f[0] = EmptyVersion
                 /\ Fold(<<>>) = f[Len(Replay(<<>>))]
    BY <1>3, FoldVersions, Zenon
  <1>5. Len(Replay(<<>>)) = 0
    BY <1>2
  <1> QED
    BY <1>4, <1>5, Zenon

\* One more edit behind a whole log is one more applied.
LEMMA FoldAppend ==
    ASSUME CountFact, InductionFact,
           NEW log \in Seq(Version \cup {Torn}), NEW e \in Version, Whole(log)
    PROVE  Fold(Append(log, e)) = Apply(Fold(log), e)
  <1> DEFINE log2 == Append(log, e)
             m == Len(log)
  <1>1. log2 \in Seq(Version \cup {Torn}) /\ m \in Nat /\ Len(log2) = m + 1
    OBVIOUS
  <1>2. Whole(log2)
    <2>1. e \in Version \cup {Torn} /\ e # Torn
      BY TornIsNoRecord, Zenon
    <2> QED
      BY <2>1, WholeAppend, Zenon
  <1>3. Replay(log) = log /\ Replay(log) \in Seq(Version)
    BY ReplayFrames, Zenon
  <1>4. Replay(log2) = log2 /\ Replay(log2) \in Seq(Version)
    BY <1>1, <1>2, ReplayFrames, Zenon
  <1>5. PICK f : /\ f[0] = EmptyVersion
                 /\ \A n \in 1..m : f[n] = Apply(f[n - 1], log[n])
                 /\ Fold(log) = f[m]
    <2>1. \E f \in [0..Len(Replay(log)) -> Version] :
              /\ f[0] = EmptyVersion
              /\ \A n \in 1..Len(Replay(log)) : f[n] = Apply(f[n - 1], Replay(log)[n])
              /\ Fold(log) = f[Len(Replay(log))]
      BY <1>3, FoldVersions, Zenon
    <2> QED
      BY <1>3, <2>1, Zenon
  <1>6. PICK g : /\ g[0] = EmptyVersion
                 /\ \A n \in 1..(m + 1) : g[n] = Apply(g[n - 1], log2[n])
                 /\ Fold(log2) = g[m + 1]
    <2>1. \E h \in [0..Len(Replay(log2)) -> Version] :
              /\ h[0] = EmptyVersion
              /\ \A n \in 1..Len(Replay(log2)) : h[n] = Apply(h[n - 1], Replay(log2)[n])
              /\ Fold(log2) = h[Len(Replay(log2))]
      BY <1>4, FoldVersions, Zenon
    <2> HIDE DEF log2
    <2> QED
      BY <1>1, <1>4, <2>1, Zenon
  <1>7. log2[m + 1] = e /\ \A n \in 1..m : log2[n] = log[n] /\ n \in 1..(m + 1)
    BY <1>1
  <1>8. \A n \in 0..m : f[n] = g[n]
    <2>1. f[0] = g[0] /\ \A n \in 1..m : f[n - 1] = g[n - 1] => f[n] = g[n]
      <3> HIDE DEF log2, m
      <3> QED
        BY <1>5, <1>6, <1>7, Zenon
    <2>2. Agree(f, g, m)
      BY FoldSame, Zenon
    <2> QED
      BY <1>1, <2>1, <2>2, Zenon DEF Agree
  <1>9. m \in 0..m /\ m + 1 \in 1..(m + 1) /\ (m + 1) - 1 = m
    BY <1>1
  <1>10. g[m + 1] = Apply(g[m], e)
    <2> HIDE DEF log2, m
    <2> QED
      BY <1>6, <1>7, <1>9, Zenon
  <1> QED
    BY <1>5, <1>6, <1>8, <1>9, <1>10, Zenon

-----------------------------------------------------------------------------
(* Layers: a memtable above the files a version names.                     *)

Files(disk, v) == UNION {disk[id].kvs : id \in LiveFiles(v)}

Content(disk, map, v) == map \cup Files(disk, v)

\* What a tree of these versions holds for a key.
Value(S, k) ==
    LET versions == {e \in S : e.key = k}
    IN  IF versions = {} THEN NoValue ELSE Resolve(NewestOf(versions))

\* Where both hold a key, S has a version as new as any of R.
Dominates(S, R) ==
    \A e \in R, f \in S : e.key = f.key => \E g \in S : g.key = e.key /\ g.seq >= e.seq

\* After a run comes every greater one (a checkpoint that follows one that
\* never switched repeats the older runs in front).
InOrder(runs) ==
    \A i, j \in DOMAIN runs :
        runs[j] > runs[i] => \E n \in DOMAIN runs : n > i /\ runs[n] = runs[j]

OneVersion(S) == \A e, f \in S : SameSlot(e, f) => e = f

WellFormed(e) == e.op = "put" => e.val \in Vals

Layers(disk, map, v) ==
    /\ InOrder(v.runs)
    /\ \A id \in LiveFiles(v) : id < v.next /\ disk[id].state = "ok"
    /\ v.next <= MaxSst
    /\ OneVersion(Content(disk, map, v))
    /\ \A e \in Content(disk, map, v) : WellFormed(e)
    /\ \A id \in LiveFiles(v) : Dominates(map, disk[id].kvs)
    /\ \A id1, id2 \in LiveFiles(v) : id1 < id2 => Dominates(disk[id2].kvs, disk[id1].kvs)

File == [state : {"absent", "partial", "ok"}, kvs : SUBSET Entry]

Disks == [0..(MaxSst - 1) -> File]

\* A put into a table whose slots agree on their ops: the entry takes its slot.
LEMMA InsertIs ==
    ASSUME NEW map \in SUBSET Entry, NEW e \in Entry, OneVersion(map),
           \A f \in map : SameSlot(e, f) => f.op = e.op
    PROVE  Insert(map, e) = {g \in map : ~SameSlot(e, g)} \cup {e}
  <1>1. CASE \E f \in map : SameSlot(e, f)
    <2>1. PICK f \in map : SameSlot(e, f)
      BY <1>1, Zenon
    <2>2. {g \in map : SameSlot(e, g)} = {f}
      BY <2>1, Zenon DEF OneVersion, SameSlot
    <2>3. f \in Entry /\ f.key = e.key /\ f.seq = e.seq /\ f.op = e.op
      BY <2>1, Zenon DEF SameSlot
    <2>4. [f EXCEPT !.val = e.val] = e
      BY <2>3, Zenon DEF Entry
    <2>5. {[h EXCEPT !.val = e.val] : h \in {g \in map : SameSlot(e, g)}} = {e}
      BY <2>2, <2>4
    <2> QED
      BY <1>1, <2>5, Zenon DEF Insert
  <1>2. CASE ~\E f \in map : SameSlot(e, f)
    BY <1>2, Zenon DEF Insert
  <1> QED
    BY <1>1, <1>2, Zenon

\* A set of versions that has a bound has a newest one.
LEMMA Newest ==
    ASSUME MaxFact, NEW S \in SUBSET Entry, S # {}, NEW b \in Nat, \A e \in S : e.seq <= b
    PROVE  NewestOf(S) \in S /\ \A f \in S : f.seq <= NewestOf(S).seq
  <1> DEFINE N == {e.seq : e \in S}
  <1>1. N \in SUBSET Nat /\ N # {} /\ \A x \in N : x <= b
    BY Zenon DEF Entry
  <1>2. Max(N) \in N /\ \A x \in N : x <= Max(N)
    <2> HIDE DEF N
    <2> QED
      BY <1>1, Zenon DEF MaxFact
  <1>3. PICK e \in S : e.seq = Max(N)
    BY <1>2, Zenon
  <1>4. \A f \in S : f.seq <= e.seq
    BY <1>2, <1>3, Zenon
  <1> QED
    BY <1>4, Zenon DEF NewestOf

\* The newest of a key's versions is what the tree holds for the key.
LEMMA ValueIs ==
    ASSUME NEW S \in SUBSET Entry, OneVersion(S), NEW c \in S,
           \A f \in S : f.key = c.key => f.seq <= c.seq
    PROVE  Value(S, c.key) = Resolve(c)
  <1> DEFINE V == {e \in S : e.key = c.key}
             n == NewestOf(V)
  <1>1. c \in V /\ \A f \in V : f.seq <= c.seq
    BY Zenon
  <1>2. n \in V /\ \A f \in V : f.seq <= n.seq
    <2> HIDE DEF V
    <2> QED
      BY <1>1, Zenon DEF NewestOf
  <1>3. n.seq = c.seq
    <2>1. n.seq \in Nat /\ c.seq \in Nat
      BY <1>2, Zenon DEF Entry
    <2> QED
      BY <1>1, <1>2, <2>1
  <1>4. n = c
    BY <1>1, <1>2, <1>3, Zenon DEF OneVersion, SameSlot
  <1> QED
    BY <1>1, <1>4, Zenon DEF Value

\* A key with no entry has no value.
LEMMA ValueNone ==
    ASSUME NEW S, NEW k, \A e \in S : e.key # k
    PROVE  Value(S, k) = NoValue
  BY Zenon DEF Value

\* The files of a version whose ids were all issued are on the disk, and hold entries.
LEMMA ContentType ==
    ASSUME NEW disk \in Disks, NEW map \in SUBSET Entry, NEW v \in Version,
           \A id \in LiveFiles(v) : id < v.next, v.next <= MaxSst
    PROVE  /\ LiveFiles(v) \in SUBSET (0..(MaxSst - 1))
           /\ \A id \in LiveFiles(v) : disk[id] \in File /\ disk[id].kvs \in SUBSET Entry
           /\ Content(disk, map, v) \in SUBSET Entry
  <1>1. v.runs \in Seq(Nat) /\ v.next \in Nat
    BY Zenon DEF Version
  <1>2. LiveFiles(v) \in SUBSET Nat
    BY <1>1 DEF LiveFiles
  <1>3. LiveFiles(v) \in SUBSET (0..(MaxSst - 1))
    BY <1>1, <1>2, LsmAssumption
  <1>4. \A id \in LiveFiles(v) : disk[id] \in File
    BY <1>3, Zenon DEF Disks
  <1>5. \A id \in LiveFiles(v) : disk[id].kvs \in SUBSET Entry
    BY <1>4, Zenon DEF File
  <1>6. Content(disk, map, v) \in SUBSET Entry
    BY <1>5, Zenon DEF Content, Files
  <1> QED
    BY <1>3, <1>4, <1>5, <1>6, Zenon

\* get_at finds what the tree holds: no layer above holds an older version.
LEMMA GetIs ==
    ASSUME MaxFact, sst \in Disks, NEW map \in SUBSET Entry, NEW v \in Version,
           Layers(sst, map, v), NEW s \in Nat, \A e \in Content(sst, map, v) : e.seq <= s,
           NEW k
    PROVE  Get(map, v.runs, s, k) = Value(Content(sst, map, v), k)
  <1> DEFINE S == Content(sst, map, v)
             inMem == Versions(map, k, s)
             stops == {i \in DOMAIN v.runs :
                          \/ sst[v.runs[i]].state # "ok"
                          \/ Versions(sst[v.runs[i]].kvs, k, s) # {}}
  <1>1. /\ \A id \in LiveFiles(v) : sst[id].kvs \in SUBSET Entry /\ sst[id].state = "ok"
        /\ S \in SUBSET Entry
        /\ LiveFiles(v) \in SUBSET Nat
    <2>1. (\A id \in LiveFiles(v) : id < v.next) /\ v.next <= MaxSst
      BY Zenon DEF Layers
    <2>2. \A id \in LiveFiles(v) : sst[id].state = "ok"
      BY Zenon DEF Layers
    <2>3. /\ LiveFiles(v) \in SUBSET (0..(MaxSst - 1))
          /\ \A id \in LiveFiles(v) : sst[id] \in File /\ sst[id].kvs \in SUBSET Entry
          /\ S \in SUBSET Entry
      BY <2>1, ContentType, Zenon
    <2>4. LiveFiles(v) \in SUBSET Nat
      BY <2>3
    <2> QED
      BY <2>2, <2>3, <2>4, Zenon
  <1>2. OneVersion(S) /\ \A e \in S : e.seq <= s
    BY Zenon DEF Layers
  <1>3. \A e \in S : e \in map \/ \E id \in LiveFiles(v) : e \in sst[id].kvs
    BY Zenon DEF Content, Files
  <1>4. map \in SUBSET S /\ \A id \in LiveFiles(v) : sst[id].kvs \in SUBSET S
    BY Zenon DEF Content, Files
  <1>5. v.runs \in Seq(Nat) /\ DOMAIN v.runs = 1..Len(v.runs) /\ Len(v.runs) \in Nat
    BY DEF Version
  <1>6. \A i \in DOMAIN v.runs : v.runs[i] \in LiveFiles(v)
    BY Zenon DEF LiveFiles
  <1> HIDE DEF S
  <1>7. CASE inMem # {}
    <2> DEFINE n == NewestOf(inMem)
    <2>1. inMem \in SUBSET Entry /\ \A e \in inMem : e.seq <= s
      BY Zenon DEF Versions
    <2>2. n \in inMem /\ \A f \in inMem : f.seq <= n.seq
      <3> HIDE DEF inMem
      <3> QED
        BY <1>7, <2>1, Newest, Zenon
    <2>3. n \in S /\ n \in map /\ n.key = k /\ n.seq \in Nat
      BY <1>1, <1>4, <2>2, Zenon DEF Versions, Entry
    <2>4. \A g \in map : g.key = k => g.seq <= n.seq
      BY <1>2, <1>4, <2>2, Zenon DEF Versions
    <2> HIDE DEF n
    <2>5. ASSUME NEW f \in S, f.key = n.key
          PROVE  f.seq <= n.seq
      <3>1. CASE f \in map
        BY <2>3, <2>4, <2>5, <3>1, Zenon
      <3>2. ASSUME NEW id \in LiveFiles(v), f \in sst[id].kvs
            PROVE  f.seq <= n.seq
        <4>1. Dominates(map, sst[id].kvs)
          BY Zenon DEF Layers
        <4>2. PICK g \in map : g.key = f.key /\ g.seq >= f.seq
          BY <2>3, <2>5, <3>2, <4>1, Zenon DEF Dominates
        <4>3. g.seq \in Nat /\ f.seq \in Nat
          BY <1>1, <1>4, Zenon DEF Entry
        <4>4. g.seq <= n.seq
          BY <2>3, <2>4, <2>5, <4>2, Zenon
        <4> QED
          BY <2>3, <4>2, <4>3, <4>4
      <3> QED
        BY <1>3, <3>1, <3>2, Zenon
    <2>6. Value(S, n.key) = Resolve(n)
      BY <1>1, <1>2, <2>3, <2>5, ValueIs, Zenon
    <2>7. Get(map, v.runs, s, k) = Resolve(n)
      BY <1>7, Zenon DEF Get, n
    <2> QED
      BY <2>3, <2>6, <2>7, Zenon DEF S
  <1>8. CASE inMem = {} /\ stops = {}
    <2>1. \A e \in map : e.key # k
      BY <1>2, <1>4, <1>8, Zenon DEF Versions
    <2>2. ASSUME NEW id \in LiveFiles(v), NEW e \in sst[id].kvs
          PROVE  e.key # k
      <3>1. PICK i \in DOMAIN v.runs : v.runs[i] = id
        BY Zenon DEF LiveFiles
      <3>2. Versions(sst[id].kvs, k, s) = {}
        BY <1>8, <3>1, Zenon
      <3> QED
        BY <1>2, <1>4, <3>2, Zenon DEF Versions
    <2>3. Value(S, k) = NoValue
      BY <1>3, <2>1, <2>2, ValueNone, Zenon
    <2>4. Get(map, v.runs, s, k) = NoValue
      BY <1>8, Zenon DEF Get
    <2> QED
      BY <2>3, <2>4, Zenon DEF S
  <1>9. CASE inMem = {} /\ stops # {}
    <2> DEFINE m == Max(stops)
               f == sst[v.runs[m]]
               n == NewestOf(Versions(f.kvs, k, s))
    <2>1. stops \in SUBSET Nat /\ \A x \in stops : x <= Len(v.runs)
      BY <1>5
    <2>2. m \in stops /\ \A x \in stops : x <= m
      <3> HIDE DEF stops
      <3> QED
        BY <1>5, <1>9, <2>1, Zenon DEF MaxFact
    <2>3. m \in DOMAIN v.runs /\ v.runs[m] \in LiveFiles(v)
      BY <1>6, <2>2, Zenon
    <2> HIDE DEF m
    <2>4. f.state = "ok" /\ f.kvs \in SUBSET Entry /\ f.kvs \in SUBSET S
      BY <1>1, <1>4, <2>3, Zenon
    <2>5. Versions(f.kvs, k, s) # {}
      BY <2>2, <2>4, Zenon
    <2>6. n \in Versions(f.kvs, k, s) /\ \A g \in Versions(f.kvs, k, s) : g.seq <= n.seq
      <3>1. Versions(f.kvs, k, s) \in SUBSET Entry /\ \A e \in Versions(f.kvs, k, s) : e.seq <= s
        BY <2>4, Zenon DEF Versions
      <3> HIDE DEF f
      <3> QED
        BY <2>5, <3>1, Newest, Zenon
    <2>7. n \in f.kvs /\ n \in S /\ n.key = k /\ n.seq \in Nat
      BY <2>4, <2>6, Zenon DEF Versions, Entry
    <2>8. \A g \in f.kvs : g.key = k => g.seq <= n.seq
      BY <1>2, <2>4, <2>6, Zenon DEF Versions
    <2>9. Get(map, v.runs, s, k) = Resolve(n)
      BY <1>9, <2>4, Zenon DEF Get, m
    <2> HIDE DEF n
    <2>10. ASSUME NEW e \in S, e.key = n.key
           PROVE  e.seq <= n.seq
      <3>1. e \notin map
        BY <1>2, <1>9, <2>7, <2>10, Zenon DEF Versions
      <3>2. PICK id \in LiveFiles(v) : e \in sst[id].kvs
        BY <1>3, <3>1, Zenon
      <3>3. PICK i \in DOMAIN v.runs : v.runs[i] = id
        BY Zenon DEF LiveFiles
      <3>4. e \in Versions(sst[id].kvs, k, s)
        BY <1>2, <2>7, <2>10, <3>2, Zenon DEF Versions
      <3>5. ~(id > v.runs[m])
        <4>1. SUFFICES ASSUME id > v.runs[m]
                       PROVE  FALSE
          BY Zenon
        <4>2. PICK j \in DOMAIN v.runs : j > m /\ v.runs[j] = id
          <5>1. InOrder(v.runs)
            BY Zenon DEF Layers
          <5> QED
            BY <2>3, <3>3, <4>1, <5>1, Zenon DEF InOrder
        <4>3. j \in stops
          BY <3>4, <4>2, Zenon
        <4>4. j \in Nat /\ m \in Nat
          BY <1>5, <2>3
        <4> QED
          BY <2>2, <4>2, <4>3, <4>4
      <3>6. CASE id = v.runs[m]
        BY <2>7, <2>8, <2>10, <3>2, <3>6, Zenon
      <3>7. CASE id < v.runs[m]
        <4>1. Dominates(f.kvs, sst[id].kvs)
          BY <2>3, <3>7, Zenon DEF Layers
        <4>2. PICK g \in f.kvs : g.key = e.key /\ g.seq >= e.seq
          BY <2>7, <2>10, <3>2, <4>1, Zenon DEF Dominates
        <4>3. g.seq \in Nat /\ e.seq \in Nat
          BY <1>1, <2>4, Zenon DEF Entry
        <4>4. g.seq <= n.seq
          BY <2>7, <2>8, <2>10, <4>2, Zenon
        <4> QED
          BY <2>7, <4>2, <4>3, <4>4
      <3>8. id \in Nat /\ v.runs[m] \in Nat
        BY <1>1, <2>3, Zenon
      <3> QED
        BY <3>5, <3>6, <3>7, <3>8
    <2>11. Value(S, n.key) = Resolve(n)
      BY <1>1, <1>2, <2>7, <2>10, ValueIs, Zenon
    <2> QED
      BY <2>7, <2>9, <2>11, Zenon DEF S
  <1> QED
    BY <1>7, <1>8, <1>9, Zenon

\* The files of a version, run by run.
LEMMA RunsFiles ==
    ASSUME NEW disk, NEW v
    PROVE  /\ UNION {disk[v.runs[i]].kvs : i \in DOMAIN v.runs} = Files(disk, v)
           /\ (\E i \in DOMAIN v.runs : disk[v.runs[i]].state # "ok")
                 <=> (\E id \in LiveFiles(v) : disk[id].state # "ok")
  <1>1. \A i \in DOMAIN v.runs : v.runs[i] \in LiveFiles(v)
    BY Zenon DEF LiveFiles
  <1>2. \A id \in LiveFiles(v) : \E i \in DOMAIN v.runs : id = v.runs[i]
    BY Zenon DEF LiveFiles
  <1>3. {disk[v.runs[i]].kvs : i \in DOMAIN v.runs} = {disk[id].kvs : id \in LiveFiles(v)}
    BY <1>1, <1>2, Zenon
  <1> QED
    BY <1>1, <1>2, <1>3, Zenon DEF Files

\* What a scan as of s finds in these versions.
At(S, k, s) ==
    IF Versions(S, k, s) = {} THEN NoValue ELSE Resolve(NewestOf(Versions(S, k, s)))

\* A scan of complete files reads the newest version up to its seq of all entries.
LEMMA ScanIs ==
    ASSUME NEW map, NEW v, \A id \in LiveFiles(v) : sst[id].state = "ok", NEW k, NEW s
    PROVE  Scan(map, v.runs, s, k) = At(Content(sst, map, v), k, s)
  <1>1. UNION {sst[v.runs[i]].kvs : i \in DOMAIN v.runs} = Files(sst, v)
    BY RunsFiles, Zenon
  <1>2. ~\E i \in DOMAIN v.runs : sst[v.runs[i]].state # "ok"
    BY RunsFiles, Zenon
  <1> QED
    BY <1>1, <1>2, Zenon DEF Scan, At, Content

\* As of a seq that no entry is beyond, a key has its newest value.
LEMMA AtIsValue ==
    ASSUME NEW S, NEW k, NEW s, \A e \in S : e.seq <= s
    PROVE  At(S, k, s) = Value(S, k)
  <1>1. Versions(S, k, s) = {e \in S : e.key = k}
    BY Zenon DEF Versions
  <1> QED
    BY <1>1, Zenon DEF At, Value

-----------------------------------------------------------------------------
\* Older runs repeated in front of all of them do not disturb the order.
LEMMA InOrderBehind ==
    ASSUME NEW r \in Seq(Nat), NEW q \in Seq(Nat), InOrder(q),
           \A i \in DOMAIN r : \E j \in DOMAIN q : q[j] = r[i]
    PROVE  InOrder(r \o q)
  <1>1. /\ DOMAIN r = 1..Len(r) /\ DOMAIN q = 1..Len(q)
        /\ Len(r) \in Nat /\ Len(q) \in Nat
    OBVIOUS
  <1>2. PICK c : c = r \o q
    BY Zenon
  <1>3. /\ DOMAIN c = 1..(Len(r) + Len(q))
        /\ \A i \in 1..Len(r) : c[i] = r[i]
        /\ \A i \in 1..Len(q) : c[Len(r) + i] = q[i]
        /\ \A i \in DOMAIN c : i \in 1..Len(r) \/ i - Len(r) \in 1..Len(q)
    BY <1>2, Concat, Zenon
  <1>4. ASSUME NEW i \in DOMAIN c, NEW j \in DOMAIN c, c[j] > c[i]
        PROVE  \E n \in DOMAIN c : n > i /\ c[n] = c[j]
    <2>1. PICK b \in 1..Len(q) : q[b] = c[j]
      <3>1. CASE j \in 1..Len(r)
        BY <1>1, <1>3, <3>1, Zenon
      <3>2. CASE j - Len(r) \in 1..Len(q)
        <4>1. Len(r) + (j - Len(r)) = j
          BY <1>1, <1>3
        <4> QED
          BY <1>3, <3>2, <4>1, Zenon
      <3> QED
        BY <1>3, <3>1, <3>2, Zenon
    <2>2. CASE i \in 1..Len(r)
      <3>1. Len(r) + b \in DOMAIN c /\ c[Len(r) + b] = c[j] /\ Len(r) + b > i
        BY <1>1, <1>3, <2>1, <2>2
      <3> QED
        BY <3>1, Zenon
    <2>3. CASE i - Len(r) \in 1..Len(q)
      <3>1. Len(r) + (i - Len(r)) = i
        BY <1>1, <1>3
      <3>2. q[i - Len(r)] = c[i]
        BY <1>3, <2>3, <3>1, Zenon
      <3>3. PICK n \in DOMAIN q : n > i - Len(r) /\ q[n] = q[b]
        BY <1>1, <1>4, <2>1, <2>3, <3>2, Zenon DEF InOrder
      <3>4. Len(r) + n \in DOMAIN c /\ c[Len(r) + n] = c[j]
        BY <1>1, <1>3, <2>1, <3>3
      <3>5. Len(r) + n > i
        BY <1>1, <1>3, <3>3
      <3> QED
        BY <3>4, <3>5, Zenon
    <2> QED
      BY <1>3, <2>2, <2>3, Zenon
  <1>5. InOrder(c)
    BY <1>4, Zenon DEF InOrder
  <1> QED
    BY <1>2, <1>5, Zenon

\* The file of a flush goes behind the runs, with the largest id.
LEMMA InOrderNext ==
    ASSUME NEW r \in Seq(Nat), InOrder(r), NEW id \in Nat, \A i \in DOMAIN r : r[i] <= id
    PROVE  InOrder(r \o <<id>>)
  <1>1. <<id>> \in Seq(Nat) /\ Len(<<id>>) = 1 /\ <<id>>[1] = id
    OBVIOUS
  <1>2. PICK c : c = r \o <<id>>
    BY Zenon
  <1>3. DOMAIN r = 1..Len(r) /\ Len(r) \in Nat /\ \A i \in DOMAIN r : r[i] \in Nat
    OBVIOUS
  <1>4. /\ DOMAIN c = 1..(Len(r) + 1)
        /\ \A i \in 1..Len(r) : c[i] = r[i]
        /\ c[Len(r) + 1] = id
    BY <1>1, <1>2, <1>3
  <1>5. ASSUME NEW i \in DOMAIN c, NEW j \in DOMAIN c, c[j] > c[i]
        PROVE  \E n \in DOMAIN c : n > i /\ c[n] = c[j]
    <2>1. i # Len(r) + 1
      <3>1. SUFFICES ASSUME i = Len(r) + 1
                     PROVE  FALSE
        BY Zenon
      <3>2. c[j] > id
        BY <1>4, <1>5, <3>1, Zenon
      <3>3. CASE j \in 1..Len(r)
        BY <1>3, <1>4, <3>2, <3>3
      <3>4. CASE j = Len(r) + 1
        BY <1>4, <3>2, <3>4
      <3> QED
        BY <1>3, <1>4, <3>3, <3>4
    <2>2. i \in 1..Len(r) /\ c[i] = r[i]
      BY <1>3, <1>4, <2>1
    <2>3. CASE j = Len(r) + 1
      <3>1. j > i
        BY <1>3, <2>2, <2>3
      <3> QED
        BY <3>1, Zenon
    <2>4. CASE j \in 1..Len(r)
      <3>1. c[j] = r[j]
        BY <1>4, <2>4, Zenon
      <3>2. PICK n \in DOMAIN r : n > i /\ r[n] = r[j]
        BY <1>3, <1>5, <2>2, <2>4, <3>1, Zenon DEF InOrder
      <3> QED
        BY <1>3, <1>4, <3>1, <3>2
    <2> QED
      BY <1>3, <1>4, <2>3, <2>4
  <1>6. InOrder(c)
    BY <1>5, Zenon DEF InOrder
  <1> QED
    BY <1>2, <1>6, Zenon

-----------------------------------------------------------------------------
\* Layers see no more of a disk than the files of the version, and no more of
\* the version than their set and order.
LEMMA LayersSame ==
    ASSUME NEW disk, NEW map, NEW v, Layers(disk, map, v), NEW disk2, NEW v2,
           \A id \in LiveFiles(v) : disk2[id] = disk[id],
           LiveFiles(v2) = LiveFiles(v), InOrder(v2.runs),
           \A id \in LiveFiles(v2) : id < v2.next, v2.next <= MaxSst
    PROVE  /\ Layers(disk2, map, v2)
           /\ Files(disk2, v2) = Files(disk, v)
           /\ Content(disk2, map, v2) = Content(disk, map, v)
  <1>1. {disk2[id].kvs : id \in LiveFiles(v2)} = {disk[id].kvs : id \in LiveFiles(v)}
    BY Zenon
  <1>2. Files(disk2, v2) = Files(disk, v)
    BY <1>1, Zenon DEF Files
  <1>3. Content(disk2, map, v2) = Content(disk, map, v)
    BY <1>2, Zenon DEF Content
  <1>4. OneVersion(Content(disk2, map, v2)) /\ \A e \in Content(disk2, map, v2) : WellFormed(e)
    BY <1>3, Zenon DEF Layers
  <1>5. \A id \in LiveFiles(v2) : disk2[id].state = "ok" /\ Dominates(map, disk2[id].kvs)
    BY Zenon DEF Layers
  <1>6. \A id1, id2 \in LiveFiles(v2) : id1 < id2 => Dominates(disk2[id2].kvs, disk2[id1].kvs)
    BY Zenon DEF Layers
  <1> QED
    BY <1>2, <1>3, <1>4, <1>5, <1>6, Zenon DEF Layers

\* The entry is one more version of the layers, in the memtable.
Added(disk, map, e, v) ==
    /\ Layers(disk, map \cup {e}, v)
    /\ Content(disk, map \cup {e}, v) = Content(disk, map, v) \cup {e}
    /\ Insert(map, e) = map \cup {e}

\* A new version, newer than all there are, above the layers.
LEMMA LayersAdd ==
    ASSUME NEW disk \in Disks, NEW map \in SUBSET Entry, NEW v \in Version,
           Layers(disk, map, v), NEW e \in Entry, WellFormed(e),
           \A f \in Content(disk, map, v) : f.seq < e.seq
    PROVE  Added(disk, map, e, v)
  <1> DEFINE S == Content(disk, map, v)
  <1>1. /\ \A id \in LiveFiles(v) : disk[id].kvs \in SUBSET Entry
        /\ S \in SUBSET Entry
    <2>1. (\A id \in LiveFiles(v) : id < v.next) /\ v.next <= MaxSst
      BY Zenon DEF Layers
    <2> QED
      BY <2>1, ContentType, Zenon
  <1>2. Content(disk, map \cup {e}, v) = S \cup {e}
    BY Zenon DEF Content
  <1>3. map \in SUBSET S /\ \A id \in LiveFiles(v) : disk[id].kvs \in SUBSET S
    BY Zenon DEF Content, Files
  <1>4. e.seq \in Nat /\ \A f \in S : f.seq \in Nat
    BY <1>1, Zenon DEF Entry
  <1>5. \A f \in S : f.seq # e.seq
    BY <1>4
  <1>6. OneVersion(S) /\ \A f \in S : WellFormed(f)
    BY Zenon DEF Layers
  <1> HIDE DEF S
  <1>7. OneVersion(S \cup {e}) /\ \A f \in S \cup {e} : WellFormed(f)
    BY <1>5, <1>6, Zenon DEF OneVersion, SameSlot
  <1>8. ASSUME NEW id \in LiveFiles(v)
        PROVE  Dominates(map \cup {e}, disk[id].kvs)
    <2>1. Dominates(map, disk[id].kvs)
      BY Zenon DEF Layers
    <2>2. \A f \in disk[id].kvs : e.seq >= f.seq
      BY <1>3, <1>4 DEF S
    <2> QED
      BY <2>1, <2>2, Zenon DEF Dominates
  <1>9. Layers(disk, map \cup {e}, v)
    BY <1>2, <1>7, <1>8, Zenon DEF Layers
  <1>10. \A f \in map : ~SameSlot(e, f)
    BY <1>3, <1>5, Zenon DEF SameSlot
  <1>11. Insert(map, e) = map \cup {e}
    BY <1>10, Zenon DEF Insert
  <1> QED
    BY <1>2, <1>9, <1>11, Zenon DEF S, Added

\* What the tree holds then.
LEMMA ValueAdd ==
    ASSUME NEW S \in SUBSET Entry, OneVersion(S), NEW e \in Entry,
           \A f \in S : f.seq < e.seq, NEW k
    PROVE  Value(S \cup {e}, k) = IF k = e.key THEN Resolve(e) ELSE Value(S, k)
  <1>1. e.seq \in Nat /\ \A f \in S : f.seq \in Nat
    BY Zenon DEF Entry
  <1>2. OneVersion(S \cup {e})
    <2>1. \A f \in S : f.seq # e.seq
      BY <1>1
    <2> QED
      BY <2>1, Zenon DEF OneVersion, SameSlot
  <1>3. CASE k = e.key
    <2>1. \A f \in S \cup {e} : f.key = e.key => f.seq <= e.seq
      BY <1>1
    <2>2. Value(S \cup {e}, e.key) = Resolve(e)
      BY <1>2, <2>1, ValueIs, Zenon
    <2> QED
      BY <1>3, <2>2, Zenon
  <1>4. CASE k # e.key
    <2>1. {f \in S \cup {e} : f.key = k} = {f \in S : f.key = k}
      BY <1>4, Zenon
    <2> QED
      BY <1>4, <2>1, Zenon DEF Value
  <1> QED
    BY <1>3, <1>4, Zenon

\* The memtable's entries in a new file, above all others.
LEMMA LayersFlush ==
    ASSUME NEW disk, NEW map \in SUBSET Entry, NEW v \in Version, Layers(disk, map, v),
           v.next < MaxSst, disk[v.next] = [state |-> "ok", kvs |-> map], NEW s \in Nat
    PROVE  /\ Layers(disk, map, Apply(v, FlushEdit(v.next, s)))
           /\ Content(disk, map, Apply(v, FlushEdit(v.next, s))) = Content(disk, map, v)
           /\ LiveFiles(Apply(v, FlushEdit(v.next, s))) = LiveFiles(v) \cup {v.next}
           /\ FlushEdit(v.next, s) \in Version
  <1>1. v.runs \in Seq(Nat) /\ v.next \in Nat
    BY Zenon DEF Version
  <1>2. PICK n : n = v.next
    BY Zenon
  <1>3. n \in Nat /\ <<n>> \in Seq(Nat)
    BY <1>1, <1>2
  <1>4. FlushEdit(n, s) \in Version /\ FlushEdit(n, s).next = n + 1
            /\ FlushEdit(n, s).runs = <<n>> /\ LiveFiles(FlushEdit(n, s)) = {n}
    <2>1. n + 1 \in Nat
      BY <1>3
    <2>2. PICK q : q = <<n>>
      BY Zenon
    <2>3. FlushEdit(n, s) = [runs |-> q, next |-> n + 1, last |-> s] /\ q \in Seq(Nat)
      BY <1>3, <2>2, Zenon DEF FlushEdit
    <2>4. FlushEdit(n, s) \in Version /\ FlushEdit(n, s).runs = q /\ FlushEdit(n, s).next = n + 1
      BY <2>1, <2>3 DEF Version
    <2>5. {q[i] : i \in DOMAIN q} = {n}
      BY <2>2
    <2> QED
      BY <2>2, <2>4, <2>5, Zenon DEF LiveFiles
  <1>5. PICK w : w = Apply(v, FlushEdit(n, s))
    BY Zenon
  <1>6. /\ w \in Version /\ w.runs = v.runs \o <<n>> /\ w.next = n + 1
        /\ LiveFiles(w) = LiveFiles(v) \cup {n}
    <2>1. PICK e : e = FlushEdit(n, s)
      BY Zenon
    <2>2. e \in Version /\ e.next = n + 1 /\ e.runs = <<n>> /\ LiveFiles(e) = {n}
      BY <1>4, <2>1, Zenon
    <2>3. /\ Apply(v, e) \in Version
          /\ Apply(v, e).runs = v.runs \o e.runs
          /\ Apply(v, e).next = e.next
          /\ LiveFiles(Apply(v, e)) = LiveFiles(v) \cup LiveFiles(e)
      BY <2>2, ApplyIsVersion, Zenon
    <2>4. w = Apply(v, e)
      BY <1>5, <2>1, Zenon
    <2>5. w.runs = v.runs \o <<n>>
      BY <2>2, <2>3, <2>4, Zenon
    <2> QED
      BY <2>2, <2>3, <2>4, <2>5, Zenon
  <1>7. \A id \in LiveFiles(v) : id < n /\ id \in Nat
    <2>1. \A id \in LiveFiles(v) : id < n
      BY <1>2, Zenon DEF Layers
    <2>2. LiveFiles(v) \in SUBSET Nat
      BY <1>1 DEF LiveFiles
    <2> QED
      BY <2>1, <2>2, Zenon
  <1>8. InOrder(w.runs)
    <2>1. \A i \in DOMAIN v.runs : v.runs[i] <= n
      BY <1>3, <1>7 DEF LiveFiles
    <2>2. InOrder(v.runs)
      BY Zenon DEF Layers
    <2>3. InOrder(v.runs \o <<n>>)
      BY <1>1, <1>3, <2>1, <2>2, InOrderNext, Zenon
    <2> QED
      BY <1>6, <2>3, Zenon
  <1>9. disk[n].kvs = map /\ disk[n].state = "ok"
    BY <1>2
  <1>10. \A id \in LiveFiles(w) : id < w.next /\ disk[id].state = "ok"
    <2>1. \A id \in LiveFiles(v) : disk[id].state = "ok"
      BY Zenon DEF Layers
    <2> QED
      BY <1>3, <1>6, <1>7, <1>9, <2>1
  <1>11. w.next <= MaxSst
    BY <1>1, <1>2, <1>6, LsmAssumption
  <1>12. Content(disk, map, w) = Content(disk, map, v)
    BY <1>6, <1>9, Zenon DEF Content, Files
  <1>13. Dominates(map, map)
    BY DEF Dominates, Entry
  <1>14. \A id \in LiveFiles(w) : Dominates(map, disk[id].kvs)
    BY <1>6, <1>9, <1>13, Zenon DEF Layers
  <1>15. ASSUME NEW id1 \in LiveFiles(w), NEW id2 \in LiveFiles(w), id1 < id2
         PROVE  Dominates(disk[id2].kvs, disk[id1].kvs)
    <2>1. CASE id2 \in LiveFiles(v) /\ id1 \in LiveFiles(v)
      BY <1>15, <2>1, Zenon DEF Layers
    <2>2. CASE id2 = n
      BY <1>9, <1>14, <2>2, Zenon
    <2>3. CASE id2 \in LiveFiles(v) /\ id1 = n
      <3>1. id2 < n /\ id2 \in Nat /\ n < id2
        BY <1>7, <1>15, <2>3, Zenon
      <3>2. FALSE
        BY <1>3, <3>1
      <3> QED
        BY <3>2, Zenon
    <2> QED
      BY <1>6, <2>1, <2>2, <2>3, Zenon
  <1>16. OneVersion(Content(disk, map, w)) /\ \A e \in Content(disk, map, w) : WellFormed(e)
    BY <1>12, Zenon DEF Layers
  <1>17. Layers(disk, map, w)
    BY <1>8, <1>10, <1>11, <1>14, <1>15, <1>16, Zenon DEF Layers
  <1> QED
    BY <1>2, <1>4, <1>5, <1>6, <1>12, <1>17, Zenon

-----------------------------------------------------------------------------
(* The open tree and what its files would give back.                       *)

\* A memtable and the files of a version serve these values, s the newest seq.
Serves(disk, map, v, s, store) ==
    /\ Layers(disk, map, v)
    /\ \A e \in Content(disk, map, v) : e.seq <= s
    /\ v.last <= s
    /\ store = [k \in Keys |-> Value(Content(disk, map, v), k)]

(***************************************************************************)
(* A replay that yields T is as good as the memtable M, above files that   *)
(* hold F: what M has, T or F has; T numbers on as M does; and what T has  *)
(* beyond, the remains of failed writes, is in doubt or overwritten.       *)
(***************************************************************************)
LogCovers(T, M, F, last, s, dbt) ==
    /\ \A e \in M : e \in T \/ e \in F
    /\ Dominates(T, M \cup F)
    /\ \A e \in M \cup F : e.seq <= last \/ \E f \in T : e.seq <= f.seq
    /\ \A x \in T :
          \/ x \in M \cup F
          \/ /\ x.seq <= s + 1
             /\ \A e \in M \cup F : ~SameSlot(e, x)
             /\ \/ Written(x) \in dbt
                \/ \E e \in M \cup F : e.key = x.key /\ e.seq > x.seq

(***************************************************************************)
(* A manifest that folds into D is as good as the version v: it names the  *)
(* same files, or one more, that of a flush whose edit failed late, with   *)
(* no more in it than the memtable M has.                                  *)
(***************************************************************************)
ManifestCovers(D, v, disk, M) ==
    /\ \A id \in LiveFiles(v) : id \in LiveFiles(D)
    /\ \A id \in LiveFiles(D) : id \in LiveFiles(v) \/ id = v.next
    /\ InOrder(D.runs)
    /\ \A id \in LiveFiles(D) : id < D.next
    /\ D.next <= MaxSst
    /\ v.last <= D.last
    /\ v.next \in LiveFiles(D) /\ disk[v.next].state = "ok" =>
          /\ disk[v.next].kvs \in SUBSET M
          /\ \A id \in LiveFiles(v) : Dominates(disk[v.next].kvs, disk[id].kvs)

\* A log that covers the memtable still does when more writes are in doubt.
LEMMA LogCoversMore ==
    ASSUME NEW T, NEW M, NEW F, NEW last, NEW s, NEW dbt, LogCovers(T, M, F, last, s, dbt),
           NEW dbt2, dbt \in SUBSET dbt2
    PROVE  LogCovers(T, M, F, last, s, dbt2)
  BY Zenon DEF LogCovers

\* A record is logged: it takes its slot.
LEMMA LogCoversWrite ==
    ASSUME NEW T \in SUBSET Entry, NEW M \in SUBSET Entry, NEW F \in SUBSET Entry,
           NEW last, NEW s \in Nat, NEW dbt, LogCovers(T, M, F, last, s, dbt),
           NEW e \in Entry, e.seq = s + 1, \A c \in M \cup F : c.seq <= s
    PROVE  LogCovers({g \in T : ~SameSlot(e, g)} \cup {e}, M, F, last, s, dbt \cup {Written(e)})
  <1> DEFINE T2 == {g \in T : ~SameSlot(e, g)} \cup {e}
             C == M \cup F
  <1>1. e.seq \in Nat /\ (\A c \in C : c.seq \in Nat) /\ \A g \in T : g.seq \in Nat
    BY Zenon DEF Entry
  <1>2. \A c \in C : c.seq < e.seq /\ c.seq # e.seq
    BY <1>1
  <1>3. \A c \in C : c \in T => c \in T2
    BY <1>2, Zenon DEF SameSlot
  <1>4. \A c \in M : c \in T2 \/ c \in F
    BY <1>3, Zenon DEF LogCovers
  <1>5. ASSUME NEW c \in C, NEW f \in T2, c.key = f.key
        PROVE  \E g \in T2 : g.key = c.key /\ g.seq >= c.seq
    <2>1. CASE f = e
      BY <1>1, <1>2, <1>5, <2>1
    <2>2. CASE f \in T
      <3>1. PICK g \in T : g.key = c.key /\ g.seq >= c.seq
        BY <1>5, <2>2, Zenon DEF LogCovers, Dominates
      <3>2. CASE SameSlot(e, g)
        <4>1. e \in T2 /\ e.key = c.key /\ e.seq >= c.seq
          BY <3>1, <3>2, Zenon DEF SameSlot
        <4> QED
          BY <4>1, Zenon
      <3>3. CASE ~SameSlot(e, g)
        BY <3>1, <3>3, Zenon
      <3> QED
        BY <3>2, <3>3, Zenon
    <2> QED
      BY <2>1, <2>2, Zenon
  <1>6. Dominates(T2, C)
    <2> HIDE DEF T2, C
    <2> QED
      BY <1>5, Zenon DEF Dominates
  <1>7. ASSUME NEW c \in C, ~(c.seq <= last)
        PROVE  \E f \in T2 : c.seq <= f.seq
    <2>1. PICK f \in T : c.seq <= f.seq
      BY <1>7, Zenon DEF LogCovers
    <2>2. CASE SameSlot(e, f)
      <3>1. e \in T2 /\ c.seq <= e.seq
        BY <2>1, <2>2, Zenon DEF SameSlot
      <3> QED
        BY <3>1, Zenon
    <2>3. CASE ~SameSlot(e, f)
      BY <2>1, <2>3, Zenon
    <2> QED
      BY <2>2, <2>3, Zenon
  <1>8. ASSUME NEW x \in T2, x \notin C
        PROVE  /\ x.seq <= s + 1
               /\ \A c \in C : ~SameSlot(c, x)
               /\ \/ Written(x) \in dbt \cup {Written(e)}
                  \/ \E c \in C : c.key = x.key /\ c.seq > x.seq
    <2>1. CASE x = e
      BY <1>1, <1>2, <2>1 DEF SameSlot
    <2>2. CASE x \in T
      BY <1>8, <2>2, Zenon DEF LogCovers
    <2> QED
      BY <2>1, <2>2, Zenon
  <1> HIDE DEF T2
  <1>9. LogCovers(T2, M, F, last, s, dbt \cup {Written(e)})
    BY <1>4, <1>6, <1>7, <1>8, Zenon DEF LogCovers
  <1> QED
    BY <1>9, Zenon DEF T2

\* The logged entry is applied and acknowledged.
LEMMA LogCoversApply ==
    ASSUME NEW T \in SUBSET Entry, NEW M \in SUBSET Entry, NEW F \in SUBSET Entry,
           NEW last, NEW s \in Nat, NEW dbt, LogCovers(T, M, F, last, s, dbt),
           OneVersion(T), NEW e \in T, e.seq = s + 1
    PROVE  LogCovers(T, M \cup {e}, F, last, s + 1, {d \in dbt : d[1] # e.key})
  <1> DEFINE C == M \cup F
             C2 == (M \cup {e}) \cup F
             dbt2 == {d \in dbt : d[1] # e.key}
  <1>1. e.seq \in Nat /\ \A g \in T : g.seq \in Nat
    BY Zenon DEF Entry
  <1>2. C2 = C \cup {e}
    BY Zenon
  <1>3. \A c \in M \cup {e} : c \in T \/ c \in F
    BY Zenon DEF LogCovers
  <1>4. Dominates(T, C2)
    <2>1. Dominates(T, C)
      BY Zenon DEF LogCovers
    <2> HIDE DEF C, C2
    <2> QED
      BY <1>1, <1>2, <2>1 DEF Dominates
  <1>5. \A c \in C2 : c.seq <= last \/ \E f \in T : c.seq <= f.seq
    <2>1. e.seq <= e.seq
      BY <1>1
    <2> QED
      BY <2>1, Zenon DEF LogCovers
  <1>6. ASSUME NEW x \in T, x \notin C2
        PROVE  /\ x.seq <= (s + 1) + 1
               /\ \A c \in C2 : ~SameSlot(c, x)
               /\ \/ Written(x) \in dbt2
                  \/ \E c \in C2 : c.key = x.key /\ c.seq > x.seq
    <2>1. /\ x.seq <= s + 1
          /\ \A c \in C : ~SameSlot(c, x)
          /\ \/ Written(x) \in dbt
             \/ \E c \in C : c.key = x.key /\ c.seq > x.seq
      BY <1>6, Zenon DEF LogCovers
    <2>2. ~SameSlot(e, x)
      BY <1>6, Zenon DEF OneVersion
    <2>3. x.seq <= (s + 1) + 1
      BY <1>1, <2>1
    <2>4. \A c \in C2 : ~SameSlot(c, x)
      BY <2>1, <2>2, Zenon
    <2>5. CASE x.key = e.key
      <3>1. e.seq > x.seq
        BY <1>1, <2>1, <2>2, <2>5 DEF SameSlot
      <3> QED
        BY <2>3, <2>4, <2>5, <3>1, Zenon
    <2>6. CASE x.key # e.key
      <3>1. Written(x)[1] = x.key
        BY Zenon DEF Written
      <3>2. Written(x) \in dbt => Written(x) \in dbt2
        BY <2>6, <3>1, Zenon
      <3>3. \A c \in C : c \in C2
        BY Zenon
      <3> QED
        BY <2>1, <2>3, <2>4, <3>2, <3>3, Zenon
    <2> QED
      BY <2>5, <2>6, Zenon
  <1> HIDE DEF dbt2
  <1>7. LogCovers(T, M \cup {e}, F, last, s + 1, dbt2)
    BY <1>3, <1>4, <1>5, <1>6, Zenon DEF LogCovers
  <1> QED
    BY <1>7, Zenon DEF dbt2

\* The memtable is in a file now; its entries are still in the journal.
LEMMA LogCoversFlush ==
    ASSUME NEW T, NEW M, NEW F, NEW last, NEW s, NEW dbt, LogCovers(T, M, F, last, s, dbt),
           NEW F2, M \cup F2 = M \cup F, F \in SUBSET F2, \A e \in M \cup F : e.seq <= s
    PROVE  LogCovers(T, M, F2, s, s, dbt)
  <1>1. \A e \in M : e \in T \/ e \in F2
    BY Zenon DEF LogCovers
  <1> QED
    BY <1>1, Zenon DEF LogCovers

\* The journal is empty.
LEMMA LogCoversNone ==
    ASSUME NEW M, NEW F, NEW s, NEW dbt, M \in SUBSET F, \A e \in F : e.seq <= s
    PROVE  LogCovers({}, M, F, s, s, dbt)
  BY Zenon DEF LogCovers, Dominates

\* The memtable is what the journal gives.
LEMMA LogCoversSelf ==
    ASSUME NEW T \in SUBSET Entry, NEW F, NEW last, NEW s, NEW dbt, Dominates(T, F),
           \A e \in T \cup F : e.seq <= last \/ \E f \in T : e.seq <= f.seq
    PROVE  LogCovers(T, T, F, last, s, dbt)
  <1>1. \A e \in T : e.seq \in Nat
    BY Zenon DEF Entry
  <1>2. Dominates(T, T \cup F)
    BY <1>1 DEF Dominates
  <1> QED
    BY <1>2, Zenon DEF LogCovers

\* No memtable.
LEMMA LayersClear ==
    ASSUME NEW disk, NEW map, NEW v, Layers(disk, map, v), map \in SUBSET Files(disk, v)
    PROVE  /\ Layers(disk, {}, v)
           /\ Content(disk, {}, v) = Content(disk, map, v)
  <1>1. Content(disk, {}, v) = Content(disk, map, v)
    BY Zenon DEF Content
  <1>2. \A id \in LiveFiles(v) : Dominates({}, disk[id].kvs)
    BY Zenon DEF Dominates
  <1>3. OneVersion(Content(disk, {}, v)) /\ \A e \in Content(disk, {}, v) : WellFormed(e)
    BY <1>1, Zenon DEF Layers
  <1> QED
    BY <1>1, <1>2, <1>3, Zenon DEF Layers

(***************************************************************************)
(* What an open finds.  The journals that cover the tree give its layers   *)
(* back, with the remains of failed writes among them.                     *)
(***************************************************************************)
LEMMA RecoveredLayers ==
    ASSUME NEW disk \in Disks, NEW M \in SUBSET Entry, NEW v \in Version, NEW s \in Nat,
           NEW store, Serves(disk, M, v, s, store),
           NEW T \in SUBSET Entry, OneVersion(T), \A e \in T : WellFormed(e),
           NEW dbt, LogCovers(T, M, Files(disk, v), v.last, s, dbt),
           NEW D \in Version, ManifestCovers(D, v, disk, M),
           \A id \in LiveFiles(D) : disk[id].state = "ok"
    PROVE  /\ Layers(disk, T, D)
           /\ Content(disk, T, D) = Content(disk, M, v) \cup T
           /\ \A e \in Content(disk, T, D) : e.seq <= D.last \/ \E f \in T : e.seq <= f.seq
  <1> DEFINE C == Content(disk, M, v)
             F == Files(disk, v)
             C2 == Content(disk, T, D)
  <1>1. /\ \A id \in LiveFiles(v) : id < v.next
        /\ v.next <= MaxSst
        /\ OneVersion(C)
        /\ \A e \in C : WellFormed(e)
        /\ \A id1, id2 \in LiveFiles(v) : id1 < id2 => Dominates(disk[id2].kvs, disk[id1].kvs)
    BY Zenon DEF Serves, Layers
  <1>2. C = M \cup F
    BY Zenon DEF Content
  <1>3. C \in SUBSET Entry /\ v.next \in Nat /\ LiveFiles(v) \in SUBSET Nat
    <2>1. LiveFiles(v) \in SUBSET (0..(MaxSst - 1)) /\ C \in SUBSET Entry
      BY <1>1, ContentType, Zenon
    <2>2. v.next \in Nat
      BY Zenon DEF Version
    <2>3. \A i \in 0..(MaxSst - 1) : i \in Nat
      OBVIOUS
    <2> HIDE DEF C
    <2> QED
      BY <2>1, <2>2, <2>3, Zenon
  <1>4. \A id \in LiveFiles(D) : disk[id].kvs \in SUBSET C
    <2>1. \A id \in LiveFiles(v) : disk[id].kvs \in SUBSET F
      BY Zenon DEF Files
    <2>2. v.next \in LiveFiles(D) => disk[v.next].kvs \in SUBSET M
      BY Zenon DEF ManifestCovers
    <2>3. \A id \in LiveFiles(D) : id \in LiveFiles(v) \/ id = v.next
      BY Zenon DEF ManifestCovers
    <2> HIDE DEF F, C
    <2> QED
      BY <1>2, <2>1, <2>2, <2>3, Zenon
  <1>5. F \in SUBSET Files(disk, D)
    <2>1. \A id \in LiveFiles(v) : id \in LiveFiles(D)
      BY Zenon DEF ManifestCovers
    <2> QED
      BY <2>1, Zenon DEF Files
  <1>6. Files(disk, D) \in SUBSET C
    <2> HIDE DEF C
    <2> QED
      BY <1>4, Zenon DEF Files
  <1>7. C2 = C \cup T
    <2>1. \A e \in M : e \in T \/ e \in F
      BY Zenon DEF LogCovers
    <2>2. C2 = T \cup Files(disk, D)
      BY Zenon DEF Content
    <2> HIDE DEF F, C, C2
    <2> QED
      BY <1>2, <1>5, <1>6, <2>1, <2>2, Zenon
  <1>8. \A x \in T : x \in C \/ \A e \in C : ~SameSlot(e, x)
    BY <1>2, Zenon DEF LogCovers
  <1>9. OneVersion(C2)
    <2> HIDE DEF C, C2
    <2>1. \A e, f : SameSlot(e, f) => SameSlot(f, e)
      BY Zenon DEF SameSlot
    <2> QED
      BY <1>1, <1>7, <1>8, <2>1, Zenon DEF OneVersion
  <1>10. \A e \in C2 : WellFormed(e)
    <2> HIDE DEF C, C2
    <2> QED
      BY <1>1, <1>7, Zenon
  <1>11. \A id \in LiveFiles(D) : Dominates(T, disk[id].kvs)
    <2>1. Dominates(T, C)
      BY <1>2, Zenon DEF LogCovers
    <2> HIDE DEF C
    <2> QED
      BY <1>4, <2>1, Zenon DEF Dominates
  <1>12. ASSUME NEW id1 \in LiveFiles(D), NEW id2 \in LiveFiles(D), id1 < id2
         PROVE  Dominates(disk[id2].kvs, disk[id1].kvs)
    <2>1. /\ id1 \in LiveFiles(v) \/ id1 = v.next
          /\ id2 \in LiveFiles(v) \/ id2 = v.next
      BY Zenon DEF ManifestCovers
    <2>2. CASE id1 \in LiveFiles(v) /\ id2 \in LiveFiles(v)
      BY <1>1, <1>12, <2>2, Zenon
    <2>3. CASE id1 \in LiveFiles(v) /\ id2 = v.next
      BY <2>3, Zenon DEF ManifestCovers
    <2>4. CASE id1 = v.next
      <3>1. PICK n : n = v.next
        BY Zenon
      <3>2. n \in Nat /\ id2 \in Nat /\ (id2 < n \/ id2 = n)
        BY <1>1, <1>3, <2>1, <3>1, Zenon
      <3>3. n < id2
        BY <1>12, <2>4, <3>1, Zenon
      <3> QED
        BY <3>2, <3>3
    <2> QED
      BY <2>1, <2>2, <2>3, <2>4, Zenon
  <1>13. Layers(disk, T, D)
    <2>1. /\ InOrder(D.runs)
          /\ \A id \in LiveFiles(D) : id < D.next /\ disk[id].state = "ok"
          /\ D.next <= MaxSst
      BY Zenon DEF ManifestCovers
    <2> QED
      BY <1>9, <1>10, <1>11, <1>12, <2>1, Zenon DEF Layers
  <1>14. ASSUME NEW e \in C2
         PROVE  e.seq <= D.last \/ \E f \in T : e.seq <= f.seq
    <2>1. e.seq \in Nat
      BY <1>3, <1>7, Zenon DEF Entry
    <2>2. CASE e \in T
      BY <2>1, <2>2
    <2>3. CASE e \in C
      <3>1. e.seq <= v.last \/ \E f \in T : e.seq <= f.seq
        BY <1>2, <2>3, Zenon DEF LogCovers
      <3>2. PICK l, d : l = v.last /\ d = D.last
        BY Zenon
      <3>3. l <= d /\ l \in Nat /\ d \in Nat
        BY <3>2, Zenon DEF ManifestCovers, Version
      <3>4. e.seq <= l => e.seq <= d
        BY <2>1, <3>3
      <3> QED
        BY <3>1, <3>2, <3>4, Zenon
    <2> QED
      BY <1>7, <2>2, <2>3, Zenon
  <1> QED
    BY <1>7, <1>13, <1>14, Zenon

\* ... and every key's value, or one in doubt.
LEMMA RecoveredValues ==
    ASSUME MaxFact, NEW C \in SUBSET Entry, NEW s \in Nat, \A e \in C : e.seq <= s,
           NEW T \in SUBSET Entry, OneVersion(C \cup T), NEW dbt,
           \A x \in T : x \in C \/ (/\ x.seq <= s + 1
                                    /\ \/ Written(x) \in dbt
                                       \/ \E e \in C : e.key = x.key /\ e.seq > x.seq),
           NEW k
    PROVE  Value(C \cup T, k) = Value(C, k) \/ <<k, Value(C \cup T, k)>> \in dbt
  <1> DEFINE K == {e \in C \cup T : e.key = k}
             n == NewestOf(K)
  <1>1. CASE K = {}
    <2>1. (\A e \in C \cup T : e.key # k) /\ \A e \in C : e.key # k
      BY <1>1, Zenon
    <2> QED
      BY <2>1, ValueNone, Zenon
  <1>2. CASE K # {}
    <2>1. K \in SUBSET Entry /\ s + 1 \in Nat
      OBVIOUS
    <2>2. \A e \in K : e.seq <= s + 1
      <3>1. \A e \in C : e.seq \in Nat
        BY Zenon DEF Entry
      <3>2. \A e \in C : e.seq <= s + 1
        BY <3>1
      <3> QED
        BY <3>2, Zenon
    <2>3. n \in K /\ \A f \in K : f.seq <= n.seq
      <3> HIDE DEF K
      <3> QED
        BY <1>2, <2>1, <2>2, Newest, Zenon
    <2>4. n \in C \cup T /\ n.key = k /\ \A f \in C \cup T : f.key = k => f.seq <= n.seq
      BY <2>3, Zenon
    <2> HIDE DEF n, K
    <2>5. n.seq \in Nat /\ C \cup T \in SUBSET Entry
      BY <2>4, Zenon DEF Entry
    <2>6. Value(C \cup T, n.key) = Resolve(n)
      BY <2>4, <2>5, ValueIs, Zenon
    <2>7. CASE n \in C
      <3>1. OneVersion(C)
        BY Zenon DEF OneVersion
      <3>2. \A f \in C : f.key = n.key => f.seq <= n.seq
        BY <2>4, Zenon
      <3>3. Value(C, n.key) = Resolve(n)
        BY <2>7, <3>1, <3>2, ValueIs, Zenon
      <3> QED
        BY <2>4, <2>6, <3>3, Zenon
    <2>8. CASE n \notin C
      <3>1. n \in T
        BY <2>4, <2>8, Zenon
      <3>2. ASSUME NEW e \in C, e.key = n.key, e.seq > n.seq
            PROVE  FALSE
        <4>1. e.seq \in Nat /\ e.seq <= n.seq
          BY <2>4, <3>2, Zenon DEF Entry
        <4> QED
          BY <2>5, <3>2, <4>1
      <3>3. Written(n) \in dbt
        BY <2>8, <3>1, <3>2, Zenon
      <3> QED
        BY <2>4, <2>6, <3>3, Zenon DEF Written
    <2> QED
      BY <2>7, <2>8, Zenon
  <1> QED
    BY <1>1, <1>2, Zenon

\* The seq an open resumes from is past every version it finds.
LEMMA ResumeIs ==
    ASSUME MaxFact, NEW t, t.map \in SUBSET Entry, NEW b \in Nat,
           \A e \in t.map : e.seq <= b, NEW D \in Version
    PROVE  /\ ResumeSeq(t, D) \in Nat
           /\ D.last <= ResumeSeq(t, D)
           /\ \A e \in t.map : e.seq <= ResumeSeq(t, D)
  <1> DEFINE N == {e.seq : e \in t.map}
             P == {D.last, MaxSeq(t.map)}
  <1>1. MaxSeq(t.map) \in Nat /\ \A e \in t.map : e.seq <= MaxSeq(t.map)
    <2>1. CASE t.map = {}
      BY <2>1, Zenon DEF MaxSeq
    <2>2. CASE t.map # {}
      <3>1. N \in SUBSET Nat /\ N # {} /\ \A x \in N : x <= b
        BY <2>2, Zenon DEF Entry
      <3>2. Max(N) \in N /\ \A x \in N : x <= Max(N)
        <4> HIDE DEF N
        <4> QED
          BY <3>1, Zenon DEF MaxFact
      <3>3. MaxSeq(t.map) = Max(N)
        BY <2>2, Zenon DEF MaxSeq
      <3> HIDE DEF N
      <3>4. MaxSeq(t.map) \in Nat
        BY <3>1, <3>2, <3>3, Zenon
      <3>5. \A e \in t.map : e.seq \in N
        BY Zenon DEF N
      <3> QED
        BY <3>2, <3>3, <3>4, <3>5, Zenon
    <2> QED
      BY <2>1, <2>2, Zenon
  <1>2. D.last \in Nat
    BY Zenon DEF Version
  <1>3. P \in SUBSET Nat /\ P # {} /\ D.last + MaxSeq(t.map) \in Nat
            /\ \A x \in P : x <= D.last + MaxSeq(t.map)
    BY <1>1, <1>2
  <1>4. Max(P) \in P /\ \A x \in P : x <= Max(P)
    <2> HIDE DEF P
    <2>1. PICK c \in Nat : \A x \in P : x <= c
      BY <1>3, Zenon
    <2> QED
      BY <1>3, <2>1, Zenon DEF MaxFact
  <1>5. ResumeSeq(t, D) = Max(P)
    BY Zenon DEF ResumeSeq
  <1>6. Max(P) \in Nat /\ D.last <= Max(P) /\ MaxSeq(t.map) <= Max(P)
    BY <1>3, <1>4, Zenon
  <1> HIDE DEF P
  <1>7. \A e \in t.map : e.seq <= Max(P)
    <2>1. \A e \in t.map : e.seq \in Nat
      BY Zenon DEF Entry
    <2> QED
      BY <1>1, <1>6, <2>1
  <1> QED
    BY <1>5, <1>6, <1>7, Zenon

-----------------------------------------------------------------------------
\* A manifest that names the version's files.
LEMMA ManifestCoversSame ==
    ASSUME NEW disk, NEW M, NEW v \in Version, Layers(disk, M, v), NEW D,
           LiveFiles(D) = LiveFiles(v), InOrder(D.runs), D.next = v.next, D.last = v.last
    PROVE  ManifestCovers(D, v, disk, M) /\ v.next \notin LiveFiles(D)
  <1>1. v.next \in Nat /\ v.last \in Nat
    BY Zenon DEF Version
  <1>2. (\A id \in LiveFiles(v) : id < v.next) /\ v.next <= MaxSst
    BY Zenon DEF Layers
  <1>3. v.next \notin LiveFiles(v)
    BY <1>1, <1>2
  <1>4. v.last <= D.last
    BY <1>1
  <1> QED
    BY <1>2, <1>3, <1>4, Zenon DEF ManifestCovers

\* The edit of a flush behind what the manifest holds.
Edited(D2, v, s) ==
    /\ D2 \in Version
    /\ LiveFiles(D2) = LiveFiles(v) \cup {v.next}
    /\ InOrder(D2.runs)
    /\ D2.next = v.next + 1
    /\ D2.last = s
    /\ \A id \in LiveFiles(D2) : id < D2.next
    /\ D2.next <= MaxSst

\* A manifest that covers the version, with the edit of a flush behind it.
LEMMA ManifestEdit ==
    ASSUME NEW v \in Version, NEW D \in Version, NEW disk, NEW M, ManifestCovers(D, v, disk, M),
           \A id \in LiveFiles(v) : id < v.next, v.next < MaxSst, NEW s \in Nat,
           NEW D2, D2 = Apply(D, FlushEdit(v.next, s))
    PROVE  Edited(D2, v, s)
  <1>1. PICK n : n = v.next
    BY Zenon
  <1>2. n \in Nat /\ <<n>> \in Seq(Nat) /\ D.runs \in Seq(Nat)
    BY <1>1 DEF Version
  <1>3. PICK e : e = FlushEdit(n, s)
    BY Zenon
  <1>4. e \in Version /\ e.next = n + 1 /\ e.last = s /\ e.runs = <<n>> /\ LiveFiles(e) = {n}
    <2>1. n + 1 \in Nat
      BY <1>2
    <2>2. PICK q : q = <<n>>
      BY Zenon
    <2>3. e = [runs |-> q, next |-> n + 1, last |-> s] /\ q \in Seq(Nat)
      BY <1>2, <1>3, <2>2, Zenon DEF FlushEdit
    <2>4. e \in Version /\ e.runs = q /\ e.next = n + 1 /\ e.last = s
      BY <2>1, <2>3, Zenon DEF Version
    <2>5. {q[i] : i \in DOMAIN q} = {n}
      BY <2>2
    <2> QED
      BY <2>2, <2>4, <2>5, Zenon DEF LiveFiles
  <1>5. /\ D2 \in Version
        /\ D2.runs = D.runs \o <<n>>
        /\ D2.next = n + 1
        /\ D2.last = s
        /\ LiveFiles(D2) = LiveFiles(D) \cup {n}
    <2>1. /\ Apply(D, e) \in Version
          /\ Apply(D, e).runs = D.runs \o e.runs
          /\ Apply(D, e).next = e.next
          /\ Apply(D, e).last = e.last
          /\ LiveFiles(Apply(D, e)) = LiveFiles(D) \cup LiveFiles(e)
      BY <1>4, ApplyIsVersion, Zenon DEF Apply
    <2>2. D2 = Apply(D, e)
      BY <1>1, <1>3, Zenon
    <2>3. D2.runs = D.runs \o <<n>>
      BY <1>4, <2>1, <2>2, Zenon
    <2> QED
      BY <1>4, <2>1, <2>2, <2>3, Zenon
  <1>6. LiveFiles(D2) = LiveFiles(v) \cup {n}
    BY <1>1, <1>5, Zenon DEF ManifestCovers
  <1>7. \A id \in LiveFiles(D) : id \in Nat /\ id <= n
    <2>1. LiveFiles(D) \in SUBSET Nat
      BY <1>2 DEF LiveFiles
    <2>2. \A id \in LiveFiles(D) : id < n \/ id = n
      BY <1>1, Zenon DEF ManifestCovers
    <2> QED
      BY <1>2, <2>1, <2>2
  <1>8. InOrder(D2.runs)
    <2>1. \A i \in DOMAIN D.runs : D.runs[i] <= n
      BY <1>7, Zenon DEF LiveFiles
    <2>2. InOrder(D.runs)
      BY Zenon DEF ManifestCovers
    <2>3. InOrder(D.runs \o <<n>>)
      BY <1>2, <2>1, <2>2, InOrderNext, Zenon
    <2> QED
      BY <1>5, <2>3, Zenon
  <1>9. \A id \in LiveFiles(D2) : id < n + 1
    BY <1>2, <1>5, <1>7
  <1>10. n + 1 <= MaxSst
    BY <1>1, <1>2, LsmAssumption
  <1> QED
    BY <1>1, <1>5, <1>6, <1>8, <1>9, <1>10, Zenon DEF Edited

\* A snapshot of the version behind what the next manifest holds.
LEMMA ManifestSnapshot ==
    ASSUME NEW v \in Version, NEW U \in Version, InOrder(v.runs),
           \A id \in LiveFiles(U) : id \in LiveFiles(v),
           NEW U2, U2 = Apply(U, Snapshot(v))
    PROVE  /\ Snapshot(v) = v
           /\ U2 \in Version
           /\ LiveFiles(U2) = LiveFiles(v)
           /\ U2.next = v.next /\ U2.last = v.last
           /\ InOrder(U2.runs)
  <1>1. Snapshot(v) = v
    BY Zenon DEF Snapshot, Version
  <1>2. /\ U2 \in Version
        /\ U2.runs = U.runs \o v.runs
        /\ U2.next = v.next
        /\ U2.last = v.last
        /\ LiveFiles(U2) = LiveFiles(U) \cup LiveFiles(v)
    <2>1. U2 = Apply(U, v)
      BY <1>1, Zenon
    <2>2. /\ Apply(U, v) \in Version
          /\ Apply(U, v).runs = U.runs \o v.runs
          /\ Apply(U, v).next = v.next
          /\ Apply(U, v).last = v.last
          /\ LiveFiles(Apply(U, v)) = LiveFiles(U) \cup LiveFiles(v)
      BY ApplyIsVersion, Zenon
    <2>3. U2.runs = U.runs \o v.runs
      BY <2>1, <2>2, Zenon
    <2> QED
      BY <2>1, <2>2, <2>3, Zenon
  <1>3. LiveFiles(U2) = LiveFiles(v)
    BY <1>2, Zenon
  <1>4. U.runs \in Seq(Nat) /\ v.runs \in Seq(Nat)
    BY Zenon DEF Version
  <1>5. PICK a, b : a = U.runs /\ b = v.runs
    BY Zenon
  <1>6. \A i \in DOMAIN a : \E j \in DOMAIN b : a[i] = b[j]
    BY <1>5, Zenon DEF LiveFiles
  <1>7. InOrder(a \o b)
    BY <1>4, <1>5, <1>6, InOrderBehind, Zenon
  <1> QED
    BY <1>1, <1>2, <1>3, <1>5, <1>7, Zenon
=============================================================================
