-------------------------- MODULE PageCacheProofs --------------------------
(***************************************************************************)
(* Proofs about PageCache, for every number of frames, pages, page         *)
(* versions, readers and faults: its inductive invariant, what recovery    *)
(* makes of a log, that the steps of a flush, of a recovery, of a crash    *)
(* and of the clients' calls preserve the invariant, the refinement step   *)
(* by step, and the theorems.                                              *)
(***************************************************************************)
EXTENDS PageCache, Counting, TLAPS

Record == [page : Pages, image : Nat]
Frame == [page : 0..MaxPage, buf : Nat, readers : Nat, writer : BOOLEAN, dirty : BOOLEAN]
Call == [op : {"none", "read", "write", "allocate"}, page : 0..MaxPage]
UpSteps == {"run", "log", "commit", "apply", "sync", "truncate"}
DownSteps == {"down", "resync", "discard"}

TypeOK ==
    /\ limit \in Limits
    /\ file \in [Pages -> Nat \cup {Torn}]
    /\ disk \in [Pages -> Nat \cup {Torn}]
    /\ super \in 1..(MaxPage + 1)
    /\ journal \in Seq(Record \cup {Marker, Torn})
    /\ frames \in [FrameIds -> Frame]
    /\ nextId \in 0..(MaxPage + 1)
    /\ pc \in UpSteps \cup DownSteps
    /\ wants \in Call
    /\ todo \in SUBSET Pages
    /\ latest \in [Pages -> Nat]
    /\ durable \in [Pages -> Nat]
    /\ mark \in 1..(MaxPage + 1)
    /\ stamp \in Nat
    /\ faults \in Nat

\* A page has one frame, a writer is alone, and a frame on the free list is free.
Pool ==
    /\ \A f, g \in FrameIds : frames[f].page = frames[g].page /\ frames[f].page # 0 => f = g
    /\ \A f \in FrameIds :
          /\ frames[f].page = 0 => frames[f] = Free
          /\ frames[f].page # 0 => frames[f].page < nextId /\ frames[f].buf # 0
          /\ frames[f].writer => frames[f].readers = 0

\* The first n records of the log are committed.
CutAt(log, n) ==
    /\ n \in 0..Len(log)
    /\ n = 0 \/ log[n] = Marker
    /\ \A i \in 1..n : log[i] # Torn
    /\ \A i \in (n + 1)..Len(log) : log[i] # Marker

\* Behind the first n there is an image of every dirty frame and nothing else.
LoggedFrom(n) ==
    /\ \A i \in (n + 1)..Len(journal) : \E f \in DirtyFrames : journal[i] = ImageOf(f)
    /\ \A f \in DirtyFrames : \E i \in (n + 1)..Len(journal) : journal[i] = ImageOf(f)

Shape ==
    /\ \E n \in 0..Len(journal) : CutAt(journal, n) /\ (pc = "commit" => LoggedFrom(n))
    /\ pc \in UpSteps \ {"commit"} => CutAt(journal, Len(journal))

\* The committed writes of a page.
Writes(p) == WritesOf(CommittedOps(journal), p)

\* A page that the log would not restore is on disk; one that it would, it restores
\* to the last commit.
Restored ==
    \A p \in Pages :
        /\ Writes(p) = {} => file[p] = durable[p] /\ disk[p] = durable[p]
        /\ Writes(p) # {} =>
              /\ RedoneBlock(0, CommittedOps(journal), p) = durable[p]
              /\ p < mark
              /\ pc # "down" => p < nextId

\* What the block file lacks of the last commit is still to be written.
Behind ==
    /\ pc \in {"run", "log", "commit"} =>
          \A p \in Pages : file[p] = durable[p] \/ \E f \in DirtyFrames : frames[f].page = p
    /\ pc = "apply" => \A p \in Pages : file[p] = durable[p] \/ p \in todo
    /\ pc \in {"resync", "discard", "sync", "truncate"} => \A p \in Pages : file[p] = durable[p]
    /\ pc \in {"discard", "truncate"} => \A p \in Pages : disk[p] = durable[p]

Applying ==
    pc = "apply" =>
        \A p \in todo :
            /\ Writes(p) # {}
            /\ \E f \in DirtyFrames : frames[f].page = p /\ frames[f].buf = durable[p]

\* The high-water marks.
Marks ==
    /\ super <= mark
    /\ pc # "down" => super <= nextId
    /\ pc \in {"resync", "discard"} => nextId <= mark
    /\ pc \in {"apply", "sync", "truncate"} => nextId = mark
    /\ pc = "truncate" => super = nextId
    /\ pc # "down" => \A p \in Pages : durable[p] # 0 => p < nextId
    /\ \A p \in Pages : durable[p] # 0 /\ (Writes(p) = {} \/ pc = "discard") => p < super

\* Ids that are not handed out, or not yet used, hold nothing.
Unused(p) == latest[p] = 0 /\ Resident(p) = {}

Fresh ==
    /\ Up => \A p \in Pages : p >= nextId => Unused(p)
    /\ wants.op = "allocate" => wants.page \in Pages /\ wants.page < nextId /\ Unused(wants.page)

Stopped ==
    ~Up => /\ latest = durable
           /\ wants = NoCall
           /\ \A f \in FrameIds : frames[f] = Free
           /\ pc = "down" => disk = file

IInv ==
    TypeOK /\ Pool /\ Shape /\ Restored /\ Behind /\ Applying /\ Marks /\ Coherent /\ Fresh
      /\ Stopped
-----------------------------------------------------------------------------
(* Facts about the greatest of a set, and about logs.                      *)

\* The constants as numbers.
LEMMA Sizes ==
    MaxPage \in Nat /\ MaxPage >= 1 /\ NFrames \in Nat /\ NFrames >= 1
  BY PageCacheAssumption

\* A set of numbers that has a bound has a greatest element, which Max chooses.
LEMMA MaxOfBounded ==
    ASSUME CountingFacts, NEW S \in SUBSET Nat, S # {}, NEW m \in Nat, \A x \in S : x <= m
    PROVE  Max(S) \in S /\ \A x \in S : x <= Max(S)
  BY Zenon DEF CountingFacts, MaxFact

\* An element that no other exceeds is the greatest.
LEMMA MaxIs ==
    ASSUME CountingFacts, NEW S \in SUBSET Nat, NEW n \in S, \A x \in S : x <= n
    PROVE  Max(S) = n
  <1>1. n \in Nat
    BY Zenon
  <1>2. Max(S) \in S /\ \A x \in S : x <= Max(S)
    BY <1>1, MaxOfBounded, Zenon
  <1>3. Max(S) <= n /\ n <= Max(S) /\ Max(S) \in Nat
    BY <1>2, Zenon
  <1> QED
    BY <1>1, <1>3

\* Recovery takes the log up to its last marker, whatever is torn behind it.
LEMMA CommittedCut ==
    ASSUME CountingFacts, NEW log \in Seq(Record \cup {Marker, Torn}), NEW n, CutAt(log, n)
    PROVE  CommittedOps(log) = SubSeq(log, 1, n)
  <1> DEFINE R == ReachedIndices(log)
             c == Cardinality(R)
             ops == Replay(log)
             commits == {i \in DOMAIN ops : ops[i] = Marker}
  <1>1. n \in Nat /\ n <= Len(log) /\ Len(log) \in Nat
    BY DEF CutAt
  <1>2. R \in SUBSET (1..Len(log))
    BY DEF ReachedIndices
  <1>3. 1..n \in SUBSET R
    BY <1>1 DEF CutAt, ReachedIndices, Reached
  <1>4. c \in n..Len(log)
    BY <1>1, <1>2, <1>3 DEF CountingFacts, CountFact
  <1>5. /\ ops = SubSeq(log, 1, c)
        /\ Len(ops) = c
        /\ DOMAIN ops = 1..c
        /\ \A i \in 1..c : ops[i] = log[i]
    BY <1>1, <1>4 DEF Replay
  <1>6. CASE n = 0
    <2>1. commits = {}
      BY <1>4, <1>5, <1>6 DEF CutAt
    <2> QED
      BY <1>6, <2>1 DEF CommittedOps
  <1>7. CASE n # 0
    <2>1. n \in commits /\ \A i \in commits : i <= n
      BY <1>1, <1>4, <1>5, <1>7 DEF CutAt
    <2>2. Max(commits) = n
      <3>1. commits \in SUBSET Nat
        BY <1>5
      <3> HIDE DEF commits
      <3> QED
        BY <2>1, <3>1, MaxIs, Zenon
    <2>3. CommittedOps(log) = SubSeq(ops, 1, n)
      BY <2>1, <2>2, Zenon DEF CommittedOps
    <2>4. SubSeq(ops, 1, n) = SubSeq(log, 1, n)
      BY <1>1, <1>4, <1>5
    <2> QED
      BY <2>3, <2>4, Zenon
  <1> QED
    BY <1>6, <1>7, Zenon

\* The images of a log's first n records for a page.
Carries(log, n, p) == {i \in 1..n : log[i] # Marker /\ log[i].page = p}

\* What recovery makes of a log in terms of its committed part.
LEMMA CommittedWrites ==
    ASSUME CountingFacts, NEW log \in Seq(Record \cup {Marker, Torn}), NEW n, CutAt(log, n),
           NEW p, NEW old
    PROVE  /\ WritesOf(CommittedOps(log), p) = Carries(log, n, p)
           /\ Carries(log, n, p) = {} => RedoneBlock(old, CommittedOps(log), p) = old
           /\ Carries(log, n, p) # {} =>
                /\ Max(Carries(log, n, p)) \in Carries(log, n, p)
                /\ \A i \in Carries(log, n, p) : i <= Max(Carries(log, n, p))
                /\ RedoneBlock(old, CommittedOps(log), p) = log[Max(Carries(log, n, p))].image
  <1> DEFINE ops == CommittedOps(log)
             C == Carries(log, n, p)
  <1>1. n \in 0..Len(log) /\ Len(log) \in Nat
    BY DEF CutAt
  <1>2. ops = SubSeq(log, 1, n)
    BY CommittedCut, Zenon
  <1>3. DOMAIN ops = 1..n /\ \A i \in 1..n : ops[i] = log[i]
    BY <1>1, <1>2
  <1>4. WritesOf(ops, p) = C
    BY <1>3, Zenon DEF WritesOf, Carries
  <1>5. C \in SUBSET Nat /\ C \in SUBSET (1..n) /\ \A i \in C : i <= n
    BY <1>1 DEF Carries
  <1> HIDE DEF C, ops
  <1>6. C # {} => Max(C) \in C /\ \A i \in C : i <= Max(C)
    <2>1. n \in Nat
      BY <1>1
    <2> QED
      BY <1>5, <2>1, MaxOfBounded, Zenon
  <1>7. RedoneBlock(old, ops, p) = IF C = {} THEN old ELSE ops[Max(C)].image
    BY <1>4, Zenon DEF RedoneBlock
  <1>8. C # {} => ops[Max(C)] = log[Max(C)]
    BY <1>3, <1>5, <1>6, Zenon
  <1> QED
    BY <1>4, <1>6, <1>7, <1>8, Zenon DEF C, ops

\* Logs cut at the same place, alike up to it, commit the same.
LEMMA SameCommitted ==
    ASSUME CountingFacts,
           NEW a \in Seq(Record \cup {Marker, Torn}), NEW b \in Seq(Record \cup {Marker, Torn}),
           NEW n, CutAt(a, n), CutAt(b, n), \A i \in 1..n : a[i] = b[i]
    PROVE  CommittedOps(a) = CommittedOps(b)
  <1>1. SubSeq(a, 1, n) = SubSeq(b, 1, n)
    BY DEF CutAt
  <1> QED
    BY <1>1, CommittedCut, Zenon

\* An empty log commits nothing.
LEMMA EmptyLog ==
    ASSUME CountingFacts
    PROVE  /\ <<>> \in Seq(Record \cup {Marker, Torn})
           /\ CutAt(<<>>, 0)
           /\ CutAt(<<>>, Len(<<>>))
           /\ \A p : WritesOf(CommittedOps(<<>>), p) = {}
  <1>1. <<>> \in Seq(Record \cup {Marker, Torn}) /\ CutAt(<<>>, 0) /\ CutAt(<<>>, Len(<<>>))
    BY DEF CutAt
  <1>2. \A p : Carries(<<>>, 0, p) = {}
    BY DEF Carries
  <1> QED
    BY <1>1, <1>2, CommittedWrites, Zenon

\* A flush logs an image of every dirty frame, and no other.
LEMMA OrderCovers ==
    ASSUME CountingFacts, TypeOK, NEW order \in FrameOrder
    PROVE  /\ Images(order) \in Seq(Record)
           /\ \A i \in 1..Len(Images(order)) : \E f \in DirtyFrames : Images(order)[i] = ImageOf(f)
           /\ \A f \in DirtyFrames : \E i \in 1..Len(Images(order)) : Images(order)[i] = ImageOf(f)
  <1> DEFINE D == DirtyFrames
             c == Cardinality(D)
  <1>1. D \in SUBSET (1..NFrames) /\ \A f \in D : f \in Nat
    BY DEF DirtyFrames, FrameIds
  <1>2. IsFiniteSet(D)
    <2>1. NFrames \in Nat
      BY Sizes, Zenon
    <2> QED
      BY <1>1, <2>1, Zenon DEF CountingFacts, CountFact
  <1>3. c \in Nat
    <2>1. NFrames \in Nat
      BY Sizes, Zenon
    <2> QED
      BY <1>1, <2>1 DEF CountingFacts, CountFact
  <1>4. order \in [1..c -> D] /\ \A i, j \in 1..c : i < j => order[i] < order[j]
    BY Zenon DEF FrameOrder
  <1>5. \A i \in 1..c : order[i] \in Nat
    <2> HIDE DEF D, c
    <2>1. \A i \in 1..c : order[i] \in D
      BY <1>4, Zenon
    <2> QED
      BY <1>1, <2>1, Zenon
  <1>6. \A i, j \in 1..c : order[i] = order[j] => i = j
    BY <1>3, <1>4, <1>5
  <1>7. \A f \in D : \E i \in 1..c : order[i] = f
    BY <1>2, <1>4, <1>6, Zenon DEF CountingFacts, ListFact
  <1>8. \A f \in D : ImageOf(f) \in Record
    BY DEF TypeOK, DirtyFrames, ImageOf, Record, Frame, Pages
  <1>9. Images(order) = [i \in 1..c |-> ImageOf(order[i])]
    BY <1>4, Zenon DEF Images
  <1> HIDE DEF D, c
  <1>10. Images(order) \in Seq(Record) /\ Len(Images(order)) = c
    BY <1>3, <1>4, <1>8, <1>9
  <1>11. \A i \in 1..c : order[i] \in D /\ Images(order)[i] = ImageOf(order[i])
    BY <1>4, <1>9, Zenon
  <1>12. /\ \A i \in 1..c : \E f \in D : Images(order)[i] = ImageOf(f)
         /\ \A f \in D : \E i \in 1..c : Images(order)[i] = ImageOf(f)
    BY <1>7, <1>11, Zenon
  <1> QED
    BY <1>10, <1>12, Zenon DEF D

\* No record looks like a marker or a torn frame.
LEMMA NotMarks ==
    Torn # Marker /\ Torn \notin Record /\ Marker \notin Record
  <1>1. Record \subseteq [page : Nat, image : Nat]
    BY DEF Record, Pages
  <1> QED
    BY <1>1, PageCacheAssumption, Zenon

\* Records and a torn frame behind a log commit nothing.
LEMMA Trailing ==
    ASSUME CountingFacts, NEW log \in Seq(Record \cup {Marker, Torn}), NEW n, CutAt(log, n),
           NEW tail \in Seq(Record \cup {Torn})
    PROVE  /\ log \o tail \in Seq(Record \cup {Marker, Torn})
           /\ CutAt(log \o tail, n)
           /\ CommittedOps(log \o tail) = CommittedOps(log)
  <1> DEFINE all == log \o tail
  <1>1. n \in 0..Len(log) /\ Len(log) \in Nat /\ Len(tail) \in Nat
    BY DEF CutAt
  <1>2. all \in Seq(Record \cup {Marker, Torn}) /\ Len(all) = Len(log) + Len(tail)
    OBVIOUS
  <1>3. \A i \in 1..Len(log) : all[i] = log[i]
    OBVIOUS
  <1>4. \A i \in (Len(log) + 1)..Len(all) : all[i] \in Record \cup {Torn}
    OBVIOUS
  <1> HIDE DEF all
  <1>5. CutAt(all, n)
    <2>1. n = 0 \/ all[n] = Marker
      BY <1>1, <1>3 DEF CutAt
    <2>2. \A i \in 1..n : all[i] # Torn
      BY <1>1, <1>3 DEF CutAt
    <2>3. ASSUME NEW i \in (n + 1)..Len(all) PROVE all[i] # Marker
      <3>1. CASE i <= Len(log)
        BY <1>1, <1>2, <1>3, <3>1 DEF CutAt
      <3>2. CASE i > Len(log)
        <4>1. all[i] \in Record \cup {Torn}
          BY <1>1, <1>2, <1>4, <3>2
        <4> QED
          BY <4>1, NotMarks, Zenon
      <3> QED
        BY <1>1, <1>2, <3>1, <3>2
    <2> QED
      BY <1>1, <1>2, <2>1, <2>2, <2>3 DEF CutAt
  <1>6. CommittedOps(all) = CommittedOps(log)
    BY <1>1, <1>2, <1>3, <1>5, SameCommitted
  <1> QED
    BY <1>2, <1>5, <1>6, Zenon DEF all

\* Whatever a crash leaves of the journal commits what the journal does, or is nothing
\* after a sync.
LEMMA CrashLogs ==
    ASSUME CountingFacts, TypeOK, Shape, NEW j \in JournalOutcomes
    PROVE  /\ j \in Seq(Record \cup {Marker, Torn})
           /\ \E n \in 0..Len(j) : CutAt(j, n)
           /\ \/ CommittedOps(j) = CommittedOps(journal)
              \/ pc \in {"truncate", "discard"} /\ j = <<>>
  <1>1. journal \in Seq(Record \cup {Marker, Torn})
    BY Zenon DEF TypeOK
  <1>2. PICK n \in 0..Len(journal) : CutAt(journal, n)
    BY Zenon DEF Shape
  <1>3. ASSUME NEW tail \in Seq(Record \cup {Torn}), j = journal \o tail
        PROVE  /\ j \in Seq(Record \cup {Marker, Torn})
               /\ \E m \in 0..Len(j) : CutAt(j, m)
               /\ CommittedOps(j) = CommittedOps(journal)
    <2>1. /\ j \in Seq(Record \cup {Marker, Torn})
          /\ CutAt(j, n)
          /\ CommittedOps(j) = CommittedOps(journal)
      BY <1>1, <1>2, <1>3, Trailing, Zenon
    <2>2. n \in 0..Len(j)
      BY <2>1, Zenon DEF CutAt
    <2> QED
      BY <2>1, <2>2, Zenon
  <1>4. CASE j = journal
    BY <1>1, <1>2, <1>4, Zenon
  <1>5. CASE pc = "log"
    <2>1. PICK order \in FrameOrder :
            \/ \E k \in 0..Len(Images(order)) : j = journal \o SubSeq(Images(order), 1, k)
            \/ \E k \in 0..(Len(Images(order)) - 1) :
                  j = Append(journal \o SubSeq(Images(order), 1, k), Torn)
      BY <1>5, Zenon DEF JournalOutcomes
    <2> DEFINE X == Images(order)
    <2>2. X \in Seq(Record) /\ Len(X) \in Nat
      BY OrderCovers
    <2> HIDE DEF X
    <2>3. \A k \in 0..Len(X) : SubSeq(X, 1, k) \in Seq(Record \cup {Torn})
      BY <2>2
    <2>4. CASE \E k \in 0..Len(X) : j = journal \o SubSeq(X, 1, k)
      BY <1>3, <2>3, <2>4, Zenon
    <2>5. CASE \E k \in 0..(Len(X) - 1) : j = Append(journal \o SubSeq(X, 1, k), Torn)
      <3>1. PICK k \in 0..(Len(X) - 1) : j = Append(journal \o SubSeq(X, 1, k), Torn)
        BY <2>5, Zenon
      <3> DEFINE tail == SubSeq(X, 1, k)
      <3>2. tail \in Seq(Record \cup {Torn})
        BY <2>2, <2>3
      <3> HIDE DEF tail
      <3>3. Append(tail, Torn) \in Seq(Record \cup {Torn})
        BY <3>2
      <3>4. Append(journal \o tail, Torn) = journal \o Append(tail, Torn)
        BY <1>1, <3>2
      <3> QED
        BY <1>3, <3>1, <3>3, <3>4, Zenon DEF tail
    <2> QED
      BY <2>1, <2>4, <2>5, Zenon DEF X
  <1>6. CASE pc = "commit"
    <2>1. j = journal \/ j = Append(journal, Torn)
      BY <1>6, Zenon DEF JournalOutcomes
    <2>2. <<Torn>> \in Seq(Record \cup {Torn}) /\ Append(journal, Torn) = journal \o <<Torn>>
      BY <1>1
    <2> QED
      BY <1>3, <1>4, <2>1, <2>2, Zenon
  <1>7. CASE pc \in {"truncate", "discard"}
    <2>1. j = journal \/ j = <<>>
      BY <1>7, Zenon DEF JournalOutcomes
    <2>2. CASE j = <<>>
      BY <1>7, <2>2, EmptyLog
    <2> QED
      BY <1>4, <2>1, <2>2, Zenon
  <1>8. CASE pc \notin {"log", "commit", "truncate", "discard"}
    <2>1. j = journal
      BY <1>8, Zenon DEF JournalOutcomes
    <2> QED
      BY <1>4, <2>1, Zenon
  <1> QED
    BY <1>5, <1>6, <1>7, <1>8, Zenon

\* What a crash leaves of a block is redone to the last commit.
LEMMA CrashBlocks ==
    ASSUME CountingFacts, TypeOK, Shape, Restored, Behind,
           NEW j \in JournalOutcomes, NEW p \in Pages, NEW b \in OutcomesOf(p)
    PROVE  LET ops == CommittedOps(j)
           IN  /\ b \in Nat \cup {Torn}
               /\ WritesOf(ops, p) = {} => b = durable[p]
               /\ WritesOf(ops, p) # {} => /\ ops = CommittedOps(journal)
                                           /\ RedoneBlock(0, ops, p) = durable[p]
  <1> DEFINE ops == CommittedOps(j)
  <1>1. b \in {file[p], disk[p], Torn} /\ (file[p] = disk[p] => b = file[p])
    BY Zenon DEF OutcomesOf, Unsynced
  <1>2. b \in Nat \cup {Torn}
    BY <1>1, Zenon DEF TypeOK
  <1>3. CASE ops = CommittedOps(journal)
    BY <1>1, <1>2, <1>3, Zenon DEF Restored, Writes
  <1>4. CASE pc \in {"truncate", "discard"} /\ j = <<>>
    <2>1. WritesOf(ops, p) = {}
      BY <1>4, EmptyLog, Zenon
    <2>2. file[p] = durable[p] /\ disk[p] = durable[p]
      BY <1>4, Zenon DEF Behind
    <2> QED
      BY <1>1, <1>2, <2>1, <2>2, Zenon
  <1> QED
    BY <1>3, <1>4, CrashLogs, Zenon

\* What FlushAtomic says, from the conjuncts of the invariant it needs.
LEMMA FlushIsAtomic ==
    ASSUME CountingFacts, TypeOK, Shape, Restored, Behind
    PROVE  FlushAtomic
  <1> SUFFICES ASSUME NEW j \in JournalOutcomes, NEW p \in Pages, NEW b \in OutcomesOf(p)
               PROVE  RedoneBlock(b, CommittedOps(j), p) = durable[p]
    BY Zenon DEF FlushAtomic
  <1>1. CASE WritesOf(CommittedOps(j), p) = {}
    BY <1>1, CrashBlocks, Zenon DEF RedoneBlock
  <1>2. CASE WritesOf(CommittedOps(j), p) # {}
    BY <1>2, CrashBlocks, Zenon DEF RedoneBlock
  <1> QED
    BY <1>1, <1>2, Zenon
-----------------------------------------------------------------------------
(* The invariant holds initially, and every step keeps it.                 *)

\* A new file and an empty journal.
LEMMA InitInv ==
    ASSUME CountingFacts, Init
    PROVE  IInv
  <1>1. journal = <<>> /\ pc = "down" /\ ~Up
    BY Zenon DEF Init, Up
  <1>2. \A p : Writes(p) = {}
    BY <1>1, EmptyLog, Zenon DEF Writes
  <1>3. TypeOK
    <2>1. NFrames \in Nat /\ MaxPage \in Nat /\ MaxPage >= 1
      BY Sizes, Zenon
    <2>2. journal \in Seq(Record \cup {Marker, Torn})
      BY <1>1, EmptyLog, Zenon
    <2>3. frames \in [FrameIds -> Frame]
      BY <2>1 DEF Init, Frame, Free
    <2>4. wants \in Call
      BY <2>1 DEF Init, Call, NoCall
    <2> QED
      BY <2>1, <2>2, <2>3, <2>4 DEF Init, TypeOK, UpSteps, DownSteps
  <1>4. Pool
    BY Zenon DEF Init, Pool, Free
  <1>5. Shape
    BY <1>1, EmptyLog DEF Shape, UpSteps
  <1>6. Restored
    BY <1>2, Zenon DEF Init, Restored
  <1>7. Behind /\ Applying
    BY <1>1, Zenon DEF Behind, Applying
  <1>8. Marks
    BY <1>1 DEF Init, Marks
  <1>9. Coherent
    BY <1>1, Zenon DEF Coherent
  <1>10. Fresh
    BY <1>1, Zenon DEF Init, Fresh, NoCall
  <1>11. Stopped
    BY Zenon DEF Init, Stopped
  <1> QED
    BY <1>3, <1>4, <1>5, <1>6, <1>7, <1>8, <1>9, <1>10, <1>11, Zenon DEF IInv

\* Where recovery sets the next id.
LEMMA NextRedone ==
    ASSUME CountingFacts, IInv, pc = "down"
    PROVE  /\ RedoneNext(super, journal) \in super..mark
           /\ \A p \in Pages : Writes(p) # {} => p < RedoneNext(super, journal)
  <1> DEFINE S == {super} \cup {p + 1 : p \in {q \in Pages : Writes(q) # {}}}
             m == Max(S)
  <1>1. MaxPage \in Nat /\ super \in Nat /\ mark \in Nat
    BY Sizes DEF IInv, TypeOK
  <1>2. S \in SUBSET Nat /\ S # {}
    BY <1>1 DEF Pages
  <1>3. \A x \in S : x <= mark
    BY <1>1 DEF IInv, Marks, Restored, Pages
  <1>4. super \in S /\ \A p \in Pages : Writes(p) # {} => p + 1 \in S
    BY Zenon
  <1>5. RedoneNext(super, journal) = m
    BY Zenon DEF RedoneNext, Writes
  <1> HIDE DEF S
  <1>6. m \in S /\ \A x \in S : x <= m
    BY <1>1, <1>2, <1>3, MaxOfBounded, Zenon
  <1> HIDE DEF m
  <1>7. m \in Nat /\ super <= m /\ m <= mark
    BY <1>2, <1>3, <1>4, <1>6, Zenon
  <1>8. \A p \in Pages : p \in Nat /\ (Writes(p) # {} => p + 1 <= m)
    BY <1>4, <1>6 DEF Pages
  <1> QED
    BY <1>1, <1>5, <1>7, <1>8

\* Redoing the journal brings every block to the last commit.
LEMMA RecoverApplyInv ==
    ASSUME CountingFacts, IInv, RecoverApply, limit' = limit
    PROVE  IInv'
  <1>1. pc = "down" /\ pc' \in {"resync", "discard"} /\ ~Up /\ ~Up'
    BY Zenon DEF RecoverApply, Up
  <1>2. /\ disk' = disk /\ super' = super /\ journal' = journal /\ frames' = frames
        /\ wants' = wants /\ todo' = todo /\ latest' = latest /\ durable' = durable
        /\ mark' = mark /\ stamp' = stamp /\ faults' = faults
    BY Zenon DEF RecoverApply, history, counts
  <1>3. file' = durable
    <2>1. \A p \in Pages : RedoneBlock(file[p], CommittedOps(journal), p) = durable[p]
      BY Zenon DEF IInv, Restored, Writes, RedoneBlock
    <2>2. file' = [p \in Pages |-> durable[p]]
      BY <2>1, Zenon DEF RecoverApply, Redone
    <2> QED
      BY <2>2, Zenon DEF IInv, TypeOK
  <1>4. nextId' \in super..mark /\ \A p \in Pages : Writes(p) # {} => p < nextId'
    BY <1>1, NextRedone, Zenon DEF RecoverApply
  <1>5. \A p : Writes(p)' = Writes(p)
    BY <1>2, Zenon DEF Writes
  <1>6. pc' = "discard" => \A p \in Pages : Writes(p) = {}
    BY DEF RecoverApply, Writes, WritesOf
  <1>7. MaxPage \in Nat
    BY Sizes, Zenon
  <1>8. TypeOK'
    BY <1>1, <1>2, <1>3, <1>4, <1>7 DEF IInv, TypeOK, DownSteps
  <1>9. Pool'
    BY <1>1, <1>2 DEF IInv, Pool, Stopped, Free
  <1>10. Shape'
    <2>1. \E n \in 0..Len(journal) : CutAt(journal, n)
      BY Zenon DEF IInv, Shape
    <2> QED
      BY <1>1, <1>2, <2>1, Zenon DEF Shape, UpSteps
  <1>11. Restored'
    BY <1>2, <1>3, <1>4, <1>5, Zenon DEF IInv, Restored
  <1>12. Behind'
    BY <1>1, <1>2, <1>3, <1>6, Zenon DEF IInv, Behind, Restored
  <1>13. Applying' /\ Coherent'
    BY <1>1, Zenon DEF Applying, Coherent
  <1>14. Marks'
    BY <1>1, <1>2, <1>4, <1>5, <1>6, <1>7 DEF IInv, Marks, TypeOK, Pages
  <1>15. Fresh' /\ Stopped'
    BY <1>1, <1>2 DEF IInv, Fresh, Stopped, NoCall
  <1> QED
    BY <1>8, <1>9, <1>10, <1>11, <1>12, <1>13, <1>14, <1>15, Zenon DEF IInv

\* recover's sync: the redone pages reach the disk.
LEMMA RecoverSyncInv ==
    ASSUME IInv, RecoverSync, limit' = limit
    PROVE  IInv'
  <1>1. pc = "resync" /\ pc' = "discard" /\ ~Up /\ ~Up'
    BY Zenon DEF RecoverSync, Up
  <1>2. /\ disk' = file /\ super' = nextId
        /\ file' = file /\ journal' = journal /\ frames' = frames /\ nextId' = nextId
        /\ wants' = wants /\ todo' = todo /\ latest' = latest /\ durable' = durable
        /\ mark' = mark /\ stamp' = stamp /\ faults' = faults
    BY Zenon DEF RecoverSync, history, counts
  <1>3. \A p : Writes(p)' = Writes(p)
    BY <1>2, Zenon DEF Writes
  <1>4. \A p \in Pages : file[p] = durable[p]
    BY <1>1, Zenon DEF IInv, Behind
  <1>5. MaxPage \in Nat
    BY Sizes, Zenon
  <1>6. nextId \in 1..(MaxPage + 1)
    BY <1>1, <1>5 DEF IInv, TypeOK, Marks
  <1>7. TypeOK'
    BY <1>1, <1>2, <1>6, Zenon DEF IInv, TypeOK, DownSteps
  <1>8. Pool' /\ Applying' /\ Coherent' /\ Fresh' /\ Stopped'
    BY <1>1, <1>2 DEF IInv, Pool, Applying, Coherent, Fresh, Stopped, Free, NoCall
  <1>9. Shape'
    <2>1. \E n \in 0..Len(journal) : CutAt(journal, n)
      BY Zenon DEF IInv, Shape
    <2> QED
      BY <1>1, <1>2, <2>1, Zenon DEF Shape, UpSteps
  <1>10. Restored'
    BY <1>1, <1>2, <1>3, <1>4, Zenon DEF IInv, Restored
  <1>11. Behind'
    BY <1>1, <1>2, <1>4, Zenon DEF Behind
  <1>12. Marks'
    BY <1>1, <1>2, <1>3, <1>6, <1>5 DEF IInv, Marks, TypeOK
  <1> QED
    BY <1>7, <1>8, <1>9, <1>10, <1>11, <1>12, Zenon DEF IInv

\* The end of a recovery: the log is dropped.
LEMMA RecoverTruncateInv ==
    ASSUME CountingFacts, IInv, RecoverTruncate, limit' = limit
    PROVE  IInv'
  <1>1. pc = "discard" /\ pc' = "run" /\ ~Up /\ Up'
    BY Zenon DEF RecoverTruncate, Up
  <1>2. /\ journal' = <<>> /\ frames' = [f \in FrameIds |-> Free]
        /\ file' = file /\ disk' = disk /\ super' = super /\ nextId' = nextId
        /\ wants' = wants /\ todo' = todo /\ latest' = latest /\ durable' = durable
        /\ mark' = mark /\ stamp' = stamp /\ faults' = faults
    BY Zenon DEF RecoverTruncate, blocks, history, counts
  <1>3. frames' = frames /\ latest = durable /\ wants = NoCall
    BY <1>1, <1>2, Zenon DEF IInv, Stopped, TypeOK
  <1>4. \A p : Writes(p)' = {}
    BY <1>2, EmptyLog, Zenon DEF Writes
  <1>5. \A p \in Pages : file[p] = durable[p] /\ disk[p] = durable[p]
    BY <1>1, Zenon DEF IInv, Behind
  <1>6. \A p \in Pages : Resident(p)' = {}
    BY <1>2 DEF Resident, Free, Pages
  <1>7. TypeOK'
    BY <1>1, <1>2, <1>3, EmptyLog, Zenon DEF IInv, TypeOK, UpSteps
  <1>8. Pool'
    BY <1>2, Zenon DEF Pool, Free
  <1>9. Shape'
    BY <1>1, <1>2, EmptyLog DEF Shape
  <1>10. Restored'
    BY <1>2, <1>4, <1>5, Zenon DEF Restored
  <1>11. Behind' /\ Applying'
    BY <1>1, <1>2, <1>5, Zenon DEF Behind, Applying
  <1>12. Marks'
    BY <1>1, <1>2, <1>4, Zenon DEF IInv, Marks
  <1>13. Coherent'
    BY <1>2, <1>3, <1>5, <1>6, Zenon DEF Coherent
  <1>14. Fresh'
    BY <1>1, <1>2, <1>3, <1>6 DEF IInv, Marks, TypeOK, Fresh, Unused, NoCall, Pages
  <1>15. Stopped'
    BY <1>1, Zenon DEF Stopped
  <1> QED
    BY <1>7, <1>8, <1>9, <1>10, <1>11, <1>12, <1>13, <1>14, <1>15, Zenon DEF IInv

\* A crash, at any step: the log and the blocks still give the last commit.
LEMMA CrashInv ==
    ASSUME CountingFacts, IInv, Crash, limit' = limit
    PROVE  IInv'
  <1>1. pc # "down" /\ pc' = "down" /\ ~Up'
    BY Zenon DEF Crash, Up
  <1>2. /\ disk' = file' /\ frames' = [f \in FrameIds |-> Free] /\ nextId' = 0
        /\ wants' = NoCall /\ todo' = {} /\ latest' = durable /\ durable' = durable
        /\ mark' = mark /\ stamp' = stamp /\ faults' = faults + 1
        /\ journal' \in JournalOutcomes
    BY Zenon DEF Crash, Fault
  <1>3. TypeOK /\ Shape /\ Restored /\ Behind /\ Marks
    BY Zenon DEF IInv
  <1>4. file' \in [Pages -> UNION {OutcomesOf(p) : p \in Pages}]
            /\ \A p \in Pages : file'[p] \in OutcomesOf(p)
    BY Zenon DEF Crash, BlockOutcomes
  <1>5. \A p \in Pages :
           /\ file'[p] \in Nat \cup {Torn}
           /\ Writes(p)' = {} => file'[p] = durable[p]
           /\ Writes(p)' # {} => /\ CommittedOps(journal') = CommittedOps(journal)
                                 /\ RedoneBlock(0, CommittedOps(journal'), p) = durable[p]
    BY <1>2, <1>3, <1>4, CrashBlocks, Zenon DEF Writes
  <1>6. /\ journal' \in Seq(Record \cup {Marker, Torn})
        /\ \E n \in 0..Len(journal') : CutAt(journal', n)
        /\ \/ CommittedOps(journal') = CommittedOps(journal)
           \/ pc \in {"truncate", "discard"}
    BY <1>2, <1>3, CrashLogs, Zenon
  <1>7. MaxPage \in Nat /\ MaxPage >= 1
    BY Sizes, Zenon
  <1>8. super' \in 1..(MaxPage + 1) /\ super <= super' /\ super' <= mark
            /\ (pc \in {"truncate", "discard"} => super' = super)
    BY <1>1, <1>3, <1>7 DEF Crash, SuperOutcomes, TypeOK, Marks
  <1>9. TypeOK'
    <2>1. file' \in [Pages -> Nat \cup {Torn}]
      BY <1>4, <1>5, Zenon
    <2>2. frames' \in [FrameIds -> Frame]
      BY <1>2, <1>7 DEF Frame, Free
    <2>3. wants' \in Call
      BY <1>2, <1>7 DEF Call, NoCall
    <2> QED
      BY <1>1, <1>2, <1>3, <1>6, <1>7, <1>8, <2>1, <2>2, <2>3 DEF TypeOK, DownSteps
  <1>10. Pool'
    BY <1>2, Zenon DEF Pool, Free
  <1>11. Shape'
    BY <1>1, <1>6, Zenon DEF Shape, UpSteps
  <1>12. Restored'
    <2>1. \A p \in Pages : Writes(p)' # {} => p < mark
      BY <1>3, <1>5, Zenon DEF Restored, Writes
    <2> QED
      BY <1>1, <1>2, <1>5, <2>1, Zenon DEF Restored, Writes
  <1>13. Behind' /\ Applying' /\ Coherent'
    BY <1>1, Zenon DEF Behind, Applying, Coherent
  <1>14. Marks'
    <2>1. ASSUME NEW p \in Pages, durable[p] # 0, Writes(p)' = {}
          PROVE  p < super'
      <3>1. CASE CommittedOps(journal') = CommittedOps(journal)
        <4>1. p < super
          BY <1>3, <2>1, <3>1, Zenon DEF Marks, Writes
        <4> QED
          BY <1>3, <1>7, <1>8, <4>1 DEF TypeOK, Pages
      <3>2. CASE pc \in {"truncate", "discard"}
        <4>1. p < super
          BY <1>3, <2>1, <3>2, Zenon DEF Marks
        <4> QED
          BY <1>8, <3>2, <4>1, Zenon
      <3> QED
        BY <1>6, <3>1, <3>2, Zenon
    <2> QED
      BY <1>1, <1>2, <1>8, <2>1, Zenon DEF Marks
  <1>15. Fresh' /\ Stopped'
    BY <1>1, <1>2, Zenon DEF Fresh, Stopped, NoCall, Up
  <1> QED
    BY <1>9, <1>10, <1>11, <1>12, <1>13, <1>14, <1>15, Zenon DEF IInv

\* A flush logs its images: nothing is committed yet.
LEMMA FlushLogInv ==
    ASSUME CountingFacts, IInv, FlushLog, limit' = limit
    PROVE  IInv'
  <1>1. pc = "log" /\ pc' = "commit" /\ Up /\ Up'
    BY Zenon DEF FlushLog, Up
  <1>2. /\ file' = file /\ disk' = disk /\ super' = super /\ frames' = frames
        /\ nextId' = nextId /\ wants' = wants /\ todo' = todo /\ latest' = latest
        /\ durable' = durable /\ mark' = mark /\ stamp' = stamp /\ faults' = faults
    BY Zenon DEF FlushLog, blocks, history, counts
  <1>3. PICK order \in FrameOrder : journal' = journal \o Images(order)
    BY Zenon DEF FlushLog
  <1>4. PICK n \in Nat : n = Len(journal) /\ CutAt(journal, n)
    BY <1>1 DEF IInv, TypeOK, Shape, UpSteps
  <1> DEFINE X == Images(order)
  <1>5. /\ X \in Seq(Record) /\ Len(X) \in Nat
        /\ \A i \in 1..Len(X) : \E f \in DirtyFrames : X[i] = ImageOf(f)
        /\ \A f \in DirtyFrames : \E i \in 1..Len(X) : X[i] = ImageOf(f)
    BY OrderCovers DEF IInv
  <1> HIDE DEF X
  <1>6. /\ journal' \in Seq(Record \cup {Marker, Torn})
        /\ CutAt(journal', n)
        /\ CommittedOps(journal') = CommittedOps(journal)
    <2>1. X \in Seq(Record \cup {Torn})
      BY <1>5
    <2> QED
      BY <1>3, <1>4, <2>1, Trailing, Zenon DEF X, IInv, TypeOK
  <1>7. \A p : Writes(p)' = Writes(p)
    BY <1>6, Zenon DEF Writes
  <1>8. LoggedFrom(n)'
    <2>1. /\ Len(journal') = n + Len(X)
          /\ \A i \in 1..Len(X) : journal'[n + i] = X[i]
      BY <1>3, <1>4, <1>5 DEF X, IInv, TypeOK
    <2>2. \A i \in (n + 1)..Len(journal') : i - n \in 1..Len(X) /\ journal'[i] = X[i - n]
      BY <1>4, <1>5, <2>1
    <2>3. \A i \in 1..Len(X) : n + i \in (n + 1)..Len(journal')
      BY <1>4, <1>5, <2>1
    <2>4. DirtyFrames' = DirtyFrames /\ \A f : ImageOf(f)' = ImageOf(f)
      BY <1>2, Zenon DEF DirtyFrames, ImageOf
    <2>5. \A i \in (n + 1)..Len(journal') : \E f \in DirtyFrames : journal'[i] = ImageOf(f)
      BY <1>5, <2>2, Zenon
    <2>6. \A f \in DirtyFrames : \E i \in (n + 1)..Len(journal') : journal'[i] = ImageOf(f)
      BY <1>5, <2>1, <2>3, Zenon
    <2> QED
      BY <2>4, <2>5, <2>6, Zenon DEF LoggedFrom
  <1>9. TypeOK'
    BY <1>1, <1>2, <1>6, Zenon DEF IInv, TypeOK, UpSteps
  <1>10. Pool'
    BY <1>2, Zenon DEF IInv, Pool
  <1>11. Shape'
    <2>1. n \in 0..Len(journal')
      BY <1>6, Zenon DEF CutAt
    <2> QED
      BY <1>1, <1>6, <1>8, <2>1, Zenon DEF Shape
  <1>12. Restored'
    BY <1>1, <1>2, <1>6, <1>7, Zenon DEF IInv, Restored
  <1>13. Behind'
    BY <1>1, <1>2, Zenon DEF IInv, Behind, DirtyFrames
  <1>14. Applying'
    BY <1>1, Zenon DEF Applying
  <1>15. Marks'
    BY <1>1, <1>2, <1>7, Zenon DEF IInv, Marks
  <1>16. Coherent'
    BY <1>1, <1>2 DEF IInv, Coherent, Resident
  <1>17. Fresh'
    BY <1>1, <1>2, Zenon DEF IInv, Fresh, Unused, Resident
  <1>18. Stopped'
    BY <1>1, Zenon DEF Stopped
  <1> QED
    BY <1>9, <1>10, <1>11, <1>12, <1>13, <1>14, <1>15, <1>16, <1>17, <1>18, Zenon DEF IInv

\* The commit point: the images behind the last marker become the pages of the commit.
LEMMA FlushCommitInv ==
    ASSUME CountingFacts, IInv, FlushCommit, limit' = limit
    PROVE  IInv'
  <1>1. pc = "commit" /\ pc' = "apply" /\ Up /\ Up'
    BY Zenon DEF FlushCommit, Up
  <1>2. /\ journal' = Append(journal, Marker) /\ mark' = nextId
        /\ file' = file /\ disk' = disk /\ super' = super /\ frames' = frames
        /\ nextId' = nextId /\ wants' = wants /\ latest' = latest
        /\ stamp' = stamp /\ faults' = faults
        /\ todo' = {frames[f].page : f \in DirtyFrames}
        /\ durable' = [p \in Pages |-> IF \E f \in DirtyFrames : frames[f].page = p
                                       THEN latest[p] ELSE durable[p]]
    BY Zenon DEF FlushCommit, blocks, counts
  <1>3. TypeOK /\ Pool /\ Restored /\ Behind /\ Marks /\ Coherent
    BY Zenon DEF IInv
  <1>4. PICK n \in 0..Len(journal) : CutAt(journal, n) /\ LoggedFrom(n)
    BY <1>1, Zenon DEF IInv, Shape
  <1>5. PICK N \in Nat : N = Len(journal) + 1
    BY <1>3 DEF TypeOK
  <1>6. /\ journal \in Seq(Record \cup {Marker, Torn})
        /\ journal' \in Seq(Record \cup {Marker, Torn})
        /\ Len(journal') = N /\ journal'[N] = Marker
        /\ \A i \in 1..Len(journal) : journal'[i] = journal[i]
    BY <1>2, <1>3, <1>5 DEF TypeOK
  <1>7. \A f \in DirtyFrames :
           /\ ImageOf(f) \in Record
           /\ ImageOf(f).page = frames[f].page /\ ImageOf(f).image = frames[f].buf
           /\ frames[f].page \in Pages
    BY <1>3 DEF TypeOK, DirtyFrames, ImageOf, Record, Frame, Pages
  <1>8. CutAt(journal', N)
    <2>1. ASSUME NEW i \in 1..N PROVE journal'[i] # Torn
      <3>1. CASE i = N
        BY <1>6, <3>1, NotMarks, Zenon
      <3>2. CASE i \in 1..n
        BY <1>4, <1>5, <1>6, <3>2 DEF CutAt
      <3>3. CASE i \in (n + 1)..Len(journal)
        <4>1. journal[i] \in Record
          BY <1>4, <1>7, <3>3, Zenon DEF LoggedFrom
        <4> QED
          BY <1>4, <1>5, <1>6, <3>3, <4>1, NotMarks
      <3> QED
        BY <1>4, <1>5, <3>1, <3>2, <3>3
    <2> QED
      BY <1>5, <1>6, <2>1 DEF CutAt
  <1>9. ASSUME NEW p \in Pages
        PROVE  /\ Writes(p) = Carries(journal, n, p)
               /\ Writes(p)' = Carries(journal', N, p)
               /\ RedoneBlock(0, CommittedOps(journal), p) =
                     IF Writes(p) = {} THEN 0 ELSE journal[Max(Writes(p))].image
               /\ RedoneBlock(0, CommittedOps(journal'), p) =
                     IF Writes(p)' = {} THEN 0 ELSE journal'[Max(Writes(p)')].image
               /\ Writes(p)' # {} => /\ Max(Writes(p)') \in Writes(p)'
                                     /\ \A i \in Writes(p)' : i <= Max(Writes(p)')
    <2>1. journal \in Seq(Record \cup {Marker, Torn}) /\ CutAt(journal, n)
      BY <1>4, <1>6, Zenon
    <2>2. journal' \in Seq(Record \cup {Marker, Torn}) /\ CutAt(journal', N)
      BY <1>6, <1>8, Zenon
    <2>3. /\ WritesOf(CommittedOps(journal), p) = Carries(journal, n, p)
          /\ Carries(journal, n, p) = {} => RedoneBlock(0, CommittedOps(journal), p) = 0
      BY <2>1, CommittedWrites, Zenon
    <2>4. Carries(journal, n, p) # {} =>
              RedoneBlock(0, CommittedOps(journal), p) = journal[Max(Carries(journal, n, p))].image
      BY <2>1, CommittedWrites, Zenon
    <2> DEFINE C == Carries(journal', N, p)
    <2>5. /\ WritesOf(CommittedOps(journal'), p) = Carries(journal', N, p)
          /\ C = {} => RedoneBlock(0, CommittedOps(journal'), p) = 0
      BY <2>2, CommittedWrites, Zenon
    <2>6. C # {} =>
              /\ Max(C) \in C /\ \A i \in C : i <= Max(C)
              /\ RedoneBlock(0, CommittedOps(journal'), p) = journal'[Max(C)].image
      BY <2>2, CommittedWrites, Zenon
    <2> QED
      BY <2>3, <2>4, <2>5, <2>6, Zenon DEF Writes
  \* A page of the flush: its last image is the one just logged.
  <1>10. ASSUME NEW p \in Pages, NEW f \in DirtyFrames, frames[f].page = p
         PROVE  /\ durable'[p] = latest[p]
                /\ frames[f].buf = latest[p]
                /\ Writes(p)' # {}
                /\ RedoneBlock(0, CommittedOps(journal'), p) = durable'[p]
                /\ p < nextId
    <2>1. durable'[p] = latest[p]
      BY <1>2, <1>10, Zenon
    <2>2. f \in FrameIds /\ frames[f].buf = latest[p] /\ p < nextId
      BY <1>1, <1>3, <1>10, Zenon DEF DirtyFrames, Coherent, Resident, Pool
    <2>3. PICK i \in (n + 1)..Len(journal) : journal[i] = ImageOf(f)
      BY <1>4, Zenon DEF LoggedFrom
    <2>4. i \in 1..N /\ journal'[i] = ImageOf(f)
      BY <1>4, <1>5, <1>6, <2>3
    <2>5. i \in Writes(p)'
      BY <1>7, <1>9, <1>10, <2>4, NotMarks DEF Carries
    <2>6. PICK k \in Writes(p)' : k = Max(Writes(p)') /\ i <= k
      BY <1>9, <2>5, Zenon
    <2>7. k \in 1..N /\ journal'[k] # Marker /\ journal'[k].page = p
      BY <1>9, <2>6 DEF Carries
    <2>8. k \in (n + 1)..Len(journal)
      BY <1>4, <1>5, <1>6, <2>3, <2>6, <2>7
    <2>9. PICK g \in DirtyFrames : journal[k] = ImageOf(g)
      BY <1>4, <2>8, Zenon DEF LoggedFrom
    <2>10. journal'[k] = ImageOf(g)
      BY <1>4, <1>6, <2>8, <2>9
    <2>11. frames[g].page = p
      BY <1>7, <2>7, <2>10, Zenon
    <2>12. g = f
      BY <1>3, <1>10, <2>11, Zenon DEF DirtyFrames, Pool, Pages
    <2>13. RedoneBlock(0, CommittedOps(journal'), p) = frames[f].buf
      BY <1>7, <1>9, <2>5, <2>6, <2>10, <2>12, Zenon
    <2> QED
      BY <2>1, <2>2, <2>5, <2>13, Zenon
  \* Any other page: what the log held of it, it holds still.
  <1>11. ASSUME NEW p \in Pages, ~ \E f \in DirtyFrames : frames[f].page = p
         PROVE  /\ durable'[p] = durable[p]
                /\ Writes(p)' = Writes(p)
                /\ RedoneBlock(0, CommittedOps(journal'), p) =
                       RedoneBlock(0, CommittedOps(journal), p)
    <2>1. durable'[p] = durable[p]
      BY <1>2, <1>11, Zenon
    <2>2. \A i \in (n + 1)..Len(journal) : journal[i].page # p
      BY <1>4, <1>7, <1>11 DEF LoggedFrom
    <2>3. Carries(journal', N, p) = Carries(journal, n, p)
      <3>1. \A i : i \in 1..N <=> i \in 1..n \/ i \in (n + 1)..Len(journal) \/ i = N
        BY <1>4, <1>5
      <3>2. \A i \in 1..n : journal'[i] = journal[i]
        BY <1>4, <1>6
      <3>3. \A i \in (n + 1)..Len(journal) : journal'[i] = journal[i]
        BY <1>4, <1>6
      <3> QED
        BY <1>6, <2>2, <3>1, <3>2, <3>3, Zenon DEF Carries
    <2>4. Writes(p)' = Writes(p)
      BY <1>9, <2>3, Zenon
    <2>5. Writes(p) # {} => journal'[Max(Writes(p))] = journal[Max(Writes(p))]
      <3>1. Writes(p) # {} => Max(Writes(p)) \in Writes(p)
        BY <1>9, <2>4, Zenon
      <3> QED
        BY <1>4, <1>6, <1>9, <3>1 DEF Carries
    <2> QED
      BY <1>9, <2>1, <2>4, <2>5, Zenon
  <1>12. TypeOK'
    <2>1. todo' \in SUBSET Pages
      BY <1>2, <1>7, Zenon
    <2>2. durable' \in [Pages -> Nat]
      BY <1>2, <1>3, Zenon DEF TypeOK
    <2>3. mark' \in 1..(MaxPage + 1)
      BY <1>1, <1>2, <1>3, Sizes DEF TypeOK, Marks
    <2> QED
      BY <1>1, <1>2, <1>3, <1>6, <2>1, <2>2, <2>3, Zenon DEF TypeOK, UpSteps
  <1>13. Pool'
    BY <1>2, <1>3, Zenon DEF Pool
  <1>14. Shape'
    BY <1>1, <1>5, <1>6, <1>8 DEF Shape
  <1>15. Restored'
    <2>1. ASSUME NEW p \in Pages
          PROVE  /\ Writes(p)' = {} => file'[p] = durable'[p] /\ disk'[p] = durable'[p]
                 /\ Writes(p)' # {} =>
                      /\ RedoneBlock(0, CommittedOps(journal'), p) = durable'[p]
                      /\ p < mark' /\ p < nextId'
      <3>1. CASE \E f \in DirtyFrames : frames[f].page = p
        BY <1>2, <1>10, <3>1, Zenon
      <3>2. CASE ~ \E f \in DirtyFrames : frames[f].page = p
        BY <1>1, <1>2, <1>3, <1>11, <3>2, Zenon DEF Restored
      <3> QED
        BY <3>1, <3>2, Zenon
    <2> QED
      BY <2>1, Zenon DEF Restored
  <1>16. Behind'
    BY <1>1, <1>2, <1>3, Zenon DEF Behind
  <1>17. Applying'
    <2>1. DirtyFrames' = DirtyFrames
      BY <1>2, Zenon DEF DirtyFrames
    <2>2. ASSUME NEW p \in todo'
          PROVE  /\ Writes(p)' # {}
                 /\ \E f \in DirtyFrames : frames'[f].page = p /\ frames'[f].buf = durable'[p]
      <3>1. PICK f \in DirtyFrames : frames[f].page = p
        BY <1>2, Zenon
      <3>2. p \in Pages
        BY <1>7, <3>1, Zenon
      <3> QED
        BY <1>2, <1>10, <3>1, <3>2
    <2> QED
      BY <2>1, <2>2, Zenon DEF Applying
  <1>18. Marks'
    <2>1. ASSUME NEW p \in Pages, durable'[p] # 0
          PROVE  p < nextId /\ (Writes(p)' = {} => p < super)
      <3>1. CASE \E f \in DirtyFrames : frames[f].page = p
        BY <1>10, <3>1, Zenon
      <3>2. CASE ~ \E f \in DirtyFrames : frames[f].page = p
        BY <1>1, <1>3, <1>11, <2>1, <3>2, Zenon DEF Marks
      <3> QED
        BY <3>1, <3>2, Zenon
    <2> QED
      BY <1>1, <1>2, <1>3, <2>1, Zenon DEF Marks
  <1>19. Coherent'
    BY <1>1, <1>2, <1>3 DEF Coherent, Resident
  <1>20. Fresh'
    BY <1>1, <1>2, Zenon DEF IInv, Fresh, Unused, Resident
  <1>21. Stopped'
    BY <1>1, Zenon DEF Stopped
  <1> QED
    BY <1>12, <1>13, <1>14, <1>15, <1>16, <1>17, <1>18, <1>19, <1>20, <1>21, Zenon DEF IInv

\* A flush writes a page through: the log has it, so the block may tear.
LEMMA FlushWriteInv ==
    ASSUME IInv, NEW f \in FrameIds, FlushWrite(f), limit' = limit
    PROVE  IInv'
  <1> DEFINE page == frames[f].page
  <1>1. pc = "apply" /\ pc' \in {"apply", "sync"} /\ (pc' = "sync" => todo' = {}) /\ Up /\ Up'
    BY Zenon DEF FlushWrite, Up
  <1>2. /\ disk' = disk /\ super' = super /\ journal' = journal /\ nextId' = nextId
        /\ wants' = wants /\ latest' = latest /\ durable' = durable /\ mark' = mark
        /\ stamp' = stamp /\ faults' = faults
        /\ page \in todo
        /\ file' = [file EXCEPT ![page] = frames[f].buf]
        /\ frames' = [frames EXCEPT ![f].dirty = FALSE]
        /\ todo' = todo \ {page}
    BY Zenon DEF FlushWrite, NextToWrite, history, counts
  <1>3. TypeOK /\ Pool /\ Restored /\ Behind /\ Applying /\ Marks /\ Coherent
    BY Zenon DEF IInv
  <1>4. /\ frames' \in [FrameIds -> Frame]
        /\ \A g \in FrameIds :
              /\ frames'[g].page = frames[g].page /\ frames'[g].buf = frames[g].buf
              /\ frames'[g].readers = frames[g].readers /\ frames'[g].writer = frames[g].writer
              /\ frames'[g].dirty = (frames[g].dirty /\ g # f)
              /\ g # f => frames'[g] = frames[g]
    BY <1>2, <1>3 DEF TypeOK, Frame
  <1>5. page \in Pages /\ page # 0
    BY <1>2, <1>3 DEF TypeOK, Pages
  <1>6. frames[f].buf = durable[page] /\ frames[f].buf \in Nat /\ Writes(page) # {}
    <2>1. PICK g \in DirtyFrames : frames[g].page = page /\ frames[g].buf = durable[page]
      BY <1>1, <1>2, <1>3, Zenon DEF Applying
    <2>2. g = f
      BY <1>3, <1>5, <2>1, Zenon DEF Pool, DirtyFrames
    <2> QED
      BY <1>1, <1>2, <1>3, <2>1, <2>2, Zenon DEF Applying, TypeOK
  <1>7. /\ file' \in [Pages -> Nat \cup {Torn}]
        /\ file'[page] = durable[page]
        /\ \A p \in Pages : p # page => file'[p] = file[p]
    BY <1>2, <1>3, <1>5, <1>6, Zenon DEF TypeOK
  <1>8. \A p : Writes(p)' = Writes(p)
    BY <1>2, Zenon DEF Writes
  <1> HIDE DEF page
  <1>9. TypeOK'
    BY <1>1, <1>2, <1>3, <1>4, <1>7, Zenon DEF TypeOK, UpSteps
  <1>10. Pool'
    <2>1. \A g \in FrameIds : frames'[g].page = 0 => frames'[g] = Free
      BY <1>3, <1>4, <1>5 DEF Pool, page
    <2> QED
      BY <1>2, <1>3, <1>4, <2>1 DEF Pool
  <1>11. Shape'
    <2>1. CutAt(journal, Len(journal))
      BY <1>1, Zenon DEF IInv, Shape, UpSteps
    <2>2. Len(journal) \in Nat
      BY <1>3 DEF TypeOK
    <2> QED
      BY <1>1, <1>2, <2>1, <2>2 DEF Shape
  <1>12. Restored'
    BY <1>1, <1>2, <1>3, <1>5, <1>6, <1>7, <1>8, Zenon DEF Restored
  <1>13. \A p \in Pages : file'[p] = durable[p] \/ p \in todo'
    BY <1>1, <1>2, <1>3, <1>7, Zenon DEF Behind
  <1>14. Behind'
    BY <1>1, <1>2, <1>13, Zenon DEF Behind
  <1>15. Applying'
    <2>1. ASSUME NEW p \in todo'
          PROVE  /\ Writes(p)' # {}
                 /\ \E g \in DirtyFrames' : frames'[g].page = p /\ frames'[g].buf = durable'[p]
      <3>1. p \in todo /\ p # page
        BY <1>2, <2>1, Zenon
      <3>2. Writes(p) # {}
        BY <1>1, <1>3, <3>1, Zenon DEF Applying
      <3>3. PICK g \in DirtyFrames : frames[g].page = p /\ frames[g].buf = durable[p]
        BY <1>1, <1>3, <3>1, Zenon DEF Applying
      <3>4. g \in FrameIds /\ g # f
        BY <3>1, <3>3, Zenon DEF DirtyFrames, page
      <3>5. g \in DirtyFrames'
        BY <1>4, <3>3, <3>4, Zenon DEF DirtyFrames
      <3> QED
        BY <1>2, <1>4, <1>8, <3>2, <3>3, <3>4, <3>5, Zenon
    <2> QED
      BY <2>1, Zenon DEF Applying
  <1>16. Marks'
    BY <1>1, <1>2, <1>3, <1>8, Zenon DEF Marks
  <1>17. \A p : Resident(p)' = Resident(p)
    BY <1>4, Zenon DEF Resident
  <1>18. Coherent'
    <2>1. \A g \in FrameIds, p \in Pages :
             g \in Resident(p) =>
                /\ frames'[g].buf = latest[p]
                /\ frames'[g].dirty \/ frames'[g].writer \/ frames'[g].buf = file'[p]
      <3> SUFFICES ASSUME NEW g \in FrameIds, NEW p \in Pages, g \in Resident(p)
                   PROVE  /\ frames'[g].buf = latest[p]
                          /\ frames'[g].dirty \/ frames'[g].writer \/ frames'[g].buf = file'[p]
        BY Zenon
      <3>1. /\ frames[g].buf = latest[p] /\ frames[g].page = p
            /\ frames[g].dirty \/ frames[g].writer \/ frames[g].buf = file[p]
        BY <1>1, <1>3, Zenon DEF Coherent, Resident
      <3>2. CASE g = f
        BY <1>4, <1>6, <1>7, <3>1, <3>2, Zenon DEF page
      <3>3. CASE g # f
        <4>1. p # page
          BY <1>3, <1>5, <3>1, <3>3, Zenon DEF Pool, page
        <4> QED
          BY <1>4, <1>7, <3>1, <3>3, <4>1, Zenon
      <3> QED
        BY <3>2, <3>3, Zenon
    <2>2. \A p \in Pages : Resident(p) = {} => p # page
      BY Zenon DEF Resident, page
    <2>3. \A p \in Pages : Resident(p) \subseteq FrameIds
      BY Zenon DEF Resident
    <2> QED
      BY <1>1, <1>2, <1>3, <1>7, <1>17, <2>1, <2>2, <2>3 DEF Coherent
  <1>19. Fresh'
    BY <1>1, <1>2, <1>17, Zenon DEF IInv, Fresh, Unused
  <1>20. Stopped'
    BY <1>1, Zenon DEF Stopped
  <1> QED
    BY <1>9, <1>10, <1>11, <1>12, <1>14, <1>15, <1>16, <1>18, <1>19, <1>20, Zenon DEF IInv

\* A step of a flush that leaves the frames as they are, and the blocks of all pages
\* but dirty ones.
LEMMA SamePool ==
    ASSUME IInv, Up, Up', UNCHANGED <<frames, nextId, latest>>, wants' \in {wants, NoCall},
           \A p \in Pages : file'[p] = file[p] \/ \E f \in DirtyFrames : frames[f].page = p
    PROVE  Pool' /\ Coherent' /\ Fresh' /\ Stopped'
  <1>1. \A p : Resident(p)' = Resident(p) /\ (Unused(p)' <=> Unused(p))
    BY Zenon DEF Resident, Unused
  <1>2. Pool'
    BY Zenon DEF IInv, Pool
  <1>3. Coherent'
    <2> SUFFICES ASSUME NEW p \in Pages
                 PROVE  /\ \A f, g \in Resident(p) : f = g
                        /\ Resident(p) = {} => file'[p] = latest[p]
                        /\ \A f \in Resident(p) :
                              /\ frames[f].buf = latest[p]
                              /\ frames[f].dirty \/ frames[f].writer \/ frames[f].buf = file'[p]
      BY <1>1, Zenon DEF Coherent
    <2>1. /\ \A f, g \in Resident(p) : f = g
          /\ Resident(p) = {} => file[p] = latest[p]
          /\ \A f \in Resident(p) :
                /\ frames[f].buf = latest[p]
                /\ frames[f].dirty \/ frames[f].writer \/ frames[f].buf = file[p]
      BY Zenon DEF IInv, Coherent
    <2>2. CASE file'[p] = file[p]
      BY <2>1, <2>2, Zenon
    <2>3. CASE \E f \in DirtyFrames : frames[f].page = p
      <3>1. PICK f \in DirtyFrames : frames[f].page = p
        BY <2>3, Zenon
      <3>2. f \in Resident(p) /\ frames[f].dirty
        BY <3>1, Zenon DEF Resident, DirtyFrames
      <3> QED
        BY <2>1, <3>2, Zenon
    <2> QED
      BY <2>2, <2>3, Zenon
  <1>4. Fresh'
    BY <1>1 DEF IInv, Fresh, NoCall
  <1>5. Stopped'
    BY Zenon DEF Stopped
  <1> QED
    BY <1>2, <1>3, <1>4, <1>5, Zenon

\* A flush's sync.
LEMMA FlushSyncInv ==
    ASSUME IInv, FlushSync, limit' = limit
    PROVE  IInv'
  <1>1. pc = "sync" /\ pc' = "truncate" /\ Up /\ Up'
    BY Zenon DEF FlushSync, Up
  <1>2. /\ disk' = file /\ super' = nextId
        /\ file' = file /\ journal' = journal /\ frames' = frames /\ nextId' = nextId
        /\ wants' = wants /\ todo' = todo /\ latest' = latest /\ durable' = durable
        /\ mark' = mark /\ stamp' = stamp /\ faults' = faults
    BY Zenon DEF FlushSync, history, counts
  <1>3. \A p : Writes(p)' = Writes(p)
    BY <1>2, Zenon DEF Writes
  <1>4. \A p \in Pages : file[p] = durable[p]
    BY <1>1, Zenon DEF IInv, Behind
  <1>5. nextId \in 1..(MaxPage + 1)
    BY <1>1, Sizes, Zenon DEF IInv, TypeOK, Marks
  <1>6. TypeOK'
    BY <1>1, <1>2, <1>5, Zenon DEF IInv, TypeOK, UpSteps
  <1>7. Pool' /\ Coherent' /\ Fresh' /\ Stopped'
    BY <1>1, <1>2, SamePool, Zenon
  <1>8. Shape'
    <2>1. CutAt(journal, Len(journal)) /\ Len(journal) \in Nat
      BY <1>1 DEF IInv, Shape, UpSteps, TypeOK
    <2> QED
      BY <1>1, <1>2, <2>1 DEF Shape
  <1>9. Restored'
    BY <1>1, <1>2, <1>3, <1>4, Zenon DEF IInv, Restored
  <1>10. Behind' /\ Applying'
    BY <1>1, <1>2, <1>4, Zenon DEF Behind, Applying
  <1>11. Marks'
    BY <1>1, <1>2, <1>3, <1>5, Sizes DEF IInv, Marks, TypeOK
  <1> QED
    BY <1>6, <1>7, <1>8, <1>9, <1>10, <1>11, Zenon DEF IInv

\* A flush drops the log: every page of it is on disk.
LEMMA FlushTruncateInv ==
    ASSUME CountingFacts, IInv, FlushTruncate, limit' = limit
    PROVE  IInv'
  <1>1. pc = "truncate" /\ pc' = "run" /\ Up /\ Up'
    BY Zenon DEF FlushTruncate, Up
  <1>2. /\ journal' = <<>> /\ file' = file /\ disk' = disk /\ super' = super
        /\ frames' = frames /\ nextId' = nextId /\ wants' = wants /\ todo' = todo
        /\ latest' = latest /\ durable' = durable /\ mark' = mark
        /\ stamp' = stamp /\ faults' = faults
    BY Zenon DEF FlushTruncate, blocks, history, counts
  <1>3. \A p : Writes(p)' = {}
    BY <1>2, EmptyLog, Zenon DEF Writes
  <1>4. \A p \in Pages : file[p] = durable[p] /\ disk[p] = durable[p]
    BY <1>1, Zenon DEF IInv, Behind
  <1>5. TypeOK'
    BY <1>1, <1>2, EmptyLog, Zenon DEF IInv, TypeOK, UpSteps
  <1>6. Pool' /\ Coherent' /\ Fresh' /\ Stopped'
    BY <1>1, <1>2, SamePool, Zenon
  <1>7. Shape'
    BY <1>1, <1>2, EmptyLog DEF Shape
  <1>8. Restored'
    BY <1>2, <1>3, <1>4, Zenon DEF Restored
  <1>9. Behind' /\ Applying'
    BY <1>1, <1>2, <1>4, Zenon DEF Behind, Applying
  <1>10. Marks'
    BY <1>1, <1>2, <1>3, Zenon DEF IInv, Marks
  <1> QED
    BY <1>5, <1>6, <1>7, <1>8, <1>9, <1>10, Zenon DEF IInv

\* A flush that gives up leaves its pages dirty or written, and the log as it was
\* unless every page of it is on disk.
LEMMA FlushFailsInv ==
    ASSUME CountingFacts, IInv, FlushFails, limit' = limit
    PROVE  IInv'
  <1>1. pc \in {"apply", "sync", "truncate"} /\ pc' = "run" /\ Up /\ Up'
    BY Zenon DEF FlushFails, Up
  <1>2. /\ wants' = NoCall /\ todo' = {}
        /\ disk' = disk /\ frames' = frames /\ nextId' = nextId /\ latest' = latest
        /\ durable' = durable /\ mark' = mark /\ stamp' = stamp /\ faults' = faults + 1
    BY Zenon DEF FlushFails, Fault, history
  <1>3. \/ journal' = journal /\ \A p : Writes(p)' = Writes(p)
        \/ /\ pc = "truncate" /\ journal' = <<>> /\ \A p : Writes(p)' = {}
           /\ \A p \in Pages : file[p] = durable[p] /\ disk[p] = durable[p]
    <2>1. CASE journal' = journal
      BY <2>1, Zenon DEF Writes
    <2>2. CASE pc = "truncate" /\ journal' = <<>>
      BY <2>2, EmptyLog, Zenon DEF Writes, IInv, Behind
    <2> QED
      BY <2>1, <2>2, Zenon DEF FlushFails
  <1>4. /\ file' \in [Pages -> Nat \cup {Torn}]
        /\ \A p \in Pages : file'[p] = file[p] \/ (pc = "apply" /\ p \in todo)
    <2>1. CASE file' = file
      BY <2>1, Zenon DEF IInv, TypeOK
    <2>2. CASE pc = "apply" /\ \E f \in FrameIds :
                   NextToWrite(f) /\ file' = [file EXCEPT ![frames[f].page] = Torn]
      <3>1. PICK f \in FrameIds :
                   NextToWrite(f) /\ file' = [file EXCEPT ![frames[f].page] = Torn]
        BY <2>2, Zenon
      <3> QED
        BY <2>2, <3>1, Zenon DEF NextToWrite, IInv, TypeOK
    <2> QED
      BY <2>1, <2>2, Zenon DEF FlushFails
  <1>5. \A p \in Pages : pc = "apply" /\ p \in todo =>
            Writes(p) # {} /\ \E f \in DirtyFrames : frames[f].page = p
    BY Zenon DEF IInv, Applying
  <1>6. super' \in 1..(MaxPage + 1) /\ super <= super' /\ super' <= nextId /\ nextId = mark
    <2>1. /\ super \in 1..(MaxPage + 1) /\ nextId \in 0..(MaxPage + 1) /\ MaxPage \in Nat
          /\ super <= nextId /\ nextId = mark
      BY <1>1, Sizes, Zenon DEF IInv, TypeOK, Marks
    <2>2. super' = super \/ super' = nextId
      BY Zenon DEF FlushFails, SuperOutcomes
    <2> QED
      BY <2>1, <2>2
  <1>7. TypeOK'
    <2>1. wants' \in Call
      BY <1>2, Sizes DEF Call, NoCall
    <2>2. journal' \in Seq(Record \cup {Marker, Torn})
      BY <1>3, EmptyLog, Zenon DEF IInv, TypeOK
    <2> QED
      BY <1>1, <1>2, <1>4, <1>6, <2>1, <2>2 DEF IInv, TypeOK, UpSteps
  <1>8. Pool' /\ Coherent' /\ Fresh' /\ Stopped'
    BY <1>1, <1>2, <1>4, <1>5, SamePool, Zenon
  <1>9. Shape'
    <2>1. CutAt(journal, Len(journal)) /\ Len(journal) \in Nat
      BY <1>1 DEF IInv, Shape, UpSteps, TypeOK
    <2>2. CASE journal' = journal
      BY <1>1, <2>1, <2>2 DEF Shape
    <2>3. CASE journal' = <<>>
      BY <1>1, <2>3, EmptyLog DEF Shape
    <2> QED
      BY <1>3, <2>2, <2>3, Zenon
  <1>10. Restored'
    <2>1. CASE journal' = journal /\ \A p : Writes(p)' = Writes(p)
      BY <1>1, <1>2, <1>4, <1>5, <2>1, Zenon DEF IInv, Restored
    <2>2. CASE /\ pc = "truncate" /\ \A p : Writes(p)' = {}
               /\ \A p \in Pages : file[p] = durable[p] /\ disk[p] = durable[p]
      <3>1. \A p \in Pages : file'[p] = file[p]
        BY <1>4, <2>2
      <3> QED
        BY <1>2, <2>2, <3>1, Zenon DEF Restored
    <2> QED
      BY <1>3, <2>1, <2>2, Zenon
  <1>11. Behind'
    <2>1. DirtyFrames' = DirtyFrames
      BY <1>2, Zenon DEF DirtyFrames
    <2>2. \A p \in Pages : file'[p] = durable[p] \/ \E f \in DirtyFrames : frames[f].page = p
      BY <1>1, <1>4, <1>5 DEF IInv, Behind
    <2> QED
      BY <1>1, <1>2, <2>1, <2>2, Zenon DEF Behind
  <1>12. Applying'
    BY <1>1, Zenon DEF Applying
  <1>13. Marks'
    <2>1. super \in Nat /\ super' \in Nat /\ nextId \in Nat /\ \A p \in Pages : p \in Nat
      BY <1>6, Sizes DEF IInv, TypeOK, Pages
    <2>2. CASE \A p : Writes(p)' = Writes(p)
      BY <1>1, <1>2, <1>6, <2>1, <2>2 DEF IInv, Marks
    <2>3. CASE pc = "truncate"
      <3>1. super' = super /\ super = nextId /\ \A p \in Pages : durable[p] # 0 => p < nextId
        BY <2>3, Zenon DEF FlushFails, SuperOutcomes, IInv, Marks
      <3> QED
        BY <1>1, <1>2, <1>6, <2>1, <3>1 DEF Marks
    <2> QED
      BY <1>3, <2>2, <2>3, Zenon
  <1> QED
    BY <1>7, <1>8, <1>9, <1>10, <1>11, <1>12, <1>13, Zenon DEF IInv

-----------------------------------------------------------------------------
(* The steps of the clients' calls.                                        *)

\* The numbers of the state, and their bounds.
LEMMA Numbers ==
    ASSUME IInv
    PROVE  /\ MaxPage \in Nat /\ MaxPage >= 1 /\ stamp \in Nat /\ faults \in Nat
           /\ nextId \in Nat /\ nextId <= MaxPage + 1
           /\ super \in Nat /\ super >= 1 /\ super <= MaxPage + 1
           /\ mark \in Nat /\ mark >= 1 /\ mark <= MaxPage + 1
  BY Sizes DEF IInv, TypeOK

\* A client's call leaves what recovery depends on alone, as long as dirty pages stay.
LEMMA CallsKeepDisk ==
    ASSUME IInv, UNCHANGED <<blocks, journal, durable, mark>>,
           pc = "run", pc' \in {"run", "log"}, nextId' \in nextId..(MaxPage + 1),
           \A f \in DirtyFrames : \E g \in DirtyFrames' : frames'[g].page = frames[f].page
    PROVE  Up /\ Up' /\ Shape' /\ Restored' /\ Behind' /\ Applying' /\ Marks' /\ Stopped'
  <1>1. Up /\ Up'
    BY Zenon DEF Up
  <1>2. /\ file' = file /\ disk' = disk /\ super' = super /\ journal' = journal
        /\ durable' = durable /\ mark' = mark
    BY Zenon DEF blocks
  <1>3. \A p : Writes(p)' = Writes(p)
    BY <1>2, Zenon DEF Writes
  <1>4. MaxPage \in Nat /\ nextId \in Nat /\ nextId' \in Nat /\ nextId <= nextId'
            /\ super \in Nat /\ super <= nextId
    BY Numbers DEF IInv, Marks
  <1>5. Shape'
    <2>1. CutAt(journal, Len(journal)) /\ Len(journal) \in Nat
      BY DEF IInv, Shape, UpSteps, TypeOK
    <2> QED
      BY <1>2, <2>1 DEF Shape
  <1>6. \A p \in Pages : p \in Nat /\ (p < nextId => p < nextId')
    BY <1>4 DEF Pages
  <1>7. Restored'
    BY <1>2, <1>3, <1>6, Zenon DEF IInv, Restored
  <1>8. Behind'
    <2>1. \A p \in Pages : file[p] = durable[p] \/ \E f \in DirtyFrames : frames[f].page = p
      BY Zenon DEF IInv, Behind
    <2>2. \A p \in Pages :
              file'[p] = durable'[p] \/ \E f \in DirtyFrames' : frames'[f].page = p
      BY <1>2, <2>1
    <2> QED
      BY <2>2, Zenon DEF Behind
  <1>9. Applying' /\ Stopped'
    BY <1>1, Zenon DEF Applying, Stopped
  <1>10. Marks'
    BY <1>2, <1>3, <1>4, <1>6 DEF IInv, Marks
  <1> QED
    BY <1>1, <1>5, <1>7, <1>8, <1>9, <1>10, Zenon

\* A flush is asked for, by a client or to make room for a call.
LEMMA StartFlushInv ==
    ASSUME IInv, limit' = limit, pc = "run", pc' = "log",
           UNCHANGED <<blocks, journal, frames, todo, history, counts>>,
           \/ nextId' = nextId /\ wants' \in Call /\ wants'.op # "allocate"
           \/ /\ nextId <= MaxPage /\ nextId' = nextId + 1
              /\ wants' = [op |-> "allocate", page |-> nextId]
    PROVE  IInv'
  <1>1. /\ file' = file /\ disk' = disk /\ super' = super /\ journal' = journal
        /\ frames' = frames /\ todo' = todo /\ latest' = latest /\ durable' = durable
        /\ mark' = mark /\ stamp' = stamp /\ faults' = faults
    BY Zenon DEF blocks, history, counts
  <1>2. MaxPage \in Nat /\ nextId \in 1..(MaxPage + 1) /\ nextId' \in nextId..(MaxPage + 1)
    BY Numbers DEF IInv, Marks
  <1>3. DirtyFrames' = DirtyFrames /\ \A p : Resident(p)' = Resident(p)
    BY <1>1, Zenon DEF DirtyFrames, Resident
  <1>4. Up /\ Up' /\ Shape' /\ Restored' /\ Behind' /\ Applying' /\ Marks' /\ Stopped'
    BY <1>1, <1>2, <1>3, CallsKeepDisk, Zenon DEF blocks
  <1>5. wants' \in Call
    BY <1>2 DEF Call
  <1>6. TypeOK'
    BY <1>1, <1>2, <1>5 DEF IInv, TypeOK, UpSteps
  <1>7. Pool'
    BY <1>1, <1>2 DEF IInv, Pool, TypeOK, Frame
  <1>8. Coherent'
    BY <1>1, <1>3, <1>4, Zenon DEF IInv, Coherent
  <1>9. Fresh'
    <2>1. \A p \in Pages : p >= nextId => Unused(p)
      BY <1>4, Zenon DEF IInv, Fresh
    <2>2. \A p \in Pages : p >= nextId' => Unused(p)'
      BY <1>1, <1>2, <1>3, <2>1 DEF Unused, Pages
    <2>3. wants'.op = "allocate" =>
             wants'.page \in Pages /\ wants'.page < nextId' /\ Unused(wants'.page)
      BY <1>2, <2>1 DEF Pages
    <2>4. \A p : Unused(p)' <=> Unused(p)
      BY <1>1, <1>3, Zenon DEF Unused
    <2> QED
      BY <2>2, <2>3, <2>4, Zenon DEF Fresh, Unused
  <1> QED
    BY <1>4, <1>6, <1>7, <1>8, <1>9, Zenon DEF IInv

\* Taking or dropping a handle: the frame keeps its page and bytes, and becomes clean never.
LEMMA HandleInv ==
    ASSUME IInv, limit' = limit, pc = "run", pc' = "run", wants = NoCall, wants' = wants,
           UNCHANGED <<blocks, journal, nextId, todo, history, counts>>,
           NEW f \in FrameIds, frames[f].page # 0,
           NEW X \in Frame, frames' = [frames EXCEPT ![f] = X],
           X.page = frames[f].page, X.buf = frames[f].buf, frames[f].dirty => X.dirty,
           X.writer => X.readers = 0,
           frames[f].writer => X.writer \/ X.dirty
    PROVE  IInv'
  <1>1. /\ file' = file /\ disk' = disk /\ super' = super /\ journal' = journal
        /\ nextId' = nextId /\ todo' = todo /\ latest' = latest /\ durable' = durable
        /\ mark' = mark /\ stamp' = stamp /\ faults' = faults
    BY Zenon DEF blocks, history, counts
  <1>2. /\ frames' \in [FrameIds -> Frame] /\ frames'[f] = X
        /\ \A g \in FrameIds : g # f => frames'[g] = frames[g]
    BY Zenon DEF IInv, TypeOK
  <1>3. nextId' \in nextId..(MaxPage + 1)
    BY <1>1, Numbers
  <1>4. \A g \in FrameIds :
          /\ frames'[g].page = frames[g].page /\ frames'[g].buf = frames[g].buf
          /\ frames[g].dirty => frames'[g].dirty
          /\ frames[g].writer => frames'[g].writer \/ frames'[g].dirty
    BY <1>2, Zenon
  <1>5. \A p : Resident(p)' = Resident(p)
    BY <1>4, Zenon DEF Resident
  <1>6. DirtyFrames \subseteq DirtyFrames'
    BY <1>4, Zenon DEF DirtyFrames
  <1>7. \A g \in DirtyFrames : \E h \in DirtyFrames' : frames'[h].page = frames[g].page
    BY <1>4, <1>6, Zenon DEF DirtyFrames
  <1>8. Up /\ Up' /\ Shape' /\ Restored' /\ Behind' /\ Applying' /\ Marks' /\ Stopped'
    BY <1>1, <1>3, <1>7, CallsKeepDisk, Zenon DEF blocks
  <1>9. TypeOK'
    BY <1>1, <1>2, Zenon DEF IInv, TypeOK, UpSteps
  <1>10. Pool'
    BY <1>1, <1>2, <1>4 DEF IInv, Pool
  <1>11. Coherent'
    <2>1. \A p : \A g \in Resident(p) : g \in FrameIds
      BY Zenon DEF Resident
    <2> QED
      BY <1>1, <1>4, <1>5, <1>8, <2>1 DEF IInv, Coherent
  <1>12. Fresh'
    BY <1>1, <1>5, <1>8, Zenon DEF IInv, Fresh, Unused, NoCall
  <1> QED
    BY <1>8, <1>9, <1>10, <1>11, <1>12, Zenon DEF IInv

\* A client asks for a flush.
LEMMA FlushInv ==
    ASSUME IInv, Flush, limit' = limit
    PROVE  IInv'
  <1>1. wants' \in Call /\ wants'.op # "allocate"
    BY Sizes DEF Flush, StartFlush, NoCall, Call
  <1> QED
    BY <1>1, StartFlushInv, Zenon DEF Flush, StartFlush

\* A miss finds no clean victim and flushes first.
LEMMA AcquireFlushInv ==
    ASSUME IInv, NEW op \in Ops, NEW p \in Pages, AcquireFlush(op, p), limit' = limit
    PROVE  IInv'
  <1>1. wants' \in Call /\ wants'.op # "allocate"
    BY Sizes DEF AcquireFlush, MakeRoom, StartFlush, Call, Ops, Pages
  <1> QED
    BY <1>1, StartFlushInv, Zenon DEF AcquireFlush, MakeRoom, StartFlush

\* The same for allocate.
LEMMA AllocateFlushInv ==
    ASSUME IInv, AllocateFlush, limit' = limit
    PROVE  IInv'
  BY StartFlushInv, Zenon DEF AllocateFlush, MakeRoom, StartFlush

\* A free frame is a frame.
LEMMA FreeFrame ==
    /\ Free \in Frame
    /\ Free.page = 0 /\ Free.readers = 0 /\ Free.writer = FALSE /\ Free.dirty = FALSE
  BY Sizes DEF Free, Frame

\* Pinning changes the pins of a frame only.
LEMMA PinFrame ==
    ASSUME NEW F \in Frame, NEW op \in {"read", "write"}
    PROVE  /\ Pin(F, op) \in Frame
           /\ Pin(F, op).page = F.page /\ Pin(F, op).buf = F.buf /\ Pin(F, op).dirty = F.dirty
           /\ Pin(F, op).writer = (F.writer \/ op = "write")
           /\ op = "write" => Pin(F, op).readers = F.readers
  <1>1. CASE op = "read"
    BY <1>1 DEF Pin, Frame
  <1>2. CASE op = "write"
    BY <1>2, Zenon DEF Pin, Frame
  <1> QED
    BY <1>1, <1>2, Zenon

\* A hit pins the frame.
LEMMA AcquireHitInv ==
    ASSUME IInv, NEW op \in Ops, NEW p \in Pages, AcquireHit(op, p), limit' = limit
    PROVE  IInv'
  <1>1. PICK f \in Resident(p) :
           /\ ~frames[f].writer
           /\ op = "write" => frames[f].readers = 0
           /\ frames' = [frames EXCEPT ![f] = Pin(frames[f], op)]
    BY Zenon DEF AcquireHit
  <1>2. f \in FrameIds /\ frames[f].page # 0 /\ op \in {"read", "write"} /\ frames[f] \in Frame
    BY DEF Resident, Pages, Ops, IInv, TypeOK
  <1> DEFINE X == Pin(frames[f], op)
  <1>3. /\ X \in Frame /\ X.page = frames[f].page /\ X.buf = frames[f].buf
        /\ frames[f].dirty => X.dirty
        /\ X.writer => X.readers = 0
    <2>1. /\ X \in Frame /\ X.page = frames[f].page /\ X.buf = frames[f].buf
          /\ X.dirty = frames[f].dirty
          /\ X.writer = (frames[f].writer \/ op = "write")
          /\ op = "write" => X.readers = frames[f].readers
      BY <1>2, PinFrame
    <2> HIDE DEF X
    <2> QED
      BY <1>1, <2>1, Zenon
  <1> HIDE DEF X
  <1>4. frames' = [frames EXCEPT ![f] = X]
    BY <1>1, Zenon DEF X
  <1>5. /\ pc = "run" /\ pc' = "run" /\ wants = NoCall /\ wants' = wants
        /\ UNCHANGED <<blocks, journal, nextId, todo, history, counts>>
    BY Zenon DEF AcquireHit
  <1> QED
    BY <1>1, <1>2, <1>3, <1>4, <1>5, HandleInv, Zenon

\* A read handle is dropped.
LEMMA ReleaseReadInv ==
    ASSUME IInv, NEW f \in FrameIds, ReleaseRead(f), limit' = limit
    PROVE  IInv'
  <1> DEFINE X == [frames[f] EXCEPT !.readers = @ - 1]
  <1>1. frames[f] \in Frame /\ frames[f].readers > 0 /\ frames' = [frames EXCEPT ![f] = X]
    BY Zenon DEF ReleaseRead, IInv, TypeOK
  <1>2. frames[f].page # 0 /\ (frames[f].writer => frames[f].readers = 0)
    BY <1>1 DEF IInv, Pool, Free
  <1>3. /\ X \in Frame /\ X.page = frames[f].page /\ X.buf = frames[f].buf
        /\ X.dirty = frames[f].dirty /\ X.writer = frames[f].writer
        /\ X.writer => X.readers = 0
    BY <1>1, <1>2 DEF Frame
  <1> HIDE DEF X
  <1>4. /\ pc = "run" /\ pc' = "run" /\ wants = NoCall /\ wants' = wants
        /\ UNCHANGED <<blocks, journal, nextId, todo, history, counts>>
    BY Zenon DEF ReleaseRead
  <1> QED
    BY <1>1, <1>2, <1>3, <1>4, HandleInv, Zenon

\* A write handle is dropped: its frame is dirty from then on.
LEMMA ReleaseWriteInv ==
    ASSUME IInv, NEW f \in FrameIds, ReleaseWrite(f), limit' = limit
    PROVE  IInv'
  <1> DEFINE X == [frames[f] EXCEPT !.writer = FALSE, !.dirty = TRUE]
  <1>1. frames[f] \in Frame /\ frames[f].writer /\ frames' = [frames EXCEPT ![f] = X]
    BY Zenon DEF ReleaseWrite, IInv, TypeOK
  <1>2. frames[f].page # 0
    BY <1>1 DEF IInv, Pool, Free
  <1>3. X \in Frame /\ X.page = frames[f].page /\ X.buf = frames[f].buf /\ X.dirty /\ ~X.writer
    BY <1>1, Zenon DEF Frame
  <1> HIDE DEF X
  <1>4. /\ pc = "run" /\ pc' = "run" /\ wants = NoCall /\ wants' = wants
        /\ UNCHANGED <<blocks, journal, nextId, todo, history, counts>>
    BY Zenon DEF ReleaseWrite
  <1> QED
    BY <1>1, <1>2, <1>3, <1>4, HandleInv, Zenon

\* allocate takes an id and finds every frame pinned.
LEMMA AllocateExhaustedInv ==
    ASSUME IInv, AllocateExhausted, limit' = limit
    PROVE  IInv'
  <1>1. /\ pc = "run" /\ pc' = "run" /\ nextId <= MaxPage /\ nextId' = nextId + 1
        /\ wants = NoCall /\ wants' = wants
        /\ file' = file /\ disk' = disk /\ super' = super /\ journal' = journal
        /\ frames' = frames /\ todo' = todo /\ latest' = latest /\ durable' = durable
        /\ mark' = mark /\ stamp' = stamp /\ faults' = faults
    BY Zenon DEF AllocateExhausted, blocks, history, counts
  <1>2. MaxPage \in Nat /\ nextId \in Nat /\ nextId' \in nextId..(MaxPage + 1)
    BY <1>1, Numbers
  <1>3. DirtyFrames' = DirtyFrames /\ \A p : Resident(p)' = Resident(p)
    BY <1>1, Zenon DEF DirtyFrames, Resident
  <1>4. Up /\ Up' /\ Shape' /\ Restored' /\ Behind' /\ Applying' /\ Marks' /\ Stopped'
    BY <1>1, <1>2, <1>3, CallsKeepDisk, Zenon DEF blocks
  <1>5. TypeOK'
    BY <1>1, <1>2 DEF IInv, TypeOK, UpSteps
  <1>6. Pool'
    BY <1>1, <1>2 DEF IInv, Pool, TypeOK, Frame
  <1>7. Coherent'
    BY <1>1, <1>3, <1>4, Zenon DEF IInv, Coherent
  <1>8. Fresh'
    BY <1>1, <1>2, <1>3, <1>4 DEF IInv, Fresh, Unused, NoCall, Pages
  <1> QED
    BY <1>4, <1>5, <1>6, <1>7, <1>8, Zenon DEF IInv

\* A write through a handle: the frame has the newest version, and is not clean.
LEMMA ModifyInv ==
    ASSUME IInv, NEW f \in FrameIds, Modify(f), limit' = limit
    PROVE  IInv'
  <1> DEFINE page == frames[f].page
  <1>1. /\ pc = "run" /\ pc' = "run" /\ wants = NoCall /\ wants' = wants
        /\ frames[f].writer /\ stamp' = stamp + 1
        /\ frames' = [frames EXCEPT ![f].buf = stamp + 1]
        /\ latest' = [latest EXCEPT ![page] = stamp + 1]
        /\ file' = file /\ disk' = disk /\ super' = super /\ journal' = journal
        /\ nextId' = nextId /\ todo' = todo /\ durable' = durable
        /\ mark' = mark /\ faults' = faults
    BY Zenon DEF Modify, blocks
  <1>2. frames[f] \in Frame /\ page # 0 /\ page \in Pages /\ page < nextId /\ stamp \in Nat
    BY <1>1 DEF IInv, Pool, Free, TypeOK, Frame, Pages
  <1>3. /\ frames' \in [FrameIds -> Frame]
        /\ frames'[f].buf = stamp + 1
        /\ \A g \in FrameIds :
              /\ frames'[g].page = frames[g].page /\ frames'[g].dirty = frames[g].dirty
              /\ frames'[g].readers = frames[g].readers /\ frames'[g].writer = frames[g].writer
              /\ g # f => frames'[g] = frames[g]
    <2> DEFINE X == [frames[f] EXCEPT !.buf = stamp + 1]
    <2>1. frames' = [frames EXCEPT ![f] = X] /\ frames \in [FrameIds -> Frame]
      BY <1>1, Zenon DEF IInv, TypeOK
    <2>2. /\ X \in Frame /\ X.page = frames[f].page /\ X.buf = stamp + 1
          /\ X.dirty = frames[f].dirty /\ X.readers = frames[f].readers
          /\ X.writer = frames[f].writer
      BY <1>2 DEF Frame
    <2> HIDE DEF X
    <2> QED
      BY <2>1, <2>2, Zenon
  <1>4. /\ latest' \in [Pages -> Nat] /\ latest'[page] = stamp + 1
        /\ \A p \in Pages : p # page => latest'[p] = latest[p]
    BY <1>1, <1>2 DEF IInv, TypeOK
  <1> HIDE DEF page
  <1>5. DirtyFrames' = DirtyFrames /\ \A p : Resident(p)' = Resident(p)
    BY <1>3, Zenon DEF DirtyFrames, Resident
  <1>6. nextId' \in nextId..(MaxPage + 1)
    BY <1>1, Numbers
  <1>7. \A g \in DirtyFrames : frames'[g].page = frames[g].page
    BY <1>3, Zenon DEF DirtyFrames
  <1>8. Up /\ Up' /\ Shape' /\ Restored' /\ Behind' /\ Applying' /\ Marks' /\ Stopped'
    BY <1>1, <1>5, <1>6, <1>7, CallsKeepDisk, Zenon DEF blocks
  <1>9. TypeOK'
    BY <1>1, <1>2, <1>3, <1>4, Zenon DEF IInv, TypeOK, UpSteps
  <1>10. Pool'
    <2>1. \A g \in FrameIds : frames'[g].page # 0 => frames'[g].buf # 0
      BY <1>2, <1>3 DEF IInv, Pool
    <2>2. \A g \in FrameIds : frames'[g].page = 0 => frames'[g] = Free
      BY <1>2, <1>3, Zenon DEF IInv, Pool, page
    <2> QED
      BY <1>1, <1>3, <2>1, <2>2 DEF IInv, Pool
  <1>11. Coherent'
    <2>1. f \in Resident(page)
      BY Zenon DEF Resident, page
    <2>2. \A p \in Pages : p # page => f \notin Resident(p)
      BY Zenon DEF Resident, page
    <2>3. \A p \in Pages : Resident(p) \subseteq FrameIds
      BY Zenon DEF Resident
    <2> SUFFICES ASSUME NEW p \in Pages
                 PROVE  /\ \A g, h \in Resident(p) : g = h
                        /\ Resident(p) = {} => file[p] = latest'[p]
                        /\ \A g \in Resident(p) :
                              /\ frames'[g].buf = latest'[p]
                              /\ \/ frames'[g].dirty \/ frames'[g].writer
                                 \/ frames'[g].buf = file[p]
      BY <1>1, <1>5 DEF Coherent
    <2>4. /\ \A g, h \in Resident(p) : g = h
          /\ Resident(p) = {} => file[p] = latest[p]
          /\ \A g \in Resident(p) :
                /\ frames[g].buf = latest[p]
                /\ frames[g].dirty \/ frames[g].writer \/ frames[g].buf = file[p]
      BY <1>8, Zenon DEF IInv, Coherent
    <2>5. CASE p = page
      <3>1. \A g \in Resident(p) : g = f
        BY <2>1, <2>4, <2>5, Zenon
      <3> QED
        BY <1>1, <1>3, <1>4, <2>1, <2>4, <2>5, <3>1
    <2>6. CASE p # page
      BY <1>3, <1>4, <2>2, <2>3, <2>4, <2>6
    <2> QED
      BY <2>5, <2>6, Zenon
  <1>12. Fresh'
    BY <1>1, <1>2, <1>4, <1>5, <1>8 DEF IInv, Fresh, Unused, NoCall, Pages, TypeOK
  <1> QED
    BY <1>8, <1>9, <1>10, <1>11, <1>12, Zenon DEF IInv

\* victim_frame picks an unpinned clean frame.
LEMMA VictimIsClean ==
    ASSUME IInv, NEW f \in Victims
    PROVE  f \in FrameIds /\ ~frames[f].dirty /\ ~frames[f].writer /\ frames[f].readers = 0
  <1>1. CASE FreeFrames # {}
    <2>1. f \in FrameIds /\ frames[f].page = 0
      BY <1>1, Zenon DEF Victims, FreeFrames
    <2>2. frames[f] = Free
      BY <2>1, Zenon DEF IInv, Pool
    <2> QED
      BY <2>1, <2>2 DEF Free
  <1>2. CASE FreeFrames = {}
    BY <1>2 DEF Victims, CleanVictims, Pinned, IInv, TypeOK, Frame
  <1> QED
    BY <1>1, <1>2, Zenon

\* A victim is replaced: its page, if it had one, is in the block file as it was.
LEMMA ReplaceInv ==
    ASSUME IInv, limit' = limit, pc = "run", pc' = "run", wants' = NoCall,
           UNCHANGED <<blocks, journal, todo, durable, mark>>, stamp' \in Nat, faults' \in Nat,
           nextId' \in nextId..(MaxPage + 1),
           NEW f \in Victims, NEW X \in Frame, frames' = [frames EXCEPT ![f] = X],
           NEW p \in Pages, Resident(p) = {},
           latest' \in [Pages -> Nat], \A q \in Pages : q # p => latest'[q] = latest[q],
           \/ X = Free /\ latest'[p] = latest[p]
           \/ /\ X.page = p /\ p < nextId'
              /\ X.buf = latest'[p] /\ X.buf # 0
              /\ X.writer => X.readers = 0
              /\ X.dirty \/ X.writer \/ X.buf = file[p]
    PROVE  IInv'
  <1>1. /\ file' = file /\ disk' = disk /\ super' = super /\ journal' = journal
        /\ todo' = todo /\ durable' = durable /\ mark' = mark
    BY Zenon DEF blocks
  <1>2. f \in FrameIds /\ ~frames[f].dirty /\ ~frames[f].writer /\ frames[f].readers = 0
    BY VictimIsClean, Zenon
  <1>3. /\ frames' \in [FrameIds -> Frame] /\ frames'[f] = X
        /\ \A g \in FrameIds : g # f => frames'[g] = frames[g]
    BY <1>2, Zenon DEF IInv, TypeOK
  <1>4. DirtyFrames \subseteq DirtyFrames'
    BY <1>2, <1>3, Zenon DEF DirtyFrames
  <1>5. \A g \in DirtyFrames : \E h \in DirtyFrames' : frames'[h].page = frames[g].page
    BY <1>2, <1>3, <1>4, Zenon DEF DirtyFrames
  <1>6. Up /\ Up' /\ Shape' /\ Restored' /\ Behind' /\ Applying' /\ Marks' /\ Stopped'
    BY <1>1, <1>5, CallsKeepDisk, Zenon DEF blocks
  <1>7. MaxPage \in Nat /\ nextId \in Nat /\ nextId' \in Nat /\ nextId <= nextId'
            /\ nextId' <= MaxPage + 1
    BY Numbers
  <1>8. X.page \in {0, p} /\ (X.page = 0 => X = Free) /\ p # 0
    BY DEF Free, Pages
  <1>9. \A g \in FrameIds : frames[g].page # p
    BY Zenon DEF Resident
  <1>10. TypeOK'
    <2>1. wants' \in Call
      BY <1>7 DEF Call, NoCall
    <2> QED
      BY <1>1, <1>3, <1>7, <2>1 DEF IInv, TypeOK, UpSteps
  <1>11. Pool'
    <2>1. \A g, h \in FrameIds :
             frames'[g].page = frames'[h].page /\ frames'[g].page # 0 => g = h
      BY <1>3, <1>8, <1>9 DEF IInv, Pool
    <2>2. \A g \in FrameIds : g # f =>
             /\ frames'[g].page = 0 => frames'[g] = Free
             /\ frames'[g].page # 0 => frames'[g].page < nextId' /\ frames'[g].buf # 0
             /\ frames'[g].writer => frames'[g].readers = 0
      <3>1. \A g \in FrameIds : frames[g].page \in Nat
        BY DEF IInv, TypeOK, Frame
      <3> QED
        BY <1>3, <1>7, <3>1 DEF IInv, Pool
    <2>3. /\ X.page = 0 => X = Free
          /\ X.page # 0 => X.page < nextId' /\ X.buf # 0
          /\ X.writer => X.readers = 0
      BY <1>8 DEF Free
    <2> QED
      BY <1>3, <2>1, <2>2, <2>3, Zenon DEF Pool
  <1>12. Coherent'
    <2> SUFFICES ASSUME NEW q \in Pages
                 PROVE  /\ \A g, h \in Resident(q)' : g = h
                        /\ Resident(q)' = {} => file[q] = latest'[q]
                        /\ \A g \in Resident(q)' :
                              /\ frames'[g].buf = latest'[q]
                              /\ \/ frames'[g].dirty \/ frames'[g].writer
                                 \/ frames'[g].buf = file[q]
      BY <1>1, Zenon DEF Coherent
    <2>1. /\ \A g, h \in Resident(q) : g = h
          /\ Resident(q) = {} => file[q] = latest[q]
          /\ \A g \in Resident(q) :
                /\ frames[g].buf = latest[q]
                /\ frames[g].dirty \/ frames[g].writer \/ frames[g].buf = file[q]
      BY <1>6, Zenon DEF IInv, Coherent
    <2>2. CASE q = p
      <3>1. CASE X.page = p
        <4>1. Resident(q)' = {f}
          BY <1>2, <1>3, <1>9, <2>2, <3>1, Zenon DEF Resident
        <4>2. X # Free
          BY <1>8, <3>1 DEF Free
        <4> QED
          BY <1>3, <2>2, <4>1, <4>2, Zenon
      <3>2. CASE X.page # p
        <4>1. Resident(q)' = {}
          BY <1>3, <1>9, <2>2, <3>2, Zenon DEF Resident
        <4> QED
          BY <2>1, <2>2, <3>2, <4>1, Zenon
      <3> QED
        BY <3>1, <3>2, Zenon
    <2>3. CASE q # p
      <3>1. X.page # q
        BY <1>8, <2>3 DEF Pages
      <3>2. Resident(q)' = Resident(q) \ {f}
        BY <1>2, <1>3, <3>1, Zenon DEF Resident
      <3>3. CASE f \in Resident(q)
        <4>1. Resident(q)' = {}
          BY <2>1, <3>2, <3>3, Zenon
        <4>2. file[q] = latest[q]
          BY <1>2, <2>1, <3>3, Zenon
        <4> QED
          BY <2>3, <4>1, <4>2, Zenon
      <3>4. CASE f \notin Resident(q)
        <4>1. \A g \in Resident(q) : frames'[g] = frames[g]
          BY <1>3, <3>4, Zenon DEF Resident
        <4> QED
          BY <2>1, <2>3, <3>2, <3>4, <4>1
      <3> QED
        BY <3>3, <3>4, Zenon
    <2> QED
      BY <2>2, <2>3, Zenon
  <1>13. Fresh'
    <2>1. ASSUME NEW q \in Pages, q >= nextId' PROVE Unused(q)'
      <3>1. Unused(q)
        BY <1>6, <1>7, <2>1 DEF IInv, Fresh, Pages
      <3>2. X.page # q /\ (q = p => latest'[p] = latest[p])
        <4>1. p \in Nat /\ q \in Nat /\ q # 0
          BY DEF Pages
        <4>2. X.page = p /\ p < nextId' => q # p
          BY <1>7, <2>1, <4>1
        <4>3. X = Free => X.page # q
          BY <4>1 DEF Free
        <4> QED
          BY <4>2, <4>3, Zenon
      <3> QED
        BY <1>3, <3>1, <3>2, Zenon DEF Unused, Resident
    <2> QED
      BY <2>1, Zenon DEF Fresh, NoCall
  <1> QED
    BY <1>6, <1>10, <1>11, <1>12, <1>13, Zenon DEF IInv

\* A miss replaces a victim by the block that was asked for, or frees it.
LEMMA AcquireMissInv ==
    ASSUME IInv, NEW op \in Ops, NEW p \in Pages, AcquireMiss(op, p), limit' = limit
    PROVE  IInv'
  <1> DEFINE L == [Free EXCEPT !.page = p, !.buf = file[p]]
             X == IF file[p] \in {0, Torn} THEN Free ELSE Pin(L, op)
  <1>1. /\ pc = "run" /\ pc' = "run" /\ wants' = NoCall /\ Resident(p) = {}
        /\ UNCHANGED <<blocks, journal, nextId, todo, history, counts>>
    BY Zenon DEF AcquireMiss, Turn
  <1>2. PICK f \in Victims : frames' = [frames EXCEPT ![f] = X]
    BY Zenon DEF AcquireMiss
  <1>3. MaxPage \in Nat /\ op \in {"read", "write"} /\ Free \in Frame
    BY Sizes, FreeFrame, Zenon DEF Ops
  <1>4. file[p] = latest[p] /\ (latest[p] # 0 => p < nextId) /\ latest[p] \in Nat
        /\ nextId \in Nat /\ nextId <= MaxPage + 1
    BY <1>1, <1>3 DEF IInv, Coherent, Fresh, Unused, Up, TypeOK, Pages
  <1>0. /\ UNCHANGED <<blocks, journal, todo, durable, mark>> /\ latest' = latest
        /\ faults' \in Nat
        /\ stamp' \in Nat /\ nextId' = nextId /\ nextId' \in nextId..(MaxPage + 1)
        /\ latest' \in [Pages -> Nat]
    BY <1>1, <1>3, <1>4 DEF history, counts, IInv, TypeOK
  <1>5. CASE file[p] \in {0, Torn}
    <2>1. frames' = [frames EXCEPT ![f] = Free]
      BY <1>2, <1>5, Zenon
    <2> QED
      BY <1>0, <1>1, <1>3, <2>1, ReplaceInv, Zenon
  <1>6. CASE file[p] \notin {0, Torn}
    <2>1. /\ L \in Frame /\ L.page = p /\ L.buf = latest[p] /\ L.readers = 0
          /\ L.writer = FALSE /\ L.dirty = FALSE
      <3>1. p \in 0..MaxPage /\ file[p] \in Nat
        BY <1>3, <1>4 DEF Pages
      <3> QED
        BY <1>4, <3>1, FreeFrame, Zenon DEF Frame
    <2> DEFINE Y == Pin(L, op)
    <2>2. frames' = [frames EXCEPT ![f] = Y]
      BY <1>2, <1>6, Zenon
    <2> HIDE DEF L, X
    <2>3. /\ Y \in Frame /\ Y.page = p /\ Y.buf = latest[p]
          /\ Y.writer = (op = "write") /\ (op = "write" => Y.readers = 0)
      BY <1>3, <2>1, PinFrame
    <2> HIDE DEF Y
    <2>4. p < nextId /\ Y.buf # 0 /\ Y.buf = file[p]
      BY <1>4, <1>6, <2>3, Zenon
    <2> QED
      BY <1>0, <1>1, <2>2, <2>3, <2>4, ReplaceInv, Zenon
  <1> QED
    BY <1>5, <1>6, Zenon

\* A failed read frees its victim.
LEMMA LoadFailsInv ==
    ASSUME IInv, NEW op \in Ops, NEW p \in Pages, LoadFails(op, p), limit' = limit
    PROVE  IInv'
  <1>1. /\ pc = "run" /\ pc' = "run" /\ wants' = NoCall /\ Resident(p) = {}
        /\ UNCHANGED <<blocks, journal, nextId, todo, history, stamp>> /\ faults' = faults + 1
    BY Zenon DEF LoadFails, Turn, Fault
  <1>2. PICK f \in Victims : frames' = [frames EXCEPT ![f] = Free]
    BY Zenon DEF LoadFails
  <1>3. /\ UNCHANGED <<blocks, journal, todo, durable, mark>> /\ latest' = latest
        /\ stamp' \in Nat /\ faults' \in Nat /\ nextId' \in nextId..(MaxPage + 1)
        /\ latest' \in [Pages -> Nat]
    BY <1>1, Numbers DEF history, IInv, TypeOK
  <1> QED
    BY <1>1, <1>2, <1>3, FreeFrame, ReplaceInv, Zenon

\* A new page in a victim's frame.
LEMMA NewPageInv ==
    ASSUME IInv, limit' = limit, pc = "run", pc' = "run", wants' = NoCall,
           UNCHANGED <<blocks, journal, todo, durable, mark, faults>>,
           nextId' \in nextId..(MaxPage + 1),
           NEW id \in Pages, NewPage(id), Resident(id) = {}, id < nextId'
    PROVE  IInv'
  <1> DEFINE X == [Free EXCEPT !.page = id, !.buf = stamp + 1, !.writer = TRUE, !.dirty = TRUE]
  <1>1. PICK f \in Victims : frames' = [frames EXCEPT ![f] = X]
    BY Zenon DEF NewPage
  <1>2. stamp \in Nat /\ MaxPage \in Nat /\ latest \in [Pages -> Nat]
    BY Numbers, Zenon DEF IInv, TypeOK
  <1>3. /\ latest' \in [Pages -> Nat] /\ latest'[id] = stamp + 1
        /\ \A q \in Pages : q # id => latest'[q] = latest[q]
        /\ stamp' \in Nat
    BY <1>2 DEF NewPage
  <1>4. X \in Frame /\ X.page = id /\ X.buf = stamp + 1 /\ X.readers = 0 /\ X.dirty
    <2>1. id \in 0..MaxPage /\ stamp + 1 \in Nat
      BY <1>2 DEF Pages
    <2> QED
      BY <2>1, FreeFrame, Zenon DEF Frame
  <1> HIDE DEF X
  <1>5. X.buf # 0
    BY <1>2, <1>4
  <1>6. faults' \in Nat
    BY Numbers
  <1> QED
    BY <1>1, <1>3, <1>4, <1>5, <1>6, ReplaceInv

\* allocate with a victim at hand.
LEMMA AllocateInv ==
    ASSUME IInv, Allocate, limit' = limit
    PROVE  IInv'
  <1>1. /\ pc = "run" /\ pc' = "run" /\ wants' = NoCall /\ nextId <= MaxPage
        /\ nextId' = nextId + 1
        /\ UNCHANGED <<blocks, journal, todo, durable, mark, faults>>
    BY Zenon DEF Allocate
  <1>2. MaxPage \in Nat /\ nextId \in Nat /\ nextId >= 1
    BY <1>1, Numbers DEF IInv, Marks
  <1>3. PICK id \in Pages : id = nextId
    BY <1>1, <1>2 DEF Pages
  <1>4. Resident(id) = {} /\ NewPage(id) /\ id < nextId' /\ nextId' \in nextId..(MaxPage + 1)
    BY <1>1, <1>2, <1>3 DEF IInv, Fresh, Unused, Up, Allocate
  <1> QED
    BY <1>1, <1>4, NewPageInv, Zenon

\* allocate after the flush that made room for it.
LEMMA AllocateResumeInv ==
    ASSUME IInv, AllocateResume, limit' = limit
    PROVE  IInv'
  <1>1. /\ pc = "run" /\ pc' = "run" /\ wants' = NoCall /\ nextId' = nextId
        /\ UNCHANGED <<blocks, journal, todo, durable, mark, faults>>
    BY Zenon DEF AllocateResume
  <1>2. PICK id \in Pages : id = wants.page /\ id < nextId /\ Resident(id) = {} /\ NewPage(id)
    BY Zenon DEF AllocateResume, IInv, Fresh, Unused
  <1>3. nextId' \in nextId..(MaxPage + 1)
    BY <1>1, Numbers
  <1> QED
    BY <1>1, <1>2, <1>3, NewPageInv, Zenon

\* A step that changes nothing.
LEMMA StutterInv ==
    ASSUME IInv, UNCHANGED vars
    PROVE  IInv'
  <1>1. /\ limit' = limit /\ file' = file /\ disk' = disk /\ super' = super
        /\ journal' = journal /\ frames' = frames /\ nextId' = nextId /\ pc' = pc
        /\ wants' = wants /\ todo' = todo /\ latest' = latest /\ durable' = durable
        /\ mark' = mark /\ stamp' = stamp /\ faults' = faults
    BY Zenon DEF vars, blocks, history, counts
  <1>2. /\ DirtyFrames' = DirtyFrames /\ (Up' <=> Up)
        /\ \A p : Writes(p)' = Writes(p) /\ Resident(p)' = Resident(p) /\ (Unused(p)' <=> Unused(p))
    BY <1>1, Zenon DEF DirtyFrames, Up, Writes, Resident, Unused
  <1>3. TypeOK'
    BY <1>1, Zenon DEF IInv, TypeOK
  <1>4. Pool'
    BY <1>1, Zenon DEF IInv, Pool
  <1>5. Shape'
    BY <1>1, <1>2, Zenon DEF IInv, Shape, LoggedFrom, ImageOf
  <1>6. Restored'
    BY <1>1, <1>2, Zenon DEF IInv, Restored
  <1>7. Behind' /\ Applying'
    BY <1>1, <1>2, Zenon DEF IInv, Behind, Applying
  <1>8. Marks'
    BY <1>1, <1>2, Zenon DEF IInv, Marks
  <1>9. Coherent'
    BY <1>1, <1>2, Zenon DEF IInv, Coherent
  <1>10. Fresh' /\ Stopped'
    BY <1>1, <1>2, Zenon DEF IInv, Fresh, Stopped
  <1> QED
    BY <1>3, <1>4, <1>5, <1>6, <1>7, <1>8, <1>9, <1>10, Zenon DEF IInv

\* Every step.
LEMMA NextInv ==
    ASSUME CountingFacts, IInv, [Next]_vars
    PROVE  IInv'
  <1>1. CASE UNCHANGED vars
    BY <1>1, StutterInv, Zenon
  <1>2. CASE Next
    <2>1. limit' = limit /\ Steps
      BY <1>2, Zenon DEF Next
    <2>2. CASE RecoverApply
      BY <2>1, <2>2, RecoverApplyInv, Zenon
    <2>3. CASE RecoverSync
      BY <2>1, <2>3, RecoverSyncInv, Zenon
    <2>4. CASE RecoverTruncate
      BY <2>1, <2>4, RecoverTruncateInv, Zenon
    <2>5. CASE Flush
      BY <2>1, <2>5, FlushInv, Zenon
    <2>6. CASE FlushLog
      BY <2>1, <2>6, FlushLogInv, Zenon
    <2>7. CASE FlushCommit
      BY <2>1, <2>7, FlushCommitInv, Zenon
    <2>8. CASE FlushSync
      BY <2>1, <2>8, FlushSyncInv, Zenon
    <2>9. CASE FlushTruncate
      BY <2>1, <2>9, FlushTruncateInv, Zenon
    <2>10. CASE FlushFails
      BY <2>1, <2>10, FlushFailsInv, Zenon
    <2>11. ASSUME NEW op \in Ops, NEW p \in Pages,
                  AcquireHit(op, p) \/ AcquireMiss(op, p) \/ LoadFails(op, p) \/ AcquireFlush(op, p)
           PROVE  IInv'
      BY <2>1, <2>11, AcquireHitInv, AcquireMissInv, LoadFailsInv, AcquireFlushInv, Zenon
    <2>12. CASE Allocate
      BY <2>1, <2>12, AllocateInv, Zenon
    <2>13. CASE AllocateFlush
      BY <2>1, <2>13, AllocateFlushInv, Zenon
    <2>14. CASE AllocateResume
      BY <2>1, <2>14, AllocateResumeInv, Zenon
    <2>15. CASE AllocateExhausted
      BY <2>1, <2>15, AllocateExhaustedInv, Zenon
    <2>16. ASSUME NEW f \in FrameIds,
                  FlushWrite(f) \/ Modify(f) \/ ReleaseRead(f) \/ ReleaseWrite(f)
           PROVE  IInv'
      BY <2>1, <2>16, FlushWriteInv, ModifyInv, ReleaseReadInv, ReleaseWriteInv, Zenon
    <2>17. CASE Crash
      BY <2>1, <2>17, CrashInv, Zenon
    <2> QED
      BY <2>1, <2>2, <2>3, <2>4, <2>5, <2>6, <2>7, <2>8, <2>9, <2>10, <2>11, <2>12, <2>13,
         <2>14, <2>15, <2>16, <2>17, Zenon DEF Steps
  <1> QED
    BY <1>1, <1>2, Zenon

\* No step of the process moves a pinned frame's page, or gives a writer company.
LEMMA PinnedStep ==
    ASSUME IInv, Next, pc' # "down", NEW f \in FrameIds, Pinned(f)
    PROVE  frames'[f].page = frames[f].page /\ (frames[f].writer => frames'[f].readers = 0)
  <1> DEFINE Goal == /\ frames'[f].page = frames[f].page
                     /\ frames[f].writer => frames'[f].readers = 0
  <1> SUFFICES Goal
    BY Zenon
  <1>1. /\ frames \in [FrameIds -> Frame] /\ frames[f] \in Frame
        /\ frames[f].writer => frames[f].readers = 0
        /\ frames[f].readers > 0 => ~frames[f].writer
    BY DEF IInv, TypeOK, Pool, Frame
  <1>2. CASE frames' = frames
    BY <1>1, <1>2, Zenon
  <1>3. ASSUME NEW g \in Victims, NEW X, frames' = [frames EXCEPT ![g] = X]
        PROVE  Goal
    <2>1. g # f
      BY VictimIsClean DEF Pinned
    <2> QED
      BY <1>1, <1>3, <2>1, Zenon
  <1>4. CASE RecoverTruncate
    <2>1. frames[f] = Free
      BY <1>4, Zenon DEF RecoverTruncate, IInv, Stopped, Up
    <2> QED
      BY <2>1 DEF Pinned, Free
  <1>5. ASSUME NEW op \in Ops, NEW p \in Pages, AcquireHit(op, p)
        PROVE  Goal
    <2>1. PICK g \in Resident(p) : ~frames[g].writer /\ frames' = [frames EXCEPT ![g] = Pin(@, op)]
      BY <1>5, Zenon DEF AcquireHit
    <2>2. g \in FrameIds /\ frames[g] \in Frame /\ op \in {"read", "write"}
      BY <1>1, Zenon DEF Resident, Ops
    <2>3. CASE g = f
      BY <1>1, <2>1, <2>2, <2>3, PinFrame
    <2>4. CASE g # f
      BY <1>1, <2>1, <2>4, Zenon
    <2> QED
      BY <2>3, <2>4, Zenon
  <1>6. ASSUME NEW op \in Ops, NEW p \in Pages, AcquireMiss(op, p) \/ LoadFails(op, p)
        PROVE  Goal
    BY <1>3, <1>6, Zenon DEF AcquireMiss, LoadFails
  <1>7. ASSUME NEW id, NewPage(id)
        PROVE  Goal
    BY <1>3, <1>7, Zenon DEF NewPage
  <1>8. ASSUME NEW g \in FrameIds,
               FlushWrite(g) \/ Modify(g) \/ ReleaseRead(g) \/ ReleaseWrite(g)
        PROVE  Goal
    <2>1. CASE FlushWrite(g)
      BY <1>1, <2>1, Zenon DEF FlushWrite, Frame
    <2>2. CASE Modify(g)
      BY <1>1, <2>2, Zenon DEF Modify, Frame
    <2>3. CASE ReleaseRead(g)
      <3>1. frames' = [frames EXCEPT ![g].readers = @ - 1] /\ frames[g].readers > 0
        BY <2>3, Zenon DEF ReleaseRead
      <3>2. CASE g = f
        BY <1>1, <3>1, <3>2, Zenon DEF Frame
      <3>3. CASE g # f
        BY <1>1, <3>1, <3>3, Zenon
      <3> QED
        BY <3>2, <3>3, Zenon
    <2>4. CASE ReleaseWrite(g)
      BY <1>1, <2>4, Zenon DEF ReleaseWrite, Frame
    <2> QED
      BY <1>8, <2>1, <2>2, <2>3, <2>4, Zenon
  <1>9. ~Crash
    BY Zenon DEF Crash
  <1>10. ASSUME NEW op \in Ops, NEW p \in Pages, AcquireFlush(op, p)
         PROVE  Goal
    BY <1>2, <1>10, Zenon DEF AcquireFlush, MakeRoom
  <1>11. CASE RecoverApply \/ RecoverSync \/ Flush \/ FlushLog \/ FlushCommit \/ FlushSync
                \/ FlushTruncate \/ FlushFails \/ AllocateFlush \/ AllocateExhausted
    BY <1>2, <1>11, Zenon DEF RecoverApply, RecoverSync, Flush, FlushLog, FlushCommit, FlushSync,
       FlushTruncate, FlushFails, AllocateFlush, MakeRoom, AllocateExhausted
  <1>12. CASE Allocate \/ AllocateResume
    BY <1>7, <1>12, Zenon DEF Allocate, AllocateResume
  <1> QED
    BY <1>4, <1>5, <1>6, <1>8, <1>9, <1>10, <1>11, <1>12, Zenon DEF Next, Steps
-----------------------------------------------------------------------------
(* The refinement: every step is a step of AtomicPages, or leaves it alone. *)

Held == {frames[f].page : f \in {g \in FrameIds : frames[g].writer}}

AtomicStep == Atomic!Next \/ UNCHANGED Atomic!pvars

\* A step that AtomicPages does not see.
LEMMA Stutters ==
    ASSUME latest' = latest, durable' = durable, mark' = mark, Up' = Up,
           nextId' = nextId \/ (~Up /\ ~Up'), Held' = Held
    PROVE  AtomicStep
  BY Zenon DEF AtomicStep, Atomic!pvars, Held, Up

\* Held after a frame that no write handle refers to is replaced.
LEMMA HeldAfter ==
    ASSUME NEW f \in FrameIds, ~frames[f].writer, frames \in [FrameIds -> Frame],
           NEW X, frames' = [frames EXCEPT ![f] = X]
    PROVE  /\ X.writer => Held' = Held \cup {X.page}
           /\ ~X.writer => Held' = Held
  <1>1. frames'[f] = X /\ \A g \in FrameIds : g # f => frames'[g] = frames[g]
    BY Zenon
  <1> QED
    BY <1>1, Zenon DEF Held

\* The pages being written depend on the frames alone.
LEMMA HeldSame ==
    ASSUME \A f \in FrameIds : frames'[f].page = frames[f].page
                                  /\ (frames'[f].writer <=> frames[f].writer)
    PROVE  Held' = Held
  BY Zenon DEF Held

\* Recovery.
LEMMA RecoverStep ==
    ASSUME IInv, RecoverApply \/ RecoverSync \/ RecoverTruncate
    PROVE  AtomicStep
  <1>1. CASE RecoverApply \/ RecoverSync
    <2>1. frames' = frames
      BY <1>1, Zenon DEF RecoverApply, RecoverSync
    <2>2. Held' = Held
      BY <2>1, Zenon DEF Held
    <2> QED
      BY <1>1, <2>2, Stutters, Zenon DEF RecoverApply, RecoverSync, Up, history
  <1>2. CASE RecoverTruncate
    <2>1. /\ pc = "discard" /\ ~Up /\ Up' /\ nextId' = nextId /\ latest' = latest
          /\ durable' = durable /\ mark' = mark
      BY <1>2, Zenon DEF RecoverTruncate, Up, history
    <2>2. Held = {} /\ Held' = {}
      <3>1. \A f \in FrameIds : ~frames[f].writer
        BY <2>1 DEF IInv, Stopped, Free
      <3>2. \A f \in FrameIds : ~frames'[f].writer
        BY <1>2, Zenon DEF RecoverTruncate, Free
      <3> QED
        BY <3>1, <3>2, Zenon DEF Held
    <2>3. nextId \in 1..mark /\ \A p \in Pages : durable[p] # 0 => p < nextId
      BY <2>1, Numbers DEF IInv, Marks
    <2>4. Atomic!Open
      BY <2>1, <2>2, <2>3, Zenon DEF Atomic!Open, Atomic!Ids, Pages, Held
    <2> QED
      BY <2>4, Zenon DEF AtomicStep, Atomic!Next
  <1> QED
    BY <1>1, <1>2, Zenon

\* A crash while the cache is up is a crash of AtomicPages; one during a recovery is not seen.
LEMMA CrashStep ==
    ASSUME IInv, Crash
    PROVE  AtomicStep
  <1>1. ~Up' /\ latest' = durable /\ durable' = durable /\ mark' = mark
    BY Zenon DEF Crash, Up
  <1>2. Held' = {}
    BY Zenon DEF Crash, Held, Free
  <1>3. CASE Up
    <2>1. Atomic!Crash
      <3>1. {frames'[f].page : f \in {g \in FrameIds : frames'[g].writer}} = {}
        BY <1>2, Zenon DEF Held
      <3> QED
        BY <1>1, <1>3, <3>1 DEF Atomic!Crash
    <2> QED
      BY <2>1, Zenon DEF AtomicStep, Atomic!Next
  <1>4. CASE ~Up
    <2>1. latest = durable /\ Held = {}
      BY <1>4 DEF IInv, Stopped, Held, Free
    <2>2. Up' = Up
      BY <1>1, <1>4, Zenon DEF Up
    <2> QED
      BY <1>1, <1>2, <1>4, <2>1, <2>2, Stutters, Zenon
  <1> QED
    BY <1>3, <1>4, Zenon

\* The steps of a flush around its commit.
LEMMA FlushStep ==
    ASSUME IInv, Flush \/ FlushLog \/ FlushSync \/ FlushTruncate \/ FlushFails
    PROVE  AtomicStep
  <1>1. /\ Up' = Up /\ frames' = frames /\ nextId' = nextId
        /\ latest' = latest /\ durable' = durable /\ mark' = mark
    BY Zenon DEF Flush, StartFlush, FlushLog, FlushSync, FlushTruncate, FlushFails, Up, history
  <1>2. Held' = Held
    BY <1>1, Zenon DEF Held
  <1> QED
    BY <1>1, <1>2, Stutters, Zenon

\* A page written through is not seen.
LEMMA FlushWriteStep ==
    ASSUME IInv, NEW f \in FrameIds, FlushWrite(f)
    PROVE  AtomicStep
  <1>1. /\ Up' = Up /\ nextId' = nextId
        /\ latest' = latest /\ durable' = durable /\ mark' = mark
        /\ frames' = [frames EXCEPT ![f].dirty = FALSE]
    BY Zenon DEF FlushWrite, Up, history
  <1>2. Held' = Held
    BY <1>1, HeldSame, Zenon DEF IInv, TypeOK, Frame
  <1> QED
    BY <1>1, <1>2, Stutters, Zenon

\* The commit misses only pages some write handle refers to.
LEMMA FlushCommitStep ==
    ASSUME IInv, FlushCommit
    PROVE  AtomicStep
  <1> DEFINE Flushed(p) == \E f \in DirtyFrames : frames[f].page = p
             missed == {p \in Held : ~Flushed(p)}
  <1>1. /\ pc = "commit" /\ Up /\ Up' /\ frames' = frames /\ nextId' = nextId
        /\ latest' = latest /\ mark' = nextId
        /\ durable' = [p \in Pages |-> IF Flushed(p) THEN latest[p] ELSE durable[p]]
    BY Zenon DEF FlushCommit, Up
  <1>2. Held' = Held
    BY <1>1, Zenon DEF Held
  <1>3. ASSUME NEW p \in Pages, ~Flushed(p), p \notin Held
        PROVE  durable[p] = latest[p]
    <2>1. file[p] = durable[p]
      BY <1>1, <1>3, Zenon DEF IInv, Behind
    <2>2. CASE Resident(p) = {}
      BY <1>1, <2>1, <2>2, Zenon DEF IInv, Coherent
    <2>3. CASE Resident(p) # {}
      <3>1. PICK f \in FrameIds : f \in Resident(p) /\ frames[f].page = p /\ p # 0
        BY <2>3 DEF Resident, Pages
      <3>2. ~frames[f].dirty /\ ~frames[f].writer
        BY <1>3, <3>1, Zenon DEF DirtyFrames, Held
      <3> QED
        BY <1>1, <2>1, <3>1, <3>2, Zenon DEF IInv, Coherent
    <2> QED
      BY <2>2, <2>3, Zenon
  <1>4. durable' = [p \in Pages |-> IF p \in missed THEN durable[p] ELSE latest[p]]
    <2>1. \A p \in Pages : (IF Flushed(p) THEN latest[p] ELSE durable[p])
                             = IF p \in missed THEN durable[p] ELSE latest[p]
      BY <1>3, Zenon
    <2> HIDE DEF missed, Flushed
    <2> QED
      BY <1>1, <2>1, Zenon
  <1>5. missed \in SUBSET Held
    BY Zenon
  <1> HIDE DEF missed, Flushed
  <1>6. Atomic!Commit
    BY <1>1, <1>2, <1>4, <1>5, Zenon DEF Atomic!Commit, Atomic!Ids, Pages, Held
  <1> QED
    BY <1>6, Zenon DEF AtomicStep, Atomic!Next

\* A write handle on a page that no write handle refers to.
LEMMA Holds ==
    ASSUME NEW p \in Pages, Up, Up', p \notin Held, latest[p] # 0, Held' = Held \cup {p},
           latest' = latest, durable' = durable, mark' = mark, nextId' = nextId
    PROVE  AtomicStep
  <1>1. Atomic!Hold(p)
    BY Zenon DEF Atomic!Hold, Held
  <1> QED
    BY <1>1, Zenon DEF AtomicStep, Atomic!Next, Atomic!Ids, Pages

\* A hit takes the page for writing, or is not seen.
LEMMA AcquireHitStep ==
    ASSUME IInv, NEW op \in Ops, NEW p \in Pages, AcquireHit(op, p)
    PROVE  AtomicStep
  <1>1. /\ pc = "run" /\ Up /\ Up' /\ nextId' = nextId
        /\ latest' = latest /\ durable' = durable /\ mark' = mark /\ Up' = Up
    BY Zenon DEF AcquireHit, Up, history
  <1>2. PICK f \in Resident(p) : ~frames[f].writer /\ frames' = [frames EXCEPT ![f] = Pin(@, op)]
    BY Zenon DEF AcquireHit
  <1>3. /\ f \in FrameIds /\ frames[f].page = p /\ frames[f] \in Frame
        /\ op \in {"read", "write"} /\ p # 0 /\ frames \in [FrameIds -> Frame]
    BY DEF Resident, Ops, IInv, TypeOK, Pages
  <1> DEFINE X == Pin(frames[f], op)
  <1>4. X.page = p /\ (op = "write" => X.writer) /\ (op = "read" => ~X.writer)
    <2>1. X.page = frames[f].page /\ X.writer = (frames[f].writer \/ op = "write")
      BY <1>3, PinFrame
    <2> HIDE DEF X
    <2> QED
      BY <1>2, <1>3, <2>1, Zenon
  <1>5. frames' = [frames EXCEPT ![f] = X]
    BY <1>2, Zenon
  <1> HIDE DEF X
  <1>6. /\ op = "write" => Held' = Held \cup {p}
        /\ op = "read" => Held' = Held
    BY <1>2, <1>3, <1>4, <1>5, HeldAfter
  <1>7. CASE op = "read"
    BY <1>1, <1>6, <1>7, Stutters, Zenon
  <1>8. CASE op = "write"
    <2>1. latest[p] # 0
      BY <1>1, <1>3 DEF IInv, Coherent, Pool
    <2>2. p \notin Held
      BY <1>2, <1>3, Zenon DEF IInv, Pool, Held
    <2> QED
      BY <1>1, <1>6, <1>8, <2>1, <2>2, Holds, Zenon
  <1> QED
    BY <1>3, <1>7, <1>8, Zenon

\* So does a miss.
LEMMA AcquireMissStep ==
    ASSUME IInv, NEW op \in Ops, NEW p \in Pages, AcquireMiss(op, p)
    PROVE  AtomicStep
  <1> DEFINE L == [Free EXCEPT !.page = p, !.buf = file[p]]
             X == IF file[p] \in {0, Torn} THEN Free ELSE Pin(L, op)
  <1>1. /\ pc = "run" /\ Up /\ Up' /\ Up' = Up /\ nextId' = nextId
        /\ latest' = latest /\ durable' = durable /\ mark' = mark /\ Resident(p) = {}
    BY Zenon DEF AcquireMiss, Turn, Up, history
  <1>2. PICK f \in Victims : frames' = [frames EXCEPT ![f] = X]
    BY Zenon DEF AcquireMiss
  <1>3. /\ f \in FrameIds /\ ~frames[f].writer /\ frames \in [FrameIds -> Frame]
        /\ op \in {"read", "write"}
    BY VictimIsClean, Zenon DEF IInv, TypeOK, Ops
  <1>4. file[p] = latest[p] /\ latest[p] \in Nat
    BY <1>1, Zenon DEF IInv, Coherent, TypeOK
  <1>5. CASE file[p] \in {0, Torn}
    <2>1. frames' = [frames EXCEPT ![f] = Free]
      BY <1>2, <1>5, Zenon
    <2>2. Held' = Held
      BY <1>3, <2>1, HeldAfter, FreeFrame, Zenon
    <2> QED
      BY <1>1, <2>2, Stutters, Zenon
  <1>6. CASE file[p] \notin {0, Torn}
    <2>1. L \in Frame /\ L.page = p /\ L.writer = FALSE
      <3>1. p \in 0..MaxPage /\ file[p] \in Nat
        BY <1>4, Sizes DEF Pages
      <3> QED
        BY <3>1, FreeFrame, Zenon DEF Frame
    <2> DEFINE Y == Pin(L, op)
    <2>2. frames' = [frames EXCEPT ![f] = Y]
      BY <1>2, <1>6, Zenon
    <2> HIDE DEF L, X
    <2>3. Y.page = p /\ Y.writer = (op = "write")
      BY <1>3, <2>1, PinFrame
    <2> HIDE DEF Y
    <2>4. /\ op = "write" => Held' = Held \cup {p}
          /\ op = "read" => Held' = Held
      BY <1>3, <2>2, <2>3, HeldAfter, Zenon
    <2>5. p \notin Held /\ latest[p] # 0
      BY <1>1, <1>4, <1>6, Zenon DEF Resident, Held
    <2>6. CASE op = "read"
      BY <1>1, <2>4, <2>6, Stutters, Zenon
    <2>7. CASE op = "write"
      BY <1>1, <2>4, <2>5, <2>7, Holds, Zenon
    <2> QED
      BY <1>3, <2>6, <2>7, Zenon
  <1> QED
    BY <1>5, <1>6, Zenon

\* A failed read is not seen.
LEMMA LoadFailsStep ==
    ASSUME IInv, NEW op \in Ops, NEW p \in Pages, LoadFails(op, p)
    PROVE  AtomicStep
  <1>1. /\ Up' = Up /\ nextId' = nextId
        /\ latest' = latest /\ durable' = durable /\ mark' = mark
    BY Zenon DEF LoadFails, Up, history
  <1>2. PICK f \in Victims : frames' = [frames EXCEPT ![f] = Free]
    BY Zenon DEF LoadFails
  <1>3. f \in FrameIds /\ ~frames[f].writer /\ frames \in [FrameIds -> Frame]
    BY VictimIsClean, Zenon DEF IInv, TypeOK
  <1>4. Held' = Held
    BY <1>2, <1>3, HeldAfter, FreeFrame, Zenon
  <1> QED
    BY <1>1, <1>4, Stutters, Zenon

\* The flush a call needs, before its commit.
LEMMA AcquireFlushStep ==
    ASSUME IInv, NEW op \in Ops, NEW p \in Pages, AcquireFlush(op, p)
    PROVE  AtomicStep
  <1>1. /\ Up' = Up /\ frames' = frames /\ nextId' = nextId
        /\ latest' = latest /\ durable' = durable /\ mark' = mark
    BY Zenon DEF AcquireFlush, MakeRoom, StartFlush, Up, history
  <1>2. Held' = Held
    BY <1>1, Zenon DEF Held
  <1> QED
    BY <1>1, <1>2, Stutters, Zenon

\* An id is taken, and its page not created yet or never.
LEMMA TakeStep ==
    ASSUME IInv, AllocateFlush \/ AllocateExhausted
    PROVE  AtomicStep
  <1>1. /\ pc = "run" /\ Up /\ Up' /\ frames' = frames
        /\ nextId <= MaxPage /\ nextId' = nextId + 1
        /\ latest' = latest /\ durable' = durable /\ mark' = mark
    BY Zenon DEF AllocateFlush, AllocateExhausted, MakeRoom, StartFlush, Up, history
  <1>2. Held' = Held
    BY <1>1, Zenon DEF Held
  <1>3. nextId \in Pages
    BY <1>1, Numbers DEF IInv, Marks, Pages
  <1>4. Atomic!Take
    BY <1>1, <1>2, <1>3, Zenon DEF Atomic!Take, Atomic!Ids, Pages, Held
  <1> QED
    BY <1>4, Zenon DEF AtomicStep, Atomic!Next

\* The page of an id is created.
LEMMA NewPageStep ==
    ASSUME IInv, Up, Up', NEW id \in Pages, NewPage(id), latest[id] = 0,
           (id = nextId /\ nextId' = nextId + 1) \/ (id < nextId /\ nextId' = nextId),
           durable' = durable, mark' = mark
    PROVE  AtomicStep
  <1> DEFINE X == [Free EXCEPT !.page = id, !.buf = stamp + 1, !.writer = TRUE, !.dirty = TRUE]
  <1>1. PICK f \in Victims : frames' = [frames EXCEPT ![f] = X]
    BY Zenon DEF NewPage
  <1>2. f \in FrameIds /\ ~frames[f].writer /\ frames \in [FrameIds -> Frame]
    BY VictimIsClean, Zenon DEF IInv, TypeOK
  <1>3. X.page = id /\ X.writer
    BY FreeFrame, Zenon DEF Frame
  <1> HIDE DEF X
  <1>4. Held' = Held \cup {id}
    BY <1>1, <1>2, <1>3, HeldAfter, Zenon
  <1>5. latest' = [latest EXCEPT ![id] = latest'[id]]
    BY Zenon DEF NewPage, IInv, TypeOK
  <1>6. Atomic!Create(id, latest'[id])
    BY <1>4, <1>5, Zenon DEF Atomic!Create, Atomic!Ids, Pages, Held
  <1>7. \E p \in Atomic!Ids : Atomic!Create(p, latest'[p])
    BY <1>6, Zenon DEF Atomic!Create, Atomic!Ids, Pages
  <1> QED
    BY <1>7, Zenon DEF AtomicStep, Atomic!Next

\* allocate creates a page.
LEMMA AllocateStep ==
    ASSUME IInv, Allocate \/ AllocateResume
    PROVE  AtomicStep
  <1>1. pc = "run" /\ Up /\ Up' /\ durable' = durable /\ mark' = mark
    BY Zenon DEF Allocate, AllocateResume, Up
  <1>2. CASE Allocate
    <2>1. MaxPage \in Nat /\ nextId \in Nat /\ nextId >= 1 /\ nextId <= MaxPage
      BY <1>1, <1>2, Numbers DEF Allocate, IInv, Marks
    <2>2. PICK id \in Pages : id = nextId
      BY <2>1 DEF Pages
    <2>3. latest[id] = 0 /\ NewPage(id) /\ nextId' = nextId + 1
      BY <1>1, <1>2, <2>1, <2>2 DEF Allocate, IInv, Fresh, Unused
    <2>4. (id = nextId /\ nextId' = nextId + 1) \/ (id < nextId /\ nextId' = nextId)
      BY <2>2, <2>3, Zenon
    <2> QED
      BY <1>1, <2>3, <2>4, NewPageStep, Zenon
  <1>3. CASE AllocateResume
    <2>1. wants.page \in Pages /\ wants.page < nextId /\ latest[wants.page] = 0
      BY <1>3, Zenon DEF AllocateResume, IInv, Fresh, Unused
    <2> QED
      BY <1>1, <1>3, <2>1, NewPageStep, Zenon DEF AllocateResume
  <1> QED
    BY <1>2, <1>3, Zenon

\* A write through a handle.
LEMMA ModifyStep ==
    ASSUME IInv, NEW f \in FrameIds, Modify(f)
    PROVE  AtomicStep
  <1>1. PICK p \in Pages : p = frames[f].page /\ latest[p] # 0
    BY DEF Modify, IInv, Pool, Free, TypeOK, Frame, Coherent, Resident, Up, Pages
  <1>2. /\ pc = "run" /\ Up /\ Up' /\ nextId' = nextId /\ durable' = durable /\ mark' = mark
        /\ frames' = [frames EXCEPT ![f].buf = stamp + 1]
    BY Zenon DEF Modify, Up
  <1>3. Held' = Held
    BY <1>2, HeldSame, Zenon DEF IInv, TypeOK, Frame
  <1>4. latest' = [latest EXCEPT ![p] = latest'[p]]
    BY <1>1, Zenon DEF Modify, IInv, TypeOK
  <1>5. Atomic!Write(p, latest'[p])
    BY <1>1, <1>2, <1>3, <1>4, Zenon DEF Atomic!Write, Held
  <1> QED
    BY <1>5, Zenon DEF AtomicStep, Atomic!Next, Atomic!Ids, Pages

\* A read handle is not seen.
LEMMA ReleaseReadStep ==
    ASSUME IInv, NEW f \in FrameIds, ReleaseRead(f)
    PROVE  AtomicStep
  <1>1. /\ Up' = Up /\ nextId' = nextId
        /\ latest' = latest /\ durable' = durable /\ mark' = mark
        /\ frames' = [frames EXCEPT ![f].readers = @ - 1]
    BY Zenon DEF ReleaseRead, Up, history
  <1>2. Held' = Held
    BY <1>1, HeldSame, Zenon DEF IInv, TypeOK, Frame
  <1> QED
    BY <1>1, <1>2, Stutters, Zenon

\* Dropping a write handle lets the page go.
LEMMA ReleaseWriteStep ==
    ASSUME IInv, NEW f \in FrameIds, ReleaseWrite(f)
    PROVE  AtomicStep
  <1>1. /\ pc = "run" /\ Up /\ Up' /\ nextId' = nextId
        /\ latest' = latest /\ durable' = durable /\ mark' = mark /\ frames[f].writer
        /\ frames' = [frames EXCEPT ![f].writer = FALSE, ![f].dirty = TRUE]
    BY Zenon DEF ReleaseWrite, Up, history
  <1>2. PICK p \in Pages : p = frames[f].page
    BY <1>1 DEF IInv, Pool, Free, TypeOK, Frame, Pages
  <1>3. /\ ~frames'[f].writer
        /\ \A g \in FrameIds : g # f => frames'[g] = frames[g] /\ frames[g].page # p
    BY <1>1, <1>2 DEF IInv, Pool, TypeOK, Frame, Pages
  <1>4. p \in Held /\ Held' = Held \ {p}
    <2>1. p \in Held
      BY <1>1, <1>2, Zenon DEF Held
    <2>2. \A q : q \in Held' <=> \E g \in FrameIds : frames'[g].writer /\ frames'[g].page = q
      BY Zenon DEF Held
    <2>3. \A q : q \in Held <=> \E g \in FrameIds : frames[g].writer /\ frames[g].page = q
      BY Zenon DEF Held
    <2>4. \A q : q \in Held' <=> q \in Held /\ q # p
      BY <1>2, <1>3, <2>2, <2>3
    <2> QED
      BY <2>1, <2>4, Zenon
  <1>5. Atomic!Release(p)
    BY <1>1, <1>4, Zenon DEF Atomic!Release, Held
  <1> QED
    BY <1>5, Zenon DEF AtomicStep, Atomic!Next, Atomic!Ids, Pages

\* Every step.
LEMMA NextStep ==
    ASSUME IInv, [Next]_vars
    PROVE  AtomicStep
  <1>1. CASE UNCHANGED vars
    <2>1. /\ Up' = Up /\ frames' = frames /\ nextId' = nextId
          /\ latest' = latest /\ durable' = durable /\ mark' = mark
      BY <1>1, Zenon DEF vars, history, Up
    <2>2. Held' = Held
      BY <2>1, Zenon DEF Held
    <2> QED
      BY <2>1, <2>2, Stutters, Zenon
  <1>2. CASE Next
    <2>1. ASSUME NEW op \in Ops, NEW p \in Pages,
                 AcquireHit(op, p) \/ AcquireMiss(op, p) \/ LoadFails(op, p) \/ AcquireFlush(op, p)
          PROVE  AtomicStep
      BY <2>1, AcquireHitStep, AcquireMissStep, LoadFailsStep, AcquireFlushStep, Zenon
    <2>2. ASSUME NEW f \in FrameIds,
                 FlushWrite(f) \/ Modify(f) \/ ReleaseRead(f) \/ ReleaseWrite(f)
          PROVE  AtomicStep
      BY <2>2, FlushWriteStep, ModifyStep, ReleaseReadStep, ReleaseWriteStep, Zenon
    <2>3. CASE RecoverApply \/ RecoverSync \/ RecoverTruncate
      BY <2>3, RecoverStep, Zenon
    <2>4. CASE Flush \/ FlushLog \/ FlushSync \/ FlushTruncate \/ FlushFails
      BY <2>4, FlushStep, Zenon
    <2>5. CASE FlushCommit
      BY <2>5, FlushCommitStep, Zenon
    <2>6. CASE Allocate \/ AllocateResume
      BY <2>6, AllocateStep, Zenon
    <2>7. CASE AllocateFlush \/ AllocateExhausted
      BY <2>7, TakeStep, Zenon
    <2>8. CASE Crash
      BY <2>8, CrashStep, Zenon
    <2> QED
      BY <1>2, <2>1, <2>2, <2>3, <2>4, <2>5, <2>6, <2>7, <2>8, Zenon DEF Next, Steps
  <1> QED
    BY <1>1, <1>2, Zenon

\* The initial states.
LEMMA InitStep ==
    ASSUME Init
    PROVE  Atomic!Init
  <1>1. Up = FALSE
    BY Zenon DEF Init, Up
  <1>2. {frames[f].page : f \in {g \in FrameIds : frames[g].writer}} = {}
    BY Zenon DEF Init, Free
  <1>3. latest = [p \in Pages |-> 0] /\ durable = [p \in Pages |-> 0] /\ mark = 1
    BY Zenon DEF Init
  <1>4. latest = [p \in 1..MaxPage |-> 0] /\ durable = latest
    BY <1>3, Zenon DEF Pages
  <1> QED
    BY <1>1, <1>2, <1>3, <1>4, Zenon DEF Atomic!Init, Atomic!Ids

-----------------------------------------------------------------------------
(* The theorems.                                                           *)

Count == INSTANCE CountingProofs

\* The facts about numbers that the lemmas above have as hypotheses.
LEMMA Facts ==
    CountingFacts
  <1>1. Count!CountingFacts
    BY Count!CountingHolds, Zenon
  <1>2. MaxFact
    BY <1>1, Zenon DEF Count!CountingFacts, Count!MaxFact, MaxFact, Count!Max, Max
  <1>3. InductionFact
    BY <1>1, Zenon DEF Count!CountingFacts, Count!InductionFact, InductionFact
  <1>4. \A S : Count!IsFiniteSet(S) <=> IsFiniteSet(S)
    BY Zenon DEF Count!IsFiniteSet, IsFiniteSet
  <1>5. \A S : Count!Cardinality(S) = Cardinality(S)
    BY <1>4, Zenon DEF Count!Cardinality, Cardinality, Count!IsFiniteSet, IsFiniteSet
  <1>6. CountFact
    BY <1>1, <1>4, <1>5, Zenon DEF Count!CountingFacts, Count!CountFact, CountFact
  <1>7. ListFact
    <2>1. SUFFICES ASSUME NEW D, IsFiniteSet(D)
                   PROVE  \A list \in [1..Cardinality(D) -> D] :
                              (\A i, j \in 1..Cardinality(D) : list[i] = list[j] => i = j) =>
                                  \A x \in D : \E i \in 1..Cardinality(D) : list[i] = x
      BY Zenon DEF ListFact
    <2>2. PICK n : n = Cardinality(D)
      BY Zenon
    <2>3. Count!IsFiniteSet(D) /\ Count!Cardinality(D) = n
      BY <1>4, <1>5, <2>1, <2>2, Zenon
    <2>4. \A list \in [1..Count!Cardinality(D) -> D] :
              (\A i, j \in 1..Count!Cardinality(D) : list[i] = list[j] => i = j) =>
                  \A x \in D : \E i \in 1..Count!Cardinality(D) : list[i] = x
      BY <1>1, <2>3, Zenon DEF Count!CountingFacts, Count!ListFact
    <2>5. \A list \in [1..n -> D] :
              (\A i, j \in 1..n : list[i] = list[j] => i = j) =>
                  \A x \in D : \E i \in 1..n : list[i] = x
      BY <2>3, <2>4, Zenon
    <2> QED
      BY <2>2, <2>5
  <1> QED
    BY <1>2, <1>3, <1>6, <1>7, Zenon DEF CountingFacts

\* The pool, the block file, the journal and the high-water marks stay consistent through
\* every call, flush, error, crash and recovery, whatever the number of frames and pages.
THEOREM PageCacheInvariant ==
    Spec => []IInv
  <1>1. Init => IInv
    BY InitInv, Facts, Zenon
  <1>2. IInv /\ [Next]_vars => IInv'
    BY NextInv, Facts, Zenon
  <1> QED
    BY <1>1, <1>2, PTL DEF Spec

\* flush and recover: a crash at any step of a flush or of a recovery leaves a block file and
\* a journal from which recovery rebuilds exactly the pages of the last committed flush.
THEOREM FlushAtomicTheorem ==
    Spec => []FlushAtomic
  <1>1. IInv => FlushAtomic
    BY FlushIsAtomic, Facts, Zenon DEF IInv
  <1> QED
    BY <1>1, PageCacheInvariant, PTL

\* victim_frame, flush and recover: no update of a page is lost, and the page is in one
\* frame at most.
THEOREM CoherentTheorem ==
    Spec => []Coherent
  <1>1. IInv => Coherent
    BY Zenon DEF IInv
  <1> QED
    BY <1>1, PageCacheInvariant, PTL

\* ensure_allocated: an id not yet handed out names no committed page and has no frame.
THEOREM NoReissueTheorem ==
    Spec => []NoReissue
  <1>1. IInv => NoReissue
    <2> SUFFICES ASSUME IInv, Up, NEW p \in Pages, p >= nextId
                 PROVE  durable[p] = 0 /\ Resident(p) = {}
      BY Zenon DEF NoReissue
    <2>1. nextId \in Nat /\ p \in Nat /\ ~(p < nextId) /\ pc # "down"
      BY Numbers DEF IInv, Pages, Up
    <2> QED
      BY <2>1, Zenon DEF IInv, Marks, Fresh, Unused
  <1> QED
    BY <1>1, PageCacheInvariant, PTL

\* victim_frame never evicts a page some handle refers to, and acquire_read and
\* acquire_write never join a writer.
THEOREM PinnedStaysTheorem ==
    Spec => PinnedStays
  <1>1. IInv /\ [Next]_vars =>
            [pc' # "down" => \A f \in FrameIds :
                Pinned(f) => /\ frames'[f].page = frames[f].page
                             /\ frames[f].writer => frames'[f].readers = 0]_vars
    BY PinnedStep, Zenon
  <1> QED
    BY <1>1, PageCacheInvariant, PTL DEF Spec, PinnedStays

\* PageCache as its clients see it: with the block file and the journal hidden it is a store
\* of pages that flush commits at once and a crash brings back to the last commit.
THEOREM RefinementTheorem ==
    Spec => IsAtomicPages
  <1>1. Init => Atomic!Init
    BY InitStep, Zenon
  <1>2. IInv /\ [Next]_vars => [Atomic!Next]_(Atomic!pvars)
    BY NextStep, Zenon DEF AtomicStep
  <1> QED
    BY <1>1, <1>2, PageCacheInvariant, PTL DEF Spec, IsAtomicPages, Atomic!Spec
=============================================================================
