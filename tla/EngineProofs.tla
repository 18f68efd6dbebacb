---------------------------- MODULE EngineProofs ----------------------------
(***************************************************************************)
(* Proofs about StorageEngine, for every set of keys, every page size and  *)
(* any number of puts, crashes and failed calls.                           *)
(***************************************************************************)
EXTENDS StorageEngine, TLAPS

Tuples == 1..MaxPuts
Blocks == [1..MaxPage -> Seq(Tuples) \cup {Blank}]

Readable(blocks, loc) == TupleAt(blocks, loc) # Unreadable

\* What is readable in old reads the same in new.
Keeps(old, new) ==
    \A loc \in Locs : Readable(old, loc) => TupleAt(new, loc) = TupleAt(old, loc)

(***************************************************************************)
(* The inductive invariant.  The index is ahead of the heap's last commit, *)
(* so what must be known is where each location's tuple is: in the pages   *)
(* for every location the index holds or may come to hold (Located,        *)
(* Doubted, Called), and in the committed pages too if its key was left    *)
(* alone since the flush (Settled).  A page only grows (Extended), so a    *)
(* tuple once committed is what a crash brings back.                       *)
(***************************************************************************)
Stored ==
    /\ pages \in Blocks /\ durable \in Blocks
    /\ mark \in 1..(MaxPage + 1)
    /\ up => next # 0
    /\ puts \in 0..MaxPuts
    /\ current # 0 => pages[current] # Blank

Extended == Keeps(durable, pages)

Located == \A k \in Keys : k \in lost \/ Read(k) = acked[k]

Doubted == \A k \in Keys, l \in Locs : <<k, l>> \in doubt => Readable(pages, l)

Called ==
    call # NoCall =>
        /\ call.key \in Keys
        /\ \/ call.loc = NoLoc /\ call.val = NoValue
           \/ /\ call.loc \in Locs
              /\ call.val \in Tuples
              /\ TupleAt(pages, call.loc) = call.val

Settled ==
    \A k \in Keys \ fresh :
        /\ k \notin lost /\ index[k] # NoLoc => Readable(durable, index[k])
        /\ \A l \in Locs : <<k, l>> \in doubt => Readable(durable, l)

IInv ==
    /\ TypeOK
    /\ Stored
    /\ Extended
    /\ Located
    /\ Doubted
    /\ Called
    /\ Settled

-----------------------------------------------------------------------------
(* Facts about pages.                                                      *)

\* A location is in range, and is not the mark of an absent key.
LEMMA LocFacts ==
    ASSUME NEW l \in Locs
    PROVE  l.page \in 1..MaxPage /\ l.slot \in 1..Slots /\ l # NoLoc
  BY EngineAssumption DEF Locs

\* A readable location holds a tuple, which is neither of the two marks.
LEMMA TupleFacts ==
    ASSUME NEW blocks \in Blocks, NEW l \in Locs, Readable(blocks, l)
    PROVE  TupleAt(blocks, l) \in Tuples /\ TupleAt(blocks, l) # NoValue
  <1> DEFINE page == blocks[l.page]
  <1>1. l.page \in 1..MaxPage /\ l.slot \in 1..Slots
    BY LocFacts
  <1>2. page # Blank /\ ~(l.slot > Len(page)) /\ TupleAt(blocks, l) = page[l.slot]
    BY DEF Readable, TupleAt
  <1>3. page \in Seq(Tuples)
    BY <1>1, <1>2 DEF Blocks
  <1> HIDE DEF page
  <1>4. page[l.slot] \in Tuples
    BY <1>1, <1>2, <1>3, EngineAssumption
  <1>5. NoValue \notin Tuples
    BY EngineAssumption DEF Tuples
  <1> QED
    BY <1>2, <1>4, <1>5

\* A page that was blank, or that grows, changes no readable location, and
\* its tuples are readable at their slots.
LEMMA GrownPage ==
    ASSUME NEW old \in Blocks, NEW new \in Blocks,
           NEW p \in 1..MaxPage, new[p] \in Seq(Tuples),
           \A q \in 1..MaxPage : q # p => new[q] = old[q],
           old[p] # Blank =>
              /\ Len(old[p]) <= Len(new[p])
              /\ \A i \in 1..Len(old[p]) : new[p][i] = old[p][i]
    PROVE  /\ Keeps(old, new)
           /\ new[p] # Blank
           /\ \A l \in Locs : l.page = p /\ l.slot <= Len(new[p])
                               => TupleAt(new, l) = new[p][l.slot]
  <1>1. new[p] # Blank
    BY EngineAssumption DEF Tuples
  <1>2. \A l \in Locs : l.page = p /\ l.slot <= Len(new[p])
                            => TupleAt(new, l) = new[p][l.slot]
    BY <1>1, LocFacts DEF TupleAt
  <1>3. ASSUME NEW l \in Locs, Readable(old, l)
        PROVE  TupleAt(new, l) = TupleAt(old, l)
    <2>1. l.page \in 1..MaxPage /\ l.slot \in 1..Slots
      BY LocFacts
    <2>2. CASE l.page # p
      BY <2>1, <2>2 DEF TupleAt
    <2>3. CASE l.page = p
      <3>1. /\ old[p] # Blank /\ l.slot <= Len(old[p])
            /\ TupleAt(old, l) = old[p][l.slot]
        BY <1>3, <2>1, <2>3 DEF Readable, TupleAt, Blocks
      <3>2. old[p] \in Seq(Tuples)
        BY <3>1 DEF Blocks
      <3> QED
        BY <1>2, <2>1, <2>3, <3>1, <3>2
    <2> QED
      BY <2>2, <2>3
  <1> QED
    BY <1>1, <1>2, <1>3 DEF Keeps

-----------------------------------------------------------------------------
(* The invariant is inductive.                                             *)

\* A new store has no tuples and no keys.
LEMMA InitIInv == Init => IInv
  <1> SUFFICES ASSUME Init PROVE IInv
    OBVIOUS
  <1> USE EngineAssumption DEF Init, Heap!Init, Heap!Ids, Index!Init
  <1>1. Stored
    BY DEF Stored, Blocks
  <1>2. TypeOK
    BY DEF TypeOK
  <1>3. Extended
    BY DEF Extended, Keeps
  <1>4. Located /\ Doubted /\ Called /\ Settled
    BY DEF Located, Read, Doubted, Called, Settled
  <1> QED
    BY <1>1, <1>2, <1>3, <1>4 DEF IInv

\* Pages that only grow keep the parts of the invariant about what is there.
LEMMA GrowthKeeps ==
    ASSUME IInv, Keeps(pages, pages'), durable' = durable,
           index' = index, acked' = acked, lost' = lost
    PROVE  /\ Extended'
           /\ Located'
           /\ \A k \in Keys, l \in Locs : <<k, l>> \in doubt => Readable(pages', l)
  <1>1. Extended'
    BY DEF IInv, Extended, Keeps, Readable
  <1>2. Located'
    <2> SUFFICES ASSUME NEW k \in Keys, k \notin lost
                 PROVE  Read(k)' = acked[k]
      BY DEF Located
    <2>1. Read(k) = acked[k] /\ acked[k] # Unreadable
      BY EngineAssumption DEF IInv, Located, TypeOK
    <2>2. CASE index[k] = NoLoc
      BY <2>1, <2>2 DEF Read
    <2>3. CASE index[k] # NoLoc
      <3>1. index[k] \in Locs
        BY <2>3 DEF IInv, TypeOK
      <3> QED
        BY <2>1, <2>3, <3>1 DEF Read, Keeps, Readable
    <2> QED
      BY <2>2, <2>3
  <1>3. \A k \in Keys, l \in Locs : <<k, l>> \in doubt => Readable(pages', l)
    BY DEF IInv, Doubted, Keeps, Readable
  <1> QED
    BY <1>1, <1>2, <1>3

\* Heap::insert, either way: the tuple is at InsertLoc, and the rest is kept.
LEMMA InsertFacts ==
    ASSUME IInv, NEW t \in Tuples, InsertCurrent(t) \/ InsertNew(t)
    PROVE  /\ pages' \in Blocks /\ durable' = durable /\ mark' = mark
           /\ up' = up /\ next' \in 0..(MaxPage + 1) /\ (up => next' # 0)
           /\ current' \in 1..MaxPage /\ pages'[current'] # Blank
           /\ Keeps(pages, pages')
           /\ InsertLoc \in Locs
           /\ TupleAt(pages', InsertLoc) = t
  <1>1. /\ pages \in Blocks /\ current \in 0..MaxPage
        /\ current # 0 => pages[current] # Blank
        /\ next \in 0..(MaxPage + 1) /\ (up => next # 0)
    BY DEF IInv, Stored, TypeOK
  <1>2. current # 0 => pages[current] \in Seq(Tuples)
    BY <1>1 DEF Blocks
  <1>3. CASE InsertCurrent(t)
    <2>1. /\ Fits /\ current \in 1..MaxPage /\ current' = current
          /\ pages' = [pages EXCEPT ![current] = Append(pages[current], t)]
          /\ durable' = durable /\ mark' = mark /\ up' = up /\ next' = next
      BY <1>1, <1>3 DEF InsertCurrent, Fits, Heap!Write
    <2>2. InsertLoc = [page |-> current, slot |-> Len(pages[current]) + 1]
      BY <2>1 DEF InsertLoc
    <2>3. InsertLoc \in Locs
      BY <1>2, <2>1, <2>2, EngineAssumption DEF Fits, Locs
    <2>4. /\ pages' \in Blocks /\ pages'[current] = Append(pages[current], t)
          /\ pages'[current] \in Seq(Tuples)
          /\ \A q \in 1..MaxPage : q # current => pages'[q] = pages[q]
      BY <1>1, <1>2, <2>1 DEF Blocks
    <2>5. /\ Len(pages'[current]) = Len(pages[current]) + 1
          /\ \A i \in 1..Len(pages[current]) : pages'[current][i] = pages[current][i]
          /\ pages'[current][Len(pages[current]) + 1] = t
      BY <1>2, <2>1, <2>4
    <2>6. /\ current \in 1..MaxPage /\ pages \in Blocks
          /\ Len(pages[current]) \in Nat
          /\ Len(pages[current]) <= Len(pages'[current])
          /\ pages' \in Blocks /\ pages'[current] \in Seq(Tuples)
          /\ \A q \in 1..MaxPage : q # current => pages'[q] = pages[q]
          /\ \A i \in 1..Len(pages[current]) : pages'[current][i] = pages[current][i]
      BY <1>1, <1>2, <2>1, <2>4, <2>5
    <2>7. /\ Keeps(pages, pages') /\ pages'[current] # Blank
          /\ \A l \in Locs : l.page = current /\ l.slot <= Len(pages'[current])
                              => TupleAt(pages', l) = pages'[current][l.slot]
      BY <2>6, GrownPage
    <2>8. TupleAt(pages', InsertLoc) = t
      BY <2>2, <2>3, <2>5, <2>6, <2>7
    <2> QED
      BY <1>1, <2>1, <2>3, <2>4, <2>7, <2>8
  <1>4. CASE InsertNew(t)
    <2>1. /\ NeedsPage /\ next \in 1..MaxPage /\ current' = next
          /\ pages[next] = Blank
          /\ pages' = [pages EXCEPT ![next] = <<t>>]
          /\ durable' = durable /\ mark' = mark /\ up' = up
          /\ next' \in {next, next + 1}
      BY <1>4 DEF InsertNew, Heap!Create
    <2>2. ~Fits
      BY <1>1, <1>2, <2>1 DEF Fits, NeedsPage
    <2>3. InsertLoc = [page |-> next, slot |-> 1] /\ InsertLoc \in Locs
      BY <2>1, <2>2, EngineAssumption DEF InsertLoc, Locs
    <2>4. /\ pages' \in Blocks /\ pages'[next] \in Seq(Tuples)
          /\ Len(pages'[next]) = 1 /\ pages'[next][1] = t
          /\ \A q \in 1..MaxPage : q # next => pages'[q] = pages[q]
      BY <1>1, <2>1 DEF Blocks
    <2>5. next \in 1..MaxPage /\ pages[next] = Blank /\ pages \in Blocks
      BY <1>1, <2>1
    <2>6. /\ Keeps(pages, pages') /\ pages'[next] # Blank
          /\ \A l \in Locs : l.page = next /\ l.slot <= Len(pages'[next])
                              => TupleAt(pages', l) = pages'[next][l.slot]
      BY <2>4, <2>5, GrownPage
    <2>7. TupleAt(pages', InsertLoc) = t
      BY <2>3, <2>4, <2>6
    <2> QED
      BY <1>1, <2>1, <2>3, <2>4, <2>6, <2>7, EngineAssumption
  <1> QED
    BY <1>3, <1>4

\* put stores the tuple and goes to the index with its location.
LEMMA PutIInv ==
    ASSUME IInv, NEW k \in Keys, Put(k)
    PROVE  IInv'
  <1> USE EngineAssumption
  <1>1. puts + 1 \in Tuples /\ puts' = puts + 1 /\ puts' \in 0..MaxPuts
    BY DEF Put, IInv, Stored, Tuples
  <1>2. /\ doubt' = doubt \cup {<<k, InsertLoc>>} /\ index' = index
        /\ call' = [key |-> k, loc |-> InsertLoc, val |-> puts + 1]
        /\ fresh' = fresh \cup {k} /\ views' = views
        /\ acked' = acked /\ lost' = lost
    BY DEF Put, Index!Attempt
  <1>3. /\ pages' \in Blocks /\ durable' = durable /\ mark' = mark
        /\ up' = up /\ next' \in 0..(MaxPage + 1) /\ (up => next' # 0)
        /\ current' \in 1..MaxPage /\ pages'[current'] # Blank
        /\ Keeps(pages, pages')
        /\ InsertLoc \in Locs
        /\ TupleAt(pages', InsertLoc) = puts + 1
    BY <1>1, InsertFacts DEF Put
  <1>4. Stored'
    BY <1>1, <1>3 DEF IInv, Stored
  <1>5. TypeOK'
    BY <1>2, <1>3, <1>4 DEF IInv, TypeOK, Stored, Blocks, Tuples
  <1>6. /\ Extended' /\ Located'
        /\ \A j \in Keys, l \in Locs : <<j, l>> \in doubt => Readable(pages', l)
    BY <1>2, <1>3, GrowthKeeps
  <1>7. Readable(pages', InsertLoc)
    BY <1>1, <1>3 DEF Readable, Tuples
  <1>8. Doubted'
    BY <1>2, <1>6, <1>7 DEF Doubted
  <1>9. Called'
    BY <1>1, <1>2, <1>3 DEF Called
  <1>10. Settled'
    BY <1>2, <1>3 DEF IInv, Settled
  <1> QED
    BY <1>4, <1>5, <1>6, <1>8, <1>9, <1>10 DEF IInv

\* Steps that change neither the pages nor what the index holds.
LEMMA QuietIInv ==
    ASSUME IInv,
           \/ Open \/ PutExhausted \/ IndexFails
           \/ \E k \in Keys : View(k)
           \/ \E p \in 1..MaxPage : DropView(p)
           \/ UNCHANGED vars
    PROVE  IInv'
  <1>1. /\ UNCHANGED <<pages, durable, mark, lsm, current, puts, history>>
        /\ call' \in {call, NoCall}
    BY DEF Open, Heap!Open, Index!Open, PutExhausted, Heap!Take, IndexFails,
           View, DropView, vars, heap, lsm, history
  <1>2. /\ next' \in 0..(MaxPage + 1) /\ (up' => next' # 0)
        /\ views' \subseteq 1..MaxPage
    <2>1. CASE Open
      BY <2>1, EngineAssumption DEF Open, Heap!Open, IInv, TypeOK, Stored
    <2>2. CASE PutExhausted
      BY <2>2, EngineAssumption DEF PutExhausted, Heap!Take, Heap!Ids, IInv, TypeOK, Stored
    <2>3. CASE IndexFails \/ UNCHANGED vars
      <3>1. UNCHANGED <<next, up, views>>
        BY <2>3 DEF IndexFails, vars, heap
      <3>2. (up => next # 0)'
        BY <3>1, Zenon DEF IInv, Stored
      <3> QED
        BY <3>1, <3>2 DEF IInv, TypeOK
    <2>4. CASE \E k \in Keys : View(k)
      <3>1. PICK k \in Keys : View(k)
        BY <2>4
      <3>2. index[k] \in Locs
        BY <3>1 DEF View, Read, IInv, TypeOK
      <3> QED
        BY <3>1, <3>2, LocFacts DEF View, heap, IInv, TypeOK, Stored
    <2>5. CASE \E p \in 1..MaxPage : DropView(p)
      BY <2>5 DEF DropView, heap, IInv, TypeOK, Stored
    <2> QED
      BY <2>1, <2>2, <2>3, <2>4, <2>5
  <1>3. TypeOK' /\ Stored'
    BY <1>1, <1>2 DEF IInv, TypeOK, Stored, lsm, history
  <1>4. Extended' /\ Located' /\ Doubted' /\ Settled'
    BY <1>1 DEF IInv, Extended, Located, Read, Doubted, Settled, lsm, history
  <1>5. Called'
    BY <1>1 DEF IInv, Called
  <1> QED
    BY <1>3, <1>4, <1>5 DEF IInv

\* A tuple too large for a page leaves a new, empty one.
LEMMA TooLargeIInv ==
    ASSUME IInv, PutTooLarge
    PROVE  IInv'
  <1>1. /\ UNCHANGED <<durable, mark, lsm, current, views, call, puts, history, up>>
        /\ next \in 1..MaxPage /\ next' \in {next, next + 1}
        /\ pages[next] = Blank /\ pages' = [pages EXCEPT ![next] = <<>>]
        /\ call = NoCall
    BY DEF PutTooLarge, Heap!Create, Idle
  <1>2. /\ pages \in Blocks /\ pages' \in Blocks
        /\ pages'[next] \in Seq(Tuples)
        /\ \A q \in 1..MaxPage : q # next => pages'[q] = pages[q]
    BY <1>1 DEF IInv, Stored, Blocks
  <1>3. Keeps(pages, pages')
    <2>1. next \in 1..MaxPage /\ pages[next] = Blank
      BY <1>1
    <2> QED
      BY <1>2, <2>1, GrownPage
  <1>4. /\ Extended' /\ Located'
        /\ \A k \in Keys, l \in Locs : <<k, l>> \in doubt => Readable(pages', l)
    BY <1>1, <1>3, GrowthKeeps DEF lsm, history
  <1>5. Stored'
    BY <1>1, <1>2 DEF IInv, Stored, TypeOK
  <1>6. TypeOK'
    <2>1. next' \in 0..(MaxPage + 1)
      BY <1>1, EngineAssumption
    <2>2. \A p \in 1..MaxPage : \A page \in {pages'[p], durable'[p]} :
             page = Blank \/ page \in Seq(1..MaxPuts)
      BY <1>5 DEF Stored, Blocks, Tuples
    <2>3. UNCHANGED <<lsm, current, views, history>>
      BY <1>1
    <2> QED
      BY <2>1, <2>2, <2>3 DEF IInv, TypeOK, lsm, history
  <1>7. Doubted' /\ Settled'
    BY <1>1, <1>4 DEF IInv, Doubted, Settled, lsm, history
  <1>8. Called'
    BY <1>1 DEF Called
  <1> QED
    BY <1>4, <1>5, <1>6, <1>7, <1>8 DEF IInv

\* delete goes to the index only.
LEMMA DeleteIInv ==
    ASSUME IInv, NEW k \in Keys, Delete(k)
    PROVE  IInv'
  <1>1. /\ UNCHANGED <<pages, durable, next, mark, index, current, views, puts, up>>
        /\ acked' = acked /\ lost' = lost
        /\ doubt' = doubt \cup {<<k, NoLoc>>}
        /\ fresh' = fresh \cup {k}
        /\ call' = [key |-> k, loc |-> NoLoc, val |-> NoValue]
    BY DEF Delete, Index!Attempt, heap
  <1>2. TypeOK' /\ Stored'
    BY <1>1 DEF IInv, TypeOK, Stored
  <1>3. Extended' /\ Located' /\ Called'
    BY <1>1 DEF IInv, Extended, Located, Read, Called
  <1>4. \A j \in Keys, l \in Locs : <<j, l>> \in doubt' => <<j, l>> \in doubt
    BY <1>1, LocFacts
  <1>5. Doubted' /\ Settled'
    BY <1>1, <1>4 DEF IInv, Doubted, Settled
  <1> QED
    BY <1>2, <1>3, <1>5 DEF IInv

\* The index returns: the call is acknowledged.
LEMMA ReturnIInv ==
    ASSUME IInv, Return
    PROVE  IInv'
  <1> DEFINE k == call.key
  <1>1. /\ UNCHANGED <<pages, durable, next, mark, current, views, puts, fresh, up>>
        /\ <<k, call.loc>> \in doubt
        /\ index' = [index EXCEPT ![k] = call.loc]
        /\ acked' = [acked EXCEPT ![k] = call.val]
        /\ doubt' \subseteq doubt
        /\ lost' = lost \ {k}
        /\ call' = NoCall
    BY DEF Return, Index!Acknowledge, heap
  <1>2. /\ k \in Keys
        /\ \/ call.loc = NoLoc /\ call.val = NoValue
           \/ /\ call.loc \in Locs
              /\ call.val \in Tuples
              /\ TupleAt(pages, call.loc) = call.val
    BY DEF Return, IInv, Called
  <1>3. index' \in [Keys -> Locs \cup {NoLoc}] /\ acked' \in [Keys -> 0..MaxPuts \cup {NoValue}]
    BY <1>1, <1>2 DEF IInv, TypeOK, Tuples
  <1>4. TypeOK' /\ Stored'
    BY <1>1, <1>3 DEF IInv, TypeOK, Stored
  <1>5. Extended' /\ Called'
    BY <1>1 DEF IInv, Extended, Called
  <1>6. /\ index'[k] = call.loc /\ acked'[k] = call.val
        /\ \A j \in Keys \ {k} : index'[j] = index[j] /\ acked'[j] = acked[j]
    BY <1>1, <1>2 DEF IInv, TypeOK
  <1>7. Located'
    <2> SUFFICES ASSUME NEW j \in Keys, j \notin lost'
                 PROVE  Read(j)' = acked'[j]
      BY DEF Located
    <2>1. CASE j = k
      BY <1>1, <1>2, <1>6, <2>1, LocFacts DEF Read
    <2>2. CASE j # k
      BY <1>1, <1>6, <2>2 DEF IInv, Located, Read
    <2> QED
      BY <2>1, <2>2
  <1>8. Doubted'
    BY <1>1 DEF IInv, Doubted
  <1>9. Settled'
    <2> SUFFICES ASSUME NEW j \in Keys \ fresh
                 PROVE  /\ j \notin lost' /\ index'[j] # NoLoc
                              => Readable(durable, index'[j])
                        /\ \A l \in Locs : <<j, l>> \in doubt' => Readable(durable, l)
      BY <1>1 DEF Settled
    <2>1. CASE j = k
      BY <1>1, <1>2, <1>6, <2>1 DEF IInv, Settled
    <2>2. CASE j # k
      BY <1>1, <1>6, <2>2 DEF IInv, Settled
    <2> QED
      BY <2>1, <2>2
  <1> QED
    BY <1>4, <1>5, <1>7, <1>8, <1>9 DEF IInv

\* flush, and a cache miss that commits: the committed pages are the pages.
LEMMA CommitIInv ==
    ASSUME IInv, Flush \/ Evict
    PROVE  IInv'
  <1>1. /\ UNCHANGED <<pages, next, lsm, up, current, views, call, puts>>
        /\ acked' = acked /\ lost' = lost
        /\ up /\ mark' = next
        /\ durable' = [p \in 1..MaxPage |-> pages[p]]
    BY DEF Flush, Evict, Heap!Commit, Heap!Ids, history
  <1>2. durable' = pages
    BY <1>1 DEF IInv, Stored, Blocks
  <1>3. fresh' \subseteq Keys
    BY DEF Flush, Evict, history, IInv, TypeOK
  <1>4. Stored'
    <2>1. next # 0
      BY <1>1, Zenon DEF IInv, Stored
    <2>2. mark' \in 1..(MaxPage + 1) /\ next' # 0
      BY <1>1, <2>1, EngineAssumption DEF IInv, TypeOK
    <2> QED
      BY <1>1, <1>2, <2>2 DEF IInv, Stored
  <1>5. TypeOK'
    BY <1>1, <1>2, <1>3 DEF IInv, TypeOK, lsm
  <1>6. Extended' /\ Located' /\ Doubted' /\ Called'
    BY <1>1, <1>2 DEF IInv, Extended, Keeps, Located, Read, Doubted, Called, lsm
  <1>7. Settled'
    <2> SUFFICES ASSUME NEW k \in Keys
                 PROVE  /\ k \notin lost /\ index[k] # NoLoc => Readable(pages, index[k])
                        /\ \A l \in Locs : <<k, l>> \in doubt => Readable(pages, l)
      BY <1>1, <1>2 DEF Settled, lsm
    <2>1. k \notin lost /\ index[k] # NoLoc => Readable(pages, index[k])
      BY EngineAssumption DEF IInv, Located, Read, Readable, TypeOK
    <2> QED
      BY <2>1 DEF IInv, Doubted
  <1> QED
    BY <1>4, <1>5, <1>6, <1>7 DEF IInv

\* What a crash makes of a key: its location is the one it had or one in
\* doubt, and unless its tuple is lost the committed pages hold it.
LEMMA CrashFacts ==
    ASSUME IInv, Crash, NEW k \in Keys
    PROVE  /\ index'[k] \in Locs \cup {NoLoc}
           /\ index'[k] = index[k] \/ <<k, index'[k]>> \in doubt
           /\ acked'[k] = IF index'[k] = index[k] THEN acked[k]
                          ELSE IF index'[k] = NoLoc THEN NoValue
                          ELSE TupleAt(pages, index'[k])
           /\ k \in lost' <=> \/ k \in lost /\ index'[k] = index[k]
                              \/ /\ index'[k] # NoLoc
                                 /\ ~Readable(durable, index'[k])
  BY DEF Crash, Index!Crash, Readable

\* A crash takes the pages back to the last commit, under an index that stays.
LEMMA CrashIInv ==
    ASSUME IInv, Crash
    PROVE  IInv'
  <1>1. /\ pages' = durable /\ durable' = durable /\ mark' = mark /\ next' = 0
        /\ up' = FALSE /\ current' = 0 /\ views' = {} /\ call' = NoCall
        /\ doubt' = {} /\ puts' = puts /\ fresh' = fresh
        /\ index' \in [Keys -> Locs \cup {NoLoc}]
    BY DEF Crash, Heap!Crash, Index!Crash
  <1>2. ASSUME NEW k \in Keys, index'[k] # index[k], index'[k] # NoLoc
        PROVE  /\ index'[k] \in Locs
               /\ TupleAt(pages, index'[k]) \in Tuples
    <2>1. index'[k] \in Locs /\ <<k, index'[k]>> \in doubt
      BY <1>2, CrashFacts
    <2>2. Readable(pages, index'[k]) /\ pages \in Blocks
      BY <2>1 DEF IInv, Doubted, Stored
    <2> QED
      BY <2>1, <2>2, TupleFacts
  <1>3. acked' \in [Keys -> 0..MaxPuts \cup {NoValue}]
    <2>1. ASSUME NEW k \in Keys PROVE acked'[k] \in 0..MaxPuts \cup {NoValue}
      <3>1. CASE index'[k] = index[k]
        BY <3>1, CrashFacts DEF IInv, TypeOK
      <3>2. CASE index'[k] # index[k] /\ index'[k] = NoLoc
        BY <3>2, CrashFacts
      <3>3. CASE index'[k] # index[k] /\ index'[k] # NoLoc
        <4>1. TupleAt(pages, index'[k]) \in 1..MaxPuts
          BY <1>2, <3>3 DEF Tuples
        <4>2. acked'[k] = TupleAt(pages, index'[k])
          BY <3>3, CrashFacts
        <4> QED
          BY <4>1, <4>2, EngineAssumption
      <3> QED
        BY <3>1, <3>2, <3>3
    <2>2. acked' = [k \in Keys |-> acked'[k]]
      BY DEF Crash
    <2> QED
      BY <2>1, <2>2
  <1>4. Stored'
    BY <1>1 DEF IInv, Stored
  <1>5. TypeOK'
    <2>1. lost' \subseteq Keys
      BY DEF Crash
    <2> QED
      BY <1>1, <1>3, <2>1, EngineAssumption DEF IInv, TypeOK
  <1>6. Extended' /\ Doubted' /\ Called'
    BY <1>1 DEF Extended, Keeps, Doubted, Called
  <1>7. Located'
    <2> SUFFICES ASSUME NEW k \in Keys, k \notin lost'
                 PROVE  Read(k)' = acked'[k]
      BY DEF Located
    <2>1. CASE index'[k] = NoLoc
      <3>1. acked'[k] = NoValue
        BY <2>1, CrashFacts DEF IInv, Located, Read
      <3> QED
        BY <2>1, <3>1 DEF Read
    <2>2. CASE index'[k] # NoLoc
      <3>1. index'[k] \in Locs /\ Readable(durable, index'[k])
        BY <2>2, CrashFacts
      <3>2. TupleAt(pages, index'[k]) = TupleAt(durable, index'[k])
        BY <3>1 DEF IInv, Extended, Keeps
      <3>3. acked'[k] = TupleAt(pages, index'[k])
        BY <2>2, CrashFacts DEF IInv, Located, Read
      <3> QED
        BY <1>1, <2>2, <3>2, <3>3 DEF Read
    <2> QED
      BY <2>1, <2>2
  <1>8. Settled'
    BY <1>1, CrashFacts DEF Settled
  <1> QED
    BY <1>4, <1>5, <1>6, <1>7, <1>8 DEF IInv

\* Every step preserves the invariant.
LEMMA NextIInv == IInv /\ [Next]_vars => IInv'
  <1> SUFFICES ASSUME IInv, [Next]_vars
               PROVE  IInv'
    OBVIOUS
  <1>1. CASE \E k \in Keys : Put(k)
    BY <1>1, PutIInv
  <1>2. CASE \E k \in Keys : Delete(k)
    BY <1>2, DeleteIInv
  <1>3. CASE \/ Open \/ PutExhausted \/ IndexFails
             \/ \E k \in Keys : View(k)
             \/ \E p \in 1..MaxPage : DropView(p)
             \/ UNCHANGED vars
    BY <1>3, QuietIInv
  <1>4. CASE PutTooLarge
    BY <1>4, TooLargeIInv
  <1>5. CASE Return
    BY <1>5, ReturnIInv
  <1>6. CASE Flush \/ Evict
    BY <1>6, CommitIInv
  <1>7. CASE Crash
    BY <1>7, CrashIInv
  <1> QED
    BY <1>1, <1>2, <1>3, <1>4, <1>5, <1>6, <1>7 DEF Next

\* The inductive invariant holds in every reachable state.
LEMMA AlwaysIInv == Spec => []IInv
  BY InitIInv, NextIInv, PTL DEF Spec

-----------------------------------------------------------------------------
(***************************************************************************)
(* The engine's variables keep their types: StorageEngine::put never makes *)
(* the index hold a location outside the heap's pages and slots, and a     *)
(* crash never leaves a key with a value that no put stored.               *)
(***************************************************************************)
THEOREM EngineTypes == Spec => []TypeOK
  <1>1. IInv => TypeOK
    BY DEF IInv
  <1> QED
    BY <1>1, AlwaysIInv, PTL

(***************************************************************************)
(* StorageEngine::get returns the last acknowledged value of every key     *)
(* whose tuple no crash has taken, however often page ids are handed out   *)
(* again and whatever became of the writes that failed.                    *)
(***************************************************************************)
THEOREM ReadsRightAlways == Spec => []ReadsRight
  <1>1. IInv => ReadsRight
    BY DEF IInv, Located, ReadsRight
  <1> QED
    BY <1>1, AlwaysIInv, PTL

(***************************************************************************)
(* StorageEngine::flush is a durability point: a crash takes the tuple of  *)
(* no key that was left alone since the last flush.                        *)
(***************************************************************************)
THEOREM CrashTakesOnlyFresh == Spec => LostOnlyFresh
  <1>1. IInv /\ [Next]_vars
            => [\A k \in Keys : k \in lost' => k \in lost \/ k \in fresh]_vars
    <2> SUFFICES ASSUME IInv, Next, NEW k \in Keys, k \in lost'
                 PROVE  k \in lost \/ k \in fresh
      OBVIOUS
    <2>1. CASE Crash
      <3> SUFFICES ASSUME k \notin lost, k \notin fresh
                   PROVE  FALSE
        OBVIOUS
      <3>1. /\ index'[k] # NoLoc /\ ~Readable(durable, index'[k])
            /\ index'[k] \in Locs
            /\ index'[k] = index[k] \/ <<k, index'[k]>> \in doubt
        BY <2>1, CrashFacts
      <3> QED
        BY <3>1 DEF IInv, Settled
    <2>2. CASE ~Crash
      <3>1. lost' \subseteq lost
        BY <2>2 DEF Next, Open, Put, Delete, View, PutExhausted, PutTooLarge,
           Return, IndexFails, Flush, Evict, DropView, history
      <3> QED
        BY <3>1
    <2> QED
      BY <2>1, <2>2
  <1> QED
    BY <1>1, AlwaysIInv, PTL DEF Spec, LostOnlyFresh
=============================================================================
