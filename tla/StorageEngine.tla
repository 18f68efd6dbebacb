--------------------------- MODULE StorageEngine ----------------------------
(***************************************************************************)
(* crates/strata-store with filesystem's Heap: an index over a heap.  The  *)
(* index is the LSM tree, used through its promise (DurableKv: every write *)
(* durable when it returns); the heap's pages are in the page cache, used  *)
(* through its promise (AtomicPages: durable at a flush).  The two journal *)
(* independently, and a crash takes both down at once.                     *)
(*                                                                         *)
(* A heap page is the sequence of its tuples; a location is a page and a   *)
(* slot; a tuple is the number of the put that stored it.                  *)
(***************************************************************************)
EXTENDS Naturals, Sequences

CONSTANTS Keys,
          MaxPage,     \* bound: heap pages
          Slots,       \* tuples a page holds
          MaxPuts,     \* bound: put calls
          MaxFaults,   \* bound: crashes and failed calls
          Blank,       \* a heap page never written
          NoLoc,       \* no location: an absent or deleted key
          NoValue,     \* get returns None
          Unreadable   \* get returns Err, or a view without bytes

ASSUME EngineAssumption ==
    /\ MaxPage \in Nat /\ MaxPuts \in Nat /\ MaxFaults \in Nat
    /\ Slots \in Nat \ {0}
    /\ NoValue \notin Nat /\ Unreadable \notin Nat /\ NoValue # Unreadable
    /\ NoLoc \notin [page : Nat, slot : Nat]
    /\ Blank \notin Seq(1..MaxPuts)

VARIABLES pages, durable, next, mark,  \* the heap (AtomicPages)
          index, doubt,          \* the index (DurableKv)
          up,
          current,  \* Heap::current: the page being filled, 0 for None
          views,    \* pages that some TupleRef pins
          call,     \* the write under way: its key, location and tuple
          puts, faults,    \* counters for the bounds
          acked,    \* history: each key's last acknowledged value
          lost,     \* history: keys whose tuple a crash took
          fresh     \* history: keys written since the last flush

heap == <<pages, durable, next, mark>>
lsm == <<index, doubt>>
history == <<acked, lost, fresh>>
vars == <<heap, lsm, up, current, views, call, puts, faults, history>>

Locs == [page : 1..MaxPage, slot : 1..Slots]
NoCall == [key |-> NoLoc, loc |-> NoLoc, val |-> NoValue]

Heap == INSTANCE AtomicPages WITH held <- {}
Index == INSTANCE DurableKv WITH
    Values <- Locs, NoValue <- NoLoc, store <- index

\* Every variable keeps its type: pages in the cache and on disk, the locations of
\* the index, and no page beyond the bound (Heap::insert and StorageEngine::put).
TypeOK ==
    /\ \A p \in 1..MaxPage : \A page \in {pages[p], durable[p]} :
          page = Blank \/ page \in Seq(1..MaxPuts)
    /\ next \in 0..(MaxPage + 1)
    /\ index \in [Keys -> Locs \cup {NoLoc}]
    /\ doubt \subseteq Keys \X (Locs \cup {NoLoc})
    /\ current \in 0..MaxPage
    /\ views \subseteq 1..MaxPage
    /\ acked \in [Keys -> 0..MaxPuts \cup {NoValue}]
    /\ lost \subseteq Keys /\ fresh \subseteq Keys

Init ==
    /\ Heap!Init
    /\ Index!Init
    /\ current = 0
    /\ views = {}
    /\ call = NoCall
    /\ puts = 0 /\ faults = 0
    /\ acked = [k \in Keys |-> NoValue]
    /\ lost = {} /\ fresh = {}

Fault == faults < MaxFaults /\ faults' = faults + 1
Idle == up /\ call = NoCall

-----------------------------------------------------------------------------
\* TuplePage::get through the cache: the tuple at loc, if there is one.
TupleAt(blocks, loc) ==
    IF blocks[loc.page] = Blank \/ loc.slot > Len(blocks[loc.page])
    THEN Unreadable
    ELSE blocks[loc.page][loc.slot]

\* StorageEngine::get and scan.
Read(k) == IF index[k] = NoLoc THEN NoValue ELSE TupleAt(pages, index[k])

\* StorageEngine::new: the heap starts without a current page.
Open ==
    /\ Heap!Open
    /\ Index!Open
    /\ UNCHANGED <<current, views, call, puts, faults, history>>

-----------------------------------------------------------------------------
(* Heap::insert.                                                           *)

\* Mutant: one tuple too many fits.
FitsOneMore == current # 0 /\ current \notin views /\ Len(pages[current]) <= Slots

\* try_append gets the current page for writing, and the tuple fits.
Fits == current # 0 /\ current \notin views /\ Len(pages[current]) < Slots

\* No current page, or it is full: allocate one.  (A current page that a
\* view pins is Busy, full or not, and the put fails.)
NeedsPage == current # 0 => current \notin views /\ Len(pages[current]) = Slots

InsertCurrent(t) ==
    /\ Fits
    /\ Heap!Write(current, Append(pages[current], t))
    /\ UNCHANGED current

InsertNew(t) ==
    /\ NeedsPage
    /\ next \in 1..MaxPage
    /\ Heap!Create(next, <<t>>)
    /\ current' = next

\* Mutant: the slot before.
InsertLocBefore ==
    IF Fits THEN [page |-> current, slot |-> Len(pages[current])]
            ELSE [page |-> next, slot |-> 1]

\* Where the tuple lands.
InsertLoc ==
    IF Fits THEN [page |-> current, slot |-> Len(pages[current]) + 1]
            ELSE [page |-> next, slot |-> 1]

\* put: the tuple goes into the heap, then the index write starts ...
Put(k) ==
    /\ Idle
    /\ puts < MaxPuts
    /\ puts' = puts + 1
    /\ InsertCurrent(puts + 1) \/ InsertNew(puts + 1)
    /\ Index!Attempt(k, InsertLoc)
    /\ call' = [key |-> k, loc |-> InsertLoc, val |-> puts + 1]
    /\ fresh' = fresh \cup {k}
    /\ UNCHANGED <<views, faults, acked, lost>>

\* The heap refuses the tuple: the new page's id is taken and then no frame
\* or no disk space is found, ...
PutExhausted ==
    /\ Idle /\ Fault
    /\ NeedsPage
    /\ Heap!Take
    /\ UNCHANGED <<lsm, current, views, call, puts, history>>

\* ... or the tuple is larger than the new, empty page, which stays.
PutTooLarge ==
    /\ Idle /\ Fault
    /\ current \notin views
    /\ next \in 1..MaxPage
    /\ Heap!Create(next, <<>>)
    /\ UNCHANGED <<lsm, current, views, call, puts, history>>

\* delete: a tombstone in the index, nothing in the heap.
Delete(k) ==
    /\ Idle
    /\ Index!Attempt(k, NoLoc)
    /\ call' = [key |-> k, loc |-> NoLoc, val |-> NoValue]
    /\ fresh' = fresh \cup {k}
    /\ UNCHANGED <<heap, current, views, puts, faults, acked, lost>>

\* The index write returns Ok, and so does the call, ...
Return ==
    /\ call # NoCall
    /\ Index!Acknowledge(call.key, call.loc)
    /\ acked' = [acked EXCEPT ![call.key] = call.val]
    /\ lost' = lost \ {call.key}
    /\ call' = NoCall
    /\ UNCHANGED <<heap, current, views, puts, faults, fresh>>

\* ... or fails: the tuple stays in the heap, unreferenced.
IndexFails ==
    /\ call # NoCall
    /\ Fault
    /\ call' = NoCall
    /\ UNCHANGED <<heap, lsm, up, current, views, puts, history>>

-----------------------------------------------------------------------------
\* Mutant: only the memtable is sealed.
FlushIndexOnly ==
    /\ Idle
    /\ fresh' = {}
    /\ UNCHANGED <<heap, lsm, up, current, views, call, puts, faults, acked, lost>>

\* flush: the heap commits; sealing the memtable changes no read.
Flush ==
    /\ Idle
    /\ Heap!Commit
    /\ fresh' = {}
    /\ UNCHANGED <<lsm, current, views, call, puts, faults, acked, lost>>

\* A cache miss of some call commits the dirty pages to make room.
Evict ==
    /\ Idle
    /\ pages # durable
    /\ Heap!Commit
    /\ UNCHANGED <<lsm, current, views, call, puts, faults, history>>

\* get: a view that pins its page, until dropped.
View(k) ==
    /\ Idle
    /\ Read(k) \notin {NoValue, Unreadable}
    /\ views' = views \cup {index[k].page}
    /\ UNCHANGED <<heap, lsm, up, current, call, puts, faults, history>>

DropView(p) ==
    /\ Idle
    /\ p \in views
    /\ views' = views \ {p}
    /\ UNCHANGED <<heap, lsm, up, current, call, puts, faults, history>>

-----------------------------------------------------------------------------
(***************************************************************************)
(* A crash.  The index keeps its acknowledged writes and settles those in  *)
(* doubt; the heap goes back to its last commit.                           *)
(***************************************************************************)
Crash ==
    /\ Fault
    /\ Heap!Crash
    /\ Index!Crash
    /\ acked' = [k \in Keys |->
                    IF index'[k] = index[k] THEN acked[k]
                    ELSE IF index'[k] = NoLoc THEN NoValue
                    ELSE TupleAt(pages, index'[k])]
    /\ lost' = {k \in Keys : \/ k \in lost /\ index'[k] = index[k]
                             \/ /\ index'[k] # NoLoc
                                /\ TupleAt(durable, index'[k]) = Unreadable}
    /\ current' = 0
    /\ views' = {}
    /\ call' = NoCall
    /\ UNCHANGED <<puts, fresh>>

Next ==
    \/ Open
    \/ \E k \in Keys : Put(k) \/ Delete(k) \/ View(k)
    \/ PutExhausted \/ PutTooLarge \/ Return \/ IndexFails
    \/ Flush \/ Evict
    \/ \E p \in 1..MaxPage : DropView(p)
    \/ Crash

Spec == Init /\ [][Next]_vars
-----------------------------------------------------------------------------
(***************************************************************************)
(* Where the promise of a get holds: a key whose tuple no crash has taken  *)
(* reads as its last acknowledged value, whatever crashes did to other     *)
(* keys and although the ids of lost pages are handed out again.           *)
(***************************************************************************)
ReadsRight == up => \A k \in Keys : k \in lost \/ Read(k) = acked[k]

(***************************************************************************)
(* How far flush is the durability point: a crash takes the tuple of no    *)
(* key that was left alone since the last flush.                           *)
(***************************************************************************)
LostOnlyFresh ==
    [][\A k \in Keys : k \in lost' => k \in lost \/ k \in fresh]_vars
=============================================================================
