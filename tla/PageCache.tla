----------------------------- MODULE PageCache ------------------------------
(***************************************************************************)
(* crates/filesystem: the page cache (cache/mod.rs) over the block file    *)
(* (block/disk.rs) and the redo journal (block/journal.rs).                *)
(*                                                                         *)
(* The cache is single-threaded, but its clients hold page handles across  *)
(* calls, a miss may flush, and the process may die at any step of a flush *)
(* or of a recovery.  A page's bytes are a stamp: a number no other        *)
(* version of any page has; 0 is a block never written, whose checksum     *)
(* does not verify.                                                        *)
(***************************************************************************)
EXTENDS Frames, Integers, FiniteSetsExt

CONSTANTS NFrames,    \* frames in the pool
          MaxPage,    \* bound: block ids 1..MaxPage
          Limits,     \* bounds, one of which a behaviour keeps: [stamps,
                      \*   readers, faults], the page versions written, the
                      \*   read handles on one frame, the crashes and I/O
                      \*   errors
          Marker      \* the journal's commit marker

ASSUME PageCacheAssumption ==
    /\ NFrames \in Nat \ {0}
    /\ MaxPage \in Nat \ {0}
    /\ Limits \subseteq [stamps : Nat, readers : Nat, faults : Nat]
    /\ Torn \notin Nat
    /\ Torn # Marker
    /\ {Torn, Marker} \cap [page : Nat, image : Nat] = {}

VARIABLES limit,    \* one of Limits
          file,     \* each block, as the operating system shows it
          disk,     \* each block as of the last completed sync
          super,    \* the high-water mark in the superblock, likewise
          journal,  \* the redo journal (its appends are synced)
          frames,   \* the pool: page, buf, readers, writer, dirty
          nextId,   \* DiskBlockStore::next_id
          pc,       \* the step of a flush or a recovery that comes next
          wants,    \* the call a flush makes room for
          todo,     \* pages the flush under way has yet to write through
          latest,   \* history: each page's newest version in this process
          durable,  \* history: each page as of the last committed flush
          mark,     \* history: nextId as of the last committed flush
          stamp, faults  \* counters for the bounds

blocks == <<file, disk, super>>
history == <<latest, durable, mark>>
counts == <<stamp, faults>>
vars == <<limit, blocks, journal, frames, nextId, pc, wants, todo, history, counts>>

Pages == 1..MaxPage
FrameIds == 1..NFrames
Ops == IF limit.readers = 0 THEN {"write"} ELSE {"read", "write"}

NoCall == [op |-> "none", page |-> 0]
Free == [page |-> 0, buf |-> 0, readers |-> 0, writer |-> FALSE,
         dirty |-> FALSE]

Init ==
    /\ limit \in Limits
    /\ file = [p \in Pages |-> 0]
    /\ disk = file
    /\ super = 1
    /\ journal = <<>>
    /\ frames = [f \in FrameIds |-> Free]
    /\ nextId = 0
    /\ pc = "down"
    /\ wants = NoCall
    /\ todo = {}
    /\ latest = [p \in Pages |-> 0]
    /\ durable = [p \in Pages |-> 0]
    /\ mark = 1
    /\ stamp = 0 /\ faults = 0

Fault == faults < limit.faults /\ faults' = faults + 1

-----------------------------------------------------------------------------
(* Recovery: PageCache::with_journal over a reopened DiskBlockStore.       *)

\* Mutant: the marker is not waited for.
CommittedOpsAll(log) == SelectSeq(Replay(log), LAMBDA op : op # Marker)

\* The records up to the last commit marker.
CommittedOps(log) ==
    LET ops == Replay(log)
        commits == {i \in DOMAIN ops : ops[i] = Marker}
    IN  IF commits = {} THEN <<>> ELSE SubSeq(ops, 1, Max(commits))

\* The after-images they carry; a page's last one wins.
WritesOf(ops, p) == {i \in DOMAIN ops : ops[i] # Marker /\ ops[i].page = p}

RedoneBlock(old, ops, p) ==
    IF WritesOf(ops, p) = {} THEN old ELSE ops[Max(WritesOf(ops, p))].image

Redone(old, log) ==
    LET ops == CommittedOps(log)
    IN  [p \in Pages |-> RedoneBlock(old[p], ops, p)]

\* Mutants: no ensure_allocated; one id too many.
RedoneNextSuper(n, log) == n

RedoneNextSkips(n, log) ==
    LET ops == CommittedOps(log)
    IN  Max({n} \cup {p + 2 : p \in {q \in Pages : WritesOf(ops, q) # {}}})

\* ensure_allocated for every redone page.
RedoneNext(n, log) ==
    LET ops == CommittedOps(log)
    IN  Max({n} \cup {p + 1 : p \in {q \in Pages : WritesOf(ops, q) # {}}})

\* recover rewrites the committed pages ...
RecoverApply ==
    /\ pc = "down"
    /\ file' = Redone(file, journal)
    /\ nextId' = RedoneNext(super, journal)
    /\ pc' = IF CommittedOps(journal) = <<>> THEN "discard" ELSE "resync"
    /\ UNCHANGED <<disk, super, journal, frames, wants, todo, history,
                   counts>>

\* ... and syncs them and the superblock ...
RecoverSync ==
    /\ pc = "resync"
    /\ disk' = file
    /\ super' = nextId
    /\ pc' = "discard"
    /\ UNCHANGED <<file, journal, frames, nextId, wants, todo, history,
                   counts>>

\* ... then the journal is truncated and the pool built.
RecoverTruncate ==
    /\ pc = "discard"
    /\ journal' = <<>>
    /\ frames' = [f \in FrameIds |-> Free]
    /\ pc' = "run"
    /\ UNCHANGED <<blocks, nextId, wants, todo, history, counts>>

-----------------------------------------------------------------------------
(* Flush.                                                                  *)

DirtyFrames == {f \in FrameIds : frames[f].dirty /\ frames[f].page # 0}

\* Their after-images, in frame order.
FrameOrder ==
    {order \in [1..Cardinality(DirtyFrames) -> DirtyFrames] :
        \A i, j \in DOMAIN order : i < j => order[i] < order[j]}

ImageOf(f) == [page |-> frames[f].page, image |-> frames[f].buf]
Images(order) == [i \in DOMAIN order |-> ImageOf(order[i])]

\* flush is called, by a client or by victim_frame on behalf of a call.
StartFlush(call) ==
    /\ pc' = "log"
    /\ wants' = call

Flush ==
    /\ pc = "run" /\ wants = NoCall
    /\ DirtyFrames # {}
    /\ StartFlush(NoCall)
    /\ UNCHANGED <<blocks, journal, frames, nextId, todo, history, counts>>

\* Log every after-image ...
FlushLog ==
    /\ pc = "log"
    /\ \E order \in FrameOrder : journal' = journal \o Images(order)
    /\ pc' = "commit"
    /\ UNCHANGED <<blocks, frames, nextId, wants, todo, history, counts>>

\* ... and the marker: the commit point.
FlushCommit ==
    /\ pc = "commit"
    /\ journal' = Append(journal, Marker)
    /\ durable' = [p \in Pages |->
                      IF \E f \in DirtyFrames : frames[f].page = p
                      THEN latest[p] ELSE durable[p]]
    /\ mark' = nextId
    /\ todo' = {frames[f].page : f \in DirtyFrames}
    /\ pc' = "apply"
    /\ UNCHANGED <<blocks, frames, nextId, wants, latest, counts>>

\* The pages are written through in frame order.
NextToWrite(f) ==
    /\ frames[f].page \in todo
    /\ \A g \in FrameIds : frames[g].page \in todo => f <= g

\* Mutant: the pages stay dirty.
FlushWriteStaysDirty(f) ==
    /\ pc = "apply"
    /\ NextToWrite(f)
    /\ file' = [file EXCEPT ![frames[f].page] = frames[f].buf]
    /\ todo' = todo \ {frames[f].page}
    /\ pc' = IF todo' = {} THEN "sync" ELSE "apply"
    /\ UNCHANGED <<disk, super, journal, frames, nextId, wants, history, counts>>

\* Write the pages through; each is clean once written ...
FlushWrite(f) ==
    /\ pc = "apply"
    /\ NextToWrite(f)
    /\ file' = [file EXCEPT ![frames[f].page] = frames[f].buf]
    /\ frames' = [frames EXCEPT ![f].dirty = FALSE]
    /\ todo' = todo \ {frames[f].page}
    /\ pc' = IF todo' = {} THEN "sync" ELSE "apply"
    /\ UNCHANGED <<disk, super, journal, nextId, wants, history, counts>>

\* ... sync them and the superblock ...
FlushSync ==
    /\ pc = "sync"
    /\ disk' = file
    /\ super' = nextId
    /\ pc' = "truncate"
    /\ UNCHANGED <<file, journal, frames, nextId, wants, todo, history,
                   counts>>

\* ... and drop the log.
FlushTruncate ==
    /\ pc = "truncate"
    /\ journal' = <<>>
    /\ pc' = "run"
    /\ UNCHANGED <<blocks, frames, nextId, wants, todo, history, counts>>

\* What may be on disk of the superblock that sync writes.
SuperOutcomes == IF pc \in {"sync", "resync"} THEN {super, nextId} ELSE {super}

(***************************************************************************)
(* A page write, the sync or the truncate returns an error: flush gives    *)
(* up, and so does the call it was for.  (A failed append panics: a        *)
(* Crash.)  A failed page write may leave its block torn, a failed         *)
(* truncate may have emptied the journal.  If only its sync failed, a      *)
(* crash before the next append may undo it: that is the journal kept.     *)
(***************************************************************************)
FlushFails ==
    /\ pc \in {"apply", "sync", "truncate"}
    /\ Fault
    /\ \/ UNCHANGED file
       \/ /\ pc = "apply"
          /\ \E f \in FrameIds :
                NextToWrite(f) /\ file' = [file EXCEPT ![frames[f].page] = Torn]
    /\ super' \in SuperOutcomes
    /\ journal' = journal \/ (pc = "truncate" /\ journal' = <<>>)
    /\ pc' = "run"
    /\ wants' = NoCall
    /\ todo' = {}
    /\ UNCHANGED <<disk, frames, nextId, history, stamp>>
-----------------------------------------------------------------------------
(* Calls.  wants is the call under way when a flush was needed to make     *)
(* room: it goes on as soon as the flush is done.                          *)

Resident(p) == {f \in FrameIds : frames[f].page = p}
Pinned(f) == frames[f].readers > 0 \/ frames[f].writer

\* victim_frame's candidates: the free list, else clean unpinned frames
\* (whichever the policy picks).
FreeFrames == {f \in FrameIds : frames[f].page = 0}

\* Mutants: a dirty frame, a pinned frame is a victim.
CleanVictimsDirty == {f \in FrameIds : ~Pinned(f)}
CleanVictimsPinned == {f \in FrameIds : ~frames[f].dirty}

CleanVictims == {f \in FrameIds : ~Pinned(f) /\ ~frames[f].dirty}
Victims == IF FreeFrames # {} THEN FreeFrames ELSE CleanVictims
DirtyVictims == {f \in FrameIds : ~Pinned(f) /\ frames[f].dirty}

\* Is the call the one that may run now?
Turn(call) == pc = "run" /\ wants \in {NoCall, call}

\* victim_frame finds no clean frame but a dirty one: flush first.
MakeRoom(call) ==
    /\ pc = "run" /\ wants = NoCall
    /\ Victims = {} /\ DirtyVictims # {}
    /\ StartFlush(call)
    /\ UNCHANGED <<blocks, journal, frames, todo, history, counts>>

Pin(frame, op) ==
    IF op = "read" THEN [frame EXCEPT !.readers = @ + 1]
                   ELSE [frame EXCEPT !.writer = TRUE]

\* acquire_read and acquire_write on a resident page, unless it is Busy.
AcquireHit(op, p) ==
    /\ pc = "run" /\ wants = NoCall
    /\ \E f \in Resident(p) :
          /\ ~frames[f].writer
          /\ op = "write" => frames[f].readers = 0
          /\ op = "read" => frames[f].readers < limit.readers
          /\ frames' = [frames EXCEPT ![f] = Pin(@, op)]
    /\ UNCHANGED <<blocks, journal, nextId, pc, wants, todo, history, counts>>

\* A miss: evict, then load.  A block that fails its checksum leaves the
\* frame on the free list and the call returns the error.
AcquireMiss(op, p) ==
    /\ Turn([op |-> op, page |-> p])
    /\ Resident(p) = {}
    /\ \E f \in Victims :
          frames' = [frames EXCEPT ![f] =
                        IF file[p] \in {0, Torn} THEN Free
                        ELSE Pin([Free EXCEPT !.page = p, !.buf = file[p]], op)]
    /\ wants' = NoCall
    /\ UNCHANGED <<blocks, journal, nextId, pc, todo, history, counts>>

\* Or its read fails, whatever the block holds.
LoadFails(op, p) ==
    /\ Turn([op |-> op, page |-> p])
    /\ Resident(p) = {}
    /\ Fault
    /\ \E f \in Victims : frames' = [frames EXCEPT ![f] = Free]
    /\ wants' = NoCall
    /\ UNCHANGED <<blocks, journal, nextId, pc, todo, history, stamp>>

AcquireFlush(op, p) ==
    /\ Resident(p) = {}
    /\ MakeRoom([op |-> op, page |-> p])
    /\ UNCHANGED nextId

\* allocate: the id is taken first; then a frame, zeroed and dirty.
NewPage(id) ==
    /\ \E f \in Victims :
          frames' = [frames EXCEPT ![f] = [Free EXCEPT !.page = id,
                        !.buf = stamp + 1, !.writer = TRUE, !.dirty = TRUE]]
    /\ latest' = [latest EXCEPT ![id] = stamp + 1]
    /\ stamp' = stamp + 1

Allocate ==
    /\ pc = "run" /\ wants = NoCall
    /\ nextId <= MaxPage /\ stamp < limit.stamps
    /\ nextId' = nextId + 1
    /\ NewPage(nextId)
    /\ UNCHANGED <<blocks, journal, pc, wants, todo, durable, mark, faults>>

AllocateFlush ==
    /\ nextId <= MaxPage /\ stamp < limit.stamps
    /\ nextId' = nextId + 1
    /\ MakeRoom([op |-> "allocate", page |-> nextId])

AllocateResume ==
    /\ pc = "run" /\ wants.op = "allocate"
    /\ NewPage(wants.page)
    /\ wants' = NoCall
    /\ UNCHANGED <<blocks, journal, nextId, pc, todo, durable, mark, faults>>

\* PoolExhausted: every frame is pinned.  The id allocate took is lost.
AllocateExhausted ==
    /\ pc = "run" /\ wants = NoCall
    /\ nextId <= MaxPage
    /\ Victims = {} /\ DirtyVictims = {}
    /\ nextId' = nextId + 1
    /\ UNCHANGED <<blocks, journal, frames, pc, wants, todo, history, counts>>

\* A client changes a page through its write handle.
Modify(f) ==
    /\ pc = "run" /\ wants = NoCall
    /\ frames[f].writer
    /\ stamp < limit.stamps
    /\ stamp' = stamp + 1
    /\ frames' = [frames EXCEPT ![f].buf = stamp + 1]
    /\ latest' = [latest EXCEPT ![frames[f].page] = stamp + 1]
    /\ UNCHANGED <<blocks, journal, nextId, pc, wants, todo, durable, mark,
                   faults>>

\* Dropping a handle.
ReleaseRead(f) ==
    /\ pc = "run" /\ wants = NoCall
    /\ frames[f].readers > 0
    /\ frames' = [frames EXCEPT ![f].readers = @ - 1]
    /\ UNCHANGED <<blocks, journal, nextId, pc, wants, todo, history, counts>>

ReleaseWrite(f) ==
    /\ pc = "run" /\ wants = NoCall
    /\ frames[f].writer
    /\ frames' = [frames EXCEPT ![f].writer = FALSE, ![f].dirty = TRUE]
    /\ UNCHANGED <<blocks, journal, nextId, pc, wants, todo, history, counts>>

-----------------------------------------------------------------------------
(***************************************************************************)
(* A crash.  Of the blocks written since the last sync each may be on disk *)
(* or not, or torn; the superblock is one sector and either.  A crash      *)
(* while logging leaves any part of the images, a torn frame last; one     *)
(* while truncating leaves all records or none.                            *)
(***************************************************************************)
Unsynced == {p \in Pages : file[p] # disk[p]}

OutcomesOf(p) == IF p \in Unsynced THEN {file[p], disk[p], Torn} ELSE {file[p]}

BlockOutcomes ==
    {b \in [Pages -> UNION {OutcomesOf(p) : p \in Pages}] :
        \A p \in Pages : b[p] \in OutcomesOf(p)}

JournalOutcomes ==
    CASE pc = "log" ->
            UNION {{journal \o SubSeq(images, 1, n) : n \in 0..Len(images)}
                   \cup {Append(journal \o SubSeq(images, 1, n), Torn) :
                            n \in 0..(Len(images) - 1)} :
                      images \in {Images(order) : order \in FrameOrder}}
      [] pc = "commit" -> {journal, Append(journal, Torn)}
      [] pc \in {"truncate", "discard"} -> {journal, <<>>}
      [] OTHER -> {journal}

Crash ==
    /\ Fault
    /\ pc # "down"
    /\ file' \in BlockOutcomes
    /\ disk' = file'
    /\ super' \in SuperOutcomes
    /\ journal' \in JournalOutcomes
    /\ frames' = [f \in FrameIds |-> Free]
    /\ nextId' = 0
    /\ pc' = "down"
    /\ wants' = NoCall
    /\ todo' = {}
    /\ latest' = durable
    /\ UNCHANGED <<durable, mark, stamp>>

Steps ==
    \/ RecoverApply \/ RecoverSync \/ RecoverTruncate
    \/ Flush \/ FlushLog \/ FlushCommit
    \/ FlushSync \/ FlushTruncate \/ FlushFails
    \/ \E op \in Ops, p \in Pages :
          AcquireHit(op, p) \/ AcquireMiss(op, p) \/ LoadFails(op, p) \/ AcquireFlush(op, p)
    \/ Allocate \/ AllocateFlush \/ AllocateResume \/ AllocateExhausted
    \/ \E f \in FrameIds :
          FlushWrite(f) \/ Modify(f) \/ ReleaseRead(f) \/ ReleaseWrite(f)
    \/ Crash

Next == Steps /\ UNCHANGED limit

Spec == Init /\ [][Next]_vars

(***************************************************************************)
(* A call that has to flush runs to its end: nothing else runs meanwhile.  *)
(***************************************************************************)
CallSteps ==
    /\ wants # NoCall
    /\ \/ FlushLog \/ FlushCommit \/ FlushSync \/ FlushTruncate
       \/ \E f \in FrameIds : FlushWrite(f)
       \/ AllocateResume
       \/ wants.op \in Ops /\ AcquireMiss(wants.op, wants.page)
    /\ UNCHANGED limit

FairSpec == Spec /\ WF_vars(CallSteps)
-----------------------------------------------------------------------------
(***************************************************************************)
(* "a crash mid-flush is atomic: all of that flush's pages come back, or   *)
(* none do", and "a crash loses nothing committed by flush": whatever a    *)
(* crash leaves of the block file and the journal, now or during the       *)
(* recovery of an earlier crash, redoing the journal gives exactly the     *)
(* pages of the last committed flush.                                      *)
(***************************************************************************)
FlushAtomic ==
    \A j \in JournalOutcomes :
        LET ops == CommittedOps(j)
        IN  \A p \in Pages : \A b \in OutcomesOf(p) :
                RedoneBlock(b, ops, p) = durable[p]

Up == pc \notin {"down", "resync", "discard"}

Atomic == INSTANCE AtomicPages WITH
    Blank <- 0,
    pages <- latest,
    held <- {frames[f].page : f \in {g \in FrameIds : frames[g].writer}},
    next <- IF Up THEN nextId ELSE 0,
    up <- Up

(***************************************************************************)
(* Refinement: with the file and the journal hidden, the cache is a store  *)
(* of pages that a flush commits at once.  A commit misses no page but     *)
(* those still being written, an id is created once, and an open issues no *)
(* id of a committed page.                                                 *)
(***************************************************************************)
IsAtomicPages == Atomic!Spec

(***************************************************************************)
(* No update is lost to eviction, flush, a failed flush or recovery: a     *)
(* page's newest version is in its one frame, or in the block file if it   *)
(* has none, and a clean frame equals its block.                           *)
(***************************************************************************)
Coherent ==
    Up =>
        \A p \in Pages :
            /\ \A f, g \in Resident(p) : f = g
            /\ Resident(p) = {} => file[p] = latest[p]
            /\ \A f \in Resident(p) :
                  /\ frames[f].buf = latest[p]
                  /\ frames[f].dirty \/ frames[f].writer \/ frames[f].buf = file[p]

(***************************************************************************)
(* "a recovered store never re-issues an id that named durable data": an   *)
(* id not yet handed out holds nothing, in the file or in the pool.        *)
(***************************************************************************)
NoReissue ==
    Up =>
        \A p \in Pages : p >= nextId => durable[p] = 0 /\ Resident(p) = {}

(***************************************************************************)
(* "A frame is only ever evicted when unpinned": no step of the process    *)
(* moves another page into a frame some handle refers to, and a writer is  *)
(* alone on its page.                                                      *)
(***************************************************************************)
PinnedStays ==
    [][pc' # "down" => \A f \in FrameIds :
          Pinned(f) => /\ frames'[f].page = frames[f].page
                       /\ frames[f].writer => frames'[f].readers = 0]_vars

(***************************************************************************)
(* A call that has to flush to make room gets its frame: it ends, with its *)
(* frame or with an I/O error; victim_frame's second PoolExhausted is      *)
(* unreachable.                                                            *)
(***************************************************************************)
CallReturns == wants # NoCall ~> wants = NoCall
=============================================================================
