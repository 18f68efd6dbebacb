# Verification of strata-db

TLA+ models of strata-db, a SQL database in Rust: what its durable parts do when
a call fails or the machine stops, what a SQL statement stores and answers, and
what its server replies. TLC checks the models on small instances; TLAPS proves the
safety properties of the durable half, for every value of the constants: of the
journal everything durable rests on, of the LSM tree and the page cache above
it, with the promises these two make, and of the storage engine that rests on
these promises.

`PROJECT.json` is the index: every component with its modules and status, every
run, the source lines each definition models, the hazards of the code with the
properties that watch them, one mutant per checked property, and the theorems.

Contents: [the system](#the-system) ·
[modules](#modules-and-the-code-they-model) · [runs](#runs) ·
[fairness and deadlock](#fairness-and-deadlock) · [proofs](#proofs) ·
[assumptions](#assumptions) ·
[where code and comments disagree](#where-the-code-and-its-comments-disagree) ·
[not modelled](#not-modelled) · [plan](#plan)

## The system

| Part | Where | What it does |
| --- | --- | --- |
| Journal | `crates/journal` | An append-only file of checksummed frames; `append` returns after `sync_all`. Clients: memtable, manifest, page journal. |
| LSM tree | `crates/lsm` | An ordered byte-key map with versions: memtable with its journal, SSTables of blocks with a sharded index and a bloom filter, a manifest with the CURRENT pointer, merged and version-resolved scans. |
| Page cache | `crates/filesystem/src/{cache,block}` | A pool of frames with read and write handles over a block file, with a redo journal that makes a flush atomic. |
| Memo cache, policies | `crates/filesystem/src/cache` | A read-through cache of SSTable pages with a budget; LRU, LRU-K, LFU and CLOCK. |
| Heap and workspaces | `crates/filesystem/src/{tuple,workspace.rs,memory.rs}` | Tuples in slotted pages; temporary tuple stores in memory or in a file. |
| Storage engine | `crates/strata-store` | An LSM index of locations over a tuple heap. |
| Catalog and tables | `crates/strata-db/src/catalog`, `storage/table_api.rs` | Projects, datasets, tables and columns as rows of system tables; row keys; incarnations by truncation id. |
| Types and codecs | `crates/strata-db/src/storage` | Values of sixteen types; their bytes in a row, and in a key, where they have to order as the values do. |
| Query | `crates/strata-db/src/{query,sql}` | Binder, lowering, Volcano operators: scan, joins, sort, filter, projection, limit, DDL and INSERT; expressions and casts. |
| Server, client | `bins` | One thread per connection, one engine thread behind a channel; a command line client. |

How they interact, bottom up: the tree's memtable and manifest and the page
cache's redo journal are three clients of the journal. The engine puts a tuple
into the heap and then its location into the tree; each of the two is durable by
its own journal and at its own time. The catalog is a sequence of engine writes
with no transaction around them. The server runs one batch of statements at a
time on the engine thread.

The concurrency of the system is in the server (connections, channel, engine
thread). Below it everything is single-threaded, and what is hard there is the
crash between two writes, the call that fails half way, and the handle, view or
iterator that lives across calls.

## Modules and the code they model

The models are layered the way the code is, and each layer is used through its
promise rather than through its steps:

    Answers ── Sql ── Plans ── Binder ── Exprs ── Codec ── Texts ── Values
                 (a table is a map from key to row: Catalog, Server)
    Server ── CatalogRows ── TableApi          Catalog ── CatalogRows ── TableApi
                 (index entry durable at once, tuple when the heap commits: StorageEngine)
    StorageEngine ── DurableKv    (implemented by Lsm)
                  └─ AtomicPages  (implemented by PageCache)
    Lsm ── Memtable, Manifest ── Frames        PageCache ── Frames
                 (append durable when it returns: Journal)

**Frames, Journal** (`crates/journal`). `Frames` is the contents of a journal
file, a sequence of records, `Torn` remains and `Zeros` (a zero-filled tail,
which `read_frame` accepts as an empty record), and what replay makes of it.
`Journal` has the file as the operating system shows it (`file`) and as of the
last `sync_all` (`disk`), and one action per system call of create, open, append
and truncate; each may fail. `Exit` ends the process and keeps the file; `Crash`
leaves any file that is consistent with what was synced. The constant
`BlockClient` chooses between the two ways the journal is used: the page journal
truncates at every open and panics on a failed append; the lsm does neither.

**Memtable, Manifest, Lsm, DurableKv** (`crates/lsm`). `Memtable` and `Manifest`
are the data: the table with its byte budget and slot order, the version an
edit log folds into. `Lsm` is the tree: a write is logged and then applied; a
flush creates the SSTable, writes it, commits the edit, clears the journal; a
checkpoint appends a snapshot to a new manifest and switches CURRENT. A crash may
come between any two of these steps and an error at any of them. Reads (`Get`,
`Scan` as of a seq) are operators. `DurableKv` is the abstract map: an
acknowledged write stays, a write in doubt may be found by a recovery or not.
Three variables are history: `acked`, `doubt`, and `intact`, which turns false at
the first open that meets damaged files (`Damaged`).

**Tables, ReadPath** (`lsm::storage`, `lsm::iter`). Blocks packed to a target
size, an index inline or in shards, the lookup that walks it; the lazy block
stream of a scan, the k-way merge with its pending heads, the resolver. A step
is one block or shard read, or one item, so a failed read can fall anywhere.

**PageCache, AtomicPages** (`filesystem::cache`, `block`). Frames with readers,
a writer and a dirty bit; acquire (hit, miss, miss that has to flush first),
allocate, release, and flush and recovery step by step: log, commit marker, page
writes in frame order, sync, truncate. Each of these steps may fail, and so may
the read of a miss; a failed page write may tear its block, a failed truncation may
have emptied the log. The victim is any evictable frame. What a
crash leaves of unsynced blocks is any mixture of old, new and torn.
`AtomicPages` is the promise: a flush commits all pages at once.

**Policies, MemoCache** (`cache/policies.rs`, `memo.rs`). The four policies over
one record type, and the memo cache over any of them; eviction is one victim a
step, and `clear` keeps the policy's history, as the code does.

**StorageEngine** (`crates/strata-store`, `tuple/heap.rs`). Composes the two
promises as `INSTANCE`s: put appends to the heap's current page and then writes
the index; views pin pages; a cache miss may commit the heap early; one crash
takes both down.

**Workspace, Joins, GraceJoin** (`workspace.rs`, `query/volcano`). `Workspace`
has both backings of a temporary tuple store, with their bound and with pages
that cannot be loaded again. `Joins` has the nested loop, block nested loop and
sort-merge joins and the external sort, its runs in workspaces, as operators. `GraceJoin` is the
partitioned hash join as a state machine: both inputs spilled into buckets, a
worklist of bucket pairs, repartitioning with a new seed when the build side is
over budget, build and probe, padding of outer rows, NULL keys aside. The hash
is any function for every seed. A comment at `grace.rs:53` calls the implementation
incorrect and asks for another design (one side built in full, the other streamed
against it). The module models the code as it is, and that returns the join.

**Values, Texts, Codec** (`storage/types.rs`, `temporal.rs`, `codec`,
`catalog/schema.rs`). A value is its type and its content in numbers. `Codec` has
the two encodings of every type, the key encodings by what they do to the bytes
(sign bits flipped, the float transform, the decimal's scaled mantissa), and the
row with its NULL bitmap. `Texts` has the conversions to and from text.

**Exprs, Binder, Plans, Sql** (`query`). `Exprs` evaluates: arithmetic of the
three number families, comparison across types, three-valued logic, casts, and
every function. `Binder` takes a parsed expression to one that is evaluated:
names, literals, types, defaults. `Plans` binds a SELECT, lowers it with the
choice between the sort-merge and the nested loop joins, and executes it; a
stream is a sequence of rows that may end in an error, so a LIMIT hides an
error behind it as the pull iterators do. `Sql` is the session: CREATE SCHEMA,
CREATE TABLE (with its type, NOT NULL and DEFAULT), INSERT, SELECT.

**Answers** is what `Sql` is held against: for tables the history of what INSERTs
supplied, for queries a relational meaning on sets, for expressions arithmetic on
amounts, two-valued logic over all completions of the NULLs, and a recursive
LIKE. None of it uses the operator that it judges.

**ByteStrings, TableApi, CatalogRows, Catalog** (`strata-db/src/storage`,
`catalog`). Row keys are byte strings, so the order of keys and the end of a
prefix range are the code's. `CatalogRows` is what the catalog reads and the
sequence of engine writes each operation makes; `Catalog` runs those one at a
time, with an error or a crash at any of them, and rows written through table
handles that may be stale. Of a row's value the schema it was encoded with is
kept: decoding under another one gives `Garbled`.

`Catalog` takes the engine for what `StorageEngine` shows of it. The index entry of
a write that returned is durable; that of a write that failed is in `doubt` until a
write to the same key returns, and may turn up when the database is opened again.
The tuple of a put is durable only when the heap commits, and nothing in strata-db or
in the binaries calls `StorageEngine::flush`: the heap commits when the page cache
makes room, at any call or at none. So a crash (`Crash`), and a plain end of the process
(`Close`), choose how many of the last `puts` the heap has, and on which pages: a
key whose tuple is gone reads as an error (`Unreadable`) if no commit wrote its
page, and as absent (`Missing`) if one caught the page half filled. An open that
meets an unreadable row of the default namespace fails (`OpenFails`). A database
that lost a tuple is followed to the end of that open.

**Server** (`bins/strata-server`, with the binder and the DDL, INSERT and scan
executors). Clients send batches, disconnect and reconnect; the engine thread
takes a request, binds every statement of the batch, then executes them one by
one, each a scan or a sequence of engine writes, that may fail; a panic, while a
batch is planned or executed, ends the thread. The history `keys` has for each table
the keys inserted since it was created or replaced, those of them that went to an
incarnation replaced by then, and the keys of the incarnation that the running
batch replaced.

The `MC*` modules extend a specification with the sets a `.cfg` cannot write; a
specification that needs none is run as it is. The proofs are in modules of
their own: `JournalProofs`; `LsmLogs`, `LsmTree` and `LsmProofs`;
`PageCacheProofs`; `ServerProofs`; `EngineProofs`; and `Counting` with
`CountingProofs`, the facts about numbers the others share.
A definition introduced as a mutant or a slip, just before the one it varies,
is not part of the model: it is the altered form named in `PROJECT.json` that
shows the property can be violated.

## Runs

All runs check the whole state space within their bounds.

| Run | Specification | Properties |
| --- | --- | --- |
| `journal_log` | Journal, lsm client | `PrefixDurable`, `InOrder` |
| `journal_torn_tail` | Journal, lsm client | `Durable` (violated, see below) |
| `lsm` | Lsm | `ReadsAcked`, `GetScanAgree`, `VersionsUnique`, `LostOnlyIfDamaged`, `ScanStable`, refinement `IsDurableKv` |
| `read_path` | ReadPath | `ScanRight`, `GetNewest` |
| `page_cache` | PageCache, fair | `FlushAtomic`, `Coherent`, `NoReissue`, `PinnedStays`, `CallReturns`, refinement `IsAtomicPages` |
| `engine_crash` | StorageEngine | `TypeOK`, `ReadsRight`, `LostOnlyFresh` |
| `memo_cache` | MemoCache, all policies and budgets | `WithinBudget`, `VictimsRight` |
| `grace_join` | GraceJoin, fair | `KeysTogether`, `JoinRight`, `StrategiesAgree`, `SortRight`, `StreamEnds` |
| `merge_join_nulls` | GraceJoin's inputs | `NullKeysSkipped` (violated, see below) |
| `sql` | Sql | `RowsKept`, `AnswerRight`, `NumbersRight`, `LogicRight`, `TextRight` |
| `catalog_faults` | Catalog | `ViewRight`, `ListsLive`, `ColumnsRight`, `ScansPrefix`, `OpenSeeds` |
| `server_batches` | Server, fair | `ReplyMatches`, `SelectRight`, `Answered` |

What they show, and why the bounds are enough:

* **journal_log**: four appends. The shortest interesting history needs three:
  one acknowledged, one torn by a crash or a failure, one acknowledged behind
  it. A zero-filled tail is allowed. Records in front of a torn frame are safe
  against everything, and replay never reorders or repeats.
* **journal_torn_tail**: the counterexample to the full contract for the lsm's
  use of the journal. An append fails or is cut off, the next one is
  acknowledged behind the torn frame, and no replay reaches it. `append` returned
  for it, which by `crates/journal/src/lib.rs:11` "is the signal that the record
  is durable".
* **lsm**: two keys, three calls, two SSTables, two manifests (0 and 1) and two
  faults: enough for a write, a flush that a crash interrupts at any step,
  recovery, an overwrite or delete, a second flush, and a crash again. A setting
  with two values and whole-frame appends, in which the tree always implements
  `DurableKv`, and one with torn frames, appends that fail after they reached the
  file, and a memtable that holds three bytes, in which it does so up to the
  first crash that leaves damaged files. Damage has four causes, each a condition
  on the files (`Damaged`): a torn frame in a journal, a record that the memtable
  refuses, two ops in one slot, a manifest that names an incomplete file. Until an
  open has met one of them a live process reads what it acknowledged and a
  recovery loses nothing. After it nothing is claimed (`intact` is a condition of
  each property): an open that replays less than was acknowledged also resumes
  from a lower sequence number and a lower file id, and what a write or a flush
  then reuses is old data. With more faults than this run has, TLC finds reads,
  scans and recoveries that go wrong in that way.
* **read_path**: every sequence of three puts and deletes on two keys, every
  choice of flush points, blocks of two bytes and shards of two blocks, so that
  versions of one key span blocks and shards; every range; one failed read.
* **page_cache**: two frames for three pages, so that eviction and the flush it
  forces happen. Either three page versions and two faults, so that a recovery is
  itself interrupted, or two versions and one fault with two readers per frame,
  so that handles are held across calls in every combination.
* **engine_crash**: two keys, pages of two tuples, three pages, four puts, two
  faults: a page id that a crash made reusable is used again.
* **memo_cache**: three keys of different weights, seven calls, and budgets
  by entries and bytes, of 0 entries and below the heaviest value included. K is 2.
* **grace_join**: inputs of up to three and two rows over the keys of `MCKeys`
  and NULL, every hash into two buckets at every level, a budget of one build
  row, two levels, pages of one tuple, two pages per workspace, one page lost.
  The join is right when no page was lost. When one was, it returns no wrong and no
  repeated pair, and pads only rows of its input on a side that is kept, each once;
  that a padded row has no match is not checked then, because it may have one on the
  page that was passed over. All strategies agree on every pair of inputs without
  NULLs. The sort is run on every left input, in both directions, with either page of
  each run lost: it returns the other rows in order, and equal keys in the order of
  the input.
* **merge_join_nulls**: the sort-merge join fails on two inputs over the same
  keys as soon as a NULL follows the last group that matched, where
  `query/volcano/join/merge.rs:20` says that NULL keys "are skipped".
* **sql**: 33 scripts, each about one part of the language. Tables keyed by ten
  of the types (Date, Timestamp and Time share the integers' encoding) with
  values at the edges of the encoding and two or three INSERTs, so that keys
  collide and are overwritten; two tables with NULLs and repeated join keys under
  every join, filter, order and limit; and single rows whose columns take all the edge
  values of two types, under every operator, function and cast. Sizes are scaled
  down and keep what the code depends on: a byte has 5 bits, the integers one,
  two and three bytes, a length prefix two and an i128 key five, the floats 4 and
  3 bits of significand and an exponent that overflows at 24 bits, a decimal
  16 bits of mantissa and a scale up to 2, the base of numerals is 4 and a day has
  8 ticks; a block of the nested loop holds two rows and a text three bytes. A float
  has three digits behind the point, one more than a decimal, and goes beyond the
  largest decimal, as that goes beyond the integers: so each cast between the three
  families meets a value it must round, saturate or refuse. Texts, digits and bytes
  are spelled out because the properties are about them: what a numeral is read as,
  how the bytes of two keys order, where a character of two bytes is cut.
* **catalog_faults**: two table names, one a prefix of the other; two schemas of
  different length for the first, one for the second; a user key of the largest
  byte; three DDL operations (a reopen recreates a dropped namespace without one);
  one fault, an error or a crash in the middle of an operation, and any number of
  closes; one tuple that a crash or a close takes. Eight byte values stand for the
  256. A close that takes nothing lets failed writes turn up without a second fault.
* **server_batches**: two clients, three batches out of five, two faults. The
  five (see `MCServer`) include a replace with later statements on the table, a
  row that is refused when it is written, and a batch that fails at binding.

What the code does not keep is stated in the properties themselves. `ViewRight`
says of a table whose CREATE OR REPLACE was cut short that the name is still at the
old incarnation with all of its rows stored, and nothing of whether they decode;
`ColumnsRight` says that it has no position twice. Both, and `ListsLive`, leave out a
name that a reopen found changed by an operation that had failed, and are about a
database, or the tuples of a table, that no crash or close has touched.
`SelectRight` has the rows that an INSERT behind a replace of its table in the same
batch misplaces, and says which rows a SELECT there returns. Likewise `RowsKept` leaves out tables keyed by an array of
texts, `AnswerRight` the order of descending keys of which one is a prefix of
another, and `TextRight` LIKE on a text that has a `%`. All of these are listed
under disagreements.

## Fairness and deadlock

* **PageCache** `WF_vars(Steps)`: the steps of a call that has begun. The cache
  is called synchronously and a call runs to its end or to an error; nothing is
  assumed of when clients call or release handles.
* **GraceJoin** `WF_vars(Advance)`: the consumer keeps pulling and the inputs are
  finite. Failures and lost pages are never forced.
* **Server** `[]<>~HasWork \/ []<><<EngineStep>>_vars`: weak fairness of the
  engine thread, with `HasWork` written out for its enabling condition. The
  operating system schedules the thread. Clients are free to stop; a failed
  write and a panic are never forced.

Every configuration but that of `sql`, where a session can always go on, says
`CHECK_DEADLOCK FALSE`, since each of these systems may stop: all counters of calls, records, ids and faults are bounded by guards and a
behaviour ends when they are used up; a scan and a join end when their input
does; a file whose header was written in part cannot be opened; a pool whose
frames are all pinned waits for its clients; a server whose clients have gone
and whose thread has panicked does nothing more. That nothing that should go on
stops is what `CallReturns`, `StreamEnds` and `Answered` check.

## Proofs

TLAPS checks every proof to the last leaf. The five components it covers are
the durable half of the system and the channels of the server, each for every
value of its constants, with no bound on records, keys, pages, frames, files,
clients, calls or faults:

| Modules | Component | Properties of runs that are theorems |
| --- | --- | --- |
| `JournalProofs` | Journal | `PrefixDurable`, `InOrder` |
| `LsmLogs`, `LsmTree`, `LsmProofs` | Lsm | `ReadsAcked`, `GetScanAgree`, `VersionsUnique`, `LostOnlyIfDamaged`, `ScanStable`, `IsDurableKv` |
| `PageCacheProofs` | PageCache | `FlushAtomic`, `Coherent`, `NoReissue`, `PinnedStays`, `IsAtomicPages` |
| `EngineProofs` | StorageEngine | `TypeOK`, `ReadsRight`, `LostOnlyFresh` |
| `ServerProofs` | Server | `ReplyMatches` |

The first four fit together: the engine's theorems take the index and the heap by their
promises `DurableKv` and `AtomicPages`, and `DurableKvTheorem` and
`RefinementTheorem` show that the tree and the page cache keep these.

In each component a property of the runs follows from an inductive invariant
`IInv`. TLC has checked each `IInv` as an invariant with the bounds of the
component's run (that of Lsm with larger ones as well, 33 million states).

Facts about numbers and finite sets are formulas of `Counting` (`MaxFact`,
`CountFact`, `ListFact`, `InductionFact`); lemmas that need one have it as a
hypothesis, and the theorems discharge it with `CountingProofs`, which proves
the four from the library. `InductionFact` is induction as a statement about
sets, and this is how the LSM proofs get at what a replay computes: the set of
the `n` for which a claim about the first `n` records holds contains every number.

### Journal

`JournalProofs` proves, with TLAPS, for every `MaxRecords`, both clients and
both kinds of tail a crash may leave:

| Theorem | Statement |
| --- | --- |
| `TypeCorrect` | `Spec => []TypeOK`, a part of the inductive invariant |
| `PrefixDurability` | `Spec => []PrefixDurable`: an acknowledged record that replay reaches is reached after any crash |
| `ReplayOrder` | `Spec => []InOrder`: replay is in the order of the calls, nothing twice |
| `BlockDurability` | `BlockClient` implies `Spec => []Durable`: the full contract |

The only assumption is `JournalAssumption`: the bound is a number, the two
switches are Booleans, and `Torn` and `Zeros` are distinct and no record.

`PrefixDurable` is not inductive: it speaks of what a crash could leave now and
says nothing of why. The inductive invariant `IInv` adds the reasons:

* `SyncedPrefix`: while something is acknowledged, `disk` is a prefix of `file`,
  strictly shorter while an append is under way, and every acknowledged record
  replay reaches in `file` lies in `disk`. So each crash outcome extends `disk`,
  and replay of an extension yields at least as much (`ReplayedMonotone`).
* `Truncating`: after `set_len(0)` and before its sync `disk` need not be a
  prefix, but then nothing is acknowledged. A truncate whose sync failed leaves
  this state; the next successful sync restores the prefix.
* `Increasing`, for `file` and `disk`, and `Appending`, which says that the last
  frame of `file` is the record being appended: these give the order.

`NextIInv` has one step per action and under it one per conjunct the action can
disturb. `Outcomes`, `OutcomeKeepsDisk` and `OutcomeIncreasing` say once what a
crash may leave; `InterruptedAppend` does the same for an append that fails or is
cut short by an exit.

`BlockDurability` adds `BlockInv`: no torn frame is in a file that is appended
to. It is kept by the two things the page journal does and the lsm does not,
truncating at the end of every open and stopping at a failed append. Together
with `journal_torn_tail` it says that these two make the difference.

### LSM tree

`LsmProofs` proves, for every set of keys and values, memtable budget, kind of
disk and number of calls, files, manifests and faults:

| Theorem | Statement |
| --- | --- |
| `LsmInvariant` | `Spec => []IInv` |
| `ReadsAckedTheorem` | `Spec => []ReadsAcked`: a live tree reads what it acknowledged |
| `GetScanAgreeTheorem` | `Spec => []GetScanAgree`: get, by layers, and scan, by sequence numbers, agree |
| `VersionsUniqueTheorem` | `Spec => []VersionsUnique`: entries that share a (key, seq) slot are the same |
| `LostOnlyIfDamagedTheorem` | `Spec => []LostOnlyIfDamaged`: an open loses a write only for a cause in `Damaged` |
| `ScanStableTheorem` | `Spec => ScanStable`: a scan as of an earlier seq does not change |
| `DurableKvTheorem` | `Spec => IsDurableKv`: the refinement |

`LsmAssumption` is used: the bounds are numbers, a setting is what its comment
says, `Torn` is no record of either journal, and `Empty`, `NoValue` and
`ReadError` are no values.

None of the properties is inductive: they speak of what reads return, and a step
that breaks them is a flush, a crash and an open away. `IInv` (module `LsmTree`)
says how memory and files relate. It is `TypeOK`, `Tree` as long as `intact`, and
`Shelter`. The conjuncts of `Tree`:

* `Running`: while the tree is open its memtable and the files of its version are
  layers (`Layers`): each file is complete, a newer layer that holds a key holds a
  version at least as new, no two entries share a slot unless they are the same;
  and their newest versions are the acknowledged values (`Serves`).
* `WalSide`: if an open would replay the memtable journal, what it gives covers the
  memtable (`LogCovers`): everything in the memtable that no file has is there, and
  what is there and neither in the memtable nor in a file is in doubt, or older
  than the newest version of its key.
* `ManSide`: the manifest on disk folds to the live version, or to one that has in
  addition the file whose commit failed after its frame was complete.
* `NextSide`: a checkpoint that did not switch left a manifest that names no
  other files, so the next one may append to it.
* `Resting`: after a crash that left no damage, the files hold `acked`.
* `Sound`: replay yields the journal's own records, the last of each slot.

`Shelter` is the invariant of a sound disk with a memtable that has room for every
call: the journals are whole, the journal's records have distinct slots and fit the
budget (an entry accounts for at most two bytes in the model), so no open meets
damage and `intact` stays. It is what makes the refinement unconditional there.

The argument has three layers. `LsmLogs` is about data: what the replay of a
journal and the fold of a manifest return and how an append changes them; that
get finds the newest version among layers (`GetIs`), and that layers stay layers
under a write, a flush and a recovery (`LayersAdd`, `LayersFlush`,
`RecoveredLayers`). `LsmTree` has for every action the types and `Tree`
(`TreeWriteLog` ... `TreeOpen`); the crash is `CrashFinds`, that what an open would
find is each key's acknowledged value or one in doubt. `LsmProofs` has `Shelter`
for every action, `NextInv`, and what follows.

### Page cache

`PageCacheProofs` proves, for every number of frames, pages, page versions,
readers and faults:

| Theorem | Statement |
| --- | --- |
| `PageCacheInvariant` | `Spec => []IInv` |
| `FlushAtomicTheorem` | `Spec => []FlushAtomic`: a crash at any step leaves what recovery makes the last committed flush |
| `CoherentTheorem` | `Spec => []Coherent`: no update is lost, a page is in one frame at most |
| `NoReissueTheorem` | `Spec => []NoReissue`: no id of committed data is handed out |
| `PinnedStaysTheorem` | `Spec => PinnedStays`: a frame that a handle refers to keeps its page |
| `RefinementTheorem` | `Spec => IsAtomicPages`: the refinement |

`FlushAtomic` speaks of every mixture of old, new and torn blocks that a crash may
leave. The inductive invariant says why recovery repairs
them:

* `Shape`: the log is committed up to its last marker, and behind that marker, when
  a flush is about to commit, has an image of every dirty frame and nothing else.
* `Restored`: a page the committed log does not write is on disk as of the last
  commit; one that it writes is restored to it. So it does not matter what a crash
  leaves of a block that is being written.
* `Behind` and `Applying`: what the block file lacks of the last commit is in a
  dirty frame or still to be written, and after the sync nothing is lacking.
* `Marks` and `Fresh`: the superblock's high-water mark, the live one and the
  committed one, in this order, bound the ids in use; an id not yet handed out
  has no frame and no content.
* `Pool` and `Coherent`: one frame per page, and a clean frame holds what the file
  has. `Stopped`: a store that is down has no frames and nothing newer than the
  commit.

The module has the facts about logs, the steps of flush, recovery and crash,
those of the clients' calls, the refinement step by step, and the theorems.

### Storage engine

`EngineProofs` proves, for every set of keys, page size and number of pages,
puts and faults:

| Theorem | Statement |
| --- | --- |
| `EngineTypes` | `Spec => []TypeOK` |
| `ReadsRightAlways` | `Spec => []ReadsRight`: a get returns the last acknowledged value unless a crash took the tuple |
| `CrashTakesOnlyFresh` | `Spec => LostOnlyFresh`: a crash takes no tuple of a key left alone since the flush |

`EngineAssumption` is used: the bounds are numbers, a page holds at least one
tuple, and the marks `NoValue`, `Unreadable`, `NoLoc` and `Blank` differ from
what they stand in for. The index and the heap enter through their promises,
`DurableKv` and `AtomicPages`; that the code of the two keeps these is
`DurableKvTheorem` and `RefinementTheorem`.

`ReadsRight` is not inductive: a crash replaces the pages under an index that is
ahead of them, and may install a location whose write never returned. `IInv`
says where the tuple of each such location is:

* `Extended`: what is readable in the committed pages reads the same now. Pages
  only grow (`GrownPage`), so a crash brings back the same tuples or none.
* `Located` is `ReadsRight` without its condition that the engine is up.
* `Doubted` and `Called`: the location of a write that failed, or is under way,
  is readable, and in the second case holds the tuple of the call. `put` stores
  the tuple before it touches the index, which is what makes this so.
* `Settled`: for a key left alone since the flush, the location it has, and any
  it may get by a crash, is readable in the committed pages. `LostOnlyFresh`
  follows from this conjunct at the crash; `flush` establishes it from `Located`
  and `Doubted`.

### Server

`ServerProofs` proves, for every set of clients and batches, and every number of
requests, failed reads and writes, and panics:

| Theorem | Statement |
| --- | --- |
| `ServerInvariant` | `Spec => []IInv` |
| `ReplyMatchesTheorem` | `Spec => []ReplyMatches`: results are those of the batch the client last sent |

`BatchesAssumption` is used: a batch is a sequence of statements. The store and
the catalog's operators stay opaque: what they return decides which results a
batch has, not who is answered with them.

`ReplyMatches` is broken by a query that was abandoned and finishes late, so `IInv`
follows a request from the channel to its reply:

* `Pending`: a connection that does not wait has no number to wait for, and one
  that is not idle has no reply.
* `Queued` and `Owned`: a request has a number between 1 and those issued, so the
  next number is new; and if its client waits for this number, the batch of the
  request (the statements of the plans, once it runs) is the client's last.
* `Running`: the results are those of exactly the statements before the one the
  executor is at, each of its statement's kind. That needs to know that a SELECT has
  no writes: the step that ends a write statement reports a count.

### Only model-checked

* Liveness (`CallReturns`, `StreamEnds`, `Answered`): fairness and ENABLED are out
  of the prover's reach.
* `ReadPath`, `GraceJoin`, `Sql` and `Catalog` with what they extend: they are
  built from folds, recursive operators and CHOOSE over sequences, and their
  properties compare one such computation with another on every input. The
  prover loses its arithmetic in a module that reaches a RECURSIVE operator, and
  has no induction over an operator.
* `MemoCache`: the policies' victims are chosen by such operators as well.
* `SelectRight` of `Server` rests on the catalog's operators, like the properties
  of `Catalog`.

## Assumptions

* A `sync_all` that succeeds makes all earlier writes of the file durable, those
  before a failed sync included. Creations and renames are durable in program
  order.
* A CRC or page checksum detects every torn frame and page. The superblock fits
  one sector and is never torn.
* A bloom filter has no false negatives. UUIDs never repeat. A hash is any
  function per level.
* In `Catalog` the index entry of a write that returned is durable, and that of a
  write that failed may be found by the next open: this is what `IsDurableKv` shows.
  The tuple is durable with a commit of the heap (`engine_crash`). Tuples are
  committed in the order in which they were put. `Server` follows one life of the
  process, in which an engine write that returned is read back (`ReadsRight`) and one
  that failed is not seen.
* Ids, truncation ids and column positions are one byte: what matters is that
  they have a fixed width. All tuples of a workspace have one size.
* `Server` sends positional INSERTs of constants into columns without a default;
  the other forms are in `Sql`, which runs one statement at a time and without
  faults.
* The texts of dates, instants and JSON documents, and the conversions of Rust,
  chrono, uuid and serde_json behind them, are taken to be inverse to each other:
  a date is the numeral of its day. Floats round to nearest, ties to even.

## Where the code and its comments disagree

`journal_torn_tail` and `merge_join_nulls` are runs of their own. The following were met while modelling.
The models contain them, and the checked properties say around them what holds.
Paths are below `crates/` unless they start with `bins/` or `crucible/`.

* `lsm/src/memstore/journal.rs:65`: a write is logged before the memtable may
  refuse it as full. Replay meets the record again, the table refuses it again
  and the open fails. (A cause in `Damaged`.)
* `lsm/src/lib.rs:127`: a write whose append failed after its frame was complete
  leaves its sequence number free; the next write takes it, and replay keeps the
  first record's op with the second's value. (A cause in `Damaged`.)
* `lsm/src/manifest/mod.rs:29` says "its edit reached the manifest or it didn't".
  An edit that reached the file and whose sync failed (`lsm/src/lib.rs:167`)
  did both: the live version does not have it, the next open does, and the id it
  names is used again.
* `lsm/src/manifest/manager.rs:81`: "a fresh `MANIFEST` that begins with a
  snapshot". After a checkpoint that failed before the switch, the next one
  appends its snapshot behind the first (line 86 opens what is there).
* `lsm/src/manifest/manager.rs:114` sweeps ids below the watermark. The file of
  an interrupted flush has the watermark as its id; it stays until a flush
  overwrites it, where `manifest/mod.rs:27` has any file that is not live deleted.
* `lsm/src/storage/sstable.rs:144`, `get` as of an older seq: it looks into one
  block, and the versions of a key may span blocks, so an older version can be
  missed. `Lsm::get` asks only for the newest, where it is right (`GetNewest`).
* `journal/src/lib.rs:139`: the header is written in two calls; a crash between
  them leaves a file no open accepts.
* `journal/src/frame.rs:24`: a zero-filled tail reads as empty records. Each
  client's codec decides what becomes of it.
* `strata-store/src/engine.rs:29`, "treat `flush` as the durability point": a put
  after a flush overwrites the index entry at once, so a crash can take the value
  that was flushed as well as the new one. `LostOnlyFresh` is what holds: keys
  left alone since the flush are safe.
* `strata-store/src/engine.rs:87`, "the latest value for `key`": when the page of
  a lost tuple is handed out again, the old location reads another key's tuple.
  `ReadsRight` leaves out keys whose tuple a crash took.
* `strata-db/src/catalog/db.rs:111`, "a freshly opened (or reopened) database always
  has a project and dataset that SQL can reference": strata-db never flushes the
  engine, not when it is dropped either. After a crash, or a close, before the heap
  was committed for other reasons, the index has the rows of the namespace and the
  heap does not, and `Db::open` returns an error, as it will at every later open.
  `OpenSeeds` is about the opens that succeed.
* A catalog write that returned an error may have reached the log of the index. It
  is not seen until the database is opened again, and then it is: a name whose
  creation failed resolves, or a table whose replacement failed has a column of the
  other schema. `ViewRight` leaves such names out (`revived`) until the next
  operation on them.
* `filesystem/src/cache/mod.rs:150`: a read miss fails with `PoolExhausted` when
  handles pin every frame.
* `filesystem/src/cache/memo.rs:100`: `clear` keeps the policy's history.
  `WithinBudget` holds all the same.
* `filesystem/src/memory.rs:71`: of two threads that reserve at once both may be
  refused where one would fit. No pool is shared by threads today.
* `filesystem/src/workspace.rs:302` and `:343` skip a page that cannot be loaded,
  without an error. A grace join then builds from part of a bucket, where
  `strata-db/src/query/volcano/join/grace.rs:347` says "every build row is
  indexed", and returns an incomplete join, or pads a row that has a match. A sort
  misses the rows of the page.
* `strata-db/src/query/volcano/join/grace.rs:53`: "this implementation is incorrect",
  on which see the module above. `JoinRight` finds it to return the join unless a
  page is lost.
* `strata-db/src/query/volcano/sort.rs:139`: bit-inverted encodings order
  descending only when no key is a prefix of another; the inverse of a prefix
  still sorts first. `SortRight` and `AnswerRight` leave that case out. Keys of
  one expression that has values of several types order by the bytes of each,
  not by amount.
* `strata-db/src/query/expression/function.rs:33`: the literal arm of the match is
  tried before the one for `%`, so a `%` in the text consumes the one of the
  pattern: `'%x' LIKE '%'` is FALSE.
* `strata-db/src/query/expression/cast.rs:14`, "out-of-range narrowing is an error": a
  float beyond the i64s is cast to the last of them, and NaN to 0, by `as i64`.
  `NumbersRight` states the saturation.
* `strata-db/src/query/mod.rs:122`, of `Internal`: "If this fires, it's a bug above
  us". NOT of a number reports it, and the binder does not refuse that.
* `strata-db/src/query/planner/lower.rs:57`: an equality of columns of two number
  types is sorted by each side's own key bytes and merged by amount; a nested
  loop compares by amount. A query may fail or not by the way its ON is written.
* `strata-db/src/query/planner/binder/expr.rs`: the literal of the least i64 is
  bound as the negation of a literal that is not an i64, hence as a DOUBLE.
* A DEFAULT whose value is an infinite float is stored as text that is not read
  back; a table keyed by an array of texts merges keys whose elements concatenate
  to the same bytes; an INSERT of several rows that meets an oversize value keeps
  those before it; REPEAT with a huge count aborts; bytes cast to TEXT and back
  are their hexadecimal digits.
* `strata-db/src/query/planner/binder/dml.rs:156`, "negative numeric literals
  aren't supported yet": they are, `-` is bound as a negation.
* `strata-db/src/catalog/mod.rs:25`, "the swap is a single metadata write": lines
  578-579 rewrite the columns of the table before line 587 puts the new
  incarnation, so a replace cut short leaves old rows under new columns.
* `strata-db/src/catalog/mod.rs:24`, old incarnations are "unreachable": a batch
  is planned as a whole before any of it runs (`bins/strata-server/src/main.rs:169`),
  so statements behind a CREATE OR REPLACE in the same batch read and write the
  incarnation it replaced, and the rows of an INSERT there are missing from every
  later SELECT, although `crucible/spec-test/spec/ddl/create_replace.slt:74` says
  that "fresh writes land in the new incarnation only". For the same reason a batch that creates a schema and
  then a table in it fails at binding.

## Not modelled

* **Byte formats and system calls**: page, block, SSTable and wire layouts, the
  block device. What a checksum rejects is a value of its own in the models.
* **Compaction**: only types and traits exist. **Configuration, paths, error
  conversions**: no state.
* **The SQL parser** is an external crate: statements come parsed. **System
  relations** as the source of a query, and statistics rows.
* **SQL under faults**: `Sql` has no crash and no failed write; `Server` and
  `Catalog` have these, with fewer statements.
* `Heap::get_mut` and `delete`, `DiskBlockStore::free`, the DELETE executor:
  nothing calls them.
* **Creation of the block file** is one step. A crash after the file was sized
  and before its superblock was written leaves a file that open refuses
  (`filesystem/src/block/disk.rs:56`).
* **The command line client and the spec test driver**: terminal input and
  output.

## Plan

Done, in this order: Journal and its proofs; Lsm with DurableKv; PageCache with
AtomicPages; StorageEngine over both, and its proofs; ReadPath; Workspace, Joins
and GraceJoin; Catalog; MemoCache; Server over the catalog's operators; types,
codecs, expressions, binder, plans and the SQL session.

Then the proofs of PageCache with its refinement, of Lsm with its own, and
of the server's channels.

Next: slots and free space within a tuple page, with the tuple that just fits;
the memory pool under concurrent reservation, should a pool be shared; the
creation of the block file as steps of PageCache; system relations in queries; the
journals of Lsm and PageCache as instances of Journal, so that their assumption
that an append is durable when it returns is composed with `BlockDurability`.
