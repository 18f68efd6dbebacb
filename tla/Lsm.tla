-------------------------------- MODULE Lsm ---------------------------------
(***************************************************************************)
(* crates/lsm: the tree that ties together the journaled memtable, the     *)
(* manifest with its CURRENT pointer, and the SSTable files, with a crash  *)
(* possible between any two of its durable steps and an I/O error in any   *)
(* of them.                                                                *)
(*                                                                         *)
(* append syncs before it returns, so a journal here is the frames on      *)
(* disk (module Journal models the file below).  Creating and renaming     *)
(* files is taken to be durable in program order.                          *)
(***************************************************************************)
EXTENDS Memtable, Manifest

CONSTANTS NoValue,      \* a read that finds nothing, or a tombstone
          ReadError,    \* a read that returns Err
          Nothing,      \* arg when no write is under way
          MaxCalls,     \* bound: put and delete calls
          MaxSst,       \* bound: SSTable ids
          MaxManifest,  \* bound: MANIFEST files
          MaxFaults,    \* bound: crashes and I/O errors
          Settings      \* what a tree may be run with: [vals, capacity,
                        \*   faults], the values written, the memtable's
                        \*   budget, and the faults of the disk:
                        \* "torn": an interrupted or failed append may leave
                        \*   part of a frame;
                        \* "late": an append may fail after its frame is
                        \*   complete (sync_all returns the error)

ASSUME LsmAssumption ==
    /\ MaxCalls \in Nat /\ MaxSst \in Nat /\ MaxManifest \in Nat
    /\ MaxFaults \in Nat
    /\ Settings \subseteq [vals : SUBSET Vals, capacity : Nat,
                            faults : SUBSET {"torn", "late"}]
    /\ Torn \notin [key : Keys, seq : Nat, op : {"put", "delete"},
                     val : Vals \cup {Empty}]
    /\ Torn \notin [runs : Seq(Nat), next : Nat, last : Nat]
    /\ Empty \notin Vals /\ NoValue \notin Vals /\ ReadError \notin Vals

VARIABLES setting,  \* one of Settings
          wal,      \* the memtable journal
          man,      \* MANIFEST-n, for each n
          current,  \* the number in CURRENT
          sst,      \* the SSTable files
          mem, ver, cur, seq,  \* fields of the open Lsm
          pc,       \* the durable step that comes next
          arg,      \* the entry of the write under way
          acked,    \* history: each key's last acknowledged value, or what
                    \*   the last crash left of it
          doubt,    \* history: writes that failed or are under way
          intact,   \* history: no open has met damaged files
          calls, faults        \* counters for the bounds

files == <<wal, man, current, sst>>
fields == <<mem, ver, cur, seq>>
history == <<acked, doubt, intact>>
vars == <<setting, files, fields, pc, arg, history, calls, faults>>

NoFile == [state |-> "absent", kvs |-> {}]

-----------------------------------------------------------------------------
(* Reads.                                                                  *)

Resolve(e) == IF e.op = "put" THEN e.val ELSE NoValue

(***************************************************************************)
(* Lsm::get_at: the memtable, then the runs, newest first.  Opening a      *)
(* run's file comes before looking into it, so a missing or partial file   *)
(* fails the read unless a newer layer holds the key.  s is always the     *)
(* newest seq: SsTable::get need not find older versions (module Tables).  *)
(***************************************************************************)
Get(map, runs, s, k) ==
    LET inMem == Versions(map, k, s)
        stops == {i \in DOMAIN runs :
                     \/ sst[runs[i]].state # "ok"
                     \/ Versions(sst[runs[i]].kvs, k, s) # {}}
    IN  IF inMem # {} THEN Resolve(NewestOf(inMem))
        ELSE IF stops = {} THEN NoValue
        ELSE LET f == sst[runs[Max(stops)]]
             IN  IF f.state = "ok" THEN Resolve(NewestOf(Versions(f.kvs, k, s)))
                                   ELSE ReadError

\* Mutant: the scan ignores its snapshot.
ScanLatest(map, runs, s, k) ==
    LET merged == map \cup UNION {sst[runs[i]].kvs : i \in DOMAIN runs}
        versions == Versions(merged, k, seq)
    IN  IF \E i \in DOMAIN runs : sst[runs[i]].state # "ok" THEN ReadError
        ELSE IF versions = {} THEN NoValue
        ELSE Resolve(NewestOf(versions))

\* Mutant: a tombstone does not end the search for its key.
ScanSkipsTombstones(map, runs, s, k) ==
    LET merged == map \cup UNION {sst[runs[i]].kvs : i \in DOMAIN runs}
        puts == {e \in Versions(merged, k, s) : e.op = "put"}
    IN  IF \E i \in DOMAIN runs : sst[runs[i]].state # "ok" THEN ReadError
        ELSE IF puts = {} THEN NoValue
        ELSE Resolve(NewestOf(puts))

(***************************************************************************)
(* Lsm::scan_at: merge the memtable and every run by key and descending    *)
(* seq, and keep the first version of each key.                            *)
(***************************************************************************)
Scan(map, runs, s, k) ==
    LET merged == map \cup UNION {sst[runs[i]].kvs : i \in DOMAIN runs}
        versions == Versions(merged, k, s)
    IN  IF \E i \in DOMAIN runs : sst[runs[i]].state # "ok" THEN ReadError
        ELSE IF versions = {} THEN NoValue
        ELSE Resolve(NewestOf(versions))

\* The seq an open resumes from: past the flushed watermark and the tail.
ResumeSeq(table, version) == Max({version.last, MaxSeq(table.map)})

\* What reads return after an open that finds these journals.
RecoveredFrom(log, manifest) ==
    LET table == Recover(setting.capacity, log)
        version == Fold(manifest)
        s == ResumeSeq(table, version)
    IN  [k \in Keys |-> IF table.full THEN ReadError
                                      ELSE Get(table.map, version.runs, s, k)]

Recovered == RecoveredFrom(wal, man[current])

\* What they return now.
Live == [k \in Keys |-> Get(mem.map, ver.runs, seq, k)]

-----------------------------------------------------------------------------
Init ==
    /\ setting \in Settings
    /\ wal = <<>>
    /\ man = [n \in 0..MaxManifest |-> <<>>]
    /\ current = 0
    /\ sst = [id \in 0..(MaxSst - 1) |-> NoFile]
    /\ mem = EmptyTable(setting.capacity) /\ ver = EmptyVersion /\ cur = 0 /\ seq = 0
    /\ pc = "down"
    /\ arg = Nothing
    /\ acked = [k \in Keys |-> NoValue]
    /\ doubt = {}
    /\ intact = TRUE
    /\ calls = 0 /\ faults = 0

\* The named causes of a loss: what an open would meet in the files.
Damaged ==
    \/ \E log \in {wal, man[current]} : \E i \in DOMAIN log : log[i] = Torn
    \/ Recover(setting.capacity, wal).full
    \/ \E i, j \in DOMAIN wal : SameSlot(wal[i], wal[j]) /\ wal[i].op # wal[j].op
    \/ \E id \in LiveFiles(Fold(man[current])) : sst[id].state # "ok"

\* garbage_collect: what lies below the watermark and is not live.
Collected(v) ==
    [id \in DOMAIN sst |->
        IF id < v.next /\ id \notin LiveFiles(v) THEN NoFile ELSE sst[id]]

\* Lsm::with_memtable.
Open ==
    /\ pc = "down"
    /\ ~Recover(setting.capacity, wal).full
    /\ ver' = Fold(man[current])
    /\ cur' = current
    /\ mem' = Recover(setting.capacity, wal)
    /\ seq' = ResumeSeq(mem', ver')
    /\ sst' = Collected(Fold(man[current]))
    /\ intact' = (intact /\ ~Damaged)
    /\ pc' = "idle"
    /\ UNCHANGED <<wal, man, current, arg, acked, doubt, calls, faults>>

-----------------------------------------------------------------------------
(* Journals: what a failed append leaves behind.                           *)

\* Part of a frame behind what is there.  (Two are no worse than one.)
Tear(log) == IF log # <<>> /\ log[Len(log)] = Torn THEN log ELSE Append(log, Torn)

FailedAppend(log, r) ==
    {log}
    \cup (IF "torn" \in setting.faults THEN {Tear(log)} ELSE {})
    \cup (IF "late" \in setting.faults THEN {Append(log, r)} ELSE {})

Fault == faults < MaxFaults /\ faults' = faults + 1

-----------------------------------------------------------------------------
(* Lsm::put and Lsm::delete.                                               *)

Written(e) == <<e.key, Resolve(e)>>

Writes == {e \in [key : Keys, seq : {seq + 1}, op : {"put", "delete"},
                  val : setting.vals \cup {Empty}] : (e.op = "delete") = (e.val = Empty)}

\* A call starts: Journaled::put logs the entry ...
WriteLog(e) ==
    /\ pc = "idle"
    /\ calls < MaxCalls
    /\ calls' = calls + 1
    /\ wal' = Append(wal, e)
    /\ arg' = e
    /\ doubt' = doubt \cup {Written(e)}
    /\ pc' = "logged"
    /\ UNCHANGED <<man, current, sst, fields, acked, intact, faults>>

\* ... or fails to, and returns the error; seq does not advance.
WriteLogFails(e) ==
    /\ pc = "idle"
    /\ calls < MaxCalls
    /\ Fault
    /\ calls' = calls + 1
    /\ wal' \in FailedAppend(wal, e)
    /\ doubt' = doubt \cup {Written(e)}
    /\ UNCHANGED <<man, current, sst, fields, pc, arg, acked, intact>>

\* Mutant: a delete takes no seq of its own.
WriteApplySameSeq ==
    /\ pc = "logged"
    /\ ~TablePut(mem, arg).full
    /\ mem' = TablePut(mem, arg)
    /\ seq' = IF arg.op = "put" THEN seq + 1 ELSE seq
    /\ acked' = [acked EXCEPT ![arg.key] = Resolve(arg)]
    /\ doubt' = {d \in doubt : d[1] # arg.key}
    /\ arg' = Nothing
    /\ pc' = "idle"
    /\ UNCHANGED <<files, ver, cur, intact, calls, faults>>

\* ... then applies it: the call returns Ok.
WriteApply ==
    /\ pc = "logged"
    /\ ~TablePut(mem, arg).full
    /\ mem' = TablePut(mem, arg)
    /\ seq' = seq + 1
    /\ acked' = [acked EXCEPT ![arg.key] = Resolve(arg)]
    /\ doubt' = {d \in doubt : d[1] # arg.key}
    /\ arg' = Nothing
    /\ pc' = "idle"
    /\ UNCHANGED <<files, ver, cur, intact, calls, faults>>

\* ... or the table refuses it: the call returns StoreFull.
WriteFull ==
    /\ pc = "logged"
    /\ TablePut(mem, arg).full
    /\ arg' = Nothing
    /\ pc' = "idle"
    /\ UNCHANGED <<files, fields, history, calls, faults>>

-----------------------------------------------------------------------------
(* Lsm::flush.                                                             *)

\* SsTable::write creates (truncates) the file ...
FlushCreate ==
    /\ pc = "idle"
    /\ mem.map # {}
    /\ ver.next < MaxSst
    /\ sst' = [sst EXCEPT ![ver.next] = [state |-> "partial", kvs |-> {}]]
    /\ pc' = "sst"
    /\ UNCHANGED <<wal, man, current, fields, arg, history, calls, faults>>

\* Mutant: the memtable journal is truncated before the commit.
FlushWriteClears ==
    /\ pc = "sst"
    /\ sst' = [sst EXCEPT ![ver.next] = [state |-> "ok", kvs |-> mem.map]]
    /\ wal' = <<>>
    /\ pc' = "commit"
    /\ UNCHANGED <<man, current, fields, arg, history, calls, faults>>

\* ... and writes and syncs it ...
FlushWrite ==
    /\ pc = "sst"
    /\ sst' = [sst EXCEPT ![ver.next] = [state |-> "ok", kvs |-> mem.map]]
    /\ pc' = "commit"
    /\ UNCHANGED <<wal, man, current, fields, arg, history, calls, faults>>

\* Mutant: the edit is logged and not applied.
FlushCommitNotApplied ==
    /\ pc = "commit"
    /\ man' = [man EXCEPT ![cur] = Append(@, FlushEdit(ver.next, seq))]
    /\ pc' = "clear"
    /\ UNCHANGED <<wal, current, sst, fields, arg, history, calls, faults>>

\* ... then the edit is logged and applied: the commit point ...
FlushCommit ==
    /\ pc = "commit"
    /\ LET edit == FlushEdit(ver.next, seq)
       IN  /\ man' = [man EXCEPT ![cur] = Append(@, edit)]
           /\ ver' = Apply(ver, edit)
    /\ pc' = "clear"
    /\ UNCHANGED <<wal, current, sst, mem, cur, seq, arg, history, calls, faults>>

\* ... then the memtable is cleared, its journal first.
FlushClear ==
    /\ pc = "clear"
    /\ wal' = <<>>
    /\ mem' = EmptyTable(setting.capacity)
    /\ pc' = "idle"
    /\ UNCHANGED <<man, current, sst, ver, cur, seq, arg, history, calls, faults>>

\* Mutant: the memtable journal is truncated whether the commit succeeds
\* or not.
FlushFailsClears ==
    /\ Fault
    /\ pc \in {"sst", "commit", "clear"}
    /\ wal' = <<>>
    /\ pc' = "idle"
    /\ UNCHANGED <<man, current, sst, fields, arg, history, calls>>

\* Any of the three durable steps may fail; flush returns the error.
FlushFails ==
    /\ Fault
    /\ \/ /\ pc = "sst"
          /\ UNCHANGED <<wal, man>>
       \/ /\ pc = "commit"
          /\ \E log \in FailedAppend(man[cur], FlushEdit(ver.next, seq)) :
                man' = [man EXCEPT ![cur] = log]
          /\ UNCHANGED wal
       \/ /\ pc = "clear"
          /\ wal' \in {wal, <<>>}
          /\ UNCHANGED man
    /\ pc' = "idle"
    /\ UNCHANGED <<current, sst, fields, arg, history, calls>>

-----------------------------------------------------------------------------
(* ManifestManager::checkpoint.                                            *)

\* The next MANIFEST is opened, as it is if it exists, and a snapshot of
\* the version appended ...
CheckpointAppend ==
    /\ pc = "idle"
    /\ cur < MaxManifest
    /\ man' = [man EXCEPT ![cur + 1] = Append(@, Snapshot(ver))]
    /\ pc' = "ckpt"
    /\ UNCHANGED <<wal, current, sst, fields, arg, history, calls, faults>>

\* ... then CURRENT is renamed over and the old file, never read again,
\* removed.
CheckpointSwitch ==
    /\ pc = "ckpt"
    /\ current' = cur + 1
    /\ cur' = cur + 1
    /\ man' = [man EXCEPT ![cur] = <<>>]
    /\ pc' = "idle"
    /\ UNCHANGED <<wal, sst, mem, ver, seq, arg, history, calls, faults>>

\* The append fails, or writing CURRENT does.
CheckpointFails ==
    /\ Fault
    /\ \/ /\ pc = "idle"
          /\ cur < MaxManifest
          /\ \E log \in FailedAppend(man[cur + 1], Snapshot(ver)) :
                man' = [man EXCEPT ![cur + 1] = log]
       \/ /\ pc = "ckpt"
          /\ UNCHANGED man
    /\ pc' = "idle"
    /\ UNCHANGED <<wal, current, sst, fields, arg, history, calls>>

-----------------------------------------------------------------------------
(***************************************************************************)
(* A crash: the fields are gone.  A crash inside an append may leave part  *)
(* of a frame: at idle of a write (in the memtable journal) or of a        *)
(* checkpoint (in the next manifest), at commit of a flush.  A crash just  *)
(* after an append is one in the state that follows.  A truncation under   *)
(* way may or may not have happened.                                       *)
(***************************************************************************)
CrashOutcomes ==
    {<<wal, man>>}
    \cup (IF pc = "clear" THEN {<<(<<>>), man>>} ELSE {})
    \cup (IF pc = "idle" /\ "torn" \in setting.faults
          THEN {<<Tear(wal), man>>}
               \cup {<<wal, [man EXCEPT ![n] = Tear(@)]>> :
                        n \in {cur + 1} \cap 0..MaxManifest}
          ELSE {})
    \cup (IF pc = "commit" /\ "torn" \in setting.faults
          THEN {<<wal, [man EXCEPT ![cur] = Tear(@)]>>} ELSE {})

Crash ==
    /\ pc # "down"
    /\ Fault
    /\ \E o \in CrashOutcomes :
          /\ wal' = o[1]
          /\ man' = o[2]
          /\ acked' = RecoveredFrom(o[1], o[2][current])
    /\ mem' = EmptyTable(setting.capacity) /\ ver' = EmptyVersion /\ cur' = 0 /\ seq' = 0
    /\ pc' = "down"
    /\ arg' = Nothing
    /\ doubt' = {}
    /\ UNCHANGED <<current, sst, intact, calls>>

Next ==
    /\ \/ Open
       \/ \E e \in Writes : WriteLog(e) \/ WriteLogFails(e)
       \/ WriteApply \/ WriteFull
       \/ FlushCreate \/ FlushWrite \/ FlushCommit \/ FlushClear \/ FlushFails
       \/ CheckpointAppend \/ CheckpointSwitch \/ CheckpointFails
       \/ Crash
    /\ UNCHANGED setting

Spec == Init /\ [][Next]_vars
-----------------------------------------------------------------------------
(* Properties.                                                             *)

Up == pc # "down"

\* A disk whose failed appends leave nothing behind, and a memtable with room
\* for every write (an entry accounts for at most two bytes).
Sheltered == setting.faults = {} /\ setting.capacity >= 2 * MaxCalls

Kv == INSTANCE DurableKv WITH Values <- Vals, store <- acked, up <- Up

(***************************************************************************)
(* Refinement: the tree is a durable key-value map.  Acknowledged writes   *)
(* survive a crash at any step of a write, flush or checkpoint, and        *)
(* nothing but a write in doubt appears at a recovery: always if no append *)
(* is torn or fails after its frame is complete and no write is refused,   *)
(* and on any other disk up to the first crash that leaves damaged files.  *)
(***************************************************************************)
IsDurableKv ==
    Kv!Init /\ [][Sheltered \/ (intact /\ (Up' \/ ~Damaged')) => Kv!Next]_(Kv!kvars)

(***************************************************************************)
(* A read returns the last acknowledged value: no failed append, refused   *)
(* write, failed flush or checkpoint shows through while the process       *)
(* lives, and an open after a crash loses nothing the crash left.          *)
(***************************************************************************)
ReadsAcked == Up /\ intact => Live = acked

(***************************************************************************)
(* get and scan agree: get stops at the first layer that holds the key,    *)
(* scan merges all layers by seq, and these are the same only if no older  *)
(* layer holds a newer version.  (Scan breaks a tie of two layers in one   *)
(* slot either way; VersionsUnique makes it no choice.)                    *)
(***************************************************************************)
GetScanAgree ==
    Up /\ intact =>
        \A k \in Keys :
            Get(mem.map, ver.runs, seq, k) = Scan(mem.map, ver.runs, seq, k)

(***************************************************************************)
(* scan_at is "point-in-time": while the process lives, no later write,    *)
(* flush or checkpoint changes what a scan as of an earlier seq returns.   *)
(***************************************************************************)
ScanStable ==
    [][Up /\ Up' /\ intact => \A k \in Keys, s \in 0..seq :
                      Scan(mem.map, ver.runs, s, k)'
                          = Scan(mem.map, ver.runs, s, k)]_vars

(***************************************************************************)
(* A version is written once: where two layers hold the same key and seq   *)
(* they hold the same entry (a crash between a flush's commit and its      *)
(* clear leaves it in both), and no layer is ahead of the counter that     *)
(* numbers the next write ("so seq numbering resumes correctly").          *)
(***************************************************************************)
VersionsUnique ==
    Up /\ intact =>
          LET all == mem.map \cup UNION {sst[id].kvs : id \in LiveFiles(ver)}
          IN  /\ \A e, f \in all : SameSlot(e, f) => e = f
              /\ \A e \in all : e.seq <= seq

(***************************************************************************)
(* The causes of a lost write, and there are no others: at every step an   *)
(* open after a crash would find each key's acknowledged value, or one in  *)
(* doubt, unless a journal holds a torn frame, the memtable journal holds  *)
(* a record its table refuses or two ops in one slot, or the manifest      *)
(* names an incomplete file, now or at an earlier open.                    *)
(***************************************************************************)
LostOnlyIfDamaged ==
    Up /\ intact /\ ~Damaged =>
        LET found == Recovered
        IN  \A k \in Keys : found[k] = acked[k] \/ <<k, found[k]>> \in doubt
=============================================================================
