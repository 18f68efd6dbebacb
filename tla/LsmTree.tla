------------------------------ MODULE LsmTree -------------------------------
(***************************************************************************)
(* The inductive invariant of the LSM tree, and what each of its steps     *)
(* does to the types and to the agreement of memtable, version, journals   *)
(* and files.                                                              *)
(***************************************************************************)
EXTENDS LsmLogs

Clash(log) == \E i, j \in DOMAIN log : SameSlot(log[i], log[j]) /\ log[i].op # log[j].op

\* An open replays all of this journal.
Replays(capacity, log) == Whole(log) /\ ~Recover(capacity, log).full /\ ~Clash(log)

\* ... into its own records, the last of each slot.
Sound(capacity, log) ==
    /\ Whole(log) => \A i \in DOMAIN log : WellFormed(log[i])
    /\ Replays(capacity, log) =>
        LET T == Recover(capacity, log).map
        IN  /\ \A e \in T : \E i \in DOMAIN log : e = log[i]
            /\ OneVersion(T)
            /\ \A i \in DOMAIN log : \E e \in T : SameSlot(e, log[i])

\* A frame appended to a log, index by index.
LEMMA AppendIs ==
    ASSUME NEW S, NEW log \in Seq(S), NEW e \in S
    PROVE  /\ Append(log, e) \in Seq(S)
           /\ Len(log) \in Nat /\ Len(Append(log, e)) = Len(log) + 1
           /\ \A i \in DOMAIN log : i \in DOMAIN Append(log, e) /\ Append(log, e)[i] = log[i]
           /\ Len(log) + 1 \in DOMAIN Append(log, e) /\ Append(log, e)[Len(log) + 1] = e
           /\ \A i \in DOMAIN Append(log, e) : i \in DOMAIN log \/ i = Len(log) + 1
  <1>1. Len(log) \in Nat /\ DOMAIN log = 1..Len(log)
    OBVIOUS
  <1>2. Append(log, e) \in Seq(S) /\ Len(Append(log, e)) = Len(log) + 1
    OBVIOUS
  <1>3. DOMAIN Append(log, e) = 1..(Len(log) + 1)
    BY <1>2
  <1>4. \A i \in 1..Len(log) : Append(log, e)[i] = log[i]
    BY <1>1
  <1>5. Append(log, e)[Len(log) + 1] = e
    BY <1>1
  <1> QED
    BY <1>1, <1>2, <1>3, <1>4, <1>5

\* A journal that an append left torn replays no further than before.
LEMMA TearIs ==
    ASSUME NEW S, NEW log \in Seq(S \cup {Torn})
    PROVE  Tear(log) \in Seq(S \cup {Torn}) /\ ~Whole(Tear(log))
  <1>1. CASE log # <<>> /\ log[Len(log)] = Torn
    <2>1. Tear(log) = log /\ Len(log) \in DOMAIN log
      BY <1>1 DEF Tear
    <2> QED
      BY <1>1, <2>1, Zenon DEF Whole
  <1>2. CASE ~(log # <<>> /\ log[Len(log)] = Torn)
    <2>1. Tear(log) = Append(log, Torn)
      BY <1>2, Zenon DEF Tear
    <2>2. PICK t \in S \cup {Torn} : t = Torn
      BY Zenon
    <2>3. Append(log, t) \in Seq(S \cup {Torn})
      BY <2>2
    <2>4. ~Whole(Append(log, t))
      BY <2>2, WholeAppend, Zenon
    <2> QED
      BY <2>1, <2>2, <2>3, <2>4, Zenon
  <1> QED
    BY <1>1, <1>2, Zenon

\* The journal a flush has cleared.
LEMMA SoundNone ==
    ASSUME CountFact, InductionFact, NEW capacity \in Nat
    PROVE  /\ Sound(capacity, <<>>)
           /\ Recover(capacity, <<>>) = EmptyTable(capacity)
           /\ Recover(capacity, <<>>).map = {}
           /\ Replays(capacity, <<>>)
  <1>1. Recover(capacity, <<>>) = EmptyTable(capacity)
    BY RecoverNone, Zenon
  <1>2. Recover(capacity, <<>>).map = {} /\ Recover(capacity, <<>>).full = FALSE
    BY <1>1 DEF EmptyTable
  <1>3. DOMAIN <<>> = {}
    OBVIOUS
  <1>4. Replays(capacity, <<>>)
    BY <1>2, <1>3, Zenon DEF Replays, Whole, Clash
  <1>5. Sound(capacity, <<>>)
    BY <1>2, <1>3, Zenon DEF Sound, OneVersion
  <1> QED
    BY <1>1, <1>2, <1>4, <1>5, Zenon

\* The journal after a write was logged: the record takes its slot in the replay.
LEMMA SoundAppend ==
    ASSUME CountFact, InductionFact, NEW capacity \in Nat,
           NEW log \in Seq(Entry \cup {Torn}), Sound(capacity, log), NEW e \in Entry, WellFormed(e)
    PROVE  /\ Sound(capacity, Append(log, e))
           /\ Replays(capacity, Append(log, e)) =>
                 /\ Replays(capacity, log)
                 /\ Recover(capacity, Append(log, e)).map
                      = {g \in Recover(capacity, log).map : ~SameSlot(e, g)} \cup {e}
  <1>1. PICK log2 : log2 = Append(log, e)
    BY Zenon
  <1>2. PICK T : T = Recover(capacity, log).map
    BY Zenon
  <1>3. PICK m : m = Len(log) + 1
    BY Zenon
  <1>4. e \in Entry \cup {Torn} /\ e # Torn
    BY TornIsNoRecord, Zenon
  <1>5. /\ \A i \in DOMAIN log : i \in DOMAIN log2 /\ log2[i] = log[i]
        /\ m \in DOMAIN log2 /\ log2[m] = e
        /\ \A i \in DOMAIN log2 : i \in DOMAIN log \/ i = m
    BY <1>1, <1>3, <1>4, AppendIs
  <1>6. Whole(log2) <=> Whole(log)
    BY <1>1, <1>4, WholeAppend, Zenon
  <1>7. Recover(capacity, log) \in Tables(capacity)
    BY RecoverType, Zenon
  <1>8. T \in SUBSET Entry
    BY <1>2, <1>7, Zenon DEF Tables, Table
  <1>9. ASSUME Replays(capacity, log2)
        PROVE  /\ Replays(capacity, log)
               /\ Recover(capacity, log2).map = {g \in T : ~SameSlot(e, g)} \cup {e}
    <2>1. Whole(log) /\ ~Clash(log2) /\ ~Recover(capacity, log2).full
      BY <1>6, <1>9, Zenon DEF Replays
    <2>2. ~Clash(log)
      BY <1>5, <2>1 DEF Clash
    <2>3. Recover(capacity, log2) = TablePut(Recover(capacity, log), e)
      BY <1>1, <2>1, RecoverAppend, Zenon
    <2>4. ~Recover(capacity, log).full /\ Recover(capacity, log2).map = Insert(T, e)
      BY <1>2, <1>7, <2>1, <2>3, PutIsTable, Zenon
    <2>5. Replays(capacity, log)
      BY <2>1, <2>2, <2>4, Zenon DEF Replays
    <2>6. OneVersion(T) /\ \A f \in T : \E i \in DOMAIN log : f = log[i]
      BY <1>2, <2>5, Zenon DEF Sound
    <2>7. \A f \in T : SameSlot(e, f) => f.op = e.op
      BY <1>5, <2>1, <2>6 DEF Clash
    <2>8. Insert(T, e) = {g \in T : ~SameSlot(e, g)} \cup {e}
      BY <1>8, <2>6, <2>7, InsertIs, Zenon
    <2> QED
      BY <2>4, <2>5, <2>8, Zenon
  <1>10. Whole(log2) => \A i \in DOMAIN log2 : WellFormed(log2[i])
    BY <1>5, <1>6, Zenon DEF Sound
  <1>11. ASSUME Replays(capacity, log2), NEW T2, T2 = {g \in T : ~SameSlot(e, g)} \cup {e}
         PROVE  /\ \A f \in T2 : \E i \in DOMAIN log2 : f = log2[i]
                /\ OneVersion(T2)
                /\ \A i \in DOMAIN log2 : \E f \in T2 : SameSlot(f, log2[i])
    <2>1. /\ OneVersion(T)
          /\ \A f \in T : \E i \in DOMAIN log : f = log[i]
          /\ \A i \in DOMAIN log : \E f \in T : SameSlot(f, log[i])
      BY <1>2, <1>9, <1>11, Zenon DEF Sound
    <2>2. \A f \in T2 : \E i \in DOMAIN log2 : f = log2[i]
      BY <1>5, <1>11, <2>1, Zenon
    <2>3. OneVersion(T2)
      BY <1>11, <2>1, Zenon DEF OneVersion, SameSlot
    <2>4. ASSUME NEW i \in DOMAIN log2
          PROVE  \E f \in T2 : SameSlot(f, log2[i])
      <3>1. CASE i = m
        <4>1. e \in T2 /\ SameSlot(e, log2[i])
          BY <1>5, <1>11, <3>1, Zenon DEF SameSlot
        <4> QED
          BY <4>1, Zenon
      <3>2. CASE i \in DOMAIN log
        <4>1. PICK f \in T : SameSlot(f, log[i])
          BY <2>1, <3>2, Zenon
        <4>2. CASE SameSlot(e, f)
          <5>1. e \in T2 /\ SameSlot(e, log2[i])
            BY <1>5, <1>11, <3>2, <4>1, <4>2, Zenon DEF SameSlot
          <5> QED
            BY <5>1, Zenon
        <4>3. CASE ~SameSlot(e, f)
          BY <1>5, <1>11, <3>2, <4>1, <4>3, Zenon
        <4> QED
          BY <4>2, <4>3, Zenon
      <3> QED
        BY <1>5, <3>1, <3>2, Zenon
    <2> QED
      BY <2>2, <2>3, <2>4, Zenon
  <1>12. Sound(capacity, log2)
    BY <1>9, <1>10, <1>11, Zenon DEF Sound
  <1> QED
    BY <1>1, <1>2, <1>9, <1>12, Zenon

-----------------------------------------------------------------------------
(* The invariant.                                                          *)

\* The type invariant.
TypeOK ==
    /\ setting \in Settings
    /\ wal \in Seq(Entry \cup {Torn})
    /\ man \in [0..MaxManifest -> Seq(Version \cup {Torn})]
    /\ current \in 0..MaxManifest
    /\ sst \in Disks
    /\ mem \in Tables(setting.capacity)
    /\ mem.full = FALSE
    /\ ver \in Version
    /\ cur \in 0..MaxManifest
    /\ seq \in Nat
    /\ pc \in {"down", "idle", "logged", "sst", "commit", "clear", "ckpt"}
    /\ pc = "logged" => arg \in Entry
    /\ pc = "ckpt" => cur < MaxManifest
    /\ intact \in BOOLEAN
    /\ calls \in 0..MaxCalls
    /\ faults \in Nat

\* What the journals give: the memtable, the version, and the version of the
\* next manifest.
Kept == Recover(setting.capacity, wal)

OnDisk == Fold(man[current])

Upcoming == Fold(man[current + 1])

\* The open tree holds the acknowledged values, and its step is where it says.
Running ==
    Up =>
        /\ Serves(sst, mem.map, ver, seq, acked)
        /\ cur = current
        /\ pc = "logged" => arg.seq = seq + 1 /\ WellFormed(arg) /\ Written(arg) \in doubt
        /\ pc \in {"sst", "commit"} => ver.next < MaxSst
        /\ pc = "commit" => sst[ver.next] = [state |-> "ok", kvs |-> mem.map]
        /\ pc = "clear" => ver.last = seq /\ mem.map \in SUBSET Files(sst, ver)

\* The memtable journal would give it back ...
WalSide ==
    Up /\ Replays(setting.capacity, wal) =>
        /\ LogCovers(Kept.map, mem.map, Files(sst, ver), ver.last, seq, doubt)
        /\ pc = "logged" => arg \in Kept.map

\* ... and so would the manifest.
ManSide ==
    Up /\ Whole(man[current]) =>
        /\ ManifestCovers(OnDisk, ver, sst, mem.map)
        /\ pc = "clear" => ver.next \notin LiveFiles(OnDisk)

\* What a checkpoint that did not switch left behind names no other files.
NextSide ==
    /\ \A n \in 0..MaxManifest : n > current + 1 => man[n] = <<>>
    /\ Up /\ current < MaxManifest /\ Whole(man[current + 1]) =>
        /\ \A id \in LiveFiles(Upcoming) : id \in LiveFiles(ver)
        /\ pc = "ckpt" => /\ LiveFiles(Upcoming) = LiveFiles(ver)
                          /\ Upcoming.next = ver.next
                          /\ Upcoming.last = ver.last
                          /\ InOrder(Upcoming.runs)

\* The files at rest hold the values the crash left.
Resting ==
    ~Up /\ ~Damaged =>
        /\ Layers(sst, Kept.map, OnDisk)
        /\ \A e \in Content(sst, Kept.map, OnDisk) :
              e.seq <= OnDisk.last \/ \E f \in Kept.map : e.seq <= f.seq
        /\ acked = [k \in Keys |-> Value(Content(sst, Kept.map, OnDisk), k)]
        /\ current < MaxManifest /\ Whole(man[current + 1]) =>
              \A id \in LiveFiles(Upcoming) : id \in LiveFiles(OnDisk)

Tree == Sound(setting.capacity, wal) /\ Running /\ WalSide /\ ManSide /\ NextSide /\ Resting

\* A journal of n calls at most that a table of the capacity has room for.
Fits(capacity, log, n) ==
    /\ Whole(log)
    /\ Len(log) <= n
    /\ ~Recover(capacity, log).full
    /\ Recover(capacity, log).size <= 2 * Len(log)
    /\ \A i, j \in DOMAIN log : SameSlot(log[i], log[j]) => i = j

\* On a disk whose failed appends leave nothing behind, and with room for
\* every write, the files are never damaged.
Shelter ==
    Sheltered =>
        /\ intact
        /\ Fits(setting.capacity, wal, calls)
        /\ \A n \in 0..MaxManifest : Whole(man[n])
        /\ Up => mem.size <= 2 * calls
        /\ pc = "logged" => mem.size + 2 <= 2 * calls
        /\ Up => \A i \in DOMAIN wal : wal[i].seq <= (IF pc = "logged" THEN seq + 1 ELSE seq)
        /\ Up => LiveFiles(OnDisk) = LiveFiles(ver)
        /\ ~Up => \A id \in LiveFiles(OnDisk) : sst[id].state = "ok"

IInv == TypeOK /\ (intact => Tree) /\ Shelter

-----------------------------------------------------------------------------
\* The types of what the journals give.
LEMMA Given ==
    ASSUME CountFact, InductionFact, TypeOK
    PROVE  /\ setting.capacity \in Nat
           /\ mem.map \in SUBSET Entry
           /\ Kept \in Tables(setting.capacity)
           /\ Kept.map \in SUBSET Entry
           /\ man[current] \in Seq(Version \cup {Torn})
           /\ OnDisk \in Version
           /\ current < MaxManifest =>
                 /\ current + 1 \in 0..MaxManifest
                 /\ man[current + 1] \in Seq(Version \cup {Torn})
                 /\ Upcoming \in Version
  <1>1. setting.capacity \in Nat
    BY LsmAssumption, Zenon DEF TypeOK
  <1>2. mem.map \in SUBSET Entry
    BY Zenon DEF TypeOK, Tables, Table
  <1>3. Kept \in Tables(setting.capacity)
    BY <1>1, RecoverType, Zenon DEF TypeOK, Kept
  <1>4. Kept.map \in SUBSET Entry
    BY <1>3, Zenon DEF Tables, Table
  <1>5. man[current] \in Seq(Version \cup {Torn})
    BY Zenon DEF TypeOK
  <1>6. OnDisk \in Version
    BY <1>5, FoldType, Zenon DEF OnDisk
  <1>7. ASSUME current < MaxManifest
        PROVE  /\ current + 1 \in 0..MaxManifest
               /\ man[current + 1] \in Seq(Version \cup {Torn})
               /\ Upcoming \in Version
    <2>1. current + 1 \in 0..MaxManifest
      BY <1>7, LsmAssumption DEF TypeOK
    <2>2. man[current + 1] \in Seq(Version \cup {Torn})
      BY <2>1, Zenon DEF TypeOK
    <2> QED
      BY <2>1, <2>2, FoldType, Zenon DEF Upcoming
  <1> QED
    BY <1>1, <1>2, <1>3, <1>4, <1>5, <1>6, <1>7, Zenon

\* What a failed append may leave.
LEMMA FailedIs ==
    ASSUME NEW S, NEW log \in Seq(S \cup {Torn}), NEW r \in S, NEW l \in FailedAppend(log, r)
    PROVE  /\ l \in Seq(S \cup {Torn})
           /\ l = log \/ ~Whole(l) \/ l = Append(log, r)
           /\ setting.faults = {} => l = log
  <1>1. r \in S \cup {Torn}
    BY Zenon
  <1>2. Append(log, r) \in Seq(S \cup {Torn})
    BY <1>1
  <1>3. Tear(log) \in Seq(S \cup {Torn}) /\ ~Whole(Tear(log))
    BY TearIs, Zenon
  <1>4. \/ l = log
        \/ l = Tear(log) /\ "torn" \in setting.faults
        \/ l = Append(log, r) /\ "late" \in setting.faults
    BY Zenon DEF FailedAppend
  <1> QED
    BY <1>2, <1>3, <1>4, Zenon

\* The writes a call may make.
LEMMA WritesAre ==
    ASSUME TypeOK, NEW e \in Writes
    PROVE  e \in Entry /\ e.seq = seq + 1 /\ WellFormed(e)
  <1>1. setting.vals \in SUBSET Vals
    BY LsmAssumption, Zenon DEF TypeOK
  <1>2. /\ e \in [key : Keys, seq : {seq + 1}, op : {"put", "delete"},
                  val : setting.vals \cup {Empty}]
        /\ (e.op = "delete") = (e.val = Empty)
    BY Zenon DEF Writes
  <1>3. seq + 1 \in Nat
    BY DEF TypeOK
  <1>4. e \in Entry /\ e.seq = seq + 1
    BY <1>1, <1>2, <1>3, Zenon DEF Entry
  <1>5. WellFormed(e)
    BY <1>1, <1>2, Zenon DEF WellFormed
  <1> QED
    BY <1>4, <1>5, Zenon

\* What a flush and a checkpoint append to the manifest.
LEMMA EditsAre ==
    ASSUME TypeOK
    PROVE  FlushEdit(ver.next, seq) \in Version /\ Snapshot(ver) = ver
  <1>1. ver.runs \in Seq(Nat) /\ ver.next \in Nat /\ seq \in Nat /\ ver.last \in Nat
    BY Zenon DEF TypeOK, Version
  <1>2. PICK n : n = ver.next
    BY Zenon
  <1>3. PICK q : q = <<n>>
    BY Zenon
  <1>4. q \in Seq(Nat) /\ n + 1 \in Nat
    BY <1>1, <1>2, <1>3
  <1>5. [runs |-> q, next |-> n + 1, last |-> seq] \in Version
    BY <1>1, <1>4, Zenon DEF Version
  <1>6. Snapshot(ver) = ver
    BY Zenon DEF TypeOK, Snapshot, Version
  <1> QED
    BY <1>2, <1>3, <1>5, <1>6, Zenon DEF FlushEdit

-----------------------------------------------------------------------------
\* Types: the calls.
LEMMA TypeCalls ==
    ASSUME MaxFact, CountFact, InductionFact, TypeOK, UNCHANGED setting,
           \/ Open
           \/ \E e \in Writes : WriteLog(e) \/ WriteLogFails(e)
           \/ WriteApply \/ WriteFull
    PROVE  TypeOK'
  <1>1. setting.capacity \in Nat /\ Kept \in Tables(setting.capacity) /\ OnDisk \in Version
    BY Given, Zenon
  <1>2. CASE Open
    <2>1. mem' = Kept /\ ver' = OnDisk
      BY <1>2, Zenon DEF Open, Kept, OnDisk
    <2>2. mem'.full = FALSE
      BY <1>1, <1>2, <2>1, Zenon DEF Open, Kept, Tables, Table
    <2>3. seq' \in Nat
      <3>1. PICK b \in Nat : \A e \in Kept.map : e.seq <= b
        BY <1>1, Zenon DEF Tables
      <3>2. Kept.map \in SUBSET Entry
        BY Given, Zenon
      <3>3. ResumeSeq(Kept, OnDisk) \in Nat
        BY <1>1, <3>1, <3>2, ResumeIs, Zenon
      <3> QED
        BY <1>2, <2>1, <3>3, Zenon DEF Open
    <2>4. sst' \in Disks
      <3>1. sst \in [0..(MaxSst - 1) -> File] /\ NoFile \in File
        BY Zenon DEF TypeOK, Disks, NoFile, File
      <3>2. sst' = [id \in DOMAIN sst |-> IF id < OnDisk.next /\ id \notin LiveFiles(OnDisk)
                                          THEN NoFile ELSE sst[id]]
        BY <1>2, Zenon DEF Open, Collected, OnDisk
      <3> QED
        BY <3>1, <3>2, Zenon DEF Disks
    <2>5. intact' \in BOOLEAN /\ pc' = "idle"
      BY <1>2, Zenon DEF Open, TypeOK
    <2>6. UNCHANGED <<wal, man, current, arg, calls, faults>> /\ cur' = current
      BY <1>2, Zenon DEF Open
    <2> QED
      BY <1>1, <2>1, <2>2, <2>3, <2>4, <2>5, <2>6, Zenon DEF TypeOK
  <1>3. ASSUME NEW e \in Writes, WriteLog(e)
        PROVE  TypeOK'
    <2>1. e \in Entry
      BY WritesAre, Zenon
    <2>2. wal' \in Seq(Entry \cup {Torn})
      <3>1. e \in Entry \cup {Torn} /\ wal \in Seq(Entry \cup {Torn})
        BY <2>1, Zenon DEF TypeOK
      <3>2. Append(wal, e) \in Seq(Entry \cup {Torn})
        BY <3>1, AppendIs, Zenon
      <3> QED
        BY <1>3, <3>2, Zenon DEF WriteLog
    <2>3. calls' \in 0..MaxCalls
      BY <1>3, LsmAssumption DEF WriteLog, TypeOK
    <2> QED
      BY <1>3, <2>1, <2>2, <2>3, Zenon DEF WriteLog, TypeOK, fields
  <1>4. ASSUME NEW e \in Writes, WriteLogFails(e)
        PROVE  TypeOK'
    <2>1. e \in Entry
      BY WritesAre, Zenon
    <2>2. wal' \in Seq(Entry \cup {Torn})
      <3>1. wal \in Seq(Entry \cup {Torn}) /\ wal' \in FailedAppend(wal, e)
        BY <1>4, Zenon DEF TypeOK, WriteLogFails
      <3>2. PICK l \in FailedAppend(wal, e) : wal' = l
        BY <3>1, Zenon
      <3>3. l \in Seq(Entry \cup {Torn})
        BY <2>1, <3>1, FailedIs, Zenon
      <3> QED
        BY <3>2, <3>3, Zenon
    <2>3. calls' \in 0..MaxCalls /\ faults' \in Nat
      BY <1>4, LsmAssumption DEF WriteLogFails, Fault, TypeOK
    <2> QED
      BY <1>4, <2>1, <2>2, <2>3, Zenon DEF WriteLogFails, TypeOK, fields
  <1>5. CASE WriteApply
    <2>1. arg \in Entry
      BY <1>5, Zenon DEF WriteApply, TypeOK
    <2>2. mem' \in Tables(setting.capacity)
      <3>1. mem \in Tables(setting.capacity)
        BY Zenon DEF TypeOK
      <3> QED
        BY <1>1, <1>5, <2>1, <3>1, PutIsTable, Zenon DEF WriteApply
    <2>3. mem'.full = FALSE
      BY <1>5, <2>2, Zenon DEF WriteApply, Tables, Table
    <2>4. seq' \in Nat
      BY <1>5 DEF WriteApply, TypeOK
    <2> QED
      BY <1>5, <2>2, <2>3, <2>4, Zenon DEF WriteApply, TypeOK, files
  <1>6. CASE WriteFull
    BY <1>6, Zenon DEF WriteFull, TypeOK, files, fields, history
  <1> QED
    BY <1>2, <1>3, <1>4, <1>5, <1>6, Zenon

\* Types: the flush.
LEMMA TypeFlush ==
    ASSUME CountFact, InductionFact, TypeOK, UNCHANGED setting,
           FlushCreate \/ FlushWrite \/ FlushCommit \/ FlushClear \/ FlushFails
    PROVE  TypeOK'
  <1>1. setting.capacity \in Nat /\ mem.map \in SUBSET Entry
    BY Given, Zenon
  <1>2. PICK edit : edit = FlushEdit(ver.next, seq)
    BY Zenon
  <1>3. edit \in Version
    BY <1>2, EditsAre, Zenon
  <1>4. man[cur] \in Seq(Version \cup {Torn}) /\ cur \in 0..MaxManifest
    BY Zenon DEF TypeOK
  <1>5. sst \in [0..(MaxSst - 1) -> File] /\ man \in [0..MaxManifest -> Seq(Version \cup {Torn})]
    BY Zenon DEF TypeOK, Disks
  <1>6. CASE FlushCreate
    <2>1. [state |-> "partial", kvs |-> {}] \in File
      BY Zenon DEF File
    <2>2. sst' \in [0..(MaxSst - 1) -> File]
      BY <1>5, <1>6, <2>1, Zenon DEF FlushCreate
    <2> QED
      BY <1>6, <2>2, Zenon DEF FlushCreate, TypeOK, Disks, fields, history
  <1>7. CASE FlushWrite
    <2>1. [state |-> "ok", kvs |-> mem.map] \in File
      BY <1>1, Zenon DEF File
    <2>2. sst' \in [0..(MaxSst - 1) -> File]
      BY <1>5, <1>7, <2>1, Zenon DEF FlushWrite
    <2> QED
      BY <1>7, <2>2, Zenon DEF FlushWrite, TypeOK, Disks, fields, history
  <1>8. CASE FlushCommit
    <2>1. man' = [man EXCEPT ![cur] = Append(man[cur], edit)] /\ ver' = Apply(ver, edit)
      BY <1>2, <1>8, Zenon DEF FlushCommit
    <2>2. Append(man[cur], edit) \in Seq(Version \cup {Torn})
      <3>1. edit \in Version \cup {Torn}
        BY <1>3, Zenon
      <3> QED
        BY <1>4, <3>1, AppendIs, Zenon
    <2>3. man' \in [0..MaxManifest -> Seq(Version \cup {Torn})]
      BY <1>5, <2>1, <2>2, Zenon
    <2>4. ver' \in Version
      <3>1. ver \in Version
        BY Zenon DEF TypeOK
      <3> QED
        BY <1>3, <2>1, <3>1, ApplyIsVersion, Zenon
    <2>5. pc' = "clear" /\ UNCHANGED <<wal, current, sst, mem, cur, seq, intact, calls, faults>>
      BY <1>8, Zenon DEF FlushCommit, history
    <2> QED
      BY <2>3, <2>4, <2>5, Zenon DEF TypeOK
  <1>9. CASE FlushClear
    <2>1. EmptyTable(setting.capacity) \in Tables(setting.capacity)
      BY <1>1, EmptyIsTable, Zenon
    <2>2. EmptyTable(setting.capacity).full = FALSE
      BY Zenon DEF EmptyTable
    <2>3. wal' \in Seq(Entry \cup {Torn})
      BY <1>9 DEF FlushClear
    <2> QED
      BY <1>9, <2>1, <2>2, <2>3, Zenon DEF FlushClear, TypeOK, history
  <1>10. CASE FlushFails
    <2>1. faults' \in Nat
      BY <1>10 DEF FlushFails, Fault, TypeOK
    <2>2. wal' \in Seq(Entry \cup {Torn})
      <3>1. wal' = wal \/ wal' = <<>>
        BY <1>10, Zenon DEF FlushFails
      <3>2. <<>> \in Seq(Entry \cup {Torn})
        OBVIOUS
      <3>3. wal \in Seq(Entry \cup {Torn})
        BY Zenon DEF TypeOK
      <3> QED
        BY <3>1, <3>2, <3>3, Zenon
    <2>3. man' \in [0..MaxManifest -> Seq(Version \cup {Torn})]
      <3>1. CASE man' = man
        BY <1>5, <3>1, Zenon
      <3>2. CASE \E log \in FailedAppend(man[cur], edit) : man' = [man EXCEPT ![cur] = log]
        <4>1. PICK log \in FailedAppend(man[cur], edit) : man' = [man EXCEPT ![cur] = log]
          BY <3>2, Zenon
        <4>2. log \in Seq(Version \cup {Torn})
          BY <1>3, <1>4, <4>1, FailedIs, Zenon
        <4> QED
          BY <1>5, <4>1, <4>2, Zenon
      <3>3. \/ man' = man
            \/ \E log \in FailedAppend(man[cur], edit) : man' = [man EXCEPT ![cur] = log]
        <4>1. \/ UNCHANGED man
              \/ \E log \in FailedAppend(man[cur], FlushEdit(ver.next, seq)) :
                    man' = [man EXCEPT ![cur] = log]
          BY <1>10, Zenon DEF FlushFails
        <4> QED
          BY <1>2, <4>1, Zenon
      <3> QED
        BY <3>1, <3>2, <3>3, Zenon
    <2>4. pc' = "idle" /\ UNCHANGED <<current, sst, fields, intact, calls>>
      BY <1>10, Zenon DEF FlushFails, history
    <2> QED
      BY <2>1, <2>2, <2>3, <2>4, Zenon DEF TypeOK, fields
  <1> QED
    BY <1>6, <1>7, <1>8, <1>9, <1>10, Zenon

\* What a crash may find on the disk.
LEMMA CrashIs ==
    ASSUME NEW o \in CrashOutcomes
    PROVE  \/ o = <<wal, man>>
           \/ pc = "clear" /\ o = <<(<<>>), man>>
           \/ "torn" \in setting.faults /\ o = <<Tear(wal), man>>
           \/ /\ "torn" \in setting.faults /\ cur + 1 \in 0..MaxManifest
              /\ o = <<wal, [man EXCEPT ![cur + 1] = Tear(man[cur + 1])]>>
           \/ /\ "torn" \in setting.faults
              /\ o = <<wal, [man EXCEPT ![cur] = Tear(man[cur])]>>
  <1> DEFINE A == IF pc = "clear" THEN {<<(<<>>), man>>} ELSE {}
             B == {<<wal, [man EXCEPT ![n] = Tear(@)]>> : n \in {cur + 1} \cap 0..MaxManifest}
             C == IF pc = "idle" /\ "torn" \in setting.faults THEN {<<Tear(wal), man>>} \cup B ELSE {}
             D == IF pc = "commit" /\ "torn" \in setting.faults
                  THEN {<<wal, [man EXCEPT ![cur] = Tear(@)]>>} ELSE {}
  <1>1. CrashOutcomes = (({<<wal, man>>} \cup A) \cup C) \cup D
    BY Zenon DEF CrashOutcomes
  <1>2. o \in A => pc = "clear" /\ o = <<(<<>>), man>>
    BY Zenon
  <1>3. o \in B => /\ cur + 1 \in 0..MaxManifest
                   /\ o = <<wal, [man EXCEPT ![cur + 1] = Tear(man[cur + 1])]>>
    BY Zenon
  <1>4. o \in D => /\ "torn" \in setting.faults
                   /\ o = <<wal, [man EXCEPT ![cur] = Tear(man[cur])]>>
    BY Zenon
  <1>5. o \in C => "torn" \in setting.faults /\ (o = <<Tear(wal), man>> \/ o \in B)
    <2> HIDE DEF B
    <2> QED
      BY Zenon
  <1> HIDE DEF A, B, C, D
  <1> QED
    BY <1>1, <1>2, <1>3, <1>4, <1>5, Zenon

\* Types: the checkpoint and the crash.
LEMMA TypeRest ==
    ASSUME CountFact, InductionFact, TypeOK, UNCHANGED setting,
           CheckpointAppend \/ CheckpointSwitch \/ CheckpointFails \/ Crash
    PROVE  TypeOK'
  <1>1. setting.capacity \in Nat /\ ver \in Version /\ Snapshot(ver) = ver
    BY Given, EditsAre, Zenon DEF TypeOK
  <1>2. /\ man \in [0..MaxManifest -> Seq(Version \cup {Torn})]
        /\ cur \in 0..MaxManifest
        /\ wal \in Seq(Entry \cup {Torn})
    BY Zenon DEF TypeOK
  <1>3. cur < MaxManifest => man[cur + 1] \in Seq(Version \cup {Torn})
    <2>1. cur < MaxManifest => cur + 1 \in 0..MaxManifest
      BY <1>2, LsmAssumption
    <2> QED
      BY <1>2, <2>1, Zenon
  <1>4. CASE CheckpointAppend
    <2>1. cur < MaxManifest /\ man' = [man EXCEPT ![cur + 1] = Append(man[cur + 1], ver)]
      BY <1>1, <1>4, Zenon DEF CheckpointAppend
    <2>2. Append(man[cur + 1], ver) \in Seq(Version \cup {Torn})
      <3>1. ver \in Version \cup {Torn}
        BY <1>1, Zenon
      <3> QED
        BY <1>3, <2>1, <3>1, AppendIs, Zenon
    <2>3. man' \in [0..MaxManifest -> Seq(Version \cup {Torn})]
      BY <1>2, <2>1, <2>2, Zenon
    <2>4. pc' = "ckpt" /\ UNCHANGED <<wal, current, sst, mem, ver, cur, seq, intact, calls, faults>>
      BY <1>4, Zenon DEF CheckpointAppend, fields, history
    <2> QED
      BY <2>1, <2>3, <2>4, Zenon DEF TypeOK
  <1>5. CASE CheckpointSwitch
    <2>1. cur < MaxManifest
      BY <1>5, Zenon DEF CheckpointSwitch, TypeOK
    <2>2. cur + 1 \in 0..MaxManifest
      BY <1>2, <2>1, LsmAssumption
    <2>3. man' \in [0..MaxManifest -> Seq(Version \cup {Torn})]
      <3>1. man' = [man EXCEPT ![cur] = <<>>]
        BY <1>5, Zenon DEF CheckpointSwitch
      <3>2. <<>> \in Seq(Version \cup {Torn})
        OBVIOUS
      <3> QED
        BY <1>2, <3>1, <3>2, Zenon
    <2>4. /\ pc' = "idle" /\ current' = cur + 1 /\ cur' = cur + 1
          /\ UNCHANGED <<wal, sst, mem, ver, seq, intact, calls, faults>>
      BY <1>5, Zenon DEF CheckpointSwitch, history
    <2> QED
      BY <2>2, <2>3, <2>4, Zenon DEF TypeOK
  <1>6. CASE CheckpointFails
    <2>1. man' \in [0..MaxManifest -> Seq(Version \cup {Torn})]
      <3>1. CASE man' = man
        BY <1>2, <3>1, Zenon
      <3>2. ASSUME cur < MaxManifest, NEW log \in FailedAppend(man[cur + 1], Snapshot(ver)),
                   man' = [man EXCEPT ![cur + 1] = log]
            PROVE  man' \in [0..MaxManifest -> Seq(Version \cup {Torn})]
        <4>1. log \in FailedAppend(man[cur + 1], ver)
          BY <1>1, <3>2, Zenon
        <4>2. log \in Seq(Version \cup {Torn})
          BY <1>1, <1>3, <3>2, <4>1, FailedIs, Zenon
        <4> QED
          BY <1>2, <3>2, <4>2, Zenon
      <3>3. \/ UNCHANGED man
            \/ /\ cur < MaxManifest
               /\ \E log \in FailedAppend(man[cur + 1], Snapshot(ver)) :
                     man' = [man EXCEPT ![cur + 1] = log]
        BY <1>6, Zenon DEF CheckpointFails
      <3> QED
        BY <3>1, <3>2, <3>3, Zenon
    <2>2. pc' = "idle" /\ UNCHANGED <<wal, current, sst, mem, ver, cur, seq, intact, calls>>
      BY <1>6, Zenon DEF CheckpointFails, fields, history
    <2>3. faults' \in Nat
      BY <1>6 DEF CheckpointFails, Fault, TypeOK
    <2> QED
      BY <2>1, <2>2, <2>3, Zenon DEF TypeOK
  <1>7. CASE Crash
    <2>1. ASSUME NEW o \in CrashOutcomes, wal' = o[1], man' = o[2]
          PROVE  /\ wal' \in Seq(Entry \cup {Torn})
                 /\ man' \in [0..MaxManifest -> Seq(Version \cup {Torn})]
      <3>1. Tear(wal) \in Seq(Entry \cup {Torn}) /\ <<>> \in Seq(Entry \cup {Torn})
        <4>1. Tear(wal) \in Seq(Entry \cup {Torn})
          BY <1>2, TearIs, Zenon
        <4>2. <<>> \in Seq(Entry \cup {Torn})
          OBVIOUS
        <4> QED
          BY <4>1, <4>2, Zenon
      <3>2. \A n \in 0..MaxManifest :
               [man EXCEPT ![n] = Tear(man[n])] \in [0..MaxManifest -> Seq(Version \cup {Torn})]
        <4>1. \A n \in 0..MaxManifest : Tear(man[n]) \in Seq(Version \cup {Torn})
          BY <1>2, TearIs, Zenon
        <4> QED
          BY <1>2, <4>1, Zenon
      <3>3. \/ o = <<wal, man>>
            \/ o = <<(<<>>), man>>
            \/ o = <<Tear(wal), man>>
            \/ \E n \in 0..MaxManifest : o = <<wal, [man EXCEPT ![n] = Tear(man[n])]>>
        BY <1>2, CrashIs, Zenon
      <3>4. CASE o = <<wal, man>>
        BY <1>2, <2>1, <3>4, Zenon
      <3>5. CASE o = <<(<<>>), man>>
        BY <1>2, <2>1, <3>1, <3>5, Zenon
      <3>6. CASE o = <<Tear(wal), man>>
        BY <1>2, <2>1, <3>1, <3>6, Zenon
      <3>7. ASSUME NEW n \in 0..MaxManifest, o = <<wal, [man EXCEPT ![n] = Tear(man[n])]>>
            PROVE  /\ wal' \in Seq(Entry \cup {Torn})
                   /\ man' \in [0..MaxManifest -> Seq(Version \cup {Torn})]
        BY <1>2, <2>1, <3>2, <3>7, Zenon
      <3> QED
        BY <3>3, <3>4, <3>5, <3>6, <3>7, Zenon
    <2>2. /\ wal' \in Seq(Entry \cup {Torn})
          /\ man' \in [0..MaxManifest -> Seq(Version \cup {Torn})]
      BY <1>7, <2>1, Zenon DEF Crash
    <2>3. EmptyTable(setting.capacity) \in Tables(setting.capacity)
      BY <1>1, EmptyIsTable, Zenon
    <2>4. EmptyTable(setting.capacity).full = FALSE /\ EmptyVersion \in Version
      BY EmptyIsVersion, Zenon DEF EmptyTable
    <2>5. /\ mem' = EmptyTable(setting.capacity) /\ ver' = EmptyVersion /\ cur' = 0 /\ seq' = 0
          /\ pc' = "down" /\ UNCHANGED <<current, sst, intact, calls>>
      BY <1>7, Zenon DEF Crash
    <2>6. faults' \in Nat
      BY <1>7 DEF Crash, Fault, TypeOK
    <2>7. 0 \in 0..MaxManifest /\ 0 \in Nat
      BY LsmAssumption
    <2> QED
      BY <2>2, <2>3, <2>4, <2>5, <2>6, <2>7, Zenon DEF TypeOK
  <1> QED
    BY <1>4, <1>5, <1>6, <1>7, Zenon

-----------------------------------------------------------------------------
\* What the open tree has.
LEMMA Serving ==
    ASSUME CountFact, InductionFact, TypeOK, Running, Up
    PROVE  /\ Layers(sst, mem.map, ver)
           /\ \A id \in LiveFiles(ver) : id < ver.next
           /\ ver.next \in Nat /\ ver.next <= MaxSst /\ ver.next \notin LiveFiles(ver)
           /\ mem.map \in SUBSET Entry
           /\ Files(sst, ver) \in SUBSET Entry
           /\ Content(sst, mem.map, ver) = mem.map \cup Files(sst, ver)
           /\ OneVersion(Content(sst, mem.map, ver))
           /\ \A e \in Content(sst, mem.map, ver) : e.seq <= seq /\ e.seq \in Nat
           /\ ver.last <= seq
           /\ acked = [k \in Keys |-> Value(Content(sst, mem.map, ver), k)]
           /\ cur = current
  <1>1. Serves(sst, mem.map, ver, seq, acked) /\ cur = current
    BY Zenon DEF Running
  <1>2. /\ Layers(sst, mem.map, ver)
        /\ \A e \in Content(sst, mem.map, ver) : e.seq <= seq
        /\ ver.last <= seq
        /\ acked = [k \in Keys |-> Value(Content(sst, mem.map, ver), k)]
    BY <1>1, Zenon DEF Serves
  <1>3. /\ \A id \in LiveFiles(ver) : id < ver.next
        /\ ver.next <= MaxSst
        /\ OneVersion(Content(sst, mem.map, ver))
    BY <1>2, Zenon DEF Layers
  <1>4. mem.map \in SUBSET Entry
    BY Given, Zenon
  <1>5. sst \in Disks /\ ver \in Version
    BY Zenon DEF TypeOK
  <1>6. Content(sst, mem.map, ver) \in SUBSET Entry
    BY <1>3, <1>4, <1>5, ContentType, Zenon
  <1>7. Content(sst, mem.map, ver) = mem.map \cup Files(sst, ver)
    BY Zenon DEF Content
  <1>8. Files(sst, ver) \in SUBSET Entry
    BY <1>6, <1>7, Zenon
  <1>9. \A e \in Content(sst, mem.map, ver) : e.seq \in Nat
    BY <1>6, Zenon DEF Entry
  <1>10. ver.next \in Nat
    BY <1>5, Zenon DEF Version
  <1>11. ver.next \notin LiveFiles(ver)
    BY <1>3, <1>10
  <1> QED
    BY <1>1, <1>2, <1>3, <1>4, <1>7, <1>8, <1>9, <1>10, <1>11, Zenon

\* The memtable journal gains a record: it covers what it did, and the write
\* in doubt.
LEMMA WalAppend ==
    ASSUME CountFact, InductionFact, TypeOK, Tree, Up, UNCHANGED <<setting, sst, mem, ver, seq>>,
           NEW e \in Entry, WellFormed(e), e.seq = seq + 1, wal' = Append(wal, e),
           doubt' = doubt \cup {Written(e)}
    PROVE  /\ Sound(setting.capacity, wal')
           /\ Replays(setting.capacity, wal') =>
                 /\ LogCovers(Kept'.map, mem.map, Files(sst, ver), ver.last, seq, doubt')
                 /\ e \in Kept'.map
  <1>1. setting.capacity \in Nat /\ wal \in Seq(Entry \cup {Torn}) /\ Kept.map \in SUBSET Entry
    BY Given, Zenon DEF TypeOK
  <1>2. PICK log : log = Append(wal, e)
    BY Zenon
  <1>3. /\ Sound(setting.capacity, log)
        /\ Replays(setting.capacity, log) =>
              /\ Replays(setting.capacity, wal)
              /\ Recover(setting.capacity, log).map
                   = {g \in Kept.map : ~SameSlot(e, g)} \cup {e}
    BY <1>1, <1>2, SoundAppend DEF Tree, Kept
  <1>4. Kept' = Recover(setting.capacity, log)
    BY <1>2, Zenon DEF Kept
  <1>5. ASSUME Replays(setting.capacity, log)
        PROVE  /\ LogCovers(Kept'.map, mem.map, Files(sst, ver), ver.last, seq, doubt')
               /\ e \in Kept'.map
    <2>1. Kept'.map = {g \in Kept.map : ~SameSlot(e, g)} \cup {e}
      BY <1>3, <1>4, <1>5, Zenon
    <2>2. LogCovers(Kept.map, mem.map, Files(sst, ver), ver.last, seq, doubt)
      BY <1>3, <1>5, Zenon DEF Tree, WalSide
    <2>3. /\ mem.map \in SUBSET Entry /\ Files(sst, ver) \in SUBSET Entry
          /\ \A c \in mem.map \cup Files(sst, ver) : c.seq <= seq
          /\ seq \in Nat
      BY Serving, Zenon DEF Tree, TypeOK
    <2>4. LogCovers({g \in Kept.map : ~SameSlot(e, g)} \cup {e}, mem.map, Files(sst, ver),
                    ver.last, seq, doubt \cup {Written(e)})
      BY <1>1, <2>2, <2>3, LogCoversWrite, Zenon
    <2>5. e \in {g \in Kept.map : ~SameSlot(e, g)} \cup {e}
      BY Zenon
    <2> QED
      BY <2>1, <2>4, <2>5, Zenon
  <1> QED
    BY <1>2, <1>3, <1>5, Zenon

\* A put or delete logs its record: replay is ahead by a write in doubt.
LEMMA TreeWriteLog ==
    ASSUME CountFact, InductionFact, TypeOK, Tree, UNCHANGED setting,
           NEW e \in Writes, WriteLog(e)
    PROVE  Tree'
  <1>1. e \in Entry /\ e.seq = seq + 1 /\ WellFormed(e)
    BY WritesAre, Zenon
  <1>2. /\ UNCHANGED <<man, current, sst, mem, ver, cur, seq, acked>>
        /\ wal' = Append(wal, e) /\ arg' = e /\ doubt' = doubt \cup {Written(e)}
        /\ pc = "idle" /\ pc' = "logged"
    BY Zenon DEF WriteLog, fields
  <1>3. Up /\ Up'
    BY <1>2, Zenon DEF Up
  <1>4. /\ Sound(setting.capacity, wal')
        /\ Replays(setting.capacity, wal') =>
              /\ LogCovers(Kept'.map, mem.map, Files(sst, ver), ver.last, seq, doubt')
              /\ e \in Kept'.map
    BY <1>1, <1>2, <1>3, WalAppend, Zenon
  <1>5. Running'
    <2>1. Serves(sst, mem.map, ver, seq, acked) /\ cur = current
      BY <1>3, Zenon DEF Tree, Running
    <2> QED
      BY <1>1, <1>2, <2>1, Zenon DEF Running
  <1>6. WalSide'
    BY <1>2, <1>4, Zenon DEF WalSide
  <1>7. ManSide'
    BY <1>2, <1>3, Zenon DEF Tree, ManSide, OnDisk
  <1>8. NextSide'
    BY <1>2, <1>3, Zenon DEF Tree, NextSide, Upcoming
  <1>9. Resting'
    BY <1>3, Zenon DEF Resting
  <1> QED
    BY <1>4, <1>5, <1>6, <1>7, <1>8, <1>9, Zenon DEF Tree

\* The append fails: its frame is complete, torn or missing, and the write in doubt.
LEMMA TreeWriteLogFails ==
    ASSUME CountFact, InductionFact, TypeOK, Tree, UNCHANGED setting,
           NEW e \in Writes, WriteLogFails(e)
    PROVE  Tree'
  <1>1. e \in Entry /\ e.seq = seq + 1 /\ WellFormed(e)
    BY WritesAre, Zenon
  <1>2. /\ UNCHANGED <<man, current, sst, mem, ver, cur, seq, acked, pc, arg>>
        /\ wal' \in FailedAppend(wal, e) /\ doubt' = doubt \cup {Written(e)}
        /\ pc = "idle"
    BY Zenon DEF WriteLogFails, fields
  <1>3. Up /\ Up'
    BY <1>2, Zenon DEF Up
  <1>4. wal' = wal \/ ~Whole(wal') \/ wal' = Append(wal, e)
    <2>1. wal \in Seq(Entry \cup {Torn})
      BY Zenon DEF TypeOK
    <2>2. PICK l \in FailedAppend(wal, e) : wal' = l
      BY <1>2, Zenon
    <2>3. l = wal \/ ~Whole(l) \/ l = Append(wal, e)
      BY <1>1, <2>1, FailedIs, Zenon
    <2> QED
      BY <2>2, <2>3, Zenon
  <1>5. /\ Sound(setting.capacity, wal')
        /\ Replays(setting.capacity, wal') =>
              LogCovers(Kept'.map, mem.map, Files(sst, ver), ver.last, seq, doubt')
    <2>1. CASE wal' = wal
      <3>1. Kept' = Kept
        BY <2>1, Zenon DEF Kept
      <3>2. Replays(setting.capacity, wal) =>
               LogCovers(Kept.map, mem.map, Files(sst, ver), ver.last, seq, doubt)
        BY <1>3, Zenon DEF Tree, WalSide
      <3>3. Replays(setting.capacity, wal) =>
               LogCovers(Kept.map, mem.map, Files(sst, ver), ver.last, seq, doubt')
        BY <1>2, <3>2, LogCoversMore, Zenon
      <3> QED
        BY <2>1, <3>1, <3>3, Zenon DEF Tree
    <2>2. CASE ~Whole(wal')
      BY <2>2, Zenon DEF Sound, Replays
    <2>3. CASE wal' = Append(wal, e)
      BY <1>1, <1>2, <1>3, <2>3, WalAppend, Zenon
    <2> QED
      BY <1>4, <2>1, <2>2, <2>3, Zenon
  <1>6. Running'
    <2>1. Serves(sst, mem.map, ver, seq, acked) /\ cur = current
      BY <1>3, Zenon DEF Tree, Running
    <2> QED
      BY <1>1, <1>2, <2>1, Zenon DEF Running
  <1>7. WalSide'
    BY <1>2, <1>5, Zenon DEF WalSide
  <1>8. ManSide'
    BY <1>2, <1>3, Zenon DEF Tree, ManSide, OnDisk
  <1>9. NextSide'
    BY <1>2, <1>3, Zenon DEF Tree, NextSide, Upcoming
  <1>10. Resting'
    BY <1>3, Zenon DEF Resting
  <1> QED
    BY <1>5, <1>6, <1>7, <1>8, <1>9, <1>10, Zenon DEF Tree

\* The memtable takes the logged write, which is acknowledged.
LEMMA TreeWriteApply ==
    ASSUME CountFact, InductionFact, TypeOK, Tree, UNCHANGED setting, WriteApply
    PROVE  Tree'
  <1>1. /\ UNCHANGED <<wal, man, current, sst, ver, cur>>
        /\ ~TablePut(mem, arg).full /\ mem' = TablePut(mem, arg) /\ seq' = seq + 1
        /\ acked' = [acked EXCEPT ![arg.key] = Resolve(arg)]
        /\ doubt' = {d \in doubt : d[1] # arg.key}
        /\ pc = "logged" /\ pc' = "idle"
    BY Zenon DEF WriteApply, files
  <1>2. Up /\ Up'
    BY <1>1, Zenon DEF Up
  <1>3. arg \in Entry /\ arg.seq = seq + 1 /\ WellFormed(arg)
    BY <1>1, <1>2, Zenon DEF Tree, Running, TypeOK
  <1>4. /\ Layers(sst, mem.map, ver)
        /\ mem.map \in SUBSET Entry
        /\ Files(sst, ver) \in SUBSET Entry
        /\ Content(sst, mem.map, ver) = mem.map \cup Files(sst, ver)
        /\ OneVersion(Content(sst, mem.map, ver))
        /\ \A e \in Content(sst, mem.map, ver) : e.seq <= seq /\ e.seq \in Nat
        /\ ver.last <= seq
        /\ acked = [k \in Keys |-> Value(Content(sst, mem.map, ver), k)]
        /\ cur = current
    BY <1>2, Serving, Zenon DEF Tree
  <1>5. seq \in Nat /\ sst \in Disks /\ ver \in Version /\ mem \in Tables(setting.capacity)
    BY Zenon DEF TypeOK
  <1>6. PICK C : C = Content(sst, mem.map, ver)
    BY Zenon
  <1>7. \A f \in C : f.seq < arg.seq
    BY <1>3, <1>4, <1>5, <1>6
  <1>8. /\ Layers(sst, mem.map \cup {arg}, ver)
        /\ Content(sst, mem.map \cup {arg}, ver) = C \cup {arg}
        /\ Insert(mem.map, arg) = mem.map \cup {arg}
    <2>1. mem.map \in SUBSET Entry /\ \A f \in Content(sst, mem.map, ver) : f.seq < arg.seq
      BY <1>4, <1>6, <1>7, Zenon
    <2>2. /\ Layers(sst, mem.map \cup {arg}, ver)
          /\ Content(sst, mem.map \cup {arg}, ver) = Content(sst, mem.map, ver) \cup {arg}
          /\ Insert(mem.map, arg) = mem.map \cup {arg}
      <3>1. PICK disk, M, v, a : disk = sst /\ M = mem.map /\ v = ver /\ a = arg
        BY Zenon
      <3>2. /\ disk \in Disks /\ M \in SUBSET Entry /\ v \in Version /\ Layers(disk, M, v)
            /\ a \in Entry /\ WellFormed(a) /\ \A f \in Content(disk, M, v) : f.seq < a.seq
        BY <1>3, <1>4, <1>5, <2>1, <3>1, Zenon
      <3>3. Added(disk, M, a, v)
        BY <3>2, LayersAdd, Zenon
      <3> QED
        BY <3>1, <3>3, Zenon DEF Added
    <2> QED
      BY <1>6, <2>2, Zenon
  <1>9. mem'.map = mem.map \cup {arg}
    <2>1. setting.capacity \in Nat
      BY Given, Zenon
    <2> QED
      BY <1>1, <1>3, <1>5, <1>8, <2>1, PutIsTable, Zenon
  <1>10. Running'
    <2>1. \A e \in C \cup {arg} : e.seq <= seq + 1
      BY <1>3, <1>4, <1>5, <1>6
    <2>2. ver.last <= seq + 1
      BY <1>4, <1>5 DEF Version
    <2>3. \A k \in Keys : acked'[k] = Value(C \cup {arg}, k)
      <3>1. C \in SUBSET Entry
        BY <1>4, <1>6, Zenon
      <3>2. \A k \in Keys :
               Value(C \cup {arg}, k) = IF k = arg.key THEN Resolve(arg) ELSE Value(C, k)
        BY <1>3, <1>4, <1>6, <1>7, <3>1, ValueAdd
      <3>3. \A k \in Keys : acked'[k] = IF k = arg.key THEN Resolve(arg) ELSE Value(C, k)
        BY <1>1, <1>4, <1>6, Zenon
      <3> QED
        BY <3>2, <3>3, Zenon
    <2>4. acked' = [k \in Keys |-> acked'[k]]
      BY <1>1, <1>4, Zenon
    <2>5. acked' = [k \in Keys |-> Value(C \cup {arg}, k)]
      BY <2>3, <2>4, Zenon
    <2>6. Serves(sst, mem.map \cup {arg}, ver, seq + 1, acked')
      BY <1>8, <2>1, <2>2, <2>5, Zenon DEF Serves
    <2> QED
      BY <1>1, <1>4, <1>9, <2>6, Zenon DEF Running
  <1>11. WalSide'
    <2>1. ASSUME Replays(setting.capacity, wal)
          PROVE  LogCovers(Kept.map, mem.map \cup {arg}, Files(sst, ver), ver.last, seq + 1, doubt')
      <3>1. /\ LogCovers(Kept.map, mem.map, Files(sst, ver), ver.last, seq, doubt)
            /\ arg \in Kept.map
        BY <1>1, <1>2, <2>1, Zenon DEF Tree, WalSide
      <3>2. OneVersion(Kept.map)
        BY <2>1, Zenon DEF Tree, Sound, Kept
      <3>3. Kept.map \in SUBSET Entry
        BY Given, Zenon
      <3>4. LogCovers(Kept.map, mem.map \cup {arg}, Files(sst, ver), ver.last, seq + 1,
                      {d \in doubt : d[1] # arg.key})
        <4>1. PICK T, M, F, l, n, dbt, e :
                  /\ T = Kept.map /\ M = mem.map /\ F = Files(sst, ver) /\ l = ver.last
                  /\ n = seq /\ dbt = doubt /\ e = arg
          BY Zenon
        <4>2. /\ T \in SUBSET Entry /\ M \in SUBSET Entry /\ F \in SUBSET Entry /\ n \in Nat
              /\ LogCovers(T, M, F, l, n, dbt) /\ OneVersion(T) /\ e \in T /\ e.seq = n + 1
          BY <1>3, <1>4, <1>5, <3>1, <3>2, <3>3, <4>1, Zenon
        <4>3. LogCovers(T, M \cup {e}, F, l, n + 1, {d \in dbt : d[1] # e.key})
          BY <4>2, LogCoversApply
        <4> QED
          BY <4>1, <4>3, Zenon
      <3> QED
        BY <1>1, <3>4, Zenon
    <2> QED
      BY <1>1, <1>9, <2>1, Zenon DEF WalSide, Kept
  <1>12. ManSide'
    <2>1. ASSUME Whole(man[current])
          PROVE  ManifestCovers(OnDisk, ver, sst, mem.map \cup {arg})
      <3>1. ManifestCovers(OnDisk, ver, sst, mem.map)
        BY <1>2, <2>1, Zenon DEF Tree, ManSide
      <3> QED
        BY <3>1, Zenon DEF ManifestCovers
    <2> QED
      BY <1>1, <1>9, <2>1, Zenon DEF ManSide, OnDisk
  <1>13. NextSide'
    BY <1>1, <1>2, Zenon DEF Tree, NextSide, Upcoming
  <1>14. Resting'
    BY <1>2, Zenon DEF Resting
  <1>15. Sound(setting.capacity, wal)'
    BY <1>1, Zenon DEF Tree
  <1> QED
    BY <1>10, <1>11, <1>12, <1>13, <1>14, <1>15, Zenon DEF Tree

\* The memtable refuses the logged write.
LEMMA TreeWriteFull ==
    ASSUME CountFact, InductionFact, TypeOK, Tree, UNCHANGED setting, WriteFull
    PROVE  Tree'
  <1>1. /\ UNCHANGED <<wal, man, current, sst, mem, ver, cur, seq, acked, doubt>>
        /\ pc = "logged" /\ pc' = "idle"
    BY Zenon DEF WriteFull, files, fields, history
  <1>2. Up /\ Up'
    BY <1>1, Zenon DEF Up
  <1>3. Running'
    BY <1>1, <1>2, Zenon DEF Tree, Running
  <1>4. WalSide'
    BY <1>1, <1>2, Zenon DEF Tree, WalSide, Kept
  <1>5. ManSide'
    BY <1>1, <1>2, Zenon DEF Tree, ManSide, OnDisk
  <1>6. NextSide'
    BY <1>1, <1>2, Zenon DEF Tree, NextSide, Upcoming
  <1>7. Resting'
    BY <1>2, Zenon DEF Resting
  <1> QED
    BY <1>1, <1>3, <1>4, <1>5, <1>6, <1>7, Zenon DEF Tree

-----------------------------------------------------------------------------
\* A flush writes a file that the version does not name.
LEMMA NewFile ==
    ASSUME CountFact, InductionFact, TypeOK, Running, Up,
           NEW f, sst' = [sst EXCEPT ![ver.next] = f]
    PROVE  /\ \A id \in LiveFiles(ver) : sst'[id] = sst[id]
           /\ ver.next < MaxSst => sst'[ver.next] = f
           /\ Files(sst', ver) = Files(sst, ver)
           /\ Serves(sst', mem.map, ver, seq, acked)
  <1>1. /\ Layers(sst, mem.map, ver)
        /\ \A id \in LiveFiles(ver) : id < ver.next
        /\ ver.next \in Nat /\ ver.next <= MaxSst /\ ver.next \notin LiveFiles(ver)
        /\ mem.map \in SUBSET Entry
    BY Serving, Zenon
  <1>2. sst \in Disks /\ ver \in Version
    BY Zenon DEF TypeOK
  <1>3. LiveFiles(ver) \in SUBSET (0..(MaxSst - 1))
    BY <1>1, <1>2, ContentType, Zenon
  <1>4. DOMAIN sst = 0..(MaxSst - 1)
    BY <1>2, Zenon DEF Disks
  <1>5. \A id \in LiveFiles(ver) : sst'[id] = sst[id]
    BY <1>1, <1>3, <1>4, Zenon
  <1>6. ver.next < MaxSst => sst'[ver.next] = f
    <2>1. ver.next < MaxSst => ver.next \in 0..(MaxSst - 1)
      BY <1>1, LsmAssumption
    <2> QED
      BY <1>4, <2>1, Zenon
  <1>7. InOrder(ver.runs)
    BY <1>1, Zenon DEF Layers
  <1>8. PICK disk2 : disk2 = sst'
    BY Zenon
  <1>9. \A id \in LiveFiles(ver) : disk2[id] = sst[id]
    BY <1>5, <1>8, Zenon
  <1>10. /\ Layers(disk2, mem.map, ver)
         /\ Files(disk2, ver) = Files(sst, ver)
         /\ Content(disk2, mem.map, ver) = Content(sst, mem.map, ver)
    BY <1>1, <1>7, <1>9, LayersSame
  <1>11. Serves(disk2, mem.map, ver, seq, acked)
    BY <1>10, Zenon DEF Running, Serves
  <1> QED
    BY <1>5, <1>6, <1>8, <1>10, <1>11, Zenon

\* A flush creates its file, with an id no version names.
LEMMA TreeFlushCreate ==
    ASSUME CountFact, InductionFact, TypeOK, Tree, UNCHANGED setting, FlushCreate
    PROVE  Tree'
  <1>1. /\ UNCHANGED <<wal, man, current, mem, ver, cur, seq, acked, doubt>>
        /\ sst' = [sst EXCEPT ![ver.next] = [state |-> "partial", kvs |-> {}]]
        /\ ver.next < MaxSst
        /\ pc = "idle" /\ pc' = "sst"
    BY Zenon DEF FlushCreate, fields, history
  <1>2. Up /\ Up'
    BY <1>1, Zenon DEF Up
  <1>3. /\ \A id \in LiveFiles(ver) : sst'[id] = sst[id]
        /\ sst'[ver.next].state = "partial"
        /\ Files(sst', ver) = Files(sst, ver)
        /\ Serves(sst', mem.map, ver, seq, acked)
    <2>1. PICK f : f = [state |-> "partial", kvs |-> {}]
      BY Zenon
    <2>2. /\ \A id \in LiveFiles(ver) : sst'[id] = sst[id]
          /\ ver.next < MaxSst => sst'[ver.next] = f
          /\ Files(sst', ver) = Files(sst, ver)
          /\ Serves(sst', mem.map, ver, seq, acked)
      BY <1>1, <1>2, <2>1, NewFile, Zenon DEF Tree
    <2> QED
      BY <1>1, <2>1, <2>2
  <1>4. Running'
    <2>1. cur = current
      BY <1>2, Zenon DEF Tree, Running
    <2> QED
      BY <1>1, <1>3, <2>1, Zenon DEF Running
  <1>5. WalSide'
    BY <1>1, <1>2, <1>3, Zenon DEF Tree, WalSide, Kept
  <1>6. ManSide'
    <2>1. ASSUME Whole(man[current])
          PROVE  ManifestCovers(OnDisk, ver, sst', mem.map)
      <3>1. ManifestCovers(OnDisk, ver, sst, mem.map)
        BY <1>2, <2>1, Zenon DEF Tree, ManSide
      <3> QED
        BY <1>3, <3>1, Zenon DEF ManifestCovers
    <2> QED
      BY <1>1, <2>1, Zenon DEF ManSide, OnDisk
  <1>7. NextSide'
    BY <1>1, <1>2, Zenon DEF Tree, NextSide, Upcoming
  <1>8. Resting'
    BY <1>2, Zenon DEF Resting
  <1> QED
    BY <1>1, <1>4, <1>5, <1>6, <1>7, <1>8, Zenon DEF Tree

\* The file holds the memtable; no version names it yet.
LEMMA TreeFlushWrite ==
    ASSUME CountFact, InductionFact, TypeOK, Tree, UNCHANGED setting, FlushWrite
    PROVE  Tree'
  <1>1. /\ UNCHANGED <<wal, man, current, mem, ver, cur, seq, acked, doubt>>
        /\ sst' = [sst EXCEPT ![ver.next] = [state |-> "ok", kvs |-> mem.map]]
        /\ pc = "sst" /\ pc' = "commit"
    BY Zenon DEF FlushWrite, fields, history
  <1>2. Up /\ Up'
    BY <1>1, Zenon DEF Up
  <1>3. ver.next < MaxSst
    BY <1>1, <1>2, Zenon DEF Tree, Running
  <1>4. /\ \A id \in LiveFiles(ver) : sst'[id] = sst[id]
        /\ sst'[ver.next] = [state |-> "ok", kvs |-> mem.map]
        /\ Files(sst', ver) = Files(sst, ver)
        /\ Serves(sst', mem.map, ver, seq, acked)
    <2>1. PICK f : f = [state |-> "ok", kvs |-> mem.map]
      BY Zenon
    <2>2. /\ \A id \in LiveFiles(ver) : sst'[id] = sst[id]
          /\ ver.next < MaxSst => sst'[ver.next] = f
          /\ Files(sst', ver) = Files(sst, ver)
          /\ Serves(sst', mem.map, ver, seq, acked)
      BY <1>1, <1>2, <2>1, NewFile, Zenon DEF Tree
    <2> QED
      BY <1>3, <2>1, <2>2, Zenon
  <1>5. Running'
    <2>1. cur = current
      BY <1>2, Zenon DEF Tree, Running
    <2> QED
      BY <1>1, <1>3, <1>4, <2>1, Zenon DEF Running
  <1>6. WalSide'
    BY <1>1, <1>2, <1>4, Zenon DEF Tree, WalSide, Kept
  <1>7. ManSide'
    <2>1. ASSUME Whole(man[current])
          PROVE  ManifestCovers(OnDisk, ver, sst', mem.map)
      <3>1. ManifestCovers(OnDisk, ver, sst, mem.map)
        BY <1>2, <2>1, Zenon DEF Tree, ManSide
      <3>2. sst'[ver.next].kvs = mem.map
        BY <1>4
      <3>3. \A id \in LiveFiles(ver) : Dominates(mem.map, sst'[id].kvs)
        BY <1>4, Zenon DEF Serves, Layers
      <3> QED
        BY <3>1, <3>2, <3>3, Zenon DEF ManifestCovers
    <2> QED
      BY <1>1, <2>1, Zenon DEF ManSide, OnDisk
  <1>8. NextSide'
    BY <1>1, <1>2, Zenon DEF Tree, NextSide, Upcoming
  <1>9. Resting'
    BY <1>2, Zenon DEF Resting
  <1> QED
    BY <1>1, <1>5, <1>6, <1>7, <1>8, <1>9, Zenon DEF Tree

\* The manifest gains the edit of the flush.
LEMMA ManAppend ==
    ASSUME CountFact, InductionFact, TypeOK, Tree, Up, pc = "commit", UNCHANGED current,
           man' = [man EXCEPT ![current] = Append(man[current], FlushEdit(ver.next, seq))],
           Whole(man'[current])
    PROVE  /\ Whole(man[current])
           /\ Edited(OnDisk', ver, seq)
  <1>1. PICK edit, log : edit = FlushEdit(ver.next, seq) /\ log = man[current]
    BY Zenon
  <1>2. edit \in Version /\ log \in Seq(Version \cup {Torn}) /\ OnDisk \in Version
    BY <1>1, EditsAre, Given, Zenon
  <1>3. man'[current] = Append(log, edit)
    BY <1>1, Zenon DEF TypeOK
  <1>4. edit \in Version \cup {Torn}
    BY <1>2, Zenon
  <1>5. Whole(log)
    BY <1>2, <1>3, <1>4, WholeAppend, Zenon
  <1>6. Fold(Append(log, edit)) = Apply(Fold(log), edit)
    BY <1>2, <1>5, FoldAppend, Zenon
  <1>7. OnDisk' = Apply(OnDisk, FlushEdit(ver.next, seq))
    BY <1>1, <1>3, <1>6, Zenon DEF OnDisk
  <1>8. ManifestCovers(OnDisk, ver, sst, mem.map)
    BY <1>1, <1>5, Zenon DEF Tree, ManSide
  <1>9. ver.next < MaxSst /\ ver \in Version /\ seq \in Nat
    BY Zenon DEF Tree, Running, TypeOK
  <1>10. \A id \in LiveFiles(ver) : id < ver.next
    BY Serving, Zenon DEF Tree
  <1>11. PICK D2 : D2 = Apply(OnDisk, FlushEdit(ver.next, seq))
    BY Zenon
  <1>12. Edited(D2, ver, seq)
    <2>1. PICK v, D, disk, M, s : v = ver /\ D = OnDisk /\ disk = sst /\ M = mem.map /\ s = seq
      BY Zenon
    <2>2. /\ v \in Version /\ D \in Version /\ ManifestCovers(D, v, disk, M)
          /\ \A id \in LiveFiles(v) : id < v.next
          /\ v.next < MaxSst /\ s \in Nat /\ D2 = Apply(D, FlushEdit(v.next, s))
      BY <1>2, <1>8, <1>9, <1>10, <1>11, <2>1, Zenon
    <2>3. Edited(D2, v, s)
      BY <2>2, ManifestEdit, Zenon
    <2> QED
      BY <2>1, <2>3, Zenon
  <1> QED
    BY <1>1, <1>5, <1>7, <1>11, <1>12, Zenon

\* The edit is in the manifest: the file is the newest layer, the journal its duplicate.
LEMMA TreeFlushCommit ==
    ASSUME CountFact, InductionFact, TypeOK, Tree, UNCHANGED setting, FlushCommit
    PROVE  Tree'
  <1>1. PICK edit : edit = FlushEdit(ver.next, seq)
    BY Zenon
  <1>2. /\ UNCHANGED <<wal, current, sst, mem, cur, seq, acked, doubt>>
        /\ man' = [man EXCEPT ![cur] = Append(man[cur], edit)]
        /\ ver' = Apply(ver, edit)
        /\ pc = "commit" /\ pc' = "clear"
    BY <1>1, Zenon DEF FlushCommit, history
  <1>3. Up /\ Up'
    BY <1>2, Zenon DEF Up
  <1>4. /\ Layers(sst, mem.map, ver)
        /\ mem.map \in SUBSET Entry
        /\ Content(sst, mem.map, ver) = mem.map \cup Files(sst, ver)
        /\ \A e \in Content(sst, mem.map, ver) : e.seq <= seq /\ e.seq \in Nat
        /\ acked = [k \in Keys |-> Value(Content(sst, mem.map, ver), k)]
        /\ cur = current
    BY <1>3, Serving, Zenon DEF Tree
  <1>5. ver.next < MaxSst /\ sst[ver.next] = [state |-> "ok", kvs |-> mem.map]
    BY <1>2, <1>3, Zenon DEF Tree, Running
  <1>6. ver \in Version /\ seq \in Nat /\ ver.next \in Nat
    BY Zenon DEF TypeOK, Version
  <1>7. PICK w : w = Apply(ver, FlushEdit(ver.next, seq))
    BY Zenon
  <1>8. /\ Layers(sst, mem.map, w)
        /\ Content(sst, mem.map, w) = Content(sst, mem.map, ver)
        /\ LiveFiles(w) = LiveFiles(ver) \cup {ver.next}
        /\ edit \in Version
    BY <1>1, <1>4, <1>5, <1>6, <1>7, LayersFlush
  <1>9. w \in Version /\ w.next = ver.next + 1 /\ w.last = seq
    <2>1. w \in Version /\ w.next = edit.next /\ w.last = edit.last
      BY <1>1, <1>6, <1>7, <1>8, ApplyIsVersion, Zenon
    <2>2. edit.next = ver.next + 1 /\ edit.last = seq
      BY <1>1, Zenon DEF FlushEdit
    <2> QED
      BY <2>1, <2>2, Zenon
  <1>10. ver' = w
    BY <1>1, <1>2, <1>7, Zenon
  <1>11. /\ mem.map \in SUBSET Files(sst, w)
         /\ Files(sst, ver) \in SUBSET Files(sst, w)
         /\ Content(sst, mem.map, w) = mem.map \cup Files(sst, w)
    <2>1. sst[ver.next].kvs = mem.map /\ ver.next \in LiveFiles(w)
      BY <1>5, <1>8
    <2>2. \A id \in LiveFiles(ver) : id \in LiveFiles(w)
      BY <1>8, Zenon
    <2>3. mem.map \in SUBSET Files(sst, w)
      BY <2>1, Zenon DEF Files
    <2>4. Files(sst, ver) \in SUBSET Files(sst, w)
      BY <2>2, Zenon DEF Files
    <2> QED
      BY <2>3, <2>4, Zenon DEF Content
  <1>12. Running'
    <2>1. seq <= seq
      BY <1>6
    <2>2. Serves(sst, mem.map, w, seq, acked)
      BY <1>4, <1>8, <1>9, <2>1, Zenon DEF Serves
    <2> QED
      BY <1>2, <1>4, <1>9, <1>10, <1>11, <2>2, Zenon DEF Running
  <1>13. WalSide'
    <2>1. ASSUME Replays(setting.capacity, wal)
          PROVE  LogCovers(Kept.map, mem.map, Files(sst, w), seq, seq, doubt)
      <3>1. LogCovers(Kept.map, mem.map, Files(sst, ver), ver.last, seq, doubt)
        BY <1>3, <2>1, Zenon DEF Tree, WalSide
      <3>2. mem.map \cup Files(sst, w) = mem.map \cup Files(sst, ver)
        BY <1>4, <1>8, <1>11, Zenon
      <3>3. \A e \in mem.map \cup Files(sst, ver) : e.seq <= seq
        BY <1>4, Zenon
      <3> QED
        BY <1>11, <3>1, <3>2, <3>3, LogCoversFlush, Zenon
    <2> QED
      BY <1>2, <1>9, <1>10, <2>1, Zenon DEF WalSide, Kept
  <1>14. ManSide'
    <2>1. ASSUME Whole(man'[current])
          PROVE  ManifestCovers(OnDisk', w, sst, mem.map) /\ w.next \notin LiveFiles(OnDisk')
      <3>1. Edited(OnDisk', ver, seq)
        BY <1>1, <1>2, <1>3, <1>4, <2>1, ManAppend, Zenon
      <3>2. PICK D : D = OnDisk'
        BY Zenon
      <3>3. LiveFiles(D) = LiveFiles(w) /\ InOrder(D.runs) /\ D.next = w.next /\ D.last = w.last
        BY <1>8, <1>9, <3>1, <3>2, Zenon DEF Edited
      <3>4. ManifestCovers(D, w, sst, mem.map) /\ w.next \notin LiveFiles(D)
        BY <1>8, <1>9, <3>3, ManifestCoversSame, Zenon
      <3> QED
        BY <3>2, <3>4, Zenon
    <2> QED
      BY <1>2, <1>10, <2>1, Zenon DEF ManSide
  <1>15. NextSide'
    <2>1. current \in 0..MaxManifest /\ current + 1 # current
      BY DEF TypeOK
    <2>2. \A n \in 0..MaxManifest : n # current => man'[n] = man[n]
      BY <1>2, <1>4, Zenon DEF TypeOK
    <2>3. \A n \in 0..MaxManifest : n > current + 1 => man'[n] = <<>>
      BY <2>1, <2>2 DEF Tree, NextSide
    <2>4. current < MaxManifest => current + 1 \in 0..MaxManifest
      BY <2>1, LsmAssumption
    <2>5. current < MaxManifest => man'[current + 1] = man[current + 1]
      BY <2>1, <2>2, <2>4, Zenon
    <2>6. ASSUME current < MaxManifest, Whole(man'[current + 1])
          PROVE  \A id \in LiveFiles(Upcoming') : id \in LiveFiles(w)
      <3>1. Upcoming' = Upcoming
        BY <1>2, <2>5, <2>6, Zenon DEF Upcoming
      <3>2. \A id \in LiveFiles(Upcoming) : id \in LiveFiles(ver)
        BY <1>3, <2>5, <2>6, Zenon DEF Tree, NextSide
      <3> QED
        BY <1>8, <3>1, <3>2, Zenon
    <2> QED
      BY <1>2, <1>10, <2>3, <2>6, Zenon DEF NextSide
  <1>16. Resting'
    BY <1>3, Zenon DEF Resting
  <1>17. Sound(setting.capacity, wal)'
    BY <1>2, Zenon DEF Tree
  <1> QED
    BY <1>12, <1>13, <1>14, <1>15, <1>16, <1>17, Zenon DEF Tree

\* The journal and the memtable are emptied: the files have all of it.
LEMMA TreeFlushClear ==
    ASSUME CountFact, InductionFact, TypeOK, Tree, UNCHANGED setting, FlushClear
    PROVE  Tree'
  <1>1. /\ UNCHANGED <<man, current, sst, ver, cur, seq, acked, doubt>>
        /\ wal' = <<>> /\ mem' = EmptyTable(setting.capacity)
        /\ pc = "clear" /\ pc' = "idle"
    BY Zenon DEF FlushClear, history
  <1>2. Up /\ Up'
    BY <1>1, Zenon DEF Up
  <1>3. mem'.map = {}
    BY <1>1, Zenon DEF EmptyTable
  <1>4. ver.last = seq /\ mem.map \in SUBSET Files(sst, ver)
    BY <1>1, <1>2, Zenon DEF Tree, Running
  <1>5. /\ Layers(sst, mem.map, ver)
        /\ Content(sst, mem.map, ver) = mem.map \cup Files(sst, ver)
        /\ \A e \in Content(sst, mem.map, ver) : e.seq <= seq
        /\ ver.last <= seq
        /\ acked = [k \in Keys |-> Value(Content(sst, mem.map, ver), k)]
        /\ cur = current
    BY <1>2, Serving, Zenon DEF Tree
  <1>6. Layers(sst, {}, ver) /\ Content(sst, {}, ver) = Content(sst, mem.map, ver)
    BY <1>4, <1>5, LayersClear, Zenon
  <1>7. setting.capacity \in Nat
    BY Given, Zenon
  <1>8. Sound(setting.capacity, wal') /\ Kept'.map = {}
    BY <1>1, <1>7, SoundNone, Zenon DEF Kept
  <1>9. Running'
    <2>1. Serves(sst, {}, ver, seq, acked)
      BY <1>5, <1>6, Zenon DEF Serves
    <2> QED
      BY <1>1, <1>3, <1>5, <2>1, Zenon DEF Running
  <1>10. WalSide'
    <2>1. \A e \in Files(sst, ver) : e.seq <= seq
      BY <1>5, Zenon
    <2>2. LogCovers({}, {}, Files(sst, ver), seq, seq, doubt)
      BY <2>1, LogCoversNone, Zenon
    <2> QED
      BY <1>1, <1>3, <1>4, <1>8, <2>2, Zenon DEF WalSide
  <1>11. ManSide'
    <2>1. ASSUME Whole(man[current])
          PROVE  ManifestCovers(OnDisk, ver, sst, {})
      <3>1. ManifestCovers(OnDisk, ver, sst, mem.map) /\ ver.next \notin LiveFiles(OnDisk)
        BY <1>1, <1>2, <2>1, Zenon DEF Tree, ManSide
      <3> QED
        BY <3>1, Zenon DEF ManifestCovers
    <2> QED
      BY <1>1, <1>3, <2>1, Zenon DEF ManSide, OnDisk
  <1>12. NextSide'
    BY <1>1, <1>2, Zenon DEF Tree, NextSide, Upcoming
  <1>13. Resting'
    BY <1>2, Zenon DEF Resting
  <1> QED
    BY <1>8, <1>9, <1>10, <1>11, <1>12, <1>13, Zenon DEF Tree

\* A flush fails at any of its steps, its edit perhaps complete in the manifest.
LEMMA TreeFlushFails ==
    ASSUME CountFact, InductionFact, TypeOK, Tree, UNCHANGED setting, FlushFails
    PROVE  Tree'
  <1>1. /\ UNCHANGED <<current, sst, mem, ver, cur, seq, acked, doubt>>
        /\ pc \in {"sst", "commit", "clear"} /\ pc' = "idle"
    BY Zenon DEF FlushFails, fields, history
  <1>2. Up /\ Up'
    BY <1>1, Zenon DEF Up
  <1>3. Running'
    BY <1>1, <1>2, Zenon DEF Tree, Running
  <1>4. PICK edit : edit = FlushEdit(ver.next, seq)
    BY Zenon
  <1>5. /\ wal' = wal \/ (pc = "clear" /\ wal' = <<>>)
        /\ \/ man' = man
           \/ /\ pc = "commit"
              /\ \E log \in FailedAppend(man[cur], edit) : man' = [man EXCEPT ![cur] = log]
    BY <1>4, Zenon DEF FlushFails
  <1>6. Sound(setting.capacity, wal') /\ WalSide'
    <2>1. CASE wal' = wal
      BY <1>1, <1>2, <2>1, Zenon DEF Tree, WalSide, Kept
    <2>2. CASE pc = "clear" /\ wal' = <<>>
      <3>1. ver.last = seq /\ mem.map \in SUBSET Files(sst, ver)
        BY <1>2, <2>2, Zenon DEF Tree, Running
      <3>2. \A e \in Files(sst, ver) : e.seq <= seq
        BY <1>2, Serving, Zenon DEF Tree
      <3>3. LogCovers({}, mem.map, Files(sst, ver), seq, seq, doubt)
        BY <3>1, <3>2, LogCoversNone, Zenon
      <3>4. setting.capacity \in Nat
        BY Given, Zenon
      <3>5. Sound(setting.capacity, wal') /\ Kept'.map = {}
        BY <2>2, <3>4, SoundNone, Zenon DEF Kept
      <3> QED
        BY <1>1, <3>1, <3>3, <3>5, Zenon DEF WalSide
    <2> QED
      BY <1>5, <2>1, <2>2, Zenon
  <1>7. current \in 0..MaxManifest /\ current + 1 # current /\ cur = current
    <2>1. current \in 0..MaxManifest /\ current + 1 # current
      BY DEF TypeOK
    <2>2. cur = current
      BY <1>2, Zenon DEF Tree, Running
    <2> QED
      BY <2>1, <2>2, Zenon
  <1>8. (\A n \in 0..MaxManifest : n # current => man'[n] = man[n]) /\ DOMAIN man' = DOMAIN man
    <2>1. CASE man' = man
      BY <2>1, Zenon
    <2>2. ASSUME NEW log, man' = [man EXCEPT ![cur] = log]
          PROVE  (\A n \in 0..MaxManifest : n # current => man'[n] = man[n])
                     /\ DOMAIN man' = DOMAIN man
      BY <1>7, <2>2, Zenon DEF TypeOK
    <2> QED
      BY <1>5, <2>1, <2>2, Zenon
  <1>9. ManSide'
    <2>1. CASE man' = man
      BY <1>1, <1>2, <2>1, Zenon DEF Tree, ManSide, OnDisk
    <2>2. ASSUME pc = "commit", NEW log \in FailedAppend(man[cur], edit),
                 man' = [man EXCEPT ![cur] = log], Whole(man'[current])
          PROVE  ManifestCovers(OnDisk', ver, sst, mem.map)
      <3>1. man'[current] = log
        BY <1>7, <2>2, Zenon DEF TypeOK
      <3>2. edit \in Version /\ man[cur] \in Seq(Version \cup {Torn})
        BY <1>4, <1>7, EditsAre, Given, Zenon
      <3>3. log = man[cur] \/ log = Append(man[cur], edit)
        BY <2>2, <3>1, <3>2, FailedIs, Zenon
      <3>4. CASE log = man[cur]
        <4>1. Whole(man[current]) /\ OnDisk' = OnDisk
          BY <1>1, <1>7, <2>2, <3>1, <3>4, Zenon DEF OnDisk
        <4> QED
          BY <1>2, <4>1, Zenon DEF Tree, ManSide
      <3>5. CASE log = Append(man[cur], edit)
        <4>1. Edited(OnDisk', ver, seq)
          BY <1>1, <1>2, <1>4, <1>7, <2>2, <3>5, ManAppend, Zenon
        <4>2. sst[ver.next].kvs = mem.map
          BY <1>2, <2>2 DEF Tree, Running
        <4>3. ver.last <= seq /\ Layers(sst, mem.map, ver)
          BY <1>2, Serving, Zenon DEF Tree
        <4>4. \A id \in LiveFiles(ver) : Dominates(mem.map, sst[id].kvs)
          BY <4>3, Zenon DEF Layers
        <4> QED
          BY <4>1, <4>2, <4>3, <4>4, Zenon DEF ManifestCovers, Edited
      <3> QED
        BY <3>3, <3>4, <3>5, Zenon
    <2>3. ASSUME Whole(man'[current]), man' # man
          PROVE  ManifestCovers(OnDisk', ver, sst, mem.map)
      BY <1>5, <2>2, <2>3, Zenon
    <2> QED
      BY <1>1, <2>1, <2>3, Zenon DEF ManSide
  <1>10. NextSide'
    <2>1. \A n \in 0..MaxManifest : n > current + 1 => man'[n] = <<>>
      BY <1>7, <1>8 DEF Tree, NextSide
    <2>2. current < MaxManifest => current + 1 \in 0..MaxManifest
      BY <1>7, LsmAssumption
    <2>3. current < MaxManifest => man'[current + 1] = man[current + 1]
      BY <1>7, <1>8, <2>2, Zenon
    <2>4. ASSUME current < MaxManifest, Whole(man'[current + 1])
          PROVE  \A id \in LiveFiles(Upcoming') : id \in LiveFiles(ver)
      <3>1. Upcoming' = Upcoming
        BY <1>1, <2>3, <2>4, Zenon DEF Upcoming
      <3>2. \A id \in LiveFiles(Upcoming) : id \in LiveFiles(ver)
        BY <1>2, <2>3, <2>4, Zenon DEF Tree, NextSide
      <3> QED
        BY <3>1, <3>2, Zenon
    <2> QED
      BY <1>1, <2>1, <2>4, Zenon DEF NextSide
  <1>11. Resting'
    BY <1>2, Zenon DEF Resting
  <1> QED
    BY <1>3, <1>6, <1>9, <1>10, <1>11, Zenon DEF Tree

-----------------------------------------------------------------------------
\* The next manifest gains a snapshot.
LEMMA NextAppend ==
    ASSUME CountFact, InductionFact, TypeOK, Tree, Up, UNCHANGED current, current < MaxManifest,
           man' = [man EXCEPT ![current + 1] = Append(man[current + 1], Snapshot(ver))],
           Whole(man'[current + 1])
    PROVE  /\ LiveFiles(Upcoming') = LiveFiles(ver)
           /\ Upcoming'.next = ver.next
           /\ Upcoming'.last = ver.last
           /\ InOrder(Upcoming'.runs)
  <1>1. PICK log : log = man[current + 1]
    BY Zenon
  <1>2. /\ current + 1 \in 0..MaxManifest
        /\ log \in Seq(Version \cup {Torn})
        /\ Upcoming \in Version
        /\ ver \in Version
        /\ Snapshot(ver) = ver
    BY <1>1, EditsAre, Given, Zenon DEF TypeOK
  <1>3. man'[current + 1] = Append(log, ver)
    BY <1>1, <1>2, Zenon DEF TypeOK
  <1>4. ver \in Version \cup {Torn}
    BY <1>2, Zenon
  <1>5. Whole(log)
    BY <1>2, <1>3, <1>4, WholeAppend, Zenon
  <1>6. Fold(Append(log, ver)) = Apply(Fold(log), ver)
    BY <1>2, <1>5, FoldAppend, Zenon
  <1>7. Upcoming' = Apply(Upcoming, Snapshot(ver))
    BY <1>1, <1>2, <1>3, <1>6, Zenon DEF Upcoming
  <1>8. \A id \in LiveFiles(Upcoming) : id \in LiveFiles(ver)
    BY <1>1, <1>5, Zenon DEF Tree, NextSide
  <1>9. InOrder(ver.runs)
    <2>1. Layers(sst, mem.map, ver)
      BY Serving, Zenon DEF Tree
    <2> QED
      BY <2>1, Zenon DEF Layers
  <1>10. PICK U2 : U2 = Apply(Upcoming, Snapshot(ver))
    BY Zenon
  <1>11. /\ LiveFiles(U2) = LiveFiles(ver)
         /\ U2.next = ver.next /\ U2.last = ver.last
         /\ InOrder(U2.runs)
    BY <1>2, <1>8, <1>9, <1>10, ManifestSnapshot, Zenon
  <1> QED
    BY <1>7, <1>10, <1>11, Zenon

\* A step that leaves the current manifest alone, or only tears it.
LEMMA ManSame ==
    ASSUME TypeOK, Tree, Up, pc' # "clear", UNCHANGED <<current, sst, mem, ver>>,
           man'[current] = man[current]
    PROVE  ManSide'
  BY Zenon DEF Tree, ManSide, OnDisk

\* A checkpoint writes its snapshot to the next manifest.
LEMMA TreeCheckpointAppend ==
    ASSUME CountFact, InductionFact, TypeOK, Tree, UNCHANGED setting, CheckpointAppend
    PROVE  Tree'
  <1>1. /\ UNCHANGED <<wal, current, sst, mem, ver, cur, seq, acked, doubt>>
        /\ man' = [man EXCEPT ![cur + 1] = Append(man[cur + 1], Snapshot(ver))]
        /\ cur < MaxManifest
        /\ pc = "idle" /\ pc' = "ckpt"
    BY Zenon DEF CheckpointAppend, fields, history
  <1>2. Up /\ Up'
    BY <1>1, Zenon DEF Up
  <1>3. current \in 0..MaxManifest /\ current + 1 # current /\ cur = current
    <2>1. current \in 0..MaxManifest /\ current + 1 # current
      BY DEF TypeOK
    <2>2. cur = current
      BY <1>2, Zenon DEF Tree, Running
    <2> QED
      BY <2>1, <2>2, Zenon
  <1>4. \A n \in 0..MaxManifest : n # current + 1 => man'[n] = man[n]
    BY <1>1, <1>3, Zenon DEF TypeOK
  <1>5. Running'
    BY <1>1, <1>2, Zenon DEF Tree, Running
  <1>6. Sound(setting.capacity, wal') /\ WalSide'
    BY <1>1, <1>2, Zenon DEF Tree, WalSide, Kept
  <1>7. ManSide'
    BY <1>1, <1>2, <1>3, <1>4, ManSame, Zenon
  <1>8. NextSide'
    <2>1. \A n \in 0..MaxManifest : n > current + 1 => man'[n] = <<>>
      BY <1>3, <1>4 DEF Tree, NextSide
    <2>2. ASSUME Whole(man'[current + 1])
          PROVE  /\ LiveFiles(Upcoming') = LiveFiles(ver)
                 /\ Upcoming'.next = ver.next
                 /\ Upcoming'.last = ver.last
                 /\ InOrder(Upcoming'.runs)
      BY <1>1, <1>2, <1>3, <2>2, NextAppend, Zenon
    <2> QED
      BY <1>1, <2>1, <2>2, Zenon DEF NextSide
  <1>9. Resting'
    BY <1>2, Zenon DEF Resting
  <1> QED
    BY <1>5, <1>6, <1>7, <1>8, <1>9, Zenon DEF Tree

\* A checkpoint fails before the switch.
LEMMA TreeCheckpointFails ==
    ASSUME CountFact, InductionFact, TypeOK, Tree, UNCHANGED setting, CheckpointFails
    PROVE  Tree'
  <1>1. /\ UNCHANGED <<wal, current, sst, mem, ver, cur, seq, acked, doubt>>
        /\ pc \in {"idle", "ckpt"} /\ pc' = "idle"
    BY Zenon DEF CheckpointFails, fields, history
  <1>2. Up /\ Up'
    BY <1>1, Zenon DEF Up
  <1>3. current \in 0..MaxManifest /\ current + 1 # current /\ cur = current
    <2>1. current \in 0..MaxManifest /\ current + 1 # current
      BY DEF TypeOK
    <2>2. cur = current
      BY <1>2, Zenon DEF Tree, Running
    <2> QED
      BY <2>1, <2>2, Zenon
  <1>4. \/ man' = man
        \/ /\ cur < MaxManifest
           /\ \E log \in FailedAppend(man[cur + 1], Snapshot(ver)) :
                 man' = [man EXCEPT ![cur + 1] = log]
    BY Zenon DEF CheckpointFails
  <1>5. \A n \in 0..MaxManifest : n # current + 1 => man'[n] = man[n]
    BY <1>3, <1>4, Zenon DEF TypeOK
  <1>6. Running'
    BY <1>1, <1>2, Zenon DEF Tree, Running
  <1>7. Sound(setting.capacity, wal') /\ WalSide'
    BY <1>1, <1>2, Zenon DEF Tree, WalSide, Kept
  <1>8. ManSide'
    BY <1>1, <1>2, <1>3, <1>5, ManSame, Zenon
  <1>9. NextSide'
    <2>1. \A n \in 0..MaxManifest : n > current + 1 => man'[n] = <<>>
      BY <1>3, <1>5 DEF Tree, NextSide
    <2>2. ASSUME current < MaxManifest, Whole(man'[current + 1]), man'[current + 1] = man[current + 1]
          PROVE  \A id \in LiveFiles(Upcoming') : id \in LiveFiles(ver)
      <3>1. Upcoming' = Upcoming
        BY <1>1, <2>2, Zenon DEF Upcoming
      <3>2. \A id \in LiveFiles(Upcoming) : id \in LiveFiles(ver)
        BY <1>2, <2>2, Zenon DEF Tree, NextSide
      <3> QED
        BY <3>1, <3>2, Zenon
    <2>3. ASSUME current < MaxManifest, NEW log \in FailedAppend(man[cur + 1], Snapshot(ver)),
                 man' = [man EXCEPT ![cur + 1] = log], Whole(man'[current + 1])
          PROVE  \A id \in LiveFiles(Upcoming') : id \in LiveFiles(ver)
      <3>1. /\ current + 1 \in 0..MaxManifest
            /\ man[cur + 1] \in Seq(Version \cup {Torn})
            /\ Snapshot(ver) = ver /\ ver \in Version
        BY <1>3, <2>3, EditsAre, Given, Zenon DEF TypeOK
      <3>2. man'[current + 1] = log
        BY <1>3, <2>3, <3>1, Zenon DEF TypeOK
      <3>3. log \in FailedAppend(man[cur + 1], ver)
        BY <3>1, Zenon
      <3>4. log = man[cur + 1] \/ log = Append(man[cur + 1], ver)
        <4>1. Whole(log)
          BY <2>3, <3>2, Zenon
        <4>2. log = man[cur + 1] \/ ~Whole(log) \/ log = Append(man[cur + 1], ver)
          BY <3>1, <3>3, FailedIs, Zenon
        <4> QED
          BY <4>1, <4>2, Zenon
      <3>5. CASE log = man[cur + 1]
        BY <1>3, <2>2, <2>3, <3>2, <3>5, Zenon
      <3>6. CASE log = Append(man[cur + 1], ver)
        <4>1. LiveFiles(Upcoming') = LiveFiles(ver)
          BY <1>1, <1>2, <1>3, <2>3, <3>1, <3>6, NextAppend, Zenon
        <4> QED
          BY <4>1, Zenon
      <3> QED
        BY <3>4, <3>5, <3>6, Zenon
    <2>4. ASSUME current < MaxManifest, Whole(man'[current + 1])
          PROVE  \A id \in LiveFiles(Upcoming') : id \in LiveFiles(ver)
      BY <1>4, <2>2, <2>3, <2>4, Zenon
    <2> QED
      BY <1>1, <2>1, <2>4, Zenon DEF NextSide
  <1>10. Resting'
    BY <1>2, Zenon DEF Resting
  <1> QED
    BY <1>6, <1>7, <1>8, <1>9, <1>10, Zenon DEF Tree

\* CURRENT names the new manifest, which folds to the version of the old one.
LEMMA TreeCheckpointSwitch ==
    ASSUME CountFact, InductionFact, TypeOK, Tree, UNCHANGED setting, CheckpointSwitch
    PROVE  Tree'
  <1>1. /\ UNCHANGED <<wal, sst, mem, ver, seq, acked, doubt>>
        /\ man' = [man EXCEPT ![cur] = <<>>]
        /\ current' = cur + 1 /\ cur' = cur + 1
        /\ pc = "ckpt" /\ pc' = "idle"
    BY Zenon DEF CheckpointSwitch, history
  <1>2. Up /\ Up'
    BY <1>1, Zenon DEF Up
  <1>3. current \in 0..MaxManifest /\ cur = current /\ current < MaxManifest
    <2>1. current \in 0..MaxManifest /\ cur < MaxManifest
      BY <1>1, Zenon DEF TypeOK
    <2>2. cur = current
      BY <1>2, Zenon DEF Tree, Running
    <2> QED
      BY <2>1, <2>2, Zenon
  <1>4. \A n \in 0..MaxManifest : n # current => man'[n] = man[n]
    BY <1>1, <1>3, Zenon DEF TypeOK
  <1>5. /\ current' = current + 1 /\ current + 1 \in 0..MaxManifest
        /\ man'[current + 1] = man[current + 1]
    <2>1. current + 1 \in 0..MaxManifest /\ current + 1 # current
      BY <1>3, LsmAssumption
    <2> QED
      BY <1>1, <1>3, <1>4, <2>1, Zenon
  <1>6. OnDisk' = Upcoming
    BY <1>5, Zenon DEF OnDisk, Upcoming
  <1>7. Running'
    BY <1>1, <1>2, Zenon DEF Tree, Running
  <1>8. Sound(setting.capacity, wal') /\ WalSide'
    BY <1>1, <1>2, Zenon DEF Tree, WalSide, Kept
  <1>9. ManSide'
    <2>1. ASSUME Whole(man[current + 1])
          PROVE  ManifestCovers(Upcoming, ver, sst, mem.map)
      <3>1. /\ LiveFiles(Upcoming) = LiveFiles(ver)
            /\ Upcoming.next = ver.next
            /\ Upcoming.last = ver.last
            /\ InOrder(Upcoming.runs)
        BY <1>1, <1>2, <1>3, <2>1, Zenon DEF Tree, NextSide
      <3>2. Layers(sst, mem.map, ver)
        BY <1>2, Serving, Zenon DEF Tree
      <3>3. ver \in Version
        BY Zenon DEF TypeOK
      <3> QED
        BY <3>1, <3>2, <3>3, ManifestCoversSame, Zenon
    <2> QED
      BY <1>1, <1>5, <1>6, <2>1, Zenon DEF ManSide
  <1>10. NextSide'
    <2>1. \A n \in 0..MaxManifest : n > current + 1 => man'[n] = <<>>
      BY <1>3, <1>4 DEF Tree, NextSide
    <2>2. \A n \in 0..MaxManifest : n > (current + 1) + 1 => man'[n] = <<>>
      BY <1>3, <2>1
    <2>3. ASSUME current + 1 < MaxManifest
          PROVE  LiveFiles(Fold(man'[(current + 1) + 1])) = {}
      <3>1. (current + 1) + 1 \in 0..MaxManifest /\ (current + 1) + 1 > current + 1
        BY <1>3, <2>3, LsmAssumption
      <3>2. man'[(current + 1) + 1] = <<>>
        BY <2>1, <3>1, Zenon
      <3>3. Fold(<<>>) = EmptyVersion
        BY FoldNone, Zenon
      <3> QED
        BY <3>2, <3>3 DEF EmptyVersion, LiveFiles
    <2> QED
      BY <1>1, <1>5, <2>2, <2>3, Zenon DEF NextSide, Upcoming
  <1>11. Resting'
    BY <1>2, Zenon DEF Resting
  <1> QED
    BY <1>7, <1>8, <1>9, <1>10, <1>11, Zenon DEF Tree

-----------------------------------------------------------------------------
\* Files are damaged or an open replays both journals and finds its files.
LEMMA DamagedIs ==
    ~Damaged <=> /\ Replays(setting.capacity, wal)
                 /\ Whole(man[current])
                 /\ \A id \in LiveFiles(OnDisk) : sst[id].state = "ok"
  BY Zenon DEF Damaged, Replays, Whole, Clash, OnDisk

(***************************************************************************)
(* What an open after a crash would find, the memtable journal as it is or *)
(* truncated by the flush under way: layers again, and each key's          *)
(* acknowledged value or one in doubt.                                     *)
(***************************************************************************)
Finds(T, D, found) ==
    /\ Layers(sst, T, D)
    /\ \A e \in Content(sst, T, D) : e.seq <= D.last \/ \E f \in T : e.seq <= f.seq
    /\ found = [k \in Keys |-> Value(Content(sst, T, D), k)]
    /\ \A k \in Keys : found[k] = acked[k] \/ <<k, found[k]>> \in doubt

\* What an open would find, if it can: each key's acknowledged value or one in doubt.
LEMMA CrashFinds ==
    ASSUME MaxFact, CountFact, InductionFact, TypeOK, Tree, Up, NEW log,
           log = wal \/ (pc = "clear" /\ log = <<>>),
           Replays(setting.capacity, log), Whole(man[current]),
           \A id \in LiveFiles(OnDisk) : sst[id].state = "ok"
    PROVE  Finds(Recover(setting.capacity, log).map, OnDisk, RecoveredFrom(log, man[current]))
  <1>1. PICK t : t = Recover(setting.capacity, log)
    BY Zenon
  <1>2. PICK T : T = t.map
    BY Zenon
  <1>3. PICK D : D = OnDisk
    BY Zenon
  <1>4. setting.capacity \in Nat /\ wal \in Seq(Entry \cup {Torn}) /\ D \in Version
    BY <1>3, Given, Zenon DEF TypeOK
  <1>5. /\ Layers(sst, mem.map, ver)
        /\ mem.map \in SUBSET Entry
        /\ Files(sst, ver) \in SUBSET Entry
        /\ Content(sst, mem.map, ver) = mem.map \cup Files(sst, ver)
        /\ \A e \in Content(sst, mem.map, ver) : e.seq <= seq /\ e.seq \in Nat
        /\ acked = [k \in Keys |-> Value(Content(sst, mem.map, ver), k)]
    BY Serving, Zenon DEF Tree
  <1>6. /\ sst \in Disks /\ ver \in Version /\ seq \in Nat
        /\ Serves(sst, mem.map, ver, seq, acked)
    BY Zenon DEF TypeOK, Tree, Running
  <1>7. /\ t \in Tables(setting.capacity)
        /\ T \in SUBSET Entry
        /\ OneVersion(T)
        /\ \A e \in T : WellFormed(e)
        /\ LogCovers(T, mem.map, Files(sst, ver), ver.last, seq, doubt)
    <2>1. CASE log = wal
      <3>1. t \in Tables(setting.capacity)
        BY <1>1, <1>4, <2>1, RecoverType, Zenon
      <3>2. T \in SUBSET Entry
        BY <1>2, <3>1, Zenon DEF Tables, Table
      <3>3. Sound(setting.capacity, log) /\ Whole(log)
        BY <2>1, Zenon DEF Tree, Replays
      <3>4. OneVersion(T) /\ \A e \in T : \E i \in DOMAIN log : e = log[i]
        BY <1>1, <1>2, <3>3, Zenon DEF Sound
      <3>5. \A e \in T : WellFormed(e)
        BY <3>3, <3>4, Zenon DEF Sound
      <3>6. LogCovers(T, mem.map, Files(sst, ver), ver.last, seq, doubt)
        BY <1>1, <1>2, <2>1, Zenon DEF Tree, WalSide, Kept
      <3> QED
        BY <3>1, <3>2, <3>4, <3>5, <3>6, Zenon
    <2>2. CASE pc = "clear" /\ log = <<>>
      <3>1. t = EmptyTable(setting.capacity) /\ T = {}
        BY <1>1, <1>2, <1>4, <2>2, SoundNone, Zenon
      <3>2. t \in Tables(setting.capacity)
        BY <1>4, <3>1, EmptyIsTable, Zenon
      <3>3. ver.last = seq /\ mem.map \in SUBSET Files(sst, ver)
        BY <2>2, Zenon DEF Tree, Running
      <3>4. \A e \in Files(sst, ver) : e.seq <= seq
        BY <1>5, Zenon
      <3>5. LogCovers({}, mem.map, Files(sst, ver), seq, seq, doubt)
        BY <3>3, <3>4, LogCoversNone, Zenon
      <3> QED
        BY <3>1, <3>2, <3>3, <3>5, Zenon DEF OneVersion
    <2> QED
      BY <2>1, <2>2, Zenon
  <1>8. ManifestCovers(D, ver, sst, mem.map)
    BY <1>3, Zenon DEF Tree, ManSide
  <1>9. PICK C : C = Content(sst, mem.map, ver)
    BY Zenon
  <1>10. /\ Layers(sst, T, D)
         /\ Content(sst, T, D) = C \cup T
         /\ \A e \in Content(sst, T, D) : e.seq <= D.last \/ \E f \in T : e.seq <= f.seq
    <2>1. PICK disk, M, v, s, store, dbt : /\ disk = sst /\ M = mem.map /\ v = ver /\ s = seq
                                           /\ store = acked /\ dbt = doubt
      BY Zenon
    <2>2. /\ disk \in Disks /\ M \in SUBSET Entry /\ v \in Version /\ s \in Nat
          /\ Serves(disk, M, v, s, store)
          /\ LogCovers(T, M, Files(disk, v), v.last, s, dbt)
          /\ ManifestCovers(D, v, disk, M)
          /\ \A id \in LiveFiles(D) : disk[id].state = "ok"
      BY <1>3, <1>5, <1>6, <1>7, <1>8, <2>1, Zenon
    <2>3. /\ Layers(disk, T, D)
          /\ Content(disk, T, D) = Content(disk, M, v) \cup T
          /\ \A e \in Content(disk, T, D) : e.seq <= D.last \/ \E f \in T : e.seq <= f.seq
      BY <1>4, <1>7, <2>2, RecoveredLayers, Zenon
    <2> QED
      BY <1>9, <2>1, <2>3, Zenon
  <1>11. PICK r : r = ResumeSeq(t, D)
    BY Zenon
  <1>12. r \in Nat /\ \A e \in Content(sst, T, D) : e.seq <= r
    <2>1. PICK b \in Nat : \A e \in t.map : e.seq <= b
      BY <1>7, Zenon DEF Tables
    <2>2. r \in Nat /\ D.last <= r /\ \A e \in t.map : e.seq <= r
      BY <1>2, <1>4, <1>7, <1>11, <2>1, ResumeIs, Zenon
    <2>3. D.last \in Nat /\ (\A e \in C \cup T : e.seq \in Nat)
      BY <1>4, <1>5, <1>7, <1>9, Zenon DEF Version, Entry
    <2> QED
      BY <1>2, <1>10, <2>2, <2>3
  <1>13. \A k \in Keys : Get(T, D.runs, r, k) = Value(Content(sst, T, D), k)
    BY <1>4, <1>6, <1>7, <1>10, <1>12, GetIs, Zenon
  <1>14. RecoveredFrom(log, man[current]) = [k \in Keys |-> Value(Content(sst, T, D), k)]
    <2>1. ~t.full
      BY <1>1, Zenon DEF Replays
    <2>2. RecoveredFrom(log, man[current])
            = [k \in Keys |-> IF t.full THEN ReadError ELSE Get(T, D.runs, r, k)]
      BY <1>1, <1>2, <1>3, <1>11, Zenon DEF RecoveredFrom, OnDisk
    <2> QED
      BY <1>13, <2>1, <2>2, Zenon
  <1>15. ASSUME NEW k \in Keys
         PROVE  Value(C \cup T, k) = Value(C, k) \/ <<k, Value(C \cup T, k)>> \in doubt
    <2>1. C \in SUBSET Entry /\ \A e \in C : e.seq <= seq
      BY <1>5, <1>9, Zenon
    <2>2. OneVersion(C \cup T)
      BY <1>10, Zenon DEF Layers
    <2>3. \A x \in T : x \in C \/ (/\ x.seq <= seq + 1
                                   /\ \/ Written(x) \in doubt
                                      \/ \E e \in C : e.key = x.key /\ e.seq > x.seq)
      BY <1>5, <1>7, <1>9, Zenon DEF LogCovers
    <2> QED
      BY <1>6, <1>7, <2>1, <2>2, <2>3, RecoveredValues, Zenon
  <1>16. PICK found : found = RecoveredFrom(log, man[current])
    BY Zenon
  <1>17. \A k \in Keys : found[k] = acked[k] \/ <<k, found[k]>> \in doubt
    <2>1. \A k \in Keys : found[k] = Value(C \cup T, k) /\ acked[k] = Value(C, k)
      BY <1>5, <1>9, <1>10, <1>14, <1>16, Zenon
    <2> QED
      BY <1>15, <2>1, Zenon
  <1>18. Finds(T, D, found)
    BY <1>10, <1>14, <1>16, <1>17, Zenon DEF Finds
  <1> QED
    BY <1>1, <1>2, <1>3, <1>16, <1>18, Zenon

\* A crash that leaves no damage left the journals as they were, or the
\* memtable journal truncated by the flush under way.
LEMMA CrashLeaves ==
    ASSUME TypeOK, Tree, Up, NEW o \in CrashOutcomes,
           Replays(setting.capacity, o[1]), Whole(o[2][current])
    PROVE  /\ o[1] = wal \/ (pc = "clear" /\ o[1] = <<>>)
           /\ o[2][current] = man[current]
           /\ current < MaxManifest /\ Whole(o[2][current + 1]) =>
                 o[2][current + 1] = man[current + 1]
  <1>1. /\ man \in [0..MaxManifest -> Seq(Version \cup {Torn})]
        /\ current \in 0..MaxManifest
        /\ wal \in Seq(Entry \cup {Torn})
    BY Zenon DEF TypeOK
  <1>2. cur = current
    BY Zenon DEF Tree, Running
  <1>3. current + 1 # current /\ (current < MaxManifest => current + 1 \in 0..MaxManifest)
    BY <1>1, LsmAssumption
  <1>4. ~Whole(Tear(wal)) /\ \A n \in 0..MaxManifest : ~Whole(Tear(man[n]))
    BY <1>1, TearIs, Zenon
  <1>5. CASE o = <<wal, man>>
    BY <1>5, Zenon
  <1>6. CASE pc = "clear" /\ o = <<(<<>>), man>>
    BY <1>6, Zenon
  <1>7. CASE o = <<Tear(wal), man>>
    BY <1>4, <1>7, Zenon DEF Replays
  <1>8. CASE cur + 1 \in 0..MaxManifest /\ o = <<wal, [man EXCEPT ![cur + 1] = Tear(man[cur + 1])]>>
    <2>1. o[1] = wal /\ o[2] = [man EXCEPT ![current + 1] = Tear(man[current + 1])]
      BY <1>2, <1>8, Zenon
    <2>2. o[2][current] = man[current]
      BY <1>1, <1>3, <2>1, Zenon
    <2>3. o[2][current + 1] = Tear(man[current + 1])
      BY <1>1, <1>2, <1>8, <2>1, Zenon
    <2> QED
      BY <1>2, <1>4, <1>8, <2>1, <2>2, <2>3, Zenon
  <1>9. CASE o = <<wal, [man EXCEPT ![cur] = Tear(man[cur])]>>
    <2>1. o[2] = [man EXCEPT ![current] = Tear(man[current])]
      BY <1>2, <1>9, Zenon
    <2>2. o[2][current] = Tear(man[current])
      BY <1>1, <2>1, Zenon
    <2> QED
      BY <1>1, <1>4, <2>2, Zenon
  <1> QED
    BY <1>5, <1>6, <1>7, <1>8, <1>9, CrashIs, Zenon

\* A crash that leaves sound files leaves what an open finds again.
LEMMA CrashKeeps ==
    ASSUME MaxFact, CountFact, InductionFact, TypeOK, Tree, UNCHANGED setting, Crash, ~Damaged'
    PROVE  /\ Finds(Kept'.map, OnDisk, acked')
           /\ Whole(man[current]) /\ OnDisk' = OnDisk
           /\ current < MaxManifest /\ Whole(man'[current + 1]) =>
                 man'[current + 1] = man[current + 1]
  <1>1. Up /\ UNCHANGED <<current, sst>>
    BY Zenon DEF Crash, Up
  <1>2. PICK o \in CrashOutcomes :
            wal' = o[1] /\ man' = o[2] /\ acked' = RecoveredFrom(o[1], o[2][current])
    BY Zenon DEF Crash
  <1>3. /\ Replays(setting.capacity, wal')
        /\ Whole(man'[current])
        /\ \A id \in LiveFiles(OnDisk') : sst[id].state = "ok"
    BY <1>1, Zenon DEF Damaged, Replays, Whole, Clash, OnDisk
  <1>4. /\ o[1] = wal \/ (pc = "clear" /\ o[1] = <<>>)
        /\ o[2][current] = man[current]
        /\ current < MaxManifest /\ Whole(o[2][current + 1]) =>
              o[2][current + 1] = man[current + 1]
    BY <1>1, <1>2, <1>3, CrashLeaves, Zenon
  <1>5. OnDisk' = OnDisk /\ Kept' = Recover(setting.capacity, o[1])
    BY <1>1, <1>2, <1>4, Zenon DEF OnDisk, Kept
  <1>6. Finds(Recover(setting.capacity, o[1]).map, OnDisk, RecoveredFrom(o[1], man[current]))
    <2>1. PICK log : log = o[1]
      BY Zenon
    <2>2. /\ log = wal \/ (pc = "clear" /\ log = <<>>)
          /\ Replays(setting.capacity, log) /\ Whole(man[current])
          /\ \A id \in LiveFiles(OnDisk) : sst[id].state = "ok"
      BY <1>2, <1>3, <1>4, <1>5, <2>1, Zenon
    <2>3. Finds(Recover(setting.capacity, log).map, OnDisk, RecoveredFrom(log, man[current]))
      BY <1>1, <2>2, CrashFinds, Zenon
    <2> QED
      BY <2>1, <2>3, Zenon
  <1> QED
    BY <1>1, <1>2, <1>3, <1>4, <1>5, <1>6, Zenon

\* A crash forgets memory, and may tear the end of a journal.
LEMMA TreeCrash ==
    ASSUME MaxFact, CountFact, InductionFact, TypeOK, Tree, UNCHANGED setting, Crash
    PROVE  Tree'
  <1>1. Up /\ ~Up' /\ UNCHANGED <<current, sst>> /\ pc' = "down"
    BY Zenon DEF Crash, Up
  <1>2. PICK o \in CrashOutcomes :
            wal' = o[1] /\ man' = o[2] /\ acked' = RecoveredFrom(o[1], o[2][current])
    BY Zenon DEF Crash
  <1>3. Running' /\ WalSide' /\ ManSide'
    BY <1>1, Zenon DEF Running, WalSide, ManSide
  <1>4. wal' = wal \/ wal' = <<>> \/ ~Whole(wal')
    <2>1. wal \in Seq(Entry \cup {Torn})
      BY Zenon DEF TypeOK
    <2>2. ~Whole(Tear(wal))
      BY <2>1, TearIs, Zenon
    <2>3. o[1] = wal \/ o[1] = <<>> \/ o[1] = Tear(wal)
      BY CrashIs
    <2> QED
      BY <1>2, <2>2, <2>3, Zenon
  <1>5. Sound(setting.capacity, wal')
    <2>1. setting.capacity \in Nat
      BY Given, Zenon
    <2>2. CASE wal' = wal
      BY <2>2, Zenon DEF Tree
    <2>3. CASE wal' = <<>>
      BY <2>1, <2>3, SoundNone, Zenon
    <2>4. CASE ~Whole(wal')
      BY <2>4, Zenon DEF Sound, Replays
    <2> QED
      BY <1>4, <2>2, <2>3, <2>4, Zenon
  <1>6. NextSide'
    <2>1. \A n \in 0..MaxManifest : n > current + 1 => o[2][n] = man[n]
      <3>1. cur = current /\ current \in 0..MaxManifest /\ DOMAIN man = 0..MaxManifest
        <4>1. cur = current
          BY <1>1, Zenon DEF Tree, Running
        <4>2. current \in 0..MaxManifest /\ DOMAIN man = 0..MaxManifest
          BY Zenon DEF TypeOK
        <4> QED
          BY <4>1, <4>2, Zenon
      <3>2. \A n \in 0..MaxManifest : n > current + 1 => n # current + 1 /\ n # current
        BY <3>1
      <3>3. CASE o[2] = man
        BY <3>3, Zenon
      <3>4. CASE o[2] = [man EXCEPT ![cur + 1] = Tear(man[cur + 1])]
        BY <3>1, <3>2, <3>4, Zenon
      <3>5. CASE o[2] = [man EXCEPT ![cur] = Tear(man[cur])]
        BY <3>1, <3>2, <3>5, Zenon
      <3>6. \/ o[2] = man
            \/ o[2] = [man EXCEPT ![cur + 1] = Tear(man[cur + 1])]
            \/ o[2] = [man EXCEPT ![cur] = Tear(man[cur])]
        <4>1. PICK m1, m2 : /\ m1 = [man EXCEPT ![cur + 1] = Tear(man[cur + 1])]
                            /\ m2 = [man EXCEPT ![cur] = Tear(man[cur])]
          BY Zenon
        <4>2. \/ o = <<wal, man>> \/ o = <<(<<>>), man>> \/ o = <<Tear(wal), man>>
              \/ o = <<wal, m1>> \/ o = <<wal, m2>>
          BY <4>1, CrashIs, Zenon
        <4>3. o[2] = man \/ o[2] = m1 \/ o[2] = m2
          BY <4>2
        <4> QED
          BY <4>1, <4>3, Zenon
      <3> QED
        BY <3>3, <3>4, <3>5, <3>6, Zenon
    <2> QED
      BY <1>1, <1>2, <2>1, Zenon DEF Tree, NextSide
  <1>7. ASSUME ~Damaged'
        PROVE  /\ Layers(sst', Kept'.map, OnDisk')
               /\ \A e \in Content(sst', Kept'.map, OnDisk') :
                     e.seq <= OnDisk'.last \/ \E f \in Kept'.map : e.seq <= f.seq
               /\ acked' = [k \in Keys |-> Value(Content(sst', Kept'.map, OnDisk'), k)]
               /\ current < MaxManifest /\ Whole(man'[current + 1]) =>
                     \A id \in LiveFiles(Upcoming') : id \in LiveFiles(OnDisk')
    <2>1. /\ Finds(Kept'.map, OnDisk, acked')
          /\ Whole(man[current]) /\ OnDisk' = OnDisk
          /\ current < MaxManifest /\ Whole(man'[current + 1]) =>
                man'[current + 1] = man[current + 1]
      BY <1>7, CrashKeeps, Zenon
    <2>2. ASSUME current < MaxManifest, Whole(man'[current + 1])
          PROVE  \A id \in LiveFiles(Upcoming') : id \in LiveFiles(OnDisk')
      <3>1. man'[current + 1] = man[current + 1] /\ Upcoming' = Upcoming
        BY <1>1, <2>1, <2>2, Zenon DEF Upcoming
      <3>2. \A id \in LiveFiles(Upcoming) : id \in LiveFiles(ver)
        BY <1>1, <2>2, <3>1, Zenon DEF Tree, NextSide
      <3>3. \A id \in LiveFiles(ver) : id \in LiveFiles(OnDisk)
        BY <1>1, <2>1, Zenon DEF Tree, ManSide, ManifestCovers
      <3> QED
        BY <2>1, <3>1, <3>2, <3>3, Zenon
    <2> QED
      BY <1>1, <2>1, <2>2, Zenon DEF Finds
  <1>8. Resting'
    BY <1>1, <1>7, Zenon DEF Resting
  <1> QED
    BY <1>3, <1>5, <1>6, <1>8, Zenon DEF Tree

\* An open that meets no damage has the tree that the files describe.
LEMMA TreeOpen ==
    ASSUME MaxFact, CountFact, InductionFact, TypeOK, Tree, UNCHANGED setting, Open, ~Damaged
    PROVE  Tree'
  <1>1. /\ mem' = Kept /\ ver' = OnDisk /\ cur' = current
        /\ seq' = ResumeSeq(Kept, OnDisk)
        /\ sst' = Collected(OnDisk)
        /\ UNCHANGED <<wal, man, current, acked, doubt>>
        /\ pc = "down" /\ pc' = "idle"
    BY Zenon DEF Open, Kept, OnDisk
  <1>2. ~Up /\ Up'
    BY <1>1, Zenon DEF Up
  <1>3. /\ Layers(sst, Kept.map, OnDisk)
        /\ \A e \in Content(sst, Kept.map, OnDisk) :
              e.seq <= OnDisk.last \/ \E f \in Kept.map : e.seq <= f.seq
        /\ acked = [k \in Keys |-> Value(Content(sst, Kept.map, OnDisk), k)]
        /\ current < MaxManifest /\ Whole(man[current + 1]) =>
              \A id \in LiveFiles(Upcoming) : id \in LiveFiles(OnDisk)
    BY <1>2, Zenon DEF Tree, Resting
  <1>4. Kept \in Tables(setting.capacity) /\ Kept.map \in SUBSET Entry /\ OnDisk \in Version
    BY Given, Zenon
  <1>5. sst \in Disks
    BY Zenon DEF TypeOK
  <1>6. /\ InOrder(OnDisk.runs)
        /\ \A id \in LiveFiles(OnDisk) : id < OnDisk.next
        /\ OnDisk.next <= MaxSst
    BY <1>3, Zenon DEF Layers
  <1>7. LiveFiles(OnDisk) \in SUBSET (0..(MaxSst - 1)) /\ Content(sst, Kept.map, OnDisk) \in SUBSET Entry
    BY <1>4, <1>5, <1>6, ContentType, Zenon
  <1>8. \A id \in LiveFiles(OnDisk) : sst'[id] = sst[id]
    <2>1. DOMAIN sst = 0..(MaxSst - 1)
      BY <1>5, Zenon DEF Disks
    <2> QED
      BY <1>1, <1>7, <2>1, Zenon DEF Collected
  <1>9. PICK disk2 : disk2 = sst'
    BY Zenon
  <1>10. /\ Layers(disk2, Kept.map, OnDisk)
         /\ Files(disk2, OnDisk) = Files(sst, OnDisk)
         /\ Content(disk2, Kept.map, OnDisk) = Content(sst, Kept.map, OnDisk)
    <2>1. \A id \in LiveFiles(OnDisk) : disk2[id] = sst[id]
      BY <1>8, <1>9, Zenon
    <2> QED
      BY <1>3, <1>6, <2>1, LayersSame
  <1>11. PICK r : r = ResumeSeq(Kept, OnDisk)
    BY Zenon
  <1>12. /\ r \in Nat /\ OnDisk.last <= r
         /\ \A e \in Content(sst, Kept.map, OnDisk) : e.seq <= r
    <2>1. PICK b \in Nat : \A e \in Kept.map : e.seq <= b
      BY <1>4, Zenon DEF Tables
    <2>2. PICK t, D : t = Kept /\ D = OnDisk
      BY Zenon
    <2>3. r \in Nat /\ D.last <= r /\ \A e \in t.map : e.seq <= r
      BY <1>4, <1>11, <2>1, <2>2, ResumeIs, Zenon
    <2>4. D.last \in Nat /\ \A e \in Content(sst, Kept.map, OnDisk) : e.seq \in Nat
      BY <1>4, <1>7, <2>2, Zenon DEF Version, Entry
    <2>5. \A e \in Kept.map : e.seq \in Nat
      BY <1>4, Zenon DEF Entry
    <2> QED
      BY <1>3, <2>2, <2>3, <2>4, <2>5
  <1>13. Running'
    <2>1. Serves(disk2, Kept.map, OnDisk, r, acked)
      BY <1>3, <1>10, <1>12, Zenon DEF Serves
    <2> QED
      BY <1>1, <1>9, <1>11, <2>1, Zenon DEF Running
  <1>14. Sound(setting.capacity, wal')
    BY <1>1, Zenon DEF Tree
  <1>15. WalSide'
    <2>1. Dominates(Kept.map, Files(sst, OnDisk))
      BY <1>3 DEF Layers, Files, Dominates
    <2>2. \A e \in Kept.map \cup Files(sst, OnDisk) :
             e.seq <= OnDisk.last \/ \E f \in Kept.map : e.seq <= f.seq
      BY <1>3, Zenon DEF Content
    <2>3. LogCovers(Kept.map, Kept.map, Files(sst, OnDisk), OnDisk.last, r, doubt)
      BY <1>4, <2>1, <2>2, LogCoversSelf, Zenon
    <2>4. Kept' = Kept
      BY <1>1, Zenon DEF Kept
    <2> QED
      BY <1>1, <1>9, <1>10, <1>11, <2>3, <2>4, Zenon DEF WalSide
  <1>16. ManSide'
    <2>1. ManifestCovers(OnDisk, OnDisk, disk2, Kept.map)
      BY <1>4, <1>6, <1>10, ManifestCoversSame, Zenon
    <2>2. OnDisk' = OnDisk
      BY <1>1, Zenon DEF OnDisk
    <2> QED
      BY <1>1, <1>9, <2>1, <2>2, Zenon DEF ManSide
  <1>17. NextSide'
    <2>1. Upcoming' = Upcoming
      BY <1>1, Zenon DEF Upcoming
    <2> QED
      BY <1>1, <1>3, <2>1, Zenon DEF Tree, NextSide
  <1>18. Resting'
    BY <1>2, Zenon DEF Resting
  <1> QED
    BY <1>13, <1>14, <1>15, <1>16, <1>17, <1>18, Zenon DEF Tree
=============================================================================
