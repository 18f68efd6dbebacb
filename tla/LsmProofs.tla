----------------------------- MODULE LsmProofs ------------------------------
(***************************************************************************)
(* What a sound disk and a large memtable shelter the LSM tree from, that  *)
(* every step preserves the invariant of LsmTree, and the theorems that    *)
(* follow from it.                                                         *)
(***************************************************************************)
EXTENDS LsmTree

-----------------------------------------------------------------------------
(* A sound disk and a large memtable.                                      *)

\* A memtable with two bytes left takes any entry.
LEMMA PutFits ==
    ASSUME NEW capacity \in Nat, NEW t \in Tables(capacity), ~t.full,
           t.size + 2 <= capacity, NEW e
    PROVE  ~TablePut(t, e).full
  <1>1. t \in Table /\ t.capacity = capacity /\ t.size \in Nat /\ t.full = FALSE
    BY Zenon DEF Tables, Table
  <1>2. Bytes(e) \in {1, 2}
    BY Zenon DEF Bytes
  <1>3. ~(t.size + Bytes(e) > t.capacity)
    BY <1>1, <1>2
  <1>4. TablePut(t, e) = [t EXCEPT !.map = Insert(t.map, e), !.size = t.size + Bytes(e)]
    BY <1>1, <1>3, Zenon DEF TablePut
  <1> QED
    BY <1>1, <1>4, Zenon DEF Table

\* The empty journal fits any budget.
LEMMA FitsNone ==
    ASSUME CountFact, InductionFact, NEW capacity \in Nat, NEW n \in Nat
    PROVE  Fits(capacity, <<>>, n)
  <1>1. Recover(capacity, <<>>).size = 0 /\ Recover(capacity, <<>>).full = FALSE
    BY SoundNone DEF EmptyTable
  <1>2. Len(<<>>) = 0 /\ DOMAIN <<>> = {}
    OBVIOUS
  <1> QED
    BY <1>1, <1>2 DEF Fits, Whole

\* A journal that fits after n calls does after n + 1.
LEMMA FitsMore ==
    ASSUME NEW capacity, NEW S, NEW log \in Seq(S), NEW n \in Nat, Fits(capacity, log, n)
    PROVE  Fits(capacity, log, n + 1)
  <1>1. Len(log) <= n + 1
    BY DEF Fits
  <1> QED
    BY <1>1, Zenon DEF Fits

\* A record with a new seq, behind a journal that fits.
LEMMA FitsAppend ==
    ASSUME CountFact, InductionFact, NEW capacity \in Nat, NEW log \in Seq(Entry \cup {Torn}),
           NEW n \in Nat, Fits(capacity, log, n), 2 * (n + 1) <= capacity,
           NEW e \in Entry, \A i \in DOMAIN log : log[i].seq # e.seq
    PROVE  Fits(capacity, Append(log, e), n + 1)
  <1>1. PICK log2, m : log2 = Append(log, e) /\ m = Len(log) + 1
    BY Zenon
  <1>2. e \in Entry \cup {Torn} /\ e # Torn
    BY TornIsNoRecord, Zenon
  <1>3. /\ Len(log) \in Nat /\ Len(log2) = m
        /\ \A i \in DOMAIN log : i \in DOMAIN log2 /\ log2[i] = log[i]
        /\ m \in DOMAIN log2 /\ log2[m] = e
        /\ \A i \in DOMAIN log2 : i \in DOMAIN log \/ i = m
    BY <1>1, <1>2, AppendIs
  <1>4. Whole(log)
    BY Zenon DEF Fits
  <1>5. Whole(log2)
    BY <1>1, <1>2, <1>4, WholeAppend, Zenon
  <1>6. PICK t : t = Recover(capacity, log)
    BY Zenon
  <1>7. t \in Tables(capacity) /\ ~t.full /\ t.size <= 2 * Len(log) /\ Len(log) <= n
    BY <1>6, RecoverType, Zenon DEF Fits
  <1>8. t.size \in Nat
    BY <1>7, Zenon DEF Tables, Table
  <1>9. Recover(capacity, log2) = TablePut(t, e)
    BY <1>1, <1>4, <1>6, RecoverAppend, Zenon
  <1>10. t.size + 2 <= capacity
    BY <1>3, <1>7, <1>8
  <1>11. ~TablePut(t, e).full
    BY <1>7, <1>10, PutFits, Zenon
  <1>12. TablePut(t, e).size <= t.size + 2 /\ TablePut(t, e) \in Tables(capacity)
    BY <1>7, PutIsTable, Zenon
  <1>13. TablePut(t, e).size \in Nat
    BY <1>12, Zenon DEF Tables, Table
  <1>14. TablePut(t, e).size <= 2 * Len(log2)
    BY <1>1, <1>3, <1>7, <1>8, <1>12, <1>13
  <1>15. Len(log2) <= n + 1
    BY <1>1, <1>3, <1>7
  <1>16. \A i, j \in DOMAIN log2 : SameSlot(log2[i], log2[j]) => i = j
    <2>1. \A i, j \in DOMAIN log : SameSlot(log[i], log[j]) => i = j
      BY Zenon DEF Fits
    <2> QED
      BY <1>3, <2>1, Zenon DEF SameSlot
  <1> QED
    BY <1>1, <1>5, <1>9, <1>11, <1>14, <1>15, <1>16, Zenon DEF Fits

\* An open then meets no damage.
LEMMA ShelterWhole ==
    ASSUME TypeOK, Shelter, Sheltered, ~Up
    PROVE  ~Damaged
  <1>1. Fits(setting.capacity, wal, calls)
    BY Zenon DEF Shelter
  <1>2. ~Clash(wal)
    BY <1>1, Zenon DEF Fits, Clash
  <1>3. Replays(setting.capacity, wal)
    BY <1>1, <1>2, Zenon DEF Fits, Replays
  <1>4. Whole(man[current]) /\ \A id \in LiveFiles(OnDisk) : sst[id].state = "ok"
    BY Zenon DEF Shelter, TypeOK
  <1> QED
    BY <1>3, <1>4, DamagedIs, Zenon

\* A put or delete logs its record on a sound disk.
LEMMA ShelterWrites ==
    ASSUME CountFact, InductionFact, TypeOK, Tree, Shelter, UNCHANGED setting, Sheltered,
           NEW e \in Writes, WriteLog(e) \/ WriteLogFails(e)
    PROVE  Shelter'
  <1>1. setting.capacity \in Nat /\ wal \in Seq(Entry \cup {Torn}) /\ calls \in Nat
            /\ mem.size \in Nat /\ seq \in Nat
    BY Given, LsmAssumption DEF TypeOK, Tables, Table
  <1>2. e \in Entry /\ e.seq = seq + 1
    BY WritesAre, Zenon
  <1>3. /\ UNCHANGED <<man, current, sst, mem, ver, seq, intact>>
        /\ calls < MaxCalls /\ calls' = calls + 1
        /\ pc = "idle"
    BY Zenon DEF WriteLog, WriteLogFails, fields
  <1>4. /\ intact
        /\ Fits(setting.capacity, wal, calls)
        /\ \A n \in 0..MaxManifest : Whole(man[n])
        /\ mem.size <= 2 * calls
        /\ \A i \in DOMAIN wal : wal[i].seq <= seq
        /\ LiveFiles(OnDisk) = LiveFiles(ver)
    BY <1>3, Zenon DEF Shelter, Up
  <1>5. setting.faults = {} /\ setting.capacity >= 2 * MaxCalls
    BY Zenon DEF Sheltered
  <1>6. mem.size <= 2 * (calls + 1) /\ mem.size + 2 <= 2 * (calls + 1)
    BY <1>1, <1>4
  <1>7. OnDisk' = OnDisk
    BY <1>3, Zenon DEF OnDisk
  <1>8. CASE WriteLog(e)
    <2>1. wal' = Append(wal, e) /\ pc' = "logged"
      BY <1>8, Zenon DEF WriteLog
    <2>2. e \in Entry \cup {Torn}
      BY <1>2, Zenon
    <2>3. /\ Len(wal) + 1 \in DOMAIN wal' /\ wal'[Len(wal) + 1] = e
          /\ \A i \in DOMAIN wal : wal'[i] = wal[i]
          /\ \A i \in DOMAIN wal' : i \in DOMAIN wal \/ i = Len(wal) + 1
      BY <1>1, <2>1, <2>2, AppendIs
    <2>4. \A i \in DOMAIN wal : wal[i].seq # e.seq
      BY <1>1, <1>2, <1>4
    <2>5. 2 * (calls + 1) <= setting.capacity
      BY <1>1, <1>3, <1>5, LsmAssumption
    <2>6. Fits(setting.capacity, wal', calls + 1)
      BY <1>1, <1>2, <1>4, <2>1, <2>4, <2>5, FitsAppend, Zenon
    <2>7. \A i \in DOMAIN wal' : wal'[i].seq <= seq + 1
      <3>1. seq + 1 <= seq + 1
        BY <1>1
      <3>2. \A i \in DOMAIN wal : wal[i].seq <= seq + 1
        <4>1. \A i \in DOMAIN wal : wal[i] \in Entry \cup {Torn} /\ wal[i] # Torn
          BY <1>1, <1>4 DEF Fits, Whole
        <4>2. \A i \in DOMAIN wal : wal[i].seq \in Nat
          BY <4>1, Zenon DEF Entry
        <4> QED
          BY <1>1, <1>4, <4>2
      <3> QED
        BY <1>2, <2>3, <3>1, <3>2, Zenon
    <2> QED
      BY <1>3, <1>4, <1>6, <1>7, <2>1, <2>6, <2>7, Zenon DEF Shelter, Up
  <1>9. CASE WriteLogFails(e)
    <2>1. wal' \in FailedAppend(wal, e) /\ pc' = pc
      BY <1>9, Zenon DEF WriteLogFails
    <2>2. wal' = wal
      <3>1. PICK l \in FailedAppend(wal, e) : wal' = l
        BY <2>1, Zenon
      <3>2. l = wal
        BY <1>1, <1>2, <1>5, FailedIs, Zenon
      <3> QED
        BY <3>1, <3>2, Zenon
    <2>3. Fits(setting.capacity, wal, calls + 1)
      BY <1>1, <1>4, FitsMore, Zenon
    <2> QED
      BY <1>3, <1>4, <1>6, <1>7, <2>1, <2>2, <2>3, Zenon DEF Shelter, Up
  <1> QED
    BY <1>8, <1>9, Zenon

\* A write is applied, and an open replays, without meeting a full memtable.
LEMMA ShelterCalls ==
    ASSUME MaxFact, CountFact, InductionFact, TypeOK, Tree, Shelter, UNCHANGED setting, Sheltered,
           Open \/ WriteApply \/ WriteFull
    PROVE  Shelter'
  <1>1. setting.capacity \in Nat /\ wal \in Seq(Entry \cup {Torn}) /\ calls \in Nat
            /\ mem.size \in Nat /\ seq \in Nat /\ mem \in Tables(setting.capacity)
            /\ calls <= MaxCalls
    BY Given, LsmAssumption DEF TypeOK, Tables, Table
  <1>2. setting.faults = {} /\ setting.capacity >= 2 * MaxCalls
    BY Zenon DEF Sheltered
  <1>3. /\ intact
        /\ Fits(setting.capacity, wal, calls)
        /\ \A n \in 0..MaxManifest : Whole(man[n])
    BY Zenon DEF Shelter
  <1>4. CASE Open
    <2>1. /\ pc = "down" /\ pc' = "idle"
          /\ mem' = Kept /\ ver' = OnDisk /\ seq' = ResumeSeq(Kept, OnDisk)
          /\ UNCHANGED <<wal, man, current, calls>>
          /\ intact' = (intact /\ ~Damaged)
      BY <1>4, Zenon DEF Open, Kept, OnDisk
    <2>2. ~Damaged
      BY <2>1, ShelterWhole, Zenon DEF Up
    <2>3. Kept.size <= 2 * calls
      <3>1. Kept.size <= 2 * Len(wal) /\ Len(wal) <= calls
        BY <1>3, Zenon DEF Fits, Kept
      <3>2. Kept.size \in Nat /\ Len(wal) \in Nat
        BY <1>1, Given DEF Tables, Table
      <3> QED
        BY <1>1, <3>1, <3>2
    <2>4. \A i \in DOMAIN wal : wal[i].seq <= ResumeSeq(Kept, OnDisk)
      <3>1. Kept \in Tables(setting.capacity) /\ Kept.map \in SUBSET Entry /\ OnDisk \in Version
        BY Given, Zenon
      <3>2. PICK b \in Nat : \A e \in Kept.map : e.seq <= b
        BY <3>1, Zenon DEF Tables
      <3>3. \A e \in Kept.map : e.seq <= ResumeSeq(Kept, OnDisk)
        BY <3>1, <3>2, ResumeIs, Zenon
      <3>4. Replays(setting.capacity, wal)
        BY <2>2, DamagedIs, Zenon
      <3>5. \A i \in DOMAIN wal : \E e \in Kept.map : SameSlot(e, wal[i])
        BY <3>4, Zenon DEF Tree, Sound, Kept
      <3> QED
        BY <3>3, <3>5, Zenon DEF SameSlot
    <2>5. OnDisk' = OnDisk
      BY <2>1, Zenon DEF OnDisk
    <2> QED
      BY <1>3, <2>1, <2>2, <2>3, <2>4, <2>5, Zenon DEF Shelter, Up
  <1>5. CASE WriteApply
    <2>1. /\ pc = "logged" /\ pc' = "idle"
          /\ mem' = TablePut(mem, arg) /\ seq' = seq + 1
          /\ UNCHANGED <<wal, man, current, sst, ver, intact, calls>>
      BY <1>5, Zenon DEF WriteApply, files
    <2>2. mem.size + 2 <= 2 * calls /\ LiveFiles(OnDisk) = LiveFiles(ver)
              /\ \A i \in DOMAIN wal : wal[i].seq <= seq + 1
      BY <2>1, Zenon DEF Shelter, Up
    <2>3. arg \in Entry
      BY <2>1, Zenon DEF TypeOK
    <2>4. mem'.size <= mem.size + 2 /\ mem' \in Tables(setting.capacity)
      BY <1>1, <2>1, <2>3, PutIsTable, Zenon
    <2>5. mem'.size \in Nat
      BY <2>4, Zenon DEF Tables, Table
    <2>6. mem'.size <= 2 * calls
      BY <1>1, <2>2, <2>4, <2>5
    <2>7. OnDisk' = OnDisk
      BY <2>1, Zenon DEF OnDisk
    <2> QED
      BY <1>3, <2>1, <2>2, <2>6, <2>7, Zenon DEF Shelter, Up
  <1>6. CASE WriteFull
    <2>1. pc = "logged" /\ TablePut(mem, arg).full
      BY <1>6, Zenon DEF WriteFull
    <2>2. mem.size + 2 <= 2 * calls
      BY <2>1, Zenon DEF Shelter
    <2>3. mem.size + 2 <= setting.capacity
      BY <1>1, <1>2, <2>2, LsmAssumption
    <2>4. ~mem.full
      BY Zenon DEF TypeOK
    <2>5. ~TablePut(mem, arg).full
      BY <1>1, <2>3, <2>4, PutFits, Zenon
    <2> QED
      BY <2>1, <2>5, Zenon
  <1> QED
    BY <1>4, <1>5, <1>6, Zenon

\* The steps of a flush and of a checkpoint: what becomes of the journals.
LEMMA ShelterJournals ==
    ASSUME CountFact, InductionFact, TypeOK, Tree, Shelter, UNCHANGED setting, Sheltered, Up, Up',
           pc # "logged", pc' # "logged", UNCHANGED <<seq, intact, calls>>,
           wal' = wal \/ wal' = <<>>, mem' = mem \/ mem'.size = 0,
           \A n \in 0..MaxManifest : Whole(man'[n]),
           LiveFiles(OnDisk') = LiveFiles(ver')
    PROVE  Shelter'
  <1>1. setting.capacity \in Nat /\ calls \in Nat
    BY Given, LsmAssumption DEF TypeOK
  <1>2. /\ intact
        /\ Fits(setting.capacity, wal, calls)
        /\ mem.size <= 2 * calls
        /\ \A i \in DOMAIN wal : wal[i].seq <= seq
    BY Zenon DEF Shelter
  <1>3. Fits(setting.capacity, wal', calls)
    BY <1>1, <1>2, FitsNone, Zenon
  <1>4. mem'.size <= 2 * calls
    BY <1>1, <1>2
  <1>5. \A i \in DOMAIN wal' : wal'[i].seq <= seq
    <2>1. DOMAIN <<>> = {}
      OBVIOUS
    <2> QED
      BY <1>2, <2>1, Zenon
  <1> QED
    BY <1>2, <1>3, <1>4, <1>5, Zenon DEF Shelter

\* A manifest that is not written to.
LEMMA SameLog ==
    ASSUME TypeOK, NEW n \in 0..MaxManifest
    PROVE  [man EXCEPT ![n] = man[n]] = man
  <1>1. PICK S : man \in [0..MaxManifest -> S]
    BY Zenon DEF TypeOK
  <1> QED
    BY <1>1, Zenon

\* The steps of a flush on a sound disk.
LEMMA ShelterFlush ==
    ASSUME CountFact, InductionFact, TypeOK, Tree, Shelter, UNCHANGED setting, Sheltered,
           FlushCreate \/ FlushWrite \/ FlushCommit \/ FlushClear \/ FlushFails
    PROVE  Shelter'
  <1>1. /\ pc \in {"idle", "sst", "commit", "clear"} /\ pc' \in {"idle", "sst", "commit", "clear"}
        /\ UNCHANGED <<seq, intact, calls, current>>
    BY Zenon DEF FlushCreate, FlushWrite, FlushCommit, FlushClear, FlushFails, fields, history
  <1>2. Up /\ Up' /\ pc # "logged" /\ pc' # "logged"
    BY <1>1, Zenon DEF Up
  <1>3. /\ \A n \in 0..MaxManifest : Whole(man[n])
        /\ LiveFiles(OnDisk) = LiveFiles(ver)
    BY <1>2, Zenon DEF Shelter
  <1>4. wal' = wal \/ wal' = <<>>
    BY Zenon DEF FlushCreate, FlushWrite, FlushCommit, FlushClear, FlushFails
  <1>5. mem' = mem \/ mem'.size = 0
    BY DEF FlushCreate, FlushWrite, FlushCommit, FlushClear, FlushFails, fields, EmptyTable
  <1>6. cur = current /\ current \in 0..MaxManifest
    BY <1>2, Serving, Zenon DEF Tree, TypeOK
  <1>7. CASE man' = man /\ ver' = ver
    <2>1. OnDisk' = OnDisk
      BY <1>1, <1>7, Zenon DEF OnDisk
    <2> QED
      BY <1>1, <1>2, <1>3, <1>4, <1>5, <1>7, <2>1, ShelterJournals, Zenon
  <1>8. CASE FlushCommit
    <2>1. PICK edit : edit = FlushEdit(ver.next, seq)
      BY Zenon
    <2>2. /\ man' = [man EXCEPT ![current] = Append(man[current], edit)]
          /\ ver' = Apply(ver, edit) /\ pc = "commit"
      BY <1>6, <1>8, <2>1, Zenon DEF FlushCommit
    <2>3. edit \in Version /\ man[current] \in Seq(Version \cup {Torn}) /\ ver \in Version
      BY <2>1, EditsAre, Given, Zenon DEF TypeOK
    <2>4. edit \in Version \cup {Torn} /\ edit # Torn
      BY <2>3, TornIsNoRecord, Zenon
    <2>5. Whole(Append(man[current], edit))
      BY <1>3, <1>6, <2>3, <2>4, WholeAppend, Zenon
    <2>6. man'[current] = Append(man[current], edit)
              /\ \A n \in 0..MaxManifest : n # current => man'[n] = man[n]
      BY <1>6, <2>2, Zenon DEF TypeOK
    <2>7. \A n \in 0..MaxManifest : Whole(man'[n])
      BY <1>3, <2>5, <2>6, Zenon
    <2>8. Edited(OnDisk', ver, seq)
      BY <1>1, <1>2, <1>6, <2>1, <2>2, <2>7, ManAppend, Zenon
    <2>9. LiveFiles(ver') = LiveFiles(ver) \cup {ver.next}
      <3>1. LiveFiles(ver') = LiveFiles(ver) \cup LiveFiles(edit)
        BY <2>2, <2>3, ApplyIsVersion, Zenon
      <3>2. PICK q : q = <<ver.next>>
        BY Zenon
      <3>3. edit.runs = q
        BY <2>1, <3>2, Zenon DEF FlushEdit
      <3>4. {q[i] : i \in DOMAIN q} = {ver.next}
        BY <3>2
      <3> QED
        BY <3>1, <3>3, <3>4, Zenon DEF LiveFiles
    <2>10. LiveFiles(OnDisk') = LiveFiles(ver')
      BY <2>8, <2>9, Zenon DEF Edited
    <2> QED
      BY <1>1, <1>2, <1>4, <1>5, <2>7, <2>10, ShelterJournals, Zenon
  <1>9. ASSUME FlushFails
        PROVE  man' = man /\ ver' = ver
    <2>1. ASSUME NEW log \in FailedAppend(man[cur], FlushEdit(ver.next, seq)),
                 man' = [man EXCEPT ![cur] = log]
          PROVE  man' = man
      <3>1. log = man[cur]
        BY Zenon DEF Sheltered, FailedAppend
      <3>2. [man EXCEPT ![cur] = man[cur]] = man
        BY <1>6, SameLog, Zenon
      <3> QED
        BY <2>1, <3>1, <3>2, Zenon
    <2>2. \/ UNCHANGED man
          \/ \E log \in FailedAppend(man[cur], FlushEdit(ver.next, seq)) :
                man' = [man EXCEPT ![cur] = log]
      BY <1>9, Zenon DEF FlushFails
    <2>3. ver' = ver
      BY <1>9, Zenon DEF FlushFails, fields
    <2> QED
      BY <2>1, <2>2, <2>3, Zenon
  <1>10. ASSUME FlushCreate \/ FlushWrite \/ FlushClear
         PROVE  man' = man /\ ver' = ver
    BY <1>10, Zenon DEF FlushCreate, FlushWrite, FlushClear, fields
  <1> QED
    BY <1>7, <1>8, <1>9, <1>10, Zenon

\* The steps of a checkpoint on a sound disk.
LEMMA ShelterCheckpoint ==
    ASSUME CountFact, InductionFact, TypeOK, Tree, Shelter, UNCHANGED setting, Sheltered,
           CheckpointAppend \/ CheckpointSwitch \/ CheckpointFails
    PROVE  Shelter'
  <1>1. /\ pc \in {"idle", "ckpt"} /\ pc' \in {"idle", "ckpt"}
        /\ UNCHANGED <<seq, intact, calls, wal, mem, ver>>
    BY Zenon DEF CheckpointAppend, CheckpointSwitch, CheckpointFails, fields, history
  <1>2. Up /\ Up' /\ pc # "logged" /\ pc' # "logged"
    BY <1>1, Zenon DEF Up
  <1>3. /\ \A n \in 0..MaxManifest : Whole(man[n])
        /\ LiveFiles(OnDisk) = LiveFiles(ver)
    BY <1>2, Zenon DEF Shelter
  <1>4. cur = current /\ current \in 0..MaxManifest /\ current + 1 # current
    <2>1. cur = current
      BY <1>2, Zenon DEF Tree, Running
    <2>2. current \in 0..MaxManifest /\ current + 1 # current
      BY DEF TypeOK
    <2> QED
      BY <2>1, <2>2, Zenon
  <1>5. ver \in Version /\ Snapshot(ver) = ver
    BY EditsAre, Zenon DEF TypeOK
  <1>6. CASE CheckpointAppend
    <2>1. /\ man' = [man EXCEPT ![current + 1] = Append(man[current + 1], ver)]
          /\ current < MaxManifest /\ current' = current
      BY <1>4, <1>5, <1>6, Zenon DEF CheckpointAppend
    <2>2. current + 1 \in 0..MaxManifest /\ man[current + 1] \in Seq(Version \cup {Torn})
      BY <2>1, Given, Zenon
    <2>3. ver \in Version \cup {Torn} /\ ver # Torn
      BY <1>5, TornIsNoRecord, Zenon
    <2>4. Whole(Append(man[current + 1], ver))
      BY <1>3, <2>2, <2>3, WholeAppend, Zenon
    <2>5. man'[current + 1] = Append(man[current + 1], ver)
              /\ \A n \in 0..MaxManifest : n # current + 1 => man'[n] = man[n]
      BY <2>1, <2>2, Zenon DEF TypeOK
    <2>6. \A n \in 0..MaxManifest : Whole(man'[n])
      BY <1>3, <2>4, <2>5, Zenon
    <2>7. OnDisk' = OnDisk
      BY <1>4, <2>1, <2>5, Zenon DEF OnDisk
    <2> QED
      BY <1>1, <1>2, <1>3, <2>6, <2>7, ShelterJournals, Zenon
  <1>7. CASE CheckpointSwitch
    <2>1. man' = [man EXCEPT ![current] = <<>>] /\ current' = current + 1 /\ pc = "ckpt"
      BY <1>4, <1>7, Zenon DEF CheckpointSwitch
    <2>2. current < MaxManifest
      BY <1>4, <2>1, Zenon DEF TypeOK
    <2>3. current + 1 \in 0..MaxManifest
      BY <2>2, Given, Zenon
    <2>4. man'[current] = <<>> /\ \A n \in 0..MaxManifest : n # current => man'[n] = man[n]
      BY <1>4, <2>1, Zenon DEF TypeOK
    <2>5. Whole(<<>>)
      BY DEF Whole
    <2>6. \A n \in 0..MaxManifest : Whole(man'[n])
      BY <1>3, <2>4, <2>5, Zenon
    <2>7. OnDisk' = Upcoming
      BY <1>4, <2>1, <2>3, <2>4, Zenon DEF OnDisk, Upcoming
    <2>8. LiveFiles(Upcoming) = LiveFiles(ver)
      BY <1>2, <1>3, <2>1, <2>2, <2>3, Zenon DEF Tree, NextSide
    <2> QED
      BY <1>1, <1>2, <2>6, <2>7, <2>8, ShelterJournals, Zenon
  <1>8. CASE CheckpointFails
    <2>1. man' = man
      <3>1. ASSUME cur < MaxManifest, NEW log \in FailedAppend(man[cur + 1], Snapshot(ver)),
                   man' = [man EXCEPT ![cur + 1] = log]
            PROVE  man' = man
        <4>1. cur + 1 \in 0..MaxManifest
          BY <1>4, <3>1, Given, Zenon
        <4>2. log = man[cur + 1]
          BY Zenon DEF Sheltered, FailedAppend
        <4>3. [man EXCEPT ![cur + 1] = man[cur + 1]] = man
          BY <4>1, SameLog, Zenon
        <4> QED
          BY <3>1, <4>2, <4>3, Zenon
      <3>2. \/ UNCHANGED man
            \/ /\ cur < MaxManifest
               /\ \E log \in FailedAppend(man[cur + 1], Snapshot(ver)) :
                     man' = [man EXCEPT ![cur + 1] = log]
        BY <1>8, Zenon DEF CheckpointFails
      <3> QED
        BY <3>1, <3>2, Zenon
    <2>2. OnDisk' = OnDisk
      BY <1>8, <2>1, Zenon DEF OnDisk, CheckpointFails
    <2> QED
      BY <1>1, <1>2, <1>3, <2>1, <2>2, ShelterJournals, Zenon
  <1> QED
    BY <1>6, <1>7, <1>8, Zenon

\* A crash of a sound disk leaves whole journals.
LEMMA ShelterCrash ==
    ASSUME CountFact, InductionFact, TypeOK, Tree, Shelter, UNCHANGED setting, Sheltered, Crash
    PROVE  Shelter'
  <1>1. Up /\ ~Up' /\ pc' = "down" /\ UNCHANGED <<current, sst, intact, calls>>
    BY Zenon DEF Crash, Up
  <1>2. PICK o \in CrashOutcomes : wal' = o[1] /\ man' = o[2]
    BY Zenon DEF Crash
  <1>3. setting.faults = {}
    BY Zenon DEF Sheltered
  <1>4. o = <<wal, man>> \/ o = <<(<<>>), man>>
    BY <1>3, CrashIs, Zenon
  <1>5. man' = man /\ (wal' = wal \/ wal' = <<>>)
    BY <1>2, <1>4
  <1>6. setting.capacity \in Nat /\ calls \in Nat
    BY Given, LsmAssumption DEF TypeOK
  <1>7. /\ intact
        /\ Fits(setting.capacity, wal, calls)
        /\ \A n \in 0..MaxManifest : Whole(man[n])
        /\ LiveFiles(OnDisk) = LiveFiles(ver)
    BY <1>1, Zenon DEF Shelter
  <1>8. Fits(setting.capacity, wal', calls)
    BY <1>5, <1>6, <1>7, FitsNone, Zenon
  <1>9. OnDisk' = OnDisk
    BY <1>1, <1>5, Zenon DEF OnDisk
  <1>10. Layers(sst, mem.map, ver)
    BY <1>1, Serving, Zenon DEF Tree
  <1>11. \A id \in LiveFiles(OnDisk) : sst[id].state = "ok"
    BY <1>7, <1>10, Zenon DEF Layers
  <1> QED
    BY <1>1, <1>5, <1>7, <1>8, <1>9, <1>11, Zenon DEF Shelter

-----------------------------------------------------------------------------
(* The invariant holds at first, and every step preserves it.              *)

\* An empty directory.
LEMMA InitInv ==
    ASSUME CountFact, InductionFact, Init
    PROVE  IInv
  <1>1. /\ setting \in Settings /\ wal = <<>> /\ man = [n \in 0..MaxManifest |-> <<>>] /\ current = 0
        /\ sst = [id \in 0..(MaxSst - 1) |-> NoFile] /\ mem = EmptyTable(setting.capacity)
        /\ ver = EmptyVersion /\ cur = 0 /\ seq = 0 /\ pc = "down" /\ intact = TRUE
        /\ acked = [k \in Keys |-> NoValue] /\ calls = 0 /\ faults = 0
    BY Zenon DEF Init
  <1>2. setting.capacity \in Nat /\ MaxManifest \in Nat /\ MaxCalls \in Nat
    BY <1>1, LsmAssumption, Zenon
  <1>3. ~Up /\ current \in 0..MaxManifest /\ man[current] = <<>>
    BY <1>1, <1>2 DEF Up
  <1>4. TypeOK
    <2>1. mem \in Tables(setting.capacity) /\ mem.full = FALSE
      BY <1>1, <1>2, EmptyIsTable, Zenon DEF EmptyTable
    <2>2. sst \in Disks
      BY <1>1, Zenon DEF Disks, File, NoFile
    <2>3. wal \in Seq(Entry \cup {Torn})
      BY <1>1
    <2>4. man \in [0..MaxManifest -> Seq(Version \cup {Torn})]
      <3>1. <<>> \in Seq(Version \cup {Torn})
        OBVIOUS
      <3> QED
        BY <1>1, <3>1, Zenon
    <2>5. ver \in Version
      BY <1>1, EmptyIsVersion, Zenon
    <2>6. pc \in {"down", "idle", "logged", "sst", "commit", "clear", "ckpt"}
              /\ pc # "logged" /\ pc # "ckpt"
      BY <1>1, Zenon
    <2>7. cur \in 0..MaxManifest /\ seq \in Nat /\ intact \in BOOLEAN /\ calls \in 0..MaxCalls
              /\ faults \in Nat
      BY <1>1, <1>2
    <2> QED
      BY <1>1, <1>3, <2>1, <2>2, <2>3, <2>4, <2>5, <2>6, <2>7, Zenon DEF TypeOK
  <1>5. Sound(setting.capacity, wal) /\ Kept.map = {}
    BY <1>1, <1>2, SoundNone, Zenon DEF Kept
  <1>6. OnDisk = EmptyVersion /\ LiveFiles(OnDisk) = {}
    BY <1>3, FoldNone, EmptyIsVersion, Zenon DEF OnDisk
  <1>7. Resting
    <2>1. Content(sst, Kept.map, OnDisk) = {}
      BY <1>5, <1>6, Zenon DEF Content, Files
    <2>2. Layers(sst, Kept.map, OnDisk)
      <3>1. InOrder(OnDisk.runs) /\ OnDisk.next <= MaxSst
        BY <1>6, LsmAssumption DEF EmptyVersion, InOrder
      <3> QED
        BY <1>6, <2>1, <3>1, Zenon DEF Layers, OneVersion
    <2>3. acked = [k \in Keys |-> Value(Content(sst, Kept.map, OnDisk), k)]
      BY <1>1, <2>1, ValueNone, Zenon
    <2>4. ASSUME current < MaxManifest
          PROVE  LiveFiles(Upcoming) = {}
      <3>1. man[current + 1] = <<>>
        BY <1>1, <1>2, <2>4
      <3> QED
        BY <3>1, FoldNone, EmptyIsVersion, Zenon DEF Upcoming
    <2> QED
      BY <2>1, <2>2, <2>3, <2>4, Zenon DEF Resting
  <1>8. NextSide
    BY <1>1, <1>3, Zenon DEF NextSide
  <1>9. Tree
    BY <1>3, <1>5, <1>7, <1>8, Zenon DEF Tree, Running, WalSide, ManSide
  <1>10. Shelter
    <2>1. Fits(setting.capacity, wal, calls)
      BY <1>1, <1>2, FitsNone, Zenon
    <2>2. \A n \in 0..MaxManifest : Whole(man[n])
      BY <1>1 DEF Whole
    <2> QED
      BY <1>1, <1>3, <1>6, <2>1, <2>2, Zenon DEF Shelter
  <1> QED
    BY <1>4, <1>9, <1>10, Zenon DEF IInv

\* Every step of the program is one of these.
LEMMA NextSplit ==
    ASSUME Next
    PROVE  /\ UNCHANGED setting
           /\ \/ Open
              \/ \E e \in Writes : WriteLog(e) \/ WriteLogFails(e)
              \/ WriteApply \/ WriteFull
              \/ FlushCreate \/ FlushWrite \/ FlushCommit \/ FlushClear \/ FlushFails
              \/ CheckpointAppend \/ CheckpointSwitch \/ CheckpointFails
              \/ Crash
  BY Zenon DEF Next

\* Every step keeps the types.
LEMMA NextType ==
    ASSUME MaxFact, CountFact, InductionFact, TypeOK, Next
    PROVE  TypeOK'
  BY NextSplit, TypeCalls, TypeFlush, TypeRest, Zenon

\* Only an open can meet damaged files.
LEMMA NextTree ==
    ASSUME MaxFact, CountFact, InductionFact, TypeOK, intact => Tree, Next, intact'
    PROVE  Tree'
  <1>1. UNCHANGED setting
    BY NextSplit, Zenon
  <1>2. CASE Open
    <2>1. intact /\ ~Damaged
      BY <1>2, Zenon DEF Open, TypeOK
    <2> QED
      BY <1>1, <1>2, <2>1, TreeOpen, Zenon
  <1>3. ASSUME ~Open
        PROVE  Tree'
    <2>1. \/ \E e \in Writes : WriteLog(e) \/ WriteLogFails(e)
          \/ WriteApply \/ WriteFull
          \/ FlushCreate \/ FlushWrite \/ FlushCommit \/ FlushClear \/ FlushFails
          \/ CheckpointAppend \/ CheckpointSwitch \/ CheckpointFails
          \/ Crash
      BY <1>3, NextSplit, Zenon
    <2>2. intact
      BY <2>1, Zenon DEF WriteLog, WriteLogFails, WriteApply, WriteFull, FlushCreate, FlushWrite,
         FlushCommit, FlushClear, FlushFails, CheckpointAppend, CheckpointSwitch, CheckpointFails,
         Crash, history
    <2> QED
      BY <1>1, <2>1, <2>2, TreeWriteLog, TreeWriteLogFails, TreeWriteApply, TreeWriteFull,
         TreeFlushCreate, TreeFlushWrite, TreeFlushCommit, TreeFlushClear, TreeFlushFails,
         TreeCheckpointAppend, TreeCheckpointSwitch, TreeCheckpointFails, TreeCrash, Zenon
  <1> QED
    BY <1>2, <1>3, Zenon

\* Every step keeps the invariant of a sound disk.
LEMMA NextShelter ==
    ASSUME MaxFact, CountFact, InductionFact, IInv, Next
    PROVE  Shelter'
  <1>1. UNCHANGED setting /\ (Sheltered' <=> Sheltered)
    BY NextSplit, Zenon DEF Sheltered
  <1>2. CASE ~Sheltered
    BY <1>1, <1>2, Zenon DEF Shelter
  <1>3. CASE Sheltered
    <2>1. TypeOK /\ Tree /\ Shelter
      BY <1>3, Zenon DEF IInv, Shelter
    <2> QED
      BY <1>1, <1>3, <2>1, NextSplit, ShelterWrites, ShelterCalls, ShelterFlush,
         ShelterCheckpoint, ShelterCrash, Zenon
  <1> QED
    BY <1>2, <1>3, Zenon

\* Every step keeps the inductive invariant.
LEMMA NextInv ==
    ASSUME MaxFact, CountFact, InductionFact, IInv, [Next]_vars
    PROVE  IInv'
  <1>1. CASE Next
    BY <1>1, NextType, NextTree, NextShelter, Zenon DEF IInv
  <1>2. CASE UNCHANGED vars
    <2>1. /\ UNCHANGED <<setting, wal, man, current, sst, mem, ver, cur, seq, pc>>
          /\ UNCHANGED <<arg, acked, doubt, intact, calls, faults>>
      BY <1>2, Zenon DEF vars, files, fields, history
    <2>2. UNCHANGED <<Up, Kept, OnDisk, Upcoming, Damaged, Sheltered>>
      BY <2>1, Zenon DEF Up, Kept, OnDisk, Upcoming, Damaged, Sheltered
    <2>3. TypeOK'
      BY <2>1, Zenon DEF IInv, TypeOK
    <2>4. intact' => Tree'
      BY <2>1, <2>2, Zenon DEF IInv, Tree, Running, WalSide, ManSide, NextSide, Resting
    <2>5. Shelter'
      BY <2>1, <2>2, Zenon DEF IInv, Shelter
    <2> QED
      BY <2>3, <2>4, <2>5, Zenon DEF IInv
  <1> QED
    BY <1>1, <1>2, Zenon

-----------------------------------------------------------------------------
(* What follows from the invariant.                                        *)

\* Lsm::get and Lsm::scan find the acknowledged values.
LEMMA ReadsFind ==
    ASSUME MaxFact, CountFact, InductionFact, IInv, Up, intact, NEW k \in Keys
    PROVE  /\ Get(mem.map, ver.runs, seq, k) = acked[k]
           /\ Scan(mem.map, ver.runs, seq, k) = acked[k]
  <1>1. TypeOK /\ Running
    BY Zenon DEF IInv, Tree
  <1>2. /\ sst \in Disks /\ mem.map \in SUBSET Entry /\ ver \in Version /\ seq \in Nat
    BY <1>1, Given, Zenon DEF TypeOK
  <1>3. /\ Layers(sst, mem.map, ver)
        /\ \A e \in Content(sst, mem.map, ver) : e.seq <= seq
        /\ acked = [j \in Keys |-> Value(Content(sst, mem.map, ver), j)]
    BY <1>1, Zenon DEF Running, Serves
  <1>4. acked[k] = Value(Content(sst, mem.map, ver), k)
    BY <1>3, Zenon
  <1>5. Get(mem.map, ver.runs, seq, k) = Value(Content(sst, mem.map, ver), k)
    BY <1>2, <1>3, GetIs, Zenon
  <1>6. \A id \in LiveFiles(ver) : sst[id].state = "ok"
    BY <1>3, Zenon DEF Layers
  <1>7. Scan(mem.map, ver.runs, seq, k) = At(Content(sst, mem.map, ver), k, seq)
    BY <1>6, ScanIs
  <1>8. At(Content(sst, mem.map, ver), k, seq) = Value(Content(sst, mem.map, ver), k)
    BY <1>3, AtIsValue, Zenon
  <1> QED
    BY <1>4, <1>5, <1>7, <1>8, Zenon

\* What was acknowledged is a function of the keys.
LEMMA AckedIs ==
    ASSUME IInv, Up, intact
    PROVE  acked = [k \in Keys |-> acked[k]]
  BY Zenon DEF IInv, Tree, Running, Serves

\* The layers serve get and scan alike, with the acknowledged values.
LEMMA ReadsAre ==
    ASSUME MaxFact, CountFact, InductionFact, IInv
    PROVE  ReadsAcked /\ GetScanAgree
  <1>1. ASSUME Up, intact
        PROVE  Live = acked
    BY <1>1, ReadsFind, AckedIs, Zenon DEF Live
  <1>2. ASSUME Up, intact, NEW k \in Keys
        PROVE  Get(mem.map, ver.runs, seq, k) = Scan(mem.map, ver.runs, seq, k)
    BY <1>2, ReadsFind, Zenon
  <1> QED
    BY <1>1, <1>2, Zenon DEF ReadsAcked, GetScanAgree

\* Two layers with the same slot hold the same entry, and none is ahead of seq.
LEMMA VersionsAre ==
    ASSUME IInv
    PROVE  VersionsUnique
  <1> SUFFICES ASSUME Up, intact
               PROVE  LET all == mem.map \cup UNION {sst[id].kvs : id \in LiveFiles(ver)}
                      IN  /\ \A e, f \in all : SameSlot(e, f) => e = f
                          /\ \A e \in all : e.seq <= seq
    BY Zenon DEF VersionsUnique
  <1>1. Serves(sst, mem.map, ver, seq, acked)
    BY Zenon DEF IInv, Tree, Running
  <1> QED
    BY <1>1, Zenon DEF Serves, Layers, OneVersion, Content, Files

\* An open that lost a write met damage.
LEMMA LossIs ==
    ASSUME MaxFact, CountFact, InductionFact, IInv
    PROVE  LostOnlyIfDamaged
  <1>1. ASSUME Up, intact, ~Damaged, NEW k \in Keys
        PROVE  Recovered[k] = acked[k] \/ <<k, Recovered[k]>> \in doubt
    <2>1. TypeOK /\ Tree
      BY <1>1, Zenon DEF IInv
    <2>2. /\ Replays(setting.capacity, wal) /\ Whole(man[current])
          /\ \A id \in LiveFiles(OnDisk) : sst[id].state = "ok"
      BY <1>1, DamagedIs, Zenon
    <2>3. PICK log : log = wal
      BY Zenon
    <2>4. Replays(setting.capacity, log)
      BY <2>2, <2>3, Zenon
    <2>5. Finds(Recover(setting.capacity, log).map, OnDisk, RecoveredFrom(log, man[current]))
      BY <1>1, <2>1, <2>2, <2>3, <2>4, CrashFinds, Zenon
    <2>6. PICK found : found = RecoveredFrom(log, man[current])
      BY Zenon
    <2>7. found[k] = acked[k] \/ <<k, found[k]>> \in doubt
      BY <1>1, <2>5, <2>6, Zenon DEF Finds
    <2> QED
      BY <2>3, <2>6, <2>7, Zenon DEF Recovered
  <1> QED
    BY <1>1, Zenon DEF LostOnlyIfDamaged

\* The write that is applied is the newest version.
LEMMA ApplyAdds ==
    ASSUME CountFact, InductionFact, TypeOK, Tree, WriteApply
    PROVE  arg.seq = seq + 1 /\ Content(sst, mem'.map, ver) = Content(sst, mem.map, ver) \cup {arg}
  <1>1. pc = "logged" /\ Up /\ ~TablePut(mem, arg).full /\ mem' = TablePut(mem, arg)
    BY Zenon DEF WriteApply, Up
  <1>2. /\ Layers(sst, mem.map, ver)
        /\ mem.map \in SUBSET Entry
        /\ \A e \in Content(sst, mem.map, ver) : e.seq <= seq /\ e.seq \in Nat
    BY <1>1, Serving, Zenon DEF Tree
  <1>3. ver \in Version /\ seq \in Nat /\ sst \in Disks /\ mem \in Tables(setting.capacity)
            /\ setting.capacity \in Nat
    BY Given, Zenon DEF TypeOK
  <1>4. PICK disk, M, v, a : disk = sst /\ M = mem.map /\ v = ver /\ a = arg
    BY Zenon
  <1>5. a \in Entry /\ WellFormed(a) /\ a.seq = seq + 1
    BY <1>1, <1>4, Zenon DEF Tree, Running, TypeOK
  <1>6. /\ disk \in Disks /\ M \in SUBSET Entry /\ v \in Version /\ Layers(disk, M, v)
        /\ a \in Entry /\ WellFormed(a) /\ \A f \in Content(disk, M, v) : f.seq < a.seq
    BY <1>2, <1>3, <1>4, <1>5
  <1>7. Added(disk, M, a, v)
    BY <1>6, LayersAdd, Zenon
  <1>8. mem'.map = M \cup {a}
    BY <1>1, <1>3, <1>4, <1>5, <1>7, PutIsTable, Zenon DEF Added
  <1> QED
    BY <1>4, <1>5, <1>7, <1>8, Zenon DEF Added

\* What the open tree holds stays, but for the write that is applied.
LEMMA ContentStep ==
    ASSUME CountFact, InductionFact, TypeOK, Tree, Next, Up, Up', NEW C, NEW C2,
           C = Content(sst, mem.map, ver), C2 = Content(sst', mem'.map, ver')
    PROVE  \A x : x.seq <= seq => (x \in C2 <=> x \in C)
  <1>1. UNCHANGED setting
    BY NextSplit, Zenon
  <1>2. /\ Layers(sst, mem.map, ver)
        /\ mem.map \in SUBSET Entry
        /\ Files(sst, ver) \in SUBSET Entry
        /\ \A e \in Content(sst, mem.map, ver) : e.seq <= seq /\ e.seq \in Nat
    BY Serving, Zenon DEF Tree
  <1>3. ver \in Version /\ seq \in Nat /\ sst \in Disks /\ mem \in Tables(setting.capacity)
            /\ setting.capacity \in Nat
    BY Given, Zenon DEF TypeOK
  <1>4. CASE UNCHANGED <<sst, mem, ver>>
    BY <1>4, Zenon
  <1>5. CASE WriteApply
    <2>1. PICK a : a = arg
      BY Zenon
    <2>2. a.seq = seq + 1 /\ C2 = C \cup {a}
      BY <1>1, <1>5, <2>1, ApplyAdds, Zenon DEF WriteApply, files
    <2>3. ~(a.seq <= seq)
      BY <1>3, <2>2
    <2> QED
      BY <2>2, <2>3, Zenon
  <1>6. CASE FlushCreate \/ FlushWrite
    <2>1. PICK f : sst' = [sst EXCEPT ![ver.next] = f]
      BY <1>6, Zenon DEF FlushCreate, FlushWrite
    <2>2. Files(sst', ver) = Files(sst, ver)
      BY <2>1, NewFile, Zenon DEF Tree
    <2>3. UNCHANGED <<mem, ver>>
      BY <1>6, Zenon DEF FlushCreate, FlushWrite, fields
    <2> QED
      BY <2>2, <2>3, Zenon DEF Content
  <1>7. CASE FlushCommit
    <2>1. ver' = Apply(ver, FlushEdit(ver.next, seq)) /\ UNCHANGED <<sst, mem>> /\ pc = "commit"
      BY <1>7, Zenon DEF FlushCommit
    <2>2. ver.next < MaxSst /\ sst[ver.next] = [state |-> "ok", kvs |-> mem.map]
      BY <2>1, Zenon DEF Tree, Running
    <2>3. Content(sst, mem.map, Apply(ver, FlushEdit(ver.next, seq)))
              = Content(sst, mem.map, ver)
      <3>1. PICK disk, M, v, s : disk = sst /\ M = mem.map /\ v = ver /\ s = seq
        BY Zenon
      <3>2. M \in SUBSET Entry /\ v \in Version /\ Layers(disk, M, v) /\ s \in Nat
                /\ v.next < MaxSst /\ disk[v.next] = [state |-> "ok", kvs |-> M]
        BY <1>2, <1>3, <2>2, <3>1, Zenon
      <3>3. Content(disk, M, Apply(v, FlushEdit(v.next, s))) = Content(disk, M, v)
        BY <3>2, LayersFlush, Zenon
      <3> QED
        BY <3>1, <3>3, Zenon
    <2> QED
      BY <2>1, <2>3, Zenon
  <1>8. CASE FlushClear
    <2>1. mem' = EmptyTable(setting.capacity) /\ UNCHANGED <<sst, ver>> /\ pc = "clear"
      BY <1>8, Zenon DEF FlushClear
    <2>2. mem'.map = {} /\ mem.map \in SUBSET Files(sst, ver)
      BY <2>1, Zenon DEF Tree, Running, EmptyTable
    <2>3. Content(sst, {}, ver) = Content(sst, mem.map, ver)
      BY <1>2, <2>2, LayersClear, Zenon
    <2> QED
      BY <2>1, <2>2, <2>3, Zenon
  <1>9. ASSUME Open \/ Crash
        PROVE  FALSE
    BY <1>9, Zenon DEF Open, Crash, Up
  <1>10. ASSUME \/ \E e \in Writes : WriteLog(e) \/ WriteLogFails(e)
                \/ WriteFull \/ FlushFails
                \/ CheckpointAppend \/ CheckpointSwitch \/ CheckpointFails
         PROVE  UNCHANGED <<sst, mem, ver>>
    BY <1>10, Zenon DEF WriteLog, WriteLogFails, WriteFull, FlushFails, CheckpointAppend,
       CheckpointSwitch, CheckpointFails, files, fields
  <1> QED
    BY <1>4, <1>5, <1>6, <1>7, <1>8, <1>9, <1>10, NextSplit, Zenon

\* A scan as of an earlier seq does not see entries with later ones.
LEMMA AtSame ==
    ASSUME NEW C, NEW C2, NEW s \in Nat, NEW t \in 0..s, NEW k,
           \A e \in C \cup C2 : e.seq \in Nat,
           \A x : x.seq <= s => (x \in C2 <=> x \in C)
    PROVE  At(C2, k, t) = At(C, k, t)
  <1>1. Versions(C2, k, t) = Versions(C, k, t)
    BY DEF Versions
  <1> QED
    BY <1>1, Zenon DEF At

\* A step of the process leaves the scans as of an earlier seq.
LEMMA ScanStep ==
    ASSUME MaxFact, CountFact, InductionFact, IInv, IInv', Next, Up, Up', intact,
           NEW k \in Keys, NEW s \in 0..seq
    PROVE  Scan(mem.map, ver.runs, s, k)' = Scan(mem.map, ver.runs, s, k)
  <1>1. TypeOK /\ Tree
    BY Zenon DEF IInv
  <1>2. intact'
    <2>1. ~Open
      BY Zenon DEF Open, Up
    <2> QED
      BY <2>1, NextSplit, Zenon DEF WriteLog, WriteLogFails, WriteApply, WriteFull, FlushCreate,
         FlushWrite, FlushCommit, FlushClear, FlushFails, CheckpointAppend, CheckpointSwitch,
         CheckpointFails, Crash, history
  <1>3. TypeOK' /\ Running'
    BY <1>2, Zenon DEF IInv, Tree
  <1>4. PICK disk2, M2, v2, C, C2 :
            /\ disk2 = sst' /\ M2 = mem'.map /\ v2 = ver'
            /\ C = Content(sst, mem.map, ver) /\ C2 = Content(disk2, M2, v2)
    BY Zenon
  <1>5. /\ \A id \in LiveFiles(ver) : sst[id].state = "ok"
        /\ \A e \in C : e.seq \in Nat
    BY <1>1, <1>4, Serving, Zenon DEF Tree, Layers
  <1>6. Layers(disk2, M2, v2)
    BY <1>3, <1>4, Zenon DEF Running, Serves
  <1>7. /\ \A id \in LiveFiles(v2) : disk2[id].state = "ok" /\ id < v2.next
        /\ v2.next <= MaxSst
    BY <1>6, Zenon DEF Layers
  <1>8. \A e \in C2 : e.seq \in Nat
    <2>1. disk2 \in Disks /\ M2 \in SUBSET Entry /\ v2 \in Version
      BY <1>3, <1>4, Zenon DEF TypeOK, Tables, Table
    <2>2. C2 \in SUBSET Entry
      BY <1>4, <1>7, <2>1, ContentType, Zenon
    <2> QED
      BY <2>2, Zenon DEF Entry
  <1>9. \A x : x.seq <= seq => (x \in C2 <=> x \in C)
    BY <1>1, <1>4, ContentStep
  <1>10. At(C2, k, s) = At(C, k, s)
    <2>1. seq \in Nat
      BY <1>1, Zenon DEF TypeOK
    <2> QED
      BY <1>5, <1>8, <1>9, <2>1, AtSame
  <1>11. Scan(mem.map, ver.runs, s, k) = At(C, k, s)
    BY <1>4, <1>5, ScanIs
  <1>12. Scan(mem.map, ver.runs, s, k)' = At(C2, k, s)
    <2>1. UNION {disk2[v2.runs[i]].kvs : i \in DOMAIN v2.runs} = Files(disk2, v2)
      BY RunsFiles, Zenon
    <2>2. ~\E i \in DOMAIN v2.runs : disk2[v2.runs[i]].state # "ok"
      BY <1>7, RunsFiles, Zenon
    <2>3. UNION {sst'[ver'.runs[i]].kvs : i \in DOMAIN ver'.runs} = Files(disk2, v2)
      BY <1>4, <2>1, Zenon
    <2>4. ~\E i \in DOMAIN ver'.runs : sst'[ver'.runs[i]].state # "ok"
      BY <1>4, <2>2, Zenon
    <2>5. mem'.map \cup Files(disk2, v2) = C2
      BY <1>4, Zenon DEF Content
    <2>6. Scan(mem.map, ver.runs, s, k)' =
              IF Versions(C2, k, s) = {} THEN NoValue ELSE Resolve(NewestOf(Versions(C2, k, s)))
      BY <2>3, <2>4, <2>5, Zenon DEF Scan
    <2> QED
      BY <2>6, Zenon DEF At
  <1> QED
    BY <1>10, <1>11, <1>12, Zenon

-----------------------------------------------------------------------------
(* Every step of the tree is a step of the durable map.                    *)

\* What the layers hold for a key is a value that was put, or none.
LEMMA ValueType ==
    ASSUME MaxFact, NEW S \in SUBSET Entry, \A e \in S : WellFormed(e),
           NEW b \in Nat, \A e \in S : e.seq <= b, NEW k
    PROVE  Value(S, k) \in Vals \cup {NoValue}
  <1> DEFINE V == {e \in S : e.key = k}
  <1>1. CASE V = {}
    BY <1>1, Zenon DEF Value
  <1>2. CASE V # {}
    <2>1. V \in SUBSET Entry /\ \A e \in V : e.seq <= b
      BY Zenon
    <2> HIDE DEF V
    <2>2. NewestOf(V) \in V
      BY <1>2, <2>1, Newest, Zenon
    <2>3. Value(S, k) = Resolve(NewestOf(V))
      BY <1>2, Zenon DEF Value, V
    <2>4. WellFormed(NewestOf(V))
      BY <2>2, Zenon DEF V
    <2> QED
      BY <2>3, <2>4, Zenon DEF Resolve, WellFormed
  <1> QED
    BY <1>1, <1>2, Zenon

\* An entry stands for a value of its key or for none.
LEMMA ResolveType ==
    ASSUME NEW e \in Entry, WellFormed(e)
    PROVE  e.key \in Keys /\ Resolve(e) \in Vals \cup {NoValue}
  BY Zenon DEF Entry, Resolve, WellFormed

\* What an open finds after a crash are values.
LEMMA FoundType ==
    ASSUME MaxFact, CountFact, InductionFact, TypeOK, NEW t \in Tables(setting.capacity),
           NEW found, Finds(t.map, OnDisk, found)
    PROVE  found \in [Keys -> Vals \cup {NoValue}]
  <1>1. PICK M, D : M = t.map /\ D = OnDisk
    BY Zenon
  <1>2. M \in SUBSET Entry /\ D \in Version /\ D.last \in Nat /\ sst \in Disks
    BY <1>1, Given, Zenon DEF TypeOK, Tables, Table, Version
  <1>3. PICK b \in Nat : \A e \in M : e.seq <= b
    BY <1>1, Zenon DEF Tables
  <1>4. PICK C : C = Content(sst, M, D)
    BY Zenon
  <1>5. /\ Layers(sst, M, D)
        /\ \A e \in C : e.seq <= D.last \/ \E f \in M : e.seq <= f.seq
        /\ found = [k \in Keys |-> Value(C, k)]
    BY <1>1, <1>4, Zenon DEF Finds
  <1>6. /\ \A id \in LiveFiles(D) : id < D.next
        /\ D.next <= MaxSst
        /\ \A e \in C : WellFormed(e)
    BY <1>4, <1>5, Zenon DEF Layers
  <1>7. C \in SUBSET Entry
    BY <1>2, <1>4, <1>6, ContentType, Zenon
  <1>8. \A e \in C : e.seq <= D.last + b
    <2>1. \A e \in C \cup M : e.seq \in Nat
      BY <1>2, <1>7, Zenon DEF Entry
    <2> QED
      BY <1>2, <1>3, <1>5, <2>1
  <1>9. D.last + b \in Nat
    BY <1>2, <1>3
  <1>10. \A k \in Keys : Value(C, k) \in Vals \cup {NoValue}
    BY <1>6, <1>7, <1>8, <1>9, ValueType, Zenon
  <1> QED
    BY <1>5, <1>10, Zenon

\* A crash on a sound disk leaves sound files.
LEMMA ShelteredCrash ==
    Shelter' /\ TypeOK' /\ Sheltered' /\ ~Up' => ~Damaged'
  <1>1. Shelter /\ TypeOK /\ Sheltered /\ ~Up => ~Damaged
    BY ShelterWhole, Zenon
  <1> QED
    BY <1>1, PTL

\* Every step of the tree is one of the abstract store, or leaves it alone.
LEMMA KvStep ==
    ASSUME MaxFact, CountFact, InductionFact, IInv, IInv', Next,
           Sheltered \/ (intact /\ (Up' \/ ~Damaged'))
    PROVE  Kv!Next \/ UNCHANGED Kv!kvars
  <1>1. TypeOK /\ Tree /\ UNCHANGED setting /\ Up \in BOOLEAN /\ Up' \in BOOLEAN
    BY NextSplit, Zenon DEF IInv, Shelter, Up
  <1>2. CASE Open
    <2>1. ~Up /\ Up' = TRUE /\ UNCHANGED <<acked, doubt>>
      BY <1>2, Zenon DEF Open, Up
    <2> QED
      BY <2>1, Zenon DEF Kv!Next, Kv!Open
  <1>3. ASSUME NEW e \in Writes, WriteLog(e) \/ WriteLogFails(e)
        PROVE  Kv!Next
    <2>1. e.key \in Keys /\ Resolve(e) \in Vals \cup {NoValue}
      BY <1>1, WritesAre, ResolveType, Zenon
    <2>2. Up /\ Up' /\ doubt' = doubt \cup {<<e.key, Resolve(e)>>} /\ UNCHANGED acked
      BY <1>3, Zenon DEF WriteLog, WriteLogFails, Up, Written
    <2>3. Kv!Attempt(e.key, Resolve(e))
      BY <1>1, <2>2, Zenon DEF Kv!Attempt
    <2> QED
      BY <2>1, <2>3, Zenon DEF Kv!Next
  <1>4. CASE WriteApply
    <2>1. pc = "logged" /\ Up /\ Up'
      BY <1>4, Zenon DEF WriteApply, Up
    <2>2. arg \in Entry /\ WellFormed(arg) /\ <<arg.key, Resolve(arg)>> \in doubt
      BY <1>1, <2>1, Zenon DEF Tree, Running, TypeOK, Written
    <2>3. arg.key \in Keys /\ Resolve(arg) \in Vals \cup {NoValue}
      BY <2>2, ResolveType, Zenon
    <2>4. /\ acked' = [acked EXCEPT ![arg.key] = Resolve(arg)]
          /\ doubt' = {d \in doubt : d[1] # arg.key}
      BY <1>4, Zenon DEF WriteApply
    <2>5. Kv!Acknowledge(arg.key, Resolve(arg))
      BY <1>1, <2>1, <2>2, <2>4, Zenon DEF Kv!Acknowledge
    <2> QED
      BY <2>3, <2>5, Zenon DEF Kv!Next
  <1>5. CASE \/ WriteFull \/ FlushCreate \/ FlushWrite \/ FlushCommit \/ FlushClear \/ FlushFails
             \/ CheckpointAppend \/ CheckpointSwitch \/ CheckpointFails
    <2>1. UNCHANGED <<acked, doubt>>
      BY <1>5, Zenon DEF WriteFull, FlushCreate, FlushWrite, FlushCommit, FlushClear, FlushFails,
         CheckpointAppend, CheckpointSwitch, CheckpointFails, history
    <2>2. Up /\ Up'
      BY <1>5, Zenon DEF WriteFull, FlushCreate, FlushWrite, FlushCommit, FlushClear, FlushFails,
         CheckpointAppend, CheckpointSwitch, CheckpointFails, Up
    <2> QED
      BY <1>1, <2>1, <2>2, Zenon DEF Kv!kvars
  <1>6. CASE Crash
    <2>1. Up /\ ~Up' /\ doubt' = {}
      BY <1>6, Zenon DEF Crash, Up
    <2>2. ~Damaged'
      BY <1>1, <2>1, ShelteredCrash, Zenon DEF IInv, Sheltered
    <2>3. Finds(Kept'.map, OnDisk, acked')
      BY <1>1, <1>6, <2>2, CrashKeeps, Zenon
    <2>4. Kept' \in Tables(setting.capacity)
      <3>1. setting.capacity \in Nat /\ wal' \in Seq(Entry \cup {Torn})
        BY <1>1, Given, Zenon DEF IInv, TypeOK
      <3> QED
        BY <1>1, <3>1, RecoverType, Zenon DEF Kept
    <2>5. acked' \in [Keys -> Vals \cup {NoValue}]
      <3>1. PICK t, found : t = Kept' /\ found = acked'
        BY Zenon
      <3>2. t \in Tables(setting.capacity) /\ Finds(t.map, OnDisk, found)
        BY <2>3, <2>4, <3>1, Zenon
      <3> QED
        BY <1>1, <3>1, <3>2, FoundType, Zenon
    <2>6. \A k \in Keys : acked'[k] = acked[k] \/ <<k, acked'[k]>> \in doubt
      BY <2>3, Zenon DEF Finds
    <2> QED
      BY <1>1, <2>1, <2>5, <2>6, Zenon DEF Kv!Next, Kv!Crash
  <1> QED
    BY <1>2, <1>3, <1>4, <1>5, <1>6, NextSplit, Zenon

-----------------------------------------------------------------------------
(* The theorems.                                                           *)

Numbers == INSTANCE CountingProofs

\* The facts about numbers that the lemmas above have as hypotheses.
LEMMA Facts ==
    MaxFact /\ CountFact /\ InductionFact
  <1>1. Numbers!CountingFacts
    BY Numbers!CountingHolds, Zenon
  <1>2. MaxFact
    BY <1>1, Zenon DEF Numbers!CountingFacts, Numbers!MaxFact, MaxFact, Numbers!Max, Max
  <1>3. InductionFact
    BY <1>1, Zenon DEF Numbers!CountingFacts, Numbers!InductionFact, InductionFact
  <1>4. \A S : Numbers!IsFiniteSet(S) <=> IsFiniteSet(S)
    BY Zenon DEF Numbers!IsFiniteSet, IsFiniteSet
  <1>5. \A S : Numbers!Cardinality(S) = Cardinality(S)
    BY <1>4, Zenon DEF Numbers!Cardinality, Cardinality, Numbers!IsFiniteSet,
       IsFiniteSet
  <1>6. CountFact
    BY <1>1, <1>4, <1>5, Zenon DEF Numbers!CountingFacts, Numbers!CountFact, CountFact
  <1> QED
    BY <1>2, <1>3, <1>6, Zenon

(***************************************************************************)
(* crates/lsm: the memtable, the version, the two journals and the files   *)
(* stay consistent through every write, flush, checkpoint, I/O error,      *)
(* crash and open, for any numbers of keys, calls, files and faults.       *)
(***************************************************************************)
THEOREM LsmInvariant ==
    Spec => []IInv
  <1>1. Init => IInv
    BY InitInv, Facts, Zenon
  <1>2. IInv /\ [Next]_vars => IInv'
    BY NextInv, Facts, Zenon
  <1> QED
    BY <1>1, <1>2, PTL DEF Spec

\* Lsm::get returns the last acknowledged value of the key: no failed append, refused write,
\* failed flush or checkpoint shows through, and an open loses nothing the crash left.
THEOREM ReadsAckedTheorem ==
    Spec => []ReadsAcked
  <1>1. IInv => ReadsAcked
    BY ReadsAre, Facts, Zenon
  <1> QED
    BY <1>1, LsmInvariant, PTL

\* Lsm::get_at, which stops at the first layer that holds the key, and Lsm::scan_at, which
\* merges all of them, return the same.
THEOREM GetScanAgreeTheorem ==
    Spec => []GetScanAgree
  <1>1. IInv => GetScanAgree
    BY ReadsAre, Facts, Zenon
  <1> QED
    BY <1>1, LsmInvariant, PTL

\* Lsm::put, Lsm::delete and the seq an open resumes from: a key and a seq name one version
\* in all the layers, and none is ahead of the counter.
THEOREM VersionsUniqueTheorem ==
    Spec => []VersionsUnique
  <1>1. IInv => VersionsUnique
    BY VersionsAre, Zenon
  <1> QED
    BY <1>1, LsmInvariant, PTL

\* Journaled::open and Manifest replay: a crash at any step loses an acknowledged write only
\* through one of the named kinds of damage.
THEOREM LostOnlyIfDamagedTheorem ==
    Spec => []LostOnlyIfDamaged
  <1>1. IInv => LostOnlyIfDamaged
    BY LossIs, Facts, Zenon
  <1> QED
    BY <1>1, LsmInvariant, PTL

\* Lsm::scan_at: a scan as of an earlier seq returns the same after any later write, flush or
\* checkpoint.
THEOREM ScanStableTheorem ==
    Spec => ScanStable
  <1>1. IInv /\ IInv' /\ [Next]_vars =>
            [Up /\ Up' /\ intact => \A k \in Keys, s \in 0..seq :
                 Scan(mem.map, ver.runs, s, k)' = Scan(mem.map, ver.runs, s, k)]_vars
    BY ScanStep, Facts, Zenon
  <1> QED
    BY <1>1, LsmInvariant, PTL DEF Spec, ScanStable

(***************************************************************************)
(* The tree is a durable key-value map (module DurableKv): acknowledged    *)
(* writes survive a crash at any step of a put, delete, flush or           *)
(* checkpoint, and nothing but a write in doubt appears at an open.        *)
(***************************************************************************)
THEOREM DurableKvTheorem ==
    Spec => IsDurableKv
  <1>1. Init => Kv!Init
    BY Zenon DEF Init, Kv!Init, Up
  <1>2. IInv /\ IInv' /\ [Next]_vars =>
            [Sheltered \/ (intact /\ (Up' \/ ~Damaged')) => Kv!Next]_(Kv!kvars)
    <2>1. ASSUME IInv, IInv', Next, Sheltered \/ (intact /\ (Up' \/ ~Damaged'))
          PROVE  Kv!Next \/ UNCHANGED Kv!kvars
      BY <2>1, KvStep, Facts, Zenon
    <2>2. ASSUME UNCHANGED vars
          PROVE  UNCHANGED Kv!kvars
      BY <2>2, Zenon DEF vars, history, Kv!kvars, Up
    <2> QED
      BY <2>1, <2>2, Zenon
  <1> QED
    BY <1>1, <1>2, LsmInvariant, PTL DEF Spec, IsDurableKv
=============================================================================
