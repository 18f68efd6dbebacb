--------------------------- MODULE JournalProofs ----------------------------
(***************************************************************************)
(* Proofs about Journal, for every number of records, both clients and     *)
(* both kinds of torn tail.                                                *)
(***************************************************************************)
EXTENDS Journal, TLAPS

Prefix(s, t) == Len(s) <= Len(t) /\ \A i \in 1..Len(s) : s[i] = t[i]

-----------------------------------------------------------------------------
(* Facts about frame sequences.                                            *)

\* A prefix cut at n: what SubSeq returns, element by element.
LEMMA CutFacts ==
    ASSUME NEW S, NEW s \in Seq(S), NEW n \in 0..Len(s)
    PROVE  /\ SubSeq(s, 1, n) \in Seq(S)
           /\ Len(SubSeq(s, 1, n)) = n
           /\ \A i \in 1..n : SubSeq(s, 1, n)[i] = s[i]
  OBVIOUS

\* A replay of a file yields at least what a replay of any prefix yields.
LEMMA ReplayedMonotone ==
    ASSUME NEW S, NEW s \in Seq(S), NEW t \in Seq(S), Prefix(s, t)
    PROVE  Replayed(s) \subseteq Replayed(t)
  BY DEF Prefix, Replayed, ReachedIndices, Reached

\* Appending one frame adds at most that frame to the replay.
LEMMA ReplayedAppend ==
    ASSUME NEW S, NEW s \in Seq(S), NEW r \in S
    PROVE  Replayed(Append(s, r)) \subseteq Replayed(s) \cup ({r} \ {Torn})
  BY DEF Replayed, ReachedIndices, Reached

\* SubSeq equality and elementwise prefix say the same.
LEMMA PrefixIsCut ==
    ASSUME NEW S, NEW s \in Seq(S), NEW t \in Seq(S)
    PROVE  Prefix(s, t) <=> Len(s) <= Len(t) /\ s = SubSeq(t, 1, Len(s))
  <1>1. ASSUME Prefix(s, t)
        PROVE  s = SubSeq(t, 1, Len(s))
    BY <1>1, CutFacts DEF Prefix
  <1>2. ASSUME Len(s) <= Len(t), s = SubSeq(t, 1, Len(s))
        PROVE  Prefix(s, t)
    <2>1. Len(s) \in 0..Len(t)
      BY <1>2
    <2>2. \A i \in 1..Len(s) : SubSeq(t, 1, Len(s))[i] = t[i]
      BY <2>1, CutFacts
    <2> QED
      BY <1>2, <2>2 DEF Prefix
  <1> QED
    BY <1>1, <1>2 DEF Prefix
-----------------------------------------------------------------------------
(***************************************************************************)
(* The inductive invariant.  An acknowledged record is safe because the    *)
(* file only grows behind the synced prefix: as long as there is one,      *)
(* disk is a prefix of file, shorter by at least the frame being appended, *)
(* and no reached acknowledged record lies outside it.  After a truncate   *)
(* whose sync failed disk need not be a prefix, but nothing is             *)
(* acknowledged until the next sync makes it one again.                    *)
(***************************************************************************)
Increasing(s) ==
    /\ \A i \in 1..Len(s) : s[i] \in Nat => s[i] < next
    /\ \A i, j \in 1..Len(s) :
          i < j /\ s[i] \in Nat /\ s[j] \in Nat => s[i] < s[j]

Appending ==
    pc = "appending" =>
        /\ Len(file) > 0
        /\ file[Len(file)] = next - 1
        /\ next - 1 \in Nat
        /\ next - 1 \notin acked

SyncedPrefix ==
    acked # {} =>
        /\ Prefix(disk, file)
        /\ pc = "appending" => Len(disk) < Len(file)
        /\ acked \cap Replayed(file) \subseteq Replayed(disk)

Truncating == pc \in {"truncating", "discarding"} => acked = {} /\ file = <<>>

IInv ==
    /\ TypeOK
    /\ \A r \in acked : r < next
    /\ Increasing(file)
    /\ Increasing(disk)
    /\ Appending
    /\ SyncedPrefix
    /\ Truncating

(***************************************************************************)
(* What the page cache's discipline adds: nothing torn is in the file      *)
(* while it is appended to, so no acknowledged record is behind it.        *)
(***************************************************************************)
NoTorn(s) == \A i \in 1..Len(s) : s[i] # Torn

BlockInv ==
    /\ pc \in {"open", "appending"} => NoTorn(file)
    /\ acked \subseteq Replayed(disk)

-----------------------------------------------------------------------------
\* What a crash leaves is disk, a cut of file, or a cut and a torn frame.
LEMMA Outcomes ==
    ASSUME TypeOK, NEW x \in CrashOutcomes
    PROVE  /\ x \in Seq(Frame)
           /\ \/ x = disk
              \/ \E n \in Synced..Len(file) : x = SubSeq(file, 1, n)
              \/ \E n \in Synced..(Len(file) - 1), t \in Partial :
                    x = Append(SubSeq(file, 1, n), t)
           /\ Synced \in 0..Len(file)
  <1>1. Synced \in 0..Len(file)
    BY DEF TypeOK, Synced
  <1>2. Partial \subseteq Frame
    BY DEF Partial, Frame
  <1>3. \A n \in Synced..Len(file) : SubSeq(file, 1, n) \in Seq(Frame)
    BY <1>1, CutFacts DEF TypeOK
  <1>4. \/ x = disk
        \/ \E n \in Synced..Len(file) : x = SubSeq(file, 1, n)
        \/ \E n \in Synced..(Len(file) - 1), t \in Partial :
              x = Append(SubSeq(file, 1, n), t)
    BY DEF CrashOutcomes
  <1>5. ASSUME NEW n \in Synced..(Len(file) - 1), NEW t \in Partial
        PROVE  Append(SubSeq(file, 1, n), t) \in Seq(Frame)
    <2>1. n \in Synced..Len(file)
      BY <1>1 DEF TypeOK
    <2> QED
      BY <1>2, <1>3, <2>1
  <1>6. x \in Seq(Frame)
    BY <1>3, <1>4, <1>5 DEF TypeOK
  <1> QED
    BY <1>1, <1>4, <1>6

\* The synced frames survive a crash.
LEMMA OutcomeKeepsDisk ==
    ASSUME TypeOK, Prefix(disk, file), NEW x \in CrashOutcomes
    PROVE  Prefix(disk, x)
  <1>1. Synced = Len(disk)
    BY PrefixIsCut DEF TypeOK, Synced
  <1>2. CASE x = disk
    BY <1>2 DEF Prefix, TypeOK
  <1>3. ASSUME NEW n \in Synced..Len(file), x = SubSeq(file, 1, n)
        PROVE  Prefix(disk, x)
    BY <1>1, <1>3, CutFacts DEF Prefix, TypeOK
  <1>4. ASSUME NEW n \in Synced..(Len(file) - 1), NEW t \in Partial,
               x = Append(SubSeq(file, 1, n), t)
        PROVE  Prefix(disk, x)
    <2>1. /\ SubSeq(file, 1, n) \in Seq(Frame)
          /\ Len(SubSeq(file, 1, n)) = n
          /\ \A i \in 1..n : SubSeq(file, 1, n)[i] = file[i]
      BY <1>1, CutFacts DEF TypeOK
    <2> QED
      BY <1>1, <1>4, <2>1 DEF Prefix, TypeOK, Partial, Frame
  <1> QED
    BY <1>2, <1>3, <1>4, Outcomes

\* A crash leaves the records in the order they were appended.
LEMMA OutcomeIncreasing ==
    ASSUME TypeOK, Increasing(file), Increasing(disk), NEW x \in CrashOutcomes
    PROVE  Increasing(x)
  <1>1. Synced \in 0..Len(file)
    BY Outcomes
  <1>2. CASE x = disk
    BY <1>2
  <1>3. ASSUME NEW n \in Synced..Len(file), x = SubSeq(file, 1, n)
        PROVE  Increasing(x)
    <2>1. /\ Len(x) = n /\ n \in Nat /\ n <= Len(file)
          /\ \A i \in 1..n : x[i] = file[i]
      BY <1>1, <1>3, CutFacts DEF TypeOK
    <2>2. \A i \in 1..Len(x) : i \in 1..Len(file) /\ x[i] = file[i]
      BY <2>1 DEF TypeOK
    <2> QED
      BY <2>2 DEF Increasing
  <1>4. ASSUME NEW n \in Synced..(Len(file) - 1), NEW t \in Partial,
               x = Append(SubSeq(file, 1, n), t)
        PROVE  Increasing(x)
    <2>1. /\ SubSeq(file, 1, n) \in Seq(Frame)
          /\ Len(SubSeq(file, 1, n)) = n
          /\ \A i \in 1..n : SubSeq(file, 1, n)[i] = file[i]
      BY <1>1, CutFacts DEF TypeOK
    <2>2. t \in Frame /\ t \notin Nat
      BY JournalAssumption DEF Partial, Frame
    <2>3. /\ Len(x) = n + 1
          /\ x[n + 1] = t
          /\ \A i \in 1..n : x[i] = file[i]
      BY <1>1, <1>4, <2>1, <2>2
    <2>4. \A i \in 1..Len(x) : x[i] \in Nat => i \in 1..n /\ x[i] = file[i]
      BY <1>1, <2>2, <2>3
    <2>5. \A i \in 1..n : i \in 1..Len(file)
      BY <1>1 DEF TypeOK
    <2> QED
      BY <2>4, <2>5 DEF Increasing
  <1> QED
    BY <1>2, <1>3, <1>4, Outcomes

\* The file without the frame being appended.
LEMMA WrittenFacts ==
    ASSUME TypeOK, Len(file) > 0
    PROVE  /\ Written \in Seq(Frame)
           /\ Len(Written) = Len(file) - 1
           /\ \A i \in 1..(Len(file) - 1) : Written[i] = file[i]
           /\ Append(Written, Torn) \in Seq(Frame)
           /\ Len(Append(Written, Torn)) = Len(file)
           /\ \A i \in 1..(Len(file) - 1) : Append(Written, Torn)[i] = file[i]
           /\ Append(Written, Torn)[Len(file)] = Torn
  <1>1. Len(file) - 1 \in 0..Len(file)
    BY DEF TypeOK
  <1>2. /\ Written \in Seq(Frame)
        /\ Len(Written) = Len(file) - 1
        /\ \A i \in 1..(Len(file) - 1) : Written[i] = file[i]
    BY <1>1, CutFacts DEF TypeOK, Written
  <1>3. Torn \in Frame
    BY DEF Frame
  <1> QED
    BY <1>1, <1>2, <1>3

\* What a failed or interrupted append may leave in the file keeps the
\* order, the synced prefix, and adds nothing to a replay.
LEMMA InterruptedAppend ==
    ASSUME IInv, pc = "appending",
           NEW f \in {Written, Append(Written, Torn), file}
    PROVE  /\ f \in Seq(Frame)
           /\ Increasing(f)
           /\ Replayed(f) \subseteq Replayed(file)
           /\ Prefix(disk, file) /\ Len(disk) < Len(file) => Prefix(disk, f)
  <1>1. TypeOK /\ Len(file) > 0
    BY DEF IInv, Appending
  <1>2. /\ Written \in Seq(Frame)
        /\ Len(Written) = Len(file) - 1
        /\ \A i \in 1..(Len(file) - 1) : Written[i] = file[i]
        /\ Append(Written, Torn) \in Seq(Frame)
        /\ Len(Append(Written, Torn)) = Len(file)
        /\ \A i \in 1..(Len(file) - 1) : Append(Written, Torn)[i] = file[i]
        /\ Append(Written, Torn)[Len(file)] = Torn
    BY <1>1, WrittenFacts
  <1>3. Len(file) \in Nat /\ Len(disk) \in Nat
    BY <1>1 DEF TypeOK
  <1>4. f \in Seq(Frame)
    BY <1>1, <1>2 DEF TypeOK
  <1>5. Increasing(f)
    <2>1. /\ Len(f) \in Nat
          /\ \A i \in 1..Len(f) :
                f[i] \in Nat => i \in 1..Len(file) /\ f[i] = file[i]
      BY <1>2, <1>3, JournalAssumption
    <2> QED
      BY <2>1 DEF IInv, Increasing
  <1>6. Prefix(Written, file)
    BY <1>2, <1>3 DEF Prefix
  <1>7. Replayed(Written) \subseteq Replayed(file)
    BY <1>1, <1>2, <1>6, ReplayedMonotone DEF TypeOK
  <1>8. Replayed(Append(Written, Torn)) \subseteq Replayed(Written)
    BY <1>2, ReplayedAppend DEF Frame
  <1>9. Prefix(disk, file) /\ Len(disk) < Len(file) => Prefix(disk, f)
    <2>1. /\ Len(f) \in Nat /\ Len(file) - 1 <= Len(f)
          /\ \A i \in 1..(Len(file) - 1) : f[i] = file[i]
      <3>1. CASE f = Written
        BY <1>2, <1>3, <3>1
      <3>2. CASE f = Append(Written, Torn)
        BY <1>2, <1>3, <3>2
      <3>3. CASE f = file
        BY <1>3, <3>3
      <3> QED
        BY <3>1, <3>2, <3>3
    <2>2. ASSUME Prefix(disk, file), Len(disk) < Len(file)
          PROVE  Prefix(disk, f)
      BY <1>3, <2>1, <2>2 DEF Prefix
    <2> QED
      BY <2>2
  <1> QED
    BY <1>4, <1>5, <1>7, <1>8, <1>9

-----------------------------------------------------------------------------
\* The initial state satisfies the invariant.
LEMMA InitIInv == Init => IInv
  <1> SUFFICES ASSUME Init PROVE IInv
    OBVIOUS
  <1>1. TypeOK
    BY DEF Init, TypeOK
  <1>2. Increasing(file) /\ Increasing(disk)
    BY DEF Init, Increasing
  <1> QED
    BY <1>1, <1>2 DEF Init, IInv, Appending, SyncedPrefix, Truncating

\* Every step preserves the invariant.
LEMMA NextIInv == IInv /\ [Next]_vars => IInv'
  <1> SUFFICES ASSUME IInv, [Next]_vars PROVE IInv'
    OBVIOUS
  <1>0. TypeOK
    BY DEF IInv
  <1>1. CASE OpenCreate \/ CreateSync \/ OpenExisting
    <2>1. /\ UNCHANGED <<file, disk, next, acked>>
          /\ pc' \in {"creating", "recovering", "open"}
          /\ header' \in {"partial", "ok"}
      BY <1>0, <1>1 DEF OpenCreate, CreateSync, OpenExisting, Opened, TypeOK
    <2>2. Increasing(file)' /\ Increasing(disk)'
      BY <2>1 DEF IInv, Increasing
    <2> QED
      BY <2>1, <2>2
      DEF IInv, TypeOK, Appending, SyncedPrefix, Truncating, Prefix, Replayed,
          ReachedIndices, Reached
  <1>2. CASE AppendWrite
    <2>1. /\ file' = Append(file, next) /\ next' = next + 1 /\ disk' = disk
          /\ acked' = acked /\ pc' = "appending" /\ header' = header
          /\ next \in Nat /\ file \in Seq(Frame) /\ next \in Frame
      BY <1>0, <1>2 DEF AppendWrite, TypeOK, Frame
    <2>2. /\ file' \in Seq(Frame)
          /\ Len(file') = Len(file) + 1
          /\ \A i \in 1..Len(file) : file'[i] = file[i]
          /\ file'[Len(file) + 1] = next
          /\ Len(file) \in Nat
      BY <2>1
    <2>3. TypeOK'
      BY <1>0, <2>1, <2>2 DEF TypeOK
    <2>4. Increasing(file)'
      BY <2>1, <2>2 DEF IInv, Increasing
    <2>5. Increasing(disk)'
      BY <1>0, <2>1 DEF IInv, Increasing, TypeOK
    <2>6. Appending' /\ Truncating'
      BY <2>1, <2>2 DEF IInv, Appending, Truncating
    <2>7. SyncedPrefix'
      <3>1. Replayed(file') \subseteq Replayed(file) \cup {next}
        BY <2>1, ReplayedAppend
      <3>2. next \notin acked
        BY <2>1 DEF IInv
      <3>3. acked # {} => Prefix(disk, file) /\ Len(disk) <= Len(file)
        BY DEF IInv, SyncedPrefix, Prefix
      <3>4. Replayed(file)' = Replayed(file') /\ Replayed(disk)' = Replayed(disk)
        BY <2>1 DEF Replayed, ReachedIndices, Reached
      <3>5. acked # {} => Prefix(disk', file') /\ Len(disk') < Len(file')
        BY <1>0, <2>1, <2>2, <3>3 DEF Prefix, TypeOK
      <3> QED
        BY <2>1, <3>1, <3>2, <3>4, <3>5 DEF IInv, SyncedPrefix, Prefix
    <2>8. \A r \in acked' : r < next'
      BY <1>0, <2>1 DEF IInv, TypeOK
    <2> QED
      BY <2>3, <2>4, <2>5, <2>6, <2>7, <2>8 DEF IInv
  <1>3. CASE AppendSync
    <2>1. /\ file' = file /\ next' = next /\ disk' = file
          /\ acked' = acked \cup {next - 1} /\ pc' = "open"
          /\ header' = header /\ pc = "appending"
      BY <1>3 DEF AppendSync
    <2>2. next - 1 \in Nat /\ next \in Nat
      BY <1>0, <2>1 DEF IInv, Appending, TypeOK
    <2>3. TypeOK'
      BY <1>0, <2>1, <2>2 DEF TypeOK
    <2>4. Increasing(file)' /\ Increasing(disk)'
      BY <2>1 DEF IInv, Increasing
    <2>5. SyncedPrefix'
      BY <1>0, <2>1
      DEF SyncedPrefix, Prefix, TypeOK, Replayed, ReachedIndices, Reached
    <2>6. \A r \in acked' : r < next'
      BY <1>0, <2>1, <2>2 DEF IInv, TypeOK
    <2> QED
      BY <2>1, <2>3, <2>4, <2>5, <2>6 DEF IInv, Appending, Truncating
  <1>4. CASE AppendFails \/ (Exit /\ pc = "appending")
    <2>1. /\ file' \in {Written, Append(Written, Torn), file}
          /\ UNCHANGED <<disk, next, acked>> /\ pc = "appending"
          /\ pc' \in {"open", "down"} /\ header' = header
      BY <1>4 DEF AppendFails, Exit
    <2>2. /\ file' \in Seq(Frame)
          /\ Increasing(file')
          /\ Replayed(file') \subseteq Replayed(file)
          /\ Prefix(disk, file) /\ Len(disk) < Len(file) => Prefix(disk, file')
      BY <2>1, InterruptedAppend
    <2>3. TypeOK'
      BY <1>0, <2>1, <2>2 DEF TypeOK
    <2>4. Increasing(file)' /\ Increasing(disk)'
      BY <2>1, <2>2 DEF IInv, Increasing
    <2>5. SyncedPrefix'
      <3>1. acked # {} => /\ Prefix(disk, file')
                          /\ acked \cap Replayed(file') \subseteq Replayed(disk)
        BY <2>1, <2>2 DEF IInv, SyncedPrefix
      <3>2. /\ Replayed(file)' = Replayed(file')
            /\ Replayed(disk)' = Replayed(disk)
            /\ Prefix(disk, file)' = Prefix(disk, file')
        BY <2>1 DEF Replayed, ReachedIndices, Reached, Prefix
      <3> QED
        BY <2>1, <3>1, <3>2 DEF SyncedPrefix
    <2> QED
      BY <2>1, <2>3, <2>4, <2>5 DEF IInv, Appending, Truncating
  <1>5. CASE TruncateStart
    <2>1. /\ file' = <<>> /\ acked' = {} /\ UNCHANGED <<header, disk, next>>
          /\ pc' \in {"truncating", "discarding"}
      BY <1>5 DEF TruncateStart
    <2>2. TypeOK'
      BY <1>0, <2>1 DEF TypeOK
    <2>3. Increasing(file)' /\ Increasing(disk)'
      BY <2>1 DEF IInv, Increasing
    <2> QED
      BY <2>1, <2>2, <2>3 DEF IInv, Appending, SyncedPrefix, Truncating
  <1>6. CASE TruncateSync \/ TruncateFails
    <2>1. /\ disk' \in {disk, file} /\ pc' = "open" /\ acked = {}
          /\ UNCHANGED <<header, file, next, acked>>
      BY <1>6 DEF TruncateSync, TruncateFails, IInv, Truncating
    <2>2. TypeOK'
      BY <1>0, <2>1 DEF TypeOK
    <2>3. Increasing(file)' /\ Increasing(disk)'
      BY <2>1 DEF IInv, Increasing
    <2> QED
      BY <2>1, <2>2, <2>3 DEF IInv, Appending, SyncedPrefix, Truncating
  <1>7. CASE Crash
    <2>1. PICK x \in CrashOutcomes : file' = x /\ disk' = x
      BY <1>7 DEF Crash
    <2>2. /\ pc' = "down" /\ UNCHANGED <<next, acked>>
          /\ header' \in {"empty", "partial", "ok"}
      BY <1>0, <1>7 DEF Crash, TypeOK
    <2>3. x \in Seq(Frame)
      BY <1>0, Outcomes
    <2>4. Increasing(x)
      BY <1>0, OutcomeIncreasing DEF IInv
    <2>5. Increasing(file)' /\ Increasing(disk)'
      BY <2>1, <2>2, <2>4 DEF Increasing
    <2>6. SyncedPrefix'
      BY <2>1, <2>2, <2>3
      DEF SyncedPrefix, Prefix, Replayed, ReachedIndices, Reached
    <2>7. TypeOK'
      BY <1>0, <2>1, <2>2, <2>3 DEF TypeOK
    <2> QED
      BY <2>2, <2>5, <2>6, <2>7 DEF IInv, Appending, Truncating
  <1>8. CASE (Exit /\ pc # "appending") \/ UNCHANGED vars
    <2>1. /\ UNCHANGED <<file, disk, next, acked>>
          /\ pc' \in {"down", pc}
          /\ header' \in {"empty", "partial", "ok"}
      BY <1>0, <1>8 DEF Exit, vars, TypeOK
    <2>2. Increasing(file)' /\ Increasing(disk)'
      BY <2>1 DEF IInv, Increasing
    <2> QED
      BY <2>1, <2>2
      DEF IInv, TypeOK, Appending, SyncedPrefix, Truncating, Prefix, Replayed,
          ReachedIndices, Reached
  <1> QED
    BY <1>1, <1>2, <1>3, <1>4, <1>5, <1>6, <1>7, <1>8 DEF Next

\* The invariant implies what the journal promises every client.
LEMMA IInvImplies == IInv => PrefixDurable /\ InOrder
  <1> SUFFICES ASSUME IInv, NEW x \in CrashOutcomes
               PROVE  /\ acked \cap Replayed(file) \subseteq Replayed(x)
                      /\ \A i, j \in ReachedIndices(x) :
                            i < j /\ x[i] \in Nat /\ x[j] \in Nat => x[i] < x[j]
    BY DEF PrefixDurable, InOrder
  <1>1. TypeOK /\ x \in Seq(Frame)
    BY Outcomes DEF IInv
  <1>2. acked \cap Replayed(file) \subseteq Replayed(x)
    <2>1. CASE acked = {}
      BY <2>1
    <2>2. CASE acked # {}
      <3>1. Prefix(disk, x)
        BY <1>1, <2>2, OutcomeKeepsDisk DEF IInv, SyncedPrefix
      <3>2. Replayed(disk) \subseteq Replayed(x)
        BY <1>1, <3>1, ReplayedMonotone DEF TypeOK
      <3> QED
        BY <2>2, <3>2 DEF IInv, SyncedPrefix
    <2> QED
      BY <2>1, <2>2
  <1>3. Increasing(x)
    BY <1>1, OutcomeIncreasing DEF IInv
  <1>4. ReachedIndices(x) \subseteq 1..Len(x)
    BY <1>1 DEF ReachedIndices
  <1> QED
    BY <1>2, <1>3, <1>4 DEF Increasing

(***************************************************************************)
(* The journal's variables keep their types: in particular every file a    *)
(* crash or a failed call leaves is again a sequence of frames.            *)
(***************************************************************************)
THEOREM TypeCorrect == Spec => []TypeOK
  <1>1. IInv => TypeOK
    BY DEF IInv
  <1> QED
    BY <1>1, InitIInv, NextIInv, PTL DEF Spec

(***************************************************************************)
(* For every client: no crash, failed append, failed truncate or torn      *)
(* frame loses an acknowledged record that a replay can still reach.       *)
(***************************************************************************)
THEOREM PrefixDurability == Spec => []PrefixDurable
  <1>1. IInv => PrefixDurable
    BY IInvImplies
  <1> QED
    BY <1>1, InitIInv, NextIInv, PTL DEF Spec

(***************************************************************************)
(* For every client: replay yields records in append order, none twice.    *)
(***************************************************************************)
THEOREM ReplayOrder == Spec => []InOrder
  <1>1. IInv => InOrder
    BY IInvImplies
  <1> QED
    BY <1>1, InitIInv, NextIInv, PTL DEF Spec

-----------------------------------------------------------------------------
\* The page cache's discipline keeps torn frames out of a file it appends to.
LEMMA NextBlockInv ==
    ASSUME BlockClient
    PROVE  IInv /\ BlockInv /\ [Next]_vars => BlockInv'
  <1> SUFFICES ASSUME IInv, BlockInv, [Next]_vars PROVE BlockInv'
    OBVIOUS
  <1>0. TypeOK
    BY DEF IInv
  <1>1. CASE OpenCreate \/ CreateSync \/ OpenExisting
    BY <1>1 DEF OpenCreate, CreateSync, OpenExisting, Opened, BlockInv,
                Replayed, ReachedIndices, Reached
  <1>2. CASE AppendWrite
    <2>1. /\ file' = Append(file, next) /\ disk' = disk /\ acked' = acked
          /\ NoTorn(file) /\ next \in Nat /\ file \in Seq(Frame)
          /\ next \in Frame /\ next # Torn
      BY <1>0, <1>2, JournalAssumption DEF AppendWrite, BlockInv, TypeOK, Frame
    <2>2. NoTorn(file')
      BY <2>1 DEF NoTorn
    <2> QED
      BY <2>1, <2>2 DEF BlockInv, NoTorn, Replayed, ReachedIndices, Reached
  <1>3. CASE AppendSync
    <2>1. /\ file' = file /\ disk' = file /\ acked' = acked \cup {next - 1}
          /\ NoTorn(file) /\ pc = "appending"
      BY <1>3 DEF AppendSync, BlockInv
    <2>2. next - 1 \in Replayed(file)
      BY <1>0, <2>1
      DEF IInv, Appending, NoTorn, Replayed, ReachedIndices, Reached, TypeOK
    <2>3. acked \subseteq Replayed(file)
      BY <1>0, ReplayedMonotone DEF IInv, SyncedPrefix, BlockInv, TypeOK
    <2> QED
      BY <2>1, <2>2, <2>3
      DEF BlockInv, NoTorn, Replayed, ReachedIndices, Reached
  <1>4. CASE TruncateStart
    BY <1>4 DEF TruncateStart, BlockInv
  <1>5. CASE TruncateSync \/ TruncateFails
    BY <1>5 DEF TruncateSync, TruncateFails, IInv, Truncating, BlockInv, NoTorn
  <1>6. CASE Crash
    <2>1. PICK x \in CrashOutcomes : file' = x /\ disk' = x
      BY <1>6 DEF Crash
    <2>2. acked \subseteq Replayed(x)
      <3>1. CASE acked = {}
        BY <3>1
      <3>2. CASE acked # {}
        <4>1. Prefix(disk, x) /\ x \in Seq(Frame)
          BY <1>0, <3>2, Outcomes, OutcomeKeepsDisk DEF IInv, SyncedPrefix
        <4> QED
          BY <1>0, <4>1, ReplayedMonotone DEF BlockInv, TypeOK
      <3> QED
        BY <3>1, <3>2
    <2> QED
      BY <1>6, <2>1, <2>2
      DEF Crash, BlockInv, Replayed, ReachedIndices, Reached
  <1>7. CASE AppendFails
    BY <1>7 DEF AppendFails
  <1>8. CASE Exit \/ UNCHANGED vars
    BY <1>8 DEF Exit, vars, BlockInv, NoTorn, Replayed, ReachedIndices, Reached
  <1> QED
    BY <1>1, <1>2, <1>3, <1>4, <1>5, <1>6, <1>7, <1>8 DEF Next

(***************************************************************************)
(* The durability contract holds for the page cache's journal: truncating  *)
(* on every open and stopping at a failed append are what make it hold     *)
(* (the memtable and the manifest do neither).                             *)
(***************************************************************************)
THEOREM BlockDurability ==
    ASSUME BlockClient
    PROVE  Spec => []Durable
  <1>1. Init => BlockInv
    BY DEF Init, BlockInv, NoTorn
  <1>2. IInv /\ BlockInv => Durable
    <2> SUFFICES ASSUME IInv, BlockInv, NEW x \in CrashOutcomes
                 PROVE  acked \subseteq Replayed(x)
      BY DEF Durable
    <2>1. TypeOK /\ x \in Seq(Frame)
      BY Outcomes DEF IInv
    <2>2. CASE acked = {}
      BY <2>2
    <2>3. CASE acked # {}
      <3>1. Prefix(disk, x)
        BY <2>1, <2>3, OutcomeKeepsDisk DEF IInv, SyncedPrefix
      <3> QED
        BY <2>1, <3>1, ReplayedMonotone DEF BlockInv, TypeOK
    <2> QED
      BY <2>2, <2>3
  <1>3. IInv /\ BlockInv /\ [Next]_vars => BlockInv'
    BY NextBlockInv
  <1> QED
    BY <1>1, <1>2, <1>3, InitIInv, NextIInv, PTL DEF Spec
=============================================================================
