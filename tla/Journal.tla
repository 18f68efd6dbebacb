------------------------------ MODULE Journal -------------------------------
(***************************************************************************)
(* crates/journal: the append-only log under the memtable, the manifest    *)
(* and the page cache.  One journal file, the process that has it open,    *)
(* and the crashes between (and within) its system calls.                  *)
(*                                                                         *)
(* A record is the number of the append call that wrote it, so records     *)
(* are distinct and their order is the order of the calls.                 *)
(*                                                                         *)
(* The journal has two kinds of client.  BlockClient = TRUE is the page    *)
(* cache (filesystem BlockJournal): it truncates the journal at the end    *)
(* of every open, before the first append, and panics when an append       *)
(* fails.  BlockClient = FALSE is the memtable and the manifest (lsm):     *)
(* they append behind whatever the file holds and survive a failed append. *)
(***************************************************************************)
EXTENDS Frames

CONSTANTS MaxRecords,   \* bound: append calls in a behaviour
          BlockClient,  \* which client discipline (see above)
          ZeroTail      \* may a crash leave a zero-filled tail?

ASSUME JournalAssumption ==
    /\ MaxRecords \in Nat
    /\ BlockClient \in BOOLEAN
    /\ ZeroTail \in BOOLEAN
    /\ Torn \notin Nat
    /\ Zeros \notin Nat
    /\ Torn # Zeros

VARIABLES header,  \* the 6-byte file header: "empty", "partial" or "ok"
          file,    \* the frames as the operating system shows the file
          disk,    \* the frames as of the last completed sync_all
          pc,      \* where the process is
          next,    \* the number of the next append call
          acked    \* appends that returned Ok since the last truncate call

vars == <<header, file, disk, pc, next, acked>>

Frame == Nat \cup {Torn, Zeros}

\* Every variable keeps its type: the header and the frames of the file as the
\* process sees them and as they are on disk, and the step Journal is at.
TypeOK ==
    /\ header \in {"empty", "partial", "ok"}
    /\ file \in Seq(Frame)
    /\ disk \in Seq(Frame)
    /\ pc \in {"down", "creating", "recovering", "discarding", "open",
               "appending", "truncating"}
    /\ next \in Nat
    /\ acked \in SUBSET Nat

Init ==
    /\ header = "empty"
    /\ file = <<>>
    /\ disk = <<>>
    /\ pc = "down"
    /\ next = 1
    /\ acked = {}

-----------------------------------------------------------------------------

\* The file position after open is the end of the file, torn tail included.
Opened == IF BlockClient THEN "recovering" ELSE "open"

\* with_codec on an empty file: the header goes out in two writes ...
OpenCreate ==
    /\ pc = "down"
    /\ header = "empty"
    /\ header' = "partial"
    /\ pc' = "creating"
    /\ UNCHANGED <<file, disk, next, acked>>

\* ... and is synced.
CreateSync ==
    /\ pc = "creating"
    /\ header' = "ok"
    /\ pc' = Opened
    /\ UNCHANGED <<file, disk, next, acked>>

\* with_codec on a file with a valid header, then the client's replay.
OpenExisting ==
    /\ pc = "down"
    /\ header = "ok"
    /\ ~DecodeFails(file)
    /\ pc' = Opened
    /\ UNCHANGED <<header, file, disk, next, acked>>

\* append: write_all ...
AppendWrite ==
    /\ pc = "open"
    /\ next <= MaxRecords
    /\ file' = Append(file, next)
    /\ next' = next + 1
    /\ pc' = "appending"
    /\ UNCHANGED <<header, disk, acked>>

\* Mutant: Ok without a sync.
AppendNoSync ==
    /\ pc = "appending"
    /\ acked' = acked \cup {next - 1}
    /\ pc' = "open"
    /\ UNCHANGED <<header, file, disk, next>>

\* ... then sync_all, then Ok.
AppendSync ==
    /\ pc = "appending"
    /\ disk' = file
    /\ acked' = acked \cup {next - 1}
    /\ pc' = "open"
    /\ UNCHANGED <<header, file, next>>

Written == SubSeq(file, 1, Len(file) - 1)

\* Mutant: a failed sync is answered by writing the record again.
AppendFailsRetries ==
    /\ pc = "appending"
    /\ ~BlockClient
    /\ file' = Append(file, next - 1)
    /\ pc' = "open"
    /\ UNCHANGED <<header, disk, next, acked>>

(***************************************************************************)
(* append returns Err: write_all wrote nothing, or part of the frame, or   *)
(* all of it and sync_all failed.  The file position stays behind what was *)
(* written.  BlockJournal::append panics instead, which is a Crash.        *)
(***************************************************************************)
AppendFails ==
    /\ pc = "appending"
    /\ ~BlockClient
    /\ file' \in {Written, Append(Written, Torn), file}
    /\ pc' = "open"
    /\ UNCHANGED <<header, disk, next, acked>>

\* truncate: set_len and seek ...
TruncateStart ==
    /\ pc \in {"open", "recovering"}
    /\ file' = <<>>
    /\ acked' = {}
    /\ pc' = IF pc = "open" THEN "truncating" ELSE "discarding"
    /\ UNCHANGED <<header, disk, next>>

\* ... then sync_all.
TruncateSync ==
    /\ pc \in {"truncating", "discarding"}
    /\ disk' = file
    /\ pc' = "open"
    /\ UNCHANGED <<header, file, next, acked>>

\* sync_all fails: truncate returns Err and the caller carries on.  (During
\* an open the error ends the open instead, which is a Crash.)
TruncateFails ==
    /\ pc = "truncating"
    /\ pc' = "open"
    /\ UNCHANGED <<header, file, disk, next, acked>>

(***************************************************************************)
(* What a crash may leave of the frames.  A completed sync_all is safe.    *)
(* Of frames written since, any number may have reached the disk, the next *)
(* one in part or as zeros; a set_len that was not synced may be undone.   *)
(***************************************************************************)
Partial == IF ZeroTail THEN {Torn, Zeros} ELSE {Torn}

Synced ==
    IF Len(disk) <= Len(file) /\ disk = SubSeq(file, 1, Len(disk))
    THEN Len(disk)
    ELSE 0

CrashOutcomes ==
    {disk}
    \cup {SubSeq(file, 1, n) : n \in Synced..Len(file)}
    \cup {Append(SubSeq(file, 1, n), t) :
            n \in Synced..(Len(file) - 1), t \in Partial}

Crash ==
    /\ \E x \in CrashOutcomes : file' = x /\ disk' = x
    /\ header' \in IF pc = "creating" THEN {"empty", "partial", "ok"}
                                      ELSE {header}
    /\ pc' = "down"
    /\ UNCHANGED <<next, acked>>

(***************************************************************************)
(* The process ends but the operating system lives on (a kill, a panic, or *)
(* a clean exit): the file keeps what was written, an interrupted append   *)
(* or header in part.                                                      *)
(***************************************************************************)
Exit ==
    /\ pc # "down"
    /\ file' \in IF pc = "appending" THEN {Append(Written, Torn), file}
                                      ELSE {file}
    /\ header' \in IF pc = "creating" THEN {"partial", "ok"} ELSE {header}
    /\ pc' = "down"
    /\ UNCHANGED <<disk, next, acked>>

Next ==
    \/ OpenCreate \/ CreateSync \/ OpenExisting
    \/ AppendWrite \/ AppendSync \/ AppendFails
    \/ TruncateStart \/ TruncateSync \/ TruncateFails
    \/ Crash \/ Exit

Spec == Init /\ [][Next]_vars
-----------------------------------------------------------------------------
(***************************************************************************)
(* The durability contract: "append returned" means the record is durable. *)
(* Whatever a crash leaves, now or while the journal is down, a replay     *)
(* yields every append that returned Ok since the last truncate.           *)
(***************************************************************************)
Durable == \A x \in CrashOutcomes : acked \subseteq Replayed(x)

(***************************************************************************)
(* What of the contract holds for every client: an acknowledged record     *)
(* that a replay of the file would reach now is reached after any crash.   *)
(* A failed append or a torn tail of an earlier crash cannot spoil the     *)
(* records in front of it.                                                 *)
(***************************************************************************)
PrefixDurable ==
    \A x \in CrashOutcomes : acked \cap Replayed(file) \subseteq Replayed(x)

(***************************************************************************)
(* A replay yields records in the order of the append calls, none twice,   *)
(* through failed appends, truncates whose sync failed, and crashes.       *)
(***************************************************************************)
InOrder ==
    \A x \in CrashOutcomes :
        \A i, j \in ReachedIndices(x) :
            i < j /\ x[i] \in Nat /\ x[j] \in Nat => x[i] < x[j]
=============================================================================
