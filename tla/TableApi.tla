------------------------------ MODULE TableApi ------------------------------
(***************************************************************************)
(* The row-level table API of crates/strata-db/src/storage (table_api.rs,  *)
(* row.rs): rows of every table live in the one ordered byte-key store of  *)
(* the storage engine, under the key                                       *)
(*                                                                         *)
(*     project id | dataset id | table id | truncation id | user key       *)
(*                                                                         *)
(* A store is a function from the keys present to the value last put.  An  *)
(* id, a truncation id and a column position are one byte here, fixed      *)
(* width as in the code; names and user keys are byte strings of any       *)
(* length.  A value is the tuple and the schema it was encoded with, or    *)
(* what became of one that a crash took.                                   *)
(***************************************************************************)
EXTENDS ByteStrings, SequencesExt, FiniteSets

CONSTANTS
    MaxByte,        \* 0xff
    None,           \* Option::None
    Garbled,        \* what decoding under another schema gives: wrong
                    \* values or a DecodeError
    Unreadable,     \* the tuple's page is not there: reading the key is an error
    Missing         \* the page is there but has no such slot

ASSUME TableApiAssumption == MaxByte \in Nat \ {0}

\* What a Table handle addresses: one incarnation, read with one schema.
TablePrefix(table) ==
    <<table.project, table.dataset, table.id, table.truncation>>

\* RowKey::encode.
RowKey(table, userKey) == TablePrefix(table) \o userKey

\* A slip that stops at the last byte instead of carrying.
NextAfterPrefixNoCarry(prefix) ==
    IF prefix = << >> \/ Last(prefix) = MaxByte THEN None
    ELSE Front(prefix) \o <<Last(prefix) + 1>>

\* The smallest byte string above every string that starts with `prefix`.
NextAfterPrefix(prefix) ==
    LET low == {i \in DOMAIN prefix : prefix[i] < MaxByte}
    IN  IF low = {} THEN None
        ELSE LET i == Max(low)
             IN  SubSeq(prefix, 1, i - 1) \o <<prefix[i] + 1>>

\* ScanOptions::prefix: the user key a scan by prefix ends before.
PrefixEnd(prefix) == IF prefix = << >> THEN None ELSE NextAfterPrefix(prefix)

\* The keys TableReader::scan bounds a scan to.  An unbounded side falls back
\* to the edge of the table.
ScanKeys(store, table, prefix) ==
    LET start == RowKey(table, prefix)
        end   == IF PrefixEnd(prefix) = None
                 THEN NextAfterPrefix(TablePrefix(table))
                 ELSE RowKey(table, PrefixEnd(prefix))
    IN  {k \in DOMAIN store : /\ ~LexLess(k, start)
                              /\ end = None \/ LexLess(k, end)}

\* The stored values of a scan, in key order.  (A tuple that is not there fails
\* the scan; the models scan only ranges without one.)
Scan(store, table, prefix) ==
    LET keys == SetToSortSeq(ScanKeys(store, table, prefix), LexLess)
    IN  [i \in DOMAIN keys |-> store[keys[i]]]

\* TableReader::get: a key whose slot is missing counts as absent.  The result
\* Unreadable is the error.
Get(store, table, userKey) ==
    LET key == RowKey(table, userKey)
    IN  IF key \notin DOMAIN store \/ store[key] = Missing THEN None ELSE store[key]

\* Schema::encode and Schema::decode.
Encode(schema, tuple) == [schema |-> schema, tuple |-> tuple]
Decode(schema, value) == IF value.schema = schema THEN value.tuple ELSE Garbled

\* The rows a SeqScan of `table` yields.
ScanRows(store, table) ==
    LET values == Scan(store, table, << >>)
    IN  [i \in DOMAIN values |-> Decode(table.schema, values[i])]

(***************************************************************************)
(* A write is the one engine call of TableWriter::put or ::delete; the     *)
(* callers issue them one after another and stop at the first that fails.  *)
(***************************************************************************)
PutRow(table, userKey, value) == [key |-> RowKey(table, userKey), value |-> value]
DeleteRow(table, userKey)     == [key |-> RowKey(table, userKey), value |-> None]

ApplyWrite(store, w) ==
    IF w.value = None
    THEN [k \in DOMAIN store \ {w.key} |-> store[k]]
    ELSE [k \in DOMAIN store \union {w.key} |->
            IF k = w.key THEN w.value ELSE store[k]]
============================================================================
