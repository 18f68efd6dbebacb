------------------------------ MODULE Manifest ------------------------------
(***************************************************************************)
(* lsm::manifest: the edits of a manifest journal and the version they     *)
(* fold into.  Nothing compacts yet, so every run is a single file of      *)
(* level 0, named by its id, and no edit removes a run: an edit is the     *)
(* runs it adds and the values it sets.                                    *)
(***************************************************************************)
EXTENDS Frames, Integers

EmptyVersion == [runs |-> <<>>, next |-> 0, last |-> 0]

\* Version::apply.
Apply(v, e) == [runs |-> v.runs \o e.runs, next |-> e.next, last |-> e.last]

\* The edit of a flush: a new run, the next id, the highest flushed seq.
FlushEdit(id, seq) == [runs |-> <<id>>, next |-> id + 1, last |-> seq]

\* Version::to_snapshot.
Snapshot(v) == [runs |-> v.runs, next |-> v.next, last |-> v.last]

\* The replay of ManifestManager::open.
Fold(log) ==
    LET edits == Replay(log)
        version[n \in 0..Len(edits)] ==
            IF n = 0 THEN EmptyVersion ELSE Apply(version[n - 1], edits[n])
    IN  version[Len(edits)]

LiveFiles(v) == {v.runs[i] : i \in DOMAIN v.runs}
=============================================================================
