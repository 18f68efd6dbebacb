------------------------------- MODULE Catalog -------------------------------
(***************************************************************************)
(* The catalog as a program that embeds the database uses it: Db, Project, *)
(* Dataset and Table handles (crates/strata-db/src/catalog), CREATE OR     *)
(* REPLACE TABLE, and rows written through handles that may be stale.      *)
(*                                                                         *)
(* The engine is borrowed for the whole of an operation, so operations do  *)
(* not interleave; but an operation is several engine writes, there is no  *)
(* transaction around them, and any of them may return an error or be the  *)
(* last before a crash.                                                    *)
(*                                                                         *)
(* What the engine keeps is what module StorageEngine shows.  The index    *)
(* entry of a write that returned is durable; one of a write that failed   *)
(* is in doubt until a write to its key returns, and comes to light, if at *)
(* all, when the database is opened again.  The tuple a put stores is      *)
(* durable only once the heap commits.  Nothing in strata-db or in the     *)
(* binaries calls StorageEngine::flush, at a close neither, so the heap    *)
(* commits only where the page cache makes room, which it may do at any    *)
(* call.  A key whose tuple was not committed reads as an error, or as     *)
(* absent, in the reopened database.                                       *)
(* A database that lost a tuple is followed up to the end of that open:    *)
(* what its lost locations read once their page ids are handed out again   *)
(* is the subject of StorageEngine.                                        *)
(***************************************************************************)
EXTENDS CatalogRows

CONSTANTS
    TableNames, UserKeys,
    Schemas,                    \* the schemas given to the table of a name
    ScanPrefixes,               \* prefixes a scan is bounded by
    ProjectName, DatasetName,   \* the default namespace, strata.public
    MaxId,                      \* bound: ids minted
    MaxDdl,                     \* bound: CREATE, REPLACE and DROP operations
    MaxFaults,                  \* bound: failed writes and crashes
    MaxLost                     \* bound: tuples a crash or a close takes

ASSUME CatalogAssumption ==
    /\ MaxId \in 1 .. MaxByte - 1
    /\ MaxDdl \in Nat
    /\ MaxFaults \in Nat
    /\ MaxLost \in Nat

VARIABLES
    store,      \* what each key of the engine reads as
    puts,       \* the last tuples stored in the heap since the database was
                \* opened, in order, without those no entry leads to any more
    doubt,      \* the failed writes in doubt, with the names they are about
    nextId,     \* the next UUID to mint
    db,         \* "closed", or "open"
    op,         \* the operation under way: its remaining writes and what
                \* holds once they are all applied; None between operations
    table,      \* the Table handle held: its descriptor
    ddl,        \* DDL operations begun
    faults,
    expected,   \* history: for each name, the incarnation it stands for, its
                \* schema and the keys written to it; None if it has no table
    torn,       \* history: the names whose last CREATE OR REPLACE was cut
                \* short after it began rewriting columns
    revived,    \* history: the names a reopened database found changed by an
                \* operation on them that had failed
    lost        \* history: the keys whose tuple a crash or a close took

engine  == <<store, puts, doubt>>
history == <<expected, torn, revived, lost>>
vars == <<engine, nextId, db, op, table, ddl, faults, history>>

Absent == [n \in TableNames |-> None]

Init ==
    /\ store = [k \in {} |-> None]
    /\ puts = << >>
    /\ doubt = {}
    /\ nextId = 1
    /\ db = "closed"
    /\ op = None
    /\ table = None
    /\ ddl = 0
    /\ faults = 0
    /\ expected = Absent
    /\ torn = {} /\ revived = {} /\ lost = {}

\* The ids the default namespace resolves to.
Namespace ==
    LET p == GetProject(store, ProjectName)
        d == GetDataset(store, p, DatasetName)
    IN  IF d = None THEN None ELSE [project |-> p, dataset |-> d]

\* The database is open and followed on.
Ready == db = "open" /\ op = None /\ lost = {}
DdlReady == Ready /\ ddl < MaxDdl

(***************************************************************************)
(* An operation starts by reading what it needs; its writes follow.        *)
(***************************************************************************)
Begin(writes, done) ==
    /\ op' = [writes |-> writes, done |-> done, started |-> FALSE]
    /\ UNCHANGED <<engine, db, faults, history>>

\* The same for an operation on the catalog, of which MaxDdl are made.
BeginDdl(writes, done) ==
    /\ ddl' = ddl + 1
    /\ Begin(writes, done)

\* What holds once the operation on the tables `names` is through: the handle,
\* what the names stand for, the names it gives a fresh start; `tears` are those
\* it leaves half rewritten if it is cut short.
Holds(t, e, names, cleared, tears) ==
    [table |-> t, expected |-> e, names |-> names, cleared |-> cleared,
     tears |-> tears]

\* What an operation that touches no table leaves.
Same == Holds(table, expected, {}, {}, {})

\* A slip that seeds the dataset only with the project.
SeedWritesOnce ==
    IF GetProject(store, ProjectName) # None THEN << >>
    ELSE <<PutRow(ProjectsTable, ProjectName, nextId),
           PutRow(DatasetsTable, <<nextId>> \o DatasetName, nextId + 1)>>

\* ensure_default_namespace: the project, then the dataset under it.
SeedWrites ==
    LET p == GetProject(store, ProjectName)
    IN  IF p = None
        THEN <<PutRow(ProjectsTable, ProjectName, nextId),
               PutRow(DatasetsTable, <<nextId>> \o DatasetName, nextId + 1)>>
        ELSE IF GetDataset(store, p, DatasetName) = None
             THEN <<PutRow(DatasetsTable, <<p>> \o DatasetName, nextId)>>
             ELSE << >>

\* A lookup of ensure_default_namespace meets a tuple whose page is gone: the
\* open returns the error, and the database stays closed.
OpenFails ==
    LET p == GetProject(store, ProjectName)
    IN  p = Unreadable \/ GetDataset(store, p, DatasetName) = Unreadable

Open ==
    /\ db = "closed" /\ op = None
    /\ ~OpenFails
    /\ nextId + Len(SeedWrites) <= MaxId + 1
    /\ nextId' = nextId + Len(SeedWrites)
    /\ IF SeedWrites = << >>
       THEN db' = "open" /\ UNCHANGED <<engine, op, faults, history>>
       ELSE Begin(SeedWrites, Same)
    /\ UNCHANGED <<ddl, table>>

CreateProject ==
    /\ DdlReady
    /\ GetProject(store, ProjectName) = None
    /\ nextId <= MaxId
    /\ nextId' = nextId + 1
    /\ BeginDdl(<<PutRow(ProjectsTable, ProjectName, nextId)>>, Same)
    /\ UNCHANGED table

DropProject ==
    /\ DdlReady
    /\ GetProject(store, ProjectName) # None
    /\ BeginDdl(<<DeleteRow(ProjectsTable, ProjectName)>>,
                Holds(table, Absent, TableNames, TableNames, {}))
    /\ UNCHANGED <<nextId, table>>

CreateDataset ==
    LET p == GetProject(store, ProjectName) IN
    /\ DdlReady
    /\ p # None
    /\ GetDataset(store, p, DatasetName) = None
    /\ nextId <= MaxId
    /\ nextId' = nextId + 1
    /\ BeginDdl(<<PutRow(DatasetsTable, <<p>> \o DatasetName, nextId)>>, Same)
    /\ UNCHANGED table

DropDataset ==
    LET p == GetProject(store, ProjectName) IN
    /\ DdlReady
    /\ p # None
    /\ GetDataset(store, p, DatasetName) # None
    /\ BeginDdl(<<DeleteRow(DatasetsTable, <<p>> \o DatasetName)>>,
                Holds(table, Absent, TableNames, TableNames, {}))
    /\ UNCHANGED <<nextId, table>>

\* The table operations open the project and the dataset by name first.
Current(name) == GetTable(store, Namespace.project, Namespace.dataset, name)

Entry(t) ==
    [incarnation |-> TablePrefix(t), schema |-> t.schema, keys |-> {}]

CreateTable(name, schema) ==
    LET d    == Namespace
        meta == [id |-> nextId, truncation |-> Initial]
        t    == Descriptor(d.project, d.dataset, meta, schema)
    IN
    /\ DdlReady
    /\ d # None
    /\ Current(name) = None
    /\ nextId <= MaxId
    /\ nextId' = nextId + 1
    /\ BeginDdl(CreateTableWrites(d.project, d.dataset, name, schema, nextId),
                Holds(t, [expected EXCEPT ![name] = Entry(t)], {name}, {name}, {}))
    /\ UNCHANGED table

ReplaceTable(name, schema) ==
    LET d    == Namespace
        meta == Current(name)
        new  == IF meta = None THEN [id |-> nextId, truncation |-> Initial]
                ELSE [id |-> meta.id, truncation |-> meta.truncation + 1]
        t    == Descriptor(d.project, d.dataset, new, schema)
    IN
    /\ DdlReady
    /\ d # None
    /\ ~TruncationExhausted(store, d.project, d.dataset, name)
    /\ meta = None => nextId <= MaxId
    /\ nextId' = IF meta = None THEN nextId + 1 ELSE nextId
    /\ BeginDdl(ReplaceTableWrites(store, d.project, d.dataset, name, schema, nextId),
                Holds(table, [expected EXCEPT ![name] = Entry(t)], {name}, {name},
                      IF meta = None THEN {} ELSE {name}))
    /\ UNCHANGED table

DropTable(name) ==
    LET d == Namespace IN
    /\ DdlReady
    /\ d # None
    /\ Current(name) # None
    /\ BeginDdl(DropTableWrites(store, d.project, d.dataset, name),
                Holds(table, [expected EXCEPT ![name] = None], {name}, {name}, {}))
    /\ UNCHANGED <<nextId, table>>

\* Dataset::table: the live incarnation and the schema of its columns.
OpenHandle(name) ==
    LET d == Namespace IN
    /\ Ready
    /\ d # None
    /\ Current(name) # None
    /\ table' = OpenTable(store, d.project, d.dataset, name)
    /\ UNCHANGED <<engine, nextId, db, op, ddl, faults, history>>

\* The names that stand for the incarnation the table handle addresses.
Addressed ==
    {n \in TableNames : expected[n] # None
                          /\ expected[n].incarnation = TablePrefix(table)}

WithKeys(update(_)) ==
    [n \in TableNames |->
        IF n \in Addressed
        THEN [expected[n] EXCEPT !.keys = update(@)]
        ELSE expected[n]]

InsertRow(key) ==
    /\ Ready
    /\ table # None
    /\ Begin(<<PutRow(table, key, Encode(table.schema, key))>>,
             Holds(table, WithKeys(LAMBDA ks : ks \union {key}), Addressed, {}, {}))
    /\ UNCHANGED <<nextId, ddl, table>>

RemoveRow(key) ==
    /\ Ready
    /\ table # None
    /\ Begin(<<DeleteRow(table, key)>>,
             Holds(table, WithKeys(LAMBDA ks : ks \ {key}), Addressed, {}, {}))
    /\ UNCHANGED <<nextId, ddl, table>>

(***************************************************************************)
(* The writes of the operation, one at a time.                             *)
(***************************************************************************)
Finish ==
    /\ op' = None
    /\ db' = "open"
    /\ table' = op.done.table
    /\ expected' = op.done.expected
    /\ torn' = torn \ op.done.cleared
    /\ revived' = revived \ op.done.cleared

\* The tuple of a put, and whether its index entry was acknowledged.
Stored(w, acked) == IF w.value = None THEN << >> ELSE <<[write |-> w, acked |-> acked]>>

\* Those of the tuples a crash may take, and one before them.
Recent(tuples) ==
    IF Len(tuples) <= MaxLost + 1 THEN tuples
    ELSE SubSeq(tuples, Len(tuples) - MaxLost, Len(tuples))

\* The write at hand returns: its index entry is durable, and no failed write to
\* its key is in doubt any more.
Write ==
    /\ op # None
    /\ LET w == Head(op.writes)
       IN  /\ store' = ApplyWrite(store, w)
           /\ puts' = Recent(SelectSeq(puts, LAMBDA p : p.write.key # w.key)
                                 \o Stored(w, TRUE))
           /\ doubt' = {d \in doubt : d.write.key # w.key}
    /\ IF Len(op.writes) = 1 THEN Finish
       ELSE /\ op' = [op EXCEPT !.writes = Tail(@), !.started = TRUE]
            /\ UNCHANGED <<db, table, expected, torn, revived>>
    /\ UNCHANGED <<nextId, ddl, faults, lost>>

Fault == faults < MaxFaults /\ faults' = faults + 1

\* What is torn if the operation ends with the write at hand not applied.
Torn == IF op.started THEN torn \union op.done.tears ELSE torn

\* An engine write returns an error, and the operation returns it.  No read sees
\* the write.  If it failed at the index, its record may be in the log.
WriteFails(logged) ==
    /\ op # None /\ db = "open"
    /\ Fault
    /\ op' = None
    /\ LET w == Head(op.writes)
       IN  IF logged
           THEN /\ doubt' = doubt \union {[write |-> w, names |-> op.done.names]}
                /\ puts' = Recent(puts \o Stored(w, FALSE))
           ELSE UNCHANGED <<doubt, puts>>
    /\ torn' = Torn
    /\ UNCHANGED <<store, nextId, db, table, ddl, expected, revived, lost>>

(***************************************************************************)
(* The engine goes down with the process and is recovered.  The writes of  *)
(* `found`, failed ones of which at most one per key, turn up.  `kept` of  *)
(* the tuples were stored before the last commit of the heap, the others   *)
(* are gone; the first `half` of them were on the page that this commit    *)
(* caught half filled, the rest on pages no commit wrote.                  *)
(***************************************************************************)
GoesDown(found, tuples, kept, half) ==
    LET after == [k \in DOMAIN store \union {w.key : w \in found} |->
                     IF \E w \in found : w.key = k
                     THEN (CHOOSE w \in found : w.key = k).value
                     ELSE store[k]]
        Leads(p) == IF p.acked THEN \A w \in found : w.key # p.write.key
                               ELSE p.write \in found
        gone(from, to) == {tuples[i].write.key : i \in {j \in from .. to : Leads(tuples[j])}}
        missing == gone(kept + 1, kept + half)
        blank   == gone(kept + half + 1, Len(tuples))
    IN
    /\ \A v, w \in found : v.key = w.key => v = w
    /\ half > 0 => kept > 0
    /\ store' = [k \in {x \in DOMAIN after : after[x] # None} |->
                    CASE k \in blank   -> Unreadable
                      [] k \in missing -> Missing
                      [] OTHER         -> after[k]]
    /\ puts' = << >>
    /\ doubt' = {}
    /\ lost' = lost \union missing \union blank
    /\ db' = "closed"
    /\ table' = None

\* Any point of the last commit that takes at most MaxLost tuples.
TakesDown(found, tuples) ==
    \E kept \in 0 .. Len(tuples) :
        /\ Len(tuples) - kept <= MaxLost
        /\ \E half \in 0 .. Len(tuples) - kept : GoesDown(found, tuples, kept, half)

WritesOf(found) == {d.write : d \in found}
NamesOf(found)  == UNION {d.names : d \in found}

\* In the middle of an operation.  The write at hand is one more in doubt.
Crash(applied, found) ==
    LET w    == Head(op.writes)
        done == applied /\ Len(op.writes) = 1
    IN
    /\ op # None
    /\ Fault
    /\ op' = None
    /\ IF applied THEN TakesDown(WritesOf(found) \union {w}, puts \o Stored(w, FALSE))
                  ELSE TakesDown(WritesOf(found), puts)
    /\ expected' = IF done THEN op.done.expected ELSE expected
    /\ torn' = CASE done -> torn \ op.done.cleared
                 [] ~done /\ applied -> torn \union op.done.tears
                 [] OTHER -> Torn
    /\ revived' = (IF done THEN revived \ op.done.cleared ELSE revived)
                     \union NamesOf(found)
    /\ UNCHANGED <<nextId, ddl>>

\* The process ends, or crashes between operations: no Drop flushes the heap.
Close(found) ==
    /\ Ready
    /\ TakesDown(WritesOf(found), puts)
    /\ revived' = revived \union NamesOf(found)
    /\ UNCHANGED <<nextId, op, ddl, faults, expected, torn>>

Next ==
    \/ Open
    \/ CreateProject \/ DropProject \/ CreateDataset \/ DropDataset
    \/ \E n \in TableNames :
          \/ \E s \in Schemas[n] : CreateTable(n, s) \/ ReplaceTable(n, s)
          \/ DropTable(n)
          \/ OpenHandle(n)
    \/ \E k \in UserKeys : InsertRow(k) \/ RemoveRow(k)
    \/ Write
    \/ \E logged \in BOOLEAN : WriteFails(logged)
    \/ \E found \in SUBSET doubt :
          \/ \E applied \in BOOLEAN : Crash(applied, found)
          \/ Close(found)

Spec == Init /\ [][Next]_vars

-----------------------------------------------------------------------------
\* What a query that names the table finds: the schema, the rows, and the user
\* keys they are stored under.
View(name) ==
    LET t == ResolveTable(store, ProjectName, DatasetName, name)
    IN  IF t = None THEN None
        ELSE [incarnation |-> TablePrefix(t), schema |-> t.schema,
              keys |-> ToSet(ScanRows(store, t)),
              stored |-> {SubSeq(k, Len(TablePrefix(t)) + 1, Len(k)) :
                            k \in ScanKeys(store, t, << >>)}]

\* No tuple that View reads is lost: those of the namespace, of the tables of the
\* dataset, of the columns and of the rows.
Intact(name) ==
    \A k \in lost :
        /\ \A t \in {ProjectsTable, DatasetsTable, TablesTable} :
              ~IsPrefix(TablePrefix(t), k)
        /\ expected[name] # None =>
              /\ ~IsPrefix(RowKey(ColumnsTable, <<expected[name].incarnation[3]>>), k)
              /\ ~IsPrefix(expected[name].incarnation, k)

\* resolve_table and a scan: between operations a name stands for exactly
\* the rows written to its live incarnation since it was created or replaced,
\* and they decode under the schema it was given.  Failed drops, dropped and
\* recreated parents, stale handles, reused names, and closes and crashes that
\* take no tuple the lookup needs do not change that.  A CREATE OR REPLACE cut
\* short does: it rewrites the columns of the live incarnation before it puts
\* the new one; but it leaves the name at the old incarnation with every row of
\* it stored.  Nothing is said of a name that a reopened database found changed
\* by an operation that had failed, until it is replaced, or dropped, or created.
ViewRight ==
    op = None =>
        \A n \in TableNames \ revived :
            LET v == View(n)
                e == expected[n]
            IN  Intact(n) =>
                  IF n \in torn
                  THEN v # None /\ v.incarnation = e.incarnation /\ v.stored = e.keys
                  ELSE IF e = None THEN v = None
                  ELSE v = [incarnation |-> e.incarnation, schema |-> e.schema,
                            keys |-> e.keys, stored |-> e.keys]

\* information_schema.tables: between operations, in a database that lost no
\* tuple, it lists each name that resolves once, at the incarnation the name
\* resolves to, and nothing that a dropped parent left behind.
ListsLive ==
    op = None /\ lost = {} =>
        {t \in SystemTables(store) : t.name \notin revived} =
            {GetTable(store, Namespace.project, Namespace.dataset, n) :
                n \in {x \in TableNames \ revived : expected[x] # None}}

\* information_schema.columns: between operations, in a database that lost no
\* tuple, it lists the columns of each table as last created or replaced, and no
\* column of an earlier incarnation, although they share the table's id.  Of a
\* table whose replacement was cut short it lists no position twice.
ColumnsRight ==
    op = None /\ lost = {} =>
        LET columns == SystemColumns(store)
            named(names) == {c \in columns : c.table \in names}
            sound == TableNames \ (torn \union revived)
        IN  /\ named(sound) =
                  UNION {{[table |-> n, position |-> i, type |-> expected[n].schema[i]] :
                            i \in DOMAIN expected[n].schema} :
                              n \in {x \in sound : expected[x] # None}}
            /\ \A c, d \in named(torn \ revived) :
                  c.table = d.table /\ c.position = d.position => c = d

\* ensure_default_namespace: however an earlier open ended, and whatever tuples a
\* crash or a close took, a database that opens has the default project and
\* dataset.  (It need not open: see OpenFails.)
OpenSeeds ==
    [][db = "closed" /\ db' = "open" => (Namespace # None)']_vars

\* next_after_prefix: between operations a scan by prefix of the table at hand
\* visits exactly the keys that start with the prefix, also where the last bytes
\* are 0xff.
ScansPrefix ==
    op = None /\ table # None =>
        \A prefix \in ScanPrefixes :
            LET start == RowKey(table, prefix)
            IN  ScanKeys(store, table, prefix) =
                    {k \in DOMAIN store : IsPrefix(start, k)}
============================================================================
