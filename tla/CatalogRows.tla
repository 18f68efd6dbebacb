---------------------------- MODULE CatalogRows ----------------------------
(***************************************************************************)
(* The catalog's metadata (crates/strata-db/src/catalog/mod.rs): what each *)
(* lookup returns, and the writes each operation issues, in order.  The    *)
(* metadata of projects, datasets, table incarnations and columns are rows *)
(* of system tables, in the same store as user rows.                       *)
(***************************************************************************)
EXTENDS TableApi

CONSTANTS
    MaxTruncation   \* u64::MAX, the last incarnation

ASSUME CatalogRowsAssumption == MaxTruncation \in 0 .. MaxByte

Initial == 0        \* TruncationId::INITIAL

\* The reserved ids are above every minted one.
SystemTable(id) ==
    [project |-> MaxByte, dataset |-> MaxByte, id |-> id, truncation |-> Initial]

ProjectsTable == SystemTable(1)
DatasetsTable == SystemTable(2)
TablesTable   == SystemTable(3)
ColumnsTable  == SystemTable(6)

(***************************************************************************)
(* Lookups.                                                                *)
(***************************************************************************)
GetProject(store, name) == Get(store, ProjectsTable, name)

GetDataset(store, project, name) ==
    IF project = None THEN None
    ELSE Get(store, DatasetsTable, <<project>> \o name)

TableMetas(store, project, dataset) ==
    Scan(store, TablesTable, <<project, dataset>>)

\* Every retained incarnation of `name`: the dataset is scanned and the
\* stored names compared.
TableIncarnations(store, project, dataset, name) ==
    SelectSeq(TableMetas(store, project, dataset), LAMBDA m : m.name = name)

\* A slip that keeps the first incarnation listed.
LiveIncarnationsFirst(metas) ==
    {metas[i] : i \in {i \in DOMAIN metas :
        \A j \in 1 .. i - 1 : metas[j].name # metas[i].name}}

\* One row per name: the incarnation of the largest truncation id.
LiveIncarnations(metas) ==
    {m \in ToSet(metas) : \A o \in ToSet(metas) :
        o.name = m.name => o.truncation <= m.truncation}

\* A slip that takes the incarnation listed first.
GetTableFirst(store, project, dataset, name) ==
    LET metas == TableIncarnations(store, project, dataset, name)
    IN  IF metas = << >> THEN None ELSE metas[1]

GetTable(store, project, dataset, name) ==
    LET metas == ToSet(TableIncarnations(store, project, dataset, name))
    IN  IF metas = {} THEN None
        ELSE CHOOSE m \in metas : \A o \in metas : o.truncation <= m.truncation

ListTables(store, project, dataset) ==
    LiveIncarnations(TableMetas(store, project, dataset))

\* The columns of a table id, in the order of their positions.
ListColumns(store, table) == Scan(store, ColumnsTable, <<table>>)

AssembleSchema(store, table) ==
    LET columns == ListColumns(store, table)
    IN  [i \in DOMAIN columns |-> columns[i].type]

Descriptor(project, dataset, meta, schema) ==
    [project |-> project, dataset |-> dataset, id |-> meta.id,
     truncation |-> meta.truncation, schema |-> schema]

\* Dataset::table, from the ids a handle holds.
OpenTable(store, project, dataset, name) ==
    LET meta == GetTable(store, project, dataset, name)
    IN  IF meta = None THEN None
        ELSE Descriptor(project, dataset, meta, AssembleSchema(store, meta.id))

\* resolve_table: project, then dataset, then table.
ResolveTable(store, p, d, name) ==
    LET project == GetProject(store, p)
        dataset == GetDataset(store, project, d)
    IN  IF dataset = None THEN None ELSE OpenTable(store, project, dataset, name)

(***************************************************************************)
(* The virtual relations of catalog/system.rs, generated from the          *)
(* metadata.  The system project has no row, so there is none to hide.     *)
(***************************************************************************)
Namespaces(store) ==
    UNION {{<<p, d>> : d \in ToSet(Scan(store, DatasetsTable, <<p>>))} :
             p \in ToSet(Scan(store, ProjectsTable, << >>))}

\* information_schema.tables, pg_class.
SystemTables(store) ==
    UNION {ListTables(store, ns[1], ns[2]) : ns \in Namespaces(store)}

\* A slip that reads the table metadata without going by its parents.
SystemColumnsOrphans(store) ==
    UNION {{[table |-> t.name, position |-> c.position, type |-> c.type] :
              c \in ToSet(ListColumns(store, t.id))} :
                t \in ToSet(Scan(store, TablesTable, << >>))}

\* information_schema.columns, pg_attribute.
SystemColumns(store) ==
    UNION {{[table |-> t.name, position |-> c.position, type |-> c.type] :
              c \in ToSet(ListColumns(store, t.id))} : t \in SystemTables(store)}

(***************************************************************************)
(* The writes of each operation.  `fresh` is the id it mints if it does.   *)
(***************************************************************************)
WriteColumns(table, schema) ==
    [i \in DOMAIN schema |->
        PutRow(ColumnsTable, <<table, i>>, [position |-> i, type |-> schema[i]])]

ClearColumns(store, table) ==
    LET columns == ListColumns(store, table)
    IN  [i \in DOMAIN columns |->
            DeleteRow(ColumnsTable, <<table, columns[i].position>>)]

TableKey(project, dataset, name, truncation) ==
    <<project, dataset>> \o name \o <<truncation>>

PutTableMeta(project, dataset, name, table, truncation) ==
    PutRow(TablesTable, TableKey(project, dataset, name, truncation),
           [name |-> name, id |-> table, truncation |-> truncation])

CreateTableWrites(project, dataset, name, schema, fresh) ==
    Append(WriteColumns(fresh, schema),
           PutTableMeta(project, dataset, name, fresh, Initial))

\* CREATE OR REPLACE TABLE: the columns of the stable id are rewritten, then
\* the next incarnation is put.
ReplaceTableWrites(store, project, dataset, name, schema, fresh) ==
    LET current    == GetTable(store, project, dataset, name)
        table      == IF current = None THEN fresh ELSE current.id
        truncation == IF current = None THEN Initial ELSE current.truncation + 1
    IN  ClearColumns(store, table) \o WriteColumns(table, schema)
          \o <<PutTableMeta(project, dataset, name, table, truncation)>>

TruncationExhausted(store, project, dataset, name) ==
    LET current == GetTable(store, project, dataset, name)
    IN  current # None /\ current.truncation = MaxTruncation

\* A slip that removes the newest incarnation first.
DropTableWritesNewestFirst(store, project, dataset, name) ==
    LET metas == Reverse(TableIncarnations(store, project, dataset, name))
    IN  [i \in DOMAIN metas |->
            DeleteRow(TablesTable,
                      TableKey(project, dataset, name, metas[i].truncation))]

DropTableWrites(store, project, dataset, name) ==
    LET metas == TableIncarnations(store, project, dataset, name)
    IN  [i \in DOMAIN metas |->
            DeleteRow(TablesTable,
                      TableKey(project, dataset, name, metas[i].truncation))]
============================================================================
