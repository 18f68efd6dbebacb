------------------------------- MODULE Server -------------------------------
(***************************************************************************)
(* strata-server (bins/strata-server/src/main.rs): connections send simple *)
(* queries, each a batch of statements, to the one thread that owns the    *)
(* engine, over an unbounded channel, and wait for the reply on a one-shot *)
(* channel.  The thread takes one request at a time and holds the engine   *)
(* for all of it: every statement of the batch is bound against the        *)
(* catalog first, and then they are executed in order.  There is no        *)
(* transaction: what executed before an error stays.                       *)
(*                                                                         *)
(* The statements are those the binder accepts: SELECT * from a table,     *)
(* INSERT of rows, CREATE [OR REPLACE] TABLE and CREATE SCHEMA.  A table   *)
(* is named by a path <<dataset, table>> in the project strata, which      *)
(* Db::open seeded together with the dataset public.  An inserted row is   *)
(* [key, values, oversized], with the type of each value; a column is      *)
(* [ty, nullable].                                                         *)
(***************************************************************************)
EXTENDS CatalogRows

CONSTANTS
    Clients,
    Batches,        \* the batches a client may send
    TablePaths,
    MaxSent,        \* bound: requests sent
    MaxFaults       \* bound: failed reads and writes, and panics of the thread

ASSUME ServerAssumption ==
    /\ MaxSent \in Nat
    /\ MaxFaults \in Nat

\* A batch is a Vec of statements.
ASSUME BatchesAssumption ==
    \A b \in Batches : b \in Seq({b[i] : i \in DOMAIN b})

VARIABLES
    store, nextId,
    thread,     \* the engine thread: "serving", or "stopped" by a panic
    queue,      \* the requests in the channel: [number, client, batch]
    run,        \* the request being executed, or None
    client,     \* each connection: "idle", "waiting" or "gone"
    waits,      \* the request whose reply a connection waits for, 0 if none
    asked,      \* history: the last batch each client sent
    reply,      \* what came back for it, or None
    sent, faults,
    keys,       \* history: what each path stands for.  now: the keys inserted
                \* since it was last created or replaced; astray: those of them
                \* whose row went to an incarnation replaced by then; before:
                \* the keys of the incarnation the running batch was bound to,
                \* if it replaced that, or None if its columns were torn
    torn        \* history: the paths whose last CREATE OR REPLACE was cut
                \* short after it began rewriting columns

vars == <<store, nextId, thread, queue, run, client, waits, asked, reply,
          sent, faults, keys, torn>>

Connections == <<client, waits, asked, reply>>

ProjectName == <<1>>    \* strata, whose id is Project
PublicName  == <<1>>    \* public, the default dataset
Project     == 1

\* Db::open has returned: the default namespace is in the store.
Init ==
    /\ store = ApplyWrite(ApplyWrite([k \in {} |-> None],
                                     PutRow(ProjectsTable, ProjectName, Project)),
                          PutRow(DatasetsTable, <<Project>> \o PublicName, 2))
    /\ nextId = 3
    /\ thread = "serving"
    /\ queue = << >>
    /\ run = None
    /\ client = [c \in Clients |-> "idle"]
    /\ waits = [c \in Clients |-> 0]
    /\ asked = [c \in Clients |-> None]
    /\ reply = [c \in Clients |-> None]
    /\ sent = 0
    /\ faults = 0
    /\ keys = [t \in TablePaths |-> [now |-> {}, astray |-> {}, before |-> {}]]
    /\ torn = {}

Error(text) == [ok |-> FALSE, error |-> text, results |-> << >>]

(***************************************************************************)
(* Connections.                                                            *)
(***************************************************************************)
\* do_query hands the batch to the engine thread, if there still is one.
SendQuery(c, batch) ==
    /\ client[c] = "idle"
    /\ sent < MaxSent
    /\ sent' = sent + 1
    /\ asked' = [asked EXCEPT ![c] = batch]
    /\ IF thread = "serving"
       THEN /\ queue' = Append(queue, [number |-> sent', client |-> c,
                                       batch |-> batch])
            /\ client' = [client EXCEPT ![c] = "waiting"]
            /\ waits' = [waits EXCEPT ![c] = sent']
            /\ reply' = [reply EXCEPT ![c] = None]
       ELSE /\ reply' = [reply EXCEPT ![c] = Error("engine thread has stopped")]
            /\ UNCHANGED <<queue, client, waits>>
    /\ UNCHANGED <<store, nextId, thread, run, faults, keys, torn>>

\* The connection ends while its query is queued or runs: nobody will read
\* the reply, but the request is not withdrawn.
Disconnect(c) ==
    /\ client[c] = "waiting"
    /\ client' = [client EXCEPT ![c] = "gone"]
    /\ waits' = [waits EXCEPT ![c] = 0]
    /\ UNCHANGED <<store, nextId, thread, queue, run, asked, reply,
                   sent, faults, keys, torn>>

Reconnect(c) ==
    /\ client[c] = "gone"
    /\ client' = [client EXCEPT ![c] = "idle"]
    /\ UNCHANGED <<store, nextId, thread, queue, run, waits, asked, reply,
                   sent, faults, keys, torn>>

\* A slip that addresses the reply to the client, not to the request.
AnswerClient(answer) ==
    IF client[run.client] = "waiting"
    THEN /\ client' = [client EXCEPT ![run.client] = "idle"]
         /\ waits' = [waits EXCEPT ![run.client] = 0]
         /\ reply' = [reply EXCEPT ![run.client] = answer]
    ELSE UNCHANGED <<client, waits, reply>>

\* req.reply.send and the end of do_query.
Answer(answer) ==
    IF client[run.client] = "waiting" /\ waits[run.client] = run.number
    THEN /\ client' = [client EXCEPT ![run.client] = "idle"]
         /\ waits' = [waits EXCEPT ![run.client] = 0]
         /\ reply' = [reply EXCEPT ![run.client] = answer]
    ELSE UNCHANGED <<client, waits, reply>>

(***************************************************************************)
(* The engine thread.                                                      *)
(***************************************************************************)
\* coerce_value: NULL only where it is allowed, another value only into a column
\* of its type.  A type here is a class of types among which values convert; a
\* number the column cannot hold is of no column's type.
Fits(value, column) ==
    IF value = "null" THEN column.nullable ELSE value = column.ty

\* bind_insert, the positional form: at most one value for each column, and NULL
\* for the columns behind the last value, which have no DEFAULT.
RowFits(schema, row) ==
    /\ Len(row.values) <= Len(schema)
    /\ \A i \in DOMAIN schema :
          Fits(IF i <= Len(row.values) THEN row.values[i] ELSE "null", schema[i])

\* resolve_table, for a table that is read or inserted into.
BoundTable(path) == ResolveTable(store, ProjectName, path[1], path[2])

\* bind_create_table: the parent of a table to be created.
BoundDataset(path) == GetDataset(store, GetProject(store, ProjectName), path[1])

\* What binding a statement resolves in the catalog.
Bound(stmt) ==
    [stmt    |-> stmt,
     table   |-> IF stmt.kind \in {"insert", "select"} THEN BoundTable(stmt.path)
                 ELSE None,
     dataset |-> IF stmt.kind \in {"create", "replace"} THEN BoundDataset(stmt.path)
                 ELSE None]

\* Bind::run fails if one statement of the batch does.
BindFails(plans) ==
    \E i \in DOMAIN plans :
        LET plan == plans[i]
            stmt == plan.stmt
        IN  \/ stmt.kind \in {"insert", "select"} /\ plan.table = None
            \/ /\ stmt.kind = "insert" /\ plan.table # None
               /\ \E r \in ToSet(stmt.rows) : ~RowFits(plan.table.schema, r)
            \/ stmt.kind \in {"create", "replace"} /\ plan.dataset = None

\* blocking_recv and Planner::plan: all statements are bound before any runs.
TakeRequest ==
    /\ thread = "serving"
    /\ run = None
    /\ queue # << >>
    /\ queue' = Tail(queue)
    /\ LET req   == Head(queue)
           plans == [i \in DOMAIN req.batch |-> Bound(req.batch[i])]
       IN  run' = [number |-> req.number, client |-> req.client,
                   plans |-> plans, at |-> 1, writes |-> << >>,
                   started |-> FALSE, results |-> << >>,
                   error |-> BindFails(plans), replaced |-> {}]
    /\ UNCHANGED <<store, nextId, thread, Connections, sent, faults, keys, torn>>

Executing == run # None /\ ~run.error /\ run.at <= Len(run.plans)
Plan      == run.plans[run.at]
Stmt      == Plan.stmt
Starts(kind) == Executing /\ run.writes = << >> /\ Stmt.kind = kind

Raise == run' = [run EXCEPT !.error = TRUE]

\* The statement is done: its result, and on to the next.
Advance(result, replaced) ==
    run' = [run EXCEPT !.at = @ + 1, !.writes = << >>, !.started = FALSE,
                       !.results = Append(@, result),
                       !.replaced = @ \union replaced]

\* The rows a SELECT finds: those of the incarnation it was bound to, read with
\* the schema it was bound with.
Selected == ToSet(ScanRows(store, Plan.table))

\* Its result: `want` records what it should find, `torn` whether the columns of
\* its table are half rewritten.
SelectResult ==
    LET k      == keys[Stmt.path]
        behind == Stmt.path \in run.replaced
    IN  [kind |-> "rows", rows |-> Selected,
         want |-> IF behind THEN k.before ELSE k.now,
         astray |-> IF behind THEN {} ELSE k.astray,
         torn |-> Stmt.path \in torn]

Select ==
    /\ Starts("select")
    /\ Advance(SelectResult, {})
    /\ UNCHANGED <<store, nextId, thread, queue, Connections, sent, faults,
                   keys, torn>>

\* A row cannot be read, or does not decode: collecting the rows ends with the
\* error.
SelectFails ==
    /\ Starts("select")
    /\ \/ Garbled \in Selected /\ UNCHANGED faults
       \/ faults < MaxFaults /\ faults' = faults + 1
    /\ Raise
    /\ UNCHANGED <<store, nextId, thread, queue, Connections, sent, keys, torn>>

\* A write statement begins: it fails at once, or its writes follow.  The rows of
\* an INSERT are put one by one; one that is too large is refused at its turn.
Refused == None

BeginInsert ==
    /\ Starts("insert")
    /\ run' = [run EXCEPT !.writes =
          [i \in DOMAIN Stmt.rows |->
              IF Stmt.rows[i].oversized THEN Refused
              ELSE PutRow(Plan.table, Stmt.rows[i].key,
                          Encode(Plan.table.schema, Stmt.rows[i].key))]]
    /\ UNCHANGED <<store, nextId, thread, queue, Connections, sent, faults,
                   keys, torn>>

BeginCreate ==
    /\ Starts("create")
    /\ IF GetTable(store, Project, Plan.dataset, Stmt.path[2]) # None
       THEN Raise /\ UNCHANGED nextId     \* AlreadyExists
       ELSE /\ nextId' = nextId + 1
            /\ run' = [run EXCEPT !.writes =
                 CreateTableWrites(Project, Plan.dataset, Stmt.path[2],
                                   Stmt.schema, nextId)]
    /\ UNCHANGED <<store, thread, queue, Connections, sent, faults, keys, torn>>

BeginReplace ==
    /\ Starts("replace")
    /\ IF TruncationExhausted(store, Project, Plan.dataset, Stmt.path[2])
       THEN Raise /\ UNCHANGED nextId
       ELSE LET mints == GetTable(store, Project, Plan.dataset, Stmt.path[2]) = None IN
            /\ nextId' = IF mints THEN nextId + 1 ELSE nextId
            /\ run' = [run EXCEPT !.writes =
                 ReplaceTableWrites(store, Project, Plan.dataset, Stmt.path[2],
                                    Stmt.schema, nextId)]
    /\ UNCHANGED <<store, thread, queue, Connections, sent, faults, keys, torn>>

\* CREATE SCHEMA [IF NOT EXISTS].
BeginSchema ==
    /\ Starts("schema")
    /\ IF GetDataset(store, Project, Stmt.dataset) = None
       THEN /\ nextId' = nextId + 1
            /\ run' = [run EXCEPT !.writes =
                 <<PutRow(DatasetsTable, <<Project>> \o Stmt.dataset, nextId)>>]
       ELSE /\ IF Stmt.ifNotExists THEN Advance([kind |-> "affected"], {}) ELSE Raise
            /\ UNCHANGED nextId
    /\ UNCHANGED <<store, thread, queue, Connections, sent, faults, keys, torn>>

\* What the write at hand makes of a table's keys once it is applied.  All
\* statements of a batch were bound before the first ran, so a row inserted
\* behind a CREATE OR REPLACE of its table goes to the incarnation before.
KeysAfter ==
    CASE Stmt.kind = "insert" ->
            LET key == Stmt.rows[Len(Stmt.rows) - Len(run.writes) + 1].key
                k   == keys[Stmt.path]
            IN  [keys EXCEPT ![Stmt.path] =
                    IF Stmt.path \in run.replaced
                    THEN [now    |-> k.now \union {key},
                          astray |-> k.astray \union {key},
                          before |-> IF k.before = None THEN None
                                     ELSE k.before \union {key}]
                    ELSE [k EXCEPT !.now = @ \union {key}, !.astray = @ \ {key}]]
      [] Stmt.kind \in {"create", "replace"} /\ Len(run.writes) = 1 ->
            [keys EXCEPT ![Stmt.path] =
                [now    |-> {},
                 astray |-> {},
                 before |-> CASE Stmt.path \in run.replaced -> @.before
                              [] Stmt.path \in torn         -> None
                              [] OTHER                      -> @.now \ @.astray]]
      [] OTHER -> keys

Settles == IF Stmt.kind = "replace" THEN {Stmt.path} ELSE {}

Write ==
    /\ Executing /\ run.writes # << >> /\ Head(run.writes) # Refused
    /\ store' = ApplyWrite(store, Head(run.writes))
    /\ keys' = KeysAfter
    /\ IF Len(run.writes) = 1
       THEN /\ Advance([kind |-> "affected"], Settles)
            /\ torn' = torn \ Settles
       ELSE /\ run' = [run EXCEPT !.writes = Tail(@), !.started = TRUE]
            /\ UNCHANGED torn
    /\ UNCHANGED <<nextId, thread, queue, Connections, sent, faults>>

\* check_value_size: the rows before this one stay.
RefuseRow ==
    /\ Executing /\ run.writes # << >> /\ Head(run.writes) = Refused
    /\ Raise
    /\ UNCHANGED <<store, nextId, thread, queue, Connections, sent, faults,
                   keys, torn>>

\* The engine returns an error for a write: no read sees it.
WriteFails ==
    /\ Executing /\ run.writes # << >> /\ Head(run.writes) # Refused
    /\ faults < MaxFaults
    /\ faults' = faults + 1
    /\ Raise
    /\ torn' = IF run.started THEN torn \union Settles ELSE torn
    /\ UNCHANGED <<store, nextId, thread, queue, Connections, sent, keys>>

\* Of the results the reply keeps whether each is rows or a count.
Kinds == [i \in DOMAIN run.results |-> run.results[i].kind]

\* run_query returns: the first error, or the results of all statements.
Finish ==
    /\ run # None
    /\ run.error \/ run.at > Len(run.plans)
    /\ run' = None
    /\ Answer(IF run.error THEN Error("query failed")
              ELSE [ok |-> TRUE, error |-> "", results |-> Kinds])
    /\ UNCHANGED <<store, nextId, thread, queue, asked, sent, faults, keys, torn>>

\* Does the thread plan a batch, or execute one?
InQuery == Executing \/ (thread = "serving" /\ run = None /\ queue # << >>)

\* A slip that lets the receiver outlive the thread: nobody drops the requests in
\* the channel.
ThreadPanicsKeepsQueue ==
    /\ run # None /\ InQuery
    /\ faults < MaxFaults
    /\ faults' = faults + 1
    /\ thread' = "stopped"
    /\ run' = None
    /\ client' = [c \in Clients |->
                    IF waits[c] = run.number THEN "idle" ELSE client[c]]
    /\ reply' = [c \in Clients |->
                    IF waits[c] = run.number THEN Error("engine dropped the query")
                    ELSE reply[c]]
    /\ waits' = [c \in Clients |-> IF waits[c] = run.number THEN 0 ELSE waits[c]]
    /\ torn' = IF run.started THEN torn \union Settles ELSE torn
    /\ UNCHANGED <<store, nextId, queue, asked, sent, keys>>

\* A batch panics, while it is planned or while it is executed.  The receiver is
\* dropped with the thread, and with it every request in the channel and the
\* senders of their replies.
ThreadPanics ==
    /\ InQuery
    /\ faults < MaxFaults
    /\ faults' = faults + 1
    /\ thread' = "stopped"
    /\ run' = None
    /\ queue' = << >>
    /\ client' = [c \in Clients |->
                    IF client[c] = "waiting" THEN "idle" ELSE client[c]]
    /\ reply' = [c \in Clients |->
                    IF client[c] = "waiting" THEN Error("engine dropped the query")
                    ELSE reply[c]]
    /\ waits' = [c \in Clients |-> 0]
    /\ torn' = IF run # None /\ run.started THEN torn \union Settles ELSE torn
    /\ UNCHANGED <<store, nextId, asked, sent, keys>>

EngineStep ==
    \/ TakeRequest \/ Select \/ BeginInsert \/ BeginCreate \/ BeginReplace
    \/ BeginSchema \/ Write \/ RefuseRow \/ Finish

Next ==
    \/ \E c \in Clients : \/ \E b \in Batches : SendQuery(c, b)
                          \/ Disconnect(c)
                          \/ Reconnect(c)
    \/ EngineStep
    \/ SelectFails
    \/ WriteFails
    \/ ThreadPanics

\* A step of the engine thread is possible exactly when it has a request.
HasWork == run # None \/ (thread = "serving" /\ queue # << >>)

\* Weak fairness of the engine thread, with HasWork for what enables it: the
\* operating system schedules the thread.
Fairness == []<>~HasWork \/ []<><<EngineStep>>_vars

Spec == Init /\ [][Next]_vars /\ Fairness

-----------------------------------------------------------------------------
\* do_query: a client that gets results gets those of the batch it last sent,
\* one per statement in order, also when an earlier query of the same client
\* was abandoned and finishes late.
ReplyMatches ==
    \A c \in Clients :
        client[c] = "idle" /\ reply[c] # None /\ reply[c].ok =>
            /\ Len(reply[c].results) = Len(asked[c])
            /\ \A i \in DOMAIN asked[c] :
                  (reply[c].results[i] = "rows") <=> (asked[c][i].kind = "select")

\* run_query: a SELECT that returns rows returns exactly those inserted since its
\* table was last created or replaced, whatever other clients' batches did
\* meanwhile and however earlier ones failed, with two exceptions that follow
\* from binding a batch before it runs.  An INSERT behind a CREATE OR REPLACE of
\* its table in the same batch puts its rows into the incarnation that was
\* replaced: exactly they are missing later.  A SELECT behind one in the same
\* batch returns exactly the rows of the incarnation that was replaced.  Nothing
\* is said of a table whose last replacement failed half-way (see ViewRight of
\* module Catalog).
SelectRight ==
    run # None =>
        \A i \in DOMAIN run.results :
            LET r == run.results[i]
            IN  r.kind = "rows" /\ ~r.torn /\ r.want # None => r.rows = r.want \ r.astray

\* The engine loop: a waiting client stops waiting, also when its batch fails
\* or the thread panics with its request still in the channel.
Answered == \A c \in Clients : client[c] = "waiting" ~> client[c] # "waiting"
============================================================================
