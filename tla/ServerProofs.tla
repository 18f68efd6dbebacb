---------------------------- MODULE ServerProofs ----------------------------
(***************************************************************************)
(* Proofs about Server, for every set of clients and of batches and every  *)
(* number of requests and faults.  The store is left opaque: what a client *)
(* is answered depends on the channels, not on the catalog.                *)
(***************************************************************************)
EXTENDS Server, TLAPS

\* s is a sequence, whatever its elements are.
IsSeq(s) == s \in Seq({s[i] : i \in DOMAIN s})

-----------------------------------------------------------------------------
(* Facts about sequences of values of no common type.                      *)

\* A sequence has a length, and its domain goes up to it.
LEMMA SeqDomain ==
    ASSUME NEW s, IsSeq(s)
    PROVE  Len(s) \in Nat /\ DOMAIN s = 1..Len(s)
  BY DEF IsSeq

\* A function built on 1..n is a sequence of length n.
LEMMA BuiltSeq ==
    ASSUME NEW n \in Nat, NEW f, f = [i \in 1..n |-> f[i]]
    PROVE  IsSeq(f) /\ Len(f) = n
  <1> DEFINE S == {f[i] : i \in DOMAIN f}
  <1>1. DOMAIN f = 1..n
    BY Zenon
  <1>2. f \in [1..n -> S]
    BY <1>1, Zenon
  <1>3. f \in Seq(S)
    BY <1>2
  <1> QED
    BY <1>1, <1>3 DEF IsSeq

\* Vec::push: one element more, behind the others.
LEMMA AppendSeq ==
    ASSUME NEW s, IsSeq(s), NEW r
    PROVE  /\ IsSeq(Append(s, r))
           /\ Len(Append(s, r)) = Len(s) + 1
           /\ \A i \in 1..Len(s) : Append(s, r)[i] = s[i]
           /\ Append(s, r)[Len(s) + 1] = r
  <1> DEFINE S == {s[i] : i \in DOMAIN s} \cup {r}
             t == Append(s, r)
  <1>1. s \in Seq(S) /\ r \in S
    BY DEF IsSeq
  <1>2. /\ t \in Seq(S)
        /\ Len(t) = Len(s) + 1
        /\ \A i \in 1..Len(s) : t[i] = s[i]
        /\ t[Len(s) + 1] = r
    BY <1>1
  <1> HIDE DEF t, S
  <1>3. Len(t) \in Nat /\ t = [i \in 1..Len(t) |-> t[i]]
    BY <1>2
  <1>4. IsSeq(t)
    BY <1>3, BuiltSeq, Zenon
  <1> QED
    BY <1>2, <1>4, Zenon DEF t

-----------------------------------------------------------------------------
(***************************************************************************)
(* The inductive invariant.  A reply reaches the right client because a    *)
(* request is known by its number and not by its client: numbers are never *)
(* used again, and a connection that gives up forgets the one it waited    *)
(* for.  So if a connection waits for a request that is queued or runs,    *)
(* the batch of that request is the last one it sent.                      *)
(***************************************************************************)
Requests == [number : Nat, client : Clients, batch : Batches]

Types ==
    /\ sent \in Nat
    /\ queue \in Seq(Requests)
    /\ client \in [Clients -> {"idle", "waiting", "gone"}]
    /\ waits \in [Clients -> Nat]
    /\ asked \in [Clients -> Batches \cup {None}]
    /\ reply = [c \in Clients |-> reply[c]]

\* Only a waiting connection waits for a number; until it is answered, or
\* back after it gave up, no reply is there.
Pending ==
    \A c \in Clients :
        /\ client[c] # "waiting" => waits[c] = 0
        /\ client[c] # "idle" => reply[c] = None

\* A request in the channel that its client waits for is the one it last sent.
Queued ==
    \A i \in 1..Len(queue) :
        /\ queue[i].number \in 1..sent
        /\ waits[queue[i].client] = queue[i].number =>
               asked[queue[i].client] = queue[i].batch

\* The plans of the running request are those of the statements of `batch`.
PlansOf(batch) ==
    /\ Len(run.plans) = Len(batch)
    /\ \A i \in 1..Len(batch) : run.plans[i].stmt = batch[i]

Owned ==
    run # None =>
        /\ run.number \in 1..sent
        /\ run.client \in Clients
        /\ waits[run.client] = run.number => /\ IsSeq(asked[run.client])
                                             /\ PlansOf(asked[run.client])

\* The executor has the results of exactly the statements before the one it is
\* at, each of its statement's kind; a SELECT has no writes.
Running ==
    run # None =>
        /\ DOMAIN run = {"number", "client", "plans", "at", "writes", "started",
                         "results", "error", "replaced"}
        /\ IsSeq(run.plans)
        /\ IsSeq(run.results)
        /\ run.at = Len(run.results) + 1
        /\ run.at <= Len(run.plans) + 1
        /\ \A i \in 1..Len(run.results) :
              (run.results[i].kind = "rows") <=> (run.plans[i].stmt.kind = "select")
        /\ run.writes # << >> => /\ run.at <= Len(run.plans)
                                 /\ run.plans[run.at].stmt.kind # "select"

IInv == Types /\ Pending /\ Queued /\ Owned /\ Running /\ ReplyMatches

-----------------------------------------------------------------------------
(* The steps of a connection.                                              *)

\* Db::open has returned and nobody has sent a query.
LEMMA InitIInv == Init => IInv
  BY DEF Init, IInv, Types, Pending, Queued, Owned, Running, ReplyMatches

\* do_query: the number is new, so no request in the channel or running, of an
\* earlier query of the same client, is mistaken for this one.
LEMMA StepSend ==
    ASSUME IInv, NEW c \in Clients, NEW b \in Batches, SendQuery(c, b)
    PROVE  IInv'
  <1> USE DEF IInv
  <1>1. Running'
    BY Zenon DEF SendQuery, Running
  <1>2. CASE thread = "serving"
    <2> DEFINE req == [number |-> sent + 1, client |-> c, batch |-> b]
    <2>1. /\ sent' = sent + 1
          /\ asked' = [asked EXCEPT ![c] = b]
          /\ queue' = Append(queue, req)
          /\ client' = [client EXCEPT ![c] = "waiting"]
          /\ waits' = [waits EXCEPT ![c] = sent + 1]
          /\ reply' = [reply EXCEPT ![c] = None]
          /\ run' = run
      BY <1>2, Zenon DEF SendQuery
    <2>2. /\ req \in Requests
          /\ queue \in Seq(Requests)
          /\ sent \in Nat
          /\ req.client = c /\ req.number = sent + 1 /\ req.batch = b
      BY DEF Types, Requests
    <2> HIDE DEF req
    <2>3. Types'
      <3>1. queue' \in Seq(Requests)
        BY <2>1, <2>2
      <3>2. /\ sent' \in Nat
            /\ client' \in [Clients -> {"idle", "waiting", "gone"}]
            /\ waits' \in [Clients -> Nat]
            /\ asked' \in [Clients -> Batches \cup {None}]
        BY <2>1 DEF Types
      <3>3. reply' = [d \in Clients |-> reply'[d]]
        BY <2>1, Zenon DEF Types
      <3> QED
        BY <3>1, <3>2, <3>3, Zenon DEF Types
    <2>4. Pending'
      BY <2>1, Zenon DEF Types, Pending
    <2>5. Queued'
      <3> SUFFICES ASSUME NEW i \in 1..Len(queue')
                   PROVE  /\ queue'[i].number \in 1..sent'
                          /\ waits'[queue'[i].client] = queue'[i].number =>
                                 asked'[queue'[i].client] = queue'[i].batch
        BY Zenon DEF Queued
      <3>1. CASE i = Len(queue) + 1
        BY <2>1, <2>2, <3>1 DEF Types
      <3>2. CASE i \in 1..Len(queue)
        <4>1. /\ queue'[i] = queue[i]
              /\ queue[i] \in Requests
          BY <2>1, <2>2, <3>2
        <4>2. /\ queue[i].client \in Clients
              /\ queue[i].number \in 1..sent
              /\ waits[queue[i].client] = queue[i].number =>
                     asked[queue[i].client] = queue[i].batch
          BY <3>2, <4>1, Zenon DEF Requests, Queued
        <4>3. CASE queue[i].client = c
          BY <2>1, <2>2, <4>1, <4>2, <4>3 DEF Types
        <4>4. CASE queue[i].client # c
          BY <2>1, <2>2, <4>1, <4>2, <4>4 DEF Types
        <4> QED
          BY <4>3, <4>4, Zenon
      <3> QED
        BY <2>1, <2>2, <3>1, <3>2
    <2>6. Owned'
      BY <2>1 DEF Types, Owned, PlansOf
    <2>7. ReplyMatches'
      BY <2>1, Zenon DEF Types, ReplyMatches
    <2> QED
      BY <1>1, <2>3, <2>4, <2>5, <2>6, <2>7, Zenon
  <1>3. CASE thread # "serving"
    <2>1. /\ sent' = sent + 1
          /\ asked' = [asked EXCEPT ![c] = b]
          /\ reply' = [reply EXCEPT ![c] = Error("engine thread has stopped")]
          /\ UNCHANGED <<queue, client, waits, run>>
          /\ client[c] = "idle"
      BY <1>3, Zenon DEF SendQuery
    <2>2. /\ waits[c] = 0
          /\ sent \in Nat
          /\ sent' \in Nat
          /\ \A n \in 1..sent : n \in 1..sent' /\ n # 0
      <3>1. waits[c] = 0
        BY <2>1, Zenon DEF Pending
      <3>2. sent \in Nat /\ sent' = sent + 1
        BY <2>1, Zenon DEF Types
      <3> QED
        BY <3>1, <3>2
    <2>3. Types'
      <3>1. asked' \in [Clients -> Batches \cup {None}]
        BY <2>1, Zenon DEF Types
      <3>2. reply' = [d \in Clients |-> reply'[d]]
        BY <2>1, Zenon DEF Types
      <3> QED
        BY <2>1, <2>2, <3>1, <3>2, Zenon DEF Types
    <2>4. Pending'
      BY <2>1, Zenon DEF Types, Pending
    <2>5. Queued'
      <3> SUFFICES ASSUME NEW i \in 1..Len(queue)
                   PROVE  /\ queue[i].number \in 1..sent'
                          /\ waits[queue[i].client] = queue[i].number =>
                                 asked'[queue[i].client] = queue[i].batch
        BY <2>1, Zenon DEF Queued
      <3>1. queue[i].number \in 1..sent /\ queue[i] \in Requests
        BY DEF Queued, Types
      <3>2. waits[queue[i].client] = queue[i].number =>
                /\ queue[i].client # c
                /\ asked[queue[i].client] = queue[i].batch
        BY <2>2, <3>1, Zenon DEF Queued
      <3>3. \A d \in Clients \ {c} : asked'[d] = asked[d]
        BY <2>1, Zenon DEF Types
      <3>4. queue[i].client \in Clients
        BY <3>1, Zenon DEF Requests
      <3> QED
        BY <2>2, <3>1, <3>2, <3>3, <3>4, Zenon
    <2>6. Owned'
      <3> SUFFICES ASSUME run # None
                   PROVE  /\ run.number \in 1..sent'
                          /\ run.client \in Clients
                          /\ waits[run.client] = run.number =>
                                /\ IsSeq(asked'[run.client])
                                /\ PlansOf(asked'[run.client])
        BY <2>1, Zenon DEF Owned, PlansOf
      <3>1. /\ run.number \in 1..sent
            /\ run.client \in Clients
            /\ waits[run.client] = run.number =>
                  /\ run.client # c
                  /\ IsSeq(asked[run.client])
                  /\ PlansOf(asked[run.client])
        BY <2>2, Zenon DEF Owned
      <3>2. run.client # c => asked'[run.client] = asked[run.client]
        BY <2>1, <3>1, Zenon DEF Types
      <3> QED
        BY <2>2, <3>1, <3>2, Zenon
    <2>7. ReplyMatches'
      BY <2>1, Zenon DEF Types, ReplyMatches, Error
    <2> QED
      BY <1>1, <2>3, <2>4, <2>5, <2>6, <2>7, Zenon
  <1> QED
    BY <1>2, <1>3, Zenon

\* The connection ends: it forgets the number, so a late reply finds nobody.
LEMMA StepDisconnect ==
    ASSUME IInv, NEW c \in Clients, Disconnect(c)
    PROVE  IInv'
  <1> USE DEF IInv
  <1>1. /\ client' = [client EXCEPT ![c] = "gone"]
        /\ waits' = [waits EXCEPT ![c] = 0]
        /\ UNCHANGED <<queue, run, asked, reply, sent>>
        /\ client[c] = "waiting"
    BY Zenon DEF Disconnect
  <1>2. Types' /\ Pending'
    BY <1>1, Zenon DEF Types, Pending
  <1>3. Queued'
    BY <1>1 DEF Types, Queued
  <1>4. Owned'
    BY <1>1 DEF Types, Owned, PlansOf
  <1>5. Running' /\ ReplyMatches'
    BY <1>1 DEF Types, Running, ReplyMatches
  <1> QED
    BY <1>2, <1>3, <1>4, <1>5, Zenon

\* A new connection of the same client starts with no reply.
LEMMA StepReconnect ==
    ASSUME IInv, NEW c \in Clients, Reconnect(c)
    PROVE  IInv'
  <1> USE DEF IInv
  <1>1. /\ client' = [client EXCEPT ![c] = "idle"]
        /\ UNCHANGED <<queue, run, waits, asked, reply, sent>>
        /\ client[c] = "gone"
    BY Zenon DEF Reconnect
  <1>2. Types' /\ Pending'
    BY <1>1, Zenon DEF Types, Pending
  <1>3. Queued' /\ Owned' /\ Running'
    BY <1>1, Zenon DEF Queued, Owned, Running, PlansOf
  <1>4. ReplyMatches'
    BY <1>1 DEF Types, Pending, ReplyMatches
  <1> QED
    BY <1>2, <1>3, <1>4, Zenon

-----------------------------------------------------------------------------
(* The steps of the engine thread.                                         *)

\* blocking_recv: the request leaves the channel with its number, and its plans
\* are those of its statements, one for each.
LEMMA StepTake ==
    ASSUME IInv, TakeRequest
    PROVE  IInv'
  <1> USE DEF IInv
  <1> DEFINE req   == Head(queue)
             plans == [i \in DOMAIN req.batch |-> Bound(req.batch[i])]
             fails == BindFails(plans)
  <1>1. /\ queue # << >>
        /\ queue' = Tail(queue)
        /\ run' = [number |-> req.number, client |-> req.client,
                   plans |-> plans, at |-> 1, writes |-> << >>,
                   started |-> FALSE, results |-> << >>,
                   error |-> fails, replaced |-> {}]
        /\ UNCHANGED <<client, waits, asked, reply, sent>>
    BY Zenon DEF TakeRequest, Connections
  <1>2. /\ req = queue[1]
        /\ 1 \in 1..Len(queue)
        /\ req.number \in 1..sent
        /\ req.client \in Clients
        /\ req.batch \in Batches
        /\ waits[req.client] = req.number => asked[req.client] = req.batch
    <2>1. /\ req = queue[1]
          /\ 1 \in 1..Len(queue)
          /\ req \in Requests
      BY <1>1 DEF Types
    <2> QED
      BY <2>1, Zenon DEF Queued, Requests
  <1>3. IsSeq(req.batch)
    BY <1>2, BatchesAssumption, Zenon DEF IsSeq
  <1>4. Len(req.batch) \in Nat /\ DOMAIN req.batch = 1..Len(req.batch)
    BY <1>3, SeqDomain, Zenon
  <1>5. /\ plans = [i \in 1..Len(req.batch) |-> plans[i]]
        /\ \A i \in 1..Len(req.batch) : plans[i].stmt = req.batch[i]
    BY <1>4, Zenon DEF Bound
  <1>6. IsSeq(plans) /\ Len(plans) = Len(req.batch)
    <2> HIDE DEF plans, req
    <2> QED
      BY <1>4, <1>5, BuiltSeq, Zenon
  <1>7. IsSeq(<< >>) /\ Len(<< >>) = 0
    BY DEF IsSeq
  <1> HIDE DEF plans, fails
  <1>8. Types'
    BY <1>1 DEF Types
  <1>9. Pending' /\ ReplyMatches'
    BY <1>1, Zenon DEF Pending, ReplyMatches
  <1>10. Queued'
    <2>1. \A i \in 1..Len(queue') : queue'[i] = queue[i + 1] /\ i + 1 \in 1..Len(queue)
      BY <1>1 DEF Types
    <2> QED
      BY <1>1, <2>1, Zenon DEF Queued
  <1>11. Owned'
    BY <1>1, <1>2, <1>3, <1>5, <1>6, Zenon DEF Owned, PlansOf
  <1>12. Running'
    BY <1>1, <1>4, <1>6, <1>7 DEF Running
  <1> QED
    BY <1>8, <1>9, <1>10, <1>11, <1>12, Zenon

\* What a step of the executor leaves alone.
Apart == UNCHANGED <<queue, client, waits, asked, reply, sent>>

\* A step that touches neither the channels nor whose request runs has only the
\* executor's own part to keep.
LEMMA StepApart ==
    ASSUME IInv, Apart, Running',
           run' # None => /\ run # None
                          /\ run'.number = run.number
                          /\ run'.client = run.client
                          /\ run'.plans = run.plans
    PROVE  IInv'
  <1> USE DEF IInv
  <1>1. Types' /\ Pending' /\ Queued' /\ ReplyMatches'
    BY DEF Apart, Types, Pending, Queued, ReplyMatches
  <1>2. Owned'
    BY Zenon DEF Apart, Owned, PlansOf
  <1> QED
    BY <1>1, <1>2, Zenon

\* An error ends the batch: the results stay as they are.
LEMMA StepRaise ==
    ASSUME IInv, run # None, Raise, Apart
    PROVE  IInv'
  <1>1. /\ DOMAIN run' = DOMAIN run
        /\ \A f \in DOMAIN run \ {"error"} : run'[f] = run[f]
    BY Zenon DEF Raise
  <1>2. /\ run'.number = run.number /\ run'.client = run.client
        /\ run'.plans = run.plans /\ run'.results = run.results
        /\ run'.at = run.at /\ run'.writes = run.writes
    BY <1>1, Zenon DEF IInv, Running
  <1>3. Running'
    BY <1>1, <1>2 DEF IInv, Running
  <1> QED
    BY <1>2, <1>3, StepApart, Zenon

\* A statement that is no SELECT begins its writes.
LEMMA StepBegin ==
    ASSUME IInv, Executing, Stmt.kind # "select", Apart,
           NEW w, run' = [run EXCEPT !.writes = w]
    PROVE  IInv'
  <1>1. /\ DOMAIN run' = DOMAIN run
        /\ \A f \in DOMAIN run \ {"writes"} : run'[f] = run[f]
    BY Zenon
  <1>2. /\ run'.number = run.number /\ run'.client = run.client
        /\ run'.plans = run.plans /\ run'.results = run.results
        /\ run'.at = run.at
    BY <1>1, Zenon DEF IInv, Running, Executing
  <1>3. Running'
    BY <1>1, <1>2, Zenon DEF IInv, Running, Executing, Stmt, Plan
  <1> QED
    BY <1>2, <1>3, StepApart, Zenon DEF Executing

\* A write that is not the last of its statement.
LEMMA StepWriteOn ==
    ASSUME IInv, Executing, run.writes # << >>, Apart,
           run' = [run EXCEPT !.writes = Tail(@), !.started = TRUE]
    PROVE  IInv'
  <1>1. /\ DOMAIN run' = DOMAIN run
        /\ \A f \in DOMAIN run \ {"writes", "started"} : run'[f] = run[f]
    BY Zenon
  <1>2. /\ run'.number = run.number /\ run'.client = run.client
        /\ run'.plans = run.plans /\ run'.results = run.results
        /\ run'.at = run.at
    BY <1>1, Zenon DEF IInv, Running, Executing
  <1>3. Running'
    BY <1>1, <1>2, Zenon DEF IInv, Running, Executing
  <1> QED
    BY <1>2, <1>3, StepApart, Zenon DEF Executing

\* A statement is done: its result goes behind those before it, and is of its
\* statement's kind.
LEMMA StepAdvance ==
    ASSUME IInv, Executing, Apart, NEW r, NEW p, Advance(r, p),
           (r.kind = "rows") <=> (Stmt.kind = "select")
    PROVE  IInv'
  <1>1. /\ DOMAIN run' = DOMAIN run
        /\ \A f \in {"number", "client", "plans"} : run'[f] = run[f]
        /\ run'.at = run.at + 1
        /\ run'.writes = << >>
        /\ run'.results = Append(run.results, r)
    BY Zenon DEF Advance, IInv, Running, Executing
  <1>2. /\ run'.number = run.number /\ run'.client = run.client
        /\ run'.plans = run.plans
    BY <1>1, Zenon
  <1>3. /\ IsSeq(run.plans) /\ IsSeq(run.results)
        /\ Len(run.plans) \in Nat /\ Len(run.results) \in Nat
        /\ run.at = Len(run.results) + 1
        /\ run.at <= Len(run.plans)
    BY SeqDomain, Zenon DEF IInv, Running, Executing
  <1>4. /\ IsSeq(run'.results)
        /\ Len(run'.results) = Len(run.results) + 1
        /\ \A i \in 1..Len(run.results) : run'.results[i] = run.results[i]
        /\ run'.results[run.at] = r
    BY <1>1, <1>3, AppendSeq
  <1>5. ASSUME NEW i \in 1..Len(run'.results)
        PROVE  (run'.results[i].kind = "rows") <=> (run'.plans[i].stmt.kind = "select")
    <2>1. CASE i = run.at
      BY <1>2, <1>4, <2>1, Zenon DEF Stmt, Plan
    <2>2. CASE i # run.at
      <3>1. i \in 1..Len(run.results)
        BY <1>3, <1>4, <2>2
      <3> QED
        BY <1>2, <1>4, <3>1 DEF IInv, Running, Executing
    <2> QED
      BY <2>1, <2>2, Zenon
  <1>6. Running'
    BY <1>1, <1>2, <1>3, <1>4, <1>5 DEF IInv, Running, Executing
  <1> QED
    BY <1>2, <1>6, StepApart, Zenon DEF Executing

\* The actions of the executor that leave the channels alone, one by one.
LEMMA StepExecute ==
    ASSUME IInv,
           \/ Select \/ BeginInsert \/ BeginCreate \/ BeginReplace
           \/ BeginSchema \/ Write \/ RefuseRow \/ SelectFails \/ WriteFails
    PROVE  IInv'
  <1>1. CASE Select
    <2>1. Executing /\ Apart /\ Advance(SelectResult, {}) /\ Stmt.kind = "select"
      BY <1>1, Zenon DEF Select, Starts, Apart, Connections
    <2>2. SelectResult.kind = "rows"
      BY Zenon DEF SelectResult
    <2> QED
      BY <2>1, <2>2, StepAdvance, Zenon
  <1>2. CASE BeginInsert
    <2>1. Executing /\ Apart /\ Stmt.kind = "insert"
      BY <1>2, Zenon DEF BeginInsert, Starts, Apart, Connections
    <2>2. PICK w : run' = [run EXCEPT !.writes = w]
      BY <1>2, Zenon DEF BeginInsert
    <2> QED
      BY <2>1, <2>2, StepBegin, Zenon
  <1>3. CASE BeginCreate
    <2>1. Executing /\ Apart /\ Stmt.kind = "create"
      BY <1>3, Zenon DEF BeginCreate, Starts, Apart, Connections
    <2>2. Raise \/ \E w : run' = [run EXCEPT !.writes = w]
      BY <1>3, Zenon DEF BeginCreate
    <2> QED
      BY <2>1, <2>2, StepBegin, StepRaise, Zenon DEF Executing
  <1>4. CASE BeginReplace
    <2>1. Executing /\ Apart /\ Stmt.kind = "replace"
      BY <1>4, Zenon DEF BeginReplace, Starts, Apart, Connections
    <2>2. Raise \/ \E w : run' = [run EXCEPT !.writes = w]
      BY <1>4, Zenon DEF BeginReplace
    <2> QED
      BY <2>1, <2>2, StepBegin, StepRaise, Zenon DEF Executing
  <1>5. CASE BeginSchema
    <2>1. Executing /\ Apart /\ Stmt.kind = "schema"
      BY <1>5, Zenon DEF BeginSchema, Starts, Apart, Connections
    <2>2. \/ Raise
          \/ \E w : run' = [run EXCEPT !.writes = w]
          \/ Advance([kind |-> "affected"], {})
      BY <1>5, Zenon DEF BeginSchema
    <2>3. [kind |-> "affected"].kind = "affected"
      BY Zenon
    <2> QED
      BY <2>1, <2>2, <2>3, StepBegin, StepRaise, StepAdvance, Zenon DEF Executing
  <1>6. CASE Write
    <2>1. Executing /\ Apart /\ run.writes # << >>
      BY <1>6, Zenon DEF Write, Apart, Connections
    <2>2. Stmt.kind # "select"
      BY <2>1, Zenon DEF IInv, Running, Executing, Stmt, Plan
    <2>3. \/ Advance([kind |-> "affected"], Settles)
          \/ run' = [run EXCEPT !.writes = Tail(@), !.started = TRUE]
      BY <1>6, Zenon DEF Write
    <2>4. [kind |-> "affected"].kind = "affected"
      BY Zenon
    <2> QED
      BY <2>1, <2>2, <2>3, <2>4, StepAdvance, StepWriteOn, Zenon
  <1>7. CASE RefuseRow
    BY <1>7, StepRaise, Zenon DEF RefuseRow, Executing, Apart, Connections
  <1>8. CASE WriteFails
    BY <1>8, StepRaise, Zenon DEF WriteFails, Executing, Apart, Connections
  <1>9. CASE SelectFails
    BY <1>9, StepRaise, Zenon DEF SelectFails, Starts, Executing, Apart, Connections
  <1> QED
    BY <1>1, <1>2, <1>3, <1>4, <1>5, <1>6, <1>7, <1>8, <1>9, Zenon

\* req.reply.send: the connection that waits for this very request has sent its
\* batch last, and all statements of it have their results.
LEMMA StepFinish ==
    ASSUME IInv, Finish
    PROVE  IInv'
  <1> USE DEF IInv
  <1> DEFINE c == run.client
             a == IF run.error THEN Error("query failed")
                  ELSE [ok |-> TRUE, error |-> "", results |-> Kinds]
  <1>1. /\ run # None
        /\ run.error \/ run.at > Len(run.plans)
        /\ run' = None
        /\ Answer(a)
        /\ UNCHANGED <<queue, asked, sent>>
    BY Zenon DEF Finish
  <1>2. Owned' /\ Running'
    BY <1>1, Zenon DEF Owned, Running
  <1>3. CASE client[c] = "waiting" /\ waits[c] = run.number
    <2>1. /\ client' = [client EXCEPT ![c] = "idle"]
          /\ waits' = [waits EXCEPT ![c] = 0]
          /\ reply' = [reply EXCEPT ![c] = a]
          /\ c \in Clients
          /\ IsSeq(asked[c]) /\ PlansOf(asked[c])
      BY <1>1, <1>3, Zenon DEF Answer, Owned
    <2> HIDE DEF a, c
    <2>2. Types' /\ Pending'
      BY <1>1, <2>1, Zenon DEF Types, Pending
    <2>3. Queued'
      BY <1>1, <2>1 DEF Types, Queued
    <2>4. a.ok => /\ Len(a.results) = Len(asked[c])
                  /\ \A i \in DOMAIN asked[c] :
                        (a.results[i] = "rows") <=> (asked[c][i].kind = "select")
      <3> SUFFICES ASSUME a.ok
                   PROVE  /\ Len(a.results) = Len(asked[c])
                          /\ \A i \in DOMAIN asked[c] :
                                (a.results[i] = "rows") <=> (asked[c][i].kind = "select")
        BY Zenon
      <3>1. ~run.error /\ a.results = Kinds
        BY Zenon DEF a, Error
      <3>2. /\ IsSeq(run.plans) /\ IsSeq(run.results)
            /\ run.at = Len(run.results) + 1
            /\ run.at <= Len(run.plans) + 1
            /\ run.at > Len(run.plans)
            /\ \A i \in 1..Len(run.results) :
                 (run.results[i].kind = "rows") <=> (run.plans[i].stmt.kind = "select")
        BY <1>1, <3>1, Zenon DEF Running
      <3>3. /\ Len(run.results) \in Nat /\ DOMAIN run.results = 1..Len(run.results)
            /\ Len(run.plans) \in Nat
            /\ Len(asked[c]) \in Nat /\ DOMAIN asked[c] = 1..Len(asked[c])
        BY <2>1, <3>2, SeqDomain, Zenon
      <3>4. /\ Len(run.results) = Len(asked[c])
            /\ \A i \in 1..Len(asked[c]) : run.plans[i].stmt = asked[c][i]
        BY <2>1, <3>2, <3>3 DEF PlansOf
      <3>5. /\ Kinds = [i \in 1..Len(run.results) |-> Kinds[i]]
            /\ \A i \in 1..Len(run.results) : Kinds[i] = run.results[i].kind
        BY <3>3, Zenon DEF Kinds
      <3>6. Len(Kinds) = Len(run.results)
        BY <3>3, <3>5, BuiltSeq, Zenon
      <3>7. ASSUME NEW i \in 1..Len(asked[c])
            PROVE  (a.results[i] = "rows") <=> (asked[c][i].kind = "select")
        <4>1. i \in 1..Len(run.results)
          BY <3>4, Zenon
        <4>2. a.results[i] = run.results[i].kind
          BY <3>1, <3>5, <4>1, Zenon
        <4>3. run.plans[i].stmt = asked[c][i]
          BY <3>4, Zenon
        <4> QED
          BY <3>2, <4>1, <4>2, <4>3, Zenon
      <3> QED
        BY <3>1, <3>3, <3>4, <3>6, <3>7, Zenon
    <2>5. ReplyMatches'
      <3> SUFFICES ASSUME NEW d \in Clients,
                          client'[d] = "idle", reply'[d] # None, reply'[d].ok
                   PROVE  /\ Len(reply'[d].results) = Len(asked'[d])
                          /\ \A i \in DOMAIN asked'[d] :
                               (reply'[d].results[i] = "rows") <=>
                                   (asked'[d][i].kind = "select")
        BY Zenon DEF ReplyMatches
      <3>1. CASE d = c
        <4>1. reply'[d] = a /\ asked'[d] = asked[c]
          BY <1>1, <2>1, <3>1, Zenon DEF Types
        <4> QED
          BY <2>4, <4>1, Zenon
      <3>2. CASE d # c
        <4>1. reply'[d] = reply[d] /\ asked'[d] = asked[d] /\ client'[d] = client[d]
          BY <1>1, <2>1, <3>2, Zenon DEF Types
        <4> QED
          BY <4>1 DEF ReplyMatches
      <3> QED
        BY <3>1, <3>2, Zenon
    <2> QED
      BY <1>2, <2>2, <2>3, <2>5, Zenon
  <1>4. CASE ~(client[c] = "waiting" /\ waits[c] = run.number)
    <2>1. UNCHANGED <<client, waits, reply>>
      BY <1>1, <1>4, Zenon DEF Answer
    <2>2. Types' /\ Pending' /\ Queued'
      BY <1>1, <2>1, Zenon DEF Types, Pending, Queued
    <2>3. ReplyMatches'
      BY <1>1, <2>1, Zenon DEF ReplyMatches
    <2> QED
      BY <1>2, <2>2, <2>3, Zenon
  <1> QED
    BY <1>3, <1>4, Zenon

\* The thread panics: whoever waited gets an error, and no request is left.
LEMMA StepPanic ==
    ASSUME IInv, ThreadPanics
    PROVE  IInv'
  <1> USE DEF IInv
  <1>1. /\ run' = None
        /\ queue' = << >>
        /\ client' = [c \in Clients |->
                        IF client[c] = "waiting" THEN "idle" ELSE client[c]]
        /\ reply' = [c \in Clients |->
                        IF client[c] = "waiting" THEN Error("engine dropped the query")
                        ELSE reply[c]]
        /\ waits' = [c \in Clients |-> 0]
        /\ UNCHANGED <<asked, sent>>
    BY Zenon DEF ThreadPanics
  <1>2. Types'
    <2>1. /\ sent' \in Nat
          /\ client' \in [Clients -> {"idle", "waiting", "gone"}]
          /\ waits' \in [Clients -> Nat]
          /\ asked' \in [Clients -> Batches \cup {None}]
      BY <1>1, Zenon DEF Types
    <2>2. reply' = [c \in Clients |-> reply'[c]]
      BY <1>1, Zenon
    <2>3. queue' \in Seq(Requests)
      <3>1. queue' = << >>
        BY <1>1, Zenon
      <3> QED
        BY <3>1
    <2> QED
      BY <2>1, <2>2, <2>3, Zenon DEF Types
  <1>3. Pending'
    BY <1>1, Zenon DEF Types, Pending
  <1>4. Queued'
    <2>1. queue' = << >>
      BY <1>1, Zenon
    <2>2. 1..Len(queue') = {}
      BY <2>1
    <2> QED
      BY <2>2, Zenon DEF Queued
  <1>5. Owned' /\ Running'
    BY <1>1, Zenon DEF Owned, Running
  <1>6. ReplyMatches'
    <2> SUFFICES ASSUME NEW c \in Clients,
                        client'[c] = "idle", reply'[c] # None, reply'[c].ok
                 PROVE  /\ Len(reply'[c].results) = Len(asked'[c])
                        /\ \A i \in DOMAIN asked'[c] :
                             (reply'[c].results[i] = "rows") <=>
                                 (asked'[c][i].kind = "select")
      BY Zenon DEF ReplyMatches
    <2>1. client[c] # "waiting"
      BY <1>1, Zenon DEF Error
    <2>2. reply'[c] = reply[c] /\ asked'[c] = asked[c] /\ client[c] = "idle"
      BY <1>1, <2>1, Zenon
    <2> QED
      BY <2>2 DEF ReplyMatches
  <1> QED
    BY <1>2, <1>3, <1>4, <1>5, <1>6, Zenon

-----------------------------------------------------------------------------
\* Every step keeps the inductive invariant.
LEMMA NextIInv ==
    ASSUME IInv, [Next]_vars
    PROVE  IInv'
  <1>1. CASE Next
    BY <1>1, StepSend, StepDisconnect, StepReconnect, StepTake, StepExecute,
       StepFinish, StepPanic, Zenon DEF Next, EngineStep
  <1>2. CASE UNCHANGED vars
    <2>1. UNCHANGED <<queue, run, client, waits, asked, reply, sent>>
      BY <1>2, Zenon DEF vars
    <2> QED
      BY <2>1 DEF IInv, Types, Pending, Queued, Owned, PlansOf, Running, ReplyMatches
  <1> QED
    BY <1>1, <1>2, Zenon

\* The channels of strata-server: a connection that waits for a request waits
\* for the batch it last sent, and a running batch has the results of exactly
\* the statements before the one it is at, in every reachable state.
THEOREM ServerInvariant == Spec => []IInv
  <1>1. Init => IInv
    BY InitIInv, Zenon
  <1>2. IInv /\ [Next]_vars => IInv'
    BY NextIInv, Zenon
  <1> QED
    BY <1>1, <1>2, PTL DEF Spec

\* do_query: a client that gets results gets those of the batch it last sent,
\* whatever queries it abandoned before and however the thread ended.
THEOREM ReplyMatchesTheorem == Spec => []ReplyMatches
  <1>1. IInv => ReplyMatches
    BY Zenon DEF IInv
  <1> QED
    BY <1>1, ServerInvariant, PTL
============================================================================
