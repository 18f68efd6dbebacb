------------------------------ MODULE Policies ------------------------------
(***************************************************************************)
(* The eviction policies of crates/filesystem/src/cache/policies.rs.  A    *)
(* policy tracks ids in `hist` and ranks them; what it keeps of an id is   *)
(*                                                                         *)
(*     "lru"    the tick of its last access                                *)
(*     "lruk"   the ticks of its last K accesses, latest first             *)
(*     "lfu"    its number of accesses, and the tick of the last           *)
(*     "clock"  its reference bit; the ids are on a ring as well           *)
(***************************************************************************)
EXTENDS ByteStrings, SequencesExt, FiniteSets

CONSTANTS K,        \* the K of LRU-K
          NoId      \* Option::None

ASSUME PoliciesAssumption == K \in Nat \ {0}

NewPolicy(kind) ==
    [kind |-> kind, clock |-> 0, hist |-> [id \in {} |-> << >>], ring |-> << >>]

Tracked(p) == DOMAIN p.hist

\* HashMap::insert.
With(hist, id, h) ==
    [x \in DOMAIN hist \union {id} |-> IF x = id THEN h ELSE hist[x]]

\* What an access at tick `now` makes of what was kept of the id.
LruAccess(now)       == <<now>>
LruKAccess(old, now) == SubSeq(<<now>> \o old, 1,
                               IF Len(old) < K THEN Len(old) + 1 ELSE K)
LfuAccess(old, now)  == <<(IF old = << >> THEN 0 ELSE old[1]) + 1, now>>

\* record_access of the three that rank by ticks.
RankAccess(p, id) ==
    LET now == p.clock + 1
        old == IF id \in Tracked(p) THEN p.hist[id] ELSE << >>
        h   == CASE p.kind = "lru"  -> LruAccess(now)
                 [] p.kind = "lruk" -> LruKAccess(old, now)
                 [] p.kind = "lfu"  -> LfuAccess(old, now)
    IN  [p EXCEPT !.clock = now, !.hist = With(@, id, h)]

ClockAccess(p, id) ==
    [p EXCEPT !.ring = IF id \in Tracked(p) THEN @ ELSE Append(@, id),
              !.hist = With(@, id, TRUE)]

RecordAccess(p, id) ==
    IF p.kind = "clock" THEN ClockAccess(p, id) ELSE RankAccess(p, id)

\* LRU-K: an id accessed fewer than K times has no K-th access and comes
\* before every one that has.
LruKRank(ticks) == <<IF Len(ticks) < K THEN 0 ELSE ticks[K], ticks[1]>>

Rank(p, id) == IF p.kind = "lruk" THEN LruKRank(p.hist[id]) ELSE p.hist[id]

LeastRanked(p, evictable) ==
    LET ids == Tracked(p) \intersect evictable
    IN  IF ids = {} THEN NoId
        ELSE CHOOSE i \in ids : \A j \in ids \ {i} : LexLess(Rank(p, i), Rank(p, j))

\* One step of the hand: the front of the ring goes to the back; if it may be
\* evicted, it loses its reference bit or it is the victim.
SweepStep(s, evictable) ==
    LET id == Head(s.ring)
    IN  [ring   |-> Append(Tail(s.ring), id),
         bits   |-> IF id \in evictable THEN [s.bits EXCEPT ![id] = FALSE] ELSE s.bits,
         victim |-> IF id \in evictable /\ ~s.bits[id] THEN id ELSE NoId]

\* A slip: one sweep only.
SweepStepsOne(n) == n

\* One sweep to clear every reference bit, one to evict.
SweepSteps(n) == n * 2 + 1

Sweep(p, evictable) ==
    FoldLeft(LAMBDA s, i : IF s.victim # NoId \/ s.ring = << >> THEN s
                           ELSE SweepStep(s, evictable),
             [ring |-> p.ring, bits |-> p.hist, victim |-> NoId],
             [i \in 1 .. SweepSteps(Len(p.ring)) |-> i])

\* evict_candidate: the victim, and the policy after the call.
EvictCandidate(p, evictable) ==
    IF p.kind = "clock"
    THEN LET s == Sweep(p, evictable)
         IN  [victim |-> s.victim,
              policy |-> [p EXCEPT !.ring = s.ring, !.hist = s.bits]]
    ELSE [victim |-> LeastRanked(p, evictable), policy |-> p]

\* EvictionPolicy::remove.
RemoveId(p, id) ==
    [p EXCEPT !.ring = SelectSeq(@, LAMBDA x : x # id),
              !.hist = [x \in DOMAIN @ \ {id} |-> @[x]]]
=============================================================================
