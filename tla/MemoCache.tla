------------------------------ MODULE MemoCache ------------------------------
(***************************************************************************)
(* The read-through memo cache of crates/filesystem/src/cache/memo.rs,     *)
(* which holds the pages of SSTables (crates/lsm/src/storage/cache.rs),    *)
(* with any of the eviction policies.  Of a cached value only its weight   *)
(* matters.  A load that fails changes nothing and is left out.            *)
(***************************************************************************)
EXTENDS Policies

CONSTANTS
    Keys,
    WeightOf(_),    \* Weight::weight of the value a key loads
    Budgets,        \* the budgets a cache may be given: [kind, max]
    Kinds,          \* the policies it may be given
    MaxCalls        \* bound: calls made

ASSUME MemoCacheAssumption ==
    /\ \A k \in Keys : WeightOf(k) \in Nat
    /\ MaxCalls \in Nat

VARIABLES
    budget,
    entries,    \* the keys cached
    bytes,
    policy,
    evicting,   \* in evict_to_budget
    calls,
    log         \* history: the accesses, in order; those of a key that was
                \* evicted are forgotten

vars == <<budget, entries, bytes, policy, evicting, calls, log>>

Init ==
    /\ budget \in Budgets
    /\ entries = {}
    /\ bytes = 0
    /\ policy \in {NewPolicy(kind) : kind \in Kinds}
    /\ evicting = FALSE
    /\ calls = 0
    /\ log = << >>

Call == ~evicting /\ calls < MaxCalls /\ calls' = calls + 1

Access(k) == policy' = RecordAccess(policy, k) /\ log' = Append(log, k)

\* get, and get_or_load, of a key that is cached.
Hit(k) ==
    /\ Call
    /\ k \in entries
    /\ Access(k)
    /\ UNCHANGED <<budget, entries, bytes, evicting>>

\* get_or_load of one that is not, up to evict_to_budget.
LoadMiss(k) ==
    /\ Call
    /\ k \notin entries
    /\ bytes' = bytes + WeightOf(k)
    /\ entries' = entries \union {k}
    /\ Access(k)
    /\ evicting' = TRUE
    /\ UNCHANGED budget

OverBudget ==
    \/ budget.kind = "entries" /\ Cardinality(entries) > budget.max
    \/ budget.kind = "bytes" /\ bytes > budget.max

Victim == EvictCandidate(policy, Keys).victim

\* A slip that forgets to lower the count.
EvictOneKeepsBytes ==
    /\ evicting /\ OverBudget /\ Victim # NoId
    /\ entries' = entries \ {Victim}
    /\ policy' = RemoveId(EvictCandidate(policy, Keys).policy, Victim)
    /\ log' = SelectSeq(log, LAMBDA k : k # Victim)
    /\ UNCHANGED <<budget, bytes, evicting, calls>>

\* A turn of evict_to_budget.  The policy may name a key that clear dropped.
EvictOne ==
    /\ evicting /\ OverBudget /\ Victim # NoId
    /\ entries' = entries \ {Victim}
    /\ bytes' = IF Victim \notin entries THEN bytes
                ELSE IF WeightOf(Victim) > bytes THEN 0
                ELSE bytes - WeightOf(Victim)
    /\ policy' = RemoveId(EvictCandidate(policy, Keys).policy, Victim)
    /\ log' = SelectSeq(log, LAMBDA k : k # Victim)
    /\ UNCHANGED <<budget, evicting, calls>>

\* Its end: within the budget, or nothing left to evict.
Evicted ==
    /\ evicting /\ (OverBudget => Victim = NoId)
    /\ evicting' = FALSE
    /\ UNCHANGED <<budget, entries, bytes, policy, calls, log>>

\* The policy keeps what it knows of the keys.
Clear ==
    /\ Call
    /\ entries' = {}
    /\ bytes' = 0
    /\ UNCHANGED <<budget, policy, evicting, log>>

Next ==
    \/ \E k \in Keys : Hit(k) \/ LoadMiss(k)
    \/ EvictOne \/ Evicted
    \/ Clear

Spec == Init /\ [][Next]_vars
-----------------------------------------------------------------------------
\* evict_to_budget: when a call returns, the count of bytes is the weight of
\* what is cached and both are within the budget, also after clear, when the
\* policy still ranks keys that are gone, and for a value heavier than the
\* whole budget.
WithinBudget ==
    /\ bytes = FoldSet(LAMBDA k, sum : sum + WeightOf(k), 0, entries)
    /\ ~evicting => ~OverBudget

\* The positions of the accesses of a key, latest first.
Accesses(k) ==
    Reverse(SelectSeq([i \in DOMAIN log |-> i], LAMBDA i : log[i] = k))

\* What a reader of policies.rs expects of a victim v over another id w.
RightlyBefore(v, w) ==
    LET a == Accesses(v)  b == Accesses(w)
    IN  CASE policy.kind = "lru"  -> a[1] < b[1]
          [] policy.kind = "lruk" -> \/ Len(a) < K /\ Len(b) >= K
                                     \/ Len(a) < K /\ Len(b) < K /\ a[1] < b[1]
                                     \/ Len(a) >= K /\ Len(b) >= K /\ a[K] < b[K]
          [] policy.kind = "lfu"  -> \/ Len(a) < Len(b)
                                     \/ Len(a) = Len(b) /\ a[1] < b[1]
          [] policy.kind = "clock" -> policy.hist[v] => policy.hist[w]

\* evict_candidate, for every set of ids a caller may find evictable (the
\* buffer pool excludes pinned and dirty frames): if an id of the set is
\* tracked the answer is one, and by the policy's rule no other of them comes
\* before it: LRU the one not used for longest, LRU-K one seen fewer than K
\* times before any seen K times, LFU the one used least, CLOCK one without
\* its second chance before any with it.
VictimsRight ==
    \A evictable \in SUBSET Keys :
        LET v == EvictCandidate(policy, evictable).victim
            ids == Tracked(policy) \intersect evictable
        IN  IF ids = {} THEN v = NoId
            ELSE v \in ids /\ \A w \in ids \ {v} : RightlyBefore(v, w)
=============================================================================
