----------------------------- MODULE DurableKv ------------------------------
(***************************************************************************)
(* What the LSM tree promises: a map from keys to values that survives     *)
(* crashes.  A write that returned Ok stays; a write that returned an      *)
(* error, or was under way at a crash, is in doubt: the next recovery may  *)
(* find it or not, and a later acknowledged write to its key settles it.   *)
(***************************************************************************)
CONSTANTS Keys, Values, NoValue

VARIABLES store,   \* what a read of each key returns
          doubt,   \* writes in doubt: pairs <<key, value>>
          up       \* is the store open?

kvars == <<store, doubt, up>>

Init ==
    /\ store = [k \in Keys |-> NoValue]
    /\ doubt = {}
    /\ up = FALSE

Open ==
    /\ ~up
    /\ up' = TRUE
    /\ UNCHANGED <<store, doubt>>

\* A call starts: from here on a crash may keep or lose its write.
Attempt(k, v) ==
    /\ up
    /\ doubt' = doubt \cup {<<k, v>>}
    /\ UNCHANGED <<store, up>>

\* The call returns Ok.
Acknowledge(k, v) ==
    /\ up
    /\ <<k, v>> \in doubt
    /\ store' = [store EXCEPT ![k] = v]
    /\ doubt' = {d \in doubt : d[1] # k}
    /\ UNCHANGED up

Crash ==
    /\ up
    /\ up' = FALSE
    /\ store' \in [Keys -> Values \cup {NoValue}]
    /\ \A k \in Keys : store'[k] = store[k] \/ <<k, store'[k]>> \in doubt
    /\ doubt' = {}

Next ==
    \/ Open
    \/ \E k \in Keys, v \in Values \cup {NoValue} :
          Attempt(k, v) \/ Acknowledge(k, v)
    \/ Crash

Spec == Init /\ [][Next]_kvars
=============================================================================
