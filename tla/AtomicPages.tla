---------------------------- MODULE AtomicPages -----------------------------
(***************************************************************************)
(* What the journaled page cache promises its clients: numbered pages,     *)
(* changed through write handles, and a flush that commits all of them at  *)
(* once.  A crash brings every page back to the last commit.  Ids are      *)
(* handed out in order, and an id that names a committed page is never     *)
(* handed out again; one that does not may be, after a crash.              *)
(***************************************************************************)
EXTENDS Naturals

CONSTANTS MaxPage,  \* ids are 1..MaxPage
          Blank     \* a page never written: reading it is an error

VARIABLES pages,    \* each page as this process sees it
          durable,  \* each page as of the last commit
          held,     \* pages some write handle refers to
          next,     \* the next id; 0 while the store is down
          mark,     \* the next id at the last commit
          up        \* is the store open?

pvars == <<pages, durable, held, next, mark, up>>

Ids == 1..MaxPage

Init ==
    /\ pages = [p \in Ids |-> Blank]
    /\ durable = pages
    /\ held = {}
    /\ next = 0
    /\ mark = 1
    /\ up = FALSE

\* Ids taken since the last commit, and those before it that were never
\* created, may be handed out again.
Open ==
    /\ ~up
    /\ up' = TRUE
    /\ next' \in {n \in 1..mark : \A p \in Ids : durable[p] # Blank => p < n}
    /\ UNCHANGED <<pages, durable, held, mark>>

\* An id is taken; nothing is written to it yet, or ever.
Take ==
    /\ up
    /\ next \in Ids
    /\ next' = next + 1
    /\ UNCHANGED <<pages, durable, held, mark, up>>

\* The page of an id is created, with the id or after it, and its handle
\* kept or dropped.
Create(p, c) ==
    /\ up
    /\ p \in Ids
    /\ \/ p = next /\ next' = next + 1
       \/ p < next /\ next' = next
    /\ pages[p] = Blank
    /\ pages' = [pages EXCEPT ![p] = c]
    /\ held' \in {held, held \cup {p}}
    /\ UNCHANGED <<durable, mark, up>>

Hold(p) ==
    /\ up
    /\ p \notin held
    /\ pages[p] # Blank
    /\ held' = held \cup {p}
    /\ UNCHANGED <<pages, durable, next, mark, up>>

Write(p, c) ==
    /\ up
    /\ pages[p] # Blank
    /\ pages' = [pages EXCEPT ![p] = c]
    /\ UNCHANGED <<durable, held, next, mark, up>>

Release(p) ==
    /\ up
    /\ p \in held
    /\ held' = held \ {p}
    /\ UNCHANGED <<pages, durable, next, mark, up>>

\* A flush.  It may miss what is being written through an open handle.
Commit ==
    /\ up
    /\ \E missed \in SUBSET held :
          durable' = [p \in Ids |->
                        IF p \in missed THEN durable[p] ELSE pages[p]]
    /\ mark' = next
    /\ UNCHANGED <<pages, held, next, up>>

Crash ==
    /\ up
    /\ up' = FALSE
    /\ pages' = durable
    /\ held' = {}
    /\ next' = 0
    /\ UNCHANGED <<durable, mark>>

Next ==
    \/ Open \/ Take \/ Commit \/ Crash
    \/ \E p \in Ids : \/ Create(p, pages'[p]) \/ Write(p, pages'[p])
                      \/ Hold(p) \/ Release(p)

Spec == Init /\ [][Next]_pvars
=============================================================================
