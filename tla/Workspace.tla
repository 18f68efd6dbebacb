----------------------------- MODULE Workspace -----------------------------
(***************************************************************************)
(* A FileWorkspace (crates/filesystem/src/workspace.rs): scratch tuples in *)
(* the pages of a heap, replayed in the order of insertion.  heap is the   *)
(* sequence of pages the heap allocated, each the sequence of its tuples;  *)
(* the last one is the page being filled.  listed are the pages the        *)
(* workspace counts and replays.  A tuple has size 1.                      *)
(*                                                                         *)
(* A MemoryWorkspace is the sequence of its slabs, each the sequence of    *)
(* its tuples; its pool counts the slabs in use (memory.rs).               *)
(***************************************************************************)
EXTENDS Naturals, Sequences, SequencesExt

CONSTANTS
    PerPage,    \* tuples that fit a page
    MaxPages    \* disk_budget / PAGE_SIZE

ASSUME WorkspaceAssumption ==
    /\ PerPage \in Nat \ {0}
    /\ MaxPages \in Nat \ {0}

\* FileWorkspace::new: no page until the first tuple.
EmptyWorkspace == [heap |-> <<>>, listed |-> <<>>]

\* Heap::insert: the page being filled if the tuple fits, a fresh one otherwise.
HeapInsert(heap, tuple) ==
    IF heap # <<>> /\ Len(Last(heap)) < PerPage
    THEN [heap EXCEPT ![Len(heap)] = Append(@, tuple)]
    ELSE Append(heap, <<tuple>>)

\* The workspace after append, whether it succeeds or fails: at the bound the
\* tuple is in a page that is not listed.
AfterAppend(ws, tuple) ==
    LET heap == HeapInsert(ws.heap, tuple)
        page == Len(heap)
    IN  [heap   |-> heap,
         listed |-> IF (ws.listed # <<>> /\ Last(ws.listed) = page)
                        \/ Len(ws.listed) >= MaxPages
                    THEN ws.listed
                    ELSE Append(ws.listed, page)]

\* append fails with WorkspaceFull: it needs a page beyond the bound.
AppendFull(ws, tuple) ==
    LET page == Len(HeapInsert(ws.heap, tuple))
    IN  /\ ws.listed = <<>> \/ Last(ws.listed) # page
        /\ Len(ws.listed) >= MaxPages

\* used, in pages.
Used(ws) == Len(ws.listed)

\* tuples and FileWorkspaceTuples: the listed pages in order.  A page the cache
\* cannot load (a member of bad) is passed over without an error.
Tuples(ws, bad) ==
    FlattenSeq([i \in DOMAIN ws.listed |->
                  IF ws.listed[i] \in bad THEN <<>> ELSE ws.heap[ws.listed[i]]])

(***************************************************************************)
(* The memory backing.                                                     *)
(***************************************************************************)
EmptyMemory == [slabs |-> <<>>, full |-> FALSE]

\* MemoryPool::allocate of one more slab, with the workspace its only user.
PoolAllows(slabs, capacity) == Len(slabs) + 1 <= capacity

\* MemoryWorkspace::append: the last slab if the tuple fits, else a fresh one
\* from the pool; WorkspaceFull (kept as full) if the pool has none.
MemoryAppend(ws, tuple, capacity) ==
    CASE ws.full -> ws
      [] ~ws.full /\ ws.slabs # <<>> /\ Len(Last(ws.slabs)) < PerPage ->
            [ws EXCEPT !.slabs[Len(ws.slabs)] = Append(@, tuple)]
      [] OTHER ->
            IF PoolAllows(ws.slabs, capacity)
            THEN [ws EXCEPT !.slabs = Append(@, <<tuple>>)]
            ELSE [ws EXCEPT !.full = TRUE]

\* Workspace::tuples over the blocks.
MemoryTuples(ws) == FlattenSeq(ws.slabs)

=============================================================================
