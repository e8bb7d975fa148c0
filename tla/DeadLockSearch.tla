--------------------------- MODULE DeadLockSearch ---------------------------
(***************************************************************************)
(* deadLockPrevent (godb/buffer_pool.go): the depth-first search for a     *)
(* cycle through root in the waits-for table.  It runs under bp.mu, so the *)
(* table does not change; it is any table and any root.  Each recursive    *)
(* call is a frame: the set of keys of tidMap its loop has yet to take, in *)
(* Go's arbitrary order.                                                   *)
(***************************************************************************)
EXTENDS WaitsFor, Naturals, Sequences, FiniteSets

VARIABLES
    waits,     \* bp.waitTidLocks
    root,
    visited,   \* visitedMap
    stack,     \* one frame per active call, the innermost last
    result     \* "none" until the outermost call returns "cycle" or "free"

searchVars == <<waits, root, visited, stack, result>>

\* A call with tidMap: true at once if root is in it, and then every caller
\* returns true as well; otherwise its loop begins.
Call(tidMap, frames) ==
    IF root \in tidMap
    THEN result' = "cycle" /\ stack' = << >>
    ELSE stack' = Append(frames, tidMap) /\ UNCHANGED result

Top == stack[Len(stack)]
Below == SubSeq(stack, 1, Len(stack) - 1)

\* Mutant: all the neighbours are marked when the search goes down from one.
Descend_MarksAll(tid) ==
    /\ tid \in Top \ visited
    /\ visited' = visited \cup Top
    /\ Call(waits[tid], Append(Below, Top \ {tid}))

\* Mutant: the tid is not marked.
Descend_Unmarked(tid) ==
    /\ tid \in Top \ visited
    /\ UNCHANGED visited
    /\ Call(waits[tid], Append(Below, Top \ {tid}))

\* The loop takes a tid it has not seen and searches from it.
Descend(tid) ==
    /\ tid \in Top \ visited
    /\ visited' = visited \cup {tid}
    /\ Call(waits[tid], Append(Below, Top \ {tid}))

\* Mutant: the loop does not get past a tid it has seen.
Skip_Stays(tid) ==
    /\ tid \in Top \cap visited
    /\ UNCHANGED <<stack, visited, result>>

\* The loop takes a tid it has seen: continue.
Skip(tid) ==
    /\ tid \in Top \cap visited
    /\ stack' = Append(Below, Top \ {tid})
    /\ UNCHANGED <<visited, result>>

\* The loop is over: the call returns false, and its caller goes on.
Return ==
    /\ Top = {}
    /\ stack' = Below
    /\ result' = IF Below = << >> THEN "free" ELSE result
    /\ UNCHANGED visited

\* waitWhenConflict calls it for a root that waits for somebody, and never for
\* itself (isConflicted skips the caller).
SearchInit ==
    /\ waits \in {w \in [Tids -> SUBSET Tids] : \A t \in Tids : t \notin w[t]}
    /\ root \in {t \in Tids : waits[t] # {}}
    /\ visited = {}
    /\ stack = <<waits[root]>>
    /\ result = "none"

SearchNext ==
    /\ stack # << >>
    /\ \/ \E tid \in Tids : Descend(tid)
       \/ \E tid \in Tids : Skip(tid)
       \/ Return
    /\ UNCHANGED <<waits, root>>

SearchSpec == SearchInit /\ [][SearchNext]_searchVars

FairSearchSpec == SearchSpec /\ WF_searchVars(SearchNext)

-----------------------------------------------------------------------------
\* The types of the search's variables.
SearchTypeOK ==
    /\ waits \in [Tids -> SUBSET Tids]
    /\ root \in Tids
    /\ visited \in SUBSET Tids
    /\ stack \in Seq(SUBSET Tids)
    /\ result \in {"none", "cycle", "free"}

\* The search says "cycle" exactly when root is in a cycle of the waits-for
\* table, whatever order the maps are iterated in and although visited is
\* shared by all branches.
SearchCorrect ==
    result # "none" => (result = "cycle" <=> DeadLockPrevent(root, waits))

\* Marking a tid before descending bounds the recursion: no more calls are
\* active than there are transactions besides root.
DepthBounded == Len(stack) <= Cardinality(visited) + 1 /\ root \notin visited

\* The search ends.
SearchTerminates == <>(result # "none")
=============================================================================
