----------------------------- MODULE MCHeapFile -----------------------------
(* Instances of HeapFile for TLC.                                          *)
EXTENDS HeapFile, TLC

CONSTANTS a, b,   \* the tuples of the files at the start
          News    \* the other tuples

MCTuples == {a, b} \cup News

\* Enumerated, so that TLC can tell Nil from its elements.
MCContent == {d : d \in Slots}

\* The first page of each file has a in its first slot and b in its second, if
\* there is one; the file ends there.
MCDisk ==
    [k \in Keys |->
        IF k.pageNo = 0
        THEN [s \in SlotNos |-> IF s = 0 THEN a ELSE IF s = 1 THEN b ELSE Nil]
        ELSE Nil]

\* Transactions are interchangeable, and so are the tuples still to be inserted.
MCSymmetry == Permutations(Tids) \cup Permutations(News)

\* Once detached is TRUE it stays so, and HeapExactUnlessDetached says nothing
\* more: such a state need not be explored further.
MCStillAttached == ~ detached
=============================================================================
