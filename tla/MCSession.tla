------------------------------ MODULE MCSession ------------------------------
(* An instance of Session for TLC.                                         *)
EXTENDS Session

CONSTANTS a,     \* the tuple the files have at the start
          News   \* the tuples to insert

MCTuples == {a} \cup News
MCContent == {d : d \in Slots}

\* The tables there are at the start have one page, with a in the first one's.
MCDisk ==
    [k \in Keys |->
        IF k.file \in TabsInit /\ k.pageNo = 0
        THEN [s \in SlotNos |-> IF s = 0 THEN a ELSE Nil]
        ELSE Nil]
=============================================================================
