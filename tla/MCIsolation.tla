----------------------------- MODULE MCIsolation -----------------------------
(* Instances of Isolation for TLC.                                         *)
EXTENDS Isolation, TLC

MCContent == {W : W \in SUBSET Tids}

\* Every page exists and has no write yet.
MCDisk == [k \in Keys |-> {}]

\* The same, but the last page number lies past the end of its file.
MCShortDisk == [k \in Keys |-> IF k.pageNo = MaxPages - 1 THEN Nil ELSE {}]

\* A set of writes is the same after a trip to the disk.
MCRoundTrip(c) == c

\* Transactions are interchangeable.
MCSymmetry == Permutations(Tids)
=============================================================================
