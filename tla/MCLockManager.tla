---------------------------- MODULE MCLockManager ----------------------------
(* Instances of LockManager for TLC.                                       *)
EXTENDS LockManager, TLC

\* Transactions are interchangeable.
MCSymmetry == Permutations(Tids)
=============================================================================
