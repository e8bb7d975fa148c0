------------------------------- MODULE WaitsFor -------------------------------
(* What deadLockPrevent decides, as a property of the waits-for table.  The  *)
(* search that decides it is module DeadLockSearch.                          *)

CONSTANT Tids   \* transaction identifiers (each NewTID is a fresh pointer)

\* deadLockPrevent: root can be reached from the tids root waits for, that is,
\* it is in every set that contains them and is closed under waits-for.
DeadLockPrevent(root, waits) ==
    \A S \in SUBSET Tids :
        (waits[root] \subseteq S /\ \A u \in S : waits[u] \subseteq S) => root \in S
=============================================================================
