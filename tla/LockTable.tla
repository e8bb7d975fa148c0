------------------------------- MODULE LockTable -------------------------------
(***************************************************************************)
(* Strict two-phase locking at page granularity, as the lab's documents    *)
(* describe it (readme/lab3.md, sections 2.4 to 2.6): shared and exclusive *)
(* locks, upgrade by the only sharer, and release of all the locks of a    *)
(* transaction at once.  No waiting, no deadlock, no page: what the lock   *)
(* manager promises to the rest of the system.                             *)
(***************************************************************************)
CONSTANTS Tids, Keys

VARIABLES sharers,   \* page -> transactions with a shared lock
          owners     \* page -> transactions with an exclusive lock

table == <<sharers, owners>>

Init == /\ sharers = [k \in Keys |-> {}]
        /\ owners = [k \in Keys |-> {}]

TakeShared(t, k) ==
    /\ owners[k] = {}
    /\ sharers' = [sharers EXCEPT ![k] = @ \cup {t}]
    /\ UNCHANGED owners

TakeExclusive(t, k) ==
    /\ sharers[k] \cup owners[k] \subseteq {t}
    /\ sharers' = [sharers EXCEPT ![k] = {}]
    /\ owners' = [owners EXCEPT ![k] = {t}]

ReleaseAll(t) ==
    /\ sharers' = [k \in Keys |-> sharers[k] \ {t}]
    /\ owners' = [k \in Keys |-> owners[k] \ {t}]

Next ==
    \E t \in Tids : \/ \E k \in Keys : TakeShared(t, k) \/ TakeExclusive(t, k)
                    \/ ReleaseAll(t)

Spec == Init /\ [][Next]_table
=============================================================================
