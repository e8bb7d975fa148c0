------------------------------ MODULE Isolation ------------------------------
(***************************************************************************)
(* What transactions see and leave behind when they work through the       *)
(* buffer pool.  The contents of a page are the transactions whose writes  *)
(* it has (Content is SUBSET Tids), and history variables say what it      *)
(* ought to be, so that isolation, atomicity and durability are equations. *)
(***************************************************************************)
EXTENDS BufferPool

ASSUME WritersAssumption == Content = SUBSET Tids /\ \A c \in Content : RoundTrip(c) = c
ASSUME UnwrittenAssumption == \A k \in Keys : DiskInit[k] \in {{}, Nil}

VARIABLES
    wrote,     \* history: the pages t has written and not had rolled back
    saved,     \* history: page -> the committed transactions that wrote it
    detached   \* history: a pointer in use was left behind by the pool

history == <<wrote, saved, detached>>

\* The pool's object of a page is the one that the transaction which may
\* write the page commits, and the one that those asleep on it will get.
Attached ==
    \A t \in Tids :
        /\ \A k \in Keys : mapPageLocksByTid[t][k] = "Write" => lockPage[t][k] = pages[k]
        /\ waiting[t] # Nil => waitPage[t] = pages[waiting[t].key]

\* t writes the page GetPage gave it: its mark is added to the contents.
Write(t) ==
    /\ handle[t] # Nil
    /\ Modify(t, heap[handle[t].key][handle[t].page].data \cup {t})
    /\ wrote' = [wrote EXCEPT ![t] = @ \cup {handle[t].key}]
    /\ UNCHANGED saved

\* A commit makes the writes of t last, a rollback (in AbortTransaction or in
\* GetPage) undoes them; no other step of the pool does either.
Commit(t) ==
    /\ CommitTransaction(t)
    /\ saved' = [k \in Keys |-> IF k \in wrote[t] THEN saved[k] \cup {t} ELSE saved[k]]
    /\ UNCHANGED wrote

Abort(t) ==
    /\ AbortTransaction(t)
    /\ wrote' = [wrote EXCEPT ![t] = {}]
    /\ UNCHANGED saved

Get(t) ==
    /\ WakeGetPage(t) \/ \E k \in Keys, perm \in Perms : GetPage(t, k, perm)
    /\ wrote' = [wrote EXCEPT ![t] = IF RolledBack(t) THEN {} ELSE @]
    /\ UNCHANGED saved

Flush == FlushAllPages /\ UNCHANGED <<wrote, saved>>

IsolationInit ==
    /\ Init
    /\ wrote = [t \in Tids |-> {}]
    /\ saved = [k \in Keys |-> {}]
    /\ detached = FALSE

IsolationNext ==
    /\ \/ \E t \in Tids : Get(t)
       \/ \E t \in Tids : Write(t)
       \/ \E t \in Tids : Commit(t)
       \/ \E t \in Tids : Abort(t)
       \/ Flush
    /\ detached' = (detached \/ ~ Attached')

IsolationSpec == IsolationInit /\ [][IsolationNext]_<<vars, history>>

-----------------------------------------------------------------------------
\* What t must see in page k: the committed writes and its own.
View(t, k) == saved[k] \cup (IF k \in wrote[t] THEN {t} ELSE {})

\* The page GetPage returns has every committed write and the caller's own,
\* and no other, and stays so while the caller looks at it: no dirty read, no
\* stale read, no lost update.
Isolated ==
    \A t \in Tids : handle[t] # Nil =>
        heap[handle[t].key][handle[t].page].data = View(t, handle[t].key)

\* FORCE and NO STEAL: no write is on disk before its commit or after a
\* rollback.
DiskOnlyCommitted == \A k \in Keys : disk[k] # Nil => disk[k] \subseteq saved[k]

\* Durability: a committed write is on disk and stays there.
CommittedOnDisk == \A k \in Keys : saved[k] # {} => disk[k] # Nil /\ saved[k] \subseteq disk[k]

\* Isolation, atomicity and durability hold as long as the pool has never let
\* go of a page object that a writer had locked or a sleeping GetPage had
\* found.  (Eviction and rollback do let go of such objects: the runs
\* abort_leak and evict_locked.)
IsolatedUnlessDetached == detached \/ (Isolated /\ DiskOnlyCommitted /\ CommittedOnDisk)
=============================================================================
