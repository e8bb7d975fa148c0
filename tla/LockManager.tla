----------------------------- MODULE LockManager -----------------------------
(***************************************************************************)
(* The page locks of GoDB's buffer pool (godb/buffer_pool.go): which       *)
(* transaction has which page locked with which permission, who waits for  *)
(* whom, and how a deadlock is found and broken.                           *)
(*                                                                         *)
(* Every method of the pool runs under bp.mu, which GetPage gives up only  *)
(* while it sleeps in waitWhenConflict.  An action is therefore one        *)
(* critical section of bp.mu: a whole call, or the part of a GetPage call  *)
(* up to its sleep, or the part of it after one sleep.  What GetPage does  *)
(* with the pages themselves is added by module BufferPool.                *)
(***************************************************************************)
EXTENDS WaitsFor, Integers, FiniteSets

CONSTANTS
    Files,      \* heap files
    MaxPages,   \* bound: page numbers are 0 .. MaxPages-1
    Nil         \* Go's nil, and "no entry in the map"

Perms == {"Read", "Write"}
Keys == [file : Files, pageNo : 0 .. MaxPages - 1]   \* heapHash
Request == [key : Keys, perm : Perms]

ASSUME MaxPagesAssumption == MaxPages \in Nat
ASSUME NilAssumption == Nil \notin Perms /\ Nil \notin Request

VARIABLES
    mapPageLocksByTid,  \* tid -> key -> permission of the PageLock, or Nil
    waitTidLocks,       \* tid -> set of the tids it waits for
    waiting,            \* tid -> the request asleep in waitWhenConflict, or Nil
    ended               \* tids that called CommitTransaction/AbortTransaction

lockVars == <<mapPageLocksByTid, waitTidLocks, waiting, ended>>

-----------------------------------------------------------------------------
\* Mutant: only the other's permission is looked at, so a writer does not wait
\* for readers.
Excludes_OthersWriteOnly(t, pageNo, perm) ==
    \E k \in Keys : k.pageNo = pageNo /\ mapPageLocksByTid[t][k] = "Write"

\* t has a lock on a page numbered pageNo that excludes perm.  Like the code,
\* it compares page numbers and not the files they belong to.
Excludes(t, pageNo, perm) ==
    \E k \in Keys : /\ mapPageLocksByTid[t][k] # Nil
                    /\ k.pageNo = pageNo
                    /\ "Write" \in {mapPageLocksByTid[t][k], perm}

\* The other transactions isConflicted finds in the way of a request.
Conflicts(t, pageNo, perm) == {u \in Tids \ {t} : Excludes(u, pageNo, perm)}

\* Mutant: isConflicted finds the conflict but does not record who waits.
WithEdges_NotRecorded(t, k, perm) == waitTidLocks

\* waitTidLocks once isConflicted has added the edges of t.
WithEdges(t, k, perm) ==
    [waitTidLocks EXCEPT ![t] = @ \cup Conflicts(t, k.pageNo, perm)]

\* Mutant: the entry of t goes, but t stays in the entries of the others.
DeleteWaitTidLocks_OwnEntryOnly(t) == [waitTidLocks EXCEPT ![t] = {}]

DeleteWaitTidLocks(t) ==
    [u \in Tids |-> IF u = t THEN {} ELSE waitTidLocks[u] \ {t}]

\* Mutant: the PageLock is replaced always, a lock for writing too.
SaveMapAndUpgradeLock_Always(t, k, perm) == [mapPageLocksByTid EXCEPT ![t][k] = perm]

SaveMapAndUpgradeLock(t, k, perm) ==
    [mapPageLocksByTid EXCEPT ![t][k] = IF @ = Nil \/ perm = "Write" THEN perm ELSE @]

\* Mutant: only the locks for writing are given up.
ReleaseLocks_WriteOnly(t) ==
    /\ mapPageLocksByTid' = [mapPageLocksByTid EXCEPT ![t] =
                               [k \in Keys |-> IF @[k] = "Write" THEN Nil ELSE @[k]]]
    /\ waitTidLocks' = DeleteWaitTidLocks(t)

\* delete(bp.mapPageLocksByTid, tid), and its edges, on commit and in clearMap
ReleaseLocks(t) ==
    /\ mapPageLocksByTid' = [mapPageLocksByTid EXCEPT ![t] = [k \in Keys |-> Nil]]
    /\ waitTidLocks' = DeleteWaitTidLocks(t)

-----------------------------------------------------------------------------
(* The loop of handleTransactionInGetPage, up to its end or its next sleep *)

Grant(t, k, perm) ==
    /\ Conflicts(t, k.pageNo, perm) = {}
    /\ mapPageLocksByTid' = SaveMapAndUpgradeLock(t, k, perm)
    /\ waitTidLocks' = DeleteWaitTidLocks(t)
    /\ waiting' = [waiting EXCEPT ![t] = Nil]

\* Mutant: a transaction that meets a conflict is rolled back without a search
\* for a cycle.
Victim_NoSearch(t, k, perm) ==
    /\ Conflicts(t, k.pageNo, perm) # {}
    /\ ReleaseLocks(t)
    /\ waiting' = [waiting EXCEPT ![t] = Nil]

\* A cycle through t: t is rolled back and the call returns an error.
Victim(t, k, perm) ==
    /\ Conflicts(t, k.pageNo, perm) # {}
    /\ DeadLockPrevent(t, WithEdges(t, k, perm))
    /\ ReleaseLocks(t)
    /\ waiting' = [waiting EXCEPT ![t] = Nil]

Sleep(t, k, perm) ==
    /\ Conflicts(t, k.pageNo, perm) # {}
    /\ ~ DeadLockPrevent(t, WithEdges(t, k, perm))
    /\ waitTidLocks' = WithEdges(t, k, perm)
    /\ waiting' = [waiting EXCEPT ![t] = [key |-> k, perm |-> perm]]
    /\ UNCHANGED mapPageLocksByTid

\* t is between two calls.  After an error its caller may do as it likes: go
\* on with the same tid, abort it, or commit it.
Running(t) == t \notin ended /\ waiting[t] = Nil

Lock(t, k, perm) ==
    /\ Running(t)
    /\ Grant(t, k, perm) \/ Victim(t, k, perm) \/ Sleep(t, k, perm)
    /\ UNCHANGED ended

\* The sleep is over and the loop looks at the locks again.
Wake(t) ==
    /\ waiting[t] # Nil
    /\ LET k == waiting[t].key
           perm == waiting[t].perm
       IN  Grant(t, k, perm) \/ Victim(t, k, perm) \/ Sleep(t, k, perm)
    /\ UNCHANGED ended

\* The part CommitTransaction and AbortTransaction have in common.
End(t) ==
    /\ Running(t)
    /\ ReleaseLocks(t)
    /\ ended' = ended \cup {t}
    /\ UNCHANGED waiting

-----------------------------------------------------------------------------
LockInit ==
    /\ mapPageLocksByTid = [t \in Tids |-> [k \in Keys |-> Nil]]
    /\ waitTidLocks = [t \in Tids |-> {}]
    /\ waiting = [t \in Tids |-> Nil]
    /\ ended = {}

LockNext ==
    \/ \E t \in Tids, k \in Keys, perm \in Perms : Lock(t, k, perm)
    \/ \E t \in Tids : Wake(t)
    \/ \E t \in Tids : End(t)

LockSpec == LockInit /\ [][LockNext]_lockVars

\* A sleeping GetPage wakes and gets bp.mu, and a transaction that gets
\* control again and again ends.
LockFairness == \A t \in Tids : WF_lockVars(Wake(t)) /\ SF_lockVars(End(t))

FairLockSpec == LockSpec /\ LockFairness

-----------------------------------------------------------------------------
(* What the locks must guarantee                                           *)

\* The types of the variables of the lock manager, and that a transaction which
\* has ended has nothing left in its tables.
LockTypeOK ==
    /\ mapPageLocksByTid \in [Tids -> [Keys -> Perms \cup {Nil}]]
    /\ waitTidLocks \in [Tids -> SUBSET Tids]
    /\ waiting \in [Tids -> Request \cup {Nil}]
    /\ ended \in SUBSET Tids
    /\ \A t \in ended : /\ mapPageLocksByTid[t] = [k \in Keys |-> Nil]
                         /\ waiting[t] = Nil

\* Whatever GetPage grants, after any waits and upgrades, two transactions
\* that both have a lock on a page both have it for reading.
LockCompatible ==
    \A t, u \in Tids : \A k \in Keys :
        (t # u /\ mapPageLocksByTid[t][k] # Nil /\ mapPageLocksByTid[u][k] # Nil)
            => mapPageLocksByTid[t][k] = "Read"

\* The waits-for table is never out of date: if it says that t waits for u,
\* then t is asleep in GetPage and u has, now, a lock in its way.
WaitEdgesSound ==
    \A t \in Tids : \A u \in waitTidLocks[t] :
        /\ u # t
        /\ waiting[t] # Nil
        /\ Excludes(u, waiting[t].key.pageNo, waiting[t].perm)

\* Who is really in whose way, when t asks for perm on page k.
Blockers(t, k, perm) ==
    [u \in Tids |->
        IF u = t THEN Conflicts(t, k.pageNo, perm)
        ELSE IF waiting[u] = Nil THEN {}
        ELSE Conflicts(u, waiting[u].key.pageNo, waiting[u].perm)]

\* t is rolled back inside GetPage, without a call of Commit or Abort.
RolledBack(t) ==
    /\ t \notin ended'
    /\ \E k \in Keys : mapPageLocksByTid[t][k] # Nil /\ mapPageLocksByTid'[t][k] = Nil

\* The request t is making in this step.
MayRequest(t, k, perm) ==
    waiting[t] = Nil \/ waiting[t] = [key |-> k, perm |-> perm]

\* Whoever is rolled back closes, with the request it is making, a cycle of
\* transactions in each other's way.
RollbackBreaksCycle ==
    \A t \in Tids : RolledBack(t) =>
        \E k \in Keys, perm \in Perms :
            MayRequest(t, k, perm) /\ DeadLockPrevent(t, Blockers(t, k, perm))

\* GetPage rolls a transaction back only to break a deadlock: the transactions
\* of the cycle are, at that moment, each asleep behind a lock of the next.
VictimIsDeadlocked == [][RollbackBreaksCycle]_lockVars

\* The lock manager implements strict two-phase locking on pages, the abstract
\* specification LockTable: a lock is granted only if it is compatible with
\* those of the others, is upgraded but never weakened, and goes only together
\* with all the other locks of its transaction.
Holders(k, perm) == {t \in Tids : mapPageLocksByTid[t][k] = perm}

Table == INSTANCE LockTable WITH
            sharers <- [k \in Keys |-> Holders(k, "Read")],
            owners <- [k \in Keys |-> Holders(k, "Write")]

ImplementsLockTable == Table!Spec

\* A GetPage call that sleeps returns, with the page or with an error: polling
\* and deadlock detection leave no transaction asleep for ever.
GetPageReturns == \A t \in Tids : waiting[t] # Nil ~> waiting[t] = Nil

\* Locks are on pages: a transaction is kept asleep only by locks on the page
\* of the file that it asked for.
WaitsForSamePage ==
    \A t \in Tids : \A u \in waitTidLocks[t] :
        mapPageLocksByTid[u][waiting[t].key] # Nil
=============================================================================
