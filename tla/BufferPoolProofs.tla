--------------------------- MODULE BufferPoolProofs ---------------------------
(***************************************************************************)
(* Proofs about LockManager and BufferPool, for every pool size and any    *)
(* number of transactions, files and pages.  The lock manager: types,      *)
(* compatibility of locks, soundness of the waits-for table, that only     *)
(* transactions in a deadlock are rolled back, and that all this implements*)
(* strict two-phase locking.  The pool: its locks are those of LockManager,*)
(* no pointer dangles, and a dirty page is never evicted.                  *)
(***************************************************************************)
EXTENDS BufferPool, FiniteSetTheorems, TLAPS

-------------------------------------------------------------------------------
(* The lock manager                                                          *)

\* A request of t, in its first attempt or after a sleep.
Attempt(t, k, perm) ==
    /\ t \in Tids
    /\ k \in Keys
    /\ perm \in Perms
    /\ t \notin ended
    /\ MayRequest(t, k, perm)
    /\ Grant(t, k, perm) \/ Victim(t, k, perm) \/ Sleep(t, k, perm)
    /\ UNCHANGED ended

\* Every step of the lock manager is an attempt or the end of a transaction.
LEMMA StepCases ==
    ASSUME LockTypeOK, LockNext
    PROVE  \/ \E t \in Tids, k \in Keys, perm \in Perms : Attempt(t, k, perm)
           \/ \E t \in Tids : End(t)
<1>1. ASSUME NEW t \in Tids, NEW k \in Keys, NEW perm \in Perms, Lock(t, k, perm)
      PROVE  Attempt(t, k, perm)
  BY <1>1 DEF Lock, Attempt, Running, MayRequest
<1>2. ASSUME NEW t \in Tids, Wake(t)
      PROVE  Attempt(t, waiting[t].key, waiting[t].perm)
  <2>1. waiting[t] \in Request /\ t \notin ended
    BY <1>2 DEF Wake, LockTypeOK
  <2>2. waiting[t] = [key |-> waiting[t].key, perm |-> waiting[t].perm]
    BY <2>1 DEF Request
  <2>3. waiting[t].key \in Keys /\ waiting[t].perm \in Perms
    BY <2>1 DEF Request
  <2> QED
    BY <1>2, <2>1, <2>2, <2>3 DEF Wake, Attempt, MayRequest
<1>3. ASSUME NEW t \in Tids, Wake(t)
      PROVE  waiting[t].key \in Keys /\ waiting[t].perm \in Perms
  BY <1>3, <1>2 DEF Attempt
<1> QED
  BY <1>1, <1>2, <1>3 DEF LockNext

-----------------------------------------------------------------------------
(* Types                                                                   *)

\* The initial tables are empty, and so typed.
LEMMA InitTyped == LockInit => LockTypeOK
  BY DEF LockInit, LockTypeOK

\* The tables after an attempt or an end have their types.
LEMMA TablesTyped ==
    ASSUME LockTypeOK, NEW t \in Tids, NEW k \in Keys, NEW perm \in Perms
    PROVE  /\ SaveMapAndUpgradeLock(t, k, perm) \in [Tids -> [Keys -> Perms \cup {Nil}]]
           /\ DeleteWaitTidLocks(t) \in [Tids -> SUBSET Tids]
           /\ WithEdges(t, k, perm) \in [Tids -> SUBSET Tids]
           /\ [mapPageLocksByTid EXCEPT ![t] = [l \in Keys |-> Nil]]
                 \in [Tids -> [Keys -> Perms \cup {Nil}]]
           /\ [waiting EXCEPT ![t] = Nil] \in [Tids -> Request \cup {Nil}]
           /\ [waiting EXCEPT ![t] = [key |-> k, perm |-> perm]] \in [Tids -> Request \cup {Nil}]
<1>1. SaveMapAndUpgradeLock(t, k, perm) \in [Tids -> [Keys -> Perms \cup {Nil}]]
  BY DEF LockTypeOK, SaveMapAndUpgradeLock
<1>2. DeleteWaitTidLocks(t) \in [Tids -> SUBSET Tids]
  BY DEF LockTypeOK, DeleteWaitTidLocks
<1>3. WithEdges(t, k, perm) \in [Tids -> SUBSET Tids]
  <2>1. Conflicts(t, k.pageNo, perm) \in SUBSET Tids
    BY DEF Conflicts
  <2> QED
    BY <2>1 DEF LockTypeOK, WithEdges
<1>4. [mapPageLocksByTid EXCEPT ![t] = [l \in Keys |-> Nil]]
         \in [Tids -> [Keys -> Perms \cup {Nil}]]
  BY DEF LockTypeOK
<1>5. [key |-> k, perm |-> perm] \in Request
  BY DEF Request
<1> QED
  BY <1>1, <1>2, <1>3, <1>4, <1>5 DEF LockTypeOK

\* An attempt, granted or not, keeps the types.
LEMMA AttemptTyped ==
    ASSUME LockTypeOK, NEW t \in Tids, NEW k \in Keys, NEW perm \in Perms, Attempt(t, k, perm)
    PROVE  LockTypeOK'
<1> USE TablesTyped
<1>1. CASE Grant(t, k, perm)
  <2>1. /\ mapPageLocksByTid' \in [Tids -> [Keys -> Perms \cup {Nil}]]
        /\ waitTidLocks' \in [Tids -> SUBSET Tids]
        /\ waiting' \in [Tids -> Request \cup {Nil}]
        /\ ended' \in SUBSET Tids
    BY <1>1 DEF Attempt, Grant, LockTypeOK
  <2>2. ASSUME NEW u \in ended'
        PROVE  mapPageLocksByTid'[u] = [l \in Keys |-> Nil] /\ waiting'[u] = Nil
    BY <1>1, <2>2 DEF Attempt, Grant, LockTypeOK, SaveMapAndUpgradeLock
  <2> QED
    BY <2>1, <2>2 DEF LockTypeOK
<1>2. CASE Victim(t, k, perm)
  <2>1. /\ mapPageLocksByTid' \in [Tids -> [Keys -> Perms \cup {Nil}]]
        /\ waitTidLocks' \in [Tids -> SUBSET Tids]
        /\ waiting' \in [Tids -> Request \cup {Nil}]
        /\ ended' \in SUBSET Tids
    BY <1>2 DEF Attempt, Victim, ReleaseLocks, LockTypeOK
  <2>2. ASSUME NEW u \in ended'
        PROVE  mapPageLocksByTid'[u] = [l \in Keys |-> Nil] /\ waiting'[u] = Nil
    BY <1>2, <2>2 DEF Attempt, Victim, ReleaseLocks, LockTypeOK
  <2> QED
    BY <2>1, <2>2 DEF LockTypeOK
<1>3. CASE Sleep(t, k, perm)
  <2>1. /\ mapPageLocksByTid' \in [Tids -> [Keys -> Perms \cup {Nil}]]
        /\ waitTidLocks' \in [Tids -> SUBSET Tids]
        /\ waiting' \in [Tids -> Request \cup {Nil}]
        /\ ended' \in SUBSET Tids
    BY <1>3 DEF Attempt, Sleep, LockTypeOK
  <2>2. ASSUME NEW u \in ended'
        PROVE  mapPageLocksByTid'[u] = [l \in Keys |-> Nil] /\ waiting'[u] = Nil
    BY <1>3, <2>2 DEF Attempt, Sleep, LockTypeOK
  <2> QED
    BY <2>1, <2>2 DEF LockTypeOK
<1> QED
  BY <1>1, <1>2, <1>3 DEF Attempt

\* Ending a transaction keeps the types and leaves nothing of it.
LEMMA EndTyped ==
    ASSUME LockTypeOK, NEW t \in Tids, End(t)
    PROVE  LockTypeOK'
<1>1. /\ mapPageLocksByTid' \in [Tids -> [Keys -> Perms \cup {Nil}]]
      /\ waitTidLocks' \in [Tids -> SUBSET Tids]
      /\ waiting' \in [Tids -> Request \cup {Nil}]
      /\ ended' \in SUBSET Tids
  BY DEF End, ReleaseLocks, DeleteWaitTidLocks, LockTypeOK
<1>2. ASSUME NEW u \in ended'
      PROVE  mapPageLocksByTid'[u] = [l \in Keys |-> Nil] /\ waiting'[u] = Nil
  BY <1>2 DEF End, ReleaseLocks, Running, LockTypeOK
<1> QED
  BY <1>1, <1>2 DEF LockTypeOK

\* Every step keeps the types.
LEMMA StepTyped == LockTypeOK /\ [LockNext]_lockVars => LockTypeOK'
<1> SUFFICES ASSUME LockTypeOK, [LockNext]_lockVars PROVE LockTypeOK'
  OBVIOUS
<1>1. CASE LockNext
  BY <1>1, StepCases, AttemptTyped, EndTyped
<1>2. CASE UNCHANGED lockVars
  BY <1>2 DEF lockVars, LockTypeOK
<1> QED
  BY <1>1, <1>2

\* Every state of the lock manager has the right types, and an ended
\* transaction has no locks and no sleeping call.
THEOREM Typing == LockSpec => []LockTypeOK
  BY InitTyped, StepTyped, PTL DEF LockSpec

-----------------------------------------------------------------------------
(* Compatibility of locks                                                  *)

\* A request that meets no conflict is compatible with the others' locks.
LEMMA NoConflict ==
    ASSUME NEW t \in Tids, NEW u \in Tids \ {t}, NEW k \in Keys, NEW perm,
           Conflicts(t, k.pageNo, perm) = {}, mapPageLocksByTid[u][k] # Nil
    PROVE  perm # "Write" /\ mapPageLocksByTid[u][k] # "Write"
  BY DEF Conflicts, Excludes

\* Every step keeps the locks compatible: a grant meets no conflict, and the
\* other steps only give locks up.
LEMMA StepCompatible ==
    LockTypeOK /\ LockCompatible /\ [LockNext]_lockVars => LockCompatible'
<1> SUFFICES ASSUME LockTypeOK, LockCompatible, [LockNext]_lockVars,
                    NEW t \in Tids, NEW u \in Tids, NEW k \in Keys, t # u,
                    mapPageLocksByTid'[t][k] # Nil, mapPageLocksByTid'[u][k] # Nil
             PROVE  mapPageLocksByTid'[t][k] = "Read"
  BY DEF LockCompatible
<1>1. ASSUME NEW v \in Tids, mapPageLocksByTid' = [mapPageLocksByTid EXCEPT ![v] = [l \in Keys |-> Nil]]
      PROVE  mapPageLocksByTid'[t][k] = "Read"
  BY <1>1 DEF LockCompatible, LockTypeOK
<1>2. ASSUME NEW v \in Tids, NEW l \in Keys, NEW perm \in Perms, Grant(v, l, perm)
      PROVE  mapPageLocksByTid'[t][k] = "Read"
  <2>1. CASE l # k \/ (v # t /\ v # u)
    BY <1>2, <2>1 DEF Grant, SaveMapAndUpgradeLock, LockCompatible, LockTypeOK
  <2>2. CASE l = k /\ v = t
    <3>1. mapPageLocksByTid[u][k] # Nil
      BY <1>2, <2>2 DEF Grant, SaveMapAndUpgradeLock, LockTypeOK
    <3>2. perm = "Read"
      BY <1>2, <2>2, <3>1, NoConflict DEF Grant, Perms
    <3>3. mapPageLocksByTid[t][k] # Nil => mapPageLocksByTid[t][k] = "Read"
      BY <3>1 DEF LockCompatible
    <3> QED
      BY <1>2, <2>2, <3>2, <3>3 DEF Grant, SaveMapAndUpgradeLock, LockTypeOK
  <2>3. CASE l = k /\ v = u
    <3>1. mapPageLocksByTid'[t][k] = mapPageLocksByTid[t][k]
      BY <1>2, <2>3 DEF Grant, SaveMapAndUpgradeLock, LockTypeOK
    <3>2. mapPageLocksByTid[t][k] # "Write"
      BY <1>2, <2>3, <3>1, NoConflict DEF Grant
    <3> QED
      BY <3>1, <3>2 DEF LockTypeOK, Perms
  <2> QED
    BY <2>1, <2>2, <2>3
<1>3. ASSUME mapPageLocksByTid' = mapPageLocksByTid
      PROVE  mapPageLocksByTid'[t][k] = "Read"
  BY <1>3 DEF LockCompatible
<1>4. CASE LockNext
  <2>1. ASSUME NEW v \in Tids, NEW l \in Keys, NEW perm \in Perms, Attempt(v, l, perm)
        PROVE  mapPageLocksByTid'[t][k] = "Read"
    BY <2>1, <1>1, <1>2, <1>3 DEF Attempt, Victim, ReleaseLocks, Sleep
  <2>2. ASSUME NEW v \in Tids, End(v)
        PROVE  mapPageLocksByTid'[t][k] = "Read"
    BY <2>2, <1>1 DEF End, ReleaseLocks
  <2> QED
    BY <1>4, <2>1, <2>2, StepCases
<1>5. CASE UNCHANGED lockVars
  BY <1>5, <1>3 DEF lockVars
<1> QED
  BY <1>4, <1>5

\* Whatever requests, upgrades, waits, deadlocks and ends have come before, a
\* page locked for writing is locked by one transaction only.
THEOREM Compatibility == LockSpec => []LockCompatible
<1>1. LockInit => LockCompatible
  BY DEF LockInit, LockCompatible
<1> QED
  BY <1>1, StepCompatible, Typing, PTL DEF LockSpec

-----------------------------------------------------------------------------
(* Soundness of the waits-for table                                        *)

\* u has a lock in the way of the request that t sleeps on.
InWay(u, t) == waiting[t] # Nil /\ Excludes(u, waiting[t].key.pageNo, waiting[t].perm)

\* Saving a lock leaves every lock in place, or makes it stronger.
LEMMA GrantKeepsExclusion ==
    ASSUME LockTypeOK, NEW t \in Tids, NEW k \in Keys, NEW perm \in Perms, Grant(t, k, perm),
           NEW u \in Tids, NEW pageNo, NEW p, Excludes(u, pageNo, p)
    PROVE  Excludes(u, pageNo, p)'
<1>1. PICK l \in Keys : /\ mapPageLocksByTid[u][l] # Nil
                        /\ l.pageNo = pageNo
                        /\ "Write" \in {mapPageLocksByTid[u][l], p}
  BY DEF Excludes
<1>2. mapPageLocksByTid'[u][l] \in {mapPageLocksByTid[u][l], "Write"}
  BY <1>1 DEF Grant, SaveMapAndUpgradeLock, LockTypeOK
<1>3. mapPageLocksByTid'[u][l] # Nil /\ "Write" \in {mapPageLocksByTid'[u][l], p}
  BY <1>1, <1>2, NilAssumption DEF Perms
<1> QED
  BY <1>1, <1>3 DEF Excludes

\* Giving up the locks of t leaves those of the others in place.
LEMMA ReleaseKeepsExclusion ==
    ASSUME LockTypeOK, NEW t \in Tids, ReleaseLocks(t),
           NEW u \in Tids \ {t}, NEW pageNo, NEW p, Excludes(u, pageNo, p)
    PROVE  Excludes(u, pageNo, p)'
  BY DEF ReleaseLocks, Excludes, LockTypeOK

\* Every step keeps the waits-for table up to date.
LEMMA StepEdgesSound ==
    LockTypeOK /\ WaitEdgesSound /\ [LockNext]_lockVars => WaitEdgesSound'
<1> SUFFICES ASSUME LockTypeOK, WaitEdgesSound, [LockNext]_lockVars,
                    NEW t \in Tids, NEW u \in waitTidLocks'[t]
             PROVE  u # t /\ InWay(u, t)'
  BY DEF WaitEdgesSound, InWay
<1>1. ASSUME NEW w \in waitTidLocks[t] PROVE w \in Tids /\ w # t /\ InWay(w, t)
  BY <1>1 DEF WaitEdgesSound, InWay, LockTypeOK
<1>2. ASSUME NEW v \in Tids, ReleaseLocks(v), waiting' = [waiting EXCEPT ![v] = Nil]
      PROVE  u # t /\ InWay(u, t)'
  <2>1. t # v /\ u \in waitTidLocks[t] /\ u # v
    BY <1>2 DEF ReleaseLocks, DeleteWaitTidLocks, LockTypeOK
  <2>2. waiting'[t] = waiting[t]
    BY <1>2, <2>1 DEF LockTypeOK
  <2> QED
    BY <1>1, <1>2, <2>1, <2>2, ReleaseKeepsExclusion DEF InWay
<1>3. ASSUME NEW v \in Tids, NEW k \in Keys, NEW perm \in Perms, Grant(v, k, perm)
      PROVE  u # t /\ InWay(u, t)'
  <2>1. t # v /\ u \in waitTidLocks[t]
    BY <1>3 DEF Grant, DeleteWaitTidLocks, LockTypeOK
  <2>2. waiting'[t] = waiting[t]
    BY <1>3, <2>1 DEF Grant, LockTypeOK
  <2> QED
    BY <1>1, <1>3, <2>1, <2>2, GrantKeepsExclusion DEF InWay
<1>4. ASSUME NEW v \in Tids, NEW k \in Keys, NEW perm \in Perms,
             Sleep(v, k, perm), MayRequest(v, k, perm)
      PROVE  u # t /\ InWay(u, t)'
  <2>1. CASE t # v
    BY <1>1, <1>4, <2>1 DEF Sleep, WithEdges, InWay, Excludes, LockTypeOK
  <2>2. CASE t = v
    <3>1. waiting'[t] = [key |-> k, perm |-> perm] /\ waiting'[t] # Nil
      BY <1>4, <2>2, NilAssumption DEF Sleep, LockTypeOK, Request
    <3>2. u \in waitTidLocks[t] \/ u \in Conflicts(t, k.pageNo, perm)
      BY <1>4, <2>2 DEF Sleep, WithEdges, LockTypeOK
    <3>3. u # t /\ Excludes(u, k.pageNo, perm)
      BY <1>1, <1>4, <2>2, <3>2 DEF Conflicts, MayRequest, InWay
    <3>4. Excludes(u, k.pageNo, perm)'
      BY <1>4, <3>3 DEF Sleep, Excludes
    <3> QED
      BY <3>1, <3>3, <3>4 DEF InWay
  <2> QED
    BY <2>1, <2>2
<1>5. CASE LockNext
  <2>1. ASSUME NEW v \in Tids, NEW k \in Keys, NEW perm \in Perms, Attempt(v, k, perm)
        PROVE  u # t /\ InWay(u, t)'
    BY <2>1, <1>2, <1>3, <1>4 DEF Attempt, Victim
  <2>2. ASSUME NEW v \in Tids, End(v)
        PROVE  u # t /\ InWay(u, t)'
    <3>1. waiting' = [waiting EXCEPT ![v] = Nil]
      BY <2>2 DEF End, Running, LockTypeOK
    <3> QED
      BY <2>2, <3>1, <1>2 DEF End
  <2> QED
    BY <1>5, <2>1, <2>2, StepCases
<1>6. CASE UNCHANGED lockVars
  BY <1>6, <1>1 DEF lockVars, InWay, Excludes
<1> QED
  BY <1>5, <1>6

\* The waits-for table never has an edge that is out of date.
THEOREM EdgesSound == LockSpec => []WaitEdgesSound
<1>1. LockInit => WaitEdgesSound
  BY DEF LockInit, WaitEdgesSound
<1> QED
  BY <1>1, StepEdgesSound, Typing, PTL DEF LockSpec

-----------------------------------------------------------------------------
(* Only deadlocked transactions are rolled back                            *)

\* More edges never hide a cycle.
LEMMA CycleMonotone ==
    ASSUME NEW v, NEW w, NEW t \in Tids, DeadLockPrevent(t, v),
           \A u \in Tids : v[u] \subseteq w[u]
    PROVE  DeadLockPrevent(t, w)
  BY DEF DeadLockPrevent

\* All the edges the search sees are of transactions really in the way.
LEMMA EdgesAreBlockers ==
    ASSUME LockTypeOK, WaitEdgesSound, NEW t \in Tids, NEW k \in Keys, NEW perm \in Perms,
           MayRequest(t, k, perm), NEW u \in Tids
    PROVE  WithEdges(t, k, perm)[u] \subseteq Blockers(t, k, perm)[u]
<1>1. ASSUME NEW v \in waitTidLocks[u]
      PROVE  /\ v \in Tids \ {u}
             /\ waiting[u] # Nil
             /\ v \in Conflicts(u, waiting[u].key.pageNo, waiting[u].perm)
  BY <1>1 DEF WaitEdgesSound, LockTypeOK, Conflicts
<1>2. CASE u # t
  BY <1>1, <1>2 DEF WithEdges, Blockers, LockTypeOK
<1>3. CASE u = t
  <2>1. waitTidLocks[t] \subseteq Conflicts(t, k.pageNo, perm)
    BY <1>1, <1>3 DEF MayRequest
  <2>2. WithEdges(t, k, perm)[t] = waitTidLocks[t] \cup Conflicts(t, k.pageNo, perm)
    BY DEF WithEdges, LockTypeOK
  <2>3. Blockers(t, k, perm)[t] = Conflicts(t, k.pageNo, perm)
    BY DEF Blockers
  <2> QED
    BY <1>3, <2>1, <2>2, <2>3
<1> QED
  BY <1>2, <1>3

\* A step that rolls a transaction back closes a cycle with its request.
LEMMA StepBreaksCycle ==
    LockTypeOK /\ WaitEdgesSound /\ [LockNext]_lockVars => [RollbackBreaksCycle]_lockVars
<1> SUFFICES ASSUME LockTypeOK, WaitEdgesSound, LockNext, NEW t \in Tids, RolledBack(t)
             PROVE  \E k \in Keys, perm \in Perms :
                        MayRequest(t, k, perm) /\ DeadLockPrevent(t, Blockers(t, k, perm))
  BY DEF RollbackBreaksCycle
<1>1. PICK l \in Keys : mapPageLocksByTid[t][l] # Nil /\ mapPageLocksByTid'[t][l] = Nil
  BY DEF RolledBack
<1>2. ASSUME NEW v \in Tids, NEW k \in Keys, NEW perm \in Perms, Attempt(v, k, perm)
      PROVE  v = t /\ Victim(t, k, perm)
  <2>1. ~ Sleep(v, k, perm)
    BY <1>1 DEF Sleep
  <2>2. ~ Grant(v, k, perm)
    BY <1>1, NilAssumption DEF Grant, SaveMapAndUpgradeLock, LockTypeOK
  <2>3. Victim(v, k, perm)
    BY <1>2, <2>1, <2>2 DEF Attempt
  <2>4. v = t
    BY <1>1, <2>3 DEF Victim, ReleaseLocks, LockTypeOK
  <2> QED
    BY <2>3, <2>4
<1>3. ASSUME NEW v \in Tids, End(v) PROVE FALSE
  <2>1. v = t
    BY <1>1, <1>3 DEF End, ReleaseLocks, LockTypeOK
  <2> QED
    BY <1>3, <2>1 DEF End, RolledBack
<1>4. PICK v \in Tids, k \in Keys, perm \in Perms : Attempt(v, k, perm)
  BY <1>3, StepCases
<1>5. Victim(t, k, perm) /\ MayRequest(t, k, perm)
  BY <1>2, <1>4 DEF Attempt
<1>6. DeadLockPrevent(t, Blockers(t, k, perm))
  BY <1>5, CycleMonotone, EdgesAreBlockers DEF Victim
<1> QED
  BY <1>5, <1>6

\* A transaction that GetPage rolls back is in a deadlock.
THEOREM VictimsDeadlocked == LockSpec => VictimIsDeadlocked
  BY StepBreaksCycle, Typing, EdgesSound, PTL DEF LockSpec, VictimIsDeadlocked

-----------------------------------------------------------------------------
(* Refinement of LockTable                                                 *)

Sharers == [k \in Keys |-> Holders(k, "Read")]
Owners == [k \in Keys |-> Holders(k, "Write")]

\* No lock is held at the start.
LEMMA InitRefines == LockInit => Table!Init
<1> SUFFICES ASSUME LockInit PROVE Table!Init
  OBVIOUS
<1>1. ASSUME NEW k \in Keys, NEW perm \in Perms PROVE Holders(k, perm) = {}
  BY NilAssumption DEF LockInit, Holders
<1> QED
  BY <1>1 DEF Table!Init, Perms

\* Giving up the locks of t takes t out of all the sets of holders.
LEMMA ReleaseRefines ==
    ASSUME LockTypeOK, NEW t \in Tids, ReleaseLocks(t)
    PROVE  Table!ReleaseAll(t)
<1>1. ASSUME NEW k \in Keys, NEW perm \in Perms
      PROVE  Holders(k, perm)' = Holders(k, perm) \ {t}
  BY NilAssumption DEF ReleaseLocks, Holders, LockTypeOK
<1>2. Sharers' = [k \in Keys |-> Sharers[k] \ {t}] /\ Owners' = [k \in Keys |-> Owners[k] \ {t}]
  BY <1>1 DEF Sharers, Owners, Perms
<1> QED
  BY <1>2 DEF Table!ReleaseAll, Sharers, Owners

\* Saving a lock changes the holders of its page only, and only by t.
LEMMA GrantRefines ==
    ASSUME LockTypeOK, LockCompatible, NEW t \in Tids, NEW k \in Keys, NEW perm \in Perms,
           Grant(t, k, perm)
    PROVE  Table!TakeShared(t, k) \/ Table!TakeExclusive(t, k) \/ UNCHANGED Table!table
<1>1. ASSUME NEW l \in Keys \ {k}, NEW p PROVE Holders(l, p)' = Holders(l, p)
  BY DEF Grant, SaveMapAndUpgradeLock, Holders, LockTypeOK
<1>2. ASSUME NEW u \in Tids \ {t} PROVE mapPageLocksByTid'[u][k] = mapPageLocksByTid[u][k]
  BY DEF Grant, SaveMapAndUpgradeLock, LockTypeOK
<1>3. CASE perm = "Write"
  <2>1. ASSUME NEW u \in Tids \ {t} PROVE mapPageLocksByTid[u][k] = Nil
    BY <1>3, NoConflict DEF Grant
  <2>2. mapPageLocksByTid'[t][k] = "Write"
    BY <1>3 DEF Grant, SaveMapAndUpgradeLock, LockTypeOK
  <2>3. Holders(k, "Read") \cup Holders(k, "Write") \subseteq {t}
    BY <2>1, NilAssumption DEF Holders, Perms
  <2>4. Holders(k, "Read")' = {} /\ Holders(k, "Write")' = {t}
    BY <1>2, <2>1, <2>2, NilAssumption DEF Holders, Perms
  <2>5. /\ Sharers[k] \cup Owners[k] \subseteq {t}
        /\ Sharers' = [Sharers EXCEPT ![k] = {}]
        /\ Owners' = [Owners EXCEPT ![k] = {t}]
    BY <1>1, <2>3, <2>4 DEF Sharers, Owners
  <2> QED
    BY <2>5 DEF Table!TakeExclusive, Sharers, Owners
<1>4. CASE perm = "Read" /\ mapPageLocksByTid[t][k] = Nil
  <2>1. Holders(k, "Write") = {}
    BY <1>4, NoConflict, NilAssumption DEF Grant, Holders, Perms
  <2>2. mapPageLocksByTid'[t][k] = "Read"
    BY <1>4 DEF Grant, SaveMapAndUpgradeLock, LockTypeOK
  <2>3. Holders(k, "Read")' = Holders(k, "Read") \cup {t} /\ Holders(k, "Write")' = {}
    BY <1>2, <2>1, <2>2 DEF Holders
  <2>4. /\ Owners[k] = {}
        /\ Sharers' = [Sharers EXCEPT ![k] = @ \cup {t}]
        /\ Owners' = Owners
    BY <1>1, <2>1, <2>3 DEF Sharers, Owners
  <2> QED
    BY <2>4 DEF Table!TakeShared, Sharers, Owners
<1>5. CASE perm = "Read" /\ mapPageLocksByTid[t][k] # Nil
  <2>1. mapPageLocksByTid' = mapPageLocksByTid
    BY <1>5 DEF Grant, SaveMapAndUpgradeLock, LockTypeOK
  <2> QED
    BY <2>1 DEF Table!table, Holders
<1> QED
  BY <1>3, <1>4, <1>5 DEF Perms

\* Every step is a step of the abstract lock table, or changes no holder.
LEMMA StepRefines ==
    LockTypeOK /\ LockCompatible /\ [LockNext]_lockVars => [Table!Next]_(Table!table)
<1> SUFFICES ASSUME LockTypeOK, LockCompatible, [LockNext]_lockVars
             PROVE  [Table!Next]_(Table!table)
  OBVIOUS
<1>1. ASSUME mapPageLocksByTid' = mapPageLocksByTid PROVE UNCHANGED Table!table
  BY <1>1 DEF Table!table, Holders
<1>2. ASSUME NEW t \in Tids, NEW k \in Keys, NEW perm \in Perms, Attempt(t, k, perm)
      PROVE  [Table!Next]_(Table!table)
  BY <1>1, <1>2, GrantRefines, ReleaseRefines DEF Attempt, Victim, Sleep, Table!Next
<1>3. ASSUME NEW t \in Tids, End(t) PROVE [Table!Next]_(Table!table)
  BY <1>3, ReleaseRefines DEF End, Table!Next
<1>4. CASE UNCHANGED lockVars
  BY <1>1, <1>4 DEF lockVars
<1> QED
  BY <1>2, <1>3, <1>4, StepCases

\* The lock manager implements strict two-phase locking on pages.
THEOREM Refinement == LockSpec => ImplementsLockTable
  BY InitRefines, StepRefines, Typing, Compatibility, PTL
     DEF LockSpec, ImplementsLockTable, Table!Spec

-------------------------------------------------------------------------------
(* The buffer pool                                                           *)

\* A pool step does to the locks what a step of the lock manager does, or
\* nothing.
LEMMA PoolStepIsLockStep ==
    ASSUME LockTypeOK, [Next]_vars
    PROVE  [LockNext]_lockVars
<1>1. ASSUME NEW t \in Tids, NEW k \in Keys, NEW perm \in Perms, NEW o, NEW pgs, NEW h,
             Running(t), HandleTransaction(t, k, perm, o, pgs, h)
      PROVE  LockNext
  <2>1. Lock(t, k, perm)
    BY <1>1 DEF HandleTransaction, Lock
  <2> QED
    BY <2>1 DEF LockNext
<1>2. ASSUME NEW t \in Tids, NEW pgs, Fails(t, pgs) PROVE UNCHANGED lockVars
  BY <1>2 DEF Fails
<1>3. ASSUME NEW t \in Tids, NEW k \in Keys, NEW perm \in Perms, GetPage(t, k, perm)
      PROVE  [LockNext]_lockVars
  BY <1>1, <1>2, <1>3
     DEF GetPage, GetCachedPage, ReadAndGetPage, PoolFull, ReadPageFails
<1>4. ASSUME NEW t \in Tids, WakeGetPage(t) PROVE LockNext
  <2>1. Wake(t)
    BY <1>4 DEF WakeGetPage, HandleTransaction, Wake
  <2> QED
    BY <2>1 DEF LockNext
<1>5. ASSUME NEW t \in Tids, CommitTransaction(t) \/ AbortTransaction(t) PROVE LockNext
  BY <1>5 DEF CommitTransaction, AbortTransaction, LockNext
<1>6. CASE FlushAllPages
  BY <1>6 DEF FlushAllPages
<1>7. ASSUME NEW t \in Tids, NEW c \in Content, Modify(t, c) PROVE UNCHANGED lockVars
  BY <1>7 DEF Modify
<1>8. CASE UNCHANGED vars
  BY <1>8 DEF vars
<1> QED
  BY <1>3, <1>4, <1>5, <1>6, <1>7, <1>8 DEF Next, PoolNext

\* What the pool does to the locks is a behaviour of the lock manager, so all
\* the theorems about LockManager hold for the pool.
THEOREM PoolLocks == Spec => LockSpec
<1>1. Init => LockInit
  BY DEF Init
<1>2. LockTypeOK /\ [Next]_vars => [LockNext]_lockVars
  BY PoolStepIsLockStep
<1>3. LockTypeOK /\ [Next]_vars => LockTypeOK'
  BY <1>2, StepTyped
<1>4. LockInit => LockTypeOK
  BY InitTyped
<1> QED
  BY <1>1, <1>2, <1>3, <1>4, PTL DEF Spec, LockSpec

\* In every state of the pool, a page locked for writing is locked by one
\* transaction only.
THEOREM PoolCompatibility == Spec => []LockCompatible
  BY PoolLocks, Compatibility, PTL

-----------------------------------------------------------------------------
(* Types                                                                   *)

\* The types of the pointers alone, and how they go with the locks.
PointersOK ==
    /\ pages \in [Keys -> Objs \cup {Nil}]
    /\ lockPage \in [Tids -> [Keys -> Objs \cup {Nil}]]
    /\ waitPage \in [Tids -> Objs \cup {Nil}]
    /\ handle \in [Tids -> Handle \cup {Nil}]
    /\ \A t \in Tids : /\ waitPage[t] = Nil <=> waiting[t] = Nil
                       /\ \A k \in Keys : lockPage[t][k] = Nil <=> mapPageLocksByTid[t][k] = Nil

Heaps == [Keys -> [Objs -> Page \cup {Nil}]]

\* What TypeOK says, part by part.
LEMMA TypeParts ==
    TypeOK <=> /\ LockTypeOK
               /\ PointersOK
               /\ heap \in Heaps
               /\ \A k \in Keys : \A o \in Live(k) : heap[k][o] # Nil
               /\ disk \in [Keys -> Content \cup {Nil}]
  BY DEF TypeOK, PointersOK, Heaps

\* Collecting garbage loses no object that is still reached.
LEMMA CollectedTyped ==
    ASSUME NEW h \in Heaps, heap' = Collected(h),
           \A k \in Keys : \A o \in Live(k)' : h[k][o] # Nil
    PROVE  /\ heap' \in Heaps
           /\ \A k \in Keys : \A o \in Live(k)' : heap'[k][o] # Nil
<1>1. ASSUME NEW k \in Keys, NEW o \in Objs
      PROVE  heap'[k][o] = IF o \in Live(k)' THEN h[k][o] ELSE Nil
  BY DEF Collected
<1>2. ASSUME NEW k \in Keys PROVE Live(k)' \subseteq Objs
  BY DEF Live
<1>3. heap' \in Heaps
  BY DEF Collected, Heaps
<1> QED
  BY <1>1, <1>2, <1>3

\* The loop of handleTransactionInGetPage keeps the types, given an object of
\* the page and a pool whose objects exist.
LEMMA HandleTyped ==
    ASSUME TypeOK, LockTypeOK',
           NEW t \in Tids, NEW k \in Keys, NEW perm \in Perms, NEW o \in Objs,
           NEW pgs \in [Keys -> Objs \cup {Nil}], NEW h \in Heaps,
           \A l \in Keys : \A x \in Live(l) : h[l][x] # Nil,
           \A l \in Keys : pgs[l] # Nil => h[l][pgs[l]] # Nil,
           h[k][o] # Nil,
           HandleTransaction(t, k, perm, o, pgs, h)
    PROVE  TypeOK'
<1> USE PageNilAssumption, NilAssumption
<1>0. PointersOK /\ LockTypeOK
  BY TypeParts
<1>1. [key |-> k, perm |-> perm, page |-> o] \in Handle
  BY DEF Handle
<1>2. ASSUME Grant(t, k, perm), pages' = pgs, lockPage' = SavePage(t, k, perm, o),
             waitPage' = [waitPage EXCEPT ![t] = Nil],
             handle' = [handle EXCEPT ![t] = [key |-> k, perm |-> perm, page |-> o]]
      PROVE  PointersOK' /\ \A l \in Keys : \A x \in Live(l)' : h[l][x] # Nil
  <2>1. /\ pages' \in [Keys -> Objs \cup {Nil}]
        /\ lockPage' \in [Tids -> [Keys -> Objs \cup {Nil}]]
        /\ waitPage' \in [Tids -> Objs \cup {Nil}]
        /\ handle' \in [Tids -> Handle \cup {Nil}]
    BY <1>0, <1>1, <1>2 DEF PointersOK, SavePage
  <2>2. ASSUME NEW u \in Tids PROVE waitPage'[u] = Nil <=> waiting'[u] = Nil
    BY <1>0, <1>2 DEF PointersOK, Grant, LockTypeOK
  <2>3. ASSUME NEW u \in Tids, NEW l \in Keys
        PROVE  lockPage'[u][l] = Nil <=> mapPageLocksByTid'[u][l] = Nil
    BY <1>0, <1>2 DEF PointersOK, SavePage, Grant, SaveMapAndUpgradeLock, LockTypeOK
  <2>4. ASSUME NEW l \in Keys, NEW x \in Live(l)' PROVE h[l][x] # Nil
    <3>1. x \in Live(l) \/ x = pgs[l] \/ (l = k /\ x = o)
      BY <1>0, <1>2, <2>4 DEF Live, PointersOK, SavePage, Grant, LockTypeOK, Points
    <3>2. x # Nil
      BY <2>4 DEF Live
    <3> QED
      BY <3>1, <3>2
  <2> QED
    BY <2>1, <2>2, <2>3, <2>4 DEF PointersOK
<1>3. ASSUME Victim(t, k, perm), ClearMap(t, pgs),
             waitPage' = [waitPage EXCEPT ![t] = Nil], handle' = [handle EXCEPT ![t] = Nil]
      PROVE  PointersOK' /\ \A l \in Keys : \A x \in Live(l)' : h[l][x] # Nil
  <2>1. /\ pages' \in [Keys -> Objs \cup {Nil}]
        /\ lockPage' \in [Tids -> [Keys -> Objs \cup {Nil}]]
        /\ waitPage' \in [Tids -> Objs \cup {Nil}]
        /\ handle' \in [Tids -> Handle \cup {Nil}]
    BY <1>0, <1>3 DEF PointersOK, ClearMap
  <2>2. ASSUME NEW u \in Tids PROVE waitPage'[u] = Nil <=> waiting'[u] = Nil
    BY <1>0, <1>3 DEF PointersOK, Victim, LockTypeOK
  <2>3. ASSUME NEW u \in Tids, NEW l \in Keys
        PROVE  lockPage'[u][l] = Nil <=> mapPageLocksByTid'[u][l] = Nil
    BY <1>0, <1>3 DEF PointersOK, ClearMap, Victim, ReleaseLocks, LockTypeOK
  <2>4. ASSUME NEW l \in Keys, NEW x \in Live(l)' PROVE h[l][x] # Nil
    <3>1. x \in Live(l) \/ x = pgs[l]
      BY <1>0, <1>3, <2>4 DEF Live, PointersOK, ClearMap, Victim, LockTypeOK, Points
    <3>2. x # Nil
      BY <2>4 DEF Live
    <3> QED
      BY <3>1, <3>2
  <2> QED
    BY <2>1, <2>2, <2>3, <2>4 DEF PointersOK
<1>4. ASSUME Sleep(t, k, perm), pages' = pgs, waitPage' = [waitPage EXCEPT ![t] = o],
             handle' = [handle EXCEPT ![t] = Nil], UNCHANGED lockPage
      PROVE  PointersOK' /\ \A l \in Keys : \A x \in Live(l)' : h[l][x] # Nil
  <2>1. /\ pages' \in [Keys -> Objs \cup {Nil}]
        /\ lockPage' \in [Tids -> [Keys -> Objs \cup {Nil}]]
        /\ waitPage' \in [Tids -> Objs \cup {Nil}]
        /\ handle' \in [Tids -> Handle \cup {Nil}]
    BY <1>0, <1>4 DEF PointersOK
  <2>0. [key |-> k, perm |-> perm] # Nil
    BY DEF Request
  <2>2. ASSUME NEW u \in Tids PROVE waitPage'[u] = Nil <=> waiting'[u] = Nil
    BY <1>0, <1>4, <2>0 DEF PointersOK, Sleep, LockTypeOK
  <2>3. ASSUME NEW u \in Tids, NEW l \in Keys
        PROVE  lockPage'[u][l] = Nil <=> mapPageLocksByTid'[u][l] = Nil
    BY <1>0, <1>4 DEF PointersOK, Sleep
  <2>4. ASSUME NEW l \in Keys, NEW x \in Live(l)' PROVE h[l][x] # Nil
    <3>1. x \in Live(l) \/ x = pgs[l] \/ (l = k /\ x = o)
      BY <1>0, <1>4, <2>4 DEF Live, PointersOK, Sleep, LockTypeOK, Points
    <3>2. x # Nil
      BY <2>4 DEF Live
    <3> QED
      BY <3>1, <3>2
  <2> QED
    BY <2>1, <2>2, <2>3, <2>4 DEF PointersOK
<1>5. PointersOK' /\ \A l \in Keys : \A x \in Live(l)' : h[l][x] # Nil
  BY <1>2, <1>3, <1>4 DEF HandleTransaction
<1>6. heap' \in Heaps /\ \A l \in Keys : \A x \in Live(l)' : heap'[l][x] # Nil
  BY <1>5, CollectedTyped DEF HandleTransaction
<1>7. disk' \in [Keys -> Content \cup {Nil}]
  BY TypeParts DEF HandleTransaction
<1> QED
  BY <1>5, <1>6, <1>7 DEF TypeOK, PointersOK, Heaps

\* A full pool gives up a page, and nothing else changes in it.
LEMMA MadeRoomTyped ==
    ASSUME TypeOK, NEW pgs \in MadeRoom
    PROVE  /\ pgs \in [Keys -> Objs \cup {Nil}]
           /\ \A k \in Keys : pgs[k] \in {pages[k], Nil}
  BY DEF TypeOK, MadeRoom, Cached

\* A page in the pool is an object that exists.
LEMMA CachedExists ==
    ASSUME TypeOK, NEW k \in Keys, pages[k] # Nil
    PROVE  pages[k] \in Objs /\ heap[k][pages[k]] # Nil
<1>1. pages[k] \in Objs
  BY DEF TypeOK
<1>2. pages[k] \in Live(k)
  BY <1>1 DEF Live
<1> QED
  BY <1>1, <1>2 DEF TypeOK

\* GetPage keeps the types when the page is in the pool.
LEMMA CachedTyped ==
    ASSUME TypeOK, LockTypeOK', NEW t \in Tids, NEW k \in Keys, NEW perm \in Perms,
           GetCachedPage(t, k, perm)
    PROVE  TypeOK'
<1>1. \A l \in Keys : pages[l] # Nil => pages[l] \in Objs /\ heap[l][pages[l]] # Nil
  BY CachedExists
<1>2. pages \in [Keys -> Objs \cup {Nil}] /\ heap \in Heaps
      /\ \A l \in Keys : \A x \in Live(l) : heap[l][x] # Nil
  BY DEF TypeOK, Heaps
<1> QED
  BY <1>1, <1>2, HandleTyped DEF GetCachedPage

\* GetPage keeps the types when the page is read: the new object is none that
\* anyone points to.
LEMMA ReadTyped ==
    ASSUME TypeOK, LockTypeOK', NEW t \in Tids, NEW k \in Keys, NEW perm \in Perms,
           ReadAndGetPage(t, k, perm)
    PROVE  TypeOK'
<1> DEFINE o == Fresh(k)
           new == ReadPage(k)
           h == [heap EXCEPT ![k][o] = new]
<1>1. o \in Objs /\ o \notin Live(k)
  <2>1. \E x \in Objs : x \notin Live(k)
    BY DEF ReadAndGetPage, Live
  <2> QED
    BY <2>1 DEF Fresh
<1>2. new \in Page
  <2>1. disk[k] \in Content
    BY DEF TypeOK, ReadAndGetPage
  <2> QED
    BY <2>1, ContentAssumption DEF ReadPage, Page
<1>3. h \in Heaps
  BY <1>1, <1>2 DEF TypeOK, Heaps
<1>4. PICK room \in MadeRoom : HandleTransaction(t, k, perm, o, [room EXCEPT ![k] = o], h)
  BY DEF ReadAndGetPage
<1> DEFINE pgs == [room EXCEPT ![k] = o]
<1>5. room \in [Keys -> Objs \cup {Nil}] /\ \A l \in Keys : room[l] \in {pages[l], Nil}
  BY MadeRoomTyped
<1>6. pgs \in [Keys -> Objs \cup {Nil}]
  BY <1>1, <1>5
<1>7. h[k][o] = new /\ \A l \in Keys, x \in Objs : (l # k \/ x # o) => h[l][x] = heap[l][x]
  BY <1>1 DEF TypeOK
<1>8. new # Nil
  BY <1>2, PageNilAssumption
<1>9. ASSUME NEW l \in Keys, NEW x \in Live(l) PROVE h[l][x] # Nil
  <2>1. x \in Objs
    BY <1>9 DEF Live
  <2> HIDE DEF h, new, o
  <2> QED
    BY <1>1, <1>7, <1>8, <1>9, <2>1 DEF TypeOK
<1>10. ASSUME NEW l \in Keys, pgs[l] # Nil PROVE h[l][pgs[l]] # Nil
  <2>1. CASE l = k
    <3>1. pgs[l] = o
      BY <1>5, <2>1
    <3> HIDE DEF h, new, o, pgs
    <3> QED
      BY <2>1, <3>1, <1>7, <1>8
  <2>2. CASE l # k
    <3>1. pgs[l] = pages[l]
      BY <1>5, <1>10, <2>2
    <3> HIDE DEF h, new, o, pgs
    <3> QED
      BY <2>2, <3>1, <1>7, <1>10, CachedExists
  <2> QED
    BY <2>1, <2>2
<1>11. h[k][o] # Nil
  BY <1>7, <1>8
<1>12. HandleTransaction(t, k, perm, o, pgs, h)
  BY <1>4
<1> HIDE DEF h, new, o, pgs
<1> QED
  BY <1>1, <1>3, <1>6, <1>9, <1>10, <1>11, <1>12, HandleTyped

\* A GetPage that fails before it looks at the locks keeps the types.
LEMMA FailsTyped ==
    ASSUME TypeOK, NEW t \in Tids, NEW pgs \in MadeRoom \cup {pages}, Fails(t, pgs)
    PROVE  TypeOK'
<1>1. pgs \in [Keys -> Objs \cup {Nil}] /\ \A k \in Keys : pgs[k] \in {pages[k], Nil}
  BY MadeRoomTyped DEF TypeOK
<1>2. PointersOK' /\ LockTypeOK' /\ disk' \in [Keys -> Content \cup {Nil}]
  BY <1>1 DEF Fails, TypeOK, PointersOK, lockVars, LockTypeOK
<1>3. ASSUME NEW k \in Keys, NEW o \in Live(k)' PROVE heap[k][o] # Nil
  <2>1. o \in Live(k)
    BY <1>1, <1>3, PageNilAssumption DEF Fails, Live, lockVars, TypeOK, Points
  <2> QED
    BY <2>1 DEF TypeOK
<1>4. heap \in Heaps /\ heap' = Collected(heap)
  BY DEF TypeOK, Heaps, Fails
<1>5. heap' \in Heaps /\ \A k \in Keys : \A o \in Live(k)' : heap'[k][o] # Nil
  BY <1>3, <1>4, CollectedTyped
<1> QED
  BY <1>2, <1>5 DEF TypeOK, PointersOK, Heaps

\* GetPage keeps the types, whichever way it goes.
LEMMA GetPageTyped ==
    ASSUME TypeOK, LockTypeOK', NEW t \in Tids, NEW k \in Keys, NEW perm \in Perms,
           GetPage(t, k, perm)
    PROVE  TypeOK'
<1>1. CASE PoolFull(t, k)
  BY <1>1, FailsTyped DEF PoolFull
<1>2. CASE ReadPageFails(t, k)
  BY <1>2, FailsTyped DEF ReadPageFails
<1> QED
  BY <1>1, <1>2, CachedTyped, ReadTyped DEF GetPage

\* A sleeping GetPage goes on with an object that still exists.
LEMMA WakeTyped ==
    ASSUME TypeOK, LockTypeOK', NEW t \in Tids, WakeGetPage(t)
    PROVE  TypeOK'
<1>1. waiting[t].key \in Keys /\ waiting[t].perm \in Perms
  BY DEF WakeGetPage, TypeOK, LockTypeOK, Request
<1>2. waitPage[t] \in Objs
  BY DEF WakeGetPage, TypeOK
<1>3. waitPage[t] \in Live(waiting[t].key)
  BY <1>2 DEF Live, Points, WakeGetPage
<1>4. heap[waiting[t].key][waitPage[t]] # Nil
  BY <1>1, <1>3 DEF TypeOK
<1>5. \A l \in Keys : pages[l] # Nil => heap[l][pages[l]] # Nil
  BY CachedExists
<1>6. /\ pages \in [Keys -> Objs \cup {Nil}]
      /\ heap \in Heaps
      /\ \A l \in Keys : \A x \in Live(l) : heap[l][x] # Nil
  BY DEF TypeOK, Heaps
<1>7. HandleTransaction(t, waiting[t].key, waiting[t].perm, waitPage[t], pages, heap)
  BY DEF WakeGetPage
<1> QED
  BY <1>1, <1>2, <1>4, <1>5, <1>6, <1>7, HandleTyped

\* Cleaning some of the pages that are reached changes which are dirty only.
LEMMA CleanedTyped ==
    ASSUME TypeOK, NEW S \in SUBSET Keys, NEW refs,
           \A k \in S : refs[k] \in Live(k)
    PROVE  /\ Cleaned(S, refs) \in Heaps
           /\ \A k \in Keys : \A o \in Objs : heap[k][o] # Nil => Cleaned(S, refs)[k][o] # Nil
<1> DEFINE row(k) == [heap[k] EXCEPT ![refs[k]].dirty = FALSE]
<1>1. ASSUME NEW k \in S
      PROVE  /\ row(k) \in [Objs -> Page \cup {Nil}]
             /\ \A o \in Objs : heap[k][o] # Nil => row(k)[o] # Nil
  <2>1. refs[k] \in Objs /\ heap[k][refs[k]] # Nil /\ heap[k] \in [Objs -> Page \cup {Nil}]
    BY DEF TypeOK, Live
  <2>2. heap[k][refs[k]] \in Page
    BY <2>1
  <2>3. [heap[k][refs[k]] EXCEPT !.dirty = FALSE] \in Page
    BY <2>2 DEF Page
  <2> QED
    BY <2>1, <2>3, PageNilAssumption
<1>2. \A k \in Keys : heap[k] \in [Objs -> Page \cup {Nil}]
  BY DEF TypeOK
<1>3. Cleaned(S, refs) = [k \in Keys |-> IF k \in S THEN row(k) ELSE heap[k]]
  BY DEF Cleaned
<1> HIDE DEF row
<1> QED
  BY <1>1, <1>2, <1>3 DEF Heaps

\* CommitTransaction keeps the types: it writes what the locks point to.
LEMMA CommitTyped ==
    ASSUME TypeOK, LockTypeOK', NEW t \in Tids, CommitTransaction(t)
    PROVE  TypeOK'
<1> DEFINE h == Cleaned(Flushed(t), lockPage[t])
<1>1. ASSUME NEW k \in Flushed(t) PROVE k \in Keys /\ lockPage[t][k] \in Live(k)
  BY <1>1 DEF Flushed, Live, TypeOK
<1>2. h \in Heaps /\ \A k \in Keys : \A o \in Objs : heap[k][o] # Nil => h[k][o] # Nil
  BY <1>1, CleanedTyped DEF Flushed
<1>3. PointersOK'
  BY DEF CommitTransaction, End, ReleaseLocks, TypeOK, PointersOK, LockTypeOK
<1>4. ASSUME NEW k \in Keys, NEW o \in Live(k)' PROVE h[k][o] # Nil
  <2>1. o \in Live(k)
    BY <1>4, PageNilAssumption DEF Live, CommitTransaction, End, TypeOK, Points
  <2> HIDE DEF h
  <2> QED
    BY <1>2, <2>1 DEF TypeOK, Live
<1>5. heap' = Collected(h)
  BY DEF CommitTransaction
<1> HIDE DEF h
<1>6. heap' \in Heaps /\ \A k \in Keys : \A o \in Live(k)' : heap'[k][o] # Nil
  BY <1>2, <1>4, <1>5, CollectedTyped
<1>7. ASSUME NEW k \in Flushed(t) PROVE heap[k][lockPage[t][k]].data \in Content
  <2>1. heap[k][lockPage[t][k]] # Nil /\ heap[k][lockPage[t][k]] \in Page \cup {Nil}
    BY <1>1, <1>7 DEF TypeOK, Live
  <2> QED
    BY <2>1 DEF Page
<1>8. disk' \in [Keys -> Content \cup {Nil}]
  BY <1>7 DEF CommitTransaction, TypeOK
<1> QED
  BY <1>3, <1>6, <1>8 DEF TypeOK, PointersOK, Heaps

\* AbortTransaction keeps the types.
LEMMA AbortTyped ==
    ASSUME TypeOK, LockTypeOK', NEW t \in Tids, AbortTransaction(t)
    PROVE  TypeOK'
<1>1. PointersOK' /\ disk' \in [Keys -> Content \cup {Nil}]
  BY DEF AbortTransaction, ClearMap, End, ReleaseLocks, TypeOK, PointersOK, LockTypeOK
<1>2. ASSUME NEW k \in Keys, NEW o \in Live(k)' PROVE heap[k][o] # Nil
  <2>1. o \in Live(k)
    BY <1>2, PageNilAssumption DEF Live, AbortTransaction, ClearMap, End, TypeOK, Points
  <2> QED
    BY <2>1 DEF TypeOK
<1>3. heap \in Heaps /\ heap' = Collected(heap)
  BY DEF TypeOK, Heaps, AbortTransaction
<1>4. heap' \in Heaps /\ \A k \in Keys : \A o \in Live(k)' : heap'[k][o] # Nil
  BY <1>2, <1>3, CollectedTyped
<1> QED
  BY <1>1, <1>4 DEF TypeOK, PointersOK, Heaps

\* FlushAllPages keeps the types.
LEMMA FlushAllTyped ==
    ASSUME TypeOK, LockTypeOK', FlushAllPages
    PROVE  TypeOK'
<1>1. ASSUME NEW k \in Cached PROVE k \in Keys /\ pages[k] \in Live(k)
  BY <1>1 DEF Cached, Live, TypeOK
<1>2. /\ heap' \in Heaps
      /\ \A k \in Keys : \A o \in Objs : heap[k][o] # Nil => heap'[k][o] # Nil
  BY <1>1, CleanedTyped DEF Cached, FlushAllPages
<1>3. PointersOK' /\ \A k \in Keys : Live(k)' = Live(k)
  BY DEF FlushAllPages, pointers, lockVars, TypeOK, PointersOK, Live
<1>4. \A k \in Keys : \A o \in Live(k)' : heap'[k][o] # Nil
  BY <1>2, <1>3 DEF TypeOK, Live
<1>5. ASSUME NEW k \in Cached PROVE heap[k][pages[k]].data \in Content
  <2>1. heap[k][pages[k]] # Nil /\ heap[k][pages[k]] \in Page \cup {Nil}
    BY <1>1, <1>5 DEF TypeOK, Live
  <2> QED
    BY <2>1 DEF Page
<1>6. disk' \in [Keys -> Content \cup {Nil}]
  BY <1>5 DEF FlushAllPages, TypeOK
<1> QED
  BY <1>2, <1>3, <1>4, <1>6 DEF TypeOK, PointersOK, Heaps

\* A caller that changes its page keeps the types.
LEMMA ModifyTyped ==
    ASSUME TypeOK, LockTypeOK', NEW t \in Tids, NEW c \in Content, Modify(t, c)
    PROVE  TypeOK'
<1> DEFINE new == [data |-> c, dirty |-> TRUE]
           k == handle[t].key
           o == handle[t].page
<1>1. k \in Keys /\ o \in Objs
  BY DEF Modify, TypeOK, Handle
<1>2. new \in Page /\ new # Nil
  <2>1. new \in Page
    BY DEF Page
  <2> QED
    BY <2>1, PageNilAssumption
<1>3. heap' = [heap EXCEPT ![k][o] = new]
  BY DEF Modify
<1> HIDE DEF new, k, o
<1>4. heap' \in Heaps
  BY <1>1, <1>2, <1>3 DEF TypeOK, Heaps
<1>5. PointersOK' /\ (\A l \in Keys : Live(l)' = Live(l))
      /\ disk' \in [Keys -> Content \cup {Nil}]
  BY DEF Modify, pointers, lockVars, TypeOK, PointersOK, Live
<1>6. ASSUME NEW l \in Keys, NEW x \in Live(l)' PROVE heap'[l][x] # Nil
  <2>1. x \in Live(l) /\ x \in Objs
    BY <1>5, <1>6 DEF Live
  <2>2. heap[l][x] # Nil
    BY <2>1 DEF TypeOK
  <2> QED
    BY <1>1, <1>2, <1>3, <2>1, <2>2 DEF TypeOK
<1> QED
  BY <1>4, <1>5, <1>6 DEF TypeOK, PointersOK, Heaps

\* The initial state has the types.
LEMMA PoolInitTyped == Init => TypeOK
<1> SUFFICES ASSUME Init PROVE TypeOK
  OBVIOUS
<1>1. LockTypeOK
  BY InitTyped DEF Init
<1>2. PointersOK
  BY DEF Init, LockInit, PointersOK
<1>3. \A k \in Keys : Live(k) = {}
  BY PageNilAssumption DEF Init, Live, Points
<1>4. heap \in Heaps /\ disk \in [Keys -> Content \cup {Nil}]
  BY DiskInitAssumption DEF Init, Heaps
<1> QED
  BY <1>1, <1>2, <1>3, <1>4, TypeParts

\* Every step keeps the types.
LEMMA PoolStepTyped ==
    ASSUME TypeOK, [Next]_vars
    PROVE  TypeOK'
<1>1. LockTypeOK'
  <2>1. LockTypeOK
    BY DEF TypeOK
  <2>2. [LockNext]_lockVars
    BY <2>1, PoolStepIsLockStep
  <2> QED
    BY <2>1, <2>2, StepTyped
<1>2. CASE UNCHANGED vars
  <2>1. PointersOK' /\ (\A k \in Keys : Live(k)' = Live(k))
    BY <1>2 DEF vars, pointers, lockVars, TypeOK, PointersOK, Live
  <2> QED
    BY <1>1, <1>2, <2>1 DEF vars, TypeOK, PointersOK
<1> QED
  BY <1>1, <1>2, GetPageTyped, WakeTyped, CommitTyped, AbortTyped, FlushAllTyped, ModifyTyped
     DEF Next, PoolNext

\* Every pointer of the pool, of the lock table, of a sleeping GetPage and of
\* a caller reaches a page object that exists, and a transaction's PageLocks
\* have pages exactly as long as it has the locks: for every capacity of the
\* pool and every number of transactions, files and pages.
THEOREM PoolTyping == Spec => []TypeOK
<1>1. Init => TypeOK
  BY PoolInitTyped
<1>2. TypeOK /\ [Next]_vars => TypeOK'
  BY PoolStepTyped
<1> QED
  BY <1>1, <1>2, PTL DEF Spec

-----------------------------------------------------------------------------
(* The pool                                                                *)

\* What the first half of GetPage makes of the pool: nothing, an eviction, or
\* an eviction and a load of a page that was not there.
Prepared(pgs) ==
    \/ pgs = pages
    \/ pgs \in MadeRoom
    \/ \E room \in MadeRoom, k \in Keys, o \in Objs :
          pages[k] = Nil /\ pgs = [room EXCEPT ![k] = o]

\* What the rest of the call, or a commit or abort, makes of it: nothing, or a
\* rollback of t throws its pages out.
Finished(pgs) ==
    \/ pages' = pgs
    \/ \E t \in Tids :
          /\ pages' = [k \in Keys |-> IF mapPageLocksByTid[t][k] = "Write" THEN Nil ELSE pgs[k]]
          /\ \A k \in Keys : mapPageLocksByTid'[t][k] = Nil

\* handleTransactionInGetPage changes the pool by a rollback at most.
LEMMA HandleFinished ==
    ASSUME TypeOK, NEW t \in Tids, NEW k, NEW perm, NEW o, NEW pgs, NEW h,
           HandleTransaction(t, k, perm, o, pgs, h)
    PROVE  Finished(pgs)
<1>1. CASE Victim(t, k, perm) /\ ClearMap(t, pgs)
  <2>1. \A l \in Keys : mapPageLocksByTid'[t][l] = Nil
    BY <1>1 DEF Victim, ReleaseLocks, TypeOK, LockTypeOK
  <2> QED
    BY <1>1, <2>1 DEF ClearMap, Finished
<1> QED
  BY <1>1 DEF HandleTransaction, Finished

\* Every step changes the pool in these two ways only.
LEMMA PoolChanges ==
    ASSUME TypeOK, [Next]_vars
    PROVE  \E pgs : Prepared(pgs) /\ Finished(pgs)
<1>1. ASSUME NEW t \in Tids, NEW k \in Keys, NEW perm \in Perms, GetPage(t, k, perm)
      PROVE  \E pgs : Prepared(pgs) /\ Finished(pgs)
  <2>1. CASE GetCachedPage(t, k, perm)
    BY <2>1, HandleFinished DEF GetCachedPage, Prepared
  <2>2. CASE ReadAndGetPage(t, k, perm)
    <3>1. PICK room \in MadeRoom :
             HandleTransaction(t, k, perm, Fresh(k), [room EXCEPT ![k] = Fresh(k)],
                 [heap EXCEPT ![k][Fresh(k)] = ReadPage(k)])
      BY <2>2 DEF ReadAndGetPage
    <3>2. Finished([room EXCEPT ![k] = Fresh(k)])
      BY <3>1, HandleFinished
    <3>3. Fresh(k) \in Objs
      <4>1. \E x \in Objs : x \notin Live(k)
        BY <2>2 DEF ReadAndGetPage, Live
      <4> QED
        BY <4>1 DEF Fresh
    <3>4. Prepared([room EXCEPT ![k] = Fresh(k)])
      BY <2>2, <3>3 DEF ReadAndGetPage, Prepared
    <3> QED
      BY <3>2, <3>4
  <2>3. CASE PoolFull(t, k)
    BY <2>3 DEF PoolFull, Fails, Prepared, Finished
  <2>4. CASE ReadPageFails(t, k)
    BY <2>4 DEF ReadPageFails, Fails, Prepared, Finished
  <2> QED
    BY <1>1, <2>1, <2>2, <2>3, <2>4 DEF GetPage
<1>2. ASSUME NEW t \in Tids, WakeGetPage(t) PROVE Finished(pages)
  BY <1>2, HandleFinished DEF WakeGetPage
<1>3. ASSUME NEW t \in Tids, AbortTransaction(t) PROVE Finished(pages)
  <2>1. \A l \in Keys : mapPageLocksByTid'[t][l] = Nil
    BY <1>3 DEF AbortTransaction, End, ReleaseLocks, TypeOK, LockTypeOK
  <2> QED
    BY <1>3, <2>1 DEF AbortTransaction, ClearMap, Finished
<1>4. ASSUME \/ \E t \in Tids : CommitTransaction(t)
             \/ FlushAllPages
             \/ \E t \in Tids, c \in Content : Modify(t, c)
             \/ UNCHANGED vars
      PROVE  Finished(pages)
  BY <1>4 DEF CommitTransaction, FlushAllPages, Modify, vars, pointers, Finished
<1>5. Prepared(pages)
  BY DEF Prepared
<1> QED
  BY <1>1, <1>2, <1>3, <1>4, <1>5 DEF Next, PoolNext

\* Making room and loading leave the dirty pages where they are.
LEMMA PreparedKeepsDirty ==
    ASSUME TypeOK, NEW pgs, Prepared(pgs), NEW k \in Cached, heap[k][pages[k]].dirty
    PROVE  pgs[k] = pages[k]
<1>1. ASSUME NEW room \in MadeRoom PROVE room[k] = pages[k] /\ room \in [Keys -> Objs \cup {Nil}]
  BY MadeRoomTyped DEF MadeRoom, Cached, TypeOK
<1> QED
  BY <1>1 DEF Prepared, Cached

\* NO STEAL, for every capacity of the pool: an uncommitted change never
\* leaves the pool except by the rollback of a transaction that has the page
\* locked for writing.
THEOREM NoSteal == Spec => DirtyLeavesByRollback
<1>1. ASSUME TypeOK, [Next]_vars,
             NEW k \in Cached, heap[k][pages[k]].dirty, pages'[k] # pages[k]
      PROVE  \E t \in Tids : mapPageLocksByTid[t][k] = "Write" /\ mapPageLocksByTid'[t][k] = Nil
  <2>1. PICK pgs : Prepared(pgs) /\ Finished(pgs)
    BY <1>1, PoolChanges
  <2>2. pgs[k] = pages[k]
    BY <1>1, <2>1, PreparedKeepsDirty
  <2> QED
    BY <1>1, <2>1, <2>2 DEF Finished, Cached
<1>2. TypeOK /\ [Next]_vars =>
         [\A k \in Cached :
             (heap[k][pages[k]].dirty /\ pages'[k] # pages[k]) =>
                 \E t \in Tids : mapPageLocksByTid[t][k] = "Write"
                                 /\ mapPageLocksByTid'[t][k] = Nil]_vars
  BY <1>1
<1> QED
  BY <1>2, PoolTyping, PTL DEF Spec, DirtyLeavesByRollback

\* The inductive form of PoolBounded: the pool is finite too.
Bounded == IsFiniteSet(Cached) /\ PoolBounded

\* The keys a pool has pages for.
KeysOf(pgs) == {k \in Keys : pgs[k] # Nil}

\* Making room makes it: there is space for one page more.
LEMMA MadeRoomBounded ==
    ASSUME TypeOK, Bounded, NEW room \in MadeRoom
    PROVE  /\ IsFiniteSet(KeysOf(room))
           /\ Cardinality(KeysOf(room)) \in Nat
           /\ Cardinality(KeysOf(room)) < numPages
<1>0. Cardinality(Cached) \in Nat /\ numPages \in Nat /\ Cardinality(Cached) <= numPages
  BY FS_CardinalityType, CapacityAssumption DEF Bounded, PoolBounded
<1>1. CASE Cardinality(Cached) < numPages
  <2>1. KeysOf(room) = Cached
    BY <1>1 DEF MadeRoom, KeysOf, Cached
  <2> QED
    BY <1>0, <1>1, <2>1 DEF Bounded
<1>2. CASE ~ (Cardinality(Cached) < numPages)
  <2>1. PICK v \in Cached : room = [pages EXCEPT ![v] = Nil]
    BY <1>2 DEF MadeRoom
  <2>2. KeysOf(room) = Cached \ {v}
    BY <2>1 DEF KeysOf, Cached, TypeOK
  <2>3. /\ IsFiniteSet(Cached \ {v})
        /\ Cardinality(Cached \ {v}) = Cardinality(Cached) - 1
    BY FS_RemoveElement DEF Bounded
  <2>4. Cardinality(Cached \ {v}) \in Nat
    BY <2>3, FS_CardinalityType
  <2> QED
    BY <1>0, <2>2, <2>3, <2>4
<1> QED
  BY <1>1, <1>2

\* Making room and loading keep the pool within its capacity.
LEMMA PreparedBounded ==
    ASSUME TypeOK, Bounded, NEW pgs, Prepared(pgs)
    PROVE  IsFiniteSet(KeysOf(pgs)) /\ Cardinality(KeysOf(pgs)) <= numPages
<1>1. CASE pgs = pages
  BY <1>1 DEF Bounded, PoolBounded, KeysOf, Cached
<1>2. CASE pgs \in MadeRoom
  BY <1>2, MadeRoomBounded, CapacityAssumption
<1>3. ASSUME NEW room \in MadeRoom, NEW k \in Keys, NEW o \in Objs,
             pgs = [room EXCEPT ![k] = o]
      PROVE  IsFiniteSet(KeysOf(pgs)) /\ Cardinality(KeysOf(pgs)) <= numPages
  <2>1. KeysOf(pgs) = KeysOf(room) \cup {k}
    BY <1>3, MadeRoomTyped, PageNilAssumption DEF KeysOf
  <2>2. /\ IsFiniteSet(KeysOf(room))
        /\ Cardinality(KeysOf(room)) \in Nat
        /\ Cardinality(KeysOf(room)) < numPages
    BY MadeRoomBounded
  <2>3. /\ IsFiniteSet(KeysOf(room) \cup {k})
        /\ Cardinality(KeysOf(room) \cup {k}) \in
              {Cardinality(KeysOf(room)), Cardinality(KeysOf(room)) + 1}
    BY <2>2, FS_AddElement
  <2> QED
    BY <2>1, <2>2, <2>3, CapacityAssumption
<1> QED
  BY <1>1, <1>2, <1>3 DEF Prepared

\* The pool never has more pages than its capacity, for every capacity and
\* every set of files, finite or not.
THEOREM Capacity == Spec => []PoolBounded
<1>1. Init => Bounded
  <2> SUFFICES ASSUME Init PROVE Bounded
    OBVIOUS
  <2>1. Cached = {}
    BY DEF Init, Cached
  <2> QED
    BY <2>1, FS_EmptySet, CapacityAssumption DEF Bounded, PoolBounded
<1>2. TypeOK /\ Bounded /\ [Next]_vars => Bounded'
  <2> SUFFICES ASSUME TypeOK, Bounded, [Next]_vars PROVE Bounded'
    OBVIOUS
  <2>1. PICK pgs : Prepared(pgs) /\ Finished(pgs)
    BY PoolChanges
  <2>2. IsFiniteSet(KeysOf(pgs)) /\ Cardinality(KeysOf(pgs)) <= numPages
    BY <2>1, PreparedBounded
  <2>3. Cached' \subseteq KeysOf(pgs)
    BY <2>1 DEF Finished, Cached, KeysOf
  <2>4. /\ IsFiniteSet(Cached')
        /\ Cardinality(Cached') <= Cardinality(KeysOf(pgs))
    BY <2>2, <2>3, FS_Subset
  <2>5. Cardinality(Cached') \in Nat /\ Cardinality(KeysOf(pgs)) \in Nat
    BY <2>2, <2>4, FS_CardinalityType
  <2> QED
    BY <2>2, <2>4, <2>5, CapacityAssumption DEF Bounded, PoolBounded
<1>3. Bounded => PoolBounded
  BY DEF Bounded
<1> QED
  BY <1>1, <1>2, <1>3, PoolTyping, PTL DEF Spec

-----------------------------------------------------------------------------
(* What the clients of the pool need to know of its steps                  *)

\* The objects that the pool, the locks and the callers point to are reached,
\* so they survive the collection of garbage.
Reached ==
    /\ \A k \in Keys : pages[k] # Nil => pages[k] \in Live(k)
    /\ \A t \in Tids, k \in Keys : lockPage[t][k] # Nil => lockPage[t][k] \in Live(k)
    /\ \A t \in Tids : handle[t] # Nil => handle[t].key \in Keys /\ handle[t].page \in Live(handle[t].key)

LEMMA PointersReach == TypeOK => Reached
<1> SUFFICES ASSUME TypeOK PROVE Reached
  OBVIOUS
<1>1. \A k \in Keys : pages[k] # Nil => pages[k] \in Live(k)
  BY DEF TypeOK, Live
<1>2. \A t \in Tids, k \in Keys : lockPage[t][k] # Nil => lockPage[t][k] \in Live(k)
  BY DEF TypeOK, Live
<1>3. ASSUME NEW t \in Tids, handle[t] # Nil
      PROVE  handle[t].key \in Keys /\ handle[t].page \in Live(handle[t].key)
  <2>1. handle[t].key \in Keys /\ handle[t].page \in Objs
    BY <1>3 DEF TypeOK, Handle
  <2> QED
    BY <1>3, <2>1 DEF Live, Points
<1> QED
  BY <1>1, <1>2, <1>3 DEF Reached

LEMMA PointersReachNext == TypeOK' => Reached'
  BY PointersReach, PTL

\* What a heap has at a reached object is there after the collection.
LEMMA CollectedKeeps ==
    ASSUME NEW h, heap' = Collected(h), NEW k \in Keys, NEW o \in Live(k)'
    PROVE  heap'[k][o] = h[k][o]
<1>1. o \in Objs
  BY DEF Live
<1> QED
  BY <1>1 DEF Collected

\* Who has a page has it locked, and who may write it has it locked for writing.
HandlesLocked ==
    \A t \in Tids : handle[t] # Nil =>
        /\ mapPageLocksByTid[t][handle[t].key] # Nil
        /\ handle[t].perm = "Write" => mapPageLocksByTid[t][handle[t].key] = "Write"

\* The three ways a step of GetPage can go for t: it has the page o, has been
\* rolled back, or sleeps with o found.
Granted(t, k, perm, o) ==
    /\ waiting'[t] = Nil
    /\ waitPage'[t] = Nil
    /\ handle'[t] = [key |-> k, perm |-> perm, page |-> o]
    /\ \A l \in Keys : mapPageLocksByTid'[t][l] =
          IF l = k /\ (mapPageLocksByTid[t][k] = Nil \/ perm = "Write")
          THEN perm ELSE mapPageLocksByTid[t][l]
    /\ \A l \in Keys : lockPage'[t][l] =
          IF l = k /\ (mapPageLocksByTid[t][k] = Nil \/ perm = "Write")
          THEN o ELSE lockPage[t][l]

Undone(t) ==
    /\ waiting'[t] = Nil
    /\ waitPage'[t] = Nil
    /\ handle'[t] = Nil
    /\ \A l \in Keys : mapPageLocksByTid'[t][l] = Nil /\ lockPage'[t][l] = Nil

Slept(t, k, perm, o) ==
    /\ waiting'[t] = [key |-> k, perm |-> perm]
    /\ waitPage'[t] = o
    /\ handle'[t] = Nil
    /\ mapPageLocksByTid'[t] = mapPageLocksByTid[t]
    /\ lockPage'[t] = lockPage[t]

\* What handleTransactionInGetPage does, to t and to the others.
LEMMA HandleEffect ==
    ASSUME TypeOK, NEW t \in Tids, NEW k \in Keys, NEW perm \in Perms, NEW o, NEW pgs, NEW h,
           HandleTransaction(t, k, perm, o, pgs, h)
    PROVE  /\ heap' = Collected(h) /\ disk' = disk /\ ended' = ended
           /\ \A u \in Tids \ {t} :
                 /\ mapPageLocksByTid'[u] = mapPageLocksByTid[u]
                 /\ lockPage'[u] = lockPage[u]
                 /\ waiting'[u] = waiting[u]
                 /\ waitPage'[u] = waitPage[u]
                 /\ handle'[u] = handle[u]
           /\ \/ Granted(t, k, perm, o) /\ pages' = pgs
              \/ Undone(t) /\ ClearMap(t, pgs)
              \/ Slept(t, k, perm, o) /\ pages' = pgs
<1> USE DEF TypeOK, LockTypeOK
<1>1. heap' = Collected(h) /\ disk' = disk /\ ended' = ended
  BY DEF HandleTransaction
<1>2. CASE /\ Grant(t, k, perm)
           /\ pages' = pgs
           /\ lockPage' = SavePage(t, k, perm, o)
           /\ waitPage' = [waitPage EXCEPT ![t] = Nil]
           /\ handle' = [handle EXCEPT ![t] = [key |-> k, perm |-> perm, page |-> o]]
  <2>1. ASSUME NEW u \in Tids \ {t}
        PROVE  /\ mapPageLocksByTid'[u] = mapPageLocksByTid[u]
               /\ lockPage'[u] = lockPage[u]
               /\ waiting'[u] = waiting[u]
               /\ waitPage'[u] = waitPage[u]
               /\ handle'[u] = handle[u]
    BY <1>2, <2>1 DEF Grant, SaveMapAndUpgradeLock, SavePage
  <2>2. Granted(t, k, perm, o)
    <3>1. /\ waiting'[t] = Nil
          /\ waitPage'[t] = Nil
          /\ handle'[t] = [key |-> k, perm |-> perm, page |-> o]
      BY <1>2 DEF Grant
    <3>2. \A l \in Keys : mapPageLocksByTid'[t][l] =
              IF l = k /\ (mapPageLocksByTid[t][k] = Nil \/ perm = "Write")
              THEN perm ELSE mapPageLocksByTid[t][l]
      BY <1>2 DEF Grant, SaveMapAndUpgradeLock
    <3>3. \A l \in Keys : lockPage'[t][l] =
              IF l = k /\ (mapPageLocksByTid[t][k] = Nil \/ perm = "Write")
              THEN o ELSE lockPage[t][l]
      BY <1>2 DEF SavePage
    <3> QED
      BY <3>1, <3>2, <3>3 DEF Granted
  <2> QED
    BY <1>1, <1>2, <2>1, <2>2
<1>3. CASE /\ Victim(t, k, perm)
           /\ ClearMap(t, pgs)
           /\ waitPage' = [waitPage EXCEPT ![t] = Nil]
           /\ handle' = [handle EXCEPT ![t] = Nil]
  <2>1. Undone(t)
    BY <1>3 DEF Victim, ReleaseLocks, ClearMap, Undone
  <2>2. ASSUME NEW u \in Tids \ {t}
        PROVE  /\ mapPageLocksByTid'[u] = mapPageLocksByTid[u]
               /\ lockPage'[u] = lockPage[u]
               /\ waiting'[u] = waiting[u]
               /\ waitPage'[u] = waitPage[u]
               /\ handle'[u] = handle[u]
    BY <1>3, <2>2 DEF Victim, ReleaseLocks, ClearMap
  <2> QED
    BY <1>1, <1>3, <2>1, <2>2
<1>4. CASE /\ Sleep(t, k, perm)
           /\ pages' = pgs
           /\ waitPage' = [waitPage EXCEPT ![t] = o]
           /\ handle' = [handle EXCEPT ![t] = Nil]
           /\ UNCHANGED lockPage
  <2>1. Slept(t, k, perm, o)
    BY <1>4 DEF Sleep, Slept
  <2>2. ASSUME NEW u \in Tids \ {t}
        PROVE  /\ mapPageLocksByTid'[u] = mapPageLocksByTid[u]
               /\ lockPage'[u] = lockPage[u]
               /\ waiting'[u] = waiting[u]
               /\ waitPage'[u] = waitPage[u]
               /\ handle'[u] = handle[u]
    BY <1>4, <2>2 DEF Sleep
  <2> QED
    BY <1>1, <1>4, <2>1, <2>2
<1> QED
  BY <1>2, <1>3, <1>4 DEF HandleTransaction

\* What GetPage has found when it comes to look at the locks of page k: the
\* object o, in the pool pgs and the heap h.  It has evicted a clean page at
\* most, and has read page k if it was not in the pool.
Found(k, o, pgs, h) ==
    /\ o \in Objs
    /\ pgs \in [Keys -> Objs \cup {Nil}]
    /\ \A l \in Keys : \A x \in Live(l) : h[l][x] = heap[l][x]
    /\ \A l \in Keys : (l # k /\ pgs[l] # pages[l]) =>
          pages[l] # Nil /\ pgs[l] = Nil /\ ~ heap[l][pages[l]].dirty
    /\ \/ /\ o \in Live(k) /\ pgs[k] = pages[k]
          /\ o = pages[k] \/ \E u \in Tids : Points(waiting[u], k) /\ o = waitPage[u]
       \/ pages[k] = Nil /\ disk[k] # Nil /\ pgs[k] = o /\ h[k][o] = ReadPage(k)

\* Making room evicts a clean page at most.
LEMMA MadeRoomClean ==
    ASSUME TypeOK, NEW pgs \in MadeRoom \cup {pages}
    PROVE  /\ pgs \in [Keys -> Objs \cup {Nil}]
           /\ \A l \in Keys : pgs[l] # pages[l] =>
                 pages[l] # Nil /\ pgs[l] = Nil /\ ~ heap[l][pages[l]].dirty
  BY DEF TypeOK, MadeRoom, Cached

\* Every GetPage, new or awake, comes to the locks with a page that was found,
\* or fails before.
LEMMA GetPageFound ==
    ASSUME TypeOK, NEW t \in Tids, NEW k \in Keys, NEW perm \in Perms,
           \/ GetPage(t, k, perm)
           \/ WakeGetPage(t) /\ waiting[t] = [key |-> k, perm |-> perm]
    PROVE  \/ \E o, pgs, h : Found(k, o, pgs, h) /\ HandleTransaction(t, k, perm, o, pgs, h)
           \/ Running(t) /\ \E pgs \in MadeRoom \cup {pages} : Fails(t, pgs)
<1>1. CASE GetCachedPage(t, k, perm)
  <2>1. Found(k, pages[k], pages, heap)
    BY <1>1, CachedExists, PointersReach DEF GetCachedPage, Found, TypeOK, Reached
  <2> QED
    BY <1>1, <2>1 DEF GetCachedPage
<1>2. CASE ReadAndGetPage(t, k, perm)
  <2> DEFINE o == Fresh(k)
             h == [heap EXCEPT ![k][o] = ReadPage(k)]
  <2>1. o \in Objs /\ o \notin Live(k)
    <3>1. \E x \in Objs : x \notin Live(k)
      BY <1>2 DEF ReadAndGetPage, Live
    <3> QED
      BY <3>1 DEF Fresh
  <2>2. PICK room \in MadeRoom : HandleTransaction(t, k, perm, o, [room EXCEPT ![k] = o], h)
    BY <1>2 DEF ReadAndGetPage
  <2> DEFINE pgs == [room EXCEPT ![k] = o]
  <2>3. h[k][o] = ReadPage(k) /\ \A l \in Keys, x \in Objs : (l # k \/ x # o) => h[l][x] = heap[l][x]
    BY <2>1 DEF TypeOK
  <2>4. /\ pgs \in [Keys -> Objs \cup {Nil}]
        /\ pgs[k] = o
        /\ \A l \in Keys : (l # k /\ pgs[l] # pages[l]) =>
              pages[l] # Nil /\ pgs[l] = Nil /\ ~ heap[l][pages[l]].dirty
    BY <2>1, MadeRoomClean
  <2>5. pages[k] = Nil /\ disk[k] # Nil
    BY <1>2 DEF ReadAndGetPage
  <2>6. HandleTransaction(t, k, perm, o, pgs, h)
    BY <2>2
  <2> HIDE DEF o, h, pgs
  <2>7. \A l \in Keys : \A x \in Live(l) : h[l][x] = heap[l][x]
    BY <2>1, <2>3 DEF Live
  <2>8. Found(k, o, pgs, h)
    BY <2>1, <2>3, <2>4, <2>5, <2>7 DEF Found
  <2> QED
    BY <2>6, <2>8
<1>3. CASE Running(t) /\ (PoolFull(t, k) \/ ReadPageFails(t, k))
  BY <1>3 DEF PoolFull, ReadPageFails
<1>4. CASE WakeGetPage(t) /\ waiting[t] = [key |-> k, perm |-> perm]
  <2>1. waiting[t] # Nil
    BY <1>4 DEF WakeGetPage
  <2>2. waitPage[t] \in Objs
    BY <2>1 DEF TypeOK
  <2>3. waitPage[t] \in Live(k)
    BY <1>4, <2>1, <2>2 DEF Live, Points
  <2>4. Points(waiting[t], k)
    BY <1>4, <2>1 DEF Points
  <2>5. Found(k, waitPage[t], pages, heap)
    BY <2>2, <2>3, <2>4 DEF Found, TypeOK
  <2> QED
    BY <1>4, <2>5 DEF WakeGetPage
<1> QED
  BY <1>1, <1>2, <1>3, <1>4 DEF GetPage

\* The objects that are reached after the step of GetPage were reached before,
\* but for the one that was found.
LEMMA GetReaches ==
    ASSUME TypeOK, NEW t \in Tids, NEW k \in Keys, NEW perm \in Perms, NEW o, NEW pgs, NEW h,
           Found(k, o, pgs, h), HandleTransaction(t, k, perm, o, pgs, h),
           NEW l \in Keys, NEW x \in Live(l)'
    PROVE  x \in Live(l) \/ (l = k /\ x = o)
<1> USE PageNilAssumption
<1>0. x \in Objs /\ x # Nil
  BY DEF Live
<1>a. \/ Granted(t, k, perm, o) /\ pages' = pgs
      \/ Undone(t) /\ ClearMap(t, pgs)
      \/ Slept(t, k, perm, o) /\ pages' = pgs
  BY HandleEffect
<1>b. \A u \in Tids \ {t} : /\ lockPage'[u] = lockPage[u]
                            /\ waiting'[u] = waiting[u]
                            /\ waitPage'[u] = waitPage[u]
                            /\ handle'[u] = handle[u]
  BY HandleEffect
<1>1. CASE x = pages'[l]
  <2>1. pages'[l] \in {pgs[l], Nil}
    BY <1>a DEF ClearMap
  <2>2. x = pgs[l]
    BY <1>0, <1>1, <2>1
  <2> QED
    BY <1>0, <2>2 DEF Found, Live
<1>2. ASSUME NEW u \in Tids, x = lockPage'[u][l] PROVE x \in Live(l) \/ (l = k /\ x = o)
  <2>1. lockPage'[u][l] = lockPage[u][l] \/ lockPage'[u][l] = Nil \/ (l = k /\ lockPage'[u][l] = o)
    <3>1. CASE u = t /\ Granted(t, k, perm, o)
      BY <3>1 DEF Granted
    <3>2. CASE u = t /\ Undone(t)
      BY <3>2 DEF Undone
    <3>3. CASE u = t /\ Slept(t, k, perm, o)
      BY <3>3 DEF Slept
    <3>4. CASE u # t
      BY <1>b, <3>4
    <3> QED
      BY <1>a, <3>1, <3>2, <3>3, <3>4
  <2> QED
    BY <1>0, <1>2, <2>1 DEF Live
<1>3. ASSUME NEW u \in Tids, waiting'[u] # Nil, waiting'[u].key = l, x = waitPage'[u]
      PROVE  x \in Live(l) \/ (l = k /\ x = o)
  <2>1. CASE u = t
    <3>1. waiting'[t] = [key |-> k, perm |-> perm] /\ waitPage'[t] = o
      <4>1. Slept(t, k, perm, o)
        BY <1>a, <1>3, <2>1 DEF Granted, Undone
      <4> QED
        BY <4>1 DEF Slept
    <3> QED
      BY <1>3, <2>1, <3>1
  <2>2. CASE u # t
    <3>1. waiting'[u] = waiting[u] /\ waitPage'[u] = waitPage[u]
      BY <1>b, <2>2
    <3> QED
      BY <1>0, <1>3, <3>1 DEF Live, Points
  <2> QED
    BY <2>1, <2>2
<1>4. ASSUME NEW u \in Tids, handle'[u] # Nil, handle'[u].key = l, x = handle'[u].page
      PROVE  x \in Live(l) \/ (l = k /\ x = o)
  <2>1. CASE u = t
    <3>1. handle'[t] = [key |-> k, perm |-> perm, page |-> o]
      <4>1. Granted(t, k, perm, o)
        BY <1>a, <1>4, <2>1 DEF Slept, Undone
      <4> QED
        BY <4>1 DEF Granted
    <3> QED
      BY <1>4, <2>1, <3>1
  <2>2. CASE u # t
    <3>1. handle'[u] = handle[u]
      BY <1>b, <2>2
    <3> QED
      BY <1>0, <1>4, <3>1 DEF Live, Points
  <2> QED
    BY <2>1, <2>2
<1> QED
  BY <1>1, <1>2, <1>3, <1>4 DEF Live, Points

\* A GetPage that fails, a commit and an abort reach no new objects.
LEMMA OthersReach ==
    ASSUME TypeOK, NEW t \in Tids,
           \/ \E pgs \in MadeRoom \cup {pages} : Fails(t, pgs)
           \/ CommitTransaction(t)
           \/ AbortTransaction(t),
           NEW l \in Keys, NEW x \in Live(l)'
    PROVE  x \in Live(l)
<1> USE PageNilAssumption
<1>0. x \in Objs /\ x # Nil
  BY DEF Live
<1>1. /\ waiting' = waiting
      /\ waitPage' = waitPage
      /\ pages'[l] \in {pages[l], Nil}
      /\ \A u \in Tids : /\ lockPage'[u][l] \in {lockPage[u][l], Nil}
                         /\ handle'[u] \in {handle[u], Nil}
  <2>1. CASE \E pgs \in MadeRoom \cup {pages} : Fails(t, pgs)
    BY <2>1, MadeRoomClean DEF Fails, lockVars, TypeOK
  <2>2. CASE CommitTransaction(t)
    BY <2>2 DEF CommitTransaction, End, TypeOK
  <2>3. CASE AbortTransaction(t)
    BY <2>3 DEF AbortTransaction, ClearMap, End, TypeOK
  <2> QED
    BY <2>1, <2>2, <2>3
<1> QED
  BY <1>0, <1>1 DEF Live, Points

\* GetPage keeps HandlesLocked.
LEMMA GetKeepsHandles ==
    ASSUME TypeOK, HandlesLocked, NEW t \in Tids, NEW k \in Keys, NEW perm \in Perms,
           NEW o, NEW pgs, NEW h, HandleTransaction(t, k, perm, o, pgs, h)
    PROVE  HandlesLocked'
<1> USE NilAssumption DEF Perms
<1>1. ASSUME NEW u \in Tids, handle'[u] # Nil
      PROVE  /\ mapPageLocksByTid'[u][handle'[u].key] # Nil
             /\ handle'[u].perm = "Write" => mapPageLocksByTid'[u][handle'[u].key] = "Write"
  <2>1. CASE u = t
    <3>1. Granted(t, k, perm, o)
      BY <1>1, <2>1, HandleEffect DEF Undone, Slept
    <3> QED
      BY <2>1, <3>1 DEF Granted
  <2>2. CASE u # t
    <3>1. handle'[u] = handle[u] /\ mapPageLocksByTid'[u] = mapPageLocksByTid[u]
      BY <2>2, HandleEffect
    <3> QED
      BY <1>1, <3>1 DEF HandlesLocked
  <2> QED
    BY <2>1, <2>2
<1> QED
  BY <1>1 DEF HandlesLocked

\* So do the other calls.
LEMMA OthersKeepHandles ==
    ASSUME TypeOK, HandlesLocked, NEW t \in Tids,
           \/ \E pgs \in MadeRoom \cup {pages} : Fails(t, pgs)
           \/ CommitTransaction(t)
           \/ AbortTransaction(t)
    PROVE  HandlesLocked'
<1>1. ASSUME NEW u \in Tids, handle'[u] # Nil
      PROVE  handle'[u] = handle[u] /\ mapPageLocksByTid'[u] = mapPageLocksByTid[u]
  <2>1. CASE \E pgs \in MadeRoom \cup {pages} : Fails(t, pgs)
    BY <1>1, <2>1 DEF Fails, lockVars, TypeOK
  <2>2. CASE CommitTransaction(t) \/ AbortTransaction(t)
    BY <1>1, <2>2 DEF CommitTransaction, AbortTransaction, End, ReleaseLocks, TypeOK, LockTypeOK
  <2> QED
    BY <2>1, <2>2
<1> QED
  BY <1>1 DEF HandlesLocked
=============================================================================
