--------------------------- MODULE IsolationProofs ---------------------------
(***************************************************************************)
(* Isolation, atomicity and durability of transactions that work through   *)
(* the buffer pool, for every number of transactions, files and pages and  *)
(* every capacity: IsolatedUnlessDetached is an invariant.                 *)
(*                                                                         *)
(* The argument: as long as the pool has let go of no page in use, the     *)
(* pool's object of a page has the committed writes and those of the       *)
(* transaction that has it locked for writing, an object a reader has got  *)
(* has the committed writes, the disk has them too, and written pages are  *)
(* dirty, so that a commit finds them.                                     *)
(***************************************************************************)
EXTENDS Isolation, BufferPoolProofs

-----------------------------------------------------------------------------
(* The inductive invariant                                                 *)

HistoryOK ==
    /\ wrote \in [Tids -> SUBSET Keys]
    /\ saved \in [Keys -> SUBSET Tids]
    /\ detached \in BOOLEAN

\* The transactions under way that have written page k.
Writers(k) == {t \in Tids \ ended : k \in wrote[t]}

\* Who has written a page, and is under way, has it locked for writing.
WritesLocked ==
    \A t \in Tids \ ended : \A k \in wrote[t] : mapPageLocksByTid[t][k] = "Write"

PoolCurrent ==
    \A k \in Keys : pages[k] # Nil => heap[k][pages[k]].data = saved[k] \cup Writers(k)

WritesDirty ==
    \A t \in Tids \ ended : \A k \in wrote[t] : heap[k][pages[k]].dirty

ReadersCurrent ==
    \A t \in Tids : \A k \in Keys :
        mapPageLocksByTid[t][k] = "Read" => heap[k][lockPage[t][k]].data = saved[k]

HandlesCurrent ==
    \A t \in Tids : handle[t] # Nil =>
        IF mapPageLocksByTid[t][handle[t].key] = "Write"
        THEN handle[t].page = pages[handle[t].key]
        ELSE heap[handle[t].key][handle[t].page].data = saved[handle[t].key]

DiskCurrent ==
    \A k \in Keys : IF disk[k] = Nil THEN saved[k] = {} ELSE disk[k] = saved[k]

\* WritesDirty, ReadersCurrent and HandlesCurrent for one transaction.
SeesCurrent(u) ==
    /\ u \notin ended => \A l \in wrote[u] : heap[l][pages[l]].dirty
    /\ \A l \in Keys : mapPageLocksByTid[u][l] = "Read" => heap[l][lockPage[u][l]].data = saved[l]
    /\ handle[u] # Nil =>
          IF mapPageLocksByTid[u][handle[u].key] = "Write"
          THEN handle[u].page = pages[handle[u].key]
          ELSE heap[handle[u].key][handle[u].page].data = saved[handle[u].key]

\* What holds as long as nothing is detached.
Current ==
    /\ Attached
    /\ PoolCurrent
    /\ WritesDirty
    /\ ReadersCurrent
    /\ HandlesCurrent
    /\ DiskCurrent

IsolationInv ==
    /\ TypeOK
    /\ LockCompatible
    /\ HistoryOK
    /\ HandlesLocked
    /\ WritesLocked
    /\ detached \/ Current

-----------------------------------------------------------------------------
(* The pool underneath                                                     *)

\* A step of the clients is a step of the pool.
LEMMA ClientStepIsPoolStep ==
    ASSUME TypeOK, [IsolationNext]_<<vars, history>>
    PROVE  [Next]_vars
<1>1. ASSUME NEW t \in Tids, Write(t) PROVE Next
  <2>1. handle[t] \in Handle
    BY <1>1 DEF Write, TypeOK
  <2>2. handle[t].key \in Keys /\ handle[t].page \in Objs
    BY <2>1 DEF Handle
  <2>3. handle[t].page \in Live(handle[t].key)
    BY <1>1, <2>2 DEF Live, Points, Write
  <2>4. heap[handle[t].key][handle[t].page] \in Page
    BY <2>2, <2>3 DEF TypeOK
  <2>5. heap[handle[t].key][handle[t].page].data \cup {t} \in Content
    BY <2>4, WritersAssumption DEF Page
  <2> QED
    BY <1>1, <2>5 DEF Write, Next
<1>2. ASSUME NEW t \in Tids, Get(t) PROVE Next
  BY <1>2 DEF Get, Next, PoolNext
<1>3. ASSUME NEW t \in Tids, Commit(t) \/ Abort(t) PROVE Next
  BY <1>3 DEF Commit, Abort, Next, PoolNext
<1>4. CASE Flush
  BY <1>4 DEF Flush, Next, PoolNext
<1>5. CASE UNCHANGED <<vars, history>>
  BY <1>5
<1> QED
  BY <1>1, <1>2, <1>3, <1>4, <1>5 DEF IsolationNext

-----------------------------------------------------------------------------
(* The steps of GetPage                                                    *)

\* What GetPage has found and made when it comes to look at the locks: the
\* object o of page k, the pool pgs, the heap h.
Ready(k, o, pgs, h) ==
    /\ pgs[k] = o
    /\ pages[k] # Nil => o = pages[k]
    /\ \A l \in Keys : pgs[l] # Nil => h[l][pgs[l]].data = saved[l] \cup Writers(l)
    /\ \A l \in Keys : \A x \in Live(l) : h[l][x] = heap[l][x]

\* A transaction that has not ended and gives up its locks within GetPage has
\* its writes undone; no other step of GetPage touches them.
LEMMA GetKeepsWrote ==
    ASSUME TypeOK, HistoryOK, WritesLocked, NEW t \in Tids, t \notin ended, Get(t)
    PROVE  /\ mapPageLocksByTid' = [mapPageLocksByTid EXCEPT ![t] = [k \in Keys |-> Nil]]
                => wrote' = [wrote EXCEPT ![t] = {}]
           /\ (\A k \in Keys : mapPageLocksByTid[t][k] # Nil => mapPageLocksByTid'[t][k] # Nil)
                => wrote' = wrote
<1>1. wrote' = [wrote EXCEPT ![t] = IF RolledBack(t) THEN {} ELSE @]
  BY DEF Get
<1>2. ended' = ended
  BY DEF Get, WakeGetPage, GetPage, GetCachedPage, ReadAndGetPage, PoolFull, ReadPageFails,
         HandleTransaction, Fails, lockVars
<1>3. ASSUME mapPageLocksByTid' = [mapPageLocksByTid EXCEPT ![t] = [k \in Keys |-> Nil]]
      PROVE  wrote' = [wrote EXCEPT ![t] = {}]
  <2>1. CASE RolledBack(t)
    BY <1>1, <2>1
  <2>2. CASE ~ RolledBack(t)
    <3>1. \A k \in Keys : mapPageLocksByTid[t][k] = Nil
      BY <1>2, <1>3, <2>2 DEF RolledBack, TypeOK, LockTypeOK
    <3>2. wrote[t] = {}
      BY <3>1, NilAssumption DEF WritesLocked, HistoryOK, Perms
    <3> QED
      BY <1>1, <2>2, <3>2 DEF HistoryOK
  <2> QED
    BY <2>1, <2>2
<1>4. ASSUME \A k \in Keys : mapPageLocksByTid[t][k] # Nil => mapPageLocksByTid'[t][k] # Nil
      PROVE  wrote' = wrote
  BY <1>1, <1>4 DEF RolledBack, HistoryOK
<1> QED
  BY <1>3, <1>4

\* t asks for perm on page k, which is ready.
Handles(t, k, perm) ==
    \E o \in Objs : \E pgs, h :
        /\ HandleTransaction(t, k, perm, o, pgs, h)
        /\ Current => Ready(k, o, pgs, h)

\* Every step of GetPage is the loop of handleTransactionInGetPage on a page
\* that is ready for it, or fails before it.
LEMMA GetCases ==
    ASSUME IsolationInv, NEW t \in Tids, Get(t)
    PROVE  /\ t \notin ended
           /\ \/ \E k \in Keys, perm \in Perms : Handles(t, k, perm)
              \/ \E pgs \in MadeRoom \cup {pages} : Fails(t, pgs)
<1> USE DEF IsolationInv
<1>1. ASSUME WakeGetPage(t)
      PROVE  /\ t \notin ended
             /\ \E k \in Keys, perm \in Perms : Handles(t, k, perm)
  <2>1. waiting[t] # Nil /\ t \notin ended
    BY <1>1 DEF WakeGetPage, TypeOK, LockTypeOK
  <2>2. waiting[t].key \in Keys /\ waiting[t].perm \in Perms
    BY <2>1 DEF TypeOK, LockTypeOK, Request
  <2>3. Current => Ready(waiting[t].key, waitPage[t], pages, heap)
    BY <2>1, <2>2 DEF Current, Attached, PoolCurrent, Ready
  <2> QED
    BY <1>1, <2>1, <2>2, <2>3 DEF WakeGetPage, TypeOK, Handles
<1>2. ASSUME NEW k \in Keys, NEW perm \in Perms, GetCachedPage(t, k, perm)
      PROVE  Handles(t, k, perm)
  <2>1. Current => Ready(k, pages[k], pages, heap)
    BY DEF Current, PoolCurrent, Ready
  <2> QED
    BY <1>2, <2>1 DEF GetCachedPage, TypeOK, Handles
<1>3. ASSUME NEW k \in Keys, NEW perm \in Perms, ReadAndGetPage(t, k, perm)
      PROVE  Handles(t, k, perm)
  <2> DEFINE o == Fresh(k)
             h == [heap EXCEPT ![k][o] = ReadPage(k)]
  <2>1. o \in Objs /\ o \notin Live(k)
    <3>1. \E x \in Objs : x \notin Live(k)
      BY <1>3 DEF ReadAndGetPage, Live
    <3> QED
      BY <3>1 DEF Fresh
  <2>2. PICK room \in MadeRoom : HandleTransaction(t, k, perm, o, [room EXCEPT ![k] = o], h)
    BY <1>3 DEF ReadAndGetPage
  <2> DEFINE pgs == [room EXCEPT ![k] = o]
  <2>3. room \in [Keys -> Objs \cup {Nil}] /\ \A l \in Keys : room[l] \in {pages[l], Nil}
    BY MadeRoomTyped
  <2>4. h[k][o] = ReadPage(k) /\ \A l \in Keys, x \in Objs : (l # k \/ x # o) => h[l][x] = heap[l][x]
    BY <2>1 DEF TypeOK
  <2>5. pgs[k] = o /\ \A l \in Keys : l # k => pgs[l] = room[l]
    BY <2>3
  <2>6. pages[k] = Nil /\ disk[k] # Nil
    BY <1>3 DEF ReadAndGetPage
  <2> HIDE DEF o, h, pgs
  <2>7. \A l \in Keys : \A x \in Live(l) : h[l][x] = heap[l][x]
    BY <2>1, <2>4 DEF Live
  <2>8. ASSUME Current PROVE h[k][o].data = saved[k] \cup Writers(k)
    <3>1. Writers(k) = {}
      <4>1. ASSUME NEW w \in Writers(k) PROVE FALSE
        <5>1. w \in Tids /\ mapPageLocksByTid[w][k] = "Write"
          BY <4>1 DEF Writers, WritesLocked
        <5>2. lockPage[w][k] = Nil
          BY <2>6, <2>8, <5>1 DEF Current, Attached
        <5> QED
          BY <5>1, <5>2, NilAssumption DEF TypeOK, Perms
      <4> QED
        BY <4>1
    <3>2. disk[k] = saved[k] /\ disk[k] \in Content
      BY <2>6, <2>8 DEF Current, DiskCurrent, TypeOK
    <3> QED
      BY <2>4, <3>1, <3>2, WritersAssumption DEF ReadPage
  <2>9. ASSUME Current, NEW l \in Keys, pgs[l] # Nil
        PROVE  h[l][pgs[l]].data = saved[l] \cup Writers(l)
    <3>1. CASE l = k
      BY <2>5, <2>8, <2>9, <3>1
    <3>2. CASE l # k
      <4>1. pgs[l] = pages[l] /\ pages[l] \in Objs
        BY <2>3, <2>5, <2>9, <3>2 DEF TypeOK
      <4> QED
        BY <2>4, <2>9, <3>2, <4>1 DEF Current, PoolCurrent
    <3> QED
      BY <3>1, <3>2
  <2>10. Current => Ready(k, o, pgs, h)
    BY <2>5, <2>6, <2>7, <2>9 DEF Ready
  <2>11. HandleTransaction(t, k, perm, o, pgs, h)
    BY <2>2 DEF pgs
  <2> QED
    BY <2>1, <2>10, <2>11 DEF Handles
<1>4. ASSUME NEW k \in Keys, NEW perm \in Perms, GetPage(t, k, perm)
      PROVE  /\ t \notin ended
             /\ \/ Handles(t, k, perm)
                \/ \E pgs \in MadeRoom \cup {pages} : Fails(t, pgs)
  <2>1. t \notin ended
    BY <1>4 DEF GetPage, Running
  <2>2. CASE PoolFull(t, k) \/ ReadPageFails(t, k)
    BY <2>1, <2>2 DEF PoolFull, ReadPageFails
  <2> QED
    BY <1>2, <1>3, <1>4, <2>1, <2>2 DEF GetPage
<1>5. CASE WakeGetPage(t)
  BY <1>1, <1>5
<1>6. CASE \E k \in Keys, perm \in Perms : GetPage(t, k, perm)
  <2>1. PICK k \in Keys, perm \in Perms : GetPage(t, k, perm)
    BY <1>6
  <2> QED
    BY <1>4, <2>1
<1> QED
  BY <1>5, <1>6 DEF Get

-----------------------------------------------------------------------------
(* The locks of those who have or have written pages                       *)

\* GetPage keeps HandlesLocked and WritesLocked.
LEMMA HandleKeepsLocked ==
    ASSUME TypeOK, HistoryOK, HandlesLocked, WritesLocked,
           NEW t \in Tids, t \notin ended, NEW k \in Keys, NEW perm \in Perms,
           NEW o, NEW pgs, NEW h, HandleTransaction(t, k, perm, o, pgs, h), Get(t)
    PROVE  HandlesLocked' /\ WritesLocked'
<1> USE NilAssumption, PageNilAssumption DEF Perms
<1>0. ended' = ended /\ ended \in SUBSET Tids
  BY DEF HandleTransaction, TypeOK, LockTypeOK
<1>1. CASE /\ Grant(t, k, perm)
           /\ handle' = [handle EXCEPT ![t] = [key |-> k, perm |-> perm, page |-> o]]
  <2>1. mapPageLocksByTid' = SaveMapAndUpgradeLock(t, k, perm)
    BY <1>1 DEF Grant
  <2>2. \A u \in Tids, l \in Keys :
           mapPageLocksByTid'[u][l] =
              IF u = t /\ l = k /\ (mapPageLocksByTid[t][k] = Nil \/ perm = "Write")
              THEN perm ELSE mapPageLocksByTid[u][l]
    BY <2>1 DEF SaveMapAndUpgradeLock, TypeOK, LockTypeOK
  <2>3. wrote' = wrote
    BY <2>2, GetKeepsWrote
  <2>4. WritesLocked'
    BY <1>0, <2>2, <2>3 DEF WritesLocked, HistoryOK
  <2>5. ASSUME NEW u \in Tids, handle'[u] # Nil
        PROVE  /\ mapPageLocksByTid'[u][handle'[u].key] # Nil
               /\ handle'[u].perm = "Write" => mapPageLocksByTid'[u][handle'[u].key] = "Write"
    <3>1. CASE u = t
      <4>1. handle'[t] = [key |-> k, perm |-> perm, page |-> o]
        BY <1>1 DEF TypeOK
      <4> QED
        BY <2>2, <3>1, <4>1
    <3>2. CASE u # t
      <4>1. handle'[u] = handle[u]
        BY <1>1, <3>2 DEF TypeOK
      <4>2. handle[u].key \in Keys
        BY <2>5, <4>1 DEF TypeOK, Handle
      <4> QED
        BY <2>2, <2>5, <3>2, <4>1, <4>2 DEF HandlesLocked
    <3> QED
      BY <3>1, <3>2
  <2> QED
    BY <2>4, <2>5 DEF HandlesLocked
<1>2. CASE Victim(t, k, perm) /\ handle' = [handle EXCEPT ![t] = Nil]
  <2>1. mapPageLocksByTid' = [mapPageLocksByTid EXCEPT ![t] = [l \in Keys |-> Nil]]
    BY <1>2 DEF Victim, ReleaseLocks
  <2>2. wrote' = [wrote EXCEPT ![t] = {}]
    BY <2>1, GetKeepsWrote
  <2>3. \A u \in Tids : u # t => mapPageLocksByTid'[u] = mapPageLocksByTid[u]
    BY <2>1 DEF TypeOK, LockTypeOK
  <2>4. \A u \in Tids : wrote'[u] = IF u = t THEN {} ELSE wrote[u]
    BY <2>2 DEF HistoryOK
  <2>5. \A u \in Tids : handle'[u] = IF u = t THEN Nil ELSE handle[u]
    BY <1>2 DEF TypeOK
  <2> QED
    BY <1>0, <2>3, <2>4, <2>5 DEF HandlesLocked, WritesLocked
<1>3. CASE Sleep(t, k, perm) /\ handle' = [handle EXCEPT ![t] = Nil]
  <2>1. mapPageLocksByTid' = mapPageLocksByTid
    BY <1>3 DEF Sleep
  <2>2. wrote' = wrote
    BY <2>1, GetKeepsWrote
  <2>5. \A u \in Tids : handle'[u] = IF u = t THEN Nil ELSE handle[u]
    BY <1>3 DEF TypeOK
  <2> QED
    BY <1>0, <2>1, <2>2, <2>5 DEF HandlesLocked, WritesLocked
<1> QED
  BY <1>1, <1>2, <1>3 DEF HandleTransaction

\* So does every other step.
LEMMA StepKeepsLocked ==
    ASSUME IsolationInv, IsolationNext, TypeOK'
    PROVE  HistoryOK' /\ HandlesLocked' /\ WritesLocked'
<1> USE DEF IsolationInv
<1>0. detached' \in BOOLEAN
  BY DEF IsolationNext
<1>1. ASSUME NEW t \in Tids, Get(t) PROVE HistoryOK' /\ HandlesLocked' /\ WritesLocked'
  <2>1. HistoryOK'
    BY <1>0, <1>1 DEF Get, HistoryOK
  <2>2. ASSUME NEW k \in Keys, NEW perm \in Perms, Handles(t, k, perm)
        PROVE  HandlesLocked' /\ WritesLocked'
    <3>1. PICK o \in Objs : \E pgs, h : HandleTransaction(t, k, perm, o, pgs, h)
      BY <2>2, Zenon DEF Handles
    <3>2. PICK pgs, h : HandleTransaction(t, k, perm, o, pgs, h)
      BY <3>1, Zenon
    <3>3. t \notin ended
      BY <1>1, GetCases
    <3> QED
      BY <1>1, <3>2, <3>3, HandleKeepsLocked
  <2>3. CASE \E pgs \in MadeRoom \cup {pages} : Fails(t, pgs)
    <3>1. /\ UNCHANGED <<mapPageLocksByTid, ended>>
          /\ \A u \in Tids : handle'[u] = IF u = t THEN Nil ELSE handle[u]
      BY <2>3 DEF Fails, lockVars, TypeOK
    <3>2. wrote' = wrote
      BY <1>1, <3>1, GetCases, GetKeepsWrote
    <3> QED
      BY <2>1, <3>1, <3>2 DEF HandlesLocked, WritesLocked
  <2> QED
    BY <1>1, <2>1, <2>2, <2>3, GetCases
<1>2. ASSUME NEW t \in Tids, Write(t) PROVE HistoryOK' /\ HandlesLocked' /\ WritesLocked'
  <2>1. /\ UNCHANGED <<mapPageLocksByTid, ended, handle, saved>>
        /\ handle[t] # Nil /\ handle[t].perm = "Write" /\ handle[t].key \in Keys
    <3>1. /\ UNCHANGED <<lockVars, pointers, saved>>
          /\ handle[t] # Nil /\ handle[t].perm = "Write"
      BY <1>2, Zenon DEF Write, Modify
    <3>2. handle[t].key \in Keys
      BY <3>1 DEF TypeOK, Handle
    <3> QED
      BY <3>1, <3>2 DEF lockVars, pointers
  <2>2. \A u \in Tids : wrote'[u] = IF u = t THEN wrote[t] \cup {handle[t].key} ELSE wrote[u]
    BY <1>2 DEF Write, HistoryOK
  <2>3. HistoryOK'
    BY <1>0, <1>2, <2>1 DEF Write, HistoryOK
  <2>4. mapPageLocksByTid[t][handle[t].key] = "Write"
    BY <2>1 DEF HandlesLocked
  <2> QED
    BY <2>1, <2>2, <2>3, <2>4 DEF HandlesLocked, WritesLocked
<1>3. ASSUME NEW t \in Tids, Commit(t) \/ Abort(t) PROVE HistoryOK' /\ HandlesLocked' /\ WritesLocked'
  <2>1. /\ mapPageLocksByTid' = [mapPageLocksByTid EXCEPT ![t] = [k \in Keys |-> Nil]]
        /\ ended' = ended \cup {t}
        /\ handle' = [handle EXCEPT ![t] = Nil]
    BY <1>3 DEF Commit, Abort, CommitTransaction, AbortTransaction, End, ReleaseLocks
  <2>2. HistoryOK'
    BY <1>0, <1>3 DEF Commit, Abort, HistoryOK
  <2>3. \A u \in Tids : u # t => /\ mapPageLocksByTid'[u] = mapPageLocksByTid[u]
                                 /\ handle'[u] = handle[u]
                                 /\ wrote'[u] = wrote[u]
    BY <1>3, <2>1 DEF TypeOK, LockTypeOK, HistoryOK, Commit, Abort
  <2>4. handle'[t] = Nil
    BY <2>1 DEF TypeOK
  <2> QED
    BY <2>1, <2>2, <2>3, <2>4 DEF HandlesLocked, WritesLocked
<1>4. ASSUME Flush PROVE HistoryOK' /\ HandlesLocked' /\ WritesLocked'
  BY <1>0, <1>4 DEF Flush, FlushAllPages, lockVars, pointers, HandlesLocked, WritesLocked, HistoryOK
<1> QED
  BY <1>1, <1>2, <1>3, <1>4 DEF IsolationNext

-----------------------------------------------------------------------------
(* What is in the pages                                                    *)

\* Of the pages whose locks u had and keeps, u's view stays what it was, if the
\* new heap h has not been changed where u has locks.
LEMMA OthersKeep ==
    ASSUME TypeOK, HistoryOK, HandlesLocked, WritesLocked, Current, TypeOK', Attached',
           NEW u \in Tids,
           mapPageLocksByTid'[u] = mapPageLocksByTid[u], lockPage'[u] = lockPage[u],
           handle'[u] \in {handle[u], Nil}, wrote'[u] = wrote[u], u \notin ended' => u \notin ended,
           NEW h, heap' = Collected(h),
           \A l \in Keys : mapPageLocksByTid[u][l] # Nil =>
               /\ saved'[l] = saved[l]
               /\ \A x \in Live(l) :
                     IF mapPageLocksByTid[u][l] = "Write"
                     THEN h[l][x] = heap[l][x]
                     ELSE h[l][x].data = heap[l][x].data
    PROVE  SeesCurrent(u)'
<1> USE NilAssumption DEF Perms
<1>0. Reached /\ Reached'
  BY PointersReach, PointersReachNext
<1>1. ASSUME NEW l \in Keys, mapPageLocksByTid[u][l] = "Write"
      PROVE  pages'[l] = pages[l] /\ pages[l] = lockPage[u][l] /\ pages[l] # Nil
  BY <1>1 DEF Current, Attached, TypeOK
<1>2. ASSUME u \notin ended', NEW l \in wrote'[u] PROVE heap'[l][pages'[l]].dirty
  <2>1. l \in Keys /\ u \in Tids \ ended /\ l \in wrote[u]
    BY <1>2 DEF HistoryOK
  <2>2. mapPageLocksByTid[u][l] = "Write" /\ heap[l][pages[l]].dirty
    BY <2>1 DEF WritesLocked, Current, WritesDirty
  <2>3. pages'[l] = pages[l] /\ pages[l] # Nil
    BY <1>1, <2>1, <2>2
  <2>4. pages[l] \in Live(l) /\ pages[l] \in Live(l)'
    BY <1>0, <2>1, <2>3 DEF Reached
  <2>5. heap'[l][pages[l]] = h[l][pages[l]]
    BY <2>1, <2>4, CollectedKeeps
  <2> QED
    BY <2>1, <2>2, <2>3, <2>4, <2>5
<1>3. ASSUME NEW l \in Keys, mapPageLocksByTid'[u][l] = "Read"
      PROVE  heap'[l][lockPage'[u][l]].data = saved'[l]
  <2>1. mapPageLocksByTid[u][l] = "Read" /\ lockPage'[u][l] = lockPage[u][l] /\ lockPage[u][l] # Nil
    BY <1>3 DEF TypeOK
  <2>2. lockPage[u][l] \in Live(l) /\ lockPage[u][l] \in Live(l)'
    BY <1>0, <2>1 DEF Reached
  <2>3. heap'[l][lockPage[u][l]] = h[l][lockPage[u][l]]
    BY <2>2, CollectedKeeps
  <2>4. heap[l][lockPage[u][l]].data = saved[l]
    BY <2>1 DEF Current, ReadersCurrent
  <2> QED
    BY <2>1, <2>2, <2>3, <2>4
<1>4. ASSUME handle'[u] # Nil
      PROVE  IF mapPageLocksByTid'[u][handle'[u].key] = "Write"
             THEN handle'[u].page = pages'[handle'[u].key]
             ELSE heap'[handle'[u].key][handle'[u].page].data = saved'[handle'[u].key]
  <2> DEFINE l == handle[u].key
             x == handle[u].page
  <2>1. handle'[u] = handle[u] /\ handle[u] # Nil /\ l \in Keys /\ x \in Live(l) /\ x \in Live(l)'
    BY <1>0, <1>4 DEF Reached
  <2>2. mapPageLocksByTid[u][l] # Nil
    BY <2>1 DEF HandlesLocked
  <2>3. heap'[l][x] = h[l][x]
    BY <2>1, CollectedKeeps
  <2>4. CASE mapPageLocksByTid[u][l] = "Write"
    BY <1>1, <2>1, <2>4 DEF Current, HandlesCurrent
  <2>5. CASE mapPageLocksByTid[u][l] # "Write"
    <3>1. heap[l][x].data = saved[l]
      BY <2>1, <2>5 DEF Current, HandlesCurrent
    <3>2. h[l][x].data = heap[l][x].data /\ saved'[l] = saved[l]
      BY <2>1, <2>2, <2>5
    <3> QED
      BY <2>1, <2>3, <2>5, <3>1, <3>2
  <2> QED
    BY <2>4, <2>5
<1> QED
  BY <1>2, <1>3, <1>4 DEF SeesCurrent

\* The parts of Current, transaction by transaction.
LEMMA CurrentParts ==
    ASSUME HistoryOK', Attached', PoolCurrent', DiskCurrent',
           \A u \in Tids : SeesCurrent(u)'
    PROVE  Current'
<1>1. WritesDirty'
  BY DEF SeesCurrent, WritesDirty
<1>2. ReadersCurrent'
  BY DEF SeesCurrent, ReadersCurrent
<1>3. HandlesCurrent'
  BY DEF SeesCurrent, HandlesCurrent
<1> QED
  BY <1>1, <1>2, <1>3 DEF Current

\* handleTransactionInGetPage keeps the pages current.
LEMMA HandleKeepsCurrent ==
    ASSUME IsolationInv, Current, TypeOK', HistoryOK', LockCompatible', Attached',
           NEW t \in Tids, t \notin ended, NEW k \in Keys, NEW perm \in Perms,
           NEW o \in Objs, NEW pgs, NEW h, HandleTransaction(t, k, perm, o, pgs, h),
           Ready(k, o, pgs, h), Get(t)
    PROVE  Current'
<1> USE NilAssumption DEF Perms, IsolationInv
<1>0. /\ heap' = Collected(h)
      /\ ended' = ended
      /\ disk' = disk
      /\ saved' = saved
  BY DEF HandleTransaction, Get
<1>1. \A l \in Keys : \A x \in Live(l) : h[l][x] = heap[l][x]
  BY DEF Ready
<1>2. DiskCurrent'
  BY <1>0 DEF Current, DiskCurrent
<1>3. Reached'
  BY PointersReachNext
<1>4. ASSUME NEW l \in Keys, pages'[l] # Nil, pages'[l] = pgs[l]
      PROVE  heap'[l][pages'[l]].data = saved[l] \cup Writers(l)
  <2>1. heap'[l][pages'[l]] = h[l][pages'[l]]
    BY <1>0, <1>3, <1>4, CollectedKeeps DEF Reached
  <2> QED
    BY <1>4, <2>1 DEF Ready
<1>5. ASSUME /\ Grant(t, k, perm)
             /\ pages' = pgs
             /\ lockPage' = SavePage(t, k, perm, o)
             /\ handle' = [handle EXCEPT ![t] = [key |-> k, perm |-> perm, page |-> o]]
      PROVE  Current'
  <2>1. \A u \in Tids, l \in Keys :
           mapPageLocksByTid'[u][l] =
              IF u = t /\ l = k /\ (mapPageLocksByTid[t][k] = Nil \/ perm = "Write")
              THEN perm ELSE mapPageLocksByTid[u][l]
    BY <1>5 DEF Grant, SaveMapAndUpgradeLock, TypeOK, LockTypeOK
  <2>2. \A u \in Tids, l \in Keys :
           lockPage'[u][l] =
              IF u = t /\ l = k /\ (lockPage[t][k] = Nil \/ perm = "Write")
              THEN o ELSE lockPage[u][l]
    BY <1>5 DEF SavePage, TypeOK
  <2>3. wrote' = wrote
    BY <2>1, GetKeepsWrote
  <2>4. \A l \in Keys : Writers(l)' = Writers(l)
    BY <1>0, <2>3 DEF Writers
  <2>5. PoolCurrent'
    BY <1>0, <1>4, <1>5, <2>4 DEF PoolCurrent
  <2>6. ASSUME NEW u \in Tids, u # t
        PROVE  /\ mapPageLocksByTid'[u] = mapPageLocksByTid[u]
               /\ lockPage'[u] = lockPage[u]
               /\ handle'[u] = handle[u]
    BY <1>5, <2>6 DEF Grant, SaveMapAndUpgradeLock, SavePage, TypeOK, LockTypeOK
  <2>7. ASSUME mapPageLocksByTid'[t][k] # "Write" PROVE heap'[k][o].data = saved[k]
    <3>1. Writers(k) = {}
      <4>1. ASSUME NEW w \in Writers(k) PROVE FALSE
        <5>1. w \in Tids /\ mapPageLocksByTid[w][k] = "Write"
          BY <4>1 DEF Writers, WritesLocked
        <5>2. w # t /\ mapPageLocksByTid'[w][k] = "Write"
          BY <2>1, <2>7, <5>1
        <5>3. mapPageLocksByTid'[t][k] # Nil
          BY <2>1
        <5> QED
          BY <5>1, <5>2, <5>3 DEF LockCompatible
      <4> QED
        BY <4>1
    <3>2. pages'[k] = o /\ pages'[k] = pgs[k]
      BY <1>5 DEF Ready
    <3>3. o # Nil
      BY PageNilAssumption
    <3> QED
      BY <1>4, <3>1, <3>2, <3>3
  <2>8. handle'[t] = [key |-> k, perm |-> perm, page |-> o]
    BY <1>5 DEF TypeOK
  <2>9. /\ \A l \in wrote'[t] : heap'[l][pages'[l]].dirty
        /\ \A l \in Keys : mapPageLocksByTid'[t][l] = "Read" =>
              heap'[l][lockPage'[t][l]].data = saved'[l]
    <3>1. ASSUME NEW l \in wrote'[t] PROVE heap'[l][pages'[l]].dirty
      <4>1. l \in Keys /\ mapPageLocksByTid[t][l] = "Write" /\ heap[l][pages[l]].dirty
        BY <2>3, <3>1 DEF HistoryOK, WritesLocked, Current, WritesDirty
      <4>2. pages[l] = lockPage[t][l] /\ pages[l] # Nil
        BY <4>1 DEF Current, Attached, TypeOK
      <4>3. pages'[l] = lockPage'[t][l]
        BY <2>1, <4>1 DEF Attached
      <4>4. pages'[l] = pages[l]
        BY <2>2, <4>1, <4>2, <4>3 DEF Ready
      <4>5. pages[l] \in Live(l) /\ pages[l] \in Live(l)'
        BY <1>3, <4>1, <4>2, <4>4, PointersReach DEF Reached
      <4>6. heap'[l][pages[l]] = h[l][pages[l]]
        BY <1>0, <4>1, <4>5, CollectedKeeps
      <4> QED
        BY <1>1, <4>1, <4>4, <4>5, <4>6
    <3>2. ASSUME NEW l \in Keys, mapPageLocksByTid'[t][l] = "Read"
          PROVE  heap'[l][lockPage'[t][l]].data = saved'[l]
      <4>1. CASE mapPageLocksByTid[t][l] = "Read"
        <5>1. lockPage'[t][l] = lockPage[t][l] /\ lockPage[t][l] # Nil
          BY <2>1, <2>2, <3>2, <4>1 DEF TypeOK
        <5>2. lockPage[t][l] \in Live(l) /\ lockPage[t][l] \in Live(l)'
          BY <1>3, <5>1, PointersReach DEF Reached
        <5>3. heap'[l][lockPage[t][l]] = h[l][lockPage[t][l]]
          BY <1>0, <5>2, CollectedKeeps
        <5> QED
          BY <1>0, <1>1, <4>1, <5>1, <5>2, <5>3 DEF Current, ReadersCurrent
      <4>2. CASE mapPageLocksByTid[t][l] # "Read"
        <5>1. l = k /\ lockPage[t][k] = Nil
          BY <2>1, <3>2, <4>2 DEF TypeOK
        <5> QED
          BY <1>0, <2>2, <2>7, <3>2, <5>1
      <4> QED
        BY <4>1, <4>2
    <3> QED
      BY <3>1, <3>2
  <2>10. IF mapPageLocksByTid'[t][handle'[t].key] = "Write"
         THEN handle'[t].page = pages'[handle'[t].key]
         ELSE heap'[handle'[t].key][handle'[t].page].data = saved'[handle'[t].key]
    BY <1>0, <1>5, <2>7, <2>8 DEF Ready
  <2>11. ASSUME NEW u \in Tids, u # t
         PROVE  SeesCurrent(u)'
    BY <1>0, <1>1, <2>3, <2>6, <2>11, OthersKeep
  <2>12. SeesCurrent(t)'
    BY <2>9, <2>10 DEF SeesCurrent
  <2> QED
    BY <1>2, <2>5, <2>11, <2>12, CurrentParts
<1>6. ASSUME \/ Victim(t, k, perm) /\ ClearMap(t, pgs)
             \/ Sleep(t, k, perm) /\ pages' = pgs /\ UNCHANGED lockPage,
             handle' = [handle EXCEPT ![t] = Nil]
      PROVE  Current'
  <2>1. \A u \in Tids : u # t => /\ mapPageLocksByTid'[u] = mapPageLocksByTid[u]
                                 /\ lockPage'[u] = lockPage[u]
                                 /\ handle'[u] = handle[u]
                                 /\ wrote'[u] = wrote[u]
    BY <1>6 DEF Victim, Sleep, ReleaseLocks, ClearMap, TypeOK, LockTypeOK, Get, HistoryOK
  <2>2. handle'[t] = Nil
    BY <1>6 DEF TypeOK
  <2>3. CASE Victim(t, k, perm) /\ ClearMap(t, pgs)
    <3>1. mapPageLocksByTid' = [mapPageLocksByTid EXCEPT ![t] = [l \in Keys |-> Nil]]
      BY <2>3 DEF Victim, ReleaseLocks
    <3>0. wrote' = [wrote EXCEPT ![t] = {}]
      BY <3>1, GetKeepsWrote
    <3>2. wrote'[t] = {} /\ \A l \in Keys : mapPageLocksByTid'[t][l] = Nil
      BY <3>0, <3>1 DEF HistoryOK, TypeOK, LockTypeOK
    <3>3. ASSUME NEW l \in Keys, pages'[l] # Nil
          PROVE  heap'[l][pages'[l]].data = saved'[l] \cup Writers(l)'
      <4>1. mapPageLocksByTid[t][l] # "Write" /\ pages'[l] = pgs[l]
        BY <2>3, <3>3 DEF ClearMap
      <4>2. l \notin wrote[t]
        BY <4>1 DEF WritesLocked
      <4>3. Writers(l)' = Writers(l)
        BY <1>0, <2>1, <3>2, <4>2 DEF Writers
      <4> QED
        BY <1>0, <1>4, <3>3, <4>1, <4>3
    <3>4. PoolCurrent'
      BY <3>3 DEF PoolCurrent
    <3>5. ASSUME NEW u \in Tids, u # t
          PROVE  SeesCurrent(u)'
      BY <1>0, <1>1, <2>1, <3>5, OthersKeep
    <3>6. SeesCurrent(t)'
      BY <2>2, <3>2, NilAssumption DEF SeesCurrent
    <3> QED
      BY <1>2, <3>4, <3>5, <3>6, CurrentParts
  <2>4. CASE Sleep(t, k, perm) /\ pages' = pgs /\ UNCHANGED lockPage
    <3>1. mapPageLocksByTid' = mapPageLocksByTid
      BY <2>4 DEF Sleep
    <3>2. wrote' = wrote
      BY <3>1, GetKeepsWrote
    <3>3. PoolCurrent'
      BY <1>0, <1>4, <2>4, <3>2 DEF PoolCurrent, Writers
    <3>4. ASSUME NEW u \in Tids
          PROVE  SeesCurrent(u)'
      BY <1>0, <1>1, <2>1, <2>2, <2>4, <3>1, <3>2, OthersKeep
    <3> QED
      BY <1>2, <3>3, <3>4, CurrentParts
  <2> QED
    BY <1>6, <2>3, <2>4
<1> QED
  BY <1>5, <1>6 DEF HandleTransaction

\* A GetPage that fails before it looks at the locks keeps the pages current.
LEMMA FailsKeepsCurrent ==
    ASSUME IsolationInv, Current, TypeOK', HistoryOK', Attached', NEW t \in Tids, t \notin ended,
           NEW pgs \in MadeRoom \cup {pages}, Fails(t, pgs), Get(t)
    PROVE  Current'
<1> USE DEF IsolationInv
<1>0. /\ UNCHANGED <<mapPageLocksByTid, lockPage, ended, disk, saved>>
      /\ pages' = pgs
      /\ heap' = Collected(heap)
      /\ \A u \in Tids : handle'[u] \in {handle[u], Nil}
  BY DEF Fails, lockVars, TypeOK, Get
<1>1. wrote' = wrote
  BY <1>0, GetKeepsWrote
<1>2. DiskCurrent'
  BY <1>0 DEF Current, DiskCurrent
<1>3. ASSUME NEW l \in Keys, pages'[l] # Nil
      PROVE  heap'[l][pages'[l]].data = saved'[l] \cup Writers(l)'
  <2>1. pages'[l] = pages[l]
    BY <1>0, <1>3, MadeRoomTyped
  <2>2. heap'[l][pages'[l]] = heap[l][pages'[l]]
    BY <1>0, <1>3, CollectedKeeps, PointersReachNext DEF Reached
  <2> QED
    BY <1>0, <1>1, <1>3, <2>1, <2>2 DEF Current, PoolCurrent, Writers
<1>4. PoolCurrent'
  BY <1>3 DEF PoolCurrent
<1>5. ASSUME NEW u \in Tids PROVE SeesCurrent(u)'
  BY <1>0, <1>1, OthersKeep
<1> QED
  BY <1>2, <1>4, <1>5, CurrentParts

\* A transaction writes the pool's object of a page that it alone has locked.
LEMMA WriteKeepsCurrent ==
    ASSUME IsolationInv, Current, TypeOK', HistoryOK', Attached', NEW t \in Tids, Write(t)
    PROVE  Current'
<1> USE NilAssumption DEF Perms, IsolationInv
<1> DEFINE k == handle[t].key
           p == handle[t].page
<1>0. /\ UNCHANGED <<mapPageLocksByTid, ended, pages, lockPage, handle, disk, saved>>
      /\ t \notin ended
      /\ handle[t] # Nil
      /\ handle[t].perm = "Write"
  BY DEF Write, Modify, Running, lockVars, pointers
<1>1. k \in Keys /\ p \in Objs
  BY <1>0 DEF TypeOK, Handle
<1>2. mapPageLocksByTid[t][k] = "Write"
  BY <1>0 DEF HandlesLocked
<1>3. p = pages[k]
  BY <1>0, <1>2 DEF Current, HandlesCurrent
<1>4. heap' = [heap EXCEPT ![k][p] = [data |-> heap[k][p].data \cup {t}, dirty |-> TRUE]]
  BY DEF Write, Modify
<1>5. heap'[k][p] = [data |-> heap[k][p].data \cup {t}, dirty |-> TRUE]
      /\ \A l \in Keys : l # k => heap'[l] = heap[l]
  BY <1>1, <1>4 DEF TypeOK
<1>6. \A u \in Tids : wrote'[u] = IF u = t THEN wrote[t] \cup {k} ELSE wrote[u]
  BY DEF Write, HistoryOK
<1> HIDE DEF k, p
<1>7. ASSUME NEW u \in Tids, mapPageLocksByTid[u][k] # Nil PROVE u = t
  BY <1>1, <1>2, <1>7 DEF LockCompatible
<1>8. ASSUME NEW l \in Keys, pages'[l] # Nil
      PROVE  heap'[l][pages'[l]].data = saved'[l] \cup Writers(l)'
  <2>0. heap[l][pages[l]].data = saved[l] \cup Writers(l)
    BY <1>0, <1>8 DEF Current, PoolCurrent
  <2>1. CASE l = k
    <3>1. Writers(l)' = Writers(l) \cup {t}
      BY <1>0, <1>6, <2>1 DEF Writers
    <3> QED
      BY <1>0, <1>3, <1>5, <2>0, <2>1, <3>1
  <2>2. CASE l # k
    <3>1. Writers(l)' = Writers(l)
      BY <1>0, <1>6, <2>2 DEF Writers
    <3> QED
      BY <1>0, <1>5, <2>0, <2>2, <3>1
  <2> QED
    BY <2>1, <2>2
<1>9. PoolCurrent'
  BY <1>8 DEF PoolCurrent
<1>10. DiskCurrent'
  BY <1>0 DEF Current, DiskCurrent
<1>11. ASSUME NEW u \in Tids PROVE SeesCurrent(u)'
  <2>1. ASSUME u \notin ended, NEW l \in wrote'[u] PROVE heap'[l][pages'[l]].dirty
    <3>1. l \in Keys
      BY <2>1 DEF HistoryOK
    <3>2. CASE l = k
      BY <1>0, <1>3, <1>5, <3>2
    <3>3. CASE l # k
      BY <1>0, <1>5, <1>6, <2>1, <3>1, <3>3 DEF Current, WritesDirty
    <3> QED
      BY <3>2, <3>3
  <2>2. ASSUME NEW l \in Keys, mapPageLocksByTid[u][l] = "Read"
        PROVE  heap'[l][lockPage[u][l]].data = saved[l]
    <3>1. l # k
      BY <1>2, <1>7, <2>2
    <3> QED
      BY <1>5, <2>2, <3>1 DEF Current, ReadersCurrent
  <2>3. ASSUME handle[u] # Nil
        PROVE  IF mapPageLocksByTid[u][handle[u].key] = "Write"
               THEN handle[u].page = pages[handle[u].key]
               ELSE heap'[handle[u].key][handle[u].page].data = saved[handle[u].key]
    <3>1. handle[u].key \in Keys
      BY <2>3 DEF TypeOK, Handle
    <3>2. mapPageLocksByTid[u][handle[u].key] # "Write" => handle[u].key # k
      BY <1>2, <1>7, <2>3 DEF HandlesLocked
    <3> QED
      BY <1>5, <2>3, <3>1, <3>2 DEF Current, HandlesCurrent
  <2> QED
    BY <1>0, <2>1, <2>2, <2>3 DEF SeesCurrent
<1> QED
  BY <1>9, <1>10, <1>11, CurrentParts

\* A page that t has locked is written by no other.
LEMMA WritersOfLocked ==
    ASSUME IsolationInv, NEW t \in Tids, NEW k \in Keys, mapPageLocksByTid[t][k] # Nil
    PROVE  Writers(k) = IF k \in wrote[t] THEN {t} ELSE {}
<1> USE NilAssumption DEF Perms, IsolationInv
<1>1. t \notin ended
  BY DEF TypeOK, LockTypeOK
<1>2. ASSUME NEW w \in Writers(k) PROVE w = t
  <2>1. w \in Tids /\ mapPageLocksByTid[w][k] = "Write"
    BY <1>2 DEF Writers, WritesLocked
  <2> QED
    BY <2>1 DEF LockCompatible
<1>3. t \in Writers(k) <=> k \in wrote[t]
  BY <1>1 DEF Writers
<1> QED
  BY <1>2, <1>3

\* A commit makes the disk current, and the others see no difference.
LEMMA CommitKeepsCurrent ==
    ASSUME IsolationInv, Current, TypeOK', HistoryOK', Attached', NEW t \in Tids, Commit(t)
    PROVE  Current'
<1> USE NilAssumption DEF Perms, IsolationInv
<1> DEFINE h == Cleaned(Flushed(t), lockPage[t])
<1>0. /\ UNCHANGED <<pages, wrote>>
      /\ t \notin ended
      /\ ended' = ended \cup {t}
      /\ mapPageLocksByTid' = [mapPageLocksByTid EXCEPT ![t] = [k \in Keys |-> Nil]]
      /\ lockPage' = [lockPage EXCEPT ![t] = [k \in Keys |-> Nil]]
      /\ handle' = [handle EXCEPT ![t] = Nil]
      /\ heap' = Collected(h)
  BY DEF Commit, CommitTransaction, End, ReleaseLocks, Running
<1>1. \A k \in Keys :
         /\ disk'[k] = IF k \in Flushed(t) THEN heap[k][lockPage[t][k]].data ELSE disk[k]
         /\ saved'[k] = IF k \in wrote[t] THEN saved[k] \cup {t} ELSE saved[k]
  BY DEF Commit, CommitTransaction
<1>2. ASSUME NEW k \in Flushed(t)
      PROVE  /\ k \in Keys
             /\ lockPage[t][k] \in Live(k)
             /\ mapPageLocksByTid[t][k] # Nil
  BY PointersReach DEF Flushed, Reached, TypeOK
<1>3. ASSUME NEW k \in Keys, NEW x \in Live(k)
      PROVE  h[k][x].data = heap[k][x].data /\ (k \notin Flushed(t) => h[k][x] = heap[k][x])
  <2>0. x \in Objs
    BY DEF Live
  <2>1. CASE k \notin Flushed(t)
    BY <2>1 DEF Cleaned
  <2>2. CASE k \in Flushed(t)
    <3>1. h[k] = [heap[k] EXCEPT ![lockPage[t][k]].dirty = FALSE]
      BY <2>2 DEF Cleaned
    <3>2. heap[k] \in [Objs -> Page \cup {Nil}] /\ heap[k][x] # Nil
      BY DEF TypeOK
    <3>3. heap[k][x] \in Page
      BY <2>0, <3>2
    <3>4. [heap[k][x] EXCEPT !.dirty = FALSE].data = heap[k][x].data
      BY <3>3 DEF Page
    <3> QED
      BY <2>0, <2>2, <3>1, <3>2, <3>4
  <2> QED
    BY <2>1, <2>2
<1> HIDE DEF h
<1>4. ASSUME NEW k \in wrote[t]
      PROVE  /\ k \in Keys
             /\ mapPageLocksByTid[t][k] = "Write"
             /\ pages[k] = lockPage[t][k]
             /\ k \in Flushed(t)
  <2>1. k \in Keys /\ mapPageLocksByTid[t][k] = "Write"
    BY <1>0 DEF HistoryOK, WritesLocked
  <2>2. pages[k] = lockPage[t][k] /\ lockPage[t][k] # Nil
    BY <2>1 DEF Current, Attached, TypeOK
  <2>3. heap[k][pages[k]].dirty
    BY <1>0 DEF Current, WritesDirty
  <2> QED
    BY <2>1, <2>2, <2>3 DEF Flushed
<1>5. ASSUME NEW k \in Keys, pages'[k] # Nil
      PROVE  heap'[k][pages'[k]].data = saved'[k] \cup Writers(k)'
  <2>1. pages[k] \in Live(k) /\ pages[k] \in Live(k)'
    BY <1>0, <1>5, PointersReach, PointersReachNext DEF Reached
  <2>2. heap'[k][pages[k]] = h[k][pages[k]]
    BY <1>0, <2>1, CollectedKeeps
  <2>3. h[k][pages[k]].data = saved[k] \cup Writers(k)
    BY <1>0, <1>3, <1>5, <2>1 DEF Current, PoolCurrent
  <2>4. Writers(k)' = Writers(k) \ {t} /\ (t \in Writers(k) <=> k \in wrote[t])
    BY <1>0 DEF Writers
  <2>5. saved'[k] \cup Writers(k)' = saved[k] \cup Writers(k)
    BY <1>1, <2>4
  <2> QED
    BY <1>0, <2>2, <2>3, <2>5
<1>6. PoolCurrent'
  BY <1>5 DEF PoolCurrent
<1>7. ASSUME NEW k \in Keys PROVE IF disk'[k] = Nil THEN saved'[k] = {} ELSE disk'[k] = saved'[k]
  <2>1. CASE k \notin Flushed(t)
    BY <1>1, <1>4, <2>1 DEF Current, DiskCurrent
  <2>2. CASE k \in Flushed(t)
    <3>1. mapPageLocksByTid[t][k] # Nil /\ disk'[k] = heap[k][lockPage[t][k]].data
      BY <1>1, <1>2, <2>2
    <3>2. CASE mapPageLocksByTid[t][k] = "Write"
      <4>1. pages[k] = lockPage[t][k] /\ pages[k] # Nil
        BY <3>2 DEF Current, Attached, TypeOK
      <4>2. disk'[k] = saved[k] \cup Writers(k)
        BY <3>1, <4>1 DEF Current, PoolCurrent
      <4>3. disk'[k] = saved'[k]
        BY <1>1, <3>1, <4>2, WritersOfLocked
      <4>4. disk'[k] # Nil
        <5>1. heap[k][pages[k]] \in Page
          BY <4>1, CachedExists DEF TypeOK
        <5>2. disk'[k] \in Content
          BY <3>1, <4>1, <5>1 DEF Page
        <5> QED
          BY <5>2, PageNilAssumption
      <4> QED
        BY <4>3, <4>4
    <3>3. CASE mapPageLocksByTid[t][k] # "Write"
      <4>1. mapPageLocksByTid[t][k] = "Read" /\ k \notin wrote[t]
        BY <1>4, <3>1, <3>3 DEF TypeOK, LockTypeOK
      <4>2. disk'[k] = saved[k]
        BY <3>1, <4>1 DEF Current, ReadersCurrent
      <4>3. saved[k] # Nil
        BY WritersAssumption, PageNilAssumption DEF HistoryOK
      <4> QED
        BY <1>1, <4>1, <4>2, <4>3
    <3> QED
      BY <3>2, <3>3
  <2> QED
    BY <2>1, <2>2
<1>8. DiskCurrent'
  BY <1>7 DEF DiskCurrent
<1>9. SeesCurrent(t)'
  <2>1. /\ \A k \in Keys : mapPageLocksByTid'[t][k] = Nil
        /\ handle'[t] = Nil
        /\ t \in ended'
    BY <1>0 DEF TypeOK, LockTypeOK
  <2> QED
    BY <2>1 DEF SeesCurrent
<1>10. ASSUME NEW u \in Tids, u # t PROVE SeesCurrent(u)'
  <2>1. /\ mapPageLocksByTid'[u] = mapPageLocksByTid[u]
        /\ lockPage'[u] = lockPage[u]
        /\ handle'[u] = handle[u]
    BY <1>0, <1>10 DEF TypeOK, LockTypeOK
  <2>2. ASSUME NEW l \in Keys, mapPageLocksByTid[u][l] # Nil
        PROVE  /\ saved'[l] = saved[l]
               /\ mapPageLocksByTid[u][l] = "Write" => l \notin Flushed(t)
    <3>1. l \notin wrote[t]
      BY <1>4, <1>10, <2>2 DEF LockCompatible
    <3>2. mapPageLocksByTid[u][l] = "Write" => l \notin Flushed(t)
      BY <1>2, <1>10, <2>2 DEF LockCompatible
    <3> QED
      BY <1>1, <3>1, <3>2
  <2> QED
    BY <1>0, <1>3, <2>1, <2>2, OthersKeep
<1> QED
  BY <1>6, <1>8, <1>9, <1>10, CurrentParts

\* An abort throws the pages it has written out of the pool.
LEMMA AbortKeepsCurrent ==
    ASSUME IsolationInv, Current, TypeOK', HistoryOK', Attached', NEW t \in Tids, Abort(t)
    PROVE  Current'
<1> USE NilAssumption DEF Perms, IsolationInv
<1>0. /\ UNCHANGED <<disk, saved>>
      /\ t \notin ended
      /\ ended' = ended \cup {t}
      /\ mapPageLocksByTid' = [mapPageLocksByTid EXCEPT ![t] = [k \in Keys |-> Nil]]
      /\ lockPage' = [lockPage EXCEPT ![t] = [k \in Keys |-> Nil]]
      /\ handle' = [handle EXCEPT ![t] = Nil]
      /\ heap' = Collected(heap)
      /\ wrote' = [wrote EXCEPT ![t] = {}]
  BY DEF Abort, AbortTransaction, ClearMap, End, ReleaseLocks, Running
<1>1. \A k \in Keys : pages'[k] = IF mapPageLocksByTid[t][k] = "Write" THEN Nil ELSE pages[k]
  BY DEF Abort, AbortTransaction, ClearMap
<1>2. DiskCurrent'
  BY <1>0 DEF Current, DiskCurrent
<1>3. ASSUME NEW k \in Keys, pages'[k] # Nil
      PROVE  heap'[k][pages'[k]].data = saved'[k] \cup Writers(k)'
  <2>1. mapPageLocksByTid[t][k] # "Write" /\ pages'[k] = pages[k]
    BY <1>1, <1>3
  <2>2. k \notin wrote[t]
    BY <1>0, <2>1 DEF WritesLocked
  <2>3. Writers(k)' = Writers(k)
    BY <1>0, <2>2 DEF Writers, HistoryOK
  <2>4. heap'[k][pages'[k]] = heap[k][pages'[k]]
    BY <1>0, <1>3, CollectedKeeps, PointersReachNext DEF Reached
  <2> QED
    BY <1>0, <1>3, <2>1, <2>3, <2>4 DEF Current, PoolCurrent
<1>4. PoolCurrent'
  BY <1>3 DEF PoolCurrent
<1>5. SeesCurrent(t)'
  <2>1. /\ \A k \in Keys : mapPageLocksByTid'[t][k] = Nil
        /\ handle'[t] = Nil
        /\ t \in ended'
    BY <1>0 DEF TypeOK, LockTypeOK
  <2> QED
    BY <2>1 DEF SeesCurrent
<1>6. ASSUME NEW u \in Tids, u # t PROVE SeesCurrent(u)'
  <2>1. /\ mapPageLocksByTid'[u] = mapPageLocksByTid[u]
        /\ lockPage'[u] = lockPage[u]
        /\ handle'[u] = handle[u]
        /\ wrote'[u] = wrote[u]
    BY <1>0, <1>6 DEF TypeOK, LockTypeOK, HistoryOK
  <2> QED
    BY <1>0, <2>1, OthersKeep
<1> QED
  BY <1>2, <1>4, <1>5, <1>6, CurrentParts

\* FlushAllPages, with no transaction under way, writes what has been committed.
LEMMA FlushKeepsCurrent ==
    ASSUME IsolationInv, Current, TypeOK', HistoryOK', Attached', Flush
    PROVE  Current'
<1> USE NilAssumption DEF Perms, IsolationInv
<1>0. /\ UNCHANGED <<mapPageLocksByTid, ended, pages, handle, saved, wrote>>
      /\ \A u \in Tids, k \in Keys : mapPageLocksByTid[u][k] = Nil
      /\ heap' = Cleaned(Cached, pages)
      /\ \A k \in Keys : disk'[k] = IF k \in Cached THEN heap[k][pages[k]].data ELSE disk[k]
  BY DEF Flush, FlushAllPages, lockVars, pointers
<1>1. ASSUME NEW u \in Tids PROVE handle[u] = Nil
  <2>1. handle[u] # Nil => handle[u].key \in Keys
    BY DEF TypeOK, Handle
  <2> QED
    BY <1>0, <2>1 DEF HandlesLocked
<1>2. ASSUME NEW u \in Tids \ ended PROVE wrote[u] = {}
  BY <1>0, <1>2 DEF WritesLocked, HistoryOK
<1>3. ASSUME NEW k \in Keys PROVE Writers(k) = {}
  BY <1>2 DEF Writers
<1>4. ASSUME NEW k \in Cached
      PROVE  k \in Keys /\ heap[k][pages[k]] \in Page /\ heap[k][pages[k]].data = saved[k]
  <2>1. k \in Keys /\ pages[k] # Nil
    BY DEF Cached
  <2>2. heap[k][pages[k]] \in Page
    BY <2>1, CachedExists DEF TypeOK
  <2> QED
    BY <1>3, <2>1, <2>2 DEF Current, PoolCurrent
<1>5. ASSUME NEW k \in Cached PROVE heap'[k][pages[k]].data = heap[k][pages[k]].data
  <2>1. k \in Keys /\ heap[k][pages[k]] \in Page /\ pages[k] \in Objs
    BY <1>4, CachedExists DEF Cached
  <2>2. heap'[k] = [heap[k] EXCEPT ![pages[k]].dirty = FALSE]
    BY <1>0, <2>1 DEF Cleaned
  <2>3. [heap[k][pages[k]] EXCEPT !.dirty = FALSE].data = heap[k][pages[k]].data
    BY <2>1 DEF Page
  <2> QED
    BY <2>1, <2>2, <2>3 DEF TypeOK
<1>6. PoolCurrent'
  BY <1>0, <1>3, <1>4, <1>5 DEF PoolCurrent, Cached, Writers
<1>7. DiskCurrent'
  <2>1. ASSUME NEW k \in Keys PROVE IF disk'[k] = Nil THEN saved'[k] = {} ELSE disk'[k] = saved'[k]
    <3>1. CASE k \in Cached
      <4>1. disk'[k] = saved[k]
        BY <1>0, <1>4, <3>1
      <4>2. saved[k] # Nil
        BY WritersAssumption, PageNilAssumption DEF HistoryOK
      <4> QED
        BY <1>0, <4>1, <4>2
    <3>2. CASE k \notin Cached
      BY <1>0, <3>2 DEF Current, DiskCurrent
    <3> QED
      BY <3>1, <3>2
  <2> QED
    BY <2>1 DEF DiskCurrent
<1>8. ASSUME NEW u \in Tids PROVE SeesCurrent(u)'
  BY <1>0, <1>1, <1>2 DEF SeesCurrent
<1> QED
  BY <1>6, <1>7, <1>8, CurrentParts

-----------------------------------------------------------------------------
(* The theorem                                                             *)

LEMMA IsolationInitInv == IsolationInit => IsolationInv
<1> SUFFICES ASSUME IsolationInit PROVE IsolationInv
  OBVIOUS
<1> USE NilAssumption DEF Perms
<1>1. Init /\ TypeOK
  BY PoolInitTyped DEF IsolationInit
<1>2. LockCompatible
  BY <1>1 DEF Init, LockInit, LockCompatible
<1>3. HistoryOK
  BY DEF IsolationInit, HistoryOK
<1>4. HandlesLocked /\ WritesLocked
  BY DEF IsolationInit, Init, HandlesLocked, WritesLocked
<1>5. Attached
  BY DEF IsolationInit, Init, LockInit, Attached
<1>6. PoolCurrent /\ WritesDirty /\ ReadersCurrent /\ HandlesCurrent
  BY DEF IsolationInit, Init, LockInit, PoolCurrent, WritesDirty, ReadersCurrent, HandlesCurrent
<1>7. DiskCurrent
  BY UnwrittenAssumption DEF IsolationInit, Init, DiskCurrent
<1> QED
  BY <1>1, <1>2, <1>3, <1>4, <1>5, <1>6, <1>7 DEF IsolationInv, Current

LEMMA IsolationStep ==
    IsolationInv /\ [IsolationNext]_<<vars, history>> => IsolationInv'
<1> SUFFICES ASSUME IsolationInv, [IsolationNext]_<<vars, history>> PROVE IsolationInv'
  OBVIOUS
<1>1. TypeOK /\ LockTypeOK /\ LockCompatible
  BY DEF IsolationInv, TypeOK
<1>2. [Next]_vars
  BY <1>1, ClientStepIsPoolStep
<1>3. TypeOK'
  BY <1>1, <1>2, PoolStepTyped
<1>4. LockCompatible'
  BY <1>1, <1>2, PoolStepIsLockStep, StepCompatible
<1>5. CASE IsolationNext
  <2>1. HistoryOK' /\ HandlesLocked' /\ WritesLocked'
    BY <1>3, <1>5, StepKeepsLocked
  <2>2. ASSUME ~ detached' PROVE Current'
    <3>1. Current /\ Attached'
      BY <1>5, <2>2 DEF IsolationNext, IsolationInv
    <3>2. ASSUME NEW t \in Tids, Get(t) PROVE Current'
      <4>1. t \notin ended
        BY <3>2, GetCases
      <4>2. CASE \E pgs \in MadeRoom \cup {pages} : Fails(t, pgs)
        BY <1>3, <2>1, <3>1, <3>2, <4>1, <4>2, FailsKeepsCurrent
      <4>3. ASSUME NEW k \in Keys, NEW perm \in Perms, Handles(t, k, perm) PROVE Current'
        <5>1. PICK o \in Objs : \E pgs, h :
                 HandleTransaction(t, k, perm, o, pgs, h) /\ Ready(k, o, pgs, h)
          BY <3>1, <4>3, Zenon DEF Handles
        <5>2. PICK pgs, h : HandleTransaction(t, k, perm, o, pgs, h) /\ Ready(k, o, pgs, h)
          BY <5>1, Zenon
        <5> QED
          BY <1>3, <1>4, <2>1, <3>1, <3>2, <4>1, <5>2, HandleKeepsCurrent
      <4> QED
        BY <3>2, <4>2, <4>3, GetCases
    <3>3. ASSUME NEW t \in Tids, Write(t) \/ Commit(t) \/ Abort(t) PROVE Current'
      BY <1>3, <2>1, <3>1, <3>3, WriteKeepsCurrent, CommitKeepsCurrent, AbortKeepsCurrent
    <3>4. CASE Flush
      BY <1>3, <2>1, <3>1, <3>4, FlushKeepsCurrent
    <3> QED
      BY <1>5, <3>2, <3>3, <3>4 DEF IsolationNext
  <2> QED
    BY <1>3, <1>4, <2>1, <2>2 DEF IsolationInv
<1>6. CASE UNCHANGED <<vars, history>>
  <2>1. UNCHANGED <<mapPageLocksByTid, waiting, ended, pages, lockPage, waitPage, handle, heap, disk,
                    wrote, saved, detached>>
    BY <1>6 DEF vars, lockVars, pointers, history
  <2>2. HistoryOK' /\ HandlesLocked' /\ WritesLocked'
    BY <2>1 DEF IsolationInv, HistoryOK, HandlesLocked, WritesLocked
  <2>3. ASSUME Current PROVE Current'
    <3>1. Attached' /\ WritesDirty' /\ ReadersCurrent'
      BY <2>1, <2>3 DEF Current, Attached, WritesDirty, ReadersCurrent
    <3>2. PoolCurrent' /\ HandlesCurrent' /\ DiskCurrent'
      BY <2>1, <2>3 DEF Current, PoolCurrent, Writers, HandlesCurrent, DiskCurrent
    <3> QED
      BY <3>1, <3>2 DEF Current
  <2> QED
    BY <1>3, <1>4, <2>1, <2>2, <2>3 DEF IsolationInv
<1> QED
  BY <1>5, <1>6

\* What the invariant says of the pages a transaction sees and of the disk.
LEMMA InvIsolates == IsolationInv => IsolatedUnlessDetached
<1> SUFFICES ASSUME IsolationInv, Current
             PROVE  Isolated /\ DiskOnlyCommitted /\ CommittedOnDisk
  BY DEF IsolationInv, IsolatedUnlessDetached
<1> USE NilAssumption DEF Perms, IsolationInv
<1>1. ASSUME NEW t \in Tids, handle[t] # Nil
      PROVE  heap[handle[t].key][handle[t].page].data = View(t, handle[t].key)
  <2> DEFINE k == handle[t].key
  <2>1. k \in Keys /\ mapPageLocksByTid[t][k] # Nil /\ t \notin ended
    BY <1>1 DEF HandlesLocked, TypeOK, LockTypeOK, Handle
  <2>2. CASE mapPageLocksByTid[t][k] = "Write"
    <3>1. handle[t].page = pages[k] /\ pages[k] = lockPage[t][k] /\ pages[k] # Nil
      BY <1>1, <2>1, <2>2 DEF Current, HandlesCurrent, Attached, TypeOK
    <3>2. heap[k][pages[k]].data = saved[k] \cup Writers(k)
      BY <2>1, <3>1 DEF Current, PoolCurrent
    <3> QED
      BY <2>1, <3>1, <3>2, WritersOfLocked DEF View
  <2>3. CASE mapPageLocksByTid[t][k] # "Write"
    <3>1. heap[k][handle[t].page].data = saved[k]
      BY <1>1, <2>3 DEF Current, HandlesCurrent
    <3>2. k \notin wrote[t]
      BY <2>1, <2>3 DEF WritesLocked
    <3> QED
      BY <3>1, <3>2 DEF View
  <2> QED
    BY <2>2, <2>3
<1>2. DiskOnlyCommitted /\ CommittedOnDisk
  BY DEF Current, DiskCurrent, DiskOnlyCommitted, CommittedOnDisk
<1> QED
  BY <1>1, <1>2 DEF Isolated

\* Isolation, atomicity and durability, for any number of transactions, files,
\* pages and page objects and every capacity of the pool: as long as eviction
\* and rollback have taken no page from under a writer or a sleeping GetPage,
\* every page GetPage returns has the committed writes and the caller's own,
\* and the disk has exactly the committed ones.
THEOREM TransactionsIsolated == IsolationSpec => []IsolatedUnlessDetached
  BY IsolationInitInv, IsolationStep, InvIsolates, PTL DEF IsolationSpec
=============================================================================
