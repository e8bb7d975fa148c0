------------------------------ MODULE BufferPool ------------------------------
(***************************************************************************)
(* The buffer pool of GoDB (godb/buffer_pool.go) with its pages: the cache,*)
(* eviction, reading, and what commit, abort and FlushAllPages do to the   *)
(* pages and to the files.  Locks are those of module LockManager.         *)
(*                                                                         *)
(* A page in memory is a Go pointer.  The pool, the lock table, a sleeping *)
(* GetPage and the caller that got the page may each have a pointer to it, *)
(* and they need not agree.  A page of a file is a key k; its objects have *)
(* identities in Objs, are heap[k][o], and stay there until nothing points *)
(* to them.                                                                *)
(***************************************************************************)
EXTENDS LockManager

CONSTANTS
    numPages,      \* capacity of the pool
    Objs,          \* bound: the objects of one page alive at once
    Content,       \* what a page can contain
    RoundTrip(_),  \* what initFromBuffer makes of the bytes toBuffer wrote
    DiskInit       \* the pages of the files at the start; Nil past the end

Page == [data : Content, dirty : BOOLEAN]
Handle == [key : Keys, perm : Perms, page : Objs]

ASSUME CapacityAssumption == numPages \in Nat
ASSUME ContentAssumption == \A c \in Content : RoundTrip(c) \in Content
ASSUME DiskInitAssumption == DiskInit \in [Keys -> Content \cup {Nil}]
ASSUME PageNilAssumption ==
    Nil \notin Objs /\ Nil \notin Content /\ Nil \notin Page /\ Nil \notin Handle

VARIABLES
    pages,      \* bp.pages: key -> page object, or Nil
    lockPage,   \* PageLock.page: tid -> key -> page object, or Nil
    waitPage,   \* tid -> the page its sleeping GetPage has found, or Nil
    handle,     \* tid -> what its last GetPage returned, or Nil
    heap,       \* the page objects, or Nil
    disk        \* the pages of the files, or Nil

pointers == <<pages, lockPage, waitPage, handle>>
vars == <<lockVars, pointers, heap, disk>>

-----------------------------------------------------------------------------
(* Page objects                                                            *)

Points(call, k) == call # Nil /\ call.key = k

\* The objects of page k that a pointer somewhere reaches.
Live(k) ==
    ({pages[k]} \cup {lockPage[t][k] : t \in Tids}
     \cup {waitPage[t] : t \in {u \in Tids : Points(waiting[u], k)}}
     \cup {handle[t].page : t \in {u \in Tids : Points(handle[u], k)}}) \cap Objs

\* The heap h after the step, without the objects nothing reaches any more.
Collected(h) ==
    [k \in Keys |-> LET reached == Live(k)'
                    IN  [o \in Objs |-> IF o \in reached THEN h[k][o] ELSE Nil]]

Fresh(k) == CHOOSE o \in Objs : o \notin Live(k)

Cached == {k \in Keys : pages[k] # Nil}

\* The heap with object refs[k] of each page k in S no longer dirty (flushPage).
Cleaned(S, refs) ==
    [k \in Keys |-> IF k \in S THEN [heap[k] EXCEPT ![refs[k]].dirty = FALSE] ELSE heap[k]]

-----------------------------------------------------------------------------
(* GetPage                                                                 *)

\* Mutant: a rollback leaves the pages in the pool.
ClearMap_KeepsPages(t, pgs) ==
    /\ pages' = pgs
    /\ lockPage' = [lockPage EXCEPT ![t] = [k \in Keys |-> Nil]]

\* clearMap: the pages t has locked for writing leave the pool pgs, even if
\* other transactions wait for them.
ClearMap(t, pgs) ==
    /\ pages' = [k \in Keys |-> IF mapPageLocksByTid[t][k] = "Write" THEN Nil ELSE pgs[k]]
    /\ lockPage' = [lockPage EXCEPT ![t] = [k \in Keys |-> Nil]]

\* Mutant: the page is set only in a PageLock that exists.
SavePage_UpgradeOnly(t, k, perm, o) ==
    [lockPage EXCEPT ![t][k] = IF @ # Nil /\ perm = "Write" THEN o ELSE @]

\* saveMapAndUpgradeLock makes a new PageLock, and so takes over the object o,
\* when there is none for the page and whenever perm is WritePerm.
SavePage(t, k, perm, o) ==
    [lockPage EXCEPT ![t][k] = IF @ = Nil \/ perm = "Write" THEN o ELSE @]

\* The loop of handleTransactionInGetPage up to its end or its next sleep: t
\* asks for perm on page k, of which it has found the object o.  pgs and h are
\* the pool and the heap the call has made so far.
HandleTransaction(t, k, perm, o, pgs, h) ==
    /\ \/ /\ Grant(t, k, perm)
          /\ pages' = pgs
          /\ lockPage' = SavePage(t, k, perm, o)
          /\ waitPage' = [waitPage EXCEPT ![t] = Nil]
          /\ handle' = [handle EXCEPT ![t] = [key |-> k, perm |-> perm, page |-> o]]
       \/ /\ Victim(t, k, perm)
          /\ ClearMap(t, pgs)
          /\ waitPage' = [waitPage EXCEPT ![t] = Nil]
          /\ handle' = [handle EXCEPT ![t] = Nil]
       \/ /\ Sleep(t, k, perm)
          /\ pages' = pgs
          /\ waitPage' = [waitPage EXCEPT ![t] = o]
          /\ handle' = [handle EXCEPT ![t] = Nil]
          /\ UNCHANGED lockPage
    /\ heap' = Collected(h)
    /\ UNCHANGED <<disk, ended>>

\* Mutant: a pool of exactly numPages pages does not count as full.
MadeRoom_OffByOne ==
    IF Cardinality(Cached) <= numPages
    THEN {pages}
    ELSE {[pages EXCEPT ![v] = Nil] : v \in {c \in Cached : ~ heap[c][pages[c]].dirty}}

\* Mutant: any page may be evicted, a dirty one too.
MadeRoom_EvictsDirty ==
    IF Cardinality(Cached) < numPages
    THEN {pages}
    ELSE {[pages EXCEPT ![v] = Nil] : v \in Cached}

\* Mutant: the test for a dirty page is the wrong way round.
MadeRoom_Inverted ==
    IF Cardinality(Cached) < numPages
    THEN {pages}
    ELSE {[pages EXCEPT ![v] = Nil] : v \in {c \in Cached : heap[c][pages[c]].dirty}}

\* The pools after the eviction step: a full pool loses some clean page, and
\* which one is left to Go's map iteration order.  Locks are not looked at.
MadeRoom ==
    IF Cardinality(Cached) < numPages
    THEN {pages}
    ELSE {[pages EXCEPT ![v] = Nil] : v \in {c \in Cached : ~ heap[c][pages[c]].dirty}}

GetCachedPage(t, k, perm) ==
    /\ pages[k] # Nil
    /\ HandleTransaction(t, k, perm, pages[k], pages, heap)

\* readPage makes a new, clean page of what is on disk.
ReadPage(k) == [data |-> RoundTrip(disk[k]), dirty |-> FALSE]

ReadAndGetPage(t, k, perm) ==
    /\ pages[k] = Nil
    /\ disk[k] # Nil
    /\ Live(k) # Objs
    /\ \E pgs \in MadeRoom :
          HandleTransaction(t, k, perm, Fresh(k), [pgs EXCEPT ![k] = Fresh(k)],
              [heap EXCEPT ![k][Fresh(k)] = ReadPage(k)])

\* An error returned before the locks are looked at.
Fails(t, pgs) ==
    /\ pages' = pgs
    /\ handle' = [handle EXCEPT ![t] = Nil]
    /\ UNCHANGED <<lockVars, lockPage, waitPage, disk>>
    /\ heap' = Collected(heap)

\* "buffer pool is full of dirty pages"
PoolFull(t, k) == pages[k] = Nil /\ MadeRoom = {} /\ Fails(t, pages)

\* readPage fails past the end of the file, after the eviction.
ReadPageFails(t, k) ==
    /\ pages[k] = Nil
    /\ disk[k] = Nil
    /\ \E pgs \in MadeRoom : Fails(t, pgs)

GetPage(t, k, perm) ==
    /\ Running(t)
    /\ \/ GetCachedPage(t, k, perm)
       \/ ReadAndGetPage(t, k, perm)
       \/ PoolFull(t, k)
       \/ ReadPageFails(t, k)

\* The sleep is over: the loop goes on with the page object the call had found
\* before it slept.
WakeGetPage(t) ==
    /\ waiting[t] # Nil
    /\ HandleTransaction(t, waiting[t].key, waiting[t].perm, waitPage[t], pages, heap)

-----------------------------------------------------------------------------
(* The other calls                                                         *)

\* heapPage.insertTuple or deleteTuple on the page GetPage returned: the
\* caller changes its contents to c and marks it dirty, outside bp.mu.
Modify(t, c) ==
    /\ Running(t)
    /\ handle[t] # Nil
    /\ handle[t].perm = "Write"
    /\ heap' = [heap EXCEPT ![handle[t].key][handle[t].page] = [data |-> c, dirty |-> TRUE]]
    /\ UNCHANGED <<lockVars, pointers, disk>>

\* The pages whose PageLock has an object CommitTransaction writes.
Flushed(t) == {k \in Keys : lockPage[t][k] # Nil /\ heap[k][lockPage[t][k]].dirty}

CommitTransaction(t) ==
    /\ End(t)
    /\ disk' = [k \in Keys |-> IF k \in Flushed(t) THEN heap[k][lockPage[t][k]].data ELSE disk[k]]
    /\ lockPage' = [lockPage EXCEPT ![t] = [k \in Keys |-> Nil]]
    /\ handle' = [handle EXCEPT ![t] = Nil]
    /\ UNCHANGED <<pages, waitPage>>
    /\ heap' = Collected(Cleaned(Flushed(t), lockPage[t]))

AbortTransaction(t) ==
    /\ End(t)
    /\ ClearMap(t, pages)
    /\ handle' = [handle EXCEPT ![t] = Nil]
    /\ UNCHANGED <<waitPage, disk>>
    /\ heap' = Collected(heap)

\* A testing method: its callers have ended their transactions.
FlushAllPages ==
    /\ \A t \in Tids : \A k \in Keys : mapPageLocksByTid[t][k] = Nil
    /\ disk' = [k \in Keys |-> IF k \in Cached THEN heap[k][pages[k]].data ELSE disk[k]]
    /\ heap' = Cleaned(Cached, pages)
    /\ UNCHANGED <<lockVars, pointers>>

-----------------------------------------------------------------------------
Init ==
    /\ LockInit
    /\ pages = [k \in Keys |-> Nil]
    /\ lockPage = [t \in Tids |-> [k \in Keys |-> Nil]]
    /\ waitPage = [t \in Tids |-> Nil]
    /\ handle = [t \in Tids |-> Nil]
    /\ heap = [k \in Keys |-> [o \in Objs |-> Nil]]
    /\ disk = DiskInit

\* What every client of the pool shares: everything but the changes it makes.
PoolNext ==
    \/ \E t \in Tids, k \in Keys, perm \in Perms : GetPage(t, k, perm)
    \/ \E t \in Tids : WakeGetPage(t)
    \/ \E t \in Tids : CommitTransaction(t)
    \/ \E t \in Tids : AbortTransaction(t)
    \/ FlushAllPages

Next == PoolNext \/ \E t \in Tids, c \in Content : Modify(t, c)

Spec == Init /\ [][Next]_vars

-----------------------------------------------------------------------------
(* What the pool must guarantee                                            *)

\* The types of the variables; no pointer dangles, and the objects of locks and
\* of sleeping calls are there exactly as long as the locks and the calls.
TypeOK ==
    /\ LockTypeOK
    /\ pages \in [Keys -> Objs \cup {Nil}]
    /\ lockPage \in [Tids -> [Keys -> Objs \cup {Nil}]]
    /\ waitPage \in [Tids -> Objs \cup {Nil}]
    /\ handle \in [Tids -> Handle \cup {Nil}]
    /\ heap \in [Keys -> [Objs -> Page \cup {Nil}]]
    /\ disk \in [Keys -> Content \cup {Nil}]
    /\ \A k \in Keys : \A o \in Live(k) : heap[k][o] # Nil
    /\ \A t \in Tids : /\ waitPage[t] = Nil <=> waiting[t] = Nil
                       /\ \A k \in Keys : lockPage[t][k] = Nil <=> mapPageLocksByTid[t][k] = Nil

\* The pool never has more than numPages pages, whatever mix of loads,
\* evictions, failed reads and rollbacks it has seen.
PoolBounded == Cardinality(Cached) <= numPages

\* NO STEAL: a dirty page leaves the pool only when the transaction that has
\* it locked for writing is rolled back.
DirtyLeavesByRollback ==
    [][\A k \in Cached :
          (heap[k][pages[k]].dirty /\ pages'[k] # pages[k]) =>
              \E t \in Tids : mapPageLocksByTid[t][k] = "Write" /\ mapPageLocksByTid'[t][k] = Nil]_vars
=============================================================================
