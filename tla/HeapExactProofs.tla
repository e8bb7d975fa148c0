--------------------------- MODULE HeapExactProofs ---------------------------
(***************************************************************************)
(* The files have what committed transactions put there, and a scan        *)
(* returns every tuple once, for any number of transactions, files, pages  *)
(* and tuples, as long as no page that a transaction uses leaves the pool. *)
(*                                                                         *)
(* The argument is about the tuples of a page in its file, On(k), and in   *)
(* the pool, In(k): each step of the buffer pool and of the heap files     *)
(* leaves them alone, or takes In(k) back to On(k), or On(k) on to In(k),  *)
(* or adds or removes one tuple of In(k).                                  *)
(***************************************************************************)
EXTENDS HeapFileProofs

-----------------------------------------------------------------------------
(* The invariant                                                           *)

\* t has page k locked, for writing.
Locked(t, k) == lockPage[t][k] # Nil
Writes(t, k) == mapPageLocksByTid[t][k] = "Write"

\* The tuples of page k in its file, and in the pool if it is there.  (A page
\* in the pool whose file is gone has none.)
On(k) == IF disk[k] = Nil THEN {} ELSE TuplesOf(disk[k])
In(k) == IF pages[k] = Nil \/ disk[k] = Nil THEN On(k) ELSE TuplesOf(heap[k][pages[k]].data)
Dirty(k) == pages[k] # Nil /\ disk[k] # Nil /\ heap[k][pages[k]].dirty

\* What is in the pool and not in the file, or the other way round, is the
\* work of the transaction that has the page locked for writing.
ChangesKnown ==
    \A k \in Keys :
        /\ ~ Dirty(k) => In(k) = On(k)
        /\ Dirty(k) => \E t \in Tids : Writes(t, k)
        /\ \A t \in Tids : Writes(t, k) => /\ In(k) \ On(k) \subseteq added[t]
                                           /\ On(k) \ In(k) \subseteq removed[t]

\* And what a transaction under way has added is in the pool, and what it has
\* removed is not, nor in the files but on pages it has locked for writing.
ChangesMade ==
    \A t \in Tids \ ended :
        /\ \A x \in added[t] \ removed[t] : \E k \in Keys : Writes(t, k) /\ x \in In(k)
        /\ \A k \in Keys : \A x \in removed[t] : x \notin In(k) /\ (x \in On(k) => Writes(t, k))

\* No tuple is on two pages.
PlacesApart ==
    \A k, l \in Keys : k # l => In(k) \cap In(l) = {} /\ On(k) \cap On(l) = {}

\* Nor in two slots of one page.
SlotsApart ==
    \A k \in Keys : /\ disk[k] # Nil => Injective(disk[k])
                    /\ pages[k] # Nil => Injective(heap[k][pages[k]].data)

FilesCommitted == committed = UNION {On(k) : k \in Keys}

\* A tuple that has not been inserted yet is nowhere, and only one insert has it.
Inserts(t, x) == stmt[t] # Nil /\ stmt[t].kind = "insert" /\ stmt[t].tup = x
Pending(x) == x \in unused \/ \E t \in Tids : Inserts(t, x)

PendingNowhere ==
    \A x \in Tuples : Pending(x) => /\ \A k \in Keys : x \notin In(k) /\ x \notin On(k)
                         /\ \A t \in Tids : x \notin added[t] /\ x \notin removed[t]
PendingOnce ==
    \A x \in Tuples : \A t \in Tids : Inserts(t, x) =>
        x \notin unused /\ \A u \in Tids : Inserts(u, x) => u = t

\* The page a caller has is the page of its lock.
HandlesPool == \A t \in Tids : handle[t] # Nil => handle[t].page = lockPage[t][handle[t].key]

\* The pages of the pool are pages of the files.
PoolOnDisk == \A k \in Keys : pages[k] # Nil => disk[k] # Nil

\* What a scan has seen is still there, unless the transaction has deleted it.
ScanOK(t) ==
    LET c == stmt[t]
    IN  /\ c.j > 0 => Locked(t, PageOf(c))
        /\ \A x \in c.seen : x \in removed[t] \/ \E k \in Keys : Locked(t, k) /\ x \in TuplesOf(Seen(t, k))
        /\ (c.kind = "delete" \/ (c.ph = "row" /\ c.tup # Nil)) => Seen(t, PageOf(c))[c.j - 1] = c.tup
        /\ \A k \in Keys : (k.file = c.file /\ Locked(t, k)) =>
              \A s \in Used(Seen(t, k)) :
                  Seen(t, k)[s] \in c.seen <=>
                      \/ k.pageNo < c.i
                      \/ k.pageNo = c.i /\ s < c.j

Scanning(t) == stmt[t] # Nil /\ stmt[t].kind # "insert"

TuplesOK == ChangesKnown /\ ChangesMade /\ PlacesApart /\ FilesCommitted

\* What holds of the tuples in the pool and in the files, whichever objects the
\* locks refer to.
PagesOK == SlotsApart /\ TuplesOK /\ PendingNowhere /\ PendingOnce

Exact ==
    /\ InPool
    /\ PoolOnDisk
    /\ HandlesPool
    /\ PagesOK
    /\ \A t \in Tids : Scanning(t) => ScanOK(t)

ExactInv == HeapInv /\ (detached \/ Exact)

-----------------------------------------------------------------------------
(* The tuples of the pages                                                 *)

\* A tuple of one page in its file is not on another page in the pool.
LEMMA FileAndPoolApart ==
    ASSUME LockTypeOK, TuplesOK, NEW k \in Keys, NEW l \in Keys, k # l
    PROVE  On(k) \cap In(l) = {}
<1> SUFFICES ASSUME NEW x \in On(k), x \in In(l) PROVE FALSE
  OBVIOUS
<1>1. x \notin In(k)
  BY DEF TuplesOK, PlacesApart
<1>2. Dirty(k)
  BY <1>1 DEF TuplesOK, ChangesKnown
<1>3. PICK t \in Tids : Writes(t, k)
  BY <1>2 DEF TuplesOK, ChangesKnown
<1>4. x \in removed[t]
  BY <1>1, <1>3 DEF TuplesOK, ChangesKnown
<1>5. t \notin ended
  BY <1>3, NilAssumption DEF Writes, LockTypeOK, Perms
<1> QED
  BY <1>4, <1>5 DEF TuplesOK, ChangesMade

\* Two transactions do not have a page locked for writing.
LEMMA OneWriter ==
    ASSUME LockCompatible, NEW t \in Tids, NEW u \in Tids, NEW k \in Keys,
           Writes(t, k), mapPageLocksByTid[u][k] # Nil
    PROVE  u = t
  BY NilAssumption DEF LockCompatible, Writes, Perms

LEMMA OneWriterNext ==
    ASSUME LockCompatible', NEW t \in Tids, NEW u \in Tids, NEW k \in Keys,
           Writes(t, k)', mapPageLocksByTid'[u][k] # Nil
    PROVE  u = t
  BY NilAssumption DEF LockCompatible, Writes, Perms

\* A step that changes no tuples, while t may get a lock.
LEMMA TuplesKept ==
    ASSUME TuplesOK, LockCompatible', NEW t \in Tids,
           \A k \in Keys : In(k)' = In(k) /\ On(k)' = On(k) /\ (Dirty(k)' <=> Dirty(k)),
           \A u \in Tids, k \in Keys : Writes(u, k) => Writes(u, k)',
           \A u \in Tids \ {t}, k \in Keys : Writes(u, k)' => Writes(u, k),
           UNCHANGED <<added, removed, committed, ended>>
    PROVE  TuplesOK'
<1>1. ASSUME NEW k \in Keys
      PROVE  /\ ~ Dirty(k)' => In(k)' = On(k)'
             /\ Dirty(k)' => \E u \in Tids : Writes(u, k)'
             /\ \A u \in Tids : Writes(u, k)' => /\ In(k)' \ On(k)' \subseteq added'[u]
                                                 /\ On(k)' \ In(k)' \subseteq removed'[u]
  <2>1. ~ Dirty(k)' => In(k)' = On(k)'
    BY DEF TuplesOK, ChangesKnown
  <2>2. Dirty(k)' => \E u \in Tids : Writes(u, k)'
    BY DEF TuplesOK, ChangesKnown
  <2>3. ASSUME NEW u \in Tids, Writes(u, k)'
        PROVE  /\ In(k)' \ On(k)' \subseteq added'[u]
               /\ On(k)' \ In(k)' \subseteq removed'[u]
    <3>1. CASE Writes(u, k)
      BY <3>1 DEF TuplesOK, ChangesKnown
    <3>2. CASE ~ Writes(u, k)
      <4>1. \A v \in Tids : ~ Writes(v, k)
        <5>1. ASSUME NEW v \in Tids, Writes(v, k) PROVE FALSE
          <6>1. Writes(v, k)'
            BY <5>1
          <6>2. mapPageLocksByTid'[v][k] # Nil
            BY <6>1, NilAssumption DEF Writes, Perms
          <6>3. v = u
            BY <2>3, <6>2, OneWriterNext
          <6> QED
            BY <3>2, <5>1, <6>3
        <5> QED
          BY <5>1
      <4>2. ~ Dirty(k)
        BY <4>1 DEF TuplesOK, ChangesKnown
      <4>3. In(k)' = On(k)'
        BY <2>1, <4>2
      <4> QED
        BY <4>3
    <3> QED
      BY <3>1, <3>2
  <2> QED
    BY <2>1, <2>2, <2>3
<1>2. ChangesKnown'
  BY <1>1 DEF ChangesKnown
<1>3. ChangesMade'
  BY DEF TuplesOK, ChangesMade
<1>4. PlacesApart'
  BY DEF TuplesOK, PlacesApart
<1>5. FilesCommitted'
  BY DEF TuplesOK, FilesCommitted
<1> QED
  BY <1>2, <1>3, <1>4, <1>5 DEF TuplesOK

\* The pages t has locked for writing go back to what is in the files: t is
\* rolled back, or aborts.
LEMMA TuplesReverted ==
    ASSUME LockTypeOK, LockCompatible, TuplesOK, NEW t \in Tids,
           \A k \in Keys : On(k)' = On(k),
           \A k \in Keys : Writes(t, k) => In(k)' = On(k) /\ ~ Dirty(k)',
           \A k \in Keys : ~ Writes(t, k) => In(k)' = In(k) /\ (Dirty(k)' <=> Dirty(k)),
           \A k \in Keys : ~ Writes(t, k)',
           \A u \in Tids \ {t}, k \in Keys : Writes(u, k)' <=> Writes(u, k),
           \A u \in Tids \ {t} : /\ added'[u] = added[u]
                                 /\ removed'[u] = removed[u]
                                 /\ u \in ended' <=> u \in ended,
           \/ t \in ended'
           \/ added'[t] = {} /\ removed'[t] = {}
           \/ /\ added'[t] = added[t] /\ removed'[t] = removed[t] /\ t \notin ended
              /\ \A k \in Keys : ~ Writes(t, k),
           committed' = committed
    PROVE  TuplesOK'
<1>0. \A u \in Tids \ {t}, k \in Keys : Writes(u, k) => ~ Writes(t, k)
  <2>1. ASSUME NEW u \in Tids \ {t}, NEW k \in Keys, Writes(u, k), Writes(t, k) PROVE FALSE
    <3>1. mapPageLocksByTid[u][k] # Nil
      BY <2>1, NilAssumption DEF Writes, Perms
    <3> QED
      BY <2>1, <3>1, OneWriter
  <2> QED
    BY <2>1
<1>1. ASSUME NEW k \in Keys
      PROVE  /\ ~ Dirty(k)' => In(k)' = On(k)'
             /\ Dirty(k)' => \E u \in Tids : Writes(u, k)'
             /\ \A u \in Tids : Writes(u, k)' => /\ In(k)' \ On(k)' \subseteq added'[u]
                                                 /\ On(k)' \ In(k)' \subseteq removed'[u]
  <2>1. CASE Writes(t, k)
    <3>1. In(k)' = On(k)' /\ ~ Dirty(k)'
      BY <2>1
    <3> QED
      BY <3>1
  <2>2. CASE ~ Writes(t, k)
    <3>1. In(k)' = In(k) /\ On(k)' = On(k) /\ (Dirty(k)' <=> Dirty(k))
      BY <2>2
    <3>2. ~ Dirty(k) => In(k) = On(k)
      BY DEF TuplesOK, ChangesKnown
    <3>3. Dirty(k) => \E u \in Tids \ {t} : Writes(u, k)
      BY <2>2 DEF TuplesOK, ChangesKnown
    <3>4. ASSUME NEW u \in Tids, Writes(u, k)'
          PROVE  In(k) \ On(k) \subseteq added'[u] /\ On(k) \ In(k) \subseteq removed'[u]
      <4>1. u # t /\ Writes(u, k)
        BY <3>4
      <4>2. In(k) \ On(k) \subseteq added[u] /\ On(k) \ In(k) \subseteq removed[u]
        BY <4>1 DEF TuplesOK, ChangesKnown
      <4> QED
        BY <4>1, <4>2
    <3> QED
      BY <3>1, <3>2, <3>3, <3>4
  <2> QED
    BY <2>1, <2>2
<1>2. ASSUME NEW u \in Tids, u \notin ended'
      PROVE  /\ \A x \in added'[u] \ removed'[u] : \E k \in Keys : Writes(u, k)' /\ x \in In(k)'
             /\ \A k \in Keys : \A x \in removed'[u] : x \notin In(k)' /\ (x \in On(k)' => Writes(u, k)')
  <2>1. CASE u = t /\ added'[t] = {} /\ removed'[t] = {}
    BY <2>1
  <2>2. CASE u = t /\ added'[t] = added[t] /\ removed'[t] = removed[t] /\ t \notin ended
             /\ \A k \in Keys : ~ Writes(t, k)
    BY <2>2 DEF TuplesOK, ChangesMade
  <2>3. CASE u # t
    <3>1. u \notin ended /\ added'[u] = added[u] /\ removed'[u] = removed[u]
      BY <1>2, <2>3
    <3>2. ASSUME NEW x \in added[u] \ removed[u] PROVE \E k \in Keys : Writes(u, k)' /\ x \in In(k)'
      <4>1. PICK k \in Keys : Writes(u, k) /\ x \in In(k)
        BY <3>1 DEF TuplesOK, ChangesMade
      <4>2. In(k)' = In(k) /\ Writes(u, k)'
        BY <1>0, <2>3, <4>1
      <4> QED
        BY <4>1, <4>2
    <3>3. ASSUME NEW k \in Keys, NEW x \in removed[u]
          PROVE  x \notin In(k)' /\ (x \in On(k)' => Writes(u, k)')
      <4>1. x \notin In(k) /\ (x \in On(k) => Writes(u, k))
        BY <3>1 DEF TuplesOK, ChangesMade
      <4> QED
        BY <1>0, <2>3, <4>1
    <3> QED
      BY <3>1, <3>2, <3>3
  <2> QED
    BY <1>2, <2>1, <2>2, <2>3
<1>3. ASSUME NEW k \in Keys, NEW l \in Keys, k # l
      PROVE  In(k)' \cap In(l)' = {} /\ On(k)' \cap On(l)' = {}
  <2>1. In(k)' \in {In(k), On(k)} /\ In(l)' \in {In(l), On(l)} /\ On(k)' = On(k) /\ On(l)' = On(l)
    OBVIOUS
  <2>2. On(k) \cap In(l) = {} /\ On(l) \cap In(k) = {}
    BY <1>3, FileAndPoolApart
  <2>3. In(k) \cap In(l) = {} /\ On(k) \cap On(l) = {}
    BY <1>3 DEF TuplesOK, PlacesApart
  <2> QED
    BY <2>1, <2>2, <2>3
<1>4. FilesCommitted'
  BY DEF TuplesOK, FilesCommitted
<1>5. ChangesKnown'
  BY <1>1 DEF ChangesKnown
<1>6. ChangesMade'
  BY <1>2 DEF ChangesMade
<1>7. PlacesApart'
  BY <1>3 DEF PlacesApart
<1> QED
  BY <1>4, <1>5, <1>6, <1>7 DEF TuplesOK

\* The pages t has locked for writing go on to what is in the pool: t commits.
LEMMA TuplesCommitted ==
    ASSUME LockTypeOK, LockCompatible, TuplesOK, NEW t \in Tids, t \notin ended,
           \A k \in Keys : In(k)' = In(k),
           \A k \in Keys : Writes(t, k) => On(k)' = In(k) /\ ~ Dirty(k)',
           \A k \in Keys : ~ Writes(t, k) => On(k)' = On(k) /\ (Dirty(k)' <=> Dirty(k)),
           \A k \in Keys : ~ Writes(t, k)',
           \A u \in Tids \ {t}, k \in Keys : Writes(u, k)' <=> Writes(u, k),
           UNCHANGED <<added, removed>>,
           ended' = ended \cup {t},
           committed' = (committed \cup added[t]) \ removed[t]
    PROVE  TuplesOK'
<1>0. \A u \in Tids \ {t}, k \in Keys : Writes(u, k) => ~ Writes(t, k)
  <2>1. ASSUME NEW u \in Tids \ {t}, NEW k \in Keys, Writes(u, k), Writes(t, k) PROVE FALSE
    <3>1. mapPageLocksByTid[u][k] # Nil
      BY <2>1, NilAssumption DEF Writes, Perms
    <3> QED
      BY <2>1, <3>1, OneWriter
  <2> QED
    BY <2>1
<1>1. ASSUME NEW k \in Keys
      PROVE  /\ ~ Dirty(k)' => In(k)' = On(k)'
             /\ Dirty(k)' => \E u \in Tids : Writes(u, k)'
             /\ \A u \in Tids : Writes(u, k)' => /\ In(k)' \ On(k)' \subseteq added'[u]
                                                 /\ On(k)' \ In(k)' \subseteq removed'[u]
  <2>1. CASE Writes(t, k)
    <3>1. In(k)' = On(k)' /\ ~ Dirty(k)'
      BY <2>1
    <3> QED
      BY <3>1
  <2>2. CASE ~ Writes(t, k)
    <3>1. In(k)' = In(k) /\ On(k)' = On(k) /\ (Dirty(k)' <=> Dirty(k))
      BY <2>2
    <3>2. ~ Dirty(k) => In(k) = On(k)
      BY DEF TuplesOK, ChangesKnown
    <3>3. Dirty(k) => \E u \in Tids \ {t} : Writes(u, k)
      BY <2>2 DEF TuplesOK, ChangesKnown
    <3>4. ASSUME NEW u \in Tids, Writes(u, k)'
          PROVE  In(k) \ On(k) \subseteq added'[u] /\ On(k) \ In(k) \subseteq removed'[u]
      <4>1. u # t /\ Writes(u, k)
        BY <3>4
      <4>2. In(k) \ On(k) \subseteq added[u] /\ On(k) \ In(k) \subseteq removed[u]
        BY <4>1 DEF TuplesOK, ChangesKnown
      <4> QED
        BY <4>2
    <3> QED
      BY <3>1, <3>2, <3>3, <3>4
  <2> QED
    BY <2>1, <2>2
<1>2. ASSUME NEW u \in Tids, u \notin ended'
      PROVE  /\ \A x \in added[u] \ removed[u] : \E k \in Keys : Writes(u, k)' /\ x \in In(k)'
             /\ \A k \in Keys : \A x \in removed[u] : x \notin In(k)' /\ (x \in On(k)' => Writes(u, k)')
  <2>1. u # t /\ u \notin ended
    BY <1>2
  <2>2. ASSUME NEW x \in added[u] \ removed[u] PROVE \E k \in Keys : Writes(u, k)' /\ x \in In(k)'
    BY <2>1 DEF TuplesOK, ChangesMade
  <2>3. ASSUME NEW k \in Keys, NEW x \in removed[u]
        PROVE  x \notin In(k)' /\ (x \in On(k)' => Writes(u, k)')
    <3>1. x \notin In(k) /\ (x \in On(k) => Writes(u, k))
      BY <2>1 DEF TuplesOK, ChangesMade
    <3> QED
      BY <2>1, <3>1
  <2> QED
    BY <2>2, <2>3
<1>3. ASSUME NEW k \in Keys, NEW l \in Keys, k # l
      PROVE  In(k)' \cap In(l)' = {} /\ On(k)' \cap On(l)' = {}
  <2>1. On(k)' \in {In(k), On(k)} /\ On(l)' \in {In(l), On(l)} /\ In(k)' = In(k) /\ In(l)' = In(l)
    OBVIOUS
  <2>2. On(k) \cap In(l) = {} /\ On(l) \cap In(k) = {}
    BY <1>3, FileAndPoolApart
  <2>3. In(k) \cap In(l) = {} /\ On(k) \cap On(l) = {}
    BY <1>3 DEF TuplesOK, PlacesApart
  <2> QED
    BY <2>1, <2>2, <2>3
<1>4. ASSUME NEW k \in Keys, NEW x \in On(k)' PROVE x \in committed'
  <2>1. CASE Writes(t, k)
    <3>1. x \in On(k) \/ x \in added[t]
      BY <2>1 DEF TuplesOK, ChangesKnown
    <3>2. x \notin removed[t]
      BY <2>1 DEF TuplesOK, ChangesMade
    <3> QED
      BY <3>1, <3>2 DEF TuplesOK, FilesCommitted
  <2>2. CASE ~ Writes(t, k)
    <3>1. x \in On(k)
      BY <2>2
    <3>2. x \notin removed[t]
      BY <2>2, <3>1 DEF TuplesOK, ChangesMade
    <3> QED
      BY <3>1, <3>2 DEF TuplesOK, FilesCommitted
  <2> QED
    BY <2>1, <2>2
<1>5. ASSUME NEW x \in committed' PROVE \E k \in Keys : x \in On(k)'
  <2>1. x \notin removed[t]
    OBVIOUS
  <2>2. CASE x \in committed
    <3>1. PICK k \in Keys : x \in On(k)
      BY <2>2 DEF TuplesOK, FilesCommitted
    <3>2. Writes(t, k) => x \in In(k)
      BY <2>1, <3>1 DEF TuplesOK, ChangesKnown
    <3> QED
      BY <3>1, <3>2
  <2>3. CASE x \in added[t]
    <3>1. PICK k \in Keys : Writes(t, k) /\ x \in In(k)
      BY <2>1, <2>3 DEF TuplesOK, ChangesMade
    <3> QED
      BY <3>1
  <2> QED
    BY <2>2, <2>3
<1>6. FilesCommitted'
  BY <1>4, <1>5 DEF FilesCommitted
<1>7. ChangesKnown'
  BY <1>1 DEF ChangesKnown
<1>8. ChangesMade'
  BY <1>2 DEF ChangesMade
<1>9. PlacesApart'
  BY <1>3 DEF PlacesApart
<1> QED
  BY <1>6, <1>7, <1>8, <1>9 DEF TuplesOK

\* t puts the tuple x, which is nowhere, on page k.
LEMMA TupleAdded ==
    ASSUME LockTypeOK, LockCompatible, TuplesOK, NEW t \in Tids, NEW k \in Keys, Writes(t, k), NEW x,
           \A l \in Keys : x \notin In(l),
           \A u \in Tids : x \notin removed[u],
           In(k)' = In(k) \cup {x}, Dirty(k)',
           \A l \in Keys \ {k} : In(l)' = In(l) /\ (Dirty(l)' <=> Dirty(l)),
           \A l \in Keys : On(l)' = On(l),
           \A u \in Tids, l \in Keys : Writes(u, l)' <=> Writes(u, l),
           \A u \in Tids : added'[u] = IF u = t THEN added[t] \cup {x} ELSE added[u],
           UNCHANGED <<removed, committed, ended>>
    PROVE  TuplesOK'
<1>0. \A u \in Tids : Writes(u, k) => u = t
  <2>1. ASSUME NEW u \in Tids, Writes(u, k) PROVE u = t
    <3>1. mapPageLocksByTid[u][k] # Nil
      BY <2>1, NilAssumption DEF Writes, Perms
    <3> QED
      BY <3>1, OneWriter
  <2> QED
    BY <2>1
<1>1. ASSUME NEW l \in Keys
      PROVE  /\ ~ Dirty(l)' => In(l)' = On(l)'
             /\ Dirty(l)' => \E u \in Tids : Writes(u, l)'
             /\ \A u \in Tids : Writes(u, l)' => /\ In(l)' \ On(l)' \subseteq added'[u]
                                                 /\ On(l)' \ In(l)' \subseteq removed'[u]
  <2>1. CASE l = k
    <3>1. In(k) \ On(k) \subseteq added[t] /\ On(k) \ In(k) \subseteq removed[t]
      BY DEF TuplesOK, ChangesKnown
    <3> QED
      BY <1>0, <2>1, <3>1
  <2>2. CASE l # k
    BY <2>2 DEF TuplesOK, ChangesKnown
  <2> QED
    BY <2>1, <2>2
<1>2. ASSUME NEW u \in Tids, u \notin ended'
      PROVE  /\ \A y \in added'[u] \ removed'[u] : \E l \in Keys : Writes(u, l)' /\ y \in In(l)'
             /\ \A l \in Keys : \A y \in removed'[u] : y \notin In(l)' /\ (y \in On(l)' => Writes(u, l)')
  <2>1. u \notin ended
    BY <1>2
  <2>2. ASSUME NEW y \in added'[u] \ removed'[u] PROVE \E l \in Keys : Writes(u, l)' /\ y \in In(l)'
    <3>1. CASE u = t /\ y = x
      BY <3>1
    <3>2. CASE y \in added[u]
      <4>1. PICK l \in Keys : Writes(u, l) /\ y \in In(l)
        BY <2>1, <3>2 DEF TuplesOK, ChangesMade
      <4>2. y \in In(l)'
        BY <4>1
      <4> QED
        BY <4>1, <4>2
    <3> QED
      BY <3>1, <3>2
  <2>3. ASSUME NEW l \in Keys, NEW y \in removed[u]
        PROVE  y \notin In(l)' /\ (y \in On(l)' => Writes(u, l)')
    <3>1. y \notin In(l) /\ (y \in On(l) => Writes(u, l))
      BY <2>1 DEF TuplesOK, ChangesMade
    <3>2. y # x
      OBVIOUS
    <3> QED
      BY <3>1, <3>2
  <2> QED
    BY <2>2, <2>3
<1>3. ASSUME NEW l \in Keys, NEW m \in Keys, l # m
      PROVE  In(l)' \cap In(m)' = {} /\ On(l)' \cap On(m)' = {}
  <2>1. In(l) \cap In(m) = {} /\ On(l) \cap On(m) = {}
    BY <1>3 DEF TuplesOK, PlacesApart
  <2>2. x \notin In(l) /\ x \notin In(m)
    OBVIOUS
  <2>3. In(l)' = (IF l = k THEN In(l) \cup {x} ELSE In(l)) /\ In(m)' = (IF m = k THEN In(m) \cup {x} ELSE In(m))
    OBVIOUS
  <2> QED
    BY <1>3, <2>1, <2>2, <2>3
<1>4. FilesCommitted'
  BY DEF TuplesOK, FilesCommitted
<1>5. ChangesKnown'
  BY <1>1 DEF ChangesKnown
<1>6. ChangesMade'
  BY <1>2 DEF ChangesMade
<1>7. PlacesApart'
  BY <1>3 DEF PlacesApart
<1> QED
  BY <1>4, <1>5, <1>6, <1>7 DEF TuplesOK

\* t takes the tuple x off page k.
LEMMA TupleRemoved ==
    ASSUME LockTypeOK, LockCompatible, TuplesOK, NEW t \in Tids, NEW k \in Keys, Writes(t, k),
           NEW x \in In(k),
           In(k)' = In(k) \ {x}, Dirty(k)',
           \A l \in Keys \ {k} : In(l)' = In(l) /\ (Dirty(l)' <=> Dirty(l)),
           \A l \in Keys : On(l)' = On(l),
           \A u \in Tids, l \in Keys : Writes(u, l)' <=> Writes(u, l),
           \A u \in Tids : removed'[u] = IF u = t THEN removed[t] \cup {x} ELSE removed[u],
           UNCHANGED <<added, committed, ended>>
    PROVE  TuplesOK'
<1>0. \A u \in Tids : Writes(u, k) => u = t
  <2>1. ASSUME NEW u \in Tids, Writes(u, k) PROVE u = t
    <3>1. mapPageLocksByTid[u][k] # Nil
      BY <2>1, NilAssumption DEF Writes, Perms
    <3> QED
      BY <3>1, OneWriter
  <2> QED
    BY <2>1
<1>1. ASSUME NEW l \in Keys
      PROVE  /\ ~ Dirty(l)' => In(l)' = On(l)'
             /\ Dirty(l)' => \E u \in Tids : Writes(u, l)'
             /\ \A u \in Tids : Writes(u, l)' => /\ In(l)' \ On(l)' \subseteq added'[u]
                                                 /\ On(l)' \ In(l)' \subseteq removed'[u]
  <2>1. CASE l = k
    <3>1. In(k) \ On(k) \subseteq added[t] /\ On(k) \ In(k) \subseteq removed[t]
      BY DEF TuplesOK, ChangesKnown
    <3> QED
      BY <1>0, <2>1, <3>1
  <2>2. CASE l # k
    <3>1. /\ In(l)' = In(l) /\ On(l)' = On(l) /\ (Dirty(l)' <=> Dirty(l))
          /\ \A u \in Tids : removed[u] \subseteq removed'[u]
      BY <2>2
    <3>2. /\ ~ Dirty(l) => In(l) = On(l)
          /\ Dirty(l) => \E u \in Tids : Writes(u, l)
          /\ \A u \in Tids : Writes(u, l) => /\ In(l) \ On(l) \subseteq added[u]
                                             /\ On(l) \ In(l) \subseteq removed[u]
      BY DEF TuplesOK, ChangesKnown
    <3> QED
      BY <3>1, <3>2
  <2> QED
    BY <2>1, <2>2
<1>2. ASSUME NEW u \in Tids, u \notin ended'
      PROVE  /\ \A y \in added'[u] \ removed'[u] : \E l \in Keys : Writes(u, l)' /\ y \in In(l)'
             /\ \A l \in Keys : \A y \in removed'[u] : y \notin In(l)' /\ (y \in On(l)' => Writes(u, l)')
  <2>1. u \notin ended
    BY <1>2
  <2>2. ASSUME NEW y \in added'[u] \ removed'[u] PROVE \E l \in Keys : Writes(u, l)' /\ y \in In(l)'
    <3>1. y \in added[u] \ removed[u] /\ (u = t => y # x)
      OBVIOUS
    <3>2. PICK l \in Keys : Writes(u, l) /\ y \in In(l)
      BY <2>1, <3>1 DEF TuplesOK, ChangesMade
    <3>3. l = k => u = t
      BY <1>0, <3>2
    <3>4. y \in In(l)'
      BY <3>1, <3>2, <3>3
    <3> QED
      BY <3>2, <3>4
  <2>3. ASSUME NEW l \in Keys, NEW y \in removed'[u]
        PROVE  y \notin In(l)' /\ (y \in On(l)' => Writes(u, l)')
    <3>1. CASE y \in removed[u]
      <4>1. y \notin In(l) /\ (y \in On(l) => Writes(u, l))
        BY <2>1, <3>1 DEF TuplesOK, ChangesMade
      <4> QED
        BY <4>1
    <3>2. CASE u = t /\ y = x
      <4>1. CASE l = k
        BY <3>2, <4>1
      <4>2. CASE l # k
        <5>1. x \notin In(l)
          BY <4>2 DEF TuplesOK, PlacesApart
        <5>2. x \notin On(l)
          BY <4>2, FileAndPoolApart
        <5> QED
          BY <3>2, <4>2, <5>1, <5>2
      <4> QED
        BY <4>1, <4>2
    <3> QED
      BY <3>1, <3>2
  <2> QED
    BY <2>2, <2>3
<1>3. PlacesApart'
  <2>1. \A l \in Keys : In(l)' \subseteq In(l)
    OBVIOUS
  <2> QED
    BY <2>1 DEF TuplesOK, PlacesApart
<1>4. FilesCommitted'
  BY DEF TuplesOK, FilesCommitted
<1>5. ChangesKnown'
  BY <1>1 DEF ChangesKnown
<1>6. ChangesMade'
  BY <1>2 DEF ChangesMade
<1> QED
  BY <1>3, <1>4, <1>5, <1>6 DEF TuplesOK

-----------------------------------------------------------------------------
(* The pages in the pool                                                   *)

\* The contents of a page, on disk and in the pool, are slots.
LEMMA PagesAreSlots ==
    ASSUME TypeOK, NEW k \in Keys
    PROVE  /\ disk[k] # Nil => disk[k] \in Slots
           /\ pages[k] # Nil => heap[k][pages[k]] \in Page /\ heap[k][pages[k]].data \in Slots
           /\ \A t \in Tids : Locked(t, k) => Seen(t, k) \in Slots
<1>1. disk[k] # Nil => disk[k] \in Slots
  BY HeapContentAssumption DEF TypeOK
<1>2. ASSUME NEW o \in Live(k) PROVE heap[k][o] \in Page /\ heap[k][o].data \in Slots
  <2>1. heap[k][o] \in Page
    BY DEF TypeOK, Live
  <2> QED
    BY <2>1, HeapContentAssumption DEF Page
<1>3. pages[k] # Nil => pages[k] \in Live(k)
  BY PointersReach DEF Reached
<1>4. \A t \in Tids : Locked(t, k) => lockPage[t][k] \in Live(k)
  BY PointersReach DEF Reached, Locked
<1> QED
  BY <1>1, <1>2, <1>3, <1>4 DEF Seen

\* A page that stays in the pool, is evicted clean, or is read has the tuples
\* it had.
LEMMA PageSame ==
    ASSUME TypeOK, TypeOK', TuplesOK, SlotsApart, NEW h, heap' = Collected(h), disk' = disk,
           NEW l \in Keys, \A x \in Live(l) : h[l][x] = heap[l][x],
           \/ pages'[l] = pages[l]
           \/ pages'[l] = Nil /\ ~ Dirty(l)
           \/ pages[l] = Nil /\ disk[l] # Nil /\ pages'[l] # Nil /\ h[l][pages'[l]] = ReadPage(l)
    PROVE  /\ In(l)' = In(l) /\ (Dirty(l)' <=> Dirty(l))
           /\ pages'[l] # Nil => Injective(heap'[l][pages'[l]].data)
<1>0. On(l)' = On(l)
  BY DEF On
<1>1. pages'[l] # Nil => heap'[l][pages'[l]] = h[l][pages'[l]]
  <2>1. pages'[l] # Nil => pages'[l] \in Live(l)'
    BY PointersReachNext DEF Reached
  <2> QED
    BY <2>1, CollectedKeeps
<1>2. CASE pages'[l] = pages[l]
  <2>1. pages[l] # Nil => pages[l] \in Live(l)
    BY PointersReach DEF Reached
  <2>2. pages[l] # Nil => heap'[l][pages'[l]] = heap[l][pages[l]]
    BY <1>1, <1>2, <2>1
  <2>3. In(l)' = In(l)
    BY <1>0, <1>2, <2>2 DEF In
  <2>4. Dirty(l)' <=> Dirty(l)
    BY <1>2, <2>2 DEF Dirty
  <2>5. pages'[l] # Nil => Injective(heap'[l][pages'[l]].data)
    BY <1>2, <2>2 DEF SlotsApart
  <2> QED
    BY <2>3, <2>4, <2>5
<1>3. CASE pages'[l] = Nil /\ ~ Dirty(l)
  <2>1. In(l)' = On(l)
    BY <1>0, <1>3 DEF In
  <2>2. In(l) = On(l)
    BY <1>3 DEF TuplesOK, ChangesKnown
  <2>3. ~ Dirty(l)'
    BY <1>3 DEF Dirty
  <2> QED
    BY <1>3, <2>1, <2>2, <2>3
<1>4. CASE pages[l] = Nil /\ disk[l] # Nil /\ pages'[l] # Nil /\ h[l][pages'[l]] = ReadPage(l)
  <2>1. heap'[l][pages'[l]] = [data |-> RoundTrip(disk[l]), dirty |-> FALSE]
    BY <1>1, <1>4 DEF ReadPage
  <2>2. heap'[l][pages'[l]].data = RoundTrip(disk[l]) /\ heap'[l][pages'[l]].dirty = FALSE
    BY <2>1
  <2>3. disk[l] \in Slots /\ RoundTrip(disk[l]) = Dense(disk[l])
    BY <1>4, PagesAreSlots, HeapContentAssumption
  <2>4. TuplesOf(Dense(disk[l])) = TuplesOf(disk[l]) /\ Injective(Dense(disk[l]))
    BY <1>4, <2>3, DenseKeeps DEF SlotsApart
  <2>5. In(l)' = TuplesOf(heap'[l][pages'[l]].data)
    BY <1>4 DEF In
  <2>6. In(l) = TuplesOf(disk[l])
    BY <1>4 DEF In, On
  <2>7. ~ Dirty(l) /\ ~ Dirty(l)'
    BY <1>4, <2>2 DEF Dirty
  <2> QED
    BY <2>2, <2>3, <2>4, <2>5, <2>6, <2>7
<1> QED
  BY <1>2, <1>3, <1>4

\* A page that leaves the pool has, from then on, the tuples of the file.
LEMMA PageDropped ==
    ASSUME NEW l \in Keys, disk' = disk, pages'[l] = Nil
    PROVE  In(l)' = On(l) /\ ~ Dirty(l)'
  BY DEF In, On, Dirty

\* What a transaction sees of a page it has locked stays, as long as nobody
\* changes the object.
LEMMA SeenKept ==
    ASSUME TypeOK, TypeOK', NEW h, heap' = Collected(h), NEW l \in Keys,
           \A x \in Live(l) : h[l][x].data = heap[l][x].data,
           NEW u \in Tids, lockPage'[u][l] = lockPage[u][l], Locked(u, l)
    PROVE  Seen(u, l)' = Seen(u, l)
<1>1. lockPage[u][l] \in Live(l) /\ lockPage'[u][l] \in Live(l)'
  BY PointersReach, PointersReachNext DEF Reached, Locked
<1>2. heap'[l][lockPage'[u][l]] = h[l][lockPage'[u][l]]
  BY <1>1, CollectedKeeps
<1> QED
  BY <1>1, <1>2 DEF Seen

\* What a transaction sees of a page it has locked is what the pool has.
LEMMA SeenInPool ==
    ASSUME InPool, PoolOnDisk, NEW u \in Tids, NEW l \in Keys, Locked(u, l)
    PROVE  /\ pages[l] # Nil /\ Seen(u, l) = heap[l][pages[l]].data
           /\ In(l) = TuplesOf(Seen(u, l))
  BY DEF InPool, PoolOnDisk, Locked, Seen, In

-----------------------------------------------------------------------------
(* The tuples still to be inserted                                         *)

\* Steps that start no insert.
LEMMA PendingKept ==
    ASSUME PendingNowhere, PendingOnce, unused' = unused,
           \A u \in Tids : \A x \in Tuples : Inserts(u, x)' => Inserts(u, x),
           \A x \in Tuples : Pending(x)' =>
              /\ \A k \in Keys : x \in In(k)' \/ x \in On(k)' => x \in In(k) \/ x \in On(k)
              /\ \A u \in Tids : /\ x \in added'[u] => x \in added[u]
                                 /\ x \in removed'[u] => x \in removed[u]
    PROVE  PendingNowhere' /\ PendingOnce'
<1>1. \A x \in Tuples : Pending(x)' => Pending(x)
  BY DEF Pending
<1>2. PendingNowhere'
  BY <1>1 DEF PendingNowhere
<1>3. PendingOnce'
  BY DEF PendingOnce
<1> QED
  BY <1>2, <1>3

-----------------------------------------------------------------------------
(* Scans                                                                   *)

\* The row that a scan has just returned or deleteTuple is after.
HasRow(c) == c.kind = "delete" \/ (c.ph = "row" /\ c.tup # Nil)

\* A scan that does not move, while its transaction may get a lock on the page
\* the scan is at.
LEMMA ScanKept ==
    ASSUME HeapInv, NEW u \in Tids, Scanning(u), ScanOK(u),
           stmt'[u].file = stmt[u].file, stmt'[u].i = stmt[u].i,
           stmt'[u].j = stmt[u].j, stmt'[u].seen = stmt[u].seen,
           HasRow(stmt[u])' => HasRow(stmt[u]) /\ stmt'[u].tup = stmt[u].tup,
           \A k \in Keys : Locked(u, k) => Locked(u, k)' /\ Seen(u, k)' = Seen(u, k),
           \A k \in Keys : (Locked(u, k)' /\ ~ Locked(u, k)) =>
              /\ k = PageOf(stmt[u])
              /\ \A s \in Used(Seen(u, k)') : Seen(u, k)'[s] \notin stmt[u].seen,
           removed[u] \subseteq removed'[u]
    PROVE  ScanOK(u)'
<1> DEFINE c == stmt[u]
<1>0. /\ c \in ScanCall /\ PageOf(c) \in Keys
      /\ c.j \in 0 .. SlotsPerPage /\ c.i \in Nat
      /\ HasRow(c) => c.j > 0
  <2>1. c # Nil /\ c.kind # "insert"
    BY DEF Scanning
  <2>2. c \in ScanCall /\ PageOf(c) \in Keys /\ CallInFile(c)
    BY <2>1, CallFacts, CallsPage
  <2> QED
    BY <2>2 DEF ScanCall, CallInFile, HasRow
<1>1. PageOf(stmt'[u]) = PageOf(c)
  BY DEF PageOf
<1>2. /\ c.j > 0 => Locked(u, PageOf(c))
      /\ \A x \in c.seen : x \in removed[u] \/ \E k \in Keys : Locked(u, k) /\ x \in TuplesOf(Seen(u, k))
      /\ HasRow(c) => Seen(u, PageOf(c))[c.j - 1] = c.tup
      /\ \A k \in Keys : (k.file = c.file /\ Locked(u, k)) =>
            \A s \in Used(Seen(u, k)) :
                Seen(u, k)[s] \in c.seen <=> k.pageNo < c.i \/ (k.pageNo = c.i /\ s < c.j)
  BY DEF ScanOK, HasRow
<1>3. PICK q \in Keys : q = PageOf(c)
  BY <1>0
<1>4. stmt'[u].j > 0 => Locked(u, q)'
  BY <1>0, <1>2, <1>3
<1>5. \A x \in stmt'[u].seen :
          x \in removed'[u] \/ \E k \in Keys : Locked(u, k)' /\ x \in TuplesOf(Seen(u, k)')
  <2>1. ASSUME NEW x \in c.seen
        PROVE  x \in removed'[u] \/ \E k \in Keys : Locked(u, k)' /\ x \in TuplesOf(Seen(u, k)')
    <3>1. CASE x \in removed[u]
      BY <3>1
    <3>2. ASSUME NEW k \in Keys, Locked(u, k), x \in TuplesOf(Seen(u, k))
          PROVE  \E l \in Keys : Locked(u, l)' /\ x \in TuplesOf(Seen(u, l)')
      BY <3>2
    <3> QED
      BY <1>2, <3>1, <3>2
  <2> QED
    BY <2>1
<1>6. HasRow(stmt[u])' => Seen(u, q)'[stmt'[u].j - 1] = stmt'[u].tup
  BY <1>0, <1>2, <1>3
<1>7. ASSUME NEW k \in Keys, k.file = c.file, Locked(u, k)', NEW s \in Used(Seen(u, k)')
      PROVE  Seen(u, k)'[s] \in c.seen <=> k.pageNo < c.i \/ (k.pageNo = c.i /\ s < c.j)
  <2>1. CASE Locked(u, k)
    BY <1>2, <1>7, <2>1
  <2>2. CASE ~ Locked(u, k)
    <3>1. k = q /\ Seen(u, k)'[s] \notin c.seen
      BY <1>3, <1>7, <2>2
    <3>2. c.j = 0
      <4>1. ~ (c.j > 0)
        BY <1>2, <1>3, <2>2, <3>1
      <4> QED
        BY <1>0, <4>1, SlotsAssumption
    <3>3. k.pageNo = c.i
      BY <1>3, <3>1 DEF PageOf, Key
    <3>4. s \in Nat
      BY SlotsAssumption DEF Used, SlotNos
    <3> QED
      BY <1>0, <3>1, <3>2, <3>3, <3>4
  <2> QED
    BY <2>1, <2>2
<1>8. q = PageOf(stmt[u])'
  BY <1>1, <1>3 DEF PageOf
<1>9. Seen(u, PageOf(stmt[u]))' = Seen(u, q)' /\ Locked(u, PageOf(stmt[u]))' = Locked(u, q)'
  BY <1>8 DEF Seen, Locked
<1>10. HasRow(stmt[u])' <=> (stmt'[u].kind = "delete" \/ (stmt'[u].ph = "row" /\ stmt'[u].tup # Nil))
  BY DEF HasRow
<1> HIDE DEF c
<1>11. \A k \in Keys : (k.file = stmt'[u].file /\ Locked(u, k)') =>
          \A s \in Used(Seen(u, k)') :
              Seen(u, k)'[s] \in stmt'[u].seen <=>
                  \/ k.pageNo < stmt'[u].i
                  \/ k.pageNo = stmt'[u].i /\ s < stmt'[u].j
  BY <1>7 DEF c
<1> QED
  BY <1>4, <1>5, <1>6, <1>9, <1>10, <1>11 DEF ScanOK

\* The tuples of a page that a scan has not locked yet are new to it.
LEMMA NewToScan ==
    ASSUME HeapInv, Exact, NEW u \in Tids, Scanning(u), NEW k \in Keys, ~ Locked(u, k), NEW x \in In(k)
    PROVE  x \notin stmt[u].seen
<1> SUFFICES ASSUME x \in stmt[u].seen PROVE FALSE
  OBVIOUS
<1>1. ScanOK(u)
  BY DEF Exact
<1>2. CASE x \in removed[u]
  <2>1. u \notin ended
    BY CallFacts DEF Scanning
  <2> QED
    BY <1>2, <2>1 DEF Exact, PagesOK, TuplesOK, ChangesMade
<1>3. CASE x \notin removed[u]
  <2>1. PICK l \in Keys : Locked(u, l) /\ x \in TuplesOf(Seen(u, l))
    BY <1>1, <1>3 DEF ScanOK
  <2>2. x \in In(l)
    BY <2>1, SeenInPool DEF Exact
  <2>3. l # k
    BY <2>1
  <2> QED
    BY <2>2, <2>3 DEF Exact, PagesOK, TuplesOK, PlacesApart
<1> QED
  BY <1>2, <1>3

-----------------------------------------------------------------------------
(* Steps of GetPage                                                        *)

\* What a step of GetPage does to the histories.
LEMMA AnsweredHistory ==
    ASSUME HeapInv, NEW t \in Tids, stmt[t] # Nil, stmt[t].ph \in {"get", "asleep"}, Answered(t)
    PROVE  /\ unused' = unused /\ committed' = committed
           /\ \A u \in Tids \ {t} : added'[u] = added[u] /\ removed'[u] = removed[u]
           /\ RolledBack(t) => added'[t] = {} /\ removed'[t] = {}
           /\ ~ RolledBack(t) => added' = added /\ removed' = removed
           /\ \A u \in Tids : \A x \in Tuples : Inserts(u, x)' => Inserts(u, x)
           /\ Scanning(t)' => /\ Scanning(t)
                              /\ stmt'[t].file = stmt[t].file /\ stmt'[t].i = stmt[t].i
                              /\ stmt'[t].j = stmt[t].j /\ stmt'[t].seen = stmt[t].seen
                              /\ HasRow(stmt[t])' => HasRow(stmt[t]) /\ stmt'[t].tup = stmt[t].tup
<1>0. CallsTyped
  BY DEF HeapInv
<1>1. unused' = unused /\ committed' = committed
  BY DEF Answered
<1>2. /\ \A u \in Tids \ {t} : added'[u] = added[u] /\ removed'[u] = removed[u]
      /\ RolledBack(t) => added'[t] = {} /\ removed'[t] = {}
      /\ ~ RolledBack(t) => added' = added /\ removed' = removed
  BY <1>0 DEF Answered, CallsTyped
<1>3. /\ stmt'[t] \in {[stmt[t] EXCEPT !.ph = "asleep"], [stmt[t] EXCEPT !.ph = "got"], Nil}
      /\ \A u \in Tids \ {t} : stmt'[u] = stmt[u]
  BY <1>0 DEF Answered, CallsTyped
<1>4. stmt[t] \in InsertCall \cup ScanCall
  BY <1>0 DEF CallsTyped
<1>5. stmt'[t] # Nil =>
        /\ stmt'[t].kind = stmt[t].kind /\ stmt'[t].tup = stmt[t].tup
        /\ stmt'[t].ph # "row"
        /\ stmt'[t].file = stmt[t].file /\ stmt'[t].i = stmt[t].i
        /\ stmt[t].kind # "insert" => stmt'[t].j = stmt[t].j /\ stmt'[t].seen = stmt[t].seen
  BY <1>3, <1>4 DEF InsertCall, ScanCall
<1>6. ASSUME NEW u \in Tids, NEW x \in Tuples, Inserts(u, x)' PROVE Inserts(u, x)
  <2>1. CASE u = t
    BY <1>5, <1>6, <2>1 DEF Inserts
  <2>2. CASE u # t
    BY <1>3, <1>6, <2>2 DEF Inserts
  <2> QED
    BY <2>1, <2>2
<1>7. ASSUME Scanning(t)'
      PROVE  /\ Scanning(t)
             /\ stmt'[t].file = stmt[t].file /\ stmt'[t].i = stmt[t].i
             /\ stmt'[t].j = stmt[t].j /\ stmt'[t].seen = stmt[t].seen
             /\ HasRow(stmt[t])' => HasRow(stmt[t]) /\ stmt'[t].tup = stmt[t].tup
  BY <1>5, <1>7 DEF Scanning, HasRow
<1> QED
  BY <1>1, <1>2, <1>6, <1>7

\* A scan of another transaction does not notice a step that leaves its
\* statement, its locks and the pages it has locked alone.
LEMMA OtherScans ==
    ASSUME HeapInv, Exact, NEW u \in Tids, stmt'[u] = stmt[u], lockPage'[u] = lockPage[u],
           \A k \in Keys : Locked(u, k) => Seen(u, k)' = Seen(u, k),
           removed'[u] = removed[u], Scanning(u)'
    PROVE  ScanOK(u)'
<1>1. Scanning(u)
  BY DEF Scanning
<1>2. ScanOK(u)
  BY <1>1 DEF Exact
<1>3. HasRow(stmt[u])' => HasRow(stmt[u]) /\ stmt'[u].tup = stmt[u].tup
  BY DEF HasRow
<1>4. \A k \in Keys : Locked(u, k)' <=> Locked(u, k)
  BY DEF Locked
<1> QED
  BY <1>1, <1>2, <1>3, <1>4, ScanKept

\* GetPage fails before it has looked at the locks.
LEMMA PagesFail ==
    ASSUME HeapInv, HeapInv', PagesOK, NEW t \in Tids, stmt[t] # Nil,
           stmt[t].ph \in {"get", "asleep"}, Answered(t),
           Running(t), NEW pgs \in MadeRoom \cup {pages}, Fails(t, pgs)
    PROVE  /\ PagesOK'
           /\ \A l \in Keys : In(l)' = In(l) /\ On(l)' = On(l)
           /\ stmt'[t] = Nil
<1>0. /\ TypeOK /\ TypeOK' /\ TuplesOK /\ SlotsApart /\ LockCompatible'
      /\ PendingNowhere /\ PendingOnce
  BY DEF HeapInv, PagesOK
<1>1. /\ UNCHANGED <<mapPageLocksByTid, waiting, ended, lockPage, disk>>
      /\ pages' = pgs /\ heap' = Collected(heap)
      /\ handle' = [handle EXCEPT ![t] = Nil]
  BY DEF Fails, lockVars
<1>2. ASSUME NEW l \in Keys
      PROVE  /\ In(l)' = In(l) /\ (Dirty(l)' <=> Dirty(l)) /\ On(l)' = On(l)
             /\ pages'[l] # Nil => Injective(heap'[l][pages'[l]].data)
  <2>1. pages'[l] = pages[l] \/ (pages'[l] = Nil /\ ~ Dirty(l))
    BY <1>0, <1>1, MadeRoomClean DEF Dirty
  <2>2. On(l)' = On(l)
    BY <1>1 DEF On
  <2> QED
    BY <1>0, <1>1, <2>1, <2>2, PageSame
<1>3. ~ RolledBack(t)
  BY <1>1 DEF RolledBack
<1>4. UNCHANGED <<added, removed, committed, unused>>
  BY <1>3, AnsweredHistory
<1>5. TuplesOK'
  BY <1>0, <1>1, <1>2, <1>4, TuplesKept DEF Writes
<1>6. SlotsApart'
  BY <1>0, <1>1, <1>2 DEF SlotsApart
<1>7. PendingNowhere' /\ PendingOnce'
  BY <1>0, <1>2, <1>4, AnsweredHistory, PendingKept
<1>8. stmt'[t] = Nil
  BY <1>0, <1>1 DEF Answered, Running, TypeOK, HeapInv, CallsTyped
<1> QED
  BY <1>2, <1>5, <1>6, <1>7, <1>8 DEF PagesOK

LEMMA ExactFails ==
    ASSUME HeapInv, HeapInv', Exact, InPool', PoolOnDisk', NEW t \in Tids, stmt[t] # Nil,
           stmt[t].ph \in {"get", "asleep"}, Answered(t),
           Running(t), NEW pgs \in MadeRoom \cup {pages}, Fails(t, pgs)
    PROVE  Exact'
<1>0. TypeOK /\ TypeOK' /\ HandlesPool /\ PagesOK
  BY DEF HeapInv, Exact
<1>1. /\ UNCHANGED <<mapPageLocksByTid, waiting, ended, lockPage, disk>>
      /\ pages' = pgs /\ heap' = Collected(heap)
      /\ handle' = [handle EXCEPT ![t] = Nil]
  BY DEF Fails, lockVars
<1>2. PagesOK' /\ stmt'[t] = Nil
  BY <1>0, PagesFail
<1>3. ~ RolledBack(t)
  BY <1>1 DEF RolledBack
<1>4. UNCHANGED <<added, removed, committed, unused>>
  BY <1>3, AnsweredHistory
<1>5. HandlesPool'
  BY <1>0, <1>1 DEF HandlesPool, TypeOK
<1>6. \A u \in Tids \ {t} : stmt'[u] = stmt[u]
  BY DEF Answered, HeapInv, CallsTyped
<1>7. ASSUME NEW u \in Tids, Scanning(u)' PROVE ScanOK(u)'
  <2>1. u # t
    BY <1>2, <1>7 DEF Scanning
  <2>2. \A k \in Keys : Locked(u, k) => Seen(u, k)' = Seen(u, k)
    BY <1>0, <1>1, SeenKept
  <2> QED
    BY <1>1, <1>4, <1>6, <1>7, <2>1, <2>2, OtherScans
<1> QED
  BY <1>2, <1>5, <1>7 DEF Exact

\* What a page has after the step, if the pool did not drop it.
LEMMA FoundPages ==
    ASSUME HeapInv, HeapInv', PagesOK, NEW t \in Tids, NEW k \in Keys, NEW perm \in Perms,
           NEW o, NEW pgs, NEW h, Found(k, o, pgs, h), HandleTransaction(t, k, perm, o, pgs, h),
           NEW l \in Keys, pages'[l] = pgs[l]
    PROVE  /\ In(l)' = In(l) /\ (Dirty(l)' <=> Dirty(l))
           /\ pages'[l] # Nil => Injective(heap'[l][pages'[l]].data)
<1>0. TypeOK /\ TypeOK' /\ TuplesOK /\ SlotsApart
  BY DEF HeapInv, PagesOK
<1>1. heap' = Collected(h) /\ disk' = disk
  BY <1>0, HandleEffect
<1>2. \A x \in Live(l) : h[l][x] = heap[l][x]
  BY DEF Found
<1>3. \/ pages'[l] = pages[l]
      \/ pages'[l] = Nil /\ ~ Dirty(l)
      \/ pages[l] = Nil /\ disk[l] # Nil /\ pages'[l] # Nil /\ h[l][pages'[l]] = ReadPage(l)
  <2>1. CASE l # k
    BY <2>1 DEF Found, Dirty
  <2>2. CASE l = k
    BY <2>2, PageNilAssumption DEF Found
  <2> QED
    BY <2>1, <2>2
<1> QED
  BY <1>0, <1>1, <1>2, <1>3, PageSame

\* As long as the pool has the pages of the locks, the page that is found is
\* the pool's.
LEMMA FoundInPool ==
    ASSUME InPool, NEW k \in Keys, NEW o, NEW pgs, NEW h, Found(k, o, pgs, h)
    PROVE  /\ o = pgs[k]
           /\ pages[k] # Nil => o = pages[k]
<1>1. ASSUME NEW u \in Tids, Points(waiting[u], k) PROVE waitPage[u] = pages[k]
  BY <1>1 DEF InPool, Points
<1> QED
  BY <1>1 DEF Found

\* The tuples to be inserted do not notice a step of GetPage.
LEMMA PendingGet ==
    ASSUME HeapInv, PagesOK, NEW t \in Tids, stmt[t] # Nil, stmt[t].ph \in {"get", "asleep"}, Answered(t),
           \A l \in Keys : In(l)' \in {In(l), On(l)} /\ On(l)' = On(l)
    PROVE  PendingNowhere' /\ PendingOnce'
<1>1. \A u \in Tids : \A x : /\ x \in added'[u] => x \in added[u]
                             /\ x \in removed'[u] => x \in removed[u]
  BY AnsweredHistory
<1>2. \A u \in Tids : \A x \in Tuples : Inserts(u, x)' => Inserts(u, x)
  BY AnsweredHistory
<1>3. unused' = unused
  BY AnsweredHistory
<1>4. \A l \in Keys : \A x : x \in In(l)' \/ x \in On(l)' => x \in In(l) \/ x \in On(l)
  OBVIOUS
<1> QED
  BY <1>1, <1>2, <1>3, <1>4, PendingKept DEF PagesOK

\* Nor do the others' handles and scans, whatever its outcome.
LEMMA HandleKeepsOthers ==
    ASSUME HeapInv, HeapInv', Exact, NEW t \in Tids, stmt[t] # Nil,
           stmt[t].ph \in {"get", "asleep"}, Answered(t),
           NEW k \in Keys, NEW perm \in Perms, NEW o, NEW pgs, NEW h,
           Found(k, o, pgs, h), HandleTransaction(t, k, perm, o, pgs, h)
    PROVE  /\ \A u \in Tids \ {t} : Scanning(u)' => ScanOK(u)'
           /\ \A u \in Tids \ {t} : handle'[u] # Nil =>
                 handle'[u].page = lockPage'[u][handle'[u].key]
<1>0. TypeOK /\ TypeOK' /\ HandlesPool
  BY DEF HeapInv, Exact
<1>1. heap' = Collected(h) /\ \A l \in Keys : \A x \in Live(l) : h[l][x] = heap[l][x]
  BY <1>0, HandleEffect DEF Found
<1>2. \A u \in Tids \ {t} : lockPage'[u] = lockPage[u] /\ handle'[u] = handle[u]
  BY <1>0, HandleEffect
<1>3. \A u \in Tids \ {t} : handle'[u] # Nil => handle'[u].page = lockPage'[u][handle'[u].key]
  BY <1>0, <1>2 DEF HandlesPool
<1>4. ASSUME NEW u \in Tids \ {t}, Scanning(u)' PROVE ScanOK(u)'
  <2>1. \A l \in Keys : Locked(u, l) => Seen(u, l)' = Seen(u, l)
    BY <1>0, <1>1, <1>2, SeenKept
  <2>2. removed'[u] = removed[u]
    BY AnsweredHistory
  <2>3. stmt'[u] = stmt[u]
    BY DEF Answered, HeapInv, CallsTyped
  <2> QED
    BY <1>2, <1>4, <2>1, <2>2, <2>3, OtherScans
<1> QED
  BY <1>3, <1>4

\* t is rolled back.
LEMMA PagesUndone ==
    ASSUME HeapInv, HeapInv', PagesOK, NEW t \in Tids, stmt[t] # Nil,
           stmt[t].ph \in {"get", "asleep"}, Answered(t),
           NEW k \in Keys, NEW perm \in Perms, NEW o, NEW pgs, NEW h,
           Found(k, o, pgs, h), HandleTransaction(t, k, perm, o, pgs, h),
           Undone(t), ClearMap(t, pgs)
    PROVE  /\ PagesOK'
           /\ \A l \in Keys : In(l)' \in {In(l), On(l)} /\ On(l)' = On(l)
           /\ stmt'[t] = Nil
<1>0. TypeOK /\ TypeOK' /\ LockTypeOK /\ TuplesOK /\ SlotsApart /\ LockCompatible
  BY DEF HeapInv, PagesOK, TypeOK
<1>1. disk' = disk /\ ended' = ended /\ t \notin ended
  BY <1>0, HandleEffect, CallFacts
<1>2. \A l \in Keys : On(l)' = On(l)
  BY <1>1 DEF On
<1>3. ASSUME NEW l \in Keys, Writes(t, l)
      PROVE  In(l)' = On(l) /\ ~ Dirty(l)' /\ pages'[l] = Nil
  <2>1. pages'[l] = Nil
    BY <1>3 DEF ClearMap, Writes
  <2> QED
    BY <1>1, <2>1, PageDropped
<1>4. ASSUME NEW l \in Keys, ~ Writes(t, l)
      PROVE  /\ In(l)' = In(l) /\ (Dirty(l)' <=> Dirty(l))
             /\ pages'[l] # Nil => Injective(heap'[l][pages'[l]].data)
  <2>1. pages'[l] = pgs[l]
    BY <1>4 DEF ClearMap, Writes
  <2> QED
    BY <2>1, FoundPages
<1>5. \A l \in Keys : ~ Writes(t, l)'
  BY NilAssumption DEF Undone, Writes, Perms
<1>6. \A u \in Tids \ {t}, l \in Keys : Writes(u, l)' <=> Writes(u, l)
  BY <1>0, HandleEffect DEF Writes
<1>7. \/ added'[t] = {} /\ removed'[t] = {}
      \/ /\ added'[t] = added[t] /\ removed'[t] = removed[t] /\ t \notin ended
         /\ \A l \in Keys : ~ Writes(t, l)
  <2>1. CASE RolledBack(t)
    BY <2>1, AnsweredHistory
  <2>2. CASE ~ RolledBack(t)
    <3>1. \A l \in Keys : mapPageLocksByTid[t][l] = Nil
      BY <1>1, <2>2 DEF RolledBack, Undone
    <3>2. \A l \in Keys : ~ Writes(t, l)
      BY <3>1, NilAssumption DEF Writes, Perms
    <3> QED
      BY <1>1, <2>2, <3>2, AnsweredHistory
  <2> QED
    BY <2>1, <2>2
<1>8. TuplesOK'
  <2>1. \A u \in Tids \ {t} : /\ added'[u] = added[u]
                              /\ removed'[u] = removed[u]
                              /\ u \in ended' <=> u \in ended
    BY <1>1, AnsweredHistory
  <2>2. committed' = committed
    BY AnsweredHistory
  <2> QED
    BY <1>0, <1>2, <1>3, <1>4, <1>5, <1>6, <1>7, <2>1, <2>2, TuplesReverted
<1>9. SlotsApart'
  BY <1>0, <1>1, <1>3, <1>4 DEF SlotsApart
<1>10. \A l \in Keys : In(l)' \in {In(l), On(l)} /\ On(l)' = On(l)
  BY <1>2, <1>3, <1>4
<1>11. PendingNowhere' /\ PendingOnce'
  BY <1>10, PendingGet
<1>12. stmt'[t] = Nil
  BY DEF Undone, Answered, HeapInv, CallsTyped
<1> QED
  BY <1>8, <1>9, <1>10, <1>11, <1>12 DEF PagesOK

LEMMA ExactUndone ==
    ASSUME HeapInv, HeapInv', Exact, InPool', PoolOnDisk', NEW t \in Tids, stmt[t] # Nil,
           stmt[t].ph \in {"get", "asleep"}, Answered(t),
           NEW k \in Keys, NEW perm \in Perms, NEW o, NEW pgs, NEW h,
           Found(k, o, pgs, h), HandleTransaction(t, k, perm, o, pgs, h),
           Undone(t), ClearMap(t, pgs)
    PROVE  Exact'
<1>1. PagesOK' /\ stmt'[t] = Nil
  BY PagesUndone DEF Exact
<1>2. handle'[t] = Nil
  BY DEF Undone
<1>3. HandlesPool'
  BY <1>2, HandleKeepsOthers DEF HandlesPool
<1>4. ASSUME NEW u \in Tids, Scanning(u)' PROVE ScanOK(u)'
  <2>1. u # t
    BY <1>1, <1>4 DEF Scanning
  <2> QED
    BY <1>4, <2>1, HandleKeepsOthers
<1> QED
  BY <1>1, <1>3, <1>4 DEF Exact

\* t has its page, or sleeps.
LEMMA PagesServed ==
    ASSUME HeapInv, HeapInv', PagesOK, NEW t \in Tids, stmt[t] # Nil,
           stmt[t].ph \in {"get", "asleep"}, Answered(t),
           NEW k \in Keys, k = PageOf(stmt[t]), NEW perm \in Perms, NEW o, NEW pgs, NEW h,
           Found(k, o, pgs, h), HandleTransaction(t, k, perm, o, pgs, h),
           Granted(t, k, perm, o) \/ Slept(t, k, perm, o), pages' = pgs
    PROVE  /\ PagesOK'
           /\ \A l \in Keys : In(l)' = In(l) /\ On(l)' = On(l) /\ (Dirty(l)' <=> Dirty(l))
           /\ UNCHANGED <<added, removed, committed>>
           /\ \A u \in Tids, l \in Keys : Writes(u, l) => Writes(u, l)'
           /\ \A u \in Tids \ {t}, l \in Keys : Writes(u, l)' => Writes(u, l)
<1>0. /\ TypeOK /\ TypeOK' /\ TuplesOK /\ SlotsApart /\ LockCompatible'
      /\ LockTypeOK
  BY DEF HeapInv, PagesOK, TypeOK
<1>1. /\ disk' = disk /\ ended' = ended /\ heap' = Collected(h)
      /\ \A l \in Keys : \A x \in Live(l) : h[l][x] = heap[l][x]
  BY <1>0, HandleEffect DEF Found
<1>2. \A l \in Keys : On(l)' = On(l)
  BY <1>1 DEF On
<1>3. \A l \in Keys : /\ In(l)' = In(l) /\ (Dirty(l)' <=> Dirty(l))
                      /\ pages'[l] # Nil => Injective(heap'[l][pages'[l]].data)
  BY FoundPages
<1>4. \A l \in Keys : mapPageLocksByTid[t][l] # Nil => mapPageLocksByTid'[t][l] # Nil
  BY NilAssumption DEF Granted, Slept, Perms
<1>5. UNCHANGED <<added, removed, committed>>
  <2>1. ~ RolledBack(t)
    BY <1>4 DEF RolledBack
  <2> QED
    BY <2>1, AnsweredHistory
<1>6. /\ \A u \in Tids, l \in Keys : Writes(u, l) => Writes(u, l)'
      /\ \A u \in Tids \ {t}, l \in Keys : Writes(u, l)' => Writes(u, l)
  <2>1. \A u \in Tids \ {t} : mapPageLocksByTid'[u] = mapPageLocksByTid[u]
    BY <1>0, HandleEffect
  <2>2. ASSUME NEW l \in Keys, Writes(t, l) PROVE Writes(t, l)'
    <3>1. CASE Granted(t, k, perm, o)
      <4>1. mapPageLocksByTid[t][l] # Nil
        BY <2>2, NilAssumption DEF Writes, Perms
      <4> QED
        BY <2>2, <3>1, <4>1 DEF Granted, Writes
    <3>2. CASE Slept(t, k, perm, o)
      BY <2>2, <3>2 DEF Slept, Writes
    <3> QED
      BY <3>1, <3>2
  <2> QED
    BY <2>1, <2>2 DEF Writes
<1>7. TuplesOK'
  BY <1>0, <1>1, <1>2, <1>3, <1>5, <1>6, TuplesKept
<1>8. SlotsApart'
  BY <1>0, <1>1, <1>3 DEF SlotsApart
<1>9. PendingNowhere' /\ PendingOnce'
  <2>1. \A l \in Keys : In(l)' \in {In(l), On(l)} /\ On(l)' = On(l)
    BY <1>2, <1>3
  <2> QED
    BY <2>1, PendingGet
<1> QED
  BY <1>2, <1>3, <1>5, <1>6, <1>7, <1>8, <1>9 DEF PagesOK

LEMMA ExactServed ==
    ASSUME HeapInv, HeapInv', Exact, InPool', PoolOnDisk', NEW t \in Tids, stmt[t] # Nil,
           stmt[t].ph \in {"get", "asleep"}, Answered(t),
           NEW k \in Keys, k = PageOf(stmt[t]), NEW perm \in Perms, NEW o, NEW pgs, NEW h,
           Found(k, o, pgs, h), HandleTransaction(t, k, perm, o, pgs, h),
           Granted(t, k, perm, o) \/ Slept(t, k, perm, o), pages' = pgs
    PROVE  Exact'
<1>0. TypeOK /\ TypeOK' /\ HandlesPool /\ InPool
  BY DEF HeapInv, Exact
<1>1. /\ heap' = Collected(h)
      /\ \A l \in Keys : \A x \in Live(l) : h[l][x] = heap[l][x]
  BY <1>0, HandleEffect DEF Found
<1>2. /\ PagesOK' /\ \A l \in Keys : In(l)' = In(l)
      /\ removed' = removed
  BY PagesServed DEF Exact
<1>3. /\ \A u \in Tids \ {t} : Scanning(u)' => ScanOK(u)'
      /\ \A u \in Tids \ {t} : handle'[u] # Nil => handle'[u].page = lockPage'[u][handle'[u].key]
  BY HandleKeepsOthers
<1>4. o = pgs[k] /\ (pages[k] # Nil => o = pages[k])
  BY <1>0, FoundInPool
<1>5. /\ \A l \in Keys : Locked(t, l) => lockPage'[t][l] = lockPage[t][l]
      /\ \A l \in Keys : (Locked(t, l)' /\ ~ Locked(t, l)) => l = k
  <2>1. CASE Granted(t, k, perm, o)
    <3>1. \A l \in Keys : l # k => lockPage'[t][l] = lockPage[t][l]
      BY <2>1 DEF Granted
    <3>2. Locked(t, k) => lockPage[t][k] = pages[k] /\ pages[k] # Nil
      BY <1>0 DEF InPool, Locked
    <3>3. lockPage'[t][k] \in {lockPage[t][k], o}
      BY <2>1 DEF Granted
    <3>4. Locked(t, k) => lockPage'[t][k] = lockPage[t][k]
      BY <1>4, <3>2, <3>3
    <3> QED
      BY <3>1, <3>4 DEF Locked
  <2>2. CASE Slept(t, k, perm, o)
    BY <2>2 DEF Slept, Locked
  <2> QED
    BY <2>1, <2>2
<1>6. handle'[t] # Nil => handle'[t].page = lockPage'[t][handle'[t].key]
  <2>1. CASE Granted(t, k, perm, o)
    <3>1. lockPage'[t][k] # Nil
      <4>1. mapPageLocksByTid'[t][k] # Nil
        BY <2>1, NilAssumption DEF Granted, Perms
      <4> QED
        BY <1>0, <4>1 DEF TypeOK
    <3>2. lockPage'[t][k] = pages'[k]
      BY <3>1 DEF InPool
    <3>3. handle'[t].key = k /\ handle'[t].page = o
      BY <2>1 DEF Granted
    <3> QED
      BY <1>4, <3>2, <3>3
  <2>2. CASE Slept(t, k, perm, o)
    BY <2>2 DEF Slept
  <2> QED
    BY <2>1, <2>2
<1>7. HandlesPool'
  BY <1>3, <1>6 DEF HandlesPool
<1>8. ASSUME Scanning(t)' PROVE ScanOK(t)'
  <2>1. /\ Scanning(t)
        /\ stmt'[t].file = stmt[t].file /\ stmt'[t].i = stmt[t].i
        /\ stmt'[t].j = stmt[t].j /\ stmt'[t].seen = stmt[t].seen
        /\ HasRow(stmt[t])' => HasRow(stmt[t]) /\ stmt'[t].tup = stmt[t].tup
    BY <1>8, AnsweredHistory
  <2>2. ScanOK(t)
    BY <2>1 DEF Exact
  <2>3. ASSUME NEW l \in Keys, Locked(t, l) PROVE Locked(t, l)' /\ Seen(t, l)' = Seen(t, l)
    <3>1. lockPage'[t][l] = lockPage[t][l]
      BY <1>5, <2>3
    <3>2. Seen(t, l)' = Seen(t, l)
      BY <1>0, <1>1, <2>3, <3>1, SeenKept
    <3> QED
      BY <2>3, <3>1, <3>2 DEF Locked
  <2>4. ASSUME NEW l \in Keys, Locked(t, l)', ~ Locked(t, l), NEW s \in Used(Seen(t, l)')
        PROVE  l = PageOf(stmt[t]) /\ Seen(t, l)'[s] \notin stmt[t].seen
    <3>1. l = k
      BY <1>5, <2>4
    <3>2. lockPage'[t][l] = pages'[l] /\ pages'[l] # Nil
      BY <2>4 DEF InPool, Locked
    <3>3. In(l)' = TuplesOf(Seen(t, l)')
      BY <3>2 DEF In, Seen, PoolOnDisk
    <3>4. Seen(t, l)'[s] \in In(l)
      BY <1>2, <3>3 DEF TuplesOf
    <3> QED
      BY <2>1, <2>4, <3>1, <3>4, NewToScan
  <2>5. \A l \in Keys : (Locked(t, l)' /\ ~ Locked(t, l)) =>
           /\ l = PageOf(stmt[t])
           /\ \A s \in Used(Seen(t, l)') : Seen(t, l)'[s] \notin stmt[t].seen
    <3>1. ASSUME NEW l \in Keys, Locked(t, l)', ~ Locked(t, l) PROVE l = PageOf(stmt[t])
      BY <1>5, <3>1
    <3> QED
      BY <2>4, <3>1
  <2>6. removed[t] \subseteq removed'[t]
    BY <1>2
  <2>7. \A l \in Keys : Locked(t, l) => Locked(t, l)' /\ Seen(t, l)' = Seen(t, l)
    BY <2>3
  <2> QED
    BY <2>1, <2>2, <2>5, <2>6, <2>7, ScanKept
<1> QED
  BY <1>2, <1>3, <1>7, <1>8 DEF Exact

\* A step of GetPage for a statement.
LEMMA ExactGet ==
    ASSUME HeapInv, HeapInv', Exact, InPool', PoolOnDisk', NEW t \in Tids, CallGetPage(t) \/ Awake(t)
    PROVE  Exact'
<1>0. TypeOK
  BY DEF HeapInv
<1>1. /\ stmt[t] # Nil /\ stmt[t].ph \in {"get", "asleep"} /\ Answered(t)
      /\ \/ GetPage(t, PageOf(stmt[t]), PermOf(stmt[t]))
         \/ WakeGetPage(t) /\ waiting[t] = [key |-> PageOf(stmt[t]), perm |-> PermOf(stmt[t])]
  BY HeapGets
<1>2. PICK k \in Keys, perm \in Perms : k = PageOf(stmt[t]) /\ perm = PermOf(stmt[t])
  BY <1>1, CallsPage
<1>3. \/ \E o, pgs, h : Found(k, o, pgs, h) /\ HandleTransaction(t, k, perm, o, pgs, h)
      \/ Running(t) /\ \E pgs \in MadeRoom \cup {pages} : Fails(t, pgs)
  BY <1>0, <1>1, <1>2, GetPageFound
<1>4. CASE Running(t) /\ \E pgs \in MadeRoom \cup {pages} : Fails(t, pgs)
  BY <1>1, <1>4, ExactFails
<1>5. ASSUME NEW o, NEW pgs, NEW h, Found(k, o, pgs, h), HandleTransaction(t, k, perm, o, pgs, h)
      PROVE  Exact'
  <2>1. \/ Granted(t, k, perm, o) /\ pages' = pgs
        \/ Undone(t) /\ ClearMap(t, pgs)
        \/ Slept(t, k, perm, o) /\ pages' = pgs
    BY <1>0, <1>5, HandleEffect
  <2>2. CASE Undone(t) /\ ClearMap(t, pgs)
    BY <1>1, <1>5, <2>2, ExactUndone
  <2>3. CASE (Granted(t, k, perm, o) \/ Slept(t, k, perm, o)) /\ pages' = pgs
    BY <1>1, <1>2, <1>5, <2>3, ExactServed
  <2> QED
    BY <2>1, <2>2, <2>3
<1> QED
  BY <1>3, <1>4, <1>5

-----------------------------------------------------------------------------
(* Steps of the statements                                                 *)

\* The page that a statement has got, if it is the pool's.
LEMMA GotInPool ==
    ASSUME HeapInv, SlotsApart, NEW t \in Tids, stmt[t] # Nil, stmt[t].ph = "got",
           NEW k \in Keys, k = PageOf(stmt[t]), handle[t].page = pages[k]
    PROVE  /\ handle[t] # Nil /\ handle[t].key = k /\ pages[k] # Nil /\ pages[k] \in Objs /\ disk[k] # Nil
           /\ Data(t) = heap[k][pages[k]].data /\ Data(t) \in Slots
           /\ In(k) = TuplesOf(Data(t)) /\ Injective(Data(t))
           /\ mapPageLocksByTid[t][k] # Nil
           /\ stmt[t].kind # "scan" => Writes(t, k)
<1>0. TypeOK /\ HandlesLocked
  BY DEF HeapInv
<1>1. /\ handle[t] # Nil /\ handle[t].key = k /\ handle[t].perm = PermOf(stmt[t])
      /\ Data(t) \in Slots /\ handle[t].page \in Live(k)
  BY CallsData
<1>2. pages[k] \in Objs
  BY <1>1 DEF Live
<1>3. pages[k] # Nil
  BY <1>2, PageNilAssumption
<1>4. Data(t) = heap[k][pages[k]].data
  BY <1>1 DEF Data
<1>5. disk[k] # Nil
  BY CallsPage
<1>6. In(k) = TuplesOf(Data(t)) /\ Injective(Data(t))
  BY <1>3, <1>4, <1>5 DEF In, SlotsApart
<1>7. mapPageLocksByTid[t][k] # Nil /\ (stmt[t].kind # "scan" => Writes(t, k))
  BY <1>0, <1>1 DEF HandlesLocked, PermOf, Writes
<1> QED
  BY <1>1, <1>2, <1>3, <1>4, <1>5, <1>6, <1>7

\* As long as the pool has the pages of the locks, it is, and is the page that
\* the transaction sees.
LEMMA GotPage ==
    ASSUME HeapInv, Exact, NEW t \in Tids, stmt[t] # Nil, stmt[t].ph = "got",
           NEW k \in Keys, k = PageOf(stmt[t])
    PROVE  /\ Locked(t, k) /\ handle[t].key = k /\ handle[t].page = pages[k] /\ pages[k] # Nil
           /\ pages[k] \in Objs
           /\ Data(t) = Seen(t, k) /\ Data(t) = heap[k][pages[k]].data /\ Data(t) \in Slots
           /\ In(k) = TuplesOf(Data(t)) /\ Injective(Data(t))
           /\ stmt[t].kind # "scan" => Writes(t, k)
<1>0. TypeOK /\ HandlesLocked /\ HandlesPool /\ SlotsApart /\ InPool
  BY DEF HeapInv, Exact, PagesOK
<1>1. handle[t] # Nil /\ handle[t].key = k
  BY CallsData
<1>2. Locked(t, k)
  BY <1>0, <1>1 DEF HandlesLocked, TypeOK, Locked
<1>3. handle[t].page = lockPage[t][k] /\ lockPage[t][k] = pages[k]
  BY <1>0, <1>1, <1>2 DEF HandlesPool, InPool, Locked
<1>4. Data(t) = Seen(t, k)
  BY <1>1, <1>3 DEF Data, Seen
<1> QED
  BY <1>0, <1>1, <1>2, <1>3, <1>4, GotInPool

\* ScanOK, for the statement c.
ScanAt(t, c) ==
    /\ c.j > 0 => Locked(t, PageOf(c))
    /\ \A x \in c.seen : x \in removed[t] \/ \E k \in Keys : Locked(t, k) /\ x \in TuplesOf(Seen(t, k))
    /\ HasRow(c) => Seen(t, PageOf(c))[c.j - 1] = c.tup
    /\ \A k \in Keys : (k.file = c.file /\ Locked(t, k)) =>
          \A s \in Used(Seen(t, k)) :
              Seen(t, k)[s] \in c.seen <=> (k.pageNo < c.i \/ (k.pageNo = c.i /\ s < c.j))

LEMMA ScanIsAt == ASSUME NEW t \in Tids PROVE ScanOK(t) <=> ScanAt(t, stmt[t])
  BY DEF ScanOK, ScanAt, HasRow

\* A step that changes nothing but the statement of t.
LEMMA PagesStmtOnly ==
    ASSUME PagesOK, LockCompatible', NEW t \in Tids, UNCHANGED <<vars, unused, added, removed, committed>>,
           \A u \in Tids : \A x \in Tuples : Inserts(u, x)' => Inserts(u, x)
    PROVE  /\ PagesOK'
           /\ \A k \in Keys : In(k)' = In(k) /\ On(k)' = On(k) /\ (Dirty(k)' <=> Dirty(k))
<1>0. TuplesOK /\ SlotsApart /\ PendingNowhere /\ PendingOnce
  BY DEF PagesOK
<1>1. UNCHANGED <<mapPageLocksByTid, waiting, ended, pages, lockPage, waitPage, handle, heap, disk>>
  BY DEF vars, lockVars, pointers
<1>2. \A k \in Keys : In(k)' = In(k) /\ On(k)' = On(k) /\ (Dirty(k)' <=> Dirty(k))
  BY <1>1 DEF In, On, Dirty
<1>3. TuplesOK'
  BY <1>0, <1>1, <1>2, TuplesKept DEF Writes
<1>4. SlotsApart'
  BY <1>0, <1>1 DEF SlotsApart
<1>5. PendingNowhere' /\ PendingOnce'
  BY <1>0, <1>2, PendingKept
<1> QED
  BY <1>2, <1>3, <1>4, <1>5 DEF PagesOK

LEMMA ExactStmtOnly ==
    ASSUME HeapInv, HeapInv', Exact, InPool', PoolOnDisk', NEW t \in Tids, NEW d,
           UNCHANGED <<vars, unused, added, removed, committed>>,
           stmt' = [stmt EXCEPT ![t] = d],
           d # Nil => d.kind # "insert" /\ ScanAt(t, d)
    PROVE  Exact'
<1>0. PagesOK /\ LockCompatible' /\ HandlesPool /\ CallsTyped
  BY DEF HeapInv, Exact
<1>1. UNCHANGED <<mapPageLocksByTid, waiting, ended, pages, lockPage, waitPage, handle, heap, disk>>
  BY DEF vars, lockVars, pointers
<1>2. stmt'[t] = d /\ \A u \in Tids \ {t} : stmt'[u] = stmt[u]
  BY <1>0 DEF CallsTyped
<1>3. HandlesPool'
  BY <1>0, <1>1 DEF HandlesPool
<1>4. \A u \in Tids : \A x \in Tuples : Inserts(u, x)' => Inserts(u, x)
  BY <1>2 DEF Inserts
<1>5. PagesOK'
  BY <1>0, <1>4, PagesStmtOnly
<1>6. ASSUME NEW u \in Tids, Scanning(u)' PROVE ScanOK(u)'
  <2>1. CASE u = t
    <3>1. d # Nil
      BY <1>2, <1>6, <2>1 DEF Scanning
    <3>2. ScanAt(t, d)
      BY <3>1
    <3>3. ScanAt(t, stmt[t])'
      BY <1>1, <1>2, <3>2 DEF ScanAt, Locked, Seen
    <3>4. ScanOK(t)' <=> ScanAt(t, stmt[t])'
      BY DEF ScanOK, ScanAt, HasRow
    <3> QED
      BY <2>1, <3>3, <3>4
  <2>2. CASE u # t
    <3>1. \A k \in Keys : Locked(u, k) => Seen(u, k)' = Seen(u, k)
      BY <1>1 DEF Seen
    <3> QED
      BY <1>1, <1>2, <1>6, <2>2, <3>1, OtherScans
  <2> QED
    BY <2>1, <2>2
<1> QED
  BY <1>3, <1>5, <1>6 DEF Exact

\* The iterator returns the next tuple of its page.
LEMMA ExactScanRow ==
    ASSUME HeapInv, HeapInv', Exact, InPool', PoolOnDisk', NEW t \in Tids, ScanRow(t)
    PROVE  Exact'
<1> DEFINE c == stmt[t]
           r == First(Ahead(t))
           x == Data(t)[r]
           d == [c EXCEPT !.ph = "row", !.tup = x, !.j = r + 1, !.seen = c.seen \cup {x}]
<1>1. /\ c # Nil /\ c.kind = "scan" /\ c.ph = "got" /\ Ahead(t) # {}
      /\ stmt' = [stmt EXCEPT ![t] = d]
      /\ UNCHANGED <<vars, unused, added, removed, committed>>
  BY DEF ScanRow, InPhase
<1>2. c \in ScanCall /\ PageOf(c) \in Keys
  BY <1>1, CallFacts, CallsPage
<1>3. PICK q \in Keys : q = PageOf(c)
  BY <1>2
<1>4. /\ Locked(t, q) /\ Data(t) = Seen(t, q) /\ Data(t) \in Slots
      /\ In(q) = TuplesOf(Data(t)) /\ Injective(Data(t))
  BY <1>1, <1>3, GotPage
<1>5. Ahead(t) \in SUBSET SlotNos
  BY DEF Ahead, Used
<1>6. r \in Ahead(t) /\ \A s \in Ahead(t) : r <= s
  BY <1>1, <1>5, FirstSlot
<1> HIDE DEF r
<1>7. r \in Used(Seen(t, q)) /\ r >= c.j /\ r \in Nat /\ x = Seen(t, q)[r]
  BY <1>4, <1>6, SlotsAssumption DEF Ahead, Used, SlotNos
<1>8. \A s \in Used(Seen(t, q)) : s \in Nat /\ (s >= c.j => r <= s)
  BY <1>4, <1>6, SlotsAssumption DEF Ahead, Used, SlotNos
<1> HIDE DEF x
<1>9. /\ d.kind = "scan" /\ d.file = c.file /\ d.i = c.i /\ d.tup = x /\ d.j = r + 1
      /\ d.seen = c.seen \cup {x}
  BY <1>1, <1>2 DEF ScanCall
<1>10. c.i \in Nat /\ c.j \in Nat
  BY <1>2, SlotsAssumption DEF ScanCall
<1>11. ScanAt(t, c)
  BY <1>1, ScanIsAt DEF Exact, Scanning
<1>12. q.file = c.file /\ q.pageNo = c.i
  BY <1>3 DEF PageOf, Key
<1> HIDE DEF c, d
<1>13. PageOf(d) = q
  BY <1>3, <1>9 DEF PageOf
<1>14. x \in TuplesOf(Seen(t, q))
  BY <1>7 DEF TuplesOf
<1>15. \A y \in d.seen : y \in removed[t] \/ \E k \in Keys : Locked(t, k) /\ y \in TuplesOf(Seen(t, k))
  BY <1>4, <1>9, <1>11, <1>14 DEF ScanAt
<1>16. ASSUME NEW k \in Keys, k.file = d.file, Locked(t, k), NEW s \in Used(Seen(t, k))
       PROVE  Seen(t, k)[s] \in d.seen <=> (k.pageNo < d.i \/ (k.pageNo = d.i /\ s < d.j))
  <2>1. Seen(t, k)[s] \in c.seen <=> (k.pageNo < c.i \/ (k.pageNo = c.i /\ s < c.j))
    BY <1>9, <1>11, <1>16 DEF ScanAt
  <2>2. CASE k = q
    <3>1. Seen(t, q)[s] = x <=> s = r
      BY <1>4, <1>7, <1>16, <2>2 DEF Injective
    <3>2. s \in Nat /\ (s >= c.j => r <= s)
      BY <1>8, <1>16, <2>2
    <3>3. Seen(t, k)[s] \in d.seen <=> (s < c.j \/ s = r)
      BY <1>9, <1>10, <1>12, <2>1, <2>2, <3>1
    <3>4. (s < c.j \/ s = r) <=> s < r + 1
      BY <1>7, <1>10, <3>2
    <3> QED
      BY <1>9, <1>10, <1>12, <2>2, <3>3, <3>4
  <2>3. CASE k # q
    <3>1. In(k) \cap In(q) = {}
      BY <2>3 DEF Exact, PagesOK, TuplesOK, PlacesApart
    <3>2. Seen(t, k)[s] \in In(k) /\ x \in In(q)
      BY <1>4, <1>14, <1>16, SeenInPool DEF TuplesOf, Exact
    <3>3. Seen(t, k)[s] # x
      BY <3>1, <3>2
    <3>4. k.pageNo # c.i
      BY <1>9, <1>12, <1>16, <2>3 DEF Keys
    <3> QED
      BY <1>9, <2>1, <3>3, <3>4
  <2> QED
    BY <2>2, <2>3
<1>17. Seen(t, PageOf(d))[d.j - 1] = d.tup
  BY <1>7, <1>9, <1>13
<1>18. ScanAt(t, d)
  BY <1>4, <1>13, <1>15, <1>16, <1>17 DEF ScanAt
<1> QED
  BY <1>1, <1>9, <1>18, ExactStmtOnly

\* The page has no more tuples, and the iterator goes on with the next one.
LEMMA ExactScanPageDone ==
    ASSUME HeapInv, HeapInv', Exact, InPool', PoolOnDisk', NEW t \in Tids, ScanPageDone(t)
    PROVE  Exact'
<1> DEFINE c == stmt[t]
           d == [c EXCEPT !.ph = "get", !.i = c.i + 1, !.j = 0]
<1>1. /\ c # Nil /\ c.kind = "scan" /\ c.ph = "got" /\ Ahead(t) = {}
      /\ stmt' = [stmt EXCEPT ![t] = IF c.i + 1 < c.n THEN d ELSE Nil]
      /\ UNCHANGED <<vars, unused, added, removed, committed>>
  BY DEF ScanPageDone, InPhase
<1>2. c \in ScanCall /\ PageOf(c) \in Keys
  BY <1>1, CallFacts, CallsPage
<1>3. PICK q \in Keys : q = PageOf(c)
  BY <1>2
<1>4. Data(t) = Seen(t, q)
  BY <1>1, <1>3, GotPage
<1>5. c.i \in Nat /\ c.j \in Nat
  BY <1>2, SlotsAssumption DEF ScanCall
<1>6. \A s \in Used(Seen(t, q)) : s \in Nat /\ s < c.j
  BY <1>1, <1>4, <1>5, SlotsAssumption DEF Ahead, Used, SlotNos
<1>7. /\ d.kind = "scan" /\ d.ph = "get" /\ d.file = c.file /\ d.i = c.i + 1 /\ d.j = 0
      /\ d.seen = c.seen
  BY <1>1, <1>2 DEF ScanCall
<1>8. ScanAt(t, c)
  BY <1>1, ScanIsAt DEF Exact, Scanning
<1>9. q.file = c.file /\ q.pageNo = c.i
  BY <1>3 DEF PageOf, Key
<1> HIDE DEF c, d
<1>10. ASSUME NEW k \in Keys, k.file = d.file, Locked(t, k), NEW s \in Used(Seen(t, k))
       PROVE  Seen(t, k)[s] \in d.seen <=> (k.pageNo < d.i \/ (k.pageNo = d.i /\ s < d.j))
  <2>1. Seen(t, k)[s] \in c.seen <=> (k.pageNo < c.i \/ (k.pageNo = c.i /\ s < c.j))
    BY <1>7, <1>8, <1>10 DEF ScanAt
  <2>2. k.pageNo \in Nat /\ s \in Nat
    BY <1>10, SlotsAssumption, MaxPagesAssumption DEF Keys, Used, SlotNos
  <2>3. k.pageNo = c.i => k = q
    BY <1>7, <1>9, <1>10 DEF Keys
  <2>4. k.pageNo = c.i => s < c.j
    BY <1>6, <1>10, <2>3
  <2> QED
    BY <1>5, <1>7, <2>1, <2>2, <2>4
<1>11. ~ HasRow(d) /\ ~ (d.j > 0)
  BY <1>7 DEF HasRow
<1>12. ScanAt(t, d)
  BY <1>7, <1>8, <1>10, <1>11 DEF ScanAt
<1>13. CASE c.i + 1 < c.n
  BY <1>1, <1>7, <1>12, <1>13, ExactStmtOnly
<1>14. CASE ~ (c.i + 1 < c.n)
  BY <1>1, <1>14, ExactStmtOnly
<1> QED
  BY <1>13, <1>14

\* The iterator is created, called again or left, a deletion asked for, or an
\* insert given up.
LEMMA ExactQuiet ==
    ASSUME HeapInv, HeapInv', Exact, InPool', PoolOnDisk', NEW t \in Tids, Quiet(t)
    PROVE  Exact'
<1>1. CASE InsertDropped(t) \/ ScanStops(t)
  <2>1. /\ stmt' = [stmt EXCEPT ![t] = Nil]
        /\ UNCHANGED <<vars, unused, added, removed, committed>>
    BY <1>1 DEF InsertDropped, ScanStops
  <2> QED
    BY <2>1, ExactStmtOnly
<1>2. ASSUME NEW f \in Files, StartScan(t, f) PROVE Exact'
  <2> DEFINE d == [kind |-> "scan", ph |-> "get", file |-> f, tup |-> Nil, i |-> 0, j |-> 0,
                   n |-> NumPages(f), seen |-> {}]
  <2>1. /\ stmt' = [stmt EXCEPT ![t] = d]
        /\ UNCHANGED <<vars, unused, added, removed, committed>>
    BY <1>2 DEF StartScan
  <2>2. d.kind = "scan" /\ d.ph = "get" /\ d.i = 0 /\ d.j = 0 /\ d.seen = {}
    OBVIOUS
  <2> HIDE DEF d
  <2>3. \A k \in Keys : k.pageNo \in Nat
    BY MaxPagesAssumption DEF Keys
  <2>4. ASSUME NEW k \in Keys, NEW s \in SlotNos
        PROVE  ~ (k.pageNo < d.i) /\ ~ (s < d.j)
    BY <2>2, <2>3, SlotsAssumption DEF SlotNos
  <2>5. ScanAt(t, d)
    BY <2>2, <2>4 DEF ScanAt, HasRow, Used
  <2> QED
    BY <2>1, <2>2, <2>5, ExactStmtOnly
<1>3. CASE ScanNext(t) \/ DeleteRow(t)
  <2> DEFINE c == stmt[t]
             d == [c EXCEPT !.ph = "get", !.tup = Nil, !.n = NumPages(c.file)]
             e == [c EXCEPT !.kind = "delete", !.ph = "get"]
  <2>1. /\ c # Nil /\ c.kind = "scan" /\ c.ph = "row"
        /\ \/ stmt' = [stmt EXCEPT ![t] = d]
           \/ stmt' = [stmt EXCEPT ![t] = e] /\ c.tup # Nil
        /\ UNCHANGED <<vars, unused, added, removed, committed>>
    BY <1>3 DEF ScanNext, DeleteRow, InPhase
  <2>2. c \in ScanCall
    BY <2>1, CallFacts
  <2>3. ScanAt(t, c)
    BY <2>1, ScanIsAt DEF Exact, Scanning
  <2>4. /\ d.kind = "scan" /\ d.ph = "get" /\ d.file = c.file /\ d.i = c.i /\ d.j = c.j /\ d.seen = c.seen
        /\ e.kind = "delete" /\ e.file = c.file /\ e.i = c.i /\ e.j = c.j /\ e.seen = c.seen
        /\ e.tup = c.tup
    BY <2>1, <2>2 DEF ScanCall
  <2> HIDE DEF c, d, e
  <2>5. PageOf(d) = PageOf(c) /\ PageOf(e) = PageOf(c)
    BY <2>4 DEF PageOf
  <2>6. ScanAt(t, d)
    BY <2>3, <2>4, <2>5 DEF ScanAt, HasRow
  <2>7. c.tup # Nil => ScanAt(t, e)
    BY <2>1, <2>3, <2>4, <2>5 DEF ScanAt, HasRow
  <2> QED
    BY <2>1, <2>4, <2>6, <2>7, ExactStmtOnly
<1>4. CASE ScanRow(t)
  BY <1>4, ExactScanRow
<1>5. CASE ScanPageDone(t)
  BY <1>5, ExactScanPageDone
<1> QED
  BY <1>1, <1>2, <1>3, <1>4, <1>5 DEF Quiet

\* A file gets an empty page.
LEMMA GrowsTuples ==
    ASSUME HeapInv, SlotsApart, NEW t \in Tids, Grows(t),
           \A k \in Keys : pages[k] # Nil /\ disk'[k] # Nil => disk[k] # Nil
    PROVE  /\ \A k \in Keys : In(k)' = In(k) /\ On(k)' = On(k) /\ (Dirty(k)' <=> Dirty(k))
           /\ SlotsApart'
<1>0. TypeOK /\ FilesContiguous
  BY DEF HeapInv
<1>1. pages' = pages /\ heap' = heap /\ (disk' = disk \/ \E f \in Files : Append(f))
  BY GrowsDisk DEF pointers
<1>2. Used(EmptySlots) = {} /\ TuplesOf(EmptySlots) = {} /\ Injective(EmptySlots)
  <2>1. Used(EmptySlots) = {}
    BY DEF Used, EmptySlots
  <2> QED
    BY <2>1 DEF TuplesOf, Injective
<1>3. ASSUME NEW k \in Keys
      PROVE  /\ On(k)' = On(k) /\ (disk'[k] # Nil => Injective(disk'[k]))
             /\ disk[k] # Nil => disk'[k] # Nil
  <2>1. CASE disk' = disk
    BY <2>1 DEF On, SlotsApart
  <2>2. ASSUME NEW f \in Files, Append(f)
        PROVE  /\ On(k)' = On(k) /\ (disk'[k] # Nil => Injective(disk'[k]))
               /\ disk[k] # Nil => disk'[k] # Nil
    <3>1. \/ disk'[k] = disk[k]
          \/ disk[k] = Nil /\ disk'[k] = EmptySlots
      BY <1>0, <2>2, AppendGrows
    <3> QED
      BY <1>2, <3>1 DEF On, SlotsApart
  <2> QED
    BY <1>1, <2>1, <2>2
<1>4. \A k \in Keys : In(k)' = In(k) /\ (Dirty(k)' <=> Dirty(k))
  BY <1>1, <1>3 DEF In, Dirty
<1> QED
  BY <1>1, <1>3, <1>4 DEF SlotsApart

LEMMA PagesGrow ==
    ASSUME HeapInv, HeapInv', PagesOK, NEW t \in Tids, Grows(t),
           \A k \in Keys : pages[k] # Nil /\ disk'[k] # Nil => disk[k] # Nil
    PROVE  /\ PagesOK'
           /\ \A k \in Keys : In(k)' = In(k) /\ On(k)' = On(k) /\ (Dirty(k)' <=> Dirty(k))
           /\ stmt'[t] # Nil /\ stmt'[t].kind = "insert"
           /\ \A u \in Tids \ {t} : stmt'[u] = stmt[u]
           /\ UNCHANGED <<added, removed, committed>>
<1>0. /\ TuplesOK /\ SlotsApart /\ LockCompatible' /\ PendingNowhere /\ PendingOnce
      /\ CallsTyped
  BY DEF HeapInv, PagesOK
<1>1. UNCHANGED <<mapPageLocksByTid, waiting, ended, pages, lockPage, waitPage, handle, heap>>
  BY GrowsDisk DEF lockVars, pointers
<1>2. UNCHANGED <<added, removed, committed>>
  BY DEF Grows, StartInsert, InsertGoesOn
<1>3. /\ \A k \in Keys : In(k)' = In(k) /\ On(k)' = On(k) /\ (Dirty(k)' <=> Dirty(k))
      /\ SlotsApart'
  BY <1>0, GrowsTuples
<1>4. TuplesOK'
  BY <1>0, <1>1, <1>2, <1>3, TuplesKept DEF Writes
<1>5. \/ \E x \in unused :
           /\ stmt'[t] # Nil /\ stmt'[t].kind = "insert" /\ stmt'[t].tup = x
           /\ unused' = unused \ {x} /\ stmt[t] = Nil
      \/ /\ stmt[t] # Nil /\ stmt[t].kind = "insert"
         /\ stmt'[t] # Nil /\ stmt'[t].kind = "insert" /\ stmt'[t].tup = stmt[t].tup
         /\ unused' = unused
  <2>1. ASSUME NEW f \in Files, NEW x \in Tuples, StartInsert(t, f, x)
        PROVE  /\ stmt'[t] # Nil /\ stmt'[t].kind = "insert" /\ stmt'[t].tup = x
               /\ unused' = unused \ {x} /\ stmt[t] = Nil /\ x \in unused
    <3>1. unused' = unused \ {x} /\ stmt[t] = Nil /\ x \in unused
      BY <2>1 DEF StartInsert
    <3>2. stmt'[t].kind = "insert" /\ stmt'[t].tup = x
      BY <1>0, <2>1 DEF StartInsert, CallsTyped
    <3>3. stmt'[t] # Nil
      <4> DEFINE d == [kind |-> "insert", ph |-> "get", file |-> f, tup |-> x, i |-> 0,
                       n |-> NumPages(f), new |-> NumPages(f) = 0]
      <4>1. stmt'[t] = d
        BY <1>0, <2>1 DEF StartInsert, CallsTyped
      <4>2. NumPages(f) \in Nat
        BY PagesCounted, MaxPagesAssumption DEF HeapInv
      <4>3. (NumPages(f) = 0) \in BOOLEAN
        OBVIOUS
      <4>4. d \in InsertCall
        BY <4>2, <4>3 DEF InsertCall
      <4> QED
        BY <4>1, <4>4, CallNilAssumption
    <3> QED
      BY <3>1, <3>2, <3>3
  <2>2. ASSUME InsertGoesOn(t)
        PROVE  /\ stmt[t] # Nil /\ stmt[t].kind = "insert"
               /\ stmt'[t] # Nil /\ stmt'[t].kind = "insert" /\ stmt'[t].tup = stmt[t].tup
               /\ unused' = unused
    <3>1. stmt[t] # Nil /\ stmt[t].kind = "insert" /\ unused' = unused
      BY <2>2 DEF InsertGoesOn, InPhase
    <3>2. stmt[t] \in InsertCall
      BY <3>1, CallFacts
    <3> DEFINE i == stmt[t].i + 1
               last == i = stmt[t].n
    <3>3. stmt'[t] = [stmt[t] EXCEPT !.ph = "get", !.i = i, !.new = last]
      BY <1>0, <2>2 DEF InsertGoesOn, CallsTyped
    <3>4. i \in Nat /\ last \in BOOLEAN
      BY <3>2 DEF InsertCall
    <3> HIDE DEF i, last
    <3>5. stmt'[t] \in InsertCall /\ stmt'[t].kind = "insert" /\ stmt'[t].tup = stmt[t].tup
      BY <3>2, <3>3, <3>4 DEF InsertCall
    <3> QED
      BY <3>1, <3>5, CallNilAssumption
  <2> QED
    BY <2>1, <2>2 DEF Grows
<1>6. \A u \in Tids \ {t} : stmt'[u] = stmt[u]
  BY <1>0 DEF Grows, StartInsert, InsertGoesOn, CallsTyped
<1>7. PendingNowhere' /\ PendingOnce'
  <2>1. ASSUME NEW x \in unused,
               stmt'[t] # Nil, stmt'[t].kind = "insert", stmt'[t].tup = x,
               unused' = unused \ {x}, stmt[t] = Nil
        PROVE  PendingNowhere' /\ PendingOnce'
    <3>1. \A y \in Tuples : Inserts(t, y)' <=> y = x
      BY <2>1 DEF Inserts
    <3>2. \A u \in Tids \ {t} : \A y \in Tuples : Inserts(u, y)' <=> Inserts(u, y)
      BY <1>6 DEF Inserts
    <3>3. \A y \in Tuples : Pending(y)' => Pending(y)
      BY <2>1, <3>1, <3>2 DEF Pending
    <3>4. PendingNowhere'
      BY <1>0, <1>2, <1>3, <3>3 DEF PendingNowhere
    <3>5. ASSUME NEW y \in Tuples, NEW u \in Tids, Inserts(u, y)'
          PROVE  y \notin unused' /\ \A v \in Tids : Inserts(v, y)' => v = u
      <4>1. CASE u = t
        BY <1>0, <2>1, <3>1, <3>2, <3>5, <4>1 DEF PendingOnce
      <4>2. CASE u # t
        BY <1>0, <2>1, <3>1, <3>2, <3>5, <4>2 DEF PendingOnce
      <4> QED
        BY <4>1, <4>2
    <3> QED
      BY <3>4, <3>5 DEF PendingOnce
  <2>2. ASSUME stmt[t] # Nil, stmt[t].kind = "insert", stmt'[t] # Nil, stmt'[t].kind = "insert",
               stmt'[t].tup = stmt[t].tup, unused' = unused
        PROVE  PendingNowhere' /\ PendingOnce'
    <3>1. \A u \in Tids : \A y \in Tuples : Inserts(u, y)' => Inserts(u, y)
      BY <1>6, <2>2 DEF Inserts
    <3> QED
      BY <1>0, <1>2, <1>3, <2>2, <3>1, PendingKept
  <2> QED
    BY <1>5, <2>1, <2>2
<1> QED
  BY <1>2, <1>3, <1>4, <1>5, <1>6, <1>7 DEF PagesOK

LEMMA ExactGrows ==
    ASSUME HeapInv, HeapInv', Exact, InPool', PoolOnDisk', NEW t \in Tids, Grows(t)
    PROVE  Exact'
<1>0. PagesOK /\ HandlesPool /\ PoolOnDisk
  BY DEF Exact
<1>1. UNCHANGED <<mapPageLocksByTid, waiting, ended, pages, lockPage, waitPage, handle, heap>>
  BY GrowsDisk DEF lockVars, pointers
<1>2. \A k \in Keys : pages[k] # Nil /\ disk'[k] # Nil => disk[k] # Nil
  BY <1>0 DEF PoolOnDisk
<1>3. /\ PagesOK' /\ stmt'[t] # Nil /\ stmt'[t].kind = "insert"
      /\ \A u \in Tids \ {t} : stmt'[u] = stmt[u]
      /\ removed' = removed
  BY <1>0, <1>2, PagesGrow
<1>4. HandlesPool'
  BY <1>0, <1>1 DEF HandlesPool
<1>5. ASSUME NEW u \in Tids, Scanning(u)' PROVE ScanOK(u)'
  <2>1. u # t
    BY <1>3, <1>5 DEF Scanning
  <2>2. \A k \in Keys : Locked(u, k) => Seen(u, k)' = Seen(u, k)
    BY <1>1 DEF Seen
  <2> QED
    BY <1>1, <1>3, <1>5, <2>1, <2>2, OtherScans
<1> QED
  BY <1>3, <1>4, <1>5 DEF Exact

\* insertTuple or deleteTuple changes the page it has got, which is the pool's.
LEMMA ModifyPool ==
    ASSUME HeapInv, SlotsApart, NEW t \in Tids, stmt[t] # Nil, stmt[t].ph = "got",
           stmt[t].kind # "scan", NEW k \in Keys, k = PageOf(stmt[t]), handle[t].page = pages[k],
           NEW c \in Slots, Injective(c), Modify(t, c)
    PROVE  /\ UNCHANGED <<mapPageLocksByTid, waiting, ended, pages, lockPage, waitPage, handle, disk>>
           /\ heap'[k][pages[k]].data = c
           /\ \A o \in Objs : o # pages[k] => heap'[k][o] = heap[k][o]
           /\ \A l \in Keys \ {k} : heap'[l] = heap[l]
           /\ In(k)' = TuplesOf(c) /\ Dirty(k)'
           /\ \A l \in Keys \ {k} : In(l)' = In(l) /\ (Dirty(l)' <=> Dirty(l))
           /\ \A l \in Keys : On(l)' = On(l)
           /\ SlotsApart'
<1>0. TypeOK
  BY DEF HeapInv
<1>1. UNCHANGED <<mapPageLocksByTid, waiting, ended, pages, lockPage, waitPage, handle, disk>>
  BY DEF Modify, lockVars, pointers
<1>2. handle[t].key = k /\ pages[k] # Nil /\ pages[k] \in Objs /\ disk[k] # Nil
  BY GotInPool
<1>3. PICK o \in Objs : o = pages[k]
  BY <1>2
<1>4. heap' = [heap EXCEPT ![k][o] = [data |-> c, dirty |-> TRUE]]
  BY <1>2, <1>3 DEF Modify
<1>5. /\ heap'[k][o] = [data |-> c, dirty |-> TRUE]
      /\ \A x \in Objs : x # o => heap'[k][x] = heap[k][x]
      /\ \A l \in Keys \ {k} : heap'[l] = heap[l]
  BY <1>0, <1>4 DEF TypeOK
<1>6. heap'[k][o].data = c /\ heap'[k][o].dirty
  BY <1>5
<1>7. In(k)' = TuplesOf(c) /\ Dirty(k)'
  BY <1>1, <1>2, <1>3, <1>6 DEF In, Dirty
<1>8. \A l \in Keys : On(l)' = On(l)
  BY <1>1 DEF On
<1>9. \A l \in Keys \ {k} : In(l)' = In(l) /\ (Dirty(l)' <=> Dirty(l))
  BY <1>1, <1>5, <1>8 DEF In, Dirty
<1>10. SlotsApart'
  <2>1. ASSUME NEW l \in Keys, pages'[l] # Nil PROVE Injective(heap'[l][pages'[l]].data)
    <3>1. CASE l = k
      BY <1>1, <1>3, <1>6, <3>1
    <3>2. CASE l # k
      BY <1>1, <1>5, <2>1, <3>2 DEF SlotsApart
    <3> QED
      BY <3>1, <3>2
  <2> QED
    BY <1>1, <2>1 DEF SlotsApart
<1> QED
  BY <1>1, <1>3, <1>5, <1>6, <1>7, <1>8, <1>9, <1>10

\* Nobody but the transaction, which has it locked for writing, sees that page.
LEMMA ModifyEffect ==
    ASSUME HeapInv, Exact, NEW t \in Tids, stmt[t] # Nil, stmt[t].ph = "got",
           stmt[t].kind # "scan", NEW k \in Keys, k = PageOf(stmt[t]),
           NEW c \in Slots, Injective(c), Modify(t, c)
    PROVE  /\ UNCHANGED <<mapPageLocksByTid, ended, lockPage>>
           /\ HandlesPool'
           /\ Seen(t, k)' = c
           /\ \A l \in Keys \ {k} : Seen(t, l)' = Seen(t, l)
           /\ \A u \in Tids \ {t} : \A l \in Keys : Locked(u, l) => Seen(u, l)' = Seen(u, l)
<1>0. TypeOK /\ LockCompatible /\ InPool /\ HandlesPool /\ SlotsApart
  BY DEF HeapInv, Exact, PagesOK
<1>1. Locked(t, k) /\ Writes(t, k) /\ handle[t].page = pages[k]
  BY GotPage
<1>2. /\ UNCHANGED <<mapPageLocksByTid, ended, pages, lockPage, handle>>
      /\ heap'[k][pages[k]].data = c
      /\ \A l \in Keys \ {k} : heap'[l] = heap[l]
  BY <1>0, <1>1, ModifyPool
<1>3. HandlesPool'
  BY <1>0, <1>2 DEF HandlesPool
<1>4. lockPage[t][k] = pages[k]
  BY <1>0, <1>1 DEF InPool, Locked
<1>5. Seen(t, k)' = c /\ \A l \in Keys \ {k} : Seen(t, l)' = Seen(t, l)
  BY <1>2, <1>4 DEF Seen
<1>6. ASSUME NEW u \in Tids \ {t}, NEW l \in Keys, Locked(u, l) PROVE Seen(u, l)' = Seen(u, l)
  <2>1. l # k
    <3>1. ASSUME l = k PROVE FALSE
      <4>1. mapPageLocksByTid[u][k] # Nil
        BY <1>0, <1>6, <3>1 DEF TypeOK, Locked
      <4> QED
        BY <1>0, <1>1, <1>6, <4>1, OneWriter
    <3> QED
      BY <3>1
  <2> QED
    BY <1>2, <2>1 DEF Seen
<1> QED
  BY <1>2, <1>3, <1>5, <1>6

\* HeapFile.insertTuple has found room for the tuple.
LEMMA PagesInsert ==
    ASSUME HeapInv, PagesOK, NEW t \in Tids, InsertTuple(t), handle[t].page = pages[PageOf(stmt[t])]
    PROVE  /\ PagesOK'
           /\ \E k \in Keys, c \in Slots : k = PageOf(stmt[t]) /\ Injective(c) /\ Modify(t, c)
           /\ stmt'[t] = Nil /\ \A u \in Tids \ {t} : stmt'[u] = stmt[u]
<1>0. /\ TuplesOK /\ SlotsApart /\ LockTypeOK /\ LockCompatible /\ PendingNowhere /\ PendingOnce /\ CallsTyped
  BY DEF HeapInv, PagesOK, TypeOK
<1>1. /\ stmt[t] # Nil /\ stmt[t].ph = "got" /\ stmt[t].kind = "insert"
      /\ stmt[t].tup \in Tuples /\ Free(Data(t)) # {}
      /\ Modify(t, With(Data(t), stmt[t].tup))
  BY InsertModifies
<1>2. PICK k \in Keys : k = PageOf(stmt[t])
  BY <1>1, CallsPage
<1>3. PICK x \in Tuples : x = stmt[t].tup
  BY <1>1
<1>4. Inserts(t, x)
  BY <1>1, <1>3 DEF Inserts
<1>5. /\ \A l \in Keys : x \notin In(l) /\ x \notin On(l)
      /\ \A u \in Tids : x \notin added[u] /\ x \notin removed[u]
      /\ x \notin unused /\ \A u \in Tids : Inserts(u, x) => u = t
  <2>1. Pending(x)
    BY <1>4 DEF Pending
  <2> QED
    BY <1>0, <1>4, <2>1 DEF PendingNowhere, PendingOnce
<1>6. Data(t) \in Slots /\ In(k) = TuplesOf(Data(t)) /\ Injective(Data(t)) /\ Writes(t, k)
  BY <1>0, <1>1, <1>2, GotInPool
<1>7. PICK c \in Slots : c = With(Data(t), x)
  BY <1>1, <1>6, WithTuple
<1>8. TuplesOf(c) = In(k) \cup {x} /\ Injective(c)
  BY <1>1, <1>5, <1>6, <1>7, WithTuple
<1>9. Modify(t, c)
  BY <1>1, <1>3, <1>7
<1>10. /\ UNCHANGED <<mapPageLocksByTid, ended, lockPage>>
       /\ In(k)' = TuplesOf(c) /\ Dirty(k)'
       /\ \A l \in Keys \ {k} : In(l)' = In(l) /\ (Dirty(l)' <=> Dirty(l))
       /\ \A l \in Keys : On(l)' = On(l)
       /\ SlotsApart'
  <2>1. stmt[t].kind # "scan"
    BY <1>1
  <2> QED
    BY <1>0, <1>1, <1>2, <1>8, <1>9, <2>1, ModifyPool
<1>11. /\ \A u \in Tids : added'[u] = IF u = t THEN added[t] \cup {x} ELSE added[u]
       /\ stmt'[t] = Nil /\ \A u \in Tids \ {t} : stmt'[u] = stmt[u]
       /\ UNCHANGED <<unused, removed, committed>>
  BY <1>0, <1>3 DEF InsertTuple, CallsTyped
<1>12. TuplesOK'
  <2>1. \A u \in Tids, l \in Keys : Writes(u, l)' <=> Writes(u, l)
    BY <1>10 DEF Writes
  <2>2. In(k)' = In(k) \cup {x}
    BY <1>8, <1>10
  <2> QED
    BY <1>0, <1>5, <1>6, <1>10, <1>11, <2>1, <2>2, TupleAdded
<1>13. PendingNowhere' /\ PendingOnce'
  <2>1. \A u \in Tids : \A y \in Tuples : Inserts(u, y)' => Inserts(u, y) /\ u # t
    BY <1>11 DEF Inserts
  <2>2. ~ Pending(x)'
    BY <1>5, <1>11, <2>1 DEF Pending
  <2>3. ASSUME NEW y \in Tuples, y # x
        PROVE  /\ \A l \in Keys : y \in In(l)' \/ y \in On(l)' => y \in In(l) \/ y \in On(l)
               /\ \A u \in Tids : /\ y \in added'[u] => y \in added[u]
                                  /\ y \in removed'[u] => y \in removed[u]
    BY <1>8, <1>10, <1>11, <2>3
  <2> QED
    BY <1>0, <1>11, <2>1, <2>2, <2>3, PendingKept
<1> QED
  BY <1>2, <1>8, <1>9, <1>10, <1>11, <1>12, <1>13 DEF PagesOK

LEMMA ExactInsert ==
    ASSUME HeapInv, HeapInv', Exact, InPool', PoolOnDisk', NEW t \in Tids, InsertTuple(t)
    PROVE  Exact'
<1>1. stmt[t] # Nil /\ stmt[t].ph = "got" /\ stmt[t].kind = "insert"
  BY InsertModifies
<1>2. PICK k \in Keys : k = PageOf(stmt[t])
  BY <1>1, CallsPage
<1>3. handle[t].page = pages[k]
  BY <1>1, <1>2, GotPage
<1>4. /\ PagesOK' /\ stmt'[t] = Nil
      /\ \A u \in Tids \ {t} : stmt'[u] = stmt[u]
  BY <1>2, <1>3, PagesInsert DEF Exact
<1>5. PICK c \in Slots : Injective(c) /\ Modify(t, c)
  BY <1>2, <1>3, PagesInsert DEF Exact
<1>6. /\ lockPage' = lockPage /\ HandlesPool'
      /\ \A u \in Tids \ {t} : \A l \in Keys : Locked(u, l) => Seen(u, l)' = Seen(u, l)
  <2>1. stmt[t].kind # "scan"
    BY <1>1
  <2> QED
    BY <1>1, <1>2, <1>5, <2>1, ModifyEffect
<1>7. ASSUME NEW u \in Tids, Scanning(u)' PROVE ScanOK(u)'
  <2>1. u # t
    BY <1>4, <1>7 DEF Scanning
  <2>2. removed'[u] = removed[u]
    BY DEF InsertTuple
  <2> QED
    BY <1>4, <1>6, <1>7, <2>1, <2>2, OtherScans
<1> QED
  BY <1>4, <1>6, <1>7 DEF Exact

\* deleteTuple empties the slot that the iterator has read the tuple from.
LEMMA PagesDelete ==
    ASSUME HeapInv, PagesOK, NEW t \in Tids, DeleteTuple(t), handle[t].page = pages[PageOf(stmt[t])],
           Data(t)[stmt[t].j - 1] = stmt[t].tup
    PROVE  /\ PagesOK'
           /\ \E k \in Keys, c \in Slots :
                 /\ k = PageOf(stmt[t]) /\ Injective(c) /\ Modify(t, c)
                 /\ Used(c) = Used(Data(t)) \ {stmt[t].j - 1}
                 /\ \A r \in SlotNos : r # stmt[t].j - 1 => c[r] = Data(t)[r]
                 /\ TuplesOf(c) = In(k) \ {stmt[t].tup}
           /\ \A u \in Tids : removed'[u] = IF u = t THEN removed[t] \cup {stmt[t].tup} ELSE removed[u]
           /\ stmt'[t] = [stmt[t] EXCEPT !.kind = "scan", !.ph = "row", !.tup = Nil]
           /\ \A u \in Tids \ {t} : stmt'[u] = stmt[u]
<1>0. /\ TuplesOK /\ SlotsApart /\ LockTypeOK /\ LockCompatible /\ PendingNowhere /\ PendingOnce /\ CallsTyped
  BY DEF HeapInv, PagesOK, TypeOK
<1>1. /\ stmt[t] # Nil /\ stmt[t].ph = "got" /\ stmt[t].kind = "delete"
      /\ stmt[t] \in ScanCall /\ stmt[t].tup \in Tuples /\ stmt[t].j - 1 \in SlotNos
      /\ \/ Data(t)[stmt[t].j - 1] # Nil /\ Modify(t, Without(Data(t), stmt[t].j - 1))
         \/ Data(t)[stmt[t].j - 1] = Nil /\ UNCHANGED vars
  BY DeleteModifies
<1>2. PICK k \in Keys : k = PageOf(stmt[t])
  BY <1>1, CallsPage
<1>3. PICK x \in Tuples : x = stmt[t].tup
  BY <1>1
<1>4. PICK s \in SlotNos : s = stmt[t].j - 1
  BY <1>1
<1>5. Data(t) \in Slots /\ In(k) = TuplesOf(Data(t)) /\ Injective(Data(t)) /\ Writes(t, k)
  BY <1>0, <1>1, <1>2, GotInPool
<1>6. Data(t)[s] = x /\ x # Nil
  BY <1>3, <1>4, SlotsAssumption
<1>7. Modify(t, Without(Data(t), s))
  BY <1>1, <1>4, <1>6
<1>8. PICK c \in Slots : c = Without(Data(t), s)
  BY <1>5, <1>6, WithoutTuple
<1>9. /\ Used(c) = Used(Data(t)) \ {s} /\ \A r \in SlotNos : r # s => c[r] = Data(t)[r]
      /\ TuplesOf(c) = In(k) \ {x} /\ Injective(c)
  BY <1>5, <1>6, <1>8, WithoutTuple
<1>10. x \in In(k)
  BY <1>5, <1>6, SlotKinds
<1>11. /\ UNCHANGED <<mapPageLocksByTid, ended, lockPage>>
       /\ In(k)' = TuplesOf(c) /\ Dirty(k)'
       /\ \A l \in Keys \ {k} : In(l)' = In(l) /\ (Dirty(l)' <=> Dirty(l))
       /\ \A l \in Keys : On(l)' = On(l)
       /\ SlotsApart'
  <2>1. Modify(t, c)
    BY <1>7, <1>8
  <2>2. stmt[t].kind # "scan"
    BY <1>1
  <2> QED
    BY <1>0, <1>1, <1>2, <1>9, <2>1, <2>2, ModifyPool
<1> DEFINE d == [stmt[t] EXCEPT !.kind = "scan", !.ph = "row", !.tup = Nil]
<1>12. /\ \A u \in Tids : removed'[u] = IF u = t THEN removed[t] \cup {x} ELSE removed[u]
       /\ stmt'[t] = d /\ \A u \in Tids \ {t} : stmt'[u] = stmt[u]
       /\ UNCHANGED <<unused, added, committed>>
  BY <1>0, <1>3 DEF DeleteTuple, CallsTyped
<1>13. /\ d.kind = "scan" /\ d.ph = "row" /\ d.tup = Nil /\ d.file = stmt[t].file /\ d.i = stmt[t].i
       /\ d.j = stmt[t].j /\ d.seen = stmt[t].seen
  BY <1>1 DEF ScanCall
<1> HIDE DEF d
<1>14. TuplesOK'
  <2>1. \A u \in Tids, l \in Keys : Writes(u, l)' <=> Writes(u, l)
    BY <1>11 DEF Writes
  <2>2. In(k)' = In(k) \ {x}
    BY <1>9, <1>11
  <2> QED
    BY <1>0, <1>5, <1>10, <1>11, <1>12, <2>1, <2>2, TupleRemoved
<1>15. PendingNowhere' /\ PendingOnce'
  <2>1. \A u \in Tids : \A y \in Tuples : Inserts(u, y)' => Inserts(u, y) /\ u # t
    BY <1>12, <1>13 DEF Inserts
  <2>2. ~ Pending(x)
    BY <1>0, <1>10 DEF PendingNowhere
  <2>3. ~ Pending(x)'
    BY <1>12, <2>1, <2>2 DEF Pending
  <2>4. ASSUME NEW y \in Tuples, y # x
        PROVE  /\ \A l \in Keys : y \in In(l)' \/ y \in On(l)' => y \in In(l) \/ y \in On(l)
               /\ \A u \in Tids : /\ y \in added'[u] => y \in added[u]
                                  /\ y \in removed'[u] => y \in removed[u]
    BY <1>9, <1>11, <1>12, <2>4
  <2> QED
    BY <1>0, <1>12, <2>1, <2>3, <2>4, PendingKept
<1>16. Modify(t, c)
  BY <1>7, <1>8
<1>17. PagesOK'
  BY <1>11, <1>14, <1>15 DEF PagesOK
<1>18. /\ stmt[t].j - 1 = s /\ stmt[t].tup = x /\ PageOf(stmt[t]) = k
       /\ stmt'[t] = [stmt[t] EXCEPT !.kind = "scan", !.ph = "row", !.tup = Nil]
       /\ \A u \in Tids \ {t} : stmt'[u] = stmt[u]
       /\ \A u \in Tids : removed'[u] = IF u = t THEN removed[t] \cup {x} ELSE removed[u]
  BY <1>2, <1>3, <1>4, <1>12 DEF d
<1> QED
  BY <1>9, <1>16, <1>17, <1>18

LEMMA ExactDelete ==
    ASSUME HeapInv, HeapInv', Exact, InPool', PoolOnDisk', NEW t \in Tids, DeleteTuple(t)
    PROVE  Exact'
<1>1. /\ stmt[t] # Nil /\ stmt[t].ph = "got" /\ stmt[t].kind = "delete"
      /\ stmt[t] \in ScanCall /\ stmt[t].tup \in Tuples /\ stmt[t].j - 1 \in SlotNos
  BY DeleteModifies
<1>2. PICK k \in Keys : k = PageOf(stmt[t])
  BY <1>1, CallsPage
<1>3. PICK x \in Tuples : x = stmt[t].tup
  BY <1>1
<1>4. PICK s \in SlotNos : s = stmt[t].j - 1
  BY <1>1
<1>5. /\ handle[t].page = pages[k] /\ In(k) = TuplesOf(Data(t))
      /\ Data(t) = Seen(t, k) /\ Locked(t, k)
  BY <1>1, <1>2, GotPage
<1>6. ScanAt(t, stmt[t])
  BY <1>1, ScanIsAt DEF Exact, Scanning
<1>7. Data(t)[s] = x
  <2>1. HasRow(stmt[t])
    BY <1>1 DEF HasRow
  <2>2. Seen(t, k)[s] = x
    BY <1>2, <1>3, <1>4, <1>6, <2>1 DEF ScanAt
  <2> QED
    BY <1>5, <2>2
<1> DEFINE d == [stmt[t] EXCEPT !.kind = "scan", !.ph = "row", !.tup = Nil]
<1>8. /\ PagesOK'
      /\ \A u \in Tids : removed'[u] = IF u = t THEN removed[t] \cup {x} ELSE removed[u]
      /\ stmt'[t] = d /\ \A u \in Tids \ {t} : stmt'[u] = stmt[u]
  BY <1>2, <1>3, <1>4, <1>5, <1>7, PagesDelete DEF Exact
<1>9. PICK c \in Slots :
        /\ Injective(c) /\ Modify(t, c)
        /\ Used(c) = Used(Data(t)) \ {s} /\ \A r \in SlotNos : r # s => c[r] = Data(t)[r]
        /\ TuplesOf(c) = In(k) \ {x}
  <2>1. /\ stmt[t].j - 1 = s /\ stmt[t].tup = x /\ PageOf(stmt[t]) = k
        /\ PagesOK /\ Data(t)[stmt[t].j - 1] = stmt[t].tup /\ handle[t].page = pages[PageOf(stmt[t])]
    BY <1>2, <1>3, <1>4, <1>5, <1>7 DEF Exact
  <2>2. \E l \in Keys, c \in Slots :
           /\ l = PageOf(stmt[t]) /\ Injective(c) /\ Modify(t, c)
           /\ Used(c) = Used(Data(t)) \ {stmt[t].j - 1}
           /\ \A r \in SlotNos : r # stmt[t].j - 1 => c[r] = Data(t)[r]
           /\ TuplesOf(c) = In(l) \ {stmt[t].tup}
    BY <2>1, PagesDelete, Zenon
  <2> QED
    BY <2>1, <2>2
<1>10. /\ d.kind = "scan" /\ d.ph = "row" /\ d.tup = Nil /\ d.file = stmt[t].file /\ d.i = stmt[t].i
       /\ d.j = stmt[t].j /\ d.seen = stmt[t].seen
  BY <1>1 DEF ScanCall
<1> HIDE DEF d
<1>11. /\ lockPage' = lockPage /\ HandlesPool'
       /\ Seen(t, k)' = c /\ \A l \in Keys \ {k} : Seen(t, l)' = Seen(t, l)
       /\ \A u \in Tids \ {t} : \A l \in Keys : Locked(u, l) => Seen(u, l)' = Seen(u, l)
  <2>1. stmt[t].kind # "scan"
    BY <1>1
  <2> QED
    BY <1>1, <1>2, <1>9, <2>1, ModifyEffect
<1>12. ScanOK(t)'
  <2>1. /\ stmt'[t].file = stmt[t].file /\ stmt'[t].i = stmt[t].i
        /\ stmt'[t].j = stmt[t].j /\ stmt'[t].seen = stmt[t].seen
    BY <1>8, <1>10
  <2>2. ~ HasRow(stmt'[t])
    BY <1>8, <1>10 DEF HasRow
  <2>3. \A l \in Keys : Locked(t, l)' <=> Locked(t, l)
    BY <1>11 DEF Locked
  <2>4. \A y \in stmt[t].seen :
            y \in removed'[t] \/ \E l \in Keys : Locked(t, l)' /\ y \in TuplesOf(Seen(t, l)')
    <3>1. ASSUME NEW y \in stmt[t].seen, y # x, NEW l \in Keys, Locked(t, l), y \in TuplesOf(Seen(t, l))
          PROVE  y \in TuplesOf(Seen(t, l)')
      <4>1. CASE l = k
        BY <1>5, <1>9, <1>11, <3>1, <4>1
      <4>2. CASE l # k
        BY <1>11, <3>1, <4>2
      <4> QED
        BY <4>1, <4>2
    <3>2. \A y \in stmt[t].seen :
              y \in removed[t] \/ \E l \in Keys : Locked(t, l) /\ y \in TuplesOf(Seen(t, l))
      BY <1>6 DEF ScanAt
    <3> QED
      BY <1>8, <2>3, <3>1, <3>2
  <2>5. ASSUME NEW l \in Keys, l.file = stmt[t].file, Locked(t, l), NEW r \in Used(Seen(t, l)')
        PROVE  Seen(t, l)'[r] \in stmt[t].seen <=>
                   (l.pageNo < stmt[t].i \/ (l.pageNo = stmt[t].i /\ r < stmt[t].j))
    <3>1. r \in Used(Seen(t, l)) /\ Seen(t, l)'[r] = Seen(t, l)[r]
      <4>1. CASE l = k
        <5>1. r \in Used(Data(t)) /\ r # s /\ r \in SlotNos
          BY <1>9, <1>11, <2>5, <4>1 DEF Used
        <5> QED
          BY <1>5, <1>9, <1>11, <4>1, <5>1
      <4>2. CASE l # k
        BY <1>11, <2>5, <4>2
      <4> QED
        BY <4>1, <4>2
    <3> QED
      BY <1>6, <2>5, <3>1 DEF ScanAt
  <2>6. PageOf(stmt[t])' = k
    BY <1>2, <2>1 DEF PageOf
  <2>7. Locked(t, PageOf(stmt[t]))'
    BY <1>5, <2>3, <2>6 DEF Locked
  <2>8. ScanAt(t, stmt[t])'
    BY <2>1, <2>2, <2>3, <2>4, <2>5, <2>7 DEF ScanAt, HasRow
  <2> QED
    BY <2>8 DEF ScanOK, ScanAt, HasRow
<1>13. ASSUME NEW u \in Tids, Scanning(u)' PROVE ScanOK(u)'
  <2>1. CASE u = t
    BY <1>12, <2>1
  <2>2. CASE u # t
    BY <1>11, <1>8, <1>13, <2>2, OtherScans
  <2> QED
    BY <2>1, <2>2
<1> QED
  BY <1>11, <1>8, <1>13 DEF Exact

-----------------------------------------------------------------------------
(* The end of a transaction                                                *)

\* What both ends do: t has no locks, no page and no statement left.
LEMMA EndEffect ==
    ASSUME HeapInv, NEW t \in Tids, Commit(t) \/ Abort(t)
    PROVE  /\ t \notin ended /\ ended' = ended \cup {t}
           /\ \A k \in Keys : ~ Writes(t, k)'
           /\ \A u \in Tids \ {t}, k \in Keys : Writes(u, k)' <=> Writes(u, k)
           /\ \A u \in Tids \ {t} : lockPage'[u] = lockPage[u]
           /\ HandlesPool => HandlesPool'
           /\ stmt' = stmt /\ stmt[t] = Nil
           /\ UNCHANGED <<unused, added, removed>>
<1>0. TypeOK /\ LockTypeOK
  BY DEF HeapInv, TypeOK
<1>1. /\ End(t)
      /\ lockPage' = [lockPage EXCEPT ![t] = [k \in Keys |-> Nil]]
      /\ handle' = [handle EXCEPT ![t] = Nil]
      /\ stmt' = stmt /\ stmt[t] = Nil
      /\ UNCHANGED <<unused, added, removed>>
  BY DEF Commit, Abort, CommitTransaction, AbortTransaction, ClearMap
<1>2. t \notin ended /\ ended' = ended \cup {t}
  BY <1>1 DEF End, Running
<1>3. mapPageLocksByTid' = [mapPageLocksByTid EXCEPT ![t] = [k \in Keys |-> Nil]]
  BY <1>1 DEF End, ReleaseLocks
<1>4. \A k \in Keys : ~ Writes(t, k)'
  BY <1>0, <1>3, NilAssumption DEF Writes, LockTypeOK, Perms
<1>5. \A u \in Tids \ {t}, k \in Keys : Writes(u, k)' <=> Writes(u, k)
  BY <1>0, <1>3 DEF Writes, LockTypeOK
<1>6. \A u \in Tids \ {t} : lockPage'[u] = lockPage[u] /\ handle'[u] = handle[u]
  BY <1>0, <1>1 DEF TypeOK
<1>7. handle'[t] = Nil
  BY <1>0, <1>1 DEF TypeOK
<1>8. HandlesPool => HandlesPool'
  BY <1>6, <1>7 DEF HandlesPool
<1> QED
  BY <1>1, <1>2, <1>4, <1>5, <1>6, <1>8

\* AbortTransaction drops the pages that t has locked for writing.
LEMMA PagesAbort ==
    ASSUME HeapInv, HeapInv', PagesOK, NEW t \in Tids, Abort(t)
    PROVE  /\ PagesOK'
           /\ \A l \in Keys : /\ Writes(t, l) => In(l)' = On(l) /\ ~ Dirty(l)' /\ pages'[l] = Nil
                              /\ ~ Writes(t, l) => In(l)' = In(l) /\ (Dirty(l)' <=> Dirty(l)) /\ pages'[l] = pages[l]
<1>0. /\ TypeOK /\ TypeOK' /\ LockTypeOK /\ TuplesOK /\ SlotsApart /\ LockCompatible
      /\ PendingNowhere /\ PendingOnce
  BY DEF HeapInv, PagesOK, TypeOK
<1>1. /\ disk' = disk /\ heap' = Collected(heap) /\ committed' = committed
      /\ ClearMap(t, pages)
  BY DEF Abort, AbortTransaction
<1>2. /\ ended' = ended \cup {t}
      /\ \A k \in Keys : ~ Writes(t, k)'
      /\ \A u \in Tids \ {t}, k \in Keys : Writes(u, k)' <=> Writes(u, k)
      /\ \A u \in Tids \ {t} : lockPage'[u] = lockPage[u]
      /\ stmt' = stmt /\ stmt[t] = Nil
      /\ UNCHANGED <<unused, added, removed>>
  BY EndEffect
<1>3. \A l \in Keys : On(l)' = On(l)
  BY <1>1 DEF On
<1>4. ASSUME NEW l \in Keys, Writes(t, l)
      PROVE  In(l)' = On(l) /\ ~ Dirty(l)' /\ pages'[l] = Nil
  <2>1. pages'[l] = Nil
    BY <1>1, <1>4 DEF ClearMap, Writes
  <2> QED
    BY <1>1, <2>1, PageDropped
<1>5. ASSUME NEW l \in Keys, ~ Writes(t, l)
      PROVE  /\ In(l)' = In(l) /\ (Dirty(l)' <=> Dirty(l))
             /\ pages'[l] # Nil => Injective(heap'[l][pages'[l]].data)
             /\ pages'[l] = pages[l]
  <2>1. pages'[l] = pages[l]
    BY <1>1, <1>5 DEF ClearMap, Writes
  <2> QED
    BY <1>0, <1>1, <2>1, PageSame
<1>6. TuplesOK'
  <2>1. \A u \in Tids \ {t} : /\ added'[u] = added[u]
                              /\ removed'[u] = removed[u]
                              /\ u \in ended' <=> u \in ended
    BY <1>2
  <2>2. t \in ended'
    BY <1>2
  <2> QED
    BY <1>0, <1>1, <1>2, <1>3, <1>4, <1>5, <2>1, <2>2, TuplesReverted
<1>7. SlotsApart'
  BY <1>0, <1>1, <1>4, <1>5 DEF SlotsApart
<1>8. PendingNowhere' /\ PendingOnce'
  <2>1. \A l \in Keys : \A x : x \in In(l)' \/ x \in On(l)' => x \in In(l) \/ x \in On(l)
    BY <1>3, <1>4, <1>5
  <2>2. \A u \in Tids : \A x \in Tuples : Inserts(u, x)' => Inserts(u, x)
    BY <1>2 DEF Inserts
  <2> QED
    BY <1>0, <1>2, <2>1, <2>2, PendingKept
<1> QED
  BY <1>4, <1>5, <1>6, <1>7, <1>8 DEF PagesOK

LEMMA ExactAbort ==
    ASSUME HeapInv, HeapInv', Exact, InPool', PoolOnDisk', NEW t \in Tids, Abort(t)
    PROVE  Exact'
<1>0. TypeOK /\ TypeOK'
  BY DEF HeapInv
<1>1. heap' = Collected(heap)
  BY DEF Abort, AbortTransaction
<1>2. /\ \A u \in Tids \ {t} : lockPage'[u] = lockPage[u]
      /\ HandlesPool'
      /\ stmt' = stmt /\ stmt[t] = Nil
      /\ UNCHANGED <<unused, added, removed>>
  BY EndEffect DEF Exact
<1>9. ASSUME NEW u \in Tids, Scanning(u)' PROVE ScanOK(u)'
  <2>1. u # t
    BY <1>2, <1>9 DEF Scanning
  <2>2. \A l \in Keys : Locked(u, l) => Seen(u, l)' = Seen(u, l)
    BY <1>0, <1>1, <1>2, <2>1, SeenKept
  <2> QED
    BY <1>2, <1>9, <2>1, <2>2, OtherScans
<1> QED
  BY <1>2, <1>9, PagesAbort DEF Exact

\* Of the page objects, a commit marks those clean that it writes.
LEMMA FlushedObjects ==
    ASSUME TypeOK, NEW t \in Tids,
           \A k \in Flushed(t) : lockPage[t][k] = pages[k],
           NEW k \in Keys, NEW x \in Live(k)
    PROVE  /\ Cleaned(Flushed(t), lockPage[t])[k][x].data = heap[k][x].data
           /\ Cleaned(Flushed(t), lockPage[t])[k][x].dirty =
                  IF k \in Flushed(t) /\ x = pages[k] THEN FALSE ELSE heap[k][x].dirty
<1> DEFINE h == Cleaned(Flushed(t), lockPage[t])
<1>1. x \in Objs /\ heap[k][x] \in Page
  BY DEF TypeOK, Live
<1>2. heap[k][x] = [data |-> heap[k][x].data, dirty |-> heap[k][x].dirty]
  BY <1>1 DEF Page
<1>3. CASE k \in Flushed(t)
  <2>1. h[k] = [heap[k] EXCEPT ![pages[k]].dirty = FALSE]
    BY <1>3 DEF Cleaned
  <2>2. heap[k] \in [Objs -> Page \cup {Nil}]
    BY DEF TypeOK
  <2>3. CASE x = pages[k]
    <3>1. h[k][x] = [heap[k][x] EXCEPT !.dirty = FALSE]
      BY <1>1, <2>1, <2>2, <2>3
    <3> QED
      BY <1>1, <1>3, <2>3, <3>1 DEF Page
  <2>4. CASE x # pages[k]
    BY <1>1, <2>1, <2>2, <2>4
  <2> QED
    BY <2>3, <2>4
<1>4. CASE k \notin Flushed(t)
  BY <1>4 DEF Cleaned
<1> QED
  BY <1>3, <1>4

\* CommitTransaction writes the dirty pages among those t has locked, which
\* are locked for writing.
LEMMA PagesCommit ==
    ASSUME HeapInv, HeapInv', PagesOK, NEW t \in Tids, Commit(t),
           \A k \in Flushed(t) : lockPage[t][k] = pages[k],
           \A k \in Keys : Writes(t, k) /\ Dirty(k) => lockPage[t][k] = pages[k]
    PROVE  /\ PagesOK'
           /\ \A k \in Keys : /\ In(k)' = In(k) /\ pages'[k] = pages[k]
                              /\ Writes(t, k) => ~ Dirty(k)'
                              /\ ~ Writes(t, k) => (Dirty(k)' <=> Dirty(k))
<1> DEFINE h == Cleaned(Flushed(t), lockPage[t])
<1>0. /\ TypeOK /\ TypeOK' /\ LockTypeOK /\ TuplesOK /\ SlotsApart /\ LockCompatible
      /\ PendingNowhere /\ PendingOnce /\ DirtyOnDisk
  BY DEF HeapInv, PagesOK, TypeOK
<1>1. /\ disk' = [k \in Keys |-> IF k \in Flushed(t) THEN heap[k][lockPage[t][k]].data ELSE disk[k]]
      /\ pages' = pages /\ heap' = Collected(h)
      /\ committed' = (committed \cup added[t]) \ removed[t]
  BY DEF Commit, CommitTransaction
<1>2. /\ t \notin ended /\ ended' = ended \cup {t}
      /\ \A k \in Keys : ~ Writes(t, k)'
      /\ \A u \in Tids \ {t}, k \in Keys : Writes(u, k)' <=> Writes(u, k)
      /\ \A u \in Tids \ {t} : lockPage'[u] = lockPage[u]
      /\ stmt' = stmt /\ stmt[t] = Nil
      /\ UNCHANGED <<unused, added, removed>>
  BY EndEffect
<1>3. \A k \in Keys : k \in Flushed(t) => lockPage[t][k] = pages[k] /\ pages[k] # Nil /\ Dirty(k)
  <2>1. ASSUME NEW k \in Keys, k \in Flushed(t)
        PROVE  lockPage[t][k] = pages[k] /\ pages[k] # Nil /\ Dirty(k)
    <3>1. lockPage[t][k] = pages[k] /\ pages[k] # Nil /\ heap[k][pages[k]].dirty
      BY <2>1 DEF Flushed
    <3>2. pages[k] \in Live(k)
      BY <1>0, <3>1, PointersReach DEF Reached
    <3> QED
      BY <1>0, <3>1, <3>2 DEF DirtyOnDisk, Dirty
  <2> QED
    BY <2>1
<1>4. \A k \in Keys : k \in Flushed(t) =>
          lockPage[t][k] = pages[k] /\ pages[k] # Nil /\ disk[k] # Nil /\ Writes(t, k)
  <2>1. ASSUME NEW k \in Keys, k \in Flushed(t) PROVE Writes(t, k)
    <3>1. PICK u \in Tids : Writes(u, k)
      BY <1>0, <1>3, <2>1 DEF TuplesOK, ChangesKnown
    <3>2. mapPageLocksByTid[t][k] # Nil
      BY <1>0, <1>3, <2>1 DEF TypeOK
    <3> QED
      BY <1>0, <3>1, <3>2, OneWriter
  <2> QED
    BY <1>3, <2>1 DEF Dirty
<1>5. ASSUME NEW k \in Keys, NEW x \in Live(k)
      PROVE  /\ h[k][x].data = heap[k][x].data
             /\ h[k][x].dirty = IF k \in Flushed(t) /\ x = pages[k] THEN FALSE ELSE heap[k][x].dirty
  BY <1>0, <1>4, <1>5, FlushedObjects
<1> HIDE DEF h
<1>6. ASSUME NEW k \in Keys, pages[k] # Nil
      PROVE  /\ heap'[k][pages'[k]].data = heap[k][pages[k]].data
             /\ heap'[k][pages'[k]].dirty = IF k \in Flushed(t) THEN FALSE ELSE heap[k][pages[k]].dirty
  <2>1. pages[k] \in Live(k)
    BY <1>0, <1>6, PointersReach DEF Reached
  <2>2. pages'[k] \in Live(k)'
    BY <1>0, <1>1, <1>6, PointersReachNext DEF Reached
  <2>3. heap'[k][pages'[k]] = h[k][pages'[k]]
    BY <1>1, <2>2, CollectedKeeps
  <2>4. /\ h[k][pages[k]].data = heap[k][pages[k]].data
        /\ h[k][pages[k]].dirty = IF k \in Flushed(t) THEN FALSE ELSE heap[k][pages[k]].dirty
    BY <1>5, <2>1
  <2>5. heap'[k][pages'[k]] = h[k][pages[k]]
    BY <1>1, <2>3
  <2> QED
    BY <2>4, <2>5
<1>7. \A k \in Keys : k \in Flushed(t) => On(k)' = In(k) /\ disk'[k] = heap[k][pages[k]].data
  <2>1. ASSUME NEW k \in Keys, k \in Flushed(t)
        PROVE  On(k)' = In(k) /\ disk'[k] = heap[k][pages[k]].data
    <3>1. disk'[k] = heap[k][pages[k]].data /\ pages[k] # Nil
      BY <1>1, <1>4, <2>1
    <3>2. disk'[k] # Nil
      BY <1>0, <3>1, PagesAreSlots, HeapContentAssumption, PageNilAssumption
    <3> QED
      BY <1>4, <2>1, <3>1, <3>2 DEF On, In
  <2> QED
    BY <2>1
<1>8. \A k \in Keys : k \notin Flushed(t) => On(k)' = On(k) /\ disk'[k] = disk[k]
  BY <1>1 DEF On
<1>9. \A k \in Keys : Dirty(k)' <=> (Dirty(k) /\ k \notin Flushed(t))
  <2>1. \A k \in Keys : disk'[k] # Nil <=> disk[k] # Nil
    BY <1>0, CommitKeepsFiles DEF Commit
  <2> QED
    BY <1>1, <1>6, <2>1 DEF Dirty
<1>10. ASSUME NEW k \in Keys, Writes(t, k) PROVE On(k)' = In(k) /\ ~ Dirty(k)'
  <2>1. CASE k \in Flushed(t)
    BY <1>7, <1>9, <2>1
  <2>2. CASE k \notin Flushed(t)
    <3>1. ASSUME Dirty(k) PROVE k \in Flushed(t)
      <4>1. lockPage[t][k] = pages[k]
        BY <1>10, <3>1
      <4> QED
        BY <3>1, <4>1 DEF Flushed, Dirty
    <3>3. ~ Dirty(k)
      BY <2>2, <3>1
    <3>4. In(k) = On(k)
      BY <1>0, <3>3 DEF TuplesOK, ChangesKnown
    <3> QED
      BY <1>8, <1>9, <2>2, <3>3, <3>4
  <2> QED
    BY <2>1, <2>2
<1>11. ASSUME NEW k \in Keys, ~ Writes(t, k) PROVE On(k)' = On(k) /\ (Dirty(k)' <=> Dirty(k))
  BY <1>4, <1>8, <1>9, <1>11
<1>12. ASSUME NEW k \in Keys PROVE In(k)' = In(k)
  <2>1. CASE pages[k] # Nil /\ disk[k] # Nil
    <3>1. disk'[k] # Nil
      BY <1>0, <2>1, CommitKeepsFiles DEF Commit
    <3> QED
      BY <1>1, <1>6, <2>1, <3>1 DEF In
  <2>2. CASE pages[k] = Nil \/ disk[k] = Nil
    <3>1. k \notin Flushed(t)
      BY <1>4, <2>2
    <3> QED
      BY <1>1, <1>8, <2>2, <3>1 DEF In
  <2> QED
    BY <2>1, <2>2
<1>13. TuplesOK'
  BY <1>0, <1>1, <1>2, <1>10, <1>11, <1>12, TuplesCommitted
<1>14. SlotsApart'
  <2>1. ASSUME NEW k \in Keys PROVE disk'[k] # Nil => Injective(disk'[k])
    BY <1>0, <1>4, <1>7, <1>8 DEF SlotsApart
  <2>2. ASSUME NEW k \in Keys, pages'[k] # Nil PROVE Injective(heap'[k][pages'[k]].data)
    BY <1>0, <1>1, <1>6, <2>2 DEF SlotsApart
  <2> QED
    BY <2>1, <2>2 DEF SlotsApart
<1>15. PendingNowhere' /\ PendingOnce'
  <2>1. \A l \in Keys : \A x : x \in In(l)' \/ x \in On(l)' => x \in In(l) \/ x \in On(l)
    BY <1>10, <1>11, <1>12
  <2>2. \A u \in Tids : \A x \in Tuples : Inserts(u, x)' => Inserts(u, x)
    BY <1>2 DEF Inserts
  <2> QED
    BY <1>0, <1>2, <2>1, <2>2, PendingKept
<1> QED
  BY <1>1, <1>10, <1>11, <1>12, <1>13, <1>14, <1>15 DEF PagesOK

LEMMA ExactCommit ==
    ASSUME HeapInv, HeapInv', Exact, InPool', PoolOnDisk', NEW t \in Tids, Commit(t)
    PROVE  Exact'
<1> DEFINE h == Cleaned(Flushed(t), lockPage[t])
<1>0. TypeOK /\ TypeOK' /\ InPool /\ PagesOK
  BY DEF HeapInv, Exact
<1>1. heap' = Collected(h)
  BY DEF Commit, CommitTransaction
<1>2. /\ \A u \in Tids \ {t} : lockPage'[u] = lockPage[u]
      /\ HandlesPool'
      /\ stmt' = stmt /\ stmt[t] = Nil
      /\ UNCHANGED <<unused, added, removed>>
  BY EndEffect DEF Exact
<1>3. \A k \in Flushed(t) : lockPage[t][k] = pages[k]
  BY <1>0 DEF InPool, Flushed
<1>4. \A k \in Keys : Writes(t, k) /\ Dirty(k) => lockPage[t][k] = pages[k]
  <2>1. \A k \in Keys : Writes(t, k) => lockPage[t][k] # Nil
    BY <1>0, NilAssumption DEF Writes, Perms, TypeOK
  <2> QED
    BY <1>0, <2>1 DEF InPool
<1>5. \A k \in Keys : \A x \in Live(k) : h[k][x].data = heap[k][x].data
  BY <1>0, <1>3, FlushedObjects
<1>6. PagesOK'
  BY <1>0, <1>3, <1>4, PagesCommit
<1> HIDE DEF h
<1>16. ASSUME NEW u \in Tids, Scanning(u)' PROVE ScanOK(u)'
  <2>1. u # t
    BY <1>2, <1>16 DEF Scanning
  <2>2. \A l \in Keys : Locked(u, l) => Seen(u, l)' = Seen(u, l)
    <3>1. \A l \in Keys : \A x \in Live(l) : h[l][x].data = heap[l][x].data
      BY <1>5
    <3>2. \A l \in Keys : lockPage'[u][l] = lockPage[u][l]
      BY <1>2, <2>1
    <3>3. heap' = Collected(h)
      BY <1>1
    <3> QED
      BY <1>0, <3>1, <3>2, <3>3, SeenKept
  <2> QED
    BY <1>2, <1>16, <2>1, <2>2, OtherScans
<1> QED
  BY <1>2, <1>6, <1>16 DEF Exact

-----------------------------------------------------------------------------
(* The theorem                                                             *)

LEMMA ExactInitOK == HeapInit => ExactInv
<1> SUFFICES ASSUME HeapInit PROVE HeapInv /\ Exact
  BY DEF ExactInv
<1>0. HeapInv
  BY HeapInitOK
<1>1. /\ pages = [k \in Keys |-> Nil] /\ lockPage = [t \in Tids |-> [k \in Keys |-> Nil]]
      /\ handle = [t \in Tids |-> Nil] /\ disk = DiskInit /\ waiting = [t \in Tids |-> Nil]
      /\ mapPageLocksByTid = [t \in Tids |-> [k \in Keys |-> Nil]]
  BY DEF HeapInit, Init, LockInit
<1>2. /\ stmt = [t \in Tids |-> Nil] /\ unused = Tuples \ committed
      /\ added = [t \in Tids |-> {}] /\ removed = [t \in Tids |-> {}]
      /\ committed = UNION {TuplesOf(DiskInit[k]) : k \in {l \in Keys : DiskInit[l] # Nil}}
  BY DEF HeapInit
<1>3. InPool /\ HandlesPool /\ PoolOnDisk
  BY <1>1 DEF InPool, HandlesPool, PoolOnDisk
<1>4. \A k \in Keys : DiskInit[k] # Nil => Injective(DiskInit[k])
  <2>1. ASSUME NEW k \in Keys, DiskInit[k] # Nil, NEW r \in Used(DiskInit[k]), NEW s \in Used(DiskInit[k]),
               DiskInit[k][r] = DiskInit[k][s]
        PROVE  r = s
    <3>1. k \in {m \in Keys : DiskInit[m] # Nil}
      BY <2>1
    <3>2. <<k, r>> = <<k, s>>
      BY <2>1, <3>1, PlacesAssumption
    <3> QED
      BY <3>2
  <2> QED
    BY <2>1 DEF Injective
<1>5. SlotsApart
  BY <1>1, <1>4 DEF SlotsApart
<1>6. \A k \in Keys : In(k) = On(k) /\ ~ Dirty(k) /\ \A t \in Tids : ~ Writes(t, k)
  BY <1>1, NilAssumption DEF In, Dirty, Writes, Perms
<1>7. ChangesKnown
  BY <1>6 DEF ChangesKnown
<1>8. ChangesMade
  BY <1>2 DEF ChangesMade
<1>9. PlacesApart
  <2>1. ASSUME NEW k \in Keys, NEW l \in Keys, k # l, NEW x \in On(k), x \in On(l) PROVE FALSE
    <3>1. DiskInit[k] # Nil /\ DiskInit[l] # Nil /\ x \in TuplesOf(DiskInit[k]) /\ x \in TuplesOf(DiskInit[l])
      BY <1>1, <2>1 DEF On
    <3>2. PICK r \in Used(DiskInit[k]) : x = DiskInit[k][r]
      BY <3>1 DEF TuplesOf
    <3>3. PICK s \in Used(DiskInit[l]) : x = DiskInit[l][s]
      BY <3>1 DEF TuplesOf
    <3>4. k \in {m \in Keys : DiskInit[m] # Nil} /\ l \in {m \in Keys : DiskInit[m] # Nil}
      BY <3>1
    <3>5. DiskInit[k][r] = DiskInit[l][s]
      BY <3>2, <3>3
    <3>6. \A a \in Used(DiskInit[k]), b \in Used(DiskInit[l]) :
              DiskInit[k][a] = DiskInit[l][b] => <<k, a>> = <<l, b>>
      BY <3>4, PlacesAssumption
    <3>7. <<k, r>> = <<l, s>>
      BY <3>2, <3>3, <3>5, <3>6
    <3> QED
      BY <2>1, <3>7
  <2> QED
    BY <1>6, <2>1 DEF PlacesApart
<1>10. FilesCommitted
  <2>1. ASSUME NEW x PROVE x \in committed <=> \E k \in Keys : x \in On(k)
    BY <1>1, <1>2 DEF On
  <2> QED
    BY <2>1 DEF FilesCommitted
<1>11. \A t \in Tids : ~ Scanning(t) /\ \A x \in Tuples : ~ Inserts(t, x)
  BY <1>2 DEF Scanning, Inserts
<1>12. PendingNowhere
  <2>1. ASSUME NEW x \in Tuples, Pending(x) PROVE \A k \in Keys : x \notin On(k)
    BY <1>2, <1>10, <1>11, <2>1 DEF Pending, FilesCommitted
  <2> QED
    BY <1>2, <1>6, <2>1 DEF PendingNowhere
<1>13. PendingOnce
  BY <1>11 DEF PendingOnce
<1> QED
  BY <1>0, <1>3, <1>5, <1>7, <1>8, <1>9, <1>10, <1>11, <1>12, <1>13 DEF Exact, PagesOK, TuplesOK

LEMMA ExactStutters ==
    ASSUME Exact, UNCHANGED <<vars, heapVars>>
    PROVE  Exact'
<1>1. /\ UNCHANGED <<mapPageLocksByTid, waiting, ended, pages, lockPage, waitPage, handle, heap, disk>>
      /\ UNCHANGED <<stmt, unused, added, removed, committed>>
  BY DEF vars, lockVars, pointers, heapVars
<1>2. InPool' /\ PoolOnDisk' /\ HandlesPool' /\ SlotsApart'
  BY <1>1 DEF Exact, PagesOK, InPool, PoolOnDisk, HandlesPool, SlotsApart
<1>3. /\ \A k \in Keys : In(k)' = In(k) /\ On(k)' = On(k) /\ (Dirty(k)' <=> Dirty(k))
      /\ \A t \in Tids, k \in Keys : Writes(t, k)' <=> Writes(t, k)
  BY <1>1 DEF In, On, Dirty, Writes
<1>4. TuplesOK'
  BY <1>1, <1>3 DEF Exact, PagesOK, TuplesOK, ChangesKnown, ChangesMade, PlacesApart, FilesCommitted
<1>5. PendingNowhere' /\ PendingOnce'
  BY <1>1, <1>3 DEF Exact, PagesOK, PendingNowhere, PendingOnce, Pending, Inserts
<1>6. \A t \in Tids : Scanning(t)' => ScanOK(t)'
  BY <1>1 DEF Exact, Scanning, ScanOK, Locked, Seen
<1> QED
  BY <1>2, <1>4, <1>5, <1>6 DEF Exact, PagesOK

\* The pool reads pages of the files, and no file loses a page.
LEMMA PoolStaysOnDisk ==
    ASSUME HeapInv, PoolOnDisk, NEW t \in Tids, HeapAction(t)
    PROVE  PoolOnDisk'
<1>0. TypeOK /\ DirtyOnDisk
  BY DEF HeapInv
<1>1. CASE CallGetPage(t) \/ Awake(t)
  <2>1. /\ stmt[t] # Nil /\ stmt[t].ph \in {"get", "asleep"} /\ Answered(t)
        /\ \/ GetPage(t, PageOf(stmt[t]), PermOf(stmt[t]))
           \/ WakeGetPage(t) /\ waiting[t] = [key |-> PageOf(stmt[t]), perm |-> PermOf(stmt[t])]
    BY <1>1, HeapGets
  <2>2. PICK k \in Keys, perm \in Perms : k = PageOf(stmt[t]) /\ perm = PermOf(stmt[t])
    BY <2>1, CallsPage
  <2>3. \/ \E o, pgs, h : Found(k, o, pgs, h) /\ HandleTransaction(t, k, perm, o, pgs, h)
        \/ Running(t) /\ \E pgs \in MadeRoom \cup {pages} : Fails(t, pgs)
    BY <1>0, <2>1, <2>2, GetPageFound
  <2>4. ASSUME NEW pgs \in MadeRoom \cup {pages}, Fails(t, pgs) PROVE PoolOnDisk'
    <3>1. pages' = pgs /\ disk' = disk
      BY <2>4 DEF Fails
    <3>2. \A l \in Keys : pgs[l] = pages[l] \/ pgs[l] = Nil
      BY <1>0, MadeRoomClean
    <3> QED
      BY <3>1, <3>2 DEF PoolOnDisk
  <2>5. ASSUME NEW o, NEW pgs, NEW h, Found(k, o, pgs, h), HandleTransaction(t, k, perm, o, pgs, h)
        PROVE  PoolOnDisk'
    <3>1. disk' = disk /\ \A l \in Keys : pages'[l] \in {Nil, pgs[l]}
      <4>1. disk' = disk
        BY <1>0, <2>5, HandleEffect
      <4>2. pages' = pgs \/ ClearMap(t, pgs)
        BY <1>0, <2>5, HandleEffect
      <4> QED
        BY <4>1, <4>2 DEF ClearMap
    <3>2. \A l \in Keys : pgs[l] # Nil => pages[l] # Nil \/ disk[l] # Nil
      BY <2>5 DEF Found
    <3> QED
      BY <3>1, <3>2 DEF PoolOnDisk
  <2> QED
    BY <2>3, <2>4, <2>5
<1>2. CASE Quiet(t)
  <2>1. UNCHANGED vars
    BY <1>2 DEF Quiet, InsertDropped, StartScan, ScanRow, ScanPageDone, ScanNext, ScanStops, DeleteRow
  <2> QED
    BY <2>1 DEF PoolOnDisk, vars, pointers
<1>3. CASE Grows(t)
  <2>1. pages' = pages
    BY <1>3, GrowsDisk DEF pointers
  <2> QED
    BY <1>3, <2>1, GrownFiles DEF PoolOnDisk
<1>4. CASE InsertTuple(t)
  BY <1>4 DEF InsertTuple, Modify, pointers, PoolOnDisk
<1>5. CASE DeleteTuple(t)
  <2>1. UNCHANGED <<pages, disk>>
    BY <1>5 DEF DeleteTuple, Modify, pointers, vars
  <2> QED
    BY <2>1 DEF PoolOnDisk
<1>6. CASE Commit(t)
  <2>1. pages' = pages
    BY <1>6 DEF Commit, CommitTransaction
  <2>2. \A k \in Keys : disk[k] # Nil => disk'[k] # Nil
    BY <1>0, <1>6, CommitKeepsFiles DEF Commit
  <2> QED
    BY <2>1, <2>2 DEF PoolOnDisk
<1>7. CASE Abort(t)
  <2>1. disk' = disk /\ \A k \in Keys : pages'[k] \in {Nil, pages[k]}
    BY <1>7 DEF Abort, AbortTransaction, ClearMap
  <2> QED
    BY <2>1 DEF PoolOnDisk
<1> QED
  BY <1>1, <1>2, <1>3, <1>4, <1>5, <1>6, <1>7 DEF HeapAction

LEMMA ExactStepOK == ExactInv /\ [HeapNext]_<<vars, heapVars>> => ExactInv'
<1> SUFFICES ASSUME ExactInv, [HeapNext]_<<vars, heapVars>> PROVE ExactInv'
  OBVIOUS
<1>1. HeapInv /\ HeapInv'
  BY HeapStepOK DEF ExactInv
<1>2. CASE UNCHANGED <<vars, heapVars>>
  <2>1. detached' = detached
    BY <1>2 DEF heapVars
  <2> QED
    BY <1>1, <1>2, <2>1, ExactStutters DEF ExactInv
<1>3. CASE HeapNext
  <2>1. detached' \/ (~ detached /\ InPool')
    BY <1>1, <1>3 DEF HeapNext, HeapInv, CallsTyped
  <2>2. ASSUME ~ detached, InPool' PROVE Exact'
    <3>1. Exact
      BY <2>2 DEF ExactInv
    <3>2. PICK t \in Tids : HeapAction(t)
      BY <1>3, HeapSteps
    <3>0. PoolOnDisk'
      BY <1>1, <3>1, <3>2, PoolStaysOnDisk DEF Exact
    <3>3. CASE CallGetPage(t) \/ Awake(t)
      BY <1>1, <2>2, <3>0, <3>1, <3>3, ExactGet
    <3>4. CASE Quiet(t)
      BY <1>1, <2>2, <3>0, <3>1, <3>4, ExactQuiet
    <3>5. CASE Grows(t)
      BY <1>1, <2>2, <3>0, <3>1, <3>5, ExactGrows
    <3>6. CASE InsertTuple(t)
      BY <1>1, <2>2, <3>0, <3>1, <3>6, ExactInsert
    <3>7. CASE DeleteTuple(t)
      BY <1>1, <2>2, <3>0, <3>1, <3>7, ExactDelete
    <3>8. CASE Commit(t)
      BY <1>1, <2>2, <3>0, <3>1, <3>8, ExactCommit
    <3>9. CASE Abort(t)
      BY <1>1, <2>2, <3>0, <3>1, <3>9, ExactAbort
    <3> QED
      BY <3>2, <3>3, <3>4, <3>5, <3>6, <3>7, <3>8, <3>9 DEF HeapAction
  <2> QED
    BY <1>1, <2>1, <2>2 DEF ExactInv
<1> QED
  BY <1>2, <1>3

\* What FilesExact says of a file follows from what is known of its pages.
LEMMA FilesAreExact ==
    ASSUME PagesOK
    PROVE  FilesExact
<1>0. TuplesOK /\ SlotsApart
  BY DEF PagesOK
<1>1. UNION {TuplesOf(disk[k]) : k \in OnDisk} = committed
  <2>1. ASSUME NEW x PROVE x \in committed <=> \E k \in OnDisk : x \in TuplesOf(disk[k])
    BY <1>0 DEF TuplesOK, FilesCommitted, On, OnDisk
  <2> QED
    BY <2>1
<1>2. ASSUME NEW k \in OnDisk, NEW l \in OnDisk, NEW r \in Used(disk[k]), NEW s \in Used(disk[l]),
             disk[k][r] = disk[l][s]
      PROVE  <<k, r>> = <<l, s>>
  <2>1. k \in Keys /\ l \in Keys /\ disk[k] # Nil /\ disk[l] # Nil
    BY <1>2 DEF OnDisk
  <2>2. disk[k][r] \in On(k) /\ disk[l][s] \in On(l)
    BY <1>2, <2>1 DEF On, TuplesOf
  <2>3. k = l
    BY <1>0, <1>2, <2>1, <2>2 DEF TuplesOK, PlacesApart
  <2>4. r = s
    BY <1>0, <1>2, <2>1, <2>3 DEF SlotsApart, Injective
  <2> QED
    BY <2>3, <2>4
<1> QED
  BY <1>1, <1>2 DEF FilesExact

\* What the invariant says of the files, of the scans and of the deletions.
LEMMA ExactImplies == ExactInv => HeapExactUnlessDetached
<1> SUFFICES ASSUME HeapInv, Exact PROVE FilesExact /\ ScanExact /\ DeletesWhatWasRead
  BY DEF ExactInv, HeapExactUnlessDetached
<1>3. FilesExact
  BY FilesAreExact DEF Exact
<1>4. ScanExact
  <2>1. ASSUME NEW t \in Tids, stmt[t] # Nil, stmt[t].kind # "insert" PROVE ScanAt(t, stmt[t])
    BY <2>1, ScanIsAt DEF Exact, Scanning
  <2> QED
    BY <2>1 DEF ScanExact, ScanAt, Locked
<1>5. ASSUME NEW t \in Tids, InPhase(t, {"delete"}, "got")
      PROVE  Data(t)[stmt[t].j - 1] = stmt[t].tup
  <2>1. stmt[t] # Nil /\ stmt[t].kind = "delete" /\ stmt[t].ph = "got"
    BY <1>5 DEF InPhase
  <2>2. PICK k \in Keys : k = PageOf(stmt[t])
    BY <2>1, CallsPage
  <2>3. Data(t) = Seen(t, k)
    BY <2>1, <2>2, GotPage
  <2>4. ScanAt(t, stmt[t])
    BY <2>1, ScanIsAt DEF Exact, Scanning
  <2>5. HasRow(stmt[t])
    BY <2>1 DEF HasRow
  <2> QED
    BY <2>2, <2>3, <2>4, <2>5 DEF ScanAt
<1> QED
  BY <1>3, <1>4, <1>5 DEF DeletesWhatWasRead

\* As long as no page that a transaction uses leaves the pool: the files have
\* exactly the tuples of committed transactions, each once; a scan returns
\* every tuple of the pages it has passed, and none twice; and a tuple is
\* deleted from the slot it was read from.
THEOREM HeapFilesExact == HeapSpec => []HeapExactUnlessDetached
<1>1. ExactInv => HeapExactUnlessDetached
  BY ExactImplies
<1> QED
  BY <1>1, ExactInitOK, ExactStepOK, PTL DEF HeapSpec
=============================================================================
