---------------------------- MODULE HeapFileProofs ----------------------------
(***************************************************************************)
(* Heap files, for any number of transactions, files, pages and tuples:    *)
(* every state is well-formed, the pages of a file have no gaps, and what  *)
(* toBuffer and initFromBuffer, insertTuple and deleteTuple do to the      *)
(* tuples of a page.                                                       *)
(***************************************************************************)
EXTENDS HeapFile, BufferPoolProofs, FunctionTheorems, WellFoundedInduction

-----------------------------------------------------------------------------
(* Slots                                                                   *)

\* A set of slots has a first one.
LEMMA FirstSlot ==
    ASSUME NEW S \in SUBSET SlotNos, S # {}
    PROVE  First(S) \in S /\ \A r \in S : First(S) <= r
<1> DEFINE less == OpToRel(<, Nat)
<1>1. S \subseteq Nat
  BY SlotsAssumption DEF SlotNos
<1>2. IsWellFoundedOn(less, Nat)
  BY NatLessThanWellFounded
<1>3. \A x, y \in Nat : <<x, y>> \in less <=> x < y
  BY DEF OpToRel
<1> HIDE DEF less
<1>4. PICK x \in S : \A y \in S : ~ (<<y, x>> \in less)
  BY <1>1, <1>2, WFMin
<1>5. ASSUME NEW y \in S PROVE x <= y
  <2>1. x \in Nat /\ y \in Nat
    BY <1>1
  <2>2. ~ (y < x)
    BY <1>3, <1>4, <2>1, Zenon
  <2> QED
    BY <2>1, <2>2
<1> QED
  BY <1>5 DEF First

\* Every slot is empty or used.
LEMMA SlotKinds ==
    ASSUME NEW c \in Slots
    PROVE  /\ Used(c) \subseteq SlotNos
           /\ Free(c) \subseteq SlotNos
           /\ TuplesOf(c) \subseteq Tuples
           /\ \A s \in SlotNos : c[s] # Nil => c[s] \in TuplesOf(c)
  BY DEF Used, Free, TuplesOf, Slots

\* No tuple is in two slots.
Injective(c) == \A r, s \in Used(c) : c[r] = c[s] => r = s

\* heapPage.insertTuple puts the tuple into a free slot and changes no other.
LEMMA WithTuple ==
    ASSUME NEW c \in Slots, Free(c) # {}, NEW x \in Tuples
    PROVE  /\ With(c, x) \in Slots
           /\ TuplesOf(With(c, x)) = TuplesOf(c) \cup {x}
           /\ x \notin TuplesOf(c) /\ Injective(c) => Injective(With(c, x))
<1> DEFINE e == First(Free(c))
           d == With(c, x)
<1>1. e \in SlotNos /\ e \notin Used(c)
  BY SlotKinds, FirstSlot DEF Free
<1>2. d \in Slots /\ d[e] = x /\ \A s \in SlotNos : s # e => d[s] = c[s]
  BY <1>1 DEF With, Slots
<1>3. x # Nil
  BY SlotsAssumption
<1> HIDE DEF e, d
<1>4. Used(d) = Used(c) \cup {e}
  BY <1>1, <1>2, <1>3 DEF Used
<1>5. TuplesOf(d) = TuplesOf(c) \cup {x}
  BY <1>1, <1>2, <1>4 DEF TuplesOf, Used
<1>6. ASSUME x \notin TuplesOf(c), Injective(c), NEW r \in Used(d), NEW s \in Used(d), d[r] = d[s]
      PROVE  r = s
  BY <1>1, <1>2, <1>4, <1>6 DEF TuplesOf, Used, Injective
<1>7. x \notin TuplesOf(c) /\ Injective(c) => Injective(d)
  BY <1>6 DEF Injective
<1> QED
  BY <1>2, <1>5, <1>7 DEF d

\* heapPage.deleteTuple removes the tuple of the slot and no other.
LEMMA WithoutTuple ==
    ASSUME NEW c \in Slots, NEW s \in SlotNos, c[s] # Nil, Injective(c)
    PROVE  /\ Without(c, s) \in Slots
           /\ Used(Without(c, s)) = Used(c) \ {s}
           /\ \A r \in SlotNos : r # s => Without(c, s)[r] = c[r]
           /\ TuplesOf(Without(c, s)) = TuplesOf(c) \ {c[s]}
           /\ Injective(Without(c, s))
<1> DEFINE d == Without(c, s)
<1>1. d \in Slots /\ d[s] = Nil /\ \A r \in SlotNos : r # s => d[r] = c[r]
  BY DEF Without, Slots
<1> HIDE DEF d
<1>2. Used(d) = Used(c) \ {s}
  BY <1>1 DEF Used
<1>3. TuplesOf(d) = TuplesOf(c) \ {c[s]}
  <2>1. \A r \in Used(d) : d[r] = c[r] /\ d[r] # c[s]
    BY <1>1, <1>2 DEF Injective, Used
  <2>2. \A r \in Used(c) : c[r] # c[s] => r \in Used(d)
    BY <1>2
  <2> QED
    BY <2>1, <2>2, <1>2 DEF TuplesOf
<1>4. Injective(d)
  BY <1>1, <1>2 DEF Injective, Used
<1> QED
  BY <1>1, <1>2, <1>3, <1>4 DEF d

\* The place of a used slot among the used slots.
Rank(c, s) == Cardinality({r \in Used(c) : r < s})

\* Used slots that come later have a higher place, and no slot moves up.
LEMMA RankOrder ==
    ASSUME NEW c \in Slots
    PROVE  /\ \A s \in Used(c) : Rank(c, s) \in Nat /\ Rank(c, s) <= s
           /\ \A r, s \in Used(c) : r < s => Rank(c, r) < Rank(c, s)
<1> DEFINE B(s) == {r \in Used(c) : r < s}
<1>0. Used(c) \subseteq Nat
  BY SlotsAssumption DEF Used, SlotNos
<1>1. ASSUME NEW s \in Used(c)
      PROVE  IsFiniteSet(B(s)) /\ Cardinality(B(s)) \in Nat /\ Cardinality(B(s)) <= s
  <2>1. s \in Nat /\ B(s) \in SUBSET (0 .. s - 1)
    BY <1>0
  <2>2. IsFiniteSet(0 .. s - 1) /\ Cardinality(0 .. s - 1) = IF 0 > s - 1 THEN 0 ELSE s - 1 - 0 + 1
    BY <2>1, FS_Interval
  <2>3. IsFiniteSet(B(s)) /\ Cardinality(B(s)) <= Cardinality(0 .. s - 1)
    BY <2>1, <2>2, FS_Subset
  <2>4. Cardinality(B(s)) \in Nat
    BY <2>3, FS_CardinalityType
  <2> QED
    BY <2>1, <2>2, <2>3, <2>4
<1>2. ASSUME NEW r \in Used(c), NEW s \in Used(c), r < s
      PROVE  Cardinality(B(r)) < Cardinality(B(s))
  <2>1. IsFiniteSet(B(r)) /\ IsFiniteSet(B(s)) /\ Cardinality(B(r)) \in Nat /\ Cardinality(B(s)) \in Nat
    BY <1>1
  <2>2. B(r) \in SUBSET B(s) /\ r \in B(s) /\ r \notin B(r)
    BY <1>0, <1>2
  <2> HIDE DEF B
  <2>3. B(r) # B(s)
    BY <2>2
  <2>4. Cardinality(B(r)) <= Cardinality(B(s)) /\ Cardinality(B(r)) # Cardinality(B(s))
    BY <2>1, <2>2, <2>3, FS_Subset
  <2> QED
    BY <2>1, <2>4
<1> QED
  BY <1>1, <1>2 DEF Rank

\* Writing a page and reading it back moves tuples to other slots, but keeps
\* them all, and each in one slot.
LEMMA DenseKeeps ==
    ASSUME NEW c \in Slots
    PROVE  /\ Dense(c) \in Slots
           /\ TuplesOf(Dense(c)) = TuplesOf(c)
           /\ Injective(c) => Injective(Dense(c))
<1> DEFINE At(i) == {s \in Used(c) : Rank(c, s) = i}
           d == Dense(c)
<1>0. Used(c) \in SUBSET SlotNos /\ Used(c) \subseteq Nat
  BY SlotsAssumption DEF Used, SlotNos
<1>1. \A r, s \in Used(c) : Rank(c, r) = Rank(c, s) => r = s
  <2>1. \A r, s \in Used(c) : r < s => Rank(c, r) < Rank(c, s)
    BY RankOrder
  <2>2. \A s \in Used(c) : Rank(c, s) \in Nat
    BY RankOrder
  <2> QED
    BY <1>0, <2>1, <2>2
<1>2. ASSUME NEW s \in Used(c) PROVE Rank(c, s) \in SlotNos
  BY <1>0, <1>2, RankOrder, SlotsAssumption DEF SlotNos
<1>3. ASSUME NEW i \in SlotNos PROVE d[i] = IF At(i) = {} THEN Nil ELSE c[First(At(i))]
  BY DEF Dense, Rank
<1>4. ASSUME NEW s \in Used(c) PROVE d[Rank(c, s)] = c[s]
  <2>1. At(Rank(c, s)) = {s}
    BY <1>1
  <2>2. First({s}) = s
    BY <1>0, FirstSlot
  <2> QED
    BY <1>2, <1>3, <2>1, <2>2
<1>5. ASSUME NEW i \in SlotNos, d[i] # Nil PROVE \E s \in Used(c) : Rank(c, s) = i /\ d[i] = c[s]
  <2>1. At(i) # {}
    BY <1>3, <1>5
  <2>2. PICK s \in Used(c) : Rank(c, s) = i
    BY <2>1
  <2> QED
    BY <1>4, <2>2
<1>6. d \in Slots
  <2>1. ASSUME NEW i \in SlotNos PROVE d[i] \in Tuples \cup {Nil}
    BY <1>0, <1>5 DEF Slots
  <2>2. d = [i \in SlotNos |-> d[i]]
    BY DEF Dense
  <2> HIDE DEF d
  <2> QED
    BY <2>1, <2>2 DEF Slots
<1> HIDE DEF d, At
<1>7. ASSUME NEW s \in Used(c) PROVE Rank(c, s) \in Used(d)
  BY <1>2, <1>4 DEF Used
<1>8. TuplesOf(d) = TuplesOf(c)
  <2>1. \A i \in Used(d) : \E s \in Used(c) : d[i] = c[s]
    BY <1>5 DEF Used
  <2>2. \A s \in Used(c) : \E i \in Used(d) : d[i] = c[s]
    BY <1>4, <1>7
  <2> QED
    BY <2>1, <2>2 DEF TuplesOf
<1>9. ASSUME Injective(c), NEW i \in Used(d), NEW j \in Used(d), d[i] = d[j] PROVE i = j
  <2>1. i \in SlotNos /\ j \in SlotNos /\ d[i] # Nil /\ d[j] # Nil
    BY DEF Used
  <2>2. PICK r \in Used(c) : Rank(c, r) = i /\ d[i] = c[r]
    BY <1>5, <2>1
  <2>3. PICK s \in Used(c) : Rank(c, s) = j /\ d[j] = c[s]
    BY <1>5, <2>1
  <2> QED
    BY <1>9, <2>2, <2>3 DEF Injective
<1>10. Injective(c) => Injective(d)
  BY <1>9 DEF Injective
<1> QED
  BY <1>6, <1>8, <1>10 DEF d

-----------------------------------------------------------------------------
(* The pages of a file                                                     *)

\* The pages of file f in d are the first n.
FirstPages(d, f, n) == \A k \in Keys : k.file = f => (d[k] # Nil <=> k.pageNo < n)

\* A file whose pages are the first n has n pages.
LEMMA CountPages ==
    ASSUME NEW d, NEW f \in Files, NEW n \in 0 .. MaxPages, FirstPages(d, f, n)
    PROVE  Cardinality({k \in Keys : k.file = f /\ d[k] # Nil}) = n
<1> DEFINE P == {k \in Keys : k.file = f /\ d[k] # Nil}
           g == [i \in 0 .. n - 1 |-> Key(f, i)]
<1>0. n \in Nat /\ n <= MaxPages /\ MaxPages \in Nat
  BY MaxPagesAssumption
<1>1. ASSUME NEW i \in 0 .. n - 1 PROVE Key(f, i) \in P /\ Key(f, i).pageNo = i
  <2>1. Key(f, i) \in Keys /\ Key(f, i).file = f /\ Key(f, i).pageNo = i
    BY <1>0 DEF Key, Keys
  <2> QED
    BY <1>0, <2>1 DEF FirstPages
<1>2. ASSUME NEW k \in P PROVE k.pageNo \in 0 .. n - 1 /\ k = Key(f, k.pageNo)
  BY <1>0 DEF FirstPages, Keys, Key
<1>3. g \in Bijection(0 .. n - 1, P)
  <2>1. g \in [0 .. n - 1 -> P]
    BY <1>1
  <2>2. \A i, j \in 0 .. n - 1 : g[i] = g[j] => i = j
    BY <1>1
  <2>3. \A k \in P : \E i \in 0 .. n - 1 : g[i] = k
    BY <1>2
  <2> HIDE DEF g, P
  <2> QED
    BY <2>1, <2>2, <2>3, Fun_IsBij
<1>4. IsFiniteSet(0 .. n - 1) /\ Cardinality(0 .. n - 1) = n
  BY <1>0, FS_Interval
<1> HIDE DEF g, P
<1>5. ExistsBijection(0 .. n - 1, P)
  BY <1>3 DEF ExistsBijection
<1>6. Cardinality(P) = n
  BY <1>4, <1>5, FS_Bijection
<1> QED
  BY <1>6 DEF P

\* Every file is a sequence of pages.
FilesContiguous == \A f \in Files : \E n \in 0 .. MaxPages : FirstPages(disk, f, n)

\* So its pages are the ones before NumPages.
LEMMA PagesCounted ==
    FilesContiguous =>
        \A f \in Files : NumPages(f) \in 0 .. MaxPages /\ FirstPages(disk, f, NumPages(f))
<1> SUFFICES ASSUME FilesContiguous, NEW f \in Files
             PROVE  NumPages(f) \in 0 .. MaxPages /\ FirstPages(disk, f, NumPages(f))
  OBVIOUS
<1>1. PICK n \in 0 .. MaxPages : FirstPages(disk, f, n)
  BY DEF FilesContiguous
<1>2. NumPages(f) = n
  BY <1>1, CountPages DEF NumPages
<1> QED
  BY <1>1, <1>2

LEMMA PagesCountedNext ==
    FilesContiguous' =>
        \A f \in Files : NumPages(f)' \in 0 .. MaxPages /\ FirstPages(disk', f, NumPages(f)')
<1>1. FilesContiguous' =>
        (\A f \in Files : NumPages(f) \in 0 .. MaxPages /\ FirstPages(disk, f, NumPages(f)))'
  BY PagesCounted, PTL
<1> QED
  BY <1>1 DEF FirstPages

\* The page numbered i of a file with more than i pages is there.
LEMMA PageThere ==
    ASSUME FilesContiguous, NEW f \in Files, NEW i \in Nat, i < NumPages(f)
    PROVE  Key(f, i) \in Keys /\ disk[Key(f, i)] # Nil
<1>1. NumPages(f) \in 0 .. MaxPages /\ FirstPages(disk, f, NumPages(f))
  BY PagesCounted
<1>2. Key(f, i) \in Keys /\ Key(f, i).file = f /\ Key(f, i).pageNo = i
  BY <1>1, MaxPagesAssumption DEF Key, Keys
<1> QED
  BY <1>1, <1>2 DEF FirstPages

\* A file that loses no page is as long as before at least.
LEMMA FilesGrow ==
    ASSUME FilesContiguous, FilesContiguous',
           \A k \in Keys : disk[k] # Nil => disk'[k] # Nil,
           NEW f \in Files
    PROVE  NumPages(f) \in Nat /\ NumPages(f)' \in Nat /\ NumPages(f) <= NumPages(f)'
<1>1. NumPages(f) \in 0 .. MaxPages /\ FirstPages(disk, f, NumPages(f))
  BY PagesCounted
<1>2. NumPages(f)' \in 0 .. MaxPages /\ FirstPages(disk', f, NumPages(f)')
  BY PagesCountedNext
<1> DEFINE m == NumPages(f)'
<1> HIDE DEF m
<1>3. ASSUME m < NumPages(f) PROVE FALSE
  <2>1. m \in Nat /\ m < NumPages(f)
    BY <1>2, <1>3, MaxPagesAssumption DEF m
  <2>2. Key(f, m) \in Keys /\ disk[Key(f, m)] # Nil
    BY <2>1, PageThere
  <2>3. disk'[Key(f, m)] # Nil /\ Key(f, m).file = f /\ Key(f, m).pageNo = m
    BY <2>2 DEF Key
  <2>4. FirstPages(disk', f, m)
    BY <1>2 DEF m
  <2>5. m < m
    BY <2>2, <2>3, <2>4 DEF FirstPages
  <2> QED
    BY <2>1, <2>5
<1>4. m \in Nat /\ NumPages(f) \in Nat
  BY <1>1, <1>2, MaxPagesAssumption DEF m
<1>5. NumPages(f) <= m
  BY <1>3, <1>4
<1> QED
  BY <1>4, <1>5 DEF m

\* A step that adds and removes no page leaves the files as long as they were.
LEMMA FilesStay ==
    ASSUME FilesContiguous, \A k \in Keys : disk[k] # Nil <=> disk'[k] # Nil
    PROVE  FilesContiguous'
  BY DEF FilesContiguous, FirstPages

\* A file grows at its end, by one empty page.
LEMMA AppendGrows ==
    ASSUME TypeOK, FilesContiguous, NEW f \in Files, Append(f)
    PROVE  /\ FilesContiguous'
           /\ NumPages(f)' = NumPages(f) + 1
           /\ disk' \in [Keys -> Content \cup {Nil}]
           /\ Key(f, NumPages(f)) \in Keys
           /\ disk[Key(f, NumPages(f))] = Nil
           /\ disk'[Key(f, NumPages(f))] = EmptySlots
           /\ \A k \in Keys : k # Key(f, NumPages(f)) => disk'[k] = disk[k]
<1> DEFINE n == NumPages(f)
           e == Key(f, n)
<1>1. n \in 0 .. MaxPages /\ FirstPages(disk, f, n)
  BY PagesCounted
<1>2. n < MaxPages /\ disk' = [disk EXCEPT ![e] = EmptySlots]
  BY DEF Append
<1> HIDE DEF n
<1>3. e \in Keys /\ e.file = f /\ e.pageNo = n
  BY <1>1, <1>2, MaxPagesAssumption DEF Key, Keys
<1>4. disk[e] = Nil
  BY <1>1, <1>3, MaxPagesAssumption DEF FirstPages
<1>5. EmptySlots \in Content /\ EmptySlots # Nil
  BY HeapContentAssumption, PageNilAssumption DEF EmptySlots, Slots
<1>6. \A k \in Keys : disk'[k] = IF k = e THEN EmptySlots ELSE disk[k]
  BY <1>2, <1>3 DEF TypeOK
<1>7. disk' \in [Keys -> Content \cup {Nil}]
  BY <1>2, <1>5 DEF TypeOK
<1>8. n + 1 \in 0 .. MaxPages
  BY <1>1, <1>2, MaxPagesAssumption
<1>9. FirstPages(disk', f, n + 1)
  <2>1. ASSUME NEW k \in Keys, k.file = f PROVE disk'[k] # Nil <=> k.pageNo < n + 1
    <3>1. k.pageNo \in Nat /\ (k = e <=> k.pageNo = n)
      BY <1>3, <2>1, MaxPagesAssumption DEF Keys, Key
    <3>2. disk[k] # Nil <=> k.pageNo < n
      BY <1>1, <2>1 DEF FirstPages
    <3>3. n \in Nat
      BY <1>1, MaxPagesAssumption
    <3> QED
      BY <1>5, <1>6, <3>1, <3>2, <3>3
  <2> QED
    BY <2>1 DEF FirstPages
<1>10. FilesContiguous'
  <2>1. ASSUME NEW g \in Files PROVE \E m \in 0 .. MaxPages : FirstPages(disk', g, m)
    <3>1. CASE g = f
      BY <1>8, <1>9, <3>1
    <3>2. CASE g # f
      <4>1. PICK m \in 0 .. MaxPages : FirstPages(disk, g, m)
        BY DEF FilesContiguous
      <4>2. FirstPages(disk', g, m)
        BY <1>3, <1>6, <3>2, <4>1 DEF FirstPages
      <4> QED
        BY <4>2
    <3> QED
      BY <3>1, <3>2
  <2> QED
    BY <2>1 DEF FilesContiguous
<1>11. NumPages(f)' = n + 1
  BY <1>8, <1>9, CountPages DEF NumPages
<1> QED
  BY <1>3, <1>4, <1>6, <1>7, <1>10, <1>11 DEF n

-----------------------------------------------------------------------------
(* The statements                                                          *)

\* The page a statement is at, and the permission it asks for.
PageOf(call) == Key(call.file, call.i)
PermOf(call) == IF call.kind = "scan" THEN "Read" ELSE "Write"

\* The types of the statements and of the histories.
CallsTyped ==
    /\ stmt \in [Tids -> InsertCall \cup ScanCall \cup {Nil}]
    /\ unused \in SUBSET Tuples
    /\ added \in [Tids -> SUBSET Tuples]
    /\ removed \in [Tids -> SUBSET Tuples]
    /\ committed \in SUBSET Tuples
    /\ detached \in BOOLEAN

\* A page in memory that has been changed is a page of a file.
DirtyOnDisk == \A k \in Keys : \A o \in Live(k) : heap[k][o].dirty => disk[k] # Nil

\* Where a statement is, and what it knows of its file and of its page.
CallInFile(c) ==
    /\ c.i < NumPages(c.file)
    /\ c.n <= NumPages(c.file)
    /\ c.kind = "insert" => c.new \/ c.i < c.n
    /\ c.kind = "delete" => c.ph # "row" /\ c.tup # Nil
    /\ (c.kind = "delete" \/ (c.ph = "row" /\ c.tup # Nil)) => c.j > 0

CallAtPage(t, c) ==
    /\ t \notin ended
    /\ waiting[t] = IF c.ph = "asleep" THEN [key |-> PageOf(c), perm |-> PermOf(c)] ELSE Nil
    /\ c.ph = "got" => handle[t] # Nil /\ handle[t].key = PageOf(c) /\ handle[t].perm = PermOf(c)

CallOK(t) ==
    /\ stmt[t] = Nil => waiting[t] = Nil
    /\ stmt[t] # Nil => CallInFile(stmt[t]) /\ CallAtPage(t, stmt[t])

HeapInv ==
    /\ TypeOK
    /\ LockCompatible
    /\ CallsTyped
    /\ FilesContiguous
    /\ DirtyOnDisk
    /\ HandlesLocked
    /\ \A t \in Tids : CallOK(t)

\* A statement asks for a page that its file has.
LEMMA CallsPage ==
    ASSUME HeapInv, NEW t \in Tids, stmt[t] # Nil
    PROVE  /\ stmt[t] \in InsertCall \cup ScanCall
           /\ stmt[t].file \in Files /\ stmt[t].i \in Nat
           /\ PageOf(stmt[t]) \in Keys
           /\ disk[PageOf(stmt[t])] # Nil
           /\ PermOf(stmt[t]) \in Perms
<1>1. stmt[t] \in InsertCall \cup ScanCall
  BY DEF HeapInv, CallsTyped
<1>2. stmt[t].file \in Files /\ stmt[t].i \in Nat
  BY <1>1 DEF InsertCall, ScanCall
<1>3. stmt[t].i < NumPages(stmt[t].file)
  BY DEF HeapInv, CallOK, CallInFile
<1>4. PageOf(stmt[t]) \in Keys /\ disk[PageOf(stmt[t])] # Nil
  BY <1>2, <1>3, PageThere DEF HeapInv, PageOf
<1> QED
  BY <1>1, <1>2, <1>4 DEF PermOf, Perms

\* A statement that has got its page has a handle on it, and sees its slots.
LEMMA CallsData ==
    ASSUME HeapInv, NEW t \in Tids, stmt[t] # Nil, stmt[t].ph = "got"
    PROVE  /\ handle[t] # Nil
           /\ handle[t].key = PageOf(stmt[t])
           /\ handle[t].perm = PermOf(stmt[t])
           /\ handle[t].page \in Live(PageOf(stmt[t]))
           /\ Data(t) \in Slots
           /\ t \notin ended /\ waiting[t] = Nil
<1>1. /\ handle[t] # Nil
      /\ handle[t].key = PageOf(stmt[t])
      /\ handle[t].perm = PermOf(stmt[t])
      /\ t \notin ended /\ waiting[t] = Nil
  BY DEF HeapInv, CallOK, CallAtPage
<1>2. handle[t].key \in Keys /\ handle[t].page \in Live(handle[t].key)
  BY <1>1, PointersReach DEF HeapInv, Reached
<1>3. heap[handle[t].key][handle[t].page] \in Page
  BY <1>2 DEF HeapInv, TypeOK, Live
<1>4. Data(t) \in Slots
  BY <1>3, HeapContentAssumption DEF Data, Page
<1> QED
  BY <1>1, <1>2, <1>4

\* A new phase changes nothing else of a call.
LEMMA NewPhase ==
    ASSUME NEW c \in InsertCall \cup ScanCall, NEW p \in {"get", "asleep", "got"}
    PROVE  LET d == [c EXCEPT !.ph = p]
           IN  /\ d \in InsertCall \cup ScanCall
               /\ d.ph = p /\ d.kind = c.kind /\ d.tup = c.tup
               /\ d.i = c.i /\ d.n = c.n /\ d.file = c.file
               /\ c.kind = "insert" => d.new = c.new
               /\ c.kind # "insert" => d.j = c.j /\ d.seen = c.seen
  BY DEF InsertCall, ScanCall

\* A statement is not disturbed by what leaves it, its wait and its page alone
\* and takes no page from the files.
LEMMA CallKept ==
    ASSUME FilesContiguous, FilesContiguous',
           \A k \in Keys : disk[k] # Nil => disk'[k] # Nil,
           NEW u \in Tids, CallsTyped, CallOK(u),
           stmt'[u] = stmt[u], waiting'[u] = waiting[u], handle'[u] = handle[u],
           u \in ended' <=> u \in ended
    PROVE  CallOK(u)'
<1>1. CASE stmt[u] = Nil
  BY <1>1 DEF CallOK
<1>2. CASE stmt[u] # Nil
  <2> DEFINE c == stmt[u]
  <2>1. c \in InsertCall \cup ScanCall
    BY <1>2 DEF CallsTyped
  <2>2. c.file \in Files /\ c.i \in Nat /\ c.n \in Nat
    BY <2>1 DEF InsertCall, ScanCall
  <2>3. CallInFile(c) /\ CallAtPage(u, c)
    BY <1>2 DEF CallOK
  <2>4. /\ NumPages(c.file) \in Nat
        /\ NumPages(c.file)' \in Nat
        /\ NumPages(c.file) <= NumPages(c.file)'
    BY <2>2, FilesGrow
  <2> DEFINE m == NumPages(c.file)
             n == NumPages(c.file)'
  <2>5. c.i < n /\ c.n <= n
    <3>1. c.i < m /\ c.n <= m
      BY <2>3 DEF CallInFile
    <3> HIDE DEF c, m, n
    <3> QED
      BY <2>2, <2>4, <3>1 DEF m, n
  <2>6. stmt'[u].file = c.file
    OBVIOUS
  <2>7. stmt'[u].i < NumPages(stmt[u].file)' /\ stmt'[u].n <= NumPages(stmt[u].file)'
    BY <2>5, <2>6 DEF NumPages
  <2>8. CallInFile(stmt[u])'
    BY <2>3, <2>7 DEF CallInFile
  <2>9. CallAtPage(u, stmt[u])'
    BY <2>3 DEF CallAtPage
  <2> QED
    BY <1>2, <2>8, <2>9 DEF CallOK
<1> QED
  BY <1>1, <1>2

-----------------------------------------------------------------------------
(* Steps                                                                   *)

\* A statement's step of GetPage is one for the page it is at.
LEMMA HeapGets ==
    ASSUME HeapInv, NEW t \in Tids, CallGetPage(t) \/ Awake(t)
    PROVE  /\ stmt[t] # Nil /\ stmt[t].ph \in {"get", "asleep"}
           /\ \/ GetPage(t, PageOf(stmt[t]), PermOf(stmt[t]))
              \/ /\ WakeGetPage(t)
                 /\ waiting[t] = [key |-> PageOf(stmt[t]), perm |-> PermOf(stmt[t])]
           /\ Answered(t)
<1>1. CASE CallGetPage(t)
  BY <1>1 DEF CallGetPage, InPhase, PageOf, PermOf
<1>2. CASE Awake(t)
  <2>1. stmt[t] # Nil /\ stmt[t].ph = "asleep" /\ WakeGetPage(t) /\ Answered(t)
    BY <1>2 DEF Awake, InPhase
  <2>2. waiting[t] = [key |-> PageOf(stmt[t]), perm |-> PermOf(stmt[t])]
    BY <2>1 DEF HeapInv, CallOK, CallAtPage
  <2> QED
    BY <2>1, <2>2
<1> QED
  BY <1>1, <1>2

\* The steps that change the statements only.
Quiet(t) ==
    \/ InsertDropped(t)
    \/ \E f \in Files : StartScan(t, f)
    \/ ScanRow(t)
    \/ ScanPageDone(t)
    \/ ScanNext(t)
    \/ ScanStops(t)
    \/ DeleteRow(t)

\* The steps that may add a page to a file.
Grows(t) ==
    \/ \E f \in Files, x \in Tuples : StartInsert(t, f, x)
    \/ InsertGoesOn(t)

\* What insertTuple makes of a page is contents of a page.
LEMMA InsertModifies ==
    ASSUME HeapInv, NEW t \in Tids, InsertTuple(t)
    PROVE  /\ stmt[t] # Nil /\ stmt[t].ph = "got" /\ stmt[t].kind = "insert"
           /\ stmt[t].tup \in Tuples
           /\ Free(Data(t)) # {}
           /\ With(Data(t), stmt[t].tup) \in Content
           /\ Modify(t, With(Data(t), stmt[t].tup))
<1>1. /\ stmt[t] # Nil /\ stmt[t].ph = "got" /\ stmt[t].kind = "insert"
      /\ Free(Data(t)) # {} /\ Modify(t, With(Data(t), stmt[t].tup))
  BY DEF InsertTuple, InPhase
<1>2. stmt[t].tup \in Tuples
  BY <1>1, CallsPage DEF InsertCall, ScanCall
<1>3. Data(t) \in Slots
  BY <1>1, CallsData
<1> QED
  BY <1>1, <1>2, <1>3, WithTuple, HeapContentAssumption

\* The slot deleteTuple empties is one of the page, and what is left is
\* contents of a page.
LEMMA DeleteModifies ==
    ASSUME HeapInv, NEW t \in Tids, DeleteTuple(t)
    PROVE  /\ stmt[t] # Nil /\ stmt[t].ph = "got" /\ stmt[t].kind = "delete"
           /\ stmt[t] \in ScanCall /\ stmt[t].tup \in Tuples
           /\ stmt[t].j - 1 \in SlotNos
           /\ Without(Data(t), stmt[t].j - 1) \in Content
           /\ \/ Data(t)[stmt[t].j - 1] # Nil /\ Modify(t, Without(Data(t), stmt[t].j - 1))
              \/ Data(t)[stmt[t].j - 1] = Nil /\ UNCHANGED vars
<1>1. stmt[t] # Nil /\ stmt[t].ph = "got" /\ stmt[t].kind = "delete"
  BY DEF DeleteTuple, InPhase
<1>2. stmt[t] \in ScanCall
  BY <1>1, CallsPage DEF InsertCall
<1>3. stmt[t].j > 0 /\ stmt[t].tup # Nil
  BY <1>1 DEF HeapInv, CallOK, CallInFile
<1>4. stmt[t].tup \in Tuples /\ stmt[t].j \in 0 .. SlotsPerPage
  BY <1>2, <1>3 DEF ScanCall
<1>5. stmt[t].j - 1 \in SlotNos
  BY <1>3, <1>4, SlotsAssumption DEF SlotNos
<1>6. Data(t) \in Slots
  BY <1>1, CallsData
<1>7. Without(Data(t), stmt[t].j - 1) \in Content
  BY <1>5, <1>6, HeapContentAssumption DEF Without, Slots
<1>8. \/ Data(t)[stmt[t].j - 1] # Nil /\ Modify(t, Without(Data(t), stmt[t].j - 1))
      \/ Data(t)[stmt[t].j - 1] = Nil /\ UNCHANGED vars
  BY DEF DeleteTuple
<1> QED
  BY <1>1, <1>2, <1>4, <1>5, <1>7, <1>8

\* A step that may add a page leaves the memory alone and adds one at most.
LEMMA GrowsDisk ==
    ASSUME HeapInv, NEW t \in Tids, Grows(t)
    PROVE  /\ UNCHANGED <<lockVars, pointers, heap>>
           /\ disk' = disk \/ \E f \in Files : Append(f)
<1>1. CASE \E f \in Files, x \in Tuples : StartInsert(t, f, x)
  <2>1. PICK f \in Files, x \in Tuples : StartInsert(t, f, x)
    BY <1>1
  <2> QED
    BY <2>1 DEF StartInsert
<1>2. CASE InsertGoesOn(t)
  <2>1. stmt[t].file \in Files
    BY <1>2, CallsPage DEF InsertGoesOn, InPhase
  <2> QED
    BY <1>2, <2>1 DEF InsertGoesOn
<1> QED
  BY <1>1, <1>2 DEF Grows

\* All other steps are steps of the buffer pool.
LEMMA HeapStepIsPoolStep ==
    ASSUME HeapInv, NEW t \in Tids,
           \/ CallGetPage(t) \/ Awake(t)
           \/ Quiet(t)
           \/ InsertTuple(t) \/ DeleteTuple(t)
           \/ Commit(t) \/ Abort(t)
    PROVE  [Next]_vars
<1>1. CASE CallGetPage(t) \/ Awake(t)
  <2>1. stmt[t] # Nil
    BY <1>1, HeapGets
  <2>2. PageOf(stmt[t]) \in Keys /\ PermOf(stmt[t]) \in Perms
    BY <2>1, CallsPage
  <2> QED
    BY <1>1, <2>2, HeapGets DEF Next, PoolNext
<1>2. CASE Quiet(t)
  BY <1>2 DEF Quiet, InsertDropped, StartScan, ScanRow, ScanPageDone, ScanNext, ScanStops, DeleteRow
<1>3. CASE InsertTuple(t)
  BY <1>3, InsertModifies DEF Next
<1>4. CASE DeleteTuple(t)
  BY <1>4, DeleteModifies DEF Next
<1>5. CASE Commit(t) \/ Abort(t)
  BY <1>5 DEF Commit, Abort, Next, PoolNext
<1> QED
  BY <1>1, <1>2, <1>3, <1>4, <1>5

\* A step of the call that t has under way, or the end of t.
HeapAction(t) ==
    \/ CallGetPage(t) \/ Awake(t)
    \/ Quiet(t)
    \/ Grows(t)
    \/ InsertTuple(t) \/ DeleteTuple(t)
    \/ Commit(t) \/ Abort(t)

LEMMA HeapSteps ==
    ASSUME HeapNext
    PROVE  \E t \in Tids : HeapAction(t)
  BY DEF HeapNext, HeapAction, Quiet, Grows

\* Every step keeps the types of the pool and the compatibility of the locks.
LEMMA HeapStepTyped ==
    ASSUME HeapInv, NEW t \in Tids, HeapAction(t)
    PROVE  TypeOK' /\ LockCompatible'
<1>0. TypeOK /\ LockTypeOK /\ LockCompatible
  BY DEF HeapInv, TypeOK
<1>1. ASSUME [Next]_vars PROVE TypeOK' /\ LockCompatible'
  BY <1>0, <1>1, PoolStepTyped, PoolStepIsLockStep, StepCompatible
<1>2. ASSUME Grows(t) PROVE TypeOK' /\ LockCompatible'
  <2>1. UNCHANGED <<lockVars, pointers, heap>>
    BY <1>2, GrowsDisk
  <2>2. disk' \in [Keys -> Content \cup {Nil}]
    <3>1. CASE disk' = disk
      BY <1>0, <3>1 DEF TypeOK
    <3>2. CASE \E f \in Files : Append(f)
      BY <1>0, <3>2, AppendGrows DEF HeapInv
    <3> QED
      BY <1>2, <3>1, <3>2, GrowsDisk
  <2>3. \A k \in Keys : Live(k)' = Live(k)
    BY <2>1 DEF lockVars, pointers, Live
  <2>4. TypeOK'
    BY <1>0, <2>1, <2>2, <2>3 DEF TypeOK, LockTypeOK, lockVars, pointers
  <2>5. LockCompatible'
    BY <1>0, <2>1 DEF LockCompatible, lockVars
  <2> QED
    BY <2>4, <2>5
<1> QED
  BY <1>1, <1>2, HeapStepIsPoolStep DEF HeapAction

\* The parts of HeapInv that are about the statements and the files.
CallsOK ==
    /\ CallsTyped
    /\ FilesContiguous
    /\ DirtyOnDisk
    /\ HandlesLocked
    /\ \A t \in Tids : CallOK(t)

\* What becomes of a call after a step of GetPage for t.
LEMMA AnsweredCalls ==
    ASSUME CallsTyped, NEW t \in Tids, stmt[t] # Nil, Answered(t), detached' \in BOOLEAN
    PROVE  /\ CallsTyped'
           /\ stmt'[t] = IF waiting'[t] # Nil THEN [stmt[t] EXCEPT !.ph = "asleep"]
                         ELSE IF handle'[t] # Nil THEN [stmt[t] EXCEPT !.ph = "got"]
                         ELSE Nil
           /\ \A u \in Tids \ {t} : stmt'[u] = stmt[u]
<1>1. /\ stmt'[t] = IF waiting'[t] # Nil THEN [stmt[t] EXCEPT !.ph = "asleep"]
                    ELSE IF handle'[t] # Nil THEN [stmt[t] EXCEPT !.ph = "got"]
                    ELSE Nil
      /\ \A u \in Tids \ {t} : stmt'[u] = stmt[u]
      /\ stmt' = [u \in Tids |-> stmt'[u]]
  BY DEF Answered, CallsTyped
<1>2. stmt[t] \in InsertCall \cup ScanCall
  BY DEF CallsTyped
<1>3. stmt'[t] \in InsertCall \cup ScanCall \cup {Nil}
  <2>1. [stmt[t] EXCEPT !.ph = "asleep"] \in InsertCall \cup ScanCall
    BY <1>2, NewPhase
  <2>2. [stmt[t] EXCEPT !.ph = "got"] \in InsertCall \cup ScanCall
    BY <1>2, NewPhase
  <2> QED
    BY <1>1, <2>1, <2>2
<1>4. \A u \in Tids : stmt'[u] \in InsertCall \cup ScanCall \cup {Nil}
  BY <1>1, <1>3 DEF CallsTyped
<1>5. stmt' \in [Tids -> InsertCall \cup ScanCall \cup {Nil}]
  BY <1>1, <1>4
<1>6. CallsTyped'
  BY <1>5 DEF Answered, CallsTyped
<1> QED
  BY <1>1, <1>6

\* A call with a new phase is where it was in its file.
LEMMA PhaseInFile ==
    ASSUME NEW c \in InsertCall \cup ScanCall, NEW p \in {"get", "asleep", "got"}, CallInFile(c),
           c.ph # "row"
    PROVE  CallInFile([c EXCEPT !.ph = p])
<1> DEFINE d == [c EXCEPT !.ph = p]
<1>1. /\ d.ph = p /\ d.kind = c.kind /\ d.tup = c.tup /\ d.i = c.i /\ d.n = c.n /\ d.file = c.file
      /\ c.kind = "insert" => d.new = c.new
      /\ c.kind # "insert" => d.j = c.j
  BY NewPhase
<1> HIDE DEF d
<1>2. CallInFile(d)
  BY <1>1 DEF CallInFile
<1> QED
  BY <1>2 DEF d

LEMMA GetKeepsCalls ==
    ASSUME HeapInv, TypeOK', NEW t \in Tids, CallGetPage(t) \/ Awake(t), detached' \in BOOLEAN
    PROVE  CallsOK'
<1> DEFINE c == stmt[t]
           k == PageOf(c)
           perm == PermOf(c)
<1>0. TypeOK /\ CallsTyped /\ FilesContiguous /\ DirtyOnDisk /\ HandlesLocked
      /\ \A u \in Tids : CallOK(u)
  BY DEF HeapInv
<1>1. /\ c # Nil /\ c.ph \in {"get", "asleep"} /\ Answered(t)
      /\ \/ GetPage(t, k, perm)
         \/ WakeGetPage(t) /\ waiting[t] = [key |-> k, perm |-> perm]
  BY HeapGets
<1>2. c \in InsertCall \cup ScanCall /\ k \in Keys /\ perm \in Perms
  BY <1>1, CallsPage
<1>3. /\ CallsTyped'
      /\ stmt'[t] = IF waiting'[t] # Nil THEN [c EXCEPT !.ph = "asleep"]
                    ELSE IF handle'[t] # Nil THEN [c EXCEPT !.ph = "got"]
                    ELSE Nil
      /\ \A u \in Tids \ {t} : stmt'[u] = stmt[u]
  BY <1>0, <1>1, AnsweredCalls
<1>4. t \notin ended /\ CallInFile(c)
  BY <1>0, <1>1 DEF CallOK, CallAtPage
<1> HIDE DEF c, k, perm
<1>5. \/ \E o, pgs, h : Found(k, o, pgs, h) /\ HandleTransaction(t, k, perm, o, pgs, h)
      \/ Running(t) /\ \E pgs \in MadeRoom \cup {pages} : Fails(t, pgs)
  BY <1>0, <1>1, <1>2, GetPageFound
<1>6. disk' = disk /\ ended' = ended
  BY <1>0, <1>2, <1>5, HandleEffect DEF Fails, lockVars
<1>7. FilesContiguous'
  BY <1>0, <1>6, FilesStay
<1>8. HandlesLocked'
  BY <1>0, <1>2, <1>5, GetKeepsHandles, OthersKeepHandles
<1>9. DirtyOnDisk'
  <2>1. ASSUME NEW l \in Keys, NEW x \in Live(l)', heap'[l][x].dirty PROVE disk[l] # Nil
    <3>1. CASE \E o, pgs, h : Found(k, o, pgs, h) /\ HandleTransaction(t, k, perm, o, pgs, h)
      <4>1. PICK o, pgs, h : Found(k, o, pgs, h) /\ HandleTransaction(t, k, perm, o, pgs, h)
        BY <3>1
      <4>2. heap'[l][x] = h[l][x]
        BY <1>0, <1>2, <4>1, HandleEffect, CollectedKeeps
      <4>3. x \in Live(l) \/ (l = k /\ disk[k] # Nil)
        <5>1. x \in Live(l) \/ (l = k /\ x = o)
          BY <1>0, <1>2, <4>1, GetReaches
        <5>2. o \in Live(k) \/ disk[k] # Nil
          BY <4>1 DEF Found
        <5> QED
          BY <5>1, <5>2
      <4>4. x \in Live(l) => h[l][x] = heap[l][x]
        BY <4>1 DEF Found
      <4> QED
        BY <1>0, <2>1, <4>2, <4>3, <4>4 DEF DirtyOnDisk
    <3>2. CASE \E pgs \in MadeRoom \cup {pages} : Fails(t, pgs)
      <4>1. x \in Live(l)
        BY <1>0, <3>2, OthersReach
      <4>2. heap'[l][x] = heap[l][x]
        BY <3>2, CollectedKeeps DEF Fails
      <4> QED
        BY <1>0, <2>1, <4>1, <4>2 DEF DirtyOnDisk
    <3> QED
      BY <1>5, <3>1, <3>2
  <2> QED
    BY <1>6, <2>1 DEF DirtyOnDisk
<1>10. \A u \in Tids \ {t} : waiting'[u] = waiting[u] /\ handle'[u] = handle[u]
  <2>1. CASE \E o, pgs, h : Found(k, o, pgs, h) /\ HandleTransaction(t, k, perm, o, pgs, h)
    BY <1>0, <1>2, <2>1, HandleEffect
  <2>2. CASE \E pgs \in MadeRoom \cup {pages} : Fails(t, pgs)
    BY <1>0, <2>2 DEF Fails, lockVars, TypeOK
  <2> QED
    BY <1>5, <2>1, <2>2
<1>11. ASSUME NEW u \in Tids \ {t} PROVE CallOK(u)'
  BY <1>0, <1>3, <1>6, <1>7, <1>10, CallKept
<1>12. \/ waiting'[t] = [key |-> k, perm |-> perm]
       \/ waiting'[t] = Nil /\ \E o \in Objs : handle'[t] = [key |-> k, perm |-> perm, page |-> o]
       \/ waiting'[t] = Nil /\ handle'[t] = Nil
  <2>1. CASE \E o, pgs, h : Found(k, o, pgs, h) /\ HandleTransaction(t, k, perm, o, pgs, h)
    <3>1. PICK o, pgs, h : Found(k, o, pgs, h) /\ HandleTransaction(t, k, perm, o, pgs, h)
      BY <2>1
    <3>2. o \in Objs
      BY <3>1 DEF Found
    <3>3. Granted(t, k, perm, o) \/ Undone(t) \/ Slept(t, k, perm, o)
      BY <1>0, <1>2, <3>1, HandleEffect
    <3> QED
      BY <3>2, <3>3 DEF Granted, Undone, Slept
  <2>2. CASE Running(t) /\ \E pgs \in MadeRoom \cup {pages} : Fails(t, pgs)
    BY <1>0, <2>2 DEF Fails, lockVars, TypeOK, Running
  <2> QED
    BY <1>5, <2>1, <2>2
<1>13. CallOK(t)'
  <2>1. CASE waiting'[t] = [key |-> k, perm |-> perm]
    <3>1. waiting'[t] # Nil
      BY <1>2, <2>1, NilAssumption DEF Request
    <3>2. stmt'[t] = [c EXCEPT !.ph = "asleep"]
      BY <1>3, <3>1
    <3>3. CallInFile(stmt'[t])
      BY <1>1, <1>2, <1>4, <3>2, PhaseInFile
    <3>4. stmt'[t] # Nil /\ stmt'[t].ph = "asleep" /\ PageOf(stmt'[t]) = k /\ PermOf(stmt'[t]) = perm
      <4>1. /\ stmt'[t] \in InsertCall \cup ScanCall /\ stmt'[t].ph = "asleep"
            /\ stmt'[t].kind = c.kind /\ stmt'[t].file = c.file /\ stmt'[t].i = c.i
        BY <1>2, <3>2 DEF InsertCall, ScanCall
      <4>2. stmt'[t] # Nil
        BY <4>1, CallNilAssumption
      <4> QED
        BY <4>1, <4>2 DEF k, perm, PageOf, PermOf
    <3>5. CallAtPage(t, stmt[t])'
      BY <1>4, <1>6, <2>1, <3>4 DEF CallAtPage
    <3>6. CallInFile(stmt[t])'
      BY <1>6, <3>3 DEF CallInFile, NumPages
    <3> QED
      BY <3>4, <3>5, <3>6 DEF CallOK
  <2>2. ASSUME waiting'[t] = Nil, NEW o \in Objs, handle'[t] = [key |-> k, perm |-> perm, page |-> o]
        PROVE  CallOK(t)'
    <3>1. handle'[t] # Nil
      BY <1>2, <2>2, PageNilAssumption DEF Handle
    <3>2. stmt'[t] = [c EXCEPT !.ph = "got"]
      BY <1>3, <2>2, <3>1
    <3>3. CallInFile(stmt'[t])
      BY <1>1, <1>2, <1>4, <3>2, PhaseInFile
    <3>4. stmt'[t] # Nil /\ stmt'[t].ph = "got" /\ PageOf(stmt'[t]) = k /\ PermOf(stmt'[t]) = perm
      <4>1. /\ stmt'[t] \in InsertCall \cup ScanCall /\ stmt'[t].ph = "got"
            /\ stmt'[t].kind = c.kind /\ stmt'[t].file = c.file /\ stmt'[t].i = c.i
        BY <1>2, <3>2 DEF InsertCall, ScanCall
      <4>2. stmt'[t] # Nil
        BY <4>1, CallNilAssumption
      <4> QED
        BY <4>1, <4>2 DEF k, perm, PageOf, PermOf
    <3>5. CallAtPage(t, stmt[t])'
      BY <1>4, <1>6, <2>2, <3>1, <3>4 DEF CallAtPage
    <3>6. CallInFile(stmt[t])'
      BY <1>6, <3>3 DEF CallInFile, NumPages
    <3> QED
      BY <3>4, <3>5, <3>6 DEF CallOK
  <2>3. CASE waiting'[t] = Nil /\ handle'[t] = Nil
    BY <1>3, <2>3 DEF CallOK
  <2> QED
    BY <1>12, <2>1, <2>2, <2>3
<1> QED
  BY <1>3, <1>7, <1>8, <1>9, <1>11, <1>13 DEF CallsOK

\* The statement c is where a call of t may be.
CallFits(t, c) ==
    /\ c \in InsertCall \cup ScanCall \cup {Nil}
    /\ c = Nil => waiting[t] = Nil
    /\ c # Nil => CallInFile(c) /\ CallAtPage(t, c)

\* A step that changes nothing but the statement of t, and that to one that fits.
LEMMA QuietKeeps ==
    ASSUME HeapInv, NEW t \in Tids, UNCHANGED <<vars, unused, added, removed, committed>>,
           detached' \in BOOLEAN, NEW c, CallFits(t, c), stmt' = [stmt EXCEPT ![t] = c]
    PROVE  CallsOK'
<1>0. TypeOK /\ CallsTyped /\ FilesContiguous /\ DirtyOnDisk /\ HandlesLocked
      /\ \A u \in Tids : CallOK(u)
  BY DEF HeapInv
<1>1. stmt'[t] = c /\ \A u \in Tids \ {t} : stmt'[u] = stmt[u]
  BY <1>0 DEF CallsTyped
<1>2. UNCHANGED <<mapPageLocksByTid, waiting, ended, pages, lockPage, waitPage, handle, heap, disk>>
  BY DEF vars, lockVars, pointers
<1>3. CallsTyped'
  BY <1>0 DEF CallsTyped, CallFits
<1>4. FilesContiguous'
  BY <1>0, <1>2, FilesStay
<1>5. DirtyOnDisk'
  BY <1>0, <1>2 DEF DirtyOnDisk, Live
<1>6. HandlesLocked'
  BY <1>0, <1>2 DEF HandlesLocked
<1>7. CallOK(t)'
  BY <1>1, <1>2 DEF CallFits, CallOK, CallInFile, CallAtPage, NumPages
<1>8. ASSUME NEW u \in Tids \ {t} PROVE CallOK(u)'
  BY <1>0, <1>1, <1>2, <1>4, CallKept
<1> QED
  BY <1>3, <1>4, <1>5, <1>6, <1>7, <1>8 DEF CallsOK

\* What is known of a call and its page before a step of the statement.
LEMMA CallFacts ==
    ASSUME HeapInv, NEW t \in Tids, stmt[t] # Nil
    PROVE  /\ CallInFile(stmt[t])
           /\ t \notin ended
           /\ stmt[t].ph # "asleep" => waiting[t] = Nil
           /\ stmt[t] \in InsertCall \cup ScanCall
           /\ stmt[t].kind = "insert" => stmt[t] \in InsertCall
           /\ stmt[t].kind # "insert" => stmt[t] \in ScanCall
           /\ NumPages(stmt[t].file) \in Nat
<1>1. CallInFile(stmt[t]) /\ CallAtPage(t, stmt[t])
  BY DEF HeapInv, CallOK
<1>2. stmt[t] \in InsertCall \cup ScanCall /\ stmt[t].file \in Files
  BY CallsPage
<1>3. NumPages(stmt[t].file) \in Nat
  BY <1>2, PagesCounted, MaxPagesAssumption DEF HeapInv
<1> QED
  BY <1>1, <1>2, <1>3 DEF CallAtPage, InsertCall, ScanCall

LEMMA QuietKeepsCalls ==
    ASSUME HeapInv, NEW t \in Tids, Quiet(t), detached' \in BOOLEAN
    PROVE  CallsOK'
<1> DEFINE c == stmt[t]
<1>0. UNCHANGED <<vars, unused, added, removed, committed>>
  BY DEF Quiet, InsertDropped, StartScan, ScanRow, ScanPageDone, ScanNext, ScanStops, DeleteRow
<1>1. CASE InsertDropped(t) \/ ScanStops(t)
  <2>1. c # Nil /\ c.ph # "asleep" /\ stmt' = [stmt EXCEPT ![t] = Nil]
    BY <1>1 DEF InsertDropped, ScanStops, InPhase
  <2>2. CallFits(t, Nil)
    BY <2>1, CallFacts DEF CallFits
  <2> QED
    BY <1>0, <2>1, <2>2, QuietKeeps
<1>2. ASSUME NEW f \in Files, StartScan(t, f) PROVE CallsOK'
  <2> DEFINE d == [kind |-> "scan", ph |-> "get", file |-> f, tup |-> Nil, i |-> 0, j |-> 0,
                   n |-> NumPages(f), seen |-> {}]
  <2>1. Running(t) /\ NumPages(f) > 0 /\ stmt' = [stmt EXCEPT ![t] = d]
    BY <1>2 DEF StartScan
  <2>2. NumPages(f) \in Nat
    BY PagesCounted, MaxPagesAssumption DEF HeapInv
  <2>3. d \in ScanCall
    BY <2>2, SlotsAssumption DEF ScanCall
  <2>4. d # Nil
    BY <2>3, CallNilAssumption
  <2>5. CallInFile(d)
    BY <2>1, <2>2 DEF CallInFile
  <2>6. CallAtPage(t, d)
    BY <2>1 DEF CallAtPage, Running
  <2> HIDE DEF d
  <2>7. CallFits(t, d)
    BY <2>3, <2>4, <2>5, <2>6 DEF CallFits
  <2> QED
    BY <1>0, <2>1, <2>7, QuietKeeps
<1>3. CASE ScanRow(t)
  <2> DEFINE s == First(Ahead(t))
             x == Data(t)[s]
             d == [c EXCEPT !.ph = "row", !.tup = x, !.j = s + 1, !.seen = c.seen \cup {x}]
  <2>1. c # Nil /\ c.kind = "scan" /\ c.ph = "got" /\ Ahead(t) # {} /\ stmt' = [stmt EXCEPT ![t] = d]
    BY <1>3 DEF ScanRow, InPhase
  <2>2. c \in ScanCall /\ CallInFile(c) /\ t \notin ended /\ waiting[t] = Nil
    BY <2>1, CallFacts
  <2>3. s \in SlotNos /\ x \in Tuples
    <3>1. Data(t) \in Slots
      BY <2>1, CallsData
    <3>2. Ahead(t) \in SUBSET SlotNos /\ Ahead(t) \subseteq Used(Data(t))
      BY DEF Ahead, Used
    <3>3. s \in Ahead(t)
      BY <2>1, <3>2, FirstSlot
    <3> QED
      BY <3>1, <3>2, <3>3 DEF Used, Slots
  <2> HIDE DEF s, x
  <2>4. /\ d \in ScanCall
        /\ d.kind = "scan" /\ d.ph = "row" /\ d.file = c.file /\ d.i = c.i /\ d.n = c.n /\ d.j = s + 1
    <3>1. s + 1 \in 0 .. SlotsPerPage
      BY <2>3, SlotsAssumption DEF SlotNos
    <3>2. c.seen \cup {x} \in SUBSET Tuples
      BY <2>2, <2>3 DEF ScanCall
    <3> HIDE DEF c
    <3> QED
      BY <2>1, <2>2, <2>3, <3>1, <3>2 DEF ScanCall
  <2>5. d # Nil
    BY <2>4, CallNilAssumption
  <2> HIDE DEF d, c
  <2>6. CallInFile(d)
    BY <2>2, <2>3, <2>4, SlotsAssumption DEF CallInFile, SlotNos
  <2>7. CallAtPage(t, d)
    BY <2>2, <2>4 DEF CallAtPage
  <2>8. CallFits(t, d)
    BY <2>4, <2>5, <2>6, <2>7 DEF CallFits
  <2> QED
    BY <1>0, <2>1, <2>8, QuietKeeps
<1>4. CASE ScanPageDone(t)
  <2> DEFINE d == [c EXCEPT !.ph = "get", !.i = c.i + 1, !.j = 0]
  <2>1. /\ c # Nil /\ c.kind = "scan" /\ c.ph = "got"
        /\ stmt' = [stmt EXCEPT ![t] = IF c.i + 1 < c.n THEN d ELSE Nil]
    BY <1>4 DEF ScanPageDone, InPhase
  <2>2. /\ c \in ScanCall /\ CallInFile(c) /\ t \notin ended /\ waiting[t] = Nil
        /\ NumPages(c.file) \in Nat
    BY <2>1, CallFacts
  <2>3. CASE c.i + 1 < c.n
    <3>1. /\ d \in ScanCall
          /\ d.kind = "scan" /\ d.ph = "get" /\ d.file = c.file /\ d.i = c.i + 1 /\ d.n = c.n
      <4>1. c.i + 1 \in Nat /\ 0 \in 0 .. SlotsPerPage
        BY <2>2, SlotsAssumption DEF ScanCall
      <4> HIDE DEF c
      <4> QED
        BY <2>1, <2>2, <4>1 DEF ScanCall
    <3>2. d # Nil
      BY <3>1, CallNilAssumption
    <3>3. c.n \in Nat /\ c.i \in Nat
      BY <2>2 DEF ScanCall
    <3> HIDE DEF d, c
    <3>4. CallInFile(d)
      BY <2>2, <2>3, <3>1, <3>3 DEF CallInFile
    <3>5. CallAtPage(t, d)
      BY <2>2, <3>1 DEF CallAtPage
    <3>6. CallFits(t, d)
      BY <3>1, <3>2, <3>4, <3>5 DEF CallFits
    <3> QED
      BY <1>0, <2>1, <2>3, <3>6, QuietKeeps
  <2>4. CASE ~ (c.i + 1 < c.n)
    <3>1. CallFits(t, Nil)
      BY <2>2 DEF CallFits
    <3> QED
      BY <1>0, <2>1, <2>4, <3>1, QuietKeeps
  <2> QED
    BY <2>3, <2>4
<1>5. CASE ScanNext(t)
  <2> DEFINE d == [c EXCEPT !.ph = "get", !.tup = Nil, !.n = NumPages(c.file)]
  <2>1. c # Nil /\ c.kind = "scan" /\ c.ph = "row" /\ stmt' = [stmt EXCEPT ![t] = d]
    BY <1>5 DEF ScanNext, InPhase
  <2>2. /\ c \in ScanCall /\ CallInFile(c) /\ t \notin ended /\ waiting[t] = Nil
        /\ NumPages(c.file) \in Nat
    BY <2>1, CallFacts
  <2>3. /\ d \in ScanCall
        /\ d.kind = "scan" /\ d.ph = "get" /\ d.file = c.file /\ d.i = c.i /\ d.n = NumPages(c.file)
    BY <2>1, <2>2 DEF ScanCall
  <2>4. d # Nil
    BY <2>3, CallNilAssumption
  <2> HIDE DEF d, c
  <2>5. CallInFile(d)
    BY <2>2, <2>3 DEF CallInFile
  <2>6. CallAtPage(t, d)
    BY <2>2, <2>3 DEF CallAtPage
  <2>7. CallFits(t, d)
    BY <2>3, <2>4, <2>5, <2>6 DEF CallFits
  <2> QED
    BY <1>0, <2>1, <2>7, QuietKeeps
<1>6. CASE DeleteRow(t)
  <2> DEFINE d == [c EXCEPT !.kind = "delete", !.ph = "get"]
  <2>1. c # Nil /\ c.kind = "scan" /\ c.ph = "row" /\ c.tup # Nil /\ stmt' = [stmt EXCEPT ![t] = d]
    BY <1>6 DEF DeleteRow, InPhase
  <2>2. c \in ScanCall /\ CallInFile(c) /\ t \notin ended /\ waiting[t] = Nil
    BY <2>1, CallFacts
  <2>3. /\ d \in ScanCall
        /\ d.kind = "delete" /\ d.ph = "get" /\ d.file = c.file /\ d.i = c.i /\ d.n = c.n
        /\ d.tup = c.tup /\ d.j = c.j
    BY <2>1, <2>2 DEF ScanCall
  <2>4. d # Nil
    BY <2>3, CallNilAssumption
  <2> HIDE DEF d, c
  <2>5. CallInFile(d)
    BY <2>1, <2>2, <2>3 DEF CallInFile
  <2>6. CallAtPage(t, d)
    BY <2>2, <2>3 DEF CallAtPage
  <2>7. CallFits(t, d)
    BY <2>3, <2>4, <2>5, <2>6 DEF CallFits
  <2> QED
    BY <1>0, <2>1, <2>7, QuietKeeps
<1> QED
  BY <1>1, <1>2, <1>3, <1>4, <1>5, <1>6 DEF Quiet

\* The disk after a step that may add a page: no page has gone.
LEMMA GrownFiles ==
    ASSUME HeapInv, NEW t \in Tids, Grows(t)
    PROVE  FilesContiguous' /\ \A k \in Keys : disk[k] # Nil => disk'[k] # Nil
<1>1. CASE disk' = disk
  BY <1>1, FilesStay DEF HeapInv
<1>2. ASSUME NEW f \in Files, Append(f)
      PROVE  FilesContiguous' /\ \A k \in Keys : disk[k] # Nil => disk'[k] # Nil
  BY <1>2, AppendGrows DEF HeapInv
<1> QED
  BY <1>1, <1>2, GrowsDisk

LEMMA GrowsKeepsCalls ==
    ASSUME HeapInv, NEW t \in Tids, Grows(t), detached' \in BOOLEAN
    PROVE  CallsOK'
<1>0. TypeOK /\ CallsTyped /\ FilesContiguous /\ DirtyOnDisk /\ HandlesLocked
      /\ \A u \in Tids : CallOK(u)
  BY DEF HeapInv
<1>1. FilesContiguous' /\ \A k \in Keys : disk[k] # Nil => disk'[k] # Nil
  BY GrownFiles
<1>2. UNCHANGED <<mapPageLocksByTid, waiting, ended, pages, lockPage, waitPage, handle, heap>>
  BY GrowsDisk DEF lockVars, pointers
<1>3. DirtyOnDisk'
  BY <1>0, <1>1, <1>2 DEF DirtyOnDisk, Live
<1>4. HandlesLocked'
  BY <1>0, <1>2 DEF HandlesLocked
<1>5. ASSUME NEW f \in Files, stmt' = [stmt EXCEPT ![t] = stmt'[t]], stmt'[t] \in InsertCall,
             stmt'[t].ph = "get", stmt'[t].file = f,
             stmt'[t].i < NumPages(f)', stmt'[t].n <= NumPages(f)',
             stmt'[t].new \/ stmt'[t].i < stmt'[t].n,
             Running(t), unused' \in SUBSET Tuples, UNCHANGED <<added, removed, committed>>
      PROVE  CallsOK'
  <2>1. CallsTyped'
    BY <1>0, <1>5 DEF CallsTyped
  <2>2. \A u \in Tids \ {t} : stmt'[u] = stmt[u]
    BY <1>0, <1>5 DEF CallsTyped
  <2>3. stmt'[t] # Nil /\ stmt'[t].kind = "insert"
    BY <1>5, CallNilAssumption DEF InsertCall
  <2>4. CallInFile(stmt[t])'
    BY <1>5, <2>3 DEF CallInFile, NumPages
  <2>5. CallAtPage(t, stmt[t])'
    BY <1>2, <1>5 DEF CallAtPage, Running
  <2>6. CallOK(t)'
    BY <2>3, <2>4, <2>5 DEF CallOK
  <2>7. ASSUME NEW u \in Tids \ {t} PROVE CallOK(u)'
    BY <1>0, <1>1, <1>2, <2>2, CallKept
  <2> QED
    BY <1>1, <1>3, <1>4, <2>1, <2>6, <2>7 DEF CallsOK
<1>6. ASSUME NEW f \in Files, NEW x \in Tuples, StartInsert(t, f, x) PROVE CallsOK'
  <2> DEFINE n == NumPages(f)
             c == [kind |-> "insert", ph |-> "get", file |-> f, tup |-> x, i |-> 0,
                   n |-> n, new |-> n = 0]
  <2>1. /\ Running(t) /\ stmt' = [stmt EXCEPT ![t] = c]
        /\ unused' = unused \ {x} /\ UNCHANGED <<added, removed, committed>>
        /\ IF n = 0 THEN Append(f) ELSE UNCHANGED disk
    BY <1>6 DEF StartInsert
  <2>2. n \in Nat
    BY <1>0, PagesCounted, MaxPagesAssumption
  <2>3. 0 < NumPages(f)' /\ n <= NumPages(f)'
    <3>1. CASE n = 0
      BY <1>0, <2>1, <2>2, <3>1, AppendGrows
    <3>2. CASE n # 0
      BY <2>1, <2>2, <3>2 DEF NumPages
    <3> QED
      BY <3>1, <3>2
  <2> HIDE DEF n
  <2>4. c \in InsertCall /\ c.file = f /\ c.ph = "get" /\ c.i = 0 /\ c.n = n /\ (c.new \/ c.i < c.n)
    <3>1. (n = 0) \in BOOLEAN
      OBVIOUS
    <3>2. c \in InsertCall /\ c.file = f /\ c.ph = "get" /\ c.i = 0 /\ c.n = n /\ c.new = (n = 0)
      BY <2>2, <3>1, Zenon DEF InsertCall
    <3>3. n = 0 \/ 0 < n
      BY <2>2
    <3> HIDE DEF c
    <3> QED
      BY <3>2, <3>3
  <2>5. stmt'[t] = c
    BY <1>0, <2>1 DEF CallsTyped
  <2>6. unused' \in SUBSET Tuples
    BY <1>0, <2>1 DEF CallsTyped
  <2>7. stmt' = [stmt EXCEPT ![t] = stmt'[t]]
    BY <2>1, <2>5, Zenon
  <2>8. stmt'[t] \in InsertCall /\ stmt'[t].ph = "get" /\ stmt'[t].file = f
    BY <2>4, <2>5, Zenon
  <2>9. stmt'[t].i < NumPages(f)' /\ stmt'[t].n <= NumPages(f)'
    <3>1. stmt'[t].i = 0 /\ stmt'[t].n = n
      BY <2>4, <2>5, Zenon
    <3> HIDE DEF c
    <3> QED
      BY <2>3, <3>1
  <2>10. stmt'[t].new \/ stmt'[t].i < stmt'[t].n
    BY <2>4, <2>5, Zenon
  <2> QED
    BY <1>5, <2>1, <2>6, <2>7, <2>8, <2>9, <2>10, Zenon
<1>7. CASE InsertGoesOn(t)
  <2> DEFINE b == stmt[t]
             last == b.i + 1 = b.n
             c == [b EXCEPT !.ph = "get", !.i = b.i + 1, !.new = last]
  <2>1. /\ b # Nil /\ b.kind = "insert" /\ b.ph = "got" /\ ~ b.new
        /\ stmt' = [stmt EXCEPT ![t] = c]
        /\ UNCHANGED <<unused, added, removed, committed>>
        /\ IF last THEN Append(b.file) ELSE UNCHANGED disk
    BY <1>7 DEF InsertGoesOn, InPhase
  <2>2. /\ b \in InsertCall /\ CallInFile(b) /\ t \notin ended /\ waiting[t] = Nil
        /\ NumPages(b.file) \in Nat
    BY <2>1, CallFacts
  <2>3. b.file \in Files /\ b.i \in Nat /\ b.n \in Nat
    BY <2>2 DEF InsertCall
  <2>4. b.i < b.n /\ b.i < NumPages(b.file) /\ b.n <= NumPages(b.file)
    BY <2>1, <2>2 DEF CallInFile
  <2>5. PICK f \in Files : f = b.file
    BY <2>3
  <2>6. b.i + 1 < NumPages(f)' /\ b.n <= NumPages(f)'
    <3>1. CASE last
      <4>1. NumPages(f)' = NumPages(f) + 1
        BY <1>0, <2>1, <2>5, <3>1, AppendGrows
      <4> QED
        BY <2>2, <2>3, <2>4, <2>5, <4>1
    <3>2. CASE ~ last
      <4>1. disk' = disk
        BY <2>1, <3>2
      <4>2. NumPages(f)' = NumPages(f)
        BY <4>1 DEF NumPages
      <4> QED
        BY <2>2, <2>3, <2>4, <2>5, <3>2, <4>2
    <3> QED
      BY <3>1, <3>2
  <2>7. /\ c \in InsertCall /\ c.ph = "get" /\ c.file = f /\ c.i = b.i + 1
        /\ c.n = b.n /\ c.new = last
    <3>1. b.i + 1 \in Nat /\ last \in BOOLEAN
      BY <2>3
    <3> HIDE DEF b, last
    <3> QED
      BY <2>2, <2>5, <3>1 DEF InsertCall
  <2>8. c.new \/ c.i < c.n
    <3>1. last \/ b.i + 1 < b.n
      BY <2>3, <2>4
    <3> HIDE DEF b, c, last
    <3> QED
      BY <2>7, <3>1
  <2>9. Running(t) /\ unused' \in SUBSET Tuples
    BY <1>0, <2>1, <2>2 DEF Running, CallsTyped
  <2>10. stmt'[t] = c
    BY <1>0, <2>1 DEF CallsTyped
  <2>11. stmt' = [stmt EXCEPT ![t] = stmt'[t]]
    BY <2>1, <2>10, Zenon
  <2>12. stmt'[t] \in InsertCall /\ stmt'[t].ph = "get" /\ stmt'[t].file = f
    BY <2>7, <2>10, Zenon
  <2>13. stmt'[t].i < NumPages(f)' /\ stmt'[t].n <= NumPages(f)'
    <3>1. stmt'[t].i = b.i + 1 /\ stmt'[t].n = b.n
      BY <2>7, <2>10, Zenon
    <3> HIDE DEF c
    <3> QED
      BY <2>6, <3>1
  <2>14. stmt'[t].new \/ stmt'[t].i < stmt'[t].n
    BY <2>8, <2>10, Zenon
  <2>15. UNCHANGED <<added, removed, committed>>
    BY <2>1
  <2> QED
    BY <1>5, <2>9, <2>11, <2>12, <2>13, <2>14, <2>15, Zenon
<1> QED
  BY <1>6, <1>7 DEF Grows

\* A change of a page, or none, of the statement of t: c is what is left of it.
LEMMA ModifyKeepsCalls ==
    ASSUME HeapInv, NEW t \in Tids, InsertTuple(t) \/ DeleteTuple(t), detached' \in BOOLEAN
    PROVE  CallsOK'
<1>0. TypeOK /\ CallsTyped /\ FilesContiguous /\ DirtyOnDisk /\ HandlesLocked
      /\ \A u \in Tids : CallOK(u)
  BY DEF HeapInv
<1>1. UNCHANGED <<mapPageLocksByTid, waiting, ended, pages, lockPage, waitPage, handle, disk>>
  BY InsertModifies, DeleteModifies DEF Modify, vars, lockVars, pointers
<1>2. FilesContiguous'
  BY <1>0, <1>1, FilesStay
<1>3. DirtyOnDisk' /\ HandlesLocked'
  <2>1. \A k \in Keys : Live(k)' = Live(k)
    BY <1>1 DEF Live
  <2>2. \A k \in Keys : disk[k] = Nil => heap'[k] = heap[k]
    <3>1. CASE UNCHANGED vars
      BY <3>1 DEF vars
    <3>2. ASSUME NEW c, Modify(t, c), stmt[t] # Nil, stmt[t].ph = "got"
          PROVE  \A k \in Keys : disk[k] = Nil => heap'[k] = heap[k]
      <4>1. handle[t].key = PageOf(stmt[t]) /\ PageOf(stmt[t]) \in Keys /\ disk[PageOf(stmt[t])] # Nil
        BY <3>2, CallsData, CallsPage
      <4>2. heap' = [heap EXCEPT ![handle[t].key][handle[t].page] = [data |-> c, dirty |-> TRUE]]
        BY <3>2 DEF Modify
      <4> QED
        BY <1>0, <4>1, <4>2 DEF TypeOK
    <3> QED
      BY <3>1, <3>2, InsertModifies, DeleteModifies
  <2>3. DirtyOnDisk'
    BY <1>0, <1>1, <2>1, <2>2 DEF DirtyOnDisk
  <2> QED
    BY <1>0, <1>1, <2>3 DEF HandlesLocked
<1>4. ASSUME NEW c, CallFits(t, c), stmt' = [stmt EXCEPT ![t] = c], CallsTyped'
      PROVE  CallsOK'
  <2>1. stmt'[t] = c /\ \A u \in Tids \ {t} : stmt'[u] = stmt[u]
    BY <1>0, <1>4 DEF CallsTyped
  <2>2. CallOK(t)'
    BY <1>1, <1>4, <2>1 DEF CallFits, CallOK, CallInFile, CallAtPage, NumPages
  <2>3. ASSUME NEW u \in Tids \ {t} PROVE CallOK(u)'
    BY <1>0, <1>1, <1>2, <2>1, CallKept
  <2> QED
    BY <1>2, <1>3, <1>4, <2>2, <2>3 DEF CallsOK
<1>5. CASE InsertTuple(t)
  <2>1. stmt[t] # Nil /\ stmt[t].ph = "got" /\ stmt[t].tup \in Tuples
    BY <1>5, InsertModifies
  <2>2. CallFits(t, Nil)
    BY <2>1, CallFacts DEF CallFits
  <2>3. stmt' = [stmt EXCEPT ![t] = Nil] /\ CallsTyped'
    BY <1>0, <1>5, <2>1 DEF InsertTuple, CallsTyped
  <2> QED
    BY <1>4, <2>2, <2>3
<1>6. CASE DeleteTuple(t)
  <2> DEFINE b == stmt[t]
             c == [b EXCEPT !.kind = "scan", !.ph = "row", !.tup = Nil]
  <2>1. b # Nil /\ b.ph = "got" /\ b \in ScanCall /\ b.tup \in Tuples
    BY <1>6, DeleteModifies
  <2>2. CallInFile(b) /\ t \notin ended /\ waiting[t] = Nil
    BY <2>1, CallFacts
  <2>3. /\ c \in ScanCall /\ c.kind = "scan" /\ c.ph = "row" /\ c.tup = Nil
        /\ c.i = b.i /\ c.n = b.n /\ c.file = b.file
    BY <2>1 DEF ScanCall
  <2>4. stmt' = [stmt EXCEPT ![t] = c] /\ UNCHANGED <<unused, added, committed>>
        /\ removed' = [removed EXCEPT ![t] = @ \cup {b.tup}]
    BY <1>6 DEF DeleteTuple
  <2> HIDE DEF c, b
  <2>5. CallsTyped'
    BY <1>0, <2>1, <2>3, <2>4 DEF CallsTyped
  <2>6. c # Nil /\ CallInFile(c) /\ CallAtPage(t, c)
    BY <2>2, <2>3, CallNilAssumption DEF CallInFile, CallAtPage
  <2>7. CallFits(t, c)
    BY <2>3, <2>6 DEF CallFits
  <2> QED
    BY <1>4, <2>4, <2>5, <2>7
<1> QED
  BY <1>5, <1>6

\* A commit writes pages the files have.
LEMMA CommitKeepsFiles ==
    ASSUME TypeOK, DirtyOnDisk, NEW t \in Tids, CommitTransaction(t), NEW k \in Keys
    PROVE  disk[k] # Nil <=> disk'[k] # Nil
<1>1. disk'[k] = IF k \in Flushed(t) THEN heap[k][lockPage[t][k]].data ELSE disk[k]
  BY DEF CommitTransaction
<1>2. CASE k \in Flushed(t)
  <2>1. lockPage[t][k] \in Live(k) /\ heap[k][lockPage[t][k]].dirty
    BY <1>2, PointersReach DEF Flushed, Reached
  <2>2. heap[k][lockPage[t][k]] \in Page
    BY <2>1 DEF TypeOK, Live
  <2> QED
    BY <1>1, <1>2, <2>1, <2>2, PageNilAssumption DEF DirtyOnDisk, Page
<1> QED
  BY <1>1, <1>2

LEMMA EndKeepsCalls ==
    ASSUME HeapInv, NEW t \in Tids, Commit(t) \/ Abort(t), detached' \in BOOLEAN
    PROVE  CallsOK'
<1>0. TypeOK /\ CallsTyped /\ FilesContiguous /\ DirtyOnDisk /\ HandlesLocked
      /\ \A u \in Tids : CallOK(u)
  BY DEF HeapInv
<1>1. /\ CommitTransaction(t) \/ AbortTransaction(t)
      /\ stmt[t] = Nil /\ stmt' = stmt
  BY DEF Commit, Abort
<1>2. \A k \in Keys : disk[k] # Nil <=> disk'[k] # Nil
  BY <1>0, <1>1, CommitKeepsFiles DEF AbortTransaction
<1>3. FilesContiguous'
  BY <1>0, <1>2, FilesStay
<1>4. DirtyOnDisk'
  <2>1. ASSUME NEW l \in Keys, NEW x \in Live(l)', heap'[l][x].dirty PROVE disk[l] # Nil
    <3>1. x \in Live(l)
      BY <1>0, <1>1, OthersReach
    <3>2. CASE AbortTransaction(t)
      <4>1. heap'[l][x] = heap[l][x]
        BY <3>2, CollectedKeeps DEF AbortTransaction
      <4> QED
        BY <1>0, <2>1, <3>1, <4>1 DEF DirtyOnDisk
    <3>3. CASE CommitTransaction(t)
      <4>1. heap'[l][x] = Cleaned(Flushed(t), lockPage[t])[l][x]
        BY <3>3, CollectedKeeps DEF CommitTransaction
      <4>2. CASE l \in Flushed(t)
        <5>1. lockPage[t][l] \in Live(l) /\ heap[l][lockPage[t][l]].dirty
          BY <1>0, <4>2, PointersReach DEF Flushed, Reached
        <5> QED
          BY <1>0, <5>1 DEF DirtyOnDisk
      <4>3. CASE l \notin Flushed(t)
        <5>1. heap'[l][x] = heap[l][x]
          BY <4>1, <4>3 DEF Cleaned
        <5> QED
          BY <1>0, <2>1, <3>1, <5>1 DEF DirtyOnDisk
      <4> QED
        BY <4>2, <4>3
    <3> QED
      BY <1>1, <3>2, <3>3
  <2> QED
    BY <1>2, <2>1 DEF DirtyOnDisk
<1>5. HandlesLocked'
  BY <1>0, <1>1, OthersKeepHandles
<1>6. CallsTyped'
  BY <1>0 DEF Commit, Abort, CallsTyped
<1>7. /\ waiting' = waiting /\ ended' = ended \cup {t}
      /\ \A u \in Tids \ {t} : handle'[u] = handle[u]
  BY <1>0, <1>1 DEF CommitTransaction, AbortTransaction, End, TypeOK
<1>8. CallOK(t)'
  BY <1>0, <1>1, <1>7 DEF CallOK
<1>9. ASSUME NEW u \in Tids \ {t} PROVE CallOK(u)'
  BY <1>0, <1>1, <1>2, <1>3, <1>7, CallKept
<1> QED
  BY <1>3, <1>4, <1>5, <1>6, <1>8, <1>9 DEF CallsOK

-----------------------------------------------------------------------------
(* The invariant                                                           *)

LEMMA HeapInitOK == HeapInit => HeapInv
<1> SUFFICES ASSUME HeapInit PROVE HeapInv
  OBVIOUS
<1>1. TypeOK
  BY PoolInitTyped DEF HeapInit
<1>2. LockCompatible /\ HandlesLocked
  BY DEF HeapInit, Init, LockInit, LockCompatible, HandlesLocked
<1>3. committed \in SUBSET Tuples
  <2>1. \A k \in Keys : DiskInit[k] # Nil => DiskInit[k] \in Slots
    BY DiskInitAssumption, HeapContentAssumption
  <2>2. \A k \in Keys : DiskInit[k] # Nil => TuplesOf(DiskInit[k]) \subseteq Tuples
    BY <2>1, SlotKinds
  <2> QED
    BY <2>2 DEF HeapInit
<1>4. CallsTyped
  BY <1>3 DEF HeapInit, CallsTyped
<1>5. FilesContiguous
  BY FilesAssumption DEF HeapInit, Init, FilesContiguous, FirstPages
<1>6. DirtyOnDisk
  <2>1. ASSUME NEW k \in Keys PROVE Live(k) = {}
    BY PageNilAssumption DEF HeapInit, Init, LockInit, Live, Points
  <2> QED
    BY <2>1 DEF DirtyOnDisk
<1>7. \A t \in Tids : CallOK(t)
  BY DEF HeapInit, Init, LockInit, CallOK
<1> QED
  BY <1>1, <1>2, <1>4, <1>5, <1>6, <1>7 DEF HeapInv

\* A step for one transaction, whoever makes it, keeps the invariant.
LEMMA HeapActionOK ==
    ASSUME HeapInv, NEW t \in Tids, HeapAction(t), detached' \in BOOLEAN
    PROVE  HeapInv'
<1>1. TypeOK' /\ LockCompatible'
  BY HeapStepTyped
<1>2. CallsOK'
  BY <1>1, GetKeepsCalls, QuietKeepsCalls, GrowsKeepsCalls, ModifyKeepsCalls, EndKeepsCalls
  DEF HeapAction
<1> QED
  BY <1>1, <1>2 DEF HeapInv, CallsOK

LEMMA HeapStepOK == HeapInv /\ [HeapNext]_<<vars, heapVars>> => HeapInv'
<1> SUFFICES ASSUME HeapInv, [HeapNext]_<<vars, heapVars>> PROVE HeapInv'
  OBVIOUS
<1>1. CASE HeapNext
  <2>1. PICK t \in Tids : HeapAction(t)
    BY <1>1, HeapSteps
  <2>2. detached' \in BOOLEAN
    BY <1>1 DEF HeapNext
  <2> QED
    BY <2>1, <2>2, HeapActionOK
<1>2. CASE UNCHANGED <<vars, heapVars>>
  <2>1. /\ UNCHANGED <<mapPageLocksByTid, waitTidLocks, waiting, ended, pages, lockPage, waitPage>>
        /\ UNCHANGED <<handle, heap, disk, stmt, unused, added, removed, committed, detached>>
    BY <1>2 DEF vars, heapVars, lockVars, pointers
  <2>2. TypeOK'
    BY <1>2, PoolStepTyped DEF HeapInv, heapVars
  <2>3. LockCompatible' /\ HandlesLocked' /\ CallsTyped' /\ FilesContiguous'
    BY <2>1 DEF HeapInv, LockCompatible, HandlesLocked, CallsTyped, FilesContiguous
  <2>4. DirtyOnDisk'
    BY <2>1 DEF HeapInv, DirtyOnDisk, Live
  <2>5. \A t \in Tids : CallOK(t)'
    BY <2>1 DEF HeapInv, CallOK, CallInFile, CallAtPage, NumPages
  <2> QED
    BY <2>2, <2>3, <2>4, <2>5 DEF HeapInv
<1> QED
  BY <1>1, <1>2

\* The files and the statements that work on them are well-formed in every
\* state, whoever inserts, scans, deletes, waits, is rolled back or ends.
THEOREM HeapTyping == HeapSpec => []HeapInv
  BY HeapInitOK, HeapStepOK, PTL DEF HeapSpec

\* insertTuple and Iterator never ask for a page past the end of their file,
\* and insertTuple never leaves a gap, however many transactions append pages
\* between the moment it counted them and the moment it writes its own.
THEOREM FilesHaveNoGaps == HeapSpec => []PagesContiguous
<1>1. HeapInv => PagesContiguous
  <2> SUFFICES ASSUME HeapInv PROVE PagesContiguous
    OBVIOUS
  <2>1. ASSUME NEW k \in OnDisk PROVE k.pageNo < NumPages(k.file)
    <3>1. k \in Keys /\ k.file \in Files /\ disk[k] # Nil
      BY DEF OnDisk, Keys
    <3>2. FirstPages(disk, k.file, NumPages(k.file))
      BY <3>1, PagesCounted DEF HeapInv
    <3> QED
      BY <3>1, <3>2 DEF FirstPages
  <2>2. \A t \in Tids : stmt[t] # Nil => stmt[t].i < NumPages(stmt[t].file)
    BY DEF HeapInv, CallOK, CallInFile
  <2> QED
    BY <2>1, <2>2 DEF PagesContiguous
<1> QED
  BY <1>1, HeapTyping, PTL
=============================================================================
