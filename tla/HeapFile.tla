------------------------------- MODULE HeapFile -------------------------------
(***************************************************************************)
(* Heap files and heap pages of GoDB (godb/heap_file.go, heap_page.go):    *)
(* insertTuple, deleteTuple and Iterator of transactions that work on the  *)
(* same files through the buffer pool.                                     *)
(*                                                                         *)
(* The contents of a page are its slots.  insertTuple and deleteTuple run  *)
(* under f.mu but give it up around each GetPage, so a statement is a      *)
(* sequence of GetPage calls (steps of BufferPool) and of the critical     *)
(* sections of f.mu between them.                                          *)
(***************************************************************************)
EXTENDS BufferPool

CONSTANTS Tuples,     \* the tuples clients insert, each at most once
          SlotsPerPage  \* totalSlots of a heapPage

SlotNos == 0 .. SlotsPerPage - 1
Slots == [SlotNos -> Tuples \cup {Nil}]
EmptySlots == [s \in SlotNos |-> Nil]

Used(c) == {s \in SlotNos : c[s] # Nil}
Free(c) == SlotNos \ Used(c)
First(S) == CHOOSE s \in S : \A r \in S : s <= r
TuplesOf(c) == {c[s] : s \in Used(c)}

\* heapPage.insertTuple, on a page with a free slot, and heapPage.deleteTuple,
\* for a slot that has a tuple.
With(c, x) == [c EXCEPT ![First(Free(c))] = x]
Without(c, s) == [c EXCEPT ![s] = Nil]

\* toBuffer writes the used slots one after the other, and initFromBuffer reads
\* them back into slots 0, 1, ..., which become the tuples' new record ids.
Dense(c) ==
    [i \in SlotNos |->
        LET S == {s \in Used(c) : Cardinality({r \in Used(c) : r < s}) = i}
        IN  IF S = {} THEN Nil ELSE c[First(S)]]

ASSUME SlotsAssumption == SlotsPerPage \in Nat \ {0} /\ Nil \notin Tuples
\* A call of insertTuple, and an iterator with the deleteTuple of a row of it.
InsertCall ==
    [kind : {"insert"}, ph : {"get", "asleep", "got"}, file : Files, tup : Tuples,
     i : Nat, n : Nat, new : BOOLEAN]
ScanCall ==
    [kind : {"scan", "delete"}, ph : {"get", "asleep", "got", "row"}, file : Files,
     tup : Tuples \cup {Nil}, i : Nat, j : 0 .. SlotsPerPage, n : Nat, seen : SUBSET Tuples]

ASSUME HeapContentAssumption == Content = Slots /\ \A c \in Content : RoundTrip(c) = Dense(c)
ASSUME CallNilAssumption == Nil \notin InsertCall /\ Nil \notin ScanCall

\* A file is a sequence of pages, and no tuple is in two places.
ASSUME FilesAssumption ==
    \A f \in Files : \E n \in 0 .. MaxPages :
        \A k \in Keys : k.file = f => (DiskInit[k] # Nil <=> k.pageNo < n)
ASSUME PlacesAssumption ==
    \A k, l \in {m \in Keys : DiskInit[m] # Nil} :
        \A r \in Used(DiskInit[k]), s \in Used(DiskInit[l]) :
            DiskInit[k][r] = DiskInit[l][s] => <<k, r>> = <<l, s>>

VARIABLES
    stmt,       \* tid -> the call of a heap file method under way, or Nil
    unused,     \* tuples no insert has taken yet
    added,      \* history: tid -> tuples it has put on pages
    removed,    \* history: tid -> tuples it has asked to delete
    committed,  \* history: the tuples the files ought to have
    detached    \* history: the pool has dropped a page somebody was using

heapVars == <<stmt, unused, added, removed, committed, detached>>

Key(f, i) == [file |-> f, pageNo |-> i]

\* The pages of a file; os.Stat sees what has been written so far.
NumPages(f) == Cardinality({k \in Keys : k.file = f /\ disk[k] # Nil})

Data(t) == heap[handle[t].key][handle[t].page].data   \* the page t has got

-----------------------------------------------------------------------------
(* GetPage, on behalf of a statement                                       *)

InPhase(t, kinds, ph) == stmt[t] # Nil /\ stmt[t].kind \in kinds /\ stmt[t].ph = ph

\* What becomes of the statement and of t's changes after a step of GetPage:
\* it sleeps, has its page, or returns an error to the client, which ends it.
Answered(t) ==
    /\ stmt' = [stmt EXCEPT ![t] =
                  IF waiting'[t] # Nil THEN [@ EXCEPT !.ph = "asleep"]
                  ELSE IF handle'[t] # Nil THEN [@ EXCEPT !.ph = "got"]
                  ELSE Nil]
    /\ added' = [added EXCEPT ![t] = IF RolledBack(t) THEN {} ELSE @]
    /\ removed' = [removed EXCEPT ![t] = IF RolledBack(t) THEN {} ELSE @]
    /\ UNCHANGED <<unused, committed>>

CallGetPage(t) ==
    /\ InPhase(t, {"insert", "scan", "delete"}, "get")
    /\ GetPage(t, Key(stmt[t].file, stmt[t].i),
               IF stmt[t].kind = "scan" THEN "Read" ELSE "Write")
    /\ Answered(t)

Awake(t) ==
    /\ InPhase(t, {"insert", "scan", "delete"}, "asleep")
    /\ WakeGetPage(t)
    /\ Answered(t)

-----------------------------------------------------------------------------
(* HeapFile.insertTuple                                                    *)

\* Mutant: the new page is written one page past the end of the file.
Append_PastEnd(f) ==
    /\ NumPages(f) + 1 < MaxPages
    /\ disk' = [disk EXCEPT ![Key(f, NumPages(f) + 1)] = EmptySlots]

\* A new, empty page goes straight to the end of the file on disk.
Append(f) ==
    /\ NumPages(f) < MaxPages
    /\ disk' = [disk EXCEPT ![Key(f, NumPages(f))] = EmptySlots]

\* numPages is read once.  An empty file gets its first page at once.
StartInsert(t, f, x) ==
    /\ Running(t)
    /\ stmt[t] = Nil
    /\ x \in unused
    /\ IF NumPages(f) = 0 THEN Append(f) ELSE UNCHANGED disk
    /\ stmt' = [stmt EXCEPT ![t] =
                  [kind |-> "insert", ph |-> "get", file |-> f, tup |-> x, i |-> 0,
                   n |-> NumPages(f), new |-> NumPages(f) = 0]]
    /\ unused' = unused \ {x}
    /\ UNCHANGED <<lockVars, pointers, heap, added, removed, committed>>

InsertTuple(t) ==
    /\ InPhase(t, {"insert"}, "got")
    /\ Free(Data(t)) # {}
    /\ Modify(t, With(Data(t), stmt[t].tup))
    /\ added' = [added EXCEPT ![t] = @ \cup {stmt[t].tup}]
    /\ stmt' = [stmt EXCEPT ![t] = Nil]
    /\ UNCHANGED <<unused, removed, committed>>

\* No free slot: on to the next page or, after the last of the n pages, to
\* page n, once a page has been added to the end of the file.
InsertGoesOn(t) ==
    /\ InPhase(t, {"insert"}, "got")
    /\ Free(Data(t)) = {}
    /\ ~ stmt[t].new
    /\ LET i == stmt[t].i + 1
           last == i = stmt[t].n
       IN  /\ IF last THEN Append(stmt[t].file) ELSE UNCHANGED disk
           /\ stmt' = [stmt EXCEPT ![t] = [@ EXCEPT !.ph = "get", !.i = i, !.new = last]]
    /\ UNCHANGED <<lockVars, pointers, heap, unused, added, removed, committed>>

\* No free slot on the page that was to be the new one: the error is logged
\* and insertTuple returns nil.
InsertDropped(t) ==
    /\ InPhase(t, {"insert"}, "got")
    /\ Free(Data(t)) = {}
    /\ stmt[t].new
    /\ stmt' = [stmt EXCEPT ![t] = Nil]
    /\ UNCHANGED <<vars, unused, added, removed, committed>>

-----------------------------------------------------------------------------
(* HeapFile.Iterator, and deleteTuple of the tuple it has just returned    *)

StartScan(t, f) ==
    /\ Running(t)
    /\ stmt[t] = Nil
    /\ NumPages(f) > 0
    /\ stmt' = [stmt EXCEPT ![t] =
                  [kind |-> "scan", ph |-> "get", file |-> f, tup |-> Nil, i |-> 0, j |-> 0,
                   n |-> NumPages(f), seen |-> {}]]
    /\ UNCHANGED <<vars, unused, added, removed, committed>>

\* The used slots of the page the scan has yet to return.
Ahead(t) == {s \in Used(Data(t)) : s >= stmt[t].j}

\* The iterator returns the next tuple of the page.
ScanRow(t) ==
    /\ InPhase(t, {"scan"}, "got")
    /\ Ahead(t) # {}
    /\ LET s == First(Ahead(t))
           x == Data(t)[s]
       IN  stmt' = [stmt EXCEPT ![t] =
                      [@ EXCEPT !.ph = "row", !.tup = x, !.j = s + 1,
                                !.seen = stmt[t].seen \cup {x}]]
    /\ UNCHANGED <<vars, unused, added, removed, committed>>

\* Mutant: the page number is not increased.
ScanPageDone_SamePage(t) ==
    /\ InPhase(t, {"scan"}, "got")
    /\ Ahead(t) = {}
    /\ stmt' = [stmt EXCEPT ![t] = [@ EXCEPT !.ph = "get", !.j = 0]]
    /\ UNCHANGED <<vars, unused, added, removed, committed>>

\* The page has no more tuples: the same call of the iterator goes on with the
\* next page, or returns nil.
ScanPageDone(t) ==
    /\ InPhase(t, {"scan"}, "got")
    /\ Ahead(t) = {}
    /\ stmt' = [stmt EXCEPT ![t] =
                  IF stmt[t].i + 1 < stmt[t].n
                  THEN [@ EXCEPT !.ph = "get", !.i = stmt[t].i + 1, !.j = 0]
                  ELSE Nil]
    /\ UNCHANGED <<vars, unused, added, removed, committed>>

\* The client calls the iterator again, which asks for the page again.
ScanNext(t) ==
    /\ InPhase(t, {"scan"}, "row")
    /\ stmt' = [stmt EXCEPT ![t] =
                  [@ EXCEPT !.ph = "get", !.tup = Nil, !.n = NumPages(stmt[t].file)]]
    /\ UNCHANGED <<vars, unused, added, removed, committed>>

\* The client stops before the end (LimitOp, or an error somewhere else).
ScanStops(t) ==
    /\ InPhase(t, {"scan"}, "row")
    /\ stmt' = [stmt EXCEPT ![t] = Nil]
    /\ UNCHANGED <<vars, unused, added, removed, committed>>

\* The client calls deleteTuple with the tuple, whose Rid is the page and slot
\* it was found in.
DeleteRow(t) ==
    /\ InPhase(t, {"scan"}, "row")
    /\ stmt[t].tup # Nil
    /\ stmt' = [stmt EXCEPT ![t] = [@ EXCEPT !.kind = "delete", !.ph = "get"]]
    /\ UNCHANGED <<vars, unused, added, removed, committed>>

\* Mutant: the slot number is taken from the iterator's cursor, which is one
\* past the tuple.
DeleteTuple_Cursor(t) ==
    /\ InPhase(t, {"delete"}, "got")
    /\ LET s == stmt[t].j
       IN  IF s \in SlotNos /\ Data(t)[s] # Nil
           THEN Modify(t, [Data(t) EXCEPT ![s] = Nil])
           ELSE UNCHANGED vars
    /\ removed' = [removed EXCEPT ![t] = @ \cup {stmt[t].tup}]
    /\ stmt' = [stmt EXCEPT ![t] = [@ EXCEPT !.kind = "scan", !.ph = "row", !.tup = Nil]]
    /\ UNCHANGED <<unused, added, committed>>

\* heapPage.deleteTuple empties the slot; an error, if it is empty already, is
\* dropped.
DeleteTuple(t) ==
    /\ InPhase(t, {"delete"}, "got")
    /\ LET s == stmt[t].j - 1
       IN  IF Data(t)[s] # Nil
           THEN Modify(t, Without(Data(t), s))
           ELSE UNCHANGED vars
    /\ removed' = [removed EXCEPT ![t] = @ \cup {stmt[t].tup}]
    /\ stmt' = [stmt EXCEPT ![t] = [@ EXCEPT !.kind = "scan", !.ph = "row", !.tup = Nil]]
    /\ UNCHANGED <<unused, added, committed>>

-----------------------------------------------------------------------------
(* Transactions                                                            *)

Commit(t) ==
    /\ stmt[t] = Nil
    /\ CommitTransaction(t)
    /\ committed' = (committed \cup added[t]) \ removed[t]
    /\ UNCHANGED <<stmt, unused, added, removed>>

Abort(t) ==
    /\ stmt[t] = Nil
    /\ AbortTransaction(t)
    /\ UNCHANGED <<stmt, unused, added, removed, committed>>

\* Every page object that a lock or a sleeping call refers to is the pool's.
InPool ==
    \A t \in Tids :
        /\ \A k \in Keys : lockPage[t][k] # Nil => lockPage[t][k] = pages[k]
        /\ waiting[t] # Nil => waitPage[t] = pages[waiting[t].key]

HeapInit ==
    /\ Init
    /\ stmt = [t \in Tids |-> Nil]
    /\ committed = UNION {TuplesOf(DiskInit[k]) : k \in {l \in Keys : DiskInit[l] # Nil}}
    /\ unused = Tuples \ committed
    /\ added = [t \in Tids |-> {}]
    /\ removed = [t \in Tids |-> {}]
    /\ detached = FALSE

HeapNext ==
    /\ \E t \in Tids :
          \/ CallGetPage(t)
          \/ Awake(t)
          \/ \E f \in Files, x \in Tuples : StartInsert(t, f, x)
          \/ InsertTuple(t)
          \/ InsertGoesOn(t)
          \/ InsertDropped(t)
          \/ \E f \in Files : StartScan(t, f)
          \/ ScanRow(t)
          \/ ScanPageDone(t)
          \/ ScanNext(t)
          \/ ScanStops(t)
          \/ DeleteRow(t)
          \/ DeleteTuple(t)
          \/ Commit(t)
          \/ Abort(t)
    /\ detached' = (detached \/ ~ InPool')

HeapSpec == HeapInit /\ [][HeapNext]_<<vars, heapVars>>

-----------------------------------------------------------------------------
(* What heap files must guarantee                                          *)

OnDisk == {k \in Keys : disk[k] # Nil}

\* The files have exactly the tuples that committed transactions inserted and
\* did not delete, each in one place, however pages were appended, evicted,
\* reread, compacted and rolled back.
FilesExact ==
    /\ UNION {TuplesOf(disk[k]) : k \in OnDisk} = committed
    /\ \A k, l \in OnDisk : \A r \in Used(disk[k]), s \in Used(disk[l]) :
          disk[k][r] = disk[l][s] => <<k, r>> = <<l, s>>

\* What t sees of page k, on which it has a lock.
Seen(t, k) == heap[k][lockPage[t][k]].data

\* A scan returns every tuple of the pages it has passed, and none twice: of
\* the tuples it can see, it has returned those before its cursor and no other.
ScanExact ==
    \A t \in Tids : (stmt[t] # Nil /\ stmt[t].kind # "insert") =>
        \A k \in Keys : (k.file = stmt[t].file /\ lockPage[t][k] # Nil) =>
            \A s \in Used(Seen(t, k)) :
                Seen(t, k)[s] \in stmt[t].seen <=>
                    \/ k.pageNo < stmt[t].i
                    \/ k.pageNo = stmt[t].i /\ s < stmt[t].j

\* A tuple is deleted from the slot it was read from: when deleteTuple gets to
\* the page, the slot the Rid names still has that tuple.
DeletesWhatWasRead ==
    \A t \in Tids : InPhase(t, {"delete"}, "got") =>
        Data(t)[stmt[t].j - 1] = stmt[t].tup

\* All this holds as long as no page that a transaction uses leaves the pool.
HeapExactUnlessDetached ==
    detached \/ (FilesExact /\ ScanExact /\ DeletesWhatWasRead)

\* insertTuple never gives up silently: the page it was promised as the new
\* one has room ("it should create a new [heapPage] and insert the tuple there").
InsertFindsRoom ==
    \A t \in Tids : (InPhase(t, {"insert"}, "got") /\ stmt[t].new) => Free(Data(t)) # {}

\* No two pages of a file have gaps between them: pages are appended at the
\* end, and every statement asks for a page the file has.
PagesContiguous ==
    /\ \A k \in OnDisk : k.pageNo < NumPages(k.file)
    /\ \A t \in Tids : stmt[t] # Nil => stmt[t].i < NumPages(stmt[t].file)
=============================================================================
