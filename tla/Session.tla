------------------------------- MODULE Session -------------------------------
(***************************************************************************)
(* The shell of GoDB (main.go) on top of heap files and the buffer pool:   *)
(* which transaction each statement runs in, when the shell commits it,    *)
(* what an interrupt, a failing statement, CREATE and DROP, a CSV load and *)
(* a crash leave behind.                                                   *)
(*                                                                         *)
(* The shell is one goroutine: a statement runs to its end before the next *)
(* line is read.  Its steps are those of module HeapFile.  A statement     *)
(* scans one table at most: joins, which scan several and their right one  *)
(* again and again, are in module Query, and an INSERT gets its rows from  *)
(* VALUES.  Transaction ids are numbers, given out in order.  The catalog  *)
(* is the set of its tables, and is saved in one step; module Catalog has  *)
(* the details.                                                            *)
(***************************************************************************)
EXTENDS HeapFile

CONSTANTS
    TabsInit,   \* the tables of the catalog at the start
    MaxRows,    \* bound: rows of one INSERT
    MaxAlarms   \* interrupts that can be pending

\* Writes of CSV loads: LoadFromCSV has a transaction for each line.
Loading == {"load", "loadInsert", "loadFlush"}

\* A command of the shell: what it does, the table, its transaction, the rows an
\* INSERT has still to insert, and whether a call of a heap file has failed.
Cmd ==
    [kind : {"select", "insert", "delete", "counted"} \cup Loading, file : Files, tid : Tids,
     rows : 0 .. MaxRows, failed : BOOLEAN]

ASSUME TidsAssumption == IsFiniteSet(Tids) /\ Tids = 1 .. Cardinality(Tids)
ASSUME CmdNilAssumption == Nil \notin Tids /\ Nil \notin Cmd
ASSUME TabsAssumption == TabsInit \subseteq Files
ASSUME BoundsAssumption == MaxRows \in Nat /\ MaxAlarms \in Nat

VARIABLES
    tabs,       \* the tables of the catalog
    nextTid,    \* the id NewTID gives out next
    tx,         \* the transaction of BEGIN, or Nil: autocommit
    cmd,        \* the command under way, or Nil: the shell waits for a line
    alarm,      \* interrupts pending: in the channel alarm, or about to be sent
    forgotten,  \* history: transactions the shell has left without ending them
    haunted     \* history: pages of a dropped table may come back

sessionVars == <<tabs, nextTid, tx, cmd, alarm, forgotten, haunted>>
allVars == <<vars, heapVars, sessionVars>>

Doing(kinds) == cmd # Nil /\ cmd.kind \in kinds
cur == cmd.tid                       \* the transaction of the command
Idle == cmd # Nil /\ stmt[cur] = Nil \* no call of a heap file method is under way
HaveTid == nextTid \in Tids          \* bound on the transactions of one process

below == <<vars, stmt, unused, added, removed, committed>>  \* the state of HeapFile
shell == <<tabs, nextTid, tx, alarm, forgotten, haunted>>

-----------------------------------------------------------------------------
(* BEGIN, COMMIT and ROLLBACK                                              *)

Begin ==
    /\ cmd = Nil
    /\ tx = Nil
    /\ HaveTid
    /\ tx' = nextTid
    /\ nextTid' = nextTid + 1
    /\ UNCHANGED <<below, tabs, cmd, alarm, forgotten, haunted>>

CommitCmd ==
    /\ cmd = Nil
    /\ tx # Nil
    /\ Commit(tx)
    /\ tx' = Nil
    /\ UNCHANGED <<tabs, nextTid, cmd, alarm, forgotten, haunted>>

AbortCmd ==
    /\ cmd = Nil
    /\ tx # Nil
    /\ Abort(tx)
    /\ tx' = Nil
    /\ UNCHANGED <<tabs, nextTid, cmd, alarm, forgotten, haunted>>

-----------------------------------------------------------------------------
(* Statements                                                              *)

\* A SELECT, INSERT or DELETE on table f: under autocommit it gets a
\* transaction of its own.  rows is what an INSERT has still to insert.
Statement(kind, f, rows) ==
    /\ cmd = Nil
    /\ f \in tabs
    /\ tx = Nil => HaveTid
    /\ LET t == IF tx = Nil THEN nextTid ELSE tx
       IN  /\ cmd' = [kind |-> kind, file |-> f, tid |-> t, rows |-> rows, failed |-> FALSE]
           /\ nextTid' = IF tx = Nil THEN nextTid + 1 ELSE nextTid
           /\ IF kind = "insert" \/ NumPages(f) = 0
              THEN UNCHANGED below
              ELSE StartScan(t, f)
    /\ UNCHANGED <<tabs, tx, alarm, forgotten, haunted>>

\* The tuples are interchangeable: the next one is taken.
NextTuple == CHOOSE x \in unused : TRUE

\* InsertOp gets the next row of its child and inserts it.
InsertRow ==
    /\ Doing({"insert"})
    /\ Idle
    /\ ~ cmd.failed
    /\ cmd.rows > 0
    /\ unused # {}
    /\ StartInsert(cur, cmd.file, NextTuple)
    /\ cmd' = [cmd EXCEPT !.rows = @ - 1]
    /\ UNCHANGED shell

\* A step of GetPage.  An error of insertTuple or deleteTuple ends the
\* statement; one of the scan is dropped, and ends the scan.
GetStep ==
    /\ cmd # Nil
    /\ CallGetPage(cur) \/ Awake(cur)
    /\ cmd' = [cmd EXCEPT !.failed = stmt'[cur] = Nil /\ stmt[cur].kind # "scan"]
    /\ UNCHANGED shell

\* The steps of insertTuple, of the scan and of deleteTuple.  A scan goes on
\* after a row that a filter has dropped or an operator has kept; the row of a
\* SELECT may also be the last that LIMIT lets through.
HeapStep ==
    /\ cmd # Nil
    /\ \/ InsertTuple(cur)
       \/ InsertGoesOn(cur)
       \/ InsertDropped(cur)
       \/ cmd.kind # "loadFlush" /\ (ScanRow(cur) \/ ScanPageDone(cur))
       \/ ScanNext(cur)
       \/ cmd.kind = "select" /\ ScanStops(cur)
       \/ cmd.kind = "delete" /\ DeleteRow(cur)
       \/ DeleteTuple(cur)
    /\ UNCHANGED <<cmd, shell>>

\* InsertOp and DeleteOp return their count, and will return it again and again.
Counts ==
    /\ Doing({"insert", "delete"})
    /\ Idle
    /\ ~ cmd.failed
    /\ cmd.kind = "insert" => cmd.rows = 0 \/ unused = {}
    /\ cmd' = [cmd EXCEPT !.kind = "counted"]
    /\ UNCHANGED <<below, shell>>

\* Mutant: the transaction of a statement is committed only if it has not failed.
Finish_NotIfFailed ==
    /\ Doing({"select", "insert", "delete"})
    /\ Idle
    /\ cmd.kind # "select" => cmd.failed
    /\ IF tx = Nil /\ ~ cmd.failed THEN Commit(cur) ELSE UNCHANGED below
    /\ cmd' = Nil
    /\ UNCHANGED shell

\* The iterator has returned nil, or an error: the loop ends, and under
\* autocommit the transaction is committed, in either case.
Finish ==
    /\ Doing({"select", "insert", "delete"})
    /\ Idle
    /\ cmd.kind # "select" => cmd.failed
    /\ IF tx = Nil THEN Commit(cur) ELSE UNCHANGED below
    /\ cmd' = Nil
    /\ UNCHANGED shell

\* plan.Iterator has failed: the shell prints the error and reads the next line,
\* and neither commits nor aborts.  Pages may be locked by then: EqualityJoin
\* looks for its first left tuple, in vain, and an Aggregator on top of it returns
\* the error.  (Whether rows have been printed is not modelled: the code gets
\* here only without any, and leaves the same behind.)
IteratorFails ==
    /\ Doing({"select"})
    /\ Idle
    /\ cmd' = Nil
    /\ forgotten' = IF tx = Nil THEN forgotten \cup {cur} ELSE forgotten
    /\ UNCHANGED <<below, tabs, nextTid, tx, alarm, haunted>>

\* Mutant: the channel has no limit.
Signal_Unlimited ==
    /\ alarm' = alarm + 1
    /\ UNCHANGED <<below, tabs, nextTid, tx, cmd, forgotten, haunted>>

\* SIGINT: the handler sends to alarm, whose buffer holds one; while it waits
\* to send the next, the runtime drops further signals.
Signal ==
    /\ alarm < MaxAlarms
    /\ alarm' = alarm + 1
    /\ UNCHANGED <<below, tabs, nextTid, tx, cmd, forgotten, haunted>>

\* A row has been printed, of a scan, of an operator that kept its rows, or a
\* count: it is the only place where the shell looks at alarm.
RowPrinted ==
    \/ Doing({"counted"})
    \/ Doing({"select"}) /\ (Idle \/ InPhase(cur, {"scan"}, "row"))

\* Mutant: break instead of goto, which leaves the select and not the loop.
Interrupt_Break ==
    /\ RowPrinted
    /\ alarm > 0
    /\ alarm' = alarm - 1
    /\ UNCHANGED <<below, tabs, nextTid, tx, cmd, forgotten, haunted>>

\* "goto outer" jumps over the commit: under autocommit the shell forgets the
\* transaction, which keeps its locks.
Interrupt ==
    /\ RowPrinted
    /\ alarm > 0
    /\ alarm' = alarm - 1
    /\ stmt' = [stmt EXCEPT ![cur] = Nil]
    /\ cmd' = Nil
    /\ forgotten' = IF tx = Nil THEN forgotten \cup {cur} ELSE forgotten
    /\ UNCHANGED <<vars, unused, added, removed, committed, tabs, nextTid, tx, haunted>>

-----------------------------------------------------------------------------
(* CREATE and DROP                                                         *)

PagesOf(f) == {k \in Keys : k.file = f}

\* Nothing is done to the pool, where pages of an earlier table of that name
\* may still be.
Create(f) ==
    /\ cmd = Nil
    /\ f \notin tabs
    /\ tabs' = tabs \cup {f}
    /\ haunted' = (haunted \/ PagesOf(f) \cap Cached # {})
    /\ UNCHANGED <<below, nextTid, tx, cmd, alarm, forgotten>>

\* Mutant: the file of the table stays.
Drop_KeepsFile(f) ==
    /\ cmd = Nil
    /\ f \in tabs
    /\ tabs' = tabs \ {f}
    /\ committed' = committed \ UNION {TuplesOf(disk[k]) : k \in PagesOf(f) \cap OnDisk}
    /\ haunted' = (haunted \/ \E k \in PagesOf(f), t \in Tids : mapPageLocksByTid[t][k] = "Write")
    /\ UNCHANGED <<vars, stmt, unused, added, removed, nextTid, tx, cmd, alarm, forgotten>>

\* The file is removed.  A transaction that has written to it, and commits
\* later, makes it anew.
Drop(f) ==
    /\ cmd = Nil
    /\ f \in tabs
    /\ tabs' = tabs \ {f}
    /\ disk' = [k \in Keys |-> IF k.file = f THEN Nil ELSE disk[k]]
    /\ committed' = committed \ UNION {TuplesOf(disk[k]) : k \in PagesOf(f) \cap OnDisk}
    /\ haunted' = (haunted \/ \E k \in PagesOf(f), t \in Tids : mapPageLocksByTid[t][k] = "Write")
    /\ UNCHANGED <<lockVars, pointers, heap, stmt, unused, added, removed, nextTid, tx, cmd, alarm, forgotten>>

-----------------------------------------------------------------------------
(* \l: LoadFromCSV                                                         *)

Load(f) ==
    /\ cmd = Nil
    /\ f \in tabs
    /\ HaveTid
    /\ cmd' = [kind |-> "load", file |-> f, tid |-> nextTid, rows |-> 0, failed |-> FALSE]
    /\ UNCHANGED <<below, shell>>

\* The next line: a transaction of its own, whatever the shell's is.
LoadLine ==
    /\ Doing({"load"})
    /\ HaveTid
    /\ unused # {}
    /\ StartInsert(nextTid, cmd.file, NextTuple)
    /\ cmd' = [cmd EXCEPT !.kind = "loadInsert", !.tid = nextTid, !.failed = FALSE]
    /\ nextTid' = nextTid + 1
    /\ UNCHANGED <<tabs, tx, alarm, forgotten, haunted>>

\* The file ends, or has a malformed line; the lines before it stay loaded.
LoadEnds ==
    /\ Doing({"load"})
    /\ cmd' = Nil
    /\ UNCHANGED <<below, shell>>

\* insertTuple has returned; its error is not looked at.  All pages of the file
\* are read ...
LoadInserted ==
    /\ Doing({"loadInsert"})
    /\ Idle
    /\ IF NumPages(cmd.file) = 0
       THEN UNCHANGED below
       ELSE StartScan(cur, cmd.file)
    /\ cmd' = [cmd EXCEPT !.kind = "loadFlush"]
    /\ UNCHANGED shell

\* ... and those that are dirty are written and marked clean, up to the first
\* page GetPage has an error for.
LoadFlushPage ==
    /\ Doing({"loadFlush"})
    /\ InPhase(cur, {"scan"}, "got")
    /\ LET k == handle[cur].key
           o == handle[cur].page
       IN  IF heap[k][o].dirty
           THEN /\ disk' = [disk EXCEPT ![k] = Data(cur)]
                /\ heap' = [heap EXCEPT ![k][o].dirty = FALSE]
                /\ committed' = committed \cup (added[cur] \cap TuplesOf(Data(cur)))
           ELSE UNCHANGED <<disk, heap, committed>>
    /\ stmt' = [stmt EXCEPT ![cur] =
                  IF stmt[cur].i + 1 < NumPages(cmd.file)
                  THEN [@ EXCEPT !.ph = "get", !.i = stmt[cur].i + 1]
                  ELSE Nil]
    /\ UNCHANGED <<lockVars, pointers, unused, added, removed, cmd, shell>>

LoadCommit ==
    /\ Doing({"loadFlush"})
    /\ Idle
    /\ Commit(cur)
    /\ cmd' = [cmd EXCEPT !.kind = "load"]
    /\ UNCHANGED shell

-----------------------------------------------------------------------------
\* The process dies, but not within a commit (README_lab_3.md assumes so), and
\* is started again: what was in memory is gone.
Restart ==
    /\ mapPageLocksByTid' = [t \in Tids |-> [k \in Keys |-> Nil]]
    /\ waitTidLocks' = [t \in Tids |-> {}]
    /\ waiting' = [t \in Tids |-> Nil]
    /\ ended' = {}
    /\ pages' = [k \in Keys |-> Nil]
    /\ lockPage' = [t \in Tids |-> [k \in Keys |-> Nil]]
    /\ waitPage' = [t \in Tids |-> Nil]
    /\ handle' = [t \in Tids |-> Nil]
    /\ heap' = [k \in Keys |-> [o \in Objs |-> Nil]]
    /\ stmt' = [t \in Tids |-> Nil]
    /\ added' = [t \in Tids |-> {}]
    /\ removed' = [t \in Tids |-> {}]
    /\ nextTid' = 1
    /\ tx' = Nil
    /\ cmd' = Nil
    /\ alarm' = 0
    /\ forgotten' = {}
    /\ UNCHANGED <<disk, unused, committed, tabs, haunted>>

SessionInit ==
    /\ HeapInit
    /\ tabs = TabsInit
    /\ nextTid = 1
    /\ tx = Nil
    /\ cmd = Nil
    /\ alarm = 0
    /\ forgotten = {}
    /\ haunted = FALSE

\* What the shell does by itself, once it has a command.
Work ==
    \/ InsertRow
    \/ GetStep
    \/ HeapStep
    \/ Counts
    \/ Finish
    \/ IteratorFails
    \/ Interrupt
    \/ LoadLine
    \/ LoadEnds
    \/ LoadInserted
    \/ LoadFlushPage
    \/ LoadCommit

\* What comes from outside.
Command ==
    \/ Begin
    \/ CommitCmd
    \/ AbortCmd
    \/ \E f \in Files : Statement("select", f, 0) \/ Statement("delete", f, 0)
    \/ \E f \in Files, n \in 1 .. MaxRows : Statement("insert", f, n)
    \/ \E f \in Files : Create(f) \/ Drop(f) \/ Load(f)

SessionNext == (Work \/ Command \/ Signal \/ Restart) /\ UNCHANGED detached

\* The shell goes on with its command as long as it can.
SessionSpec == SessionInit /\ [][SessionNext]_allVars /\ WF_allVars(Work /\ UNCHANGED detached)

-----------------------------------------------------------------------------
(* What a session must guarantee                                           *)

SessionTypeOK ==
    /\ tabs \in SUBSET Files
    /\ nextTid \in Tids \cup {Cardinality(Tids) + 1}
    /\ tx \in Tids \cup {Nil}
    /\ cmd \in Cmd \cup {Nil}
    /\ cmd # Nil => cmd.file \in tabs
    /\ alarm \in 0 .. MaxAlarms
    /\ forgotten \in SUBSET Tids

\* No lock outlives its transaction: whoever has a lock is the transaction the
\* user has begun, that of the command under way, or one that the shell has
\* forgotten under autocommit, at an interrupt or at an error of plan.Iterator.
\* A session that met neither has no locks between its commands, whatever
\* insertTuple, deleteTuple or GetPage failed, and whatever was loaded, dropped
\* or rolled back.
LocksAccounted ==
    \A t \in Tids : (\E k \in Keys : mapPageLocksByTid[t][k] # Nil) =>
        \/ t \in forgotten
        \/ t = tx
        \/ cmd # Nil /\ t = cur

\* The page k as the session has it: the pool's, or the one on disk.
Current(k) == IF pages[k] # Nil THEN heap[k][pages[k]].data ELSE disk[k]

\* The scan of a statement has returned all tuples of the pages before its
\* cursor, and none of those after it.
StatementScanExact ==
    (Doing({"select", "delete"}) /\ ~ Idle) =>
        \A k \in PagesOf(cmd.file) \cap OnDisk : \A s \in Used(Current(k)) :
            Current(k)[s] \in stmt[cur].seen <=>
                \/ k.pageNo < stmt[cur].i
                \/ k.pageNo = stmt[cur].i /\ s < stmt[cur].j

\* One session gets what many do not: the files have exactly the tuples of
\* committed statements, whatever was interrupted, aborted, loaded, evicted or
\* lost in a crash, scans miss and repeat nothing, and deletes hit what was
\* read; unless pages of a dropped table come back, because they were still in
\* the pool when a table of that name was created, or had been written by a
\* transaction that was open when it was dropped.
SessionExactUnlessHaunted ==
    \/ haunted
    \/ /\ FilesExact
       /\ StatementScanExact
       /\ DeletesWhatWasRead
       /\ InsertFindsRoom

\* "commit frequently, to avoid all pages in BP being full": a load loses none
\* of its lines to a full pool, if no other transaction has pages there.
LoadKeepsLines ==
    (Doing({"loadFlush"}) /\ tx = Nil /\ forgotten = {} /\ ~ haunted) => added[cur] # {}

\* The command waits for a lock that nobody is going to give up: of a
\* transaction the shell has forgotten (at an interrupt or at an error of
\* plan.Iterator), or of the one the user has begun.
Stuck == cmd # Nil /\ waiting[cur] # Nil /\ waitTidLocks[cur] \subseteq forgotten \cup {tx}

\* Every command that scans one table at most (SELECT and DELETE on one table,
\* INSERT ... VALUES, a load) comes to its end, for INSERT and DELETE the count,
\* or is stuck.  A join is no such command: with an empty right input it runs for
\* ever (Query!QueriesEnd); nor is an INSERT of what a SELECT returns.
CommandEnds == cmd # Nil ~> (cmd = Nil \/ Doing({"counted"}) \/ Stuck)

\* An INSERT or DELETE that repeats its count ends once it is interrupted.
InterruptHeeded == (Doing({"counted"}) /\ alarm > 0) ~> cmd = Nil
=============================================================================
