# A TLA+ development for GoDB

GoDB (`src/godb`, `src/main.go`) is a small relational database: SQL is parsed
and planned into a tree of iterators, which read and write heap files through
one buffer pool. Transactions are strict two-phase locking on pages, with a
FORCE / NO STEAL buffer pool and no log. This directory has TLA+ modules for
its core, the TLC configurations that check them, and TLAPS proofs.

## 1. Inventory

| part | state | operations | who calls it |
|---|---|---|---|
| lock manager (`buffer_pool.go`) | `mapPageLocksByTid`: tid -> page -> `PageLock{page, perm}`; `waitTidLocks`: tid -> tids | `handleTransactionInGetPage` (`isConflicted`, `waitWhenConflict`, `deadLockPrevent`, `saveMapAndUpgradeLock`, `deleteWaitTidLocks`), release in commit and `clearMap` | `GetPage`, `CommitTransaction`, `AbortTransaction` |
| buffer pool (`buffer_pool.go`) | `pages`: key -> page object, at most `numPages` | `GetPage`, `CommitTransaction`, `AbortTransaction`, `FlushAllPages`; `BeginTransaction` does nothing | heap files; the session |
| heap file (`heap_file.go`, `heap_page.go`) | the file; per page the slots, `usedSlots`, the dirty flag; `f.mu` | `insertTuple`, `deleteTuple`, `Iterator`, `LoadFromCSV`, `readPage`, `flushPage` | operators; the pool |
| operators (`*_op.go`) | closures: counters, cursors, sorted rows | `Iterator` | the session, each other |
| aggregation (`agg_op.go`, `agg_state.go`) | groups and their aggregate states | `Iterator`, `Init`, `AddTuple`, `Finalize` | the session |
| tuples, types, expressions (`tuple.go`, `types.go`, `exprs.go`) | none | `writeTo`, `readTupleFrom`, `merge`, `joinTuples`, `compareField`, `project`, `EvalExpr` | all of the above |
| catalog (`catalog.go`) | tables, columns; the catalog file | load, save, add, drop, `GetTable` | parser, session |
| parser and planner (`parser.go`) | none that lasts | `Parse` | session |
| session (`main.go`) | `autocommit`, `tid` | the command loop | the user |

How they interact. Everything runs through `BufferPool.GetPage(file, pageNo,
tid, perm)`. All methods of the pool hold `bp.mu`; `GetPage` gives it up only to
sleep when its request conflicts with a lock, and looks again when it wakes.
`insertTuple` and `deleteTuple` hold `f.mu` and give it up around `GetPage`;
commit takes `f.mu` inside `bp.mu`. Page objects are shared by pointer between
the pool, the lock table, the sleeping call and the caller, which may have
different ones for the same page.

What is hard here: interleavings at the two mutexes; state found before a sleep
and used after it; rollback of a transaction inside `GetPage`, while its caller
goes on; eviction of pages that are in use; deadlock detection by polling; the
pool at its capacity; record ids that change when a page is written and read
again; what an interrupt, an error, a dropped table or a crash leaves behind;
indexes of the catalog that outlive their tables. The code has no log: it relies
on NO STEAL and on commits that are not cut short (`README_lab_3.md` assumes
so), and so do the models of a crash. The list with source lines is `hazards` in
`PROJECT.json`.

What makes each part correct:

* lock manager: locks are compatible; all locks of a transaction go at once;
  whoever is rolled back was in a deadlock; every `GetPage` returns;
* deadlock search: right for every graph and iteration order, and it ends;
* buffer pool: within capacity, no dangling page, NO STEAL; what transactions
  see and leave on disk is isolated, atomic and durable;
* heap file: the file has exactly the committed tuples; a scan returns every
  tuple once; a delete hits the tuple that was read; appended pages leave no hole;
* queries: a statement delivers exactly the rows of its result, dropped errors
  add none, it ends and does not panic; expressions have the value SQL gives
  them, or an error;
* catalog: the list of tables and its indexes agree, and the catalog file gives
  the catalog back, after any commands, failed saves and crashes;
* planner: a column belongs to the table SQL says, no condition is lost, every
  table of FROM is scanned once;
* session: no lock outlives its transaction, the files have exactly what was
  committed, loads lose no line, every command of one scan ends or waits for a
  lock the session itself keeps, an interrupt is heeded.

## 2. Modules

| module | models | variables and actions |
|---|---|---|
| `WaitsFor` | what `deadLockPrevent` decides | `DeadLockPrevent(root, waits)`: root is in every set that contains what it waits for and is closed under waits-for |
| `LockManager` | locks of `buffer_pool.go` | `mapPageLocksByTid`, `waitTidLocks`, `waiting` (the request of a sleeping call), `ended`. An action is one critical section of `bp.mu`: `Lock` (a call up to its end or first sleep), `Wake` (one more turn of the loop), `End` |
| `LockTable` | nothing in the code: the abstract specification, strict two-phase locking with shared and exclusive page locks | `sharers`, `owners` |
| `DeadLockSearch` | `deadLockPrevent`, call by call | `stack` has a frame per active call: the map keys its loop has not taken yet; they are taken in any order, as Go does |
| `BufferPool` | the pool with its pages (extends `LockManager`) | `pages`, `lockPage` (`PageLock.page`), `waitPage` (what a sleeping call has found), `handle` (what the last call returned), `heap` (the page objects), `disk`. `GetPage`, `WakeGetPage`, `CommitTransaction`, `AbortTransaction`, `FlushAllPages`, `Modify` (a caller changes its page) |
| `Isolation` | clients of the pool that write marks | page contents are the set of transactions whose writes they have; history variables `wrote`, `saved` say what they should be |
| `HeapFile` | `heap_file.go`, `heap_page.go` (extends `BufferPool`) | page contents are slots; `stmt` is the insert, scan or delete a transaction is in, with its cursor; `Dense` is what writing and rereading a page does to its slots |
| `Expressions` | `exprs.go`: `EvalExpr` and `GetExprType` of fields, constants and functions | no state. `SqlValue` and `Meaning` are what an expression means, `WellFormed` and `Defined` when it means anything |
| `Query` | one statement: the plan (`parser.go`) and the iterators of its operators (`*_op.go`, `agg_state.go`); extends `Expressions` | `at`, `pc`, `ret`, `loc`: which operator runs, where each of them is, what the last call returned, what each closure has captured; `mem`: the arrays of the tuples' slices; `out`, `written`: what the client has printed and what was given to the target file. An action is the code of an operator between two calls |
| `Catalog` | `catalog.go`, with the DDL of `parser.go` and the `\c` and DDL commands of `main.go` | `tables`, `tableMap`, `columnMap`, `loaded` (the catalog in memory), `catName`, `catFile` (the files), `phase`. `CreateTable`, `DropTable`, `SaveOpens`, `SaveWrites`, `SaveFails`, `ChangeCatalog`, `Die`, `Start` |
| `Names` | how `parser.go` resolves columns and splits conditions into filters and joins, in the catalogs of `Catalog` | no state of its own: operators over `tableMap` and `columnMap`, compared with what SQL says |
| `Session` | the command loop of `main.go` (extends `HeapFile`) | `tabs`, `nextTid`, `tx`, `cmd`, `alarm`. A command starts a statement of `HeapFile` and drives it; `Finish`, `IteratorFails`, `Interrupt`, `CommitCmd`, `AbortCmd`, `Create`, `Drop`, the steps of a CSV load, `Restart` |
| `MC*` | instances for TLC | constants, symmetry, constraints |
| `DeadLockSearchProofs`, `IsolationProofs`, `HeapFileProofs`, `HeapExactProofs`, `SessionProofs`, `QueryProofs` | proofs about the module of that name (`HeapExactProofs`: what `HeapFile` says of tuples) | |
| `BufferPoolProofs` | proofs about `LockManager` and `BufferPool`, which are one file of the code | |
| `CatalogProofs` | proofs about `Catalog` and `Names` | |

Points of the correspondence worth knowing:

* A request conflicts by page *number*, as in `isConflicted`, whatever the file.
* `MadeRoom` is a set: which clean page is evicted depends on Go's map order.
* Objects of a page live as long as something points to them (`Live`);
  `Collected` is the garbage collector. `Objs` bounds the objects of one page
  alive at once; a read is blocked when they run out. The bounds of the runs
  never block it: with five objects instead of four, runs `isolation` and
  `session` have the same states.
* After an error from `GetPage` a caller may do anything: go on with the same
  tid, abort, or commit. The operators do all of these.
* `FlushAllPages` is a testing method; its callers (`heap_file_test.go:121`,
  `transaction_test.go:193`) call it when no transaction has locks, and so does
  the model.
* `HeapFile` ends a statement when `GetPage` fails, as `insertTuple` and
  `deleteTuple` do. `MaxPages` bounds the growth of a file.
* In `HeapFile` an inserted tuple is a value, inserted at most once.
* In `Query` the planner's output is a chain of operators over one table, a join
  of two, or the rows of `VALUES`. `Stack` is the order in which the planner puts
  them on top of each other, `HasOp` says which of them a statement needs; the
  child of an operator is the next one below it that the plan has. A star in the
  select list leaves out the projection, even beside aggregates
  (`SELECT *, COUNT(x)`); then the aggregator can be on top, and its error is
  `Iterator`'s answer to the shell. Fields are integers with fixed positions: the
  code looks a field up by name and table in the descriptor of the tuple it has
  (`findFieldInTd`), so self-joins and columns of the same name in both tables of
  a join are outside the model. Filters, select
  lists and value lists are expressions over fields, the aggregates take the
  second field. Integers, and the sums of aggregates, wrap around beyond `MaxInt`, as Go's do. A string is
  known by its length, all that the modelled functions see of it. A heap file is a sequence of tuples whose calls
  may fail (`MaxFaults`); `HeapFile` has the rest of it. `joinTuples` appends to
  the left tuple's slice as Go does, in place when the array has room.
* `sort.Sort` may put equal rows in any order. Keys of `DISTINCT` and `GROUP BY`
  are hashes in the code; collisions are ignored.
* `Catalog` saves in two steps, because `SaveToFile` empties the file when it
  opens it; a write may leave a part of the lines, the last one cut short.
* In `Names` a WHERE clause is a conjunction, as `parseWhere` takes it.
  `Planned` accepts at least the statements the code plans, so what is shown of
  planned statements holds of those.
* In `Session` the shell is one goroutine, so its statements do not interleave
  with each other, but those of forgotten transactions keep their locks and
  pages. A statement scans one table at most: a join, with its several scans, is
  in `Query`, and an INSERT gets its rows from VALUES. `IteratorFails` is the
  `continue` after an error of `plan.Iterator` (`main.go:274`), which skips the
  commit as an interrupt does; a SELECT may take it whenever its scan has ended,
  so it stands for what the first left tuple of a join has locked. The catalog is the set of its tables there and is saved in one step;
  `Catalog` has the rest. Transaction ids are numbers, given out in order by
  `NewTID`, and again from the first after a restart.
* `haunted`, `forgotten`, `dropped`, `unsaved`, `before` are history variables.
  They are set where a named exception of a property arises and guard nothing.

## 3. Runs

Passing:

* `locking` (3 transactions, 2 pages, 17,951 states): `LockTypeOK`,
  `LockCompatible`, `WaitEdgesSound` (the waits-for table is never out of date),
  `VictimIsDeadlocked` (whoever `GetPage` rolls back closes a cycle of
  transactions asleep behind each other's locks), `ImplementsLockTable`
  (refinement of `LockTable`) and `GetPageReturns` (liveness). Three
  transactions on two pages have upgrades, shared locks with several holders,
  and cycles of length two and three. No symmetry, because of the liveness.
* `search` (all waits-for tables of 4 transactions, 88,904 states):
  `SearchCorrect`, `DepthBounded`, `SearchTerminates`.
* `isolation` (2 transactions, 2 pages and a page number past the end, capacity
  1, 263,081 states): `TypeOK`, `PoolBounded`, `DirtyLeavesByRollback`, and
  `IsolatedUnlessDetached`, that is, no dirty or stale read, no lost update,
  nothing uncommitted on disk and everything committed on disk, as long as the
  pool has not let go of a page object that a writer has locked or a sleeping
  call has found. The condition is the weakest we found: it fails exactly in the
  situations of the two violation runs below. Pages are let go by eviction and
  by rollback; with capacity 1 every access to the other page evicts or fails.
* `heap` (2 transactions, a file growing from 1 to 3 pages of 2 slots, 3 tuples
  to insert, capacity 2, 206,114 states): `HeapExactUnlessDetached`: the file
  has exactly the committed tuples, each once; scans are exact; deletes hit what
  was read; and `PagesContiguous`. Three tuples let one transaction fill the
  page the other is about to use. That a page is compacted when it is read again
  hardly matters at these bounds as long as nothing is detached; that is covered
  by run `session`, whose pool of one page reads pages again all the time, and by
  the theorem.
* `query` (all plans over tables of up to three rows, and simpler plans with
  every unusual expression, at most one failing call, 581,230 states):
  `ResultExactUnlessAliased`: without failures, and without a sum that overflows
  (`SumsFit`), the rows delivered by a statement that ends without error are those of a declarative reading of the statement (`Source`,
  `Aggregated`, `Projected`), sorted, and under `LIMIT` the first ones.
  `RowsGenuineUnlessAliased`: with failures, which most operators take for the
  end of their input, they are still a part of it. `PanicsExplained`: panics are
  nil iterators and divisions by zero of empty inputs, or of failures taken for
  them, and expressions that have no value. `InsertsHaveValues`: a row with an
  empty field reaches the target file only from an ill-formed select list. `QueriesEnd` (liveness): every query ends, except a join with
  an empty right input. The tables have repeated keys, unequal rows that are
  equal after projection, negative values, and slices with no, one and three
  free cells; `MaxInt` is 7, so that sums and products of them wrap around.
  `MCPlan` keeps ill-formed expressions out of the plans with joins, aggregates
  and sorting, where they would do the same and multiply the states. `Aliased`
  is the situation of run `sort_aliased`.
* `catalog` (3 identifiers, of which two differ in case only, 2 column lists,
  2 catalog files, at most `MaxTables` = 2 tables, 135,130 states):
  `CatalogTypeOK`, `TablesAgree`, `FileGivesCatalog` (unless a save failed, and
  but for a crash while the file is being written), and three properties of
  every FROM clause and WHERE clause of a small set in every catalog that
  arises. `ColumnsResolved`, but for columns a subquery has too (`Shadowed`), of
  tables with an alias (`HiddenByAlias`), listed wrongly after a DROP
  (`Mislisted`), or there twice (`Twice`). `ConditionsApplied`, but for filters
  in ON, which `parseFrom` drops, and parts of an AND that are `Misread`: with a
  `Mislisted` column, or an inequality with a column hidden by an alias, which
  `parseWhere` takes for a join, and AND drops its error. `EntriesScannedOnce`,
  but for joins beyond those that connect the tables. An identifier can be both
  a table and a column, which is what `dropTable` confuses. `MaxListed` = 2 is
  enough for a name to become ambiguous. Statements have at most two
  conditions, at most one of them in ON; the proof has no such bound.
* `session` (2 transaction ids between restarts, one table of one page with two
  slots that may grow to two, 2 tuples to insert, capacity 1, `MaxRows` = 2 rows
  of one INSERT, `MaxAlarms` = 2, 372,924 states): `SessionTypeOK`,
  `LocksAccounted` (the shell loses a transaction in two ways only, both under
  autocommit: at an interrupt and at an error of `plan.Iterator`, for example of
  `SELECT *, COUNT(a.x) FROM a JOIN b ...` without a left row; these are
  `forgotten`), `SessionExactUnlessHaunted` (a dropped table can
  come back from the pool, or by the commit of a transaction that has written to
  it: `haunted`), `LoadKeepsLines`, `CommandEnds` (unless the command is `Stuck`
  behind locks of the session's own transactions, forgotten ones included; it is
  about commands of one scan, and says nothing of joins, which `QueriesEnd` is
  about, and of `INSERT ... SELECT`) and `InterruptHeeded`
  (liveness). Two transactions are a forgotten or open one and the next
  statement's; a restart makes room for more.

Violations, each a disagreement of the code with a comment or a document
(quoted in `findings`):

* `false_conflict`: a transaction waits for a lock on a page of another file.
* `abort_leak`: T2 sleeps for a page T1 has locked and changed; T1 aborts, the
  pool drops the page, T2 wakes up with the dropped object, and T2's commit
  writes T1's aborted change to disk.
* `evict_locked`: a page locked for writing is evicted before its writer has
  changed it; the change goes to an object the commit does not write.
* `lost_insert`: `insertTuple` appends a page, then asks for the page number it
  remembered, which is another transaction's full page, and returns success.
* `sort_aliased`: `INSERT ... SELECT *` of a join with a left table of five
  columns inserts the last match of a left row as often as the row has matches,
  because the results share one array; `ORDER BY` prints such rows.

Fairness. `LockFairness` assumes that a sleeping `GetPage` wakes and gets
`bp.mu` again and again (`WF` of `Wake`: the sleep is 10 to 20 ms and Go's mutex
is starvation-free), and that a transaction which gets control again and again
ends (`SF` of `End`: every statement of a client is finite, and it commits or
aborts after the last). The second is about clients, not the pool; without it
a transaction may keep its locks for ever. The number of transactions is
finite: against an endless supply of new readers a polling writer can starve.
`FairSearchSpec` only assumes that the search is executed, and `Spec` of `Query`
that the goroutine of the statement runs. `SessionSpec` assumes that the shell
goes on with a command it has (`WF` of `Work`); it assumes nothing about the
user, who need not give commands, end a transaction or interrupt.

Deadlock is checked in `catalog` and `session`: a shell can always be given a
command. It is off in the other runs, where every transaction, search and
statement may end, and then nothing happens any more.

## 4. Proofs

All of them hold for every value of the constants that the named assumptions
of the modules allow. These say what the constants stand for, and the runs
evaluate them: `Nil` and other marks are none of the values they are told apart
from; numbers are naturals, transaction ids of a session are 1, 2, ...; contents
of pages are sets of marks (`Isolation`) or slots (`HeapFile`), and writing and
rereading a page leaves the marks alone (`WritersAssumption`) or makes the slots
dense (`HeapContentAssumption`); a file starts without gaps and no tuple is in
two places (`FilesAssumption`, `PlacesAssumption`); a name is in lower case after
it has been lower-cased, and schemas and catalog files are made of identifiers
(`LowerAssumption`, `SchemasAssumption`, `FilesInitAssumption`); FROM clauses
and conditions are sequences with the fields the operators use
(`FromAssumption`, `StatementsAssumption`); tables are rows of integers, a left
one with at least two columns and a right one with at least one, and expressions
name fields that the planner has found (`QueryAssumption`).

* `BufferPoolProofs`, of the lock manager. `Typing`. `Compatibility`: `LockCompatible` is
  inductive, since a grant needs an empty set of conflicts and equal keys have
  equal page numbers. `EdgesSound`: `WaitEdgesSound` is inductive: edges
  are added with the lock that justifies them, a grant or release of u deletes
  the edges to u, and a lock that stays only gets stronger. `VictimsDeadlocked`:
  by `EdgesSound` every edge the search sees is a real obstacle, and reachability
  is monotone in the edges. `Refinement`: every step of the lock manager is a
  step of `LockTable` or changes no lock.
* `DeadLockSearchProofs`. `SearchIsCorrect`: the invariant `SearchInv` says
  that everything visited or pending is in every closed set that contains what
  root waits for, and that what a visited tid waits for is visited or pending.
  The first makes the answer "cycle" right, the second makes `visited` a closed
  set without root once nothing is pending. It needs no induction over paths.
  `SearchDepth` bounds the recursion. Together with `VictimsDeadlocked` this
  is deadlock detection without false positives, from the map iteration up.
* `BufferPoolProofs`, of the pool. `PoolLocks`: the pool's steps are lock manager steps or
  leave the locks alone, so all of the above holds for the pool
  (`PoolCompatibility`). `PoolTyping`: no pointer dangles. `NoSteal` and
  `Capacity` follow from one lemma, `PoolChanges`, which says that a step first
  evicts and loads and then at most throws out the pages of a rollback;
  `Capacity` needs the finiteness of the pool in its invariant.

* `IsolationProofs`. `TransactionsIsolated`. `IsolatedUnlessDetached` speaks of
  a page when `GetPage` returns it; what is inductive, as long as nothing is
  detached, is `Current`: the pool's object of a page has the committed writes
  and those of the transaction that has it locked for writing, every written
  page is dirty, so that commit finds it, the objects of readers, and the disk,
  have the committed writes. `WritesLocked` (who has written and is under way
  holds the write lock) and `LockCompatible` make the writer of a page unique.
* `HeapFileProofs`. `HeapTyping`, `FilesHaveNoGaps`: `HeapInv` says where each
  statement may be: its page is within its file, it sleeps for the page it has
  asked for, what it was given is that page (`CallOK`), dirty pages are pages of
  a file (`DirtyOnDisk`; a clean page may outlive a dropped one). Only an insert that has found all pages full
  appends one, at `NumPages`. The module also has the lemmas about slots: `Dense`
  keeps the tuples of a page.
* `HeapExactProofs`. `HeapFilesExact`: the invariant compares the tuples of a
  page in its file, `On(k)`, with those in the pool, `In(k)`. They differ only on
  dirty pages, by what the one transaction with the write lock has added and
  removed (`ChangesKnown`); what a transaction has added is in the pool, what it
  has removed is not (`ChangesMade`); no tuple is on two pages or in two slots;
  a tuple still to be inserted is nowhere. Each step leaves `In` and `On` alone,
  takes one to the other (rollback, commit), or adds or removes one tuple.
  `ScanOK` relates what a scan has seen to its cursor and to the pages it has
  locked, which nobody else can change. That an insert finds room is no part of
  it, for concurrent inserts do not (run `lost_insert`); of one session it is
  (`SessionExact`).
* `CatalogProofs`. `CatalogTyping`, `ListAndMapAgree`, `CatalogSurvives`: the
  invariant `CatalogInv` adds to the three that the file is empty between the
  two steps of a save (`Opened`). What a file is read as needs the n-th element
  of a set of numbers; that there is one is shown by well-foundedness of the
  naturals (`NthExists`), without an induction over operators. `NamesResolved`:
  `ColumnsListed` says that `columnMap` is what the tables make it, but for the
  names and columns of dropped tables; then the three searches of the planner
  agree with SQL's, case by case. `ConditionsKept`: a legal condition that is
  not misread is a join or a filter (`LegalParsed`), these are all passed on
  (`PickedSet`), and a condition that stands alone is passed on or refused. The
  attempt to prove an earlier form of `ConditionsApplied` failed at an
  inequality with a column hidden by an alias: the code loses it under AND,
  which no statement of the instance had shown. The instance now has it.
  `EntriesJoinedOnce`: a join takes away at most one operator, so n joins leave
  at least as many operators as there are entries, less n; if they leave just
  that many, none has joined an operator with itself (`JoinedOps`). It holds for
  any catalog, reachable or not. That the function of the operators after n
  joins (`OpsAfter`) exists, and what it has at n, is shown for the set of the n
  for which it is so (`Reached`), again by well-foundedness.
* `SessionProofs`. `SessionTyping`, `LocksOwned`: `LocksAccounted` is not
  inductive. When a command ends without ending its transaction, this must be
  the one of BEGIN (`StatementInTx`), or it is forgotten (`Interrupt`,
  `IteratorFails`); a new transaction has no locks because ids
  are given out in order and their holders have old ones (`TidsGivenOut`); a
  lock is only got by a running call, and that is the command's (`OneCall`);
  between two lines a load has no locks (`LoadUnlocked`).
  `SessionExact`: `HeapFile` needs `InPool`, that no page in use leaves the
  pool, which `Session` does not have: a forgotten transaction has pages that are
  evicted, and a dropped table leaves pages of no file. In its place are facts
  that one running command justifies (`ExactSession`): what is dirty is the
  pool's object (`DirtyInPool`), and the lock of its writer has that object
  (`WriterHas`), so commit and rollback meet the right page; the call of the
  command is at the pool's object of its page, an insert knows the number of
  pages of its file, and a page it has appended is empty (`CallInPool`); a scan
  has seen the tuples before its cursor (`ScanOf`); the pool has no page of a
  table that the table's file has not (`TablesOnDisk`); transactions to come
  have removed nothing (`FreshTids`), or a load would write pages with tuples
  missing. What `HeapExactProofs` shows of pages (`PagesOK`) is used as it is;
  `Drop`, `LoadFlushPage`, `Interrupt`, `IteratorFails` and `Restart` are the
  steps it has not.
  TLC had checked the whole invariant on two instances, that of run `session` and
  one with other bounds, before it was proved.
  `LoadsLoseNothing`: if a load is the only transaction, it has all the locks, so
  `GetPage` neither waits nor rolls back; until the line is on a page no page is
  dirty (`LoadGetsOn`), since a dirty page has a writer and writers have locks, so
  a pool of at least one page has one to evict. It assumes `numPages > 0`;
  `main.go` makes a pool of 10,000 pages.

* `QueryProofs`. `InsertedRowsAreWhole`. `InsertsHaveValues` is about the tuples
  at the top of the plan, so the invariant (`WellRun`) follows them from below.
  `QueryTypes` and `Captured`: all tuples that tables, closures and the target
  file have refer to an array of which their fields have values, and those a
  join, an aggregate or a filter works on have integers there. `Returned` says
  which of the two an operator returns. A join may write into the array of a
  tuple that others have; it writes integers, so these stay tuples (`Grows`,
  `TuplesKept`). That an answer is taken for what it is needs the control:
  whoever has called a method waits for the answer of that method
  (`CallsMatched`), the input of a join that runs is the one the join has called
  (`SidesMatched`), and a closure that does not look whether it is there is not
  called before it has been opened (`OpenedFirst`), even though most operators
  ignore what their child's `Iterator` returned. Two lemmas say what a call and
  an answer do to this (`CallStep`, `AnswerStep`), and one per action that it
  makes such a call or answer. `ExprTyped` is what makes rows whole: a
  well-formed expression over integers has a value or panics, it returns no
  error. The invariant is that of statements without ill-formed expressions in
  the select list; TLC had checked it on run `query` before it was proved. For
  the proof the chain of operators became a list and a set of places, instead
  of a `SelectSeq`, and the growth of a slice a function.

Only model-checked: liveness (`GetPageReturns`, `SearchTerminates`, `QueriesEnd`,
`CommandEnds`, `InterruptHeeded`), which is out of the prover's reach; and
`ResultExactUnlessAliased`, `RowsGenuineUnlessAliased` and `PanicsExplained`,
which compare a statement with a declarative reading that folds over the tables
(`SelectSeq`, `FlattenSeq`, `FoldLeft`): what these compute for every input takes
an induction over data.

## 5. Not modelled, and the plan

Not modelled, and why:

* `INSERT INTO t SELECT ... FROM t`, and the `Rid` of a tuple object that two
  pages share: `Query` has the operators without pages, `HeapFile` the pages
  with tuples as values; a model of both at once is beyond TLC with either's
  bounds.
* Fields looked up by name while a statement runs (`tuple.go:322`), with tables
  that have columns of the same name, or are joined with themselves. `Names` has
  the planner's side of it.
* Two shells at once, each with a `HeapFile` of its own from `GetTable`:
  `main.go` has one shell, and none of the repository's callers do it.
* `LIKE`, and the functions of dates, the clock and random numbers: string
  matching and formatting, no state.
* Byte layouts of tuples and pages, with strings that are too long for their
  field: that a page has room for its tuples is assumed.
* Names in select lists and ORDER BY, which are resolved as in WHERE; column
  types; the SQL parser, which is a library.
* Printing, alignment, EXPLAIN, line editing: I/O. `ImportCatalogFromCSVs`,
  whose call is commented out, and the Lab 1 query, an exercise nothing calls.
* A crash within a commit, against which the code has no defence and says so;
  disk errors other than a read past the end and failing saves of the catalog
  (commit panics on them).

What is left, in this order:

1. `RowsGenuineUnlessAliased`, on the invariant of `QueryProofs`: the rows
   delivered so far, with those still in the closures, are a part of the rows of
   the source before the cursors of the scans. `Source` and its parts would have
   to be functions of the number of rows, as `OpsAfter` of `Names` is of the
   number of joins, instead of `SelectSeq` and `FlattenSeq`.
2. `PanicsExplained`, which needs the first: a projection panics on a row that
   has to be one of the statement's own. The rest is that a join without an
   iterator has a left scan whose rows have all failed the filter, and that the
   value `Meaning` gives an expression is the one it evaluates to, which for
   division is the uniqueness of quotient and remainder.
