---------------------------- MODULE SessionProofs ----------------------------
(***************************************************************************)
(* The shell, for any number of transactions, tables, pages and tuples: no *)
(* lock outlives its transaction, except those of a transaction that an    *)
(* interrupt has made the shell forget; and, until pages of a dropped      *)
(* table come back, the files have exactly the tuples of committed         *)
(* statements, and a load loses none of its lines.                         *)
(***************************************************************************)
EXTENDS Session, HeapExactProofs, FiniteSetTheorems

-----------------------------------------------------------------------------
(* The inductive invariant                                                 *)

HasLocks(t) == \E k \in Keys : mapPageLocksByTid[t][k] # Nil

\* The ids the shell knows were given out before nextTid.  (A load has no
\* transaction between two lines, and its command an id not yet given out, or
\* the last line's.)
TidsGivenOut ==
    /\ tx # Nil => tx < nextTid
    /\ \A t \in forgotten : t < nextTid
    /\ (cmd # Nil /\ cmd.kind # "load") => cmd.tid < nextTid

\* A statement after BEGIN runs in the transaction of BEGIN.
StatementInTx == (cmd # Nil /\ cmd.kind \notin Loading /\ tx # Nil) => cmd.tid = tx

\* At most one call of a heap file is under way, that of the command.
OneCall ==
    /\ DOMAIN stmt = Tids
    /\ \A t \in Tids : stmt[t] # Nil => cmd # Nil /\ t = cmd.tid /\ cmd.kind # "load"

\* Between two lines a load has no locks.
LoadUnlocked == (cmd # Nil /\ cmd.kind = "load") => ~ HasLocks(cmd.tid)

SessionInv ==
    /\ SessionTypeOK
    /\ LocksAccounted
    /\ DOMAIN mapPageLocksByTid = Tids
    /\ TidsGivenOut
    /\ StatementInTx
    /\ OneCall
    /\ LoadUnlocked

-----------------------------------------------------------------------------
(* What the steps of the heap files and of the pool do to the locks        *)

\* Nobody but t gets or loses a lock.
OnlyLocksOf(t) ==
    /\ DOMAIN mapPageLocksByTid' = Tids
    /\ \A u \in Tids \ {t} : mapPageLocksByTid'[u] = mapPageLocksByTid[u]

\* No call but that of t begins, goes on or ends.
OnlyCallOf(t) ==
    /\ DOMAIN stmt' = Tids
    /\ \A u \in Tids \ {t} : stmt'[u] = stmt[u]

LEMMA CallLocks ==
    ASSUME NEW t \in Tids, DOMAIN mapPageLocksByTid = Tids, CallGetPage(t) \/ Awake(t)
    PROVE  OnlyLocksOf(t)
<1>1. ASSUME NEW k, NEW perm, Grant(t, k, perm) PROVE OnlyLocksOf(t)
  BY <1>1 DEF Grant, SaveMapAndUpgradeLock, OnlyLocksOf
<1>2. ASSUME NEW k, NEW perm, Victim(t, k, perm) PROVE OnlyLocksOf(t)
  BY <1>2 DEF Victim, ReleaseLocks, OnlyLocksOf
<1>3. ASSUME NEW k, NEW perm, Sleep(t, k, perm) PROVE OnlyLocksOf(t)
  BY <1>3 DEF Sleep, OnlyLocksOf
<1>4. ASSUME NEW k, NEW perm, NEW o, NEW pgs, NEW h, HandleTransaction(t, k, perm, o, pgs, h)
      PROVE  OnlyLocksOf(t)
  BY <1>1, <1>2, <1>3, <1>4 DEF HandleTransaction
<1>5. ASSUME NEW pgs, Fails(t, pgs) PROVE OnlyLocksOf(t)
  BY <1>5 DEF Fails, lockVars, OnlyLocksOf
<1>6. ASSUME NEW k, NEW perm, GetPage(t, k, perm) PROVE OnlyLocksOf(t)
  BY <1>4, <1>5, <1>6 DEF GetPage, GetCachedPage, ReadAndGetPage, PoolFull, ReadPageFails
<1>7. CASE CallGetPage(t)
  BY <1>6, <1>7 DEF CallGetPage
<1>8. CASE Awake(t)
  BY <1>4, <1>8 DEF Awake, WakeGetPage
<1> QED
  BY <1>7, <1>8

LEMMA CallStatement ==
    ASSUME NEW t \in Tids, DOMAIN stmt = Tids, CallGetPage(t) \/ Awake(t)
    PROVE  OnlyCallOf(t) /\ stmt[t] # Nil
  BY DEF CallGetPage, Awake, Answered, OnlyCallOf, InPhase

\* t has no lock after the step.
Unlocked(t) == \A k \in Keys : mapPageLocksByTid'[t][k] = Nil

LEMMA EndLocks ==
    ASSUME NEW t \in Tids, DOMAIN mapPageLocksByTid = Tids, End(t)
    PROVE  OnlyLocksOf(t) /\ Unlocked(t)
  BY DEF End, ReleaseLocks, OnlyLocksOf, Unlocked

LEMMA CommitLocks ==
    ASSUME NEW t \in Tids, DOMAIN mapPageLocksByTid = Tids, Commit(t) \/ Abort(t)
    PROVE  OnlyLocksOf(t) /\ Unlocked(t) /\ UNCHANGED stmt /\ stmt[t] = Nil
  BY EndLocks DEF Commit, Abort, CommitTransaction, AbortTransaction

LEMMA StartLocks ==
    ASSUME NEW t, NEW f, NEW x, StartInsert(t, f, x) \/ StartScan(t, f), DOMAIN stmt = Tids
    PROVE  UNCHANGED mapPageLocksByTid /\ OnlyCallOf(t)
  BY DEF StartInsert, StartScan, vars, lockVars, OnlyCallOf

LEMMA HeapStepLocks ==
    ASSUME HeapStep, DOMAIN stmt = Tids
    PROVE  /\ cmd # Nil
           /\ UNCHANGED <<mapPageLocksByTid, cmd, tabs, nextTid, tx, alarm, forgotten>>
           /\ OnlyCallOf(cur)
<1>1. cmd # Nil /\ UNCHANGED <<cmd, tabs, nextTid, tx, alarm, forgotten>>
  BY DEF HeapStep, shell
<1>2. ASSUME NEW t, NEW c, Modify(t, c) PROVE UNCHANGED mapPageLocksByTid
  BY <1>2 DEF Modify, lockVars
<1>3. InsertTuple(cur) \/ DeleteTuple(cur) => UNCHANGED mapPageLocksByTid /\ OnlyCallOf(cur)
  BY <1>2 DEF InsertTuple, DeleteTuple, vars, lockVars, OnlyCallOf
<1>4. InsertGoesOn(cur) \/ InsertDropped(cur) => UNCHANGED mapPageLocksByTid /\ OnlyCallOf(cur)
  BY DEF InsertGoesOn, InsertDropped, vars, lockVars, OnlyCallOf
<1>5. ScanRow(cur) \/ ScanPageDone(cur) \/ ScanNext(cur) \/ ScanStops(cur) \/ DeleteRow(cur) =>
          UNCHANGED mapPageLocksByTid /\ OnlyCallOf(cur)
  BY DEF ScanRow, ScanPageDone, ScanNext, ScanStops, DeleteRow, vars, lockVars, OnlyCallOf
<1> QED
  BY <1>1, <1>3, <1>4, <1>5 DEF HeapStep

-----------------------------------------------------------------------------
(* Commands                                                                *)

LEMMA NewTid ==
    ASSUME SessionInv, HaveTid
    PROVE  /\ nextTid \in Nat /\ nextTid # Nil /\ nextTid + 1 \in Tids \cup {Cardinality(Tids) + 1}
           /\ ~ HasLocks(nextTid) \/ (cmd # Nil /\ cmd.tid = nextTid)
<1>1. Cardinality(Tids) \in Nat
  BY TidsAssumption, FS_CardinalityType
<1>2. nextTid \in 1 .. Cardinality(Tids)
  BY TidsAssumption DEF HaveTid
<1>3. nextTid + 1 \in 1 .. Cardinality(Tids) \/ nextTid + 1 = Cardinality(Tids) + 1
  BY <1>1, <1>2
<1>4. nextTid # Nil
  BY CmdNilAssumption DEF HaveTid
<1>5. nextTid # tx /\ nextTid \notin forgotten
  BY <1>2, <1>4 DEF SessionInv, TidsGivenOut
<1>6. nextTid \in Nat /\ nextTid + 1 \in Tids \cup {Cardinality(Tids) + 1}
  <2>1. nextTid \in Nat
    BY <1>1, <1>2
  <2>2. nextTid + 1 \in Tids \/ nextTid + 1 = Cardinality(Tids) + 1
    BY <1>3, TidsAssumption, Zenon
  <2> QED
    BY <2>1, <2>2
<1> QED
  BY <1>4, <1>5, <1>6 DEF SessionInv, LocksAccounted, HasLocks, HaveTid, cur

LEMMA TidNumbers ==
    ASSUME SessionTypeOK
    PROVE  nextTid \in Nat /\ Tids \subseteq Nat /\ Cardinality(Tids) \in Nat
<1>1. Cardinality(Tids) \in Nat
  BY TidsAssumption, FS_CardinalityType
<1>2. Tids \subseteq Nat
  <2>1. \A t \in 1 .. Cardinality(Tids) : t \in Nat
    BY <1>1
  <2>2. \A t \in Tids : t \in Nat
    BY <2>1, TidsAssumption, Zenon
  <2> QED
    BY <2>2
<1> QED
  BY <1>1, <1>2 DEF SessionTypeOK

\* The parts of the invariant follow for a step that changes no locks, gives
\* out no id and changes only parts of the command that they do not read.
LEMMA SameLocks ==
    ASSUME SessionInv, UNCHANGED <<mapPageLocksByTid, nextTid, tx, forgotten>>, SessionTypeOK',
           OnlyCallOf(cmd.tid), cmd.kind = "load" => UNCHANGED stmt,
           cmd # Nil, cmd' # Nil, cmd'.tid = cmd.tid,
           cmd'.kind = cmd.kind \/ (cmd.kind \notin Loading /\ cmd'.kind \notin Loading)
                                \/ (cmd.kind = "loadInsert" /\ cmd'.kind = "loadFlush")
    PROVE  SessionInv'
<1>1. LocksAccounted'
  BY DEF SessionInv, LocksAccounted, cur
<1>2. TidsGivenOut'
  BY DEF SessionInv, TidsGivenOut, Loading
<1>3. StatementInTx'
  BY DEF SessionInv, StatementInTx, Loading
<1>4. LoadUnlocked'
  BY DEF SessionInv, LoadUnlocked, Loading, HasLocks
<1>5. OneCall'
  <2>1. \A t \in Tids : stmt'[t] # Nil => t = cmd.tid
    BY DEF SessionInv, OneCall, OnlyCallOf
  <2>2. cmd'.kind = "load" => cmd.kind = "load" /\ UNCHANGED stmt
    BY DEF Loading
  <2> QED
    BY <2>1, <2>2 DEF SessionInv, OneCall, OnlyCallOf
<1> QED
  BY <1>1, <1>2, <1>3, <1>4, <1>5 DEF SessionInv

LEMMA BeginKeeps ==
    ASSUME SessionInv, Begin
    PROVE  SessionInv'
<1>1. /\ cmd = Nil /\ tx = Nil /\ HaveTid /\ tx' = nextTid /\ nextTid' = nextTid + 1
      /\ UNCHANGED <<mapPageLocksByTid, stmt, tabs, cmd, alarm, forgotten>>
  BY DEF Begin, below, vars, lockVars
<1>2. nextTid \in Nat /\ nextTid # Nil /\ nextTid' \in Tids \cup {Cardinality(Tids) + 1}
  BY <1>1, NewTid
<1>3. SessionTypeOK'
  BY <1>1, <1>2 DEF SessionInv, SessionTypeOK, HaveTid
<1>4. LocksAccounted'
  <2>1. ASSUME NEW t \in Tids, t = tx, HasLocks(t) PROVE FALSE
    BY <1>1, <2>1, CmdNilAssumption
  <2> QED
    BY <1>1, <2>1 DEF SessionInv, LocksAccounted, HasLocks
<1>5. TidsGivenOut'
  <2>1. \A t \in forgotten : t \in Nat
    BY TidNumbers DEF SessionInv, SessionTypeOK
  <2> QED
    BY <1>1, <1>2, <2>1 DEF SessionInv, TidsGivenOut
<1>6. StatementInTx' /\ LoadUnlocked' /\ OneCall'
  BY <1>1 DEF SessionInv, StatementInTx, LoadUnlocked, OneCall
<1> QED
  BY <1>1, <1>3, <1>4, <1>5, <1>6 DEF SessionInv

LEMMA EndTxKeeps ==
    ASSUME SessionInv, CommitCmd \/ AbortCmd
    PROVE  SessionInv'
<1>1. /\ cmd = Nil /\ tx # Nil /\ tx' = Nil /\ (Commit(tx) \/ Abort(tx))
      /\ UNCHANGED <<tabs, nextTid, cmd, alarm, forgotten>>
  BY DEF CommitCmd, AbortCmd
<1>2. tx \in Tids
  BY <1>1 DEF SessionInv, SessionTypeOK
<1>3. OnlyLocksOf(tx) /\ Unlocked(tx) /\ UNCHANGED stmt
  BY <1>1, <1>2, CommitLocks DEF SessionInv
<1>4. SessionTypeOK'
  BY <1>1 DEF SessionInv, SessionTypeOK
<1>5. LocksAccounted'
  BY <1>1, <1>3 DEF SessionInv, LocksAccounted, OnlyLocksOf, Unlocked
<1>6. TidsGivenOut' /\ StatementInTx' /\ LoadUnlocked' /\ OneCall'
  BY <1>1, <1>3 DEF SessionInv, TidsGivenOut, StatementInTx, LoadUnlocked, OneCall
<1> QED
  BY <1>3, <1>4, <1>5, <1>6 DEF SessionInv, OnlyLocksOf

-----------------------------------------------------------------------------
(* Statements                                                              *)

LEMMA StatementKeeps ==
    ASSUME SessionInv, NEW f \in Files,
           NEW kind \in {"select", "insert", "delete"}, NEW rows \in 0 .. MaxRows,
           Statement(kind, f, rows)
    PROVE  SessionInv'
<1> DEFINE t == IF tx = Nil THEN nextTid ELSE tx
           c == [kind |-> kind, file |-> f, tid |-> t, rows |-> rows, failed |-> FALSE]
<1>1. /\ cmd = Nil /\ f \in tabs /\ (tx = Nil => HaveTid) /\ cmd' = c
      /\ nextTid' = (IF tx = Nil THEN nextTid + 1 ELSE nextTid)
      /\ UNCHANGED <<tabs, tx, alarm, forgotten>>
  BY DEF Statement
<1>2. UNCHANGED mapPageLocksByTid /\ OnlyCallOf(t)
  BY StartLocks DEF SessionInv, OneCall, OnlyCallOf, Statement, below, vars, lockVars
<1>3. t \in Tids
  BY <1>1 DEF SessionInv, SessionTypeOK, HaveTid
<1>4. c \in Cmd /\ c.kind = kind /\ c.tid = t /\ c.file = f
  BY <1>3 DEF Cmd
<1>5. nextTid' \in Tids \cup {Cardinality(Tids) + 1} /\ nextTid \in Nat /\ nextTid' \in Nat /\ nextTid <= nextTid'
  BY <1>1, NewTid, TidNumbers DEF SessionInv, SessionTypeOK
<1>6. t < nextTid'
  <2>1. CASE tx = Nil
    BY <1>1, <1>5, <2>1
  <2>2. CASE tx # Nil
    BY <1>1, <2>2 DEF SessionInv, TidsGivenOut
  <2> QED
    BY <2>1, <2>2
<1> HIDE DEF c
<1>7. SessionTypeOK'
  BY <1>1, <1>4, <1>5 DEF SessionInv, SessionTypeOK
<1>8. LocksAccounted'
  BY <1>1, <1>2 DEF SessionInv, LocksAccounted
<1>9. TidsGivenOut'
  <2>1. \A u \in forgotten : u \in Nat /\ u < nextTid
    BY TidNumbers DEF SessionInv, SessionTypeOK, TidsGivenOut
  <2>2. tx # Nil => tx < nextTid'
    BY <1>6
  <2> QED
    BY <1>1, <1>4, <1>5, <1>6, <2>1, <2>2 DEF TidsGivenOut
<1>10. StatementInTx' /\ LoadUnlocked'
  BY <1>1, <1>4 DEF StatementInTx, LoadUnlocked
<1>11. OneCall'
  <2>1. cmd' # Nil /\ cmd'.kind # "load" /\ cmd'.tid = t
    BY <1>1, <1>4, CmdNilAssumption
  <2> HIDE DEF t
  <2> QED
    BY <1>1, <1>2, <2>1 DEF SessionInv, OneCall, OnlyCallOf
<1> QED
  BY <1>2, <1>7, <1>8, <1>9, <1>10, <1>11 DEF SessionInv

LEMMA InsertRowKeeps ==
    ASSUME SessionInv, InsertRow
    PROVE  SessionInv'
<1>1. /\ cmd # Nil /\ cmd.kind = "insert" /\ cmd.rows > 0 /\ cmd' = [cmd EXCEPT !.rows = @ - 1]
      /\ UNCHANGED <<mapPageLocksByTid, tabs, nextTid, tx, alarm, forgotten>>
      /\ OnlyCallOf(cmd.tid)
  BY StartLocks DEF SessionInv, OneCall, InsertRow, Doing, shell, cur
<1>2. cmd \in Cmd /\ cmd.file \in tabs
  BY <1>1 DEF SessionInv, SessionTypeOK
<1>3. cmd.rows \in 0 .. MaxRows /\ cmd.rows - 1 \in 0 .. MaxRows
  BY <1>1, <1>2, BoundsAssumption DEF Cmd
<1>4. cmd' \in Cmd /\ cmd'.kind = cmd.kind /\ cmd'.tid = cmd.tid /\ cmd'.file = cmd.file
  BY <1>1, <1>2, <1>3 DEF Cmd
<1>5. cmd' # Nil
  BY <1>4, CmdNilAssumption
<1>6. SessionTypeOK'
  BY <1>1, <1>2, <1>4 DEF SessionInv, SessionTypeOK
<1> QED
  BY <1>1, <1>4, <1>5, <1>6, SameLocks

LEMMA GetStepKeeps ==
    ASSUME SessionInv, GetStep
    PROVE  SessionInv'
<1> DEFINE failed == stmt'[cur] = Nil /\ stmt[cur].kind # "scan"
<1>1. /\ cmd # Nil /\ (CallGetPage(cur) \/ Awake(cur)) /\ cmd' = [cmd EXCEPT !.failed = failed]
      /\ UNCHANGED <<tabs, nextTid, tx, alarm, forgotten>>
  BY DEF GetStep, shell
<1>2. cmd \in Cmd /\ cmd.file \in tabs /\ cmd.tid \in Tids
  BY <1>1 DEF SessionInv, SessionTypeOK, Cmd
<1>3. failed \in BOOLEAN
  OBVIOUS
<1>4. OnlyLocksOf(cmd.tid) /\ OnlyCallOf(cmd.tid) /\ stmt[cmd.tid] # Nil
  BY <1>1, <1>2, CallLocks, CallStatement DEF SessionInv, OneCall, cur
<1>5. cmd.kind # "load"
  BY <1>2, <1>4 DEF SessionInv, OneCall
<1> HIDE DEF failed
<1>6. cmd' \in Cmd /\ cmd'.kind = cmd.kind /\ cmd'.tid = cmd.tid /\ cmd'.file = cmd.file
  BY <1>1, <1>2, <1>3 DEF Cmd
<1>7. cmd' # Nil
  BY <1>6, CmdNilAssumption
<1>8. SessionTypeOK'
  BY <1>1, <1>2, <1>6 DEF SessionInv, SessionTypeOK
<1>9. LocksAccounted'
  BY <1>1, <1>4, <1>6, <1>7 DEF SessionInv, LocksAccounted, OnlyLocksOf, cur
<1>10. TidsGivenOut' /\ StatementInTx' /\ LoadUnlocked'
  BY <1>1, <1>5, <1>6, <1>7 DEF SessionInv, TidsGivenOut, StatementInTx, LoadUnlocked
<1>11. OneCall'
  BY <1>1, <1>4, <1>5, <1>6, <1>7 DEF SessionInv, OneCall, OnlyCallOf
<1> QED
  BY <1>4, <1>8, <1>9, <1>10, <1>11 DEF SessionInv, OnlyLocksOf

LEMMA HeapStepKeeps ==
    ASSUME SessionInv, HeapStep
    PROVE  SessionInv'
<1>1. /\ cmd # Nil /\ OnlyCallOf(cmd.tid)
      /\ UNCHANGED <<mapPageLocksByTid, cmd, tabs, nextTid, tx, alarm, forgotten>>
  BY HeapStepLocks DEF SessionInv, OneCall, cur
<1>2. SessionTypeOK'
  BY <1>1 DEF SessionInv, SessionTypeOK
<1>3. cmd.tid \in Tids
  BY <1>1 DEF SessionInv, SessionTypeOK, Cmd
<1>4. stmt[cmd.tid] # Nil
  BY DEF HeapStep, InsertTuple, InsertGoesOn, InsertDropped, ScanRow, ScanPageDone, ScanNext, ScanStops,
         DeleteRow, DeleteTuple, InPhase, cur
<1>5. cmd.kind # "load"
  BY <1>3, <1>4 DEF SessionInv, OneCall
<1> QED
  BY <1>1, <1>2, <1>5, SameLocks

LEMMA CountsKeeps ==
    ASSUME SessionInv, Counts
    PROVE  SessionInv'
<1>1. /\ cmd # Nil /\ cmd.kind \in {"insert", "delete"} /\ cmd' = [cmd EXCEPT !.kind = "counted"]
      /\ UNCHANGED <<mapPageLocksByTid, stmt, tabs, nextTid, tx, alarm, forgotten>>
  BY DEF Counts, Doing, below, shell, vars, lockVars
<1>2. cmd \in Cmd /\ cmd.file \in tabs
  BY <1>1 DEF SessionInv, SessionTypeOK
<1>3. cmd' \in Cmd /\ cmd'.kind = "counted" /\ cmd'.tid = cmd.tid /\ cmd'.file = cmd.file
  BY <1>1, <1>2 DEF Cmd
<1>4. cmd' # Nil
  BY <1>3, CmdNilAssumption
<1>5. SessionTypeOK'
  BY <1>1, <1>2, <1>3 DEF SessionInv, SessionTypeOK
<1>6. OnlyCallOf(cmd.tid)
  BY <1>1 DEF SessionInv, OneCall, OnlyCallOf
<1>7. cmd.kind \notin Loading /\ cmd'.kind \notin Loading /\ cmd.kind # "load"
  BY <1>1, <1>3 DEF Loading
<1> QED
  BY <1>1, <1>3, <1>4, <1>5, <1>6, <1>7, SameLocks

\* The end of a command that leaves no call and no lock unaccounted for.
LEMMA CommandOver ==
    ASSUME SessionInv, cmd # Nil, cmd' = Nil, UNCHANGED <<tabs, nextTid, tx>>,
           OnlyLocksOf(cmd.tid), OnlyCallOf(cmd.tid), stmt'[cmd.tid] = Nil,
           alarm' \in 0 .. MaxAlarms,
           forgotten' = forgotten \/ (forgotten' = forgotten \cup {cmd.tid} /\ cmd.kind # "load"),
           Unlocked(cmd.tid) \/ cmd.tid = tx \/ cmd.tid \in forgotten'
    PROVE  SessionInv'
<1>1. cmd.tid \in Tids
  BY DEF SessionInv, SessionTypeOK, Cmd
<1>2. SessionTypeOK'
  BY <1>1 DEF SessionInv, SessionTypeOK
<1>3. LocksAccounted'
  <2>1. SUFFICES ASSUME NEW t \in Tids, NEW k \in Keys, mapPageLocksByTid'[t][k] # Nil
                 PROVE  t \in forgotten' \/ t = tx'
    BY DEF LocksAccounted, cur
  <2>2. CASE t = cmd.tid
    BY <2>1, <2>2 DEF Unlocked
  <2>3. CASE t # cmd.tid
    <3>1. mapPageLocksByTid[t][k] # Nil
      BY <2>1, <2>3 DEF OnlyLocksOf
    <3> QED
      BY <2>3, <3>1 DEF SessionInv, LocksAccounted, cur
  <2> QED
    BY <2>2, <2>3
<1>4. TidsGivenOut'
  BY DEF SessionInv, TidsGivenOut
<1>5. StatementInTx' /\ LoadUnlocked'
  BY DEF StatementInTx, LoadUnlocked
<1>6. OneCall'
  BY DEF SessionInv, OneCall, OnlyCallOf
<1> QED
  BY <1>2, <1>3, <1>4, <1>5, <1>6 DEF SessionInv, OnlyLocksOf

LEMMA FinishKeeps ==
    ASSUME SessionInv, Finish
    PROVE  SessionInv'
<1>1. /\ cmd # Nil /\ cmd.kind \in {"select", "insert", "delete"} /\ stmt[cmd.tid] = Nil /\ cmd' = Nil
      /\ UNCHANGED <<tabs, nextTid, tx, alarm, forgotten>>
      /\ IF tx = Nil THEN Commit(cmd.tid) ELSE UNCHANGED below
  BY DEF Finish, Doing, Idle, shell, cur
<1>2. cmd.tid \in Tids /\ alarm' \in 0 .. MaxAlarms
  BY <1>1 DEF SessionInv, SessionTypeOK, Cmd
<1>3. CASE tx = Nil
  <2>1. OnlyLocksOf(cmd.tid) /\ Unlocked(cmd.tid) /\ UNCHANGED stmt
    <3>1. Commit(cmd.tid) /\ DOMAIN mapPageLocksByTid = Tids
      BY <1>1, <1>3 DEF SessionInv
    <3> QED
      BY <1>2, <3>1, CommitLocks, Zenon
  <2>2. OnlyCallOf(cmd.tid) /\ stmt'[cmd.tid] = Nil
    BY <1>1, <2>1 DEF SessionInv, OneCall, OnlyCallOf
  <2> QED
    BY <1>1, <1>2, <2>1, <2>2, CommandOver
<1>4. CASE tx # Nil
  <2>1. UNCHANGED <<mapPageLocksByTid, stmt>>
    BY <1>1, <1>4 DEF below, vars, lockVars
  <2>2. OnlyLocksOf(cmd.tid) /\ OnlyCallOf(cmd.tid) /\ stmt'[cmd.tid] = Nil
    BY <1>1, <2>1 DEF SessionInv, OneCall, OnlyCallOf, OnlyLocksOf
  <2>3. cmd.tid = tx
    BY <1>1, <1>4 DEF SessionInv, StatementInTx, Loading
  <2> QED
    BY <1>1, <1>2, <2>2, <2>3, CommandOver
<1> QED
  BY <1>3, <1>4

LEMMA InterruptKeeps ==
    ASSUME SessionInv, Interrupt
    PROVE  SessionInv'
<1>1. /\ cmd # Nil /\ cmd.kind \in {"select", "counted"} /\ cmd' = Nil
      /\ alarm > 0 /\ alarm' = alarm - 1 /\ stmt' = [stmt EXCEPT ![cmd.tid] = Nil]
      /\ forgotten' = (IF tx = Nil THEN forgotten \cup {cmd.tid} ELSE forgotten)
      /\ UNCHANGED <<mapPageLocksByTid, tabs, nextTid, tx>>
  BY DEF Interrupt, RowPrinted, Doing, vars, lockVars, cur
<1>2. cmd.tid \in Tids
  BY <1>1 DEF SessionInv, SessionTypeOK, Cmd
<1>3. alarm' \in 0 .. MaxAlarms
  BY <1>1, BoundsAssumption DEF SessionInv, SessionTypeOK
<1>4. OnlyLocksOf(cmd.tid) /\ OnlyCallOf(cmd.tid) /\ stmt'[cmd.tid] = Nil
  BY <1>1, <1>2 DEF SessionInv, OneCall, OnlyCallOf, OnlyLocksOf
<1>5. cmd.tid = tx \/ cmd.tid \in forgotten'
  BY <1>1 DEF SessionInv, StatementInTx, Loading
<1>6. forgotten' = forgotten \/ (forgotten' = forgotten \cup {cmd.tid} /\ cmd.kind # "load")
  BY <1>1
<1> QED
  BY <1>1, <1>3, <1>4, <1>5, <1>6, CommandOver

LEMMA IteratorFailsKeeps ==
    ASSUME SessionInv, IteratorFails
    PROVE  SessionInv'
<1>1. /\ cmd # Nil /\ cmd.kind = "select" /\ cmd' = Nil /\ stmt[cmd.tid] = Nil
      /\ forgotten' = (IF tx = Nil THEN forgotten \cup {cmd.tid} ELSE forgotten)
      /\ UNCHANGED <<mapPageLocksByTid, stmt, tabs, nextTid, tx, alarm>>
  BY DEF IteratorFails, Doing, Idle, below, vars, lockVars, cur
<1>2. cmd.tid \in Tids /\ alarm' \in 0 .. MaxAlarms
  BY <1>1 DEF SessionInv, SessionTypeOK, Cmd
<1>3. OnlyLocksOf(cmd.tid) /\ OnlyCallOf(cmd.tid) /\ stmt'[cmd.tid] = Nil
  BY <1>1, <1>2 DEF SessionInv, OneCall, OnlyCallOf, OnlyLocksOf
<1>4. cmd.tid = tx \/ cmd.tid \in forgotten'
  BY <1>1 DEF SessionInv, StatementInTx, Loading
<1>5. forgotten' = forgotten \/ (forgotten' = forgotten \cup {cmd.tid} /\ cmd.kind # "load")
  BY <1>1
<1> QED
  BY <1>1, <1>2, <1>3, <1>4, <1>5, CommandOver

-----------------------------------------------------------------------------
(* Signals, CREATE and DROP                                                *)

\* A step that the command and its transactions do not notice.
LEMMA Unnoticed ==
    ASSUME SessionInv, SessionTypeOK', UNCHANGED <<mapPageLocksByTid, stmt, nextTid, tx, cmd, forgotten>>
    PROVE  SessionInv'
  BY DEF SessionInv, LocksAccounted, TidsGivenOut, StatementInTx, OneCall, LoadUnlocked, HasLocks, cur

LEMMA SignalKeeps ==
    ASSUME SessionInv, Signal
    PROVE  SessionInv'
<1>1. /\ alarm < MaxAlarms /\ alarm' = alarm + 1
      /\ UNCHANGED <<mapPageLocksByTid, stmt, tabs, nextTid, tx, cmd, forgotten>>
  BY DEF Signal, below, vars, lockVars
<1>2. alarm' \in 0 .. MaxAlarms
  BY <1>1, BoundsAssumption DEF SessionInv, SessionTypeOK
<1>3. SessionTypeOK'
  BY <1>1, <1>2 DEF SessionInv, SessionTypeOK
<1> QED
  BY <1>1, <1>3, Unnoticed

LEMMA DefinitionKeeps ==
    ASSUME SessionInv, NEW f \in Files, Create(f) \/ Drop(f)
    PROVE  SessionInv'
<1>1. /\ cmd = Nil /\ (tabs' = tabs \cup {f} \/ tabs' = tabs \ {f})
      /\ UNCHANGED <<mapPageLocksByTid, stmt, nextTid, tx, cmd, alarm, forgotten>>
  BY DEF Create, Drop, below, vars, lockVars
<1>2. SessionTypeOK'
  BY <1>1 DEF SessionInv, SessionTypeOK
<1> QED
  BY <1>1, <1>2, Unnoticed

-----------------------------------------------------------------------------
(* LoadFromCSV                                                             *)

LEMMA LoadKeeps ==
    ASSUME SessionInv, NEW f \in Files, Load(f)
    PROVE  SessionInv'
<1> DEFINE c == [kind |-> "load", file |-> f, tid |-> nextTid, rows |-> 0, failed |-> FALSE]
<1>1. /\ cmd = Nil /\ f \in tabs /\ HaveTid /\ cmd' = c
      /\ UNCHANGED <<mapPageLocksByTid, stmt, tabs, nextTid, tx, alarm, forgotten>>
  BY DEF Load, below, shell, vars, lockVars
<1>2. c \in Cmd /\ c.kind = "load" /\ c.tid = nextTid /\ c.file = f
  BY <1>1, BoundsAssumption DEF Cmd, Loading, HaveTid
<1> HIDE DEF c
<1>3. ~ HasLocks(nextTid)
  BY <1>1, NewTid
<1>4. SessionTypeOK'
  BY <1>1, <1>2 DEF SessionInv, SessionTypeOK
<1>5. LocksAccounted'
  BY <1>1 DEF SessionInv, LocksAccounted
<1>6. TidsGivenOut' /\ StatementInTx'
  BY <1>1, <1>2 DEF SessionInv, TidsGivenOut, StatementInTx, Loading
<1>7. OneCall' /\ LoadUnlocked'
  BY <1>1, <1>2, <1>3 DEF SessionInv, OneCall, LoadUnlocked, HasLocks
<1> QED
  BY <1>1, <1>4, <1>5, <1>6, <1>7 DEF SessionInv

LEMMA LoadLineKeeps ==
    ASSUME SessionInv, LoadLine
    PROVE  SessionInv'
<1>1. /\ cmd # Nil /\ cmd.kind = "load" /\ HaveTid /\ nextTid' = nextTid + 1
      /\ cmd' = [cmd EXCEPT !.kind = "loadInsert", !.tid = nextTid, !.failed = FALSE]
      /\ UNCHANGED <<mapPageLocksByTid, tabs, tx, alarm, forgotten>>
      /\ OnlyCallOf(nextTid)
  BY StartLocks DEF SessionInv, OneCall, LoadLine, Doing
<1>2. cmd \in Cmd /\ cmd.file \in tabs
  BY <1>1 DEF SessionInv, SessionTypeOK
<1>3. cmd' \in Cmd /\ cmd'.kind = "loadInsert" /\ cmd'.tid = nextTid /\ cmd'.file = cmd.file
  BY <1>1, <1>2 DEF Cmd, HaveTid, Loading
<1>4. cmd' # Nil
  BY <1>3, CmdNilAssumption
<1>5. nextTid \in Nat /\ nextTid' \in Tids \cup {Cardinality(Tids) + 1}
  BY <1>1, NewTid
<1>6. SessionTypeOK'
  BY <1>1, <1>2, <1>3, <1>5 DEF SessionInv, SessionTypeOK
<1>7. LocksAccounted'
  BY <1>1 DEF SessionInv, LocksAccounted, LoadUnlocked, HasLocks, cur
<1>8. TidsGivenOut'
  <2>1. (tx # Nil => tx \in Nat /\ tx < nextTid) /\ \A t \in forgotten : t \in Nat /\ t < nextTid
    BY TidNumbers DEF SessionInv, SessionTypeOK, TidsGivenOut
  <2> QED
    BY <1>1, <1>3, <1>5, <2>1 DEF TidsGivenOut
<1>9. StatementInTx' /\ LoadUnlocked'
  BY <1>3 DEF StatementInTx, LoadUnlocked, Loading
<1>10. OneCall'
  BY <1>1, <1>3, <1>4 DEF SessionInv, OneCall, OnlyCallOf
<1> QED
  BY <1>1, <1>6, <1>7, <1>8, <1>9, <1>10 DEF SessionInv

LEMMA LoadEndsKeeps ==
    ASSUME SessionInv, LoadEnds
    PROVE  SessionInv'
<1>1. /\ cmd # Nil /\ cmd.kind = "load" /\ cmd' = Nil
      /\ UNCHANGED <<mapPageLocksByTid, stmt, tabs, nextTid, tx, alarm, forgotten>>
  BY DEF LoadEnds, Doing, below, shell, vars, lockVars
<1>2. cmd.tid \in Tids /\ alarm' \in 0 .. MaxAlarms
  BY <1>1 DEF SessionInv, SessionTypeOK, Cmd
<1>3. OnlyLocksOf(cmd.tid) /\ OnlyCallOf(cmd.tid) /\ stmt'[cmd.tid] = Nil /\ Unlocked(cmd.tid)
  BY <1>1, <1>2 DEF SessionInv, OneCall, OnlyCallOf, OnlyLocksOf, LoadUnlocked, HasLocks, Unlocked
<1> QED
  BY <1>1, <1>2, <1>3, CommandOver

LEMMA LoadInsertedKeeps ==
    ASSUME SessionInv, LoadInserted
    PROVE  SessionInv'
<1>1. /\ cmd # Nil /\ cmd.kind = "loadInsert" /\ cmd' = [cmd EXCEPT !.kind = "loadFlush"]
      /\ UNCHANGED <<mapPageLocksByTid, tabs, nextTid, tx, alarm, forgotten>>
      /\ OnlyCallOf(cmd.tid)
  BY StartLocks DEF SessionInv, OneCall, OnlyCallOf, LoadInserted, Doing, below, shell, vars, lockVars, cur
<1>2. cmd \in Cmd /\ cmd.file \in tabs
  BY <1>1 DEF SessionInv, SessionTypeOK
<1>3. cmd' \in Cmd /\ cmd'.kind = "loadFlush" /\ cmd'.tid = cmd.tid /\ cmd'.file = cmd.file
  BY <1>1, <1>2 DEF Cmd, Loading
<1>4. cmd' # Nil
  BY <1>3, CmdNilAssumption
<1>5. SessionTypeOK'
  BY <1>1, <1>2, <1>3 DEF SessionInv, SessionTypeOK
<1> QED
  BY <1>1, <1>3, <1>4, <1>5, SameLocks

LEMMA LoadFlushPageKeeps ==
    ASSUME SessionInv, LoadFlushPage
    PROVE  SessionInv'
<1>1. /\ cmd # Nil /\ cmd.kind = "loadFlush"
      /\ UNCHANGED <<mapPageLocksByTid, cmd, tabs, nextTid, tx, alarm, forgotten>>
  BY DEF LoadFlushPage, Doing, shell, lockVars
<1>2. OnlyCallOf(cmd.tid)
  BY DEF SessionInv, OneCall, OnlyCallOf, LoadFlushPage, cur
<1>3. SessionTypeOK'
  BY <1>1 DEF SessionInv, SessionTypeOK
<1> QED
  BY <1>1, <1>2, <1>3, SameLocks

LEMMA LoadCommitKeeps ==
    ASSUME SessionInv, LoadCommit
    PROVE  SessionInv'
<1>1. /\ cmd # Nil /\ cmd.kind = "loadFlush" /\ Commit(cmd.tid) /\ cmd' = [cmd EXCEPT !.kind = "load"]
      /\ UNCHANGED <<tabs, nextTid, tx, alarm, forgotten>>
  BY DEF LoadCommit, Doing, shell, cur
<1>2. cmd \in Cmd /\ cmd.file \in tabs /\ cmd.tid \in Tids
  BY <1>1 DEF SessionInv, SessionTypeOK, Cmd
<1>3. cmd' \in Cmd /\ cmd'.kind = "load" /\ cmd'.tid = cmd.tid /\ cmd'.file = cmd.file
  BY <1>1, <1>2 DEF Cmd, Loading
<1>4. cmd' # Nil
  BY <1>3, CmdNilAssumption
<1>5. OnlyLocksOf(cmd.tid) /\ Unlocked(cmd.tid) /\ UNCHANGED stmt /\ stmt[cmd.tid] = Nil
  BY <1>1, <1>2, CommitLocks DEF SessionInv
<1>6. SessionTypeOK'
  BY <1>1, <1>2, <1>3 DEF SessionInv, SessionTypeOK
<1>7. LocksAccounted'
  BY <1>1, <1>3, <1>4, <1>5 DEF SessionInv, LocksAccounted, OnlyLocksOf, cur
<1>8. TidsGivenOut' /\ StatementInTx'
  BY <1>1, <1>3 DEF SessionInv, TidsGivenOut, StatementInTx, Loading
<1>9. LoadUnlocked' /\ OneCall'
  BY <1>3, <1>5 DEF SessionInv, LoadUnlocked, HasLocks, Unlocked, OneCall
<1> QED
  BY <1>5, <1>6, <1>7, <1>8, <1>9 DEF SessionInv, OnlyLocksOf

-----------------------------------------------------------------------------
(* The start                                                               *)

LEMMA RestartKeeps ==
    ASSUME SessionInv, Restart
    PROVE  SessionInv'
<1>1. /\ mapPageLocksByTid' = [t \in Tids |-> [k \in Keys |-> Nil]] /\ stmt' = [t \in Tids |-> Nil]
      /\ nextTid' = 1 /\ tx' = Nil /\ cmd' = Nil /\ alarm' = 0 /\ forgotten' = {} /\ tabs' = tabs
  BY DEF Restart
<1>2. 1 \in Tids \cup {Cardinality(Tids) + 1}
  <2>1. Cardinality(Tids) \in Nat
    BY TidsAssumption, FS_CardinalityType
  <2>2. 1 \in 1 .. Cardinality(Tids) \/ 1 = Cardinality(Tids) + 1
    BY <2>1
  <2> QED
    BY <2>2, TidsAssumption, Zenon
<1>3. SessionTypeOK'
  BY <1>1, <1>2, BoundsAssumption DEF SessionInv, SessionTypeOK
<1>4. LocksAccounted' /\ TidsGivenOut' /\ StatementInTx' /\ OneCall' /\ LoadUnlocked'
  BY <1>1 DEF LocksAccounted, TidsGivenOut, StatementInTx, OneCall, LoadUnlocked
<1> QED
  BY <1>1, <1>3, <1>4 DEF SessionInv

LEMMA SessionInitInv == SessionInit => SessionInv
<1> SUFFICES ASSUME SessionInit PROVE SessionInv
  OBVIOUS
<1>1. /\ mapPageLocksByTid = [t \in Tids |-> [k \in Keys |-> Nil]] /\ stmt = [t \in Tids |-> Nil]
      /\ nextTid = 1 /\ tx = Nil /\ cmd = Nil /\ alarm = 0 /\ forgotten = {} /\ tabs = TabsInit
  BY DEF SessionInit, HeapInit, Init, LockInit
<1>2. 1 \in Tids \cup {Cardinality(Tids) + 1}
  <2>1. Cardinality(Tids) \in Nat
    BY TidsAssumption, FS_CardinalityType
  <2>2. 1 \in 1 .. Cardinality(Tids) \/ 1 = Cardinality(Tids) + 1
    BY <2>1
  <2> QED
    BY <2>2, TidsAssumption, Zenon
<1>3. SessionTypeOK
  BY <1>1, <1>2, BoundsAssumption, TabsAssumption DEF SessionTypeOK
<1>4. LocksAccounted /\ TidsGivenOut /\ StatementInTx /\ OneCall /\ LoadUnlocked
  BY <1>1 DEF LocksAccounted, TidsGivenOut, StatementInTx, OneCall, LoadUnlocked
<1> QED
  BY <1>1, <1>3, <1>4 DEF SessionInv

-----------------------------------------------------------------------------
(* The theorems                                                            *)

LEMMA SessionStep == SessionInv /\ [SessionNext]_allVars => SessionInv'
<1> SUFFICES ASSUME SessionInv, [SessionNext]_allVars PROVE SessionInv'
  OBVIOUS
<1>1. CASE UNCHANGED allVars
  <2>1. UNCHANGED <<mapPageLocksByTid, stmt, tabs, nextTid, tx, cmd, alarm, forgotten>>
    BY <1>1 DEF allVars, vars, lockVars, heapVars, sessionVars
  <2>2. SessionTypeOK'
    BY <2>1 DEF SessionInv, SessionTypeOK
  <2> QED
    BY <2>1, <2>2, Unnoticed
<1>2. CASE Work
  BY <1>2, InsertRowKeeps, GetStepKeeps, HeapStepKeeps, CountsKeeps, FinishKeeps,
     IteratorFailsKeeps, InterruptKeeps, LoadLineKeeps, LoadEndsKeeps, LoadInsertedKeeps, LoadFlushPageKeeps, LoadCommitKeeps DEF Work
<1>3. CASE Command
  <2>1. ASSUME NEW f \in Files, Statement("select", f, 0) \/ Statement("delete", f, 0) PROVE SessionInv'
    <3>1. 0 \in 0 .. MaxRows
      BY BoundsAssumption
    <3> QED
      BY <2>1, <3>1, StatementKeeps
  <2>2. ASSUME NEW f \in Files, NEW n \in 1 .. MaxRows, Statement("insert", f, n) PROVE SessionInv'
    <3>1. n \in 0 .. MaxRows
      BY BoundsAssumption
    <3> QED
      BY <2>2, <3>1, StatementKeeps
  <2>3. ASSUME NEW f \in Files, Create(f) \/ Drop(f) \/ Load(f) PROVE SessionInv'
    BY <2>3, DefinitionKeeps, LoadKeeps
  <2> QED
    BY <1>3, <2>1, <2>2, <2>3, BeginKeeps, EndTxKeeps DEF Command
<1>4. CASE Signal \/ Restart
  BY <1>4, SignalKeeps, RestartKeeps
<1> QED
  BY <1>1, <1>2, <1>3, <1>4 DEF SessionNext

LEMMA SessionKept == SessionSpec => []SessionInv
  BY SessionInitInv, SessionStep, PTL DEF SessionSpec

\* The shell's variables keep their types: the ids NewTID gives out, the table
\* of a command, which no DROP takes away while it runs, and the interrupts
\* pending in the channel alarm (main.go).
THEOREM SessionTyping == SessionSpec => []SessionTypeOK
<1>1. SessionInv => SessionTypeOK
  BY DEF SessionInv
<1> QED
  BY <1>1, SessionKept, PTL

\* No lock outlives its transaction, whatever fails, is interrupted, loaded,
\* dropped or lost in a crash: whoever has a lock is the transaction of BEGIN,
\* that of the command under way, or one that main.go has left without a commit
\* under autocommit, by "goto outer" after an interrupt or by "continue" after an
\* error of plan.Iterator.
THEOREM LocksOwned == SessionSpec => []LocksAccounted
<1>1. SessionInv => LocksAccounted
  BY DEF SessionInv
<1> QED
  BY <1>1, SessionKept, PTL

-----------------------------------------------------------------------------
(* The pages of a session, as long as no dropped table comes back          *)

\* A page that has been changed is the pool's, whoever points to it.
DirtyInPool == \A k \in Keys : \A o \in Live(k) : heap[k][o].dirty => o = pages[k]

\* And a transaction that has changed a page has that object in its lock.
WriterHas == \A t \in Tids, k \in Keys : (Writes(t, k) /\ Dirty(k)) => lockPage[t][k] = pages[k]

PoolExact == HeapInv /\ PagesOK /\ DirtyInPool /\ WriterHas

\* The call of t is at the page that the pool has.
CallInPool(t) ==
    LET c == stmt[t]
        k == PageOf(c)
    IN  /\ c.ph = "asleep" => waitPage[t] = pages[k]
        /\ c.ph = "got" => handle[t].page = pages[k]
        /\ (c.ph = "got" /\ c.kind # "scan") => lockPage[t][k] = pages[k]
        /\ c.kind = "insert" => IF c.new THEN In(k) = {} ELSE c.n = NumPages(c.file)

PoolData(k) == heap[k][pages[k]].data

\* Nobody but t has a call of GetPage under way.
Alone(t) == \A u \in Tids \ {t} : waiting[u] = Nil

\* What a call of GetPage finds is what the pool has, or has read.
LEMMA FoundByOne ==
    ASSUME HeapInv, NEW t \in Tids, Alone(t), stmt[t] # Nil, CallInPool(t),
           NEW k \in Keys, k = PageOf(stmt[t]), NEW o, NEW pgs, NEW h, Found(k, o, pgs, h)
    PROVE  /\ o = pgs[k] /\ o # Nil
           /\ pages[k] # Nil => o = pages[k]
           /\ o \notin Live(k) => ~ h[k][o].dirty
           /\ o \in Live(k) => h[k][o] = heap[k][o]
<1>0. o # Nil /\ o \in Objs
  BY PageNilAssumption DEF Found
<1>1. ASSUME NEW u \in Tids, Points(waiting[u], k) PROVE waitPage[u] = pages[k]
  <2>1. u = t /\ waiting[t] # Nil
    BY <1>1 DEF Alone, Points
  <2>2. stmt[t].ph = "asleep"
    BY <2>1, CallFacts
  <2> QED
    BY <2>1, <2>2 DEF CallInPool
<1>2. /\ o = pgs[k]
      /\ pages[k] # Nil => o = pages[k]
  BY <1>1 DEF Found
<1>3. o \notin Live(k) => h[k][o] = ReadPage(k)
  BY DEF Found
<1>4. ReadPage(k).dirty = FALSE
  BY DEF ReadPage
<1>5. o \in Live(k) => h[k][o] = heap[k][o]
  BY DEF Found
<1> QED
  BY <1>0, <1>2, <1>3, <1>4, <1>5

\* A page stays in the pool if it is dirty.
LEMMA FailsPool ==
    ASSUME PoolExact, HeapInv', PagesOK', NEW t \in Tids,
           NEW pgs \in MadeRoom \cup {pages}, Fails(t, pgs)
    PROVE  DirtyInPool' /\ WriterHas'
<1>0. TypeOK /\ TypeOK' /\ DirtyInPool /\ WriterHas
  BY DEF PoolExact, HeapInv
<1>1. /\ UNCHANGED <<mapPageLocksByTid, lockPage, disk>>
      /\ pages' = pgs /\ heap' = Collected(heap)
  BY DEF Fails, lockVars
<1>2. ASSUME NEW l \in Keys, NEW x \in Live(l)', heap'[l][x].dirty
      PROVE  x = pages[l] /\ pages'[l] = pages[l]
  <2>1. x \in Live(l)
    BY <1>0, <1>2, OthersReach
  <2>2. heap'[l][x] = heap[l][x]
    BY <1>1, CollectedKeeps
  <2>3. x = pages[l] /\ heap[l][pages[l]].dirty
    BY <1>0, <1>2, <2>1, <2>2 DEF DirtyInPool
  <2> QED
    BY <1>0, <1>1, <2>3, MadeRoomClean
<1>3. DirtyInPool'
  BY <1>2 DEF DirtyInPool
<1>4. ASSUME NEW u \in Tids, NEW l \in Keys, Writes(u, l)', Dirty(l)'
      PROVE  lockPage'[u][l] = pages'[l]
  <2>1. pages'[l] \in Live(l)' /\ heap'[l][pages'[l]].dirty
    BY <1>0, <1>4, PointersReachNext DEF Reached, Dirty
  <2>2. pages'[l] = pages[l] /\ heap'[l][pages[l]] = heap[l][pages[l]]
    <3>1. pages'[l] = pages[l]
      BY <1>2, <2>1
    <3>2. heap'[l][pages'[l]] = heap[l][pages'[l]]
      BY <1>1, <2>1, CollectedKeeps
    <3> QED
      BY <3>1, <3>2
  <2>3. Writes(u, l) /\ Dirty(l)
    BY <1>1, <1>4, <2>1, <2>2 DEF Writes, Dirty
  <2> QED
    BY <1>0, <1>1, <2>2, <2>3 DEF WriterHas
<1> QED
  BY <1>3, <1>4 DEF WriterHas

\* A rollback: what t has changed, nobody has any more.
LEMMA UndonePool ==
    ASSUME PoolExact, HeapInv', NEW t \in Tids, Alone(t), stmt[t] # Nil, CallInPool(t),
           NEW k \in Keys, k = PageOf(stmt[t]), NEW perm \in Perms, NEW o, NEW pgs, NEW h,
           Found(k, o, pgs, h), HandleTransaction(t, k, perm, o, pgs, h),
           Undone(t), ClearMap(t, pgs)
    PROVE  DirtyInPool' /\ WriterHas'
<1>0. TypeOK /\ TypeOK' /\ LockTypeOK /\ LockCompatible /\ HandlesLocked /\ DirtyInPool /\ WriterHas
  BY DEF PoolExact, HeapInv, TypeOK
<1>1. /\ heap' = Collected(h) /\ disk' = disk
      /\ \A u \in Tids \ {t} : /\ mapPageLocksByTid'[u] = mapPageLocksByTid[u]
                               /\ lockPage'[u] = lockPage[u]
                               /\ waiting'[u] = waiting[u]
                               /\ handle'[u] = handle[u]
  BY <1>0, HandleEffect
<1>2. /\ \A l \in Keys : pages'[l] = IF Writes(t, l) THEN Nil ELSE pgs[l]
      /\ pages[k] # Nil => pgs[k] = pages[k]
  <2>1. pages[k] # Nil => pgs[k] = pages[k]
    BY FoundByOne DEF PoolExact
  <2> QED
    BY <2>1 DEF ClearMap, Writes
<1>3. ASSUME NEW l \in Keys, NEW x \in Live(l)', heap'[l][x].dirty
      PROVE  x = pages[l] /\ pages[l] \in Live(l) /\ heap[l][x] = heap'[l][x] /\ pgs[l] = pages[l]
  <2>1. heap'[l][x] = h[l][x]
    BY <1>1, CollectedKeeps
  <2>2. x \in Live(l) /\ h[l][x] = heap[l][x]
    <3>1. CASE x \in Live(l)
      BY <3>1 DEF Found
    <3>2. CASE x \notin Live(l)
      <4>1. l = k /\ x = o
        BY <1>0, <3>2, GetReaches
      <4>2. ~ h[k][o].dirty
        BY <3>2, <4>1, FoundByOne DEF PoolExact
      <4> QED
        BY <1>3, <2>1, <4>1, <4>2
    <3> QED
      BY <3>1, <3>2
  <2>3. x = pages[l]
    BY <1>0, <1>3, <2>1, <2>2 DEF DirtyInPool
  <2>4. pgs[l] = pages[l]
    <3>1. pages[l] # Nil
      BY <2>2, <2>3, PageNilAssumption DEF Live
    <3>2. l = k => pgs[l] = pages[l]
      BY <1>2, <3>1
    <3>3. l # k => pgs[l] = pages[l]
      BY <1>3, <2>1, <2>2, <2>3 DEF Found
    <3> QED
      BY <3>2, <3>3
  <2> QED
    BY <2>1, <2>2, <2>3, <2>4
<1>4. ASSUME NEW l \in Keys, Writes(t, l), NEW x \in Live(l)' PROVE ~ heap'[l][x].dirty
  <2>0. x \in Objs /\ x # Nil
    BY PageNilAssumption DEF Live
  <2>1. \A u \in Tids \ {t} : mapPageLocksByTid[u][l] = Nil
    BY <1>0, <1>4, OneWriter
  <2>2. \A u \in Tids : lockPage'[u][l] = Nil
    <3>1. \A u \in Tids \ {t} : lockPage[u][l] = Nil
      BY <1>0, <2>1 DEF TypeOK
    <3> QED
      BY <1>1, <3>1 DEF Undone
  <2>3. pages'[l] = Nil
    BY <1>2, <1>4
  <2>4. \A u \in Tids : waiting'[u] = Nil
    BY <1>1 DEF Alone, Undone
  <2>5. \A u \in Tids : ~ Points(handle'[u], l)
    BY <1>0, <1>1, <2>1 DEF HandlesLocked, Points, Undone
  <2> QED
    BY <2>0, <2>2, <2>3, <2>4, <2>5 DEF Live, Points
<1>5. DirtyInPool'
  <2>1. ASSUME NEW l \in Keys, NEW x \in Live(l)', heap'[l][x].dirty PROVE x = pages'[l]
    <3>1. ~ Writes(t, l)
      BY <1>4, <2>1
    <3> QED
      BY <1>2, <1>3, <2>1, <3>1
  <2> QED
    BY <2>1 DEF DirtyInPool
<1>6. ASSUME NEW u \in Tids, NEW l \in Keys, Writes(u, l)', Dirty(l)'
      PROVE  lockPage'[u][l] = pages'[l]
  <2>1. u # t
    BY <1>6, NilAssumption DEF Undone, Writes, Perms
  <2>2. pages'[l] \in Live(l)' /\ heap'[l][pages'[l]].dirty
    BY <1>0, <1>6, PointersReachNext DEF Reached, Dirty
  <2>3. pages'[l] = pages[l] /\ heap[l][pages[l]].dirty /\ pages[l] # Nil
    BY <1>3, <1>6, <2>2 DEF Dirty
  <2>4. Writes(u, l) /\ Dirty(l)
    BY <1>1, <1>6, <2>1, <2>3 DEF Writes, Dirty
  <2> QED
    BY <1>0, <1>1, <2>1, <2>3, <2>4 DEF WriterHas
<1> QED
  BY <1>5, <1>6 DEF WriterHas

\* t has its page, or sleeps: what it has found is the pool's.
LEMMA ServedPool ==
    ASSUME PoolExact, HeapInv', NEW t \in Tids, Alone(t), stmt[t] # Nil,
           stmt[t].ph \in {"get", "asleep"}, Answered(t), CallInPool(t),
           NEW k \in Keys, k = PageOf(stmt[t]), NEW perm \in Perms, NEW o, NEW pgs, NEW h,
           Found(k, o, pgs, h), HandleTransaction(t, k, perm, o, pgs, h),
           Granted(t, k, perm, o) \/ Slept(t, k, perm, o), pages' = pgs
    PROVE  DirtyInPool' /\ WriterHas'
<1>0. TypeOK /\ TypeOK' /\ DirtyInPool /\ WriterHas /\ PagesOK /\ HeapInv
  BY DEF PoolExact, HeapInv
<1>1. /\ heap' = Collected(h) /\ disk' = disk
      /\ \A u \in Tids \ {t} : /\ mapPageLocksByTid'[u] = mapPageLocksByTid[u]
                               /\ lockPage'[u] = lockPage[u]
  BY <1>0, HandleEffect
<1>2. /\ o = pgs[k] /\ o # Nil
      /\ pages[k] # Nil => o = pages[k]
      /\ o \notin Live(k) => ~ h[k][o].dirty
  BY <1>0, FoundByOne
<1>3. ASSUME NEW l \in Keys, NEW x \in Live(l)', heap'[l][x].dirty
      PROVE  x = pages[l] /\ pages'[l] = pages[l]
  <2>1. heap'[l][x] = h[l][x]
    BY <1>1, CollectedKeeps
  <2>2. x \in Live(l) /\ h[l][x] = heap[l][x]
    <3>1. CASE x \in Live(l)
      BY <3>1 DEF Found
    <3>2. CASE x \notin Live(l)
      <4>1. l = k /\ x = o
        BY <1>0, <3>2, GetReaches
      <4> QED
        BY <1>2, <1>3, <2>1, <3>2, <4>1
    <3> QED
      BY <3>1, <3>2
  <2>3. x = pages[l]
    BY <1>0, <1>3, <2>1, <2>2 DEF DirtyInPool
  <2>4. pages[l] # Nil
    BY <2>2, <2>3, PageNilAssumption DEF Live
  <2>5. l = k => pgs[l] = pages[l]
    BY <1>2, <2>4
  <2>6. l # k => pgs[l] = pages[l]
    BY <1>3, <2>1, <2>2, <2>3 DEF Found
  <2> QED
    BY <2>3, <2>5, <2>6
<1>4. DirtyInPool'
  BY <1>3 DEF DirtyInPool
<1>5. ASSUME NEW u \in Tids, NEW l \in Keys, Writes(u, l)', Dirty(l)'
      PROVE  lockPage'[u][l] = pages'[l]
  <2>1. Dirty(l)
    BY <1>0, <1>5, PagesServed
  <2>2. pages'[l] = pages[l]
    <3>1. pages'[l] \in Live(l)' /\ heap'[l][pages'[l]].dirty
      BY <1>0, <1>5, PointersReachNext DEF Reached, Dirty
    <3> QED
      BY <1>3, <3>1
  <2>3. CASE u # t
    BY <1>0, <1>1, <1>5, <2>1, <2>2, <2>3 DEF WriterHas, Writes
  <2>4. CASE u = t /\ Slept(t, k, perm, o)
    BY <1>0, <1>5, <2>1, <2>2, <2>4 DEF WriterHas, Writes, Slept
  <2>5. CASE u = t /\ Granted(t, k, perm, o)
    <3>1. CASE l = k /\ (mapPageLocksByTid[t][k] = Nil \/ perm = "Write")
      BY <1>2, <2>5, <3>1 DEF Granted
    <3>2. CASE ~ (l = k /\ (mapPageLocksByTid[t][k] = Nil \/ perm = "Write"))
      <4>1. lockPage'[t][l] = lockPage[t][l] /\ mapPageLocksByTid'[t][l] = mapPageLocksByTid[t][l]
        BY <2>5, <3>2 DEF Granted
      <4> QED
        BY <1>0, <1>5, <2>1, <2>2, <2>5, <4>1 DEF WriterHas, Writes
    <3> QED
      BY <3>1, <3>2
  <2> QED
    BY <2>3, <2>4, <2>5
<1> QED
  BY <1>4, <1>5 DEF WriterHas

\* What a step of GetPage leaves of a call that goes on.
LEMMA AnsweredCall ==
    ASSUME HeapInv, NEW t \in Tids, stmt[t] # Nil, Answered(t), stmt'[t] # Nil
    PROVE  /\ stmt'[t].kind = stmt[t].kind /\ stmt'[t].file = stmt[t].file
           /\ stmt'[t].i = stmt[t].i /\ stmt'[t].n = stmt[t].n /\ stmt'[t].tup = stmt[t].tup
           /\ stmt[t].kind = "insert" => stmt'[t].new = stmt[t].new
           /\ stmt[t].kind # "insert" => stmt'[t].j = stmt[t].j /\ stmt'[t].seen = stmt[t].seen
           /\ waiting'[t] # Nil => stmt'[t].ph = "asleep"
           /\ waiting'[t] = Nil => stmt'[t].ph = "got" /\ handle'[t] # Nil
<1>1. stmt'[t] = IF waiting'[t] # Nil THEN [stmt[t] EXCEPT !.ph = "asleep"]
                 ELSE IF handle'[t] # Nil THEN [stmt[t] EXCEPT !.ph = "got"]
                 ELSE Nil
  BY DEF Answered, HeapInv, CallsTyped
<1>2. stmt[t] \in InsertCall \cup ScanCall
  BY CallsPage
<1>3. CASE waiting'[t] # Nil
  BY <1>1, <1>2, <1>3, NewPhase
<1>4. CASE waiting'[t] = Nil
  <2>1. handle'[t] # Nil /\ stmt'[t] = [stmt[t] EXCEPT !.ph = "got"]
    BY <1>1, <1>4
  <2> QED
    BY <1>2, <1>4, <2>1, NewPhase
<1> QED
  BY <1>3, <1>4

LEMMA ServedCall ==
    ASSUME PoolExact, HeapInv', NEW t \in Tids, Alone(t), stmt[t] # Nil,
           stmt[t].ph \in {"get", "asleep"}, Answered(t), CallInPool(t),
           NEW k \in Keys, k = PageOf(stmt[t]), NEW perm \in Perms, perm = PermOf(stmt[t]),
           NEW o, NEW pgs, NEW h,
           Found(k, o, pgs, h), HandleTransaction(t, k, perm, o, pgs, h),
           Granted(t, k, perm, o) \/ Slept(t, k, perm, o), pages' = pgs
    PROVE  /\ stmt'[t] # Nil /\ CallInPool(t)'
           /\ \A l \in Keys : In(l)' = In(l)
           /\ pages[k] # Nil => pages'[k] = pages[k] /\ PoolData(k)' = PoolData(k)
<1>0. TypeOK /\ TypeOK' /\ PagesOK /\ HeapInv
  BY DEF PoolExact, HeapInv
<1>1. \A l \in Keys : In(l)' = In(l)
  BY <1>0, PagesServed
<1>2. /\ o = pgs[k] /\ o # Nil
      /\ pages[k] # Nil => o = pages[k]
  BY <1>0, FoundByOne
<1>3. stmt'[t] # Nil
  <2>1. stmt'[t] = IF waiting'[t] # Nil THEN [stmt[t] EXCEPT !.ph = "asleep"]
                   ELSE IF handle'[t] # Nil THEN [stmt[t] EXCEPT !.ph = "got"]
                   ELSE Nil
    BY <1>0 DEF Answered, HeapInv, CallsTyped
  <2>2. waiting'[t] # Nil \/ handle'[t] # Nil
    <3>1. CASE Granted(t, k, perm, o)
      <4>1. handle'[t] \in Handle
        BY <3>1 DEF Granted, Handle, Found
      <4> QED
        BY <4>1, PageNilAssumption
    <3>2. CASE Slept(t, k, perm, o)
      <4>1. waiting'[t] \in Request
        BY <3>2 DEF Slept, Request
      <4> QED
        BY <4>1, NilAssumption
    <3> QED
      BY <3>1, <3>2
  <2>3. [stmt[t] EXCEPT !.ph = "asleep"] # Nil /\ [stmt[t] EXCEPT !.ph = "got"] # Nil
    <3>1. stmt[t] \in InsertCall \cup ScanCall
      BY <1>0, CallsPage
    <3> QED
      BY <3>1, NewPhase, CallNilAssumption
  <2> QED
    BY <2>1, <2>2, <2>3
<1>4. /\ stmt'[t].kind = stmt[t].kind /\ stmt'[t].file = stmt[t].file
      /\ stmt'[t].i = stmt[t].i /\ stmt'[t].n = stmt[t].n
      /\ stmt[t].kind = "insert" => stmt'[t].new = stmt[t].new
      /\ waiting'[t] # Nil => stmt'[t].ph = "asleep"
      /\ waiting'[t] = Nil => stmt'[t].ph = "got"
  BY <1>0, <1>3, AnsweredCall
<1>5. PageOf(stmt[t])' = k
  BY <1>4 DEF PageOf, Key
<1>6. stmt'[t].kind = "insert" =>
          IF stmt'[t].new THEN In(k)' = {} ELSE stmt'[t].n = NumPages(stmt[t].file)'
  <2>1. disk' = disk
    BY <1>0, HandleEffect
  <2>2. stmt[t].kind = "insert" => IF stmt[t].new THEN In(k) = {} ELSE stmt[t].n = NumPages(stmt[t].file)
    BY DEF CallInPool
  <2>3. NumPages(stmt[t].file)' = NumPages(stmt[t].file)
    BY <1>4, <2>1 DEF NumPages
  <2> QED
    BY <1>1, <1>4, <2>2, <2>3
<1>7. ASSUME Granted(t, k, perm, o) PROVE CallInPool(t)'
  <2>1. waiting'[t] = Nil /\ handle'[t].page = o
    BY <1>7 DEF Granted
  <2>2. stmt[t].kind # "scan" => lockPage'[t][k] = o
    BY <1>7 DEF Granted, PermOf
  <2> QED
    BY <1>1, <1>2, <1>4, <1>5, <1>6, <2>1, <2>2 DEF CallInPool
<1>8. ASSUME Slept(t, k, perm, o) PROVE CallInPool(t)'
  <2>1. waiting'[t] # Nil /\ waitPage'[t] = o
    <3>1. waiting'[t] \in Request
      BY <1>8 DEF Slept, Request
    <3> QED
      BY <1>8, <3>1, NilAssumption DEF Slept
  <2> QED
    BY <1>1, <1>2, <1>4, <1>5, <1>6, <2>1 DEF CallInPool
<1>9. CallInPool(t)'
  BY <1>7, <1>8
<1>10. ASSUME pages[k] # Nil PROVE pages'[k] = pages[k] /\ PoolData(k)' = PoolData(k)
  <2>1. pages'[k] = pages[k]
    BY <1>2, <1>10
  <2>2. pages[k] \in Live(k) /\ pages'[k] \in Live(k)'
    BY <1>0, <1>10, <2>1, PointersReach, PointersReachNext DEF Reached
  <2>3. heap'[k][pages'[k]] = h[k][pages'[k]]
    <3>1. heap' = Collected(h)
      BY <1>0, HandleEffect
    <3> QED
      BY <2>2, <3>1, CollectedKeeps
  <2>4. h[k][pages[k]] = heap[k][pages[k]]
    BY <2>2 DEF Found
  <2> QED
    BY <2>1, <2>3, <2>4 DEF PoolData
<1> QED
  BY <1>1, <1>3, <1>9, <1>10

\* A step of GetPage for a statement.
LEMMA GetPool ==
    ASSUME PoolExact, HeapInv', NEW t \in Tids, Alone(t), stmt[t] # Nil => CallInPool(t),
           CallGetPage(t) \/ Awake(t)
    PROVE  /\ PoolExact' /\ disk' = disk
           /\ \A l \in Keys : pages'[l] # Nil => pages[l] # Nil \/ disk[l] # Nil
           /\ stmt'[t] # Nil =>
                /\ CallInPool(t)'
                /\ \A l \in Keys : In(l)' = In(l)
                /\ \A k \in Keys : (k = PageOf(stmt[t]) /\ pages[k] # Nil) =>
                      pages'[k] = pages[k] /\ PoolData(k)' = PoolData(k)
<1>0. TypeOK /\ HeapInv /\ PagesOK
  BY DEF PoolExact, HeapInv
<1>1. /\ stmt[t] # Nil /\ stmt[t].ph \in {"get", "asleep"} /\ Answered(t)
      /\ \/ GetPage(t, PageOf(stmt[t]), PermOf(stmt[t]))
         \/ WakeGetPage(t) /\ waiting[t] = [key |-> PageOf(stmt[t]), perm |-> PermOf(stmt[t])]
  BY <1>0, HeapGets
<1>2. PICK k \in Keys, perm \in Perms : k = PageOf(stmt[t]) /\ perm = PermOf(stmt[t])
  BY <1>0, <1>1, CallsPage
<1>3. \/ \E o, pgs, h : Found(k, o, pgs, h) /\ HandleTransaction(t, k, perm, o, pgs, h)
      \/ Running(t) /\ \E pgs \in MadeRoom \cup {pages} : Fails(t, pgs)
  BY <1>0, <1>1, <1>2, GetPageFound
<1> DEFINE Goes == /\ CallInPool(t)'
                   /\ \A l \in Keys : In(l)' = In(l)
                   /\ pages[k] # Nil => pages'[k] = pages[k] /\ PoolData(k)' = PoolData(k)
           Good == /\ PagesOK' /\ DirtyInPool' /\ WriterHas' /\ disk' = disk
                   /\ \A l \in Keys : pages'[l] # Nil => pages[l] # Nil \/ disk[l] # Nil
                   /\ stmt'[t] # Nil => Goes
<1>4. ASSUME Running(t), NEW pgs \in MadeRoom \cup {pages}, Fails(t, pgs) PROVE Good
  <2>1. PagesOK' /\ stmt'[t] = Nil
    BY <1>0, <1>1, <1>4, PagesFail
  <2>2. DirtyInPool' /\ WriterHas'
    BY <1>4, <2>1, FailsPool
  <2>3. pages' = pgs /\ disk' = disk
    BY <1>4 DEF Fails
  <2>4. \A l \in Keys : pages'[l] # Nil => pages[l] # Nil
    BY <1>0, <2>3, MadeRoomClean
  <2> QED
    BY <2>1, <2>2, <2>3, <2>4
<1>5. ASSUME NEW o, NEW pgs, NEW h, Found(k, o, pgs, h), HandleTransaction(t, k, perm, o, pgs, h)
      PROVE  Good
  <2>1. /\ disk' = disk
        /\ \/ Granted(t, k, perm, o) /\ pages' = pgs
           \/ Undone(t) /\ ClearMap(t, pgs)
           \/ Slept(t, k, perm, o) /\ pages' = pgs
    BY <1>0, <1>5, HandleEffect
  <2>2. \A l \in Keys : pages'[l] # Nil => pages[l] # Nil \/ disk[l] # Nil
    <3>1. \A l \in Keys : pages'[l] \in {Nil, pgs[l]}
      BY <2>1 DEF ClearMap
    <3>2. \A l \in Keys : pgs[l] # Nil => pages[l] # Nil \/ disk[l] # Nil
      BY <1>5 DEF Found
    <3> QED
      BY <3>1, <3>2
  <2>3. CASE Undone(t) /\ ClearMap(t, pgs)
    <3>1. PagesOK' /\ stmt'[t] = Nil
      BY <1>0, <1>1, <1>5, <2>3, PagesUndone
    <3>2. DirtyInPool' /\ WriterHas'
      BY <1>1, <1>2, <1>5, <2>3, UndonePool
    <3> QED
      BY <2>1, <2>2, <3>1, <3>2
  <2>4. CASE (Granted(t, k, perm, o) \/ Slept(t, k, perm, o)) /\ pages' = pgs
    <3>1. PagesOK'
      BY <1>0, <1>1, <1>2, <1>5, <2>4, PagesServed
    <3>2. DirtyInPool' /\ WriterHas'
      BY <1>1, <1>2, <1>5, <2>4, ServedPool
    <3>3. Goes
      BY <1>1, <1>2, <1>5, <2>4, ServedCall
    <3> QED
      BY <2>1, <2>2, <3>1, <3>2, <3>3
  <2> QED
    BY <2>1, <2>3, <2>4
<1>6. Good
  BY <1>3, <1>4, <1>5
<1> HIDE DEF Goes
<1>7. /\ PagesOK' /\ DirtyInPool' /\ WriterHas' /\ disk' = disk
      /\ \A l \in Keys : pages'[l] # Nil => pages[l] # Nil \/ disk[l] # Nil
      /\ stmt'[t] # Nil => Goes
  BY <1>6
<1> QED
  BY <1>2, <1>7 DEF Goes, PoolExact

\* Steps that do nothing to the pool, the locks and the files.
LEMMA StillPool ==
    ASSUME DirtyInPool, WriterHas, UNCHANGED vars
    PROVE  DirtyInPool' /\ WriterHas'
<1>1. UNCHANGED <<mapPageLocksByTid, waiting, pages, lockPage, waitPage, handle, heap, disk>>
  BY DEF vars, lockVars, pointers
<1>2. \A k \in Keys : Live(k)' = Live(k) /\ (Dirty(k)' <=> Dirty(k))
  BY <1>1 DEF Live, Dirty
<1> QED
  BY <1>1, <1>2 DEF DirtyInPool, WriterHas, Writes

\* A new page of a file whose name no page of the pool has.
LEMMA GrowsPool ==
    ASSUME PoolExact, HeapInv', NEW t \in Tids, Grows(t),
           \A k \in Keys : pages[k] # Nil /\ disk'[k] # Nil => disk[k] # Nil
    PROVE  PoolExact' /\ \A k \in Keys : In(k)' = In(k) /\ pages'[k] = pages[k]
<1>0. HeapInv /\ PagesOK /\ DirtyInPool /\ WriterHas
  BY DEF PoolExact
<1>1. PagesOK' /\ \A k \in Keys : In(k)' = In(k) /\ (Dirty(k)' <=> Dirty(k))
  BY <1>0, PagesGrow
<1>2. UNCHANGED <<mapPageLocksByTid, waiting, pages, lockPage, waitPage, handle, heap>>
  BY <1>0, GrowsDisk DEF lockVars, pointers
<1>3. \A k \in Keys : Live(k)' = Live(k)
  BY <1>2 DEF Live
<1>4. DirtyInPool' /\ WriterHas'
  BY <1>0, <1>1, <1>2, <1>3 DEF DirtyInPool, WriterHas, Writes
<1> QED
  BY <1>1, <1>2, <1>4 DEF PoolExact

\* A change is made to the pool's page, which is that of the lock.
LEMMA ChangePool ==
    ASSUME PoolExact, NEW t \in Tids, stmt[t] # Nil, stmt[t].ph = "got", stmt[t].kind # "scan",
           CallInPool(t), NEW k \in Keys, k = PageOf(stmt[t]), NEW c \in Slots, Injective(c), Modify(t, c)
    PROVE  DirtyInPool' /\ WriterHas'
<1>0. HeapInv /\ TypeOK /\ SlotsApart /\ DirtyInPool /\ WriterHas /\ LockCompatible
  BY DEF PoolExact, PagesOK, HeapInv
<1>1. handle[t].page = pages[k] /\ lockPage[t][k] = pages[k]
  BY DEF CallInPool
<1>2. /\ UNCHANGED <<mapPageLocksByTid, waiting, pages, lockPage, waitPage, handle, disk>>
      /\ \A o \in Objs : o # pages[k] => heap'[k][o] = heap[k][o]
      /\ \A l \in Keys \ {k} : heap'[l] = heap[l]
      /\ \A l \in Keys \ {k} : Dirty(l)' <=> Dirty(l)
  BY <1>0, <1>1, ModifyPool
<1>3. \A l \in Keys : Live(l)' = Live(l) /\ Live(l) \subseteq Objs
  BY <1>2 DEF Live
<1>4. ASSUME NEW l \in Keys, NEW x \in Live(l)', heap'[l][x].dirty PROVE x = pages'[l]
  <2>1. CASE l = k
    BY <1>0, <1>2, <1>3, <1>4, <2>1 DEF DirtyInPool
  <2>2. CASE l # k
    BY <1>0, <1>2, <1>3, <1>4, <2>2 DEF DirtyInPool
  <2> QED
    BY <2>1, <2>2
<1>5. ASSUME NEW u \in Tids, NEW l \in Keys, Writes(u, l)', Dirty(l)'
      PROVE  lockPage'[u][l] = pages'[l]
  <2>1. CASE l # k
    BY <1>0, <1>2, <1>5, <2>1 DEF WriterHas, Writes
  <2>2. CASE l = k
    <3>1. mapPageLocksByTid[t][k] # Nil
      BY <1>0, <1>1, GotInPool
    <3>2. Writes(u, k)
      BY <1>2, <1>5, <2>2 DEF Writes
    <3>3. u = t
      BY <1>0, <3>1, <3>2, OneWriter
    <3> QED
      BY <1>1, <1>2, <2>2, <3>3
  <2> QED
    BY <2>1, <2>2
<1> QED
  BY <1>4, <1>5 DEF DirtyInPool, WriterHas

LEMMA CommitPool ==
    ASSUME PoolExact, HeapInv', NEW t \in Tids, Commit(t)
    PROVE  /\ PoolExact' /\ \A k \in Keys : In(k)' = In(k) /\ pages'[k] = pages[k]
           /\ \A k \in Keys : disk'[k] # Nil <=> disk[k] # Nil
<1>0. HeapInv /\ TypeOK /\ TypeOK' /\ PagesOK /\ DirtyInPool /\ WriterHas /\ DirtyOnDisk
  BY DEF PoolExact, HeapInv
<1> DEFINE h == Cleaned(Flushed(t), lockPage[t])
<1>1. /\ heap' = Collected(h) /\ CommitTransaction(t)
  BY DEF Commit, CommitTransaction
<1>2. \A k \in Flushed(t) : lockPage[t][k] = pages[k]
  <2>1. ASSUME NEW k \in Flushed(t) PROVE lockPage[t][k] = pages[k]
    <3>1. k \in Keys /\ lockPage[t][k] \in Live(k) /\ heap[k][lockPage[t][k]].dirty
      BY <1>0, PointersReach DEF Flushed, Reached
    <3> QED
      BY <1>0, <3>1 DEF DirtyInPool
  <2> QED
    BY <2>1
<1>3. \A k \in Keys : Writes(t, k) /\ Dirty(k) => lockPage[t][k] = pages[k]
  BY <1>0 DEF WriterHas
<1>4. /\ PagesOK'
      /\ \A k \in Keys : /\ In(k)' = In(k) /\ pages'[k] = pages[k]
                         /\ Writes(t, k) => ~ Dirty(k)'
                         /\ ~ Writes(t, k) => (Dirty(k)' <=> Dirty(k))
  BY <1>0, <1>2, <1>3, PagesCommit
<1>5. /\ \A k \in Keys : ~ Writes(t, k)'
      /\ \A u \in Tids \ {t}, k \in Keys : Writes(u, k)' <=> Writes(u, k)
      /\ \A u \in Tids \ {t} : lockPage'[u] = lockPage[u]
  BY <1>0, EndEffect
<1>6. ASSUME NEW k \in Keys, NEW x \in Live(k)', heap'[k][x].dirty PROVE x = pages'[k]
  <2>1. x \in Live(k)
    BY <1>0, <1>1, OthersReach
  <2>2. heap'[k][x] = h[k][x]
    BY <1>1, CollectedKeeps
  <2>3. h[k][x].dirty = IF k \in Flushed(t) /\ x = pages[k] THEN FALSE ELSE heap[k][x].dirty
    BY <1>0, <1>2, <2>1, FlushedObjects
  <2> HIDE DEF h
  <2>4. heap[k][x].dirty
    BY <1>6, <2>2, <2>3
  <2> QED
    BY <1>0, <1>4, <2>1, <2>4 DEF DirtyInPool
<1>7. DirtyInPool'
  BY <1>6 DEF DirtyInPool
<1>8. ASSUME NEW u \in Tids, NEW k \in Keys, Writes(u, k)', Dirty(k)'
      PROVE  lockPage'[u][k] = pages'[k]
  <2>1. u # t /\ Writes(u, k)
    BY <1>5, <1>8
  <2>2. Dirty(k)
    BY <1>4, <1>8
  <2> QED
    BY <1>0, <1>4, <1>5, <2>1, <2>2 DEF WriterHas
<1>9. \A k \in Keys : disk'[k] # Nil <=> disk[k] # Nil
  BY <1>0, <1>1, CommitKeepsFiles
<1> QED
  BY <1>4, <1>7, <1>8, <1>9 DEF PoolExact, WriterHas

LEMMA AbortPool ==
    ASSUME PoolExact, HeapInv', NEW t \in Tids, Abort(t), \A u \in Tids : waiting[u] = Nil
    PROVE  /\ PoolExact' /\ disk' = disk
           /\ \A k \in Keys : pages'[k] # Nil => pages[k] # Nil
<1>0. /\ HeapInv /\ TypeOK /\ TypeOK' /\ PagesOK /\ DirtyInPool /\ WriterHas /\ LockCompatible
      /\ HandlesLocked
  BY DEF PoolExact, HeapInv
<1>1. /\ heap' = Collected(heap) /\ AbortTransaction(t) /\ disk' = disk /\ waiting' = waiting
      /\ lockPage' = [lockPage EXCEPT ![t] = [k \in Keys |-> Nil]]
      /\ handle' = [handle EXCEPT ![t] = Nil]
  BY DEF Abort, AbortTransaction, ClearMap, End
<1>2. /\ PagesOK'
      /\ \A l \in Keys : /\ Writes(t, l) => ~ Dirty(l)' /\ pages'[l] = Nil
                         /\ ~ Writes(t, l) => (Dirty(l)' <=> Dirty(l)) /\ pages'[l] = pages[l]
  BY <1>0, PagesAbort
<1>3. /\ \A k \in Keys : ~ Writes(t, k)'
      /\ \A u \in Tids \ {t}, k \in Keys : Writes(u, k)' <=> Writes(u, k)
      /\ \A u \in Tids \ {t} : lockPage'[u] = lockPage[u] /\ handle'[u] = handle[u]
      /\ handle'[t] = Nil /\ \A k \in Keys : lockPage'[t][k] = Nil
  BY <1>0, <1>1, EndEffect DEF TypeOK
<1>4. ASSUME NEW l \in Keys, Writes(t, l), NEW x \in Live(l)' PROVE FALSE
  <2>0. x \in Objs /\ x # Nil
    BY PageNilAssumption DEF Live
  <2>1. \A u \in Tids \ {t} : mapPageLocksByTid[u][l] = Nil
    BY <1>0, <1>4, OneWriter
  <2>2. \A u \in Tids : lockPage'[u][l] = Nil
    <3>1. \A u \in Tids \ {t} : lockPage[u][l] = Nil
      BY <1>0, <2>1 DEF TypeOK
    <3> QED
      BY <1>3, <3>1
  <2>3. \A u \in Tids : ~ Points(handle'[u], l)
    BY <1>0, <1>3, <2>1 DEF HandlesLocked, Points
  <2> QED
    BY <1>1, <1>2, <1>4, <2>0, <2>2, <2>3 DEF Live, Points
<1>5. ASSUME NEW l \in Keys, NEW x \in Live(l)', heap'[l][x].dirty PROVE x = pages'[l]
  <2>1. x \in Live(l)
    BY <1>0, <1>1, OthersReach
  <2>2. heap'[l][x] = heap[l][x]
    BY <1>1, CollectedKeeps
  <2>3. ~ Writes(t, l)
    BY <1>4
  <2> QED
    BY <1>0, <1>2, <1>5, <2>1, <2>2, <2>3 DEF DirtyInPool
<1>6. DirtyInPool'
  BY <1>5 DEF DirtyInPool
<1>7. ASSUME NEW u \in Tids, NEW l \in Keys, Writes(u, l)', Dirty(l)'
      PROVE  lockPage'[u][l] = pages'[l]
  <2>1. u # t /\ Writes(u, l)
    BY <1>3, <1>7
  <2>2. Dirty(l) /\ pages'[l] = pages[l]
    BY <1>2, <1>7
  <2> QED
    BY <1>0, <1>3, <2>1, <2>2 DEF WriterHas
<1> QED
  BY <1>1, <1>2, <1>6, <1>7 DEF PoolExact, WriterHas

-----------------------------------------------------------------------------
(* The session                                                             *)

\* The pool has no page of a table that the table's file has not.
TablesOnDisk == \A k \in Keys : (k.file \in tabs /\ pages[k] # Nil) => disk[k] # Nil

\* A transaction that is yet to begin has deleted nothing, nor has a load.
FreshTids ==
    /\ \A t \in Tids : t >= nextTid => removed[t] = {}
    /\ Doing({"loadInsert", "loadFlush"}) => removed[cur] = {}

\* The calls that a command makes.
CallOfCmd(c) ==
    /\ c.file = cmd.file
    /\ c.kind = "insert" => cmd.kind \in {"insert", "loadInsert"}
    /\ c.kind = "scan" => cmd.kind \in {"select", "delete", "loadFlush"}
    /\ c.kind = "delete" => cmd.kind = "delete"

\* The scan c of a statement has seen the tuples before its cursor, and no
\* other, in the pages as the session has them.
ScanOf(c) ==
    \A k \in Keys : (k.file = c.file /\ disk[k] # Nil) =>
        /\ k.pageNo < c.i => In(k) \subseteq c.seen
        /\ (k.pageNo > c.i \/ (k.pageNo = c.i /\ c.j = 0)) => In(k) \cap c.seen = {}
        /\ (k.pageNo = c.i /\ c.j > 0) =>
              /\ pages[k] # Nil
              /\ \A s \in Used(PoolData(k)) : PoolData(k)[s] \in c.seen <=> s < c.j
              /\ HasRow(c) => PoolData(k)[c.j - 1] = c.tup

CmdOK ==
    (cmd # Nil /\ stmt[cur] # Nil) =>
        /\ CallOfCmd(stmt[cur])
        /\ CallInPool(cur)
        /\ Doing({"select", "delete"}) => ScanOf(stmt[cur])

ExactSession == PoolExact /\ TablesOnDisk /\ FreshTids /\ CmdOK

\* Nobody but the command calls a heap file, or waits.
LEMMA CommandAlone ==
    ASSUME SessionInv, HeapInv
    PROVE  /\ \A u \in Tids : (stmt[u] # Nil \/ waiting[u] # Nil) => cmd # Nil /\ u = cur
           /\ cmd # Nil => /\ cur \in Tids /\ Alone(cur) /\ cmd.file \in Files /\ cmd.file \in tabs
                           /\ cmd.failed \in BOOLEAN
           /\ (cmd = Nil \/ stmt[cur] = Nil) => \A u \in Tids : stmt[u] = Nil /\ waiting[u] = Nil
<1>1. \A u \in Tids : stmt[u] # Nil => cmd # Nil /\ u = cur
  BY DEF SessionInv, OneCall, cur
<1>2. \A u \in Tids : waiting[u] # Nil => stmt[u] # Nil
  BY DEF HeapInv, CallOK
<1>3. cmd # Nil => cur \in Tids /\ cmd.file \in Files /\ cmd.file \in tabs /\ cmd.failed \in BOOLEAN
  BY DEF SessionInv, SessionTypeOK, Cmd, cur
<1> QED
  BY <1>1, <1>2, <1>3 DEF Alone

LEMMA TablesKept ==
    ASSUME TablesOnDisk, tabs' \subseteq tabs,
           \A k \in Keys : disk[k] # Nil => disk'[k] # Nil,
           \A k \in Keys : pages'[k] # Nil => pages[k] # Nil \/ disk[k] # Nil
    PROVE  TablesOnDisk'
BY DEF TablesOnDisk

LEMMA FreshKept ==
    ASSUME FreshTids, SessionTypeOK, nextTid' \in {nextTid, nextTid + 1},
           \A t \in Tids : removed'[t] \in {removed[t], {}},
           Doing({"loadInsert", "loadFlush"})' =>
              \/ Doing({"loadInsert", "loadFlush"}) /\ cur' = cur /\ cur \in Tids
              \/ cur' = nextTid /\ nextTid \in Tids
    PROVE  FreshTids'
<1>1. nextTid \in Nat /\ Tids \subseteq Nat
  BY TidNumbers
<1>2. \A t \in Tids : t >= nextTid' => removed'[t] = {}
  BY <1>1 DEF FreshTids
<1>3. ASSUME Doing({"loadInsert", "loadFlush"})' PROVE removed'[cur'] = {}
  <2>1. CASE Doing({"loadInsert", "loadFlush"}) /\ cur' = cur /\ cur \in Tids
    BY <2>1 DEF FreshTids
  <2>2. CASE cur' = nextTid /\ nextTid \in Tids
    <3>1. removed[nextTid] = {}
      BY <1>1, <2>2 DEF FreshTids
    <3> QED
      BY <2>2, <3>1
  <2> QED
    BY <1>3, <2>1, <2>2
<1> QED
  BY <1>2, <1>3 DEF FreshTids

\* A step after which no call is under way.
LEMMA NoCall ==
    ASSUME PoolExact', TablesOnDisk', FreshTids', cmd' = Nil \/ stmt'[cmd'.tid] = Nil
    PROVE  ExactSession'
BY DEF ExactSession, CmdOK, cur

LEMMA StillSession ==
    ASSUME PoolExact, UNCHANGED <<below, detached>>
    PROVE  PoolExact'
<1>1. /\ UNCHANGED <<mapPageLocksByTid, waiting, ended, pages, lockPage, waitPage, handle, heap, disk>>
      /\ UNCHANGED <<stmt, unused, added, removed, committed>>
      /\ UNCHANGED vars /\ UNCHANGED <<vars, heapVars>>
  BY DEF below, vars, lockVars, pointers, heapVars
<1>2. HeapInv'
  BY <1>1, HeapStepOK DEF PoolExact
<1>3. /\ \A k \in Keys : In(k)' = In(k) /\ On(k)' = On(k) /\ (Dirty(k)' <=> Dirty(k))
      /\ \A t \in Tids, k \in Keys : Writes(t, k)' <=> Writes(t, k)
  BY <1>1 DEF In, On, Dirty, Writes
<1>4. TuplesOK'
  BY <1>1, <1>3 DEF PoolExact, PagesOK, TuplesOK, ChangesKnown, ChangesMade, PlacesApart, FilesCommitted
<1>5. PendingNowhere' /\ PendingOnce'
  BY <1>1, <1>3 DEF PoolExact, PagesOK, PendingNowhere, PendingOnce, Pending, Inserts
<1>6. SlotsApart'
  BY <1>1 DEF PoolExact, PagesOK, SlotsApart
<1>7. DirtyInPool' /\ WriterHas'
  BY <1>1, StillPool DEF PoolExact
<1> QED
  BY <1>2, <1>4, <1>5, <1>6, <1>7 DEF PoolExact, PagesOK

\* Steps of the shell alone, with no call under way.
LEMMA ShellStep ==
    ASSUME SessionInv, ExactSession, UNCHANGED <<below, detached>>, tabs' \subseteq tabs,
           nextTid' \in {nextTid, nextTid + 1},
           cmd' = Nil \/ (cmd'.tid \in Tids /\ (cmd = Nil \/ stmt[cur] = Nil)),
           Doing({"loadInsert", "loadFlush"})' =>
              Doing({"loadInsert", "loadFlush"}) /\ cur' = cur /\ cur \in Tids
    PROVE  ExactSession'
<1>0. /\ PoolExact /\ HeapInv /\ TablesOnDisk /\ FreshTids /\ SessionTypeOK
      /\ UNCHANGED <<stmt, removed, disk, pages>>
  BY DEF ExactSession, PoolExact, SessionInv, below, vars, pointers
<1>1. PoolExact'
  BY <1>0, StillSession
<1>2. TablesOnDisk'
  BY <1>0, TablesKept
<1>3. FreshTids'
  BY <1>0, FreshKept
<1>4. cmd' = Nil \/ stmt'[cmd'.tid] = Nil
  BY <1>0, CommandAlone
<1> QED
  BY <1>1, <1>2, <1>3, <1>4, NoCall

LEMMA BeginExact ==
    ASSUME SessionInv, ExactSession, Begin, detached' = detached
    PROVE  ExactSession'
<1>1. /\ UNCHANGED <<below, detached>> /\ tabs' = tabs /\ cmd' = Nil /\ nextTid' = nextTid + 1
      /\ ~ Doing({"loadInsert", "loadFlush"})'
  BY DEF Begin, Doing
<1> QED
  BY <1>1, ShellStep

\* Steps that leave the pool and the command alone.
LEMMA StillExact ==
    ASSUME SessionInv, ExactSession, UNCHANGED <<below, detached>>, UNCHANGED <<tabs, nextTid, cmd>>
    PROVE  ExactSession'
<1>1. UNCHANGED <<stmt, removed, disk, pages, heap, waitPage, handle, lockPage>>
  BY DEF below, vars, pointers
<1>2. PoolExact'
  BY <1>1, StillSession DEF ExactSession
<1>3. TablesOnDisk' /\ FreshTids'
  BY <1>1 DEF ExactSession, TablesOnDisk, FreshTids, Doing, cur
<1>4. \A k \in Keys : In(k)' = In(k)
  BY <1>1 DEF In, On
<1>5. ASSUME cmd # Nil, stmt[cur] # Nil
      PROVE  CmdOK'
  <2>0. PageOf(stmt[cur]) \in Keys
    BY <1>5, CommandAlone, CallsPage DEF ExactSession, PoolExact
  <2> QED
    BY <1>1, <1>4, <1>5, <2>0 DEF ExactSession, CmdOK, CallOfCmd, CallInPool, ScanOf, Doing, cur, PoolData, NumPages
<1>6. ~ (cmd # Nil /\ stmt[cur] # Nil) => CmdOK'
  BY <1>1 DEF CmdOK, cur
<1> QED
  BY <1>2, <1>3, <1>5, <1>6 DEF ExactSession

LEMMA SignalExact ==
    ASSUME SessionInv, ExactSession, Signal, detached' = detached
    PROVE  ExactSession'
BY StillExact DEF Signal

LEMMA CountsExact ==
    ASSUME SessionInv, ExactSession, Counts, detached' = detached
    PROVE  ExactSession'
<1>1. /\ UNCHANGED <<below, detached>> /\ tabs' = tabs /\ nextTid' = nextTid
      /\ cmd # Nil /\ stmt[cur] = Nil /\ cmd' = [cmd EXCEPT !.kind = "counted"]
  BY DEF Counts, shell, Doing, Idle
<1>2. cmd \in Cmd
  BY <1>1 DEF SessionInv, SessionTypeOK
<1>3. cmd'.tid = cur /\ cur \in Tids /\ cmd'.kind = "counted"
  BY <1>1, <1>2 DEF Cmd, cur
<1>4. ~ Doing({"loadInsert", "loadFlush"})'
  BY <1>3 DEF Doing
<1> QED
  BY <1>1, <1>3, <1>4, ShellStep

LEMMA CreateExact ==
    ASSUME SessionInv, ExactSession, NEW f \in Files, Create(f), ~ haunted', detached' = detached
    PROVE  ExactSession'
<1>1. /\ UNCHANGED <<below, detached>> /\ UNCHANGED <<nextTid, cmd, disk, pages, removed>>
      /\ cmd' = Nil /\ tabs' = tabs \cup {f}
      /\ PagesOf(f) \cap Cached = {}
  BY DEF Create, below, vars, pointers
<1>2. PoolExact'
  BY <1>1, StillSession DEF ExactSession
<1>3. TablesOnDisk'
  BY <1>1 DEF ExactSession, TablesOnDisk, PagesOf, Cached
<1>4. FreshTids'
  BY <1>1 DEF ExactSession, FreshTids, Doing
<1> QED
  BY <1>1, <1>2, <1>3, <1>4, NoCall

LEMMA LoadExact ==
    ASSUME SessionInv, ExactSession, NEW f \in Files, Load(f), detached' = detached
    PROVE  ExactSession'
<1>1. /\ UNCHANGED <<below, detached>> /\ tabs' = tabs /\ nextTid' = nextTid
      /\ cmd = Nil /\ cmd'.tid = nextTid /\ nextTid \in Tids /\ cmd'.kind = "load"
  BY DEF Load, shell, HaveTid
<1>2. ~ Doing({"loadInsert", "loadFlush"})'
  BY <1>1 DEF Doing
<1> QED
  BY <1>1, <1>2, ShellStep

LEMMA LoadEndsExact ==
    ASSUME SessionInv, ExactSession, LoadEnds, detached' = detached
    PROVE  ExactSession'
<1>1. /\ UNCHANGED <<below, detached>> /\ tabs' = tabs /\ nextTid' = nextTid /\ cmd' = Nil
  BY DEF LoadEnds, shell
<1>2. ~ Doing({"loadInsert", "loadFlush"})'
  BY <1>1 DEF Doing
<1> QED
  BY <1>1, <1>2, ShellStep

\* The end of a transaction.
LEMMA CommitSession ==
    ASSUME SessionInv, ExactSession, NEW t \in Tids, Commit(t), detached' = detached,
           UNCHANGED <<tabs, nextTid>>, cmd = Nil \/ stmt[cur] = Nil,
           cmd' = Nil \/ (cmd # Nil /\ cmd'.tid = cur /\ cmd'.kind = "load")
    PROVE  ExactSession'
<1>0. PoolExact /\ HeapInv /\ TablesOnDisk /\ FreshTids /\ SessionTypeOK /\ detached' \in BOOLEAN
  BY DEF ExactSession, PoolExact, SessionInv, HeapInv, CallsTyped
<1>1. HeapInv'
  BY <1>0, HeapActionOK DEF HeapAction
<1>2. /\ PoolExact'
      /\ \A k \in Keys : pages'[k] = pages[k] /\ (disk'[k] # Nil <=> disk[k] # Nil)
  BY <1>0, <1>1, CommitPool
<1>3. stmt' = stmt /\ removed' = removed
  BY DEF Commit
<1>4. TablesOnDisk'
  BY <1>0, <1>2, TablesKept
<1>5. FreshTids'
  BY <1>0, <1>3, FreshKept DEF Doing
<1>6. cmd' = Nil \/ stmt'[cmd'.tid] = Nil
  BY <1>3
<1> QED
  BY <1>2, <1>4, <1>5, <1>6, NoCall

LEMMA CommitCmdExact ==
    ASSUME SessionInv, ExactSession, CommitCmd, detached' = detached
    PROVE  ExactSession'
<1>1. tx \in Tids /\ Commit(tx) /\ UNCHANGED <<tabs, nextTid>> /\ cmd = Nil /\ cmd' = Nil
  BY DEF CommitCmd, SessionInv, SessionTypeOK
<1> QED
  BY <1>1, CommitSession

LEMMA LoadCommitExact ==
    ASSUME SessionInv, ExactSession, LoadCommit, detached' = detached
    PROVE  ExactSession'
<1>1. /\ cmd # Nil /\ stmt[cur] = Nil /\ Commit(cur) /\ UNCHANGED <<tabs, nextTid>>
      /\ cmd' = [cmd EXCEPT !.kind = "load"]
  BY DEF LoadCommit, shell, Idle
<1>2. cmd \in Cmd
  BY <1>1 DEF SessionInv, SessionTypeOK
<1>3. cmd'.tid = cur /\ cmd'.kind = "load" /\ cur \in Tids
  BY <1>1, <1>2 DEF Cmd, cur
<1> QED
  BY <1>1, <1>3, CommitSession

LEMMA FinishExact ==
    ASSUME SessionInv, ExactSession, Finish, detached' = detached
    PROVE  ExactSession'
<1>1. /\ cmd # Nil /\ stmt[cur] = Nil /\ UNCHANGED <<tabs, nextTid>> /\ cmd' = Nil
      /\ Commit(cur) \/ UNCHANGED below
  BY DEF Finish, shell, Idle
<1>2. cur \in Tids /\ ~ Doing({"loadInsert", "loadFlush"})'
  BY <1>1 DEF SessionInv, SessionTypeOK, Cmd, cur, Doing
<1>3. CASE Commit(cur)
  BY <1>1, <1>2, <1>3, CommitSession
<1>4. CASE UNCHANGED below
  BY <1>1, <1>2, <1>4, ShellStep
<1> QED
  BY <1>1, <1>3, <1>4

LEMMA AbortCmdExact ==
    ASSUME SessionInv, ExactSession, AbortCmd, detached' = detached
    PROVE  ExactSession'
<1>0. PoolExact /\ HeapInv /\ TablesOnDisk /\ FreshTids /\ SessionTypeOK /\ detached' \in BOOLEAN
  BY DEF ExactSession, PoolExact, SessionInv, HeapInv, CallsTyped
<1>1. /\ tx \in Tids /\ Abort(tx) /\ UNCHANGED <<tabs, nextTid>> /\ cmd = Nil /\ cmd' = Nil
      /\ removed' = removed
  BY DEF AbortCmd, SessionInv, SessionTypeOK, Abort
<1>2. HeapInv'
  BY <1>0, <1>1, HeapActionOK DEF HeapAction
<1>3. \A u \in Tids : waiting[u] = Nil
  BY <1>0, <1>1, CommandAlone
<1>4. PoolExact' /\ disk' = disk /\ \A k \in Keys : pages'[k] # Nil => pages[k] # Nil
  BY <1>0, <1>1, <1>2, <1>3, AbortPool
<1>5. TablesOnDisk'
  BY <1>0, <1>1, <1>4, TablesKept
<1>6. FreshTids'
  BY <1>0, <1>1, FreshKept DEF Doing
<1> QED
  BY <1>1, <1>4, <1>5, <1>6, NoCall

\* A step of the iterator: only the call changes.
LEMMA CallStep ==
    ASSUME ExactSession, HeapInv', FreshTids', NEW t \in Tids, NEW d,
           UNCHANGED <<vars, unused, added, removed, committed, tabs>>,
           stmt' = [stmt EXCEPT ![t] = d],
           cmd' # Nil => cmd'.tid = t,
           (d # Nil /\ cmd' # Nil) => /\ d.file = cmd'.file
                                      /\ d.kind = "scan" => cmd'.kind \in {"select", "delete", "loadFlush"}
                                      /\ d.kind = "delete" => cmd'.kind = "delete"
                                      /\ cmd'.kind \in {"select", "delete"} => ScanOf(d),
           d # Nil => d.kind # "insert" /\ d.ph \in {"get", "row"}
    PROVE  ExactSession'
<1>0. /\ PoolExact /\ HeapInv /\ PagesOK /\ DirtyInPool /\ WriterHas /\ TablesOnDisk
      /\ LockCompatible' /\ stmt \in [Tids -> InsertCall \cup ScanCall \cup {Nil}]
  BY DEF ExactSession, PoolExact, HeapInv, CallsTyped
<1>1. /\ UNCHANGED <<pages, disk, heap>>
      /\ stmt'[t] = d /\ \A u \in Tids \ {t} : stmt'[u] = stmt[u]
  BY <1>0 DEF vars, pointers
<1>2. \A u \in Tids : \A x \in Tuples : Inserts(u, x)' => Inserts(u, x)
  BY <1>1 DEF Inserts
<1>3. PagesOK' /\ \A k \in Keys : In(k)' = In(k)
  BY <1>0, <1>2, PagesStmtOnly
<1>4. PoolExact'
  BY <1>0, <1>3, StillPool DEF PoolExact
<1>5. TablesOnDisk'
  BY <1>0, <1>1, TablesKept
<1>6. ASSUME cmd' # Nil, stmt'[cmd'.tid] # Nil
      PROVE  CallOfCmd(stmt[cur])' /\ CallInPool(cur)' /\ (Doing({"select", "delete"})' => ScanOf(stmt[cur])')
  <2>1. cur' = t /\ stmt'[cur'] = d /\ d # Nil
    BY <1>1, <1>6 DEF cur
  <2>2. CallOfCmd(stmt[cur])'
    BY <1>6, <2>1 DEF CallOfCmd
  <2>3. CallInPool(cur)'
    BY <2>1 DEF CallInPool
  <2>4. ASSUME Doing({"select", "delete"})' PROVE ScanOf(stmt[cur])'
    <3>1. ScanOf(d)
      BY <1>6, <2>1, <2>4 DEF Doing
    <3> QED
      BY <1>1, <1>3, <2>1, <3>1 DEF ScanOf, PoolData
  <2> QED
    BY <2>2, <2>3, <2>4
<1> QED
  BY <1>4, <1>5, <1>6 DEF ExactSession, CmdOK, cur

LEMMA ScanBegins ==
    ASSUME SessionInv, ExactSession, FreshTids', NEW t \in Tids, NEW f \in Files, StartScan(t, f),
           detached' = detached, tabs' = tabs, cmd'.tid = t, cmd'.file = f,
           cmd'.kind \in {"select", "delete", "loadFlush"}
    PROVE  ExactSession'
<1> DEFINE d == [kind |-> "scan", ph |-> "get", file |-> f, tup |-> Nil, i |-> 0, j |-> 0,
                 n |-> NumPages(f), seen |-> {}]
<1>0. HeapInv /\ detached' \in BOOLEAN
  BY DEF ExactSession, PoolExact, HeapInv, CallsTyped
<1>1. /\ UNCHANGED <<vars, unused, added, removed, committed, tabs>>
      /\ stmt' = [stmt EXCEPT ![t] = d]
  BY DEF StartScan
<1>2. HeapInv'
  BY <1>0, HeapActionOK DEF HeapAction, Quiet
<1>3. /\ d.kind = "scan" /\ d.ph = "get" /\ d.file = f /\ d.i = 0 /\ d.j = 0 /\ d.seen = {}
  OBVIOUS
<1> HIDE DEF d
<1>4. ScanOf(d)
  <2>1. \A k \in Keys : ~ k.pageNo < 0
    BY MaxPagesAssumption DEF Keys
  <2> QED
    BY <1>3, <2>1 DEF ScanOf
<1> QED
  BY <1>1, <1>2, <1>3, <1>4, CallStep

LEMMA StatementExact ==
    ASSUME SessionInv, SessionInv', ExactSession, NEW f \in Files,
           NEW kind \in {"select", "insert", "delete"}, NEW rows \in 0 .. MaxRows,
           Statement(kind, f, rows), detached' = detached
    PROVE  ExactSession'
<1>1. /\ cmd = Nil /\ tabs' = tabs /\ nextTid' \in {nextTid, nextTid + 1}
      /\ cmd'.kind = kind /\ cmd'.file = f
      /\ UNCHANGED below \/ (kind # "insert" /\ StartScan(cmd'.tid, f))
  BY DEF Statement
<1>2. ~ Doing({"loadInsert", "loadFlush"})'
  BY <1>1 DEF Doing
<1>3. cmd' # Nil => cmd'.tid \in Tids
  BY DEF SessionInv, SessionTypeOK, Cmd
<1>4. CASE UNCHANGED below
  BY <1>1, <1>2, <1>3, <1>4, ShellStep
<1>5. CASE kind # "insert" /\ StartScan(cmd'.tid, f)
  <2>0. FreshTids /\ SessionTypeOK
    BY DEF ExactSession, SessionInv
  <2>1. FreshTids'
    <3>1. removed' = removed
      BY <1>5 DEF StartScan
    <3> QED
      BY <1>1, <1>2, <2>0, <3>1, FreshKept
  <2>2. cmd' # Nil
    <3>1. cmd' \in Cmd
      <4>1. (IF tx = Nil THEN nextTid ELSE tx) \in Tids
        BY DEF Statement, SessionInv, SessionTypeOK, HaveTid
      <4> QED
        BY <4>1 DEF Statement, Cmd
    <3> QED
      BY <3>1, CmdNilAssumption
  <2>3. PICK t \in Tids : t = cmd'.tid
    BY <1>3, <2>2
  <2> QED
    BY <1>1, <1>5, <2>1, <2>3, ScanBegins
<1> QED
  BY <1>1, <1>4, <1>5

LEMMA LoadInsertedExact ==
    ASSUME SessionInv, SessionInv', ExactSession, LoadInserted, detached' = detached
    PROVE  ExactSession'
<1>0. FreshTids /\ SessionTypeOK
  BY DEF ExactSession, SessionInv
<1>1. /\ cmd # Nil /\ stmt[cur] = Nil /\ tabs' = tabs /\ nextTid' = nextTid
      /\ Doing({"loadInsert", "loadFlush"})
      /\ cmd' = [cmd EXCEPT !.kind = "loadFlush"]
      /\ UNCHANGED below \/ StartScan(cur, cmd.file)
  BY DEF LoadInserted, shell, Idle, Doing
<1>2. cmd \in Cmd
  BY <1>1 DEF SessionInv, SessionTypeOK
<1>3. cmd'.tid = cur /\ cmd'.kind = "loadFlush" /\ cmd'.file = cmd.file /\ cur \in Tids /\ cur' = cur
      /\ cmd.file \in Files
  BY <1>1, <1>2 DEF Cmd, cur
<1>4. CASE UNCHANGED below
  BY <1>1, <1>3, <1>4, ShellStep
<1>5. CASE StartScan(cur, cmd.file)
  <2>1. removed' = removed
    BY <1>5 DEF StartScan
  <2>2. FreshTids'
    BY <1>0, <1>1, <1>3, <2>1, FreshKept
  <2> QED
    BY <1>1, <1>3, <1>5, <2>2, ScanBegins
<1> QED
  BY <1>1, <1>4, <1>5

\* A step of insertTuple that may add a page to the file: the page is new to
\* the pool, too.
LEMMA GrowStep ==
    ASSUME ExactSession, HeapInv', FreshTids', NEW t \in Tids, Grows(t), NEW f \in Files, f \in tabs,
           NEW d, stmt'[t] = d, d.kind = "insert", d.ph = "get", d.file = f,
           IF d.new THEN Append(f) /\ d.i = NumPages(f) ELSE disk' = disk /\ d.n = NumPages(f),
           tabs' = tabs, cmd'.tid = t, cmd'.file = f, cmd'.kind \in {"insert", "loadInsert"}
    PROVE  ExactSession'
<1>0. PoolExact /\ HeapInv /\ TypeOK /\ FilesContiguous /\ TablesOnDisk
  BY DEF ExactSession, PoolExact, HeapInv
<1>1. ASSUME Append(f)
      PROVE  /\ Key(f, NumPages(f)) \in Keys /\ disk[Key(f, NumPages(f))] = Nil
             /\ \A k \in Keys : k # Key(f, NumPages(f)) => disk'[k] = disk[k]
             /\ pages[Key(f, NumPages(f))] = Nil
  <2>1. /\ Key(f, NumPages(f)) \in Keys /\ disk[Key(f, NumPages(f))] = Nil
        /\ \A k \in Keys : k # Key(f, NumPages(f)) => disk'[k] = disk[k]
    BY <1>0, <1>1, AppendGrows
  <2>2. Key(f, NumPages(f)).file = f
    BY DEF Key
  <2> QED
    BY <1>0, <2>1, <2>2 DEF TablesOnDisk
<1>2. \A k \in Keys : /\ pages[k] # Nil /\ disk'[k] # Nil => disk[k] # Nil
                      /\ disk[k] # Nil => disk'[k] # Nil
  BY <1>1
<1>3. PoolExact' /\ \A k \in Keys : In(k)' = In(k) /\ pages'[k] = pages[k]
  BY <1>0, <1>2, GrowsPool
<1>4. TablesOnDisk'
  BY <1>0, <1>2, <1>3, TablesKept
<1>5. CallInPool(t)'
  <2>1. CASE d.new
    <3>1. PICK k \in Keys : k = Key(f, NumPages(f))
      BY <1>1, <2>1
    <3>2. In(k) = {}
      BY <1>1, <2>1, <3>1 DEF In, On
    <3>3. PageOf(stmt[t])' = k
      BY <2>1, <3>1 DEF PageOf, Key
    <3> QED
      BY <1>3, <2>1, <3>2, <3>3 DEF CallInPool
  <2>2. CASE ~ d.new
    <3>1. NumPages(stmt[t].file)' = d.n
      BY <2>2 DEF NumPages
    <3> QED
      BY <2>2, <3>1 DEF CallInPool
  <2> QED
    BY <2>1, <2>2
<1>6. /\ cur' = t /\ stmt'[cur'] = d /\ ~ Doing({"select", "delete"})'
      /\ CallOfCmd(stmt[cur])'
  <2>1. cur' = t
    BY DEF cur
  <2> QED
    BY <2>1 DEF Doing, CallOfCmd
<1>7. CmdOK'
  BY <1>5, <1>6 DEF CmdOK, CallInPool
<1> QED
  BY <1>3, <1>4, <1>7 DEF ExactSession

LEMMA InsertBegins ==
    ASSUME SessionInv, ExactSession, FreshTids', NEW t \in Tids, NEW f \in Files, f \in tabs,
           NEW x \in Tuples, StartInsert(t, f, x), detached' = detached,
           tabs' = tabs, cmd'.tid = t, cmd'.file = f, cmd'.kind \in {"insert", "loadInsert"}
    PROVE  ExactSession'
<1> DEFINE d == [kind |-> "insert", ph |-> "get", file |-> f, tup |-> x, i |-> 0,
                 n |-> NumPages(f), new |-> NumPages(f) = 0]
<1>0. HeapInv /\ detached' \in BOOLEAN /\ t \in DOMAIN stmt
  BY DEF ExactSession, PoolExact, HeapInv, CallsTyped
<1>1. Grows(t)
  BY DEF Grows
<1>2. HeapInv'
  BY <1>0, <1>1, HeapActionOK DEF HeapAction
<1>3. stmt'[t] = d /\ IF NumPages(f) = 0 THEN Append(f) ELSE disk' = disk
  BY <1>0 DEF StartInsert
<1>4. /\ d.kind = "insert" /\ d.ph = "get" /\ d.file = f /\ d.i = 0 /\ d.n = NumPages(f)
      /\ d.new <=> NumPages(f) = 0
  OBVIOUS
<1> HIDE DEF d
<1> QED
  BY <1>1, <1>2, <1>3, <1>4, GrowStep

LEMMA InsertRowExact ==
    ASSUME SessionInv, ExactSession, InsertRow, detached' = detached
    PROVE  ExactSession'
<1>0. FreshTids /\ SessionTypeOK /\ HeapInv /\ unused \in SUBSET Tuples
  BY DEF ExactSession, SessionInv, PoolExact, HeapInv, CallsTyped
<1>1. /\ cmd # Nil /\ cmd.kind = "insert" /\ tabs' = tabs /\ nextTid' = nextTid
      /\ StartInsert(cur, cmd.file, NextTuple) /\ unused # {}
      /\ cmd' = [cmd EXCEPT !.rows = cmd.rows - 1]
  BY DEF InsertRow, shell, Doing
<1>2. cmd \in Cmd /\ cmd.file \in tabs
  BY <1>1 DEF SessionInv, SessionTypeOK
<1>3. /\ cmd'.tid = cur /\ cmd'.kind = "insert" /\ cmd'.file = cmd.file
      /\ cur \in Tids /\ cmd.file \in Files
  BY <1>1, <1>2 DEF Cmd, cur
<1>4. NextTuple \in Tuples
  BY <1>0, <1>1 DEF NextTuple
<1>5. removed' = removed
  BY <1>1 DEF StartInsert
<1>6. FreshTids'
  BY <1>0, <1>1, <1>3, <1>5, FreshKept DEF Doing
<1> QED
  BY <1>1, <1>2, <1>3, <1>4, <1>6, InsertBegins

LEMMA LoadLineExact ==
    ASSUME SessionInv, ExactSession, LoadLine, detached' = detached
    PROVE  ExactSession'
<1>0. FreshTids /\ SessionTypeOK /\ HeapInv /\ unused \in SUBSET Tuples
  BY DEF ExactSession, SessionInv, PoolExact, HeapInv, CallsTyped
<1>1. /\ cmd # Nil /\ tabs' = tabs /\ nextTid' = nextTid + 1 /\ nextTid \in Tids
      /\ StartInsert(nextTid, cmd.file, NextTuple) /\ unused # {}
      /\ cmd' = [cmd EXCEPT !.kind = "loadInsert", !.tid = nextTid, !.failed = FALSE]
  BY DEF LoadLine, HaveTid, Doing
<1>2. cmd \in Cmd /\ cmd.file \in tabs
  BY <1>1 DEF SessionInv, SessionTypeOK
<1>3. /\ cmd'.tid = nextTid /\ cmd'.kind = "loadInsert" /\ cmd'.file = cmd.file
      /\ cmd.file \in Files
  BY <1>1, <1>2 DEF Cmd
<1>4. NextTuple \in Tuples
  BY <1>0, <1>1 DEF NextTuple
<1>5. removed' = removed /\ cur' = nextTid
  BY <1>1, <1>3 DEF StartInsert, cur
<1>6. FreshTids'
  BY <1>0, <1>1, <1>5, FreshKept
<1> QED
  BY <1>1, <1>2, <1>3, <1>4, <1>6, InsertBegins

\* A step of GetPage keeps the cursor of a scan, and the page it is on.
LEMMA GetScan ==
    ASSUME HeapInv, NEW t \in Tids, stmt[t] # Nil, Answered(t), stmt'[t] # Nil,
           stmt[t].kind # "insert", ScanOf(stmt[t]), disk' = disk,
           \A l \in Keys : In(l)' = In(l),
           \A k \in Keys : (k = PageOf(stmt[t]) /\ pages[k] # Nil) =>
              pages'[k] = pages[k] /\ PoolData(k)' = PoolData(k)
    PROVE  ScanOf(stmt[t])'
<1>1. /\ stmt'[t].kind = stmt[t].kind /\ stmt'[t].file = stmt[t].file
      /\ stmt'[t].i = stmt[t].i /\ stmt'[t].tup = stmt[t].tup
      /\ stmt'[t].j = stmt[t].j /\ stmt'[t].seen = stmt[t].seen
      /\ stmt'[t].ph \in {"asleep", "got"}
  BY AnsweredCall
<1>2. HasRow(stmt[t])' => HasRow(stmt[t])
  BY <1>1 DEF HasRow
<1>3. ASSUME NEW k \in Keys, k.file = stmt[t].file, disk[k] # Nil, k.pageNo = stmt[t].i, stmt[t].j > 0
      PROVE  /\ pages'[k] # Nil
             /\ \A s \in Used(PoolData(k)') : PoolData(k)'[s] \in stmt[t].seen <=> s < stmt[t].j
             /\ HasRow(stmt[t])' => PoolData(k)'[stmt[t].j - 1] = stmt[t].tup
  <2>1. k = PageOf(stmt[t])
    BY <1>3 DEF PageOf, Key, Keys
  <2>2. /\ pages[k] # Nil
        /\ \A s \in Used(PoolData(k)) : PoolData(k)[s] \in stmt[t].seen <=> s < stmt[t].j
        /\ HasRow(stmt[t]) => PoolData(k)[stmt[t].j - 1] = stmt[t].tup
    BY <1>3 DEF ScanOf
  <2>3. pages'[k] = pages[k] /\ PoolData(k)' = PoolData(k)
    BY <2>1, <2>2
  <2> QED
    BY <1>2, <2>2, <2>3
<1>4. ASSUME NEW k \in Keys, k.file = stmt[t].file, disk[k] # Nil
      PROVE  /\ k.pageNo < stmt[t].i => In(k) \subseteq stmt[t].seen
             /\ (k.pageNo > stmt[t].i \/ (k.pageNo = stmt[t].i /\ stmt[t].j = 0)) =>
                   In(k) \cap stmt[t].seen = {}
  BY <1>4 DEF ScanOf
<1> QED
  BY <1>1, <1>3, <1>4 DEF ScanOf

LEMMA GetStepExact ==
    ASSUME SessionInv, ExactSession, GetStep, detached' = detached
    PROVE  ExactSession'
<1>0. /\ PoolExact /\ HeapInv /\ TablesOnDisk /\ FreshTids /\ SessionTypeOK /\ CmdOK
      /\ detached' \in BOOLEAN
  BY DEF ExactSession, PoolExact, SessionInv, HeapInv, CallsTyped
<1>1. /\ cmd # Nil
      /\ CallGetPage(cur) \/ Awake(cur)
      /\ cmd' = [cmd EXCEPT !.failed = stmt'[cur] = Nil /\ stmt[cur].kind # "scan"]
      /\ UNCHANGED <<tabs, nextTid>>
  BY DEF GetStep, shell
<1>2. cmd \in Cmd
  BY <1>1 DEF SessionInv, SessionTypeOK
<1>3. PICK t \in Tids : t = cur
  BY <1>2 DEF Cmd, cur
<1>4. cmd'.tid = t /\ cmd'.kind = cmd.kind /\ cmd'.file = cmd.file
  BY <1>1, <1>2, <1>3 DEF Cmd, cur
<1>5. CallGetPage(t) \/ Awake(t)
  BY <1>1, <1>3
<1>6. HeapInv'
  BY <1>0, <1>5, HeapActionOK DEF HeapAction
<1>7. stmt[t] # Nil /\ stmt[t].ph \in {"get", "asleep"} /\ Answered(t)
  BY <1>0, <1>5, HeapGets
<1>8. /\ CallOfCmd(stmt[t]) /\ CallInPool(t)
      /\ cmd.kind \in {"select", "delete"} => ScanOf(stmt[t])
  BY <1>0, <1>1, <1>3, <1>7 DEF CmdOK, Doing
<1>9. Alone(t)
  BY <1>0, <1>1, <1>3, CommandAlone
<1>10. /\ PoolExact' /\ disk' = disk
       /\ \A l \in Keys : pages'[l] # Nil => pages[l] # Nil \/ disk[l] # Nil
       /\ stmt'[t] # Nil =>
            /\ CallInPool(t)'
            /\ \A l \in Keys : In(l)' = In(l)
            /\ \A k \in Keys : (k = PageOf(stmt[t]) /\ pages[k] # Nil) =>
                  pages'[k] = pages[k] /\ PoolData(k)' = PoolData(k)
  BY <1>0, <1>5, <1>6, <1>8, <1>9, GetPool
<1>11. TablesOnDisk'
  BY <1>0, <1>1, <1>10, TablesKept
<1>12. \A u \in Tids : removed'[u] \in {removed[u], {}}
  BY <1>0, <1>7, AnsweredHistory
<1>13. cur' = t
  BY <1>4 DEF cur
<1>14. FreshTids'
  BY <1>0, <1>1, <1>3, <1>4, <1>12, <1>13, FreshKept DEF Doing
<1>15. ASSUME stmt'[t] # Nil
       PROVE  CallOfCmd(stmt[cur])' /\ CallInPool(cur)' /\ (Doing({"select", "delete"})' => ScanOf(stmt[cur])')
  <2>1. stmt'[t].kind = stmt[t].kind /\ stmt'[t].file = stmt[t].file
    BY <1>0, <1>7, <1>15, AnsweredCall
  <2>2. CallOfCmd(stmt[cur])'
    BY <1>4, <1>8, <1>13, <2>1 DEF CallOfCmd
  <2>3. CallInPool(cur)'
    BY <1>10, <1>13, <1>15 DEF CallInPool
  <2>4. ASSUME Doing({"select", "delete"})' PROVE ScanOf(stmt[t])'
    <3>1. cmd.kind \in {"select", "delete"}
      BY <1>4, <2>4 DEF Doing
    <3>2. stmt[t].kind # "insert" /\ ScanOf(stmt[t])
      BY <1>8, <3>1 DEF CallOfCmd
    <3> QED
      BY <1>0, <1>7, <1>10, <1>15, <3>2, GetScan
  <2> QED
    BY <1>13, <2>2, <2>3, <2>4 DEF ScanOf
<1>16. CmdOK'
  BY <1>13, <1>15 DEF CmdOK
<1> QED
  BY <1>10, <1>11, <1>14, <1>16 DEF ExactSession

\* The call of the command.
LEMMA CallKnown ==
    ASSUME SessionInv, ExactSession, NEW t \in Tids, cmd # Nil, t = cur, stmt[t] # Nil
    PROVE  /\ CallOfCmd(stmt[t]) /\ CallInPool(t)
           /\ cmd.kind \in {"select", "delete"} => ScanOf(stmt[t])
           /\ HeapInv /\ FreshTids /\ SlotsApart /\ PlacesApart
           /\ cmd.file \in Files /\ cmd.file \in tabs
BY DEF ExactSession, PoolExact, PagesOK, TuplesOK, CmdOK, Doing, SessionInv, SessionTypeOK, Cmd

LEMMA SameTids ==
    ASSUME SessionInv, FreshTids, UNCHANGED <<cmd, nextTid, removed>>
    PROVE  FreshTids'
BY DEF FreshTids, Doing, cur

\* What the scan of a statement has seen of the page it has got.
LEMMA SeenOfPage ==
    ASSUME HeapInv, SlotsApart, NEW t \in Tids, stmt[t] # Nil, stmt[t].ph = "got",
           stmt[t].kind # "insert", CallInPool(t), ScanOf(stmt[t]),
           NEW q \in Keys, q = PageOf(stmt[t])
    PROVE  /\ pages[q] # Nil /\ disk[q] # Nil
           /\ Data(t) = PoolData(q) /\ Data(t) \in Slots /\ Injective(Data(t)) /\ In(q) = TuplesOf(Data(t))
           /\ \A s \in Used(Data(t)) : Data(t)[s] \in stmt[t].seen <=> s < stmt[t].j
<1>1. handle[t].page = pages[q]
  BY DEF CallInPool
<1>2. /\ pages[q] # Nil /\ disk[q] # Nil
      /\ Data(t) = PoolData(q) /\ Data(t) \in Slots /\ Injective(Data(t)) /\ In(q) = TuplesOf(Data(t))
  BY <1>1, GotInPool DEF PoolData
<1>3. q.file = stmt[t].file /\ q.pageNo = stmt[t].i
  BY DEF PageOf, Key
<1>4. stmt[t].j \in Nat
  BY CallFacts, SlotsAssumption DEF ScanCall
<1>5. ASSUME NEW s \in Used(Data(t)) PROVE Data(t)[s] \in stmt[t].seen <=> s < stmt[t].j
  <2>1. CASE stmt[t].j > 0
    BY <1>2, <1>3, <1>5, <2>1 DEF ScanOf
  <2>2. CASE stmt[t].j = 0
    <3>1. In(q) \cap stmt[t].seen = {}
      BY <1>2, <1>3, <2>2 DEF ScanOf
    <3>2. Data(t)[s] \in In(q)
      BY <1>2, <1>5 DEF TuplesOf
    <3>3. s \in Nat
      BY <1>5, SlotsAssumption DEF Used, SlotNos
    <3> QED
      BY <2>2, <3>1, <3>2, <3>3
  <2> QED
    BY <1>4, <2>1, <2>2
<1> QED
  BY <1>2, <1>5

LEMMA RowExact ==
    ASSUME SessionInv, ExactSession, HeapInv', NEW t \in Tids, cmd # Nil, t = cur,
           UNCHANGED <<cmd, tabs, nextTid>>, ScanRow(t), cmd.kind # "loadFlush"
    PROVE  ExactSession'
<1> DEFINE c == stmt[t]
           r == First(Ahead(t))
           x == Data(t)[r]
           d == [c EXCEPT !.ph = "row", !.tup = x, !.j = r + 1, !.seen = c.seen \cup {x}]
<1>1. /\ c # Nil /\ c.kind = "scan" /\ c.ph = "got" /\ Ahead(t) # {}
      /\ stmt' = [stmt EXCEPT ![t] = d]
      /\ UNCHANGED <<vars, unused, added, removed, committed>>
  BY DEF ScanRow, InPhase
<1>2. /\ CallOfCmd(c) /\ CallInPool(t) /\ HeapInv /\ FreshTids /\ SlotsApart /\ PlacesApart
      /\ cmd.kind \in {"select", "delete"} => ScanOf(c)
  BY <1>1, CallKnown
<1>3. cmd.kind \in {"select", "delete"} /\ c.file = cmd.file /\ ScanOf(c)
  BY <1>1, <1>2 DEF CallOfCmd
<1>4. c \in ScanCall /\ PageOf(c) \in Keys
  BY <1>1, <1>2, CallFacts, CallsPage
<1>5. PICK q \in Keys : q = PageOf(c)
  BY <1>4
<1>6. /\ pages[q] # Nil /\ disk[q] # Nil
      /\ Data(t) = PoolData(q) /\ Data(t) \in Slots /\ Injective(Data(t)) /\ In(q) = TuplesOf(Data(t))
      /\ \A s \in Used(Data(t)) : Data(t)[s] \in c.seen <=> s < c.j
  BY <1>1, <1>2, <1>3, <1>5, SeenOfPage
<1>7. Ahead(t) \in SUBSET SlotNos
  BY DEF Ahead, Used
<1>8. r \in Ahead(t) /\ \A s \in Ahead(t) : r <= s
  BY <1>1, <1>7, FirstSlot
<1> HIDE DEF r
<1>9. r \in Used(Data(t)) /\ r >= c.j /\ r \in Nat
  BY <1>8, SlotsAssumption DEF Ahead, Used, SlotNos
<1>10. \A s \in Used(Data(t)) : s \in Nat /\ (s >= c.j => r <= s)
  BY <1>8, SlotsAssumption DEF Ahead, Used, SlotNos
<1>11. x \in In(q)
  BY <1>6, <1>9 DEF TuplesOf
<1>12. c.i \in Nat /\ c.j \in Nat
  BY <1>4, SlotsAssumption DEF ScanCall
<1>13. q.file = c.file /\ q.pageNo = c.i
  BY <1>5 DEF PageOf, Key
<1>14. \A s \in Used(Data(t)) : Data(t)[s] \in c.seen \cup {x} <=> s < r + 1
  <2>1. ASSUME NEW s \in Used(Data(t)) PROVE Data(t)[s] \in c.seen \cup {x} <=> s < r + 1
    <3>1. Data(t)[s] = x <=> s = r
      BY <1>6, <1>9, <2>1 DEF Injective
    <3>2. s \in Nat /\ (s >= c.j => r <= s)
      BY <1>10, <2>1
    <3>3. (s < c.j \/ s = r) <=> s < r + 1
      BY <1>9, <1>12, <3>2
    <3> QED
      BY <1>6, <2>1, <3>1, <3>3
  <2> QED
    BY <2>1
<1>15. x = PoolData(q)[r] /\ (r + 1) - 1 = r /\ r + 1 > 0
  BY <1>6, <1>9
<1> HIDE DEF x
<1>16. /\ d.kind = "scan" /\ d.ph = "row" /\ d.file = c.file /\ d.i = c.i /\ d.tup = x /\ d.j = r + 1
       /\ d.seen = c.seen \cup {x}
  BY <1>1, <1>4 DEF ScanCall
<1> HIDE DEF c, d
<1>17. ASSUME NEW k \in Keys, k.file = d.file, disk[k] # Nil
       PROVE  /\ k.pageNo < d.i => In(k) \subseteq d.seen
              /\ (k.pageNo > d.i \/ (k.pageNo = d.i /\ d.j = 0)) => In(k) \cap d.seen = {}
              /\ (k.pageNo = d.i /\ d.j > 0) =>
                    /\ pages[k] # Nil
                    /\ \A s \in Used(PoolData(k)) : PoolData(k)[s] \in d.seen <=> s < d.j
                    /\ HasRow(d) => PoolData(k)[d.j - 1] = d.tup
  <2>1. CASE k = q
    BY <1>6, <1>9, <1>12, <1>13, <1>14, <1>15, <1>16, <2>1
  <2>2. CASE k # q
    <3>1. k.pageNo # d.i
      BY <1>13, <1>16, <1>17, <2>2 DEF Keys
    <3>2. x \notin In(k)
      BY <1>2, <1>11, <2>2 DEF PlacesApart
    <3>3. k.pageNo < c.i => In(k) \subseteq c.seen
      BY <1>3, <1>16, <1>17 DEF ScanOf
    <3>4. k.pageNo > c.i => In(k) \cap c.seen = {}
      BY <1>3, <1>16, <1>17 DEF ScanOf
    <3> QED
      BY <1>16, <3>1, <3>2, <3>3, <3>4
  <2> QED
    BY <2>1, <2>2
<1>18. ScanOf(d)
  BY <1>17 DEF ScanOf
<1>19. FreshTids'
  BY <1>1, <1>2, SameTids
<1>20. cmd'.tid = t /\ cmd' = cmd
  BY DEF cur
<1> QED
  BY <1>1, <1>3, <1>16, <1>18, <1>19, <1>20, CallStep

LEMMA PageDoneExact ==
    ASSUME SessionInv, ExactSession, HeapInv', NEW t \in Tids, cmd # Nil, t = cur,
           UNCHANGED <<cmd, tabs, nextTid>>, ScanPageDone(t), cmd.kind # "loadFlush"
    PROVE  ExactSession'
<1> DEFINE c == stmt[t]
           d == [c EXCEPT !.ph = "get", !.i = c.i + 1, !.j = 0]
<1>1. /\ c # Nil /\ c.kind = "scan" /\ c.ph = "got" /\ Ahead(t) = {}
      /\ stmt' = [stmt EXCEPT ![t] = d] \/ stmt' = [stmt EXCEPT ![t] = Nil]
      /\ UNCHANGED <<vars, unused, added, removed, committed>>
  BY DEF ScanPageDone, InPhase
<1>2. /\ CallOfCmd(c) /\ CallInPool(t) /\ HeapInv /\ FreshTids /\ SlotsApart
      /\ cmd.kind \in {"select", "delete"} => ScanOf(c)
  BY <1>1, CallKnown
<1>3. cmd.kind \in {"select", "delete"} /\ c.file = cmd.file /\ ScanOf(c)
  BY <1>1, <1>2 DEF CallOfCmd
<1>4. c \in ScanCall /\ PageOf(c) \in Keys
  BY <1>1, <1>2, CallFacts, CallsPage
<1>5. PICK q \in Keys : q = PageOf(c)
  BY <1>4
<1>6. /\ In(q) = TuplesOf(Data(t))
      /\ \A s \in Used(Data(t)) : Data(t)[s] \in c.seen <=> s < c.j
  BY <1>1, <1>2, <1>3, <1>5, SeenOfPage
<1>7. c.i \in Nat /\ c.j \in Nat
  BY <1>4, SlotsAssumption DEF ScanCall
<1>8. In(q) \subseteq c.seen
  <2>1. ASSUME NEW s \in Used(Data(t)) PROVE Data(t)[s] \in c.seen
    <3>1. s \in Nat /\ ~ s >= c.j
      BY <1>1, <2>1, SlotsAssumption DEF Ahead, Used, SlotNos
    <3> QED
      BY <1>6, <1>7, <2>1, <3>1
  <2> QED
    BY <1>6, <2>1 DEF TuplesOf
<1>9. q.file = c.file /\ q.pageNo = c.i
  BY <1>5 DEF PageOf, Key
<1>10. /\ d.kind = "scan" /\ d.ph = "get" /\ d.file = c.file /\ d.i = c.i + 1 /\ d.j = 0
       /\ d.seen = c.seen
  BY <1>1, <1>4 DEF ScanCall
<1>11. FreshTids'
  BY <1>1, <1>2, SameTids
<1>12. cmd'.tid = t /\ cmd' = cmd
  BY DEF cur
<1> HIDE DEF c, d
<1>13. ScanOf(d)
  <2>1. ASSUME NEW k \in Keys, k.file = d.file, disk[k] # Nil
        PROVE  /\ k.pageNo < d.i => In(k) \subseteq d.seen
               /\ k.pageNo >= d.i => In(k) \cap d.seen = {}
    <3>0. k.pageNo \in Nat
      BY MaxPagesAssumption DEF Keys
    <3>1. /\ k.pageNo < c.i => In(k) \subseteq c.seen
          /\ k.pageNo > c.i => In(k) \cap c.seen = {}
      BY <1>3, <1>10, <2>1 DEF ScanOf
    <3>2. k.pageNo = c.i => k = q
      BY <1>9, <1>10, <2>1 DEF Keys
    <3> QED
      BY <1>7, <1>8, <1>10, <3>0, <3>1, <3>2
  <2> QED
    BY <1>7, <1>10, <2>1, MaxPagesAssumption DEF ScanOf, Keys
<1>14. CASE stmt' = [stmt EXCEPT ![t] = d]
  BY <1>1, <1>3, <1>10, <1>11, <1>12, <1>13, <1>14, CallStep
<1>15. CASE stmt' = [stmt EXCEPT ![t] = Nil]
  BY <1>1, <1>11, <1>12, <1>15, CallStep
<1> QED
  BY <1>1, <1>14, <1>15

LEMMA CallOver ==
    ASSUME SessionInv, ExactSession, HeapInv', NEW t \in Tids, cmd # Nil, t = cur,
           UNCHANGED <<tabs, nextTid>>, InsertDropped(t) \/ ScanStops(t), cmd' = cmd \/ cmd' = Nil
    PROVE  ExactSession'
<1>1. /\ stmt[t] # Nil /\ stmt' = [stmt EXCEPT ![t] = Nil]
      /\ UNCHANGED <<vars, unused, added, removed, committed>>
  BY DEF InsertDropped, ScanStops, InPhase
<1>2. FreshTids'
  BY <1>1, CallKnown DEF FreshTids, Doing, cur
<1>3. cmd' # Nil => cmd'.tid = t
  BY DEF cur
<1> QED
  BY <1>1, <1>2, <1>3, CallStep

LEMMA NextExact ==
    ASSUME SessionInv, ExactSession, HeapInv', NEW t \in Tids, cmd # Nil, t = cur,
           UNCHANGED <<cmd, tabs, nextTid>>, ScanNext(t) \/ (DeleteRow(t) /\ cmd.kind = "delete")
    PROVE  ExactSession'
<1> DEFINE c == stmt[t]
           next == [c EXCEPT !.ph = "get", !.tup = Nil, !.n = NumPages(c.file)]
           del == [c EXCEPT !.kind = "delete", !.ph = "get"]
<1>1. /\ c # Nil /\ c.kind = "scan" /\ c.ph = "row"
      /\ \/ stmt' = [stmt EXCEPT ![t] = next]
         \/ stmt' = [stmt EXCEPT ![t] = del] /\ c.tup # Nil /\ cmd.kind = "delete"
      /\ UNCHANGED <<vars, unused, added, removed, committed>>
  BY DEF ScanNext, DeleteRow, InPhase
<1>2. /\ CallOfCmd(c) /\ HeapInv /\ FreshTids
      /\ cmd.kind \in {"select", "delete"} => ScanOf(c)
  BY <1>1, CallKnown
<1>3. c \in ScanCall
  BY <1>1, <1>2, CallFacts
<1>4. /\ next.kind = "scan" /\ next.ph = "get" /\ next.file = c.file /\ next.i = c.i
      /\ next.j = c.j /\ next.seen = c.seen /\ next.tup = Nil
  BY <1>1, <1>3 DEF ScanCall
<1>5. /\ del.kind = "delete" /\ del.ph = "get" /\ del.file = c.file /\ del.i = c.i
      /\ del.j = c.j /\ del.seen = c.seen /\ del.tup = c.tup
  BY <1>1, <1>3 DEF ScanCall
<1>6. FreshTids'
  BY <1>1, <1>2, SameTids
<1>7. cmd'.tid = t /\ cmd' = cmd
  BY DEF cur
<1> HIDE DEF c, next, del
<1>8. ~ HasRow(next) /\ (c.tup # Nil => HasRow(c))
  BY <1>1, <1>4 DEF HasRow
<1>9. CASE stmt' = [stmt EXCEPT ![t] = next]
  <2>1. ScanOf(c) => ScanOf(next)
    BY <1>4, <1>8 DEF ScanOf
  <2>2. next.kind = "scan" => cmd.kind \in {"select", "delete", "loadFlush"}
    BY <1>1, <1>2 DEF CallOfCmd
  <2>3. next.file = cmd.file
    BY <1>2, <1>4 DEF CallOfCmd
  <2> QED
    BY <1>1, <1>2, <1>4, <1>6, <1>7, <1>9, <2>1, <2>2, <2>3, CallStep
<1>10. CASE stmt' = [stmt EXCEPT ![t] = del] /\ c.tup # Nil /\ cmd.kind = "delete"
  <2>1. ScanOf(c)
    BY <1>2, <1>10
  <2>2. ScanOf(del)
    BY <1>5, <1>8, <1>10, <2>1 DEF ScanOf
  <2>3. del.file = cmd.file
    BY <1>2, <1>5 DEF CallOfCmd
  <2> QED
    BY <1>1, <1>5, <1>6, <1>7, <1>10, <2>2, <2>3, CallStep
<1> QED
  BY <1>1, <1>9, <1>10

LEMMA InsertedExact ==
    ASSUME SessionInv, ExactSession, HeapInv', NEW t \in Tids, cmd # Nil, t = cur,
           UNCHANGED <<cmd, tabs, nextTid>>, InsertTuple(t)
    PROVE  ExactSession'
<1>0. PoolExact /\ PagesOK /\ TablesOnDisk
  BY DEF ExactSession, PoolExact
<1>1. /\ stmt[t] # Nil /\ stmt[t].ph = "got" /\ stmt[t].kind = "insert" /\ removed' = removed
  BY DEF InsertTuple, InPhase
<1>2. CallInPool(t) /\ HeapInv /\ FreshTids /\ SlotsApart
  BY <1>1, CallKnown
<1>3. handle[t].page = pages[PageOf(stmt[t])]
  BY <1>1, <1>2 DEF CallInPool
<1>4. /\ PagesOK'
      /\ \E k \in Keys, c \in Slots : k = PageOf(stmt[t]) /\ Injective(c) /\ Modify(t, c)
      /\ stmt'[t] = Nil
  BY <1>0, <1>2, <1>3, PagesInsert
<1>5. PICK k \in Keys, c \in Slots : k = PageOf(stmt[t]) /\ Injective(c) /\ Modify(t, c)
  BY <1>4
<1>6. DirtyInPool' /\ WriterHas'
  BY <1>0, <1>1, <1>2, <1>5, ChangePool
<1>7. UNCHANGED <<pages, disk>>
  BY <1>1, <1>2, <1>3, <1>5, ModifyPool
<1>8. PoolExact'
  BY <1>4, <1>6 DEF PoolExact
<1>9. TablesOnDisk'
  BY <1>0, <1>7, TablesKept
<1>10. FreshTids'
  BY <1>1, <1>2, SameTids
<1>11. stmt'[cmd'.tid] = Nil
  BY <1>4 DEF cur
<1> QED
  BY <1>8, <1>9, <1>10, <1>11, NoCall

LEMMA GoesOnExact ==
    ASSUME SessionInv, ExactSession, HeapInv', NEW t \in Tids, cmd # Nil, t = cur,
           UNCHANGED <<cmd, tabs, nextTid>>, InsertGoesOn(t)
    PROVE  ExactSession'
<1> DEFINE c == stmt[t]
           last == c.i + 1 = c.n
           d == [c EXCEPT !.ph = "get", !.i = c.i + 1, !.new = last]
<1>1. /\ c # Nil /\ c.kind = "insert" /\ c.ph = "got" /\ ~ c.new /\ removed' = removed
      /\ stmt' = [stmt EXCEPT ![t] = d]
      /\ IF last THEN Append(c.file) ELSE disk' = disk
  BY DEF InsertGoesOn, InPhase
<1>2. /\ CallOfCmd(c) /\ CallInPool(t) /\ HeapInv /\ FreshTids
      /\ cmd.file \in Files /\ cmd.file \in tabs
  BY <1>1, CallKnown
<1>3. c \in InsertCall
  BY <1>1, <1>2, CallFacts
<1>4. c.n = NumPages(c.file)
  BY <1>1, <1>2 DEF CallInPool
<1>5. c.file = cmd.file /\ cmd.kind \in {"insert", "loadInsert"}
  BY <1>1, <1>2 DEF CallOfCmd
<1>6. /\ d.kind = "insert" /\ d.ph = "get" /\ d.file = c.file /\ d.i = c.i + 1 /\ d.n = c.n
  BY <1>1, <1>3 DEF InsertCall
<1>7. d.new <=> last
  BY <1>3 DEF InsertCall
<1>8. stmt'[t] = d
  <2>1. t \in DOMAIN stmt
    BY <1>2 DEF HeapInv, CallsTyped
  <2> QED
    BY <1>1, <2>1
<1>9. FreshTids'
  BY <1>1, <1>2, SameTids
<1>10. cmd'.tid = t /\ cmd' = cmd
  BY DEF cur
<1>11. Grows(t)
  BY DEF Grows
<1> HIDE DEF d
<1>12. IF d.new THEN Append(cmd.file) /\ d.i = NumPages(cmd.file) ELSE disk' = disk /\ d.n = NumPages(cmd.file)
  BY <1>1, <1>4, <1>5, <1>6, <1>7
<1> QED
  BY <1>2, <1>5, <1>6, <1>8, <1>9, <1>10, <1>11, <1>12, GrowStep

LEMMA DeletedExact ==
    ASSUME SessionInv, ExactSession, HeapInv', NEW t \in Tids, cmd # Nil, t = cur,
           UNCHANGED <<cmd, tabs, nextTid>>, DeleteTuple(t)
    PROVE  ExactSession'
<1>0. PoolExact /\ PagesOK /\ TablesOnDisk
  BY DEF ExactSession, PoolExact
<1>1. /\ stmt[t] # Nil /\ stmt[t].ph = "got" /\ stmt[t].kind = "delete"
  BY DEF DeleteTuple, InPhase
<1>2. /\ CallOfCmd(stmt[t]) /\ CallInPool(t) /\ HeapInv /\ FreshTids /\ SlotsApart
      /\ cmd.kind \in {"select", "delete"} => ScanOf(stmt[t])
  BY <1>1, CallKnown
<1>3. cmd.kind = "delete" /\ stmt[t].file = cmd.file /\ ScanOf(stmt[t])
  BY <1>1, <1>2 DEF CallOfCmd
<1>4. PICK q \in Keys : q = PageOf(stmt[t])
  BY <1>1, <1>2, CallsPage
<1>5. /\ stmt[t] \in ScanCall /\ stmt[t].j \in Nat /\ stmt[t].j > 0
  BY <1>1, <1>2, CallFacts, SlotsAssumption DEF ScanCall, CallInFile
<1>6. /\ pages[q] # Nil /\ disk[q] # Nil
      /\ Data(t) = PoolData(q) /\ Data(t) \in Slots
      /\ \A s \in Used(Data(t)) : Data(t)[s] \in stmt[t].seen <=> s < stmt[t].j
  BY <1>1, <1>2, <1>3, <1>4, SeenOfPage
<1>7. q.file = stmt[t].file /\ q.pageNo = stmt[t].i
  BY <1>4 DEF PageOf, Key
<1>8. Data(t)[stmt[t].j - 1] = stmt[t].tup
  <2>1. HasRow(stmt[t])
    BY <1>1 DEF HasRow
  <2> QED
    BY <1>3, <1>5, <1>6, <1>7, <2>1 DEF ScanOf
<1>9. handle[t].page = pages[PageOf(stmt[t])]
  BY <1>1, <1>2 DEF CallInPool
<1>10. /\ PagesOK'
       /\ \E k \in Keys, c \in Slots :
             /\ k = PageOf(stmt[t]) /\ Injective(c) /\ Modify(t, c)
             /\ Used(c) = Used(Data(t)) \ {stmt[t].j - 1}
             /\ \A r \in SlotNos : r # stmt[t].j - 1 => c[r] = Data(t)[r]
             /\ TuplesOf(c) = In(k) \ {stmt[t].tup}
       /\ \A u \in Tids : removed'[u] = IF u = t THEN removed[t] \cup {stmt[t].tup} ELSE removed[u]
       /\ stmt'[t] = [stmt[t] EXCEPT !.kind = "scan", !.ph = "row", !.tup = Nil]
  BY <1>0, <1>2, <1>8, <1>9, PagesDelete
<1>11. PICK c \in Slots : /\ Injective(c) /\ Modify(t, c)
                          /\ Used(c) = Used(Data(t)) \ {stmt[t].j - 1}
                          /\ \A r \in SlotNos : r # stmt[t].j - 1 => c[r] = Data(t)[r]
  BY <1>10
<1>12. DirtyInPool' /\ WriterHas'
  BY <1>0, <1>1, <1>2, <1>4, <1>11, ChangePool
<1>13. /\ UNCHANGED <<pages, disk>>
       /\ heap'[q][pages[q]].data = c
       /\ \A l \in Keys \ {q} : In(l)' = In(l)
  BY <1>1, <1>2, <1>4, <1>9, <1>11, ModifyPool
<1>14. PoolExact'
  BY <1>10, <1>12 DEF PoolExact
<1>15. TablesOnDisk'
  BY <1>0, <1>13, TablesKept
<1>16. FreshTids'
  <2>1. t < nextTid
    BY <1>3 DEF SessionInv, TidsGivenOut, cur
  <2>2. nextTid \in Nat /\ Tids \subseteq Nat
    BY TidNumbers DEF SessionInv
  <2>3. \A u \in Tids : u >= nextTid => removed'[u] = {}
    BY <1>2, <1>10, <2>1, <2>2 DEF FreshTids
  <2>4. ~ Doing({"loadInsert", "loadFlush"})'
    BY <1>3 DEF Doing
  <2> QED
    BY <2>3, <2>4 DEF FreshTids
<1>17. /\ stmt'[t].kind = "scan" /\ stmt'[t].ph = "row" /\ stmt'[t].tup = Nil
       /\ stmt'[t].file = stmt[t].file /\ stmt'[t].i = stmt[t].i
       /\ stmt'[t].j = stmt[t].j /\ stmt'[t].seen = stmt[t].seen
  BY <1>5, <1>10 DEF ScanCall
<1>18. cur' = t /\ cmd' = cmd
  BY DEF cur
<1>19. CallOfCmd(stmt[cur])' /\ CallInPool(cur)'
  BY <1>3, <1>17, <1>18 DEF CallOfCmd, CallInPool
<1>20. ScanOf(stmt[t])'
  <2>0. ~ HasRow(stmt[t])'
    BY <1>17 DEF HasRow
  <2>1. ASSUME NEW k \in Keys, k.file = stmt[t].file, disk[k] # Nil, k # q
        PROVE  /\ k.pageNo # stmt[t].i
               /\ k.pageNo < stmt[t].i => In(k)' \subseteq stmt[t].seen
               /\ k.pageNo > stmt[t].i => In(k)' \cap stmt[t].seen = {}
    <3>1. k.pageNo # stmt[t].i
      BY <1>7, <2>1 DEF Keys
    <3> QED
      BY <1>3, <1>13, <2>1, <3>1 DEF ScanOf
  <2>2. PoolData(q)' = c
    BY <1>13 DEF PoolData
  <2>3. \A s \in Used(c) : c[s] \in stmt[t].seen <=> s < stmt[t].j
    <3>1. ASSUME NEW s \in Used(c) PROVE c[s] = Data(t)[s] /\ s \in Used(Data(t))
      BY <1>11, <3>1 DEF Used
    <3> QED
      BY <1>6, <3>1
  <2>4. ASSUME NEW k \in Keys, k.file = stmt'[t].file, disk'[k] # Nil
        PROVE  /\ k.pageNo < stmt'[t].i => In(k)' \subseteq stmt'[t].seen
               /\ (k.pageNo > stmt'[t].i \/ (k.pageNo = stmt'[t].i /\ stmt'[t].j = 0)) =>
                     In(k)' \cap stmt'[t].seen = {}
               /\ (k.pageNo = stmt'[t].i /\ stmt'[t].j > 0) =>
                     /\ pages'[k] # Nil
                     /\ \A s \in Used(PoolData(k)') : PoolData(k)'[s] \in stmt'[t].seen <=> s < stmt'[t].j
    <3>1. CASE k # q
      BY <1>13, <1>17, <2>1, <2>4, <3>1
    <3>2. CASE k = q
      <4>1. stmt[t].i \in Nat
        BY <1>5 DEF ScanCall
      <4> QED
        BY <1>5, <1>6, <1>7, <1>13, <1>17, <2>2, <2>3, <3>2, <4>1
    <3> QED
      BY <3>1, <3>2
  <2> QED
    BY <2>0, <2>4 DEF ScanOf
<1>21. CmdOK'
  BY <1>18, <1>19, <1>20 DEF CmdOK, ScanOf
<1> QED
  BY <1>14, <1>15, <1>16, <1>21 DEF ExactSession

LEMMA HeapStepExact ==
    ASSUME SessionInv, ExactSession, HeapStep, detached' = detached
    PROVE  ExactSession'
<1>0. HeapInv /\ detached' \in BOOLEAN
  BY DEF ExactSession, PoolExact, HeapInv, CallsTyped
<1>1. /\ cmd # Nil /\ UNCHANGED <<cmd, tabs, nextTid>>
  BY DEF HeapStep, shell
<1>2. PICK t \in Tids : t = cur
  BY <1>0, <1>1, CommandAlone
<1>3. \/ InsertTuple(t) \/ InsertGoesOn(t) \/ InsertDropped(t)
      \/ cmd.kind # "loadFlush" /\ (ScanRow(t) \/ ScanPageDone(t))
      \/ ScanNext(t) \/ ScanStops(t)
      \/ cmd.kind = "delete" /\ DeleteRow(t)
      \/ DeleteTuple(t)
  BY <1>2 DEF HeapStep
<1>4. HeapInv'
  BY <1>0, <1>3, HeapActionOK DEF HeapAction, Quiet, Grows
<1>5. CASE InsertTuple(t)
  BY <1>1, <1>2, <1>4, <1>5, InsertedExact
<1>6. CASE InsertGoesOn(t)
  BY <1>1, <1>2, <1>4, <1>6, GoesOnExact
<1>7. CASE InsertDropped(t) \/ ScanStops(t)
  BY <1>1, <1>2, <1>4, <1>7, CallOver
<1>8. CASE cmd.kind # "loadFlush" /\ ScanRow(t)
  BY <1>1, <1>2, <1>4, <1>8, RowExact
<1>9. CASE cmd.kind # "loadFlush" /\ ScanPageDone(t)
  BY <1>1, <1>2, <1>4, <1>9, PageDoneExact
<1>10. CASE ScanNext(t) \/ (DeleteRow(t) /\ cmd.kind = "delete")
  BY <1>1, <1>2, <1>4, <1>10, NextExact
<1>11. CASE DeleteTuple(t)
  BY <1>1, <1>2, <1>4, <1>11, DeletedExact
<1> QED
  BY <1>3, <1>5, <1>6, <1>7, <1>8, <1>9, <1>10, <1>11

LEMMA InterruptExact ==
    ASSUME SessionInv, ExactSession, Interrupt, detached' = detached
    PROVE  ExactSession'
<1>0. HeapInv /\ detached' \in BOOLEAN /\ CmdOK /\ stmt \in [Tids -> InsertCall \cup ScanCall \cup {Nil}]
  BY DEF ExactSession, PoolExact, HeapInv, CallsTyped
<1>1. /\ cmd # Nil /\ RowPrinted /\ cmd' = Nil /\ UNCHANGED <<tabs, nextTid>>
      /\ stmt' = [stmt EXCEPT ![cur] = Nil]
      /\ UNCHANGED <<vars, unused, added, removed, committed>>
  BY DEF Interrupt, RowPrinted, Doing
<1>2. PICK t \in Tids : t = cur
  BY <1>0, <1>1, CommandAlone
<1>3. CASE stmt[t] = Nil
  <2>1. stmt' = stmt
    BY <1>0, <1>1, <1>2, <1>3
  <2>2. UNCHANGED <<below, detached>> /\ ~ Doing({"loadInsert", "loadFlush"})'
    BY <1>1, <2>1 DEF below, Doing
  <2> QED
    BY <1>1, <2>2, ShellStep
<1>4. CASE stmt[t] # Nil
  <2>1. cmd.kind # "counted"
    <3>1. CallOfCmd(stmt[t]) /\ stmt[t] \in InsertCall \cup ScanCall
      BY <1>0, <1>1, <1>2, <1>4, CallKnown
    <3>2. stmt[t].kind \in {"insert", "scan", "delete"}
      BY <3>1 DEF InsertCall, ScanCall
    <3> QED
      BY <3>1, <3>2 DEF CallOfCmd
  <2>2. InPhase(t, {"scan"}, "row")
    BY <1>1, <1>2, <1>4, <2>1 DEF RowPrinted, Doing, Idle
  <2>3. ScanStops(t)
    BY <1>1, <1>2, <2>2 DEF ScanStops
  <2>4. HeapInv'
    BY <1>0, <2>3, HeapActionOK DEF HeapAction, Quiet
  <2> QED
    BY <1>1, <1>2, <2>3, <2>4, CallOver
<1> QED
  BY <1>3, <1>4

LEMMA IteratorFailsExact ==
    ASSUME SessionInv, ExactSession, IteratorFails, detached' = detached
    PROVE  ExactSession'
<1>1. /\ cmd # Nil /\ cmd' = Nil /\ UNCHANGED <<below, detached, tabs, nextTid>>
  BY DEF IteratorFails, Doing
<1>2. ~ Doing({"loadInsert", "loadFlush"})'
  BY <1>1 DEF Doing
<1> QED
  BY <1>1, <1>2, ShellStep

\* A load writes a dirty page, which its own transaction has changed: the pool
\* has the page as before, and the file has it as the pool.
FlushedPage(t, k) ==
    /\ heap[k][pages[k]].dirty
    /\ disk' = [disk EXCEPT ![k] = PoolData(k)]
    /\ heap' = [heap EXCEPT ![k][pages[k]].dirty = FALSE]
    /\ committed' = committed \cup (added[t] \cap In(k))
    /\ UNCHANGED <<lockVars, pointers, unused, added, removed>>

LEMMA FlushedHeap ==
    ASSUME HeapInv, NEW t \in Tids, NEW k \in Keys, pages[k] # Nil, disk[k] # Nil, FlushedPage(t, k)
    PROVE  /\ \A l \in Keys : /\ pages'[l] = pages[l] /\ Live(l)' = Live(l)
                              /\ disk'[l] # Nil <=> disk[l] # Nil
           /\ \A l \in Keys : \A o \in Live(l) : heap'[l][o].dirty => heap[l][o].dirty
           /\ \A l \in Keys : \A o \in Live(l) : heap'[l][o].data = heap[l][o].data
           /\ ~ heap'[k][pages[k]].dirty
           /\ disk'[k] = PoolData(k) /\ \A l \in Keys \ {k} : disk'[l] = disk[l] /\ heap'[l] = heap[l]
           /\ disk' \in [Keys -> Content \cup {Nil}] /\ heap' \in [Keys -> [Objs -> Page \cup {Nil}]]
<1>0. TypeOK
  BY DEF HeapInv
<1>1. UNCHANGED <<mapPageLocksByTid, waiting, ended, pages, lockPage, waitPage, handle>>
  BY DEF FlushedPage, lockVars, pointers
<1>2. PICK o \in Objs : o = pages[k]
  BY <1>0 DEF TypeOK
<1>3. o \in Live(k) /\ heap[k][o] \in Page /\ PoolData(k) \in Content
  <2>1. o \in Live(k)
    BY <1>2 DEF Live
  <2>2. heap[k][o] \in Page
    BY <1>0, <1>2, <2>1 DEF TypeOK
  <2> QED
    BY <1>2, <2>1, <2>2 DEF PoolData, Page
<1>4. heap' = [heap EXCEPT ![k] = [heap[k] EXCEPT ![o] = [heap[k][o] EXCEPT !.dirty = FALSE]]]
  BY <1>2 DEF FlushedPage
<1>5. /\ heap'[k][o] = [heap[k][o] EXCEPT !.dirty = FALSE]
      /\ \A x \in Objs : x # o => heap'[k][x] = heap[k][x]
      /\ \A l \in Keys \ {k} : heap'[l] = heap[l]
  BY <1>0, <1>4 DEF TypeOK
<1>6. /\ heap'[k][o] \in Page /\ heap'[k][o].data = heap[k][o].data /\ ~ heap'[k][o].dirty
  BY <1>3, <1>5 DEF Page
<1>7. heap' \in [Keys -> [Objs -> Page \cup {Nil}]]
  <2>1. [heap[k][o] EXCEPT !.dirty = FALSE] \in Page
    BY <1>5, <1>6
  <2> QED
    BY <1>0, <1>4, <2>1 DEF TypeOK
<1>8. disk'[k] = PoolData(k) /\ \A l \in Keys \ {k} : disk'[l] = disk[l]
  BY <1>0 DEF FlushedPage, TypeOK
<1>9. disk' \in [Keys -> Content \cup {Nil}]
  BY <1>0, <1>3 DEF FlushedPage, TypeOK
<1>10. \A l \in Keys : pages'[l] = pages[l] /\ Live(l)' = Live(l) /\ Live(l) \subseteq Objs
  BY <1>1 DEF Live
<1>11. PoolData(k) # Nil
  BY <1>3, PageNilAssumption
<1>12. \A l \in Keys : disk'[l] # Nil <=> disk[l] # Nil
  BY <1>8, <1>11
<1>13. ASSUME NEW l \in Keys, NEW x \in Live(l)
       PROVE  (heap'[l][x].dirty => heap[l][x].dirty) /\ heap'[l][x].data = heap[l][x].data
  <2>1. CASE l = k /\ x = o
    BY <1>6, <2>1
  <2>2. CASE l = k /\ x # o
    BY <1>5, <1>10, <1>13, <2>2
  <2>3. CASE l # k
    BY <1>5, <2>3
  <2> QED
    BY <2>1, <2>2, <2>3
<1> QED
  BY <1>2, <1>5, <1>6, <1>7, <1>8, <1>9, <1>10, <1>12, <1>13

LEMMA FlushedTyped ==
    ASSUME HeapInv, NEW t \in Tids, NEW k \in Keys, pages[k] # Nil, disk[k] # Nil, FlushedPage(t, k),
           detached' \in BOOLEAN, NEW c, CallFits(t, c), stmt' = [stmt EXCEPT ![t] = c]
    PROVE  HeapInv'
<1>0. TypeOK /\ LockCompatible /\ CallsTyped /\ FilesContiguous /\ DirtyOnDisk /\ HandlesLocked
      /\ \A u \in Tids : CallOK(u)
  BY DEF HeapInv
<1>1. UNCHANGED <<mapPageLocksByTid, waitTidLocks, waiting, ended, pages, lockPage, waitPage, handle>>
  BY DEF FlushedPage, lockVars, pointers
<1>2. /\ \A l \in Keys : pages'[l] = pages[l] /\ Live(l)' = Live(l)
      /\ \A l \in Keys : disk'[l] # Nil <=> disk[l] # Nil
      /\ \A l \in Keys : \A o \in Live(l) : heap'[l][o].dirty => heap[l][o].dirty
      /\ disk'[k] = PoolData(k) /\ \A l \in Keys \ {k} : disk'[l] = disk[l] /\ heap'[l] = heap[l]
      /\ disk' \in [Keys -> Content \cup {Nil}] /\ heap' \in [Keys -> [Objs -> Page \cup {Nil}]]
  BY FlushedHeap
<1>3. \A l \in Keys : \A o \in Live(l) : heap'[l][o] # Nil
  <2>1. heap' = [heap EXCEPT ![k] = [heap[k] EXCEPT ![pages[k]] = [heap[k][pages[k]] EXCEPT !.dirty = FALSE]]]
    BY DEF FlushedPage
  <2>2. pages[k] \in Live(k) /\ heap[k][pages[k]] \in Page
    <3>1. pages[k] \in Live(k)
      BY <1>0, PointersReach DEF Reached
    <3> QED
      BY <1>0, <3>1 DEF TypeOK, Live
  <2>3. [heap[k][pages[k]] EXCEPT !.dirty = FALSE] \in Page
    BY <2>2 DEF Page
  <2>4. [heap[k][pages[k]] EXCEPT !.dirty = FALSE] # Nil
    BY <2>3, PageNilAssumption
  <2> DEFINE p == [heap[k][pages[k]] EXCEPT !.dirty = FALSE]
  <2> HIDE DEF p
  <2>5. heap' = [heap EXCEPT ![k] = [heap[k] EXCEPT ![pages[k]] = p]] /\ p # Nil
    BY <2>1, <2>4 DEF p
  <2>6. ASSUME NEW l \in Keys, NEW o \in Live(l) PROVE heap'[l][o] # Nil
    <3>1. o \in Objs /\ heap[l][o] # Nil
      BY <1>0, <2>6 DEF TypeOK, Live
    <3> QED
      BY <1>0, <2>5, <3>1 DEF TypeOK
  <2> QED
    BY <2>6
<1>4. LockTypeOK'
  BY <1>0, <1>1 DEF TypeOK, LockTypeOK
<1>5. TypeOK'
  BY <1>0, <1>1, <1>2, <1>3, <1>4 DEF TypeOK
<1>6. LockCompatible' /\ HandlesLocked'
  BY <1>0, <1>1 DEF LockCompatible, HandlesLocked
<1>7. CallsTyped'
  <2>1. committed' \in SUBSET Tuples
    BY <1>0 DEF FlushedPage, CallsTyped
  <2> QED
    BY <1>0, <2>1 DEF FlushedPage, CallsTyped, CallFits
<1>8. FilesContiguous'
  BY <1>0, <1>2, FilesStay
<1>9. DirtyOnDisk'
  BY <1>0, <1>2 DEF DirtyOnDisk
<1>10. stmt'[t] = c /\ \A u \in Tids \ {t} : stmt'[u] = stmt[u]
  BY <1>0 DEF CallsTyped
<1>11. \A f \in Files : NumPages(f)' = NumPages(f)
  <2>1. ASSUME NEW f \in Files
        PROVE  {l \in Keys : l.file = f /\ disk'[l] # Nil} = {l \in Keys : l.file = f /\ disk[l] # Nil}
    BY <1>2
  <2> QED
    BY <2>1 DEF NumPages
<1>12. CallOK(t)'
  <2>1. c # Nil => NumPages(c.file)' = NumPages(c.file)
    <3>1. c # Nil => c.file \in Files
      BY DEF CallFits, InsertCall, ScanCall
    <3> QED
      BY <1>11, <3>1
  <2>2. c # Nil => CallInFile(stmt[t])'
    <3>1. c # Nil => CallInFile(c)
      BY DEF CallFits
    <3>2. c # Nil => NumPages(stmt[t].file)' = NumPages(c.file)
      BY <1>10, <2>1 DEF NumPages
    <3> QED
      BY <1>10, <3>1, <3>2 DEF CallInFile
  <2>3. c # Nil => CallAtPage(t, stmt[t])'
    BY <1>1, <1>10 DEF CallFits, CallAtPage
  <2> QED
    BY <1>1, <1>10, <2>2, <2>3 DEF CallOK, CallFits
<1>13. ASSUME NEW u \in Tids \ {t} PROVE CallOK(u)'
  BY <1>0, <1>1, <1>2, <1>8, <1>10, CallKept
<1> QED
  BY <1>5, <1>6, <1>7, <1>8, <1>9, <1>12, <1>13 DEF HeapInv

LEMMA FlushedPool ==
    ASSUME PoolExact, HeapInv', NEW t \in Tids, NEW k \in Keys, pages[k] # Nil, disk[k] # Nil,
           FlushedPage(t, k), mapPageLocksByTid[t][k] # Nil, removed[t] = {},
           \A u \in Tids : \A x \in Tuples : Inserts(u, x)' => Inserts(u, x)
    PROVE  PoolExact'
<1>0. /\ HeapInv /\ TypeOK /\ TuplesOK /\ SlotsApart /\ PendingNowhere /\ PendingOnce
      /\ DirtyInPool /\ WriterHas /\ LockCompatible
  BY DEF PoolExact, PagesOK, HeapInv
<1>1. UNCHANGED <<mapPageLocksByTid, ended, lockPage, unused, added, removed>>
  BY DEF FlushedPage, lockVars, pointers
<1>2. /\ \A l \in Keys : pages'[l] = pages[l] /\ Live(l)' = Live(l)
      /\ \A l \in Keys : disk'[l] # Nil <=> disk[l] # Nil
      /\ \A l \in Keys : \A o \in Live(l) : heap'[l][o].dirty => heap[l][o].dirty
      /\ \A l \in Keys : \A o \in Live(l) : heap'[l][o].data = heap[l][o].data
      /\ ~ heap'[k][pages[k]].dirty
      /\ disk'[k] = PoolData(k) /\ \A l \in Keys \ {k} : disk'[l] = disk[l] /\ heap'[l] = heap[l]
  BY <1>0, FlushedHeap
<1>3. pages[k] \in Live(k)
  BY <1>0, PointersReach DEF Reached
<1>4. In(k) = TuplesOf(PoolData(k)) /\ Dirty(k)
  BY DEF In, PoolData, Dirty, FlushedPage
<1>5. On(k)' = In(k) /\ In(k)' = In(k) /\ ~ Dirty(k)'
  BY <1>2, <1>3, <1>4 DEF On, In, Dirty, PoolData
<1>6. \A l \in Keys \ {k} : On(l)' = On(l) /\ In(l)' = In(l) /\ (Dirty(l)' <=> Dirty(l))
  BY <1>2 DEF On, In, Dirty
<1>7. Writes(t, k)
  <2>1. PICK u \in Tids : Writes(u, k)
    BY <1>0, <1>4 DEF TuplesOK, ChangesKnown
  <2> QED
    BY <1>0, <2>1, OneWriter
<1>8. In(k) \ On(k) \subseteq added[t] /\ On(k) \subseteq In(k)
  BY <1>0, <1>7 DEF TuplesOK, ChangesKnown
<1>9. \A u \in Tids, l \in Keys : Writes(u, l)' <=> Writes(u, l)
  BY <1>1 DEF Writes
<1>10. ChangesKnown'
  <2>1. ASSUME NEW l \in Keys
        PROVE  /\ ~ Dirty(l)' => In(l)' = On(l)'
               /\ Dirty(l)' => \E u \in Tids : Writes(u, l)'
               /\ \A u \in Tids : Writes(u, l)' => /\ In(l)' \ On(l)' \subseteq added'[u]
                                                   /\ On(l)' \ In(l)' \subseteq removed'[u]
    <3>1. CASE l = k
      BY <1>5, <3>1
    <3>2. CASE l # k
      BY <1>0, <1>1, <1>6, <1>9, <3>2 DEF TuplesOK, ChangesKnown
    <3> QED
      BY <3>1, <3>2
  <2> QED
    BY <2>1 DEF ChangesKnown
<1>11. \A l \in Keys : In(l)' = In(l)
  BY <1>5, <1>6
<1>12. ChangesMade'
  <2>1. ASSUME NEW u \in Tids \ ended, NEW l \in Keys, NEW x \in removed[u]
        PROVE  x \notin In(l) /\ (x \in On(l)' => Writes(u, l))
    <3>1. x \notin In(l) /\ (x \in On(l) => Writes(u, l))
      BY <1>0, <2>1 DEF TuplesOK, ChangesMade
    <3> QED
      BY <1>5, <1>6, <3>1
  <2> QED
    BY <1>0, <1>1, <1>9, <1>11, <2>1 DEF TuplesOK, ChangesMade
<1>13. PlacesApart'
  <2>1. ASSUME NEW l \in Keys, NEW m \in Keys, l # m PROVE On(l)' \cap On(m)' = {}
    <3>1. On(l) \cap On(m) = {} /\ On(l) \cap In(m) = {} /\ In(l) \cap On(m) = {}
      BY <1>0, <2>1, FileAndPoolApart DEF TuplesOK, PlacesApart, TypeOK
    <3> QED
      BY <1>5, <1>6, <2>1, <3>1
  <2> QED
    BY <1>0, <1>11, <2>1 DEF TuplesOK, PlacesApart
<1>14. FilesCommitted'
  <2>1. committed' = committed \cup (added[t] \cap In(k))
    BY DEF FlushedPage
  <2>2. \A x : x \in committed <=> \E l \in Keys : x \in On(l)
    BY <1>0 DEF TuplesOK, FilesCommitted
  <2>3. ASSUME NEW x PROVE x \in committed' <=> \E l \in Keys : x \in On(l)'
    BY <1>5, <1>6, <1>8, <2>1, <2>2
  <2> QED
    BY <2>3 DEF FilesCommitted
<1>15. SlotsApart'
  <2>1. ASSUME NEW l \in Keys, disk'[l] # Nil PROVE Injective(disk'[l])
    BY <1>0, <1>2, <2>1 DEF SlotsApart, PoolData
  <2>2. ASSUME NEW l \in Keys, pages'[l] # Nil PROVE Injective(heap'[l][pages'[l]].data)
    <3>1. pages[l] \in Live(l) /\ pages[l] # Nil
      BY <1>0, <1>2, <2>2, PointersReach DEF Reached
    <3> QED
      BY <1>0, <1>2, <3>1 DEF SlotsApart
  <2> QED
    BY <2>1, <2>2 DEF SlotsApart
<1>16. PendingNowhere' /\ PendingOnce'
  <2>1. \A l \in Keys : On(l)' \subseteq In(l) \cup On(l)
    BY <1>5, <1>6
  <2> QED
    BY <1>0, <1>1, <1>11, <2>1, PendingKept
<1>17. DirtyInPool' /\ WriterHas'
  <2>1. \A l \in Keys : Dirty(l)' => Dirty(l)
    BY <1>5, <1>6
  <2> QED
    BY <1>0, <1>1, <1>2, <1>9, <2>1 DEF DirtyInPool, WriterHas
<1> QED
  BY <1>10, <1>12, <1>13, <1>14, <1>15, <1>16, <1>17 DEF PoolExact, PagesOK, TuplesOK

LEMMA LoadFlushPageExact ==
    ASSUME SessionInv, ExactSession, LoadFlushPage, detached' = detached
    PROVE  ExactSession'
<1>0. PoolExact /\ HeapInv /\ TablesOnDisk /\ FreshTids /\ SlotsApart /\ detached' \in BOOLEAN
  BY DEF ExactSession, PoolExact, PagesOK, HeapInv, CallsTyped
<1>1. cmd # Nil /\ cmd.kind = "loadFlush" /\ UNCHANGED <<cmd, tabs, nextTid>>
  BY DEF LoadFlushPage, shell, Doing
<1>2. PICK t \in Tids : t = cur
  BY <1>0, <1>1, CommandAlone
<1> DEFINE c == stmt[t]
           d == [c EXCEPT !.ph = "get", !.i = c.i + 1]
           e == IF c.i + 1 < NumPages(cmd.file) THEN d ELSE Nil
<1>3. /\ c # Nil /\ c.kind = "scan" /\ c.ph = "got" /\ UNCHANGED <<lockVars, pointers, unused, added, removed>>
      /\ stmt' = [stmt EXCEPT ![t] = e]
  BY <1>2 DEF LoadFlushPage, InPhase
<1>4. CallOfCmd(c) /\ CallInPool(t)
  BY <1>1, <1>2, <1>3, CallKnown
<1>5. PICK k \in Keys : k = PageOf(c)
  BY <1>0, <1>3, CallsPage
<1>6. handle[t].page = pages[k]
  BY <1>3, <1>4, <1>5 DEF CallInPool
<1>7. /\ handle[t].key = k /\ pages[k] # Nil /\ disk[k] # Nil /\ Data(t) = PoolData(k)
      /\ In(k) = TuplesOf(Data(t)) /\ mapPageLocksByTid[t][k] # Nil
  BY <1>0, <1>3, <1>5, <1>6, GotInPool DEF PoolData
<1>8. \/ FlushedPage(t, k)
      \/ UNCHANGED <<vars, unused, added, removed, committed>>
  <2>1. CASE heap[k][pages[k]].dirty
    BY <1>2, <1>3, <1>6, <1>7, <2>1 DEF LoadFlushPage, FlushedPage
  <2>2. CASE ~ heap[k][pages[k]].dirty
    BY <1>2, <1>3, <1>6, <1>7, <2>2 DEF LoadFlushPage, vars
  <2> QED
    BY <2>1, <2>2
<1>9. /\ c \in ScanCall /\ CallInFile(c) /\ t \notin ended /\ waiting[t] = Nil
  BY <1>0, <1>3, CallFacts
<1>10. c.file = cmd.file
  BY <1>4 DEF CallOfCmd
<1>11. /\ d \in ScanCall /\ d.kind = "scan" /\ d.ph = "get" /\ d.file = c.file /\ d.i = c.i + 1 /\ d.n = c.n
  <2>1. c \in ScanCall /\ c.kind = "scan"
    BY <1>3, <1>9
  <2> HIDE DEF c, e
  <2>2. c.i + 1 \in Nat
    BY <2>1 DEF ScanCall
  <2>3. d \in ScanCall
    BY <2>1, <2>2 DEF ScanCall
  <2>4. d.kind = "scan" /\ d.ph = "get" /\ d.file = c.file /\ d.i = c.i + 1 /\ d.n = c.n
    BY <2>1 DEF ScanCall
  <2> QED
    BY <2>3, <2>4
<1> HIDE DEF c, d
<1>12. /\ e # Nil => e = d /\ c.i + 1 < NumPages(cmd.file)
       /\ e \in ScanCall \cup {Nil}
  BY <1>11
<1> HIDE DEF e
<1>13. CallFits(t, e)
  <2>1. e # Nil => CallInFile(e) /\ CallAtPage(t, e)
    BY <1>9, <1>10, <1>11, <1>12 DEF CallInFile, CallAtPage
  <2> QED
    BY <1>9, <1>12, <2>1 DEF CallFits
<1>14. FreshTids'
  BY <1>0, <1>1, <1>3, SameTids
<1>15. cmd'.tid = t /\ cmd' = cmd /\ cur' = t
  BY <1>1, <1>2 DEF cur
<1>16. CASE UNCHANGED <<vars, unused, added, removed, committed>>
  <2>1. CallsOK'
    BY <1>0, <1>3, <1>13, <1>16, QuietKeeps
  <2>2. TypeOK'
    BY <1>0, <1>16, PoolStepTyped DEF HeapInv
  <2>3. LockCompatible'
    BY <1>0, <1>16 DEF HeapInv, LockCompatible, vars, lockVars
  <2>4. HeapInv'
    BY <2>1, <2>2, <2>3 DEF HeapInv, CallsOK
  <2>5. e # Nil => /\ e.kind = "scan" /\ e.ph = "get" /\ e.file = cmd'.file
                   /\ cmd'.kind = "loadFlush"
    BY <1>1, <1>10, <1>11, <1>12
  <2>6. UNCHANGED <<vars, unused, added, removed, committed, tabs>>
    BY <1>1, <1>16
  <2> QED
    BY <1>3, <1>14, <1>15, <2>4, <2>5, <2>6, CallStep
<1>17. CASE FlushedPage(t, k)
  <2>1. HeapInv'
    BY <1>0, <1>3, <1>7, <1>13, <1>17, FlushedTyped
  <2>2. stmt'[t] = e /\ \A u \in Tids \ {t} : stmt'[u] = stmt[u]
    BY <1>0, <1>3 DEF HeapInv, CallsTyped
  <2>3. \A u \in Tids : \A x \in Tuples : Inserts(u, x)' => Inserts(u, x)
    BY <1>11, <1>12, <2>2 DEF Inserts
  <2>4. removed[t] = {}
    BY <1>0, <1>1, <1>2 DEF FreshTids, Doing
  <2>5. PoolExact'
    BY <1>0, <1>7, <1>17, <2>1, <2>3, <2>4, FlushedPool
  <2>6. TablesOnDisk'
    <3>1. \A l \in Keys : pages'[l] = pages[l] /\ (disk'[l] # Nil <=> disk[l] # Nil)
      BY <1>0, <1>7, <1>17, FlushedHeap
    <3> QED
      BY <1>0, <1>1, <3>1, TablesKept
  <2>7. CmdOK'
    <3>1. ~ Doing({"select", "delete"})'
      BY <1>1 DEF Doing
    <3>2. stmt'[t] # Nil => CallOfCmd(stmt[cur])' /\ CallInPool(cur)'
      BY <1>1, <1>10, <1>11, <1>12, <1>15, <2>2 DEF CallOfCmd, CallInPool
    <3> QED
      BY <1>15, <3>1, <3>2 DEF CmdOK
  <2> QED
    BY <1>14, <2>5, <2>6, <2>7 DEF ExactSession
<1> QED
  BY <1>8, <1>16, <1>17

\* The file of a table that no open transaction has written to is removed.
LEMMA DropExact ==
    ASSUME SessionInv, ExactSession, NEW f \in Files, Drop(f), ~ haunted', detached' = detached
    PROVE  ExactSession'
<1>0. /\ PoolExact /\ HeapInv /\ TypeOK /\ LockCompatible /\ HandlesLocked /\ DirtyOnDisk
      /\ CallsTyped /\ FilesContiguous
      /\ TuplesOK /\ SlotsApart /\ PendingNowhere /\ PendingOnce /\ DirtyInPool /\ WriterHas
      /\ TablesOnDisk /\ FreshTids /\ detached' \in BOOLEAN
  BY DEF ExactSession, PoolExact, PagesOK, HeapInv, CallsTyped
<1>1. /\ UNCHANGED <<mapPageLocksByTid, waitTidLocks, waiting, ended, pages, lockPage, waitPage, handle>>
      /\ UNCHANGED <<heap, stmt, unused, added, removed, nextTid, cmd>>
      /\ cmd = Nil /\ tabs' = tabs \ {f}
      /\ disk' = [k \in Keys |-> IF k.file = f THEN Nil ELSE disk[k]]
      /\ committed' = committed \ UNION {TuplesOf(disk[k]) : k \in PagesOf(f) \cap OnDisk}
  BY DEF Drop, lockVars, pointers
<1>2. \A k \in Keys, t \in Tids : k.file = f => ~ Writes(t, k)
  BY DEF Drop, PagesOf, Writes
<1>3. \A k \in Keys : /\ k.file = f => disk'[k] = Nil
                      /\ k.file # f => disk'[k] = disk[k]
  BY <1>1
<1>4. \A k \in Keys : k.file = f => ~ Dirty(k)
  BY <1>0, <1>2 DEF TuplesOK, ChangesKnown
<1>5. \A k \in Keys : Live(k)' = Live(k)
  BY <1>1 DEF Live
<1>6. \A t \in Tids : stmt[t] = Nil /\ waiting[t] = Nil
  BY <1>0, <1>1, CommandAlone
<1>7. HeapInv'
  <2>1. LockTypeOK'
    BY <1>0, <1>1 DEF TypeOK, LockTypeOK
  <2>2. disk' \in [Keys -> Content \cup {Nil}]
    BY <1>0, <1>1 DEF TypeOK
  <2>3. TypeOK'
    BY <1>0, <1>1, <1>5, <2>1, <2>2 DEF TypeOK
  <2>4. LockCompatible' /\ HandlesLocked'
    BY <1>0, <1>1 DEF LockCompatible, HandlesLocked
  <2>5. CallsTyped'
    BY <1>0, <1>1 DEF CallsTyped
  <2>6. FilesContiguous'
    <3>1. ASSUME NEW g \in Files PROVE \E n \in 0 .. MaxPages : FirstPages(disk', g, n)
      <4>1. CASE g = f
        <5>1. FirstPages(disk', g, 0)
          BY <1>3, <4>1, MaxPagesAssumption DEF FirstPages, Keys
        <5>2. 0 \in 0 .. MaxPages
          BY MaxPagesAssumption
        <5> QED
          BY <5>1, <5>2
      <4>2. CASE g # f
        <5>1. PICK n \in 0 .. MaxPages : FirstPages(disk, g, n)
          BY <1>0 DEF FilesContiguous
        <5>2. FirstPages(disk', g, n)
          BY <1>3, <4>2, <5>1 DEF FirstPages
        <5> QED
          BY <5>2
      <4> QED
        BY <4>1, <4>2
    <3> QED
      BY <3>1 DEF FilesContiguous
  <2>7. DirtyOnDisk'
    <3>1. ASSUME NEW k \in Keys, NEW o \in Live(k), heap[k][o].dirty PROVE disk'[k] # Nil
      <4>1. disk[k] # Nil /\ o = pages[k] /\ pages[k] # Nil
        BY <1>0, <3>1, PageNilAssumption DEF DirtyOnDisk, DirtyInPool, Live
      <4>2. Dirty(k)
        BY <3>1, <4>1 DEF Dirty
      <4> QED
        BY <1>3, <1>4, <4>1, <4>2
    <3> QED
      BY <1>1, <1>5, <3>1 DEF DirtyOnDisk
  <2>8. \A t \in Tids : CallOK(t)'
    BY <1>1, <1>6 DEF CallOK
  <2> QED
    BY <2>3, <2>4, <2>5, <2>6, <2>7, <2>8 DEF HeapInv
<1>8. \A k \in Keys : /\ k.file = f => In(k)' = {} /\ On(k)' = {} /\ ~ Dirty(k)'
                      /\ k.file # f => In(k)' = In(k) /\ On(k)' = On(k) /\ (Dirty(k)' <=> Dirty(k))
  BY <1>1, <1>3 DEF In, On, Dirty
<1>9. \A t \in Tids, k \in Keys : Writes(t, k)' <=> Writes(t, k)
  BY <1>1 DEF Writes
<1>10. ChangesKnown'
  <2>1. ASSUME NEW k \in Keys
        PROVE  /\ ~ Dirty(k)' => In(k)' = On(k)'
               /\ Dirty(k)' => \E u \in Tids : Writes(u, k)'
               /\ \A u \in Tids : Writes(u, k)' => /\ In(k)' \ On(k)' \subseteq added'[u]
                                                   /\ On(k)' \ In(k)' \subseteq removed'[u]
    <3>1. CASE k.file = f
      BY <1>8, <3>1
    <3>2. CASE k.file # f
      BY <1>0, <1>1, <1>8, <1>9, <3>2 DEF TuplesOK, ChangesKnown
    <3> QED
      BY <3>1, <3>2
  <2> QED
    BY <2>1 DEF ChangesKnown
<1>11. ChangesMade'
  <2>1. ASSUME NEW t \in Tids \ ended, NEW x \in added[t] \ removed[t]
        PROVE  \E k \in Keys : Writes(t, k)' /\ x \in In(k)'
    <3>1. PICK k \in Keys : Writes(t, k) /\ x \in In(k)
      BY <1>0, <2>1 DEF TuplesOK, ChangesMade
    <3>2. k.file # f
      BY <1>2, <3>1
    <3> QED
      BY <1>8, <1>9, <3>1, <3>2
  <2>2. ASSUME NEW t \in Tids \ ended, NEW k \in Keys, NEW x \in removed[t]
        PROVE  x \notin In(k)' /\ (x \in On(k)' => Writes(t, k)')
    <3>1. x \notin In(k) /\ (x \in On(k) => Writes(t, k))
      BY <1>0, <2>2 DEF TuplesOK, ChangesMade
    <3> QED
      BY <1>8, <1>9, <3>1
  <2> QED
    BY <1>1, <2>1, <2>2 DEF ChangesMade
<1>12. \A k \in Keys : In(k)' \subseteq In(k) /\ On(k)' \subseteq On(k)
  BY <1>8
<1>13. PlacesApart'
  <2>1. ASSUME NEW k \in Keys, NEW l \in Keys, k # l
        PROVE  In(k)' \cap In(l)' = {} /\ On(k)' \cap On(l)' = {}
    <3>1. In(k) \cap In(l) = {} /\ On(k) \cap On(l) = {}
      BY <1>0, <2>1 DEF TuplesOK, PlacesApart
    <3> QED
      BY <1>12, <3>1
  <2> QED
    BY <2>1 DEF PlacesApart
<1>14. FilesCommitted'
  <2>1. ASSUME NEW x
        PROVE  x \in UNION {TuplesOf(disk[k]) : k \in PagesOf(f) \cap OnDisk} <=>
                  \E k \in Keys : k.file = f /\ x \in On(k)
    BY DEF PagesOf, OnDisk, On
  <2>2. ASSUME NEW x PROVE x \in committed <=> \E k \in Keys : x \in On(k)
    BY <1>0 DEF TuplesOK, FilesCommitted
  <2>3. ASSUME NEW x PROVE x \in committed' <=> \E k \in Keys : x \in On(k)'
    <3>1. x \in committed' <=> x \in committed /\ ~ \E k \in Keys : k.file = f /\ x \in On(k)
      BY <1>1, <2>1
    <3>2. (\E k \in Keys : x \in On(k)') <=> \E k \in Keys : k.file # f /\ x \in On(k)
      BY <1>8
    <3>3. \A k, l \in Keys : x \in On(k) /\ x \in On(l) => k = l
      BY <1>0 DEF TuplesOK, PlacesApart
    <3> QED
      BY <2>2, <3>1, <3>2, <3>3
  <2> QED
    BY <2>3 DEF FilesCommitted
<1>15. SlotsApart'
  BY <1>0, <1>1, <1>3 DEF SlotsApart
<1>16. PendingNowhere' /\ PendingOnce'
  <2>1. \A u \in Tids : \A x \in Tuples : Inserts(u, x)' => Inserts(u, x)
    BY <1>1 DEF Inserts
  <2> QED
    BY <1>0, <1>1, <1>12, <2>1, PendingKept
<1>17. DirtyInPool' /\ WriterHas'
  <2>1. \A k \in Keys : Dirty(k)' => Dirty(k)
    BY <1>8
  <2> QED
    BY <1>0, <1>1, <1>5, <1>9, <2>1 DEF DirtyInPool, WriterHas
<1>18. PoolExact'
  BY <1>7, <1>10, <1>11, <1>13, <1>14, <1>15, <1>16, <1>17 DEF PoolExact, PagesOK, TuplesOK
<1>19. TablesOnDisk'
  BY <1>0, <1>1, <1>3 DEF TablesOnDisk
<1>20. FreshTids'
  BY <1>0, <1>1, SameTids
<1> QED
  BY <1>1, <1>18, <1>19, <1>20, NoCall

\* What was in memory is gone, and the files are as the commits have left them.
LEMMA RestartExact ==
    ASSUME SessionInv, ExactSession, Restart, detached' = detached
    PROVE  ExactSession'
<1>0. /\ HeapInv /\ TypeOK /\ CallsTyped /\ FilesContiguous /\ detached' \in BOOLEAN
      /\ TuplesOK /\ SlotsApart /\ PendingNowhere /\ PendingOnce
  BY DEF ExactSession, PoolExact, PagesOK, HeapInv, CallsTyped
<1>1. /\ mapPageLocksByTid' = [t \in Tids |-> [k \in Keys |-> Nil]]
      /\ waitTidLocks' = [t \in Tids |-> {}] /\ waiting' = [t \in Tids |-> Nil] /\ ended' = {}
      /\ pages' = [k \in Keys |-> Nil] /\ lockPage' = [t \in Tids |-> [k \in Keys |-> Nil]]
      /\ waitPage' = [t \in Tids |-> Nil] /\ handle' = [t \in Tids |-> Nil]
      /\ heap' = [k \in Keys |-> [o \in Objs |-> Nil]] /\ stmt' = [t \in Tids |-> Nil]
      /\ added' = [t \in Tids |-> {}] /\ removed' = [t \in Tids |-> {}]
      /\ cmd' = Nil /\ UNCHANGED <<disk, unused, committed, tabs>>
  BY DEF Restart
<1>2. \A k \in Keys : Live(k)' = {}
  BY <1>1, PageNilAssumption DEF Live, Points
<1>3. HeapInv'
  <2>1. LockTypeOK'
    BY <1>1 DEF LockTypeOK
  <2>2. TypeOK'
    BY <1>0, <1>1, <1>2, <2>1 DEF TypeOK
  <2>3. LockCompatible' /\ HandlesLocked'
    BY <1>1 DEF LockCompatible, HandlesLocked
  <2>4. CallsTyped'
    BY <1>0, <1>1 DEF CallsTyped
  <2>5. FilesContiguous'
    BY <1>0, <1>1, FilesStay
  <2>6. DirtyOnDisk'
    BY <1>2 DEF DirtyOnDisk
  <2>7. \A t \in Tids : CallOK(t)'
    BY <1>1 DEF CallOK
  <2> QED
    BY <2>2, <2>3, <2>4, <2>5, <2>6, <2>7 DEF HeapInv
<1>4. \A k \in Keys : /\ On(k)' = On(k) /\ In(k)' = On(k) /\ ~ Dirty(k)'
                      /\ \A t \in Tids : ~ Writes(t, k)'
  BY <1>1, NilAssumption DEF On, In, Dirty, Writes, Perms
<1>5. ChangesKnown' /\ ChangesMade'
  BY <1>1, <1>4 DEF ChangesKnown, ChangesMade
<1>6. PlacesApart' /\ FilesCommitted'
  BY <1>0, <1>1, <1>4 DEF TuplesOK, PlacesApart, FilesCommitted
<1>7. SlotsApart'
  BY <1>0, <1>1 DEF SlotsApart
<1>8. PendingNowhere' /\ PendingOnce'
  <2>1. \A u \in Tids : \A x \in Tuples : Inserts(u, x)' => Inserts(u, x)
    BY <1>1 DEF Inserts
  <2> QED
    BY <1>0, <1>1, <1>4, <2>1, PendingKept
<1>9. DirtyInPool' /\ WriterHas'
  BY <1>2, <1>4 DEF DirtyInPool, WriterHas
<1>10. PoolExact'
  BY <1>3, <1>5, <1>6, <1>7, <1>8, <1>9 DEF PoolExact, PagesOK, TuplesOK
<1>11. TablesOnDisk' /\ FreshTids'
  BY <1>1 DEF TablesOnDisk, FreshTids, Doing
<1> QED
  BY <1>1, <1>10, <1>11, NoCall

LEMMA ExactSessionInit ==
    ASSUME SessionInit
    PROVE  ExactSession
<1>1. HeapInit /\ detached = FALSE /\ cmd = Nil
  BY DEF SessionInit, HeapInit
<1>2. HeapInv /\ PagesOK
  BY <1>1, ExactInitOK DEF ExactInv, Exact
<1>3. /\ pages = [k \in Keys |-> Nil] /\ lockPage = [t \in Tids |-> [k \in Keys |-> Nil]]
      /\ handle = [t \in Tids |-> Nil] /\ waiting = [t \in Tids |-> Nil]
      /\ removed = [t \in Tids |-> {}]
  BY <1>1 DEF HeapInit, Init, LockInit
<1>4. \A k \in Keys : Live(k) = {} /\ ~ Dirty(k)
  BY <1>3, PageNilAssumption DEF Live, Points, Dirty
<1>5. DirtyInPool /\ WriterHas
  BY <1>4 DEF DirtyInPool, WriterHas
<1>6. TablesOnDisk /\ FreshTids /\ CmdOK
  BY <1>1, <1>3 DEF TablesOnDisk, FreshTids, CmdOK, Doing
<1> QED
  BY <1>2, <1>5, <1>6 DEF ExactSession, PoolExact

\* What the invariant says of the scan of a statement, ...
LEMMA ScanFollows ==
    ASSUME SessionInv, ExactSession
    PROVE  StatementScanExact
<1> SUFFICES ASSUME Doing({"select", "delete"}), ~ Idle,
                    NEW k \in PagesOf(cmd.file) \cap OnDisk, NEW s \in Used(Current(k))
             PROVE  Current(k)[s] \in stmt[cur].seen <=>
                        k.pageNo < stmt[cur].i \/ (k.pageNo = stmt[cur].i /\ s < stmt[cur].j)
  BY DEF StatementScanExact
<1>0. PoolExact /\ HeapInv
  BY DEF ExactSession, PoolExact
<1>1. cmd # Nil /\ cmd.kind \in {"select", "delete"}
  BY DEF Doing
<1>2. PICK t \in Tids : t = cur
  BY <1>0, <1>1, CommandAlone
<1>3. stmt[t] # Nil
  BY <1>1, <1>2 DEF Idle
<1>4. CallOfCmd(stmt[t]) /\ ScanOf(stmt[t])
  BY <1>1, <1>2, <1>3, CallKnown
<1>5. stmt[t].kind # "insert" /\ stmt[t].file = cmd.file
  BY <1>1, <1>4 DEF CallOfCmd
<1>6. stmt[t] \in ScanCall /\ stmt[t].i \in Nat /\ stmt[t].j \in Nat
  BY <1>0, <1>3, <1>5, CallFacts, SlotsAssumption DEF ScanCall
<1>7. k \in Keys /\ k.file = stmt[t].file /\ disk[k] # Nil /\ k.pageNo \in Nat
  BY <1>5, MaxPagesAssumption DEF PagesOf, OnDisk, Keys
<1>8. Current(k)[s] \in In(k) /\ s \in Nat
  BY <1>7, SlotsAssumption DEF Current, In, On, TuplesOf, Used, SlotNos
<1>9. CASE k.pageNo < stmt[t].i
  BY <1>2, <1>4, <1>7, <1>8, <1>9 DEF ScanOf
<1>10. CASE k.pageNo > stmt[t].i \/ (k.pageNo = stmt[t].i /\ stmt[t].j = 0)
  <2>1. In(k) \cap stmt[t].seen = {}
    BY <1>4, <1>7, <1>10 DEF ScanOf
  <2> QED
    BY <1>2, <1>6, <1>7, <1>8, <1>10, <2>1
<1>11. CASE k.pageNo = stmt[t].i /\ stmt[t].j > 0
  <2>1. /\ pages[k] # Nil
        /\ \A r \in Used(PoolData(k)) : PoolData(k)[r] \in stmt[t].seen <=> r < stmt[t].j
    BY <1>4, <1>7, <1>11 DEF ScanOf
  <2>2. Current(k) = PoolData(k)
    BY <2>1 DEF Current, PoolData
  <2>3. Current(k)[s] \in stmt[t].seen <=> s < stmt[t].j
    BY <2>1, <2>2
  <2> QED
    BY <1>2, <1>6, <1>7, <1>11, <2>3
<1> QED
  BY <1>6, <1>7, <1>9, <1>10, <1>11

\* ... of the tuple it deletes ...
LEMMA RowThere ==
    ASSUME SessionInv, ExactSession, NEW t \in Tids, InPhase(t, {"delete"}, "got")
    PROVE  Data(t)[stmt[t].j - 1] = stmt[t].tup
<1>0. PoolExact /\ HeapInv
  BY DEF ExactSession, PoolExact
<1>1. stmt[t] # Nil /\ stmt[t].kind = "delete" /\ stmt[t].ph = "got"
  BY DEF InPhase
<1>2. cmd # Nil /\ t = cur
  BY <1>0, <1>1, CommandAlone
<1>3. /\ CallOfCmd(stmt[t]) /\ CallInPool(t) /\ SlotsApart
      /\ cmd.kind \in {"select", "delete"} => ScanOf(stmt[t])
  BY <1>1, <1>2, CallKnown
<1>4. ScanOf(stmt[t])
  BY <1>1, <1>3 DEF CallOfCmd
<1>5. PICK q \in Keys : q = PageOf(stmt[t])
  BY <1>0, <1>1, CallsPage
<1>6. disk[q] # Nil /\ Data(t) = PoolData(q)
  BY <1>0, <1>1, <1>3, <1>4, <1>5, SeenOfPage
<1>7. q.file = stmt[t].file /\ q.pageNo = stmt[t].i
  BY <1>5 DEF PageOf, Key
<1>8. stmt[t].j > 0 /\ HasRow(stmt[t])
  BY <1>0, <1>1, CallFacts DEF CallInFile, HasRow
<1> QED
  BY <1>4, <1>6, <1>7, <1>8 DEF ScanOf

\* ... and of the page an insert has been promised.
LEMMA RoomThere ==
    ASSUME SessionInv, ExactSession, NEW t \in Tids, InPhase(t, {"insert"}, "got"), stmt[t].new
    PROVE  Free(Data(t)) # {}
<1>0. PoolExact /\ HeapInv
  BY DEF ExactSession, PoolExact
<1>1. stmt[t] # Nil /\ stmt[t].kind = "insert" /\ stmt[t].ph = "got"
  BY DEF InPhase
<1>2. cmd # Nil /\ t = cur
  BY <1>0, <1>1, CommandAlone
<1>3. CallInPool(t) /\ SlotsApart
  BY <1>1, <1>2, CallKnown
<1>4. PICK q \in Keys : q = PageOf(stmt[t])
  BY <1>0, <1>1, CallsPage
<1>5. In(q) = {} /\ handle[t].page = pages[q]
  BY <1>1, <1>3, <1>4 DEF CallInPool
<1>6. In(q) = TuplesOf(Data(t))
  BY <1>0, <1>1, <1>3, <1>4, <1>5, GotInPool
<1>7. Used(Data(t)) = {}
  BY <1>5, <1>6 DEF TuplesOf
<1>8. 0 \in SlotNos
  BY SlotsAssumption DEF SlotNos
<1> QED
  BY <1>7, <1>8 DEF Free

LEMMA ExactFollows ==
    ASSUME SessionInv, ExactSession
    PROVE  FilesExact /\ StatementScanExact /\ DeletesWhatWasRead /\ InsertFindsRoom
<1>1. FilesExact
  BY FilesAreExact DEF ExactSession, PoolExact
<1>2. DeletesWhatWasRead
  BY RowThere DEF DeletesWhatWasRead
<1>3. InsertFindsRoom
  BY RoomThere DEF InsertFindsRoom
<1> QED
  BY <1>1, <1>2, <1>3, ScanFollows

\* Once haunted, always haunted.
LEMMA HauntedStays ==
    ASSUME SessionNext, haunted
    PROVE  haunted'
<1>1. CASE Work
  BY <1>1 DEF Work, InsertRow, GetStep, HeapStep, Counts, Finish, IteratorFails, Interrupt,
     LoadLine, LoadEnds, LoadInserted, LoadFlushPage, LoadCommit, shell
<1>2. CASE Command
  BY <1>2 DEF Command, Begin, CommitCmd, AbortCmd, Statement, Create, Drop, Load, shell
<1>3. CASE Signal \/ Restart
  BY <1>3 DEF Signal, Restart
<1> QED
  BY <1>1, <1>2, <1>3 DEF SessionNext

LEMMA ExactSessionNext ==
    ASSUME SessionInv, SessionInv', ExactSession, ~ haunted', SessionNext
    PROVE  ExactSession'
<1>0. detached' = detached
  BY DEF SessionNext
<1>1. CASE Work
  BY <1>0, <1>1, InsertRowExact, GetStepExact, HeapStepExact, CountsExact, FinishExact,
     IteratorFailsExact, InterruptExact, LoadLineExact, LoadEndsExact, LoadInsertedExact, LoadFlushPageExact, LoadCommitExact DEF Work
<1>2. CASE Command
  <2>1. ASSUME NEW f \in Files, Statement("select", f, 0) \/ Statement("delete", f, 0) PROVE ExactSession'
    <3>1. 0 \in 0 .. MaxRows
      BY BoundsAssumption
    <3> QED
      BY <1>0, <2>1, <3>1, StatementExact
  <2>2. ASSUME NEW f \in Files, NEW n \in 1 .. MaxRows, Statement("insert", f, n) PROVE ExactSession'
    <3>1. n \in 0 .. MaxRows
      BY BoundsAssumption
    <3> QED
      BY <1>0, <2>2, <3>1, StatementExact
  <2>3. ASSUME NEW f \in Files, Create(f) \/ Drop(f) \/ Load(f) PROVE ExactSession'
    BY <1>0, <2>3, CreateExact, DropExact, LoadExact
  <2> QED
    BY <1>0, <1>2, <2>1, <2>2, <2>3, BeginExact, CommitCmdExact, AbortCmdExact DEF Command
<1>3. CASE Signal \/ Restart
  BY <1>0, <1>3, SignalExact, RestartExact
<1> QED
  BY <1>1, <1>2, <1>3 DEF SessionNext

ExactUnlessHaunted == haunted \/ ExactSession

LEMMA ExactSessionStep == SessionInv /\ SessionInv' /\ ExactUnlessHaunted /\ [SessionNext]_allVars => ExactUnlessHaunted'
<1> SUFFICES ASSUME SessionInv, SessionInv', ExactUnlessHaunted, [SessionNext]_allVars
             PROVE  ExactUnlessHaunted'
  OBVIOUS
<1>1. CASE SessionNext
  BY <1>1, HauntedStays, ExactSessionNext DEF ExactUnlessHaunted
<1>2. CASE UNCHANGED allVars
  <2>1. /\ UNCHANGED <<below, detached, haunted>> /\ UNCHANGED <<tabs, nextTid, cmd>>
    BY <1>2 DEF allVars, below, heapVars, sessionVars
  <2>2. ExactSession => ExactSession'
    BY <2>1, StillExact
  <2> QED
    BY <2>1, <2>2 DEF ExactUnlessHaunted
<1> QED
  BY <1>1, <1>2

LEMMA ExactKept == SessionSpec => []ExactUnlessHaunted
<1>1. SessionInit => ExactUnlessHaunted
  BY ExactSessionInit DEF ExactUnlessHaunted
<1> QED
  BY <1>1, SessionKept, ExactSessionStep, PTL DEF SessionSpec

\* One shell at a time is safe where several transactions are not: as long as
\* no pages of a dropped table come back, the heap files have exactly the tuples
\* of committed statements, each in one place, a scan has returned what is
\* before its cursor and nothing else, deleteTuple finds in its slot the tuple
\* that was read, and insertTuple finds room on the page it has appended.  The
\* command loop of main.go keeps this up through interrupts that jump over the
\* commit, failed statements that are committed, loads that write pages before
\* they commit, evictions, rollbacks and restarts.
THEOREM SessionExact == SessionSpec => []SessionExactUnlessHaunted
<1>1. SessionInv /\ ExactUnlessHaunted => SessionExactUnlessHaunted
  BY ExactFollows DEF ExactUnlessHaunted, SessionExactUnlessHaunted
<1> QED
  BY <1>1, SessionKept, ExactKept, PTL

-----------------------------------------------------------------------------
(* A load loses no line                                                    *)

NoneDirty == \A k \in Keys : \A o \in Live(k) : ~ heap[k][o].dirty

\* A load, with no other transaction under way.
LoadAlone == Doing({"loadInsert", "loadFlush"}) /\ tx = Nil /\ forgotten = {}

\* The line is on a page, or is being inserted, and the pool has only clean
\* pages, of which there is always one to evict.
LineKept ==
    \/ added[cur] # {}
    \/ Doing({"loadInsert"}) /\ stmt[cur] # Nil /\ NoneDirty

LoadGetsOn == LoadAlone => LineKept

\* Nobody but the load has a lock.
LEMMA LoadHasAllLocks ==
    ASSUME SessionInv, LoadAlone, NEW t \in Tids, t = cur
    PROVE  \A u \in Tids \ {t}, k \in Keys : mapPageLocksByTid[u][k] = Nil
<1>1. Nil \notin Tids
  BY CmdNilAssumption
<1> QED
  BY <1>1 DEF SessionInv, LocksAccounted, LoadAlone

\* So nothing is in the way of its calls of GetPage.
LEMMA NothingInTheWay ==
    ASSUME SessionInv, LoadAlone, NEW t \in Tids, t = cur, NEW n, NEW perm
    PROVE  Conflicts(t, n, perm) = {}
<1>1. \A u \in Tids \ {t}, k \in Keys : mapPageLocksByTid[u][k] = Nil
  BY LoadHasAllLocks
<1> QED
  BY <1>1 DEF Conflicts, Excludes

\* A page is found, as the pool has room for it.
LEMMA RoomInPool ==
    ASSUME numPages > 0, TypeOK, NoneDirty
    PROVE  MadeRoom # {}
<1>1. \A k \in Keys : pages[k] # Nil => ~ heap[k][pages[k]].dirty
  BY PointersReach DEF NoneDirty, Reached
<1>2. CASE Cached = {}
  <2>1. Cardinality(Cached) = 0
    BY <1>2, FS_EmptySet
  <2> QED
    BY <2>1, CapacityAssumption DEF MadeRoom
<1>3. CASE Cached # {}
  <2>1. PICK v \in Cached : TRUE
    BY <1>3
  <2>2. ~ heap[v][pages[v]].dirty
    BY <1>1, <2>1 DEF Cached
  <2> QED
    BY <2>1, <2>2 DEF MadeRoom
<1> QED
  BY <1>2, <1>3

\* A step of GetPage grants the lock, or fails and rolls nothing back.
LEMMA LoadGets ==
    ASSUME SessionInv, LoadAlone, HeapInv, NEW t \in Tids, t = cur,
           NEW k \in Keys, NEW perm \in Perms, NEW o \in Objs, NEW pgs, NEW h,
           HandleTransaction(t, k, perm, o, pgs, h)
    PROVE  Granted(t, k, perm, o) /\ ~ RolledBack(t)
<1>0. TypeOK
  BY DEF HeapInv
<1>1. Conflicts(t, k.pageNo, perm) = {}
  BY NothingInTheWay
<1>2. Grant(t, k, perm) /\ handle' = [handle EXCEPT ![t] = [key |-> k, perm |-> perm, page |-> o]]
  BY <1>1 DEF HandleTransaction, Victim, Sleep
<1>3. handle'[t] = [key |-> k, perm |-> perm, page |-> o]
  BY <1>0, <1>2 DEF TypeOK
<1>4. handle'[t] # Nil /\ waiting'[t] = Nil
  <2>1. handle'[t] \in Handle
    BY <1>3 DEF Handle
  <2> QED
    BY <1>0, <1>2, <2>1, PageNilAssumption DEF TypeOK, LockTypeOK, Grant
<1>5. Granted(t, k, perm, o)
  <2>1. Granted(t, k, perm, o) \/ Undone(t) \/ Slept(t, k, perm, o)
    BY <1>0, HandleEffect
  <2> QED
    BY <1>4, <2>1 DEF Undone, Slept
<1>6. perm # Nil
  BY NilAssumption
<1> QED
  BY <1>5, <1>6 DEF Granted, RolledBack

\* As long as the pool is clean, it has the page or makes room for it.
LEMMA LoadFinds ==
    ASSUME numPages > 0, SessionInv, LoadAlone, HeapInv, NoneDirty, NEW t \in Tids, t = cur,
           NEW k \in Keys, disk[k] # Nil, NEW perm \in Perms,
           \/ GetPage(t, k, perm)
           \/ WakeGetPage(t) /\ waiting[t] = [key |-> k, perm |-> perm]
    PROVE  \E o, pgs, h : Found(k, o, pgs, h) /\ HandleTransaction(t, k, perm, o, pgs, h)
<1>0. TypeOK
  BY DEF HeapInv
<1>1. ASSUME Running(t), NEW pgs, Fails(t, pgs) PROVE FALSE
  <2>1. GetPage(t, k, perm) /\ handle'[t] = Nil
    BY <1>0, <1>1 DEF Running, WakeGetPage, Fails, TypeOK
  <2>2. GetCachedPage(t, k, perm) \/ ReadAndGetPage(t, k, perm)
    BY <1>0, <2>1, RoomInPool DEF GetPage, PoolFull, ReadPageFails
  <2>3. \E o \in Objs : \E p, h : HandleTransaction(t, k, perm, o, p, h)
    <3>1. CASE GetCachedPage(t, k, perm)
      BY <1>0, <3>1 DEF GetCachedPage, TypeOK
    <3>2. CASE ReadAndGetPage(t, k, perm)
      <4>1. Live(k) # Objs /\ Live(k) \subseteq Objs
        BY <3>2 DEF ReadAndGetPage, Live
      <4>2. Fresh(k) \in Objs
        BY <4>1 DEF Fresh
      <4> QED
        BY <3>2, <4>2 DEF ReadAndGetPage
    <3> QED
      BY <2>2, <3>1, <3>2
  <2>4. PICK o \in Objs : \E p, h : HandleTransaction(t, k, perm, o, p, h)
    BY <2>3
  <2>5. Granted(t, k, perm, o)
    BY <2>4, LoadGets
  <2>6. handle'[t] = [key |-> k, perm |-> perm, page |-> o]
    BY <2>5 DEF Granted
  <2>7. handle'[t] \in Handle
    BY <2>6 DEF Handle
  <2> QED
    BY <2>1, <2>7, PageNilAssumption
<1> QED
  BY <1>0, <1>1, GetPageFound

\* A page that is read is clean.
LEMMA StaysClean ==
    ASSUME HeapInv, NoneDirty, NEW t \in Tids, NEW k \in Keys, NEW perm \in Perms,
           NEW o, NEW pgs, NEW h, Found(k, o, pgs, h), HandleTransaction(t, k, perm, o, pgs, h)
    PROVE  NoneDirty'
<1>0. TypeOK
  BY DEF HeapInv
<1>1. heap' = Collected(h)
  BY <1>0, HandleEffect
<1>2. ASSUME NEW l \in Keys, NEW x \in Live(l)' PROVE ~ heap'[l][x].dirty
  <2>1. heap'[l][x] = h[l][x]
    BY <1>1, CollectedKeeps
  <2>2. CASE x \in Live(l)
    BY <2>1, <2>2 DEF Found, NoneDirty
  <2>3. CASE x \notin Live(l)
    <3>1. l = k /\ x = o
      BY <1>0, <2>3, GetReaches
    <3>2. h[k][o] = ReadPage(k)
      BY <2>3, <3>1 DEF Found
    <3> QED
      BY <2>1, <3>1, <3>2 DEF ReadPage
  <2> QED
    BY <2>2, <2>3
<1> QED
  BY <1>2 DEF NoneDirty

LEMMA LoadGetStep ==
    ASSUME numPages > 0, SessionInv, HeapInv, LoadGetsOn, GetStep
    PROVE  LoadGetsOn'
<1>0. TypeOK /\ CallsTyped
  BY DEF HeapInv
<1>1. /\ cmd # Nil
      /\ CallGetPage(cur) \/ Awake(cur)
      /\ cmd' = [cmd EXCEPT !.failed = stmt'[cur] = Nil /\ stmt[cur].kind # "scan"]
      /\ UNCHANGED <<tx, forgotten>>
  BY DEF GetStep, shell
<1>2. cmd \in Cmd
  BY <1>1 DEF SessionInv, SessionTypeOK
<1>3. PICK t \in Tids : t = cur
  BY <1>2 DEF Cmd, cur
<1>4. cmd'.tid = t /\ cmd'.kind = cmd.kind
  BY <1>1, <1>2, <1>3 DEF Cmd, cur
<1>5. SUFFICES ASSUME LoadAlone' PROVE LineKept'
  BY DEF LoadGetsOn
<1>6. LoadAlone /\ LineKept
  BY <1>1, <1>4, <1>5 DEF LoadAlone, Doing, LoadGetsOn
<1>7. /\ stmt[t] # Nil /\ Answered(t)
      /\ \/ GetPage(t, PageOf(stmt[t]), PermOf(stmt[t]))
         \/ WakeGetPage(t) /\ waiting[t] = [key |-> PageOf(stmt[t]), perm |-> PermOf(stmt[t])]
  BY <1>1, <1>3, HeapGets
<1>8. PICK k \in Keys, perm \in Perms : k = PageOf(stmt[t]) /\ perm = PermOf(stmt[t]) /\ disk[k] # Nil
  BY <1>7, CallsPage
<1>9. ASSUME NEW o, NEW pgs, NEW h, Found(k, o, pgs, h), HandleTransaction(t, k, perm, o, pgs, h)
      PROVE  ~ RolledBack(t) /\ stmt'[t] # Nil /\ (NoneDirty => NoneDirty')
  <2>0. o \in Objs
    BY <1>9 DEF Found
  <2>1. Granted(t, k, perm, o) /\ ~ RolledBack(t)
    BY <1>3, <1>6, <1>9, <2>0, LoadGets
  <2>2. waiting'[t] = Nil /\ handle'[t] \in Handle
    BY <2>0, <2>1 DEF Granted, Handle
  <2>3. stmt'[t] = [stmt[t] EXCEPT !.ph = "got"]
    BY <1>0, <1>7, <2>2, PageNilAssumption DEF Answered, CallsTyped
  <2>4. stmt'[t] # Nil
    <3>1. stmt[t] \in InsertCall \cup ScanCall
      BY <1>7, CallsPage
    <3>2. [stmt[t] EXCEPT !.ph = "got"] \in InsertCall \cup ScanCall
      BY <3>1, NewPhase
    <3> QED
      BY <2>3, <3>2, CallNilAssumption
  <2> QED
    BY <1>9, <2>1, <2>4, StaysClean
<1>10. ~ RolledBack(t)
  <2>1. ASSUME NEW pgs, Fails(t, pgs) PROVE ~ RolledBack(t)
    BY <2>1 DEF Fails, lockVars, RolledBack
  <2>2. \/ \E o, pgs, h : Found(k, o, pgs, h) /\ HandleTransaction(t, k, perm, o, pgs, h)
        \/ Running(t) /\ \E pgs \in MadeRoom \cup {pages} : Fails(t, pgs)
    BY <1>0, <1>7, <1>8, GetPageFound
  <2> QED
    BY <1>9, <2>1, <2>2
<1>11. added'[t] = added[t]
  BY <1>0, <1>7, <1>10 DEF Answered, CallsTyped
<1>12. ASSUME Doing({"loadInsert"}), NoneDirty
       PROVE  Doing({"loadInsert"})' /\ stmt'[t] # Nil /\ NoneDirty'
  <2>1. \E o, pgs, h : Found(k, o, pgs, h) /\ HandleTransaction(t, k, perm, o, pgs, h)
    BY <1>3, <1>6, <1>7, <1>8, <1>12, LoadFinds
  <2>2. Doing({"loadInsert"})'
    BY <1>4, <1>5, <1>12 DEF Doing, LoadAlone
  <2> QED
    BY <1>9, <1>12, <2>1, <2>2
<1> QED
  BY <1>3, <1>4, <1>6, <1>11, <1>12 DEF LineKept, cur

\* What makes a page dirty is a page object being changed.
LEMMA NothingChanged ==
    ASSUME NoneDirty, UNCHANGED <<waiting, pointers, heap>>
    PROVE  NoneDirty'
<1>1. UNCHANGED <<waiting, pages, lockPage, waitPage, handle, heap>>
  BY DEF pointers
<1>2. \A k \in Keys : Live(k)' = Live(k)
  BY <1>1 DEF Live
<1> QED
  BY <1>1, <1>2 DEF NoneDirty

\* A load begins its lines with a clean pool: a dirty page has a writer.
LEMMA LoadBegins ==
    ASSUME SessionInv, ExactSession, LoadLine
    PROVE  LoadGetsOn'
<1>0. HeapInv /\ PagesOK /\ DirtyInPool /\ TypeOK /\ CallsTyped /\ FilesContiguous
  BY DEF ExactSession, PoolExact, HeapInv
<1>1. /\ cmd # Nil /\ cmd.kind = "load" /\ nextTid \in Tids /\ UNCHANGED <<tx, forgotten>>
      /\ StartInsert(nextTid, cmd.file, NextTuple) /\ unused # {}
      /\ cmd' = [cmd EXCEPT !.kind = "loadInsert", !.tid = nextTid, !.failed = FALSE]
  BY DEF LoadLine, HaveTid, Doing
<1>2. cmd \in Cmd /\ cmd.file \in Files
  BY <1>1 DEF SessionInv, SessionTypeOK, Cmd
<1>3. cmd'.kind = "loadInsert" /\ cur' = nextTid
  BY <1>1, <1>2 DEF Cmd, cur
<1>4. SUFFICES ASSUME LoadAlone' PROVE NoneDirty' /\ stmt'[nextTid] # Nil
  BY <1>3 DEF LoadGetsOn, LoadAlone, LineKept, Doing
<1>5. tx = Nil /\ forgotten = {}
  BY <1>1, <1>4 DEF LoadAlone
<1>6. ASSUME NEW u \in Tids, NEW k \in Keys, mapPageLocksByTid[u][k] # Nil PROVE FALSE
  <2>1. u = cur
    BY <1>5, <1>6, CmdNilAssumption DEF SessionInv, LocksAccounted
  <2> QED
    BY <1>1, <1>6, <2>1 DEF SessionInv, LoadUnlocked, HasLocks, cur
<1>7. ASSUME NEW k \in Keys, NEW o \in Live(k), heap[k][o].dirty PROVE FALSE
  <2>1. o = pages[k] /\ disk[k] # Nil /\ o # Nil
    BY <1>0, <1>7, PageNilAssumption DEF DirtyInPool, HeapInv, DirtyOnDisk, Live
  <2>2. Dirty(k)
    BY <1>7, <2>1 DEF Dirty
  <2>3. \E u \in Tids : Writes(u, k)
    BY <1>0, <2>2 DEF PagesOK, TuplesOK, ChangesKnown
  <2> QED
    BY <1>6, <2>3, NilAssumption DEF Writes, Perms
<1>8. NoneDirty
  BY <1>7 DEF NoneDirty
<1>9. NoneDirty'
  BY <1>1, <1>8, NothingChanged DEF StartInsert, lockVars
<1>10. NextTuple \in Tuples
  BY <1>0, <1>1 DEF NextTuple, CallsTyped
<1>11. NumPages(cmd.file) \in Nat
  BY <1>0, <1>2, PagesCounted
<1> DEFINE d == [kind |-> "insert", ph |-> "get", file |-> cmd.file, tup |-> NextTuple, i |-> 0,
                 n |-> NumPages(cmd.file), new |-> NumPages(cmd.file) = 0]
<1>12. d \in InsertCall
  BY <1>2, <1>10, <1>11 DEF InsertCall
<1>13. stmt'[nextTid] = d
  BY <1>0, <1>1 DEF StartInsert, CallsTyped
<1> QED
  BY <1>9, <1>12, <1>13, CallNilAssumption

\* The steps of insertTuple: it has found room, or goes on to the next page.
LEMMA LoadHeapStep ==
    ASSUME SessionInv, ExactSession, LoadGetsOn, HeapStep
    PROVE  LoadGetsOn'
<1>0. HeapInv /\ TypeOK /\ CallsTyped /\ InsertFindsRoom
  BY ExactFollows DEF ExactSession, PoolExact, HeapInv
<1>1. /\ cmd # Nil /\ UNCHANGED <<cmd, tx, forgotten>>
      /\ \/ InsertTuple(cur) \/ InsertGoesOn(cur) \/ InsertDropped(cur)
         \/ ScanRow(cur) \/ ScanPageDone(cur) \/ ScanNext(cur) \/ ScanStops(cur)
         \/ DeleteRow(cur) \/ DeleteTuple(cur)
  BY DEF HeapStep, shell
<1>2. cmd \in Cmd
  BY <1>1 DEF SessionInv, SessionTypeOK
<1>3. PICK t \in Tids : t = cur
  BY <1>2 DEF Cmd, cur
<1>4. cur' = t
  BY <1>1, <1>3 DEF cur
<1>5. SUFFICES ASSUME LoadAlone' PROVE LineKept'
  BY DEF LoadGetsOn
<1>6. LoadAlone /\ LineKept
  BY <1>1, <1>5 DEF LoadAlone, Doing, LoadGetsOn
<1>7. CASE InsertTuple(t)
  <2>1. stmt[t].tup \in added'[t]
    BY <1>0, <1>7 DEF InsertTuple, CallsTyped
  <2> QED
    BY <1>4, <2>1 DEF LineKept
<1>8. CASE InsertGoesOn(t)
  <2>1. stmt[t] # Nil /\ stmt[t].kind = "insert" /\ added' = added
    BY <1>8 DEF InsertGoesOn, InPhase
  <2>2. NoneDirty => NoneDirty'
    BY <1>8, NothingChanged DEF InsertGoesOn, lockVars
  <2>3. stmt'[t] # Nil
    <3>1. stmt[t] \in InsertCall
      BY <1>0, <2>1, CallsPage DEF ScanCall
    <3>2. PICK i \in Nat, last \in BOOLEAN :
             stmt'[t] = [stmt[t] EXCEPT !.ph = "get", !.i = i, !.new = last]
      <4>1. stmt[t].i + 1 \in Nat /\ (stmt[t].i + 1 = stmt[t].n) \in BOOLEAN
        BY <3>1 DEF InsertCall
      <4> QED
        BY <1>0, <1>8, <4>1 DEF InsertGoesOn, CallsTyped
    <3>3. stmt'[t] \in InsertCall
      BY <3>1, <3>2 DEF InsertCall
    <3> QED
      BY <3>3, CallNilAssumption
  <2>4. Doing({"loadInsert"})' <=> Doing({"loadInsert"})
    BY <1>1 DEF Doing
  <2> QED
    BY <1>3, <1>4, <1>6, <2>1, <2>2, <2>3, <2>4 DEF LineKept
<1>9. CASE InsertDropped(t)
  <2>1. InPhase(t, {"insert"}, "got") /\ stmt[t].new /\ Free(Data(t)) = {}
    BY <1>9 DEF InsertDropped
  <2> QED
    BY <1>0, <2>1 DEF InsertFindsRoom
<1>10. CASE ScanRow(t) \/ ScanPageDone(t) \/ ScanNext(t) \/ ScanStops(t) \/ DeleteRow(t) \/ DeleteTuple(t)
  <2>1. stmt[t] # Nil /\ stmt[t].kind \in {"scan", "delete"} /\ added' = added
    BY <1>10 DEF ScanRow, ScanPageDone, ScanNext, ScanStops, DeleteRow, DeleteTuple, InPhase
  <2>2. cmd.kind # "loadInsert"
    BY <1>1, <1>3, <2>1, CallKnown DEF CallOfCmd
  <2> QED
    BY <1>3, <1>4, <1>6, <2>1, <2>2 DEF LineKept, Doing
<1> QED
  BY <1>1, <1>3, <1>7, <1>8, <1>9, <1>10

\* The line that has been inserted stays.
LEMMA LoadFlushes ==
    ASSUME SessionInv, LoadGetsOn, LoadInserted \/ LoadFlushPage
    PROVE  LoadGetsOn'
<1>1. /\ added' = added /\ UNCHANGED <<tx, forgotten>> /\ cmd # Nil
      /\ cmd'.tid = cmd.tid /\ (cmd.kind = "loadFlush" \/ stmt[cur] = Nil)
      /\ cmd.kind \in {"loadInsert", "loadFlush"}
  <2>1. CASE LoadInserted
    <3>1. cmd \in Cmd
      BY <2>1 DEF SessionInv, SessionTypeOK, LoadInserted, Doing
    <3> QED
      BY <2>1, <3>1 DEF LoadInserted, Doing, Idle, shell, below, StartScan, Cmd
  <2>2. CASE LoadFlushPage
    BY <2>2 DEF LoadFlushPage, Doing, shell
  <2> QED
    BY <2>1, <2>2
<1> QED
  BY <1>1 DEF LoadGetsOn, LoadAlone, LineKept, Doing, cur

\* The other steps: the command is no load, or is over.
LEMMA NotLoading ==
    ASSUME SessionInv,
           \/ InsertRow \/ Counts \/ Finish \/ IteratorFails \/ Interrupt \/ LoadEnds \/ LoadCommit
           \/ Command \/ Restart
    PROVE  LoadGetsOn'
<1>1. cmd # Nil => cmd \in Cmd
  BY DEF SessionInv, SessionTypeOK
<1>2. CASE InsertRow
  BY <1>1, <1>2 DEF InsertRow, Doing, Cmd, LoadGetsOn, LoadAlone
<1>3. CASE Counts \/ LoadCommit
  BY <1>1, <1>3 DEF Counts, LoadCommit, Doing, Cmd, LoadGetsOn, LoadAlone
<1>4. CASE Finish \/ IteratorFails \/ Interrupt \/ LoadEnds \/ Restart
  BY <1>4 DEF Finish, IteratorFails, Interrupt, LoadEnds, Restart, Doing, LoadGetsOn, LoadAlone
<1>5. CASE Command
  <2>1. CASE Begin \/ CommitCmd \/ AbortCmd
    BY <2>1 DEF Begin, CommitCmd, AbortCmd, Doing, LoadGetsOn, LoadAlone
  <2>2. ASSUME NEW f \in Files, Create(f) \/ Drop(f) \/ Load(f) PROVE LoadGetsOn'
    BY <2>2 DEF Create, Drop, Load, Doing, LoadGetsOn, LoadAlone
  <2>3. ASSUME NEW f \in Files, NEW n, NEW kind \in {"select", "delete", "insert"}, Statement(kind, f, n)
        PROVE  LoadGetsOn'
    BY <2>3 DEF Statement, Doing, LoadGetsOn, LoadAlone
  <2> QED
    BY <1>5, <2>1, <2>2, <2>3 DEF Command
<1> QED
  BY <1>2, <1>3, <1>4, <1>5

\* A step that the load does not notice.
LEMMA LoadUnaware ==
    ASSUME LoadGetsOn, UNCHANGED <<below, cmd, tx, forgotten>>
    PROVE  LoadGetsOn'
<1>1. UNCHANGED <<waiting, pointers, heap, stmt, added>>
  BY DEF below, vars, lockVars
<1>2. NoneDirty => NoneDirty'
  BY <1>1, NothingChanged
<1> QED
  BY <1>1, <1>2 DEF LoadGetsOn, LoadAlone, LineKept, Doing, cur

LoadsKeep == haunted \/ LoadGetsOn

LEMMA LoadStep ==
    ASSUME numPages > 0
    PROVE  SessionInv /\ ExactUnlessHaunted /\ LoadsKeep /\ [SessionNext]_allVars => LoadsKeep'
<1> SUFFICES ASSUME SessionInv, ExactUnlessHaunted, LoadsKeep, [SessionNext]_allVars PROVE LoadsKeep'
  OBVIOUS
<1>1. CASE UNCHANGED allVars
  <2>1. UNCHANGED <<below, cmd, tx, forgotten, haunted>>
    BY <1>1 DEF allVars, below, heapVars, sessionVars
  <2> QED
    BY <2>1, LoadUnaware DEF LoadsKeep
<1>2. CASE SessionNext /\ haunted
  BY <1>2, HauntedStays DEF LoadsKeep
<1>3. CASE SessionNext /\ ~ haunted
  <2>1. ExactSession /\ HeapInv /\ LoadGetsOn
    BY <1>3 DEF ExactUnlessHaunted, ExactSession, PoolExact, LoadsKeep
  <2>2. CASE Work
    BY <2>1, <2>2, NotLoading, LoadGetStep, LoadHeapStep, LoadBegins, LoadFlushes DEF Work, LoadsKeep
  <2>3. CASE Command \/ Restart
    BY <2>3, NotLoading DEF LoadsKeep
  <2>4. CASE Signal
    BY <2>1, <2>4, LoadUnaware DEF Signal, LoadsKeep
  <2> QED
    BY <1>3, <2>2, <2>3, <2>4 DEF SessionNext
<1> QED
  BY <1>1, <1>2, <1>3

\* LoadFromCSV commits after every line, "to avoid all pages in BP being full".
\* In a pool of at least one page (main.go makes one of 10000) this is enough: if
\* no other transaction is open and no dropped table has come back, insertTuple
\* does not fail for any line, so that LoadFromCSV, which does not look at its
\* error, has each of them on a page when it writes the pages.
THEOREM LoadsLoseNothing ==
    ASSUME numPages > 0
    PROVE  SessionSpec => []LoadKeepsLines
<1>1. SessionInit => LoadsKeep
  BY DEF SessionInit, LoadsKeep, LoadGetsOn, LoadAlone, Doing
<1>2. LoadsKeep => LoadKeepsLines
  BY DEF LoadsKeep, LoadGetsOn, LoadAlone, LineKept, LoadKeepsLines, Doing
<1>3. SessionInv /\ ExactUnlessHaunted /\ LoadsKeep /\ [SessionNext]_allVars => LoadsKeep'
  BY LoadStep
<1> QED
  BY <1>1, <1>2, <1>3, SessionKept, ExactKept, PTL DEF SessionSpec
=============================================================================
