------------------------ MODULE DeadLockSearchProofs ------------------------
(***************************************************************************)
(* deadLockPrevent finds a cycle exactly when there is one, for every      *)
(* number of transactions, every waits-for table and every order in which  *)
(* Go iterates over its maps.                                              *)
(***************************************************************************)
EXTENDS DeadLockSearch, FiniteSetTheorems, SequenceTheorems, TLAPS

\* The tids in some frame of a stack of frames s.
Pending(s) == {t \in Tids : \E i \in 1 .. Len(s) : t \in s[i]}

\* A set that contains what root waits for and is closed under waits-for.
Closed(S) == waits[root] \subseteq S /\ \A u \in S : waits[u] \subseteq S

\* Why the answer is right while the search goes on: every tid met so far is
\* reached from root, so root is in a cycle if it is met; and what a visited
\* tid waits for is visited or pending, so that once nothing is pending the
\* visited tids are a closed set without root.
Searching ==
    /\ stack # << >>
    /\ root \notin visited \cup Pending(stack)
    /\ \A u \in visited \cup {root} : waits[u] \subseteq visited \cup Pending(stack)
    /\ \A S \in SUBSET Tids : Closed(S) => visited \cup Pending(stack) \subseteq S

\* The inductive invariant.
SearchInv ==
    /\ SearchTypeOK
    /\ result = "none" => Searching
    /\ result # "none" => stack = << >>
    /\ SearchCorrect

-----------------------------------------------------------------------------
\* The stack without its top frame.
LEMMA PopFrame ==
    ASSUME stack \in Seq(SUBSET Tids), stack # << >>
    PROVE  /\ Top \in SUBSET Tids
           /\ Below \in Seq(SUBSET Tids)
           /\ Len(Below) = Len(stack) - 1
           /\ Pending(stack) = Pending(Below) \cup Top
<1>1. Len(stack) \in Nat \ {0}
  OBVIOUS
<1>2. Top \in SUBSET Tids
  BY <1>1 DEF Top
<1>3. /\ Below \in Seq(SUBSET Tids)
      /\ Len(Below) = Len(stack) - 1
      /\ \A i \in 1 .. Len(stack) - 1 : Below[i] = stack[i]
  <2>1. \A i \in 1 .. Len(stack) - 1 : stack[i] \in SUBSET Tids
    BY <1>1
  <2>2. /\ Below \in Seq(SUBSET Tids)
        /\ Len(Below) = IF 1 <= Len(stack) - 1 THEN (Len(stack) - 1) - 1 + 1 ELSE 0
        /\ \A i \in 1 .. (Len(stack) - 1) - 1 + 1 : Below[i] = stack[1 + i - 1]
    BY <1>1, <2>1, SubSeqProperties DEF Below
  <2>3. Len(Below) = Len(stack) - 1
    <3>1. \A n \in Nat \ {0} : (IF 1 <= n - 1 THEN (n - 1) - 1 + 1 ELSE 0) = n - 1
      OBVIOUS
    <3> QED
      BY <1>1, <2>2, <3>1, Zenon
  <2>4. ASSUME NEW i \in 1 .. Len(stack) - 1 PROVE Below[i] = stack[i]
    <3>1. i \in 1 .. (Len(stack) - 1) - 1 + 1 /\ 1 + i - 1 = i
      BY <1>1
    <3>2. Below[i] = stack[1 + i - 1]
      BY <2>2, <3>1
    <3> QED
      BY <3>1, <3>2
  <2> QED
    BY <2>2, <2>3, <2>4
<1>4. 1 .. Len(stack) = (1 .. Len(stack) - 1) \cup {Len(stack)}
  BY <1>1
<1>5. ASSUME NEW t \in Tids PROVE t \in Pending(stack) <=> t \in Pending(Below) \cup Top
  BY <1>3, <1>4 DEF Pending, Top
<1>6. Pending(stack) \subseteq Tids /\ Pending(Below) \subseteq Tids
  BY DEF Pending
<1> QED
  BY <1>2, <1>3, <1>5, <1>6

\* A frame pushed on a stack of frames.
LEMMA PushFrame ==
    ASSUME NEW s \in Seq(SUBSET Tids), NEW F \in SUBSET Tids
    PROVE  /\ Append(s, F) \in Seq(SUBSET Tids)
           /\ Append(s, F) # << >>
           /\ Pending(Append(s, F)) = Pending(s) \cup F
<1>1. /\ Append(s, F) \in Seq(SUBSET Tids)
      /\ Len(Append(s, F)) = Len(s) + 1
      /\ Len(s) \in Nat
      /\ \A i \in 1 .. Len(s) : Append(s, F)[i] = s[i]
      /\ Append(s, F)[Len(s) + 1] = F
  OBVIOUS
<1>2. 1 .. Len(s) + 1 = (1 .. Len(s)) \cup {Len(s) + 1}
  BY <1>1
<1>3. ASSUME NEW t \in Tids PROVE t \in Pending(Append(s, F)) <=> t \in Pending(s) \cup F
  BY <1>1, <1>2 DEF Pending
<1>4. Pending(Append(s, F)) \subseteq Tids /\ Pending(s) \subseteq Tids
  BY DEF Pending
<1>5. Append(s, F) # << >>
  BY <1>1
<1> QED
  BY <1>1, <1>3, <1>4, <1>5

\* The search begins with what root waits for.
LEMMA SearchInitInv == SearchInit => SearchInv
<1> SUFFICES ASSUME SearchInit PROVE SearchInv
  OBVIOUS
<1>1. waits \in [Tids -> SUBSET Tids] /\ root \in Tids /\ root \notin waits[root]
  BY DEF SearchInit
<1>2. stack = Append(<< >>, waits[root]) /\ << >> \in Seq(SUBSET Tids)
  BY <1>1 DEF SearchInit
<1>3. Pending(<< >>) = {}
  BY DEF Pending
<1>4. stack \in Seq(SUBSET Tids) /\ stack # << >> /\ Pending(stack) = waits[root]
  BY <1>1, <1>2, <1>3, PushFrame
<1>5. Searching
  BY <1>1, <1>4 DEF SearchInit, Searching, Closed
<1> QED
  BY <1>1, <1>4, <1>5 DEF SearchInit, SearchInv, SearchTypeOK, SearchCorrect

\* Taking a new tid and calling the search with what it waits for.
LEMMA DescendInv ==
    ASSUME SearchInv, result = "none", NEW tid \in Tids, Descend(tid), UNCHANGED <<waits, root>>
    PROVE  SearchInv'
<1> DEFINE rest == Append(Below, Top \ {tid})
<1>1. SearchTypeOK /\ Searching
  BY DEF SearchInv
<1>2. /\ Below \in Seq(SUBSET Tids)
      /\ Top \in SUBSET Tids
      /\ Pending(stack) = Pending(Below) \cup Top
  BY <1>1, PopFrame DEF SearchTypeOK, Searching
<1>3. /\ tid \in Top /\ tid \notin visited
      /\ visited' = visited \cup {tid}
      /\ Call(waits[tid], rest)
  BY DEF Descend
<1>4. waits[tid] \in SUBSET Tids
  BY <1>1 DEF SearchTypeOK
<1>5. rest \in Seq(SUBSET Tids) /\ Pending(rest) = Pending(Below) \cup (Top \ {tid})
  BY <1>2, PushFrame
<1> HIDE DEF rest
<1>6. \A S \in SUBSET Tids : Closed(S) =>
         visited \cup Pending(stack) \subseteq S /\ waits[tid] \subseteq S
  BY <1>1, <1>2, <1>3 DEF Searching, Closed
<1>7. CASE root \in waits[tid]
  <2>1. result' = "cycle" /\ stack' = << >>
    BY <1>3, <1>7 DEF Call
  <2>2. DeadLockPrevent(root, waits)
    BY <1>6, <1>7 DEF DeadLockPrevent, Closed
  <2>3. SearchTypeOK'
    BY <1>1, <1>3, <2>1 DEF SearchTypeOK
  <2> QED
    BY <2>1, <2>2, <2>3 DEF SearchInv, SearchCorrect, DeadLockPrevent
<1>8. CASE root \notin waits[tid]
  <2>1. stack' = Append(rest, waits[tid]) /\ result' = "none"
    BY <1>3, <1>8 DEF Call
  <2>2. /\ stack' \in Seq(SUBSET Tids)
        /\ stack' # << >>
        /\ Pending(stack') = Pending(rest) \cup waits[tid]
    BY <1>4, <1>5, <2>1, PushFrame
  <2>3. visited' \cup Pending(stack') = visited \cup Pending(stack) \cup waits[tid]
    BY <1>2, <1>3, <1>5, <2>2
  <2>4. SearchTypeOK'
    BY <1>1, <1>3, <2>1, <2>2 DEF SearchTypeOK
  <2>5. root \notin visited' \cup Pending(stack')
    BY <1>1, <1>8, <2>3 DEF Searching
  <2>6. \A u \in visited' \cup {root} : waits[u] \subseteq visited' \cup Pending(stack')
    BY <1>1, <1>3, <2>3 DEF Searching
  <2>7. \A S \in SUBSET Tids : Closed(S) => visited' \cup Pending(stack') \subseteq S
    BY <1>6, <2>3
  <2>8. Searching'
    <3>1. \A S : Closed(S)' <=> Closed(S)
      BY DEF Closed
    <3>2. Pending(stack)' = Pending(stack')
      BY DEF Pending
    <3> QED
      BY <2>2, <2>5, <2>6, <2>7, <3>1, <3>2 DEF Searching
  <2> QED
    BY <2>1, <2>4, <2>8 DEF SearchInv, SearchCorrect
<1> QED
  BY <1>7, <1>8

\* Passing over a tid that was visited before.
LEMMA SkipInv ==
    ASSUME SearchInv, result = "none", NEW tid \in Tids, Skip(tid), UNCHANGED <<waits, root>>
    PROVE  SearchInv'
<1>1. SearchTypeOK /\ Searching
  BY DEF SearchInv
<1>2. /\ Below \in Seq(SUBSET Tids)
      /\ Top \in SUBSET Tids
      /\ Pending(stack) = Pending(Below) \cup Top
  BY <1>1, PopFrame DEF SearchTypeOK, Searching
<1>3. tid \in visited /\ stack' = Append(Below, Top \ {tid}) /\ visited' = visited /\ result' = "none"
  BY DEF Skip
<1>4. /\ stack' \in Seq(SUBSET Tids)
      /\ stack' # << >>
      /\ Pending(stack') = Pending(Below) \cup (Top \ {tid})
  BY <1>2, <1>3, PushFrame
<1>5. visited' \cup Pending(stack') = visited \cup Pending(stack)
  BY <1>2, <1>3, <1>4
<1>6. Searching'
  <2>1. \A S : Closed(S)' <=> Closed(S)
    BY DEF Closed
  <2>2. Pending(stack)' = Pending(stack')
    BY DEF Pending
  <2> QED
    BY <1>1, <1>3, <1>4, <1>5, <2>1, <2>2 DEF Searching
<1>7. SearchTypeOK'
  BY <1>1, <1>3, <1>4 DEF SearchTypeOK
<1> QED
  BY <1>3, <1>6, <1>7 DEF SearchInv, SearchCorrect

\* A call that has found nothing returns; the outermost one has proved that
\* there is no cycle.
LEMMA ReturnInv ==
    ASSUME SearchInv, result = "none", Return, UNCHANGED <<waits, root>>
    PROVE  SearchInv'
<1>1. SearchTypeOK /\ Searching
  BY DEF SearchInv
<1>2. /\ Below \in Seq(SUBSET Tids)
      /\ Pending(stack) = Pending(Below) \cup Top
  BY <1>1, PopFrame DEF SearchTypeOK, Searching
<1>3. stack' = Below /\ visited' = visited /\ Top = {}
  BY DEF Return
<1>4. Pending(stack') = Pending(stack)
  BY <1>2, <1>3
<1>5. CASE Below = << >>
  <2>1. result' = "free"
    BY <1>5 DEF Return
  <2>2. Pending(stack) = {}
    BY <1>3, <1>4, <1>5 DEF Pending
  <2>3. Closed(visited) /\ root \notin visited /\ visited \in SUBSET Tids
    BY <1>1, <2>2 DEF Searching, Closed, SearchTypeOK
  <2>4. ~ DeadLockPrevent(root, waits)
    BY <2>3 DEF DeadLockPrevent, Closed
  <2>5. SearchTypeOK'
    BY <1>1, <1>2, <1>3, <2>1 DEF SearchTypeOK
  <2> QED
    BY <1>3, <1>5, <2>1, <2>4, <2>5 DEF SearchInv, SearchCorrect, DeadLockPrevent
<1>6. CASE Below # << >>
  <2>1. result' = "none"
    BY <1>6 DEF Return
  <2>2. Searching'
    <3>1. \A S : Closed(S)' <=> Closed(S)
      BY DEF Closed
    <3>2. Pending(stack)' = Pending(stack')
      BY DEF Pending
    <3> QED
      BY <1>1, <1>3, <1>4, <1>6, <3>1, <3>2 DEF Searching
  <2>3. SearchTypeOK'
    BY <1>1, <1>2, <1>3, <2>1 DEF SearchTypeOK
  <2> QED
    BY <2>1, <2>2, <2>3 DEF SearchInv, SearchCorrect
<1> QED
  BY <1>5, <1>6

\* Every step keeps the invariant.
LEMMA SearchStepInv == SearchInv /\ [SearchNext]_searchVars => SearchInv'
<1> SUFFICES ASSUME SearchInv, [SearchNext]_searchVars PROVE SearchInv'
  OBVIOUS
<1>1. CASE SearchNext
  <2>1. result = "none"
    BY <1>1 DEF SearchNext, SearchInv
  <2> QED
    BY <1>1, <2>1, DescendInv, SkipInv, ReturnInv DEF SearchNext
<1>2. CASE UNCHANGED searchVars
  BY <1>2 DEF searchVars, SearchInv, SearchTypeOK, Searching, SearchCorrect, Closed, Pending,
     DeadLockPrevent
<1> QED
  BY <1>1, <1>2

\* deadLockPrevent returns true exactly when root is in a cycle of the
\* waits-for table.
THEOREM SearchIsCorrect == SearchSpec => []SearchCorrect
<1>1. SearchInv => SearchCorrect
  BY DEF SearchInv
<1> QED
  BY <1>1, SearchInitInv, SearchStepInv, PTL DEF SearchSpec

-----------------------------------------------------------------------------
\* The inductive form of DepthBounded: only finitely many tids are visited.
DepthInv == IsFiniteSet(visited) /\ DepthBounded

\* Every step keeps the recursion bounded: it goes down only by marking a tid.
LEMMA DepthStep ==
    ASSUME SearchInv, DepthInv, [SearchNext]_searchVars
    PROVE  DepthInv'
<1>0. Len(stack) \in Nat /\ Cardinality(visited) \in Nat
  BY FS_CardinalityType DEF SearchInv, SearchTypeOK, DepthInv
<1>1. CASE SearchNext
  <2>1. result = "none" /\ stack # << >> /\ UNCHANGED root
    BY <1>1 DEF SearchNext, SearchInv
  <2>2. /\ Below \in Seq(SUBSET Tids)
        /\ Len(Below) = Len(stack) - 1
        /\ Top \in SUBSET Tids
        /\ root \notin Top
    BY <2>1, PopFrame DEF SearchInv, SearchTypeOK, Searching
  <2>3. ASSUME NEW tid \in Tids, Descend(tid) PROVE DepthInv'
    <3>1. tid # root /\ visited' = visited \cup {tid} /\ tid \notin visited
      BY <2>2, <2>3 DEF Descend
    <3>2. IsFiniteSet(visited') /\ Cardinality(visited') = Cardinality(visited) + 1
      BY <3>1, FS_AddElement DEF DepthInv
    <3>3. Len(stack') <= Len(stack) + 1
      <4>1. Append(Below, Top \ {tid}) \in Seq(SUBSET Tids)
            /\ Len(Append(Below, Top \ {tid})) = Len(stack)
        BY <1>0, <2>2
      <4>2. CASE root \in waits[tid]
        BY <1>0, <2>3, <4>2 DEF Descend, Call
      <4>3. CASE root \notin waits[tid]
        <5>1. stack' = Append(Append(Below, Top \ {tid}), waits[tid])
          BY <2>3, <4>3 DEF Descend, Call
        <5> QED
          BY <1>0, <4>1, <5>1
      <4> QED
        BY <4>2, <4>3
    <3>4. Len(stack') \in Nat
      <4>1. SearchTypeOK'
        BY SearchStepInv DEF SearchInv
      <4> QED
        BY <4>1 DEF SearchTypeOK
    <3> QED
      BY <1>0, <2>1, <3>1, <3>2, <3>3, <3>4 DEF DepthInv, DepthBounded
  <2>4. ASSUME NEW tid \in Tids, Skip(tid) PROVE DepthInv'
    <3>1. Len(stack') = Len(stack) /\ visited' = visited
      BY <1>0, <2>2, <2>4 DEF Skip
    <3> QED
      BY <2>1, <3>1 DEF DepthInv, DepthBounded
  <2>5. CASE Return
    <3>1. Len(stack') = Len(stack) - 1 /\ visited' = visited
      BY <2>2, <2>5 DEF Return
    <3> QED
      BY <1>0, <2>1, <3>1 DEF DepthInv, DepthBounded
  <2> QED
    BY <1>1, <2>3, <2>4, <2>5 DEF SearchNext
<1>2. CASE UNCHANGED searchVars
  BY <1>2 DEF searchVars, DepthInv, DepthBounded
<1> QED
  BY <1>1, <1>2

\* deadLockPrevent never has more calls active than it has marked tids, plus
\* the first one: it cannot recurse without end, whatever cycles the table has.
THEOREM SearchDepth == SearchSpec => []DepthBounded
<1>1. SearchInit => DepthInv
  <2> SUFFICES ASSUME SearchInit PROVE DepthInv
    OBVIOUS
  <2>1. Len(stack) = 1 /\ visited = {}
    BY DEF SearchInit
  <2> QED
    BY <2>1, FS_EmptySet DEF DepthInv, DepthBounded
<1>2. SearchInv /\ DepthInv /\ [SearchNext]_searchVars => DepthInv'
  BY DepthStep
<1>3. DepthInv => DepthBounded
  BY DEF DepthInv
<1> QED
  BY <1>1, <1>2, <1>3, SearchInitInv, SearchStepInv, PTL DEF SearchSpec
=============================================================================
