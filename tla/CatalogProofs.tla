---------------------------- MODULE CatalogProofs ----------------------------
(***************************************************************************)
(* The catalog, for any identifiers, schemas and catalog files: the list   *)
(* of the tables and the map of their names agree after any sequence of    *)
(* loads, creates and drops, the catalog file gives back what is in        *)
(* memory, columns are found where SQL says, a statement applies the       *)
(* conditions it was given, but for the cases the properties name, and a   *)
(* plan of no more joins than it needs scans every entry once.             *)
(***************************************************************************)
EXTENDS Names, Integers, FiniteSetTheorems, WellFoundedInduction, SequenceTheorems, TLAPS

-----------------------------------------------------------------------------
(* The n-th element of a set of numbers                                    *)

\* How many elements of S there are up to i.
UpTo(S, i) == {j \in S : j <= i}
Count(S, i) == Cardinality(UpTo(S, i))

LEMMA CountSteps ==
    ASSUME NEW L \in Nat, NEW S \in SUBSET (1 .. L)
    PROVE  /\ IsFiniteSet(S) /\ Cardinality(S) \in Nat
           /\ \A i \in 0 .. L : Count(S, i) \in Nat
           /\ Count(S, 0) = 0 /\ Count(S, L) = Cardinality(S)
           /\ \A i \in 1 .. L : Count(S, i) = IF i \in S THEN Count(S, i - 1) + 1 ELSE Count(S, i - 1)
<1>0. \A j \in S : j \in Int /\ 1 <= j /\ j <= L
  OBVIOUS
<1>1. IsFiniteSet(S) /\ Cardinality(S) \in Nat
  <2>1. IsFiniteSet(1 .. L)
    BY FS_Interval
  <2>2. IsFiniteSet(S)
    BY <2>1, FS_Subset
  <2> QED
    BY <2>2, FS_CardinalityType
<1>2. ASSUME NEW i \in 0 .. L PROVE IsFiniteSet(UpTo(S, i)) /\ Count(S, i) \in Nat
  BY <1>1, FS_Subset, FS_CardinalityType DEF UpTo, Count
<1>3. UpTo(S, 0) = {} /\ UpTo(S, L) = S
  <2>1. \A j \in S : ~ (j <= 0) /\ j <= L
    BY <1>0
  <2>2. \A j : j \notin UpTo(S, 0)
    BY <2>1 DEF UpTo
  <2>3. \A j : j \in UpTo(S, L) <=> j \in S
    BY <2>1 DEF UpTo
  <2> QED
    BY <2>2, <2>3
<1>4. Count(S, 0) = 0 /\ Count(S, L) = Cardinality(S)
  BY <1>3, FS_EmptySet DEF Count
<1>5. ASSUME NEW i \in 1 .. L
      PROVE  Count(S, i) = IF i \in S THEN Count(S, i - 1) + 1 ELSE Count(S, i - 1)
  <2>1. i - 1 \in 0 .. L
    OBVIOUS
  <2>2. IsFiniteSet(UpTo(S, i - 1))
    BY <1>2, <2>1
  <2>3. UpTo(S, i) = IF i \in S THEN UpTo(S, i - 1) \cup {i} ELSE UpTo(S, i - 1)
    <3>1. ASSUME NEW j \in S PROVE j <= i <=> (j <= i - 1 \/ j = i)
      BY <1>0
    <3>2. ~ (i \in S) => \A j \in S : j # i
      OBVIOUS
    <3> QED
      BY <3>1, <3>2 DEF UpTo
  <2>4. i \notin UpTo(S, i - 1)
    BY DEF UpTo
  <2>5. Cardinality(UpTo(S, i - 1) \cup {i}) = Cardinality(UpTo(S, i - 1)) + 1
    BY <2>2, <2>4, FS_AddElement
  <2> QED
    BY <2>3, <2>5 DEF Count
<1> QED
  BY <1>1, <1>2, <1>4, <1>5

\* A set of numbers with at least n elements has an n-th one.
LEMMA NthExists ==
    ASSUME NEW L \in Nat, NEW S \in SUBSET (1 .. L), NEW n \in 1 .. Cardinality(S)
    PROVE  \E i \in S : Count(S, i) = n
<1>1. /\ Cardinality(S) \in Nat
      /\ \A i \in 0 .. L : Count(S, i) \in Nat
      /\ Count(S, 0) = 0 /\ Count(S, L) = Cardinality(S)
      /\ \A i \in 1 .. L : Count(S, i) = IF i \in S THEN Count(S, i - 1) + 1 ELSE Count(S, i - 1)
  BY CountSteps
<1> DEFINE E == {i \in 0 .. L : Count(S, i) >= n}
           less == OpToRel(<, Nat)
<1>2. L \in E /\ E \subseteq Nat
  BY <1>1
<1>3. IsWellFoundedOn(less, Nat)
  BY NatLessThanWellFounded
<1>4. \A x, y \in Nat : <<x, y>> \in less <=> x < y
  BY DEF OpToRel
<1> HIDE DEF less
<1>5. PICK i \in E : \A y \in E : ~ (<<y, i>> \in less)
  <2>1. E # {}
    BY <1>2
  <2> HIDE DEF E
  <2> QED
    BY <1>2, <1>3, <2>1, WFMin
<1>6. i \in 0 .. L /\ Count(S, i) >= n /\ i # 0
  BY <1>1, <1>5
<1>7. i - 1 \in Nat /\ i - 1 < i /\ i - 1 \in 0 .. L /\ i \in 1 .. L
  BY <1>6
<1>8. ~ (<<i - 1, i>> \in less) => ~ (i - 1 < i)
  BY <1>2, <1>4, <1>5, <1>7
<1>9. i - 1 \notin E
  BY <1>5, <1>7, <1>8
<1>10. Count(S, i - 1) < n /\ Count(S, i - 1) \in Nat
  BY <1>1, <1>7, <1>9
<1> QED
  BY <1>1, <1>6, <1>7, <1>10

\* Later elements have more elements before them.
LEMMA CountGrows ==
    ASSUME NEW L \in Nat, NEW S \in SUBSET (1 .. L), NEW i \in S, NEW j \in S, i < j
    PROVE  Count(S, i) < Count(S, j)
<1>1. /\ i \in 1 .. L /\ j \in 1 .. L /\ i \in Int /\ j \in Int
      /\ \A k \in S : k \in Int
  OBVIOUS
<1>2. IsFiniteSet(S) /\ \A k \in 0 .. L : Count(S, k) \in Nat
  BY CountSteps
<1>6. Count(S, i) \in Nat /\ Count(S, j) \in Nat
  BY <1>1, <1>2
<1>7. UpTo(S, j) \subseteq S /\ UpTo(S, i) \subseteq S
  BY DEF UpTo
<1>8. IsFiniteSet(UpTo(S, j)) /\ IsFiniteSet(UpTo(S, i))
  BY <1>2, <1>7, FS_Subset
<1>3. UpTo(S, i) \cup {j} \subseteq UpTo(S, j) /\ j \notin UpTo(S, i)
  <2>1. \A k \in S : k <= i => k <= j
    BY <1>1
  <2>2. ~ (j <= i) /\ j <= j
    BY <1>1
  <2> QED
    BY <2>1, <2>2 DEF UpTo
<1>4. Cardinality(UpTo(S, i) \cup {j}) = Cardinality(UpTo(S, i)) + 1
  BY <1>3, <1>8, FS_AddElement
<1>5. Cardinality(UpTo(S, i) \cup {j}) <= Cardinality(UpTo(S, j))
  BY <1>3, <1>8, FS_Subset
<1> QED
  BY <1>4, <1>5, <1>6 DEF Count

\* In 1 .. L every number is in its place.
LEMMA AllCount ==
    ASSUME NEW L \in Nat, NEW i \in 1 .. L
    PROVE  Count(1 .. L, i) = i
<1>1. UpTo(1 .. L, i) = 1 .. i
  BY DEF UpTo
<1> QED
  BY <1>1, FS_Interval DEF Count

\* The n-th element of S.
Nth(S, n) == CHOOSE i \in S : Count(S, i) = n

\* What Picked picks.
LEMMA PickedIs ==
    ASSUME NEW L \in Nat, NEW S \in SUBSET (1 .. L), NEW s
    PROVE  /\ Cardinality(S) \in Nat
           /\ Picked(s, S) = [n \in 1 .. Cardinality(S) |-> s[Nth(S, n)]]
           /\ \A n \in 1 .. Cardinality(S) : Nth(S, n) \in S /\ Count(S, Nth(S, n)) = n
           /\ \A i \in S : \E n \in 1 .. Cardinality(S) : Nth(S, n) = i
<1>1. Cardinality(S) \in Nat
  BY CountSteps
<1>2. Picked(s, S) = [n \in 1 .. Cardinality(S) |-> s[Nth(S, n)]]
  BY DEF Picked, Nth, Count, UpTo
<1>3. ASSUME NEW n \in 1 .. Cardinality(S) PROVE Nth(S, n) \in S /\ Count(S, Nth(S, n)) = n
  <2>1. \E i \in S : Count(S, i) = n
    BY NthExists
  <2> QED
    BY <2>1 DEF Nth
<1>4. ASSUME NEW i \in S PROVE Count(S, i) \in 1 .. Cardinality(S) /\ Nth(S, Count(S, i)) = i
  <2>1. \A k \in S : k \in 1 .. L /\ k \in Int
    OBVIOUS
  <2>2. IsFiniteSet(S) /\ Count(S, i) \in Nat
    BY <2>1, CountSteps
  <2>3. UpTo(S, i) \subseteq S /\ i \in UpTo(S, i)
    BY <2>1 DEF UpTo
  <2>4. IsFiniteSet(UpTo(S, i)) /\ Count(S, i) <= Cardinality(S)
    BY <2>2, <2>3, FS_Subset DEF Count
  <2>5. Count(S, i) # 0
    BY <2>3, <2>4, FS_EmptySet DEF Count
  <2>6. Count(S, i) \in 1 .. Cardinality(S)
    BY <1>1, <2>2, <2>4, <2>5
  <2>7. Nth(S, Count(S, i)) \in S /\ Count(S, Nth(S, Count(S, i))) = Count(S, i)
    BY <1>3, <2>6
  <2>8. \A j \in S : Count(S, j) = Count(S, i) => j = i
    <3>1. ASSUME NEW j \in S, Count(S, j) = Count(S, i) PROVE j = i
      <4>1. ~ (j < i)
        BY <2>2, <3>1, CountGrows
      <4>2. ASSUME i < j PROVE FALSE
        <5>1. Count(S, i) < Count(S, j)
          BY <4>2, CountGrows
        <5> QED
          BY <2>2, <3>1, <5>1
      <4> QED
        BY <2>1, <4>1, <4>2
    <3> QED
      BY <3>1
  <2> QED
    BY <2>6, <2>7, <2>8
<1> QED
  BY <1>1, <1>2, <1>3, <1>4

-----------------------------------------------------------------------------
(* Reading a catalog file                                                  *)

\* Lower case entries are left alone by another reading.
LEMMA LowerTwice ==
    ASSUME NEW t \in Tables
    PROVE  /\ LowerEntry(t) \in Tables
           /\ LowerEntry(t).name = Lower(t.name)
           /\ LowerEntry(LowerEntry(t)) = LowerEntry(t)
<1> DEFINE cs == t.cols
           ds == [i \in DOMAIN cs |-> Lower(cs[i])]
<1>1. t.name \in Idents /\ cs \in Schemas
  BY DEF Tables
<1>2. cs \in Seq(Idents) /\ ds \in Schemas
  BY <1>1, SchemasAssumption
<1>3. \A i \in DOMAIN cs : cs[i] \in Idents
  BY <1>2
<1> HIDE DEF cs
<1>4. DOMAIN ds = DOMAIN cs /\ \A i \in DOMAIN cs : ds[i] = Lower(cs[i])
  OBVIOUS
<1>5. [i \in DOMAIN ds |-> Lower(ds[i])] = ds
  BY <1>3, LowerAssumption
<1>6. LowerEntry(t) = [name |-> Lower(t.name), cols |-> ds]
  BY DEF LowerEntry, cs
<1> HIDE DEF ds
<1>7. LowerEntry(LowerEntry(t)) = [name |-> Lower(Lower(t.name)), cols |-> [i \in DOMAIN ds |-> Lower(ds[i])]]
  BY <1>6 DEF LowerEntry
<1>8. Lower(t.name) \in Idents /\ Lower(Lower(t.name)) = Lower(t.name)
  BY <1>1, LowerAssumption
<1>9. LowerEntry(t) \in Tables
  BY <1>2, <1>6, <1>8 DEF Tables
<1> QED
  BY <1>5, <1>6, <1>7, <1>8, <1>9

Lowered(lines) == [i \in DOMAIN lines |-> LowerEntry(lines[i])]

LEMMA ReloadIs ==
    ASSUME NEW lines
    PROVE  Reload(lines) = Picked(Lowered(lines), Kept(Lowered(lines)))
  BY DEF Reload, Lowered

\* No name is there twice.
Unique(ts) == \A i, j \in DOMAIN ts : ts[i].name = ts[j].name => i = j

LEMMA LoweredTyped ==
    ASSUME NEW lines \in Seq(Tables)
    PROVE  /\ Lowered(lines) \in Seq(Tables)
           /\ Len(Lowered(lines)) = Len(lines)
           /\ DOMAIN Lowered(lines) = 1 .. Len(lines)
           /\ \A i \in DOMAIN lines : Lowered(lines)[i] = LowerEntry(lines[i])
           /\ \A i \in DOMAIN lines : LowerEntry(Lowered(lines)[i]) = Lowered(lines)[i]
<1>1. \A i \in 1 .. Len(lines) : lines[i] \in Tables
  OBVIOUS
<1>2. /\ DOMAIN Lowered(lines) = 1 .. Len(lines)
      /\ \A i \in 1 .. Len(lines) : Lowered(lines)[i] = LowerEntry(lines[i])
  BY DEF Lowered
<1>3. \A i \in 1 .. Len(lines) :
          Lowered(lines)[i] \in Tables /\ LowerEntry(Lowered(lines)[i]) = Lowered(lines)[i]
  BY <1>1, <1>2, LowerTwice
<1>4. Lowered(lines) = [i \in 1 .. Len(lines) |-> Lowered(lines)[i]]
  BY DEF Lowered
<1>5. Len(lines) \in Nat
  OBVIOUS
<1>6. Lowered(lines) \in Seq(Tables) /\ Len(Lowered(lines)) = Len(lines)
  BY <1>3, <1>4, <1>5
<1> QED
  BY <1>2, <1>3, <1>6

\* What NewCatalogFromFile makes of a readable file: lower case tables, no
\* name twice.
LEMMA ReloadTyped ==
    ASSUME NEW lines \in Seq(Tables)
    PROVE  /\ Reload(lines) \in Seq(Tables)
           /\ Unique(Reload(lines))
           /\ \A i \in DOMAIN Reload(lines) : LowerEntry(Reload(lines)[i]) = Reload(lines)[i]
<1> DEFINE ls == Lowered(lines)
           S == Kept(ls)
           m == Cardinality(S)
           R == Reload(lines)
<1>1. /\ ls \in Seq(Tables) /\ Len(lines) \in Nat /\ DOMAIN ls = 1 .. Len(lines)
      /\ \A i \in DOMAIN ls : LowerEntry(ls[i]) = ls[i]
  BY LoweredTyped
<1>2. S \in SUBSET (1 .. Len(lines))
  BY <1>1 DEF Kept
<1>3. m \in Nat
  BY <1>1, <1>2, CountSteps
<1>4. ASSUME NEW n \in 1 .. m PROVE Nth(S, n) \in S /\ Count(S, Nth(S, n)) = n
  BY <1>1, <1>2, PickedIs
<1>5. R = [n \in 1 .. m |-> ls[Nth(S, n)]]
  <2>1. R = Picked(ls, S)
    BY ReloadIs
  <2> HIDE DEF ls, S, R
  <2>2. Picked(ls, S) = [n \in 1 .. m |-> ls[Nth(S, n)]]
    BY DEF Picked, Nth, Count, UpTo
  <2> QED
    BY <2>1, <2>2
<1> HIDE DEF ls, S, m, R
<1>6. /\ DOMAIN R = 1 .. m
      /\ \A n \in 1 .. m : R[n] = ls[Nth(S, n)] /\ Nth(S, n) \in DOMAIN ls
  BY <1>1, <1>2, <1>4, <1>5
<1>7. \A n \in 1 .. m : R[n] \in Tables /\ LowerEntry(R[n]) = R[n]
  BY <1>1, <1>6
<1>8. R \in Seq(Tables)
  BY <1>3, <1>5, <1>6, <1>7
<1>9. \A i, j \in S : ls[i].name = ls[j].name => i = j
  <2>1. ASSUME NEW i \in S, NEW j \in S, ls[i].name = ls[j].name, i < j PROVE FALSE
    <3>1. i \in 1 .. j - 1
      BY <1>1, <1>2, <2>1
    <3>2. ls[i].name # ls[j].name
      BY <2>1, <3>1 DEF S, Kept
    <3> QED
      BY <2>1, <3>2
  <2>2. \A i, j \in S : i < j \/ j < i \/ i = j
    BY <1>1, <1>2
  <2> QED
    BY <2>1, <2>2
<1>10. ASSUME NEW a \in 1 .. m, NEW b \in 1 .. m, R[a].name = R[b].name PROVE a = b
  <2>1. Nth(S, a) = Nth(S, b)
    BY <1>4, <1>6, <1>9, <1>10
  <2> QED
    BY <1>4, <2>1
<1> QED
  BY <1>6, <1>7, <1>8, <1>10 DEF Unique, R

\* A file with no name twice gives back all its tables, in lower case.
LEMMA ReloadAll ==
    ASSUME NEW ts \in Seq(Tables), Unique(Lowered(ts))
    PROVE  Reload(ts) = Lowered(ts)
<1> DEFINE ls == Lowered(ts)
           L == Len(ts)
<1>1. ls \in Seq(Tables) /\ L \in Nat /\ DOMAIN ls = 1 .. L /\ Len(ls) = L
  BY LoweredTyped
<1>2. Kept(ls) = 1 .. L
  <2>1. ASSUME NEW i \in 1 .. L, NEW j \in 1 .. i - 1 PROVE ls[j].name # ls[i].name
    <3>1. j \in 1 .. L /\ j # i
      BY <1>1
    <3> QED
      BY <1>1, <3>1 DEF Unique
  <2> QED
    BY <1>1, <2>1 DEF Kept
<1>3. ASSUME NEW n \in 1 .. L PROVE Nth(1 .. L, n) = n
  <2>1. \A i \in 1 .. L : Count(1 .. L, i) = i
    BY <1>1, AllCount
  <2> QED
    BY <2>1 DEF Nth
<1>4. Cardinality(Kept(ls)) = L
  <2> HIDE DEF L
  <2>1. L \in Int /\ 1 \in Int
    BY <1>1
  <2>2. Cardinality(1 .. L) = L
    BY <1>1, <2>1, FS_Interval
  <2> QED
    BY <1>2, <2>2
<1>5. Reload(ts) = [n \in 1 .. Cardinality(Kept(ls)) |-> ls[Nth(Kept(ls), n)]]
  <2>1. Kept(ls) \in SUBSET (1 .. L)
    BY <1>2
  <2>2. Reload(ts) = Picked(ls, Kept(ls))
    BY ReloadIs
  <2> HIDE DEF ls, L
  <2>3. Picked(ls, Kept(ls)) = [n \in 1 .. Cardinality(Kept(ls)) |-> ls[Nth(Kept(ls), n)]]
    BY DEF Picked, Nth, Count, UpTo
  <2> QED
    BY <2>2, <2>3
<1> HIDE DEF ls, L
<1>6. Reload(ts) = [n \in 1 .. L |-> ls[n]]
  BY <1>2, <1>3, <1>4, <1>5
<1>7. [n \in 1 .. L |-> ls[n]] = ls
  BY <1>1
<1> QED
  BY <1>6, <1>7 DEF ls

\* A catalog that was just read is read again as it is.
LEMMA ReloadTwice ==
    ASSUME NEW lines \in Seq(Tables)
    PROVE  Reload(Reload(lines)) = Reload(lines)
<1> DEFINE R == Reload(lines)
<1>1. R \in Seq(Tables) /\ Unique(R) /\ \A i \in DOMAIN R : LowerEntry(R[i]) = R[i]
  BY ReloadTyped
<1> HIDE DEF R
<1>2. Lowered(R) = [i \in DOMAIN R |-> R[i]]
  BY <1>1 DEF Lowered
<1>3. Lowered(R) = R
  BY <1>1, <1>2
<1>4. Reload(R) = R
  BY <1>1, <1>3, ReloadAll
<1> QED
  BY <1>4 DEF R

-----------------------------------------------------------------------------
(* The maps                                                                *)

LEMMA MapTyped ==
    ASSUME NEW ts \in Seq(Tables)
    PROVE  /\ MapOf(ts) \in [Idents -> Tables \cup {NoTable}]
           /\ \A n \in Idents : MapOf(ts)[n] = NoTable <=> Listed(ts, n) = {}
           /\ \A n \in Idents : Listed(ts, n) # {} => MapOf(ts)[n].name = n
           /\ Unique(ts) => \A i \in DOMAIN ts : ts[i].name \in Idents /\ MapOf(ts)[ts[i].name] = ts[i]
<1>0. \A i \in DOMAIN ts : ts[i] \in Tables
  OBVIOUS
<1>1. \A i \in DOMAIN ts : ts[i] \in Tables /\ ts[i].name \in Idents
  BY <1>0 DEF Tables
<1>2. ASSUME NEW n \in Idents, Listed(ts, n) # {}
      PROVE  \E i \in DOMAIN ts : MapOf(ts)[n] = ts[i] /\ ts[i].name = n
  <2>1. (CHOOSE i \in Listed(ts, n) : TRUE) \in Listed(ts, n)
    BY <1>2
  <2> QED
    BY <1>2, <2>1 DEF MapOf, Listed
<1>3. ASSUME NEW n \in Idents, Listed(ts, n) = {} PROVE MapOf(ts)[n] = NoTable
  BY <1>3 DEF MapOf
<1>4. ASSUME NEW n \in Idents PROVE MapOf(ts)[n] \in Tables \cup {NoTable}
  BY <1>1, <1>2, <1>3
<1>5. MapOf(ts) = [n \in Idents |-> MapOf(ts)[n]]
  BY DEF MapOf
<1>6. MapOf(ts) \in [Idents -> Tables \cup {NoTable}]
  BY <1>4, <1>5
<1>7. \A n \in Idents : Listed(ts, n) # {} => MapOf(ts)[n].name = n
  BY <1>2
<1>8. ASSUME NEW n \in Idents PROVE MapOf(ts)[n] = NoTable <=> Listed(ts, n) = {}
  BY <1>1, <1>2, <1>3, NoTableAssumption
<1>9. ASSUME Unique(ts), NEW i \in DOMAIN ts PROVE MapOf(ts)[ts[i].name] = ts[i]
  <2>1. ts[i].name \in Idents /\ i \in Listed(ts, ts[i].name)
    BY <1>1 DEF Listed
  <2>2. PICK j \in DOMAIN ts : MapOf(ts)[ts[i].name] = ts[j] /\ ts[j].name = ts[i].name
    BY <1>2, <2>1
  <2>3. i = j
    BY <1>9, <2>2 DEF Unique
  <2> QED
    BY <2>2, <2>3
<1> QED
  BY <1>1, <1>6, <1>7, <1>8, <1>9

\* A map that has the tables of ts, and no other, is the map of ts.
LEMMA MapIs ==
    ASSUME NEW ts \in Seq(Tables), Unique(ts), NEW m \in [Idents -> Tables \cup {NoTable}],
           \A i \in DOMAIN ts : m[ts[i].name] = ts[i],
           \A n \in Idents : (\A i \in DOMAIN ts : ts[i].name # n) => m[n] = NoTable
    PROVE  m = MapOf(ts)
<1>1. ASSUME NEW n \in Idents PROVE m[n] = MapOf(ts)[n]
  <2>1. CASE Listed(ts, n) = {}
    <3>1. MapOf(ts)[n] = NoTable
      BY <2>1, MapTyped
    <3>2. \A i \in DOMAIN ts : ts[i].name # n
      BY <2>1 DEF Listed
    <3> QED
      BY <3>1, <3>2
  <2>2. CASE Listed(ts, n) # {}
    <3>1. PICK i \in DOMAIN ts : ts[i].name = n
      BY <2>2 DEF Listed
    <3>2. MapOf(ts)[n] = ts[i]
      BY <3>1, MapTyped
    <3> QED
      BY <3>1, <3>2
  <2> QED
    BY <2>1, <2>2
<1>2. MapOf(ts) = [n \in Idents |-> MapOf(ts)[n]]
  BY DEF MapOf
<1> QED
  BY <1>1, <1>2

LEMMA OccurrencesNat ==
    ASSUME NEW t \in Tables, NEW col
    PROVE  Occurrences(col, t.cols) \in Nat
<1> DEFINE cs == t.cols
<1>1. cs \in Seq(Idents)
  BY SchemasAssumption DEF Tables
<1>2. DOMAIN cs = 1 .. Len(cs) /\ Len(cs) \in Nat
  BY <1>1
<1> HIDE DEF cs
<1>3. IsFiniteSet(DOMAIN cs)
  BY <1>2, FS_Interval
<1>4. IsFiniteSet({i \in DOMAIN cs : cs[i] = col})
  BY <1>3, FS_Subset
<1> QED
  BY <1>4, FS_CardinalityType DEF Occurrences, cs

LEMMA ColumnsTyped ==
    ASSUME NEW ts \in Seq(Tables)
    PROVE  ColumnsOf(ts) \in [Idents -> [Idents -> Nat]]
<1>1. ASSUME NEW n \in Idents, NEW col \in Idents
      PROVE  (IF MapOf(ts)[n] = NoTable THEN 0 ELSE Occurrences(col, MapOf(ts)[n].cols)) \in Nat
  <2>1. MapOf(ts)[n] \in Tables \cup {NoTable}
    BY MapTyped
  <2> QED
    BY <2>1, OccurrencesNat
<1> QED
  BY <1>1 DEF ColumnsOf

\* CREATE TABLE adds the table at the end.
LEMMA AppendedMap ==
    ASSUME NEW ts \in Seq(Tables), Unique(ts), NEW e \in Tables, MapOf(ts)[e.name] = NoTable
    PROVE  /\ Append(ts, e) \in Seq(Tables) /\ Unique(Append(ts, e))
           /\ MapOf(Append(ts, e)) = [MapOf(ts) EXCEPT ![e.name] = e]
<1> DEFINE us == Append(ts, e)
           m == [MapOf(ts) EXCEPT ![e.name] = e]
<1>0. e.name \in Idents
  BY DEF Tables
<1>1. us \in Seq(Tables) /\ DOMAIN us = 1 .. Len(ts) + 1 /\ Len(ts) \in Nat /\ DOMAIN ts = 1 .. Len(ts)
  OBVIOUS
<1>2. us[Len(ts) + 1] = e /\ \A i \in 1 .. Len(ts) : us[i] = ts[i]
  OBVIOUS
<1>3. \A i \in 1 .. Len(ts) : ts[i].name # e.name
  <2>1. Listed(ts, e.name) = {}
    BY <1>0, MapTyped
  <2> QED
    BY <1>1, <2>1 DEF Listed
<1> HIDE DEF us
<1>4. \A i \in DOMAIN us : i \in 1 .. Len(ts) \/ i = Len(ts) + 1
  BY <1>1
<1>5. Unique(us)
  BY <1>1, <1>2, <1>3, <1>4 DEF Unique
<1>6. MapOf(ts) \in [Idents -> Tables \cup {NoTable}]
  BY MapTyped
<1>7. m \in [Idents -> Tables \cup {NoTable}] /\ m[e.name] = e /\ \A n \in Idents : n # e.name => m[n] = MapOf(ts)[n]
  BY <1>0, <1>6
<1> HIDE DEF m
<1>8. ASSUME NEW i \in DOMAIN us PROVE m[us[i].name] = us[i]
  <2>1. CASE i \in 1 .. Len(ts)
    <3>1. MapOf(ts)[ts[i].name] = ts[i] /\ ts[i].name \in Idents
      BY <1>1, <2>1, MapTyped
    <3> QED
      BY <1>2, <1>3, <1>7, <2>1, <3>1
  <2>2. CASE i = Len(ts) + 1
    BY <1>2, <1>7, <2>2
  <2> QED
    BY <1>4, <2>1, <2>2
<1>9. ASSUME NEW n \in Idents, \A i \in DOMAIN us : us[i].name # n PROVE m[n] = NoTable
  <2>1. n # e.name
    BY <1>1, <1>2, <1>9
  <2>2. \A i \in DOMAIN ts : ts[i].name # n
    BY <1>1, <1>2, <1>9
  <2>3. MapOf(ts)[n] = NoTable
    BY <2>2, MapTyped DEF Listed
  <2> QED
    BY <1>7, <2>1, <2>3
<1>10. m = MapOf(us)
  <2>1. \A i \in DOMAIN us : m[us[i].name] = us[i]
    BY <1>8
  <2>2. \A n \in Idents : (\A i \in DOMAIN us : us[i].name # n) => m[n] = NoTable
    BY <1>9
  <2> QED
    BY <1>1, <1>5, <1>7, <2>1, <2>2, MapIs, Zenon
<1> QED
  BY <1>1, <1>5, <1>10 DEF us, m

\* DROP TABLE takes the table out of the list, and the others move up.
LEMMA RemovedIs ==
    ASSUME NEW ts \in Seq(Tables), Unique(ts), NEW n, NEW i \in DOMAIN ts, ts[i].name = n
    PROVE  /\ Removed(ts, n) \in Seq(Tables)
           /\ DOMAIN Removed(ts, n) = 1 .. Len(ts) - 1
           /\ \A j \in 1 .. Len(ts) - 1 : Removed(ts, n)[j] = IF j < i THEN ts[j] ELSE ts[j + 1]
<1>1. Listed(ts, n) = {i}
  BY DEF Listed, Unique
<1>2. i \in 1 .. Len(ts) /\ Len(ts) \in Nat
  OBVIOUS
<1>3. (CHOOSE k \in Listed(ts, n) : \A j \in Listed(ts, n) : k <= j) = i
  BY <1>1, <1>2
<1>4. Removed(ts, n) = SubSeq(ts, 1, i - 1) \o SubSeq(ts, i + 1, Len(ts))
  BY <1>3 DEF Removed
<1> DEFINE a == SubSeq(ts, 1, i - 1)
           b == SubSeq(ts, i + 1, Len(ts))
<1>5. a \in Seq(Tables) /\ Len(a) = i - 1 /\ \A j \in 1 .. i - 1 : a[j] = ts[j]
  BY <1>2
<1>6. b \in Seq(Tables) /\ Len(b) = Len(ts) - i /\ \A j \in 1 .. Len(ts) - i : b[j] = ts[i + j]
  BY <1>2
<1> HIDE DEF a, b
<1>7. a \o b \in Seq(Tables) /\ Len(a \o b) = Len(ts) - 1
  BY <1>2, <1>5, <1>6
<1>8. ASSUME NEW j \in 1 .. Len(ts) - 1 PROVE (a \o b)[j] = IF j < i THEN ts[j] ELSE ts[j + 1]
  <2>0. j \in 1 .. Len(a) + Len(b) /\ Len(a) \in Nat /\ Len(b) \in Nat
    BY <1>2, <1>5, <1>6
  <2>1. (a \o b)[j] = IF j <= Len(a) THEN a[j] ELSE b[j - Len(a)]
    BY <1>5, <1>6, <2>0
  <2>2. CASE j < i
    BY <1>2, <1>5, <2>1, <2>2
  <2>3. CASE ~ (j < i)
    <3>1. j - (i - 1) \in 1 .. Len(ts) - i /\ i + (j - (i - 1)) = j + 1
      BY <1>2, <2>3
    <3>2. ~ (j <= Len(a)) /\ j - Len(a) = j - (i - 1)
      BY <1>2, <1>5, <2>3
    <3>3. (a \o b)[j] = b[j - (i - 1)]
      BY <2>1, <3>2
    <3>4. b[j - (i - 1)] = ts[j + 1]
      BY <1>6, <3>1
    <3> QED
      BY <2>3, <3>3, <3>4
  <2> QED
    BY <2>2, <2>3
<1>9. DOMAIN (a \o b) = 1 .. Len(ts) - 1
  BY <1>7
<1>10. Removed(ts, n) = a \o b
  BY <1>4 DEF a, b
<1> QED
  BY <1>7, <1>8, <1>9, <1>10

LEMMA RemovedMap ==
    ASSUME NEW ts \in Seq(Tables), Unique(ts), NEW n \in Idents, Listed(ts, n) # {}
    PROVE  /\ Removed(ts, n) \in Seq(Tables) /\ Unique(Removed(ts, n))
           /\ MapOf(Removed(ts, n)) = [MapOf(ts) EXCEPT ![n] = NoTable]
<1> DEFINE us == Removed(ts, n)
           m == [MapOf(ts) EXCEPT ![n] = NoTable]
           at(i, j) == IF j < i THEN j ELSE j + 1
<1>1. PICK i \in DOMAIN ts : ts[i].name = n
  BY DEF Listed
<1>2. us \in Seq(Tables) /\ DOMAIN us = 1 .. Len(ts) - 1
      /\ \A j \in 1 .. Len(ts) - 1 : us[j] = IF j < i THEN ts[j] ELSE ts[j + 1]
  BY <1>1, RemovedIs
<1> HIDE DEF us
<1>3. i \in Nat /\ i \in 1 .. Len(ts) /\ Len(ts) \in Nat /\ DOMAIN ts = 1 .. Len(ts)
  OBVIOUS
<1>4. \A j \in DOMAIN us : at(i, j) \in DOMAIN ts /\ at(i, j) # i /\ us[j] = ts[at(i, j)]
  BY <1>2, <1>3
<1>5. \A j, k \in DOMAIN us : at(i, j) = at(i, k) => j = k
  BY <1>2, <1>3
<1>6. ASSUME NEW k \in DOMAIN ts, k # i PROVE \E j \in DOMAIN us : at(i, j) = k
  <2>1. CASE k < i
    <3>1. k \in DOMAIN us
      BY <1>2, <1>3, <2>1
    <3> QED
      BY <2>1, <3>1
  <2>2. CASE k > i
    <3>1. k - 1 \in DOMAIN us /\ ~ (k - 1 < i) /\ (k - 1) + 1 = k
      BY <1>2, <1>3, <2>2
    <3> QED
      BY <3>1
  <2> QED
    BY <1>3, <1>6, <2>1, <2>2
<1> HIDE DEF at
<1>7. Unique(us)
  BY <1>4, <1>5 DEF Unique
<1>8. MapOf(ts) \in [Idents -> Tables \cup {NoTable}]
  BY MapTyped
<1>9. m \in [Idents -> Tables \cup {NoTable}] /\ m[n] = NoTable /\ \A l \in Idents : l # n => m[l] = MapOf(ts)[l]
  BY <1>8
<1> HIDE DEF m
<1>10. ASSUME NEW j \in DOMAIN us PROVE m[us[j].name] = us[j]
  <2>1. PICK k \in DOMAIN ts : us[j] = ts[k] /\ k # i
    BY <1>4
  <2>2. ts[k].name # n
    BY <1>1, <2>1 DEF Unique
  <2>3. MapOf(ts)[ts[k].name] = ts[k] /\ ts[k].name \in Idents
    BY MapTyped
  <2> QED
    BY <1>9, <2>1, <2>2, <2>3
<1>11. ASSUME NEW l \in Idents, \A j \in DOMAIN us : us[j].name # l PROVE m[l] = NoTable
  <2>1. CASE l = n
    BY <1>9, <2>1
  <2>2. CASE l # n
    <3>1. ASSUME NEW k \in DOMAIN ts PROVE ts[k].name # l
      <4>1. CASE k = i
        BY <1>1, <2>2, <4>1
      <4>2. CASE k # i
        <5>1. PICK j \in DOMAIN us : at(i, j) = k
          BY <1>6, <4>2
        <5> QED
          BY <1>4, <1>11, <5>1
      <4> QED
        BY <4>1, <4>2
    <3>2. Listed(ts, l) = {}
      BY <3>1 DEF Listed
    <3>3. MapOf(ts)[l] = NoTable
      BY <3>2, MapTyped
    <3> QED
      BY <1>9, <2>2, <3>3
  <2> QED
    BY <2>1, <2>2
<1>12. m = MapOf(us)
  <2>1. \A j \in DOMAIN us : m[us[j].name] = us[j]
    BY <1>10
  <2>2. \A l \in Idents : (\A j \in DOMAIN us : us[j].name # l) => m[l] = NoTable
    BY <1>11
  <2> QED
    BY <1>2, <1>7, <1>9, <2>1, <2>2, MapIs, Zenon
<1> QED
  BY <1>2, <1>7, <1>12 DEF us, m

-----------------------------------------------------------------------------
(* The catalog                                                             *)

\* The file of an opened, not yet written save is empty.
Opened == phase = "write" => catFile[catName] = <<>>

\* The inductive invariant.
CatalogInv == CatalogTypeOK /\ TablesAgree /\ FileGivesCatalog /\ Opened

FileLines == Seq(Tables \cup {Malformed})

LEMMA ReadableTyped ==
    ASSUME NEW lines \in FileLines \cup {NoTable}, Readable(lines)
    PROVE  lines \in Seq(Tables)
<1>1. lines \in FileLines
  BY DEF Readable
<1>2. \A i \in 1 .. Len(lines) : lines[i] \in Tables
  BY <1>1 DEF Readable, FileLines
<1>3. Len(lines) \in Nat /\ lines = [i \in 1 .. Len(lines) |-> lines[i]]
  BY <1>1 DEF FileLines
<1> QED
  BY <1>2, <1>3

LEMMA TypedReadable ==
    ASSUME NEW lines \in Seq(Tables)
    PROVE  Readable(lines) /\ lines \in FileLines
<1>1. \A i \in 1 .. Len(lines) : lines[i] \in Tables
  OBVIOUS
<1>2. Len(lines) \in Nat /\ lines = [i \in 1 .. Len(lines) |-> lines[i]] /\ DOMAIN lines = 1 .. Len(lines)
  OBVIOUS
<1>3. \A i \in 1 .. Len(lines) : lines[i] \in Tables \cup {Malformed}
  BY <1>1
<1>4. lines \in FileLines
  BY <1>2, <1>3 DEF FileLines
<1> QED
  BY <1>1, <1>2, <1>4, NoTableAssumption DEF Readable, FileLines

\* An empty list of tables, the catalog of a process that does not run.
LEMMA EmptyTables ==
    /\ <<>> \in Seq(Tables) /\ Unique(<<>>)
    /\ MapOf(<<>>) \in [Idents -> Tables \cup {NoTable}]
    /\ ColumnsOf(<<>>) \in [Idents -> [Idents -> Nat]]
<1>1. <<>> \in Seq(Tables)
  OBVIOUS
<1>2. Unique(<<>>)
  BY DEF Unique
<1> QED
  BY <1>1, <1>2, MapTyped, ColumnsTyped

LEMMA CatalogInitInv == CatalogInit => CatalogInv
<1> SUFFICES ASSUME CatalogInit PROVE CatalogInv
  OBVIOUS
<1>1. catFile \in [CatalogFiles -> FileLines \cup {NoTable}]
  BY FilesInitAssumption DEF CatalogInit, FileLines
<1>2. CatalogTypeOK
  BY <1>1, EmptyTables, DefaultAssumption DEF CatalogInit, CatalogTypeOK, FileLines
<1>3. TablesAgree
  BY EmptyTables DEF CatalogInit, TablesAgree, Unique
<1>4. FileGivesCatalog /\ Opened
  BY DEF CatalogInit, FileGivesCatalog, Opened
<1> QED
  BY <1>2, <1>3, <1>4 DEF CatalogInv

-----------------------------------------------------------------------------
(* Loading                                                                 *)

LEMMA LoadSucceedsKeeps ==
    ASSUME CatalogInv, NEW f \in CatalogFiles, LoadSucceeds(f), catName' = f, phase' = "ready",
           UNCHANGED <<catFile, before>>
    PROVE  CatalogInv'
<1> DEFINE lines == catFile[f]
           R == Reload(lines)
<1>1. lines \in FileLines \cup {NoTable} /\ Readable(lines)
  BY DEF CatalogInv, CatalogTypeOK, LoadSucceeds, FileLines
<1>2. lines \in Seq(Tables)
  BY <1>1, ReadableTyped
<1>3. R \in Seq(Tables) /\ Unique(R) /\ Reload(R) = R
  BY <1>2, ReloadTyped, ReloadTwice
<1>4. MapOf(R) \in [Idents -> Tables \cup {NoTable}] /\ ColumnsOf(R) \in [Idents -> [Idents -> Nat]]
  BY <1>3, MapTyped, ColumnsTyped
<1>5. /\ tables' = R /\ tableMap' = MapOf(R) /\ columnMap' = ColumnsOf(R)
      /\ loaded' = TRUE /\ dropped' = {} /\ unsaved' = FALSE
  BY DEF LoadSucceeds, Holds
<1>6. catFile'[catName'] = lines
  OBVIOUS
<1> HIDE DEF lines, R
<1>7. CatalogTypeOK'
  BY <1>3, <1>4, <1>5 DEF CatalogInv, CatalogTypeOK
<1>8. TablesAgree'
  BY <1>3, <1>5 DEF TablesAgree, Unique
<1>9. FileGivesCatalog' /\ Opened'
  <2>1. Reload(catFile'[catName']) = Reload(tables')
    BY <1>3, <1>5, <1>6 DEF R
  <2> QED
    BY <1>1, <1>6, <2>1 DEF FileGivesCatalog, Opened
<1> QED
  BY <1>7, <1>8, <1>9 DEF CatalogInv

\* No catalog is loaded: the lists are empty.
LEMMA NothingLoaded ==
    ASSUME CatalogInv, Holds(<<>>), loaded' = FALSE, dropped' = {}, catName' \in CatalogFiles,
           phase' \in {"ready", "down"}, before' \in Seq(Tables), UNCHANGED <<catFile, unsaved>>
    PROVE  CatalogInv'
<1>1. CatalogTypeOK'
  BY EmptyTables DEF CatalogInv, CatalogTypeOK, Holds
<1>2. TablesAgree'
  BY EmptyTables DEF TablesAgree, Holds, Unique
<1>3. FileGivesCatalog' /\ Opened'
  BY DEF FileGivesCatalog, Opened
<1> QED
  BY <1>1, <1>2, <1>3 DEF CatalogInv

LEMMA ChangeCatalogKeeps ==
    ASSUME CatalogInv, NEW f \in CatalogFiles, ChangeCatalog(f)
    PROVE  CatalogInv'
<1>1. CASE LoadSucceeds(f)
  BY <1>1, LoadSucceedsKeeps DEF ChangeCatalog
<1>2. CASE LoadFails(f)
  <2>1. before \in Seq(Tables)
    BY DEF CatalogInv, CatalogTypeOK
  <2> QED
    BY <1>2, <2>1, NothingLoaded DEF ChangeCatalog, LoadFails
<1> QED
  BY <1>1, <1>2 DEF ChangeCatalog

LEMMA DieKeeps ==
    ASSUME CatalogInv, Die
    PROVE  CatalogInv'
<1>1. <<>> \in Seq(Tables) /\ catName \in CatalogFiles
  BY DEF CatalogInv, CatalogTypeOK
<1> QED
  BY <1>1, NothingLoaded DEF Die

LEMMA StartKeeps ==
    ASSUME CatalogInv, Start
    PROVE  CatalogInv'
  BY LoadSucceedsKeeps, DefaultAssumption DEF Start

-----------------------------------------------------------------------------
(* CREATE TABLE, DROP TABLE and the save after them                        *)

LEMMA CreateTableKeeps ==
    ASSUME CatalogInv, NEW n \in Idents, NEW cols \in Schemas, CreateTable(n, cols)
    PROVE  CatalogInv'
<1> DEFINE e == [name |-> n, cols |-> cols]
<1>1. e \in Tables /\ e.name = n /\ e.cols = cols
  BY DEF Tables
<1>2. /\ tables \in Seq(Tables) /\ Unique(tables) /\ tableMap = MapOf(tables) /\ tableMap[n] = NoTable
      /\ tables' = Append(tables, e) /\ tableMap' = [tableMap EXCEPT ![n] = e]
  BY DEF CatalogInv, CatalogTypeOK, TablesAgree, Unique, CreateTable
<1>3. \A col \in Idents : Occurrences(col, cols) \in Nat
  BY <1>1, OccurrencesNat
<1> HIDE DEF e
<1>4. MapOf(tables)[e.name] = NoTable
  BY <1>1, <1>2
<1>5. /\ tables' \in Seq(Tables) /\ Unique(tables')
      /\ tableMap' = MapOf(tables')
  BY <1>1, <1>2, <1>4, AppendedMap
<1>6. columnMap' \in [Idents -> [Idents -> Nat]]
  <2>1. columnMap \in [Idents -> [Idents -> Nat]]
    BY DEF CatalogInv, CatalogTypeOK
  <2>2. ASSUME NEW col \in Idents
        PROVE  [columnMap[col] EXCEPT ![n] = @ + Occurrences(col, cols)] \in [Idents -> Nat]
    <3>1. columnMap[col] \in [Idents -> Nat] /\ columnMap[col][n] + Occurrences(col, cols) \in Nat
      BY <1>3, <2>1
    <3> QED
      BY <3>1
  <2> QED
    BY <2>2 DEF CreateTable, WithColumns
<1>7. tableMap' \in [Idents -> Tables \cup {NoTable}]
  BY <1>5, MapTyped
<1>8. CatalogTypeOK'
  <2>1. /\ phase' = "save" /\ before' = tables /\ loaded' = loaded /\ loaded
        /\ UNCHANGED <<catName, catFile, dropped, unsaved>>
    BY DEF CreateTable
  <2> QED
    BY <1>2, <1>5, <1>6, <1>7, <2>1 DEF CatalogInv, CatalogTypeOK
<1>9. TablesAgree'
  BY <1>5 DEF TablesAgree, Unique
<1>10. FileGivesCatalog'
  BY DEF CatalogInv, FileGivesCatalog, CreateTable
<1>11. Opened'
  BY DEF Opened, CreateTable
<1> QED
  BY <1>8, <1>9, <1>10, <1>11 DEF CatalogInv

LEMMA DropTableKeeps ==
    ASSUME CatalogInv, NEW n \in Idents, DropTable(n)
    PROVE  CatalogInv'
<1>1. /\ tables \in Seq(Tables) /\ Unique(tables) /\ tableMap = MapOf(tables) /\ Listed(tables, n) # {}
      /\ tables' = Removed(tables, n) /\ tableMap' = [tableMap EXCEPT ![n] = NoTable]
  BY DEF CatalogInv, CatalogTypeOK, TablesAgree, Unique, DropTable
<1>2. /\ tables' \in Seq(Tables) /\ Unique(tables')
      /\ tableMap' = MapOf(tables')
  BY <1>1, RemovedMap
<1>3. tableMap' \in [Idents -> Tables \cup {NoTable}]
  BY <1>2, MapTyped
<1>4. columnMap' \in [Idents -> [Idents -> Nat]]
  BY DEF CatalogInv, CatalogTypeOK, DropTable
<1>5. dropped' \in SUBSET (Idents \X Idents)
  <2>1. tableMap[n] \in Tables
    BY <1>1, MapTyped DEF CatalogInv, CatalogTypeOK
  <2>2. tableMap[n].cols \in Seq(Idents)
    BY <2>1, SchemasAssumption DEF Tables
  <2>3. \A i \in DOMAIN tableMap[n].cols : tableMap[n].cols[i] \in Idents
    BY <2>2
  <2>4. dropped \in SUBSET (Idents \X Idents)
    BY DEF CatalogInv, CatalogTypeOK
  <2> QED
    BY <2>3, <2>4 DEF DropTable
<1>6. CatalogTypeOK'
  <2>1. /\ phase' = "save" /\ before' = tables /\ loaded' = loaded /\ loaded
        /\ UNCHANGED <<catName, catFile, unsaved>>
    BY DEF DropTable
  <2> QED
    BY <1>1, <1>2, <1>3, <1>4, <1>5, <2>1 DEF CatalogInv, CatalogTypeOK
<1>7. TablesAgree'
  BY <1>2 DEF TablesAgree, Unique
<1>8. FileGivesCatalog'
  BY DEF CatalogInv, FileGivesCatalog, DropTable
<1>9. Opened'
  BY DEF Opened, DropTable
<1> QED
  BY <1>6, <1>7, <1>8, <1>9 DEF CatalogInv

LEMMA SaveOpensKeeps ==
    ASSUME CatalogInv, SaveOpens
    PROVE  CatalogInv'
<1>1. <<>> \in FileLines
  BY DEF FileLines
<1>2. catName \in CatalogFiles /\ catFile \in [CatalogFiles -> FileLines \cup {NoTable}]
  BY DEF CatalogInv, CatalogTypeOK, FileLines
<1>3. /\ catFile' \in [CatalogFiles -> FileLines \cup {NoTable}]
      /\ catFile'[catName'] = <<>>
  BY <1>1, <1>2 DEF SaveOpens
<1>4. CatalogTypeOK'
  BY <1>3 DEF CatalogInv, CatalogTypeOK, SaveOpens, catalog, FileLines
<1>5. TablesAgree'
  BY DEF CatalogInv, TablesAgree, SaveOpens, catalog
<1>6. FileGivesCatalog'
  BY DEF FileGivesCatalog, SaveOpens
<1>7. Opened'
  BY <1>3 DEF Opened
<1> QED
  BY <1>4, <1>5, <1>6, <1>7 DEF CatalogInv

LEMMA SaveFailsKeeps ==
    ASSUME CatalogInv, SaveFails
    PROVE  CatalogInv'
<1>1. CatalogTypeOK'
  BY DEF CatalogInv, CatalogTypeOK, SaveFails, catalog
<1>2. TablesAgree'
  BY DEF CatalogInv, TablesAgree, SaveFails, catalog
<1>3. FileGivesCatalog' /\ Opened'
  BY DEF FileGivesCatalog, Opened, SaveFails
<1> QED
  BY <1>1, <1>2, <1>3 DEF CatalogInv

LEMMA PartialTyped ==
    ASSUME NEW ts \in Seq(Tables), NEW k \in 0 .. Len(ts), NEW ls \in Partial(ts, k)
    PROVE  /\ ls \in FileLines
           /\ Overwritten(<<>>, ls) = ls
           /\ k = Len(ts) => ls = ts
<1>1. ts \in FileLines /\ Len(ts) \in Nat /\ k \in Nat
  BY TypedReadable
<1>2. SubSeq(ts, 1, k) \in FileLines
  BY <1>1 DEF FileLines
<1>3. ls = SubSeq(ts, 1, k) \/ (k < Len(ts) /\ ls = Append(SubSeq(ts, 1, k), Malformed))
  BY DEF Partial
<1>4. ls \in FileLines
  BY <1>2, <1>3 DEF FileLines
<1>5. Overwritten(<<>>, ls) = ls
  <2>1. Len(ls) \in Nat /\ Len(<<>>) = 0
    BY <1>4 DEF FileLines
  <2>2. SubSeq(<<>>, Len(ls) + 1, Len(<<>>)) = <<>>
    BY <2>1
  <2>3. ls \o <<>> = ls
    BY <1>4 DEF FileLines
  <2> QED
    BY <2>2, <2>3 DEF Overwritten
<1>6. k = Len(ts) => ls = ts
  <2>1. SubSeq(ts, 1, Len(ts)) = ts
    BY <1>1
  <2> QED
    BY <1>1, <1>3, <2>1
<1> QED
  BY <1>4, <1>5, <1>6

LEMMA SaveWritesKeeps ==
    ASSUME CatalogInv, NEW k \in 0 .. Len(tables), SaveWrites(k)
    PROVE  CatalogInv'
<1>1. PICK ls \in Partial(tables, k) : catFile' = [catFile EXCEPT ![catName] = Overwritten(@, ls)]
  BY DEF SaveWrites
<1>2. /\ tables \in Seq(Tables) /\ Len(tables) \in Nat /\ catName \in CatalogFiles
      /\ catFile \in [CatalogFiles -> FileLines \cup {NoTable}] /\ catFile[catName] = <<>>
  BY DEF CatalogInv, CatalogTypeOK, Opened, SaveWrites, FileLines
<1>3. ls \in FileLines /\ Overwritten(<<>>, ls) = ls /\ (k = Len(tables) => ls = tables)
  BY <1>2, PartialTyped
<1>4. /\ catFile' \in [CatalogFiles -> FileLines \cup {NoTable}]
      /\ catFile'[catName] = ls
  BY <1>1, <1>2, <1>3
<1>5. /\ phase' = "ready" /\ before' = <<>> /\ unsaved' = (k < Len(tables))
      /\ UNCHANGED <<tables, tableMap, columnMap, loaded, catName, dropped>>
  BY DEF SaveWrites, catalog
<1>6. CatalogTypeOK'
  <2>1. (k < Len(tables)) = TRUE \/ (k < Len(tables)) = FALSE
    OBVIOUS
  <2>2. unsaved' \in BOOLEAN
    BY <1>5, <2>1, Zenon
  <2> QED
    BY <1>4, <1>5, <2>2 DEF CatalogInv, CatalogTypeOK, FileLines
<1>7. TablesAgree'
  BY <1>5 DEF CatalogInv, TablesAgree
<1>8. FileGivesCatalog'
  <2>1. SUFFICES ASSUME ~ unsaved'
                 PROVE  Readable(catFile'[catName']) /\ Reload(catFile'[catName']) = Reload(tables')
    BY <1>5 DEF FileGivesCatalog
  <2>2. ~ (k < Len(tables))
    BY <1>5, <2>1
  <2>3. catFile'[catName'] = tables /\ tables' = tables
    BY <1>2, <1>3, <1>4, <1>5, <2>2
  <2> QED
    BY <1>2, <2>3, TypedReadable
<1>9. Opened'
  BY <1>5 DEF Opened
<1> QED
  BY <1>6, <1>7, <1>8, <1>9 DEF CatalogInv

-----------------------------------------------------------------------------
(* The theorems                                                            *)

LEMMA CatalogStep == CatalogInv /\ [CatalogNext]_catalogVars => CatalogInv'
<1> SUFFICES ASSUME CatalogInv, [CatalogNext]_catalogVars PROVE CatalogInv'
  OBVIOUS
<1>1. ASSUME UNCHANGED catalogVars PROVE CatalogInv'
  BY <1>1 DEF CatalogInv, CatalogTypeOK, TablesAgree, FileGivesCatalog, Opened, catalogVars, catalog
<1>2. ASSUME NEW f \in CatalogFiles, ChangeCatalog(f) PROVE CatalogInv'
  BY <1>2, ChangeCatalogKeeps
<1>3. ASSUME NEW n \in Idents, NEW cols \in Schemas, CreateTable(n, cols) PROVE CatalogInv'
  BY <1>3, CreateTableKeeps
<1>4. ASSUME NEW n \in Idents, DropTable(n) PROVE CatalogInv'
  BY <1>4, DropTableKeeps
<1>5. ASSUME NEW k \in 0 .. Len(tables), SaveWrites(k) PROVE CatalogInv'
  BY <1>5, SaveWritesKeeps
<1>6. StartFails => UNCHANGED catalogVars
  BY DEF StartFails
<1> QED
  BY <1>1, <1>2, <1>3, <1>4, <1>5, <1>6, SaveOpensKeeps, SaveFailsKeeps, DieKeeps, StartKeeps
  DEF CatalogNext

LEMMA CatalogKept == CatalogSpec => []CatalogInv
  BY CatalogInitInv, CatalogStep, PTL DEF CatalogSpec

\* The variables of the catalog keep their types, whatever is loaded, created,
\* dropped, half saved or lost with the process: the columns of every table
\* of tableMap can be read, and a nil catalog is empty (godb/catalog.go).
THEOREM CatalogTyping == CatalogSpec => []CatalogTypeOK
<1>1. CatalogInv => CatalogTypeOK
  BY DEF CatalogInv
<1> QED
  BY <1>1, CatalogKept, PTL

\* c.tables and c.tableMap agree after any sequence of addTable and dropTable:
\* no table is in one and not in the other and no name is listed twice, for
\* any identifiers and any catalog files.
THEOREM ListAndMapAgree == CatalogSpec => []TablesAgree
<1>1. CatalogInv => TablesAgree
  BY DEF CatalogInv
<1> QED
  BY <1>1, CatalogKept, PTL

\* Unless a save has failed, what SaveToFile left is what NewCatalogFromFile
\* would make the present catalog from, at every moment between two commands
\* and after a command whose save has not begun.
THEOREM CatalogSurvives == CatalogSpec => []FileGivesCatalog
<1>1. CatalogInv => FileGivesCatalog
  BY DEF CatalogInv
<1> QED
  BY <1>1, CatalogKept, PTL

-----------------------------------------------------------------------------
(* The columns in which tables are listed                                  *)

\* columnMap lists a table under its columns, each as often as it is there,
\* but for names that a DROP has made it forget or remember wrongly.
ColumnsListed ==
    \A n, col \in Idents : <<n, col>> \notin dropped => columnMap[col][n] = ColumnsOf(tables)[col][n]

\* What is listed for a table, in terms of the map.
Listings(m, n, col) == IF m[n] = NoTable THEN 0 ELSE Occurrences(col, m[n].cols)

LEMMA ColumnsAre ==
    ASSUME NEW ts, NEW m, m = MapOf(ts), NEW n \in Idents, NEW col \in Idents
    PROVE  ColumnsOf(ts)[col][n] = Listings(m, n, col)
  BY DEF ColumnsOf, Listings

LEMMA ListedInit == CatalogInit => ColumnsListed
  BY DEF CatalogInit, ColumnsListed

LEMMA HoldsListed ==
    ASSUME NEW ts, Holds(ts)
    PROVE  ColumnsListed'
  BY DEF Holds, ColumnsListed

LEMMA CreateTableListed ==
    ASSUME CatalogInv, ColumnsListed, NEW n \in Idents, NEW cols \in Schemas, CreateTable(n, cols), TablesAgree'
    PROVE  ColumnsListed'
<1> DEFINE e == [name |-> n, cols |-> cols]
<1>1. /\ tableMap[n] = NoTable /\ tableMap' = [tableMap EXCEPT ![n] = e] /\ columnMap' = WithColumns(n, cols)
      /\ dropped' = dropped
  BY DEF CreateTable
<1>2. tableMap \in [Idents -> Tables \cup {NoTable}] /\ tableMap = MapOf(tables) /\ tableMap' = MapOf(tables')
  BY DEF CatalogInv, CatalogTypeOK, TablesAgree
<1>3. columnMap \in [Idents -> [Idents -> Nat]]
  BY DEF CatalogInv, CatalogTypeOK
<1>4. e \in Tables /\ e # NoTable /\ e.cols = cols
  BY NoTableAssumption DEF Tables
<1>5. SUFFICES ASSUME NEW l \in Idents, NEW col \in Idents, <<l, col>> \notin dropped'
               PROVE  columnMap'[col][l] = Listings(tableMap', l, col)
  BY <1>2, ColumnsAre DEF ColumnsListed
<1>6. columnMap[col][l] = Listings(tableMap, l, col)
  BY <1>1, <1>2, <1>5, ColumnsAre DEF ColumnsListed
<1> HIDE DEF e
<1>7. Occurrences(col, cols) \in Nat
  BY <1>4, OccurrencesNat
<1>8. columnMap'[col] = [columnMap[col] EXCEPT ![n] = columnMap[col][n] + Occurrences(col, cols)]
  BY <1>1 DEF WithColumns
<1>9. CASE l = n
  <2>1. columnMap[col][n] = 0
    BY <1>1, <1>6, <1>9 DEF Listings
  <2>2. columnMap'[col][n] = Occurrences(col, cols)
    BY <1>3, <1>7, <1>8, <2>1
  <2>3. tableMap'[n] = e
    BY <1>1, <1>2
  <2> QED
    BY <1>4, <1>9, <2>2, <2>3 DEF Listings
<1>10. CASE l # n
  <2>1. columnMap'[col][l] = columnMap[col][l]
    BY <1>3, <1>8, <1>10
  <2>2. tableMap'[l] = tableMap[l]
    BY <1>1, <1>2, <1>10
  <2> QED
    BY <1>6, <2>1, <2>2 DEF Listings
<1> QED
  BY <1>9, <1>10

LEMMA DropTableListed ==
    ASSUME CatalogInv, ColumnsListed, NEW n \in Idents, DropTable(n), TablesAgree'
    PROVE  ColumnsListed'
<1>1. /\ tableMap' = [tableMap EXCEPT ![n] = NoTable]
      /\ columnMap' = [columnMap EXCEPT ![n] = [m \in Idents |-> 0]]
      /\ dropped' = dropped \cup {<<n, col>> : col \in {tableMap[n].cols[i] : i \in DOMAIN tableMap[n].cols}}
                            \cup {<<m, n>> : m \in Idents}
  BY DEF DropTable
<1>2. tableMap \in [Idents -> Tables \cup {NoTable}] /\ tableMap = MapOf(tables) /\ tableMap' = MapOf(tables')
  BY DEF CatalogInv, CatalogTypeOK, TablesAgree
<1>3. columnMap \in [Idents -> [Idents -> Nat]]
  BY DEF CatalogInv, CatalogTypeOK
<1>4. SUFFICES ASSUME NEW l \in Idents, NEW col \in Idents, <<l, col>> \notin dropped'
               PROVE  columnMap'[col][l] = Listings(tableMap', l, col)
  BY <1>2, ColumnsAre DEF ColumnsListed
<1>5. <<l, col>> \notin dropped /\ col # n
  BY <1>1, <1>4
<1>6. columnMap[col][l] = Listings(tableMap, l, col)
  BY <1>2, <1>5, ColumnsAre DEF ColumnsListed
<1>7. columnMap'[col][l] = columnMap[col][l]
  BY <1>1, <1>3, <1>5
<1>8. CASE l = n
  <2>1. Listings(tableMap', l, col) = 0
    BY <1>1, <1>2, <1>8 DEF Listings
  <2>2. ASSUME tableMap[n] # NoTable PROVE Occurrences(col, tableMap[n].cols) = 0
    <3>1. {i \in DOMAIN tableMap[n].cols : tableMap[n].cols[i] = col} = {}
      BY <1>1, <1>4, <1>8
    <3> QED
      BY <3>1, FS_EmptySet DEF Occurrences
  <2>3. Listings(tableMap, l, col) = 0
    BY <1>8, <2>2 DEF Listings
  <2> QED
    BY <1>6, <1>7, <2>1, <2>3
<1>9. CASE l # n
  <2>1. tableMap'[l] = tableMap[l]
    BY <1>1, <1>2, <1>9
  <2> QED
    BY <1>6, <1>7, <2>1 DEF Listings
<1> QED
  BY <1>8, <1>9

LEMMA ListedStep == CatalogInv /\ ColumnsListed /\ [CatalogNext]_catalogVars => ColumnsListed'
<1> SUFFICES ASSUME CatalogInv, ColumnsListed, [CatalogNext]_catalogVars PROVE ColumnsListed'
  OBVIOUS
<1>0. TablesAgree'
  BY CatalogStep DEF CatalogInv
<1>1. ASSUME UNCHANGED <<tables, columnMap, dropped>> PROVE ColumnsListed'
  BY <1>1 DEF ColumnsListed
<1>2. ASSUME NEW f \in CatalogFiles, ChangeCatalog(f) PROVE ColumnsListed'
  BY <1>2, HoldsListed DEF ChangeCatalog, LoadSucceeds, LoadFails
<1>3. ASSUME NEW n \in Idents, NEW cols \in Schemas, CreateTable(n, cols) PROVE ColumnsListed'
  BY <1>0, <1>3, CreateTableListed
<1>4. ASSUME NEW n \in Idents, DropTable(n) PROVE ColumnsListed'
  BY <1>0, <1>4, DropTableListed
<1>5. Die \/ Start => ColumnsListed'
  BY HoldsListed DEF Die, Start, LoadSucceeds
<1>6. SaveOpens \/ SaveFails \/ (\E k \in 0 .. Len(tables) : SaveWrites(k)) => ColumnsListed'
  BY <1>1 DEF SaveOpens, SaveFails, SaveWrites, catalog
<1>7. StartFails \/ UNCHANGED catalogVars => ColumnsListed'
  BY <1>1 DEF StartFails, catalogVars, catalog
<1> QED
  BY <1>2, <1>3, <1>4, <1>5, <1>6, <1>7 DEF CatalogNext

LEMMA ListedKept == CatalogSpec => []ColumnsListed
<1>1. CatalogInv /\ ColumnsListed /\ [CatalogNext]_catalogVars => ColumnsListed'
  BY ListedStep
<1> QED
  BY <1>1, ListedInit, CatalogKept, PTL DEF CatalogSpec

-----------------------------------------------------------------------------
(* Columns and the tables they belong to                                   *)

\* A FROM clause as FromAssumption has it, well-formed in the catalog.
From(subqueries, ts) ==
    /\ \A i \in DOMAIN ts : i \in Nat /\ ts[i].tableName \in Idents
    /\ IsFiniteSet(subqueries)
    /\ \A q \in subqueries : q.alias \notin {NoName, Error}
    /\ WellFormed(subqueries, ts)

LEMMA FromIs ==
    ASSUME NEW f \in Froms
    PROVE  From(f.subqueries, f.ts)
<1>1. f \in FromClauses /\ WellFormed(f.subqueries, f.ts)
  BY DEF Froms
<1>2. f.ts \in Seq(ToSet(f.ts)) /\ \A t \in ToSet(f.ts) : t.tableName \in Idents
  BY <1>1, FromAssumption
<1>3. \A i \in DOMAIN f.ts : i \in Nat /\ f.ts[i] \in ToSet(f.ts)
  BY <1>2
<1> QED
  BY <1>1, <1>2, <1>3, FromAssumption DEF From

\* How often entry i of FROM has the column x.
Has(ts, i, x) == Occurrences(x, tableMap[ts[i].tableName].cols)

\* The node of an entry has the entry's columns, and the nodes are those of
\* the subqueries and of the entries.
LEMMA NodesAre ==
    ASSUME NEW subqueries, NEW ts, From(subqueries, ts), NEW x \in Idents
    PROVE  LET nodes == Nodes(subqueries, ts)
           IN  /\ \A k \in DOMAIN nodes : \/ \E i \in DOMAIN ts : k = Key(ts[i])
                                          \/ \E q \in subqueries : k = q.alias
               /\ \A i \in DOMAIN ts : Key(ts[i]) \in DOMAIN nodes /\ nodes[Key(ts[i])][x] = Has(ts, i, x)
               /\ \A q \in subqueries : /\ q.alias \in DOMAIN nodes
                                        /\ nodes[q.alias][x] = IF x \in q.fields THEN 1 ELSE 0
<1> DEFINE nodes == Nodes(subqueries, ts)
           keys == {q.alias : q \in subqueries} \cup {Key(ts[i]) : i \in DOMAIN ts}
<1>1. DOMAIN nodes = keys
  BY DEF Nodes
<1>2. ASSUME NEW i \in DOMAIN ts PROVE Key(ts[i]) \in keys /\ nodes[Key(ts[i])][x] = Has(ts, i, x)
  <2> DEFINE k == Key(ts[i])
             last == CHOOSE j \in DOMAIN ts : Key(ts[j]) = k /\ \A l \in DOMAIN ts : Key(ts[l]) = k => l <= j
  <2>1. i \in Nat /\ \A l \in DOMAIN ts : Key(ts[l]) = k => l = i
    BY DEF From, WellFormed
  <2>2. Key(ts[i]) = k /\ \A l \in DOMAIN ts : Key(ts[l]) = k => l <= i
    BY <2>1
  <2>3. last \in DOMAIN ts /\ Key(ts[last]) = k
    BY <2>2
  <2>4. last = i
    BY <2>1, <2>3
  <2>5. k \in keys
    OBVIOUS
  <2>6. nodes[k] = [f \in Idents |-> Occurrences(f, tableMap[ts[last].tableName].cols)]
    BY <2>5 DEF Nodes
  <2> QED
    BY <2>4, <2>5, <2>6 DEF Has
<1>3. ASSUME NEW q \in subqueries
      PROVE  q.alias \in keys /\ nodes[q.alias][x] = IF x \in q.fields THEN 1 ELSE 0
  <2> DEFINE p == CHOOSE r \in subqueries : r.alias = q.alias
  <2>1. p \in subqueries /\ p.alias = q.alias
    OBVIOUS
  <2>2. p = q
    BY <2>1 DEF From, WellFormed
  <2>3. q.alias \in keys /\ ~ \E i \in DOMAIN ts : Key(ts[i]) = q.alias
    BY DEF From, WellFormed
  <2>4. nodes[q.alias] = [f \in Idents |-> IF f \in p.fields THEN 1 ELSE 0]
    BY <2>3 DEF Nodes
  <2> QED
    BY <2>2, <2>3, <2>4
<1> QED
  BY <1>1, <1>2, <1>3

LEMMA HasNat ==
    ASSUME CatalogTypeOK, NEW subqueries, NEW ts, From(subqueries, ts), NEW x \in Idents
    PROVE  /\ \A i \in DOMAIN ts : Has(ts, i, x) \in Nat
           /\ \A k \in DOMAIN Nodes(subqueries, ts) : Nodes(subqueries, ts)[k][x] \in Nat
<1>1. ASSUME NEW i \in DOMAIN ts PROVE Has(ts, i, x) \in Nat
  <2>1. tableMap[ts[i].tableName] \in Tables
    BY DEF From, WellFormed, CatalogTypeOK
  <2> QED
    BY <2>1, OccurrencesNat DEF Has
<1>2. ASSUME NEW k \in DOMAIN Nodes(subqueries, ts) PROVE Nodes(subqueries, ts)[k][x] \in Nat
  <2>1. CASE \E i \in DOMAIN ts : k = Key(ts[i])
    BY <1>1, <2>1, NodesAre
  <2>2. CASE \E q \in subqueries : k = q.alias
    <3>1. PICK q \in subqueries : k = q.alias
      BY <2>2
    <3>2. Nodes(subqueries, ts)[k][x] = IF x \in q.fields THEN 1 ELSE 0
      BY <3>1, NodesAre
    <3> QED
      BY <3>2
  <2> QED
    BY <2>1, <2>2, NodesAre
<1> QED
  BY <1>1, <1>2

\* A column with a qualifier belongs to the entry of that name.
LEMMA QualifiedResolved ==
    ASSUME CatalogTypeOK, NEW subqueries, NEW ts, From(subqueries, ts), NEW x \in Idents, NEW col,
           col.field = x, col.table \notin {NoName, Error}, ~ Twice(col, subqueries, ts)
    PROVE  Column(col, subqueries, ts) = SqlColumn(col, subqueries, ts)
<1> DEFINE nodes == Nodes(subqueries, ts)
           q == col.table
           owners == {k \in DOMAIN nodes : nodes[k][x] > 0 /\ q \in {NoName, k}}
<1>1. CheckName(col, subqueries, ts) = q
  BY DEF CheckName
<1>2. \A k \in DOMAIN nodes : nodes[k][x] \in Nat
  BY HasNat
<1>3. q \in DOMAIN nodes => ~ (nodes[q][x] > 1)
  BY DEF Twice
<1>4. SqlColumn(col, subqueries, ts) = IF \E k \in owners : owners = {k} /\ nodes[k][x] = 1
                                       THEN CHOOSE k \in owners : TRUE ELSE Error
  BY DEF SqlColumn
<1>5. Column(col, subqueries, ts) =
          IF FieldToOp(q, x, nodes) # Error /\ FindField(col, nodes[FieldToOp(q, x, nodes)])
          THEN FieldToOp(q, x, nodes) ELSE Error
  BY <1>1 DEF Column
<1>6. FieldToOp(q, x, nodes) = IF q \in DOMAIN nodes THEN q ELSE Error
  BY DEF FieldToOp
<1>7. q \in DOMAIN nodes => (FindField(col, nodes[q]) <=> nodes[q][x] > 0)
  BY DEF FindField
<1> HIDE DEF nodes
<1>8. CASE q \in DOMAIN nodes /\ nodes[q][x] > 0
  <2>1. owners = {q} /\ nodes[q][x] = 1
    BY <1>2, <1>3, <1>8
  <2> HIDE DEF owners
  <2>2. (CHOOSE k \in owners : TRUE) = q
    BY <2>1
  <2>3. SqlColumn(col, subqueries, ts) = q
    BY <1>4, <2>1, <2>2
  <2>4. Column(col, subqueries, ts) = q
    BY <1>5, <1>6, <1>7, <1>8
  <2> QED
    BY <2>3, <2>4
<1>9. CASE ~ (q \in DOMAIN nodes /\ nodes[q][x] > 0)
  <2>1. owners = {}
    BY <1>9
  <2>2. SqlColumn(col, subqueries, ts) = Error
    BY <1>4, <2>1
  <2>3. Column(col, subqueries, ts) = Error
    BY <1>5, <1>6, <1>7, <1>9
  <2> QED
    BY <2>2, <2>3
<1> QED
  BY <1>8, <1>9

\* The entries and subqueries that have the column x are its owners.
LEMMA OwnersAre ==
    ASSUME CatalogTypeOK, NEW subqueries, NEW ts, From(subqueries, ts), NEW x \in Idents, NEW k
    PROVE  (k \in DOMAIN Nodes(subqueries, ts) /\ Nodes(subqueries, ts)[k][x] > 0) <=>
               \/ \E i \in DOMAIN ts : k = Key(ts[i]) /\ Has(ts, i, x) > 0
               \/ \E q \in subqueries : k = q.alias /\ x \in q.fields
<1> DEFINE nodes == Nodes(subqueries, ts)
<1>1. \A j \in DOMAIN nodes : (\E i \in DOMAIN ts : j = Key(ts[i])) \/ (\E q \in subqueries : j = q.alias)
  BY NodesAre
<1>2. \A i \in DOMAIN ts : Key(ts[i]) \in DOMAIN nodes /\ nodes[Key(ts[i])][x] = Has(ts, i, x)
  BY NodesAre
<1>3. ASSUME NEW q \in subqueries
      PROVE  q.alias \in DOMAIN nodes /\ (nodes[q.alias][x] > 0 <=> x \in q.fields)
  <2>1. q.alias \in DOMAIN nodes /\ nodes[q.alias][x] = IF x \in q.fields THEN 1 ELSE 0
    BY NodesAre
  <2> QED
    BY <2>1
<1> HIDE DEF nodes
<1> QED
  BY <1>1, <1>2, <1>3 DEF nodes

\* A column without one, where the index of the columns is right and aliases
\* and subqueries hide nothing.
LEMMA UnqualifiedResolved ==
    ASSUME CatalogTypeOK, TablesAgree, ColumnsListed,
           NEW subqueries, NEW ts, From(subqueries, ts), NEW x \in Idents, NEW col,
           col.field = x, col.table = NoName,
           ~ Shadowed(col, subqueries, ts), ~ HiddenByAlias(col, ts), ~ Mislisted(col, ts)
    PROVE  Column(col, subqueries, ts) = SqlColumn(col, subqueries, ts)
<1> DEFINE nodes == Nodes(subqueries, ts)
           owners == {k \in DOMAIN nodes : nodes[k][x] > 0}
           qs == {q \in subqueries : x \in q.fields}
           tab == CheckName(col, subqueries, ts)
           op == FieldToOp(tab, x, nodes)
<1>1. SqlColumn(col, subqueries, ts) = IF \E k \in owners : owners = {k} /\ nodes[k][x] = 1
                                       THEN CHOOSE k \in owners : TRUE ELSE Error
  <2>1. owners = {k \in DOMAIN nodes : nodes[k][x] > 0 /\ col.table \in {NoName, k}}
    OBVIOUS
  <2> QED
    BY <2>1 DEF SqlColumn
<1>2. Column(col, subqueries, ts) =
          IF tab # Error /\ op # Error /\ nodes[op][x] = 1 THEN op ELSE Error
  BY DEF Column, FindField
<1>3. \A k : k \in owners <=> \/ \E i \in DOMAIN ts : k = Key(ts[i]) /\ Has(ts, i, x) > 0
                              \/ \E q \in qs : k = q.alias
  BY OwnersAre
<1>4. \A i \in DOMAIN ts : Has(ts, i, x) \in Nat
  BY HasNat
<1>5. /\ \A i \in DOMAIN ts : Key(ts[i]) \in DOMAIN nodes /\ nodes[Key(ts[i])][x] = Has(ts, i, x)
      /\ \A q \in qs : q.alias \in DOMAIN nodes /\ nodes[q.alias][x] = 1
  BY NodesAre
<1>6. /\ \A i, j \in DOMAIN ts : Key(ts[i]) = Key(ts[j]) => i = j
      /\ \A p, q \in qs : p.alias = q.alias => p = q
      /\ \A q \in qs : q.alias # NoName /\ q.alias # Error
      /\ \A i \in DOMAIN ts : ts[i].tableName \in Idents
  BY DEF From, WellFormed
<1>7. IsFiniteSet(qs) /\ Cardinality(qs) \in Nat
  BY FS_Subset, FS_CardinalityType DEF From
<1>8. \A tb : tb # NoName /\ tb \in DOMAIN nodes => FieldToOp(tb, x, nodes) = tb
  BY DEF FieldToOp
<1>9. CASE \E p, q \in qs : p # q
  <2>1. PICK p \in qs, q \in qs : p # q
    BY <1>9
  <2>2. p.alias \in owners /\ q.alias \in owners /\ p.alias # q.alias
    BY <1>3, <1>6, <2>1
  <2>3. SqlColumn(col, subqueries, ts) = Error
    <3> HIDE DEF owners
    <3> QED
      BY <1>1, <2>2
  <2>4. Cardinality(qs) > 1
    <3>0. IsFiniteSet({p}) /\ Cardinality({p}) = 1 /\ q \notin {p} /\ {p, q} = {p} \cup {q}
      BY <2>1, FS_Singleton
    <3>1. Cardinality({p, q}) = 2
      <4>1. Cardinality({p} \cup {q}) = Cardinality({p}) + 1
        BY <3>0, FS_AddElement
      <4> QED
        BY <3>0, <4>1
    <3>2. Cardinality({p, q}) <= Cardinality(qs)
      BY <1>7, <2>1, FS_Subset
    <3> QED
      BY <1>7, <3>1, <3>2
  <2>5. tab = Error
    BY <2>4 DEF CheckName
  <2> QED
    BY <1>2, <2>3, <2>5
<1>10. CASE qs # {} /\ \A p, q \in qs : p = q
  <2>1. PICK p \in qs : qs = {p}
    BY <1>10
  <2>2. Cardinality(qs) = 1
    BY <2>1, FS_Singleton
  <2>3. tab = p.alias
    <3>1. (CHOOSE q \in qs : TRUE) = p
      BY <2>1
    <3>2. tab = (CHOOSE q \in qs : TRUE).alias
      BY <2>2 DEF CheckName
    <3> QED
      BY <3>1, <3>2
  <2>4. \A i \in DOMAIN ts : ~ (Has(ts, i, x) > 0)
    BY <2>1 DEF Shadowed, Has
  <2>5. \A k : k \in owners <=> k = p.alias
    BY <1>3, <2>1, <2>4
  <2>6. owners = {p.alias} /\ nodes[p.alias][x] = 1 /\ p.alias \in DOMAIN nodes
    BY <1>5, <2>1, <2>5
  <2>7. op = p.alias
    BY <1>6, <1>8, <2>3, <2>6
  <2> HIDE DEF owners, nodes, op, tab
  <2>8. SqlColumn(col, subqueries, ts) = p.alias
    BY <1>1, <2>6
  <2>9. Column(col, subqueries, ts) = p.alias
    BY <1>2, <1>6, <2>3, <2>6, <2>7
  <2> QED
    BY <2>8, <2>9
<1>11. CASE qs = {}
  <2> DEFINE listings(i) == columnMap[x][ts[i].tableName]
             is == {i \in DOMAIN ts : listings(i) > 0}
  <2>1. ASSUME NEW i \in DOMAIN ts PROVE listings(i) = Has(ts, i, x)
    <3>1. <<ts[i].tableName, x>> \notin dropped
      BY DEF Mislisted
    <3>2. columnMap[x][ts[i].tableName] = Listings(tableMap, ts[i].tableName, x)
      BY <1>6, <3>1, ColumnsAre DEF ColumnsListed, TablesAgree
    <3>3. tableMap[ts[i].tableName] # NoTable
      BY DEF From, WellFormed
    <3> QED
      BY <3>2, <3>3 DEF Listings, Has
  <2>2. ASSUME NEW i \in is PROVE Key(ts[i]) = ts[i].tableName
    <3>1. Has(ts, i, x) > 0
      BY <2>1
    <3> QED
      BY <3>1 DEF HiddenByAlias, Has, Key
  <2>3. \A k : k \in owners <=> \E i \in is : k = Key(ts[i])
    BY <1>3, <1>11, <2>1
  <2>4. Cardinality(qs) = 0
    BY <1>11, FS_EmptySet
  <2>5. tab = IF is # {}
              THEN IF \E i \in is : is = {i} /\ listings(i) = 1
                   THEN ts[CHOOSE i \in is : TRUE].tableName ELSE Error
              ELSE NoName
    BY <1>11, <2>4 DEF CheckName
  <2>6. CASE is = {}
    <3>1. owners = {}
      BY <2>3, <2>6
    <3>2. op = Error
      BY <2>5, <2>6, <3>1 DEF FieldToOp
    <3> QED
      BY <1>1, <1>2, <3>1, <3>2
  <2>7. CASE \E i \in is : is = {i} /\ listings(i) = 1
    <3>1. PICK i \in is : is = {i} /\ listings(i) = 1
      BY <2>7
    <3>2. (CHOOSE j \in is : TRUE) = i
      BY <3>1
    <3>3. tab = Key(ts[i]) /\ Key(ts[i]) \in Idents
      BY <1>6, <2>2, <2>5, <3>1, <3>2
    <3>4. i \in DOMAIN ts /\ nodes[Key(ts[i])][x] = 1 /\ Key(ts[i]) \in DOMAIN nodes
      BY <1>5, <2>1, <3>1
    <3>5. op = Key(ts[i])
      BY <1>8, <3>3, <3>4, NamesAssumption
    <3>6. \A k : k \in owners <=> k = Key(ts[i])
      BY <2>3, <3>1
    <3>7. owners = {Key(ts[i])}
      BY <3>6
    <3> HIDE DEF owners, nodes, op, tab
    <3>8. SqlColumn(col, subqueries, ts) = Key(ts[i])
      BY <1>1, <3>4, <3>7
    <3>9. Column(col, subqueries, ts) = Key(ts[i])
      BY <1>2, <3>3, <3>4, <3>5, NamesAssumption
    <3> QED
      BY <3>8, <3>9
  <2>8. CASE is # {} /\ ~ \E i \in is : is = {i} /\ listings(i) = 1
    <3>1. tab = Error
      BY <2>5, <2>8
    <3>2. ASSUME NEW k \in owners, owners = {k}, nodes[k][x] = 1 PROVE FALSE
      <4>1. PICK i \in is : k = Key(ts[i])
        BY <2>3
      <4>2. \A j \in is : j = i
        BY <1>6, <2>3, <3>2, <4>1
      <4>3. is = {i}
        BY <4>2
      <4>4. listings(i) = 1
        BY <1>5, <2>1, <3>2, <4>1
      <4> QED
        BY <2>8, <4>3, <4>4
    <3>3. SqlColumn(col, subqueries, ts) = Error
      BY <1>1, <3>2
    <3> QED
      BY <1>2, <3>1, <3>3
  <2> QED
    BY <2>6, <2>7, <2>8
<1> QED
  BY <1>9, <1>10, <1>11

\* A column of a condition is taken from the table that SQL says, or refused
\* where SQL refuses it, after any history of loads, creates and drops, for any
\* FROM clause: but for columns a subquery shadows, tables with an alias, what
\* dropTable leaves in columnMap, and columns a table has twice.
THEOREM NamesResolved == CatalogSpec => []ColumnsResolved
<1>1. ASSUME CatalogInv, ColumnsListed PROVE ColumnsResolved
  <2>1. SUFFICES ASSUME NEW f \in Froms, NEW q \in Qualifiers, NEW x \in Idents,
                        ~ Shadowed([table |-> q, field |-> x], f.subqueries, f.ts),
                        ~ HiddenByAlias([table |-> q, field |-> x], f.ts),
                        ~ Mislisted([table |-> q, field |-> x], f.ts),
                        ~ Twice([table |-> q, field |-> x], f.subqueries, f.ts)
                 PROVE  Column([table |-> q, field |-> x], f.subqueries, f.ts) =
                            SqlColumn([table |-> q, field |-> x], f.subqueries, f.ts)
    BY DEF ColumnsResolved
  <2> DEFINE col == [table |-> q, field |-> x]
  <2>2. col.table = q /\ col.field = x
    OBVIOUS
  <2>3. From(f.subqueries, f.ts)
    BY FromIs
  <2>4. CatalogTypeOK /\ TablesAgree
    BY <1>1 DEF CatalogInv
  <2> HIDE DEF col
  <2>5. CASE q = NoName
    <3>1. Column(col, f.subqueries, f.ts) = SqlColumn(col, f.subqueries, f.ts)
      BY <1>1, <2>1, <2>2, <2>3, <2>4, <2>5, UnqualifiedResolved DEF col
    <3> QED
      BY <3>1 DEF col
  <2>6. CASE q # NoName
    <3>1. q \notin {NoName, Error}
      BY <2>6, QualifiersAssumption
    <3>2. Column(col, f.subqueries, f.ts) = SqlColumn(col, f.subqueries, f.ts)
      BY <2>1, <2>2, <2>3, <2>4, <3>1, QualifiedResolved DEF col
    <3> QED
      BY <3>2 DEF col
  <2> QED
    BY <2>5, <2>6
<1> QED
  BY <1>1, CatalogKept, ListedKept, PTL

-----------------------------------------------------------------------------
(* ON and WHERE                                                            *)

\* Where the index of the columns is right, it says how often an entry has one.
LEMMA ListingsAre ==
    ASSUME CatalogTypeOK, TablesAgree, ColumnsListed,
           NEW subqueries, NEW ts, From(subqueries, ts), NEW x \in Idents, NEW col,
           col.field = x, col.table = NoName, ~ Mislisted(col, ts), NEW i \in DOMAIN ts
    PROVE  columnMap[x][ts[i].tableName] = Has(ts, i, x)
<1>1. <<ts[i].tableName, x>> \notin dropped
  BY DEF Mislisted
<1>2. ts[i].tableName \in Idents /\ tableMap[ts[i].tableName] # NoTable
  BY DEF From, WellFormed
<1>3. columnMap[x][ts[i].tableName] = Listings(tableMap, ts[i].tableName, x)
  BY <1>1, <1>2, ColumnsAre DEF ColumnsListed, TablesAgree
<1> QED
  BY <1>2, <1>3 DEF Listings, Has

\* A column that SQL finds is no error when a condition is parsed, and unless
\* an alias hides it, it is taken for one of the entry SQL says.
LEMMA NameFound ==
    ASSUME CatalogTypeOK, TablesAgree, ColumnsListed,
           NEW subqueries, NEW ts, From(subqueries, ts), NEW col, IsColumn(col),
           ~ Mislisted(col, ts), SqlColumn(col, subqueries, ts) # Error
    PROVE  /\ CheckName(col, subqueries, ts) \notin {NoName, Error}
           /\ ~ HiddenByAlias(col, ts) => CheckName(col, subqueries, ts) = SqlColumn(col, subqueries, ts)
<1> DEFINE x == col.field
           nodes == Nodes(subqueries, ts)
           owners == {k \in DOMAIN nodes : nodes[k][x] > 0 /\ col.table \in {NoName, k}}
           qs == {q \in subqueries : x \in q.fields}
           tab == CheckName(col, subqueries, ts)
           sql == SqlColumn(col, subqueries, ts)
<1>1. x \in Idents /\ col.table # Error
  BY DEF IsColumn
<1>2. sql \in owners /\ owners = {sql} /\ nodes[sql][x] = 1
  <2>1. sql = IF \E k \in owners : owners = {k} /\ nodes[k][x] = 1
              THEN CHOOSE k \in owners : TRUE ELSE Error
    BY DEF SqlColumn
  <2>2. PICK k \in owners : owners = {k} /\ nodes[k][x] = 1
    BY <2>1
  <2> HIDE DEF owners, nodes, sql
  <2>3. (CHOOSE j \in owners : TRUE) = k
    BY <2>2
  <2> QED
    BY <2>1, <2>2, <2>3
<1>3. CASE col.table # NoName
  <2>1. tab = col.table
    BY <1>3 DEF CheckName
  <2>2. sql = col.table
    BY <1>2, <1>3
  <2> QED
    BY <1>1, <1>3, <2>1, <2>2
<1>4. CASE col.table = NoName
  <2>1. \A k : k \in owners <=> \/ \E i \in DOMAIN ts : k = Key(ts[i]) /\ Has(ts, i, x) > 0
                                \/ \E q \in qs : k = q.alias
    BY <1>1, <1>4, OwnersAre
  <2>2. /\ \A i, j \in DOMAIN ts : Key(ts[i]) = Key(ts[j]) => i = j
        /\ \A p, q \in qs : p.alias = q.alias => p = q
        /\ \A q \in qs : q.alias # NoName /\ q.alias # Error
        /\ \A i \in DOMAIN ts : ts[i].tableName \in Idents
    BY DEF From, WellFormed
  <2>3. \A i \in DOMAIN ts : nodes[Key(ts[i])][x] = Has(ts, i, x)
    BY <1>1, NodesAre
  <2> HIDE DEF owners, nodes, sql
  <2>4. CASE qs # {}
    <3>1. PICK p \in qs : TRUE
      BY <2>4
    <3>2. \A q \in qs : q.alias = sql
      BY <1>2, <2>1
    <3>3. qs = {p} /\ p.alias = sql
      BY <2>2, <3>1, <3>2
    <3>4. Cardinality(qs) = 1 /\ (CHOOSE q \in qs : TRUE) = p
      BY <3>3, FS_Singleton
    <3>5. tab = (CHOOSE q \in qs : TRUE).alias
      BY <1>4, <3>4 DEF CheckName
    <3> QED
      BY <2>2, <3>3, <3>4, <3>5 DEF sql
  <2>5. CASE qs = {}
    <3> DEFINE listings(i) == columnMap[x][ts[i].tableName]
               is == {i \in DOMAIN ts : listings(i) > 0}
    <3>1. \A i \in DOMAIN ts : listings(i) = Has(ts, i, x)
      BY <1>1, <1>4, ListingsAre
    <3>2. PICK i \in DOMAIN ts : sql = Key(ts[i]) /\ Has(ts, i, x) > 0
      BY <1>2, <2>1, <2>5
    <3>3. \A j \in is : j = i
      <4>1. ASSUME NEW j \in is PROVE j = i
        <5>1. j \in DOMAIN ts /\ Has(ts, j, x) > 0
          BY <3>1
        <5>2. Key(ts[j]) \in owners
          BY <2>1, <5>1
        <5> QED
          BY <1>2, <2>2, <3>2, <5>1, <5>2
      <4> QED
        BY <4>1
    <3>4. i \in is /\ is = {i} /\ listings(i) = 1
      BY <1>2, <2>3, <3>1, <3>2, <3>3
    <3>5. Cardinality(qs) = 0
      BY <2>5, FS_EmptySet
    <3>6. tab = IF is # {}
                THEN IF \E j \in is : is = {j} /\ listings(j) = 1
                     THEN ts[CHOOSE j \in is : TRUE].tableName ELSE Error
                ELSE NoName
      BY <1>4, <2>5, <3>5 DEF CheckName
    <3>7. (CHOOSE j \in is : TRUE) = i
      BY <3>4
    <3>8. tab = ts[i].tableName
      BY <3>4, <3>6, <3>7
    <3>9. tab \notin {NoName, Error}
      BY <2>2, <3>8, NamesAssumption
    <3>10. ~ HiddenByAlias(col, ts) => ts[i].alias = NoName
      BY <1>4, <3>2 DEF HiddenByAlias, Has
    <3>11. ~ HiddenByAlias(col, ts) => Key(ts[i]) = ts[i].tableName
      BY <3>10 DEF Key
    <3> QED
      BY <3>2, <3>8, <3>9, <3>11 DEF sql
  <2> QED
    BY <2>4, <2>5
<1> QED
  BY <1>3, <1>4

\* A legal condition that is not misread is a join or a filter.
LEMMA LegalParsed ==
    ASSUME CatalogTypeOK, TablesAgree, ColumnsListed,
           NEW subqueries, NEW ts, From(subqueries, ts), NEW w,
           IsColumn(w.left), w.right = NoName \/ IsColumn(w.right),
           Legal(w, subqueries, ts), ~ Misread(w, ts)
    PROVE  ParseCondition(w, subqueries, ts) \in {"join", "filter"}
<1> DEFINE l == Side(w.left, subqueries, ts)
           r == Side(w.right, subqueries, ts)
<1>1. w # Malformed /\ w.left # NoName /\ SqlColumn(w.left, subqueries, ts) # Error
  BY DEF Legal, IsColumn
<1>2. l = CheckName(w.left, subqueries, ts)
  BY <1>1 DEF Side
<1>3. ~ Mislisted(w.left, ts) /\ (~ w.eq => ~ HiddenByAlias(w.left, ts))
  BY <1>1 DEF Misread
<1>4. l # Error /\ (~ HiddenByAlias(w.left, ts) => l = SqlColumn(w.left, subqueries, ts))
  BY <1>1, <1>2, <1>3, NameFound
<1>5. ParseCondition(w, subqueries, ts) =
          IF Error \in {l, r} THEN Error
          ELSE IF NoName \notin {l, r} /\ l # r THEN (IF w.eq THEN "join" ELSE Error)
          ELSE "filter"
  BY <1>1 DEF ParseCondition
<1>6. CASE w.right = NoName
  <2>1. r = NoName
    BY <1>6 DEF Side
  <2> HIDE DEF l, r
  <2> QED
    BY <1>4, <1>5, <2>1, NamesAssumption
<1>7. CASE w.right # NoName
  <2>1. /\ IsColumn(w.right)
        /\ SqlColumn(w.right, subqueries, ts) # Error
        /\ w.eq \/ SqlColumn(w.left, subqueries, ts) = SqlColumn(w.right, subqueries, ts)
    BY <1>7 DEF Legal
  <2>2. r = CheckName(w.right, subqueries, ts)
    BY <1>7 DEF Side
  <2>3. ~ Mislisted(w.right, ts) /\ (~ w.eq => ~ HiddenByAlias(w.right, ts))
    BY <1>7 DEF Misread
  <2>4. r # Error /\ (~ HiddenByAlias(w.right, ts) => r = SqlColumn(w.right, subqueries, ts))
    BY <2>1, <2>2, <2>3, NameFound
  <2> HIDE DEF l, r
  <2>5. ~ w.eq => l = r
    BY <1>3, <1>4, <2>1, <2>3, <2>4
  <2> QED
    BY <1>4, <1>5, <2>4, <2>5
<1> QED
  BY <1>6, <1>7

\* The elements at the places in K are all picked.
LEMMA PickedSet ==
    ASSUME NEW s, s \in Seq(ToSet(s)), NEW K \in SUBSET DOMAIN s
    PROVE  /\ Picked(s, K) \in Seq(ToSet(s))
           /\ \A i \in K : s[i] \in ToSet(Picked(s, K))
<1>1. Len(s) \in Nat /\ DOMAIN s = 1 .. Len(s)
  OBVIOUS
<1> DEFINE c == Cardinality(K)
           p == Picked(s, K)
<1>2. p = [n \in 1 .. c |-> s[Nth(K, n)]]
  BY DEF Picked, Nth, Count, UpTo
<1>3. /\ c \in Nat
      /\ \A n \in 1 .. c : Nth(K, n) \in K
      /\ \A i \in K : \E n \in 1 .. c : Nth(K, n) = i
  BY <1>1, PickedIs
<1> HIDE DEF c, p
<1>4. \A i \in DOMAIN s : s[i] \in ToSet(s)
  BY DEF ToSet
<1>5. \A n \in 1 .. c : s[Nth(K, n)] \in ToSet(s)
  BY <1>3, <1>4
<1>6. p \in Seq(ToSet(s))
  BY <1>2, <1>3, <1>5
<1>7. ASSUME NEW i \in K PROVE s[i] \in ToSet(p)
  <2>1. PICK n \in 1 .. c : Nth(K, n) = i
    BY <1>3
  <2>2. n \in DOMAIN p /\ p[n] = s[i]
    BY <1>2, <2>1
  <2> QED
    BY <2>2 DEF ToSet
<1> QED
  BY <1>6, <1>7 DEF p

LEMMA ConcatSet ==
    ASSUME NEW X, NEW Y, NEW a \in Seq(X), NEW b \in Seq(Y)
    PROVE  ToSet(a) \subseteq ToSet(a \o b) /\ ToSet(b) \subseteq ToSet(a \o b)
<1>1. a \in Seq(X \cup Y) /\ b \in Seq(X \cup Y)
  OBVIOUS
<1>2. /\ DOMAIN a = 1 .. Len(a) /\ DOMAIN b = 1 .. Len(b) /\ Len(a) \in Nat /\ Len(b) \in Nat
      /\ DOMAIN (a \o b) = 1 .. Len(a) + Len(b)
      /\ \A i \in 1 .. Len(a) : (a \o b)[i] = a[i]
      /\ \A i \in 1 .. Len(b) : (a \o b)[Len(a) + i] = b[i]
  BY <1>1
<1>3. ASSUME NEW i \in 1 .. Len(a) PROVE i \in DOMAIN (a \o b)
  BY <1>2
<1>4. ASSUME NEW i \in 1 .. Len(b) PROVE Len(a) + i \in DOMAIN (a \o b)
  BY <1>2
<1> QED
  BY <1>2, <1>3, <1>4 DEF ToSet

\* A condition that is neither a join nor a filter is refused or misread, or it
\* is a filter in ON.
LEMMA LostWhere ==
    ASSUME NEW on, NEW where, NEW subqueries, NEW ts, NEW w \in Lost(on, where, subqueries, ts),
           on \in Seq(ToSet(on)), where \in Seq(ToSet(where)),
           ParseCondition(w, subqueries, ts) \in {"join", "filter"}
    PROVE  w \in ToSet(on) /\ ParseCondition(w, subqueries, ts) = "filter"
<1> DEFINE places(c, kind) == {i \in DOMAIN c : ParseCondition(c[i], subqueries, ts) = kind}
           picked(c, kind) == ParseWhere(c, kind, subqueries, ts)
<1>1. ASSUME NEW c, c \in Seq(ToSet(c)), NEW kind
      PROVE  /\ picked(c, kind) \in Seq(ToSet(c))
             /\ w \in ToSet(c) /\ ParseCondition(w, subqueries, ts) = kind => w \in ToSet(picked(c, kind))
  <2>1. places(c, kind) \in SUBSET DOMAIN c /\ picked(c, kind) = Picked(c, places(c, kind))
    BY DEF ParseWhere
  <2>2. w \in ToSet(c) => \E i \in DOMAIN c : c[i] = w
    BY DEF ToSet
  <2>3. /\ Picked(c, places(c, kind)) \in Seq(ToSet(c))
        /\ \A i \in places(c, kind) : c[i] \in ToSet(Picked(c, places(c, kind)))
    <3> HIDE DEF places
    <3> QED
      BY <1>1, <2>1, PickedSet
  <2> QED
    BY <2>1, <2>2, <2>3
<1> HIDE DEF picked
<1>2. /\ w \in ToSet(on) \cup ToSet(where)
      /\ w \notin ToSet(picked(on, "join") \o picked(where, "join"))
      /\ w \notin ToSet(picked(where, "filter"))
  BY DEF Lost, Joins, Filters, picked
<1>3. w \notin ToSet(picked(on, "join")) /\ w \notin ToSet(picked(where, "join"))
  BY <1>1, <1>2, ConcatSet
<1> QED
  BY <1>1, <1>2, <1>3

\* A clause of one condition is parsed or refused.
LEMMA OnlyParsed ==
    ASSUME NEW c, c \in Seq(ToSet(c)), NEW subqueries, NEW ts, Parsed(c, subqueries, ts),
           NEW w \in ToSet(c), ~ (Len(c) > 1)
    PROVE  ParseCondition(w, subqueries, ts) \in {"join", "filter"}
<1>1. PICK i \in DOMAIN c : w = c[i]
  BY DEF ToSet
<1>2. Len(c) = 1 /\ i = 1
  <2>1. Len(c) \in Nat /\ DOMAIN c = 1 .. Len(c)
    OBVIOUS
  <2> QED
    BY <1>1, <2>1
<1>3. ParseCondition(w, subqueries, ts) # Error
  BY <1>1, <1>2 DEF Parsed
<1>4. ParseCondition(w, subqueries, ts) \in {"join", "filter", Error}
  BY DEF ParseCondition
<1> QED
  BY <1>3, <1>4

\* Aliases do not matter when a condition is parsed.
LEMMA AliasIgnored ==
    ASSUME NEW subqueries, NEW ts, NEW us, DOMAIN us = DOMAIN ts,
           \A i \in DOMAIN ts : us[i].tableName = ts[i].tableName, NEW w
    PROVE  ParseCondition(w, subqueries, us) = ParseCondition(w, subqueries, ts)
<1>1. ASSUME NEW col PROVE CheckName(col, subqueries, us) = CheckName(col, subqueries, ts)
  <2> DEFINE qs == {q \in subqueries : col.field \in q.fields}
             is(vs) == {i \in DOMAIN vs : columnMap[col.field][vs[i].tableName] > 0}
             name(vs) == IF \E i \in is(vs) : is(vs) = {i} /\ columnMap[col.field][vs[i].tableName] = 1
                         THEN vs[CHOOSE i \in is(vs) : TRUE].tableName ELSE Error
  <2>1. is(us) = is(ts)
    OBVIOUS
  <2>2. is(ts) # {} => name(us) = name(ts)
    <3>1. \A i \in is(ts) : i \in DOMAIN ts /\ us[i].tableName = ts[i].tableName
      OBVIOUS
    <3> HIDE DEF is
    <3>2. is(ts) # {} => (CHOOSE i \in is(ts) : TRUE) \in is(ts)
      OBVIOUS
    <3> QED
      BY <2>1, <3>1, <3>2
  <2>3. ASSUME NEW vs
        PROVE  CheckName(col, subqueries, vs) =
                   CASE col.table # NoName -> col.table
                     [] col.table = NoName /\ Cardinality(qs) > 1 -> Error
                     [] col.table = NoName /\ Cardinality(qs) = 1 -> (CHOOSE q \in qs : TRUE).alias
                     [] col.table = NoName /\ qs = {} /\ is(vs) # {} -> name(vs)
                     [] OTHER -> NoName
    BY DEF CheckName
  <2> HIDE DEF is, name, qs
  <2> QED
    BY <2>1, <2>2, <2>3
<1> QED
  BY <1>1 DEF ParseCondition, Side

\* A condition of a planned statement that is lost.
LEMMA LostExcused ==
    ASSUME CatalogTypeOK, TablesAgree, ColumnsListed,
           NEW on, NEW where, NEW subqueries, NEW ts, From(subqueries, ts),
           on \in Seq(ToSet(on)), where \in Seq(ToSet(where)),
           \A w \in (ToSet(on) \cup ToSet(where)) \ {Malformed} :
               IsColumn(w.left) /\ (w.right = NoName \/ IsColumn(w.right)),
           Parsed(on, subqueries, ts), Parsed(where, subqueries, ts),
           NEW w \in Lost(on, where, subqueries, ts)
    PROVE  \/ w \in ToSet(on) /\ ParseCondition(w, subqueries, ts) = "filter"
           \/ Misread(w, ts) /\ \E c \in {on, where} : w \in ToSet(c) /\ Len(c) > 1
<1>1. w \in ToSet(on) \cup ToSet(where) /\ Legal(w, subqueries, ts) /\ w # Malformed
  BY DEF Lost, Legal
<1>2. IsColumn(w.left) /\ (w.right = NoName \/ IsColumn(w.right))
  BY <1>1
<1>3. CASE ~ Misread(w, ts)
  <2>1. ParseCondition(w, subqueries, ts) \in {"join", "filter"}
    BY <1>1, <1>2, <1>3, LegalParsed
  <2> QED
    BY <2>1, LostWhere
<1>4. CASE Misread(w, ts) /\ ~ \E c \in {on, where} : w \in ToSet(c) /\ Len(c) > 1
  <2>1. ParseCondition(w, subqueries, ts) \in {"join", "filter"}
    BY <1>1, <1>4, OnlyParsed
  <2> QED
    BY <2>1, LostWhere
<1> QED
  BY <1>3, <1>4

\* A statement that is planned applies every legal condition it was given, for
\* any FROM clause, any conditions and after any history of the catalog: but for
\* the filters parseFrom drops from ON and the parts of an AND that parseWhere
\* misreads.
THEOREM ConditionsKept == CatalogSpec => []ConditionsApplied
<1>1. ASSUME CatalogInv, ColumnsListed, NEW f \in Froms, NEW s \in Statements
      PROVE  /\ Planned(s.on, s.where, f.subqueries, f.ts) =>
                   \A w \in Lost(s.on, s.where, f.subqueries, f.ts) :
                       \/ w \in ToSet(s.on) /\ ParseCondition(w, f.subqueries, f.ts) = "filter"
                       \/ Misread(w, f.ts) /\ \E c \in {s.on, s.where} : w \in ToSet(c) /\ Len(c) > 1
             /\ (f.subqueries = {} /\ Len(f.ts) = 1 /\ s.on = <<>> /\ DeletePlanned(s.where, f.ts[1])) =>
                   \A w \in Lost(<<>>, s.where, {}, f.ts) : Misread(w, f.ts) /\ Len(s.where) > 1
  <2> DEFINE on == s.on
             where == s.where
  <2>1. From(f.subqueries, f.ts)
    BY FromIs
  <2>2. CatalogTypeOK /\ TablesAgree
    BY <1>1 DEF CatalogInv
  <2>3. /\ on \in Seq(ToSet(on)) /\ where \in Seq(ToSet(where))
        /\ \A w \in (ToSet(on) \cup ToSet(where)) \ {Malformed} :
               IsColumn(w.left) /\ (w.right = NoName \/ IsColumn(w.right))
    BY StatementsAssumption
  <2> HIDE DEF on, where
  <2>4. ASSUME Planned(on, where, f.subqueries, f.ts), NEW w \in Lost(on, where, f.subqueries, f.ts)
        PROVE  \/ w \in ToSet(on) /\ ParseCondition(w, f.subqueries, f.ts) = "filter"
               \/ Misread(w, f.ts) /\ \E c \in {on, where} : w \in ToSet(c) /\ Len(c) > 1
    <3>1. Parsed(on, f.subqueries, f.ts) /\ Parsed(where, f.subqueries, f.ts)
      BY <2>4 DEF Planned
    <3> QED
      BY <1>1, <2>1, <2>2, <2>3, <2>4, <3>1, LostExcused
  <2>5. ASSUME f.subqueries = {}, Len(f.ts) = 1, on = <<>>, DeletePlanned(where, f.ts[1]),
               NEW w \in Lost(<<>>, where, {}, f.ts)
        PROVE  Misread(w, f.ts) /\ Len(where) > 1
    <3> DEFINE us == <<[f.ts[1] EXCEPT !.alias = NoName]>>
               ts == f.ts
    <3>1. /\ f \in FromClauses /\ ts \in Seq(ToSet(ts))
          /\ \A t \in ToSet(ts) : t = [tableName |-> t.tableName, alias |-> t.alias]
      BY FromAssumption DEF Froms
    <3>2. DOMAIN ts = {1}
      BY <2>5, <3>1
    <3>3. ts[1] = [tableName |-> ts[1].tableName, alias |-> ts[1].alias]
      BY <3>1, <3>2 DEF ToSet
    <3>4. us[1].tableName = ts[1].tableName /\ DOMAIN us = {1}
      BY <3>3
    <3>5. Parsed(<<>>, {}, us) /\ Parsed(where, {}, us)
      BY <2>5 DEF DeletePlanned, Planned
    <3> HIDE DEF us, ts
    <3>6. \A v : ParseCondition(v, {}, us) = ParseCondition(v, {}, ts)
      BY <3>2, <3>4, AliasIgnored
    <3>7. Parsed(<<>>, {}, ts) /\ Parsed(where, {}, ts)
      BY <3>5, <3>6 DEF Parsed
    <3>8. ToSet(<<>>) = {} /\ <<>> \in Seq({})
      BY DEF ToSet
    <3>9. From({}, ts)
      BY <2>1, <2>5 DEF ts
    <3>10. \A v \in (ToSet(<<>>) \cup ToSet(where)) \ {Malformed} :
               IsColumn(v.left) /\ (v.right = NoName \/ IsColumn(v.right))
      BY <2>3, <3>8
    <3>11. w \in Lost(<<>>, where, {}, ts)
      BY <2>5 DEF ts
    <3>12. \/ w \in ToSet(<<>>) /\ ParseCondition(w, {}, ts) = "filter"
           \/ Misread(w, ts) /\ \E c \in {<<>>, where} : w \in ToSet(c) /\ Len(c) > 1
      BY <1>1, <2>2, <2>3, <3>7, <3>8, <3>9, <3>10, <3>11, LostExcused
    <3>13. Misread(w, ts) /\ Len(where) > 1
      BY <3>8, <3>12
    <3> QED
      BY <3>13 DEF ts
  <2> QED
    BY <2>4, <2>5 DEF on, where
<1>2. ASSUME CatalogInv, ColumnsListed PROVE ConditionsApplied
  BY <1>1, <1>2 DEF ConditionsApplied
<1> QED
  BY <1>2, CatalogKept, ListedKept, PTL

-----------------------------------------------------------------------------
(* The joins of a plan                                                     *)

\* Induction up to a number, with the set of numbers the claim holds for.
LEMMA Reached ==
    ASSUME NEW N \in Nat, NEW T, 0 \in T, \A i \in 1 .. N : i - 1 \in T => i \in T
    PROVE  N \in T
<1> DEFINE E == (0 .. N) \ T
           less == OpToRel(<, Nat)
<1>1. SUFFICES ASSUME N \notin T PROVE FALSE
  OBVIOUS
<1>2. N \in E /\ E \subseteq Nat
  BY <1>1
<1>3. IsWellFoundedOn(less, Nat)
  BY NatLessThanWellFounded
<1>4. \A x, y \in Nat : <<x, y>> \in less <=> x < y
  BY DEF OpToRel
<1> HIDE DEF less
<1>5. PICK i \in E : \A y \in E : ~ (<<y, i>> \in less)
  <2>1. E # {}
    BY <1>2
  <2> HIDE DEF E
  <2> QED
    BY <1>2, <1>3, <2>1, WFMin
<1>6. i \in 1 .. N /\ i \notin T
  BY <1>5
<1>7. i - 1 \in Nat /\ i \in Nat /\ i - 1 < i /\ i - 1 \in 0 .. N
  BY <1>6
<1>8. i - 1 \notin E
  <2>1. <<i - 1, i>> \in less
    BY <1>4, <1>7
  <2> QED
    BY <1>5, <2>1
<1> QED
  BY <1>6, <1>7, <1>8

\* The operators of names K after n joins.  Two names have the same operator if
\* it scans both; a join takes away at most one operator; if all n have done so,
\* no operator scans an entry twice.
OpsOf(ops) == {ops[k] : k \in DOMAIN ops}
JoinedOps(ops, K, n) ==
    /\ ops \in [K -> [K -> Nat]]
    /\ \A k, e \in K : ops[k][e] > 0 <=> ops[e] = ops[k]
    /\ Cardinality(OpsOf(ops)) + n >= Cardinality(K)
    /\ Cardinality(OpsOf(ops)) + n = Cardinality(K) => \A k, e \in K : ops[k][e] <= 1

LEMMA JoinsMade ==
    ASSUME NEW K, IsFiniteSet(K), NEW n \in Nat, NEW ops, JoinedOps(ops, K, n), NEW l \in K, NEW r \in K
    PROVE  JoinedOps(JoinNodes(ops, l, r), K, n + 1)
<1> DEFINE joined == [k \in K |-> ops[l][k] + ops[r][k]]
           new == [k \in K |-> IF ops[k] \in {ops[l], ops[r]} THEN joined ELSE ops[k]]
           others == OpsOf(ops) \ {ops[l], ops[r]}
<1>1. /\ ops \in [K -> [K -> Nat]] /\ DOMAIN ops = K
      /\ \A k, e \in K : ops[k][e] \in Nat
      /\ \A k, e \in K : ops[k][e] > 0 <=> ops[e] = ops[k]
  BY DEF JoinedOps
<1>2. JoinNodes(ops, l, r) = new
  BY <1>1 DEF JoinNodes
<1>3. joined \in [K -> Nat] /\ \A e \in K : joined[e] = ops[l][e] + ops[r][e]
  BY <1>1
<1> HIDE DEF joined
<1>4. \A e \in K : joined[e] > 0 <=> ops[e] \in {ops[l], ops[r]}
  BY <1>1, <1>3
<1>5. new \in [K -> [K -> Nat]] /\ DOMAIN new = K
  BY <1>1, <1>3
<1>6. \A k \in K : new[k] = IF ops[k] \in {ops[l], ops[r]} THEN joined ELSE ops[k]
  OBVIOUS
<1>7. \A k \in K : ops[k] \notin {ops[l], ops[r]} => ops[k] # joined
  <2>1. ASSUME NEW k \in K, ops[k] \notin {ops[l], ops[r]}, ops[k] = joined PROVE FALSE
    <3>1. ops[k][k] > 0 /\ ~ (joined[k] > 0)
      BY <1>1, <1>4, <2>1
    <3> QED
      BY <2>1, <3>1
  <2> QED
    BY <2>1
<1> HIDE DEF new
<1>8. \A k, e \in K : new[k][e] > 0 <=> new[e] = new[k]
  <2> SUFFICES ASSUME NEW k \in K, NEW e \in K PROVE new[k][e] > 0 <=> new[e] = new[k]
    OBVIOUS
  <2>1. CASE ops[k] \in {ops[l], ops[r]}
    <3>1. new[k] = joined
      BY <1>6, <2>1
    <3>2. new[e] = joined <=> ops[e] \in {ops[l], ops[r]}
      BY <1>6, <1>7
    <3> QED
      BY <1>4, <3>1, <3>2
  <2>2. CASE ops[k] \notin {ops[l], ops[r]}
    <3>1. new[k] = ops[k] /\ ops[k] # joined
      BY <1>6, <1>7, <2>2
    <3>2. new[e] = ops[k] <=> ops[e] = ops[k]
      BY <1>6, <2>2, <3>1
    <3> QED
      BY <1>1, <3>1, <3>2
  <2> QED
    BY <2>1, <2>2
<1>9. OpsOf(new) = others \cup {joined} /\ joined \notin others
  <2>1. OpsOf(new) = {new[k] : k \in K} /\ OpsOf(ops) = {ops[k] : k \in K}
    BY <1>1, <1>5 DEF OpsOf
  <2>2. ASSUME NEW x \in OpsOf(new) PROVE x \in others \cup {joined}
    BY <1>6, <2>1, <2>2
  <2>3. ASSUME NEW x \in others PROVE x \in OpsOf(new) /\ x # joined
    BY <1>6, <1>7, <2>1, <2>3
  <2>4. new[l] = joined
    BY <1>6
  <2>5. joined \in OpsOf(new)
    BY <2>1, <2>4
  <2> QED
    BY <2>2, <2>3, <2>5
<1>10. IsFiniteSet(OpsOf(ops)) /\ ops[l] \in OpsOf(ops) /\ ops[r] \in OpsOf(ops)
  <2>1. OpsOf(ops) = {ops[k] : k \in K}
    BY <1>1 DEF OpsOf
  <2>2. ops \in Surjection(K, OpsOf(ops))
    BY <1>1, <2>1 DEF Surjection
  <2>3. IsFiniteSet(OpsOf(ops))
    BY <2>2, FS_Surjection
  <2> QED
    BY <2>1, <2>3
<1> DEFINE c == Cardinality(OpsOf(ops))
           d == Cardinality(OpsOf(new))
<1>11. c \in Nat /\ d \in Nat /\ Cardinality(K) \in Nat
  <2>1. IsFiniteSet(others)
    BY <1>10, FS_Subset
  <2>2. IsFiniteSet(others \cup {joined})
    BY <2>1, FS_AddElement
  <2> QED
    BY <1>9, <1>10, <2>2, FS_CardinalityType
<1>12. d = IF ops[l] = ops[r] THEN c ELSE c - 1
  <2>1. IsFiniteSet(others) /\ d = Cardinality(others) + 1
    BY <1>9, <1>10, FS_Subset, FS_AddElement
  <2>2. IsFiniteSet(OpsOf(ops) \ {ops[l]}) /\ Cardinality(OpsOf(ops) \ {ops[l]}) = c - 1
    BY <1>10, FS_RemoveElement
  <2>3. CASE ops[l] = ops[r]
    <3>1. others = OpsOf(ops) \ {ops[l]}
      BY <2>3
    <3> QED
      BY <1>11, <2>1, <2>2, <2>3, <3>1
  <2>4. CASE ops[l] # ops[r]
    <3>1. others = (OpsOf(ops) \ {ops[l]}) \ {ops[r]} /\ ops[r] \in OpsOf(ops) \ {ops[l]}
      BY <1>10, <2>4
    <3>2. Cardinality(others) = c - 1 - 1
      BY <2>2, <3>1, FS_RemoveElement
    <3> QED
      BY <1>11, <2>1, <2>4, <3>2
  <2> QED
    BY <2>3, <2>4
<1>13. c + n >= Cardinality(K) /\ (c + n = Cardinality(K) => \A k, e \in K : ops[k][e] <= 1)
  BY DEF JoinedOps
<1> HIDE DEF c, d
<1>14. d + (n + 1) >= Cardinality(K)
  BY <1>11, <1>12, <1>13
<1>15. ASSUME d + (n + 1) = Cardinality(K) PROVE \A k, e \in K : new[k][e] <= 1
  <2>1. ops[l] # ops[r] /\ c + n = Cardinality(K)
    BY <1>11, <1>12, <1>13, <1>15
  <2>2. \A k, e \in K : ops[k][e] <= 1
    BY <1>13, <2>1
  <2>3. \A e \in K : joined[e] <= 1
    BY <1>1, <1>3, <2>1, <2>2
  <2> QED
    BY <1>6, <2>2, <2>3
<1> QED
  BY <1>2, <1>5, <1>8, <1>14, <1>15 DEF JoinedOps, c, d

\* The operator of every name before any join, and with every join.
LEMMA OpsStep ==
    ASSUME NEW joins, NEW subqueries, NEW ts, Len(joins) \in Nat
    PROVE  LET ops == OpsAfter(joins, subqueries, ts)
               K == DOMAIN Nodes(subqueries, ts)
           IN  /\ ops[0] = [k \in K |-> [e \in K |-> IF e = k THEN 1 ELSE 0]]
               /\ \A n \in 1 .. Len(joins) :
                     ops[n] = JoinNodes(ops[n - 1], Column(joins[n].left, subqueries, ts),
                                        Column(joins[n].right, subqueries, ts))
<1> DEFINE K == DOMAIN Nodes(subqueries, ts)
           N == Len(joins)
           l(n) == Column(joins[n].left, subqueries, ts)
           r(n) == Column(joins[n].right, subqueries, ts)
           b == [k \in K |-> [e \in K |-> IF e = k THEN 1 ELSE 0]]
           ops == OpsAfter(joins, subqueries, ts)
           upTo(n, f) == f = [j \in 0 .. n |-> IF j = 0 THEN b ELSE JoinNodes(f[j - 1], l(j), r(j))]
           T == {n \in 0 .. N : \E f : upTo(n, f)}
<1>1. ops = CHOOSE f : upTo(N, f)
  BY DEF OpsAfter
<1> HIDE DEF K, N, l, r, b, ops
<1>2. N \in Nat
  BY DEF N
<1>3. 0 \in T
  <2>1. upTo(0, [j \in 0 .. 0 |-> b])
    OBVIOUS
  <2>2. 0 \in 0 .. N
    BY <1>2
  <2> HIDE DEF upTo
  <2>3. \E f : upTo(0, f)
    BY <2>1
  <2> QED
    BY <2>2, <2>3
<1>4. ASSUME NEW i \in 1 .. N, i - 1 \in T PROVE i \in T
  <2>1. PICK f : upTo(i - 1, f)
    BY <1>4
  <2> DEFINE g == [j \in 0 .. i |-> IF j = i THEN JoinNodes(f[i - 1], l(i), r(i)) ELSE f[j]]
  <2>2. \A j \in 0 .. i - 1 : f[j] = IF j = 0 THEN b ELSE JoinNodes(f[j - 1], l(j), r(j))
    BY <2>1
  <2>3. i \in Nat /\ i > 0 /\ \A j \in 0 .. i : j # i => j \in 0 .. i - 1
    BY <1>2
  <2>4. \A j \in 0 .. i : j # 0 => g[j - 1] = f[j - 1]
    BY <2>3
  <2>5. \A j \in 0 .. i : g[j] = IF j = 0 THEN b ELSE JoinNodes(g[j - 1], l(j), r(j))
    BY <2>2, <2>3, <2>4
  <2>6. g = [j \in 0 .. i |-> g[j]]
    OBVIOUS
  <2> HIDE DEF g
  <2>7. upTo(i, g)
    BY <2>5, <2>6
  <2>8. i \in 0 .. N
    BY <1>2
  <2> QED
    BY <2>7, <2>8
<1>5. N \in T
  <2> HIDE DEF T
  <2> QED
    BY <1>2, <1>3, <1>4, Reached
<1>6. upTo(N, ops)
  <2> HIDE DEF upTo
  <2> QED
    BY <1>1, <1>5
<1>7. ops[0] = b /\ \A n \in 1 .. N : ops[n] = JoinNodes(ops[n - 1], l(n), r(n))
  BY <1>2, <1>6
<1> QED
  BY <1>7 DEF K, N, l, r, b, ops

\* A column is taken from an entry, or is an error.
LEMMA ColumnOfNode ==
    ASSUME NEW col, NEW subqueries, NEW ts, Column(col, subqueries, ts) # Error
    PROVE  Column(col, subqueries, ts) \in DOMAIN Nodes(subqueries, ts)
<1> DEFINE nodes == Nodes(subqueries, ts)
           tab == CheckName(col, subqueries, ts)
           cands == {k \in DOMAIN nodes : nodes[k][col.field] > 0}
<1>1. Column(col, subqueries, ts) = FieldToOp(tab, col.field, nodes) /\ FieldToOp(tab, col.field, nodes) # Error
  BY DEF Column
<1>2. cands # {} => (CHOOSE k \in cands : TRUE) \in cands
  OBVIOUS
<1> HIDE DEF nodes, tab
<1>3. FieldToOp(tab, col.field, nodes) \in DOMAIN nodes
  BY <1>1, <1>2 DEF FieldToOp
<1> QED
  BY <1>1, <1>3 DEF nodes

\* FROM has finitely many entries.
LEMMA NodesFinite ==
    ASSUME NEW subqueries, NEW ts, IsFiniteSet(subqueries), ts \in Seq(ToSet(ts))
    PROVE  IsFiniteSet(DOMAIN Nodes(subqueries, ts))
<1> DEFINE Q == {q.alias : q \in subqueries}
           E == {Key(ts[i]) : i \in DOMAIN ts}
           a == [q \in subqueries |-> q.alias]
           k == [i \in DOMAIN ts |-> Key(ts[i])]
<1>1. DOMAIN Nodes(subqueries, ts) = Q \cup E
  BY DEF Nodes
<1>2. a \in Surjection(subqueries, Q) /\ k \in Surjection(DOMAIN ts, E)
  BY DEF Surjection
<1>3. IsFiniteSet(DOMAIN ts)
  BY FS_Interval
<1> HIDE DEF Q, E, a, k
<1>4. IsFiniteSet(Q) /\ IsFiniteSet(E)
  BY <1>2, <1>3, FS_Surjection
<1> QED
  BY <1>1, <1>4, FS_Union

\* The operators when all joins are made.
LEMMA AllJoinsMade ==
    ASSUME NEW joins, NEW subqueries, NEW ts, Len(joins) \in Nat, IsFiniteSet(DOMAIN Nodes(subqueries, ts)),
           \A n \in 1 .. Len(joins) :
               /\ Column(joins[n].left, subqueries, ts) # Error
               /\ Column(joins[n].right, subqueries, ts) # Error
    PROVE  JoinedOps(Joined(joins, subqueries, ts), DOMAIN Nodes(subqueries, ts), Len(joins))
<1> DEFINE K == DOMAIN Nodes(subqueries, ts)
           N == Len(joins)
           l(n) == Column(joins[n].left, subqueries, ts)
           r(n) == Column(joins[n].right, subqueries, ts)
           b == [k \in K |-> [e \in K |-> IF e = k THEN 1 ELSE 0]]
           ops == OpsAfter(joins, subqueries, ts)
           T == {n \in 0 .. N : JoinedOps(ops[n], K, n)}
<1>1. ops[0] = b /\ \A n \in 1 .. N : ops[n] = JoinNodes(ops[n - 1], l(n), r(n))
  BY OpsStep
<1>2. \A n \in 1 .. N : l(n) \in K /\ r(n) \in K
  BY ColumnOfNode
<1>3. N \in Nat /\ IsFiniteSet(K) /\ Joined(joins, subqueries, ts) = ops[N]
  BY DEF Joined
<1> HIDE DEF K, N, l, r, ops
<1>4. JoinedOps(b, K, 0)
  <2>1. b \in [K -> [K -> Nat]] /\ DOMAIN b = K
    OBVIOUS
  <2>2. \A k, e \in K : b[k][e] = IF e = k THEN 1 ELSE 0
    OBVIOUS
  <2> HIDE DEF b
  <2>3. \A k, e \in K : b[e] = b[k] => e = k
    <3>1. ASSUME NEW k \in K, NEW e \in K, b[e] = b[k] PROVE e = k
      <4>1. b[e][e] = 1 /\ b[k][e] = 1
        BY <2>2, <3>1
      <4> QED
        BY <2>2, <4>1
    <3> QED
      BY <3>1
  <2>4. \A k, e \in K : b[k][e] > 0 <=> b[e] = b[k]
    BY <2>2, <2>3
  <2>5. b \in Surjection(K, OpsOf(b)) /\ b \in Injection(K, OpsOf(b))
    <3>1. OpsOf(b) = {b[k] : k \in K}
      BY <2>1 DEF OpsOf
    <3>2. b \in [K -> OpsOf(b)] /\ \A t \in OpsOf(b) : \E k \in K : b[k] = t
      BY <2>1, <3>1
    <3> QED
      BY <2>3, <3>2 DEF Surjection, Injection, IsInjective
  <2>6. Cardinality(OpsOf(b)) = Cardinality(K) /\ Cardinality(K) \in Nat
    BY <1>3, <2>5, FS_Surjection, FS_CardinalityType
  <2>7. Cardinality(OpsOf(b)) + 0 >= Cardinality(K)
    BY <2>6
  <2>8. \A k, e \in K : b[k][e] <= 1
    BY <2>2
  <2> QED
    BY <2>1, <2>4, <2>7, <2>8 DEF JoinedOps
<1>5. 0 \in T
  BY <1>1, <1>3, <1>4
<1>6. ASSUME NEW i \in 1 .. N, i - 1 \in T PROVE i \in T
  <2>1. JoinedOps(ops[i - 1], K, i - 1) /\ i - 1 \in Nat /\ (i - 1) + 1 = i /\ i \in 0 .. N
    BY <1>3, <1>6
  <2>2. JoinedOps(JoinNodes(ops[i - 1], l(i), r(i)), K, (i - 1) + 1)
    BY <1>2, <1>3, <2>1, JoinsMade
  <2>3. ops[i] = JoinNodes(ops[i - 1], l(i), r(i))
    BY <1>1
  <2>4. JoinedOps(ops[i], K, i)
    BY <2>1, <2>2, <2>3
  <2> QED
    BY <2>1, <2>4
<1>7. N \in T
  <2> HIDE DEF T
  <2> QED
    BY <1>3, <1>5, <1>6, Reached
<1>8. JoinedOps(ops[N], K, N)
  BY <1>7
<1> QED
  BY <1>3, <1>8 DEF K, N

\* Fewer joins than entries that leave one operator have each joined two
\* operators, and the one left scans every entry once.
LEMMA OneOperator ==
    ASSUME NEW K, IsFiniteSet(K), NEW n \in Nat, NEW ops, JoinedOps(ops, K, n), AllJoined(ops), n < Cardinality(K),
           NEW k \in K, NEW e \in K
    PROVE  ops[k][e] = 1
<1>1. /\ ops \in [K -> [K -> Nat]] /\ DOMAIN ops = K /\ ops[k][e] \in Nat
      /\ ops[k][e] > 0 <=> ops[e] = ops[k]
      /\ Cardinality(OpsOf(ops)) + n >= Cardinality(K)
      /\ Cardinality(OpsOf(ops)) + n = Cardinality(K) => ops[k][e] <= 1
  BY DEF JoinedOps
<1>2. OpsOf(ops) = {ops[k]} /\ ops[e] = ops[k]
  BY <1>1 DEF AllJoined, OpsOf
<1>3. Cardinality(OpsOf(ops)) = 1
  BY <1>2, FS_Singleton
<1>4. Cardinality(K) \in Nat
  BY FS_CardinalityType
<1>5. ops[k][e] > 0 /\ ops[k][e] <= 1
  BY <1>1, <1>2, <1>3, <1>4
<1> QED
  BY <1>1, <1>5

\* The joins of a statement are a sequence.
LEMMA JoinsSeq ==
    ASSUME NEW on, NEW where, NEW subqueries, NEW ts, on \in Seq(ToSet(on)), where \in Seq(ToSet(where))
    PROVE  LET joins == Joins(on, where, subqueries, ts)
           IN  Len(joins) \in Nat /\ DOMAIN joins = 1 .. Len(joins) /\ \A n \in 1 .. Len(joins) : joins[n] \in ToSet(joins)
<1> DEFINE p(c) == ParseWhere(c, "join", subqueries, ts)
           K(c) == {i \in DOMAIN c : ParseCondition(c[i], subqueries, ts) = "join"}
<1>1. ASSUME NEW c, c \in Seq(ToSet(c)) PROVE p(c) \in Seq(ToSet(c))
  <2>1. p(c) = Picked(c, K(c)) /\ K(c) \in SUBSET DOMAIN c
    BY DEF ParseWhere
  <2> HIDE DEF p, K
  <2> QED
    BY <1>1, <2>1, PickedSet
<1>2. p(on) \in Seq(ToSet(on)) /\ p(where) \in Seq(ToSet(where))
  BY <1>1
<1>3. p(on) \o p(where) \in Seq(ToSet(on) \cup ToSet(where))
  <2> HIDE DEF p
  <2>1. p(on) \in Seq(ToSet(on) \cup ToSet(where)) /\ p(where) \in Seq(ToSet(on) \cup ToSet(where))
    BY <1>2
  <2> QED
    BY <2>1
<1>4. Joins(on, where, subqueries, ts) \in Seq(ToSet(on) \cup ToSet(where))
  BY <1>3 DEF Joins
<1> QED
  BY <1>4 DEF ToSet

\* A plan with fewer joins than entries scans every entry exactly once, for any
\* FROM clause, any conditions and after any history of the catalog: no join of
\* makePhysicalPlan joins an operator with itself.
THEOREM EntriesJoinedOnce == CatalogSpec => []EntriesScannedOnce
<1>1. ASSUME NEW f \in Froms, NEW s \in Statements
      PROVE  LET joins == Joins(s.on, s.where, f.subqueries, f.ts)
                 ops == Joined(joins, f.subqueries, f.ts)
             IN  (Planned(s.on, s.where, f.subqueries, f.ts) /\ Len(joins) < Cardinality(DOMAIN ops)) =>
                     \A k, e \in DOMAIN ops : ops[k][e] = 1
  <2> DEFINE joins == Joins(s.on, s.where, f.subqueries, f.ts)
             ops == Joined(joins, f.subqueries, f.ts)
             K == DOMAIN Nodes(f.subqueries, f.ts)
  <2> SUFFICES ASSUME Planned(s.on, s.where, f.subqueries, f.ts), Len(joins) < Cardinality(DOMAIN ops),
                      NEW k \in DOMAIN ops, NEW e \in DOMAIN ops
               PROVE  ops[k][e] = 1
    OBVIOUS
  <2>1. IsFiniteSet(K)
    <3>1. f \in FromClauses
      BY DEF Froms
    <3> QED
      BY <3>1, FromAssumption, NodesFinite
  <2>2. Len(joins) \in Nat /\ \A n \in 1 .. Len(joins) : joins[n] \in ToSet(joins)
    <3>1. s.on \in Seq(ToSet(s.on)) /\ s.where \in Seq(ToSet(s.where))
      BY StatementsAssumption
    <3> QED
      BY <3>1, JoinsSeq
  <2>3. AllJoined(ops)
    BY DEF Planned
  <2>4. \A w \in ToSet(joins) : Column(w.left, f.subqueries, f.ts) # Error /\ Column(w.right, f.subqueries, f.ts) # Error
    BY DEF Planned
  <2> HIDE DEF joins
  <2>5. JoinedOps(ops, K, Len(joins))
    BY <2>1, <2>2, <2>4, AllJoinsMade
  <2> HIDE DEF ops, K
  <2>6. DOMAIN ops = K
    BY <2>5 DEF JoinedOps
  <2> QED
    BY <2>1, <2>2, <2>3, <2>5, <2>6, OneOperator
<1>2. EntriesScannedOnce
  BY <1>1 DEF EntriesScannedOnce
<1> QED
  BY <1>2, PTL
=============================================================================
