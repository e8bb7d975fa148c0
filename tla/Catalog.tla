------------------------------- MODULE Catalog -------------------------------
(***************************************************************************)
(* The catalog of GoDB (godb/catalog.go): the tables in memory, the        *)
(* indexes on their names and columns, and the file they are saved in and  *)
(* loaded from.  A CREATE or DROP is processDDL of parser.go followed by   *)
(* SaveToFile, which main.go calls; the process may die between any two of *)
(* their steps.                                                            *)
(***************************************************************************)
EXTENDS Naturals, Sequences, FiniteSets

CONSTANTS
    Idents,       \* identifiers, of tables and of columns
    Lower(_),     \* strings.ToLower
    Schemas,      \* the column lists CREATE TABLE is given
    CatalogFiles, \* names of catalog files
    DefaultFile,  \* the file main.go loads at the start
    FilesInit,    \* what the catalog files may have at the start
    MaxListed,    \* bound: how often a table may be in the list of a column
    NoTable,      \* Go's nil
    Malformed     \* a line that is no catalog entry

Tables == [name : Idents, cols : Schemas]

ASSUME LowerAssumption ==
    \A n \in Idents : Lower(n) \in Idents /\ Lower(Lower(n)) = Lower(n)
ASSUME SchemasAssumption ==
    \A s \in Schemas : s \in Seq(Idents) /\ [i \in DOMAIN s |-> Lower(s[i])] \in Schemas
ASSUME DefaultAssumption == DefaultFile \in CatalogFiles
ASSUME FilesInitAssumption ==
    \A c \in FilesInit : c \in [CatalogFiles -> Seq(Tables \cup {Malformed}) \cup {NoTable}]
ASSUME NoTableAssumption ==
    NoTable \notin Tables /\ Malformed \notin Tables /\ NoTable \notin Seq(Tables \cup {Malformed})

VARIABLES
    tables,      \* c.tables
    tableMap,    \* c.tableMap: name -> table, or NoTable
    columnMap,   \* c.columnMap: column -> name -> how often a table of that name is listed
    loaded,      \* c is not nil
    catName,     \* the catalog file in use
    catFile,     \* the lines of the catalog files; NoTable: there is no such file
    phase,       \* "ready", "save" and "write" (in a DDL command), "down"
    before,      \* history: tables before the DDL command under way
    dropped,     \* history: <<name, column>> of tables dropped since the load
    unsaved      \* history: the last save did not put the catalog into its file

catalog == <<tables, tableMap, columnMap, loaded>>
catalogVars == <<catalog, catName, catFile, phase, before, dropped, unsaved>>

-----------------------------------------------------------------------------
(* Reading a catalog file                                                  *)

LowerEntry(t) == [name |-> Lower(t.name), cols |-> [i \in DOMAIN t.cols |-> Lower(t.cols[i])]]

\* The entries addTable accepts: the first of each name.
Kept(ls) == {i \in DOMAIN ls : \A j \in 1 .. i - 1 : ls[j].name # ls[i].name}

\* The elements of s at the places of K, in their order.
Picked(s, K) ==
    LET nth(n) == CHOOSE i \in K : Cardinality({j \in K : j <= i}) = n
    IN  [n \in 1 .. Cardinality(K) |-> s[nth(n)]]

\* The tables NewCatalogFromFile makes of well-formed lines.
Reload(lines) ==
    LET ls == [i \in DOMAIN lines |-> LowerEntry(lines[i])]
    IN  Picked(ls, Kept(ls))

Readable(lines) == lines # NoTable /\ \A i \in DOMAIN lines : lines[i] # Malformed

Listed(ts, n) == {i \in DOMAIN ts : ts[i].name = n}

Occurrences(col, cols) == Cardinality({i \in DOMAIN cols : cols[i] = col})

\* What the two maps are when the tables ts have been added to an empty catalog.
MapOf(ts) ==
    [n \in Idents |-> IF Listed(ts, n) = {} THEN NoTable ELSE ts[CHOOSE i \in Listed(ts, n) : TRUE]]

ColumnsOf(ts) ==
    [col \in Idents |->
        [n \in Idents |-> IF MapOf(ts)[n] = NoTable THEN 0 ELSE Occurrences(col, MapOf(ts)[n].cols)]]

Holds(ts) == tables' = ts /\ tableMap' = MapOf(ts) /\ columnMap' = ColumnsOf(ts)

\* NewCatalogFromFile for the file f, whose entries become the catalog.
LoadSucceeds(f) ==
    /\ Readable(catFile[f])
    /\ Holds(Reload(catFile[f]))
    /\ loaded' = TRUE
    /\ dropped' = {}
    /\ unsaved' = FALSE

\* Mutant: the old tables stay.
LoadFails_KeepsTables(f) ==
    /\ ~ Readable(catFile[f])
    /\ loaded' = FALSE
    /\ dropped' = {}
    /\ UNCHANGED <<tables, tableMap, columnMap, unsaved>>

\* No such file, or a malformed line: the result is nil.
LoadFails(f) ==
    /\ ~ Readable(catFile[f])
    /\ Holds(<<>>)
    /\ loaded' = FALSE
    /\ dropped' = {}
    /\ UNCHANGED unsaved

\* The command \c: catName and c are replaced even if the load fails.
ChangeCatalog(f) ==
    /\ phase = "ready"
    /\ catName' = f
    /\ LoadSucceeds(f) \/ LoadFails(f)
    /\ UNCHANGED <<catFile, phase, before>>

-----------------------------------------------------------------------------
(* CREATE TABLE and DROP TABLE.  With a nil catalog they panic: see Die.   *)

WithColumns(n, cols) ==
    [col \in Idents |-> [columnMap[col] EXCEPT ![n] = @ + Occurrences(col, cols)]]

CreateTable(n, cols) ==
    /\ phase = "ready"
    /\ loaded
    /\ tableMap[n] = NoTable
    /\ \A col \in Idents : columnMap[col][n] < MaxListed
    /\ tables' = Append(tables, [name |-> n, cols |-> cols])
    /\ tableMap' = [tableMap EXCEPT ![n] = [name |-> n, cols |-> cols]]
    /\ columnMap' = WithColumns(n, cols)
    /\ phase' = "save"
    /\ before' = tables
    /\ UNCHANGED <<loaded, catName, catFile, dropped, unsaved>>

\* Mutant: the entry is left in the list of tables.
Removed_Kept(ts, n) == ts

\* ts without its first table named n.
Removed(ts, n) ==
    LET i == CHOOSE k \in Listed(ts, n) : \A j \in Listed(ts, n) : k <= j
    IN  SubSeq(ts, 1, i - 1) \o SubSeq(ts, i + 1, Len(ts))

\* dropTable empties columnMap[n]: the list of the column named like the table,
\* not the places where the table is listed.
DropTable(n) ==
    /\ phase = "ready"
    /\ loaded
    /\ Listed(tables, n) # {}
    /\ tables' = Removed(tables, n)
    /\ tableMap' = [tableMap EXCEPT ![n] = NoTable]
    /\ columnMap' = [columnMap EXCEPT ![n] = [m \in Idents |-> 0]]
    /\ dropped' = dropped \cup {<<n, col>> : col \in {tableMap[n].cols[i] : i \in DOMAIN tableMap[n].cols}}
                          \cup {<<m, n>> : m \in Idents}
    /\ phase' = "save"
    /\ before' = tables
    /\ UNCHANGED <<loaded, catName, catFile, unsaved>>

\* Mutant: the file is opened without O_TRUNC.
SaveOpens_NoTruncate ==
    /\ phase = "save"
    /\ catFile' = [catFile EXCEPT ![catName] = IF @ = NoTable THEN <<>> ELSE @]
    /\ phase' = "write"
    /\ UNCHANGED <<catalog, catName, before, dropped, unsaved>>

\* SaveToFile opens the file, which empties it ...
SaveOpens ==
    /\ phase = "save"
    /\ catFile' = [catFile EXCEPT ![catName] = <<>>]
    /\ phase' = "write"
    /\ UNCHANGED <<catalog, catName, before, dropped, unsaved>>

\* ... or cannot open it; main.go prints the error and goes on.
SaveFails ==
    /\ phase = "save"
    /\ phase' = "ready"
    /\ before' = <<>>
    /\ unsaved' = TRUE
    /\ UNCHANGED <<catalog, catName, catFile, dropped>>

\* A string of lines written at the start of a file that has the lines old.
Overwritten(old, lines) == lines \o SubSeq(old, Len(lines) + 1, Len(old))

\* What a write of the lines ls leaves: all, or the first k lines, after which
\* the next one may be cut so that it is no entry.
Partial(ls, k) == {SubSeq(ls, 1, k)} \cup (IF k < Len(ls) THEN {Append(SubSeq(ls, 1, k), Malformed)} ELSE {})

\* Then it writes CatalogString.  The result of WriteString is not looked at:
\* only a part may have been written.
SaveWrites(k) ==
    /\ phase = "write"
    /\ k \in 0 .. Len(tables)
    /\ \E ls \in Partial(tables, k) :
          catFile' = [catFile EXCEPT ![catName] = Overwritten(@, ls)]
    /\ phase' = "ready"
    /\ before' = <<>>
    /\ unsaved' = (k < Len(tables))
    /\ UNCHANGED <<catalog, catName, dropped>>

-----------------------------------------------------------------------------
\* The process ends, wherever it is: the user leaves, it is killed, or it
\* panics, as it does at the next statement when c is nil.
Die ==
    /\ phase # "down"
    /\ phase' = "down"
    /\ Holds(<<>>)
    /\ loaded' = FALSE
    /\ before' = <<>>
    /\ dropped' = {}
    /\ UNCHANGED <<catName, catFile, unsaved>>

\* main loads the default catalog ...
Start ==
    /\ phase = "down"
    /\ LoadSucceeds(DefaultFile)
    /\ catName' = DefaultFile
    /\ phase' = "ready"
    /\ UNCHANGED <<catFile, before>>

\* ... and gives up if that fails.
StartFails ==
    /\ phase = "down"
    /\ ~ Readable(catFile[DefaultFile])
    /\ UNCHANGED catalogVars

CatalogInit ==
    /\ catFile \in FilesInit
    /\ catName = DefaultFile
    /\ phase = "down"
    /\ tables = <<>>
    /\ tableMap = MapOf(<<>>)
    /\ columnMap = ColumnsOf(<<>>)
    /\ loaded = FALSE
    /\ before = <<>>
    /\ dropped = {}
    /\ unsaved = FALSE

CatalogNext ==
    \/ \E f \in CatalogFiles : ChangeCatalog(f)
    \/ \E n \in Idents, cols \in Schemas : CreateTable(n, cols)
    \/ \E n \in Idents : DropTable(n)
    \/ SaveOpens
    \/ SaveFails
    \/ \E k \in 0 .. Len(tables) : SaveWrites(k)
    \/ Die
    \/ Start
    \/ StartFails

CatalogSpec == CatalogInit /\ [][CatalogNext]_catalogVars

-----------------------------------------------------------------------------
(* What the catalog must guarantee                                         *)

\* The types of the variables; a nil catalog, and that of a process that does
\* not run, is empty.
CatalogTypeOK ==
    /\ tables \in Seq(Tables)
    /\ tableMap \in [Idents -> Tables \cup {NoTable}]
    /\ columnMap \in [Idents -> [Idents -> Nat]]
    /\ loaded \in BOOLEAN
    /\ catName \in CatalogFiles
    /\ catFile \in [CatalogFiles -> Seq(Tables \cup {Malformed}) \cup {NoTable}]
    /\ phase \in {"ready", "save", "write", "down"}
    /\ before \in Seq(Tables)
    /\ dropped \in SUBSET (Idents \X Idents)
    /\ unsaved \in BOOLEAN
    /\ ~ loaded => tables = <<>>

\* The list of tables and the map of their names say the same, after any
\* sequence of loads, creates and drops: no table is in one and not in the
\* other, and no name is there twice.
TablesAgree ==
    /\ \A i, j \in DOMAIN tables : tables[i].name = tables[j].name => i = j
    /\ tableMap = MapOf(tables)

\* Between commands, the catalog file gives back the catalog as it is in
\* memory, up to upper and lower case, unless a save has failed; and when a
\* process dies between a CREATE or DROP and its save, it gives back the
\* catalog from before.  (While the file is being written a crash loses it.)
FileGivesCatalog ==
    (loaded /\ ~ unsaved /\ phase \in {"ready", "save"}) =>
        /\ Readable(catFile[catName])
        /\ Reload(catFile[catName]) = Reload(IF phase = "save" THEN before ELSE tables)
=============================================================================
