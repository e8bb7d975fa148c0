SPECIFICATION MCSpec
CONSTANTS
    Idents <- MCIdents
    Lower <- MCLower
    Schemas <- MCSchemas
    CatalogFiles = {"main", "other"}
    DefaultFile = "main"
    FilesInit <- MCFilesInit
    FromClauses <- MCFromClauses
    Qualifiers <- MCQualifiers
    Statements <- MCStatements
    MaxListed = 2
    MaxTables = 2
    NoTable = NoTable
    Malformed = Malformed
    NoName = NoName
    Error = Error
INVARIANTS CatalogTypeOK TablesAgree FileGivesCatalog ColumnsResolved ConditionsApplied EntriesScannedOnce
