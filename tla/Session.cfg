CONSTANTS
    Tids = {1, 2}
    Files = {"t"}
    MaxPages = 2
    Nil = Nil
    numPages = 1
    Objs = {1, 2, 3, 4}
    a = a
    News = {b, c}
    Tuples <- MCTuples
    SlotsPerPage = 2
    Content <- MCContent
    RoundTrip <- Dense
    DiskInit <- MCDisk
    TabsInit = {"t"}
    MaxRows = 2
    MaxAlarms = 2
SPECIFICATION SessionSpec
INVARIANTS
    SessionTypeOK
    LocksAccounted
    SessionExactUnlessHaunted
    LoadKeepsLines
PROPERTIES
    CommandEnds
    InterruptHeeded
