\* Two transactions insert into a file with one full page of one tuple.
CONSTANTS
    Tids = {t1, t2}
    Files = {f}
    MaxPages = 3
    Nil = Nil
    numPages = 3
    Objs = {1, 2, 3, 4}
    a = a
    b = b
    News = {c, d}
    Tuples <- MCTuples
    SlotsPerPage = 1
    Content <- MCContent
    RoundTrip <- Dense
    DiskInit <- MCDisk
SPECIFICATION HeapSpec
SYMMETRY MCSymmetry
INVARIANTS
    InsertFindsRoom
CHECK_DEADLOCK FALSE
