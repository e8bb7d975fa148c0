\* Two transactions on a file that starts with one full page of two tuples and
\* may grow to three pages, three more tuples to insert, a pool of two pages.
CONSTANTS
    Tids = {t1, t2}
    Files = {f}
    MaxPages = 3
    Nil = Nil
    numPages = 2
    Objs = {1, 2, 3, 4}
    a = a
    b = b
    News = {c, d, e}
    Tuples <- MCTuples
    SlotsPerPage = 2
    Content <- MCContent
    RoundTrip <- Dense
    DiskInit <- MCDisk
SPECIFICATION HeapSpec
SYMMETRY MCSymmetry
CONSTRAINT MCStillAttached
INVARIANTS
    HeapExactUnlessDetached
    PagesContiguous
CHECK_DEADLOCK FALSE
