\* Two transactions, two pages and one past the end of the file, and a pool of
\* one page.
CONSTANTS
    Tids = {t1, t2}
    Files = {f}
    MaxPages = 3
    Nil = Nil
    numPages = 1
    Objs = {1, 2, 3, 4}
    Content <- MCContent
    RoundTrip <- MCRoundTrip
    DiskInit <- MCShortDisk
SPECIFICATION IsolationSpec
SYMMETRY MCSymmetry
INVARIANTS
    TypeOK
    PoolBounded
    IsolatedUnlessDetached
PROPERTIES
    DirtyLeavesByRollback
CHECK_DEADLOCK FALSE
