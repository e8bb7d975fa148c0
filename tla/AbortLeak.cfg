\* Two transactions and one page, which the pool has room for.
CONSTANTS
    Tids = {t1, t2}
    Files = {f}
    MaxPages = 1
    Nil = Nil
    numPages = 1
    Objs = {1, 2, 3, 4}
    Content <- MCContent
    RoundTrip <- MCRoundTrip
    DiskInit <- MCDisk
SPECIFICATION IsolationSpec
INVARIANTS
    DiskOnlyCommitted
CHECK_DEADLOCK FALSE
