\* Two transactions, two pages and a pool of one page.
CONSTANTS
    Tids = {t1, t2}
    Files = {f}
    MaxPages = 2
    Nil = Nil
    numPages = 1
    Objs = {1, 2, 3, 4}
    Content <- MCContent
    RoundTrip <- MCRoundTrip
    DiskInit <- MCDisk
SPECIFICATION IsolationSpec
INVARIANTS
    CommittedOnDisk
CHECK_DEADLOCK FALSE
