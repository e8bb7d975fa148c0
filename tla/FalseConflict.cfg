\* Two transactions, two files of one page each.
CONSTANTS
    Tids = {t1, t2}
    Files = {f, g}
    MaxPages = 1
    Nil = Nil
SPECIFICATION LockSpec
INVARIANTS WaitsForSamePage
CHECK_DEADLOCK FALSE
