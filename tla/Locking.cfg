\* Three transactions over a file of two pages; liveness, so no symmetry.
CONSTANTS
    Tids = {t1, t2, t3}
    Files = {f}
    MaxPages = 2
    Nil = Nil
SPECIFICATION FairLockSpec
INVARIANTS
    LockTypeOK
    LockCompatible
    WaitEdgesSound
PROPERTIES
    VictimIsDeadlocked
    ImplementsLockTable
    GetPageReturns
CHECK_DEADLOCK FALSE
