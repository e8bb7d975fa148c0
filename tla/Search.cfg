\* Every waits-for table and every root over four transactions.
CONSTANTS
    Tids = {t1, t2, t3, t4}
SPECIFICATION FairSearchSpec
INVARIANTS
    SearchCorrect
    DepthBounded
PROPERTIES
    SearchTerminates
CHECK_DEADLOCK FALSE
