\* A left row with a free cell in its array, and two right rows that join with it.
CONSTANTS
    Nil = Nil
    Err = Err
    Opened = Opened
    Lefts <- MCSpareLeft
    Rights <- MCTwoRights
    Conditions = {}
    SelectLists <- MCPlainLists
    ValueLists = {}
    Panic = Panic
    MaxInt = 7
    OrderBys <- MCOrderBys
    Limits = {}
    MaxFaults = 0
SPECIFICATION Spec
INVARIANTS
    ResultExact
CHECK_DEADLOCK FALSE
