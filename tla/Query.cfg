\* Every plan over the tables of MCQuery, with at most one failing call.
CONSTANTS
    Nil = Nil
    Err = Err
    Opened = Opened
    Lefts <- MCLefts
    Rights <- MCRights
    Conditions <- MCConditions
    SelectLists <- MCSelectLists
    ValueLists <- MCValueLists
    Panic = Panic
    MaxInt = 7
    OrderBys <- MCOrderBys
    Limits = {2}
    MaxFaults = 1
SPECIFICATION MCSpec
INVARIANTS
    ResultExactUnlessAliased
    RowsGenuineUnlessAliased
    PanicsExplained
    InsertsHaveValues
PROPERTIES
    QueriesEnd
CHECK_DEADLOCK FALSE
