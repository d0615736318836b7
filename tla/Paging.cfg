\* Pages of one or two out of five rows that are inserted, committed in any
\* order, rolled back and deleted while they are read.
SPECIFICATION Spec
CONSTANTS
    MaxId = 5
    Account = {a1}
    All = All
    Limit = {1, 2}
INVARIANTS
    RepeatsNothing
    OnlyLateRowsAreMissed
    WalkIsComplete
\* Ids are finite in number, but a client may always look again.
