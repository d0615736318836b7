\* Every policy of six-bit longs, and more attempts than one call may double.
SPECIFICATION Spec
CONSTANTS
    MaxLong = 31
    Cap = 5
    Power <- MCPower
    Attempts = 8
INVARIANTS
    DelaysDouble
\* A cycle ends.
CHECK_DEADLOCK FALSE
