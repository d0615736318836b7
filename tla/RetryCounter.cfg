\* One replica, one event, one fault: a retry is counted and rolled back.
SPECIFICATION Spec
CONSTANTS
    Event = {1}
    RecoveryKey = {}
    Actor = {}
    Relay = {r1}
    Command = {}
    Cleaner = {}
    Limit = {2}
    MaxFaults = 1
    Free = Free
    NoAudit = NoAudit
    NoEvent = NoEvent
    NoKey = NoKey
    NoActor = NoActor
INVARIANTS
    RetryCounterIsExact
\* Payments, commands and faults are finite in number: the system comes to rest.
CHECK_DEADLOCK FALSE
