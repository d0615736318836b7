\* Two replicas relay two events.  Each was started with one of two attempt
\* limits, and a transaction may be rolled back or a replica restarted.
SPECIFICATION FairSpec
CONSTANTS
    Event = {1, 2}
    RecoveryKey = {}
    Actor = {}
    Relay = {r1, r2}
    Command = {}
    Cleaner = {}
    Limit = {1, 2}
    MaxFaults = 1
    Free = Free
    NoAudit = NoAudit
    NoEvent = NoEvent
    NoKey = NoKey
    NoActor = NoActor
INVARIANTS
    StatusAgrees
    PublishedIsInTopic
    EachExhaustionIsHandedOff
    SendsAreBounded
    RetryCounterIsClose
PROPERTIES
    EveryPaymentSettles
\* Payments, commands and faults are finite in number: the system comes to rest.
CHECK_DEADLOCK FALSE
