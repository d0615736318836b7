\* Commands of two operators share keys across two events that are relayed
\* and purged: a key can be free, taken, in doubt and free again.
SPECIFICATION Spec
CONSTANTS
    Event = {1, 2}
    RecoveryKey = {k1, k2}
    Actor = {a1}
    Relay = {r1}
    Command = {c1, c2}
    Cleaner = {w1}
    Limit = {1}
    MaxFaults = 1
    Free = Free
    NoAudit = NoAudit
    NoEvent = NoEvent
    NoKey = NoKey
    NoActor = NoActor
SYMMETRY Symmetry
INVARIANTS
    EachRecoveryIsAudited
PROPERTIES
    PublishedIsFinal
    OutboxKeepsPromise
\* Payments, commands and faults are finite in number: the system comes to rest.
CHECK_DEADLOCK FALSE
