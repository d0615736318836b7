\* Two commands with one key recover an event whose replica may be restarted
\* with another attempt limit: it settles all the same.
SPECIFICATION FairSpec
CONSTANTS
    Event = {1}
    RecoveryKey = {k1}
    Actor = {a1}
    Relay = {r1}
    Command = {c1, c2}
    Cleaner = {w1}
    Limit = {1, 2}
    MaxFaults = 1
    Free = Free
    NoAudit = NoAudit
    NoEvent = NoEvent
    NoKey = NoKey
    NoActor = NoActor
PROPERTIES
    EveryRecoverySettles
\* Payments, commands and faults are finite in number: the system comes to rest.
CHECK_DEADLOCK FALSE
