\* Two commands that share a key on two events: one may wait for the other's
\* uncommitted audit row, lose the race for it and read the winner's audit,
\* which a purge may have removed again by then.
SPECIFICATION FairSpec
CONSTANTS
    Event = {1, 2}
    RecoveryKey = {k1}
    Actor = {a1}
    Relay = {r1}
    Command = {c1, c2}
    Cleaner = {w1}
    Limit = {1}
    MaxFaults = 0
    Free = Free
    NoAudit = NoAudit
    NoEvent = NoEvent
    NoKey = NoKey
    NoActor = NoActor
PROPERTIES
    EveryCommandIsAnswered
\* Payments, commands and faults are finite in number: the system comes to rest.
CHECK_DEADLOCK FALSE
