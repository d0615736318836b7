\* Three commands with two keys and two actors recover one event, through up
\* to four exhaustions, while it is relayed and, once published, purged.
SPECIFICATION Spec
CONSTANTS
    Event = {1}
    RecoveryKey = {k1, k2}
    Actor = {a1, a2}
    Relay = {r1}
    Command = {c1, c2, c3}
    Cleaner = {w1}
    Limit = {1}
    MaxFaults = 1
    Free = Free
    NoAudit = NoAudit
    NoEvent = NoEvent
    NoKey = NoKey
    NoActor = NoActor
SYMMETRY Symmetry
INVARIANTS
    IInv
    RecoveredMeansAudited
    RefusedMeansJournalled
    LockIsHeldByItsOwner
\* Payments, commands and faults are finite in number: the system comes to rest.
CHECK_DEADLOCK FALSE
