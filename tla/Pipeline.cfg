\* Two requests with one key, a relay that may send twice, and a consumer
\* that may handle a record twice or, at its first failure, give up on it.
SPECIFICATION FairSpec
CONSTANTS
    Request = {1, 2}
    Key = {k1}
    Body = {b1, b2}
    RecoveryKey = {}
    Actor = {}
    Relay = {r1}
    Command = {}
    Cleaner = {}
    Limit = {1}
    Consumer = {c1}
    Attempts = 1
    MaxRecords = 2
    MaxFaults = 1
    Nobody = Nobody
    Free = Free
    NoAudit = NoAudit
    NoEvent = NoEvent
    NoKey = NoKey
    NoActor = NoActor
INVARIANTS
    PublishedIsBooked
    SkipsNeedFailures
    LinkInv
PROPERTIES
    BooksOnce
    EveryPaymentArrives
    EveryRequestIsAnswered
\* Requests and failures are finite in number: the system comes to rest.
CHECK_DEADLOCK FALSE
