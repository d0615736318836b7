\* Three records of a payment, malformed, repeated or in conflict, and two
\* replicas.  Three failures may evict a replica and use up the attempts of the
\* other one at the record that the first is still at.
SPECIFICATION FairSpec
CONSTANTS
    Payment = {p1}
    Body = {b1, b2}
    Consumer = {c1, c2}
    Nobody = Nobody
    Attempts = 2
    MaxRecords = 3
    MaxFaults = 3
INVARIANTS
    OneEntryPerPayment
    NothingIsPassedOver
    SkippedForAReason
    FirstRecordIsBooked
    DuplicatesAreCounted
PROPERTIES
    EveryRecordIsPassed
\* Records and failures are finite in number: the system comes to rest.
CHECK_DEADLOCK FALSE
