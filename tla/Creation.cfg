SPECIFICATION Spec
CONSTANTS
    Request = {r1, r2, r3, r4}
    Key = {k1, k2}
    Body = {b1, b2}
    Nobody = Nobody
    MaxFaults = 2
SYMMETRY CreationSymmetry
INVARIANTS
    OnePaymentPerKey
    EachPaymentHasItsEvent
    AnswersAreTrue
    ErrorsNeedFaults
PROPERTIES
    KeepsPromise
CHECK_DEADLOCK FALSE
