---------------------------- MODULE RetryBackoff ----------------------------
(***************************************************************************)
(* How long an event waits after each failed attempt of a cycle: the loop  *)
(* of PaymentOutboxPublisher.retryDelayFor, in the arithmetic of a long.   *)
(* The loop starts from the configured delay every time, so that the n-th  *)
(* call of a cycle only knows n.  The attempts of a cycle are bounded by   *)
(* Attempts.                                                               *)
(***************************************************************************)
EXTENDS Integers, Sequences

CONSTANTS
    MaxLong,   \* the largest long
    Cap,       \* the most doublings of one call
    Power,     \* the powers of two up to that of Cap
    Attempts   \* failed attempts in one cycle

ASSUME LongAssumption == MaxLong \in Nat \ {0}
ASSUME AttemptsAssumption == Attempts \in Nat

\* 63 doublings take any positive delay past the largest long.
ASSUME CapAssumption ==
    /\ Cap \in Nat
    /\ Power \in [0..Cap -> Nat]
    /\ Power[0] = 1
    /\ \A i \in 0..(Cap - 1) : Power[i + 1] = 2 * Power[i]
    /\ Power[Cap] > MaxLong

VARIABLES
    retryDelayMs, maxRetryDelayMs,   \* as configured
    computing,                       \* a call is in its loop
    index, delay,                    \* its local variables
    delays                           \* what the calls of the cycle returned

policyVars == <<retryDelayMs, maxRetryDelayMs>>

vars == <<policyVars, computing, index, delay, delays>>

Lesser(a, b) == IF a < b THEN a ELSE b

\* The sum of two longs that are at most MaxLong.
Wrapped(n) == IF n > MaxLong THEN n - 2 * (MaxLong + 1) ELSE n

\* Mutant of Doublings: one for the first attempt too.
DoublingsFromFirst == Lesser(Len(delays) + 1, Cap)

\* The call is about failed attempt Len(delays) + 1.
Doublings == Lesser(Len(delays), Cap)

Looping == index < Doublings /\ delay < maxRetryDelayMs

RetryDelayFor ==
    /\ ~computing
    /\ Len(delays) < Attempts
    /\ computing' = TRUE
    /\ index' = 0
    /\ delay' = Lesser(retryDelayMs, maxRetryDelayMs)
    /\ UNCHANGED <<policyVars, delays>>

Return(result) ==
    /\ computing' = FALSE
    /\ delays' = Append(delays, result)
    /\ UNCHANGED <<policyVars, index, delay>>

\* Mutant of PastHalf: an odd bound is rounded the wrong way.
PastHalfOfEven == delay >= maxRetryDelayMs \div 2

PastHalf == delay > maxRetryDelayMs \div 2

ReturnBound ==
    /\ computing
    /\ Looping
    /\ PastHalf
    /\ Return(maxRetryDelayMs)

Double ==
    /\ computing
    /\ Looping
    /\ ~PastHalf
    /\ index' = index + 1
    /\ delay' = Wrapped(2 * delay)
    /\ UNCHANGED <<policyVars, computing, delays>>

ReturnDelay ==
    /\ computing
    /\ ~Looping
    /\ Return(Lesser(delay, maxRetryDelayMs))

\* validatePolicy has accepted the two delays.
Init ==
    /\ maxRetryDelayMs \in 1..MaxLong
    /\ retryDelayMs \in 1..maxRetryDelayMs
    /\ computing = FALSE
    /\ index = 0
    /\ delay = 0
    /\ delays = <<>>

Next == RetryDelayFor \/ Double \/ ReturnBound \/ ReturnDelay

Spec == Init /\ [][Next]_vars

(***************************************************************************)
(* Properties.                                                             *)
(***************************************************************************)

\* What attempt n should wait: the configured delay, then twice the wait
\* before, and never more than the bound.
Expected(n) ==
    IF n = 1 THEN retryDelayMs ELSE Lesser(2 * delays[n - 1], maxRetryDelayMs)

\* Each call, starting over, returns exactly twice what the call before it
\* did, up to the bound: no call overflows, stops early, or passes the bound,
\* also when the bound is close to the largest long or the doublings are capped.
DelaysDouble == \A n \in DOMAIN delays : delays[n] = Expected(n)

\* Every variable has its type.
TypeOK ==
    /\ maxRetryDelayMs \in 1..MaxLong
    /\ retryDelayMs \in 1..maxRetryDelayMs
    /\ computing \in BOOLEAN
    /\ index \in 0..Cap
    /\ delay \in Int
    /\ delays \in Seq(1..MaxLong)

\* Past the bound nothing changes; below it the delays grow as powers of two.
DelaysGrow ==
    /\ \A n \in DOMAIN delays : delays[n] <= maxRetryDelayMs
    /\ \A m, n \in DOMAIN delays : m <= n => delays[m] <= delays[n]
    /\ \A n \in DOMAIN delays :
        n <= Cap + 1 => delays[n] >= Lesser(Power[n - 1], maxRetryDelayMs)

\* The loop goes through the delays that were returned before.
LoopFollows == computing => index <= Len(delays) /\ delay = Expected(index + 1)

IInv == TypeOK /\ DelaysDouble /\ DelaysGrow /\ LoopFollows

=============================================================================
