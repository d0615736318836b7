------------------------- MODULE RetryBackoffProofs -------------------------
(***************************************************************************)
(* Proofs about RetryBackoff: for every width of the arithmetic, every     *)
(* policy and any number of attempts, the delays double up to their bound. *)
(***************************************************************************)
EXTENDS RetryBackoff, TLAPS

(***************************************************************************)
(* The delays of a cycle as a sequence.                                    *)
(***************************************************************************)
LEMMA Elements ==
    ASSUME NEW S, NEW s \in Seq(S)
    PROVE  Len(s) \in Nat /\ DOMAIN s = 1..Len(s) /\ \A n \in 1..Len(s) : s[n] \in S
  OBVIOUS

LEMMA Delays ==
    ASSUME TypeOK
    PROVE  /\ Len(delays) \in Nat
           /\ DOMAIN delays = 1..Len(delays)
           /\ \A n \in 1..Len(delays) : delays[n] \in 1..MaxLong
<1>1. delays \in Seq(1..MaxLong)
  BY DEF TypeOK
<1> QED BY <1>1, Elements

(***************************************************************************)
(* An append keeps the elements that were there.                           *)
(***************************************************************************)
LEMMA Appended ==
    ASSUME NEW S, NEW s \in Seq(S), NEW x \in S
    PROVE  /\ Append(s, x) \in Seq(S)
           /\ Len(Append(s, x)) = Len(s) + 1
           /\ DOMAIN Append(s, x) = 1..(Len(s) + 1)
           /\ DOMAIN s = 1..Len(s)
           /\ Len(s) \in Nat
           /\ \A n \in 1..Len(s) : Append(s, x)[n] = s[n] /\ s[n] \in S
           /\ Append(s, x)[Len(s) + 1] = x
  OBVIOUS

(***************************************************************************)
(* What is returned at the end of the loop is what is expected.            *)
(***************************************************************************)
LEMMA BoundIsExpected ==
    ASSUME IInv, computing, Looping, PastHalf
    PROVE  Expected(Len(delays) + 1) = maxRetryDelayMs
<1> DEFINE L == Len(delays)
<1>1. L \in Nat /\ DOMAIN delays = 1..L /\ \A n \in 1..L : delays[n] \in 1..MaxLong
  BY Delays DEF IInv
<1>2. /\ maxRetryDelayMs \in Int
      /\ index \in Int /\ index >= 0 /\ index < L
      /\ 2 * delay > maxRetryDelayMs
      /\ delay < maxRetryDelayMs
      /\ delay \in Int
  BY <1>1, LongAssumption, CapAssumption DEF IInv, TypeOK, Looping, Doublings, Lesser, PastHalf
<1>3. index + 1 \in 1..L /\ L \in 1..L /\ L + 1 # 1 /\ L + 1 - 1 = L
  BY <1>1, <1>2
<1>4. delay = delays[index + 1]
  BY <1>3 DEF IInv, LoopFollows, DelaysDouble
<1>5. delays[index + 1] <= delays[L]
  BY <1>1, <1>2, <1>3 DEF IInv, DelaysGrow
<1>6. 2 * delays[L] > maxRetryDelayMs
  BY <1>1, <1>2, <1>3, <1>4, <1>5
<1>7. Expected(L + 1) = Lesser(2 * delays[L], maxRetryDelayMs)
  BY <1>3 DEF Expected
<1> QED BY <1>1, <1>2, <1>3, <1>6, <1>7 DEF Lesser

LEMMA DelayIsExpected ==
    ASSUME IInv, computing, ~Looping
    PROVE  Expected(Len(delays) + 1) = Lesser(delay, maxRetryDelayMs)
<1> DEFINE L == Len(delays)
<1>1. L \in Nat /\ DOMAIN delays = 1..L /\ \A n \in 1..L : delays[n] \in 1..MaxLong
  BY Delays DEF IInv
<1>2. /\ MaxLong \in Nat /\ Cap \in Nat
      /\ maxRetryDelayMs \in 1..MaxLong
      /\ retryDelayMs \in 1..maxRetryDelayMs
      /\ index \in 0..Cap
      /\ index <= L
      /\ delay \in Int
      /\ delay = Expected(index + 1)
  BY LongAssumption, CapAssumption DEF IInv, TypeOK, LoopFollows
<1>3. CASE index = L
  <2>1. delay <= maxRetryDelayMs
    <3>1. CASE L = 0
      BY <1>2, <1>3, <3>1 DEF Expected
    <3>2. CASE L # 0
      <4>1. L + 1 # 1 /\ L + 1 - 1 = L /\ delays[L] \in Int
        BY <1>1, <1>2, <3>2
      <4>2. delay = Lesser(2 * delays[L], maxRetryDelayMs)
        BY <1>2, <1>3, <4>1 DEF Expected
      <4> QED BY <1>2, <4>1, <4>2 DEF Lesser
    <3> QED BY <3>1, <3>2
  <2>2. Lesser(delay, maxRetryDelayMs) = delay
    BY <1>2, <2>1 DEF Lesser
  <2> QED BY <1>2, <1>3, <2>2
<1>4. CASE index # L
  <2> HIDE DEF L
  <2>1. index + 1 \in 1..L /\ L \in 1..L /\ L + 1 # 1 /\ L + 1 - 1 = L
    <3>1. index \in Nat /\ L \in Nat /\ index < L
      BY <1>1, <1>2, <1>4
    <3> QED BY <3>1
  <2>2. delay = delays[index + 1]
    BY <1>2, <2>1, <1>1 DEF IInv, DelaysDouble
  <2>3. delays[L] <= maxRetryDelayMs /\ delay <= delays[L]
    <3>1. L \in DOMAIN delays /\ index + 1 \in DOMAIN delays /\ index + 1 <= L
      BY <1>1, <2>1
    <3> QED BY <3>1, <2>2 DEF IInv, DelaysGrow
  <2>4. delay >= maxRetryDelayMs
    <3>1. CASE delay < maxRetryDelayMs
      <4>1. ~(index < Lesser(L, Cap))
        BY <3>1 DEF Looping, Doublings, L
      <4>2. index = Cap
        <5>1. index \in Nat /\ L \in Nat /\ Cap \in Nat /\ index < L /\ index <= Cap
          BY <1>1, <1>2, <1>4
        <5> QED BY <4>1, <5>1 DEF Lesser
      <4>3. delays[Cap + 1] >= Lesser(Power[Cap], maxRetryDelayMs)
        <5>1. Cap + 1 \in DOMAIN delays
          BY <1>1, <2>1, <4>2
        <5>2. Cap \in Nat /\ Cap + 1 - 1 = Cap /\ Cap + 1 <= Cap + 1
          BY <1>2
        <5> QED BY <5>1, <5>2 DEF IInv, DelaysGrow
      <4>4. Power[Cap] \in Nat /\ Power[Cap] > MaxLong
        BY <1>2, CapAssumption
      <4> QED BY <1>2, <2>2, <3>1, <4>2, <4>3, <4>4 DEF Lesser
    <3> QED BY <1>2, <3>1
  <2>5. delays[L] \in Int /\ delays[L] = maxRetryDelayMs /\ delay = maxRetryDelayMs
    BY <1>1, <1>2, <2>1, <2>3, <2>4
  <2>6. Expected(L + 1) = Lesser(2 * delays[L], maxRetryDelayMs)
    BY <2>1 DEF Expected
  <2> QED BY <1>2, <2>5, <2>6 DEF Lesser, L
<1> QED BY <1>3, <1>4

(***************************************************************************)
(* A call that returns what is expected keeps the invariant.               *)
(***************************************************************************)
LEMMA ReturnKeepsInvariant ==
    ASSUME IInv, NEW result, result = Expected(Len(delays) + 1), Return(result)
    PROVE  IInv'
<1> DEFINE L == Len(delays)
<1>1. L \in Nat /\ DOMAIN delays = 1..L /\ \A n \in 1..L : delays[n] \in 1..MaxLong
  BY Delays DEF IInv
<1>2. /\ MaxLong \in Nat /\ Cap \in Nat
      /\ maxRetryDelayMs \in 1..MaxLong
      /\ retryDelayMs \in 1..maxRetryDelayMs
      /\ delays \in Seq(1..MaxLong)
  BY LongAssumption, CapAssumption DEF IInv, TypeOK
<1>3. L # 0 => L + 1 # 1 /\ L + 1 - 1 = L /\ L \in 1..L /\ delays[L] \in 1..MaxLong
  BY <1>1
<1>4. /\ L = 0 => result = retryDelayMs
      /\ L # 0 => result = Lesser(2 * delays[L], maxRetryDelayMs)
  BY <1>1, <1>3 DEF Expected
<1>5. /\ result \in 1..maxRetryDelayMs
      /\ result \in 1..MaxLong
      /\ \A n \in 1..L : delays[n] <= result
  <2>1. CASE L = 0
    BY <1>1, <1>2, <1>4, <2>1
  <2>2. CASE L # 0
    <3>1. result \in 1..maxRetryDelayMs /\ result \in 1..MaxLong
      BY <1>2, <1>3, <1>4, <2>2 DEF Lesser
    <3>2. delays[L] <= maxRetryDelayMs /\ \A n \in 1..L : delays[n] <= delays[L]
      BY <1>1, <1>3, <2>2 DEF IInv, DelaysGrow
    <3>3. delays[L] <= result
      BY <1>2, <1>3, <1>4, <2>2, <3>2 DEF Lesser
    <3> QED BY <1>1, <1>3, <2>2, <3>1, <3>2, <3>3
  <2> QED BY <2>1, <2>2
<1>6. /\ delays' = Append(delays, result)
      /\ delays' \in Seq(1..MaxLong)
      /\ DOMAIN delays' = 1..(L + 1)
      /\ \A n \in 1..L : delays'[n] = delays[n]
      /\ delays'[L + 1] = result
  BY <1>2, <1>5, Appended DEF Return
<1>7. /\ computing' = FALSE /\ index' = index /\ delay' = delay
      /\ retryDelayMs' = retryDelayMs /\ maxRetryDelayMs' = maxRetryDelayMs
  BY DEF Return, policyVars
<1>8. TypeOK'
  BY <1>6, <1>7 DEF IInv, TypeOK
<1>9. DelaysDouble'
  <2> SUFFICES ASSUME NEW n \in 1..(L + 1)
               PROVE  delays'[n] = Expected(n)'
    BY <1>6 DEF DelaysDouble
  <2>1. Expected(n)' = Expected(n)
    <3>1. n # 1 => n - 1 \in 1..L
      BY <1>1
    <3> QED BY <3>1, <1>6, <1>7 DEF Expected
  <2>2. CASE n = L + 1
    BY <2>1, <2>2, <1>6
  <2>3. CASE n # L + 1
    <3>1. n \in 1..L
      BY <1>1, <2>3
    <3> QED BY <1>1, <1>6, <2>1, <3>1 DEF IInv, DelaysDouble
  <2> QED BY <2>2, <2>3
<1>10. DelaysGrow'
  <2>1. \A n \in 1..(L + 1) : delays'[n] <= maxRetryDelayMs
    <3> SUFFICES ASSUME NEW n \in 1..(L + 1)
                 PROVE  delays'[n] <= maxRetryDelayMs
      OBVIOUS
    <3>1. CASE n = L + 1
      BY <3>1, <1>2, <1>5, <1>6
    <3>2. CASE n # L + 1
      <4>1. n \in 1..L
        BY <1>1, <3>2
      <4> QED BY <1>1, <1>6, <4>1 DEF IInv, DelaysGrow
    <3> QED BY <3>1, <3>2
  <2>2. \A k, n \in 1..(L + 1) : k <= n => delays'[k] <= delays'[n]
    <3> SUFFICES ASSUME NEW k \in 1..(L + 1), NEW n \in 1..(L + 1), k <= n
                 PROVE  delays'[k] <= delays'[n]
      OBVIOUS
    <3>1. CASE n \in 1..L
      <4>1. k \in 1..L
        BY <1>1, <3>1
      <4> QED BY <1>1, <1>6, <3>1, <4>1 DEF IInv, DelaysGrow
    <3>2. CASE n = L + 1 /\ k \in 1..L
      BY <1>5, <1>6, <3>2
    <3>3. CASE n = L + 1 /\ k = L + 1
      BY <1>2, <1>5, <1>6, <3>3
    <3> QED BY <1>1, <3>1, <3>2, <3>3
  <2>3. \A n \in 1..(L + 1) :
          n <= Cap + 1 => delays'[n] >= Lesser(Power[n - 1], maxRetryDelayMs)
    <3> SUFFICES ASSUME NEW n \in 1..(L + 1), n <= Cap + 1
                 PROVE  delays'[n] >= Lesser(Power[n - 1], maxRetryDelayMs)
      OBVIOUS
    <3>1. CASE n \in 1..L
      BY <1>1, <1>6, <3>1 DEF IInv, DelaysGrow
    <3>2. CASE n = L + 1 /\ L = 0
      <4>1. n - 1 = 0 /\ Power[0] = 1
        BY <3>2, CapAssumption
      <4> QED BY <1>2, <1>5, <1>6, <3>2, <4>1 DEF Lesser
    <3>3. CASE n = L + 1 /\ L # 0
      <4>1. /\ n - 1 = L /\ L - 1 \in 0..(Cap - 1) /\ L - 1 + 1 = L
            /\ L - 1 \in 0..Cap /\ L <= Cap + 1 /\ L \in 0..Cap
        BY <1>1, <1>2, <3>3
      <4>2. Power[L] = 2 * Power[L - 1] /\ Power[L - 1] \in Nat /\ Power[L] \in Nat
        BY <4>1, CapAssumption
      <4>3. delays[L] >= Lesser(Power[L - 1], maxRetryDelayMs)
        BY <1>1, <1>3, <3>3, <4>1 DEF IInv, DelaysGrow
      <4>4. result = Lesser(2 * delays[L], maxRetryDelayMs)
        BY <1>4, <3>3
      <4> QED BY <1>2, <1>3, <1>6, <3>3, <4>1, <4>2, <4>3, <4>4 DEF Lesser
    <3> QED BY <1>1, <3>1, <3>2, <3>3
  <2> QED BY <1>6, <1>7, <2>1, <2>2, <2>3 DEF DelaysGrow
<1>11. LoopFollows'
  BY <1>7 DEF LoopFollows
<1> QED BY <1>8, <1>9, <1>10, <1>11 DEF IInv

(***************************************************************************)
(* A doubling neither wraps nor leaves the delays returned before.         *)
(***************************************************************************)
LEMMA DoubleKeepsInvariant ==
    ASSUME IInv, Double
    PROVE  IInv'
<1> DEFINE L == Len(delays)
<1>1. L \in Nat /\ DOMAIN delays = 1..L /\ \A n \in 1..L : delays[n] \in 1..MaxLong
  BY Delays DEF IInv
<1>2. /\ MaxLong \in Nat /\ Cap \in Nat
      /\ maxRetryDelayMs \in 1..MaxLong
      /\ retryDelayMs \in 1..maxRetryDelayMs
      /\ index \in 0..Cap
      /\ delay \in Int
      /\ index < L /\ index < Cap
      /\ 2 * delay <= maxRetryDelayMs
      /\ delay = Expected(index + 1)
  <2>1. /\ MaxLong \in Nat /\ Cap \in Nat
        /\ maxRetryDelayMs \in 1..MaxLong
        /\ retryDelayMs \in 1..maxRetryDelayMs
        /\ index \in 0..Cap
        /\ delay \in Int
    BY LongAssumption, CapAssumption DEF IInv, TypeOK
  <2>2. computing /\ index < Doublings /\ ~(delay > maxRetryDelayMs \div 2)
    BY DEF Double, Looping, PastHalf
  <2>3. index < L /\ index < Cap
    BY <1>1, <2>1, <2>2 DEF Doublings, Lesser
  <2>4. 2 * delay <= maxRetryDelayMs
    BY <2>1, <2>2
  <2>5. delay = Expected(index + 1)
    BY <2>2 DEF IInv, LoopFollows
  <2> QED BY <2>1, <2>3, <2>4, <2>5
<1>3. /\ computing' = computing /\ index' = index + 1 /\ delay' = Wrapped(2 * delay)
      /\ delays' = delays
      /\ retryDelayMs' = retryDelayMs /\ maxRetryDelayMs' = maxRetryDelayMs
  BY DEF Double, policyVars
<1>4. delay' = 2 * delay
  BY <1>2, <1>3 DEF Wrapped
<1>5. index + 1 \in 1..L /\ index + 2 # 1 /\ index + 2 - 1 = index + 1
  BY <1>1, <1>2
<1>6. delay = delays[index + 1]
  BY <1>1, <1>2, <1>5 DEF IInv, DelaysDouble
<1>7. delay' = Expected(index + 2)
  BY <1>2, <1>4, <1>5, <1>6 DEF Expected, Lesser
<1>8. LoopFollows'
  <2>1. index' + 1 = index + 2 /\ index' <= L
    BY <1>1, <1>2, <1>3
  <2> QED BY <1>2, <1>3, <1>7, <2>1 DEF LoopFollows, Expected
<1>9. TypeOK'
  BY <1>2, <1>3, <1>4 DEF IInv, TypeOK
<1>10. DelaysDouble' /\ DelaysGrow'
  BY <1>3 DEF IInv, DelaysDouble, DelaysGrow, Expected
<1> QED BY <1>8, <1>9, <1>10 DEF IInv

(***************************************************************************)
(* The inductive invariant holds: the loop of a call goes through the      *)
(* delays that the calls before it returned.                               *)
(***************************************************************************)
THEOREM BackoffInvariant == Spec => []IInv
<1>1. Init => IInv
  <2> SUFFICES ASSUME Init
               PROVE  IInv
    OBVIOUS
  <2>1. TypeOK
    <3>1. 0 \in 0..Cap /\ 0 \in Int /\ <<>> \in Seq(1..MaxLong)
      BY CapAssumption
    <3> QED BY <3>1 DEF Init, TypeOK
  <2>2. DelaysDouble /\ DelaysGrow /\ LoopFollows
    BY DEF Init, DelaysDouble, DelaysGrow, LoopFollows
  <2> QED BY <2>1, <2>2 DEF IInv
<1>2. IInv /\ [Next]_vars => IInv'
  <2> SUFFICES ASSUME IInv, [Next]_vars
               PROVE  IInv'
    OBVIOUS
  <2>1. CASE RetryDelayFor
    <3>1. /\ computing' /\ index' = 0
          /\ delay' = Lesser(retryDelayMs, maxRetryDelayMs)
          /\ delays' = delays
          /\ retryDelayMs' = retryDelayMs /\ maxRetryDelayMs' = maxRetryDelayMs
      BY <2>1 DEF RetryDelayFor, policyVars
    <3>2. delay' = retryDelayMs /\ delay' \in Int
      BY <3>1, LongAssumption DEF IInv, TypeOK, Lesser
    <3>3. TypeOK'
      BY <2>1, <3>1, <3>2, CapAssumption DEF IInv, TypeOK, RetryDelayFor
    <3>4. DelaysDouble' /\ DelaysGrow'
      BY <3>1 DEF IInv, DelaysDouble, DelaysGrow, Expected
    <3>5. LoopFollows'
      BY <3>1, <3>2 DEF IInv, TypeOK, LoopFollows, Expected
    <3> QED BY <3>3, <3>4, <3>5 DEF IInv
  <2>2. CASE Double
    BY <2>2, DoubleKeepsInvariant
  <2>3. CASE ReturnBound
    BY <2>3, BoundIsExpected, ReturnKeepsInvariant DEF ReturnBound
  <2>4. CASE ReturnDelay
    BY <2>4, DelayIsExpected, ReturnKeepsInvariant DEF ReturnDelay
  <2>5. CASE UNCHANGED vars
    BY <2>5 DEF IInv, vars, policyVars, TypeOK, DelaysDouble, DelaysGrow, LoopFollows, Expected
  <2> QED BY <2>1, <2>2, <2>3, <2>4, <2>5 DEF Next
<1> QED BY <1>1, <1>2, PTL DEF Spec

(***************************************************************************)
(* Each delay is exactly twice the one before, up to the bound, and none   *)
(* overflows.                                                              *)
(***************************************************************************)
THEOREM DelaysAlwaysDouble == Spec => []DelaysDouble
<1>1. IInv => DelaysDouble
  BY DEF IInv
<1> QED BY <1>1, BackoffInvariant, PTL

=============================================================================
