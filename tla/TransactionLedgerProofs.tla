---------------------- MODULE TransactionLedgerProofs ----------------------
(***************************************************************************)
(* What holds of the ledger for every number of payments, replicas,        *)
(* attempts, records and failures.                                         *)
(***************************************************************************)
EXTENDS TransactionLedger, FiniteSetTheorems, TLAPS

(***************************************************************************)
(* What a step leaves alone.                                               *)
(***************************************************************************)

\* The listener returns: its replica goes on behind the record.
LEMMA ReturnsEffect ==
    ASSUME TypeOK, NEW c \in Consumer, Returns(c)
    PROVE  /\ consumer' \in [Consumer -> ConsumerState]
           /\ \A d \in Consumer : d # c => consumer'[d] = consumer[d]
           /\ consumer'[c].stage = "idle"
           /\ consumer'[c].position = Offset(c)
           /\ consumer'[c].upto = consumer[c].upto
           /\ skipped' = skipped
<1>1. consumer \in [Consumer -> ConsumerState]
  BY DEF TypeOK
<1> QED BY <1>1 DEF Returns, ConsumerState, Offset

\* The listener throws: its replica stays at the record or skips it.
LEMMA ThrowsEffect ==
    ASSUME TypeOK, NEW c \in Consumer, Throws(c)
    PROVE  /\ consumer' \in [Consumer -> ConsumerState]
           /\ \A d \in Consumer : d # c => consumer'[d] = consumer[d]
           /\ consumer'[c].stage = "idle"
           /\ consumer'[c].upto = consumer'[c].position
           /\ \/ /\ consumer'[c].position = consumer[c].position
                 /\ skipped' = skipped
              \/ /\ consumer'[c].position = Offset(c)
                 /\ skipped' = skipped \cup {Offset(c)}
<1>1. consumer \in [Consumer -> ConsumerState]
  BY DEF TypeOK
<1>2. CASE consumer[c].tries + 1 < Attempts
  BY <1>1, <1>2 DEF Throws, ConsumerState
<1>3. CASE ~(consumer[c].tries + 1 < Attempts)
  <2>1. Offset(c) \in Nat
    BY DEF TypeOK, ConsumerState, Offset
  <2>2. PICK n \in Nat : n = Offset(c)
    BY <2>1
  <2>3. /\ consumer' = [consumer EXCEPT ![c].stage = "idle", ![c].tries = 0,
                                        ![c].position = n, ![c].upto = n]
        /\ skipped' = skipped \cup {n}
    BY <1>3, <2>2 DEF Throws
  <2>4. /\ consumer' \in [Consumer -> ConsumerState]
        /\ \A d \in Consumer : d # c => consumer'[d] = consumer[d]
        /\ consumer'[c].stage = "idle"
        /\ consumer'[c].position = n
        /\ consumer'[c].upto = n
    BY <1>1, <2>3 DEF ConsumerState
  <2> QED BY <2>2, <2>3, <2>4
<1> QED BY <1>2, <1>3

\* The record that a replica is at.
LEMMA CurrentRecord ==
    ASSUME TypeOK, BatchesAreInTopic, NEW c \in Consumer,
           consumer[c].position < consumer[c].upto
    PROVE  /\ consumer[c].position \in Nat
           /\ Offset(c) = consumer[c].position + 1
           /\ Offset(c) \in DOMAIN topic
           /\ Offset(c) <= consumer[c].upto
           /\ topic[Offset(c)] \in Payload
           /\ topic[Offset(c)].valid => Current(c) \in Event
<1>1. /\ consumer[c].position \in Nat
      /\ consumer[c].upto \in Nat
      /\ consumer[c].upto <= Len(topic)
      /\ topic \in Seq(Payload)
  BY DEF TypeOK, BatchesAreInTopic, ConsumerState
<1>2. /\ Offset(c) = consumer[c].position + 1
      /\ Offset(c) \in 1..Len(topic)
      /\ Offset(c) <= consumer[c].upto
  BY <1>1 DEF Offset
<1>3. topic[Offset(c)] \in Payload
  BY <1>1, <1>2
<1>4. topic[Offset(c)].valid => Current(c) \in Event
  <2>1. CASE topic[Offset(c)] = Malformed
    BY <2>1 DEF Malformed
  <2>2. CASE topic[Offset(c)] \in [valid: {TRUE}, event: Event]
    BY <2>2 DEF Current
  <2> QED BY <1>3, <2>1, <2>2 DEF Payload
<1> QED BY <1>1, <1>2, <1>3, <1>4

(***************************************************************************)
(* The ledger.                                                             *)
(***************************************************************************)

\* The first entry of a payment keeps the payments of entries apart, and the
\* ledger keeps what it had.
LEMMA FirstEntry ==
    ASSUME TypeOK, OneEntryPerPayment, NEW e \in Event,
           Entries(e.payment) = {}, ledger' = Append(ledger, e)
    PROVE  /\ ledger' \in Seq(Event)
           /\ DOMAIN ledger' = DOMAIN ledger \cup {Len(ledger) + 1}
           /\ \A i \in DOMAIN ledger : ledger'[i] = ledger[i]
           /\ ledger'[Len(ledger) + 1] = e
           /\ OneEntryPerPayment'
<1>1. ledger \in Seq(Event)
  BY DEF TypeOK
<1>2. /\ ledger' \in Seq(Event)
      /\ DOMAIN ledger' = DOMAIN ledger \cup {Len(ledger) + 1}
      /\ \A i \in DOMAIN ledger : ledger'[i] = ledger[i]
      /\ ledger'[Len(ledger) + 1] = e
  BY <1>1
<1>3. \A i \in DOMAIN ledger : ledger[i].payment # e.payment
  BY DEF Entries
<1>4. OneEntryPerPayment'
  BY <1>2, <1>3 DEF OneEntryPerPayment
<1> QED BY <1>2, <1>4

\* The ledger and the topic only grow.
Grows ==
    /\ DOMAIN ledger \subseteq DOMAIN ledger'
    /\ \A i \in DOMAIN ledger : ledger'[i] = ledger[i]
    /\ DOMAIN topic \subseteq DOMAIN topic'
    /\ \A o \in DOMAIN topic : topic'[o] = topic[o]

\* What is booked stays booked, and what is found can be found again.
LEMMA GrowthKeeps ==
    ASSUME Grows
    PROVE  /\ \A o \in DOMAIN topic : Booked(o) => Booked(o)'
           /\ \A p : Entries(p) # {} => Entries(p)' # {}
  BY DEF Grows, Booked, Entries

\* The invariant apart from the replicas: what the group has moved past.
LEMMA PassedFrame ==
    ASSUME TypeOK, NothingIsPassedOver, OffsetsAreInTopic, Grows,
           skipped \subseteq skipped', committed' = committed
    PROVE  NothingIsPassedOver'
<1>1. \A o \in 1..committed : o \in DOMAIN topic
  BY DEF TypeOK, OffsetsAreInTopic
<1> QED BY <1>1, GrowthKeeps DEF NothingIsPassedOver

\* A replica that a step does not touch keeps its part of the invariant.
Sound(c) ==
    /\ consumer[c].position <= consumer[c].upto
    /\ consumer[c].upto <= Len(topic)
    /\ ~At(c, "idle") =>
        /\ consumer[c].position < consumer[c].upto
        /\ topic[Offset(c)].valid
    /\ \A o \in 1..consumer[c].position : o \in skipped \/ Booked(o)
    /\ At(c, "reread") => Entries(Current(c).payment) # {}

LEMMA SoundReplicas ==
    BatchesAreInTopic /\ HandledIsBooked /\ RacedEntriesAreThere
        <=> \A c \in Consumer : Sound(c)
  BY DEF Sound, BatchesAreInTopic, HandledIsBooked, RacedEntriesAreThere

LEMMA SoundFrame ==
    ASSUME TypeOK, NEW c \in Consumer, Sound(c), Grows,
           consumer'[c] = consumer[c], skipped \subseteq skipped',
           Len(topic) <= Len(topic)', Len(topic)' \in Nat
    PROVE  Sound(c)'
<1>1. /\ consumer[c].position \in Nat
      /\ consumer[c].upto \in Nat
      /\ Len(topic) \in Nat
      /\ DOMAIN topic = 1..Len(topic)
  BY DEF TypeOK, ConsumerState
<1>2. \A o \in 1..consumer[c].position : o \in DOMAIN topic
  BY <1>1 DEF Sound
<1>3. ~At(c, "idle") => Offset(c) \in DOMAIN topic
  BY <1>1 DEF Sound, Offset
<1>4. /\ At(c, "idle")' <=> At(c, "idle")
      /\ At(c, "reread")' <=> At(c, "reread")
      /\ Offset(c)' = Offset(c)
      /\ At(c, "reread") => ~At(c, "idle")
  BY DEF At, Offset
<1>5. ~At(c, "idle") =>
        topic'[Offset(c)] = topic[Offset(c)] /\ Current(c)' = Current(c)
  BY <1>3, <1>4 DEF Grows, Current
<1>6. \A o \in 1..consumer'[c].position : o \in skipped' \/ Booked(o)'
  BY <1>2, GrowthKeeps DEF Sound
<1>7. At(c, "reread")' => Entries(Current(c).payment)' # {}
  <2>1. SUFFICES ASSUME At(c, "reread")
                 PROVE  Entries(Current(c).payment)' # {}
    BY <1>4
  <2>2. PICK p : p = Current(c).payment
    OBVIOUS
  <2>3. Entries(p)' # {}
    BY <2>1, <2>2, GrowthKeeps DEF Sound
  <2>4. Current(c)'.payment = p
    BY <1>4, <1>5, <2>1, <2>2
  <2> QED BY <2>3, <2>4
<1>8. /\ consumer'[c].position <= consumer'[c].upto
      /\ consumer'[c].upto <= Len(topic)'
      /\ ~At(c, "idle")' =>
          /\ consumer'[c].position < consumer'[c].upto
          /\ topic'[Offset(c)'].valid
  BY <1>1, <1>4, <1>5 DEF Sound
<1> QED BY <1>6, <1>7, <1>8 DEF Sound

(***************************************************************************)
(* Calls of the listener.                                                  *)
(***************************************************************************)

\* The end of a call keeps the invariant if the ledger is right after it and
\* a record it accepted is booked.
LEMMA CallEndKeeps ==
    ASSUME IInv, NEW c \in Consumer,
           consumer[c].position < consumer[c].upto,
           NEW at, at = Offset(c),
           \/ Returns(c) /\ Booked(at)'
           \/ Throws(c),
           UNCHANGED <<topic, committed, owner>>,
           duplicates' \in [Consumer -> Nat], lost' \in Nat,
           faults' \in 0..MaxFaults,
           ledger' \in Seq(Event), Grows, OneEntryPerPayment',
           skipped \subseteq skipped' => FirstRecordIsBooked'
    PROVE  IInv'
<1>1. TypeOK /\ BatchesAreInTopic /\ \A d \in Consumer : Sound(d)
  BY SoundReplicas DEF IInv
<1>2. /\ consumer[c].position \in Nat
      /\ Offset(c) = consumer[c].position + 1
      /\ Offset(c) \in DOMAIN topic
      /\ Offset(c) <= consumer[c].upto
  BY <1>1, CurrentRecord
<1>3. /\ topic \in Seq(Payload)
      /\ DOMAIN topic = 1..Len(topic)
      /\ Len(topic) \in Nat
      /\ consumer[c].upto \in Nat
      /\ consumer[c].upto <= Len(topic)
  BY <1>1 DEF TypeOK, ConsumerState, BatchesAreInTopic
<1>4. /\ consumer' \in [Consumer -> ConsumerState]
      /\ \A d \in Consumer : d # c => consumer'[d] = consumer[d]
      /\ consumer'[c].stage = "idle"
      /\ consumer'[c].position <= consumer'[c].upto
      /\ consumer'[c].upto <= Len(topic)
      /\ skipped \subseteq skipped'
      /\ skipped' \subseteq skipped \cup {Offset(c)}
      /\ \/ consumer'[c].position = consumer[c].position
         \/ /\ consumer'[c].position = Offset(c)
            /\ at \in skipped' \/ Booked(at)'
  <2>1. CASE Returns(c) /\ Booked(at)'
    BY <1>1, <1>2, <1>3, <2>1, ReturnsEffect
  <2>2. CASE Throws(c)
    BY <1>1, <1>2, <1>3, <2>2, ThrowsEffect
  <2> QED BY <2>1, <2>2
<1>5. skipped' \subseteq DOMAIN topic
  BY <1>2, <1>4 DEF IInv, OffsetsAreInTopic
<1>6. TypeOK'
  BY <1>1, <1>3, <1>4, <1>5 DEF TypeOK
<1>7. NothingIsPassedOver'
  BY <1>4, PassedFrame DEF IInv
<1>8. OffsetsAreInTopic'
  BY <1>5 DEF IInv, OffsetsAreInTopic
<1>9. ASSUME NEW d \in Consumer PROVE Sound(d)'
  <2>1. CASE d # c
    BY <1>1, <1>3, <1>4, <2>1, SoundFrame
  <2>2. CASE d = c
    <3>1. \A o \in 1..consumer[c].position : o \in skipped' \/ Booked(o)'
      <4>1. ASSUME NEW o \in 1..consumer[c].position
            PROVE  (o \in skipped \/ Booked(o)) /\ o \in DOMAIN topic
        BY <1>1, <1>2, <1>3 DEF Sound
      <4> QED BY <1>4, <4>1, GrowthKeeps
    <3>2. \A o \in 1..consumer'[c].position : o \in skipped' \/ Booked(o)'
      BY <1>2, <1>4, <3>1
    <3>3. At(c, "idle")' /\ ~At(c, "reread")'
      BY <1>4 DEF At
    <3> QED BY <1>4, <2>2, <3>2, <3>3 DEF Sound
  <2> QED BY <2>1, <2>2
<1>10. BatchesAreInTopic' /\ HandledIsBooked' /\ RacedEntriesAreThere'
  BY <1>9 DEF Sound, BatchesAreInTopic, HandledIsBooked, RacedEntriesAreThere
<1> QED BY <1>4, <1>6, <1>7, <1>8, <1>10 DEF IInv

\* The ledger stays as it is.
LEMMA LedgerFrame ==
    ASSUME IInv, UNCHANGED <<topic, ledger>>
    PROVE  /\ Grows
           /\ ledger' \in Seq(Event)
           /\ OneEntryPerPayment'
           /\ skipped \subseteq skipped' => FirstRecordIsBooked'
<1>1. Grows
  BY DEF Grows
<1>2. ledger' \in Seq(Event) /\ OneEntryPerPayment'
  BY DEF IInv, TypeOK, OneEntryPerPayment
<1>3. skipped \subseteq skipped' => FirstRecordIsBooked'
  BY DEF IInv, FirstRecordIsBooked
<1> QED BY <1>1, <1>2, <1>3

\* A call that does not write keeps the invariant.
LEMMA ReadingCallKeeps ==
    ASSUME IInv, NEW c \in Consumer,
           consumer[c].position < consumer[c].upto,
           Throws(c),
           UNCHANGED <<topic, ledger, duplicates, lost, committed, owner>>,
           faults' \in 0..MaxFaults
    PROVE  IInv'
<1>1. duplicates' \in [Consumer -> Nat] /\ lost' \in Nat
  BY DEF IInv, TypeOK
<1> QED BY <1>1, LedgerFrame, CallEndKeeps

\* A call that finds an entry of the payment keeps the invariant.
LEMMA ReplayingCallKeeps ==
    ASSUME IInv, NEW c \in Consumer,
           consumer[c].position < consumer[c].upto,
           topic[Offset(c)].valid,
           NEW i \in Entries(Current(c).payment), AcceptReplay(c, i),
           UNCHANGED <<topic, ledger, lost, committed, owner, faults>>
    PROVE  IInv'
<1>1. /\ faults' \in 0..MaxFaults /\ lost' \in Nat
      /\ duplicates \in [Consumer -> Nat]
  BY DEF IInv, TypeOK
<1>2. CASE SameBusinessEvent(c, i)
  <2>1. Returns(c) /\ duplicates' \in [Consumer -> Nat]
    BY <1>1, <1>2 DEF AcceptReplay
  <2>2. Current(c) \in Event /\ i \in DOMAIN ledger /\ ledger[i] \in Event
    BY CurrentRecord DEF IInv, TypeOK, Entries
  <2>3. ledger[i].payment = Current(c).payment /\ ledger[i].body = Current(c).body
    BY <1>2 DEF Entries, SameBusinessEvent
  <2>4. ledger[i] = topic[Offset(c)].event
    BY <2>2, <2>3 DEF Event, Current
  <2>5. PICK at : at = Offset(c)
    OBVIOUS
  <2>6. Booked(at)'
    BY <2>2, <2>4, <2>5 DEF Booked
  <2> QED BY <1>1, <2>1, <2>5, <2>6, LedgerFrame, CallEndKeeps
<1>3. CASE ~SameBusinessEvent(c, i)
  BY <1>1, <1>3, ReadingCallKeeps DEF AcceptReplay
<1> QED BY <1>2, <1>3

\* A call that inserts the entry keeps the invariant, heard or unheard.
LEMMA WritingCallKeeps ==
    ASSUME IInv, NEW c \in Consumer, At(c, "insert"),
           Entries(Current(c).payment) = {},
           ledger' = Append(ledger, Current(c)),
           Returns(c) \/ Throws(c),
           UNCHANGED <<topic, duplicates, lost, committed, owner>>,
           faults' \in 0..MaxFaults
    PROVE  IInv'
<1>1. /\ TypeOK
      /\ consumer[c].position < consumer[c].upto
      /\ topic[Offset(c)].valid
  BY DEF IInv, BatchesAreInTopic, At
<1>2. /\ consumer[c].position \in Nat
      /\ Offset(c) = consumer[c].position + 1
      /\ Offset(c) \in DOMAIN topic
      /\ Current(c) \in Event
  BY <1>1, CurrentRecord DEF IInv
<1>3. /\ ledger' \in Seq(Event)
      /\ DOMAIN ledger' = DOMAIN ledger \cup {Len(ledger) + 1}
      /\ \A i \in DOMAIN ledger : ledger'[i] = ledger[i]
      /\ ledger'[Len(ledger) + 1] = Current(c)
      /\ OneEntryPerPayment'
  BY <1>2, FirstEntry DEF IInv
<1>4. Grows
  BY <1>3 DEF Grows
<1>5. PICK at : at = Offset(c)
  OBVIOUS
<1>6. Booked(at)'
  BY <1>1, <1>3, <1>5 DEF Booked, Current
<1>7. ASSUME NEW before \in 1..consumer[c].position,
             topic[before].valid,
             topic[before].event.payment = Current(c).payment
      PROVE  before \in skipped
  <2>1. ~Booked(before)
    BY <1>7 DEF Booked, Entries
  <2> QED BY <2>1 DEF IInv, HandledIsBooked
<1>8. ASSUME skipped \subseteq skipped' PROVE FirstRecordIsBooked'
  <2> SUFFICES ASSUME NEW i \in DOMAIN ledger'
               PROVE  \E o \in DOMAIN topic :
                          /\ topic[o].valid
                          /\ topic[o].event = ledger'[i]
                          /\ \A before \in 1..(o - 1) :
                              /\ topic[before].valid
                              /\ topic[before].event.payment
                                    = ledger'[i].payment
                              /\ topic[before].event # ledger'[i]
                              => before \in skipped'
    BY DEF FirstRecordIsBooked
  <2>1. CASE i \in DOMAIN ledger
    <3>1. PICK o \in DOMAIN topic :
            /\ topic[o].valid
            /\ topic[o].event = ledger[i]
            /\ \A before \in 1..(o - 1) :
                /\ topic[before].valid
                /\ topic[before].event.payment = ledger[i].payment
                /\ topic[before].event # ledger[i]
                => before \in skipped
      BY <2>1 DEF IInv, FirstRecordIsBooked
    <3> QED BY <1>3, <1>8, <2>1, <3>1
  <2>2. CASE i = Len(ledger) + 1
    <3>1. ledger'[i] = Current(c) /\ topic[at].event = Current(c)
      BY <1>3, <1>5, <2>2 DEF Current
    <3>2. at \in DOMAIN topic /\ topic[at].valid /\ at - 1 = consumer[c].position
      BY <1>1, <1>2, <1>5
    <3>3. \A before \in 1..(at - 1) :
            /\ topic[before].valid
            /\ topic[before].event.payment = Current(c).payment
            => before \in skipped'
      BY <1>7, <1>8, <3>2
    <3> QED BY <3>1, <3>2, <3>3
  <2> QED BY <1>3, <2>1, <2>2
<1>9. duplicates' \in [Consumer -> Nat] /\ lost' \in Nat
  BY <1>1 DEF TypeOK
<1> QED BY <1>1, <1>3, <1>4, <1>5, <1>6, <1>8, <1>9, CallEndKeeps

(***************************************************************************)
(* The other steps.                                                        *)
(***************************************************************************)

\* A step that only moves replicas, from one sound state to another.
LEMMA ReplicasKeep ==
    ASSUME IInv, UNCHANGED <<topic, ledger, committed, skipped>>,
           TypeOK', \A d \in Consumer : Sound(d)'
    PROVE  IInv'
<1>1. OneEntryPerPayment' /\ FirstRecordIsBooked'
  BY LedgerFrame DEF IInv
<1>2. NothingIsPassedOver' /\ OffsetsAreInTopic'
  BY DEF IInv, NothingIsPassedOver, OffsetsAreInTopic, Booked
<1>3. BatchesAreInTopic' /\ HandledIsBooked' /\ RacedEntriesAreThere'
  BY DEF Sound, BatchesAreInTopic, HandledIsBooked, RacedEntriesAreThere
<1> QED BY <1>1, <1>2, <1>3 DEF IInv

\* One replica moves, and the others do not notice.
LEMMA OneReplicaKeeps ==
    ASSUME IInv, NEW c \in Consumer,
           UNCHANGED <<topic, ledger, committed, skipped>>,
           duplicates' \in [Consumer -> Nat], lost' \in Nat,
           consumer' \in [Consumer -> ConsumerState],
           \A d \in Consumer : d # c => consumer'[d] = consumer[d],
           owner' \in Consumer \cup {Nobody}, faults' \in 0..MaxFaults,
           Sound(c)'
    PROVE  IInv'
<1>1. TypeOK /\ Grows /\ Len(topic) \in Nat /\ \A d \in Consumer : Sound(d)
  BY LedgerFrame, SoundReplicas DEF IInv, TypeOK
<1>2. TypeOK'
  BY <1>1 DEF TypeOK
<1>3. ASSUME NEW d \in Consumer, d # c PROVE Sound(d)'
  BY <1>1, <1>3, SoundFrame
<1> QED BY <1>2, <1>3, ReplicasKeep

\* The listener goes on to its next statement.
LEMMA NextStatementKeeps ==
    ASSUME IInv, NEW c \in Consumer, NEW stage \in {"insert", "reread"},
           consumer[c].position < consumer[c].upto, topic[Offset(c)].valid,
           stage = "reread" => Entries(Current(c).payment) # {},
           GoTo(c, stage),
           UNCHANGED <<topic, ledger, duplicates, lost, committed, owner,
                       skipped, faults>>
    PROVE  IInv'
<1>1. TypeOK /\ Sound(c)
  BY SoundReplicas DEF IInv
<1>2. /\ consumer' \in [Consumer -> ConsumerState]
      /\ \A d \in Consumer : d # c => consumer'[d] = consumer[d]
      /\ consumer'[c].stage = stage
      /\ consumer'[c].position = consumer[c].position
      /\ consumer'[c].upto = consumer[c].upto
  BY <1>1 DEF TypeOK, GoTo, ConsumerState
<1>3. Sound(c)'
  BY <1>1, <1>2 DEF Sound, At, Offset, Current, Entries, Booked
<1>4. /\ owner' \in Consumer \cup {Nobody} /\ faults' \in 0..MaxFaults
      /\ duplicates' \in [Consumer -> Nat] /\ lost' \in Nat
  BY <1>1 DEF TypeOK
<1> QED BY <1>2, <1>3, <1>4, OneReplicaKeeps

\* A replica between two calls, at a position that the group has committed or
\* that it has come to itself.
LEMMA RestingReplicaKeeps ==
    ASSUME IInv, NEW c \in Consumer, NEW position \in Nat, NEW upto \in Nat,
           UNCHANGED <<topic, ledger, committed, skipped>>,
           duplicates' \in [Consumer -> Nat], lost' \in Nat,
           consumer' \in [Consumer -> ConsumerState],
           \A d \in Consumer : d # c => consumer'[d] = consumer[d],
           consumer'[c].stage = "idle",
           consumer'[c].position = position, consumer'[c].upto = upto,
           position <= upto, upto <= Len(topic), position <= committed,
           owner' \in Consumer \cup {Nobody}, faults' \in 0..MaxFaults
    PROVE  IInv'
<1>1. \A o \in 1..committed : o \in skipped' \/ Booked(o)'
  BY DEF IInv, NothingIsPassedOver, Booked
<1>2. committed \in Nat
  BY DEF IInv, TypeOK
<1>3. \A o \in 1..consumer'[c].position : o \in skipped' \/ Booked(o)'
  BY <1>1, <1>2
<1>4. Sound(c)'
  BY <1>3 DEF Sound, At
<1> QED BY <1>4, OneReplicaKeeps

\* A record is appended.
LEMMA ProduceKeeps ==
    ASSUME IInv, Produce
    PROVE  IInv'
<1>1. PICK payload \in Payload : topic' = Append(topic, payload)
  BY DEF Produce
<1>2. TypeOK /\ topic \in Seq(Payload) /\ \A d \in Consumer : Sound(d)
  BY SoundReplicas DEF IInv, TypeOK
<1>3. /\ topic' \in Seq(Payload)
      /\ Len(topic)' = Len(topic) + 1
      /\ Len(topic) \in Nat
      /\ DOMAIN topic \subseteq DOMAIN topic'
      /\ \A o \in DOMAIN topic : topic'[o] = topic[o]
  BY <1>1, <1>2
<1>4. UNCHANGED <<ledger, duplicates, lost, committed, owner, consumer, skipped,
                  faults>>
  BY DEF Produce
<1>5. Grows
  BY <1>3, <1>4 DEF Grows
<1>6. TypeOK'
  BY <1>2, <1>3, <1>4 DEF TypeOK
<1>7. OneEntryPerPayment'
  BY <1>4 DEF IInv, OneEntryPerPayment
<1>8. NothingIsPassedOver'
  BY <1>4, <1>5, PassedFrame DEF IInv
<1>9. OffsetsAreInTopic'
  BY <1>2, <1>3, <1>4 DEF IInv, OffsetsAreInTopic, TypeOK
<1>10. FirstRecordIsBooked'
  <2> SUFFICES ASSUME NEW i \in DOMAIN ledger
               PROVE  \E o \in DOMAIN topic' :
                          /\ topic'[o].valid
                          /\ topic'[o].event = ledger[i]
                          /\ \A before \in 1..(o - 1) :
                              /\ topic'[before].valid
                              /\ topic'[before].event.payment
                                    = ledger[i].payment
                              /\ topic'[before].event # ledger[i]
                              => before \in skipped
    BY <1>4 DEF FirstRecordIsBooked
  <2>1. PICK o \in DOMAIN topic :
          /\ topic[o].valid
          /\ topic[o].event = ledger[i]
          /\ \A before \in 1..(o - 1) :
              /\ topic[before].valid
              /\ topic[before].event.payment = ledger[i].payment
              /\ topic[before].event # ledger[i]
              => before \in skipped
    BY DEF IInv, FirstRecordIsBooked
  <2>2. \A before \in 1..(o - 1) : before \in DOMAIN topic
    BY <1>2
  <2> QED BY <1>3, <2>1, <2>2
<1>11. \A d \in Consumer : Sound(d)'
  BY <1>2, <1>3, <1>4, <1>5, SoundFrame
<1>12. BatchesAreInTopic' /\ HandledIsBooked' /\ RacedEntriesAreThere'
  BY <1>11 DEF Sound, BatchesAreInTopic, HandledIsBooked, RacedEntriesAreThere
<1> QED BY <1>6, <1>7, <1>8, <1>9, <1>10, <1>12 DEF IInv

\* The group moves past what the owner has handled.
LEMMA CommitOffsetKeeps ==
    ASSUME IInv, NEW c \in Consumer, CommitOffset(c)
    PROVE  IInv'
<1>1. /\ committed' = consumer[c].position
      /\ consumer[c].position \in Nat
      /\ UNCHANGED <<topic, ledger, duplicates, lost, owner, consumer, skipped,
                     faults>>
  BY DEF IInv, TypeOK, ConsumerState, CommitOffset
<1>2. /\ consumer[c].position <= consumer[c].upto
      /\ consumer[c].upto <= Len(topic)
      /\ consumer[c].upto \in Nat
      /\ Len(topic) \in Nat
  BY DEF IInv, TypeOK, ConsumerState, BatchesAreInTopic
<1>3. TypeOK'
  BY <1>1 DEF IInv, TypeOK
<1>4. OneEntryPerPayment' /\ FirstRecordIsBooked'
  BY <1>1, LedgerFrame DEF IInv
<1>5. NothingIsPassedOver'
  BY <1>1 DEF IInv, HandledIsBooked, NothingIsPassedOver, Booked
<1>6. OffsetsAreInTopic'
  BY <1>1, <1>2 DEF IInv, OffsetsAreInTopic
<1>7. /\ BatchesAreInTopic'
      /\ HandledIsBooked'
      /\ RacedEntriesAreThere'
  BY <1>1 DEF IInv, BatchesAreInTopic, HandledIsBooked, RacedEntriesAreThere,
              At, Offset, Current, Entries, Booked
<1> QED BY <1>3, <1>4, <1>5, <1>6, <1>7 DEF IInv

\* The partition loses its owner, or nothing happens.
LEMMA OwnerOnlyKeeps ==
    ASSUME IInv,
           UNCHANGED <<topic, ledger, duplicates, lost, committed, consumer,
                       skipped>>,
           owner' \in Consumer \cup {Nobody}, faults' \in 0..MaxFaults
    PROVE  IInv'
<1>1. TypeOK /\ Grows /\ Len(topic) \in Nat /\ \A d \in Consumer : Sound(d)
  BY LedgerFrame, SoundReplicas DEF IInv, TypeOK
<1>2. TypeOK'
  BY <1>1 DEF TypeOK
<1>3. \A d \in Consumer : Sound(d)'
  BY <1>1, SoundFrame
<1> QED BY <1>2, <1>3, ReplicasKeep

\* A failure is counted within its bound.
LEMMA FaultEffect ==
    ASSUME TypeOK, Fault
    PROVE  faults' \in 0..MaxFaults
  BY BoundsAssumption DEF TypeOK, Fault

\* Every step of one replica keeps the invariant.
LEMMA ReplicaKeeps ==
    ASSUME IInv, NEW c \in Consumer,
           \/ Proceeds(c)
           \/ InsertUnheard(c)
           \/ DatabaseFails(c)
           \/ Crash(c)
           \/ Assign(c)
    PROVE  IInv'
<1>1. /\ TypeOK
      /\ faults \in 0..MaxFaults
      /\ owner \in Consumer \cup {Nobody}
      /\ consumer \in [Consumer -> ConsumerState]
      /\ committed \in Nat
      /\ Len(topic) \in Nat
      /\ committed <= Len(topic)
      /\ duplicates \in [Consumer -> Nat] /\ lost \in Nat
  BY DEF IInv, TypeOK, OffsetsAreInTopic
<1>2. ~At(c, "idle") =>
        consumer[c].position < consumer[c].upto /\ topic[Offset(c)].valid
  BY DEF IInv, BatchesAreInTopic
<1>3. CASE Poll(c)
  <2>1. consumer' = [consumer EXCEPT ![c].upto = Len(topic)]
    BY <1>3 DEF Poll
  <2>2. /\ consumer' \in [Consumer -> ConsumerState]
        /\ \A d \in Consumer : d # c => consumer'[d] = consumer[d]
        /\ consumer'[c].stage = "idle"
        /\ consumer'[c].position = committed
        /\ consumer'[c].upto = Len(topic)
    BY <1>1, <1>3, <2>1 DEF Poll, AtRest, At, ConsumerState
  <2> QED BY <1>1, <1>3, <2>2, RestingReplicaKeeps DEF Poll
<1>4. CASE RejectMalformed(c)
  BY <1>1, <1>4, ReadingCallKeeps DEF RejectMalformed, HasNext
<1>5. CASE LookUp(c)
  <2>1. /\ consumer[c].position < consumer[c].upto
        /\ topic[Offset(c)].valid
        /\ UNCHANGED <<topic, ledger, lost, committed, owner, faults>>
    BY <1>5 DEF LookUp, HasNext
  <2>2. CASE GoTo(c, "insert") /\ UNCHANGED <<duplicates, skipped>>
    BY <2>1, <2>2, NextStatementKeeps
  <2>3. CASE \E i \in Entries(Current(c).payment) : AcceptReplay(c, i)
    BY <2>1, <2>3, ReplayingCallKeeps
  <2> QED BY <1>5, <2>2, <2>3 DEF LookUp
<1>6. CASE InsertEntry(c)
  <2>1. CASE Entries(Current(c).payment) = {}
    BY <1>1, <1>6, <2>1, WritingCallKeeps DEF InsertEntry
  <2>2. CASE Entries(Current(c).payment) # {}
    BY <1>2, <1>6, <2>2, NextStatementKeeps DEF InsertEntry, At
  <2> QED BY <2>1, <2>2
<1>7. CASE ReadRaced(c)
  <2>1. /\ consumer[c].position < consumer[c].upto
        /\ topic[Offset(c)].valid
    BY <1>2, <1>7 DEF ReadRaced, At
  <2> QED BY <1>7, <2>1, ReplayingCallKeeps DEF ReadRaced
<1>8. CASE CommitOffset(c)
  BY <1>8, CommitOffsetKeeps
<1>9. CASE InsertUnheard(c)
  BY <1>1, <1>9, FaultEffect, WritingCallKeeps DEF InsertUnheard
<1>10. CASE DatabaseFails(c)
  <2>1. consumer[c].position < consumer[c].upto
    BY <1>2, <1>10 DEF DatabaseFails, HasNext, At
  <2> QED BY <1>1, <1>10, <2>1, FaultEffect, ReadingCallKeeps
          DEF DatabaseFails
<1>11. CASE Crash(c)
  <2>1. /\ consumer' \in [Consumer -> ConsumerState]
        /\ \A d \in Consumer : d # c => consumer'[d] = consumer[d]
        /\ consumer'[c].stage = "idle"
        /\ consumer'[c].position = 0
        /\ consumer'[c].upto = 0
    BY <1>1, <1>11 DEF Crash, Started, ConsumerState
  <2>2. /\ owner' \in Consumer \cup {Nobody} /\ faults' \in 0..MaxFaults
        /\ duplicates' \in [Consumer -> Nat] /\ lost' \in Nat
    BY <1>1, <1>11, FaultEffect DEF Crash
  <2> QED BY <1>1, <1>11, <2>1, <2>2, RestingReplicaKeeps DEF Crash
<1>12. CASE Assign(c)
  <2>1. PICK tries \in {0, consumer[c].tries} :
          consumer' = [consumer EXCEPT ![c] = [stage    |-> "idle",
                                               position |-> committed,
                                               upto     |-> committed,
                                               tries    |-> tries]]
    BY <1>12 DEF Assign
  <2>2. /\ consumer' \in [Consumer -> ConsumerState]
        /\ \A d \in Consumer : d # c => consumer'[d] = consumer[d]
        /\ consumer'[c].stage = "idle"
        /\ consumer'[c].position = committed
        /\ consumer'[c].upto = committed
    BY <1>1, <2>1 DEF ConsumerState
  <2> QED BY <1>1, <1>12, <2>2, RestingReplicaKeeps DEF Assign
<1> QED
  BY <1>3, <1>4, <1>5, <1>6, <1>7, <1>8, <1>9, <1>10, <1>11, <1>12
  DEF Proceeds

LEMMA LedgerInit ==
    ASSUME Init
    PROVE  IInv
<1>1. TypeOK
  BY BoundsAssumption DEF Init, TypeOK, Started, ConsumerState
<1>2. OneEntryPerPayment /\ FirstRecordIsBooked
  BY DEF Init, OneEntryPerPayment, FirstRecordIsBooked
<1>3. NothingIsPassedOver /\ OffsetsAreInTopic
  BY DEF Init, NothingIsPassedOver, OffsetsAreInTopic
<1>4. BatchesAreInTopic /\ HandledIsBooked /\ RacedEntriesAreThere
  BY DEF Init, Started, At, BatchesAreInTopic, HandledIsBooked,
         RacedEntriesAreThere
<1> QED BY <1>1, <1>2, <1>3, <1>4 DEF IInv

\* The inductive invariant of the ledger: what a replica has been through is
\* booked or given up on, before the group moves past it.
THEOREM LedgerInvariant == Spec => []IInv
<1>1. Init => IInv
  BY LedgerInit
<1>2. ASSUME IInv, [Next]_vars PROVE IInv'
  <2>1. faults \in 0..MaxFaults /\ owner \in Consumer \cup {Nobody} /\ TypeOK
    BY <1>2 DEF IInv, TypeOK
  <2>2. CASE Produce
    BY <1>2, <2>2, ProduceKeeps
  <2>3. CASE Evict
    BY <1>2, <2>1, <2>3, FaultEffect, OwnerOnlyKeeps DEF Evict
  <2>4. ASSUME NEW c \in Consumer,
               \/ Proceeds(c)
               \/ InsertUnheard(c)
               \/ DatabaseFails(c)
               \/ Crash(c)
               \/ Assign(c)
        PROVE  IInv'
    BY <1>2, <2>4, ReplicaKeeps
  <2>5. CASE UNCHANGED vars
    BY <1>2, <2>1, <2>5, OwnerOnlyKeeps DEF vars
  <2> QED BY <1>2, <2>2, <2>3, <2>4, <2>5 DEF Next
<1> QED BY <1>1, <1>2, PTL DEF Spec

\* TransactionService.persist: a payment never has two ledger entries.
THEOREM EntriesAreUnique == Spec => []OneEntryPerPayment
<1>1. IInv => OneEntryPerPayment
  BY DEF IInv
<1> QED BY <1>1, LedgerInvariant, PTL

\* PaymentEventListener.consume: the group never moves past a record that is
\* neither booked nor given up on.
THEOREM NoRecordIsLost == Spec => []NothingIsPassedOver
<1>1. IInv => NothingIsPassedOver
  BY DEF IInv
<1> QED BY <1>1, LedgerInvariant, PTL

\* TransactionService.recordPaymentEvent: no later record takes the place of
\* one that was not given up on.
THEOREM FirstRecordWins == Spec => []FirstRecordIsBooked
<1>1. IInv => FirstRecordIsBooked
  BY DEF IInv
<1> QED BY <1>1, LedgerInvariant, PTL

(***************************************************************************)
(* Counting.  Three sums are bounded: the failed tries, the records that   *)
(* were passed and the calls that were answered.  Each is the cardinality  *)
(* of a set of the state, so that a step is seen by what it adds to it.    *)
(***************************************************************************)

LEMMA SubsetCount ==
    ASSUME NEW S, IsFiniteSet(S), NEW T, T \subseteq S
    PROVE  /\ IsFiniteSet(T)
           /\ Cardinality(T) \in Nat /\ Cardinality(S) \in Nat
           /\ Cardinality(T) <= Cardinality(S)
  BY FS_Subset, FS_CardinalityType

LEMMA OneMoreCount ==
    ASSUME NEW S, IsFiniteSet(S), NEW x, NEW T, T \subseteq S \cup {x}
    PROVE  /\ IsFiniteSet(T)
           /\ Cardinality(T) \in Nat /\ Cardinality(S) \in Nat
           /\ Cardinality(T) <= Cardinality(S) + 1
<1>1. /\ IsFiniteSet(S \cup {x})
      /\ Cardinality(S \cup {x}) \in {Cardinality(S), Cardinality(S) + 1}
      /\ Cardinality(S) \in Nat
  BY FS_AddElement, FS_CardinalityType
<1>2. /\ IsFiniteSet(T)
      /\ Cardinality(T) \in Nat
      /\ Cardinality(T) <= Cardinality(S \cup {x})
  BY <1>1, SubsetCount
<1> QED BY <1>1, <1>2

LEMMA Times ==
    ASSUME NEW k \in Nat, NEW a \in Nat, NEW b \in Nat
    PROVE  /\ k * a \in Nat
           /\ k * (a + 1) = k * a + k
           /\ a <= b => k * a <= k * b
<1>1. k * a \in Nat /\ k * (a + 1) = k * a + k
  OBVIOUS
<1>2. ASSUME a <= b PROVE k * a <= k * b
  <2>1. PICK d \in Nat : b = a + d
    <3>1. b - a \in Nat /\ b = a + (b - a)
      BY <1>2
    <3> QED BY <3>1
  <2>2. k * b = k * a + k * d /\ k * d \in Nat
    BY <2>1
  <2> QED BY <1>1, <2>2
<1> QED BY <1>1, <1>2

\* The pairs of x with an interval.
LEMMA RowCount ==
    ASSUME NEW x, NEW a \in Int, NEW b \in Int
    PROVE  /\ IsFiniteSet({x} \X (a..b))
           /\ Cardinality({x} \X (a..b)) = IF a > b THEN 0 ELSE b - a + 1
<1>1. /\ IsFiniteSet(a..b)
      /\ Cardinality(a..b) = IF a > b THEN 0 ELSE b - a + 1
  BY FS_Interval
<1>2. IsFiniteSet({x}) /\ Cardinality({x}) = 1
  BY FS_Singleton
<1>3. /\ IsFiniteSet({x} \X (a..b))
      /\ Cardinality({x} \X (a..b)) = Cardinality({x}) * Cardinality(a..b)
  BY <1>1, <1>2, FS_Product
<1> QED BY <1>1, <1>2, <1>3

\* What the counts are of is finite.
LEMMA CountedSets ==
    ASSUME TypeOK, OffsetsAreInTopic
    PROVE  /\ IsFiniteSet(DOMAIN topic)
           /\ IsFiniteSet(skipped) /\ Cardinality(skipped) \in Nat
           /\ IsFiniteSet(BlamelessSkips) /\ Cardinality(BlamelessSkips) \in Nat
           /\ IsFiniteSet(Passed) /\ Cardinality(Passed) \in Nat
<1>1. DOMAIN topic = 1..Len(topic) /\ Len(topic) \in Nat
  BY DEF TypeOK
<1>2. IsFiniteSet(DOMAIN topic)
  BY <1>1, FS_Interval
<1>3. /\ skipped \subseteq DOMAIN topic
      /\ BlamelessSkips \subseteq DOMAIN topic
      /\ Passed \subseteq DOMAIN topic
  BY DEF OffsetsAreInTopic, BlamelessSkips, Passed
<1> QED BY <1>2, <1>3, SubsetCount

\* How a throw is counted by its replica.
LEMMA ThrowsCount ==
    ASSUME TypeOK, NEW c \in Consumer, Throws(c)
    PROVE  \/ /\ consumer[c].tries + 1 < Attempts
              /\ consumer'[c].tries = consumer[c].tries + 1
              /\ consumer'[c].position = consumer[c].position
              /\ consumer'[c].upto = consumer[c].position
              /\ skipped' = skipped
           \/ /\ ~(consumer[c].tries + 1 < Attempts)
              /\ consumer'[c].tries = 0
              /\ consumer'[c].position = Offset(c)
              /\ consumer'[c].upto = Offset(c)
              /\ skipped' = skipped \cup {Offset(c)}
<1>1. CASE consumer[c].tries + 1 < Attempts
  BY <1>1 DEF TypeOK, Throws, ConsumerState
<1>2. CASE ~(consumer[c].tries + 1 < Attempts)
  <2>1. PICK n : n = Offset(c)
    OBVIOUS
  <2>2. /\ consumer' = [consumer EXCEPT ![c].stage = "idle", ![c].tries = 0,
                                        ![c].position = n, ![c].upto = n]
        /\ skipped' = skipped \cup {n}
    BY <1>2, <2>1 DEF Throws
  <2>3. consumer \in [Consumer -> ConsumerState]
    BY DEF TypeOK
  <2>4. /\ consumer'[c].tries = 0
        /\ consumer'[c].position = n
        /\ consumer'[c].upto = n
    BY <2>2, <2>3 DEF ConsumerState
  <2> QED BY <1>2, <2>1, <2>2, <2>4
<1> QED BY <1>1, <1>2

(***************************************************************************)
(* Tries.                                                                  *)
(***************************************************************************)

\* A record that has come into conflict stays so.
LEMMA BlameStays ==
    ASSUME Grows
    PROVE  \A o \in DOMAIN topic : Blameless(o)' => Blameless(o)
<1>1. \A o \in DOMAIN topic : Conflicting(o) => Conflicting(o)'
  BY DEF Grows, Conflicting
<1> QED BY <1>1 DEF Grows, Blameless

LEMMA ReplicaTypes ==
    ASSUME IInv, NEW c \in Consumer
    PROVE  /\ consumer[c].position \in Nat /\ consumer[c].upto \in Nat
           /\ consumer[c].tries \in Nat
           /\ Offset(c) = consumer[c].position + 1
           /\ consumer[c].position <= consumer[c].upto
           /\ consumer[c].upto <= Len(topic)
           /\ Len(topic) \in Nat /\ DOMAIN topic = 1..Len(topic)
           /\ committed \in Nat /\ faults \in Nat /\ Len(ledger) \in Nat
  BY BoundsAssumption DEF IInv, TypeOK, ConsumerState, BatchesAreInTopic, Offset

\* The sets do not grow, and no failure is taken back.
LEMMA TriesFrame ==
    ASSUME IInv, TriesAreFailures,
           BlamelessSkips' \subseteq BlamelessSkips,
           FailedTries' \subseteq FailedTries,
           faults' \in Nat, faults <= faults',
           \A c \in Consumer :
             /\ consumer'[c].tries < Attempts
             /\ consumer'[c].tries > 0 => Offset(c)' \in DOMAIN topic'
    PROVE  TriesAreFailures'
<1> DEFINE n == Cardinality(BlamelessSkips)  m == Cardinality(FailedTries)
<1>1. IsFiniteSet(BlamelessSkips) /\ IsFiniteSet(FailedTries)
  BY CountedSets DEF IInv, TriesAreFailures
<1>2. /\ IsFiniteSet(FailedTries')
      /\ n \in Nat /\ n' \in Nat /\ n' <= n
      /\ m \in Nat /\ m' \in Nat /\ m' <= m
  BY <1>1, SubsetCount
<1>3. Attempts * n + m <= faults /\ faults \in Nat /\ Attempts \in Nat
  BY BoundsAssumption DEF TriesAreFailures, IInv, TypeOK
<1>4. Attempts * n' + m' <= faults'
  <2>1. /\ Attempts * n \in Nat /\ Attempts * n' \in Nat
        /\ Attempts * n' <= Attempts * n
    BY <1>2, <1>3, Times
  <2> QED BY <1>2, <1>3, <2>1
<1> QED BY <1>2, <1>4 DEF TriesAreFailures

\* No replica tries more than before at a record that is not to blame.
LEMMA NoTryFails ==
    ASSUME IInv, TriesAreFailures, Grows,
           consumer' \in [Consumer -> ConsumerState],
           faults' \in Nat, faults <= faults',
           \A o \in skipped' :
             o \in skipped \/ (o \in DOMAIN topic /\ ~Blameless(o)),
           \A c \in Consumer :
             \/ consumer'[c].tries = 0
             \/ /\ consumer'[c].position = consumer[c].position
                /\ consumer'[c].tries < Attempts
                /\ \/ consumer'[c].tries <= consumer[c].tries
                   \/ Offset(c) \in DOMAIN topic /\ ~Blameless(Offset(c))
    PROVE  TriesAreFailures'
<1>1. ASSUME NEW c \in Consumer, consumer'[c].tries > 0
      PROVE  /\ consumer'[c].tries < Attempts
             /\ Offset(c)' = Offset(c)
             /\ Offset(c) \in DOMAIN topic
             /\ \/ consumer'[c].tries <= consumer[c].tries
                \/ ~Blameless(Offset(c))
  <2>1. /\ consumer'[c].position = consumer[c].position
        /\ consumer'[c].tries < Attempts
        /\ \/ consumer'[c].tries <= consumer[c].tries
           \/ Offset(c) \in DOMAIN topic /\ ~Blameless(Offset(c))
    BY <1>1
  <2>2. consumer'[c].tries \in Nat /\ consumer[c].tries \in Nat
    BY ReplicaTypes DEF ConsumerState
  <2>3. Offset(c) \in DOMAIN topic
    BY <1>1, <2>1, <2>2 DEF TriesAreFailures
  <2> QED BY <2>1, <2>3 DEF Offset
<1>2. BlamelessSkips' \subseteq BlamelessSkips
  <2>1. ASSUME NEW o \in skipped', Blameless(o)' PROVE o \in skipped /\ Blameless(o)
    <3>1. o \in DOMAIN topic
      BY DEF IInv, OffsetsAreInTopic
    <3> QED BY <2>1, <3>1, BlameStays
  <2> QED BY <2>1 DEF BlamelessSkips
<1>3. FailedTries' \subseteq FailedTries
  <2>1. ASSUME NEW c \in Consumer, NEW k \in 1..Attempts,
               k <= consumer'[c].tries, Blameless(Offset(c))'
        PROVE  k <= consumer[c].tries /\ Blameless(Offset(c))
    <3>1. consumer'[c].tries \in Nat /\ consumer[c].tries \in Nat /\ k \in Nat /\ k > 0
      BY ReplicaTypes, BoundsAssumption DEF ConsumerState
    <3>2. PICK o : o = Offset(c)
      OBVIOUS
    <3>3. /\ Offset(c)' = o /\ o \in DOMAIN topic
          /\ consumer'[c].tries <= consumer[c].tries \/ ~Blameless(o)
      BY <1>1, <2>1, <3>1, <3>2
    <3>4. Blameless(o)'
      BY <2>1, <3>3 DEF Blameless, Conflicting
    <3>5. Blameless(o)
      BY <3>3, <3>4, BlameStays
    <3> QED BY <2>1, <3>1, <3>2, <3>3, <3>5
  <2> QED BY <2>1 DEF FailedTries
<1>4. \A c \in Consumer :
        /\ consumer'[c].tries < Attempts
        /\ consumer'[c].tries > 0 => Offset(c)' \in DOMAIN topic'
  BY <1>1, BoundsAssumption DEF Grows, ConsumerState
<1> QED BY <1>2, <1>3, <1>4, TriesFrame

(***************************************************************************)
(* How a call of the listener goes on or ends, as far as it is counted.    *)
(***************************************************************************)

\* Entries and duplicates: the calls that were answered.
Calls == Len(ledger) + CountedEver

LEMMA CallsType ==
    ASSUME TypeOK, CountersAreFinite
    PROVE  Calls \in Nat /\ CountedEver \in Nat
<1>1. Cardinality(Counted) \in Nat
  BY FS_CardinalityType DEF CountersAreFinite
<1> QED BY <1>1 DEF TypeOK, Calls, CountedEver

LEMMA CallsTypeNext ==
    ASSUME TypeOK', CountersAreFinite'
    PROVE  Calls' \in Nat /\ CountedEver' \in Nat
<1>1. Cardinality(Counted') \in Nat
  BY FS_CardinalityType DEF CountersAreFinite
<1> QED BY <1>1 DEF TypeOK, Calls, CountedEver

LEMMA CountersKept ==
    ASSUME UNCHANGED <<duplicates, lost>>
    PROVE  Counted' = Counted /\ CountedEver' = CountedEver
  BY DEF Counted, CountedEver

\* What a counter shows, member by member.
LEMMA CountedMembers ==
    /\ \A x : x \in Counted <=>
            \E d \in Consumer : \E k \in 1..duplicates[d] : x = <<d, k>>
    /\ \A x : x \in Counted' <=>
            \E d \in Consumer : \E k \in 1..duplicates'[d] : x = <<d, k>>
<1>1. \A x : x \in Counted <=>
        \E d \in Consumer : \E k \in 1..duplicates[d] : x = <<d, k>>
  BY DEF Counted
<1>2. \A x : x \in Counted' <=>
        \E d \in Consumer : \E k \in 1..duplicates'[d] : x = <<d, k>>
  BY DEF Counted
<1> QED BY <1>1, <1>2

\* A replay more is one more on the counter of the replica that accepts it.
LEMMA CountersGrow ==
    ASSUME TypeOK, CountersAreFinite, NEW c \in Consumer,
           duplicates' = [duplicates EXCEPT ![c] = @ + 1], lost' = lost
    PROVE  CountersAreFinite' /\ CountedEver' = CountedEver + 1
<1> DEFINE n == duplicates[c]
<1>1. /\ n \in Nat /\ duplicates'[c] = n + 1
      /\ \A d \in Consumer : d # c => duplicates'[d] = duplicates[d]
      /\ lost \in Nat
  BY DEF TypeOK
<1>2. Counted' = Counted \cup {<<c, n + 1>>}
  <2>1. ASSUME NEW d \in Consumer, NEW k
        PROVE  k \in 1..duplicates'[d] <=>
                 k \in 1..duplicates[d] \/ (d = c /\ k = n + 1)
    BY <1>1
  <2> HIDE DEF n
  <2>2. \A x \in Counted' : x \in Counted \/ x = <<c, n + 1>>
    BY <2>1, CountedMembers
  <2>3. \A x \in Counted : x \in Counted'
    BY <2>1, CountedMembers
  <2>4. <<c, n + 1>> \in Counted'
    BY <2>1, CountedMembers
  <2> QED BY <2>2, <2>3, <2>4
<1>3. <<c, n + 1>> \notin Counted
  <2>1. n + 1 \notin 1..duplicates[c]
    BY <1>1
  <2> QED BY <2>1, CountedMembers
<1>4. /\ IsFiniteSet(Counted')
      /\ Cardinality(Counted') = Cardinality(Counted) + 1
      /\ Cardinality(Counted) \in Nat
  <2> HIDE DEF n
  <2> QED BY <1>2, <1>3, FS_AddElement, FS_CardinalityType DEF CountersAreFinite
<1> QED BY <1>1, <1>4 DEF CountersAreFinite, CountedEver

\* A crash takes what the counter of the replica showed.
LEMMA CountersLost ==
    ASSUME TypeOK, CountersAreFinite, NEW c \in Consumer,
           duplicates' = [duplicates EXCEPT ![c] = 0],
           lost' = lost + duplicates[c]
    PROVE  CountersAreFinite' /\ CountedEver' = CountedEver
<1> DEFINE n == duplicates[c]  row == {c} \X (1..n)
<1>1. /\ n \in Nat /\ duplicates'[c] = 0
      /\ \A d \in Consumer : d # c => duplicates'[d] = duplicates[d]
      /\ lost \in Nat /\ lost' = lost + n
  BY DEF TypeOK
<1>2. row \subseteq Counted
  BY CountedMembers
<1>3. Counted' = Counted \ row
  <2>1. ASSUME NEW d \in Consumer, NEW k
        PROVE  k \in 1..duplicates'[d] <=> k \in 1..duplicates[d] /\ d # c
    BY <1>1
  <2>2. \A x \in Counted' : x \in Counted /\ x \notin row
    BY <2>1, CountedMembers
  <2>3. \A x \in Counted : x \notin row => x \in Counted'
    BY <2>1, CountedMembers
  <2> QED BY <2>2, <2>3
<1>4. Cardinality(row) = n
  <2>1. 1 \in Int /\ n \in Int /\ (IF 1 > n THEN 0 ELSE n - 1 + 1) = n
    BY <1>1
  <2> HIDE DEF n
  <2> QED BY <2>1, RowCount
<1>5. /\ IsFiniteSet(Counted')
      /\ Cardinality(Counted') = Cardinality(Counted) - n
      /\ Cardinality(Counted) \in Nat /\ Cardinality(Counted') \in Nat
  <2> HIDE DEF row, n
  <2>1. Counted \cap row = row
    BY <1>2
  <2>2. /\ IsFiniteSet(Counted \ row)
        /\ Cardinality(Counted \ row)
             = Cardinality(Counted) - Cardinality(Counted \cap row)
    BY FS_Difference DEF CountersAreFinite
  <2>3. Cardinality(Counted) \in Nat /\ Cardinality(Counted \ row) \in Nat
    BY <2>2, FS_CardinalityType DEF CountersAreFinite
  <2> QED BY <1>3, <1>4, <2>1, <2>2, <2>3
<1>6. PICK a \in Nat, b \in Nat :
        a = Cardinality(Counted) /\ b = Cardinality(Counted') /\ b = a - n
  BY <1>5
<1> QED BY <1>1, <1>5, <1>6 DEF CountersAreFinite, CountedEver

LEMMA CallsKept ==
    ASSUME UNCHANGED <<ledger, duplicates, lost>>
    PROVE  Calls' = Calls
  BY CountersKept DEF Calls

\* The record is booked now, or was before.
Answered(c) ==
    /\ Returns(c)
    /\ Calls' = Calls + 1
    /\ UNCHANGED <<topic, committed, owner, faults>>

\* The record itself is refused.
Refused(c) ==
    /\ Throws(c)
    /\ ~Blameless(Offset(c))
    /\ Calls' = Calls
    /\ UNCHANGED <<topic, committed, owner, faults>>

\* A failure ends the call; an entry may have been made.
Failed(c) ==
    /\ Throws(c)
    /\ Calls' \in {Calls, Calls + 1}
    /\ faults' = faults + 1
    /\ UNCHANGED <<topic, committed, owner>>

\* The call is not over.
GoesOn(c) ==
    /\ \E stage \in {"insert", "reread"} : GoTo(c, stage)
    /\ Calls' = Calls
    /\ UNCHANGED <<topic, committed, owner, skipped, faults>>

LEMMA AppendCounts ==
    ASSUME IInv, CountersAreFinite, NEW c \in Consumer, At(c, "insert"),
           Entries(Current(c).payment) = {},
           ledger' = Append(ledger, Current(c)), UNCHANGED <<duplicates, lost>>
    PROVE  Calls' = Calls + 1
<1>1. Len(ledger') = Len(ledger) + 1 /\ Len(ledger) \in Nat
  BY DEF IInv, TypeOK
<1>2. CountedEver \in Nat /\ CountedEver' = CountedEver
  BY CallsType, CountersKept DEF IInv
<1> QED BY <1>1, <1>2 DEF Calls

LEMMA ReplayCounts ==
    ASSUME IInv, CountersAreFinite, NEW c \in Consumer,
           consumer[c].position < consumer[c].upto, topic[Offset(c)].valid,
           NEW i \in Entries(Current(c).payment), AcceptReplay(c, i),
           UNCHANGED <<topic, ledger, lost, committed, owner, faults>>
    PROVE  Answered(c) \/ Refused(c)
<1>1. CASE SameBusinessEvent(c, i)
  <2>1. Calls \in Nat /\ CountedEver \in Nat /\ Len(ledger) \in Nat
    BY CallsType DEF IInv, TypeOK
  <2>2. CountedEver' = CountedEver + 1
    BY <1>1, CountersGrow DEF AcceptReplay, IInv
  <2>3. Calls' = Calls + 1
    BY <2>1, <2>2 DEF Calls
  <2> QED BY <1>1, <2>3 DEF AcceptReplay, Answered
<1>2. CASE ~SameBusinessEvent(c, i)
  <2>1. /\ i \in DOMAIN ledger
        /\ ledger[i].payment = Current(c).payment
        /\ ledger[i].body # Current(c).body
    BY <1>2 DEF Entries, SameBusinessEvent
  <2>2. Conflicting(Offset(c))
    BY <2>1 DEF Conflicting, Current
  <2> QED BY <1>2, <2>2, CallsKept DEF AcceptReplay, Refused, Blameless
<1> QED BY <1>1, <1>2

\* Every step of the listener is one of these.
LEMMA CallKinds ==
    ASSUME IInv, CountersAreFinite, NEW c \in Consumer,
           \/ RejectMalformed(c) \/ LookUp(c) \/ InsertEntry(c)
           \/ ReadRaced(c) \/ InsertUnheard(c) \/ DatabaseFails(c)
    PROVE  /\ consumer[c].position < consumer[c].upto
           /\ Answered(c) \/ Refused(c) \/ Failed(c) \/ GoesOn(c)
<1>1. ~At(c, "idle") =>
        consumer[c].position < consumer[c].upto /\ topic[Offset(c)].valid
  BY DEF IInv, BatchesAreInTopic
<1>2. CASE RejectMalformed(c)
  BY <1>2, CallsKept DEF RejectMalformed, HasNext, Refused, Blameless
<1>3. CASE LookUp(c)
  <2>1. /\ consumer[c].position < consumer[c].upto
        /\ topic[Offset(c)].valid
        /\ UNCHANGED <<topic, ledger, lost, committed, owner, faults>>
    BY <1>3 DEF LookUp, HasNext
  <2>2. CASE GoTo(c, "insert") /\ UNCHANGED <<duplicates, skipped>>
    BY <2>1, <2>2, CallsKept DEF GoesOn
  <2>3. CASE \E i \in Entries(Current(c).payment) : AcceptReplay(c, i)
    BY <2>1, <2>3, ReplayCounts
  <2> QED BY <1>3, <2>1, <2>2, <2>3 DEF LookUp
<1>4. CASE InsertEntry(c)
  <2>1. At(c, "insert") /\ ~At(c, "idle")
    BY <1>4 DEF InsertEntry, At
  <2>2. CASE Entries(Current(c).payment) = {}
    BY <1>1, <1>4, <2>1, <2>2, AppendCounts DEF InsertEntry, Answered
  <2>3. CASE Entries(Current(c).payment) # {}
    BY <1>1, <1>4, <2>1, <2>3, CallsKept DEF InsertEntry, GoesOn
  <2> QED BY <2>2, <2>3
<1>5. CASE ReadRaced(c)
  <2>1. ~At(c, "idle")
    BY <1>5 DEF ReadRaced, At
  <2> QED BY <1>1, <1>5, <2>1, ReplayCounts DEF ReadRaced
<1>6. CASE InsertUnheard(c)
  <2>1. At(c, "insert") /\ ~At(c, "idle")
    BY <1>6 DEF InsertUnheard, At
  <2> QED BY <1>1, <1>6, <2>1, AppendCounts DEF InsertUnheard, Failed, Fault
<1>7. CASE DatabaseFails(c)
  <2>1. consumer[c].position < consumer[c].upto
    BY <1>1, <1>7 DEF DatabaseFails, HasNext, At
  <2> QED BY <1>7, <2>1, CallsKept DEF DatabaseFails, Failed, Fault
<1> QED BY <1>2, <1>3, <1>4, <1>5, <1>6, <1>7

\* Nothing is ever taken from the topic or from the ledger.
LEMMA StepGrows ==
    ASSUME IInv, [Next]_vars
    PROVE  Grows
<1>1. topic \in Seq(Payload) /\ ledger \in Seq(Event)
  BY DEF IInv, TypeOK
<1>2. CASE Produce
  BY <1>1, <1>2 DEF Produce, Grows
<1>3. CASE Evict \/ UNCHANGED vars
  BY <1>3 DEF Evict, vars, Grows
<1>4. ASSUME NEW c \in Consumer, InsertEntry(c) \/ InsertUnheard(c)
      PROVE  Grows
  <2>1. topic' = topic /\ (ledger' = ledger \/ ledger' = Append(ledger, Current(c)))
    BY <1>4 DEF InsertEntry, InsertUnheard
  <2>2. Current(c) \in Event
    <3>1. ~At(c, "idle")
      BY <1>4 DEF InsertEntry, InsertUnheard, At
    <3> QED BY <3>1, CurrentRecord DEF IInv, BatchesAreInTopic
  <2> QED BY <1>1, <2>1, <2>2 DEF Grows
<1>5. ASSUME NEW c \in Consumer,
             \/ Poll(c) \/ RejectMalformed(c) \/ LookUp(c) \/ ReadRaced(c)
             \/ CommitOffset(c) \/ DatabaseFails(c) \/ Crash(c) \/ Assign(c)
      PROVE  Grows
  BY <1>5 DEF Poll, RejectMalformed, LookUp, ReadRaced, CommitOffset,
              DatabaseFails, Crash, Assign, Grows
<1> QED BY <1>2, <1>3, <1>4, <1>5 DEF Next, Proceeds

\* A failure uses up one of the tries of a record that is not to blame.
LEMMA FailedTry ==
    ASSUME IInv, IInv', TriesAreFailures, Grows, NEW c \in Consumer,
           consumer[c].position < consumer[c].upto, Failed(c)
    PROVE  TriesAreFailures'
<1> DEFINE n == Cardinality(BlamelessSkips)  m == Cardinality(FailedTries)
           t == consumer[c].tries
<1>1. /\ IsFiniteSet(BlamelessSkips) /\ IsFiniteSet(FailedTries)
      /\ n \in Nat /\ m \in Nat
  BY CountedSets, FS_CardinalityType DEF IInv, TriesAreFailures
<1>2. /\ Attempts * n + m <= faults
      /\ faults \in Nat /\ faults' = faults + 1
      /\ Attempts \in Nat /\ Attempts > 0
      /\ t \in Nat /\ t < Attempts
  BY BoundsAssumption, ReplicaTypes DEF TriesAreFailures, Failed
<1>3. /\ Offset(c) \in DOMAIN topic
      /\ Offset(c) \in Nat
      /\ \A d \in Consumer : d # c => consumer'[d] = consumer[d]
      /\ consumer' \in [Consumer -> ConsumerState]
  BY CurrentRecord, ThrowsEffect, ReplicaTypes DEF IInv, Failed
<1>4. CASE ~Blameless(Offset(c))
  <2>1. \A o \in skipped' : o \in skipped \/ o = Offset(c)
    BY ThrowsCount DEF IInv, Failed
  <2>2. /\ consumer'[c].tries = 0
        \/ /\ consumer'[c].position = consumer[c].position
           /\ consumer'[c].tries < Attempts
    BY ThrowsCount DEF IInv, Failed
  <2>3. \A d \in Consumer : d # c =>
          /\ consumer'[d].position = consumer[d].position
          /\ consumer'[d].tries < Attempts
          /\ consumer'[d].tries <= consumer[d].tries
    BY <1>3, ReplicaTypes DEF TriesAreFailures
  <2> QED BY <1>2, <1>3, <1>4, <2>1, <2>2, <2>3, NoTryFails
<1>5. ASSUME NEW d \in Consumer, d # c
      PROVE  /\ consumer'[d].tries = consumer[d].tries
             /\ Offset(d)' = Offset(d)
             /\ consumer'[d].tries < Attempts
             /\ consumer'[d].tries > 0 => Offset(d)' \in DOMAIN topic'
  BY <1>3, <1>5 DEF TriesAreFailures, Grows, Offset
<1>6. ASSUME NEW d \in Consumer, NEW k \in 1..Attempts,
             <<d, k>> \in FailedTries', d # c
      PROVE  <<d, k>> \in FailedTries
  <2>1. k <= consumer[d].tries /\ Blameless(Offset(d))'
    BY <1>5, <1>6 DEF FailedTries
  <2>2. PICK o : o = Offset(d)
    OBVIOUS
  <2>3. o \in DOMAIN topic /\ Offset(d)' = o
    BY <1>2, <1>5, <1>6, <2>1, <2>2, ReplicaTypes DEF TriesAreFailures
  <2>4. Blameless(o)'
    BY <2>1, <2>3 DEF Blameless, Conflicting
  <2>5. Blameless(o)
    BY <2>3, <2>4, BlameStays
  <2> QED BY <1>6, <2>1, <2>2, <2>5 DEF FailedTries
<1>7. \A x \in FailedTries' : \E d \in Consumer, k \in 1..Attempts : x = <<d, k>>
  BY DEF FailedTries
<1>8. ASSUME NEW o \in BlamelessSkips' PROVE o \in BlamelessSkips \/ o \notin skipped
  BY <1>8, BlameStays DEF BlamelessSkips, IInv, OffsetsAreInTopic
<1>9. CASE Blameless(Offset(c)) /\ t + 1 < Attempts
  <2>1. /\ consumer'[c].tries = t + 1
        /\ Offset(c)' = Offset(c)
        /\ skipped' = skipped
    BY <1>9, ThrowsCount DEF IInv, Failed, Offset
  <2>2. FailedTries' \subseteq FailedTries \cup {<<c, t + 1>>}
    <3>1. ASSUME NEW k \in 1..Attempts, <<c, k>> \in FailedTries'
          PROVE  <<c, k>> \in FailedTries \cup {<<c, t + 1>>}
      <4>1. k <= t + 1
        BY <2>1, <3>1 DEF FailedTries
      <4> QED BY <1>2, <1>9, <4>1 DEF FailedTries
    <3> QED BY <1>6, <1>7, <3>1
  <2>3. /\ IsFiniteSet(FailedTries')
        /\ m' \in Nat /\ m' <= m + 1
    BY <1>1, <2>2, OneMoreCount
  <2>4. n' \in Nat /\ n' <= n
    <3>1. BlamelessSkips' \subseteq BlamelessSkips
      BY <1>8, <2>1 DEF BlamelessSkips
    <3> QED BY <1>1, <3>1, SubsetCount
  <2>5. /\ Attempts * n \in Nat /\ Attempts * n' \in Nat
        /\ Attempts * n' <= Attempts * n
    BY <1>1, <1>2, <2>4, Times
  <2>6. Attempts * n' + m' <= faults'
    BY <1>1, <1>2, <2>3, <2>5
  <2>7. \A d \in Consumer :
          /\ consumer'[d].tries < Attempts
          /\ consumer'[d].tries > 0 => Offset(d)' \in DOMAIN topic'
    BY <1>3, <1>5, <1>9, <2>1 DEF Grows
  <2> QED BY <2>3, <2>6, <2>7 DEF TriesAreFailures
<1>10. CASE Blameless(Offset(c)) /\ ~(t + 1 < Attempts)
  <2> DEFINE spent == {c} \X (1..t)
  <2>1. /\ consumer'[c].tries = 0
        /\ skipped' = skipped \cup {Offset(c)}
        /\ t = Attempts - 1
    BY <1>2, <1>10, ThrowsCount DEF IInv, Failed
  <2>2. spent \subseteq FailedTries
    BY <1>2, <1>10 DEF FailedTries
  <2>3. FailedTries' \subseteq FailedTries \ spent
    <3>1. ASSUME NEW k \in 1..Attempts PROVE <<c, k>> \notin FailedTries'
      BY <1>2, <2>1 DEF FailedTries
    <3> QED BY <1>6, <1>7, <3>1
  <2>4. Cardinality(spent) = t
    <3>1. 1 \in Int /\ t \in Int /\ (IF 1 > t THEN 0 ELSE t - 1 + 1) = t
      BY <1>2
    <3> HIDE DEF t
    <3> QED BY <3>1, RowCount
  <2>5. /\ IsFiniteSet(FailedTries \ spent)
        /\ Cardinality(FailedTries \ spent) = m - Cardinality(FailedTries \cap spent)
    BY <1>1, FS_Difference
  <2>6. FailedTries \cap spent = spent
    BY <2>2
  <2>7. /\ IsFiniteSet(FailedTries')
        /\ m' \in Nat /\ m' <= m - t
    <3> HIDE DEF spent
    <3>1. Cardinality(FailedTries \ spent) = m - t
      BY <2>4, <2>5, <2>6
    <3> QED BY <2>3, <2>5, <3>1, SubsetCount
  <2>8. n' \in Nat /\ n' <= n + 1
    <3>1. BlamelessSkips' \subseteq BlamelessSkips \cup {Offset(c)}
      BY <1>8, <2>1 DEF BlamelessSkips
    <3> QED BY <1>1, <3>1, OneMoreCount
  <2>9. /\ Attempts * n \in Nat /\ Attempts * n' \in Nat
        /\ Attempts * n' <= Attempts * n + Attempts
    <3>1. n + 1 \in Nat
      BY <1>1
    <3> QED BY <1>1, <1>2, <2>8, <3>1, Times
  <2>10. Attempts * n' + m' <= faults'
    BY <1>1, <1>2, <2>1, <2>7, <2>9
  <2>11. \A d \in Consumer :
          /\ consumer'[d].tries < Attempts
          /\ consumer'[d].tries > 0 => Offset(d)' \in DOMAIN topic'
    BY <1>2, <1>5, <2>1
  <2> QED BY <2>7, <2>10, <2>11 DEF TriesAreFailures
<1> QED BY <1>4, <1>9, <1>10

LEMMA ReturnsCount ==
    ASSUME TypeOK, NEW c \in Consumer, Returns(c)
    PROVE  consumer'[c].tries = 0
  BY DEF TypeOK, Returns, ConsumerState

\* A call that goes on leaves its replica where it is.
LEMMA GoesOnEffect ==
    ASSUME TypeOK, NEW c \in Consumer, GoesOn(c)
    PROVE  \A d \in Consumer : /\ consumer'[d].position = consumer[d].position
                               /\ consumer'[d].upto = consumer[d].upto
                               /\ consumer'[d].tries = consumer[d].tries
  BY DEF TypeOK, GoesOn, GoTo, ConsumerState

\* The other steps of a replica leave it between two calls.
LEMMA PollEffect ==
    ASSUME IInv, NEW c \in Consumer, Poll(c)
    PROVE  /\ \A d \in Consumer : d # c => consumer'[d] = consumer[d]
           /\ consumer'[c].position = consumer[c].position
           /\ consumer'[c].tries = consumer[c].tries
           /\ UNCHANGED <<topic, ledger, duplicates, lost, committed, owner,
                          skipped, faults>>
<1>1. consumer \in [Consumer -> ConsumerState]
  BY DEF IInv, TypeOK
<1>2. consumer' = [consumer EXCEPT ![c].upto = Len(topic)]
  BY DEF Poll
<1>3. /\ \A d \in Consumer : d # c => consumer'[d] = consumer[d]
      /\ consumer'[c].position = consumer[c].position
      /\ consumer'[c].tries = consumer[c].tries
  BY <1>1, <1>2 DEF ConsumerState
<1> QED BY <1>3 DEF Poll

LEMMA CrashEffect ==
    ASSUME IInv, NEW c \in Consumer, Crash(c)
    PROVE  /\ \A d \in Consumer : d # c => consumer'[d] = consumer[d]
           /\ consumer'[c] = Started
           /\ faults' = faults + 1
           /\ owner' = IF owner = c THEN Nobody ELSE owner
           /\ duplicates' = [duplicates EXCEPT ![c] = 0]
           /\ lost' = lost + duplicates[c]
           /\ UNCHANGED <<topic, ledger, committed, skipped>>
<1>1. consumer \in [Consumer -> ConsumerState]
  BY DEF IInv, TypeOK
<1> QED BY <1>1 DEF Crash, Fault

LEMMA AssignEffect ==
    ASSUME IInv, NEW c \in Consumer, Assign(c)
    PROVE  /\ \A d \in Consumer : d # c => consumer'[d] = consumer[d]
           /\ consumer'[c].position = committed
           /\ consumer'[c].upto = committed
           /\ \/ consumer'[c].tries = 0
              \/ /\ consumer[c].position = committed
                 /\ consumer'[c].tries = consumer[c].tries
           /\ owner = Nobody /\ owner' = c
           /\ UNCHANGED <<topic, ledger, duplicates, lost, committed, skipped, faults>>
<1>1. consumer \in [Consumer -> ConsumerState]
  BY DEF IInv, TypeOK
<1>2. PICK tries \in {0, consumer[c].tries} :
        /\ consumer[c].position # committed => tries = 0
        /\ consumer' = [consumer EXCEPT ![c] = [stage    |-> "idle",
                                                position |-> committed,
                                                upto     |-> committed,
                                                tries    |-> tries]]
  BY DEF Assign
<1>3. /\ \A d \in Consumer : d # c => consumer'[d] = consumer[d]
      /\ consumer'[c].position = committed
      /\ consumer'[c].upto = committed
      /\ consumer'[c].tries = tries
  BY <1>1, <1>2
<1> QED BY <1>2, <1>3 DEF Assign

\* A crash takes nothing from what was counted.
LEMMA CrashKeepsCalls ==
    ASSUME IInv, CountersAreFinite, NEW c \in Consumer, Crash(c)
    PROVE  CountersAreFinite' /\ Calls' = Calls
<1>1. CountersAreFinite' /\ CountedEver' = CountedEver
  BY CrashEffect, CountersLost DEF IInv
<1> QED BY <1>1, CrashEffect DEF Calls

\* Every step leaves the counters finite.
LEMMA StepKeepsCounters ==
    ASSUME IInv, CountersAreFinite, [Next]_vars
    PROVE  CountersAreFinite'
<1>1. ASSUME UNCHANGED <<duplicates, lost>> PROVE CountersAreFinite'
  BY <1>1, CountersKept DEF CountersAreFinite
<1>2. ASSUME NEW c \in Consumer, NEW i, AcceptReplay(c, i), lost' = lost
      PROVE  CountersAreFinite'
  <2>1. CASE SameBusinessEvent(c, i)
    BY <1>2, <2>1, CountersGrow DEF AcceptReplay, IInv
  <2>2. CASE ~SameBusinessEvent(c, i)
    BY <1>1, <1>2, <2>2 DEF AcceptReplay
  <2> QED BY <2>1, <2>2
<1>3. CASE Produce \/ Evict \/ UNCHANGED vars
  BY <1>1, <1>3 DEF Produce, Evict, vars
<1>4. ASSUME NEW c \in Consumer, LookUp(c) \/ ReadRaced(c)
      PROVE  CountersAreFinite'
  BY <1>1, <1>2, <1>4 DEF LookUp, ReadRaced
<1>5. ASSUME NEW c \in Consumer, Crash(c)
      PROVE  CountersAreFinite'
  BY <1>5, CrashKeepsCalls
<1>6. ASSUME NEW c \in Consumer,
             \/ Poll(c) \/ RejectMalformed(c) \/ InsertEntry(c)
             \/ CommitOffset(c) \/ InsertUnheard(c) \/ DatabaseFails(c)
             \/ Assign(c)
      PROVE  CountersAreFinite'
  BY <1>1, <1>6 DEF Poll, RejectMalformed, InsertEntry, CommitOffset,
                    InsertUnheard, DatabaseFails, Assign
<1> QED BY <1>3, <1>4, <1>5, <1>6 DEF Next, Proceeds

\* Every step keeps the count of the failed tries.
LEMMA StepKeepsTries ==
    ASSUME IInv, IInv', CountersAreFinite, TriesAreFailures, [Next]_vars
    PROVE  TriesAreFailures'
<1>1. /\ Grows
      /\ consumer' \in [Consumer -> ConsumerState]
      /\ consumer \in [Consumer -> ConsumerState]
      /\ faults \in Nat /\ faults' \in Nat
  BY StepGrows, BoundsAssumption DEF IInv, TypeOK
<1>2. \A d \in Consumer : consumer[d].tries \in Nat /\ consumer[d].tries < Attempts
  BY ReplicaTypes DEF TriesAreFailures
<1>3. ASSUME faults <= faults', skipped' = skipped,
             \A d \in Consumer :
               \/ consumer'[d].tries = 0
               \/ /\ consumer'[d].position = consumer[d].position
                  /\ consumer'[d].tries = consumer[d].tries
      PROVE  TriesAreFailures'
  BY <1>1, <1>2, <1>3, NoTryFails
<1>4. CASE Produce \/ Evict \/ UNCHANGED vars
  BY <1>1, <1>3, <1>4 DEF Produce, Evict, Fault, vars
<1>5. ASSUME NEW c \in Consumer, Poll(c) \/ Crash(c) \/ Assign(c)
      PROVE  TriesAreFailures'
  <2>1. CASE Poll(c)
    BY <1>1, <1>3, <2>1, PollEffect
  <2>2. CASE Crash(c)
    BY <1>1, <1>3, <2>2, CrashEffect DEF Started
  <2>3. CASE Assign(c)
    BY <1>1, <1>3, <2>3, AssignEffect
  <2> QED BY <1>5, <2>1, <2>2, <2>3
<1>6. ASSUME NEW c \in Consumer, CommitOffset(c)
      PROVE  TriesAreFailures'
  BY <1>1, <1>3, <1>6 DEF CommitOffset
<1>7. ASSUME NEW c \in Consumer,
             \/ RejectMalformed(c) \/ LookUp(c) \/ InsertEntry(c)
             \/ ReadRaced(c) \/ InsertUnheard(c) \/ DatabaseFails(c)
      PROVE  TriesAreFailures'
  <2>1. consumer[c].position < consumer[c].upto
    BY <1>7, CallKinds
  <2>2. CASE Answered(c)
    <3>1. /\ \A d \in Consumer : d # c => consumer'[d] = consumer[d]
          /\ consumer'[c].tries = 0
          /\ skipped' = skipped
      BY <2>2, ReturnsEffect, ReturnsCount DEF Answered, IInv
    <3> QED BY <1>1, <1>3, <2>2, <3>1 DEF Answered
  <2>3. CASE Refused(c)
    <3>1. Offset(c) \in DOMAIN topic /\ ~Blameless(Offset(c))
      BY <2>1, <2>3, CurrentRecord DEF IInv, Refused
    <3>2. \A d \in Consumer : d # c => consumer'[d] = consumer[d]
      BY <2>3, ThrowsEffect DEF Refused, IInv
    <3>3. /\ \A o \in skipped' : o \in skipped \/ o = Offset(c)
          /\ \/ consumer'[c].tries = 0
             \/ /\ consumer'[c].position = consumer[c].position
                /\ consumer'[c].tries < Attempts
      BY <2>3, ThrowsCount DEF Refused, IInv
    <3>4. \A d \in Consumer :
            \/ consumer'[d].tries = 0
            \/ /\ consumer'[d].position = consumer[d].position
               /\ consumer'[d].tries < Attempts
               /\ \/ consumer'[d].tries <= consumer[d].tries
                  \/ Offset(d) \in DOMAIN topic /\ ~Blameless(Offset(d))
      BY <1>2, <3>1, <3>2, <3>3
    <3>5. faults' = faults
      BY <2>3 DEF Refused
    <3> QED BY <1>1, <3>1, <3>3, <3>4, <3>5, NoTryFails
  <2>4. CASE Failed(c)
    BY <1>1, <2>1, <2>4, FailedTry
  <2>5. CASE GoesOn(c)
    <3>1. faults' = faults /\ skipped' = skipped
      BY <2>5 DEF GoesOn
    <3> QED BY <1>1, <1>3, <2>5, <3>1, GoesOnEffect DEF IInv
  <2> QED BY <1>7, <2>2, <2>3, <2>4, <2>5, CallKinds
<1> QED BY <1>4, <1>5, <1>6, <1>7 DEF Next, Proceeds

(***************************************************************************)
(* Passed records.                                                         *)
(***************************************************************************)

\* The group and the replicas go past no record that they had not passed or
\* that is not skipped.
LEMMA PassedNoMore ==
    ASSUME IInv, IInv', CountersAreFinite, CountersAreFinite', PassedIsCounted,
           Calls <= Calls', skipped \subseteq skipped', Grows,
           \A o \in DOMAIN topic :
               \/ o <= committed' /\ ~(o <= committed)
               \/ \E d \in Consumer :
                    o <= consumer'[d].position /\ ~(o <= consumer[d].position)
               => o \in skipped' \/ o \in Passed,
           committed' <= Len(topic),
           \A d \in Consumer : consumer'[d].position <= Len(topic)
    PROVE  PassedIsCounted'
<1>1. Passed' \subseteq Passed
  <2> SUFFICES ASSUME NEW o \in DOMAIN topic', o \notin skipped',
                      o <= committed' \/ \E d \in Consumer : o <= consumer'[d].position
               PROVE  o \in Passed
    BY DEF Passed
  <2>1. o \in DOMAIN topic
    <3>1. /\ topic \in Seq(Payload) /\ topic' \in Seq(Payload)
          /\ committed' \in Nat
          /\ \A d \in Consumer : consumer'[d].position \in Nat
      BY DEF IInv, TypeOK, ConsumerState
    <3> QED BY <3>1
  <2> QED BY <2>1 DEF Passed
<1>2. IsFiniteSet(Passed)
  BY CountedSets DEF IInv
<1>3. /\ Cardinality(Passed') \in Nat /\ Cardinality(Passed) \in Nat
      /\ Cardinality(Passed') <= Cardinality(Passed)
  BY <1>1, <1>2, SubsetCount
<1>4. Calls \in Nat /\ Calls' \in Nat
  BY CallsType, CallsTypeNext DEF IInv
<1> QED BY <1>3, <1>4 DEF PassedIsCounted, Calls

\* An answered call passes one record and is counted.
LEMMA AnsweredIsCounted ==
    ASSUME IInv, IInv', CountersAreFinite, PassedIsCounted, NEW c \in Consumer, Answered(c)
    PROVE  PassedIsCounted'
<1>1. /\ \A d \in Consumer : d # c => consumer'[d] = consumer[d]
      /\ consumer'[c].position = Offset(c)
      /\ UNCHANGED <<topic, committed, skipped>>
      /\ Calls' = Calls + 1
  BY ReturnsEffect DEF Answered, IInv
<1>2. Passed' \subseteq Passed \cup {Offset(c)}
  <2> SUFFICES ASSUME NEW o \in DOMAIN topic, o # Offset(c), NEW d \in Consumer,
                      o <= consumer'[d].position
               PROVE  \E e \in Consumer : o <= consumer[e].position
    BY <1>1 DEF Passed
  <2>1. CASE d = c
    <3>1. o \in Nat /\ o <= Offset(c)
      BY <1>1, <2>1, ReplicaTypes
    <3>2. o <= consumer[c].position
      BY <3>1, ReplicaTypes
    <3> QED BY <3>2
  <2> QED BY <1>1, <2>1
<1>3. IsFiniteSet(Passed)
  BY CountedSets DEF IInv
<1>4. /\ Cardinality(Passed') \in Nat /\ Cardinality(Passed) \in Nat
      /\ Cardinality(Passed') <= Cardinality(Passed) + 1
  BY <1>2, <1>3, OneMoreCount
<1>5. Calls \in Nat
  BY CallsType DEF IInv
<1> QED BY <1>1, <1>4, <1>5 DEF PassedIsCounted, Calls

\* Every step keeps the count of the passed records.
LEMMA StepKeepsPassed ==
    ASSUME IInv, IInv', CountersAreFinite, CountersAreFinite', PassedIsCounted,
           [Next]_vars
    PROVE  PassedIsCounted'
<1>1. /\ Grows
      /\ Calls \in Nat
      /\ committed \in Nat /\ committed <= Len(topic) /\ Len(topic) \in Nat
      /\ \A d \in Consumer : /\ consumer[d].position \in Nat
                             /\ consumer[d].position <= Len(topic)
  <2>1. \A d \in Consumer : /\ consumer[d].position \in Nat
                            /\ consumer[d].position <= Len(topic)
    BY ReplicaTypes
  <2>2. Calls \in Nat /\ committed \in Nat /\ Len(topic) \in Nat
    BY CallsType DEF IInv, TypeOK
  <2> QED BY <2>1, <2>2, StepGrows DEF IInv, OffsetsAreInTopic
<1>2. DOMAIN topic = 1..Len(topic)
  BY DEF IInv, TypeOK
<1>3. ASSUME Calls' = Calls, skipped' = skipped,
             committed' = committed \/ \E d \in Consumer : committed' = consumer[d].position,
             \A d \in Consumer : \/ consumer'[d].position = consumer[d].position
                                 \/ consumer'[d].position \in {0, committed}
      PROVE  PassedIsCounted'
  <2>1. Calls' = Calls
    BY <1>3
  <2>2. ASSUME NEW o \in DOMAIN topic,
               \/ o <= committed' /\ ~(o <= committed)
               \/ \E d \in Consumer :
                    o <= consumer'[d].position /\ ~(o <= consumer[d].position),
               o \notin skipped'
        PROVE  o \in Passed
    <3>1. o <= committed \/ \E d \in Consumer : o <= consumer[d].position
      BY <1>1, <1>2, <1>3, <2>2
    <3> QED BY <1>3, <2>2, <3>1 DEF Passed
  <2>3. /\ committed' <= Len(topic)
        /\ \A d \in Consumer : consumer'[d].position <= Len(topic)
    BY <1>1, <1>3
  <2>4. Calls <= Calls'
    BY <1>1, <2>1
  <2> QED BY <1>1, <1>3, <2>2, <2>3, <2>4, PassedNoMore
<1>4. CASE Produce \/ Evict \/ UNCHANGED vars
  BY <1>3, <1>4, CallsKept DEF Produce, Evict, vars
<1>5. ASSUME NEW c \in Consumer, Poll(c) \/ Crash(c) \/ Assign(c)
      PROVE  PassedIsCounted'
  <2>1. CASE Poll(c)
    BY <1>3, <2>1, PollEffect, CallsKept
  <2>2. CASE Crash(c)
    BY <1>3, <2>2, CrashEffect, CrashKeepsCalls DEF Started
  <2>3. CASE Assign(c)
    BY <1>3, <2>3, AssignEffect, CallsKept
  <2> QED BY <1>5, <2>1, <2>2, <2>3
<1>6. ASSUME NEW c \in Consumer, CommitOffset(c)
      PROVE  PassedIsCounted'
  BY <1>3, <1>6, CallsKept DEF CommitOffset
<1>7. ASSUME NEW c \in Consumer,
             \/ RejectMalformed(c) \/ LookUp(c) \/ InsertEntry(c)
             \/ ReadRaced(c) \/ InsertUnheard(c) \/ DatabaseFails(c)
      PROVE  PassedIsCounted'
  <2>1. consumer[c].position < consumer[c].upto
    BY <1>7, CallKinds
  <2>2. CASE Answered(c)
    BY <2>2, AnsweredIsCounted
  <2>3. CASE Refused(c) \/ Failed(c)
    <3>1. /\ \A d \in Consumer : d # c => consumer'[d] = consumer[d]
          /\ \/ consumer'[c].position = consumer[c].position /\ skipped' = skipped
             \/ /\ consumer'[c].position = Offset(c)
                /\ skipped' = skipped \cup {Offset(c)}
      BY <2>3, ThrowsEffect DEF Refused, Failed, IInv
    <3>2. committed' = committed /\ Calls <= Calls' /\ skipped \subseteq skipped'
      BY <1>1, <2>3, <3>1 DEF Refused, Failed
    <3>3. Offset(c) = consumer[c].position + 1 /\ Offset(c) <= Len(topic)
      BY <2>1, ReplicaTypes
    <3>4. ASSUME NEW o \in DOMAIN topic, NEW d \in Consumer,
                 o <= consumer'[d].position, ~(o <= consumer[d].position)
          PROVE  o \in skipped'
      <4>1. d = c /\ consumer'[c].position = Offset(c)
        BY <3>1, <3>4
      <4>2. o = Offset(c)
        BY <1>1, <1>2, <3>3, <3>4, <4>1
      <4>3. consumer'[c].position # consumer[c].position
        BY <1>1, <3>3, <4>1
      <4> QED BY <3>1, <4>2, <4>3
    <3>5. \A d \in Consumer : consumer'[d].position <= Len(topic)
      BY <1>1, <3>1, <3>3
    <3> QED BY <1>1, <3>2, <3>4, <3>5, PassedNoMore
  <2>4. CASE GoesOn(c)
    <3>1. /\ \A d \in Consumer : consumer'[d].position = consumer[d].position
          /\ committed' = committed /\ skipped' = skipped /\ Calls' = Calls
      BY <2>4, GoesOnEffect DEF GoesOn, IInv
    <3> QED BY <1>1, <3>1, PassedNoMore
  <2> QED BY <1>7, <2>2, <2>3, <2>4, CallKinds
<1> QED BY <1>4, <1>5, <1>6, <1>7 DEF Next, Proceeds

(***************************************************************************)
(* Calls.  A call is paid for by a step of the owner, by what a replica    *)
(* without the partition has left of its batch, or by a failure.           *)
(***************************************************************************)

LEMMA PositionType ==
    ASSUME IInv
    PROVE  /\ Position \in Nat /\ Position <= Len(topic)
           /\ \A c \in Consumer : owner = c => Position = consumer[c].position
           /\ owner = Nobody => Position = committed
<1>1. owner \in Consumer \cup {Nobody}
  BY DEF IInv, TypeOK
<1>2. CASE owner = Nobody
  BY <1>2, NobodyAssumption DEF Position, IInv, TypeOK, OffsetsAreInTopic
<1>3. CASE owner \in Consumer
  BY <1>3, NobodyAssumption, ReplicaTypes DEF Position
<1> QED BY <1>1, <1>2, <1>3

LEMMA Balance ==
    ASSUME NEW c1 \in Nat, NEW s1 \in Nat, NEW m1 \in Nat, NEW p1 \in Nat,
           NEW c2 \in Nat, NEW s2 \in Nat, NEW m2 \in Nat, NEW p2 \in Nat,
           NEW a \in Nat, NEW b \in Nat, NEW e \in Nat,
           c2 + s2 + m2 + p1 <= c1 + s1 + m1 + p2 + e,
           c1 + s1 + m1 <= p1 + a, a + e <= b
    PROVE  c2 + s2 + m2 <= p2 + b
  OBVIOUS

\* A step that spends no more than it brings in keeps the bound; a failure
\* brings in as much as the topic has records.
LEMMA BudgetKeeps ==
    ASSUME IInv, IInv', CountersAreFinite, CountersAreFinite', CountedIsPassed,
           IsFiniteSet(Leftover'), committed' <= Position', Len(topic) <= Len(topic)',
           NEW n \in {0, 1}, faults' = faults + n,
           Calls' + Cardinality(skipped') + Cardinality(Leftover') + Position
             <= Calls + Cardinality(skipped) + Cardinality(Leftover) + Position'
                + n * Len(topic)
    PROVE  CountedIsPassed'
<1> DEFINE s == Cardinality(skipped)  m == Cardinality(Leftover)  k == Len(topic)
<1>1. /\ s \in Nat /\ s' \in Nat /\ m \in Nat /\ m' \in Nat
      /\ Calls \in Nat /\ Calls' \in Nat
      /\ Position \in Nat /\ Position' \in Nat
  <2>1. s \in Nat /\ s' \in Nat
    <3>1. IsFiniteSet(skipped)
      BY CountedSets DEF IInv
    <3>2. skipped' \subseteq DOMAIN topic' /\ IsFiniteSet(DOMAIN topic')
      <4>1. DOMAIN topic' = 1..Len(topic)' /\ Len(topic)' \in Nat
        BY DEF IInv, TypeOK
      <4>2. skipped' \subseteq DOMAIN topic'
        BY DEF IInv, OffsetsAreInTopic
      <4> QED BY <4>1, <4>2, FS_Interval
    <3> QED BY <3>1, <3>2, SubsetCount, FS_CardinalityType
  <2>2. m \in Nat /\ m' \in Nat
    BY FS_CardinalityType DEF CountedIsPassed
  <2>3. Calls \in Nat /\ Calls' \in Nat
    BY CallsType, CallsTypeNext DEF IInv
  <2>4. Position \in Nat
    BY PositionType
  <2>5. Position' \in Nat
    <3>1. /\ owner' \in Consumer \cup {Nobody}
          /\ committed' \in Nat
          /\ \A c \in Consumer : consumer'[c].position \in Nat
      BY DEF IInv, TypeOK, ConsumerState
    <3> QED BY <3>1, NobodyAssumption DEF Position
  <2> QED BY <2>1, <2>2, <2>3, <2>4, <2>5
<1>2. /\ faults \in Nat /\ faults' \in Nat
      /\ k \in Nat /\ k' \in Nat /\ k <= k'
  BY BoundsAssumption DEF IInv, TypeOK
<1>3. Calls + s + m <= Position + faults * k
  <2>1. Len(ledger) + CountedEver + Cardinality(skipped) + Cardinality(Leftover)
            <= Position + faults * Len(topic)
    BY DEF CountedIsPassed
  <2> QED BY <2>1 DEF Calls
<1>4. faults * k + n * k <= faults' * k'
  <2>1. /\ faults * k \in Nat /\ faults' * k \in Nat /\ faults' * k' \in Nat
        /\ faults' * k <= faults' * k'
    BY <1>2, Times
  <2>2. faults' * k = faults * k + n * k
    <3>1. CASE n = 0
      BY <1>2, <3>1
    <3>2. CASE n = 1
      BY <1>2, <3>2
    <3> QED BY <3>1, <3>2
  <2> QED BY <2>1, <2>2
<1>5. Calls' + s' + m' <= Position' + faults' * k'
  <2>1. PICK a \in Nat, b \in Nat, e \in Nat :
            a = faults * k /\ b = faults' * k' /\ e = n * k
    BY <1>2, Times
  <2>2. Calls' + s' + m' + Position <= Calls + s + m + Position' + e
    BY <2>1
  <2>3. Calls + s + m <= Position + a /\ a + e <= b
    BY <1>3, <1>4, <2>1
  <2>4. Calls' + s' + m' <= Position' + b
    <3>1. PICK c2 \in Nat, s2 \in Nat, m2 \in Nat, p2 \in Nat :
              c2 = Calls' /\ s2 = s' /\ m2 = m' /\ p2 = Position'
      BY <1>1
    <3>2. PICK c1 \in Nat, s1 \in Nat, m1 \in Nat, p1 \in Nat :
              c1 = Calls /\ s1 = s /\ m1 = m /\ p1 = Position
      BY <1>1
    <3>3. c2 + s2 + m2 + p1 <= c1 + s1 + m1 + p2 + e
      BY <2>2, <3>1, <3>2
    <3>4. c1 + s1 + m1 <= p1 + a
      BY <2>3, <3>2
    <3>5. c2 + s2 + m2 <= p2 + b
      BY <2>3, <3>3, <3>4, Balance
    <3> QED BY <3>1, <3>5
  <2> QED BY <2>1, <2>4
<1>6. Len(ledger)' + CountedEver' + s' + m' <= Position' + faults' * k'
  BY <1>5 DEF Calls
<1> QED BY <1>6 DEF CountedIsPassed

\* A batch gets no longer, and a replica in one is where it was or further.
LEMMA LeftoverNoMore ==
    ASSUME IInv, IInv',
           \A d \in Consumer :
             \/ d = owner'
             \/ consumer'[d].upto <= consumer'[d].position
             \/ /\ d # owner
                /\ consumer[d].position <= consumer'[d].position
                /\ consumer'[d].upto <= consumer[d].upto
    PROVE  Leftover' \subseteq Leftover
<1>1. ASSUME NEW d \in Consumer, NEW o \in DOMAIN topic', d # owner',
             consumer'[d].position < o, o <= consumer'[d].upto
      PROVE  /\ d # owner
             /\ o \in DOMAIN topic
             /\ consumer[d].position < o
             /\ o <= consumer[d].upto
  <2>1. /\ DOMAIN topic' = 1..Len(topic)' /\ Len(topic)' \in Nat
        /\ consumer'[d].position \in Nat /\ consumer'[d].upto \in Nat
        /\ consumer'[d].upto <= Len(topic)'
    <3>1. /\ topic' \in Seq(Payload)
          /\ consumer' \in [Consumer -> ConsumerState]
          /\ consumer'[d].upto <= Len(topic)'
      BY DEF IInv, TypeOK, BatchesAreInTopic
    <3> QED BY <3>1 DEF ConsumerState
  <2>2. /\ d # owner
        /\ consumer[d].position <= consumer'[d].position
        /\ consumer'[d].upto <= consumer[d].upto
    BY <1>1, <2>1
  <2> QED BY <1>1, <2>1, <2>2, ReplicaTypes
<1> QED BY <1>1 DEF Leftover

\* What the call of a replica moves it by is taken from what it has left, or
\* is a step of the owner.
LEMMA CallMoves ==
    ASSUME IInv, IInv', CountedIsPassed, NEW c \in Consumer,
           consumer[c].position < consumer[c].upto,
           UNCHANGED <<topic, committed, owner>>,
           \A d \in Consumer : d # c =>
             /\ consumer'[d].position = consumer[d].position
             /\ consumer'[d].upto = consumer[d].upto,
           consumer'[c].upto <= consumer[c].upto,
           NEW n \in {0, 1}, consumer'[c].position = consumer[c].position + n
    PROVE  /\ IsFiniteSet(Leftover')
           /\ committed' <= Position'
           /\ Cardinality(Leftover') + n + Position
                <= Cardinality(Leftover) + Position'
<1>1. /\ Leftover' \subseteq Leftover
      /\ IsFiniteSet(Leftover)
      /\ Position \in Nat /\ committed \in Nat /\ committed <= Position
  <2>1. Leftover' \subseteq Leftover
    BY LeftoverNoMore, ReplicaTypes
  <2> QED BY <2>1, PositionType, ReplicaTypes DEF CountedIsPassed
<1>2. /\ IsFiniteSet(Leftover')
      /\ Cardinality(Leftover') \in Nat /\ Cardinality(Leftover) \in Nat
      /\ Cardinality(Leftover') <= Cardinality(Leftover)
  BY <1>1, SubsetCount
<1>3. CASE owner = c
  <2>1. Position = consumer[c].position /\ Position' = consumer[c].position + n
    BY <1>3, NobodyAssumption DEF Position
  <2> QED BY <1>1, <1>2, <2>1
<1>4. CASE owner # c
  <2>1. Position' = Position
    <3>1. owner \in Consumer \cup {Nobody}
      BY DEF IInv, TypeOK
    <3> QED BY <1>4, <3>1 DEF Position
  <2>2. CASE n = 0
    BY <1>1, <1>2, <2>1, <2>2
  <2>3. CASE n = 1
    <3>1. Offset(c) \in DOMAIN topic /\ Offset(c) <= consumer[c].upto
      BY CurrentRecord DEF IInv
    <3>2. consumer[c].position < Offset(c) /\ consumer'[c].position = Offset(c)
      BY <2>3, ReplicaTypes
    <3>3. <<c, Offset(c)>> \in Leftover
      BY <1>4, <3>1, <3>2 DEF Leftover
    <3>4. <<c, Offset(c)>> \notin Leftover'
      BY <3>2, ReplicaTypes DEF Leftover
    <3>5. Leftover' \subseteq Leftover \ {<<c, Offset(c)>>}
      BY <1>1, <3>4
    <3>6. /\ IsFiniteSet(Leftover \ {<<c, Offset(c)>>})
          /\ Cardinality(Leftover \ {<<c, Offset(c)>>}) = Cardinality(Leftover) - 1
      BY <1>1, <3>3, FS_RemoveElement
    <3>7. Cardinality(Leftover') <= Cardinality(Leftover) - 1
      BY <3>5, <3>6, SubsetCount
    <3> QED BY <1>1, <1>2, <2>1, <2>3, <3>7
  <2> QED BY <2>2, <2>3
<1> QED BY <1>3, <1>4

\* An eviction leaves the rest of the owner's batch to it.
LEMMA EvictCounts ==
    ASSUME IInv, IInv', CountersAreFinite, CountersAreFinite', CountedIsPassed,
           Evict
    PROVE  CountedIsPassed'
<1>1. /\ UNCHANGED <<topic, ledger, duplicates, lost, committed, consumer, skipped>>
      /\ owner # Nobody /\ owner' = Nobody /\ faults' = faults + 1
  BY DEF Evict, Fault
<1>2. PICK c \in Consumer : c = owner
  BY <1>1 DEF IInv, TypeOK
<1> DEFINE p == consumer[c].position  u == consumer[c].upto  left == {c} \X ((p + 1)..u)
<1>3. /\ p \in Nat /\ u \in Nat /\ p <= u /\ u <= Len(topic) /\ Len(topic) \in Nat
      /\ committed \in Nat
      /\ DOMAIN topic = 1..Len(topic)
  BY ReplicaTypes
<1>4. Position = p /\ Position' = committed /\ committed <= p
  BY <1>1, <1>2, NobodyAssumption DEF Position, CountedIsPassed
<1>5. Leftover' \subseteq Leftover \cup left
  <2>1. ASSUME NEW d \in Consumer, NEW o \in DOMAIN topic,
               consumer[d].position < o, o <= consumer[d].upto
        PROVE  <<d, o>> \in Leftover \/ (d = c /\ o \in (p + 1)..u)
    BY <1>2, <1>3, <2>1 DEF Leftover
  <2>2. ASSUME NEW x \in Leftover' PROVE x \in Leftover \cup left
    <3>1. PICK d \in Consumer, o \in DOMAIN topic :
            x = <<d, o>> /\ consumer[d].position < o /\ o <= consumer[d].upto
      BY <1>1 DEF Leftover
    <3> QED BY <2>1, <3>1
  <2> QED BY <2>2
<1>6. IsFiniteSet(left) /\ Cardinality(left) = u - p
  <2>1. /\ p + 1 \in Int /\ u \in Int
        /\ (IF p + 1 > u THEN 0 ELSE u - (p + 1) + 1) = u - p
    BY <1>3
  <2> HIDE DEF p, u
  <2> QED BY <2>1, RowCount
<1>7. /\ IsFiniteSet(Leftover')
      /\ Cardinality(Leftover') \in Nat /\ Cardinality(Leftover) \in Nat
      /\ Cardinality(Leftover') <= Cardinality(Leftover) + (u - p)
  <2> HIDE DEF left
  <2>1. /\ IsFiniteSet(Leftover \cup left)
        /\ Cardinality(Leftover \cup left)
             = Cardinality(Leftover) + Cardinality(left) - Cardinality(Leftover \cap left)
    BY <1>6, FS_Union DEF CountedIsPassed
  <2>2. Cardinality(Leftover \cap left) \in Nat /\ Cardinality(Leftover) \in Nat
    BY <1>6, FS_Intersection, FS_CardinalityType DEF CountedIsPassed
  <2>3. /\ IsFiniteSet(Leftover') /\ Cardinality(Leftover') \in Nat
        /\ Cardinality(Leftover') <= Cardinality(Leftover \cup left)
    BY <1>5, <2>1, SubsetCount
  <2> HIDE DEF p, u
  <2> QED BY <1>3, <1>6, <2>1, <2>2, <2>3
<1>8. /\ Calls' = Calls /\ Calls \in Nat
      /\ Cardinality(skipped') = Cardinality(skipped)
      /\ Cardinality(skipped) \in Nat
  BY <1>1, CountedSets, CallsKept, CallsType DEF IInv
<1>9. Calls' + Cardinality(skipped') + Cardinality(Leftover') + Position
        <= Calls + Cardinality(skipped) + Cardinality(Leftover) + Position'
           + 1 * Len(topic)
  BY <1>3, <1>4, <1>7, <1>8
<1>10. committed' <= Position' /\ Len(topic) <= Len(topic)'
  BY <1>1, <1>3, <1>4
<1> QED BY <1>1, <1>7, <1>9, <1>10, BudgetKeeps

\* A step that neither answers nor skips, and takes nothing from the owner.
LEMMA IdleKeeps ==
    ASSUME IInv, IInv', CountersAreFinite, CountersAreFinite', CountedIsPassed,
           Calls' = Calls, skipped' = skipped,
           Leftover' \subseteq Leftover, Len(topic) <= Len(topic)',
           committed' <= Position',
           \/ faults' = faults /\ Position' = Position
           \/ faults' = faults + 1 /\ Position <= Position' + Len(topic)
    PROVE  CountedIsPassed'
<1>1. /\ IsFiniteSet(Leftover') /\ Cardinality(Leftover') \in Nat
      /\ Cardinality(Leftover) \in Nat
      /\ Cardinality(Leftover') <= Cardinality(Leftover)
  BY SubsetCount DEF CountedIsPassed
<1>2. /\ Calls' = Calls /\ Calls \in Nat
      /\ Cardinality(skipped') = Cardinality(skipped)
      /\ Cardinality(skipped) \in Nat
  BY CountedSets, CallsType DEF IInv
<1>3. Position \in Nat /\ Len(topic) \in Nat
  BY PositionType DEF IInv, TypeOK
<1>4. Position' \in Nat
  <2>1. /\ owner' \in Consumer \cup {Nobody}
        /\ committed' \in Nat
        /\ \A c \in Consumer : consumer'[c].position \in Nat
    BY DEF IInv, TypeOK, ConsumerState
  <2> QED BY <2>1, NobodyAssumption DEF Position
<1>5. CASE faults' = faults /\ Position' = Position
  <2>1. /\ Calls' + Cardinality(skipped') + Cardinality(Leftover') + Position
             <= Calls + Cardinality(skipped) + Cardinality(Leftover) + Position'
                + 0 * Len(topic)
        /\ faults' = faults + 0
    BY <1>1, <1>2, <1>3, <1>5, BoundsAssumption DEF IInv, TypeOK
  <2> QED BY <1>1, <2>1, BudgetKeeps
<1>6. CASE faults' = faults + 1 /\ Position <= Position' + Len(topic)
  <2>1. Calls' + Cardinality(skipped') + Cardinality(Leftover') + Position
            <= Calls + Cardinality(skipped) + Cardinality(Leftover) + Position'
                + 1 * Len(topic)
    BY <1>1, <1>2, <1>3, <1>4, <1>6
  <2> QED BY <1>1, <1>6, <2>1, BudgetKeeps
<1> QED BY <1>5, <1>6

\* The end of a call keeps the bound.
LEMMA CallEndCounts ==
    ASSUME IInv, IInv', CountersAreFinite, CountersAreFinite', CountedIsPassed,
           NEW c \in Consumer, consumer[c].position < consumer[c].upto,
           Answered(c) \/ Refused(c) \/ Failed(c)
    PROVE  CountedIsPassed'
<1> DEFINE s == Cardinality(skipped)  m == Cardinality(Leftover)
<1>1. /\ UNCHANGED <<topic, committed, owner>>
      /\ \A d \in Consumer : d # c => consumer'[d] = consumer[d]
  BY ReturnsEffect, ThrowsEffect DEF Answered, Refused, Failed, IInv
<1>2. /\ consumer[c].position \in Nat /\ consumer[c].upto \in Nat
      /\ Offset(c) = consumer[c].position + 1
      /\ Offset(c) <= consumer[c].upto
      /\ Len(topic) \in Nat /\ Len(topic) >= 1
      /\ faults \in Nat
      /\ Calls \in Nat /\ Position \in Nat /\ IsFiniteSet(skipped) /\ s \in Nat
  <2>1. Calls \in Nat
    BY CallsType DEF IInv
  <2>2. IsFiniteSet(skipped) /\ s \in Nat
    BY CountedSets DEF IInv
  <2> QED BY <2>1, <2>2, ReplicaTypes, PositionType
<1>3. ASSUME NEW n \in {0, 1}, consumer'[c].position = consumer[c].position + n,
             consumer'[c].upto <= consumer[c].upto
      PROVE  /\ IsFiniteSet(Leftover') /\ m' \in Nat /\ m \in Nat
             /\ committed' <= Position' /\ Position' \in Nat
             /\ m' + n + Position <= m + Position'
  <2>1. /\ IsFiniteSet(Leftover') /\ committed' <= Position'
        /\ m' + n + Position <= m + Position'
    BY <1>1, <1>3, CallMoves
  <2>2. m' \in Nat /\ m \in Nat
    BY <2>1, FS_CardinalityType DEF CountedIsPassed
  <2>3. Position' \in Nat
    <3>1. /\ owner' \in Consumer \cup {Nobody} /\ committed' \in Nat
          /\ \A d \in Consumer : consumer'[d].position \in Nat
      BY DEF IInv, TypeOK, ConsumerState
    <3> QED BY <3>1, NobodyAssumption DEF Position
  <2> QED BY <2>1, <2>2, <2>3
<1>4. Len(topic) <= Len(topic)'
  BY <1>1, <1>2
<1>5. CASE Answered(c)
  <2>1. /\ consumer'[c].position = consumer[c].position + 1
        /\ consumer'[c].upto <= consumer[c].upto
        /\ skipped' = skipped
        /\ Calls' = Calls + 1
        /\ faults' = faults + 0
    BY <1>2, <1>5, ReturnsEffect DEF Answered, IInv
  <2>2. /\ IsFiniteSet(Leftover') /\ m' \in Nat /\ m \in Nat
        /\ committed' <= Position' /\ Position' \in Nat
        /\ m' + 1 + Position <= m + Position'
    BY <1>3, <2>1
  <2>3. Calls' + s' + m' + Position <= Calls + s + m + Position' + 0 * Len(topic)
    BY <1>2, <2>1, <2>2
  <2> QED BY <1>4, <2>1, <2>2, <2>3, BudgetKeeps
<1>6. CASE Refused(c) \/ Failed(c)
  <2>1. PICK n \in {0, 1} :
            /\ consumer'[c].position = consumer[c].position + n
            /\ consumer'[c].upto <= consumer[c].upto
            /\ n = 0 => skipped' = skipped
            /\ n = 1 => skipped' = skipped \cup {Offset(c)}
    <3>1. \/ /\ consumer'[c].position = consumer[c].position
             /\ consumer'[c].upto = consumer[c].position
             /\ skipped' = skipped
          \/ /\ consumer'[c].position = Offset(c)
             /\ consumer'[c].upto = Offset(c)
             /\ skipped' = skipped \cup {Offset(c)}
      BY <1>6, ThrowsCount DEF Refused, Failed, IInv
    <3>2. CASE consumer'[c].position = consumer[c].position /\ skipped' = skipped
      BY <1>2, <3>1, <3>2
    <3>3. CASE consumer'[c].position = Offset(c) /\ skipped' = skipped \cup {Offset(c)}
      BY <1>2, <3>1, <3>3
    <3> QED BY <3>1, <3>2, <3>3
  <2>2. /\ IsFiniteSet(Leftover') /\ m' \in Nat /\ m \in Nat
        /\ committed' <= Position' /\ Position' \in Nat
        /\ m' + n + Position <= m + Position'
    BY <1>3, <2>1
  <2>3. s' \in Nat /\ s' <= s + n
    <3>1. CASE n = 0
      BY <1>2, <2>1, <3>1
    <3>2. CASE n = 1
      BY <1>2, <2>1, <3>2, OneMoreCount
    <3> QED BY <3>1, <3>2
  <2>4. CASE Refused(c)
    <3>1. Calls' = Calls /\ faults' = faults + 0
      BY <1>2, <2>4 DEF Refused
    <3>2. Calls' + s' + m' + Position <= Calls + s + m + Position' + 0 * Len(topic)
      BY <1>2, <2>2, <2>3, <3>1
    <3> QED BY <1>4, <2>2, <3>1, <3>2, BudgetKeeps
  <2>5. CASE Failed(c)
    <3>1. Calls' \in {Calls, Calls + 1} /\ faults' = faults + 1
      BY <2>5 DEF Failed
    <3>2. Calls' + s' + m' + Position <= Calls + s + m + Position' + 1 * Len(topic)
      <4>1. CASE Calls' = Calls
        BY <1>2, <2>2, <2>3, <4>1
      <4>2. CASE Calls' = Calls + 1
        <5>1. PICK c1 \in Nat, s1 \in Nat, s2 \in Nat, m1 \in Nat, m2 \in Nat,
                   p1 \in Nat, p2 \in Nat, k \in Nat :
                /\ c1 = Calls /\ s1 = s /\ s2 = s' /\ m1 = m /\ m2 = m'
                /\ p1 = Position /\ p2 = Position' /\ k = Len(topic)
          BY <1>2, <2>2, <2>3
        <5>2. /\ m2 + n + p1 <= m1 + p2 /\ s2 <= s1 + n /\ k >= 1
              /\ 1 * Len(topic) = k
          BY <1>2, <2>2, <2>3, <5>1
        <5>3. (c1 + 1) + s2 + m2 + p1 <= c1 + s1 + m1 + p2 + k
          BY <5>2
        <5> QED BY <4>2, <5>1, <5>2, <5>3
      <4> QED BY <3>1, <4>1, <4>2
    <3> QED BY <1>4, <2>2, <3>1, <3>2, BudgetKeeps
  <2> QED BY <1>6, <2>4, <2>5
<1> QED BY <1>5, <1>6

\* Every step keeps the bound on the calls.
LEMMA StepKeepsCalls ==
    ASSUME IInv, IInv', CountersAreFinite, CountersAreFinite', CountedIsPassed,
           [Next]_vars
    PROVE  CountedIsPassed'
<1>1. /\ committed \in Nat /\ Len(topic) \in Nat /\ faults \in Nat
      /\ committed <= Position /\ Position \in Nat /\ Position <= Len(topic)
      /\ owner \in Consumer \cup {Nobody}
      /\ \A d \in Consumer : consumer[d].position \in Nat /\ consumer[d].upto \in Nat
  <2>1. Position \in Nat /\ Position <= Len(topic)
    BY PositionType
  <2>2. \A d \in Consumer : consumer[d].position \in Nat /\ consumer[d].upto \in Nat
    BY ReplicaTypes
  <2>3. /\ committed \in Nat /\ Len(topic) \in Nat /\ faults \in Nat
        /\ owner \in Consumer \cup {Nobody}
    BY BoundsAssumption DEF IInv, TypeOK
  <2> QED BY <2>1, <2>2, <2>3 DEF CountedIsPassed
<1>2. CASE Produce
  <2>1. /\ UNCHANGED <<ledger, duplicates, lost, committed, owner, consumer,
                       skipped, faults>>
        /\ Len(topic) <= Len(topic)'
    <3>1. topic \in Seq(Payload) /\ \E payload \in Payload : topic' = Append(topic, payload)
      BY <1>2 DEF Produce, IInv, TypeOK
    <3> QED BY <1>2, <3>1 DEF Produce
  <2>2. Leftover' \subseteq Leftover
    <3>1. \A d \in Consumer : /\ consumer[d].position <= consumer'[d].position
                              /\ consumer'[d].upto <= consumer[d].upto
      BY <1>1, <2>1
    <3> QED BY <2>1, <3>1, LeftoverNoMore
  <2>3. Position' = Position
    BY <2>1 DEF Position
  <2> QED BY <1>1, <2>1, <2>2, <2>3, CallsKept, IdleKeeps
<1>3. CASE UNCHANGED vars
  BY <1>3, CountersKept DEF vars, CountedIsPassed, Leftover, Position
<1>4. CASE Evict
  BY <1>4, EvictCounts
<1>5. ASSUME NEW c \in Consumer, Poll(c) PROVE CountedIsPassed'
  <2>1. /\ owner = c /\ owner # Nobody
        /\ \A d \in Consumer : d # c => consumer'[d] = consumer[d]
        /\ consumer'[c].position = consumer[c].position
        /\ UNCHANGED <<topic, ledger, duplicates, lost, committed, owner,
                       skipped, faults>>
    BY <1>5, PollEffect, NobodyAssumption DEF Poll
  <2>2. Leftover' \subseteq Leftover
    BY <1>1, <2>1, LeftoverNoMore
  <2>3. Position' = Position
    BY <2>1 DEF Position
  <2>4. Len(topic) <= Len(topic)'
    BY <1>1, <2>1
  <2> QED BY <1>1, <2>1, <2>2, <2>3, <2>4, CallsKept, IdleKeeps
<1>6. ASSUME NEW c \in Consumer, CommitOffset(c) PROVE CountedIsPassed'
  <2>1. /\ owner = c /\ owner # Nobody
        /\ committed' = consumer[c].position
        /\ UNCHANGED <<topic, ledger, duplicates, lost, owner, consumer, skipped, faults>>
    BY <1>6, NobodyAssumption DEF CommitOffset
  <2>2. Leftover' \subseteq Leftover
    BY <2>1 DEF Leftover
  <2>3. Position' = Position /\ Position = consumer[c].position
    BY <2>1 DEF Position
  <2>4. Len(topic) <= Len(topic)' /\ committed' <= Position'
    BY <1>1, <2>1, <2>3
  <2> QED BY <2>1, <2>2, <2>3, <2>4, CallsKept, IdleKeeps
<1>7. ASSUME NEW c \in Consumer, Crash(c) PROVE CountedIsPassed'
  <2>1. /\ \A d \in Consumer : d # c => consumer'[d] = consumer[d]
        /\ consumer'[c].position = 0 /\ consumer'[c].upto = 0
        /\ faults' = faults + 1
        /\ owner' = IF owner = c THEN Nobody ELSE owner
        /\ Calls' = Calls
        /\ UNCHANGED <<topic, committed, skipped>>
    BY <1>7, CrashEffect, CrashKeepsCalls DEF Started
  <2>2. \A d \in Consumer : d # c /\ d # owner' => d # owner
    BY <2>1
  <2>3. Leftover' \subseteq Leftover
    BY <1>1, <2>1, <2>2, LeftoverNoMore
  <2>4. Len(topic) <= Len(topic)'
    BY <1>1, <2>1
  <2>5. committed' <= Position' /\ Position <= Position' + Len(topic)
    <3>1. CASE owner = c
      <4>1. Position' = committed
        BY <2>1, <3>1, NobodyAssumption DEF Position
      <4> QED BY <1>1, <2>1, <4>1
    <3>2. CASE owner # c
      <4>1. Position' = Position
        BY <1>1, <2>1, <3>2 DEF Position
      <4> QED BY <1>1, <2>1, <4>1
    <3> QED BY <3>1, <3>2
  <2> QED BY <2>1, <2>3, <2>4, <2>5, IdleKeeps
<1>8. ASSUME NEW c \in Consumer, Assign(c) PROVE CountedIsPassed'
  <2>1. /\ \A d \in Consumer : d # c => consumer'[d] = consumer[d]
        /\ consumer'[c].position = committed
        /\ owner = Nobody /\ owner' = c /\ owner' # Nobody
        /\ UNCHANGED <<topic, ledger, duplicates, lost, committed, skipped, faults>>
    BY <1>8, AssignEffect, NobodyAssumption
  <2>2. Leftover' \subseteq Leftover
    BY <1>1, <2>1, NobodyAssumption, LeftoverNoMore
  <2>3. Position = committed /\ Position' = committed
    BY <2>1 DEF Position
  <2>4. Len(topic) <= Len(topic)' /\ committed' <= Position'
    BY <1>1, <2>1, <2>3
  <2> QED BY <2>1, <2>2, <2>3, <2>4, CallsKept, IdleKeeps
<1>9. ASSUME NEW c \in Consumer,
             \/ RejectMalformed(c) \/ LookUp(c) \/ InsertEntry(c)
             \/ ReadRaced(c) \/ InsertUnheard(c) \/ DatabaseFails(c)
      PROVE  CountedIsPassed'
  <2>1. consumer[c].position < consumer[c].upto
    BY <1>9, CallKinds
  <2>2. CASE GoesOn(c)
    <3>1. /\ \A d \in Consumer : /\ consumer'[d].position = consumer[d].position
                                 /\ consumer'[d].upto = consumer[d].upto
          /\ Calls' = Calls /\ UNCHANGED <<topic, committed, owner, skipped, faults>>
      BY <2>2, GoesOnEffect DEF GoesOn, IInv
    <3>2. Leftover' = Leftover
      BY <3>1 DEF Leftover
    <3>3. Position' = Position
      BY <1>1, <3>1 DEF Position
    <3>4. Len(ledger)' + CountedEver' = Len(ledger) + CountedEver
      BY <3>1 DEF Calls
    <3> QED BY <3>1, <3>2, <3>3, <3>4 DEF CountedIsPassed
  <2> QED BY <1>9, <2>1, <2>2, CallKinds, CallEndCounts
<1> QED BY <1>2, <1>3, <1>4, <1>5, <1>6, <1>7, <1>8, <1>9 DEF Next, Proceeds

(***************************************************************************)
(* What follows.                                                           *)
(***************************************************************************)

LEMMA CountInit ==
    ASSUME Init
    PROVE  CountInv
<1>1. \A c \in Consumer : /\ consumer[c].tries = 0
                          /\ consumer[c].position = 0 /\ consumer[c].upto = 0
  BY DEF Init, Started
<1>2. /\ topic = <<>> /\ ledger = <<>> /\ lost = 0 /\ committed = 0
      /\ duplicates = [c \in Consumer |-> 0]
      /\ skipped = {} /\ faults = 0 /\ owner = Nobody
      /\ DOMAIN topic = {} /\ Len(topic) = 0 /\ Len(ledger) = 0
  BY DEF Init
<1>3. /\ IsFiniteSet({}) /\ Cardinality({}) = 0
      /\ Attempts \in Nat /\ Attempts > 0
  BY FS_EmptySet, BoundsAssumption
<1>4. BlamelessSkips = {} /\ Passed = {} /\ Leftover = {}
  BY <1>2 DEF BlamelessSkips, Passed, Leftover
<1>5. FailedTries = {}
  BY <1>1, <1>3 DEF FailedTries
<1>6. Position = 0
  BY <1>2 DEF Position
<1>7. Counted = {}
  <2>1. 1..0 = {}
    OBVIOUS
  <2>2. \A c \in Consumer : duplicates[c] = 0
    BY <1>2
  <2> QED BY <2>1, <2>2, CountedMembers
<1>8. CountersAreFinite /\ CountedEver = 0
  BY <1>2, <1>3, <1>7 DEF CountersAreFinite, CountedEver
<1>9. TriesAreFailures
  BY <1>1, <1>2, <1>3, <1>4, <1>5 DEF TriesAreFailures
<1>10. PassedIsCounted
  BY <1>2, <1>3, <1>4, <1>8 DEF PassedIsCounted
<1>11. CountedIsPassed
  BY <1>2, <1>3, <1>4, <1>6, <1>8 DEF CountedIsPassed
<1> QED BY <1>8, <1>9, <1>10, <1>11 DEF CountInv

\* Each failed try at a record that is not to blame is a failure, each record
\* that was passed has been counted, and what was counted has been passed or
\* was delivered again after a failure.
THEOREM CountsHold == Spec => []CountInv
<1>1. Init => CountInv
  BY CountInit
<1>2. IInv /\ IInv' /\ CountInv /\ [Next]_vars => CountInv'
  BY StepKeepsCounters, StepKeepsTries, StepKeepsPassed, StepKeepsCalls DEF CountInv
<1> QED BY <1>1, <1>2, LedgerInvariant, PTL DEF Spec

\* TransactionService.acceptReplay: a record that is neither malformed nor in
\* conflict is given up on only after a failure on every attempt.
THEOREM SkipsHaveReasons == Spec => []SkippedForAReason
<1>1. IInv /\ CountInv => SkippedForAReason
  <2> SUFFICES ASSUME IInv, CountInv PROVE SkippedForAReason
    OBVIOUS
  <2>1. IsFiniteSet(FailedTries)
    BY DEF CountInv, TriesAreFailures
  <2>2. Cardinality(FailedTries) \in Nat /\ Cardinality(BlamelessSkips) \in Nat
    BY <2>1, FS_CardinalityType, CountedSets DEF IInv
  <2>3. Attempts * Cardinality(BlamelessSkips) \in Nat /\ faults \in Nat
    BY <2>2, BoundsAssumption, Times DEF IInv, TypeOK
  <2> QED BY <2>2, <2>3 DEF CountInv, TriesAreFailures, SkippedForAReason
<1> QED BY <1>1, LedgerInvariant, CountsHold, PTL

\* TransactionService: with what a crash has set to 0, the duplicate counters
\* miss no accepted record that made no entry, and exceed them by no more than
\* failures account for.
THEOREM DuplicatesAddUp == Spec => []DuplicatesAreCounted
<1>1. IInv /\ CountInv => DuplicatesAreCounted
  <2> SUFFICES ASSUME IInv, CountInv PROVE DuplicatesAreCounted
    OBVIOUS
  <2> DEFINE h == Cardinality(Handled)  s == Cardinality(skipped)
             m == Cardinality(Leftover)  q == Cardinality(Passed)
  <2>1. /\ Position \in Nat /\ Position <= Len(topic) /\ Len(topic) \in Nat
        /\ DOMAIN topic = 1..Len(topic)
        /\ faults \in Nat /\ CountedEver \in Nat /\ Len(ledger) \in Nat
        /\ owner \in Consumer \cup {Nobody}
    BY PositionType, CallsType, BoundsAssumption DEF IInv, TypeOK, CountInv
  <2>2. Handled \subseteq Passed
    <3>1. ASSUME NEW o \in 1..Position
          PROVE  o <= committed \/ \E c \in Consumer : o <= consumer[c].position
      BY <2>1 DEF Position
    <3>2. 1..Position \subseteq DOMAIN topic
      BY <2>1
    <3> QED BY <3>1, <3>2 DEF Handled, Passed
  <2>3. /\ IsFiniteSet(Passed) /\ IsFiniteSet(skipped)
        /\ q \in Nat /\ s \in Nat
    BY CountedSets DEF IInv
  <2>4. IsFiniteSet(Handled) /\ h \in Nat /\ h <= q
    BY <2>2, <2>3, SubsetCount
  <2>5. IsFiniteSet(Leftover) /\ m \in Nat
    BY FS_CardinalityType DEF CountInv, CountedIsPassed
  <2>6. Position <= h + s
    <3>1. /\ IsFiniteSet(Handled \cup skipped)
          /\ Cardinality(Handled \cup skipped)
               = h + s - Cardinality(Handled \cap skipped)
          /\ Cardinality(Handled \cap skipped) \in Nat
      BY <2>3, <2>4, FS_Union, FS_Intersection, FS_CardinalityType
    <3>2. 1..Position \subseteq Handled \cup skipped
      BY DEF Handled
    <3>3. Cardinality(1..Position) = Position
      <4>1. 1 \in Int /\ Position \in Int
            /\ (IF 1 > Position THEN 0 ELSE Position - 1 + 1) = Position
        BY <2>1
      <4> QED BY <4>1, FS_Interval
    <3>4. /\ Cardinality(1..Position) <= Cardinality(Handled \cup skipped)
          /\ Cardinality(Handled \cup skipped) \in Nat
      BY <3>1, <3>2, SubsetCount
    <3> HIDE DEF h, s
    <3> QED BY <2>1, <2>3, <2>4, <3>1, <3>3, <3>4
  <2>7. PICK a \in Nat : a = faults * Len(topic)
    BY <2>1, Times
  <2>8. q <= Len(ledger) + CountedEver
    BY DEF CountInv, PassedIsCounted
  <2>9. Len(ledger) + CountedEver + s + m <= Position + a
    BY <2>7 DEF CountInv, CountedIsPassed
  <2>10. h - Len(ledger) <= CountedEver /\ CountedEver <= h - Len(ledger) + a
    <3> HIDE DEF h, s, m, q
    <3> QED BY <2>1, <2>3, <2>4, <2>5, <2>6, <2>8, <2>9
  <2> QED BY <2>7, <2>10 DEF DuplicatesAreCounted
<1> QED BY <1>1, LedgerInvariant, CountsHold, PTL

=============================================================================
