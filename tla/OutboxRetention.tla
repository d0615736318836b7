-------------------------- MODULE OutboxRetention --------------------------
(***************************************************************************)
(* The retention job: PaymentOutboxRetentionTransaction.purgeExpired, run  *)
(* by the retention scheduler of each replica.                             *)
(*                                                                         *)
(* One transaction locks a batch of old published events, deletes their    *)
(* recovery audits, their handoffs and the events themselves, in that      *)
(* order because of the foreign keys, and then deletes a batch of old      *)
(* rejection rows.  The payments stay.                                     *)
(***************************************************************************)
EXTENDS OutboxStore

VARIABLES cleaner   \* the batch of events each retention thread has locked

retentionVars == <<cleaner>>

\* A thread between two runs, or holding the locks of a batch, which may be
\* empty: rejection rows are purged when no event has expired.
Waiting == [open |-> FALSE, batch |-> {}]

CleanerState == [open: BOOLEAN, batch: SUBSET Event]

\* Mutant of LockBatch: the batch is read without locking its rows.
LockBatchNot(w) ==
    /\ ~cleaner[w].open
    /\ \E batch \in SUBSET {e \in Event : Expired(e)} :
        cleaner' = [cleaner EXCEPT ![w] = [open |-> TRUE, batch |-> batch]]
    /\ UNCHANGED storeVars

(***************************************************************************)
(* The locking query takes the oldest expired events up to the batch size; *)
(* publication order is not kept here, so any set of expired events may be *)
(* the batch.  The query waits while one of them is locked.                *)
(***************************************************************************)
LockBatch(w) ==
    /\ ~cleaner[w].open
    /\ \E batch \in SUBSET {e \in Event : Expired(e)} :
        /\ \A e \in batch : Unlocked(e)
        /\ cleaner' = [cleaner EXCEPT ![w] = [open |-> TRUE, batch |-> batch]]
        /\ lock' = [e \in Event |-> IF e \in batch THEN w ELSE lock[e]]
    /\ UNCHANGED <<outbox, payment, handoff, audit, journal, sends, faults>>

\* deleteByOutboxEventIdIn of the audits: their keys are free again.
AuditsWithout(batch) ==
    [k \in RecoveryKey |->
        IF audit[k] # NoAudit /\ audit[k].event \in batch THEN NoAudit
                                                          ELSE audit[k]]

HandoffsWithout(batch) ==
    [e \in Event |-> IF e \in batch THEN {} ELSE handoff[e]]

EventsWithout(batch) ==
    [e \in Event |-> IF e \in batch THEN NoRow ELSE outbox[e]]

UnlockBatch(w) ==
    lock' = [e \in Event |-> IF e \in cleaner[w].batch THEN Free ELSE lock[e]]

(***************************************************************************)
(* The deletions commit.  The rejection rows deleted are old ones, up to   *)
(* the batch size.                                                         *)
(***************************************************************************)
CommitPurge(w) ==
    /\ cleaner[w].open
    /\ audit' = AuditsWithout(cleaner[w].batch)
    /\ handoff' = HandoffsWithout(cleaner[w].batch)
    /\ outbox' = EventsWithout(cleaner[w].batch)
    /\ \E old \in SUBSET {c \in Command : journal[c].aged} :
        journal' = [c \in Command |->
                        IF c \in old THEN [journal[c] EXCEPT !.purged = TRUE]
                                     ELSE journal[c]]
    /\ UnlockBatch(w)
    /\ cleaner' = [cleaner EXCEPT ![w] = Waiting]
    /\ UNCHANGED <<payment, sends, faults>>

(***************************************************************************)
(* A deletion fails, or the process crashes: all of it rolls back.         *)
(***************************************************************************)
PurgeFails(w) ==
    /\ cleaner[w].open
    /\ Fault
    /\ UnlockBatch(w)
    /\ cleaner' = [cleaner EXCEPT ![w] = Waiting]
    /\ UNCHANGED <<outbox, payment, handoff, audit, journal, sends>>

RetentionInit == cleaner = [w \in Cleaner |-> Waiting]

RetentionNext ==
    \E w \in Cleaner : LockBatch(w) \/ CommitPurge(w) \/ PurgeFails(w)

RetentionTypeOK == cleaner \in [Cleaner -> CleanerState]

=============================================================================
