-------------------------- MODULE OutboxRecovery ---------------------------
(***************************************************************************)
(* The operator's recovery command: re-arm an exhausted outbox event.      *)
(*                                                                         *)
(* A command is one HTTP request.  PaymentOutboxRecoveryService looks for  *)
(* an audit row with the command's key outside any transaction, then runs  *)
(* PaymentOutboxRecoveryTransaction, which locks the event, looks again,   *)
(* re-arms the event and inserts the audit row under the unique key index. *)
(* A refused command is journalled in a transaction of its own before it   *)
(* is answered.  Commands of several operators, with the same key or with  *)
(* different ones, run at the same time.                                   *)
(*                                                                         *)
(* Argument validation and authentication come before Submit and leave     *)
(* nothing behind; a command here is one that passed them.                 *)
(***************************************************************************)
EXTENDS OutboxStore

VARIABLES command   \* what each recovery command is doing

recoveryVars == <<command>>

\* Stage of a command: before which statement it stands.
\*   "new"     not received           "lookup"  first look at the audits
\*   "lock"    findByIdForUpdate      "check"   the look under the lock
\*   "insert"  flush done, audit insert pending
\*   "commit"  audit row inserted, not committed
\*   "reread"  the insert hit a duplicate key and was rolled back
\*   "reject"  refused, not journalled
\*   "done"    answered
CommandStage ==
    {"new", "lookup", "lock", "check", "insert", "commit", "reread",
     "reject", "done"}

\* The answer: 200 with the audit, 404 or 409 with a rejection code, 503 when
\* the journal is unavailable, 500 or a broken connection for all else.
Answer == RejectionCode \cup {"none", "recovered", "unavailable", "error"}

NewCommand ==
    [stage |-> "new", event |-> NoEvent, key |-> NoKey, actor |-> NoActor,
     code |-> "none", answer |-> "none"]

CommandState ==
    {NewCommand}
        \cup [stage: CommandStage \ {"new"}, event: Event, key: RecoveryKey,
              actor: Actor, code: RejectionCode \cup {"none"}, answer: Answer]

At(c, stage) == command[c].stage = stage

GoTo(c, stage) == command' = [command EXCEPT ![c].stage = stage]

Finish(c, answer) ==
    command' = [command EXCEPT ![c].stage = "done", ![c].answer = answer]

Refuse(c, code) ==
    command' = [command EXCEPT ![c].stage = "reject", ![c].code = code]

\* The command holds the lock of its event in an open transaction.
InTransaction(c) == command[c].stage \in {"check", "insert", "commit"}

Recorded(c) == audit[command[c].key] # NoAudit

\* Mutant of Matches: actor and reason are not compared.
MatchesEvent(c) == audit[command[c].key].event = command[c].event

\* The audit row of the command's key is for the same event, actor and reason.
Matches(c) ==
    /\ audit[command[c].key].event = command[c].event
    /\ audit[command[c].key].actor = command[c].actor

\* requireMatching: an exact replay gets the original row, anything else is a
\* conflict.
RequireMatching(c) ==
    IF Matches(c) THEN Finish(c, "recovered") ELSE Refuse(c, "COMMAND_CONFLICT")

\* Mutant of Recoverable: any event that waits may be recovered.
RecoverableUnparked(e) == outbox[e].status = "PENDING"

Recoverable(e) ==
    /\ outbox[e].status = "PENDING"
    /\ outbox[e].exhausted
    /\ payment[e] = "PUBLISH_EXHAUSTED"

\* An exception ends the transaction, if there is one, and unlocks the event.
Rollback(c) ==
    IF InTransaction(c) THEN Release(command[c].event) ELSE UNCHANGED lock

(***************************************************************************)
(* A validated command arrives.                                            *)
(***************************************************************************)
Submit(c) ==
    /\ At(c, "new")
    /\ \E e \in Event, k \in RecoveryKey, a \in Actor :
        command' = [command EXCEPT ![c] =
            [stage |-> "lookup", event |-> e, key |-> k, actor |-> a,
             code |-> "none", answer |-> "none"]]
    /\ UNCHANGED storeVars

(***************************************************************************)
(* attemptRecovery: a key already recorded is answered without a           *)
(* transaction.                                                            *)
(***************************************************************************)
LookUpAudit(c) ==
    /\ At(c, "lookup")
    /\ IF Recorded(c) THEN RequireMatching(c) ELSE GoTo(c, "lock")
    /\ UNCHANGED storeVars

\* Mutant of LockEvent: findById, without the lock.
LockEventNot(c) ==
    /\ At(c, "lock")
    /\ IF Exists(command[c].event) THEN GoTo(c, "check")
                                  ELSE Refuse(c, "EVENT_NOT_FOUND")
    /\ UNCHANGED storeVars

(***************************************************************************)
(* findByIdForUpdate: waits for the row lock; no row, no lock.             *)
(***************************************************************************)
LockEvent(c) ==
    /\ At(c, "lock")
    /\ IF Exists(command[c].event)
       THEN /\ Unlocked(command[c].event)
            /\ Acquire(command[c].event, c)
            /\ GoTo(c, "check")
       ELSE /\ Refuse(c, "EVENT_NOT_FOUND")
            /\ UNCHANGED lock
    /\ UNCHANGED <<outbox, payment, handoff, audit, journal, sends, faults>>

(***************************************************************************)
(* Under the lock: look for the key again, then check that the event may   *)
(* be recovered.  A replay commits, a refusal rolls back; both unlock.     *)
(***************************************************************************)
CheckCommand(c) ==
    /\ At(c, "check")
    /\ \/ /\ Recorded(c)
          /\ RequireMatching(c)
          /\ Release(command[c].event)
       \/ /\ ~Recorded(c)
          /\ ~Recoverable(command[c].event)
          /\ Refuse(c, "EVENT_NOT_ELIGIBLE")
          /\ Rollback(c)
       \/ /\ ~Recorded(c)
          /\ Recoverable(command[c].event)
          /\ GoTo(c, "insert")
          /\ UNCHANGED lock
    /\ UNCHANGED <<outbox, payment, handoff, audit, journal, sends, faults>>

\* Another open transaction has inserted a row with the same key.
KeyInDoubt(c) ==
    \E d \in Command \ {c} : At(d, "commit") /\ command[d].key = command[c].key

\* Mutant of InsertAudit: no unique index on the key.
InsertAuditUnchecked(c) ==
    /\ At(c, "insert")
    /\ GoTo(c, "commit")
    /\ UNCHANGED storeVars

(***************************************************************************)
(* saveAndFlush of the audit row: the unique index makes it wait for an    *)
(* uncommitted row with the same key, and refuses a committed one.         *)
(***************************************************************************)
InsertAudit(c) ==
    /\ At(c, "insert")
    /\ ~KeyInDoubt(c)
    /\ IF Recorded(c)
       THEN GoTo(c, "reread") /\ Rollback(c)
       ELSE GoTo(c, "commit") /\ UNCHANGED lock
    /\ UNCHANGED <<outbox, payment, handoff, audit, journal, sends, faults>>

AuditOf(c) ==
    [event |-> command[c].event, actor |-> command[c].actor,
     cycle |-> outbox[command[c].event].sequence,
     attempts |-> outbox[command[c].event].attempts, command |-> c]

(***************************************************************************)
(* The commit: event, payment and audit change together.                   *)
(***************************************************************************)
CommitRecovery(c) ==
    /\ At(c, "commit")
    /\ LET e == command[c].event
       IN  /\ outbox' = [outbox EXCEPT ![e] = Requeue(@)]
           /\ payment' = [payment EXCEPT ![e] = "PENDING_RETRY"]
           /\ sends' = [sends EXCEPT ![e] = 0]
           /\ Release(e)
    /\ audit' = [audit EXCEPT ![command[c].key] = AuditOf(c)]
    /\ Finish(c, "recovered")
    /\ UNCHANGED <<handoff, journal, faults>>

\* Mutant of ReadRacedAudit: without a row, it is looked for again.
ReadRacedAuditWaits(c) ==
    /\ At(c, "reread")
    /\ IF Recorded(c) THEN RequireMatching(c) ELSE GoTo(c, "reread")
    /\ UNCHANGED storeVars

(***************************************************************************)
(* After a duplicate key, the row that won is read.  If retention has      *)
(* deleted it in between, the integrity violation is thrown on.            *)
(***************************************************************************)
ReadRacedAudit(c) ==
    /\ At(c, "reread")
    /\ IF Recorded(c) THEN RequireMatching(c) ELSE Finish(c, "error")
    /\ UNCHANGED storeVars

(***************************************************************************)
(* A refusal is journalled, and only then answered.                        *)
(***************************************************************************)
JournalRejection(c) ==
    /\ At(c, "reject")
    /\ journal' = [journal EXCEPT ![c] =
                      [code |-> command[c].code, aged |-> FALSE, purged |-> FALSE]]
    /\ Finish(c, command[c].code)
    /\ UNCHANGED <<outbox, payment, handoff, audit, lock, sends, faults>>

\* Mutant of JournalFails: the failure of the journal is swallowed.
JournalFailsUnnoticed(c) ==
    /\ At(c, "reject")
    /\ Fault
    /\ Finish(c, command[c].code)
    /\ UNCHANGED <<outbox, payment, handoff, audit, journal, lock, sends>>

\* The journal cannot be written: the refusal is answered as unavailable.
JournalFails(c) ==
    /\ At(c, "reject")
    /\ Fault
    /\ Finish(c, "unavailable")
    /\ UNCHANGED <<outbox, payment, handoff, audit, journal, lock, sends>>

(***************************************************************************)
(* The command fails for another reason: a database error, a lock wait     *)
(* that times out, a crash.  An open transaction rolls back.               *)
(***************************************************************************)
CommandFails(c) ==
    /\ command[c].stage \notin {"new", "done"}
    /\ Fault
    /\ Finish(c, "error")
    /\ Rollback(c)
    /\ UNCHANGED <<outbox, payment, handoff, audit, journal, sends>>

(***************************************************************************)
(* The answer is lost on its way, though all is done: the operator sees    *)
(* the same as after a failure and may send the command again.             *)
(***************************************************************************)
AnswerLost(c) ==
    /\ At(c, "done")
    /\ command[c].answer # "error"
    /\ Fault
    /\ Finish(c, "error")
    /\ UNCHANGED <<outbox, payment, handoff, audit, journal, lock, sends>>

RecoveryInit == command = [c \in Command |-> NewCommand]

RecoveryNext ==
    \E c \in Command :
        \/ Submit(c)
        \/ LookUpAudit(c)
        \/ LockEvent(c)
        \/ CheckCommand(c)
        \/ InsertAudit(c)
        \/ CommitRecovery(c)
        \/ ReadRacedAudit(c)
        \/ JournalRejection(c)
        \/ JournalFails(c)
        \/ CommandFails(c)
        \/ AnswerLost(c)

RecoveryTypeOK == command \in [Command -> CommandState]

=============================================================================
