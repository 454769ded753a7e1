------------------------------- MODULE Outbox -------------------------------
(***************************************************************************)
(* The two PostgreSQL tables of the transactional outbox, ingest_outbox    *)
(* and ingest_dlq (src/persistence/outbox_schema.sql), and one operator    *)
(* per SQL statement the ingest code runs on them.                         *)
(*                                                                         *)
(* A table is a set of functions from row ids to column values.  The       *)
(* columns no statement reads back (last_error, created_at, updated_at,    *)
(* content_hash, model_name, aggregate_id, op) are left out; of the        *)
(* payload only its optional key prompt_version matters to the worker.     *)
(* Time is relative: wait[r] is next_attempt_at minus the database's       *)
(* NOW(), in whole seconds, and 0 once the row is due.                     *)
(***************************************************************************)
EXTENDS Integers, FiniteSets

CONSTANTS
  MaxRows,         \* bound: ids BIGSERIAL hands out in one behaviour
  MAX_ATTEMPTS,    \* worker.MAX_ATTEMPTS
  BATCH_SIZE,      \* worker.BATCH_SIZE
  AggregateTypes,  \* values of ingest_outbox.aggregate_type
  Versions,        \* prompt versions in use
  NoVersion,       \* the payload has no key prompt_version
  NoJob,           \* the columns of a row that does not exist yet
  Skews            \* seconds a worker's clock may be ahead of the database's

ASSUME OutboxAssumption ==
  /\ MaxRows \in Nat
  /\ MAX_ATTEMPTS \in Nat \ {0}
  /\ BATCH_SIZE \in Nat \ {0}
  /\ NoVersion \notin Versions
  /\ Skews \subseteq Int

Row == 1..MaxRows
NoRow == 0

Status == {"absent", "pending", "processing", "done", "dlq"}

\* What never changes in a row: its type and the two prompt versions that
\* needs_reprocess compares, the payload's and the row's own.
Job == [kind : AggregateTypes,
        payload : Versions \cup {NoVersion},
        row : Versions]

VARIABLES
  nextId,    \* the BIGSERIAL sequence: ids below it have been inserted
  status,    \* ingest_outbox.status, "absent" before the INSERT
  attempts,  \* ingest_outbox.attempts
  wait,      \* ingest_outbox.next_attempt_at - NOW(), not below 0
  job,       \* the immutable columns
  dlq        \* number of ingest_dlq records with outbox_id = r

outbox == <<nextId, status, attempts, wait, job, dlq>>

OutboxTypeOK ==
  /\ nextId \in 1..(MaxRows + 1)
  /\ status \in [Row -> Status]
  /\ attempts \in [Row -> Nat]
  /\ wait \in [Row -> Nat]
  /\ job \in [Row -> Job \cup {NoJob}]
  /\ dlq \in [Row -> Nat]

OutboxInit ==
  /\ nextId = 1
  /\ status = [r \in Row |-> "absent"]
  /\ attempts = [r \in Row |-> 0]
  /\ wait = [r \in Row |-> 0]
  /\ job = [r \in Row |-> NoJob]
  /\ dlq = [r \in Row |-> 0]

-----------------------------------------------------------------------------
\* INSERT INTO ingest_outbox: the column defaults make the row pending, never
\* tried and due at once.  The guard is the bound MaxRows.
Insert(j) ==
  /\ nextId \in Row
  /\ nextId' = nextId + 1
  /\ status' = [status EXCEPT ![nextId] = "pending"]
  /\ attempts' = [attempts EXCEPT ![nextId] = 0]
  /\ wait' = [wait EXCEPT ![nextId] = 0]
  /\ job' = [job EXCEPT ![nextId] = j]
  /\ UNCHANGED dlq

\* Mutant: the claim also takes rows in processing
DueOrProcessing == {r \in Row : status[r] \in {"pending", "processing"} /\ wait[r] = 0}

\* WHERE status = 'pending' AND next_attempt_at <= NOW()
Due == {r \in Row : status[r] = "pending" /\ wait[r] = 0}

\* Mutant: LIMIT is one too small
FirstBatchButOne(S) == {r \in S : Cardinality({s \in S : s < r}) + 1 < BATCH_SIZE}

\* ORDER BY id ... LIMIT BATCH_SIZE
FirstBatch(S) == {r \in S : Cardinality({s \in S : s < r}) < BATCH_SIZE}

\* UPDATE ingest_outbox SET status = 'processing' for the rows of the CTE
ClaimUpdate(S) ==
  /\ status' = [r \in Row |-> IF r \in S THEN "processing" ELSE status[r]]
  /\ UNCHANGED <<nextId, attempts, wait, job, dlq>>

\* Mutant: ack also resets attempts
AckUpdateAndReset(r) ==
  /\ status' = [status EXCEPT ![r] = "done"]
  /\ attempts' = [attempts EXCEPT ![r] = 0]
  /\ UNCHANGED <<nextId, wait, job, dlq>>

\* UPDATE ingest_outbox SET status='done' WHERE id = r, whatever its status
AckUpdate(r) ==
  /\ status' = [status EXCEPT ![r] = "done"]
  /\ UNCHANGED <<nextId, attempts, wait, job, dlq>>

\* Mutant: the UPDATE of the status is forgotten
DeadLetterRecordOnly(r) ==
  /\ dlq' = [dlq EXCEPT ![r] = @ + 1]
  /\ UNCHANGED <<nextId, status, attempts, wait, job>>

\* One transaction: the ingest_dlq record and status='dlq'.  The column
\* attempts keeps its old value.
DeadLetter(r) ==
  /\ status' = [status EXCEPT ![r] = "dlq"]
  /\ dlq' = [dlq EXCEPT ![r] = @ + 1]
  /\ UNCHANGED <<nextId, attempts, wait, job>>

\* 2**n; written out, since the provers know nothing of ^
TwoTo[n \in Nat] == IF n = 0 THEN 1 ELSE 2 * TwoTo[n - 1]

\* Mutant: the exponent is the number of attempts before this one
BackoffTooShort(n, s) == IF TwoTo[n - 1] + s > 0 THEN TwoTo[n - 1] + s ELSE 0

\* next_attempt_at = worker's now + 2**n seconds, seen from the database's
\* clock, which the worker's is s seconds ahead of
Backoff(n, s) == IF TwoTo[n] + s > 0 THEN TwoTo[n] + s ELSE 0

\* UPDATE ingest_outbox SET status='pending', attempts=n, next_attempt_at=...
Reschedule(r, n) ==
  \E s \in Skews :
    /\ status' = [status EXCEPT ![r] = "pending"]
    /\ attempts' = [attempts EXCEPT ![r] = n]
    /\ wait' = [wait EXCEPT ![r] = Backoff(n, s)]
    /\ UNCHANGED <<nextId, job, dlq>>

\* Mutant: one attempt more than MAX_ATTEMPTS
NackUpdateLate(r, n) ==
  \/ n > MAX_ATTEMPTS /\ DeadLetter(r)
  \/ n <= MAX_ATTEMPTS /\ Reschedule(r, n)

\* IngestWorker.nack for a row whose claim returned attempts = n - 1
NackUpdate(r, n) ==
  \/ n >= MAX_ATTEMPTS /\ DeadLetter(r)
  \/ n < MAX_ATTEMPTS /\ Reschedule(r, n)

\* One second passes for the database
PassSecond ==
  /\ \E r \in Row : wait[r] > 0
  /\ wait' = [r \in Row |-> IF wait[r] > 0 THEN wait[r] - 1 ELSE 0]
  /\ UNCHANGED <<nextId, status, attempts, job, dlq>>
=============================================================================
