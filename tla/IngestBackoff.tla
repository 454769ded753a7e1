--------------------------- MODULE IngestBackoff ----------------------------
(***************************************************************************)
(* How long a row lives.  nack computes next_attempt_at from the clock of  *)
(* the worker's process, claim_batch compares it with the database's       *)
(* NOW(); age is a history variable that counts the database's seconds     *)
(* from a row's INSERT until it is settled.                                *)
(***************************************************************************)
EXTENDS IngestWorker, FiniteSetsExt

\* No worker's clock is behind the database's by any amount
ASSUME SkewAssumption == \E m \in Skews : \A s \in Skews : m <= s

VARIABLE age

BackoffInit == Init /\ age = [r \in Row |-> 0]

Grow == [r \in Row |->
          IF status[r] \in {"pending", "processing"} THEN age[r] + 1 ELSE age[r]]

BackoffNext ==
  \/ Tick /\ age' = Grow
  \/ Enqueue /\ UNCHANGED age
  \/ \E p \in Processes : (Start(p) \/ Round(p) \/ Crash(p)) /\ UNCHANGED age
  \/ \E t \in Threads : Step(t) /\ UNCHANGED age

BackoffSpec == BackoffInit /\ [][BackoffNext]_<<vars, age>>

\* A row is dead-lettered only after the backoff of all its attempts, which
\* docs/outbox_ingest.md calls 2^n seconds and which add up to this, less what
\* the worker's clock is behind the database's each time.
NoEarlyDeath ==
  \A r \in Row :
    status[r] = "dlq" =>
      age[r] >= TwoTo[MAX_ATTEMPTS] - 2 + (MAX_ATTEMPTS - 1) * Min(Skews)
=============================================================================
