----------------------- MODULE IngestWorkerRefinement -----------------------
(* IngestWorker implements JobQueue: every row of the outbox is a job.     *)
EXTENDS IngestWorker

\* A row in processing is leased until process_row is called for it and tried
\* afterwards.  A row whose ack committed, but whose thread got an error and is
\* about to nack it, is not finished yet.
JobState(r) ==
  CASE status[r] = "absent" -> "absent"
    [] status[r] = "pending" -> "waiting"
    [] status[r] = "processing" ->
         IF tries[r] = attempts[r] THEN "leased" ELSE "tried"
    [] status[r] = "done" ->
         IF \E t \in Threads : cur[t] = r THEN "tried" ELSE "finished"
    [] status[r] = "dlq" -> "dead"

jobStates == [r \in Row |-> JobState(r)]
workedJobs == {r \in Row : Worked(r)}

Queue == INSTANCE JobQueue WITH
  Jobs <- Row,
  MaxTries <- MAX_ATTEMPTS,
  state <- jobStates,
  worked <- workedJobs

\* Whatever calls fail and processes die, the outbox behaves like a job queue
\* that delivers at least once, tries a job at most MAX_ATTEMPTS times, and
\* calls it finished only after a try that worked.
ImplementsJobQueue == Queue!Spec
=============================================================================
