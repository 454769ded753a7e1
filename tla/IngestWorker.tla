---------------------------- MODULE IngestWorker ----------------------------
(***************************************************************************)
(* The worker processes that drain the outbox (src/ingest/worker.py):      *)
(* IngestWorker.run_loop starts one run_once per thread and waits for all  *)
(* of them (asyncio.gather) before the next round; run_once claims a       *)
(* batch, processes its rows one after the other and acks or nacks each.   *)
(* Every call to the database is a transaction on a connection of its own  *)
(* and so a step of its own; claim_batch is two steps, because the row     *)
(* locks of FOR UPDATE SKIP LOCKED are held until its commit.              *)
(*                                                                         *)
(* A database call succeeds, fails without effect, or commits and still    *)
(* raises because the reply was lost.  Failed calls and process crashes    *)
(* are counted in faults; an exception of a handler is not a fault, it is  *)
(* what nack is for.                                                       *)
(***************************************************************************)
EXTENDS Outbox

CONSTANTS
  Processes,       \* worker processes
  Threads,         \* run_once threads of all processes
  ProcessOf,       \* the process a thread belongs to
  WorkerVersions,  \* ontology.prompt_version a worker may be started with
  Registered,      \* aggregate types with a handler in the dispatcher
  ProducerJobs,    \* what producers enqueue
  FairProcesses,   \* processes the liveness properties count on
  MaxProduced,     \* bound: rows enqueued by producers
  MaxFaults        \* bound: failed calls and crashes

ASSUME WorkerAssumption ==
  /\ ProcessOf \in [Threads -> Processes]
  /\ WorkerVersions \subseteq Versions
  /\ Registered \subseteq AggregateTypes
  /\ ProducerJobs \subseteq Job
  /\ FairProcesses \subseteq Processes
  /\ MaxProduced \in Nat
  /\ MaxFaults \in Nat

VARIABLES
  loop,     \* loop[p]: run_loop of process p is running
  version,  \* version[p]: the ontology.prompt_version p is started with
  pc,       \* pc[t]: where thread t is
  locks,    \* locks[t]: rows locked by t's open claim transaction
  batch,    \* batch[t]: claimed rows that t has not processed yet
  cur,      \* cur[t]: the row t is processing, or NoRow
  seen,     \* seen[t][r]: attempts of r in the list claim_batch returned
  \* history, read by properties only
  tries,    \* tries[r]: calls of process_row for r
  loads,    \* loads[r]: times a handler completed the load of r
  parent,   \* parent[r]: the row r was re-enqueued from, or NoRow
  faults    \* failed calls and crashes so far

control == <<loop, version>>
history == <<tries, loads, parent>>
vars == <<outbox, control, pc, locks, batch, cur, seen, history, faults>>

\* "idle": not in run_once; "tick": run_once called; "claim": the claim's
\* transaction is open; "rows": in the loop over the batch; "ack", "nack":
\* about to call ack or nack for cur; "raised": an exception left run_once.
PC == {"idle", "tick", "claim", "rows", "ack", "nack", "raised"}

NothingSeen == [r \in Row |-> 0]

TypeOK ==
  /\ OutboxTypeOK
  /\ loop \in [Processes -> BOOLEAN]
  /\ version \in [Processes -> WorkerVersions]
  /\ pc \in [Threads -> PC]
  /\ locks \in [Threads -> SUBSET Row]
  /\ batch \in [Threads -> SUBSET Row]
  /\ cur \in [Threads -> Row \cup {NoRow}]
  /\ seen \in [Threads -> [Row -> Nat]]
  /\ tries \in [Row -> Nat]
  /\ loads \in [Row -> Nat]
  /\ parent \in [Row -> Row \cup {NoRow}]
  /\ faults \in 0..MaxFaults

Init ==
  /\ OutboxInit
  /\ loop = [p \in Processes |-> FALSE]
  /\ version \in [Processes -> WorkerVersions]
  /\ pc = [t \in Threads |-> "idle"]
  /\ locks = [t \in Threads |-> {}]
  /\ batch = [t \in Threads |-> {}]
  /\ cur = [t \in Threads |-> NoRow]
  /\ seen = [t \in Threads |-> NothingSeen]
  /\ tries = [r \in Row |-> 0]
  /\ loads = [r \in Row |-> 0]
  /\ parent = [r \in Row |-> NoRow]
  /\ faults = 0

-----------------------------------------------------------------------------
ThreadsOf(p) == {t \in Threads : ProcessOf[t] = p}
Present == {r \in Row : status[r] # "absent"}

\* Mutant: the CTE without FOR UPDATE SKIP LOCKED
NothingLocked == {}

Locked == UNION {locks[t] : t \in Threads}

\* The rows run_once of thread t still has in its hands
Held(t) == batch[t] \cup (IF cur[t] = NoRow THEN {} ELSE {cur[t]})

\* The rows no other thread may touch: locked by an open claim, or in its hands
Owns(t) == locks[t] \cup Held(t)

\* Claimed by a run_once that is gone: nobody will ack or nack the row
Orphan(r) == status[r] = "processing" /\ \A t \in Threads : r \notin Held(t)

Settled(r) == status[r] \in {"done", "dlq"}

Fault == faults < MaxFaults /\ faults' = faults + 1

\* A database call: its effect A and success, or an exception with the effect
\* rolled back, or an exception although the effect was committed
CallReturns(A) == A /\ UNCHANGED faults
CallRaises(A) == Fault /\ (A \/ UNCHANGED outbox)

\* needs_reprocess(row), in the process of thread t
NeedsReprocess(t, r) ==
  \/ job[r].payload # NoVersion /\ job[r].payload # version[ProcessOf[t]]
  \/ job[r].row # version[ProcessOf[t]]

\* Mutant: reenqueue inserts the payload's prompt_version as the row's
ReenqueuedJobOfPayload(t, r) == [job[r] EXCEPT !.row = job[r].payload]

\* reenqueue passes the payload as it is and no prompt_version, so that
\* enqueue takes the version of the process
ReenqueuedJob(t, r) == [job[r] EXCEPT !.row = version[ProcessOf[t]]]

-----------------------------------------------------------------------------
\* OutboxWriter.enqueue, called by a producer
Enqueue ==
  /\ Cardinality({r \in Present : parent[r] = NoRow}) < MaxProduced
  /\ \E j \in ProducerJobs : Insert(j)
  /\ UNCHANGED <<control, pc, locks, batch, cur, seen, history, faults>>

\* The process is started, or started again once every thread of the dead
\* loop has ended.  get_settings is cached for the life of the process.
Start(p) ==
  /\ ~loop[p]
  /\ \A t \in ThreadsOf(p) : pc[t] \in {"idle", "raised"}
  /\ loop' = [loop EXCEPT ![p] = TRUE]
  /\ \E v \in WorkerVersions : version' = [version EXCEPT ![p] = v]
  /\ pc' = [t \in Threads |-> IF t \in ThreadsOf(p) THEN "idle" ELSE pc[t]]
  /\ UNCHANGED <<outbox, locks, batch, cur, seen, history, faults>>

\* run_loop: the gather of the last round has returned and the next begins
Round(p) ==
  /\ loop[p]
  /\ \A t \in ThreadsOf(p) : pc[t] = "idle"
  /\ pc' = [t \in Threads |-> IF t \in ThreadsOf(p) THEN "tick" ELSE pc[t]]
  /\ UNCHANGED <<outbox, control, locks, batch, cur, seen, history, faults>>

\* The loop died before the executor began the tick: its work item is cancelled
Cancel(t) ==
  /\ pc[t] = "tick"
  /\ ~loop[ProcessOf[t]]
  /\ pc' = [pc EXCEPT ![t] = "idle"]
  /\ UNCHANGED <<outbox, control, locks, batch, cur, seen, history, faults>>

-----------------------------------------------------------------------------
\* An exception leaves run_once: the rest of the batch is dropped, gather
\* raises and run_loop ends, while the other threads finish their run_once.
Raise(t) ==
  /\ pc' = [pc EXCEPT ![t] = "raised"]
  /\ loop' = [loop EXCEPT ![ProcessOf[t]] = FALSE]
  /\ locks' = [locks EXCEPT ![t] = {}]
  /\ batch' = [batch EXCEPT ![t] = {}]
  /\ cur' = [cur EXCEPT ![t] = NoRow]
  /\ seen' = [seen EXCEPT ![t] = NothingSeen]
  /\ UNCHANGED <<version, history>>

\* claim_batch: the CTE locks the first due rows nobody else has locked
ClaimLock(t) ==
  /\ pc[t] = "tick"
  /\ pc' = [pc EXCEPT ![t] = "claim"]
  /\ locks' = [locks EXCEPT ![t] = FirstBatch(Due \ Locked)]
  /\ UNCHANGED <<outbox, control, batch, cur, seen, history, faults>>

\* claim_batch: UPDATE ... RETURNING and commit
ClaimCommit(t) ==
  /\ pc[t] = "claim"
  /\ CallReturns(ClaimUpdate(locks[t]))
  /\ pc' = [pc EXCEPT ![t] = "rows"]
  /\ locks' = [locks EXCEPT ![t] = {}]
  /\ batch' = [batch EXCEPT ![t] = locks[t]]
  /\ seen' = [seen EXCEPT ![t] =
               [r \in Row |-> IF r \in locks[t] THEN attempts[r] ELSE 0]]
  /\ UNCHANGED <<control, cur, history>>

\* claim_batch raises, outside the try of run_once
ClaimRaises(t) ==
  /\ pc[t] \in {"tick", "claim"}
  /\ CallRaises(ClaimUpdate(locks[t]))
  /\ Raise(t)

\* process_row takes the next row, in the order RETURNING gave them: any
Take(t, r) ==
  /\ pc[t] = "rows"
  /\ r \in batch[t]
  /\ batch' = [batch EXCEPT ![t] = @ \ {r}]
  /\ cur' = [cur EXCEPT ![t] = r]
  /\ tries' = [tries EXCEPT ![r] = @ + 1]
  /\ UNCHANGED <<control, locks, seen>>

Successor(r) == parent' = [parent EXCEPT ![nextId] = r]

\* Mutant: no return after reenqueue and ack, the row is dispatched as well
ReenqueueAndDispatch(t, r) ==
  /\ Take(t, r)
  /\ NeedsReprocess(t, r)
  /\ CallReturns(Insert(ReenqueuedJob(t, r)))
  /\ Successor(r)
  /\ loads' = [loads EXCEPT ![r] = @ + 1]
  /\ pc' = [pc EXCEPT ![t] = "ack"]

\* process_row of a stale row: reenqueue, then ack
Reenqueue(t, r) ==
  /\ Take(t, r)
  /\ NeedsReprocess(t, r)
  /\ \/ /\ CallReturns(Insert(ReenqueuedJob(t, r)))
        /\ Successor(r)
        /\ pc' = [pc EXCEPT ![t] = "ack"]
     \/ /\ Fault
        /\ \/ Insert(ReenqueuedJob(t, r)) /\ Successor(r)
           \/ UNCHANGED <<outbox, parent>>
        /\ pc' = [pc EXCEPT ![t] = "nack"]
  /\ UNCHANGED loads

\* Mutant: the exception of a handler is swallowed and the row acked
DispatchSwallows(t, r) ==
  /\ Take(t, r)
  /\ ~NeedsReprocess(t, r)
  /\ pc' = [pc EXCEPT ![t] = "ack"]
  /\ UNCHANGED <<outbox, parent, loads, faults>>

\* process_row of a current row: the handler loads it, or raises (as dispatch
\* does for a type without one), or loads it and loses the reply
Dispatch(t, r) ==
  /\ Take(t, r)
  /\ ~NeedsReprocess(t, r)
  /\ \/ /\ job[r].kind \in Registered
        /\ loads' = [loads EXCEPT ![r] = @ + 1]
        /\ \/ pc' = [pc EXCEPT ![t] = "ack"] /\ UNCHANGED faults
           \/ pc' = [pc EXCEPT ![t] = "nack"] /\ Fault
     \/ /\ pc' = [pc EXCEPT ![t] = "nack"]
        /\ UNCHANGED <<loads, faults>>
  /\ UNCHANGED <<outbox, parent>>

\* ack(row["id"]); if it raises, the except clause of run_once calls nack
Ack(t) ==
  /\ pc[t] = "ack"
  /\ \/ /\ CallReturns(AckUpdate(cur[t]))
        /\ pc' = [pc EXCEPT ![t] = "rows"]
        /\ cur' = [cur EXCEPT ![t] = NoRow]
     \/ /\ CallRaises(AckUpdate(cur[t]))
        /\ pc' = [pc EXCEPT ![t] = "nack"]
        /\ UNCHANGED cur
  /\ UNCHANGED <<control, locks, batch, seen, history>>

\* nack(row, error), with the attempts the claim returned; if it raises, the
\* exception leaves run_once
Nack(t) ==
  /\ pc[t] = "nack"
  /\ LET r == cur[t]
         update == NackUpdate(r, seen[t][r] + 1)
     IN  \/ /\ CallReturns(update)
            /\ pc' = [pc EXCEPT ![t] = "rows"]
            /\ cur' = [cur EXCEPT ![t] = NoRow]
            /\ UNCHANGED <<control, locks, batch, seen, history>>
         \/ CallRaises(update) /\ Raise(t)

\* Mutant: run_once returns after its first row
FinishBatchEarly(t) ==
  /\ pc[t] = "rows"
  /\ pc' = [pc EXCEPT ![t] = "idle"]
  /\ batch' = [batch EXCEPT ![t] = {}]
  /\ seen' = [seen EXCEPT ![t] = NothingSeen]
  /\ UNCHANGED <<outbox, control, locks, cur, history, faults>>

\* run_once returns: the tick is over
FinishBatch(t) ==
  /\ pc[t] = "rows"
  /\ batch[t] = {}
  /\ pc' = [pc EXCEPT ![t] = "idle"]
  /\ seen' = [seen EXCEPT ![t] = NothingSeen]
  /\ UNCHANGED <<outbox, control, locks, batch, cur, history, faults>>

\* The process is killed: its open transactions roll back, its memory is gone
Crash(p) ==
  /\ loop[p] \/ \E t \in ThreadsOf(p) : pc[t] \notin {"idle", "raised"}
  /\ Fault
  /\ loop' = [loop EXCEPT ![p] = FALSE]
  /\ pc' = [t \in Threads |-> IF t \in ThreadsOf(p) THEN "idle" ELSE pc[t]]
  /\ locks' = [t \in Threads |-> IF t \in ThreadsOf(p) THEN {} ELSE locks[t]]
  /\ batch' = [t \in Threads |-> IF t \in ThreadsOf(p) THEN {} ELSE batch[t]]
  /\ cur' = [t \in Threads |-> IF t \in ThreadsOf(p) THEN NoRow ELSE cur[t]]
  /\ seen' = [t \in Threads |->
               IF t \in ThreadsOf(p) THEN NothingSeen ELSE seen[t]]
  /\ UNCHANGED <<outbox, version, history>>

Tick ==
  /\ PassSecond
  /\ UNCHANGED <<control, pc, locks, batch, cur, seen, history, faults>>

-----------------------------------------------------------------------------
Step(t) ==
  \/ Cancel(t)
  \/ ClaimLock(t)
  \/ ClaimCommit(t)
  \/ ClaimRaises(t)
  \/ \E r \in Row : Reenqueue(t, r) \/ Dispatch(t, r)
  \/ Ack(t)
  \/ Nack(t)
  \/ FinishBatch(t)

Next ==
  \/ Enqueue
  \/ Tick
  \/ \E p \in Processes : Start(p) \/ Round(p) \/ Crash(p)
  \/ \E t \in Threads : Step(t)

Spec == Init /\ [][Next]_vars

\* Time passes, the processes in FairProcesses are started again whenever
\* their loop has ended, and their threads are scheduled: every call to the
\* database and every handler returns or raises.
Fairness ==
  /\ WF_vars(Tick)
  /\ \A p \in FairProcesses :
       /\ WF_vars(Start(p))
       /\ WF_vars(Round(p))
       /\ \A t \in ThreadsOf(p) : WF_vars(Step(t))

FairSpec == Spec /\ Fairness

-----------------------------------------------------------------------------
(* Properties *)

Successors(r) == {s \in Row : parent[s] = r}

\* A try of r had the effect the producer wants
Worked(r) == loads[r] > 0 \/ Successors(r) # {}

\* SKIP LOCKED together with the status written in the same transaction: no
\* row is ever locked, or claimed and unfinished, in two run_onces at a time,
\* however claims, retries, crashes and restarts interleave.
ExclusiveClaim ==
  \A t, u \in Threads : t # u => Owns(t) \cap Owns(u) = {}

\* nack writes back the attempts of the claim without reading the row again:
\* the copy is still right, and so is the status it overwrites, except that an
\* ack whose reply was lost may have made the row done.
SnapshotIsFresh ==
  \A t \in Threads : \A r \in Held(t) :
    /\ seen[t][r] = attempts[r]
    /\ status[r] = "processing" \/ (status[r] = "done" /\ pc[t] = "nack")

\* The column attempts counts the calls of process_row that ended, across
\* retries, lost acks and lost nacks; so no row is processed more than
\* MAX_ATTEMPTS times, and a row is dead-lettered at exactly that count.
AttemptsCountTries ==
  \A r \in Row :
    /\ status[r] = "pending" => tries[r] = attempts[r] /\ tries[r] < MAX_ATTEMPTS
    /\ status[r] = "processing" => tries[r] - attempts[r] \in {0, 1}
    /\ status[r] = "done" => tries[r] = attempts[r] + 1
    /\ status[r] = "dlq" => tries[r] = attempts[r] + 1 /\ tries[r] = MAX_ATTEMPTS
    /\ tries[r] <= MAX_ATTEMPTS

\* A row has its record in ingest_dlq exactly when its status says so.
DeadLetteredOnce ==
  \A r \in Row : dlq[r] = IF status[r] = "dlq" THEN 1 ELSE 0

\* A row is only ever marked done after a handler loaded it or a row that
\* replaces it was inserted, whatever calls failed in between.
NoSilentLoss ==
  \A r \in Row : status[r] = "done" => Worked(r)

\* Each effect of a row, a load or a re-enqueued copy, is paid for by one
\* counted attempt: redelivery is bounded by MAX_ATTEMPTS.
EffectsBounded ==
  \A r \in Row : loads[r] + Cardinality(Successors(r)) <= tries[r]

\* While no call fails and no process dies, delivery is exactly once: no row
\* is loaded or re-enqueued twice, a row of the DLQ has had no effect, and no
\* row is left in processing without a run_once that will finish it.
ExactlyOnceWithoutFaults ==
  faults = 0 =>
    \A r \in Row :
      /\ loads[r] + Cardinality(Successors(r)) <= 1
      /\ status[r] = "dlq" => ~Worked(r)
      /\ ~Orphan(r)

\* Nothing takes a row back that a dead run_once left in processing: claim
\* looks at pending rows only and there is no reaper.
OrphanStaysOrphan == [][\A r \in Row : Orphan(r) => Orphan(r)']_vars

\* A settled row changes again only by the nack that follows its own lost ack;
\* a row of the DLQ never does.
SettledIsFinal ==
  [][\A r \in Row : Settled(r) /\ status'[r] # status[r] =>
       /\ status[r] = "done"
       /\ faults > 0
       /\ \E t \in Threads : cur[t] = r /\ pc[t] = "nack"]_vars

\* A row that is replaced because its prompt version is stale is replaced by
\* one that is not: docs/outbox_ingest.md says the new row is made with the
\* current settings.
ReenqueuedRowIsCurrent ==
  \A r \in Row : parent[r] # NoRow => job[r].payload \in {NoVersion, job[r].row}

\* Every pending row is eventually done or dead-lettered, unless it is in the
\* hands of a process that may stall, or of nobody after a failure.
EveryRowSettles ==
  \A r \in Row :
    status[r] = "pending" ~>
      \/ Settled(r)
      \/ Orphan(r)
      \/ \E t \in Threads : /\ ProcessOf[t] \notin FairProcesses
                            /\ r \in Owns(t)

-----------------------------------------------------------------------------
(* The inductive invariant behind the safety properties *)

\* Where a thread is decides what it holds, and what the table says of it: the
\* rows of an open claim are pending; a claimed row is in processing with the
\* attempts the thread has seen, tried once more when it is the current one;
\* before an ack its work is done.
ThreadInv(t) ==
  /\ locks[t] # {} => pc[t] = "claim"
  /\ batch[t] # {} => pc[t] \in {"rows", "ack", "nack"}
  /\ cur[t] # NoRow <=> pc[t] \in {"ack", "nack"}
  /\ cur[t] \notin batch[t]
  /\ \A r \in locks[t] : status[r] = "pending"
  /\ \A r \in batch[t] :
       /\ status[r] = "processing"
       /\ seen[t][r] = attempts[r]
       /\ tries[r] = attempts[r]
  /\ cur[t] # NoRow =>
       /\ \/ status[cur[t]] = "processing"
          \/ status[cur[t]] = "done" /\ pc[t] = "nack"
       /\ seen[t][cur[t]] = attempts[cur[t]]
       /\ tries[cur[t]] = attempts[cur[t]] + 1
  /\ pc[t] = "ack" => Worked(cur[t])

\* What a row's status says of its counters and of its effects
RowInv(r) ==
  /\ status[r] = "absent" <=> r >= nextId
  /\ status[r] = "absent" => attempts[r] = 0 /\ tries[r] = 0 /\ parent[r] = NoRow
  /\ status[r] # "absent" => job[r] \in Job
  /\ attempts[r] < MAX_ATTEMPTS
  /\ status[r] = "pending" => tries[r] = attempts[r]
  /\ status[r] = "processing" => tries[r] \in {attempts[r], attempts[r] + 1}
  /\ status[r] = "done" => tries[r] = attempts[r] + 1 /\ Worked(r)
  /\ status[r] = "dlq" => tries[r] = attempts[r] + 1 /\ tries[r] = MAX_ATTEMPTS
  /\ dlq[r] = IF status[r] = "dlq" THEN 1 ELSE 0

\* TypeOK, ExclusiveClaim and the two families above are preserved together by
\* every step of the workers, the producers and the clock; the safety
\* properties follow from them.
IInv ==
  /\ TypeOK
  /\ ExclusiveClaim
  /\ \A t \in Threads : ThreadInv(t)
  /\ \A r \in Row : RowInv(r)
=============================================================================
