------------------------- MODULE IngestWorkerProofs -------------------------
(***************************************************************************)
(* Safety of the outbox workers for any number of rows, threads and        *)
(* processes, any batch size and number of attempts, and any number of     *)
(* faults.  IInv is inductive: one lemma per action, each with one step    *)
(* per part of IInv.                                                       *)
(***************************************************************************)
EXTENDS IngestWorker, WellFoundedInduction, TLAPS

LEMMA InitIInv == Init => IInv
  BY OutboxAssumption, WorkerAssumption
  DEF Init, OutboxInit, IInv, TypeOK, OutboxTypeOK, ExclusiveClaim, Owns, Held,
      ThreadInv, RowInv, Row, NoRow, Status, PC, NothingSeen, Worked

-----------------------------------------------------------------------------
(* What a step leaves alone *)

\* A thread that does not move keeps its invariant if the columns of the rows
\* it owns do not change and no work is undone.
LEMMA ThreadFrame ==
  ASSUME NEW t \in Threads,
         ThreadInv(t),
         pc'[t] = pc[t], locks'[t] = locks[t], batch'[t] = batch[t],
         cur'[t] = cur[t], seen'[t] = seen[t],
         \A r \in Owns(t) : /\ status'[r] = status[r]
                            /\ attempts'[r] = attempts[r]
                            /\ tries'[r] = tries[r]
                            /\ Worked(r) => Worked(r)'
  PROVE  ThreadInv(t)'
<1>1. cur[t] # NoRow => cur[t] \in Owns(t)
  BY DEF Owns, Held
<1>2. \A r \in locks[t] \cup batch[t] : r \in Owns(t)
  BY DEF Owns, Held
<1>3. ASSUME pc[t] = "ack" PROVE Worked(cur[t])'
  <2>1. PICK r \in Owns(t) : r = cur[t] /\ Worked(r)
    BY <1>1, <1>3 DEF ThreadInv
  <2>2. Worked(r)' /\ cur'[t] = r
    BY <2>1
  <2> QED
    BY <2>2 DEF Worked, Successors
<1> QED
  BY <1>1, <1>2, <1>3 DEF ThreadInv

\* A row whose columns and counters do not change keeps its invariant if no
\* work is undone.
LEMMA RowFrame ==
  ASSUME NEW r \in Row,
         RowInv(r),
         r >= nextId <=> r >= nextId',
         status'[r] = status[r], attempts'[r] = attempts[r],
         tries'[r] = tries[r], dlq'[r] = dlq[r], job'[r] = job[r],
         status[r] = "absent" => parent'[r] = parent[r],
         Worked(r) => Worked(r)'
  PROVE  RowInv(r)'
  BY DEF RowInv

\* No thread gets hold of a row
LEMMA NothingTaken ==
  ASSUME ExclusiveClaim,
         \A t \in Threads : Owns(t)' \subseteq Owns(t)
  PROVE  ExclusiveClaim'
  BY DEF ExclusiveClaim

\* INSERT touches no row but the new one, which did not exist before.
LEMMA InsertRow ==
  ASSUME OutboxTypeOK,
         \A r \in Row : RowInv(r),
         NEW j \in Job, Insert(j)
  PROVE  /\ OutboxTypeOK'
         /\ nextId \in Row
         /\ status[nextId] = "absent"
         /\ status'[nextId] = "pending" /\ attempts'[nextId] = 0
         /\ job'[nextId] = j
         /\ nextId' = nextId + 1
         /\ dlq' = dlq
         /\ \A r \in Row \ {nextId} : /\ status'[r] = status[r]
                                      /\ attempts'[r] = attempts[r]
                                      /\ job'[r] = job[r]
                                      /\ r >= nextId <=> r >= nextId'
<1> USE OutboxAssumption DEF OutboxTypeOK
<1>1. nextId \in Row /\ nextId' = nextId + 1 /\ dlq' = dlq
  BY DEF Insert
<1>2. nextId' \in 1..(MaxRows + 1)
  BY <1>1 DEF Row
<1>3. status' \in [Row -> Status]
  BY <1>1 DEF Insert, Status
<1>4. attempts' \in [Row -> Nat] /\ wait' \in [Row -> Nat]
  BY <1>1 DEF Insert
<1>5. job' \in [Row -> Job \cup {NoJob}]
  BY <1>1 DEF Insert
<1>6. status[nextId] = "absent"
  BY <1>1 DEF RowInv, Row
<1>7. /\ status'[nextId] = "pending" /\ attempts'[nextId] = 0
      /\ job'[nextId] = j
  BY <1>1 DEF Insert
<1>8. \A r \in Row \ {nextId} : /\ status'[r] = status[r]
                                /\ attempts'[r] = attempts[r]
                                /\ job'[r] = job[r]
  BY <1>1 DEF Insert
<1>9. \A r \in Row \ {nextId} : r >= nextId <=> r >= nextId'
  BY <1>1 DEF Row
<1> QED
  BY <1>1, <1>2, <1>3, <1>4, <1>5, <1>6, <1>7, <1>8, <1>9

\* The new row is pending and was never tried.
LEMMA FreshRow ==
  ASSUME OutboxTypeOK,
         \A r \in Row : RowInv(r),
         NEW j \in Job, Insert(j),
         NEW r \in Row, r = nextId,
         tries'[r] = tries[r]
  PROVE  RowInv(r)'
<1>1. /\ status[r] = "absent" /\ nextId' = nextId + 1 /\ dlq' = dlq
      /\ status'[r] = "pending" /\ attempts'[r] = 0 /\ job'[r] = j
  BY InsertRow
<1>2. tries[r] = 0 /\ dlq[r] = 0
  BY <1>1 DEF RowInv
<1>3. ~(r >= nextId')
  BY <1>1 DEF Row, OutboxTypeOK
<1> QED
  BY <1>1, <1>2, <1>3, OutboxAssumption DEF RowInv

\* A step that leaves the tables, the counters and the effects alone keeps
\* RowInv.
LEMMA RowsUntouched ==
  ASSUME \A r \in Row : RowInv(r),
         UNCHANGED <<outbox, history>>
  PROVE  \A r \in Row : RowInv(r)'
  BY DEF RowInv, Worked, Successors, outbox, history

-----------------------------------------------------------------------------
(* Producers, the loops of the processes and the clock *)

LEMMA EnqueueIInv == ASSUME IInv, Enqueue PROVE IInv'
<1> USE DEF IInv
<1>1. PICK j \in ProducerJobs : Insert(j)
  BY DEF Enqueue
<1>2. j \in Job
  BY <1>1, WorkerAssumption
<1>3. UNCHANGED <<control, pc, locks, batch, cur, seen, history, faults>>
  BY DEF Enqueue
<1>4. OutboxTypeOK' /\ nextId \in Row /\ status[nextId] = "absent"
  BY <1>1, <1>2, InsertRow DEF TypeOK
<1>5. \A r \in Row : Worked(r) => Worked(r)'
  BY <1>3 DEF Worked, Successors, history
<1>6. TypeOK'
  BY <1>3, <1>4 DEF TypeOK, control, history
<1>7. ExclusiveClaim'
  BY <1>3, NothingTaken DEF Owns, Held
<1>8. ASSUME NEW t \in Threads PROVE ThreadInv(t)'
  <2>1. \A r \in Owns(t) : r \in Row \ {nextId}
    BY <1>4 DEF ThreadInv, Owns, Held, TypeOK, NoRow
  <2> QED
    BY <1>1, <1>2, <1>3, <1>5, <2>1, ThreadFrame, InsertRow DEF TypeOK, history
<1>9. ASSUME NEW r \in Row PROVE RowInv(r)'
  <2>1. CASE r = nextId
    BY <1>1, <1>2, <1>3, <2>1, FreshRow DEF TypeOK, history
  <2>2. CASE r # nextId
    BY <1>1, <1>2, <1>3, <1>5, <2>2, InsertRow, RowFrame DEF TypeOK, history
  <2> QED
    BY <2>1, <2>2
<1> QED
  BY <1>6, <1>7, <1>8, <1>9

LEMMA StartIInv == ASSUME IInv, NEW p \in Processes, Start(p) PROVE IInv'
<1> USE DEF IInv
<1>1. UNCHANGED <<outbox, locks, batch, cur, seen, history, faults>>
  BY DEF Start
<1>2. TypeOK'
  BY <1>1, WorkerAssumption
  DEF Start, TypeOK, OutboxTypeOK, outbox, history, PC
<1>3. ExclusiveClaim'
  BY <1>1, NothingTaken DEF Owns, Held
<1>4. ASSUME NEW t \in Threads PROVE ThreadInv(t)'
  <2>1. pc'[t] = pc[t] \/ (pc[t] = "raised" /\ pc'[t] = "idle")
    BY DEF Start, ThreadsOf, TypeOK
  <2> QED
    BY <1>1, <2>1 DEF ThreadInv, Worked, Successors, outbox, history
<1>5. \A r \in Row : RowInv(r)'
  BY <1>1, RowsUntouched
<1> QED
  BY <1>2, <1>3, <1>4, <1>5

LEMMA RoundIInv == ASSUME IInv, NEW p \in Processes, Round(p) PROVE IInv'
<1> USE DEF IInv
<1>1. UNCHANGED <<outbox, control, locks, batch, cur, seen, history, faults>>
  BY DEF Round
<1>2. TypeOK'
  BY <1>1 DEF Round, TypeOK, OutboxTypeOK, outbox, control, history, PC
<1>3. ExclusiveClaim'
  BY <1>1, NothingTaken DEF Owns, Held
<1>4. ASSUME NEW t \in Threads PROVE ThreadInv(t)'
  <2>1. pc'[t] = pc[t] \/ (pc[t] = "idle" /\ pc'[t] = "tick")
    BY DEF Round, ThreadsOf, TypeOK
  <2> QED
    BY <1>1, <2>1 DEF ThreadInv, Worked, Successors, outbox, history
<1>5. \A r \in Row : RowInv(r)'
  BY <1>1, RowsUntouched
<1> QED
  BY <1>2, <1>3, <1>4, <1>5

LEMMA CancelIInv == ASSUME IInv, NEW u \in Threads, Cancel(u) PROVE IInv'
<1> USE DEF IInv
<1>1. UNCHANGED <<outbox, control, locks, batch, cur, seen, history, faults>>
  BY DEF Cancel
<1>2. TypeOK'
  BY <1>1 DEF Cancel, TypeOK, OutboxTypeOK, outbox, control, history, PC
<1>3. ExclusiveClaim'
  BY <1>1, NothingTaken DEF Owns, Held
<1>4. ASSUME NEW t \in Threads PROVE ThreadInv(t)'
  <2>1. pc'[t] = pc[t] \/ (pc[t] = "tick" /\ pc'[t] = "idle")
    BY DEF Cancel, TypeOK
  <2> QED
    BY <1>1, <2>1 DEF ThreadInv, Worked, Successors, outbox, history
<1>5. \A r \in Row : RowInv(r)'
  BY <1>1, RowsUntouched
<1> QED
  BY <1>2, <1>3, <1>4, <1>5

LEMMA TickIInv == ASSUME IInv, Tick PROVE IInv'
<1> USE DEF IInv
<1>1. UNCHANGED <<nextId, status, attempts, job, dlq>>
  BY DEF Tick, PassSecond
<1>2. UNCHANGED <<control, pc, locks, batch, cur, seen, history, faults>>
  BY DEF Tick
<1>3. wait' \in [Row -> Nat]
  BY DEF Tick, PassSecond, TypeOK, OutboxTypeOK
<1>4. TypeOK'
  BY <1>1, <1>2, <1>3 DEF TypeOK, OutboxTypeOK, control, history
<1>5. ExclusiveClaim'
  BY <1>2, NothingTaken DEF Owns, Held
<1>6. \A t \in Threads : ThreadInv(t)'
  BY <1>1, <1>2 DEF ThreadInv, Worked, Successors, history
<1>7. \A r \in Row : RowInv(r)'
  BY <1>1, <1>2 DEF RowInv, Worked, Successors, history
<1> QED
  BY <1>4, <1>5, <1>6, <1>7

-----------------------------------------------------------------------------
(* claim_batch *)

\* A row that is pending and not locked belongs to nobody.
LEMMA DueIsFree ==
  ASSUME TypeOK,
         \A t \in Threads : ThreadInv(t),
         NEW r \in Due \ Locked, NEW t \in Threads
  PROVE  r \notin Owns(t)
  BY DEF Due, Locked, Owns, Held, ThreadInv, TypeOK

LEMMA ClaimLockIInv == ASSUME IInv, NEW u \in Threads, ClaimLock(u) PROVE IInv'
<1> USE DEF IInv
<1> DEFINE S == FirstBatch(Due \ Locked)
<1>1. UNCHANGED <<outbox, control, batch, cur, seen, history, faults>>
  BY DEF ClaimLock
<1>2. S \subseteq Row /\ S \subseteq Due \ Locked
  BY DEF FirstBatch, Due
<1>3. /\ pc[u] = "tick" /\ pc' = [pc EXCEPT ![u] = "claim"]
      /\ locks' = [locks EXCEPT ![u] = S]
  BY DEF ClaimLock
<1> HIDE DEF S
<1>4. TypeOK'
  BY <1>1, <1>2, <1>3
  DEF TypeOK, OutboxTypeOK, outbox, control, history, PC
<1>5. \A t \in Threads \ {u} : Owns(t)' = Owns(t) /\ S \cap Owns(t) = {}
  BY <1>1, <1>2, <1>3, DueIsFree DEF Owns, Held, TypeOK
<1>6. Owns(u)' \subseteq Owns(u) \cup S
  BY <1>1, <1>3 DEF Owns, Held, TypeOK
<1>7. ExclusiveClaim'
  <2> SUFFICES ASSUME NEW t1 \in Threads, NEW t2 \in Threads, t1 # t2
               PROVE  Owns(t1)' \cap Owns(t2)' = {}
    BY DEF ExclusiveClaim
  <2>1. Owns(t1) \cap Owns(t2) = {}
    BY DEF ExclusiveClaim
  <2> QED
    BY <1>5, <1>6, <2>1
<1>8. ASSUME NEW t \in Threads PROVE ThreadInv(t)'
  <2>1. CASE t = u
    <3>1. \A r \in S : status[r] = "pending"
      BY <1>2 DEF Due
    <3>2. /\ pc'[u] = "claim" /\ locks'[u] = S
          /\ batch'[u] = {} /\ cur'[u] = NoRow /\ status' = status
      <4>1. /\ ThreadInv(u) /\ pc \in [Threads -> PC] /\ locks \in [Threads -> SUBSET Row]
        BY DEF TypeOK
      <4> HIDE DEF IInv
      <4>2. batch[u] = {} /\ cur[u] = NoRow
        BY <1>3, <4>1 DEF ThreadInv
      <4> QED
        BY <1>1, <1>3, <4>1, <4>2 DEF outbox
    <3> QED
      BY <2>1, <3>1, <3>2 DEF ThreadInv
  <2>2. CASE t # u
    <3>1. /\ pc'[t] = pc[t] /\ locks'[t] = locks[t] /\ batch'[t] = batch[t]
          /\ cur'[t] = cur[t] /\ seen'[t] = seen[t]
      BY <1>1, <1>3, <2>2 DEF TypeOK
    <3>2. \A r : Worked(r) => Worked(r)'
      BY <1>1 DEF Worked, Successors, history
    <3> QED
      BY <1>1, <3>1, <3>2, ThreadFrame DEF outbox, history
  <2> QED
    BY <2>1, <2>2
<1>9. \A r \in Row : RowInv(r)'
  BY <1>1, RowsUntouched
<1> QED
  BY <1>4, <1>7, <1>8, <1>9

\* The UPDATE of the claim that thread u has open, with or without what thread
\* u makes of it: every row it writes was pending and is u's alone.
LEMMA ClaimUpdateRows ==
  ASSUME IInv, NEW u \in Threads, ClaimUpdate(locks[u]),
         UNCHANGED history
  PROVE  /\ OutboxTypeOK'
         /\ \A r \in Row : RowInv(r)'
         /\ \A t \in Threads \ {u} : \A r \in Owns(t) :
              /\ status'[r] = status[r]
              /\ attempts'[r] = attempts[r]
              /\ tries'[r] = tries[r]
              /\ Worked(r) => Worked(r)'
<1> USE DEF IInv
<1>1. UNCHANGED <<nextId, attempts, wait, job, dlq>>
  BY DEF ClaimUpdate
<1>2. status' = [r \in Row |-> IF r \in locks[u] THEN "processing" ELSE status[r]]
  BY DEF ClaimUpdate
<1>3. OutboxTypeOK'
  BY <1>1, <1>2 DEF TypeOK, OutboxTypeOK, Status
<1>4. \A r \in locks[u] : r \in Row /\ status[r] = "pending"
  BY DEF ThreadInv, TypeOK
<1>5. ASSUME NEW r \in Row PROVE RowInv(r)'
  <2>1. CASE r \in locks[u]
    BY <1>1, <1>2, <1>4, <2>1
    DEF RowInv, TypeOK, OutboxTypeOK, history
  <2>2. CASE r \notin locks[u]
    <3>1. Worked(r) => Worked(r)'
      BY DEF Worked, Successors, history
    <3> QED
      BY <1>1, <1>2, <2>2, <3>1, RowFrame DEF history
  <2> QED
    BY <2>1, <2>2
<1>6. ASSUME NEW t \in Threads \ {u}, NEW r \in Owns(t)
      PROVE  /\ status'[r] = status[r]
             /\ attempts'[r] = attempts[r]
             /\ tries'[r] = tries[r]
             /\ Worked(r) => Worked(r)'
  <2>1. r \notin locks[u] /\ r \in Row
    BY <1>6 DEF ExclusiveClaim, Owns, Held, TypeOK, NoRow
  <2> QED
    BY <1>1, <1>2, <2>1 DEF Worked, Successors, history
<1> QED
  BY <1>3, <1>5, <1>6

LEMMA ClaimCommitIInv ==
  ASSUME IInv, NEW u \in Threads, ClaimCommit(u) PROVE IInv'
<1> USE DEF IInv
<1>1. UNCHANGED <<control, cur, history, faults>> /\ ClaimUpdate(locks[u])
  BY DEF ClaimCommit, CallReturns
<1>2. /\ pc[u] = "claim" /\ pc' = [pc EXCEPT ![u] = "rows"]
      /\ locks' = [locks EXCEPT ![u] = {}]
      /\ batch' = [batch EXCEPT ![u] = locks[u]]
      /\ seen' = [seen EXCEPT ![u] =
                   [r \in Row |-> IF r \in locks[u] THEN attempts[r] ELSE 0]]
  BY DEF ClaimCommit
<1>3. TypeOK'
  <2>1. OutboxTypeOK'
    BY <1>1, ClaimUpdateRows
  <2>2. [r \in Row |-> IF r \in locks[u] THEN attempts[r] ELSE 0] \in [Row -> Nat]
    BY DEF TypeOK, OutboxTypeOK
  <2> QED
    BY <1>1, <1>2, <2>1, <2>2 DEF TypeOK, control, history, PC
<1>4. ExclusiveClaim'
  <2>1. batch[u] = {} /\ cur[u] = NoRow
    BY <1>2 DEF ThreadInv
  <2>2. \A t \in Threads : Owns(t)' \subseteq Owns(t)
    BY <1>1, <1>2, <2>1 DEF Owns, Held, TypeOK
  <2> QED
    BY <2>2, NothingTaken
<1>5. ASSUME NEW t \in Threads PROVE ThreadInv(t)'
  <2>1. CASE t = u
    <3>1. cur'[u] = NoRow /\ pc'[u] = "rows" /\ locks'[u] = {}
      BY <1>1, <1>2 DEF ThreadInv, TypeOK
    <3>2. \A r \in batch'[u] : r \in locks[u] /\ r \in Row /\ status[r] = "pending"
      BY <1>2 DEF TypeOK, ThreadInv
    <3>3. ASSUME NEW r \in batch'[u]
          PROVE  /\ status'[r] = "processing"
                 /\ seen'[u][r] = attempts'[r]
                 /\ tries'[r] = attempts'[r]
      <4>1. tries[r] = attempts[r]
        BY <3>2 DEF RowInv
      <4>2. status'[r] = "processing" /\ attempts'[r] = attempts[r]
        BY <1>1, <3>2 DEF ClaimUpdate
      <4>3. seen'[u][r] = attempts[r]
        BY <1>2, <3>2 DEF TypeOK
      <4> QED
        BY <1>1, <4>1, <4>2, <4>3 DEF history
    <3>4. NoRow \notin batch'[u]
      BY <3>2 DEF Row, NoRow
    <3> QED
      BY <2>1, <3>1, <3>3, <3>4 DEF ThreadInv
  <2>2. CASE t # u
    <3>1. /\ pc'[t] = pc[t] /\ locks'[t] = locks[t] /\ batch'[t] = batch[t]
          /\ cur'[t] = cur[t] /\ seen'[t] = seen[t]
      BY <1>1, <1>2, <2>2 DEF TypeOK
    <3> QED
      BY <1>1, <2>2, <3>1, ThreadFrame, ClaimUpdateRows
  <2> QED
    BY <2>1, <2>2
<1>6. \A r \in Row : RowInv(r)'
  BY <1>1, ClaimUpdateRows
<1> QED
  BY <1>3, <1>4, <1>5, <1>6

-----------------------------------------------------------------------------
(* Exceptions that leave run_once *)

\* A thread that raises lets go of everything and disturbs no other thread.
LEMMA RaiseThread ==
  ASSUME TypeOK, ExclusiveClaim, NEW u \in Threads, Raise(u)
  PROVE  /\ ExclusiveClaim'
         /\ ThreadInv(u)'
         /\ loop' \in [Processes -> BOOLEAN]
         /\ version' \in [Processes -> WorkerVersions]
         /\ pc' \in [Threads -> PC]
         /\ locks' \in [Threads -> SUBSET Row]
         /\ batch' \in [Threads -> SUBSET Row]
         /\ cur' \in [Threads -> Row \cup {NoRow}]
         /\ seen' \in [Threads -> [Row -> Nat]]
         /\ UNCHANGED history
         /\ \A t \in Threads \ {u} :
              /\ pc'[t] = pc[t] /\ locks'[t] = locks[t] /\ batch'[t] = batch[t]
              /\ cur'[t] = cur[t] /\ seen'[t] = seen[t]
<1> USE DEF TypeOK
<1>1. /\ pc'[u] = "raised" /\ locks'[u] = {} /\ batch'[u] = {}
      /\ cur'[u] = NoRow
  BY DEF Raise
<1>2. \A t \in Threads \ {u} :
         /\ pc'[t] = pc[t] /\ locks'[t] = locks[t] /\ batch'[t] = batch[t]
         /\ cur'[t] = cur[t] /\ seen'[t] = seen[t]
  BY DEF Raise
<1>3. /\ loop' \in [Processes -> BOOLEAN]
      /\ version' \in [Processes -> WorkerVersions]
      /\ pc' \in [Threads -> PC]
      /\ locks' \in [Threads -> SUBSET Row]
      /\ batch' \in [Threads -> SUBSET Row]
      /\ cur' \in [Threads -> Row \cup {NoRow}]
      /\ seen' \in [Threads -> [Row -> Nat]]
      /\ UNCHANGED history
  BY WorkerAssumption DEF Raise, PC, NothingSeen
<1>4. ThreadInv(u)'
  BY <1>1 DEF ThreadInv, NoRow
<1>5. \A t \in Threads : Owns(t)' \subseteq Owns(t)
  BY <1>1, <1>2 DEF Owns, Held
<1> QED
  BY <1>2, <1>3, <1>4, <1>5, NothingTaken

\* A step of thread u that writes no row but u's own, and no history, keeps the
\* invariant of every thread that does not move.
LEMMA OthersKeep ==
  ASSUME IInv, NEW u \in Threads, UNCHANGED history,
         \A t \in Threads \ {u} :
            /\ pc'[t] = pc[t] /\ locks'[t] = locks[t] /\ batch'[t] = batch[t]
            /\ cur'[t] = cur[t] /\ seen'[t] = seen[t],
         \A r \in Row \ Owns(u) : status'[r] = status[r] /\ attempts'[r] = attempts[r]
  PROVE  \A t \in Threads \ {u} : ThreadInv(t)'
<1> SUFFICES ASSUME NEW t \in Threads \ {u} PROVE ThreadInv(t)'
  OBVIOUS
<1>1. ThreadInv(t)
  BY DEF IInv
<1>2. \A r \in Owns(t) : r \in Row \ Owns(u)
  <2>1. Owns(t) \subseteq Row
    BY DEF IInv, TypeOK, Owns, Held
  <2>2. Owns(t) \cap Owns(u) = {}
    BY DEF IInv, ExclusiveClaim
  <2> QED
    BY <2>1, <2>2
<1>3. \A r : Worked(r) => Worked(r)'
  BY DEF Worked, Successors, history
<1> QED
  BY <1>1, <1>2, <1>3, ThreadFrame DEF history

LEMMA ClaimRaisesIInv ==
  ASSUME IInv, NEW u \in Threads, ClaimRaises(u) PROVE IInv'
<1>1. Raise(u) /\ (ClaimUpdate(locks[u]) \/ UNCHANGED outbox)
  BY DEF ClaimRaises, CallRaises
<1>2. faults' \in 0..MaxFaults
  BY WorkerAssumption DEF ClaimRaises, CallRaises, Fault, IInv, TypeOK
<1>3. TypeOK /\ ExclusiveClaim
  BY DEF IInv
<1>4. UNCHANGED history /\ ExclusiveClaim' /\ ThreadInv(u)'
  BY <1>1, <1>3, RaiseThread
<1>5. /\ OutboxTypeOK'
      /\ \A r \in Row : RowInv(r)'
      /\ \A r \in Row \ Owns(u) : status'[r] = status[r] /\ attempts'[r] = attempts[r]
  <2>1. CASE ClaimUpdate(locks[u])
    <3>1. \A r \in Row \ Owns(u) : r \notin locks[u]
      BY DEF Owns
    <3> QED
      BY <1>4, <2>1, <3>1, ClaimUpdateRows DEF ClaimUpdate
  <2>2. CASE UNCHANGED outbox
    BY <1>3, <1>4, <2>2, RowsUntouched DEF IInv, TypeOK, OutboxTypeOK, outbox
  <2> QED
    BY <1>1, <2>1, <2>2
<1>6. TypeOK'
  <2>1. UNCHANGED <<tries, loads, parent>>
    BY <1>4 DEF history
  <2> QED
    BY <1>1, <1>2, <1>3, <1>5, <2>1, RaiseThread DEF TypeOK
<1>7. \A t \in Threads \ {u} : ThreadInv(t)'
  BY <1>1, <1>3, <1>5, RaiseThread, OthersKeep
<1> QED
  BY <1>4, <1>5, <1>6, <1>7 DEF IInv

-----------------------------------------------------------------------------
(* process_row *)

\* What Reenqueue and Dispatch have in common: row x leaves the batch and
\* becomes the current row with one try more, nobody's work is undone, and
\* no existing row is written.
LEMMA TakeIInv ==
  ASSUME IInv, NEW u \in Threads, NEW x \in Row, Take(u, x),
         OutboxTypeOK',
         loads' \in [Row -> Nat],
         parent' \in [Row -> Row \cup {NoRow}],
         faults' \in 0..MaxFaults,
         NEW q \in {"ack", "nack"}, pc' = [pc EXCEPT ![u] = q],
         q = "ack" => Worked(x)',
         \A r \in Row : Worked(r) => Worked(r)',
         \A r \in Row : status[r] = "absent" => RowInv(r)',
         \A r \in Row : status[r] # "absent" =>
           /\ status'[r] = status[r]
           /\ attempts'[r] = attempts[r]
           /\ dlq'[r] = dlq[r]
           /\ job'[r] = job[r]
           /\ r >= nextId <=> r >= nextId'
  PROVE  IInv'
<1> USE DEF IInv
<1>1. /\ pc[u] = "rows" /\ x \in batch[u]
      /\ batch' = [batch EXCEPT ![u] = @ \ {x}]
      /\ cur' = [cur EXCEPT ![u] = x]
      /\ tries' = [tries EXCEPT ![x] = @ + 1]
      /\ UNCHANGED <<control, locks, seen>>
  BY DEF Take
<1>2. TypeOK'
  BY <1>1 DEF TypeOK, control, PC
<1>3. cur[u] = NoRow /\ locks[u] = {}
  BY <1>1 DEF ThreadInv
<1>4. ExclusiveClaim'
  <2>1. \A t \in Threads : Owns(t)' \subseteq Owns(t)
    BY <1>1 DEF Owns, Held, TypeOK
  <2> QED
    BY <2>1, NothingTaken
<1>5. /\ status[x] = "processing" /\ tries[x] = attempts[x]
      /\ seen[u][x] = attempts[x]
  BY <1>1 DEF ThreadInv
<1>6. x # NoRow
  BY DEF Row, NoRow
<1>7. ASSUME NEW t \in Threads \ {u} PROVE ThreadInv(t)'
  <2>1. /\ pc'[t] = pc[t] /\ locks'[t] = locks[t] /\ batch'[t] = batch[t]
        /\ cur'[t] = cur[t] /\ seen'[t] = seen[t]
    BY <1>1 DEF TypeOK
  <2>2. ASSUME NEW r \in Owns(t)
        PROVE  r \in Row \ {x} /\ status[r] # "absent"
    <3>1. x \in Owns(u)
      BY <1>1 DEF Owns, Held
    <3>2. r # x
      BY <2>2, <3>1 DEF ExclusiveClaim
    <3>3. r \in Row
      BY <2>2 DEF Owns, Held, TypeOK
    <3>4. ThreadInv(t)
      OBVIOUS
    <3>5. status[r] # "absent"
      BY <2>2, <3>4 DEF ThreadInv, Owns, Held
    <3> QED
      BY <3>2, <3>3, <3>5
  <2>3. \A r \in Owns(t) : tries'[r] = tries[r]
    BY <1>1, <2>2 DEF TypeOK
  <2>4. ThreadInv(t)
    OBVIOUS
  <2> QED
    BY <2>1, <2>2, <2>3, <2>4, ThreadFrame
<1>8. ThreadInv(u)'
  <2>1. /\ cur'[u] = x /\ pc'[u] = q /\ locks'[u] = {}
        /\ batch'[u] = batch[u] \ {x} /\ seen'[u] = seen[u]
    BY <1>1, <1>3 DEF TypeOK
  <2>2. /\ status'[x] = "processing" /\ seen'[u][x] = attempts'[x]
        /\ tries'[x] = attempts'[x] + 1
    BY <1>1, <1>5, <2>1 DEF TypeOK
  <2>3. ASSUME NEW r \in batch[u] \ {x}
        PROVE  /\ status'[r] = "processing" /\ seen'[u][r] = attempts'[r]
               /\ tries'[r] = attempts'[r]
    <3>1. /\ r \in Row /\ status[r] = "processing" /\ seen[u][r] = attempts[r]
          /\ tries[r] = attempts[r]
      BY <2>3 DEF TypeOK, ThreadInv
    <3>2. tries'[r] = tries[r]
      BY <1>1, <2>3, <3>1 DEF TypeOK
    <3> QED
      BY <2>1, <3>1, <3>2
  <2>4. pc'[u] = "ack" => Worked(cur[u])'
    <3>1. (cur[u])' = x
      BY <2>1
    <3> QED
      BY <2>1, <3>1 DEF Worked, Successors
  <2> QED
    BY <1>6, <2>1, <2>2, <2>3, <2>4 DEF ThreadInv
<1>9. ASSUME NEW r \in Row PROVE RowInv(r)'
  <2>1. CASE status[r] = "absent"
    BY <2>1
  <2>2. CASE r = x
    BY <1>1, <1>5, <2>2 DEF RowInv, TypeOK, OutboxTypeOK
  <2>3. CASE status[r] # "absent" /\ r # x
    <3>1. tries'[r] = tries[r] /\ RowInv(r)
      BY <1>1, <2>3 DEF TypeOK
    <3> QED
      BY <2>3, <3>1, RowFrame
  <2> QED
    BY <2>1, <2>2, <2>3
<1> QED
  BY <1>2, <1>4, <1>7, <1>8, <1>9

LEMMA ReenqueueIInv ==
  ASSUME IInv, NEW u \in Threads, NEW x \in Row, Reenqueue(u, x) PROVE IInv'
<1> DEFINE j == ReenqueuedJob(u, x)
<1>1. Take(u, x) /\ UNCHANGED loads
  BY DEF Reenqueue
<1>2. TypeOK /\ \A r \in Row : RowInv(r)
  BY DEF IInv
<1>3. /\ status[x] = "processing"
      /\ \A r \in Row \ {x} : tries'[r] = tries[r]
  BY <1>1, <1>2 DEF Take, IInv, ThreadInv, TypeOK
<1>4. faults' \in 0..MaxFaults
  BY <1>2, WorkerAssumption DEF Reenqueue, CallReturns, Fault, TypeOK
<1>5. j \in Job
  BY <1>2, <1>3, WorkerAssumption DEF RowInv, TypeOK, ReenqueuedJob, Job
<1>6. ASSUME Insert(j), Successor(x), NEW q \in {"ack", "nack"},
             pc' = [pc EXCEPT ![u] = q]
      PROVE  IInv'
  <2>1. /\ OutboxTypeOK' /\ nextId \in Row /\ status[nextId] = "absent"
        /\ dlq' = dlq
        /\ \A r \in Row \ {nextId} : /\ status'[r] = status[r]
                                     /\ attempts'[r] = attempts[r]
                                     /\ job'[r] = job[r]
                                     /\ r >= nextId <=> r >= nextId'
    BY <1>2, <1>5, <1>6, InsertRow DEF TypeOK
  <2>2. parent' \in [Row -> Row \cup {NoRow}] /\ parent'[nextId] = x
    BY <1>2, <1>6, <2>1 DEF Successor, TypeOK
  <2>3. Worked(x)'
    BY <2>1, <2>2 DEF Worked, Successors
  <2>4. ASSUME NEW r \in Row, Worked(r) PROVE Worked(r)'
    <3>1. CASE loads[r] > 0
      BY <1>1, <3>1 DEF Worked
    <3>2. CASE Successors(r) # {}
      <4>1. PICK s \in Row : parent[s] = r
        BY <3>2 DEF Successors
      <4>2. s # nextId
        BY <1>2, <2>1, <4>1 DEF RowInv, Row, NoRow
      <4>3. parent'[s] = r
        BY <1>2, <1>6, <4>1, <4>2 DEF Successor, TypeOK
      <4> QED
        BY <4>3 DEF Worked, Successors
    <3> QED
      BY <2>4, <3>1, <3>2 DEF Worked
  <2>5. ASSUME NEW r \in Row, status[r] = "absent" PROVE RowInv(r)'
    <3>1. tries'[r] = tries[r]
      BY <1>3, <2>5
    <3>2. CASE r = nextId
      BY <1>2, <1>5, <1>6, <3>1, <3>2, FreshRow DEF TypeOK
    <3>3. CASE r # nextId
      <4>1. parent'[r] = parent[r]
        BY <1>2, <1>6, <3>3 DEF Successor, TypeOK
      <4>2. RowInv(r)
        BY <1>2
      <4> QED
        BY <2>1, <2>4, <3>1, <3>3, <4>1, <4>2, RowFrame
    <3> QED
      BY <3>2, <3>3
  <2>6. loads' \in [Row -> Nat]
    BY <1>1, <1>2 DEF TypeOK
  <2>7. ASSUME NEW r \in Row, status[r] # "absent"
        PROVE  /\ status'[r] = status[r] /\ attempts'[r] = attempts[r]
               /\ dlq'[r] = dlq[r] /\ job'[r] = job[r]
               /\ r >= nextId <=> r >= nextId'
    BY <2>1, <2>7
  <2> QED
    BY <1>1, <1>4, <1>6, <2>1, <2>2, <2>3, <2>4, <2>5, <2>6, <2>7, TakeIInv
<1>7. ASSUME UNCHANGED <<outbox, parent>>, pc' = [pc EXCEPT ![u] = "nack"]
      PROVE  IInv'
  <2>1. OutboxTypeOK'
    BY <1>2, <1>7 DEF TypeOK, OutboxTypeOK, outbox
  <2>2. \A r \in Row : Worked(r) => Worked(r)'
    BY <1>1, <1>7 DEF Worked, Successors
  <2>3. ASSUME NEW r \in Row, status[r] = "absent" PROVE RowInv(r)'
    <3>1. RowInv(r) /\ tries'[r] = tries[r]
      BY <1>2, <1>3, <2>3
    <3> QED
      BY <1>7, <2>2, <3>1, RowFrame DEF outbox
  <2>4. loads' \in [Row -> Nat] /\ parent' \in [Row -> Row \cup {NoRow}]
    BY <1>1, <1>2, <1>7 DEF TypeOK
  <2> QED
    BY <1>1, <1>4, <1>7, <2>1, <2>2, <2>3, <2>4, TakeIInv DEF outbox
<1> QED
  BY <1>6, <1>7 DEF Reenqueue, CallReturns

LEMMA DispatchIInv ==
  ASSUME IInv, NEW u \in Threads, NEW x \in Row, Dispatch(u, x) PROVE IInv'
<1>1. Take(u, x) /\ UNCHANGED <<outbox, parent>>
  BY DEF Dispatch
<1>2. TypeOK /\ \A r \in Row : RowInv(r)
  BY DEF IInv
<1>3. /\ status[x] = "processing"
      /\ \A r \in Row \ {x} : tries'[r] = tries[r]
  BY <1>1, <1>2 DEF Take, IInv, ThreadInv, TypeOK
<1>4. faults' \in 0..MaxFaults
  BY <1>2, WorkerAssumption DEF Dispatch, Fault, TypeOK
<1>5. /\ OutboxTypeOK'
      /\ loads' \in [Row -> Nat]
      /\ parent' \in [Row -> Row \cup {NoRow}]
  <2>1. OutboxTypeOK'
    BY <1>1, <1>2 DEF TypeOK, OutboxTypeOK, outbox
  <2>2. loads' \in [Row -> Nat]
    BY <1>2 DEF Dispatch, TypeOK
  <2> QED
    BY <1>1, <1>2, <2>1, <2>2 DEF TypeOK
<1>6. \A r \in Row : loads'[r] >= loads[r]
  <2>1. loads' = loads \/ loads' = [loads EXCEPT ![x] = @ + 1]
    BY DEF Dispatch
  <2>2. loads \in [Row -> Nat]
    BY <1>2 DEF TypeOK
  <2> QED
    BY <2>1, <2>2
<1>7. \A r \in Row : Worked(r) => Worked(r)'
  BY <1>1, <1>2, <1>5, <1>6 DEF Worked, Successors, TypeOK
<1>8. ASSUME NEW r \in Row, status[r] = "absent" PROVE RowInv(r)'
  <2>1. RowInv(r) /\ tries'[r] = tries[r]
    BY <1>2, <1>3, <1>8
  <2> QED
    BY <1>1, <1>7, <2>1, RowFrame DEF outbox
<1>9. PICK q \in {"ack", "nack"} : /\ pc' = [pc EXCEPT ![u] = q]
                                   /\ q = "ack" => loads'[x] = loads[x] + 1
  BY <1>2 DEF Dispatch, TypeOK
<1>10. q = "ack" => Worked(x)'
  BY <1>2, <1>9 DEF Worked, TypeOK
<1> QED
  BY <1>1, <1>4, <1>5, <1>7, <1>8, <1>9, <1>10, TakeIInv DEF outbox

-----------------------------------------------------------------------------
(* Powers of two.                                                          *)

\* The first powers of two, up to that of m
Doubled(f, m) == f[0] = 1 /\ \A k \in 1..m : f[k] = 2 * f[k - 1]
UpTo(m) == {f \in [0..m -> Nat] : Doubled(f, m)}

\* A set of naturals has a least element
LEMMA Least ==
  ASSUME NEW S, S \subseteq Nat, S # {}
  PROVE  \E n \in S : \A k \in S : n <= k
<1>1. PICK n \in S : \A k \in S : ~(<<k, n>> \in OpToRel(<, Nat))
  BY NatLessThanWellFounded, WFMin
<1>2. \A k \in S : ~(k < n)
  BY <1>1, Zenon DEF OpToRel
<1> QED BY <1>2

LEMMA UpToExists == \A m \in Nat : UpTo(m) # {}
<1> DEFINE S == {m \in Nat : UpTo(m) = {}}
<1>1. SUFFICES ASSUME S # {} PROVE FALSE
  OBVIOUS
<1>2. PICK m \in S : \A k \in S : m <= k
  <2> HIDE DEF S
  <2>1. S \subseteq Nat
    BY DEF S
  <2> QED BY <1>1, <2>1, Least
<1>3. CASE m = 0
  <2>1. [k \in 0..0 |-> 1] \in UpTo(0)
    BY DEF UpTo, Doubled
  <2> QED BY <1>2, <1>3, <2>1
<1>4. CASE m # 0
  <2>1. m - 1 \in Nat /\ m - 1 \notin S
    BY <1>2, <1>4
  <2>2. PICK f \in UpTo(m - 1) : TRUE
    BY <2>1
  <2> DEFINE g == [k \in 0..m |-> IF k = m THEN 2 * f[m - 1] ELSE f[k]]
  <2>3. f \in [0..(m - 1) -> Nat] /\ f[0] = 1 /\ \A k \in 1..(m - 1) : f[k] = 2 * f[k - 1]
    BY DEF UpTo, Doubled
  <2>4. m - 1 \in 0..(m - 1) /\ \A k \in 0..m : k # m => k \in 0..(m - 1)
    BY <2>1
  <2>5. g \in [0..m -> Nat]
    BY <2>3, <2>4
  <2>6. g[0] = 1
    BY <1>4, <2>1, <2>3
  <2>7. ASSUME NEW k \in 1..m PROVE g[k] = 2 * g[k - 1]
    <3>1. k \in 0..m /\ k - 1 \in 0..m /\ k - 1 # m /\ m \in Nat
      BY <2>1
    <3>2. g[k - 1] = f[k - 1]
      BY <3>1
    <3>3. CASE k = m
      BY <3>1, <3>2, <3>3
    <3>4. CASE k # m
      <4>1. k \in 1..(m - 1)
        BY <3>1, <3>4
      <4>2. g[k] = f[k]
        BY <3>1, <3>4
      <4> HIDE DEF g
      <4> QED BY <2>3, <3>2, <4>1, <4>2
    <3> QED BY <3>3, <3>4
  <2> HIDE DEF g
  <2>8. g \in UpTo(m)
    BY <2>5, <2>6, <2>7 DEF UpTo, Doubled
  <2> QED BY <1>2, <2>8
<1> QED BY <1>3, <1>4

LEMMA UpToAgree ==
  ASSUME NEW m \in Nat, NEW n \in Nat, NEW f \in UpTo(m), NEW g \in UpTo(n)
  PROVE  \A k \in Nat : k <= m /\ k <= n => f[k] = g[k]
<1> DEFINE S == {k \in Nat : k <= m /\ k <= n /\ f[k] # g[k]}
<1>1. SUFFICES ASSUME S # {} PROVE FALSE
  OBVIOUS
<1>2. PICK k \in S : \A j \in S : k <= j
  <2>1. S \subseteq Nat
    OBVIOUS
  <2> HIDE DEF S
  <2> QED BY <1>1, <2>1, Least
<1>3. /\ f[0] = 1 /\ \A j \in 1..m : f[j] = 2 * f[j - 1]
      /\ g[0] = 1 /\ \A j \in 1..n : g[j] = 2 * g[j - 1]
  BY DEF UpTo, Doubled
<1>4. k # 0 /\ k \in Nat
  BY <1>2, <1>3
<1>5. k - 1 \in Nat /\ ~(k <= k - 1) /\ k - 1 <= m /\ k - 1 <= n
  BY <1>2, <1>4
<1>6. f[k - 1] = g[k - 1]
  BY <1>2, <1>5
<1>7. f[k] = g[k]
  BY <1>2, <1>3, <1>4, <1>6
<1> QED BY <1>2, <1>7

\* What the definition of TwoTo says is so: there is such a function
LEMMA TwoToDoubles ==
  /\ TwoTo \in [Nat -> Nat]
  /\ TwoTo[0] = 1
  /\ \A n \in Nat : TwoTo[n + 1] = 2 * TwoTo[n]
<1> DEFINE Part(m) == CHOOSE f \in UpTo(m) : TRUE
           h == [m \in Nat |-> Part(m)[m]]
           Rec(f) == f = [n \in Nat |-> IF n = 0 THEN 1 ELSE 2 * f[n - 1]]
<1>1. \A m \in Nat : Part(m) \in UpTo(m)
  BY UpToExists
<1> HIDE DEF Part
<1>2. h \in [Nat -> Nat] /\ h[0] = 1
  BY <1>1 DEF UpTo, Doubled
<1>3. ASSUME NEW n \in Nat, n # 0 PROVE h[n] = 2 * h[n - 1]
  <2>1. n - 1 \in Nat /\ n - 1 <= n /\ n \in 1..n
    BY <1>3
  <2>2. Part(n)[n - 1] = Part(n - 1)[n - 1]
    BY <1>1, <2>1, UpToAgree
  <2>3. Part(n)[n] = 2 * Part(n)[n - 1]
    BY <1>1, <2>1 DEF UpTo, Doubled
  <2> QED BY <2>1, <2>2, <2>3
<1>4. h = [n \in Nat |-> h[n]]
  OBVIOUS
<1> HIDE DEF h
<1>5. Rec(h)
  <2>1. \A n \in Nat : h[n] = IF n = 0 THEN 1 ELSE 2 * h[n - 1]
    BY <1>2, <1>3
  <2> QED BY <1>4, <2>1
<1>6. TwoTo = CHOOSE f : Rec(f)
  BY Zenon DEF TwoTo
<1>7. Rec(TwoTo)
  <2> HIDE DEF Rec
  <2> QED BY <1>5, <1>6, Zenon
<1>8. ASSUME NEW n \in Nat PROVE TwoTo[n] = h[n]
  <2> DEFINE S == {k \in Nat : TwoTo[k] # h[k]}
  <2>1. SUFFICES ASSUME S # {} PROVE FALSE
    OBVIOUS
  <2>2. PICK k \in S : \A j \in S : k <= j
    <3>1. S \subseteq Nat
      OBVIOUS
    <3> HIDE DEF S
    <3> QED BY <2>1, <3>1, Least
  <2>3. \A j \in Nat : TwoTo[j] = IF j = 0 THEN 1 ELSE 2 * TwoTo[j - 1]
    BY <1>7
  <2>4. k # 0
    BY <1>2, <2>2, <2>3
  <2>5. k - 1 \in Nat /\ ~(k <= k - 1)
    BY <2>2, <2>4
  <2>6. TwoTo[k - 1] = h[k - 1]
    BY <2>2, <2>5
  <2>7. TwoTo[k] = h[k]
    BY <1>3, <2>2, <2>3, <2>4, <2>6
  <2> QED BY <2>2, <2>7
<1>9. TwoTo = h
  <2>1. TwoTo = [n \in Nat |-> TwoTo[n]]
    BY <1>7
  <2> QED BY <1>4, <1>8, <2>1
<1>10. ASSUME NEW n \in Nat PROVE h[n + 1] = 2 * h[n]
  BY <1>3
<1> QED BY <1>2, <1>9, <1>10

-----------------------------------------------------------------------------
(* ack, nack and the end of a batch *)

\* The statements of ack and nack write the current row only, which stays in
\* the state its new status calls for.
LEMMA AckRow ==
  ASSUME IInv, NEW u \in Threads, pc[u] = "ack", AckUpdate(cur[u]),
         UNCHANGED history
  PROVE  /\ OutboxTypeOK'
         /\ \A r \in Row : RowInv(r)'
         /\ status'[cur[u]] = "done" /\ attempts' = attempts
         /\ \A r \in Row \ {cur[u]} : status'[r] = status[r]
<1> USE DEF IInv
<1>1. PICK x \in Row : x = cur[u]
  BY DEF ThreadInv, TypeOK
<1>2. /\ status[x] = "processing" /\ tries[x] = attempts[x] + 1
      /\ Worked(x)
  BY <1>1 DEF ThreadInv, Worked, Successors
<1>3. /\ status' = [status EXCEPT ![x] = "done"]
      /\ UNCHANGED <<nextId, attempts, wait, job, dlq>>
  BY <1>1 DEF AckUpdate
<1>4. OutboxTypeOK'
  BY <1>3 DEF TypeOK, OutboxTypeOK, Status
<1>5. ASSUME NEW r \in Row PROVE RowInv(r)'
  <2>1. Worked(r) => Worked(r)'
    BY DEF Worked, Successors, history
  <2>2. CASE r = x
    BY <1>2, <1>3, <2>1, <2>2 DEF RowInv, TypeOK, OutboxTypeOK, history
  <2>3. CASE r # x
    BY <1>3, <2>1, <2>3, RowFrame DEF TypeOK, OutboxTypeOK, history
  <2> QED
    BY <2>2, <2>3
<1> QED
  BY <1>1, <1>3, <1>4, <1>5 DEF TypeOK, OutboxTypeOK

LEMMA BackoffNat ==
  ASSUME NEW n \in Nat, NEW s \in Int PROVE Backoff(n, s) \in Nat
<1>1. TwoTo[n] \in Int
  BY TwoToDoubles
<1> QED
  BY <1>1 DEF Backoff

LEMMA NackRow ==
  ASSUME IInv, NEW u \in Threads, pc[u] = "nack",
         NackUpdate(cur[u], seen[u][cur[u]] + 1), UNCHANGED history
  PROVE  /\ OutboxTypeOK'
         /\ \A r \in Row : RowInv(r)'
         /\ \A r \in Row \ {cur[u]} : status'[r] = status[r] /\ attempts'[r] = attempts[r]
<1> USE DEF IInv
<1>1. PICK x \in Row : x = cur[u]
  BY DEF ThreadInv, TypeOK
<1> DEFINE n == attempts[x] + 1
<1>2. /\ status[x] \in {"processing", "done"} /\ tries[x] = n
      /\ seen[u][x] + 1 = n
  BY <1>1 DEF ThreadInv
<1>3. /\ n \in Nat /\ n <= MAX_ATTEMPTS /\ dlq[x] = 0 /\ ~(x >= nextId)
      /\ attempts[x] \in Nat /\ job[x] \in Job
  <2>1. attempts[x] \in Nat /\ RowInv(x)
    BY DEF TypeOK, OutboxTypeOK
  <2>2. /\ ~(x >= nextId) /\ job[x] \in Job /\ dlq[x] = 0
        /\ attempts[x] < MAX_ATTEMPTS
    BY <1>2, <2>1 DEF RowInv
  <2> QED
    BY <2>1, <2>2, OutboxAssumption
<1>4. NackUpdate(x, n)
  BY <1>1, <1>2
<1> HIDE DEF n
<1>5. CASE DeadLetter(x) /\ n >= MAX_ATTEMPTS
  <2>1. /\ status' = [status EXCEPT ![x] = "dlq"]
        /\ dlq' = [dlq EXCEPT ![x] = @ + 1]
        /\ UNCHANGED <<nextId, attempts, wait, job>>
    BY <1>5 DEF DeadLetter
  <2>2. OutboxTypeOK'
    BY <2>1 DEF TypeOK, OutboxTypeOK, Status
  <2>3. ASSUME NEW r \in Row PROVE RowInv(r)'
    <3>1. Worked(r) => Worked(r)'
      BY DEF Worked, Successors, history
    <3>2. CASE r = x
      <4>1. tries'[x] = MAX_ATTEMPTS /\ tries'[x] = attempts[x] + 1
        BY <1>2, <1>3, <1>5, OutboxAssumption DEF history, n
      <4>2. attempts[x] < MAX_ATTEMPTS
        BY DEF RowInv
      <4>3. status'[x] = "dlq" /\ dlq'[x] = 1 /\ attempts'[x] = attempts[x]
        BY <1>3, <2>1 DEF TypeOK, OutboxTypeOK
      <4> QED
        BY <1>3, <2>1, <3>2, <4>1, <4>2, <4>3 DEF RowInv
    <3>3. CASE r # x
      BY <2>1, <3>1, <3>3, RowFrame DEF TypeOK, OutboxTypeOK, history
    <3> QED
      BY <3>2, <3>3
  <2> QED
    BY <1>1, <2>1, <2>2, <2>3 DEF TypeOK, OutboxTypeOK
<1>6. CASE Reschedule(x, n) /\ n < MAX_ATTEMPTS
  <2>1. PICK s \in Skews :
           /\ status' = [status EXCEPT ![x] = "pending"]
           /\ attempts' = [attempts EXCEPT ![x] = n]
           /\ wait' = [wait EXCEPT ![x] = Backoff(n, s)]
           /\ UNCHANGED <<nextId, job, dlq>>
    BY <1>6 DEF Reschedule
  <2>2. Backoff(n, s) \in Nat
    BY <1>3, BackoffNat, OutboxAssumption
  <2>3. OutboxTypeOK'
    BY <1>3, <2>1, <2>2 DEF TypeOK, OutboxTypeOK, Status
  <2>4. ASSUME NEW r \in Row PROVE RowInv(r)'
    <3>1. Worked(r) => Worked(r)'
      BY DEF Worked, Successors, history
    <3>2. CASE r = x
      <4>1. /\ status'[x] = "pending" /\ dlq'[x] = 0 /\ attempts'[x] = n
            /\ tries'[x] = n
        BY <1>2, <1>3, <2>1 DEF TypeOK, OutboxTypeOK, history
      <4> QED
        BY <1>3, <1>6, <2>1, <3>2, <4>1 DEF RowInv, TypeOK, OutboxTypeOK, Row
    <3>3. CASE r # x
      BY <2>1, <3>1, <3>3, RowFrame DEF TypeOK, OutboxTypeOK, history
    <3> QED
      BY <3>2, <3>3
  <2> QED
    BY <1>1, <2>1, <2>3, <2>4 DEF TypeOK, OutboxTypeOK
<1> QED
  BY <1>4, <1>5, <1>6 DEF NackUpdate

\* The thread goes on with the rest of its batch
LEMMA NextRow ==
  ASSUME IInv, NEW u \in Threads, pc[u] \in {"ack", "nack"},
         pc' = [pc EXCEPT ![u] = "rows"],
         cur' = [cur EXCEPT ![u] = NoRow],
         UNCHANGED <<control, locks, batch, seen, history>>,
         faults' = faults,
         OutboxTypeOK',
         \A r \in Row : RowInv(r)',
         \A r \in Row \ {cur[u]} : status'[r] = status[r] /\ attempts'[r] = attempts[r]
  PROVE  IInv'
<1> USE DEF IInv
<1>1. TypeOK'
  BY DEF TypeOK, control, history, PC
<1>2. ExclusiveClaim'
  <2>1. \A t \in Threads : Owns(t)' \subseteq Owns(t)
    BY DEF Owns, Held, TypeOK
  <2> QED
    BY <2>1, NothingTaken
<1>3. \A t \in Threads \ {u} : ThreadInv(t)'
  <2>1. cur[u] \in Owns(u)
    BY DEF ThreadInv, Owns, Held
  <2>2. \A t \in Threads \ {u} :
          /\ pc'[t] = pc[t] /\ locks'[t] = locks[t] /\ batch'[t] = batch[t]
          /\ cur'[t] = cur[t] /\ seen'[t] = seen[t]
    BY DEF TypeOK
  <2> QED
    BY <2>1, <2>2, OthersKeep
<1>4. ThreadInv(u)'
  <2>1. /\ pc'[u] = "rows" /\ cur'[u] = NoRow /\ locks'[u] = {}
        /\ batch'[u] = batch[u] /\ seen'[u] = seen[u] /\ tries' = tries
    <3>1. /\ pc \in [Threads -> PC] /\ cur \in [Threads -> Row \cup {NoRow}]
          /\ ThreadInv(u)
      BY DEF TypeOK
    <3> HIDE DEF IInv
    <3>2. locks[u] = {}
      BY <3>1 DEF ThreadInv
    <3> QED
      BY <3>1, <3>2 DEF history
  <2>2. NoRow \notin batch[u]
    BY DEF TypeOK, Row, NoRow
  <2>3. ASSUME NEW r \in batch[u]
        PROVE  /\ status'[r] = "processing" /\ seen'[u][r] = attempts'[r]
               /\ tries'[r] = attempts'[r]
    <3>1. r \in Row \ {cur[u]}
      BY DEF TypeOK, ThreadInv
    <3> QED
      BY <2>1, <3>1 DEF ThreadInv
  <2> QED
    BY <2>1, <2>2, <2>3 DEF ThreadInv
<1> QED
  BY <1>1, <1>2, <1>3, <1>4

LEMMA AckIInv == ASSUME IInv, NEW u \in Threads, Ack(u) PROVE IInv'
<1> USE DEF IInv
<1>1. /\ pc[u] = "ack"
      /\ UNCHANGED <<control, locks, batch, seen, history>>
  BY DEF Ack
<1>2. CASE /\ AckUpdate(cur[u]) /\ UNCHANGED faults
           /\ pc' = [pc EXCEPT ![u] = "rows"]
           /\ cur' = [cur EXCEPT ![u] = NoRow]
  BY <1>1, <1>2, AckRow, NextRow
<1>3. CASE /\ Fault /\ (AckUpdate(cur[u]) \/ UNCHANGED outbox)
           /\ pc' = [pc EXCEPT ![u] = "nack"]
           /\ UNCHANGED cur
  <2>1. /\ OutboxTypeOK'
        /\ \A r \in Row : RowInv(r)'
        /\ \A r \in Row \ {cur[u]} : status'[r] = status[r] /\ attempts'[r] = attempts[r]
    <3>1. CASE AckUpdate(cur[u])
      BY <1>1, <3>1, AckRow
    <3>2. CASE UNCHANGED outbox
      BY <1>1, <3>2, RowsUntouched DEF TypeOK, OutboxTypeOK, outbox
    <3> QED
      BY <1>3, <3>1, <3>2
  <2>2. TypeOK'
    <3>1. faults' \in 0..MaxFaults
      BY <1>3, WorkerAssumption DEF Fault, TypeOK
    <3> QED
      BY <1>1, <1>3, <2>1, <3>1 DEF TypeOK, control, history, PC
  <2>3. ExclusiveClaim'
    BY <1>1, <1>3, NothingTaken DEF Owns, Held
  <2>4. \A t \in Threads \ {u} : ThreadInv(t)'
    <3>1. cur[u] \in Owns(u)
      BY <1>1 DEF ThreadInv, Owns, Held
    <3>2. \A t \in Threads \ {u} :
            /\ pc'[t] = pc[t] /\ locks'[t] = locks[t] /\ batch'[t] = batch[t]
            /\ cur'[t] = cur[t] /\ seen'[t] = seen[t]
      BY <1>1, <1>3 DEF TypeOK
    <3> QED
      BY <1>1, <2>1, <3>1, <3>2, OthersKeep
  <2>5. ThreadInv(u)'
    <3>1. PICK x \in Row : x = cur[u]
      BY <1>1 DEF ThreadInv, TypeOK
    <3>2. /\ pc'[u] = "nack" /\ cur'[u] = x /\ locks'[u] = {}
          /\ batch'[u] = batch[u] /\ seen'[u] = seen[u] /\ tries' = tries
      <4>1. pc \in [Threads -> PC] /\ ThreadInv(u)
        BY DEF TypeOK
      <4> HIDE DEF IInv
      <4>2. locks[u] = {}
        BY <1>1, <4>1 DEF ThreadInv
      <4> QED
        BY <1>1, <1>3, <3>1, <4>1, <4>2 DEF history
    <3>3. ASSUME NEW r \in batch[u]
          PROVE  /\ status'[r] = "processing" /\ seen'[u][r] = attempts'[r]
                 /\ tries'[r] = attempts'[r]
      <4>1. r \in Row \ {cur[u]}
        BY DEF TypeOK, ThreadInv
      <4> QED
        BY <2>1, <3>2, <4>1 DEF ThreadInv
    <3>4. /\ status'[x] \in {"processing", "done"} /\ attempts'[x] = attempts[x]
      BY <1>1, <1>3, <3>1, AckRow DEF ThreadInv, outbox
    <3>5. seen[u][x] = attempts[x] /\ tries[x] = attempts[x] + 1 /\ x \notin batch[u]
      BY <1>1, <3>1 DEF ThreadInv
    <3>6. x # NoRow
      BY DEF Row, NoRow
    <3>7. /\ seen'[u][x] = attempts'[x]
          /\ tries'[x] = attempts'[x] + 1
      BY <3>2, <3>4, <3>5
    <3> QED
      BY <3>2, <3>3, <3>4, <3>5, <3>6, <3>7 DEF ThreadInv
  <2> QED
    BY <2>1, <2>2, <2>3, <2>4, <2>5
<1> QED
  BY <1>2, <1>3 DEF Ack, CallReturns, CallRaises

LEMMA NackIInv == ASSUME IInv, NEW u \in Threads, Nack(u) PROVE IInv'
<1> USE DEF IInv
<1> DEFINE update == NackUpdate(cur[u], seen[u][cur[u]] + 1)
<1>1. pc[u] = "nack"
  BY DEF Nack
<1>2. CASE /\ update /\ UNCHANGED faults
           /\ pc' = [pc EXCEPT ![u] = "rows"]
           /\ cur' = [cur EXCEPT ![u] = NoRow]
           /\ UNCHANGED <<control, locks, batch, seen, history>>
  BY <1>1, <1>2, NackRow, NextRow
<1>3. CASE Fault /\ (update \/ UNCHANGED outbox) /\ Raise(u)
  <2>1. UNCHANGED history /\ ExclusiveClaim' /\ ThreadInv(u)'
    BY <1>3, RaiseThread
  <2>2. /\ OutboxTypeOK'
        /\ \A r \in Row : RowInv(r)'
        /\ \A r \in Row \ Owns(u) : status'[r] = status[r] /\ attempts'[r] = attempts[r]
    <3>1. cur[u] \in Owns(u)
      BY <1>1 DEF ThreadInv, Owns, Held
    <3>2. CASE update
      BY <1>1, <2>1, <3>1, <3>2, NackRow
    <3>3. CASE UNCHANGED outbox
      BY <2>1, <3>3, RowsUntouched DEF TypeOK, OutboxTypeOK, outbox
    <3> QED
      BY <1>3, <3>2, <3>3
  <2>3. TypeOK'
    <3>1. faults' \in 0..MaxFaults
      BY <1>3, WorkerAssumption DEF Fault, TypeOK
    <3>2. UNCHANGED <<tries, loads, parent>>
      BY <2>1 DEF history
    <3> QED
      BY <1>3, <2>2, <3>1, <3>2, RaiseThread DEF TypeOK
  <2>4. \A t \in Threads \ {u} : ThreadInv(t)'
    BY <1>3, <2>1, <2>2, RaiseThread, OthersKeep
  <2> QED
    BY <2>1, <2>2, <2>3, <2>4
<1> QED
  BY <1>2, <1>3 DEF Nack, CallReturns, CallRaises

LEMMA FinishBatchIInv ==
  ASSUME IInv, NEW u \in Threads, FinishBatch(u) PROVE IInv'
<1> USE DEF IInv
<1>1. /\ pc[u] = "rows" /\ batch[u] = {}
      /\ pc' = [pc EXCEPT ![u] = "idle"]
      /\ seen' = [seen EXCEPT ![u] = NothingSeen]
      /\ UNCHANGED <<outbox, control, locks, batch, cur, history, faults>>
  BY DEF FinishBatch
<1>2. NothingSeen \in [Row -> Nat]
  BY DEF NothingSeen
<1>3. TypeOK'
  BY <1>1, <1>2 DEF TypeOK, OutboxTypeOK, outbox, control, history, PC
<1>4. ExclusiveClaim'
  BY <1>1, NothingTaken DEF Owns, Held
<1>5. ThreadInv(u)'
  <2>1. pc \in [Threads -> PC] /\ ThreadInv(u)
    BY DEF TypeOK
  <2> HIDE DEF IInv
  <2>2. locks[u] = {} /\ cur[u] = NoRow
    BY <1>1, <2>1 DEF ThreadInv
  <2>3. /\ pc'[u] = "idle" /\ batch'[u] = {} /\ locks'[u] = {}
        /\ cur'[u] = NoRow
    BY <1>1, <2>1, <2>2
  <2> QED
    BY <2>3 DEF ThreadInv
<1>6. \A t \in Threads \ {u} : ThreadInv(t)'
  <2>1. \A t \in Threads \ {u} :
          /\ pc'[t] = pc[t] /\ locks'[t] = locks[t] /\ batch'[t] = batch[t]
          /\ cur'[t] = cur[t] /\ seen'[t] = seen[t]
    BY <1>1 DEF TypeOK
  <2> QED
    BY <1>1, <2>1, OthersKeep DEF outbox
<1>7. \A r \in Row : RowInv(r)'
  BY <1>1, RowsUntouched
<1> QED
  BY <1>3, <1>4, <1>5, <1>6, <1>7

LEMMA CrashIInv == ASSUME IInv, NEW p \in Processes, Crash(p) PROVE IInv'
<1> USE DEF IInv
<1>1. UNCHANGED <<outbox, version, history>> /\ Fault
  BY DEF Crash
<1>2. \A t \in ThreadsOf(p) :
        /\ pc'[t] = "idle" /\ locks'[t] = {} /\ batch'[t] = {} /\ cur'[t] = NoRow
  BY DEF Crash, ThreadsOf
<1>3. \A t \in Threads \ ThreadsOf(p) :
        /\ pc'[t] = pc[t] /\ locks'[t] = locks[t] /\ batch'[t] = batch[t]
        /\ cur'[t] = cur[t] /\ seen'[t] = seen[t]
  BY DEF Crash
<1>4. TypeOK'
  <2>1. faults' \in 0..MaxFaults
    BY <1>1, WorkerAssumption DEF Fault, TypeOK
  <2>2. loop' \in [Processes -> BOOLEAN]
    BY DEF Crash, TypeOK
  <2>3. pc' \in [Threads -> PC] /\ locks' \in [Threads -> SUBSET Row]
    BY DEF Crash, TypeOK, PC
  <2>4. batch' \in [Threads -> SUBSET Row] /\ cur' \in [Threads -> Row \cup {NoRow}]
    BY DEF Crash, TypeOK
  <2>5. seen' \in [Threads -> [Row -> Nat]]
    <3>1. NothingSeen \in [Row -> Nat]
      BY DEF NothingSeen
    <3> QED
      BY <3>1 DEF Crash, TypeOK
  <2> QED
    BY <1>1, <2>1, <2>2, <2>3, <2>4, <2>5 DEF TypeOK, OutboxTypeOK, outbox, history
<1>5. ExclusiveClaim'
  <2>1. \A t \in Threads : Owns(t)' \subseteq Owns(t)
    BY <1>2, <1>3 DEF Owns, Held
  <2> QED
    BY <2>1, NothingTaken
<1>6. ASSUME NEW t \in Threads PROVE ThreadInv(t)'
  <2>1. CASE t \in ThreadsOf(p)
    BY <1>2, <2>1 DEF ThreadInv
  <2>2. CASE t \notin ThreadsOf(p)
    <3>1. \A r : Worked(r) => Worked(r)'
      BY <1>1 DEF Worked, Successors, history
    <3> QED
      BY <1>1, <1>3, <2>2, <3>1, ThreadFrame DEF outbox, history
  <2> QED
    BY <2>1, <2>2
<1>7. \A r \in Row : RowInv(r)'
  BY <1>1, RowsUntouched
<1> QED
  BY <1>4, <1>5, <1>6, <1>7

-----------------------------------------------------------------------------
(* The theorems *)

LEMMA StepIInv == ASSUME IInv, NEW t \in Threads, Step(t) PROVE IInv'
  BY CancelIInv, ClaimLockIInv, ClaimCommitIInv, ClaimRaisesIInv, ReenqueueIInv,
     DispatchIInv, AckIInv, NackIInv, FinishBatchIInv
  DEF Step

LEMMA NextIInv == IInv /\ [Next]_vars => IInv'
<1> SUFFICES ASSUME IInv, [Next]_vars PROVE IInv'
  OBVIOUS
<1>1. CASE Enqueue
  BY <1>1, EnqueueIInv
<1>2. CASE Tick
  BY <1>2, TickIInv
<1>3. ASSUME NEW p \in Processes, Start(p) \/ Round(p) \/ Crash(p) PROVE IInv'
  BY <1>3, StartIInv, RoundIInv, CrashIInv
<1>4. ASSUME NEW t \in Threads, Step(t) PROVE IInv'
  BY <1>4, StepIInv
<1>5. CASE UNCHANGED vars
  <2>1. UNCHANGED <<outbox, history>>
    BY <1>5 DEF vars
  <2>2. UNCHANGED <<control, pc, locks, batch, cur, seen, faults>>
    BY <1>5 DEF vars
  <2>3. \A r \in Row : RowInv(r)'
    BY <2>1, RowsUntouched DEF IInv
  <2>4. TypeOK' /\ ExclusiveClaim'
    BY <2>1, <2>2
    DEF IInv, TypeOK, OutboxTypeOK, ExclusiveClaim, Owns, Held, outbox, control,
        history
  <2>5. \A t \in Threads : ThreadInv(t)'
    BY <2>1, <2>2
    DEF IInv, ThreadInv, Worked, Successors, outbox, history
  <2> QED
    BY <2>3, <2>4, <2>5 DEF IInv
<1> QED
  BY <1>1, <1>2, <1>3, <1>4, <1>5 DEF Next

\* The inductive invariant holds in every state the outbox and its workers can
\* reach: run_once, run_loop, producers, crashes and the clock preserve it.
THEOREM Invariance == Spec => []IInv
  BY InitIInv, NextIInv, PTL DEF Spec

\* Every variable of the tables and of the workers keeps its type: ids stay
\* within the table and waits computed by nack are natural numbers.
THEOREM TypeCorrect == Spec => []TypeOK
<1>1. IInv => TypeOK
  BY DEF IInv
<1> QED
  BY <1>1, Invariance, PTL

\* claim_batch gives a row to one run_once at a time, for any number of worker
\* processes and threads.
THEOREM ClaimsAreExclusive == Spec => []ExclusiveClaim
<1>1. IInv => ExclusiveClaim
  BY DEF IInv
<1> QED
  BY <1>1, Invariance, PTL

\* What nack writes back from the claim's result is never stale.
THEOREM SnapshotsAreFresh == Spec => []SnapshotIsFresh
<1>1. IInv => SnapshotIsFresh
  BY DEF IInv, ThreadInv, SnapshotIsFresh, Held
<1> QED
  BY <1>1, Invariance, PTL

\* The column attempts counts the tries of a row, at most MAX_ATTEMPTS of them.
THEOREM AttemptsAreExact == Spec => []AttemptsCountTries
<1>1. ASSUME IInv, NEW r \in Row
      PROVE  /\ status[r] = "pending" => tries[r] = attempts[r] /\ tries[r] < MAX_ATTEMPTS
             /\ status[r] = "processing" => tries[r] - attempts[r] \in {0, 1}
             /\ status[r] = "done" => tries[r] = attempts[r] + 1
             /\ status[r] = "dlq" => tries[r] = attempts[r] + 1 /\ tries[r] = MAX_ATTEMPTS
             /\ tries[r] <= MAX_ATTEMPTS
  BY <1>1, OutboxAssumption DEF IInv, RowInv, TypeOK, OutboxTypeOK, Status
<1>2. IInv => AttemptsCountTries
  BY <1>1 DEF AttemptsCountTries
<1> QED
  BY <1>2, Invariance, PTL

\* A row has one record in ingest_dlq if its status is dlq, and none otherwise.
THEOREM DeadLetterOnce == Spec => []DeadLetteredOnce
<1>1. IInv => DeadLetteredOnce
  BY DEF IInv, RowInv, DeadLetteredOnce
<1> QED
  BY <1>1, Invariance, PTL

\* Whatever fails, a row that is done was loaded or replaced.
THEOREM DoneIsWorked == Spec => []NoSilentLoss
<1>1. IInv => NoSilentLoss
  BY DEF IInv, RowInv, NoSilentLoss
<1> QED
  BY <1>1, Invariance, PTL

=============================================================================
