-------------------------- MODULE IngestStepProofs --------------------------
(***************************************************************************)
(* What the steps of the outbox worker do over time, for every value of    *)
(* the constants: what one may never do (take back an orphan, change a     *)
(* settled row), how often a row takes effect, that each is a step of the  *)
(* job queue or none, and how long a row lives before it is dead-lettered. *)
(* All of it builds on IInv.                                               *)
(***************************************************************************)
EXTENDS IngestWorkerRefinement, IngestBackoff, IngestWorkerProofs, FiniteSetTheorems

-----------------------------------------------------------------------------
(* Finality: who can change the status of a row, and what IInv says of it. *)

\* A row's status is changed by its INSERT, by the claim that has it locked, and
\* by the ack or nack of the thread that has it in hand.
LEMMA StatusChanges ==
  ASSUME IInv, [Next]_vars, NEW r \in Row, status'[r] # status[r]
  PROVE  \/ status[r] = "absent"
         \/ \E t \in Threads : r \in locks[t]
         \/ \E t \in Threads : cur[t] = r
<1> DEFINE Goal == \/ status[r] = "absent"
                   \/ \E t \in Threads : r \in locks[t]
                   \/ \E t \in Threads : cur[t] = r
<1> USE DEF IInv, TypeOK, OutboxTypeOK
<1>1. ASSUME NEW j, Insert(j) PROVE Goal
  BY <1>1 DEF Insert, RowInv
<1>2. ASSUME NEW t \in Threads, ClaimUpdate(locks[t]) PROVE Goal
  BY <1>2 DEF ClaimUpdate
<1>3. ASSUME NEW t \in Threads, AckUpdate(cur[t]) PROVE Goal
  BY <1>3 DEF AckUpdate
<1>4. ASSUME NEW t \in Threads, NEW n, NackUpdate(cur[t], n) PROVE Goal
  BY <1>4 DEF NackUpdate, DeadLetter, Reschedule
<1>5. ASSUME UNCHANGED status PROVE FALSE
  BY <1>5
<1>6. ASSUME Enqueue PROVE Goal
  BY <1>1, <1>6 DEF Enqueue
<1>7. ASSUME NEW p \in Processes, Start(p) \/ Round(p) \/ Crash(p) PROVE Goal
  BY <1>5, <1>7 DEF Start, Round, Crash, outbox
<1>8. ASSUME NEW t \in Threads, Step(t) PROVE Goal
  <2>1. CASE Cancel(t) \/ ClaimLock(t) \/ FinishBatch(t)
    BY <1>5, <2>1 DEF Cancel, ClaimLock, FinishBatch, outbox
  <2>2. CASE ClaimCommit(t) \/ ClaimRaises(t)
    BY <1>2, <1>5, <2>2 DEF ClaimCommit, ClaimRaises, CallReturns, CallRaises, outbox
  <2>3. ASSUME NEW q \in Row, Reenqueue(t, q) \/ Dispatch(t, q) PROVE Goal
    BY <1>1, <1>5, <2>3 DEF Reenqueue, Dispatch, CallReturns, outbox
  <2>4. CASE Ack(t)
    BY <1>3, <1>5, <2>4 DEF Ack, CallReturns, CallRaises, outbox
  <2>5. CASE Nack(t)
    BY <1>4, <1>5, <2>5 DEF Nack, CallReturns, CallRaises, outbox
  <2> QED
    BY <1>8, <2>1, <2>2, <2>3, <2>4, <2>5 DEF Step
<1>9. CASE Tick \/ UNCHANGED vars
  BY <1>5, <1>9 DEF Tick, PassSecond, vars, outbox
<1> QED
  BY <1>6, <1>7, <1>8, <1>9 DEF Next

\* A thread only gets hold of what its own claim has locked.
LEMMA HeldGrows ==
  ASSUME TypeOK, [Next]_vars, NEW t \in Threads
  PROVE  Held(t)' \subseteq Held(t) \cup locks[t]
<1> DEFINE Goal == Held(t)' \subseteq Held(t) \cup locks[t]
<1>1. ASSUME UNCHANGED <<batch, cur>> PROVE Goal
  BY <1>1 DEF Held
<1>2. CASE Enqueue \/ Tick \/ UNCHANGED vars
  BY <1>1, <1>2 DEF Enqueue, Tick, vars
<1>3. ASSUME NEW p \in Processes, Start(p) \/ Round(p) \/ Crash(p) PROVE Goal
  <2>1. CASE Start(p) \/ Round(p)
    BY <1>1, <2>1 DEF Start, Round
  <2>2. CASE Crash(p)
    BY <2>2 DEF Crash, Held, TypeOK
  <2> QED
    BY <1>3, <2>1, <2>2
<1>4. ASSUME NEW u \in Threads, Step(u) PROVE Goal
  <2>1. CASE Cancel(u) \/ ClaimLock(u)
    BY <1>1, <2>1 DEF Cancel, ClaimLock
  <2>2. CASE ClaimCommit(u)
    BY <2>2 DEF ClaimCommit, Held, TypeOK
  <2>3. CASE Raise(u)
    BY <2>3 DEF Raise, Held, TypeOK
  <2>4. ASSUME NEW r \in Row, Take(u, r) PROVE Goal
    BY <2>4 DEF Take, Held, TypeOK, Row, NoRow
  <2>5. CASE Ack(u)
    BY <2>5 DEF Ack, Held, TypeOK
  <2>6. CASE Nack(u)
    BY <2>3, <2>6 DEF Nack, Held, TypeOK
  <2>7. CASE FinishBatch(u)
    BY <1>1, <2>7 DEF FinishBatch
  <2> QED
    BY <1>4, <2>1, <2>2, <2>3, <2>4, <2>5, <2>6, <2>7
    DEF Step, ClaimRaises, Reenqueue, Dispatch
<1> QED
  BY <1>2, <1>3, <1>4 DEF Next

\* Nothing takes back a row that was left in processing.
THEOREM OrphansStay == Spec => OrphanStaysOrphan
<1>1. ASSUME IInv, [Next]_vars, NEW r \in Row, Orphan(r) PROVE Orphan(r)'
  <2>1. \A t \in Threads : r \notin locks[t] /\ r \notin Held(t)
    BY <1>1 DEF Orphan, IInv, ThreadInv
  <2>2. \A t \in Threads : r \notin Held(t)'
    BY <1>1, <2>1, HeldGrows DEF IInv
  <2>3. \A t \in Threads : cur[t] # r
    BY <2>1 DEF Held, Row, NoRow
  <2>4. status'[r] = status[r]
    BY <1>1, <2>1, <2>3, StatusChanges DEF Orphan
  <2> QED
    BY <1>1, <2>2, <2>4 DEF Orphan
<1>2. IInv /\ [Next]_vars => [\A r \in Row : Orphan(r) => Orphan(r)']_vars
  BY <1>1
<1> QED
  BY <1>2, Invariance, PTL DEF Spec, OrphanStaysOrphan

-----------------------------------------------------------------------------
\* A thread only nacks a row that is done after an ack whose reply was lost
LostAckInv ==
  \A t \in Threads : pc[t] = "nack" /\ status[cur[t]] = "done" => faults > 0

\* Faults are counted, and never forgotten.
LEMMA FaultsGrow ==
  ASSUME TypeOK, [Next]_vars
  PROVE  faults' = faults \/ faults' > 0
BY WorkerAssumption
DEF Next, Step, vars, Enqueue, Tick, Start, Round, Crash, Cancel, ClaimLock, ClaimCommit,
    ClaimRaises, Reenqueue, Dispatch, Ack, Nack, FinishBatch, CallReturns, CallRaises,
    Fault, TypeOK

\* Only Ack makes a row done.
LEMMA DoneByAck ==
  ASSUME IInv, [Next]_vars, NEW r \in Row, status'[r] = "done", status[r] # "done"
  PROVE  \E t \in Threads : Ack(t) /\ cur[t] = r
<1> USE DEF IInv, TypeOK, OutboxTypeOK
<1> DEFINE Goal == \E t \in Threads : Ack(t) /\ cur[t] = r
<1>1. ASSUME NEW j, Insert(j) PROVE FALSE
  BY <1>1 DEF Insert
<1>2. ASSUME NEW t \in Threads, ClaimUpdate(locks[t]) PROVE FALSE
  BY <1>2 DEF ClaimUpdate
<1>3. ASSUME NEW q, NEW n, NackUpdate(q, n) PROVE FALSE
  BY <1>3 DEF NackUpdate, DeadLetter, Reschedule
<1>4. ASSUME UNCHANGED status PROVE FALSE
  BY <1>4
<1>5. CASE Enqueue \/ Tick \/ UNCHANGED vars
  BY <1>1, <1>4, <1>5 DEF Enqueue, Tick, PassSecond, vars, outbox
<1>6. ASSUME NEW p \in Processes, Start(p) \/ Round(p) \/ Crash(p) PROVE FALSE
  BY <1>4, <1>6 DEF Start, Round, Crash, outbox
<1>7. ASSUME NEW t \in Threads, Step(t) PROVE Goal
  <2>1. CASE Cancel(t) \/ ClaimLock(t) \/ FinishBatch(t)
    BY <1>4, <2>1 DEF Cancel, ClaimLock, FinishBatch, outbox
  <2>2. CASE ClaimCommit(t) \/ ClaimRaises(t)
    BY <1>2, <1>4, <2>2 DEF ClaimCommit, ClaimRaises, CallReturns, CallRaises, outbox
  <2>3. ASSUME NEW q \in Row, Reenqueue(t, q) \/ Dispatch(t, q) PROVE FALSE
    BY <1>1, <1>4, <2>3 DEF Reenqueue, Dispatch, CallReturns, outbox
  <2>4. CASE Ack(t)
    <3>1. AckUpdate(cur[t])
      BY <1>4, <2>4 DEF Ack, CallReturns, CallRaises, outbox
    <3>2. cur[t] = r
      BY <3>1 DEF AckUpdate
    <3> QED
      BY <2>4, <3>2
  <2>5. CASE Nack(t)
    BY <1>3, <1>4, <2>5 DEF Nack, CallReturns, CallRaises, outbox
  <2> QED
    BY <1>7, <2>1, <2>2, <2>3, <2>4, <2>5 DEF Step
<1> QED
  BY <1>5, <1>6, <1>7 DEF Next

\* A thread comes to nack from a row in processing, or by an ack that raised.
LEMMA NackStarts ==
  ASSUME TypeOK, [Next]_vars, NEW t \in Threads, pc'[t] = "nack"
  PROVE  \/ pc[t] = "nack" /\ cur'[t] = cur[t]
         \/ faults' = faults + 1
         \/ cur'[t] \in batch[t] /\ UNCHANGED outbox
<1> USE DEF TypeOK
<1> DEFINE Goal == \/ pc[t] = "nack" /\ cur'[t] = cur[t]
                   \/ faults' = faults + 1
                   \/ cur'[t] \in batch[t] /\ UNCHANGED outbox
<1>1. CASE Enqueue \/ Tick \/ UNCHANGED vars
  BY <1>1 DEF Enqueue, Tick, vars
<1>2. ASSUME NEW p \in Processes, Start(p) \/ Round(p) \/ Crash(p) PROVE Goal
  BY <1>2 DEF Start, Round, Crash, Fault
<1>3. ASSUME NEW u \in Threads, Step(u) PROVE Goal
  <2>1. CASE Cancel(u) \/ ClaimLock(u) \/ FinishBatch(u)
    BY <2>1 DEF Cancel, ClaimLock, FinishBatch
  <2>2. CASE ClaimCommit(u) \/ ClaimRaises(u)
    BY <2>2 DEF ClaimCommit, ClaimRaises, CallRaises, Fault
  <2>3. ASSUME NEW r \in Row, Reenqueue(u, r) PROVE Goal
    BY <2>3 DEF Reenqueue, Take, Fault
  <2>4. ASSUME NEW r \in Row, Dispatch(u, r) PROVE Goal
    BY <2>4 DEF Dispatch, Take, Fault
  <2>5. CASE Ack(u) \/ Nack(u)
    BY <2>5 DEF Ack, Nack, Raise, CallRaises, Fault
  <2> QED
    BY <1>3, <2>1, <2>2, <2>3, <2>4, <2>5 DEF Step
<1> QED
  BY <1>1, <1>2, <1>3 DEF Next

LEMMA LostAckIsAFault == IInv /\ IInv' /\ LostAckInv /\ [Next]_vars => LostAckInv'
<1> SUFFICES ASSUME IInv, IInv', LostAckInv, [Next]_vars,
                    NEW t \in Threads, pc'[t] = "nack", status'[cur'[t]] = "done"
             PROVE  faults' > 0
  BY DEF LostAckInv
<1>1. faults' = faults \/ faults' > 0
  BY FaultsGrow DEF IInv
<1>2. faults \in Nat
  BY DEF IInv, TypeOK
<1>3. CASE faults' = faults + 1
  BY <1>2, <1>3
<1>4. CASE cur'[t] \in batch[t] /\ UNCHANGED outbox
  BY <1>4 DEF IInv, ThreadInv, outbox
<1>5. CASE pc[t] = "nack" /\ cur'[t] = cur[t]
  <2>1. cur[t] \in Row
    BY <1>5 DEF IInv, TypeOK, ThreadInv
  <2>2. CASE status[cur[t]] = "done"
    BY <1>1, <1>5, <2>2 DEF LostAckInv
  <2>3. CASE status[cur[t]] # "done"
    <3>1. PICK u \in Threads : Ack(u) /\ cur[u] = cur[t]
      BY <1>5, <2>1, <2>3, DoneByAck
    <3>2. u # t
      BY <1>5, <3>1 DEF Ack
    <3> QED
      BY <2>1, <3>1, <3>2 DEF IInv, ExclusiveClaim, Owns, Held, Row, NoRow
  <2> QED
    BY <2>2, <2>3
<1> QED
  BY <1>3, <1>4, <1>5, NackStarts DEF IInv

LEMMA LostAckInvariance == Spec => []LostAckInv
<1>1. Init => LostAckInv
  BY DEF Init, LostAckInv
<1> QED
  BY <1>1, LostAckIsAFault, Invariance, PTL DEF Spec

\* A settled row is final, but for the nack after its own lost ack.
THEOREM SettledRowsAreFinal == Spec => SettledIsFinal
<1> DEFINE Final(r) == /\ status[r] = "done"
                       /\ faults > 0
                       /\ \E t \in Threads : cur[t] = r /\ pc[t] = "nack"
<1>1. ASSUME IInv, LostAckInv, [Next]_vars, NEW r \in Row,
             Settled(r), status'[r] # status[r]
      PROVE  Final(r)
  <2>1. \A t \in Threads : r \notin locks[t]
    BY <1>1 DEF IInv, ThreadInv, Settled
  <2>2. PICK t \in Threads : cur[t] = r
    BY <1>1, <2>1, StatusChanges DEF Settled
  <2>3. status[r] = "done" /\ pc[t] = "nack"
    BY <1>1, <2>2 DEF IInv, ThreadInv, Settled, Row, NoRow
  <2> QED
    BY <1>1, <2>2, <2>3 DEF LostAckInv
<1>2. IInv /\ LostAckInv /\ [Next]_vars =>
        [\A r \in Row : Settled(r) /\ status'[r] # status[r] => Final(r)]_vars
  BY <1>1
<1> QED
  BY <1>2, Invariance, LostAckInvariance, PTL DEF Spec, SettledIsFinal

-----------------------------------------------------------------------------
(* How often a row takes effect: at most once for each counted try, and    *)
(* exactly once while nothing fails.  An effect is a completed load or a   *)
(* row inserted in its place.                                              *)

\* The rows re-enqueued from r
Copies(from, r) == {s \in Row : from[s] = r}

effects == [r \in Row |-> loads[r] + Cardinality(Copies(parent, r))]

-----------------------------------------------------------------------------
LEMMA CopiesFinite ==
  ASSUME NEW from, NEW r
  PROVE  /\ IsFiniteSet(Copies(from, r))
         /\ Cardinality(Copies(from, r)) \in Nat
         /\ Cardinality(Copies(from, r)) = 0 <=> Copies(from, r) = {}
<1>1. IsFiniteSet(Row)
  BY OutboxAssumption, FS_Interval DEF Row
<1>2. Copies(from, r) \in SUBSET Row
  BY DEF Copies
<1>3. IsFiniteSet(Copies(from, r))
  BY <1>1, <1>2, FS_Subset
<1> QED
  BY <1>3, FS_CardinalityType, FS_EmptySet

\* A row that nobody was re-enqueued from and that was not re-enqueued itself
\* becomes a copy of r: r has one copy more, the other rows as many as before.
LEMMA CopyAdded ==
  ASSUME NEW from, NEW with, NEW n \in Row, NEW r \in Row, NEW q \in Row,
         from[n] = NoRow, \A s \in Row : with[s] = IF s = n THEN r ELSE from[s]
  PROVE  Cardinality(Copies(with, q)) =
           Cardinality(Copies(from, q)) + (IF q = r THEN 1 ELSE 0)
<1>1. n \notin Copies(from, q)
  BY DEF Copies, Row, NoRow
<1>2. CASE q = r
  <2>1. Copies(with, q) = Copies(from, q) \cup {n}
    BY <1>2 DEF Copies
  <2>2. /\ IsFiniteSet(Copies(from, q))
        /\ Cardinality(Copies(from, q) \cup {n}) = Cardinality(Copies(from, q)) + 1
    BY <1>1, CopiesFinite, FS_AddElement
  <2> QED
    BY <1>2, <2>1, <2>2
<1>3. CASE q # r
  <2>1. Copies(with, q) = Copies(from, q)
    BY <1>1, <1>3 DEF Copies
  <2> QED
    BY <1>3, <2>1, CopiesFinite
<1> QED
  BY <1>2, <1>3

LEMMA EffectsType ==
  ASSUME TypeOK
  PROVE  /\ effects \in [Row -> Nat]
         /\ \A r \in Row : effects[r] = loads[r] + Cardinality(Successors(r))
         /\ \A r \in Row : Worked(r) <=> effects[r] > 0
<1>1. ASSUME NEW r \in Row
      PROVE  /\ effects[r] \in Nat
             /\ effects[r] = loads[r] + Cardinality(Successors(r))
             /\ Worked(r) <=> effects[r] > 0
  <2>1. Successors(r) = Copies(parent, r)
    BY DEF Successors, Copies
  <2>2. loads[r] \in Nat
    BY DEF TypeOK
  <2>3. effects[r] = loads[r] + Cardinality(Copies(parent, r))
    BY DEF effects
  <2> QED
    BY <2>1, <2>2, <2>3, CopiesFinite DEF Worked
<1> QED
  BY <1>1 DEF effects

LEMMA SameEffects ==
  ASSUME UNCHANGED <<loads, parent>>
  PROVE  effects' = effects
BY DEF effects, Copies

\* process_row adds one effect to its row, or none; in a call that does not fail
\* it adds one just when the row is acked next.
LEMMA TryEffects ==
  ASSUME IInv, NEW t \in Threads, NEW r \in Row, Reenqueue(t, r) \/ Dispatch(t, r)
  PROVE  \E k \in {0, 1} :
           /\ \A q \in Row : effects'[q] = effects[q] + (IF q = r THEN k ELSE 0)
           /\ faults' = faults => pc'[t] = IF k = 1 THEN "ack" ELSE "nack"
<1> DEFINE Grows(k) == \A q \in Row : effects'[q] = effects[q] + (IF q = r THEN k ELSE 0)
<1>1. effects \in [Row -> Nat] /\ pc \in [Threads -> PC] /\ faults \in Nat
  BY EffectsType DEF IInv, TypeOK
<1>2. ASSUME UNCHANGED <<loads, parent>> PROVE Grows(0)
  BY <1>1, <1>2, SameEffects
<1>3. ASSUME NEW j \in Job, Insert(j), Successor(r), UNCHANGED loads PROVE Grows(1)
  <2>1. nextId \in Row /\ parent[nextId] = NoRow
    BY <1>3, InsertRow DEF IInv, TypeOK, RowInv
  <2>2. \A s \in Row : parent'[s] = IF s = nextId THEN r ELSE parent[s]
    BY <1>3 DEF Successor, IInv, TypeOK
  <2>3. ASSUME NEW q \in Row
        PROVE  Cardinality(Copies(parent', q)) =
                 Cardinality(Copies(parent, q)) + (IF q = r THEN 1 ELSE 0)
    BY <2>1, <2>2, CopyAdded
  <2>4. \A q \in Row : Cardinality(Copies(parent, q)) \in Nat /\ loads[q] \in Nat
    BY CopiesFinite DEF IInv, TypeOK
  <2>5. \A q \in Row : effects'[q] = loads[q] + Cardinality(Copies(parent', q))
    BY <1>3 DEF effects, Copies
  <2> QED
    BY <2>3, <2>4, <2>5 DEF effects
<1>4. ASSUME loads' = [loads EXCEPT ![r] = @ + 1], UNCHANGED parent PROVE Grows(1)
  <2>1. \A q \in Row : loads'[q] = loads[q] + (IF q = r THEN 1 ELSE 0)
    BY <1>4 DEF IInv, TypeOK
  <2>2. \A q \in Row : Cardinality(Copies(parent, q)) \in Nat /\ loads[q] \in Nat
    BY CopiesFinite DEF IInv, TypeOK
  <2>3. \A q \in Row : effects'[q] = loads'[q] + Cardinality(Copies(parent, q))
    BY <1>4 DEF effects, Copies
  <2> QED
    BY <2>1, <2>2, <2>3 DEF effects
<1>5. ReenqueuedJob(t, r) \in Job
  <2>1. Take(t, r)
    BY DEF Reenqueue, Dispatch
  <2>2. job[r] \in Job
    BY <2>1 DEF Take, IInv, ThreadInv, RowInv
  <2>3. version[ProcessOf[t]] \in Versions
    BY WorkerAssumption DEF IInv, TypeOK
  <2> QED
    BY <2>2, <2>3 DEF ReenqueuedJob, Job
<1>6. CASE Reenqueue(t, r)
  <2>1. CASE /\ Insert(ReenqueuedJob(t, r)) /\ Successor(r) /\ UNCHANGED loads
             /\ pc' = [pc EXCEPT ![t] = "ack"] \/ faults' = faults + 1
    BY <1>1, <1>3, <1>5, <2>1
  <2>2. CASE UNCHANGED <<loads, parent>> /\ faults' = faults + 1
    BY <1>1, <1>2, <2>2
  <2> QED
    BY <1>6, <2>1, <2>2 DEF Reenqueue, Fault, CallReturns
<1>7. CASE Dispatch(t, r)
  <2>1. CASE /\ loads' = [loads EXCEPT ![r] = @ + 1] /\ UNCHANGED parent
             /\ pc' = [pc EXCEPT ![t] = "ack"] \/ faults' = faults + 1
    BY <1>1, <1>4, <2>1
  <2>2. CASE UNCHANGED <<loads, parent>> /\ pc' = [pc EXCEPT ![t] = "nack"]
    BY <1>1, <1>2, <2>2
  <2> QED
    BY <1>7, <2>1, <2>2 DEF Dispatch, Fault
<1> QED
  BY <1>6, <1>7

\* Only process_row changes the counters.
LEMMA OnlyTriesCount ==
  ASSUME [Next]_vars
  PROVE  \/ UNCHANGED <<tries, loads, parent>>
         \/ \E t \in Threads : \E r \in Row : Reenqueue(t, r) \/ Dispatch(t, r)
BY DEF Next, Step, vars, history, Enqueue, Tick, Start, Round, Crash, Cancel, ClaimLock,
   ClaimCommit, ClaimRaises, Raise, Ack, Nack, FinishBatch

-----------------------------------------------------------------------------
\* Each effect of a row is paid for by a counted try.
THEOREM EffectsAreBounded == Spec => []EffectsBounded
<1> DEFINE Bounded == \A r \in Row : effects[r] <= tries[r]
<1>1. Init => Bounded
  <2> SUFFICES ASSUME Init, NEW r \in Row PROVE effects[r] = 0
    BY DEF Init
  <2>1. Copies(parent, r) = {}
    BY DEF Init, Copies, Row, NoRow
  <2>2. loads[r] = 0 /\ Cardinality(Copies(parent, r)) = 0
    BY <2>1, FS_EmptySet DEF Init
  <2> QED
    BY <2>2 DEF effects
<1>2. IInv /\ Bounded /\ [Next]_vars => Bounded'
  <2> SUFFICES ASSUME IInv, Bounded, [Next]_vars PROVE \A r \in Row : effects'[r] <= tries'[r]
    OBVIOUS
  <2>1. effects \in [Row -> Nat] /\ tries \in [Row -> Nat]
    BY EffectsType DEF IInv, TypeOK
  <2>2. CASE UNCHANGED <<tries, loads, parent>>
    BY <2>2, SameEffects
  <2>3. ASSUME NEW t \in Threads, NEW q \in Row, Reenqueue(t, q) \/ Dispatch(t, q)
        PROVE  \A r \in Row : effects'[r] <= tries'[r]
    <3>1. tries' = [tries EXCEPT ![q] = @ + 1]
      BY <2>3 DEF Reenqueue, Dispatch, Take
    <3>2. PICK k \in {0, 1} :
            \A r \in Row : effects'[r] = effects[r] + (IF r = q THEN k ELSE 0)
      BY <2>3, TryEffects
    <3> QED
      BY <2>1, <3>1, <3>2
  <2> QED
    BY <2>2, <2>3, OnlyTriesCount
<1>3. IInv /\ Bounded => EffectsBounded
  BY EffectsType DEF IInv, EffectsBounded
<1> HIDE DEF Bounded
<1> QED
  BY <1>1, <1>2, <1>3, Invariance, PTL DEF Spec

-----------------------------------------------------------------------------
\* While nothing fails: a row that waits, or was buried, has had no effect, and
\* one in processing is in the hands of a thread, which has caused its only
\* effect exactly when it acks next.
Clean ==
  /\ \A r \in Row : effects[r] <= 1
  /\ \A r \in Row : status[r] \in {"absent", "pending", "dlq"} => effects[r] = 0
  /\ \A r \in Row : status[r] = "processing" => \E t \in Threads : r \in Held(t)
  /\ \A t \in Threads : \A r \in batch[t] : effects[r] = 0
  /\ \A t \in Threads : pc[t] = "nack" => effects[cur[t]] = 0

CleanInv == faults = 0 => Clean

LEMMA InitClean == Init => Clean
<1> SUFFICES ASSUME Init PROVE Clean
  OBVIOUS
<1>1. ASSUME NEW r \in Row PROVE effects[r] = 0
  <2>1. Copies(parent, r) = {}
    BY DEF Init, Copies, Row, NoRow
  <2>2. loads[r] = 0 /\ Cardinality(Copies(parent, r)) = 0
    BY <2>1, FS_EmptySet DEF Init
  <2> QED
    BY <2>2 DEF effects
<1> QED
  BY <1>1 DEF Init, OutboxInit, Clean

\* Steps that touch no status, no effect and no row in hand
LEMMA ControlClean ==
  ASSUME IInv, Clean, UNCHANGED <<status, effects, batch, cur>>,
         \A t \in Threads : pc'[t] = "nack" => pc[t] = "nack"
  PROVE  Clean'
BY DEF Clean, Held

LEMMA EnqueueClean == ASSUME IInv, Clean, Enqueue PROVE Clean'
<1>1. PICK j \in ProducerJobs : Insert(j)
  BY DEF Enqueue
<1>2. /\ nextId \in Row /\ status[nextId] = "absent" /\ status'[nextId] = "pending"
      /\ \A r \in Row \ {nextId} : status'[r] = status[r]
  BY <1>1, InsertRow, WorkerAssumption DEF IInv, TypeOK
<1>3. UNCHANGED <<pc, batch, cur, effects>>
  BY SameEffects DEF Enqueue, history
<1> QED
  BY <1>2, <1>3 DEF Clean, Held

LEMMA ClaimCommitClean ==
  ASSUME IInv, Clean, NEW t \in Threads, ClaimCommit(t)
  PROVE  Clean'
<1>1. /\ pc[t] = "claim" /\ pc' = [pc EXCEPT ![t] = "rows"]
      /\ batch' = [batch EXCEPT ![t] = locks[t]] /\ cur' = cur /\ effects' = effects
      /\ \A r \in Row : status'[r] = IF r \in locks[t] THEN "processing" ELSE status[r]
  BY SameEffects DEF ClaimCommit, CallReturns, ClaimUpdate, history
<1>2. Held(t) = {} /\ \A r \in locks[t] : r \in Row /\ status[r] = "pending"
  BY <1>1 DEF IInv, TypeOK, ThreadInv, Held
<1>3. Held(t)' = locks[t] /\ \A u \in Threads \ {t} : Held(u)' = Held(u)
  BY <1>1, <1>2 DEF Held, IInv, TypeOK, ThreadInv
<1>4. ASSUME NEW r \in Row, status'[r] = "processing"
      PROVE  \E u \in Threads : r \in Held(u)'
  BY <1>1, <1>2, <1>3, <1>4 DEF Clean
<1>5. \A u \in Threads : pc'[u] = "nack" => pc[u] = "nack"
  BY <1>1 DEF IInv, TypeOK
<1>6. \A u \in Threads : \A r \in batch'[u] : effects'[r] = 0
  BY <1>1, <1>2 DEF Clean, IInv, TypeOK
<1> QED
  BY <1>1, <1>4, <1>5, <1>6 DEF Clean

\* process_row: the row has had no effect before, and has had one if it is acked.
LEMMA TryClean ==
  ASSUME IInv, Clean, NEW t \in Threads, NEW r \in Row,
         Reenqueue(t, r) \/ Dispatch(t, r), faults' = faults
  PROVE  Clean'
<1>1. /\ pc[t] = "rows" /\ r \in batch[t] /\ cur' = [cur EXCEPT ![t] = r]
      /\ batch' = [batch EXCEPT ![t] = @ \ {r}]
      /\ \A u \in Threads \ {t} : pc'[u] = pc[u]
  BY DEF Reenqueue, Dispatch, Take, IInv, TypeOK
<1>2. PICK k \in {0, 1} :
        /\ \A q \in Row : effects'[q] = effects[q] + (IF q = r THEN k ELSE 0)
        /\ pc'[t] = IF k = 1 THEN "ack" ELSE "nack"
  BY TryEffects
<1>3. effects \in [Row -> Nat] /\ effects[r] = 0 /\ cur[t] = NoRow /\ status[r] = "processing"
  BY <1>1, EffectsType DEF Clean, IInv, TypeOK, ThreadInv
<1>4. \/ status' = status
      \/ /\ nextId \in Row /\ status[nextId] = "absent" /\ status'[nextId] = "pending"
         /\ \A q \in Row \ {nextId} : status'[q] = status[q]
  <2>1. CASE UNCHANGED outbox
    BY <2>1 DEF outbox
  <2>2. CASE Insert(ReenqueuedJob(t, r))
    BY <2>2 DEF Insert, IInv, TypeOK, OutboxTypeOK, RowInv
  <2> QED
    BY <2>1, <2>2 DEF Reenqueue, Dispatch, CallReturns
<1>5. \A q \in Row \ {r} : effects'[q] = effects[q]
  BY <1>2, <1>3
<1>6. \A u \in Threads \ {t} : r \notin Held(u)
  BY <1>1 DEF IInv, ExclusiveClaim, Owns, Held
<1>7. effects'[r] = k
  BY <1>2, <1>3
<1>8. \A q \in Row : effects'[q] <= 1
  BY <1>5, <1>7 DEF Clean
<1>9. \A q \in Row : status'[q] \in {"absent", "pending", "dlq"} => effects'[q] = 0
  BY <1>3, <1>4, <1>5 DEF Clean
<1>10. ASSUME NEW q \in Row, status'[q] = "processing"
       PROVE  \E u \in Threads : q \in Held(u)'
  <2>1. status[q] = "processing"
    BY <1>4, <1>10
  <2>2. PICK u \in Threads : q \in Held(u)
    BY <2>1 DEF Clean
  <2>3. q \in Held(u)'
    BY <1>1, <1>3, <2>2 DEF Held, IInv, TypeOK, Row, NoRow
  <2> QED
    BY <2>3
<1>11. ASSUME NEW u \in Threads, NEW q \in batch'[u] PROVE effects'[q] = 0
  <2>1. q \in batch[u] /\ q \in Row
    BY <1>1 DEF IInv, TypeOK
  <2>2. q # r
    BY <1>1, <1>6, <2>1 DEF IInv, TypeOK, Held
  <2> QED
    BY <1>5, <2>1, <2>2 DEF Clean
<1>12. ASSUME NEW u \in Threads, pc'[u] = "nack" PROVE effects'[cur'[u]] = 0
  <2>1. CASE u = t
    BY <1>1, <1>2, <1>7, <1>12, <2>1 DEF IInv, TypeOK
  <2>2. CASE u # t
    <3>1. pc[u] = "nack" /\ cur'[u] = cur[u]
      BY <1>1, <1>12, <2>2 DEF IInv, TypeOK
    <3>2. cur[u] \in Row /\ cur[u] \in Held(u)
      BY <3>1 DEF IInv, TypeOK, ThreadInv, Held
    <3> QED
      BY <1>5, <1>6, <2>2, <3>1, <3>2 DEF Clean
  <2> QED
    BY <2>1, <2>2
<1> QED
  BY <1>8, <1>9, <1>10, <1>11, <1>12 DEF Clean

\* An ack or a nack that succeeds settles its row, or lets it wait again.
LEMMA EndClean ==
  ASSUME IInv, Clean, NEW t \in Threads, pc[t] \in {"ack", "nack"},
         \/ pc[t] = "ack" /\ AckUpdate(cur[t])
         \/ pc[t] = "nack" /\ NackUpdate(cur[t], seen[t][cur[t]] + 1),
         pc' = [pc EXCEPT ![t] = "rows"], cur' = [cur EXCEPT ![t] = NoRow],
         UNCHANGED <<batch, effects>>
  PROVE  Clean'
<1> DEFINE r == cur[t]
<1>1. r \in Row
  BY DEF IInv, TypeOK, ThreadInv
<1>2. /\ \A q \in Row \ {r} : status'[q] = status[q]
      /\ status'[r] \in {"done", "pending", "dlq"}
      /\ status'[r] # "done" => effects[r] = 0
  BY <1>1 DEF AckUpdate, NackUpdate, DeadLetter, Reschedule, Clean, IInv, TypeOK, OutboxTypeOK
<1>3. \A u \in Threads : Held(u) \subseteq Held(u)' \cup {r}
  BY DEF Held, IInv, TypeOK
<1>4. ASSUME NEW q \in Row, status'[q] = "processing"
      PROVE  \E u \in Threads : q \in Held(u)'
  <2>1. q # r /\ status[q] = "processing"
    BY <1>2, <1>4
  <2>2. PICK u \in Threads : q \in Held(u)
    BY <2>1 DEF Clean
  <2> QED
    BY <1>3, <2>1, <2>2
<1>5. \A u \in Threads : pc'[u] = "nack" => pc[u] = "nack" /\ cur'[u] = cur[u]
  BY DEF IInv, TypeOK
<1> HIDE DEF r
<1> QED
  BY <1>1, <1>2, <1>4, <1>5 DEF Clean

LEMMA NextClean ==
  ASSUME IInv, Clean, [Next]_vars, faults \in Nat, faults' = faults
  PROVE  Clean'
<1>1. CASE Enqueue
  BY <1>1, EnqueueClean
<1>2. CASE Tick \/ UNCHANGED vars
  BY <1>2, ControlClean, SameEffects DEF Tick, PassSecond, vars, history, outbox
<1>3. ASSUME NEW p \in Processes, Start(p) \/ Round(p) \/ Crash(p) PROVE Clean'
  <2>1. Start(p) \/ Round(p)
    BY <1>3 DEF Crash, Fault
  <2>2. \A t \in Threads : pc'[t] = "nack" => pc[t] = "nack"
    BY <2>1 DEF Start, Round
  <2> QED
    BY <2>1, <2>2, ControlClean, SameEffects DEF Start, Round, history, outbox
<1>4. ASSUME NEW t \in Threads, Step(t) PROVE Clean'
  <2>1. CASE Cancel(t) \/ ClaimLock(t) \/ FinishBatch(t)
    <3>1. \A u \in Threads : pc'[u] = "nack" => pc[u] = "nack"
      BY <2>1 DEF Cancel, ClaimLock, FinishBatch, IInv, TypeOK
    <3> QED
      BY <2>1, <3>1, ControlClean, SameEffects
      DEF Cancel, ClaimLock, FinishBatch, history, outbox
  <2>2. CASE ClaimCommit(t)
    BY <2>2, ClaimCommitClean
  <2>3. CASE ClaimRaises(t)
    BY <2>3 DEF ClaimRaises, CallRaises, Fault
  <2>4. ASSUME NEW r \in Row, Reenqueue(t, r) \/ Dispatch(t, r) PROVE Clean'
    BY <2>4, TryClean
  <2>5. CASE Ack(t)
    BY <2>5, EndClean, SameEffects DEF Ack, CallReturns, CallRaises, Fault, history
  <2>6. CASE Nack(t)
    BY <2>6, EndClean, SameEffects DEF Nack, CallReturns, CallRaises, Fault, history
  <2> QED
    BY <1>4, <2>1, <2>2, <2>3, <2>4, <2>5, <2>6 DEF Step
<1> QED
  BY <1>1, <1>2, <1>3, <1>4 DEF Next

\* While no call fails and no process dies, delivery is exactly once.
THEOREM DeliveryIsExactlyOnce == Spec => []ExactlyOnceWithoutFaults
<1>1. Init => CleanInv
  BY InitClean DEF CleanInv
<1>2. IInv /\ CleanInv /\ [Next]_vars => CleanInv'
  <2> SUFFICES ASSUME IInv, CleanInv, [Next]_vars, faults' = 0 PROVE Clean'
    BY DEF CleanInv
  <2>1. faults' = faults
    BY FaultsGrow DEF IInv
  <2> QED
    BY <2>1, NextClean DEF CleanInv
<1>3. IInv /\ CleanInv => ExactlyOnceWithoutFaults
  <2> SUFFICES ASSUME IInv, Clean, NEW r \in Row
               PROVE  /\ loads[r] + Cardinality(Successors(r)) <= 1
                      /\ status[r] = "dlq" => ~Worked(r)
                      /\ ~Orphan(r)
    BY DEF CleanInv, ExactlyOnceWithoutFaults
  <2> QED
    BY EffectsType DEF IInv, Clean, Orphan
<1> QED
  BY <1>1, <1>2, <1>3, Invariance, PTL DEF Spec

-----------------------------------------------------------------------------
(* IngestWorker implements JobQueue: one lemma per action, which names the *)
(* step of the queue that it takes or shows that the queue does not move.  *)
(* What a step of the queue requires of its job is what IInv says of the row. *)

QueueMoves == Queue!Next \/ UNCHANGED <<jobStates, tries, workedJobs>>

\* A row whose columns stay is the same job, in the same hands if it is done.
LEMMA SameJob ==
  ASSUME IInv, NEW r \in Row,
         status'[r] = status[r], attempts'[r] = attempts[r], tries'[r] = tries[r],
         status[r] = "done" =>
           ((\E t \in Threads : cur'[t] = r) <=> (\E t \in Threads : cur[t] = r))
  PROVE  jobStates'[r] = jobStates[r]
<1>1. status[r] \in {"absent", "pending", "processing", "done", "dlq"}
  BY DEF IInv, TypeOK, OutboxTypeOK, Status
<1>2. CASE status[r] = "done"
  BY <1>2 DEF jobStates, JobState
<1>3. CASE status[r] = "processing"
  BY <1>3 DEF jobStates, JobState
<1>4. CASE status[r] \in {"absent", "pending", "dlq"}
  BY <1>4 DEF jobStates, JobState
<1> QED
  BY <1>1, <1>2, <1>3, <1>4

LEMMA MovedTo ==
  ASSUME NEW S \in SUBSET Row, NEW s,
         \A r \in Row : jobStates'[r] = IF r \in S THEN s ELSE jobStates[r]
  PROVE  jobStates' = Queue!Move(S, s)
BY DEF jobStates, Queue!Move

LEMMA NobodyMoved ==
  ASSUME \A r \in Row : jobStates'[r] = jobStates[r]
  PROVE  jobStates' = jobStates
BY DEF jobStates

LEMMA SameWork ==
  ASSUME UNCHANGED <<loads, parent>>
  PROVE  workedJobs' = workedJobs
BY DEF workedJobs, Worked, Successors

\* A thread has at most one row in hand, which nobody else has.
LEMMA OneHand ==
  ASSUME IInv, NEW t \in Threads, NEW u \in Threads, cur[t] = cur[u], cur[t] # NoRow
  PROVE  t = u
BY DEF IInv, ExclusiveClaim, Owns, Held

-----------------------------------------------------------------------------
LEMMA InitQueue == Init => Queue!Init
<1> SUFFICES ASSUME Init PROVE Queue!Init
  OBVIOUS
<1>1. jobStates = [r \in Row |-> "absent"]
  BY DEF Init, OutboxInit, jobStates, JobState
<1>2. workedJobs = {}
  BY DEF Init, workedJobs, Worked, Successors, Row, NoRow
<1> QED
  BY <1>1, <1>2 DEF Init, Queue!Init

\* A producer submits a job.
LEMMA EnqueueSubmits == ASSUME IInv, Enqueue PROVE QueueMoves
<1>1. PICK j \in ProducerJobs : Insert(j)
  BY DEF Enqueue
<1>2. /\ nextId \in Row /\ status[nextId] = "absent" /\ status'[nextId] = "pending"
      /\ \A r \in Row \ {nextId} : status'[r] = status[r] /\ attempts'[r] = attempts[r]
  BY <1>1, InsertRow, WorkerAssumption DEF IInv, TypeOK
<1>3. UNCHANGED <<cur, tries, loads, parent>>
  BY DEF Enqueue, history
<1>4. jobStates[nextId] = "absent" /\ jobStates'[nextId] = "waiting"
  BY <1>2 DEF jobStates, JobState
<1>5. \A r \in Row \ {nextId} : jobStates'[r] = jobStates[r]
  BY <1>2, <1>3, SameJob
<1>6. jobStates' = Queue!Move({nextId}, "waiting")
  BY <1>2, <1>4, <1>5, MovedTo
<1> QED
  BY <1>2, <1>3, <1>4, <1>6, SameWork DEF QueueMoves, Queue!Next, Queue!Submit

\* A step that touches neither a status nor a counter nor a row in hand
LEMMA NothingMoves ==
  ASSUME IInv, UNCHANGED <<status, attempts, tries, loads, parent, cur>>
  PROVE  QueueMoves
<1>1. \A r \in Row : jobStates'[r] = jobStates[r]
  BY SameJob
<1> QED
  BY <1>1, NobodyMoved, SameWork DEF QueueMoves

\* Threads that let go of their row finish it if its ack was committed.
LEMMA LettingGoFinishes ==
  ASSUME IInv, NEW T \in SUBSET Threads,
         cur' = [t \in Threads |-> IF t \in T THEN NoRow ELSE cur[t]],
         UNCHANGED <<status, attempts, tries, loads, parent>>
  PROVE  QueueMoves
<1> DEFINE S == {r \in Row : status[r] = "done" /\ \E t \in T : cur[t] = r}
<1>1. ASSUME NEW r \in S
      PROVE  /\ jobStates[r] = "tried" /\ r \in workedJobs
             /\ jobStates'[r] = "finished"
  <2>1. PICK t \in T : cur[t] = r
    OBVIOUS
  <2>2. r # NoRow
    BY DEF Row, NoRow
  <2>3. \A u \in Threads : cur'[u] # r
    BY <2>1, <2>2, OneHand
  <2>4. Worked(r)
    BY DEF IInv, RowInv
  <2> QED
    BY <2>1, <2>3, <2>4 DEF jobStates, JobState, workedJobs
<1>2. ASSUME NEW r \in Row \ S PROVE jobStates'[r] = jobStates[r]
  <2>1. ASSUME status[r] = "done", NEW t \in Threads PROVE cur'[t] = r <=> cur[t] = r
    BY <2>1 DEF Row, NoRow
  <2> HIDE DEF S
  <2> QED
    BY <2>1, SameJob
<1>3. S \in SUBSET Row
  OBVIOUS
<1> HIDE DEF S
<1>4. jobStates' = Queue!Move(S, "finished")
  BY <1>1, <1>2, <1>3, MovedTo
<1>5. Queue!Finish(S)
  BY <1>1, <1>4, SameWork DEF Queue!Finish
<1> QED
  BY <1>3, <1>5 DEF QueueMoves, Queue!Next

LEMMA ControlMoves ==
  ASSUME IInv,
         \/ Tick
         \/ UNCHANGED vars
         \/ \E p \in Processes : Start(p) \/ Round(p) \/ Crash(p)
         \/ \E t \in Threads : Cancel(t) \/ ClaimLock(t) \/ FinishBatch(t)
  PROVE  QueueMoves
<1>1. UNCHANGED <<status, attempts, tries, loads, parent>>
  BY DEF Tick, PassSecond, vars, Start, Round, Crash, Cancel, ClaimLock, FinishBatch,
     outbox, history
<1>2. CASE \E p \in Processes : Crash(p)
  <2>1. PICK p \in Processes : Crash(p)
    BY <1>2
  <2>2. ThreadsOf(p) \in SUBSET Threads
    BY DEF ThreadsOf
  <2>3. cur' = [t \in Threads |-> IF t \in ThreadsOf(p) THEN NoRow ELSE cur[t]]
    BY <2>1 DEF Crash
  <2> QED
    BY <1>1, <2>2, <2>3, LettingGoFinishes
<1>3. CASE UNCHANGED cur
  BY <1>1, <1>3, NothingMoves
<1> QED
  BY <1>2, <1>3 DEF Tick, vars, Start, Round, Cancel, ClaimLock, FinishBatch

-----------------------------------------------------------------------------
\* A claim leases the rows it has locked.
LEMMA ClaimLeases ==
  ASSUME IInv, NEW t \in Threads, ClaimUpdate(locks[t]),
         UNCHANGED <<cur, tries, loads, parent>>
  PROVE  QueueMoves
<1>1. locks[t] \in SUBSET Row /\ \A r \in locks[t] : status[r] = "pending"
  BY DEF IInv, TypeOK, ThreadInv
<1>2. attempts' = attempts
      /\ \A r \in Row : status'[r] = IF r \in locks[t] THEN "processing" ELSE status[r]
  BY DEF ClaimUpdate
<1>3. ASSUME NEW r \in locks[t]
      PROVE  jobStates[r] = "waiting" /\ jobStates'[r] = "leased"
  <2>1. tries[r] = attempts[r] /\ status'[r] = "processing"
    BY <1>1, <1>2 DEF IInv, RowInv
  <2> QED
    BY <1>1, <1>2, <2>1 DEF jobStates, JobState
<1>4. \A r \in Row \ locks[t] : jobStates'[r] = jobStates[r]
  BY <1>2, SameJob
<1>5. jobStates' = Queue!Move(locks[t], "leased")
  BY <1>1, <1>3, <1>4, MovedTo
<1>6. Queue!Lease(locks[t])
  BY <1>3, <1>5, SameWork DEF Queue!Lease
<1> QED
  BY <1>1, <1>6 DEF QueueMoves, Queue!Next

LEMMA ClaimMoves ==
  ASSUME IInv, NEW t \in Threads, ClaimCommit(t) \/ ClaimRaises(t)
  PROVE  QueueMoves
<1>1. pc[t] \in {"tick", "claim"} /\ UNCHANGED <<tries, loads, parent>>
  BY DEF ClaimCommit, ClaimRaises, Raise, history
<1>2. cur' = cur
  <2>1. cur[t] = NoRow
    BY <1>1 DEF IInv, ThreadInv
  <2> QED
    BY <2>1 DEF ClaimCommit, ClaimRaises, Raise, IInv, TypeOK
<1>3. CASE ClaimUpdate(locks[t])
  BY <1>1, <1>2, <1>3, ClaimLeases
<1>4. CASE UNCHANGED outbox
  BY <1>1, <1>2, <1>4, NothingMoves DEF outbox
<1> QED
  BY <1>3, <1>4 DEF ClaimCommit, ClaimRaises, CallReturns, CallRaises

-----------------------------------------------------------------------------
\* process_row tries the row that it takes; the other rows stay, but for one
\* that may be inserted.
LEMMA TakenIsTried ==
  ASSUME IInv, NEW t \in Threads, NEW r \in Row, Take(t, r),
         status'[r] = status[r], attempts'[r] = attempts[r]
  PROVE  /\ jobStates[r] = "leased" /\ jobStates'[r] = "tried"
         /\ \A q \in Row \ {r} : status'[q] = status[q] /\ attempts'[q] = attempts[q] =>
              jobStates'[q] = jobStates[q]
<1>1. /\ status[r] = "processing" /\ tries[r] = attempts[r] /\ cur[t] = NoRow
      /\ cur' = [cur EXCEPT ![t] = r] /\ tries' = [tries EXCEPT ![r] = @ + 1]
  BY DEF Take, IInv, ThreadInv
<1>2. attempts[r] \in Nat /\ tries'[r] = tries[r] + 1
  BY <1>1 DEF IInv, TypeOK, OutboxTypeOK
<1>3. jobStates[r] = "leased" /\ jobStates'[r] = "tried"
  BY <1>1, <1>2 DEF jobStates, JobState
<1>4. ASSUME NEW q \in Row \ {r}, status'[q] = status[q], attempts'[q] = attempts[q]
      PROVE  jobStates'[q] = jobStates[q]
  <2>1. tries'[q] = tries[q]
    BY <1>1 DEF IInv, TypeOK
  <2>2. \A u \in Threads : cur'[u] = q <=> cur[u] = q
    BY <1>1 DEF IInv, TypeOK, Row, NoRow
  <2> QED
    BY <1>4, <2>1, <2>2, SameJob
<1> QED
  BY <1>3, <1>4

\* The handler of a row is a try, which works if it loads the row; so is a call
\* of reenqueue that fails without effect.
LEMMA TryMoves ==
  ASSUME IInv, NEW t \in Threads, NEW r \in Row, Take(t, r),
         UNCHANGED <<outbox, parent>>,
         loads' = loads \/ loads' = [loads EXCEPT ![r] = @ + 1]
  PROVE  QueueMoves
<1>1. /\ jobStates[r] = "leased" /\ jobStates'[r] = "tried"
      /\ \A q \in Row \ {r} : jobStates'[q] = jobStates[q]
  BY TakenIsTried DEF outbox
<1>2. jobStates' = Queue!Move({r}, "tried")
  BY <1>1, MovedTo
<1>3. workedJobs' \in {workedJobs, workedJobs \cup {r}}
  <2>1. CASE loads' = loads
    BY <2>1, SameWork
  <2>2. CASE loads' = [loads EXCEPT ![r] = @ + 1]
    <3>1. \A q \in Row : loads'[q] > 0 <=> q = r \/ loads[q] > 0
      BY <2>2 DEF IInv, TypeOK
    <3> QED
      BY <3>1 DEF workedJobs, Worked, Successors
  <2> QED
    BY <2>1, <2>2
<1>4. tries' = [tries EXCEPT ![r] = @ + 1]
  BY DEF Take
<1>5. Queue!Try(r)
  BY <1>1, <1>2, <1>3, <1>4 DEF Queue!Try
<1> QED
  BY <1>5 DEF QueueMoves, Queue!Next

\* A re-enqueued row is replaced by a new job.
LEMMA ReenqueueReplaces ==
  ASSUME IInv, NEW t \in Threads, NEW r \in Row, Take(t, r),
         NEW j \in Job, Insert(j), Successor(r), UNCHANGED loads
  PROVE  QueueMoves
<1>1. /\ nextId \in Row /\ status[nextId] = "absent" /\ status'[nextId] = "pending"
      /\ \A q \in Row \ {nextId} : status'[q] = status[q] /\ attempts'[q] = attempts[q]
  BY InsertRow DEF IInv, TypeOK
<1>2. status[r] = "processing"
  BY DEF Take, IInv, ThreadInv
<1>3. r # nextId
  BY <1>1, <1>2
<1>4. /\ jobStates[r] = "leased" /\ jobStates'[r] = "tried"
      /\ \A q \in Row \ {r, nextId} : jobStates'[q] = jobStates[q]
  BY <1>1, <1>3, TakenIsTried
<1>5. jobStates[nextId] = "absent" /\ jobStates'[nextId] = "waiting"
  BY <1>1 DEF jobStates, JobState
<1>6. jobStates' = [Queue!Move({r}, "tried") EXCEPT ![nextId] = "waiting"]
  BY <1>1, <1>3, <1>4, <1>5 DEF jobStates, Queue!Move
<1>7. workedJobs' = workedJobs \cup {r}
  <2>1. parent[nextId] = NoRow /\ parent' = [parent EXCEPT ![nextId] = r]
    BY <1>1 DEF IInv, RowInv, Successor
  <2>2. \A s \in Row : parent'[s] = IF s = nextId THEN r ELSE parent[s]
    BY <2>1 DEF IInv, TypeOK
  <2>3. \A q \in Row : (\E s \in Row : parent'[s] = q) <=>
                          q = r \/ \E s \in Row : parent[s] = q
    BY <1>1, <2>1, <2>2 DEF Row, NoRow
  <2>4. \A q \in Row : (loads'[q] > 0 \/ \E s \in Row : parent'[s] = q) <=>
                          q = r \/ loads[q] > 0 \/ \E s \in Row : parent[s] = q
    BY <2>3
  <2>5. /\ workedJobs' = {q \in Row : loads'[q] > 0 \/ \E s \in Row : parent'[s] = q}
        /\ workedJobs = {q \in Row : loads[q] > 0 \/ \E s \in Row : parent[s] = q}
    BY DEF workedJobs, Worked, Successors
  <2> QED
    BY <2>4, <2>5
<1>8. tries' = [tries EXCEPT ![r] = @ + 1]
  BY DEF Take
<1>9. Queue!Replace(r, nextId)
  BY <1>4, <1>5, <1>6, <1>7, <1>8 DEF Queue!Replace
<1> QED
  BY <1>1, <1>9 DEF QueueMoves, Queue!Next

LEMMA ProcessRowMoves ==
  ASSUME IInv, NEW t \in Threads, NEW r \in Row, Reenqueue(t, r) \/ Dispatch(t, r)
  PROVE  QueueMoves
<1>1. Take(t, r)
  BY DEF Reenqueue, Dispatch
<1>2. CASE Insert(ReenqueuedJob(t, r)) /\ Successor(r) /\ UNCHANGED loads
  <2>1. status[r] = "processing"
    BY <1>1 DEF Take, IInv, ThreadInv
  <2>2. job[r] \in Job
    BY <2>1 DEF IInv, RowInv
  <2>3. version[ProcessOf[t]] \in Versions
    BY WorkerAssumption DEF IInv, TypeOK
  <2>4. ReenqueuedJob(t, r) \in Job
    BY <2>2, <2>3 DEF ReenqueuedJob, Job
  <2> QED
    BY <1>1, <1>2, <2>4, ReenqueueReplaces
<1>3. CASE /\ UNCHANGED <<outbox, parent>>
           /\ loads' = loads \/ loads' = [loads EXCEPT ![r] = @ + 1]
  BY <1>1, <1>3, TryMoves
<1> QED
  BY <1>2, <1>3 DEF Reenqueue, Dispatch, CallReturns

-----------------------------------------------------------------------------
\* The row a thread acks or nacks was tried.
LEMMA CurrentIsTried ==
  ASSUME IInv, NEW t \in Threads, pc[t] \in {"ack", "nack"}
  PROVE  /\ cur[t] \in Row /\ jobStates[cur[t]] = "tried"
         /\ tries[cur[t]] = attempts[cur[t]] + 1
         /\ seen[t][cur[t]] = attempts[cur[t]]
         /\ attempts[cur[t]] \in Nat /\ attempts[cur[t]] < MAX_ATTEMPTS
<1>1. /\ cur[t] \in Row /\ tries[cur[t]] = attempts[cur[t]] + 1
      /\ seen[t][cur[t]] = attempts[cur[t]]
      /\ status[cur[t]] \in {"processing", "done"}
  BY DEF IInv, TypeOK, ThreadInv
<1>2. attempts[cur[t]] \in Nat /\ attempts[cur[t]] < MAX_ATTEMPTS
  BY <1>1 DEF IInv, TypeOK, OutboxTypeOK, RowInv
<1> QED
  BY <1>1, <1>2 DEF jobStates, JobState

\* When only the row in hand is updated, the other jobs stay.
LEMMA OthersStay ==
  ASSUME IInv, NEW t \in Threads, cur[t] \in Row,
         cur' = cur \/ cur' = [cur EXCEPT ![t] = NoRow],
         UNCHANGED tries, NEW q \in Row, q # cur[t],
         status'[q] = status[q], attempts'[q] = attempts[q]
  PROVE  jobStates'[q] = jobStates[q]
<1>1. \A u \in Threads : cur'[u] = q <=> cur[u] = q
  BY DEF IInv, TypeOK, Row, NoRow
<1> QED
  BY <1>1, SameJob

LEMMA AckMoves == ASSUME IInv, NEW t \in Threads, Ack(t) PROVE QueueMoves
<1> DEFINE r == cur[t]
<1>1. /\ r \in Row /\ jobStates[r] = "tried" /\ UNCHANGED <<tries, loads, parent>>
      /\ cur' = cur \/ cur' = [cur EXCEPT ![t] = NoRow]
      /\ pc[t] = "ack"
  BY CurrentIsTried DEF Ack, history
<1>2. CASE UNCHANGED outbox /\ UNCHANGED cur
  BY <1>1, <1>2, NothingMoves DEF outbox
<1>3. CASE AckUpdate(r)
  <2>1. /\ status'[r] = "done" /\ attempts' = attempts
        /\ \A q \in Row \ {r} : status'[q] = status[q]
    BY <1>1, <1>3 DEF AckUpdate, IInv, TypeOK, OutboxTypeOK
  <2>2. \A q \in Row \ {r} : jobStates'[q] = jobStates[q]
    BY <1>1, <2>1, OthersStay
  <2>3. CASE cur' = cur
    <3>1. jobStates'[r] = "tried"
      BY <1>1, <2>1, <2>3 DEF jobStates, JobState
    <3>2. jobStates' = jobStates
      BY <1>1, <2>2, <3>1, NobodyMoved
    <3> QED
      BY <1>1, <3>2, SameWork DEF QueueMoves
  <2>4. CASE cur' = [cur EXCEPT ![t] = NoRow]
    <3>1. \A u \in Threads : cur'[u] # r
      <4>1. r # NoRow
        BY <1>1 DEF Row, NoRow
      <4>2. ASSUME NEW u \in Threads PROVE cur[u] = r => u = t
        BY <4>1, OneHand
      <4> QED
        BY <2>4, <4>1, <4>2 DEF IInv, TypeOK
    <3>2. jobStates'[r] = "finished"
      BY <1>1, <2>1, <3>1 DEF jobStates, JobState
    <3>3. r \in workedJobs
      BY <1>1 DEF IInv, ThreadInv, workedJobs
    <3>4. jobStates' = Queue!Move({r}, "finished")
      BY <1>1, <2>2, <3>2, MovedTo
    <3>5. Queue!Finish({r})
      BY <1>1, <3>3, <3>4, SameWork DEF Queue!Finish
    <3> QED
      BY <1>1, <3>5 DEF QueueMoves, Queue!Next
  <2> QED
    BY <1>1, <2>3, <2>4
<1> QED
  BY <1>2, <1>3 DEF Ack, CallReturns, CallRaises

\* A nack makes the job wait again, or buries it at its last try.
LEMMA NackUpdateMoves ==
  ASSUME IInv, NEW t \in Threads, pc[t] = "nack",
         NackUpdate(cur[t], seen[t][cur[t]] + 1),
         cur' = [cur EXCEPT ![t] = NoRow], UNCHANGED <<tries, loads, parent>>
  PROVE  QueueMoves
<1> DEFINE r == cur[t]
<1>1. /\ r \in Row /\ jobStates[r] = "tried" /\ tries[r] = attempts[r] + 1
      /\ seen[t][r] = attempts[r] /\ attempts[r] \in Nat /\ attempts[r] < MAX_ATTEMPTS
  BY CurrentIsTried
<1> HIDE DEF r
<1>2. \A q \in Row \ {r} : status'[q] = status[q] /\ attempts'[q] = attempts[q]
  BY <1>1 DEF NackUpdate, DeadLetter, Reschedule, IInv, TypeOK, OutboxTypeOK, r
<1>3. \A q \in Row \ {r} : jobStates'[q] = jobStates[q]
  BY <1>1, <1>2, OthersStay DEF r
<1>4. CASE tries[r] < MAX_ATTEMPTS /\ Reschedule(r, tries[r])
  <2>1. status'[r] = "pending"
    BY <1>1, <1>4 DEF Reschedule, IInv, TypeOK, OutboxTypeOK
  <2>2. jobStates'[r] = "waiting"
    BY <1>1, <2>1 DEF jobStates, JobState
  <2>3. jobStates' = Queue!Move({r}, "waiting")
    BY <1>1, <1>3, <2>2, MovedTo
  <2>4. Queue!Retry(r)
    BY <1>1, <1>4, <2>3, SameWork DEF Queue!Retry
  <2> QED
    BY <1>1, <2>4 DEF QueueMoves, Queue!Next
<1>5. CASE tries[r] >= MAX_ATTEMPTS /\ DeadLetter(r)
  <2>1. status'[r] = "dlq"
    BY <1>1, <1>5 DEF DeadLetter, IInv, TypeOK, OutboxTypeOK
  <2>2. tries[r] = MAX_ATTEMPTS
    BY <1>1, <1>5, OutboxAssumption
  <2>3. jobStates'[r] = "dead"
    BY <1>1, <2>1 DEF jobStates, JobState
  <2>4. jobStates' = Queue!Move({r}, "dead")
    BY <1>1, <1>3, <2>3, MovedTo
  <2>5. Queue!Bury(r)
    BY <1>1, <2>2, <2>4, SameWork DEF Queue!Bury
  <2> QED
    BY <1>1, <2>5 DEF QueueMoves, Queue!Next
<1> QED
  BY <1>1, <1>4, <1>5 DEF NackUpdate, r

LEMMA NackMoves == ASSUME IInv, NEW t \in Threads, Nack(t) PROVE QueueMoves
<1>1. /\ pc[t] = "nack" /\ UNCHANGED <<tries, loads, parent>>
      /\ cur' = [cur EXCEPT ![t] = NoRow]
  BY DEF Nack, Raise, history
<1>2. CASE NackUpdate(cur[t], seen[t][cur[t]] + 1)
  BY <1>1, <1>2, NackUpdateMoves
<1>3. CASE UNCHANGED outbox
  <2>1. cur' = [u \in Threads |-> IF u \in {t} THEN NoRow ELSE cur[u]]
    BY <1>1 DEF IInv, TypeOK
  <2> QED
    BY <1>1, <1>3, <2>1, LettingGoFinishes DEF outbox
<1> QED
  BY <1>2, <1>3 DEF Nack, CallReturns, CallRaises

-----------------------------------------------------------------------------
LEMMA NextMoves == ASSUME IInv, [Next]_vars PROVE QueueMoves
<1>1. ASSUME NEW t \in Threads, Step(t) PROVE QueueMoves
  BY <1>1, ControlMoves, ClaimMoves, ProcessRowMoves, AckMoves, NackMoves DEF Step
<1> QED
  BY <1>1, EnqueueSubmits, ControlMoves DEF Next

\* The outbox and its workers are an at-least-once job queue: jobs are tried at
\* most MAX_ATTEMPTS times and finished only after a try that worked, whatever
\* calls fail and processes die.
THEOREM OutboxImplementsJobQueue == Spec => ImplementsJobQueue
<1>1. IInv /\ [Next]_vars => [Queue!Next]_(Queue!queue)
  BY NextMoves DEF QueueMoves, Queue!queue
<1> QED
  BY <1>1, InitQueue, Invariance, PTL DEF Spec, ImplementsJobQueue, Queue!Spec

-----------------------------------------------------------------------------
(* Backoff: how long a row has lived.                                      *)

\* What the backoffs of a attempts add up to at least
Waited(a) == TwoTo[a + 1] - 2 + a * Min(Skews)

\* A row has lived as long as its attempts ask for, what it has still to wait
\* included; only a pending row that is not locked waits
AgeInv ==
  /\ age \in [Row -> Nat]
  /\ \A r \in Row : status[r] # "pending" => wait[r] = 0
  /\ \A t \in Threads : \A r \in locks[t] : wait[r] = 0
  /\ \A r \in Row : status[r] # "absent" => age[r] + wait[r] >= Waited(attempts[r])

LEMMA LeastSkew == Min(Skews) \in Int /\ \A s \in Skews : Min(Skews) <= s
<1>1. Min(Skews) \in Skews /\ \A s \in Skews : Min(Skews) <= s
  BY SkewAssumption DEF Min
<1> QED
  BY <1>1, OutboxAssumption

LEMMA WaitedMore ==
  ASSUME NEW a \in Nat
  PROVE  /\ Waited(a) \in Int
         /\ Waited(0) = 0
         /\ Waited(a + 1) = Waited(a) + TwoTo[a + 1] + Min(Skews)
<1> DEFINE m == Min(Skews)
<1>1. m \in Int /\ TwoTo[a + 1] \in Nat
  BY LeastSkew, TwoToDoubles
<1>2. TwoTo[1] = 2 /\ TwoTo[(a + 1) + 1] = 2 * TwoTo[a + 1]
  <2>1. TwoTo[0 + 1] = 2 * TwoTo[0] /\ TwoTo[0] = 1
    BY TwoToDoubles
  <2>2. a + 1 \in Nat
    OBVIOUS
  <2> QED
    BY <2>1, <2>2, TwoToDoubles
<1> HIDE DEF m
<1>3. a * m \in Int /\ (a + 1) * m = a * m + m /\ 0 * m = 0
  BY <1>1
<1>4. /\ Waited(a) = TwoTo[a + 1] - 2 + a * m
      /\ Waited(a + 1) = TwoTo[(a + 1) + 1] - 2 + (a + 1) * m
      /\ Waited(0) = TwoTo[1] - 2 + 0 * m
  BY DEF Waited, m
<1>5. Waited(a) \in Int /\ Waited(0) = 0
  BY <1>1, <1>2, <1>3, <1>4
<1>6. Waited(a + 1) = Waited(a) + TwoTo[a + 1] + m
  <2> DEFINE p == TwoTo[a + 1]
             am == a * m
             bm == (a + 1) * m
  <2> HIDE DEF p, am, bm
  <2>1. /\ p \in Nat /\ m \in Int /\ am \in Int /\ bm = am + m
        /\ Waited(a) = p - 2 + am /\ Waited(a + 1) = 2 * p - 2 + bm
    BY <1>1, <1>2, <1>3, <1>4 DEF p, am, bm
  <2>2. Waited(a + 1) = Waited(a) + p + m
    BY <2>1
  <2> QED
    BY <2>2 DEF p
<1> QED
  BY <1>5, <1>6 DEF m

LEMMA InitAge == BackoffInit => AgeInv
  BY DEF BackoffInit, Init, OutboxInit, AgeInv

\* Who changes the outbox, and that rows are only locked when they are due
LEMMA Writers ==
  ASSUME IInv,
         Enqueue \/ (\E p \in Processes : Start(p) \/ Round(p) \/ Crash(p))
                 \/ (\E t \in Threads : Step(t)) \/ UNCHANGED vars
  PROVE  \/ UNCHANGED outbox /\ \A t \in Threads : \A r \in locks'[t] : r \in locks[t] \/ r \in Due
         \/ /\ \A t \in Threads : locks'[t] \subseteq locks[t]
            /\ \/ \E j : Insert(j)
               \/ \E t \in Threads : ClaimUpdate(locks[t])
               \/ \E t \in Threads : pc[t] = "ack" /\ AckUpdate(cur[t])
               \/ \E t \in Threads : /\ pc[t] = "nack"
                                     /\ NackUpdate(cur[t], seen[t][cur[t]] + 1)
<1> DEFINE Goal == \/ UNCHANGED outbox /\ \A t \in Threads : \A r \in locks'[t] : r \in locks[t] \/ r \in Due
                   \/ /\ \A t \in Threads : locks'[t] \subseteq locks[t]
                      /\ \/ \E j : Insert(j)
                         \/ \E t \in Threads : ClaimUpdate(locks[t])
                         \/ \E t \in Threads : pc[t] = "ack" /\ AckUpdate(cur[t])
                         \/ \E t \in Threads : /\ pc[t] = "nack"
                                               /\ NackUpdate(cur[t], seen[t][cur[t]] + 1)
<1> USE DEF IInv, TypeOK
<1>1. ASSUME Enqueue PROVE Goal
  BY <1>1 DEF Enqueue
<1>2. ASSUME UNCHANGED vars PROVE Goal
  BY <1>2 DEF vars
<1>3. ASSUME NEW p \in Processes, Start(p) \/ Round(p) \/ Crash(p) PROVE Goal
  BY <1>3 DEF Start, Round, Crash
<1>4. ASSUME NEW t \in Threads, Cancel(t) \/ FinishBatch(t) PROVE Goal
  BY <1>4 DEF Cancel, FinishBatch
<1>5. ASSUME NEW t \in Threads, ClaimLock(t) PROVE Goal
  <2>1. /\ UNCHANGED outbox
        /\ locks' = [locks EXCEPT ![t] = FirstBatch(Due \ Locked)]
    BY <1>5 DEF ClaimLock
  <2>2. FirstBatch(Due \ Locked) \subseteq Due
    BY DEF FirstBatch
  <2> QED
    BY <2>1, <2>2
<1>6. ASSUME NEW t \in Threads, ClaimCommit(t) PROVE Goal
  BY <1>6 DEF ClaimCommit, CallReturns
<1>7. ASSUME NEW t \in Threads, ClaimRaises(t) PROVE Goal
  BY <1>7 DEF ClaimRaises, CallRaises, Raise
<1>8. ASSUME NEW t \in Threads, NEW r \in Row, Reenqueue(t, r) \/ Dispatch(t, r) PROVE Goal
  BY <1>8 DEF Reenqueue, Dispatch, Take, CallReturns
<1>9. ASSUME NEW t \in Threads, Ack(t) PROVE Goal
  BY <1>9 DEF Ack, CallReturns, CallRaises
<1>10. ASSUME NEW t \in Threads, Nack(t) PROVE Goal
  <2>1. pc[t] = "nack" /\ (UNCHANGED outbox \/ NackUpdate(cur[t], seen[t][cur[t]] + 1))
    BY <1>10 DEF Nack, CallReturns, CallRaises
  <2>2. locks' = locks \/ locks' = [locks EXCEPT ![t] = {}]
    BY <1>10 DEF Nack, Raise
  <2> QED
    BY <2>1, <2>2
<1> QED
  BY <1>1, <1>2, <1>3, <1>4, <1>5, <1>6, <1>7, <1>8, <1>9, <1>10 DEF Step

LEMMA SameOutboxAge ==
  ASSUME IInv, AgeInv, UNCHANGED <<outbox, age>>,
         \A t \in Threads : \A r \in locks'[t] : r \in locks[t] \/ r \in Due
  PROVE  AgeInv'
  BY DEF AgeInv, outbox, Due, Waited

LEMMA InsertAge ==
  ASSUME IInv, AgeInv, NEW j, Insert(j), UNCHANGED age,
         \A t \in Threads : locks'[t] \subseteq locks[t]
  PROVE  AgeInv'
<1> USE DEF IInv, TypeOK, OutboxTypeOK
<1>1. /\ nextId \in Row
      /\ status' = [status EXCEPT ![nextId] = "pending"]
      /\ attempts' = [attempts EXCEPT ![nextId] = 0]
      /\ wait' = [wait EXCEPT ![nextId] = 0]
  BY DEF Insert
<1>2. age[nextId] + wait'[nextId] >= Waited(0)
  BY <1>1, WaitedMore DEF AgeInv
<1>3. ASSUME NEW r \in Row, status'[r] # "absent"
      PROVE  age[r] + wait'[r] >= Waited(attempts'[r])
  BY <1>1, <1>2, <1>3 DEF AgeInv
<1>4. \A r \in Row : status'[r] # "pending" => wait'[r] = 0
  BY <1>1 DEF AgeInv
<1>5. \A t \in Threads : \A r \in locks'[t] : wait'[r] = 0
  BY <1>1 DEF AgeInv
<1> QED
  BY <1>3, <1>4, <1>5 DEF AgeInv, Waited

LEMMA ClaimAge ==
  ASSUME IInv, AgeInv, NEW t \in Threads, ClaimUpdate(locks[t]), UNCHANGED age,
         \A u \in Threads : locks'[u] \subseteq locks[u]
  PROVE  AgeInv'
<1> USE DEF IInv, TypeOK, OutboxTypeOK
<1>1. /\ status' = [r \in Row |-> IF r \in locks[t] THEN "processing" ELSE status[r]]
      /\ wait' = wait /\ attempts' = attempts
  BY DEF ClaimUpdate
<1>2. \A r \in locks[t] : status[r] = "pending" /\ wait[r] = 0
  BY DEF ThreadInv, AgeInv
<1>3. \A r \in Row : status'[r] = "absent" => status[r] = "absent"
  BY <1>1
<1>4. \A r \in Row : status'[r] # "pending" => wait'[r] = 0
  BY <1>1, <1>2 DEF AgeInv
<1>5. \A r \in Row : status'[r] # "absent" => age[r] + wait[r] >= Waited(attempts[r])
  BY <1>1, <1>2 DEF AgeInv
<1> QED
  BY <1>1, <1>4, <1>5 DEF AgeInv, Waited

LEMMA AckAge ==
  ASSUME IInv, AgeInv, NEW t \in Threads, pc[t] = "ack", AckUpdate(cur[t]), UNCHANGED age,
         \A u \in Threads : locks'[u] \subseteq locks[u]
  PROVE  AgeInv'
<1> USE DEF IInv, TypeOK, OutboxTypeOK
<1>1. PICK x \in Row : x = cur[t] /\ status[x] = "processing"
  BY DEF ThreadInv
<1>2. status' = [status EXCEPT ![x] = "done"] /\ wait' = wait /\ attempts' = attempts
  BY <1>1 DEF AckUpdate
<1>3. \A r \in Row : /\ status'[r] # "pending" => wait[r] = 0
                     /\ status'[r] # "absent" => age[r] + wait[r] >= Waited(attempts[r])
  BY <1>1, <1>2 DEF AgeInv
<1> QED
  BY <1>2, <1>3 DEF AgeInv, Waited

LEMMA NackAge ==
  ASSUME IInv, AgeInv, NEW t \in Threads, pc[t] = "nack",
         NackUpdate(cur[t], seen[t][cur[t]] + 1), UNCHANGED age,
         \A u \in Threads : locks'[u] \subseteq locks[u]
  PROVE  AgeInv'
<1> USE DEF IInv, TypeOK, OutboxTypeOK
<1>1. PICK x \in Row : x = cur[t]
  BY DEF ThreadInv
<1>2. /\ status[x] \in {"processing", "done"} /\ seen[t][x] = attempts[x]
      /\ wait[x] = 0 /\ age[x] >= Waited(attempts[x])
  <2>1. status[x] \in {"processing", "done"} /\ seen[t][x] = attempts[x]
    BY <1>1 DEF ThreadInv
  <2>2. wait[x] = 0 /\ age[x] + wait[x] >= Waited(attempts[x])
    BY <2>1 DEF AgeInv
  <2> QED
    BY <2>1, <2>2 DEF AgeInv
<1>3. \A u \in Threads : x \notin locks[u]
  BY <1>2 DEF ThreadInv
<1> DEFINE n == attempts[x] + 1
<1>4. NackUpdate(x, n)
  BY <1>1, <1>2
<1>5. CASE DeadLetter(x)
  <2>1. status' = [status EXCEPT ![x] = "dlq"] /\ wait' = wait /\ attempts' = attempts
    BY <1>5 DEF DeadLetter
  <2>2. \A r \in Row : /\ status'[r] # "pending" => wait[r] = 0
                       /\ status'[r] # "absent" => age[r] + wait[r] >= Waited(attempts[r])
    BY <1>2, <2>1 DEF AgeInv
  <2> QED
    BY <2>1, <2>2 DEF AgeInv, Waited
<1>6. ASSUME NEW s \in Skews,
             status' = [status EXCEPT ![x] = "pending"],
             attempts' = [attempts EXCEPT ![x] = n],
             wait' = [wait EXCEPT ![x] = Backoff(n, s)]
      PROVE  AgeInv'
  <2>1. Backoff(n, s) \in Nat /\ Backoff(n, s) >= TwoTo[n] + Min(Skews)
    <3>1. TwoTo[n] \in Nat /\ Min(Skews) \in Int /\ s \in Int /\ Min(Skews) <= s
      BY LeastSkew, TwoToDoubles, OutboxAssumption
    <3> HIDE DEF n
    <3> QED
      BY <3>1 DEF Backoff
  <2>2. age[x] + Backoff(n, s) >= Waited(n)
    <3>1. attempts[x] \in Nat /\ age[x] \in Nat
      BY DEF AgeInv
    <3>2. Waited(attempts[x]) \in Int /\ Waited(n) = Waited(attempts[x]) + TwoTo[n] + Min(Skews)
      BY <3>1, WaitedMore
    <3>3. TwoTo[n] \in Nat /\ Min(Skews) \in Int
      BY <3>1, LeastSkew, TwoToDoubles
    <3> HIDE DEF n
    <3> QED
      BY <1>2, <2>1, <3>1, <3>2, <3>3
  <2>3. ASSUME NEW r \in Row, status'[r] # "absent"
        PROVE  age[r] + wait'[r] >= Waited(attempts'[r])
    <3>1. CASE r = x
      BY <1>6, <2>2, <3>1
    <3>2. CASE r # x
      BY <1>6, <2>3, <3>2 DEF AgeInv
    <3> QED
      BY <3>1, <3>2
  <2> HIDE DEF n
  <2>4. \A r \in Row : status'[r] # "pending" => wait'[r] = 0
    BY <1>6 DEF AgeInv
  <2>5. \A u \in Threads : \A r \in locks'[u] : wait'[r] = 0
    BY <1>3, <1>6 DEF AgeInv
  <2> QED
    BY <2>3, <2>4, <2>5 DEF AgeInv, Waited
<1> QED
  BY <1>4, <1>5, <1>6 DEF NackUpdate, Reschedule

\* What waits a second less is a second older
LEMMA TickAge ==
  ASSUME IInv, AgeInv, Tick, age' = Grow
  PROVE  AgeInv'
<1> USE DEF IInv, TypeOK, OutboxTypeOK
<1>1. /\ wait' = [r \in Row |-> IF wait[r] > 0 THEN wait[r] - 1 ELSE 0]
      /\ UNCHANGED <<status, attempts, locks>>
  BY DEF Tick, PassSecond
<1>2. age' \in [Row -> Nat]
  BY DEF Grow, AgeInv
<1>3. ASSUME NEW r \in Row, status[r] # "absent"
      PROVE  age'[r] + wait'[r] >= Waited(attempts[r])
  <2>1. /\ age[r] \in Nat /\ wait[r] \in Nat /\ age[r] + wait[r] >= Waited(attempts[r])
        /\ status[r] # "pending" => wait[r] = 0
    BY <1>3 DEF AgeInv
  <2>2. Waited(attempts[r]) \in Int
    BY WaitedMore
  <2>3. age'[r] + wait'[r] >= age[r] + wait[r] /\ age'[r] + wait'[r] \in Nat
    BY <1>1, <2>1 DEF Grow
  <2> QED
    BY <2>1, <2>2, <2>3
<1> QED
  BY <1>1, <1>2, <1>3 DEF AgeInv, Waited

LEMMA NextAge ==
  ASSUME IInv, AgeInv, [BackoffNext]_<<vars, age>>
  PROVE  AgeInv'
<1>1. CASE Tick /\ age' = Grow
  BY <1>1, TickAge
<1>2. CASE /\ \/ Enqueue
              \/ \E p \in Processes : Start(p) \/ Round(p) \/ Crash(p)
              \/ \E t \in Threads : Step(t)
              \/ UNCHANGED vars
           /\ UNCHANGED age
  <2>1. \/ UNCHANGED outbox /\ \A t \in Threads : \A r \in locks'[t] : r \in locks[t] \/ r \in Due
        \/ /\ \A t \in Threads : locks'[t] \subseteq locks[t]
           /\ \/ \E j : Insert(j)
              \/ \E t \in Threads : ClaimUpdate(locks[t])
              \/ \E t \in Threads : pc[t] = "ack" /\ AckUpdate(cur[t])
              \/ \E t \in Threads : /\ pc[t] = "nack"
                                    /\ NackUpdate(cur[t], seen[t][cur[t]] + 1)
    BY <1>2, Writers
  <2> QED
    BY <1>2, <2>1, SameOutboxAge, InsertAge, ClaimAge, AckAge, NackAge
<1> QED
  BY <1>1, <1>2 DEF BackoffNext

\* With their ages, the rows behave as without
LEMMA BackoffIsSpec == BackoffSpec => Spec
<1>1. BackoffInit => Init
  BY DEF BackoffInit
<1>2. [BackoffNext]_<<vars, age>> => [Next]_vars
  BY DEF BackoffNext, Next
<1> QED
  BY <1>1, <1>2, PTL DEF BackoffSpec, Spec

\* A row is dead-lettered only after the backoff of all its attempts, whatever
\* the number of attempts and however far the clocks are apart.
THEOREM DeathIsNotEarly == BackoffSpec => []NoEarlyDeath
<1>1. IInv /\ AgeInv => NoEarlyDeath
  <2> SUFFICES ASSUME IInv, AgeInv, NEW r \in Row, status[r] = "dlq"
               PROVE  age[r] >= TwoTo[MAX_ATTEMPTS] - 2 + (MAX_ATTEMPTS - 1) * Min(Skews)
    BY DEF NoEarlyDeath
  <2>1. attempts[r] \in Nat /\ tries[r] = attempts[r] + 1 /\ tries[r] = MAX_ATTEMPTS
    BY DEF IInv, TypeOK, OutboxTypeOK, RowInv
  <2>2. attempts[r] + 1 = MAX_ATTEMPTS /\ attempts[r] = MAX_ATTEMPTS - 1
    BY <2>1
  <2>3. wait[r] = 0 /\ age[r] \in Nat /\ age[r] + wait[r] >= Waited(attempts[r])
    BY DEF AgeInv
  <2>4. Waited(attempts[r]) = TwoTo[MAX_ATTEMPTS] - 2 + (MAX_ATTEMPTS - 1) * Min(Skews)
    BY <2>2 DEF Waited
  <2>5. age[r] >= Waited(attempts[r])
    BY <2>3
  <2> QED
    BY <2>4, <2>5
<1> QED
  BY <1>1, InitAge, NextAge, BackoffIsSpec, Invariance, PTL DEF BackoffSpec
=============================================================================
