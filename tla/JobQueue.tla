------------------------------ MODULE JobQueue ------------------------------
(***************************************************************************)
(* What the outbox promises to whoever enqueues: an at-least-once job      *)
(* queue with a bounded number of attempts.  A job waits, is leased, is    *)
(* tried, and after a try is finished, waits again, or is dead after       *)
(* MaxTries tries; it is only finished if some try worked.  A lease may    *)
(* never end: nothing here promises that a lost lease is taken back.       *)
(***************************************************************************)
EXTENDS Naturals

CONSTANTS
  Jobs,
  MaxTries  \* tries after which a job is dead

VARIABLES
  state,   \* state[j]: where job j is
  tries,   \* tries[j]: how often it was tried
  worked   \* the jobs some try of which worked

queue == <<state, tries, worked>>

States == {"absent", "waiting", "leased", "tried", "finished", "dead"}

TypeOK ==
  /\ state \in [Jobs -> States]
  /\ tries \in [Jobs -> Nat]
  /\ worked \subseteq Jobs

Init ==
  /\ state = [j \in Jobs |-> "absent"]
  /\ tries = [j \in Jobs |-> 0]
  /\ worked = {}

Move(S, s) == [j \in Jobs |-> IF j \in S THEN s ELSE state[j]]

Submit(j) ==
  /\ state[j] = "absent"
  /\ state' = Move({j}, "waiting")
  /\ UNCHANGED <<tries, worked>>

Lease(S) ==
  /\ \A j \in S : state[j] = "waiting"
  /\ state' = Move(S, "leased")
  /\ UNCHANGED <<tries, worked>>

\* A try that fails, or works
Try(j) ==
  /\ state[j] = "leased"
  /\ state' = Move({j}, "tried")
  /\ tries' = [tries EXCEPT ![j] = @ + 1]
  /\ worked' \in {worked, worked \cup {j}}

\* A try that works by submitting a job that replaces j
Replace(j, k) ==
  /\ state[j] = "leased"
  /\ state[k] = "absent"
  /\ state' = [Move({j}, "tried") EXCEPT ![k] = "waiting"]
  /\ tries' = [tries EXCEPT ![j] = @ + 1]
  /\ worked' = worked \cup {j}

Finish(S) ==
  /\ \A j \in S : state[j] = "tried" /\ j \in worked
  /\ state' = Move(S, "finished")
  /\ UNCHANGED <<tries, worked>>

Retry(j) ==
  /\ state[j] = "tried"
  /\ tries[j] < MaxTries
  /\ state' = Move({j}, "waiting")
  /\ UNCHANGED <<tries, worked>>

Bury(j) ==
  /\ state[j] = "tried"
  /\ tries[j] = MaxTries
  /\ state' = Move({j}, "dead")
  /\ UNCHANGED <<tries, worked>>

Next ==
  \/ \E S \in SUBSET Jobs : Lease(S) \/ Finish(S)
  \/ \E j \in Jobs :
       \/ Submit(j)
       \/ Try(j)
       \/ \E k \in Jobs : Replace(j, k)
       \/ Retry(j)
       \/ Bury(j)

Spec == Init /\ [][Next]_queue
=============================================================================
