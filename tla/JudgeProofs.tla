----------------------------- MODULE JudgeProofs -----------------------------
(***************************************************************************)
(* The daily judge for any runners, golden set and size of the sample:     *)
(* what a run returns is what it stored, and a judge that fails is         *)
(* alarmed.                                                                *)
(***************************************************************************)
EXTENDS Judge, FiniteSetTheorems, TLAPS

Result == [id : Nat, sample : Samples, verdict : Verdict, cos : {0, 100}, failed : BOOLEAN]
Stored == [runner : Runners, sample : Samples, cos : {0, 100}, failed : BOOLEAN]
Run == [phase : {"idle", "running", "done"}, batch : SUBSET Samples,
        todo : SUBSET Samples, results : Seq(Result)]

JudgeTypeOK ==
  /\ scores \in Seq(Stored)
  /\ daily \in [Runners -> Run]
  /\ alarm \in [Runners -> SUBSET {"failure_rate", "mean_cos_sim", "kl_divergence"}]

\* The samples of a run: one result for each that is not left to do
Sampled(run) ==
  /\ run.todo \subseteq run.batch
  /\ {run.results[i].sample : i \in DOMAIN run.results} = run.batch \ run.todo
  /\ Len(run.results) + Cardinality(run.todo) = Cardinality(run.batch)
  /\ run.phase # "running" => run.todo = {}

\* The result is a row of r in the table
RecordedAs(res, r, rows) ==
  /\ res.id \in 1..Len(rows)
  /\ LET row == rows[res.id] IN
       /\ row.runner = r /\ row.sample = res.sample /\ row.cos = res.cos
       /\ row.failed = (res.verdict = "raises")
  /\ res.failed = (res.verdict = "raises")

RunInv(r) ==
  /\ Sampled(daily[r])
  /\ \A i \in DOMAIN daily[r].results : RecordedAs(daily[r].results[i], r, scores)
  /\ daily[r].phase = "done" =>
       /\ daily[r].results = <<>> => "mean_cos_sim" \in alarm[r]
       /\ 4 * Failures(daily[r].results) > Len(daily[r].results) => "failure_rate" \in alarm[r]

JudgeInv == JudgeTypeOK /\ \A r \in Runners : RunInv(r)

-----------------------------------------------------------------------------
LEMMA RunIsRecord ==
  ASSUME NEW run \in Run
  PROVE  /\ run.phase \in {"idle", "running", "done"} /\ run.batch \subseteq Samples
         /\ run.todo \subseteq Samples /\ run.results \in Seq(Result)
BY DEF Run

LEMMA NoRunSampled == NoRun \in Run /\ Sampled(NoRun) /\ DOMAIN NoRun.results = {}
BY FS_EmptySet DEF NoRun, Run, Sampled

\* A run begins with its batch to do.
LEMMA BeginSampled ==
  ASSUME NEW b \in SUBSET Samples
  PROVE  LET run == [phase |-> "running", batch |-> b, todo |-> b, results |-> <<>>]
         IN run \in Run /\ Sampled(run) /\ DOMAIN run.results = {}
<1>1. IsFiniteSet(b)
  BY JudgeAssumption, FS_Subset
<1>2. Cardinality(b) \in Nat
  BY <1>1, FS_CardinalityType
<1> QED
  BY <1>2 DEF Run, Sampled

LEMMA VerdictCos ==
  ASSUME NEW s \in Samples, NEW v \in Verdict
  PROVE  keyword_cos_sim(s, v) \in {0, 100} /\ Failed(v) \in BOOLEAN
BY DEF keyword_cos_sim, Failed

\* One more sample is done.
LEMMA ResultSampled ==
  ASSUME NEW run \in Run, Sampled(run), NEW s \in run.todo, NEW res \in Result,
         res.sample = s, run.phase = "running",
         NEW next \in Run, next.phase = "running", next.batch = run.batch,
         next.todo = run.todo \ {s}, next.results = Append(run.results, res)
  PROVE  Sampled(next)
<1>1. run.results \in Seq(Result) /\ run.todo \subseteq Samples /\ run.batch \subseteq Samples
  BY RunIsRecord
<1>2. IsFiniteSet(run.todo) /\ IsFiniteSet(run.batch)
  BY <1>1, JudgeAssumption, FS_Subset
<1>3. Cardinality(run.todo) \in Nat /\ Cardinality(run.todo \ {s}) = Cardinality(run.todo) - 1
  BY <1>2, FS_CardinalityType, FS_RemoveElement
<1>4. /\ Len(next.results) = Len(run.results) + 1 /\ Len(run.results) \in Nat
      /\ DOMAIN run.results = 1..Len(run.results)
      /\ DOMAIN next.results = 1..(Len(run.results) + 1)
      /\ \A i \in 1..Len(run.results) : next.results[i] = run.results[i]
      /\ next.results[Len(run.results) + 1] = res
  BY <1>1
<1>5. {next.results[i].sample : i \in DOMAIN next.results} =
        {run.results[i].sample : i \in DOMAIN run.results} \cup {s}
  <2>1. \A i \in 1..Len(run.results) : next.results[i].sample = run.results[i].sample
    BY <1>4
  <2>2. next.results[Len(run.results) + 1].sample = s
    BY <1>4
  <2>3. 1..(Len(run.results) + 1) = 1..Len(run.results) \cup {Len(run.results) + 1}
    BY <1>4
  <2> QED
    BY <1>4, <2>1, <2>2, <2>3
<1>6. Len(next.results) + Cardinality(next.todo) = Cardinality(next.batch)
  BY <1>3, <1>4 DEF Sampled
<1> QED
  BY <1>5, <1>6 DEF Sampled

\* The end of a run
LEMMA EndSampled ==
  ASSUME NEW run, NEW next, Sampled(run), run.todo = {}, next.batch = run.batch,
         next.todo = {}, next.results = run.results
  PROVE  Sampled(next)
<1>1. {next.results[i].sample : i \in DOMAIN next.results} =
        {run.results[i].sample : i \in DOMAIN run.results}
  OBVIOUS
<1> QED
  BY <1>1 DEF Sampled

\* A recorded result stays recorded: rows are only added.
LEMMA RowsStay ==
  ASSUME NEW rows \in Seq(Stored), NEW row \in Stored, NEW res, NEW r, RecordedAs(res, r, rows)
  PROVE  RecordedAs(res, r, Append(rows, row))
BY DEF RecordedAs

-----------------------------------------------------------------------------
LEMMA JudgeInitInv == JudgeInit => JudgeInv
<1> SUFFICES ASSUME JudgeInit PROVE JudgeInv
  OBVIOUS
<1>1. JudgeTypeOK
  BY NoRunSampled DEF JudgeInit, JudgeTypeOK
<1>2. ASSUME NEW r \in Runners PROVE RunInv(r)
  <2>1. daily[r] = NoRun
    BY DEF JudgeInit
  <2> QED
    BY <2>1, NoRunSampled DEF RunInv, NoRun
<1> QED
  BY <1>1, <1>2 DEF JudgeInv

LEMMA RunDailyInv ==
  ASSUME JudgeInv, NEW r \in Runners, NEW pool \in {{}, Samples}, run_daily(r, pool)
  PROVE  JudgeInv'
<1>1. PICK b \in SUBSET pool :
        daily' = [daily EXCEPT ![r] = [phase |-> "running", batch |-> b, todo |-> b,
                                       results |-> <<>>]]
  BY DEF run_daily
<1>2. scores' = scores /\ alarm' = [alarm EXCEPT ![r] = {}]
  BY DEF run_daily
<1> DEFINE run == [phase |-> "running", batch |-> b, todo |-> b, results |-> <<>>]
<1>3. b \in SUBSET Samples
  OBVIOUS
<1>4. run \in Run /\ Sampled(run) /\ DOMAIN run.results = {} /\ run.phase = "running"
  BY <1>3, BeginSampled
<1> HIDE DEF run
<1>5. /\ daily' = [daily EXCEPT ![r] = run] /\ daily'[r] = run
      /\ \A u \in Runners \ {r} : daily'[u] = daily[u] /\ alarm'[u] = alarm[u]
  BY <1>1, <1>2 DEF JudgeInv, JudgeTypeOK, run
<1>6. JudgeTypeOK'
  BY <1>2, <1>4, <1>5 DEF JudgeInv, JudgeTypeOK
<1>7. ASSUME NEW u \in Runners PROVE RunInv(u)'
  <2>1. CASE u = r
    BY <1>4, <1>5, <2>1 DEF RunInv
  <2>2. CASE u # r
    BY <1>2, <1>5, <2>2 DEF JudgeInv, RunInv
  <2> QED
    BY <2>1, <2>2
<1> QED
  BY <1>6, <1>7 DEF JudgeInv

LEMMA JudgeSampleInv ==
  ASSUME JudgeInv, NEW r \in Runners, NEW s \in Samples, NEW v \in Verdict,
         JudgeSample(r, s, v)
  PROVE  JudgeInv'
<1> DEFINE res == [id |-> Len(scores) + 1, sample |-> s, verdict |-> v,
                   cos |-> keyword_cos_sim(s, v), failed |-> Failed(v)]
           row == Row(r, s, v)
           next == daily'[r]
<1>1. /\ s \in daily[r].todo /\ scores' = Append(scores, row) /\ alarm' = alarm
      /\ daily' = [daily EXCEPT ![r].todo = @ \ {s}, ![r].results = Append(@, res)]
  BY DEF JudgeSample
<1>2. daily[r] \in Run /\ scores \in Seq(Stored) /\ Sampled(daily[r])
  BY DEF JudgeInv, JudgeTypeOK, RunInv
<1>3. daily[r].phase = "running"
  BY <1>1, <1>2, RunIsRecord DEF Sampled
<1>4. res \in Result /\ row \in Stored
  BY <1>2, VerdictCos DEF Result, Stored, Row
<1>5. RecordedAs(res, r, Append(scores, row))
  BY <1>2, <1>4 DEF RecordedAs, Row, Failed
<1>6. res.sample = s
  OBVIOUS
<1> HIDE DEF res, row
<1>7. /\ next.phase = "running" /\ next.batch = daily[r].batch
      /\ next.todo = daily[r].todo \ {s} /\ next.results = Append(daily[r].results, res)
      /\ next \in Run
  <2>1. next = [daily[r] EXCEPT !.todo = @ \ {s}, !.results = Append(@, res)]
    BY <1>1 DEF JudgeInv, JudgeTypeOK
  <2>2. Append(daily[r].results, res) \in Seq(Result)
    BY <1>2, <1>4, RunIsRecord
  <2> HIDE DEF next
  <2> QED
    BY <1>2, <1>3, <2>1, <2>2 DEF Run
<1>8. \A u \in Runners \ {r} : daily'[u] = daily[u]
  BY <1>1 DEF JudgeInv, JudgeTypeOK
<1> HIDE DEF next
<1>9. Sampled(next)
  BY <1>1, <1>2, <1>3, <1>4, <1>6, <1>7, ResultSampled
<1>10. JudgeTypeOK'
  <2>1. scores' \in Seq(Stored)
    BY <1>1, <1>2, <1>4
  <2>2. daily' \in [Runners -> Run]
    BY <1>1, <1>7, <1>8 DEF JudgeInv, JudgeTypeOK, next
  <2> QED
    BY <1>1, <2>1, <2>2 DEF JudgeInv, JudgeTypeOK
<1>11. ASSUME NEW u \in Runners, NEW x, RecordedAs(x, u, scores)
       PROVE  RecordedAs(x, u, scores')
  <2>1. RecordedAs(x, u, Append(scores, row))
    BY <1>2, <1>4, <1>11, RowsStay, Zenon
  <2> QED
    BY <1>1, <2>1, Zenon
<1>12. ASSUME NEW u \in Runners PROVE RunInv(u)'
  <2>1. CASE u = r
    <3>1. \A i \in DOMAIN next.results : RecordedAs(next.results[i], r, scores')
      <4>1. daily[r].results \in Seq(Result)
        BY <1>2, RunIsRecord
      <4>2. ASSUME NEW i \in DOMAIN next.results
            PROVE  \/ next.results[i] = res
                   \/ i \in DOMAIN daily[r].results /\ next.results[i] = daily[r].results[i]
        BY <1>4, <1>7, <4>1
      <4>3. \A i \in DOMAIN daily[r].results : RecordedAs(daily[r].results[i], r, scores')
        BY <1>11 DEF JudgeInv, RunInv
      <4> QED
        BY <1>1, <1>5, <4>2, <4>3
    <3> QED
      BY <1>7, <1>9, <2>1, <3>1 DEF RunInv, next
  <2>2. CASE u # r
    BY <1>1, <1>8, <1>11, <2>2 DEF JudgeInv, RunInv
  <2> QED
    BY <2>1, <2>2
<1> QED
  BY <1>10, <1>12 DEF JudgeInv

LEMMA RunAbortsInv ==
  ASSUME JudgeInv, NEW r \in Runners, RunAborts(r)
  PROVE  JudgeInv'
<1>1. /\ UNCHANGED <<scores, alarm>> /\ daily' = [daily EXCEPT ![r] = NoRun] /\ daily'[r] = NoRun
      /\ \A u \in Runners \ {r} : daily'[u] = daily[u]
  BY DEF RunAborts, JudgeInv, JudgeTypeOK
<1>2. JudgeTypeOK'
  BY <1>1, NoRunSampled DEF JudgeInv, JudgeTypeOK
<1>3. ASSUME NEW u \in Runners PROVE RunInv(u)'
  <2>1. CASE u = r
    <3>1. NoRun.phase = "idle"
      BY DEF NoRun
    <3> QED
      BY <1>1, <2>1, <3>1, NoRunSampled DEF RunInv
  <2>2. CASE u # r
    BY <1>1, <2>2 DEF JudgeInv, RunInv
  <2> QED
    BY <2>1, <2>2
<1> QED
  BY <1>2, <1>3 DEF JudgeInv

LEMMA AlarmInv ==
  ASSUME JudgeInv, NEW r \in Runners, handle_drift_alarm(r)
  PROVE  JudgeInv'
<1>1. PICK kl \in {{}, {"kl_divergence"}} :
        alarm' = [alarm EXCEPT ![r] = kl \cup Breaches(daily[r].results)]
  BY DEF handle_drift_alarm
<1>2. /\ daily[r].todo = {} /\ daily' = [daily EXCEPT ![r].phase = "done"] /\ scores' = scores
  BY DEF handle_drift_alarm
<1>3. daily[r] \in Run /\ Sampled(daily[r])
  BY DEF JudgeInv, JudgeTypeOK, RunInv
<1>4. /\ daily'[r].phase = "done" /\ daily'[r].batch = daily[r].batch /\ daily'[r].todo = {}
      /\ daily'[r].results = daily[r].results /\ daily'[r] \in Run
      /\ \A u \in Runners \ {r} : daily'[u] = daily[u] /\ alarm'[u] = alarm[u]
  BY <1>1, <1>2, <1>3 DEF Run, JudgeInv, JudgeTypeOK
<1>5. Breaches(daily[r].results) \subseteq {"failure_rate", "mean_cos_sim"}
  BY DEF Breaches
<1>6. JudgeTypeOK'
  <2>1. daily' \in [Runners -> Run]
    BY <1>2, <1>4 DEF JudgeInv, JudgeTypeOK
  <2> QED
    BY <1>1, <1>2, <1>5, <2>1 DEF JudgeInv, JudgeTypeOK
<1>7. /\ daily[r].results = <<>> => "mean_cos_sim" \in alarm'[r]
      /\ 4 * Failures(daily[r].results) > Len(daily[r].results) => "failure_rate" \in alarm'[r]
  BY <1>1 DEF Breaches, JudgeInv, JudgeTypeOK
<1>8. ASSUME NEW u \in Runners PROVE RunInv(u)'
  <2>1. CASE u = r
    <3>1. Sampled(daily'[r])
      BY <1>2, <1>3, <1>4, EndSampled
    <3>2. Failures(daily'[r].results) = Failures(daily[r].results)
      BY <1>4, Zenon
    <3> QED
      BY <1>2, <1>4, <1>7, <2>1, <3>1, <3>2 DEF JudgeInv, RunInv
  <2>2. CASE u # r
    BY <1>2, <1>4, <2>2 DEF JudgeInv, RunInv
  <2> QED
    BY <2>1, <2>2
<1> QED
  BY <1>6, <1>8 DEF JudgeInv

LEMMA JudgeNextInv == JudgeInv /\ [JudgeNext]_judgeVars => JudgeInv'
<1> SUFFICES ASSUME JudgeInv, [JudgeNext]_judgeVars PROVE JudgeInv'
  OBVIOUS
<1>1. CASE JudgeNext
  BY <1>1, RunDailyInv, JudgeSampleInv, RunAbortsInv, AlarmInv DEF JudgeNext
<1>2. CASE UNCHANGED judgeVars
  BY <1>2 DEF judgeVars, JudgeInv, JudgeTypeOK, RunInv
<1> QED
  BY <1>1, <1>2

-----------------------------------------------------------------------------
\* The inductive invariant of the judge: overlapping, aborted and repeated runs
\* keep their results and rows apart.
THEOREM JudgeInvariance == JudgeSpec => []JudgeInv
BY JudgeInitInv, JudgeNextInv, PTL DEF JudgeSpec

\* A run that ended has one result for each sample of its batch, and each result
\* is a row of its own in eval_score.
THEOREM RunsAreRecorded == JudgeSpec => []RunIsRecorded
<1>1. ASSUME JudgeInv, NEW r \in Runners
      PROVE  LET results == daily[r].results IN
             /\ daily[r].phase = "done" =>
                  /\ {results[i].sample : i \in DOMAIN results} = daily[r].batch
                  /\ Len(results) = Cardinality(daily[r].batch)
             /\ \A i \in DOMAIN results :
                  /\ results[i].id <= Len(scores)
                  /\ LET row == scores[results[i].id] IN
                       /\ row.runner = r /\ row.sample = results[i].sample
                       /\ row.cos = results[i].cos
                       /\ row.failed = (results[i].verdict = "raises")
  <2>1. daily[r].results \in Seq(Result)
    BY <1>1, RunIsRecord DEF JudgeInv, JudgeTypeOK
  <2>2. daily[r].phase = "done" =>
          /\ {daily[r].results[i].sample : i \in DOMAIN daily[r].results} = daily[r].batch
          /\ Len(daily[r].results) = Cardinality(daily[r].batch)
    <3> SUFFICES ASSUME daily[r].phase = "done"
                 PROVE  /\ {daily[r].results[i].sample : i \in DOMAIN daily[r].results} =
                             daily[r].batch
                        /\ Len(daily[r].results) = Cardinality(daily[r].batch)
      OBVIOUS
    <3>1. Sampled(daily[r]) /\ daily[r].todo = {}
      BY <1>1 DEF JudgeInv, RunInv, Sampled
    <3>2. {daily[r].results[i].sample : i \in DOMAIN daily[r].results} =
             daily[r].batch \ daily[r].todo
      BY <3>1 DEF Sampled
    <3>3. Len(daily[r].results) + Cardinality(daily[r].todo) = Cardinality(daily[r].batch)
      BY <3>1 DEF Sampled
    <3>4. Len(daily[r].results) \in Nat /\ Cardinality(daily[r].todo) = 0
      BY <2>1, <3>1, FS_EmptySet
    <3> QED
      BY <3>1, <3>2, <3>3, <3>4
  <2>3. \A i \in DOMAIN daily[r].results : RecordedAs(daily[r].results[i], r, scores)
    BY <1>1 DEF JudgeInv, RunInv
  <2> QED
    <3>1. \A i \in DOMAIN daily[r].results : daily[r].results[i].id <= Len(scores)
      BY <2>3 DEF RecordedAs
    <3> QED
      BY <2>2, <2>3, <3>1 DEF RecordedAs
<1>2. JudgeInv => RunIsRecorded
  BY <1>1 DEF RunIsRecorded
<1> QED
  BY <1>2, JudgeInvariance, PTL

\* A judge that mostly fails, or judges nothing, is alarmed, whatever cosines its
\* failed calls are stored with.
THEOREM DeadJudgesAlarm == JudgeSpec => []DeadJudgeAlarms
<1>1. ASSUME JudgeInv, NEW r \in Runners, daily[r].phase = "done",
             \/ daily[r].results = <<>>
             \/ 4 * Cardinality({i \in DOMAIN daily[r].results :
                                   daily[r].results[i].verdict = "raises"})
                  > Len(daily[r].results)
      PROVE  alarm[r] # {}
  <2>1. {i \in DOMAIN daily[r].results : daily[r].results[i].failed} =
          {i \in DOMAIN daily[r].results : daily[r].results[i].verdict = "raises"}
    BY <1>1 DEF JudgeInv, RunInv, RecordedAs
  <2>2. Failures(daily[r].results) =
          Cardinality({i \in DOMAIN daily[r].results : daily[r].results[i].verdict = "raises"})
    BY <2>1, Zenon DEF Failures
  <2>3. daily[r].results = <<>> \/ 4 * Failures(daily[r].results) > Len(daily[r].results)
    BY <1>1, <2>2
  <2> QED
    BY <1>1, <2>3 DEF JudgeInv, RunInv
<1>2. JudgeInv => DeadJudgeAlarms
  BY <1>1 DEF DeadJudgeAlarms
<1> QED
  BY <1>2, JudgeInvariance, PTL
=============================================================================
