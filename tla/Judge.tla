-------------------------------- MODULE Judge --------------------------------
(***************************************************************************)
(* The daily LLM judge (src/eval/judge_runner.py), the rows it stores      *)
(* (src/persistence/eval_score_store.py) and the drift alarm computed from *)
(* its results (src/eval/drift_detector.py, alarm.py).  Runs of the same   *)
(* day may overlap, and one that fails is started again.                   *)
(***************************************************************************)
EXTENDS Integers, Sequences, FiniteSets, SequencesExt

CONSTANTS
  Runners,      \* processes that call run_daily
  Samples,      \* the golden set
  WithKeywords, \* the samples with expected keywords or themes
  DailySize,    \* daily_sample_size
  MaxRows       \* bound: rows of eval_score

ASSUME JudgeAssumption ==
  /\ IsFiniteSet(Samples)
  /\ WithKeywords \subseteq Samples
  /\ DailySize \in Nat

VARIABLES
  scores,  \* rows of eval_score, the row with id i is scores[i]
  daily,   \* daily[r]: r's run_daily
  alarm    \* alarm[r]: what handle_drift_alarm returned for r's last run

judgeVars == <<scores, daily, alarm>>

NoRun == [phase |-> "idle", batch |-> {}, todo |-> {}, results |-> <<>>]

JudgeInit ==
  /\ scores = <<>>
  /\ daily = [r \in Runners |-> NoRun]
  /\ alarm = [r \in Runners |-> {}]

-----------------------------------------------------------------------------
\* sample_daily: all of a small pool, any DailySize of a larger one
run_daily(r, pool) ==
  LET size == IF DailySize < Cardinality(pool) THEN DailySize ELSE Cardinality(pool)
  IN /\ daily[r].phase # "running"
     /\ \E batch \in {b \in SUBSET pool : Cardinality(b) = size} :
          daily' = [daily EXCEPT ![r] = [phase |-> "running", batch |-> batch,
                                         todo |-> batch, results |-> <<>>]]
     /\ alarm' = [alarm EXCEPT ![r] = {}]
     /\ UNCHANGED scores

\* What judge_one may come to: the judge's keywords are those expected, others,
\* or none, or it raises
Verdict == {"same", "others", "none", "raises"}

\* keyword_cos_sim in percent; a judge that raised has predicted no keywords
keyword_cos_sim(s, v) ==
  IF s \notin WithKeywords THEN IF v \in {"none", "raises"} THEN 100 ELSE 0
  ELSE IF v = "same" THEN 100 ELSE 0

\* Mutant: a failed judge call is taken for a valid score of zero
FailedNever(v) == FALSE

Failed(v) == v = "raises"

\* Mutant: insert_score leaves failed to the column's default
RowFailedDefault(r, s, v) ==
  [runner |-> r, sample |-> s, cos |-> keyword_cos_sim(s, v), failed |-> FALSE]

Row(r, s, v) ==
  [runner |-> r, sample |-> s, cos |-> keyword_cos_sim(s, v), failed |-> Failed(v)]

\* insert_score commits the row; the result carries its id
JudgeSample(r, s, v) ==
  /\ s \in daily[r].todo /\ Len(scores) < MaxRows
  /\ scores' = Append(scores, Row(r, s, v))
  /\ daily' = [daily EXCEPT
       ![r].todo = @ \ {s},
       ![r].results = Append(@, [id |-> Len(scores) + 1, sample |-> s, verdict |-> v,
                                 cos |-> keyword_cos_sim(s, v), failed |-> Failed(v)])]
  /\ UNCHANGED alarm

\* insert_score raises, or the judge's JSON is no object and .get raises: the
\* run ends without results, and the rows it made stay
RunAborts(r) ==
  /\ daily[r].todo # {}
  /\ daily' = [daily EXCEPT ![r] = NoRun]
  /\ UNCHANGED <<scores, alarm>>

-----------------------------------------------------------------------------
(* compute_drift_metrics and check_thresholds.                             *)

Failures(results) == Cardinality({i \in DOMAIN results : results[i].failed})
CosSum(results) == FoldLeft(LAMBDA sum, x : sum + x.cos, 0, results)

\* failure_rate > 0.25, mean_cos_sim < 0.70, both 0 without results
Breaches(results) ==
  (IF 4 * Failures(results) > Len(results) THEN {"failure_rate"} ELSE {})
  \cup (IF results = <<>> \/ CosSum(results) < 70 * Len(results)
        THEN {"mean_cos_sim"} ELSE {})

\* The divergence of the keywords from the baseline's, which the model does
\* not compute, may or may not be over its threshold
handle_drift_alarm(r) ==
  /\ daily[r].phase = "running" /\ daily[r].todo = {}
  /\ \E kl \in {{}, {"kl_divergence"}} :
       alarm' = [alarm EXCEPT ![r] = kl \cup Breaches(daily[r].results)]
  /\ daily' = [daily EXCEPT ![r].phase = "done"]
  /\ UNCHANGED scores

JudgeNext ==
  \E r \in Runners :
    \/ \E pool \in {{}, Samples} : run_daily(r, pool)
    \/ \E s \in Samples, v \in Verdict : JudgeSample(r, s, v)
    \/ RunAborts(r) \/ handle_drift_alarm(r)

JudgeSpec == JudgeInit /\ [][JudgeNext]_judgeVars

-----------------------------------------------------------------------------
\* The results of a run that ended are one row each of its batch, stored under
\* their ids with the same verdict, in spite of other runs and of the rows that
\* aborted runs left for the same samples (run_daily, insert_score).
RunIsRecorded ==
  \A r \in Runners :
    LET results == daily[r].results IN
    /\ daily[r].phase = "done" =>
         /\ {results[i].sample : i \in DOMAIN results} = daily[r].batch
         /\ Len(results) = Cardinality(daily[r].batch)
    /\ \A i \in DOMAIN results :
         /\ results[i].id <= Len(scores)
         /\ LET row == scores[results[i].id] IN
              /\ row.runner = r /\ row.sample = results[i].sample
              /\ row.cos = results[i].cos
              /\ row.failed = (results[i].verdict = "raises")

\* A judge that raised for more than a quarter of a run, or that judged nothing
\* at all, is alarmed whatever the keywords are: samples without expected
\* keywords count as a perfect match when it raises (run_daily, alarm.py).
DeadJudgeAlarms ==
  \A r \in Runners :
    LET results == daily[r].results
        raised == {i \in DOMAIN results : results[i].verdict = "raises"}
    IN daily[r].phase = "done" /\ (results = <<>> \/ 4 * Cardinality(raised) > Len(results))
         => alarm[r] # {}
=============================================================================
