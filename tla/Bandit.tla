------------------------------- MODULE Bandit -------------------------------
(***************************************************************************)
(* RecommendPolicy and ThompsonBandit (src/recommend/bandit.py, policy.py, *)
(* arms.py, reward_aggregator.py), kept in the memory of one process.      *)
(* Feedback may come late, more than once, for any arm and context.        *)
(***************************************************************************)
EXTENDS Integers, FiniteSetsExt

CONSTANTS
  Arms,       \* DEFAULT_ARMS
  Baseline,   \* the arm the guard shows
  Contexts,   \* context keys
  MaxPicks,   \* bound: calls of select_weights
  MaxRewards  \* bound: calls of record_reward

ArmKeys == Arms \X Contexts

VARIABLES
  arm,    \* arm[k]: ArmState; an entry that is not there yet is the initial one
  picks,  \* history: picks[k]: times the bandit, not the guard, chose k
  shown,  \* history: select_weights calls
  given   \* history: given[k][r]: times reward r was recorded for k

banditVars == <<arm, picks, shown, given>>

Actions == {"click", "dwell", "like", "skip", "dislike"}
REWARD_MAP(action) ==
  CASE action = "click" -> 1 [] action = "dwell" -> 2 [] action = "like" -> 3
    [] action = "skip" -> -1 [] action = "dislike" -> -2 [] OTHER -> 0

reward_from_action(action, long) ==
  IF action = "dwell" /\ ~long THEN 0 ELSE REWARD_MAP(action)

Rewards == -2..3

ArmState == [alpha |-> 1, beta |-> 1, n_pulls |-> 0, n_rewards |-> 0]

BanditInit ==
  /\ arm = [k \in ArmKeys |-> ArmState]
  /\ picks = [k \in ArmKeys |-> 0]
  /\ shown = 0
  /\ given = [k \in ArmKeys |-> [r \in Rewards |-> 0]]

-----------------------------------------------------------------------------
\* betavariate may put any arm first; it raises unless alpha, beta > 0
sample_arm(c) ==
  /\ \A a \in Arms : arm[<<a, c>>].alpha > 0 /\ arm[<<a, c>>].beta > 0
  /\ \E a \in Arms :
       /\ arm' = [arm EXCEPT ![<<a, c>>].n_pulls = @ + 1]
       /\ picks' = [picks EXCEPT ![<<a, c>>] = @ + 1]

\* The guard shows the baseline without the bandit's knowledge
select_weights(c) ==
  /\ shown < MaxPicks
  /\ shown' = shown + 1
  /\ UNCHANGED <<arm, picks>> \/ sample_arm(c)
  /\ UNCHANGED given

\* Mutant: abs is missing
UpdatedSigned(st, reward) ==
  IF reward > 0
  THEN [st EXCEPT !.n_pulls = @ + 1, !.alpha = @ + reward, !.n_rewards = @ + 1]
  ELSE [st EXCEPT !.n_pulls = @ + 1, !.beta = @ + reward]

Updated(st, reward) ==
  IF reward > 0
  THEN [st EXCEPT !.n_pulls = @ + 1, !.alpha = @ + reward, !.n_rewards = @ + 1]
  ELSE [st EXCEPT !.n_pulls = @ + 1, !.beta = @ - reward]

Count(k) ==
  given[k][-2] + given[k][-1] + given[k][0] + given[k][1] + given[k][2] + given[k][3]

record_reward(a, c, reward) ==
  /\ MapThenSumSet(Count, ArmKeys) < MaxRewards
  /\ arm' = [arm EXCEPT ![<<a, c>>] = Updated(@, reward)]
  /\ given' = [given EXCEPT ![<<a, c>>][reward] = @ + 1]
  /\ UNCHANGED <<picks, shown>>

BanditNext ==
  \/ \E c \in Contexts : select_weights(c)
  \/ \E a \in Arms, c \in Contexts, act \in Actions, long \in BOOLEAN :
       record_reward(a, c, reward_from_action(act, long))

BanditSpec == BanditInit /\ [][BanditNext]_banditVars

-----------------------------------------------------------------------------
\* The state of an arm in a context is what was recorded for it there, in any
\* order and whatever was shown meanwhile; every pull the bandit chose and every
\* reward count as a pull, so an answered choice counts twice, the guard's never
\* by itself; and sampling is always defined (sample_arm, update).
PosteriorIsFeedback ==
  \A k \in ArmKeys :
    /\ arm[k].alpha = 1 + given[k][1] + 2 * given[k][2] + 3 * given[k][3]
    /\ arm[k].beta = 1 + given[k][-1] + 2 * given[k][-2]
    /\ arm[k].n_rewards = given[k][1] + given[k][2] + given[k][3]
    /\ arm[k].n_pulls = picks[k] + Count(k)
=============================================================================
