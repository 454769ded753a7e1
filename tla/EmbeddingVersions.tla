------------------------- MODULE EmbeddingVersions --------------------------
(***************************************************************************)
(* The registry of plot embedding versions (:EmbeddingVersionMeta nodes),  *)
(* the dual writer that stores a movie's vector under the active and the   *)
(* shadow version, and the promotion of the shadow after an evaluation     *)
(* (src/embedding/version_registry.py, dual_writer.py,                     *)
(* shadow_evaluator.py, promoter.py).                                      *)
(*                                                                         *)
(* A Cypher statement is one transaction and one step.  write_targets runs *)
(* two of them and the write is a third, so that registrations and         *)
(* promotions come in between; so do they between an evaluation and the    *)
(* promotion that acts on it.                                              *)
(***************************************************************************)
EXTENDS Naturals, FiniteSets

CONSTANTS
  EmbVersions,    \* embedding versions operators know of
  NoEmb,          \* None
  Operators,      \* who registers, evaluates and promotes
  Writers,        \* dual writers
  Movies,
  Registrations   \* the pairs <<version, role>> operators register

Roles == {"active", "shadow", "retired"}

ASSUME EmbeddingAssumption ==
  /\ NoEmb \notin EmbVersions
  /\ IsFiniteSet(EmbVersions)
  /\ Registrations \subseteq EmbVersions \X Roles

VARIABLES
  role,     \* role[v]: the role of v's node, "none" before it is registered
  created,  \* created[v]: rank of the node's created_at, 0 before
  verdict,  \* verdict[o]: the shadow in the passing ShadowEvalResult o holds
  wpc,      \* wpc[w]: "idle", or the next statement of writer w
  movie,    \* movie[w]: the movie w writes
  targets,  \* targets[w]: the versions write_targets has found so far
  vec,      \* vec[m]: versions whose property holds m's latest vector
  \* history, read by properties only
  blind,    \* a version was promoted that the result was not about
  during,   \* during[w]: how the registry changed since w's write began
  raced,    \* raced[m]: how it changed during m's last write
  missing   \* missing[m]: live versions without m's latest vector that a
            \* registration made live since that write

registry == <<role, created>>
writers == <<wpc, movie, targets>>
evaluation == <<verdict, blind>>
embHistory == <<during, raced, missing>>
embVars == <<registry, writers, evaluation, embHistory, vec>>

EmbTypeOK ==
  /\ role \in [EmbVersions -> Roles \cup {"none"}]
  /\ created \in [EmbVersions -> 0..Cardinality(EmbVersions)]
  /\ verdict \in [Operators -> EmbVersions \cup {NoEmb}]
  /\ wpc \in [Writers -> {"idle", "shadow", "write"}]
  /\ movie \in [Writers -> Movies]
  /\ targets \in [Writers -> SUBSET EmbVersions]
  /\ vec \in [Movies -> SUBSET EmbVersions]

EmbInit ==
  /\ role = [v \in EmbVersions |-> "none"]
  /\ created = [v \in EmbVersions |-> 0]
  /\ verdict = [o \in Operators |-> NoEmb]
  /\ wpc = [w \in Writers |-> "idle"]
  /\ movie \in [Writers -> Movies]
  /\ targets = [w \in Writers |-> {}]
  /\ vec = [m \in Movies |-> {}]
  /\ blind = FALSE
  /\ during = [w \in Writers |-> {}]
  /\ missing = [m \in Movies |-> {}]
  /\ raced = [m \in Movies |-> {}]

-----------------------------------------------------------------------------
WithRole(r) == {v \in EmbVersions : role[v] = r}

\* MATCH ... {role: r} ... ORDER BY created_at DESC LIMIT 1
Fetch(r) ==
  IF WithRole(r) = {} THEN NoEmb
  ELSE CHOOSE v \in WithRole(r) : \A u \in WithRole(r) : created[u] <= created[v]

get_active_version == Fetch("active")
get_shadow_version == Fetch("shadow")

\* What production and the dual writer see
Live == {get_active_version, get_shadow_version} \ {NoEmb}

\* The registry changes under the writes that are under way
Disturb(how, added) ==
  /\ during' = [w \in Writers |-> IF wpc[w] = "idle" THEN {} ELSE during[w] \cup {how}]
  /\ missing' = [m \in Movies |-> Live' \cap (missing[m] \cup (added \ vec[m]))]
  /\ UNCHANGED raced

\* The write of w is over
Idle(w) ==
  /\ wpc' = [wpc EXCEPT ![w] = "idle"]
  /\ targets' = [targets EXCEPT ![w] = {}]
  /\ during' = [during EXCEPT ![w] = {}]

\* created_at = coalesce(created_at, datetime())
CreatedAt(v) ==
  IF created[v] # 0 THEN created
  ELSE [created EXCEPT ![v] = Cardinality({u \in EmbVersions : created[u] # 0}) + 1]

\* register_version: MERGE the node and SET its role, whatever it was
Register(v, r) ==
  /\ role' = [role EXCEPT ![v] = r]
  /\ created' = CreatedAt(v)
  /\ Disturb("registered", Live' \ Live)
  /\ UNCHANGED <<writers, evaluation, vec>>

\* should_promote: the recalls in the result are the retriever's, so that the
\* shadow may pass or not
Verdicts(v) == {v, NoEmb}

\* evaluate_shadow_vs_active on the two current versions
Evaluate(o) ==
  /\ get_active_version # NoEmb
  /\ get_shadow_version # NoEmb
  /\ \E v \in Verdicts(get_shadow_version) : verdict' = [verdict EXCEPT ![o] = v]
  /\ UNCHANGED <<registry, writers, blind, embHistory, vec>>

\* Mutant: the active is retired without a shadow to take its place
PromotedRolesRetireOnly ==
  [v \in EmbVersions |->
    CASE role[v] = "active" -> "retired"
      [] role[v] = "shadow" -> "active"
      [] OTHER -> role[v]]

\* MATCH every shadow, MATCH every active, SET both roles for each pair: no
\* pair, no change
PromotedRoles ==
  IF WithRole("shadow") = {} \/ WithRole("active") = {} THEN role
  ELSE [v \in EmbVersions |->
         CASE role[v] = "active" -> "retired"
           [] role[v] = "shadow" -> "active"
           [] OTHER -> role[v]]

\* promote_shadow_if_ready(result, registry) with a result that passes: what is
\* shadow now is promoted, the versions in the result are not looked at.  The
\* result is not used up: a promotion may be repeated.
Promote(o) ==
  /\ verdict[o] # NoEmb
  /\ role' = PromotedRoles
  /\ blind' = (blind \/ \E v \in WithRole("shadow") \ {verdict[o]} : role'[v] = "active")
  /\ UNCHANGED <<created, verdict, writers, vec>>
  /\ IF role' = role THEN UNCHANGED embHistory ELSE Disturb("promoted", {})

-----------------------------------------------------------------------------
\* Mutant: None is a target too
ReadActiveOrNone(w, m) ==
  /\ wpc[w] = "idle"
  /\ wpc' = [wpc EXCEPT ![w] = "shadow"]
  /\ movie' = [movie EXCEPT ![w] = m]
  /\ targets' = [targets EXCEPT ![w] = {get_active_version}]
  /\ UNCHANGED <<registry, evaluation, embHistory, vec>>

\* write_movie_plot_embedding calls write_targets: get_active_version
ReadActive(w, m) ==
  /\ wpc[w] = "idle"
  /\ wpc' = [wpc EXCEPT ![w] = "shadow"]
  /\ movie' = [movie EXCEPT ![w] = m]
  /\ targets' = [targets EXCEPT ![w] = {get_active_version} \ {NoEmb}]
  /\ UNCHANGED <<registry, evaluation, embHistory, vec>>

\* Mutant: the shadow is not written
ReadNoShadow(w) ==
  /\ wpc[w] = "shadow"
  /\ wpc' = [wpc EXCEPT ![w] = "write"]
  /\ UNCHANGED <<registry, evaluation, movie, targets, embHistory, vec>>

\* write_targets: get_shadow_version
ReadShadow(w) ==
  /\ wpc[w] = "shadow"
  /\ wpc' = [wpc EXCEPT ![w] = "write"]
  /\ targets' = [targets EXCEPT ![w] = @ \cup ({get_shadow_version} \ {NoEmb})]
  /\ UNCHANGED <<registry, evaluation, movie, embHistory, vec>>

\* The SET of every target's property; the other versions keep the vector they
\* had, which is not the movie's latest any more
Write(w) ==
  /\ wpc[w] = "write"
  /\ targets[w] # {}
  /\ vec' = [vec EXCEPT ![movie[w]] = targets[w]]
  /\ missing' = [missing EXCEPT ![movie[w]] = {}]
  /\ raced' = [raced EXCEPT ![movie[w]] = during[w]]
  /\ Idle(w)
  /\ UNCHANGED <<registry, evaluation, movie>>

\* RuntimeError: no version configured
WriteRaises(w) ==
  /\ wpc[w] = "write"
  /\ targets[w] = {}
  /\ Idle(w)
  /\ UNCHANGED <<registry, evaluation, movie, vec, missing, raced>>

EmbNext ==
  \/ \E reg \in Registrations : Register(reg[1], reg[2])
  \/ \E o \in Operators : Evaluate(o) \/ Promote(o)
  \/ \E w \in Writers :
       \/ \E m \in Movies : ReadActive(w, m)
       \/ ReadShadow(w)
       \/ Write(w)
       \/ WriteRaises(w)

EmbSpec == EmbInit /\ [][EmbNext]_embVars

-----------------------------------------------------------------------------
(* Properties *)

\* A version that is active or shadow has the latest vector of every movie,
\* unless a registration made it live after that vector was written (there is
\* no backfill), or the registry changed while it was being written: the
\* versions a promotion leaves live are those the dual writer has been writing
\* all along.
LiveVersionHasVector ==
  \A m \in Movies : raced[m] = {} => Live \subseteq vec[m] \cup missing[m]

\* The same, for the version production reads, when only promotions overlap the
\* write: docs/versioned_embedding.md says the dual writer writes the vector for
\* active + shadow.
DualWriteReachesActive ==
  \A m \in Movies :
    raced[m] \subseteq {"promoted"} =>
      {get_active_version} \ {NoEmb} \subseteq vec[m] \cup missing[m]

\* Production never loses its active version to a promotion, with whatever
\* shadows and verdicts and however often it is repeated: it only does when an
\* operator registers the active version itself as a shadow or as retired, which
\* register_version lets through (version_registry.py, register_version,
\* promote_shadow_to_active).
ActivePersists ==
  [][get_active_version # NoEmb /\ get_active_version' = NoEmb =>
       \E r \in {"shadow", "retired"} :
         <<get_active_version, r>> \in Registrations /\ Register(get_active_version, r)]_embVars

\* Only the shadow that the passing evaluation was about is promoted:
\* promote_shadow_if_ready says it promotes "when metrics pass thresholds".
PromotedWasEvaluated == ~blind
=============================================================================
