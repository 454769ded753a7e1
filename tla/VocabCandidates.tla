--------------------------- MODULE VocabCandidates ---------------------------
(***************************************************************************)
(* The life of a term the closed vocabulary does not know: it is observed  *)
(* as a :CandidateTerm each time a document with it is loaded, and the     *)
(* nightly batch makes the candidates that were seen often and long enough *)
(* standard terms, aliases of standard terms, or leaves them               *)
(* (src/vocab/*.py).                                                       *)
(*                                                                         *)
(* Each Cypher statement is one step.  run_batch works on the list it read *)
(* at its start, one candidate after the other, while loads go on; two     *)
(* batches may overlap.                                                    *)
(***************************************************************************)
EXTENDS Integers, FiniteSets

CONSTANTS
  Terms,          \* names of terms, as they are spelled
  Lower,          \* Lower[t]: t.strip().lower()
  Library,        \* Library[k]: the terms of kind k in the library file
  Catalog,        \* the names in catalog_embeddings
  Cosine,         \* Cosine[t][n]: cosine similarity of t and n, in percent
  MinCount,       \* promote_min_count
  Promoters,      \* processes that run run_batch
  MaxBatchFaults, \* bound: batches cut off by an exception or a crash
  MaxMonths       \* bound: months completed by a candidate that was old

Kinds == {"theme", "mood"}
AliasCosSim == 90
PromoteMaxCosSim == 85

ASSUME VocabAssumption ==
  /\ Catalog \subseteq Terms
  /\ Library \in [Kinds -> SUBSET Terms]
  /\ Lower \in [Terms -> Terms]
  /\ \A k \in Kinds : \A s, t \in Library[k] : Lower[s] = Lower[t] => s = t
  /\ Cosine \in [Terms -> [Catalog -> -100..100]]
  /\ MinCount \in Nat \ {0}
  /\ MaxBatchFaults \in Nat
  /\ MaxMonths \in Nat

VARIABLES
  cand,      \* cand[c]: the :CandidateTerm node of c = <<term, kind>>
  standard,  \* standard[k]: names of the :Theme or :Mood nodes
  aliases,   \* <<k, n, t>>: t is in aliases of the node n of kind k
  batch,     \* batch[p]: the candidates p's run_batch has still to decide
  batchFaults,
  months,
  \* history, read by properties only
  ready,     \* candidates seen often and long enough at some time
  distinct   \* terms made standard with an embedding in hand

vocabVars ==
  <<cand, standard, aliases, batch, batchFaults, months, ready, distinct>>

Candidates == Terms \X Kinds
NoNode == [count |-> 0, old |-> FALSE, emb |-> FALSE]
Node == [count : 0..MinCount, old : BOOLEAN, emb : BOOLEAN]
Exists(c) == cand[c].count > 0

VocabTypeOK ==
  /\ cand \in [Candidates -> Node]
  /\ standard \in [Kinds -> SUBSET Terms]
  /\ aliases \subseteq Kinds \X Terms \X Terms
  /\ batch \in [Promoters -> SUBSET [cand : Candidates, emb : BOOLEAN]]
  /\ batchFaults \in 0..MaxBatchFaults
  /\ months \in 0..MaxMonths
  /\ ready \subseteq Candidates
  /\ distinct \subseteq Candidates

VocabInit ==
  /\ cand = [c \in Candidates |-> NoNode]
  /\ standard \in {Library, [k \in Kinds |-> {}]}  \* seeded or not
  /\ aliases = {}
  /\ batch = [p \in Promoters |-> {}]
  /\ batchFaults = 0
  /\ months = 0
  /\ ready = {}
  /\ distinct = {}

-----------------------------------------------------------------------------
(* Normalizer: the library as it was when the process started, in its own  *)
(* spelling.                                                               *)

InLibrary(k, t) == {s \in Library[k] : Lower[s] = Lower[t]}
KnownTheme(t) == InLibrary("theme", t) # {}
KnownMood(t) == InLibrary("mood", t) # {}

-----------------------------------------------------------------------------
(* Observing.  A count is kept up to MinCount: nothing tells larger ones   *)
(* apart.                                                                  *)

Observed(node, emb) ==
  [count |-> IF node.count < MinCount THEN node.count + 1 ELSE MinCount,
   old   |-> node.old,
   emb   |-> node.emb \/ emb]

\* Mutant: only the count matters
ListableAtOnce(node) == node.count >= MinCount

Listable(node) == node.count >= MinCount /\ node.old

SeenEnough(node) == node.count >= MinCount /\ node.old
NoteReady == ready' = ready \cup {c \in Candidates : SeenEnough(cand'[c])}

observe(c, emb) ==
  /\ cand' = [cand EXCEPT ![c] = Observed(@, emb)]
  /\ NoteReady
  /\ UNCHANGED <<standard, aliases, batch, batchFaults, months, distinct>>

\* duration.between(first_seen, now).days reaches promote_min_days: it is the
\* days beyond whole months
Age(c) ==
  /\ Exists(c) /\ ~cand[c].old
  /\ cand' = [cand EXCEPT ![c].old = TRUE]
  /\ NoteReady
  /\ UNCHANGED <<standard, aliases, batch, batchFaults, months, distinct>>

\* and is 0 again when another month is complete
NewMonth(c) ==
  /\ Exists(c) /\ cand[c].old /\ months < MaxMonths
  /\ cand' = [cand EXCEPT ![c].old = FALSE]
  /\ months' = months + 1
  /\ UNCHANGED <<standard, aliases, batch, batchFaults, ready, distinct>>

-----------------------------------------------------------------------------
(* The batch.                                                              *)

Cosines(t) == {Cosine[t][n] : n \in Catalog}
MaxSim(t) == CHOOSE s \in Cosines(t) : \A x \in Cosines(t) : x <= s

\* find_alias: the names a best one may be, the first in the caller's order
Best(t) == {n \in Catalog : Cosine[t][n] = MaxSim(t)}
HasAlias(t) == Catalog # {} /\ MaxSim(t) >= AliasCosSim

list_promotion_candidates(p) ==
  /\ batch[p] = {}
  /\ \E c \in Candidates : Listable(cand[c])
  /\ batch' = [batch EXCEPT ![p] =
       {[cand |-> c, emb |-> cand[c].emb] :
          c \in {d \in Candidates : Listable(cand[d])}}]
  /\ UNCHANGED <<cand, standard, aliases, batchFaults, months, ready, distinct>>

\* ADD_ALIAS: every :Theme or :Mood node named n takes the alias; without one
\* the MATCH has no row and the candidate is not deleted
AddAlias(c, n) ==
  LET hits == {k \in Kinds : n \in standard[k]} IN
  /\ aliases' = aliases \cup {<<k, n, c[1]>> : k \in hits}
  /\ cand' = IF hits = {} THEN cand ELSE [cand EXCEPT ![c] = NoNode]
  /\ UNCHANGED <<standard, distinct>>

\* Mutant: the candidate to delete is looked for among the themes
PromoteKeepsMood(c, emb) ==
  /\ standard' = [standard EXCEPT ![c[2]] = @ \cup {c[1]}]
  /\ cand' = [cand EXCEPT ![<<c[1], "theme">>] = NoNode]
  /\ distinct' = IF emb THEN distinct \cup {c} ELSE distinct
  /\ UNCHANGED aliases

\* PROMOTE_THEME, PROMOTE_MOOD
PromoteTerm(c, emb) ==
  /\ standard' = [standard EXCEPT ![c[2]] = @ \cup {c[1]}]
  /\ cand' = [cand EXCEPT ![c] = NoNode]
  /\ distinct' = IF emb THEN distinct \cup {c} ELSE distinct
  /\ UNCHANGED aliases

\* Mutant: a term too close to a known one is promoted
DecideNoSkip(e) ==
  IF e.emb /\ HasAlias(e.cand[1])
  THEN \E n \in Best(e.cand[1]) : AddAlias(e.cand, n)
  ELSE PromoteTerm(e.cand, e.emb)

Decide(e) ==
  LET t == e.cand[1] IN
  IF e.emb /\ HasAlias(t)
  THEN \E n \in Best(t) : AddAlias(e.cand, n)
  ELSE IF e.emb /\ Catalog # {} /\ MaxSim(t) >= PromoteMaxCosSim
       THEN UNCHANGED <<cand, standard, aliases, distinct>>  \* skipped
       ELSE PromoteTerm(e.cand, e.emb)

run_batch(p) ==
  \E e \in batch[p] :
    /\ Decide(e)
    /\ batch' = [batch EXCEPT ![p] = @ \ {e}]
    /\ UNCHANGED <<batchFaults, months, ready>>

\* A statement raises, or the process dies: the rest of the batch is dropped
BatchFails(p) ==
  /\ batch[p] # {} /\ batchFaults < MaxBatchFaults
  /\ batch' = [batch EXCEPT ![p] = {}]
  /\ batchFaults' = batchFaults + 1
  /\ UNCHANGED <<cand, standard, aliases, months, ready, distinct>>

\* One MERGE of seed_vocab_from_library.py
Seed(k, t) ==
  /\ t \in Library[k] \ standard[k]
  /\ standard' = [standard EXCEPT ![k] = @ \cup {t}]
  /\ UNCHANGED <<cand, aliases, batch, batchFaults, months, ready, distinct>>

Promoter(p) == list_promotion_candidates(p) \/ run_batch(p)

VocabNext ==
  \/ \E c \in Candidates : Age(c) \/ NewMonth(c)
  \/ \E p \in Promoters : Promoter(p) \/ BatchFails(p)
  \/ \E k \in Kinds : \E t \in Library[k] : Seed(k, t)

\* With loads through the pipeline, which observe any terms
VocabSpec ==
  VocabInit
  /\ [][VocabNext \/ \E c \in Candidates, emb \in BOOLEAN : observe(c, emb)]_vocabVars

-----------------------------------------------------------------------------
(* Properties.                                                             *)

\* While every load goes through the pipeline, a :Theme or :Mood node is a
\* library term or was a candidate seen MinCount times over MinDays, whatever
\* loads, retried loads and overlapping batches did in between
\* (candidate_store.LIST_READY_CYPHER, promoter.run_batch).
StandardIsEarned ==
  \A k \in Kinds : \A t \in standard[k] \ Library[k] : <<t, k>> \in ready

\* A term that was made standard with its embedding in hand is a near
\* duplicate of no name in the catalog (promoter.run_batch, aliaser.find_alias).
PromotedIsDistinct ==
  \A c \in distinct, n \in Catalog : Cosine[c[1]][n] < PromoteMaxCosSim

\* The batch cannot take c: it is too close to a name to be promoted, and the
\* name it would be an alias of is not a node.
Refused(c) ==
  /\ cand[c].emb
  /\ MaxSim(c[1]) >= PromoteMaxCosSim
  /\ HasAlias(c[1]) => \E n \in Best(c[1]) : \A k \in Kinds : n \notin standard[k]

\* A candidate that is listable is decided in the end, in spite of batches
\* that fail and of months that take it off the list again, or the batch has a
\* reason to refuse it (promoter.run_batch, LIST_READY_CYPHER).
ReadyIsDecided ==
  \A c \in Candidates : Listable(cand[c]) ~> (~Exists(c) \/ Refused(c))
=============================================================================
