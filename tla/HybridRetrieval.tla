--------------------------- MODULE HybridRetrieval ---------------------------
(***************************************************************************)
(* HYBRID_MOVIE_RECOMMEND_WEIGHTED of src/graph/cypher_statements.py, the  *)
(* query of the template hybrid_recommend: the score of a movie of the     *)
(* vector index's answer.  HYBRID_MOVIE_RECOMMEND is the same with the     *)
(* weights of one arm.  The job that writes :PREFERS is not in the         *)
(* repository; they and the movies' relations grow.                        *)
(*                                                                         *)
(* Scores are in units of 0.0001 and weights in percent; vec_score is in   *)
(* percent, and so are the values of 1 - exp(-n) and tanh(n).              *)
(***************************************************************************)
EXTENDS Integers, FiniteSets, FiniteSetsExt

CONSTANTS
  Films,      \* the movies the vector index returns
  VecScore,   \* VecScore[m]
  Weightings, \* $w_vec, $w_kw, ...: what the arms, or the fallback, give
  Anchors,    \* genres, themes, moods and keywords: records of a kind and a name
  MaxAsked,   \* bound: anchors of one kind the query names
  MaxWeight   \* bound: weights of :PREFERS

\* A query vector's nearest movies, with their cosine
ASSUME HybridAssumption ==
  /\ IsFiniteSet(Anchors)
  /\ VecScore \in [Films -> 0..100]
  /\ Weightings \subseteq [vec : Nat, kw : Nat, theme : Nat, mood : Nat, user : Nat]

VARIABLES
  tagged,   \* <<m, a>>: m has the relation of a's kind to a
  asked,    \* query_keywords, query_themes, query_moods
  prefers   \* prefers[a]: weight of the user's :PREFERS to a, 0: none

hybridVars == <<tagged, asked, prefers>>

HybridInit ==
  /\ tagged = {}
  /\ asked = {}
  /\ prefers = [a \in Anchors |-> 0]

-----------------------------------------------------------------------------
\* Mutant: exp(-n) in place of 1 - exp(-n)
Decaying(n) == CASE n = 0 -> 100 [] n = 1 -> 37 [] n = 2 -> 14 [] OTHER -> 5

Saturating(n) == CASE n = 0 -> 0 [] n = 1 -> 63 [] n = 2 -> 86 [] OTHER -> 95
Tanh(w) == CASE w = 0 -> 0 [] w = 1 -> 76 [] w = 2 -> 96 [] OTHER -> 100

\* count(DISTINCT x) of the anchors of one kind that m has and the query names
Hits(m, kind) == Cardinality({a \in asked : a.kind = kind /\ <<m, a>> \in tagged})

Preferred == {a \in Anchors : prefers[a] > 0 /\ a.kind \in {"genre", "theme", "keyword"}}

\* x is bound by the user's :PREFERS.  The OPTIONAL MATCH of (m)-->(x) that
\* follows adds no row and drops none, so the sum is over all of Preferred.
UserPrefScore(m) == MapThenSumSet(LAMBDA a : prefers[a], Preferred)

Score(w, m) ==
  w.vec * VecScore[m] + w.kw * Saturating(Hits(m, "keyword"))
    + w.theme * Saturating(Hits(m, "theme")) + w.mood * Saturating(Hits(m, "mood"))
    + w.user * Tanh(UserPrefScore(m))

-----------------------------------------------------------------------------
Tag(m, a) ==
  /\ tagged' = tagged \cup {<<m, a>>}
  /\ UNCHANGED <<asked, prefers>>

Ask(a) ==
  /\ a.kind # "genre"
  /\ Cardinality({b \in asked : b.kind = a.kind}) < MaxAsked
  /\ asked' = asked \cup {a}
  /\ UNCHANGED <<tagged, prefers>>

Prefer(a, w) ==
  /\ prefers' = [prefers EXCEPT ![a] = w]
  /\ UNCHANGED <<tagged, asked>>

HybridNext ==
  \/ \E a \in Anchors : \/ \E m \in Films : Tag(m, a)
                        \/ Ask(a)
                        \/ \E w \in 1..MaxWeight : Prefer(a, w)

HybridSpec == HybridInit /\ [][HybridNext]_hybridVars

-----------------------------------------------------------------------------
Matches(m) == {a \in asked : <<m, a>> \in tagged}

\* Of two movies as near to the query, the one that matches all the other does
\* is not scored below it, whatever the user prefers and the bandit weighs.
MatchesNeverLower ==
  \A w \in Weightings, m, n \in Films :
    VecScore[m] = VecScore[n] /\ Matches(n) \subseteq Matches(m)
      => Score(w, m) >= Score(w, n)

\* docs/neo4j_schema.md, 5-1: the candidates of the embedding are boosted by the
\* user's preferences.  Of two movies alike for the query, the one
\* related to a preferred node, where the other is to none, is scored higher.
PreferencePersonalizes ==
  \A w \in Weightings, m, n \in Films :
    /\ VecScore[m] = VecScore[n] /\ Matches(m) = Matches(n)
    /\ \E a \in Preferred : <<m, a>> \in tagged
    /\ \A a \in Preferred : <<n, a>> \notin tagged
    => Score(w, m) > Score(w, n)
=============================================================================
