---------------------------- MODULE ServicesProofs ----------------------------
(***************************************************************************)
(* Proofs about the components of Services: each component's properties,   *)
(* from an inductive invariant of its own, and what follows for their      *)
(* composition, where one of them moves and the others stay as they are.   *)
(* The cache, the chat history and the judge have modules of their own.    *)
(***************************************************************************)
EXTENDS Services, EmbeddingCacheProofs, ChatHistoryProofs, JudgeProofs,
        FiniteSetTheorems, SequenceTheorems, TLAPS

-----------------------------------------------------------------------------
(* Extraction                                                              *)

\* What is parsed is the object of the answer, unless it was a list
ExtractionInv ==
  /\ model \in Models /\ answer.text \in Shapes
  /\ stage = "parsed" /\ answer.text # "array" => raw = answer.object
  /\ NothingIsRepaired

\* The strict parse and the lenient one keep the same fields
LEMMA KeptFields ==
  ASSUME NEW m \in Models, NEW o,
         Accepts(m, o) \/ Accepts(m, Cleaned(m, o))
  PROVE  /\ Cleaned(m, o) = Known(m, o)
         /\ DOMAIN Known(m, o) = DOMAIN o \cap m.fields
         /\ m.required \subseteq DOMAIN Known(m, o)
<1>1. m.required \subseteq m.fields
  BY DEF Models, MoviePlotOntology, FeedOntology, CommentOntology, Common
<1>2. DOMAIN Known(m, o) = DOMAIN o \cap m.fields
  BY DEF Known
<1>3. Cleaned(m, o) = Known(m, o)
  BY DEF Cleaned
<1> QED BY <1>1, <1>2, <1>3 DEF Accepts

LEMMA ExtractionInvariance == ExtractionSpec => []ExtractionInv
<1>1. ExtractionInit => ExtractionInv
  BY DEF ExtractionInit, ExtractionInv, NothingIsRepaired, Models, Shapes
<1>2. ExtractionInv /\ [ExtractionNext]_extractionVars => ExtractionInv'
  <2> SUFFICES ASSUME ExtractionInv, [ExtractionNext]_extractionVars PROVE ExtractionInv'
    OBVIOUS
  <2>1. ASSUME NEW m \in Models, extract(m) PROVE ExtractionInv'
    BY <2>1 DEF extract, ExtractionInv, NothingIsRepaired
  <2>2. CASE chat_json
    BY <2>2 DEF chat_json, ExtractionInv, NothingIsRepaired, Shapes
  <2>3. CASE Validate
    <3>1. model' = model /\ answer' = answer /\ stage' # "parsed"
      BY <2>3 DEF Validate
    <3>2. ASSUME stage' = "returned"
          PROVE  /\ raw = answer.object
                 /\ Accepts(model, raw) \/ Accepts(model, Cleaned(model, raw))
                 /\ result' = Known(model, raw)
      BY <2>3, <3>2, KeptFields DEF Validate, ExtractionInv
    <3>3. NothingIsRepaired'
      BY <3>1, <3>2, KeptFields DEF NothingIsRepaired, ExtractionInv
    <3> QED BY <3>1, <3>3 DEF ExtractionInv
  <2>4. CASE UNCHANGED extractionVars
    BY <2>4 DEF extractionVars, ExtractionInv, NothingIsRepaired
  <2> QED BY <2>1, <2>2, <2>3, <2>4 DEF ExtractionNext
<1> QED BY <1>1, <1>2, PTL DEF ExtractionSpec

\* A document is what the LLM answered, or no document (Extraction)
THEOREM NothingRepaired == ExtractionSpec => []NothingIsRepaired
<1>1. ExtractionInv => NothingIsRepaired
  BY DEF ExtractionInv
<1> QED BY <1>1, ExtractionInvariance, PTL

-----------------------------------------------------------------------------
(* Templates                                                               *)

\* What runs is the request, or the fallback made of its parameters
TemplatesInv ==
  request # <<>> =>
    /\ request \in Requests
    /\ \/ call = request
       \/ /\ request.params # NoMapping
          /\ call = [id |-> DefaultTemplate, params |-> FallbackParams(request.params),
                     fallback |-> FALSE]
    /\ FallbackAnswers

DefaultNames ==
  {"user_id", "query_embedding", "query_keywords", "query_themes", "query_moods",
   "top_k", "vec_top_k"} \cup Weights

LEMMA DefaultSchema ==
  /\ DefaultTemplate \in Registered
  /\ Required(DefaultTemplate) = DefaultNames
  /\ MaxLimit(DefaultTemplate) = 100
  /\ ParamsSchema[DefaultTemplate].user_id = "string"
  /\ ParamsSchema[DefaultTemplate].query_embedding = "float_list"
  /\ ParamsSchema[DefaultTemplate].query_keywords = "string_list"
  /\ ParamsSchema[DefaultTemplate].query_themes = "string_list"
  /\ ParamsSchema[DefaultTemplate].query_moods = "string_list"
  /\ ParamsSchema[DefaultTemplate].top_k = "int"
  /\ ParamsSchema[DefaultTemplate].vec_top_k = "int"
  /\ \A w \in Weights : ParamsSchema[DefaultTemplate][w] = "float"
<1> DEFINE schema == ParamsSchema[DefaultTemplate]
<1>1. /\ DefaultTemplate \in Registered
      /\ schema = [user_id |-> "string", query_embedding |-> "float_list",
                   query_keywords |-> "string_list", query_themes |-> "string_list",
                   query_moods |-> "string_list", top_k |-> "int", vec_top_k |-> "int",
                   w_vec |-> "float", w_kw |-> "float", w_theme |-> "float",
                   w_mood |-> "float", w_user |-> "float"]
  BY DEF DefaultTemplate, Registered, ParamsSchema
<1>2. Required(DefaultTemplate) = DOMAIN schema
  BY DEF Required
<1> HIDE DEF schema
<1>3. DOMAIN schema = DefaultNames
  BY <1>1 DEF DefaultNames, Weights
<1>4. MaxLimit(DefaultTemplate) = 100
  BY DEF MaxLimit
<1>5. \A w \in Weights : schema[w] = "float"
  BY <1>1 DEF Weights
<1> QED BY <1>1, <1>2, <1>3, <1>4, <1>5 DEF schema

\* A parameter of the fallback that cannot be coerced is the request's
LEMMA FallbackCoerces ==
  ASSUME NEW p, NEW k \in Required(DefaultTemplate),
         coerce(FallbackParams(p)[k], ParamsSchema[DefaultTemplate][k]) # "ok"
  PROVE  /\ k \in DOMAIN p \cap (Required(DefaultTemplate) \ Weights)
         /\ coerce(p[k], ParamsSchema[DefaultTemplate][k]) # "ok"
<1>1. CASE k \in Weights
  <2>1. FallbackParams(p)[k] = Number(0) /\ ParamsSchema[DefaultTemplate][k] = "float"
    BY <1>1, DefaultSchema DEF FallbackParams
  <2> QED BY <2>1 DEF coerce, Number
<1>2. CASE k \notin Weights /\ k \in DOMAIN p
  <2>1. FallbackParams(p)[k] = p[k]
    BY <1>2 DEF FallbackParams
  <2> QED BY <1>2, <2>1
<1>3. CASE k \notin Weights /\ k \notin DOMAIN p
  <2>1. k \in {"user_id", "query_embedding", "query_keywords", "query_themes",
               "query_moods", "top_k", "vec_top_k"}
    BY <1>3, DefaultSchema DEF DefaultNames
  <2>2. CASE k = "user_id"
    BY <1>3, <2>2, DefaultSchema DEF FallbackParams, coerce
  <2>3. CASE k = "query_embedding"
    <3>1. FallbackParams(p)[k] = NoItems
      BY <1>3, <2>3 DEF FallbackParams
    <3> QED BY <2>3, <3>1, DefaultSchema DEF coerce, NoItems
  <2>4. CASE k \in {"query_keywords", "query_themes", "query_moods"}
    <3>1. FallbackParams(p)[k] = NoItems
      BY <1>3, <2>4 DEF FallbackParams
    <3>2. ParamsSchema[DefaultTemplate][k] = "string_list"
      BY <2>4, DefaultSchema
    <3> QED BY <3>1, <3>2 DEF coerce, NoItems
  <2>5. CASE k \in {"top_k", "vec_top_k"}
    <3>1. FallbackParams(p)[k].type = "number"
      BY <1>3, <2>5 DEF FallbackParams, Number
    <3>2. ParamsSchema[DefaultTemplate][k] = "int"
      BY <2>5, DefaultSchema
    <3> QED BY <3>1, <3>2 DEF coerce
  <2> QED BY <2>1, <2>2, <2>3, <2>4, <2>5
<1> QED BY <1>1, <1>2, <1>3

\* So is a limit that is too large or too small, and the vector that the index
\* refuses is the request's or the empty one
LEMMA FallbackLimits ==
  ASSUME NEW p,
         \/ TooLarge(DefaultTemplate, FallbackParams(p))
         \/ FallbackParams(p)["top_k"].n < 0
         \/ FallbackParams(p)["vec_top_k"].n < 1
  PROVE  \/ "top_k" \in DOMAIN p /\ p["top_k"].n \notin 0..100
         \/ "vec_top_k" \in DOMAIN p /\ p["vec_top_k"].n \notin 1..200
<1>1. {"top_k", "vec_top_k"} \subseteq Required(DefaultTemplate) \ Weights
  BY DefaultSchema DEF DefaultNames, Weights
<1>2. FallbackParams(p)["top_k"] = IF "top_k" \in DOMAIN p THEN p["top_k"] ELSE Number(20)
  BY <1>1 DEF FallbackParams
<1>3. FallbackParams(p)["vec_top_k"] =
        IF "vec_top_k" \in DOMAIN p THEN p["vec_top_k"] ELSE Number(50)
  BY <1>1 DEF FallbackParams
<1>4. \/ FallbackParams(p)["top_k"].n > 100 \/ FallbackParams(p)["top_k"].n < 0
      \/ FallbackParams(p)["vec_top_k"].n > 200 \/ FallbackParams(p)["vec_top_k"].n < 1
  BY DefaultSchema DEF TooLarge
<1> QED BY <1>1, <1>2, <1>3, <1>4 DEF Number

LEMMA FallbackVector ==
  ASSUME NEW p, FallbackParams(p)["query_embedding"] # Floats
  PROVE  \/ "query_embedding" \notin DOMAIN p \cap (Required(DefaultTemplate) \ Weights)
         \/ p["query_embedding"] # Floats
<1>1. "query_embedding" \in Required(DefaultTemplate) \ Weights
  BY DefaultSchema DEF DefaultNames, Weights
<1> QED BY <1>1 DEF FallbackParams

LEMMA TemplatesInvariance == TemplatesSpec => []TemplatesInv
<1>1. TemplatesInit => TemplatesInv
  BY DEF TemplatesInit, TemplatesInv
<1>2. TemplatesInv /\ [TemplatesNext]_templateVars => TemplatesInv'
  <2> SUFFICES ASSUME TemplatesInv, [TemplatesNext]_templateVars PROVE TemplatesInv'
    OBVIOUS
  <2>1. ASSUME NEW r \in Requests, execute_intent(r) PROVE TemplatesInv'
    BY <2>1 DEF execute_intent, TemplatesInv, FallbackAnswers, FellBack
  <2>2. CASE Execute
    <3> SUFFICES ASSUME request' # <<>> PROVE TemplatesInv'
      BY DEF TemplatesInv
    <3> DEFINE p == request.params
               fallback == [id |-> DefaultTemplate, params |-> FallbackParams(p),
                            fallback |-> FALSE]
    <3>1. request' = request /\ request # <<>>
      BY <2>2 DEF Execute
    <3>2. PICK v \in Verdicts(call.id, call.params) :
            LET falls == v = "validation_error" /\ call.fallback /\ call.id # DefaultTemplate
            IN IF falls /\ call.params # NoMapping
               THEN call' = [id |-> DefaultTemplate, params |-> FallbackParams(call.params),
                             fallback |-> FALSE] /\ UNCHANGED outcome
               ELSE /\ outcome' = IF falls THEN "other_error"
                                  ELSE IF v # "ok" THEN v
                                  ELSE IF RefusedByNeo4j(call.id, call.params)
                                  THEN "other_error" ELSE "rows"
                    /\ UNCHANGED call
      BY <2>2 DEF Execute
    <3>3. CASE call = request
      BY <2>2, <3>1, <3>2, <3>3 DEF TemplatesInv, FallbackAnswers, FellBack, Execute
    <3>4. CASE call = fallback /\ call # request
      <4>1. call' = call /\ call.id = DefaultTemplate /\ call.params = FallbackParams(p)
        BY <3>2, <3>4
      <4>2. ASSUME outcome' \notin {"running", "rows"}
            PROVE  \/ v # "ok"
                   \/ RefusedByNeo4j(DefaultTemplate, FallbackParams(p))
        BY <3>2, <4>1, <4>2
      <4>3. ASSUME v # "ok"
            PROVE  \/ \E k \in Required(DefaultTemplate) :
                        coerce(FallbackParams(p)[k], ParamsSchema[DefaultTemplate][k]) # "ok"
                   \/ TooLarge(DefaultTemplate, FallbackParams(p))
        <5>1. DOMAIN FallbackParams(p) = Required(DefaultTemplate)
          BY DEF FallbackParams
        <5>2. FallbackParams(p) # NoMapping
          BY <3>1, <3>4, NoMappingAssumption DEF TemplatesInv
        <5> QED BY <3>2, <4>1, <4>3, <5>1, <5>2, DefaultSchema DEF Verdicts
      <4>4. ASSUME outcome' \notin {"running", "rows"}
            PROVE  LET own == DOMAIN p \cap (Required(DefaultTemplate) \ Weights)
                   IN \/ \E k \in own :
                           coerce(p[k], ParamsSchema[DefaultTemplate][k]) # "ok"
                      \/ "top_k" \in own /\ p["top_k"].n \notin 0..100
                      \/ "vec_top_k" \in own /\ p["vec_top_k"].n \notin 1..200
                      \/ "query_embedding" \notin own \/ p["query_embedding"] # Floats
        <5>1. {"top_k", "vec_top_k"} \subseteq Required(DefaultTemplate) \ Weights
          BY DefaultSchema DEF DefaultNames, Weights
        <5>2. \/ \E k \in Required(DefaultTemplate) :
                   coerce(FallbackParams(p)[k], ParamsSchema[DefaultTemplate][k]) # "ok"
              \/ TooLarge(DefaultTemplate, FallbackParams(p))
              \/ FallbackParams(p)["top_k"].n < 0
              \/ FallbackParams(p)["vec_top_k"].n < 1
              \/ FallbackParams(p)["query_embedding"] # Floats
          BY <4>2, <4>3, <4>4 DEF RefusedByNeo4j
        <5>3. ASSUME NEW k \in Required(DefaultTemplate),
                     coerce(FallbackParams(p)[k], ParamsSchema[DefaultTemplate][k]) # "ok"
              PROVE  \E x \in DOMAIN p \cap (Required(DefaultTemplate) \ Weights) :
                       coerce(p[x], ParamsSchema[DefaultTemplate][x]) # "ok"
          BY <5>3, FallbackCoerces
        <5>4. CASE \/ TooLarge(DefaultTemplate, FallbackParams(p))
                   \/ FallbackParams(p)["top_k"].n < 0
                   \/ FallbackParams(p)["vec_top_k"].n < 1
          <6>1. \/ "top_k" \in DOMAIN p /\ p["top_k"].n \notin 0..100
                \/ "vec_top_k" \in DOMAIN p /\ p["vec_top_k"].n \notin 1..200
            BY <5>4, FallbackLimits
          <6> QED BY <5>1, <6>1
        <5>5. CASE FallbackParams(p)["query_embedding"] # Floats
          BY <5>5, FallbackVector
        <5> QED BY <5>2, <5>3, <5>4, <5>5
      <4>5. FallbackAnswers'
        BY <3>1, <4>4 DEF FallbackAnswers
      <4> QED BY <3>1, <3>4, <4>1, <4>5 DEF TemplatesInv
    <3> QED BY <3>1, <3>3, <3>4 DEF TemplatesInv
  <2>3. CASE UNCHANGED templateVars
    BY <2>3 DEF templateVars, TemplatesInv, FallbackAnswers, FellBack
  <2> QED BY <2>1, <2>2, <2>3 DEF TemplatesNext
<1> QED BY <1>1, <1>2, PTL DEF TemplatesSpec

\* A request that falls back is answered, unless a parameter that the fallback
\* takes over is wrong, a limit that Neo4j refuses among them, or query_embedding
\* is missing (execute)
THEOREM FallbacksAnswer == TemplatesSpec => []FallbackAnswers
<1>1. TemplatesInv => FallbackAnswers
  BY DEF TemplatesInv, FallbackAnswers, FellBack
<1> QED BY <1>1, TemplatesInvariance, PTL

-----------------------------------------------------------------------------
(* HybridRetrieval                                                         *)

\* A film with more of what was asked for has as many hits of every kind
LEMMA HitsGrow ==
  ASSUME asked \subseteq Anchors, NEW m, NEW n, Matches(n) \subseteq Matches(m), NEW kind
  PROVE  /\ Hits(n, kind) \in Nat /\ Hits(m, kind) \in Nat
         /\ Hits(n, kind) <= Hits(m, kind)
<1> DEFINE Found(x) == {a \in asked : a.kind = kind /\ <<x, a>> \in tagged}
<1>1. IsFiniteSet(asked)
  BY HybridAssumption, FS_Subset
<1>2. Found(n) \subseteq Found(m) /\ Found(m) \subseteq asked
  BY DEF Matches
<1>3. IsFiniteSet(Found(m)) /\ Cardinality(Found(n)) <= Cardinality(Found(m))
  <2> HIDE DEF Found
  <2> QED BY <1>1, <1>2, FS_Subset
<1>4. IsFiniteSet(Found(n))
  BY <1>2, <1>3, FS_Subset
<1> QED BY <1>3, <1>4, FS_CardinalityType DEF Hits

LEMMA SaturatingGrows ==
  ASSUME NEW a \in Nat, NEW b \in Nat, a <= b
  PROVE  /\ Saturating(a) \in Nat /\ Saturating(b) \in Nat
         /\ Saturating(a) <= Saturating(b)
BY DEF Saturating

LEMMA ScaledGrows ==
  ASSUME NEW w \in Nat, NEW a \in Nat, NEW b \in Nat, a <= b
  PROVE  w * a \in Nat /\ w * b \in Nat /\ w * a <= w * b
OBVIOUS

\* A film that matches more is not ranked lower, whatever the tags, the
\* preferences, the weights and the anchors asked for (hybrid_recommend)
THEOREM MatchesCount == HybridSpec => []MatchesNeverLower
<1> DEFINE Asked == asked \subseteq Anchors
<1>1. HybridInit => Asked
  BY DEF HybridInit
<1>2. Asked /\ [HybridNext]_hybridVars => Asked'
  BY DEF HybridNext, hybridVars, Tag, Ask, Prefer
<1>3. Asked => MatchesNeverLower
  <2> SUFFICES ASSUME Asked, NEW w \in Weightings, NEW m \in Films, NEW n \in Films,
                      VecScore[m] = VecScore[n], Matches(n) \subseteq Matches(m)
               PROVE  Score(w, m) >= Score(w, n)
    BY DEF MatchesNeverLower
  <2>1. \A k \in {"keyword", "theme", "mood"} :
           /\ Saturating(Hits(m, k)) \in Nat /\ Saturating(Hits(n, k)) \in Nat
           /\ Saturating(Hits(n, k)) <= Saturating(Hits(m, k))
    BY HitsGrow, SaturatingGrows
  <2>2. UserPrefScore(m) = UserPrefScore(n)
    BY DEF UserPrefScore
  <2>3. w.vec \in Nat /\ w.kw \in Nat /\ w.theme \in Nat /\ w.mood \in Nat /\ w.user \in Nat
    BY HybridAssumption
  <2>4. w.vec * VecScore[m] \in Nat /\ w.user * Tanh(UserPrefScore(m)) \in Nat
    <3>1. VecScore[m] \in Nat /\ Tanh(UserPrefScore(m)) \in Nat
      BY HybridAssumption DEF Tanh
    <3> QED BY <2>3, <3>1, ScaledGrows
  <2>5. \A k \in {"keyword", "theme", "mood"}, v \in Nat :
           /\ v * Saturating(Hits(m, k)) \in Nat /\ v * Saturating(Hits(n, k)) \in Nat
           /\ v * Saturating(Hits(n, k)) <= v * Saturating(Hits(m, k))
    BY <2>1, ScaledGrows
  <2> DEFINE Matched(v, x, k) == v * Saturating(Hits(x, k))
             Fixed(x) == w.vec * VecScore[x]
             User(x) == w.user * Tanh(UserPrefScore(x))
  <2>6. /\ Fixed(m) \in Nat /\ User(m) \in Nat /\ Fixed(n) = Fixed(m) /\ User(n) = User(m)
        /\ \A k \in {"keyword", "theme", "mood"}, v \in Nat :
             Matched(v, m, k) \in Nat /\ Matched(v, n, k) \in Nat /\ Matched(v, n, k) <= Matched(v, m, k)
    BY <2>2, <2>4, <2>5
  <2>7. \A x : Score(w, x) = Fixed(x) + Matched(w.kw, x, "keyword") + Matched(w.theme, x, "theme")
                              + Matched(w.mood, x, "mood") + User(x)
    BY DEF Score
  <2> HIDE DEF Matched, Fixed, User
  <2> QED BY <2>3, <2>6, <2>7
<1> QED BY <1>1, <1>2, <1>3, PTL DEF HybridSpec

-----------------------------------------------------------------------------
(* Bandit                                                                  *)

Counters == [alpha : Nat, beta : Nat, n_pulls : Nat, n_rewards : Nat]

BanditInv ==
  /\ arm \in [ArmKeys -> Counters]
  /\ picks \in [ArmKeys -> Nat]
  /\ given \in [ArmKeys -> [Rewards -> Nat]]
  /\ PosteriorIsFeedback

LEMMA RewardsAreInRange ==
  \A act \in Actions, long \in BOOLEAN : reward_from_action(act, long) \in Rewards
BY DEF Actions, reward_from_action, REWARD_MAP, Rewards

LEMMA SelectInv ==
  ASSUME BanditInv, NEW c \in Contexts, select_weights(c)
  PROVE  BanditInv'
<1>1. CASE UNCHANGED <<arm, picks>>
  BY <1>1 DEF select_weights, BanditInv, PosteriorIsFeedback, Count
<1>2. ASSUME NEW a \in Arms,
             arm' = [arm EXCEPT ![<<a, c>>].n_pulls = @ + 1],
             picks' = [picks EXCEPT ![<<a, c>>] = @ + 1]
      PROVE  BanditInv'
  <2> DEFINE key == <<a, c>>
  <2>1. key \in ArmKeys /\ given' = given
    BY DEF ArmKeys, select_weights
  <2>6. /\ arm' = [arm EXCEPT ![key] = [arm[key] EXCEPT !.n_pulls = @ + 1]]
        /\ picks' = [picks EXCEPT ![key] = @ + 1]
    BY <1>2
  <2> HIDE DEF key
  <2>7. [arm[key] EXCEPT !.n_pulls = @ + 1] \in Counters
    BY <2>1 DEF BanditInv, Counters
  <2>2. /\ arm' \in [ArmKeys -> Counters]
        /\ arm'[key] = [arm[key] EXCEPT !.n_pulls = @ + 1]
        /\ \A k \in ArmKeys \ {key} : arm'[k] = arm[k]
    BY <2>1, <2>6, <2>7 DEF BanditInv
  <2>3. /\ picks' \in [ArmKeys -> Nat] /\ picks'[key] = picks[key] + 1
        /\ \A k \in ArmKeys \ {key} : picks'[k] = picks[k]
    BY <2>1, <2>6 DEF BanditInv
  <2>4. \A k \in ArmKeys : Count(k) \in Nat /\ Count(k)' = Count(k)
    BY <2>1 DEF Count, BanditInv, Rewards
  <2>5. PosteriorIsFeedback'
    BY <2>1, <2>2, <2>3, <2>4 DEF PosteriorIsFeedback, BanditInv, Counters
  <2> QED BY <2>1, <2>2, <2>3, <2>5 DEF BanditInv
<1> QED BY <1>1, <1>2 DEF select_weights, sample_arm

LEMMA RewardInv ==
  ASSUME BanditInv, NEW a \in Arms, NEW c \in Contexts, NEW r \in Rewards,
         record_reward(a, c, r)
  PROVE  BanditInv'
<1> DEFINE key == <<a, c>>
<1>1. key \in ArmKeys /\ picks' = picks
  BY DEF ArmKeys, record_reward
<1>7. /\ arm' = [arm EXCEPT ![key] = Updated(arm[key], r)]
      /\ given' = [given EXCEPT ![key] = [given[key] EXCEPT ![r] = @ + 1]]
  BY DEF record_reward
<1> HIDE DEF key
<1>8. r \in Int /\ arm[key] \in Counters
  BY <1>1 DEF BanditInv, Rewards
<1>9. Updated(arm[key], r) \in Counters
  <2> DEFINE st == arm[key]
  <2>1. /\ st.alpha \in Nat /\ st.beta \in Nat /\ st.n_pulls \in Nat /\ st.n_rewards \in Nat
        /\ st = [alpha |-> st.alpha, beta |-> st.beta, n_pulls |-> st.n_pulls,
                 n_rewards |-> st.n_rewards]
    BY <1>8 DEF Counters
  <2> HIDE DEF st
  <2>2. CASE r > 0
    <3>1. st.alpha + r \in Nat /\ st.n_pulls + 1 \in Nat /\ st.n_rewards + 1 \in Nat
      BY <1>8, <2>1, <2>2
    <3> QED BY <2>1, <2>2, <3>1 DEF Updated, Counters, st
  <2>3. CASE ~(r > 0)
    <3>1. st.beta - r \in Nat /\ st.n_pulls + 1 \in Nat
      BY <1>8, <2>1, <2>3
    <3> QED BY <2>1, <2>3, <3>1 DEF Updated, Counters, st
  <2> QED BY <2>2, <2>3
<1>10. given[key] \in [Rewards -> Nat]
  BY <1>1 DEF BanditInv
<1>11. [given[key] EXCEPT ![r] = @ + 1] \in [Rewards -> Nat]
  BY <1>10
<1>2. /\ arm' \in [ArmKeys -> Counters]
      /\ arm'[key] = Updated(arm[key], r)
      /\ \A k \in ArmKeys \ {key} : arm'[k] = arm[k]
  BY <1>1, <1>7, <1>9 DEF BanditInv
<1>3. /\ given' \in [ArmKeys -> [Rewards -> Nat]]
      /\ given'[key] = [given[key] EXCEPT ![r] = @ + 1]
      /\ \A k \in ArmKeys \ {key} : given'[k] = given[k]
  BY <1>1, <1>7, <1>11 DEF BanditInv
<1>4. ASSUME NEW k \in ArmKeys \ {key}
      PROVE  /\ arm'[k].alpha = 1 + given'[k][1] + 2 * given'[k][2] + 3 * given'[k][3]
             /\ arm'[k].beta = 1 + given'[k][-1] + 2 * given'[k][-2]
             /\ arm'[k].n_rewards = given'[k][1] + given'[k][2] + given'[k][3]
             /\ arm'[k].n_pulls = picks'[k] + Count(k)'
  BY <1>1, <1>2, <1>3 DEF BanditInv, PosteriorIsFeedback, Count
<1>5. /\ arm'[key].alpha = 1 + given'[key][1] + 2 * given'[key][2] + 3 * given'[key][3]
      /\ arm'[key].beta = 1 + given'[key][-1] + 2 * given'[key][-2]
      /\ arm'[key].n_rewards = given'[key][1] + given'[key][2] + given'[key][3]
      /\ arm'[key].n_pulls = picks'[key] + Count(key)'
  <2> DEFINE g == given[key]
             h == given'[key]
             st == arm[key]
  <2>1. /\ g \in [Rewards -> Nat] /\ h = [g EXCEPT ![r] = @ + 1]
        /\ st \in Counters
        /\ st.alpha = 1 + g[1] + 2 * g[2] + 3 * g[3]
        /\ st.beta = 1 + g[-1] + 2 * g[-2]
        /\ st.n_rewards = g[1] + g[2] + g[3]
        /\ st.n_pulls = picks[key] + (g[-2] + g[-1] + g[0] + g[1] + g[2] + g[3])
    BY <1>1, <1>3 DEF BanditInv, PosteriorIsFeedback, Count
  <2>2. \A q \in Rewards : h[q] = (IF q = r THEN g[q] + 1 ELSE g[q]) /\ g[q] \in Nat
    BY <2>1
  <2>3. /\ h[-2] = (IF r = -2 THEN g[-2] + 1 ELSE g[-2]) /\ g[-2] \in Nat
        /\ h[-1] = (IF r = -1 THEN g[-1] + 1 ELSE g[-1]) /\ g[-1] \in Nat
        /\ h[0] = (IF r = 0 THEN g[0] + 1 ELSE g[0]) /\ g[0] \in Nat
        /\ h[1] = (IF r = 1 THEN g[1] + 1 ELSE g[1]) /\ g[1] \in Nat
        /\ h[2] = (IF r = 2 THEN g[2] + 1 ELSE g[2]) /\ g[2] \in Nat
        /\ h[3] = (IF r = 3 THEN g[3] + 1 ELSE g[3]) /\ g[3] \in Nat
    BY <2>2 DEF Rewards
  <2>4. picks[key] \in Nat
    BY <1>1 DEF BanditInv
  <2>5. /\ arm'[key].alpha = IF r > 0 THEN st.alpha + r ELSE st.alpha
        /\ arm'[key].beta = IF r > 0 THEN st.beta ELSE st.beta - r
        /\ arm'[key].n_rewards = IF r > 0 THEN st.n_rewards + 1 ELSE st.n_rewards
        /\ arm'[key].n_pulls = st.n_pulls + 1
    BY <1>2, <2>1 DEF Updated, Counters
  <2>6. Count(key)' = h[-2] + h[-1] + h[0] + h[1] + h[2] + h[3]
    BY DEF Count
  <2> HIDE DEF g, h, st
  <2>7. r \in {-2, -1, 0, 1, 2, 3}
    BY DEF Rewards
  <2>8. arm'[key].alpha = 1 + h[1] + 2 * h[2] + 3 * h[3]
    <3>1. CASE r > 0
      BY <2>1, <2>3, <2>5, <2>7, <3>1
    <3>2. CASE ~(r > 0)
      BY <2>1, <2>3, <2>5, <2>7, <3>2
    <3> QED BY <3>1, <3>2
  <2>9. arm'[key].beta = 1 + h[-1] + 2 * h[-2]
    BY <2>1, <2>3, <2>5, <2>7
  <2>10. arm'[key].n_rewards = h[1] + h[2] + h[3]
    BY <2>1, <2>3, <2>5, <2>7
  <2>11. arm'[key].n_pulls = picks'[key] + Count(key)'
    BY <1>1, <2>1, <2>3, <2>4, <2>5, <2>6, <2>7
  <2> QED BY <2>8, <2>9, <2>10, <2>11 DEF h
<1>6. PosteriorIsFeedback'
  BY <1>4, <1>5 DEF PosteriorIsFeedback
<1> QED BY <1>1, <1>2, <1>3, <1>6 DEF BanditInv

LEMMA BanditInvariance == BanditSpec => []BanditInv
<1>1. BanditInit => BanditInv
  BY DEF BanditInit, BanditInv, PosteriorIsFeedback, Count, Counters, ArmState, Rewards
<1>2. BanditInv /\ [BanditNext]_banditVars => BanditInv'
  <2> SUFFICES ASSUME BanditInv, [BanditNext]_banditVars PROVE BanditInv'
    OBVIOUS
  <2>1. CASE UNCHANGED banditVars
    BY <2>1 DEF banditVars, BanditInv, PosteriorIsFeedback, Count
  <2> QED BY <2>1, SelectInv, RewardInv, RewardsAreInRange DEF BanditNext
<1> QED BY <1>1, <1>2, PTL DEF BanditSpec

\* The posterior of every arm is the sum of the feedback, in any order of calls
\* (select_weights, record_reward)
THEOREM PosteriorFromFeedback == BanditSpec => []PosteriorIsFeedback
<1>1. BanditInv => PosteriorIsFeedback
  BY DEF BanditInv
<1> QED BY <1>1, BanditInvariance, PTL

-----------------------------------------------------------------------------
(* Bootstrap                                                               *)

Tables == ChatDdl \cup SqlFiles

\* A function on 1..n is a sequence of anything its values are in
LEMMA FunctionIsSeq ==
  ASSUME NEW n \in Nat, NEW f, f = [i \in 1..n |-> f[i]], NEW S, \A i \in 1..n : f[i] \in S
  PROVE  f \in Seq(S) /\ Len(f) = n
<1>1. f \in [1..n -> S]
  OBVIOUS
<1>2. f \in Seq(S)
  BY <1>1, SeqDef
<1> QED BY <1>1, <1>2, LenProperties

LEMMA NodeConstraints ==
  /\ NODE_CONSTRAINTS = [i \in 1..12 |-> NODE_CONSTRAINTS[i]]
  /\ \A i \in 1..12 : /\ NODE_CONSTRAINTS[i].kind = "object"
                      /\ NODE_CONSTRAINTS[i].name \notin Tables
  /\ NODE_CONSTRAINTS[10] = Constraint("Category")
  /\ NODE_CONSTRAINTS[11] = Constraint("Emotion")
<1> DEFINE names == <<"Movie", "Person", "User", "Feed", "Comment", "Genre", "Theme",
                      "Mood", "Keyword", "Category", "Emotion", "Country">>
<1>1. NODE_CONSTRAINTS = [i \in DOMAIN names |-> Constraint(names[i])]
  BY DEF NODE_CONSTRAINTS, All
<1>2. DOMAIN names = 1..12
  OBVIOUS
<1>3. names[10] = "Category" /\ names[11] = "Emotion"
  OBVIOUS
<1>4. \A i \in 1..12 : names[i] \notin Tables
  BY DEF Tables, ChatDdl, SqlFiles
<1> HIDE DEF names
<1> QED BY <1>1, <1>2, <1>3, <1>4 DEF Constraint

LEMMA PropertyIndexes ==
  /\ NODE_PROPERTY_INDEXES = [i \in 1..6 |-> NODE_PROPERTY_INDEXES[i]]
  /\ \A i \in 1..6 : /\ NODE_PROPERTY_INDEXES[i].kind = "object"
                     /\ NODE_PROPERTY_INDEXES[i].name \notin Tables
<1> DEFINE names == <<"movie_year_idx", "movie_country_idx", "feed_created_idx",
                      "comment_created_idx", "user_created_idx", "feed_sentiment_idx">>
<1>1. NODE_PROPERTY_INDEXES = [i \in DOMAIN names |-> Index(names[i])]
  BY DEF NODE_PROPERTY_INDEXES, All
<1>2. DOMAIN names = 1..6
  OBVIOUS
<1>3. \A i \in 1..6 : names[i] \notin Tables
  BY DEF Tables, ChatDdl, SqlFiles
<1> HIDE DEF names
<1> QED BY <1>1, <1>2, <1>3 DEF Index

LEMMA FulltextIndexes ==
  /\ FULLTEXT_INDEXES = [i \in 1..4 |-> FULLTEXT_INDEXES[i]]
  /\ \A i \in 1..4 : /\ FULLTEXT_INDEXES[i].kind = "object"
                     /\ FULLTEXT_INDEXES[i].name \notin Tables
<1> DEFINE names == <<"movie_text_ft", "feed_text_ft", "comment_text_ft", "keyword_text_ft">>
<1>1. FULLTEXT_INDEXES = [i \in DOMAIN names |-> Index(names[i])]
  BY DEF FULLTEXT_INDEXES, All
<1>2. DOMAIN names = 1..4
  OBVIOUS
<1>3. \A i \in 1..4 : names[i] \notin Tables
  BY DEF Tables, ChatDdl, SqlFiles
<1> HIDE DEF names
<1> QED BY <1>1, <1>2, <1>3 DEF Index

\* What the proofs need of the order of the statements
LEMMA StatementFacts ==
  /\ DOMAIN Statements = 1..29 /\ Len(Statements) = 29
  /\ \A i \in 1..22 : Statements[i].kind = "object" /\ Statements[i].name \notin Tables
  /\ Statements[10] = Constraint("Category") /\ Statements[11] = Constraint("Emotion")
  /\ \A i \in 23..25 : Statements[i] = Vector(VectorIndexes[i - 22])
  /\ Statements[26] = Seeding("Category") /\ Statements[27] = Seeding("Emotion")
  /\ Statements[28] = Ddl(ChatDdl) /\ Statements[29] = Ddl(SqlFiles)
<1> DEFINE a == NODE_CONSTRAINTS
           b == NODE_PROPERTY_INDEXES
           c == FULLTEXT_INDEXES
           d == All(Vector, VectorIndexes)
           e == SEED_MERGE
           f == <<Ddl(ChatDdl), Ddl(SqlFiles)>>
           S == {a[i] : i \in 1..12} \cup {b[i] : i \in 1..6} \cup {c[i] : i \in 1..4}
                  \cup {d[i] : i \in 1..3} \cup {e[i] : i \in 1..2} \cup {f[i] : i \in 1..2}
<1>1. Statements = ((((a \o b) \o c) \o d) \o e) \o f
  BY DEF Statements
<1>2. d = [i \in 1..3 |-> Vector(VectorIndexes[i])]
  BY DEF All, VectorIndexes
<1>3. e = [i \in 1..2 |-> e[i]] /\ e[1] = Seeding("Category") /\ e[2] = Seeding("Emotion")
  BY DEF SEED_MERGE, All
<1>4. f = [i \in 1..2 |-> f[i]] /\ f[1] = Ddl(ChatDdl) /\ f[2] = Ddl(SqlFiles)
  OBVIOUS
<1> HIDE DEF d, e, f
<1>4a. /\ \A i \in 1..12 : a[i] \in S
       /\ \A i \in 1..6 : b[i] \in S
       /\ \A i \in 1..4 : c[i] \in S
       /\ \A i \in 1..3 : d[i] \in S
       /\ \A i \in 1..2 : e[i] \in S /\ f[i] \in S
  <2> HIDE DEF a, b, c
  <2> QED OBVIOUS
<1>4b. /\ a = [i \in 1..12 |-> a[i]] /\ b = [i \in 1..6 |-> b[i]] /\ c = [i \in 1..4 |-> c[i]]
  BY NodeConstraints, PropertyIndexes, FulltextIndexes
<1>4c. d = [i \in 1..3 |-> d[i]]
  BY <1>2
<1> HIDE DEF S, a, b, c
<1>5. a \in Seq(S) /\ b \in Seq(S) /\ c \in Seq(S) /\ d \in Seq(S) /\ e \in Seq(S) /\ f \in Seq(S)
  <2>1. a \in Seq(S) /\ b \in Seq(S) /\ c \in Seq(S)
    BY <1>4a, <1>4b, FunctionIsSeq
  <2>2. d \in Seq(S) /\ e \in Seq(S) /\ f \in Seq(S)
    BY <1>3, <1>4, <1>4a, <1>4c, FunctionIsSeq
  <2> QED BY <2>1, <2>2
<1>6. Len(a) = 12 /\ Len(b) = 6 /\ Len(c) = 4 /\ Len(d) = 3 /\ Len(e) = 2 /\ Len(f) = 2
  <2>1. Len(a) = 12 /\ Len(b) = 6 /\ Len(c) = 4
    BY <1>4a, <1>4b, FunctionIsSeq
  <2>2. Len(d) = 3 /\ Len(e) = 2 /\ Len(f) = 2
    BY <1>3, <1>4, <1>4a, <1>4c, FunctionIsSeq
  <2> QED BY <2>1, <2>2
<1> DEFINE ab == a \o b
           abc == ab \o c
           abcd == abc \o d
           abcde == abcd \o e
           abcdef == abcde \o f
<1>7. ab \in Seq(S) /\ abc \in Seq(S) /\ abcd \in Seq(S) /\ abcde \in Seq(S)
      /\ abcdef \in Seq(S)
  BY <1>5, ConcatProperties
<1>7a. /\ Len(ab) = Len(a) + Len(b)
       /\ \A i \in 1..Len(a) : ab[i] = a[i]
       /\ \A i \in Len(a)+1..Len(a)+Len(b) : ab[i] = b[i - Len(a)]
  <2> HIDE DEF abc, abcd, abcde
  <2> QED BY <1>5, <1>7, Part
<1>8a. /\ Len(abc) = Len(ab) + Len(c)
       /\ \A i \in 1..Len(ab) : abc[i] = ab[i]
       /\ \A i \in Len(ab)+1..Len(ab)+Len(c) : abc[i] = c[i - Len(ab)]
  <2> HIDE DEF ab, abcd, abcde
  <2> QED BY <1>5, <1>7, Part
<1>9a. /\ Len(abcd) = Len(abc) + Len(d)
       /\ \A i \in 1..Len(abc) : abcd[i] = abc[i]
       /\ \A i \in Len(abc)+1..Len(abc)+Len(d) : abcd[i] = d[i - Len(abc)]
  <2> HIDE DEF ab, abc, abcde
  <2> QED BY <1>5, <1>7, Part
<1>10a. /\ Len(abcde) = Len(abcd) + Len(e)
        /\ \A i \in 1..Len(abcd) : abcde[i] = abcd[i]
        /\ \A i \in Len(abcd)+1..Len(abcd)+Len(e) : abcde[i] = e[i - Len(abcd)]
  <2> HIDE DEF ab, abc, abcd
  <2> QED BY <1>5, <1>7, Part
<1>11a. /\ Len(abcdef) = Len(abcde) + Len(f)
        /\ \A i \in 1..Len(abcde) : abcdef[i] = abcde[i]
        /\ \A i \in Len(abcde)+1..Len(abcde)+Len(f) : abcdef[i] = f[i - Len(abcde)]
  <2> HIDE DEF ab, abc, abcd, abcde
  <2> QED BY <1>5, <1>7, Part
<1> HIDE DEF ab, abc, abcd, abcde, abcdef
<1>7b. /\ Len(ab) = 18
       /\ \A i \in 1..12 : ab[i] = a[i]
       /\ \A i \in 13..18 : ab[i] = b[i - 12]
  BY <1>6, <1>7a
<1>8b. /\ Len(abc) = 22
       /\ \A i \in 1..18 : abc[i] = ab[i]
       /\ \A i \in 19..22 : abc[i] = c[i - 18]
  BY <1>6, <1>7b, <1>8a
<1>9b. /\ Len(abcd) = 25
       /\ \A i \in 1..22 : abcd[i] = abc[i]
       /\ \A i \in 23..25 : abcd[i] = d[i - 22]
  BY <1>6, <1>8b, <1>9a
<1>10b. /\ Len(abcde) = 27
        /\ \A i \in 1..25 : abcde[i] = abcd[i]
        /\ \A i \in 26..27 : abcde[i] = e[i - 25]
  BY <1>6, <1>9b, <1>10a
<1>11b. /\ Len(abcdef) = 29
        /\ \A i \in 1..27 : abcdef[i] = abcde[i]
        /\ \A i \in 28..29 : abcdef[i] = f[i - 27]
  BY <1>6, <1>10b, <1>11a
<1>12. Statements = abcdef
  BY <1>1 DEF abcdef, abcde, abcd, abc, ab, a, b, c
<1>13. \A i \in 1..22 : Statements[i] = abc[i]
  BY <1>9b, <1>10b, <1>11b, <1>12
<1>14. \A i \in 1..22 : Statements[i].kind = "object" /\ Statements[i].name \notin Tables
  <2> SUFFICES ASSUME NEW i \in 1..22
               PROVE  Statements[i].kind = "object" /\ Statements[i].name \notin Tables
    OBVIOUS
  <2>1. CASE i \in 1..12
    <3>1. Statements[i] = a[i]
      BY <1>7b, <1>8b, <1>13, <2>1
    <3> QED BY <2>1, <3>1, NodeConstraints DEF a
  <2>2. CASE i \in 13..18
    <3>1. Statements[i] = b[i - 12] /\ i - 12 \in 1..6
      BY <1>7b, <1>8b, <1>13, <2>2
    <3> QED BY <3>1, PropertyIndexes DEF b
  <2>3. CASE i \in 19..22
    <3>1. Statements[i] = c[i - 18] /\ i - 18 \in 1..4
      BY <1>8b, <1>13, <2>3
    <3> QED BY <3>1, FulltextIndexes DEF c
  <2> QED BY <2>1, <2>2, <2>3
<1>15. Statements[10] = Constraint("Category") /\ Statements[11] = Constraint("Emotion")
  BY <1>7b, <1>8b, <1>13, NodeConstraints DEF a
<1>16. \A i \in 23..25 : Statements[i] = Vector(VectorIndexes[i - 22])
  <2> SUFFICES ASSUME NEW i \in 23..25 PROVE Statements[i] = Vector(VectorIndexes[i - 22])
    OBVIOUS
  <2>1. Statements[i] = d[i - 22] /\ i - 22 \in 1..3
    BY <1>9b, <1>10b, <1>11b, <1>12
  <2> QED BY <1>2, <2>1
<1>17. Statements[26] = Seeding("Category") /\ Statements[27] = Seeding("Emotion")
  BY <1>3, <1>10b, <1>11b, <1>12
<1>18. Statements[28] = Ddl(ChatDdl) /\ Statements[29] = Ddl(SqlFiles)
  BY <1>4, <1>11b, <1>12
<1> QED BY <1>11b, <1>12, <1>14, <1>15, <1>16, <1>17, <1>18

\* The statements before the n-th are done
Reached(n, made, dims, nodes) ==
  /\ \A i \in 1..22 : i < n => Statements[i].name \in made
  /\ \A i \in 23..25 : i < n => dims[VectorIndexes[i - 22]] # 0
  /\ 26 < n => nodes["Category"] >= 1
  /\ 27 < n => nodes["Emotion"] >= 1
  /\ 28 < n => ChatDdl \subseteq made
  /\ 29 < n => SqlFiles \subseteq made

Indexes == ToSet(VectorIndexes)
Scripts == [pc : 1..29, dim : Dims, missed : {FALSE}]

\* A running script has done the statements before its own, however the others
\* run; it never has a MERGE that missed, because its constraints were first.
BootstrapInv ==
  /\ seeds \in [Labels -> 0..1]
  /\ vectorDim \in [Indexes -> {0} \cup Dims]
  /\ script \in [Operators -> {NotRunning} \cup Scripts]
  /\ completed \in BOOLEAN
  /\ \A o \in Operators :
       script[o] # NotRunning => Reached(script[o].pc, objects, vectorDim, seeds)
  /\ completed => Reached(30, objects, vectorDim, seeds)
  /\ objects \cap Tables # {} => Reached(28, objects, vectorDim, seeds)

\* What is done stays done
Grows == /\ objects \subseteq objects'
         /\ \A i \in Indexes : vectorDim[i] # 0 => vectorDim'[i] # 0
         /\ \A l \in Labels : seeds'[l] >= seeds[l]

LEMMA IndexNames == \A i \in 1..3 : VectorIndexes[i] \in Indexes
BY DEF Indexes, ToSet, VectorIndexes

LEMMA StaysReached ==
  ASSUME BootstrapInv, Grows, seeds' \in [Labels -> 0..1], NEW n \in 1..30,
         Reached(n, objects, vectorDim, seeds)
  PROVE  Reached(n, objects', vectorDim', seeds')
<1>1. \A i \in 1..22 : i < n => Statements[i].name \in objects'
  BY DEF Reached, Grows
<1>2. \A i \in 23..25 : i < n => vectorDim'[VectorIndexes[i - 22]] # 0
  BY IndexNames DEF Reached, Grows
<1>3. \A l \in Labels : seeds[l] \in Int /\ seeds'[l] \in Int /\ seeds'[l] >= seeds[l]
  BY DEF Grows, BootstrapInv
<1>4. (26 < n => seeds'["Category"] >= 1) /\ (27 < n => seeds'["Emotion"] >= 1)
  BY <1>3 DEF Reached, Labels
<1>5. (28 < n => ChatDdl \subseteq objects') /\ (29 < n => SqlFiles \subseteq objects')
  BY DEF Reached, Grows
<1> QED BY <1>1, <1>2, <1>4, <1>5 DEF Reached

LEMMA NextScript ==
  ASSUME NEW r \in Scripts, r.pc # 29
  PROVE  /\ [r EXCEPT !.pc = @ + 1, !.missed = FALSE] \in Scripts
         /\ [r EXCEPT !.pc = @ + 1, !.missed = FALSE].pc = r.pc + 1
<1> DEFINE q == [r EXCEPT !.pc = @ + 1, !.missed = FALSE]
<1>1. r = [pc |-> r.pc, dim |-> r.dim, missed |-> r.missed] /\ r.pc \in 1..29 /\ r.dim \in Dims
  BY DEF Scripts
<1>2. q = [pc |-> r.pc + 1, dim |-> r.dim, missed |-> FALSE]
  <2>1. DOMAIN r = {"pc", "dim", "missed"}
    BY <1>1
  <2>2. DOMAIN q = {"pc", "dim", "missed"} /\ q = [k \in DOMAIN r |-> q[k]]
    BY <2>1
  <2>3. q.pc = r.pc + 1 /\ q.dim = r.dim /\ q.missed = FALSE
    BY <2>1
  <2> HIDE DEF q
  <2> QED BY <2>1, <2>2, <2>3
<1>3. r.pc + 1 \in 1..29
  BY <1>1
<1> HIDE DEF q
<1>4. q \in Scripts /\ q.pc = r.pc + 1
  BY <1>1, <1>2, <1>3 DEF Scripts
<1> QED BY <1>4 DEF q

\* A statement done, and its script advanced
LEMMA Advancing ==
  ASSUME BootstrapInv, NEW o \in Operators, script[o].pc # 0, Grows,
         Reached(script[o].pc + 1, objects', vectorDim', seeds'),
         seeds' \in [Labels -> 0..1], vectorDim' \in [Indexes -> {0} \cup Dims],
         objects' \cap Tables # {} => Reached(28, objects', vectorDim', seeds'),
         Advance(o)
  PROVE  BootstrapInv'
<1>1. script[o] \in Scripts
  BY DEF BootstrapInv, NotRunning
<1>2. Len(Statements) = 29
  BY StatementFacts
<1>3. CASE script[o].pc = 29
  <2>1. script' = [script EXCEPT ![o] = NotRunning] /\ completed' = TRUE
    BY <1>2, <1>3 DEF Advance
  <2>2. \A p \in Operators : p # o => script'[p] = script[p]
    BY <2>1 DEF BootstrapInv
  <2>3. ASSUME NEW p \in Operators, script'[p] # NotRunning
        PROVE  Reached(script'[p].pc, objects', vectorDim', seeds')
    <3>1. script'[p] = script[p] /\ p # o
      BY <2>1, <2>3 DEF BootstrapInv
    <3>2. script[p] \in Scripts /\ Reached(script[p].pc, objects, vectorDim, seeds)
      BY <2>3, <3>1 DEF BootstrapInv
    <3>3. script[p].pc \in 1..30
      <4>1. script[p].pc \in 1..29
        BY <3>2 DEF Scripts
      <4> QED BY <4>1
    <3> QED BY <3>1, <3>2, <3>3, StaysReached
  <2>4. script' \in [Operators -> {NotRunning} \cup Scripts]
    BY <2>1 DEF BootstrapInv
  <2>5. Reached(30, objects', vectorDim', seeds')
    BY <1>3
  <2> QED BY <2>1, <2>3, <2>4, <2>5 DEF BootstrapInv
<1>4. CASE script[o].pc # 29
  <2>1. script' = [script EXCEPT ![o].pc = @ + 1, ![o].missed = FALSE] /\ completed' = completed
    BY <1>2, <1>4 DEF Advance
  <2>2. /\ script'[o] = [script[o] EXCEPT !.pc = @ + 1, !.missed = FALSE]
        /\ \A p \in Operators : p # o => script'[p] = script[p]
    BY <2>1 DEF BootstrapInv
  <2>3. script'[o] \in Scripts /\ script'[o].pc = script[o].pc + 1
    BY <1>1, <1>4, <2>2, NextScript
  <2>4. ASSUME NEW p \in Operators, script'[p] # NotRunning
        PROVE  Reached(script'[p].pc, objects', vectorDim', seeds')
    <3>1. CASE p = o
      BY <2>3, <3>1
    <3>2. CASE p # o
      <4>1. script'[p] = script[p]
        BY <2>2, <3>2
      <4>2. script[p] \in Scripts /\ Reached(script[p].pc, objects, vectorDim, seeds)
        BY <2>4, <4>1 DEF BootstrapInv
      <4>3. script[p].pc \in 1..30
        <5>1. script[p].pc \in 1..29
          BY <4>2 DEF Scripts
        <5> QED BY <5>1
      <4> QED BY <4>1, <4>2, <4>3, StaysReached
    <3> QED BY <3>1, <3>2
  <2>5. script' \in [Operators -> {NotRunning} \cup Scripts]
    BY <2>1, <2>2, <2>3 DEF BootstrapInv
  <2>6. completed' => Reached(30, objects', vectorDim', seeds')
    <3>1. completed' => Reached(30, objects, vectorDim, seeds)
      BY <2>1 DEF BootstrapInv
    <3> QED BY <3>1, StaysReached
  <2>7. completed' \in BOOLEAN
    BY <2>1 DEF BootstrapInv
  <2> QED BY <2>4, <2>5, <2>6, <2>7 DEF BootstrapInv
<1> QED BY <1>3, <1>4

\* A script that stops leaves what it did
LEMMA Stopping ==
  ASSUME BootstrapInv, NEW o \in Operators, script' = [script EXCEPT ![o] = NotRunning],
         UNCHANGED <<objects, vectorDim, seeds, completed>>
  PROVE  BootstrapInv'
<1>1. script' \in [Operators -> {NotRunning} \cup Scripts]
  BY DEF BootstrapInv
<1>2. ASSUME NEW p \in Operators, script'[p] # NotRunning
      PROVE  Reached(script'[p].pc, objects', vectorDim', seeds')
  <2>1. script'[p] = script[p]
    BY <1>2 DEF BootstrapInv
  <2> QED BY <1>2, <2>1 DEF BootstrapInv
<1> QED BY <1>1, <1>2 DEF BootstrapInv

\* Which statement is of which kind
LEMMA Kinds ==
  ASSUME BootstrapInv, NEW o \in Operators, script[o].pc # 0
  PROVE  /\ script[o] \in Scripts /\ script[o] # NotRunning
         /\ Reached(script[o].pc, objects, vectorDim, seeds)
         /\ Running(o, "object") => script[o].pc \in 1..22
         /\ Running(o, "vector") => script[o].pc \in 23..25
         /\ Running(o, "seed") => script[o].pc \in 26..27
         /\ Running(o, "ddl") => script[o].pc \in 28..29
<1>1. script[o] \in Scripts /\ script[o] # NotRunning
  BY DEF BootstrapInv, NotRunning
<1>2. Reached(script[o].pc, objects, vectorDim, seeds)
  BY <1>1 DEF BootstrapInv
<1>3. /\ \A i \in 1..22 : Statements[i].kind = "object"
      /\ \A i \in 23..25 : Statements[i].kind = "vector"
      /\ \A i \in 26..27 : Statements[i].kind = "seed"
      /\ \A i \in 28..29 : Statements[i].kind = "ddl"
  BY StatementFacts DEF Vector, Seeding, Ddl
<1>4. script[o].pc \in 1..29
  BY <1>1 DEF Scripts
<1>5. script[o].pc \in 1..22 \/ script[o].pc \in 23..25 \/ script[o].pc \in 26..27 \/ script[o].pc \in 28..29
  BY <1>4
<1> QED BY <1>1, <1>2, <1>3, <1>5 DEF Running, Current

LEMMA CreatedObject ==
  ASSUME BootstrapInv, NEW o \in Operators, CreateObject(o)
  PROVE  BootstrapInv'
<1> DEFINE n == Current(o).name
<1>1. script[o].pc # 0 /\ script[o].pc \in 1..22
  BY Kinds DEF CreateObject, Running
<1>2. n \notin Tables /\ n = Statements[script[o].pc].name
  BY <1>1, StatementFacts DEF Current
<1>3. UNCHANGED <<vectorDim, seeds>>
  BY DEF CreateObject
<1>4. CASE n \in Labels /\ n \notin objects /\ seeds[n] > 1
  BY <1>4, <1>3, Stopping DEF CreateObject
<1>5. CASE ~(n \in Labels /\ n \notin objects /\ seeds[n] > 1)
  <2>1. objects' = objects \cup {n} /\ Advance(o)
    BY <1>5 DEF CreateObject
  <2> HIDE DEF n
  <2>2. Grows
    BY <1>3, <2>1 DEF Grows, BootstrapInv
  <2>3. seeds' \in [Labels -> 0..1] /\ vectorDim' \in [Indexes -> {0} \cup Dims]
    BY <1>3 DEF BootstrapInv
  <2>4. Reached(script[o].pc, objects', vectorDim', seeds')
    BY <1>1, <2>2, <2>3, Kinds, StaysReached
  <2>5. Reached(script[o].pc + 1, objects', vectorDim', seeds')
    <3>1. \A i \in 1..22 : i < script[o].pc + 1 => i < script[o].pc \/ i = script[o].pc
      BY <1>1
    <3>2. \A i \in 1..22 : i < script[o].pc + 1 => Statements[i].name \in objects'
      BY <1>2, <2>1, <2>4, <3>1 DEF Reached
    <3> QED BY <1>1, <3>2 DEF Reached
  <2>6. objects' \cap Tables # {} => Reached(28, objects', vectorDim', seeds')
    <3>1. objects' \cap Tables = objects \cap Tables
      BY <1>2, <2>1
    <3> QED BY <3>1, <2>2, <2>3, StaysReached DEF BootstrapInv
  <2> QED BY <1>1, <2>1, <2>2, <2>3, <2>5, <2>6, Advancing
<1> QED BY <1>4, <1>5

LEMMA CreatedVector ==
  ASSUME BootstrapInv, NEW o \in Operators, CreateVectorIndex(o)
  PROVE  BootstrapInv'
<1> DEFINE n == Current(o).name
<1>1. script[o].pc # 0 /\ script[o].pc \in 23..25 /\ script[o] \in Scripts
  BY Kinds DEF CreateVectorIndex, Running
<1>2. n = VectorIndexes[script[o].pc - 22] /\ n \in Indexes
  <2>1. n = VectorIndexes[script[o].pc - 22]
    BY <1>1, StatementFacts DEF Current, Vector
  <2> QED BY <1>1, <2>1, IndexNames
<1>3. /\ vectorDim' = [vectorDim EXCEPT ![n] = CreateIfNotExists(@, script[o].dim)]
      /\ UNCHANGED <<objects, seeds>> /\ Advance(o)
  BY DEF CreateVectorIndex
<1> HIDE DEF n
<1>4. script[o].dim \in Dims /\ script[o].dim # 0
  BY <1>1, BootstrapAssumption DEF Scripts
<1>5. vectorDim' \in [Indexes -> {0} \cup Dims] /\ vectorDim'[n] # 0
  BY <1>2, <1>3, <1>4 DEF BootstrapInv, CreateIfNotExists
<1>6. Grows
  <2>1. \A i \in Indexes : vectorDim[i] # 0 => vectorDim'[i] # 0
    BY <1>2, <1>3, <1>5 DEF BootstrapInv
  <2> QED BY <1>3, <2>1 DEF Grows, BootstrapInv
<1>7. seeds' \in [Labels -> 0..1]
  BY <1>3 DEF BootstrapInv
<1>8. Reached(script[o].pc, objects', vectorDim', seeds')
  BY <1>1, <1>6, <1>7, Kinds, StaysReached
<1>9. Reached(script[o].pc + 1, objects', vectorDim', seeds')
  <2>1. \A i \in 1..22 : Statements[i].name \in objects'
    BY <1>1, <1>8 DEF Reached
  <2>2. \A i \in 23..25 : i < script[o].pc + 1 => i < script[o].pc \/ i = script[o].pc
    BY <1>1
  <2>3. \A i \in 23..25 : i < script[o].pc + 1 => vectorDim'[VectorIndexes[i - 22]] # 0
    BY <1>2, <1>5, <1>8, <2>2 DEF Reached
  <2> QED BY <1>1, <2>1, <2>3 DEF Reached
<1>10. objects' \cap Tables # {} => Reached(28, objects', vectorDim', seeds')
  BY <1>3, <1>6, <1>7, StaysReached DEF BootstrapInv
<1> QED BY <1>1, <1>3, <1>5, <1>6, <1>7, <1>9, <1>10, Advancing

LEMMA MergedSeed ==
  ASSUME BootstrapInv, NEW o \in Operators, MergeSeed(o)
  PROVE  BootstrapInv'
<1> DEFINE l == Current(o).name
<1>1. script[o].pc # 0 /\ script[o].pc \in 26..27 /\ script[o] \in Scripts
      /\ Reached(script[o].pc, objects, vectorDim, seeds)
  BY Kinds DEF MergeSeed, Running
<1>2. \/ script[o].pc = 26 /\ l = "Category"
      \/ script[o].pc = 27 /\ l = "Emotion"
  BY <1>1, StatementFacts DEF Current, Seeding
<1>3. l \in Labels /\ l \in objects
  <2>1. "Category" \in objects /\ "Emotion" \in objects
    BY <1>1, StatementFacts DEF Reached, Constraint
  <2> QED BY <1>2, <2>1 DEF Labels
<1>4. UNCHANGED <<objects, vectorDim>> /\ ~script[o].missed
  BY <1>1 DEF MergeSeed, Scripts
<1>5. /\ Advance(o)
      /\ \/ seeds[l] > 0 /\ UNCHANGED seeds
         \/ seeds[l] = 0 /\ seeds' = [seeds EXCEPT ![l] = 1]
  <2>1. seeds[l] > 0 \/ seeds[l] = 0
    BY <1>3 DEF BootstrapInv
  <2> QED BY <1>3, <1>4, <2>1 DEF MergeSeed
<1> HIDE DEF l
<1>6. seeds' \in [Labels -> 0..1] /\ seeds'[l] >= 1
  BY <1>3, <1>5 DEF BootstrapInv
<1>7. Grows
  <2>1. \A k \in Labels : seeds'[k] >= seeds[k]
    BY <1>3, <1>5 DEF BootstrapInv
  <2> QED BY <1>4, <2>1 DEF Grows
<1>8. Reached(script[o].pc, objects', vectorDim', seeds')
  BY <1>1, <1>6, <1>7, StaysReached
<1>9. Reached(script[o].pc + 1, objects', vectorDim', seeds')
  <2>1. (\A i \in 1..22 : Statements[i].name \in objects')
        /\ (\A i \in 23..25 : vectorDim'[VectorIndexes[i - 22]] # 0)
    BY <1>1, <1>8 DEF Reached
  <2>2. seeds'["Category"] >= 1 /\ (script[o].pc = 27 => seeds'["Emotion"] >= 1)
    BY <1>2, <1>6, <1>8 DEF Reached
  <2> QED BY <1>1, <2>1, <2>2 DEF Reached
<1>10. objects' \cap Tables # {} => Reached(28, objects', vectorDim', seeds')
  BY <1>4, <1>6, <1>7, StaysReached DEF BootstrapInv
<1>11. vectorDim' \in [Indexes -> {0} \cup Dims]
  BY <1>4 DEF BootstrapInv
<1> QED BY <1>1, <1>5, <1>6, <1>7, <1>9, <1>10, <1>11, Advancing

LEMMA RanDdl ==
  ASSUME BootstrapInv, NEW o \in Operators, RunDdl(o)
  PROVE  BootstrapInv'
<1>1. script[o].pc # 0 /\ script[o].pc \in 28..29
      /\ Reached(script[o].pc, objects, vectorDim, seeds)
  BY Kinds DEF RunDdl, Running
<1>2. /\ objects' = objects \cup Current(o).name /\ Advance(o)
      /\ UNCHANGED <<vectorDim, seeds>>
  BY DEF RunDdl
<1>3. \/ script[o].pc = 28 /\ Current(o).name = ChatDdl
      \/ script[o].pc = 29 /\ Current(o).name = SqlFiles
  BY <1>1, StatementFacts DEF Current, Ddl
<1>4. Grows
  BY <1>2 DEF Grows, BootstrapInv
<1>5. seeds' \in [Labels -> 0..1] /\ vectorDim' \in [Indexes -> {0} \cup Dims]
  BY <1>2 DEF BootstrapInv
<1>6. Reached(script[o].pc, objects', vectorDim', seeds')
  BY <1>1, <1>4, <1>5, StaysReached
<1>7. Reached(script[o].pc + 1, objects', vectorDim', seeds')
  BY <1>1, <1>2, <1>3, <1>6 DEF Reached
<1>8. Reached(28, objects', vectorDim', seeds')
  BY <1>1, <1>6 DEF Reached
<1> QED BY <1>1, <1>2, <1>4, <1>5, <1>7, <1>8, Advancing

LEMMA Started ==
  ASSUME BootstrapInv, NEW o \in Operators, NEW dim \in Dims, main(o, dim)
  PROVE  BootstrapInv'
<1>1. /\ script' = [script EXCEPT ![o] = [pc |-> 1, dim |-> dim, missed |-> FALSE]]
      /\ UNCHANGED <<objects, vectorDim, seeds, completed>>
  BY DEF main
<1>2. [pc |-> 1, dim |-> dim, missed |-> FALSE] \in Scripts
  BY DEF Scripts
<1>3. script' \in [Operators -> {NotRunning} \cup Scripts]
  BY <1>1, <1>2 DEF BootstrapInv
<1>4. Reached(1, objects, vectorDim, seeds)
  BY DEF Reached
<1>5. ASSUME NEW p \in Operators, script'[p] # NotRunning
      PROVE  Reached(script'[p].pc, objects', vectorDim', seeds')
  <2>1. CASE p = o
    <3>1. script'[o].pc = 1
      BY <1>1 DEF BootstrapInv
    <3> QED BY <1>1, <1>4, <2>1, <3>1
  <2>2. CASE p # o
    BY <1>1, <1>5, <2>2 DEF BootstrapInv
  <2> QED BY <2>1, <2>2
<1> QED BY <1>1, <1>3, <1>5 DEF BootstrapInv

LEMMA BootstrapInvariance == BootstrapSpec => []BootstrapInv
<1>1. BootstrapInit => BootstrapInv
  <2> SUFFICES ASSUME BootstrapInit PROVE BootstrapInv
    OBVIOUS
  <2>1. seeds \in [Labels -> 0..1]
    BY DEF BootstrapInit
  <2>2. vectorDim = [i \in Indexes |-> 0]
    BY DEF BootstrapInit, Indexes
  <2>3. vectorDim \in [Indexes -> {0} \cup Dims]
    BY <2>2
  <2> QED BY <2>1, <2>3 DEF BootstrapInit, BootstrapInv
<1>2. BootstrapInv /\ [BootstrapNext]_bootstrapVars => BootstrapInv'
  <2> SUFFICES ASSUME BootstrapInv, [BootstrapNext]_bootstrapVars PROVE BootstrapInv'
    OBVIOUS
  <2>1. CASE BootstrapNext
    <3> PICK o \in Operators : \/ \E dim \in Dims : main(o, dim)
                               \/ CreateObject(o) \/ CreateVectorIndex(o) \/ MergeSeed(o)
                               \/ RunDdl(o) \/ Killed(o)
      BY <2>1 DEF BootstrapNext
    <3>1. CASE Killed(o)
      BY <3>1, Stopping DEF Killed
    <3> QED BY <3>1, Started, CreatedObject, CreatedVector, MergedSeed, RanDdl
  <2>2. CASE UNCHANGED bootstrapVars
    BY <2>2 DEF bootstrapVars, BootstrapInv
  <2> QED BY <2>1, <2>2
<1> QED BY <1>1, <1>2, PTL DEF BootstrapSpec

\* No seed value gets two nodes, however many scripts run, are killed and run
\* again (init_schema)
THEOREM SeedsUnique == BootstrapSpec => []SeedsAreUnique
<1>1. BootstrapInv => SeedsAreUnique
  BY DEF BootstrapInv, SeedsAreUnique
<1> QED BY <1>1, BootstrapInvariance, PTL

LEMMA WholeGraph ==
  ASSUME BootstrapInv, Reached(28, objects, vectorDim, seeds)
  PROVE  /\ \A i \in DOMAIN Statements :
              Statements[i].kind = "object" => Statements[i].name \in objects
         /\ \A i \in DOMAIN vectorDim : vectorDim[i] # 0
         /\ \A l \in Labels : seeds[l] = 1
<1>1. DOMAIN Statements = 1..29
  BY StatementFacts
<1>2. \A i \in 23..29 : Statements[i].kind # "object"
  BY StatementFacts DEF Vector, Seeding, Ddl
<1>3. \A i \in DOMAIN Statements :
              Statements[i].kind = "object" => Statements[i].name \in objects
  BY <1>1, <1>2 DEF Reached
<1>4. \A i \in DOMAIN vectorDim : vectorDim[i] # 0
  <2>1. DOMAIN vectorDim = {VectorIndexes[i] : i \in 1..3}
    BY DEF BootstrapInv, Indexes, ToSet, VectorIndexes
  <2>2. \A i \in 1..3 : i + 22 \in 23..25 /\ (i + 22) - 22 = i
    OBVIOUS
  <2>3. \A i \in 1..3 : vectorDim[VectorIndexes[i]] # 0
    BY <2>2 DEF Reached
  <2> QED BY <2>1, <2>3
<1>5. \A l \in Labels : seeds[l] = 1
  BY DEF Reached, BootstrapInv, Labels
<1> QED BY <1>3, <1>4, <1>5

\* After a script has ended, and before any table is there, the schema of the
\* graph is whole (main)
THEOREM CompletedWhole == BootstrapSpec => []CompletedIsWhole
<1>1. BootstrapInv => CompletedIsWhole
  <2> SUFFICES ASSUME BootstrapInv PROVE CompletedIsWhole
    OBVIOUS
  <2>1. completed => Reached(28, objects, vectorDim, seeds) /\ Tables \subseteq objects
    BY DEF BootstrapInv, Reached, Tables
  <2>2. objects \cap Tables # {} => Reached(28, objects, vectorDim, seeds)
    BY DEF BootstrapInv
  <2> QED BY <2>1, <2>2, WholeGraph DEF CompletedIsWhole, Tables
<1> QED BY <1>1, BootstrapInvariance, PTL

-----------------------------------------------------------------------------
(* The composition                                                         *)

\* In every behaviour of Services each component behaves as it does alone
THEOREM ServicesImplementComponents ==
  ServicesSpec => /\ ExtractionSpec /\ TemplatesSpec /\ HybridSpec /\ BanditSpec
                  /\ CacheSpec /\ ChatSpec /\ JudgeSpec /\ BootstrapSpec
<1>1. ServicesInit => /\ ExtractionInit /\ TemplatesInit /\ HybridInit /\ BanditInit
                      /\ CacheInit /\ ChatInit /\ JudgeInit /\ BootstrapInit
  BY DEF ServicesInit
<1> DEFINE Steps ==
      /\ [ExtractionNext]_extractionVars /\ [TemplatesNext]_templateVars
      /\ [HybridNext]_hybridVars /\ [BanditNext]_banditVars /\ [CacheNext]_cacheVars
      /\ [ChatNext]_chatVars /\ [JudgeNext]_judgeVars /\ [BootstrapNext]_bootstrapVars
<1>2. [ServicesNext]_services => Steps
  BY DEF ServicesNext, services, ExtractionStep, CacheStep, TemplatesStep, HybridStep,
         BanditStep, ChatStep, JudgeStep, BootstrapStep
<1> QED BY <1>1, <1>2, PTL DEF ServicesSpec, ExtractionSpec, TemplatesSpec, HybridSpec,
           BanditSpec, CacheSpec, ChatSpec, JudgeSpec, BootstrapSpec

\* What is proved of the components alone holds of their composition
COROLLARY ServicesKeepTheirProperties ==
  ServicesSpec => [](/\ NothingIsRepaired /\ FallbackAnswers /\ MatchesNeverLower
                     /\ PosteriorIsFeedback /\ SeedsAreUnique /\ CompletedIsWhole
                     /\ CacheIsRecency /\ AnswersAreTraceable
                     /\ RecentIsCausal /\ LastActiveCovers
                     /\ RunIsRecorded /\ DeadJudgeAlarms)
BY ServicesImplementComponents, NothingRepaired, FallbacksAnswer, MatchesCount,
   PosteriorFromFeedback, SeedsUnique, CompletedWhole, CacheHoldsRecent,
   AnswersTraceable, RecentRespectsCausality, LastActiveIsCovered, RunsAreRecorded,
   DeadJudgesAlarm, PTL
=============================================================================
