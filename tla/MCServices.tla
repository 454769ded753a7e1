------------------------------ MODULE MCServices ------------------------------
(* Small instances of the components of Services.                          *)
EXTENDS Services

\* Right requests for every template and one that is not registered, with one
\* or two of their parameters missing or replaced, a limit among them, or with
\* parameters that are no object.
Right(id) ==
  LET schema == IF id \in Registered THEN ParamsSchema[id] ELSE ParamsSchema["feed_about_movie"]
  IN [k \in DOMAIN schema |->
        CASE schema[k] = "string" -> Text
          [] schema[k] \in {"int", "float"} -> Number(10)
          [] schema[k] = "float_list" -> Floats
          [] schema[k] = "string_list" -> Texts]
Varied == {"top_k", "vec_top_k", "movie_id", "min_sentiment", "query_embedding",
           "query_keywords", "w_vec"}
Values(k) == {Text, Floats, Texts, NoItems, Null} \cup
             IF k \in {"top_k", "vec_top_k"} THEN {Number(n) : n \in {-1, 0, 50, 51, 150, 201}}
             ELSE IF k = "query_embedding" THEN {Number(1), Short} ELSE {Number(1)}
Given(id) ==
  LET right == Right(id) IN
  {right} \cup
  {[k \in DOMAIN right \ {d} |-> right[k]] : d \in Varied} \cup
  UNION {{[k \in DOMAIN right \cup {e} |-> IF k = e THEN x ELSE right[k]] : x \in Values(e)}
           : e \in Varied} \cup
  UNION {{[k \in (DOMAIN right \ {d}) \cup {e} |-> IF k = e THEN x ELSE right[k]]
            : x \in Values(e)} : d \in DOMAIN right \cap Varied, e \in Varied}
SmallRequests ==
  UNION {{[id |-> id, params |-> p, fallback |-> f] : p \in Given(id) \cup {NoMapping}} :
           id \in Registered \cup {"no_such_template"}, f \in BOOLEAN}
\* Those whose parameters are an object
ObjectRequests == {r \in SmallRequests : r.params # NoMapping}

SmallAnchors ==
  {[kind |-> "keyword", name |-> "ring"], [kind |-> "keyword", name |-> "heist"],
   [kind |-> "theme", name |-> "love"]}
\* In percent: the weights of the arms baseline (and the fallback), user_heavy
\* and theme_mood
SmallWeightings ==
  {[vec |-> 55, kw |-> 15, theme |-> 10, mood |-> 5, user |-> 15],
   [vec |-> 45, kw |-> 10, theme |-> 10, mood |-> 5, user |-> 30],
   [vec |-> 45, kw |-> 10, theme |-> 20, mood |-> 15, user |-> 10]}
SmallVecScore == [m \in {"m1", "m2"} |-> 80]

\* The judge's runners do alike, and so do the samples without expected keywords
Alike == Permutations(Runners) \cup Permutations(Samples \ WithKeywords)

AllParts ==
  {"extraction", "cache", "templates", "hybrid", "bandit", "chat", "judge", "bootstrap"}
=============================================================================
