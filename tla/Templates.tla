------------------------------ MODULE Templates ------------------------------
(***************************************************************************)
(* The whitelist of Cypher templates and its executor                      *)
(* (src/graph/template_registry.py, template_executor.py, templates/).     *)
(* A request is the JSON the planner LLM answered with: any template name  *)
(* and any parameters.                                                     *)
(***************************************************************************)
EXTENDS Integers

CONSTANTS
  Requests,  \* [id, params, fallback]: arguments of execute; params is a
             \* function from the names that are given to values, or
  NoMapping  \* what the planner gave as parameters and is no JSON object

\* Values: numbers are kept, of the rest only the type matters.
Number(n) == [type |-> "number", n |-> n]
Text == [type |-> "text"]     \* a string that is no number
Floats == [type |-> "floats"] \* a list, here of as many numbers as the index's vectors have
Short == [type |-> "floats", length |-> "other"] \* a list of fewer or more numbers
NoItems == [type |-> "empty"] \* the empty list
Texts == [type |-> "texts"]   \* a list, here of strings that are no numbers
Null == [type |-> "null"]

DefaultTemplate == "hybrid_recommend"

Weights == {"w_vec", "w_kw", "w_theme", "w_mood", "w_user"}

\* The parameters a template's text names, with their hints
ParamsSchema ==
  [hybrid_recommend |->
     [user_id |-> "string", query_embedding |-> "float_list",
      query_keywords |-> "string_list", query_themes |-> "string_list",
      query_moods |-> "string_list", top_k |-> "int", vec_top_k |-> "int",
      w_vec |-> "float", w_kw |-> "float", w_theme |-> "float", w_mood |-> "float",
      w_user |-> "float"],
   feed_about_movie |-> [movie_id |-> "string", top_k |-> "int"],
   similar_movie_by_theme |-> [movie_id |-> "string", top_k |-> "int"],
   recent_feeds_positive |-> [min_sentiment |-> "float", top_k |-> "int"],
   user_preference_summary |-> [user_id |-> "string", top_k |-> "int"]]

Registered == DOMAIN ParamsSchema
Required(id) == DOMAIN ParamsSchema[id]
MaxLimit(id) == IF id = DefaultTemplate THEN 100 ELSE 50

VARIABLES
  request,  \* what execute was called with, <<>> before the call
  call,     \* the arguments of the execute that runs: its own or the fallback's
  outcome   \* "running", "rows", "validation_error" or "other_error"

templateVars == <<request, call, outcome>>

TemplatesInit == request = <<>> /\ call = <<>> /\ outcome = "idle"

-----------------------------------------------------------------------------
\* What _coerce does with v: "ok", TemplateValidationError, or ValueError or
\* TypeError from int() and float()
coerce(v, hint) ==
  CASE hint = "string" -> "ok"
    [] hint \in {"int", "float"} -> IF v.type = "number" THEN "ok" ELSE "other_error"
    [] hint = "float_list" -> CASE v.type = "floats" -> "ok"
                                [] v.type = "empty" -> "ok"
                                [] v.type = "texts" -> "other_error"
                                [] OTHER -> "validation_error"
    [] hint = "string_list" ->
         IF v.type \in {"floats", "texts", "empty"} THEN "ok" ELSE "validation_error"

TooLarge(id, params) ==
  \/ params["top_k"].n > MaxLimit(id)
  \/ "vec_top_k" \in Required(id) /\ params["vec_top_k"].n > 2 * MaxLimit(id)

\* What get and validate_params may end with.  The required names are a set
\* of strings, whose order differs from process to process: with several
\* values that cannot be coerced any of their errors may come first.  What is
\* no object has no keys (AttributeError).
Verdicts(id, params) ==
  IF id \notin Registered THEN {"validation_error"}
  ELSE IF params = NoMapping THEN {"other_error"}
  ELSE IF ~(Required(id) \subseteq DOMAIN params) THEN {"validation_error"}
  ELSE LET results == {coerce(params[k], ParamsSchema[id][k]) : k \in Required(id)}
       IN IF results # {"ok"} THEN results \ {"ok"}
          ELSE IF TooLarge(id, params) THEN {"validation_error"} ELSE {"ok"}

\* Mutant: the fallback keeps none of the request's parameters but the limit
FallbackParamsBare(params) ==
  [k \in Required(DefaultTemplate) |->
     IF k = "top_k" /\ k \in DOMAIN params THEN params[k] ELSE Null]

FallbackParams(params) ==
  LET default == [user_id |-> Text, query_embedding |-> NoItems,
                  query_keywords |-> NoItems, query_themes |-> NoItems,
                  query_moods |-> NoItems, top_k |-> Number(20), vec_top_k |-> Number(50)]
  IN [k \in Required(DefaultTemplate) |->
        IF k \in Weights THEN Number(0)  \* 0.55, 0.15, 0.10, 0.05, 0.15
        ELSE IF k \in DOMAIN params THEN params[k] ELSE default[k]]

ASSUME NoMappingAssumption ==
  \A r \in Requests : r.params # NoMapping => FallbackParams(r.params) # NoMapping

-----------------------------------------------------------------------------
\* execute_intent: without a template_id, the default one
execute_intent(r) ==
  /\ request' = r /\ call' = r /\ outcome' = "running"

\* Neo4j takes no negative LIMIT, which every template has; its vector index
\* no number of neighbours below 1 and no vector of another length
RefusedByNeo4j(id, params) ==
  \/ params["top_k"].n < 0
  \/ id = DefaultTemplate /\ (params["vec_top_k"].n < 1 \/ params["query_embedding"] # Floats)

\* The fallback reads the parameters with params.get, which what is no object
\* does not have (AttributeError)
Execute ==
  /\ outcome = "running"
  /\ \E v \in Verdicts(call.id, call.params) :
       LET falls == v = "validation_error" /\ call.fallback /\ call.id # DefaultTemplate
       IN IF falls /\ call.params # NoMapping
          THEN /\ call' = [id |-> DefaultTemplate, params |-> FallbackParams(call.params),
                           fallback |-> FALSE]
               /\ UNCHANGED outcome
          ELSE /\ outcome' = IF falls THEN "other_error"
                             ELSE IF v # "ok" THEN v
                             ELSE IF RefusedByNeo4j(call.id, call.params) THEN "other_error"
                             ELSE "rows"
               /\ UNCHANGED call
  /\ UNCHANGED request

TemplatesNext ==
  \/ request = <<>> /\ \E r \in Requests : execute_intent(r)
  \/ Execute

TemplatesSpec == TemplatesInit /\ [][TemplatesNext]_templateVars

-----------------------------------------------------------------------------
FellBack == request # <<>> /\ call # request

\* A request that falls back is answered unless a parameter it gives and the
\* fallback uses is itself wrong, a limit outside of what the template and
\* Neo4j take among them: of the missing ones only query_embedding stops it,
\* for which the fallback puts an empty vector (execute).
FallbackAnswers ==
  FellBack /\ outcome \notin {"running", "rows"} =>
    LET given == DOMAIN request.params \cap (Required(DefaultTemplate) \ Weights)
    IN \/ \E k \in given :
            coerce(request.params[k], ParamsSchema[DefaultTemplate][k]) # "ok"
       \/ "top_k" \in given /\ request.params["top_k"].n \notin 0..100
       \/ "vec_top_k" \in given /\ request.params["vec_top_k"].n \notin 1..200
       \/ "query_embedding" \notin given \/ request.params["query_embedding"] # Floats

\* docs/cypher_templates.md: when validation fails, hybrid_recommend runs
\* instead.  A request for another template never ends with the error of its
\* own parameters.
ValidationFailureFallsBack ==
  request # <<>> /\ request.fallback /\ request.id # DefaultTemplate
    => outcome \in {"running", "rows"} \/ FellBack
=============================================================================
