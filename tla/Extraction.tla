----------------------------- MODULE Extraction -----------------------------
(***************************************************************************)
(* From the LLM's answer to an ontology object: VLLMChatClient.chat_json   *)
(* (src/llm/vllm_client.py), OntologyExtractor.extract (src/extractor/)    *)
(* and the models of src/ontology/schema.py.                               *)
(*                                                                         *)
(* Of a field of the answer only its verdict is kept: "ok" if its model    *)
(* accepts the value, "bad" if not (a wrong type, a number out of range, a *)
(* label out of its enum, a keyword that is blank once stripped).          *)
(***************************************************************************)
EXTENDS Integers, Sequences

CONSTANTS
  UnknownField,  \* a key no model has
  Verdictful     \* the fields whose verdict is varied; the others are "ok"

Common == {"schema_version", "created_at", "source_id", "language", "summary"}

MoviePlotOntology ==
  [fields |-> Common \cup {"themes", "moods", "tropes", "keywords", "characters",
                           "locations", "target_audience"},
   required |-> {"source_id", "summary"}]
FeedOntology ==
  [fields |-> Common \cup {"categories", "sentiment", "sentiment_score", "emotions",
                           "keywords", "referenced_movie_ids",
                           "referenced_person_names", "contains_spoiler",
                           "toxicity_score"},
   required |-> {"source_id", "summary", "sentiment", "sentiment_score"}]
CommentOntology ==
  [fields |-> Common \cup {"intents", "sentiment", "sentiment_score", "emotions",
                           "keywords", "targets_user_id", "contains_spoiler",
                           "toxicity_score"},
   required |-> {"source_id", "summary", "sentiment", "sentiment_score"}]

Models == {MoviePlotOntology, FeedOntology, CommentOntology}

VARIABLES
  answer,   \* what the service sent: [text, object]
  model,    \* the model of the extractor
  raw,      \* what chat_json returned
  stage,    \* "idle", "asked", "parsed", or how extract ended
  result    \* the object extract returned

extractionVars == <<answer, model, raw, stage, result>>

\* text: a bare JSON object, one inside other text, no content at all, JSON
\* that is not an object, or text with no JSON object in it
Shapes == {"object", "wrapped", "empty", "array", "garbage"}

\* The objects an LLM may send for a model: any of the fields that vary, each
\* ok or bad, the other required ones, and perhaps a key the model has not
Objects(m) ==
  LET varied == Verdictful \cap m.fields
      fixed == m.required \ varied
  IN {[k \in DOMAIN f \cup fixed \cup extra |-> IF k \in DOMAIN f THEN f[k] ELSE "ok"] :
        f \in UNION {[F -> {"ok", "bad"}] : F \in SUBSET varied},
        extra \in {{}, {UnknownField}}}

NoObject == <<>>

ExtractionInit ==
  /\ answer = [text |-> "empty", object |-> NoObject]
  /\ model = MoviePlotOntology
  /\ raw = NoObject /\ stage = "idle" /\ result = NoObject

-----------------------------------------------------------------------------
\* extract: build_messages and the call of the service
extract(m) ==
  /\ stage = "idle"
  /\ model' = m
  /\ stage' = "asked"
  /\ \E text \in Shapes, o \in Objects(m) :
       answer' = [text |-> text,
                  object |-> IF text \in {"object", "wrapped"} THEN o ELSE NoObject]
  /\ UNCHANGED <<raw, result>>

\* json.loads, or of what lies between the first { and the last }; no content
\* at all counts as {}
chat_json ==
  /\ stage = "asked"
  /\ CASE answer.text \in {"object", "wrapped", "empty"} ->
            stage' = "parsed" /\ raw' = answer.object
       [] answer.text = "array" -> stage' = "parsed" /\ UNCHANGED raw
       [] answer.text = "garbage" -> stage' = "JSONDecodeError" /\ UNCHANGED raw
  /\ UNCHANGED <<answer, model, result>>

\* model_validate: keys the model does not have are ignored
Accepts(m, o) ==
  /\ m.required \subseteq DOMAIN o
  /\ \A k \in DOMAIN o \cap m.fields : o[k] = "ok"

Known(m, o) == [k \in DOMAIN o \cap m.fields |-> o[k]]

\* Mutant: the lenient parse drops the fields that are bad as well
CleanedOfBad(m, o) == [k \in {j \in DOMAIN o \cap m.fields : o[j] = "ok"} |-> "ok"]

\* {k: v for k, v in raw.items() if k in allowed}
Cleaned(m, o) == Known(m, o)

\* A list has no items(): AttributeError, not the ValidationError
Validate ==
  /\ stage = "parsed"
  /\ IF answer.text = "array" THEN stage' = "AttributeError" /\ UNCHANGED result
     ELSE IF Accepts(model, raw)
          THEN stage' = "returned" /\ result' = Known(model, raw)
          ELSE IF Accepts(model, Cleaned(model, raw))
               THEN stage' = "returned" /\ result' = Cleaned(model, raw)
               ELSE stage' = "ValidationError" /\ UNCHANGED result
  /\ UNCHANGED <<answer, model, raw>>

ExtractionNext == (\E m \in Models : extract(m)) \/ chat_json \/ Validate

ExtractionSpec == ExtractionInit /\ [][ExtractionNext]_extractionVars

-----------------------------------------------------------------------------
\* An object that is returned holds every field the LLM gave that its model
\* has: the lenient parse repairs nothing, so that an answer with one bad
\* value is an error and never a document with that value missing (extract).
NothingIsRepaired ==
  stage = "returned" =>
    /\ DOMAIN result = DOMAIN answer.object \cap model.fields
    /\ model.required \subseteq DOMAIN result
=============================================================================
