--------------------------- MODULE EmbeddingCache ---------------------------
(***************************************************************************)
(* VLLMEmbeddingClient of src/embedding/vllm_embedding.py: the LRU cache   *)
(* in front of the embedding service, and the local model that stands in   *)
(* when the service fails.                                                 *)
(***************************************************************************)
EXTENDS Integers, Sequences, FiniteSets, SequencesExt

CONSTANTS
  EmbTexts,    \* stripped texts
  EmptyText,   \* the one that is empty
  CacheSize,   \* cache_size
  MaxCalls     \* bound: calls of embed in a behaviour

\* With a size below 0 the first set raises, once it has emptied the cache
ASSUME CacheAssumption == CacheSize \in Nat

VARIABLES
  cache,            \* [text, vec], the least recently used first
  fallbackEnabled,  \* fallback_provider # "none"
  calls             \* history: [text, up, vec] of the calls that returned

cacheVars == <<cache, fallbackEnabled, calls>>

CacheInit == cache = <<>> /\ fallbackEnabled = TRUE /\ calls = <<>>

-----------------------------------------------------------------------------
(* _LRUCache                                                               *)

Hit(text) == \E i \in DOMAIN cache : cache[i].text = text
Position(text) == CHOOSE i \in DOMAIN cache : cache[i].text = text
Entry(text) == cache[Position(text)]
Without(text) == IF Hit(text) THEN RemoveAt(cache, Position(text)) ELSE cache

\* Mutant: a hit does not move the entry to the end
CacheGetInPlace(text) == cache

\* get
CacheGet(text) == Append(Without(text), Entry(text))

\* Mutant: one entry too many is kept
CacheSetOneMore(text, vec) ==
  LET c == Append(Without(text), [text |-> text, vec |-> vec])
  IN IF Len(c) > CacheSize + 1 THEN Tail(c) ELSE c

\* set: one entry at most is over the size
CacheSet(text, vec) ==
  LET c == Append(Without(text), [text |-> text, vec |-> vec])
  IN IF Len(c) > CacheSize THEN Tail(c) ELSE c

-----------------------------------------------------------------------------
(* embed: up says whether the service answers                              *)

Return(text, up, vec) == calls' = Append(calls, [text |-> text, up |-> up, vec |-> vec])

EmbedEmpty(up) == Return(EmptyText, up, "zero") /\ UNCHANGED cache

EmbedHit(text, up) ==
  /\ Hit(text)
  /\ cache' = CacheGet(text)
  /\ Return(text, up, Entry(text).vec)

\* A failure with the fallback disabled raises, and nothing is cached
EmbedMiss(text, up) ==
  /\ ~Hit(text)
  /\ LET vec == IF up THEN "service" ELSE "local" IN
       IF up \/ fallbackEnabled
       THEN cache' = CacheSet(text, vec) /\ Return(text, up, vec)
       ELSE UNCHANGED <<cache, calls>>

embed(text, up) ==
  /\ Len(calls) < MaxCalls
  /\ IF text = EmptyText THEN EmbedEmpty(up)
     ELSE EmbedHit(text, up) \/ EmbedMiss(text, up)
  /\ UNCHANGED fallbackEnabled

\* A process that is configured without the fallback
DisableFallback ==
  /\ calls = <<>> /\ fallbackEnabled
  /\ fallbackEnabled' = FALSE
  /\ UNCHANGED <<cache, calls>>

CacheNext ==
  \/ \E text \in EmbTexts \cup {EmptyText}, up \in BOOLEAN : embed(text, up)
  \/ DisableFallback

CacheSpec == CacheInit /\ [][CacheNext]_cacheVars

-----------------------------------------------------------------------------
\* The texts used since call i, that call's own with them
UsedSince(i) == {calls[j].text : j \in i..Len(calls)} \ {EmptyText}

\* Call i is the last use of its text
LastUse(i) ==
  /\ calls[i].text # EmptyText
  /\ \A j \in i+1..Len(calls) : calls[j].text # calls[i].text

\* The cached texts are the CacheSize texts used last, in the order of their
\* last uses: a hit counts as a use, an empty text or a failure does not.
CacheIsRecency ==
  LET Kept == {i \in DOMAIN calls : LastUse(i) /\ Cardinality(UsedSince(i)) <= CacheSize}
  IN /\ {cache[k].text : k \in DOMAIN cache} = {calls[i].text : i \in Kept}
     /\ \A k, l \in DOMAIN cache, i, j \in Kept :
          cache[k].text = calls[i].text /\ cache[l].text = calls[j].text /\ k < l => i < j

\* The uses a and b of a text, a before b, have none of it in between and not
\* so many other texts that the entry is evicted
StaysCached(a, b) ==
  LET others == {calls[k].text : k \in a+1..b-1} IN
  /\ calls[a].text \notin others
  /\ Cardinality(others \ {EmptyText}) < CacheSize

\* A vector of the local model is answered only if the service failed for this
\* text, now or at an earlier use from which on the entry stayed cached, for as
\* long as it is used again in time; so it is for the service's vectors (embed
\* caches both under the service's model name).
AnswersAreTraceable ==
  \A i \in DOMAIN calls : calls[i].text # EmptyText =>
    LET uses == {k \in 1..i : calls[k].text = calls[i].text} IN
    \E j \in uses :
      /\ calls[j].up = (calls[i].vec = "service")
      /\ \A a \in uses : a >= j /\ a < i => \E b \in uses : a < b /\ StaysCached(a, b)
=============================================================================
