----------------------------- MODULE GraphLoader -----------------------------
(***************************************************************************)
(* The upserts of movies, feeds and comments (src/graph/loader.py and the  *)
(* UPSERT statements of src/graph/cypher_statements.py) as operators on    *)
(* the graph.                                                              *)
(*                                                                         *)
(* A payload is what one call of upsert_movie, upsert_feed or              *)
(* upsert_comment is given.  The same document is loaded again when it is  *)
(* edited or when its outbox row is delivered more than once, in any       *)
(* order.                                                                  *)
(***************************************************************************)
EXTENDS Integers, Sequences, FiniteSets, SequencesExt, FiniteSetsExt

CONSTANTS
  Payloads,   \* names of the payloads
  Payload,    \* Payload[p]: its arguments
  NoPayload,
  Times,      \* what datetime.utcnow() may return
  KwKinds     \* Keyword.kind

Docs == {Payload[p].doc : p \in Payloads}
Feeds == {Payload[p].doc : p \in {q \in Payloads : Payload[q].type = "feed"}}
Movies == {Payload[p].doc : p \in {q \in Payloads : Payload[q].type = "movie"}}

\* A node has one of the labels :Movie, :Feed, :Comment, by the type of the
\* payloads that are its own; the feed of a comment is a feed, loaded or not
ASSUME GraphAssumption ==
  /\ \A n, o \in Payloads : Payload[n].doc = Payload[o].doc => Payload[n].type = Payload[o].type
  /\ \A n \in Payloads : Payload[n].type = "comment" =>
       \E o \in Payloads : Payload[o].doc = Payload[n].feed /\ Payload[o].type = "feed"

Keywords == UNION {{kw.name : kw \in ToSet(Payload[p].keywords)} : p \in Payloads}

\* "none", 0 and NoPayload stand for what is not there
ASSUME PayloadAssumption ==
  /\ NoPayload \notin Payloads \cup Docs
  /\ 0 \notin Times
  /\ "none" \notin KwKinds
  /\ \A n \in Payloads :
       /\ Payload[n].keywords \in Seq([name : Keywords, kind : KwKinds])
       /\ Payload[n].type \in {"feed", "comment"} => Payload[n].at \in {0} \cup Times

\* The graph without the :Theme and :Mood nodes, which are the vocabulary's
EmptyGraph ==
  [loaded  |-> [d \in Docs |-> NoPayload],  \* properties: those of this payload
   stubs   |-> {},                          \* :Feed nodes without properties
   created |-> [d \in Docs |-> 0],          \* created_at, 0: none
   rels    |-> {},                          \* <<document, type, target>>
   kind    |-> [k \in Keywords |-> "none"]] \* kind of :Keyword nodes

VARIABLES
  graph,     \* the database, at first as init_schema left it
  delivered  \* history: the payloads loaded so far, and the way of each load

\* A movie's terms resolved by the pipeline or taken as given, a feed whose movie
\* was loaded before, and all others
Ways == {"resolved", "as_given", "movie_known", "plain"}
Delivery(n, way) == [payload |-> n, way |-> way]

-----------------------------------------------------------------------------
(* One UNWIND $list MERGE ... MERGE ...: a row for each entry of the list,  *)
(* and nothing of what follows without a row.                              *)

Relate(doc, type, names) == {<<doc, type, x>> : x \in names}

\* Mutant: an empty list is passed over, as FOREACH would
UnwindPassing(doc, type, names, rest) == Relate(doc, type, names) \cup rest

Unwind(doc, type, names, rest) ==
  Relate(doc, type, names) \cup (IF names = {} THEN {} ELSE rest)

NamesOf(kws) == {kw.name : kw \in ToSet(kws)}
Mentioned(p) == Unwind(p.doc, "MENTIONS", NamesOf(p.keywords), {})

MovieRelations(p, themes, moods) ==
  Unwind(p.doc, "HAS_GENRE", ToSet(p.genres),
    Unwind(p.doc, "HAS_THEME", themes,
      Unwind(p.doc, "HAS_MOOD", moods, Mentioned(p))))
FeedRelations(p) ==
  Unwind(p.doc, "HAS_CATEGORY", ToSet(p.categories),
    Unwind(p.doc, "HAS_EMOTION", ToSet(p.emotions), Mentioned(p)))
CommentRelations(p) ==
  Unwind(p.doc, "HAS_EMOTION", ToSet(p.emotions), Mentioned(p))

Targets(rels, type) == {r[3] : r \in {x \in rels : x[2] = type}}

\* MERGE (k:Keyword) ON CREATE SET k.kind
KindsAfter(old, p, rels) ==
  [k \in Keywords |->
     IF old[k] = "none" /\ k \in Targets(rels, "MENTIONS")
     THEN (CHOOSE kw \in ToSet(p.keywords) : kw.name = k).kind ELSE old[k]]

\* Mutant: created_at is set at each load
CreatedAlways(old, p, now) == IF p.at = 0 THEN now ELSE p.at

\* coalesce(x.created_at, $created_at) with created_at or datetime.utcnow()
CreatedAfter(old, p, now) ==
  IF old # 0 THEN old ELSE IF p.at = 0 THEN now ELSE p.at

-----------------------------------------------------------------------------
(* The upserts: the graph after payload n is loaded into g.                *)

UpsertMovie(g, n, themes, moods) ==
  LET p == Payload[n]
      new == MovieRelations(p, themes, moods)
  IN [g EXCEPT !.loaded[p.doc] = n,
               !.rels = @ \cup new,
               !.kind = KindsAfter(@, p, new)]

\* Mutant: the movie is merged, not matched
AboutMerged(g, p) ==
  IF p.movie = NoPayload THEN {} ELSE {<<p.doc, "ABOUT_MOVIE", p.movie>>}

\* MATCH (m:Movie ...) MERGE (f)-[:ABOUT_MOVIE]->(m), which finds no movie for
\* null; count(*) keeps the row
About(g, p) ==
  IF p.movie \in Movies /\ g.loaded[p.movie] # NoPayload
  THEN {<<p.doc, "ABOUT_MOVIE", p.movie>>} ELSE {}

UpsertFeed(g, n, now) ==
  LET p == Payload[n]
      new == FeedRelations(p)
  IN [g EXCEPT !.loaded[p.doc] = n,
               !.stubs = @ \ {p.doc},
               !.created[p.doc] = CreatedAfter(@, p, now),
               !.rels = @ \cup {<<p.doc, "WRITTEN_BY", p.author>>}
                          \cup About(g, p) \cup new,
               !.kind = KindsAfter(@, p, new)]

\* Mutant: the parent feed is replaced by one without properties
ParentReplaced(g, p) == {p.feed}

\* Mutant: the parent feed is matched, not merged
ParentMatched(g, p) == {}

\* MERGE (parent:Feed {feed_id: $feed_id}): the feed may not be loaded yet
Parent(g, p) == IF g.loaded[p.feed] = NoPayload THEN {p.feed} ELSE {}

UpsertComment(g, n, now) ==
  LET p == Payload[n]
      new == CommentRelations(p)
  IN [g EXCEPT !.loaded[p.doc] = n,
               !.stubs = @ \cup Parent(g, p),
               !.created[p.doc] = CreatedAfter(@, p, now),
               !.rels = @ \cup {<<p.doc, "WRITTEN_BY", p.author>>,
                                <<p.doc, "ON_FEED", p.feed>>} \cup new,
               !.kind = KindsAfter(@, p, new)]
=============================================================================
