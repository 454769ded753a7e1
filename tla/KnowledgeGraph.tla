--------------------------- MODULE KnowledgeGraph ---------------------------
(***************************************************************************)
(* The graph loader with the vocabulary pipeline or without, and the       *)
(* nightly promotion, on one Neo4j database.                               *)
(*                                                                         *)
(* With the pipeline upsert_movie observes the terms it does not know one  *)
(* transaction at a time and then upserts the movie in another.  Without,  *)
(* which is the default of OntologyLoader, it takes the terms as given,    *)
(* and a movie is one transaction as feeds and comments are.  A load may   *)
(* fail between any two of them and be repeated, as rows of the outbox     *)
(* are, and payloads come in any order.                                    *)
(***************************************************************************)
EXTENDS VocabCandidates, GraphLoader

CONSTANTS
  Loaders,          \* threads that call the loader
  PipelineLoaders,  \* those whose OntologyLoader was given a vocab_pipeline
  Workloads         \* sets of payloads that may arrive together

ASSUME WorkloadAssumption ==
  PipelineLoaders \subseteq Loaders /\ Workloads \subseteq SUBSET Payloads

\* The terms of the payloads are among those the vocabulary is about
ASSUME TermAssumption ==
  \A n \in Payloads :
    /\ Payload[n].type = "movie" =>
         Payload[n].themes \in Seq(Terms) /\ Payload[n].moods \in Seq(Terms)
    /\ \A kw \in ToSet(Payload[n].keywords) : kw.kind \in Kinds => kw.name \in Terms

VARIABLES
  loading,   \* loading[l]: the movie payload l's pipeline observes the terms of,
             \* and the place in them that it has come to
  workload   \* the payloads that arrive, each any number of times

kgVars == <<vocabVars, graph, delivered, loading, workload>>

Idle == [payload |-> NoPayload, next |-> 1]

PayloadsOf(type) == {n \in workload : Payload[n].type = type}

-----------------------------------------------------------------------------
(* VocabPipeline.                                                          *)

Missed(kw) == kw.kind \in Kinds /\ ~KnownTheme(kw.name) /\ ~KnownMood(kw.name)

\* Each term of a list as a candidate, and whether it is observed as one
Term(t, k, missed) == [cand |-> <<t, k>>, missed |-> missed]

\* Mutant: unknown moods are dropped without being observed
UnobservedMoods(moods) == <<>>

MoodTerms(moods) ==
  [i \in DOMAIN moods |-> Term(Lower[moods[i]], "mood", ~KnownMood(moods[i]))]
ThemeTerms(themes) ==
  [i \in DOMAIN themes |-> Term(Lower[themes[i]], "theme", ~KnownTheme(themes[i]))]
KeywordTerms(kws) ==
  [i \in DOMAIN kws |-> Term(kws[i].name, kws[i].kind, Missed(kws[i]))]

\* What resolve_themes, resolve_moods and resolve_keywords go through, in order
TermsOf(n) ==
  LET p == Payload[n]
  IN ThemeTerms(p.themes) \o MoodTerms(p.moods) \o KeywordTerms(p.keywords)

\* Mutant: unknown themes are kept
ThemesAsGiven(themes) == ToSet(themes)

resolve_themes(themes) == UNION {InLibrary("theme", t) : t \in ToSet(themes)}
resolve_moods(moods) == UNION {InLibrary("mood", t) : t \in ToSet(moods)}

-----------------------------------------------------------------------------
(* Loading.                                                                *)

\* upsert_movie calls the pipeline
StartMovie(l, n) ==
  /\ l \in PipelineLoaders /\ loading[l] = Idle
  /\ loading' = [loading EXCEPT ![l] = [payload |-> n, next |-> 1]]
  /\ UNCHANGED <<vocabVars, graph, delivered, workload>>

ObserveNext(l) ==
  LET n == loading[l].payload
      i == loading[l].next
  IN /\ n # NoPayload /\ i <= Len(TermsOf(n))
     /\ IF TermsOf(n)[i].missed THEN observe(TermsOf(n)[i].cand, FALSE)
        ELSE UNCHANGED vocabVars
     /\ loading' = [loading EXCEPT ![l] = [payload |-> n, next |-> i + 1]]
     /\ UNCHANGED <<graph, delivered, workload>>

\* if self._vocab: the library's spelling of what it has; else all, as given
ThemesOf(l, p) ==
  IF l \in PipelineLoaders THEN resolve_themes(p.themes) ELSE ToSet(p.themes)
MoodsOf(l, p) ==
  IF l \in PipelineLoaders THEN resolve_moods(p.moods) ELSE ToSet(p.moods)
WayOf(l) == IF l \in PipelineLoaders THEN "resolved" ELSE "as_given"

\* execute_write(UPSERT_MOVIE_WITH_ONTOLOGY): MERGE makes the nodes of the
\* themes and moods it reaches
FinishMovie(l, n) ==
  LET p == Payload[n]
  IN /\ l \in PipelineLoaders =>
          loading[l].payload = n /\ loading[l].next > Len(TermsOf(n))
     /\ graph' = UpsertMovie(graph, n, ThemesOf(l, p), MoodsOf(l, p))
     /\ standard' = [standard EXCEPT
                       !["theme"] = @ \cup Targets(graph'.rels, "HAS_THEME"),
                       !["mood"] = @ \cup Targets(graph'.rels, "HAS_MOOD")]
     /\ delivered' = delivered \cup {Delivery(n, WayOf(l))}
     /\ loading' = [loading EXCEPT ![l] = Idle]
     /\ UNCHANGED <<cand, aliases, batch, batchFaults, months, ready, distinct,
                    workload>>

\* A statement raises or the process dies; the load may be started again
LoadFails(l) ==
  /\ loading[l] # Idle
  /\ loading' = [loading EXCEPT ![l] = Idle]
  /\ UNCHANGED <<vocabVars, graph, delivered, workload>>

MovieDelivered(m) ==
  \E e \in delivered : Payload[e.payload].type = "movie" /\ Payload[e.payload].doc = m

LoadFeed(n, now) ==
  /\ graph' = UpsertFeed(graph, n, now)
  /\ delivered' = delivered \cup
       {Delivery(n, IF MovieDelivered(Payload[n].movie) THEN "movie_known" ELSE "plain")}
  /\ UNCHANGED <<vocabVars, loading, workload>>

LoadComment(n, now) ==
  /\ graph' = UpsertComment(graph, n, now)
  /\ delivered' = delivered \cup {Delivery(n, "plain")}
  /\ UNCHANGED <<vocabVars, loading, workload>>

\* resolve_keywords given embeddings, by a caller other than the loader
ObserveEmbedded(kw) ==
  /\ Missed(kw)
  /\ observe(<<kw.name, kw.kind>>, TRUE)
  /\ UNCHANGED <<graph, delivered, loading, workload>>

KGInit ==
  /\ VocabInit
  /\ graph = EmptyGraph
  /\ delivered = {}
  /\ loading = [l \in Loaders |-> Idle]
  /\ workload \in Workloads

KGNext ==
  \/ \E l \in Loaders :
       \/ \E n \in PayloadsOf("movie") : StartMovie(l, n) \/ FinishMovie(l, n)
       \/ ObserveNext(l) \/ LoadFails(l)
  \/ \E n \in PayloadsOf("feed"), now \in Times : LoadFeed(n, now)
  \/ \E n \in PayloadsOf("comment"), now \in Times : LoadComment(n, now)
  \/ \E n \in PayloadsOf("keywords") :
       \E kw \in ToSet(Payload[n].keywords) : ObserveEmbedded(kw)
  \/ VocabNext /\ UNCHANGED <<graph, delivered, loading, workload>>

KGSafety == KGInit /\ [][KGNext]_kgVars

\* Days pass; the nightly job runs every night and a batch goes on unless it
\* fails.  After MaxMonths a candidate that is old stays so: a month has many
\* nights on which it is.
KGFairness ==
  /\ \A p \in Promoters : WF_vocabVars(Promoter(p))
  /\ \A c \in Candidates : WF_vocabVars(Age(c))

KGSpec == KGSafety /\ KGFairness

-----------------------------------------------------------------------------
(* Properties.                                                             *)

KGTypeOK ==
  /\ VocabTypeOK
  /\ graph.loaded \in [Docs -> Payloads \cup {NoPayload}]
  /\ \A f \in graph.stubs : f \in Feeds /\ graph.loaded[f] = NoPayload
  /\ graph.created \in [Docs -> {0} \cup Times]
  /\ \A r \in graph.rels : r = <<r[1], r[2], r[3]>> /\ r[1] \in Docs
  /\ graph.kind \in [Keywords -> KwKinds \cup {"none"}]
  /\ delivered \subseteq [payload : Payloads, way : Ways]
  /\ loading \in [Loaders -> [payload : Payloads \cup {NoPayload}, next : Nat]]
  /\ workload \in Workloads

\* What the relations of a delivery are to be: its fixed ones and those of its
\* lists, except of a list before which one is empty.  The pipeline leaves
\* unknown terms out of the lists.
Listed(p, type, names, before) == IF {} \in before THEN {} ELSE Relate(p.doc, type, names)

Spelled(k, terms) == {s \in Library[k] : \E t \in ToSet(terms) : Lower[s] = Lower[t]}

ExpectedOfMovie(p, themes, moods) ==
  LET genres == ToSet(p.genres)
  IN Listed(p, "HAS_GENRE", genres, {}) \cup Listed(p, "HAS_THEME", themes, {genres})
     \cup Listed(p, "HAS_MOOD", moods, {genres, themes})
     \cup Listed(p, "MENTIONS", NamesOf(p.keywords), {genres, themes, moods})

ExpectedOfFeed(p) ==
  LET categories == ToSet(p.categories)
      emotions == ToSet(p.emotions)
  IN {<<p.doc, "WRITTEN_BY", p.author>>} \cup Listed(p, "HAS_CATEGORY", categories, {})
     \cup Listed(p, "HAS_EMOTION", emotions, {categories})
     \cup Listed(p, "MENTIONS", NamesOf(p.keywords), {categories, emotions})

ExpectedOfComment(p) ==
  {<<p.doc, "WRITTEN_BY", p.author>>, <<p.doc, "ON_FEED", p.feed>>}
  \cup Listed(p, "HAS_EMOTION", ToSet(p.emotions), {})
  \cup Listed(p, "MENTIONS", NamesOf(p.keywords), {ToSet(p.emotions)})

ExpectedRelations(e) ==
  LET p == Payload[e.payload]
  IN CASE e.way = "resolved" ->
            ExpectedOfMovie(p, Spelled("theme", p.themes), Spelled("mood", p.moods))
       [] e.way = "as_given" -> ExpectedOfMovie(p, ToSet(p.themes), ToSet(p.moods))
       [] e.way = "movie_known" -> ExpectedOfFeed(p) \cup {<<p.doc, "ABOUT_MOVIE", p.movie>>}
       [] e.way = "plain" ->
            IF p.type = "feed" THEN ExpectedOfFeed(p) ELSE ExpectedOfComment(p)

\* The relations of the graph are those of every delivery there ever was, none
\* more or less, whatever their order and number and the failures in between.
\* In particular a feed is about a movie exactly if one of its loads that named
\* it came after a load of the movie (loader.py, UPSERT_*).
RelationsAreUnion == graph.rels = UNION {ExpectedRelations(e) : e \in delivered}

\* A relation never leads to a movie that was not loaded (UPSERT_FEED's MATCH).
NoDanglingMovie ==
  \A m \in Targets(graph.rels, "ABOUT_MOVIE") : graph.loaded[m] # NoPayload

\* Delivering a feed or comment again right away, at a later time, changes
\* nothing (MERGE, coalesce(created_at)).
RedeliveryIsIdempotent ==
  \A now, later \in Times :
    /\ \A n \in PayloadsOf("feed") :
         LET g == UpsertFeed(graph, n, now) IN UpsertFeed(g, n, later) = g
    /\ \A n \in PayloadsOf("comment") :
         LET g == UpsertComment(graph, n, now) IN UpsertComment(g, n, later) = g

\* A feed without properties is there exactly while a comment on it was
\* delivered and the feed itself never, in whatever order and how often both
\* come: its own load fills it for good (UPSERT_COMMENT's MERGE, UPSERT_FEED).
StubsAwaitTheirFeeds ==
  LET Of(type) == {Payload[e.payload] : e \in {d \in delivered : Payload[d.payload].type = type}}
  IN graph.stubs = {p.feed : p \in Of("comment")} \ {p.doc : p \in Of("feed")}

\* What loads without the pipeline brought, and the relation of each kind
AsGiven == UNION {ExpectedRelations(e) : e \in {d \in delivered : d.way = "as_given"}}
Has == [theme |-> "HAS_THEME", mood |-> "HAS_MOOD"]

\* A :Theme or :Mood node is a library term, a candidate that was seen MinCount
\* times over MinDays at some time, or was given by a load without the pipeline,
\* and such a load vouches for the terms of its own lists only, whatever other
\* loads and overlapping batches did (loader.py, candidate_store.py, promoter.py).
StandardIsExplained ==
  \A k \in Kinds : \A t \in standard[k] \ Library[k] :
    <<t, k>> \in ready \/ \E r \in AsGiven : r[2] = Has[k] /\ r[3] = t

\* Themes and moods of movies are nodes, and of the library unless that movie
\* was given them by a load without the pipeline: a promoted term becomes a node
\* the pipeline attaches no movie to, since the normalizer knows the library
\* only (normalizer.py, pipeline.py).
MoviesUseTheLibrary ==
  \A r \in graph.rels, k \in Kinds : r[2] = Has[k] =>
    r[3] \in standard[k] /\ (r[3] \in Library[k] \/ r \in AsGiven)

\* No unknown theme or mood of a movie that was loaded through the pipeline is
\* forgotten: it is a candidate, a standard term or an alias, whatever batches
\* and other loads, with or without it, did meanwhile (pipeline.py, promoter.py).
UnknownTermsSurvive ==
  \A e \in delivered : e.way = "resolved" =>
    LET p == Payload[e.payload] IN
    \A c \in {<<Lower[t], "theme">> : t \in {s \in ToSet(p.themes) : ~KnownTheme(s)}}
             \cup {<<Lower[t], "mood">> : t \in {s \in ToSet(p.moods) : ~KnownMood(s)}} :
      Exists(c) \/ c[1] \in standard[c[2]] \/ \E a \in aliases : a[3] = c[1]
=============================================================================
