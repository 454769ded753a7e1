-------------------------- MODULE MCKnowledgeGraph --------------------------
(* A small instance of KnowledgeGraph.                                     *)
EXTENDS KnowledgeGraph

\* "love" is a theme of the library, and a mood in another spelling; "amor" is
\* close to it, "crush" less so and "heist" not at all.
SmallTerms == {"love", "Love", "amor", "crush", "heist"}
SmallLower == [t \in SmallTerms |-> IF t = "Love" THEN "love" ELSE t]
SmallLibrary == [theme |-> {"love"}, mood |-> {"Love"}]
SmallCosine == [t \in SmallTerms |->
  [n \in {"love"} |-> CASE t \in {"love", "Love"} -> 100 [] t = "amor" -> 95 [] t = "crush" -> 87
                      [] t = "heist" -> 20]]
Kw(n, k) == [name |-> n, kind |-> k]

Movie(d, genres, themes, moods, kws) ==
  [type |-> "movie", doc |-> d, genres |-> genres, themes |-> themes,
   moods |-> moods, keywords |-> kws]
Feed(d, m, categories, kws, spoiler, at) ==
  [type |-> "feed", doc |-> d, movie |-> m, author |-> "u1",
   categories |-> categories, emotions |-> <<"joy">>, keywords |-> kws,
   spoiler |-> spoiler, positive |-> TRUE, at |-> at]
Comment(d, f, kws) ==
  [type |-> "comment", doc |-> d, feed |-> f, author |-> "u1",
   emotions |-> <<"joy">>, keywords |-> kws, spoiler |-> FALSE, at |-> 0]

Embedded(kws) == [type |-> "keywords", doc |-> "K", keywords |-> kws]

SmallPayload ==
  [m1 |-> Movie("M", <<"g">>, <<"Love">>, <<"love">>, <<Kw("ring", "object")>>),
   m2 |-> Movie("M", <<"g">>, <<"amor">>, <<>>, <<>>),
   m3 |-> Movie("M", <<"g">>, <<"love">>, <<"heist", "love">>, <<>>),
   k1 |-> Embedded(<<Kw("amor", "theme")>>),
   k2 |-> Embedded(<<Kw("crush", "theme"), Kw("heist", "theme")>>),
   f1 |-> Feed("F", "M", <<>>, <<Kw("ring", "concept")>>, FALSE, 1),
   f2 |-> Feed("F", NoPayload, <<"review">>, <<Kw("ring", "concept")>>, TRUE, 0),
   c1 |-> Comment("C", "F", <<Kw("ring", "other")>>)]
SmallPayloads == DOMAIN SmallPayload
\* Unknown terms and nightly batches; feeds and comments about a movie
SmallWorkloads == {{"m2", "k1"}, {"m3"}, {"k2"}, {"m1", "f1", "f2", "c1"}}
SmallKwKinds == {"object", "concept", "other"} \cup Kinds
=============================================================================
