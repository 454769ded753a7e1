------------------------ MODULE KnowledgeGraphProofs ------------------------
(***************************************************************************)
(* Proofs about the vocabulary, with any batches and any loads that go     *)
(* through the pipeline (VocabSpec), and about the graph with loaders that *)
(* have it and loaders that do not (KGSpec).                               *)
(***************************************************************************)
EXTENDS KnowledgeGraph, WellFoundedInduction, TLAPS

Entry == [cand : Candidates, emb : BOOLEAN]

\* What can be listed was ready, and so was what is listed
VocabInv ==
  /\ cand \in [Candidates -> Node]
  /\ standard \in [Kinds -> SUBSET Terms]
  /\ batch \in [Promoters -> SUBSET Entry]
  /\ distinct \subseteq Candidates
  /\ \A c \in Candidates : SeenEnough(cand[c]) => c \in ready
  /\ \A p \in Promoters : \A e \in batch[p] : e.cand \in ready
  /\ PromotedIsDistinct

VocabStep == [VocabNext \/ \E c \in Candidates, emb \in BOOLEAN : observe(c, emb)]_vocabVars

-----------------------------------------------------------------------------
(* The largest similarity.                                                 *)

\* A set of percentages has a largest one
LEMMA LargestPercent ==
  ASSUME NEW S, S \subseteq -100..100, S # {}
  PROVE  \E m \in S : \A x \in S : x <= m
<1> DEFINE T == {n \in Nat : 100 - n \in S}
<1>1. T \subseteq Nat /\ T # {}
  <2>1. PICK x \in S : TRUE
    OBVIOUS
  <2>2. 100 - x \in Nat /\ 100 - (100 - x) = x
    BY <2>1
  <2> QED BY <2>2
<1>2. PICK n \in T : \A k \in T : ~(<<k, n>> \in OpToRel(<, Nat))
  <2> HIDE DEF T
  <2> QED BY <1>1, NatLessThanWellFounded, WFMin
<1>3. \A k \in T : n <= k
  <2> HIDE DEF T
  <2>1. \A k \in T : ~(k < n)
    BY <1>1, <1>2, Zenon DEF OpToRel
  <2> QED BY <1>1, <2>1
<1>4. \A x \in S : 100 - x \in T
  OBVIOUS
<1>5. n \in Nat /\ 100 - n \in S
  OBVIOUS
<1>6. \A x \in S : x <= 100 - n
  <2> SUFFICES ASSUME NEW x \in S PROVE x <= 100 - n
    OBVIOUS
  <2>1. x \in Int /\ 100 - x \in Int
    OBVIOUS
  <2>2. n <= 100 - x
    BY <1>3, <1>4
  <2> QED BY <1>5, <2>1, <2>2
<1> QED BY <1>5, <1>6

\* MaxSim is the similarity to a name, and to no name a smaller one than any
LEMMA MaxSimIsMax ==
  ASSUME NEW t \in Terms, Catalog # {}
  PROVE  /\ MaxSim(t) \in -100..100
         /\ \A n \in Catalog : Cosine[t][n] <= MaxSim(t)
<1>1. Cosines(t) \subseteq -100..100 /\ Cosines(t) # {}
  BY VocabAssumption DEF Cosines
<1>2. \E m \in Cosines(t) : \A x \in Cosines(t) : x <= m
  BY <1>1, LargestPercent
<1>3. MaxSim(t) \in Cosines(t) /\ \A x \in Cosines(t) : x <= MaxSim(t)
  BY <1>2 DEF MaxSim
<1> QED BY <1>1, <1>3 DEF Cosines

-----------------------------------------------------------------------------
(* The vocabulary.                                                         *)

LEMMA VocabInitInv == VocabInit => VocabInv
<1> SUFFICES ASSUME VocabInit PROVE VocabInv
  OBVIOUS
<1>2. standard \in [Kinds -> SUBSET Terms]
  BY VocabAssumption DEF VocabInit
<1>3. NoNode \in Node /\ ~SeenEnough(NoNode)
  BY VocabAssumption DEF NoNode, Node, SeenEnough
<1>4. \A c \in Candidates : cand[c] = NoNode
  BY DEF VocabInit
<1>5. cand \in [Candidates -> Node] /\ batch \in [Promoters -> SUBSET Entry]
  BY <1>3 DEF VocabInit
<1> QED BY <1>2, <1>3, <1>4, <1>5 DEF VocabInit, VocabInv, PromotedIsDistinct

\* A step that changes candidates only, one of them, and notes who is ready
LEMMA NotedInv ==
  ASSUME VocabInv, NEW c \in Candidates, NEW node \in Node,
         cand' = [cand EXCEPT ![c] = node], NoteReady,
         UNCHANGED <<standard, batch, distinct>>
  PROVE  VocabInv'
<1>1. cand' \in [Candidates -> Node]
  BY DEF VocabInv
<1>2. \A d \in Candidates : SeenEnough(cand'[d]) => d \in ready'
  BY DEF NoteReady
<1>3. ready \subseteq ready'
  BY DEF NoteReady
<1>4. PromotedIsDistinct'
  BY DEF VocabInv, PromotedIsDistinct
<1>5. \A p \in Promoters : \A e \in batch'[p] : e.cand \in ready'
  BY <1>3 DEF VocabInv
<1>6. \A d \in Candidates : SeenEnough(cand[d])' => d \in ready'
  BY <1>2 DEF SeenEnough
<1> QED BY <1>1, <1>4, <1>5, <1>6 DEF VocabInv

LEMMA ObserveInv ==
  ASSUME VocabInv, NEW c \in Candidates, NEW emb \in BOOLEAN, observe(c, emb)
  PROVE  VocabInv'
<1>1. Observed(cand[c], emb) \in Node
  BY VocabAssumption DEF VocabInv, Node, Observed
<1> QED BY <1>1, NotedInv DEF observe

LEMMA AgeInv ==
  ASSUME VocabInv, NEW c \in Candidates, Age(c)
  PROVE  VocabInv'
<1>1. [cand[c] EXCEPT !.old = TRUE] \in Node
  BY DEF VocabInv, Node
<1> QED BY <1>1, NotedInv DEF Age

\* A step after which no more candidates are listable, no batch is longer and no
\* term is standard that was not
LEMMA QuietInv ==
  ASSUME VocabInv,
         cand' \in [Candidates -> Node],
         \A c \in Candidates : SeenEnough(cand'[c]) => SeenEnough(cand[c]),
         batch' \in [Promoters -> SUBSET Entry],
         \A p \in Promoters : \A e \in batch'[p] : e.cand \in ready,
         UNCHANGED <<standard, ready, distinct>>
  PROVE  VocabInv'
<1>1. \A c \in Candidates : SeenEnough(cand[c])' => c \in ready'
  BY DEF VocabInv, SeenEnough
<1>2. PromotedIsDistinct'
  BY DEF VocabInv, PromotedIsDistinct
<1> QED BY <1>1, <1>2 DEF VocabInv

LEMMA NewMonthInv ==
  ASSUME VocabInv, NEW c \in Candidates, NewMonth(c)
  PROVE  VocabInv'
<1>1. cand' = [cand EXCEPT ![c].old = FALSE]
  BY DEF NewMonth
<1>2. cand' \in [Candidates -> Node]
  BY <1>1 DEF VocabInv, Node
<1>3. \A d \in Candidates : SeenEnough(cand'[d]) => SeenEnough(cand[d])
  BY <1>1 DEF VocabInv, Node, SeenEnough
<1> QED BY <1>2, <1>3, QuietInv DEF NewMonth, VocabInv

LEMMA ListInv ==
  ASSUME VocabInv, NEW p \in Promoters, list_promotion_candidates(p)
  PROVE  VocabInv'
<1> DEFINE all == {[cand |-> c, emb |-> cand[c].emb] :
                     c \in {d \in Candidates : Listable(cand[d])}}
<1>1. batch' = [batch EXCEPT ![p] = all] /\ UNCHANGED <<cand, standard, ready, distinct>>
  BY DEF list_promotion_candidates
<1>2. \A e \in all : e \in Entry /\ e.cand \in ready
  <2>1. \A c \in Candidates : cand[c].emb \in BOOLEAN
    BY DEF VocabInv, Node
  <2>2. \A c \in Candidates : Listable(cand[c]) => c \in ready
    BY DEF VocabInv, SeenEnough, Listable
  <2> QED BY <2>1, <2>2 DEF Entry
<1> HIDE DEF all
<1>3. batch' \in [Promoters -> SUBSET Entry]
  BY <1>1, <1>2 DEF VocabInv
<1>4. \A q \in Promoters : \A e \in batch'[q] : e.cand \in ready
  BY <1>1, <1>2 DEF VocabInv
<1> QED BY <1>1, <1>3, <1>4, QuietInv DEF VocabInv

\* A decided candidate leaves the batch
LEMMA DecideInv ==
  ASSUME VocabInv, NEW p \in Promoters, run_batch(p)
  PROVE  VocabInv'
<1>1. PICK e \in batch[p] : Decide(e) /\ batch' = [batch EXCEPT ![p] = @ \ {e}]
                            /\ UNCHANGED <<batchFaults, months, ready>>
  BY DEF run_batch
<1> DEFINE c == e.cand
           t == c[1]
<1>2. c \in Candidates /\ t \in Terms /\ c[2] \in Kinds /\ c = <<t, c[2]>> /\ c \in ready
      /\ e.emb \in BOOLEAN
  BY DEF VocabInv, Entry, Candidates
<1>3. batch' \in [Promoters -> SUBSET Entry]
  BY <1>1 DEF VocabInv
<1>4. \A q \in Promoters : \A d \in batch'[q] : d.cand \in ready
  BY <1>1 DEF VocabInv
<1>5. NoNode \in Node /\ ~SeenEnough(NoNode)
  BY VocabAssumption DEF NoNode, Node, SeenEnough
<1>6. CASE UNCHANGED <<cand, standard, distinct>>
  BY <1>1, <1>3, <1>4, <1>6, QuietInv DEF VocabInv
<1>7. CASE cand' = [cand EXCEPT ![c] = NoNode] /\ UNCHANGED <<standard, distinct>>
  <2>1. /\ cand' \in [Candidates -> Node]
        /\ \A d \in Candidates : SeenEnough(cand'[d]) => SeenEnough(cand[d])
    BY <1>5, <1>7 DEF VocabInv
  <2> QED BY <1>1, <1>3, <1>4, <1>7, <2>1, QuietInv
<1>8. CASE /\ PromoteTerm(c, e.emb)
           /\ e.emb => Catalog = {} \/ ~(MaxSim(t) >= PromoteMaxCosSim)
  <2>1. /\ standard' = [standard EXCEPT ![c[2]] = @ \cup {t}]
        /\ cand' = [cand EXCEPT ![c] = NoNode]
        /\ distinct' = IF e.emb THEN distinct \cup {c} ELSE distinct
    BY <1>8 DEF PromoteTerm
  <2>2. cand' \in [Candidates -> Node]
    BY <1>5, <2>1 DEF VocabInv
  <2>3. \A d \in Candidates : SeenEnough(cand[d])' => d \in ready'
    BY <1>1, <1>5, <2>1 DEF VocabInv, SeenEnough
  <2>4. standard' \in [Kinds -> SUBSET Terms]
    BY <1>2, <2>1 DEF VocabInv
  <2>5. PromotedIsDistinct'
    <3>1. ASSUME e.emb, NEW n \in Catalog PROVE Cosine[t][n] < PromoteMaxCosSim
      <4>1. MaxSim(t) \in -100..100 /\ Cosine[t][n] <= MaxSim(t)
        BY <1>2, <3>1, MaxSimIsMax
      <4>2. Cosine[t][n] \in -100..100
        <5>1. Cosine \in [Terms -> [Catalog -> -100..100]] /\ t \in Terms
          BY <1>2, VocabAssumption
        <5> HIDE DEF c, t
        <5> QED BY <5>1
      <4>3. ~(MaxSim(t) >= PromoteMaxCosSim)
        BY <1>8, <3>1
      <4> HIDE DEF c, t
      <4>4. \A x, y \in -100..100 :
              x <= y /\ ~(y >= PromoteMaxCosSim) => x < PromoteMaxCosSim
        BY DEF PromoteMaxCosSim
      <4> QED BY <4>1, <4>2, <4>3, <4>4
    <3>2. PromotedIsDistinct
      BY DEF VocabInv
    <3> QED BY <2>1, <3>1, <3>2 DEF PromotedIsDistinct
  <2> QED BY <1>1, <1>2, <1>3, <1>4, <2>1, <2>2, <2>3, <2>4, <2>5 DEF VocabInv
<1>9. \/ UNCHANGED <<cand, standard, distinct>>
      \/ cand' = [cand EXCEPT ![c] = NoNode] /\ UNCHANGED <<standard, distinct>>
      \/ /\ PromoteTerm(c, e.emb)
         /\ e.emb => Catalog = {} \/ ~(MaxSim(t) >= PromoteMaxCosSim)
  <2>1. CASE e.emb /\ HasAlias(t)
    <3>1. PICK n \in Best(t) : AddAlias(c, n)
      BY <1>1, <2>1 DEF Decide
    <3> QED BY <3>1 DEF AddAlias
  <2>2. CASE /\ ~(e.emb /\ HasAlias(t))
             /\ e.emb /\ Catalog # {} /\ MaxSim(t) >= PromoteMaxCosSim
    BY <1>1, <2>2 DEF Decide
  <2>3. CASE /\ ~(e.emb /\ HasAlias(t))
             /\ ~(e.emb /\ Catalog # {} /\ MaxSim(t) >= PromoteMaxCosSim)
    BY <1>1, <2>3 DEF Decide
  <2> QED BY <2>1, <2>2, <2>3
<1> QED BY <1>6, <1>7, <1>8, <1>9

LEMMA BatchFailsInv ==
  ASSUME VocabInv, NEW p \in Promoters, BatchFails(p)
  PROVE  VocabInv'
<1>1. batch' = [batch EXCEPT ![p] = {}] /\ UNCHANGED <<cand, standard, ready, distinct>>
  BY DEF BatchFails
<1>2. /\ batch' \in [Promoters -> SUBSET Entry]
      /\ \A q \in Promoters : \A e \in batch'[q] : e.cand \in ready
  BY <1>1 DEF VocabInv
<1> QED BY <1>1, <1>2, QuietInv DEF VocabInv

LEMMA SeedInv ==
  ASSUME VocabInv, NEW k \in Kinds, NEW t \in Library[k], Seed(k, t)
  PROVE  VocabInv'
<1>1. standard' = [standard EXCEPT ![k] = @ \cup {t}]
      /\ UNCHANGED <<cand, batch, ready, distinct>>
  BY DEF Seed
<1>2. t \in Terms
  BY VocabAssumption
<1>3. standard' \in [Kinds -> SUBSET Terms]
  BY <1>1, <1>2 DEF VocabInv
<1>4. PromotedIsDistinct'
  BY <1>1 DEF VocabInv, PromotedIsDistinct
<1> QED BY <1>1, <1>3, <1>4 DEF VocabInv, SeenEnough

LEMMA VocabNextInv ==
  ASSUME VocabInv, VocabStep
  PROVE  VocabInv'
<1>1. CASE UNCHANGED vocabVars
  BY <1>1 DEF vocabVars, VocabInv, PromotedIsDistinct, SeenEnough
<1>2. CASE \E c \in Candidates, emb \in BOOLEAN : observe(c, emb)
  BY <1>2, ObserveInv
<1>3. CASE VocabNext
  BY <1>3, AgeInv, NewMonthInv, ListInv, DecideInv, BatchFailsInv, SeedInv
     DEF VocabNext, Promoter
<1> QED BY <1>1, <1>2, <1>3 DEF VocabStep

\* What is ready stays so, and a step makes standard only what is ready or of
\* the library
Earns ==
  /\ ready \subseteq ready'
  /\ \A k \in Kinds : \A t \in standard'[k] :
       t \in standard[k] \/ t \in Library[k] \/ <<t, k>> \in ready'

LEMMA VocabEarns ==
  ASSUME VocabInv, VocabStep
  PROVE  Earns
<1>1. ready \subseteq ready'
  BY DEF VocabStep, VocabNext, Promoter, vocabVars, observe, Age, NewMonth, NoteReady,
         list_promotion_candidates, run_batch, BatchFails, Seed
<1>2. CASE standard' = standard
  BY <1>1, <1>2 DEF Earns
<1>3. ASSUME NEW k \in Kinds, NEW t \in Library[k], Seed(k, t) PROVE Earns
  <2>1. standard' = [standard EXCEPT ![k] = @ \cup {t}]
    BY <1>3 DEF Seed
  <2>2. \A j \in Kinds : standard'[j] \subseteq standard[j] \cup Library[j]
    BY <2>1 DEF VocabInv
  <2> QED BY <1>1, <2>2 DEF Earns
<1>4. ASSUME NEW p \in Promoters, run_batch(p), standard' # standard PROVE Earns
  <2>1. PICK e \in batch[p] : Decide(e)
    BY <1>4 DEF run_batch
  <2>2. standard' = [standard EXCEPT ![e.cand[2]] = @ \cup {e.cand[1]}]
    BY <1>4, <2>1 DEF Decide, AddAlias, PromoteTerm
  <2>3. e.cand \in ready /\ e.cand = <<e.cand[1], e.cand[2]>> /\ e.cand[2] \in Kinds
    BY DEF VocabInv, Entry, Candidates
  <2>4. \A j \in Kinds : \A t \in standard'[j] : t \in standard[j] \/ <<t, j>> \in ready
    BY <2>2, <2>3 DEF VocabInv
  <2> QED BY <1>1, <2>4 DEF Earns
<1>5. \/ standard' = standard
      \/ \E k \in Kinds : \E t \in Library[k] : Seed(k, t)
      \/ \E p \in Promoters : run_batch(p)
  BY DEF VocabStep, VocabNext, Promoter, vocabVars, observe, Age, NewMonth,
         list_promotion_candidates, BatchFails
<1> QED BY <1>2, <1>3, <1>4, <1>5

THEOREM VocabInvariance == VocabSpec => []VocabInv
BY VocabInitInv, VocabNextInv, PTL DEF VocabSpec, VocabStep

\* No term becomes standard but one of the library or one that was observed often
\* and long enough, with any number of loads through the pipeline, overlapping
\* and failing batches.
THEOREM StandardTermsAreEarned == VocabSpec => []StandardIsEarned
<1>1. VocabInit => StandardIsEarned
  BY VocabAssumption DEF VocabInit, StandardIsEarned
<1>2. VocabInv /\ StandardIsEarned /\ VocabStep => StandardIsEarned'
  BY VocabEarns DEF Earns, StandardIsEarned
<1> QED BY <1>1, <1>2, VocabInvariance, PTL DEF VocabSpec, VocabStep

\* No near duplicate of a catalog name is promoted with its embedding in hand.
THEOREM PromotedTermsAreDistinct == VocabSpec => []PromotedIsDistinct
<1>1. VocabInv => PromotedIsDistinct
  BY DEF VocabInv
<1> QED BY <1>1, VocabInvariance, PTL

-----------------------------------------------------------------------------
(* The graph.                                                              *)

Shaped(g) ==
  g = [loaded |-> g.loaded, stubs |-> g.stubs, created |-> g.created,
       rels |-> g.rels, kind |-> g.kind]

Deliveries == [payload : Payloads, way : Ways]

\* A document was loaded exactly if it was delivered, a feed without properties
\* is one that was not, and a load under way is of a movie
GraphInv ==
  /\ Shaped(graph)
  /\ graph.loaded \in [Docs -> Payloads \cup {NoPayload}]
  /\ \A f \in graph.stubs : f \in Feeds /\ graph.loaded[f] = NoPayload
  /\ graph.created \in [Docs -> {0} \cup Times]
  /\ graph.kind \in [Keywords -> KwKinds \cup {"none"}]
  /\ \A r \in graph.rels : r = <<r[1], r[2], r[3]>> /\ r[1] \in Docs
  /\ delivered \subseteq Deliveries
  /\ \A e \in delivered : e.way \in {"resolved", "as_given"} <=> Payload[e.payload].type = "movie"
  /\ \A d \in Docs : graph.loaded[d] # NoPayload <=>
       \E e \in delivered : Payload[e.payload].doc = d
  /\ workload \in Workloads
  /\ loading \in [Loaders -> [payload : Payloads \cup {NoPayload}, next : Nat \ {0}]]
  /\ \A l \in Loaders : loading[l].payload # NoPayload => Payload[loading[l].payload].type = "movie"

\* The document of a payload that is not a feed is not a feed
LEMMA FeedsAreApart ==
  ASSUME NEW n \in Payloads, Payload[n].type # "feed"
  PROVE  Payload[n].doc \in Docs /\ Payload[n].doc \notin Feeds
BY GraphAssumption DEF Docs, Feeds

LEMMA MoviesAreApart ==
  ASSUME NEW n \in Payloads, Payload[n].type # "movie"
  PROVE  Payload[n].doc \in Docs /\ Payload[n].doc \notin Movies
BY GraphAssumption DEF Docs, Movies

LEMMA DocsOfKinds == Feeds \subseteq Docs /\ Movies \subseteq Docs
BY DEF Feeds, Movies, Docs

LEMMA ParentIsFeed ==
  ASSUME NEW n \in Payloads, Payload[n].type = "comment"
  PROVE  Payload[n].feed \in Feeds
BY GraphAssumption DEF Feeds

\* What the statements set
Update(g, d, n, s, c, r, k) ==
  [g EXCEPT !.loaded[d] = n, !.stubs = s, !.created[d] = c, !.rels = r, !.kind = k]

\* What an update makes of g: the graph and its fields
IsUpdate(u, g, d, n, s, c, r, k) ==
  /\ Shaped(u)
  /\ u.loaded = [g.loaded EXCEPT ![d] = n]
  /\ u.stubs = s
  /\ u.created = [g.created EXCEPT ![d] = c]
  /\ u.rels = r
  /\ u.kind = k

LEMMA Updated ==
  ASSUME NEW g, Shaped(g), NEW d, NEW n, NEW s, NEW c, NEW r, NEW k
  PROVE  IsUpdate(Update(g, d, n, s, c, r, k), g, d, n, s, c, r, k)
<1> DEFINE u == Update(g, d, n, s, c, r, k)
<1>1. DOMAIN g = {"loaded", "stubs", "created", "rels", "kind"}
  BY DEF Shaped
<1>2. DOMAIN u = {"loaded", "stubs", "created", "rels", "kind"}
  BY <1>1 DEF Update
<1>3. Shaped(u)
  <2>1. u = [field \in DOMAIN u |-> u[field]]
    BY DEF Update
  <2> HIDE DEF u
  <2> QED BY <1>2, <2>1 DEF Shaped
<1>4. u.loaded = [g.loaded EXCEPT ![d] = n] /\ u.stubs = s
  BY <1>1 DEF Update
<1>5. u.created = [g.created EXCEPT ![d] = c]
  BY <1>1 DEF Update
<1>6. u.rels = r /\ u.kind = k
  BY <1>1 DEF Update
<1> QED BY <1>3, <1>4, <1>5, <1>6 DEF IsUpdate

LEMMA UpsertedMovie ==
  ASSUME NEW g, Shaped(g), NEW n, NEW themes, NEW moods,
         NEW u, u = UpsertMovie(g, n, themes, moods)
  PROVE  /\ Shaped(u)
         /\ u.loaded = [g.loaded EXCEPT ![Payload[n].doc] = n]
         /\ u.stubs = g.stubs
         /\ u.created = g.created
         /\ u.rels = g.rels \cup MovieRelations(Payload[n], themes, moods)
         /\ u.kind = KindsAfter(g.kind, Payload[n], MovieRelations(Payload[n], themes, moods))
<1>1. DOMAIN g = {"loaded", "stubs", "created", "rels", "kind"}
  BY DEF Shaped
<1> DEFINE new == MovieRelations(Payload[n], themes, moods)
           r == g.rels \cup new
           k == KindsAfter(g.kind, Payload[n], new)
<1>2. u = [g EXCEPT !.loaded[Payload[n].doc] = n, !.rels = r, !.kind = k]
  BY DEF UpsertMovie
<1> HIDE DEF r, k
<1>3. DOMAIN u = {"loaded", "stubs", "created", "rels", "kind"}
  BY <1>1, <1>2
<1>4. Shaped(u)
  BY <1>2, <1>3 DEF Shaped
<1>5. u.loaded = [g.loaded EXCEPT ![Payload[n].doc] = n]
  BY <1>1, <1>2
<1>6. u.stubs = g.stubs /\ u.created = g.created
  BY <1>1, <1>2
<1>7. u.rels = r
  BY <1>1, <1>2
<1>8. u.kind = k
  BY <1>1, <1>2
<1> QED BY <1>4, <1>5, <1>6, <1>7, <1>8 DEF r, k

LEMMA UpsertedFeed ==
  ASSUME NEW g, Shaped(g), NEW n, NEW now, NEW u, u = UpsertFeed(g, n, now)
  PROVE  /\ Shaped(u)
         /\ u.loaded = [g.loaded EXCEPT ![Payload[n].doc] = n]
         /\ u.stubs = g.stubs \ {Payload[n].doc}
         /\ u.created = [g.created EXCEPT ![Payload[n].doc] =
                           CreatedAfter(g.created[Payload[n].doc], Payload[n], now)]
         /\ u.rels = g.rels \cup {<<Payload[n].doc, "WRITTEN_BY", Payload[n].author>>}
                            \cup About(g, Payload[n]) \cup FeedRelations(Payload[n])
         /\ u.kind = KindsAfter(g.kind, Payload[n], FeedRelations(Payload[n]))
<1> DEFINE p == Payload[n]
           s == g.stubs \ {p.doc}
           c == CreatedAfter(g.created[p.doc], p, now)
           r == g.rels \cup {<<p.doc, "WRITTEN_BY", p.author>>}
                       \cup About(g, p) \cup FeedRelations(p)
           k == KindsAfter(g.kind, p, FeedRelations(p))
<1>1. u = Update(g, p.doc, n, s, c, r, k)
  BY DEF UpsertFeed, Update
<1> HIDE DEF p, s, c, r, k
<1>2. IsUpdate(u, g, p.doc, n, s, c, r, k)
  BY <1>1, Updated
<1> QED BY <1>2 DEF IsUpdate, p, s, c, r, k

\* The two relations every comment has
Own(p) == {<<p.doc, "WRITTEN_BY", p.author>>, <<p.doc, "ON_FEED", p.feed>>}

LEMMA UpsertedComment ==
  ASSUME NEW g, Shaped(g), NEW n, NEW now, NEW u, u = UpsertComment(g, n, now)
  PROVE  /\ Shaped(u)
         /\ u.loaded = [g.loaded EXCEPT ![Payload[n].doc] = n]
         /\ u.stubs = g.stubs \cup Parent(g, Payload[n])
         /\ u.created = [g.created EXCEPT ![Payload[n].doc] =
                           CreatedAfter(g.created[Payload[n].doc], Payload[n], now)]
         /\ u.rels = g.rels \cup Own(Payload[n]) \cup CommentRelations(Payload[n])
         /\ u.kind = KindsAfter(g.kind, Payload[n], CommentRelations(Payload[n]))
<1> DEFINE p == Payload[n]
           s == g.stubs \cup Parent(g, p)
           c == CreatedAfter(g.created[p.doc], p, now)
           r == g.rels \cup Own(p) \cup CommentRelations(p)
           k == KindsAfter(g.kind, p, CommentRelations(p))
<1>1. u = Update(g, p.doc, n, s, c, r, k)
  BY DEF UpsertComment, Update, Own
<1> HIDE DEF p, s, c, r, k
<1>2. IsUpdate(u, g, p.doc, n, s, c, r, k)
  BY <1>1, Updated
<1> QED BY <1>2 DEF IsUpdate, p, s, c, r, k

-----------------------------------------------------------------------------
(* The relations of one delivery.                                          *)

\* The nested UNWINDs of a movie make what is expected of it
LEMMA MovieUnwound ==
  ASSUME NEW p, NEW its_themes, NEW its_moods
  PROVE  MovieRelations(p, its_themes, its_moods) = ExpectedOfMovie(p, its_themes, its_moods)
<1>1. ASSUME NEW genres, NEW themes, NEW moods, NEW keywords
      PROVE  Unwind(p.doc, "HAS_GENRE", genres,
               Unwind(p.doc, "HAS_THEME", themes,
                 Unwind(p.doc, "HAS_MOOD", moods,
                   Unwind(p.doc, "MENTIONS", keywords, {}))))
             = Listed(p, "HAS_GENRE", genres, {}) \cup Listed(p, "HAS_THEME", themes, {genres})
               \cup Listed(p, "HAS_MOOD", moods, {genres, themes})
               \cup Listed(p, "MENTIONS", keywords, {genres, themes, moods})
  <2>1. ASSUME NEW type PROVE Relate(p.doc, type, {}) = {}
    BY DEF Relate
  <2>2. CASE genres = {}
    BY <2>1, <2>2 DEF Unwind, Listed
  <2>3. CASE genres # {} /\ themes = {}
    BY <2>1, <2>3 DEF Unwind, Listed
  <2>4. CASE genres # {} /\ themes # {} /\ moods = {}
    BY <2>1, <2>4 DEF Unwind, Listed
  <2>5. CASE genres # {} /\ themes # {} /\ moods # {}
    BY <2>1, <2>5 DEF Unwind, Listed
  <2> QED BY <2>2, <2>3, <2>4, <2>5
<1> QED BY <1>1, Zenon DEF MovieRelations, Mentioned, ExpectedOfMovie

\* The pipeline resolves a list to the library's spellings of what it has
LEMMA ResolvesToSpellings ==
  ASSUME NEW terms
  PROVE  /\ resolve_themes(terms) = Spelled("theme", terms)
         /\ resolve_moods(terms) = Spelled("mood", terms)
BY DEF resolve_themes, resolve_moods, InLibrary, Spelled

LEMMA FeedUnwound ==
  ASSUME NEW p
  PROVE  {<<p.doc, "WRITTEN_BY", p.author>>} \cup FeedRelations(p) = ExpectedOfFeed(p)
<1>1. ASSUME NEW categories, NEW emotions, NEW keywords
      PROVE  Unwind(p.doc, "HAS_CATEGORY", categories,
               Unwind(p.doc, "HAS_EMOTION", emotions,
                 Unwind(p.doc, "MENTIONS", keywords, {})))
             = Listed(p, "HAS_CATEGORY", categories, {})
               \cup Listed(p, "HAS_EMOTION", emotions, {categories})
               \cup Listed(p, "MENTIONS", keywords, {categories, emotions})
  <2>1. ASSUME NEW type PROVE Relate(p.doc, type, {}) = {}
    BY DEF Relate
  <2>2. CASE categories = {}
    BY <2>1, <2>2 DEF Unwind, Listed
  <2>3. CASE categories # {} /\ emotions = {}
    BY <2>1, <2>3 DEF Unwind, Listed
  <2>4. CASE categories # {} /\ emotions # {}
    BY <2>1, <2>4 DEF Unwind, Listed
  <2> QED BY <2>2, <2>3, <2>4
<1>2. FeedRelations(p) =
        Listed(p, "HAS_CATEGORY", ToSet(p.categories), {})
          \cup Listed(p, "HAS_EMOTION", ToSet(p.emotions), {ToSet(p.categories)})
          \cup Listed(p, "MENTIONS", NamesOf(p.keywords), {ToSet(p.categories), ToSet(p.emotions)})
  BY <1>1, Zenon DEF FeedRelations, Mentioned
<1> QED BY <1>2, Zenon DEF ExpectedOfFeed

LEMMA CommentUnwound ==
  ASSUME NEW p
  PROVE  Own(p) \cup CommentRelations(p) = ExpectedOfComment(p)
<1>1. ASSUME NEW emotions, NEW keywords
      PROVE  Unwind(p.doc, "HAS_EMOTION", emotions,
               Unwind(p.doc, "MENTIONS", keywords, {}))
             = Listed(p, "HAS_EMOTION", emotions, {})
               \cup Listed(p, "MENTIONS", keywords, {emotions})
  <2>1. ASSUME NEW type PROVE Relate(p.doc, type, {}) = {}
    BY DEF Relate
  <2>2. CASE emotions = {}
    BY <2>1, <2>2 DEF Unwind, Listed
  <2>3. CASE emotions # {}
    BY <2>1, <2>3 DEF Unwind, Listed
  <2> QED BY <2>2, <2>3
<1> QED BY <1>1 DEF CommentRelations, Mentioned, ExpectedOfComment, Own

\* They start at its document.  Only a feed whose movie is known is about a movie,
\* only movies have themes and moods, those of a movie that was resolved are of the
\* library, and what is mentioned is a keyword.
LEMMA ExpectedAre ==
  ASSUME NEW e \in Deliveries, NEW r \in ExpectedRelations(e)
  PROVE  /\ r = <<Payload[e.payload].doc, r[2], r[3]>>
         /\ r[2] = "ABOUT_MOVIE" => e.way = "movie_known" /\ r[3] = Payload[e.payload].movie
         /\ \A k \in Kinds : r[2] = Has[k] =>
              \/ e.way = "resolved" /\ r[3] \in Library[k]
              \/ e.way = "as_given" /\ (Payload[e.payload].type = "movie" => r[3] \in Terms)
         /\ r[2] = "MENTIONS" => r[3] \in NamesOf(Payload[e.payload].keywords)
<1> DEFINE p == Payload[e.payload]
<1>1. ASSUME NEW type, NEW names, NEW before, r \in Listed(p, type, names, before)
      PROVE  r = <<p.doc, type, r[3]>> /\ r[2] = type /\ r[3] \in names
  BY <1>1 DEF Listed, Relate
<1>2. ASSUME NEW themes, NEW moods, r \in ExpectedOfMovie(p, themes, moods)
      PROVE  /\ r = <<p.doc, r[2], r[3]>> /\ r[2] # "ABOUT_MOVIE"
             /\ r[2] = "HAS_THEME" => r[3] \in themes
             /\ r[2] = "HAS_MOOD" => r[3] \in moods
             /\ r[2] = "MENTIONS" => r[3] \in NamesOf(p.keywords)
  BY <1>1, <1>2 DEF ExpectedOfMovie
<1>3. ASSUME r \in ExpectedOfFeed(p) \/ r \in ExpectedOfComment(p)
      PROVE  /\ r = <<p.doc, r[2], r[3]>>
             /\ r[2] \notin {"ABOUT_MOVIE", "HAS_THEME", "HAS_MOOD"}
             /\ r[2] = "MENTIONS" => r[3] \in NamesOf(p.keywords)
  BY <1>1, <1>3 DEF ExpectedOfFeed, ExpectedOfComment
<1>4. Has["theme"] = "HAS_THEME" /\ Has["mood"] = "HAS_MOOD"
  BY DEF Has
<1>5. \A k \in Kinds : k = "theme" \/ k = "mood"
  BY DEF Kinds
<1>6. CASE e.way = "resolved"
  <2>1. r \in ExpectedOfMovie(p, Spelled("theme", p.themes), Spelled("mood", p.moods))
    BY <1>6 DEF ExpectedRelations
  <2>2. /\ Spelled("theme", p.themes) \subseteq Library["theme"]
        /\ Spelled("mood", p.moods) \subseteq Library["mood"]
    BY DEF Spelled
  <2> HIDE DEF p
  <2>3. /\ r = <<p.doc, r[2], r[3]>> /\ r[2] # "ABOUT_MOVIE"
        /\ r[2] = "HAS_THEME" => r[3] \in Library["theme"]
        /\ r[2] = "HAS_MOOD" => r[3] \in Library["mood"]
        /\ r[2] = "MENTIONS" => r[3] \in NamesOf(p.keywords)
    BY <1>2, <2>1, <2>2
  <2> QED BY <1>4, <1>5, <1>6, <2>3 DEF p
<1>7. CASE e.way = "as_given"
  <2>1. r \in ExpectedOfMovie(p, ToSet(p.themes), ToSet(p.moods))
    BY <1>7 DEF ExpectedRelations
  <2>2. ASSUME p.type = "movie"
        PROVE  ToSet(p.themes) \subseteq Terms /\ ToSet(p.moods) \subseteq Terms
    <3>1. p.themes \in Seq(Terms) /\ p.moods \in Seq(Terms)
      BY <2>2, TermAssumption DEF Deliveries
    <3> HIDE DEF p
    <3> QED BY <3>1 DEF ToSet
  <2> HIDE DEF p
  <2>3. /\ r = <<p.doc, r[2], r[3]>> /\ r[2] # "ABOUT_MOVIE"
        /\ r[2] = "HAS_THEME" => r[3] \in ToSet(p.themes)
        /\ r[2] = "HAS_MOOD" => r[3] \in ToSet(p.moods)
        /\ r[2] = "MENTIONS" => r[3] \in NamesOf(p.keywords)
    BY <1>2, <2>1
  <2> QED BY <1>4, <1>5, <1>7, <2>2, <2>3 DEF p
<1>8. CASE e.way = "movie_known"
  <2>1. r \in ExpectedOfFeed(p) \/ r = <<p.doc, "ABOUT_MOVIE", p.movie>>
    BY <1>8 DEF ExpectedRelations
  <2> HIDE DEF p
  <2> QED BY <1>3, <1>4, <1>5, <1>8, <2>1 DEF p
<1>9. CASE e.way = "plain"
  <2>1. r \in ExpectedOfFeed(p) \/ r \in ExpectedOfComment(p)
    BY <1>9 DEF ExpectedRelations
  <2> HIDE DEF p
  <2> QED BY <1>3, <1>4, <1>5, <2>1 DEF p
<1> QED BY <1>6, <1>7, <1>8, <1>9 DEF Deliveries, Ways

-----------------------------------------------------------------------------
(* The steps of the graph.                                                 *)

\* What a completed load does, whatever its type
Loads(e) ==
  LET p == Payload[e.payload] IN
  /\ e \in Deliveries /\ p.type \in {"movie", "feed", "comment"}
  /\ e.way \in {"resolved", "as_given"} <=> p.type = "movie"
  /\ e.way = "movie_known" => p.movie \in Movies /\ graph.loaded[p.movie] # NoPayload
  /\ Shaped(graph')
  /\ graph'.loaded = [graph.loaded EXCEPT ![p.doc] = e.payload]
  /\ \/ p.type = "movie" /\ graph'.stubs = graph.stubs
     \/ p.type = "feed" /\ graph'.stubs = graph.stubs \ {p.doc}
     \/ p.type = "comment" /\ graph'.stubs = graph.stubs \cup Parent(graph, p)
  /\ \/ p.type = "movie" /\ graph'.created = graph.created
     \/ /\ p.type # "movie"
        /\ \E now \in Times : graph'.created =
             [graph.created EXCEPT ![p.doc] = CreatedAfter(graph.created[p.doc], p, now)]
  /\ graph'.rels = graph.rels \cup ExpectedRelations(e)
  /\ \E new \in SUBSET ExpectedRelations(e) : graph'.kind = KindsAfter(graph.kind, p, new)
  /\ delivered' = delivered \cup {e}

LEMMA IsDelivery ==
  ASSUME NEW n \in Payloads, NEW way \in Ways
  PROVE  /\ Delivery(n, way) \in Deliveries
         /\ Delivery(n, way).payload = n /\ Delivery(n, way).way = way
BY DEF Delivery, Deliveries

LEMMA FinishMovieLoads ==
  ASSUME GraphInv, NEW l \in Loaders, NEW n \in PayloadsOf("movie"), FinishMovie(l, n)
  PROVE  Loads(Delivery(n, WayOf(l)))
<1> DEFINE p == Payload[n]
           e == Delivery(n, WayOf(l))
           new == MovieRelations(p, ThemesOf(l, p), MoodsOf(l, p))
<1>1. n \in Payloads /\ p.type = "movie"
  BY WorkloadAssumption DEF GraphInv, PayloadsOf
<1>2. /\ graph' = UpsertMovie(graph, n, ThemesOf(l, p), MoodsOf(l, p))
      /\ delivered' = delivered \cup {e}
  BY DEF FinishMovie
<1>3. e \in Deliveries /\ e.payload = n /\ e.way = WayOf(l) /\ e.way \in {"resolved", "as_given"}
  <2>1. WayOf(l) \in {"resolved", "as_given"} /\ WayOf(l) \in Ways
    BY DEF WayOf, Ways
  <2> QED BY <1>1, <2>1, IsDelivery
<1>4. new = ExpectedRelations(e)
  <2>1. new = ExpectedOfMovie(p, ThemesOf(l, p), MoodsOf(l, p))
    BY MovieUnwound
  <2>2. CASE l \in PipelineLoaders
    <3>1. e.way = "resolved"
      BY <1>3, <2>2 DEF WayOf
    <3>2. /\ ThemesOf(l, p) = Spelled("theme", p.themes)
          /\ MoodsOf(l, p) = Spelled("mood", p.moods)
      BY <2>2, ResolvesToSpellings DEF ThemesOf, MoodsOf
    <3>3. ExpectedRelations(e) =
            ExpectedOfMovie(p, Spelled("theme", p.themes), Spelled("mood", p.moods))
      BY <1>3, <3>1 DEF ExpectedRelations
    <3> HIDE DEF new, e
    <3> QED BY <2>1, <3>2, <3>3
  <2>3. CASE l \notin PipelineLoaders
    <3>1. e.way = "as_given"
      BY <1>3, <2>3 DEF WayOf
    <3>2. ThemesOf(l, p) = ToSet(p.themes) /\ MoodsOf(l, p) = ToSet(p.moods)
      BY <2>3 DEF ThemesOf, MoodsOf
    <3>3. ExpectedRelations(e) = ExpectedOfMovie(p, ToSet(p.themes), ToSet(p.moods))
      BY <1>3, <3>1 DEF ExpectedRelations
    <3> HIDE DEF new, e
    <3> QED BY <2>1, <3>2, <3>3
  <2> QED BY <2>2, <2>3
<1> HIDE DEF e
<1>5. /\ Shaped(graph') /\ graph'.loaded = [graph.loaded EXCEPT ![p.doc] = n]
      /\ graph'.stubs = graph.stubs /\ graph'.created = graph.created
      /\ graph'.rels = graph.rels \cup new /\ graph'.kind = KindsAfter(graph.kind, p, new)
  <2>1. Shaped(graph)
    BY DEF GraphInv
  <2> DEFINE themes == ThemesOf(l, p)
             moods == MoodsOf(l, p)
  <2>2. graph' = UpsertMovie(graph, n, themes, moods) /\ new = MovieRelations(Payload[n], themes, moods)
    BY <1>2
  <2> HIDE DEF themes, moods, new
  <2>3. PICK u : u = UpsertMovie(graph, n, themes, moods)
    OBVIOUS
  <2>4. /\ Shaped(u) /\ u.loaded = [graph.loaded EXCEPT ![Payload[n].doc] = n]
        /\ u.stubs = graph.stubs /\ u.created = graph.created
        /\ u.rels = graph.rels \cup MovieRelations(Payload[n], themes, moods)
        /\ u.kind = KindsAfter(graph.kind, Payload[n], MovieRelations(Payload[n], themes, moods))
    BY <2>1, <2>3, UpsertedMovie
  <2>5. graph' = u
    BY <2>2, <2>3
  <2> QED BY <2>2, <2>4, <2>5
<1> HIDE DEF new
<1>6. Loads(e)
  BY <1>1, <1>2, <1>3, <1>4, <1>5 DEF Loads
<1> QED BY <1>6 DEF e

\* The movies that are nodes are those that were delivered
LEMMA KnownMovies ==
  ASSUME GraphInv, NEW m
  PROVE  MovieDelivered(m) <=> m \in Movies /\ graph.loaded[m] # NoPayload
<1>1. ASSUME MovieDelivered(m) PROVE m \in Movies /\ graph.loaded[m] # NoPayload
  <2>1. PICK e \in delivered : Payload[e.payload].type = "movie" /\ Payload[e.payload].doc = m
    BY <1>1 DEF MovieDelivered
  <2>2. e.payload \in Payloads
    BY DEF GraphInv, Deliveries
  <2>3. m \in Movies /\ m \in Docs
    BY <2>1, <2>2 DEF Movies, Docs
  <2> QED BY <2>1, <2>3 DEF GraphInv
<1>2. ASSUME m \in Movies, graph.loaded[m] # NoPayload PROVE MovieDelivered(m)
  <2>1. PICK e \in delivered : Payload[e.payload].doc = m
    BY <1>2, DocsOfKinds DEF GraphInv
  <2>2. e.payload \in Payloads
    BY DEF GraphInv, Deliveries
  <2>3. Payload[e.payload].type = "movie"
    BY <1>2, <2>1, <2>2, MoviesAreApart
  <2> QED BY <2>1, <2>3 DEF MovieDelivered
<1> QED BY <1>1, <1>2

LEMMA LoadFeedLoads ==
  ASSUME GraphInv, NEW n \in PayloadsOf("feed"), NEW now \in Times, LoadFeed(n, now)
  PROVE  \E e : Loads(e) /\ e.payload = n
<1> DEFINE p == Payload[n]
           new == FeedRelations(p)
           own == {<<p.doc, "WRITTEN_BY", p.author>>}
           c == CreatedAfter(graph.created[p.doc], p, now)
           e == Delivery(n, IF MovieDelivered(p.movie) THEN "movie_known" ELSE "plain")
<1>1. n \in Payloads /\ p.type = "feed"
  BY WorkloadAssumption DEF PayloadsOf, GraphInv
<1>2. /\ e \in Deliveries /\ e.payload = n
      /\ e.way = IF MovieDelivered(p.movie) THEN "movie_known" ELSE "plain"
  <2> DEFINE way == IF MovieDelivered(p.movie) THEN "movie_known" ELSE "plain"
  <2>1. way \in Ways
    BY DEF Ways
  <2> HIDE DEF way
  <2> QED BY <1>1, <2>1, IsDelivery DEF way
<1>3. graph' = UpsertFeed(graph, n, now) /\ delivered' = delivered \cup {e}
  BY DEF LoadFeed
<1> HIDE DEF e
<1>4. own \cup About(graph, p) \cup new = ExpectedRelations(e)
  <2>1. own \cup new = ExpectedOfFeed(p)
    BY FeedUnwound
  <2>2. CASE MovieDelivered(p.movie)
    <3>1. About(graph, p) = {<<p.doc, "ABOUT_MOVIE", p.movie>>}
      BY <2>2, KnownMovies DEF About
    <3>2. ExpectedRelations(e) = ExpectedOfFeed(p) \cup {<<p.doc, "ABOUT_MOVIE", p.movie>>}
      BY <1>2, <2>2 DEF ExpectedRelations
    <3> HIDE DEF own, new
    <3> QED BY <2>1, <3>1, <3>2
  <2>3. CASE ~MovieDelivered(p.movie)
    <3>1. About(graph, p) = {}
      BY <2>3, KnownMovies DEF About
    <3>2. ExpectedRelations(e) = ExpectedOfFeed(p)
      BY <1>1, <1>2, <2>3 DEF ExpectedRelations
    <3> HIDE DEF own, new
    <3> QED BY <2>1, <3>1, <3>2
  <2> QED BY <2>2, <2>3
<1>5. /\ Shaped(graph') /\ graph'.loaded = [graph.loaded EXCEPT ![p.doc] = n]
      /\ graph'.stubs = graph.stubs \ {p.doc}
      /\ graph'.created = [graph.created EXCEPT ![p.doc] = c]
      /\ graph'.rels = graph.rels \cup own \cup About(graph, p) \cup new
      /\ graph'.kind = KindsAfter(graph.kind, p, new)
  <2>1. Shaped(graph)
    BY DEF GraphInv
  <2> QED BY <1>3, <2>1, UpsertedFeed
<1> HIDE DEF new, own
<1>6. graph'.rels = graph.rels \cup ExpectedRelations(e) /\ new \in SUBSET ExpectedRelations(e)
  BY <1>4, <1>5
<1>7. e.way = "movie_known" => p.movie \in Movies /\ graph.loaded[p.movie] # NoPayload
  BY <1>2, KnownMovies
<1>8. \E t \in Times : graph'.created =
        [graph.created EXCEPT ![p.doc] = CreatedAfter(graph.created[p.doc], p, t)]
  BY <1>5
<1>9. e.way \notin {"resolved", "as_given"}
  BY <1>2
<1> HIDE DEF c
<1> QED BY <1>1, <1>2, <1>3, <1>5, <1>6, <1>7, <1>8, <1>9 DEF Loads

LEMMA LoadCommentLoads ==
  ASSUME GraphInv, NEW n \in PayloadsOf("comment"), NEW now \in Times, LoadComment(n, now)
  PROVE  \E e : Loads(e) /\ e.payload = n
<1> DEFINE p == Payload[n]
           new == CommentRelations(p)
           own == Own(p)
           c == CreatedAfter(graph.created[p.doc], p, now)
           e == Delivery(n, "plain")
<1>1. n \in Payloads /\ p.type = "comment"
  BY WorkloadAssumption DEF PayloadsOf, GraphInv
<1>2. e \in Deliveries /\ e.payload = n /\ e.way = "plain"
  BY <1>1, IsDelivery DEF Ways
<1>3. graph' = UpsertComment(graph, n, now) /\ delivered' = delivered \cup {e}
  BY DEF LoadComment
<1> HIDE DEF e
<1>4. own \cup new = ExpectedRelations(e)
  <2>1. own \cup new = ExpectedOfComment(p)
    BY CommentUnwound
  <2>2. ExpectedRelations(e) = ExpectedOfComment(p)
    BY <1>1, <1>2 DEF ExpectedRelations
  <2> QED BY <2>1, <2>2
<1>5. /\ Shaped(graph') /\ graph'.loaded = [graph.loaded EXCEPT ![p.doc] = n]
      /\ graph'.stubs = graph.stubs \cup Parent(graph, p)
      /\ graph'.created = [graph.created EXCEPT ![p.doc] = c]
      /\ graph'.rels = graph.rels \cup own \cup new
      /\ graph'.kind = KindsAfter(graph.kind, p, new)
  <2>1. Shaped(graph)
    BY DEF GraphInv
  <2> QED BY <1>3, <2>1, UpsertedComment
<1> HIDE DEF new, own
<1>6. graph'.rels = graph.rels \cup ExpectedRelations(e) /\ new \in SUBSET ExpectedRelations(e)
  BY <1>4, <1>5
<1>7. \E t \in Times : graph'.created =
        [graph.created EXCEPT ![p.doc] = CreatedAfter(graph.created[p.doc], p, t)]
  BY <1>5
<1> HIDE DEF c
<1> QED BY <1>1, <1>2, <1>3, <1>5, <1>6, <1>7 DEF Loads

\* Every step leaves the graph alone or completes a load
LEMMA StepsOfGraph ==
  ASSUME GraphInv, [KGNext]_kgVars
  PROVE  UNCHANGED <<graph, delivered>> \/ \E e : Loads(e)
BY FinishMovieLoads, LoadFeedLoads, LoadCommentLoads
   DEF KGNext, kgVars, StartMovie, ObserveNext, LoadFails, ObserveEmbedded

-----------------------------------------------------------------------------
(* Types and stubs.                                                        *)

LEMMA KindsTyped ==
  ASSUME NEW e \in Deliveries, NEW kind \in [Keywords -> KwKinds \cup {"none"}],
         NEW new \in SUBSET ExpectedRelations(e)
  PROVE  KindsAfter(kind, Payload[e.payload], new) \in [Keywords -> KwKinds \cup {"none"}]
<1> DEFINE p == Payload[e.payload]
<1>1. ASSUME NEW k \in Targets(new, "MENTIONS")
      PROVE  (CHOOSE kw \in ToSet(p.keywords) : kw.name = k).kind \in KwKinds
  <2>1. PICK r \in new : r[2] = "MENTIONS" /\ r[3] = k
    BY <1>1 DEF Targets
  <2>2. k \in NamesOf(p.keywords)
    BY <2>1, ExpectedAre
  <2>3. \E kw \in ToSet(p.keywords) : kw.name = k
    BY <2>2 DEF NamesOf
  <2>4. \A kw \in ToSet(p.keywords) : kw.kind \in KwKinds
    <3>1. p.keywords \in Seq([name : Keywords, kind : KwKinds])
      BY PayloadAssumption DEF Deliveries
    <3>2. \A i \in DOMAIN p.keywords : p.keywords[i].kind \in KwKinds
      <4> DEFINE Kws == [name : Keywords, kind : KwKinds]
      <4>1. \A kw \in Kws : kw.kind \in KwKinds
        OBVIOUS
      <4>2. p.keywords \in Seq(Kws)
        BY <3>1
      <4> HIDE DEF Kws, p
      <4>3. \A i \in DOMAIN p.keywords : p.keywords[i] \in Kws
        BY <4>2
      <4> QED BY <4>1, <4>3
    <3>3. ToSet(p.keywords) = {p.keywords[i] : i \in DOMAIN p.keywords}
      BY DEF ToSet
    <3> QED BY <3>2, <3>3
  <2> QED BY <2>3, <2>4
<1> QED BY <1>1 DEF KindsAfter

LEMMA GraphInitInv == KGInit => GraphInv
BY DEF KGInit, GraphInv, Shaped, EmptyGraph, Idle

\* What the loaders remember
LEMMA LoadingInv ==
  ASSUME GraphInv, [KGNext]_kgVars
  PROVE  /\ workload' = workload
         /\ loading' \in [Loaders -> [payload : Payloads \cup {NoPayload}, next : Nat \ {0}]]
         /\ \A l \in Loaders : loading'[l].payload # NoPayload =>
              Payload[loading'[l].payload].type = "movie"
<1>1. workload' = workload
  BY DEF KGNext, kgVars, StartMovie, ObserveNext, FinishMovie, LoadFails, LoadFeed,
         LoadComment, ObserveEmbedded
<1> DEFINE Kept == [payload : Payloads \cup {NoPayload}, next : Nat \ {0}]
           Fits(v) == v \in Kept /\ (v.payload # NoPayload => Payload[v.payload].type = "movie")
<1>2. \A l \in Loaders : Fits(loading[l])
  BY DEF GraphInv
<1>3. ASSUME NEW l \in Loaders, NEW n \in PayloadsOf("movie"), StartMovie(l, n)
      PROVE  \E v : Fits(v) /\ loading' = [loading EXCEPT ![l] = v]
  <2>1. n \in Payloads /\ Payload[n].type = "movie"
    BY WorkloadAssumption DEF PayloadsOf, GraphInv
  <2>2. Fits([payload |-> n, next |-> 1])
    BY <2>1
  <2> QED BY <1>3, <2>2 DEF StartMovie
<1>4. ASSUME NEW l \in Loaders, ObserveNext(l)
      PROVE  \E v : Fits(v) /\ loading' = [loading EXCEPT ![l] = v]
  <2>1. Fits([payload |-> loading[l].payload, next |-> loading[l].next + 1])
    BY <1>2
  <2> QED BY <1>4, <2>1 DEF ObserveNext
<1>5. ASSUME NEW l \in Loaders, (\E n \in PayloadsOf("movie") : FinishMovie(l, n)) \/ LoadFails(l)
      PROVE  \E v : Fits(v) /\ loading' = [loading EXCEPT ![l] = v]
  <2>1. Fits(Idle)
    BY DEF Idle
  <2> QED BY <1>5, <2>1 DEF FinishMovie, LoadFails
<1>6. \/ loading' = loading
      \/ \E l \in Loaders : \E v : Fits(v) /\ loading' = [loading EXCEPT ![l] = v]
  BY <1>3, <1>4, <1>5 DEF KGNext, kgVars, LoadFeed, LoadComment, ObserveEmbedded
<1>7. loading = [l \in Loaders |-> loading[l]]
  BY DEF GraphInv
<1>8. loading' = [l \in Loaders |-> loading'[l]] /\ \A l \in Loaders : Fits(loading'[l])
  <2> HIDE DEF Fits
  <2> QED BY <1>2, <1>6, <1>7
<1> QED BY <1>1, <1>8

\* A feed gets properties when it is loaded, and a comment adds a feed without
\* only if it was not
LEMMA StubsInv ==
  ASSUME GraphInv, NEW e, Loads(e)
  PROVE  \A f \in graph'.stubs : f \in Feeds /\ graph'.loaded[f] = NoPayload
<1> DEFINE n == e.payload
           p == Payload[n]
<1>1. n \in Payloads /\ graph'.loaded = [graph.loaded EXCEPT ![p.doc] = n]
  BY DEF Loads, Deliveries
<1>2. p.type # "feed" => p.doc \notin Feeds
  BY <1>1, FeedsAreApart
<1>3. \A f \in Feeds : f \in DOMAIN graph.loaded
  BY DocsOfKinds DEF GraphInv
<1>4. CASE p.type = "movie"
  BY <1>1, <1>2, <1>3, <1>4 DEF Loads, GraphInv
<1>5. CASE p.type = "feed"
  BY <1>1, <1>3, <1>5 DEF Loads, GraphInv
<1>6. CASE p.type = "comment"
  <2>1. graph'.stubs \subseteq graph.stubs \cup Parent(graph, p)
    BY <1>6 DEF Loads
  <2>2. \A f \in Parent(graph, p) : f \in Feeds /\ graph.loaded[f] = NoPayload
    BY <1>1, <1>6, ParentIsFeed DEF Parent
  <2>3. \A f \in graph'.stubs : f \in Feeds /\ graph.loaded[f] = NoPayload
    BY <2>1, <2>2 DEF GraphInv
  <2> QED BY <1>1, <1>2, <1>3, <1>6, <2>3
<1> QED BY <1>4, <1>5, <1>6 DEF Loads

LEMMA LoadsInv ==
  ASSUME GraphInv, NEW e, Loads(e)
  PROVE  /\ Shaped(graph')
         /\ graph'.loaded \in [Docs -> Payloads \cup {NoPayload}]
         /\ graph'.created \in [Docs -> {0} \cup Times]
         /\ graph'.kind \in [Keywords -> KwKinds \cup {"none"}]
         /\ \A r \in graph'.rels : r = <<r[1], r[2], r[3]>> /\ r[1] \in Docs
         /\ delivered' \subseteq Deliveries
         /\ \A d \in delivered' :
              d.way \in {"resolved", "as_given"} <=> Payload[d.payload].type = "movie"
         /\ \A d \in Docs : graph'.loaded[d] # NoPayload <=>
              \E x \in delivered' : Payload[x.payload].doc = d
<1> DEFINE n == e.payload
           p == Payload[n]
<1>1. n \in Payloads /\ p.doc \in Docs /\ e \in Deliveries
  BY DEF Loads, Docs, Deliveries
<1>2. Shaped(graph') /\ graph'.loaded \in [Docs -> Payloads \cup {NoPayload}]
  BY <1>1 DEF Loads, GraphInv
<1>3. graph'.created \in [Docs -> {0} \cup Times]
  <2>1. graph.created \in [Docs -> {0} \cup Times]
    BY DEF GraphInv
  <2>2. CASE graph'.created = graph.created
    BY <2>1, <2>2
  <2>3. ASSUME p.type # "movie", NEW now \in Times,
               graph'.created =
                 [graph.created EXCEPT ![p.doc] = CreatedAfter(graph.created[p.doc], p, now)]
        PROVE  graph'.created \in [Docs -> {0} \cup Times]
    <3>1. p.at \in {0} \cup Times
      BY <1>1, <2>3, PayloadAssumption DEF Loads
    <3>2. CreatedAfter(graph.created[p.doc], p, now) \in {0} \cup Times
      BY <1>1, <2>1, <3>1 DEF CreatedAfter
    <3> QED BY <2>1, <2>3, <3>2
  <2> QED BY <2>2, <2>3 DEF Loads
<1>4. graph'.kind \in [Keywords -> KwKinds \cup {"none"}]
  <2>1. PICK new \in SUBSET ExpectedRelations(e) : graph'.kind = KindsAfter(graph.kind, p, new)
    BY DEF Loads
  <2>2. graph.kind \in [Keywords -> KwKinds \cup {"none"}]
    BY DEF GraphInv
  <2>3. KindsAfter(graph.kind, p, new) \in [Keywords -> KwKinds \cup {"none"}]
    BY <1>1, <2>2, KindsTyped
  <2> QED BY <2>1, <2>3
<1>5. \A r \in ExpectedRelations(e) : r = <<r[1], r[2], r[3]>> /\ r[1] \in Docs
  BY <1>1, ExpectedAre
<1>6. \A r \in graph'.rels : r = <<r[1], r[2], r[3]>> /\ r[1] \in Docs
  BY <1>5 DEF Loads, GraphInv
<1>7. delivered' = delivered \cup {e} /\ delivered' \subseteq Deliveries
  BY <1>1 DEF Loads, GraphInv
<1>8. \A d \in delivered' : d.way \in {"resolved", "as_given"} <=> Payload[d.payload].type = "movie"
  BY <1>7 DEF Loads, GraphInv
<1>9. ASSUME NEW d \in Docs
      PROVE  graph'.loaded[d] # NoPayload <=> \E x \in delivered' : Payload[x.payload].doc = d
  <2>1. graph'.loaded = [graph.loaded EXCEPT ![p.doc] = n] /\ n # NoPayload
    BY <1>1, PayloadAssumption DEF Loads
  <2>2. CASE d = p.doc
    BY <1>7, <2>1, <2>2 DEF GraphInv
  <2>3. CASE d # p.doc
    <3>1. graph'.loaded[d] = graph.loaded[d]
      BY <2>1, <2>3 DEF GraphInv
    <3>2. (\E x \in delivered' : Payload[x.payload].doc = d) <=>
            \E x \in delivered : Payload[x.payload].doc = d
      BY <1>7, <2>3
    <3> QED BY <3>1, <3>2 DEF GraphInv
  <2> QED BY <2>2, <2>3
<1> QED BY <1>2, <1>3, <1>4, <1>6, <1>7, <1>8, <1>9

LEMMA GraphNextInv == GraphInv /\ [KGNext]_kgVars => GraphInv'
<1> SUFFICES ASSUME GraphInv, [KGNext]_kgVars PROVE GraphInv'
  OBVIOUS
<1>1. CASE UNCHANGED <<graph, delivered>>
  BY <1>1, LoadingInv DEF GraphInv, Shaped
<1>2. CASE \E e : Loads(e)
  <2>1. PICK e : Loads(e)
    BY <1>2
  <2> QED BY <2>1, LoadsInv, StubsInv, LoadingInv DEF GraphInv, Shaped
<1> QED BY <1>1, <1>2, StepsOfGraph

THEOREM GraphInvariance == KGSpec => []GraphInv
BY GraphInitInv, GraphNextInv, PTL DEF KGSpec, KGSafety

\* A stub is the feed of a comment that was delivered, and so is every such feed
\* that was not loaded
AwaitInv ==
  /\ \A f \in graph.stubs : \E e \in delivered :
       Payload[e.payload].type = "comment" /\ Payload[e.payload].feed = f
  /\ \A e \in delivered :
       LET p == Payload[e.payload] IN
       p.type = "comment" /\ graph.loaded[p.feed] = NoPayload => p.feed \in graph.stubs

LEMMA AwaitNextInv ==
  ASSUME GraphInv, AwaitInv, [KGNext]_kgVars
  PROVE  AwaitInv'
<1>1. CASE UNCHANGED <<graph, delivered>>
  BY <1>1 DEF AwaitInv
<1>2. ASSUME NEW e, Loads(e) PROVE AwaitInv'
  <2> DEFINE p == Payload[e.payload]
  <2>1. /\ delivered' = delivered \cup {e}
        /\ graph'.loaded = [graph.loaded EXCEPT ![p.doc] = e.payload]
        /\ e.payload \in Payloads /\ e.payload # NoPayload
    BY <1>2, PayloadAssumption DEF Loads, Deliveries
  <2>2. ASSUME NEW f \in graph'.stubs
        PROVE  \E d \in delivered' : Payload[d.payload].type = "comment" /\ Payload[d.payload].feed = f
    <3>1. f \in graph.stubs \/ (p.type = "comment" /\ f \in Parent(graph, p))
      BY <1>2 DEF Loads
    <3> QED BY <2>1, <3>1 DEF AwaitInv, Parent
  <2>3. ASSUME NEW d \in delivered', Payload[d.payload].type = "comment",
               graph'.loaded[Payload[d.payload].feed] = NoPayload
        PROVE  Payload[d.payload].feed \in graph'.stubs
    <3> DEFINE f == Payload[d.payload].feed
    <3>1. d.payload \in Payloads
      BY <2>1 DEF GraphInv, Deliveries
    <3>2. f \in DOMAIN graph.loaded
      BY <2>3, <3>1, ParentIsFeed, DocsOfKinds DEF GraphInv
    <3>3. graph.loaded[f] = NoPayload /\ f # p.doc
      BY <2>1, <2>3, <3>2
    <3>4. graph.stubs \ {p.doc} \subseteq graph'.stubs
      BY <1>2 DEF Loads
    <3>5. CASE d \in delivered
      BY <2>3, <3>3, <3>4, <3>5 DEF AwaitInv
    <3>6. CASE d = e
      <4>1. graph'.stubs = graph.stubs \cup Parent(graph, p)
        BY <1>2, <2>3, <3>6 DEF Loads
      <4> QED BY <3>3, <3>6, <4>1 DEF Parent
    <3> QED BY <2>1, <3>5, <3>6
  <2> QED BY <2>2, <2>3 DEF AwaitInv
<1> QED BY <1>1, <1>2, StepsOfGraph

LEMMA AwaitInvariance == KGSpec => []AwaitInv
<1>1. KGInit => AwaitInv
  BY DEF KGInit, AwaitInv, EmptyGraph
<1> QED BY <1>1, AwaitNextInv, GraphInvariance, PTL DEF KGSpec, KGSafety

\* A feed without properties is there while, and only while, a comment on it came
\* and the feed itself did not.
THEOREM StubsAwaitFeeds == KGSpec => []StubsAwaitTheirFeeds
<1>1. GraphInv /\ AwaitInv => StubsAwaitTheirFeeds
  <2> SUFFICES ASSUME GraphInv, AwaitInv PROVE StubsAwaitTheirFeeds
    OBVIOUS
  <2> DEFINE Of(type) ==
               {Payload[e.payload] : e \in {d \in delivered : Payload[d.payload].type = type}}
  <2>1. ASSUME NEW f \in graph.stubs
        PROVE  f \in {p.feed : p \in Of("comment")} \ {p.doc : p \in Of("feed")}
    <3>1. f \in Docs /\ graph.loaded[f] = NoPayload
      BY DocsOfKinds DEF GraphInv
    <3>2. ~ \E e \in delivered : Payload[e.payload].doc = f
      BY <3>1 DEF GraphInv
    <3>3. PICK e \in delivered : Payload[e.payload].type = "comment" /\ Payload[e.payload].feed = f
      BY DEF AwaitInv
    <3> QED BY <3>2, <3>3
  <2>2. ASSUME NEW e \in delivered, Payload[e.payload].type = "comment",
               Payload[e.payload].feed \notin {p.doc : p \in Of("feed")}
        PROVE  Payload[e.payload].feed \in graph.stubs
    <3> DEFINE f == Payload[e.payload].feed
    <3>1. f \in Feeds /\ f \in Docs
      BY <2>2, ParentIsFeed, DocsOfKinds DEF GraphInv, Deliveries
    <3>2. ASSUME graph.loaded[f] # NoPayload PROVE FALSE
      <4>1. PICK d \in delivered : Payload[d.payload].doc = f
        BY <3>1, <3>2 DEF GraphInv
      <4>2. d.payload \in Payloads
        BY DEF GraphInv, Deliveries
      <4>3. Payload[d.payload].type = "feed"
        BY <3>1, <4>1, <4>2, FeedsAreApart
      <4> QED BY <2>2, <4>1, <4>3
    <3> QED BY <2>2, <3>2 DEF AwaitInv
  <2>3. graph.stubs = {p.feed : p \in Of("comment")} \ {p.doc : p \in Of("feed")}
    BY <2>1, <2>2
  <2> QED BY <2>3 DEF StubsAwaitTheirFeeds
<1> QED BY <1>1, GraphInvariance, AwaitInvariance, PTL

-----------------------------------------------------------------------------
(* Redelivery.                                                             *)

LEMMA KindsTwice ==
  ASSUME NEW kind, NEW p, NEW new
  PROVE  KindsAfter(KindsAfter(kind, p, new), p, new) = KindsAfter(kind, p, new)
BY DEF KindsAfter

\* A document has a created_at once it was loaded, which stays
LEMMA CreatedTwice ==
  ASSUME NEW n \in Payloads, Payload[n].type \in {"feed", "comment"},
         NEW old \in {0} \cup Times, NEW now \in Times, NEW later \in Times
  PROVE  CreatedAfter(CreatedAfter(old, Payload[n], now), Payload[n], later)
           = CreatedAfter(old, Payload[n], now)
BY PayloadAssumption DEF CreatedAfter

LEMMA FeedTwice ==
  ASSUME GraphInv, NEW n \in PayloadsOf("feed"), NEW now \in Times, NEW later \in Times,
         NEW g, g = UpsertFeed(graph, n, now)
  PROVE  UpsertFeed(g, n, later) = g
<1> SUFFICES ASSUME NEW h, h = UpsertFeed(g, n, later) PROVE h = g
  OBVIOUS
<1> DEFINE p == Payload[n]
           c == CreatedAfter(graph.created[p.doc], p, now)
           own == {<<p.doc, "WRITTEN_BY", p.author>>}
           new == FeedRelations(p)
<1>1. n \in Payloads /\ p.type = "feed" /\ p.doc \in Docs
  BY WorkloadAssumption DEF PayloadsOf, GraphInv, Docs
<1>2. Shaped(graph) /\ graph.created \in [Docs -> {0} \cup Times] /\ Docs = DOMAIN graph.loaded
  BY DEF GraphInv
<1>3. /\ Shaped(g) /\ g.loaded = [graph.loaded EXCEPT ![p.doc] = n]
      /\ g.stubs = graph.stubs \ {p.doc} /\ g.created = [graph.created EXCEPT ![p.doc] = c]
      /\ g.rels = graph.rels \cup own \cup About(graph, p) \cup new
      /\ g.kind = KindsAfter(graph.kind, p, new)
  BY <1>2, UpsertedFeed
<1>4. /\ Shaped(h) /\ h.loaded = [g.loaded EXCEPT ![p.doc] = n]
      /\ h.stubs = g.stubs \ {p.doc}
      /\ h.created = [g.created EXCEPT ![p.doc] = CreatedAfter(g.created[p.doc], p, later)]
      /\ h.rels = g.rels \cup own \cup About(g, p) \cup new
      /\ h.kind = KindsAfter(g.kind, p, new)
  <2>1. Shaped(g)
    BY <1>3
  <2> QED BY <2>1, UpsertedFeed
<1>5. About(g, p) = About(graph, p)
  <2>1. \A m \in Movies : g.loaded[m] = graph.loaded[m]
    BY <1>1, <1>2, <1>3, MoviesAreApart, DocsOfKinds
  <2> QED BY <2>1 DEF About
<1>6. CreatedAfter(c, p, later) = c
  BY <1>1, <1>2, CreatedTwice
<1> HIDE DEF own, new, c
<1>7. h.loaded = g.loaded
  BY <1>3, <1>4
<1>8. h.created = g.created
  BY <1>1, <1>2, <1>3, <1>4, <1>6
<1>9. h.rels = g.rels
  BY <1>3, <1>4, <1>5
<1>10. h.kind = g.kind
  BY <1>3, <1>4, KindsTwice
<1>11. h.stubs = g.stubs
  BY <1>3, <1>4
<1> QED BY <1>3, <1>4, <1>7, <1>8, <1>9, <1>10, <1>11 DEF Shaped

LEMMA CommentTwice ==
  ASSUME GraphInv, NEW n \in PayloadsOf("comment"), NEW now \in Times, NEW later \in Times,
         NEW g, g = UpsertComment(graph, n, now)
  PROVE  UpsertComment(g, n, later) = g
<1> SUFFICES ASSUME NEW h, h = UpsertComment(g, n, later) PROVE h = g
  OBVIOUS
<1> DEFINE p == Payload[n]
           c == CreatedAfter(graph.created[p.doc], p, now)
           new == CommentRelations(p)
<1>1. n \in Payloads /\ p.type = "comment" /\ p.doc \in Docs
  BY WorkloadAssumption DEF PayloadsOf, GraphInv, Docs
<1>2. Shaped(graph) /\ graph.created \in [Docs -> {0} \cup Times] /\ Docs = DOMAIN graph.loaded
  BY DEF GraphInv
<1>3. /\ Shaped(g) /\ g.loaded = [graph.loaded EXCEPT ![p.doc] = n]
      /\ g.stubs = graph.stubs \cup Parent(graph, p)
      /\ g.created = [graph.created EXCEPT ![p.doc] = c]
      /\ g.rels = graph.rels \cup Own(p) \cup new
      /\ g.kind = KindsAfter(graph.kind, p, new)
  BY <1>2, UpsertedComment
<1>4. /\ Shaped(h) /\ h.loaded = [g.loaded EXCEPT ![p.doc] = n]
      /\ h.stubs = g.stubs \cup Parent(g, p)
      /\ h.created = [g.created EXCEPT ![p.doc] = CreatedAfter(g.created[p.doc], p, later)]
      /\ h.rels = g.rels \cup Own(p) \cup new
      /\ h.kind = KindsAfter(g.kind, p, new)
  <2>1. Shaped(g)
    BY <1>3
  <2> QED BY <2>1, UpsertedComment
<1>5. Parent(g, p) = Parent(graph, p)
  <2>1. g.loaded[p.feed] = graph.loaded[p.feed]
    BY <1>1, <1>2, <1>3, FeedsAreApart, ParentIsFeed, DocsOfKinds
  <2> QED BY <2>1 DEF Parent
<1>6. CreatedAfter(c, p, later) = c
  BY <1>1, <1>2, CreatedTwice
<1> HIDE DEF new, c
<1>7. h.loaded = g.loaded
  BY <1>3, <1>4
<1>8. h.created = g.created
  BY <1>1, <1>2, <1>3, <1>4, <1>6
<1>9. h.rels = g.rels
  BY <1>3, <1>4
<1>10. h.kind = g.kind
  BY <1>3, <1>4, KindsTwice
<1>11. h.stubs = g.stubs
  BY <1>3, <1>4, <1>5
<1> QED BY <1>3, <1>4, <1>7, <1>8, <1>9, <1>10, <1>11 DEF Shaped

\* A feed or comment delivered again right away, at a later time, changes nothing.
THEOREM RedeliveriesAreIdempotent == KGSpec => []RedeliveryIsIdempotent
<1>1. GraphInv => RedeliveryIsIdempotent
  BY FeedTwice, CommentTwice DEF RedeliveryIsIdempotent
<1> QED BY <1>1, GraphInvariance, PTL

-----------------------------------------------------------------------------
(* Relations and what they lead to.                                        *)

\* The relations are those of the deliveries, and the movies they lead to were
\* loaded
RelationsInv ==
  /\ RelationsAreUnion
  /\ \A r \in graph.rels : r[2] = "ABOUT_MOVIE" => r[3] \in Movies /\ graph.loaded[r[3]] # NoPayload

LEMMA RelationsInitInv == KGInit => RelationsInv
BY DEF KGInit, RelationsInv, RelationsAreUnion, EmptyGraph

LEMMA RelationsNextInv ==
  ASSUME GraphInv, RelationsInv, [KGNext]_kgVars
  PROVE  RelationsInv'
<1>1. CASE UNCHANGED <<graph, delivered>>
  BY <1>1 DEF RelationsInv, RelationsAreUnion
<1>2. ASSUME NEW e, Loads(e) PROVE RelationsInv'
  <2> DEFINE p == Payload[e.payload]
  <2>1. /\ graph'.rels = graph.rels \cup ExpectedRelations(e)
        /\ delivered' = delivered \cup {e} /\ e \in Deliveries
    BY <1>2 DEF Loads
  <2>2. RelationsAreUnion'
    <3>1. graph.rels = UNION {ExpectedRelations(d) : d \in delivered}
      BY DEF RelationsInv, RelationsAreUnion
    <3>2. \A r : r \in graph'.rels <=> \E d \in delivered' : r \in ExpectedRelations(d)
      BY <2>1, <3>1
    <3>3. graph'.rels = UNION {ExpectedRelations(d) : d \in delivered'}
      BY <3>2
    <3> QED BY <3>3 DEF RelationsAreUnion
  <2>3. \A m \in Movies : graph.loaded[m] # NoPayload => graph'.loaded[m] # NoPayload
    <3>1. graph'.loaded = [graph.loaded EXCEPT ![p.doc] = e.payload] /\ e.payload # NoPayload
      BY <1>2, PayloadAssumption DEF Loads, Deliveries
    <3>2. \A m \in Movies : m \in DOMAIN graph.loaded
      BY DocsOfKinds DEF GraphInv
    <3> QED BY <3>1, <3>2
  <2>4. ASSUME NEW r \in graph'.rels, r[2] = "ABOUT_MOVIE"
        PROVE  r[3] \in Movies /\ graph'.loaded[r[3]] # NoPayload
    <3>1. CASE r \in graph.rels
      BY <2>3, <2>4, <3>1 DEF RelationsInv
    <3>2. CASE r \in ExpectedRelations(e)
      <4>1. e.way = "movie_known" /\ r[3] = p.movie
        BY <2>1, <2>4, <3>2, ExpectedAre
      <4>2. p.movie \in Movies /\ graph.loaded[p.movie] # NoPayload
        BY <1>2, <4>1 DEF Loads
      <4> QED BY <2>3, <4>1, <4>2
    <3> QED BY <2>1, <3>1, <3>2
  <2> QED BY <2>2, <2>4 DEF RelationsInv
<1> QED BY <1>1, <1>2, StepsOfGraph

LEMMA RelationsInvariance == KGSpec => []RelationsInv
BY RelationsInitInv, RelationsNextInv, GraphInvariance, PTL DEF KGSpec, KGSafety

\* No relation leads to a movie that was not loaded.
THEOREM NoMovieDangles == KGSpec => []NoDanglingMovie
<1>1. RelationsInv => NoDanglingMovie
  BY DEF RelationsInv, NoDanglingMovie, Targets
<1> QED BY <1>1, RelationsInvariance, PTL

\* The relations of the graph are exactly those of all deliveries there ever were,
\* in whatever order and however often, with the pipeline or without.
THEOREM RelationsAreTheUnion == KGSpec => []RelationsAreUnion
<1>1. RelationsInv => RelationsAreUnion
  BY DEF RelationsInv
<1> QED BY <1>1, RelationsInvariance, PTL

-----------------------------------------------------------------------------
(* The vocabulary under the loads.                                         *)

\* What became of a term that was observed
Remembered(c) == Exists(c) \/ c[1] \in standard[c[2]] \/ \E a \in aliases : a[3] = c[1]

Grown ==
  /\ \A k \in Kinds : standard[k] \subseteq standard'[k]
  /\ \A c \in Candidates : Remembered(c) => Remembered(c)'

\* A candidate is deleted only when it becomes a standard term or an alias
LEMMA DecideGrows ==
  ASSUME VocabInv, NEW p \in Promoters, run_batch(p)
  PROVE  Grown
<1>1. PICK e \in batch[p] : Decide(e)
  BY DEF run_batch
<1> DEFINE c == e.cand
           t == c[1]
<1>2. c \in Candidates /\ t \in Terms /\ c[2] \in Kinds
  BY DEF VocabInv, Entry, Candidates
<1>3. ASSUME NEW n, AddAlias(c, n) PROVE Grown
  <2> DEFINE hits == {k \in Kinds : n \in standard[k]}
  <2>1. /\ aliases' = aliases \cup {<<k, n, t>> : k \in hits}
        /\ cand' = IF hits = {} THEN cand ELSE [cand EXCEPT ![c] = NoNode]
        /\ standard' = standard
    BY <1>3 DEF AddAlias
  <2>2. CASE hits = {}
    <3>1. cand' = cand /\ aliases \subseteq aliases'
      BY <2>1, <2>2
    <3> QED BY <2>1, <3>1 DEF Grown, Remembered, Exists
  <2>3. CASE hits # {}
    <3>1. PICK k \in hits : TRUE
      BY <2>3
    <3>2. <<k, n, t>> \in aliases' /\ <<k, n, t>>[3] = t /\ aliases \subseteq aliases'
      BY <2>1, <3>1
    <3>3. \A d \in Candidates : d # c => cand'[d] = cand[d]
      BY <2>1, <2>3 DEF VocabInv
    <3> HIDE DEF hits
    <3> QED BY <2>1, <3>2, <3>3 DEF Grown, Remembered, Exists
  <2> QED BY <2>2, <2>3
<1>4. CASE PromoteTerm(c, e.emb)
  <2>1. /\ standard' = [standard EXCEPT ![c[2]] = @ \cup {t}]
        /\ cand' = [cand EXCEPT ![c] = NoNode] /\ aliases' = aliases
    BY <1>4 DEF PromoteTerm
  <2>2. \A k \in Kinds : standard[k] \subseteq standard'[k]
    BY <2>1 DEF VocabInv
  <2>3. t \in standard'[c[2]]
    BY <1>2, <2>1 DEF VocabInv
  <2>4. \A d \in Candidates : d # c => cand'[d] = cand[d]
    BY <2>1 DEF VocabInv
  <2>5. \A d \in Candidates : d[2] \in Kinds
    BY DEF Candidates
  <2> HIDE DEF c
  <2> QED BY <2>1, <2>2, <2>3, <2>4, <2>5 DEF Grown, Remembered, Exists
<1>5. CASE UNCHANGED <<cand, standard, aliases, distinct>>
  BY <1>5 DEF Grown, Remembered, Exists
<1> QED BY <1>1, <1>3, <1>4, <1>5 DEF Decide

LEMMA ObservedIsRemembered ==
  ASSUME VocabInv, NEW c \in Candidates, NEW emb \in BOOLEAN, observe(c, emb)
  PROVE  Remembered(c)'
<1>1. cand' = [cand EXCEPT ![c] = Observed(cand[c], emb)]
  BY DEF observe
<1>2. Observed(cand[c], emb).count > 0
  BY VocabAssumption DEF Observed, VocabInv, Node
<1>3. cand'[c].count > 0
  BY <1>1, <1>2 DEF VocabInv
<1> QED BY <1>3 DEF Remembered, Exists

LEMMA VocabGrows ==
  ASSUME VocabInv, VocabStep
  PROVE  Grown
<1>1. ASSUME NEW c \in Candidates, NEW emb \in BOOLEAN, observe(c, emb) PROVE Grown
  <2>1. cand' = [cand EXCEPT ![c] = Observed(cand[c], emb)] /\ UNCHANGED <<standard, aliases>>
    BY <1>1 DEF observe
  <2>2. Remembered(c)' /\ \A d \in Candidates : d # c => cand'[d] = cand[d]
    BY <1>1, <2>1, ObservedIsRemembered DEF VocabInv
  <2> QED BY <2>1, <2>2 DEF Grown, Remembered, Exists
<1>2. ASSUME NEW c \in Candidates, Age(c) \/ NewMonth(c) PROVE Grown
  <2>1. /\ UNCHANGED <<standard, aliases>>
        /\ \E old \in BOOLEAN : cand' = [cand EXCEPT ![c].old = old]
    BY <1>2 DEF Age, NewMonth
  <2>2. \A d \in Candidates : cand'[d].count = cand[d].count
    BY <2>1 DEF VocabInv, Node
  <2> QED BY <2>1, <2>2 DEF Grown, Remembered, Exists
<1>3. ASSUME NEW k \in Kinds, NEW t \in Library[k], Seed(k, t) PROVE Grown
  <2>1. standard' = [standard EXCEPT ![k] = @ \cup {t}] /\ UNCHANGED <<cand, aliases>>
    BY <1>3 DEF Seed
  <2>2. \A j \in Kinds : standard[j] \subseteq standard'[j]
    BY <2>1 DEF VocabInv
  <2>3. \A d \in Candidates : d[2] \in Kinds
    BY DEF Candidates
  <2> QED BY <2>1, <2>2, <2>3 DEF Grown, Remembered, Exists
<1>4. ASSUME UNCHANGED <<cand, standard, aliases>> PROVE Grown
  BY <1>4 DEF Grown, Remembered, Exists
<1>5. ASSUME NEW p \in Promoters, list_promotion_candidates(p) \/ BatchFails(p) PROVE Grown
  BY <1>4, <1>5 DEF list_promotion_candidates, BatchFails
<1> QED BY <1>1, <1>2, <1>3, <1>4, <1>5, DecideGrows DEF VocabStep, VocabNext, Promoter, vocabVars

LEMMA VocabTypes ==
  ASSUME VocabInv, VocabTypeOK, VocabStep
  PROVE  VocabTypeOK'
<1>1. VocabInv'
  BY VocabNextInv
<1>2. ready' \subseteq Candidates
  <2>1. ready' = ready \/ NoteReady
    BY DEF VocabStep, VocabNext, Promoter, vocabVars, observe, Age, NewMonth,
           list_promotion_candidates, run_batch, BatchFails, Seed
  <2> QED BY <2>1 DEF NoteReady, VocabTypeOK
<1>3. batchFaults' \in 0..MaxBatchFaults /\ months' \in 0..MaxMonths
  <2>1. \/ UNCHANGED <<batchFaults, months>>
        \/ months < MaxMonths /\ months' = months + 1 /\ UNCHANGED batchFaults
        \/ batchFaults < MaxBatchFaults /\ batchFaults' = batchFaults + 1 /\ UNCHANGED months
    BY DEF VocabStep, VocabNext, Promoter, vocabVars, observe, Age, NewMonth,
           list_promotion_candidates, run_batch, BatchFails, Seed
  <2> QED BY <2>1, VocabAssumption DEF VocabTypeOK
<1>4. aliases' \subseteq Kinds \X Terms \X Terms
  <2>1. CASE aliases' = aliases
    BY <2>1 DEF VocabTypeOK
  <2>2. ASSUME NEW p \in Promoters, run_batch(p), aliases' # aliases
        PROVE  aliases' \subseteq Kinds \X Terms \X Terms
    <3>1. PICK e \in batch[p] : Decide(e)
      BY <2>2 DEF run_batch
    <3>2. e.cand[1] \in Terms
      BY DEF VocabInv, Entry, Candidates
    <3>3. PICK n \in Best(e.cand[1]) : AddAlias(e.cand, n)
      BY <2>2, <3>1 DEF Decide, PromoteTerm
    <3>4. n \in Terms
      BY <3>3, VocabAssumption DEF Best
    <3> QED BY <3>2, <3>3, <3>4 DEF AddAlias, VocabTypeOK
  <2> QED BY <2>1, <2>2 DEF VocabStep, VocabNext, Promoter, vocabVars, observe, Age, NewMonth,
             list_promotion_candidates, BatchFails, Seed
<1> QED BY <1>1, <1>2, <1>3, <1>4 DEF VocabTypeOK, VocabInv, Entry

LEMMA VocabTypeInit == VocabInit => VocabTypeOK
BY VocabInitInv, VocabAssumption DEF VocabInit, VocabTypeOK, VocabInv, Entry

-----------------------------------------------------------------------------
(* The terms of a movie, in the order of the pipeline.                     *)

\* The entries of s are those of a, b and c
Joined(s, a, b, c) ==
  /\ Len(s) \in Nat
  /\ \A i \in 1..Len(a) : \E j \in 1..Len(s) : s[j] = a[i]
  /\ \A i \in 1..Len(b) : \E j \in 1..Len(s) : s[j] = b[i]
  /\ \A j \in 1..Len(s) : \/ \E i \in 1..Len(a) : s[j] = a[i]
                          \/ \E i \in 1..Len(b) : s[j] = b[i]
                          \/ \E i \in 1..Len(c) : s[j] = c[i]

LEMMA ThreeParts ==
  ASSUME NEW R, NEW a \in Seq(R), NEW b \in Seq(R), NEW c \in Seq(R),
         NEW s, s = a \o b \o c
  PROVE  Joined(s, a, b, c)
<1> DEFINE ab == a \o b
<1>1. /\ ab \in Seq(R) /\ Len(ab) = Len(a) + Len(b) /\ Len(a) \in Nat /\ Len(b) \in Nat
      /\ \A i \in 1..Len(a) : ab[i] = a[i]
      /\ \A i \in 1..Len(b) : ab[Len(a) + i] = b[i]
      /\ \A j \in 1..Len(ab) : j <= Len(a) \/ (j - Len(a) \in 1..Len(b) /\ ab[j] = b[j - Len(a)])
  OBVIOUS
<1>0. s = ab \o c
  OBVIOUS
<1> HIDE DEF ab
<1>2. /\ Len(s) = Len(ab) + Len(c) /\ Len(c) \in Nat
      /\ \A i \in 1..Len(ab) : s[i] = ab[i]
      /\ \A j \in 1..Len(s) : j <= Len(ab) \/ (j - Len(ab) \in 1..Len(c) /\ s[j] = c[j - Len(ab)])
  <2>1. ab \in Seq(R)
    BY <1>1
  <2> QED BY ONLY <2>1, <1>0, c \in Seq(R)
<1>3. ASSUME NEW i \in 1..Len(a) PROVE \E j \in 1..Len(s) : s[j] = a[i]
  <2>1. i \in 1..Len(s) /\ i \in 1..Len(ab)
    BY <1>1, <1>2
  <2> QED BY <1>1, <1>2, <2>1
<1>4. ASSUME NEW i \in 1..Len(b) PROVE \E j \in 1..Len(s) : s[j] = b[i]
  <2>1. Len(a) + i \in 1..Len(s) /\ Len(a) + i \in 1..Len(ab)
    BY <1>1, <1>2
  <2> QED BY <1>1, <1>2, <2>1
<1>5. ASSUME NEW j \in 1..Len(s)
      PROVE  \/ \E i \in 1..Len(a) : s[j] = a[i]
             \/ \E i \in 1..Len(b) : s[j] = b[i]
             \/ \E i \in 1..Len(c) : s[j] = c[i]
  <2>1. CASE j <= Len(a)
    <3>1. j \in 1..Len(a) /\ j \in 1..Len(ab)
      BY <1>1, <1>2, <2>1
    <3> QED BY <1>1, <1>2, <3>1
  <2>2. CASE ~(j <= Len(a)) /\ j <= Len(ab)
    <3>1. j \in 1..Len(ab)
      BY <1>1, <1>2, <2>2
    <3> QED BY <1>1, <1>2, <2>2, <3>1
  <2>3. CASE ~(j <= Len(ab))
    BY <1>2, <2>3
  <2> QED BY <2>1, <2>2, <2>3
<1>6. Len(s) \in Nat
  BY <1>1, <1>2
<1> QED BY <1>3, <1>4, <1>5, <1>6 DEF Joined

\* The unknown themes and moods of a movie
Unknowns(n) ==
  LET p == Payload[n] IN
  {<<Lower[t], "theme">> : t \in {s \in ToSet(p.themes) : ~KnownTheme(s)}}
    \cup {<<Lower[t], "mood">> : t \in {s \in ToSet(p.moods) : ~KnownMood(s)}}

LEMMA MissedTerm ==
  ASSUME NEW t, NEW k, NEW v, NEW missed, v = Term(t, k, missed), missed
  PROVE  v.missed /\ v.cand = <<t, k>>
BY Zenon DEF Term

\* What is missed is a candidate, and every unknown theme and mood is missed
LEMMA TermsAre ==
  ASSUME NEW n \in Payloads, Payload[n].type = "movie"
  PROVE  /\ Len(TermsOf(n)) \in Nat
         /\ \A j \in 1..Len(TermsOf(n)) : TermsOf(n)[j].missed => TermsOf(n)[j].cand \in Candidates
         /\ \A c \in Unknowns(n) : \E j \in 1..Len(TermsOf(n)) :
              TermsOf(n)[j].missed /\ TermsOf(n)[j].cand = c
<1> DEFINE p == Payload[n]
           a == ThemeTerms(p.themes)
           b == MoodTerms(p.moods)
           c == KeywordTerms(p.keywords)
           R == [cand : (Terms \cup Keywords) \X (Kinds \cup KwKinds), missed : BOOLEAN]
           Kws == [name : Keywords, kind : KwKinds]
<1>0. Lower \in [Terms -> Terms]
  BY VocabAssumption
<1>1. /\ p.themes \in Seq(Terms) /\ p.moods \in Seq(Terms) /\ p.keywords \in Seq(Kws)
      /\ \A i \in 1..Len(p.keywords) : p.keywords[i].kind \in Kinds => p.keywords[i].name \in Terms
  <2>1. p.themes \in Seq(Terms) /\ p.moods \in Seq(Terms)
    BY TermAssumption
  <2>2. p.keywords \in Seq(Kws)
    BY PayloadAssumption
  <2>3. ASSUME NEW i \in 1..Len(p.keywords), p.keywords[i].kind \in Kinds
        PROVE  p.keywords[i].name \in Terms
    <3>1. p.keywords[i] \in ToSet(p.keywords)
      <4> HIDE DEF Kws, p
      <4> QED BY <2>2 DEF ToSet
    <3> QED BY <2>3, <3>1, TermAssumption
  <2> QED BY <2>1, <2>2, <2>3
<1>2. ASSUME NEW t, NEW k, NEW missed \in BOOLEAN,
             t \in Terms \cup Keywords, k \in Kinds \cup KwKinds
      PROVE  Term(t, k, missed) \in R
  BY <1>2 DEF Term
<1>3. /\ a \in Seq(R) /\ Len(a) = Len(p.themes)
      /\ \A i \in 1..Len(a) : a[i] = Term(Lower[p.themes[i]], "theme", ~KnownTheme(p.themes[i]))
  <2>1. ASSUME NEW i \in 1..Len(p.themes)
        PROVE  Term(Lower[p.themes[i]], "theme", ~KnownTheme(p.themes[i])) \in R
    <3>1. /\ Lower[p.themes[i]] \in Terms /\ "theme" \in Kinds
          /\ (~KnownTheme(p.themes[i])) \in BOOLEAN
      BY <1>0, <1>1 DEF Kinds, KnownTheme
    <3> HIDE DEF R, p
    <3> QED BY <1>2, <3>1
  <2>2. a = [i \in 1..Len(p.themes) |-> Term(Lower[p.themes[i]], "theme", ~KnownTheme(p.themes[i]))]
    BY <1>1 DEF ThemeTerms
  <2> HIDE DEF R, a, p
  <2>3. Len(p.themes) \in Nat
    BY <1>1
  <2> QED BY <2>1, <2>2, <2>3
<1>4. /\ b \in Seq(R) /\ Len(b) = Len(p.moods)
      /\ \A i \in 1..Len(b) : b[i] = Term(Lower[p.moods[i]], "mood", ~KnownMood(p.moods[i]))
  <2>1. ASSUME NEW i \in 1..Len(p.moods)
        PROVE  Term(Lower[p.moods[i]], "mood", ~KnownMood(p.moods[i])) \in R
    <3>1. /\ Lower[p.moods[i]] \in Terms /\ "mood" \in Kinds
          /\ (~KnownMood(p.moods[i])) \in BOOLEAN
      BY <1>0, <1>1 DEF Kinds, KnownMood
    <3> HIDE DEF R, p
    <3> QED BY <1>2, <3>1
  <2>2. b = [i \in 1..Len(p.moods) |-> Term(Lower[p.moods[i]], "mood", ~KnownMood(p.moods[i]))]
    BY <1>1 DEF MoodTerms
  <2> HIDE DEF R, b, p
  <2>3. Len(p.moods) \in Nat
    BY <1>1
  <2> QED BY <2>1, <2>2, <2>3
<1>5. /\ c \in Seq(R) /\ Len(c) = Len(p.keywords)
      /\ \A i \in 1..Len(c) :
           c[i] = Term(p.keywords[i].name, p.keywords[i].kind, Missed(p.keywords[i]))
  <2>1. ASSUME NEW i \in 1..Len(p.keywords)
        PROVE  Term(p.keywords[i].name, p.keywords[i].kind, Missed(p.keywords[i])) \in R
    <3>1. p.keywords[i] \in Kws
      <4> HIDE DEF Kws, p
      <4> QED BY <1>1
    <3>2. p.keywords[i].name \in Keywords /\ p.keywords[i].kind \in KwKinds
      BY <3>1
    <3>3. Missed(p.keywords[i]) \in BOOLEAN
      BY DEF Missed
    <3> HIDE DEF R, p, Kws
    <3> QED BY <1>2, <3>2, <3>3
  <2> HIDE DEF Kws
  <2>2. c = [i \in 1..Len(p.keywords) |->
               Term(p.keywords[i].name, p.keywords[i].kind, Missed(p.keywords[i]))]
    BY <1>1 DEF KeywordTerms
  <2> HIDE DEF R, c, p
  <2>3. Len(p.keywords) \in Nat
    BY <1>1
  <2> QED BY <2>1, <2>2, <2>3
<1> DEFINE s == TermsOf(n)
<1>6. s = a \o b \o c
  BY DEF TermsOf
<1>7. /\ Len(s) \in Nat
      /\ \A i \in 1..Len(a) : \E j \in 1..Len(s) : s[j] = a[i]
      /\ \A i \in 1..Len(b) : \E j \in 1..Len(s) : s[j] = b[i]
      /\ \A j \in 1..Len(s) : \/ \E i \in 1..Len(a) : s[j] = a[i]
                              \/ \E i \in 1..Len(b) : s[j] = b[i]
                              \/ \E i \in 1..Len(c) : s[j] = c[i]
  <2>1. a \in Seq(R) /\ b \in Seq(R) /\ c \in Seq(R)
    BY <1>3, <1>4, <1>5
  <2> HIDE DEF s, a, b, c, R, p
  <2>2. Joined(s, a, b, c)
    BY <1>6, <2>1, ThreeParts
  <2> QED BY <2>2 DEF Joined
<1> HIDE DEF s, a, b, c, R, Kws
<1>8. ASSUME NEW j \in 1..Len(s), s[j].missed PROVE s[j].cand \in Candidates
  <2>0. ASSUME NEW t \in Terms, NEW k \in Kinds, NEW missed, s[j] = Term(t, k, missed)
        PROVE  s[j].cand \in Candidates
    BY <2>0 DEF Term, Candidates
  <2>1. ASSUME NEW i \in 1..Len(a), s[j] = a[i] PROVE s[j].cand \in Candidates
    <3> HIDE DEF p
    <3>1. Lower[p.themes[i]] \in Terms /\ "theme" \in Kinds
      BY <1>0, <1>1, <1>3 DEF Kinds
    <3>2. s[j] = Term(Lower[p.themes[i]], "theme", ~KnownTheme(p.themes[i]))
      BY <1>3, <2>1
    <3> QED BY <2>0, <3>1, <3>2
  <2>2. ASSUME NEW i \in 1..Len(b), s[j] = b[i] PROVE s[j].cand \in Candidates
    <3> HIDE DEF p
    <3>1. Lower[p.moods[i]] \in Terms /\ "mood" \in Kinds
      BY <1>0, <1>1, <1>4 DEF Kinds
    <3>2. s[j] = Term(Lower[p.moods[i]], "mood", ~KnownMood(p.moods[i]))
      BY <1>4, <2>2
    <3> QED BY <2>0, <3>1, <3>2
  <2>3. ASSUME NEW i \in 1..Len(c), s[j] = c[i] PROVE s[j].cand \in Candidates
    <3>1. s[j] = Term(p.keywords[i].name, p.keywords[i].kind, Missed(p.keywords[i]))
      BY <1>5, <2>3
    <3>2. Missed(p.keywords[i])
      BY <1>8, <3>1 DEF Term
    <3>3. p.keywords[i].kind \in Kinds /\ p.keywords[i].name \in Terms
      BY <1>1, <1>5, <3>2 DEF Missed
    <3> QED BY <3>1, <3>3 DEF Term, Candidates
  <2> QED BY <1>7, <2>1, <2>2, <2>3
<1>9. ASSUME NEW x \in Unknowns(n) PROVE \E j \in 1..Len(s) : s[j].missed /\ s[j].cand = x
  <2>1. CASE x \in {<<Lower[t], "theme">> : t \in {y \in ToSet(p.themes) : ~KnownTheme(y)}}
    <3>1. PICK t \in ToSet(p.themes) : ~KnownTheme(t) /\ x = <<Lower[t], "theme">>
      BY <2>1
    <3>2. PICK i \in 1..Len(p.themes) : p.themes[i] = t
      BY <1>1 DEF ToSet
    <3>3. a[i].missed /\ a[i].cand = x
      <4>1. a[i] = Term(Lower[t], "theme", ~KnownTheme(t))
        BY <1>3, <3>2
      <4> HIDE DEF a, b, p
      <4> QED BY <3>1, <4>1, MissedTerm
    <3> QED BY <1>3, <1>7, <3>2, <3>3
  <2>2. CASE x \in {<<Lower[t], "mood">> : t \in {y \in ToSet(p.moods) : ~KnownMood(y)}}
    <3>1. PICK t \in ToSet(p.moods) : ~KnownMood(t) /\ x = <<Lower[t], "mood">>
      BY <2>2
    <3>2. PICK i \in 1..Len(p.moods) : p.moods[i] = t
      BY <1>1 DEF ToSet
    <3>3. b[i].missed /\ b[i].cand = x
      <4>1. b[i] = Term(Lower[t], "mood", ~KnownMood(t))
        BY <1>4, <3>2
      <4> HIDE DEF a, b, p
      <4> QED BY <3>1, <4>1, MissedTerm
    <3> QED BY <1>4, <1>7, <3>2, <3>3
  <2> QED BY <2>1, <2>2 DEF Unknowns
<1> QED BY <1>7, <1>8, <1>9 DEF s

-----------------------------------------------------------------------------
(* The steps of the vocabulary and the graph together.                     *)

LEMMA ObserveNextSteps ==
  ASSUME GraphInv, NEW l \in Loaders, ObserveNext(l)
  PROVE  VocabStep
<1> DEFINE n == loading[l].payload
           i == loading[l].next
<1>1. n \in Payloads /\ Payload[n].type = "movie" /\ i \in Nat \ {0} /\ i <= Len(TermsOf(n))
  BY DEF GraphInv, ObserveNext
<1>2. \/ TermsOf(n)[i].missed /\ observe(TermsOf(n)[i].cand, FALSE)
      \/ UNCHANGED vocabVars
  BY DEF ObserveNext
<1> HIDE DEF n, i
<1>3. i \in 1..Len(TermsOf(n)) /\ FALSE \in BOOLEAN
  BY <1>1, TermsAre
<1>4. TermsOf(n)[i].missed => TermsOf(n)[i].cand \in Candidates
  BY <1>1, <1>3, TermsAre
<1> QED BY <1>2, <1>3, <1>4 DEF VocabStep

LEMMA ObserveEmbeddedSteps ==
  ASSUME GraphInv, NEW n \in PayloadsOf("keywords"), NEW kw \in ToSet(Payload[n].keywords),
         ObserveEmbedded(kw)
  PROVE  VocabStep
<1>1. n \in Payloads
  BY WorkloadAssumption DEF PayloadsOf, GraphInv
<1>2. kw.kind \in Kinds /\ kw.name \in Terms /\ TRUE \in BOOLEAN
  BY <1>1, TermAssumption DEF ObserveEmbedded, Missed
<1>3. <<kw.name, kw.kind>> \in Candidates
  BY <1>2 DEF Candidates
<1> QED BY <1>2, <1>3 DEF ObserveEmbedded, VocabStep

\* A step of the vocabulary leaves the graph, or loads no movie
LEMMA StepsOfBoth ==
  ASSUME GraphInv, [KGNext]_kgVars
  PROVE  \/ VocabStep /\ UNCHANGED <<graph, delivered>>
         \/ VocabStep /\ \E e : Loads(e) /\ Payload[e.payload].type # "movie"
         \/ \E l \in Loaders, n \in PayloadsOf("movie") : FinishMovie(l, n)
<1>1. ASSUME NEW n \in PayloadsOf("feed"), NEW now \in Times, LoadFeed(n, now)
      PROVE  VocabStep /\ \E e : Loads(e) /\ Payload[e.payload].type # "movie"
  <2>1. VocabStep /\ Payload[n].type # "movie"
    BY <1>1 DEF LoadFeed, PayloadsOf, VocabStep
  <2> QED BY <1>1, <2>1, LoadFeedLoads
<1>2. ASSUME NEW n \in PayloadsOf("comment"), NEW now \in Times, LoadComment(n, now)
      PROVE  VocabStep /\ \E e : Loads(e) /\ Payload[e.payload].type # "movie"
  <2>1. VocabStep /\ Payload[n].type # "movie"
    BY <1>2 DEF LoadComment, PayloadsOf, VocabStep
  <2> QED BY <1>2, <2>1, LoadCommentLoads
<1>3. ASSUME UNCHANGED kgVars PROVE VocabStep /\ UNCHANGED <<graph, delivered>>
  BY <1>3 DEF kgVars, VocabStep
<1>4. ASSUME VocabNext /\ UNCHANGED <<graph, delivered, loading, workload>>
      PROVE  VocabStep /\ UNCHANGED <<graph, delivered>>
  BY <1>4 DEF VocabStep
<1>5. ASSUME NEW l \in Loaders, ObserveNext(l)
      PROVE  VocabStep /\ UNCHANGED <<graph, delivered>>
  BY <1>5, ObserveNextSteps DEF ObserveNext
<1>6. ASSUME NEW n \in PayloadsOf("keywords"), NEW kw \in ToSet(Payload[n].keywords),
             ObserveEmbedded(kw)
      PROVE  VocabStep /\ UNCHANGED <<graph, delivered>>
  BY <1>6, ObserveEmbeddedSteps DEF ObserveEmbedded
<1>7. ASSUME NEW l \in Loaders, (\E n \in PayloadsOf("movie") : StartMovie(l, n)) \/ LoadFails(l)
      PROVE  VocabStep /\ UNCHANGED <<graph, delivered>>
  BY <1>7 DEF StartMovie, LoadFails, VocabStep
<1> QED BY <1>1, <1>2, <1>3, <1>4, <1>5, <1>6, <1>7 DEF KGNext

\* The terms related to movies by deliveries D are of the library, or were given
LEMMA AttachedAre ==
  ASSUME NEW D, D \subseteq Deliveries,
         \A e \in D : e.way \in {"resolved", "as_given"} <=> Payload[e.payload].type = "movie",
         NEW r \in UNION {ExpectedRelations(e) : e \in D}, NEW k \in Kinds, r[2] = Has[k]
  PROVE  /\ r[3] \in Terms
         /\ r[3] \in Library[k] \/ \E e \in D : e.way = "as_given" /\ r \in ExpectedRelations(e)
<1>1. PICK e \in D : r \in ExpectedRelations(e)
  OBVIOUS
<1>2. \/ e.way = "resolved" /\ r[3] \in Library[k]
      \/ e.way = "as_given" /\ (Payload[e.payload].type = "movie" => r[3] \in Terms)
  BY <1>1, ExpectedAre
<1>3. Library[k] \subseteq Terms
  BY VocabAssumption
<1> QED BY <1>1, <1>2, <1>3

\* A movie's themes and moods are nodes
Attached == \A r \in graph.rels, k \in Kinds : r[2] = Has[k] => r[3] \in standard[k]

\* The vocabulary and the graph that uses it
KGVocabInv == VocabInv /\ VocabTypeOK /\ StandardIsExplained /\ Attached

LEMMA AttachedUseTheLibrary ==
  ASSUME GraphInv, RelationsInv, Attached
  PROVE  MoviesUseTheLibrary
<1>1. ASSUME NEW r \in graph.rels, NEW k \in Kinds, r[2] = Has[k]
      PROVE  r[3] \in standard[k] /\ (r[3] \in Library[k] \/ r \in AsGiven)
  <2>1. r \in UNION {ExpectedRelations(e) : e \in delivered}
    BY DEF RelationsInv, RelationsAreUnion
  <2>2. r[3] \in Library[k] \/ \E e \in delivered : e.way = "as_given" /\ r \in ExpectedRelations(e)
    BY <1>1, <2>1, AttachedAre DEF GraphInv
  <2> QED BY <1>1, <2>2 DEF Attached, AsGiven
<1> QED BY <1>1 DEF MoviesUseTheLibrary

\* A movie without the pipeline's terms is explained by the load that gave them
LEMMA FinishMovieVocab ==
  ASSUME GraphInv, GraphInv', RelationsInv', KGVocabInv,
         NEW l \in Loaders, NEW n \in PayloadsOf("movie"), FinishMovie(l, n)
  PROVE  KGVocabInv' /\ Grown
<1> DEFINE themes == Targets(graph'.rels, "HAS_THEME")
           moods == Targets(graph'.rels, "HAS_MOOD")
           new == [theme |-> themes, mood |-> moods]
<1>1. \A k \in Kinds : new[k] = Targets(graph'.rels, Has[k])
  BY DEF Kinds, Has
<1>2. /\ standard' = [standard EXCEPT !["theme"] = @ \cup themes, !["mood"] = @ \cup moods]
      /\ UNCHANGED <<cand, aliases, batch, batchFaults, months, ready, distinct>>
  BY DEF FinishMovie
<1>3. ASSUME NEW k \in Kinds, NEW t \in new[k]
      PROVE  t \in Terms /\ (t \in Library[k] \/ \E r \in AsGiven' : r[2] = Has[k] /\ r[3] = t)
  <2>1. PICK r \in graph'.rels : r[2] = Has[k] /\ r[3] = t
    BY <1>1, <1>3 DEF Targets
  <2>2. r \in UNION {ExpectedRelations(e) : e \in delivered'}
    BY DEF RelationsInv, RelationsAreUnion
  <2>3. /\ r[3] \in Terms
        /\ \/ r[3] \in Library[k]
           \/ \E e \in delivered' : e.way = "as_given" /\ r \in ExpectedRelations(e)
    BY <2>1, <2>2, AttachedAre DEF GraphInv
  <2> QED BY <2>1, <2>3 DEF AsGiven
<1>4. \A r \in graph'.rels, k \in Kinds : r[2] = Has[k] => r[3] \in new[k]
  BY <1>1 DEF Targets
<1>5. AsGiven \subseteq AsGiven'
  BY DEF FinishMovie, AsGiven
<1>6. standard \in [Kinds -> SUBSET Terms]
  BY DEF KGVocabInv, VocabInv
<1>7. standard' = [k \in Kinds |-> standard[k] \cup new[k]]
  <2>1. new["theme"] = themes /\ new["mood"] = moods
    OBVIOUS
  <2> HIDE DEF themes, moods, new
  <2>2. /\ standard'["theme"] = standard["theme"] \cup new["theme"]
        /\ standard'["mood"] = standard["mood"] \cup new["mood"]
        /\ standard' \in [Kinds -> {standard'[k] : k \in Kinds}]
    BY <1>2, <1>6, <2>1 DEF Kinds
  <2> QED BY <2>2 DEF Kinds
<1> HIDE DEF new
<1>8. standard' \in [Kinds -> SUBSET Terms]
  BY <1>3, <1>6, <1>7
<1>9. Attached'
  BY <1>4, <1>7 DEF Attached
<1>10. StandardIsExplained'
  <2> SUFFICES ASSUME NEW k \in Kinds, NEW t \in standard'[k] \ Library[k]
               PROVE  <<t, k>> \in ready' \/ \E r \in AsGiven' : r[2] = Has[k] /\ r[3] = t
    BY DEF StandardIsExplained
  <2>1. CASE t \in standard[k]
    BY <1>2, <1>5, <2>1 DEF KGVocabInv, StandardIsExplained
  <2>2. CASE t \in new[k]
    BY <1>3, <2>2
  <2> QED BY <1>7, <2>1, <2>2
<1>11. VocabInv'
  BY <1>2, <1>8 DEF KGVocabInv, VocabInv, SeenEnough, PromotedIsDistinct
<1>12. VocabTypeOK'
  BY <1>2, <1>8 DEF KGVocabInv, VocabTypeOK
<1>13. \A c \in Candidates : c[2] \in Kinds
  BY DEF Candidates
<1>14. \A k \in Kinds : standard[k] \subseteq standard'[k]
  BY <1>7
<1>15. Grown
  BY <1>2, <1>13, <1>14 DEF Grown, Remembered, Exists
<1> QED BY <1>9, <1>10, <1>11, <1>12, <1>15 DEF KGVocabInv

LEMMA KGVocabInitInv == KGInit => KGVocabInv
<1> SUFFICES ASSUME KGInit PROVE KGVocabInv
  OBVIOUS
<1>1. VocabInit /\ graph.rels = {}
  BY DEF KGInit, EmptyGraph
<1>2. \A k \in Kinds : standard[k] \ Library[k] = {}
  BY <1>1 DEF VocabInit
<1> QED BY <1>1, <1>2, VocabInitInv, VocabTypeInit DEF KGVocabInv, StandardIsExplained, Attached

LEMMA KGVocabNextInv ==
  ASSUME GraphInv, GraphInv', RelationsInv', KGVocabInv, [KGNext]_kgVars
  PROVE  KGVocabInv' /\ Grown
<1>1. ASSUME VocabStep, AsGiven \subseteq AsGiven'
      PROVE  VocabInv' /\ VocabTypeOK' /\ Grown /\ StandardIsExplained'
  <2>1. VocabInv' /\ VocabTypeOK' /\ Grown /\ Earns
    BY <1>1, VocabNextInv, VocabTypes, VocabGrows, VocabEarns DEF KGVocabInv
  <2>2. ASSUME NEW k \in Kinds, NEW t \in standard'[k] \ Library[k]
        PROVE  <<t, k>> \in ready' \/ \E r \in AsGiven' : r[2] = Has[k] /\ r[3] = t
    <3>1. CASE t \in standard[k]
      BY <1>1, <2>1, <2>2, <3>1 DEF KGVocabInv, StandardIsExplained, Earns
    <3>2. CASE t \notin standard[k]
      BY <2>1, <2>2, <3>2 DEF Earns
    <3> QED BY <3>1, <3>2
  <2> QED BY <2>1, <2>2 DEF StandardIsExplained
<1>2. \A k \in Kinds : Grown => standard[k] \subseteq standard'[k]
  BY DEF Grown
<1>3. CASE VocabStep /\ UNCHANGED <<graph, delivered>>
  <2>1. AsGiven' = AsGiven
    BY <1>3 DEF AsGiven
  <2>2. Attached'
    BY <1>1, <1>2, <1>3, <2>1 DEF KGVocabInv, Attached
  <2> QED BY <1>1, <1>3, <2>1, <2>2 DEF KGVocabInv
<1>4. CASE VocabStep /\ \E e : Loads(e) /\ Payload[e.payload].type # "movie"
  <2>1. PICK e : Loads(e) /\ Payload[e.payload].type # "movie"
    BY <1>4
  <2>2. /\ graph'.rels = graph.rels \cup ExpectedRelations(e)
        /\ delivered' = delivered \cup {e} /\ e \in Deliveries
        /\ e.way \notin {"resolved", "as_given"}
    BY <2>1 DEF Loads
  <2>3. AsGiven \subseteq AsGiven'
    BY <2>2 DEF AsGiven
  <2>4. \A r \in ExpectedRelations(e), k \in Kinds : r[2] # Has[k]
    BY <2>2, ExpectedAre
  <2>5. Attached'
    BY <1>1, <1>2, <1>4, <2>2, <2>3, <2>4 DEF KGVocabInv, Attached
  <2> QED BY <1>1, <1>4, <2>3, <2>5 DEF KGVocabInv
<1>5. CASE \E l \in Loaders, n \in PayloadsOf("movie") : FinishMovie(l, n)
  BY <1>5, FinishMovieVocab
<1> QED BY <1>3, <1>4, <1>5, StepsOfBoth

LEMMA KGVocabInvariance == KGSpec => []KGVocabInv
BY KGVocabInitInv, KGVocabNextInv, GraphInvariance, RelationsInvariance, PTL DEF KGSpec, KGSafety

\* The state of the vocabulary, the graph and the loaders has its types.
THEOREM KGTypes == KGSpec => []KGTypeOK
<1>1. GraphInv /\ KGVocabInv => KGTypeOK
  BY DEF GraphInv, KGVocabInv, KGTypeOK, Deliveries
<1> QED BY <1>1, GraphInvariance, KGVocabInvariance, PTL

\* With loads through the pipeline and around it, what is standard and not of the
\* library was seen often and long enough or was given by a load around it, and no
\* near duplicate is promoted knowingly.
THEOREM LoadsKeepTheVocabulary == KGSpec => [](StandardIsExplained /\ PromotedIsDistinct)
<1>1. KGVocabInv => StandardIsExplained /\ PromotedIsDistinct
  BY DEF KGVocabInv, VocabInv
<1> QED BY <1>1, KGVocabInvariance, PTL

\* The themes and moods of movies are nodes, and of the library unless a load without
\* the pipeline gave that movie others.
THEOREM MoviesUseLibrary == KGSpec => []MoviesUseTheLibrary
<1>1. GraphInv /\ RelationsInv /\ KGVocabInv => MoviesUseTheLibrary
  BY AttachedUseTheLibrary DEF KGVocabInv
<1> QED BY <1>1, GraphInvariance, RelationsInvariance, KGVocabInvariance, PTL

-----------------------------------------------------------------------------
(* Unknown terms survive.                                                  *)

\* Every term the pipeline has passed and missed is remembered
Passed(load) ==
  load.payload # NoPayload =>
    \A j \in 1..Len(TermsOf(load.payload)) :
      j < load.next /\ TermsOf(load.payload)[j].missed =>
        Remembered(TermsOf(load.payload)[j].cand)

\* What the loads under way have passed is remembered, and so is every unknown
\* term of the movies loaded through the pipeline
SurviveInv ==
  /\ \A l \in Loaders : Passed(loading[l])
  /\ \A e \in delivered : e.way = "resolved" => \A c \in Unknowns(e.payload) : Remembered(c)

LEMMA SurviveInitInv == KGInit => SurviveInv
BY DEF KGInit, SurviveInv, Passed, Idle

LEMMA SurviveNextInv ==
  ASSUME GraphInv, GraphInv', RelationsInv', KGVocabInv, SurviveInv, [KGNext]_kgVars
  PROVE  SurviveInv'
<1>1. \A c \in Candidates : Remembered(c) => Remembered(c)'
  BY KGVocabNextInv DEF Grown
<1>2. \A n \in Payloads : Payload[n].type = "movie" => Unknowns(n) \subseteq Candidates
  <2> SUFFICES ASSUME NEW n \in Payloads, Payload[n].type = "movie", NEW c \in Unknowns(n)
               PROVE  c \in Candidates
    OBVIOUS
  <2>1. PICK j \in 1..Len(TermsOf(n)) : TermsOf(n)[j].missed /\ TermsOf(n)[j].cand = c
    BY TermsAre
  <2> QED BY <2>1, TermsAre
<1>3. ASSUME NEW l \in Loaders, loading'[l] = loading[l]
      PROVE  Passed(loading[l])'
  <2> SUFFICES ASSUME loading[l].payload # NoPayload,
                      NEW j \in 1..Len(TermsOf(loading[l].payload)),
                      j < loading[l].next, TermsOf(loading[l].payload)[j].missed
               PROVE  Remembered(TermsOf(loading[l].payload)[j].cand)'
    BY <1>3 DEF Passed
  <2>1. loading[l].payload \in Payloads /\ Payload[loading[l].payload].type = "movie"
    BY DEF GraphInv
  <2>2. TermsOf(loading[l].payload)[j].cand \in Candidates
    BY <2>1, TermsAre
  <2> QED BY <1>1, <1>3, <2>2 DEF SurviveInv, Passed
<1>4. ASSUME NEW l \in Loaders, loading'[l].payload = NoPayload \/ loading'[l].next = 1
      PROVE  Passed(loading[l])'
  BY <1>4 DEF Passed
<1>5. ASSUME NEW l \in Loaders, ObserveNext(l)
      PROVE  Passed(loading[l])'
  <2>1. PICK n \in Payloads, i \in Nat : n = loading[l].payload /\ i = loading[l].next
    BY <1>5 DEF ObserveNext, GraphInv
  <2>2. /\ Payload[n].type = "movie"
        /\ loading'[l].payload = n /\ loading'[l].next = i + 1
    BY <1>5, <2>1 DEF ObserveNext, GraphInv
  <2>3. TermsOf(n)[i].missed => observe(TermsOf(n)[i].cand, FALSE)
    BY <1>5, <2>1 DEF ObserveNext
  <2>4. ASSUME NEW j \in 1..Len(TermsOf(n)), j < i + 1, TermsOf(n)[j].missed
        PROVE  Remembered(TermsOf(n)[j].cand)'
    <3>1. TermsOf(n)[j].cand \in Candidates
      BY <2>2, <2>4, TermsAre
    <3>2. CASE j = i
      <4>1. observe(TermsOf(n)[j].cand, FALSE) /\ FALSE \in BOOLEAN
        BY <2>3, <2>4, <3>2
      <4>2. VocabInv
        BY DEF KGVocabInv
      <4> QED BY <3>1, <4>1, <4>2, ObservedIsRemembered
    <3>3. CASE j < i
      <4>1. Passed(loading[l]) /\ n # NoPayload
        BY <2>1, PayloadAssumption DEF SurviveInv
      <4>2. Remembered(TermsOf(n)[j].cand)
        BY <2>1, <2>4, <3>3, <4>1 DEF Passed
      <4> QED BY <1>1, <3>1, <4>2
    <3>4. Len(TermsOf(n)) \in Nat
      BY <2>2, TermsAre
    <3> QED BY <2>1, <2>4, <3>2, <3>3, <3>4
  <2> QED BY <2>2, <2>4 DEF Passed
<1>6. ASSUME NEW l \in Loaders PROVE Passed(loading[l])'
  <2>1. loading \in [Loaders -> [payload : Payloads \cup {NoPayload}, next : Nat \ {0}]]
    BY DEF GraphInv
  <2>2. ASSUME NEW k \in Loaders, NEW v, loading' = [loading EXCEPT ![k] = v],
               v.payload = NoPayload \/ v.next = 1
        PROVE  Passed(loading[l])'
    BY <1>3, <1>4, <2>1, <2>2
  <2>3. ASSUME NEW k \in Loaders, ObserveNext(k) PROVE Passed(loading[l])'
    <3>1. l # k => loading'[l] = loading[l]
      BY <2>1, <2>3 DEF ObserveNext
    <3> QED BY <1>3, <1>5, <2>3, <3>1
  <2>4. CASE loading' = loading
    BY <1>3, <2>4
  <2>5. ASSUME NEW k \in Loaders,
               \/ \E n \in PayloadsOf("movie") : StartMovie(k, n) \/ FinishMovie(k, n)
               \/ LoadFails(k)
        PROVE  \E v : loading' = [loading EXCEPT ![k] = v] /\ (v.payload = NoPayload \/ v.next = 1)
    BY <2>5 DEF StartMovie, FinishMovie, LoadFails, Idle
  <2>6. \/ loading' = loading
        \/ \E k \in Loaders : ObserveNext(k)
        \/ \E k \in Loaders :
             \/ \E n \in PayloadsOf("movie") : StartMovie(k, n) \/ FinishMovie(k, n)
             \/ LoadFails(k)
    BY DEF KGNext, kgVars, LoadFeed, LoadComment, ObserveEmbedded
  <2> QED BY <2>2, <2>3, <2>4, <2>5, <2>6
<1>7. ASSUME NEW e \in delivered', e.way = "resolved", NEW c \in Unknowns(e.payload)
      PROVE  Remembered(c)'
  <2>0. /\ e.payload \in Payloads /\ Payload[e.payload].type = "movie"
        /\ c \in Candidates
    <3>1. e.payload \in Payloads /\ Payload[e.payload].type = "movie"
      BY <1>7 DEF GraphInv, Deliveries
    <3> QED BY <1>2, <1>7, <3>1
  <2>1. CASE e \in delivered
    BY <1>1, <1>7, <2>0, <2>1 DEF SurviveInv
  <2>2. ASSUME NEW l \in Loaders, NEW n \in PayloadsOf("movie"), FinishMovie(l, n),
               e = Delivery(n, WayOf(l))
        PROVE  Remembered(c)'
    <3>1. e.payload = n /\ l \in PipelineLoaders /\ n # NoPayload
      BY <1>7, <2>0, <2>2, PayloadAssumption DEF Delivery, WayOf
    <3>2. /\ loading[l].payload = n
          /\ loading[l].next \in Nat /\ loading[l].next > Len(TermsOf(n))
      BY <2>2, <3>1 DEF FinishMovie, GraphInv
    <3>3. PICK j \in 1..Len(TermsOf(n)) : TermsOf(n)[j].missed /\ TermsOf(n)[j].cand = c
      BY <1>7, <2>0, <3>1, TermsAre
    <3>4. Len(TermsOf(n)) \in Nat
      BY <2>0, <3>1, TermsAre
    <3>5. j < loading[l].next
      BY <3>2, <3>4
    <3>6. Remembered(c)
      BY <3>1, <3>2, <3>3, <3>5 DEF SurviveInv, Passed
    <3> QED BY <1>1, <2>0, <3>6
  <2>3. \/ e \in delivered
        \/ \E l \in Loaders, n \in PayloadsOf("movie") :
             FinishMovie(l, n) /\ e = Delivery(n, WayOf(l))
    <3>1. CASE UNCHANGED <<graph, delivered>>
      BY <3>1
    <3>2. CASE \E d : Loads(d) /\ Payload[d.payload].type # "movie"
      BY <2>0, <3>2 DEF Loads
    <3>3. CASE \E l \in Loaders, n \in PayloadsOf("movie") : FinishMovie(l, n)
      BY <3>3 DEF FinishMovie
    <3> QED BY <3>1, <3>2, <3>3, StepsOfBoth
  <2> QED BY <2>1, <2>2, <2>3
<1> QED BY <1>6, <1>7 DEF SurviveInv

LEMMA SurviveInvariance == KGSpec => []SurviveInv
BY SurviveInitInv, SurviveNextInv, GraphInvariance, RelationsInvariance, KGVocabInvariance, PTL
   DEF KGSpec, KGSafety

\* No unknown theme or mood of a movie loaded through the pipeline is forgotten,
\* whatever other loads, failures and batches did in between.
THEOREM UnknownsSurvive == KGSpec => []UnknownTermsSurvive
<1>1. SurviveInv => UnknownTermsSurvive
  <2> SUFFICES ASSUME SurviveInv, NEW e \in delivered, e.way = "resolved",
                      NEW c \in Unknowns(e.payload)
               PROVE  Exists(c) \/ c[1] \in standard[c[2]] \/ \E a \in aliases : a[3] = c[1]
    BY DEF UnknownTermsSurvive, Unknowns
  <2> QED BY DEF SurviveInv, Remembered
<1> QED BY <1>1, SurviveInvariance, PTL
=============================================================================
