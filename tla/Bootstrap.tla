------------------------------ MODULE Bootstrap ------------------------------
(***************************************************************************)
(* scripts/bootstrap_schema.py: Neo4jClient.init_schema, statement after   *)
(* statement in auto-commit transactions, then the PostgreSQL schemas.     *)
(* The script may be killed anywhere, be run again, by two operators at    *)
(* once, and with another EMBED_DIMENSION.                                 *)
(***************************************************************************)
EXTENDS Integers, Sequences, SequencesExt

CONSTANTS
  Operators,   \* processes that run the script
  Dims,        \* values of EMBED_DIMENSION
  MaxKills     \* bound: scripts that are killed

\* Neo4j makes no index of dimension 0
ASSUME BootstrapAssumption == 0 \notin Dims

VARIABLES
  objects,   \* names of constraints, indexes and tables
  vectorDim, \* vectorDim[i]: vector.dimensions of the vector index i, 0: none
  seeds,     \* seeds[l]: the :Category or :Emotion nodes of one seed value
  script,    \* script[o]: what o's script does next
  kills,
  completed, \* history: some script ran to its end
  lastDim    \* history: EMBED_DIMENSION of the script that ended last

bootstrapVars == <<objects, vectorDim, seeds, script, kills, completed, lastDim>>

-----------------------------------------------------------------------------
(* The statements.                                                         *)

Constraint(l) == [kind |-> "object", name |-> l]
Index(i) == [kind |-> "object", name |-> i]
Vector(i) == [kind |-> "vector", name |-> i]
Seeding(l) == [kind |-> "seed", name |-> l]
Ddl(tables) == [kind |-> "ddl", name |-> tables]

All(kind(_), names) == [i \in DOMAIN names |-> kind(names[i])]

NODE_CONSTRAINTS ==
  All(Constraint, <<"Movie", "Person", "User", "Feed", "Comment", "Genre", "Theme",
                    "Mood", "Keyword", "Category", "Emotion", "Country">>)
NODE_PROPERTY_INDEXES ==
  All(Index, <<"movie_year_idx", "movie_country_idx", "feed_created_idx",
               "comment_created_idx", "user_created_idx", "feed_sentiment_idx">>)
FULLTEXT_INDEXES ==
  All(Index, <<"movie_text_ft", "feed_text_ft", "comment_text_ft", "keyword_text_ft">>)
VectorIndexes == <<"movie_plot_vec", "feed_summary_vec", "comment_summary_vec">>
SEED_MERGE == All(Seeding, <<"Category", "Emotion">>)

\* Each of the two is one transaction of PostgreSQL
ChatDdl == {"chat_session", "chat_message"}
SqlFiles == {"outbox", "eval_score", "bandit_arms", "bandit_state"}

\* Mutant: the nodes are seeded before the constraints are there
SeedsFirst ==
  SEED_MERGE \o NODE_CONSTRAINTS \o NODE_PROPERTY_INDEXES \o FULLTEXT_INDEXES
    \o All(Vector, VectorIndexes) \o <<Ddl(ChatDdl), Ddl(SqlFiles)>>

\* Mutant: PostgreSQL is set up before the graph
TablesFirst ==
  <<Ddl(ChatDdl), Ddl(SqlFiles)>> \o NODE_CONSTRAINTS \o NODE_PROPERTY_INDEXES
    \o FULLTEXT_INDEXES \o All(Vector, VectorIndexes) \o SEED_MERGE

Statements ==
  NODE_CONSTRAINTS \o NODE_PROPERTY_INDEXES \o FULLTEXT_INDEXES
    \o All(Vector, VectorIndexes) \o SEED_MERGE \o <<Ddl(ChatDdl), Ddl(SqlFiles)>>

NotRunning == [pc |-> 0]
Labels == {"Category", "Emotion"}

BootstrapInit ==
  /\ objects = {}
  /\ vectorDim = [i \in ToSet(VectorIndexes) |-> 0]
  /\ seeds = [l \in Labels |-> 0]
  /\ script = [o \in Operators |-> NotRunning]
  /\ kills = 0
  /\ completed = FALSE
  /\ lastDim = 0

-----------------------------------------------------------------------------
main(o, dim) ==
  /\ script[o] = NotRunning
  /\ script' = [script EXCEPT ![o] = [pc |-> 1, dim |-> dim, missed |-> FALSE]]
  /\ UNCHANGED <<objects, vectorDim, seeds, kills, completed, lastDim>>

Current(o) == Statements[script[o].pc]

\* The statement of o is done
Advance(o) ==
  IF script[o].pc = Len(Statements)
  THEN /\ script' = [script EXCEPT ![o] = NotRunning]
       /\ completed' = TRUE /\ lastDim' = script[o].dim
  ELSE /\ script' = [script EXCEPT ![o].pc = @ + 1, ![o].missed = FALSE]
       /\ UNCHANGED <<completed, lastDim>>

Running(o, kind) == script[o].pc # 0 /\ Current(o).kind = kind

\* CREATE CONSTRAINT or INDEX ... IF NOT EXISTS; a uniqueness constraint
\* cannot be made over nodes that are not unique, and the script ends
CreateObject(o) ==
  /\ Running(o, "object")
  /\ LET n == Current(o).name IN
       IF n \in Labels /\ n \notin objects /\ seeds[n] > 1
       THEN /\ script' = [script EXCEPT ![o] = NotRunning]
            /\ UNCHANGED <<objects, completed, lastDim>>
       ELSE objects' = objects \cup {n} /\ Advance(o)
  /\ UNCHANGED <<vectorDim, seeds, kills>>

\* CREATE VECTOR INDEX ... IF NOT EXISTS
CreateIfNotExists(old, dim) == IF old = 0 THEN dim ELSE old

CreateVectorIndex(o) ==
  /\ Running(o, "vector")
  /\ vectorDim' = [vectorDim EXCEPT ![Current(o).name] =
                     CreateIfNotExists(@, script[o].dim)]
  /\ Advance(o)
  /\ UNCHANGED <<objects, seeds, kills>>

\* MERGE looks for the node and makes it.  With the constraint the two are one
\* step, without it another MERGE may come in between.
MergeSeed(o) ==
  /\ Running(o, "seed")
  /\ LET l == Current(o).name IN
       CASE script[o].missed -> seeds' = [seeds EXCEPT ![l] = @ + 1] /\ Advance(o)
         [] ~script[o].missed /\ seeds[l] > 0 -> UNCHANGED seeds /\ Advance(o)
         [] ~script[o].missed /\ seeds[l] = 0 /\ l \in objects ->
              seeds' = [seeds EXCEPT ![l] = 1] /\ Advance(o)
         [] OTHER -> /\ script' = [script EXCEPT ![o].missed = TRUE]
                     /\ UNCHANGED <<seeds, completed, lastDim>>
  /\ UNCHANGED <<objects, vectorDim, kills>>

\* init_schema of ChatHistoryStore, _run_sql_files
RunDdl(o) ==
  /\ Running(o, "ddl")
  /\ objects' = objects \cup Current(o).name
  /\ Advance(o)
  /\ UNCHANGED <<vectorDim, seeds, kills>>

Killed(o) ==
  /\ script[o] # NotRunning /\ kills < MaxKills
  /\ script' = [script EXCEPT ![o] = NotRunning]
  /\ kills' = kills + 1
  /\ UNCHANGED <<objects, vectorDim, seeds, completed, lastDim>>

BootstrapNext ==
  \E o \in Operators :
    \/ \E dim \in Dims : main(o, dim)
    \/ CreateObject(o) \/ CreateVectorIndex(o) \/ MergeSeed(o)
    \/ RunDdl(o) \/ Killed(o)

BootstrapSpec == BootstrapInit /\ [][BootstrapNext]_bootstrapVars

-----------------------------------------------------------------------------
\* No seed value has two nodes, although MERGE alone does not keep two scripts
\* from making them: the constraints come first (init_schema).
SeedsAreUnique == \A l \in Labels : seeds[l] <= 1

\* Once a script has come to its end everything is there, whatever was killed
\* before or runs besides, and tables only after the graph's schema is whole
\* (init_schema, main).
CompletedIsWhole ==
  LET Graph == /\ \A i \in DOMAIN Statements :
                    Statements[i].kind = "object" => Statements[i].name \in objects
               /\ \A i \in DOMAIN vectorDim : vectorDim[i] # 0
               /\ \A l \in Labels : seeds[l] = 1
  IN /\ completed => Graph /\ ChatDdl \cup SqlFiles \subseteq objects
     /\ objects \cap (ChatDdl \cup SqlFiles) # {} => Graph

\* README.md: after EMBED_DIMENSION is changed, running the script again
\* redefines the vector indexes.
VectorIndexesFollow ==
  completed /\ (\A o \in Operators : script[o] = NotRunning) =>
    \A i \in DOMAIN vectorDim : vectorDim[i] = lastDim
=============================================================================
