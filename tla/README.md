# Formal models of KAKAMU_DE

KAKAMU_DE turns movie plots, feeds and comments into ontology records with a
language model, loads them into Neo4j and serves recommendations from the
graph. This directory holds TLA+ models of it: first of the parts in which the
order of events decides whether data survives (the transactional outbox, the
registry of embedding versions, the graph loader with its vocabulary), then of
the services around them. TLC checks the models on small instances; TLAPS
proves every invariant and action property that the passing runs check, and the
refinement of the job queue, for every value of the constants; liveness is left
to TLC. Source paths below are relative to `src/`.

## 1. Inventory

| Component | State it keeps | Operations | Hard behaviour | What makes it correct |
|---|---|---|---|---|
| **Ingest outbox** `ingest/outbox_writer.py`, `ingest/worker.py`, `ingest/dispatcher.py`, `persistence/outbox_schema.sql` | PostgreSQL tables `ingest_outbox`, `ingest_dlq`; each worker thread's claimed batch | `enqueue`, `claim_batch`, `process_row`, `reenqueue`, `dispatch`, `ack`, `nack`, `run_once`, `run_loop` | threads and processes on one table, lost replies, crashes, backoff on two clocks, restarts with other settings | no row claimed twice, attempts exact, no row done without its work, redelivery bounded, every row settles |
| **Embedding versions** `embedding/version_registry.py`, `dual_writer.py`, `shadow_evaluator.py`, `promoter.py` | `:EmbeddingVersionMeta` nodes, the versioned vector properties of `:Movie` | `register_version`, `write_targets`, `write_movie_plot_embedding`, `evaluate_shadow_vs_active`, `promote_shadow_if_ready` | several Cypher transactions per call, interleaved | the version production reads exists, has the vectors and was evaluated |
| **Embedding client** `embedding/vllm_embedding.py` | LRU cache, fallback model | `embed`, `embed_batch` | the service failing and coming back while vectors stay cached | the cache holds the texts used last; a stand-in vector is only served while a failure explains it |
| **Vocabulary** `vocab/*`, `seed_vocab_from_library.py` | `:CandidateTerm` nodes, `:Theme`, `:Mood` and their aliases, the normalizer's fixed sets | `resolve_*`, `observe`, `list_promotion_candidates`, `run_batch` | overlapping and failing batches over terms that are still being observed; a list that a candidate leaves again | every standard term is explained, no near duplicate is promoted, every candidate is decided, no term is lost |
| **Graph loader** `graph/loader.py`, `cypher_statements.py`, `client.py` | movie, feed, comment, user, keyword nodes and relations | `upsert_movie`, `upsert_feed`, `upsert_comment`, hybrid retrieval | loads out of order, repeated, failing between transactions, with the vocabulary pipeline and without; empty lists end a statement | relations are those of what was delivered; redelivery changes nothing; nothing dangles |
| **Cypher templates** `graph/template_registry.py`, `template_executor.py`, `graph/templates/` | none | choice of a template, parameter checks, fallback | any JSON of the planner, coercions that raise, limits Neo4j refuses | a request is answered or its own fault |
| **Judge and drift** `eval/*`, `persistence/eval_score_store.py` | `eval_score` rows | `run_daily`, drift metrics, alarm | runs that abort half way, overlap or have no samples | results are the run's own rows; a dead judge alarms |
| **Chat history** `persistence/chat_history.py` | sessions, messages | `open_session`, `append`, `recent` | overlapping transactions, `NOW()` of the transaction's begin, lost connections | causality survives in `recent`; `last_active` goes back by an overlap at most |
| **Recommendation bandit** `recommend/*` | alpha, beta, pulls and rewards per arm and context | `sample_arm`, `update`, `select_weights` | feedback late, twice, for arms never shown | the posterior is the feedback |
| **Extraction and LLM client** `extractor/*`, `llm/*`, `ontology/*` | none | prompt, call, parse, validate | text around the JSON, JSON that is no object, bad values | a bad answer is an error, not a document with a hole |
| **Settings, scripts** `config/settings.py`, `scripts/*` | the schemas; settings cached per process | `bootstrap_schema.py`, start-up | killed half way, run twice at once, run again with other settings | seeds stay unique, a finished script left everything in place |

How they meet: producers call `OutboxWriter.enqueue`; a worker claims rows and
hands them to the dispatcher, whose handlers are to extract an ontology record
and load it with the graph loader (in the repository they are stubs); the
loader, if it was given a vocabulary pipeline (`vocab_pipeline` is `None` by
default), resolves terms with it, whose candidates the nightly
batch turns into nodes of the same graph; the planner's answers reach the graph
through the templates, with weights the bandit chooses; the judge scores what
the extractor made. `enqueue` and
`needs_reprocess` both read `ontology.prompt_version`, which is cached for the
life of a process. The embedding registry is used by its own operators and
writers only; the loader still writes the unversioned property.

`PROJECT.json` lists the hazards of this code line by line and the property
that covers each, or why none does yet.

## 2. Modules

| Module | Models | Extends / instantiates |
|---|---|---|
| `Outbox` | the two tables, one operator per SQL statement | |
| `IngestWorker` | producers, worker processes and their threads, faults, the clock; all properties of the outbox | `Outbox` |
| `JobQueue` | abstract: an at-least-once queue with bounded tries | |
| `IngestWorkerRefinement` | the mapping under which `IngestWorker` implements `JobQueue` | `IngestWorker`, `JobQueue` |
| `IngestBackoff` | `IngestWorker` with the age of each row | `IngestWorker` |
| `IngestWorkerProofs` | the inductive invariant's proof and the safety theorems | `IngestWorker`, TLAPS |
| `IngestStepProofs` | what steps may not do: orphans and settled rows, how often a row takes effect, the refinement of `JobQueue`, the backoff | `IngestWorkerRefinement`, `IngestBackoff`, `IngestWorkerProofs` |
| `EmbeddingVersions` | registry, dual writers, evaluation and promotion | |
| `EmbeddingVersionsProofs` | proofs about the registry and the dual writers | `EmbeddingVersions`, TLAPS |
| `VocabCandidates` | observation, ageing, the nightly batch, the seed | |
| `GraphLoader` | the upserts as operators on the graph | |
| `KnowledgeGraph` | loaders, with the pipeline and without, and batches on one graph; the properties of both | `VocabCandidates`, `GraphLoader` |
| `KnowledgeGraphProofs` | proofs about the vocabulary and the graph | `KnowledgeGraph`, TLAPS |
| `Extraction` | from the LLM's answer to a validated object | |
| `EmbeddingCache` | the cache and the stand-in model | |
| `EmbeddingCacheProofs` | the cache is an LRU cache of any size; where its vectors come from | `EmbeddingCache`, TLAPS |
| `Templates` | validation and fallback of planner requests | |
| `HybridRetrieval` | the score of the hybrid query | |
| `Bandit` | Thompson sampling's counters | |
| `ChatHistory` | sessions and messages as overlapping transactions | |
| `ChatHistoryProofs` | the inductive invariant of the chat history | `ChatHistory`, TLAPS |
| `Judge` | daily runs, their rows, the drift alarm | |
| `JudgeProofs` | what a run returns is what it stored; the alarm | `Judge`, TLAPS |
| `Bootstrap` | the schema script, statement after statement | |
| `Services` | one of the eight modules from `Extraction` to `Bootstrap` moves | those eight |
| `ServicesProofs` | proofs about the other services, and of their composition | `Services`, `EmbeddingCacheProofs`, `ChatHistoryProofs`, `JudgeProofs` |
| `MC...` | constants of the small instances | the module of that name |

### `Outbox` and `IngestWorker`

A table is a set of functions from row ids to columns; only the columns a
statement reads back are kept. A payload is reduced to its `prompt_version`
(or `NoVersion`), which together with the row's own `prompt_version` and
`aggregate_type` is all that the worker decides on. `wait[r]` is
`next_attempt_at - NOW()` in whole seconds on the database's clock; `Skews` is
how far the worker's clock may be ahead of it when `nack` computes the date.

| Code | Action |
|---|---|
| `OutboxWriter.enqueue` | `Enqueue` |
| `run_ingest_worker.py`, `asyncio.run(run_loop)` | `Start(p)`, with a prompt version that stays for the process's life |
| a round of `gather` | `Round(p)`: every thread of the process is idle and gets its tick; a loop that died cancels ticks not begun, `Cancel(t)` |
| `claim_batch` | `ClaimLock(t)`: the CTE locks the first due rows that are not locked; `ClaimCommit(t)`: the UPDATE and the commit; `ClaimRaises(t)` |
| `process_row` of a stale row | `Reenqueue(t, r)`, then `Ack(t)` |
| `process_row` of a current row | `Dispatch(t, r)`, then `Ack(t)` |
| the `except` of `run_once` | `Nack(t)` |
| end of `run_once` | `FinishBatch(t)` |
| an exception that leaves `run_once` | `Raise(t)`, part of `ClaimRaises` and `Nack`: the batch is dropped and `run_loop` ends, the other threads finish |
| the process is killed | `Crash(p)` |
| time | `Tick` |

A database call is one step with three outcomes: it returns, it raises and is
rolled back, or it commits and raises because the reply was lost. The last two
are faults. The handlers of the repository are stubs; a handler is modelled as
what replaces them may do: complete the load, raise before its effect, or load
and lose the reply (a fault). A row's batch order is any, since `RETURNING`
promises none. `run_once` called alone (`--once`) is a process of one thread
that is not given a second round.

History variables (`tries`, `loads`, `parent`, `faults`) record what happened
to each row; no guard of the worker reads them, except the bounds.

### `EmbeddingVersions`

Each Cypher statement is one step. `ReadActive` and `ReadShadow` are the two
reads of `write_targets` and `Write` the SET of the properties found, so that
`Register` and `Promote` may come in between. `Registrations` are the calls of
`register_version` an operator may make, in any of its three roles and any
number of times. `vec[m]` is the set of versions
whose property holds `m`'s latest vector. An operator evaluates the current
shadow against the current active version, holds the verdict, and acts on it, once or
more often, at some later time. `created` ranks the nodes by `created_at`, which `Fetch`
sorts by. `during`, `raced`, `missing` and `blind` are history.

### `VocabCandidates`, `GraphLoader`, `KnowledgeGraph`

Each Cypher statement that commits by itself is a step. A payload is what one
call of an upsert is given, its names reduced to small sets; the graph is a
record of what the statements write.

| Code | Action or operator |
|---|---|
| `upsert_movie`: `VocabPipeline.resolve_*`, term after term, with `observe` per unknown one | `StartMovie(l, n)`, then `ObserveNext(l)` for each of `TermsOf(n)` |
| its `execute_write(UPSERT_MOVIE_WITH_ONTOLOGY)` | `FinishMovie(l, n)`, which is all of it for a loader without the pipeline; it also makes the `:Theme` and `:Mood` nodes that the `MERGE`s reach |
| `if self._vocab:` | `ThemesOf`, `MoodsOf`: loaders in `PipelineLoaders` attach the known terms in the library's spelling (`Lower`, `InLibrary`); the others observe nothing and attach all terms as given |
| an exception or a crash between two of them | `LoadFails(l)`; the row's retry starts again |
| `upsert_feed`, `upsert_comment` | `LoadFeed(n, now)`, `LoadComment(n, now)` |
| `UNWIND $list ... MERGE` one after the other | `Unwind`: the product of the lists' lengths is the number of rows, and nothing follows without a row |
| `ON CREATE SET`, `coalesce(created_at, ...)`, `MATCH` against `MERGE` | `KindsAfter`, `CreatedAfter`, `About`, `Parent` |
| `resolve_keywords` with embeddings | `ObserveEmbedded(kw)` |
| `LIST_READY_CYPHER`, `run_batch` | `list_promotion_candidates(p)`, then `run_batch(p)` for a candidate at a time in any order; `BatchFails(p)` |
| `find_alias`, `ADD_ALIAS`, `PROMOTE_*` | `Decide`, `AddAlias`, `PromoteTerm` |
| `duration.between(first_seen, now).days` | `Age(c)`: reaches the minimum; `NewMonth(c)`: it is the days beyond whole months, so it falls back to 0 |
| `seed_vocab_from_library.py` | `Seed(k, t)` |

`ready`, `distinct` and `delivered` are history; a delivery is a payload and the
way it was loaded, through the pipeline or not, and whether a feed's movie had
been loaded. A count is kept up to
`MinCount`, and weights and text properties are left out.

### The services

They share no state, so `Services` lets one of them move in a behaviour and
holds the others still: the states reached are the sum of theirs, not the
product, and each property is checked as it would be on its own.

| Module | Code and actions |
|---|---|
| `Extraction` | `extract` asks, `chat_json` recovers the JSON, `Validate` is `model_validate` with the lenient second parse and the `AttributeError` of an answer that is a list. Of each field only whether its model accepts it is kept. |
| `EmbeddingCache` | `embed(text, up)`: empty text, hit (moves to the end), miss with the service up or not. A vector is who made it. |
| `Templates` | `execute_intent`, then `Execute` once, or twice with the fallback; `coerce` gives the error each Python conversion raises, in any order of the set of names; parameters that are no object (`NoMapping`) raise where their keys are asked for, again in the fallback; `RefusedByNeo4j` (external): a negative `LIMIT`, fewer than one neighbour, a vector of another length, the empty one included. |
| `HybridRetrieval` | `Tag`, `Ask`, `Prefer` grow what the query reads; `Score` is the arithmetic of the weighted query, which the template runs, in units of 0.0001 and with the weights of an arm. |
| `Bandit` | `select_weights` with the guard or the bandit, `record_reward` after `reward_from_action`. |
| `ChatHistory` | `Begin`, `InsertMessage`, `Touch`, `Commit`, `Rollback` of each transaction; `RecentRows` the windows `recent` may give. |
| `Judge` | `run_daily`, `JudgeSample` for each sample in any order, `RunAborts`, `handle_drift_alarm`. |
| `Bootstrap` | `main` and a step per statement; `MERGE` without its constraint is a look and a write; `Killed`. |

## 3. Runs

| Run | Checks | Shows |
|---|---|---|
| `ingest_safety` | type and safety invariants, `IInv`, `OrphanStaysOrphan`, `SettledIsFinal`, `ImplementsJobQueue` | outbox safety under any two faults |
| `ingest_liveness` | `EveryRowSettles` | no row starves or is forgotten, except by a fault |
| `ingest_backoff` | `NoEarlyDeath` | the backoffs of all attempts add up before a row is dead-lettered |
| `ingest_stale_payload` | `ReenqueuedRowIsCurrent`, violated | finding 1 |
| `embedding_versions` | `EmbTypeOK`, `LiveVersionHasVector`, `ActivePersists` | live versions have their vectors, production only loses its version to an operator |
| `embedding_dual_write` | `DualWriteReachesActive`, violated | finding 2 |
| `embedding_stale_verdict` | `PromotedWasEvaluated`, violated | finding 3 |
| `knowledge_graph` | `KGTypeOK`, `StandardIsExplained`, `PromotedIsDistinct`, `RelationsAreUnion`, `NoDanglingMovie`, `RedeliveryIsIdempotent`, `StubsAwaitTheirFeeds`, `MoviesUseTheLibrary`, `UnknownTermsSurvive`, `ReadyIsDecided` | the graph is what was delivered, in any order, repeated and with failures, with the pipeline and without; standard terms are explained, unknown ones never lost, and a listed one is decided in the end |
| `services` | `NothingIsRepaired`, `CacheIsRecency`, `AnswersAreTraceable`, `FallbackAnswers`, `MatchesNeverLower`, `PosteriorIsFeedback`, `RecentIsCausal`, `LastActiveCovers`, `RunIsRecorded`, `DeadJudgeAlarms`, `SeedsAreUnique`, `CompletedIsWhole` | what each service promises by itself |
| `template_fallback` | `ValidationFailureFallsBack`, violated | finding 4 |
| `vector_dimension` | `VectorIndexesFollow`, violated | finding 5 |
| `user_preference` | `PreferencePersonalizes`, violated | finding 6 |

### Bounds

* `ingest_safety`: two processes, one with two threads and one with one, so
  that threads race inside a process (and are stopped by each other's
  exceptions) and between processes. Three rows: one produced, and two that
  re-enqueueing may add, so that a stale row can leave two successors.
  `MAX_ATTEMPTS` is 2: a first failure reschedules, a second dead-letters. A
  batch of 2 lets a failed nack drop a row that was never tried. Two faults
  give the sequences that matter: a lost ack followed by a lost nack, a crash
  after a lost reply. The two threads of the first process are
  interchangeable (`SYMMETRY`). Once every row is settled or orphaned and the
  faults are used up nothing need happen any more, and `MaxRows` may stop a
  thread that wants to re-enqueue: deadlock is not checked.
* `ingest_liveness`: the same processes, `BATCH_SIZE` 1, one fault and a
  producer of current rows, stale rows and rows no handler exists for. The
  process `p2` has no fairness: it may stall with a row in its hands.
  `MaxRows` is enough for every re-enqueueing one fault allows, so no thread
  is stopped by the bound; deadlock is checked. A worker of another prompt
  version would make the chain of re-enqueued rows unbounded, so both
  processes have the same here.
* `ingest_backoff`: `MAX_ATTEMPTS` 3 as in the code, so that there are two
  backoffs to add up, one thread, clocks off by -1, 0 or 1 second, and
  restarts that change the prompt version.
* `embedding_*`: one active version and two shadows, each of which may be
  registered again at any time, and the active one as retired; one operator, one
  movie (movies do not interact), two writers in the violation runs and one in
  `embedding_versions`: the property is about the last write alone, and the proof
  covers any number. The shadows are interchangeable there.
* `knowledge_graph`: a library of one theme, which is a mood in another
  spelling, and payloads with either; three unknown ones, near, nearer and far from it, so that
  the batch promotes, skips and aliases; two observations make a candidate
  (`MinCount`); two batches overlap and one of them fails once
  (`MaxBatchFaults`); one candidate leaves the list once because a month
  completes (`MaxMonths`). Two loaders, one with the pipeline and one without.
  Four workloads, each arriving in any order, any number of times and through
  either loader: a movie with an unknown theme that is also observed with an
  embedding; a movie with an unknown mood; two embedded terms; a movie, two
  versions of a feed (one with an empty list, one that names no movie) and a
  comment that may arrive first. The last has no candidate and the others no
  feed: the two halves only meet in the nodes a movie makes, and the three
  vocabularies cover that. Two loaders with the pipeline are left to the
  proofs: their observations commute. The batch has nothing to do once no candidate
  is ready: deadlock is not checked.
* `services`: `MaxCalls` is twice `CacheSize` and one more, so that entries are
  evicted, come back and are used in between; requests vary one or two
  parameters of every template and of an unknown one, with limits on both sides
  of every bound (-1, 0, 50, 51, 150, 201), or have no parameters object; two films, three
  anchors, the weights of three arms, preferences up to `MaxWeight`; `MaxPicks` and `MaxRewards` let a choice be
  rewarded, rewarded twice or not at all; two writers on one session with
  `MaxMessages` 3 and `MaxTime` 4 let an append overlap two that follow one
  another; two judge runs overlap, each of any two (`DailySize`) of three samples, and
  `MaxRows` lets one be repeated after it aborted (runners, and samples without
  expected keywords, are interchangeable); two operators run the schema script and one may be
  killed anywhere (`MaxKills`). `MaxAsked` 2 is as many keywords as there are.
  The components stop at their bounds: deadlock is not checked.
* the three violation runs of services are the instances of `services` with one part each;
  `vector_dimension` adds a second dimension, and `template_fallback` leaves out
  the parameters that are no object, which raise as well.

### Fairness

`ReadyIsDecided` assumes that the nightly job runs (`docs/auto_vocab.md` gives
its cron line), that a batch goes on unless it fails, and that time passes:
weak fairness of `Promoter(p)` and of `Age(c)`. `NewMonth` takes a candidate
off the list again, and `MaxMonths` bounds how often: a month has many nights
on which a candidate is listed, so that the batch does not miss it in every
month; the model lets it miss it in `MaxMonths` of them. Loads have no fairness:
they may stop, or go on for ever.

`EveryRowSettles` assumes that time passes (`Tick`), and of the processes in
`FairProcesses` that they are started again when their loop has ended
(`Start`), that `run_loop` polls again (`Round`: `while True` and a sleep) and
that each thread goes on (`Step`: the executor runs it, and database calls and
handlers return or raise). Restarting is not in the repository's code: it is
what whoever operates `run_ingest_worker.py` has to provide. No fairness is
assumed of producers, faults, or other processes. Weak fairness is enough:
crash or exception aside, which `Start` follows, no other step disables a
thread's next step.

### Findings

1. A row whose *payload* carries an old `prompt_version` is re-enqueued with
   that payload, although `docs/outbox_ingest.md` says the new row is made with
   the current settings. The successor is stale too: the row is re-enqueued
   for ever and never loaded.
2. A promotion between the two reads of `write_targets` makes a dual write go
   to the version just retired and to no other; the new active version keeps
   the movie's old vector and nothing reports it.
3. `promote_shadow_if_ready` does not compare the result's versions with the
   registry: every version that is shadow when it runs becomes active,
   evaluated or not, and two shadows make two active versions.

4. A limit that is no number makes `validate_params` raise `ValueError` or
   `TypeError`, which the executor does not catch, although
   `docs/cypher_templates.md` says a failed validation falls back.
5. `bootstrap_schema.py` run again with another `EMBED_DIMENSION` leaves the
   vector indexes as they are, although the repository's README says it
   redefines them.
6. A user's preferences add the same to every movie's score: the second
   `OPTIONAL MATCH` of the hybrid query drops no row.

Behaviour that contradicts no document but is worth knowing: rows of a crashed
or failed `run_once` stay in `processing` for ever (`OrphanStaysOrphan`), and
an ack whose reply is lost reopens a row that was done, which may end in the
DLQ although it was loaded (`SettledIsFinal` says this is the only way). An
empty list in a payload loses the relations of all lists after it
(`RelationsAreUnion` states exactly which). A promoted term becomes a node the
pipeline attaches no movie to, as the normalizer only knows the library file,
while a loader without the pipeline attaches movies to whatever the language
model gave, and makes it a standard term (`MoviesUseTheLibrary`,
`StandardIsExplained`). Registering the active embedding version again, as a
shadow or as retired, leaves production without one (`ActivePersists`). A candidate that would be an alias of a name that is
not a node is refused every night (`Refused`). A request that falls back
without a `query_embedding` sends an empty vector, which the index refuses,
and limits below what Neo4j takes pass the validation (`FallbackAnswers`). The lenient second parse of `extract` can never succeed
where the first failed (`NothingIsRepaired`). In the order the script has them,
a uniqueness constraint is never made over duplicates, nor a seed merged
without its constraint, and the branches for it in `Bootstrap` are there for
the mutant that changes the order.

## 4. Proofs

`IngestWorkerProofs` proves, for every value of the constants allowed by
`OutboxAssumption` and `WorkerAssumption` (a positive `MAX_ATTEMPTS` and
`BATCH_SIZE`, each thread belongs to a process, integer skews), that `Spec`
implies always `TypeOK`, `ExclusiveClaim`, `SnapshotIsFresh`,
`AttemptsCountTries`, `DeadLetteredOnce` and `NoSilentLoss`.

None of these is inductive alone. That `nack` writes the right `attempts`
needs that nobody else touched the row since the claim, which needs
`ExclusiveClaim`; `ExclusiveClaim` needs that a row in some thread's hands is
never pending, so that a claim cannot take it, and that a thread with a lost
ack in hand holds a row that is done and so not pending either. `IInv` says
this from both sides: `ThreadInv(t)` ties what thread `t` holds, at each value
of `pc`, to the status, attempts and tries of those rows; `RowInv(r)` ties a
row's status to its counters, its DLQ record and its work. `Init => IInv`,
then one lemma per action, built on frame lemmas (a thread whose rows do not
change keeps `ThreadInv`; a row whose columns do not change keeps `RowInv`),
then `NextIInv`, `Invariance` and the corollaries. `ingest_safety` checks
`IInv` as well.

`IngestStepProofs` builds on it, in four parts.

* *Finality.* Who can change a row's status (its `INSERT`, the claim that
  locked it, the ack or nack of the thread that has it in hand,
  `StatusChanges`) and who gets hold of a row (`HeldGrows`); `OrphanStaysOrphan`
  follows, and `SettledIsFinal` with one more invariant, that a thread only
  nacks a done row after a fault (`LostAckInv`).
* *Effects.* One try adds at most one load or copy (`TryEffects`), hence
  `EffectsBounded`; and while nothing fails, it adds one exactly when the row
  is acked next, which with `Clean` (what waits or is buried had no effect,
  what is in processing is in a thread's hands) gives
  `ExactlyOnceWithoutFaults`.
* *Refinement.* `ImplementsJobQueue`: each action is `Submit`, `Lease`, `Try`,
  `Replace`, `Finish`, `Retry`, `Bury` or a stutter of the queue. The delicate
  case is a committed ack whose reply was lost: its row is done in the table
  and "tried" in the queue until its thread has nacked it, or lets go of it (a
  crash, or a nack that raises as well), which is the `Finish` of the queue
  (`LettingGoFinishes`).
* *Backoff.* `NoEarlyDeath` of `BackoffSpec`. `AgeInv` says that a row's age and
  what it still has to wait make up the backoffs of its attempts so far
  (`Waited`), and that a row in somebody's hands, locked or settled waits for
  nothing; so the age at the last nack covers all of them. It needs that
  2 * 2^n is 2^(n+1): the provers know nothing of `^`, so `Outbox` writes the
  power out as the recursive function `TwoTo`, and `TwoToDoubles` shows that
  there is a function with these equations, by the least number for which
  there was none. `SkewAssumption`: the clocks are off by a bounded amount,
  without which the property says nothing.

`EmbeddingVersionsProofs` proves, for any operators, writers, movies and
registrations of a finite set of versions (`EmbeddingAssumption`), `EmbTypeOK`,
`LiveVersionHasVector` and `ActivePersists` of `EmbSpec`. The version a role
resolves to is the newest of those that have it, and exists when there is one
(`NewestExists`: ranks are bounded, and the naturals well-founded). `EmbInv`
adds `WriterInv` to the property: a write under which the registry has not
changed holds the active version after its first read and all live versions
after its second, which is what `Write` gives the movie. A promotion that
changes anything leaves the old shadows as the active versions with their
ranks, and so only makes less live (`PromotionShifts`). `ActivePersists` names
the one exception: the step is `Register` of the version that is active, as a
shadow or as retired, and one of the `Registrations`.

`ChatHistoryProofs` proves `RecentIsCausal` and `LastActiveCovers` of
`ChatSpec` for any writers and sessions (`ChatAssumption`: the bounds are
numbers). Both compare times, and say nothing of where the times come from;
`ChatInv` does. Every id that a transaction saw when it began belongs to a
message of the session with an earlier time (`Earlier`), and stays so since
rows are only added; ids are unique among rows and open transactions, so that
the message with that id is the one the property speaks of; a row is older
than the clock, so that what begins next sees it as earlier.

`JudgeProofs` proves `RunIsRecorded` and `DeadJudgeAlarms` of `JudgeSpec` for
any runners, finite golden set and sample size (`JudgeAssumption`). Its
`JudgeInv` counts what is left of a batch: results and samples to do make up
the batch (`Sampled`), and each result is a row of the table with that id,
runner and verdict (`RecordedAs`), which rows appended by others cannot change.

`KnowledgeGraphProofs` proves all safety properties of the `knowledge_graph` run,
for any payloads, loaders with the pipeline or without, batches and vocabulary.
Its assumptions say that the library and the catalog are terms and cosines
percentages (`VocabAssumption`), that a document has one label and a comment's
feed is a feed (`GraphAssumption`), and what the fields of a payload are
(`PayloadAssumption`, `TermAssumption`, `WorkloadAssumption`).

* *The vocabulary alone*, `VocabSpec`, with any observations, as when every
  load goes through the pipeline: a standard term was earned
  (`StandardIsEarned`), no near duplicate is promoted. `VocabInv` adds that
  what is listable is in `ready` and stays there when a month takes it off the
  list, and that a batch only holds such candidates. That the largest
  similarity exists (`LargestPercent`) follows from the well-foundedness of the
  naturals.
* *The graph.* `GraphInv`: types, a document is loaded exactly if it was
  delivered, and a feed without properties was never loaded. `AwaitInv` adds
  the other direction, that such a feed is there for a delivered comment, and
  `StubsAwaitTheirFeeds` follows. `RedeliveryIsIdempotent` compares an upsert
  with itself done twice, field by field (`FeedTwice`, `CommentTwice`).
* *Relations.* The statements' nested `UNWIND`s make the relations
  `ExpectedRelations` gives (`MovieUnwound`, `FeedUnwound`, `CommentUnwound`),
  the empty lists included, of the lists as the pipeline spells them
  (`AttachedAre`) or as given. `RelationsInv` is `RelationsAreUnion` and that
  `ABOUT_MOVIE` leads to a movie that was loaded (`NoDanglingMovie`); that a
  movie is loaded exactly if it was delivered (`KnownMovies`) makes the
  relation of a feed one of its delivery's.
* *Both.* `KGVocabInv` holds `StandardIsExplained`, and that the themes and
  moods of movies are nodes, of the library unless given (`Attached`): a load
  through the pipeline attaches only what is in the library, one without makes
  nodes only of what it attaches, and promoting never takes a node away. It
  gives `MoviesUseTheLibrary` and `LoadsKeepTheVocabulary`. `SurviveInv`: what a
  load under way has passed in its list of terms, and missed, is remembered,
  and so is every unknown term of a movie delivered through the pipeline. It is
  kept because a batch deletes a candidate only where it makes it a standard
  term or an alias (`DecideGrows`), and a load that failed in between starts
  again at the first term. `UnknownTermsSurvive` follows.

`EmbeddingCacheProofs` proves `CacheIsRecency` and `AnswersAreTraceable` of
`CacheSpec` for any `CacheSize` that is a number, 0 included. `CacheInv` relates
the list in the cache to the history of calls: every entry has a last use that
answered its vector (`Used`), entries are in the order of their last uses
(`Ordered`), and a text not cached was last used before all that are, of which
there are as many as fit (`Evicted`). With this the length of the cache and the
number of texts used since decide the same thing, whether a text is still there.

`ServicesProofs` proves the properties of the other services, each from an
invariant of its own.

* `NothingIsRepaired`: the strict parse and the lenient one keep the same
  fields of an object that either accepts (`KeptFields`), for any models.
* `FallbackAnswers`: what the default template, or Neo4j, refuses in the
  fallback's parameters is a value the request itself gave, since every default
  and weight but the empty vector is accepted (`FallbackCoerces`,
  `FallbackLimits`, `FallbackVector`). `NoMappingAssumption` says that what the
  fallback makes is an object.
* `MatchesNeverLower`: more matches give no smaller score, saturation included
  (`HitsGrow`, `SaturatingGrows`, `ScaledGrows`), for finitely many anchors,
  scores that are percentages and any weights that are not negative
  (`HybridAssumption`).
* `PosteriorIsFeedback`: an update changes one arm in one context, by the reward
  that is recorded with it.
* `SeedsAreUnique`, `CompletedIsWhole`: `BootstrapInv` says that a running script
  finds done what the statements before its own do (`Reached`), whichever
  script did them, and that what is done stays done; 0, "no index", is no
  dimension (`BootstrapAssumption`).
* `ServicesImplementComponents`: every behaviour of `ServicesSpec` is one of each
  of the eight components' specifications, and so `ServicesKeepTheirProperties`:
  the twelve invariants hold of what the `services` run checks.

Only model-checked are `EveryRowSettles` and `ReadyIsDecided`: liveness under
fairness is out of the prover's reach. The six violations are counterexamples
and need no proof. Induction over data is out of reach as well, but no property
depends on it: sums are the same on both sides of what is compared, relations are
sets rather than folds over lists, and the equations of `TwoTo`, the one
recursive function a proof needs, follow from well-foundedness.

## 5. Not modelled

* Outbox: `last_error`, `model_name`, `content_hash` and `op`, which nothing
  decides on; `aggregate_id`, so that the order of two rows of the same
  aggregate is not stated there (`KnowledgeGraph` loads payloads of one document in any
  order); `poll_interval`.
* Embedding versions: property names and index DDL, the recall arithmetic,
  duplicate nodes from concurrent `MERGE`.
* Vocabulary: which of several names with the same cosine is the alias (any).
  `:CandidateTerm` has no uniqueness constraint, so that two concurrent
  observations of a new term may make two nodes of it, each with its own count;
  the model has one. Terms with spaces at their ends, which the normalizer
  strips and the candidates' names keep.
* Graph: relation weights and text properties. Redelivery is stated for the
  same payload right away; with other loads in between,
  `RelationsAreUnion` says what the relations are, and the properties are
  those of the last load.
* Templates: `register`'s check of the fixed texts, and the queries of the four
  templates other than `hybrid_recommend`, which only filter, count and sort.
* Hybrid query: `tanh` and `exp` are taken at whole numbers, and their values
  from mathematics; whether a Neo4j release has `tanh()` as a function is outside
  the model, and one that has not refuses the query as a whole. Weights are
  those the bandit's arms and the fallback give; a negative weight of a
  planner's own request, which `validate_params` lets through, makes a penalty
  of a match.
* Chat history: a clock that is set back. `NOW()` is assumed not to decrease
  from one transaction to the next.
* Judge: the value of the KL divergence (it may breach or not), cosines between
  0 and 1, `fetch_recent`. A run that aborts returns no results and alarms
  nobody, so `DeadJudgeAlarms` says nothing of it.
* Bootstrap: a statement that raises, which ends the script as being killed
  there does. `CompletedIsWhole` speaks of scripts that came to their end.
* The language model's answers are any, and prompts, the golden set's
  generator, the dry-run report and the reading of settings have no state or
  order to get wrong. `bandit_state` is written by nothing.

## 6. Plan

Done: the outbox with its refinement and backoff; the embedding versions; the
vocabulary and the graph, composed; the services and their composition; proofs
of every invariant and action property the passing runs check.

Left, most useful first:

1. A composition of the outbox with the loader, so that the retries and the
   order of one aggregate's rows drive `KnowledgeGraph`'s loads.
2. Abstract specifications that the graph and the embedding versions implement:
   a set of delivered documents, a register of live versions.
