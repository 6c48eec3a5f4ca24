# Formal model of pour-decisions

This directory holds TLA+ modules for the stateful core of the wine assistant,
the TLC configurations that check them, and TLAPS proofs about them. Every
definition that stands for code names its lines in `PROJECT.json` (`map`).

Run a check with `tlc -config SavedConversations.cfg MCSavedConversations`, and
the proofs with `tlapm <module>_proofs.tla` for `SavedConversations` (and its
refinement of `ConversationLog`), `SharedConnection` (with `CellarSync`), `ConversationMemory`,
`ToolExecution` (with `ToolCatalogue`), `ChatStream`, `AgentTurn`, `IndexSync` and
`CuratedLists` (with `CellarRecords`).

## 1. Inventory of the system

The program is a FastAPI server (one process, one event loop, a few worker
threads) with a SQLite database, a second SQLite file of LangGraph checkpoints,
a Chroma vector store with a BM25 file, and a Next.js client.

| Component | State | Operations | Interacts with | What is hard |
|---|---|---|---|---|
| Saved conversation rows (`database/repository/conversation.py`, `agents/conversation_service.py`, `api/routes/conversations.py`) | `chat_sessions`, `chat_turns`, `chat_operations` | create, rename, list, read, reserve, publish (two modes), record failure, begin/complete delete, recover | memory manager (lifecycle lock, checkpoint erasure), chat routes | crash or cancellation between transactions, retried operation ids, stale versions, regeneration |
| Execution of saved turns (`api/routes/chat.py`, `agents/intelligent/agent.py`) | one asyncio task per request | reserve, prepare thread, run graph or RAG, publish, record failure | both of the above and the model | cancellation at every await, one handler with gaps before it and inside it |
| Shared connection (`ConversationRepository._db`) | one open transaction | BEGIN IMMEDIATE, statements, COMMIT, ROLLBACK of every method | all request tasks | methods on different lock stripes interleave inside one transaction |
| Conversation memory (`agents/memory.py`, `api/main.py`) | `conversation_threads`, checkpoints, lock stripes, bound checker | legacy turn, saved turn, delete thread, retention cleanup, setup | saver, ownership checker | startup order, cleanup against turns, hand-over of an id |
| Chat streaming (`api/routes/chat.py` 463-625, `ToolProgressReporter`) | bounded event queue, execution task and reader task, suspended generator | progress, heartbeat, terminal event, disconnect | tool guardrails, execution task | two consumers of one queue, one terminal event, disconnect at any await |
| Tool guardrails (`agents/guardrails/tool_execution.py`) | admission semaphore, deadline and retry of each call, report, worker threads | call, admit, retry, time out, cancel, report | agent graph, stream, executor threads | threads that outlive their call, late answers, permits lost in the queue |
| Agent graph (`agents/intelligent/agent.py`, `agents/guardrails/budget.py`, `loop_detector.py`, `relevance.py`, `events.py`) | messages of the thread, model calls reserved, approved tool calls, latest guardrail event, supersteps | prepare and prune, relevance, budget, model, loop check, tools, fail-soft, commit | tools, saver, model | state restored from a checkpoint, two limits that must not cross, pruning inside old turns |
| Retrieval (`retrieval/`, `agents/tools/rag_tools.py`) | one draft per call, the correction budget of a request | retrieve, rerank, judge, correct, build, web fallback | vector store, model, tool guardrails | concurrent calls share one correction, some go on in threads; a draft updated by two passes |
| Knowledge search (`retrieval/query_*.py`, `reranker.py`, `hybrid_retriever.py`, `chroma/deduplication.py`) | none: functions of the question, the scores and the settings | analyse, rewrite, fuse, boost, rerank, deduplicate, compress | retrieval | each stage reorders or drops chunks, in an order that matters |
| Sources of an answer (`api/routes/chat.py`, `context_builder.py`) | messages of the turn | number evidence, read the closing note, renumber | agent graph, both chat routes | every tool call numbers its evidence from one again |
| Web search (`services/web_search.py`, `tools/web_search_tools.py`) | TTL cache | search, general, by price, review and domain | retrieval, tools | key, expiry, eviction and fallback of one cache for several searches |
| Tool catalogue (`tools/registry.py`, `catalog.py`, `routes/tools.py`, `prompt_registry.py`, `provenance.py`) | readiness cache with a lock per prerequisite; the agent's selection | probe, select at startup, report status, load policies | database, Chroma, environment, agent | requests on several threads find an entry expired; the world changes under a probe |
| Ingestion (`chroma/`) and the API's retriever (`retrieval/async_runtime.py`) | collection, tracker file, BM25 file, its manifest, opened index, dense cache | forced and incremental indexing, rebuild and verification; open, validate, answer | retrieval | four stores written in turn, killed or overlapped in between |
| Documents to chunks (`chroma/extraction/`, `structural_roles.py`, `chunking/section_recursive.py`, `chunk_filter.py`) | the context of the headings read so far, the group and the chunk being filled | order lines, drop margins, build elements, classify, group, pack, filter | ingestion | each stage hands a context on: columns, headings, roles, overlap |
| Cellar import (`etl/`), drinking windows, descriptions | wines, bottles, tastings, sync log | fetch, per-row upsert, estimate, complete; describe | CellarTracker, repositories | a row fails and the rest goes on, overlapping imports, a window's source read before it is written |
| Shopping list, preferences | two versioned tables in one file | create, change, delete, reset | client | stale edits, lost replies, one write lock |
| Wines, bottles, notes; Vivino import (`database/repository/`, `etl/vivino_importer.py`) | `wines`, `bottles`, `tastings` | create, consume, note, upsert, delete, import, recalibrate | CellarTracker import, routes | one tasting row written by five rules |
| Reports and advice (`repository/stats.py`, `routes/cellar.py`, `routes/taste_profile.py`, `tools/*_tools.py`) | none | inventory, windows, distributions, profile, recommendation, comparison, pairing | the tables, declared preferences | the same number computed anew in many places |
| Descriptions (`agents/description_service.py`, `drinking_window_rules.py`) | texts and windows of wines, producers, grapes | generate one, generate a batch, estimate | web search, RAG, model, repositories | evidence of another wine, several writes of one result |
| Web client (`frontend/src`) | stores, last transcript, running operation | send, retry, reconcile, cancel | saved routes | a reply lost after the commit |

What makes each part correct, in one line: a saved conversation is a single
atomic object for its clients (version, transcript, at most one busy
operation), the model is run once per accepted operation, what the model
remembers is what the transcript shows, accepted work settles, deletion leaves
nothing; the connection makes every method all-or-nothing and its result true;
memory never loses a turn it reported and never expires a saved or a fresh
thread; a stream ends in exactly one terminal event; a tool call ends by its
deadline and its permit comes back; a turn keeps its budgets and ends in an
answer or an apology with a cause; a retrieval result is of one pass and an
answer of one collection, over the best of what both channels found; a
published source is evidence of the turn's own tool calls, and both chat routes
refuse and answer alike; a cached web result is what the same search got in
time; the readiness of tools is told truly and the agent is bound to one
selection; reports of the same rows agree, tools that judge a wine agree, and a
generated text or window has a ground; the tracker never marks what was not stored; a clean
import mirrors the cellar, and a better drinking window is not lost to a worse
one; the edited lists lose no update and keep their identities unique.

`PROJECT.json` lists the hazards at their lines.

## 2. Plan

| Order | Module | Status | Purpose |
|---|---|---|---|
| 1 | `ConversationLog` | done | abstract promise of a saved conversation |
| 1 | `SavedConversations`, `MCSavedConversations` | done | rows, threads, checkpoints, tasks; composes repository, service, memory and routes; implements `ConversationLog` |
| 1 | `SharedConnection`, `MCSharedConnection` | done | the statements under those transactions |
| 1 | `ConversationMemory`, `MCConversationMemory` | done | legacy threads, cleanup, startup order |
| 1, 3 | `SavedConversations_proofs` | done | tasks, locks, running operations, runs of the model; rows, versions, checkpoints and answers agree; implementation of `ConversationLog` |
| 3, 4 | `SharedConnection_proofs` | done | methods are atomic unless another stripe ends their transaction, and what alone can do that; imports of the cellar mirror what they fetched, and windows give way to stale readers only (`CellarSync`) |
| 3 | `ConversationMemory_proofs` | done | reported turns are remembered, saved threads spared |
| 1 | `ToolExecution`, `MCToolExecution` | done | admission, deadline, retry, cancellation and report of tool calls |
| 1 | `ToolExecution_proofs` | done | report and threads of a call, permits and hand-over |
| 3 | `ChatStream_proofs` | done | events conserved, one terminal frame |
| 1 | `ChatStream`, `MCChatStream` | done | event queue, heartbeat, terminal event, disconnect of one stream |
| 2 | `Retrieval`, `AgentTurn`, `MCAgentTurn` | done | the graph node by node, with the retrieval calls of its tools |
| 2 | `AgentTurn_proofs` | done | limits of a turn, cause of an apology, whole turns, results of one pass |
| 2 | `IndexSync`, `MCIndexSync` | done | collection, tracker, BM25 file, manifest; crashes, overlapping commands, the API that opens them |
| 3 | `IndexSync_proofs` | done | truth of the marks, complete forced runs, one collection per API process |
| 2 | `DocumentElements`, `DocumentChunks` | done | from the lines of a document to its chunks; checked beside `IndexSync` in `MCIndexSync` |
| 2 | `CellarSync`, `MCCellarSync` | done | imports, their failed rows, and who may write a drinking window |
| 2 | `CuratedLists`, `MCCuratedLists` | done | shopping list and preferences with optimistic versions |
| 2 | `CuratedLists_proofs` | done | consistency and no lost update; the rows of `CellarRecords` |
| 2 | `QueryPlans`, `KnowledgeSearch`, `ContextCompression` | done | what a retrieval call computes; composed with `Retrieval` in `MCAgentTurn` |
| 2 | `AnswerSources`, `ChatRoutes`, `WebSearch` | done | sources, both transports and web searches; composed with `ChatStream` in `MCChatStream` |
| 2 | `CellarRecords`, `CellarReports`, `TasteProfile`, `MCCellarReports` | done | rows and their writers, the reports over them, the tools' advice |
| 2 | `Descriptions` | done | generation and estimation; composed with `CellarSync` in `MCCellarSync` |
| 2 | `ToolCatalogue` | done | readiness, selection and accepted configuration; checked beside `ToolExecution` in `MCToolExecution`, proved beside it in `ToolExecution_proofs` |
| 3 | `SavedConversations`, `SharedConnection` | planned | unlocked readers that see rows of an open transaction; a saved conversation that adopts the id of a legacy thread (composition with `ConversationMemory`) |
| 3 | `ChatStream` with `SavedConversations` | planned | the execution task replaced by the outcome of a saved turn, cancelled again while it records its verdict |

Bounds follow one rule: two actors where a race needs two, three operations
where a story needs append, failure and regeneration, one value more than a
limit where a limit is involved.

## 3. Modules and the code

### SavedConversations

| Variable | Code |
|---|---|
| `session`, `turns`, `operation` | the tables `chat_sessions`, `chat_turns`, `chat_operations` |
| `thread`, `saver` | `conversation_threads` and the checkpoints of the async SQLite saver |
| `lock` | the stripes of `lifecycle_lock` in `agents/memory.py` |
| `pc`, `job` | where each request task is and its locals (conversation, operation, mode, active and terminal checkpoint, verdict) |
| `server`, `pending` | the API lifespan; the result of `pending_deletions` |
| `view`, `inferences`, `context` | history: what a client last read, how often the model ran for an operation, and with which prior turns |

Actions carry the names of the methods: `Create`, `Rename`, `ListTurns`,
`ReserveOperation`, `PublishOperation`, `RecordFailure`, `BeginDelete`,
`CompleteDelete`, `RecoverRunning`. Between a reservation and its publication
the task passes through `ReservationRead`, `StartRag`, or `StartThread` /
`PutBaseCheckpoint` / `InsertThread`, then `StepGraph`, `FinishGraph`,
`FinishRag`. A rejected request writes nothing and is no step.

Exceptions and cancellations come in two kinds. `Caught` are those inside the
`try` of the route, which go on to record a verdict; an interruption of the
thread's creation has its own outcomes (`FailInsert`) because of the
compensating deletion and because the connection's thread may already have
executed the statement. `Uncaught` are those no handler sees: after the
reservation commits and before the `try`, while the verdict is recorded, and in
the middle of a deletion. `Crash` forgets every task at any point.

A transaction is one step here. That is an idealisation, examined one level
down by `SharedConnection`: it is exact for tasks of one stripe, and across
stripes unless a `create` or a cancelled COMMIT comes between (section 5).

Data abstraction: an answer is the operation that produced it; a checkpoint is
its position in the thread's history; what it remembers is a set of
`<<sequence, answer>>` pairs cut to the configured number of prior turns. The
fingerprint of an operation's parameters is not kept, because a second request
with a known operation id changes nothing whether the fingerprints agree or not.

### ConversationLog

The promise: each conversation is one record of state, version, answers and
busy operation. `SavedConversations!Promise` instantiates it with a refinement
mapping (`LogOf`, `OutcomeOf`); recovery settles one operation per conversation
in one abstract step. A step of the code is `Moved` here: some entries take one
move each and the fates of their operations change with them. A run checks the
refinement and `SavedConversations_proofs` proves it.

### SharedConnection

One aiosqlite connection: `txn`, the uncommitted rows `dirty`, the committed
rows `disk`. A method is the number of rows it writes. Each await is a step: a
statement is queued to the connection's thread before the await, so a cancelled
await still executes it. The stripes keep methods on one stripe apart, and
methods of two stripes interleave at every await. `Begin` is refused while a
transaction is open, whoever began it, and no handler rolls back then, because
BEGIN stands before the `try`. `create` has no BEGIN of its own and relies on
the driver's implicit transaction: its row joins whatever is open and its COMMIT
ends that. A cancelled COMMIT has executed when the handler's ROLLBACK follows
(`Undo`), which may meet a transaction begun since. The history variable
`intruders` records, per task, which others ended a transaction it was inside.
Every task runs one method, so a run ends: the configuration switches the
deadlock check off.

### ConversationMemory

The legacy life of a thread: the ownership guard, waiting for the lock, the
guard again, the turn, `_commit_turn` with its ignored row count, deletion,
`cleanup_expired` selecting first and locking later, and the lifespan that opens
the manager (with a forced cleanup) before the ownership checker is bound. `Bind`
may leave it unbound: the lifespan catches `ConversationStorageUnavailable`
(`main.py:199-202`) and serves all the same. A saved conversation is only its
marker and its turns here.

Manager and saver share one connection. `thread`, `saver` and `stale` are the
rows as it sees them, `disk` the rows committed. A step that fails or is
cancelled (`FailStart`, `FailRun`, `FailCommit`, `FailErase`, `FailDrop`,
`FailCleanErase`, `FailCleanDrop`) leaves its statement not executed, executed
and open, or committed (`Torn`), since a queued statement runs although its
request is gone and nobody rolls back. The next commit of any request commits
what is open; `Stop` loses it. `promised` holds the turns a client was told of,
`doubtful` those whose commit, replacement or removal was cut short: of them
the client was told nothing and either outcome is accepted.

Approximations: the statement of a cancelled request executes at the moment of
the cancellation, although it may run just after the lock is released; saved
conversations are written (over their own connection) only while nothing is
open on this one, as SQLite admits one writer and a busy write only fails.

### ToolExecution

| Variable | Code |
|---|---|
| `call[c]` | the task of one `awrap_tool_call`: what it awaits (`at`), the resolved result it has not seen yet (`ready`), `attempts_started`, the timeout context (`left`, `expired`), an undelivered cancellation (`pending`), `sync_worker_may_continue` |
| `sem` | `ToolExecutionController._semaphore` |
| `workers` | the threads in which bridged tools run |
| `report`, `outcome` | the codes of `ToolExecutionReport`; what the wrapper returned or raised |

The semaphore is the one of asyncio in Python 3.11 (`WakeNext`, `Resumed`,
`LeavesQueue`): a grant is a transfer to a waiter that has not resumed yet, and a
cancellation can come between. Each await is a place a call stands at; a result
or a cancellation is decided when it arrives and seen when the task resumes.
`Deliver` and `Unwind` are the two ways out of `asyncio.timeout`: it turns a
cancellation into a deadline only if nobody else cancelled the task, and a
result that comes after the deadline is discarded.

Abstractions: one thread per attempt of a bridged tool; a coroutine that
swallows a cancellation is never a bridged one, because the retrieval coroutines
that go on in a thread re-raise it; tools are known and the policy enabled;
failures are transient (`busy`) or not; tools end a thread or a coroutine when
they like, or never. Time is a countdown of each admitted or waiting call, all
moved by one `Tick`.

### ChatStream

One connected stream. `pc` says where the generator is suspended, `exec` is the
execution task, `reader` and `held` the reader task and the event it took. The
generator runs from one await or yield to the next in one step, which is what
the event loop guarantees; `Loop` is one pass of its `while`. What the execution
does is reduced to tool calls that start and end and to its own outcome.
Closing the generator is one step, `Disconnect`, followed by the wait for the
cancelled tasks. A cancel scope that repeats its cancellation while the finally
block waits is not part of this module: its effect on a saved turn is
`LoseVerdict` in `SavedConversations`.

### AgentTurn and Retrieval

`AgentTurn` extends `Retrieval` and shares its variables: the tools of the graph
are retrieval calls.

| Variable | Code |
|---|---|
| `thread` | the state at the active checkpoint of the thread |
| `state` | the `AgentState` of the running graph: message kinds, `llm_calls`, approved fingerprints, latest event, pending batch |
| `pc`, `steps` | the next node of the compiled graph, the nodes LangGraph has run |
| `call[q]` | a tool call: where its pipeline is, its attempt, its draft, what the caller got |
| `reserved`, `stragglers` | `CorrectionAttemptBudget` of the request; threads past their deadline that hold it |
| `turn`, `made`, `executed`, `corrections` | history |

Each node of `_create_agent` is an action and ends with the node its edge
function chooses. `Payload` is the input `_build_invoke_payload` merges over the
checkpoint: it resets counters and events but not the messages. A run whose
result is empty, or that raised, was cancelled or hit the step limit, commits
nothing (`Finish`, `Abandon`). LangGraph's recursion limit counts one tick after
the last node, so a graph that ran `MaxSteps` nodes raises even if the last was
its end: `Finish` needs `steps < MaxSteps`. `Enabled` holds the guardrails that
are switched on, `call_budget` and `loop_detection`; either may be off. `Earlier` lets a thread start with older turns,
including one in which the loop detector left a call unanswered.

A retrieval call is four steps: the first pass with the reservation of a
correction, the correction, the return with a possible second attempt, and the
deadline at any moment. What a stage can do to the draft is a set of drafts
(`Ranked`, `Corrected`, `Built`), since which chunks are found and how they
score is data.

### IndexSync

| Variable | Code |
|---|---|
| `disk` | the documents in the library |
| `coll` | the Chroma collection under its name and what each generation of it held |
| `tracker`, `bm25`, `sync` | `index_tracker.json`, the pickled BM25 index, its synchronisation manifest |
| `run` | each indexing process: its place and its locals |
| `api` | the retriever the API built at startup and its dense cache |

`open(..., "w")` and the write are two steps, so a killed or overlapped save
leaves a torn file, which the next load takes as empty. `replace` of the BM25
file and of the manifest are atomic each, as `os.replace` is. A mark carries the
generation and the contents it was made from, which the code does not store:
they are there for the property only. Chunks are texts of a version; two
documents share one, because the duplicate check looks at the whole collection.

### DocumentElements, DocumentChunks

Which texts `process_file` has for a document: `Texts` of `IndexSync` are what
these modules compute for the books of `MCIndexSync`. A text is a record of what
the rules see of it (length, words, shape, signals); every pattern of
`structural_roles.py` is one of its fields.

| Definition | Code |
|---|---|
| `ExtractPageLines`, `OrderColumnRegions` | the reading order of a page whose layout is known |
| `FilteredLines`, `BodyFontSize`, `InferHeadingLevel`, `BuildDocumentElements`, `ApplyPageRoles` | `PdfPlumberExtractor.extract` |
| `EntryBoundary`, `EpubHeading`, `EpubElements` | `EbookLibExtractor.extract` |
| `ClassifyStructuralRole` | the function of the same name, for an element, a page, a chunk and the filter |
| `GroupElements`, `ElementUnits`, `PackGroupElements`, `Candidates` | `SectionRecursiveChunker.chunk` |
| `Rejects`, `ValidChunk`, `Indexed` | `ChunkQualityFilter.assess`, `validate_chunks`, the loop of `process_file` |

The two pops of the overlap (down to its budget, then until the next unit fits)
are one choice, the longest suffix that satisfies both.

### CellarSync

One wine is followed: source of its window, rows of its bottles, its rating.
Every repository call opens its own connection, so lookup and write are two
steps, and so are the SELECT and the UPDATE of `update_drinking_window`. The
dynamic update of an object read earlier writes back the window it was read
with (`UpdatedWindow`), which is how a description can undo a window written
meanwhile. `remote` is the CellarTracker account, fetched once per phase.

### CuratedLists

`table` and `last` are the rows and the AUTOINCREMENT sequence of both stores,
`lock` the write lock of the SQLite file, `request` and `step` the request of
each client. A request carries the entry its client saw (`base`), of which the
server only gets the version. Any reply may be lost and the request sent again.

### CellarRecords, CellarReports, TasteProfile

| Variable | Code |
|---|---|
| `wines`, `bottles`, `tastings` | the rows of the tables of these names; what a row of `wines` says does not change |
| `origin` | history: the export a wine's personal fields come from |
| `budget` | bounds |

`CellarRecords` has one action per repository call: creation and consumption of
bottles, personal notes, community scores, deletion, the import of a Vivino
export and the recalibration of its ratings. A call is one transaction and the
calls do not overlap here; overlapping imports are in `CellarSync`. Texts of
reviews and notes, images, producers and regions as rows are left out.

`CellarReports` reads these rows. A report is an operator: a GROUP BY is a
function from the groups, an AVG a sum and a count, an ORDER BY with LIMIT the
set of answers the order allows. `TasteProfile` adds what the tools advise: how
a declared preference is resolved and which options are offered, the taste
profile, its conflicts with declared preferences, recommendations, comparison,
and pairings. Names are their normalized forms, scores are exact tenths. A tool
that raises gives no answer. `Shown` and `Page` stand for every limit of a list;
the first bottle of a wine is any of its bottles, since the code orders them by
location and bin. The two orders of consumed wines by a name, the static tables
of `get_pairing_for_wine` and the choice of a category of cheese are left out.

### Descriptions

One generation for a wine, a producer or a grape, alone or in a batch: what its
searches bring, whether the evidence names the entity, what the structured
answer of the model may claim, what is written and which failure is reported;
and the rules that estimate a window. Texts are sequences of words with percent
signs, because whether a sentence belongs to a wine is decided on words; names
of grapes have their length, because the longest one found counts. A batch is
its producers, then its wines, with the service state it leaves behind. The
module extends `CellarSync`, so that a generation works on the window it read.

### AnswerSources, ChatRoutes, WebSearch

`AnswerSources` models `_finalize_intelligent_sources` and
`_filter_cited_sources`: tool outputs as numbered evidence, the answer as text,
markers, fences and a closing note, and the published numbering. Titles of web
results and relevance scores are left out. `ChatRoutes` has both transports over
one execution: what each refuses before it starts, the ends an execution can
have, how each tells its end, and which thread each may touch. `WebSearch` is
the engine and its cache as runs of tool invocations: keys, time to live,
domain fallback, filtering and eviction.

### QueryPlans, KnowledgeSearch, ContextCompression

`QueryPlans` is the analysis of a question (entities, intent, filters) and the
alternate question of a correction. `KnowledgeSearch` computes what `Retrieval`
leaves open: the union of the channels, the boost, the rerank, threshold and
confidence, the corrected pass, parent expansion, deduplication, the web
fallback and the tool's answer; `SearchFits` says that what it computes is what
`Retrieval` allows. `ContextCompression` is the shortening of a long context. A
world gives each chunk its scores; texts are numbers whose likeness is not
transitive, as a similarity threshold is not.

### ToolCatalogue

| Variable | Code |
|---|---|
| `app` | the configuration and the phase of the lifespan |
| `history` | the world (database, Chroma, credential) at each reading of the monotonic clock |
| `cache`, `refreshing` | `_readiness_cache`, the refresh lock of each prerequisite |
| `job` | each thread's readiness check: the prerequisites left, its clock readings, what it found |
| `agent` | tools, prompt and provenance of the one selection |

The catalogue is the real one: 19 tools with their category, tier,
prerequisites, cost and latency, as a set, since nothing modelled depends on
the order in which replies and prompts list them. A probe is two steps (reach, look inside)
between which the world may change. The second look of a thread that waited for
the lock is part of taking it, since nobody else writes the entry then.
`Accepts` is what the lifespan refuses to start without (prompt manifest and
directory, execution policy, session memory, time zone, readiness settings);
`AcceptsLimits` is what the agent alone needs, without which the application
serves without an agent. `force_refresh` and `invalidate_readiness_cache` are
not called by the running system and left out.

### MC modules

They define stripe assignments (`OneStripe`, `TwoStripes`), the kinds of tool
calls, texts of documents, earlier turns and symmetry sets.
Tasks, operations and messages are interchangeable: no definition orders them.
Symmetry is used in runs that check invariants, action properties and step
refinement, never in the liveness runs.

## 4. Runs

| Run | Bounds | Shows |
|---|---|---|
| `saved_conversations` | 1 conversation, 3 operations, 2 messages, 2 tasks, 1 client, window 1, 1 rename | all invariants and action properties of the core, and refinement of `ConversationLog` |
| `saved_conversations_settle` | 1 conversation, 2 operations, 1 task, no uncaught interruption | accepted work settles through crashes and handled failures, accepted deletion completes |
| `shared_connection` | 3 tasks, 2 of one stripe and 1 of another, every writing method | `ConnectionInvariant`: unless another stripe ends its transaction, a method is all-or-nothing on disk and its result true; only a create or a cancelled COMMIT ends another's (1,602,621 states) |
| `conversation_memory` | 1 thread, 2 tasks and the cleaner, 3 turns | reported turns are remembered, as the connection sees it and on disk, through cancellation and failure of each statement; cleanup takes only expired threads; under the checker legacy requests never move saved threads (`SparedThreadsStay`) (1,174,419 states) |
| `conversation_memory_startup` | 1 task, 1 turn | violation, section 5 |
| `tool_execution` | 3 calls of three kinds, 1 permit, deadline 3, 1 retry; beside them 26 configurations, 4 worlds, clock to 3, time to live 1, the selection and 2 status requests | no leaked permit, no stranded waiter, truthful report, threads accounted for, every call ends; readiness told truly, one probe at a time, one contract (528,404 states) |
| `chat_stream` | 3 calls, queue of 2; every state of the application and request on 3 threads; 2 contexts, tool outputs and answers of `MCChatStream`; runs of 5 web searches of 6, a cache of 2 | bounded, conserved events; one terminal event, last, and it arrives; a disconnect ends everything; both transports agree, sources are evidence, a cached search is a search in time (194,032 states) |
| `index_sync` | 2 documents of 2 versions sharing a text, 2 indexing processes, 2 commands, 3 collections, 1 edit; 192 PDFs of 2 or 3 of 8 pages, 1,088 EPUBs of up to 3 of 8 headings, 512 of 3 of 8 blocks | the tracker marks only what is stored, a forced rebuild is complete, answers of one collection; reading order, headings, chunks and what is kept of every book (3,149,920 states) |
| `agent_turn` | 2 turns, 2 queries (1 in a thread), 2 chunks, 2 attempts, budget of 2 model calls, 13 steps, both guardrails on, window 1, batches of 2; questions of up to 3 of 15 words, 125 worlds of 3 chunks under 9 settings, 6 worlds of a correction, texts of up to 4 of 5 sentences | limits of a turn, artifacts of one pass, cause of an apology, whole turns; what a call computes (1,920,714 states) |
| `cellar_sync` | 1 bottle, 2 ratings, 2 imports, 1 description, 1 edit, 1 fault; 4 entities, 12 searches, 5 answers of the model, batches of a producer or wine and a wine | a clean import mirrors the cellar, duplicates only by overlap, windows give way to no worse source unless read stale, estimates rest on evidence (4,544,409 states) |
| `cellar_reports` | 3 wines, 2 bottles, 2 writes of tastings, 3 exports, 4 sets of declarations, two months, pages of 1, lists of 2 | personal and community fields keep to their rules, reports that count the same bottles agree, advice agrees (15,018 states) |
| `curated_lists` | 2 clients, 2 row ids, 2 identities (1 of the catalogue), 1 preference at most, 4 requests, any number of retries | unique identities and the limit, no lost update, every request answered |

The run `saved_conversations` checks as an invariant the strengthening itself
(`StoryInv`), of which the properties of section 6 are consequences.

Why these bounds. Three operations allow every order of append, failed append,
regeneration and a second regeneration, which is the longest story the thread
pointers (`active`, `previous`) can tell before they repeat; window 1 with three
turns makes the cut of old turns happen. Two tasks suffice inside one stripe
because a task takes the lock in its first step: a third could only wait. A
second conversation matters where operation ids are global and locks differ;
everything the run checks is proved for any number of conversations and stripes
and so needs no instance of its own.
`MaxVersion` bounds renames only; the versions of turns and deletions are
bounded by the number of operations. On the connection two tasks share a stripe,
so one may run after what the other left there, and the third interleaves with
either. One thread with two requests, the cleaner and a saved conversation is
what one lock guards; two threads on one connection, which can commit what the
other left open, are the theorem's business: that instance is too big to finish.
With one permit three tool calls are one admitted, one granted or waiting and
one behind it, each of another kind. A deadline of 3 leaves room for a delay of
1 and a second attempt, and for a retry that comes too late. Three calls offer
six events to a queue of two, so it overflows.
Two status requests and the selection are three threads over one lock per
prerequisite: one probes, one waits and looks again, one reads. A time to live
of 1 with a clock to 3 lets an entry expire while a probe runs and once more.
Each configuration but the served ones is one slip away from being accepted.
Tool calls and catalogue share no variable; `MCSpec` explores each from one
state of the other instead of their product.
The rules that compute (`TransportsAgree`, `SourcesAreEvidence`,
`SearchesKeepTheirWord`, `SearchesWellRanked`, `ChunksTellTheBook`, `EstimatesAreGrounded`,
`AdviceAgrees`) are quantified over inputs inside the property, so every state
of the machine they speak about meets every input. Their inputs are chosen so
that rules collide: documents that differ in extension only, a page 0, a marker
out of range, notes inside fences, hosts that end in each other; names that
contain a misspelling of each other; chunks good for one channel and bad for the
other, of equal content, with a common parent; windows that meet, names alike
but not transitively; pages with running heads, two columns around full-width
lines and a line that touches one, a table of contents, an index, notes, a form;
headings that repeat the title or open an entry by navigation, class or
neighbours; blocks that fill a chunk alone, in pairs, or not even when split.
Chunk size 1024, overlap 256 and at least 200 characters are the shipped values
(`app_config.yml`); the quality filter is in its enforcing mode.
Three wines are one synchronised, one without region or vintage and of unknown
type, and one of Vivino that is alike to the first; pages of 1 and lists of 2
make every limit cut. Two rows of bottles let a wine be owned and drunk at once
and a group of the history hold two tastings, in two months or undated.
Two indexing commands are what it takes for one to reset, rebuild or save under
the other, three collections let both reset once; a batch is one chunk, so every
partial write occurs. In a turn the model budget of 2 lets the batch of a second
call repeat the first; 13 steps are the fewest at which the budget must end the
turn (the longest path has 12 nodes), and the earlier thread is longer than the window and holds an unanswered call. Two
imports are enough for every race of lookup and write; one fault makes each row
and each fetch fail in some run. Four requests create, buy, create again and
restore; two ids let an id be freed and (in a database without AUTOINCREMENT) be
given again.

Fairness. `Work(t)` is weakly fair per task: the event loop runs a ready task,
model calls and tools have deadlines, storage calls answer or raise. `Startup`
is weakly fair: a stopped server is started again. Clients, cancellations,
failures and crashes have no fairness. `CaughtSpec` leaves out the uncaught
interruptions, which is the exact condition under which accepted work settles
without a restart; crashes stay in it, and what a crash leaves running the next
startup settles. `DeletionSettles` assumes the server eventually stays up.

Tool calls: the clock, the timers and the resumption of a task whose await is
resolved are weakly fair; tools and threads are not. `EveryCallEnds` leaves out
coroutines that swallow cancellations, since `asyncio.timeout` cancels once and
such a coroutine is then under no obligation to return; the calls waiting behind
one are included. Streams: the generator and the reader are weakly fair (a
connected client takes its frames, heartbeats bound every wait), and a cancelled
execution unwinds; a running execution owes nothing. Edited lists: the steps of
a request are weakly fair, because a request runs on a server thread and each of
its statements is bounded by the busy timeout; submissions, retries and aborts
are not.

## 5. Divergences from the documentation

Shown by the run that ends in a violation:

1. `CleanupSparesSaved`: the startup cleanup runs before the ownership checker
   is bound and takes threads of idle saved conversations (`memory.py:140`). The
   conversation's transcript survives, its model memory does not.

Behaviours the models contain, which the properties are stated around.

Saved conversations and streams:

2. `publish_operation` says "Atomically publish a finalized response and its
   committed checkpoint" (`conversation.py:385`). All methods share one
   connection, whatever stripe they hold: a `create` of another stripe, which
   writes without BEGIN, commits the rows written so far of a publication that
   may still fail (`conversation.py:194`), and the ROLLBACK after a cancelled
   COMMIT (`conversation.py:326-330`) takes back the rows of one begun since.
   `ConnectionInvariant` excepts the methods this happened to and says that
   nothing else does it (`IntrusionHasCause`).
3. The reservation of a saved turn is awaited before the `try`, so a
   cancellation after its commit (`AbandonReservation`) leaves the operation
   running and the conversation busy until the next startup (`chat.py:769`).
   Settlement is therefore checked without it.
4. BEGIN IMMEDIATE stands before the `try` (`conversation.py:280`): cancelled
   while it executes, it leaves a transaction open. Every later method that
   begins one fails with "cannot start a transaction within a transaction" and,
   being outside its `try` too, rolls nothing back; the first `create` that
   commits, or a restart, ends it.
5. The reader task survives a heartbeat, so a call's held started event can be
   sent after its finished event (`chat.py:558`); `StreamInvariant` promises
   conservation, not order.
6. Answers made from documents alone keep their markers `[n]` while the
   published sources are compacted to the cited ones. Documents of the web
   fallback all have the source name "web", so distinct pages share one source.
   A legacy request on the thread of a saved conversation is refused only while
   the saved-conversation service is available; when its storage was not
   available at startup, legacy requests and cleanup touch saved threads
   (`main.py:199-202`), and `SparedThreadsStay` promises nothing. `run_turn`
   says that cancellations "leave the application's committed pointers
   unchanged" (`memory.py:158`): cancelled in `_commit_turn`, its UPDATE or
   COMMIT still executes, and a turn reported as cancelled is in the context of
   the next (`FailCommit`).

Index, cellar and lists:

7. A forced indexing run uses no tracker at all (`loader.py:256-282`), so the
   file keeps the marks of the collection the run deleted. A document that failed
   "will be retried on next run" (`loader.py:329`), but an incremental run finds
   it marked and skips it. `TrackerInvariant` speaks of marks made against the
   present collection only.
8. `update_drinking_window` promises not to overwrite a source of higher
   priority (docstring, `wine.py:613`). The check reads before it writes, and the
   description request writes back an object read before the model was asked;
   `WindowsGiveWay` says that this stale read is the only way.
9. Resetting the preferences confirms only their number (`declared_preference.py:521`):
   after one is deleted and another created, a reset based on the older list
   passes. `NoLostUpdate` exempts it. A create whose reply was lost and that is
   retried after the entry was deleted creates it again.
10. `get_cellar_statistics` documents bottles and counts wines;
    `find_duplicates` documents the weights 30/30/40 and scores vintage 30,
    producer 30, name 40. The drinking index is said to rise smoothly and is 0
    in the year a window opens, about 42 the year before. A bottle past its peak
    is in none of the drinking categories. The pages' vintage filter drops wines
    without vintage, the tool's range keeps them. A scan without date is skipped when the
    newest date is sought; an unparsable date beside another one raises after
    the wine row was written (`vivino_importer.py:372`). A wine all of whose
    scans are undated is recorded as consumed on 2010-01-01
    (`vivino_importer.py:172`), so ranges of dates and trends count it then.

Documents; the parts of `ChunksTellTheBook` name these cases as exempt:

11. A line of a column whose box overlaps a full-width line by a hair is in no
    element (`pdfplumber_extractor.py:202`), since only the page's own lines that
    cross the gutter are added back. In the preserved compounds the line break
    becomes a space ("full- bodied").
12. Whether a heading repeats the title is compared with the digits masked
    (`pdfplumber_extractor.py:95`). In a PDF without a title in its metadata
    "Chapter 1" becomes the title, "Chapter 2" counts as its repetition, the
    section before it stays, and chunks bridge the two chapters. In an EPUB an h2
    after the entries of a lexicon stays filed under the last entry until the next
    level-1 heading, also in later documents of the spine.
13. The title is part of the heading path by which roles are judged, so every
    chunk of a document titled "Notes" or "Index" is rejected. Three years in
    parentheses make a chunk of a few lines a bibliography. The lines of a table of
    contents under no known heading are joined to a paragraph and pass as prose.
    The last piece of a section that is shorter than the minimum and names no
    wine is dropped, and one page in doubt drops the chunks that share it.

Advice:

14. A rated wine of type "Unknown" makes the taste profile, recommendations and
    comparison fail, and a declared style preference makes recommendations fail
    as soon as such a wine is owned: the preference identity does not know the
    type. Ratings that are all 0 make the profile raise.
15. A preference whose value equals a cellar value is stored under that value
    and not under its canonical name, so that two synonyms can be declared with
    opposite stances. A preference for a primary region never matches
    "primary - secondary". `get_top_rated_wines` documents an order by tasting
    date and orders by community rating. Pairings look at the first rows of a
    type only. In the terminology, the entries Mourvedre, Trebbiano and Mazuelo
    are overwritten by those of their synonyms.

Descriptions:

16. A window that cannot be written fails a generation that was already saved,
    which a batch then does not count. The repositories' `update` answers True
    for a row that is gone. A failure of the grape engine does not mark the
    service unavailable, one of the wine engine does.

Retrieval:

17. `normalize_query` promises to correct misspellings, is not idempotent and
    changes correct names: "rhone" becomes "rhonee", "cabernet franc" becomes
    "cabernet sauvignon franc", "pinot grigio" becomes "pinot noir grigio".
    Corrected questions lose hyphenated regions. The correction for questions on
    classifications repeats the first search when only regions or vintages are
    named (`CorrectionRepeats`).
18. With the shipped rerank threshold low confidence means that no chunk
    survived, so `min_retrieval_confidence` never decides (`BooksOrWeb`). With a
    reranker, the metadata boost only decides ties.
19. `compress_context` (off by default) may drop the sentence that holds a
    header "[n] Source" and may return an empty context. A retriever with cache
    size 0 returns nothing. An embedder or reranker that failed to load is never
    retried. An error of the dense channel looks like an empty result.

Tools:

20. `/tools` promises the "startup selection" (`tools.py:58`) and reads
    `app.state.cloud_intelligent_agent` (`tools.py:67`), which the lifespan never
    sets; it sets `intelligent_agent`. In the running API no tool is reported as
    selected. The tests set the attribute by hand.
21. `add_tools` has no caller; called, it would leave the prompt, the provenance
    and the policy of the selection as they were (`agent.py:982-1007`). A probe
    that spans a change of the world may report a failed check for a world that
    never was. A call budget or loop setting that is out of range is swallowed:
    the API serves without an agent.


## 6. Proofs

Eight modules hold proofs. Each states its inductive invariant, shows that the
initial states satisfy it and that every action keeps it (one lemma per action,
or per group of actions that leave it alone for the same reason), and draws the
properties of the runs from it. No theorem has a bound on its sets beyond the
finiteness stated below.

### Saved conversations

`SavedConversations_proofs`, for any finite or infinite set of conversations,
operations, clients and tasks, any assignment of stripes and any bound:

| Theorem | Statement |
|---|---|
| `InvariantHolds` | `Spec => []IInv` |
| `TypeCorrect` | `Spec => []TypeOK` |
| `RunningIsExclusive` | `Spec => []RunningFreezesConversation` |
| `ModelRunsOnce` | `Spec => []InferenceAtMostOnce` |
| `OutcomesAreFinal` | `Spec => TerminalIsFinal` |
| `StoryHolds` | `Spec => []StoryInv` |
| `OneStory` | `Spec => []RowsTellOneStory` |
| `MemoryAgrees` | `Spec => []MemoryFollowsTranscript` |
| `HistoryKept` | `Spec => HistoryIsKept` |
| `PromiseKept` | `Spec => KeepsPromise`, the refinement of `ConversationLog` |

Assumptions: `StripeAssumption` (every conversation has a stripe),
`WindowAssumption` (the window holds at least one turn), `BoundAssumption` and
`NullAssumption` (the null value is no id).

Why a strengthening is needed. That the model runs once is not inductive: a task
about to start it must be known not to have counted a run (`RunsAccounted`),
which needs that no other task of the same conversation is at work (`LocksHeld`,
since two tasks at work hold different stripes, they have different
conversations), that the task's operation belongs to its conversation
(`OwnOperations`), and that an operation id that was forgotten belongs to a
conversation that is gone for good, so that it can be accepted again but only
elsewhere. That versions do not move during a run needs that publication and
failure bump the version of exactly the conversation whose only running
operation they settle. Steps of a task that leave sessions and operations alone
share `WorkGoesOn` and `WorkEnds`; those that settle an operation share
`OperationSettles`; those of requests and the process share `IdleChange`;
`StepsOnRows` says which actions write rows at all.

That rows and checkpoints agree needs more (`StoryInv`). Per conversation: each
operation is about a turn that asks its question (`OnTheirTurns`), each turn has
the answer or the fate its operations say (`TurnsAccounted`), a deletion leaves
nothing a later step could pick up (`NothingLeft`), a version a client holds
names one transcript (`VersionsCount`), the active checkpoint remembers all
answers and the previous one those before the newest (`PointersRemember`), and
what a model was told is what was answered before (`KnowsPrior`). Per task: what
the checkpoint it wrote and has not published remembers, in particular that a
regeneration starts from the previous checkpoint and a first turn from nothing.
The window makes this a statement about the newest `MaxPriorTurns` elements of
sets of turns; lemmas on `Recent` say that adding the newest element and cutting
commute.

The refinement maps a conversation to its state, version, answers and busy
operation. An acceptance, a publication, a recorded failure, a deletion and a
renaming are one abstract move each; a recovery is one move of every conversation
it settles; every other step, a crash included, stutters. That a transcript with answers has
a newest one, which the mapping reads, is shown from the finiteness of the
transcript (the well-foundedness of strict inclusion of finite sets).

### The shared connection

`SharedConnection_proofs`, for any number of tasks, any stripes and any
assignment of the one to the other:

| Theorem | Statement |
|---|---|
| `ConnectionHeld` | `Spec => []IInv` |
| `MethodsAreAtomic` | `Spec => []ConnectionInvariant` |

Assumptions: `StripeAssumption` and `NullAssumption`. The invariant says of each
place in a method whose transaction nobody ended which of its rows are on the
connection and which on disk; that at most one undisturbed method is inside a
transaction it began, because BEGIN is refused while one is open; and that a
transaction nobody owns holds nothing but the complete rows of a cancelled
`create`. Who ends a transaction is inside one itself, has created, or was
cancelled at its COMMIT; in the first case the two hold different stripes, since
a method at work holds its own.

### Conversation memory

`ConversationMemory_proofs`, for any set of threads and tasks and any stripes:

| Theorem | Statement |
|---|---|
| `MemoryHeld` | `Spec => []IInv` |
| `TurnsRemembered` | `Spec => []MemoryInvariant` |
| `SavedSpared` | `Spec => SparedThreadsStay` |

Assumptions: `StripeAssumption`, `BoundAssumption` and `NullAssumption`. The
commit of a turn ignores how many rows its compare-and-set updated; that it
always hits is the point of the invariant: a task at work holds the lock of a
thread no saved conversation owns and the row is as the task read it (`TaskInv`),
the cleaner acts on threads nobody has locked (`CleanerInv`), and the
row points at checkpoints that remember what was promised, besides only what is
in doubt, and, for a regeneration, the same without the newest turn (`RowInv`).
This is said of the rows as the connection sees them (`Now`) and as they are
committed (`Safe`): a statement cut short leaves each of them at the old or the
new row, a commit by anybody makes the second the first, and a restart the first
the second. Ids come from one counter, so a turn in progress is newer than
everything its thread remembers. That a task's thread is nobody's saved
conversation is claimed only while the checker is bound.

### Tool calls and streams

`ToolExecution_proofs`, for any finite set of calls of any kinds, any number of
permits and any deadline and retry policy, and `ChatStream_proofs`, for any set
of calls and any capacity:

| Theorem | Statement |
|---|---|
| `CallsInvHolds` | `Spec => []CallsInv` |
| `ReportIsTrue` | `Spec => []ReportTellsOutcome` |
| `ThreadsAreAccounted` | `Spec => []WorkersAccounted` |
| `AdmissionHeld` | `Spec => []AdmissionInv` |
| `PermitsConserved` | `Spec => []AdmissionInvariant` |
| `StreamHeld` | `Spec => []IInv` |
| `EventsAccounted` | `Spec => []StreamInvariant` |
| `OneTerminal` | `Spec => []ExactlyOneTerminal` |

Assumptions: `CallsAssumption` (kinds of calls are sets of calls),
`PolicyAssumption` (ranges of the policy that the loading of the configuration
enforces), `CapacityAssumption` and the `NullAssumption` of each. The
strengthening for reports ties the place of a call to its threads: no thread
before admission and during the delay, and none once an attempt has answered
(`Attempting`), which is why a retry overlaps nothing; and `mayContinue` is
exactly "bridged and attempting", which is why the report of a deadline never
misses a thread that goes on. Admission needs the rest: every call in the queue
stands at the admission, a call is queued once (`SemaphoreOK`), a free permit
with a sleeping waiter has a grant under way (`Awake`), and free permits, grants
and holders add up (`Weight`). The case that matters is a waiter cancelled after
its grant, which passes the grant on.

For streams the conservation of events and the single terminal frame are
inductive with the types and one more fact: the generator is at work only while
it has not finished and nobody cancelled the execution (`Undisturbed`). The
lemmas count an event in a sequence under `Append` and `Tail`.

### The tool catalogue

`ToolExecution_proofs`, in its last part, for any set of requests, any worlds,
any configurations and any length of the clock:

| Theorem | Statement |
|---|---|
| `CatalogueHeld` | `CatalogueSpec => []CatalogueInv` |
| `AnswerHeld` | `CatalogueSpec => []AnswerInv` |
| `CatalogueIsTrue` | `CatalogueSpec => []CatalogueInvariant` |

Assumptions: `ThreadsAssumption` (the lifespan's thread is none that serves a
request) and `ConfigurationAssumption` (what stands where a number belongs is a
number or `None`, and lists are lists).

That evidence is true needs an account of a probe while it runs (`ProbeTrue`):
a thread about to look inside reached the dependency at some reading since the
probe began, and a verdict about to be published was so at one of them or the
world changed in between (`Evidenced`). The case that matters is the dependency
that goes away between the two steps: `OutOfReach` shows that the look inside
then fails rather than tells something of a world that never was. Freshness
needs the order of the clock readings of a check (`Timed`), and spacing that
whoever probes holds the lock and found no fresh entry at the reading it took
after acquiring it (`Refreshes`).

The second invariant is about what is made of the evidence: a check that is done
has evidence of everything its tools need (`Sees`), and the agent is the
contract of one such check (`AgentTrue`), whose evidence stays true. In a world
that never changed two checks' evidence therefore agrees (`OneWorld`,
`ReasonAgrees`), and so do the agent's tools and the public rows. That the
prompt names no tool the agent lacks rests on two facts about the catalogue
(`CatalogueFacts`): a guide names every tool, and the one note that names a
second tool does so for two of the same tier with the same prerequisite.

### The agent graph

`AgentTurn_proofs`, for any sets of turns, queries and chunks, any batch size,
window and thread:

| Theorem | Statement |
|---|---|
| `TurnsStayWithinLimits` | `Spec => []TurnLimits` |
| `FailSoftIsExplained` | `Spec => []FailSoftHasCause` |
| `ThreadsStayWhole` | `Spec => []ThreadIsWholeTurns` |
| `ResultsAlwaysAgree` | `Spec => []ResultsAgree` |

Assumptions: `GraphAssumption`, which is what the loader enforces (a step limit
of at least 4), `EventAssumption`, `RetrievalAssumption` and `EarlierAssumption`.
That a turn ends before its step limit is a property of the limits and not
assumed of them: it is claimed where the call budget is on and the step limit is
at least `4*MaxCalls + 5`, four nodes per model call, four around them and the
tick after the last (the shipped 30 and 5 satisfy it). With less room, or the
budget off, the graph can run into the limit, and the turn is abandoned. That no
tool call starts twice is claimed where the loop detector is on. Earlier threads:
a thread that predates the server's start is a sequence of whole answered turns,
which is what the same code committed.

The limits need an exact account of the supersteps at each node as a function of
the calls reserved (`Paced`), of what the approved history holds against what was
started (`Approved`), of reserved against made calls and of the events a node can
be reached with (`Attributed`), and corrections equal to reservations
(`Budgeted`). Whole turns need which message may follow which (`Fits`) and what
the newest message is at each node (`Conversed`); pruning keeps both because it
cuts before a human message, and the lemma on it finds the shortest suffix that
still holds the window. Results need that a draft under correction is of the pass
it selected (`Agreed`), that a call that ended has an outcome of the pipeline
(`Outcome`, `Called`), and that no call of a turn survives its tool node.

### The search indexes

`IndexSync_proofs`, for any set of documents and versions, any chunking, any
number of indexing processes and any bounds:

| Theorem | Statement |
|---|---|
| `IndexInvariantHolds` | `Spec => []IInv` |
| `TrackerIsTrue` | `Spec => []TrackerInvariant` |
| `OneCollectionAnswers` | `Spec => []AnswersFromOneCollection` |

Assumption: `LibraryAssumption` (there is a first version, the null value is no
version, the bounds are numbers). The argument rests on what a collection has
held, which only grows: a mark that is true when it is made stays true of the
collection it was made for (`MarksTrue`), also in the copy another process loaded
before. A mark is true when it is made because a chunk of the document being
added is pending or stored unless a failure was noted (`AddInv`), and a failure
keeps the mark away. A forced run accounts for every document: it is still to
do, or loaded and stored, or an error was noted, and errors end the run before it
takes the snapshot it publishes (`ForcedInv`). The API process passes the
comparison of the ids it opened with, the manifest and the index only when all
are the same; from then on its collection only grows (`ApiInv`).

### Edited lists

`CuratedLists_proofs`, for any sets of clients, identities and bodies and any
bounds:

| Theorem | Statement |
|---|---|
| `ListsStayConsistent` | `Spec => []CuratedInvariant` |
| `VersionsPreventLostUpdates` | `Spec => NoLostUpdate` |

Assumption: `CuratedAssumption`. That a version identifies an entry needs ids
never to be given twice: every id a client holds was given (`last` is at least
as large), and a client's base with the version of the present row of its id
equals that row. The limit needs that what a transaction read still holds when
it writes, because it holds the lock.

### Wines, bottles and tastings

The last part of `CuratedLists_proofs`, for any wines, similarities, notes,
exports and months and any order of the commands of `CellarRecords`:

| Theorem | Statement |
|---|---|
| `RecordsHold` | `RecordsSpec => []RecordsInvariant` |

Assumption: `RecordsAssumption`, the CHECKs of the tables for the rows that may be
created, the range of a rating an export can hold (`parse_vivino_rating` refuses
any other), and that nothing but the Vivino import writes bottles whose source is
`vivino`. A recalibration finds nothing to change because the personal fields of a
row are at every moment what the ratings of its export make of them, or the row
has been edited since and its export is forgotten; that the export is known only
while the row exists is part of the invariant, or a community upsert that creates
a row would break it. A wine's scans stay one bottle because the import looks for
that bottle before it writes, and a new bottle takes an id above every id given.

### Imports of the cellar

The last part of `SharedConnection_proofs`, for any set of bottles, ratings and
descriptions, any finite number of imports and any numbers of runs, edits and
failures:

| Theorem | Statement |
|---|---|
| `CellarHolds` | `SyncSpec => []CellarInvariant` |
| `WindowsHold` | `SyncSpec => WindowsGiveWay` |

Assumption: `CellarAssumption` (the importers are finitely many and at least one,
ratings are positive numbers, the null value is none of the others). Three facts
carry the invariant (`SyncIInv`). An import that still counts as alone is the only
one that runs (`Solitude`), so the row it looked up and the rating it read are
still so when it writes (`ReadsStand`); an import that starts ends that for all
others, for good. While it has counted no error, each bottle of its feed is
mirrored, or still to do, or the one at hand, and likewise each note
(`Mirroring`): the phase of the inventory owes nothing, because the phase of the
bottles that follows goes over every bottle again. And a bottle's rows plus the
imports that looked for it in vain before it had one do not outnumber the imports
(`RowsBounded`), which bounds the duplicates that overlap can make by one row per
importer; without an overlap the import that adds a row is alone, so it looked
truly.

The windows need an invariant although their property speaks of single steps:
whoever holds a window it read, an importer at a wine, an estimator or a
description, is never wrong about whether it is a manual one (`WindowsJudged`),
because no writer of the code makes a window manual or takes that away. Every
other misreading is possible and is what `WindowsGiveWay` admits. A wine whose
window somebody holds exists, so that the row is never created twice.

### Model-checked only

- Liveness under fairness (`AcceptedRequestsSettle`, `EveryCallEnds`, ...):
  out of reach of the prover.
- What is computed over data with recursion, sums or choices (`KnowledgeSearch`,
  `QueryPlans`, `ContextCompression`, `AnswerSources`, `WebSearch`,
  `CellarReports`, `TasteProfile`, `Descriptions`, `DocumentElements`,
  `DocumentChunks`), and `ChatRoutes`, whose properties rest on them: induction
  over data is out of reach of the prover too.

## 7. Not modelled

- Text as text: hyphens, the patterns by which a line is told to be a heading's
  noise, a citation or an index entry, prompts, the layout of answers, titles, labels and web results, redaction and reported guardrail
  events. Where a decision depends on text (evidence that names a wine, a marker
  in an answer, a keyword of a question), the words it depends on are modelled.
- What models compute: embeddings, BM25 and reranker scores are given by a
  world, answers and structured outputs are chosen from sets; model clients with
  their own retries are left out.
- Documents: the detection of a page's columns from the positions of characters
  (the layout is given), placeholders of OCR, the semantic and the hierarchical
  chunker, wine metadata, the lineage numbers of a chunk.
- Hashes: the digests of documents, prompts, models and policies are the identity
  of what is digested where a model reads one, and left out elsewhere.
- Rows no property reads: producers and regions, tasting texts, images; paging
  cursors, titles and the schema checks of the conversation tables.
- The web client's rendering, the evaluation harness, scripts, archived UI.

Bounded on purpose: repository calls of `CellarRecords` do not overlap (the
import of `CellarSync` shows what overlap does), the streaming transport is not
composed with the rows of saved turns, and readers of a saved conversation see
committed rows only.
