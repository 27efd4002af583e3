# TLA+ models of the ShoppingMall AI chatbot server

The server is a FastAPI process on one asyncio event loop. It answers chat
questions with a LangGraph graph, keeps conversations in LangGraph checkpoints
(Redis or memory), sessions and history in Oracle, and product vectors in
ChromaDB. The shop itself (Spring Boot) is another process that edits the PRODUCT
table and calls the admin endpoints.

What can go wrong here is seldom in one function: it is in what happens between
two awaits, after a failure, a restart, a cancelled request or a lost call. The
modules in this directory are about that. Texts, prompts, embeddings and ranking
scores are left out; control flow, stores and failures are kept.

## Inventory

| part | state | operations | interacts with | hard because |
|---|---|---|---|---|
| representative chat path, `routers/chat.py` | none of its own; one coroutine per request | `process_chat_pipeline` (ask, stream), create, list, read and delete a session | idempotency keys, Oracle, the graph, the checkpointer | about ten awaits per request, each with its own way to fail; two tabs on one session |
| idempotency, `services/idempotency.py` | `idem:{request_id}` in Redis, 300 s | `try_acquire` | Redis | lost replies, expiry, no Redis |
| graph, `graph/builder.py`, `nodes.py`, `edges.py` | `ShoppingState` per run | classify, eight handlers, guard, append_message | LLM, Oracle, ChromaDB | channels are restored from the turn before |
| checkpointer, `graph/checkpointer.py` | latest checkpoint per thread | read, write after each node, delete, expire | Redis or process memory | last writer wins; MemorySaver forgets |
| sessions and history, `database/oracle_db.py` | CHAT_TOKEN, CHAT_SESSION, CHAT_HISTORY | resolve, create, owner, touch, delete, save | chat and agent routers | each statement commits on its own |
| single agent, `routers/agent_chat.py`, `graph/tools.py` | thread of a chat token | agent_chat, agent_resume, request_refund with interrupt | LLM, Oracle, mail and Slack | a decision comes in another request than the question |
| multi agent, `graph/multi_agent_builder.py` | supervisor state per run | supervisor, two workers, guard | the same tools | a loop that an LLM steers, windows of messages |
| MCP agent, `graph/mcp_tools.py`, `routers/mcp_agent_chat.py` | cached tool list, lazy agent | load, prefetch, build, mcp_agent_chat | MCP servers, checkpointer | two first requests at once, a failure is cached |
| voice, `routers/voice.py` | none | stt, tts, voice_chat | chat path, OpenAI speech | speech fails after the turn is saved |
| preference cache, `services/personalization_service.py` | `_cache`, `_locks` | get_preference_vector, eviction | Oracle, ChromaDB | locks that are created, dropped and cancelled |
| indexes, `routers/admin.py`, `scripts/index_products*.py`, `services/chroma_service.py`, `bm25_service.py` | two Chroma collections, BM25 rows in memory, IMAGE_CAPTION | reindex, delete, reindex-all, image script, start-up | shop, Oracle, embedding API | several stores, no transaction, calls that get lost |
| search, `graph/rag_pipeline.py` | none | vector, CLIP and BM25 candidates, filter, rerank | indexes, preference cache | metadata that the stores do not all have |
| event stream, `pipeline/stream_util.py` | what the browser has not yet cut into blocks | chunk, done, error events | chat path, browser | text cut anywhere, client hangs up |
| Oracle pool and lifespan, `main.py`, `database/oracle_db.py` | the pool, the injected checkpointer, the compiled graphs | start, stop, borrow, fall back | everything | order of start-up and stop, exhausted pool, abandoned threads |
| metrics, pricing | a JSONL file | append, summarise | all routers | restored messages counted twice |

What makes each part correct, in short:

- chat path: a member sees and extends only his own threads; a thread grows by whole
  turns in order; a deleted session is gone; an answer carries its own cards;
  one request per request id;
- graph and search: texts the code composes reach the user unchanged; what an LLM says of
  products is backed by the cards shown with it; a product is ranked once, and what two
  searches agree on comes first; nothing sold out is recommended;
- multi agent: the loop stops itself; every LLM call sees the whole turn and no call without
  its results; the guard judges by this turn's search; a turn is charged once;
- preference cache: one computation per member at a time and none of what it has, a bounded cache, no
  lock left behind, nobody waits forever;
- indexes: after a successful job the collections agree with the table, and so does the BM25 index
  unless its own update failed; no chunk of an old description stays;
- refund: registered once per approval, after the user agreed to that very order; staff
  hears of every registered refund and of no other;
- process: every request ends; connections come back, and come back clean; all routes share
  one checkpointer, which is open while they run; one set of MCP tools per process; a client that
  stays reads the events that were sent.

## Modules

| module | models | abstract or detailed |
|---|---|---|
| `ChatTurn` | the chat path with its stores | detailed; core |
| `SerialClient` | `ChatTurn` with clients that wait in some sessions | composition, refinement |
| `Conversation` | a log of messages per conversation | abstract |
| `RagFusion` | merging and rank fusion of search results | pure functions |
| `AnswerGraph` | the nodes of the graph, the search pipeline, the guard | detailed |
| `MultiAgent` | supervisor, workers, windows of messages, guard, counting | detailed |
| `PreferenceCache` | get_preference_vector, eviction, `asyncio.Lock` | detailed |
| `PreferenceLoop` | `PreferenceCache` on the ready queue of the event loop | composition |
| `CatalogIndex` | the shop, admin jobs and three indexes | detailed |
| `RefundAgent` | one agent thread, interrupt and resume | detailed |
| `RefundDesk` | approvals, refunds and what the staff hears of them | abstract |
| `ConnectionPool` | the pool and the `with get_connection()` block of every Oracle call | detailed |
| `Leases` | connections that are nobody's or one client's | abstract |
| `Lifespan` | start and stop, checkpointer, compiled graphs, MCP tools; extends `ConnectionPool` | detailed |
| `EventStream` | the events of `/chat/stream`, the network, the reader in the browser | detailed |
| `Server` | requests of every chat endpoint on the three above | composition |
| `ChatTurnProofs`, `ChatSafetyProofs` | theorems about `ChatTurn` and `SerialClient` | proofs |
| `PreferenceCacheProofs` | theorems about `PreferenceCache` and `PreferenceLoop` | proofs |
| `AnswerGraphProofs`, `MultiAgentProofs`, `RefundAgentProofs`, `CatalogIndexProofs`, `ServerProofs` | theorems about the modules of these names, `RagFusion` and the parts of `Server` included | proofs |
| `MC*` | constants for TLC | |

In every module an action is what one coroutine does between two awaits, or one node of
a graph. The names of actions and helpers are those of the code where TLA+ allows it.
Operators that only serve to show that a property is sensitive to a plausible mistake
stand before the definition they vary (`TitleAfterSwap` before `TitleAfter`).

### ChatTurn

`req[r]` is a request: its endpoint, program counter and locals (`member`, `session`,
`seen` for the history shown to the LLM and `from` for where it came from, `base` for the
messages ainvoke loaded, `hits` for rag_hits). `thread[s]` is the latest checkpoint of SESSION_ID `s`; `live`,
`owner` and `title` are the CHAT_SESSION rows; `rows` counts CHAT_HISTORY rows; `idem`
holds the keys.

| action | code |
|---|---|
| `TryAcquire` | `idempotency.try_acquire`, 409 |
| `ResolveToken` | `resolve_chat_token`, 401 |
| `CheckOwner` | `get_chat_session_owner` and the comparison, 404 |
| `CreateSession` | `create_chat_session` |
| `ResolveHistory`, with `TrimHistory` | `_resolve_history`, `trim_history` |
| `LoadThread`, `RunNodes`, `AppendMessage` | `ainvoke`: the checkpoint loaded, the nodes, the last node |
| `GraphError` | the except block around ainvoke |
| `SaveHistory`, `TouchSession` | `save_chat_history`, `touch_chat_session`, the answer |
| `DropRow`, `DropThread` | `delete_chat_session`, `adelete_thread` |
| `ExpireKey`, `ExpireThread`, `HangUp`, `Restart` | TTLs, cancellation, a new process |

A request brings the history its client sends (`ClientHistories`): any of the conversation's
answered turns, in any order and number up to `MaxHistory`. `ResolveHistory` puts the
memory of the thread in its place; where there is none, or `aget_state` fails, it leaves what the client
sent (`from` is "memory", "client" or "error"). Either is cut to the last `MaxMessages` messages, which
are whole turns since the window starts at a question, or stays whole if the window is smaller
than a turn. The thread itself is never cut. A guest's history is his own, goes to the LLM as sent
and is not looked at further.

Bounds of this: no client invents turns, and each turn in a history is a question with its answer.

Abstractions: classify, handler and guard are one step, since nothing but
the checkpoint is shared between them and a run writes the same messages each time
(a failure between them is `GraphError`); turns are
identified by their request; a guest's thread has a UUID nobody else can name and
is not kept; `GET /chat/sessions` changes nothing.

### AnswerGraph and RagFusion

`ChatTurn` has the requests around a run of the graph; `AnswerGraph` has what the run
computes, over the turns of one conversation. A text is reduced to what the code looks for
in texts: `names` (products named in full), `words` (products some word of whose name
appears), `prices`, `boldNames` and `boldPrices` (those that marks of bold print hide from these
searches), whether it `rejects` (says there is nothing) and whether it `claims`
something about an order, a delivery or a refund. `hits` is rag_hits, `raw` and `final` the two
answers, `said` what earlier answers named and priced. What no later step can read is
forgotten (`GuardDoubt`, `AppendMessage`), to keep states few. A question has one
mark (blank, a superlative, the word for refund), since the code asks for one at a time.

| action | code |
|---|---|
| `Receive`, `Classify` | the input of a turn, `classify_node` and `route_by_intent` |
| `Structured`, `Faq`, `Order`, `RefundNotice`, `Chat`, `FixedText` | the nodes of those names, `complaint_node` in two |
| `Compare`, `LookUp`, `GoSearch` | the branches of `semantic_node` before the search |
| `SearchText`, `SearchImage`, `SearchBm25`, `Fuse`, `RerankHits` | `search_and_rerank` |
| `Generate` | `generate_rag_response` and the choice of cards |
| `GuardPass`, `GuardWarn`, `GuardDoubt`, `Retry` | `guard_answer_state` |
| `AppendMessage`, `GraphError` | the last node; an exception no node catches |

`guard_node` takes the marks of bold print out after the guard has judged (`Guarded`, `Unmarked`), and
what they hid is in the answer the user reads. Marks come from the LLM only: the texts of the
code and the names in the table have none. Small talk has no bold fields, since nothing looks for names
or prices in it before the marks are gone; marks within a word that the guard looks for in a refusal or
a claim, or between the digits of a price, are left out.

`sale` is the same in the table and in the indexes: how they come to differ is the subject
of `CatalogIndex`. The history a guest's client sends, and what `_resolve_history` shows of a member's, is taken to be
the whole conversation.
`RagFusion` has `_merge_dedup` (stable sort, a dict keeps the place of a replaced key) and
`_merge_text_rrf` as functions over sequences; scores are fractions, compared by cross
multiplication. The stable order of ties is part of the model. Sorting is `InOrder`, which says
what a sorted list of distinct elements is and not how it is made: the provers can reason about it,
which they cannot about a sorting function.

### MultiAgent

One chat token, or one guest, and one request at a time. `thread` is the message list of
the checkpoint, `work` what the running worker has added and the supervisor has not seen;
`prior` is the snapshot the metrics subtract; `hits` names the turn whose search filled
rag_hits.

| action | code |
|---|---|
| `Ask`, `Begin` | the router up to the snapshot, and `ainvoke` loading the checkpoint |
| `Route`, `RouteFails`, `ForceFinish` | `_supervisor_node` and `_route_from_supervisor` |
| `WorkerCalls`, `RunTools`, `WorkerAnswers` | `create_react_agent`: a model step, a tools step, the return to the supervisor |
| `SearchesCollide`, `WorkerExhausted`, `RunFails` | the three ways a run ends in the router's except block |
| `GuardPass`, `GuardWarn`, `GuardRetry` | `_guard_node` and `guard_answer_state` |
| `Count` | `filter_new_messages`, `collect_message_metrics`, the answer |
| `Forget` | the TTL of a thread, or a restart with MemorySaver |

`TrimMessageList` is `trim_message_list` with LangChain's `trim_messages` as the code
calls it (last messages, counted one by one, starting on a question). LangGraph is modelled
from how the code uses it: each node is one step against `recursion_limit`; a worker is a
graph of its own under the same limit and needs three steps per round of tool
calls (hook, model, tools); rag_hits takes one value per step. The CHAT_HISTORY row and
the line in the metrics file are written after the run and read by nobody in it.
A thread that also holds a refund of `/chat/agent` waiting for its decision is not
considered.

### PreferenceCache and PreferenceLoop

Values of the cache are not kept, only keys and times. `lockOf` is `_locks`, and lock
objects have identities, because the defects of such code come from two objects for one
member. `asyncio.Lock` of Python 3.11 is modelled from how the code uses it: `_locked`,
the queue of waiters, and the future that is set before the waiter runs.
`PreferenceCache` lets any coroutine that can run go next and so has more behaviours
than the loop; `PreferenceLoop` adds the FIFO ready queue, so its counterexamples are
executions the loop can really produce.

### CatalogIndex

`row` is the PRODUCT table, `text` and `image` are the Chroma collections, `bm25`
is `_corpus_rows`. A document carries the row it was made from. `job[j]` is an admin
call or a script run. `dirty` is a history variable: the products that no job has brought
up to date since their last edit, so that `InSync` can say what a job promises without
blaming it for calls that were never made. `stale` is the same for the BM25 index, because its failures
are not reported: `WriteBm25` may fail before `_corpus_rows` is replaced or after it (in `BM25Okapi`, and then
`_bm25` ranks other rows than these), the exception is logged, and the call is answered with
success. Then the Chroma collections are up to date, which `InSync` demands, and the BM25 index is not
known to be until a later job or restart has written it. A failed second reading of the table in
reindex-all ends the same way. Nothing in the server keeps two jobs of one product apart.
`OneAtATime` is the set of products whose callers do: they start a job that covers such a product
(`Covers`: the one it names, or all) only when no other job that covers it is running. Jobs of different
products overlap in any case, and a reindex-all or the image script with the jobs of every other product. Product ids are never reused. A caption is part of
the indexed text, so `CaptionImage`, the step of the image script that writes one, is an edit like
the shop's: it may make a short text long (`CaptionRow`), and the indexes are behind from then on.

### RefundAgent

One chat token, so one thread. A checkpoint has a `stage`: nothing to do, between tool
calls, or a pending `request_refund`. A run records into the checkpoint it started from.
`value` is the decision of a resume until an `interrupt()` takes it.
`RefundDesk` is what member and staff see of it (`DeskSpec`): `approval` is mapped to the requests whose
`value` is a yes, `refund` to what each registered, `pending` to those that stand before `Notify`.
The read-only tools and the guard are part of `Answer`.

### ConnectionPool, Lifespan, EventStream and Server

`ChatTurn` and the agent modules have what a request reads and writes; these four have what it
takes and gives back: a thread, a connection, a graph with its checkpointer, the tools, a
stream. `call[w]` is where the thread of a request is in its `with` block, `lent` and `tx` are
the borrower of each connection and whose uncommitted change it carries; `bound` is the
checkpointer each graph was compiled with; `plan`, `sent`, `wire`, `buffer` and `got` are a
stream from the generator to the reader.

| action | code |
|---|---|
| `LookAtPool`, `BindPool`, `Acquire` | `get_connection`: the test of the global, its second reading, the wait |
| `Execute`, `Commit`, `LeaveBlock` | the statement, `conn.commit()`, the end of the block |
| `StartProcess`, `OpenCheckpointer`, `CheckpointerFails` | `lifespan` up to the prefetch, `open_checkpointer` raising |
| `AskForTools`, `GetTools` | `get_mcp_tools` before and after `client.get_tools()`, for `lifespan` or for a request |
| `GetApp`, `GetMcpAgent` | `_get_graph`, `_get_agent_app`, `_get_multi_app`; `_get_mcp_agent` |
| `Arrive`, `Transcribe`, `ResolveToken`, `BeginRun`, `QueryAnswered`, `RunEnds`, `SaveHistory`, `Speak` | the endpoints from the first await to the reply |
| `Stream`, `Deliver`, `CutBlock` | `event_stream` and `sse_event`; a read of the network and a turn of `feed_stream` in the test that ports the reader |
| `HangUp` | a cancelled stream |
| `BeginStop`, `ShutdownStep`, `Crash` | drain, `_aclose`, `close_pool`, the wait for threads; the process killed |

`Leases` is what all of it promises about connections (`LeaseSpec`). Its `holder` and `change` are
`lent` and `tx`, its `open` is `pool = "open"`; it has no threads, no requests and no phases. Worth noting
in the mapping: giving a connection back and rolling it back is one step, a client works only on
what it holds, and the pool shuts only when it is whole.

Abstractions. A request makes three calls of Oracle (before, in and after the run), which stand
for the five or more of the chat path. Its thread is named after it. A cancelled
`run_in_threadpool` waits for its thread before the cancellation goes on; a cancelled
`asyncio.to_thread` abandons it, and the thread runs on with its connection. The driver
(python-oracledb, thin, waiting `acquire()`, no order among the waiters, `close()` that refuses
while a connection is lent and leaves the pool as it is), uvicorn's drain and the reads of the network are external, modelled
from how the code uses them. One of these assumptions carries weight: after a refused `close()` the code sets
`_pool = None` (`database/oracle_db.py:104`), the last reference the server has to the pool, and `ForgetPool` takes
it that the pool stays open for the connections still lent. A driver that closes a pool when its object is
dropped would fail their statements instead; the process is ending by then. A line of a block is one unit with its newline, since the reader
looks only for two newlines in a row. A request that has ended, and a stream whose reader is gone, are
remembered only as such, to keep states few. A missing MCP configuration or package gives the same
empty list as a failed load, without the wait.

## Runs

| run | instance | shows |
|---|---|---|
| `ChatSessions` | 2 members, 2 sessions, 2 requests of any endpoint, Redis, 1 request id, faults, 1 expiry or restart | `MemoryIsolation`, `SourcesAgree`, `SourcesAreFresh`, `DeletedStaysOutOfReach`, `OneWinnerPerKey`, `RowsOfAnsweredTurns` |
| `Server` | 2 requests of 4 endpoints, pool of 1, answers of up to 1 chunk, 1 start, Redis and MCP on | `PoolAccounted`, refinement of `Leases` (`LeaseSpec`), `OneMemory`, `StreamInOrder`, `OneToolSet`, `EverythingEnds` |
| `ChatSerial` | waiting client, 1 member, 1 session, 3 requests, MemorySaver, window of 1 turn, client histories of up to 1 turn, faults, 1 restart | `HistoryIsMemory`, refinement of `Conversation` (`ConversationSpec`) |
| `AnswerGraph` | 2 products, 1 of two chunks, 2 turns, all searches on, faults | `FixedAnswersSurvive`, `CheckedPricesMatchCards`, `NoProductTwice`, `SoldOutNeverRecommended`, `AgreementWins` |
| `MultiAgent` | 2 turns, window of 4, 2 routings, 2 calls per message, faults | `WholeTurnSeen`, `CallsKeepResults`, `LoopStopsItself`, `CheckedAgainstThisTurn`, `ChargedOnce` |
| `PrefRoomy` | 2 members, 3 coroutines, limit 2, 3 ticks, cancellation | `ComputeOnce`, `LockDiscipline`, `ComputedIsMissing` |
| `PrefLive` | 2 members, 3 coroutines, limit 1, cancellation, fairness | `CacheWithinLimit`, `EveryCallEnds` |
| `IndexSerial` | 2 products, 3 jobs of any kind, 3 edits, faults, 1 restart | `InSync`, `NoOrphanChunk` |
| `RefundCalls` | 3 overlapping calls, 3 orders (1 foreign), Redis, faults, 1 restart | `OneRefundPerApproval`, `NoticesMatchRegistrations` |

`TypeOK` is an invariant of one run per module.

Bounds. `MaxEvents` counts expiries and restarts, `MaxEdits` edits, `MaxRestarts` restarts,
`MaxTime` ticks, `MaxStarts` starts of the process, `MaxChunks` chunks of an answer, `MaxTurns` turns, `MaxDistance` distances, `MaxHistory` turns a client sends, and `MaxCalls` calls of
`request_refund` in one request or tool calls in one message; each request or job is used
once. The hazards are pairwise: two requests on one thread, two calls for one product,
a waiter and an eviction. A third actor is there wherever the hazard needs one (the
waiter, the holder and the evicting member; a decision, its duplicate and a new
message). `SessionLeft` in `ChatTurn` keeps a UUID for each request that will create a
session. In `ChatSerial` the window is one turn and the memory grows to two before the third request reads
it, so it is really cut; after the restart the client's turn is all there is. Two turns are enough for `AnswerGraph` and `MultiAgent`, since a turn meets the
ones before it only in what the checkpoint kept, and the first turn leaves every kind of
it. In `MultiAgent` the window is smaller than what one worker can add (a question and a
round of two calls with their results and the answer are five messages), so the window falls within a
turn, between turns and on a call; `RecursionLimit` is the least that
`MultiAgentAssumption` allows for two routings, and a worker exhausts it in its third round.
`AgreementWins` needs lists that are short against `RRF_K`, or two poor ranks would lose against one
good rank: with `n` candidates per search the dense list has up to `2n` hits and `2n <= K + 1` is
enough (`ShortLists`). The code's defaults give 20 and 61; the run has 4 and 4, the tightest case.

In `Server` one connection for two threads is the exhausted pool, and `InitPool` also leaves none,
so the direct connections are there too. Two blocks of three lines are enough for a read to end
within a block, between two and after both. A crash leaves nothing, so a second start would repeat the
first one; the states of one start end in the process being down, with `CHECK_DEADLOCK FALSE`.
`ask` and `multi` take the same steps as `stream` without its stream and `agent`, and are left out of
the instance. `AskForTools` of a request, and `SafeSaver` giving a spare, cannot happen in an intact
start: the mutants of `OneToolSet` and `OneMemory` show that the properties see them.

Where the server makes a promise only to a client that waits for each answer, the specification
says so, for the sessions or products whose clients do (`Waiting` of `SerialSpec`, `OneAtATime`), and
leaves the others free; what happens there is told under Known limits of
the code. The runs have one waiting session and two waiting products; the theorems any set of them
beside any others.

Fairness. There are two liveness properties. For `EveryCallEnds`, `FairSpec` of `PreferenceCache` is
weak fairness of the steps of each coroutine, apart for the wait and for the computation,
because they are separate awaits: the loop resumes what can run, and an awaited query
either answers or fails. Calls, cancellations and ticks are not fair. For `EverythingEnds`, `Spec` of
`Server` is weak fairness of `SystemStep` as a whole: as long as any request, thread, reader or step
of `lifespan` can go on, one of them does. This is enough because every request, statement and
stream is finite, and it is weaker than fairness of each. The code's grounds are `LLM_TIMEOUT`
(30 s by default, in `graph/model_factory.py` and the services that call OpenAI); that Oracle and the
MCP servers answer or fail is an assumption, since the code sets no timeout for them. Arrivals,
hang-ups, starts, stops and crashes are not fair.

### Disagreements the runs show

Each of these runs checks one sentence of the repository and finds an execution that
breaks it. The lines are in `PROJECT.json` under `findings`.

| run | sentence | what happens |
|---|---|---|
| `PrefStampede` (`ComputeOnce`) | dropping a lock nobody holds is safe | it has a woken waiter, and the vector is computed twice |
| `RefundUnasked` (`AskedBeforeRegistered`) | registered only after the user was asked | a resumed turn stops at a second refund, whose prompt is not sent; the next decision takes it |
| `UngroundedAnswer` (`UnrelatedAnswersAreRetried`) | the guard retries empty or unrelated answers | an answer that names no candidate leaves rag_hits empty, and the guard reads that as a fixed notice |

## Known limits of the code

What the models contain, or reading the code for them showed, and no run checks. Each can
be seen by reading the lines named.

Chat path:
- Two overlapping turns of one session each save the messages they loaded plus their own;
  the later checkpoint drops the other's turn (`routers/chat.py:196`).
- A turn in flight writes the thread of a session that was deleted meanwhile; it stays out of
  reach (`DeletedStaysOutOfReach`).
- A failed insert into CHAT_HISTORY or a failed update of the session is logged and the turn is answered:
  the row is missing for good, and `RowsOfAnsweredTurns` does not forbid that.
- After a failed `aget_state` the LLM is shown the client's history beside a memory that is there, and the
  turn is appended to the memory.
- A first question equal to the default title does not name the session
  (`database/oracle_db.py:657`).

- A stream that is lost after the turn was saved: a retry with the same request_id is refused
  for 300 s, and the answer is never sent again (`services/idempotency.py:70`).
- `voice_chat` answers 502 when speech fails, after the turn was saved; the client does not learn
  the session that was created, and has no request_id to ask again with.

Search and guard:
- BM25 and image hits carry no status, so a product taken off sale passes the filter
  (`services/bm25_service.py:117`, `graph/rag_pipeline.py:250`).
- When the guard replaces the answer, the cards stay those of the first answer.
- A price in bold print ("**99,000**원") is no price to the guard, whose pattern wants the digits right before the unit
  (`pipeline/hallucination_guard.py:54`). `guard_node` takes the marks out behind the guard (`graph/nodes.py:666`), and
  the user reads a price that no card has, against rule 1 of the guard (line 155). `CheckedPricesMatchCards`
  is about all other prices.
- A product name that marks of bold print divide is not found when the cards are chosen, and is whole in the
  answer the user reads.
- The refund notice says staff was told although errors of the notification are ignored.

Multi agent:
- The supervisor's final answer is never added to `messages`: the LLM of the next turn sees
  the questions and the workers' messages, not what the user was told. The doc comments of the
  module and the router promise a shared multi-turn context.
- Without rag_hits the guard is said to pass answers through (`graph/multi_agent_builder.py:20`);
  it treats them as small talk and appends its warning to true statements about orders.
- A later search of the turn replaces rag_hits of an earlier one, and an empty one erases
  them, so the answer about the first goes unchecked or is held against the wrong cards.
- Two `semantic_search` calls of one message write rag_hits in one step, which LangGraph
  refuses: the turn fails (`SearchesCollide`).
- The guard's retry is asked the question `""`.
- `remaining_steps` is a plain field, so a worker that runs out of steps raises instead of
  answering (`WorkerExhausted`).
- A turn longer than the window sends the whole thread, not the window.
- Tokens of the supervisor and the guard, and of failed turns, are not counted, although
  `routers/multi_agent_chat.py:11` says the supervisor's are; a failed snapshot charges
  the whole thread again.

Preference cache and indexes:
- A cancelled computation leaves a lock in `_locks`.
- Overlapping calls for one product interleave delete and upsert and leave orphan chunks.
- A delete call that is lost leaves the documents of the product in the text index for good: reindex-all
  deletes and writes those of the products in the table only (`scripts/index_products.py:101`), although
  `routers/admin.py:12-13` says the administrator can repair a failed synchronisation with it at any time.
- A BM25 index that could not be updated stays as it is after a call answered with success, and the
  answer does not say so (`routers/admin.py:126`, 151 and 174).
- The clamped chunk overlap is computed and the unclamped one is passed on
  (`services/chunking_service.py:148`): with a threshold below the overlap every indexing call
  of a long description fails, contrary to the comment at lines 142-144 and
  `tests/test_chunking_service.py:158-166`.

- A caption written by the image script is not in the text indexes before the next reindex,
  and is kept when the image of the product changes (`scripts/index_products_image.py:133`).

Process:
- A thread whose client hung up keeps its connection until its statement ends. If `close_pool()`
  comes in between, `close()` raises, the error is logged and the pool stays open until the process
  ends (an assumption about the driver, see the abstractions above); a thread that is just between the two readings of `_pool` fails on `None`.
- Lines of metrics that no thread has begun to write are lost at the end of the process.

Agents:
- Two approvals that meet the same pending refund (a double click) register it and announce it once each:
  one order, two refunds. `OneRefundPerApproval` and `NoticesMatchRegistrations` count per approval and
  do not forbid it.
- A resume with nothing to resume sends the last finished answer again.
- A failed load of the MCP tools is remembered as no tools until a restart.

## Proofs

`tlapm` checks every proof, for every value of the constants, from the assumptions stated with them
in the modules: `ChatTurnAssumption`, `PreferenceCacheAssumption` and so on. Each says that absent
values (`None`) are none of the real ones, that bounds are numbers, that the catalogue or the
membership is finite, and, where the code has a setting with a meaning, what it must satisfy
(`MultiAgentAssumption`: two steps per routing and two more fit the recursion limit). Three theorems
have a hypothesis besides, told where they are used: `AgreementComesFirst`, `NoStampede` and
`NothingIsComputedAgain`.

Every safety property and action property that a passing run checks is proved, and so are the
refinements: of `Conversation`, of `Leases`, of `RefundDesk`, and of `PreferenceCache` by its
loop. `DeskSpec` is no property of a run, since its two invariants are (`OneRefundPerApproval`,
`NoticesMatchRegistrations`). The inductive invariants were checked by TLC on the instances of the runs before they were
proved.

`PreferenceCacheProofs`: `LockInv` is inductive. It ties the four places in which a lock
appears: a lock flag, the coroutine computing under it, the queue of waiters (without
duplicates, exactly the waiting coroutines whose `lk` it is) and the set of woken
coroutines. `LockDiscipline` alone is not inductive, since a release must know that
the head of the queue waits for that lock and no other. From it follow `TypeCorrect`
and `LocksFollowComputations`. `CacheStaysWithinLimit` counts: eviction
leaves room for one key. `NoStampede` assumes that the limit is at least the number of members;
then a missing member means the cache is below its limit, nothing is evicted, no lock
is dropped, and `LockInv` with "one lock per member" gives `ComputeOnce`. `NothingIsComputedAgain` is the
other half of the same induction (`RoomyInv`): what is computed stays missing, because the only coroutine
that could store it is the one under the member's lock. The
assumption is necessary: `PrefStampede` is the counterexample without it. `LoopImplementsCache`
carries all of it to the event loop: what `PreferenceLoop` does is what `PreferenceCache` allows,
since only coroutines are ever in the ready queue (`LoopInv`).

`ChatTurnProofs`: `FlowInv` adds to the type of a request which locals are set where: a
request past the token has a member, past the session step a session, and so on;
without it the functions are applied outside their domains and typing is not inductive.
`TypeCorrect` follows for any number of members, sessions and requests.

`ChatSafetyProofs` proves every safety property of `ChatTurn` from `FlowInv` and one
strengthening each; lemmas named after the actions (`CreateLocals`, `HistoryLocals`, ...) say
which locals a step changes.
- `MembersAreIsolated`: `IsoInv` adds that a request past the owner check is at a session whose
  row names its member (`AtOwnSession`), and that a session nobody owns yet has no turns and no
  title. The owner of a row never changes, so one comparison holds up to the last await.
- `OneWinner`: a winner remembers the life of the key it won. While that life lasts the key
  is in Redis (`WinnersHoldKeys`), so the next winner belongs to a later life.
- `RowsAreAnswered`: a row exists only past `save`, so a turn arrives at `save` without one.
- `SourcesAreOwn`: the hits of a run, as well as its sources, are those of its own search.
- `CardsAgree`: every stored turn, and every turn a run has loaded and may write back, carries
  what `StoredSources` gives for its request, which no longer changes behind `append` and is
  what `Respond` shows (`CardsInv`).
- `DeletedIsGone`: those who name the session have not passed its owner check and fail it;
  the others write only their own thread, and a UUID that had a row is not drawn again. It
  needs no invariant beyond `FlowInv`.

Its last two sections are about `SerialClient`. `WaitingInv` adds to `FlowInv` and `CardsInv` that,
in a session of `Waiting`, the history read by `_resolve_history` is still the thread when ainvoke
loads it (`HistoryRead`) and that the thread stays what was loaded until the last checkpoint (`ThreadIsLoaded`). Both hold because a
step writes only the thread of its own session, and is then the one request in flight there
(`WriterIsInFlight`); an expiry spares threads in use, and a restart ends all requests in flight.
- `HistoryAgrees` is `HistoryIsMemory` under `SerialSpec`: a history from memory is the trimmed thread
  at the time it was read, and `HistoryRead` carries that to the time ainvoke loads it; a history of
  the client was believed because the thread was empty, and it still is.
- `ThreadsAreConversations` is the refinement `SerialSpec => ConversationSpec`. `AppendMessage` of a
  member is a `Say`: `ThreadIsLoaded` makes it an append to the log, and `CardsInv` has the
  request in no log before. The sessions outside `Waiting` may see their clients overlap in any way; all
  that is needed of them is that they do not reach a thread of `Waiting`. Every other step leaves each
  thread's turns as they are or empties them, which is a `Forget`, possibly of nothing (`ForgetsSome`).

`AnswerGraphProofs`: `FixedAnswersReachTheUser` rests on `FixedInv`: no cards are set before a
handler answers (this is what `InitHits` is for), and what a template or a rule hands to the
guard either has no cards or is grounded in them and claims nothing. `FixedAnswersSurvive`
alone says nothing of the states before the guard. `CardsCoverPrices` needs no strengthening beyond the
guard's own test: every way into `append` with cards went through `Grounded`, and `Unmarked` adds nothing to an answer
but what was bold. For the texts of the code it adds nothing at all (`PlainStays`, `CodeWritesPlain`), which
`FixedInv` needs now that answers change behind the guard.
- The lemmas about `RagFusion` say what the pure functions do for lists of any length. `RowExists`:
  a finite strictly ordered set has a list in that order, so `InOrder` is defined. `MergeDedupFact`,
  `MergeTextRrfFact`, `FuseFact` and `RerankFact`: what comes out was put in, each id once, in order,
  and is no longer than what was put in. `FractionOrder`: comparing fractions by cross multiplication
  is a strict order. They were the reason to write sorting as `InOrder`.
- `GraphTypeCorrect` and `ProductsAreCandidatesOnce` follow from `SearchInv`, which adds to the types
  that every list of candidates names its hits by product id (`Named`) and how long it can be.
  Without `Named` the chunks of a product would be different ids and the merges would keep both.
- `AgreementComesFirst` assumes `ShortLists`. A product both searches found has two shares of at
  least `1 / (K + 2n)` and `1 / (K + n)`, more than the one share of `1 / (K + 1)` that the best of the
  others has; between two that both found, each share of the one ahead is larger
  (`AgreementScores`). The hypothesis is about two environment variables that nothing ties together
  in the code (`RRF_K`, `RERANK_CANDIDATES`); their defaults satisfy it.
- `RecommendationsAreInStock`: `StockInv` adds that candidates are in stock when they reach the
  reranking, and that cards set by a semantic answer are among them, through the guard and its retry.
  That cards of the turn before are gone is again `FixedInv`.

`MultiAgentProofs`: `IInv` adds to `TypeOK` that every routing took two steps (`LoopCount`),
that the question is the last one of the thread and the turn's messages are those from it
on (`TurnIsLast`), and that a worker adds no questions (`WorkOfTurn`). `LoopEndsBeforeTheLimit`
follows from the count and the assumption `2 * MaxRouting + 2 <= RecursionLimit` (10 and 20 in
the code). `EveryCallSeesItsTurn` is `TurnIsLast` with the lemma `WindowKeepsLastTurn`:
the window, or the thread when the window has no question in it, loses nothing from
the last question on.
- `AnswersRestOnThisTurn`: `Evidence` says the same of the steps before the guard; `Begin` lays empty
  rag_hits over the restored ones, and a search writes its own turn.
- `TurnsAreChargedOnce`: `SnapshotIsOld` says that the ids of the snapshot are of earlier turns and
  that, when there is a snapshot, every other message in the thread is of this turn.
- `WindowsKeepRounds`: `Pairing` says that in the thread and in a worker's messages each call has its
  results and each result its call, with the next question only behind them, except the last message
  of a worker whose tools are about to run. A window that begins at a question therefore cuts
  between rounds.

`ServerProofs`: one invariant of the whole process, in five parts.
- `PoolInv` is `PoolAccounted` and `CleanHandover` with the types; the two need each other, since a
  commit or rollback is of the borrower. They give `PoolIsAccountedFor` and `HandoverIsClean`.
- `PoolIsAShelf` is the refinement `Spec => LeaseSpec`. `Acquire` is a `Lend`: that the worker has no other
  connection is `PoolAccounted` read backwards. `Execute` and `Commit` are `Work` of the holder,
  `LeaveBlock` is `GiveBack`, and all three are a stutter on a direct connection. `InitPool` and
  `ShutPool` open and shut the shelf or do nothing, a crash is `Lost`; every step of a request, of a
  reader, of `lifespan` or of a client leaves the shelf alone. That a start finds no pool is
  `LifeInv`.
- `LifeInv` says what of the process exists in which phase: no checkpointer before it is opened, the
  configured one and no other from then on, open in the phases in which requests run. It gives
  `MemoryIsOne`, and `ToolSetIsOne`: tools are set before the process serves, so no request asks for
  them. The proof attempt showed what was missing: an agent that holds tools is also bound to the
  checkpointer, without which a second build of the agent could not be excluded.
- `RequestInv` and `ThreadsOfRequests` tie the stage of a request to its thread: it has one only
  while it awaits the database, or after a hang-up let go of it.
- `StreamInv`: line `k` of a stream is a function of `k` (`LineAt`), and what is restored, in the
  buffer and on the wire are consecutive pieces of it (`Sound`). `StreamsAreRestored` follows for
  answers of any length and networks that cut anywhere.

`RefundAgentProofs`: `ApprovalInv` says that a request has registered nothing until it resumes an
approval, and that after it has, its decision is used up, whatever the model calls next;
`OneApprovalOneRefund` follows. `NoticesInv` counts: notices and requests about to notify are
as many as the requests that registered, and fewer only after a restart. It needs the set of those to be
finite, which it carries along, since the number of requests is not bounded.
`RefundsAreDeskWork` is the refinement `Spec => DeskSpec`. The steps were already sorted by what they do to
the account: one that `Arrived` with a yes is `Approve`, one that `Approves` is `Register`,
one that `Announces` is `Announce`, a restart is `ServerLost`, and the `Quiet` rest, the whole life of
checkpoints, interrupts and retries, is a stutter. The step to see is that a quiet step uses up a refusal
and never an approval. TLC confirms `DeskSpec` on the instance of `RefundCalls`.

`CatalogIndexProofs`: `TypeInv`, with the locals of a job at each stage, holds however jobs overlap.
The rest is pointwise: everything is said of one product and of the jobs that cover it, so no
theorem needs a hypothesis, and a product outside `OneAtATime` costs the others nothing. For a product
in it, `InStep` says that
- at most one running job touches it (`Serial`), which `Start` gives and every step keeps;
- it is `Current`: its documents are of one row, if it is not `dirty` the collections agree with the table,
  and if it is not `stale` the BM25 index does;
- the job that touches it keeps its `Promise`, by kind and stage: a row nobody edited since is the one the job
  holds (`fresh`), what it dropped is out of the index until it is written again (`Indexing`,
  `Rebuilding`, `Deleting`, `Imaging`), and a product it touched or somebody edited is
  `dirty` until the job ends well. `InSync` alone says nothing about a job in the middle.

`OutOfScope` is the other half: a job that does not cover a product leaves its documents and its
row of the BM25 index as they are. `IndexesFollowTheTable` and `NoChunkOutlivesItsRow` follow.
For a product outside `OneAtATime` they would be false: its jobs interleave delete and
upsert (Known limits).

Model-checked only: liveness (`EveryCallEnds`, `EverythingEnds`), which is out of the prover's reach.
The three runs that expect a violation are counterexamples and have nothing to prove.

## Not modelled

See `components` in `PROJECT.json`. The superseded pipeline under `pipeline/` is only used
for its texts. Model factory and policy choose names and clients and keep no state. The measuring
scripts look at the server from outside. Left out of parts that are modelled: prices, latencies
and the file of metrics, which nothing in the server reads back but the dashboard; the read-only
endpoints of FAQ, sessions and metrics; tokenizers, embeddings, scores for display; `/stt` and
`/tts`, each one call of an external API.

## Plan

Done: the chat path with its composition and refinement, the preference cache on its loop, the
indexes with captions, the refund agent, the graph with its search, the multi agent, the process
(pool, lifespan, MCP tools, stream), and proofs of all their safety properties and refinements, for waiting and
other clients side by side. Left, in this order:

1. the refund thread and the multi-agent thread of one chat token together;
2. an abstract turn of the supervisor (ask, work, answer once) that `MultiAgent` implements;
3. what a client that does not wait can still rely on: how many of its overlapping turns a session
   keeps, and what a reindex-all repairs after jobs of one product have overlapped.
