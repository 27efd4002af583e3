------------------------------ MODULE ChatTurn ------------------------------
(***************************************************************************)
(* The representative chat path: POST /chat/ask and the session endpoints  *)
(* of routers/chat.py, with the stores they share.                         *)
(*                                                                         *)
(* A request is one coroutine.  Every await of process_chat_pipeline, of   *)
(* the session endpoints and of LangGraph's ainvoke is a step of its own,  *)
(* so that any two requests interleave between them.  The shared state is  *)
(* the idempotency keys in Redis, the CHAT_SESSION and CHAT_HISTORY rows   *)
(* in Oracle and the checkpoint of every thread (thread_id = SESSION_ID).  *)
(***************************************************************************)
EXTENDS Naturals, Sequences, FiniteSets

CONSTANTS
    Member,           \* MEMBER_ID of the logged-in users
    Session,          \* the UUIDs create_chat_session can draw
    Request,          \* request coroutines, each of them used once
    RequestId,        \* client-drawn idempotency keys
    None,             \* an absent member, session or key
    Kinds,            \* the endpoints this instance calls
    RedisConfigured,  \* REDIS_URL is set: keys and checkpoints live in Redis
    Faults,           \* Oracle, Redis, the LLM, the process or the client's
                      \* connection may fail
    MaxMessages,      \* HISTORY_MAX_MESSAGES, the messages shown to the LLM
    MaxHistory,       \* bound on the turns a client sends along
    MaxEvents         \* bound on key expiries, thread expiries and restarts

ASSUME ChatTurnAssumption ==
    /\ None \notin Member \cup Session \cup RequestId \cup Request
    /\ Kinds \subseteq {"turn", "create", "read", "delete"}
    /\ RedisConfigured \in BOOLEAN
    /\ Faults \in BOOLEAN
    /\ MaxMessages \in Nat \ {0} /\ MaxHistory \in Nat
    /\ MaxEvents \in Nat

VARIABLES
    req,      \* per request: its input, its program counter and its locals
    idem,     \* idem:{request_id} keys present in Redis
    life,     \* per key, how many times its TTL ended it
    live,     \* sessions with a CHAT_SESSION row
    owner,    \* MEMBER_ID of the row; a deleted row keeps its last value
    title,    \* the request whose question is the TITLE, None for the default
    thread,   \* the latest checkpoint of every thread
    rows,     \* CHAT_HISTORY rows inserted per request
    events    \* expiries and restarts so far

vars == <<req, idem, life, live, owner, title, thread, rows, events>>

-----------------------------------------------------------------------------
(* Types.                                                                  *)

\* IntentType, reduced to what routers/chat.py and append_message_node tell
\* apart: the two search intents and all the others.
Intent == {"STRUCTURED_QUERY", "SEMANTIC_SEARCH", "OTHER"}

SearchIntent == {"STRUCTURED_QUERY", "SEMANTIC_SEARCH"}

\* rag_hits is the set of requests whose search produced the hits: {} or one.
Hits == SUBSET Request

\* One turn in a thread: the HumanMessage/AIMessage pair of a request, with
\* the sources its AIMessage carries in additional_kwargs.
Turn == [by : Request, sources : Hits]

Checkpoint == [turns : Seq(Turn), hits : Hits]

EmptyCheckpoint == [turns |-> <<>>, hits |-> {}]

Pc == {"idle", "acquire", "resolve", "owner", "create", "history", "load",
       "nodes", "append", "save", "touch", "drop_row",
       "drop_thread", "done", "lost"}

Status == {"none", "ok", "error", "409", "401", "404", "500"}

\* seen is the history of a turn: what its client sent until _resolve_history
\* settles it, and from says why it is what it is.
RequestState ==
    [pc : Pc, kind : Kinds \cup {"none"}, member : Member \cup {None},
     session : Session \cup {None}, rid : RequestId \cup {None},
     admitted : {"no", "key", "open"}, age : Nat,
     seen : Seq(Turn), from : {"client", "memory", "error"},
     base : Seq(Turn), hits : Hits, intent : Intent,
     status : Status, sources : Hits]

Idle == [pc |-> "idle", kind |-> "none", member |-> None, session |-> None,
         rid |-> None, admitted |-> "no", age |-> 0,
         seen |-> <<>>, from |-> "client", base |-> <<>>, hits |-> {}, intent |-> "OTHER",
         status |-> "none", sources |-> {}]

TypeOK ==
    /\ req \in [Request -> RequestState]
    /\ idem \in SUBSET RequestId
    /\ life \in [RequestId -> Nat]
    /\ live \in SUBSET Session
    /\ owner \in [Session -> Member \cup {None}]
    /\ title \in [Session -> Request \cup {None}]
    /\ thread \in [Session -> Checkpoint]
    /\ rows \in [Request -> Nat]
    /\ events \in 0..MaxEvents

\* The process has just started: no request, rows left by earlier runs, and
\* nothing in the checkpointer yet.
Init ==
    /\ req = [r \in Request |-> Idle]
    /\ idem = {}
    /\ life = [i \in RequestId |-> 0]
    /\ owner \in [Session -> Member \cup {None}]
    /\ live = {s \in Session : owner[s] # None}
    /\ title = [s \in Session |-> None]
    /\ thread = [s \in Session |-> EmptyCheckpoint]
    /\ rows = [r \in Request |-> 0]
    /\ events = 0

-----------------------------------------------------------------------------
(* Helpers.                                                                *)

At(r, label) == req[r].pc = label

Goto(r, label) == req' = [req EXCEPT ![r].pc = label]

\* The coroutine ends and the client sees the status.
Finish(r, status) ==
    req' = [req EXCEPT ![r].pc = "done", ![r].status = status]

Tables == <<live, owner, title>>

SessionOwnerOfAnyRow(s) == owner[s]

\* get_chat_session_owner: the MEMBER_ID of the row, None without a row.
SessionOwner(s) == IF s \in live THEN owner[s] ELSE None

RestoredHits(s) == thread[s].hits

\* The rag_hits every turn starts from, whatever the checkpoint restores.
InitHits(s) == {}

\* The condition under which hits become sources; routers/chat.py applies it
\* to the response and append_message_node to the stored AIMessage.
ResponseSources(intent, hits) == IF intent \in SearchIntent THEN hits ELSE {}

SemanticSources(intent, hits) ==
    IF intent = "SEMANTIC_SEARCH" THEN hits ELSE {}

StoredSources(intent, hits) == IF intent \in SearchIntent THEN hits ELSE {}

TitleAfterSwap(r, s) == IF title[s] = None THEN s ELSE title[s]

\* The title touch_chat_session leaves: the first question recorded names the
\* session.  Bound: no question is literally the default title, which would
\* leave the row looking untouched.
TitleAfter(r, s) == IF title[s] = None THEN r ELSE title[s]

-----------------------------------------------------------------------------
(* The steps of a request.                                                 *)

\* Bound: a request that will create a session arrives only while a UUID of
\* the pool is left for it.
SessionLeft ==
    Cardinality({x \in Request : /\ req[x].session = None
                                 /\ req[x].member # None
                                 /\ req[x].pc \notin {"done", "lost"}})
        < Cardinality({s \in Session : owner[s] = None})

\* What a client may send as the history of a conversation: turns of it that it
\* was answered, in any order and number, and without their sources.  Bound: no
\* client invents turns.
ClientHistories(m, s) ==
    LET answered == {x \in Request : /\ req[x].kind = "turn" /\ req[x].status = "ok"
                                     /\ req[x].member = m /\ req[x].session = s}
    IN  UNION {[1..n -> [by : answered, sources : {{}}]] : n \in 0..MaxHistory}

\* A client calls an endpoint.  A guest sends no token and gets no session;
\* a logged-in client names a session it has heard of, its own or not.
Arrive(r) ==
    /\ At(r, "idle")
    /\ \E k \in Kinds, m \in Member \cup {None}, s \in Session \cup {None},
          i \in RequestId \cup {None} : \E h \in ClientHistories(m, s) :
        /\ m = None => k = "turn" /\ s = None
        /\ s # None => owner[s] # None
        /\ (m # None /\ s = None) => SessionLeft
        /\ k = "create" => s = None
        /\ k \in {"read", "delete"} => s # None
        /\ k # "turn" => i = None /\ h = <<>>
        /\ req' = [req EXCEPT ![r] =
               [@ EXCEPT !.pc = IF k = "turn" THEN "acquire" ELSE "resolve",
                         !.kind = k, !.member = m, !.session = s, !.rid = i,
                         !.seen = h]]
    /\ UNCHANGED <<idem, life, Tables, thread, rows, events>>

\* Where a turn goes once its request id is accepted: guests skip the token.
AfterAcquire(r) == IF req[r].member = None THEN "load" ELSE "resolve"

SetAlways(i) == TRUE

\* Redis SET NX succeeds only while the key is absent.
SetNX(i) == i \notin idem

\* A request whose id was taken before is turned away at once.
RejectDuplicate(r) == Finish(r, "409")

\* try_acquire: SET idem:{id} NX EX 300.  Without an id, without Redis or on a
\* Redis error the request passes unguarded, and the SET whose reply was lost
\* may have stored the key; an existing key answers 409.
TryAcquire(r) ==
    /\ At(r, "acquire")
    /\ LET i == req[r].rid IN
       \/ /\ i # None /\ RedisConfigured /\ SetNX(i)
          /\ idem' = idem \cup {i}
          /\ req' = [req EXCEPT ![r].pc = AfterAcquire(r),
                                ![r].admitted = "key", ![r].age = life[i]]
       \/ /\ i # None /\ RedisConfigured /\ ~SetNX(i)
          /\ RejectDuplicate(r)
          /\ UNCHANGED idem
       \/ /\ i = None \/ ~RedisConfigured \/ Faults
          /\ req' = [req EXCEPT ![r].pc = AfterAcquire(r),
                                ![r].admitted = "open"]
          /\ \/ UNCHANGED idem
             \/ i # None /\ RedisConfigured /\ idem' = idem \cup {i}
    /\ UNCHANGED <<life, Tables, thread, rows, events>>

\* The step after the token: the turn looks at the session it was given or
\* makes one, the other endpoints go to their own first query.
AfterResolve(r) ==
    IF req[r].session # None THEN "owner" ELSE "create"

\* resolve_chat_token: the row is there and not past EXPIRE_DATE, or 401.
ResolveToken(r) ==
    /\ At(r, "resolve")
    /\ \/ Goto(r, AfterResolve(r))
       \/ Finish(r, "401")
    /\ UNCHANGED <<idem, life, Tables, thread, rows, events>>

RowExists(r) == SessionOwner(req[r].session) # None

\* The session has a row and the row is the caller's.
OwnsSession(r) == SessionOwner(req[r].session) = req[r].member

\* get_chat_session_owner and the comparison with the caller's MEMBER_ID.
CheckOwner(r) ==
    /\ At(r, "owner")
    /\ IF OwnsSession(r)
       THEN Goto(r, IF req[r].kind = "delete" THEN "drop_row" ELSE "history")
       ELSE Finish(r, "404")
    /\ UNCHANGED <<idem, life, Tables, thread, rows, events>>

\* create_chat_session draws a UUID no row ever had and inserts the row.
CreateSession(r) ==
    /\ At(r, "create")
    /\ \E s \in Session :
        /\ owner[s] = None
        /\ owner' = [owner EXCEPT ![s] = req[r].member]
        /\ live' = live \cup {s}
        /\ req' = IF req[r].kind = "create"
                  THEN [req EXCEPT ![r].session = s, ![r].pc = "done",
                                   ![r].status = "ok"]
                  ELSE [req EXCEPT ![r].session = s, ![r].pc = "history"]
    /\ UNCHANGED <<idem, life, title, thread, rows, events>>

\* An Oracle error outside a try block ends the request with a 500.
OracleError(r) ==
    /\ Faults
    /\ req[r].pc \in {"resolve", "owner", "create", "drop_row"}
    /\ Finish(r, "500")
    /\ UNCHANGED <<idem, life, Tables, thread, rows, events>>

\* The turns of the latest checkpoint.
LatestTurns(s) == thread[s].turns

\* The whole turns among the last MaxMessages messages: trim_messages starts its
\* window at a question.
Kept == MaxMessages \div 2

OldestTurns(turns) ==
    IF Kept = 0 \/ Len(turns) <= Kept THEN turns ELSE SubSeq(turns, 1, Kept)

\* trim_history.  Where the window holds no whole turn, the safety net of
\* trim_message_list hands over everything.
TrimHistory(turns) ==
    IF Kept = 0 \/ Len(turns) <= Kept THEN turns
    ELSE SubSeq(turns, Len(turns) - Kept + 1, Len(turns))

\* The turn goes on with this history; GET /chat/sessions/{id}/messages, which
\* brought none of its own, answers with it.
Shown(r, turns, from) ==
    req' = IF req[r].kind = "read"
           THEN [req EXCEPT ![r].seen = turns, ![r].from = from,
                            ![r].pc = "done", ![r].status = "ok"]
           ELSE [req EXCEPT ![r].seen = turns, ![r].from = from, ![r].pc = "load"]

\* _resolve_history: what the server remembers of the session, and where it
\* remembers nothing or aget_state fails to tell, what the client sent.
ResolveHistory(r) ==
    /\ At(r, "history")
    /\ LET memory == LatestTurns(req[r].session) IN
       \/ memory # <<>> /\ Shown(r, TrimHistory(memory), "memory")
       \/ memory = <<>> /\ Shown(r, TrimHistory(req[r].seen), "client")
       \/ memory # <<>> /\ Faults /\ Shown(r, TrimHistory(req[r].seen), "error")
    /\ UNCHANGED <<idem, life, Tables, thread, rows, events>>

\* ainvoke restores the latest checkpoint of the thread and lays init_state
\* over it.  A guest's thread is a UUID nobody else can name.
LoadThread(r) ==
    /\ At(r, "load")
    /\ LET s == req[r].session IN
       req' = [req EXCEPT
                 ![r].pc = "nodes",
                 ![r].base = IF s = None THEN <<>> ELSE thread[s].turns,
                 ![r].hits = IF s = None THEN {} ELSE InitHits(s)]
    /\ UNCHANGED <<idem, life, Tables, thread, rows, events>>

\* What the handler of an intent leaves in rag_hits: a search may write its
\* own hits, write none, or return without the key; the others never write.
HitsAfter(r, intent) ==
    IF intent \in SearchIntent THEN {req[r].hits, {}, {r}} ELSE {req[r].hits}

\* The checkpoint of the thread of r, when it has one, becomes this value.
WriteCheckpoint(r, turns, hits) ==
    IF req[r].session = None
    THEN UNCHANGED thread
    ELSE thread' = [thread EXCEPT ![req[r].session] =
                                      [turns |-> turns, hits |-> hits]]

\* classify, the handler and the guard.  LangGraph saves a checkpoint of the
\* whole state after each of them: the turns it loaded and the new hits.
RunNodes(r) ==
    /\ At(r, "nodes")
    /\ \E i \in Intent : \E h \in HitsAfter(r, i) :
        /\ req' = [req EXCEPT ![r].pc = "append", ![r].intent = i,
                              ![r].hits = h]
        /\ WriteCheckpoint(r, req[r].base, h)
    /\ UNCHANGED <<idem, life, Tables, rows, events>>

\* The ChatResponse of a turn, with the sources of a search intent.
Respond(r) ==
    req' = [req EXCEPT ![r].pc = "done", ![r].status = "ok",
              ![r].sources = ResponseSources(req[r].intent, req[r].hits)]

TurnsAfterHistory(r) ==
    Append(req[r].seen,
           [by |-> r, sources |-> StoredSources(req[r].intent, req[r].hits)])

\* The turns this run loaded, then its own.
TurnsAfter(r) ==
    Append(req[r].base,
           [by |-> r, sources |-> StoredSources(req[r].intent, req[r].hits)])

SavesAlways(r) == TRUE

\* Only the turns of members are recorded.
Saves(r) == req[r].member # None

\* append_message_node: the question and the answer go behind the turns this
\* run loaded, and the last checkpoint of the run is saved.  A guest has
\* nothing more to save and is answered at once.
AppendMessage(r) ==
    /\ At(r, "append")
    /\ WriteCheckpoint(r, TurnsAfter(r), req[r].hits)
    /\ IF Saves(r) THEN Goto(r, "save") ELSE Respond(r)
    /\ UNCHANGED <<idem, life, Tables, rows, events>>

\* ainvoke raises: the client gets the apology, nothing is saved, and the
\* checkpoints of the nodes that did finish stay.
GraphError(r) ==
    /\ Faults
    /\ req[r].pc \in {"load", "nodes", "append"}
    /\ Finish(r, "error")
    /\ \/ UNCHANGED thread
       \/ At(r, "nodes") /\ WriteCheckpoint(r, req[r].base, req[r].hits)
    /\ UNCHANGED <<idem, life, Tables, rows, events>>

\* save_chat_history; its failure is logged and the turn goes on.
SaveHistory(r) ==
    /\ At(r, "save")
    /\ Goto(r, "touch")
    /\ \/ rows' = [rows EXCEPT ![r] = @ + 1]
       \/ Faults /\ UNCHANGED rows
    /\ UNCHANGED <<idem, life, Tables, thread, events>>

\* touch_chat_session: an UPDATE, so a row deleted meanwhile stays deleted, and
\* a failure is logged.  The answer leaves right after it.
TouchSession(r) ==
    /\ At(r, "touch")
    /\ Respond(r)
    /\ \/ /\ req[r].session \in live
          /\ title' = [title EXCEPT ![req[r].session] =
                                        TitleAfter(r, req[r].session)]
       \/ /\ Faults \/ req[r].session \notin live
          /\ UNCHANGED title
    /\ UNCHANGED <<idem, life, live, owner, thread, rows, events>>

\* delete_chat_session.
DropRow(r) ==
    /\ At(r, "drop_row")
    /\ live' = live \ {req[r].session}
    /\ Goto(r, "drop_thread")
    /\ UNCHANGED <<idem, life, owner, title, thread, rows, events>>

\* adelete_thread; its failure is logged and the caller is told "deleted".
DropThread(r) ==
    /\ At(r, "drop_thread")
    /\ Finish(r, "ok")
    /\ \/ thread' = [thread EXCEPT ![req[r].session] = EmptyCheckpoint]
       \/ Faults /\ UNCHANGED thread
    /\ UNCHANGED <<idem, life, Tables, rows, events>>

-----------------------------------------------------------------------------
(* What time and the host do.                                              *)

\* The 300 s TTL of an idempotency key runs out.
ExpireKey(i) ==
    /\ i \in idem /\ events < MaxEvents
    /\ idem' = idem \ {i}
    /\ life' = [life EXCEPT ![i] = @ + 1]
    /\ events' = events + 1
    /\ UNCHANGED <<req, Tables, thread, rows>>

\* The 24 h TTL of a Redis thread runs out; every read renews it, so no run
\* that holds the thread is that old.
ExpireThread(s) ==
    /\ RedisConfigured /\ events < MaxEvents
    /\ thread[s] # EmptyCheckpoint
    /\ \A r \in Request :
          req[r].session = s => req[r].pc \notin {"load", "nodes", "append"}
    /\ thread' = [thread EXCEPT ![s] = EmptyCheckpoint]
    /\ events' = events + 1
    /\ UNCHANGED <<req, idem, life, Tables, rows>>

\* The client of /chat/stream hangs up and Starlette cancels the coroutine at
\* its next await; a query under way in the thread pool still finishes first.
HangUp(r) ==
    /\ Faults
    /\ req[r].kind = "turn" /\ req[r].pc \notin {"done", "lost"}
    /\ Goto(r, "lost")
    /\ UNCHANGED <<idem, life, Tables, thread, rows, events>>

\* The server restarts: coroutines die unanswered and MemorySaver forgets,
\* while Redis and Oracle keep what they were given.
Restart ==
    /\ Faults /\ events < MaxEvents
    /\ req' = [r \in Request |->
                  IF req[r].pc \in {"idle", "done"} THEN req[r]
                  ELSE [req[r] EXCEPT !.pc = "lost"]]
    /\ thread' = IF RedisConfigured THEN thread
                 ELSE [s \in Session |-> EmptyCheckpoint]
    /\ events' = events + 1
    /\ UNCHANGED <<idem, life, Tables, rows>>

Step(r) ==
    \/ TryAcquire(r) \/ ResolveToken(r) \/ CheckOwner(r) \/ CreateSession(r)
    \/ OracleError(r) \/ ResolveHistory(r) \/ LoadThread(r) \/ RunNodes(r)
    \/ AppendMessage(r) \/ GraphError(r) \/ SaveHistory(r) \/ TouchSession(r)
    \/ DropRow(r) \/ DropThread(r)

\* Every request slot of the instance is used up.
Finished ==
    /\ \A r \in Request : req[r].pc \in {"done", "lost"}
    /\ UNCHANGED vars

Next ==
    \/ \E r \in Request : Arrive(r) \/ Step(r) \/ HangUp(r)
    \/ \E i \in RequestId : ExpireKey(i)
    \/ \E s \in Session : ExpireThread(s)
    \/ Restart
    \/ Finished

Spec == Init /\ [][Next]_vars

-----------------------------------------------------------------------------
(* Safety.                                                                 *)

\* The requests whose turns a sequence of turns holds.
Authors(turns) == {turns[j].by : j \in DOMAIN turns}

\* A session's thread holds turns of its owner only and its title is one of his
\* questions, and no request of a member is shown or builds on a message of anyone
\* else: the owner check of routers/chat.py precedes every access, however requests
\* interleave.
MemoryIsolation ==
    /\ \A s \in Session : \A x \in Authors(thread[s].turns) :
          req[x].member = owner[s]
    /\ \A s \in Session : title[s] # None => req[title[s]].member = owner[s]
    /\ \A r \in Request : req[r].member # None =>
          \A x \in Authors(req[r].seen) \cup Authors(req[r].base) :
              req[x].member = req[r].member

\* Of the requests that carry one request_id, the SETNX of try_acquire lets one
\* through per life of the key, whatever happened to the request that won.
OneWinnerPerKey ==
    \A r, x \in Request :
        /\ r # x
        /\ req[r].admitted = "key" /\ req[x].admitted = "key"
        /\ req[r].rid = req[x].rid
        => req[r].age # req[x].age

\* The cards of the immediate answer are the cards the restored conversation
\* shows (the comment of append_message_node: both must stay the same).
SourcesAgree ==
    \A s \in Session : \A j \in DOMAIN thread[s].turns :
        LET t == thread[s].turns[j] IN
        req[t.by].status = "ok" => req[t.by].sources = t.sources

\* An answer shows only what its own turn found, although the checkpoint of
\* the thread restores the rag_hits of the turn before.
SourcesAreFresh ==
    \A r \in Request : req[r].sources \subseteq {r}

\* CHAT_HISTORY holds at most one row of a request, and holds one only of a
\* logged-in turn that is answered, is about to be or was cut off.
RowsOfAnsweredTurns ==
    \A r \in Request : rows[r] > 0 =>
        /\ rows[r] = 1
        /\ req[r].kind = "turn" /\ req[r].member # None
        /\ req[r].pc \in {"touch", "lost"} \/ req[r].status = "ok"

\* No row and nobody past the owner check: the session is out of reach.
OutOfReach(s) ==
    /\ owner[s] # None /\ s \notin live
    /\ \A r \in Request : req[r].session = s =>
          req[r].pc \in {"acquire", "resolve", "owner", "done", "lost"}

\* A deleted session that is out of reach stays so: whatever in-flight turns
\* left in its thread, no later request reads it, writes it or revives it.
DeletedStaysOutOfReach ==
    [][\A s \in Session : OutOfReach(s) =>
          OutOfReach(s)' /\ thread'[s] \in {thread[s], EmptyCheckpoint}]_vars
=============================================================================
