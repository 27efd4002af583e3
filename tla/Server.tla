------------------------------- MODULE Server -------------------------------
(* The process as a whole: requests of every chat endpoint from their arrival
   to the last byte, on the pool, the start and stop of the process, and the
   event stream.  What a request does with threads and sessions is in ChatTurn
   and the agent modules; here it is the resources it takes and gives back.  A
   request reads the database before its run (run_in_threadpool), may read it
   in the run (asyncio.to_thread) and writes CHAT_HISTORY after it; the further
   calls of the chat path are more of the same.  A request's thread is its
   worker. *)
EXTENDS Lifespan, EventStream

CONSTANT Kinds      \* the endpoints the clients call

Endpoint == {"ask", "stream", "voice", "agent", "multi", "mcp"}

ASSUME ServerAssumption == Worker = Request /\ Kinds \subseteq Endpoint
                           /\ None \notin Endpoint /\ MaxChunks \in Nat

VARIABLE req    \* req[r]: endpoint, guest, program counter, lost connection

vars == <<req, poolVars, bootVars, streamVars>>

Stage == {"new", "stt", "token", "app", "tools", "query", "run", "save", "tts",
          "stream", "done", "gone"}

Request0 == [kind |-> None, guest |-> FALSE, pc |-> "new", cut |-> FALSE]

TypeOK ==
    /\ req \in [Request -> [kind : Endpoint \cup {None}, guest : BOOLEAN,
                            pc : Stage, cut : BOOLEAN]]
    /\ PoolTypeOK /\ BootTypeOK /\ StreamTypeOK

Init == /\ req = [r \in Request |-> Request0]
        /\ PoolInit /\ BootInit /\ StreamInit

AppOf(kind) == IF kind \in {"ask", "stream", "voice"} THEN "chat" ELSE kind

InFlight(r) == req[r].pc \notin {"new", "done", "gone"}

-----------------------------------------------------------------------------
(* Moving a request on *)

\* Awaits that hand a function of oracle_db to a thread.
DbStage == {"token", "query", "save"}
Returns(r) == call[r].at \in {"ok", "error"}

\* A request that has ended is remembered only as such.
At(r, stage) == IF stage \in {"done", "gone"}
                THEN [Request0 EXCEPT !.pc = stage, !.cut = req[r].cut]
                ELSE [req[r] EXCEPT !.pc = stage]

\* r enters a stage, and its thread starts where the stage awaits one.
Enter(r, stage) ==
    /\ req' = [req EXCEPT ![r] = At(r, stage)]
    /\ call' = [call EXCEPT ![r] = IF stage \in DbStage THEN Started(stage = "save")
                                   ELSE Idle]
    /\ UNCHANGED <<pool, named, lent, tx>>

\* The answer goes out: as JSON, as speech, or as a stream of these events.
Reply(r, events) ==
    /\ Enter(r, CASE req[r].kind = "stream" -> "stream"
                  [] req[r].kind = "voice" -> "tts"
                  [] OTHER -> "done")
    /\ plan' = IF req[r].kind = "stream" THEN [plan EXCEPT ![r] = events] ELSE plan
    /\ UNCHANGED <<sent, wire, buffer, got>>

\* An exception of the pipeline: an HTTP error, or one error event.
Refuse(r) ==
    IF req[r].kind = "stream" THEN Reply(r, ErrorEvents)
    ELSE Enter(r, "done") /\ UNCHANGED streamVars

\* A stream whose client left while a thread worked ends when the thread does.
EndIfCut(r) == req[r].cut /\ Enter(r, "gone") /\ UNCHANGED streamVars

AfterLogin(guest) == IF guest THEN "app" ELSE "token"

-----------------------------------------------------------------------------
(* One request *)

Arrive(r, kind, guest) ==
    /\ phase = "serving" /\ req[r].pc = "new"
    /\ LET stage == IF kind = "voice" THEN "stt" ELSE AfterLogin(guest)
       IN  /\ req' = [req EXCEPT ![r] = [kind |-> kind, guest |-> guest,
                                         pc |-> stage, cut |-> FALSE]]
           /\ call' = [call EXCEPT ![r] = IF stage = "token" THEN Started(FALSE)
                                          ELSE Idle]
    /\ UNCHANGED <<pool, named, lent, tx, bootVars, streamVars>>

\* voice_chat: the upload is checked and transcribed; 400, 502 or 422.
Transcribe(r) ==
    /\ req[r].pc = "stt"
    /\ Enter(r, AfterLogin(req[r].guest)) \/ Enter(r, "done")
    /\ UNCHANGED <<bootVars, streamVars>>

\* resolve_chat_token: a member, nobody (401), or an exception.
ResolveToken(r) ==
    /\ req[r].pc = "token" /\ Returns(r)
    /\ \/ EndIfCut(r)
       \/ ~req[r].cut /\ call[r].at = "ok" /\ Enter(r, "app") /\ UNCHANGED streamVars
       \/ ~req[r].cut /\ Refuse(r)
    /\ UNCHANGED bootVars

\* ainvoke: the run begins, with a tool or a node that reads the database or not.
BeginRun(r) == Enter(r, "query") \/ Enter(r, "run")

\* _get_graph, _get_agent_app, _get_multi_app.
GetApp(r) ==
    /\ req[r].pc = "app" /\ req[r].kind # "mcp"
    /\ bound' = Compiled(AppOf(req[r].kind)) /\ saver' = SafeSaver
    /\ BeginRun(r)
    /\ UNCHANGED <<phase, starts, saverOpen, toolVars, streamVars>>

\* _get_mcp_agent: the agent built before, or with tools that are there.
GetMcpAgent(r) ==
    /\ req[r].pc = "app" /\ req[r].kind = "mcp"
    /\ \/ mcpTools # None /\ UNCHANGED <<memoryVars, toolVars>>
       \/ /\ mcpTools = None /\ ToolsAtOnce # None
          /\ BuildMcpAgent(ToolsAtOnce) /\ UNCHANGED <<tools, asking>>
    /\ BeginRun(r)
    /\ UNCHANGED <<phase, starts, streamVars>>

Moved(c, stage) ==
    [r \in Request |-> IF r = c THEN [req[r] EXCEPT !.pc = stage] ELSE req[r]]

\* prefetch_mcp_tools, or a request that finds neither an agent nor tools.
AskForTools(c) ==
    /\ IF c = Boot THEN phase = "tools"
       ELSE req[c].pc = "app" /\ req[c].kind = "mcp" /\ mcpTools = None
    /\ AskServers(c)
    /\ req' = Moved(c, "tools")
    /\ UNCHANGED streamVars

GetTools(c) == ServersAnswer(c) /\ req' = Moved(c, "app") /\ UNCHANGED streamVars

QueryAnswered(r) ==
    /\ req[r].pc = "query" /\ Returns(r) /\ Enter(r, "run")
    /\ UNCHANGED <<bootVars, streamVars>>

\* The run ends: an answer, which a member's history records, or the apology
\* of the except block.
RunEnds(r) ==
    /\ req[r].pc = "run"
    /\ \/ ~req[r].guest /\ Enter(r, "save") /\ UNCHANGED streamVars
       \/ \E n \in 0 .. MaxChunks : Reply(r, AnswerEvents(n))
    /\ UNCHANGED bootVars

\* save_chat_history; a failure is only logged.
SaveHistory(r) ==
    /\ req[r].pc = "save" /\ Returns(r)
    /\ \/ EndIfCut(r)
       \/ ~req[r].cut /\ \E n \in 0 .. MaxChunks : Reply(r, AnswerEvents(n))
    /\ UNCHANGED bootVars

\* synthesize: the spoken answer, or 502 for an answer that is already saved.
Speak(r) ==
    /\ req[r].pc = "tts" /\ Enter(r, "done") /\ UNCHANGED <<bootVars, streamVars>>

Stream(r) ==
    /\ req[r].pc = "stream"
    /\ \/ SendEvent(r) /\ UNCHANGED <<req, poolVars>>
       \/ AllSent(r) /\ Enter(r, "done") /\ UNCHANGED streamVars
    /\ UNCHANGED bootVars

RequestStep(r) ==
    \/ Transcribe(r) \/ ResolveToken(r) \/ GetApp(r) \/ GetMcpAgent(r)
    \/ QueryAnswered(r) \/ RunEnds(r) \/ SaveHistory(r) \/ Speak(r) \/ Stream(r)

-----------------------------------------------------------------------------
(* Clients and the process *)

ReaderStep(r) == (Deliver(r) \/ CutBlock(r)) /\ UNCHANGED <<req, poolVars, bootVars>>

\* The client of a stream leaves.  A cancelled asyncio.to_thread lets go of its
\* thread, which never starts or runs on; a cancelled run_in_threadpool first
\* waits for its thread.
HangUp(r) ==
    /\ req[r].kind = "stream" /\ ~req[r].cut
    /\ \/ /\ req[r].pc \in {"token", "save"}
          /\ req' = [req EXCEPT ![r].cut = TRUE] /\ UNCHANGED call
       \/ /\ req[r].pc \in {"query", "run", "stream"}
          /\ req' = [req EXCEPT ![r] = [Request0 EXCEPT !.pc = "gone", !.cut = TRUE]]
          /\ call' = [call EXCEPT ![r] = IF @.at = "look" THEN Idle ELSE @]
                \/ UNCHANGED call
    /\ ReaderLost(r)
    /\ UNCHANGED <<pool, named, lent, tx, bootVars>>

\* uvicorn takes no new request, waits for those it has, then lets lifespan() end.
Drained == \A r \in Request : ~InFlight(r)
BeginStop == Stop /\ UNCHANGED <<req, streamVars>>

BeginStart == StartProcess /\ UNCHANGED <<req, streamVars>>
BootStep ==
    /\ OpenCheckpointer \/ CheckpointerFails
    /\ UNCHANGED <<req, streamVars>>

ShutdownStep ==
    /\ \/ Drained /\ CloseCheckpointer
       \/ ClosePool
       \/ ProcessEnds
    /\ UNCHANGED <<req, streamVars>>

\* The process dies at any point; Oracle rolls its connections back.
Unread(r) == InFlight(r) \/ wire[r] # <<>>
Crash ==
    /\ phase # "down"
    /\ ProcessLost
    /\ req' = [r \in Request |->
                 [At(r, IF InFlight(r) THEN "gone" ELSE req[r].pc)
                     EXCEPT !.cut = @ \/ Unread(r)]]
    /\ SenderLost

ThreadStep(w) == CallStep(w) /\ UNCHANGED <<req, bootVars, streamVars>>

\* What the process, its threads, the services it calls and its readers do.
SystemStep ==
    \/ \E r \in Request : RequestStep(r) \/ ReaderStep(r)
    \/ \E w \in Worker : ThreadStep(w)
    \/ \E c \in Request \cup {Boot} : AskForTools(c) \/ GetTools(c)
    \/ BootStep \/ ShutdownStep

\* What clients call, and operators and accidents do to the process.
EnvironmentStep ==
    \/ \E r \in Request, k \in Kinds, g \in BOOLEAN : Arrive(r, k, g)
    \/ \E r \in Request : HangUp(r)
    \/ BeginStart \/ BeginStop \/ Crash

Next == SystemStep \/ EnvironmentStep

\* The event loop resumes what can run, LLM_TIMEOUT bounds the calls of models
\* and speech, MCP servers and Oracle answer or fail, the executor runs its
\* threads, and a client that stays reads.  It is enough that the system as a
\* whole goes on while any part of it can.
Fairness == WF_vars(SystemStep)

Spec == Init /\ [][Next]_vars /\ Fairness

-----------------------------------------------------------------------------
\* The pool is a shelf of connections for the threads of the requests: whatever
\* fails, hangs up, restarts or dies, a connection goes to one thread at a time,
\* only that thread changes data on it, it comes back without an uncommitted
\* change, and close_pool() shuts the pool only with all of them back (the with
\* block of every oracle_db function).
Shelf == INSTANCE Leases WITH
            Connection <- Slot, Client <- Worker, Nobody <- None,
            open <- (pool = "open"), holder <- lent, change <- tx

LeaseSpec == Shelf!Spec

\* Every graph of the process uses the checkpointer lifespan() injected, which
\* is Redis if it is configured, and its connection is open while a run may use
\* it: the four routes share one memory (the comments on the lazy getters in
\* the routers, open_checkpointer).
OneMemory ==
    /\ \A a \in App : bound[a] # None => bound[a] = saver
    /\ Up => saver = ConfiguredSaver
    /\ \A r \in Request : req[r].pc \in {"query", "run"} =>
          saverOpen /\ bound[AppOf(req[r].kind)] # None

Settled ==
    /\ \A r \in Request :
          ~InFlight(r) /\ (req[r].cut \/ Len(got[r]) = Len(plan[r]))
    /\ \A w \in Worker : ~Active(w)
    /\ phase \in {"down", "serving"}

\* Whatever fails, hangs up or dies: every request ends, a client that stays gets
\* its whole stream, no thread keeps a connection for ever, a start ends in
\* service or in nothing, and a server told to stop stops; with one pool
\* connection for all, or with no pool (get_connection, lifespan, event_stream).
EverythingEnds == []<>Settled
=============================================================================
