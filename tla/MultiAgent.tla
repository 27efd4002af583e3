----------------------------- MODULE MultiAgent -----------------------------
(***************************************************************************)
(* POST /chat/multi-agent: a supervisor hands a question to workers until  *)
(* it has an answer, and a guard checks that answer.  Every call of an LLM *)
(* is shown the messages of the thread, cut to a window.                   *)
(*                                                                         *)
(* One chat token, or one guest, and one request at a time: overlapping    *)
(* turns of a thread are the subject of ChatTurn.  Texts are left out, but *)
(* for what the guard finds in an answer.  Rows of CHAT_HISTORY and of the *)
(* metrics file are written after the run and read by nobody here.         *)
(***************************************************************************)
EXTENDS Naturals, Sequences, FiniteSets, SequencesExt

CONSTANTS
    Cap,             \* HISTORY_MAX_MESSAGES
    MaxRouting,      \* MAX_ROUTING
    RecursionLimit,  \* _RECURSION_LIMIT, of the graph and of each worker
    MaxCalls,        \* bound on the tool calls of one message
    Faults,          \* Oracle, Chroma, the LLM or the checkpointer may fail
    MaxTurns         \* bound on turns

\* 4 and 20 in the code: two steps per routing, the last decision and the guard.
ASSUME MultiAgentAssumption ==
    /\ {Cap, MaxRouting, RecursionLimit, MaxCalls, MaxTurns} \subseteq Nat \ {0}
    /\ 2 * MaxRouting + 2 <= RecursionLimit
    /\ Faults \in BOOLEAN

VARIABLES
    guest,     \* is_guest
    turn,      \* requests so far
    pc,        \* what runs next: a node, a step of a worker, or the router
    thread,    \* messages
    work,      \* what the running worker has added to them
    searches,  \* calls of semantic_search among the calls that wait for results
    routing,   \* routing_count
    steps,     \* steps of the graph
    hits,      \* the turn whose search filled rag_hits, 0 when it is empty
    final,     \* final_answer
    prior,     \* prior_ids
    counted    \* messages the metrics of the last answered turn are made of

vars == <<guest, turn, pc, thread, work, searches, routing, steps, hits, final, prior, counted>>
request == <<guest, turn, prior, counted>>

-----------------------------------------------------------------------------
(* Types.                                                                  *)

Pc == {"idle", "begin", "supervisor", "model", "tools", "guard", "count"}

\* A question; an answer from a guest's own history; an AIMessage of a worker with
\* calls and one without; a ToolMessage.  The id is made of the turn, 0 for a guest's
\* history, and a number; a result names the message and the place of its call.
Kind == {"human", "bot", "call", "text", "tool"}
Id == Nat \X Nat
Message == [id : Id, kind : Kind, calls : 0..MaxCalls, of : Id \X (0..MaxCalls)]

NoCall == <<<<0, 0>>, 0>>
Plain(id, kind) == [id |-> id, kind |-> kind, calls |-> 0, of |-> NoCall]

Author == {"nobody", "llm", "fixed", "warned", "retry", "fallback"}
Answer == [by : Author, grounded : BOOLEAN, claims : BOOLEAN]

Fixed(by) == [by |-> by, grounded |-> FALSE, claims |-> FALSE]
LLMAnswers == {a \in Answer : a.by = "llm"}

TypeOK ==
    /\ guest \in BOOLEAN
    /\ turn \in 0..MaxTurns
    /\ pc \in Pc
    /\ thread \in Seq(Message) /\ work \in Seq(Message)
    /\ searches \in 0..MaxCalls
    /\ routing \in 0..MaxRouting
    /\ steps \in 0..RecursionLimit
    /\ hits \in 0..MaxTurns
    /\ final \in Answer
    /\ prior \in SUBSET Id /\ counted \in SUBSET Id

Init ==
    /\ guest \in BOOLEAN
    /\ turn = 0
    /\ pc = "idle"
    /\ thread = <<>> /\ work = <<>>
    /\ searches = 0 /\ routing = 0 /\ steps = 0 /\ hits = 0
    /\ final = Fixed("nobody")
    /\ prior = {} /\ counted = {}

IdsIn(ms) == {ms[i].id : i \in DOMAIN ms}

-----------------------------------------------------------------------------
(* The window of messages an LLM is shown.                                 *)

Questions(ms) == {i \in DOMAIN ms : ms[i].kind = "human"}

\* The mistake of cutting wherever the limit falls.
CutAnywhere(ms) == IF Len(ms) <= Cap THEN ms ELSE SubSeq(ms, Len(ms) - Cap + 1, Len(ms))

\* trim_messages: of the last Cap messages those from the first question on.
TrimMessages(ms) ==
    LET recent == {i \in Questions(ms) : Len(ms) < i + Cap}
    IN  IF recent = {} THEN <<>>
        ELSE SubSeq(ms, CHOOSE i \in recent : \A j \in recent : i <= j, Len(ms))

\* The mistake of passing on an empty window.
TrimWithoutNet(ms) == TrimMessages(ms)

\* trim_message_list: a window without the last question is not used.
TrimMessageList(ms) == IF TrimMessages(ms) = <<>> THEN ms ELSE TrimMessages(ms)

-----------------------------------------------------------------------------
(* The request.                                                            *)

\* What a guest's client sends of its earlier turns.
ClientHistory ==
    [i \in 1..2 * (turn - 1) |-> Plain(<<0, i>>, IF i % 2 = 1 THEN "human" ELSE "bot")]

\* A request of a guest or with a valid token, then snapshot_prior_message_ids: what
\* the thread holds, nothing for a guest's new thread or when the read fails.
Ask ==
    /\ pc = "idle" /\ turn < MaxTurns
    /\ turn' = turn + 1
    /\ \/ prior' = IF guest THEN {} ELSE IdsIn(thread)
       \/ Faults /\ prior' = {}
    /\ pc' = "begin"
    /\ UNCHANGED <<guest, thread, work, searches, routing, steps, hits, final, counted>>

\* The mistake of an input that leaves rag_hits to the checkpoint.
RestoredHits(previous) == previous
InitHits(previous) == 0

\* ainvoke: the checkpoint, with the question and the fields of init_state.
Begin ==
    /\ pc = "begin"
    /\ thread' = Append(IF guest THEN ClientHistory ELSE thread, Plain(<<turn, 0>>, "human"))
    /\ hits' = InitHits(hits)
    /\ routing' = 0
    /\ steps' = 0
    /\ pc' = "supervisor"
    /\ UNCHANGED <<request, work, searches, final>>

\* The TTL of a thread, or a restart with MemorySaver.
Forget ==
    /\ pc \in {"idle", "begin"} /\ thread # <<>>
    /\ thread' = <<>>
    /\ UNCHANGED <<request, pc, work, searches, routing, steps, hits, final>>

-----------------------------------------------------------------------------
(* The supervisor.                                                         *)

NextStep(node) ==
    /\ steps < RecursionLimit
    /\ steps' = steps + 1
    /\ pc' = node

\* The mistake of a decision that is not counted.
Uncounted(n) == n
CountRouting(n) == n + 1

\* The mistake of one decision too many.
OneMore == routing <= MaxRouting
CanRoute == routing < MaxRouting

\* A worker, or FINISH with an answer or, for an empty one, a greeting.
Route ==
    /\ pc = "supervisor" /\ CanRoute
    /\ routing' = CountRouting(routing)
    /\ \/ NextStep("model") /\ UNCHANGED final
       \/ NextStep("guard") /\ final' \in LLMAnswers \cup {Fixed("fixed")}
    /\ UNCHANGED <<request, thread, work, searches, hits>>

\* The LLM fails, and an apology takes the place of an answer.
RouteFails ==
    /\ Faults
    /\ pc = "supervisor" /\ CanRoute
    /\ NextStep("guard")
    /\ final' = Fixed("fixed")
    /\ UNCHANGED <<request, thread, work, searches, routing, hits>>

\* _force_finish_answer: an answer, or a fixed text for an empty one or a failure.
ForceFinish ==
    /\ pc = "supervisor" /\ ~ CanRoute
    /\ NextStep("guard")
    /\ final' \in LLMAnswers \cup {Fixed("fixed")}
    /\ UNCHANGED <<request, thread, work, searches, routing, hits>>

-----------------------------------------------------------------------------
(* A worker.                                                               *)

\* Messages of the turn get numbers from 0 on, the question's.
NextNumber == Cardinality({i \in DOMAIN thread : thread[i].id[1] = turn}) + Len(work)
NextId == <<turn, NextNumber>>

Rounds == Cardinality({i \in DOMAIN work : work[i].kind = "call"})

\* One more round of hook, model and tools, then hook and model again, must fit.
RoundFits == 3 * (Rounds + 1) + 2 <= RecursionLimit

\* The worker's model answers: what it added joins the thread, and the supervisor
\* is next.
WorkerAnswers ==
    /\ pc = "model"
    /\ thread' = thread \o Append(work, Plain(NextId, "text"))
    /\ work' = <<>>
    /\ NextStep("supervisor")
    /\ UNCHANGED <<request, searches, routing, hits, final>>

\* Or it calls tools, semantic_search and others.
WorkerCalls ==
    /\ pc = "model" /\ RoundFits
    /\ \E n \in 1..MaxCalls :
        /\ work' = Append(work, [Plain(NextId, "call") EXCEPT !.calls = n])
        /\ searches' \in 0..n
    /\ pc' = "tools"
    /\ UNCHANGED <<request, thread, routing, steps, hits, final>>

Results(call) ==
    [i \in 1..call.calls |->
        [Plain(<<call.id[1], call.id[2] + i>>, "tool") EXCEPT !.of = <<call.id, i>>]]

\* The tools return their results, and a search its hits: some, or none.
RunTools ==
    /\ pc = "tools" /\ searches <= 1
    /\ work' = work \o Results(Last(work))
    /\ hits' \in IF searches = 1 THEN {turn, 0} ELSE {hits}
    /\ searches' = 0
    /\ pc' = "model"
    /\ UNCHANGED <<request, thread, routing, steps, final>>

\* The run ends without an answer.  What the worker added is lost; the thread keeps
\* the question and the workers that are done.
Abort ==
    /\ pc' = "idle"
    /\ work' = <<>> /\ searches' = 0
    /\ final' = Fixed("fixed")
    /\ UNCHANGED <<request, thread, routing, steps, hits>>

\* rag_hits takes one value per step: two searches at once end the run.
SearchesCollide == pc = "tools" /\ searches > 1 /\ Abort

\* The model wants another round and the worker has no steps left.
WorkerExhausted == pc = "model" /\ ~ RoundFits /\ Abort

\* An error no node catches, or the client hangs up.
RunFails ==
    /\ pc \in {"begin", "supervisor", "model", "tools", "guard"}
    /\ Faults
    /\ Abort

-----------------------------------------------------------------------------
(* The guard and the router.                                               *)

Guarded(answer) ==
    /\ final' = answer
    /\ pc' = "count"
    /\ UNCHANGED <<request, thread, work, searches, routing, steps, hits>>

\* With hits an answer that rests on them, without hits one that claims nothing.
GuardPass ==
    /\ pc = "guard"
    /\ IF hits # 0 THEN final.grounded ELSE ~ final.claims
    /\ Guarded(final)

GuardWarn ==
    /\ pc = "guard" /\ hits = 0 /\ final.claims
    /\ Guarded([final EXCEPT !.by = "warned"])

\* The mistake of trusting the second answer.
TrustedRetry(a) == a
Verified(a) == IF a.grounded THEN a ELSE Fixed("fallback")

\* One retry, checked like the first answer; a failed call is the fixed message.
GuardRetry ==
    /\ pc = "guard" /\ hits # 0 /\ ~ final.grounded
    /\ \/ \E a \in {b \in Answer : b.by = "retry"} : Guarded(Verified(a))
       \/ Faults /\ Guarded(Fixed("fallback"))

\* filter_new_messages: all of them when there were none before.
EveryMessage(ms, before) == IdsIn(ms)
FilterNewMessages(ms, before) == IdsIn(ms) \ before

\* collect_message_metrics counts calls, results and answers of workers.
Costs(ms) == {ms[i].id : i \in {j \in DOMAIN ms : ms[j].kind \in {"call", "tool", "text"}}}

\* The metrics of the turn, and the answer is sent.
Count ==
    /\ pc = "count"
    /\ counted' = FilterNewMessages(thread, prior) \cap Costs(thread)
    /\ pc' = "idle"
    /\ UNCHANGED <<guest, turn, thread, work, searches, routing, steps, hits, final, prior>>

Over ==
    /\ pc = "idle" /\ turn = MaxTurns
    /\ UNCHANGED vars

Next ==
    \/ Ask \/ Begin \/ Forget
    \/ Route \/ RouteFails \/ ForceFinish
    \/ WorkerAnswers \/ WorkerCalls \/ RunTools
    \/ SearchesCollide \/ WorkerExhausted \/ RunFails
    \/ GuardPass \/ GuardWarn \/ GuardRetry \/ Count
    \/ Over

Spec == Init /\ [][Next]_vars

-----------------------------------------------------------------------------
(* Properties.                                                             *)

\* The messages the next call of an LLM is shown.
Input == TrimMessageList(thread \o work)

\* However long the conversation, a supervisor or a worker sees its whole turn: the
\* question, and every result the turn's workers have collected for the answer.
WholeTurnSeen ==
    pc \in {"supervisor", "model"} =>
        \A i \in DOMAIN (thread \o work) :
            (thread \o work)[i].id[1] = turn => (thread \o work)[i] \in ToSet(Input)

\* A window never parts a call from its results: a provider refuses a request with one
\* and not the other, and then every later turn of the thread would fail.
CallsKeepResults ==
    pc \in {"supervisor", "model"} =>
        LET made == UNION {{<<m.id, i>> : i \in 1..m.calls} : m \in ToSet(Input)}
        IN  made = {m.of : m \in ToSet(Input)} \ {NoCall}

\* The cap on routings ends the loop before the recursion limit would: there is always
\* room for the guard, so a turn of a supervisor that never finishes gets an answer.
LoopStopsItself == pc = "supervisor" => steps + 2 <= RecursionLimit

\* The guard holds an answer against a search of this turn and against no older one,
\* and what it lets through rests on that search.
CheckedAgainstThisTurn ==
    /\ pc \in {"guard", "count"} => hits \in {0, turn}
    /\ pc = "count" /\ hits # 0 => final.grounded \/ final.by = "fallback"

\* When the snapshot could be read, a turn is charged for its own messages and for no
\* message of an earlier turn.
ChargedOnce ==
    [][LET own == {id \in Costs(thread) : id[1] = turn}
           read == prior # {} \/ Costs(thread) = own
       IN  pc = "count" /\ read => counted' = own]_vars
=============================================================================
