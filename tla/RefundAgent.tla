---------------------------- MODULE RefundAgent ----------------------------
(***************************************************************************)
(* The refund of the single agent: POST /chat/agent, whose model may call  *)
(* the request_refund tool, the interrupt of that tool, and POST           *)
(* /chat/agent/resume with the user's decision.                            *)
(*                                                                         *)
(* One chat token, so one thread: threads of other tokens share nothing    *)
(* with it.  A turn of /chat/mcp-agent or /chat/multi-agent on the thread  *)
(* is a turn of /chat/agent whose model calls no refund.  A request is a   *)
(* coroutine and each of its awaits separates two steps.                   *)
(***************************************************************************)
EXTENDS Naturals, Sequences, FiniteSets

CONSTANTS
    Request,          \* calls, each of them used once
    Order,            \* order numbers the model may come up with
    Own,              \* those that are orders of the token's member
    None,             \* no order, no request
    MaxCalls,         \* bound on request_refund calls in one request
    RedisConfigured,  \* checkpoints survive a restart
    OneAtATime,       \* the client waits for an answer before its next call
    Faults,           \* Oracle or the model may fail
    MaxRestarts       \* bound on restarts of the server

ASSUME RefundAgentAssumption ==
    /\ None \notin Request \cup Order
    /\ Own \subseteq Order
    /\ MaxCalls \in Nat /\ MaxRestarts \in Nat
    /\ {RedisConfigured, OneAtATime, Faults} \subseteq BOOLEAN

VARIABLES
    req,         \* per request: its program counter and its locals
    thread,      \* the latest checkpoint of the thread
    prompted,    \* orders the client was asked about
    registered,  \* refunds each request registered, in order
    notices,     \* rounds of mail and Slack about an order
    restarts     \* restarts so far

vars == <<req, thread, prompted, registered, notices, restarts>>

-----------------------------------------------------------------------------
(* Types.                                                                  *)

Pc == {"idle", "resolve", "load", "llm", "tool", "notify", "save", "done", "lost"}

\* What the next run of the graph finds in a checkpoint: nothing to do, a run
\* that died before or between tool calls, or a pending call of request_refund.
Stage == {"over", "between", "pending"}

\* A checkpoint belongs to the run that wrote it.
Checkpoint ==
    [run : Request \cup {None}, last : Request \cup {None}, stage : Stage,
     order : Order \cup {None}]

NoCheckpoint == [run |-> None, last |-> None, stage |-> "over", order |-> None]

RequestState ==
    [kind : {"none", "chat", "resume"}, pc : Pc, decision : {"none", "approve", "reject"},
     value : {"none", "approve", "reject"}, run : Request \cup {None},
     order : Order \cup {None}, calls : Nat,
     status : {"none", "answered", "asked", "error", "401"},
     answer : Request \cup {None}]

\* decision is what a resume request carries; value is the part of it that no
\* interrupt has taken yet; answer is the turn whose answer is sent.
Idle ==
    [kind |-> "none", pc |-> "idle", decision |-> "none", value |-> "none",
     run |-> None, order |-> None, calls |-> 0, status |-> "none", answer |-> None]

TypeOK ==
    /\ req \in [Request -> RequestState]
    /\ thread \in Checkpoint
    /\ prompted \in SUBSET Order
    /\ registered \in [Request -> Seq(Order)]
    /\ notices \in [Order -> Nat]
    /\ restarts \in 0..MaxRestarts

Init ==
    /\ req = [r \in Request |-> Idle]
    /\ thread = NoCheckpoint
    /\ prompted = {}
    /\ registered = [r \in Request |-> <<>>]
    /\ notices = [o \in Order |-> 0]
    /\ restarts = 0

-----------------------------------------------------------------------------
(* Helpers.                                                                *)

At(r, label) == req[r].pc = label

Goto(r, label) == req' = [req EXCEPT ![r].pc = label]

Finish(r, status) ==
    req' = [req EXCEPT ![r].pc = "done", ![r].status = status]

Running(r) == req[r].pc \notin {"idle", "done", "lost"}

Log == <<prompted, registered, notices>>

RecordSwapped(r, stage, order) ==
    thread' = IF thread.run = req[r].run
              THEN [thread EXCEPT !.stage = stage, !.last = order] ELSE thread

\* A run writes into the checkpoint it started from.  When another run wrote a
\* newer one meanwhile, nobody will see it.
Record(r, stage, order) ==
    thread' = IF thread.run = req[r].run
              THEN [thread EXCEPT !.stage = stage, !.order = order] ELSE thread

-----------------------------------------------------------------------------
(* The requests.                                                           *)

\* A message, or an answer to a prompt: the client resumes only what it was
\* asked about, though perhaps twice or too late.
Arrive(r) ==
    /\ At(r, "idle")
    /\ OneAtATime => \A x \in Request : ~Running(x)
    /\ \/ req' = [req EXCEPT ![r].pc = "resolve", ![r].kind = "chat"]
       \/ /\ prompted # {}
          /\ \E d \in {"approve", "reject"} :
                req' = [req EXCEPT ![r].pc = "resolve", ![r].kind = "resume",
                                   ![r].decision = d, ![r].value = d]
    /\ UNCHANGED <<thread, Log, restarts>>

\* resolve_chat_token; the query may also raise, outside every try block.
ResolveToken(r) ==
    /\ At(r, "resolve")
    /\ \/ Goto(r, "load")
       \/ Finish(r, "401")
       \/ Faults /\ Finish(r, "error")
    /\ UNCHANGED <<thread, Log, restarts>>

\* ainvoke with a new message starts the graph anew.  It drops what was pending
\* and saves the checkpoint with the message.
LoadChat(r) ==
    /\ At(r, "load") /\ req[r].kind = "chat"
    /\ thread' = [thread EXCEPT !.run = r, !.stage = "between", !.order = None]
    /\ req' = [req EXCEPT ![r].pc = "llm", ![r].run = r]
    /\ UNCHANGED <<Log, restarts>>

\* _extract_final_answer of the messages in a checkpoint: the last answer, None
\* for the apology when there is none.
LastAnswer(cp) == cp.last

\* ainvoke with Command(resume=...) goes on from the checkpoint: with a pending
\* tool call from the tool, after a run that died from the model, and when
\* nothing is left to do it returns the messages at once.  Without a checkpoint
\* LangGraph raises, and the caller gets the apology.
LoadResume(r) ==
    /\ At(r, "load") /\ req[r].kind = "resume"
    /\ \/ thread.run = None /\ Finish(r, "error")
       \/ /\ thread.run # None
          /\ req' = [req EXCEPT ![r].run = thread.run, ![r].order = thread.order,
                       ![r].answer = LastAnswer(thread),
                       ![r].pc = CASE thread.stage = "over" -> "save"
                                   [] thread.stage = "between" -> "llm"
                                   [] thread.stage = "pending" -> "tool"]
    /\ UNCHANGED <<thread, Log, restarts>>

\* The model calls request_refund.  Bound: MaxCalls; the code's own bound is the
\* recursion limit of 12.
CallRefund(r) ==
    /\ At(r, "llm") /\ req[r].calls < MaxCalls
    /\ \E o \in Order :
        /\ req' = [req EXCEPT ![r].pc = "tool", ![r].order = o, ![r].calls = @ + 1]
        /\ Record(r, "pending", o)
    /\ UNCHANGED <<Log, restarts>>

\* The model answers; the guard may reword it.  The turn's last checkpoint is
\* the latest of the thread now, whatever was there.
Answer(r) ==
    /\ At(r, "llm")
    /\ thread' = [run |-> r, last |-> r, stage |-> "over", order |-> None]
    /\ req' = [req EXCEPT ![r].pc = "save", ![r].answer = r]
    /\ UNCHANGED <<Log, restarts>>

\* The tool's result goes back to the model.
ToolReturns(r) ==
    /\ Goto(r, "llm")
    /\ Record(r, "between", None)

\* fetch_order_by_id finds only orders of the member.
Found(o) == o \in Own

\* request_refund for an order that is not there.
RefuseRefund(r) ==
    /\ At(r, "tool") /\ ~Found(req[r].order)
    /\ ToolReturns(r)
    /\ UNCHANGED <<Log, restarts>>

NotifyFirst(r) ==
    /\ At(r, "tool") /\ Found(req[r].order) /\ req[r].value = "none"
    /\ Finish(r, "asked")
    /\ prompted' = prompted \cup {req[r].order}
    /\ notices' = [notices EXCEPT ![req[r].order] = @ + 1]
    /\ UNCHANGED <<thread, registered, restarts>>

\* interrupt() without a decision stops the run.  /chat/agent sends the prompt;
\* /chat/agent/resume does not look for it, and what it finds in the messages is
\* the answer of the turn before.
Interrupt(r) ==
    /\ At(r, "tool") /\ Found(req[r].order) /\ req[r].value = "none"
    /\ IF req[r].kind = "chat"
       THEN /\ Finish(r, "asked")
            /\ prompted' = prompted \cup {req[r].order}
       ELSE Goto(r, "save") /\ UNCHANGED prompted
    /\ UNCHANGED <<thread, registered, notices, restarts>>

\* How request_refund reads what interrupt() returned.
Approved(value) == value = "approve"

KeepsValue(r) == req[r].value

\* The decision is given to one interrupt() only.
ValueAfter(r) == "none"

\* interrupt() returns the decision and it is a no.
RejectRefund(r) ==
    /\ At(r, "tool") /\ Found(req[r].order)
    /\ req[r].value # "none" /\ ~Approved(req[r].value)
    /\ req' = [req EXCEPT ![r].pc = "llm", ![r].value = ValueAfter(r)]
    /\ Record(r, "between", None)
    /\ UNCHANGED <<Log, restarts>>

\* interrupt() returns the decision and it is a yes: the refund is registered.
ApproveRefund(r) ==
    /\ At(r, "tool") /\ Found(req[r].order) /\ Approved(req[r].value)
    /\ registered' = [registered EXCEPT ![r] = Append(@, req[r].order)]
    /\ req' = [req EXCEPT ![r].pc = "notify", ![r].value = ValueAfter(r)]
    /\ UNCHANGED <<thread, prompted, notices, restarts>>

\* Mail and Slack go out together, their failures are logged, and the tool
\* returns; until then the checkpoint still has the call pending.
Notify(r) ==
    /\ At(r, "notify")
    /\ notices' = [notices EXCEPT ![req[r].order] = @ + 1]
    /\ ToolReturns(r)
    /\ UNCHANGED <<prompted, registered, restarts>>

\* The model or the order query fails, or the recursion limit is reached: the
\* client gets the apology and the checkpoint stays.
GraphError(r) ==
    /\ Faults
    /\ req[r].pc \in {"load", "llm", "tool"}
    /\ Finish(r, "error")
    /\ UNCHANGED <<thread, Log, restarts>>

\* save_chat_history, failing or not, and the answer.
SaveHistory(r) ==
    /\ At(r, "save")
    /\ Finish(r, IF req[r].answer = None THEN "error" ELSE "answered")
    /\ UNCHANGED <<thread, Log, restarts>>

\* The server restarts and MemorySaver forgets.
Restart ==
    /\ restarts < MaxRestarts
    /\ restarts' = restarts + 1
    /\ req' = [r \in Request |->
                  IF Running(r) THEN [req[r] EXCEPT !.pc = "lost"] ELSE req[r]]
    /\ thread' = IF RedisConfigured THEN thread ELSE NoCheckpoint
    /\ UNCHANGED Log

Step(r) ==
    \/ ResolveToken(r) \/ LoadChat(r) \/ LoadResume(r) \/ CallRefund(r)
    \/ Answer(r) \/ RefuseRefund(r) \/ Interrupt(r) \/ RejectRefund(r)
    \/ ApproveRefund(r) \/ Notify(r) \/ GraphError(r) \/ SaveHistory(r)

Finished ==
    /\ \A r \in Request : req[r].pc \in {"done", "lost"}
    /\ UNCHANGED vars

Next ==
    \/ \E r \in Request : Arrive(r) \/ Step(r)
    \/ Restart
    \/ Finished

Spec == Init /\ [][Next]_vars

-----------------------------------------------------------------------------
(* Safety.                                                                 *)

Registrations == UNION {{registered[r][k] : k \in DOMAIN registered[r]} : r \in Request}

\* A refund is registered only by a request that carries an approval, one refund
\* per approval, and only for an order of the member.
OneRefundPerApproval ==
    \A r \in Request : registered[r] # <<>> =>
        /\ req[r].kind = "resume" /\ req[r].decision = "approve"
        /\ Len(registered[r]) = 1
        /\ registered[r][1] \in Own

\* The shop's staff hears of exactly the registered refunds: none is announced
\* without an approval or twice, and unless the server died meanwhile each one is
\* announced before the model goes on.
NoticesMatchRegistrations ==
    \A o \in Order :
        LET by == {r \in Request : o \in {registered[r][k] : k \in DOMAIN registered[r]}}
            sending == {r \in by : req[r].pc = "notify"}
        IN /\ notices[o] + Cardinality(sending) <= Cardinality(by)
           /\ restarts = 0 => notices[o] + Cardinality(sending) = Cardinality(by)

\* The user was asked about every order whose refund is registered (the
\* docstring of request_refund).
AskedBeforeRegistered == Registrations \subseteq prompted

Approvals == {r \in Request : req[r].value = "approve"}
RefundOf(r) == IF registered[r] = <<>> THEN None ELSE registered[r][1]
Announcing == {r \in Request : req[r].pc = "notify"}

Desk == INSTANCE RefundDesk WITH
           Client <- Request, Nothing <- None, approval <- Approvals,
           refund <- [r \in Request |-> RefundOf(r)], pending <- Announcing

\* To member and staff the calls of the chat, the interrupts and the checkpoints
\* are a desk: an approval buys one refund, and the refund is announced next, if
\* the server lives (request_refund, agent_resume).
DeskSpec == Desk!Spec
=============================================================================
