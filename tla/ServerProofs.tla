---------------------------- MODULE ServerProofs ----------------------------
(***************************************************************************)
(* Theorems about Server for any number of requests, pool connections,     *)
(* chunks and starts, with Redis and the MCP servers configured or not:    *)
(* the connection pool, the life of the process, the event stream, and the *)
(* requests that run through all three, with every failure, hang-up,       *)
(* shutdown and crash.                                                     *)
(***************************************************************************)
EXTENDS Server, SequenceTheorems, TLAPS

-----------------------------------------------------------------------------
(* The inductive invariant.                                                *)

\* The pool: every connection, change and call is accounted for.
PoolInv == PoolTypeOK /\ PoolAccounted /\ CleanHandover

\* A thread works for a request only while the request awaits the database,
\* or after a hang-up let go of the thread.
ThreadsOfRequests ==
    \A r \in Request : Active(r) => req[r].pc \in DbStage \cup {"gone"}

\* Between two lives of the process nothing of it is left, and at its start
\* only the pool is.
Fresh == /\ saver = None /\ ~saverOpen /\ \A a \in App : bound[a] = None
         /\ tools = None /\ mcpTools = None

LifeInv ==
    /\ BootTypeOK
    /\ phase \in {"down", "checkpointer"} => Fresh
    /\ phase \notin {"down", "checkpointer"} =>
          /\ saver = ConfiguredSaver
          /\ \A a \in App : bound[a] \in {None, ConfiguredSaver}
    /\ saverOpen <=> phase \in {"tools", "serving", "draining"}
    /\ phase = "down" => pool = "absent" /\ \A w \in Worker : call[w] = Idle
    /\ asking \subseteq {Boot}
    /\ phase = "tools" => McpEnabled /\ tools = None
    /\ phase # "tools" => asking = {}
    /\ McpEnabled => phase \in {"down", "checkpointer", "tools"} \/ tools # None
    /\ mcpTools # None => bound["mcp"] # None

\* What a request is at each of its stages.
RequestState == [kind : Endpoint \cup {None}, guest : BOOLEAN,
                 pc : Stage, cut : BOOLEAN]

RequestOK(r) ==
    /\ InFlight(r) => Up /\ req[r].kind \in Endpoint
    /\ ~InFlight(r) => req[r].kind = None
    /\ req[r].pc # "tools"
    /\ req[r].pc \in {"query", "run"} => bound[AppOf(req[r].kind)] # None

RequestInv == req \in [Request -> RequestState] /\ \A r \in Request : RequestOK(r)

\* Line k of the stream a request sends.
LineAt(k) == IF k % 3 = 1 THEN Line("event", (k + 2) \div 3)
             ELSE IF k % 3 = 2 THEN Line("data", (k + 1) \div 3)
             ELSE BlankLine

\* A piece of the stream that begins behind its line c.
Follows(lines, c) == \A k \in 1 .. Len(lines) : lines[k] = LineAt(c + k)

\* A stream with plan p of which s events were yielded, w is on the wire, b in
\* the reader's buffer and g restored: what is on the way is what comes next.
Sound(p, s, w, b, g) ==
    /\ s <= Len(p) /\ Len(p) <= MaxChunks + 1
    /\ 3 * Len(g) + Len(b) + Len(w) <= 3 * s
    /\ \A i \in 1 .. Len(g) : g[i] = <<i, i>>
    /\ Follows(b, 3 * Len(g)) /\ Follows(w, 3 * Len(g) + Len(b))

\* Nothing of it is lost.
Whole(s, w, b, g) == 3 * Len(g) + Len(b) + Len(w) = 3 * s

StreamOK(r) == Sound(plan[r], sent[r], wire[r], buffer[r], got[r])

\* A request that has not begun to answer has sent nothing, and while one
\* answers nothing it has sent is lost.
Sending(pc, s, w, b, g) ==
    /\ pc \notin {"stream", "done", "gone"} => s = 0 /\ w = <<>> /\ b = <<>> /\ g = <<>>
    /\ pc = "stream" => Whole(s, w, b, g)

SendingOK(r) == Sending(req[r].pc, sent[r], wire[r], buffer[r], got[r])

StreamInv == StreamTypeOK /\ \A r \in Request : StreamOK(r) /\ SendingOK(r)

IInv == RequestInv /\ ThreadsOfRequests /\ PoolInv /\ LifeInv /\ StreamInv


-----------------------------------------------------------------------------
(* The pool.                                                               *)

\* The states a call may take.
CallState == [at : CallStage, conn : Slot \cup {Direct, None},
              write : BOOLEAN, failed : BOOLEAN]

LEMMA CallStates ==
    /\ Idle \in CallState /\ Idle.at = "none" /\ Idle.conn = None
    /\ \A b \in BOOLEAN : Started(b) \in CallState /\ Started(b).at = "look"
                            /\ Started(b).conn = None
BY DEF Idle, Started, CallState, CallStage

LEMMA ConstantsApart ==
    /\ PoolMax \in Nat /\ Direct # None /\ Direct \notin Slot /\ None \notin Slot
    /\ None \notin Worker
BY PoolAssumption DEF Slot

\* A call that uses no connection starts, ends or is given up.
LEMMA CallReplaced ==
    ASSUME PoolInv, NEW w \in Worker, NEW c \in CallState,
           call[w].conn = None, c.conn = None, c.at \notin {"body", "commit", "exit"},
           call' = [call EXCEPT ![w] = c], UNCHANGED <<pool, named, lent, tx>>
    PROVE  PoolInv'
<1>1. PoolTypeOK'
  BY DEF PoolInv, PoolTypeOK, CallState
<1>2. PoolAccounted'
  BY ConstantsApart DEF PoolInv, PoolTypeOK, PoolAccounted
<1>3. CleanHandover'
  BY DEF PoolInv, CleanHandover
<1> QED  BY <1>1, <1>2, <1>3 DEF PoolInv

\* A process that is gone has a pool where everything is accounted for.
LEMMA PoolOfNoProcess ==
    ASSUME pool' = "absent", named' = FALSE, lent' = NoneLent, tx' = NoneLent,
           call' = [w \in Worker |-> Idle]
    PROVE  PoolInv'
<1>1. PoolTypeOK'
  BY CallStates DEF PoolTypeOK, NoneLent, CallState
<1>2. PoolAccounted'
  BY CallStates, ConstantsApart DEF PoolAccounted, NoneLent
<1>3. CleanHandover'
  BY DEF CleanHandover, NoneLent
<1> QED  BY <1>1, <1>2, <1>3 DEF PoolInv

\* Reading the global name of the pool.
LEMMA LookKeepsPool ==
    ASSUME PoolInv, NEW w \in Worker, LookAtPool(w) \/ BindPool(w)
    PROVE  PoolInv'
<1>0. call[w] \in CallState /\ call[w].conn = None
  BY DEF PoolInv, PoolTypeOK, PoolAccounted, CallState, LookAtPool, BindPool
<1>1. CASE call' = [call EXCEPT ![w].at = "bind"] \/ call' = [call EXCEPT ![w].at = "wait"]
  <2>1. PICK st \in {"bind", "wait"} : call' = [call EXCEPT ![w].at = st]
    BY <1>1
  <2> DEFINE c == [call[w] EXCEPT !.at = st]
  <2>2. c \in CallState /\ c.conn = None /\ c.at = st
    BY <1>0 DEF CallState, CallStage
  <2>3. call' = [call EXCEPT ![w] = c] /\ UNCHANGED <<pool, named, lent, tx>>
    BY <2>1 DEF PoolInv, PoolTypeOK, LookAtPool, BindPool
  <2> HIDE DEF c
  <2> QED  BY <2>2, <2>3, <1>0, CallReplaced
<1>2. CASE Ended(w, "error")
  <2>1. [Idle EXCEPT !.at = "error"] \in CallState
        /\ [Idle EXCEPT !.at = "error"].conn = None
        /\ [Idle EXCEPT !.at = "error"].at = "error"
    BY DEF Idle, CallState, CallStage
  <2>2. UNCHANGED <<pool, named, lent, tx>>
    BY DEF LookAtPool, BindPool
  <2> QED  BY <1>0, <1>2, <2>1, <2>2, CallReplaced DEF Ended
<1>3. CASE call' = [call EXCEPT ![w].at = "body", ![w].conn = Direct]
  <2>0. UNCHANGED <<pool, named, lent, tx>>
    BY DEF LookAtPool, BindPool
  <2>1. PoolTypeOK'
    BY <1>3, <1>0, <2>0 DEF PoolInv, PoolTypeOK, CallState, CallStage
  <2>2. PoolAccounted'
    BY <1>3, <1>0, <2>0, ConstantsApart DEF PoolInv, PoolTypeOK, PoolAccounted, CallState
  <2>3. CleanHandover'
    BY <2>0 DEF PoolInv, CleanHandover
  <2> QED  BY <2>1, <2>2, <2>3 DEF PoolInv
<1> QED  BY <1>1, <1>2, <1>3 DEF LookAtPool, BindPool

\* acquire(): the connection that is handed out was nobody's and is clean.
LEMMA AcquireKeepsPool ==
    ASSUME PoolInv, NEW w \in Worker, Acquire(w)
    PROVE  PoolInv'
<1>0. call[w] \in CallState /\ call[w].conn = None /\ UNCHANGED <<pool, named, tx>>
  BY DEF PoolInv, PoolTypeOK, PoolAccounted, CallState, Acquire
<1>1. CASE Ended(w, "error") /\ UNCHANGED lent
  <2>1. [Idle EXCEPT !.at = "error"] \in CallState
        /\ [Idle EXCEPT !.at = "error"].conn = None
        /\ [Idle EXCEPT !.at = "error"].at = "error"
    BY DEF Idle, CallState, CallStage
  <2> QED  BY <1>0, <1>1, <2>1, CallReplaced DEF Ended
<1>2. ASSUME pool = "open", NEW s \in FreeSlots, lent' = [lent EXCEPT ![s] = w],
             call' = [call EXCEPT ![w].at = "body", ![w].conn = s]
      PROVE  PoolInv'
  <2>0. s \in Slot /\ lent[s] = None
    BY <1>2 DEF FreeSlots
  <2>1. PoolTypeOK'
    BY <1>2, <1>0, <2>0 DEF PoolInv, PoolTypeOK, CallState, CallStage
  <2>2. PoolAccounted'
    <3>1. \A x \in Worker : call'[x].conn = IF x = w THEN s ELSE call[x].conn
      BY <1>2, <1>0 DEF PoolInv, PoolTypeOK, CallState
    <3>2. \A x \in Worker : call'[x].at = IF x = w THEN "body" ELSE call[x].at
      BY <1>2, <1>0 DEF PoolInv, PoolTypeOK, CallState
    <3>3. \A t \in Slot : lent'[t] = IF t = s THEN w ELSE lent[t]
      BY <1>2 DEF PoolInv, PoolTypeOK
    <3>4. \A x \in Worker : call[x].conn # s
      BY <2>0, ConstantsApart DEF PoolInv, PoolAccounted
    <3>5. \A t \in Slot : lent[t] # w
      BY <1>0, ConstantsApart DEF PoolInv, PoolAccounted
    <3>9. \A t \in Slot, x \in Worker : lent'[t] = x <=> call'[x].conn = t
      BY <3>1, <3>3, <3>4, <3>5 DEF PoolInv, PoolAccounted
    <3>7. \A x \in Worker : call'[x].conn # None <=> call'[x].at \in {"body", "commit", "exit"}
      BY <3>1, <3>2, <2>0, ConstantsApart DEF PoolInv, PoolAccounted
    <3> QED  BY <3>9, <3>7, <1>2, <1>0 DEF PoolAccounted
  <2>3. CleanHandover'
    BY <1>2, <1>0, <2>0 DEF PoolInv, PoolTypeOK, CleanHandover
  <2> QED  BY <2>1, <2>2, <2>3 DEF PoolInv
<1> QED  BY <1>1, <1>2 DEF Acquire

\* A worker keeps its connection from one step of its statement to the next.
LEMMA SameConnection ==
    ASSUME PoolInv, NEW w \in Worker, call[w].at \in {"body", "commit", "exit"},
           UNCHANGED <<pool, named, lent>>, NEW c \in CallState,
           call' = [call EXCEPT ![w] = c],
           c.conn = call[w].conn, c.at \in {"body", "commit", "exit"}
    PROVE  PoolAccounted'
BY DEF PoolInv, PoolTypeOK, PoolAccounted

\* execute() and commit(): a change is left on the worker's own connection, or
\* taken off it.
LEMMA StatementKeepsPool ==
    ASSUME PoolInv, NEW w \in Worker, Execute(w) \/ Commit(w)
    PROVE  PoolInv'
<1>0. call[w] \in CallState /\ call[w].at \in {"body", "commit"}
      /\ UNCHANGED <<pool, named, lent>>
  BY DEF PoolInv, PoolTypeOK, CallState, Execute, Commit
<1>1. PICK c \in CallState : /\ call' = [call EXCEPT ![w] = c]
                             /\ c.conn = call[w].conn /\ c.at \in {"body", "commit", "exit"}
  <2> DEFINE failing == [call[w] EXCEPT !.at = "exit", !.failed = TRUE]
             leaving == [call[w] EXCEPT !.at = "exit"]
             writing == [call[w] EXCEPT !.at = "commit"]
  <2>1. /\ failing \in CallState /\ failing.conn = call[w].conn /\ failing.at = "exit"
        /\ leaving \in CallState /\ leaving.conn = call[w].conn /\ leaving.at = "exit"
        /\ writing \in CallState /\ writing.conn = call[w].conn /\ writing.at = "commit"
    BY <1>0 DEF CallState, CallStage
  <2>2. \/ call' = [call EXCEPT ![w] = failing]
        \/ call' = [call EXCEPT ![w] = leaving]
        \/ call' = [call EXCEPT ![w] = writing]
    BY <1>0 DEF Execute, Commit, PoolInv, PoolTypeOK, CallState
  <2> HIDE DEF failing, leaving, writing
  <2> QED  BY <2>1, <2>2
<1>2. tx' = tx \/ \E x \in {w, None} :
         tx' = [s \in Slot |-> IF s = call[w].conn THEN x ELSE tx[s]]
  BY DEF Execute, Commit
<1>3. PoolTypeOK'
  BY <1>0, <1>1, <1>2 DEF PoolInv, PoolTypeOK, CallState
<1>4. PoolAccounted'
  BY <1>0, <1>1, SameConnection
<1>5. CleanHandover'
  <2>1. \A s \in Slot : s = call[w].conn => lent[s] = w
    BY DEF PoolInv, PoolAccounted
  <2> QED  BY <1>0, <1>2, <2>1 DEF PoolInv, CleanHandover
<1> QED  BY <1>3, <1>4, <1>5 DEF PoolInv

\* The end of the block gives the connection back without a change on it.
LEMMA LeaveKeepsPool ==
    ASSUME PoolInv, NEW w \in Worker, LeaveBlock(w)
    PROVE  PoolInv'
<1>0. /\ call[w] \in CallState /\ call[w].at = "exit" /\ UNCHANGED <<pool, named>>
      /\ lent' = Returned(w) /\ tx' = RolledBack(w)
  BY DEF PoolInv, PoolTypeOK, CallState, LeaveBlock
<1>1. PICK result \in {"ok", "error"} : call' = [call EXCEPT ![w] = [Idle EXCEPT !.at = result]]
  BY DEF LeaveBlock, Ended
<1>2. [Idle EXCEPT !.at = result] \in CallState
      /\ [Idle EXCEPT !.at = result].conn = None
      /\ [Idle EXCEPT !.at = result].at = result
  BY DEF Idle, CallState, CallStage
<1>3. PoolTypeOK'
  BY <1>0, <1>1, <1>2 DEF PoolInv, PoolTypeOK, CallState, Returned, RolledBack
<1>4. PoolAccounted'
  <2>1. \A x \in Worker : call'[x].conn = IF x = w THEN None ELSE call[x].conn
    BY <1>1, <1>2 DEF PoolInv, PoolTypeOK
  <2>2. \A x \in Worker : call'[x].at = IF x = w THEN result ELSE call[x].at
    BY <1>1, <1>2 DEF PoolInv, PoolTypeOK
  <2>3. \A s \in Slot : lent'[s] = IF s = call[w].conn THEN None ELSE lent[s]
    BY <1>0 DEF Returned
  <2>4. \A s \in Slot, x \in Worker : lent'[s] = x <=> call'[x].conn = s
    BY <2>1, <2>3, ConstantsApart DEF PoolInv, PoolAccounted
  <2>5. \A x \in Worker : call'[x].conn # None <=> call'[x].at \in {"body", "commit", "exit"}
    BY <2>1, <2>2 DEF PoolInv, PoolAccounted
  <2> QED  BY <2>3, <2>4, <2>5, <1>0 DEF PoolInv, PoolAccounted
<1>5. CleanHandover'
  BY <1>0 DEF PoolInv, CleanHandover, Returned, RolledBack
<1> QED  BY <1>3, <1>4, <1>5 DEF PoolInv

\* Every step of a thread keeps the pool accounted for.
LEMMA CallStepKeepsPool ==
    ASSUME PoolInv, NEW w \in Worker, CallStep(w)
    PROVE  PoolInv'
BY LookKeepsPool, AcquireKeepsPool, StatementKeepsPool, LeaveKeepsPool DEF CallStep

\* What lifespan() does to the pool; it opens one only while none is lent from.
LEMMA LifespanKeepsPool ==
    ASSUME PoolInv,
           \/ InitPool /\ \A w \in Worker : call[w] = Idle
           \/ ShutPool \/ ForgetPool
    PROVE  PoolInv'
<1>0. UNCHANGED <<lent, tx, call>>
  BY DEF InitPool, ShutPool, ForgetPool
<1>1. pool' \in {"absent", "open", "shut"} /\ named' \in BOOLEAN
  BY DEF InitPool, ShutPool, ForgetPool, PoolInv, PoolTypeOK
<1>2. pool' # "open" => \A s \in Slot : lent[s] = None
  <2>1. CASE InitPool /\ \A w \in Worker : call[w] = Idle
    BY <2>1, CallStates, ConstantsApart DEF PoolInv, PoolTypeOK, PoolAccounted
  <2>2. CASE ShutPool
    BY <2>2 DEF PoolInv, PoolAccounted, ShutPool, CloseRefused
  <2>3. CASE ForgetPool
    BY <2>3 DEF PoolInv, PoolAccounted, ForgetPool
  <2> QED  BY <2>1, <2>2, <2>3
<1> QED  BY <1>0, <1>1, <1>2 DEF PoolInv, PoolTypeOK, PoolAccounted, CleanHandover

-----------------------------------------------------------------------------
(* The requests.                                                           *)

LEMMA WorkersAreRequests == Worker = Request /\ None \notin Endpoint /\ MaxChunks \in Nat
BY ServerAssumption

\* The stages a request moves to once it has arrived.
LaterStage == Stage \ {"new", "tools"}

LEMMA RecordAt ==
    ASSUME RequestInv, NEW r \in Request, NEW stage \in Stage
    PROVE  /\ At(r, stage) \in RequestState
           /\ At(r, stage).pc = stage
           /\ At(r, stage).cut = req[r].cut
           /\ At(r, stage).kind = IF stage \in {"done", "gone"} THEN None ELSE req[r].kind
<1>0. req[r] \in RequestState
  BY DEF RequestInv
<1>1. CASE stage \in {"done", "gone"}
  BY <1>0, <1>1 DEF At, Request0, RequestState, Stage
<1>2. CASE stage \notin {"done", "gone"}
  BY <1>0, <1>2 DEF At, RequestState
<1> QED  BY <1>1, <1>2

\* The process is not stopping under the requests it has, and forgets no graph.
Steady == /\ Up => Up'
          /\ \A a \in App : bound[a] # None => bound'[a] # None

\* One request moves and the others stay what they are.
LEMMA OneMoves ==
    ASSUME RequestInv, Steady, NEW r \in Request, NEW q \in RequestState,
           req' = [req EXCEPT ![r] = q], q.pc # "tools",
           q.pc \notin {"new", "done", "gone"} => Up' /\ q.kind \in Endpoint,
           q.pc \in {"new", "done", "gone"} => q.kind = None,
           q.pc \in {"query", "run"} => bound'[AppOf(q.kind)] # None
    PROVE  /\ RequestInv'
           /\ req'[r] = q
           /\ \A x \in Request \ {r} : req'[x] = req[x]
<1>1. req' \in [Request -> RequestState] /\ req'[r] = q
      /\ \A x \in Request \ {r} : req'[x] = req[x]
  BY DEF RequestInv
<1>2. RequestOK(r)'
  BY <1>1 DEF RequestOK, InFlight
<1>3. ASSUME NEW x \in Request \ {r}
      PROVE  RequestOK(x)'
  <2>1. req'[x] = req[x] /\ RequestOK(x)
    BY <1>1 DEF RequestInv
  <2>2. req[x].kind \in Endpoint => AppOf(req[x].kind) \in App
    BY DEF Endpoint, App, AppOf
  <2>3. req[x].pc \in {"query", "run"} => InFlight(x)
    BY DEF InFlight
  <2> QED  BY <2>1, <2>2, <2>3 DEF RequestOK, InFlight, Steady
<1> QED  BY <1>1, <1>2, <1>3 DEF RequestInv

\* A request whose thread is back enters a stage.
LEMMA Entered ==
    ASSUME RequestInv, ThreadsOfRequests, PoolInv, Steady,
           NEW r \in Request, NEW stage \in LaterStage, InFlight(r), ~Active(r),
           Enter(r, stage),
           stage \in {"query", "run"} => bound'[AppOf(req[r].kind)] # None
    PROVE  /\ RequestInv' /\ ThreadsOfRequests' /\ PoolInv'
           /\ req'[r].pc = stage
           /\ \A x \in Request \ {r} : req'[x] = req[x]
<1> DEFINE c == IF stage \in DbStage THEN Started(stage = "save") ELSE Idle
           q == At(r, stage)
<1>1. q \in RequestState /\ q.pc = stage
      /\ q.kind = IF stage \in {"done", "gone"} THEN None ELSE req[r].kind
  BY RecordAt DEF LaterStage
<1>2. Up' /\ req[r].kind \in Endpoint
  BY DEF RequestInv, RequestOK, Steady
<1>3. req' = [req EXCEPT ![r] = q] /\ call' = [call EXCEPT ![r] = c]
      /\ UNCHANGED <<pool, named, lent, tx>>
  BY DEF Enter
<1>4. RequestInv' /\ req'[r] = q /\ \A x \in Request \ {r} : req'[x] = req[x]
  <2> HIDE DEF q
  <2> QED  BY <1>1, <1>2, <1>3, OneMoves DEF LaterStage
<1>5. c \in CallState /\ c.conn = None /\ c.at \in {"none", "look"}
      /\ (stage \notin DbStage => c.at = "none")
  BY CallStates
<1>6. call[r].conn = None
  BY WorkersAreRequests DEF PoolInv, PoolAccounted, Active
<1> HIDE DEF c, q
<1>7. PoolInv'
  BY <1>3, <1>5, <1>6, CallReplaced, WorkersAreRequests
<1>8. ThreadsOfRequests'
  <2>1. call'[r] = c /\ \A x \in Request \ {r} : call'[x] = call[x]
    BY <1>3, WorkersAreRequests DEF PoolInv, PoolTypeOK
  <2> QED  BY <2>1, <1>1, <1>4, <1>5 DEF ThreadsOfRequests, Active
<1> QED  BY <1>1, <1>4, <1>7, <1>8

\* The thread of a request that awaits no thread is back.
LEMMA ThreadIsBack ==
    ASSUME ThreadsOfRequests, NEW r \in Request,
           req[r].pc \notin DbStage \cup {"gone"} \/ Returns(r)
    PROVE  ~Active(r)
BY DEF ThreadsOfRequests, Returns, Active

-----------------------------------------------------------------------------
(* The life of the process.                                                *)

\* A step of a request or a thread that leaves the process as it is.
LEMMA LifeStays ==
    ASSUME LifeInv, UNCHANGED bootVars, phase # "down"
    PROVE  LifeInv' /\ Steady
BY DEF LifeInv, BootTypeOK, Fresh, ConfiguredSaver, bootVars, Steady, Up

\* A process that is gone.
LEMMA LifeOver ==
    ASSUME LifeInv, ProcessLost
    PROVE  LifeInv'
BY DEF LifeInv, BootTypeOK, Fresh, ProcessLost, PoolLost, Phase, App

\* While requests run, the checkpointer they share is the configured one.
LEMMA SaverWhenUp ==
    ASSUME LifeInv, Up
    PROVE  /\ saver = ConfiguredSaver /\ ConfiguredSaver # None /\ SafeSaver = saver
           /\ saverOpen /\ asking = {}
           /\ \A a \in App : bound[a] \in {None, ConfiguredSaver}
           /\ ConfiguredSaver \in Saver
           /\ McpEnabled => tools # None
           /\ ToolsAtOnce # None
<1>1. ConfiguredSaver \in Saver /\ ConfiguredSaver # None
  BY NoneAssumption DEF ConfiguredSaver, Saver
<1>2. "empty" # None
  BY NoneAssumption DEF ToolList
<1> QED  BY <1>1, <1>2 DEF LifeInv, Up, SafeSaver, ToolsAtOnce

-----------------------------------------------------------------------------
(* The event stream.                                                       *)

\* The lines of a block are the lines the stream has at its place.
LEMMA LinesOfBlock ==
    ASSUME NEW i \in Nat
    PROVE  /\ LineAt(3 * i + 1) = Line("event", i + 1)
           /\ LineAt(3 * i + 2) = Line("data", i + 1)
           /\ LineAt(3 * i + 3) = BlankLine
<1>1. (3 * i + 1) % 3 = 1 /\ (3 * i + 1 + 2) \div 3 = i + 1
  OBVIOUS
<1>2. (3 * i + 2) % 3 = 2 /\ (3 * i + 2 + 1) \div 3 = i + 1
  OBVIOUS
<1>3. (3 * i + 3) % 3 = 0
  OBVIOUS
<1> QED  BY <1>1, <1>2, <1>3 DEF LineAt

\* An event or a data line is not blank.
LEMMA LinesApart ==
    ASSUME NEW i
    PROVE  /\ Line("event", i) # BlankLine /\ Line("data", i) # BlankLine
           /\ Line("event", i).part = "event" /\ Line("event", i).of = i
           /\ Line("data", i).part = "data" /\ Line("data", i).of = i
           /\ BlankLine.part = "blank"
BY DEF Line, BlankLine

\* The events of an answer or of an error.
LEMMA PlannedEvents ==
    /\ ErrorEvents \in Seq({"chunk", "done", "error"}) /\ Len(ErrorEvents) <= MaxChunks + 1
    /\ \A n \in 0 .. MaxChunks :
          /\ AnswerEvents(n) \in Seq({"chunk", "done", "error"})
          /\ Len(AnswerEvents(n)) <= MaxChunks + 1
<1>1. MaxChunks \in Nat
  BY WorkersAreRequests
<1>2. ErrorEvents \in Seq({"chunk", "done", "error"}) /\ Len(ErrorEvents) = 1
  BY DEF ErrorEvents
<1>3. ASSUME NEW n \in 0 .. MaxChunks
      PROVE  /\ AnswerEvents(n) \in Seq({"chunk", "done", "error"})
             /\ Len(AnswerEvents(n)) = n + 1
  <2>1. n + 1 \in Nat
    BY <1>1
  <2>2. AnswerEvents(n) \in [1 .. n + 1 -> {"chunk", "done", "error"}]
    BY DEF AnswerEvents
  <2>3. AnswerEvents(n) \in Seq({"chunk", "done", "error"})
    BY <2>1, <2>2, SeqDef
  <2>4. DOMAIN AnswerEvents(n) = 1 .. n + 1 /\ Len(AnswerEvents(n)) \in Nat
        /\ DOMAIN AnswerEvents(n) = 1 .. Len(AnswerEvents(n))
    BY <2>2, <2>3, LenProperties
  <2> QED  BY <2>1, <2>3, <2>4
<1> QED  BY <1>1, <1>2, <1>3

\* The three lines of an event.
LEMMA LinesOfEvent ==
    ASSUME NEW i \in 0 .. MaxChunks
    PROVE  /\ SseEvent(i + 1) \in Seq(Lines) /\ Len(SseEvent(i + 1)) = 3
           /\ Follows(SseEvent(i + 1), 3 * i)
<1>0. i \in Nat /\ i + 1 \in 0 .. MaxChunks + 1 /\ 0 \in 0 .. MaxChunks + 1
  BY WorkersAreRequests
<1>1. Line("event", i + 1) \in Lines /\ Line("data", i + 1) \in Lines /\ BlankLine \in Lines
  BY <1>0 DEF Lines, Line, BlankLine
<1>2. SseEvent(i + 1) \in Seq(Lines) /\ Len(SseEvent(i + 1)) = 3
      /\ SseEvent(i + 1)[1] = Line("event", i + 1)
      /\ SseEvent(i + 1)[2] = Line("data", i + 1) /\ SseEvent(i + 1)[3] = BlankLine
  BY <1>1 DEF SseEvent
<1>3. \A k \in 1 .. 3 : k = 1 \/ k = 2 \/ k = 3
  OBVIOUS
<1>4. \A k \in 1 .. 3 : SseEvent(i + 1)[k] = LineAt(3 * i + k)
  BY <1>0, <1>2, <1>3, LinesOfBlock
<1> QED  BY <1>2, <1>4 DEF Follows

\* An event is put behind the lines on the way.
LEMMA WireGrows ==
    ASSUME NEW c \in Nat, NEW i \in Nat, NEW w \in Seq(Lines), NEW e \in Seq(Lines),
           Len(e) = 3, Follows(e, 3 * i), Follows(w, c), c + Len(w) = 3 * i
    PROVE  /\ w \o e \in Seq(Lines) /\ Len(w \o e) = Len(w) + 3
           /\ Follows(w \o e, c)
<1> DEFINE n == Len(w)
           l == w \o e
<1>0. n \in Nat
  BY LenProperties
<1>1. /\ l \in Seq(Lines) /\ Len(l) = n + 3
      /\ \A k \in 1 .. n : l[k] = w[k]
      /\ \A k \in n + 1 .. n + 3 : l[k] = e[k - n]
  <2>1. /\ l \in Seq(Lines) /\ Len(l) = n + Len(e)
        /\ \A k \in 1 .. n + Len(e) : l[k] = IF k <= n THEN w[k] ELSE e[k - n]
    BY ConcatProperties
  <2> HIDE DEF l, n
  <2> QED  BY <2>1, <1>0
<1> HIDE DEF l
<1>2. ASSUME NEW k \in 1 .. n
      PROVE  l[k] = LineAt(c + k)
  BY <1>1 DEF Follows
<1>3. ASSUME NEW k \in n + 1 .. n + 3
      PROVE  l[k] = LineAt(c + k)
  <2>1. k - n \in 1 .. 3 /\ 3 * i + (k - n) = c + k
    BY <1>0
  <2>2. e[k - n] = LineAt(3 * i + (k - n))
    BY <2>1 DEF Follows
  <2> QED  BY <2>1, <2>2, <1>1
<1>4. \A k \in 1 .. n + 3 : k \in 1 .. n \/ k \in n + 1 .. n + 3
  BY <1>0
<1>5. Follows(l, c)
  BY <1>1, <1>2, <1>3, <1>4 DEF Follows
<1> QED  BY <1>1, <1>5 DEF l

\* A piece of the stream is read.
LEMMA PieceRead ==
    ASSUME NEW c \in Nat, NEW b \in Seq(Lines), NEW w \in Seq(Lines),
           NEW m \in 1 .. Len(w), Follows(b, c), Follows(w, c + Len(b))
    PROVE  /\ b \o SubSeq(w, 1, m) \in Seq(Lines)
           /\ Len(b \o SubSeq(w, 1, m)) = Len(b) + m
           /\ Follows(b \o SubSeq(w, 1, m), c)
           /\ SubSeq(w, m + 1, Len(w)) \in Seq(Lines)
           /\ Len(SubSeq(w, m + 1, Len(w))) = Len(w) - m
           /\ Follows(SubSeq(w, m + 1, Len(w)), c + (Len(b) + m))
<1> DEFINE p == SubSeq(w, 1, m)
           q == SubSeq(w, m + 1, Len(w))
           n == Len(b)
           l == b \o p
<1>0. Len(w) \in Nat /\ n \in Nat /\ m \in Nat /\ 1 <= m /\ m <= Len(w)
  BY LenProperties
<1>1. p \in Seq(Lines) /\ Len(p) = m /\ \A k \in 1 .. m : p[k] = w[k]
  BY <1>0, SubSeqProperties, ElementOfSeq
<1>2. /\ q \in Seq(Lines) /\ Len(q) = Len(w) - m
      /\ \A k \in 1 .. Len(w) - m : q[k] = w[m + k]
  BY <1>0, SubSeqProperties, ElementOfSeq
<1> HIDE DEF p, q
<1>3. /\ l \in Seq(Lines) /\ Len(l) = n + m
      /\ \A k \in 1 .. n : l[k] = b[k]
      /\ \A k \in n + 1 .. n + m : l[k] = p[k - n]
  <2>1. /\ l \in Seq(Lines) /\ Len(l) = n + Len(p)
        /\ \A k \in 1 .. n + Len(p) : l[k] = IF k <= n THEN b[k] ELSE p[k - n]
    BY <1>1, ConcatProperties
  <2> HIDE DEF l, n
  <2> QED  BY <2>1, <1>0, <1>1
<1> HIDE DEF l
<1>4. ASSUME NEW k \in 1 .. n
      PROVE  l[k] = LineAt(c + k)
  BY <1>3 DEF Follows
<1>5. ASSUME NEW k \in n + 1 .. n + m
      PROVE  l[k] = LineAt(c + k)
  <2>1. k - n \in 1 .. m /\ k - n \in 1 .. Len(w) /\ c + n + (k - n) = c + k
    BY <1>0
  <2>2. w[k - n] = LineAt(c + n + (k - n))
    BY <2>1 DEF Follows
  <2> QED  BY <2>1, <2>2, <1>1, <1>3
<1>6. \A k \in 1 .. n + m : k \in 1 .. n \/ k \in n + 1 .. n + m
  BY <1>0
<1>7. Follows(l, c)
  BY <1>3, <1>4, <1>5, <1>6 DEF Follows
<1>8. ASSUME NEW k \in 1 .. Len(w) - m
      PROVE  q[k] = LineAt(c + (n + m) + k)
  <2>1. m + k \in 1 .. Len(w) /\ c + n + (m + k) = c + (n + m) + k
    BY <1>0
  <2>2. w[m + k] = LineAt(c + n + (m + k))
    BY <2>1 DEF Follows
  <2> QED  BY <2>1, <2>2, <1>2
<1>9. Follows(q, c + (n + m))
  BY <1>2, <1>8 DEF Follows
<1> QED  BY <1>2, <1>3, <1>7, <1>9 DEF l, p, q

\* The first blank line in the reader's buffer ends the next event.
LEMMA FirstBlock ==
    ASSUME NEW g \in Nat, NEW b \in Seq(Lines), BlankAt(b) # {}, Follows(b, 3 * g)
    PROVE  /\ Len(b) >= 3
           /\ (CHOOSE i \in BlankAt(b) : \A j \in BlankAt(b) : i <= j) = 3
           /\ b[1] = Line("event", g + 1) /\ b[2] = Line("data", g + 1)
<1>0. Len(b) \in Nat
  BY LenProperties
<1>1. ASSUME NEW i \in BlankAt(b)
      PROVE  i \in Int /\ i >= 3 /\ i <= Len(b)
  <2>1. i \in 1 .. Len(b) /\ b[i] = BlankLine
    BY DEF BlankAt
  <2>2. LineAt(3 * g + i) = BlankLine
    BY <2>1 DEF Follows
  <2>3. ASSUME i = 1  PROVE FALSE
    BY <2>2, <2>3, LinesOfBlock, LinesApart
  <2>4. ASSUME i = 2  PROVE FALSE
    BY <2>2, <2>4, LinesOfBlock, LinesApart
  <2> QED  BY <2>1, <2>3, <2>4, <1>0
<1>2. Len(b) >= 3
  BY <1>0, <1>1
<1>3. 1 \in 1 .. Len(b) /\ 2 \in 1 .. Len(b) /\ 3 \in 1 .. Len(b)
  BY <1>0, <1>2
<1>4. b[1] = Line("event", g + 1) /\ b[2] = Line("data", g + 1) /\ b[3] = BlankLine
  BY <1>3, LinesOfBlock, Zenon DEF Follows
<1>5. 3 \in BlankAt(b)
  BY <1>3, <1>4 DEF BlankAt
<1>6. (CHOOSE i \in BlankAt(b) : \A j \in BlankAt(b) : i <= j) = 3
  <2> DEFINE cut == CHOOSE i \in BlankAt(b) : \A j \in BlankAt(b) : i <= j
  <2>1. \E i \in BlankAt(b) : \A j \in BlankAt(b) : i <= j
    BY <1>1, <1>5
  <2>2. cut \in BlankAt(b) /\ \A j \in BlankAt(b) : cut <= j
    BY <2>1, Zenon
  <2> HIDE DEF cut
  <2>3. cut = 3
    BY <2>2, <1>1, <1>5
  <2> QED  BY <2>3 DEF cut
<1> QED  BY <1>2, <1>4, <1>6

\* The reader restores the event whose lines it has cut off.
LEMMA BlockParsed ==
    ASSUME NEW n \in Nat
    PROVE  ParseBlock(<<Line("event", n), Line("data", n)>>) = << <<n, n>> >>
<1> DEFINE b == <<Line("event", n), Line("data", n)>>
           last(part) == {i \in 1 .. Len(b) : b[i].part = part
                             /\ \A j \in i + 1 .. Len(b) : b[j].part # part}
<1>1. Len(b) = 2 /\ b[1].part = "event" /\ b[2].part = "data"
      /\ b[1].of = n /\ b[2].of = n
  BY LinesApart
<1> HIDE DEF b
<1>2. last("event") = {1} /\ last("data") = {2}
  BY <1>1
<1>3. (CHOOSE i \in last("event") : TRUE) = 1 /\ (CHOOSE i \in last("data") : TRUE) = 2
  BY <1>2
<1>4. ParseBlock(b) = IF last("event") = {} \/ last("data") = {} THEN <<>>
        ELSE <<<<b[CHOOSE i \in last("event") : TRUE].of,
                 b[CHOOSE i \in last("data") : TRUE].of>>>>
  BY DEF ParseBlock
<1> HIDE DEF last
<1>5. ParseBlock(b) = << <<n, n>> >>
  BY <1>1, <1>2, <1>3, <1>4
<1> QED  BY <1>5 DEF b

\* The parts of a stream.
Plans == Seq({"chunk", "done", "error"})
Restored == Seq((0 .. MaxChunks + 1) \X (0 .. MaxChunks + 1))

\* A stream that is empty on the wire and in the reader.
LEMMA EmptyStream ==
    ASSUME NEW p \in Plans, Len(p) <= MaxChunks + 1
    PROVE  Sound(p, 0, <<>>, <<>>, <<>>) /\ Whole(0, <<>>, <<>>, <<>>)
<1>1. Len(<<>>) = 0 /\ Len(p) \in Nat
  BY EmptySeq, LenProperties DEF Plans
<1> QED  BY <1>1 DEF Sound, Whole, Follows

\* What is on the wire is lost.
LEMMA WireLost ==
    ASSUME NEW p \in Plans, NEW s \in Nat, NEW w \in Seq(Lines), NEW b \in Seq(Lines),
           NEW g \in Restored, Sound(p, s, w, b, g)
    PROVE  Sound(p, s, <<>>, b, g)
<1>1. /\ Len(<<>>) = 0 /\ Len(p) \in Nat /\ Len(w) \in Nat /\ Len(b) \in Nat
      /\ Len(g) \in Nat
  BY EmptySeq, LenProperties DEF Plans, Restored
<1>2. Follows(<<>>, 3 * Len(g) + Len(b))
  BY <1>1 DEF Follows
<1> QED  BY <1>1, <1>2 DEF Sound

\* An event is yielded.
LEMMA EventSent ==
    ASSUME NEW p \in Plans, NEW s \in Nat, NEW w \in Seq(Lines), NEW b \in Seq(Lines),
           NEW g \in Restored, Sound(p, s, w, b, g), Whole(s, w, b, g), s # Len(p)
    PROVE  /\ s + 1 \in 0 .. MaxChunks + 1 /\ w \o SseEvent(s + 1) \in Seq(Lines)
           /\ Sound(p, s + 1, w \o SseEvent(s + 1), b, g)
           /\ Whole(s + 1, w \o SseEvent(s + 1), b, g)
<1>1. /\ Len(p) \in Nat /\ Len(w) \in Nat /\ Len(b) \in Nat /\ Len(g) \in Nat
      /\ MaxChunks \in Nat
  BY LenProperties, WorkersAreRequests DEF Plans, Restored
<1>2. s < Len(p) /\ s \in 0 .. MaxChunks /\ s + 1 \in 0 .. MaxChunks + 1
  BY <1>1 DEF Sound
<1> DEFINE e == SseEvent(s + 1)
           c == 3 * Len(g) + Len(b)
<1>3. e \in Seq(Lines) /\ Len(e) = 3 /\ Follows(e, 3 * s)
  BY <1>2, LinesOfEvent
<1>4. c \in Nat /\ c + Len(w) = 3 * s /\ Follows(w, c)
  BY <1>1 DEF Sound, Whole
<1>5. w \o e \in Seq(Lines) /\ Len(w \o e) = Len(w) + 3 /\ Follows(w \o e, c)
  <2> HIDE DEF e, c
  <2> QED  BY <1>3, <1>4, WireGrows
<1> HIDE DEF e
<1>6. 3 * Len(g) + Len(b) + Len(w \o e) = 3 * (s + 1)
  <2> HIDE DEF c
  <2>1. Len(w \o e) \in Nat /\ c + Len(w \o e) = 3 * (s + 1)
    BY <1>1, <1>4, <1>5
  <2> QED  BY <2>1 DEF c
<1>7. Sound(p, s + 1, w \o e, b, g) /\ Whole(s + 1, w \o e, b, g)
  <2>1. s + 1 <= Len(p) /\ 3 * (s + 1) <= 3 * (s + 1)
    BY <1>1, <1>2
  <2>2. Sound(p, s + 1, w \o e, b, g)
    BY <2>1, <1>5, <1>6 DEF Sound
  <2> QED  BY <2>2, <1>6 DEF Whole
<1> QED  BY <1>2, <1>5, <1>7 DEF e

\* A piece of m lines is received.
LEMMA PieceReceived ==
    ASSUME NEW p \in Plans, NEW s \in Nat, NEW w \in Seq(Lines), NEW b \in Seq(Lines),
           NEW g \in Restored, Sound(p, s, w, b, g), NEW m \in 1 .. Len(w)
    PROVE  LET b2 == b \o SubSeq(w, 1, m)
               w2 == SubSeq(w, m + 1, Len(w))
           IN  /\ b2 \in Seq(Lines) /\ w2 \in Seq(Lines)
               /\ Sound(p, s, w2, b2, g)
               /\ Whole(s, w, b, g) => Whole(s, w2, b2, g)
<1> DEFINE b2 == b \o SubSeq(w, 1, m)
           w2 == SubSeq(w, m + 1, Len(w))
           c == 3 * Len(g)
<1>1. /\ Len(w) \in Nat /\ Len(b) \in Nat /\ Len(g) \in Nat /\ c \in Nat
      /\ Follows(b, c) /\ Follows(w, c + Len(b))
  BY LenProperties DEF Plans, Restored, Sound
<1>2. /\ b2 \in Seq(Lines) /\ Len(b2) = Len(b) + m /\ Follows(b2, c)
      /\ w2 \in Seq(Lines) /\ Len(w2) = Len(w) - m /\ Follows(w2, c + (Len(b) + m))
  <2> HIDE DEF c
  <2> QED  BY <1>1, PieceRead
<1> HIDE DEF b2, w2
<1>3. c + Len(b2) + Len(w2) = c + Len(b) + Len(w)
  <2> HIDE DEF c
  <2> QED  BY <1>1, <1>2
<1>4. Sound(p, s, w2, b2, g)
  <2>1. Len(b2) = Len(b) + m
    BY <1>2
  <2>2. Follows(b2, c) /\ Follows(w2, c + Len(b2))
    BY <2>1, <1>2
  <2> QED  BY <2>2, <1>3 DEF Sound
<1>5. Whole(s, w, b, g) => Whole(s, w2, b2, g)
  BY <1>3 DEF Whole
<1> QED  BY <1>2, <1>4, <1>5 DEF b2, w2

\* A block is cut off the buffer.
LEMMA BlockCut ==
    ASSUME NEW p \in Plans, NEW s \in 0 .. MaxChunks + 1, NEW w \in Seq(Lines),
           NEW b \in Seq(Lines), NEW g \in Restored, Sound(p, s, w, b, g),
           BlankAt(b) # {}
    PROVE  LET cut == CHOOSE i \in BlankAt(b) : \A j \in BlankAt(b) : i <= j
               g2 == g \o ParseBlock(SubSeq(b, 1, cut - 1))
               b2 == SubSeq(b, cut + 1, Len(b))
           IN  /\ b2 \in Seq(Lines) /\ g2 \in Restored
               /\ Sound(p, s, w, b2, g2)
               /\ Whole(s, w, b, g) => Whole(s, w, b2, g2)
<1> DEFINE cut == CHOOSE i \in BlankAt(b) : \A j \in BlankAt(b) : i <= j
           n == Len(g)
           e == << <<n + 1, n + 1>> >>
           g2 == g \o e
           b2 == SubSeq(b, 4, Len(b))
<1>1. /\ Len(w) \in Nat /\ Len(b) \in Nat /\ n \in Nat /\ MaxChunks \in Nat
      /\ Follows(b, 3 * n) /\ Follows(w, 3 * n + Len(b))
      /\ 3 * n + Len(b) + Len(w) <= 3 * s /\ \A i \in 1 .. n : g[i] = <<i, i>>
  BY LenProperties, WorkersAreRequests DEF Plans, Restored, Sound
<1>2. Len(b) >= 3 /\ cut = 3 /\ b[1] = Line("event", n + 1) /\ b[2] = Line("data", n + 1)
  <2> HIDE DEF n
  <2> QED  BY <1>1, FirstBlock
<1>3. SubSeq(b, 1, cut - 1) = <<Line("event", n + 1), Line("data", n + 1)>>
  <2>1. cut - 1 = 2
    BY <1>2
  <2> DEFINE h == SubSeq(b, 1, 2)
  <2>2. h \in Seq(Lines) /\ Len(h) = 2 /\ \A i \in 1 .. 2 : h[i] = b[i]
    BY <1>1, <1>2, SubSeqProperties, ElementOfSeq
  <2> HIDE DEF h, n
  <2>3. Len(h) = 2 /\ h[1] = Line("event", n + 1) /\ h[2] = Line("data", n + 1)
    BY <2>2, <1>2
  <2>4. h = <<Line("event", n + 1), Line("data", n + 1)>>
    BY <2>2, <2>3
  <2> QED  BY <2>1, <2>4 DEF h
<1>4. ParseBlock(SubSeq(b, 1, cut - 1)) = e
  <2>1. n + 1 \in Nat
    BY <1>1
  <2>2. ParseBlock(<<Line("event", n + 1), Line("data", n + 1)>>) = e
    BY <2>1, BlockParsed
  <2> QED  BY <2>2, <1>3, Zenon
<1>5. b2 \in Seq(Lines) /\ Len(b2) = Len(b) - 3 /\ \A k \in 1 .. Len(b) - 3 : b2[k] = b[3 + k]
  <2>1. /\ b2 \in Seq(Lines) /\ Len(b2) = IF 4 <= Len(b) THEN Len(b) - 4 + 1 ELSE 0
        /\ \A k \in 1 .. Len(b) - 4 + 1 : b2[k] = b[4 + k - 1]
    <3>1. \A i \in 4 .. Len(b) : b[i] \in Lines
      BY <1>1, ElementOfSeq
    <3> QED  BY <3>1, <1>1, SubSeqProperties
  <2> HIDE DEF b2
  <2>2. Len(b2) = Len(b) - 3
    <3> DEFINE l == Len(b)   l2 == Len(b2)
    <3>1. l \in Nat /\ l >= 3 /\ l2 = IF 4 <= l THEN l - 4 + 1 ELSE 0
      BY <2>1, <1>1, <1>2
    <3> HIDE DEF l, l2
    <3>2. l2 = l - 3
      BY <3>1
    <3> QED  BY <3>2 DEF l, l2
  <2>3. \A k \in 1 .. Len(b) - 3 : k \in 1 .. Len(b) - 4 + 1 /\ 4 + k - 1 = 3 + k
    BY <1>1
  <2> QED  BY <2>1, <2>2, <2>3
<1>6. n + 1 \in 0 .. MaxChunks + 1
  <2> DEFINE l == Len(b)   v == Len(w)
  <2>1. /\ n \in Nat /\ l \in Nat /\ v \in Nat /\ MaxChunks \in Nat /\ l >= 3
        /\ 3 * n + l + v <= 3 * s /\ s <= MaxChunks + 1 /\ s \in Nat
    BY <1>1, <1>2
  <2> HIDE DEF n, l, v
  <2> QED  BY <2>1
<1>7. g2 \in Restored /\ Len(g2) = n + 1 /\ \A i \in 1 .. n + 1 : g2[i] = <<i, i>>
  <2>1. e \in Restored /\ Len(e) = 1 /\ e[1] = <<n + 1, n + 1>>
    BY <1>6 DEF Restored
  <2> HIDE DEF e
  <2>2. /\ g2 \in Restored /\ Len(g2) = n + Len(e)
        /\ \A i \in 1 .. n + Len(e) : g2[i] = IF i <= n THEN g[i] ELSE e[i - n]
    BY <2>1, ConcatProperties DEF Restored
  <2> HIDE DEF g2, n
  <2> QED  BY <2>1, <2>2, <1>1
<1> HIDE DEF b2, g2, cut
<1>8. Follows(b2, 3 * Len(g2))
  <2>1. ASSUME NEW k \in 1 .. Len(b2)
        PROVE  b2[k] = LineAt(3 * Len(g2) + k)
    <3>1. 3 + k \in 1 .. Len(b) /\ 3 * n + (3 + k) = 3 * Len(g2) + k
          /\ k \in 1 .. Len(b) - 3
      BY <1>1, <1>2, <1>5, <1>7
    <3>2. b[3 + k] = LineAt(3 * n + (3 + k))
      BY <1>1, <3>1 DEF Follows
    <3> QED  BY <3>1, <3>2, <1>5
  <2> QED  BY <2>1 DEF Follows
<1>9. 3 * Len(g2) + Len(b2) = 3 * n + Len(b) /\ Len(b2) \in Nat /\ Len(g2) \in Nat
  BY <1>1, <1>2, <1>5, <1>7
<1>10. Sound(p, s, w, b2, g2)
  BY <1>1, <1>7, <1>8, <1>9 DEF Sound
<1>11. Whole(s, w, b, g) => Whole(s, w, b2, g2)
  BY <1>1, <1>9 DEF Whole
<1>12. b2 = SubSeq(b, cut + 1, Len(b))
  BY <1>2 DEF b2
<1> QED  BY <1>4, <1>5, <1>7, <1>10, <1>11, <1>12 DEF cut, g2

\* What a stream is, typed.
LEMMA StreamTypes ==
    ASSUME StreamInv, NEW r \in Request
    PROVE  /\ plan[r] \in Plans /\ sent[r] \in 0 .. MaxChunks + 1 /\ sent[r] \in Nat
           /\ wire[r] \in Seq(Lines) /\ buffer[r] \in Seq(Lines) /\ got[r] \in Restored
           /\ Sound(plan[r], sent[r], wire[r], buffer[r], got[r])
<1>1. /\ plan[r] \in Plans /\ sent[r] \in 0 .. MaxChunks + 1
      /\ wire[r] \in Seq(Lines) /\ buffer[r] \in Seq(Lines) /\ got[r] \in Restored
  BY DEF StreamInv, StreamTypeOK, Plans, Restored
<1>2. sent[r] \in Nat
  BY <1>1, WorkersAreRequests
<1> QED  BY <1>1, <1>2 DEF StreamInv, StreamOK

\* A step that changes the stream of one request, and moves no other request.
LEMMA OneStream ==
    ASSUME StreamInv, NEW r \in Request, NEW p \in Plans, NEW s \in 0 .. MaxChunks + 1,
           NEW w \in Seq(Lines), NEW b \in Seq(Lines), NEW g \in Restored,
           plan' = [plan EXCEPT ![r] = p], sent' = [sent EXCEPT ![r] = s],
           wire' = [wire EXCEPT ![r] = w], buffer' = [buffer EXCEPT ![r] = b],
           got' = [got EXCEPT ![r] = g],
           Sound(p, s, w, b, g), \A x \in Request \ {r} : req'[x] = req[x],
           Sending(req'[r].pc, s, w, b, g)
    PROVE  StreamInv'
<1>1. StreamTypeOK'
  BY DEF StreamInv, StreamTypeOK, Plans, Restored
<1>2. plan'[r] = p /\ sent'[r] = s /\ wire'[r] = w /\ buffer'[r] = b /\ got'[r] = g
  BY DEF StreamInv, StreamTypeOK
<1>3. StreamOK(r)' /\ SendingOK(r)'
  BY <1>2 DEF StreamOK, SendingOK
<1>4. ASSUME NEW x \in Request \ {r}
      PROVE  StreamOK(x)' /\ SendingOK(x)'
  <2>1. /\ plan'[x] = plan[x] /\ sent'[x] = sent[x] /\ wire'[x] = wire[x]
        /\ buffer'[x] = buffer[x] /\ got'[x] = got[x] /\ req'[x] = req[x]
    BY DEF StreamInv, StreamTypeOK
  <2> QED  BY <2>1 DEF StreamInv, StreamOK, SendingOK
<1> QED  BY <1>1, <1>3, <1>4 DEF StreamInv

LEMMA SameStream ==
    ASSUME StreamInv, NEW r \in Request
    PROVE  /\ plan = [plan EXCEPT ![r] = plan[r]] /\ sent = [sent EXCEPT ![r] = sent[r]]
           /\ wire = [wire EXCEPT ![r] = wire[r]]
           /\ buffer = [buffer EXCEPT ![r] = buffer[r]] /\ got = [got EXCEPT ![r] = got[r]]
BY DEF StreamInv, StreamTypeOK

\* A step of a request whose stream it does not touch.
LEMMA StreamStays ==
    ASSUME StreamInv, UNCHANGED streamVars, NEW r \in Request,
           \A x \in Request \ {r} : req'[x] = req[x],
           \/ req[r].pc \notin {"stream", "done", "gone"}
           \/ req'[r].pc \in {"done", "gone"}
           \/ req'[r].pc = req[r].pc
    PROVE  StreamInv'
<1>1. UNCHANGED <<plan, sent, wire, buffer, got>>
  BY DEF streamVars
<1>2. SendingOK(r)
  BY DEF StreamInv
<1>3. CASE req[r].pc \notin {"stream", "done", "gone"}
  <2>1. sent[r] = 0 /\ wire[r] = <<>> /\ buffer[r] = <<>> /\ got[r] = <<>>
    BY <1>2, <1>3 DEF SendingOK, Sending
  <2>2. Whole(sent[r], wire[r], buffer[r], got[r])
    <3>1. <<>> \in Plans /\ Len(<<>>) <= MaxChunks + 1
      BY EmptySeq, WorkersAreRequests DEF Plans
    <3> QED  BY <2>1, <3>1, EmptyStream
  <2>3. Sending(req'[r].pc, sent[r], wire[r], buffer[r], got[r])
    BY <2>1, <2>2 DEF Sending
  <2> QED  BY <1>1, <2>3, StreamTypes, SameStream, OneStream
<1>4. CASE req'[r].pc \in {"done", "gone"} \/ req'[r].pc = req[r].pc
  <2>1. Sending(req'[r].pc, sent[r], wire[r], buffer[r], got[r])
    BY <1>2, <1>4 DEF SendingOK, Sending
  <2> QED  BY <1>1, <2>1, StreamTypes, SameStream, OneStream
<1> QED  BY <1>3, <1>4

\* A request begins to stream, with nothing of it on the way.
LEMMA StreamBegins ==
    ASSUME StreamInv, NEW r \in Request,
           \A x \in Request \ {r} : req'[x] = req[x],
           req[r].pc \notin {"stream", "done", "gone"},
           NEW events \in Plans, Len(events) <= MaxChunks + 1,
           plan' = [plan EXCEPT ![r] = events],
           sent' = [sent EXCEPT ![r] = sent[r]], wire' = [wire EXCEPT ![r] = wire[r]],
           buffer' = [buffer EXCEPT ![r] = buffer[r]], got' = [got EXCEPT ![r] = got[r]]
    PROVE  StreamInv'
<1>1. sent[r] = 0 /\ wire[r] = <<>> /\ buffer[r] = <<>> /\ got[r] = <<>>
  BY DEF StreamInv, SendingOK, Sending
<1>2. /\ Sound(events, sent[r], wire[r], buffer[r], got[r])
      /\ Whole(sent[r], wire[r], buffer[r], got[r])
  BY <1>1, EmptyStream
<1>3. Sending(req'[r].pc, sent[r], wire[r], buffer[r], got[r])
  BY <1>1, <1>2 DEF Sending
<1>4. /\ sent[r] \in 0 .. MaxChunks + 1 /\ wire[r] \in Seq(Lines)
      /\ buffer[r] \in Seq(Lines) /\ got[r] \in Restored
  BY StreamTypes
<1> QED  BY <1>2, <1>3, <1>4, OneStream

\* The client leaves, and its stream is forgotten.
LEMMA ReaderLeaves ==
    ASSUME StreamInv, NEW r \in Request, ReaderLost(r),
           \A x \in Request \ {r} : req'[x] = req[x]
    PROVE  StreamInv'
<1>1. <<>> \in Plans /\ <<>> \in Seq(Lines) /\ <<>> \in Restored
      /\ Len(<<>>) <= MaxChunks + 1 /\ 0 \in 0 .. MaxChunks + 1
  BY EmptySeq, WorkersAreRequests DEF Plans, Restored
<1>2. Sound(<<>>, 0, <<>>, <<>>, <<>>) /\ Whole(0, <<>>, <<>>, <<>>)
  BY <1>1, EmptyStream
<1>3. Sending(req'[r].pc, 0, <<>>, <<>>, <<>>)
  BY <1>2 DEF Sending
<1> QED  BY <1>1, <1>2, <1>3, OneStream DEF ReaderLost

\* The process dies: no request is answered any more.
LEMMA SenderDies ==
    ASSUME StreamInv, SenderLost,
           \A x \in Request : \/ req'[x].pc \in {"done", "gone"}
                              \/ req'[x].pc = "new" /\ req[x].pc = "new"
    PROVE  StreamInv'
<1>1. StreamTypeOK'
  BY EmptySeq DEF StreamInv, StreamTypeOK, SenderLost
<1>2. ASSUME NEW x \in Request
      PROVE  StreamOK(x)' /\ SendingOK(x)'
  <2>1. wire'[x] = <<>> /\ UNCHANGED <<plan, sent, buffer, got>>
    BY DEF SenderLost
  <2>2. Sound(plan[x], sent[x], <<>>, buffer[x], got[x]) /\ SendingOK(x)
    BY StreamTypes, WireLost DEF StreamInv
  <2> QED  BY <2>1, <2>2 DEF StreamOK, SendingOK, Sending
<1> QED  BY <1>1, <1>2 DEF StreamInv

\* One yield puts the lines of the next event behind those on the way.
LEMMA SendKeepsStream ==
    ASSUME StreamInv, NEW r \in Request, SendEvent(r), req[r].pc = "stream", req' = req
    PROVE  StreamInv'
<1>1. Whole(sent[r], wire[r], buffer[r], got[r]) /\ sent[r] # Len(plan[r])
  BY DEF StreamInv, SendingOK, Sending, SendEvent, AllSent
<1> DEFINE w == wire[r] \o SseEvent(sent[r] + 1)
<1>2. /\ sent[r] + 1 \in 0 .. MaxChunks + 1 /\ w \in Seq(Lines)
      /\ Sound(plan[r], sent[r] + 1, w, buffer[r], got[r])
      /\ Whole(sent[r] + 1, w, buffer[r], got[r])
  BY <1>1, StreamTypes, EventSent
<1>3. /\ sent' = [sent EXCEPT ![r] = sent[r] + 1] /\ wire' = [wire EXCEPT ![r] = w]
      /\ UNCHANGED <<plan, buffer, got>>
  BY DEF SendEvent
<1> DEFINE s == sent[r] + 1
<1> HIDE DEF w, s
<1>4. /\ plan' = [plan EXCEPT ![r] = plan[r]]
      /\ buffer' = [buffer EXCEPT ![r] = buffer[r]] /\ got' = [got EXCEPT ![r] = got[r]]
  BY <1>3, SameStream
<1>5. /\ plan[r] \in Plans /\ buffer[r] \in Seq(Lines) /\ got[r] \in Restored
      /\ s \in 0 .. MaxChunks + 1 /\ w \in Seq(Lines)
      /\ sent' = [sent EXCEPT ![r] = s] /\ wire' = [wire EXCEPT ![r] = w]
      /\ Sound(plan[r], s, w, buffer[r], got[r]) /\ Whole(s, w, buffer[r], got[r])
  BY <1>2, <1>3, StreamTypes DEF s
<1>6. Sending(req'[r].pc, s, w, buffer[r], got[r])
  BY <1>5 DEF Sending
<1> QED  BY <1>4, <1>5, <1>6, OneStream

\* A reader that has received or cut something was sent something.
LEMMA OnlyBegunStreams ==
    ASSUME StreamInv, NEW r \in Request, wire[r] # <<>> \/ buffer[r] # <<>>
    PROVE  req[r].pc \in {"stream", "done", "gone"}
BY DEF StreamInv, SendingOK, Sending

\* The network hands the reader a piece, and the reader cuts off a block.
LEMMA ReaderKeepsStream ==
    ASSUME StreamInv, NEW r \in Request, Deliver(r) \/ CutBlock(r), req' = req
    PROVE  StreamInv'
<1>0. SendingOK(r)
  BY DEF StreamInv
<1>1. CASE Deliver(r)
  <2>1. PICK k \in 1 .. Len(wire[r]) :
              /\ buffer' = [buffer EXCEPT ![r] = Received(r, k)]
              /\ wire' = [wire EXCEPT ![r] = SubSeq(@, k + 1, Len(@))]
    BY <1>1 DEF Deliver
  <2> DEFINE b == buffer[r] \o SubSeq(wire[r], 1, k)
             w == SubSeq(wire[r], k + 1, Len(wire[r]))
  <2>2. /\ buffer' = [buffer EXCEPT ![r] = b] /\ wire' = [wire EXCEPT ![r] = w]
        /\ UNCHANGED <<plan, sent, got>>
    BY <1>1, <2>1 DEF Deliver, Received
  <2>3. /\ b \in Seq(Lines) /\ w \in Seq(Lines)
        /\ Sound(plan[r], sent[r], w, b, got[r])
        /\ Whole(sent[r], wire[r], buffer[r], got[r]) => Whole(sent[r], w, b, got[r])
    BY StreamTypes, PieceReceived
  <2>4. wire[r] # <<>>
    BY StreamTypes, EmptySeq
  <2>5. req'[r].pc \in {"stream", "done", "gone"}
    BY <2>4, OnlyBegunStreams
  <2>6. Sending(req'[r].pc, sent[r], w, b, got[r])
    BY <1>0, <2>3, <2>5 DEF SendingOK, Sending
  <2> HIDE DEF b, w
  <2>7. /\ plan' = [plan EXCEPT ![r] = plan[r]] /\ sent' = [sent EXCEPT ![r] = sent[r]]
        /\ got' = [got EXCEPT ![r] = got[r]]
    BY <2>2, SameStream
  <2>8. plan[r] \in Plans /\ sent[r] \in 0 .. MaxChunks + 1 /\ got[r] \in Restored
    BY StreamTypes
  <2> QED  BY <2>2, <2>3, <2>6, <2>7, <2>8, OneStream
<1>2. CASE CutBlock(r)
  <2> DEFINE cut == CHOOSE i \in BlankAt(buffer[r]) : \A j \in BlankAt(buffer[r]) : i <= j
             g == got[r] \o ParseBlock(SubSeq(buffer[r], 1, cut - 1))
             b == SubSeq(buffer[r], cut + 1, Len(buffer[r]))
  <2>1. /\ BlankAt(buffer[r]) # {}
        /\ got' = [got EXCEPT ![r] = g] /\ buffer' = [buffer EXCEPT ![r] = b]
        /\ UNCHANGED <<plan, sent, wire>>
    BY <1>2 DEF CutBlock, HasBlock
  <2>2. /\ b \in Seq(Lines) /\ g \in Restored
        /\ Sound(plan[r], sent[r], wire[r], b, g)
        /\ Whole(sent[r], wire[r], buffer[r], got[r]) => Whole(sent[r], wire[r], b, g)
    BY <2>1, StreamTypes, BlockCut
  <2>3. buffer[r] # <<>>
    BY <2>1, EmptySeq DEF BlankAt
  <2>4. req'[r].pc \in {"stream", "done", "gone"}
    BY <2>3, OnlyBegunStreams
  <2>5. Sending(req'[r].pc, sent[r], wire[r], b, g)
    BY <1>0, <2>2, <2>4 DEF SendingOK, Sending
  <2> HIDE DEF b, g
  <2>6. /\ plan' = [plan EXCEPT ![r] = plan[r]] /\ sent' = [sent EXCEPT ![r] = sent[r]]
        /\ wire' = [wire EXCEPT ![r] = wire[r]]
    BY <2>1, SameStream
  <2> QED  BY <2>1, <2>2, <2>5, <2>6, StreamTypes, OneStream
<1> QED  BY <1>1, <1>2

-----------------------------------------------------------------------------
(* Every step keeps the invariant: the steps of a request.                 *)

\* A request in flight finds the process up.
LEMMA InFlightIsServed ==
    ASSUME IInv, NEW r \in Request, InFlight(r)
    PROVE  /\ Up /\ phase # "down" /\ req[r].kind \in Endpoint
           /\ req[r].kind # None /\ AppOf(req[r].kind) \in App
<1>1. Up /\ req[r].kind \in Endpoint
  BY DEF IInv, RequestInv, RequestOK
<1>2. AppOf(req[r].kind) \in App
  BY <1>1 DEF AppOf, Endpoint, App
<1> QED  BY <1>1, <1>2, WorkersAreRequests DEF Up

\* A request enters a stage and touches neither the process nor its stream.
LEMMA MovesOn ==
    ASSUME IInv, NEW r \in Request, NEW stage \in LaterStage, InFlight(r), ~Active(r),
           Enter(r, stage), UNCHANGED <<bootVars, streamVars>>,
           stage \in {"query", "run"} => bound[AppOf(req[r].kind)] # None,
           req[r].pc # "stream" \/ stage = "done"
    PROVE  IInv'
<1>1. LifeInv' /\ Steady
  <2>1. phase # "down"
    BY InFlightIsServed
  <2> QED  BY <2>1, LifeStays DEF IInv
<1>2. bound' = bound
  BY DEF bootVars
<1>3. /\ RequestInv' /\ ThreadsOfRequests' /\ PoolInv' /\ req'[r].pc = stage
      /\ \A x \in Request \ {r} : req'[x] = req[x]
  BY <1>1, <1>2, Entered DEF IInv
<1>4. StreamInv'
  <2>1. \/ req[r].pc \notin {"stream", "done", "gone"}
        \/ req'[r].pc \in {"done", "gone"}
    BY <1>3 DEF InFlight
  <2> QED  BY <2>1, <1>3, StreamStays DEF IInv
<1> QED  BY <1>1, <1>3, <1>4 DEF IInv

\* A request is answered, by the events of a stream if it asked for one.
LEMMA Replied ==
    ASSUME IInv, NEW r \in Request, InFlight(r), ~Active(r), req[r].pc # "stream",
           NEW events \in Plans, Len(events) <= MaxChunks + 1,
           Reply(r, events), UNCHANGED bootVars
    PROVE  IInv'
<1>1. PICK stage \in {"stream", "tts", "done"} :
         Enter(r, stage) /\ (req[r].kind = "stream" => stage = "stream")
                         /\ (req[r].kind # "stream" => stage # "stream")
  BY DEF Reply
<1>2. LifeInv' /\ Steady
  <2>1. phase # "down"
    BY InFlightIsServed
  <2> QED  BY <2>1, LifeStays DEF IInv
<1>3. /\ RequestInv' /\ ThreadsOfRequests' /\ PoolInv' /\ req'[r].pc = stage
      /\ \A x \in Request \ {r} : req'[x] = req[x]
  BY <1>1, <1>2, Entered DEF IInv, LaterStage, Stage
<1>4. req[r].pc \notin {"stream", "done", "gone"}
  BY DEF InFlight
<1>5. StreamInv'
  <2>1. CASE req[r].kind = "stream"
    <3>1. plan' = [plan EXCEPT ![r] = events]
          /\ sent' = sent /\ wire' = wire /\ buffer' = buffer /\ got' = got
      BY <2>1 DEF Reply
    <3>2. /\ sent' = [sent EXCEPT ![r] = sent[r]] /\ wire' = [wire EXCEPT ![r] = wire[r]]
          /\ buffer' = [buffer EXCEPT ![r] = buffer[r]]
          /\ got' = [got EXCEPT ![r] = got[r]]
      BY <3>1, SameStream DEF IInv
    <3> QED  BY <3>1, <3>2, <1>3, <1>4, StreamBegins DEF IInv
  <2>2. CASE req[r].kind # "stream"
    <3>1. UNCHANGED streamVars
      BY <2>2 DEF Reply, streamVars
    <3> QED  BY <3>1, <1>3, <1>4, StreamStays DEF IInv
  <2> QED  BY <2>1, <2>2
<1> QED  BY <1>2, <1>3, <1>5 DEF IInv

\* A request fails, with an error event if it is a stream.
LEMMA Refused ==
    ASSUME IInv, NEW r \in Request, InFlight(r), ~Active(r), req[r].pc # "stream",
           Refuse(r), UNCHANGED bootVars
    PROVE  IInv'
<1>1. CASE req[r].kind = "stream" /\ Reply(r, ErrorEvents)
  BY <1>1, Replied, PlannedEvents DEF Plans
<1>2. CASE Enter(r, "done") /\ UNCHANGED streamVars
  BY <1>2, MovesOn DEF LaterStage, Stage
<1> QED  BY <1>1, <1>2 DEF Refuse

LEMMA TranscribeInv ==
    ASSUME IInv, NEW r \in Request, Transcribe(r)
    PROVE  IInv'
<1>1. /\ req[r].pc = "stt" /\ InFlight(r) /\ ~Active(r) /\ UNCHANGED <<bootVars, streamVars>>
      /\ \E stage \in {"app", "token", "done"} : Enter(r, stage)
  BY ThreadIsBack DEF Transcribe, InFlight, IInv, DbStage, AfterLogin
<1> QED  BY <1>1, MovesOn DEF LaterStage, Stage

LEMMA ResolveTokenInv ==
    ASSUME IInv, NEW r \in Request, ResolveToken(r)
    PROVE  IInv'
<1>1. /\ req[r].pc = "token" /\ InFlight(r) /\ ~Active(r) /\ UNCHANGED bootVars
  BY ThreadIsBack DEF ResolveToken, InFlight, IInv
<1>2. CASE \E stage \in {"gone", "app"} : Enter(r, stage) /\ UNCHANGED streamVars
  BY <1>1, <1>2, MovesOn DEF LaterStage, Stage
<1>3. CASE Refuse(r)
  BY <1>1, <1>3, Refused
<1> QED  BY <1>2, <1>3 DEF ResolveToken, EndIfCut

LEMMA QueryAnsweredInv ==
    ASSUME IInv, NEW r \in Request, QueryAnswered(r)
    PROVE  IInv'
<1>1. /\ req[r].pc = "query" /\ InFlight(r) /\ ~Active(r)
      /\ Enter(r, "run") /\ UNCHANGED <<bootVars, streamVars>>
  BY ThreadIsBack DEF QueryAnswered, InFlight, IInv
<1>2. bound[AppOf(req[r].kind)] # None
  BY <1>1 DEF IInv, RequestInv, RequestOK
<1> QED  BY <1>1, <1>2, MovesOn DEF LaterStage, Stage

LEMMA RunEndsInv ==
    ASSUME IInv, NEW r \in Request, RunEnds(r)
    PROVE  IInv'
<1>1. req[r].pc = "run" /\ InFlight(r) /\ ~Active(r) /\ UNCHANGED bootVars
  BY ThreadIsBack DEF RunEnds, InFlight, IInv, DbStage
<1>2. CASE Enter(r, "save") /\ UNCHANGED streamVars
  BY <1>1, <1>2, MovesOn DEF LaterStage, Stage
<1>3. CASE \E n \in 0 .. MaxChunks : Reply(r, AnswerEvents(n))
  BY <1>1, <1>3, Replied, PlannedEvents DEF Plans
<1> QED  BY <1>2, <1>3 DEF RunEnds

LEMMA SaveHistoryInv ==
    ASSUME IInv, NEW r \in Request, SaveHistory(r)
    PROVE  IInv'
<1>1. req[r].pc = "save" /\ InFlight(r) /\ ~Active(r) /\ UNCHANGED bootVars
  BY ThreadIsBack DEF SaveHistory, InFlight, IInv
<1>2. CASE Enter(r, "gone") /\ UNCHANGED streamVars
  BY <1>1, <1>2, MovesOn DEF LaterStage, Stage
<1>3. CASE \E n \in 0 .. MaxChunks : Reply(r, AnswerEvents(n))
  BY <1>1, <1>3, Replied, PlannedEvents DEF Plans
<1> QED  BY <1>2, <1>3 DEF SaveHistory, EndIfCut

LEMMA SpeakInv ==
    ASSUME IInv, NEW r \in Request, Speak(r)
    PROVE  IInv'
<1>1. /\ req[r].pc = "tts" /\ InFlight(r) /\ ~Active(r)
      /\ Enter(r, "done") /\ UNCHANGED <<bootVars, streamVars>>
  BY ThreadIsBack DEF Speak, InFlight, IInv, DbStage
<1> QED  BY <1>1, MovesOn DEF LaterStage, Stage

LEMMA StreamStepInv ==
    ASSUME IInv, NEW r \in Request, Stream(r)
    PROVE  IInv'
<1>1. req[r].pc = "stream" /\ InFlight(r) /\ ~Active(r) /\ UNCHANGED bootVars
  BY ThreadIsBack DEF Stream, InFlight, IInv, DbStage
<1>2. CASE Enter(r, "done") /\ UNCHANGED streamVars
  BY <1>1, <1>2, MovesOn DEF LaterStage, Stage
<1>3. CASE SendEvent(r) /\ UNCHANGED <<req, poolVars>>
  <2>1. StreamInv'
    BY <1>1, <1>3, SendKeepsStream DEF IInv
  <2>2. LifeInv'
    BY <1>1, InFlightIsServed, LifeStays DEF IInv
  <2>3. RequestInv' /\ ThreadsOfRequests' /\ PoolInv'
    BY <1>1, <1>3 DEF IInv, RequestInv, RequestOK, InFlight, Up, ThreadsOfRequests,
       Active, PoolInv, PoolTypeOK, PoolAccounted, CleanHandover, poolVars, bootVars
  <2> QED  BY <2>1, <2>2, <2>3 DEF IInv
<1> QED  BY <1>2, <1>3 DEF Stream

\* A run begins on a graph that was compiled, before or now.
LEMMA RunBegins ==
    ASSUME IInv, NEW r \in Request, req[r].pc = "app", BeginRun(r),
           LifeInv', Steady, bound'[AppOf(req[r].kind)] # None, UNCHANGED streamVars
    PROVE  IInv'
<1>1. InFlight(r) /\ ~Active(r)
  BY ThreadIsBack DEF InFlight, IInv, DbStage
<1>2. PICK stage \in {"query", "run"} : Enter(r, stage)
  BY DEF BeginRun
<1>3. /\ RequestInv' /\ ThreadsOfRequests' /\ PoolInv'
      /\ \A x \in Request \ {r} : req'[x] = req[x]
  BY <1>1, <1>2, Entered DEF IInv, LaterStage, Stage
<1>4. StreamInv'
  <2>1. req[r].pc \notin {"stream", "done", "gone"}
    OBVIOUS
  <2> QED  BY <2>1, <1>3, StreamStays DEF IInv
<1> QED  BY <1>3, <1>4 DEF IInv

LEMMA GetAppInv ==
    ASSUME IInv, NEW r \in Request, GetApp(r)
    PROVE  IInv'
<1>1. /\ req[r].pc = "app" /\ BeginRun(r) /\ UNCHANGED streamVars
      /\ bound' = Compiled(AppOf(req[r].kind)) /\ saver' = SafeSaver
      /\ UNCHANGED <<phase, starts, saverOpen, toolVars>>
  BY DEF GetApp
<1>2. InFlight(r)
  BY <1>1 DEF InFlight
<1>3. Up /\ AppOf(req[r].kind) \in App
  BY <1>2, InFlightIsServed
<1>4. saver' = saver /\ saver = ConfiguredSaver /\ SafeSaver = saver /\ saver # None
      /\ saver \in Saver
  BY <1>1, <1>3, SaverWhenUp DEF IInv
<1> DEFINE a == AppOf(req[r].kind)
<1>5. bound' = [bound EXCEPT ![a] = IF bound[a] = None THEN saver ELSE bound[a]]
  BY <1>1, <1>4 DEF Compiled
<1> HIDE DEF a
<1>6. bound \in [App -> Saver \cup {None}] /\ a \in App
  BY <1>3 DEF IInv, LifeInv, BootTypeOK, a
<1>7. bound' \in [App -> Saver \cup {None}]
      /\ bound'[a] # None /\ \A b \in App : bound[b] # None => bound'[b] # None
  BY <1>4, <1>5, <1>6
<1>8. \A b \in App : bound'[b] \in {None, ConfiguredSaver}
  <2>1. \A b \in App : bound[b] \in {None, ConfiguredSaver}
    BY <1>3, SaverWhenUp DEF IInv
  <2> QED  BY <2>1, <1>4, <1>5, <1>6
<1>9. LifeInv' /\ Steady
  BY <1>1, <1>3, <1>4, <1>7, <1>8
     DEF IInv, LifeInv, BootTypeOK, toolVars, Up, Steady, ConfiguredSaver, App
<1> QED  BY <1>1, <1>7, <1>9, RunBegins DEF a

LEMMA GetMcpAgentInv ==
    ASSUME IInv, NEW r \in Request, GetMcpAgent(r)
    PROVE  IInv'
<1>1. /\ req[r].pc = "app" /\ req[r].kind = "mcp" /\ BeginRun(r) /\ UNCHANGED streamVars
      /\ UNCHANGED <<phase, starts>>
  BY DEF GetMcpAgent
<1>2. InFlight(r)
  BY <1>1 DEF InFlight
<1>3. Up /\ phase # "down"
  BY <1>2, InFlightIsServed
<1>4. AppOf(req[r].kind) = "mcp"
  BY <1>1 DEF AppOf
<1>5. CASE mcpTools # None /\ UNCHANGED <<memoryVars, toolVars>>
  <2>1. UNCHANGED bootVars
    BY <1>1, <1>5 DEF bootVars, memoryVars, toolVars
  <2>2. LifeInv' /\ Steady
    BY <2>1, <1>3, LifeStays DEF IInv
  <2>3. bound'["mcp"] # None
    BY <1>5 DEF memoryVars, IInv, LifeInv
  <2> QED  BY <2>2, <2>3, <1>1, <1>4, RunBegins
<1>6. CASE mcpTools = None /\ ToolsAtOnce # None
           /\ BuildMcpAgent(ToolsAtOnce) /\ UNCHANGED <<tools, asking>>
  <2>1. saver = ConfiguredSaver /\ SafeSaver = saver /\ saver # None /\ saver \in Saver
        /\ \A b \in App : bound[b] \in {None, ConfiguredSaver}
    BY <1>3, SaverWhenUp DEF IInv
  <2>2. bound' = [bound EXCEPT !["mcp"] = saver] /\ saver' = saver /\ saverOpen' = saverOpen
        /\ mcpTools' = ToolsAtOnce
    BY <1>6, <2>1 DEF BuildMcpAgent
  <2>3. bound \in [App -> Saver \cup {None}] /\ "mcp" \in App
    BY DEF IInv, LifeInv, BootTypeOK, App
  <2>4. /\ bound' \in [App -> Saver \cup {None}] /\ bound'["mcp"] # None
        /\ \A b \in App : bound'[b] \in {None, ConfiguredSaver}
        /\ \A b \in App : bound[b] # None => bound'[b] # None
    BY <2>1, <2>2, <2>3
  <2>5. mcpTools' \in ToolList \cup {None}
    BY <2>2 DEF ToolsAtOnce, ToolList, IInv, LifeInv, BootTypeOK
  <2>6. LifeInv' /\ Steady
    BY <1>1, <1>3, <1>6, <2>1, <2>2, <2>4, <2>5
       DEF IInv, LifeInv, BootTypeOK, Up, Steady, ConfiguredSaver
  <2> QED  BY <2>4, <2>6, <1>1, <1>4, RunBegins
<1> QED  BY <1>5, <1>6 DEF GetMcpAgent

-----------------------------------------------------------------------------
(* Every step keeps the invariant: the process, its threads and clients.   *)

\* Requests and their threads while the process alone moves.
LEMMA RequestsStay ==
    ASSUME IInv, UNCHANGED req, Steady \/ \A r \in Request : ~InFlight(r)
    PROVE  RequestInv'
<1>1. req' \in [Request -> RequestState]
  BY DEF IInv, RequestInv
<1>2. ASSUME NEW r \in Request
      PROVE  RequestOK(r)'
  <2>1. RequestOK(r) /\ (req[r].pc \in {"query", "run"} => InFlight(r))
    BY DEF IInv, RequestInv, InFlight
  <2>2. CASE InFlight(r)
    <3>1. AppOf(req[r].kind) \in App
      BY <2>2, InFlightIsServed
    <3> QED  BY <2>1, <2>2, <3>1 DEF RequestOK, InFlight, Steady
  <2>3. CASE ~InFlight(r)
    BY <2>1, <2>3 DEF RequestOK, InFlight
  <2> QED  BY <2>2, <2>3
<1> QED  BY <1>1, <1>2 DEF RequestInv

LEMMA StreamsStay ==
    ASSUME IInv, UNCHANGED <<req, streamVars>>
    PROVE  StreamInv'
BY DEF IInv, StreamInv, StreamTypeOK, StreamOK, SendingOK, streamVars

LEMMA ThreadsStay ==
    ASSUME IInv, UNCHANGED <<req, poolVars>>
    PROVE  ThreadsOfRequests' /\ PoolInv'
BY DEF IInv, ThreadsOfRequests, Active, PoolInv, PoolTypeOK, PoolAccounted,
       CleanHandover, poolVars

LEMMA ArriveInv ==
    ASSUME IInv, NEW r \in Request, NEW k \in Kinds, NEW g \in BOOLEAN, Arrive(r, k, g)
    PROVE  IInv'
<1> DEFINE stage == IF k = "voice" THEN "stt" ELSE AfterLogin(g)
           q == [kind |-> k, guest |-> g, pc |-> stage, cut |-> FALSE]
           c == IF stage = "token" THEN Started(FALSE) ELSE Idle
<1>1. /\ phase = "serving" /\ req[r].pc = "new" /\ req' = [req EXCEPT ![r] = q]
      /\ call' = [call EXCEPT ![r] = c]
      /\ UNCHANGED <<pool, named, lent, tx, bootVars, streamVars>>
  BY DEF Arrive
<1>2. k \in Endpoint /\ stage \in {"stt", "app", "token"}
  BY ServerAssumption DEF AfterLogin
<1>3. q \in RequestState /\ q.pc = stage /\ q.kind = k
  BY <1>2 DEF RequestState, Stage
<1>4. c \in CallState /\ c.conn = None /\ c.at \in {"none", "look"}
      /\ (stage # "token" => c.at = "none")
  BY CallStates
<1> HIDE DEF q, c, stage
<1>5. LifeInv' /\ Steady /\ Up /\ Up'
  <2>1. UNCHANGED bootVars /\ phase # "down" /\ Up
    BY <1>1 DEF Up
  <2>2. LifeInv' /\ Steady
    BY <2>1, LifeStays DEF IInv
  <2> QED  BY <2>1, <2>2 DEF Steady
<1>6. RequestInv' /\ req'[r] = q /\ \A x \in Request \ {r} : req'[x] = req[x]
  BY <1>1, <1>2, <1>3, <1>5, OneMoves DEF IInv
<1>7. ~Active(r)
  BY <1>1, ThreadIsBack DEF IInv, DbStage
<1>8. call[r].conn = None
  BY <1>7, WorkersAreRequests DEF IInv, PoolInv, PoolAccounted, Active
<1>9. PoolInv'
  BY <1>1, <1>4, <1>8, CallReplaced, WorkersAreRequests DEF IInv
<1>10. ThreadsOfRequests'
  <2>1. call'[r] = c /\ \A x \in Request \ {r} : call'[x] = call[x]
    BY <1>1, WorkersAreRequests DEF IInv, PoolInv, PoolTypeOK
  <2> QED  BY <2>1, <1>3, <1>4, <1>6 DEF IInv, ThreadsOfRequests, Active, DbStage
<1>11. StreamInv'
  <2>1. req[r].pc \notin {"stream", "done", "gone"} /\ UNCHANGED streamVars
    BY <1>1
  <2> QED  BY <2>1, <1>6, StreamStays DEF IInv
<1> QED  BY <1>5, <1>6, <1>9, <1>10, <1>11 DEF IInv

LEMMA HangUpInv ==
    ASSUME IInv, NEW r \in Request, HangUp(r)
    PROVE  IInv'
<1>0. /\ req[r].kind = "stream" /\ ReaderLost(r)
      /\ req[r] \in RequestState
      /\ UNCHANGED <<pool, named, lent, tx, bootVars>>
  BY DEF HangUp, IInv, RequestInv
<1>1. InFlight(r)
  BY <1>0, InFlightIsServed, WorkersAreRequests DEF HangUp, InFlight
<1>2. Up /\ phase # "down" /\ req[r].kind \in Endpoint
  BY <1>1, InFlightIsServed
<1>3. LifeInv' /\ Steady /\ Up' /\ bound' = bound
  <2>1. LifeInv' /\ Steady
    BY <1>0, <1>2, LifeStays DEF IInv
  <2> QED  BY <2>1, <1>0, <1>2 DEF Steady, bootVars
<1>4. CASE /\ req[r].pc \in {"token", "save"}
           /\ req' = [req EXCEPT ![r].cut = TRUE] /\ UNCHANGED call
  <2> DEFINE q == [req[r] EXCEPT !.cut = TRUE]
  <2>1. q \in RequestState /\ q.pc = req[r].pc /\ q.kind = req[r].kind
    BY <1>0 DEF RequestState
  <2>2. req' = [req EXCEPT ![r] = q]
    BY <1>4
  <2> HIDE DEF q
  <2>3. RequestInv' /\ req'[r] = q /\ \A x \in Request \ {r} : req'[x] = req[x]
    BY <1>2, <1>3, <1>4, <2>1, <2>2, OneMoves DEF IInv
  <2>4. UNCHANGED poolVars
    BY <1>0, <1>4 DEF poolVars
  <2>5. PoolInv'
    BY <2>4 DEF IInv, PoolInv, PoolTypeOK, PoolAccounted, CleanHandover, poolVars
  <2>6. ThreadsOfRequests'
    BY <1>4, <2>1, <2>3 DEF IInv, ThreadsOfRequests, Active
  <2>7. StreamInv'
    BY <1>0, <2>3, ReaderLeaves DEF IInv
  <2> QED  BY <1>3, <2>3, <2>5, <2>6, <2>7 DEF IInv
<1>5. CASE /\ req[r].pc \in {"query", "run", "stream"}
           /\ req' = [req EXCEPT ![r] = [Request0 EXCEPT !.pc = "gone", !.cut = TRUE]]
           /\ call' = [call EXCEPT ![r] = IF @.at = "look" THEN Idle ELSE @]
                 \/ UNCHANGED call
  <2> DEFINE q == [Request0 EXCEPT !.pc = "gone", !.cut = TRUE]
  <2>1. q \in RequestState /\ q.pc = "gone" /\ q.kind = None
    BY DEF RequestState, Request0, Stage
  <2>2. req' = [req EXCEPT ![r] = q]
    BY <1>5
  <2> HIDE DEF q
  <2>3. RequestInv' /\ req'[r] = q /\ \A x \in Request \ {r} : req'[x] = req[x]
    BY <1>3, <2>1, <2>2, OneMoves DEF IInv
  <2>4. call' = call \/ (call[r].at = "look" /\ call' = [call EXCEPT ![r] = Idle])
    <3>1. call = [call EXCEPT ![r] = call[r]]
      BY WorkersAreRequests DEF IInv, PoolInv, PoolTypeOK
    <3> QED  BY <1>5, <3>1
  <2>5. PoolInv'
    <3>1. CASE call' = call
      BY <1>0, <3>1 DEF IInv, PoolInv, PoolTypeOK, PoolAccounted, CleanHandover
    <3>2. CASE call[r].at = "look" /\ call' = [call EXCEPT ![r] = Idle]
      <4>1. call[r].conn = None
        BY <3>2, WorkersAreRequests DEF IInv, PoolInv, PoolAccounted
      <4> QED  BY <1>0, <3>2, <4>1, CallReplaced, CallStates, WorkersAreRequests DEF IInv
    <3> QED  BY <2>4, <3>1, <3>2
  <2>6. ThreadsOfRequests'
    <3>1. \A x \in Request \ {r} : call'[x] = call[x]
      BY <2>4, WorkersAreRequests DEF IInv, PoolInv, PoolTypeOK
    <3> QED  BY <2>1, <2>3, <3>1 DEF IInv, ThreadsOfRequests, Active
  <2>7. StreamInv'
    BY <1>0, <2>3, ReaderLeaves DEF IInv
  <2> QED  BY <1>3, <2>3, <2>5, <2>6, <2>7 DEF IInv
<1> QED  BY <1>4, <1>5 DEF HangUp

LEMMA ThreadStepInv ==
    ASSUME IInv, NEW w \in Worker, ThreadStep(w)
    PROVE  IInv'
<1>1. CallStep(w) /\ UNCHANGED <<req, bootVars, streamVars>>
  BY DEF ThreadStep
<1>2. PoolInv'
  BY <1>1, CallStepKeepsPool DEF IInv
<1>3. Active(w)
  BY <1>1 DEF CallStep, LookAtPool, BindPool, Acquire, Execute, Commit, LeaveBlock, Active
<1>4. phase # "down"
  BY <1>3, CallStates DEF IInv, LifeInv, Active
<1>5. LifeInv' /\ Steady
  BY <1>1, <1>4, LifeStays DEF IInv
<1>6. \A x \in Worker \ {w} : call'[x] = call[x]
  BY <1>1 DEF IInv, PoolInv, PoolTypeOK, CallStep, LookAtPool, BindPool, Acquire, Execute,
              Commit, LeaveBlock, Ended
<1>7. ThreadsOfRequests'
  BY <1>1, <1>3, <1>6, WorkersAreRequests DEF IInv, ThreadsOfRequests, Active
<1> QED  BY <1>1, <1>2, <1>5, <1>7, RequestsStay, StreamsStay DEF IInv

LEMMA ReaderStepInv ==
    ASSUME IInv, NEW r \in Request, ReaderStep(r)
    PROVE  IInv'
<1>1. (Deliver(r) \/ CutBlock(r)) /\ UNCHANGED <<req, poolVars, bootVars>>
  BY DEF ReaderStep
<1>2. StreamInv'
  BY <1>1, ReaderKeepsStream DEF IInv
<1>3. LifeInv' /\ Steady
  BY <1>1 DEF IInv, LifeInv, BootTypeOK, Fresh, ConfiguredSaver, bootVars, poolVars, Steady, Up
<1> QED  BY <1>1, <1>2, <1>3, RequestsStay, ThreadsStay DEF IInv

\* A request that asks for tools would find them: prefetch_mcp_tools came first.
LEMMA AskForToolsInv ==
    ASSUME IInv, NEW c \in Request \cup {Boot}, AskForTools(c)
    PROVE  IInv'
<1>0. Boot \notin Request /\ Boot \notin Worker
  BY LifespanAssumption, WorkersAreRequests
<1>1. c = Boot
  <2>1. SUFFICES ASSUME c \in Request, c # Boot PROVE FALSE
    OBVIOUS
  <2>2. InFlight(c)
    BY <2>1 DEF AskForTools, InFlight
  <2>3. ToolsAtOnce # None
    BY <2>1, <2>2, InFlightIsServed, SaverWhenUp DEF IInv
  <2> QED  BY <2>3 DEF AskForTools, AskServers
<1>2. /\ phase = "tools" /\ asking' = asking \cup {Boot}
      /\ UNCHANGED <<phase, starts, memoryVars, tools, mcpTools, poolVars, streamVars>>
      /\ req' = Moved(Boot, "tools")
  BY <1>1 DEF AskForTools, AskServers
<1>3. req' = req
  <2>1. req = [r \in Request |-> req[r]]
    BY DEF IInv, RequestInv
  <2>2. Moved(Boot, "tools") = [r \in Request |-> req[r]]
    BY <1>0 DEF Moved
  <2> QED  BY <1>2, <2>1, <2>2
<1>4. LifeInv' /\ Steady
  BY <1>2 DEF IInv, LifeInv, BootTypeOK, Fresh, ConfiguredSaver, memoryVars, poolVars,
              Steady, Up
<1> QED  BY <1>2, <1>3, <1>4, RequestsStay, ThreadsStay, StreamsStay DEF IInv

LEMMA GetToolsInv ==
    ASSUME IInv, NEW c \in Request \cup {Boot}, GetTools(c)
    PROVE  IInv'
<1>0. Boot \notin Request /\ Boot \notin Worker
  BY LifespanAssumption, WorkersAreRequests
<1>1. c = Boot /\ phase = "tools"
  BY DEF GetTools, ServersAnswer, IInv, LifeInv
<1>2. /\ asking' = asking \ {Boot} /\ tools' \in ToolList /\ phase' = "serving"
      /\ UNCHANGED <<starts, memoryVars, mcpTools, poolVars, streamVars>>
      /\ req' = Moved(Boot, "app")
  BY <1>1 DEF GetTools, ServersAnswer
<1>3. req' = req
  <2>1. req = [r \in Request |-> req[r]]
    BY DEF IInv, RequestInv
  <2>2. Moved(Boot, "app") = [r \in Request |-> req[r]]
    BY <1>0 DEF Moved
  <2> QED  BY <1>2, <2>1, <2>2
<1>4. asking' = {} /\ tools' # None
  BY <1>2, NoneAssumption DEF IInv, LifeInv
<1>5. LifeInv' /\ Steady
  BY <1>1, <1>2, <1>4
     DEF IInv, LifeInv, BootTypeOK, Fresh, ConfiguredSaver, memoryVars, Phase, Steady, Up
<1> QED  BY <1>2, <1>3, <1>5, RequestsStay, ThreadsStay, StreamsStay DEF IInv

\* No request is in flight while the process is not up.
LEMMA NobodyInFlight ==
    ASSUME IInv, ~Up
    PROVE  \A r \in Request : ~InFlight(r)
BY DEF IInv, RequestInv, RequestOK

LEMMA BeginStartInv ==
    ASSUME IInv, BeginStart
    PROVE  IInv'
<1>1. /\ phase = "down" /\ starts < MaxStarts /\ starts' = starts + 1
      /\ phase' = "checkpointer" /\ bound' = [a \in App |-> None] /\ saver' = None
      /\ InitPool /\ UNCHANGED <<saverOpen, tools, mcpTools, asking>>
      /\ UNCHANGED <<req, streamVars>>
  BY DEF BeginStart, StartProcess, AppsAtImport, toolVars
<1>2. \A w \in Worker : call[w] = Idle
  BY <1>1 DEF IInv, LifeInv
<1>3. PoolInv' /\ call' = call
  BY <1>1, <1>2, LifespanKeepsPool DEF IInv, InitPool
<1>4. LifeInv'
  <2>1. starts' \in 0 .. MaxStarts
    BY <1>1, LifespanAssumption DEF IInv, LifeInv, BootTypeOK
  <2> QED  BY <1>1, <2>1, NoneAssumption
              DEF IInv, LifeInv, BootTypeOK, Fresh, Phase, App
<1>5. \A r \in Request : ~InFlight(r)
  BY <1>1, NobodyInFlight DEF Up
<1>6. ThreadsOfRequests'
  BY <1>1, <1>3 DEF IInv, ThreadsOfRequests, Active
<1> QED  BY <1>1, <1>3, <1>4, <1>5, <1>6, RequestsStay, StreamsStay DEF IInv

\* A process that ends with no request in flight.
LEMMA ProcessLostInv ==
    ASSUME IInv, ~Up, ProcessLost, UNCHANGED <<req, streamVars>>
    PROVE  IInv'
<1>1. LifeInv'
  BY LifeOver DEF IInv
<1>2. PoolInv' /\ \A w \in Worker : call'[w] = Idle
  BY PoolOfNoProcess DEF ProcessLost, PoolLost
<1>3. ThreadsOfRequests'
  BY <1>2, CallStates, WorkersAreRequests DEF ThreadsOfRequests, Active
<1> QED  BY <1>1, <1>2, <1>3, NobodyInFlight, RequestsStay, StreamsStay DEF IInv

LEMMA BootStepInv ==
    ASSUME IInv, BootStep
    PROVE  IInv'
<1>1. CASE OpenCheckpointer
  <2>1. /\ phase = "checkpointer" /\ saver' = ConfiguredSaver /\ saverOpen' = TRUE
        /\ bound' = [bound EXCEPT !["chat"] = IF bound["chat"] = None THEN ConfiguredSaver
                                              ELSE bound["chat"]]
        /\ phase' = IF McpEnabled THEN "tools" ELSE "serving"
        /\ UNCHANGED <<starts, tools, mcpTools, asking, poolVars, req, streamVars>>
    BY <1>1 DEF BootStep, OpenCheckpointer, Prefetches, toolVars
  <2>2. ConfiguredSaver \in Saver
    BY DEF ConfiguredSaver, Saver
  <2>3. bound \in [App -> Saver \cup {None}] /\ Fresh
    BY <2>1 DEF IInv, LifeInv, BootTypeOK
  <2>4. /\ bound' \in [App -> Saver \cup {None}]
        /\ \A a \in App : bound'[a] \in {None, ConfiguredSaver}
    BY <2>1, <2>2, <2>3 DEF Fresh
  <2>5. LifeInv'
    BY <2>1, <2>2, <2>3, <2>4, LifespanAssumption
       DEF IInv, LifeInv, BootTypeOK, Fresh, Phase, ConfiguredSaver
  <2>6. \A r \in Request : ~InFlight(r)
    BY <2>1, NobodyInFlight DEF Up
  <2> QED  BY <2>1, <2>5, <2>6, RequestsStay, ThreadsStay, StreamsStay DEF IInv
<1>2. CASE CheckpointerFails
  <2>1. ~Up /\ ProcessLost /\ UNCHANGED <<req, streamVars>>
    BY <1>2 DEF CheckpointerFails, BootStep, Up
  <2> QED  BY <2>1, ProcessLostInv
<1> QED  BY <1>1, <1>2 DEF BootStep

LEMMA BeginStopInv ==
    ASSUME IInv, BeginStop
    PROVE  IInv'
<1>1. /\ phase = "serving" /\ phase' = "draining"
      /\ UNCHANGED <<starts, memoryVars, toolVars, poolVars, req, streamVars>>
  BY DEF BeginStop, Stop
<1>2. LifeInv' /\ Steady
  BY <1>1 DEF IInv, LifeInv, BootTypeOK, Fresh, ConfiguredSaver, memoryVars, toolVars,
              poolVars, Phase, Steady, Up
<1> QED  BY <1>1, <1>2, RequestsStay, ThreadsStay, StreamsStay DEF IInv

LEMMA ShutdownStepInv ==
    ASSUME IInv, ShutdownStep
    PROVE  IInv'
<1>0. UNCHANGED <<req, streamVars>>
  BY DEF ShutdownStep
<1>1. CASE Drained /\ CloseCheckpointer
  <2>1. /\ phase = "draining" /\ phase' = "closing" /\ saverOpen' = FALSE
        /\ UNCHANGED <<starts, saver, bound, toolVars, poolVars>>
    BY <1>1 DEF CloseCheckpointer
  <2>2. LifeInv'
    BY <2>1 DEF IInv, LifeInv, BootTypeOK, Fresh, ConfiguredSaver, toolVars, poolVars, Phase
  <2>3. \A r \in Request : ~InFlight(r)
    BY <1>1 DEF Drained
  <2> QED  BY <1>0, <2>1, <2>2, <2>3, RequestsStay, ThreadsStay, StreamsStay DEF IInv
<1>2. CASE ClosePool
  <2>1. /\ phase \in {"closing", "forgetting"} /\ phase' \in {"forgetting", "exiting"}
        /\ ShutPool \/ ForgetPool
        /\ UNCHANGED <<starts, memoryVars, toolVars>>
    BY <1>2 DEF ClosePool
  <2>2. PoolInv' /\ call' = call
    BY <2>1, LifespanKeepsPool DEF IInv, ShutPool, ForgetPool
  <2>3. LifeInv'
    BY <2>1, <2>2 DEF IInv, LifeInv, BootTypeOK, Fresh, ConfiguredSaver, memoryVars,
                      toolVars, Phase
  <2>4. \A r \in Request : ~InFlight(r)
    BY <2>1, NobodyInFlight DEF Up
  <2>5. ThreadsOfRequests'
    BY <1>0, <2>2 DEF IInv, ThreadsOfRequests, Active
  <2> QED  BY <1>0, <2>2, <2>3, <2>4, <2>5, RequestsStay, StreamsStay DEF IInv
<1>3. CASE ProcessEnds
  <2>1. ~Up /\ ProcessLost
    BY <1>3 DEF ProcessEnds, Up
  <2> QED  BY <1>0, <2>1, ProcessLostInv
<1> QED  BY <1>1, <1>2, <1>3 DEF ShutdownStep

LEMMA CrashInv ==
    ASSUME IInv, Crash
    PROVE  IInv'
<1>1. LifeInv'
  BY LifeOver DEF IInv, Crash
<1>2. PoolInv' /\ \A w \in Worker : call'[w] = Idle
  BY PoolOfNoProcess DEF Crash, ProcessLost, PoolLost
<1>3. ThreadsOfRequests'
  BY <1>2, CallStates, WorkersAreRequests DEF ThreadsOfRequests, Active
<1> DEFINE stage(r) == IF InFlight(r) THEN "gone" ELSE req[r].pc
           q(r) == [At(r, stage(r)) EXCEPT !.cut = @ \/ Unread(r)]
<1>4. req' = [r \in Request |-> q(r)]
  BY DEF Crash
<1>5. ASSUME NEW r \in Request
      PROVE  /\ q(r) \in RequestState /\ q(r).kind = None
             /\ q(r).pc \in {"new", "done", "gone"}
             /\ q(r).pc = "new" => req[r].pc = "new"
  <2>1. req[r] \in RequestState /\ (~InFlight(r) => req[r].kind = None)
    BY DEF IInv, RequestInv, RequestOK
  <2>2. stage(r) \in {"new", "done", "gone"} /\ stage(r) \in Stage
        /\ (stage(r) = "new" => ~InFlight(r) /\ req[r].pc = "new")
    BY DEF InFlight, Stage
  <2>3. /\ At(r, stage(r)) \in RequestState /\ At(r, stage(r)).pc = stage(r)
        /\ At(r, stage(r)).kind = None
    BY <2>1, <2>2, RecordAt DEF IInv
  <2>4. (At(r, stage(r)).cut \/ Unread(r)) \in BOOLEAN
    BY <2>3 DEF RequestState, Unread, InFlight
  <2> HIDE DEF stage
  <2> QED  BY <2>2, <2>3, <2>4 DEF RequestState
<1> HIDE DEF q
<1>6. \A r \in Request : req'[r] = q(r)
  BY <1>4
<1>7. RequestInv'
  <2>1. req' \in [Request -> RequestState]
    BY <1>4, <1>5
  <2> QED  BY <2>1, <1>5, <1>6 DEF RequestInv, RequestOK, InFlight
<1>8. StreamInv'
  <2>1. \A x \in Request : \/ req'[x].pc \in {"done", "gone"}
                           \/ req'[x].pc = "new" /\ req[x].pc = "new"
    BY <1>5, <1>6
  <2> QED  BY <2>1, SenderDies DEF IInv, Crash
<1> QED  BY <1>1, <1>2, <1>3, <1>7, <1>8 DEF IInv

-----------------------------------------------------------------------------
(* The pool is a shelf of connections.                                     *)

LEMMA ShelfInit == Init => Shelf!Init
BY DEF Init, PoolInit, NoneLent, Shelf!Init, Shelf!AllBack

\* A step that keeps pool, connections and changes as they are is none of the
\* shelf.
LEMMA ShelfUntouched ==
    ASSUME UNCHANGED <<pool, lent, tx>>
    PROVE  UNCHANGED Shelf!vars
BY DEF Shelf!vars

\* acquire() hands out a connection that nobody has to a worker that has none.
LEMMA AcquireIsLend ==
    ASSUME PoolInv, NEW w \in Worker, Acquire(w)
    PROVE  [Shelf!Next]_(Shelf!vars)
<1>0. call[w].conn = None /\ call[w].at = "wait" /\ UNCHANGED <<pool, tx>>
  BY DEF PoolInv, PoolTypeOK, PoolAccounted, Acquire
<1>1. CASE UNCHANGED lent
  BY <1>0, <1>1, ShelfUntouched
<1>2. ASSUME pool = "open", NEW s \in FreeSlots, lent' = [lent EXCEPT ![s] = w]
      PROVE  Shelf!Next
  <2>1. s \in Slot /\ lent[s] = None
    BY <1>2 DEF FreeSlots
  <2>2. \A t \in Slot : lent[t] # w
    BY <1>0, ConstantsApart DEF PoolInv, PoolAccounted
  <2>3. Shelf!Lend(s, w)
    BY <1>0, <1>2, <2>1, <2>2 DEF Shelf!Lend
  <2> QED  BY <2>1, <2>3 DEF Shelf!Next
<1> QED  BY <1>1, <1>2 DEF Acquire

\* execute() and commit() work on the connection of the worker, if it has one
\* of the pool.
LEMMA StatementIsWork ==
    ASSUME PoolInv, NEW w \in Worker, Execute(w) \/ Commit(w)
    PROVE  [Shelf!Next]_(Shelf!vars)
<1>0. UNCHANGED <<pool, lent>>
  BY DEF Execute, Commit
<1>1. CASE UNCHANGED tx
  BY <1>0, <1>1, ShelfUntouched
<1>2. ASSUME NEW x \in {w, None},
             tx' = [s \in Slot |-> IF s = call[w].conn THEN x ELSE tx[s]]
      PROVE  [Shelf!Next]_(Shelf!vars)
  <2>0. tx \in [Slot -> Worker \cup {None}]
    BY DEF PoolInv, PoolTypeOK
  <2>1. CASE call[w].conn \notin Slot
    <3>1. tx' = tx
      BY <1>2, <2>0, <2>1
    <3> QED  BY <1>0, <3>1, ShelfUntouched
  <2>2. CASE call[w].conn \in Slot
    <3>1. lent[call[w].conn] = w
      BY <2>2 DEF PoolInv, PoolAccounted
    <3>2. tx' = [tx EXCEPT ![call[w].conn] = x]
      BY <1>2, <2>0, <2>2
    <3>3. Shelf!Work(call[w].conn, w)
      BY <1>0, <1>2, <3>1, <3>2 DEF Shelf!Work
    <3> QED  BY <2>2, <3>3 DEF Shelf!Next
  <2> QED  BY <2>1, <2>2
<1> QED  BY <1>1, <1>2 DEF Execute, Commit

\* The end of the block gives the connection back, if it is one of the pool.
LEMMA LeaveIsGiveBack ==
    ASSUME PoolInv, NEW w \in Worker, LeaveBlock(w)
    PROVE  [Shelf!Next]_(Shelf!vars)
<1>0. /\ lent' = [s \in Slot |-> IF s = call[w].conn THEN None ELSE lent[s]]
      /\ tx' = [s \in Slot |-> IF s = call[w].conn THEN None ELSE tx[s]]
      /\ pool' = pool
  BY DEF LeaveBlock, Returned, RolledBack
<1>1. lent \in [Slot -> Worker \cup {None}] /\ tx \in [Slot -> Worker \cup {None}]
  BY DEF PoolInv, PoolTypeOK
<1>2. CASE call[w].conn \notin Slot
  <2>1. lent' = lent /\ tx' = tx
    BY <1>0, <1>1, <1>2
  <2> QED  BY <1>0, <2>1, ShelfUntouched
<1>3. CASE call[w].conn \in Slot
  <2>1. lent[call[w].conn] = w
    BY <1>3 DEF PoolInv, PoolAccounted
  <2>2. /\ lent' = [lent EXCEPT ![call[w].conn] = None]
        /\ tx' = [tx EXCEPT ![call[w].conn] = None]
    BY <1>0, <1>1, <1>3
  <2>3. Shelf!GiveBack(call[w].conn, w)
    BY <1>0, <2>1, <2>2 DEF Shelf!GiveBack
  <2> QED  BY <1>3, <2>3 DEF Shelf!Next
<1> QED  BY <1>2, <1>3

LEMMA ThreadsUseShelf ==
    ASSUME PoolInv, NEW w \in Worker, CallStep(w)
    PROVE  [Shelf!Next]_(Shelf!vars)
<1>1. CASE LookAtPool(w) \/ BindPool(w)
  BY <1>1, ShelfUntouched DEF LookAtPool, BindPool
<1> QED  BY <1>1, AcquireIsLend, StatementIsWork, LeaveIsGiveBack DEF CallStep

\* The start and the end of lifespan() open the pool and shut it, or do neither.
LEMMA LifespanKeepsShelf ==
    ASSUME PoolInv, (InitPool /\ pool = "absent") \/ ShutPool \/ ForgetPool
    PROVE  [Shelf!Next]_(Shelf!vars)
<1>1. CASE InitPool /\ pool = "absent"
  <2>1. CASE pool' = "open"
    <3>1. Shelf!Open
      BY <1>1, <2>1 DEF InitPool, Shelf!Open
    <3> QED  BY <3>1 DEF Shelf!Next
  <2>2. CASE pool' # "open"
    BY <1>1, <2>2 DEF InitPool, Shelf!vars
  <2> QED  BY <2>1, <2>2
<1>2. CASE ShutPool
  <2>1. CASE pool = "open" /\ ~CloseRefused
    <3>1. lent = [s \in Slot |-> None]
      BY <2>1 DEF CloseRefused, PoolInv, PoolTypeOK
    <3>2. Shelf!Shut
      BY <1>2, <2>1, <3>1 DEF ShutPool, Shelf!Shut, Shelf!AllBack
    <3> QED  BY <3>2 DEF Shelf!Next
  <2>2. CASE ~(pool = "open" /\ ~CloseRefused)
    BY <1>2, <2>2, ShelfUntouched DEF ShutPool
  <2> QED  BY <2>1, <2>2
<1>3. CASE ForgetPool
  BY <1>3, ShelfUntouched DEF ForgetPool
<1> QED  BY <1>1, <1>2, <1>3

\* With the process goes its pool.
LEMMA ShelfLost ==
    ASSUME ProcessLost
    PROVE  Shelf!Next
BY DEF ProcessLost, PoolLost, NoneLent, Shelf!Next, Shelf!Lost, Shelf!AllBack

\* A request that takes no step of its thread leaves the shelf alone.
LEMMA RequestsLeaveShelf ==
    ASSUME NEW r \in Request, RequestStep(r)
    PROVE  UNCHANGED Shelf!vars
<1>1. UNCHANGED <<pool, lent, tx>>
  <2>1. CASE Transcribe(r) \/ ResolveToken(r)
    BY <2>1 DEF Transcribe, ResolveToken, EndIfCut, Refuse, Reply, Enter
  <2>2. CASE GetApp(r) \/ GetMcpAgent(r) \/ QueryAnswered(r)
    BY <2>2 DEF GetApp, GetMcpAgent, QueryAnswered, BeginRun, Enter
  <2>3. CASE RunEnds(r) \/ SaveHistory(r) \/ Speak(r)
    BY <2>3 DEF RunEnds, SaveHistory, Speak, EndIfCut, Reply, Enter
  <2>4. CASE Stream(r)
    BY <2>4 DEF Stream, Enter, poolVars
  <2> QED  BY <2>1, <2>2, <2>3, <2>4 DEF RequestStep
<1> QED  BY <1>1, ShelfUntouched

LEMMA SystemUsesShelf ==
    ASSUME IInv, SystemStep
    PROVE  [Shelf!Next]_(Shelf!vars)
<1>1. ASSUME NEW r \in Request, RequestStep(r) \/ ReaderStep(r)
      PROVE  [Shelf!Next]_(Shelf!vars)
  <2>1. CASE RequestStep(r)
    BY <2>1, RequestsLeaveShelf
  <2>2. CASE ReaderStep(r)
    BY <2>2, ShelfUntouched DEF ReaderStep, poolVars
  <2> QED  BY <1>1, <2>1, <2>2
<1>2. ASSUME NEW w \in Worker, ThreadStep(w) PROVE [Shelf!Next]_(Shelf!vars)
  BY <1>2, ThreadsUseShelf DEF ThreadStep, IInv
<1>3. ASSUME NEW c \in Request \cup {Boot}, AskForTools(c) \/ GetTools(c)
      PROVE  [Shelf!Next]_(Shelf!vars)
  BY <1>3, ShelfUntouched DEF AskForTools, GetTools, AskServers, ServersAnswer, poolVars
<1>4. CASE BootStep
  <2>1. CASE OpenCheckpointer
    BY <2>1, ShelfUntouched DEF OpenCheckpointer, poolVars
  <2>2. CASE CheckpointerFails
    BY <2>2, ShelfLost DEF CheckpointerFails
  <2> QED  BY <1>4, <2>1, <2>2 DEF BootStep
<1>5. CASE ShutdownStep
  <2>1. CASE CloseCheckpointer
    BY <2>1, ShelfUntouched DEF CloseCheckpointer, poolVars
  <2>2. CASE ClosePool
    BY <2>2, LifespanKeepsShelf DEF ClosePool, IInv
  <2>3. CASE ProcessEnds
    BY <2>3, ShelfLost DEF ProcessEnds
  <2> QED  BY <1>5, <2>1, <2>2, <2>3 DEF ShutdownStep
<1> QED  BY <1>1, <1>2, <1>3, <1>4, <1>5 DEF SystemStep

LEMMA EnvironmentKeepsShelf ==
    ASSUME IInv, EnvironmentStep
    PROVE  [Shelf!Next]_(Shelf!vars)
<1>1. CASE \E r \in Request, k \in Kinds, g \in BOOLEAN : Arrive(r, k, g)
  BY <1>1, ShelfUntouched DEF Arrive
<1>2. CASE \E r \in Request : HangUp(r)
  BY <1>2, ShelfUntouched DEF HangUp
<1>3. CASE BeginStart
  <2>1. InitPool /\ pool = "absent"
    BY <1>3 DEF BeginStart, StartProcess, IInv, LifeInv
  <2> QED  BY <2>1, LifespanKeepsShelf DEF IInv
<1>4. CASE BeginStop
  BY <1>4, ShelfUntouched DEF BeginStop, Stop, poolVars
<1>5. CASE Crash
  BY <1>5, ShelfLost DEF Crash
<1> QED  BY <1>1, <1>2, <1>3, <1>4, <1>5 DEF EnvironmentStep

-----------------------------------------------------------------------------
(* The theorems.                                                           *)

LEMMA InitInv == Init => IInv
<1> SUFFICES ASSUME Init PROVE IInv
  OBVIOUS
<1> USE DEF Init, BootInit, StreamInit
<1>1. req = [r \in Request |-> Request0] /\ Request0 \in RequestState
      /\ Request0.kind = None /\ Request0.pc = "new"
  BY DEF Request0, RequestState, Stage
<1>2. RequestInv
  BY <1>1 DEF RequestInv, RequestOK, InFlight
<1>3. call = [w \in Worker |-> Idle] /\ lent = NoneLent /\ tx = NoneLent
      /\ pool = "absent" /\ named = FALSE
  BY DEF PoolInit
<1>4. PoolInv
  BY <1>3, CallStates, ConstantsApart
     DEF PoolInv, PoolTypeOK, PoolAccounted, CleanHandover, NoneLent, CallState
<1>5. ThreadsOfRequests
  BY <1>3, CallStates, WorkersAreRequests DEF ThreadsOfRequests, Active
<1>6. LifeInv
  <2>1. 0 \in 0 .. MaxStarts
    BY LifespanAssumption
  <2> QED  BY <1>3, <2>1 DEF LifeInv, BootTypeOK, Fresh, Phase, App
<1>7. StreamInv
  <2>1. <<>> \in Plans /\ <<>> \in Seq(Lines) /\ <<>> \in Restored
        /\ Len(<<>>) <= MaxChunks + 1 /\ 0 \in 0 .. MaxChunks + 1
    BY EmptySeq, WorkersAreRequests DEF Plans, Restored
  <2>2. Sound(<<>>, 0, <<>>, <<>>, <<>>) /\ Whole(0, <<>>, <<>>, <<>>)
    BY <2>1, EmptyStream
  <2>3. StreamTypeOK
    BY <2>1 DEF StreamTypeOK, Plans, Restored
  <2>4. \A r \in Request : StreamOK(r) /\ SendingOK(r)
    BY <2>2 DEF StreamOK, SendingOK, Sending
  <2> QED  BY <2>3, <2>4 DEF StreamInv
<1> QED  BY <1>2, <1>4, <1>5, <1>6, <1>7 DEF IInv

LEMMA StutterInv ==
    ASSUME IInv, UNCHANGED vars
    PROVE  IInv'
<1>1. UNCHANGED <<req, poolVars, bootVars, streamVars>>
  BY DEF vars
<1>2. LifeInv' /\ Steady
  BY <1>1 DEF IInv, LifeInv, BootTypeOK, Fresh, ConfiguredSaver, bootVars, poolVars, Steady, Up
<1> QED  BY <1>1, <1>2, RequestsStay, ThreadsStay, StreamsStay DEF IInv

LEMMA RequestStepInv ==
    ASSUME IInv, NEW r \in Request, RequestStep(r)
    PROVE  IInv'
BY TranscribeInv, ResolveTokenInv, GetAppInv, GetMcpAgentInv, QueryAnsweredInv,
   RunEndsInv, SaveHistoryInv, SpeakInv, StreamStepInv DEF RequestStep

LEMMA NextInv == IInv /\ [Next]_vars => IInv'
<1> SUFFICES ASSUME IInv, [Next]_vars PROVE IInv'
  OBVIOUS
<1>1. CASE SystemStep
  BY <1>1, RequestStepInv, ReaderStepInv, ThreadStepInv, AskForToolsInv, GetToolsInv,
     BootStepInv, ShutdownStepInv DEF SystemStep
<1>2. CASE EnvironmentStep
  BY <1>2, ArriveInv, HangUpInv, BeginStartInv, BeginStopInv, CrashInv DEF EnvironmentStep
<1>3. CASE UNCHANGED vars
  BY <1>3, StutterInv
<1> QED  BY <1>1, <1>2, <1>3 DEF Next

LEMMA Invariant == Spec => []IInv
BY InitInv, NextInv, PTL DEF Spec

\* The variables of the process, its pool, its requests and their streams keep
\* their types (main.py, oracle_db.py, the chat routers, stream_util.py).
THEOREM ServerTypeCorrect == Spec => []TypeOK
<1>1. IInv => TypeOK
  BY DEF IInv, TypeOK, RequestInv, RequestState, PoolInv, LifeInv, StreamInv
<1> QED  BY <1>1, Invariant, PTL

\* Every connection of the pool is lent to the one worker that uses it, and the
\* pool is never closed under a running statement (get_connection, close_pool).
THEOREM PoolIsAccountedFor == Spec => []PoolAccounted
<1>1. IInv => PoolAccounted
  BY DEF IInv, PoolInv
<1> QED  BY <1>1, Invariant, PTL

\* No statement runs on a connection that carries somebody else's uncommitted
\* change (the with block of every function of oracle_db.py).
THEOREM HandoverIsClean == Spec => []CleanHandover
<1>1. IInv => CleanHandover
  BY DEF IInv, PoolInv
<1> QED  BY <1>1, Invariant, PTL

\* Whatever requests, threads, clients and the process do, fail or lose, the pool
\* does what a shelf of connections does: one holder each, changes by the holder
\* only, and back without a rest (get_connection, init_pool, close_pool).
THEOREM PoolIsAShelf == Spec => LeaseSpec
<1>1. IInv /\ [Next]_vars => [Shelf!Next]_(Shelf!vars)
  <2>1. CASE UNCHANGED vars
    BY <2>1, ShelfUntouched DEF vars, poolVars
  <2> QED  BY <2>1, SystemUsesShelf, EnvironmentKeepsShelf DEF Next
<1> QED  BY <1>1, ShelfInit, Invariant, PTL DEF Spec, LeaseSpec, Shelf!Spec

\* All graphs of the process share the configured checkpointer, and it is open
\* while a run may use it (open_checkpointer, the lazy getters of the routers).
THEOREM MemoryIsOne == Spec => []OneMemory
<1>1. IInv => OneMemory
  <2> SUFFICES ASSUME IInv PROVE OneMemory
    OBVIOUS
  <2>1. \A a \in App : bound[a] # None => bound[a] = saver
    BY DEF IInv, LifeInv, Fresh
  <2>2. Up => saver = ConfiguredSaver
    BY DEF IInv, LifeInv, Up
  <2>3. ASSUME NEW r \in Request, req[r].pc \in {"query", "run"}
        PROVE  saverOpen /\ bound[AppOf(req[r].kind)] # None
    <3>1. Up
      BY <2>3, InFlightIsServed DEF InFlight
    <3> QED  BY <2>3, <3>1, SaverWhenUp DEF IInv, RequestInv, RequestOK
  <2> QED  BY <2>1, <2>2, <2>3 DEF OneMemory
<1> QED  BY <1>1, Invariant, PTL

\* However the network cuts a stream, the reader restores the events that were
\* sent, each once, in order and complete (sse_event against feed_stream).
THEOREM StreamsAreRestored == Spec => []StreamInOrder
<1>1. IInv => StreamInOrder
  <2> SUFFICES ASSUME IInv, NEW r \in Request
               PROVE  /\ Len(got[r]) <= sent[r]
                      /\ \A i \in 1 .. Len(got[r]) : got[r][i] = <<i, i>>
    BY DEF StreamInOrder
  <2>1. Sound(plan[r], sent[r], wire[r], buffer[r], got[r]) /\ sent[r] \in Nat
        /\ Len(got[r]) \in Nat /\ Len(buffer[r]) \in Nat /\ Len(wire[r]) \in Nat
    BY StreamTypes, LenProperties DEF IInv, Restored
  <2> DEFINE g == Len(got[r])   b == Len(buffer[r])   w == Len(wire[r])
             s == sent[r]
  <2>2. g \in Nat /\ b \in Nat /\ w \in Nat /\ s \in Nat /\ 3 * g + b + w <= 3 * s
    BY <2>1 DEF Sound
  <2>3. g <= s
    <3> HIDE DEF g, b, w, s
    <3> QED  BY <2>2
  <2> QED  BY <2>1, <2>3 DEF Sound
<1> QED  BY <1>1, Invariant, PTL

\* The agent that answers in one life of the process keeps its tools, because
\* none of its requests ever has to ask for them (get_mcp_tools, prefetch_mcp_tools).
THEOREM ToolSetIsOne == Spec => OneToolSet
<1> DEFINE Kept == phase' # "down" => /\ mcpTools # None => mcpTools' = mcpTools
                                      /\ tools # None => tools' = tools
<1>1. IInv /\ [Next]_vars => [Kept]_bootVars
  <2> SUFFICES ASSUME IInv, Next, ~Kept PROVE FALSE
    BY DEF vars
  <2>1. ~UNCHANGED <<tools, mcpTools>> /\ phase' # "down"
    OBVIOUS
  <2>2. ASSUME NEW r \in Request, RequestStep(r) PROVE FALSE
    <3>1. GetMcpAgent(r)
      BY <2>1, <2>2 DEF RequestStep, Transcribe, ResolveToken, GetApp, QueryAnswered,
         RunEnds, SaveHistory, Speak, Stream, bootVars, toolVars
    <3> QED  BY <2>1, <3>1 DEF GetMcpAgent, toolVars
  <2>3. ASSUME NEW c \in Request \cup {Boot}, GetTools(c) PROVE FALSE
    <3>1. c = Boot /\ phase = "tools" /\ tools = None
      BY <2>3 DEF GetTools, ServersAnswer, IInv, LifeInv
    <3> QED  BY <2>3, <3>1 DEF GetTools, ServersAnswer
  <2>4. CASE SystemStep
    BY <2>1, <2>2, <2>3, <2>4
       DEF SystemStep, ReaderStep, ThreadStep, AskForTools, AskServers, BootStep,
           OpenCheckpointer, CheckpointerFails, ShutdownStep, CloseCheckpointer, ClosePool,
           ProcessEnds, ProcessLost, bootVars, toolVars
  <2>5. CASE EnvironmentStep
    BY <2>1, <2>5 DEF EnvironmentStep, Arrive, HangUp, BeginStart, StartProcess, BeginStop,
       Stop, Crash, ProcessLost, bootVars, toolVars
  <2> QED  BY <2>4, <2>5 DEF Next
<1>2. Spec => [][Kept]_bootVars
  BY <1>1, Invariant, PTL DEF Spec
<1> QED  BY <1>2 DEF OneToolSet
=============================================================================
