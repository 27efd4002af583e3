--------------------------- MODULE ChatTurnProofs ---------------------------
(***************************************************************************)
(* The types and the control flow of a request of ChatTurn, for any number *)
(* of members, sessions, requests and request ids, with every failure,     *)
(* expiry and restart.                                                     *)
(***************************************************************************)
EXTENDS ChatTurn, SequenceTheorems, TLAPS

-----------------------------------------------------------------------------
(* The control flow of one request.                                        *)

\* What the locals of a request are at each of its awaits.
FlowOK(q) ==
    /\ q.pc = "idle" => q = Idle
    /\ q.pc \in {"acquire", "load", "nodes", "append", "save", "touch"} =>
          q.kind = "turn"
    /\ q.pc = "acquire" => (q.member = None => q.session = None)
    /\ q.pc = "resolve" =>
          /\ q.member \in Member
          /\ q.kind \in {"read", "delete"} => q.session \in Session
          /\ q.kind = "create" => q.session = None
          /\ q.kind # "none"
    /\ q.pc = "create" => q.member \in Member /\ q.session = None
                            /\ q.kind \in {"turn", "create"}
    /\ q.pc \in {"owner", "history", "save", "touch", "drop_row", "drop_thread"} =>
          q.member \in Member /\ q.session \in Session
    /\ q.pc \in {"drop_row", "drop_thread"} => q.kind = "delete"
    /\ q.pc = "owner" => q.kind \in {"turn", "read", "delete"}
    /\ q.pc = "history" => q.kind \in {"turn", "read"}
    /\ q.pc \in {"load", "nodes", "append"} => (q.member = None <=> q.session = None)
    /\ q.status # "none" => q.pc = "done"

FlowInv == TypeOK /\ \A r \in Request : FlowOK(req[r])

\* A step that moves one request to a state its control flow allows.
LEMMA MoveOne ==
    ASSUME req \in [Request -> RequestState], \A x \in Request : FlowOK(req[x]),
           NEW r \in Request, NEW q \in RequestState, FlowOK(q),
           req' = [req EXCEPT ![r] = q]
    PROVE  /\ req' \in [Request -> RequestState]
           /\ \A x \in Request : FlowOK(req'[x])
           /\ req'[r] = q
           /\ \A x \in Request \ {r} : req'[x] = req[x]
OBVIOUS

\* The records the steps of a request make of its record.
LEMMA MovedRecord ==
    ASSUME NEW q \in RequestState, NEW p \in Pc
    PROVE  /\ [q EXCEPT !.pc = p] \in RequestState
           /\ [q EXCEPT !.pc = p, !.admitted = "open"] \in RequestState
<1>1. [q EXCEPT !.pc = p] \in RequestState
  BY DEF RequestState
<1>2. [q EXCEPT !.pc = p, !.admitted = "open"] \in RequestState
  BY DEF RequestState
<1> QED  BY <1>1, <1>2

\* The record of a request that ends.
LEMMA EndedRecord ==
    ASSUME NEW q \in RequestState, NEW p \in Pc, NEW st \in Status, NEW h \in Hits
    PROVE  /\ [q EXCEPT !.pc = p, !.status = st] \in RequestState
           /\ [q EXCEPT !.pc = p, !.status = st, !.sources = h] \in RequestState
<1>1. [q EXCEPT !.pc = p, !.status = st] \in RequestState
  BY DEF RequestState
<1>2. [q EXCEPT !.pc = p, !.status = st, !.sources = h] \in RequestState
  BY DEF RequestState
<1> QED  BY <1>1, <1>2

\* The record of a turn whose request id was accepted.
LEMMA AdmittedRecord ==
    ASSUME NEW q \in RequestState, NEW p \in Pc, NEW n \in Nat
    PROVE  [q EXCEPT !.pc = p, !.admitted = "key", !.age = n] \in RequestState
BY DEF RequestState

\* The record of a request that has made its session.
LEMMA SessionRecord ==
    ASSUME NEW q \in RequestState, NEW p \in Pc, NEW st \in Status, NEW s \in Session
    PROVE  /\ [q EXCEPT !.session = s, !.pc = p] \in RequestState
           /\ [q EXCEPT !.session = s, !.pc = p, !.status = st] \in RequestState
<1>1. [q EXCEPT !.session = s, !.pc = p] \in RequestState
  BY DEF RequestState
<1>2. [q EXCEPT !.session = s, !.pc = p, !.status = st] \in RequestState
  BY DEF RequestState
<1> QED  BY <1>1, <1>2

\* The records of a request that has read turns.
LEMMA TurnsRecord ==
    ASSUME NEW q \in RequestState, NEW p \in Pc, NEW st \in Status,
           NEW turns \in Seq(Turn), NEW h \in Hits, NEW i \in Intent,
           NEW f \in {"client", "memory", "error"}
    PROVE  /\ [q EXCEPT !.seen = turns, !.from = f, !.pc = p] \in RequestState
           /\ [q EXCEPT !.seen = turns, !.from = f, !.pc = p, !.status = st] \in RequestState
           /\ [q EXCEPT !.pc = p, !.base = turns, !.hits = h] \in RequestState
           /\ [q EXCEPT !.pc = p, !.intent = i, !.hits = h] \in RequestState
<1>1. [q EXCEPT !.seen = turns, !.from = f, !.pc = p] \in RequestState
  BY DEF RequestState
<1>2. [q EXCEPT !.seen = turns, !.from = f, !.pc = p, !.status = st] \in RequestState
  BY DEF RequestState
<1>3. [q EXCEPT !.pc = p, !.base = turns, !.hits = h] \in RequestState
  BY DEF RequestState
<1>4. [q EXCEPT !.pc = p, !.intent = i, !.hits = h] \in RequestState
  BY DEF RequestState
<1> QED  BY <1>1, <1>2, <1>3, <1>4

\* A request that goes on to its next await.
LEMMA GotoFlow ==
    ASSUME FlowInv, NEW r \in Request, NEW label \in Pc, Goto(r, label),
           FlowOK([req[r] EXCEPT !.pc = label])
    PROVE  req' \in [Request -> RequestState] /\ \A x \in Request : FlowOK(req'[x])
<1>1. [req[r] EXCEPT !.pc = label] \in RequestState
  BY MovedRecord DEF FlowInv, TypeOK
<1>2. req' = [req EXCEPT ![r] = [req[r] EXCEPT !.pc = label]]
  BY DEF Goto
<1> QED  BY <1>1, <1>2, MoveOne DEF FlowInv, TypeOK

\* A request that ends may be anywhere.
LEMMA FinishFlow ==
    ASSUME FlowInv, NEW r \in Request, NEW status \in Status, Finish(r, status)
    PROVE  req' \in [Request -> RequestState] /\ \A x \in Request : FlowOK(req'[x])
<1> DEFINE q == [req[r] EXCEPT !.pc = "done", !.status = status]
<1>0. req[r] \in RequestState /\ "done" \in Pc
  BY DEF FlowInv, TypeOK, Pc
<1>1. q \in RequestState
  BY <1>0, EndedRecord DEF Hits
<1>2. q.pc = "done"
  BY <1>0 DEF RequestState
<1>3. FlowOK(q)
  BY <1>2 DEF FlowOK
<1>4. req' = [req EXCEPT ![r] = q]
  BY DEF Finish
<1> HIDE DEF q
<1> QED  BY <1>1, <1>3, <1>4, MoveOne DEF FlowInv, TypeOK

\* A turn that is answered.
LEMMA RespondFlow ==
    ASSUME FlowInv, NEW r \in Request, Respond(r)
    PROVE  req' \in [Request -> RequestState] /\ \A x \in Request : FlowOK(req'[x])
<1> DEFINE q == [req[r] EXCEPT !.pc = "done", !.status = "ok",
                               !.sources = ResponseSources(req[r].intent, req[r].hits)]
<1>0. req[r] \in RequestState /\ "done" \in Pc /\ "ok" \in Status
  BY DEF FlowInv, TypeOK, Pc, Status
<1>1. ResponseSources(req[r].intent, req[r].hits) \in Hits
  BY <1>0 DEF RequestState, ResponseSources, Hits
<1>2. q \in RequestState
  BY <1>0, <1>1, EndedRecord
<1>3. q.pc = "done"
  BY <1>0 DEF RequestState
<1>4. FlowOK(q)
  BY <1>3 DEF FlowOK
<1>5. req' = [req EXCEPT ![r] = q]
  BY DEF Respond
<1> HIDE DEF q
<1> QED  BY <1>2, <1>4, <1>5, MoveOne DEF FlowInv, TypeOK

\* What a client sends is a history.
LEMMA ClientHistoryType ==
    ASSUME NEW m, NEW s, NEW h \in ClientHistories(m, s)
    PROVE  h \in Seq(Turn)
<1> DEFINE answered == {x \in Request : /\ req[x].kind = "turn" /\ req[x].status = "ok"
                                       /\ req[x].member = m /\ req[x].session = s}
<1>1. PICK n \in 0..MaxHistory : h \in [1..n -> [by : answered, sources : {{}}]]
  BY DEF ClientHistories
<1>2. [by : answered, sources : {{}}] \subseteq Turn
  BY DEF Turn, Hits
<1>3. n \in Nat
  BY <1>1, ChatTurnAssumption
<1> HIDE DEF answered
<1> QED  BY <1>1, <1>2, <1>3

\* The window is a number of turns.
LEMMA KeptType == Kept \in Nat
BY ChatTurnAssumption DEF Kept

\* What trim_history leaves is a history: all of it, or its last turns.
LEMMA TrimType ==
    ASSUME NEW turns \in Seq(Turn)
    PROVE  TrimHistory(turns) \in Seq(Turn)
BY KeptType DEF TrimHistory

\* A request that has not arrived.
LEMMA IdleState == Idle \in RequestState /\ FlowOK(Idle)
<1>1. <<>> \in Seq(Turn) /\ {} \in Hits /\ "OTHER" \in Intent
  BY EmptySeq DEF Hits, Intent
<1> QED  BY <1>1 DEF Idle, RequestState, Pc, Status, FlowOK

\* The checkpoint a run writes is one.
LEMMA CheckpointType ==
    ASSUME TypeOK, NEW r \in Request, NEW turns \in Seq(Turn), NEW hits \in Hits,
           WriteCheckpoint(r, turns, hits)
    PROVE  thread' \in [Session -> Checkpoint]
<1>1. [turns |-> turns, hits |-> hits] \in Checkpoint
  BY DEF Checkpoint
<1>2. thread \in [Session -> Checkpoint]
  BY DEF TypeOK
<1> QED  BY <1>1, <1>2 DEF WriteCheckpoint

\* A thread without turns.
LEMMA NoTurns == EmptyCheckpoint \in Checkpoint
BY EmptySeq DEF EmptyCheckpoint, Checkpoint, Hits

\* Every step keeps types and control flow.
LEMMA FlowStep == FlowInv /\ [Next]_vars => FlowInv'
<1> SUFFICES ASSUME FlowInv, [Next]_vars PROVE FlowInv'
  OBVIOUS
<1> USE ChatTurnAssumption
<1>0. TypeOK /\ \A x \in Request : req[x] \in RequestState /\ FlowOK(req[x])
  BY DEF FlowInv, TypeOK
<1>1. ASSUME NEW r \in Request, Arrive(r)
      PROVE  FlowInv'
  <2>0. PICK k \in Kinds, m \in Member \cup {None}, s \in Session \cup {None},
             i \in RequestId \cup {None} : \E h \in ClientHistories(m, s) :
           /\ m = None => k = "turn" /\ s = None
           /\ s # None => owner[s] # None
           /\ (m # None /\ s = None) => SessionLeft
           /\ k = "create" => s = None
           /\ k \in {"read", "delete"} => s # None
           /\ k # "turn" => i = None /\ h = <<>>
           /\ req' = [req EXCEPT ![r] =
               [@ EXCEPT !.pc = IF k = "turn" THEN "acquire" ELSE "resolve",
                         !.kind = k, !.member = m, !.session = s, !.rid = i,
                         !.seen = h]]
    BY <1>1 DEF Arrive
  <2>1. PICK h \in ClientHistories(m, s) :
           /\ m = None => k = "turn" /\ s = None
           /\ s # None => owner[s] # None
           /\ (m # None /\ s = None) => SessionLeft
           /\ k = "create" => s = None
           /\ k \in {"read", "delete"} => s # None
           /\ k # "turn" => i = None /\ h = <<>>
           /\ req' = [req EXCEPT ![r] =
               [@ EXCEPT !.pc = IF k = "turn" THEN "acquire" ELSE "resolve",
                         !.kind = k, !.member = m, !.session = s, !.rid = i,
                         !.seen = h]]
    BY <2>0
  <2>8. h \in Seq(Turn)
    BY ClientHistoryType
  <2> DEFINE p == IF k = "turn" THEN "acquire" ELSE "resolve"
             q == [req[r] EXCEPT !.pc = p, !.kind = k, !.member = m, !.session = s, !.rid = i,
                         !.seen = h]
  <2>2. req[r] \in RequestState /\ req[r].status = "none"
    BY <1>0, <1>1 DEF Arrive, At, FlowOK, Idle
  <2>3. q \in RequestState
    <3>1. p \in Pc
      BY DEF Pc
    <3> HIDE DEF p
    <3> QED  BY <2>2, <2>8, <3>1 DEF RequestState
  <2>4. /\ q.pc = IF k = "turn" THEN "acquire" ELSE "resolve"
        /\ q.kind = k /\ q.member = m /\ q.session = s /\ q.status = "none"
    BY <2>2 DEF RequestState
  <2>5. FlowOK(q)
    BY <2>1, <2>4, ChatTurnAssumption DEF FlowOK
  <2>6. req' = [req EXCEPT ![r] = q]
    BY <2>1
  <2> HIDE DEF q
  <2>7. req' \in [Request -> RequestState] /\ \A x \in Request : FlowOK(req'[x])
    BY <1>0, <2>3, <2>5, <2>6, MoveOne DEF TypeOK
  <2> QED  BY <1>0, <1>1, <2>7 DEF Arrive, FlowInv, TypeOK, Tables
<1>2. ASSUME NEW r \in Request, TryAcquire(r)
      PROVE  FlowInv'
  <2>1. /\ req[r] \in RequestState /\ req[r].kind = "turn" /\ req[r].status = "none"
        /\ req[r].member = None => req[r].session = None
        /\ req[r].member \in Member \cup {None}
        /\ req[r].session \in Session \cup {None}
        /\ req[r].rid \in RequestId \cup {None} /\ req[r].age \in Nat
    BY <1>0, <1>2 DEF TryAcquire, At, FlowOK, RequestState
  <2>2. ASSUME NEW q \in RequestState, req' = [req EXCEPT ![r] = q],
               q.pc = AfterAcquire(r), q.kind = "turn", q.member = req[r].member,
               q.session = req[r].session, q.status = "none"
        PROVE  req' \in [Request -> RequestState] /\ \A x \in Request : FlowOK(req'[x])
    <3>1. q.pc = IF req[r].member = None THEN "load" ELSE "resolve"
      BY <2>2 DEF AfterAcquire
    <3>2. FlowOK(q)
      BY <2>1, <2>2, <3>1 DEF FlowOK
    <3> QED  BY <1>0, <2>2, <3>2, MoveOne DEF TypeOK
  <2> DEFINE i == req[r].rid
             key == [req[r] EXCEPT !.pc = AfterAcquire(r), !.admitted = "key",
                                   !.age = life[i]]
             open == [req[r] EXCEPT !.pc = AfterAcquire(r), !.admitted = "open"]
  <2>3. AfterAcquire(r) \in Pc
    BY DEF AfterAcquire, Pc
  <2>4. ASSUME i # None, req' = [req EXCEPT ![r] = key]
        PROVE  req' \in [Request -> RequestState] /\ \A x \in Request : FlowOK(req'[x])
    <3>1. i \in RequestId /\ life[i] \in Nat
      BY <1>0, <2>1, <2>4 DEF TypeOK
    <3>2. key \in RequestState
      BY <2>1, <2>3, <3>1, AdmittedRecord
    <3>3. /\ key.pc = AfterAcquire(r) /\ key.kind = "turn" /\ key.member = req[r].member
          /\ key.session = req[r].session /\ key.status = "none"
      BY <2>1 DEF RequestState
    <3> HIDE DEF key
    <3> QED  BY <2>2, <2>4, <3>2, <3>3
  <2>5. ASSUME req' = [req EXCEPT ![r] = open]
        PROVE  req' \in [Request -> RequestState] /\ \A x \in Request : FlowOK(req'[x])
    <3>1. open \in RequestState
      BY <2>1, <2>3, MovedRecord
    <3>2. /\ open.pc = AfterAcquire(r) /\ open.kind = "turn" /\ open.member = req[r].member
          /\ open.session = req[r].session /\ open.status = "none"
      BY <2>1 DEF RequestState
    <3> HIDE DEF open
    <3> QED  BY <2>2, <2>5, <3>1, <3>2
  <2>6. ASSUME RejectDuplicate(r)
        PROVE  req' \in [Request -> RequestState] /\ \A x \in Request : FlowOK(req'[x])
    BY <2>6, FinishFlow DEF RejectDuplicate, Status
  <2>7. req' \in [Request -> RequestState] /\ \A x \in Request : FlowOK(req'[x])
    <3>1. \/ i # None /\ req' = [req EXCEPT ![r] = key]
          \/ RejectDuplicate(r)
          \/ req' = [req EXCEPT ![r] = open]
      BY <1>0, <1>2 DEF TryAcquire, TypeOK
    <3> HIDE DEF key, open
    <3> QED  BY <2>4, <2>5, <2>6, <3>1, Zenon
  <2>8. idem' \in SUBSET RequestId
    BY <1>0, <1>2, <2>1 DEF TryAcquire, TypeOK
  <2> QED  BY <1>0, <1>2, <2>7, <2>8 DEF TryAcquire, FlowInv, TypeOK, Tables
<1>3. ASSUME NEW r \in Request, ResolveToken(r)
      PROVE  FlowInv'
  <2>1. CASE Goto(r, AfterResolve(r))
    <3> DEFINE q == [req[r] EXCEPT !.pc = AfterResolve(r)]
    <3>1. req[r] \in RequestState /\ req[r].pc = "resolve" /\ req[r].status = "none"
          /\ AfterResolve(r) \in Pc
      BY <1>0, <1>3 DEF ResolveToken, At, FlowOK, AfterResolve, Pc
    <3>2. /\ q.pc = IF req[r].session # None THEN "owner" ELSE "create"
          /\ q.kind = req[r].kind /\ q.member = req[r].member /\ q.session = req[r].session
          /\ q.status = "none"
      BY <3>1 DEF RequestState, AfterResolve
    <3>3. req[r].kind \in Kinds \cup {"none"} /\ req[r].session \in Session \cup {None}
      BY <3>1 DEF RequestState
    <3>4. FlowOK(q)
      BY <1>0, <3>1, <3>2, <3>3, ChatTurnAssumption DEF FlowOK
    <3>5. req' \in [Request -> RequestState] /\ \A x \in Request : FlowOK(req'[x])
      BY <2>1, <3>1, <3>4, GotoFlow
    <3> QED  BY <1>0, <1>3, <3>5 DEF ResolveToken, FlowInv, TypeOK, Tables
  <2>2. CASE Finish(r, "401")
    <3>1. req' \in [Request -> RequestState] /\ \A x \in Request : FlowOK(req'[x])
      BY <2>2, FinishFlow DEF Status
    <3> QED  BY <1>0, <1>3, <3>1 DEF ResolveToken, FlowInv, TypeOK, Tables
  <2> QED  BY <1>3, <2>1, <2>2 DEF ResolveToken
<1>4. ASSUME NEW r \in Request, CheckOwner(r)
      PROVE  FlowInv'
  <2>1. CASE OwnsSession(r)
    <3> DEFINE p == IF req[r].kind = "delete" THEN "drop_row" ELSE "history"
               q == [req[r] EXCEPT !.pc = p]
    <3>1. req[r] \in RequestState /\ req[r].pc = "owner" /\ req[r].status = "none"
          /\ p \in Pc
      BY <1>0, <1>4 DEF CheckOwner, At, FlowOK, Pc
    <3>2. /\ q.pc = p /\ q.kind = req[r].kind /\ q.member = req[r].member
          /\ q.session = req[r].session /\ q.status = "none"
      BY <3>1 DEF RequestState
    <3>3. FlowOK(q)
      BY <1>0, <3>1, <3>2 DEF FlowOK
    <3>4. Goto(r, p)
      BY <1>4, <2>1 DEF CheckOwner
    <3>5. req' \in [Request -> RequestState] /\ \A x \in Request : FlowOK(req'[x])
      BY <3>1, <3>3, <3>4, GotoFlow
    <3> QED  BY <1>0, <1>4, <3>5 DEF CheckOwner, FlowInv, TypeOK, Tables
  <2>2. CASE ~OwnsSession(r)
    <3>1. Finish(r, "404")
      BY <1>4, <2>2 DEF CheckOwner
    <3>2. req' \in [Request -> RequestState] /\ \A x \in Request : FlowOK(req'[x])
      BY <3>1, FinishFlow DEF Status
    <3> QED  BY <1>0, <1>4, <3>2 DEF CheckOwner, FlowInv, TypeOK, Tables
  <2> QED  BY <2>1, <2>2
<1>5. ASSUME NEW r \in Request, CreateSession(r)
      PROVE  FlowInv'
  <2>1. PICK s \in Session :
           /\ owner' = [owner EXCEPT ![s] = req[r].member]
           /\ live' = live \cup {s}
           /\ req' = IF req[r].kind = "create"
                     THEN [req EXCEPT ![r].session = s, ![r].pc = "done",
                                      ![r].status = "ok"]
                     ELSE [req EXCEPT ![r].session = s, ![r].pc = "history"]
    BY <1>5 DEF CreateSession
  <2>2. /\ req[r] \in RequestState /\ req[r].pc = "create" /\ req[r].status = "none"
        /\ req[r].member \in Member /\ req[r].kind \in {"turn", "create"}
    BY <1>0, <1>5 DEF CreateSession, At, FlowOK
  <2>3. "done" \in Pc /\ "history" \in Pc /\ "ok" \in Status
    BY DEF Pc, Status
  <2> DEFINE made == [req[r] EXCEPT !.session = s, !.pc = "done", !.status = "ok"]
             on == [req[r] EXCEPT !.session = s, !.pc = "history"]
  <2>4. ASSUME req[r].kind = "create"
        PROVE  req' \in [Request -> RequestState] /\ \A x \in Request : FlowOK(req'[x])
    <3>1. made \in RequestState
      BY <2>2, <2>3, SessionRecord
    <3>2. made.pc = "done"
      BY <2>2 DEF RequestState
    <3>3. req' = [req EXCEPT ![r] = made]
      BY <2>1, <2>4
    <3> HIDE DEF made
    <3>4. FlowOK(made)
      BY <3>2 DEF FlowOK
    <3> QED  BY <1>0, <3>1, <3>3, <3>4, MoveOne DEF TypeOK
  <2>5. ASSUME req[r].kind = "turn"
        PROVE  req' \in [Request -> RequestState] /\ \A x \in Request : FlowOK(req'[x])
    <3>1. on \in RequestState
      BY <2>2, <2>3, SessionRecord
    <3>2. /\ on.pc = "history" /\ on.session = s /\ on.member = req[r].member
          /\ on.kind = "turn" /\ on.status = "none"
      BY <2>2, <2>5 DEF RequestState
    <3>3. req' = [req EXCEPT ![r] = on]
      BY <2>1, <2>5
    <3> HIDE DEF on
    <3>4. FlowOK(on)
      BY <2>2, <3>2 DEF FlowOK
    <3> QED  BY <1>0, <3>1, <3>3, <3>4, MoveOne DEF TypeOK
  <2>6. req' \in [Request -> RequestState] /\ \A x \in Request : FlowOK(req'[x])
    BY <2>2, <2>4, <2>5
  <2> QED  BY <1>0, <1>5, <2>1, <2>2, <2>6 DEF CreateSession, FlowInv, TypeOK
<1>6. ASSUME NEW r \in Request, OracleError(r)
      PROVE  FlowInv'
  <2>1. req' \in [Request -> RequestState] /\ \A x \in Request : FlowOK(req'[x])
    BY <1>6, FinishFlow DEF OracleError, Status
  <2> QED  BY <1>0, <1>6, <2>1 DEF OracleError, FlowInv, TypeOK, Tables
<1>7. ASSUME NEW r \in Request, ResolveHistory(r)
      PROVE  FlowInv'
  <2>1. /\ req[r] \in RequestState /\ req[r].pc = "history" /\ req[r].status = "none"
        /\ req[r].member \in Member /\ req[r].session \in Session
        /\ req[r].kind \in {"turn", "read"}
    BY <1>0, <1>7 DEF ResolveHistory, At, FlowOK
  <2>2. PICK turns \in Seq(Turn), f \in {"client", "memory", "error"} : Shown(r, turns, f)
    <3>1. /\ thread[req[r].session].turns \in Seq(Turn) /\ req[r].seen \in Seq(Turn)
      BY <1>0, <2>1 DEF TypeOK, Checkpoint, RequestState
    <3> QED  BY <1>7, <3>1, TrimType DEF ResolveHistory, LatestTurns
  <2>3. "done" \in Pc /\ "load" \in Pc /\ "ok" \in Status /\ {} \in Hits
        /\ "OTHER" \in Intent
    BY DEF Pc, Status, Hits, Intent
  <2> DEFINE shown == [req[r] EXCEPT !.seen = turns, !.from = f, !.pc = "done",
                                     !.status = "ok"]
             on == [req[r] EXCEPT !.seen = turns, !.from = f, !.pc = "load"]
  <2>4. ASSUME req[r].kind = "read"
        PROVE  req' \in [Request -> RequestState] /\ \A x \in Request : FlowOK(req'[x])
    <3>1. shown \in RequestState
      BY <2>1, <2>3, TurnsRecord
    <3>2. shown.pc = "done"
      BY <2>1 DEF RequestState
    <3>3. req' = [req EXCEPT ![r] = shown]
      BY <2>2, <2>4 DEF Shown
    <3> HIDE DEF shown
    <3>4. FlowOK(shown)
      BY <3>2 DEF FlowOK
    <3> QED  BY <1>0, <3>1, <3>3, <3>4, MoveOne DEF TypeOK
  <2>5. ASSUME req[r].kind = "turn"
        PROVE  req' \in [Request -> RequestState] /\ \A x \in Request : FlowOK(req'[x])
    <3>1. on \in RequestState
      BY <2>1, <2>3, TurnsRecord
    <3>2. /\ on.pc = "load" /\ on.session = req[r].session /\ on.member = req[r].member
          /\ on.kind = "turn" /\ on.status = "none"
      BY <2>1, <2>5 DEF RequestState
    <3>3. req' = [req EXCEPT ![r] = on]
      BY <2>2, <2>5 DEF Shown
    <3> HIDE DEF on
    <3>4. FlowOK(on)
      BY <2>1, <3>2, ChatTurnAssumption DEF FlowOK
    <3> QED  BY <1>0, <3>1, <3>3, <3>4, MoveOne DEF TypeOK
  <2>6. req' \in [Request -> RequestState] /\ \A x \in Request : FlowOK(req'[x])
    BY <2>1, <2>4, <2>5
  <2> QED  BY <1>0, <1>7, <2>6 DEF ResolveHistory, FlowInv, TypeOK, Tables
<1>8. ASSUME NEW r \in Request, LoadThread(r)
      PROVE  FlowInv'
  <2>1. /\ req[r] \in RequestState /\ req[r].kind = "turn" /\ req[r].status = "none"
        /\ req[r].session \in Session \cup {None}
        /\ (req[r].member = None <=> req[r].session = None)
    BY <1>0, <1>8 DEF LoadThread, At, FlowOK, RequestState
  <2> DEFINE s == req[r].session
             b == IF s = None THEN <<>> ELSE thread[s].turns
             h == IF s = None THEN {} ELSE InitHits(s)
             q == [req[r] EXCEPT !.pc = "nodes", !.base = b, !.hits = h]
  <2>2. b \in Seq(Turn)
    BY <1>0, <2>1, EmptySeq DEF TypeOK, Checkpoint
  <2>3. h \in Hits /\ "nodes" \in Pc /\ "ok" \in Status /\ "OTHER" \in Intent
    BY DEF Hits, InitHits, Pc, Status, Intent
  <2>4. req' = [req EXCEPT ![r] = q]
    BY <1>8 DEF LoadThread
  <2> HIDE DEF b, h
  <2>5. q \in RequestState
    BY <2>1, <2>2, <2>3, TurnsRecord
  <2>6. /\ q.pc = "nodes" /\ q.session = req[r].session /\ q.member = req[r].member
        /\ q.kind = "turn" /\ q.status = "none"
    BY <2>1 DEF RequestState
  <2> HIDE DEF q
  <2>7. FlowOK(q)
    BY <2>1, <2>6 DEF FlowOK
  <2>8. req' \in [Request -> RequestState] /\ \A x \in Request : FlowOK(req'[x])
    BY <1>0, <2>4, <2>5, <2>7, MoveOne DEF TypeOK
  <2> QED  BY <1>0, <1>8, <2>8 DEF LoadThread, FlowInv, TypeOK, Tables
<1>9. ASSUME NEW r \in Request, RunNodes(r)
      PROVE  FlowInv'
  <2>1. /\ req[r] \in RequestState /\ req[r].kind = "turn" /\ req[r].status = "none"
        /\ (req[r].member = None <=> req[r].session = None)
        /\ req[r].base \in Seq(Turn) /\ req[r].hits \in Hits
    BY <1>0, <1>9 DEF RunNodes, At, FlowOK, RequestState
  <2>0. PICK i \in Intent : \E h \in HitsAfter(r, i) :
           /\ req' = [req EXCEPT ![r].pc = "append", ![r].intent = i, ![r].hits = h]
           /\ WriteCheckpoint(r, req[r].base, h)
    BY <1>9 DEF RunNodes
  <2>2. PICK h \in HitsAfter(r, i) :
           /\ req' = [req EXCEPT ![r].pc = "append", ![r].intent = i, ![r].hits = h]
           /\ WriteCheckpoint(r, req[r].base, h)
    BY <2>0
  <2>3. h \in Hits /\ "append" \in Pc /\ "ok" \in Status /\ <<>> \in Seq(Turn)
    BY <2>1, <2>2, EmptySeq DEF HitsAfter, Hits, Pc, Status
  <2> DEFINE q == [req[r] EXCEPT !.pc = "append", !.intent = i, !.hits = h]
  <2>4. q \in RequestState
    BY <2>1, <2>3, TurnsRecord
  <2>5. /\ q.pc = "append" /\ q.session = req[r].session /\ q.member = req[r].member
        /\ q.kind = "turn" /\ q.status = "none"
    BY <2>1 DEF RequestState
  <2>6. req' = [req EXCEPT ![r] = q]
    BY <2>2
  <2> HIDE DEF q
  <2>7. FlowOK(q)
    BY <2>1, <2>5 DEF FlowOK
  <2>8. req' \in [Request -> RequestState] /\ \A x \in Request : FlowOK(req'[x])
    BY <1>0, <2>4, <2>6, <2>7, MoveOne DEF TypeOK
  <2>9. thread' \in [Session -> Checkpoint]
    BY <1>0, <2>1, <2>2, <2>3, CheckpointType
  <2> QED  BY <1>0, <1>9, <2>8, <2>9 DEF RunNodes, FlowInv, TypeOK, Tables
<1>10. ASSUME NEW r \in Request, AppendMessage(r)
       PROVE  FlowInv'
  <2>1. /\ req[r] \in RequestState /\ req[r].kind = "turn" /\ req[r].status = "none"
        /\ (req[r].member = None <=> req[r].session = None)
        /\ req[r].member \in Member \cup {None} /\ req[r].session \in Session \cup {None}
        /\ req[r].base \in Seq(Turn) /\ req[r].hits \in Hits
    BY <1>0, <1>10 DEF AppendMessage, At, FlowOK, RequestState
  <2>2. TurnsAfter(r) \in Seq(Turn)
    <3>1. [by |-> r, sources |-> StoredSources(req[r].intent, req[r].hits)] \in Turn
      BY <2>1 DEF Turn, StoredSources, Hits
    <3> QED  BY <2>1, <3>1 DEF TurnsAfter
  <2>3. thread' \in [Session -> Checkpoint]
    BY <1>0, <1>10, <2>1, <2>2, CheckpointType DEF AppendMessage
  <2>4. ASSUME Respond(r)
        PROVE  req' \in [Request -> RequestState] /\ \A x \in Request : FlowOK(req'[x])
    BY <2>4, RespondFlow
  <2>5. ASSUME Saves(r), Goto(r, "save")
        PROVE  req' \in [Request -> RequestState] /\ \A x \in Request : FlowOK(req'[x])
    <3> DEFINE q == [req[r] EXCEPT !.pc = "save"]
    <3>1. /\ q.pc = "save" /\ q.session = req[r].session /\ q.member = req[r].member
          /\ q.kind = "turn" /\ q.status = "none"
      BY <2>1 DEF RequestState
    <3>2. FlowOK(q) /\ "save" \in Pc
      BY <2>1, <2>5, <3>1 DEF FlowOK, Saves, Pc
    <3> QED  BY <2>5, <3>2, GotoFlow
  <2>6. req' \in [Request -> RequestState] /\ \A x \in Request : FlowOK(req'[x])
    BY <1>10, <2>4, <2>5 DEF AppendMessage
  <2> QED  BY <1>0, <1>10, <2>3, <2>6 DEF AppendMessage, FlowInv, TypeOK, Tables
<1>11. ASSUME NEW r \in Request, GraphError(r)
       PROVE  FlowInv'
  <2>1. req' \in [Request -> RequestState] /\ \A x \in Request : FlowOK(req'[x])
    BY <1>11, FinishFlow DEF GraphError, Status
  <2>2. req[r].base \in Seq(Turn) /\ req[r].hits \in Hits
    BY <1>0 DEF RequestState
  <2>3. thread' \in [Session -> Checkpoint]
    <3>1. ASSUME WriteCheckpoint(r, req[r].base, req[r].hits)
          PROVE  thread' \in [Session -> Checkpoint]
      BY <1>0, <2>2, <3>1, CheckpointType
    <3> QED  BY <1>0, <1>11, <3>1 DEF GraphError, TypeOK
  <2> QED  BY <1>0, <1>11, <2>1, <2>3 DEF GraphError, FlowInv, TypeOK, Tables
<1>12. ASSUME NEW r \in Request, SaveHistory(r)
       PROVE  FlowInv'
  <2>1. /\ req[r] \in RequestState /\ req[r].kind = "turn" /\ req[r].status = "none"
        /\ req[r].member \in Member /\ req[r].session \in Session
    BY <1>0, <1>12 DEF SaveHistory, At, FlowOK
  <2> DEFINE q == [req[r] EXCEPT !.pc = "touch"]
  <2>2. /\ q.pc = "touch" /\ q.session = req[r].session /\ q.member = req[r].member
        /\ q.kind = "turn" /\ q.status = "none"
    BY <2>1 DEF RequestState
  <2>3. FlowOK(q) /\ "touch" \in Pc
    BY <2>1, <2>2 DEF FlowOK, Pc
  <2>4. req' \in [Request -> RequestState] /\ \A x \in Request : FlowOK(req'[x])
    BY <1>12, <2>3, GotoFlow DEF SaveHistory
  <2>5. rows' \in [Request -> Nat]
    BY <1>0, <1>12 DEF SaveHistory, TypeOK
  <2> QED  BY <1>0, <1>12, <2>4, <2>5 DEF SaveHistory, FlowInv, TypeOK, Tables
<1>13. ASSUME NEW r \in Request, TouchSession(r)
       PROVE  FlowInv'
  <2>1. req' \in [Request -> RequestState] /\ \A x \in Request : FlowOK(req'[x])
    BY <1>13, RespondFlow DEF TouchSession
  <2>2. req[r].session \in Session
    BY <1>0, <1>13 DEF TouchSession, At, FlowOK
  <2>3. title' \in [Session -> Request \cup {None}]
    BY <1>0, <1>13, <2>2 DEF TouchSession, TitleAfter, TypeOK
  <2> QED  BY <1>0, <1>13, <2>1, <2>3 DEF TouchSession, FlowInv, TypeOK
<1>14. ASSUME NEW r \in Request, DropRow(r)
       PROVE  FlowInv'
  <2>1. /\ req[r] \in RequestState /\ req[r].kind = "delete" /\ req[r].status = "none"
        /\ req[r].member \in Member /\ req[r].session \in Session
    BY <1>0, <1>14 DEF DropRow, At, FlowOK
  <2> DEFINE q == [req[r] EXCEPT !.pc = "drop_thread"]
  <2>2. /\ q.pc = "drop_thread" /\ q.session = req[r].session /\ q.member = req[r].member
        /\ q.kind = "delete" /\ q.status = "none"
    BY <2>1 DEF RequestState
  <2>3. FlowOK(q) /\ "drop_thread" \in Pc
    BY <2>1, <2>2 DEF FlowOK, Pc
  <2>4. req' \in [Request -> RequestState] /\ \A x \in Request : FlowOK(req'[x])
    BY <1>14, <2>3, GotoFlow DEF DropRow
  <2> QED  BY <1>0, <1>14, <2>4 DEF DropRow, FlowInv, TypeOK
<1>15. ASSUME NEW r \in Request, DropThread(r)
       PROVE  FlowInv'
  <2>1. req' \in [Request -> RequestState] /\ \A x \in Request : FlowOK(req'[x])
    BY <1>15, FinishFlow DEF DropThread, Status
  <2>2. thread' \in [Session -> Checkpoint]
    BY <1>0, <1>15, NoTurns DEF DropThread, TypeOK
  <2> QED  BY <1>0, <1>15, <2>1, <2>2 DEF DropThread, FlowInv, TypeOK, Tables
<1>16. ASSUME NEW r \in Request, HangUp(r)
       PROVE  FlowInv'
  <2>1. req[r] \in RequestState /\ req[r].status = "none"
    BY <1>0, <1>16 DEF HangUp, FlowOK
  <2> DEFINE q == [req[r] EXCEPT !.pc = "lost"]
  <2>2. q.pc = "lost" /\ q.status = "none"
    BY <2>1 DEF RequestState
  <2>3. FlowOK(q) /\ "lost" \in Pc
    BY <2>2 DEF FlowOK, Pc
  <2>4. req' \in [Request -> RequestState] /\ \A x \in Request : FlowOK(req'[x])
    BY <1>16, <2>3, GotoFlow DEF HangUp
  <2> QED  BY <1>0, <1>16, <2>4 DEF HangUp, FlowInv, TypeOK, Tables
<1>17. CASE Restart
  <2>1. ASSUME NEW x \in Request
        PROVE  req'[x] \in RequestState /\ FlowOK(req'[x])
    <3>1. CASE req[x].pc \in {"idle", "done"}
      BY <1>0, <1>17, <3>1 DEF Restart
    <3>2. CASE req[x].pc \notin {"idle", "done"}
      <4> DEFINE q == [req[x] EXCEPT !.pc = "lost"]
      <4>1. req'[x] = q
        BY <1>17, <3>2 DEF Restart
      <4>2. "lost" \in Pc /\ req[x].status = "none"
        BY <1>0, <3>2 DEF Pc, FlowOK
      <4>3. q \in RequestState
        BY <1>0, <4>2, MovedRecord
      <4>4. q.pc = "lost" /\ q.status = "none"
        BY <1>0, <4>2 DEF RequestState
      <4> HIDE DEF q
      <4> QED  BY <4>1, <4>3, <4>4 DEF FlowOK
    <3> QED  BY <3>1, <3>2
  <2>2. req' \in [Request -> RequestState]
    BY <1>17, <2>1 DEF Restart
  <2>3. thread' \in [Session -> Checkpoint]
    BY <1>0, <1>17, NoTurns DEF Restart, TypeOK
  <2>4. events' \in 0..MaxEvents
    BY <1>0, <1>17, ChatTurnAssumption DEF Restart, TypeOK
  <2> QED  BY <1>0, <1>17, <2>1, <2>2, <2>3, <2>4 DEF Restart, FlowInv, TypeOK, Tables
<1>18. ASSUME NEW i \in RequestId, ExpireKey(i)
       PROVE  FlowInv'
  BY <1>0, <1>18, ChatTurnAssumption DEF ExpireKey, FlowInv, TypeOK, Tables
<1>19. ASSUME NEW s \in Session, ExpireThread(s)
       PROVE  FlowInv'
  <2>1. thread' \in [Session -> Checkpoint]
    BY <1>0, <1>19, NoTurns DEF ExpireThread, TypeOK
  <2> QED  BY <1>0, <1>19, <2>1, ChatTurnAssumption DEF ExpireThread, FlowInv, TypeOK, Tables
<1>20. CASE UNCHANGED vars
  BY <1>0, <1>20 DEF vars, FlowInv, TypeOK
<1>21. ASSUME NEW r \in Request, Step(r)
       PROVE  FlowInv'
  BY <1>2, <1>3, <1>4, <1>5, <1>6, <1>7, <1>8, <1>9, <1>10, <1>11, <1>12, <1>13, <1>14,
     <1>15, <1>21 DEF Step
<1> QED
  BY <1>1, <1>16, <1>17, <1>18, <1>19, <1>20, <1>21 DEF Next, Finished

\* So does the start.
LEMMA FlowInit == Init => FlowInv
<1> SUFFICES ASSUME Init PROVE FlowInv
  OBVIOUS
<1>1. thread \in [Session -> Checkpoint]
  BY NoTurns DEF Init
<1> QED  BY <1>1, IdleState, ChatTurnAssumption DEF Init, FlowInv, TypeOK

\* Every variable of the chat path keeps its type.
THEOREM TypeCorrect == Spec => []TypeOK
<1>1. FlowInv => TypeOK
  BY DEF FlowInv
<1> QED  BY <1>1, FlowInit, FlowStep, PTL DEF Spec

=============================================================================
