------------------------- MODULE RefundAgentProofs -------------------------
(***************************************************************************)
(* Theorems about RefundAgent for any number of requests, orders, calls of *)
(* the tool and restarts, with and without Redis, with overlapping calls   *)
(* and with failures.                                                      *)
(***************************************************************************)
EXTENDS RefundAgent, FiniteSetTheorems, TLAPS

-----------------------------------------------------------------------------
(* The inductive invariant.                                                *)

\* The orders whose refund a request registered, the requests that registered
\* a refund of an order, and those of them that still have to announce it.
Refunded(r) == {registered[r][k] : k \in DOMAIN registered[r]}
By(o) == {r \in Request : o \in Refunded(r)}
Sending(o) == {r \in By(o) : req[r].pc = "notify"}

\* A decision that no interrupt has taken yet was given by a resume request,
\* and nothing is registered for it; a refund took the approval it stands on.
ApprovalOK(r) ==
    /\ req[r].pc = "idle" =>
          req[r].kind = "none" /\ req[r].value = "none" /\ registered[r] = <<>>
    /\ req[r].value # "none" =>
          /\ req[r].kind = "resume" /\ req[r].value = req[r].decision
          /\ registered[r] = <<>>
    /\ registered[r] # <<>> =>
          /\ req[r].kind = "resume" /\ req[r].decision = "approve"
          /\ \E o \in Own : registered[r] = <<o>>
    /\ req[r].pc = "notify" => registered[r] = <<req[r].order>>

ApprovalInv == \A r \in Request : ApprovalOK(r)

\* The staff heard of every registered refund but those still to be announced,
\* unless a restart came between.
HeardOf(n, sending, by) ==
    /\ IsFiniteSet(by)
    /\ n + Cardinality(sending) <= Cardinality(by)
    /\ restarts = 0 => n + Cardinality(sending) = Cardinality(by)

NoticesInv == \A o \in Order : HeardOf(notices[o], Sending(o), By(o))

IInv == TypeOK /\ ApprovalInv /\ NoticesInv

-----------------------------------------------------------------------------
(* Type correctness.                                                       *)

\* The record of the one request that takes a step is replaced by another one.
LEMMA RequestReplaced ==
    ASSUME TypeOK, NEW r \in Request, NEW q \in RequestState,
           req' = [req EXCEPT ![r] = q]
    PROVE  req' \in [Request -> RequestState]
BY DEF TypeOK

\* Where the steps of a request lead.
LEMMA Labels ==
    {"resolve", "llm", "tool", "notify", "save", "done", "lost"} \subseteq Pc
BY DEF Pc

\* A step that only moves the request on, answered or not.
LEMMA MovedOn ==
    ASSUME TypeOK, NEW r \in Request,
           \/ \E label \in Pc : Goto(r, label)
           \/ \E status \in {"answered", "asked", "error", "401"} : Finish(r, status)
    PROVE  req' \in [Request -> RequestState]
<1>1. req[r] \in RequestState
  BY DEF TypeOK
<1>2. ASSUME NEW label \in Pc, Goto(r, label) PROVE req' \in [Request -> RequestState]
  <2>1. [req[r] EXCEPT !.pc = label] \in RequestState
    BY <1>1 DEF RequestState
  <2>2. req' = [req EXCEPT ![r] = [req[r] EXCEPT !.pc = label]]
    BY <1>2 DEF Goto
  <2> QED  BY <2>1, <2>2, RequestReplaced
<1>3. ASSUME NEW status \in {"answered", "asked", "error", "401"}, Finish(r, status)
      PROVE  req' \in [Request -> RequestState]
  <2>1. [req[r] EXCEPT !.pc = "done", !.status = status] \in RequestState
    BY <1>1, Labels DEF RequestState
  <2>2. req' = [req EXCEPT ![r] = [req[r] EXCEPT !.pc = "done", !.status = status]]
    BY <1>3 DEF Finish
  <2> QED  BY <2>1, <2>2, RequestReplaced
<1> QED  BY <1>2, <1>3

LEMMA TypeInit == Init => TypeOK
<1> SUFFICES ASSUME Init PROVE TypeOK
  OBVIOUS
<1>1. Idle \in RequestState
  BY SMTT(30) DEF Idle, RequestState, Pc
<1>2. NoCheckpoint \in Checkpoint
  BY DEF NoCheckpoint, Checkpoint, Stage
<1>3. restarts \in 0..MaxRestarts
  BY RefundAgentAssumption DEF Init
<1> QED  BY <1>1, <1>2, <1>3 DEF Init, TypeOK

\* A checkpoint stays one, whoever writes into it.
LEMMA RecordTyped ==
    ASSUME TypeOK, NEW r \in Request, NEW s \in Stage, NEW o \in Order \cup {None},
           Record(r, s, o)
    PROVE  thread' \in Checkpoint
BY DEF TypeOK, Record, Checkpoint

LEMMA TypeNext == TypeOK /\ [Next]_vars => TypeOK'
<1> SUFFICES ASSUME TypeOK, [Next]_vars PROVE TypeOK'
  OBVIOUS
<1> USE RefundAgentAssumption
<1>0. \A r \in Request : req[r] \in RequestState
  BY DEF TypeOK
<1>1. ASSUME NEW r \in Request, Arrive(r) PROVE TypeOK'
  <2>1. req' \in [Request -> RequestState]
    <3>1. CASE req' = [req EXCEPT ![r].pc = "resolve", ![r].kind = "chat"]
      <4>1. [req[r] EXCEPT !.pc = "resolve", !.kind = "chat"] \in RequestState
        BY <1>0, Labels DEF RequestState
      <4>2. req' = [req EXCEPT ![r] = [req[r] EXCEPT !.pc = "resolve", !.kind = "chat"]]
        BY <3>1
      <4> QED  BY <4>1, <4>2, RequestReplaced
    <3>2. ASSUME NEW d \in {"approve", "reject"},
                 req' = [req EXCEPT ![r].pc = "resolve", ![r].kind = "resume",
                                    ![r].decision = d, ![r].value = d]
          PROVE  req' \in [Request -> RequestState]
      <4> DEFINE q == [req[r] EXCEPT !.pc = "resolve", !.kind = "resume",
                                     !.decision = d, !.value = d]
      <4>1. q \in RequestState
        BY <1>0, Labels DEF RequestState
      <4>2. req' = [req EXCEPT ![r] = q]
        BY <3>2
      <4> QED  BY <4>1, <4>2, RequestReplaced
    <3> QED  BY <1>1, <3>1, <3>2 DEF Arrive
  <2> QED  BY <1>1, <2>1 DEF Arrive, TypeOK, Log
<1>2. ASSUME NEW r \in Request, ResolveToken(r) PROVE TypeOK'
  <2>1. req' \in [Request -> RequestState]
    BY <1>2, MovedOn DEF ResolveToken, Pc
  <2> QED  BY <1>2, <2>1 DEF ResolveToken, TypeOK, Log
<1>3. ASSUME NEW r \in Request, LoadChat(r) PROVE TypeOK'
  <2> DEFINE q == [req[r] EXCEPT !.pc = "llm", !.run = r]
  <2>0. q \in RequestState
    BY <1>0, Labels DEF RequestState
  <2>1. req' \in [Request -> RequestState]
    <3>1. req' = [req EXCEPT ![r] = q]
      BY <1>3 DEF LoadChat
    <3> QED  BY <2>0, <3>1, RequestReplaced
  <2>2. thread' \in Checkpoint
    BY <1>3 DEF LoadChat, TypeOK, Checkpoint, Stage
  <2> QED  BY <1>3, <2>1, <2>2 DEF LoadChat, TypeOK, Log
<1>4. ASSUME NEW r \in Request, LoadResume(r) PROVE TypeOK'
  <2>1. thread.run \in Request \cup {None} /\ thread.last \in Request \cup {None}
        /\ thread.order \in Order \cup {None} /\ thread.stage \in Stage
    BY DEF TypeOK, Checkpoint
  <2>2. req' \in [Request -> RequestState]
    <3>1. CASE Finish(r, "error")
      BY <3>1, MovedOn
    <3>2. CASE ~Finish(r, "error")
      <4> DEFINE label == CASE thread.stage = "over" -> "save"
                            [] thread.stage = "between" -> "llm"
                            [] thread.stage = "pending" -> "tool"
                 q == [req[r] EXCEPT !.run = thread.run, !.order = thread.order,
                                     !.answer = thread.last, !.pc = label]
      <4>1. label \in Pc
        BY <2>1 DEF Stage, Pc
      <4>2. req' = [req EXCEPT ![r] = q]
        BY <1>4, <3>2 DEF LoadResume, LastAnswer
      <4> HIDE DEF label
      <4>3. q \in RequestState
        BY <1>0, <2>1, <4>1 DEF RequestState
      <4> QED  BY <4>2, <4>3, RequestReplaced
    <3> QED  BY <3>1, <3>2
  <2> QED  BY <1>4, <2>2 DEF LoadResume, TypeOK, Log
<1>5. ASSUME NEW r \in Request, CallRefund(r) PROVE TypeOK'
  <2>1. PICK o \in Order :
          /\ req' = [req EXCEPT ![r].pc = "tool", ![r].order = o, ![r].calls = @ + 1]
          /\ Record(r, "pending", o)
    BY <1>5 DEF CallRefund
  <2>2. req' \in [Request -> RequestState]
    <3> DEFINE q == [req[r] EXCEPT !.pc = "tool", !.order = o, !.calls = @ + 1]
    <3>0. req[r].calls + 1 \in Nat
      BY <1>0 DEF RequestState
    <3>1. q \in RequestState
      BY <1>0, <3>0, Labels DEF RequestState
    <3>2. req' = [req EXCEPT ![r] = q]
      BY <2>1
    <3> QED  BY <3>1, <3>2, RequestReplaced
  <2>3. thread' \in Checkpoint
    BY <2>1, RecordTyped DEF Stage
  <2> QED  BY <1>5, <2>2, <2>3 DEF CallRefund, TypeOK, Log
<1>6. ASSUME NEW r \in Request, Answer(r) PROVE TypeOK'
  <2> DEFINE q == [req[r] EXCEPT !.pc = "save", !.answer = r]
  <2>0. q \in RequestState
    BY <1>0, Labels DEF RequestState
  <2>1. req' \in [Request -> RequestState]
    <3>1. req' = [req EXCEPT ![r] = q]
      BY <1>6 DEF Answer
    <3> QED  BY <2>0, <3>1, RequestReplaced
  <2>2. thread' \in Checkpoint
    BY <1>6 DEF Answer, Checkpoint, Stage
  <2> QED  BY <1>6, <2>1, <2>2 DEF Answer, TypeOK, Log
<1>7. ASSUME NEW r \in Request, RefuseRefund(r) PROVE TypeOK'
  <2>1. req' \in [Request -> RequestState]
    BY <1>7, MovedOn DEF RefuseRefund, ToolReturns, Pc
  <2>2. thread' \in Checkpoint
    BY <1>7, RecordTyped DEF RefuseRefund, ToolReturns, Stage
  <2> QED  BY <1>7, <2>1, <2>2 DEF RefuseRefund, TypeOK, Log
<1>8. ASSUME NEW r \in Request, Interrupt(r) PROVE TypeOK'
  <2>1. req' \in [Request -> RequestState]
    BY <1>8, MovedOn DEF Interrupt, Pc
  <2>2. prompted' \in SUBSET Order
    BY <1>8 DEF Interrupt, Found, TypeOK
  <2> QED  BY <1>8, <2>1, <2>2 DEF Interrupt, TypeOK
<1>9. ASSUME NEW r \in Request, RejectRefund(r) PROVE TypeOK'
  <2> DEFINE q == [req[r] EXCEPT !.pc = "llm", !.value = "none"]
  <2>0. q \in RequestState
    BY <1>0, Labels DEF RequestState
  <2>1. req' \in [Request -> RequestState]
    <3>1. req' = [req EXCEPT ![r] = q]
      BY <1>9 DEF RejectRefund, ValueAfter
    <3> QED  BY <2>0, <3>1, RequestReplaced
  <2>2. thread' \in Checkpoint
    BY <1>9, RecordTyped DEF RejectRefund, Stage
  <2> QED  BY <1>9, <2>1, <2>2 DEF RejectRefund, TypeOK, Log
<1>10. ASSUME NEW r \in Request, ApproveRefund(r) PROVE TypeOK'
  <2> DEFINE q == [req[r] EXCEPT !.pc = "notify", !.value = "none"]
  <2>0. q \in RequestState
    BY <1>0, Labels DEF RequestState
  <2>1. req' \in [Request -> RequestState]
    <3>1. req' = [req EXCEPT ![r] = q]
      BY <1>10 DEF ApproveRefund, ValueAfter
    <3> QED  BY <2>0, <3>1, RequestReplaced
  <2>2. Append(registered[r], req[r].order) \in Seq(Order)
    BY <1>10 DEF ApproveRefund, Found, TypeOK
  <2>3. registered' \in [Request -> Seq(Order)]
    BY <1>10, <2>2 DEF ApproveRefund, TypeOK
  <2> QED  BY <1>10, <2>1, <2>3 DEF ApproveRefund, TypeOK
<1>11. ASSUME NEW r \in Request, Notify(r) PROVE TypeOK'
  <2>1. req' \in [Request -> RequestState]
    BY <1>11, MovedOn DEF Notify, ToolReturns, Pc
  <2>2. thread' \in Checkpoint
    BY <1>11, RecordTyped DEF Notify, ToolReturns, Stage
  <2>3. notices' \in [Order -> Nat]
    <3>1. notices \in [Order -> Nat]
      BY DEF TypeOK
    <3>2. notices' = [notices EXCEPT ![req[r].order] = notices[req[r].order] + 1]
      BY <1>11 DEF Notify
    <3>3. CASE req[r].order \in Order
      <4>1. notices[req[r].order] + 1 \in Nat
        BY <3>1, <3>3
      <4> QED  BY <3>1, <3>2, <4>1
    <3>4. CASE req[r].order \notin Order
      <4>1. notices' = notices
        BY <3>1, <3>2, <3>4
      <4> QED  BY <3>1, <4>1
    <3> QED  BY <3>3, <3>4
  <2> QED  BY <1>11, <2>1, <2>2, <2>3 DEF Notify, TypeOK
<1>12. ASSUME NEW r \in Request, GraphError(r) PROVE TypeOK'
  <2>1. req' \in [Request -> RequestState]
    BY <1>12, MovedOn DEF GraphError
  <2> QED  BY <1>12, <2>1 DEF GraphError, TypeOK, Log
<1>13. ASSUME NEW r \in Request, SaveHistory(r) PROVE TypeOK'
  <2>1. req' \in [Request -> RequestState]
    BY <1>13, MovedOn DEF SaveHistory
  <2> QED  BY <1>13, <2>1 DEF SaveHistory, TypeOK, Log
<1>14. CASE Restart
  <2>1. req' \in [Request -> RequestState]
    <3>1. \A r \in Request : [req[r] EXCEPT !.pc = "lost"] \in RequestState
      BY <1>0, Labels DEF RequestState
    <3> QED  BY <1>14, <3>1 DEF Restart, TypeOK
  <2>2. thread' \in Checkpoint
    BY <1>14 DEF Restart, TypeOK, NoCheckpoint, Checkpoint, Stage
  <2>3. restarts' \in 0..MaxRestarts
    BY <1>14 DEF Restart, TypeOK
  <2> QED  BY <1>14, <2>1, <2>2, <2>3 DEF Restart, TypeOK, Log
<1>15. CASE UNCHANGED vars
  BY <1>15 DEF vars, TypeOK
<1> QED
  BY <1>1, <1>2, <1>3, <1>4, <1>5, <1>6, <1>7, <1>8, <1>9, <1>10, <1>11, <1>12,
     <1>13, <1>14, <1>15 DEF Next, Step, Finished

-----------------------------------------------------------------------------
(* What a step does to the request that takes it, and to no other.         *)

\* A step that neither registers a refund nor announces one: the request ends
\* up somewhere else, and may have used up a decision that is no approval.
Quiet(r) ==
    /\ UNCHANGED <<registered, notices, restarts>>
    /\ \A x \in Request \ {r} : req'[x] = req[x]
    /\ req[r].pc \notin {"idle", "notify"} /\ req'[r].pc \notin {"idle", "notify"}
    /\ req'[r].kind = req[r].kind /\ req'[r].decision = req[r].decision
    /\ req'[r].value \in {req[r].value, "none"}
    /\ req'[r].value = "approve" <=> req[r].value = "approve"

LEMMA QuietSteps ==
    ASSUME TypeOK, NEW r \in Request, Step(r)
    PROVE  ApproveRefund(r) \/ Notify(r) \/ Quiet(r)
<1> SUFFICES ASSUME ~ApproveRefund(r), ~Notify(r) PROVE Quiet(r)
  OBVIOUS
<1>0. req \in [Request -> RequestState] /\ req[r] \in RequestState
      /\ thread.stage \in Stage
  BY DEF TypeOK, Checkpoint
<1>1. CASE ResolveToken(r)
  BY <1>0, <1>1 DEF ResolveToken, Goto, Finish, Quiet, At, Log, RequestState
<1>2. CASE LoadChat(r)
  BY <1>0, <1>2 DEF LoadChat, Quiet, At, Log, RequestState
<1>3. CASE LoadResume(r)
  BY <1>0, <1>3 DEF LoadResume, Finish, Stage, Quiet, At, Log, RequestState
<1>4. CASE CallRefund(r)
  BY <1>0, <1>4 DEF CallRefund, Quiet, At, Log, RequestState
<1>5. CASE Answer(r)
  BY <1>0, <1>5 DEF Answer, Quiet, At, Log, RequestState
<1>6. CASE RefuseRefund(r)
  BY <1>0, <1>6 DEF RefuseRefund, ToolReturns, Goto, Quiet, At, Log, RequestState
<1>7. CASE Interrupt(r)
  BY <1>0, <1>7 DEF Interrupt, Goto, Finish, Quiet, At, Log, RequestState
<1>8. CASE RejectRefund(r)
  BY <1>0, <1>8 DEF RejectRefund, Approved, ValueAfter, Quiet, At, Log, RequestState
<1>9. CASE GraphError(r)
  BY <1>0, <1>9 DEF GraphError, Finish, Quiet, At, Log, RequestState
<1>10. CASE SaveHistory(r)
  BY <1>0, <1>10 DEF SaveHistory, Finish, Quiet, At, Log, RequestState
<1> QED
  BY <1>1, <1>2, <1>3, <1>4, <1>5, <1>6, <1>7, <1>8, <1>9, <1>10 DEF Step

\* A request that arrives carries its decision, if any, and nothing else.
Arrived(r) ==
    /\ UNCHANGED <<registered, notices, restarts>>
    /\ \A x \in Request \ {r} : req'[x] = req[x]
    /\ req[r].pc = "idle" /\ req'[r].pc = "resolve"
    /\ req[r].value = "none" /\ registered[r] = <<>>
    /\ req'[r].value # "none" =>
          req'[r].kind = "resume" /\ req'[r].value = req'[r].decision

LEMMA Arrivals ==
    ASSUME TypeOK, ApprovalInv, NEW r \in Request, Arrive(r)
    PROVE  Arrived(r)
<1>0. req \in [Request -> RequestState] /\ req[r] \in RequestState
  BY DEF TypeOK
<1>1. UNCHANGED <<registered, notices, restarts>> /\ req[r].pc = "idle"
  BY DEF Arrive, Log, At
<1>2. req[r].value = "none" /\ registered[r] = <<>>
  BY <1>1 DEF ApprovalInv, ApprovalOK
<1>3. CASE req' = [req EXCEPT ![r].pc = "resolve", ![r].kind = "chat"]
  BY <1>0, <1>1, <1>2, <1>3 DEF Arrived, RequestState
<1>4. ASSUME NEW d \in {"approve", "reject"},
             req' = [req EXCEPT ![r].pc = "resolve", ![r].kind = "resume",
                                ![r].decision = d, ![r].value = d]
      PROVE  Arrived(r)
  BY <1>0, <1>1, <1>2, <1>4 DEF Arrived, RequestState
<1> QED  BY <1>3, <1>4 DEF Arrive

\* The approval is used, and its order is the one refund of the request.
Approves(r) ==
    /\ UNCHANGED <<notices, restarts>>
    /\ \A x \in Request \ {r} : req'[x] = req[x] /\ registered'[x] = registered[x]
    /\ registered[r] = <<>> /\ registered'[r] = <<req[r].order>>
    /\ req[r].order \in Own /\ req[r].value = "approve"
    /\ req[r].pc = "tool" /\ req'[r].pc = "notify"
    /\ req[r].kind = "resume" /\ req'[r].kind = "resume"
    /\ req'[r].decision = "approve" /\ req'[r].value = "none"
    /\ req'[r].order = req[r].order

LEMMA ApprovalSteps ==
    ASSUME TypeOK, ApprovalInv, NEW r \in Request, ApproveRefund(r)
    PROVE  Approves(r)
<1>0. req \in [Request -> RequestState] /\ req[r] \in RequestState
      /\ registered \in [Request -> Seq(Order)]
  BY DEF TypeOK
<1>1. req[r].pc = "tool" /\ req[r].order \in Own /\ req[r].value = "approve"
  BY DEF ApproveRefund, At, Found, Approved
<1>2. /\ req[r].kind = "resume" /\ req[r].decision = "approve"
      /\ registered[r] = <<>>
  BY <1>1 DEF ApprovalInv, ApprovalOK
<1>3. registered' = [registered EXCEPT ![r] = Append(registered[r], req[r].order)]
      /\ req' = [req EXCEPT ![r].pc = "notify", ![r].value = "none"]
      /\ UNCHANGED <<notices, restarts>>
  BY DEF ApproveRefund, ValueAfter
<1>4. registered'[r] = <<req[r].order>>
  BY <1>0, <1>2, <1>3
<1>5. /\ req'[r].pc = "notify" /\ req'[r].kind = "resume"
      /\ req'[r].decision = "approve" /\ req'[r].value = "none"
      /\ req'[r].order = req[r].order
  BY <1>0, <1>2, <1>3 DEF RequestState
<1>6. \A x \in Request \ {r} : req'[x] = req[x] /\ registered'[x] = registered[x]
  BY <1>0, <1>3
<1> QED  BY <1>1, <1>2, <1>3, <1>4, <1>5, <1>6 DEF Approves

\* The staff is told of the refund just registered.
Announces(r) ==
    /\ UNCHANGED <<registered, restarts>>
    /\ \A x \in Request \ {r} : req'[x] = req[x]
    /\ req[r].pc = "notify" /\ req'[r].pc = "llm"
    /\ req'[r].kind = req[r].kind /\ req'[r].decision = req[r].decision
    /\ req'[r].value = req[r].value
    /\ notices' = [notices EXCEPT ![req[r].order] = @ + 1]

LEMMA Announcements ==
    ASSUME TypeOK, NEW r \in Request, Notify(r)
    PROVE  Announces(r)
<1>0. req \in [Request -> RequestState] /\ req[r] \in RequestState
  BY DEF TypeOK
<1> QED  BY <1>0 DEF Notify, ToolReturns, Goto, At, Announces, RequestState

-----------------------------------------------------------------------------
(* One refund per approval.                                                *)

LEMMA ApprovalsKept ==
    ASSUME TypeOK, ApprovalInv, [Next]_vars
    PROVE  ApprovalInv'
<1> SUFFICES ASSUME NEW x \in Request PROVE ApprovalOK(x)'
  BY DEF ApprovalInv
<1>0. ApprovalOK(x)
  BY DEF ApprovalInv
<1>1. ASSUME NEW r \in Request, Arrived(r) PROVE ApprovalOK(x)'
  <2>1. CASE x = r
    BY <1>0, <1>1, <2>1 DEF Arrived, ApprovalOK
  <2>2. CASE x # r
    BY <1>0, <1>1, <2>2 DEF Arrived, ApprovalOK
  <2> QED  BY <2>1, <2>2
<1>2. ASSUME NEW r \in Request, Quiet(r) PROVE ApprovalOK(x)'
  <2>1. CASE x = r
    BY <1>0, <1>2, <2>1 DEF Quiet, ApprovalOK
  <2>2. CASE x # r
    BY <1>0, <1>2, <2>2 DEF Quiet, ApprovalOK
  <2> QED  BY <2>1, <2>2
<1>3. ASSUME NEW r \in Request, Approves(r) PROVE ApprovalOK(x)'
  <2>1. CASE x = r
    BY <1>3, <2>1 DEF Approves, ApprovalOK
  <2>2. CASE x # r
    BY <1>0, <1>3, <2>2 DEF Approves, ApprovalOK
  <2> QED  BY <2>1, <2>2
<1>4. ASSUME NEW r \in Request, Announces(r) PROVE ApprovalOK(x)'
  <2>1. CASE x = r
    BY <1>0, <1>4, <2>1 DEF Announces, ApprovalOK
  <2>2. CASE x # r
    BY <1>0, <1>4, <2>2 DEF Announces, ApprovalOK
  <2> QED  BY <2>1, <2>2
<1>5. CASE Restart
  <2>1. req[x] \in RequestState
    BY DEF TypeOK
  <2>2. \/ req'[x] = req[x]
        \/ Running(x) /\ req'[x] = [req[x] EXCEPT !.pc = "lost"]
    BY <1>5 DEF Restart
  <2>3. /\ req'[x].kind = req[x].kind /\ req'[x].decision = req[x].decision
        /\ req'[x].value = req[x].value /\ req'[x].order = req[x].order
        /\ req'[x].pc \in {"lost", req[x].pc}
    BY <2>1, <2>2 DEF RequestState
  <2>4. registered' = registered
    BY <1>5 DEF Restart, Log
  <2> QED  BY <1>0, <2>3, <2>4 DEF ApprovalOK
<1>6. CASE UNCHANGED vars
  BY <1>0, <1>6 DEF vars, ApprovalOK
<1> QED
  BY <1>1, <1>2, <1>3, <1>4, <1>5, <1>6, Arrivals, QuietSteps, ApprovalSteps,
     Announcements DEF Next, Finished

-----------------------------------------------------------------------------
(* One announcement per refund.                                            *)

\* A request registered at most one order.
LEMMA RefundedOrder ==
    ASSUME NEW r, NEW o, registered[r] = <<o>>
    PROVE  Refunded(r) = {o}
BY DEF Refunded

LEMMA NothingRefunded ==
    ASSUME NEW r, registered[r] = <<>>
    PROVE  Refunded(r) = {}
BY DEF Refunded

\* While no refund is registered or announced, the account does not change.
LEMMA AccountUntouched ==
    ASSUME NoticesInv, UNCHANGED <<registered, notices, restarts>>,
           \A r \in Request : req[r].pc = "notify" <=> req'[r].pc = "notify"
    PROVE  NoticesInv'
<1> SUFFICES ASSUME NEW o \in Order
             PROVE  HeardOf(notices[o], Sending(o), By(o))'
  BY DEF NoticesInv
<1>1. By(o)' = By(o)
  BY DEF By, Refunded
<1>2. Sending(o)' = Sending(o)
  BY <1>1 DEF Sending, By
<1> QED  BY <1>1, <1>2 DEF NoticesInv, HeardOf

\* A finite set and an element it does not have.
LEMMA OneMore ==
    ASSUME NEW S, IsFiniteSet(S), NEW x, x \notin S
    PROVE  IsFiniteSet(S \cup {x}) /\ Cardinality(S \cup {x}) = Cardinality(S) + 1
BY FS_AddElement

\* A refund is registered: one request more did, and has to announce it.
LEMMA AccountOpened ==
    ASSUME TypeOK, ApprovalInv, NoticesInv, NEW r \in Request, Approves(r)
    PROVE  NoticesInv'
<1> SUFFICES ASSUME NEW o \in Order
             PROVE  HeardOf(notices[o], Sending(o), By(o))'
  BY DEF NoticesInv
<1>0. HeardOf(notices[o], Sending(o), By(o)) /\ UNCHANGED <<notices, restarts>>
  BY DEF NoticesInv, Approves
<1>1. Refunded(r) = {} /\ Refunded(r)' = {req[r].order}
  BY NothingRefunded, RefundedOrder, registered'[r] = <<req[r].order>>
     DEF Approves, Refunded
<1>2. \A x \in Request \ {r} : Refunded(x)' = Refunded(x) /\ req'[x] = req[x]
  BY DEF Approves, Refunded
<1>3. r \notin By(o) /\ r \notin Sending(o) /\ Sending(o) \subseteq By(o)
  BY <1>1 DEF By, Sending
<1>4. CASE o = req[r].order
  <2>1. By(o)' = By(o) \cup {r}
    BY <1>1, <1>2, <1>4 DEF By
  <2>2. Sending(o)' = Sending(o) \cup {r}
    BY <1>2, <2>1 DEF Sending, By, Approves
  <2>3. IsFiniteSet(By(o)) /\ IsFiniteSet(Sending(o))
    BY <1>0, <1>3, FS_Subset DEF HeardOf
  <2>4. /\ IsFiniteSet(By(o)')
        /\ Cardinality(By(o)') = Cardinality(By(o)) + 1
        /\ Cardinality(Sending(o)') = Cardinality(Sending(o)) + 1
    <3>1. IsFiniteSet(By(o) \cup {r}) /\ Cardinality(By(o) \cup {r}) = Cardinality(By(o)) + 1
      BY <1>3, <2>3, OneMore
    <3>2. Cardinality(Sending(o) \cup {r}) = Cardinality(Sending(o)) + 1
      BY <1>3, <2>3, OneMore
    <3> QED  BY <2>1, <2>2, <3>1, <3>2
  <2>5. Cardinality(By(o)) \in Nat /\ Cardinality(Sending(o)) \in Nat
        /\ notices[o] \in Nat
    BY <2>3, FS_CardinalityType DEF TypeOK
  <2> QED  BY <1>0, <2>4, <2>5 DEF HeardOf
<1>5. CASE o # req[r].order
  <2>1. By(o)' = By(o)
    BY <1>1, <1>2, <1>5 DEF By
  <2>2. Sending(o)' = {x \in By(o) : req'[x].pc = "notify"}
    BY <2>1 DEF Sending
  <2>3. \A x \in By(o) : req'[x] = req[x]
    BY <1>2, <1>3 DEF By
  <2>4. Sending(o)' = Sending(o)
    BY <2>2, <2>3 DEF Sending
  <2> QED  BY <1>0, <2>1, <2>4 DEF HeardOf
<1> QED  BY <1>4, <1>5

\* A refund is announced: one request less has to.
LEMMA AccountClosed ==
    ASSUME TypeOK, ApprovalInv, NoticesInv, NEW r \in Request, Announces(r)
    PROVE  NoticesInv'
<1> SUFFICES ASSUME NEW o \in Order
             PROVE  HeardOf(notices[o], Sending(o), By(o))'
  BY DEF NoticesInv
<1>0. HeardOf(notices[o], Sending(o), By(o)) /\ UNCHANGED <<registered, restarts>>
  BY DEF NoticesInv, Announces
<1>1. Refunded(r) = {req[r].order} /\ By(o)' = By(o)
  BY RefundedOrder DEF Announces, ApprovalInv, ApprovalOK, By, Refunded
<1>2. notices \in [Order -> Nat]
  BY DEF TypeOK
<1>3. Sending(o) \subseteq By(o)
  BY DEF Sending
<1>4. CASE o = req[r].order
  <2>1. r \in Sending(o)
    BY <1>1, <1>4 DEF Sending, By, Announces
  <2>2. Sending(o)' = Sending(o) \ {r}
    BY <1>1 DEF Sending, By, Announces
  <2>3. IsFiniteSet(By(o)) /\ IsFiniteSet(Sending(o))
    BY <1>0, <1>3, FS_Subset DEF HeardOf
  <2>4. Cardinality(Sending(o)') = Cardinality(Sending(o)) - 1
    BY <2>1, <2>2, <2>3, FS_RemoveElement
  <2>5. Cardinality(By(o)) \in Nat /\ Cardinality(Sending(o)) \in Nat
    BY <2>3, FS_CardinalityType
  <2>6. notices'[o] = notices[o] + 1 /\ notices[o] \in Nat
    BY <1>2, <1>4 DEF Announces
  <2> QED  BY <1>0, <1>1, <2>4, <2>5, <2>6 DEF HeardOf
<1>5. CASE o # req[r].order
  <2>1. Sending(o)' = Sending(o)
    BY <1>1, <1>5 DEF Sending, By, Announces
  <2>2. notices'[o] = notices[o]
    BY <1>2, <1>5 DEF Announces
  <2> QED  BY <1>0, <1>1, <2>1, <2>2 DEF HeardOf
<1> QED  BY <1>4, <1>5

\* The server dies: what was to be announced never will be.
LEMMA AccountLost ==
    ASSUME TypeOK, NoticesInv, Restart
    PROVE  NoticesInv'
<1> SUFFICES ASSUME NEW o \in Order
             PROVE  HeardOf(notices[o], Sending(o), By(o))'
  BY DEF NoticesInv
<1>0. HeardOf(notices[o], Sending(o), By(o)) /\ UNCHANGED Log
  BY DEF NoticesInv, Restart
<1>1. By(o)' = By(o)
  BY <1>0 DEF By, Refunded, Log
<1>2. Sending(o)' = {}
  <2>1. \A r \in Request : req[r] \in RequestState
    BY DEF TypeOK
  <2>2. \A r \in Request : req'[r].pc # "notify"
    BY <2>1 DEF Restart, Running, RequestState
  <2> QED  BY <2>2 DEF Sending, By
<1>3. restarts' # 0
  <2>1. restarts \in Nat
    BY RefundAgentAssumption DEF TypeOK
  <2> QED  BY <2>1 DEF Restart
<1>4. Sending(o) \subseteq By(o)
  BY DEF Sending
<1>5. /\ Cardinality({}) = 0 /\ Cardinality(By(o)) \in Nat
      /\ Cardinality(Sending(o)) \in Nat /\ notices[o] \in Nat
  BY <1>0, <1>4, FS_EmptySet, FS_Subset, FS_CardinalityType DEF HeardOf, TypeOK
<1>6. notices[o]' = notices[o]
  BY <1>0 DEF Log
<1> QED  BY <1>0, <1>1, <1>2, <1>3, <1>5, <1>6 DEF HeardOf

LEMMA NoticesKept ==
    ASSUME TypeOK, ApprovalInv, NoticesInv, [Next]_vars
    PROVE  NoticesInv'
<1>1. ASSUME NEW r \in Request, Arrived(r) PROVE NoticesInv'
  BY <1>1, AccountUntouched DEF Arrived
<1>2. ASSUME NEW r \in Request, Quiet(r) PROVE NoticesInv'
  BY <1>2, AccountUntouched DEF Quiet
<1>3. CASE UNCHANGED vars
  BY <1>3, AccountUntouched DEF vars
<1> QED
  BY <1>1, <1>2, <1>3, Arrivals, QuietSteps, ApprovalSteps, Announcements,
     AccountOpened, AccountClosed, AccountLost DEF Next, Finished

-----------------------------------------------------------------------------
(* The refund desk.                                                        *)

\* What a step may change of what the desk shows of one request.
LEMMA DeskUntouched ==
    ASSUME UNCHANGED <<registered, notices>>,
           \A r \in Request : /\ req'[r].value = "approve" <=> req[r].value = "approve"
                              /\ req'[r].pc = "notify" <=> req[r].pc = "notify"
    PROVE  UNCHANGED Desk!vars
BY DEF Desk!vars, Approvals, RefundOf, Announcing

LEMMA ArriveAtDesk ==
    ASSUME NEW r \in Request, Arrived(r)
    PROVE  [Desk!Next]_(Desk!vars)
<1>1. CASE req'[r].value = "approve"
  <2>1. Approvals' = Approvals \cup {r} /\ Announcing' = Announcing
    BY <1>1 DEF Arrived, Approvals, Announcing
  <2>2. \A x \in Request : RefundOf(x)' = RefundOf(x)
    BY DEF Arrived, RefundOf
  <2>3. RefundOf(r) = None
    BY DEF Arrived, RefundOf
  <2>4. Desk!Approve(r)
    BY <2>1, <2>2, <2>3 DEF Arrived, Desk!Approve
  <2> QED  BY <2>4 DEF Desk!Next
<1>2. CASE req'[r].value # "approve"
  BY <1>2, DeskUntouched DEF Arrived
<1> QED  BY <1>1, <1>2

LEMMA ApproveAtDesk ==
    ASSUME NEW r \in Request, Approves(r)
    PROVE  Desk!Next
<1> DEFINE o == req[r].order
<1>1. r \in Approvals /\ Approvals' = Approvals \ {r}
  BY DEF Approves, Approvals
<1>2. Announcing' = Announcing \cup {r}
  BY DEF Approves, Announcing
<1>3. RefundOf(r) = None /\ RefundOf(r)' = o
  BY DEF Approves, RefundOf
<1>4. \A x \in Request \ {r} : RefundOf(x)' = RefundOf(x)
  BY DEF Approves, RefundOf
<1>5. [x \in Request |-> RefundOf(x)]' = [[x \in Request |-> RefundOf(x)] EXCEPT ![r] = o]
  BY <1>3, <1>4
<1>6. Desk!Register(r, o) /\ o \in Own
  BY <1>1, <1>2, <1>3, <1>5 DEF Approves, Desk!Register
<1> QED  BY <1>6 DEF Desk!Next

LEMMA AnnounceAtDesk ==
    ASSUME ApprovalInv, NEW r \in Request, Announces(r)
    PROVE  Desk!Next
<1>1. Approvals' = Approvals
  BY DEF Announces, Approvals
<1>2. r \in Announcing /\ Announcing' = Announcing \ {r}
  BY DEF Announces, Announcing
<1>3. registered[r] = <<req[r].order>>
  BY DEF Announces, ApprovalInv, ApprovalOK
<1>4. RefundOf(r) = req[r].order
  BY <1>3 DEF RefundOf
<1>5. [x \in Request |-> RefundOf(x)]' = [x \in Request |-> RefundOf(x)]
  BY DEF Announces, RefundOf
<1>6. notices' = [notices EXCEPT ![RefundOf(r)] = @ + 1]
  BY <1>4 DEF Announces
<1>7. Desk!Announce(r)
  BY <1>1, <1>2, <1>5, <1>6 DEF Desk!Announce
<1> QED  BY <1>7 DEF Desk!Next

\* A server that dies keeps the refunds and the approvals, and tells nobody.
LEMMA RestartAtDesk ==
    ASSUME TypeOK, Restart
    PROVE  Desk!Next
<1>0. UNCHANGED <<registered, notices>>
  BY DEF Restart, Log
<1>1. ASSUME NEW r \in Request
      PROVE  req'[r].value = req[r].value /\ req'[r].pc # "notify"
  <2>1. req[r] \in RequestState
    BY DEF TypeOK
  <2>2. CASE Running(r)
    <3>1. req'[r] = [req[r] EXCEPT !.pc = "lost"]
      BY <2>2 DEF Restart
    <3> QED  BY <2>1, <3>1 DEF RequestState
  <2>3. CASE ~Running(r)
    BY <2>3 DEF Restart, Running
  <2> QED  BY <2>2, <2>3
<1>2. Approvals' = Approvals /\ Announcing' = {}
  BY <1>1 DEF Approvals, Announcing
<1>3. [x \in Request |-> RefundOf(x)]' = [x \in Request |-> RefundOf(x)]
  BY <1>0 DEF RefundOf
<1>4. Desk!ServerLost
  BY <1>0, <1>2, <1>3 DEF Desk!ServerLost
<1> QED  BY <1>4 DEF Desk!Next

LEMMA DeskInit == Init => Desk!Init
BY DEF Init, Idle, Desk!Init, Approvals, RefundOf, Announcing

LEMMA DeskNext == IInv /\ [Next]_vars => [Desk!Next]_(Desk!vars)
<1> SUFFICES ASSUME IInv, [Next]_vars PROVE [Desk!Next]_(Desk!vars)
  OBVIOUS
<1>0. TypeOK /\ ApprovalInv
  BY DEF IInv
<1>1. ASSUME NEW r \in Request, Quiet(r) PROVE UNCHANGED Desk!vars
  BY <1>1, DeskUntouched DEF Quiet
<1>2. ASSUME NEW r \in Request, Step(r) PROVE [Desk!Next]_(Desk!vars)
  BY <1>0, <1>1, <1>2, QuietSteps, ApprovalSteps, Announcements, ApproveAtDesk, AnnounceAtDesk
<1>3. ASSUME NEW r \in Request, Arrive(r) PROVE [Desk!Next]_(Desk!vars)
  BY <1>0, <1>3, Arrivals, ArriveAtDesk
<1>4. CASE UNCHANGED vars
  BY <1>4, DeskUntouched DEF vars
<1> QED
  BY <1>0, <1>2, <1>3, <1>4, RestartAtDesk DEF Next, Finished

-----------------------------------------------------------------------------
(* The theorems.                                                           *)

LEMMA InvInit == Init => IInv
<1> SUFFICES ASSUME Init PROVE IInv
  OBVIOUS
<1>1. TypeOK
  BY TypeInit
<1>2. ApprovalInv
  BY DEF Init, Idle, ApprovalInv, ApprovalOK
<1>3. ASSUME NEW o \in Order PROVE HeardOf(notices[o], Sending(o), By(o))
  <2>1. By(o) = {} /\ Sending(o) = {}
    BY NothingRefunded DEF Init, By, Sending
  <2>2. notices[o] = 0
    BY DEF Init
  <2> QED  BY <2>1, <2>2, FS_EmptySet DEF HeardOf
<1> QED  BY <1>1, <1>2, <1>3 DEF IInv, NoticesInv

LEMMA InvNext == IInv /\ [Next]_vars => IInv'
BY TypeNext, ApprovalsKept, NoticesKept DEF IInv

\* A decision is used once, and the staff heard of what was registered but for what a
\* request is about to announce (agent_resume, request_refund).
THEOREM Invariance == Spec => []IInv
BY InvInit, InvNext, PTL DEF Spec

\* Every variable of the refund keeps its type: its checkpoint is one that a run
\* of the graph can go on from, its refunds and notices are of known orders.
THEOREM RefundTypeCorrect == Spec => []TypeOK
<1>1. IInv => TypeOK
  BY DEF IInv
<1> QED  BY <1>1, Invariance, PTL

\* A decision registers at most one refund, and only an approval does, of an
\* order of the member: however calls of /chat/agent and /chat/agent/resume
\* overlap, whatever the model calls again, and across restarts, since the
\* request hands its decision to one interrupt() only.
THEOREM OneApprovalOneRefund == Spec => []OneRefundPerApproval
<1>1. IInv => OneRefundPerApproval
  <2> SUFFICES ASSUME IInv, NEW r \in Request, registered[r] # <<>>
               PROVE  /\ req[r].kind = "resume" /\ req[r].decision = "approve"
                      /\ Len(registered[r]) = 1 /\ registered[r][1] \in Own
    BY DEF OneRefundPerApproval
  <2>1. /\ req[r].kind = "resume" /\ req[r].decision = "approve"
        /\ \E o \in Own : registered[r] = <<o>>
    BY DEF IInv, ApprovalInv, ApprovalOK
  <2>2. PICK o \in Own : registered[r] = <<o>>
    BY <2>1
  <2>3. Len(registered[r]) = 1 /\ registered[r][1] = o
    BY <2>2
  <2> QED  BY <2>1, <2>3
<1> QED  BY <1>1, Invariance, PTL

\* The staff hears of each registered refund once and of no other; only a
\* server that dies between request_refund's two calls leaves one unannounced.
THEOREM StaffHearsOfRefunds == Spec => []NoticesMatchRegistrations
<1>1. IInv => NoticesMatchRegistrations
  BY DEF IInv, NoticesInv, HeardOf, NoticesMatchRegistrations, Sending, By, Refunded
<1> QED  BY <1>1, Invariance, PTL

\* To the member and the staff, the chat calls, interrupts and checkpoints are a
\* refund desk: every approval pays for one refund at most, which stays and is
\* announced by the request that registered it, or lost with the server
\* (request_refund, agent_resume, send_refund_admin_email).
THEOREM RefundsAreDeskWork == Spec => DeskSpec
BY DeskInit, DeskNext, Invariance, PTL DEF Spec, DeskSpec, Desk!Spec
=============================================================================
