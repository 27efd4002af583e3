-------------------------- MODULE MultiAgentProofs --------------------------
(***************************************************************************)
(* Proofs about MultiAgent for every window, cap and number of turns: its  *)
(* type, that the loop stops itself, that every LLM sees its turn and no   *)
(* call without its result, what the guard lets through and what a turn is *)
(* charged for.                                                            *)
(***************************************************************************)
EXTENDS MultiAgent, FiniteSetTheorems, SequenceTheorems, WellFoundedInduction, TLAPS

USE MultiAgentAssumption

-----------------------------------------------------------------------------
(* The window.                                                             *)

\* A set of positions has a first one.
LEMMA SmallestPosition ==
    ASSUME NEW S \in SUBSET Nat, S # {}
    PROVE  \E q \in S : \A j \in S : q <= j
<1>1. PICK q \in S : \A j \in S : ~ (<<j, q>> \in OpToRel(<, Nat))
  BY WFMin, NatLessThanWellFounded
<1>2. \A j \in S : ~ (j < q)
  BY <1>1 DEF OpToRel
<1> QED
  BY <1>2

\* A sequence whose last question is at h.
LastQuestionAt(ms, h) ==
    /\ h \in 1..Len(ms)
    /\ ms[h].kind = "human"
    /\ \A i \in 1..Len(ms) : h < i => ms[i].kind # "human"

\* trim_message_list drops nothing from the last question on.
LEMMA WindowKeepsLastTurn ==
    ASSUME NEW ms \in Seq(Message), NEW h, LastQuestionAt(ms, h),
           NEW i \in h..Len(ms)
    PROVE  ms[i] \in ToSet(TrimMessageList(ms))
<1> DEFINE recent == {j \in Questions(ms) : Len(ms) < j + Cap}
<1>0. /\ h \in Nat /\ i \in Nat /\ Len(ms) \in Nat /\ Cap \in Nat
      /\ h <= i /\ i <= Len(ms) /\ 1 <= h
  BY DEF LastQuestionAt
<1>1. CASE TrimMessages(ms) = <<>>
  <2>1. TrimMessageList(ms) = ms
    BY <1>1 DEF TrimMessageList
  <2>2. i \in DOMAIN ms
    BY <1>0
  <2> QED
    BY <2>1, <2>2 DEF ToSet
<1>2. CASE TrimMessages(ms) # <<>>
  <2>1. recent # {}
    BY <1>2 DEF TrimMessages
  <2>2. \A j \in recent : j \in 1..Len(ms) /\ j <= h /\ Len(ms) < j + Cap
    BY <1>0, SMTT(30) DEF LastQuestionAt, Questions
  <2>3. h \in recent
    <3>1. PICK j \in recent : TRUE
      BY <2>1
    <3>2. h \in Questions(ms)
      BY <1>0 DEF LastQuestionAt, Questions
    <3> QED
      BY <1>0, <2>2, <3>1, <3>2
  <2>4. \E q \in recent : \A j \in recent : q <= j
    <3>1. recent \subseteq 1..Len(ms)
      BY <2>2
    <3>2. recent \in SUBSET Nat
      BY <1>0, <3>1
    <3> HIDE DEF recent
    <3> QED
      BY <2>1, <3>2, SmallestPosition
  <2> DEFINE q == CHOOSE k \in recent : \A j \in recent : k <= j
  <2>5. q \in recent
    BY <2>4
  <2>6. q \in 1..Len(ms) /\ q <= h
    BY <2>2, <2>5
  <2>7. TrimMessages(ms) = SubSeq(ms, q, Len(ms))
    BY <2>1 DEF TrimMessages
  <2>8. TrimMessageList(ms) = SubSeq(ms, q, Len(ms))
    BY <1>2, <2>7 DEF TrimMessageList
  <2> HIDE DEF q, recent
  <2>9. i - q + 1 \in DOMAIN SubSeq(ms, q, Len(ms)) /\ SubSeq(ms, q, Len(ms))[i - q + 1] = ms[i]
    BY <1>0, <2>6
  <2> QED
    BY <2>8, <2>9 DEF ToSet
<1> QED
  BY <1>1, <1>2

-----------------------------------------------------------------------------
(* The invariant.                                                          *)

InRun == {"supervisor", "model", "tools"}

\* Every routing is two steps, and a worker runs in the middle of one.
LoopCount ==
    /\ pc = "supervisor" => steps = 2 * routing
    /\ pc \in {"model", "tools"} => steps + 1 = 2 * routing

\* The question of the turn is the last of the thread, and the turn's messages are
\* those from there on.
TurnIsLast ==
    /\ \A i \in 1..Len(thread) : thread[i].id[1] <= turn
    /\ pc = "begin" => \A i \in 1..Len(thread) : thread[i].id[1] < turn
    /\ pc \in InRun => \E h \in 1..Len(thread) :
            /\ LastQuestionAt(thread, h)
            /\ \A i \in 1..Len(thread) : i < h => thread[i].id[1] # turn

\* Only a running worker has messages of its own, no questions; its tools run for a call.
WorkOfTurn ==
    /\ pc \notin {"model", "tools"} => work = <<>>
    /\ pc = "tools" => work # <<>>
    /\ \A i \in 1..Len(work) : work[i].kind # "human" /\ work[i].id[1] = turn

IInv == TypeOK /\ (pc # "idle" => turn # 0) /\ LoopCount /\ TurnIsLast /\ WorkOfTurn

-----------------------------------------------------------------------------
(* Messages.                                                               *)

\* A plain message is one.
LEMMA PlainIsMessage ==
    ASSUME NEW id \in Id, NEW kind \in Kind
    PROVE  /\ Plain(id, kind) \in Message
           /\ Plain(id, kind).id = id /\ Plain(id, kind).kind = kind
  BY DEF Plain, Message, NoCall, Id

\* What a message of a sequence consists of.
LEMMA MessageParts ==
    ASSUME NEW ms \in Seq(Message), NEW i \in 1..Len(ms)
    PROVE  /\ ms[i] \in Message /\ ms[i].id \in Id
           /\ ms[i].id[1] \in Nat /\ ms[i].id[2] \in Nat
<1>1. ms[i] \in Message
  OBVIOUS
<1>2. ms[i].id \in Id
  BY <1>1 DEF Message
<1> QED
  BY <1>1, <1>2 DEF Id

\* A new message is numbered within its turn.
LEMMA NextIdIsId ==
    ASSUME TypeOK
    PROVE  NextId \in Id /\ NextId[1] = turn
<1> DEFINE S == {i \in DOMAIN thread : thread[i].id[1] = turn}
<1>1. DOMAIN thread = 1..Len(thread) /\ Len(thread) \in Nat /\ Len(work) \in Nat /\ turn \in Nat
  BY SMTT(30) DEF TypeOK
<1>2. IsFiniteSet(1..Len(thread))
  BY <1>1, FS_Interval
<1>3. IsFiniteSet(S)
  BY <1>1, <1>2, FS_Subset
<1>4. Cardinality(S) \in Nat
  BY <1>3, FS_CardinalityType
<1>5. NextNumber = Cardinality(S) + Len(work)
  BY DEF NextNumber
<1> HIDE DEF S
<1> QED
  BY <1>1, <1>4, <1>5 DEF NextId, Id

\* The history a guest sends belongs to no turn of the server.
LEMMA ClientHistoryIsOld ==
    ASSUME TypeOK, turn # 0
    PROVE  /\ ClientHistory \in Seq(Message)
           /\ \A i \in 1..Len(ClientHistory) : ClientHistory[i].id[1] = 0
<1> DEFINE n == 2 * (turn - 1)
           m(i) == Plain(<<0, i>>, IF i % 2 = 1 THEN "human" ELSE "bot")
<1>1. n \in Nat
  BY DEF TypeOK
<1>2. \A i \in 1..n : m(i) \in Message /\ m(i).id[1] = 0
  <2> SUFFICES ASSUME NEW i \in 1..n
               PROVE  m(i) \in Message /\ m(i).id[1] = 0
    OBVIOUS
  <2>1. <<0, i>> \in Id /\ <<0, i>>[1] = 0
    BY <1>1 DEF Id
  <2>2. (IF i % 2 = 1 THEN "human" ELSE "bot") \in Kind
    BY DEF Kind
  <2> QED
    BY <2>1, <2>2, PlainIsMessage
<1>3. ClientHistory = [i \in 1..n |-> m(i)]
  BY DEF ClientHistory
<1> HIDE DEF n, m
<1> QED
  BY <1>1, <1>2, <1>3

\* Tool results belong to the turn of their call.
LEMMA ResultsAreOfTurn ==
    ASSUME NEW call \in Message
    PROVE  /\ Results(call) \in Seq(Message)
           /\ \A i \in 1..Len(Results(call)) :
                 /\ Results(call)[i].kind = "tool"
                 /\ Results(call)[i].id[1] = call.id[1]
<1> DEFINE n == call.calls
           m(i) == [Plain(<<call.id[1], call.id[2] + i>>, "tool") EXCEPT !.of = <<call.id, i>>]
<1>1. n \in 0..MaxCalls /\ n \in Nat /\ call.id \in Id /\ call.id[1] \in Nat /\ call.id[2] \in Nat
  BY DEF Message, Id
<1>2. \A i \in 1..n : m(i) \in Message /\ m(i).kind = "tool" /\ m(i).id[1] = call.id[1]
  <2> SUFFICES ASSUME NEW i \in 1..n
               PROVE  m(i) \in Message /\ m(i).kind = "tool" /\ m(i).id[1] = call.id[1]
    OBVIOUS
  <2>1. <<call.id, i>> \in Id \X (0..MaxCalls)
    BY <1>1
  <2>2. <<call.id[1], call.id[2] + i>> \in Id
    BY <1>1 DEF Id
  <2>3. m(i) = [id |-> <<call.id[1], call.id[2] + i>>, kind |-> "tool", calls |-> 0,
                of |-> <<call.id, i>>]
    BY DEF Plain
  <2> HIDE DEF m
  <2> QED
    BY <2>1, <2>2, <2>3 DEF Message, Kind
<1>3. Results(call) = [i \in 1..n |-> m(i)]
  BY DEF Results
<1> HIDE DEF n, m
<1> QED
  BY <1>1, <1>2, <1>3

-----------------------------------------------------------------------------
(* The steps.                                                              *)

\* The messages stay and the turn goes on, or is over.
LEMMA ThreadStays ==
    ASSUME TurnIsLast, UNCHANGED <<thread, turn>>, pc # "begin",
           pc' \in Pc \ {"begin"}, pc' \in InRun => pc \in InRun
    PROVE  TurnIsLast'
  BY DEF TurnIsLast, LastQuestionAt

\* A question starts with no messages of its own.
LEMMA AskKeepsInv ==
    ASSUME IInv, Ask
    PROVE  IInv'
<1>1. IdsIn(thread) \in SUBSET Id
  <2>1. \A i \in 1..Len(thread) : thread[i].id \in Id
    BY MessageParts DEF IInv, TypeOK
  <2>2. DOMAIN thread = 1..Len(thread)
    BY DEF IInv, TypeOK
  <2> QED
    BY <2>1, <2>2 DEF IdsIn
<1>2. TypeOK'
  BY <1>1, SMTT(30) DEF IInv, TypeOK, Ask, Pc
<1>3. turn' # 0 /\ turn \in Nat
  BY DEF IInv, TypeOK, Ask
<1>4. TurnIsLast'
  <2>1. \A i \in 1..Len(thread) : thread[i].id[1] \in Nat
    BY MessageParts DEF IInv, TypeOK
  <2>2. \A i \in 1..Len(thread) : thread[i].id[1] <= turn
    BY DEF IInv, TurnIsLast
  <2>3. turn' = turn + 1 /\ thread' = thread /\ pc' = "begin"
    BY DEF Ask
  <2>4. \A i \in 1..Len(thread) : thread[i].id[1] <= turn' /\ thread[i].id[1] < turn'
    BY <1>3, <2>1, <2>2, <2>3, SMTT(30)
  <2> QED
    BY <2>3, <2>4 DEF TurnIsLast, InRun
<1> QED
  BY <1>2, <1>3, <1>4 DEF IInv, Ask, LoopCount, WorkOfTurn

\* The run begins with its question last.
LEMMA BeginKeepsInv ==
    ASSUME IInv, Begin
    PROVE  IInv'
<1> DEFINE base == IF guest THEN ClientHistory ELSE thread
           question == Plain(<<turn, 0>>, "human")
<1>1. turn \in Nat /\ turn # 0 /\ pc = "begin" /\ pc' = "supervisor" /\ turn' = turn
  BY DEF IInv, TypeOK, Begin, request
<1>2. question \in Message /\ question.id[1] = turn /\ question.kind = "human"
  BY <1>1, PlainIsMessage DEF Id, Kind
<1>3. base \in Seq(Message) /\ \A i \in 1..Len(base) : base[i].id[1] < turn
  BY <1>1, ClientHistoryIsOld, SMTT(30) DEF IInv, TypeOK, TurnIsLast
<1>4. thread' = Append(base, question)
  BY DEF Begin
<1> HIDE DEF base, question
<1>5. /\ thread' \in Seq(Message) /\ Len(thread') = Len(base) + 1 /\ Len(base) \in Nat
      /\ thread'[Len(base) + 1] = question
      /\ \A i \in 1..Len(base) : thread'[i] = base[i]
  BY <1>2, <1>3, <1>4
<1>6. TypeOK'
  <2>1. /\ pc' \in Pc /\ routing' = 0 /\ steps' = 0 /\ hits' = 0 /\ turn' = turn
        /\ UNCHANGED <<guest, prior, counted, work, searches, final>>
    BY DEF Begin, request, Pc, InitHits
  <2>2. 0 \in 0..MaxRouting /\ 0 \in 0..RecursionLimit /\ 0 \in 0..MaxTurns
    BY MultiAgentAssumption
  <2> QED
    BY <1>5, <2>1, <2>2 DEF IInv, TypeOK
<1>7. TurnIsLast'
  <2>1. LastQuestionAt(thread', Len(thread'))
    BY <1>2, <1>5 DEF LastQuestionAt
  <2>2. \A i \in 1..Len(base) : base[i].id[1] \in Nat
    BY <1>3, MessageParts
  <2>3. \A i \in 1..Len(thread') : thread'[i].id[1] <= turn
    <3>1. \A i \in 1..Len(base) : base[i].id[1] <= turn
      BY <1>1, <1>3, <2>2, SMTT(30)
    <3>2. question.id[1] <= turn
      BY <1>1, <1>2
    <3> QED
      BY <1>5, <3>1, <3>2, SMTT(30)
  <2>4. \A i \in 1..Len(base) : base[i].id[1] # turn
    BY <1>1, <1>3, <2>2
  <2>5. \A i \in 1..Len(thread') : i < Len(thread') => thread'[i].id[1] # turn
    BY <1>5, <2>4, SMTT(30)
  <2>6. Len(thread') \in 1..Len(thread')
    BY <1>5
  <2> QED
    BY <1>1, <2>1, <2>3, <2>5, <2>6 DEF TurnIsLast
<1>8. LoopCount'
  BY <1>1 DEF Begin, LoopCount
<1>9. WorkOfTurn'
  BY <1>1 DEF IInv, Begin, WorkOfTurn
<1> QED
  BY <1>1, <1>6, <1>7, <1>8, <1>9 DEF IInv

\* A forgotten thread is empty.
LEMMA ForgetKeepsInv ==
    ASSUME IInv, Forget
    PROVE  IInv'
<1>1. thread' = <<>> /\ Len(<<>>) = 0 /\ <<>> \in Seq(Message)
  BY DEF Forget
<1>2. TypeOK'
  BY <1>1 DEF IInv, TypeOK, Forget, request
<1>3. TurnIsLast'
  BY <1>1 DEF Forget, TurnIsLast, InRun
<1> QED
  BY <1>2, <1>3 DEF IInv, Forget, request, LoopCount, WorkOfTurn

\* A decision of the supervisor takes a step, and one for a worker is counted.
LEMMA SupervisorKeepsInv ==
    ASSUME IInv, Route \/ RouteFails \/ ForceFinish
    PROVE  IInv'
<1>1. /\ pc = "supervisor" /\ pc' \in {"model", "guard"}
      /\ steps < RecursionLimit /\ steps' = steps + 1
      /\ UNCHANGED <<request, thread, work, searches, hits>>
  BY DEF Route, RouteFails, ForceFinish, NextStep
<1>2. /\ routing' \in 0..MaxRouting
      /\ pc' = "model" => routing' = routing + 1
  <2>1. MaxRouting \in Nat /\ routing \in 0..MaxRouting
    BY MultiAgentAssumption DEF IInv, TypeOK
  <2>2. CASE Route
    <3>1. routing < MaxRouting /\ routing' = routing + 1
      BY <2>2 DEF Route, CanRoute, CountRouting
    <3> QED
      BY <2>1, <3>1
  <2>3. CASE RouteFails \/ ForceFinish
    <3>1. routing' = routing /\ pc' = "guard"
      BY <2>3 DEF RouteFails, ForceFinish, NextStep
    <3> QED
      BY <2>1, <3>1
  <2> QED
    BY <2>2, <2>3
<1>3. final' \in Answer
  <2>1. Fixed("fixed") \in Answer
    BY DEF Fixed, Answer, Author
  <2>2. LLMAnswers \subseteq Answer
    BY DEF LLMAnswers
  <2> QED
    BY <2>1, <2>2 DEF IInv, TypeOK, Route, RouteFails, ForceFinish
<1>4. TypeOK'
  <2>1. steps' \in 0..RecursionLimit
    BY <1>1, MultiAgentAssumption DEF IInv, TypeOK
  <2>2. pc' \in Pc
    BY <1>1 DEF Pc
  <2> QED
    BY <1>1, <1>2, <1>3, <2>1, <2>2 DEF IInv, TypeOK, request
<1>5. TurnIsLast'
  BY <1>1, ThreadStays DEF IInv, request, InRun, Pc
<1>6. LoopCount'
  <2>1. steps = 2 * routing /\ routing \in Nat /\ steps \in Nat
    BY <1>1 DEF IInv, TypeOK, LoopCount
  <2>2. CASE pc' = "model"
    BY <1>1, <1>2, <2>1, <2>2 DEF LoopCount
  <2>3. CASE pc' = "guard"
    BY <2>3 DEF LoopCount
  <2> QED
    BY <1>1, <2>2, <2>3
<1>7. WorkOfTurn'
  BY <1>1 DEF IInv, WorkOfTurn, request
<1> QED
  BY <1>1, <1>4, <1>5, <1>6, <1>7 DEF IInv, request

\* The answer of a worker ends its list, which joins the thread.
LEMMA WorkerAnswersKeepsInv ==
    ASSUME IInv, WorkerAnswers
    PROVE  IInv'
<1> DEFINE answer == Plain(NextId, "text")
           added == Append(work, answer)
<1>1. /\ pc = "model" /\ pc' = "supervisor" /\ work' = <<>> /\ turn' = turn
      /\ steps < RecursionLimit /\ steps' = steps + 1
      /\ turn \in Nat
      /\ UNCHANGED <<request, searches, routing, hits, final>>
  BY DEF IInv, TypeOK, WorkerAnswers, NextStep, request
<1>2. answer \in Message /\ answer.id[1] = turn /\ answer.kind = "text"
  BY NextIdIsId, PlainIsMessage DEF IInv, Kind
<1>3. thread' = thread \o added
  BY DEF WorkerAnswers
<1>4. work \in Seq(Message) /\ thread \in Seq(Message)
  BY DEF IInv, TypeOK
<1>5. added \in Seq(Message) /\ \A i \in 1..Len(added) : added[i].kind # "human" /\ added[i].id[1] = turn
  <2> HIDE DEF answer
  <2>1. \A i \in 1..Len(work) : work[i].kind # "human" /\ work[i].id[1] = turn
    BY DEF IInv, WorkOfTurn
  <2> QED
    BY <1>2, <1>4, <2>1
<1> HIDE DEF added
<1>6. /\ thread' \in Seq(Message) /\ Len(thread') = Len(thread) + Len(added)
      /\ Len(thread) \in Nat /\ Len(added) \in Nat
      /\ \A i \in 1..Len(thread) : thread'[i] = thread[i]
      /\ \A i \in 1..Len(thread') : Len(thread) < i =>
            thread'[i] = added[i - Len(thread)] /\ i - Len(thread) \in 1..Len(added)
  BY <1>3, <1>4, <1>5, SMTT(30)
<1>7. TypeOK'
  <2>1. steps' \in 0..RecursionLimit
    BY <1>1, MultiAgentAssumption DEF IInv, TypeOK
  <2>2. pc' \in Pc /\ work' \in Seq(Message)
    BY <1>1 DEF Pc
  <2> QED
    BY <1>1, <1>6, <2>1, <2>2 DEF IInv, TypeOK, request
<1>8. TurnIsLast'
  <2>1. ASSUME NEW i \in 1..Len(thread'), Len(thread) < i
        PROVE  thread'[i].kind # "human" /\ thread'[i].id[1] = turn
    <3>1. thread'[i] = added[i - Len(thread)] /\ i - Len(thread) \in 1..Len(added)
      BY <1>6, <2>1
    <3> QED
      BY <1>5, <3>1
  <2>2. PICK h \in 1..Len(thread) :
            /\ LastQuestionAt(thread, h)
            /\ \A i \in 1..Len(thread) : i < h => thread[i].id[1] # turn
    BY <1>1 DEF IInv, TurnIsLast, InRun
  <2>3. LastQuestionAt(thread', h) /\ h \in 1..Len(thread')
    <3>1. h \in 1..Len(thread') /\ thread'[h].kind = "human"
      BY <1>6, <2>2 DEF LastQuestionAt
    <3>2. \A i \in 1..Len(thread) : h < i => thread'[i].kind # "human"
      BY <1>6, <2>2 DEF LastQuestionAt
    <3>3. \A i \in 1..Len(thread') : i \in 1..Len(thread) \/ Len(thread) < i
      BY <1>6
    <3> QED
      BY <2>1, <3>1, <3>2, <3>3 DEF LastQuestionAt
  <2>4. \A i \in 1..Len(thread') : i < h => thread'[i].id[1] # turn
    <3> SUFFICES ASSUME NEW i \in 1..Len(thread'), i < h
                 PROVE  thread'[i].id[1] # turn
      OBVIOUS
    <3>1. i \in 1..Len(thread)
      BY <1>6, <2>2
    <3> QED
      BY <1>6, <2>2, <3>1
  <2>5. \A i \in 1..Len(thread') : thread'[i].id[1] <= turn
    <3> SUFFICES ASSUME NEW i \in 1..Len(thread')
                 PROVE  thread'[i].id[1] <= turn
      OBVIOUS
    <3>1. CASE Len(thread) < i
      BY <1>1, <2>1, <3>1, SMTT(30)
    <3>2. CASE i \in 1..Len(thread)
      BY <1>6, <3>2 DEF IInv, TurnIsLast
    <3> QED
      BY <1>6, <3>1, <3>2
  <2> QED
    BY <1>1, <2>3, <2>4, <2>5 DEF TurnIsLast
<1>9. LoopCount'
  BY <1>1 DEF IInv, TypeOK, LoopCount
<1>10. WorkOfTurn'
  BY <1>1 DEF WorkOfTurn
<1> QED
  BY <1>1, <1>7, <1>8, <1>9, <1>10 DEF IInv

\* The calls of a worker stay in its own list.
LEMMA WorkerCallsKeepsInv ==
    ASSUME IInv, WorkerCalls
    PROVE  IInv'
<1> DEFINE call(n) == [Plain(NextId, "call") EXCEPT !.calls = n]
<1>1. PICK n \in 1..MaxCalls : work' = Append(work, call(n)) /\ searches' \in 0..n
  BY DEF WorkerCalls
<1>2. n \in 0..MaxCalls /\ searches' \in 0..MaxCalls
  BY <1>1
<1>3. call(n) \in Message /\ call(n).kind = "call" /\ call(n).id[1] = turn
  <2>1. NextId \in Id /\ NextId[1] = turn
    BY NextIdIsId DEF IInv
  <2>2. call(n) = [id |-> NextId, kind |-> "call", calls |-> n, of |-> NoCall]
    BY DEF Plain
  <2>3. NoCall \in Id \X (0..MaxCalls)
    BY DEF NoCall, Id
  <2> HIDE DEF call
  <2> QED
    BY <1>2, <2>1, <2>2, <2>3 DEF Message, Kind
<1> HIDE DEF call
<1>4. work \in Seq(Message)
  BY DEF IInv, TypeOK
<1>5. work' \in Seq(Message) /\ work' # <<>>
  BY <1>1, <1>3, <1>4
<1>6. \A i \in 1..Len(work') : work'[i].kind # "human" /\ work'[i].id[1] = turn
  BY <1>1, <1>3, <1>4, SMTT(30) DEF IInv, WorkOfTurn
<1>7. pc = "model" /\ pc' = "tools" /\ UNCHANGED <<request, thread, routing, steps, hits, final>>
  BY DEF WorkerCalls
<1>8. TypeOK'
  BY <1>2, <1>5, <1>7 DEF IInv, TypeOK, request, Pc
<1>9. TurnIsLast'
  BY <1>7, ThreadStays DEF IInv, request, InRun, Pc
<1>10. LoopCount' /\ WorkOfTurn'
  BY <1>5, <1>6, <1>7 DEF IInv, LoopCount, WorkOfTurn, request
<1> QED
  BY <1>7, <1>8, <1>9, <1>10 DEF IInv, request

\* The results of the calls stay in the list of the worker.
LEMMA RunToolsKeepsInv ==
    ASSUME IInv, RunTools
    PROVE  IInv'
<1> DEFINE results == Results(Last(work))
<1>1. pc = "tools" /\ pc' = "model" /\ UNCHANGED <<request, thread, routing, steps, final>>
  BY DEF RunTools
<1>2. work \in Seq(Message) /\ work # <<>>
  BY <1>1 DEF IInv, TypeOK, WorkOfTurn
<1>3. Last(work) = work[Len(work)] /\ Len(work) \in 1..Len(work)
  BY <1>2 DEF Last
<1>4. Last(work) \in Message /\ Last(work).id[1] = turn
  BY <1>2, <1>3 DEF IInv, WorkOfTurn
<1>5. /\ results \in Seq(Message)
      /\ \A i \in 1..Len(results) : results[i].kind = "tool" /\ results[i].id[1] = turn
  BY <1>4, ResultsAreOfTurn
<1>6. work' = work \o results
  BY DEF RunTools
<1> HIDE DEF results
<1>7. work' \in Seq(Message)
  BY <1>2, <1>5, <1>6
<1>8. \A i \in 1..Len(work') : work'[i].kind # "human" /\ work'[i].id[1] = turn
  <2> SUFFICES ASSUME NEW i \in 1..Len(work')
               PROVE  work'[i].kind # "human" /\ work'[i].id[1] = turn
    OBVIOUS
  <2>1. CASE i \in 1..Len(work)
    <3>1. work'[i] = work[i]
      BY <1>2, <1>5, <1>6, <2>1
    <3> QED
      BY <2>1, <3>1 DEF IInv, WorkOfTurn
  <2>2. CASE i \notin 1..Len(work)
    <3>1. i - Len(work) \in 1..Len(results) /\ work'[i] = results[i - Len(work)]
      BY <1>2, <1>5, <1>6, <2>2, SMTT(30)
    <3> QED
      BY <1>5, <3>1
  <2> QED
    BY <2>1, <2>2
<1>9. hits' \in 0..MaxTurns /\ searches' \in 0..MaxCalls
  BY SMTT(30) DEF IInv, TypeOK, RunTools
<1>10. TypeOK'
  BY <1>1, <1>7, <1>9 DEF IInv, TypeOK, request, Pc
<1>11. TurnIsLast'
  BY <1>1, ThreadStays DEF IInv, request, InRun, Pc
<1>12. LoopCount' /\ WorkOfTurn'
  BY <1>1, <1>8 DEF IInv, LoopCount, WorkOfTurn, request
<1> QED
  BY <1>1, <1>10, <1>11, <1>12 DEF IInv, request

\* A run that fails keeps the messages saved so far.
LEMMA AbortKeepsInv ==
    ASSUME IInv, Abort
    PROVE  IInv'
<1>1. TypeOK'
  BY SMTT(30) DEF IInv, TypeOK, Abort, request, Pc, Fixed, Answer, Author
<1>2. TurnIsLast'
  BY DEF IInv, TurnIsLast, Abort, request, InRun
<1> QED
  BY <1>1, <1>2 DEF IInv, Abort, LoopCount, WorkOfTurn

\* The guard changes the final answer and adds no question.
LEMMA GuardKeepsInv ==
    ASSUME IInv, GuardPass \/ GuardWarn \/ GuardRetry
    PROVE  IInv'
<1>1. Fixed("fallback") \in Answer
  BY DEF Fixed, Answer, Author
<1>2. [final EXCEPT !.by = "warned"] \in Answer
  BY DEF IInv, TypeOK, Answer, Author
<1>3. \E a \in Answer : Guarded(a)
  <2>1. CASE GuardPass
    BY <2>1 DEF IInv, TypeOK, GuardPass
  <2>2. CASE GuardWarn
    BY <1>2, <2>2 DEF GuardWarn
  <2>3. CASE GuardRetry
    BY <1>1, <2>3 DEF GuardRetry, Verified
  <2> QED
    BY <2>1, <2>2, <2>3
<1>4. /\ pc = "guard" /\ pc' = "count" /\ final' \in Answer
      /\ UNCHANGED <<request, thread, work, searches, routing, steps, hits>>
  BY <1>3 DEF Guarded, GuardPass, GuardWarn, GuardRetry
<1>5. TypeOK'
  BY <1>4 DEF IInv, TypeOK, request, Pc
<1>6. TurnIsLast'
  BY <1>4, ThreadStays DEF IInv, request, InRun, Pc
<1> QED
  BY <1>4, <1>5, <1>6 DEF IInv, LoopCount, WorkOfTurn, request

\* Counting changes no message.
LEMMA CountKeepsInv ==
    ASSUME IInv, Count
    PROVE  IInv'
<1>1. IdsIn(thread) \in SUBSET Id
  <2>1. \A i \in 1..Len(thread) : thread[i].id \in Id
    BY MessageParts DEF IInv, TypeOK
  <2>2. DOMAIN thread = 1..Len(thread)
    BY DEF IInv, TypeOK
  <2> QED
    BY <2>1, <2>2 DEF IdsIn
<1>2. TypeOK'
  BY <1>1 DEF IInv, TypeOK, Count, Pc, FilterNewMessages
<1>3. TurnIsLast'
  BY ThreadStays DEF IInv, Count, InRun, Pc
<1> QED
  BY <1>2, <1>3 DEF IInv, Count, LoopCount, WorkOfTurn

\* Every step keeps the invariant.
LEMMA StepKeepsInv ==
    ASSUME IInv, [Next]_vars
    PROVE  IInv'
<1>1. CASE UNCHANGED vars
  BY <1>1 DEF vars, IInv, TypeOK, LoopCount, TurnIsLast, LastQuestionAt, WorkOfTurn
<1>2. CASE Over
  BY <1>1, <1>2 DEF Over
<1>3. CASE SearchesCollide \/ WorkerExhausted \/ RunFails
  BY <1>3, AbortKeepsInv DEF SearchesCollide, WorkerExhausted, RunFails
<1> QED
  BY <1>1, <1>2, <1>3, AskKeepsInv, BeginKeepsInv, ForgetKeepsInv, SupervisorKeepsInv,
     WorkerAnswersKeepsInv, WorkerCallsKeepsInv, RunToolsKeepsInv, GuardKeepsInv,
     CountKeepsInv DEF Next

\* The invariant holds before the first turn.
LEMMA InitHasInv == Init => IInv
<1> SUFFICES ASSUME Init PROVE IInv
  OBVIOUS
<1>1. TypeOK
  BY DEF Init, TypeOK, Pc, Fixed, Answer, Author
<1> QED
  BY <1>1 DEF Init, IInv, LoopCount, TurnIsLast, WorkOfTurn, InRun

\* The invariant holds at all times.
LEMMA SpecHasInv == Spec => []IInv
  BY InitHasInv, StepKeepsInv, PTL DEF Spec

-----------------------------------------------------------------------------
(* Theorems.                                                               *)

\* Every state of a multi-agent conversation has its type.
THEOREM TypeCorrect == Spec => []TypeOK
<1>1. IInv => TypeOK
  BY DEF IInv
<1> QED
  BY <1>1, SpecHasInv, PTL

\* MAX_ROUTING ends the loop of the supervisor before the recursion limit does: two
\* steps per routing always leave room for the last decision and the guard.
THEOREM LoopEndsBeforeTheLimit == Spec => []LoopStopsItself
<1>1. IInv => LoopStopsItself
  BY SMTT(30) DEF IInv, TypeOK, LoopCount, LoopStopsItself
<1> QED
  BY <1>1, SpecHasInv, PTL

\* However long a conversation and however small the window, an LLM is shown all of
\* the turn it works for: trim_message_list cuts before the question or not at all.
THEOREM EveryCallSeesItsTurn == Spec => []WholeTurnSeen
<1>1. IInv => WholeTurnSeen
  <2> SUFFICES ASSUME IInv, pc \in {"supervisor", "model"}
               PROVE  \A i \in DOMAIN (thread \o work) :
                         (thread \o work)[i].id[1] = turn =>
                            (thread \o work)[i] \in ToSet(Input)
    BY DEF WholeTurnSeen
  <2> DEFINE ms == thread \o work
  <2>1. /\ thread \in Seq(Message) /\ work \in Seq(Message) /\ ms \in Seq(Message)
        /\ Len(thread) \in Nat /\ Len(work) \in Nat /\ Len(ms) = Len(thread) + Len(work)
        /\ \A i \in 1..Len(thread) : ms[i] = thread[i]
        /\ \A i \in 1..Len(ms) : Len(thread) < i =>
              i - Len(thread) \in 1..Len(work) /\ ms[i] = work[i - Len(thread)]
        /\ \A i \in 1..Len(ms) : i \in 1..Len(thread) \/ Len(thread) < i
    <3>1. /\ thread \in Seq(Message) /\ work \in Seq(Message)
          /\ Len(thread) \in Nat /\ Len(work) \in Nat
      BY DEF IInv, TypeOK
    <3>2. ms \in Seq(Message) /\ Len(ms) = Len(thread) + Len(work)
      BY <3>1
    <3>3. \A i \in 1..Len(thread) : ms[i] = thread[i]
      BY <3>1
    <3>4. ASSUME NEW i \in 1..Len(ms), Len(thread) < i
          PROVE  i - Len(thread) \in 1..Len(work) /\ ms[i] = work[i - Len(thread)]
      BY <3>1, <3>2, <3>4, SMTT(30)
    <3>5. \A i \in 1..Len(ms) : i \in 1..Len(thread) \/ Len(thread) < i
      BY <3>1, <3>2
    <3> QED
      BY <3>1, <3>2, <3>3, <3>4, <3>5
  <2>2. PICK h \in 1..Len(thread) :
            /\ LastQuestionAt(thread, h)
            /\ \A i \in 1..Len(thread) : i < h => thread[i].id[1] # turn
    BY DEF IInv, TurnIsLast, InRun
  <2>3. Input = TrimMessageList(ms) /\ DOMAIN ms = 1..Len(ms)
    BY <2>1 DEF Input
  <2> HIDE DEF ms
  <2>4. LastQuestionAt(ms, h)
    <3>1. \A i \in 1..Len(ms) : Len(thread) < i => ms[i].kind # "human"
      BY <2>1 DEF IInv, WorkOfTurn
    <3>2. \A i \in 1..Len(thread) : h < i => ms[i].kind # "human"
      BY <2>1, <2>2 DEF LastQuestionAt
    <3>3. h \in 1..Len(ms) /\ ms[h].kind = "human"
      BY <2>1, <2>2 DEF LastQuestionAt
    <3> QED
      BY <2>1, <3>1, <3>2, <3>3 DEF LastQuestionAt
  <2>5. ASSUME NEW i \in 1..Len(ms), ms[i].id[1] = turn
        PROVE  ms[i] \in ToSet(TrimMessageList(ms))
    <3>1. i \in h..Len(ms)
      <4>1. CASE i < h
        <5>1. i \in 1..Len(thread) /\ ms[i] = thread[i]
          BY <2>1, <2>2, <4>1
        <5> QED
          BY <2>2, <2>5, <4>1, <5>1
      <4> QED
        BY <2>1, <2>2, <4>1
    <3> QED
      BY <2>1, <2>4, <3>1, WindowKeepsLastTurn
  <2> QED
    BY <2>3, <2>5 DEF ms
<1> QED
  BY <1>1, SpecHasInv, PTL

-----------------------------------------------------------------------------
(* The guard's evidence.                                                   *)

\* The hits of a run are of its turn, and what left the guard rests on them.
Evidence ==
    /\ pc \in InRun \cup {"guard", "count"} => hits \in {0, turn}
    /\ pc = "count" /\ hits # 0 => final.grounded \/ final.by = "fallback"

LEMMA EvidenceKept ==
    ASSUME Evidence, [Next]_vars
    PROVE  Evidence'
<1>1. CASE Ask \/ Forget \/ SearchesCollide \/ WorkerExhausted \/ RunFails \/ Count
  BY <1>1 DEF Evidence, InRun, Ask, Forget, SearchesCollide, WorkerExhausted, RunFails,
              Abort, Count, request
<1>2. CASE Begin
  BY <1>2 DEF Evidence, InRun, Begin, InitHits, request
<1>3. CASE Route \/ RouteFails \/ ForceFinish
  BY <1>3 DEF Evidence, InRun, Route, RouteFails, ForceFinish, NextStep, request
<1>4. CASE WorkerAnswers \/ WorkerCalls \/ RunTools
  BY <1>4 DEF Evidence, InRun, WorkerAnswers, WorkerCalls, RunTools, NextStep, request
<1>5. CASE GuardPass \/ GuardWarn
  BY <1>5 DEF Evidence, InRun, GuardPass, GuardWarn, Guarded, request
<1>6. CASE GuardRetry
  <2>1. PICK a : (a.grounded \/ a.by = "fallback") /\ Guarded(a)
    BY <1>6 DEF GuardRetry, Verified, Fixed
  <2> QED
    BY <1>6, <2>1 DEF Evidence, InRun, GuardRetry, Guarded, Verified, Fixed, request
<1>7. CASE Over \/ UNCHANGED vars
  BY <1>7 DEF Evidence, InRun, Over, vars
<1> QED
  BY <1>1, <1>2, <1>3, <1>4, <1>5, <1>6, <1>7 DEF Next

\* The guard never holds an answer against the hits of an older turn, and what it
\* lets through with hits is grounded in them or the fixed fallback: init_state
\* empties rag_hits, and the one retry is verified like the first answer.
THEOREM AnswersRestOnThisTurn == Spec => []CheckedAgainstThisTurn
<1>1. Init => Evidence
  BY DEF Init, Evidence, InRun
<1>2. Evidence => CheckedAgainstThisTurn
  BY DEF Evidence, CheckedAgainstThisTurn
<1> QED
  BY <1>1, <1>2, EvidenceKept, PTL DEF Spec

-----------------------------------------------------------------------------
(* The charge.                                                             *)

\* A snapshot that could be read has every message of an earlier turn that is still
\* in the thread, and none of this one; a guest's is empty.
SnapshotIsOld ==
    /\ guest => prior = {}
    /\ pc # "idle" => \A id \in prior : id[1] < turn
    /\ prior # {} => \A i \in 1..Len(thread) : thread[i].id[1] = turn \/ thread[i].id \in prior

\* A run adds messages of its turn only.
LEMMA RunAddsOwnMessages ==
    ASSUME IInv, Begin \/ WorkerAnswers, ~ guest
    PROVE  /\ \A i \in 1..Len(thread') : thread'[i].id[1] = turn \/
                 (i \in 1..Len(thread) /\ thread'[i] = thread[i])
           /\ UNCHANGED <<guest, turn, prior>>
<1>0. thread \in Seq(Message) /\ work \in Seq(Message) /\ turn \in Nat
  BY DEF IInv, TypeOK
<1>1. CASE Begin
  <2> DEFINE question == Plain(<<turn, 0>>, "human")
  <2>1. question \in Message /\ question.id[1] = turn
    BY <1>0, PlainIsMessage DEF Id, Kind
  <2>2. thread' = Append(thread, question)
    BY <1>1 DEF Begin
  <2> HIDE DEF question
  <2>3. UNCHANGED <<guest, turn, prior>>
    BY <1>1 DEF Begin, request
  <2> QED
    BY <1>0, <2>1, <2>2, <2>3
<1>2. CASE WorkerAnswers
  <2> DEFINE answer == Plain(NextId, "text")
             added == Append(work, answer)
  <2>1. answer \in Message /\ answer.id[1] = turn
    BY NextIdIsId, PlainIsMessage DEF IInv, Kind
  <2>2. \A i \in 1..Len(work) : work[i].id[1] = turn
    BY DEF IInv, WorkOfTurn
  <2> HIDE DEF answer
  <2>3. added \in Seq(Message) /\ \A i \in 1..Len(added) : added[i].id[1] = turn
    BY <1>0, <2>1, <2>2
  <2>4. thread' = thread \o added /\ UNCHANGED <<guest, turn, prior>>
    BY <1>2 DEF WorkerAnswers, request, answer
  <2> HIDE DEF added
  <2>5. ASSUME NEW i \in 1..Len(thread')
        PROVE  thread'[i].id[1] = turn \/
                 (i \in 1..Len(thread) /\ thread'[i] = thread[i])
    <3>1. CASE i \in 1..Len(thread)
      BY <1>0, <2>3, <2>4, <3>1
    <3>2. CASE i \notin 1..Len(thread)
      <4>1. i - Len(thread) \in 1..Len(added) /\ thread'[i] = added[i - Len(thread)]
        BY <1>0, <2>3, <2>4, <3>2, SMTT(30)
      <4> QED
        BY <2>3, <4>1
    <3> QED
      BY <3>1, <3>2
  <2> QED
    BY <2>4, <2>5
<1> QED
  BY <1>1, <1>2

LEMMA SnapshotKept ==
    ASSUME IInv, SnapshotIsOld, [Next]_vars
    PROVE  SnapshotIsOld'
<1>0. thread \in Seq(Message) /\ turn \in Nat
  BY DEF IInv, TypeOK
<1>1. CASE Ask
  <2>1. /\ turn' = turn + 1 /\ thread' = thread /\ guest' = guest
        /\ prior' = {} \/ (~ guest /\ prior' = IdsIn(thread))
    BY <1>1 DEF Ask
  <2>2. \A i \in 1..Len(thread) :
           thread[i].id[1] <= turn /\ thread[i].id[1] \in Nat /\ thread[i].id \in IdsIn(thread)
    BY <1>0, MessageParts DEF IInv, TurnIsLast, IdsIn
  <2>3. \A id \in IdsIn(thread) : id[1] < turn + 1
    <3>1. \A id \in IdsIn(thread) : id[1] <= turn /\ id[1] \in Nat
      BY <1>0, <2>2 DEF IdsIn
    <3> QED
      BY <1>0, <3>1
  <2> QED
    BY <2>1, <2>2, <2>3 DEF SnapshotIsOld
<1>2. CASE Begin \/ WorkerAnswers
  <2>1. UNCHANGED <<guest, turn, prior>> /\ pc # "idle"
    BY <1>2 DEF Begin, WorkerAnswers, request
  <2>2. CASE guest
    BY <2>1, <2>2 DEF SnapshotIsOld
  <2>3. CASE ~ guest
    BY <1>2, <2>1, <2>3, RunAddsOwnMessages DEF SnapshotIsOld
  <2> QED
    BY <2>2, <2>3
<1>3. CASE Forget
  <2>1. thread' = <<>> /\ Len(<<>>) = 0
    BY <1>3 DEF Forget
  <2> QED
    BY <1>3, <2>1 DEF Forget, SnapshotIsOld, request
<1>4. ASSUME UNCHANGED <<guest, turn, prior, thread>>, pc' # "idle" => pc # "idle"
      PROVE  SnapshotIsOld'
  BY <1>4 DEF SnapshotIsOld
<1>5. CASE UNCHANGED vars \/ Over
  BY <1>4, <1>5 DEF vars, Over
<1>6. CASE \/ Route \/ RouteFails \/ ForceFinish \/ WorkerCalls \/ RunTools
           \/ SearchesCollide \/ WorkerExhausted \/ RunFails
           \/ GuardPass \/ GuardWarn \/ GuardRetry \/ Count
  BY <1>4, <1>6 DEF Route, RouteFails, ForceFinish, WorkerCalls, RunTools,
       SearchesCollide, WorkerExhausted, RunFails, Abort, GuardPass, GuardWarn,
       GuardRetry, Guarded, Count, request
<1> QED
  BY <1>1, <1>2, <1>3, <1>5, <1>6 DEF Next

\* A turn is charged for the messages its own workers made and for no other, when
\* the snapshot before it could be read: what the thread held then is in it.
THEOREM TurnsAreChargedOnce == Spec => ChargedOnce
<1> DEFINE Own == {id \in Costs(thread) : id[1] = turn}
           Read == prior # {} \/ Costs(thread) = Own
<1>1. Init => SnapshotIsOld
  BY DEF Init, SnapshotIsOld
<1>2. IInv /\ SnapshotIsOld /\ [Next]_vars => SnapshotIsOld'
  BY SnapshotKept
<1>3. ASSUME IInv, SnapshotIsOld, [Next]_vars
      PROVE  [pc = "count" /\ Read => counted' = Own]_vars
  <2> SUFFICES ASSUME Next, pc = "count", Read, ~ UNCHANGED vars
               PROVE  counted' = Own
    BY <1>3
  <2>1. Count
    BY DEF Next, Ask, Begin, Forget, Route, RouteFails, ForceFinish, WorkerAnswers,
           WorkerCalls, RunTools, SearchesCollide, WorkerExhausted, RunFails,
           GuardPass, GuardWarn, GuardRetry, Over
  <2>2. counted' = (IdsIn(thread) \ prior) \cap Costs(thread)
    BY <2>1 DEF Count, FilterNewMessages
  <2>3. thread \in Seq(Message) /\ turn \in Nat
    BY <1>3 DEF IInv, TypeOK
  <2>4. Costs(thread) \subseteq IdsIn(thread)
    BY DEF Costs, IdsIn
  <2>5. \A id \in prior : id[1] # turn
    <3>1. \A i \in 1..Len(thread) : thread[i].id[1] \in Nat
      BY <2>3, MessageParts
    <3>2. \A id \in prior : id[1] < turn /\ id[1] \in Nat
      BY <1>3 DEF SnapshotIsOld, IInv, TypeOK, Id
    <3> QED
      BY <2>3, <3>2
  <2>6. CASE prior = {}
    BY <2>2, <2>4, <2>6
  <2>7. CASE prior # {}
    <3>1. \A id \in Costs(thread) : id[1] = turn \/ id \in prior
      BY <1>3, <2>3, <2>7 DEF SnapshotIsOld, Costs
    <3> QED
      BY <2>2, <2>4, <2>5, <3>1
  <2> QED
    BY <2>6, <2>7
<1> QED
  BY <1>1, <1>2, <1>3, SpecHasInv, PTL DEF Spec, ChargedOnce

-----------------------------------------------------------------------------
(* Calls and results.                                                      *)

\* The message at j is the result of the k-th call of the one at i, and no question
\* was asked between the two.
Answers(ms, i, j, k) ==
    /\ i < j /\ k \in 1..ms[i].calls /\ ms[j].of = <<ms[i].id, k>>
    /\ \A h \in i..j : ms[h].kind # "human"

\* Every call has its result and every result its call.
Paired(ms) ==
    /\ \A i \in 1..Len(ms) : \A k \in 1..ms[i].calls :
          \E j \in 1..Len(ms) : Answers(ms, i, j, k)
    /\ \A j \in 1..Len(ms) : ms[j].of # NoCall =>
          \E i \in 1..Len(ms) : \E k \in 1..ms[i].calls : Answers(ms, i, j, k)

Pairing ==
    /\ Paired(thread)
    /\ pc # "tools" => Paired(work)
    /\ pc = "tools" =>
          /\ Paired(SubSeq(work, 1, Len(work) - 1))
          /\ work[Len(work)].kind = "call" /\ work[Len(work)].of = NoCall

\* A sequence of messages one by one: how long it is and what it has where.
LEMMA Joined ==
    ASSUME NEW a \in Seq(Message), NEW b \in Seq(Message)
    PROVE  /\ a \o b \in Seq(Message) /\ Len(a) \in Nat /\ Len(b) \in Nat
           /\ Len(a \o b) = Len(a) + Len(b)
           /\ \A i \in 1..Len(a) : i \in 1..Len(a \o b) /\ (a \o b)[i] = a[i]
           /\ \A i \in 1..Len(b) :
                 Len(a) + i \in 1..Len(a \o b) /\ (a \o b)[Len(a) + i] = b[i]
           /\ \A i \in 1..Len(a \o b) : i \in 1..Len(a) \/
                 (i - Len(a) \in 1..Len(b) /\ Len(a) + (i - Len(a)) = i)
  OBVIOUS

\* What answers what does not depend on what stands around it.
LEMMA AnswersShifted ==
    ASSUME NEW ms, NEW s, NEW d \in Nat, NEW n \in Nat,
           \A i \in 1..n : ms[d + i] = s[i],
           NEW i \in 1..n, NEW j \in 1..n, NEW k, Answers(s, i, j, k)
    PROVE  Answers(ms, d + i, d + j, k)
<1>1. d + i < d + j /\ ms[d + i] = s[i] /\ ms[d + j] = s[j]
  BY DEF Answers
<1>2. ASSUME NEW h \in (d + i)..(d + j) PROVE ms[h].kind # "human"
  <2>1. h - d \in i..j /\ h - d \in 1..n /\ d + (h - d) = h
    OBVIOUS
  <2>2. ms[h] = s[h - d]
    BY <2>1
  <2> QED
    BY <2>1, <2>2 DEF Answers
<1> QED
  BY <1>1, <1>2 DEF Answers

\* One list of finished rounds after another is one.
LEMMA PairedJoined ==
    ASSUME NEW a \in Seq(Message), NEW b \in Seq(Message), Paired(a), Paired(b)
    PROVE  Paired(a \o b)
<1> DEFINE s == a \o b
<1>1. /\ Len(a) \in Nat /\ Len(b) \in Nat
      /\ \A i \in 1..Len(a) : i \in 1..Len(s) /\ s[i] = a[i]
      /\ \A i \in 1..Len(b) : Len(a) + i \in 1..Len(s) /\ s[Len(a) + i] = b[i]
      /\ \A i \in 1..Len(s) : i \in 1..Len(a) \/
            (i - Len(a) \in 1..Len(b) /\ Len(a) + (i - Len(a)) = i)
  BY Joined
<1> HIDE DEF s
<1>2. ASSUME NEW i \in 1..Len(a), NEW j \in 1..Len(a), NEW k, Answers(a, i, j, k)
      PROVE  Answers(s, i, j, k)
  <2>1. \A x \in 1..Len(a) : s[0 + x] = a[x]
    BY <1>1
  <2>2. Answers(s, 0 + i, 0 + j, k)
    BY <1>1, <1>2, <2>1, AnswersShifted
  <2> QED
    BY <2>2
<1>3. ASSUME NEW i \in 1..Len(b), NEW j \in 1..Len(b), NEW k, Answers(b, i, j, k)
      PROVE  Answers(s, Len(a) + i, Len(a) + j, k)
  BY <1>1, <1>3, AnswersShifted
<1>4. ASSUME NEW i \in 1..Len(s), NEW k \in 1..s[i].calls
      PROVE  \E j \in 1..Len(s) : Answers(s, i, j, k)
  <2>1. CASE i \in 1..Len(a)
    <3>1. \E j \in 1..Len(a) : Answers(a, i, j, k)
      BY <1>1, <2>1 DEF Paired
    <3> QED
      BY <1>1, <1>2, <2>1, <3>1
  <2>2. CASE i \notin 1..Len(a)
    <3> DEFINE x == i - Len(a)
    <3>1. x \in 1..Len(b) /\ s[i] = b[x] /\ Len(a) + x = i
      BY <1>1, <2>2
    <3> HIDE DEF x
    <3>2. PICK j \in 1..Len(b) : Answers(b, x, j, k)
      BY <3>1 DEF Paired
    <3>3. Answers(s, i, Len(a) + j, k)
      BY <1>3, <3>1, <3>2
    <3> QED
      BY <1>1, <3>3
  <2> QED
    BY <2>1, <2>2
<1>5. ASSUME NEW j \in 1..Len(s), s[j].of # NoCall
      PROVE  \E i \in 1..Len(s) : \E k \in 1..s[i].calls : Answers(s, i, j, k)
  <2>1. CASE j \in 1..Len(a)
    <3>1. PICK i \in 1..Len(a) : \E k \in 1..a[i].calls : Answers(a, i, j, k)
      BY <1>1, <1>5, <2>1 DEF Paired
    <3> QED
      BY <1>1, <1>2, <2>1, <3>1
  <2>2. CASE j \notin 1..Len(a)
    <3> DEFINE y == j - Len(a)
    <3>1. y \in 1..Len(b) /\ s[j] = b[y] /\ Len(a) + y = j
      BY <1>1, <2>2
    <3> HIDE DEF y
    <3>2. PICK i \in 1..Len(b) : \E k \in 1..b[i].calls : Answers(b, i, y, k)
      BY <1>5, <3>1 DEF Paired
    <3>3. PICK k \in 1..b[i].calls : Answers(b, i, y, k)
      BY <3>2
    <3>4. Answers(s, Len(a) + i, j, k)
      BY <1>3, <3>1, <3>3
    <3> QED
      BY <1>1, <3>3, <3>4
  <2> QED
    BY <2>1, <2>2
<1>6. Paired(s)
  BY <1>4, <1>5 DEF Paired
<1> QED
  BY <1>6 DEF s

\* Messages without calls are neither.
LEMMA PlainPaired ==
    ASSUME NEW ms, \A i \in 1..Len(ms) : ms[i].calls = 0 /\ ms[i].of = NoCall
    PROVE  Paired(ms)
  BY DEF Paired

\* A row that grows by one is followed by a row of one.
LEMMA AppendedAsRow ==
    ASSUME NEW S, NEW s \in Seq(S), NEW x \in S
    PROVE  <<x>> \in Seq(S) /\ Append(s, x) = s \o <<x>>
<1>1. <<x>> \in Seq(S)
  OBVIOUS
<1>2. Append(s, x) = s \o <<x>>
  BY AppendIsConcat
<1> QED
  BY <1>1, <1>2

LEMMA PlainAppended ==
    ASSUME NEW ms \in Seq(Message), Paired(ms), NEW id \in Id, NEW kind \in Kind
    PROVE  Paired(Append(ms, Plain(id, kind)))
<1> DEFINE m == Plain(id, kind)
<1>1. m \in Message /\ m.calls = 0 /\ m.of = NoCall
  BY PlainIsMessage DEF Plain
<1> HIDE DEF m
<1>2. Paired(<<m>>)
  <2>1. \A i \in 1..Len(<<m>>) : <<m>>[i] = m
    OBVIOUS
  <2> QED
    BY <1>1, <2>1, PlainPaired
<1>3. <<m>> \in Seq(Message) /\ Append(ms, m) = ms \o <<m>>
  BY <1>1, AppendedAsRow
<1> QED
  BY <1>2, <1>3, PairedJoined DEF m

\* A message with calls and the results the tools return for them.
LEMMA RoundPaired ==
    ASSUME NEW c \in Message, c.kind = "call", c.of = NoCall
    PROVE  Paired(<<c>> \o Results(c))
<1> DEFINE n == c.calls
           s == <<c>> \o Results(c)
<1>1. n \in Nat /\ Len(Results(c)) = n /\ Results(c) \in Seq(Message)
      /\ \A k \in 1..n : /\ Results(c)[k].of = <<c.id, k>>
                         /\ Results(c)[k].calls = 0 /\ Results(c)[k].kind = "tool"
  <2>1. n \in Nat
    BY DEF Message
  <2>2. DOMAIN Results(c) = 1..n /\ Results(c) \in Seq(Message)
    BY ResultsAreOfTurn DEF Results
  <2>3. Len(Results(c)) = n
    BY <2>1, <2>2
  <2>4. ASSUME NEW k \in 1..n
        PROVE  /\ Results(c)[k].of = <<c.id, k>>
               /\ Results(c)[k].calls = 0 /\ Results(c)[k].kind = "tool"
    BY <2>2 DEF Results, Plain
  <2> QED
    BY <2>1, <2>2, <2>3, <2>4
<1>2. /\ Len(s) = 1 + n /\ s[1] = c
      /\ \A k \in 1..n : s[1 + k] = Results(c)[k]
  BY <1>1
<1>n. c.calls = n
  OBVIOUS
<1> HIDE DEF s, n
<1>r. ASSUME NEW k \in 1..n
      PROVE  s[1 + k].of = <<c.id, k>> /\ s[1 + k].calls = 0 /\ s[1 + k].kind = "tool"
  <2>1. s[1 + k] = Results(c)[k]
    BY <1>2
  <2> QED
    BY <1>1, <2>1
<1>3. \A h \in 1..Len(s) : s[h].kind # "human"
  <2> SUFFICES ASSUME NEW h \in 1..Len(s) PROVE s[h].kind # "human"
    OBVIOUS
  <2>1. h = 1 \/ (h - 1 \in 1..n /\ 1 + (h - 1) = h)
    BY <1>1, <1>2
  <2>2. CASE h = 1
    BY <1>2, <2>2
  <2>3. CASE h - 1 \in 1..n /\ 1 + (h - 1) = h
    <3>1. s[1 + (h - 1)].kind = "tool"
      BY <2>3, <1>r
    <3> QED
      BY <2>3, <3>1
  <2> QED
    BY <2>1, <2>2, <2>3
<1>4. ASSUME NEW k \in 1..n PROVE 1 + k \in 1..Len(s) /\ Answers(s, 1, 1 + k, k)
  <2>1. 1 < 1 + k /\ 1 + k \in 1..Len(s)
    BY <1>1, <1>2
  <2>2. s[1 + k].of = <<s[1].id, k>> /\ k \in 1..s[1].calls
    BY <1>2, <1>n, <1>r
  <2>3. \A h \in 1..(1 + k) : s[h].kind # "human"
    BY <1>2, <1>3, <2>1
  <2> QED
    BY <2>1, <2>2, <2>3 DEF Answers
<1>5. ASSUME NEW i \in 1..Len(s), NEW k \in 1..s[i].calls
      PROVE  \E j \in 1..Len(s) : Answers(s, i, j, k)
  <2>1. i = 1 \/ (i - 1 \in 1..n /\ 1 + (i - 1) = i)
    BY <1>1, <1>2
  <2>2. i = 1
    <3>1. CASE i - 1 \in 1..n /\ 1 + (i - 1) = i
      <4>1. s[1 + (i - 1)].calls = 0
        BY <1>r, <3>1
      <4> QED
        BY <3>1, <4>1
    <3> QED
      BY <2>1, <3>1
  <2> QED
    BY <1>2, <1>4, <1>n, <2>2
<1>6. ASSUME NEW j \in 1..Len(s), s[j].of # NoCall
      PROVE  \E i \in 1..Len(s) : \E k \in 1..s[i].calls : Answers(s, i, j, k)
  <2>1. j = 1 \/ (j - 1 \in 1..n /\ 1 + (j - 1) = j)
    BY <1>1, <1>2
  <2>2. j - 1 \in 1..n /\ 1 + (j - 1) = j
    BY <1>2, <1>6, <2>1
  <2>3. Answers(s, 1, j, j - 1) /\ 1 \in 1..Len(s)
    BY <1>1, <1>2, <1>4, <2>2
  <2> QED
    BY <1>2, <1>n, <2>2, <2>3
<1>7. Paired(s)
  BY <1>5, <1>6 DEF Paired
<1> QED
  BY <1>7 DEF s

LEMMA NothingPaired == Paired(<<>>)
  BY PlainPaired

\* A sequence that is not empty is what comes before its last element, and that.
LEMMA LastSplitOff ==
    ASSUME NEW s \in Seq(Message), s # <<>>
    PROVE  /\ SubSeq(s, 1, Len(s) - 1) \in Seq(Message) /\ s[Len(s)] \in Message
           /\ s = SubSeq(s, 1, Len(s) - 1) \o <<s[Len(s)]>>
<1>1. Len(s) \in Nat /\ Len(s) >= 1
  OBVIOUS
<1>2. SubSeq(s, 1, Len(s) - 1) \in Seq(Message) /\ s[Len(s)] \in Message
  BY <1>1
<1>3. s = SubSeq(s, 1, Len(s) - 1) \o <<s[Len(s)]>>
  BY <1>1, <1>2, SMTT(60)
<1> QED
  BY <1>2, <1>3

LEMMA FrontOfAppend ==
    ASSUME NEW s \in Seq(Message), NEW m \in Message
    PROVE  LET t == Append(s, m)
           IN  /\ SubSeq(t, 1, Len(t) - 1) = s /\ t[Len(t)] = m
  BY SMTT(60)

LEMMA PairingKept ==
    ASSUME IInv, Pairing, [Next]_vars
    PROVE  Pairing'
<1>0. thread \in Seq(Message) /\ work \in Seq(Message)
  BY DEF IInv, TypeOK
<1>1. CASE Begin
  <2> DEFINE base == IF guest THEN ClientHistory ELSE thread
  <2>1. turn \in Nat /\ turn # 0
    BY <1>1 DEF IInv, TypeOK, Begin
  <2>2. ClientHistory \in Seq(Message) /\ Paired(ClientHistory)
    <3>1. ClientHistory \in Seq(Message)
      BY <2>1, ClientHistoryIsOld DEF IInv
    <3>2. \A i \in DOMAIN ClientHistory :
             ClientHistory[i].calls = 0 /\ ClientHistory[i].of = NoCall
      BY DEF ClientHistory, Plain
    <3>3. DOMAIN ClientHistory = 1..Len(ClientHistory)
      BY <3>1
    <3> QED
      BY <3>1, <3>2, <3>3, PlainPaired
  <2>3. base \in Seq(Message) /\ Paired(base)
    BY <1>0, <2>2 DEF Pairing
  <2>4. thread' = Append(base, Plain(<<turn, 0>>, "human"))
    BY <1>1 DEF Begin
  <2>5. <<turn, 0>> \in Id /\ "human" \in Kind
    BY <2>1 DEF Id, Kind
  <2> HIDE DEF base
  <2>6. Paired(thread')
    BY <2>3, <2>4, <2>5, PlainAppended
  <2>7. pc # "tools" /\ pc' # "tools" /\ work' = work
    BY <1>1 DEF Begin
  <2> QED
    BY <2>6, <2>7 DEF Pairing
<1>2. CASE WorkerAnswers
  <2>1. pc = "model" /\ pc' = "supervisor" /\ work' = <<>>
        /\ thread' = thread \o Append(work, Plain(NextId, "text"))
    BY <1>2 DEF WorkerAnswers, NextStep
  <2>2. NextId \in Id /\ "text" \in Kind
    BY NextIdIsId DEF IInv, Kind
  <2>3. Plain(NextId, "text") \in Message
    BY <2>2, PlainIsMessage
  <2>4. Paired(Append(work, Plain(NextId, "text")))
    BY <1>0, <2>1, <2>2, PlainAppended DEF Pairing
  <2>5. Append(work, Plain(NextId, "text")) \in Seq(Message)
    BY <1>0, <2>3
  <2>6. Paired(thread')
    BY <1>0, <2>1, <2>4, <2>5, PairedJoined DEF Pairing
  <2> QED
    BY <2>1, <2>6, NothingPaired DEF Pairing
<1>3. CASE WorkerCalls
  <2> DEFINE call(n) == [Plain(NextId, "call") EXCEPT !.calls = n]
  <2>1. PICK n \in 1..MaxCalls : work' = Append(work, call(n))
    BY <1>3 DEF WorkerCalls
  <2>2. call(n) = [id |-> NextId, kind |-> "call", calls |-> n, of |-> NoCall]
    BY DEF Plain
  <2>3. call(n) \in Message /\ call(n).kind = "call" /\ call(n).of = NoCall
    <3>1. NextId \in Id /\ n \in 0..MaxCalls /\ NoCall \in Id \X (0..MaxCalls)
      BY NextIdIsId DEF IInv, NoCall, Id
    <3> QED
      BY <2>2, <3>1 DEF Message, Kind
  <2> HIDE DEF call
  <2>4. SubSeq(work', 1, Len(work') - 1) = work /\ work'[Len(work')] = call(n)
    BY <1>0, <2>1, <2>3, FrontOfAppend
  <2>5. pc = "model" /\ pc' = "tools" /\ thread' = thread
    BY <1>3 DEF WorkerCalls
  <2> QED
    BY <2>3, <2>4, <2>5 DEF Pairing
<1>4. CASE RunTools
  <2> DEFINE front == SubSeq(work, 1, Len(work) - 1)
             c == work[Len(work)]
  <2>1. pc = "tools" /\ pc' = "model" /\ thread' = thread
        /\ work' = work \o Results(Last(work))
    BY <1>4 DEF RunTools
  <2>2. front \in Seq(Message) /\ c \in Message /\ work = front \o <<c>>
    BY <1>0, <2>1, LastSplitOff DEF IInv, WorkOfTurn
  <2>3. Paired(front) /\ c.kind = "call" /\ c.of = NoCall /\ Last(work) = c
    BY <2>1 DEF Pairing, Last
  <2> HIDE DEF front, c
  <2>4. Results(c) \in Seq(Message) /\ <<c>> \in Seq(Message)
    BY <2>2, ResultsAreOfTurn
  <2>5. work' = front \o (<<c>> \o Results(c))
    <3>1. work' = (front \o <<c>>) \o Results(c)
      BY <2>1, <2>2, <2>3
    <3> HIDE DEF Results
    <3> QED
      BY <2>2, <2>4, <3>1, SMTT(60)
  <2>6. Paired(<<c>> \o Results(c)) /\ <<c>> \o Results(c) \in Seq(Message)
    BY <2>2, <2>3, <2>4, RoundPaired, Joined
  <2>7. Paired(work')
    BY <2>2, <2>3, <2>5, <2>6, PairedJoined
  <2> QED
    BY <2>1, <2>7 DEF Pairing
<1>5. CASE Forget
  BY <1>5, NothingPaired DEF Forget, Pairing
<1>6. CASE SearchesCollide \/ WorkerExhausted \/ RunFails
  BY <1>6, NothingPaired DEF SearchesCollide, WorkerExhausted, RunFails, Abort, request,
                             Pairing
<1>7. ASSUME UNCHANGED <<thread, work>>, pc # "tools", pc' # "tools"
      PROVE  Pairing'
  BY <1>7 DEF Pairing
<1>8. CASE \/ Ask \/ Route \/ RouteFails \/ ForceFinish \/ GuardPass \/ GuardWarn
           \/ GuardRetry \/ Count
  BY <1>7, <1>8 DEF Ask, Route, RouteFails, ForceFinish, NextStep, GuardPass, GuardWarn,
                    GuardRetry, Guarded, Count
<1>9. CASE Over \/ UNCHANGED vars
  BY <1>9 DEF Over, vars, Pairing
<1> QED
  BY <1>1, <1>2, <1>3, <1>4, <1>5, <1>6, <1>8, <1>9 DEF Next

\* The window is all messages, or those from one of the questions on.
LEMMA WindowBeginsWithQuestion ==
    ASSUME NEW ms \in Seq(Message)
    PROVE  \/ TrimMessageList(ms) = ms
           \/ \E q \in 1..Len(ms) : /\ ms[q].kind = "human"
                                    /\ TrimMessageList(ms) = SubSeq(ms, q, Len(ms))
<1> DEFINE recent == {i \in Questions(ms) : Len(ms) < i + Cap}
<1>1. CASE TrimMessages(ms) = <<>>
  BY <1>1 DEF TrimMessageList
<1>2. CASE TrimMessages(ms) # <<>>
  <2>1. recent # {}
    BY <1>2 DEF TrimMessages
  <2>2. recent \in SUBSET Nat /\ \A i \in recent : i \in 1..Len(ms) /\ ms[i].kind = "human"
    <3>1. DOMAIN ms = 1..Len(ms) /\ Len(ms) \in Nat
      OBVIOUS
    <3>2. \A i \in recent : i \in 1..Len(ms) /\ ms[i].kind = "human"
      BY <3>1 DEF Questions
    <3> QED
      BY <3>1, <3>2
  <2> DEFINE q == CHOOSE k \in recent : \A j \in recent : k <= j
  <2>3. TrimMessageList(ms) = SubSeq(ms, q, Len(ms))
    BY <1>2, <2>1 DEF TrimMessages, TrimMessageList
  <2> HIDE DEF recent
  <2>4. q \in recent
    BY <2>1, <2>2, SmallestPosition
  <2> QED
    BY <2>2, <2>3, <2>4
<1> QED
  BY <1>1, <1>2

\* What a window has, position by position.
LEMMA WindowPositions ==
    ASSUME NEW ms \in Seq(Message), NEW q \in 1..Len(ms)
    PROVE  ToSet(SubSeq(ms, q, Len(ms))) = {ms[i] : i \in q..Len(ms)}
<1> DEFINE w == SubSeq(ms, q, Len(ms))
<1>1. Len(ms) \in Nat /\ q \in Nat /\ 1 <= q /\ q <= Len(ms)
  OBVIOUS
<1>2. /\ w \in Seq(Message) /\ DOMAIN w = 1..(Len(ms) - q + 1)
      /\ \A i \in 1..(Len(ms) - q + 1) : w[i] = ms[q + i - 1]
  BY <1>1
<1> HIDE DEF w
<1>3. ASSUME NEW m \in ToSet(w) PROVE \E i \in q..Len(ms) : m = ms[i]
  <2>1. PICK i \in 1..(Len(ms) - q + 1) : m = w[i]
    BY <1>2, <1>3 DEF ToSet
  <2>2. q + i - 1 \in q..Len(ms) /\ m = ms[q + i - 1]
    BY <1>1, <1>2, <2>1
  <2> QED
    BY <2>2
<1>4. ASSUME NEW i \in q..Len(ms) PROVE ms[i] \in ToSet(w)
  <2>1. i - q + 1 \in 1..(Len(ms) - q + 1) /\ q + (i - q + 1) - 1 = i
    BY <1>1
  <2>2. w[i - q + 1] = ms[i]
    BY <1>2, <2>1
  <2> QED
    BY <1>2, <2>1, <2>2 DEF ToSet
<1>5. ToSet(w) = {ms[i] : i \in q..Len(ms)}
  BY <1>3, <1>4
<1> QED
  BY <1>5 DEF w

\* From a question on, calls and results stay together.
LEMMA WindowPaired ==
    ASSUME NEW ms \in Seq(Message), Paired(ms), NEW q \in Nat, 1 <= q,
           q = 1 \/ (q \in 1..Len(ms) /\ ms[q].kind = "human")
    PROVE  LET in == {ms[i] : i \in q..Len(ms)}
           IN  UNION {{<<m.id, k>> : k \in 1..m.calls} : m \in in}
                  = {m.of : m \in in} \ {NoCall}
<1> DEFINE in == {ms[i] : i \in q..Len(ms)}
           made == UNION {{<<m.id, k>> : k \in 1..m.calls} : m \in in}
<1>0. Len(ms) \in Nat
  OBVIOUS
<1>1. ASSUME NEW x \in made PROVE x \in {m.of : m \in in} \ {NoCall}
  <2>1. PICK i \in q..Len(ms) : \E k \in 1..ms[i].calls : x = <<ms[i].id, k>>
    BY <1>1
  <2>2. PICK k \in 1..ms[i].calls : x = <<ms[i].id, k>>
    BY <2>1
  <2>3. i \in 1..Len(ms)
    BY <1>0, <2>1
  <2>4. PICK j \in 1..Len(ms) : Answers(ms, i, j, k)
    BY <2>2, <2>3 DEF Paired
  <2>5. j \in q..Len(ms) /\ ms[j].of = x
    BY <1>0, <2>1, <2>2, <2>4 DEF Answers
  <2>6. x # NoCall
    <3>1. k # 0
      BY <2>2
    <3> QED
      BY <2>2, <3>1 DEF NoCall
  <2> QED
    BY <2>5, <2>6
<1>2. ASSUME NEW x \in {m.of : m \in in} \ {NoCall} PROVE x \in made
  <2>1. PICK j \in q..Len(ms) : x = ms[j].of
    BY <1>2
  <2>2. j \in 1..Len(ms) /\ ms[j].of # NoCall
    BY <1>0, <1>2, <2>1
  <2>3. PICK i \in 1..Len(ms) : \E k \in 1..ms[i].calls : Answers(ms, i, j, k)
    BY <2>2 DEF Paired
  <2>4. PICK k \in 1..ms[i].calls : Answers(ms, i, j, k)
    BY <2>3
  <2>5. i < j /\ x = <<ms[i].id, k>> /\ \A h \in i..j : ms[h].kind # "human"
    BY <2>1, <2>4 DEF Answers
  <2>6. q <= i
    <3>1. CASE q = 1
      BY <3>1
    <3>2. CASE q \in 1..Len(ms) /\ ms[q].kind = "human" /\ i < q
      <4>1. q \in i..j
        BY <2>1, <3>2
      <4> QED
        BY <2>5, <3>2, <4>1
    <3> QED
      BY <3>1, <3>2
  <2>7. ms[i] \in in
    BY <2>6
  <2> HIDE DEF in
  <2> QED
    BY <2>4, <2>5, <2>7
<1>3. made = {m.of : m \in in} \ {NoCall}
  BY <1>1, <1>2
<1> QED
  BY <1>3

\* No LLM is shown a tool call without its results or results without their call,
\* wherever the window of trim_message_list cuts: it cuts at a question, and a
\* worker's rounds lie between two of them.
THEOREM WindowsKeepRounds == Spec => []CallsKeepResults
<1>1. Init => Pairing
  BY NothingPaired DEF Init, Pairing
<1>2. IInv /\ Pairing /\ [Next]_vars => Pairing'
  BY PairingKept
<1>3. IInv /\ Pairing => CallsKeepResults
  <2> SUFFICES ASSUME IInv, Pairing, pc \in {"supervisor", "model"}
               PROVE  UNION {{<<m.id, i>> : i \in 1..m.calls} : m \in ToSet(Input)}
                         = {m.of : m \in ToSet(Input)} \ {NoCall}
    BY DEF CallsKeepResults
  <2> DEFINE ms == thread \o work
  <2>1. thread \in Seq(Message) /\ work \in Seq(Message)
    BY DEF IInv, TypeOK
  <2>2. ms \in Seq(Message) /\ Paired(ms)
    BY <2>1, Joined, PairedJoined DEF Pairing
  <2>3. Input = TrimMessageList(ms)
    BY DEF Input
  <2> HIDE DEF ms
  <2>4. PICK q \in Nat : /\ 1 <= q /\ (q = 1 \/ (q \in 1..Len(ms) /\ ms[q].kind = "human"))
                         /\ ToSet(Input) = {ms[i] : i \in q..Len(ms)}
    <3>1. CASE TrimMessageList(ms) = ms
      <4>0. DOMAIN ms = 1..Len(ms)
        BY <2>2
      <4>1. ToSet(ms) = {ms[i] : i \in 1..Len(ms)}
        BY <4>0 DEF ToSet
      <4> QED
        BY <2>3, <3>1, <4>1
    <3>2. ASSUME NEW q \in 1..Len(ms), ms[q].kind = "human",
                 TrimMessageList(ms) = SubSeq(ms, q, Len(ms))
          PROVE  ToSet(Input) = {ms[i] : i \in q..Len(ms)} /\ q \in Nat /\ 1 <= q
      BY <2>2, <2>3, <3>2, WindowPositions
    <3> QED
      BY <2>2, <3>1, <3>2, WindowBeginsWithQuestion
  <2> QED
    BY <2>2, <2>4, WindowPaired
<1> QED
  BY <1>1, <1>2, <1>3, SpecHasInv, PTL DEF Spec
=============================================================================
