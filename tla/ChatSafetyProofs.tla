-------------------------- MODULE ChatSafetyProofs --------------------------
(***************************************************************************)
(* The safety properties of ChatTurn for any number of members, sessions,  *)
(* requests and request ids, with every failure, expiry and restart: each  *)
(* section strengthens one property to an inductive invariant, relative to *)
(* the types and the control flow that ChatTurnProofs establishes.  The    *)
(* last two sections are about SerialClient: a client that waits for its   *)
(* answers, and the refinement of Conversation.                            *)
(***************************************************************************)
EXTENDS ChatTurnProofs, SerialClient

-----------------------------------------------------------------------------
(* What a step does to the locals of its request.                          *)

OthersStay(r) == \A x \in Request \ {r} : req'[x] = req[x]

InputStays(r) ==
    /\ req'[r].kind = req[r].kind
    /\ req'[r].member = req[r].member
    /\ req'[r].session = req[r].session
    /\ req'[r].rid = req[r].rid

ReadsStay(r) ==
    /\ req'[r].seen = req[r].seen /\ req'[r].from = req[r].from
    /\ req'[r].base = req[r].base

KeyStays(r) == req'[r].admitted = req[r].admitted /\ req'[r].age = req[r].age

FindsStay(r) == req'[r].hits = req[r].hits /\ req'[r].intent = req[r].intent

LocalsStay(r) ==
    OthersStay(r) /\ InputStays(r) /\ ReadsStay(r) /\ KeyStays(r) /\ FindsStay(r)

\* A request that moves on keeps all its locals.
LEMMA GotoLocals ==
    ASSUME TypeOK, NEW r \in Request, NEW p, Goto(r, p)
    PROVE  /\ LocalsStay(r) /\ req'[r].pc = p
           /\ req'[r].status = req[r].status /\ req'[r].sources = req[r].sources
<1>1. req \in [Request -> RequestState] /\ req[r] \in RequestState
  BY DEF TypeOK
<1> QED
  BY <1>1 DEF Goto, RequestState, LocalsStay, OthersStay, InputStays, ReadsStay, KeyStays,
              FindsStay

\* A request that ends keeps what it read and got.
LEMMA FinishLocals ==
    ASSUME TypeOK, NEW r \in Request, NEW st, Finish(r, st)
    PROVE  /\ LocalsStay(r) /\ req'[r].pc = "done"
           /\ req'[r].status = st /\ req'[r].sources = req[r].sources
<1>1. req \in [Request -> RequestState] /\ req[r] \in RequestState
  BY DEF TypeOK
<1> QED
  BY <1>1 DEF Finish, RequestState, LocalsStay, OthersStay, InputStays, ReadsStay, KeyStays,
              FindsStay

\* An answer carries the sources of a search intent.
LEMMA RespondLocals ==
    ASSUME TypeOK, NEW r \in Request, Respond(r)
    PROVE  /\ LocalsStay(r) /\ req'[r].pc = "done" /\ req'[r].status = "ok"
           /\ req'[r].sources = ResponseSources(req[r].intent, req[r].hits)
<1>1. req \in [Request -> RequestState] /\ req[r] \in RequestState
  BY DEF TypeOK
<1> QED
  BY <1>1 DEF Respond, RequestState, LocalsStay, OthersStay, InputStays, ReadsStay, KeyStays,
              FindsStay

\* A request arrives with a history of its client's, naming no session that never had a
\* row.
LEMMA ArriveLocals ==
    ASSUME FlowInv, NEW r \in Request, Arrive(r)
    PROVE  /\ OthersStay(r) /\ KeyStays(r) /\ FindsStay(r)
           /\ req[r] = Idle
           /\ req'[r].seen \in ClientHistories(req'[r].member, req'[r].session)
           /\ req'[r].base = <<>>
           /\ req'[r].status = "none" /\ req'[r].sources = {}
           /\ req'[r].pc \in {"acquire", "resolve"}
           /\ req'[r].session # None => owner[req'[r].session] # None
<1>1. req \in [Request -> RequestState] /\ req[r] \in RequestState /\ req[r] = Idle
  BY DEF FlowInv, TypeOK, FlowOK, Arrive, At
<1>2. PICK k \in Kinds, m \in Member \cup {None}, s \in Session \cup {None},
           i \in RequestId \cup {None} : \E h \in ClientHistories(m, s) :
         /\ m = None => k = "turn" /\ s = None
         /\ s # None => owner[s] # None
         /\ (m # None /\ s = None) => SessionLeft
         /\ k = "create" => s = None
         /\ k \in {"read", "delete"} => s # None
         /\ k # "turn" => i = None /\ h = <<>>
         /\ req' = [req EXCEPT ![r] =
               [@ EXCEPT !.pc = IF k = "turn" THEN "acquire" ELSE "resolve",
                         !.kind = k, !.member = m, !.session = s, !.rid = i,
                         !.seen = h]]
  BY DEF Arrive
<1>5. PICK h \in ClientHistories(m, s) :
         /\ s # None => owner[s] # None
         /\ req' = [req EXCEPT ![r] =
               [@ EXCEPT !.pc = IF k = "turn" THEN "acquire" ELSE "resolve",
                         !.kind = k, !.member = m, !.session = s, !.rid = i,
                         !.seen = h]]
  BY <1>2
<1>3. /\ req'[r].seen = h /\ req'[r].base = Idle.base /\ req'[r].member = m
      /\ req'[r].admitted = Idle.admitted /\ req'[r].age = Idle.age
      /\ req'[r].hits = Idle.hits /\ req'[r].intent = Idle.intent
      /\ req'[r].status = Idle.status /\ req'[r].sources = Idle.sources
      /\ req'[r].pc \in {"acquire", "resolve"} /\ req'[r].session = s
  BY <1>1, <1>5 DEF Idle
<1>4. OthersStay(r)
  BY <1>1, <1>5 DEF OthersStay
<1> QED
  BY <1>1, <1>5, <1>3, <1>4 DEF KeyStays, FindsStay, Idle

\* try_acquire stores the key and remembers it, or lets the turn pass or not.
LEMMA TryAcquireLocals ==
    ASSUME FlowInv, NEW r \in Request, TryAcquire(r)
    PROVE  /\ OthersStay(r) /\ InputStays(r) /\ ReadsStay(r) /\ FindsStay(r)
           /\ req'[r].sources = req[r].sources
           /\ req'[r].pc \in {"load", "resolve", "done"}
           /\ req'[r].pc = "load" => req[r].session = None
           /\ req'[r].pc = "done" => req'[r].status = "409"
           /\ \/ /\ req[r].rid \notin idem /\ req[r].rid \in RequestId
                 /\ idem' = idem \cup {req[r].rid}
                 /\ req'[r].admitted = "key" /\ req'[r].age = life[req[r].rid]
              \/ req'[r].admitted = "open" /\ idem \subseteq idem'
              \/ KeyStays(r) /\ idem \subseteq idem'
<1> DEFINE i == req[r].rid
<1>1. /\ req \in [Request -> RequestState] /\ req[r] \in RequestState
      /\ req[r].member = None => req[r].session = None
  BY DEF FlowInv, TypeOK, FlowOK, TryAcquire, At
<1>2. AfterAcquire(r) \in {"load", "resolve"} /\ (AfterAcquire(r) = "load" => req[r].session = None)
  BY <1>1 DEF AfterAcquire
<1>3. ASSUME i # None, SetNX(i), idem' = idem \cup {i},
             req' = [req EXCEPT ![r].pc = AfterAcquire(r), ![r].admitted = "key",
                                ![r].age = life[i]]
      PROVE  /\ OthersStay(r) /\ InputStays(r) /\ ReadsStay(r) /\ FindsStay(r)
             /\ req'[r].sources = req[r].sources /\ req'[r].pc = AfterAcquire(r)
             /\ i \in RequestId /\ i \notin idem
             /\ req'[r].admitted = "key" /\ req'[r].age = life[i]
  BY <1>1, <1>3 DEF RequestState, OthersStay, InputStays, ReadsStay, FindsStay, SetNX
<1>4. ASSUME req' = [req EXCEPT ![r].pc = AfterAcquire(r), ![r].admitted = "open"]
      PROVE  /\ OthersStay(r) /\ InputStays(r) /\ ReadsStay(r) /\ FindsStay(r)
             /\ req'[r].sources = req[r].sources /\ req'[r].pc = AfterAcquire(r)
             /\ req'[r].admitted = "open"
  BY <1>1, <1>4 DEF RequestState, OthersStay, InputStays, ReadsStay, FindsStay
<1>5. ASSUME RejectDuplicate(r)
      PROVE  LocalsStay(r) /\ req'[r].pc = "done" /\ req'[r].status = "409"
             /\ req'[r].sources = req[r].sources
  BY <1>5, FinishLocals DEF RejectDuplicate, FlowInv
<1>6. CASE i # None /\ RedisConfigured /\ SetNX(i)
           /\ idem' = idem \cup {i}
           /\ req' = [req EXCEPT ![r].pc = AfterAcquire(r), ![r].admitted = "key",
                                 ![r].age = life[i]]
  BY <1>2, <1>3, <1>6
<1>7. CASE RejectDuplicate(r) /\ UNCHANGED idem
  BY <1>5, <1>7 DEF LocalsStay
<1>8. CASE /\ req' = [req EXCEPT ![r].pc = AfterAcquire(r), ![r].admitted = "open"]
           /\ UNCHANGED idem \/ idem' = idem \cup {i}
  BY <1>2, <1>4, <1>8
<1> QED
  BY <1>6, <1>7, <1>8 DEF TryAcquire

\* A created session is a new one and its row names the caller.
LEMMA CreateLocals ==
    ASSUME FlowInv, NEW r \in Request, CreateSession(r)
    PROVE  /\ OthersStay(r) /\ ReadsStay(r) /\ KeyStays(r) /\ FindsStay(r)
           /\ req'[r].kind = req[r].kind /\ req'[r].member = req[r].member
           /\ req'[r].rid = req[r].rid /\ req'[r].sources = req[r].sources
           /\ req[r].member \in Member /\ req[r].kind \in {"turn", "create"}
           /\ \/ req'[r].pc = "done" /\ req'[r].status = "ok" /\ req[r].kind = "create"
              \/ req'[r].pc = "history" /\ req'[r].status = req[r].status
           /\ req'[r].session \in Session /\ owner[req'[r].session] = None
           /\ owner' = [owner EXCEPT ![req'[r].session] = req[r].member]
           /\ live' = live \cup {req'[r].session}
<1>1. /\ req \in [Request -> RequestState] /\ req[r] \in RequestState
      /\ req[r].member \in Member /\ req[r].kind \in {"turn", "create"}
  BY DEF FlowInv, TypeOK, FlowOK, CreateSession, At
<1>2. PICK s \in Session :
        /\ owner[s] = None
        /\ owner' = [owner EXCEPT ![s] = req[r].member]
        /\ live' = live \cup {s}
        /\ req' = IF req[r].kind = "create"
                  THEN [req EXCEPT ![r].session = s, ![r].pc = "done",
                                   ![r].status = "ok"]
                  ELSE [req EXCEPT ![r].session = s, ![r].pc = "history"]
  BY DEF CreateSession
<1>3. /\ OthersStay(r) /\ ReadsStay(r) /\ KeyStays(r) /\ FindsStay(r)
      /\ req'[r].kind = req[r].kind /\ req'[r].member = req[r].member
      /\ req'[r].rid = req[r].rid /\ req'[r].sources = req[r].sources
      /\ req'[r].session = s
      /\ \/ req'[r].pc = "done" /\ req'[r].status = "ok" /\ req[r].kind = "create"
         \/ req'[r].pc = "history" /\ req'[r].status = req[r].status
  <2>1. CASE req[r].kind = "create"
    BY <1>1, <1>2, <2>1 DEF RequestState, OthersStay, ReadsStay, KeyStays, FindsStay
  <2>2. CASE req[r].kind # "create"
    BY <1>1, <1>2, <2>2 DEF RequestState, OthersStay, ReadsStay, KeyStays, FindsStay
  <2> QED  BY <2>1, <2>2
<1> QED
  BY <1>1, <1>2, <1>3

\* _resolve_history takes the history of the thread, or of the client where there is none
\* or the read fails.
LEMMA HistoryLocals ==
    ASSUME FlowInv, NEW r \in Request, ResolveHistory(r)
    PROVE  /\ OthersStay(r) /\ InputStays(r) /\ KeyStays(r) /\ FindsStay(r)
           /\ req'[r].base = req[r].base
           /\ req[r].session \in Session
           /\ LET memory == thread[req[r].session].turns IN
              \/ memory # <<>> /\ req'[r].seen = TrimHistory(memory) /\ req'[r].from = "memory"
              \/ memory = <<>> /\ req'[r].seen = TrimHistory(req[r].seen)
                               /\ req'[r].from = "client"
              \/ req'[r].seen = TrimHistory(req[r].seen) /\ req'[r].from = "error"
           /\ req'[r].sources = req[r].sources
           /\ \/ req'[r].pc = "done" /\ req'[r].status = "ok" /\ req[r].kind = "read"
              \/ req'[r].pc = "load" /\ req'[r].status = req[r].status
<1>1. /\ req \in [Request -> RequestState] /\ req[r] \in RequestState
      /\ req[r].session \in Session
  BY DEF FlowInv, TypeOK, FlowOK, ResolveHistory, At
<1>2. ASSUME NEW turns, NEW f, Shown(r, turns, f)
      PROVE  /\ OthersStay(r) /\ InputStays(r) /\ KeyStays(r) /\ FindsStay(r)
             /\ req'[r].base = req[r].base /\ req'[r].seen = turns /\ req'[r].from = f
             /\ req'[r].sources = req[r].sources
             /\ \/ req'[r].pc = "done" /\ req'[r].status = "ok" /\ req[r].kind = "read"
                \/ req'[r].pc = "load" /\ req'[r].status = req[r].status
  <2>1. CASE req[r].kind = "read"
    BY <1>1, <1>2, <2>1 DEF Shown, RequestState, OthersStay, InputStays, KeyStays, FindsStay
  <2>2. CASE req[r].kind # "read"
    BY <1>1, <1>2, <2>2 DEF Shown, RequestState, OthersStay, InputStays, KeyStays, FindsStay
  <2> QED  BY <2>1, <2>2
<1> DEFINE memory == thread[req[r].session].turns
<1>3. \/ memory # <<>> /\ Shown(r, TrimHistory(memory), "memory")
      \/ memory = <<>> /\ Shown(r, TrimHistory(req[r].seen), "client")
      \/ Shown(r, TrimHistory(req[r].seen), "error")
  BY DEF ResolveHistory, LatestTurns
<1> HIDE DEF memory
<1>4. CASE memory # <<>> /\ Shown(r, TrimHistory(memory), "memory")
  BY <1>1, <1>2, <1>4 DEF memory
<1>5. CASE memory = <<>> /\ Shown(r, TrimHistory(req[r].seen), "client")
  BY <1>1, <1>2, <1>5 DEF memory
<1>6. CASE Shown(r, TrimHistory(req[r].seen), "error")
  BY <1>1, <1>2, <1>6
<1> QED  BY <1>3, <1>4, <1>5, <1>6

\* ainvoke loads the thread of the session with empty rag_hits.
LEMMA LoadLocals ==
    ASSUME FlowInv, NEW r \in Request, LoadThread(r)
    PROVE  /\ OthersStay(r) /\ InputStays(r) /\ KeyStays(r)
           /\ req'[r].seen = req[r].seen /\ req'[r].from = req[r].from
           /\ req'[r].intent = req[r].intent
           /\ req'[r].base = IF req[r].session = None THEN <<>> ELSE thread[req[r].session].turns
           /\ req'[r].hits = {}
           /\ req'[r].pc = "nodes"
           /\ req'[r].status = req[r].status /\ req'[r].sources = req[r].sources
<1>1. req \in [Request -> RequestState] /\ req[r] \in RequestState
  BY DEF FlowInv, TypeOK
<1> QED
  BY <1>1 DEF LoadThread, InitHits, RequestState, OthersStay, InputStays, KeyStays

\* The nodes find hits of their own or none, and save the loaded turns.
LEMMA NodesLocals ==
    ASSUME FlowInv, NEW r \in Request, RunNodes(r)
    PROVE  /\ OthersStay(r) /\ InputStays(r) /\ KeyStays(r) /\ ReadsStay(r)
           /\ req'[r].hits \in {req[r].hits, {}, {r}}
           /\ req'[r].pc = "append"
           /\ req'[r].status = req[r].status /\ req'[r].sources = req[r].sources
           /\ WriteCheckpoint(r, req[r].base, req'[r].hits)
<1>1. req \in [Request -> RequestState] /\ req[r] \in RequestState
  BY DEF FlowInv, TypeOK
<1>2. PICK i \in Intent : \E h \in HitsAfter(r, i) :
        /\ req' = [req EXCEPT ![r].pc = "append", ![r].intent = i, ![r].hits = h]
        /\ WriteCheckpoint(r, req[r].base, h)
  BY DEF RunNodes
<1>3. PICK h \in HitsAfter(r, i) :
        /\ req' = [req EXCEPT ![r].pc = "append", ![r].intent = i, ![r].hits = h]
        /\ WriteCheckpoint(r, req[r].base, h)
  BY <1>2
<1>4. h \in {req[r].hits, {}, {r}}
  BY DEF HitsAfter
<1>5. /\ OthersStay(r) /\ InputStays(r) /\ KeyStays(r) /\ ReadsStay(r)
      /\ req'[r].hits = h /\ req'[r].pc = "append"
      /\ req'[r].status = req[r].status /\ req'[r].sources = req[r].sources
  BY <1>1, <1>3 DEF RequestState, OthersStay, InputStays, KeyStays, ReadsStay
<1> QED
  BY <1>3, <1>4, <1>5

\* A restart ends what had not ended and forgets nothing of it.
LEMMA RestartLocals ==
    ASSUME FlowInv, Restart, NEW x \in Request
    PROVE  /\ InputStays(x) /\ ReadsStay(x) /\ KeyStays(x) /\ FindsStay(x)
           /\ req'[x].status = req[x].status /\ req'[x].sources = req[x].sources
           /\ req'[x].pc = IF req[x].pc \in {"idle", "done"} THEN req[x].pc ELSE "lost"
<1>1. req[x] \in RequestState
  BY DEF FlowInv, TypeOK
<1>2. req'[x] = IF req[x].pc \in {"idle", "done"} THEN req[x]
                ELSE [req[x] EXCEPT !.pc = "lost"]
  BY DEF Restart
<1> QED
  BY <1>1, <1>2 DEF RequestState, InputStays, ReadsStay, KeyStays, FindsStay

\* Types and control flow hold at all times.
LEMMA FlowAlways == Spec => []FlowInv
<1>1. Init => FlowInv
  BY FlowInit
<1>2. FlowInv /\ [Next]_vars => FlowInv'
  BY FlowStep
<1> QED  BY <1>1, <1>2, PTL DEF Spec

-----------------------------------------------------------------------------
(* Isolation of members.                                                   *)

\* The requests of a member; a guest has no requests in this sense.
Of(m) == {x \in Request : req[x].member = m /\ m # None}

\* What a request may be shown: its member's turns; for a guest, what his client kept.
Known(m) == IF m = None THEN Request ELSE Of(m)

PastOwnerCheck == {"history", "load", "nodes", "append", "save", "touch", "drop_row", "drop_thread"}

\* Threads and titles are the owner's, a session without one has neither; a request
\* reads its member's turns; and past the owner check it is at its member's session.
ThreadsOfOwners ==
    \A s \in Session :
        /\ Authors(thread[s].turns) \subseteq Of(owner[s])
        /\ title[s] # None => title[s] \in Of(owner[s])

ReadsOwnTurns ==
    \A r \in Request : Authors(req[r].seen) \cup Authors(req[r].base) \subseteq Known(req[r].member)

AtOwnSession ==
    \A r \in Request : req[r].pc \in PastOwnerCheck /\ req[r].session # None =>
        owner[req[r].session] = req[r].member /\ req[r].member # None

IsoInv == ThreadsOfOwners /\ ReadsOwnTurns /\ AtOwnSession

\* An empty thread has no authors.
LEMMA AuthorsOfNothing == Authors(<<>>) = {}
BY EmptySeq DEF Authors

\* A trimmed history has no other authors.
LEMMA AuthorsTrimmed ==
    ASSUME NEW turns \in Seq(Turn)
    PROVE  Authors(TrimHistory(turns)) \subseteq Authors(turns)
<1>1. CASE Kept = 0 \/ Len(turns) <= Kept
  BY <1>1 DEF TrimHistory
<1>2. CASE ~(Kept = 0 \/ Len(turns) <= Kept)
  <2> DEFINE low == Len(turns) - Kept
  <2>1. /\ Kept \in Nat /\ Len(turns) \in Nat /\ low \in Nat /\ low + Kept = Len(turns)
        /\ DOMAIN turns = 1..Len(turns)
    BY <1>2, KeptType
  <2>2. /\ DOMAIN SubSeq(turns, low + 1, Len(turns)) = 1..Kept
        /\ \A j \in 1..Kept : SubSeq(turns, low + 1, Len(turns))[j] = turns[low + j]
    BY <2>1
  <2>3. \A j \in 1..Kept : low + j \in DOMAIN turns
    BY <2>1
  <2>4. TrimHistory(turns) = SubSeq(turns, low + 1, Len(turns))
    BY <1>2 DEF TrimHistory
  <2> HIDE DEF low
  <2> QED  BY <2>2, <2>3, <2>4 DEF Authors
<1> QED  BY <1>1, <1>2

\* A client sends the turns of its member.
LEMMA AuthorsSent ==
    ASSUME NEW m, NEW s, NEW h \in ClientHistories(m, s)
    PROVE  Authors(h) \subseteq Known(m)
<1> DEFINE answered == {x \in Request : /\ req[x].kind = "turn" /\ req[x].status = "ok"
                                       /\ req[x].member = m /\ req[x].session = s}
<1>1. PICK n \in 0..MaxHistory : h \in [1..n -> [by : answered, sources : {{}}]]
  BY DEF ClientHistories
<1>2. answered \subseteq Known(m)
  BY DEF Known, Of
<1> HIDE DEF answered
<1>3. Authors(h) \subseteq answered
  BY <1>1 DEF Authors
<1> QED  BY <1>2, <1>3

\* An appended turn adds its own author.
LEMMA AuthorsAppend ==
    ASSUME NEW turns \in Seq(Turn), NEW t \in Turn
    PROVE  Authors(Append(turns, t)) = Authors(turns) \cup {t.by}
<1>1. /\ Len(turns) \in Nat /\ DOMAIN turns = 1..Len(turns)
      /\ DOMAIN Append(turns, t) = 1..(Len(turns) + 1)
      /\ \A j \in 1..Len(turns) : Append(turns, t)[j] = turns[j]
      /\ Append(turns, t)[Len(turns) + 1] = t
  OBVIOUS
<1>2. Authors(Append(turns, t)) \subseteq Authors(turns) \cup {t.by}
  <2> SUFFICES ASSUME NEW j \in 1..(Len(turns) + 1)
               PROVE  Append(turns, t)[j].by \in Authors(turns) \cup {t.by}
    BY <1>1 DEF Authors
  <2>1. j \in 1..Len(turns) \/ j = Len(turns) + 1
    BY <1>1
  <2> QED  BY <1>1, <2>1 DEF Authors
<1>3. Authors(turns) \subseteq Authors(Append(turns, t))
  <2> SUFFICES ASSUME NEW j \in 1..Len(turns) PROVE turns[j].by \in Authors(Append(turns, t))
    BY <1>1 DEF Authors
  <2>1. j \in 1..(Len(turns) + 1) /\ Append(turns, t)[j] = turns[j]
    BY <1>1
  <2> QED  BY <1>1, <2>1 DEF Authors
<1>4. t.by \in Authors(Append(turns, t))
  BY <1>1 DEF Authors
<1> QED  BY <1>2, <1>3, <1>4

\* A step that moves request r within its input, adds only requests of the owner to a
\* thread or a title and only turns of its member to what r has read.
LEMMA IsoFrame ==
    ASSUME IsoInv, NEW r \in Request,
           OthersStay(r), InputStays(r),
           owner' = owner,
           Authors(req'[r].seen) \cup Authors(req'[r].base) \subseteq Known(req[r].member),
           req'[r].pc \in PastOwnerCheck /\ req[r].session # None =>
               owner[req[r].session] = req[r].member /\ req[r].member # None,
           \A s \in Session : Authors(thread'[s].turns) \subseteq Of(owner[s]),
           \A s \in Session : title'[s] # None => title'[s] \in Of(owner[s])
    PROVE  IsoInv'
<1>1. \A x \in Request : req'[x].member = req[x].member /\ req'[x].session = req[x].session
  BY DEF OthersStay, InputStays
<1>3. ThreadsOfOwners'
  <2> SUFFICES ASSUME NEW s \in Session
               PROVE  /\ Authors(thread'[s].turns) \subseteq Of(owner[s])'
                      /\ title'[s] # None => title'[s] \in Of(owner[s])'
    BY DEF ThreadsOfOwners, Authors
  <2>1. Of(owner[s])' = Of(owner[s])
    BY <1>1 DEF Of
  <2> QED  BY <2>1
<1>4. ReadsOwnTurns'
  <2> SUFFICES ASSUME NEW x \in Request
               PROVE  Authors(req'[x].seen) \cup Authors(req'[x].base) \subseteq Known(req[x].member)'
    BY DEF ReadsOwnTurns, Authors
  <2>1. Known(req[x].member)' = Known(req[x].member)
    BY <1>1 DEF Known, Of
  <2>2. CASE x = r
    BY <2>1, <2>2
  <2>3. CASE x # r
    BY <2>1, <2>3 DEF IsoInv, ReadsOwnTurns, OthersStay
  <2> QED  BY <2>2, <2>3
<1>5. AtOwnSession'
  <2> SUFFICES ASSUME NEW x \in Request, req'[x].pc \in PastOwnerCheck, req'[x].session # None
               PROVE  owner'[req'[x].session] = req'[x].member /\ req'[x].member # None
    BY DEF AtOwnSession, PastOwnerCheck
  <2>1. CASE x = r
    BY <1>1, <2>1
  <2>2. CASE x # r
    BY <2>2 DEF IsoInv, AtOwnSession, OthersStay
  <2> QED  BY <2>1, <2>2
<1> QED  BY <1>3, <1>4, <1>5 DEF IsoInv

\* The same for a step that reads nothing and leaves the stores alone.
LEMMA IsoQuiet ==
    ASSUME IsoInv, NEW r \in Request,
           OthersStay(r), InputStays(r), ReadsStay(r),
           owner' = owner, title' = title, thread' = thread,
           req'[r].pc \in PastOwnerCheck /\ req[r].session # None =>
               owner[req[r].session] = req[r].member /\ req[r].member # None
    PROVE  IsoInv'
<1>1. Authors(req'[r].seen) \cup Authors(req'[r].base) \subseteq Known(req[r].member)
  BY DEF IsoInv, ReadsOwnTurns, ReadsStay
<1>2. \A s \in Session : Authors(thread'[s].turns) \subseteq Of(owner[s])
  BY DEF IsoInv, ThreadsOfOwners
<1>3. \A s \in Session : title'[s] # None => title'[s] \in Of(owner[s])
  BY DEF IsoInv, ThreadsOfOwners
<1> QED  BY <1>1, <1>2, <1>3, IsoFrame

\* What a run writes into its thread.
LEMMA WriteAuthors ==
    ASSUME TypeOK, IsoInv, NEW r \in Request, req[r].pc \in PastOwnerCheck,
           NEW turns, Authors(turns) \subseteq Known(req[r].member), NEW hits,
           WriteCheckpoint(r, turns, hits), NEW s \in Session
    PROVE  Authors(thread'[s].turns) \subseteq Of(owner[s])
<1>1. thread \in [Session -> Checkpoint] /\ Authors(thread[s].turns) \subseteq Of(owner[s])
  BY DEF TypeOK, IsoInv, ThreadsOfOwners
<1>2. CASE req[r].session = None
  BY <1>1, <1>2 DEF WriteCheckpoint
<1>3. CASE req[r].session # None
  <2>1. owner[req[r].session] = req[r].member /\ Known(req[r].member) = Of(req[r].member)
    BY <1>3 DEF IsoInv, AtOwnSession, Known
  <2>2. thread' = [thread EXCEPT ![req[r].session] = [turns |-> turns, hits |-> hits]]
    BY <1>3 DEF WriteCheckpoint
  <2>3. CASE s = req[r].session
    <3>1. thread'[s].turns = turns
      BY <1>1, <2>2, <2>3
    <3> QED  BY <2>1, <2>3, <3>1
  <2>4. CASE s # req[r].session
    <3>1. thread'[s] = thread[s]
      BY <1>1, <2>2, <2>4
    <3> QED  BY <1>1, <3>1
  <2> QED  BY <2>3, <2>4
<1> QED  BY <1>2, <1>3

\* The thread of a session is emptied.
LEMMA EmptiedAuthors ==
    ASSUME TypeOK, IsoInv, NEW z, NEW s \in Session,
           thread' = [thread EXCEPT ![z] = EmptyCheckpoint]
    PROVE  Authors(thread'[s].turns) \subseteq Of(owner[s])
<1>1. thread \in [Session -> Checkpoint] /\ Authors(thread[s].turns) \subseteq Of(owner[s])
  BY DEF TypeOK, IsoInv, ThreadsOfOwners
<1>2. CASE s = z
  <2>1. thread'[s].turns = <<>>
    BY <1>1, <1>2 DEF EmptyCheckpoint
  <2> QED  BY <2>1, AuthorsOfNothing
<1>3. CASE s # z
  <2>1. thread'[s] = thread[s]
    BY <1>1, <1>3
  <2> QED  BY <1>1, <2>1
<1> QED  BY <1>2, <1>3

\* A request that arrives has been shown what its client sent.
LEMMA ArriveKeepsIso ==
    ASSUME FlowInv, IsoInv, NEW r \in Request, Arrive(r)
    PROVE  IsoInv'
<1>1. /\ OthersStay(r) /\ req[r] = Idle
      /\ req'[r].pc \in {"acquire", "resolve"}
      /\ owner' = owner /\ title' = title /\ thread' = thread
  BY ArriveLocals DEF Arrive, Tables
<1>2. /\ req[r].member = None /\ req'[r].base = <<>>
      /\ Authors(req'[r].seen) \subseteq Known(req'[r].member)
  BY <1>1, ArriveLocals, AuthorsSent DEF Idle
<1>3. ASSUME NEW m PROVE Of(m) \subseteq {x \in Request : req'[x].member = m /\ m # None}
  BY <1>1, <1>2 DEF Of, OthersStay
<1>7. ASSUME NEW m
      PROVE  Known(m) \subseteq IF m = None THEN Request
                               ELSE {x \in Request : req'[x].member = m /\ m # None}
  BY <1>3 DEF Known
<1>4. ThreadsOfOwners'
  <2> SUFFICES ASSUME NEW s \in Session
               PROVE  /\ Authors(thread[s].turns)
                           \subseteq {x \in Request : req'[x].member = owner[s] /\ owner[s] # None}
                      /\ title[s] # None =>
                           title[s] \in {x \in Request : req'[x].member = owner[s]
                                                          /\ owner[s] # None}
    BY <1>1 DEF ThreadsOfOwners, Of, Authors
  <2> QED  BY <1>3 DEF IsoInv, ThreadsOfOwners
<1>5. ReadsOwnTurns'
  <2> SUFFICES ASSUME NEW x \in Request
               PROVE  Authors(req'[x].seen) \cup Authors(req'[x].base)
                        \subseteq IF req'[x].member = None THEN Request
                                  ELSE {y \in Request : req'[y].member = req'[x].member
                                                           /\ req'[x].member # None}
    BY DEF ReadsOwnTurns, Authors, Known, Of
  <2>1. CASE x = r
    BY <1>2, <1>7, <2>1, AuthorsOfNothing
  <2>2. CASE x # r
    BY <1>1, <1>7, <2>2 DEF IsoInv, ReadsOwnTurns, OthersStay
  <2> QED  BY <2>1, <2>2
<1>6. AtOwnSession'
  <2> SUFFICES ASSUME NEW x \in Request, req'[x].pc \in PastOwnerCheck, req'[x].session # None
               PROVE  owner'[req'[x].session] = req'[x].member /\ req'[x].member # None
    BY DEF AtOwnSession, PastOwnerCheck
  <2>1. x # r
    BY <1>1 DEF PastOwnerCheck
  <2> QED  BY <1>1, <2>1 DEF IsoInv, AtOwnSession, OthersStay
<1> QED  BY <1>4, <1>5, <1>6 DEF IsoInv

\* A new session has an empty thread and no title.
LEMMA CreateKeepsIso ==
    ASSUME FlowInv, IsoInv, NEW r \in Request, CreateSession(r)
    PROVE  IsoInv'
<1> USE ChatTurnAssumption
<1> DEFINE z == req'[r].session
<1>1. /\ OthersStay(r) /\ ReadsStay(r) /\ req'[r].member = req[r].member
      /\ req[r].member \in Member /\ z \in Session /\ owner[z] = None
      /\ owner' = [owner EXCEPT ![z] = req[r].member]
      /\ owner \in [Session -> Member \cup {None}]
      /\ title' = title /\ thread' = thread
  BY CreateLocals DEF CreateSession, FlowInv, TypeOK
<1>2. \A x \in Request : req'[x].member = req[x].member
  BY <1>1 DEF OthersStay
<1>3. ThreadsOfOwners'
  <2> SUFFICES ASSUME NEW s \in Session
               PROVE  /\ Authors(thread[s].turns) \subseteq Of(owner[s])'
                      /\ title[s] # None => title[s] \in Of(owner[s])'
    BY <1>1 DEF ThreadsOfOwners, Authors
  <2>1. Authors(thread[s].turns) \subseteq Of(owner[s]) /\ (title[s] # None => title[s] \in Of(owner[s]))
    BY DEF IsoInv, ThreadsOfOwners
  <2>2. CASE s = z
    <3>1. Of(owner[s]) = {}
      BY <1>1, <2>2 DEF Of
    <3> QED  BY <2>1, <3>1
  <2>3. CASE s # z
    <3>1. owner'[s] = owner[s]
      BY <1>1, <2>3
    <3>2. Of(owner[s])' = Of(owner[s])
      BY <1>2, <3>1 DEF Of
    <3> QED  BY <2>1, <3>2
  <2> QED  BY <2>2, <2>3
<1>4. ReadsOwnTurns'
  <2> SUFFICES ASSUME NEW x \in Request
               PROVE  Authors(req'[x].seen) \cup Authors(req'[x].base) \subseteq Known(req[x].member)'
    BY DEF ReadsOwnTurns, Authors
  <2>1. Known(req[x].member)' = Known(req[x].member)
    BY <1>2 DEF Known, Of
  <2>2. req'[x].seen = req[x].seen /\ req'[x].base = req[x].base
    BY <1>1 DEF OthersStay, ReadsStay
  <2> QED  BY <2>1, <2>2 DEF IsoInv, ReadsOwnTurns
<1>5. AtOwnSession'
  <2> SUFFICES ASSUME NEW x \in Request, req'[x].pc \in PastOwnerCheck, req'[x].session # None
               PROVE  owner'[req'[x].session] = req'[x].member /\ req'[x].member # None
    BY DEF AtOwnSession, PastOwnerCheck
  <2>1. CASE x = r
    BY <1>1, <2>1
  <2>2. CASE x # r
    <3>1. req'[x] = req[x] /\ owner[req[x].session] = req[x].member /\ req[x].member # None
      BY <1>1, <2>2 DEF OthersStay, IsoInv, AtOwnSession
    <3>2. req[x].session # z /\ req[x].session \in Session
      BY <1>1, <3>1 DEF FlowInv, TypeOK, RequestState
    <3>3. owner'[req[x].session] = owner[req[x].session]
      BY <1>1, <3>2
    <3> QED  BY <3>1, <3>3
  <2> QED  BY <2>1, <2>2
<1> QED  BY <1>3, <1>4, <1>5 DEF IsoInv

\* Steps that read nothing and write neither thread nor title; the owner check is one.
LEMMA QuietStepsKeepIso ==
    ASSUME FlowInv, IsoInv, NEW r \in Request,
           \/ TryAcquire(r) \/ ResolveToken(r) \/ CheckOwner(r) \/ OracleError(r)
           \/ SaveHistory(r) \/ DropRow(r) \/ HangUp(r)
    PROVE  IsoInv'
<1> USE ChatTurnAssumption
<1>0. TypeOK /\ FlowOK(req[r]) /\ req[r] \in RequestState
  BY DEF FlowInv, TypeOK
<1>1. owner' = owner /\ title' = title /\ thread' = thread
  BY DEF TryAcquire, ResolveToken, CheckOwner, OracleError, SaveHistory, DropRow, HangUp, Tables
<1>2. CASE TryAcquire(r)
  <2>1. /\ OthersStay(r) /\ InputStays(r) /\ ReadsStay(r)
        /\ req'[r].pc \in {"load", "resolve", "done"}
        /\ req'[r].pc = "load" => req[r].session = None
    BY <1>2, TryAcquireLocals
  <2> QED  BY <1>1, <2>1, IsoQuiet DEF PastOwnerCheck
<1>3. ASSUME NEW p, Goto(r, p),
             p \in PastOwnerCheck /\ req[r].session # None =>
               owner[req[r].session] = req[r].member /\ req[r].member # None
      PROVE  IsoInv'
  BY <1>0, <1>1, <1>3, GotoLocals, IsoQuiet DEF LocalsStay
<1>4. ASSUME NEW st, Finish(r, st)
      PROVE  IsoInv'
  <2>1. LocalsStay(r) /\ req'[r].pc = "done"
    BY <1>0, <1>4, FinishLocals
  <2> QED  BY <1>1, <2>1, IsoQuiet DEF LocalsStay, PastOwnerCheck
<1>5. CASE ResolveToken(r)
  <2>1. AfterResolve(r) \notin PastOwnerCheck
    BY DEF AfterResolve, PastOwnerCheck
  <2> QED  BY <1>3, <1>4, <1>5, <2>1 DEF ResolveToken
<1>6. CASE CheckOwner(r)
  <2>1. CASE OwnsSession(r)
    <3>1. req[r].member \in Member /\ req[r].session \in Session
      BY <1>0, <1>6 DEF CheckOwner, At, FlowOK
    <3>2. owner[req[r].session] = req[r].member /\ req[r].member # None
      BY <2>1, <3>1 DEF OwnsSession, SessionOwner
    <3> QED  BY <1>3, <1>6, <2>1, <3>2 DEF CheckOwner
  <2>2. CASE ~ OwnsSession(r)
    BY <1>4, <1>6, <2>2 DEF CheckOwner
  <2> QED  BY <2>1, <2>2
<1>7. CASE OracleError(r)
  BY <1>4, <1>7 DEF OracleError
<1>8. CASE SaveHistory(r) \/ DropRow(r)
  <2>1. req[r].pc \in PastOwnerCheck
    BY <1>8 DEF SaveHistory, DropRow, At, PastOwnerCheck
  <2> QED  BY <1>3, <1>8, <2>1 DEF SaveHistory, DropRow, IsoInv, AtOwnSession
<1>9. CASE HangUp(r)
  <2>1. "lost" \notin PastOwnerCheck
    BY DEF PastOwnerCheck
  <2> QED  BY <1>3, <1>9, <2>1 DEF HangUp
<1> QED  BY <1>2, <1>5, <1>6, <1>7, <1>8, <1>9

\* Steps that read the thread of the session.
LEMMA ReadsKeepIso ==
    ASSUME FlowInv, IsoInv, NEW r \in Request, ResolveHistory(r) \/ LoadThread(r)
    PROVE  IsoInv'
<1>0. TypeOK /\ FlowOK(req[r]) /\ req[r] \in RequestState
  BY DEF FlowInv, TypeOK
<1>1. /\ owner' = owner /\ title' = title /\ thread' = thread
      /\ req[r].pc \in {"history", "load"}
  BY DEF ResolveHistory, LoadThread, At, Tables
<1>2. req[r].session # None => /\ owner[req[r].session] = req[r].member
                               /\ req[r].member # None
                               /\ req[r].session \in Session
  BY <1>0, <1>1 DEF IsoInv, AtOwnSession, PastOwnerCheck, RequestState
<1>3. req[r].session # None => Authors(thread[req[r].session].turns) \subseteq Known(req[r].member)
  BY <1>2 DEF IsoInv, ThreadsOfOwners, Known
<1>4. Authors(req[r].seen) \cup Authors(req[r].base) \subseteq Known(req[r].member)
  BY DEF IsoInv, ReadsOwnTurns
<1>5. OthersStay(r) /\ InputStays(r)
      /\ Authors(req'[r].seen) \cup Authors(req'[r].base) \subseteq Known(req[r].member)
  <2>1. CASE ResolveHistory(r)
    <3>1. /\ OthersStay(r) /\ InputStays(r) /\ req'[r].base = req[r].base
          /\ req[r].session \in Session
          /\ req'[r].seen \in {TrimHistory(thread[req[r].session].turns),
                                TrimHistory(req[r].seen)}
      BY <2>1, HistoryLocals
    <3>2. req[r].session # None
      BY <3>1, ChatTurnAssumption
    <3>3. thread[req[r].session].turns \in Seq(Turn) /\ req[r].seen \in Seq(Turn)
      BY <1>0, <3>1 DEF TypeOK, Checkpoint, RequestState
    <3> QED  BY <1>3, <1>4, <3>1, <3>2, <3>3, AuthorsTrimmed
  <2>2. CASE LoadThread(r)
    BY <1>3, <1>4, <2>2, LoadLocals, AuthorsOfNothing
  <2> QED  BY <2>1, <2>2
<1>6. \A s \in Session : Authors(thread'[s].turns) \subseteq Of(owner[s])
  BY <1>1 DEF IsoInv, ThreadsOfOwners
<1>7. \A s \in Session : title'[s] # None => title'[s] \in Of(owner[s])
  BY <1>1 DEF IsoInv, ThreadsOfOwners
<1> QED  BY <1>1, <1>2, <1>5, <1>6, <1>7, IsoFrame

\* Steps that write a thread or a title.
LEMMA WritesKeepIso ==
    ASSUME FlowInv, IsoInv, NEW r \in Request,
           \/ RunNodes(r) \/ AppendMessage(r) \/ GraphError(r) \/ TouchSession(r)
           \/ DropThread(r)
    PROVE  IsoInv'
<1> USE ChatTurnAssumption
<1>0. TypeOK /\ FlowOK(req[r]) /\ req[r] \in RequestState /\ r \in Request
  BY DEF FlowInv, TypeOK
<1>1. owner' = owner /\ req[r].pc \in PastOwnerCheck
  BY DEF RunNodes, AppendMessage, GraphError, TouchSession, DropThread, At, Tables, PastOwnerCheck
<1>2. req[r].session # None => owner[req[r].session] = req[r].member /\ req[r].member # None
  BY <1>1 DEF IsoInv, AtOwnSession
<1>3. Authors(req[r].seen) \cup Authors(req[r].base) \subseteq Known(req[r].member)
  BY DEF IsoInv, ReadsOwnTurns
<1>4. OthersStay(r) /\ InputStays(r) /\ ReadsStay(r)
  <2>1. CASE RunNodes(r)
    BY <2>1, NodesLocals
  <2>2. CASE AppendMessage(r)
    BY <1>0, <2>2, GotoLocals, RespondLocals DEF AppendMessage, LocalsStay
  <2>3. CASE GraphError(r)
    BY <1>0, <2>3, FinishLocals DEF GraphError, LocalsStay
  <2>4. CASE TouchSession(r)
    BY <1>0, <2>4, RespondLocals DEF TouchSession, LocalsStay
  <2>5. CASE DropThread(r)
    BY <1>0, <2>5, FinishLocals DEF DropThread, LocalsStay
  <2> QED  BY <2>1, <2>2, <2>3, <2>4, <2>5
<1>5. \A s \in Session : title'[s] # None => title'[s] \in Of(owner[s])
  <2>1. CASE title' = title
    BY <2>1 DEF IsoInv, ThreadsOfOwners
  <2>2. CASE TouchSession(r)
    <3>1. req[r].session \in Session /\ req[r].member \in Member
      BY <1>0, <2>2 DEF TouchSession, At, FlowOK
    <3>2. r \in Of(owner[req[r].session])
      BY <1>2, <3>1 DEF Of
    <3>3. CASE title' = [title EXCEPT ![req[r].session] = TitleAfter(r, req[r].session)]
      <4> SUFFICES ASSUME NEW s \in Session, title'[s] # None
                   PROVE  title'[s] \in Of(owner[s])
        OBVIOUS
      <4>1. title \in [Session -> Request \cup {None}] /\ (title[s] # None => title[s] \in Of(owner[s]))
        BY <1>0 DEF TypeOK, IsoInv, ThreadsOfOwners
      <4>2. title'[s] = IF s = req[r].session /\ title[s] = None THEN r ELSE title[s]
        BY <3>3, <4>1 DEF TitleAfter
      <4> QED  BY <3>2, <4>1, <4>2
    <3> QED  BY <2>1, <2>2, <3>3 DEF TouchSession
  <2> QED  BY <2>1, <2>2 DEF RunNodes, AppendMessage, GraphError, DropThread, Tables
<1>6. \A s \in Session : Authors(thread'[s].turns) \subseteq Of(owner[s])
  <2> SUFFICES ASSUME NEW s \in Session PROVE Authors(thread'[s].turns) \subseteq Of(owner[s])
    OBVIOUS
  <2>1. CASE thread' = thread
    BY <2>1 DEF IsoInv, ThreadsOfOwners
  <2>2. CASE RunNodes(r)
    <3>1. WriteCheckpoint(r, req[r].base, req'[r].hits)
      BY <2>2, NodesLocals
    <3> QED  BY <1>0, <1>1, <1>3, <3>1, WriteAuthors
  <2>3. CASE AppendMessage(r)
    <3> DEFINE t == [by |-> r, sources |-> StoredSources(req[r].intent, req[r].hits)]
    <3>1. CASE req[r].session = None
      BY <2>1, <2>3, <3>1 DEF AppendMessage, WriteCheckpoint
    <3>2. CASE req[r].session # None
      <4>1. t \in Turn /\ req[r].base \in Seq(Turn)
        BY <1>0 DEF RequestState, Turn, StoredSources, Hits
      <4>2. Authors(TurnsAfter(r)) = Authors(req[r].base) \cup {r}
        BY <4>1, AuthorsAppend DEF TurnsAfter
      <4>3. r \in Known(req[r].member)
        BY <1>2, <3>2 DEF Known, Of
      <4>4. Authors(TurnsAfter(r)) \subseteq Known(req[r].member)
        BY <1>3, <4>2, <4>3
      <4> QED  BY <1>0, <1>1, <2>3, <4>4, WriteAuthors DEF AppendMessage
    <3> QED  BY <3>1, <3>2
  <2>4. CASE GraphError(r)
    <3>1. CASE WriteCheckpoint(r, req[r].base, req[r].hits)
      BY <1>0, <1>1, <1>3, <3>1, WriteAuthors
    <3> QED  BY <2>1, <2>4, <3>1 DEF GraphError
  <2>5. CASE DropThread(r)
    BY <1>0, <2>1, <2>5, EmptiedAuthors DEF DropThread
  <2> QED  BY <2>1, <2>2, <2>3, <2>4, <2>5 DEF TouchSession
<1> QED  BY <1>1, <1>2, <1>3, <1>4, <1>5, <1>6, IsoFrame DEF ReadsStay

\* Steps that change no request but end it, and no thread but empty it.
LEMMA OutsideKeepsIso ==
    ASSUME FlowInv, IsoInv,
           \A x \in Request : InputStays(x) /\ ReadsStay(x) /\ req'[x].pc \in {req[x].pc, "lost"},
           owner' = owner, title' = title,
           \A s \in Session : Authors(thread'[s].turns) \subseteq Of(owner[s])
    PROVE  IsoInv'
<1>1. ThreadsOfOwners'
  <2> SUFFICES ASSUME NEW s \in Session
               PROVE  /\ Authors(thread'[s].turns) \subseteq Of(owner[s])'
                      /\ title[s] # None => title[s] \in Of(owner[s])'
    BY DEF ThreadsOfOwners, Authors
  <2>1. Of(owner[s])' = Of(owner[s])
    BY DEF Of, InputStays
  <2> QED  BY <2>1 DEF IsoInv, ThreadsOfOwners
<1>2. ReadsOwnTurns'
  <2> SUFFICES ASSUME NEW x \in Request
               PROVE  Authors(req'[x].seen) \cup Authors(req'[x].base) \subseteq Known(req[x].member)'
    BY DEF ReadsOwnTurns, Authors
  <2>1. Known(req[x].member)' = Known(req[x].member)
    BY DEF Known, Of, InputStays
  <2> QED  BY <2>1 DEF IsoInv, ReadsOwnTurns, ReadsStay
<1>3. AtOwnSession'
  BY DEF IsoInv, AtOwnSession, InputStays, PastOwnerCheck
<1> QED  BY <1>1, <1>2, <1>3 DEF IsoInv

\* Expiries and restarts only empty threads and cut requests off.
LEMMA HostKeepsIso ==
    ASSUME FlowInv, IsoInv,
           \/ \E i \in RequestId : ExpireKey(i)
           \/ \E s \in Session : ExpireThread(s)
           \/ Restart
    PROVE  IsoInv'
<1>0. TypeOK
  BY DEF FlowInv
<1>1. owner' = owner /\ title' = title
  BY DEF ExpireKey, ExpireThread, Restart, Tables
<1>2. \A s \in Session : Authors(thread'[s].turns) \subseteq Of(owner[s])
  <2> SUFFICES ASSUME NEW s \in Session PROVE Authors(thread'[s].turns) \subseteq Of(owner[s])
    OBVIOUS
  <2>1. CASE thread' = thread
    BY <2>1 DEF IsoInv, ThreadsOfOwners
  <2>2. ASSUME NEW z \in Session, ExpireThread(z)
        PROVE  Authors(thread'[s].turns) \subseteq Of(owner[s])
    BY <1>0, <2>2, EmptiedAuthors DEF ExpireThread
  <2>3. CASE thread' = [z \in Session |-> EmptyCheckpoint]
    <3>1. thread'[s].turns = <<>>
      BY <2>3 DEF EmptyCheckpoint
    <3> QED  BY <3>1, AuthorsOfNothing
  <2> QED  BY <2>1, <2>2, <2>3 DEF ExpireKey, Restart
<1>3. \A x \in Request : InputStays(x) /\ ReadsStay(x) /\ req'[x].pc \in {req[x].pc, "lost"}
  <2>1. CASE Restart
    BY <2>1, RestartLocals
  <2>2. CASE req' = req
    BY <2>2 DEF InputStays, ReadsStay
  <2> QED  BY <2>1, <2>2 DEF ExpireKey, ExpireThread
<1> QED  BY <1>1, <1>2, <1>3, OutsideKeepsIso

\* Every step keeps members isolated.
LEMMA IsoStep == FlowInv /\ IsoInv /\ [Next]_vars => IsoInv'
<1> SUFFICES ASSUME FlowInv, IsoInv, [Next]_vars PROVE IsoInv'
  OBVIOUS
<1>1. ASSUME NEW r \in Request, Arrive(r) PROVE IsoInv'
  BY <1>1, ArriveKeepsIso
<1>2. ASSUME NEW r \in Request, Step(r) \/ HangUp(r) PROVE IsoInv'
  BY <1>2, CreateKeepsIso, QuietStepsKeepIso, ReadsKeepIso, WritesKeepIso DEF Step
<1>3. ASSUME \/ \E i \in RequestId : ExpireKey(i)
             \/ \E s \in Session : ExpireThread(s)
             \/ Restart
      PROVE  IsoInv'
  BY <1>3, HostKeepsIso
<1>4. CASE UNCHANGED vars
  <2>1. req' = req /\ owner' = owner /\ title' = title /\ thread' = thread
    BY <1>4 DEF vars
  <2>2. \A m : Of(m)' = Of(m) /\ Known(m)' = Known(m)
    BY <2>1 DEF Of, Known
  <2> QED  BY <2>1, <2>2 DEF IsoInv, ThreadsOfOwners, ReadsOwnTurns, AtOwnSession
<1> QED  BY <1>1, <1>2, <1>3, <1>4 DEF Next, Finished

\* At the start no thread, title or request holds a turn.
LEMMA IsoInit == Init => IsoInv
<1> SUFFICES ASSUME Init PROVE IsoInv
  OBVIOUS
<1>1. \A s \in Session : thread[s].turns = <<>> /\ title[s] = None
  BY DEF Init, EmptyCheckpoint
<1>2. \A r \in Request : req[r].seen = <<>> /\ req[r].base = <<>> /\ req[r].pc = "idle"
  BY DEF Init, Idle
<1> QED  BY <1>1, <1>2, AuthorsOfNothing
         DEF IsoInv, ThreadsOfOwners, ReadsOwnTurns, AtOwnSession, PastOwnerCheck

\* However requests interleave, die or fail, a thread and a title belong to the owner of
\* the session, and no request of a member is shown or builds on anyone else's message:
\* the owner check of routers/chat.py holds up to the last await of process_chat_pipeline.
THEOREM MembersAreIsolated == Spec => []MemoryIsolation
<1>1. IsoInv => MemoryIsolation
  BY DEF IsoInv, ThreadsOfOwners, ReadsOwnTurns, MemoryIsolation, Known, Of
<1>2. Init => IsoInv
  BY IsoInit
<1>3. FlowInv /\ FlowInv' /\ IsoInv /\ [Next]_vars => IsoInv'
  BY IsoStep
<1> QED  BY <1>1, <1>2, <1>3, FlowAlways, PTL DEF Spec

-----------------------------------------------------------------------------
(* Request ids.                                                            *)

\* A winner knows the life of the key it won; the key of the current life is there.
WinnersHoldKeys ==
    \A r \in Request : req[r].admitted = "key" =>
        /\ req[r].rid \in RequestId
        /\ req[r].age <= life[req[r].rid]
        /\ req[r].age = life[req[r].rid] => req[r].rid \in idem

KeyInv == WinnersHoldKeys /\ OneWinnerPerKey

\* Only try_acquire sets a key.
LEMMA StepsKeepKeys ==
    ASSUME FlowInv, NEW r \in Request, Arrive(r) \/ (Step(r) /\ ~ TryAcquire(r)) \/ HangUp(r)
    PROVE  /\ OthersStay(r) /\ KeyStays(r)
           /\ req[r].admitted = "key" => req'[r].rid = req[r].rid
           /\ life' = life /\ idem' = idem
<1>0. TypeOK /\ req[r] \in RequestState
  BY DEF FlowInv, TypeOK
<1>1. CASE Arrive(r)
  <2>1. OthersStay(r) /\ KeyStays(r) /\ req[r].admitted = "no"
    BY <1>1, ArriveLocals DEF Idle
  <2> QED  BY <1>1, <2>1 DEF Arrive
<1>2. CASE ResolveToken(r) \/ CheckOwner(r) \/ OracleError(r) \/ GraphError(r)
  BY <1>0, <1>2, GotoLocals, FinishLocals
     DEF ResolveToken, CheckOwner, OracleError, GraphError, LocalsStay, InputStays
<1>3. CASE AppendMessage(r) \/ TouchSession(r)
  BY <1>0, <1>3, GotoLocals, RespondLocals DEF AppendMessage, TouchSession, LocalsStay, InputStays
<1>4. CASE SaveHistory(r) \/ DropRow(r) \/ DropThread(r) \/ HangUp(r)
  BY <1>0, <1>4, GotoLocals, FinishLocals
     DEF SaveHistory, DropRow, DropThread, HangUp, LocalsStay, InputStays
<1>5. CASE CreateSession(r)
  BY <1>5, CreateLocals DEF CreateSession
<1>6. CASE ResolveHistory(r) \/ LoadThread(r) \/ RunNodes(r)
  BY <1>6, HistoryLocals, LoadLocals, NodesLocals
     DEF ResolveHistory, LoadThread, RunNodes, InputStays
<1> QED  BY <1>1, <1>2, <1>3, <1>4, <1>5, <1>6 DEF Step

\* A step that sets no key and ends none keeps the winners apart.
LEMMA KeysStay ==
    ASSUME FlowInv, KeyInv,
           \A x \in Request : /\ KeyStays(x)
                              /\ req[x].admitted = "key" => req'[x].rid = req[x].rid,
           life' = life, idem' = idem
    PROVE  KeyInv'
BY DEF KeyInv, WinnersHoldKeys, OneWinnerPerKey, KeyStays

\* A new winner found no key, so an earlier one won in an earlier life.
LEMMA AcquireKeepsKeys ==
    ASSUME FlowInv, KeyInv, NEW r \in Request, TryAcquire(r)
    PROVE  KeyInv'
<1>1. /\ OthersStay(r) /\ req'[r].rid = req[r].rid
      /\ life' = life /\ idem \subseteq idem'
  BY TryAcquireLocals DEF TryAcquire, InputStays
<1>2. ASSUME req'[r].admitted # "key" \/ KeyStays(r)
      PROVE  KeyInv'
  BY <1>1, <1>2 DEF KeyInv, WinnersHoldKeys, OneWinnerPerKey, KeyStays, OthersStay
<1>3. ASSUME req[r].rid \notin idem, req[r].rid \in RequestId,
             idem' = idem \cup {req[r].rid}, req'[r].admitted = "key",
             req'[r].age = life[req[r].rid]
      PROVE  KeyInv'
  <2>1. life \in [RequestId -> Nat]
    BY DEF FlowInv, TypeOK
  <2>2. WinnersHoldKeys'
    BY <1>1, <1>3, <2>1 DEF KeyInv, WinnersHoldKeys, OthersStay
  <2>3. ASSUME NEW x \in Request \ {r}, req[x].admitted = "key", req[x].rid = req[r].rid
        PROVE  req[x].age # life[req[r].rid]
    BY <1>3, <2>3 DEF KeyInv, WinnersHoldKeys
  <2>4. OneWinnerPerKey'
    BY <1>1, <1>3, <2>3 DEF KeyInv, OneWinnerPerKey, OthersStay
  <2> QED  BY <2>2, <2>4 DEF KeyInv
<1> QED  BY <1>2, <1>3, TryAcquireLocals

\* When a key expires its winners belong to a life that is over.
LEMMA ExpiryKeepsKeys ==
    ASSUME FlowInv, KeyInv, NEW i \in RequestId, ExpireKey(i)
    PROVE  KeyInv'
<1>1. /\ life \in [RequestId -> Nat] /\ \A x \in Request : req[x].age \in Nat
  BY DEF FlowInv, TypeOK, RequestState
<1>2. /\ req' = req /\ idem' = idem \ {i}
      /\ life' = [life EXCEPT ![i] = life[i] + 1]
  BY DEF ExpireKey
<1>3. WinnersHoldKeys'
  <2> SUFFICES ASSUME NEW x \in Request, req[x].admitted = "key"
               PROVE  /\ req[x].rid \in RequestId
                      /\ req[x].age <= life'[req[x].rid]
                      /\ req[x].age = life'[req[x].rid] => req[x].rid \in idem'
    BY <1>2 DEF WinnersHoldKeys
  <2>1. /\ req[x].rid \in RequestId /\ req[x].age <= life[req[x].rid]
        /\ req[x].age = life[req[x].rid] => req[x].rid \in idem
    BY DEF KeyInv, WinnersHoldKeys
  <2>2. CASE req[x].rid = i
    <3>1. life'[i] = life[i] + 1
      BY <1>1, <1>2
    <3> QED  BY <1>1, <2>1, <2>2, <3>1
  <2>3. CASE req[x].rid # i
    <3>1. life'[req[x].rid] = life[req[x].rid]
      BY <1>1, <1>2, <2>1, <2>3
    <3> QED  BY <1>2, <2>1, <2>3, <3>1
  <2> QED  BY <2>2, <2>3
<1> QED  BY <1>2, <1>3 DEF KeyInv, OneWinnerPerKey

\* Every step keeps the winners of a key apart.
LEMMA KeyStep == FlowInv /\ KeyInv /\ [Next]_vars => KeyInv'
<1> SUFFICES ASSUME FlowInv, KeyInv, [Next]_vars PROVE KeyInv'
  OBVIOUS
<1>1. ASSUME NEW r \in Request, TryAcquire(r) PROVE KeyInv'
  BY <1>1, AcquireKeepsKeys
<1>2. ASSUME NEW r \in Request, Arrive(r) \/ (Step(r) /\ ~ TryAcquire(r)) \/ HangUp(r)
      PROVE  KeyInv'
  BY <1>2, StepsKeepKeys, KeysStay DEF OthersStay, KeyStays
<1>3. CASE \E i \in RequestId : ExpireKey(i)
  BY <1>3, ExpiryKeepsKeys
<1>4. CASE Restart
  BY <1>4, RestartLocals, KeysStay DEF Restart, InputStays
<1>5. CASE UNCHANGED vars \/ \E s \in Session : ExpireThread(s)
  BY <1>5, KeysStay DEF vars, ExpireThread, KeyStays
<1> QED  BY <1>1, <1>2, <1>3, <1>4, <1>5 DEF Next, Finished

\* Of the requests that carry one id, one passes per life of the key, whether its reply
\* arrived, its coroutine died or its turn failed: the SET NX of try_acquire.
THEOREM OneWinner == Spec => []OneWinnerPerKey
<1>1. Init => KeyInv
  BY DEF Init, Idle, KeyInv, WinnersHoldKeys, OneWinnerPerKey
<1>2. FlowInv /\ KeyInv /\ [Next]_vars => KeyInv'
  BY KeyStep
<1>3. KeyInv => OneWinnerPerKey
  BY DEF KeyInv
<1> QED  BY <1>1, <1>2, <1>3, FlowAlways, PTL DEF Spec

-----------------------------------------------------------------------------
(* Rows of CHAT_HISTORY.                                                   *)

\* A request with a row is a member's turn that is saved, and was saved once.
RowsInv ==
    \A r \in Request : rows[r] > 0 =>
        /\ rows[r] = 1 /\ req[r].kind = "turn" /\ req[r].member # None
        /\ req[r].pc \in {"touch", "lost", "done"}
        /\ req[r].pc = "done" => req[r].status = "ok"

\* A request that is elsewhere has no row, and its step gives it none.
LEMMA RowlessSteps ==
    ASSUME FlowInv, RowsInv, NEW r \in Request,
           req[r].pc \notin {"touch", "lost", "done"}, OthersStay(r), rows' = rows
    PROVE  RowsInv'
BY DEF RowsInv, OthersStay

\* Every step keeps the rows those of saved turns.
LEMMA RowsStep == FlowInv /\ RowsInv /\ [Next]_vars => RowsInv'
<1> SUFFICES ASSUME FlowInv, RowsInv, [Next]_vars PROVE RowsInv'
  OBVIOUS
<1> USE ChatTurnAssumption
<1>0. /\ TypeOK /\ \A x \in Request : FlowOK(req[x]) /\ req[x] \in RequestState
      /\ rows \in [Request -> Nat]
  BY DEF FlowInv, TypeOK
<1>1. ASSUME NEW r \in Request, TryAcquire(r) PROVE RowsInv'
  <2>1. OthersStay(r) /\ rows' = rows /\ req[r].pc = "acquire"
    BY <1>1, TryAcquireLocals DEF TryAcquire, At
  <2> QED  BY <2>1, RowlessSteps
<1>2. ASSUME NEW r \in Request,
             Arrive(r) \/ (Step(r) /\ ~ TryAcquire(r) /\ ~ SaveHistory(r) /\ ~ TouchSession(r))
      PROVE  RowsInv'
  <2>1. OthersStay(r)
    BY <1>2, StepsKeepKeys
  <2>2. rows' = rows /\ req[r].pc \notin {"touch", "lost", "done"}
    BY <1>2 DEF Arrive, Step, ResolveToken, CheckOwner, CreateSession, OracleError, ResolveHistory,
                LoadThread, RunNodes, AppendMessage, GraphError, DropRow, DropThread, At
  <2> QED  BY <2>1, <2>2, RowlessSteps
<1>3. ASSUME NEW r \in Request, SaveHistory(r) PROVE RowsInv'
  <2>1. req[r].pc = "save" /\ Goto(r, "touch") /\ rows' \in {[rows EXCEPT ![r] = @ + 1], rows}
    BY <1>3 DEF SaveHistory, At
  <2>2. req[r].kind = "turn" /\ req[r].member # None /\ rows[r] = 0
    BY <1>0, <2>1 DEF FlowOK, RowsInv
  <2>3. /\ OthersStay(r) /\ req'[r].pc = "touch"
        /\ req'[r].kind = "turn" /\ req'[r].member # None
    BY <1>0, <2>1, <2>2, GotoLocals DEF LocalsStay, InputStays
  <2>4. rows'[r] \in {0, 1} /\ \A x \in Request \ {r} : rows'[x] = rows[x]
    BY <1>0, <2>1, <2>2
  <2> QED  BY <2>3, <2>4 DEF RowsInv, OthersStay
<1>4. ASSUME NEW r \in Request, TouchSession(r) PROVE RowsInv'
  <2>1. /\ OthersStay(r) /\ InputStays(r) /\ rows' = rows
        /\ req'[r].pc = "done" /\ req'[r].status = "ok"
    BY <1>0, <1>4, RespondLocals DEF TouchSession, LocalsStay
  <2> QED  BY <2>1 DEF RowsInv, OthersStay, InputStays
<1>5. ASSUME NEW r \in Request, HangUp(r) PROVE RowsInv'
  <2>1. OthersStay(r) /\ InputStays(r) /\ rows' = rows /\ req'[r].pc = "lost"
    BY <1>0, <1>5, GotoLocals DEF HangUp, LocalsStay
  <2> QED  BY <2>1 DEF RowsInv, OthersStay, InputStays
<1>6. CASE Restart
  <2>1. rows' = rows
    BY <1>6 DEF Restart
  <2> QED  BY <1>6, <2>1, RestartLocals DEF RowsInv, InputStays
<1>7. CASE \/ \E i \in RequestId : ExpireKey(i)
           \/ \E s \in Session : ExpireThread(s)
           \/ UNCHANGED vars
  BY <1>7 DEF ExpireKey, ExpireThread, vars, RowsInv
<1> QED  BY <1>1, <1>2, <1>3, <1>4, <1>5, <1>6, <1>7 DEF Next, Step, Finished

\* CHAT_HISTORY tells the truth: one row at most per request, and only of a member's turn
\* that was answered, is about to be, or was cut off on its way out.
THEOREM RowsAreAnswered == Spec => []RowsOfAnsweredTurns
<1>1. Init => RowsInv
  BY DEF Init, RowsInv
<1>2. FlowInv /\ RowsInv /\ [Next]_vars => RowsInv'
  BY RowsStep
<1>3. RowsInv => RowsOfAnsweredTurns
  BY DEF RowsInv, RowsOfAnsweredTurns
<1> QED  BY <1>1, <1>2, <1>3, FlowAlways, PTL DEF Spec

-----------------------------------------------------------------------------
(* Sources.                                                                *)

\* rag_hits of a run are those of its own search.
HitsAreFresh == \A r \in Request : req[r].hits \subseteq {r} /\ req[r].sources \subseteq {r}

\* Hits and sources of a request come from its own search.
LEMMA StepsKeepHitsFresh ==
    ASSUME FlowInv, HitsAreFresh, NEW r \in Request, Arrive(r) \/ Step(r) \/ HangUp(r)
    PROVE  HitsAreFresh'
<1>0. TypeOK /\ req[r] \in RequestState
  BY DEF FlowInv, TypeOK
<1>1. ASSUME OthersStay(r), req'[r].hits \in {req[r].hits, {}, {r}},
             req'[r].sources \in {req[r].sources, {}, ResponseSources(req[r].intent, req[r].hits)}
      PROVE  HitsAreFresh'
  <2>1. ResponseSources(req[r].intent, req[r].hits) \subseteq req[r].hits
    BY DEF ResponseSources
  <2> QED  BY <1>1, <2>1 DEF HitsAreFresh, OthersStay
<1>2. CASE Arrive(r) \/ TryAcquire(r)
  BY <1>1, <1>2, ArriveLocals, TryAcquireLocals DEF FindsStay
<1>3. CASE ResolveToken(r) \/ CheckOwner(r) \/ OracleError(r) \/ GraphError(r)
  BY <1>0, <1>1, <1>3, GotoLocals, FinishLocals
     DEF ResolveToken, CheckOwner, OracleError, GraphError, LocalsStay, FindsStay
<1>4. CASE AppendMessage(r) \/ TouchSession(r)
  BY <1>0, <1>1, <1>4, GotoLocals, RespondLocals
     DEF AppendMessage, TouchSession, LocalsStay, FindsStay
<1>5. CASE SaveHistory(r) \/ DropRow(r) \/ DropThread(r) \/ HangUp(r)
  BY <1>0, <1>1, <1>5, GotoLocals, FinishLocals
     DEF SaveHistory, DropRow, DropThread, HangUp, LocalsStay, FindsStay
<1>6. CASE CreateSession(r) \/ ResolveHistory(r)
  BY <1>1, <1>6, CreateLocals, HistoryLocals DEF FindsStay
<1>7. CASE LoadThread(r) \/ RunNodes(r)
  BY <1>1, <1>7, LoadLocals, NodesLocals
<1> QED  BY <1>2, <1>3, <1>4, <1>5, <1>6, <1>7 DEF Step

\* The cards of an answer are its own turn's, whatever rag_hits the thread restored.
THEOREM SourcesAreOwn == Spec => []SourcesAreFresh
<1>1. Init => HitsAreFresh
  BY DEF Init, Idle, HitsAreFresh
<1>2. FlowInv /\ HitsAreFresh /\ [Next]_vars => HitsAreFresh'
  <2> SUFFICES ASSUME FlowInv, HitsAreFresh, [Next]_vars PROVE HitsAreFresh'
    OBVIOUS
  <2>1. ASSUME NEW r \in Request, Arrive(r) \/ Step(r) \/ HangUp(r) PROVE HitsAreFresh'
    BY <2>1, StepsKeepHitsFresh
  <2>2. CASE Restart
    BY <2>2, RestartLocals DEF HitsAreFresh, FindsStay
  <2>3. CASE \/ \E i \in RequestId : ExpireKey(i)
             \/ \E s \in Session : ExpireThread(s)
             \/ UNCHANGED vars
    BY <2>3 DEF ExpireKey, ExpireThread, vars, HitsAreFresh
  <2> QED  BY <2>1, <2>2, <2>3 DEF Next, Finished
<1>3. HitsAreFresh => SourcesAreFresh
  BY DEF HitsAreFresh, SourcesAreFresh
<1> QED  BY <1>1, <1>2, <1>3, FlowAlways, PTL DEF Spec
-----------------------------------------------------------------------------
(* Deleted sessions.                                                       *)

BeforeAccess == {"acquire", "resolve", "owner", "done", "lost"}

\* A step of one request that leaves the row of s deleted and takes nobody past the
\* owner check of s.
LEMMA StaysOut ==
    ASSUME NEW s \in Session, OutOfReach(s), NEW r \in Request, OthersStay(r),
           owner'[s] = owner[s], s \notin live',
           req'[r].session = s => req'[r].pc \in BeforeAccess
    PROVE  OutOfReach(s)'
BY DEF OutOfReach, OthersStay, BeforeAccess

\* Who names a deleted session has not passed its owner check and is turned away.
LEMMA VisitorsStayOut ==
    ASSUME FlowInv, NEW s \in Session, OutOfReach(s), NEW r \in Request,
           req[r].session = s, Step(r) \/ HangUp(r)
    PROVE  OutOfReach(s)' /\ thread'[s] = thread[s]
<1> USE ChatTurnAssumption
<1>0. /\ TypeOK /\ FlowOK(req[r]) /\ s # None /\ s \notin live /\ owner[s] # None
      /\ req[r].pc \in BeforeAccess
  BY DEF FlowInv, OutOfReach, BeforeAccess
<1>1. ASSUME OthersStay(r), InputStays(r), req'[r].pc \in BeforeAccess, UNCHANGED <<Tables, thread>>
      PROVE  OutOfReach(s)' /\ thread'[s] = thread[s]
  BY <1>0, <1>1, StaysOut DEF Tables, InputStays
<1>2. CASE TryAcquire(r)
  <2>1. req'[r].pc \in BeforeAccess
    BY <1>0, <1>2, TryAcquireLocals DEF BeforeAccess
  <2> QED  BY <1>1, <1>2, <2>1, TryAcquireLocals DEF TryAcquire
<1>3. CASE ResolveToken(r)
  <2>1. AfterResolve(r) = "owner"
    BY <1>0 DEF AfterResolve
  <2> QED  BY <1>0, <1>1, <1>3, <2>1, GotoLocals, FinishLocals
           DEF ResolveToken, LocalsStay, BeforeAccess
<1>4. CASE CheckOwner(r)
  <2>1. req[r].member \in Member
    BY <1>0, <1>4 DEF CheckOwner, At, FlowOK
  <2>2. ~ OwnsSession(r)
    BY <1>0, <2>1 DEF OwnsSession, SessionOwner
  <2> QED  BY <1>0, <1>1, <1>4, <2>2, FinishLocals DEF CheckOwner, LocalsStay, BeforeAccess
<1>5. CASE OracleError(r)
  BY <1>0, <1>1, <1>5, FinishLocals DEF OracleError, LocalsStay, BeforeAccess
<1>6. CASE HangUp(r)
  BY <1>0, <1>1, <1>6, GotoLocals DEF HangUp, LocalsStay, BeforeAccess
<1>7. ~ CreateSession(r)
  BY <1>0 DEF CreateSession, At, FlowOK
<1>8. ~ (\/ ResolveHistory(r) \/ LoadThread(r) \/ RunNodes(r) \/ AppendMessage(r)
         \/ GraphError(r) \/ SaveHistory(r) \/ TouchSession(r) \/ DropRow(r) \/ DropThread(r))
  BY <1>0 DEF ResolveHistory, LoadThread, RunNodes, AppendMessage, GraphError, SaveHistory,
              TouchSession, DropRow, DropThread, At, BeforeAccess
<1> QED  BY <1>2, <1>3, <1>4, <1>5, <1>6, <1>7, <1>8 DEF Step

\* Who is at another session, or at none, leaves a deleted one alone: a new session
\* takes a UUID that never had a row.
LEMMA OthersStayOut ==
    ASSUME FlowInv, NEW s \in Session, OutOfReach(s), NEW r \in Request,
           req[r].session # s, Step(r) \/ HangUp(r)
    PROVE  OutOfReach(s)' /\ thread'[s] = thread[s]
<1> USE ChatTurnAssumption
<1>0. /\ TypeOK /\ FlowOK(req[r]) /\ s # None /\ s \notin live /\ owner[s] # None
      /\ req[r] \in RequestState /\ thread \in [Session -> Checkpoint]
      /\ owner \in [Session -> Member \cup {None}]
  BY DEF FlowInv, OutOfReach, TypeOK
<1>1. ASSUME OthersStay(r), req'[r].session # s, owner'[s] = owner[s], s \notin live'
      PROVE  OutOfReach(s)'
  BY <1>1, StaysOut
<1>2. ASSUME NEW turns, NEW hits, WriteCheckpoint(r, turns, hits)
      PROVE  thread'[s] = thread[s]
  BY <1>0, <1>2 DEF WriteCheckpoint
<1>3. CASE TryAcquire(r)
  BY <1>0, <1>1, <1>3, TryAcquireLocals DEF TryAcquire, InputStays, Tables
<1>4. CASE ResolveToken(r) \/ CheckOwner(r) \/ OracleError(r) \/ HangUp(r) \/ SaveHistory(r)
  BY <1>0, <1>1, <1>4, GotoLocals, FinishLocals
     DEF ResolveToken, CheckOwner, OracleError, HangUp, SaveHistory, LocalsStay, InputStays, Tables
<1>5. CASE CreateSession(r)
  <2>1. /\ req'[r].session # s /\ live' = live \cup {req'[r].session}
        /\ owner' = [owner EXCEPT ![req'[r].session] = req[r].member]
    BY <1>0, <1>5, CreateLocals
  <2>2. owner'[s] = owner[s] /\ s \notin live'
    BY <1>0, <2>1
  <2> QED  BY <1>1, <1>5, <2>1, <2>2, CreateLocals DEF CreateSession
<1>6. CASE ResolveHistory(r) \/ LoadThread(r)
  <2>1. CASE ResolveHistory(r)
    BY <1>0, <1>1, <2>1, HistoryLocals DEF ResolveHistory, InputStays, Tables
  <2>2. CASE LoadThread(r)
    BY <1>0, <1>1, <2>2, LoadLocals DEF LoadThread, InputStays, Tables
  <2> QED  BY <1>6, <2>1, <2>2
<1>7. CASE RunNodes(r)
  BY <1>0, <1>1, <1>2, <1>7, NodesLocals DEF RunNodes, InputStays, Tables
<1>8. CASE AppendMessage(r)
  BY <1>0, <1>1, <1>2, <1>8, GotoLocals, RespondLocals DEF AppendMessage, LocalsStay, InputStays, Tables
<1>9. CASE GraphError(r)
  BY <1>0, <1>1, <1>2, <1>9, FinishLocals DEF GraphError, LocalsStay, InputStays, Tables
<1>10. CASE TouchSession(r)
  BY <1>0, <1>1, <1>10, RespondLocals DEF TouchSession, LocalsStay, InputStays
<1>11. CASE DropRow(r)
  BY <1>0, <1>1, <1>11, GotoLocals DEF DropRow, LocalsStay, InputStays
<1>12. CASE DropThread(r)
  BY <1>0, <1>1, <1>12, FinishLocals DEF DropThread, LocalsStay, InputStays, Tables
<1> QED  BY <1>3, <1>4, <1>5, <1>6, <1>7, <1>8, <1>9, <1>10, <1>11, <1>12 DEF Step

\* A deleted session out of reach is never read, written or revived: owner checks fail,
\* UUIDs are not drawn twice, and only expiry and restarts touch its thread.
THEOREM DeletedIsGone == Spec => DeletedStaysOutOfReach
<1>1. FlowInv /\ [Next]_vars =>
        [\A s \in Session : OutOfReach(s) =>
            OutOfReach(s)' /\ thread'[s] \in {thread[s], EmptyCheckpoint}]_vars
  <2> SUFFICES ASSUME FlowInv, Next, NEW s \in Session, OutOfReach(s)
               PROVE  OutOfReach(s)' /\ thread'[s] \in {thread[s], EmptyCheckpoint}
    BY DEF vars
  <2>0. TypeOK
    BY DEF FlowInv
  <2>1. ASSUME NEW r \in Request, Arrive(r)
        PROVE  OutOfReach(s)' /\ thread'[s] = thread[s]
    <3>1. req'[r].pc \in BeforeAccess /\ OthersStay(r)
      BY <2>1, ArriveLocals DEF BeforeAccess
    <3> QED  BY <2>1, <3>1, StaysOut DEF Arrive, Tables, OutOfReach
  <2>2. ASSUME NEW r \in Request, Step(r) \/ HangUp(r)
        PROVE  OutOfReach(s)' /\ thread'[s] = thread[s]
    BY <2>2, VisitorsStayOut, OthersStayOut
  <2>3. CASE \E i \in RequestId : ExpireKey(i)
    BY <2>3 DEF ExpireKey, Tables, OutOfReach
  <2>4. CASE \E x \in Session : ExpireThread(x)
    <3>1. thread'[s] \in {thread[s], EmptyCheckpoint}
      BY <2>0, <2>4 DEF ExpireThread, TypeOK
    <3> QED  BY <2>4, <3>1 DEF ExpireThread, Tables, OutOfReach
  <2>5. CASE Restart
    <3>1. thread'[s] \in {thread[s], EmptyCheckpoint}
      BY <2>0, <2>5 DEF Restart, TypeOK
    <3>2. UNCHANGED Tables
      BY <2>5 DEF Restart
    <3>3. ASSUME NEW r \in Request, req'[r].session = s
          PROVE  req'[r].pc \in BeforeAccess
      <4>1. req[r].session = s
        BY <2>5, <3>3, RestartLocals DEF InputStays
      <4>2. req[r].pc \in BeforeAccess
        BY <4>1 DEF OutOfReach, BeforeAccess
      <4> QED  BY <2>5, <4>2, RestartLocals DEF BeforeAccess
    <3> QED  BY <3>1, <3>2, <3>3 DEF OutOfReach, Tables, BeforeAccess
  <2>6. CASE Finished
    BY <2>6 DEF Finished, vars, OutOfReach
  <2> QED  BY <2>1, <2>2, <2>3, <2>4, <2>5, <2>6 DEF Next
<1> QED  BY <1>1, FlowAlways, PTL DEF Spec, DeletedStaysOutOfReach
-----------------------------------------------------------------------------
(* Shown and stored sources.                                               *)

Recorders == {"save", "touch", "done", "lost"}

\* A stored turn carries the sources its request has, or will have, shown.
RecordOf(t, q) ==
    /\ q.pc \in Recorders
    /\ t.sources = StoredSources(q.intent, q.hits)
    /\ q.pc = "done" => q.sources = t.sources

AllRecorded(turns, rq) == \A j \in DOMAIN turns : RecordOf(turns[j], rq[turns[j].by])

CardsInv ==
    /\ \A s \in Session : AllRecorded(thread[s].turns, req)
    /\ \A r \in Request : AllRecorded(req[r].base, req)

\* Nothing is stored in an empty thread.
LEMMA NothingRecorded == ASSUME NEW rq PROVE AllRecorded(<<>>, rq)
BY EmptySeq DEF AllRecorded

\* What a thread holds at a place is a turn.
LEMMA TurnsOf == ASSUME NEW turns \in Seq(Turn), NEW j \in DOMAIN turns PROVE turns[j] \in Turn
<1>1. Len(turns) \in Nat /\ DOMAIN turns = 1..Len(turns)
  OBVIOUS
<1> QED  BY <1>1

\* The turn of a request behind the turns it loaded.
LEMMA RecordAppended ==
    ASSUME NEW turns \in Seq(Turn), NEW t \in Turn, NEW rq,
           AllRecorded(turns, rq), RecordOf(t, rq[t.by])
    PROVE  AllRecorded(Append(turns, t), rq)
<1>1. /\ Len(turns) \in Nat /\ DOMAIN turns = 1..Len(turns)
      /\ DOMAIN Append(turns, t) = 1..(Len(turns) + 1)
      /\ \A j \in 1..Len(turns) : Append(turns, t)[j] = turns[j]
      /\ Append(turns, t)[Len(turns) + 1] = t
  OBVIOUS
<1> SUFFICES ASSUME NEW j \in 1..(Len(turns) + 1)
             PROVE  RecordOf(Append(turns, t)[j], rq[Append(turns, t)[j].by])
  BY <1>1 DEF AllRecorded
<1>2. CASE j \in 1..Len(turns)
  BY <1>1, <1>2 DEF AllRecorded
<1>3. CASE j = Len(turns) + 1
  BY <1>1, <1>3
<1> QED  BY <1>1, <1>2, <1>3

\* Behind append_message_node a request only saves, touches and answers with the cards it
\* has stored, or is cut off.
LEMMA StepsKeepRecords ==
    ASSUME FlowInv, NEW r \in Request, Arrive(r) \/ Step(r) \/ HangUp(r),
           NEW x \in Request, NEW t, RecordOf(t, req[x])
    PROVE  RecordOf(t, req'[x])
<1>0. TypeOK /\ req[r] \in RequestState
  BY DEF FlowInv, TypeOK
<1>1. OthersStay(r)
  BY StepsKeepKeys, TryAcquireLocals DEF Step
<1>2. CASE x # r
  BY <1>1, <1>2 DEF OthersStay
<1>3. CASE x = r
  <2>1. req[r].pc \in Recorders
    BY <1>3 DEF RecordOf
  <2>2. SaveHistory(r) \/ TouchSession(r) \/ HangUp(r)
    BY <2>1 DEF Recorders, Step, Arrive, TryAcquire, ResolveToken, CheckOwner, CreateSession, OracleError,
                ResolveHistory, LoadThread, RunNodes, AppendMessage, GraphError, DropRow, DropThread, At
  <2>3. CASE SaveHistory(r) \/ HangUp(r)
    BY <1>0, <1>3, <2>3, GotoLocals
       DEF SaveHistory, HangUp, LocalsStay, FindsStay, RecordOf, Recorders
  <2>4. CASE TouchSession(r)
    BY <1>0, <1>3, <2>4, RespondLocals
       DEF TouchSession, LocalsStay, FindsStay, RecordOf, Recorders, StoredSources, ResponseSources
  <2> QED  BY <2>2, <2>3, <2>4
<1> QED  BY <1>2, <1>3

\* A checkpoint whose turns are all recorded.
LEMMA WriteRecorded ==
    ASSUME TypeOK, NEW r \in Request, NEW turns, NEW hits, NEW rq, WriteCheckpoint(r, turns, hits),
           req[r].session # None => AllRecorded(turns, rq),
           NEW s \in Session, AllRecorded(thread[s].turns, rq)
    PROVE  AllRecorded(thread'[s].turns, rq)
<1>1. thread \in [Session -> Checkpoint]
  BY DEF TypeOK
<1>2. thread'[s] = thread[s] \/ (req[r].session # None /\ thread'[s].turns = turns)
  BY <1>1 DEF WriteCheckpoint
<1> QED  BY <1>2

\* A step of a request stores, and loads, only recorded turns.
LEMMA StepsKeepCards ==
    ASSUME FlowInv, CardsInv, NEW r \in Request, Arrive(r) \/ Step(r) \/ HangUp(r)
    PROVE  CardsInv'
<1> USE ChatTurnAssumption
<1>0. /\ TypeOK /\ FlowOK(req[r]) /\ req[r] \in RequestState
      /\ thread \in [Session -> Checkpoint]
      /\ \A s \in Session : thread[s].turns \in Seq(Turn)
      /\ \A x \in Request : req[x].base \in Seq(Turn)
  BY DEF FlowInv, TypeOK, RequestState, Checkpoint
<1>1. ASSUME NEW turns \in Seq(Turn), AllRecorded(turns, req)
      PROVE  AllRecorded(turns, req')
  <2> SUFFICES ASSUME NEW j \in DOMAIN turns PROVE RecordOf(turns[j], req'[turns[j].by])
    BY DEF AllRecorded
  <2>1. turns[j] \in Turn
    BY TurnsOf
  <2>2. turns[j].by \in Request
    BY <2>1 DEF Turn
  <2> QED  BY <1>1, <2>2, StepsKeepRecords DEF AllRecorded
<1>2. /\ \A s \in Session : AllRecorded(thread[s].turns, req')
      /\ \A x \in Request : AllRecorded(req[x].base, req')
  BY <1>0, <1>1 DEF CardsInv
<1>3. AllRecorded(<<>>, req')
  BY NothingRecorded
<1>4. OthersStay(r)
  BY StepsKeepKeys, TryAcquireLocals DEF Step
<1>5. \A x \in Request : AllRecorded(req'[x].base, req')
  <2>1. CASE LoadThread(r)
    <3>1. /\ req'[r].base = IF req[r].session = None THEN <<>> ELSE thread[req[r].session].turns
          /\ req[r].session # None => req[r].session \in Session
      BY <1>0, <2>1, LoadLocals DEF RequestState
    <3>2. AllRecorded(req'[r].base, req')
      BY <1>2, <1>3, <3>1
    <3> QED  BY <1>2, <1>4, <3>2 DEF OthersStay
  <2>2. CASE ~ LoadThread(r)
    <3>1. req'[r].base = req[r].base
      <4>1. CASE Arrive(r) \/ TryAcquire(r)
        BY <4>1, ArriveLocals, TryAcquireLocals DEF ReadsStay, Idle
      <4>2. CASE ResolveToken(r) \/ CheckOwner(r) \/ OracleError(r) \/ GraphError(r)
        BY <1>0, <4>2, GotoLocals, FinishLocals
           DEF ResolveToken, CheckOwner, OracleError, GraphError, LocalsStay, ReadsStay
      <4>3. CASE AppendMessage(r) \/ TouchSession(r)
        BY <1>0, <4>3, GotoLocals, RespondLocals DEF AppendMessage, TouchSession, LocalsStay, ReadsStay
      <4>4. CASE SaveHistory(r) \/ DropRow(r) \/ DropThread(r) \/ HangUp(r)
        BY <1>0, <4>4, GotoLocals, FinishLocals
           DEF SaveHistory, DropRow, DropThread, HangUp, LocalsStay, ReadsStay
      <4>5. CASE CreateSession(r) \/ ResolveHistory(r) \/ RunNodes(r)
        BY <4>5, CreateLocals, HistoryLocals, NodesLocals DEF ReadsStay
      <4> QED  BY <2>2, <4>1, <4>2, <4>3, <4>4, <4>5 DEF Step
    <3> QED  BY <1>2, <1>4, <3>1 DEF OthersStay
  <2> QED  BY <2>1, <2>2
<1>6. \A s \in Session : AllRecorded(thread'[s].turns, req')
  <2> SUFFICES ASSUME NEW s \in Session PROVE AllRecorded(thread'[s].turns, req')
    OBVIOUS
  <2>1. CASE thread' = thread
    BY <1>2, <2>1
  <2>2. CASE RunNodes(r)
    <3>1. WriteCheckpoint(r, req[r].base, req'[r].hits)
      BY <2>2, NodesLocals
    <3> QED  BY <1>0, <1>2, <3>1, WriteRecorded
  <2>3. CASE GraphError(r)
    <3>1. CASE WriteCheckpoint(r, req[r].base, req[r].hits)
      BY <1>0, <1>2, <3>1, WriteRecorded
    <3> QED  BY <2>1, <2>3, <3>1 DEF GraphError
  <2>4. CASE AppendMessage(r)
    <3> DEFINE t == [by |-> r, sources |-> StoredSources(req[r].intent, req[r].hits)]
    <3>1. t \in Turn /\ t.by = r /\ t.sources = StoredSources(req[r].intent, req[r].hits)
      BY <1>0 DEF RequestState, Turn, StoredSources, Hits
    <3>2. ASSUME req[r].session # None PROVE AllRecorded(TurnsAfter(r), req')
      <4>1. req[r].member # None
        BY <1>0, <2>4, <3>2 DEF AppendMessage, At, FlowOK
      <4>2. Goto(r, "save")
        BY <2>4, <4>1 DEF AppendMessage, Saves
      <4>3. RecordOf(t, req'[r])
        BY <1>0, <3>1, <4>2, GotoLocals DEF LocalsStay, FindsStay, RecordOf, Recorders
      <4> HIDE DEF t
      <4>4. AllRecorded(Append(req[r].base, t), req')
        BY <1>0, <1>2, <3>1, <4>3, RecordAppended
      <4> QED  BY <4>4 DEF TurnsAfter, t
    <3> QED  BY <1>0, <1>2, <2>4, <3>2, WriteRecorded DEF AppendMessage
  <2>5. CASE DropThread(r)
    <3>1. thread'[s] = thread[s] \/ thread'[s].turns = <<>>
      BY <1>0, <2>5 DEF DropThread, EmptyCheckpoint
    <3> QED  BY <1>2, <1>3, <3>1
  <2>6. \/ thread' = thread \/ RunNodes(r) \/ GraphError(r) \/ AppendMessage(r) \/ DropThread(r)
    BY DEF Step, Arrive, HangUp, TryAcquire, ResolveToken, CheckOwner, CreateSession, OracleError,
           ResolveHistory, LoadThread, SaveHistory, TouchSession, DropRow
  <2> QED  BY <2>1, <2>2, <2>3, <2>4, <2>5, <2>6
<1> QED  BY <1>5, <1>6 DEF CardsInv

\* Expiries and restarts empty threads and cut requests off.
LEMMA HostKeepsCards ==
    ASSUME FlowInv, CardsInv,
           \/ \E i \in RequestId : ExpireKey(i)
           \/ \E s \in Session : ExpireThread(s)
           \/ Restart
    PROVE  CardsInv'
<1>0. /\ thread \in [Session -> Checkpoint]
      /\ \A s \in Session : thread[s].turns \in Seq(Turn)
      /\ \A x \in Request : req[x].base \in Seq(Turn)
  BY DEF FlowInv, TypeOK, RequestState, Checkpoint
<1>1. ASSUME NEW x \in Request, NEW t, RecordOf(t, req[x])
      PROVE  RecordOf(t, req'[x])
  <2>1. CASE Restart
    BY <1>1, <2>1, RestartLocals DEF RecordOf, Recorders, FindsStay
  <2>2. CASE req' = req
    BY <1>1, <2>2
  <2> QED  BY <2>1, <2>2 DEF ExpireKey, ExpireThread
<1>2. ASSUME NEW turns \in Seq(Turn), AllRecorded(turns, req)
      PROVE  AllRecorded(turns, req')
  <2> SUFFICES ASSUME NEW j \in DOMAIN turns PROVE RecordOf(turns[j], req'[turns[j].by])
    BY DEF AllRecorded
  <2>1. turns[j] \in Turn
    BY TurnsOf
  <2>2. turns[j].by \in Request
    BY <2>1 DEF Turn
  <2> QED  BY <1>1, <1>2, <2>2 DEF AllRecorded
<1>3. AllRecorded(<<>>, req')
  BY NothingRecorded
<1>4. \A s \in Session : thread'[s] = thread[s] \/ thread'[s].turns = <<>>
  BY <1>0 DEF ExpireKey, ExpireThread, Restart, EmptyCheckpoint
<1>5. \A x \in Request : req'[x].base = req[x].base
  <2>1. CASE Restart
    BY <2>1, RestartLocals DEF ReadsStay
  <2>2. CASE req' = req
    BY <2>2
  <2> QED  BY <2>1, <2>2 DEF ExpireKey, ExpireThread
<1> QED  BY <1>0, <1>2, <1>3, <1>4, <1>5 DEF CardsInv

\* So does every step.
LEMMA CardsStep == FlowInv /\ CardsInv /\ [Next]_vars => CardsInv'
<1>1. CASE UNCHANGED vars
  BY <1>1 DEF vars, CardsInv
<1>2. CASE FlowInv /\ CardsInv /\ Next
  BY <1>1, <1>2, StepsKeepCards, HostKeepsCards DEF Next, Finished
<1> QED  BY <1>1, <1>2

\* Nothing is stored at first.
LEMMA CardsInit == Init => CardsInv
<1> SUFFICES ASSUME Init PROVE CardsInv
  OBVIOUS
<1>1. /\ \A s \in Session : thread[s].turns = <<>>
      /\ \A r \in Request : req[r].base = <<>>
  BY DEF Init, EmptyCheckpoint, Idle
<1> QED  BY <1>1, NothingRecorded DEF CardsInv

\* The cards a client was shown with an answer are the cards the restored conversation
\* shows: append_message_node and routers/chat.py apply one condition to one rag_hits.
THEOREM CardsAgree == Spec => []SourcesAgree
<1>1. FlowInv /\ CardsInv => SourcesAgree
  <2> SUFFICES ASSUME FlowInv, CardsInv, NEW s \in Session, NEW j \in DOMAIN thread[s].turns,
                      req[thread[s].turns[j].by].status = "ok"
               PROVE  req[thread[s].turns[j].by].sources = thread[s].turns[j].sources
    BY DEF SourcesAgree
  <2>0. thread[s].turns \in Seq(Turn)
    BY DEF FlowInv, TypeOK, Checkpoint
  <2>1. thread[s].turns[j].by \in Request
    BY <2>0, TurnsOf DEF Turn
  <2>2. req[thread[s].turns[j].by].pc = "done"
    BY <2>1 DEF FlowInv, FlowOK
  <2> QED  BY <2>2 DEF CardsInv, AllRecorded, RecordOf
<1> QED  BY <1>1, CardsInit, CardsStep, FlowAlways, PTL DEF Spec

-----------------------------------------------------------------------------
(* A client that waits: the section speaks of SerialSpec.                  *)

\* The history q was given, when the thread held these turns.
HistoryOf(q, turns) ==
    /\ q.from = "memory" => turns # <<>> /\ q.seen = TrimHistory(turns)
    /\ q.from = "client" => turns = <<>>

\* The history of a turn was made of the conversation the turn adds to.
HistoryRead ==
    \A r \in Request : req[r].session \in Waiting =>
        /\ req[r].pc = "load" => HistoryOf(req[r], thread[req[r].session].turns)
        /\ req[r].pc \in {"nodes", "append", "save", "touch"} => HistoryOf(req[r], req[r].base)

\* Nobody writes the thread between the load and the last checkpoint of a run.
ThreadIsLoaded ==
    \A r \in Request : (req[r].pc \in {"nodes", "append"} /\ req[r].session \in Waiting) =>
        thread[req[r].session].turns = req[r].base

SerialInv == OneChangeAtATime /\ HistoryRead /\ ThreadIsLoaded

\* A step changes the thread of its own session only, and is then under way in it.
LEMMA WriterIsInFlight ==
    ASSUME FlowInv, NEW r \in Request, Arrive(r) \/ Step(r) \/ HangUp(r),
           NEW s \in Session, thread'[s] # thread[s]
    PROVE  /\ r \in InFlight(s)
           /\ RunNodes(r) \/ AppendMessage(r) \/ GraphError(r) \/ DropThread(r)
<1>0. thread \in [Session -> Checkpoint] /\ FlowOK(req[r])
  BY DEF FlowInv, TypeOK
<1>1. RunNodes(r) \/ AppendMessage(r) \/ GraphError(r) \/ DropThread(r)
  BY DEF Step, Arrive, HangUp, TryAcquire, ResolveToken, CheckOwner, CreateSession, OracleError,
         ResolveHistory, LoadThread, SaveHistory, TouchSession, DropRow
<1>2. req[r].pc \in {"load", "nodes", "append", "drop_thread"}
  BY <1>1 DEF RunNodes, AppendMessage, GraphError, DropThread, At
<1>3. req[r].kind \in {"turn", "delete"}
  BY <1>0, <1>2 DEF FlowOK
<1>4. req[r].session = s
  BY <1>0, <1>1 DEF RunNodes, AppendMessage, GraphError, DropThread, WriteCheckpoint
<1> QED  BY <1>1, <1>2, <1>3, <1>4 DEF InFlight

\* A step of a request touches no other request.
LEMMA StepsAreLocal ==
    ASSUME FlowInv, NEW r \in Request, Arrive(r) \/ Step(r) \/ HangUp(r)
    PROVE  OthersStay(r)
BY StepsKeepKeys, TryAcquireLocals DEF Step

\* While one request changes a conversation, no step of another writes its thread.
LEMMA OthersLeaveThread ==
    ASSUME FlowInv, OneChangeAtATime, NEW r \in Request, Arrive(r) \/ Step(r) \/ HangUp(r),
           NEW x \in Request, x # r, req[x].session \in Waiting,
           req[x].pc \in {"load", "nodes", "append"}
    PROVE  req'[x] = req[x] /\ thread'[req[x].session] = thread[req[x].session]
<1>1. req'[x] = req[x]
  BY StepsAreLocal DEF OthersStay
<1>2. req[x].session \in Session /\ x \in InFlight(req[x].session)
  BY SerialClientAssumption DEF FlowInv, TypeOK, RequestState, FlowOK, InFlight
<1> QED  BY <1>1, <1>2, WriterIsInFlight DEF OneChangeAtATime

\* What a step makes of the reads of its own request.
LEMMA OwnReads ==
    ASSUME FlowInv, SerialInv, NEW r \in Request, Arrive(r) \/ Step(r) \/ HangUp(r),
           req'[r].session \in Waiting
    PROVE  /\ req'[r].pc = "load" => HistoryOf(req'[r], thread'[req'[r].session].turns)
           /\ req'[r].pc \in {"nodes", "append", "save", "touch"} => HistoryOf(req'[r], req'[r].base)
           /\ req'[r].pc \in {"nodes", "append"} => thread'[req'[r].session].turns = req'[r].base
<1> USE ChatTurnAssumption
<1>0. /\ TypeOK /\ FlowOK(req[r]) /\ req[r] \in RequestState
      /\ thread \in [Session -> Checkpoint]
  BY DEF FlowInv, TypeOK
<1>1. CASE req'[r].pc \notin {"load", "nodes", "append", "save", "touch"}
  BY <1>1
<1>2. CASE ResolveHistory(r)
  <2>1. /\ req'[r].pc \in {"load", "done"} /\ req'[r].session = req[r].session
        /\ HistoryOf(req'[r], thread[req[r].session].turns)
    BY <1>2, HistoryLocals DEF InputStays, HistoryOf
  <2> QED  BY <1>2, <2>1 DEF ResolveHistory
<1>3. CASE LoadThread(r)
  <2>1. /\ req'[r].pc = "nodes" /\ req'[r].session = req[r].session
        /\ req'[r].seen = req[r].seen /\ req'[r].from = req[r].from
        /\ req'[r].base = IF req[r].session = None THEN <<>> ELSE thread[req[r].session].turns
    BY <1>3, LoadLocals DEF InputStays
  <2>2. HistoryOf(req[r], thread[req[r].session].turns)
    BY <1>3, <2>1 DEF LoadThread, At, SerialInv, HistoryRead
  <2>3. req[r].session # None
    BY <2>1, SerialClientAssumption
  <2> QED  BY <1>3, <2>1, <2>2, <2>3 DEF LoadThread, HistoryOf
<1>4. CASE RunNodes(r)
  <2>1. /\ req'[r].pc = "append" /\ req'[r].session = req[r].session
        /\ req'[r].seen = req[r].seen /\ req'[r].from = req[r].from
        /\ req'[r].base = req[r].base
        /\ WriteCheckpoint(r, req[r].base, req'[r].hits)
    BY <1>4, NodesLocals DEF InputStays, ReadsStay
  <2>2. HistoryOf(req'[r], req'[r].base)
    BY <1>4, <2>1 DEF RunNodes, At, SerialInv, HistoryRead, HistoryOf
  <2>3. req[r].session \in Session
    BY <2>1, SerialClientAssumption
  <2>4. thread'[req[r].session].turns = req[r].base
    BY <1>0, <2>1, <2>3 DEF WriteCheckpoint
  <2> QED  BY <2>1, <2>2, <2>4
<1>5. ASSUME NEW p, Goto(r, p), p \in {"save", "touch"}, req[r].pc \in {"append", "save"}
      PROVE  /\ req'[r].pc \in {"save", "touch"}
             /\ HistoryOf(req'[r], req'[r].base)
  <2>1. /\ req'[r].pc = p /\ req'[r].session = req[r].session
        /\ req'[r].seen = req[r].seen /\ req'[r].from = req[r].from
        /\ req'[r].base = req[r].base
    BY <1>0, <1>5, GotoLocals DEF LocalsStay, InputStays, ReadsStay
  <2> QED  BY <1>5, <2>1 DEF SerialInv, HistoryRead, HistoryOf
<1>6. CASE AppendMessage(r)
  <2>1. CASE Goto(r, "save")
    BY <1>5, <1>6, <2>1 DEF AppendMessage, At
  <2>2. CASE Respond(r)
    BY <1>0, <1>1, <2>2, RespondLocals
  <2> QED  BY <1>6, <2>1, <2>2 DEF AppendMessage
<1>7. CASE SaveHistory(r)
  BY <1>5, <1>7 DEF SaveHistory, At
<1>8. CASE OracleError(r) \/ GraphError(r) \/ DropThread(r) \/ TouchSession(r)
  BY <1>0, <1>1, <1>8, FinishLocals, RespondLocals
     DEF OracleError, GraphError, DropThread, TouchSession
<1>9. CASE ResolveToken(r) \/ CheckOwner(r) \/ DropRow(r) \/ HangUp(r)
  <2>1. AfterResolve(r) \in {"owner", "create"}
    BY DEF AfterResolve
  <2>2. req'[r].pc \in {"owner", "create", "drop_row", "history", "drop_thread", "lost", "done"}
    BY <1>0, <1>9, <2>1, GotoLocals, FinishLocals DEF ResolveToken, CheckOwner, DropRow, HangUp
  <2> QED  BY <1>1, <2>2
<1>10. CASE CreateSession(r)
  BY <1>1, <1>10, CreateLocals
<1>11. CASE TryAcquire(r)
  <2>1. req'[r].pc \in {"resolve", "done"}
    BY <1>11, TryAcquireLocals, SerialClientAssumption DEF InputStays
  <2> QED  BY <1>1, <2>1
<1>12. CASE Arrive(r)
  BY <1>1, <1>12, ArriveLocals
<1> QED
  BY <1>2, <1>3, <1>4, <1>6, <1>7, <1>8, <1>9, <1>10, <1>11, <1>12 DEF Step

\* A step of a request under the discipline.
LEMMA StepsKeepSerial ==
    ASSUME FlowInv, SerialInv, OneChangeAtATime', NEW r \in Request,
           Arrive(r) \/ Step(r) \/ HangUp(r)
    PROVE  SerialInv'
<1>1. ASSUME NEW x \in Request, x # r
      PROVE  req'[x] = req[x]
  BY <1>1, StepsAreLocal DEF OthersStay
<1>2. HistoryRead'
  <2> SUFFICES ASSUME NEW x \in Request, req'[x].session \in Waiting
               PROVE  /\ req'[x].pc = "load" =>
                            HistoryOf(req'[x], thread'[req'[x].session].turns)
                      /\ req'[x].pc \in {"nodes", "append", "save", "touch"} =>
                            HistoryOf(req'[x], req'[x].base)
    BY DEF HistoryRead, HistoryOf
  <2>1. CASE x = r
    BY <2>1, OwnReads
  <2>2. CASE x # r
    BY <1>1, <2>2, OthersLeaveThread DEF SerialInv, HistoryRead
  <2> QED  BY <2>1, <2>2
<1>3. ThreadIsLoaded'
  <2> SUFFICES ASSUME NEW x \in Request, req'[x].pc \in {"nodes", "append"},
                      req'[x].session \in Waiting
               PROVE  thread'[req'[x].session].turns = req'[x].base
    BY DEF ThreadIsLoaded
  <2>1. CASE x = r
    BY <2>1, OwnReads
  <2>2. CASE x # r
    BY <1>1, <2>2, OthersLeaveThread DEF SerialInv, ThreadIsLoaded
  <2> QED  BY <2>1, <2>2
<1> QED  BY <1>2, <1>3 DEF SerialInv

\* Expiries and restarts under it: a thread in use does not expire, and a restart ends all
\* that were using one.
LEMMA HostKeepsSerial ==
    ASSUME FlowInv, SerialInv, OneChangeAtATime',
           \/ \E i \in RequestId : ExpireKey(i)
           \/ \E s \in Session : ExpireThread(s)
           \/ Restart
           \/ UNCHANGED vars
    PROVE  SerialInv'
<1>0. thread \in [Session -> Checkpoint]
  BY DEF FlowInv, TypeOK
<1>1. CASE UNCHANGED <<req, thread>>
  BY <1>1 DEF SerialInv, HistoryRead, ThreadIsLoaded
<1>2. ASSUME NEW s \in Session, ExpireThread(s)
      PROVE  SerialInv'
  <2>1. ASSUME NEW x \in Request, req[x].pc \in {"load", "nodes", "append"}
        PROVE  req[x].session # s
    BY <1>2, <2>1 DEF ExpireThread
  <2>2. ASSUME NEW z, z # s PROVE thread'[z] = thread[z]
    BY <1>0, <1>2, <2>2 DEF ExpireThread
  <2>3. req' = req
    BY <1>2 DEF ExpireThread
  <2> QED  BY <2>1, <2>2, <2>3 DEF SerialInv, HistoryRead, ThreadIsLoaded
<1>3. CASE Restart
  <2>1. \A x \in Request : req'[x].pc \in {"idle", "done", "lost"}
    BY <1>3, RestartLocals
  <2> QED  BY <2>1 DEF SerialInv, HistoryRead, ThreadIsLoaded
<1> QED  BY <1>1, <1>2, <1>3 DEF ExpireKey, vars

\* All invariants of the section.
WaitingInv == FlowInv /\ CardsInv /\ SerialInv

LEMMA WaitingInit == Init => WaitingInv
<1> SUFFICES ASSUME Init PROVE SerialInv
  BY FlowInit, CardsInit DEF WaitingInv
<1>1. \A r \in Request : req[r].kind = "none" /\ req[r].pc = "idle"
  BY DEF Init, Idle
<1> QED  BY <1>1 DEF SerialInv, OneChangeAtATime, InFlight, HistoryRead, ThreadIsLoaded

LEMMA WaitingStep == WaitingInv /\ [Next /\ OneChangeAtATime']_vars => WaitingInv'
<1> SUFFICES ASSUME WaitingInv, [Next /\ OneChangeAtATime']_vars PROVE WaitingInv'
  OBVIOUS
<1>1. [Next]_vars
  OBVIOUS
<1>2. FlowInv' /\ CardsInv'
  BY <1>1, FlowStep, CardsStep DEF WaitingInv
<1>3. OneChangeAtATime'
  <2>1. CASE UNCHANGED vars
    BY <2>1 DEF vars, WaitingInv, SerialInv, OneChangeAtATime, InFlight
  <2> QED  BY <2>1
<1>4. SerialInv'
  BY <1>1, <1>3, StepsKeepSerial, HostKeepsSerial DEF Next, Finished, WaitingInv
<1> QED  BY <1>2, <1>4 DEF WaitingInv

LEMMA WaitingAlways == SerialSpec => []WaitingInv
BY WaitingInit, WaitingStep, PTL DEF SerialSpec

\* A history cut by trim_history is the end of the conversation and fits the window.
LEMMA TrimmedEnd ==
    ASSUME NEW turns \in Seq(Turn), turns # <<>>
    PROVE  \E n \in 1..Len(turns) :
              /\ TrimHistory(turns) = SubSeq(turns, Len(turns) - n + 1, Len(turns))
              /\ Kept > 0 => n <= Kept
<1>1. Kept \in Nat /\ Len(turns) \in Nat \ {0}
  BY KeptType, EmptySeq
<1>2. CASE Kept = 0 \/ Len(turns) <= Kept
  <2>1. TrimHistory(turns) = turns
    BY <1>2 DEF TrimHistory
  <2>2. turns = SubSeq(turns, 1, Len(turns))
    BY <1>1
  <2>3. Len(turns) - Len(turns) + 1 = 1 /\ Len(turns) \in 1..Len(turns)
    BY <1>1
  <2> WITNESS Len(turns) \in 1..Len(turns)
  <2> QED  BY <1>1, <1>2, <2>1, <2>2, <2>3
<1>3. CASE ~(Kept = 0 \/ Len(turns) <= Kept)
  <2>1. Kept \in 1..Len(turns)
    BY <1>1, <1>3
  <2> WITNESS Kept \in 1..Len(turns)
  <2> QED  BY <1>1, <1>3 DEF TrimHistory
<1> QED  BY <1>2, <1>3

\* For a client that waits, a history taken from memory is the end of the very
\* conversation the turn is appended to, within the window of trim_history, and the
\* client's own version is taken only where nothing is remembered, or the read failed:
\* although memory is read twice and other clients do not wait.
THEOREM HistoryAgrees == SerialSpec => []HistoryIsMemory
<1>1. WaitingInv => HistoryIsMemory
  <2> SUFFICES ASSUME WaitingInv, NEW r \in Request, req[r].session \in Waiting,
                      req[r].pc \in {"nodes", "append", "save", "touch"}
               PROVE  LET seen == req[r].seen  base == req[r].base IN
                      /\ req[r].from = "memory" =>
                            \E n \in 1..Len(base) :
                                /\ seen = SubSeq(base, Len(base) - n + 1, Len(base))
                                /\ Kept > 0 => n <= Kept
                      /\ req[r].from = "client" => base = <<>>
    BY DEF HistoryIsMemory
  <2>1. HistoryOf(req[r], req[r].base)
    BY DEF WaitingInv, SerialInv, HistoryRead
  <2>2. req[r].base \in Seq(Turn)
    BY DEF WaitingInv, FlowInv, TypeOK, RequestState
  <2> QED  BY <2>1, <2>2, TrimmedEnd DEF HistoryOf
<1> QED  BY <1>1, WaitingAlways, PTL

-----------------------------------------------------------------------------
(* The threads implement the conversation.                                 *)

\* The log of a thread that is emptied.
LEMMA LogOfNothing == LogOf(<<>>) = <<>>
BY EmptySeq DEF LogOf

\* The log of a thread that a turn is appended to.
LEMMA LogOfAppend ==
    ASSUME NEW turns \in Seq(Turn), NEW t \in Turn
    PROVE  LogOf(Append(turns, t)) = Append(LogOf(turns), t.by)
<1>1. /\ Len(turns) \in Nat /\ DOMAIN turns = 1..Len(turns)
      /\ DOMAIN Append(turns, t) = 1..(Len(turns) + 1)
      /\ \A j \in 1..Len(turns) : Append(turns, t)[j] = turns[j]
      /\ Append(turns, t)[Len(turns) + 1] = t
  OBVIOUS
<1>2. \A j \in 1..Len(turns) : turns[j].by \in Request
  BY <1>1, TurnsOf DEF Turn
<1>3. LogOf(turns) \in Seq(Request) /\ Len(LogOf(turns)) = Len(turns)
  <2>1. LogOf(turns) = [j \in 1..Len(turns) |-> turns[j].by]
    BY <1>1 DEF LogOf
  <2> QED  BY <1>1, <1>2, <2>1
<1>4. t.by \in Request
  BY DEF Turn
<1>5. /\ DOMAIN Append(LogOf(turns), t.by) = 1..(Len(turns) + 1)
      /\ \A j \in 1..Len(turns) : Append(LogOf(turns), t.by)[j] = LogOf(turns)[j]
      /\ Append(LogOf(turns), t.by)[Len(turns) + 1] = t.by
      /\ Append(LogOf(turns), t.by) \in Seq(Request)
  BY <1>1, <1>3, <1>4
<1>6. ASSUME NEW j \in 1..(Len(turns) + 1)
      PROVE  LogOf(Append(turns, t))[j] = Append(LogOf(turns), t.by)[j]
  <2>1. CASE j \in 1..Len(turns)
    BY <1>1, <1>5, <2>1 DEF LogOf
  <2>2. CASE j = Len(turns) + 1
    BY <1>1, <1>5, <2>2 DEF LogOf
  <2>3. j \in 1..Len(turns) \/ j = Len(turns) + 1
    BY <1>1
  <2> QED  BY <2>1, <2>2, <2>3
<1>7. LogOf(Append(turns, t)) = [j \in 1..(Len(turns) + 1) |-> LogOf(Append(turns, t))[j]]
  BY <1>1 DEF LogOf
<1>8. Append(LogOf(turns), t.by) = [j \in 1..(Len(turns) + 1) |-> Append(LogOf(turns), t.by)[j]]
  BY <1>1, <1>5
<1> QED  BY <1>6, <1>7, <1>8

\* Who has said something is who has a turn in a thread.
LEMMA SaidByAuthors ==
    ASSUME NEW m \in C!Said
    PROVE  \E s \in Waiting : m \in Authors(thread[s].turns)
<1>1. PICK s \in Waiting : m \in {Logs[s][j] : j \in DOMAIN Logs[s]}
  BY DEF C!Said
<1>2. Logs[s] = LogOf(thread[s].turns)
  BY DEF Logs
<1>3. PICK j \in DOMAIN LogOf(thread[s].turns) : m = LogOf(thread[s].turns)[j]
  BY <1>1, <1>2
<1>4. j \in DOMAIN thread[s].turns /\ m = thread[s].turns[j].by
  BY <1>3 DEF LogOf
<1> QED  BY <1>4 DEF Authors

\* A step after which every thread is as it was or empty forgets some of them.
LEMMA ForgetsSome ==
    ASSUME \A s \in Waiting : thread'[s].turns \in {thread[s].turns, <<>>}
    PROVE  C!Next
<1> DEFINE gone == {s \in Waiting : thread'[s].turns = <<>>}
<1>1. Logs' = [s \in Waiting |-> IF s \in gone THEN <<>> ELSE Logs[s]]
  <2>1. \A s \in Waiting : LogOf(thread'[s].turns) = IF s \in gone THEN <<>> ELSE LogOf(thread[s].turns)
    BY LogOfNothing
  <2> QED  BY <2>1 DEF Logs, LogOf
<1>2. C!Forget(gone)
  BY <1>1 DEF C!Forget
<1> QED  BY <1>2 DEF C!Next

\* The last checkpoint of a member's turn says its message.
LEMMA AppendSays ==
    ASSUME WaitingInv, NEW r \in Request, AppendMessage(r), req[r].session \in Waiting
    PROVE  C!Next
<1> DEFINE s == req[r].session
           t == [by |-> r, sources |-> StoredSources(req[r].intent, req[r].hits)]
<1>0. /\ thread \in [Session -> Checkpoint] /\ req[r] \in RequestState
      /\ s \in Session /\ s \in Waiting /\ s # None /\ req[r].pc = "append"
      /\ thread[s].turns \in Seq(Turn)
  BY SerialClientAssumption, ChatTurnAssumption
     DEF WaitingInv, FlowInv, TypeOK, RequestState, Checkpoint, AppendMessage, At
<1>1. t \in Turn /\ t.by = r
  BY <1>0 DEF RequestState, Turn, StoredSources, Hits
<1>2. thread[s].turns = req[r].base
  BY <1>0 DEF WaitingInv, SerialInv, ThreadIsLoaded
<1>3. thread' = [thread EXCEPT ![s] = [turns |-> Append(thread[s].turns, t), hits |-> req[r].hits]]
  BY <1>0, <1>2 DEF AppendMessage, WriteCheckpoint, TurnsAfter
<1> HIDE DEF t
<1>4. LogOf(Append(thread[s].turns, t)) = Append(LogOf(thread[s].turns), r)
  BY <1>0, <1>1, LogOfAppend
<1>5. Logs' = [Logs EXCEPT ![s] = Append(@, r)]
  <2>1. ASSUME NEW z \in Waiting
        PROVE  LogOf(thread'[z].turns) =
                  IF z = s THEN Append(LogOf(thread[s].turns), r) ELSE LogOf(thread[z].turns)
    <3>1. CASE z = s
      <4>1. thread'[z].turns = Append(thread[s].turns, t)
        BY <1>0, <1>3, <3>1
      <4> QED  BY <1>4, <3>1, <4>1
    <3>2. CASE z # s
      <4>1. thread'[z] = thread[z]
        BY <1>0, <1>3, <3>2, SerialClientAssumption
      <4> QED  BY <3>2, <4>1
    <3> QED  BY <3>1, <3>2
  <2>2. Logs' = [z \in Waiting |-> LogOf(thread'[z].turns)]
    BY DEF Logs, LogOf
  <2>3. Logs = [z \in Waiting |-> LogOf(thread[z].turns)]
    BY DEF Logs
  <2> QED  BY <1>0, <2>1, <2>2, <2>3
<1>6. r \notin C!Said
  <2> SUFFICES ASSUME r \in C!Said PROVE FALSE
    OBVIOUS
  <2>1. PICK z \in Waiting : r \in Authors(thread[z].turns)
    BY SaidByAuthors
  <2>2. PICK j \in DOMAIN thread[z].turns : thread[z].turns[j].by = r
    BY <2>1 DEF Authors
  <2>3. req[r].pc \in Recorders
    BY <2>2, SerialClientAssumption DEF WaitingInv, CardsInv, AllRecorded, RecordOf
  <2> QED  BY <1>0, <2>3 DEF Recorders
<1>7. C!Say(s, r)
  BY <1>5, <1>6 DEF C!Say
<1> QED  BY <1>0, <1>7 DEF C!Next

\* Every step is one of the conversation, or leaves the logs alone.
LEMMA StepIsConversation ==
    ASSUME WaitingInv, [Next]_vars
    PROVE  [C!Next]_Logs
<1>0. /\ thread \in [Session -> Checkpoint]
      /\ \A r \in Request : req[r] \in RequestState /\ FlowOK(req[r])
  BY DEF WaitingInv, FlowInv, TypeOK
<1>1. ASSUME NEW r \in Request, Arrive(r) \/ Step(r) \/ HangUp(r)
      PROVE  C!Next
  <2>1. CASE AppendMessage(r) /\ req[r].session \in Waiting
    BY <2>1, AppendSays
  <2>2. CASE ~ (AppendMessage(r) /\ req[r].session \in Waiting)
    <3>1. ASSUME NEW s \in Waiting
          PROVE  thread'[s].turns \in {thread[s].turns, <<>>}
      <4>1. CASE thread'[s] = thread[s]
        BY <4>1
      <4>2. CASE thread'[s] # thread[s]
        <5>1. /\ req[r].session = s /\ s # None
              /\ RunNodes(r) \/ GraphError(r) \/ DropThread(r)
          BY <1>1, <2>2, <4>2, WriterIsInFlight, ChatTurnAssumption, SerialClientAssumption
             DEF WaitingInv, InFlight
        <5>2. CASE DropThread(r)
          BY <1>0, <4>2, <5>1, <5>2 DEF DropThread, EmptyCheckpoint
        <5>3. ASSUME NEW hits, WriteCheckpoint(r, req[r].base, hits), req[r].pc = "nodes"
              PROVE  thread'[s].turns = thread[s].turns
          <6>1. thread[s].turns = req[r].base
            BY <5>1, <5>3 DEF WaitingInv, SerialInv, ThreadIsLoaded
          <6> QED  BY <1>0, <5>1, <5>3, <6>1 DEF WriteCheckpoint
        <5>4. CASE RunNodes(r)
          BY <5>3, <5>4 DEF RunNodes, At
        <5>5. CASE GraphError(r)
          BY <4>2, <5>3, <5>5 DEF GraphError, At
        <5> QED  BY <5>1, <5>2, <5>4, <5>5
      <4> QED  BY <4>1, <4>2
    <3> QED  BY <3>1, ForgetsSome
  <2> QED  BY <2>1, <2>2
<1>2. ASSUME \/ \E i \in RequestId : ExpireKey(i)
             \/ \E s \in Session : ExpireThread(s)
             \/ Restart
      PROVE  C!Next
  <2>1. \A s \in Waiting : thread'[s].turns \in {thread[s].turns, <<>>}
    BY <1>0, <1>2, SerialClientAssumption DEF ExpireKey, ExpireThread, Restart, EmptyCheckpoint
  <2> QED  BY <2>1, ForgetsSome
<1>3. CASE UNCHANGED vars
  BY <1>3 DEF vars, Logs, LogOf
<1> QED  BY <1>1, <1>2, <1>3 DEF Next, Finished

\* The checkpointed threads of clients that wait implement the conversation of the user: a
\* message goes to the end of its log once, and logs disappear only as a whole.
THEOREM ThreadsAreConversations == SerialSpec => ConversationSpec
<1>1. Init => C!Init
  <2> SUFFICES ASSUME Init PROVE Logs = [s \in Waiting |-> <<>>]
    BY DEF C!Init
  <2>1. \A s \in Waiting : thread[s].turns = <<>>
    BY SerialClientAssumption DEF Init, EmptyCheckpoint
  <2> QED  BY <2>1, LogOfNothing DEF Logs
<1>2. WaitingInv /\ [Next /\ OneChangeAtATime']_vars => [C!Next]_Logs
  BY StepIsConversation
<1> QED  BY <1>1, <1>2, WaitingAlways, PTL DEF SerialSpec, ConversationSpec, C!Spec
=============================================================================
