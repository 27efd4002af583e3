------------------------- MODULE AnswerGraphProofs --------------------------
(***************************************************************************)
(* Theorems about AnswerGraph and RagFusion, for every finite catalogue,   *)
(* every price, lists of any length and any number of turns.               *)
(***************************************************************************)
EXTENDS AnswerGraph, FiniteSetTheorems, WellFoundedInduction, TLAPS

Fixed == {"template", "comparison", "lookup"}

\* Until a handler answers, rag_hits is empty: no card of an earlier turn is left.
NoCardsYet == pc \in {"classify"} \cup Handler \cup SearchStep => hits = {}

\* An answer of the code itself reaches the guard in a form that passes it.
FixedPassesGuard ==
    pc = "guard" /\ raw.by \in Fixed =>
        /\ ~ raw.claims /\ Unmarked(raw) = raw
        /\ hits = {} \/ Grounded(raw, hits)

\* Only an answer of the LLM is asked for again.
OnlyLLMRetries == pc = "retry" => raw.by \notin Fixed

FixedInv == NoCardsYet /\ FixedPassesGuard /\ OnlyLLMRetries /\ FixedAnswersSurvive

\* What the rules and the templates say of the products S is grounded in their cards:
\* the texts of structured_node, and of semantic_node's comparison and look-up.
LEMMA RulesAreGrounded ==
    ASSUME NEW by, NEW S, NEW names, names \subseteq S, names # {},
           NEW prices, prices \subseteq PricesOf(S)
    PROVE  Grounded(Says(by, names, prices), S)
<1>1. Says(by, names, prices).prices \subseteq PricesOf(S)
    BY DEF Says
<1>2. Says(by, names, prices).words \cap S # {}
    BY DEF Says
<1> QED BY <1>1, <1>2 DEF Grounded

\* Taking the marks out changes nothing in a text that has none.
LEMMA PlainStays ==
    ASSUME NEW a, a = [x \in DOMAIN a |-> a[x]], {"names", "prices"} \subseteq DOMAIN a,
           a.boldNames = {}, a.boldPrices = {}
    PROVE  Unmarked(a) = a
<1>1. a.names \cup a.boldNames = a.names /\ a.prices \cup a.boldPrices = a.prices
    OBVIOUS
<1>2. Unmarked(a) = [x \in DOMAIN a |-> IF x = "prices" THEN a.prices
                                      ELSE IF x = "names" THEN a.names ELSE a[x]]
    BY <1>1 DEF Unmarked
<1> QED BY <1>1, <1>2

\* The texts of the code itself have none.
LEMMA CodeWritesPlain ==
    /\ \A by, names, prices :
          ~ Says(by, names, prices).claims
            /\ Unmarked(Says(by, names, prices)) = Says(by, names, prices)
    /\ ~ Notice.claims /\ Unmarked(Notice) = Notice
    /\ ~ NotFound.claims /\ Unmarked(NotFound) = NotFound
<1> DEFINE Plain(a) ==
        /\ a = [x \in DOMAIN a |-> a[x]] /\ {"names", "prices"} \subseteq DOMAIN a
        /\ a.boldNames = {} /\ a.boldPrices = {} /\ ~ a.claims
<1>1. ASSUME NEW by, NEW names, NEW prices PROVE Plain(Says(by, names, prices))
    BY DEF Says
<1>2. Plain(NotFound)
  <2>1. /\ {"names", "prices"} \subseteq DOMAIN NotFound
        /\ NotFound.boldNames = {} /\ NotFound.boldPrices = {} /\ ~ NotFound.claims
    BY DEF NotFound, Notice, Says
  <2>2. NotFound = [x \in DOMAIN NotFound |-> NotFound[x]]
    BY DEF NotFound
  <2> QED BY <2>1, <2>2
<1> QED BY <1>1, <1>2, PlainStays DEF Notice

\* An answer enters the guard with empty cards or grounded in them.
LEMMA AnswerEntersGuard ==
    ASSUME NEW answer, NEW cards, ToGuard(answer, cards),
           (~ answer.claims /\ Unmarked(answer) = answer) \/ answer.by \notin Fixed,
           cards = {} \/ Grounded(answer, cards) \/ answer.by \notin Fixed
    PROVE  FixedInv'
<1>1. raw' = answer /\ hits' = cards /\ pc' = "guard"
    BY DEF ToGuard
<1>2. NoCardsYet'
    BY <1>1 DEF NoCardsYet, Handler, SearchStep
<1>3. FixedPassesGuard'
    BY <1>1 DEF FixedPassesGuard, Grounded, PricesOf
<1>4. OnlyLLMRetries' /\ FixedAnswersSurvive'
    BY <1>1 DEF OnlyLLMRetries, FixedAnswersSurvive
<1> QED BY <1>2, <1>3, <1>4 DEF FixedInv

\* A step inside the graph that leaves cards, answers and the guard alone.
LEMMA QuietStep ==
    ASSUME FixedInv, hits' = hits, pc \in {"classify"} \cup Handler \cup SearchStep,
           pc' \notin {"guard", "retry", "append"}
    PROVE  FixedInv'
<1>1. hits' = {}
    BY DEF FixedInv, NoCardsYet
<1> QED BY <1>1 DEF FixedInv, NoCardsYet, FixedPassesGuard, OnlyLLMRetries, FixedAnswersSurvive

\* The names of the nodes a turn is routed to are no names of the guard's steps.
LEMMA RoutesToHandler ==
    ASSUME NEW i \in Intent, NEW unsure \in BOOLEAN
    PROVE  RouteByIntent(i, unsure) \in Handler
BY DEF RouteByIntent, NodeOf, Handler, Intent

\* Handlers outside the search pipeline set no cards and claim nothing on their own.
LEMMA HandlersKeepInv ==
    ASSUME FixedInv, Structured \/ Faq \/ FixedText \/ Order \/ RefundNotice \/ Chat
    PROVE  FixedInv'
<1>1. pc \in {"structured", "faq", "guest_block", "clarify", "order", "complaint", "small_talk"}
    BY DEF Structured, Faq, FixedText, Order, RefundNotice, Chat
<1>2. hits = {}
    BY <1>1 DEF FixedInv, NoCardsYet, Handler
<1>3. CASE Structured
  <2>1. PICK S \in Selections :
          IF S = {} THEN ToGuard(NotFound, hits)
          ELSE ToGuard(Says("template", S, PricesOf(S)), S)
    BY <1>3 DEF Structured
  <2>2. CASE S = {}
    BY <2>1, <2>2, <1>2, CodeWritesPlain, AnswerEntersGuard
  <2>3. CASE S # {}
    <3>1. Grounded(Says("template", S, PricesOf(S)), S)
      BY <2>3, RulesAreGrounded
    <3> QED BY <2>1, <2>3, <3>1, CodeWritesPlain, AnswerEntersGuard
  <2> QED BY <2>2, <2>3
<1>4. CASE Faq \/ FixedText \/ RefundNotice
  <2>1. ToGuard(Notice, hits)
    BY <1>4 DEF Faq, FixedText, RefundNotice
  <2> QED BY <2>1, <1>2, CodeWritesPlain, AnswerEntersGuard
<1>5. CASE Order
  <2>1. PICK a \in OrderTexts : ToGuard(a, hits)
    BY <1>5 DEF Order
  <2>2. ~ a.claims /\ Unmarked(a) = a
    BY CodeWritesPlain DEF OrderTexts
  <2> QED BY <2>1, <2>2, <1>2, AnswerEntersGuard
<1>6. CASE Chat
  <2>1. PICK a \in SmallTalkText : ToGuard(a, hits)
    BY <1>6 DEF Chat
  <2>2. PICK names \in SUBSET Product, prices \in SUBSET Price, c \in BOOLEAN :
            a = [Says("llm", names, prices) EXCEPT !.claims = c]
    BY DEF SmallTalkText
  <2>3. a.by = "llm"
    BY <2>2 DEF Says
  <2> QED BY <2>1, <2>3, <1>2, AnswerEntersGuard DEF Fixed
<1> QED BY <1>3, <1>4, <1>5, <1>6

\* The search pipeline hands over its own hits, or an answer of a rule about them.
LEMMA SemanticKeepsInv ==
    ASSUME FixedInv,
           Compare \/ LookUp \/ GoSearch \/ SearchText \/ SearchImage \/ SearchBm25
             \/ Fuse \/ RerankHits \/ Generate
    PROVE  FixedInv'
<1>1. CASE Compare
  <2>1. PICK p \in Mentioned : ToGuard(Says("comparison", {p}, {PriceOf[p]}), Mentioned)
    BY <1>1 DEF Compare
  <2>2. Grounded(Says("comparison", {p}, {PriceOf[p]}), Mentioned)
    BY RulesAreGrounded DEF PricesOf
  <2> QED BY <2>1, <2>2, CodeWritesPlain, AnswerEntersGuard
<1>2. CASE LookUp
  <2>1. CASE ToGuard(Notice, {})
    BY <2>1, CodeWritesPlain, AnswerEntersGuard
  <2>2. ASSUME NEW p \in Product, NEW P \in {{PriceOf[p]}, {}},
               ToGuard(Says("lookup", {p}, P), {p})
        PROVE  FixedInv'
    <3>1. Grounded(Says("lookup", {p}, P), {p})
      BY RulesAreGrounded DEF PricesOf
    <3> QED BY <2>2, <3>1, CodeWritesPlain, AnswerEntersGuard
  <2> QED BY <1>2, <2>1, <2>2 DEF LookUp
<1>3. CASE GoSearch \/ SearchText \/ SearchImage \/ SearchBm25 \/ RerankHits
  <2>1. /\ hits' = hits
        /\ pc \in {"semantic"} \cup SearchStep
        /\ pc' \in SearchStep
    BY <1>3 DEF GoSearch, SearchText, SearchImage, SearchBm25, RerankHits, GoOn, SearchStep
  <2> QED BY <2>1, QuietStep DEF SearchStep, Handler
<1>4. CASE Fuse
  <2>1. pc = "fuse" /\ (ToGuard(NotFound, {}) \/ GoOn("rerank"))
    BY <1>4 DEF Fuse
  <2>2. CASE ToGuard(NotFound, {})
    BY <2>2, CodeWritesPlain, AnswerEntersGuard
  <2>3. CASE GoOn("rerank")
    BY <2>1, <2>3, QuietStep DEF GoOn, SearchStep
  <2> QED BY <2>1, <2>2, <2>3
<1>5. CASE Generate
  <2>1. PICK a \in ProductText("llm") : ToGuard(a, NamedIn(a, ProductsOf(found)))
    BY <1>5 DEF Generate
  <2>2. a.by = "llm"
    BY DEF ProductText
  <2> QED BY <2>1, <2>2, AnswerEntersGuard DEF Fixed
<1> QED BY <1>1, <1>2, <1>3, <1>4, <1>5

\* The guard lets fixed answers pass and retries only those of the LLM.
LEMMA GuardKeepsInv ==
    ASSUME FixedInv, GuardPass \/ GuardWarn \/ GuardDoubt \/ Retry
    PROVE  FixedInv'
<1>1. CASE GuardPass
  <2>1. pc = "guard" /\ pc' = "append" /\ raw' = raw /\ final' = Unmarked(raw)
    BY <1>1 DEF GuardPass, Guarded
  <2>2. raw.by \in Fixed => final' = raw
    BY <2>1 DEF FixedInv, FixedPassesGuard
  <2> QED BY <2>1, <2>2 DEF FixedInv, NoCardsYet, FixedPassesGuard, OnlyLLMRetries,
        FixedAnswersSurvive, Handler, SearchStep, Fixed
<1>2. CASE GuardWarn
  <2>1. raw.by \notin Fixed
    BY <1>2 DEF GuardWarn, FixedInv, FixedPassesGuard
  <2>2. raw' = raw /\ pc' = "append"
    BY <1>2 DEF GuardWarn, Guarded
  <2> QED BY <2>1, <2>2 DEF FixedInv, NoCardsYet, FixedPassesGuard, OnlyLLMRetries,
        FixedAnswersSurvive, Handler, SearchStep, Fixed
<1>3. CASE GuardDoubt
  <2>1. raw.by \notin Fixed
    BY <1>3 DEF GuardDoubt, Doubtful, FixedInv, FixedPassesGuard
  <2>2. raw'.by = raw.by /\ pc' = "retry"
    BY <1>3 DEF GuardDoubt, NoAnswer, Says
  <2> QED BY <2>1, <2>2 DEF FixedInv, NoCardsYet, FixedPassesGuard, OnlyLLMRetries,
        FixedAnswersSurvive, Handler, SearchStep
<1>4. CASE Retry
  <2>1. raw.by \notin Fixed
    BY <1>4 DEF Retry, FixedInv, OnlyLLMRetries
  <2>2. raw' = raw /\ pc' = "append"
    BY <1>4 DEF Retry, Guarded
  <2> QED BY <2>1, <2>2 DEF FixedInv, NoCardsYet, FixedPassesGuard, OnlyLLMRetries,
        FixedAnswersSurvive, Handler, SearchStep, Fixed
<1> QED BY <1>1, <1>2, <1>3, <1>4

\* What a template or a rule hands to the guard has no cards or is grounded in them, and
\* no cards are set before a handler answers (init_state, the handlers of nodes.py).
THEOREM FixedInvariance == Spec => []FixedInv
<1>1. Init => FixedInv
    BY DEF Init, FixedInv, NoCardsYet, FixedPassesGuard, OnlyLLMRetries,
        FixedAnswersSurvive, Handler, SearchStep
<1>2. FixedInv /\ [Next]_vars => FixedInv'
  <2> SUFFICES ASSUME FixedInv, [Next]_vars PROVE FixedInv'
    OBVIOUS
  <2>1. CASE Receive
    BY <2>1 DEF Receive, InitHits, FixedInv, NoCardsYet, FixedPassesGuard, OnlyLLMRetries,
        FixedAnswersSurvive
  <2>2. CASE Classify
    <3>1. hits' = hits /\ pc = "classify" /\ pc' \in Handler
      BY <2>2, RoutesToHandler DEF Classify
    <3> QED BY <3>1, QuietStep DEF Handler
  <2>3. CASE Structured \/ Faq \/ FixedText \/ Order \/ RefundNotice \/ Chat
    BY <2>3, HandlersKeepInv
  <2>4. CASE Compare \/ LookUp \/ GoSearch \/ SearchText \/ SearchImage \/ SearchBm25
               \/ Fuse \/ RerankHits \/ Generate
    BY <2>4, SemanticKeepsInv
  <2>5. CASE GuardPass \/ GuardWarn \/ GuardDoubt \/ Retry
    BY <2>5, GuardKeepsInv
  <2>6. CASE AppendMessage \/ GraphError
    BY <2>6 DEF AppendMessage, GraphError, FixedInv, NoCardsYet, FixedPassesGuard,
        OnlyLLMRetries, FixedAnswersSurvive, Handler, SearchStep
  <2>7. CASE Over \/ UNCHANGED vars
    BY <2>7 DEF Over, vars, FixedInv, NoCardsYet, FixedPassesGuard, OnlyLLMRetries,
        FixedAnswersSurvive, Grounded
  <2> QED BY <2>1, <2>2, <2>3, <2>4, <2>5, <2>6, <2>7 DEF Next
<1> QED BY <1>1, <1>2, PTL DEF Spec

\* Templates, comparisons and look-ups always reach the user unchanged: neither the
\* cards of an earlier turn nor the guard's checks can turn them into something else.
THEOREM FixedAnswersReachTheUser == Spec => []FixedAnswersSurvive
<1>1. FixedInv => FixedAnswersSurvive
    BY DEF FixedInv
<1> QED BY <1>1, FixedInvariance, PTL

-----------------------------------------------------------------------------
(* Putting finite sets in a row.                                          *)

\* A set of natural numbers has a least one.
LEMMA LeastExists ==
    ASSUME NEW T, T \subseteq Nat, T # {}
    PROVE  \E n \in T : \A m \in T : n <= m
<1> DEFINE R == OpToRel(<, Nat)
<1>1. IsWellFoundedOn(R, Nat)
    BY NatLessThanWellFounded
<1>2. ASSUME NEW x \in Nat, NEW y \in Nat, x < y PROVE <<x, y>> \in R
    BY <1>2 DEF OpToRel
<1> HIDE DEF R
<1>3. PICK n \in T : \A m \in T : ~ (<<m, n>> \in R)
    BY <1>1, WFMin
<1>4. ASSUME NEW m \in T PROVE n <= m
  <2>1. ~ (m < n)
    BY <1>2, <1>3
  <2> QED BY <2>1
<1> QED BY <1>4

\* R puts the elements of S in a row.
Orders(R, S) ==
    /\ \A a \in S : <<a, a>> \notin R
    /\ \A a, b \in S : a # b => <<a, b>> \in R \/ <<b, a>> \in R
    /\ \A a, b, c \in S : <<a, b>> \in R /\ <<b, c>> \in R => <<a, c>> \in R

\* The last of finitely many: the one with the fewest behind it.
LEMMA LastExists ==
    ASSUME NEW R, NEW S, IsFiniteSet(S), S # {}, Orders(R, S)
    PROVE  \E m \in S : \A a \in S \ {m} : <<a, m>> \in R
<1> DEFINE Behind(x) == {y \in S : <<x, y>> \in R}
           counts == {Cardinality(Behind(x)) : x \in S}
<1>1. \A x \in S : IsFiniteSet(Behind(x)) /\ Cardinality(Behind(x)) \in Nat
    BY FS_Subset, FS_CardinalityType
<1>2. PICK n \in counts : \A k \in counts : n <= k
  <2>1. counts \subseteq Nat /\ counts # {}
    BY <1>1
  <2> HIDE DEF counts
  <2> QED BY <2>1, LeastExists
<1>3. PICK m \in S : n = Cardinality(Behind(m))
    OBVIOUS
<1>4. Behind(m) = {}
  <2> SUFFICES ASSUME NEW y \in Behind(m) PROVE FALSE
    OBVIOUS
  <2>1. y \in S /\ <<m, y>> \in R
    OBVIOUS
  <2>2. Behind(y) \subseteq Behind(m)
    BY <2>1 DEF Orders
  <2>3. y \notin Behind(y)
    BY DEF Orders
  <2>4. Behind(y) # Behind(m)
    BY <2>3
  <2>5. Cardinality(Behind(y)) < Cardinality(Behind(m))
    <3> HIDE DEF Behind
    <3> QED BY <2>1, <2>2, <2>4, <1>1, FS_Subset
  <2>6. n <= Cardinality(Behind(y))
    BY <2>1, <1>2
  <2> HIDE DEF Behind
  <2> QED BY <2>1, <2>5, <2>6, <1>1, <1>3
<1> QED BY <1>4 DEF Orders

\* Finitely many elements have a sequence in their order.
LEMMA RowExists ==
    ASSUME NEW R, NEW S, IsFiniteSet(S), Orders(R, S)
    PROVE  \E s \in SetToSeqs(S) : \A i, j \in DOMAIN s : i < j => <<s[i], s[j]>> \in R
<1> DEFINE Row(U) == \E s \in SetToSeqs(U) : \A i, j \in DOMAIN s : i < j => <<s[i], s[j]>> \in R
           sizes == {Cardinality(U) : U \in {V \in SUBSET S : ~ Row(V)}}
<1> SUFFICES ASSUME ~ Row(S) PROVE FALSE
    OBVIOUS
<1>1. \A U \in SUBSET S : IsFiniteSet(U) /\ Cardinality(U) \in Nat
    BY FS_Subset, FS_CardinalityType
<1>2. PICK n \in sizes : \A k \in sizes : n <= k
  <2>1. sizes \subseteq Nat /\ sizes # {}
    <3> HIDE DEF Row
    <3> QED BY <1>1
  <2> HIDE DEF sizes
  <2> QED BY <2>1, LeastExists
<1>3. PICK U \in SUBSET S : ~ Row(U) /\ n = Cardinality(U)
  <2> HIDE DEF Row
  <2> QED OBVIOUS
<1>4. U # {}
  <2> SUFFICES ASSUME U = {} PROVE Row(U)
    BY <1>3
  <2>1. Cardinality(U) = 0
    BY FS_EmptySet
  <2>2. <<>> \in SetToSeqs(U)
    BY <2>1 DEF SetToSeqs
  <2> QED BY <2>2
<1>5. PICK m \in U : \A a \in U \ {m} : <<a, m>> \in R
  <2>1. Orders(R, U)
    BY DEF Orders
  <2> QED BY <1>1, <1>4, <2>1, LastExists
<1> DEFINE rest == U \ {m}
<1>6. rest \in SUBSET S /\ Cardinality(rest) = n - 1 /\ n \in Nat
    BY <1>1, <1>3, FS_RemoveElement
<1>7. Row(rest)
  <2> SUFFICES ASSUME ~ Row(rest) PROVE FALSE
    OBVIOUS
  <2>1. Cardinality(rest) \in sizes
    <3> HIDE DEF Row, rest
    <3> QED BY <1>6
  <2> HIDE DEF Row, rest, sizes
  <2> QED BY <2>1, <1>2, <1>6
<1>8. PICK s \in SetToSeqs(rest) : \A i, j \in DOMAIN s : i < j => <<s[i], s[j]>> \in R
    BY <1>7
<1>9. /\ s \in [1..n-1 -> rest]
      /\ \A i, j \in 1..n-1 : i # j => s[i] # s[j]
  <2> HIDE DEF rest
  <2> QED BY <1>6 DEF SetToSeqs
<1> DEFINE t == [i \in 1..n |-> IF i = n THEN m ELSE s[i]]
<1>10. n >= 1
  <2>1. Cardinality(rest) \in Nat
    BY <1>1, <1>6
  <2> HIDE DEF rest
  <2> QED BY <2>1, <1>6
<1>11. \A i \in 1..n : i # n => i \in 1..n-1
    BY <1>6
<1>12. t \in [1..n -> U]
    BY <1>9, <1>11
<1>13. \A i, j \in 1..n : i # j => t[i] # t[j]
    BY <1>9, <1>11
<1>14. t \in SetToSeqs(U)
  <2> HIDE DEF t
  <2> QED BY <1>3, <1>12, <1>13 DEF SetToSeqs
<1>15. \A i, j \in 1..n : i < j => <<t[i], t[j]>> \in R
  <2> SUFFICES ASSUME NEW i \in 1..n, NEW j \in 1..n, i < j PROVE <<t[i], t[j]>> \in R
    OBVIOUS
  <2>1. i # n /\ i \in 1..n-1 /\ t[i] = s[i] /\ s[i] \in rest
    BY <1>6, <1>9
  <2>2. CASE j = n
    BY <2>1, <2>2, <1>5
  <2>3. CASE j # n
    BY <2>1, <2>3, <1>8, <1>9, <1>11
  <2> QED BY <2>2, <2>3
<1>16. Row(U)
  <2>1. DOMAIN t = 1..n
    OBVIOUS
  <2> HIDE DEF t
  <2> QED BY <1>14, <1>15, <2>1
<1> QED BY <1>3, <1>16

-----------------------------------------------------------------------------
(* RagFusion: what the merges of the rankings return.                      *)

\* A function on 1..n is a sequence of length n.
LEMMA RowOfFunction ==
    ASSUME NEW S, NEW n \in Nat, NEW s \in [1..n -> S]
    PROVE  s \in Seq(S) /\ Len(s) = n /\ DOMAIN s = 1..n
OBVIOUS

\* A sequence of different elements of a finite set.
LEMMA RowOfSet ==
    ASSUME NEW S, IsFiniteSet(S), NEW s \in SetToSeqs(S)
    PROVE  /\ s \in Seq(S) /\ Len(s) = Cardinality(S) /\ DOMAIN s = 1..Len(s)
           /\ \A i, j \in DOMAIN s : s[i] = s[j] => i = j
<1>1. Cardinality(S) \in Nat
    BY FS_CardinalityType
<1>2. s \in [1..Cardinality(S) -> S] /\ \A i, j \in 1..Cardinality(S) : i # j => s[i] # s[j]
    BY DEF SetToSeqs
<1> QED BY <1>1, <1>2

\* The ids of a list of hits are at most as many as the hits.
LEMMA IdsAreFinite ==
    ASSUME NEW all \in Seq(HitType)
    PROVE  IsFiniteSet(IdsOf(all)) /\ Cardinality(IdsOf(all)) <= Len(all)
<1> DEFINE f == [i \in 1..Len(all) |-> all[i].id]
<1>1. f \in Surjection(1..Len(all), IdsOf(all))
    BY DEF Surjection, IdsOf
<1>2. IsFiniteSet(1..Len(all)) /\ Cardinality(1..Len(all)) = Len(all)
  <2>1. Len(all) \in Nat /\ 1 \in Int /\ Len(all) \in Int
    OBVIOUS
  <2>2. Cardinality(1..Len(all)) = IF 1 > Len(all) THEN 0 ELSE Len(all) - 1 + 1
    BY <2>1, FS_Interval
  <2> QED BY <2>1, <2>2, FS_Interval
<1> QED BY <1>1, <1>2, FS_Surjection

\* A list has a first hit of each of its ids.
LEMMA FirstAtFact ==
    ASSUME NEW all \in Seq(HitType), NEW id \in IdsOf(all)
    PROVE  /\ FirstAt(all, id) \in DOMAIN all /\ FirstAt(all, id) \in Nat \ {0}
           /\ all[FirstAt(all, id)].id = id
<1> DEFINE at == {i \in DOMAIN all : all[i].id = id}
<1>1. at \subseteq Nat /\ at # {}
    BY DEF IdsOf
<1>2. \E i \in at : \A j \in at : i <= j
  <2> HIDE DEF at
  <2> QED BY <1>1, LeastExists
<1>3. \E i \in DOMAIN all : all[i].id = id /\ \A j \in DOMAIN all : all[j].id = id => i <= j
    BY <1>2
<1>4. FirstAt(all, id) \in DOMAIN all /\ all[FirstAt(all, id)].id = id
    BY <1>3 DEF FirstAt
<1> QED BY <1>4

\* And a closest one.
LEMMA ClosestAtFact ==
    ASSUME NEW all \in Seq(HitType), NEW id \in IdsOf(all)
    PROVE  ClosestAt(all, id) \in DOMAIN all /\ all[ClosestAt(all, id)].id = id
<1> DEFINE at == {i \in DOMAIN all : all[i].id = id}
           far == {all[i].distance : i \in at}
<1>1. at \subseteq Nat /\ at # {}
    BY DEF IdsOf
<1>2. \A i \in at : all[i].distance \in Nat
  <2>1. \A i \in at : all[i] \in HitType
    OBVIOUS
  <2>2. \A h \in HitType : h.distance \in Nat
    BY DEF HitType
  <2> QED BY <2>1, <2>2
<1>3. far \subseteq Nat /\ far # {}
    BY <1>1, <1>2
<1>4. PICK d \in far : \A e \in far : d <= e
  <2> HIDE DEF far
  <2> QED BY <1>3, LeastExists
<1> DEFINE close == {i \in at : all[i].distance = d}
<1>5. close \subseteq Nat /\ close # {}
    BY <1>1, <1>4
<1>6. PICK n \in close : \A m \in close : n <= m
  <2> HIDE DEF close
  <2> QED BY <1>5, LeastExists
<1>7. \A j \in at : \/ all[n].distance < all[j].distance
                    \/ all[n].distance = all[j].distance /\ n <= j
  <2> SUFFICES ASSUME NEW j \in at
               PROVE  \/ all[n].distance < all[j].distance
                      \/ all[n].distance = all[j].distance /\ n <= j
    OBVIOUS
  <2>1. all[n].distance = d /\ n \in at
    BY <1>6
  <2>2. all[j].distance \in far
    OBVIOUS
  <2>3. d \in Nat /\ all[j].distance \in Nat /\ d <= all[j].distance
    BY <2>2, <1>3, <1>4
  <2>4. CASE all[j].distance = d
    BY <2>1, <2>4, <1>6
  <2>5. CASE all[j].distance # d
    BY <2>1, <2>3, <2>5
  <2> QED BY <2>4, <2>5
<1>8. ClosestAt(all, id) \in at
  <2>1. \E i \in at : \A j \in at : \/ all[i].distance < all[j].distance
                                    \/ all[i].distance = all[j].distance /\ i <= j
    BY <1>6, <1>7
  <2> QED BY <2>1 DEF ClosestAt
<1> QED BY <1>8

\* _merge_dedup, whatever the two lists are: hits of theirs, each id once, no longer
\* than both together.
LEMMA MergeDedupFact ==
    ASSUME NEW text \in Seq(HitType), NEW image \in Seq(HitType)
    PROVE  /\ MergeDedup(text, image) \in Seq(HitType)
           /\ Len(MergeDedup(text, image)) <= Len(text) + Len(image)
           /\ \A i \in DOMAIN MergeDedup(text, image) :
                \E j \in DOMAIN (text \o image) :
                    MergeDedup(text, image)[i] = (text \o image)[j]
           /\ \A i, j \in DOMAIN MergeDedup(text, image) :
                MergeDedup(text, image)[i].id = MergeDedup(text, image)[j].id => i = j
<1> DEFINE all == text \o image
           Best(id) == all[ClosestAt(all, id)]
           Before(a, b) ==
               \/ Best(a).distance < Best(b).distance
               \/ Best(a).distance = Best(b).distance /\ FirstAt(all, a) < FirstAt(all, b)
           ids == IdsOf(all)
           order == InOrder(ids, Before)
           R == {ab \in ids \X ids : Before(ab[1], ab[2])}
<1>1. all \in Seq(HitType) /\ Len(all) = Len(text) + Len(image) /\ Len(all) \in Nat
    OBVIOUS
<1>2. IsFiniteSet(ids) /\ Cardinality(ids) <= Len(all)
  <2> HIDE DEF all
  <2> QED BY <1>1, IdsAreFinite
<1>3. \A id \in ids : /\ ClosestAt(all, id) \in DOMAIN all
                      /\ Best(id).id = id /\ Best(id) \in HitType
                      /\ Best(id).distance \in Nat
                      /\ FirstAt(all, id) \in Nat /\ all[FirstAt(all, id)].id = id
  <2> SUFFICES ASSUME NEW id \in ids
               PROVE  /\ ClosestAt(all, id) \in DOMAIN all
                      /\ Best(id).id = id /\ Best(id) \in HitType
                      /\ Best(id).distance \in Nat
                      /\ FirstAt(all, id) \in Nat /\ all[FirstAt(all, id)].id = id
    OBVIOUS
  <2> HIDE DEF all
  <2>1. ClosestAt(all, id) \in DOMAIN all /\ Best(id).id = id
    BY <1>1, ClosestAtFact
  <2>2. FirstAt(all, id) \in Nat /\ all[FirstAt(all, id)].id = id
    BY <1>1, FirstAtFact
  <2>3. Best(id) \in HitType
    BY <1>1, <2>1
  <2>4. Best(id).distance \in Nat
    BY <2>3 DEF HitType
  <2> QED BY <2>1, <2>2, <2>3, <2>4
<1>4. \A a, b \in ids : <<a, b>> \in R <=> Before(a, b)
  <2> HIDE DEF Before, ids
  <2> QED OBVIOUS
<1>5. Orders(R, ids)
  <2>1. \A a \in ids : ~ Before(a, a)
    BY <1>3
  <2>2. ASSUME NEW a \in ids, NEW b \in ids, a # b
        PROVE  Before(a, b) \/ Before(b, a)
    <3>1. PICK da \in Nat, db \in Nat, na \in Nat, nb \in Nat :
            /\ da = Best(a).distance /\ na = FirstAt(all, a)
            /\ db = Best(b).distance /\ nb = FirstAt(all, b)
      BY <1>3
    <3>2. na # nb
      BY <1>3, <2>2, <3>1
    <3>3. \/ da < db \/ (da = db /\ na < nb)
          \/ db < da \/ (db = da /\ nb < na)
      BY <3>2
    <3> QED BY <3>1, <3>3
  <2>3. ASSUME NEW a \in ids, NEW b \in ids, NEW c \in ids, Before(a, b), Before(b, c)
        PROVE  Before(a, c)
    <3>1. PICK da \in Nat, db \in Nat, dc \in Nat, na \in Nat, nb \in Nat, nc \in Nat :
            /\ da = Best(a).distance /\ na = FirstAt(all, a)
            /\ db = Best(b).distance /\ nb = FirstAt(all, b)
            /\ dc = Best(c).distance /\ nc = FirstAt(all, c)
      BY <1>3
    <3>2. /\ da < db \/ (da = db /\ na < nb)
          /\ db < dc \/ (db = dc /\ nb < nc)
      BY <2>3, <3>1
    <3>3. da < dc \/ (da = dc /\ na < nc)
      BY <3>2
    <3> QED BY <3>1, <3>3
  <2> HIDE DEF Before, ids, R
  <2> QED BY <1>4, <2>1, <2>2, <2>3 DEF Orders
<1>6. order \in SetToSeqs(ids)
  <2>1. \E s \in SetToSeqs(ids) : \A i, j \in DOMAIN s : i < j => <<s[i], s[j]>> \in R
    <3> HIDE DEF ids, R
    <3> QED BY <1>2, <1>5, RowExists
  <2>2. \E s \in SetToSeqs(ids) : \A i, j \in DOMAIN s : i < j => Before(s[i], s[j])
    <3> HIDE DEF Before
    <3> QED BY <2>1
  <2> HIDE DEF Before, ids
  <2> QED BY <2>2 DEF InOrder
<1>7. /\ order \in Seq(ids) /\ Len(order) = Cardinality(ids) /\ DOMAIN order = 1..Len(order)
      /\ \A i, j \in DOMAIN order : order[i] = order[j] => i = j
  <2> HIDE DEF order, ids
  <2> QED BY <1>2, <1>6, RowOfSet
<1> DEFINE merged == [i \in DOMAIN order |-> Best(order[i])]
<1>8. MergeDedup(text, image) = merged
    BY DEF MergeDedup
<1> HIDE DEF order, ids
<1>9. Len(order) \in Nat /\ \A i \in 1..Len(order) : order[i] \in ids
    BY <1>7
<1>10. merged \in Seq(HitType) /\ Len(merged) = Len(order) /\ DOMAIN merged = DOMAIN order
  <2>1. \A i \in 1..Len(order) : Best(order[i]) \in HitType
    BY <1>3, <1>9
  <2>2. merged \in [1..Len(order) -> HitType]
    <3> HIDE DEF Best
    <3> QED BY <2>1, <1>7
  <2> HIDE DEF merged
  <2> QED BY <2>2, <1>7, <1>9, RowOfFunction
<1>11. \A i \in DOMAIN merged : \E j \in DOMAIN all : merged[i] = all[j]
  <2> SUFFICES ASSUME NEW i \in DOMAIN merged
               PROVE  \E j \in DOMAIN all : merged[i] = all[j]
    OBVIOUS
  <2>1. order[i] \in ids /\ merged[i] = all[ClosestAt(all, order[i])]
    BY <1>7, <1>9, <1>10
  <2>2. ClosestAt(all, order[i]) \in DOMAIN all
    BY <2>1, <1>3
  <2> HIDE DEF all, merged
  <2> QED BY <2>1, <2>2
<1>12. \A i, j \in DOMAIN merged : merged[i].id = merged[j].id => i = j
  <2> HIDE DEF Best
  <2> QED BY <1>3, <1>7, <1>9
<1>13. Len(merged) <= Len(text) + Len(image)
  <2> HIDE DEF merged, all
  <2> QED BY <1>1, <1>2, <1>7, <1>9, <1>10
<1> HIDE DEF merged
<1> QED BY <1>8, <1>10, <1>11, <1>12, <1>13

-----------------------------------------------------------------------------
\* Sums of shares are fractions, compared by cross-multiplication.
Fraction == Nat \X (Nat \ {0})

LEMMA MultiplyByPositive ==
    ASSUME NEW x \in Nat, NEW y \in Nat, NEW k \in Nat \ {0}
    PROVE  /\ x <= y <=> x * k <= y * k
           /\ x < y <=> x * k < y * k
           /\ x * k \in Nat
BY SMTT(30)

LEMMA Swap ==
    ASSUME NEW x \in Nat, NEW y \in Nat, NEW z \in Nat
    PROVE  (x * y) * z = (x * z) * y
BY SMTT(30)

LEMMA FractionOrder ==
    ASSUME NEW a \in Nat, NEW c \in Nat, NEW e \in Nat,
           NEW b \in Nat \ {0}, NEW d \in Nat \ {0}, NEW f \in Nat \ {0}
    PROVE  /\ a * d <= c * b /\ c * f <= e * d => a * f <= e * b
           /\ a * d < c * b /\ c * f <= e * d => a * f < e * b
           /\ a * d <= c * b /\ c * f < e * d => a * f < e * b
<1>1. /\ a * d \in Nat /\ c * b \in Nat /\ c * f \in Nat
      /\ e * d \in Nat /\ a * f \in Nat /\ e * b \in Nat
    BY MultiplyByPositive
<1>2. PICK ad \in Nat, cb \in Nat, cf \in Nat, ed \in Nat, af \in Nat, eb \in Nat :
        /\ ad = a * d /\ cb = c * b /\ cf = c * f /\ ed = e * d /\ af = a * f /\ eb = e * b
    BY <1>1
<1>3. ad * f = af * d /\ cb * f = cf * b /\ ed * b = eb * d
    BY <1>2, Swap
<1>4. /\ ad * f \in Nat /\ cb * f \in Nat /\ ed * b \in Nat
      /\ ad <= cb <=> ad * f <= cb * f
      /\ ad < cb <=> ad * f < cb * f
      /\ cf <= ed <=> cf * b <= ed * b
      /\ cf < ed <=> cf * b < ed * b
      /\ af <= eb <=> af * d <= eb * d
      /\ af < eb <=> af * d < eb * d
    BY MultiplyByPositive
<1>5. PICK u \in Nat, v \in Nat, w \in Nat : u = ad * f /\ v = cb * f /\ w = ed * b
    BY <1>4
<1>6. /\ ad <= cb <=> u <= v
      /\ ad < cb <=> u < v
      /\ cf <= ed <=> v <= w
      /\ cf < ed <=> v < w
      /\ af <= eb <=> u <= w
      /\ af < eb <=> u < w
    BY <1>3, <1>4, <1>5
<1>7. /\ ad <= cb /\ cf <= ed => af <= eb
      /\ ad < cb /\ cf <= ed => af < eb
      /\ ad <= cb /\ cf < ed => af < eb
    BY <1>6
<1> QED BY <1>2, <1>7

LEMMA LessOrders ==
    ASSUME NEW x \in Fraction, NEW y \in Fraction, NEW z \in Fraction
    PROVE  /\ ~ Less(x, x)
           /\ Less(x, y) => ~ Less(y, x)
           /\ ~ Less(y, x) /\ ~ Less(z, y) => ~ Less(z, x)
           /\ Less(x, y) /\ ~ Less(z, y) => Less(x, z)
           /\ ~ Less(y, x) /\ Less(y, z) => Less(x, z)
<1>1. PICK a \in Nat, c \in Nat, e \in Nat, b \in Nat \ {0}, d \in Nat \ {0}, f \in Nat \ {0} :
        x = <<a, b>> /\ y = <<c, d>> /\ z = <<e, f>>
    BY DEF Fraction
<1>2. /\ a * b \in Nat /\ a * d \in Nat /\ c * b \in Nat /\ c * f \in Nat
      /\ e * d \in Nat /\ a * f \in Nat /\ e * b \in Nat
    BY MultiplyByPositive
<1>3. /\ a * d <= c * b /\ c * f <= e * d => a * f <= e * b
      /\ a * d < c * b /\ c * f <= e * d => a * f < e * b
      /\ a * d <= c * b /\ c * f < e * d => a * f < e * b
    BY FractionOrder
<1>4. /\ Less(x, x) <=> a * b < a * b
      /\ Less(x, y) <=> a * d < c * b
      /\ Less(y, x) <=> c * b < a * d
      /\ Less(y, z) <=> c * f < e * d
      /\ Less(z, y) <=> e * d < c * f
      /\ Less(x, z) <=> a * f < e * b
      /\ Less(z, x) <=> e * b < a * f
    BY <1>1 DEF Less
<1>5. PICK ab \in Nat, ad \in Nat, cb \in Nat, cf \in Nat, ed \in Nat, af \in Nat, eb \in Nat :
        /\ ab = a * b /\ ad = a * d /\ cb = c * b
        /\ cf = c * f /\ ed = e * d /\ af = a * f /\ eb = e * b
    BY <1>2
<1>6. /\ Less(x, x) <=> ab < ab
      /\ Less(x, y) <=> ad < cb
      /\ Less(y, x) <=> cb < ad
      /\ Less(y, z) <=> cf < ed
      /\ Less(z, y) <=> ed < cf
      /\ Less(x, z) <=> af < eb
      /\ Less(z, x) <=> eb < af
      /\ ad <= cb /\ cf <= ed => af <= eb
      /\ ad < cb /\ cf <= ed => af < eb
      /\ ad <= cb /\ cf < ed => af < eb
    BY <1>3, <1>4, <1>5
<1> HIDE DEF Less
<1> QED BY <1>6

\* A score is a fraction: the share of a list is 1 / (K + rank), or 0.
LEMMA ShareFact ==
    ASSUME NEW list \in Seq(HitType), NEW id
    PROVE  /\ Share(list, id) \in Fraction
           /\ id \notin IdsOf(list) => Share(list, id) = <<0, 1>>
           /\ id \in IdsOf(list) =>
                Share(list, id) = <<1, K + FirstAt(list, id)>> /\ FirstAt(list, id) \in 1..Len(list)
<1>1. K \in Nat
    BY RankConstant
<1>2. CASE id \in IdsOf(list)
  <2>1. FirstAt(list, id) \in DOMAIN list /\ FirstAt(list, id) \in Nat \ {0}
    BY <1>2, FirstAtFact
  <2>2. Share(list, id) = <<1, K + FirstAt(list, id)>>
    BY <1>2 DEF Share
  <2>3. K + FirstAt(list, id) \in Nat \ {0}
    BY <1>1, <2>1
  <2> QED BY <1>2, <2>1, <2>2, <2>3 DEF Fraction
<1>3. CASE id \notin IdsOf(list)
  <2>1. Share(list, id) = <<0, 1>>
    BY <1>3 DEF Share
  <2> QED BY <1>3, <2>1 DEF Fraction
<1> QED BY <1>2, <1>3

LEMMA ScoreIsFraction ==
    ASSUME NEW dense \in Seq(HitType), NEW sp \in Seq(HitType), NEW id
    PROVE  Score(dense, sp, id) \in Fraction
<1>1. PICK a \in Nat, b \in Nat \ {0} : Share(dense, id) = <<a, b>>
    BY ShareFact DEF Fraction
<1>2. PICK c \in Nat, d \in Nat \ {0} : Share(sp, id) = <<c, d>>
    BY ShareFact DEF Fraction
<1>3. Score(dense, sp, id) = <<a * d + c * b, b * d>>
    BY <1>1, <1>2 DEF Score
<1>4. a * d \in Nat /\ c * b \in Nat
    BY MultiplyByPositive
<1>5. b * d \in Nat \ {0}
    BY SMTT(30)
<1> QED BY <1>3, <1>4, <1>5 DEF Fraction

\* One id goes before another by a higher score, or by being met earlier.
Leads(dense, sp, a, b) ==
    \/ Less(Score(dense, sp, b), Score(dense, sp, a))
    \/ /\ ~ Less(Score(dense, sp, a), Score(dense, sp, b))
       /\ FirstAt(dense \o sp, a) < FirstAt(dense \o sp, b)

\* _merge_text_rrf, whatever the two lists are: hits of theirs, each id once, in the
\* order of their scores, no longer than both together.
LEMMA MergeTextRrfFact ==
    ASSUME NEW dense \in Seq(HitType), NEW sp \in Seq(HitType)
    PROVE  LET m == MergeTextRrf(dense, sp)
           IN  /\ m \in Seq(HitType)
               /\ Len(m) <= Len(dense) + Len(sp)
               /\ \A i \in DOMAIN m : \E j \in DOMAIN (dense \o sp) : m[i] = (dense \o sp)[j]
               /\ \A i, j \in DOMAIN m : m[i].id = m[j].id => i = j
               /\ \A i, j \in DOMAIN m : i < j => Leads(dense, sp, m[i].id, m[j].id)
<1> DEFINE all == dense \o sp
           ids == IdsOf(all)
           Before(a, b) == Leads(dense, sp, a, b)
           order == InOrder(ids, Before)
           R == {ab \in ids \X ids : Before(ab[1], ab[2])}
<1>1. all \in Seq(HitType) /\ Len(all) = Len(dense) + Len(sp) /\ Len(all) \in Nat
    OBVIOUS
<1>2. IsFiniteSet(ids) /\ Cardinality(ids) <= Len(all)
  <2> HIDE DEF all
  <2> QED BY <1>1, IdsAreFinite
<1>3. \A id \in ids : /\ FirstAt(all, id) \in DOMAIN all
                      /\ FirstAt(all, id) \in Nat /\ all[FirstAt(all, id)].id = id
                      /\ all[FirstAt(all, id)] \in HitType
  <2> SUFFICES ASSUME NEW id \in ids
               PROVE  /\ FirstAt(all, id) \in DOMAIN all
                      /\ FirstAt(all, id) \in Nat /\ all[FirstAt(all, id)].id = id
                      /\ all[FirstAt(all, id)] \in HitType
    OBVIOUS
  <2> HIDE DEF all
  <2> QED BY <1>1, FirstAtFact
<1>4. \A a, b \in ids : <<a, b>> \in R <=> Before(a, b)
  <2> HIDE DEF Before, ids
  <2> QED OBVIOUS
<1>5. Orders(R, ids)
  <2> DEFINE S(id) == Score(dense, sp, id)
  <2>0. \A id \in ids : S(id) \in Fraction
    BY ScoreIsFraction
  <2>1. ASSUME NEW a \in ids PROVE ~ Before(a, a)
    <3>1. ~ Less(S(a), S(a))
      BY <2>0, LessOrders
    <3>2. ~ (FirstAt(all, a) < FirstAt(all, a))
      BY <1>3
    <3> QED BY <3>1, <3>2 DEF Leads
  <2>2. ASSUME NEW a \in ids, NEW b \in ids, a # b PROVE Before(a, b) \/ Before(b, a)
    <3>1. FirstAt(all, a) < FirstAt(all, b) \/ FirstAt(all, b) < FirstAt(all, a)
      <4>1. PICK m \in Nat, n \in Nat : m = FirstAt(all, a) /\ n = FirstAt(all, b)
        BY <1>3
      <4>2. m # n
        BY <4>1, <1>3, <2>2
      <4> QED BY <4>1, <4>2
    <3> HIDE DEF S
    <3> QED BY <3>1 DEF Leads, S
  <2>3. ASSUME NEW a \in ids, NEW b \in ids, NEW c \in ids, Before(a, b), Before(b, c)
        PROVE  Before(a, c)
    <3>1. PICK m \in Nat, n \in Nat, k \in Nat :
            m = FirstAt(all, a) /\ n = FirstAt(all, b) /\ k = FirstAt(all, c)
      BY <1>3
    <3>2. PICK x \in Fraction, y \in Fraction, z \in Fraction :
            x = S(a) /\ y = S(b) /\ z = S(c)
      BY <2>0
    <3>3. /\ Less(y, x) \/ (~ Less(x, y) /\ m < n)
          /\ Less(z, y) \/ (~ Less(y, z) /\ n < k)
      BY <2>3, <3>1, <3>2 DEF Leads
    <3>4. Less(z, x) \/ (~ Less(x, z) /\ m < k)
      <4>1. m < n /\ n < k => m < k
        OBVIOUS
      <4>2. ~ Less(x, y) /\ ~ Less(y, z) => ~ Less(x, z)
        BY LessOrders
      <4>3. Less(z, y) /\ ~ Less(x, y) => Less(z, x)
        BY LessOrders
      <4>4. ~ Less(y, z) /\ Less(y, x) => Less(z, x)
        BY LessOrders
      <4>5. Less(y, x) => ~ Less(x, y)
        BY LessOrders
      <4> QED BY <3>3, <4>1, <4>2, <4>3, <4>4, <4>5
    <3> QED BY <3>1, <3>2, <3>4 DEF Leads
  <2> HIDE DEF Before, ids, R
  <2> QED BY <1>4, <2>1, <2>2, <2>3 DEF Orders
<1>6. /\ order \in SetToSeqs(ids)
      /\ \A i, j \in DOMAIN order : i < j => Before(order[i], order[j])
  <2>1. \E s \in SetToSeqs(ids) : \A i, j \in DOMAIN s : i < j => <<s[i], s[j]>> \in R
    <3> HIDE DEF ids, R
    <3> QED BY <1>2, <1>5, RowExists
  <2>2. \E s \in SetToSeqs(ids) : \A i, j \in DOMAIN s : i < j => Before(s[i], s[j])
    <3> HIDE DEF Before
    <3> QED BY <2>1
  <2> HIDE DEF Before, ids
  <2> QED BY <2>2 DEF InOrder
<1>7. /\ order \in Seq(ids) /\ Len(order) = Cardinality(ids) /\ DOMAIN order = 1..Len(order)
      /\ \A i, j \in DOMAIN order : order[i] = order[j] => i = j
  <2> HIDE DEF order, ids
  <2> QED BY <1>2, <1>6, RowOfSet
<1> DEFINE First(id) == all[FirstAt(all, id)]
           merged == [i \in DOMAIN order |-> First(order[i])]
<1>8. MergeTextRrf(dense, sp) = merged
    BY DEF MergeTextRrf, Leads
<1> HIDE DEF order, ids
<1>9. Len(order) \in Nat /\ \A i \in 1..Len(order) : order[i] \in ids
    BY <1>7
<1>10. merged \in Seq(HitType) /\ Len(merged) = Len(order) /\ DOMAIN merged = DOMAIN order
  <2>1. \A i \in 1..Len(order) : First(order[i]) \in HitType
    BY <1>3, <1>9
  <2>2. merged \in [1..Len(order) -> HitType]
    <3> HIDE DEF First
    <3> QED BY <2>1, <1>7
  <2> HIDE DEF merged
  <2> QED BY <2>2, <1>7, <1>9, RowOfFunction
<1>11. \A i \in DOMAIN merged : \E j \in DOMAIN all : merged[i] = all[j]
  <2> SUFFICES ASSUME NEW i \in DOMAIN merged
               PROVE  \E j \in DOMAIN all : merged[i] = all[j]
    OBVIOUS
  <2>1. order[i] \in ids /\ merged[i] = all[FirstAt(all, order[i])]
    BY <1>7, <1>9, <1>10
  <2>2. FirstAt(all, order[i]) \in DOMAIN all
    BY <2>1, <1>3
  <2> HIDE DEF all, merged
  <2> QED BY <2>1, <2>2
<1>12. \A i \in DOMAIN merged : merged[i].id = order[i]
    BY <1>3, <1>7, <1>9, <1>10
<1>13. \A i, j \in DOMAIN merged : merged[i].id = merged[j].id => i = j
  <2> HIDE DEF merged
  <2> QED BY <1>7, <1>10, <1>12
<1>14. \A i, j \in DOMAIN merged : i < j => Leads(dense, sp, merged[i].id, merged[j].id)
  <2> HIDE DEF merged
  <2> QED BY <1>6, <1>10, <1>12
<1>15. Len(merged) <= Len(dense) + Len(sp)
  <2> HIDE DEF merged, all
  <2> QED BY <1>1, <1>2, <1>7, <1>9, <1>10
<1> HIDE DEF merged
<1> QED BY <1>8, <1>10, <1>11, <1>13, <1>14, <1>15

LEMMA Commute ==
    ASSUME NEW x \in Nat, NEW y \in Nat
    PROVE  x * y = y * x
BY SMTT(30)

LEMMA Distribute ==
    ASSUME NEW x \in Nat, NEW y \in Nat, NEW z \in Nat
    PROVE  (x + y) * z = x * z + y * z
BY SMTT(30)

LEMMA PositiveProduct ==
    /\ \A x, y \in Nat : x * y \in Nat
    /\ \A x, y \in Nat : x > 0 /\ y > 0 => x * y > 0
BY SMTT(30)

LEMMA Rearrange ==
    ASSUME NEW x \in Nat, NEW y \in Nat, NEW z \in Nat
    PROVE  x * (y * z) = y * (x * z) /\ x * (y * z) = z * (y * x)
BY SMTT(30)

\* A hit that both lists have goes before one of a single list, as long as the lists
\* are no longer than K + 1, and before one that is behind it in both.
LEMMA AgreementScores ==
    ASSUME NEW dense \in Seq(HitType), NEW sp \in Seq(HitType), NEW a, NEW b,
           Len(dense) <= K + 1, Len(sp) <= K + 1,
           a \in IdsOf(dense), a \in IdsOf(sp), b \in IdsOf(dense) \/ b \in IdsOf(sp),
           b \in IdsOf(dense) /\ b \in IdsOf(sp) =>
               FirstAt(dense, a) < FirstAt(dense, b) /\ FirstAt(sp, a) < FirstAt(sp, b)
    PROVE  Less(Score(dense, sp, b), Score(dense, sp, a))
<1>1. K \in Nat \ {0} /\ Len(dense) \in Nat /\ Len(sp) \in Nat
    BY RankConstant
<1>2. PICK A \in Nat, B \in Nat :
        /\ A = K + FirstAt(dense, a) /\ B = K + FirstAt(sp, a)
        /\ A >= K + 1 /\ A <= 2 * K + 1 /\ B >= K + 1 /\ B <= 2 * K + 1
        /\ Share(dense, a) = <<1, A>> /\ Share(sp, a) = <<1, B>>
  <2>1. FirstAt(dense, a) \in 1..Len(dense) /\ Share(dense, a) = <<1, K + FirstAt(dense, a)>>
    BY ShareFact
  <2>2. FirstAt(sp, a) \in 1..Len(sp) /\ Share(sp, a) = <<1, K + FirstAt(sp, a)>>
    BY ShareFact
  <2> QED BY <1>1, <2>1, <2>2
<1>3. Score(dense, sp, a) = <<B + A, A * B>>
    BY <1>2 DEF Score
<1>4. CASE b \in IdsOf(dense) /\ b \in IdsOf(sp)
  <2>1. PICK C \in Nat, D \in Nat :
          /\ Share(dense, b) = <<1, C>> /\ Share(sp, b) = <<1, D>>
          /\ A < C /\ B < D
    <3>1. FirstAt(dense, b) \in 1..Len(dense) /\ Share(dense, b) = <<1, K + FirstAt(dense, b)>>
      BY <1>4, ShareFact
    <3>2. FirstAt(sp, b) \in 1..Len(sp) /\ Share(sp, b) = <<1, K + FirstAt(sp, b)>>
      BY <1>4, ShareFact
    <3>3. FirstAt(dense, a) \in 1..Len(dense) /\ FirstAt(sp, a) \in 1..Len(sp)
      BY ShareFact
    <3>4. PICK i \in Nat, j \in Nat, k \in Nat, l \in Nat :
            /\ i = FirstAt(dense, a) /\ j = FirstAt(sp, a)
            /\ k = FirstAt(dense, b) /\ l = FirstAt(sp, b)
      BY <1>1, <3>1, <3>2, <3>3
    <3>5. A < K + k /\ B < K + l /\ K + k \in Nat /\ K + l \in Nat
      <4>1. i < k /\ j < l
        BY <1>4, <3>4
      <4>2. A = K + i /\ B = K + j
        BY <1>2, <3>4
      <4> QED BY <1>1, <4>1, <4>2
    <3> QED BY <3>1, <3>2, <3>4, <3>5
  <2>2. Score(dense, sp, b) = <<D + C, C * D>>
    BY <2>1 DEF Score
  <2>3. (D + C) * (A * B) < (B + A) * (C * D)
    <3>1. A > 0 /\ B > 0 /\ C > 0 /\ D > 0
      BY <1>1, <1>2, <2>1
    <3>2. C * (A * B) < A * (C * D)
      <4>1. B * (A * C) < D * (A * C)
        BY <2>1, <3>1, PositiveProduct, MultiplyByPositive
      <4> QED BY <4>1, Rearrange
    <3>3. D * (A * B) < B * (C * D)
      <4>1. A * (B * D) < C * (B * D)
        BY <2>1, <3>1, PositiveProduct, MultiplyByPositive
      <4> QED BY <4>1, Rearrange
    <3>4. A * B \in Nat /\ C * D \in Nat
      BY <3>1, PositiveProduct
    <3>5. /\ (D + C) * (A * B) = D * (A * B) + C * (A * B)
          /\ (B + A) * (C * D) = B * (C * D) + A * (C * D)
      BY <3>4, Distribute
    <3>6. PICK p \in Nat, q \in Nat, r \in Nat, t \in Nat :
            /\ p = D * (A * B) /\ q = C * (A * B) /\ r = B * (C * D) /\ t = A * (C * D)
      BY <3>1, PositiveProduct
    <3>7. p + q < r + t
      BY <3>2, <3>3, <3>6
    <3> QED BY <3>5, <3>6, <3>7
  <2> QED BY <1>3, <2>2, <2>3 DEF Less
<1>5. ASSUME NEW C \in Nat, C >= K + 1
      PROVE  A * B < (B + A) * C
  <2>1. A > 0 /\ B > 0 /\ C > 0 /\ A < C + C /\ B < C + C
    BY <1>1, <1>2, <1>5
  <2>2. (B + A) * C = B * C + A * C
    BY Distribute
  <2>3. PICK ab \in Nat, ac \in Nat, bc \in Nat : ab = A * B /\ ac = A * C /\ bc = B * C
    BY <2>1, PositiveProduct
  <2>4. CASE A <= B
    <3>1. B * A < (C + C) * A
      BY <2>1, MultiplyByPositive
    <3>2. ac <= bc
      BY <2>1, <2>3, <2>4, MultiplyByPositive
    <3>3. (C + C) * A = C * A + C * A
      BY Distribute
    <3>4. B * A = ab /\ C * A = ac
      BY <2>3, Commute
    <3>5. ab < ac + ac
      BY <3>1, <3>3, <3>4
    <3>6. ab < bc + ac
      BY <3>2, <3>5
    <3> QED BY <2>2, <2>3, <3>6
  <2>5. CASE B <= A
    <3>1. A * B < (C + C) * B
      BY <2>1, MultiplyByPositive
    <3>2. bc <= ac
      BY <2>1, <2>3, <2>5, MultiplyByPositive
    <3>3. (C + C) * B = C * B + C * B
      BY Distribute
    <3>4. C * B = bc
      BY <2>3, Commute
    <3>5. ab < bc + bc
      BY <2>3, <3>1, <3>3, <3>4
    <3>6. ab < bc + ac
      BY <3>2, <3>5
    <3> QED BY <2>2, <2>3, <3>6
  <2> QED BY <2>4, <2>5
<1>6. CASE b \in IdsOf(dense) /\ b \notin IdsOf(sp)
  <2>1. PICK C \in Nat : Share(dense, b) = <<1, C>> /\ C >= K + 1
    BY <1>1, <1>6, ShareFact
  <2>2. Share(sp, b) = <<0, 1>>
    BY <1>6, ShareFact
  <2>3. Score(dense, sp, b) = <<1, C>>
    BY <2>1, <2>2 DEF Score
  <2>4. 1 * (A * B) < (B + A) * C
    BY <1>5, <2>1, <1>2
  <2> QED BY <1>3, <2>3, <2>4 DEF Less
<1>7. CASE b \notin IdsOf(dense) /\ b \in IdsOf(sp)
  <2>1. PICK C \in Nat : Share(sp, b) = <<1, C>> /\ C >= K + 1
    BY <1>1, <1>7, ShareFact
  <2>2. Share(dense, b) = <<0, 1>>
    BY <1>7, ShareFact
  <2>3. Score(dense, sp, b) = <<1, C>>
    BY <2>1, <2>2 DEF Score
  <2>4. 1 * (A * B) < (B + A) * C
    BY <1>5, <2>1, <1>2
  <2> QED BY <1>3, <2>3, <2>4 DEF Less
<1> QED BY <1>4, <1>6, <1>7

-----------------------------------------------------------------------------
(* The candidates of a search: named after their products, each product   *)
(* once, and as many as two lists of NCandidates have.                     *)

Named(list) == \A i \in DOMAIN list : list[i].id = ProductId(list[i].product)

RankingInv ==
    /\ NoProductTwice
    /\ pc \in SearchStep \ {"search_text"} => Named(found)
    /\ pc = "search_image" => Len(found) <= NCandidates
    /\ pc \in {"search_bm25", "fuse"} => Len(found) <= NCandidates + NCandidates
    /\ pc = "fuse" => Named(sparse) /\ Len(sparse) <= NCandidates

\* What becomes a card of a recommendation was on offer when it became a candidate.
StockInv ==
    /\ pc = "structured" => intent # "SEMANTIC_SEARCH"
    /\ pc \in {"rerank", "generate"} =>
        \A i \in DOMAIN found : sale[found[i].product] # "sold_out"
    /\ pc \in {"guard", "retry", "append"} /\ intent = "SEMANTIC_SEARCH" /\ raw.by # "lookup" =>
        \A p \in hits : sale[p] # "sold_out"

-----------------------------------------------------------------------------
(* Types.                                                                  *)

LEMMA SaysIsAnswer ==
    ASSUME NEW by \in Author, NEW names \in SUBSET Product, NEW prices \in SUBSET Price
    PROVE  Says(by, names, prices) \in Answer
BY DEF Says, Answer

LEMMA FixedTextsAreAnswers == {NoAnswer, Notice, NotFound, Fallback} \subseteq Answer
<1>1. Notice \in Answer /\ NoAnswer \in Answer /\ Fallback \in Answer
    BY SaysIsAnswer DEF Notice, NoAnswer, Fallback, Author
<1>2. NotFound \in Answer
    BY <1>1 DEF NotFound, Answer
<1> QED BY <1>1, <1>2

LEMMA TextsAreAnswers ==
    /\ \A by \in {"llm", "retry"} : ProductText(by) \subseteq Answer
    /\ SmallTalkText \subseteq Answer
<1>1. ASSUME NEW by \in {"llm", "retry"}, NEW a \in ProductText(by)
      PROVE  a \in Answer
    BY DEF ProductText, Answer, Author
<1>2. ASSUME NEW a \in SmallTalkText
      PROVE  a \in Answer
  <2>1. PICK names \in SUBSET Product, prices \in SUBSET Price, c \in BOOLEAN :
            a = [Says("llm", names, prices) EXCEPT !.claims = c]
    BY DEF SmallTalkText
  <2>2. Says("llm", names, prices) \in Answer
    BY SaysIsAnswer DEF Author
  <2> QED BY <2>1, <2>2 DEF Answer
<1> QED BY <1>1, <1>2

LEMMA ToGuardKeepsTypes ==
    ASSUME TypeOK, NEW answer \in Answer, NEW cards \in SUBSET Product, ToGuard(answer, cards)
    PROVE  TypeOK'
<1>1. /\ raw' \in Answer /\ hits' \in SUBSET Product /\ pc' \in Pc
      /\ found' \in Seq(HitType) /\ sparse' \in Seq(HitType)
    BY DEF ToGuard, Pc
<1>2. UNCHANGED <<guest, sale, said, turn, question, intent, final>>
    BY DEF ToGuard, conversation
<1> QED BY <1>1, <1>2 DEF TypeOK

LEMMA GoOnKeepsTypes ==
    ASSUME TypeOK, NEW step \in Pc, GoOn(step), found' \in Seq(HitType), sparse' \in Seq(HitType)
    PROVE  TypeOK'
<1>1. UNCHANGED <<guest, sale, said, turn, question, intent, hits, raw, final>> /\ pc' = step
    BY DEF GoOn, conversation
<1> QED BY <1>1 DEF TypeOK

\* The lists that a search may return: hits of the catalogue under the ids asked for.
LEMMA PermutationFact ==
    ASSUME NEW S, IsFiniteSet(S), NEW s \in SetToAllKPermutations(S)
    PROVE  /\ s \in Seq(S) /\ Len(s) \in Nat /\ DOMAIN s = 1..Len(s)
           /\ \A i, j \in DOMAIN s : s[i] = s[j] => i = j
<1>1. PICK U \in SUBSET S : s \in SetToSeqs(U)
    BY DEF SetToAllKPermutations
<1>2. IsFiniteSet(U)
    BY FS_Subset
<1>3. /\ s \in Seq(U) /\ DOMAIN s = 1..Len(s)
      /\ \A i, j \in DOMAIN s : s[i] = s[j] => i = j
    BY <1>1, <1>2, RowOfSet
<1> QED BY <1>3

Ids == Product \X (0..2)

LEMMA IdSets ==
    /\ IsFiniteSet(TextIds) /\ TextIds \subseteq Ids
    /\ IsFiniteSet(ProductIds) /\ ProductIds \subseteq Ids
<1>1. IsFiniteSet(Ids)
  <2>1. IsFiniteSet(0..2)
    <3>1. 0 \in Int /\ 2 \in Int
      OBVIOUS
    <3> QED BY <3>1, FS_Interval
  <2> QED BY <2>1, AnswerGraphAssumption, FS_Product DEF Ids
<1>2. TextIds \subseteq Ids
    BY DEF TextIds, ChunkId, ProductId, Ids
<1>3. ProductIds \subseteq Ids
    BY DEF ProductIds, ProductId, Ids
<1> QED BY <1>1, <1>2, <1>3, FS_Subset

LEMMA NCandidatesIsNat == NCandidates \in Nat
BY AnswerGraphAssumption DEF NCandidates

LEMMA HitIsTyped ==
    ASSUME NEW id \in Ids, NEW d \in 0..MaxDistance, NEW store \in Store
    PROVE  /\ Hit(id, id[1], d, store) \in HitType
           /\ Hit(id, id[1], d, store).id = id
           /\ Hit(id, id[1], d, store).product = id[1]
BY DEF Hit, HitType, Ids

LEMMA RankedFact ==
    ASSUME NEW ids \in SUBSET Ids, IsFiniteSet(ids), NEW store \in Store,
           NEW t \in Ranked(ids, store)
    PROVE  /\ t \in Seq(HitType) /\ Len(t) <= NCandidates
           /\ \A i \in DOMAIN t : t[i].id \in ids /\ t[i].product = t[i].id[1]
<1>1. PICK s \in {u \in SetToAllKPermutations(ids) : Len(u) <= NCandidates} :
        \E d \in [1..Len(s) -> 1..MaxDistance] :
            t = [i \in 1..Len(s) |-> Hit(s[i], s[i][1], d[i], store)]
    BY DEF Ranked
<1>2. PICK d \in [1..Len(s) -> 1..MaxDistance] :
            t = [i \in 1..Len(s) |-> Hit(s[i], s[i][1], d[i], store)]
    BY <1>1
<1>3. s \in Seq(ids) /\ Len(s) \in Nat /\ Len(s) <= NCandidates
    BY PermutationFact
<1>4. \A i \in 1..Len(s) : s[i] \in ids /\ s[i] \in Ids /\ d[i] \in 0..MaxDistance
    BY <1>3, AnswerGraphAssumption
<1>5. \A i \in 1..Len(s) : t[i] \in HitType /\ t[i].id = s[i] /\ t[i].product = s[i][1]
    BY <1>2, <1>4, HitIsTyped
<1>6. t \in [1..Len(s) -> HitType]
  <2>1. DOMAIN t = 1..Len(s) /\ t = [i \in DOMAIN t |-> t[i]]
    BY <1>2
  <2> QED BY <1>5, <2>1
<1>7. t \in Seq(HitType) /\ Len(t) = Len(s) /\ DOMAIN t = 1..Len(s)
    BY <1>3, <1>6
<1> QED BY <1>3, <1>4, <1>5, <1>7

LEMMA NormaliseFact ==
    ASSUME NEW t \in Seq(HitType)
    PROVE  /\ NormaliseIds(t) \in Seq(HitType) /\ Len(NormaliseIds(t)) = Len(t)
           /\ Named(NormaliseIds(t))
<1> DEFINE n == [i \in DOMAIN t |-> [t[i] EXCEPT !.id = ProductId(t[i].product)]]
<1>1. NormaliseIds(t) = n
    BY DEF NormaliseIds
<1>2. \A i \in 1..Len(t) : /\ n[i] \in HitType
                           /\ n[i].id = ProductId(n[i].product)
  <2> SUFFICES ASSUME NEW i \in 1..Len(t)
               PROVE  n[i] \in HitType /\ n[i].id = ProductId(n[i].product)
    OBVIOUS
  <2>1. t[i] \in HitType
    OBVIOUS
  <2>2. ProductId(t[i].product) \in Product \X (0..2)
    BY <2>1 DEF HitType, ProductId
  <2>3. n[i] = [t[i] EXCEPT !.id = ProductId(t[i].product)]
    OBVIOUS
  <2> HIDE DEF n
  <2> QED BY <2>1, <2>2, <2>3 DEF HitType
<1>3. n \in [1..Len(t) -> HitType]
  <2>1. DOMAIN n = 1..Len(t) /\ n = [i \in DOMAIN n |-> n[i]]
    OBVIOUS
  <2> HIDE DEF n
  <2> QED BY <1>2, <2>1
<1>4. n \in Seq(HitType) /\ Len(n) = Len(t) /\ DOMAIN n = 1..Len(t)
  <2> HIDE DEF n
  <2> QED BY <1>3
<1> HIDE DEF n
<1> QED BY <1>1, <1>2, <1>4 DEF Named

\* Named hits stay so in whatever list is made of them, and hits that are named after
\* their products have different products when they have different ids.
LEMMA NamedParts ==
    ASSUME NEW list \in Seq(HitType), NEW part \in Seq(HitType), Named(list),
           \A i \in DOMAIN part : \E j \in DOMAIN list : part[i] = list[j]
    PROVE  Named(part)
BY DEF Named

LEMMA NamedJoined ==
    ASSUME NEW a \in Seq(HitType), NEW b \in Seq(HitType), Named(a), Named(b)
    PROVE  Named(a \o b)
BY DEF Named

Once(list) == \A i, j \in DOMAIN list : list[i].product = list[j].product => i = j

LEMMA NamedOnce ==
    ASSUME NEW list, Named(list),
           \A i, j \in DOMAIN list : list[i].id = list[j].id => i = j
    PROVE  Once(list)
BY DEF Named, Once, ProductId

-----------------------------------------------------------------------------
(* The pipeline keeps the types and the ranking.                           *)

SearchInv == TypeOK /\ RankingInv

\* What one merge makes of named hits.
LEMMA MergeKeepsNames ==
    ASSUME NEW a \in Seq(HitType), NEW b \in Seq(HitType), Named(a), Named(b)
    PROVE  LET m == MergeDedup(a, b)
           IN  m \in Seq(HitType) /\ Len(m) <= Len(a) + Len(b) /\ Named(m) /\ Once(m)
<1>1. a \o b \in Seq(HitType) /\ Named(a \o b)
    BY NamedJoined
<1> DEFINE m == MergeDedup(a, b)
<1>2. /\ m \in Seq(HitType) /\ Len(m) <= Len(a) + Len(b)
      /\ \A i \in DOMAIN m : \E j \in DOMAIN (a \o b) : m[i] = (a \o b)[j]
      /\ \A i, j \in DOMAIN m : m[i].id = m[j].id => i = j
    BY MergeDedupFact
<1> HIDE DEF m
<1>3. Named(m)
    BY <1>1, <1>2, NamedParts
<1> QED BY <1>2, <1>3, NamedOnce DEF m

LEMMA FusionKeepsNames ==
    ASSUME NEW a \in Seq(HitType), NEW b \in Seq(HitType), Named(a), Named(b)
    PROVE  LET m == MergeTextRrf(a, b)
           IN  /\ m \in Seq(HitType) /\ Len(m) <= Len(a) + Len(b) /\ Named(m) /\ Once(m)
               /\ \A i, j \in DOMAIN m : i < j => Leads(a, b, m[i].id, m[j].id)
<1>1. a \o b \in Seq(HitType) /\ Named(a \o b)
    BY NamedJoined
<1> DEFINE m == MergeTextRrf(a, b)
<1>2. /\ m \in Seq(HitType) /\ Len(m) <= Len(a) + Len(b)
      /\ \A i \in DOMAIN m : \E j \in DOMAIN (a \o b) : m[i] = (a \o b)[j]
      /\ \A i, j \in DOMAIN m : m[i].id = m[j].id => i = j
      /\ \A i, j \in DOMAIN m : i < j => Leads(a, b, m[i].id, m[j].id)
    BY MergeTextRrfFact
<1> HIDE DEF m
<1>3. Named(m)
    BY <1>1, <1>2, NamedParts
<1> QED BY <1>2, <1>3, NamedOnce DEF m

\* What is not on offer leaves the ranking, and the rest keeps its order.
LEMMA OfferableFact ==
    ASSUME NEW all \in Seq(HitType)
    PROVE  LET places == InOrder({i \in DOMAIN all : Offerable(all[i])}, <)
           IN  /\ places \in Seq(DOMAIN all) /\ Len(places) \in Nat
               /\ DOMAIN places = 1..Len(places)
               /\ \A i \in DOMAIN places : Offerable(all[places[i]])
               /\ \A i, j \in DOMAIN places : i < j => places[i] < places[j]
<1> DEFINE S == {i \in DOMAIN all : Offerable(all[i])}
           R == {ij \in S \X S : ij[1] < ij[2]}
           places == InOrder(S, <)
<1>1. S \subseteq 1..Len(all) /\ S \subseteq Nat /\ Len(all) \in Nat
    OBVIOUS
<1>2. IsFiniteSet(S)
  <2>1. \A i \in S : i <= Len(all)
    BY <1>1
  <2> HIDE DEF S
  <2> QED BY <1>1, <2>1, FS_BoundedSetOfNaturals
<1> HIDE DEF S
<1>3. \A i, j \in S : <<i, j>> \in R <=> i < j
    OBVIOUS
<1>4. Orders(R, S)
  <2>1. \A i \in S : ~ (i < i)
    BY <1>1
  <2>2. \A i, j \in S : i # j => i < j \/ j < i
    BY <1>1
  <2>3. \A i, j, k \in S : i < j /\ j < k => i < k
    BY <1>1
  <2> HIDE DEF R
  <2> QED BY <1>3, <2>1, <2>2, <2>3 DEF Orders
<1>5. \E s \in SetToSeqs(S) : \A i, j \in DOMAIN s : i < j => s[i] < s[j]
  <2>1. PICK s \in SetToSeqs(S) : \A i, j \in DOMAIN s : i < j => <<s[i], s[j]>> \in R
    <3> HIDE DEF R
    <3> QED BY <1>2, <1>4, RowExists
  <2>2. \A i, j \in DOMAIN s : i < j => s[i] < s[j]
    BY <2>1
  <2> QED BY <2>2
<1>6. places \in SetToSeqs(S) /\ \A i, j \in DOMAIN places : i < j => places[i] < places[j]
    BY <1>5 DEF InOrder
<1>7. places \in Seq(S) /\ DOMAIN places = 1..Len(places)
  <2> HIDE DEF places
  <2> QED BY <1>2, <1>6, RowOfSet
<1>8. Len(places) \in Nat /\ \A i \in 1..Len(places) : places[i] \in S
  <2> HIDE DEF places
  <2> QED BY <1>7
<1>9. \A i \in S : i \in DOMAIN all /\ Offerable(all[i])
    BY DEF S
<1>10. places \in Seq(DOMAIN all)
  <2> HIDE DEF places
  <2> QED BY <1>7, <1>8, <1>9
<1> QED BY <1>6, <1>7, <1>8, <1>9, <1>10 DEF S

LEMMA OutsideTheSearch ==
    ASSUME pc' \notin SearchStep \ {"search_text"}
    PROVE  RankingInv'
BY DEF RankingInv, NoProductTwice, SearchStep

LEMMA ToGuardKeepsSearch ==
    ASSUME TypeOK, NEW answer \in Answer, NEW cards \in SUBSET Product, ToGuard(answer, cards)
    PROVE  SearchInv'
<1>1. TypeOK'
    BY ToGuardKeepsTypes
<1>2. pc' \notin SearchStep \ {"search_text"}
    BY DEF ToGuard, SearchStep
<1> QED BY <1>1, <1>2, OutsideTheSearch DEF SearchInv

LEMMA SearchInit == Init => SearchInv
<1> SUFFICES ASSUME Init PROVE SearchInv
    OBVIOUS
<1>1. <<>> \in Seq(HitType) /\ 0 \in 0..MaxTurns
    BY AnswerGraphAssumption
<1>2. TypeOK
    BY <1>1, FixedTextsAreAnswers DEF Init, TypeOK, Question, Intent, Pc
<1>3. RankingInv
    BY DEF Init, RankingInv, NoProductTwice, SearchStep
<1> QED BY <1>2, <1>3 DEF SearchInv

LEMMA HandlersKeepSearch ==
    ASSUME SearchInv, Structured \/ Faq \/ FixedText \/ Order \/ RefundNotice \/ Chat
    PROVE  SearchInv'
<1>1. TypeOK /\ hits \in SUBSET Product
    BY DEF SearchInv, TypeOK
<1>2. Notice \in Answer /\ NotFound \in Answer
    BY FixedTextsAreAnswers
<1>3. CASE Structured
  <2>1. PICK S \in Selections :
          IF S = {} THEN ToGuard(NotFound, hits)
          ELSE ToGuard(Says("template", S, PricesOf(S)), S)
    BY <1>3 DEF Structured
  <2>2. S \in SUBSET Product /\ PricesOf(S) \in SUBSET Price
    BY AnswerGraphAssumption DEF Selections, PricesOf
  <2>3. Says("template", S, PricesOf(S)) \in Answer
    BY <2>2, SaysIsAnswer DEF Author
  <2> QED BY <1>1, <1>2, <2>1, <2>2, <2>3, ToGuardKeepsSearch
<1>4. CASE Faq \/ FixedText \/ RefundNotice
  <2>1. ToGuard(Notice, hits)
    BY <1>4 DEF Faq, FixedText, RefundNotice
  <2> QED BY <1>1, <1>2, <2>1, ToGuardKeepsSearch
<1>5. CASE Order
  <2>1. PICK a \in OrderTexts : ToGuard(a, hits)
    BY <1>5 DEF Order
  <2>2. a \in Answer
    BY SaysIsAnswer DEF OrderTexts, Author
  <2> QED BY <1>1, <2>1, <2>2, ToGuardKeepsSearch
<1>6. CASE Chat
  <2>1. PICK a \in SmallTalkText : ToGuard(a, hits)
    BY <1>6 DEF Chat
  <2>2. a \in Answer
    BY TextsAreAnswers
  <2> QED BY <1>1, <2>1, <2>2, ToGuardKeepsSearch
<1> QED BY <1>3, <1>4, <1>5, <1>6

\* The rules of semantic_node, and the answer from the candidates.
LEMMA SemanticKeepsSearch ==
    ASSUME SearchInv, Compare \/ LookUp \/ Generate
    PROVE  SearchInv'
<1>1. TypeOK /\ found \in Seq(HitType)
    BY DEF SearchInv, TypeOK
<1>2. \A p \in Product : PriceOf[p] \in Price
    BY AnswerGraphAssumption
<1>3. CASE Compare
  <2>1. PICK p \in Mentioned : ToGuard(Says("comparison", {p}, {PriceOf[p]}), Mentioned)
    BY <1>3 DEF Compare
  <2>2. p \in Product /\ Mentioned \in SUBSET Product
    BY DEF Mentioned
  <2>3. Says("comparison", {p}, {PriceOf[p]}) \in Answer
    BY <1>2, <2>2, SaysIsAnswer DEF Author
  <2> QED BY <1>1, <2>1, <2>2, <2>3, ToGuardKeepsSearch
<1>4. CASE LookUp
  <2>1. CASE ToGuard(Notice, {})
    BY <1>1, <2>1, FixedTextsAreAnswers, ToGuardKeepsSearch
  <2>2. ASSUME NEW p \in Product, NEW P \in {{PriceOf[p]}, {}},
               ToGuard(Says("lookup", {p}, P), {p})
        PROVE  SearchInv'
    <3>1. Says("lookup", {p}, P) \in Answer
      BY <1>2, SaysIsAnswer DEF Author
    <3> QED BY <1>1, <2>2, <3>1, ToGuardKeepsSearch
  <2> QED BY <1>4, <2>1, <2>2 DEF LookUp
<1>5. CASE Generate
  <2>1. PICK a \in ProductText("llm") : ToGuard(a, NamedIn(a, ProductsOf(found)))
    BY <1>5 DEF Generate
  <2>2. a \in Answer
    BY TextsAreAnswers
  <2>3. NamedIn(a, ProductsOf(found)) \in SUBSET Product
    BY <2>2 DEF NamedIn, Answer
  <2> QED BY <1>1, <2>1, <2>2, <2>3, ToGuardKeepsSearch
<1> QED BY <1>3, <1>4, <1>5

\* The three searches.
LEMMA SearchesKeepSearch ==
    ASSUME SearchInv, SearchText \/ SearchImage \/ SearchBm25
    PROVE  SearchInv'
<1>1. TypeOK /\ found \in Seq(HitType) /\ sparse \in Seq(HitType)
    BY DEF SearchInv, TypeOK
<1>2. NCandidates \in Nat
    BY NCandidatesIsNat
<1>3. CASE SearchText
  <2>1. PICK t \in TextLists : found' = MergeDedup(NormaliseIds(t), <<>>)
    BY <1>3 DEF SearchText
  <2>2. t \in Seq(HitType) /\ Len(t) <= NCandidates
    <3>1. t \in Ranked(TextIds, "text")
      BY DEF TextLists
    <3> QED BY <3>1, IdSets, RankedFact DEF Store
  <2>3. /\ NormaliseIds(t) \in Seq(HitType) /\ Len(NormaliseIds(t)) = Len(t)
        /\ Named(NormaliseIds(t))
    BY <2>2, NormaliseFact
  <2>4. <<>> \in Seq(HitType) /\ Len(<<>>) = 0 /\ Named(<<>>)
    BY DEF Named
  <2>5. /\ found' \in Seq(HitType) /\ Len(found') <= Len(t) + 0
        /\ Named(found') /\ Once(found')
    BY <2>1, <2>3, <2>4, MergeKeepsNames
  <2>6. Len(found') <= NCandidates
    BY <1>2, <2>2, <2>5
  <2>7. sparse' = sparse /\ GoOn("search_image") /\ pc' = "search_image"
    BY <1>3 DEF SearchText, GoOn
  <2>8. TypeOK'
    BY <1>1, <2>5, <2>7, GoOnKeepsTypes DEF Pc, SearchStep
  <2>9. RankingInv'
    BY <2>5, <2>6, <2>7 DEF RankingInv, NoProductTwice, Named, Once
  <2> QED BY <2>8, <2>9 DEF SearchInv
<1>4. CASE SearchImage
  <2>1. pc = "search_image" /\ Len(found) <= NCandidates /\ Named(found) /\ Once(found)
    BY <1>4 DEF SearchImage, SearchInv, RankingInv, NoProductTwice, Once, SearchStep
  <2>2. sparse' = sparse /\ GoOn("search_bm25") /\ pc' = "search_bm25"
    BY <1>4 DEF SearchImage, GoOn
  <2>3. /\ found' \in Seq(HitType) /\ Len(found') <= NCandidates + NCandidates
        /\ Named(found') /\ Once(found')
    <3>1. CASE UNCHANGED found
      BY <1>1, <1>2, <2>1, <3>1
    <3>2. CASE \E m \in Ranked(ProductIds, "image") : found' = MergeDedup(found, m)
      <4>1. PICK m \in Ranked(ProductIds, "image") : found' = MergeDedup(found, m)
        BY <3>2
      <4>2. /\ m \in Seq(HitType) /\ Len(m) <= NCandidates
            /\ \A i \in DOMAIN m : m[i].id \in ProductIds /\ m[i].product = m[i].id[1]
        BY IdSets, RankedFact DEF Store
      <4>3. Named(m)
        BY <4>2 DEF Named, ProductIds, ProductId
      <4>4. /\ found' \in Seq(HitType) /\ Len(found') <= Len(found) + Len(m)
            /\ Named(found') /\ Once(found')
        BY <1>1, <2>1, <4>1, <4>2, <4>3, MergeKeepsNames
      <4>5. Len(found') <= NCandidates + NCandidates
        BY <1>1, <1>2, <2>1, <4>2, <4>4
      <4> QED BY <4>4, <4>5
    <3> QED BY <1>4, <3>1, <3>2 DEF SearchImage
  <2>4. TypeOK'
    BY <1>1, <2>2, <2>3, GoOnKeepsTypes DEF Pc, SearchStep
  <2>5. RankingInv'
    BY <2>2, <2>3 DEF RankingInv, NoProductTwice, Once
  <2> QED BY <2>4, <2>5 DEF SearchInv
<1>5. CASE SearchBm25
  <2>1. /\ pc = "search_bm25" /\ Len(found) <= NCandidates + NCandidates
        /\ Named(found) /\ Once(found)
    BY <1>5 DEF SearchBm25, SearchInv, RankingInv, NoProductTwice, Once, SearchStep
  <2>2. found' = found /\ GoOn("fuse") /\ pc' = "fuse"
    BY <1>5 DEF SearchBm25, GoOn
  <2>3. PICK s \in SetToAllKPermutations(ProductIds) :
          /\ Len(s) <= IF Bm25 THEN NCandidates ELSE 0
          /\ sparse' = [i \in DOMAIN s |-> Hit(s[i], s[i][1], 0, "bm25")]
    BY <1>5 DEF SearchBm25
  <2>4. s \in Seq(ProductIds) /\ Len(s) \in Nat /\ DOMAIN s = 1..Len(s)
    BY IdSets, PermutationFact
  <2>5. Len(s) <= NCandidates
    BY <1>2, <2>3, <2>4
  <2>6. \A i \in 1..Len(s) : s[i] \in ProductIds /\ s[i] \in Ids /\ 0 \in 0..MaxDistance
    BY <2>4, IdSets, AnswerGraphAssumption
  <2>7. \A i \in 1..Len(s) : /\ sparse'[i] \in HitType /\ sparse'[i].id \in ProductIds
                             /\ sparse'[i].product = sparse'[i].id[1]
    BY <2>3, <2>4, <2>6, HitIsTyped DEF Store
  <2>8. sparse' \in [1..Len(s) -> HitType]
    <3>1. DOMAIN sparse' = 1..Len(s) /\ sparse' = [i \in DOMAIN sparse' |-> sparse'[i]]
      BY <2>3, <2>4
    <3> QED BY <2>7, <3>1
  <2>9. sparse' \in Seq(HitType) /\ Len(sparse') = Len(s) /\ DOMAIN sparse' = 1..Len(s)
    BY <2>4, <2>8
  <2>10. Named(sparse')
    BY <2>7, <2>9 DEF Named, ProductIds, ProductId
  <2>11. TypeOK'
    BY <1>1, <2>2, <2>9, GoOnKeepsTypes DEF Pc, SearchStep
  <2>12. RankingInv'
    BY <2>1, <2>2, <2>5, <2>9, <2>10 DEF RankingInv, NoProductTwice, Once, Named
  <2> QED BY <2>11, <2>12 DEF SearchInv
<1> QED BY <1>3, <1>4, <1>5

\* The ranking that fusion starts from, before what is not on offer leaves it.
Fused == IF sparse = <<>> THEN found ELSE MergeTextRrf(found, sparse)

Offered == InOrder({i \in DOMAIN Fused : Offerable(Fused[i])}, <)

\* What fusion passes on: hits of the ranking that are on offer, in its order.
LEMMA FuseFact ==
    ASSUME SearchInv, Fuse
    PROVE  /\ pc = "fuse"
           /\ found \in Seq(HitType) /\ sparse \in Seq(HitType)
           /\ Named(found) /\ Once(found) /\ Named(sparse)
           /\ Fused \in Seq(HitType) /\ Named(Fused) /\ Once(Fused)
           /\ \/ ToGuard(NotFound, {})
              \/ /\ GoOn("rerank") /\ sparse' = <<>> /\ found' \in Seq(HitType)
                 /\ DOMAIN found' = DOMAIN Offered /\ Offered \in Seq(DOMAIN Fused)
                 /\ \A i \in DOMAIN found' : found'[i] = Fused[Offered[i]] /\ Offerable(found'[i])
                 /\ \A i, j \in DOMAIN found' : i < j => Offered[i] < Offered[j]
<1>1. pc = "fuse"
    BY DEF Fuse
<1>2. found \in Seq(HitType) /\ sparse \in Seq(HitType)
    BY DEF SearchInv, TypeOK
<1>3. Named(found) /\ Once(found) /\ Named(sparse)
    BY <1>1 DEF SearchInv, RankingInv, NoProductTwice, Once, SearchStep
<1>4. Fused \in Seq(HitType) /\ Named(Fused) /\ Once(Fused)
    BY <1>2, <1>3, FusionKeepsNames DEF Fused
<1>5. /\ Offered \in Seq(DOMAIN Fused) /\ Len(Offered) \in Nat
      /\ DOMAIN Offered = 1..Len(Offered)
      /\ \A i \in DOMAIN Offered : Offerable(Fused[Offered[i]])
      /\ \A i, j \in DOMAIN Offered : i < j => Offered[i] < Offered[j]
    BY <1>4, OfferableFact DEF Offered
<1>6. CASE ToGuard(NotFound, {})
    BY <1>1, <1>2, <1>3, <1>4, <1>6
<1>7. CASE ~ ToGuard(NotFound, {})
  <2>1. /\ found' = [i \in DOMAIN Offered |-> Fused[Offered[i]]]
        /\ sparse' = <<>> /\ GoOn("rerank")
    BY <1>7 DEF Fuse, Fused, Offered
  <2>2. \A i \in 1..Len(Offered) : Offered[i] \in DOMAIN Fused /\ Fused[Offered[i]] \in HitType
    BY <1>4, <1>5
  <2>3. found' \in [1..Len(Offered) -> HitType]
    BY <1>5, <2>1, <2>2
  <2>4. found' \in Seq(HitType) /\ DOMAIN found' = DOMAIN Offered
    BY <1>5, <2>3
  <2>5. \A i \in DOMAIN found' : found'[i] = Fused[Offered[i]] /\ Offerable(found'[i])
    BY <1>5, <2>1, <2>4
  <2>6. \A i, j \in DOMAIN found' : i < j => Offered[i] < Offered[j]
    BY <1>5, <2>4
  <2> QED BY <1>1, <1>2, <1>3, <1>4, <1>5, <2>1, <2>4, <2>5, <2>6
<1> QED BY <1>6, <1>7

\* A reranking takes other places, of which it takes each one once.
LEMMA RerankFact ==
    ASSUME SearchInv, RerankHits
    PROVE  /\ pc = "rerank" /\ GoOn("generate") /\ sparse' = sparse
           /\ found \in Seq(HitType) /\ Named(found) /\ Once(found)
           /\ found' \in Seq(HitType) /\ Named(found') /\ Once(found')
           /\ \A i \in DOMAIN found' : \E j \in DOMAIN found : found'[i] = found[j]
<1>1. pc = "rerank" /\ GoOn("generate") /\ sparse' = sparse
    BY DEF RerankHits
<1>2. found \in Seq(HitType) /\ Len(found) \in Nat
    BY DEF SearchInv, TypeOK
<1>3. Named(found) /\ Once(found)
    BY <1>1 DEF SearchInv, RankingInv, NoProductTwice, Once, SearchStep
<1> DEFINE n == IF TopN < Len(found) THEN TopN ELSE Len(found)
<1>4. n \in 0..Len(found) /\ n \in Nat
    BY <1>2, AnswerGraphAssumption
<1>5. PICK order \in [1..n -> DOMAIN found] :
        /\ found' = [i \in 1..n |-> found[order[i]]]
        /\ \A i, j \in 1..n : order[i] = order[j] => i = j
  <2>1. CASE \E order \in SetToAllKPermutations(DOMAIN found) :
                Len(order) = n /\ found' = [i \in 1..n |-> found[order[i]]]
    <3>1. PICK order \in SetToAllKPermutations(DOMAIN found) :
                Len(order) = n /\ found' = [i \in 1..n |-> found[order[i]]]
      BY <2>1
    <3>2. IsFiniteSet(DOMAIN found)
      <4>1. 1 \in Int /\ Len(found) \in Int /\ DOMAIN found = 1..Len(found)
        BY <1>2
      <4> QED BY <4>1, FS_Interval
    <3>3. /\ order \in Seq(DOMAIN found) /\ DOMAIN order = 1..Len(order)
          /\ \A i, j \in DOMAIN order : order[i] = order[j] => i = j
      BY <3>2, PermutationFact
    <3>4. order \in [1..n -> DOMAIN found]
      BY <3>1, <3>3
    <3> QED BY <3>1, <3>3, <3>4
  <2>2. CASE found' = SubSeq(found, 1, n)
    <3> DEFINE order == [i \in 1..n |-> i]
    <3>1. order \in [1..n -> DOMAIN found]
      BY <1>2, <1>4
    <3>2. found' = [i \in 1..n |-> found[order[i]]]
      BY <1>2, <1>4, <2>2
    <3> QED BY <3>1, <3>2
  <2> QED BY <2>1, <2>2 DEF RerankHits
<1> HIDE DEF n
<1>6. \A i \in 1..n : order[i] \in DOMAIN found /\ found[order[i]] \in HitType
    BY <1>2
<1>7. found' \in [1..n -> HitType]
    BY <1>5, <1>6
<1>8. found' \in Seq(HitType) /\ DOMAIN found' = 1..n
    BY <1>4, <1>7
<1>9. \A i \in DOMAIN found' : found'[i] = found[order[i]] /\ order[i] \in DOMAIN found
    BY <1>5, <1>6, <1>8
<1>10. Named(found') /\ Once(found')
    BY <1>3, <1>5, <1>8, <1>9 DEF Named, Once
<1> QED BY <1>1, <1>2, <1>3, <1>8, <1>9, <1>10

LEMMA RankingsKeepSearch ==
    ASSUME SearchInv, Fuse \/ RerankHits
    PROVE  SearchInv'
<1>1. TypeOK
    BY DEF SearchInv
<1>2. CASE Fuse
  <2>1. CASE ToGuard(NotFound, {})
    BY <1>1, <2>1, FixedTextsAreAnswers, ToGuardKeepsSearch
  <2>2. CASE ~ ToGuard(NotFound, {})
    <3>1. /\ GoOn("rerank") /\ pc' = "rerank" /\ sparse' = <<>> /\ found' \in Seq(HitType)
          /\ DOMAIN found' = DOMAIN Offered /\ Offered \in Seq(DOMAIN Fused)
          /\ \A i \in DOMAIN found' : found'[i] = Fused[Offered[i]]
          /\ \A i, j \in DOMAIN found' : i < j => Offered[i] < Offered[j]
          /\ Fused \in Seq(HitType) /\ Named(Fused) /\ Once(Fused)
      BY <1>2, <2>2, FuseFact DEF GoOn
    <3>2. TypeOK'
      BY <1>1, <3>1, GoOnKeepsTypes DEF Pc, SearchStep
    <3>3. \A i \in DOMAIN found' : Offered[i] \in DOMAIN Fused /\ Offered[i] \in Nat
      BY <3>1
    <3>4. \A i, j \in DOMAIN found' : Offered[i] = Offered[j] => i = j
      <4>1. DOMAIN found' \subseteq Nat
        BY <3>1
      <4> QED BY <3>1, <3>3, <4>1
    <3>5. Named(found') /\ Once(found')
      BY <3>1, <3>3, <3>4 DEF Named, Once
    <3>6. RankingInv'
      BY <3>1, <3>5 DEF RankingInv, NoProductTwice, Once
    <3> QED BY <3>2, <3>6 DEF SearchInv
  <2> QED BY <2>1, <2>2
<1>3. CASE RerankHits
  <2>1. /\ GoOn("generate") /\ pc' = "generate" /\ sparse' = sparse
        /\ found' \in Seq(HitType) /\ Named(found') /\ Once(found')
    BY <1>3, RerankFact DEF GoOn
  <2>2. TypeOK'
    <3>1. sparse \in Seq(HitType)
      BY <1>1 DEF TypeOK
    <3> QED BY <1>1, <2>1, <3>1, GoOnKeepsTypes DEF Pc, SearchStep
  <2>3. RankingInv'
    BY <2>1 DEF RankingInv, NoProductTwice, Once
  <2> QED BY <2>2, <2>3 DEF SearchInv
<1> QED BY <1>2, <1>3

LEMMA UnmarkedIsAnswer ==
    ASSUME NEW a \in Answer
    PROVE  Unmarked(a) \in Answer
BY DEF Unmarked, Answer

\* The guard and the turn around it.
LEMMA GuardedKeepsTypes ==
    ASSUME TypeOK, NEW answer \in Answer, Guarded(answer)
    PROVE  TypeOK'
<1>1. final' \in Answer /\ pc' \in Pc
    BY UnmarkedIsAnswer DEF Guarded, Pc
<1>2. UNCHANGED <<guest, sale, said, turn, question, intent, found, sparse, hits, raw>>
    BY DEF Guarded, conversation
<1>3. found' \in Seq(HitType) /\ sparse' \in Seq(HitType)
    BY <1>2 DEF TypeOK
<1> QED BY <1>1, <1>2, <1>3 DEF TypeOK

LEMMA GuardKeepsSearch ==
    ASSUME SearchInv, GuardPass \/ GuardWarn \/ GuardDoubt \/ Retry
    PROVE  SearchInv'
<1>1. TypeOK /\ raw \in Answer /\ hits \in SUBSET Product
    BY DEF SearchInv, TypeOK
<1>2. pc' \in {"append", "retry"}
    BY DEF GuardPass, GuardWarn, GuardDoubt, Retry, Guarded
<1>3. RankingInv'
    BY <1>2, OutsideTheSearch DEF SearchStep
<1>4. found \in Seq(HitType) /\ sparse \in Seq(HitType)
    BY <1>1 DEF TypeOK
<1> SUFFICES TypeOK'
    BY <1>3 DEF SearchInv
<1>5. CASE GuardPass
  <2>1. Guarded(raw)
    BY <1>5 DEF GuardPass
  <2> QED BY <1>1, <2>1, GuardedKeepsTypes
<1>6. CASE GuardWarn
  <2>1. [raw EXCEPT !.by = "warned"] \in Answer
    BY <1>1 DEF Answer, Author
  <2>2. Guarded([raw EXCEPT !.by = "warned"])
    BY <1>6 DEF GuardWarn
  <2> QED BY <1>1, <2>1, <2>2, GuardedKeepsTypes
<1>7. CASE GuardDoubt
  <2>1. [NoAnswer EXCEPT !.by = raw.by] \in Answer
    BY <1>1, FixedTextsAreAnswers DEF Answer
  <2>2. raw' \in Answer /\ pc' \in Pc
        /\ UNCHANGED <<guest, sale, said, turn, question, intent, found, sparse, hits, final>>
    BY <1>7, <2>1 DEF GuardDoubt, conversation, Pc
  <2>3. found' \in Seq(HitType) /\ sparse' \in Seq(HitType)
    BY <1>4, <2>2
  <2> QED BY <1>1, <2>2, <2>3 DEF TypeOK
<1>8. CASE Retry
  <2>1. CASE Guarded(Fallback)
    BY <1>1, <2>1, FixedTextsAreAnswers, GuardedKeepsTypes
  <2>2. CASE \E a \in ProductText("retry") : Guarded(Verified(a, hits))
    <3>1. PICK a \in ProductText("retry") : Guarded(Verified(a, hits))
      BY <2>2
    <3>2. Verified(a, hits) \in Answer
      BY TextsAreAnswers, FixedTextsAreAnswers DEF Verified
    <3> QED BY <1>1, <3>1, <3>2, GuardedKeepsTypes
  <2> QED BY <1>8, <2>1, <2>2 DEF Retry
<1> QED BY <1>5, <1>6, <1>7, <1>8

LEMMA TurnKeepsSearch ==
    ASSUME SearchInv, Receive \/ Classify \/ GoSearch \/ AppendMessage \/ GraphError
    PROVE  SearchInv'
<1>1. TypeOK /\ final \in Answer /\ said \in [names : SUBSET Product, prices : SUBSET Price]
    BY DEF SearchInv, TypeOK
<1>2. pc' \in {"classify", "search_text", "idle"} \cup Handler
    BY RoutesToHandler DEF Receive, Classify, GoSearch, AppendMessage, GraphError
<1>3. RankingInv'
    BY <1>2, OutsideTheSearch DEF SearchStep, Handler
<1>4. pc' \in Pc
    BY <1>2 DEF Pc, SearchStep
<1> SUFFICES TypeOK'
    BY <1>3 DEF SearchInv
<1>5. CASE Receive
  <2>1. turn \in Nat /\ turn < MaxTurns /\ turn + 1 \in 0..MaxTurns
    BY <1>1, <1>5, AnswerGraphAssumption DEF Receive, TypeOK
  <2>2. question' \in Question /\ turn' \in 0..MaxTurns /\ hits' \in SUBSET Product
        /\ UNCHANGED <<guest, sale, said, intent, found, sparse, raw, final>>
    BY <1>5, <2>1 DEF Receive, InitHits
  <2> QED BY <1>1, <1>4, <2>2 DEF TypeOK
<1>6. CASE Classify
    BY <1>1, <1>4, <1>6 DEF Classify, TypeOK, conversation
<1>7. CASE GoSearch
    BY <1>1, <1>4, <1>7 DEF GoSearch, TypeOK, conversation
<1>8. CASE AppendMessage
  <2>1. said' \in [names : SUBSET Product, prices : SUBSET Price]
    <3>1. /\ said.names \in SUBSET Product /\ final.names \in SUBSET Product
          /\ said.prices \in SUBSET Price /\ final.prices \in SUBSET Price
      BY <1>1 DEF Answer
    <3> QED BY <1>8, <3>1 DEF AppendMessage
  <2>2. /\ question' = "other" /\ intent' = "SMALL_TALK" /\ raw' = NoAnswer /\ final' = NoAnswer
        /\ UNCHANGED <<guest, sale, turn, found, sparse, hits>>
    BY <1>8 DEF AppendMessage
  <2> QED BY <1>1, <1>4, <2>1, <2>2, FixedTextsAreAnswers DEF TypeOK, Question, Intent
<1>9. CASE GraphError
  <2>1. /\ question' = "other" /\ intent' = "SMALL_TALK" /\ found' = <<>> /\ sparse' = <<>>
        /\ UNCHANGED <<guest, sale, said, turn, hits, raw, final>>
    BY <1>9 DEF GraphError, conversation
  <2> QED BY <1>1, <1>4, <2>1 DEF TypeOK, Question, Intent
<1> QED BY <1>5, <1>6, <1>7, <1>8, <1>9

\* The lists of the pipeline have their types, name products by id, each once, and are as
\* long as the searches make them (search_and_rerank).
THEOREM SearchInvariance == Spec => []SearchInv
<1>1. SearchInv /\ [Next]_vars => SearchInv'
  <2> SUFFICES ASSUME SearchInv, [Next]_vars PROVE SearchInv'
    OBVIOUS
  <2>1. CASE Receive \/ Classify \/ GoSearch \/ AppendMessage \/ GraphError
    BY <2>1, TurnKeepsSearch
  <2>2. CASE Structured \/ Faq \/ FixedText \/ Order \/ RefundNotice \/ Chat
    BY <2>2, HandlersKeepSearch
  <2>3. CASE Compare \/ LookUp \/ Generate
    BY <2>3, SemanticKeepsSearch
  <2>4. CASE SearchText \/ SearchImage \/ SearchBm25
    BY <2>4, SearchesKeepSearch
  <2>5. CASE Fuse \/ RerankHits
    BY <2>5, RankingsKeepSearch
  <2>6. CASE GuardPass \/ GuardWarn \/ GuardDoubt \/ Retry
    BY <2>6, GuardKeepsSearch
  <2>7. CASE Over \/ UNCHANGED vars
    BY <2>7 DEF Over, vars, SearchInv, TypeOK, RankingInv, NoProductTwice, Named
  <2> QED BY <2>1, <2>2, <2>3, <2>4, <2>5, <2>6, <2>7 DEF Next
<1> QED BY <1>1, SearchInit, PTL DEF Spec

\* State, types and lists of the search are of their kind in every state.
THEOREM GraphTypeCorrect == Spec => []TypeOK
<1>1. SearchInv => TypeOK
    BY DEF SearchInv
<1> QED BY <1>1, SearchInvariance, PTL

\* However many chunks, pictures and words of it the three searches find, and however
\* the lists are merged, filtered and reranked, a product is one candidate.
THEOREM ProductsAreCandidatesOnce == Spec => []NoProductTwice
<1>1. SearchInv => NoProductTwice
    BY DEF SearchInv, RankingInv
<1> QED BY <1>1, SearchInvariance, PTL

LEMMA NamedIds ==
    ASSUME NEW list, Named(list), NEW p
    PROVE  ProductId(p) \in IdsOf(list) <=> p \in ProductsOf(list)
BY DEF Named, IdsOf, ProductsOf, ProductId

\* Two lists of candidates are together no longer than RRF_K + 1: 20 and 61, unless
\* .env says otherwise.
ShortLists == NCandidates + NCandidates <= K + 1

BothFound(p) == p \in ProductsOf(found) /\ p \in ProductsOf(sparse)

InFront(p, q) ==
    /\ BothFound(p)
    /\ BothFound(q) =>
        /\ FirstAt(found, ProductId(p)) < FirstAt(found, ProductId(q))
        /\ FirstAt(sparse, ProductId(p)) < FirstAt(sparse, ProductId(q))

\* Of two products the one ahead scores more.
LEMMA FrontScores ==
    ASSUME ShortLists, SearchInv, pc = "fuse", NEW p, NEW q, InFront(p, q),
           q \in ProductsOf(found) \/ q \in ProductsOf(sparse)
    PROVE  Less(Score(found, sparse, ProductId(q)), Score(found, sparse, ProductId(p)))
<1>1. found \in Seq(HitType) /\ sparse \in Seq(HitType)
    BY DEF SearchInv, TypeOK
<1>2. Named(found) /\ Named(sparse)
    BY DEF SearchInv, RankingInv, SearchStep
<1>3. Len(found) <= K + 1 /\ Len(sparse) <= K + 1
  <2>1. Len(found) <= NCandidates + NCandidates /\ Len(sparse) <= NCandidates
    BY DEF SearchInv, RankingInv
  <2>2. Len(found) \in Nat /\ Len(sparse) \in Nat /\ K \in Nat
    BY <1>1, RankConstant
  <2> QED BY <2>1, <2>2, NCandidatesIsNat DEF ShortLists
<1>4. \A x : /\ ProductId(x) \in IdsOf(found) <=> x \in ProductsOf(found)
             /\ ProductId(x) \in IdsOf(sparse) <=> x \in ProductsOf(sparse)
    BY <1>2, NamedIds
<1>5. /\ ProductId(p) \in IdsOf(found) /\ ProductId(p) \in IdsOf(sparse)
      /\ ProductId(q) \in IdsOf(found) \/ ProductId(q) \in IdsOf(sparse)
      /\ ProductId(q) \in IdsOf(found) /\ ProductId(q) \in IdsOf(sparse) =>
           /\ FirstAt(found, ProductId(p)) < FirstAt(found, ProductId(q))
           /\ FirstAt(sparse, ProductId(p)) < FirstAt(sparse, ProductId(q))
    BY <1>4 DEF InFront, BothFound
<1> QED BY <1>1, <1>3, <1>5, AgreementScores

\* What fusion passes on is never in the order of a product and one that is ahead of it.
LEMMA FusionIsFair ==
    ASSUME ShortLists, SearchInv, Fuse, sparse # <<>>,
           NEW i \in DOMAIN found', NEW j \in DOMAIN found', i < j
    PROVE  ~ InFront(found'[j].product, found'[i].product)
<1>1. /\ pc = "fuse"
      /\ found \in Seq(HitType) /\ sparse \in Seq(HitType)
      /\ Named(found) /\ Named(sparse)
      /\ Fused \in Seq(HitType) /\ Named(Fused)
    BY FuseFact
<1>2. ~ ToGuard(NotFound, {})
    BY DEF ToGuard
<1>3. /\ DOMAIN found' = DOMAIN Offered /\ Offered \in Seq(DOMAIN Fused)
      /\ found'[i] = Fused[Offered[i]] /\ found'[j] = Fused[Offered[j]]
      /\ Offered[i] < Offered[j]
    BY <1>2, FuseFact
<1>4. Offered[i] \in DOMAIN Fused /\ Offered[j] \in DOMAIN Fused
    BY <1>3
<1>5. Fused = MergeTextRrf(found, sparse)
    BY DEF Fused
<1>6. /\ Leads(found, sparse, found'[i].id, found'[j].id)
      /\ \E k \in DOMAIN (found \o sparse) : found'[i] = (found \o sparse)[k]
  <2> DEFINE m == MergeTextRrf(found, sparse)
  <2>1. /\ \A k \in DOMAIN m : \E l \in DOMAIN (found \o sparse) : m[k] = (found \o sparse)[l]
        /\ \A k, l \in DOMAIN m : k < l => Leads(found, sparse, m[k].id, m[l].id)
    BY <1>1, MergeTextRrfFact
  <2> HIDE DEF m
  <2>2. Fused = m
    BY <1>5 DEF m
  <2> QED BY <1>3, <1>4, <2>1, <2>2
<1> DEFINE p == found'[j].product
           q == found'[i].product
<1>7. found'[i].id = ProductId(q) /\ found'[j].id = ProductId(p)
    BY <1>1, <1>3, <1>4 DEF Named
<1>8. q \in ProductsOf(found) \/ q \in ProductsOf(sparse)
    BY <1>1, <1>6 DEF ProductsOf
<1>9. Leads(found, sparse, ProductId(q), ProductId(p))
    BY <1>6, <1>7
<1> HIDE DEF p, q
<1>10. ~ InFront(p, q)
  <2> SUFFICES ASSUME InFront(p, q) PROVE FALSE
    OBVIOUS
  <2>1. Less(Score(found, sparse, ProductId(q)), Score(found, sparse, ProductId(p)))
    BY <1>1, <1>8, FrontScores
  <2>2. /\ Score(found, sparse, ProductId(q)) \in Fraction
        /\ Score(found, sparse, ProductId(p)) \in Fraction
    BY <1>1, ScoreIsFraction
  <2>3. ~ Less(Score(found, sparse, ProductId(p)), Score(found, sparse, ProductId(q)))
    BY <2>1, <2>2, LessOrders
  <2> QED BY <1>9, <2>1, <2>3 DEF Leads
<1> QED BY <1>10 DEF p, q

\* As long as the lists are short, fusion puts what both searches found before what one
\* of them found, and of two that both found the one that is ahead in both: two shares
\* of a score are then more than any single one.
THEOREM AgreementComesFirst == ShortLists /\ Spec => AgreementWins
<1> SUFFICES ASSUME ShortLists PROVE Spec => AgreementWins
    OBVIOUS
<1> DEFINE Wins ==
               pc = "fuse" /\ sparse # <<>> =>
                   LET Both(p) == p \in ProductsOf(found) /\ p \in ProductsOf(sparse)
                       Rank(list, p) == FirstAt(list, ProductId(p))
                       Ahead(p, q) ==
                           /\ Both(p)
                           /\ Both(q) => Rank(found, p) < Rank(found, q) /\ Rank(sparse, p) < Rank(sparse, q)
                   IN  \A i, j \in DOMAIN found' :
                           i < j => ~ Ahead(found'[j].product, found'[i].product)
<1>1. SearchInv /\ [Next]_vars => [Wins]_vars
  <2>1. ASSUME SearchInv, Next, pc = "fuse", sparse # <<>>,
               NEW i \in DOMAIN found', NEW j \in DOMAIN found', i < j
        PROVE  ~ InFront(found'[j].product, found'[i].product)
    <3>1. Fuse
      BY <2>1 DEF Next, Receive, Classify, Structured, Faq, FixedText, Order, RefundNotice, Chat,
          Compare, LookUp, GoSearch, SearchText, SearchImage, SearchBm25, RerankHits, Generate,
          GuardPass, GuardWarn, GuardDoubt, Retry, AppendMessage, GraphError, Over
    <3> QED BY <2>1, <3>1, FusionIsFair
  <2> QED BY <2>1 DEF InFront, BothFound
<1> QED BY <1>1, SearchInvariance, PTL DEF Spec, AgreementWins

-----------------------------------------------------------------------------
(* What the guard has checked.                                             *)

\* The prices the guard finds in an answer are of the products S or of their
\* descriptions, or the answer is a refusal.
Supported(a, S) ==
    a.rejects \/ a.prices \ a.boldPrices \subseteq PricesOf(S) \cup UNION {Quoted[p] : p \in S}

LEMMA GroundedIsSupported ==
    ASSUME NEW a \in Answer, NEW S, Grounded(a, S) \/ a = Fallback
    PROVE  Supported(Unmarked(a), S)
<1>1. /\ Unmarked(a).prices = a.prices \cup a.boldPrices
      /\ Unmarked(a).boldPrices = a.boldPrices /\ Unmarked(a).rejects = a.rejects
    BY DEF Unmarked, Answer
<1>2. a = Fallback => a.prices = {}
    BY DEF Fallback, Says
<1> QED BY <1>1, <1>2 DEF Supported, Grounded

\* Whatever the LLM writes, the first time or when it is asked again, an answer with
\* cards is a refusal or names no price that is not of the cards' products, except for
\* those that can be read only once guard_node has taken out the marks of bold print.
THEOREM CardsCoverPrices == Spec => []CheckedPricesMatchCards
<1>1. Init => CheckedPricesMatchCards
    BY DEF Init, CheckedPricesMatchCards
<1>2. SearchInv /\ CheckedPricesMatchCards /\ [Next]_vars => CheckedPricesMatchCards'
  <2> SUFFICES ASSUME SearchInv, CheckedPricesMatchCards, [Next]_vars,
                      pc' = "append", intent' = "SEMANTIC_SEARCH", hits' # {}
               PROVE  Supported(final', hits')
    BY DEF CheckedPricesMatchCards, Supported
  <2>1. CASE GuardPass
    <3>1. final' = Unmarked(raw) /\ hits' = hits /\ intent' = intent /\ raw \in Answer
      BY <2>1 DEF GuardPass, Guarded, SearchInv, TypeOK
    <3>2. Grounded(raw, hits)
      BY <2>1, <3>1 DEF GuardPass, Doubtful
    <3> QED BY <3>1, <3>2, GroundedIsSupported
  <2>2. CASE GuardWarn
    BY <2>2 DEF GuardWarn, Guarded, ChecksClaims
  <2>3. CASE Retry
    <3>1. PICK a \in Answer : /\ a = Fallback \/ Grounded(a, hits)
                              /\ final' = Unmarked(a)
      BY <2>3, TextsAreAnswers, FixedTextsAreAnswers DEF Retry, Guarded, Verified
    <3>2. hits' = hits
      BY <2>3 DEF Retry, Guarded
    <3> QED BY <3>1, <3>2, GroundedIsSupported
  <2>4. CASE UNCHANGED vars \/ Over
    BY <2>4 DEF vars, Over, CheckedPricesMatchCards, Supported
  <2>5. CASE Receive \/ AppendMessage \/ GraphError \/ GuardDoubt
    BY <2>5 DEF Receive, AppendMessage, GraphError, GuardDoubt
  <2>6. CASE Classify
    BY <2>6, RoutesToHandler DEF Classify, Handler
  <2>7. CASE Structured \/ Faq \/ FixedText \/ Order \/ RefundNotice \/ Chat
    BY <2>7 DEF Structured, Faq, FixedText, Order, RefundNotice, Chat, ToGuard
  <2>8. CASE Compare \/ LookUp \/ Generate \/ Fuse
    BY <2>8 DEF Compare, LookUp, Generate, Fuse, ToGuard, GoOn
  <2>9. CASE GoSearch \/ SearchText \/ SearchImage \/ SearchBm25 \/ RerankHits
    BY <2>9 DEF GoSearch, SearchText, SearchImage, SearchBm25, RerankHits, GoOn
  <2> QED BY <2>1, <2>2, <2>3, <2>4, <2>5, <2>6, <2>7, <2>8, <2>9 DEF Next
<1> QED BY <1>1, <1>2, SearchInvariance, PTL DEF Spec

-----------------------------------------------------------------------------
(* What is recommended is in stock.                                        *)

LEMMA QuietStock ==
    ASSUME StockInv, pc' \notin {"structured", "rerank", "generate", "guard", "retry", "append"}
    PROVE  StockInv'
BY DEF StockInv

\* An answer enters the guard with cards in stock, or for another intent, or from a look-up.
LEMMA StockEntersGuard ==
    ASSUME NEW answer, NEW cards, ToGuard(answer, cards),
           intent # "SEMANTIC_SEARCH" \/ answer.by = "lookup" \/ \A p \in cards : sale[p] # "sold_out"
    PROVE  StockInv'
<1>1. /\ raw' = answer /\ hits' = cards /\ pc' = "guard"
      /\ UNCHANGED <<sale, intent>>
    BY DEF ToGuard, conversation
<1> QED BY <1>1 DEF StockInv

LEMMA HandlersKeepStock ==
    ASSUME FixedInv, StockInv, Structured \/ Faq \/ FixedText \/ Order \/ RefundNotice \/ Chat
    PROVE  StockInv'
<1>1. pc \in Handler
    BY DEF Structured, Faq, FixedText, Order, RefundNotice, Chat, Handler
<1>2. hits = {}
    BY <1>1 DEF FixedInv, NoCardsYet
<1>3. CASE Structured
  <2>1. PICK answer, cards : ToGuard(answer, cards)
    BY <1>3 DEF Structured
  <2>2. intent # "SEMANTIC_SEARCH"
    BY <1>3 DEF Structured, StockInv
  <2> QED BY <2>1, <2>2, StockEntersGuard
<1>4. CASE Faq \/ FixedText \/ Order \/ RefundNotice \/ Chat
  <2>1. PICK answer : ToGuard(answer, hits)
    BY <1>4 DEF Faq, FixedText, Order, RefundNotice, Chat
  <2> QED BY <1>2, <2>1, StockEntersGuard
<1> QED BY <1>3, <1>4

LEMMA SemanticKeepsStock ==
    ASSUME SearchInv, StockInv, Compare \/ LookUp \/ Fuse \/ RerankHits \/ Generate
    PROVE  StockInv'
<1>1. CASE Compare
  <2>1. PICK p \in Mentioned : ToGuard(Says("comparison", {p}, {PriceOf[p]}), Mentioned)
    BY <1>1 DEF Compare
  <2>2. \A q \in Mentioned : sale[q] # "sold_out"
    BY DEF Mentioned
  <2> QED BY <2>1, <2>2, StockEntersGuard
<1>2. CASE LookUp
  <2>1. CASE ToGuard(Notice, {})
    BY <2>1, StockEntersGuard
  <2>2. ASSUME NEW p \in Product, NEW P \in {{PriceOf[p]}, {}},
               ToGuard(Says("lookup", {p}, P), {p})
        PROVE  StockInv'
    <3>1. Says("lookup", {p}, P).by = "lookup"
      BY DEF Says
    <3> QED BY <2>2, <3>1, StockEntersGuard
  <2> QED BY <1>2, <2>1, <2>2 DEF LookUp
<1>3. CASE Fuse
  <2>1. CASE ToGuard(NotFound, {})
    BY <2>1, StockEntersGuard
  <2>2. CASE ~ ToGuard(NotFound, {})
    <3>1. GoOn("rerank") /\ \A i \in DOMAIN found' : Offerable(found'[i])
      BY <1>3, <2>2, FuseFact
    <3>2. pc' = "rerank" /\ sale' = sale
      BY <3>1 DEF GoOn, conversation
    <3> QED BY <3>1, <3>2 DEF StockInv, Offerable
  <2> QED BY <2>1, <2>2
<1>4. CASE RerankHits
  <2>1. /\ pc = "rerank" /\ GoOn("generate")
        /\ \A i \in DOMAIN found' : \E j \in DOMAIN found : found'[i] = found[j]
    BY <1>4, RerankFact
  <2>2. pc' = "generate" /\ sale' = sale
    BY <2>1 DEF GoOn, conversation
  <2>3. \A j \in DOMAIN found : sale[found[j].product] # "sold_out"
    BY <2>1 DEF StockInv
  <2>4. \A i \in DOMAIN found' : sale'[found'[i].product] # "sold_out"
    BY <2>1, <2>2, <2>3
  <2> QED BY <2>2, <2>4 DEF StockInv
<1>5. CASE Generate
  <2>1. PICK a : ToGuard(a, NamedIn(a, ProductsOf(found)))
    BY <1>5 DEF Generate
  <2>2. \A j \in DOMAIN found : sale[found[j].product] # "sold_out"
    BY <1>5 DEF Generate, StockInv
  <2>3. \A p \in NamedIn(a, ProductsOf(found)) : sale[p] # "sold_out"
    BY <2>2 DEF NamedIn, ProductsOf
  <2> QED BY <2>1, <2>3, StockEntersGuard
<1> QED BY <1>1, <1>2, <1>3, <1>4, <1>5

LEMMA GuardKeepsStock ==
    ASSUME StockInv, GuardPass \/ GuardWarn \/ GuardDoubt \/ Retry
    PROVE  StockInv'
<1>1. /\ pc \in {"guard", "retry"} /\ pc' \in {"retry", "append"}
      /\ raw'.by = raw.by /\ UNCHANGED <<sale, intent, hits>>
    BY DEF GuardPass, GuardWarn, GuardDoubt, Retry, Guarded, conversation, NoAnswer, Says
<1> QED BY <1>1 DEF StockInv

\* Recommendations and comparisons have no card of a product that is sold out: every
\* list of candidates is cleared of it before it is reranked, the answer's cards are
\* among the candidates, and the cards of earlier turns are gone.
THEOREM RecommendationsAreInStock == Spec => []SoldOutNeverRecommended
<1>1. Init => StockInv
    BY DEF Init, StockInv
<1>2. SearchInv /\ FixedInv /\ StockInv /\ [Next]_vars => StockInv'
  <2> SUFFICES ASSUME SearchInv, FixedInv, StockInv, [Next]_vars PROVE StockInv'
    OBVIOUS
  <2>1. CASE Classify
    <3>1. PICK i \in Intent, unsure \in BOOLEAN :
            intent' = i /\ pc' = RouteByIntent(i, unsure)
      BY <2>1 DEF Classify
    <3>2. pc' \in Handler
      BY <3>1, RoutesToHandler
    <3>3. pc' = "structured" => intent' # "SEMANTIC_SEARCH"
      BY <3>1 DEF RouteByIntent, NodeOf, Intent
    <3> QED BY <3>2, <3>3 DEF StockInv, Handler
  <2>2. CASE Receive \/ GoSearch \/ AppendMessage \/ GraphError
    BY <2>2, QuietStock DEF Receive, GoSearch, AppendMessage, GraphError
  <2>3. CASE SearchText \/ SearchImage \/ SearchBm25
    BY <2>3, QuietStock DEF SearchText, SearchImage, SearchBm25, GoOn
  <2>4. CASE Structured \/ Faq \/ FixedText \/ Order \/ RefundNotice \/ Chat
    BY <2>4, HandlersKeepStock
  <2>5. CASE Compare \/ LookUp \/ Fuse \/ RerankHits \/ Generate
    BY <2>5, SemanticKeepsStock
  <2>6. CASE GuardPass \/ GuardWarn \/ GuardDoubt \/ Retry
    BY <2>6, GuardKeepsStock
  <2>7. CASE Over \/ UNCHANGED vars
    BY <2>7 DEF Over, vars, StockInv
  <2> QED BY <2>1, <2>2, <2>3, <2>4, <2>5, <2>6, <2>7 DEF Next
<1>3. FixedInv /\ StockInv => SoldOutNeverRecommended
    BY DEF FixedInv, FixedAnswersSurvive, StockInv, SoldOutNeverRecommended
<1> QED BY <1>1, <1>2, <1>3, SearchInvariance, FixedInvariance, PTL DEF Spec
=============================================================================
