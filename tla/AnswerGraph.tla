---------------------------- MODULE AnswerGraph -----------------------------
(***************************************************************************)
(* The nodes of the LangGraph graph over the turns of one conversation:    *)
(* classification, routing, the handler nodes with the search pipeline of  *)
(* graph/rag_pipeline.py, the hallucination guard and append_message.      *)
(*                                                                         *)
(* ChatTurn has the requests around a run of this graph; here is what the  *)
(* run computes.  A text is reduced to what the code looks for in texts:   *)
(* product names (in full, or some word of them), prices, and the phrases  *)
(* of a refusal and of a claim about an order; names and prices that the   *)
(* marks of bold print cut in two are found only when those are gone.      *)
(***************************************************************************)
EXTENDS Naturals, Sequences, FiniteSets, SequencesExt, RagFusion

CONSTANTS
    Product,      \* the catalogue, indexed as it is
    Long,         \* products with a description of two chunks
    PriceOf,      \* the price of a product
    Quoted,       \* prices its description mentions
    Price,        \* every price a text may mention
    TopN,         \* SEMANTIC_TOP_K
    Candidates,   \* RERANK_CANDIDATES
    Rerank,       \* RERANK_ENABLED
    Clip,         \* CLIP_SERVING_ENABLED
    Bm25,         \* BM25_ENABLED
    Faults,       \* Oracle, Chroma and the LLM may fail
    MaxDistance,  \* bound on distances
    MaxTurns      \* bound on turns

ASSUME AnswerGraphAssumption ==
    /\ IsFiniteSet(Product)
    /\ Long \subseteq Product
    /\ Price \subseteq Nat
    /\ PriceOf \in [Product -> Price]
    /\ Quoted \in [Product -> SUBSET Price]
    /\ {TopN, Candidates, MaxDistance, MaxTurns} \subseteq Nat \ {0}
    /\ {Rerank, Clip, Bm25, Faults} \subseteq BOOLEAN

VARIABLES
    guest,     \* the conversation is a guest's
    sale,      \* stock and STATUS of each product, in the table and in its indexes
    said,      \* names and prices in the bot's answers so far
    turn,      \* turns so far
    question,  \* what the code sees in the question
    intent,    \* intent_result
    pc,        \* the node, or the step in semantic_node, that is next
    found,     \* candidates of the search
    sparse,    \* candidates of BM25
    hits,      \* products in rag_hits, which the checkpoint keeps between turns
    raw,       \* raw_answer
    final      \* final_answer

vars == <<guest, sale, said, turn, question, intent, pc, found, sparse, hits, raw, final>>
conversation == <<guest, sale, said, turn>>

-----------------------------------------------------------------------------
(* Types.                                                                  *)

Handler == {"structured", "semantic", "faq", "order", "complaint", "small_talk",
            "guest_block", "clarify"}
SearchStep == {"search_text", "search_image", "search_bm25", "fuse", "rerank", "generate"}
Pc == {"idle", "classify", "guard", "retry", "append"} \cup Handler \cup SearchStep

Intent == {"STRUCTURED_QUERY", "SEMANTIC_SEARCH", "FAQ", "ORDER_INQUIRY", "COMPLAINT",
           "SMALL_TALK"}

\* A question without a word, one with a price superlative, one with the word refund.
Question == {"blank", "cheap", "expensive", "refund", "other"}

Sale == {"on", "sold_out", "stopped"}
Store == {"text", "image", "bm25"}

\* Who wrote an answer: a template, a comparison or a lookup by rule, the LLM, the
\* LLM with the guard's notice behind it, the guard's retry or its fixed message.
Author == {"nobody", "template", "comparison", "lookup", "llm", "warned", "retry", "fallback"}

Answer ==
    [by : Author, names : SUBSET Product, words : SUBSET Product, prices : SUBSET Price,
     boldNames : SUBSET Product, boldPrices : SUBSET Price,
     rejects : BOOLEAN, claims : BOOLEAN]

Says(by, names, prices) ==
    [by |-> by, names |-> names, words |-> names, prices |-> prices,
     boldNames |-> {}, boldPrices |-> {}, rejects |-> FALSE, claims |-> FALSE]

NoAnswer == Says("nobody", {}, {})
Notice == Says("template", {}, {})
NotFound == [Notice EXCEPT !.rejects = TRUE]
Fallback == Says("fallback", {}, {})

\* Texts an LLM may write about products, and in small talk, where nothing looks for
\* names and prices as long as the text has its marks.
ProductText(by) ==
    {a \in [by : {by}, names : SUBSET Product, words : SUBSET Product, prices : SUBSET Price,
            boldNames : SUBSET Product, boldPrices : SUBSET Price,
            rejects : BOOLEAN, claims : {FALSE}] :
        /\ a.names \subseteq a.words /\ a.boldNames \subseteq a.words \ a.names
        /\ a.boldPrices \cap a.prices = {}}
SmallTalkText ==
    {[Says("llm", names, prices) EXCEPT !.claims = c] :
        names \in SUBSET Product, prices \in SUBSET Price, c \in BOOLEAN}

HitType == [id : Product \X (0..2), product : Product, distance : 0..MaxDistance, store : Store]

PricesOf(S) == {PriceOf[p] : p \in S}

TypeOK ==
    /\ guest \in BOOLEAN
    /\ sale \in [Product -> Sale]
    /\ said \in [names : SUBSET Product, prices : SUBSET Price]
    /\ turn \in 0..MaxTurns
    /\ question \in Question
    /\ intent \in Intent
    /\ pc \in Pc
    /\ found \in Seq(HitType) /\ sparse \in Seq(HitType)
    /\ hits \in SUBSET Product
    /\ raw \in Answer /\ final \in Answer

Init ==
    /\ guest \in BOOLEAN
    /\ sale \in [Product -> Sale]
    /\ said = [names |-> {}, prices |-> {}]
    /\ turn = 0
    /\ question = "other"
    /\ intent = "SMALL_TALK"
    /\ pc = "idle"
    /\ found = <<>> /\ sparse = <<>>
    /\ hits = {}
    /\ raw = NoAnswer /\ final = NoAnswer

-----------------------------------------------------------------------------
(* A turn comes in, is classified and routed.                              *)

\* The mistake of an input that leaves rag_hits to the checkpoint.
RestoredHits(previous) == previous

\* The input of a turn sets rag_hits anew.
InitHits(previous) == {}

Receive ==
    /\ pc = "idle" /\ turn < MaxTurns
    /\ question' \in Question
    /\ turn' = turn + 1
    /\ hits' = InitHits(hits)
    /\ pc' = "classify"
    /\ UNCHANGED <<guest, sale, said, intent, found, sparse, raw, final>>

NodeOf(i) ==
    CASE i = "STRUCTURED_QUERY" -> "structured"
      [] i = "SEMANTIC_SEARCH" -> "semantic"
      [] i = "FAQ" -> "faq"
      [] i = "ORDER_INQUIRY" -> "order"
      [] i = "COMPLAINT" -> "complaint"
      [] i = "SMALL_TALK" -> "small_talk"

\* The mistake of taking the intent itself for the name of its node.
RouteToIntent(i, unsure) ==
    IF unsure THEN "clarify" ELSE IF i = "ORDER_INQUIRY" /\ guest THEN "guest_block" ELSE i

\* route_by_intent: a low confidence goes before everything.
RouteByIntent(i, unsure) ==
    IF unsure THEN "clarify"
    ELSE IF i = "ORDER_INQUIRY" /\ guest THEN "guest_block"
    ELSE NodeOf(i)

\* classify_node: any intent, with a low confidence or not.  A blank question is
\* not shown to the LLM, and it or a failed call is small talk of confidence 0.
Classify ==
    /\ pc = "classify"
    /\ \E i \in Intent, unsure \in BOOLEAN :
        /\ question = "blank" => i = "SMALL_TALK" /\ unsure
        /\ intent' = i
        /\ pc' = RouteByIntent(i, unsure)
    /\ UNCHANGED <<conversation, question, found, sparse, hits, raw, final>>

-----------------------------------------------------------------------------
(* Handlers without a search.                                              *)

\* A node returns its answer, and rag_hits if it has cards to show.
ToGuard(answer, cards) ==
    /\ raw' = answer
    /\ hits' = cards
    /\ found' = <<>> /\ sparse' = <<>>
    /\ pc' = "guard"
    /\ UNCHANGED <<conversation, question, intent, final>>

\* search_products_structured: five rows at most, ACTIVE and in stock or not.
Selections == {S \in SUBSET {p \in Product : sale[p] # "stopped"} : Cardinality(S) <= 5}

\* structured_node lists the rows, sold out ones marked as such.
Structured ==
    /\ pc = "structured"
    /\ \E S \in Selections :
        IF S = {}
        THEN ToGuard(NotFound, hits)
        ELSE ToGuard(Says("template", S, PricesOf(S)), S)

\* A row of the FAQ table, or the notice that there is none.
Faq ==
    /\ pc = "faq"
    /\ ToGuard(Notice, hits)

FixedText ==
    /\ pc \in {"guest_block", "clarify"}
    /\ ToGuard(Notice, hits)

\* Items of orders with the prices of their day, or a notice.
OrderTexts == {Says("template", S, P) : S \in SUBSET Product, P \in SUBSET Price}

Order ==
    /\ pc = "order"
    /\ \E a \in OrderTexts : ToGuard(a, hits)

\* complaint_node passes a member's refund to the staff and says so.
RefundNotice ==
    /\ pc = "complaint" /\ question = "refund" /\ ~ guest
    /\ ToGuard(Notice, hits)

Chat ==
    /\ \/ pc = "complaint" /\ (question = "refund" => guest)
       \/ pc = "small_talk"
    /\ \E a \in SmallTalkText : ToGuard(a, hits)

-----------------------------------------------------------------------------
(* semantic_node: rules that answer before any search.                     *)

Superlative == question \in {"cheap", "expensive"}

\* _match_history_products: in stock, and named and priced in earlier answers.
Mentioned ==
    {p \in Product : sale[p] # "sold_out" /\ p \in said.names /\ PriceOf[p] \in said.prices}

\* The products mentioned are compared by price.
Compare ==
    /\ pc = "semantic" /\ Superlative /\ Mentioned # {}
    /\ \E p \in Mentioned :
        /\ \A q \in Mentioned :
            IF question = "cheap" THEN PriceOf[p] <= PriceOf[q] ELSE PriceOf[q] <= PriceOf[p]
        /\ ToGuard(Says("comparison", {p}, {PriceOf[p]}), Mentioned)

\* The LLM takes the question for one about the price or the stock of a product: one
\* of the catalogue, or none it can name.
LookUp ==
    /\ pc = "semantic" /\ ~ Superlative
    /\ \/ \E p \in Product : \E P \in {{PriceOf[p]}, {}} : ToGuard(Says("lookup", {p}, P), {p})
       \/ ToGuard(Notice, {})

GoSearch ==
    /\ pc = "semantic" /\ (Superlative => Mentioned = {})
    /\ pc' = "search_text"
    /\ UNCHANGED <<conversation, question, intent, found, sparse, hits, raw, final>>

-----------------------------------------------------------------------------
(* search_and_rerank.                                                      *)

NCandidates == IF Rerank \/ Bm25 THEN Candidates ELSE TopN

\* Lists of at most NCandidates documents, the closest first.
Ranked(ids, store) ==
    LET Rising(n) == {d \in [1..n -> 1..MaxDistance] : \A i \in 1..n-1 : d[i] <= d[i + 1]}
        Lists(s) == {[i \in 1..Len(s) |-> Hit(s[i], s[i][1], d[i], store)] : d \in Rising(Len(s))}
    IN  UNION {Lists(s) : s \in {t \in SetToAllKPermutations(ids) : Len(t) <= NCandidates}}

TextIds == UNION {IF p \in Long THEN {ChunkId(p, 1), ChunkId(p, 2)} ELSE {ProductId(p)} : p \in Product}
ProductIds == {ProductId(p) : p \in Product}

\* Chroma returns as many documents as there are, up to the number asked for.
TextLists ==
    {t \in Ranked(TextIds, "text") :
        Len(t) = IF NCandidates < Cardinality(TextIds) THEN NCandidates ELSE Cardinality(TextIds)}

GoOn(step) ==
    /\ pc' = step
    /\ UNCHANGED <<conversation, question, intent, hits, raw, final>>

\* Always: the text collection, one hit per product.
SearchText ==
    /\ pc = "search_text"
    /\ \E t \in TextLists : found' = MergeDedup(NormaliseIds(t), <<>>)
    /\ UNCHANGED sparse
    /\ GoOn("search_image")

\* The image collection, when it is on and does not fail; not every product has a picture.
SearchImage ==
    /\ pc = "search_image"
    /\ \/ Clip /\ \E m \in Ranked(ProductIds, "image") : found' = MergeDedup(found, m)
       \/ (Clip => Faults) /\ UNCHANGED found
    /\ UNCHANGED sparse
    /\ GoOn("search_bm25")

\* BM25 lists the products that share a word with the question; a failure lists none.
SearchBm25 ==
    /\ pc = "search_bm25"
    /\ \E s \in SetToAllKPermutations(ProductIds) :
        /\ Len(s) <= IF Bm25 THEN NCandidates ELSE 0
        /\ sparse' = [i \in DOMAIN s |-> Hit(s[i], s[i][1], 0, "bm25")]
    /\ UNCHANGED found
    /\ GoOn("fuse")

\* The mistake of looking at the status alone.
OfferableByStatus(h) == sale[h.product] # "stopped" \/ h.store # "text"

\* In stock and ACTIVE; only documents of the text collection carry a status, and a
\* missing one counts as ACTIVE.
Offerable(h) ==
    /\ sale[h.product] # "sold_out"
    /\ h.store = "text" => sale[h.product] # "stopped"

\* The two rankings become one, and what is not on offer leaves it.
Fuse ==
    /\ pc = "fuse"
    /\ LET all == IF sparse = <<>> THEN found ELSE MergeTextRrf(found, sparse)
           places == InOrder({i \in DOMAIN all : Offerable(all[i])}, <)
           kept == [i \in DOMAIN places |-> all[places[i]]]
       IN  IF kept = <<>>
           THEN ToGuard(NotFound, {})
           ELSE found' = kept /\ sparse' = <<>> /\ GoOn("rerank")

\* Cohere orders the candidates anew, or they keep their order; the first TopN stay.
RerankHits ==
    /\ pc = "rerank"
    /\ LET n == IF TopN < Len(found) THEN TopN ELSE Len(found)
       IN  \/ /\ Rerank
              /\ \E order \in SetToAllKPermutations(DOMAIN found) :
                  Len(order) = n /\ found' = [i \in 1..n |-> found[order[i]]]
           \/ (Rerank => Faults) /\ found' = SubSeq(found, 1, n)
    /\ UNCHANGED sparse
    /\ GoOn("generate")

\* Of the candidates those stay in rag_hits whose name the answer has in full.
NamedIn(a, S) == a.names \cap S

Generate ==
    /\ pc = "generate"
    /\ \E a \in ProductText("llm") : ToGuard(a, NamedIn(a, ProductsOf(found)))

-----------------------------------------------------------------------------
(* The guard and the end of the turn.                                      *)

\* _validate_semantic_answer against the products S.
Grounded(a, S) ==
    \/ a.rejects
    \/ /\ a.prices \subseteq PricesOf(S) \cup UNION {Quoted[p] : p \in S}
       /\ a.prices # {} \/ a.words \cap S # {}

\* The marks of bold print are taken out, and what they cut in two can be read.
Unmarked(a) == [a EXCEPT !.names = @ \cup a.boldNames, !.prices = @ \cup a.boldPrices]

\* final_answer is set, after the check; raw_answer stays as it is.
Guarded(answer) ==
    /\ final' = Unmarked(answer)
    /\ pc' = "append"
    /\ UNCHANGED <<conversation, question, intent, found, sparse, hits, raw>>

ChecksClaims == intent \in {"COMPLAINT", "SMALL_TALK"}

Doubtful == hits # {} /\ ~ Grounded(raw, hits)

GuardPass ==
    /\ pc = "guard"
    /\ ~ (intent = "SEMANTIC_SEARCH" /\ Doubtful)
    /\ ~ (ChecksClaims /\ raw.claims)
    /\ Guarded(raw)

GuardWarn ==
    /\ pc = "guard" /\ ChecksClaims /\ raw.claims
    /\ Guarded([raw EXCEPT !.by = "warned"])

\* The doubtful answer is not read again, so the model forgets all but its author.
GuardDoubt ==
    /\ pc = "guard" /\ intent = "SEMANTIC_SEARCH" /\ Doubtful
    /\ raw' = [NoAnswer EXCEPT !.by = raw.by]
    /\ pc' = "retry"
    /\ UNCHANGED <<conversation, question, intent, found, sparse, hits, final>>

\* The mistake of trusting the second answer.
TrustedRetry(a, S) == a

Verified(a, S) == IF Grounded(a, S) THEN a ELSE Fallback

\* One retry, checked like the first answer; a failed call is the fixed message.
Retry ==
    /\ pc = "retry"
    /\ \/ \E a \in ProductText("retry") : Guarded(Verified(a, hits))
       \/ Faults /\ Guarded(Fallback)

\* append_message: the answer is part of the history from now on.  Only prices of
\* products are ever looked up in it.
AppendMessage ==
    /\ pc = "append"
    /\ said' = [names |-> said.names \cup final.names,
                prices |-> said.prices \cup (final.prices \cap PricesOf(Product))]
    /\ pc' = "idle"
    /\ question' = "other" /\ intent' = "SMALL_TALK"
    /\ raw' = NoAnswer /\ final' = NoAnswer
    /\ UNCHANGED <<guest, sale, turn, found, sparse, hits>>

\* An error no node catches ends the run; chat.py apologises outside of the graph.
GraphError ==
    /\ Faults
    /\ \/ pc \in {"structured", "semantic", "search_text", "generate", "faq", "small_talk"}
       \/ pc = "complaint" /\ (question = "refund" => guest)
    /\ pc' = "idle"
    /\ question' = "other" /\ intent' = "SMALL_TALK"
    /\ found' = <<>> /\ sparse' = <<>>
    /\ UNCHANGED <<conversation, hits, raw, final>>

Over ==
    /\ pc = "idle" /\ turn = MaxTurns
    /\ UNCHANGED vars

Next ==
    \/ Receive \/ Classify
    \/ Structured \/ Faq \/ FixedText \/ Order \/ RefundNotice \/ Chat
    \/ Compare \/ LookUp \/ GoSearch
    \/ SearchText \/ SearchImage \/ SearchBm25 \/ Fuse \/ RerankHits \/ Generate
    \/ GuardPass \/ GuardWarn \/ GuardDoubt \/ Retry
    \/ AppendMessage \/ GraphError
    \/ Over

Spec == Init /\ [][Next]_vars

-----------------------------------------------------------------------------
(* Properties.                                                             *)

\* Texts the code composes itself reach the user as they are: the guard, which reads
\* rag_hits and the words of the text, never takes one for a hallucination.
FixedAnswersSurvive ==
    pc = "append" /\ raw.by \in {"template", "comparison", "lookup"} => final = raw

\* However often the LLM is asked, an answer with cards that is no refusal mentions
\* no price but those of the cards' products and their descriptions; the exception is a
\* price with the marks of bold print before its unit, which the guard cannot see.
CheckedPricesMatchCards ==
    pc = "append" /\ intent = "SEMANTIC_SEARCH" /\ hits # {} /\ ~ final.rejects =>
        final.prices \ final.boldPrices \subseteq
            PricesOf(hits) \cup UNION {Quoted[p] : p \in hits}

\* A product takes one place among the candidates, however many of its chunks,
\* pictures and words the three searches found.
NoProductTwice ==
    pc \in SearchStep \ {"search_text"} =>
        \A i, j \in DOMAIN found : found[i].product = found[j].product => i = j

\* A recommendation or a comparison has no card of a product that is sold out; only
\* a question for one product, or for conditions, is answered with one.
SoldOutNeverRecommended ==
    pc = "append" /\ intent = "SEMANTIC_SEARCH" /\ final.by # "lookup" =>
        \A p \in hits : sale[p] # "sold_out"

\* Fusion puts what both searches found before what one of them found, and of two
\* that both found the one that is ahead in both.
AgreementWins ==
    [][pc = "fuse" /\ sparse # <<>> =>
        LET Both(p) == p \in ProductsOf(found) /\ p \in ProductsOf(sparse)
            Rank(list, p) == FirstAt(list, ProductId(p))
            Ahead(p, q) ==
                /\ Both(p)
                /\ Both(q) => Rank(found, p) < Rank(found, q) /\ Rank(sparse, p) < Rank(sparse, q)
        IN  \A i, j \in DOMAIN found' :
                i < j => ~ Ahead(found'[j].product, found'[i].product)]_vars

\* "The guard catches empty and unrelated answers and asks again": what
\* generate_rag_response relies on when it returns whatever the LLM wrote.
UnrelatedAnswersAreRetried ==
    LET Unrelated(a) == a.words = {} /\ a.prices = {} /\ ~ a.rejects
    IN  pc = "append" /\ intent = "SEMANTIC_SEARCH" /\ final.by = "llm" => ~ Unrelated(final)
=============================================================================
