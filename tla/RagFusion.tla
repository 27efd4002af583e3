----------------------------- MODULE RagFusion ------------------------------
(***************************************************************************)
(* How graph/rag_pipeline.py makes one ranking of the candidates that the  *)
(* text collection, the image collection and BM25 return.                  *)
(*                                                                         *)
(* A hit is reduced to its id, the product it is about, its distance and   *)
(* the store it comes from.  Every list arrives sorted by distance.        *)
(***************************************************************************)
EXTENDS Naturals, Sequences, SequencesExt

CONSTANT K   \* RRF_K

ASSUME RankConstant == K \in Nat \ {0}

\* str(product_id) as an id, and f"{product_id}_chunk_{n}" for n from 1 here.
ProductId(p) == <<p, 0>>
ChunkId(p, n) == <<p, n>>

Hit(id, product, distance, store) ==
    [id |-> id, product |-> product, distance |-> distance, store |-> store]

IdsOf(hits) == {hits[i].id : i \in DOMAIN hits}
ProductsOf(hits) == {hits[i].product : i \in DOMAIN hits}

\* The position where an id first appears.
FirstAt(hits, id) ==
    CHOOSE i \in DOMAIN hits :
        hits[i].id = id /\ \A j \in DOMAIN hits : hits[j].id = id => i <= j

\* The first of the closest hits with an id: a later one must be closer to win.
ClosestAt(hits, id) ==
    LET At == {i \in DOMAIN hits : hits[i].id = id}
    IN  CHOOSE i \in At : \A j \in At :
            \/ hits[i].distance < hits[j].distance
            \/ hits[i].distance = hits[j].distance /\ i <= j

\* The elements of S in a strict order of theirs.
InOrder(S, before(_, _)) ==
    CHOOSE s \in SetToSeqs(S) : \A i, j \in DOMAIN s : i < j => before(s[i], s[j])

-----------------------------------------------------------------------------
\* The mistake of keeping the ids of the chunks.
KeepsChunkIds(hits) == hits

\* Text hits are named after their product, whatever chunk they are.
NormaliseIds(hits) ==
    [i \in DOMAIN hits |-> [hits[i] EXCEPT !.id = ProductId(hits[i].product)]]

\* _merge_dedup: the closest hit of each id, sorted by distance.  The sort is
\* stable and a dict keeps the place of a key whose value is replaced.
MergeDedup(text, image) ==
    LET all == text \o image
        Best(id) == all[ClosestAt(all, id)]
        Before(a, b) ==
            \/ Best(a).distance < Best(b).distance
            \/ Best(a).distance = Best(b).distance /\ FirstAt(all, a) < FirstAt(all, b)
        order == InOrder(IdsOf(all), Before)
    IN  [i \in DOMAIN order |-> Best(order[i])]

-----------------------------------------------------------------------------
(* Reciprocal rank fusion.  A score is the fraction <<numerator,           *)
(* denominator>>: the code adds 1 / (K + rank) over the lists.             *)

Less(x, y) == x[1] * y[2] < y[1] * x[2]

Share(hits, id) ==
    IF id \in IdsOf(hits) THEN <<1, K + FirstAt(hits, id)>> ELSE <<0, 1>>

\* The mistake of letting the better rank decide alone.
BestRankOnly(dense, sparse, id) ==
    LET d == Share(dense, id)
        s == Share(sparse, id)
    IN  IF Less(d, s) THEN s ELSE d

Score(dense, sparse, id) ==
    LET d == Share(dense, id)
        s == Share(sparse, id)
    IN  <<d[1] * s[2] + s[1] * d[2], d[2] * s[2]>>

\* _merge_text_rrf: by falling score, ties in the order of first appearance.  A
\* product found by both is represented by its dense hit.  The distance it then
\* gets encodes the score for display only.
MergeTextRrf(dense, sparse) ==
    LET all == dense \o sparse
        Before(a, b) ==
            \/ Less(Score(dense, sparse, b), Score(dense, sparse, a))
            \/ /\ ~ Less(Score(dense, sparse, a), Score(dense, sparse, b))
               /\ FirstAt(all, a) < FirstAt(all, b)
        order == InOrder(IdsOf(all), Before)
    IN  [i \in DOMAIN order |-> all[FirstAt(all, order[i])]]
=============================================================================
