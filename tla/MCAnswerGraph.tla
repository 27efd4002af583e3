--------------------------- MODULE MCAnswerGraph ----------------------------
(* Small instances of AnswerGraph for TLC. *)
EXTENDS AnswerGraph, TLC

CONSTANTS p1, p2

TwoProducts == {p1, p2}
OneLong == {p1}

\* A cheap product, and a dear one whose description has another price.
TwoPrices == p1 :> 10 @@ p2 :> 20
OneQuoted == p1 :> {} @@ p2 :> {30}
ThreePrices == {10, 20, 30}
=============================================================================
