--------------------------- MODULE MCRefundAgent ----------------------------
(* Small instances of RefundAgent for TLC. *)
EXTENDS RefundAgent, TLC

CONSTANTS r1, r2, r3, r4, o1, o2, o3

TwoRequests == {r1, r2}
ThreeRequests == {r1, r2, r3}
FourRequests == {r1, r2, r3, r4}

\* Two orders of the member, and one of somebody else.
ThreeOrders == {o1, o2, o3}
TwoOwnOrders == {o1, o2}

Symmetry == Permutations(Request) \cup Permutations(TwoOwnOrders)
=============================================================================
