----------------------------- MODULE RefundDesk -----------------------------
(***************************************************************************)
(* What a member and the shop's staff may rely on: an approval pays for    *)
(* one refund of one order of the member, a registered refund stays, and   *)
(* the one who registered it tells the staff once, unless the server dies  *)
(* first.                                                                  *)
(***************************************************************************)
EXTENDS Naturals

CONSTANTS
    Client,     \* those who may approve, each of them once
    Order,      \* orders the staff may hear of
    Own,        \* orders of the member
    Nothing

VARIABLES
    approval,   \* clients whose approval is not used yet
    refund,     \* refund[r]: the order r got refunded, or Nothing
    pending,    \* clients whose refund the staff has yet to hear of
    notices     \* notices[o]: how often the staff heard of order o

vars == <<approval, refund, pending, notices>>

Init ==
    /\ approval = {} /\ pending = {}
    /\ refund = [r \in Client |-> Nothing]
    /\ notices = [o \in Order |-> 0]

Approve(r) ==
    /\ refund[r] = Nothing /\ approval' = approval \cup {r}
    /\ UNCHANGED <<refund, pending, notices>>

\* The approval is used up by the refund.
Register(r, o) ==
    /\ r \in approval /\ refund[r] = Nothing
    /\ approval' = approval \ {r}
    /\ refund' = [refund EXCEPT ![r] = o]
    /\ pending' = pending \cup {r}
    /\ UNCHANGED notices

Announce(r) ==
    /\ r \in pending /\ pending' = pending \ {r}
    /\ notices' = [notices EXCEPT ![refund[r]] = @ + 1]
    /\ UNCHANGED <<approval, refund>>

\* The server dies: the refunds stay, and nobody tells the staff.
ServerLost == pending' = {} /\ UNCHANGED <<approval, refund, notices>>

Next ==
    \/ \E r \in Client : Approve(r) \/ Announce(r) \/ \E o \in Own : Register(r, o)
    \/ ServerLost

Spec == Init /\ [][Next]_vars
=============================================================================
