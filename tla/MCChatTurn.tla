----------------------------- MODULE MCChatTurn -----------------------------
(* Small instances of ChatTurn and SerialClient for TLC. *)
EXTENDS SerialClient, TLC

CONSTANTS m1, m2, r1, r2, r3, s1, s2, i1

TwoMembers == {m1, m2}
OneMember == {m1}
TwoRequests == {r1, r2}
ThreeRequests == {r1, r2, r3}
OneSession == {s1}
TwoSessions == {s1, s2}
OneId == {i1}

Turns == {"turn"}
TurnsAndDeletions == {"turn", "delete"}
TurnsAndSessions == {"turn", "create", "read", "delete"}

\* Coroutines, members and sessions are interchangeable.
Symmetry == Permutations(Request) \cup Permutations(Member)
                \cup Permutations(Session)
=============================================================================
