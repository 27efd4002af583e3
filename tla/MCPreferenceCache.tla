------------------------- MODULE MCPreferenceCache -------------------------
(* Small instances of PreferenceCache for TLC. *)
EXTENDS PreferenceCache, TLC

CONSTANTS m1, m2, c1, c2, c3, l1, l2, l3, l4, l5

TwoMembers == {m1, m2}
TwoCoroutines == {c1, c2}
ThreeCoroutines == {c1, c2, c3}

\* One lock in _locks per member and one held per coroutine are the most that
\* can be referred to at once.
FourLocks == {l1, l2, l3, l4}
FiveLocks == {l1, l2, l3, l4, l5}

Symmetry == Permutations(Member) \cup Permutations(Coroutine)
                \cup Permutations(Lock)
=============================================================================
