--------------------------- MODULE MCCatalogIndex ---------------------------
(* Small instances of CatalogIndex for TLC. *)
EXTENDS CatalogIndex, TLC

CONSTANTS p1, p2, j1, j2, j3

TwoProducts == {p1, p2}
ThreeJobs == {j1, j2, j3}

AllJobs == {"reindex", "delete", "all", "images"}

ShortOrTwoChunks == {0, 2}

Symmetry == Permutations(Product) \cup Permutations(Job)
=============================================================================
