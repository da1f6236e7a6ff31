---------------------------- MODULE MCNorthbound ----------------------------
(* Model values for Northbound.                                            *)
EXTENDS Northbound, TLC
CONSTANTS c1, c2, e1, s1, s2, bad

OneClient  == {c1}
TwoClients == {c1, c2}
OneName    == {e1}
ThreeSpecs == {s1, s2, bad}
TwoSpecs   == {s1, bad}
TwoValid   == {s1, s2}
OneValid   == {s1}
Symmetry   == Permutations(TwoClients) \cup Permutations(TwoValid)
=============================================================================
