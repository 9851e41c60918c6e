------------------------------ MODULE MCVulnDB ------------------------------
EXTENDS VulnDBInv, TLC
CONSTANTS p1, p2, i1, i2, t1, t2, c1, c2, c3, c4, c5
Symmetry == Permutations(Importers) \cup Permutations(Trimmers)
OneFile == {<<<<c1, c2>>>>}
ThreeFiles == {<<<<c1, c2, c3, c4>>, <<>>, <<c5>>>>}
=============================================================================
