------------------------------ MODULE MCMonitor ------------------------------
EXTENDS Monitor, TLC
CONSTANTS n1, a, b, c, v1, h1, h2
Symmetry == Permutations(Handlers)
MCItems == <<a, b, c>>
OneAffected == {<<v1, a>>}
Right == {FALSE}
=============================================================================
