----------------------------- MODULE MCCveCache -----------------------------
(* CveCache with a few calls and keys.                                      *)
EXTENDS CveCacheInv, TLC

CONSTANTS a, b, d, wide, big, empty

Symmetry == Permutations(Calls)

\* Under a limit of 10 two of the light results fit and three do not, wide fits
\* only alone, and big leaves no reserve even alone.
Weights == [k \in Keys |-> CASE k = a -> 4 [] k = b -> 5 [] k = wide -> 8
                             [] k = big -> 10 [] OTHER -> 3]

\* No caching, no limit, a limit that makes evict run.
AllLimits == {-1, 0, 10}
Caching   == {0, 10}
Limited   == {10}
=============================================================================
