----------------------------- MODULE MCCpe2Cve -----------------------------
(* Cpe2Cve with three records, two workers, two feeds and an override. *)
EXTENDS Cpe2Cve

CONSTANTS a, wide, empty, f1, f2, fix, c1, c2, r1, r2, r3, short

Weights == [k \in Keys |-> CASE k = a -> 4 [] k = wide -> 9 [] OTHER -> 3]
AllLimits == {10}
AllHas == [f \in {f1, f2, fix} |-> IF f = f2 THEN {c1, c2} ELSE {c1}]
Records == <<r1, short, r2, r3>>
\* the two feeds differ in what c1 is about, and the override takes it from "wide"
AllHits == {<<a, c1, f1>>, <<wide, c1, f1>>, <<wide, c1, f2>>, <<a, c2, f2>>,
            <<wide, c1, fix>>}
=============================================================================
