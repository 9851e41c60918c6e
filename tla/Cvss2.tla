-------------------------------- MODULE Cvss2 --------------------------------
(* cvss2: the metrics of CVSS 2 and the scores of a vector.  Base weights are in
   thousandths, the others in hundredths, scores in tenths, what is between in
   millionths.  The code computes in binary floating point: that shows only where
   an exact result falls half way between tenths, which may then go either way. *)
EXTENDS FixedPoint, Sequences, TLC

Access == [
  AV |-> <<<<"", 0>>, <<"L", 395>>, <<"A", 646>>, <<"N", 1000>>>>,
  AC |-> <<<<"", 0>>, <<"H", 350>>, <<"M", 610>>, <<"L", 710>>>>,
  Au |-> <<<<"", 0>>, <<"M", 450>>, <<"S", 560>>, <<"N", 704>>>>]
Level2 == <<<<"", 0>>, <<"N", 0>>, <<"P", 275>>, <<"C", 660>>>>
Impact2 == [C |-> Level2, I |-> Level2, A |-> Level2]
Temporal2 == [
  E  |-> <<<<"ND", 100>>, <<"U", 85>>, <<"POC", 90>>, <<"F", 95>>, <<"H", 100>>>>,
  RL |-> <<<<"ND", 100>>, <<"OF", 87>>, <<"TF", 90>>, <<"W", 95>>, <<"U", 100>>>>,
  RC |-> <<<<"ND", 100>>, <<"UC", 90>>, <<"UR", 95>>, <<"C", 100>>>>]
Damage == [
  CDP |-> <<<<"ND", 0>>, <<"N", 0>>, <<"L", 10>>, <<"LM", 30>>, <<"MH", 40>>, <<"H", 50>>>>,
  TD  |-> <<<<"ND", 100>>, <<"N", 0>>, <<"L", 25>>, <<"M", 75>>, <<"H", 100>>>>]
Requirement2 == <<<<"ND", 100>>, <<"L", 50>>, <<"M", 100>>, <<"H", 151>>>>
Requirements2 == [CR |-> Requirement2, IR |-> Requirement2, AR |-> Requirement2]
ModifiedTemporal2 == [ME |-> Temporal2.E, MRL |-> Temporal2.RL, MRC |-> Temporal2.RC]

Order2 == <<"AV", "AC", "Au", "C", "I", "A", "E", "RL", "RC", "CDP", "TD",
            "CR", "IR", "AR", "ME", "MRL", "MRC">>
Table2 == Access @@ Impact2 @@ Temporal2 @@ Damage @@ Requirements2 @@ ModifiedTemporal2

INSTANCE CvssVector WITH Headers <- {<<>>}, Order <- Order2, Table <- Table2, TakesBlank <- {}

BaseMetrics == DOMAIN Access \cup DOMAIN Impact2
\* Vector.Validate
Valid(v) == \A m \in BaseMetrics : Defined(v, m)

-----------------------------------------------------------------------------
\* the outcomes of roundTo1Decimal: either side where x is half way
Rounded(x, unit) == {Round(x, unit), Round(x + (IF x >= 0 THEN -1 ELSE 1), unit)}

\* Vector.impactScore; adjust weighs the levels with the requirements
ImpactScore(v, adjust) ==
  LET level(m, r) == 10 * Weight(v, m) * (IF adjust THEN Weight(v, r) ELSE 100)
      spared == Times(Times(Million - level("C", "CR"), Million - level("I", "IR")),
                      Million - level("A", "AR"))
  IN  ((Million - spared) * 1041) \div 100

\* Vector.baseScoreWith
BaseScoreWith(v, impact) ==
  LET exploitability == ((Weight(v, "AV") * Weight(v, "AC") * Weight(v, "Au")) \div 1000) * 20
      sum == Percent(impact, 60) + Percent(exploitability, 40) - 1500000
  IN  IF impact = 0 THEN 0 ELSE Round(sum + ((sum * 176) \div 1000), 100000)

\* the weight of the modified metric where it is asked for and defined
Chosen(v, modified, metric, extended) ==
  IF extended /\ Defined(v, modified) THEN Weight(v, modified) ELSE Weight(v, metric)

\* Vector.temporalScoreWith
TemporalScoreWith(v, impact, extended) ==
  Rounded(BaseScoreWith(v, impact) * Chosen(v, "ME", "E", extended)
            * Chosen(v, "MRL", "RL", extended) * Chosen(v, "MRC", "RC", extended), Million)

BaseScore(v) == BaseScoreWith(v, ImpactScore(v, FALSE))
TemporalScore(v) == TemporalScoreWith(v, ImpactScore(v, FALSE), FALSE)
\* Vector.EnvironmentalScore
EnvironmentalScore(v) ==
  LET impact == Least(10 * Million, ImpactScore(v, TRUE)) IN
  UNION {Rounded((100 * at + (100 - at) * Weight(v, "CDP")) * Weight(v, "TD"), 10000) :
           at \in TemporalScoreWith(v, impact, TRUE)}

-----------------------------------------------------------------------------
(* A vector with a higher weight in one metric, and the others as they are, never
   has a lower base score.                                                    *)
Monotone(v) ==
  \A m \in BaseMetrics : \A i \in Indices(m) \ {0} :
    Table2[m][i + 1][2] >= Weight(v, m) => BaseScore([v EXCEPT ![m] = i]) >= BaseScore(v)

(* Scores are between 0 and 10, and what time has changed never raises them.  The
   environmental score stays above 0 only where no requirement is low: the floor
   for no impact does not reach an impact that the requirements make small.   *)
InRange(v) ==
  /\ BaseScore(v) \in 0 .. 100
  /\ \A t \in TemporalScore(v) : 0 <= t /\ t <= BaseScore(v)
  /\ \A s \in EnvironmentalScore(v) :
       s <= 100 /\ ((\A m \in DOMAIN Requirements2 : Weight(v, m) >= 100) => s >= 0)

(* Environmental metrics that say nothing, or repeat the temporal ones, leave the
   temporal score as it is; only a complete loss of all three, whose impact of
   10.0008 the environmental score alone cuts to 10, may score a tenth less.  *)
DefaultsToTemporal(v) ==
  (/\ ImpactScore(v, FALSE) <= 10 * Million
   /\ Weight(v, "CDP") = 0 /\ Weight(v, "TD") = 100
   /\ \A m \in DOMAIN Requirements2 : Weight(v, m) = 100
   /\ \A p \in {<<"ME", "E">>, <<"MRL", "RL">>, <<"MRC", "RC">>} : v[p[1]] \in {0, v[p[2]]})
    => EnvironmentalScore(v) = TemporalScore(v)
=============================================================================
