-------------------------------- MODULE Cvss3 --------------------------------
(* cvss3: the metrics of CVSS 3.0 and 3.1 and the scores of a vector.  Weights
   are in hundredths, scores in tenths, what is between in millionths.  The code
   computes in binary floating point: that shows only where an exact product
   falls on a tenth, which may then be rounded up.                           *)
EXTENDS FixedPoint, Sequences, TLC

\* The tables of the metrics: <<code, weight>> from index 0.
Exploitability == [
  AV |-> <<<<"", 0>>, <<"N", 85>>, <<"A", 62>>, <<"L", 55>>, <<"P", 20>>>>,
  AC |-> <<<<"", 0>>, <<"L", 77>>, <<"H", 44>>>>,
  PR |-> <<<<"", 0>>, <<"N", 85>>, <<"L", 62>>, <<"H", 27>>>>,
  UI |-> <<<<"", 0>>, <<"N", 85>>, <<"R", 62>>>>]
PrivilegesIfChanged == <<0, 85, 68, 50>>
ScopeTable == <<<<"", 0>>, <<"U", 0>>, <<"C", 0>>>>
ScopeChanged == 2
Level == <<<<"", 0>>, <<"H", 56>>, <<"L", 22>>, <<"N", 0>>>>
Impact == [C |-> Level, I |-> Level, A |-> Level]
Temporal == [
  E  |-> <<<<"X", 100>>, <<"H", 100>>, <<"F", 97>>, <<"P", 94>>, <<"U", 91>>>>,
  RL |-> <<<<"X", 100>>, <<"U", 100>>, <<"W", 97>>, <<"T", 96>>, <<"O", 95>>>>,
  RC |-> <<<<"X", 100>>, <<"C", 100>>, <<"R", 96>>, <<"U", 92>>>>]
Requirement == <<<<"X", 100>>, <<"H", 150>>, <<"M", 100>>, <<"L", 50>>>>
Requirements == [CR |-> Requirement, IR |-> Requirement, AR |-> Requirement]
\* a modified metric has the values of the one it modifies
Modified(table) == [table EXCEPT ![1] = <<"X", 100>>]
ModifiedExploitability == [
  MAV |-> Modified(Exploitability.AV), MAC |-> Modified(Exploitability.AC),
  MPR |-> Modified(Exploitability.PR), MUI |-> Modified(Exploitability.UI)]
ModifiedScope == [MS |-> Modified(ScopeTable)]
ModifiedImpact == [MC |-> Modified(Level), MI |-> Modified(Level), MA |-> Modified(Level)]
ModifiedTemporal == [ME |-> Temporal.E, MRL |-> Temporal.RL, MRC |-> Temporal.RC]

Order3 == <<"AV", "AC", "PR", "UI", "S", "C", "I", "A", "E", "RL", "RC", "CR", "IR", "AR",
            "MAV", "MAC", "MPR", "MUI", "MS", "MC", "MI", "MA", "ME", "MRL", "MRC">>
Table3 == Exploitability @@ [S |-> ScopeTable] @@ Impact @@ Temporal @@ Requirements
            @@ ModifiedExploitability @@ ModifiedScope @@ ModifiedImpact @@ ModifiedTemporal

INSTANCE CvssVector WITH
  Headers <- {<<<<"CVSS", version>>>> : version \in {"3.0", "3.1"}}, Order <- Order3, Table <- Table3,
  TakesBlank <- DOMAIN ModifiedExploitability \cup DOMAIN ModifiedImpact \cup {"MS"}

BaseMetrics == DOMAIN Exploitability \cup {"S"} \cup DOMAIN Impact
\* Vector.Validate
Valid(v) == \A m \in BaseMetrics : Defined(v, m)

-----------------------------------------------------------------------------
\* of a number between -1 and 1, for an odd exponent
SignedPower(x, n) == IF x >= 0 THEN Power(x, n) ELSE -Power(-x, n)

\* 1 - (1 - c)(1 - i)(1 - a)
Isc(c, i, a) == Million - Times(Times(Million - c, Million - i), Million - a)

ImpactOf(isc, changed, shifted, exponent) ==
  IF changed THEN ((isc - 29000) * 752) \div 100
                  - (325 * SignedPower(shifted - 20000, exponent)) \div 100
  ELSE (isc * 642) \div 100

\* Vector.impactScore, in millionths
ImpactScore(v) ==
  LET isc == Isc(10000 * Weight(v, "C"), 10000 * Weight(v, "I"), 10000 * Weight(v, "A")) IN
  ImpactOf(isc, v.S = ScopeChanged, isc, 15)

\* Faulty variant: in the table for a changed scope an index too low is looked up.
PrivilegesOffByOne(index, changed) ==
  IF changed THEN PrivilegesIfChanged[index] ELSE Exploitability.PR[index + 1][2]
PrivilegesWeight(index, changed) ==
  IF changed THEN PrivilegesIfChanged[index + 1] ELSE Exploitability.PR[index + 1][2]
ExploitabilityOf(av, ac, pr, ui) ==
  Percent(Percent(Percent(Percent(8220000, av), ac), pr), ui)
\* Vector.exploitabilityScore
ExploitabilityScore(v) ==
  ExploitabilityOf(Weight(v, "AV"), Weight(v, "AC"),
                   PrivilegesWeight(v.PR, v.S = ScopeChanged), Weight(v, "UI"))

\* the sum, scaled when the scope changed, at most 10, rounded up
Combine(impact, exploitability, changed) ==
  LET sum == impact + exploitability IN
  IF impact < 0 THEN 0
  ELSE CeilDiv(Least(IF changed THEN (sum * 108) \div 100 ELSE sum, 10 * Million), 100000)

BaseScore(v) == Combine(ImpactScore(v), ExploitabilityScore(v), v.S = ScopeChanged)

\* roundUp of a score times three weights: the outcomes floating point may have
Scaled(score, e, rl, rc) ==
  LET product == score * e * rl * rc IN
  IF e * rl * rc # Million /\ product % Million = 0
  THEN {product \div Million, product \div Million + 1}
  ELSE {CeilDiv(product, Million)}
TemporalScore(v) == Scaled(BaseScore(v), Weight(v, "E"), Weight(v, "RL"), Weight(v, "RC"))

-----------------------------------------------------------------------------
\* the weight of the modified metric where it is defined
Either(v, modified, metric) ==
  IF Defined(v, modified) THEN Weight(v, modified) ELSE Weight(v, metric)
ModifiedScopeChanged(v) ==
  IF Defined(v, "MS") THEN v.MS = ScopeChanged ELSE v.S = ScopeChanged

\* Vector.modifiedImpactScore; minor is the version
ModifiedImpactScore(v, minor) ==
  LET isc == Least(915000, Isc(100 * Either(v, "MC", "C") * Weight(v, "CR"),
                               100 * Either(v, "MI", "I") * Weight(v, "IR"),
                               100 * Either(v, "MA", "A") * Weight(v, "AR")))
  IN  IF minor = 1
      THEN ImpactOf(isc, ModifiedScopeChanged(v), Times(isc, 973100), 13)
      ELSE ImpactOf(isc, ModifiedScopeChanged(v), isc, 15)

\* Vector.modifiedExploitabilityScore
ModifiedExploitabilityScore(v) ==
  ExploitabilityOf(
    Either(v, "MAV", "AV"), Either(v, "MAC", "AC"),
    PrivilegesWeight(IF Defined(v, "MPR") THEN v.MPR ELSE v.PR, ModifiedScopeChanged(v)),
    Either(v, "MUI", "UI"))

\* Vector.EnvironmentalScore with modifiedTemporalMetricsMult
EnvironmentalScore(v, minor) ==
  LET score == Combine(ModifiedImpactScore(v, minor), ModifiedExploitabilityScore(v),
                       ModifiedScopeChanged(v))
  IN  Scaled(score, Either(v, "ME", "E"), Either(v, "MRL", "RL"), Either(v, "MRC", "RC"))

-----------------------------------------------------------------------------
(* A vector with a higher weight in one metric, and the others as they are, never
   scores less, though the impact of a changed scope subtracts a power of the
   sub-score.                                                                *)
Monotone(v) ==
  \A m \in BaseMetrics \ {"S"} : \A i \in Indices(m) \ {0} :
    Table3[m][i + 1][2] >= Weight(v, m) => BaseScore([v EXCEPT ![m] = i]) >= BaseScore(v)

(* Scores are between 0 and 10; what time has changed never raises them.     *)
InRange(v) ==
  /\ \A t \in TemporalScore(v) : 0 <= t /\ t <= BaseScore(v)
  /\ BaseScore(v) <= 100
  /\ \A minor \in {0, 1} : \A s \in EnvironmentalScore(v, minor) : 0 <= s /\ s <= 100

(* Environmental metrics that repeat the base and temporal ones, or say nothing,
   leave the temporal score of a 3.0 vector as it is.                        *)
Unmodified(v) ==
  /\ \A m \in DOMAIN Requirements : Weight(v, m) = 100
  /\ \A p \in {<<"MAV", "AV">>, <<"MAC", "AC">>, <<"MPR", "PR">>, <<"MUI", "UI">>,
               <<"MS", "S">>, <<"MC", "C">>, <<"MI", "I">>, <<"MA", "A">>,
               <<"ME", "E">>, <<"MRL", "RL">>, <<"MRC", "RC">>} : v[p[1]] \in {0, v[p[2]]}
DefaultsToTemporal(v) == Unmodified(v) => EnvironmentalScore(v, 0) = TemporalScore(v)
=============================================================================
