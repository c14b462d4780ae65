--------------------------- MODULE MCFunnelEngine ---------------------------
(***************************************************************************)
(* FunnelEngine on one field per form.  The claims count and the coverage  *)
(* tier have two values; every declaration is valid and a high claims      *)
(* count is referred.                                                      *)
(***************************************************************************)
EXTENDS FunnelEngine, TLC

CONSTANTS claims, tier, low, high, r1, r2, k1

MCPropertyFields == {}
MCFactorFields   == {claims}
MCCoverageFields == {tier}
MCValues         == {low, high}

Risk(c)  == [f \in {claims} |-> c]
Cover(t) == [f \in {tier} |-> t]

MCValidRisks      == {Risk(low), Risk(high)}
MCEligibleRisks   == {Risk(low)}
MCDefaultCoverage == Cover(low)
NoEmails          == {}

NoDelta == [risk |-> Risk(NoValue), coverage |-> Cover(NoValue), email |-> NoValue]

NoCorrections == {}
SomeCorrections == {[NoDelta EXCEPT !.risk[claims] = high],
                    [NoDelta EXCEPT !.coverage[tier] = high]}

NoAdjustments == {}
OneAdjustment == {Cover(high)}

OneVersion == {"v1"}
BothVersions == {"v1", "v2"}

One == {r1}
Two == {r1, r2}
Interchangeable == Permutations(Two)
OneKey == {k1}
NoKeys == {}
=============================================================================
