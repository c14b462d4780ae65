------------------------------ MODULE MCFunnel ------------------------------
(***************************************************************************)
(* Funnel on one field per form, two values per field and one email of     *)
(* each sort.                                                              *)
(***************************************************************************)
EXTENDS Funnel

CONSTANTS postcode, claims, tier, low, high, good, wrong

MCPropertyFields == {postcode}
MCFactorFields   == {claims}
MCCoverageFields == {tier}
MCValues         == {low, high}

Risk(p, c) == [f \in {postcode, claims} |-> IF f = postcode THEN p ELSE c]

\* A high claims count is referred; together with a high postcode it is a
\* declaration the schema rejects.
MCValidRisks    == {Risk(low, low), Risk(low, high), Risk(high, low)}
MCEligibleRisks == {Risk(low, low), Risk(high, low)}
MCDefaultCoverage == [f \in MCCoverageFields |-> low]
MCEmails      == {good, wrong}
MCValidEmails == {good}

NoDelta == [risk     |-> Risk(NoValue, NoValue),
            coverage |-> [f \in MCCoverageFields |-> NoValue],
            email    |-> NoValue]

\* Corrections of one field, and one that changes a risk and a coverage field.
MCCorrections ==
    {[NoDelta EXCEPT !.risk[f] = v] : f \in {postcode, claims}, v \in MCValues}
    \cup {[NoDelta EXCEPT !.coverage[tier] = v] : v \in MCValues}
    \cup {[NoDelta EXCEPT !.email = good]}
    \cup {[NoDelta EXCEPT !.risk[claims] = low, !.coverage[tier] = high]}
=============================================================================
