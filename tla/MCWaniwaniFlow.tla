--------------------------- MODULE MCWaniwaniFlow ---------------------------
(***************************************************************************)
(* WaniwaniFlow on one field per form.  The postcode fits, misfits or fits *)
(* only once it is trimmed; the claims count is accepted, referred or no   *)
(* number.                                                                 *)
(***************************************************************************)
EXTENDS WaniwaniFlow

CONSTANTS postcode, claims, tier, low, high, odd

MCPropertyFields == {postcode}
MCFactorFields   == {claims}
MCCoverageFields == {tier}
MCValues         == {low, high, odd}

Risk(p, c) == [f \in {postcode, claims} |-> IF f = postcode THEN p ELSE c]

MCValidRisks      == {Risk(low, low), Risk(low, high)}
MCEligibleRisks   == {Risk(low, low)}
MCDefaultCoverage == [f \in MCCoverageFields |-> low]
MCFactorDefaults  == [f \in MCFactorFields |-> low]

PostcodeForm(v)  == [f \in MCPropertyFields |-> v]
MCFitting        == {PostcodeForm(low)}
MCFittingTrimmed == {PostcodeForm(low), PostcodeForm(odd)}

NoReply == [input |-> EmptyInput, parametersConfirmed |-> NoValue, hasConsented |-> NoValue]

\* Nothing, one field or one flag.
MCReplies ==
    {NoReply}
    \cup {[NoReply EXCEPT !.input.risk[f] = v] : f \in {postcode, claims}, v \in MCValues}
    \cup {[NoReply EXCEPT !.input.coverage[tier] = high]}
    \cup {[NoReply EXCEPT !.parametersConfirmed = b] : b \in Flags}
    \cup {[NoReply EXCEPT !.hasConsented = b] : b \in Flags}
=============================================================================
