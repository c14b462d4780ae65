---------------------------- MODULE FunnelDomain ----------------------------
(***************************************************************************)
(* The pure part of packages/domain: what a quotation session holds, which *)
(* steps it may take, and how FunnelStateMachine changes it.  Nothing here *)
(* has state: Funnel serves one request at a time over these operators,    *)
(* FunnelEngine serves concurrent requests over the same ones.             *)
(*                                                                         *)
(* A form field holds a member of Values, well formed or not, or NoValue   *)
(* when the key is undefined.  Time stamps are the values of a clock that  *)
(* starts at 0, where 0 is a stamp that is undefined.                      *)
(***************************************************************************)
EXTENDS Naturals, Sequences

CONSTANTS
    PropertyFields,   \* the fields of submit_property_basics
    FactorFields,     \* the fields of submit_risk_factors
    CoverageFields,   \* coverageTier and deductible
    Values,           \* what a form may put in such a field
    NoValue,          \* an undefined key
    ValidRisks,       \* the declarations QuoteInputSchema accepts ...
    EligibleRisks,    \* ... and those the active rule set accepts
    DefaultCoverage,  \* comfort, 300
    Emails,           \* what select_coverage may put in contactEmail ...
    ValidEmails,      \* ... and what QuoteInputSchema accepts there
    NoQuote           \* activeQuote is undefined

StructuralFields == PropertyFields \cup FactorFields

Steps == {"COLLECTING_PROPERTY", "COLLECTING_RISK", "EVALUATING_ELIGIBILITY",
          "COLLECTING_COVERAGE", "AWAITING_CONFIRMATION", "AWAITING_CONSENT",
          "READY_TO_QUOTE", "QUOTED", "REFERRED"}

Partial(S) == S \cup {NoValue}

Inputs == [risk     : [StructuralFields -> Partial(Values)],
           coverage : [CoverageFields -> Partial(Values)],
           email    : Partial(Emails)]

\* CorrectionInputSchema: any of the fields, the email well formed.
CorrectionInputs == [risk     : [StructuralFields -> Partial(Values)],
                     coverage : [CoverageFields -> Partial(Values)],
                     email    : Partial(ValidEmails)]

Quotes == [quoteId : Nat, input : Inputs, status : {"active", "adjusted"}]

ASSUME DomainAssumption ==
    /\ PropertyFields \cap FactorFields = {}
    /\ NoValue \notin Values
    /\ NoValue \notin Emails
    /\ NoQuote \notin Quotes
    /\ ValidRisks \subseteq [StructuralFields -> Values]
    /\ EligibleRisks \subseteq ValidRisks
    /\ DefaultCoverage \in [CoverageFields -> Values]
    /\ ValidEmails \subseteq Emails

Sessions == [step                  : Steps,
             input                 : Inputs,
             eligibility           : {"none", "eligible", "ineligible"},
             activeQuote           : Quotes \cup {NoQuote},
             historicalQuotes      : Seq(Quotes),
             parametersConfirmedAt : Nat,
             consentGrantedAt      : Nat]

EmptyInput == [risk     |-> [f \in StructuralFields |-> NoValue],
               coverage |-> [f \in CoverageFields |-> NoValue],
               email    |-> NoValue]

\* What startSession saves.
StartedSession == [step                  |-> "COLLECTING_PROPERTY",
                   input                 |-> EmptyInput,
                   eligibility           |-> "none",
                   activeQuote           |-> NoQuote,
                   historicalQuotes      |-> << >>,
                   parametersConfirmedAt |-> 0,
                   consentGrantedAt      |-> 0]

-----------------------------------------------------------------------------
(* The transition table *)

ALLOWED_TRANSITIONS ==
    {<<"COLLECTING_PROPERTY", "COLLECTING_RISK">>,
     <<"COLLECTING_PROPERTY", "COLLECTING_PROPERTY">>,
     <<"COLLECTING_RISK", "EVALUATING_ELIGIBILITY">>,
     <<"COLLECTING_RISK", "COLLECTING_PROPERTY">>,
     <<"COLLECTING_RISK", "COLLECTING_RISK">>,
     <<"EVALUATING_ELIGIBILITY", "COLLECTING_COVERAGE">>,
     <<"EVALUATING_ELIGIBILITY", "REFERRED">>,
     <<"COLLECTING_COVERAGE", "AWAITING_CONFIRMATION">>,
     <<"COLLECTING_COVERAGE", "COLLECTING_RISK">>,
     <<"COLLECTING_COVERAGE", "COLLECTING_PROPERTY">>,
     <<"AWAITING_CONFIRMATION", "AWAITING_CONSENT">>,
     <<"AWAITING_CONFIRMATION", "COLLECTING_PROPERTY">>,
     <<"AWAITING_CONFIRMATION", "COLLECTING_RISK">>,
     <<"AWAITING_CONFIRMATION", "COLLECTING_COVERAGE">>,
     <<"AWAITING_CONSENT", "READY_TO_QUOTE">>,
     <<"AWAITING_CONSENT", "AWAITING_CONFIRMATION">>,
     <<"AWAITING_CONSENT", "COLLECTING_PROPERTY">>,
     <<"READY_TO_QUOTE", "QUOTED">>,
     <<"READY_TO_QUOTE", "AWAITING_CONFIRMATION">>,
     <<"READY_TO_QUOTE", "COLLECTING_PROPERTY">>,
     <<"QUOTED", "COLLECTING_COVERAGE">>,
     <<"QUOTED", "COLLECTING_PROPERTY">>,
     <<"QUOTED", "COLLECTING_RISK">>,
     <<"REFERRED", "COLLECTING_PROPERTY">>,
     <<"REFERRED", "COLLECTING_RISK">>}

CanTransition(from, to) == <<from, to>> \in ALLOWED_TRANSITIONS

\* assertStep(allowed) followed by transition(to): the guard of every handler.
MayMove(s, allowed, to) == s.step \in allowed /\ CanTransition(s.step, to)

-----------------------------------------------------------------------------
(* Inputs *)

\* { ...old, ...new }, where an undefined key of new overrides nothing.
Override(old, new) ==
    [f \in DOMAIN old |-> IF f \in DOMAIN new /\ new[f] # NoValue
                          THEN new[f] ELSE old[f]]

\* Some key is defined before and after, with different values.
Changed(old, new) ==
    \E f \in DOMAIN old : /\ old[f] # NoValue
                          /\ new[f] # NoValue
                          /\ new[f] # old[f]

Merged(input, delta) ==
    [risk     |-> Override(input.risk, delta.risk),
     coverage |-> Override(input.coverage, delta.coverage),
     email    |-> IF delta.email = NoValue THEN input.email ELSE delta.email]

\* validateInputs succeeds; ValidatedInput is what it returns.
InputsValid(input) ==
    /\ input.risk \in ValidRisks
    /\ input.email \in Partial(ValidEmails)

ValidatedInput(input) ==
    [input EXCEPT !.coverage = Override(DefaultCoverage, input.coverage)]

-----------------------------------------------------------------------------
(* Operations of FunnelStateMachine and of the engine's handlers on a      *)
(* session they hold.                                                      *)

\* submitPropertyBasics and submitRiskFactors.
Declared(s, form, step) ==
    [s EXCEPT !.input.risk = Override(@, form), !.step = step]

\* selectCoverage: a tier or deductible the request omits becomes comfort or 300,
\* and an email it omits erases the one on file.
Covered(s, form, email) ==
    [s EXCEPT !.input.coverage = Override(DefaultCoverage, form),
              !.input.email = email,
              !.step = "AWAITING_CONFIRMATION"]

MayConfirm(s) ==
    MayMove(s, {"AWAITING_CONFIRMATION", "AWAITING_CONSENT"}, "AWAITING_CONSENT")

ConfirmParameters(s, now) ==
    [s EXCEPT !.parametersConfirmedAt = now, !.step = "AWAITING_CONSENT"]

MayConsent(s) ==
    /\ MayMove(s, {"AWAITING_CONSENT", "READY_TO_QUOTE"}, "READY_TO_QUOTE")
    /\ s.parametersConfirmedAt # 0

GrantConsent(s, now) ==
    [s EXCEPT !.consentGrantedAt = now, !.step = "READY_TO_QUOTE"]

ReadyToQuote_NoEligibility(s) ==                         \* mutant
    /\ s.consentGrantedAt # 0
    /\ s.parametersConfirmedAt # 0
    /\ s.step \in {"READY_TO_QUOTE", "QUOTED"}

ReadyToQuote(s) ==
    /\ s.consentGrantedAt # 0
    /\ s.parametersConfirmedAt # 0
    /\ s.eligibility = "eligible"
    /\ s.step \in {"READY_TO_QUOTE", "QUOTED"}

Retired_Unguarded(s) ==                                  \* mutant
    Append(s.historicalQuotes, s.activeQuote)

\* The active quote joins the historical ones.
Retired(s) == IF s.activeQuote = NoQuote
              THEN s.historicalQuotes
              ELSE Append(s.historicalQuotes, s.activeQuote)

Invalidated_KeepsConsent(s) ==                           \* mutant
    [s EXCEPT !.historicalQuotes = Retired(s), !.activeQuote = NoQuote,
              !.parametersConfirmedAt = 0]

Invalidated_DropsQuote(s) ==                             \* mutant
    [s EXCEPT !.activeQuote = NoQuote,
              !.parametersConfirmedAt = 0,
              !.consentGrantedAt = 0]

\* What both tiers of an invalidating correction reset.
Invalidated(s) ==
    [s EXCEPT !.historicalQuotes = Retired(s), !.activeQuote = NoQuote,
              !.parametersConfirmedAt = 0,
              !.consentGrantedAt = 0]

ApplyCorrection_KeepsEligibility(s, delta) ==            \* mutant
    LET after == IF Changed(s.input.risk, delta.risk)
                 THEN [Invalidated(s) EXCEPT !.step = "COLLECTING_PROPERTY"]
                 ELSE IF Changed(s.input.coverage, delta.coverage)
                 THEN [Invalidated(s) EXCEPT !.step = "COLLECTING_COVERAGE"]
                 ELSE s
    IN [after EXCEPT !.input = Merged(s.input, delta)]

ApplyCorrection_RiskOnly(s, delta) ==                    \* mutant
    LET after == IF Changed(s.input.risk, delta.risk)
                 THEN [Invalidated(s) EXCEPT !.eligibility = "none",
                                             !.step = "COLLECTING_PROPERTY"]
                 ELSE s
    IN [after EXCEPT !.input = Merged(s.input, delta)]

ApplyCorrection(s, delta) ==
    LET after == IF Changed(s.input.risk, delta.risk)
                 THEN [Invalidated(s) EXCEPT !.eligibility = "none",
                                             !.step = "COLLECTING_PROPERTY"]
                 ELSE IF Changed(s.input.coverage, delta.coverage)
                 THEN [Invalidated(s) EXCEPT !.step = "COLLECTING_COVERAGE"]
                 ELSE s
    IN [after EXCEPT !.input = Merged(s.input, delta)]

\* evaluateEligibility, once the pricing port has answered.
MayEvaluate(s) == /\ s.step = "EVALUATING_ELIGIBILITY"
                  /\ InputsValid(s.input)

Evaluate(s) ==
    IF s.input.risk \in EligibleRisks
    THEN [s EXCEPT !.eligibility = "eligible",   !.step = "COLLECTING_COVERAGE"]
    ELSE [s EXCEPT !.eligibility = "ineligible", !.step = "REFERRED"]

MayIssue_FromQuoted(s) ==                                \* mutant
    ReadyToQuote(s) /\ InputsValid(s.input) /\ s.input.risk \in EligibleRisks

\* calculateQuote's new quote; the session step must still allow QUOTED.
MayIssue(s) == /\ ReadyToQuote(s)
               /\ InputsValid(s.input)
               /\ s.input.risk \in EligibleRisks
               /\ CanTransition(s.step, "QUOTED")

NewQuote(s, id) ==
    [quoteId |-> id, input |-> ValidatedInput(s.input), status |-> "active"]

Issue_KeepsStep(s, id) == [s EXCEPT !.activeQuote = NewQuote(s, id)]   \* mutant

Issue(s, id) == [s EXCEPT !.activeQuote = NewQuote(s, id), !.step = "QUOTED"]

\* adjustQuote on a session whose coverage the request has overridden.
WithCoverage(s, coverage) ==
    [s EXCEPT !.input.coverage = Override(s.input.coverage, coverage)]

MayAdjust(s) == /\ s.activeQuote # NoQuote
                /\ InputsValid(s.input)

Adjust_ForgetsOld(s, coverage, id) ==                    \* mutant
    LET t == WithCoverage(s, coverage)
    IN [t EXCEPT !.activeQuote =
           [quoteId |-> id, input |-> ValidatedInput(t.input), status |-> "adjusted"]]

Adjust(s, coverage, id) ==
    LET t == WithCoverage(s, coverage)
    IN [t EXCEPT !.historicalQuotes = Retired(s),
                 !.activeQuote = [quoteId |-> id,
                                  input   |-> ValidatedInput(t.input),
                                  status  |-> "adjusted"]]

\* anonymizeSession on the session document.
ScrubInput(input) == [input EXCEPT !.email = NoValue]

ScrubQuote(q) == IF q = NoQuote THEN q ELSE [q EXCEPT !.input = ScrubInput(@)]

Scrub(s) == [s EXCEPT !.input = ScrubInput(@),
                      !.activeQuote = ScrubQuote(@),
                      !.historicalQuotes = [i \in DOMAIN @ |-> ScrubQuote(@[i])]]

-----------------------------------------------------------------------------
(* Where a session stands with its customer, for QuoteContract: a           *)
(* confirmation or a consent counts once the risk has been found eligible.  *)

Stage(s) == IF s.eligibility # "eligible" THEN "gathering"
            ELSE IF s.activeQuote # NoQuote THEN "quoted"
            ELSE IF s.consentGrantedAt # 0 THEN "consented"
            ELSE IF s.parametersConfirmedAt # 0 THEN "confirmed"
            ELSE "gathering"

TermsOf(input) == [risk |-> input.risk, coverage |-> input.coverage]

SettledTerms(s) == IF Stage(s) = "gathering" THEN NoQuote ELSE TermsOf(s.input)

Offer(s) == IF Stage(s) = "quoted" THEN TermsOf(s.activeQuote.input) ELSE NoQuote

\* The quotes a session shows, active and historical.
QuoteIds(s) == {s.historicalQuotes[i].quoteId : i \in DOMAIN s.historicalQuotes}
                  \cup (IF s.activeQuote = NoQuote THEN {} ELSE {s.activeQuote.quoteId})

\* The same in the order they were issued: the active one after the historical ones.
QuoteOrder(s) == [i \in DOMAIN s.historicalQuotes |-> s.historicalQuotes[i].quoteId]
                    \o (IF s.activeQuote = NoQuote THEN << >>
                        ELSE <<s.activeQuote.quoteId>>)

\* An active quote stands only on a session that is eligible, confirmed and
\* consented, and prices the risk and coverage the session holds now.
QuoteBacked(s) ==
    s.activeQuote # NoQuote =>
        /\ s.step = "QUOTED"
        /\ s.parametersConfirmedAt # 0
        /\ s.consentGrantedAt # 0
        /\ s.eligibility = "eligible"
        /\ TermsOf(s.activeQuote.input) = TermsOf(s.input)

\* The eligibility verdict on the session is the rule set's verdict on the risk
\* the session holds now.
VerdictCurrent(s) ==
    s.eligibility # "none" =>
        /\ s.input.risk \in ValidRisks
        /\ (s.eligibility = "eligible" <=> s.input.risk \in EligibleRisks)
=============================================================================
