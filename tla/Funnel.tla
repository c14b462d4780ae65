------------------------------- MODULE Funnel -------------------------------
(***************************************************************************)
(* One quotation session, its requests served one at a time: each action   *)
(* is a FunnelEngine operation that succeeds, from requireSession to the   *)
(* saveSession that ends it.  A request that is refused throws before it   *)
(* saves, so it leaves the session as it was, and is no step here.         *)
(***************************************************************************)
EXTENDS FunnelDomain

CONSTANTS
    Corrections,   \* the deltas correct_field may carry
    MaxQuotes,     \* bound on the quotes issued in the session
    MaxClock       \* bound on the time stamps

ASSUME FunnelAssumption ==
    /\ Corrections \subseteq CorrectionInputs
    /\ MaxQuotes \in Nat
    /\ MaxClock \in Nat

VARIABLES
    session,    \* the saved session document
    clock,      \* the time stamp last saved
    issued,     \* history: the identifiers of the quotes, in order of issue
    confirmed,  \* history: the input at the last confirmation
    spent       \* history: the consents under which a quote was calculated

vars == <<session, clock, issued, confirmed, spent>>

\* Time passes between two requests.
Later(now) == clock < now

\* randomUUID
Fresh(id) == \A i \in DOMAIN issued : issued[i] # id

Init == /\ session = StartedSession
        /\ clock = 0
        /\ issued = << >>
        /\ confirmed = EmptyInput
        /\ spent = {}

-----------------------------------------------------------------------------

SubmitPropertyBasics(form) ==
    /\ MayMove(session, {"COLLECTING_PROPERTY"}, "COLLECTING_RISK")
    /\ session' = Declared(session, form, "COLLECTING_RISK")
    /\ UNCHANGED <<clock, issued, confirmed, spent>>

SubmitRiskFactors(form) ==
    /\ MayMove(session, {"COLLECTING_RISK", "COLLECTING_PROPERTY"},
               "EVALUATING_ELIGIBILITY")
    /\ session' = Declared(session, form, "EVALUATING_ELIGIBILITY")
    /\ UNCHANGED <<clock, issued, confirmed, spent>>

EvaluateEligibility ==
    /\ MayEvaluate(session)
    /\ session' = Evaluate(session)
    /\ UNCHANGED <<clock, issued, confirmed, spent>>

SelectCoverage(form, email) ==
    /\ MayMove(session, {"COLLECTING_COVERAGE", "EVALUATING_ELIGIBILITY"},
               "AWAITING_CONFIRMATION")
    /\ session' = Covered(session, form, email)
    /\ UNCHANGED <<clock, issued, confirmed, spent>>

Confirm(now) ==
    /\ Later(now)
    /\ MayConfirm(session)
    /\ clock' = now
    /\ session' = ConfirmParameters(session, now)
    /\ confirmed' = session.input
    /\ UNCHANGED <<issued, spent>>

SubmitConsent(now) ==
    /\ Later(now)
    /\ MayConsent(session)
    /\ clock' = now
    /\ session' = GrantConsent(session, now)
    /\ UNCHANGED <<issued, confirmed, spent>>

CalculateQuote_Again(id) ==                              \* mutant
    /\ Fresh(id)
    /\ ReadyToQuote(session)
    /\ InputsValid(session.input)
    /\ issued' = Append(issued, id)
    /\ session' = Issue([session EXCEPT !.historicalQuotes = Retired(session)], id)
    /\ spent' = spent \cup {session.consentGrantedAt}
    /\ UNCHANGED <<clock, confirmed>>

CalculateQuote(id) ==
    /\ Fresh(id)
    /\ MayIssue(session)
    /\ issued' = Append(issued, id)
    /\ session' = Issue(session, id)
    /\ spent' = spent \cup {session.consentGrantedAt}
    /\ UNCHANGED <<clock, confirmed>>

AdjustQuote(form, id) ==
    /\ Fresh(id)
    /\ MayAdjust(session)
    /\ issued' = Append(issued, id)
    /\ session' = Adjust(session, form, id)
    /\ UNCHANGED <<clock, confirmed, spent>>

CorrectField(delta) ==
    /\ session' = ApplyCorrection(session, delta)
    /\ UNCHANGED <<clock, issued, confirmed, spent>>

AnonymizeSession ==
    /\ session' = Scrub(session)
    /\ UNCHANGED <<clock, issued, confirmed, spent>>

PropertyForms == [PropertyFields -> Values]
FactorForms   == [FactorFields -> Values]
CoverageForms == [CoverageFields -> Partial(Values)]

Next == \/ \E form \in PropertyForms : SubmitPropertyBasics(form)
        \/ \E form \in FactorForms : SubmitRiskFactors(form)
        \/ EvaluateEligibility
        \/ \E form \in CoverageForms, email \in Partial(Emails) :
              SelectCoverage(form, email)
        \/ \E now \in 1..MaxClock : Confirm(now) \/ SubmitConsent(now)
        \/ \E id \in 1..MaxQuotes :
              CalculateQuote(id) \/ \E form \in CoverageForms : AdjustQuote(form, id)
        \/ \E delta \in Corrections : CorrectField(delta)
        \/ AnonymizeSession

Spec == Init /\ [][Next]_vars

-----------------------------------------------------------------------------
(* Properties *)

\* The saved document is well formed: every step is one the handlers know, and the
\* quotes and inputs on it are whole.
TypeOK == /\ session \in Sessions
          /\ clock \in Nat
          /\ issued \in Seq(Nat)
          /\ confirmed \in Inputs
          /\ spent \subseteq Nat

\* No correction, adjustment or form leaves a quote standing without consent,
\* confirmation and eligibility, or for terms other than the session's.
QuoteGate == QuoteBacked(session)

\* Whatever was corrected since the risk was evaluated, the eligibility result
\* is the one the risk now on file deserves.
EligibilityCurrent == VerdictCurrent(session)

\* A quote prices the risk the customer confirmed; unless it is an adjustment,
\* the coverage too.
QuotedAsConfirmed ==
    session.activeQuote # NoQuote =>
        /\ session.activeQuote.input.risk = confirmed.risk
        /\ session.activeQuote.status = "active" =>
              session.activeQuote.input.coverage = confirmed.coverage

\* Consent on file was given after the confirmation on file.
ConsentFollowsConfirmation ==
    session.consentGrantedAt # 0 =>
        /\ session.parametersConfirmedAt # 0
        /\ session.parametersConfirmedAt < session.consentGrantedAt

\* Every quote ever issued is on the session, once: the historical ones in the order
\* they were issued, and the active one after them.
QuotesAccounted == QuoteOrder(session) = issued

\* A consent is used for one calculation: calculateQuote issues again only after
\* the customer consented again.
OneQuotePerConsent ==
    [][issued' # issued /\ session'.activeQuote.status = "active"
          => session.consentGrantedAt \notin spent]_vars

Promise == INSTANCE QuoteContract
              WITH Risks     <- EligibleRisks,
                   Coverages <- [CoverageFields -> Values],
                   NoTerms   <- NoQuote,
                   stage     <- Stage(session),
                   terms     <- SettledTerms(session),
                   offer     <- Offer(session)

\* The funnel keeps the contract: every request it serves is one of the
\* contract's steps, or none of its business.
KeepsContract == Promise!Spec
=============================================================================
