---------------------------- MODULE FunnelProofs ----------------------------
(***************************************************************************)
(* Theorems about Funnel, for every form, field, value and bound.          *)
(***************************************************************************)
EXTENDS Funnel, FunnelDomainProofs

(* The inductive invariant: the session is coherent, and the history and   *)
(* the stamps remember it.                                                 *)

Inv == Remembers(session, clock, confirmed, spent) /\ issued \in Seq(Nat)

\* A correction carries an input.
LEMMA DeltaInput ==
    ASSUME NEW delta \in Corrections
    PROVE  delta \in Inputs
BY FunnelAssumption, CorrectionInput

\* The session of the invariant is coherent.
LEMMA InvSession == Inv => SessionOK(session) /\ session \in Sessions
BY DEF Inv, Remembers, SessionOK

-----------------------------------------------------------------------------
(* The invariant holds initially, and every operation preserves it.  What  *)
(* an operation does to the session is a lemma of FunnelDomainProofs.      *)

\* A session startSession has just saved satisfies the invariant.
LEMMA InvInit == Init => Inv
BY StartedRemembers DEF Init, Inv

\* A step to a reopened session leaves nothing for the history to agree with.
LEMMA ReopenedInv ==
    ASSUME Inv, SessionOK(session'), Reopened(session'),
           session'.step # "READY_TO_QUOTE",
           UNCHANGED <<clock, issued, confirmed, spent>>
    PROVE  Inv'
BY ReopenedRemembers DEF Inv

\* A form of the risk is taken only while nothing rests on the risk yet.
LEMMA RiskFormInv ==
    ASSUME Inv, NEW form, form \in PropertyForms \/ form \in FactorForms,
           SubmitPropertyBasics(form) \/ SubmitRiskFactors(form)
    PROVE  Inv' /\ Follows(session, session')
<1>1. PICK step \in {"COLLECTING_RISK", "EVALUATING_ELIGIBILITY"} :
         /\ session' = Declared(session, form, step)
         /\ session.step \in {"COLLECTING_PROPERTY", "COLLECTING_RISK"}
         /\ UNCHANGED <<clock, issued, confirmed, spent>>
  BY DEF SubmitPropertyBasics, SubmitRiskFactors, MayMove
<1>2. \A f \in DOMAIN form : form[f] \in Values
  BY DEF PropertyForms, FactorForms
<1>3. /\ SessionOK(session') /\ Follows(session, session')
      /\ Reopened(session') /\ session'.step = step
  BY <1>1, <1>2, InvSession, DeclaredOK
<1> QED BY <1>1, <1>3, ReopenedInv

\* evaluateEligibility comes before any confirmation.
LEMMA EvaluateInv ==
    ASSUME Inv, EvaluateEligibility
    PROVE  Inv' /\ Follows(session, session')
<1>1. /\ SessionOK(session') /\ Follows(session, session') /\ Reopened(session')
  BY InvSession, EvaluatedOK DEF EvaluateEligibility
<1>2. session'.step # "READY_TO_QUOTE"
  BY <1>1 DEF SessionOK, GatesMatchStep, Reopened
<1> QED BY <1>1, <1>2, ReopenedInv DEF EvaluateEligibility

\* So does selectCoverage.
LEMMA SelectCoverageInv ==
    ASSUME Inv, NEW form \in CoverageForms, NEW email \in Partial(Emails),
           SelectCoverage(form, email)
    PROVE  Inv' /\ Follows(session, session')
<1>1. /\ session.step = "COLLECTING_COVERAGE"
      /\ session' = Covered(session, form, email)
  BY DEF SelectCoverage, MayMove, CanTransition, ALLOWED_TRANSITIONS
<1>2. SessionOK(session') /\ Follows(session, session') /\ Reopened(session')
  BY <1>1, InvSession, CoveredOK DEF CoverageForms
<1>3. session'.step # "READY_TO_QUOTE"
  BY <1>2 DEF SessionOK, GatesMatchStep, Reopened
<1> QED BY <1>2, <1>3, ReopenedInv DEF SelectCoverage

\* confirmParameters stamps later than every stamp before it, and for what is on
\* file.
LEMMA ConfirmInv ==
    ASSUME Inv, NEW now \in 1..MaxClock, Confirm(now)
    PROVE  Inv' /\ Follows(session, session')
<1>1. /\ MayConfirm(session) /\ session' = ConfirmParameters(session, now)
      /\ clock' = now /\ confirmed' = session.input /\ clock < now
      /\ UNCHANGED <<issued, spent>>
  BY DEF Confirm, Later
<1>2. Remembers(session', clock', confirmed', spent')
  BY <1>1, ConfirmedRemembers DEF Inv
<1>3. Follows(session, session')
  BY <1>1, InvSession, ConfirmedOK
<1> QED BY <1>1, <1>2, <1>3 DEF Inv

\* grantConsent stamps later than the confirmation, with a stamp no calculation used.
LEMMA SubmitConsentInv ==
    ASSUME Inv, NEW now \in 1..MaxClock, SubmitConsent(now)
    PROVE  Inv' /\ Follows(session, session')
<1>1. /\ MayConsent(session) /\ session' = GrantConsent(session, now)
      /\ clock' = now /\ clock < now /\ UNCHANGED <<issued, confirmed, spent>>
  BY DEF SubmitConsent, Later
<1>2. Remembers(session', clock', confirmed', spent')
  BY <1>1, ConsentedRemembers DEF Inv
<1>3. Follows(session, session')
  BY <1>1, InvSession, ConsentedOK
<1> QED BY <1>1, <1>2, <1>3 DEF Inv

\* calculateQuote uses up the consent on file, which no calculation used before.
LEMMA CalculateQuoteInv ==
    ASSUME Inv, NEW id \in 1..MaxQuotes, CalculateQuote(id)
    PROVE  /\ Inv' /\ Follows(session, session')
           /\ session.consentGrantedAt \notin spent
<1>1. /\ MayIssue(session) /\ id \in Nat /\ issued' \in Seq(Nat)
      /\ session' = Issue(session, id)
      /\ spent' = spent \cup {session.consentGrantedAt}
      /\ UNCHANGED <<clock, confirmed>>
  BY DEF CalculateQuote, Inv
<1>2. /\ Remembers(session', clock', confirmed', spent')
      /\ session.consentGrantedAt \notin spent
  BY <1>1, IssuedRemembers DEF Inv
<1>3. Follows(session, session')
  BY <1>1, InvSession, IssuedOK
<1> QED BY <1>1, <1>2, <1>3 DEF Inv

\* adjustQuote changes the coverage on file and the coverage quoted together.
LEMMA AdjustQuoteInv ==
    ASSUME Inv, NEW form \in CoverageForms, NEW id \in 1..MaxQuotes,
           AdjustQuote(form, id)
    PROVE  /\ Inv' /\ Follows(session, session')
           /\ session'.activeQuote.status = "adjusted"
<1>1. /\ MayAdjust(session) /\ id \in Nat /\ issued' \in Seq(Nat)
      /\ session' = Adjust(session, form, id)
      /\ UNCHANGED <<clock, confirmed, spent>>
      /\ form \in [CoverageFields -> Partial(Values)]
  BY DEF AdjustQuote, Inv, CoverageForms
<1>2. Remembers(session', clock', confirmed', spent')
  BY <1>1, AdjustedRemembers DEF Inv
<1>3. Follows(session, session') /\ session'.activeQuote.status = "adjusted"
  BY <1>1, InvSession, AdjustedOK
<1> QED BY <1>1, <1>2, <1>3 DEF Inv

\* A correction takes back what it makes untrue.
LEMMA CorrectFieldInv ==
    ASSUME Inv, NEW delta \in Corrections, CorrectField(delta)
    PROVE  Inv' /\ Follows(session, session')
<1>1. /\ session' = ApplyCorrection(session, delta) /\ delta \in Inputs
      /\ UNCHANGED <<clock, issued, confirmed, spent>>
  BY DeltaInput DEF CorrectField
<1>2. Remembers(session', clock', confirmed', spent')
  BY <1>1, CorrectedRemembers DEF Inv
<1>3. Follows(session, session')
  BY <1>1, InvSession, CorrectedOK
<1> QED BY <1>1, <1>2, <1>3 DEF Inv

\* anonymizeSession disturbs nothing the invariant speaks of.
LEMMA AnonymizeInv ==
    ASSUME Inv, AnonymizeSession
    PROVE  Inv' /\ Follows(session, session')
<1>1. session' = Scrub(session) /\ UNCHANGED <<clock, issued, confirmed, spent>>
  BY DEF AnonymizeSession
<1>2. Remembers(session', clock', confirmed', spent')
  BY <1>1, ScrubbedRemembers DEF Inv
<1>3. Follows(session, session')
  BY <1>1, InvSession, ScrubbedOK
<1> QED BY <1>1, <1>2, <1>3 DEF Inv

\* Every operation of FunnelEngine preserves the invariant, and is a step of the
\* contract or none.
LEMMA InvNext == Inv /\ [Next]_vars => Inv' /\ Follows(session, session')
<1> SUFFICES ASSUME Inv, [Next]_vars PROVE Inv' /\ Follows(session, session')
  OBVIOUS
<1>1. ASSUME NEW form \in PropertyForms, SubmitPropertyBasics(form)
      PROVE  Inv' /\ Follows(session, session')
  BY <1>1, RiskFormInv
<1>2. ASSUME NEW form \in FactorForms, SubmitRiskFactors(form)
      PROVE  Inv' /\ Follows(session, session')
  BY <1>2, RiskFormInv
<1>3. CASE EvaluateEligibility
  BY <1>3, EvaluateInv
<1>4. ASSUME NEW form \in CoverageForms, NEW email \in Partial(Emails),
             SelectCoverage(form, email)
      PROVE  Inv' /\ Follows(session, session')
  BY <1>4, SelectCoverageInv
<1>5. ASSUME NEW now \in 1..MaxClock, Confirm(now)
      PROVE  Inv' /\ Follows(session, session')
  BY <1>5, ConfirmInv
<1>6. ASSUME NEW now \in 1..MaxClock, SubmitConsent(now)
      PROVE  Inv' /\ Follows(session, session')
  BY <1>6, SubmitConsentInv
<1>7. ASSUME NEW id \in 1..MaxQuotes, CalculateQuote(id)
      PROVE  Inv' /\ Follows(session, session')
  BY <1>7, CalculateQuoteInv
<1>8. ASSUME NEW id \in 1..MaxQuotes, NEW form \in CoverageForms, AdjustQuote(form, id)
      PROVE  Inv' /\ Follows(session, session')
  BY <1>8, AdjustQuoteInv
<1>9. ASSUME NEW delta \in Corrections, CorrectField(delta)
      PROVE  Inv' /\ Follows(session, session')
  BY <1>9, CorrectFieldInv
<1>10. CASE AnonymizeSession
  BY <1>10, AnonymizeInv
<1>11. CASE UNCHANGED vars
  <2>1. Inv'
    BY <1>11 DEF vars, Inv
  <2>2. Follows(session, session')
    BY <1>11 DEF vars, Follows
  <2> QED BY <2>1, <2>2
<1> QED BY <1>1, <1>2, <1>3, <1>4, <1>5, <1>6, <1>7, <1>8, <1>9, <1>10, <1>11 DEF Next

\* However a session is driven, its step, gates, verdict, quote and stamps stay in
\* the relation the handlers leave them in.
THEOREM Invariance == Spec => []Inv
<1>1. Init => Inv
  BY InvInit
<1>2. Inv /\ [Next]_vars => Inv'
  BY InvNext
<1> QED BY <1>1, <1>2, PTL DEF Spec

-----------------------------------------------------------------------------
(* What follows *)

\* The saved session is always a document FunnelSession describes.
THEOREM TypeCorrect == Spec => []TypeOK
<1>1. Inv => TypeOK
  BY InvSession DEF Inv, Remembers, TypeOK
<1> QED BY <1>1, Invariance, PTL

\* Whatever the customer corrects, adjusts or submits again, a quote stands only
\* with the confirmation, the consent and the eligibility behind it, and prices
\* the terms on file.
THEOREM QuoteGated == Spec => []QuoteGate
<1>1. Inv => QuoteGate
  BY InvSession, CoherentQuote DEF QuoteGate
<1> QED BY <1>1, Invariance, PTL

\* The eligibility verdict on file is the verdict on the risk on file.
THEOREM VerdictNeverStale == Spec => []EligibilityCurrent
<1>1. Inv => EligibilityCurrent
  BY InvSession DEF SessionOK, EligibilityCurrent
<1> QED BY <1>1, Invariance, PTL

\* A quote is for what the customer confirmed, but for an adjusted coverage.
THEOREM QuotedIsConfirmed == Spec => []QuotedAsConfirmed
<1>1. Inv => QuotedAsConfirmed
  BY RememberedQuote DEF Inv, QuotedAsConfirmed
<1> QED BY <1>1, Invariance, PTL

\* Consent is never older than the confirmation it belongs to.
THEOREM ConsentInOrder == Spec => []ConsentFollowsConfirmation
<1>1. Inv => ConsentFollowsConfirmation
  BY RememberedConsent DEF Inv, ConsentFollowsConfirmation
<1> QED BY <1>1, Invariance, PTL

\* calculateQuote never runs twice on one consent.
THEOREM ConsentUsedOnce == Spec => OneQuotePerConsent
<1>1. Inv /\ [Next]_vars =>
         [issued' # issued /\ session'.activeQuote.status = "active"
            => session.consentGrantedAt \notin spent]_vars
  <2> SUFFICES ASSUME Inv, Next, issued' # issued,
                      session'.activeQuote.status = "active"
               PROVE  session.consentGrantedAt \notin spent
    BY DEF vars
  <2>1. PICK id \in 1..MaxQuotes : CalculateQuote(id)
    <3>1. ASSUME NEW form \in CoverageForms, NEW id \in 1..MaxQuotes,
                 AdjustQuote(form, id)
          PROVE  FALSE
      BY <3>1, AdjustQuoteInv
    <3> QED BY <3>1 DEF Next, SubmitPropertyBasics, SubmitRiskFactors,
                        EvaluateEligibility, SelectCoverage, Confirm, SubmitConsent,
                        CorrectField, AnonymizeSession
  <2> QED BY <2>1, CalculateQuoteInv
<1> QED BY <1>1, Invariance, PTL DEF Spec, OneQuotePerConsent

-----------------------------------------------------------------------------
(* The quotes of a session, in the order they are issued                   *)

\* Only the two operations that issue a quote lengthen the list of those the session
\* shows, each by its own.
LEMMA OrderNext == Inv /\ QuotesAccounted /\ [Next]_vars => QuotesAccounted'
<1> SUFFICES ASSUME Inv, QuoteOrder(session) = issued, [Next]_vars
             PROVE  QuoteOrder(session') = issued'
  BY DEF QuotesAccounted
<1>1. SessionOK(session) /\ session \in Sessions
  BY InvSession
<1>2. CASE \/ \E form \in PropertyForms : SubmitPropertyBasics(form)
           \/ \E form \in FactorForms : SubmitRiskFactors(form)
           \/ EvaluateEligibility
           \/ \E form \in CoverageForms, email \in Partial(Emails) :
                 SelectCoverage(form, email)
           \/ \E now \in 1..MaxClock : Confirm(now) \/ SubmitConsent(now)
  BY <1>1, <1>2, UntouchedOrder DEF SubmitPropertyBasics, SubmitRiskFactors,
     EvaluateEligibility, SelectCoverage, Confirm, SubmitConsent
<1>3. ASSUME NEW id \in 1..MaxQuotes, CalculateQuote(id)
      PROVE  QuoteOrder(session') = issued'
  BY <1>1, <1>3, IssuedOrder DEF CalculateQuote
<1>4. ASSUME NEW id \in 1..MaxQuotes, NEW form \in CoverageForms, AdjustQuote(form, id)
      PROVE  QuoteOrder(session') = issued'
  BY <1>1, <1>4, AdjustedOrder DEF AdjustQuote, CoverageForms
<1>5. ASSUME NEW delta \in Corrections, CorrectField(delta)
      PROVE  QuoteOrder(session') = issued'
  BY <1>1, <1>5, DeltaInput, CorrectedOrder DEF CorrectField
<1>6. CASE AnonymizeSession
  BY <1>1, <1>6, ScrubbedOrder DEF AnonymizeSession
<1>7. CASE UNCHANGED vars
  BY <1>7 DEF vars
<1> QED BY <1>2, <1>3, <1>4, <1>5, <1>6, <1>7 DEF Next

\* No quote is lost, listed twice or moved by the three places that retire one.
THEOREM EveryQuoteAccounted == Spec => []QuotesAccounted
<1>1. Init => QuotesAccounted
  BY DEF Init, StartedSession, QuotesAccounted, QuoteOrder
<1> QED BY <1>1, Invariance, OrderNext, PTL DEF Spec

-----------------------------------------------------------------------------
(* Funnel implements QuoteContract: the session a customer deals with      *)
(* keeps the promises of a negotiation that knows no steps, forms or       *)
(* corrections.                                                            *)

\* The terms the contract may settle are the ones a coherent session agrees to.
LEMMA AgreeableTerms == ASSUME NEW terms, Agreeable(terms) PROVE terms \in Promise!Terms
BY DEF Agreeable, CompleteCoverages, Promise!Terms

\* A session that follows another is one step of the contract later, or none.
LEMMA ContractStep ==
    ASSUME Follows(session, session')
    PROVE  [Promise!Next]_(Promise!vars)
<1>1. CASE /\ Stage(session') = Stage(session)
           /\ SettledTerms(session') = SettledTerms(session)
           /\ Offer(session') = Offer(session)
  BY <1>1 DEF Promise!vars
<1>2. CASE /\ Unseen(session)
           /\ \E terms : Agreeable(terms) /\ Sees(session', "confirmed", terms, NoQuote)
  <2>1. PICK terms : Agreeable(terms) /\ Sees(session', "confirmed", terms, NoQuote)
    BY <1>2
  <2>2. Promise!Confirm(terms)
    BY <1>2, <2>1 DEF Unseen, Sees, Promise!Confirm
  <2> QED BY <2>1, <2>2, AgreeableTerms DEF Promise!Next
<1>3. CASE \E terms : /\ Sees(session, "confirmed", terms, NoQuote)
                      /\ Sees(session', "consented", terms, NoQuote)
  <2>1. Promise!Consent
    BY <1>3 DEF Sees, Promise!Consent
  <2> QED BY <2>1 DEF Promise!Next
<1>4. CASE \E terms : /\ Sees(session, "consented", terms, NoQuote)
                      /\ Sees(session', "quoted", terms, terms)
  <2>1. Promise!Quote
    BY <1>4 DEF Sees, Promise!Quote
  <2> QED BY <2>1 DEF Promise!Next
<1>5. CASE \E terms : \E coverage \in CompleteCoverages :
              LET new == [terms EXCEPT !.coverage = coverage]
              IN /\ Sees(session, "quoted", terms, terms)
                 /\ Sees(session', "quoted", new, new)
  <2>1. PICK coverage \in CompleteCoverages : Promise!Adjust(coverage)
    BY <1>5 DEF Sees, Promise!Adjust
  <2> QED BY <2>1 DEF CompleteCoverages, Promise!Next
<1>6. CASE Stage(session) # "gathering" /\ Unseen(session')
  <2>1. Promise!Reopen
    BY <1>6 DEF Unseen, Sees, Promise!Reopen
  <2> QED BY <2>1 DEF Promise!Next
<1> QED BY <1>1, <1>2, <1>3, <1>4, <1>5, <1>6 DEF Follows

\* Whatever the customer does, in whatever order: an offer is for terms the rules
\* accept, confirmed first and consented to second, and stands until one of them
\* is taken back.
THEOREM ContractKept == Spec => KeepsContract
<1>1. Init => Promise!Init
  BY StartedOK DEF Init, Unseen, Sees, Promise!Init
<1>2. Inv /\ [Next]_vars => [Promise!Next]_(Promise!vars)
  BY InvNext, ContractStep
<1> QED BY <1>1, <1>2, Invariance, PTL DEF Spec, KeepsContract, Promise!Spec
=============================================================================
