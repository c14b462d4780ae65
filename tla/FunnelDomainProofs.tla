------------------------- MODULE FunnelDomainProofs -------------------------
(***************************************************************************)
(* What the operations of FunnelStateMachine and of the handlers do to one *)
(* session, for every form, field and value: they keep it coherent, and    *)
(* are steps of QuoteContract or none.  FunnelProofs uses this for the     *)
(* session a client drives, FunnelEngineProofs for every copy a handler    *)
(* holds.                                                                  *)
(***************************************************************************)
EXTENDS FunnelDomain, TLAPS

CompleteCoverages == [CoverageFields -> Values]

(* A coherent session.  The step tells which gates a session passed: the   *)
(* table says so only of the steps the handlers take, and corrections go   *)
(* round it.                                                               *)

\* Confirmation, consent and quote are on file exactly in the steps behind them.
GatesMatchStep(s) ==
    /\ s.parametersConfirmedAt # 0
          <=> s.step \in {"AWAITING_CONSENT", "READY_TO_QUOTE", "QUOTED"}
    /\ s.consentGrantedAt # 0 <=> s.step \in {"READY_TO_QUOTE", "QUOTED"}
    /\ s.activeQuote # NoQuote <=> s.step = "QUOTED"

\* No verdict survives into the steps that collect the risk, and a quoted
\* session has a favourable one.
VerdictMatchesStep(s) ==
    /\ s.step \in {"COLLECTING_PROPERTY", "COLLECTING_RISK",
                   "EVALUATING_ELIGIBILITY"} => s.eligibility = "none"
    /\ s.step = "QUOTED" => s.eligibility = "eligible"

\* From select_coverage on, no coverage field is blank: there is nothing the
\* defaults of the quote's input could change.
CoverageChosen(s) ==
    s.step \in {"AWAITING_CONFIRMATION", "AWAITING_CONSENT", "READY_TO_QUOTE", "QUOTED"}
        => s.input.coverage \in CompleteCoverages

QuoteCurrent(s) ==
    s.activeQuote # NoQuote => TermsOf(s.activeQuote.input) = TermsOf(s.input)

SessionOK(s) == /\ s \in Sessions
                /\ GatesMatchStep(s)
                /\ VerdictMatchesStep(s)
                /\ VerdictCurrent(s)
                /\ CoverageChosen(s)
                /\ QuoteCurrent(s)

(* What the contract sees of a session, and of an operation on it. *)

Sees(s, stage, terms, offer) ==
    Stage(s) = stage /\ SettledTerms(s) = terms /\ Offer(s) = offer

Unseen(s) == Sees(s, "gathering", NoQuote, NoQuote)

\* Terms the contract allows to be settled.
Agreeable(terms) == terms \in [risk : EligibleRisks, coverage : CompleteCoverages]

\* The steps of QuoteContract, between a session and the one that follows.
Follows(s, t) ==
    \/ Stage(t) = Stage(s) /\ SettledTerms(t) = SettledTerms(s) /\ Offer(t) = Offer(s)
    \/ /\ Unseen(s)
       /\ \E terms : Agreeable(terms) /\ Sees(t, "confirmed", terms, NoQuote)
    \/ \E terms : Sees(s, "confirmed", terms, NoQuote) /\ Sees(t, "consented", terms, NoQuote)
    \/ \E terms : Sees(s, "consented", terms, NoQuote) /\ Sees(t, "quoted", terms, terms)
    \/ \E terms : \E coverage \in CompleteCoverages :
          LET new == [terms EXCEPT !.coverage = coverage]
          IN Sees(s, "quoted", terms, terms) /\ Sees(t, "quoted", new, new)
    \/ Stage(s) # "gathering" /\ Unseen(t)

-----------------------------------------------------------------------------
(* What the operators on inputs return *)

\* Spreading a form over an input ({ ...old, ...new } in every handler) keeps its
\* fields and takes their values from one of the two.
LEMMA OverrideType ==
    ASSUME NEW D, NEW S, NEW T, NEW old \in [D -> T], NEW new,
           \A f \in D : IF f \in DOMAIN new /\ new[f] # NoValue
                        THEN new[f] \in S ELSE old[f] \in S
    PROVE  Override(old, new) \in [D -> S]
BY DEF Override

\* Nothing defined changes: over a form without blanks, nothing does.
LEMMA UnchangedOverride ==
    ASSUME NEW D, NEW S, NoValue \notin S, NEW old \in [D -> S],
           NEW new \in [D -> Partial(S)], ~Changed(old, new)
    PROVE  Override(old, new) = old
<1>1. \A f \in D : new[f] # NoValue => new[f] = old[f]
  BY DEF Changed
<1> QED BY <1>1 DEF Override

\* The defaults of a form show only where the form is blank.
LEMMA CompleteOverride ==
    ASSUME NEW D, NEW S, NoValue \notin S, NEW default \in [D -> S],
           NEW form \in [D -> S]
    PROVE  Override(default, form) = form
BY DEF Override

\* A correction carries an input.
LEMMA CorrectionInput ==
    ASSUME NEW delta \in CorrectionInputs
    PROVE  delta \in Inputs
BY DomainAssumption DEF CorrectionInputs, Inputs, Partial

\* The input a correction or a reply leaves behind is an input again.
LEMMA MergedType ==
    ASSUME NEW input \in Inputs, NEW delta \in Inputs
    PROVE  Merged(input, delta) \in Inputs
<1>1. /\ input.risk \in [StructuralFields -> Partial(Values)]
      /\ delta.risk \in [StructuralFields -> Partial(Values)]
      /\ input.coverage \in [CoverageFields -> Partial(Values)]
      /\ delta.coverage \in [CoverageFields -> Partial(Values)]
      /\ input.email \in Partial(Emails) /\ delta.email \in Partial(Emails)
  BY DEF Inputs
<1>2. /\ Override(input.risk, delta.risk) \in [StructuralFields -> Partial(Values)]
      /\ Override(input.coverage, delta.coverage) \in [CoverageFields -> Partial(Values)]
  BY <1>1 DEF Override
<1> QED BY <1>1, <1>2 DEF Merged, Inputs

\* validateInputs fills in a coverage the customer left blank, and touches neither
\* the risk nor a coverage that is complete.
LEMMA ValidatedInputType ==
    ASSUME NEW input \in Inputs
    PROVE  /\ ValidatedInput(input) \in Inputs
           /\ ValidatedInput(input).risk = input.risk
           /\ input.coverage \in CompleteCoverages =>
                 ValidatedInput(input).coverage = input.coverage
<1>1. /\ input.coverage \in [CoverageFields -> Partial(Values)]
      /\ DefaultCoverage \in CompleteCoverages
      /\ NoValue \notin Values
  BY DomainAssumption DEF Inputs, CompleteCoverages
<1>2. Override(DefaultCoverage, input.coverage) \in [CoverageFields -> Partial(Values)]
  BY <1>1, OverrideType DEF CompleteCoverages, Partial
<1>3. input.coverage \in CompleteCoverages =>
         Override(DefaultCoverage, input.coverage) = input.coverage
  BY <1>1, CompleteOverride DEF CompleteCoverages
<1> QED BY <1>2, <1>3 DEF ValidatedInput, Inputs

\* The quotes a session has retired stay a list of quotes when the active one joins.
LEMMA RetiredType ==
    ASSUME NEW s \in Sessions
    PROVE  Retired(s) \in Seq(Quotes)
BY DEF Retired, Sessions

-----------------------------------------------------------------------------
(* What a correction does to a session: it starts over with the risk, or   *)
(* goes back to the coverage, or leaves everything but the input alone.    *)

Reopened(s) == /\ s.parametersConfirmedAt = 0
               /\ s.consentGrantedAt = 0
               /\ s.activeQuote = NoQuote

\* An invalidating correction withdraws the quote, the confirmation and the consent,
\* and leaves the verdict to its caller.
LEMMA InvalidatedType ==
    ASSUME NEW s \in Sessions
    PROVE  /\ Invalidated(s) \in Sessions
           /\ Reopened(Invalidated(s))
           /\ Invalidated(s).eligibility = s.eligibility
<1>1. Retired(s) \in Seq(Quotes)
  BY RetiredType
<1> DEFINE t == [s EXCEPT !.historicalQuotes = Retired(s), !.activeQuote = NoQuote]
<1>2. t \in Sessions /\ t.activeQuote = NoQuote /\ t.eligibility = s.eligibility
  BY <1>1 DEF Sessions
<1>3. Invalidated(s) = [t EXCEPT !.parametersConfirmedAt = 0, !.consentGrantedAt = 0]
  BY DEF Invalidated
<1> HIDE DEF t
<1> DEFINE u == [t EXCEPT !.parametersConfirmedAt = 0, !.consentGrantedAt = 0]
<1>4. u \in Sessions
  BY <1>2 DEF Sessions
<1>5. u.eligibility = s.eligibility /\ Reopened(u)
  BY <1>2 DEF Sessions, Reopened
<1> QED BY <1>3, <1>4, <1>5

\* applyCorrection has three outcomes, told apart by what the correction changes.
LEMMA CorrectionCases ==
    ASSUME NEW s \in Sessions, NEW delta \in Inputs
    PROVE  LET t == ApplyCorrection(s, delta)
           IN /\ t \in Sessions
              /\ t.input = Merged(s.input, delta)
              /\ \/ /\ t.step = "COLLECTING_PROPERTY"
                    /\ t.eligibility = "none"
                    /\ Reopened(t)
                 \/ /\ ~Changed(s.input.risk, delta.risk)
                    /\ t.step = "COLLECTING_COVERAGE"
                    /\ t.eligibility = s.eligibility
                    /\ Reopened(t)
                 \/ /\ ~Changed(s.input.risk, delta.risk)
                    /\ ~Changed(s.input.coverage, delta.coverage)
                    /\ t = [s EXCEPT !.input = Merged(s.input, delta)]
<1>1. Merged(s.input, delta) \in Inputs
  BY MergedType DEF Sessions
<1> DEFINE u     == Invalidated(s)
           input == Merged(s.input, delta)
<1>2. /\ u \in Sessions
      /\ Reopened(u)
      /\ u.eligibility = s.eligibility
  BY InvalidatedType
<1>3. CASE Changed(s.input.risk, delta.risk)
  <2> DEFINE t == [u EXCEPT !.eligibility = "none", !.step = "COLLECTING_PROPERTY",
                            !.input = input]
  <2>1. ApplyCorrection(s, delta) = t
    BY <1>3, Zenon DEF ApplyCorrection
  <2> HIDE DEF u
  <2>2. t \in Sessions /\ t.input = input /\ Reopened(t)
    BY <1>1, <1>2 DEF Sessions, Steps, Reopened
  <2>3. t.step = "COLLECTING_PROPERTY" /\ t.eligibility = "none"
    BY <1>2 DEF Sessions
  <2> QED BY <2>1, <2>2, <2>3
<1>4. CASE ~Changed(s.input.risk, delta.risk) /\ Changed(s.input.coverage, delta.coverage)
  <2> DEFINE t == [u EXCEPT !.step = "COLLECTING_COVERAGE", !.input = input]
  <2>1. ApplyCorrection(s, delta) = t
    BY <1>4, Zenon DEF ApplyCorrection
  <2> HIDE DEF u
  <2>2. t \in Sessions /\ t.input = input /\ Reopened(t)
    BY <1>1, <1>2 DEF Sessions, Steps, Reopened
  <2>3. t.step = "COLLECTING_COVERAGE" /\ t.eligibility = s.eligibility
    BY <1>2 DEF Sessions
  <2> QED BY <1>4, <2>1, <2>2, <2>3
<1>5. CASE /\ ~Changed(s.input.risk, delta.risk)
           /\ ~Changed(s.input.coverage, delta.coverage)
  <2>1. ApplyCorrection(s, delta) = [s EXCEPT !.input = input]
    BY <1>5, Zenon DEF ApplyCorrection
  <2> QED BY <1>1, <1>5, <2>1 DEF Sessions
<1> QED BY <1>3, <1>4, <1>5

\* A risk that was evaluated has no blanks, so only a change can alter it.
LEMMA EvaluatedRisk ==
    ASSUME NEW s \in Sessions, NEW delta \in Inputs,
           VerdictCurrent(s), s.eligibility # "none",
           ~Changed(s.input.risk, delta.risk)
    PROVE  Merged(s.input, delta).risk = s.input.risk
<1>1. /\ s.input.risk \in [StructuralFields -> Values]
      /\ NoValue \notin Values
  BY DomainAssumption DEF VerdictCurrent
<1>2. delta.risk \in [StructuralFields -> Partial(Values)]
  BY DEF Inputs
<1> QED BY <1>1, <1>2, UnchangedOverride DEF Merged

\* A coverage without blanks is altered by a correction only if applyCorrection
\* takes it for a change.
LEMMA ChosenCoverage ==
    ASSUME NEW s \in Sessions, NEW delta \in Inputs,
           s.input.coverage \in CompleteCoverages,
           ~Changed(s.input.coverage, delta.coverage)
    PROVE  Merged(s.input, delta).coverage = s.input.coverage
<1>1. delta.coverage \in [CoverageFields -> Partial(Values)]
  BY DEF Inputs
<1> QED BY <1>1, UnchangedOverride, DomainAssumption DEF Merged, CompleteCoverages

-----------------------------------------------------------------------------
(* The parts of the other operations *)

\* Submitting a form of the risk leaves an input.
LEMMA RiskFormInput ==
    ASSUME NEW s \in Sessions,
           NEW form, \A f \in DOMAIN form : form[f] \in Values
    PROVE  [s.input EXCEPT !.risk = Override(s.input.risk, form)] \in Inputs
<1>1. s.input \in Inputs
  BY DEF Sessions
<1>2. s.input.risk \in [StructuralFields -> Partial(Values)]
  BY <1>1 DEF Inputs
<1>3. Override(s.input.risk, form) \in [StructuralFields -> Partial(Values)]
  <2>1. \A f \in DOMAIN form : form[f] \in Partial(Values)
    BY DEF Partial
  <2> QED BY <1>2, <2>1, OverrideType
<1> QED BY <1>1, <1>3 DEF Inputs

\* Submitting or adjusting a coverage leaves an input.
LEMMA CoverageFormInput ==
    ASSUME NEW input \in Inputs, NEW base \in [CoverageFields -> Partial(Values)],
           NEW form \in [CoverageFields -> Partial(Values)]
    PROVE  [input EXCEPT !.coverage = Override(base, form)] \in Inputs
<1>1. \A f \in DOMAIN form : form[f] \in Partial(Values)
  OBVIOUS
<1>2. Override(base, form) \in [CoverageFields -> Partial(Values)]
  BY <1>1, OverrideType
<1> QED BY <1>2 DEF Inputs

\* What calculateQuote and adjustQuote issue is a quote.
LEMMA NewQuoteType ==
    ASSUME NEW input \in Inputs, NEW id \in Nat, NEW status \in {"active", "adjusted"}
    PROVE  [quoteId |-> id, input |-> ValidatedInput(input), status |-> status]
              \in Quotes
BY ValidatedInputType DEF Quotes

\* anonymizeSession takes nothing but the email out of an input.
LEMMA ScrubbedInput ==
    ASSUME NEW input \in Inputs
    PROVE  /\ ScrubInput(input) \in Inputs
           /\ ScrubInput(input).risk = input.risk
           /\ ScrubInput(input).coverage = input.coverage
BY DEF ScrubInput, Inputs, Partial

\* anonymizeSession leaves the terms of a quote alone.
LEMMA ScrubbedQuote ==
    ASSUME NEW q \in Quotes
    PROVE  /\ ScrubQuote(q) \in Quotes
           /\ TermsOf(ScrubQuote(q).input) = TermsOf(q.input)
           /\ ScrubQuote(q).status = q.status
           /\ ScrubQuote(q).quoteId = q.quoteId
<1>1. q # NoQuote
  BY DomainAssumption
<1>2. q.input \in Inputs
  BY DEF Quotes
<1>3. ScrubQuote(q) = [q EXCEPT !.input = ScrubInput(q.input)]
  BY <1>1 DEF ScrubQuote
<1> QED BY <1>2, <1>3, ScrubbedInput DEF Quotes, TermsOf

\* anonymizeSession leaves a session where it was: same step, gates, verdict and
\* terms, only the emails gone.
LEMMA Scrubbed ==
    ASSUME NEW s \in Sessions
    PROVE  /\ Scrub(s) \in Sessions
           /\ Scrub(s).step = s.step
           /\ Scrub(s).eligibility = s.eligibility
           /\ Scrub(s).parametersConfirmedAt = s.parametersConfirmedAt
           /\ Scrub(s).consentGrantedAt = s.consentGrantedAt
           /\ Scrub(s).input = ScrubInput(s.input)
           /\ Scrub(s).activeQuote = ScrubQuote(s.activeQuote)
           /\ Scrub(s).historicalQuotes =
                 [i \in DOMAIN s.historicalQuotes |-> ScrubQuote(s.historicalQuotes[i])]
<1>1. ScrubInput(s.input) \in Inputs
  BY ScrubbedInput DEF Sessions
<1>2. ScrubQuote(s.activeQuote) \in Quotes \cup {NoQuote}
  BY ScrubbedQuote DEF Sessions, ScrubQuote
<1> DEFINE old == s.historicalQuotes
           new == [i \in DOMAIN old |-> ScrubQuote(old[i])]
<1>3. new \in Seq(Quotes)
  <2>1. old \in Seq(Quotes)
    BY DEF Sessions
  <2>2. \A i \in DOMAIN old : ScrubQuote(old[i]) \in Quotes
    BY <2>1, ScrubbedQuote
  <2>3. Len(old) \in Nat /\ DOMAIN old = 1..Len(old)
    BY <2>1
  <2> QED BY <2>2, <2>3
<1>4. Scrub(s) = [s EXCEPT !.input = ScrubInput(s.input),
                           !.activeQuote = ScrubQuote(s.activeQuote),
                           !.historicalQuotes = new]
  BY DEF Scrub
<1> HIDE DEF new
<1>5. Scrub(s) \in Sessions
  BY <1>1, <1>2, <1>3, <1>4 DEF Sessions
<1>6. /\ Scrub(s).step = s.step
      /\ Scrub(s).eligibility = s.eligibility
      /\ Scrub(s).parametersConfirmedAt = s.parametersConfirmedAt
      /\ Scrub(s).consentGrantedAt = s.consentGrantedAt
  BY <1>4 DEF Sessions
<1>7. /\ Scrub(s).input = ScrubInput(s.input)
      /\ Scrub(s).activeQuote = ScrubQuote(s.activeQuote)
      /\ Scrub(s).historicalQuotes = new
  BY <1>4 DEF Sessions
<1> QED BY <1>5, <1>6, <1>7 DEF new

-----------------------------------------------------------------------------
(* What a session shows the contract *)

\* A session without a favourable verdict, or reopened, has promised nothing.
LEMMA SeesGathering ==
    ASSUME NEW s, s.eligibility # "eligible" \/ Reopened(s)
    PROVE  Unseen(s)
BY DEF Unseen, Sees, Stage, SettledTerms, Offer, Reopened

\* The step is enough to tell what is settled.
LEMMA SeesByStep ==
    ASSUME NEW s, SessionOK(s)
    PROVE  /\ s.eligibility # "eligible"
              \/ s.step \in {"COLLECTING_PROPERTY", "COLLECTING_RISK",
                    "EVALUATING_ELIGIBILITY", "COLLECTING_COVERAGE",
                    "AWAITING_CONFIRMATION", "REFERRED"}
                 => Unseen(s)
           /\ s.eligibility = "eligible" /\ s.step = "AWAITING_CONSENT"
                 => Sees(s, "confirmed", TermsOf(s.input), NoQuote)
           /\ s.eligibility = "eligible" /\ s.step = "READY_TO_QUOTE"
                 => Sees(s, "consented", TermsOf(s.input), NoQuote)
           /\ s.step = "QUOTED"
                 => Sees(s, "quoted", TermsOf(s.input), TermsOf(s.input))
<1>1. ASSUME s.step \in {"COLLECTING_PROPERTY", "COLLECTING_RISK",
                "EVALUATING_ELIGIBILITY", "COLLECTING_COVERAGE",
                "AWAITING_CONFIRMATION", "REFERRED"}
      PROVE  Reopened(s)
  BY <1>1 DEF SessionOK, GatesMatchStep, Reopened
<1>2. s.eligibility = "eligible" /\ s.step = "AWAITING_CONSENT"
         => Sees(s, "confirmed", TermsOf(s.input), NoQuote)
  BY DEF SessionOK, GatesMatchStep, Sees, Stage, SettledTerms, Offer
<1>3. s.eligibility = "eligible" /\ s.step = "READY_TO_QUOTE"
         => Sees(s, "consented", TermsOf(s.input), NoQuote)
  BY DEF SessionOK, GatesMatchStep, Sees, Stage, SettledTerms, Offer
<1>4. s.step = "QUOTED" => Sees(s, "quoted", TermsOf(s.input), TermsOf(s.input))
  BY DEF SessionOK, GatesMatchStep, VerdictMatchesStep, QuoteCurrent,
         Sees, Stage, SettledTerms, Offer
<1> QED BY <1>1, <1>2, <1>3, <1>4, SeesGathering

\* Terms on file after a favourable verdict are terms the contract allows.
LEMMA SettledAgreeable ==
    ASSUME NEW s, SessionOK(s), s.eligibility = "eligible",
           s.input.coverage \in CompleteCoverages
    PROVE  Agreeable(TermsOf(s.input))
<1>1. s.input.risk \in EligibleRisks
  BY DEF SessionOK, VerdictCurrent
<1> QED BY <1>1 DEF Agreeable, TermsOf

\* Two sessions that have promised nothing look the same.
LEMMA StillGathering ==
    ASSUME NEW s, NEW t, Unseen(s), Unseen(t)
    PROVE  Follows(s, t)
BY DEF Unseen, Sees, Follows

\* A coherent session has behind its quote what a quote needs.
LEMMA CoherentQuote ==
    ASSUME NEW s, SessionOK(s)
    PROVE  QuoteBacked(s)
BY DEF SessionOK, GatesMatchStep, VerdictMatchesStep, QuoteCurrent, QuoteBacked

-----------------------------------------------------------------------------
(* Every operation keeps a session coherent and keeps the contract         *)

\* What startSession saves.
LEMMA StartedOK == SessionOK(StartedSession) /\ Unseen(StartedSession)
<1>1. EmptyInput \in Inputs
  BY DEF EmptyInput, Inputs, Partial
<1>2. StartedSession \in Sessions
  BY <1>1 DEF StartedSession, Sessions, Steps
<1>3. SessionOK(StartedSession)
  BY <1>2 DEF StartedSession, SessionOK, GatesMatchStep, VerdictMatchesStep,
              VerdictCurrent, CoverageChosen, QuoteCurrent
<1>4. Reopened(StartedSession)
  BY DEF StartedSession, Reopened
<1> QED BY <1>3, <1>4, SeesGathering

\* A form of the risk is taken only while nothing rests on the risk yet
\* (submitPropertyBasics and submitRiskFactors).
LEMMA DeclaredOK ==
    ASSUME NEW s, SessionOK(s), s.step \in {"COLLECTING_PROPERTY", "COLLECTING_RISK"},
           NEW form, \A f \in DOMAIN form : form[f] \in Values,
           NEW step \in {"COLLECTING_RISK", "EVALUATING_ELIGIBILITY"}
    PROVE  LET t == Declared(s, form, step)
           IN SessionOK(t) /\ Follows(s, t) /\ Reopened(t) /\ t.step = step
<1> DEFINE input == [s.input EXCEPT !.risk = Override(s.input.risk, form)]
           t == Declared(s, form, step)
<1>1. s \in Sessions
  BY DEF SessionOK
<1>2. input \in Inputs
  BY <1>1, RiskFormInput
<1>3. t = [s EXCEPT !.input = input, !.step = step]
  BY <1>1 DEF Declared, Sessions, Inputs
<1> HIDE DEF input, t
<1>4. /\ t \in Sessions /\ t.step = step
      /\ t.eligibility = s.eligibility /\ t.activeQuote = s.activeQuote
      /\ t.parametersConfirmedAt = s.parametersConfirmedAt
      /\ t.consentGrantedAt = s.consentGrantedAt
  BY <1>1, <1>2, <1>3 DEF Sessions, Steps
<1>5. s.eligibility = "none" /\ Reopened(s)
  BY DEF SessionOK, VerdictMatchesStep, GatesMatchStep, Reopened
<1>6. Reopened(t)
  BY <1>4, <1>5 DEF Reopened
<1>7. SessionOK(t)
  BY <1>4, <1>5 DEF SessionOK, GatesMatchStep, VerdictMatchesStep, VerdictCurrent,
                    CoverageChosen, QuoteCurrent, Reopened
<1>8. Follows(s, t)
  BY <1>5, <1>6, SeesGathering, StillGathering
<1> QED BY <1>4, <1>6, <1>7, <1>8 DEF t

\* evaluateEligibility files the verdict on the risk it leaves on file.
LEMMA EvaluatedOK ==
    ASSUME NEW s, SessionOK(s), MayEvaluate(s)
    PROVE  SessionOK(Evaluate(s)) /\ Follows(s, Evaluate(s)) /\ Reopened(Evaluate(s))
<1> DEFINE t == Evaluate(s)
<1>1. s \in Sessions /\ s.step = "EVALUATING_ELIGIBILITY" /\ s.input.risk \in ValidRisks
  BY DEF SessionOK, MayEvaluate, InputsValid
<1>2. /\ t \in Sessions
      /\ t.input = s.input
      /\ t.activeQuote = s.activeQuote
      /\ t.parametersConfirmedAt = s.parametersConfirmedAt
      /\ t.consentGrantedAt = s.consentGrantedAt
      /\ \/ /\ s.input.risk \in EligibleRisks
            /\ t.eligibility = "eligible"
            /\ t.step = "COLLECTING_COVERAGE"
         \/ /\ s.input.risk \notin EligibleRisks
            /\ t.eligibility = "ineligible"
            /\ t.step = "REFERRED"
  BY <1>1 DEF Evaluate, Sessions, Steps
<1> HIDE DEF t
<1>3. Reopened(s)
  BY <1>1 DEF SessionOK, GatesMatchStep, Reopened
<1>4. Reopened(t)
  BY <1>2, <1>3 DEF Reopened
<1>5. SessionOK(t)
  BY <1>1, <1>2, <1>4 DEF SessionOK, GatesMatchStep, VerdictMatchesStep, VerdictCurrent,
                          CoverageChosen, QuoteCurrent, Reopened
<1> QED BY <1>3, <1>4, <1>5, SeesGathering, StillGathering DEF t

\* selectCoverage leaves a coverage without blanks, before anything is confirmed.
LEMMA CoveredOK ==
    ASSUME NEW s, SessionOK(s), s.step = "COLLECTING_COVERAGE",
           NEW form \in [CoverageFields -> Partial(Values)], NEW email \in Partial(Emails)
    PROVE  LET t == Covered(s, form, email)
           IN SessionOK(t) /\ Follows(s, t) /\ Reopened(t)
<1> DEFINE coverage == Override(DefaultCoverage, form)
           input == [s.input EXCEPT !.coverage = coverage, !.email = email]
           t == Covered(s, form, email)
<1>1. s \in Sessions /\ s.input \in Inputs
  BY DEF SessionOK, Sessions
<1>2. coverage \in CompleteCoverages
  <2>1. DefaultCoverage \in [CoverageFields -> Values]
    BY DomainAssumption
  <2>2. \A f \in CoverageFields : IF f \in DOMAIN form /\ form[f] # NoValue
                                 THEN form[f] \in Values ELSE DefaultCoverage[f] \in Values
    BY <2>1 DEF Partial
  <2> QED BY <2>1, <2>2, OverrideType DEF CompleteCoverages
<1>3. coverage \in [CoverageFields -> Partial(Values)]
  BY <1>2 DEF CompleteCoverages, Partial
<1>4. t = [s EXCEPT !.input = input, !.step = "AWAITING_CONFIRMATION"]
  BY <1>1 DEF Covered, Sessions, Inputs
<1> HIDE DEF coverage
<1>5. input \in Inputs /\ input.risk = s.input.risk /\ input.coverage = coverage
  BY <1>1, <1>3 DEF Inputs
<1> HIDE DEF input, t
<1>6. /\ t \in Sessions /\ t.input = input /\ t.step = "AWAITING_CONFIRMATION"
      /\ t.eligibility = s.eligibility /\ t.activeQuote = s.activeQuote
      /\ t.parametersConfirmedAt = s.parametersConfirmedAt
      /\ t.consentGrantedAt = s.consentGrantedAt
  BY <1>1, <1>4, <1>5 DEF Sessions, Steps
<1>7. Reopened(s)
  BY DEF SessionOK, GatesMatchStep, Reopened
<1>8. Reopened(t)
  BY <1>6, <1>7 DEF Reopened
<1>9. SessionOK(t)
  BY <1>2, <1>5, <1>6, <1>8 DEF SessionOK, GatesMatchStep, VerdictMatchesStep,
                                VerdictCurrent, CoverageChosen, QuoteCurrent, Reopened
<1> QED BY <1>7, <1>8, <1>9, SeesGathering, StillGathering DEF t

\* confirmParameters is the contract's confirmation, if the risk was accepted.
LEMMA ConfirmedOK ==
    ASSUME NEW s, SessionOK(s), MayConfirm(s), NEW now \in Nat \ {0}
    PROVE  LET t == ConfirmParameters(s, now)
           IN /\ SessionOK(t) /\ Follows(s, t)
              /\ t.input = s.input /\ t.parametersConfirmedAt = now
              /\ t.consentGrantedAt = 0 /\ t.activeQuote = NoQuote
<1> DEFINE t == ConfirmParameters(s, now)
           terms == TermsOf(s.input)
<1>1. s \in Sessions /\ s.step = "AWAITING_CONFIRMATION"
  BY DEF SessionOK, MayConfirm, MayMove, CanTransition, ALLOWED_TRANSITIONS
<1>2. /\ t \in Sessions /\ t.input = s.input /\ t.step = "AWAITING_CONSENT"
      /\ t.eligibility = s.eligibility /\ t.activeQuote = s.activeQuote
      /\ t.parametersConfirmedAt = now /\ t.consentGrantedAt = s.consentGrantedAt
  BY <1>1 DEF ConfirmParameters, Sessions, Steps
<1> HIDE DEF t
<1>3. Reopened(s)
  BY <1>1 DEF SessionOK, GatesMatchStep, Reopened
<1>4. SessionOK(t)
  BY <1>1, <1>2, <1>3 DEF SessionOK, GatesMatchStep, VerdictMatchesStep,
                          VerdictCurrent, CoverageChosen, QuoteCurrent, Reopened
<1>5. Follows(s, t)
  <2>1. Unseen(s)
    BY <1>3, SeesGathering
  <2>2. CASE s.eligibility # "eligible"
    BY <1>2, <2>1, <2>2, SeesGathering, StillGathering
  <2>3. CASE s.eligibility = "eligible"
    <3>1. Sees(t, "confirmed", terms, NoQuote)
      BY <1>2, <1>4, <2>3, SeesByStep
    <3>2. Agreeable(terms)
      BY <1>1, <2>3, SettledAgreeable DEF SessionOK, CoverageChosen
    <3> QED BY <2>1, <3>1, <3>2 DEF Follows
  <2> QED BY <2>2, <2>3
<1> QED BY <1>2, <1>3, <1>4, <1>5 DEF t, Reopened

\* submitConsent is the contract's consent, if the risk was accepted.
LEMMA ConsentedOK ==
    ASSUME NEW s, SessionOK(s), MayConsent(s), NEW now \in Nat \ {0}
    PROVE  LET t == GrantConsent(s, now)
           IN /\ SessionOK(t) /\ Follows(s, t)
              /\ t.step = "READY_TO_QUOTE" /\ t.input = s.input
              /\ t.eligibility = s.eligibility
              /\ t.parametersConfirmedAt = s.parametersConfirmedAt
              /\ t.consentGrantedAt = now /\ t.activeQuote = NoQuote
<1> DEFINE t == GrantConsent(s, now)
           terms == TermsOf(s.input)
<1>1. s \in Sessions /\ s.step = "AWAITING_CONSENT"
  BY DEF SessionOK, MayConsent, MayMove, CanTransition, ALLOWED_TRANSITIONS
<1>2. /\ t \in Sessions /\ t.input = s.input /\ t.step = "READY_TO_QUOTE"
      /\ t.eligibility = s.eligibility /\ t.activeQuote = s.activeQuote
      /\ t.parametersConfirmedAt = s.parametersConfirmedAt /\ t.consentGrantedAt = now
  BY <1>1 DEF GrantConsent, Sessions, Steps
<1> HIDE DEF t
<1>3. s.activeQuote = NoQuote /\ s.parametersConfirmedAt # 0
  BY <1>1 DEF SessionOK, GatesMatchStep
<1>4. SessionOK(t)
  BY <1>1, <1>2, <1>3 DEF SessionOK, GatesMatchStep, VerdictMatchesStep,
                          VerdictCurrent, CoverageChosen, QuoteCurrent
<1>5. Follows(s, t)
  <2>1. CASE s.eligibility # "eligible"
    BY <1>2, <2>1, SeesGathering, StillGathering
  <2>2. CASE s.eligibility = "eligible"
    <3>1. Sees(s, "confirmed", terms, NoQuote)
      BY <1>1, <2>2, SeesByStep
    <3>2. Sees(t, "consented", terms, NoQuote)
      BY <1>2, <1>4, <2>2, SeesByStep
    <3> QED BY <3>1, <3>2 DEF Follows
  <2> QED BY <2>1, <2>2
<1> QED BY <1>2, <1>3, <1>4, <1>5 DEF t

\* calculateQuote makes the offer, for the terms consented to.
LEMMA IssuedOK ==
    ASSUME NEW s, SessionOK(s), MayIssue(s), NEW id \in Nat
    PROVE  LET t == Issue(s, id)
           IN /\ SessionOK(t) /\ Follows(s, t)
              /\ s.step = "READY_TO_QUOTE" /\ s.activeQuote = NoQuote
              /\ t.step = "QUOTED" /\ t.input = s.input
              /\ t.eligibility = s.eligibility
              /\ t.historicalQuotes = s.historicalQuotes
              /\ t.parametersConfirmedAt = s.parametersConfirmedAt
              /\ t.consentGrantedAt = s.consentGrantedAt
              /\ t.activeQuote \in Quotes /\ t.activeQuote.quoteId = id
              /\ t.activeQuote.status = "active"
<1> DEFINE quote == NewQuote(s, id)
           t == Issue(s, id)
           terms == TermsOf(s.input)
<1>1. /\ s \in Sessions /\ s.input \in Inputs
      /\ s.step = "READY_TO_QUOTE" /\ s.eligibility = "eligible"
  BY DEF SessionOK, Sessions, MayIssue, ReadyToQuote, CanTransition, ALLOWED_TRANSITIONS
<1>2. s.input.coverage \in CompleteCoverages
  BY <1>1 DEF SessionOK, CoverageChosen
<1>3. quote \in Quotes /\ quote.quoteId = id /\ quote.status = "active"
      /\ TermsOf(quote.input) = terms
  <2>1. quote \in Quotes
    BY <1>1, NewQuoteType DEF NewQuote
  <2>2. TermsOf(quote.input) = terms
    BY <1>1, <1>2, ValidatedInputType DEF NewQuote, TermsOf
  <2> QED BY <2>1, <2>2 DEF NewQuote
<1>4. quote # NoQuote
  BY <1>3, DomainAssumption
<1>5. t = [s EXCEPT !.activeQuote = quote, !.step = "QUOTED"]
  BY DEF Issue
<1> HIDE DEF quote, t
<1>6. /\ t \in Sessions /\ t.input = s.input /\ t.step = "QUOTED"
      /\ t.eligibility = s.eligibility /\ t.activeQuote = quote
      /\ t.historicalQuotes = s.historicalQuotes
      /\ t.parametersConfirmedAt = s.parametersConfirmedAt
      /\ t.consentGrantedAt = s.consentGrantedAt
  BY <1>1, <1>3, <1>5 DEF Sessions, Steps
<1>7. s.activeQuote = NoQuote /\ s.parametersConfirmedAt # 0 /\ s.consentGrantedAt # 0
  BY <1>1 DEF SessionOK, GatesMatchStep
<1>8. SessionOK(t)
  BY <1>1, <1>2, <1>3, <1>4, <1>6, <1>7 DEF SessionOK, GatesMatchStep,
     VerdictMatchesStep, VerdictCurrent, CoverageChosen, QuoteCurrent
<1>9. Follows(s, t)
  <2>1. Sees(s, "consented", terms, NoQuote)
    BY <1>1, SeesByStep
  <2>2. Sees(t, "quoted", terms, terms)
    BY <1>6, <1>8, SeesByStep
  <2> QED BY <2>1, <2>2 DEF Follows
<1> QED BY <1>1, <1>3, <1>6, <1>7, <1>8, <1>9 DEF t

\* adjustQuote changes the coverage on file and the coverage quoted together: the
\* contract's adjustment.
LEMMA AdjustedOK ==
    ASSUME NEW s, SessionOK(s), MayAdjust(s), NEW id \in Nat,
           NEW form \in [CoverageFields -> Partial(Values)]
    PROVE  LET t == Adjust(s, form, id)
           IN /\ SessionOK(t) /\ Follows(s, t)
              /\ t.step = "QUOTED" /\ t.input.risk = s.input.risk
              /\ t.eligibility = s.eligibility
              /\ t.historicalQuotes = Retired(s)
              /\ t.parametersConfirmedAt = s.parametersConfirmedAt
              /\ t.consentGrantedAt = s.consentGrantedAt
              /\ t.activeQuote \in Quotes /\ t.activeQuote.quoteId = id
              /\ t.activeQuote.status = "adjusted"
<1> DEFINE coverage == Override(s.input.coverage, form)
           input == [s.input EXCEPT !.coverage = coverage]
           u == WithCoverage(s, form)
           quote == [quoteId |-> id, input |-> ValidatedInput(u.input),
                     status |-> "adjusted"]
           t == Adjust(s, form, id)
           terms == TermsOf(s.input)
<1>1. /\ s \in Sessions /\ s.input \in Inputs
      /\ s.activeQuote # NoQuote /\ s.step = "QUOTED" /\ s.eligibility = "eligible"
      /\ s.parametersConfirmedAt # 0 /\ s.consentGrantedAt # 0
      /\ s.input.coverage \in CompleteCoverages
  BY DEF SessionOK, Sessions, MayAdjust, GatesMatchStep, VerdictMatchesStep,
         CoverageChosen
<1>2. coverage \in CompleteCoverages
  <2>1. \A f \in CoverageFields : IF f \in DOMAIN form /\ form[f] # NoValue
                                 THEN form[f] \in Values ELSE s.input.coverage[f] \in Values
    BY <1>1 DEF CompleteCoverages, Partial
  <2> QED BY <1>1, <2>1, OverrideType DEF CompleteCoverages
<1>3. coverage \in [CoverageFields -> Partial(Values)]
  BY <1>2 DEF CompleteCoverages, Partial
<1>4. u = [s EXCEPT !.input = input]
  BY DEF WithCoverage
<1>5. t = [u EXCEPT !.historicalQuotes = Retired(s), !.activeQuote = quote]
  BY DEF Adjust
<1> HIDE DEF coverage
<1>6. input \in Inputs /\ input.risk = s.input.risk /\ input.coverage = coverage
  BY <1>1, <1>3 DEF Inputs
<1> HIDE DEF input, u
<1>7. /\ u \in Sessions /\ u.input = input /\ u.step = s.step
      /\ u.eligibility = s.eligibility
      /\ u.parametersConfirmedAt = s.parametersConfirmedAt
      /\ u.consentGrantedAt = s.consentGrantedAt
  BY <1>1, <1>4, <1>6 DEF Sessions
<1>8. /\ quote \in Quotes /\ quote.quoteId = id /\ quote.status = "adjusted"
      /\ TermsOf(quote.input) = TermsOf(input)
  <2>1. quote \in Quotes
    BY <1>6, <1>7, NewQuoteType
  <2>2. TermsOf(quote.input) = TermsOf(input)
    BY <1>2, <1>6, <1>7, ValidatedInputType DEF TermsOf
  <2> QED BY <2>1, <2>2
<1>9. quote # NoQuote
  BY <1>8, DomainAssumption
<1>10. Retired(s) \in Seq(Quotes)
  BY <1>1, RetiredType
<1> HIDE DEF quote, t
<1>11. /\ t \in Sessions /\ t.input = input /\ t.step = "QUOTED"
       /\ t.eligibility = s.eligibility /\ t.activeQuote = quote
       /\ t.historicalQuotes = Retired(s)
       /\ t.parametersConfirmedAt = s.parametersConfirmedAt
       /\ t.consentGrantedAt = s.consentGrantedAt
  BY <1>1, <1>5, <1>7, <1>8, <1>10 DEF Sessions
<1>12. SessionOK(t)
  BY <1>1, <1>2, <1>6, <1>8, <1>9, <1>11 DEF SessionOK, GatesMatchStep,
     VerdictMatchesStep, VerdictCurrent, CoverageChosen, QuoteCurrent
<1>13. Follows(s, t)
  <2> DEFINE new == [terms EXCEPT !.coverage = coverage]
  <2>1. Sees(s, "quoted", terms, terms)
    BY <1>1, SeesByStep
  <2>2. TermsOf(t.input) = new
    BY <1>6, <1>11 DEF TermsOf
  <2>3. Sees(t, "quoted", TermsOf(t.input), TermsOf(t.input))
    BY <1>11, <1>12, SeesByStep
  <2>4. Sees(t, "quoted", new, new)
    BY <2>2, <2>3
  <2> QED BY <1>2, <2>1, <2>4 DEF Follows
<1> QED BY <1>6, <1>8, <1>11, <1>12, <1>13 DEF t

\* A correction reopens the negotiation, and nothing is left to back; or it changes
\* nothing the verdict, the confirmation or the quote rest on.
LEMMA CorrectedOK ==
    ASSUME NEW s, SessionOK(s), NEW delta \in Inputs
    PROVE  LET t == ApplyCorrection(s, delta)
           IN /\ SessionOK(t) /\ Follows(s, t)
              /\ \/ Reopened(t) /\ t.step \in {"COLLECTING_PROPERTY", "COLLECTING_COVERAGE"}
                 \/ /\ t.step = s.step
                    /\ t.eligibility = s.eligibility
                    /\ t.activeQuote = s.activeQuote
                    /\ t.historicalQuotes = s.historicalQuotes
                    /\ t.parametersConfirmedAt = s.parametersConfirmedAt
                    /\ t.consentGrantedAt = s.consentGrantedAt
                    /\ s.eligibility # "none" => t.input.risk = s.input.risk
                    /\ s.input.coverage \in CompleteCoverages =>
                          t.input.coverage = s.input.coverage
<1> DEFINE input == Merged(s.input, delta)
           t == ApplyCorrection(s, delta)
<1>1. s \in Sessions
  BY DEF SessionOK
<1>2. t \in Sessions /\ t.input = input
  BY <1>1, CorrectionCases
<1>3. ASSUME Reopened(t)
      PROVE  Follows(s, t)
  <2>1. Unseen(t)
    BY <1>3, SeesGathering
  <2>2. CASE Stage(s) = "gathering"
    <3>1. Unseen(s)
      BY <2>2 DEF Unseen, Sees, SettledTerms, Offer
    <3> QED BY <2>1, <3>1, StillGathering
  <2> QED BY <2>1, <2>2 DEF Follows
<1>4. CASE t.step = "COLLECTING_PROPERTY" /\ t.eligibility = "none" /\ Reopened(t)
  <2>1. SessionOK(t)
    BY <1>2, <1>4 DEF Reopened, SessionOK, GatesMatchStep, VerdictMatchesStep,
                      VerdictCurrent, CoverageChosen, QuoteCurrent
  <2> QED BY <1>3, <1>4, <2>1
<1>5. CASE /\ ~Changed(s.input.risk, delta.risk)
           /\ t.step = "COLLECTING_COVERAGE"
           /\ t.eligibility = s.eligibility
           /\ Reopened(t)
  <2>1. s.eligibility # "none" => input.risk = s.input.risk
    BY <1>1, <1>5, EvaluatedRisk DEF SessionOK
  <2>2. VerdictCurrent(t)
    BY <1>2, <1>5, <2>1 DEF SessionOK, VerdictCurrent
  <2>3. SessionOK(t)
    BY <1>2, <1>5, <2>2 DEF Reopened, SessionOK, GatesMatchStep, VerdictMatchesStep,
                            CoverageChosen, QuoteCurrent
  <2> QED BY <1>3, <1>5, <2>3
<1>6. CASE /\ ~Changed(s.input.risk, delta.risk)
           /\ ~Changed(s.input.coverage, delta.coverage)
           /\ t = [s EXCEPT !.input = input]
  <2> HIDE DEF input, t
  <2>1. /\ t.step = s.step
        /\ t.eligibility = s.eligibility
        /\ t.activeQuote = s.activeQuote
        /\ t.historicalQuotes = s.historicalQuotes
        /\ t.parametersConfirmedAt = s.parametersConfirmedAt
        /\ t.consentGrantedAt = s.consentGrantedAt
    BY <1>1, <1>6 DEF Sessions
  <2>2. s.eligibility # "none" => t.input.risk = s.input.risk
    BY <1>1, <1>2, <1>6, EvaluatedRisk DEF SessionOK, input
  <2>3. s.input.coverage \in CompleteCoverages => t.input.coverage = s.input.coverage
    BY <1>1, <1>2, <1>6, ChosenCoverage DEF input
  <2>4. GatesMatchStep(t) /\ VerdictMatchesStep(t) /\ VerdictCurrent(t)
    BY <2>1, <2>2 DEF SessionOK, GatesMatchStep, VerdictMatchesStep, VerdictCurrent
  <2>5. CoverageChosen(t) /\ QuoteCurrent(t)
    BY <2>1, <2>2, <2>3 DEF SessionOK, CoverageChosen, QuoteCurrent, GatesMatchStep,
                            VerdictMatchesStep, TermsOf
  <2>6. SessionOK(t)
    BY <1>2, <2>4, <2>5 DEF SessionOK
  <2>7. Follows(s, t)
    <3>1. Stage(t) = Stage(s) /\ Offer(t) = Offer(s)
      BY <2>1 DEF Stage, Offer
    <3>2. CASE Stage(s) = "gathering"
      BY <3>1, <3>2 DEF SettledTerms, Follows
    <3>3. CASE Stage(s) # "gathering"
      <4>1. s.eligibility = "eligible" /\ s.input.coverage \in CompleteCoverages
        BY <3>3 DEF Stage, SessionOK, GatesMatchStep, CoverageChosen
      <4>2. SettledTerms(t) = SettledTerms(s)
        BY <2>2, <2>3, <3>1, <4>1 DEF SettledTerms, TermsOf
      <4> QED BY <3>1, <4>2 DEF Follows
    <3> QED BY <3>2, <3>3
  <2> QED BY <2>1, <2>2, <2>3, <2>6, <2>7 DEF t
<1> QED BY <1>1, <1>4, <1>5, <1>6, CorrectionCases

\* anonymizeSession disturbs nothing but the emails, and promises and withdraws
\* nothing.
LEMMA ScrubbedOK ==
    ASSUME NEW s, SessionOK(s)
    PROVE  LET t == Scrub(s)
           IN /\ SessionOK(t) /\ Follows(s, t)
              /\ t.step = s.step /\ t.eligibility = s.eligibility
              /\ t.parametersConfirmedAt = s.parametersConfirmedAt
              /\ t.consentGrantedAt = s.consentGrantedAt
              /\ t.input.risk = s.input.risk /\ t.input.coverage = s.input.coverage
              /\ t.activeQuote # NoQuote <=> s.activeQuote # NoQuote
              /\ s.activeQuote # NoQuote =>
                    /\ t.activeQuote.status = s.activeQuote.status
                    /\ TermsOf(t.activeQuote.input) = TermsOf(s.activeQuote.input)
<1> DEFINE t == Scrub(s)
<1>1. s \in Sessions /\ s.input \in Inputs
  BY DEF SessionOK, Sessions
<1>2. /\ t \in Sessions
      /\ t.step = s.step /\ t.eligibility = s.eligibility
      /\ t.parametersConfirmedAt = s.parametersConfirmedAt
      /\ t.consentGrantedAt = s.consentGrantedAt
      /\ t.input.risk = s.input.risk /\ t.input.coverage = s.input.coverage
      /\ t.activeQuote = ScrubQuote(s.activeQuote)
  BY <1>1, Scrubbed, ScrubbedInput
<1>3. /\ t.activeQuote # NoQuote <=> s.activeQuote # NoQuote
      /\ s.activeQuote # NoQuote =>
            /\ t.activeQuote.status = s.activeQuote.status
            /\ TermsOf(t.activeQuote.input) = TermsOf(s.activeQuote.input)
  <2>1. CASE s.activeQuote = NoQuote
    BY <1>2, <2>1 DEF ScrubQuote
  <2>2. CASE s.activeQuote \in Quotes
    BY <1>2, <2>2, ScrubbedQuote, DomainAssumption
  <2> QED BY <1>1, <2>1, <2>2 DEF Sessions
<1> HIDE DEF t
<1>4. SessionOK(t)
  BY <1>2, <1>3 DEF SessionOK, GatesMatchStep, VerdictMatchesStep, VerdictCurrent,
                    CoverageChosen, QuoteCurrent, TermsOf
<1>5. Follows(s, t)
  BY <1>2, <1>3 DEF Follows, Stage, SettledTerms, Offer, TermsOf
<1> QED BY <1>2, <1>3, <1>4, <1>5 DEF t

-----------------------------------------------------------------------------
(* The quotes a session shows: no operation loses one, and the two that    *)
(* issue a quote add theirs and no other.                                  *)

\* A quote that retires is still shown.
LEMMA RetiredQuotes ==
    ASSUME NEW s \in Sessions
    PROVE  {Retired(s)[i].quoteId : i \in DOMAIN Retired(s)} = QuoteIds(s)
<1> DEFINE h == s.historicalQuotes
           q == s.activeQuote
           g == Append(h, q)
<1>1. h \in Seq(Quotes)
  BY DEF Sessions
<1>2. CASE q = NoQuote
  BY <1>2 DEF Retired, QuoteIds
<1>3. CASE q # NoQuote
  <2>1. q \in Quotes
    BY <1>3 DEF Sessions
  <2>2. Retired(s) = g /\ QuoteIds(s) = {h[i].quoteId : i \in DOMAIN h} \cup {q.quoteId}
    BY <1>3 DEF Retired, QuoteIds
  <2> HIDE DEF h, q
  <2>3. /\ DOMAIN h = 1..Len(h) /\ DOMAIN g = 1..(Len(h) + 1) /\ Len(h) \in Nat
        /\ g[Len(h) + 1] = q
        /\ \A i \in 1..Len(h) : g[i] = h[i]
    BY <1>1, <2>1
  <2> HIDE DEF g
  <2>4. \A i \in 1..(Len(h) + 1) : i \in 1..Len(h) \/ i = Len(h) + 1
    BY <2>3
  <2>5. \A i \in 1..Len(h) : i \in 1..(Len(h) + 1)
    BY <2>3
  <2>6. Len(h) + 1 \in 1..(Len(h) + 1)
    BY <2>3
  <2>7. {g[i].quoteId : i \in DOMAIN g} = {h[i].quoteId : i \in DOMAIN h} \cup {q.quoteId}
    BY <2>3, <2>4, <2>5, <2>6
  <2> QED BY <2>2, <2>7
<1> QED BY <1>2, <1>3

\* Forms, verdict, confirmation and consent leave the quotes alone.
SameQuotesShown(t, s) == t.activeQuote = s.activeQuote /\ QuoteIds(t) = QuoteIds(s)

\* None of these operators withdraws, issues or adjusts a quote.
LEMMA UntouchedQuotes ==
    ASSUME NEW s \in Sessions
    PROVE  /\ \A form, step : SameQuotesShown(Declared(s, form, step), s)
           /\ SameQuotesShown(Evaluate(s), s)
           /\ \A form, email : SameQuotesShown(Covered(s, form, email), s)
           /\ \A now : SameQuotesShown(ConfirmParameters(s, now), s)
           /\ \A now : SameQuotesShown(GrantConsent(s, now), s)
<1>1. ASSUME NEW t, t.activeQuote = s.activeQuote,
             t.historicalQuotes = s.historicalQuotes
      PROVE  SameQuotesShown(t, s)
  BY <1>1 DEF SameQuotesShown, QuoteIds
<1>2. \A form, step : SameQuotesShown(Declared(s, form, step), s)
  BY <1>1 DEF Sessions, Declared
<1>3. SameQuotesShown(Evaluate(s), s)
  BY <1>1 DEF Sessions, Evaluate
<1>4. \A form, email : SameQuotesShown(Covered(s, form, email), s)
  BY <1>1 DEF Sessions, Covered
<1>5. \A now : /\ SameQuotesShown(ConfirmParameters(s, now), s)
               /\ SameQuotesShown(GrantConsent(s, now), s)
  BY <1>1 DEF Sessions, ConfirmParameters, GrantConsent
<1> QED BY <1>2, <1>3, <1>4, <1>5

\* A correction may withdraw the active quote, but loses none.
LEMMA CorrectedQuotes ==
    ASSUME NEW s \in Sessions, NEW delta \in Inputs
    PROVE  LET t == ApplyCorrection(s, delta)
           IN /\ t.activeQuote \in {s.activeQuote, NoQuote}
              /\ QuoteIds(t) = QuoteIds(s)
<1> DEFINE t == ApplyCorrection(s, delta)
           u == Invalidated(s)
<1>1. \/ t.activeQuote = u.activeQuote /\ t.historicalQuotes = u.historicalQuotes
      \/ t.activeQuote = s.activeQuote /\ t.historicalQuotes = s.historicalQuotes
  <2>1. u \in Sessions
    BY InvalidatedType
  <2> HIDE DEF u
  <2> QED BY <2>1 DEF ApplyCorrection, u, Sessions
<1>2. u.activeQuote = NoQuote /\ u.historicalQuotes = Retired(s)
  BY DEF Invalidated, Sessions
<1>3. QuoteIds(u) = QuoteIds(s)
  BY <1>2, RetiredQuotes DEF QuoteIds
<1> HIDE DEF t, u
<1>4. QuoteIds(t) = QuoteIds(s) /\ t.activeQuote \in {s.activeQuote, NoQuote}
  BY <1>1, <1>2, <1>3 DEF QuoteIds
<1> QED BY <1>4 DEF t

\* calculateQuote shows its quote beside the historical ones.
LEMMA IssuedQuotes ==
    ASSUME NEW s, SessionOK(s), MayIssue(s), NEW id \in Nat
    PROVE  QuoteIds(Issue(s, id)) = QuoteIds(s) \cup {id}
<1> DEFINE t == Issue(s, id)
<1>1. /\ s.activeQuote = NoQuote /\ t.historicalQuotes = s.historicalQuotes
      /\ t.activeQuote # NoQuote /\ t.activeQuote.quoteId = id
  BY IssuedOK, DomainAssumption
<1> HIDE DEF t
<1>2. QuoteIds(t) = QuoteIds(s) \cup {id}
  BY <1>1 DEF QuoteIds
<1> QED BY <1>2 DEF t

\* adjustQuote retires the quote it replaces.
LEMMA AdjustedQuotes ==
    ASSUME NEW s, SessionOK(s), MayAdjust(s), NEW id \in Nat,
           NEW form \in [CoverageFields -> Partial(Values)]
    PROVE  QuoteIds(Adjust(s, form, id)) = QuoteIds(s) \cup {id}
<1> DEFINE t == Adjust(s, form, id)
<1>1. /\ t.historicalQuotes = Retired(s)
      /\ t.activeQuote # NoQuote /\ t.activeQuote.quoteId = id
  BY AdjustedOK, DomainAssumption
<1>2. s \in Sessions
  BY DEF SessionOK
<1> HIDE DEF t
<1>3. QuoteIds(t) = QuoteIds(s) \cup {id}
  BY <1>1, <1>2, RetiredQuotes DEF QuoteIds
<1> QED BY <1>3 DEF t

-----------------------------------------------------------------------------
(* The order those quotes were issued in: retiring one, by a correction or *)
(* an adjustment, keeps its place.                                         *)

\* The identifiers of a sequence of quotes.
IdsOf(quotes) == [i \in DOMAIN quotes |-> quotes[i].quoteId]

\* They are a sequence too, ...
LEMMA IdsType == ASSUME NEW h \in Seq(Quotes) PROVE IdsOf(h) \in Seq(Nat)
<1>1. Len(h) \in Nat /\ DOMAIN h = 1..Len(h) /\ \A i \in 1..Len(h) : h[i] \in Quotes
  OBVIOUS
<1>2. \A i \in 1..Len(h) : h[i].quoteId \in Nat
  BY <1>1 DEF Quotes
<1> QED BY <1>1, <1>2 DEF IdsOf

\* ... and grow with it.
LEMMA IdsAppended ==
    ASSUME NEW h \in Seq(Quotes), NEW q \in Quotes
    PROVE  IdsOf(Append(h, q)) = Append(IdsOf(h), q.quoteId)
<1> DEFINE ids == IdsOf(h)
           g == Append(h, q)
<1>1. /\ Len(h) \in Nat /\ DOMAIN h = 1..Len(h)
      /\ \A i \in 1..Len(h) : h[i] \in Quotes
  OBVIOUS
<1>3. ids = [i \in 1..Len(h) |-> h[i].quoteId]
  BY <1>1 DEF IdsOf
<1> HIDE DEF ids
<1>4. ids \in Seq(Nat) /\ Len(ids) = Len(h) /\ DOMAIN ids = 1..Len(h)
  BY <1>1, <1>3, IdsType DEF ids
<1>5. /\ g \in Seq(Quotes) /\ Len(g) = Len(h) + 1 /\ DOMAIN g = 1..(Len(h) + 1)
      /\ g[Len(h) + 1] = q
      /\ \A i \in 1..Len(h) : g[i] = h[i]
  BY <1>1
<1>6. Append(ids, q.quoteId) = [i \in 1..(Len(h) + 1) |->
                               IF i = Len(h) + 1 THEN q.quoteId ELSE ids[i]]
  BY <1>1, <1>4 DEF Quotes
<1> HIDE DEF g
<1>7. IdsOf(g) = [i \in 1..(Len(h) + 1) |-> g[i].quoteId]
  BY <1>5 DEF IdsOf
<1>8. \A i \in 1..(Len(h) + 1) :
         g[i].quoteId = IF i = Len(h) + 1 THEN q.quoteId ELSE ids[i]
  BY <1>1, <1>3, <1>5
<1>9. IdsOf(g) = Append(ids, q.quoteId)
  BY <1>6, <1>7, <1>8
<1> QED BY <1>9 DEF ids, g

\* A session's quotes in order are the historical ones with the active one retired.
LEMMA RetiredOrder ==
    ASSUME NEW s \in Sessions
    PROVE  QuoteOrder(s) = IdsOf(Retired(s)) /\ QuoteOrder(s) \in Seq(Nat)
<1> DEFINE h == s.historicalQuotes
           q == s.activeQuote
<1>1. h \in Seq(Quotes) /\ Retired(s) \in Seq(Quotes)
  BY RetiredType DEF Sessions
<1>2. QuoteOrder(s) = IdsOf(h) \o (IF q = NoQuote THEN << >> ELSE <<q.quoteId>>)
  BY DEF QuoteOrder, IdsOf
<1>3. CASE q = NoQuote
  <2>1. IdsOf(h) \in Seq(Nat)
    BY <1>1, IdsType
  <2>2. IdsOf(h) \o << >> = IdsOf(h)
    BY <2>1
  <2> QED BY <1>2, <1>3, <2>1, <2>2 DEF Retired
<1>4. CASE q # NoQuote
  <2>1. q \in Quotes /\ q.quoteId \in Nat
    BY <1>4 DEF Sessions, Quotes
  <2> HIDE DEF h, q
  <2>2. IdsOf(h) \in Seq(Nat) /\ IdsOf(Append(h, q)) = Append(IdsOf(h), q.quoteId)
    BY <1>1, <2>1, IdsType, IdsAppended
  <2>3. /\ IdsOf(h) \o <<q.quoteId>> = Append(IdsOf(h), q.quoteId)
        /\ Append(IdsOf(h), q.quoteId) \in Seq(Nat)
    BY <2>1, <2>2
  <2>4. Retired(s) = Append(h, q)
    BY <1>4 DEF Retired, h, q
  <2> QED BY <1>2, <1>4, <2>2, <2>3, <2>4
<1> QED BY <1>3, <1>4

\* Who keeps both kinds of quotes keeps their order.
LEMMA SameOrder ==
    ASSUME NEW s, NEW t, t.activeQuote = s.activeQuote,
           t.historicalQuotes = s.historicalQuotes
    PROVE  QuoteOrder(t) = QuoteOrder(s)
BY DEF QuoteOrder

\* Forms, verdict, confirmation and consent.
LEMMA UntouchedOrder ==
    ASSUME NEW s \in Sessions
    PROVE  /\ \A form, step : QuoteOrder(Declared(s, form, step)) = QuoteOrder(s)
           /\ QuoteOrder(Evaluate(s)) = QuoteOrder(s)
           /\ \A form, email : QuoteOrder(Covered(s, form, email)) = QuoteOrder(s)
           /\ \A now : QuoteOrder(ConfirmParameters(s, now)) = QuoteOrder(s)
           /\ \A now : QuoteOrder(GrantConsent(s, now)) = QuoteOrder(s)
<1>1. \A form, step : QuoteOrder(Declared(s, form, step)) = QuoteOrder(s)
  BY SameOrder DEF Sessions, Declared
<1>2. QuoteOrder(Evaluate(s)) = QuoteOrder(s)
  BY SameOrder DEF Sessions, Evaluate
<1>3. \A form, email : QuoteOrder(Covered(s, form, email)) = QuoteOrder(s)
  BY SameOrder DEF Sessions, Covered
<1>4. \A now : /\ QuoteOrder(ConfirmParameters(s, now)) = QuoteOrder(s)
               /\ QuoteOrder(GrantConsent(s, now)) = QuoteOrder(s)
  BY SameOrder DEF Sessions, ConfirmParameters, GrantConsent
<1> QED BY <1>1, <1>2, <1>3, <1>4

\* A correction.
LEMMA CorrectedOrder ==
    ASSUME NEW s \in Sessions, NEW delta \in Inputs
    PROVE  QuoteOrder(ApplyCorrection(s, delta)) = QuoteOrder(s)
<1> DEFINE t == ApplyCorrection(s, delta)
           u == Invalidated(s)
<1>1. \/ t.activeQuote = u.activeQuote /\ t.historicalQuotes = u.historicalQuotes
      \/ t.activeQuote = s.activeQuote /\ t.historicalQuotes = s.historicalQuotes
  <2>1. u \in Sessions
    BY InvalidatedType
  <2> HIDE DEF u
  <2> QED BY <2>1 DEF ApplyCorrection, u, Sessions
<1>2. /\ u \in Sessions
      /\ u.activeQuote = NoQuote /\ u.historicalQuotes = Retired(s)
  BY InvalidatedType DEF Invalidated, Sessions
<1>3. Retired(u) = Retired(s)
  BY <1>2 DEF Retired
<1> HIDE DEF t, u
<1>4. QuoteOrder(u) = QuoteOrder(s)
  BY <1>2, <1>3, RetiredOrder
<1>5. QuoteOrder(t) = QuoteOrder(s)
  BY <1>1, <1>4, SameOrder
<1> QED BY <1>5 DEF t

\* A calculation puts its quote behind the others.
LEMMA IssuedOrder ==
    ASSUME NEW s, SessionOK(s), MayIssue(s), NEW id \in Nat
    PROVE  QuoteOrder(Issue(s, id)) = Append(QuoteOrder(s), id)
<1> DEFINE t == Issue(s, id)
<1>1. /\ s.activeQuote = NoQuote /\ t.historicalQuotes = s.historicalQuotes
      /\ t.activeQuote \in Quotes /\ t.activeQuote.quoteId = id /\ SessionOK(t)
  BY IssuedOK
<1>2. /\ s \in Sessions /\ t \in Sessions /\ s.historicalQuotes \in Seq(Quotes)
      /\ t.activeQuote # NoQuote
  BY <1>1, DomainAssumption DEF SessionOK, Sessions
<1> HIDE DEF t
<1>3. /\ Retired(s) = s.historicalQuotes
      /\ Retired(t) = Append(s.historicalQuotes, t.activeQuote)
  BY <1>1, <1>2 DEF Retired
<1>4. QuoteOrder(t) = Append(QuoteOrder(s), id)
  BY <1>1, <1>2, <1>3, RetiredOrder, IdsAppended
<1> QED BY <1>4 DEF t

\* So does an adjustment, behind the one it replaces.
LEMMA AdjustedOrder ==
    ASSUME NEW s, SessionOK(s), MayAdjust(s), NEW id \in Nat,
           NEW form \in [CoverageFields -> Partial(Values)]
    PROVE  QuoteOrder(Adjust(s, form, id)) = Append(QuoteOrder(s), id)
<1> DEFINE t == Adjust(s, form, id)
<1>1. /\ t.historicalQuotes = Retired(s)
      /\ t.activeQuote \in Quotes /\ t.activeQuote.quoteId = id /\ SessionOK(t)
  BY AdjustedOK
<1>2. /\ s \in Sessions /\ t \in Sessions /\ Retired(s) \in Seq(Quotes)
      /\ t.activeQuote # NoQuote
  BY <1>1, RetiredType, DomainAssumption DEF SessionOK
<1> HIDE DEF t
<1>3. Retired(t) = Append(Retired(s), t.activeQuote)
  BY <1>1, <1>2 DEF Retired
<1>4. QuoteOrder(t) = Append(QuoteOrder(s), id)
  BY <1>1, <1>2, <1>3, RetiredOrder, IdsAppended
<1> QED BY <1>4 DEF t

\* An erasure keeps every quote and its place.
LEMMA ScrubbedOrder ==
    ASSUME NEW s \in Sessions
    PROVE  QuoteOrder(Scrub(s)) = QuoteOrder(s)
<1> DEFINE h == s.historicalQuotes
           g == [i \in DOMAIN h |-> ScrubQuote(h[i])]
           t == Scrub(s)
<1>1. h \in Seq(Quotes) /\ \A i \in DOMAIN h : h[i] \in Quotes
  BY DEF Sessions
<1>2. t.historicalQuotes = g /\ t.activeQuote = ScrubQuote(s.activeQuote)
  BY Scrubbed
<1>3. DOMAIN g = DOMAIN h /\ \A i \in DOMAIN h : g[i].quoteId = h[i].quoteId
  BY <1>1, ScrubbedQuote
<1> HIDE DEF g, h
<1>4. [i \in DOMAIN g |-> g[i].quoteId] = [i \in DOMAIN h |-> h[i].quoteId]
  BY <1>3
<1>5. CASE s.activeQuote = NoQuote
  BY <1>2, <1>4, <1>5 DEF QuoteOrder, ScrubQuote, h
<1>6. CASE s.activeQuote # NoQuote
  <2>1. s.activeQuote \in Quotes
    BY <1>6 DEF Sessions
  <2>2. t.activeQuote \in Quotes /\ t.activeQuote.quoteId = s.activeQuote.quoteId
    BY <1>2, <2>1, ScrubbedQuote
  <2>3. t.activeQuote # NoQuote
    BY <2>2, DomainAssumption
  <2> HIDE DEF t
  <2> QED BY <1>2, <1>4, <1>6, <2>2, <2>3 DEF QuoteOrder, h, t
<1> QED BY <1>5, <1>6

-----------------------------------------------------------------------------
(* What is remembered of a session beside its document: the last stamp     *)
(* saved, the input at the last confirmation, and the consents used.       *)

\* What was confirmed is what is on file, but for risk fields that were blank
\* at the confirmation, and the coverage once the quote was adjusted.
ConfirmedOnFile(s, conf) ==
    s.parametersConfirmedAt # 0 =>
        /\ s.eligibility = "eligible" => s.input.risk = conf.risk
        /\ \/ s.activeQuote # NoQuote /\ s.activeQuote.status = "adjusted"
           \/ s.input.coverage = conf.coverage

StampsOrdered(s, last) ==
    /\ s.parametersConfirmedAt <= last
    /\ s.consentGrantedAt <= last
    /\ s.consentGrantedAt # 0 => s.parametersConfirmedAt < s.consentGrantedAt

ConsentFresh(s, last, used) ==
    /\ \A c \in used : 0 < c /\ c <= last
    /\ s.step = "READY_TO_QUOTE" => s.consentGrantedAt \notin used

Remembers(s, last, conf, used) ==
    /\ SessionOK(s)
    /\ last \in Nat /\ conf \in Inputs /\ used \subseteq Nat
    /\ ConfirmedOnFile(s, conf)
    /\ StampsOrdered(s, last)
    /\ ConsentFresh(s, last, used)

\* A session startSession has just saved has nothing to be remembered.
LEMMA StartedRemembers == Remembers(StartedSession, 0, EmptyInput, {})
<1>1. EmptyInput \in Inputs
  BY DEF EmptyInput, Inputs, Partial
<1>2. /\ ConfirmedOnFile(StartedSession, EmptyInput) /\ StampsOrdered(StartedSession, 0)
      /\ ConsentFresh(StartedSession, 0, {})
  BY DEF StartedSession, ConfirmedOnFile, StampsOrdered, ConsentFresh
<1> QED BY <1>1, <1>2, StartedOK DEF Remembers

\* A session that is reopened, or not yet confirmed, leaves nothing for the history
\* to agree with.
LEMMA ReopenedRemembers ==
    ASSUME NEW s, NEW last, NEW conf, NEW used, Remembers(s, last, conf, used),
           NEW t, SessionOK(t), Reopened(t), t.step # "READY_TO_QUOTE"
    PROVE  Remembers(t, last, conf, used)
BY DEF Remembers, Reopened, ConfirmedOnFile, StampsOrdered, ConsentFresh

\* confirmParameters stamps later than every stamp before it, and for what is on
\* file.
LEMMA ConfirmedRemembers ==
    ASSUME NEW s, NEW last, NEW conf, NEW used, Remembers(s, last, conf, used),
           MayConfirm(s), NEW now \in Nat, last < now
    PROVE  Remembers(ConfirmParameters(s, now), now, s.input, used)
<1> DEFINE t == ConfirmParameters(s, now)
<1>1. /\ SessionOK(s) /\ last \in Nat /\ used \subseteq Nat /\ now \in Nat \ {0}
      /\ s.input \in Inputs
  BY DEF Remembers, SessionOK, Sessions
<1>2. /\ SessionOK(t) /\ t.input = s.input /\ t.parametersConfirmedAt = now
      /\ t.consentGrantedAt = 0 /\ t.activeQuote = NoQuote
  BY <1>1, ConfirmedOK
<1>3. t.step # "READY_TO_QUOTE"
  BY <1>2 DEF SessionOK, GatesMatchStep
<1> HIDE DEF t
<1>4. ConfirmedOnFile(t, s.input) /\ StampsOrdered(t, now)
  BY <1>1, <1>2 DEF ConfirmedOnFile, StampsOrdered
<1>5. ConsentFresh(t, now, used)
  BY <1>1, <1>3 DEF Remembers, ConsentFresh
<1>6. Remembers(t, now, s.input, used)
  BY <1>1, <1>2, <1>4, <1>5 DEF Remembers
<1> QED BY <1>6 DEF t

\* grantConsent stamps later than the confirmation, with a stamp no calculation used.
LEMMA ConsentedRemembers ==
    ASSUME NEW s, NEW last, NEW conf, NEW used, Remembers(s, last, conf, used),
           MayConsent(s), NEW now \in Nat, last < now
    PROVE  Remembers(GrantConsent(s, now), now, conf, used)
<1> DEFINE t == GrantConsent(s, now)
<1>1. /\ SessionOK(s) /\ last \in Nat /\ used \subseteq Nat /\ now \in Nat \ {0}
  BY DEF Remembers
<1>2. /\ SessionOK(t) /\ t.input = s.input /\ t.eligibility = s.eligibility
      /\ t.parametersConfirmedAt = s.parametersConfirmedAt
      /\ t.consentGrantedAt = now /\ t.activeQuote = NoQuote
  BY <1>1, ConsentedOK
<1>3. /\ s.activeQuote = NoQuote /\ s.parametersConfirmedAt \in Nat
      /\ s.parametersConfirmedAt <= last
  BY DEF Remembers, SessionOK, GatesMatchStep, StampsOrdered, Sessions, MayConsent,
         MayMove, CanTransition, ALLOWED_TRANSITIONS
<1> HIDE DEF t
<1>4. ConfirmedOnFile(t, conf)
  BY <1>2, <1>3 DEF Remembers, ConfirmedOnFile
<1>5. StampsOrdered(t, now)
  BY <1>1, <1>2, <1>3 DEF StampsOrdered
<1>6. ConsentFresh(t, now, used)
  <2>1. \A c \in used : c \in Nat /\ 0 < c /\ c <= last
    BY <1>1 DEF Remembers, ConsentFresh
  <2> QED BY <1>1, <1>2, <2>1 DEF ConsentFresh
<1>7. Remembers(t, now, conf, used)
  BY <1>1, <1>2, <1>4, <1>5, <1>6 DEF Remembers
<1> QED BY <1>7 DEF t

\* calculateQuote uses up the consent on file and moves to QUOTED, so no second
\* calculation can follow on it.
LEMMA IssuedRemembers ==
    ASSUME NEW s, NEW last, NEW conf, NEW used, Remembers(s, last, conf, used),
           MayIssue(s), NEW id \in Nat
    PROVE  /\ Remembers(Issue(s, id), last, conf, used \cup {s.consentGrantedAt})
           /\ s.consentGrantedAt \notin used
<1> DEFINE t == Issue(s, id)
           more == used \cup {s.consentGrantedAt}
<1>1. /\ SessionOK(t) /\ s.step = "READY_TO_QUOTE" /\ s.activeQuote = NoQuote
      /\ t.step = "QUOTED" /\ t.input = s.input /\ t.eligibility = s.eligibility
      /\ t.parametersConfirmedAt = s.parametersConfirmedAt
      /\ t.consentGrantedAt = s.consentGrantedAt
  BY IssuedOK DEF Remembers
<1>2. /\ s.consentGrantedAt \in Nat /\ 0 < s.consentGrantedAt
      /\ s.consentGrantedAt <= last /\ last \in Nat /\ used \subseteq Nat
  BY <1>1 DEF Remembers, SessionOK, GatesMatchStep, StampsOrdered, Sessions
<1> HIDE DEF t
<1>3. ConfirmedOnFile(t, conf)
  BY <1>1 DEF Remembers, ConfirmedOnFile
<1>4. StampsOrdered(t, last) /\ ConsentFresh(t, last, more)
  BY <1>1, <1>2 DEF Remembers, StampsOrdered, ConsentFresh
<1>5. s.consentGrantedAt \notin used
  BY <1>1 DEF Remembers, ConsentFresh
<1>6. Remembers(t, last, conf, more)
  BY <1>1, <1>2, <1>3, <1>4 DEF Remembers
<1> QED BY <1>5, <1>6 DEF t

\* adjustQuote changes the coverage on file and the coverage quoted together.
LEMMA AdjustedRemembers ==
    ASSUME NEW s, NEW last, NEW conf, NEW used, Remembers(s, last, conf, used),
           MayAdjust(s), NEW id \in Nat,
           NEW form \in [CoverageFields -> Partial(Values)]
    PROVE  Remembers(Adjust(s, form, id), last, conf, used)
<1> DEFINE t == Adjust(s, form, id)
<1>1. /\ SessionOK(t) /\ t.step = "QUOTED" /\ t.input.risk = s.input.risk
      /\ t.eligibility = s.eligibility
      /\ t.parametersConfirmedAt = s.parametersConfirmedAt
      /\ t.consentGrantedAt = s.consentGrantedAt
      /\ t.activeQuote \in Quotes /\ t.activeQuote.status = "adjusted"
  BY AdjustedOK DEF Remembers
<1> HIDE DEF t
<1>2. ConfirmedOnFile(t, conf)
  BY <1>1, DomainAssumption DEF Remembers, ConfirmedOnFile
<1>3. StampsOrdered(t, last) /\ ConsentFresh(t, last, used)
  BY <1>1 DEF Remembers, StampsOrdered, ConsentFresh
<1>4. Remembers(t, last, conf, used)
  BY <1>1, <1>2, <1>3 DEF Remembers
<1> QED BY <1>4 DEF t

\* Either the correction reopens the session, and nothing is left to remember; or
\* it changes nothing the verdict, the confirmation or the quote rest on.
LEMMA CorrectedRemembers ==
    ASSUME NEW s, NEW last, NEW conf, NEW used, Remembers(s, last, conf, used),
           NEW delta \in Inputs
    PROVE  Remembers(ApplyCorrection(s, delta), last, conf, used)
<1> DEFINE t == ApplyCorrection(s, delta)
<1>1. /\ SessionOK(t)
      /\ \/ Reopened(t) /\ t.step \in {"COLLECTING_PROPERTY", "COLLECTING_COVERAGE"}
         \/ /\ t.step = s.step
            /\ t.eligibility = s.eligibility
            /\ t.activeQuote = s.activeQuote
            /\ t.parametersConfirmedAt = s.parametersConfirmedAt
            /\ t.consentGrantedAt = s.consentGrantedAt
            /\ s.eligibility # "none" => t.input.risk = s.input.risk
            /\ s.input.coverage \in CompleteCoverages =>
                  t.input.coverage = s.input.coverage
  BY CorrectedOK DEF Remembers
<1> HIDE DEF t
<1>2. CASE Reopened(t) /\ t.step # "READY_TO_QUOTE"
  <2>1. Remembers(t, last, conf, used)
    BY <1>1, <1>2, ReopenedRemembers
  <2> QED BY <2>1 DEF t
<1>3. CASE /\ t.step = s.step
           /\ t.eligibility = s.eligibility
           /\ t.activeQuote = s.activeQuote
           /\ t.parametersConfirmedAt = s.parametersConfirmedAt
           /\ t.consentGrantedAt = s.consentGrantedAt
           /\ s.eligibility # "none" => t.input.risk = s.input.risk
           /\ s.input.coverage \in CompleteCoverages =>
                 t.input.coverage = s.input.coverage
  <2>1. ConfirmedOnFile(t, conf)
    BY <1>3 DEF Remembers, SessionOK, CoverageChosen, GatesMatchStep, ConfirmedOnFile
  <2>2. StampsOrdered(t, last) /\ ConsentFresh(t, last, used)
    BY <1>3 DEF Remembers, StampsOrdered, ConsentFresh
  <2>3. Remembers(t, last, conf, used)
    BY <1>1, <2>1, <2>2 DEF Remembers
  <2> QED BY <2>3 DEF t
<1> QED BY <1>1, <1>2, <1>3

\* anonymizeSession disturbs nothing that is remembered.
LEMMA ScrubbedRemembers ==
    ASSUME NEW s, NEW last, NEW conf, NEW used, Remembers(s, last, conf, used)
    PROVE  Remembers(Scrub(s), last, conf, used)
<1> DEFINE t == Scrub(s)
<1>1. /\ SessionOK(t) /\ t.step = s.step /\ t.eligibility = s.eligibility
      /\ t.parametersConfirmedAt = s.parametersConfirmedAt
      /\ t.consentGrantedAt = s.consentGrantedAt
      /\ t.input.risk = s.input.risk /\ t.input.coverage = s.input.coverage
      /\ t.activeQuote # NoQuote <=> s.activeQuote # NoQuote
      /\ s.activeQuote # NoQuote => t.activeQuote.status = s.activeQuote.status
  BY ScrubbedOK DEF Remembers
<1> HIDE DEF t
<1>2. ConfirmedOnFile(t, conf)
  BY <1>1 DEF Remembers, ConfirmedOnFile
<1>3. StampsOrdered(t, last) /\ ConsentFresh(t, last, used)
  BY <1>1 DEF Remembers, StampsOrdered, ConsentFresh
<1>4. Remembers(t, last, conf, used)
  BY <1>1, <1>2, <1>3 DEF Remembers
<1> QED BY <1>4 DEF t

\* A quote is for what is remembered as confirmed, but for an adjusted coverage.
LEMMA RememberedQuote ==
    ASSUME NEW s, NEW last, NEW conf, NEW used, Remembers(s, last, conf, used),
           s.activeQuote # NoQuote
    PROVE  /\ s.activeQuote.input.risk = conf.risk
           /\ s.activeQuote.status = "active" =>
                 s.activeQuote.input.coverage = conf.coverage
<1>1. s.parametersConfirmedAt # 0 /\ s.eligibility = "eligible"
  BY DEF Remembers, SessionOK, GatesMatchStep, VerdictMatchesStep
<1>2. /\ s.activeQuote.input.risk = s.input.risk
      /\ s.activeQuote.input.coverage = s.input.coverage
  BY DEF Remembers, SessionOK, QuoteCurrent, TermsOf
<1> QED BY <1>1, <1>2 DEF Remembers, ConfirmedOnFile

\* Consent on file is younger than the confirmation on file.
LEMMA RememberedConsent ==
    ASSUME NEW s, NEW last, NEW conf, NEW used, Remembers(s, last, conf, used),
           s.consentGrantedAt # 0
    PROVE  s.parametersConfirmedAt # 0 /\ s.parametersConfirmedAt < s.consentGrantedAt
BY DEF Remembers, SessionOK, GatesMatchStep, StampsOrdered
=============================================================================
