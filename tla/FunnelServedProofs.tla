------------------------- MODULE FunnelServedProofs -------------------------
(***************************************************************************)
(* FunnelEngine implements Funnel, seen from the store: for any number of  *)
(* handlers, whatever they interleave and wherever they die.               *)
(***************************************************************************)
EXTENDS FunnelServed, FunnelEngineProofs

(* What an operation makes of a session *)

\* Without a stamp and without a quote.
Moves(s, t) ==
    \/ \E form \in [PropertyFields -> Values] :
          /\ MayMove(s, {"COLLECTING_PROPERTY"}, "COLLECTING_RISK")
          /\ t = Declared(s, form, "COLLECTING_RISK")
    \/ \E form \in [FactorFields -> Values] :
          /\ MayMove(s, {"COLLECTING_RISK", "COLLECTING_PROPERTY"},
                     "EVALUATING_ELIGIBILITY")
          /\ t = Declared(s, form, "EVALUATING_ELIGIBILITY")
    \/ MayEvaluate(s) /\ t = Evaluate(s)
    \/ \E form \in [CoverageFields -> Partial(Values)], email \in Partial(Emails) :
          /\ MayMove(s, {"COLLECTING_COVERAGE", "EVALUATING_ELIGIBILITY"},
                     "AWAITING_CONFIRMATION")
          /\ t = Covered(s, form, email)
    \/ \E delta \in Corrections : t = ApplyCorrection(s, delta)

Stamps(s, t, now) == \/ MayConfirm(s) /\ t = ConfirmParameters(s, now)
                     \/ MayConsent(s) /\ t = GrantConsent(s, now)

Issues(s, t, id) == \/ MayIssue(s) /\ t = Issue(s, id)
                    \/ \E form \in [CoverageFields -> Partial(Values)] :
                          MayAdjust(s) /\ t = Adjust(s, form, id)

Unissued(s, id) == \A i \in DOMAIN QuoteOrder(s) : QuoteOrder(s)[i] # id

\* With a stamp up to now that is later than the last on file, or one of the first n
\* quotes that is not on file.
Serves(s, t, last, now, n) ==
    \/ Moves(s, t)
    \/ \E stamp \in 1..now : last < stamp /\ Stamps(s, t, stamp)
    \/ \E id \in 1..n : Unissued(s, id) /\ Issues(s, t, id)

(* The inductive invariant: a handler that has the row as it is in hand is *)
(* about to write what one request makes of it.                            *)

Ready(h, now, n) ==
    IF row = NoRow THEN h.doc.session = StartedSession
    ELSE Serves(row.session, h.doc.session, stamped, now, n)

Serving(h) == h.pc \in Writing /\ h.base = row => Ready(h, clock, issued)

\* Stamps and quotes on file are ones that were handed out.
HandedOut ==
    /\ stamped \in 0..clock
    /\ \A i \in DOMAIN QuoteOrder(Stored) : QuoteOrder(Stored)[i] \in 1..issued

\* The history remembers the session on file.
Kept == Remembers(Stored, stamped, confirmed, spent)

ServedOK == HandedOut /\ Kept /\ \A r \in Requests : Serving(req[r])

\* A calculation seen by the store is on a consent no calculation used.
UsedOnce ==
    QuoteOrder(Stored)' # QuoteOrder(Stored) /\ Stored'.activeQuote.status = "active"
        => Stored.consentGrantedAt \notin spent

\* Nobody else writes over the row a handler holds: there is nobody else, or the
\* version column tells.
Guarded == (Alone /\ LoneOK) \/ (Versioned /\ VersionsOK)

-----------------------------------------------------------------------------
(* What a write is noted as, so that the history remembers it *)

\* Forms, verdicts and corrections are noted as nothing.
LEMMA MovesNoted ==
    ASSUME NEW s, Remembers(s, stamped, confirmed, spent), NEW t, Moves(s, t), Note(s, t)
    PROVE  /\ UNCHANGED <<stamped, confirmed, spent>>
           /\ QuoteOrder(t) = QuoteOrder(s)
           /\ Remembers(t, stamped, confirmed, spent)
<1>1. SessionOK(s) /\ s \in Sessions
  BY DEF Remembers, SessionOK
<1>2. ASSUME t.parametersConfirmedAt \in {0, s.parametersConfirmedAt},
             t.consentGrantedAt \in {0, s.consentGrantedAt},
             t.step = "QUOTED" => s.step = "QUOTED"
      PROVE  UNCHANGED <<stamped, confirmed, spent>>
  BY <1>2 DEF Note, Confirms, Consents, Calculates
<1>3. CASE \E delta \in Corrections : t = ApplyCorrection(s, delta)
  <2>1. PICK delta \in Corrections : t = ApplyCorrection(s, delta)
    BY <1>3
  <2>2. delta \in Inputs
    BY CorrectionInput, EngineAssumption
  <2>3. \/ Reopened(t) /\ t.step # "QUOTED"
        \/ /\ t.step = s.step
           /\ t.parametersConfirmedAt = s.parametersConfirmedAt
           /\ t.consentGrantedAt = s.consentGrantedAt
    BY <1>1, <2>1, <2>2, CorrectedOK
  <2>4. /\ t.parametersConfirmedAt \in {0, s.parametersConfirmedAt}
        /\ t.consentGrantedAt \in {0, s.consentGrantedAt}
        /\ t.step = "QUOTED" => s.step = "QUOTED"
    BY <2>3 DEF Reopened
  <2>5. Remembers(t, stamped, confirmed, spent)
    BY <2>1, <2>2, CorrectedRemembers
  <2> QED BY <1>1, <1>2, <2>1, <2>2, <2>4, <2>5, CorrectedOrder
<1>4. CASE ~\E delta \in Corrections : t = ApplyCorrection(s, delta)
  <2>1. SessionOK(t) /\ Reopened(t)
    <3>1. CASE \/ \E form \in [PropertyFields -> Values] :
                     /\ MayMove(s, {"COLLECTING_PROPERTY"}, "COLLECTING_RISK")
                     /\ t = Declared(s, form, "COLLECTING_RISK")
               \/ \E form \in [FactorFields -> Values] :
                     /\ MayMove(s, {"COLLECTING_RISK", "COLLECTING_PROPERTY"},
                                "EVALUATING_ELIGIBILITY")
                     /\ t = Declared(s, form, "EVALUATING_ELIGIBILITY")
      BY <1>1, <3>1, DeclaredOK DEF MayMove
    <3>2. CASE MayEvaluate(s) /\ t = Evaluate(s)
      BY <1>1, <3>2, EvaluatedOK
    <3>3. CASE \E form \in [CoverageFields -> Partial(Values)], email \in Partial(Emails) :
                  /\ MayMove(s, {"COLLECTING_COVERAGE", "EVALUATING_ELIGIBILITY"},
                             "AWAITING_CONFIRMATION")
                  /\ t = Covered(s, form, email)
      BY <1>1, <3>3, CoveredOK DEF MayMove, CanTransition, ALLOWED_TRANSITIONS
    <3> QED BY <1>4, <3>1, <3>2, <3>3 DEF Moves
  <2>2. t.step \notin {"READY_TO_QUOTE", "QUOTED"}
    BY <2>1 DEF SessionOK, GatesMatchStep, Reopened
  <2>3. Remembers(t, stamped, confirmed, spent)
    BY <2>1, <2>2, ReopenedRemembers
  <2>4. QuoteOrder(t) = QuoteOrder(s)
    BY <1>1, <1>4, UntouchedOrder DEF Moves
  <2> QED BY <1>2, <2>1, <2>2, <2>3, <2>4 DEF Reopened
<1> QED BY <1>3, <1>4

\* The stamps on file are not after the last one that was noted.
LEMMA StampsRemembered ==
    ASSUME NEW s, Remembers(s, stamped, confirmed, spent)
    PROVE  /\ SessionOK(s) /\ s \in Sessions
           /\ stamped \in Nat
           /\ s.parametersConfirmedAt \in Nat /\ s.parametersConfirmedAt <= stamped
           /\ s.consentGrantedAt \in Nat /\ s.consentGrantedAt <= stamped
BY DEF Remembers, SessionOK, Sessions, StampsOrdered

\* A stamp is noted, with the input when it confirms.
LEMMA ConfirmNoted ==
    ASSUME NEW s, Remembers(s, stamped, confirmed, spent), MayConfirm(s),
           NEW now \in Nat, stamped < now,
           NEW t, t = ConfirmParameters(s, now), Note(s, t)
    PROVE  /\ stamped' = now /\ confirmed' = s.input /\ UNCHANGED spent
           /\ QuoteOrder(t) = QuoteOrder(s)
           /\ Remembers(t, now, s.input, spent)
<1>1. /\ SessionOK(s) /\ s \in Sessions /\ now \in Nat \ {0}
      /\ s.parametersConfirmedAt # now
  BY StampsRemembered
<1>2. /\ SessionOK(t) /\ t.parametersConfirmedAt = now
      /\ t.consentGrantedAt = 0 /\ t.activeQuote = NoQuote
  BY <1>1, ConfirmedOK
<1>3. t.step # "QUOTED"
  BY <1>2 DEF SessionOK, GatesMatchStep
<1>4. stamped' = now /\ confirmed' = s.input /\ UNCHANGED spent
  <2>1. t.input = s.input
    BY <1>1, ConfirmedOK
  <2> QED BY <1>1, <1>2, <1>3, <2>1 DEF Note, Confirms, Calculates
<1> QED BY <1>1, <1>4, UntouchedOrder, ConfirmedRemembers

\* A stamp that consents is noted alone.
LEMMA ConsentNoted ==
    ASSUME NEW s, Remembers(s, stamped, confirmed, spent), MayConsent(s),
           NEW now \in Nat, stamped < now,
           NEW t, t = GrantConsent(s, now), Note(s, t)
    PROVE  /\ stamped' = now /\ UNCHANGED <<confirmed, spent>>
           /\ QuoteOrder(t) = QuoteOrder(s)
           /\ Remembers(t, now, confirmed, spent)
<1>1. /\ SessionOK(s) /\ s \in Sessions /\ now \in Nat \ {0}
      /\ s.consentGrantedAt # now
  BY StampsRemembered
<1>2. /\ t.step = "READY_TO_QUOTE" /\ t.consentGrantedAt = now
      /\ t.parametersConfirmedAt = s.parametersConfirmedAt
  BY <1>1, ConsentedOK
<1>3. stamped' = now /\ UNCHANGED <<confirmed, spent>>
  BY <1>1, <1>2 DEF Note, Confirms, Consents, Calculates
<1> QED BY <1>1, <1>3, UntouchedOrder, ConsentedRemembers

\* Of a calculation the consent it used is noted, and no calculation noted it before.
LEMMA IssueNoted ==
    ASSUME NEW s, Remembers(s, stamped, confirmed, spent), MayIssue(s), NEW id \in Nat,
           NEW t, t = Issue(s, id), Note(s, t)
    PROVE  /\ UNCHANGED <<stamped, confirmed>>
           /\ spent' = spent \cup {s.consentGrantedAt}
           /\ s.consentGrantedAt \notin spent
           /\ QuoteOrder(t) = Append(QuoteOrder(s), id)
           /\ Remembers(t, stamped, confirmed, spent \cup {s.consentGrantedAt})
<1>1. SessionOK(s)
  BY DEF Remembers
<1>2. /\ s.step = "READY_TO_QUOTE" /\ t.step = "QUOTED"
      /\ t.parametersConfirmedAt = s.parametersConfirmedAt
      /\ t.consentGrantedAt = s.consentGrantedAt
  BY <1>1, IssuedOK
<1>3. UNCHANGED <<stamped, confirmed>> /\ spent' = spent \cup {s.consentGrantedAt}
  BY <1>2 DEF Note, Confirms, Consents, Calculates
<1> QED BY <1>1, <1>3, IssuedOrder, IssuedRemembers

\* Of an adjustment nothing is noted, and the quote shows that it is one.
LEMMA AdjustNoted ==
    ASSUME NEW s, Remembers(s, stamped, confirmed, spent), MayAdjust(s), NEW id \in Nat,
           NEW form \in [CoverageFields -> Partial(Values)],
           NEW t, t = Adjust(s, form, id), Note(s, t)
    PROVE  /\ UNCHANGED <<stamped, confirmed, spent>>
           /\ t.activeQuote.status = "adjusted"
           /\ QuoteOrder(t) = Append(QuoteOrder(s), id)
           /\ Remembers(t, stamped, confirmed, spent)
<1>1. SessionOK(s)
  BY DEF Remembers
<1>2. s.step = "QUOTED"
  BY <1>1 DEF MayAdjust, SessionOK, GatesMatchStep
<1>3. /\ t.parametersConfirmedAt = s.parametersConfirmedAt
      /\ t.consentGrantedAt = s.consentGrantedAt
      /\ t.activeQuote.status = "adjusted"
  BY <1>1, AdjustedOK
<1>4. UNCHANGED <<stamped, confirmed, spent>>
  BY <1>2, <1>3 DEF Note, Confirms, Consents, Calculates
<1> QED BY <1>1, <1>3, <1>4, AdjustedOrder, AdjustedRemembers

-----------------------------------------------------------------------------
(* A write is one request of Funnel *)

\* Funnel serves with the operations FunnelEngine serves with.
LEMMA SamePartial ==
    ASSUME NEW S
    PROVE  Sequential!Partial(S) = Partial(S)
BY DEF Sequential!Partial, Partial

\* The moves allowed.
LEMMA SameMove ==
    ASSUME NEW s, NEW allowed, NEW to
    PROVE  Sequential!MayMove(s, allowed, to) <=> MayMove(s, allowed, to)
BY DEF Sequential!MayMove, MayMove, Sequential!CanTransition, CanTransition,
   Sequential!ALLOWED_TRANSITIONS, ALLOWED_TRANSITIONS

\* Property and risk forms.
LEMMA SameDeclared ==
    ASSUME NEW s, NEW form, NEW step
    PROVE  Sequential!Declared(s, form, step) = Declared(s, form, step)
BY DEF Sequential!Declared, Declared, Sequential!Override, Override

\* Coverage and contact forms.
LEMMA SameCovered ==
    ASSUME NEW s, NEW form, NEW email
    PROVE  Sequential!Covered(s, form, email) = Covered(s, form, email)
BY DEF Sequential!Covered, Covered, Sequential!Override, Override

\* The eligibility verdict.
LEMMA SameEvaluation ==
    ASSUME NEW s
    PROVE  /\ Sequential!MayEvaluate(s) <=> MayEvaluate(s)
           /\ Sequential!Evaluate(s) = Evaluate(s)
BY DEF Sequential!MayEvaluate, MayEvaluate, Sequential!InputsValid,
   InputsValid, Sequential!Evaluate, Evaluate, Sequential!Partial, Partial

\* When one may confirm and consent.
LEMMA SameGates ==
    ASSUME NEW s
    PROVE  /\ Sequential!MayConfirm(s) <=> MayConfirm(s)
           /\ Sequential!MayConsent(s) <=> MayConsent(s)
BY DEF Sequential!MayConfirm, MayConfirm, Sequential!MayConsent, MayConsent,
   Sequential!MayMove, MayMove, Sequential!CanTransition, CanTransition,
   Sequential!ALLOWED_TRANSITIONS, ALLOWED_TRANSITIONS

\* What confirmation and consent stamp.
LEMMA SameStamps ==
    ASSUME NEW s, NEW now
    PROVE  /\ Sequential!ConfirmParameters(s, now) = ConfirmParameters(s, now)
           /\ Sequential!GrantConsent(s, now) = GrantConsent(s, now)
BY DEF Sequential!ConfirmParameters, ConfirmParameters,
   Sequential!GrantConsent, GrantConsent

\* When a quote may be issued or adjusted.
LEMMA SameIssuing ==
    ASSUME NEW s
    PROVE  /\ Sequential!MayIssue(s) <=> MayIssue(s)
           /\ Sequential!MayAdjust(s) <=> MayAdjust(s)
BY DEF Sequential!MayIssue, MayIssue, Sequential!ReadyToQuote, ReadyToQuote,
   Sequential!InputsValid, InputsValid, Sequential!Partial, Partial,
   Sequential!CanTransition, CanTransition, Sequential!ALLOWED_TRANSITIONS,
   ALLOWED_TRANSITIONS, Sequential!MayAdjust, MayAdjust

\* The quote issued.
LEMMA SameIssue ==
    ASSUME NEW s, NEW id
    PROVE  Sequential!Issue(s, id) = Issue(s, id)
BY DEF Sequential!Issue, Issue, Sequential!NewQuote, NewQuote,
   Sequential!ValidatedInput, ValidatedInput, Sequential!Override, Override

\* The quote adjusted.
LEMMA SameAdjustment ==
    ASSUME NEW s, NEW form, NEW id
    PROVE  Sequential!Adjust(s, form, id) = Adjust(s, form, id)
BY DEF Sequential!Adjust, Adjust, Sequential!WithCoverage, WithCoverage,
   Sequential!Retired, Retired, Sequential!ValidatedInput, ValidatedInput,
   Sequential!Override, Override

\* The session corrected.
LEMMA SameCorrection ==
    ASSUME NEW s, NEW delta
    PROVE  Sequential!ApplyCorrection(s, delta) = ApplyCorrection(s, delta)
BY DEF Sequential!ApplyCorrection, ApplyCorrection, Sequential!Invalidated,
   Invalidated, Sequential!Retired, Retired, Sequential!Changed, Changed,
   Sequential!Merged, Merged, Sequential!Override, Override

\* What a request makes of the session on file is one step of Funnel, is noted as
\* what it is, and calculates on a consent no calculation used.
LEMMA TurnTaken ==
    ASSUME Inv, Inv', HandedOut, Kept, clock <= clock', issued <= issued',
           Serves(Stored, Stored', stamped, clock, issued), Note(Stored, Stored')
    PROVE  Sequential!Next /\ HandedOut' /\ Kept' /\ UsedOnce
<1> DEFINE s == Stored
           t == Stored'
<1>1. /\ SessionOK(s) /\ s \in Sessions /\ Remembers(s, stamped, confirmed, spent)
      /\ stamped \in Nat /\ clock \in Nat /\ clock' \in Nat /\ issued \in Nat
      /\ issued' \in Nat /\ stamped <= clock
      /\ clock <= MaxClock /\ issued <= MaxQuotes
      /\ MaxClock \in Nat /\ MaxQuotes \in Nat
  BY EngineAssumption, StampsRemembered DEF Inv, BooksOK, HandedOut, Kept
<1>2. /\ QuoteOrder(s) \in Seq(Nat)
      /\ \A i \in DOMAIN QuoteOrder(s) : QuoteOrder(s)[i] \in 1..issued
  BY <1>1, RetiredOrder DEF HandedOut
<1>3. ASSUME QuoteOrder(t) = QuoteOrder(s), stamped' \in 0..clock'
      PROVE  HandedOut' /\ UsedOnce
  <2>1. 1..issued \subseteq 1..issued'
    BY <1>1
  <2> QED BY <1>2, <1>3, <2>1 DEF HandedOut, UsedOnce
<1>4. CASE Moves(s, t)
  <2>1. /\ UNCHANGED <<stamped, confirmed, spent>>
        /\ QuoteOrder(t) = QuoteOrder(s)
        /\ Remembers(t, stamped, confirmed, spent)
    BY <1>1, <1>4, MovesNoted
  <2>2. Sequential!Next
    <3>1. CASE \E form \in [PropertyFields -> Values] :
                  /\ MayMove(s, {"COLLECTING_PROPERTY"}, "COLLECTING_RISK")
                  /\ t = Declared(s, form, "COLLECTING_RISK")
      BY <2>1, <3>1, SameMove, SameDeclared DEF Sequential!Next, Sequential!SubmitPropertyBasics,
                        Sequential!PropertyForms
    <3>2. CASE \E form \in [FactorFields -> Values] :
                  /\ MayMove(s, {"COLLECTING_RISK", "COLLECTING_PROPERTY"},
                             "EVALUATING_ELIGIBILITY")
                  /\ t = Declared(s, form, "EVALUATING_ELIGIBILITY")
      BY <2>1, <3>2, SameMove, SameDeclared DEF Sequential!Next, Sequential!SubmitRiskFactors,
                        Sequential!FactorForms
    <3>3. CASE MayEvaluate(s) /\ t = Evaluate(s)
      BY <2>1, <3>3, SameEvaluation DEF Sequential!Next, Sequential!EvaluateEligibility
    <3>4. CASE \E form \in [CoverageFields -> Partial(Values)], email \in Partial(Emails) :
                  /\ MayMove(s, {"COLLECTING_COVERAGE", "EVALUATING_ELIGIBILITY"},
                             "AWAITING_CONFIRMATION")
                  /\ t = Covered(s, form, email)
      BY <2>1, <3>4, SameMove, SamePartial, SameCovered DEF Sequential!Next, Sequential!SelectCoverage,
                        Sequential!CoverageForms
    <3>5. CASE \E delta \in Corrections : t = ApplyCorrection(s, delta)
      BY <2>1, <3>5, SameCorrection DEF Sequential!Next, Sequential!CorrectField
    <3> QED BY <1>4, <3>1, <3>2, <3>3, <3>4, <3>5 DEF Moves
  <2>3. stamped' \in 0..clock'
    BY <1>1, <2>1
  <2> QED BY <1>3, <2>1, <2>2, <2>3 DEF Kept
<1>5. ASSUME NEW now \in 1..clock, stamped < now, Stamps(s, t, now)
      PROVE  Sequential!Next /\ HandedOut' /\ Kept' /\ UsedOnce
  <2>1. now \in Nat /\ now \in 1..MaxClock /\ now \in 0..clock'
    BY <1>1
  <2>2. CASE MayConfirm(s) /\ t = ConfirmParameters(s, now)
    <3>1. /\ stamped' = now /\ confirmed' = s.input /\ UNCHANGED spent
          /\ QuoteOrder(t) = QuoteOrder(s)
          /\ Remembers(t, now, s.input, spent)
      BY <1>1, <1>5, <2>1, <2>2, ConfirmNoted
    <3>2. Sequential!Confirm(now)
      BY <1>5, <2>2, <3>1, SameGates, SameStamps DEF Sequential!Confirm, Sequential!Later
    <3> QED BY <1>3, <2>1, <3>1, <3>2 DEF Sequential!Next, Kept
  <2>3. CASE MayConsent(s) /\ t = GrantConsent(s, now)
    <3>1. /\ stamped' = now /\ UNCHANGED <<confirmed, spent>>
          /\ QuoteOrder(t) = QuoteOrder(s)
          /\ Remembers(t, now, confirmed, spent)
      BY <1>1, <1>5, <2>1, <2>3, ConsentNoted
    <3>2. Sequential!SubmitConsent(now)
      BY <1>5, <2>3, <3>1, SameGates, SameStamps DEF Sequential!SubmitConsent, Sequential!Later
    <3> QED BY <1>3, <2>1, <3>1, <3>2 DEF Sequential!Next, Kept
  <2> QED BY <1>5, <2>2, <2>3 DEF Stamps
<1>6. ASSUME NEW id \in 1..issued, Unissued(s, id), Issues(s, t, id)
      PROVE  Sequential!Next /\ HandedOut' /\ Kept' /\ UsedOnce
  <2>1. id \in Nat /\ id \in 1..MaxQuotes /\ id \in 1..issued'
    BY <1>1, <1>6
  <2>2. Sequential!Fresh(id)
    BY <1>6 DEF Unissued, Sequential!Fresh
  <2>3. ASSUME UNCHANGED stamped, QuoteOrder(t) = Append(QuoteOrder(s), id)
        PROVE  HandedOut'
    <3> DEFINE order == QuoteOrder(s)
    <3> HIDE DEF order
    <3>1. \A i \in DOMAIN Append(order, id) : Append(order, id)[i] \in 1..issued'
      BY <1>1, <1>2, <2>1 DEF order
    <3>2. stamped' \in 0..clock'
      BY <1>1, <2>3
    <3> QED BY <2>3, <3>1, <3>2 DEF HandedOut, order
  <2>4. CASE MayIssue(s) /\ t = Issue(s, id)
    <3>1. /\ UNCHANGED <<stamped, confirmed>>
          /\ spent' = spent \cup {s.consentGrantedAt}
          /\ s.consentGrantedAt \notin spent
          /\ QuoteOrder(t) = Append(QuoteOrder(s), id)
          /\ Remembers(t, stamped, confirmed, spent \cup {s.consentGrantedAt})
      BY <1>1, <2>1, <2>4, IssueNoted
    <3>2. Sequential!CalculateQuote(id)
      BY <2>2, <2>4, <3>1, SameIssuing, SameIssue DEF Sequential!CalculateQuote
    <3>3. Kept' /\ UsedOnce
      BY <3>1 DEF Kept, UsedOnce
    <3> QED BY <2>1, <2>3, <3>1, <3>2, <3>3 DEF Sequential!Next
  <2>5. CASE \E form \in [CoverageFields -> Partial(Values)] :
                MayAdjust(s) /\ t = Adjust(s, form, id)
    <3>1. PICK form \in [CoverageFields -> Partial(Values)] :
             MayAdjust(s) /\ t = Adjust(s, form, id)
      BY <2>5
    <3>2. /\ UNCHANGED <<stamped, confirmed, spent>>
          /\ t.activeQuote.status = "adjusted"
          /\ QuoteOrder(t) = Append(QuoteOrder(s), id)
          /\ Remembers(t, stamped, confirmed, spent)
      BY <1>1, <2>1, <3>1, AdjustNoted
    <3>3. Sequential!AdjustQuote(form, id) /\ form \in Sequential!CoverageForms
      BY <2>2, <3>1, <3>2, SamePartial, SameIssuing, SameAdjustment DEF Sequential!AdjustQuote, Sequential!CoverageForms
    <3>4. Kept' /\ UsedOnce
      BY <3>2 DEF Kept, UsedOnce
    <3> QED BY <2>1, <2>3, <3>2, <3>3, <3>4 DEF Sequential!Next
  <2> QED BY <1>6, <2>4, <2>5 DEF Issues
<1> QED BY <1>4, <1>5, <1>6 DEF Serves

-----------------------------------------------------------------------------
(* A handler that has the row in hand is ready to take its turn *)

\* What was on time stays so while stamps and quotes are handed out.
LEMMA ServesLater ==
    ASSUME NEW s, NEW t, NEW last, NEW now \in Nat, NEW n \in Nat,
           Serves(s, t, last, now, n),
           NEW later \in Nat, NEW m \in Nat, now <= later, n <= m
    PROVE  Serves(s, t, last, later, m)
<1>1. 1..now \subseteq 1..later /\ 1..n \subseteq 1..m
  OBVIOUS
<1> QED BY <1>1 DEF Serves

\* What a handler of one save holds.
LEMMA SavingHolds ==
    ASSUME row \in Documents, NEW op, NEW s, NEW version
    PROVE  LET h == Saving(op, s, version)
           IN h.pc = "save" /\ h.base = row /\ h.doc.session = s
<1> DEFINE i == Idle("none")
           doc == [row EXCEPT !.session = s, !.version = version]
           h == [i EXCEPT !.pc = "save", !.op = op, !.base = row, !.doc = doc]
<1>1. i \in Handlers
  BY IdleType DEF Codes
<1>2. doc.session = s
  BY DEF Documents
<1>3. Saving(op, s, version) = h
  BY DEF Saving
<1> HIDE DEF i, doc
<1>4. h.pc = "save" /\ h.base = row /\ h.doc = doc
  BY <1>1 DEF Handlers
<1> HIDE DEF h
<1> QED BY <1>2, <1>3, <1>4

\* Stamps and quotes are only ever handed out.
Ascending ==
    /\ clock \in Nat /\ clock' \in Nat /\ clock <= clock'
    /\ issued \in Nat /\ issued' \in Nat /\ issued <= issued'

\* The handler of r moves on, the row stays, and should it be the row the handler
\* computed from, the handler is ready.
Onward(r) ==
    /\ UNCHANGED row /\ Ascending
    /\ \E h : /\ req' = [req EXCEPT ![r] = h]
              /\ h.pc \notin Writing \/ h.base # row \/ Ready(h, clock', issued')

\* A request that has only been received read the row as it is.
LEMMA ReceiveServes ==
    ASSUME Inv, HandedOut, NEW r \in Requests, Receive(r)
    PROVE  Onward(r)
<1>1. /\ clock \in Nat /\ clock + 1 \in Nat /\ issued \in Nat
      /\ stamped \in Nat /\ stamped <= clock
  BY EngineAssumption DEF Inv, BooksOK, HandedOut
<1>2. ASSUME NEW code \in Codes, req' = [req EXCEPT ![r] = Idle(code)],
             UNCHANGED <<row, clock, issued>>
      PROVE  Onward(r)
  <2>1. Idle(code).pc \notin Writing
    BY <1>2, IdleType DEF Writing
  <2>2. Ascending
    BY <1>1, <1>2 DEF Ascending
  <2> QED BY <1>2, <2>1, <2>2 DEF Onward
<1>3. ASSUME Load(r), UNCHANGED <<row, issued>>, clock' \in {clock, clock + 1},
             NEW op, NEW s, NEW version,
             req' = [req EXCEPT ![r] = Saving(op, s, version)],
             Serves(row.session, s, stamped, clock', issued)
      PROVE  Onward(r)
  <2> DEFINE h == Saving(op, s, version)
  <2>1. row # NoRow /\ row \in Documents
    BY <1>3, LoadedOK
  <2>2. h.doc.session = s
    BY <2>1, SavingHolds
  <2>3. req' = [req EXCEPT ![r] = h]
    BY <1>3
  <2> HIDE DEF h
  <2>4. Ready(h, clock', issued')
    BY <1>3, <2>1, <2>2 DEF Ready
  <2>5. Ascending
    BY <1>1, <1>3 DEF Ascending
  <2> QED BY <1>3, <2>3, <2>4, <2>5 DEF Onward
<1>4. ASSUME NEW op, NEW may, NEW s, Handle(r, op, may, s), may => Moves(row.session, s)
      PROVE  Onward(r)
  <2>1. Load(r) /\ UNCHANGED <<row, clock, issued>>
    BY <1>4 DEF Handle
  <2>2. CASE may
    <3>1. req' = [req EXCEPT ![r] = Saving(op, s, row.version)]
      BY <1>4, <2>2 DEF Handle
    <3>2. Serves(row.session, s, stamped, clock', issued)
      BY <1>4, <2>2 DEF Serves
    <3> QED BY <1>3, <2>1, <3>1, <3>2
  <2>3. CASE ~may
    <3>1. req' = [req EXCEPT ![r] = Idle("refused")]
      BY <1>4, <2>3 DEF Handle
    <3> QED BY <1>2, <2>1, <3>1 DEF Codes
  <2> QED BY <2>2, <2>3
<1>5. CASE StartSession(r)
  <2> DEFINE i == Idle("none")
             doc == [session |-> StartedSession, version |-> 1]
             h == [i EXCEPT !.pc = "save", !.op = "startSession", !.doc = doc]
  <2>1. /\ req' = [req EXCEPT ![r] = h] /\ row = NoRow
        /\ UNCHANGED <<row, clock, issued>>
    BY <1>5 DEF StartSession
  <2>2. i \in Handlers
    BY IdleType DEF Codes
  <2>3. doc.session = StartedSession
    OBVIOUS
  <2> HIDE DEF doc, i
  <2>4. h.doc = doc
    BY <2>2 DEF Handlers
  <2> HIDE DEF h
  <2>5. Ready(h, clock', issued')
    BY <2>1, <2>3, <2>4 DEF Ready
  <2>6. Ascending
    BY <1>1, <2>1 DEF Ascending
  <2> QED BY <2>1, <2>5, <2>6 DEF Onward
<1>6. ASSUME NEW form \in [PropertyFields -> Values], SubmitPropertyBasics(r, form)
      PROVE  Onward(r)
  BY <1>4, <1>6 DEF SubmitPropertyBasics, Moves
<1>7. ASSUME NEW form \in [FactorFields -> Values], SubmitRiskFactors(r, form)
      PROVE  Onward(r)
  BY <1>4, <1>7 DEF SubmitRiskFactors, Moves
<1>8. CASE EvaluateEligibility(r)
  BY <1>4, <1>8 DEF EvaluateEligibility, Moves
<1>9. ASSUME NEW form \in [CoverageFields -> Partial(Values)],
             NEW email \in Partial(Emails), SelectCoverage(r, form, email)
      PROVE  Onward(r)
  BY <1>4, <1>9 DEF SelectCoverage, Moves
<1>10. CASE Confirm(r)
  <2> DEFINE s == ConfirmParameters(row.session, clock')
  <2>1. /\ Load(r) /\ UNCHANGED <<row, issued>> /\ clock' = clock + 1
        /\ req' = [req EXCEPT ![r] = Saving("confirmParameters", s, row.version)]
        /\ MayConfirm(row.session)
    BY <1>10 DEF Confirm
  <2>2. Stamps(row.session, s, clock') /\ clock' \in 1..clock' /\ stamped < clock'
    BY <1>1, <2>1 DEF Stamps
  <2> HIDE DEF s
  <2>3. Serves(row.session, s, stamped, clock', issued)
    BY <2>2 DEF Serves
  <2> QED BY <1>3, <2>1, <2>3
<1>11. CASE SubmitConsent(r)
  <2> DEFINE s == GrantConsent(row.session, clock')
  <2>1. /\ Load(r) /\ UNCHANGED <<row, issued>> /\ clock' = clock + 1
        /\ req' = [req EXCEPT ![r] = Saving("submitConsent", s, row.version)]
        /\ MayConsent(row.session)
    BY <1>11 DEF SubmitConsent
  <2>2. Stamps(row.session, s, clock') /\ clock' \in 1..clock' /\ stamped < clock'
    BY <1>1, <2>1 DEF Stamps
  <2> HIDE DEF s
  <2>3. Serves(row.session, s, stamped, clock', issued)
    BY <2>2 DEF Serves
  <2> QED BY <1>3, <2>1, <2>3
<1>12. ASSUME NEW delta \in Corrections, CorrectField(r, delta) PROVE Onward(r)
  <2> DEFINE s == ApplyCorrection(row.session, delta)
  <2>1. /\ Load(r) /\ UNCHANGED <<row, clock, issued>>
        /\ req' = [req EXCEPT ![r] = Saving("correctField", s, row.version + 1)]
    BY <1>12 DEF CorrectField
  <2>2. Serves(row.session, s, stamped, clock', issued)
    BY DEF Serves, Moves
  <2> HIDE DEF s
  <2> QED BY <1>3, <2>1, <2>2
<1>13. CASE \/ \E ruleVersion \in RuleVersions, key \in Keys : CalculateQuote(r, ruleVersion, key)
            \/ \E form \in Adjustments, key \in Keys : AdjustQuote(r, form, key)
  <2>1. UNCHANGED <<row, clock, issued>>
    BY <1>13 DEF CalculateQuote, AdjustQuote
  <2>2. PICK op, arg, key, code :
           \/ req' = [req EXCEPT ![r] = LookingUp(op, arg, key)]
           \/ req' = [req EXCEPT ![r] = Idle(code)] /\ code \in Codes
    BY <1>13 DEF CalculateQuote, AdjustQuote, Codes
  <2>3. CASE req' = [req EXCEPT ![r] = Idle(code)] /\ code \in Codes
    BY <1>2, <2>1, <2>3
  <2>4. CASE req' = [req EXCEPT ![r] = LookingUp(op, arg, key)]
    <3> DEFINE i == Idle("none")
               g == [i EXCEPT !.pc = "lookup", !.op = op, !.arg = arg, !.key = key,
                              !.base = row, !.doc = row]
    <3>1. i \in Handlers
      BY IdleType DEF Codes
    <3>2. req' = [req EXCEPT ![r] = g]
      BY <2>4 DEF LookingUp
    <3> HIDE DEF i
    <3>3. g.pc \notin Writing
      BY <3>1 DEF Handlers, Writing
    <3>4. Ascending
      BY <1>1, <2>1 DEF Ascending
    <3> HIDE DEF g
    <3> QED BY <2>1, <3>2, <3>3, <3>4 DEF Onward
  <2> QED BY <2>2, <2>3, <2>4
<1> QED BY <1>5, <1>6, <1>7, <1>8, <1>9, <1>10, <1>11, <1>12, <1>13 DEF Receive

\* A lookup leaves the copy alone, or makes of it a session with a quote nobody has
\* on file; the other steps between two writes of the row leave what is in hand.
LEMMA ContinueServes ==
    ASSUME Inv, ServedOK, NEW r \in Requests,
           Continue(r) \/ Crash(r), UNCHANGED row
    PROVE  Onward(r)
<1>1. /\ req \in [Requests -> Handlers] /\ req[r] \in Handlers
      /\ HandlerOK(req[r], issued, history) /\ Serving(req[r])
      /\ clock \in Nat /\ issued \in Nat /\ issued + 1 \in Nat
  BY EngineAssumption DEF Inv, HandlersOK, BooksOK, ServedOK
<1>2. ASSUME NEW h, req' = [req EXCEPT ![r] = h], UNCHANGED <<clock, issued>>,
             h.pc \notin Writing
      PROVE  Onward(r)
  <2>1. Ascending
    BY <1>1, <1>2 DEF Ascending
  <2> QED BY <1>2, <2>1 DEF Onward
<1>3. CASE Found(r)
  <2>1. UNCHANGED <<clock, issued>>
    BY <1>3 DEF Found
  <2>2. CASE RecordMatches(r)
    <3> DEFINE quote == idem[EffectiveKey(r)].quote
               h == [req[r] EXCEPT !.pc = "replay", !.quote = quote]
    <3>1. req' = [req EXCEPT ![r] = h]
      BY <1>1, <1>3, <2>2 DEF Found
    <3> HIDE DEF quote
    <3>2. h.pc \notin Writing
      BY <1>1 DEF Handlers, Writing
    <3> HIDE DEF h
    <3> QED BY <1>2, <2>1, <3>1, <3>2
  <2>3. CASE ~RecordMatches(r)
    <3>1. req' = [req EXCEPT ![r] = Idle("IDEMPOTENCY_KEY_CONFLICT")]
      BY <1>3, <2>3 DEF Found, End
    <3> QED BY <1>2, <2>1, <3>1, IdleType DEF Codes, Writing
  <2> QED BY <2>2, <2>3
<1>4. ASSUME NEW may, NEW code \in Codes, NEW s, NEW version,
             Compute(r, may, code, s, version),
             may /\ req[r].base = row =>
                Serves(row.session, s, stamped, clock, issued + 1)
      PROVE  Onward(r)
  <2>1. CASE may
    <3> DEFINE doc == [session |-> s, version |-> version]
               h == [req[r] EXCEPT !.pc = "save", !.quote = s.activeQuote, !.doc = doc]
    <3>1. /\ req' = [req EXCEPT ![r] = h]
          /\ UNCHANGED clock /\ issued' = issued + 1 /\ req[r].base # NoRow
      BY <1>1, <1>4, <2>1 DEF Compute, HandlerOK
    <3>2. doc.session = s
      OBVIOUS
    <3> HIDE DEF doc
    <3>3. h.base = req[r].base /\ h.doc = doc
      BY <1>1 DEF Handlers
    <3> HIDE DEF h
    <3>4. h.base # row \/ Ready(h, clock', issued')
      BY <1>4, <2>1, <3>1, <3>2, <3>3 DEF Ready
    <3>5. Ascending
      BY <1>1, <3>1 DEF Ascending
    <3> QED BY <3>1, <3>4, <3>5 DEF Onward
  <2>2. CASE ~may
    <3>1. req' = [req EXCEPT ![r] = Idle(code)] /\ UNCHANGED <<clock, issued>>
      BY <1>4, <2>2 DEF Compute, End
    <3> QED BY <1>2, <3>1, IdleType DEF Writing
  <2> QED BY <2>1, <2>2
<1>5. row # NoRow => Unissued(row.session, issued + 1) /\ issued + 1 \in 1..(issued + 1)
  <2> SUFFICES ASSUME row # NoRow PROVE Unissued(row.session, issued + 1)
    BY <1>1
  <2>1. \A i \in DOMAIN QuoteOrder(row.session) :
           QuoteOrder(row.session)[i] \in 1..issued
    BY DEF ServedOK, HandedOut, Stored
  <2> QED BY <1>1, <2>1 DEF Unissued
<1>6. req[r].pc = "lookup" => req[r].doc = req[r].base /\ req[r].base # NoRow
  BY <1>1 DEF HandlerOK
<1>7. CASE ComputeQuote(r)
  <2> DEFINE b == req[r].doc
             may == MayIssue(b.session)
             s == Issue(b.session, issued + 1)
  <2>1. /\ req[r].pc = "lookup"
        /\ Compute(r, may, "INVALID_STATE_TRANSITION", s, b.version)
    BY <1>7 DEF ComputeQuote, Compute
  <2>2. may /\ req[r].base = row => Serves(row.session, s, stamped, clock, issued + 1)
    BY <1>5, <1>6, <2>1 DEF Serves, Issues
  <2> HIDE DEF b, may, s
  <2> QED BY <1>4, <2>1, <2>2 DEF Codes
<1>8. CASE ComputeAdjustment(r)
  <2> DEFINE b == req[r].doc
             may == MayAdjust(b.session)
             s == Adjust(b.session, req[r].arg, issued + 1)
             version == b.version + 1
  <2>1. /\ req[r].pc = "lookup"
        /\ Compute(r, may, "INVALID_INPUT", s, version)
        /\ req[r].arg \in [CoverageFields -> Partial(Values)]
    BY <1>1, <1>8, EngineAssumption DEF ComputeAdjustment, Compute, HandlerOK
  <2>2. may /\ req[r].base = row => Serves(row.session, s, stamped, clock, issued + 1)
    BY <1>5, <1>6, <2>1 DEF Serves, Issues
  <2> HIDE DEF b, may, s, version
  <2> QED BY <1>4, <2>1, <2>2 DEF Codes
<1>9. CASE SelectVersion(r)
  <2>1. PICK pc \in {"insert", "update"} : Goto(r, pc)
    BY <1>9 DEF SelectVersion
  <2>2. PICK h : /\ req' = [req EXCEPT ![r] = h]
                 /\ SameRequest(h, req[r]) /\ h.doc = req[r].doc
    BY <2>1, GotoStep DEF Pcs
  <2>3. req[r].pc \in Writing /\ UNCHANGED <<clock, issued>>
    BY <1>9 DEF SelectVersion, Writing
  <2>4. h.base # row \/ Ready(h, clock', issued')
    BY <1>1, <2>2, <2>3 DEF SameRequest, Serving, Ready
  <2>5. Ascending
    BY <1>1, <2>3 DEF Ascending
  <2> QED BY <2>2, <2>4, <2>5 DEF Onward
<1>10. CASE SaveInMemory(r) \/ InsertRow(r) \/ UpdateRow(r)
  <2>1. PICK h : req' = [req EXCEPT ![r] = h] /\ h.pc \in {"idle", "saveQuote"}
    BY <1>10, WriteStep
  <2>2. UNCHANGED <<clock, issued>>
    BY <1>10 DEF SaveInMemory, InsertRow, UpdateRow
  <2> QED BY <1>2, <2>1, <2>2 DEF Writing
<1>11. CASE SaveQuote(r) \/ SaveRecord(r)
  <2>1. PICK pc \in {"saveRecord", "audit"} : Goto(r, pc)
    BY <1>11 DEF SaveQuote, SaveRecord
  <2>2. PICK h : req' = [req EXCEPT ![r] = h] /\ h.pc = pc
    BY <2>1, GotoStep DEF Pcs
  <2>3. UNCHANGED <<clock, issued>>
    BY <1>11 DEF SaveQuote, SaveRecord
  <2> QED BY <1>2, <2>1, <2>2, <2>3 DEF Writing
<1>12. CASE RecordEvent(r) \/ Replay(r) \/ Crash(r)
  <2>1. PICK code \in {"ok", "crashed"} : req' = [req EXCEPT ![r] = Idle(code)]
    BY <1>12 DEF RecordEvent, Replay, Answer, Crash, End
  <2>2. UNCHANGED <<clock, issued>>
    BY <1>12 DEF RecordEvent, Replay, Crash
  <2> QED BY <1>2, <2>1, <2>2, IdleType DEF Codes, Writing
<1> QED BY <1>3, <1>7, <1>8, <1>9, <1>10, <1>11, <1>12 DEF Continue

\* A write leaves nobody else with the row in hand.
LEMMA WriteOutdates ==
    ASSUME Inv, Guarded, NEW r \in Requests,
           SaveInMemory(r) \/ InsertRow(r) \/ UpdateRow(r), row' # row,
           NEW q \in Requests, q # r, req[q].pc \in Writing
    PROVE  req[q].base # row'
<1>1. Versioned /\ VersionsOK
  BY DEF Guarded, Alone
<1>2. Current(req[q], row) /\ Current(req[r], row) /\ req[q].pc # "idle"
  BY <1>1 DEF VersionsOK, Writing
<1>3. CASE InsertRow(r)
  <2>1. row = NoRow /\ InFlight(r) /\ InFlight(q)
    BY <1>2, <1>3 DEF InsertRow, InFlight
  <2> QED BY <1>1, <2>1 DEF VersionsOK
<1>4. CASE UpdateRow(r)
  <2>1. /\ req[r].pc = "update" /\ row.version = req[r].doc.version
        /\ row' = [req[r].doc EXCEPT !.version = @ + 1]
    BY <1>4 DEF UpdateRow
  <2>2. req[r].doc \in Documents /\ row # NoRow /\ row \in Documents
    BY <1>2, <2>1 DEF Inv, HandlersOK, BooksOK, HandlerOK, Handlers, Current
  <2>3. row'.version = row.version + 1 /\ row.version \in Nat
    BY <2>1, <2>2 DEF Documents
  <2>4. req[q].base # NoRow /\ req[q].base.version <= row.version
    BY <1>2, <2>2 DEF Current
  <2>5. req[q].base.version \in Nat
    BY <2>4 DEF Inv, HandlersOK, Handlers, Documents
  <2> QED BY <2>3, <2>4, <2>5
<1>5. CASE SaveInMemory(r)
  BY <1>1, <1>5 DEF Versioned, SaveInMemory
<1> QED BY <1>3, <1>4, <1>5

-----------------------------------------------------------------------------
(* Every step is one request of Funnel, or none *)

\* As long as the row stays, the store has seen nothing.
LEMMA NothingSeen ==
    ASSUME UNCHANGED row, Note(Stored, Stored')
    PROVE  UNCHANGED <<Stored, stamped, confirmed, spent>>
<1>1. Stored' = Stored
  BY DEF Stored
<1> QED BY <1>1 DEF Note, Confirms, Consents, Calculates

\* Between two writes everybody who has the row in hand stays ready.
LEMMA OnwardKeeps ==
    ASSUME Inv, ServedOK, NEW r \in Requests, Onward(r),
           UNCHANGED <<Stored, stamped, confirmed, spent>>
    PROVE  ServedOK'
<1>1. PICK h : /\ req' = [req EXCEPT ![r] = h]
               /\ h.pc \notin Writing \/ h.base # row \/ Ready(h, clock', issued')
  BY DEF Onward
<1>2. UNCHANGED <<row, stamped>> /\ Ascending
  BY DEF Onward
<1>3. HandedOut'
  <2>1. 1..issued \subseteq 1..issued' /\ 0..clock \subseteq 0..clock'
    BY <1>2 DEF Ascending
  <2> QED BY <1>2, <2>1 DEF ServedOK, HandedOut
<1>4. ASSUME NEW q \in Requests PROVE Serving(req[q])'
  <2>1. CASE q = r
    <3>1. req'[q] = h
      BY <1>1, <2>1, OthersHold
    <3> QED BY <1>1, <1>2, <3>1 DEF Serving, Ready
  <2>2. CASE q # r
    <3>1. req'[q] = req[q] /\ Serving(req[q])
      BY <1>1, <2>2, OthersHold DEF ServedOK
    <3> SUFFICES ASSUME req[q].pc \in Writing, req[q].base = row
                 PROVE  Ready(req[q], clock, issued)'
      BY <1>2, <3>1 DEF Serving
    <3>2. Ready(req[q], clock, issued)
      BY <3>1 DEF Serving
    <3>3. CASE row = NoRow
      BY <1>2, <3>1, <3>2, <3>3 DEF Ready
    <3>4. CASE row # NoRow
      <4>1. Serves(row.session, req[q].doc.session, stamped, clock, issued)
        BY <3>2, <3>4 DEF Ready
      <4>2. Serves(row.session, req[q].doc.session, stamped, clock', issued')
        BY <1>2, <4>1, ServesLater DEF Ascending
      <4> QED BY <1>2, <3>1, <3>4, <4>2 DEF Ready
    <3> QED BY <3>3, <3>4
  <2> QED BY <2>1, <2>2
<1>5. Kept'
  BY DEF ServedOK, Kept
<1> QED BY <1>3, <1>4, <1>5 DEF ServedOK

\* A write serves one request to the end, and leaves nobody else with the row in hand.
LEMMA WriteServes ==
    ASSUME Inv, Inv', ServedOK, Guarded, NEW r \in Requests, Continue(r), row' # row,
           SaveInMemory(r) \/ InsertRow(r) \/ UpdateRow(r), Note(Stored, Stored')
    PROVE  [Sequential!Next]_(Sequential!vars) /\ ServedOK' /\ UsedOnce
<1>1. PICK h : /\ req' = [req EXCEPT ![r] = h]
               /\ Due(r) /\ row' # NoRow /\ row'.session = req[r].doc.session
               /\ h.pc \in {"idle", "saveQuote"}
  BY WriteStep
<1>2. req[r].pc \in Writing /\ UNCHANGED <<clock, issued>>
  BY DEF SaveInMemory, InsertRow, UpdateRow, Writing
<1>3. req[r].base = row
  BY <1>1, TimelyWrites DEF Timely, Guarded
<1>4. Ready(req[r], clock, issued)
  BY <1>2, <1>3 DEF ServedOK, Serving
<1>5. Stored' = req[r].doc.session
  BY <1>1 DEF Stored
<1>6. clock \in Nat /\ issued \in Nat
  BY EngineAssumption DEF Inv, BooksOK
<1>7. [Sequential!Next]_(Sequential!vars) /\ HandedOut' /\ Kept' /\ UsedOnce
  <2>1. CASE row = NoRow
    <3>1. Stored' = Stored
      BY <1>4, <1>5, <2>1 DEF Stored, Ready
    <3>2. UNCHANGED <<stamped, confirmed, spent>>
      BY <3>1 DEF Note, Confirms, Consents, Calculates
    <3>3. UNCHANGED Sequential!vars
      BY <3>1, <3>2 DEF Sequential!vars
    <3>4. HandedOut' /\ Kept' /\ UsedOnce
      BY <1>2, <3>1, <3>2 DEF ServedOK, HandedOut, Kept, UsedOnce
    <3> QED BY <3>3, <3>4
  <2>2. CASE row # NoRow
    <3>1. Serves(Stored, Stored', stamped, clock, issued)
      BY <1>4, <1>5, <2>2 DEF Stored, Ready
    <3>2. clock <= clock' /\ issued <= issued'
      BY <1>2, <1>6
    <3> QED BY <3>1, <3>2, TurnTaken DEF ServedOK
  <2> QED BY <2>1, <2>2
<1>8. ASSUME NEW q \in Requests PROVE Serving(req[q])'
  <2>1. CASE q = r
    <3>1. req'[q] = h
      BY <1>1, <2>1, OthersHold
    <3> QED BY <1>1, <3>1 DEF Serving, Writing
  <2>2. CASE q # r
    <3>1. req'[q] = req[q]
      BY <1>1, <2>2, OthersHold
    <3>2. req[q].pc \in Writing => req[q].base # row'
      BY <2>2, WriteOutdates
    <3> QED BY <3>1, <3>2 DEF Serving
  <2> QED BY <2>1, <2>2
<1> QED BY <1>7, <1>8 DEF ServedOK

\* So is every step.
LEMMA ServedStep ==
    ASSUME Inv, Inv', ServedOK, Guarded, [ServedNext]_servedVars
    PROVE  [Sequential!Next]_(Sequential!vars) /\ ServedOK' /\ UsedOnce
<1>1. CASE UNCHANGED servedVars
  <2>1. UNCHANGED <<row, clock, issued, req, stamped, confirmed, spent>>
    BY <1>1 DEF servedVars
  <2>2. UNCHANGED Sequential!vars
    BY <2>1 DEF Sequential!vars, Stored
  <2>3. ServedOK'
    BY <2>1 DEF ServedOK, HandedOut, Kept, Serving, Ready, Stored
  <2>4. UsedOnce
    BY <2>1 DEF UsedOnce, Stored
  <2> QED BY <2>2, <2>3, <2>4
<1>2. CASE ServedNext /\ row' = row
  <2>1. UNCHANGED <<Stored, stamped, confirmed, spent>>
    BY <1>2, NothingSeen DEF ServedNext
  <2>2. PICK r \in Requests : Receive(r) \/ Continue(r) \/ Crash(r)
    BY <1>2 DEF ServedNext, Next
  <2>3. Onward(r)
    BY <1>2, <2>2, ReceiveServes, ContinueServes DEF ServedOK
  <2>4. UNCHANGED Sequential!vars
    BY <2>1 DEF Sequential!vars
  <2>5. UsedOnce
    BY <2>1 DEF UsedOnce
  <2> QED BY <2>1, <2>3, <2>4, <2>5, OnwardKeeps
<1>3. CASE ServedNext /\ row' # row
  <2>1. PICK r \in Requests : SaveInMemory(r) \/ InsertRow(r) \/ UpdateRow(r)
    BY <1>3, RowSaved DEF ServedNext
  <2> QED BY <1>3, <2>1, WriteServes DEF ServedNext, Continue
<1> QED BY <1>1, <1>2, <1>3

\* An engine starts with a session nobody has served yet.
LEMMA ServedStart == ServedInit => Sequential!Init /\ ServedOK
<1> SUFFICES ASSUME ServedInit PROVE Sequential!Init /\ ServedOK
  OBVIOUS
<1>1. /\ Init /\ stamped = 0 /\ confirmed = EmptyInput /\ spent = {}
      /\ Stored = StartedSession
  BY DEF ServedInit, Init, Stored
<1>2. QuoteOrder(Stored) = << >>
  BY <1>1 DEF QuoteOrder, StartedSession
<1>3. Sequential!EmptyInput = EmptyInput
  BY DEF Sequential!EmptyInput, EmptyInput, Sequential!StructuralFields, StructuralFields
<1>4. Sequential!StartedSession = StartedSession
  BY <1>3 DEF Sequential!StartedSession, StartedSession
<1>5. Sequential!Init
  BY <1>1, <1>2, <1>3, <1>4 DEF Sequential!Init
<1>6. HandedOut
  BY <1>1, <1>2 DEF HandedOut, Init, StartedSession
<1>7. Kept
  BY <1>1, StartedRemembers DEF Kept
<1>8. \A r \in Requests : req[r].pc = "idle"
  BY <1>1, IdleType DEF Init, Codes
<1> QED BY <1>5, <1>6, <1>7, <1>8 DEF ServedOK, Serving, Writing

\* In every behaviour of the engine as its store sees it, the invariant holds and
\* every step is one request of Funnel or none.
LEMMA ServedAlways ==
    ASSUME Alone \/ Versioned
    PROVE  ServedSpec => [](Inv /\ ServedOK)
                         /\ [][Sequential!Next]_(Sequential!vars)
                         /\ [][UsedOnce]_(Sequential!vars)
<1>1. ServedInit => Init /\ ServedOK
  BY ServedStart DEF ServedInit
<1>2. [ServedNext]_servedVars => [Next]_vars
  BY DEF ServedNext, servedVars, vars
<1>3. CASE Alone
  <2>1. Inv /\ LoneOK /\ ServedOK /\ [ServedNext]_servedVars
           => /\ (Inv /\ LoneOK /\ ServedOK)'
              /\ [Sequential!Next]_(Sequential!vars) /\ [UsedOnce]_(Sequential!vars)
    BY <1>2, <1>3, InvNext, LoneNext, ServedStep DEF Guarded
  <2> QED BY <1>1, <2>1, InvInit, BooksInit, PTL DEF ServedSpec
<1>4. CASE Versioned
  <2>1. Inv /\ VersionsOK /\ ServedOK /\ Inv' /\ [ServedNext]_servedVars
           => /\ ServedOK'
              /\ [Sequential!Next]_(Sequential!vars) /\ [UsedOnce]_(Sequential!vars)
    BY <1>4, ServedStep DEF Guarded
  <2>2. Spec => [](Inv /\ VersionsOK)
    BY <1>4, VersionsInvariant
  <2>3. ServedSpec => Spec
    BY <1>1, <1>2, PTL DEF ServedSpec, Spec
  <2> QED BY <1>1, <2>1, <2>2, <2>3, PTL DEF ServedSpec
<1> QED BY <1>3, <1>4

\* However handlers interleave, fail and die: what they leave on the store, write by
\* write, is what Funnel does with one request after the other.  That is so of a
\* client that waits for its answers, over either store, with corrections and
\* adjustments, and of any handlers together where the version column guards the row.
THEOREM ServedAsOne == ASSUME Alone \/ Versioned PROVE ServedSpec => ServedInTurn
<1>1. ServedSpec => Sequential!Init
  BY ServedStart, PTL DEF ServedSpec
<1> QED BY <1>1, ServedAlways, PTL DEF ServedInTurn, Sequential!Spec

-----------------------------------------------------------------------------
(* What the customer is owed                                               *)

\* The quote on file is for the risk last confirmed on the store, and for the coverage
\* unless adjustQuote changed it: no handler that was overtaken, refused or killed
\* puts other terms beside that confirmation.
THEOREM StoredAsConfirmed ==
    ASSUME Alone \/ Versioned
    PROVE  ServedSpec => []Sequential!QuotedAsConfirmed
<1>1. ServedOK => Sequential!QuotedAsConfirmed
  BY RememberedQuote DEF ServedOK, Kept, Sequential!QuotedAsConfirmed
<1> QED BY <1>1, ServedAlways, PTL

\* The consent on file was given after the confirmation on file, whichever handlers
\* stamped and saved them.
THEOREM StoredConsentInOrder ==
    ASSUME Alone \/ Versioned
    PROVE  ServedSpec => []Sequential!ConsentFollowsConfirmation
<1>1. ServedOK => Sequential!ConsentFollowsConfirmation
  BY RememberedConsent DEF ServedOK, Kept, Sequential!ConsentFollowsConfirmation
<1> QED BY <1>1, ServedAlways, PTL

\* No two quotes are calculated on one consent, not by two handlers that both found
\* the session ready, nor by one that is retried after a crash.
THEOREM StoredConsentUsedOnce ==
    ASSUME Alone \/ Versioned
    PROVE  ServedSpec => Sequential!OneQuotePerConsent
<1>1. [UsedOnce]_(Sequential!vars)
         => [QuoteOrder(Stored)' # QuoteOrder(Stored) /\ Stored'.activeQuote.status = "active"
               => Stored.consentGrantedAt \notin spent]_(Sequential!vars)
  BY DEF UsedOnce
<1> QED BY <1>1, ServedAlways, PTL DEF Sequential!OneQuotePerConsent
=============================================================================
