------------------------- MODULE FunnelEngineProofs -------------------------
(***************************************************************************)
(* Theorems about FunnelEngine, for any number of handlers, whatever they  *)
(* interleave: first what holds with both stores, crashes or not, then     *)
(* what the version column adds.                                           *)
(***************************************************************************)
EXTENDS FunnelEngine, FunnelDomainProofs

(* The inductive invariant: every session a handler can have loaded or be  *)
(* about to write is coherent, and a write in flight is a step of the      *)
(* contract away from the session it was computed from.                    *)

Writing == {"save", "insert", "update"}

Filing  == {"saveQuote", "saveRecord", "audit"}

\* n quotes are issued, and H is the quote history.
HandlerOK(h, n, H) ==
    /\ h \in Handlers
    /\ h.pc # "idle" => /\ h.code = "none"
                        /\ h.doc # NoRow
                        /\ SessionOK(h.doc.session)
    /\ h.base # NoRow => SessionOK(h.base.session)
    /\ h.pc = "lookup" => /\ h.base # NoRow
                          /\ h.doc = h.base
                          /\ h.op = "adjustQuote" => h.arg \in Adjustments
    /\ h.pc \in Writing => IF h.base = NoRow THEN Unseen(h.doc.session)
                           ELSE Follows(h.base.session, h.doc.session)
    /\ h.pc \in Writing \cup Filing /\ h.quote # NoQuote => h.quote.quoteId \in 1..n
    /\ h.pc \in Filing \cup {"replay"} => h.quote # NoQuote
    /\ h.pc \in {"saveRecord", "audit", "replay"} => h.quote \in H

BooksOK ==
    /\ row \in Documents \cup {NoRow}
    /\ row # NoRow => SessionOK(row.session)
    /\ history \subseteq Quotes
    /\ audited \subseteq 1..issued
    /\ clock \in 0..MaxClock
    /\ issued \in 0..MaxQuotes
    /\ AnswersOnFile

HandlersOK == /\ req \in [Requests -> Handlers]
              /\ \A r \in Requests : HandlerOK(req[r], issued, history)

Inv == BooksOK /\ HandlersOK

-----------------------------------------------------------------------------
(* What a step does to the handler that takes it *)

\* A handler loses nothing when quotes are issued or saved.
LEMMA HandlerKept ==
    ASSUME NEW h, NEW n \in Nat, NEW m \in Nat, n <= m, NEW H, NEW G, H \subseteq G,
           HandlerOK(h, n, H)
    PROVE  HandlerOK(h, m, G)
<1>1. ASSUME h.quote.quoteId \in 1..n PROVE h.quote.quoteId \in 1..m
  BY <1>1
<1> QED BY <1>1 DEF HandlerOK

\* One handler moves, the others hold what they held.
LEMMA OneMoves ==
    ASSUME Inv, NEW r \in Requests, NEW h,
           req' = [req EXCEPT ![r] = h],
           issued' \in Nat, issued <= issued', history \subseteq history',
           HandlerOK(h, issued', history')
    PROVE  HandlersOK'
<1>1. issued \in Nat
  BY DEF Inv, BooksOK
<1>2. req \in [Requests -> Handlers] /\ h \in Handlers
  BY DEF Inv, HandlersOK, HandlerOK
<1>3. req' \in [Requests -> Handlers]
  BY <1>2
<1>4. ASSUME NEW q \in Requests PROVE HandlerOK(req'[q], issued', history')
  <2>1. CASE q = r
    BY <1>2, <2>1
  <2>2. CASE q # r
    <3>1. req'[q] = req[q]
      BY <1>2, <2>2
    <3> QED BY <1>1, <3>1, HandlerKept DEF Inv, HandlersOK
  <2> QED BY <2>1, <2>2
<1> QED BY <1>3, <1>4 DEF HandlersOK

\* A handler that has ended holds nothing.
LEMMA IdleType ==
    ASSUME NEW code \in Codes
    PROVE  LET h == Idle(code)
           IN /\ h \in Handlers
              /\ h.pc = "idle" /\ h.code = code /\ h.arg = NoKey /\ h.key = NoKey
              /\ h.base = NoRow /\ h.doc = NoRow /\ h.quote = NoQuote
BY DEF Idle, Handlers, Pcs, Ops, Keys

\* An idle handler owes nothing.
LEMMA IdleOK ==
    ASSUME NEW code \in Codes, NEW n, NEW H
    PROVE  HandlerOK(Idle(code), n, H)
BY IdleType DEF HandlerOK, Writing, Filing

\* Ending disturbs nobody.
LEMMA EndKeeps ==
    ASSUME Inv, NEW r \in Requests, NEW code \in Codes, End(r, code),
           UNCHANGED <<issued, history>>
    PROVE  HandlersOK'
<1>1. issued \in Nat /\ issued <= issued
  BY DEF Inv, BooksOK
<1> QED BY <1>1, IdleOK, OneMoves DEF End

\* A step of a handler that ends, or of none, leaves the books alone.
LEMMA BooksKept ==
    ASSUME Inv, UNCHANGED <<row, history, idem, audited, clock, issued, answers>>
    PROVE  BooksOK'
BY DEF Inv, BooksOK, AnswersOnFile

\* Moving on with the same things in hand.
LEMMA GotoHandler ==
    ASSUME NEW h \in Handlers, NEW pc \in Pcs
    PROVE  LET g == [h EXCEPT !.pc = pc]
           IN /\ g \in Handlers /\ g.pc = pc
              /\ g.code = h.code /\ g.op = h.op /\ g.arg = h.arg /\ g.key = h.key
              /\ g.base = h.base /\ g.doc = h.doc /\ g.quote = h.quote
BY DEF Handlers

\* A request on the session on file starts with a coherent copy of it.
LEMMA LoadedOK ==
    ASSUME Inv, NEW r \in Requests, Load(r)
    PROVE  /\ row \in Documents /\ row # NoRow
           /\ SessionOK(row.session)
           /\ row.session \in Sessions /\ row.version \in Nat
BY DEF Inv, BooksOK, Load, Documents

\* What a handler holds that goes on to save session s.
LEMMA SavingOK ==
    ASSUME Inv, row \in Documents, row # NoRow, NEW op \in Ops, NEW s, SessionOK(s),
           Follows(row.session, s), NEW version \in Nat
    PROVE  /\ HandlerOK(Saving(op, s, version), issued, history)
           /\ Saving(op, s, version).base = row
           /\ Saving(op, s, version).doc.version = version
           /\ Saving(op, s, version).doc.session = s
           /\ Saving(op, s, version).doc # NoRow
           /\ Saving(op, s, version).quote = NoQuote
           /\ Saving(op, s, version).pc = "save"
<1> DEFINE h == Saving(op, s, version)
           doc == [row EXCEPT !.session = s, !.version = version]
<1>1. doc \in Documents /\ doc.session = s /\ doc.version = version
  BY DEF Documents, SessionOK
<1>2. doc # NoRow
  BY <1>1, EngineAssumption
<1>3. h = [Idle("none") EXCEPT !.pc = "save", !.op = op, !.base = row, !.doc = doc]
  BY DEF Saving
<1> HIDE DEF doc
<1>4. /\ h \in Handlers /\ h.pc = "save" /\ h.code = "none" /\ h.op = op
      /\ h.base = row /\ h.doc = doc /\ h.quote = NoQuote
  <2> DEFINE i == Idle("none")
  <2>1. /\ i \in Handlers /\ i.code = "none" /\ i.base = NoRow /\ i.quote = NoQuote
    BY IdleType DEF Codes
  <2>2. h = [i EXCEPT !.pc = "save", !.op = op, !.base = row, !.doc = doc]
    BY <1>3
  <2> HIDE DEF i, h
  <2> QED BY <1>1, <2>1, <2>2 DEF Handlers, Pcs, Ops
<1> HIDE DEF h
<1>6. HandlerOK(h, issued, history)
  <2>1. SessionOK(row.session)
    BY DEF Inv, BooksOK
  <2> QED BY <1>1, <1>2, <1>4, <2>1 DEF HandlerOK, Writing, Filing
<1> QED BY <1>1, <1>2, <1>4, <1>6 DEF h

-----------------------------------------------------------------------------
(* Every step preserves the invariant *)

\* An engine starts with an empty store.
LEMMA InvInit == Init => Inv
<1> SUFFICES ASSUME Init PROVE Inv
  OBVIOUS
<1>1. BooksOK
  BY EngineAssumption DEF Init, BooksOK, AnswersOnFile
<1>2. Idle("none") \in Handlers /\ HandlerOK(Idle("none"), issued, history)
  BY IdleOK DEF Codes, HandlerOK
<1>3. HandlersOK
  BY <1>2 DEF Init, HandlersOK
<1> QED BY <1>1, <1>3 DEF Inv

\* startSession is about to save a session that has promised nothing.
LEMMA StartSessionInv ==
    ASSUME Inv, NEW r \in Requests, StartSession(r)
    PROVE  Inv'
<1> DEFINE doc == [session |-> StartedSession, version |-> 1]
           h == [Idle("none") EXCEPT !.pc = "save", !.op = "startSession", !.doc = doc]
<1>1. req' = [req EXCEPT ![r] = h]
      /\ UNCHANGED <<row, history, idem, audited, clock, issued, answers>>
  BY DEF StartSession
<1>2. doc \in Documents /\ doc.session = StartedSession
  BY StartedOK DEF Documents, SessionOK
<1>3. doc # NoRow
  BY <1>2, EngineAssumption
<1> HIDE DEF doc
<1>4. /\ h \in Handlers /\ h.pc = "save" /\ h.code = "none" /\ h.op = "startSession"
      /\ h.base = NoRow /\ h.doc = doc /\ h.quote = NoQuote
  <2> DEFINE i == Idle("none")
  <2>1. /\ i \in Handlers /\ i.code = "none" /\ i.base = NoRow /\ i.quote = NoQuote
    BY IdleType DEF Codes
  <2>2. h = [i EXCEPT !.pc = "save", !.op = "startSession", !.doc = doc]
    OBVIOUS
  <2> HIDE DEF i, h
  <2> QED BY <1>2, <2>1, <2>2 DEF Handlers, Pcs, Ops
<1> HIDE DEF h
<1>6. HandlerOK(h, issued, history)
  BY <1>2, <1>3, <1>4, StartedOK DEF HandlerOK, Writing, Filing
<1>7. issued \in Nat /\ issued <= issued
  BY DEF Inv, BooksOK
<1> QED BY <1>1, <1>6, <1>7, OneMoves, BooksKept DEF Inv

\* A handler of one save takes a step of the contract on its copy, or is refused.
LEMMA HandleInv ==
    ASSUME Inv, NEW r \in Requests, NEW op \in Ops, NEW may, NEW s, Handle(r, op, may, s),
           may => SessionOK(s) /\ Follows(row.session, s)
    PROVE  Inv'
<1> DEFINE h == IF may THEN Saving(op, s, row.version) ELSE Idle("refused")
<1>1. /\ Load(r) /\ req' = [req EXCEPT ![r] = h]
      /\ UNCHANGED <<row, history, idem, audited, clock, issued, answers>>
  BY DEF Handle
<1>2. HandlerOK(h, issued, history)
  <2>1. CASE may
    BY <1>1, <2>1, LoadedOK, SavingOK
  <2>2. CASE ~may
    BY <2>2, IdleOK DEF Codes
  <2> QED BY <2>1, <2>2
<1> HIDE DEF h
<1>3. issued \in Nat /\ issued <= issued
  BY DEF Inv, BooksOK
<1> QED BY <1>1, <1>2, <1>3, OneMoves, BooksKept DEF Inv

\* submitPropertyBasics and submitRiskFactors.
LEMMA FormInv ==
    ASSUME Inv, NEW r \in Requests,
           NEW form, \A f \in DOMAIN form : form[f] \in Values,
           SubmitPropertyBasics(r, form) \/ SubmitRiskFactors(r, form)
    PROVE  Inv'
<1>1. Load(r) /\ SessionOK(row.session)
  BY LoadedOK DEF SubmitPropertyBasics, SubmitRiskFactors, Handle
<1>2. CASE SubmitPropertyBasics(r, form)
  <2> DEFINE may == MayMove(row.session, {"COLLECTING_PROPERTY"}, "COLLECTING_RISK")
             s == Declared(row.session, form, "COLLECTING_RISK")
  <2>1. may => SessionOK(s) /\ Follows(row.session, s)
    BY <1>1, DeclaredOK DEF MayMove
  <2>2. Handle(r, "submitPropertyBasics", may, s)
    BY <1>2 DEF SubmitPropertyBasics
  <2> HIDE DEF may, s
  <2> QED BY <2>1, <2>2, HandleInv DEF Ops
<1>3. CASE SubmitRiskFactors(r, form)
  <2> DEFINE may == MayMove(row.session, {"COLLECTING_RISK", "COLLECTING_PROPERTY"},
                            "EVALUATING_ELIGIBILITY")
             s == Declared(row.session, form, "EVALUATING_ELIGIBILITY")
  <2>1. may => SessionOK(s) /\ Follows(row.session, s)
    BY <1>1, DeclaredOK DEF MayMove
  <2>2. Handle(r, "submitRiskFactors", may, s)
    BY <1>3 DEF SubmitRiskFactors
  <2> HIDE DEF may, s
  <2> QED BY <2>1, <2>2, HandleInv DEF Ops
<1> QED BY <1>2, <1>3

\* evaluateEligibility answers for the copy it was asked about.
LEMMA EvaluateInv ==
    ASSUME Inv, NEW r \in Requests, EvaluateEligibility(r)
    PROVE  Inv'
<1> DEFINE may == MayEvaluate(row.session)
           s == Evaluate(row.session)
<1>1. may => SessionOK(s) /\ Follows(row.session, s)
  BY LoadedOK, EvaluatedOK DEF EvaluateEligibility, Handle
<1>2. Handle(r, "evaluateEligibility", may, s)
  BY DEF EvaluateEligibility
<1> HIDE DEF may, s
<1> QED BY <1>1, <1>2, HandleInv DEF Ops

\* selectCoverage, from the first check to the copy it will save.
LEMMA SelectCoverageInv ==
    ASSUME Inv, NEW r \in Requests, NEW form \in [CoverageFields -> Partial(Values)],
           NEW email \in Partial(Emails), SelectCoverage(r, form, email)
    PROVE  Inv'
<1> DEFINE may == MayMove(row.session, {"COLLECTING_COVERAGE", "EVALUATING_ELIGIBILITY"},
                          "AWAITING_CONFIRMATION")
           s == Covered(row.session, form, email)
<1>1. Load(r) /\ SessionOK(row.session)
  BY LoadedOK DEF SelectCoverage, Handle
<1>2. may => SessionOK(s) /\ Follows(row.session, s)
  <2>1. may => row.session.step = "COLLECTING_COVERAGE"
    BY DEF MayMove, CanTransition, ALLOWED_TRANSITIONS
  <2> QED BY <1>1, <2>1, CoveredOK
<1>3. Handle(r, "selectCoverage", may, s)
  BY DEF SelectCoverage
<1> HIDE DEF may, s
<1> QED BY <1>2, <1>3, HandleInv DEF Ops

\* A save of session s follows, stamped at the clock the handler has just read.
LEMMA StampInv ==
    ASSUME Inv, NEW r \in Requests, Load(r), NEW op \in Ops, NEW s, SessionOK(s),
           Follows(row.session, s), NEW version \in Nat,
           req' = [req EXCEPT ![r] = Saving(op, s, version)],
           clock' \in 0..MaxClock,
           UNCHANGED <<row, history, idem, audited, issued, answers>>
    PROVE  Inv'
<1> DEFINE h == Saving(op, s, version)
<1>1. HandlerOK(h, issued, history)
  BY LoadedOK, SavingOK
<1> HIDE DEF h
<1>2. issued \in Nat /\ issued <= issued
  BY DEF Inv, BooksOK
<1>3. HandlersOK'
  BY <1>1, <1>2, OneMoves DEF h
<1>4. BooksOK'
  BY DEF Inv, BooksOK, AnswersOnFile
<1> QED BY <1>3, <1>4 DEF Inv

\* confirmParameters and submitConsent.
LEMMA ConfirmInv ==
    ASSUME Inv, NEW r \in Requests, Confirm(r) \/ SubmitConsent(r)
    PROVE  Inv'
<1> DEFINE now == clock + 1
<1>1. /\ Load(r) /\ clock' = now
      /\ UNCHANGED <<row, history, idem, audited, issued, answers>>
  BY DEF Confirm, SubmitConsent
<1>2. now \in Nat \ {0} /\ now \in 0..MaxClock
  BY EngineAssumption DEF Inv, BooksOK, Confirm, SubmitConsent
<1>3. SessionOK(row.session) /\ row.version \in Nat
  BY <1>1, LoadedOK
<1>4. CASE Confirm(r)
  <2> DEFINE s == ConfirmParameters(row.session, now)
  <2>1. req' = [req EXCEPT ![r] = Saving("confirmParameters", s, row.version)]
    BY <1>4 DEF Confirm
  <2> HIDE DEF now
  <2>2. SessionOK(s) /\ Follows(row.session, s)
    BY <1>2, <1>3, <1>4, ConfirmedOK DEF Confirm
  <2> HIDE DEF s
  <2> QED BY <1>1, <1>2, <1>3, <2>1, <2>2, StampInv DEF Ops
<1>5. CASE SubmitConsent(r)
  <2> DEFINE s == GrantConsent(row.session, now)
  <2>1. req' = [req EXCEPT ![r] = Saving("submitConsent", s, row.version)]
    BY <1>5 DEF SubmitConsent
  <2> HIDE DEF now
  <2>2. SessionOK(s) /\ Follows(row.session, s)
    BY <1>2, <1>3, <1>5, ConsentedOK DEF SubmitConsent
  <2> HIDE DEF s
  <2> QED BY <1>1, <1>2, <1>3, <2>1, <2>2, StampInv DEF Ops
<1> QED BY <1>4, <1>5

\* correctField, whose copy is counted up before it is saved.
LEMMA CorrectFieldInv ==
    ASSUME Inv, NEW r \in Requests, NEW delta \in Corrections, CorrectField(r, delta)
    PROVE  Inv'
<1> DEFINE s == ApplyCorrection(row.session, delta)
           version == row.version + 1
<1>1. /\ Load(r)
      /\ req' = [req EXCEPT ![r] = Saving("correctField", s, version)]
      /\ UNCHANGED <<row, history, idem, audited, clock, issued, answers>>
  BY DEF CorrectField
<1>2. SessionOK(row.session) /\ version \in Nat
  BY <1>1, LoadedOK
<1>3. SessionOK(s) /\ Follows(row.session, s)
  BY <1>2, CorrectedOK, CorrectionInput, EngineAssumption
<1>4. clock' \in 0..MaxClock
  BY <1>1 DEF Inv, BooksOK
<1> HIDE DEF s, version
<1> QED BY <1>1, <1>2, <1>3, <1>4, StampInv DEF Ops

\* calculateQuote and adjustQuote look their record up with the session in hand.
LEMMA LookUpInv ==
    ASSUME Inv, NEW r \in Requests, NEW key \in Keys,
           \/ \E ruleVersion \in RuleVersions : CalculateQuote(r, ruleVersion, key)
           \/ \E form \in Adjustments : AdjustQuote(r, form, key)
    PROVE  Inv'
<1>1. PICK op \in {"calculateQuote", "adjustQuote"}, arg \in Adjustments \cup RuleVersions :
         /\ op = "adjustQuote" => arg \in Adjustments
         /\ \/ req' = [req EXCEPT ![r] = LookingUp(op, arg, key)]
            \/ req' = [req EXCEPT ![r] = Idle("refused")]
         /\ Load(r)
         /\ UNCHANGED <<row, history, idem, audited, clock, issued, answers>>
  <2>1. CASE \E ruleVersion \in RuleVersions : CalculateQuote(r, ruleVersion, key)
    BY <2>1 DEF CalculateQuote
  <2>2. CASE \E form \in Adjustments : AdjustQuote(r, form, key)
    BY <2>2 DEF AdjustQuote
  <2> QED BY <2>1, <2>2
<1> DEFINE h == LookingUp(op, arg, key)
<1>2. row \in Documents /\ row # NoRow /\ SessionOK(row.session)
  BY <1>1, LoadedOK
<1>3. /\ h \in Handlers /\ h.pc = "lookup" /\ h.code = "none" /\ h.op = op
      /\ h.base = row /\ h.doc = row /\ h.quote = NoQuote /\ h.arg = arg
  <2> DEFINE i == Idle("none")
  <2>1. /\ i \in Handlers /\ i.code = "none" /\ i.base = NoRow /\ i.quote = NoQuote
    BY IdleType DEF Codes
  <2>2. h = [i EXCEPT !.pc = "lookup", !.op = op, !.arg = arg, !.key = key,
                          !.base = row, !.doc = row]
    BY DEF LookingUp
  <2> HIDE DEF i, h
  <2> QED BY <1>2, <2>1, <2>2 DEF Handlers, Pcs, Ops
<1> HIDE DEF h
<1>4. HandlerOK(h, issued, history)
  BY <1>1, <1>2, <1>3 DEF HandlerOK, Writing, Filing
<1>5. HandlerOK(Idle("refused"), issued, history)
  BY IdleOK DEF Codes
<1>6. issued \in Nat /\ issued <= issued
  BY DEF Inv, BooksOK
<1>7. HandlersOK'
  BY <1>1, <1>4, <1>5, <1>6, OneMoves DEF h
<1> QED BY <1>1, <1>7, BooksKept DEF Inv

\* A handler that finds its record replays a quote of the history, or is refused.
LEMMA FoundInv ==
    ASSUME Inv, NEW r \in Requests, Found(r)
    PROVE  Inv'
<1>1. /\ req[r].pc = "lookup" /\ EffectiveKey(r) \in DOMAIN idem
      /\ UNCHANGED <<row, history, idem, audited, clock, issued, answers>>
  BY DEF Found
<1>2. issued \in Nat /\ issued <= issued
  BY DEF Inv, BooksOK
<1>3. req[r] \in Handlers /\ HandlerOK(req[r], issued, history)
  BY DEF Inv, HandlersOK
<1>4. CASE RecordMatches(r)
  <2> DEFINE quote == idem[EffectiveKey(r)].quote
             h == [req[r] EXCEPT !.pc = "replay", !.quote = quote]
  <2>1. req' = [req EXCEPT ![r] = h]
    BY <1>4 DEF Found, Inv, HandlersOK
  <2>2. quote \in history /\ quote \in Quotes /\ quote # NoQuote
    BY <1>1, DomainAssumption DEF Inv, BooksOK, AnswersOnFile
  <2> HIDE DEF quote
  <2>3. /\ h \in Handlers /\ h.pc = "replay" /\ h.code = req[r].code
        /\ h.base = req[r].base /\ h.doc = req[r].doc /\ h.quote = quote
    BY <1>3, <2>2 DEF Handlers, Pcs
  <2> HIDE DEF h
  <2>4. HandlerOK(h, issued, history)
    BY <1>1, <1>3, <2>2, <2>3 DEF HandlerOK, Writing, Filing
  <2>5. HandlersOK'
    BY <1>1, <1>2, <2>1, <2>4, OneMoves
  <2> QED BY <1>1, <2>5, BooksKept DEF Inv
<1>5. CASE ~RecordMatches(r)
  <2>1. End(r, "IDEMPOTENCY_KEY_CONFLICT")
    BY <1>5 DEF Found
  <2>2. HandlersOK'
    BY <1>1, <2>1, EndKeeps DEF Codes
  <2> QED BY <1>1, <2>2, BooksKept DEF Inv
<1> QED BY <1>4, <1>5

\* A handler without a record issues the next quote, or is refused.
LEMMA ComputeInv ==
    ASSUME Inv, NEW r \in Requests, NEW may, NEW code \in Codes, NEW s,
           NEW version \in Nat, Compute(r, may, code, s, version),
           may => /\ SessionOK(s) /\ Follows(req[r].base.session, s)
                  /\ s.activeQuote \in Quotes /\ s.activeQuote.quoteId = issued + 1
    PROVE  Inv'
<1>1. /\ req[r].pc = "lookup"
      /\ UNCHANGED <<row, history, idem, audited, clock, answers>>
  BY DEF Compute
<1>2. issued \in Nat /\ issued <= issued /\ audited \subseteq 1..issued
  BY DEF Inv, BooksOK
<1>3. req[r] \in Handlers /\ HandlerOK(req[r], issued, history)
  BY DEF Inv, HandlersOK
<1>4. CASE may
  <2> DEFINE doc == [session |-> s, version |-> version]
             h == [req[r] EXCEPT !.pc = "save", !.quote = s.activeQuote, !.doc = doc]
  <2>1. /\ req' = [req EXCEPT ![r] = h]
        /\ issued' = issued + 1 /\ issued < MaxQuotes
    BY <1>4 DEF Compute, Inv, HandlersOK
  <2>2. doc \in Documents /\ doc.session = s /\ doc # NoRow
    BY <1>4, EngineAssumption DEF Documents, SessionOK
  <2> HIDE DEF doc
  <2>3. /\ h \in Handlers /\ h.pc = "save" /\ h.code = req[r].code
        /\ h.base = req[r].base /\ h.doc = doc /\ h.quote = s.activeQuote
    BY <1>3, <1>4, <2>2 DEF Handlers, Pcs
  <2> HIDE DEF h
  <2>4. issued' \in Nat /\ issued <= issued' /\ issued' \in 0..MaxQuotes
        /\ s.activeQuote.quoteId \in 1..issued'
    BY <1>2, <1>4, <2>1, EngineAssumption
  <2>5. HandlerOK(h, issued', history')
    BY <1>1, <1>3, <1>4, <2>2, <2>3, <2>4 DEF HandlerOK, Writing, Filing
  <2>6. HandlersOK'
    BY <1>1, <2>1, <2>4, <2>5, OneMoves
  <2>7. audited' \subseteq 1..issued'
    BY <1>1, <1>2, <2>4
  <2>8. BooksOK'
    BY <1>1, <2>4, <2>7 DEF Inv, BooksOK, AnswersOnFile
  <2> QED BY <2>6, <2>8 DEF Inv
<1>5. CASE ~may
  <2>1. End(r, code) /\ UNCHANGED issued
    BY <1>5 DEF Compute
  <2>2. HandlersOK'
    BY <1>1, <2>1, EndKeeps
  <2> QED BY <1>1, <2>1, <2>2, BooksKept DEF Inv
<1> QED BY <1>4, <1>5

\* calculateQuote, under the key the client chose or the one derived.
LEMMA ComputeQuoteInv ==
    ASSUME Inv, NEW r \in Requests, ComputeQuote(r)
    PROVE  Inv'
<1> DEFINE doc == req[r].doc
           may == MayIssue(doc.session)
           s == Issue(doc.session, issued + 1)
<1>1. /\ req[r] \in Handlers /\ HandlerOK(req[r], issued, history)
      /\ req[r].pc = "lookup" /\ req[r].op = "calculateQuote"
      /\ issued + 1 \in Nat
  BY DEF Inv, HandlersOK, BooksOK, ComputeQuote, Compute
<1>2. doc = req[r].base /\ doc # NoRow /\ doc \in Documents /\ SessionOK(doc.session)
  BY <1>1 DEF HandlerOK, Handlers
<1>3. doc.version \in Nat
  BY <1>2 DEF Documents
<1>4. may => /\ SessionOK(s) /\ Follows(req[r].base.session, s)
             /\ s.activeQuote \in Quotes /\ s.activeQuote.quoteId = issued + 1
  BY <1>1, <1>2, IssuedOK
<1>5. Compute(r, may, "INVALID_STATE_TRANSITION", s, doc.version)
  BY DEF ComputeQuote
<1> HIDE DEF doc, may, s
<1> QED BY <1>3, <1>4, <1>5, ComputeInv DEF Codes

\* adjustQuote.
LEMMA ComputeAdjustmentInv ==
    ASSUME Inv, NEW r \in Requests, ComputeAdjustment(r)
    PROVE  Inv'
<1> DEFINE doc == req[r].doc
           may == MayAdjust(doc.session)
           s == Adjust(doc.session, req[r].arg, issued + 1)
           version == doc.version + 1
<1>1. /\ req[r] \in Handlers /\ HandlerOK(req[r], issued, history)
      /\ req[r].pc = "lookup" /\ req[r].op = "adjustQuote"
      /\ issued + 1 \in Nat
  BY DEF Inv, HandlersOK, BooksOK, ComputeAdjustment, Compute
<1>2. /\ doc = req[r].base /\ doc # NoRow /\ doc \in Documents /\ SessionOK(doc.session)
      /\ req[r].arg \in [CoverageFields -> Partial(Values)]
  BY <1>1, EngineAssumption DEF HandlerOK, Handlers
<1>3. version \in Nat
  BY <1>2 DEF Documents
<1>4. may => /\ SessionOK(s) /\ Follows(req[r].base.session, s)
             /\ s.activeQuote \in Quotes /\ s.activeQuote.quoteId = issued + 1
  BY <1>1, <1>2, AdjustedOK
<1>5. Compute(r, may, "INVALID_INPUT", s, version)
  BY DEF ComputeAdjustment
<1> HIDE DEF doc, may, s, version
<1> QED BY <1>3, <1>4, <1>5, ComputeInv DEF Codes

\* What a handler holds that moves on to pc with the same things in hand.
LEMMA MovedOn ==
    ASSUME Inv, NEW r \in Requests, NEW pc \in Pcs, Goto(r, pc),
           issued' \in Nat, issued <= issued', history \subseteq history',
           \A h : /\ HandlerOK(req[r], issued', history') /\ h \in Handlers /\ h.pc = pc
                 /\ h.code = req[r].code /\ h.op = req[r].op /\ h.arg = req[r].arg
                 /\ h.base = req[r].base /\ h.doc = req[r].doc /\ h.quote = req[r].quote
                 => HandlerOK(h, issued', history')
    PROVE  HandlersOK'
<1> DEFINE h == [req[r] EXCEPT !.pc = pc]
<1>1. /\ req[r] \in Handlers /\ HandlerOK(req[r], issued, history)
      /\ issued \in Nat
  BY DEF Inv, HandlersOK, BooksOK
<1>2. req' = [req EXCEPT ![r] = h]
  BY DEF Goto, Inv, HandlersOK
<1>3. /\ h \in Handlers /\ h.pc = pc
      /\ h.code = req[r].code /\ h.op = req[r].op /\ h.arg = req[r].arg
      /\ h.base = req[r].base /\ h.doc = req[r].doc /\ h.quote = req[r].quote
  BY <1>1, GotoHandler
<1> HIDE DEF h
<1>4. HandlerOK(req[r], issued', history')
  BY <1>1, HandlerKept
<1>5. HandlerOK(h, issued', history')
  BY <1>3, <1>4
<1> QED BY <1>2, <1>5, OneMoves

\* A handler whose session is saved has a quote to file, or is done.
LEMMA SavedKeeps ==
    ASSUME Inv, NEW r \in Requests, req[r].pc \in Writing, Saved(r),
           UNCHANGED <<issued, history>>
    PROVE  HandlersOK'
<1>1. CASE req[r].quote = NoQuote
  BY <1>1, EndKeeps DEF Saved, Codes
<1>2. CASE req[r].quote # NoQuote
  <2>1. issued' \in Nat /\ issued <= issued' /\ history \subseteq history'
    BY DEF Inv, BooksOK
  <2>2. Goto(r, "saveQuote")
    BY <1>2 DEF Saved
  <2>3. \A h : /\ HandlerOK(req[r], issued', history') /\ h \in Handlers
               /\ h.pc = "saveQuote"
               /\ h.code = req[r].code /\ h.op = req[r].op /\ h.arg = req[r].arg
               /\ h.base = req[r].base /\ h.doc = req[r].doc /\ h.quote = req[r].quote
               => HandlerOK(h, issued', history')
    BY <1>2 DEF HandlerOK, Writing, Filing
  <2> QED BY <2>1, <2>2, <2>3, MovedOn DEF Pcs
<1> QED BY <1>1, <1>2

\* saveSession writes a document a handler has in hand, if it writes.
LEMMA WriteInv ==
    ASSUME Inv, NEW r \in Requests,
           SaveInMemory(r) \/ InsertRow(r) \/ UpdateRow(r)
    PROVE  Inv'
<1>1. /\ req[r].pc \in Writing
      /\ UNCHANGED <<history, idem, audited, clock, issued, answers>>
  BY DEF SaveInMemory, InsertRow, UpdateRow, Writing
<1>2. /\ req[r].doc \in Documents /\ SessionOK(req[r].doc.session)
      /\ req[r].doc.version \in Nat
  BY <1>1 DEF Inv, HandlersOK, HandlerOK, Handlers, Documents, Writing
<1>3. /\ row' \in Documents \cup {NoRow}
      /\ row' # NoRow => SessionOK(row'.session)
  <2>1. ASSUME NEW version \in Nat
        PROVE  LET doc == [req[r].doc EXCEPT !.version = version]
               IN doc \in Documents /\ doc.session = req[r].doc.session
    BY <1>2 DEF Documents
  <2>2. CASE row' = req[r].doc
    BY <1>2, <2>2
  <2>3. CASE \E version \in Nat : row' = [req[r].doc EXCEPT !.version = version]
    BY <1>2, <2>1, <2>3
  <2>4. CASE row' = row
    BY <2>4 DEF Inv, BooksOK
  <2>5. req[r].doc.version + 1 \in Nat
    BY <1>2
  <2> QED BY <2>2, <2>3, <2>4, <2>5 DEF SaveInMemory, InsertRow, UpdateRow
<1>4. BooksOK'
  BY <1>1, <1>3 DEF Inv, BooksOK, AnswersOnFile
<1>5. HandlersOK'
  <2>1. CASE Saved(r)
    BY <1>1, <2>1, SavedKeeps
  <2>2. CASE End(r, "CONCURRENT_MODIFICATION")
    BY <1>1, <2>2, EndKeeps DEF Codes
  <2> QED BY <2>1, <2>2 DEF SaveInMemory, InsertRow, UpdateRow
<1> QED BY <1>4, <1>5 DEF Inv

\* SELECT version only chooses the statement.
LEMMA SelectVersionInv ==
    ASSUME Inv, NEW r \in Requests, SelectVersion(r)
    PROVE  Inv'
<1>1. PICK pc \in {"insert", "update"} : Goto(r, pc)
  BY DEF SelectVersion
<1>2. /\ req[r].pc = "save"
      /\ UNCHANGED <<row, history, idem, audited, clock, issued, answers>>
  BY DEF SelectVersion
<1>3. issued' \in Nat /\ issued <= issued' /\ history \subseteq history'
  BY <1>2 DEF Inv, BooksOK
<1>4. \A h : /\ HandlerOK(req[r], issued', history') /\ h \in Handlers /\ h.pc = pc
             /\ h.code = req[r].code /\ h.op = req[r].op /\ h.arg = req[r].arg
             /\ h.base = req[r].base /\ h.doc = req[r].doc /\ h.quote = req[r].quote
             => HandlerOK(h, issued', history')
  BY <1>2 DEF HandlerOK, Writing, Filing
<1>5. HandlersOK'
  BY <1>1, <1>3, <1>4, MovedOn DEF Pcs
<1> QED BY <1>2, <1>5, BooksKept DEF Inv

\* The quote joins the history before anything refers to it.
LEMMA SaveQuoteInv ==
    ASSUME Inv, NEW r \in Requests, SaveQuote(r)
    PROVE  Inv'
<1>1. /\ req[r].pc = "saveQuote" /\ Goto(r, "saveRecord")
      /\ history' = history \cup {req[r].quote}
      /\ UNCHANGED <<row, idem, audited, clock, issued, answers>>
  BY DEF SaveQuote
<1>2. req[r].quote \in Quotes
  BY <1>1 DEF Inv, HandlersOK, HandlerOK, Handlers, Filing
<1>3. issued' \in Nat /\ issued <= issued' /\ history \subseteq history'
  BY <1>1 DEF Inv, BooksOK
<1>4. \A h : /\ HandlerOK(req[r], issued', history') /\ h \in Handlers
             /\ h.pc = "saveRecord"
             /\ h.code = req[r].code /\ h.op = req[r].op /\ h.arg = req[r].arg
             /\ h.base = req[r].base /\ h.doc = req[r].doc /\ h.quote = req[r].quote
             => HandlerOK(h, issued', history')
  BY <1>1 DEF HandlerOK, Writing, Filing
<1>5. HandlersOK'
  BY <1>1, <1>3, <1>4, MovedOn DEF Pcs
<1>6. BooksOK'
  BY <1>1, <1>2, <1>3 DEF Inv, BooksOK, AnswersOnFile
<1> QED BY <1>5, <1>6 DEF Inv

\* An idempotency record names a quote that is already in the history.
LEMMA SaveRecordInv ==
    ASSUME Inv, NEW r \in Requests, SaveRecord(r)
    PROVE  Inv'
<1> DEFINE key == EffectiveKey(r)
           record == [operation |-> req[r].op, fingerprint |-> Fingerprint(r),
                      quote |-> req[r].quote]
<1>1. /\ req[r].pc = "saveRecord" /\ Goto(r, "audit")
      /\ idem' = [k \in DOMAIN idem \cup {key} |->
                     IF k \in DOMAIN idem THEN idem[k] ELSE record]
      /\ UNCHANGED <<row, history, audited, clock, issued, answers>>
  BY DEF SaveRecord
<1>2. req[r].quote \in history
  BY <1>1 DEF Inv, HandlersOK, HandlerOK
<1>3. record.quote \in history
  BY <1>2
<1> HIDE DEF key, record
<1>4. \A k \in DOMAIN idem' : idem'[k].quote \in history
  BY <1>1, <1>3 DEF Inv, BooksOK, AnswersOnFile
<1>5. issued' \in Nat /\ issued <= issued' /\ history \subseteq history'
  BY <1>1 DEF Inv, BooksOK
<1>6. \A h : /\ HandlerOK(req[r], issued', history') /\ h \in Handlers
             /\ h.pc = "audit"
             /\ h.code = req[r].code /\ h.op = req[r].op /\ h.arg = req[r].arg
             /\ h.base = req[r].base /\ h.doc = req[r].doc /\ h.quote = req[r].quote
             => HandlerOK(h, issued', history')
  BY <1>1 DEF HandlerOK, Writing, Filing
<1>7. HandlersOK'
  BY <1>1, <1>5, <1>6, MovedOn DEF Pcs
<1>8. BooksOK'
  BY <1>1, <1>4 DEF Inv, BooksOK, AnswersOnFile
<1> QED BY <1>7, <1>8 DEF Inv

\* A client is answered with a quote that is in the history.
LEMMA AnswerInv ==
    ASSUME Inv, NEW r \in Requests, RecordEvent(r) \/ Replay(r)
    PROVE  Inv'
<1>1. /\ req[r].pc \in {"audit", "replay"}
      /\ End(r, "ok")
      /\ UNCHANGED <<row, history, idem, clock, issued>>
  BY DEF RecordEvent, Replay, Answer
<1>2. req[r].quote \in history
  BY <1>1 DEF Inv, HandlersOK, HandlerOK
<1>3. \A a \in answers' : a.quote \in history
  BY <1>2 DEF RecordEvent, Replay, Answer, Inv, BooksOK, AnswersOnFile
<1>4. audited' \subseteq 1..issued
  <2>1. CASE RecordEvent(r)
    <3>1. req[r].quote.quoteId \in 1..issued
      BY <2>1 DEF RecordEvent, Inv, HandlersOK, HandlerOK, Filing
    <3> QED BY <2>1, <3>1 DEF RecordEvent, Inv, BooksOK
  <2>2. CASE Replay(r)
    BY <2>2 DEF Replay, Inv, BooksOK
  <2> QED BY <2>1, <2>2
<1>5. HandlersOK'
  BY <1>1, EndKeeps DEF Codes
<1>6. BooksOK'
  BY <1>1, <1>3, <1>4 DEF Inv, BooksOK, AnswersOnFile
<1> QED BY <1>5, <1>6 DEF Inv

\* A handler that dies leaves what it wrote.
LEMMA CrashInv ==
    ASSUME Inv, NEW r \in Requests, Crash(r)
    PROVE  Inv'
<1>1. HandlersOK'
  BY EndKeeps DEF Crash, Codes
<1> QED BY <1>1, BooksKept DEF Inv, Crash

\* Every step of every handler preserves the invariant.
LEMMA InvNext == Inv /\ [Next]_vars => Inv'
<1> SUFFICES ASSUME Inv, [Next]_vars PROVE Inv'
  OBVIOUS
<1>1. ASSUME NEW r \in Requests, Receive(r) PROVE Inv'
  <2>1. CASE StartSession(r)
    BY <2>1, StartSessionInv
  <2>2. ASSUME NEW form \in [PropertyFields -> Values], SubmitPropertyBasics(r, form)
        PROVE  Inv'
    BY <2>2, FormInv
  <2>3. ASSUME NEW form \in [FactorFields -> Values], SubmitRiskFactors(r, form)
        PROVE  Inv'
    BY <2>3, FormInv
  <2>4. CASE EvaluateEligibility(r)
    BY <2>4, EvaluateInv
  <2>5. ASSUME NEW form \in [CoverageFields -> Partial(Values)],
               NEW email \in Partial(Emails), SelectCoverage(r, form, email)
        PROVE  Inv'
    BY <2>5, SelectCoverageInv
  <2>6. CASE Confirm(r) \/ SubmitConsent(r)
    BY <2>6, ConfirmInv
  <2>7. ASSUME NEW ruleVersion \in RuleVersions, NEW key \in Keys,
               CalculateQuote(r, ruleVersion, key)
        PROVE  Inv'
    BY <2>7, LookUpInv
  <2>8. ASSUME NEW form \in Adjustments, NEW key \in Keys, AdjustQuote(r, form, key)
        PROVE  Inv'
    BY <2>8, LookUpInv
  <2>9. ASSUME NEW delta \in Corrections, CorrectField(r, delta) PROVE Inv'
    BY <2>9, CorrectFieldInv
  <2> QED BY <1>1, <2>1, <2>2, <2>3, <2>4, <2>5, <2>6, <2>7, <2>8, <2>9 DEF Receive
<1>2. ASSUME NEW r \in Requests, Continue(r) PROVE Inv'
  BY <1>2, FoundInv, ComputeQuoteInv, ComputeAdjustmentInv, WriteInv,
     SelectVersionInv, SaveQuoteInv, SaveRecordInv, AnswerInv DEF Continue
<1>3. ASSUME NEW r \in Requests, Crash(r) PROVE Inv'
  BY <1>3, CrashInv
<1>4. CASE UNCHANGED vars
  BY <1>4 DEF vars, Inv, BooksOK, HandlersOK, AnswersOnFile
<1> QED BY <1>1, <1>2, <1>3, <1>4 DEF Next

\* Whatever requests interleave, overwrite each other or die, every session on file
\* or in a handler's hands stays coherent.
THEOREM Invariance == Spec => []Inv
<1>1. Inv /\ [Next]_vars => Inv'
  BY InvNext
<1> QED BY <1>1, InvInit, PTL DEF Spec

-----------------------------------------------------------------------------
(* What follows, for both stores *)

\* The store, the books and what handlers hold stay well formed.
THEOREM TypeCorrect == Spec => []TypeOK
<1>1. Inv => TypeOK
  BY DEF Inv, BooksOK, HandlersOK, HandlerOK, AnswersOnFile, TypeOK, InFlight
<1> QED BY <1>1, Invariance, PTL

\* Whichever handler wrote last, the quote on file has everything behind it.
THEOREM QuoteGated == Spec => []StoredQuoteGate
<1>1. Inv => StoredQuoteGate
  BY CoherentQuote DEF Inv, BooksOK, StoredQuoteGate
<1> QED BY <1>1, Invariance, PTL

\* Whichever handler wrote last, the verdict on file is for the risk on file.
THEOREM VerdictNeverStale == Spec => []StoredEligibilityCurrent
<1>1. Inv => StoredEligibilityCurrent
  BY DEF Inv, BooksOK, SessionOK, StoredEligibilityCurrent
<1> QED BY <1>1, Invariance, PTL

\* No client is answered, and no retry replayed, with a quote that is not saved.
THEOREM AnsweredOnFile == Spec => []AnswersOnFile
<1>1. Inv => AnswersOnFile
  BY DEF Inv, BooksOK
<1> QED BY <1>1, Invariance, PTL

-----------------------------------------------------------------------------
(* What the version column adds, as long as the handlers leave it to the   *)
(* store: correctField and adjustQuote count it up on their copy.          *)

Versioned == Postgres /\ Corrections = {} /\ Adjustments = {}

\* Against the row d: equal versions are equal documents, and a handler writes
\* under the version it loaded.  Nothing but startSession runs without a row.
Current(h, d) ==
    h.pc # "idle" =>
        IF h.base = NoRow
        THEN d = NoRow /\ h.pc \in {"save", "insert"} /\ h.quote = NoQuote
        ELSE /\ d # NoRow
             /\ h.base.version <= d.version
             /\ h.base.version = d.version => h.base = d
             /\ h.pc # "insert"
             /\ h.pc \in {"save", "update"} => h.doc.version = h.base.version

VersionsOK ==
    /\ \A r \in Requests : Current(req[r], row)
    /\ row = NoRow => \A q, r \in Requests : InFlight(q) /\ InFlight(r) => q = r

\* One handler moves while the row stays.
LEMMA StaysCurrent ==
    ASSUME Inv, VersionsOK, NEW r \in Requests, NEW h, req' = [req EXCEPT ![r] = h],
           UNCHANGED row, Current(h, row),
           \/ h.pc = "idle" \/ InFlight(r) \/ row # NoRow
           \/ \A q \in Requests : ~InFlight(q)
    PROVE  VersionsOK'
<1>1. req \in [Requests -> Handlers]
  BY DEF Inv, HandlersOK
<1>2. req'[r] = h /\ \A q \in Requests : q # r => req'[q] = req[q]
  BY <1>1
<1>3. \A q \in Requests : Current(req'[q], row)
  BY <1>2 DEF VersionsOK
<1>4. ASSUME row = NoRow, NEW p \in Requests, NEW q \in Requests,
             req'[p].pc # "idle", req'[q].pc # "idle"
      PROVE  p = q
  BY <1>2, <1>4 DEF VersionsOK, InFlight
<1> QED BY <1>3, <1>4 DEF VersionsOK, InFlight

\* A handler that has ended is bound to nothing.
LEMMA IdleCurrent == ASSUME NEW code \in Codes, NEW d PROVE Current(Idle(code), d)
BY IdleType DEF Current

\* Ending needs no row.
LEMMA EndsCurrent ==
    ASSUME Inv, VersionsOK, NEW r \in Requests, NEW code \in Codes, End(r, code),
           UNCHANGED row
    PROVE  VersionsOK'
<1>1. Current(Idle(code), row) /\ Idle(code).pc = "idle"
  BY IdleCurrent, IdleType
<1> QED BY <1>1, StaysCurrent DEF End

\* startSession finds no row, and nobody at work.
LEMMA StartSessionCurrent ==
    ASSUME Inv, VersionsOK, NEW r \in Requests, StartSession(r)
    PROVE  VersionsOK'
<1> DEFINE doc == [session |-> StartedSession, version |-> 1]
           i == Idle("none")
           h == [i EXCEPT !.pc = "save", !.op = "startSession", !.doc = doc]
<1>1. /\ req' = [req EXCEPT ![r] = h] /\ UNCHANGED row /\ row = NoRow
      /\ \A q \in Requests : ~InFlight(q)
  BY DEF StartSession
<1>2. i \in Handlers /\ i.base = NoRow /\ i.quote = NoQuote
  BY IdleType DEF Codes
<1> HIDE DEF doc, i
<1>3. h.pc = "save" /\ h.base = NoRow /\ h.quote = NoQuote
  BY <1>2 DEF Handlers
<1> HIDE DEF h
<1>4. Current(h, row)
  BY <1>1, <1>3 DEF Current
<1> QED BY <1>1, <1>4, StaysCurrent

\* A handler that has just loaded the row is up to date.
LEMMA LoadsCurrent ==
    ASSUME Inv, VersionsOK, NEW r \in Requests, Load(r), UNCHANGED row,
           NEW h, req' = [req EXCEPT ![r] = h],
           h.base = row, h.doc.version = row.version, h.pc \in {"save", "lookup"}
    PROVE  VersionsOK'
<1>1. row # NoRow /\ row.version \in Nat
  BY LoadedOK
<1>2. Current(h, row)
  BY <1>1 DEF Current
<1> QED BY <1>1, <1>2, StaysCurrent

\* Every request but a correction or an adjustment keeps the version it loaded.
LEMMA ReceiveCurrent ==
    ASSUME Inv, VersionsOK, Versioned, NEW r \in Requests, Receive(r)
    PROVE  VersionsOK'
<1>1. CASE StartSession(r)
  BY <1>1, StartSessionCurrent
<1>2. ASSUME NEW op \in Ops, NEW may, NEW s, Handle(r, op, may, s),
             may => SessionOK(s) /\ Follows(row.session, s)
      PROVE  VersionsOK'
  <2>1. CASE may
    <3> DEFINE h == Saving(op, s, row.version)
    <3>1. Load(r) /\ UNCHANGED row /\ req' = [req EXCEPT ![r] = h]
      BY <1>2, <2>1 DEF Handle
    <3>2. h.base = row /\ h.doc.version = row.version /\ h.pc = "save"
      BY <1>2, <2>1, <3>1, LoadedOK, SavingOK
    <3> HIDE DEF h
    <3> QED BY <3>1, <3>2, LoadsCurrent
  <2>2. CASE ~may
    BY <1>2, <2>2, EndsCurrent DEF Handle, End, Codes
  <2> QED BY <2>1, <2>2
<1>3. ASSUME NEW form \in [PropertyFields -> Values], SubmitPropertyBasics(r, form)
      PROVE  VersionsOK'
  <2>1. SessionOK(row.session)
    BY <1>3, LoadedOK DEF SubmitPropertyBasics, Handle
  <2> QED BY <1>2, <1>3, <2>1, DeclaredOK DEF SubmitPropertyBasics, MayMove, Ops
<1>4. ASSUME NEW form \in [FactorFields -> Values], SubmitRiskFactors(r, form)
      PROVE  VersionsOK'
  <2>1. SessionOK(row.session)
    BY <1>4, LoadedOK DEF SubmitRiskFactors, Handle
  <2> QED BY <1>2, <1>4, <2>1, DeclaredOK DEF SubmitRiskFactors, MayMove, Ops
<1>5. CASE EvaluateEligibility(r)
  BY <1>2, <1>5, LoadedOK, EvaluatedOK DEF EvaluateEligibility, Handle, Ops
<1>6. ASSUME NEW form \in [CoverageFields -> Partial(Values)],
             NEW email \in Partial(Emails), SelectCoverage(r, form, email)
      PROVE  VersionsOK'
  <2> DEFINE may == MayMove(row.session, {"COLLECTING_COVERAGE", "EVALUATING_ELIGIBILITY"},
                            "AWAITING_CONFIRMATION")
  <2>1. SessionOK(row.session)
    BY <1>6, LoadedOK DEF SelectCoverage, Handle
  <2>2. may => row.session.step = "COLLECTING_COVERAGE"
    BY DEF MayMove, CanTransition, ALLOWED_TRANSITIONS
  <2> QED BY <1>2, <1>6, <2>1, <2>2, CoveredOK DEF SelectCoverage, Ops
<1>7. CASE Confirm(r) \/ SubmitConsent(r)
  <2>1. /\ Load(r) /\ UNCHANGED row
        /\ clock + 1 \in Nat \ {0}
    BY <1>7 DEF Confirm, SubmitConsent, Inv, BooksOK
  <2>2. PICK op \in Ops : \E s : /\ req' = [req EXCEPT ![r] = Saving(op, s, row.version)]
                                 /\ SessionOK(s) /\ Follows(row.session, s)
    <3>1. CASE Confirm(r)
      <4>1. /\ req' = [req EXCEPT ![r] = Saving("confirmParameters",
                          ConfirmParameters(row.session, clock + 1), row.version)]
            /\ MayConfirm(row.session)
        BY <3>1 DEF Confirm
      <4> QED BY <2>1, <4>1, LoadedOK, ConfirmedOK DEF Ops
    <3>2. CASE SubmitConsent(r)
      <4>1. /\ req' = [req EXCEPT ![r] = Saving("submitConsent",
                          GrantConsent(row.session, clock + 1), row.version)]
            /\ MayConsent(row.session)
        BY <3>2 DEF SubmitConsent
      <4> QED BY <2>1, <4>1, LoadedOK, ConsentedOK DEF Ops
    <3> QED BY <1>7, <3>1, <3>2
  <2>3. PICK s : /\ req' = [req EXCEPT ![r] = Saving(op, s, row.version)]
                 /\ SessionOK(s) /\ Follows(row.session, s)
    BY <2>2
  <2> DEFINE h == Saving(op, s, row.version)
  <2>4. h.base = row /\ h.doc.version = row.version /\ h.pc = "save"
    BY <2>1, <2>3, LoadedOK, SavingOK
  <2> HIDE DEF h
  <2> QED BY <2>1, <2>3, <2>4, LoadsCurrent DEF h
<1>8. ASSUME NEW ruleVersion \in RuleVersions, NEW key \in Keys,
             CalculateQuote(r, ruleVersion, key)
      PROVE  VersionsOK'
  <2> DEFINE i == Idle("none")
             h == [i EXCEPT !.pc = "lookup", !.op = "calculateQuote", !.arg = ruleVersion,
                            !.key = key, !.base = row, !.doc = row]
  <2>1. /\ Load(r) /\ UNCHANGED row
        /\ req' = [req EXCEPT ![r] = h] \/ End(r, "refused")
    BY <1>8 DEF CalculateQuote, LookingUp, End
  <2>2. i \in Handlers
    BY IdleType DEF Codes
  <2> HIDE DEF i
  <2>3. h.base = row /\ h.doc = row /\ h.pc = "lookup"
    BY <2>2 DEF Handlers
  <2> HIDE DEF h
  <2>4. CASE req' = [req EXCEPT ![r] = h]
    BY <2>1, <2>3, <2>4, LoadsCurrent
  <2>5. CASE End(r, "refused")
    BY <2>1, <2>5, EndsCurrent DEF Codes
  <2> QED BY <2>1, <2>4, <2>5
<1> QED BY <1>1, <1>3, <1>4, <1>5, <1>6, <1>7, <1>8 DEF Receive, Versioned

\* A handler that moves on, its base and the version to write under as before.
LEMMA MovesOnCurrent ==
    ASSUME Inv, VersionsOK, NEW r \in Requests, InFlight(r), UNCHANGED row,
           NEW h, req' = [req EXCEPT ![r] = h],
           h.base = req[r].base, h.pc # "idle", req[r].base # NoRow, h.pc # "insert",
           h.pc \in {"save", "update"} => h.doc.version = req[r].base.version
    PROVE  VersionsOK'
<1>1. Current(h, row)
  BY DEF VersionsOK, Current, InFlight
<1> QED BY <1>1, StaysCurrent

\* What Goto leaves.
LEMMA GotoCurrent ==
    ASSUME Inv, VersionsOK, NEW r \in Requests, InFlight(r), UNCHANGED row,
           NEW pc \in Pcs, Goto(r, pc), pc \notin {"idle", "insert"},
           req[r].base # NoRow,
           pc \in {"save", "update"} => req[r].doc.version = req[r].base.version
    PROVE  VersionsOK'
<1> DEFINE h == [req[r] EXCEPT !.pc = pc]
<1>1. req[r] \in Handlers
  BY DEF Inv, HandlersOK
<1>2. req' = [req EXCEPT ![r] = h]
  BY DEF Goto, Inv, HandlersOK
<1>3. h.pc = pc /\ h.base = req[r].base /\ h.doc = req[r].doc
  BY <1>1, GotoHandler
<1> HIDE DEF h
<1> QED BY <1>2, <1>3, MovesOnCurrent

\* What a handler between load and answer knows of its base.
LEMMA InFlightCurrent ==
    ASSUME Inv, VersionsOK, NEW r \in Requests, InFlight(r),
           req[r].pc \notin {"save", "insert"}
    PROVE  req[r].base # NoRow /\ row # NoRow
BY DEF VersionsOK, Current, InFlight

\* The lookup ends the request, or it goes on with the version it loaded.
LEMMA LookupCurrent ==
    ASSUME Inv, VersionsOK, Versioned, NEW r \in Requests,
           Found(r) \/ ComputeQuote(r) \/ ComputeAdjustment(r)
    PROVE  VersionsOK'
<1>1. /\ req[r].pc = "lookup" /\ UNCHANGED row
      /\ req[r] \in Handlers /\ HandlerOK(req[r], issued, history)
      /\ req \in [Requests -> Handlers]
  BY DEF Found, ComputeQuote, ComputeAdjustment, Compute, Inv, HandlersOK
<1>2. InFlight(r) /\ req[r].base # NoRow /\ req[r].doc = req[r].base
  BY <1>1 DEF HandlerOK, InFlight
<1>3. CASE Found(r)
  <2>1. CASE RecordMatches(r)
    <3> DEFINE quote == idem[EffectiveKey(r)].quote
               h == [req[r] EXCEPT !.pc = "replay", !.quote = quote]
    <3>1. req' = [req EXCEPT ![r] = h]
      BY <1>1, <1>3, <2>1 DEF Found
    <3> HIDE DEF quote
    <3>2. h.pc = "replay" /\ h.base = req[r].base
      BY <1>1 DEF Handlers
    <3> HIDE DEF h
    <3> QED BY <1>1, <1>2, <3>1, <3>2, MovesOnCurrent
  <2>2. CASE ~RecordMatches(r)
    BY <1>1, <1>3, <2>2, EndsCurrent DEF Found, Codes
  <2> QED BY <2>1, <2>2
<1>4. CASE ComputeQuote(r)
  <2> DEFINE s == Issue(req[r].doc.session, issued + 1)
             doc == [session |-> s, version |-> req[r].doc.version]
             h == [req[r] EXCEPT !.pc = "save", !.quote = s.activeQuote, !.doc = doc]
  <2>1. \/ req' = [req EXCEPT ![r] = h]
        \/ End(r, "INVALID_STATE_TRANSITION")
    BY <1>1, <1>4 DEF ComputeQuote, Compute
  <2>2. doc.version = req[r].base.version
    BY <1>2
  <2> HIDE DEF s, doc
  <2>3. h.pc = "save" /\ h.base = req[r].base /\ h.doc = doc
    BY <1>1 DEF Handlers
  <2> HIDE DEF h
  <2>4. CASE req' = [req EXCEPT ![r] = h]
    BY <1>1, <1>2, <2>2, <2>3, <2>4, MovesOnCurrent
  <2>5. CASE End(r, "INVALID_STATE_TRANSITION")
    BY <1>1, <2>5, EndsCurrent DEF Codes
  <2> QED BY <2>1, <2>4, <2>5
<1>5. ASSUME ComputeAdjustment(r) PROVE FALSE
  BY <1>1, <1>5 DEF ComputeAdjustment, HandlerOK, Versioned
<1> QED BY <1>3, <1>4, <1>5

\* SELECT version finds the row missing for startSession alone.
LEMMA SelectVersionCurrent ==
    ASSUME Inv, VersionsOK, NEW r \in Requests, SelectVersion(r)
    PROVE  VersionsOK'
<1>1. /\ req[r].pc = "save" /\ UNCHANGED row
      /\ req[r] \in Handlers /\ req \in [Requests -> Handlers]
  BY DEF SelectVersion, Inv, HandlersOK
<1>2. InFlight(r) /\ Current(req[r], row)
  BY <1>1 DEF InFlight, VersionsOK
<1>3. CASE row = NoRow
  <2> DEFINE h == [req[r] EXCEPT !.pc = "insert"]
  <2>1. req' = [req EXCEPT ![r] = h]
    BY <1>1, <1>3 DEF SelectVersion, Goto
  <2>2. h.pc = "insert" /\ h.base = req[r].base /\ h.quote = req[r].quote
    BY <1>1 DEF Handlers
  <2> HIDE DEF h
  <2>3. Current(h, row)
    BY <1>1, <1>2, <1>3, <2>2 DEF Current
  <2> QED BY <1>1, <1>2, <2>1, <2>3, StaysCurrent
<1>4. CASE row # NoRow
  <2>1. /\ Goto(r, "update") /\ req[r].base # NoRow
        /\ req[r].doc.version = req[r].base.version
    BY <1>1, <1>2, <1>4 DEF SelectVersion, Current
  <2> QED BY <1>1, <1>2, <2>1, GotoCurrent DEF Pcs
<1> QED BY <1>3, <1>4

\* INSERT is startSession's, and nobody else is at work.
LEMMA InsertRowCurrent ==
    ASSUME Inv, VersionsOK, NEW r \in Requests, InsertRow(r)
    PROVE  /\ VersionsOK' /\ row = NoRow /\ req[r].base = NoRow
           /\ row' # NoRow /\ Unseen(row'.session)
           /\ \A q \in Requests : q # r => req'[q] = req[q]
<1>1. /\ req[r].pc = "insert" /\ row = NoRow /\ Saved(r)
      /\ row' = [req[r].doc EXCEPT !.version = 1]
      /\ req \in [Requests -> Handlers] /\ HandlerOK(req[r], issued, history)
  BY DEF InsertRow, Inv, HandlersOK
<1>2. req[r].base = NoRow /\ req[r].quote = NoQuote
  BY <1>1 DEF VersionsOK, Current
<1>3. req' = [req EXCEPT ![r] = Idle("ok")]
  BY <1>1, <1>2 DEF Saved, End
<1>4. ASSUME NEW q \in Requests PROVE ~InFlight(q)'
  <2>1. Idle("ok").pc = "idle"
    BY IdleType DEF Codes
  <2> QED BY <1>1, <1>3, <2>1 DEF VersionsOK, InFlight
<1>5. VersionsOK'
  BY <1>4 DEF VersionsOK, Current, InFlight
<1>6. req[r].doc \in Documents /\ Unseen(req[r].doc.session)
  BY <1>1, <1>2 DEF HandlerOK, Handlers, Writing
<1>7. row' \in Documents /\ row'.session = req[r].doc.session
  BY <1>1, <1>6 DEF Documents
<1>8. row' # NoRow
  BY <1>7, EngineAssumption
<1> QED BY <1>1, <1>2, <1>3, <1>5, <1>6, <1>7, <1>8

\* UPDATE writes only over the very document the handler loaded, and outdates every
\* other copy.
LEMMA UpdateRowCurrent ==
    ASSUME Inv, VersionsOK, NEW r \in Requests, UpdateRow(r), row' # row
    PROVE  /\ VersionsOK' /\ row # NoRow /\ req[r].base = row
           /\ row' # NoRow /\ Follows(row.session, row'.session)
           /\ \A q \in Requests : q # r => req'[q] = req[q]
<1>1. /\ req[r].pc = "update" /\ row.version = req[r].doc.version /\ Saved(r)
      /\ row' = [req[r].doc EXCEPT !.version = req[r].doc.version + 1]
      /\ req \in [Requests -> Handlers] /\ HandlerOK(req[r], issued, history)
  BY DEF UpdateRow, Inv, HandlersOK
<1>2. req[r].base = row /\ row # NoRow
  BY <1>1 DEF VersionsOK, Current
<1>3. /\ row \in Documents /\ row.version \in Nat /\ req[r].doc \in Documents
      /\ Follows(row.session, req[r].doc.session)
  BY <1>1, <1>2 DEF Inv, BooksOK, HandlerOK, Handlers, Documents, Writing
<1>4. /\ row' \in Documents /\ row'.session = req[r].doc.session
      /\ row'.version = row.version + 1
  BY <1>1, <1>3 DEF Documents
<1>5. row' # NoRow
  BY <1>4, EngineAssumption
<1>6. ASSUME NEW q \in Requests, q # r
      PROVE  req'[q] = req[q] /\ Current(req'[q], row')
  <2>1. req'[q] = req[q]
    BY <1>1, <1>6 DEF Saved, End, Goto
  <2>2. req[q].base # NoRow => req[q].base.version \in Nat
    BY <1>1 DEF Handlers, Documents
  <2>3. row.version < row'.version
    BY <1>3, <1>4
  <2> HIDE DEF Handlers
  <2>4. ASSUME req[q].pc # "idle"
        PROVE  /\ req[q].base # NoRow /\ req[q].base.version < row'.version
               /\ req[q].pc # "insert"
               /\ req[q].pc \in {"save", "update"} =>
                     req[q].doc.version = req[q].base.version
    BY <1>2, <1>3, <1>4, <2>2, <2>3, <2>4 DEF VersionsOK, Current
  <2>5. Current(req[q], row')
    BY <1>3, <1>4, <1>5, <2>2, <2>4 DEF Current
  <2> QED BY <2>1, <2>5
<1>7. Current(req'[r], row')
  <2>1. CASE req[r].quote = NoQuote
    <3>1. req'[r] = Idle("ok")
      BY <1>1, <2>1 DEF Saved, End
    <3> QED BY <3>1, IdleCurrent DEF Codes
  <2>2. CASE req[r].quote # NoQuote
    <3> DEFINE h == [req[r] EXCEPT !.pc = "saveQuote"]
    <3>1. req'[r].pc = "saveQuote" /\ req'[r].base = row
      <4>1. req' = [req EXCEPT ![r] = h]
        BY <1>1, <2>2 DEF Saved, Goto
      <4>2. h.pc = "saveQuote" /\ h.base = row
        BY <1>1, <1>2, GotoHandler DEF Pcs
      <4> HIDE DEF h
      <4> QED BY <1>1, <4>1, <4>2
    <3>2. row.version < row'.version
      BY <1>3, <1>4
    <3> QED BY <1>2, <1>3, <1>4, <1>5, <3>1, <3>2 DEF Current
  <2> QED BY <2>1, <2>2
<1>8. VersionsOK'
  BY <1>5, <1>6, <1>7 DEF VersionsOK
<1> QED BY <1>2, <1>3, <1>4, <1>5, <1>6, <1>8

\* Versions and copies keep in step, whoever runs.
LEMMA VersionsNext ==
    ASSUME Inv, VersionsOK, Versioned, [Next]_vars
    PROVE  VersionsOK'
<1>1. ASSUME NEW r \in Requests, Continue(r) PROVE VersionsOK'
  <2>1. CASE Found(r) \/ ComputeQuote(r) \/ ComputeAdjustment(r)
    BY <2>1, LookupCurrent
  <2>2. ASSUME SaveInMemory(r) PROVE FALSE
    BY <2>2 DEF SaveInMemory, Versioned
  <2>3. CASE SelectVersion(r)
    BY <2>3, SelectVersionCurrent
  <2>4. CASE InsertRow(r)
    BY <2>4, InsertRowCurrent
  <2>5. CASE UpdateRow(r)
    <3>1. CASE row' # row
      BY <2>5, <3>1, UpdateRowCurrent
    <3>2. CASE row' = row /\ End(r, "CONCURRENT_MODIFICATION")
      BY <3>2, EndsCurrent DEF Codes
    <3>3. CASE row' = row /\ row.version = req[r].doc.version
      <4>1. /\ req[r].doc \in Documents
            /\ row' = [req[r].doc EXCEPT !.version = row.version + 1]
        BY <2>5, <3>3 DEF UpdateRow, Inv, HandlersOK, HandlerOK, Handlers
      <4>2. row'.version = row.version + 1 /\ req[r].doc.version \in Nat
        BY <4>1 DEF Documents
      <4> QED BY <3>3, <4>2
    <3> QED BY <2>5, <3>1, <3>2, <3>3 DEF UpdateRow
  <2>6. CASE SaveQuote(r) \/ SaveRecord(r)
    <3>1. PICK pc \in {"saveRecord", "audit"} : Goto(r, pc)
      BY <2>6 DEF SaveQuote, SaveRecord
    <3>2. InFlight(r) /\ req[r].pc \notin {"save", "insert"} /\ UNCHANGED row
      BY <2>6 DEF SaveQuote, SaveRecord, InFlight
    <3> QED BY <3>1, <3>2, InFlightCurrent, GotoCurrent DEF Pcs
  <2>7. CASE RecordEvent(r) \/ Replay(r)
    BY <2>7, EndsCurrent DEF RecordEvent, Replay, Answer, Codes
  <2> QED BY <1>1, <2>1, <2>2, <2>3, <2>4, <2>5, <2>6, <2>7 DEF Continue
<1>2. ASSUME NEW r \in Requests, Crash(r) PROVE VersionsOK'
  BY <1>2, EndsCurrent DEF Crash, Codes
<1>3. CASE UNCHANGED vars
  BY <1>3 DEF vars, VersionsOK, InFlight
<1> QED BY <1>1, <1>2, <1>3, ReceiveCurrent DEF Next

\* With the version column counted by the store alone, every copy is the row, or
\* older than the row.
THEOREM VersionsInvariant == ASSUME Versioned PROVE Spec => [](Inv /\ VersionsOK)
<1>1. Init => VersionsOK
  BY IdleType DEF Init, VersionsOK, Current, InFlight, Codes
<1>2. Inv /\ VersionsOK /\ [Next]_vars => (Inv /\ VersionsOK)'
  BY InvNext, VersionsNext
<1> QED BY <1>1, <1>2, InvInit, PTL DEF Spec

\* With PostgreSQL only InsertRow and UpdateRow write.
LEMMA RowWritten ==
    ASSUME Versioned, Next, row' # row
    PROVE  \E r \in Requests : InsertRow(r) \/ UpdateRow(r)
<1>1. ASSUME NEW r \in Requests, Receive(r) PROVE UNCHANGED row
  BY <1>1 DEF Receive, StartSession, SubmitPropertyBasics, SubmitRiskFactors,
     EvaluateEligibility, SelectCoverage, Handle, Confirm, SubmitConsent,
     CalculateQuote, AdjustQuote, CorrectField
<1>2. ASSUME NEW r \in Requests, Continue(r), ~InsertRow(r), ~UpdateRow(r)
      PROVE  UNCHANGED row
  BY <1>2 DEF Continue, Found, ComputeQuote, ComputeAdjustment, Compute, SaveInMemory,
     SelectVersion, SaveQuote, SaveRecord, RecordEvent, Replay, Versioned
<1> QED BY <1>1, <1>2 DEF Next, Crash

\* Compare-and-swap loses no write: what a handler overwrites is what it had read.
THEOREM NoWriteLost == ASSUME Versioned PROVE Spec => NoLostUpdate
<1>1. ASSUME Inv, VersionsOK, Next, row' # row, NEW r \in Requests,
             req[r].pc \in {"save", "update", "insert"},
             req'[r].pc \notin {"save", "update", "insert"}
      PROVE  row = req[r].base
  <2>1. PICK q \in Requests : InsertRow(q) \/ UpdateRow(q)
    BY <1>1, RowWritten
  <2>2. q = r
    BY <1>1, <2>1, InsertRowCurrent, UpdateRowCurrent
  <2> QED BY <1>1, <2>1, <2>2, InsertRowCurrent, UpdateRowCurrent
<1>2. Inv /\ VersionsOK /\ [Next]_vars =>
         [\A r \in Requests :
             /\ row' # row
             /\ req[r].pc \in {"save", "update", "insert"}
             /\ req'[r].pc \notin {"save", "update", "insert"}
             /\ req'[r].code \notin {"crashed", "CONCURRENT_MODIFICATION"}
             => row = req[r].base]_vars
  BY <1>1
<1> QED BY <1>2, VersionsInvariant, PTL DEF Spec, NoLostUpdate

\* A handler waiting for its UPDATE is moved on by itself alone, and not to a
\* refusal unless the row has changed under it.
LEMMA Refused ==
    ASSUME Inv, VersionsOK, Next, NEW r \in Requests, req[r].pc = "update",
           req'[r].code = "CONCURRENT_MODIFICATION"
    PROVE  row # req[r].base
<1>1. req \in [Requests -> Handlers] /\ req[r].code = "none" /\ InFlight(r)
  BY DEF Inv, HandlersOK, HandlerOK, InFlight
<1>2. ASSUME NEW q \in Requests, Receive(q) PROVE FALSE
  <2>1. ~InFlight(q)
    BY <1>2 DEF Receive, StartSession, SubmitPropertyBasics, SubmitRiskFactors,
       EvaluateEligibility, SelectCoverage, Handle, Confirm, SubmitConsent,
       CalculateQuote, AdjustQuote, CorrectField, Load
  <2>2. req'[r] = req[r]
    BY <1>1, <1>2, <2>1 DEF Receive, StartSession, SubmitPropertyBasics,
       SubmitRiskFactors, EvaluateEligibility, SelectCoverage, Handle, Confirm,
       SubmitConsent, CalculateQuote, AdjustQuote, CorrectField
  <2> QED BY <1>1, <2>2
<1>3. ASSUME NEW q \in Requests, Continue(q) \/ Crash(q) PROVE q = r
  <2>1. CASE Found(q) \/ ComputeQuote(q) \/ ComputeAdjustment(q)
    BY <1>1, <2>1 DEF Found, ComputeQuote, ComputeAdjustment, Compute, Goto, End
  <2>2. CASE SaveInMemory(q) \/ SelectVersion(q) \/ InsertRow(q) \/ UpdateRow(q)
    BY <1>1, <2>2 DEF SaveInMemory, SelectVersion, InsertRow, UpdateRow, Saved, Goto, End
  <2>3. CASE SaveQuote(q) \/ SaveRecord(q) \/ RecordEvent(q) \/ Replay(q) \/ Crash(q)
    BY <1>1, <2>3 DEF SaveQuote, SaveRecord, RecordEvent, Replay, Crash, Answer, Goto, End
  <2> QED BY <1>3, <2>1, <2>2, <2>3 DEF Continue
<1>4. UpdateRow(r)
  <2>1. ~Crash(r)
    BY <1>1, IdleType DEF Crash, End, Codes
  <2>2. Continue(r)
    BY <1>2, <1>3, <2>1 DEF Next
  <2> QED BY <2>2 DEF Continue, Found, ComputeQuote, ComputeAdjustment, Compute,
     SaveInMemory, SelectVersion, InsertRow, SaveQuote, SaveRecord, RecordEvent, Replay
<1>5. ~Saved(r)
  <2>1. CASE req[r].quote = NoQuote
    BY <1>1, <2>1, IdleType DEF Saved, End, Codes
  <2>2. CASE req[r].quote # NoQuote
    <3> DEFINE h == [req[r] EXCEPT !.pc = "saveQuote"]
    <3>1. ASSUME Saved(r) PROVE req' = [req EXCEPT ![r] = h]
      BY <1>1, <2>2, <3>1 DEF Saved, Goto
    <3>2. h.code = "none"
      BY <1>1, GotoHandler DEF Pcs
    <3> HIDE DEF h
    <3> QED BY <1>1, <3>1, <3>2
  <2> QED BY <2>1, <2>2
<1>6. row.version # req[r].doc.version
  BY <1>4, <1>5 DEF UpdateRow
<1> QED BY <1>6 DEF VersionsOK, Current

\* Nobody is told to reload a session that nobody else has written.
THEOREM ConflictsAreReal == ASSUME Versioned PROVE Spec => ConflictIsReal
<1>1. Inv /\ VersionsOK /\ [Next]_vars =>
         [\A r \in Requests :
             /\ req[r].pc = "update"
             /\ req'[r].code = "CONCURRENT_MODIFICATION"
             => row # req[r].base]_vars
  BY Refused
<1> QED BY <1>1, VersionsInvariant, PTL DEF Spec, ConflictIsReal

-----------------------------------------------------------------------------
(* What a handler holds after each of its steps *)

\* The quotes a document shows.
Shown(d) == IF d = NoRow THEN {} ELSE QuoteIds(d.session)

\* A document with a quote that stands.
Quoted(d) == d # NoRow /\ d.session.activeQuote # NoQuote

\* The record a handler looks up and saves: EffectiveKey and Fingerprint of what
\* it holds.
KeyOf(h) == IF h.op = "calculateQuote" THEN CalculateKey(h.key, h.base.version)
            ELSE AdjustKey(h.key, h.arg)

PrintOf(h) == IF h.op = "calculateQuote" THEN CalculateFingerprint(h.base.session, h.arg)
              ELSE AdjustFingerprint(h.base.session, h.arg)

\* The request and the copy it was computed from.
SameRequest(g, h) == /\ g.op = h.op /\ g.arg = h.arg /\ g.key = h.key
                     /\ g.base = h.base

\* A request keeps the key and the fingerprint of its record while it is served.
LEMMA SameRecord ==
    ASSUME NEW g, NEW h, SameRequest(g, h)
    PROVE  KeyOf(g) = KeyOf(h) /\ PrintOf(g) = PrintOf(h)
BY DEF SameRequest, KeyOf, PrintOf

\* About to save what it made of the row d; only a correction has a quote in hand.
Starting(h, d) ==
    /\ h.pc = "save" /\ h.base = d /\ h.doc # NoRow /\ h.quote = NoQuote
    /\ Shown(h.doc) = Shown(d)
    /\ Quoted(h.doc) => Quoted(d)
    /\ Quoted(d) => Corrections # {}

\* About to look its record up, with the row d in hand.
Looking(h, d) ==
    /\ h.pc = "lookup" /\ h.base = d /\ d # NoRow
    /\ h.op \in {"calculateQuote", "adjustQuote"}
    /\ h.op = "adjustQuote" => Adjustments # {}

\* A handler of one save starts from the row and shows the quotes of the row.
LEMMA SavingStarts ==
    ASSUME Inv, NEW r \in Requests, Load(r), NEW op \in Ops, NEW s, SessionOK(s),
           Follows(row.session, s), NEW version \in Nat,
           QuoteIds(s) = QuoteIds(row.session),
           s.activeQuote \in {row.session.activeQuote, NoQuote},
           row.session.activeQuote # NoQuote => Corrections # {}
    PROVE  Starting(Saving(op, s, version), row)
<1> DEFINE h == Saving(op, s, version)
<1>1. row \in Documents /\ row # NoRow
  BY LoadedOK
<1>2. /\ h.pc = "save" /\ h.base = row /\ h.doc # NoRow /\ h.quote = NoQuote
      /\ h.doc.session = s
  BY <1>1, SavingOK
<1> HIDE DEF h
<1>3. Starting(h, row)
  BY <1>1, <1>2 DEF Starting, Shown, Quoted
<1> QED BY <1>3 DEF h

\* A request has ended, or it has started from the row as it is.
Begins(r) ==
    /\ ~InFlight(r)
    /\ UNCHANGED <<row, history, idem, audited, issued, answers>>
    /\ \E h : /\ req' = [req EXCEPT ![r] = h]
              /\ h.pc = "idle" \/ Starting(h, row) \/ Looking(h, row)

\* Whatever is received, the handler begins with the row in hand and writes nothing.
LEMMA ReceiveStep ==
    ASSUME Inv, NEW r \in Requests, Receive(r)
    PROVE  Begins(r)
<1>1. \A code \in Codes : Idle(code).pc = "idle"
  BY IdleType
<1>2. ASSUME Load(r), UNCHANGED <<row, history, idem, audited, issued, answers>>,
             NEW op \in Ops, NEW s, NEW version \in Nat,
             req' = [req EXCEPT ![r] = Saving(op, s, version)],
             SessionOK(s), Follows(row.session, s),
             QuoteIds(s) = QuoteIds(row.session),
             s.activeQuote \in {row.session.activeQuote, NoQuote},
             row.session.activeQuote # NoQuote => Corrections # {}
      PROVE  Begins(r)
  BY <1>2, SavingStarts DEF Begins, Load
<1>3. ASSUME NEW op \in Ops, NEW may, NEW s, Handle(r, op, may, s),
             may => /\ SessionOK(s) /\ Follows(row.session, s)
                    /\ QuoteIds(s) = QuoteIds(row.session)
                    /\ s.activeQuote = row.session.activeQuote
                    /\ row.session.step # "QUOTED"
      PROVE  Begins(r)
  <2>1. Load(r) /\ UNCHANGED <<row, history, idem, audited, issued, answers>>
    BY <1>3 DEF Handle
  <2>2. CASE may
    <3>1. req' = [req EXCEPT ![r] = Saving(op, s, row.version)]
      BY <1>3, <2>2 DEF Handle
    <3>2. row.session.activeQuote = NoQuote
      BY <1>3, <2>1, <2>2, LoadedOK DEF SessionOK, GatesMatchStep
    <3>3. row.version \in Nat
      BY <2>1, LoadedOK
    <3> QED BY <1>2, <1>3, <2>1, <2>2, <3>1, <3>2, <3>3
  <2>3. CASE ~may
    <3>1. req' = [req EXCEPT ![r] = Idle("refused")]
      BY <1>3, <2>3 DEF Handle
    <3> QED BY <1>1, <2>1, <3>1 DEF Codes, Begins, Load
  <2> QED BY <2>2, <2>3
<1>4. CASE StartSession(r)
  <2> DEFINE i == Idle("none")
             doc == [session |-> StartedSession, version |-> 1]
             h == [i EXCEPT !.pc = "save", !.op = "startSession", !.doc = doc]
  <2>1. /\ req' = [req EXCEPT ![r] = h] /\ row = NoRow
        /\ UNCHANGED <<row, history, idem, audited, issued, answers>>
    BY <1>4 DEF StartSession
  <2>2. i \in Handlers /\ i.base = NoRow /\ i.quote = NoQuote
    BY IdleType DEF Codes
  <2>3. /\ doc \in Documents /\ doc.session = StartedSession
        /\ doc.session.activeQuote = NoQuote
        /\ QuoteIds(doc.session) = {}
    <3>1. doc \in Documents
      BY StartedOK DEF Documents, SessionOK
    <3> QED BY <3>1 DEF StartedSession, QuoteIds
  <2>4. doc # NoRow
    BY <2>3, EngineAssumption
  <2> HIDE DEF doc, i
  <2>5. h.pc = "save" /\ h.base = NoRow /\ h.doc = doc /\ h.quote = NoQuote
    BY <2>2 DEF Handlers
  <2> HIDE DEF h
  <2>6. Starting(h, row)
    BY <2>1, <2>3, <2>4, <2>5 DEF Starting, Shown, Quoted
  <2> QED BY <1>4, <2>1, <2>6 DEF Begins, StartSession
<1>5. ASSUME NEW form \in [PropertyFields -> Values], SubmitPropertyBasics(r, form)
      PROVE  Begins(r)
  <2> DEFINE may == MayMove(row.session, {"COLLECTING_PROPERTY"}, "COLLECTING_RISK")
             s == Declared(row.session, form, "COLLECTING_RISK")
  <2>1. SessionOK(row.session) /\ row.session \in Sessions
    BY <1>5, LoadedOK DEF SubmitPropertyBasics, Handle
  <2>2. may => SessionOK(s) /\ Follows(row.session, s) /\ row.session.step # "QUOTED"
    BY <2>1, DeclaredOK DEF MayMove
  <2>3. QuoteIds(s) = QuoteIds(row.session) /\ s.activeQuote = row.session.activeQuote
    BY <2>1, UntouchedQuotes DEF SameQuotesShown
  <2>4. Handle(r, "submitPropertyBasics", may, s)
    BY <1>5 DEF SubmitPropertyBasics
  <2> HIDE DEF may, s
  <2> QED BY <1>3, <2>2, <2>3, <2>4 DEF Ops
<1>6. ASSUME NEW form \in [FactorFields -> Values], SubmitRiskFactors(r, form)
      PROVE  Begins(r)
  <2> DEFINE may == MayMove(row.session, {"COLLECTING_RISK", "COLLECTING_PROPERTY"},
                            "EVALUATING_ELIGIBILITY")
             s == Declared(row.session, form, "EVALUATING_ELIGIBILITY")
  <2>1. SessionOK(row.session) /\ row.session \in Sessions
    BY <1>6, LoadedOK DEF SubmitRiskFactors, Handle
  <2>2. may => SessionOK(s) /\ Follows(row.session, s) /\ row.session.step # "QUOTED"
    BY <2>1, DeclaredOK DEF MayMove
  <2>3. QuoteIds(s) = QuoteIds(row.session) /\ s.activeQuote = row.session.activeQuote
    BY <2>1, UntouchedQuotes DEF SameQuotesShown
  <2>4. Handle(r, "submitRiskFactors", may, s)
    BY <1>6 DEF SubmitRiskFactors
  <2> HIDE DEF may, s
  <2> QED BY <1>3, <2>2, <2>3, <2>4 DEF Ops
<1>7. CASE EvaluateEligibility(r)
  <2> DEFINE may == MayEvaluate(row.session)
             s == Evaluate(row.session)
  <2>1. SessionOK(row.session) /\ row.session \in Sessions
    BY <1>7, LoadedOK DEF EvaluateEligibility, Handle
  <2>2. may => SessionOK(s) /\ Follows(row.session, s) /\ row.session.step # "QUOTED"
    BY <2>1, EvaluatedOK DEF MayEvaluate
  <2>3. QuoteIds(s) = QuoteIds(row.session) /\ s.activeQuote = row.session.activeQuote
    BY <2>1, UntouchedQuotes DEF SameQuotesShown
  <2>4. Handle(r, "evaluateEligibility", may, s)
    BY <1>7 DEF EvaluateEligibility
  <2> HIDE DEF may, s
  <2> QED BY <1>3, <2>2, <2>3, <2>4 DEF Ops
<1>8. ASSUME NEW form \in [CoverageFields -> Partial(Values)],
             NEW email \in Partial(Emails), SelectCoverage(r, form, email)
      PROVE  Begins(r)
  <2> DEFINE may == MayMove(row.session, {"COLLECTING_COVERAGE", "EVALUATING_ELIGIBILITY"},
                            "AWAITING_CONFIRMATION")
             s == Covered(row.session, form, email)
  <2>1. SessionOK(row.session) /\ row.session \in Sessions
    BY <1>8, LoadedOK DEF SelectCoverage, Handle
  <2>2. may => row.session.step = "COLLECTING_COVERAGE"
    BY DEF MayMove, CanTransition, ALLOWED_TRANSITIONS
  <2>3. may => SessionOK(s) /\ Follows(row.session, s) /\ row.session.step # "QUOTED"
    BY <2>1, <2>2, CoveredOK
  <2>4. QuoteIds(s) = QuoteIds(row.session) /\ s.activeQuote = row.session.activeQuote
    BY <2>1, UntouchedQuotes DEF SameQuotesShown
  <2>5. Handle(r, "selectCoverage", may, s)
    BY <1>8 DEF SelectCoverage
  <2> HIDE DEF may, s
  <2> QED BY <1>3, <2>3, <2>4, <2>5 DEF Ops
<1>9. CASE Confirm(r)
  <2> DEFINE s == ConfirmParameters(row.session, clock + 1)
  <2>1. /\ Load(r) /\ UNCHANGED <<row, history, idem, audited, issued, answers>>
        /\ req' = [req EXCEPT ![r] = Saving("confirmParameters", s, row.version)]
        /\ MayConfirm(row.session) /\ clock + 1 \in Nat \ {0}
    BY <1>9 DEF Confirm, Inv, BooksOK
  <2>2. SessionOK(row.session) /\ row.session \in Sessions /\ row.version \in Nat
    BY <2>1, LoadedOK
  <2>3. row.session.activeQuote = NoQuote
    BY <2>1, <2>2 DEF MayConfirm, MayMove, SessionOK, GatesMatchStep
  <2>4. SessionOK(s) /\ Follows(row.session, s)
    BY <2>1, <2>2, ConfirmedOK
  <2>5. QuoteIds(s) = QuoteIds(row.session) /\ s.activeQuote = row.session.activeQuote
    BY <2>2, UntouchedQuotes DEF SameQuotesShown
  <2> HIDE DEF s
  <2> QED BY <1>2, <2>1, <2>2, <2>3, <2>4, <2>5 DEF Ops
<1>10. CASE SubmitConsent(r)
  <2> DEFINE s == GrantConsent(row.session, clock + 1)
  <2>1. /\ Load(r) /\ UNCHANGED <<row, history, idem, audited, issued, answers>>
        /\ req' = [req EXCEPT ![r] = Saving("submitConsent", s, row.version)]
        /\ MayConsent(row.session) /\ clock + 1 \in Nat \ {0}
    BY <1>10 DEF SubmitConsent, Inv, BooksOK
  <2>2. SessionOK(row.session) /\ row.session \in Sessions /\ row.version \in Nat
    BY <2>1, LoadedOK
  <2>3. row.session.activeQuote = NoQuote
    BY <2>1, <2>2 DEF MayConsent, MayMove, SessionOK, GatesMatchStep
  <2>4. SessionOK(s) /\ Follows(row.session, s)
    BY <2>1, <2>2, ConsentedOK
  <2>5. QuoteIds(s) = QuoteIds(row.session) /\ s.activeQuote = row.session.activeQuote
    BY <2>2, UntouchedQuotes DEF SameQuotesShown
  <2> HIDE DEF s
  <2> QED BY <1>2, <2>1, <2>2, <2>3, <2>4, <2>5 DEF Ops
<1>11. ASSUME NEW delta \in Corrections, CorrectField(r, delta) PROVE Begins(r)
  <2> DEFINE s == ApplyCorrection(row.session, delta)
             version == row.version + 1
  <2>1. /\ Load(r) /\ UNCHANGED <<row, history, idem, audited, issued, answers>>
        /\ req' = [req EXCEPT ![r] = Saving("correctField", s, version)]
    BY <1>11 DEF CorrectField
  <2>2. SessionOK(row.session) /\ row.session \in Sessions /\ version \in Nat
    BY <2>1, LoadedOK
  <2>3. delta \in Inputs
    BY CorrectionInput, EngineAssumption
  <2>4. SessionOK(s) /\ Follows(row.session, s)
    BY <2>2, <2>3, CorrectedOK
  <2>5. QuoteIds(s) = QuoteIds(row.session)
        /\ s.activeQuote \in {row.session.activeQuote, NoQuote}
    BY <2>2, <2>3, CorrectedQuotes
  <2> HIDE DEF s, version
  <2> QED BY <1>2, <2>1, <2>2, <2>4, <2>5 DEF Ops
<1>12. ASSUME NEW op \in {"calculateQuote", "adjustQuote"}, NEW arg, NEW key, Load(r),
              UNCHANGED <<row, history, idem, audited, issued, answers>>,
              op = "adjustQuote" => Adjustments # {},
              \/ req' = [req EXCEPT ![r] = LookingUp(op, arg, key)]
              \/ req' = [req EXCEPT ![r] = Idle("refused")]
       PROVE  Begins(r)
  <2> DEFINE i == Idle("none")
             h == [i EXCEPT !.pc = "lookup", !.op = op, !.arg = arg, !.key = key,
                            !.base = row, !.doc = row]
  <2>1. i \in Handlers
    BY IdleType DEF Codes
  <2>2. LookingUp(op, arg, key) = h
    BY DEF LookingUp
  <2> HIDE DEF i
  <2>3. h.pc = "lookup" /\ h.op = op /\ h.base = row
    BY <2>1 DEF Handlers
  <2> HIDE DEF h
  <2>4. Looking(h, row)
    BY <1>12, <2>3, LoadedOK DEF Looking
  <2> QED BY <1>1, <1>12, <2>2, <2>4 DEF Codes, Begins, Load
<1>13. ASSUME NEW ruleVersion \in RuleVersions, NEW key \in Keys,
              CalculateQuote(r, ruleVersion, key)
       PROVE  Begins(r)
  <2>1. Load(r) /\ UNCHANGED <<row, history, idem, audited, issued, answers>>
    BY <1>13 DEF CalculateQuote
  <2>2. \/ req' = [req EXCEPT ![r] = LookingUp("calculateQuote", ruleVersion, key)]
        \/ req' = [req EXCEPT ![r] = Idle("refused")]
    BY <1>13 DEF CalculateQuote
  <2> QED BY <1>12, <2>1, <2>2
<1>14. ASSUME NEW form \in Adjustments, NEW key \in Keys, AdjustQuote(r, form, key)
       PROVE  Begins(r)
  <2>1. Load(r) /\ UNCHANGED <<row, history, idem, audited, issued, answers>>
    BY <1>14 DEF AdjustQuote
  <2>2. \/ req' = [req EXCEPT ![r] = LookingUp("adjustQuote", form, key)]
        \/ req' = [req EXCEPT ![r] = Idle("refused")]
    BY <1>14 DEF AdjustQuote
  <2> QED BY <1>12, <2>1, <2>2
<1> QED BY <1>4, <1>5, <1>6, <1>7, <1>8, <1>9, <1>10, <1>11, <1>13, <1>14 DEF Receive

\* About to replay the record g looked up.
Replaying(h, g) ==
    /\ h.pc = "replay" /\ SameRequest(h, g)
    /\ KeyOf(g) \in DOMAIN idem
    /\ idem[KeyOf(g)].operation = g.op
    /\ idem[KeyOf(g)].fingerprint = PrintOf(g)
    /\ h.quote = idem[KeyOf(g)].quote

\* About to save a quote that g found no record of: the first of its session, or an
\* adjustment of one, and shown beside the quotes of the copy g had loaded.
Issuing(h, g) ==
    /\ h.pc = "save" /\ SameRequest(h, g)
    /\ h.doc # NoRow /\ h.quote # NoQuote
    /\ h.doc.session.activeQuote = h.quote
    /\ Shown(h.doc) = Shown(g.base) \cup {h.quote.quoteId}
    /\ KeyOf(g) \notin DOMAIN idem
    /\ IF g.op = "calculateQuote"
       THEN /\ ~Quoted(g.base)
            /\ CalculateFingerprint(h.doc.session, h.arg) = PrintOf(g)
       ELSE /\ g.op = "adjustQuote"
            /\ Quoted(g.base)

\* The lookup ends the request, or finds the answer, or leads to a quote.
LEMMA LookupStep ==
    ASSUME Inv, NEW r \in Requests,
           Found(r) \/ ComputeQuote(r) \/ ComputeAdjustment(r)
    PROVE  /\ req[r].pc = "lookup"
           /\ UNCHANGED <<row, history, idem, audited, answers>>
           /\ \E h : /\ req' = [req EXCEPT ![r] = h]
                     /\ \/ h.pc = "idle"
                        \/ Replaying(h, req[r])
                        \/ Issuing(h, req[r])
<1>1. /\ req[r].pc = "lookup" /\ UNCHANGED <<row, history, idem, audited, answers>>
      /\ req[r] \in Handlers /\ HandlerOK(req[r], issued, history)
      /\ req \in [Requests -> Handlers] /\ issued + 1 \in Nat
  BY DEF Found, ComputeQuote, ComputeAdjustment, Compute, Inv, HandlersOK, BooksOK
<1>2. /\ req[r].base # NoRow /\ req[r].doc = req[r].base
      /\ req[r].base \in Documents /\ SessionOK(req[r].base.session)
  BY <1>1 DEF HandlerOK, Handlers
<1>3. EffectiveKey(r) = KeyOf(req[r]) /\ Fingerprint(r) = PrintOf(req[r])
  BY DEF EffectiveKey, Fingerprint, KeyOf, PrintOf
<1>4. \A code \in Codes : Idle(code).pc = "idle"
  BY IdleType
<1>5. CASE Found(r)
  <2>1. CASE RecordMatches(r)
    <3> DEFINE quote == idem[EffectiveKey(r)].quote
               h == [req[r] EXCEPT !.pc = "replay", !.quote = quote]
    <3>1. req' = [req EXCEPT ![r] = h]
      BY <1>1, <1>5, <2>1 DEF Found
    <3>2. /\ EffectiveKey(r) \in DOMAIN idem
          /\ idem[EffectiveKey(r)].operation = req[r].op
          /\ idem[EffectiveKey(r)].fingerprint = Fingerprint(r)
      BY <1>5, <2>1 DEF Found, RecordMatches
    <3> HIDE DEF quote
    <3>3. h.pc = "replay" /\ SameRequest(h, req[r]) /\ h.quote = quote
      BY <1>1 DEF Handlers, SameRequest
    <3> HIDE DEF h
    <3>4. Replaying(h, req[r])
      BY <1>3, <3>2, <3>3 DEF Replaying, quote
    <3> QED BY <1>1, <3>1, <3>4
  <2>2. CASE ~RecordMatches(r)
    BY <1>1, <1>4, <1>5, <2>2 DEF Found, End, Codes
  <2> QED BY <2>1, <2>2
<1>6. ASSUME NEW may, NEW code \in Codes, NEW s, NEW version,
             Compute(r, may, code, s, version),
             may => /\ SessionOK(s) /\ version \in Nat
                    /\ s.activeQuote \in Quotes
                    /\ QuoteIds(s) = QuoteIds(req[r].base.session)
                                        \cup {s.activeQuote.quoteId}
                    /\ IF req[r].op = "calculateQuote"
                       THEN /\ ~Quoted(req[r].base)
                            /\ CalculateFingerprint(s, req[r].arg) = PrintOf(req[r])
                       ELSE req[r].op = "adjustQuote" /\ Quoted(req[r].base)
      PROVE  \E h : /\ req' = [req EXCEPT ![r] = h]
                    /\ h.pc = "idle" \/ Issuing(h, req[r])
  <2>1. CASE may
    <3> DEFINE doc == [session |-> s, version |-> version]
               h == [req[r] EXCEPT !.pc = "save", !.quote = s.activeQuote, !.doc = doc]
    <3>1. req' = [req EXCEPT ![r] = h] /\ KeyOf(req[r]) \notin DOMAIN idem
      BY <1>1, <1>3, <1>6, <2>1 DEF Compute
    <3>2. doc \in Documents /\ doc.session = s
      BY <1>6, <2>1 DEF Documents, SessionOK
    <3>3. doc # NoRow /\ s.activeQuote # NoQuote
      BY <1>6, <2>1, <3>2, EngineAssumption, DomainAssumption
    <3> HIDE DEF doc
    <3>4. /\ h.pc = "save" /\ SameRequest(h, req[r]) /\ h.doc = doc
          /\ h.quote = s.activeQuote
      BY <1>1 DEF Handlers, SameRequest
    <3> HIDE DEF h
    <3>5. Shown(h.doc) = Shown(req[r].base) \cup {h.quote.quoteId}
      BY <1>2, <1>6, <2>1, <3>2, <3>3, <3>4 DEF Shown
    <3>6. Issuing(h, req[r])
      BY <1>6, <2>1, <3>1, <3>2, <3>3, <3>4, <3>5 DEF Issuing, SameRequest
    <3> QED BY <3>1, <3>6
  <2>2. CASE ~may
    <3>1. req' = [req EXCEPT ![r] = Idle(code)]
      BY <1>6, <2>2 DEF Compute, End
    <3> QED BY <1>4, <3>1
  <2> QED BY <2>1, <2>2
<1>7. CASE ComputeQuote(r)
  <2> DEFINE b == req[r].base
             may == MayIssue(b.session)
             s == Issue(b.session, issued + 1)
  <2>1. /\ req[r].op = "calculateQuote"
        /\ Compute(r, may, "INVALID_STATE_TRANSITION", s, b.version)
    BY <1>2, <1>7 DEF ComputeQuote
  <2>2. b.version \in Nat
    BY <1>2 DEF Documents
  <2>3. ASSUME may
        PROVE  /\ SessionOK(s) /\ s.activeQuote \in Quotes
               /\ QuoteIds(s) = QuoteIds(b.session) \cup {s.activeQuote.quoteId}
               /\ ~Quoted(b)
               /\ CalculateFingerprint(s, req[r].arg) = PrintOf(req[r])
    <3>1. /\ SessionOK(s) /\ s.activeQuote \in Quotes
          /\ s.activeQuote.quoteId = issued + 1
          /\ b.session.activeQuote = NoQuote
          /\ s.input = b.session.input
          /\ s.parametersConfirmedAt = b.session.parametersConfirmedAt
          /\ s.consentGrantedAt = b.session.consentGrantedAt
      BY <1>1, <1>2, <2>3, IssuedOK
    <3>2. QuoteIds(s) = QuoteIds(b.session) \cup {issued + 1}
      BY <1>1, <1>2, <2>3, IssuedQuotes
    <3> HIDE DEF s
    <3>3. CalculateFingerprint(s, req[r].arg) = PrintOf(req[r])
      BY <2>1, <3>1 DEF PrintOf, CalculateFingerprint
    <3> QED BY <3>1, <3>2, <3>3 DEF Quoted
  <2> HIDE DEF b, may, s
  <2>4. \E h : /\ req' = [req EXCEPT ![r] = h]
               /\ h.pc = "idle" \/ Issuing(h, req[r])
    BY <1>6, <2>1, <2>2, <2>3 DEF b, Codes
  <2> QED BY <1>1, <2>4
<1>8. CASE ComputeAdjustment(r)
  <2> DEFINE b == req[r].base
             may == MayAdjust(b.session)
             s == Adjust(b.session, req[r].arg, issued + 1)
             version == b.version + 1
  <2>1. /\ req[r].op = "adjustQuote"
        /\ Compute(r, may, "INVALID_INPUT", s, version)
        /\ req[r].arg \in [CoverageFields -> Partial(Values)]
    BY <1>1, <1>2, <1>8, EngineAssumption DEF ComputeAdjustment, HandlerOK
  <2>2. version \in Nat
    BY <1>2 DEF Documents
  <2>3. ASSUME may
        PROVE  /\ SessionOK(s) /\ s.activeQuote \in Quotes
               /\ QuoteIds(s) = QuoteIds(b.session) \cup {s.activeQuote.quoteId}
               /\ Quoted(b)
    <3>1. /\ SessionOK(s) /\ s.activeQuote \in Quotes
          /\ s.activeQuote.quoteId = issued + 1
      BY <1>1, <1>2, <2>1, <2>3, AdjustedOK
    <3>2. QuoteIds(s) = QuoteIds(b.session) \cup {issued + 1}
      BY <1>1, <1>2, <2>1, <2>3, AdjustedQuotes
    <3> HIDE DEF s
    <3> QED BY <1>2, <2>3, <3>1, <3>2 DEF Quoted, MayAdjust
  <2> HIDE DEF b, may, s, version
  <2>4. \E h : /\ req' = [req EXCEPT ![r] = h]
               /\ h.pc = "idle" \/ Issuing(h, req[r])
    BY <1>6, <2>1, <2>2, <2>3 DEF b, Codes
  <2> QED BY <1>1, <2>4
<1> QED BY <1>5, <1>7, <1>8

\* A handler that moves on holds what it held.
LEMMA GotoStep ==
    ASSUME Inv, NEW r \in Requests, NEW pc \in Pcs, Goto(r, pc)
    PROVE  \E h : /\ req' = [req EXCEPT ![r] = h]
                  /\ h.pc = pc /\ SameRequest(h, req[r])
                  /\ h.doc = req[r].doc /\ h.quote = req[r].quote
<1> DEFINE h == [req[r] EXCEPT !.pc = pc]
<1>1. req[r] \in Handlers
  BY DEF Inv, HandlersOK
<1>2. req' = [req EXCEPT ![r] = h]
  BY DEF Goto, Inv, HandlersOK
<1>3. /\ h.pc = pc /\ SameRequest(h, req[r])
      /\ h.doc = req[r].doc /\ h.quote = req[r].quote
  BY <1>1, GotoHandler DEF SameRequest
<1> HIDE DEF h
<1> QED BY <1>2, <1>3

\* The write of r goes through.
Due(r) ==
    \/ req[r].pc = "save" /\ ~Postgres
    \/ req[r].pc = "insert" /\ row = NoRow
    \/ req[r].pc = "update" /\ row.version = req[r].doc.version

\* saveSession is refused and leaves the row, or the row holds the handler's
\* document and the handler goes on with its quote, if it has one.
LEMMA WriteStep ==
    ASSUME Inv, NEW r \in Requests, SaveInMemory(r) \/ InsertRow(r) \/ UpdateRow(r)
    PROVE  /\ req[r].pc \in Writing
           /\ UNCHANGED <<history, idem, audited, issued, answers>>
           /\ \E h : /\ req' = [req EXCEPT ![r] = h]
                     /\ \/ h.pc = "idle" /\ UNCHANGED row
                        \/ /\ Due(r)
                           /\ row' # NoRow
                           /\ row'.session = req[r].doc.session
                           /\ IF req[r].quote = NoQuote THEN h.pc = "idle"
                              ELSE /\ h.pc = "saveQuote" /\ SameRequest(h, req[r])
                                   /\ h.doc = req[r].doc /\ h.quote = req[r].quote
<1>1. /\ req[r].pc \in Writing
      /\ UNCHANGED <<history, idem, audited, issued, answers>>
      /\ req[r].doc \in Documents /\ req[r].doc.version + 1 \in Nat
  <2>1. /\ req[r].pc \in Writing
        /\ UNCHANGED <<history, idem, audited, issued, answers>>
    BY DEF SaveInMemory, InsertRow, UpdateRow, Writing
  <2>2. req[r].doc \in Documents
    BY <2>1 DEF Inv, HandlersOK, HandlerOK, Handlers, Writing
  <2> QED BY <2>1, <2>2 DEF Documents
<1>2. CASE UpdateRow(r) /\ ~Due(r)
  <2>1. req' = [req EXCEPT ![r] = Idle("CONCURRENT_MODIFICATION")] /\ UNCHANGED row
    BY <1>2 DEF UpdateRow, Due, End
  <2> QED BY <1>1, <2>1, IdleType DEF Codes
<1>3. CASE ~UpdateRow(r) \/ Due(r)
  <2>1. Due(r) /\ Saved(r)
    BY <1>3 DEF SaveInMemory, InsertRow, UpdateRow, Due
  <2>2. /\ row' # NoRow
        /\ row'.session = req[r].doc.session
    <3>1. \A version \in Nat : LET doc == [req[r].doc EXCEPT !.version = version]
                               IN /\ doc \in Documents
                                  /\ doc.session = req[r].doc.session
      BY <1>1 DEF Documents
    <3>2. \/ row' = req[r].doc
          \/ \E version \in Nat : row' = [req[r].doc EXCEPT !.version = version]
      BY <1>1, <1>3 DEF SaveInMemory, InsertRow, UpdateRow, Due
    <3>3. /\ row' \in Documents
          /\ row'.session = req[r].doc.session
      BY <1>1, <3>1, <3>2
    <3> QED BY <3>3, EngineAssumption
  <2>3. CASE req[r].quote = NoQuote
    <3>1. req' = [req EXCEPT ![r] = Idle("ok")] /\ Idle("ok").pc = "idle"
      BY <2>1, <2>3, IdleType DEF Saved, End, Codes
    <3> QED BY <1>1, <2>1, <2>2, <2>3, <3>1
  <2>4. CASE req[r].quote # NoQuote
    <3>1. Goto(r, "saveQuote") /\ "saveQuote" \in Pcs
      BY <2>1, <2>4 DEF Saved, Pcs
    <3>2. \E h : /\ req' = [req EXCEPT ![r] = h]
                 /\ h.pc = "saveQuote" /\ SameRequest(h, req[r])
                 /\ h.doc = req[r].doc /\ h.quote = req[r].quote
      BY <3>1, GotoStep
    <3> QED BY <1>1, <2>1, <2>2, <2>4, <3>2
  <2> QED BY <2>3, <2>4
<1> QED BY <1>2, <1>3

-----------------------------------------------------------------------------
(* The books, when no handler dies: a quote is shown by a session a handler *)
(* may load before it is filed, and filed before its event is recorded, so *)
(* what is missing from a book is in the hands of a handler.               *)

\* One request at a time, as one client sends them.
Alone == \A p, q \in Requests : p = q

\* The writer replaces the row it had loaded.
Timely == \A r \in Requests : Due(r) => req[r].base = row

\* A handler's document shows the quotes of its base, and its own.
Prepared(h) ==
    h.pc \in Writing =>
        Shown(h.doc) = Shown(h.base) \cup
                          (IF h.quote = NoQuote THEN {} ELSE {h.quote.quoteId})

\* Shown by the session, and about to join the history.
Unfiled(n) == \E r \in Requests : /\ req[r].pc = "saveQuote"
                                  /\ req[r].quote.quoteId = n

\* In the history, and about to have its event.
Unaudited(q) == \E r \in Requests : /\ req[r].pc \in {"saveRecord", "audit"}
                                    /\ req[r].quote = q

\* In the quote history, or about to be.
Filed(n) == (\E q \in history : q.quoteId = n) \/ Unfiled(n)

\* Every quote of the document d, if a handler may still write it back.
AllFiled(d) == \A n \in Shown(d) : Filed(n)

CopiesFiled ==
    \A r \in Requests : req[r].pc \in Writing \cup {"lookup"} => AllFiled(req[r].base)

Ledger ==
    /\ \A r \in Requests : Prepared(req[r])
    /\ AllFiled(row)
    /\ CopiesFiled
    /\ \A q \in history : q.quoteId \in audited \/ Unaudited(q)

\* The others hold what they held.
LEMMA OthersHold ==
    ASSUME Inv, NEW r \in Requests, NEW h, req' = [req EXCEPT ![r] = h]
    PROVE  req'[r] = h /\ \A q \in Requests : q # r => req'[q] = req[q]
BY DEF Inv, HandlersOK

\* What was filed stays filed, for every copy a handler goes on with.
LEMMA StillFiled ==
    ASSUME Ledger, \A n : Filed(n) => Filed(n)',
           \A q \in Requests : req'[q].pc \in Writing \cup {"lookup"} => AllFiled(req'[q].base)
    PROVE  CopiesFiled' /\ (UNCHANGED row => AllFiled(row)')
<1>1. CopiesFiled'
  BY DEF CopiesFiled, AllFiled, Shown
<1>2. UNCHANGED row => AllFiled(row)'
  BY DEF Ledger, AllFiled, Shown
<1> QED BY <1>1, <1>2

\* A step between the writes leaves the books as they are.
LEMMA LedgerKept ==
    ASSUME Inv, Ledger, NEW r \in Requests, NEW h, req' = [req EXCEPT ![r] = h],
           UNCHANGED <<row, history, idem, audited>>,
           Prepared(h), req[r].pc \notin Filing, h.pc \notin Filing,
           h.pc \in Writing \cup {"lookup"} => AllFiled(h.base)
    PROVE  Ledger'
<1>1. req'[r] = h /\ \A q \in Requests : q # r => req'[q] = req[q]
  BY OthersHold
<1>2. \A q \in Requests : Prepared(req'[q])
  BY <1>1 DEF Ledger
<1>3. \A q \in Requests : req[q].pc \in Filing => req'[q] = req[q]
  BY <1>1
<1>4. \A n : Filed(n) => Filed(n)'
  BY <1>3 DEF Filed, Unfiled, Filing
<1>5. \A q : Unaudited(q) => Unaudited(q)'
  BY <1>3 DEF Unaudited, Filing
<1>6. \A q \in Requests : req'[q].pc \in Writing \cup {"lookup"} => AllFiled(req'[q].base)
  BY <1>1 DEF Ledger, CopiesFiled
<1> QED BY <1>2, <1>4, <1>5, <1>6, StillFiled DEF Ledger

\* A request that begins or looks its record up writes nothing yet.
LEMMA LedgerBegins ==
    ASSUME Inv, Ledger, NEW r \in Requests,
           Receive(r) \/ Found(r) \/ ComputeQuote(r) \/ ComputeAdjustment(r)
    PROVE  Ledger'
<1>1. ASSUME NEW h, h.pc = "idle" \/ Starting(h, row) \/ Looking(h, row)
      PROVE  /\ Prepared(h) /\ h.pc \notin Filing
             /\ h.pc \in Writing \cup {"lookup"} => AllFiled(h.base)
  BY <1>1 DEF Starting, Looking, Prepared, Writing, Filing, Ledger
<1>2. ASSUME req[r].pc = "lookup",
             NEW h, h.pc = "idle" \/ Replaying(h, req[r]) \/ Issuing(h, req[r])
      PROVE  /\ Prepared(h) /\ h.pc \notin Filing
             /\ h.pc \in Writing \cup {"lookup"} => AllFiled(h.base)
  <2>1. CASE Issuing(h, req[r])
    <3>1. h.base = req[r].base
      BY <2>1 DEF Issuing, SameRequest
    <3> QED BY <1>2, <2>1, <3>1 DEF Issuing, Prepared, Writing, Filing, Ledger, CopiesFiled
  <2> QED BY <1>2, <2>1 DEF Replaying, Prepared, Writing, Filing
<1>3. CASE Receive(r)
  <2>1. Begins(r)
    BY <1>3, ReceiveStep
  <2> QED BY <1>1, <2>1, LedgerKept DEF Begins, InFlight, Filing
<1>4. CASE Found(r) \/ ComputeQuote(r) \/ ComputeAdjustment(r)
  <2>1. /\ req[r].pc = "lookup"
        /\ UNCHANGED <<row, history, idem, audited, answers>>
        /\ \E h : /\ req' = [req EXCEPT ![r] = h]
                  /\ h.pc = "idle" \/ Replaying(h, req[r]) \/ Issuing(h, req[r])
    BY <1>4, LookupStep
  <2> QED BY <1>2, <2>1, LedgerKept DEF Filing
<1> QED BY <1>3, <1>4

\* Whatever a saved session replaces, it shows quotes that were filed when its writer
\* loaded it, and the quote its writer goes on to file.
LEMMA LedgerWritten ==
    ASSUME Inv, Ledger, NEW r \in Requests,
           SaveInMemory(r) \/ InsertRow(r) \/ UpdateRow(r)
    PROVE  Ledger'
<1>1. /\ req[r].pc \in Writing
      /\ UNCHANGED <<history, idem, audited, issued, answers>>
  BY WriteStep
<1>2. PICK h : /\ req' = [req EXCEPT ![r] = h]
               /\ \/ h.pc = "idle" /\ UNCHANGED row
                  \/ /\ Due(r)
                     /\ row' # NoRow
                     /\ row'.session = req[r].doc.session
                     /\ IF req[r].quote = NoQuote THEN h.pc = "idle"
                        ELSE /\ h.pc = "saveQuote" /\ SameRequest(h, req[r])
                             /\ h.doc = req[r].doc /\ h.quote = req[r].quote
  BY WriteStep
<1>3. CASE h.pc = "idle" /\ UNCHANGED row
  BY <1>1, <1>2, <1>3, LedgerKept DEF Prepared, Writing, Filing
<1>4. CASE /\ row' # NoRow
           /\ row'.session = req[r].doc.session
           /\ IF req[r].quote = NoQuote THEN h.pc = "idle"
              ELSE h.pc = "saveQuote" /\ h.quote = req[r].quote
  <2>1. req'[r] = h /\ \A q \in Requests : q # r => req'[q] = req[q]
    BY <1>2, OthersHold
  <2>2. /\ Prepared(req[r]) /\ req[r].doc # NoRow /\ AllFiled(req[r].base)
        /\ req[r].pc \notin Filing
    BY <1>1 DEF Ledger, CopiesFiled, Inv, HandlersOK, HandlerOK, Writing, Filing
  <2>3. \A q \in Requests : Prepared(req'[q])
    <3>1. Prepared(h)
      BY <1>4 DEF Prepared, Writing
    <3> QED BY <2>1, <3>1 DEF Ledger
  <2>4. Shown(row)' = Shown(req[r].doc)
    BY <1>4, <2>2 DEF Shown
  <2>5. \A n : Filed(n) => Filed(n)'
    BY <1>1, <2>1, <2>2 DEF Filed, Unfiled, Filing
  <2>6. \A q : Unaudited(q) => Unaudited(q)'
    BY <2>1, <2>2 DEF Unaudited, Filing
  <2>7. ASSUME req[r].quote # NoQuote, NEW n, n = req[r].quote.quoteId PROVE Filed(n)'
    BY <1>4, <2>1, <2>7 DEF Filed, Unfiled
  <2>8. AllFiled(row)'
    <3>1. \A n \in Shown(req[r].doc) :
             n \in Shown(req[r].base) \/ (req[r].quote # NoQuote /\ n = req[r].quote.quoteId)
      BY <1>1, <2>2 DEF Prepared
    <3>2. \A n \in Shown(req[r].doc) : Filed(n)'
      BY <2>2, <2>5, <2>7, <3>1 DEF AllFiled
    <3>3. \A n \in Shown(row)' : Filed(n)'
      BY <2>4, <3>2
    <3> QED BY <3>3 DEF AllFiled
  <2>9. CopiesFiled'
    <3>1. \A q \in Requests : req'[q].pc \in Writing \cup {"lookup"} => AllFiled(req'[q].base)
      BY <1>4, <2>1 DEF Ledger, CopiesFiled, Writing
    <3> QED BY <2>5, <3>1, StillFiled
  <2> QED BY <1>1, <2>3, <2>6, <2>8, <2>9 DEF Ledger
<1> QED BY <1>2, <1>3, <1>4

\* The quote joins the history and waits for its event.
LEMMA LedgerFiled ==
    ASSUME Inv, Ledger, NEW r \in Requests, SaveQuote(r)
    PROVE  Ledger'
<1>1. /\ req[r].pc = "saveQuote" /\ Goto(r, "saveRecord")
      /\ history' = history \cup {req[r].quote}
      /\ UNCHANGED <<row, idem, audited, clock, issued, answers>>
  BY DEF SaveQuote
<1>2. PICK h : /\ req' = [req EXCEPT ![r] = h]
               /\ h.pc = "saveRecord" /\ SameRequest(h, req[r])
               /\ h.doc = req[r].doc /\ h.quote = req[r].quote
  BY <1>1, GotoStep DEF Pcs
<1>3. req'[r] = h /\ \A q \in Requests : q # r => req'[q] = req[q]
  BY <1>2, OthersHold
<1>4. \A q \in Requests : Prepared(req'[q])
  BY <1>2, <1>3 DEF Ledger, Prepared, Writing
<1>5. \A n : Filed(n) => Filed(n)'
  <2>1. \A n : Unfiled(n) => Unfiled(n)' \/ n = req[r].quote.quoteId
    BY <1>1, <1>2, <1>3 DEF Unfiled
  <2>2. \A n : (\E q \in history : q.quoteId = n) \/ n = req[r].quote.quoteId
                  => \E q \in history' : q.quoteId = n
    BY <1>1
  <2> QED BY <2>1, <2>2 DEF Filed
<1>6. \A q \in history' : q.quoteId \in audited \/ Unaudited(q)'
  <2>1. \A q : Unaudited(q) => Unaudited(q)'
    BY <1>1, <1>3 DEF Unaudited
  <2>2. \A q : q = req[r].quote => Unaudited(q)'
    BY <1>2, <1>3 DEF Unaudited
  <2> QED BY <1>1, <2>1, <2>2 DEF Ledger
<1>7. \A q \in Requests : req'[q].pc \in Writing \cup {"lookup"} => AllFiled(req'[q].base)
  BY <1>2, <1>3 DEF Ledger, CopiesFiled, Writing
<1> QED BY <1>1, <1>4, <1>5, <1>6, <1>7, StillFiled DEF Ledger

\* The record of the key is there, the quote still waits for its event.
LEMMA LedgerRecorded ==
    ASSUME Inv, Ledger, NEW r \in Requests, SaveRecord(r)
    PROVE  Ledger'
<1>1. /\ req[r].pc = "saveRecord" /\ Goto(r, "audit")
      /\ DOMAIN idem' = DOMAIN idem \cup {KeyOf(req[r])}
      /\ UNCHANGED <<row, history, audited, clock, issued, answers>>
  BY DEF SaveRecord, EffectiveKey, KeyOf
<1>2. PICK h : /\ req' = [req EXCEPT ![r] = h]
               /\ h.pc = "audit" /\ SameRequest(h, req[r])
               /\ h.doc = req[r].doc /\ h.quote = req[r].quote
  BY <1>1, GotoStep DEF Pcs
<1>3. req'[r] = h /\ \A q \in Requests : q # r => req'[q] = req[q]
  BY <1>2, OthersHold
<1>4. \A q \in Requests : Prepared(req'[q])
  BY <1>2, <1>3 DEF Ledger, Prepared, Writing
<1>5. \A n : Filed(n) => Filed(n)'
  BY <1>1, <1>2, <1>3 DEF Filed, Unfiled
<1>6. \A q : Unaudited(q) => Unaudited(q)'
  BY <1>2, <1>3 DEF Unaudited
<1>7. \A q \in Requests : req'[q].pc \in Writing \cup {"lookup"} => AllFiled(req'[q].base)
  BY <1>2, <1>3 DEF Ledger, CopiesFiled, Writing
<1> QED BY <1>1, <1>4, <1>5, <1>6, <1>7, StillFiled DEF Ledger

\* The event is recorded, or a recorded answer given again.
LEMMA LedgerAnswered ==
    ASSUME Inv, Ledger, NEW r \in Requests, RecordEvent(r) \/ Replay(r)
    PROVE  Ledger'
<1>1. /\ req' = [req EXCEPT ![r] = Idle("ok")] /\ Idle("ok").pc = "idle"
      /\ UNCHANGED <<row, history, idem, clock, issued>>
  BY IdleType DEF RecordEvent, Replay, Answer, End, Codes
<1>2. CASE Replay(r)
  <2>1. req[r].pc = "replay" /\ UNCHANGED audited
    BY <1>2 DEF Replay
  <2> QED BY <1>1, <2>1, LedgerKept DEF Prepared, Writing, Filing
<1>3. CASE RecordEvent(r)
  <2>1. req[r].pc = "audit" /\ audited' = audited \cup {req[r].quote.quoteId}
    BY <1>3 DEF RecordEvent
  <2>2. req'[r].pc = "idle" /\ \A q \in Requests : q # r => req'[q] = req[q]
    BY <1>1, OthersHold
  <2>3. \A q \in Requests : Prepared(req'[q])
    BY <2>2 DEF Ledger, Prepared, Writing
  <2>4. \A n : Filed(n) => Filed(n)'
    BY <1>1, <2>1, <2>2 DEF Filed, Unfiled
  <2>5. \A q : Unaudited(q) => Unaudited(q)' \/ q = req[r].quote
    BY <2>2 DEF Unaudited
  <2>6. \A q \in Requests : req'[q].pc \in Writing \cup {"lookup"} => AllFiled(req'[q].base)
    BY <2>2 DEF Ledger, CopiesFiled, Writing
  <2> QED BY <1>1, <2>1, <2>3, <2>4, <2>5, <2>6, StillFiled DEF Ledger
<1> QED BY <1>2, <1>3

\* SELECT version touches no book.
LEMMA LedgerSelected ==
    ASSUME Inv, Ledger, NEW r \in Requests, SelectVersion(r)
    PROVE  Ledger'
<1>1. PICK pc \in {"insert", "update"} : Goto(r, pc)
  BY DEF SelectVersion
<1>2. /\ req[r].pc = "save"
      /\ UNCHANGED <<row, history, idem, audited, clock, issued, answers>>
  BY DEF SelectVersion
<1>3. PICK h : /\ req' = [req EXCEPT ![r] = h]
               /\ h.pc = pc /\ SameRequest(h, req[r])
               /\ h.doc = req[r].doc /\ h.quote = req[r].quote
  BY <1>1, GotoStep DEF Pcs
<1>4. h.base = req[r].base /\ AllFiled(h.base)
  BY <1>2, <1>3 DEF SameRequest, Ledger, CopiesFiled, Writing
<1>5. Prepared(h)
  BY <1>2, <1>3, <1>4 DEF Ledger, Prepared, Writing
<1> QED BY <1>1, <1>2, <1>3, <1>4, <1>5, LedgerKept DEF Filing

\* As long as nobody dies, nothing goes missing from the books.
LEMMA LedgerNext ==
    ASSUME Inv, Ledger, ~Crashes, [Next]_vars
    PROVE  Ledger'
<1>1. ASSUME NEW r \in Requests, Continue(r) PROVE Ledger'
  BY <1>1, LedgerBegins, LedgerWritten, LedgerFiled, LedgerRecorded, LedgerAnswered,
     LedgerSelected DEF Continue
<1>2. ASSUME NEW r \in Requests, Crash(r) PROVE FALSE
  BY <1>2 DEF Crash
<1>3. CASE UNCHANGED vars
  BY <1>3 DEF vars, Ledger, CopiesFiled, AllFiled, Filed, Shown, Unfiled, Unaudited
<1> QED BY <1>1, <1>2, <1>3, LedgerBegins DEF Next

\* A client that waits for its answers: the handler at work holds the row as it is.
LoneOK == \A r \in Requests :
             req[r].pc \in Writing \cup {"lookup"} => req[r].base = row

\* Nobody else can write between its load and its save.
LEMMA LoneNext ==
    ASSUME Inv, LoneOK, Alone, [Next]_vars
    PROVE  LoneOK'
<1>1. ASSUME NEW r \in Requests, NEW h, req' = [req EXCEPT ![r] = h],
             h.pc \in Writing \cup {"lookup"} => UNCHANGED row /\ h.base = row
      PROVE  LoneOK'
  <2>1. req'[r] = h /\ \A q \in Requests : q = r
    BY <1>1, OthersHold DEF Alone
  <2> QED BY <1>1, <2>1 DEF LoneOK
<1>2. ASSUME NEW r \in Requests, Receive(r) PROVE LoneOK'
  <2>1. Begins(r)
    BY <1>2, ReceiveStep
  <2>2. PICK h : /\ req' = [req EXCEPT ![r] = h]
                 /\ h.pc = "idle" \/ Starting(h, row) \/ Looking(h, row)
    BY <2>1 DEF Begins
  <2>3. h.pc \in Writing \cup {"lookup"} => h.base = row
    BY <2>2 DEF Starting, Looking, Writing
  <2> QED BY <1>1, <2>1, <2>2, <2>3 DEF Begins
<1>3. ASSUME NEW r \in Requests, Continue(r) PROVE LoneOK'
  <2>1. CASE Found(r) \/ ComputeQuote(r) \/ ComputeAdjustment(r)
    <3>1. req[r].pc = "lookup" /\ UNCHANGED row
      BY <2>1, LookupStep
    <3>2. PICK h : /\ req' = [req EXCEPT ![r] = h]
                   /\ h.pc = "idle" \/ Replaying(h, req[r]) \/ Issuing(h, req[r])
      BY <2>1, LookupStep
    <3>3. req[r].base = row
      BY <3>1 DEF LoneOK
    <3>4. h.pc \in Writing \cup {"lookup"} => h.base = row
      BY <3>2, <3>3 DEF Replaying, Issuing, SameRequest, Writing
    <3> QED BY <1>1, <3>1, <3>2, <3>4
  <2>2. CASE SaveInMemory(r) \/ InsertRow(r) \/ UpdateRow(r)
    <3>1. PICK h : req' = [req EXCEPT ![r] = h] /\ h.pc \in {"idle", "saveQuote"}
      BY <2>2, WriteStep
    <3> QED BY <1>1, <3>1 DEF Writing
  <2>3. CASE SelectVersion(r)
    <3>1. PICK pc \in {"insert", "update"} : Goto(r, pc)
      BY <2>3 DEF SelectVersion
    <3>2. req[r].base = row /\ UNCHANGED row
      BY <2>3 DEF SelectVersion, LoneOK, Writing
    <3>3. PICK h : req' = [req EXCEPT ![r] = h] /\ SameRequest(h, req[r])
      BY <3>1, GotoStep DEF Pcs
    <3> QED BY <1>1, <3>2, <3>3 DEF SameRequest
  <2>4. CASE SaveQuote(r) \/ SaveRecord(r)
    <3>1. PICK pc \in {"saveRecord", "audit"} : Goto(r, pc)
      BY <2>4 DEF SaveQuote, SaveRecord
    <3>2. PICK h : req' = [req EXCEPT ![r] = h] /\ h.pc = pc
      BY <3>1, GotoStep DEF Pcs
    <3> QED BY <1>1, <3>2 DEF Writing
  <2>5. CASE RecordEvent(r) \/ Replay(r)
    <3>1. req' = [req EXCEPT ![r] = Idle("ok")] /\ Idle("ok").pc = "idle"
      BY <2>5, IdleType DEF RecordEvent, Replay, Answer, End, Codes
    <3> QED BY <1>1, <3>1 DEF Writing
  <2> QED BY <1>3, <2>1, <2>2, <2>3, <2>4, <2>5 DEF Continue
<1>4. ASSUME NEW r \in Requests, Crash(r) PROVE LoneOK'
  <2>1. req' = [req EXCEPT ![r] = Idle("crashed")] /\ Idle("crashed").pc = "idle"
    BY <1>4, IdleType DEF Crash, End, Codes
  <2> QED BY <1>1, <2>1 DEF Writing
<1>5. CASE UNCHANGED vars
  BY <1>5 DEF vars, LoneOK
<1> QED BY <1>2, <1>3, <1>4, <1>5 DEF Next

\* An engine starts with empty books, and nobody at work.
LEMMA BooksInit == Init => Ledger /\ LoneOK
<1> SUFFICES ASSUME Init PROVE Ledger /\ LoneOK
  OBVIOUS
<1>1. \A r \in Requests : req[r].pc = "idle"
  BY IdleType DEF Init, Codes
<1>2. history = {} /\ row = NoRow
  BY DEF Init
<1> QED BY <1>1, <1>2 DEF Ledger, LoneOK, Prepared, CopiesFiled, AllFiled, Shown, Writing

\* Waiting for one's answers, or the version column, keeps the writer's base current.
LEMMA TimelyWrites ==
    ASSUME Inv, (Alone /\ LoneOK) \/ (Versioned /\ VersionsOK)
    PROVE  Timely
<1> SUFFICES ASSUME NEW r \in Requests, Due(r) PROVE req[r].base = row
  BY DEF Timely
<1>1. CASE Alone /\ LoneOK
  BY <1>1 DEF LoneOK, Due, Writing
<1>2. CASE Versioned /\ VersionsOK
  <2>1. Current(req[r], row) /\ req[r].pc \in {"insert", "update"}
    BY <1>2 DEF VersionsOK, Due, Versioned
  <2> QED BY <2>1 DEF Current, Due
<1> QED BY <1>1, <1>2

\* The books hold nothing back once the handlers are done.
LEMMA BooksClosed == Inv /\ Ledger => BooksAgree
<1> SUFFICES ASSUME Inv, Ledger, Quiet, row # NoRow
             PROVE  /\ QuoteIds(row.session) \subseteq {q.quoteId : q \in history}
                    /\ \A q \in history : q.quoteId \in audited
  BY DEF BooksAgree
<1>1. \A r \in Requests : req[r].pc = "idle"
  BY DEF Quiet, InFlight
<1>2. (\A n : ~Unfiled(n)) /\ \A q : ~Unaudited(q)
  BY <1>1 DEF Unfiled, Unaudited
<1>3. \A n \in QuoteIds(row.session) : \E q \in history : q.quoteId = n
  BY <1>2 DEF Ledger, AllFiled, Filed, Shown
<1> QED BY <1>2, <1>3 DEF Ledger

\* When no handler dies, then whichever requests overwrite each other, over either
\* store, every quote the session shows is in the history at rest, and every quote of
\* the history in the audit trail.
THEOREM BooksReconciled == ASSUME ~Crashes PROVE Spec => []BooksAgree
<1>1. Inv /\ Ledger /\ [Next]_vars => (Inv /\ Ledger)'
  BY InvNext, LedgerNext
<1> QED BY <1>1, InvInit, BooksInit, BooksClosed, PTL DEF Spec

\* Only saveSession writes the row.
LEMMA RowSaved ==
    ASSUME Next, row' # row
    PROVE  \E r \in Requests : SaveInMemory(r) \/ InsertRow(r) \/ UpdateRow(r)
<1>1. ASSUME NEW r \in Requests, Receive(r) PROVE UNCHANGED row
  BY <1>1 DEF Receive, StartSession, SubmitPropertyBasics, SubmitRiskFactors,
     EvaluateEligibility, SelectCoverage, Handle, Confirm, SubmitConsent,
     CalculateQuote, AdjustQuote, CorrectField
<1>2. ASSUME NEW r \in Requests, Continue(r),
             ~SaveInMemory(r), ~InsertRow(r), ~UpdateRow(r)
      PROVE  UNCHANGED row
  BY <1>2 DEF Continue, Found, ComputeQuote, ComputeAdjustment, Compute,
     SelectVersion, SaveQuote, SaveRecord, RecordEvent, Replay
<1> QED BY <1>1, <1>2 DEF Next, Crash

\* A write of the store is one step of the contract, or none.
LEMMA ContractStep ==
    ASSUME Inv, Timely, [Next]_vars
    PROVE  [Promise!Next]_(Promise!vars)
<1>1. CASE row' = row
  BY <1>1 DEF Promise!vars
<1>2. CASE row = NoRow /\ row' # NoRow /\ Unseen(row'.session)
  BY <1>2 DEF Unseen, Sees, Promise!vars
<1>3. CASE row # NoRow /\ row' # NoRow /\ Follows(row.session, row'.session)
  <2> DEFINE s == row.session
             t == row'.session
  <2>1. CASE Stage(t) = Stage(s) /\ SettledTerms(t) = SettledTerms(s) /\ Offer(t) = Offer(s)
    BY <1>3, <2>1 DEF Promise!vars
  <2>2. CASE Unseen(s) /\ \E terms : Agreeable(terms) /\ Sees(t, "confirmed", terms, NoQuote)
    <3>1. PICK terms : Agreeable(terms) /\ Sees(t, "confirmed", terms, NoQuote)
      BY <2>2
    <3>2. terms \in Promise!Terms
      BY <3>1 DEF Agreeable, CompleteCoverages, Promise!Terms
    <3>3. Promise!Confirm(terms)
      BY <1>3, <2>2, <3>1 DEF Unseen, Sees, Promise!Confirm
    <3> QED BY <3>2, <3>3 DEF Promise!Next
  <2>3. CASE \E terms : /\ Sees(s, "confirmed", terms, NoQuote)
                        /\ Sees(t, "consented", terms, NoQuote)
    <3>1. Promise!Consent
      BY <1>3, <2>3 DEF Sees, Promise!Consent
    <3> QED BY <3>1 DEF Promise!Next
  <2>4. CASE \E terms : Sees(s, "consented", terms, NoQuote) /\ Sees(t, "quoted", terms, terms)
    <3>1. Promise!Quote
      BY <1>3, <2>4 DEF Sees, Promise!Quote
    <3> QED BY <3>1 DEF Promise!Next
  <2>5. CASE \E terms : \E coverage \in CompleteCoverages :
                LET new == [terms EXCEPT !.coverage = coverage]
                IN Sees(s, "quoted", terms, terms) /\ Sees(t, "quoted", new, new)
    <3>1. PICK coverage \in CompleteCoverages : Promise!Adjust(coverage)
      BY <1>3, <2>5 DEF Sees, Promise!Adjust
    <3> QED BY <3>1 DEF CompleteCoverages, Promise!Next
  <2>6. CASE Stage(s) # "gathering" /\ Unseen(t)
    <3>1. Promise!Reopen
      BY <1>3, <2>6 DEF Unseen, Sees, Promise!Reopen
    <3> QED BY <3>1 DEF Promise!Next
  <2> QED BY <1>3, <2>1, <2>2, <2>3, <2>4, <2>5, <2>6 DEF Follows
<1>4. ASSUME row' # row
      PROVE  \/ row = NoRow /\ row' # NoRow /\ Unseen(row'.session)
             \/ row # NoRow /\ row' # NoRow /\ Follows(row.session, row'.session)
  <2>1. PICK r \in Requests : SaveInMemory(r) \/ InsertRow(r) \/ UpdateRow(r)
    BY <1>4, RowSaved DEF vars
  <2>2. /\ req[r].pc \in Writing
        /\ Due(r)
        /\ row' # NoRow
        /\ row'.session = req[r].doc.session
    BY <1>4, <2>1, WriteStep
  <2>3. req[r].base = row /\ HandlerOK(req[r], issued, history)
    BY <2>2 DEF Timely, Inv, HandlersOK
  <2> QED BY <2>2, <2>3 DEF HandlerOK
<1> QED BY <1>1, <1>2, <1>3, <1>4

\* The requests on one session keep the customer's contract: the store sees
\* confirmation, consent and offer in order and for the same terms.  That is so of a
\* client that waits for its answers, over either store, with corrections and
\* adjustments, and of any handlers together where the version column guards the row.
THEOREM ContractKept == ASSUME Alone \/ Versioned PROVE Spec => StoreKeepsContract
<1>1. Init => Promise!Init
  BY DEF Init, Promise!Init
<1>2. CASE Alone
  <2>1. Inv /\ LoneOK /\ [Next]_vars => (Inv /\ LoneOK)' /\ [Promise!Next]_(Promise!vars)
    BY <1>2, InvNext, LoneNext, TimelyWrites, ContractStep
  <2> QED
    BY <2>1, <1>1, InvInit, BooksInit, PTL DEF Spec, StoreKeepsContract, Promise!Spec
<1>3. CASE Versioned
  <2>1. Inv /\ VersionsOK /\ [Next]_vars => [Promise!Next]_(Promise!vars)
    BY <1>3, TimelyWrites, ContractStep
  <2>2. Spec => [](Inv /\ VersionsOK)
    BY <1>3, VersionsInvariant
  <2> QED BY <2>1, <2>2, <1>1, PTL DEF Spec, StoreKeepsContract, Promise!Spec
<1> QED BY <1>2, <1>3

-----------------------------------------------------------------------------
(* Without corrections and adjustments a quote is final: the version       *)
(* column lets one calculation through, whoever dies, and every record,    *)
(* replay and answer is of that one.                                       *)

\* A handler knows of no other sale than the one on the row d.
OneSale(h, d) ==
    /\ h.pc # "idle" /\ Quoted(h.base) => h.base = d
    /\ h.pc = "lookup" => h.op = "calculateQuote"
    /\ h.pc \in Writing => ~Quoted(h.base)
    /\ h.pc \in Writing /\ h.quote # NoQuote =>
          /\ h.op = "calculateQuote"
          /\ h.doc.session.activeQuote = h.quote
          /\ CalculateFingerprint(h.doc.session, h.arg) = PrintOf(h)
    /\ h.pc \in Filing \cup {"replay"} =>
          /\ Quoted(d) /\ h.op = "calculateQuote"
          /\ h.quote = d.session.activeQuote
          /\ PrintOf(h) = CalculateFingerprint(d.session, h.arg)
    /\ h.pc \in {"audit", "replay"} =>
          /\ KeyOf(h) \in DOMAIN idem
          /\ idem[KeyOf(h)].fingerprint = PrintOf(h)

SalesOnFile ==
    /\ \A k \in DOMAIN idem :
          /\ Quoted(row)
          /\ idem[k].operation = "calculateQuote"
          /\ \E v : idem[k].fingerprint = CalculateFingerprint(row.session, v)
          /\ idem[k].quote = row.session.activeQuote
    /\ \A a \in answers :
          /\ Quoted(row)
          /\ a.op = "calculateQuote"
          /\ a.quote = row.session.activeQuote
          /\ a.base = CalculateFingerprint(row.session, a.arg)
          /\ a.key # NoKey => /\ <<"client", a.key>> \in DOMAIN idem
                             /\ idem[<<"client", a.key>>].fingerprint = a.base

\* The one handler that files the sale finds no record on file.
Sole == \A p \in Requests : req[p].pc \in {"saveQuote", "saveRecord"} =>
            /\ DOMAIN idem = {}
            /\ \A q \in Requests : req[q].pc \in {"saveQuote", "saveRecord"} => p = q

SoldOnce == /\ \A r \in Requests : OneSale(req[r], row)
            /\ SalesOnFile
            /\ Sole

\* The fingerprint tells the rule version.
LEMMA PrintsTell ==
    ASSUME NEW s, NEW t, NEW v, NEW w,
           CalculateFingerprint(s, v) = CalculateFingerprint(t, w)
    PROVE  v = w
BY DEF CalculateFingerprint

\* A step of one handler that leaves the row and the records.
LEMMA SaleKept ==
    ASSUME Inv, SoldOnce, NEW r \in Requests, NEW h, req' = [req EXCEPT ![r] = h],
           UNCHANGED <<row, idem>>, OneSale(h, row), SalesOnFile',
           h.pc \in {"saveQuote", "saveRecord"} => req[r].pc \in {"saveQuote", "saveRecord"}
    PROVE  SoldOnce'
<1>1. req'[r] = h /\ \A q \in Requests : q # r => req'[q] = req[q]
  BY OthersHold
<1>2. \A q \in Requests : OneSale(req'[q], row)
  BY <1>1 DEF SoldOnce
<1>3. \A q \in Requests : OneSale(req[q], row)'
  BY <1>2 DEF OneSale
<1>4. Sole'
  BY <1>1 DEF SoldOnce, Sole
<1> QED BY <1>3, <1>4 DEF SoldOnce

\* An idle handler knows of no sale.
LEMMA IdleSale == ASSUME NEW h, NEW d, h.pc = "idle" PROVE OneSale(h, d)
BY DEF OneSale, Writing, Filing

\* A request that begins loads no quote it may change, and a calculation that finds
\* no record is the first.
LEMMA SaleBegins ==
    ASSUME Inv, SoldOnce, Versioned, NEW r \in Requests,
           Receive(r) \/ Found(r) \/ ComputeQuote(r) \/ ComputeAdjustment(r)
    PROVE  SoldOnce'
<1>1. CASE Receive(r)
  <2>1. Begins(r)
    BY <1>1, ReceiveStep
  <2>2. ASSUME NEW h, Starting(h, row) \/ Looking(h, row)
        PROVE  OneSale(h, row) /\ h.pc \notin {"saveQuote", "saveRecord"}
    BY <2>2 DEF Starting, Looking, OneSale, Writing, Filing, Versioned
  <2>3. SalesOnFile'
    BY <2>1 DEF Begins, SoldOnce, SalesOnFile, Quoted
  <2> QED BY <2>1, <2>2, <2>3, IdleSale, SaleKept DEF Begins
<1>2. CASE Found(r) \/ ComputeQuote(r) \/ ComputeAdjustment(r)
  <2>1. req[r].pc = "lookup" /\ UNCHANGED <<row, history, idem, audited, answers>>
    BY <1>2, LookupStep
  <2>2. PICK h : /\ req' = [req EXCEPT ![r] = h]
                 /\ h.pc = "idle" \/ Replaying(h, req[r]) \/ Issuing(h, req[r])
    BY <1>2, LookupStep
  <2>3. /\ OneSale(req[r], row) /\ req[r].op = "calculateQuote" /\ SalesOnFile
        /\ Quoted(req[r].base) => req[r].base = row
    BY <2>1 DEF SoldOnce, OneSale
  <2>4. CASE Replaying(h, req[r])
    <3>1. /\ KeyOf(h) = KeyOf(req[r]) /\ PrintOf(h) = PrintOf(req[r])
          /\ h.op = req[r].op /\ h.base = req[r].base
      BY <2>4, SameRecord DEF Replaying, SameRequest
    <3>2. PrintOf(h) = CalculateFingerprint(row.session, h.arg)
      <4>1. PICK v : idem[KeyOf(h)].fingerprint = CalculateFingerprint(row.session, v)
        BY <2>4, <3>1 DEF Replaying, SoldOnce, SalesOnFile
      <4>2. PrintOf(h) = CalculateFingerprint(h.base.session, h.arg)
        BY <2>3, <3>1 DEF PrintOf
      <4>3. PrintOf(h) = CalculateFingerprint(row.session, v)
        BY <2>4, <3>1, <4>1 DEF Replaying
      <4>4. v = h.arg
        BY <4>2, <4>3, PrintsTell
      <4> QED BY <4>3, <4>4
    <3>4. OneSale(h, row)
      BY <2>3, <2>4, <3>1, <3>2 DEF Replaying, SalesOnFile, OneSale, Writing, Filing
    <3>3. SalesOnFile'
      BY <2>1, <2>3 DEF SalesOnFile, Quoted
    <3> QED BY <2>1, <2>2, <2>4, <3>3, <3>4, SaleKept DEF Replaying
  <2>5. CASE Issuing(h, req[r])
    <3>1. /\ KeyOf(h) = KeyOf(req[r]) /\ PrintOf(h) = PrintOf(req[r])
          /\ h.op = req[r].op /\ h.base = req[r].base
      BY <2>5, SameRecord DEF Issuing, SameRequest
    <3>2. OneSale(h, row)
      BY <2>3, <2>5, <3>1 DEF Issuing, SameRequest, OneSale, Writing, Filing
    <3>3. SalesOnFile'
      BY <2>1, <2>3 DEF SalesOnFile, Quoted
    <3> QED BY <2>1, <2>2, <2>5, <3>2, <3>3, SaleKept DEF Issuing
  <2>6. CASE h.pc = "idle"
    <3>1. SalesOnFile'
      BY <2>1, <2>3 DEF SalesOnFile, Quoted
    <3> QED BY <2>1, <2>2, <2>6, <3>1, IdleSale, SaleKept
  <2> QED BY <2>2, <2>4, <2>5, <2>6
<1> QED BY <1>1, <1>2

\* No write touches a session with a quote: whoever wants to write is outdated.
LEMMA SaleWritten ==
    ASSUME Inv, VersionsOK, Versioned, SoldOnce, NEW r \in Requests,
           SaveInMemory(r) \/ InsertRow(r) \/ UpdateRow(r)
    PROVE  SoldOnce'
<1>1. /\ req[r].pc \in Writing
      /\ UNCHANGED <<history, idem, audited, issued, answers>>
  BY WriteStep
<1>2. PICK h : /\ req' = [req EXCEPT ![r] = h]
               /\ \/ h.pc = "idle" /\ UNCHANGED row
                  \/ /\ Due(r)
                     /\ row' # NoRow
                     /\ row'.session = req[r].doc.session
                     /\ IF req[r].quote = NoQuote THEN h.pc = "idle"
                        ELSE /\ h.pc = "saveQuote" /\ SameRequest(h, req[r])
                             /\ h.doc = req[r].doc /\ h.quote = req[r].quote
  BY WriteStep
<1>3. OneSale(req[r], row) /\ SalesOnFile
  BY DEF SoldOnce
<1>4. CASE h.pc = "idle" /\ UNCHANGED row
  <2>1. SalesOnFile'
    BY <1>1, <1>3, <1>4 DEF SalesOnFile, Quoted
  <2> QED BY <1>1, <1>2, <1>4, <2>1, IdleSale, SaleKept
<1>5. CASE /\ Due(r)
           /\ row' # NoRow
           /\ row'.session = req[r].doc.session
           /\ IF req[r].quote = NoQuote THEN h.pc = "idle"
              ELSE /\ h.pc = "saveQuote" /\ SameRequest(h, req[r])
                   /\ h.doc = req[r].doc /\ h.quote = req[r].quote
  <2>1. req'[r] = h /\ \A q \in Requests : q # r => req'[q] = req[q]
    BY <1>2, OthersHold
  <2>2. ~Quoted(row)
    <3>1. req[r].base = row
      BY <1>5, TimelyWrites DEF Timely
    <3> QED BY <1>1, <1>3, <3>1 DEF OneSale
  <2>3. idem' = idem /\ answers = {} /\ \A k \in DOMAIN idem : FALSE
    BY <1>1, <1>3, <2>2 DEF SalesOnFile
  <2>4. SalesOnFile'
    BY <1>1, <2>3 DEF SalesOnFile
  <2>5. ASSUME NEW q \in Requests, q # r PROVE OneSale(req'[q], row')
    <3>1. OneSale(req[q], row)
      BY DEF SoldOnce
    <3>2. req[q].pc # "idle" => ~Quoted(req[q].base)
      BY <2>2, <3>1 DEF OneSale
    <3>3. req[q].pc \notin Filing \cup {"replay"}
      BY <2>2, <3>1 DEF OneSale
    <3> QED BY <2>1, <2>5, <3>1, <3>2, <3>3 DEF OneSale, Filing
  <2>6. OneSale(h, row')
    <3>1. CASE req[r].quote = NoQuote
      BY <1>5, <3>1, IdleSale
    <3>2. CASE req[r].quote # NoQuote
      <4>1. /\ h.pc = "saveQuote" /\ h.quote = req[r].quote /\ h.op = req[r].op
            /\ h.arg = req[r].arg
            /\ h.base = req[r].base /\ PrintOf(h) = PrintOf(req[r])
        BY <1>5, <3>2, SameRecord DEF SameRequest
      <4>2. Quoted(row')
        BY <1>1, <1>3, <1>5, <3>2 DEF OneSale, Quoted
      <4> QED BY <1>1, <1>3, <1>5, <3>2, <4>1, <4>2 DEF OneSale, Writing, Filing
    <3> QED BY <3>1, <3>2
  <2>7. \A q \in Requests : OneSale(req'[q], row')
    BY <2>1, <2>5, <2>6
  <2>8. \A q \in Requests : OneSale(req[q], row)'
    BY <2>3, <2>7 DEF OneSale
  <2>9. Sole'
    <3>1. \A q \in Requests : q # r => req'[q].pc \notin {"saveQuote", "saveRecord"}
      BY <2>1, <2>2 DEF SoldOnce, OneSale, Filing
    <3> QED BY <2>3, <3>1 DEF Sole
  <2> QED BY <2>4, <2>8, <2>9 DEF SoldOnce
<1> QED BY <1>2, <1>4, <1>5

\* A handler on its way to its answer carries the sale.
LEMMA SaleCarried ==
    ASSUME Inv, SoldOnce, NEW r \in Requests, SelectVersion(r) \/ SaveQuote(r)
    PROVE  SoldOnce'
<1>1. PICK pc \in Pcs : /\ Goto(r, pc)
                        /\ \/ req[r].pc = "save" /\ pc \in {"insert", "update"}
                           \/ req[r].pc = "saveQuote" /\ pc = "saveRecord"
  BY DEF SelectVersion, SaveQuote, Pcs
<1>2. UNCHANGED <<row, idem, answers>>
  BY DEF SelectVersion, SaveQuote
<1>3. PICK h : /\ req' = [req EXCEPT ![r] = h]
               /\ h.pc = pc /\ SameRequest(h, req[r])
               /\ h.doc = req[r].doc /\ h.quote = req[r].quote
  BY <1>1, GotoStep
<1>4. /\ PrintOf(h) = PrintOf(req[r]) /\ h.op = req[r].op /\ h.base = req[r].base
      /\ h.arg = req[r].arg
  BY <1>3, SameRecord DEF SameRequest
<1>5. OneSale(req[r], row)
  BY DEF SoldOnce
<1>6. OneSale(h, row)
  BY <1>1, <1>3, <1>4, <1>5 DEF OneSale, Writing, Filing
<1>7. SalesOnFile'
  BY <1>2 DEF SoldOnce, SalesOnFile, Quoted
<1> QED BY <1>1, <1>2, <1>3, <1>6, <1>7, SaleKept

\* The record tells the sale on the row, whichever handler saves it first.
LEMMA SaleRecorded ==
    ASSUME Inv, SoldOnce, NEW r \in Requests, SaveRecord(r)
    PROVE  SoldOnce'
<1> DEFINE key == KeyOf(req[r])
           record == [operation |-> req[r].op, fingerprint |-> PrintOf(req[r]),
                      quote |-> req[r].quote]
<1>1. /\ req[r].pc = "saveRecord" /\ Goto(r, "audit")
      /\ idem' = [k \in DOMAIN idem \cup {key} |->
                     IF k \in DOMAIN idem THEN idem[k] ELSE record]
      /\ UNCHANGED <<row, history, audited, clock, issued, answers>>
  BY DEF SaveRecord, EffectiveKey, Fingerprint, KeyOf, PrintOf
<1>2. /\ Quoted(row)
      /\ record.operation = "calculateQuote"
      /\ record.fingerprint = CalculateFingerprint(row.session, req[r].arg)
      /\ record.quote = row.session.activeQuote
      /\ OneSale(req[r], row)
  BY <1>1 DEF SoldOnce, OneSale, Filing
<1>9. /\ DOMAIN idem = {}
      /\ \A q \in Requests : q # r => req[q].pc \notin {"saveQuote", "saveRecord"}
  BY <1>1 DEF SoldOnce, Sole
<1>10. record.fingerprint = PrintOf(req[r])
  OBVIOUS
<1> HIDE DEF record
<1>3. PICK h : /\ req' = [req EXCEPT ![r] = h]
               /\ h.pc = "audit" /\ SameRequest(h, req[r])
               /\ h.doc = req[r].doc /\ h.quote = req[r].quote
  BY <1>1, GotoStep DEF Pcs
<1>4. req'[r] = h /\ \A q \in Requests : q # r => req'[q] = req[q]
  BY <1>3, OthersHold
<1>5. /\ KeyOf(h) = key /\ PrintOf(h) = PrintOf(req[r])
      /\ h.op = req[r].op /\ h.base = req[r].base /\ h.arg = req[r].arg
  BY <1>3, SameRecord DEF SameRequest
<1> HIDE DEF key
<1>6. DOMAIN idem' = {key} /\ idem'[key] = record
  BY <1>1, <1>9
<1>7. SalesOnFile'
  <2>1. \A k \in DOMAIN idem' :
           /\ idem'[k].operation = "calculateQuote"
           /\ \E v : idem'[k].fingerprint = CalculateFingerprint(row.session, v)
           /\ idem'[k].quote = row.session.activeQuote
    BY <1>2, <1>6
  <2>2. \A a \in answers : /\ a.op = "calculateQuote" /\ a.quote = row.session.activeQuote
                           /\ a.base = CalculateFingerprint(row.session, a.arg)
                           /\ a.key = NoKey
    BY <1>9 DEF SoldOnce, SalesOnFile
  <2> QED BY <1>1, <1>2, <2>1, <2>2 DEF SalesOnFile, Quoted
<1>8. ASSUME NEW q \in Requests PROVE OneSale(req[q], row)'
  <2>1. CASE q # r
    <3>1. OneSale(req[q], row) /\ req'[q] = req[q] /\ row' = row
      BY <1>1, <1>4, <2>1 DEF SoldOnce
    <3>2. req[q].pc \notin {"audit", "replay"}
      BY <1>9, <3>1 DEF OneSale
    <3> QED BY <3>1, <3>2 DEF OneSale
  <2>2. CASE q = r
    <3>1. /\ req'[q] = h /\ row' = row /\ KeyOf(h) \in DOMAIN idem'
          /\ idem'[KeyOf(h)].fingerprint = PrintOf(h)
      BY <1>1, <1>4, <1>5, <1>6, <1>10, <2>2
    <3>2. req[r].pc \in Filing
      BY <1>1 DEF Filing
    <3> QED BY <1>2, <1>3, <1>5, <3>1, <3>2 DEF OneSale, Writing, Filing
  <2> QED BY <2>1, <2>2
<1>11. Sole'
  BY <1>3, <1>4, <1>9 DEF Sole
<1> QED BY <1>7, <1>8, <1>11 DEF SoldOnce

\* An answer tells the sale on the row, and has its record.
LEMMA SaleAnswered ==
    ASSUME Inv, SoldOnce, NEW r \in Requests, RecordEvent(r) \/ Replay(r)
    PROVE  SoldOnce'
<1> DEFINE answer == [op |-> req[r].op, arg |-> req[r].arg, key |-> req[r].key,
                      base |-> PrintOf(req[r]), quote |-> req[r].quote]
<1>1. /\ req[r].pc \in {"audit", "replay"}
      /\ answers' = answers \cup {answer}
      /\ req' = [req EXCEPT ![r] = Idle("ok")]
      /\ UNCHANGED <<row, idem>>
  BY DEF RecordEvent, Replay, Answer, End, Fingerprint, PrintOf
<1>2. OneSale(req[r], row) /\ SalesOnFile
  BY DEF SoldOnce
<1>3. /\ Quoted(row)
      /\ answer.op = "calculateQuote"
      /\ answer.quote = row.session.activeQuote
      /\ answer.base = CalculateFingerprint(row.session, answer.arg)
      /\ answer.key # NoKey => /\ <<"client", answer.key>> \in DOMAIN idem
                              /\ idem[<<"client", answer.key>>].fingerprint = answer.base
  <2>1. /\ KeyOf(req[r]) \in DOMAIN idem /\ req[r].op = "calculateQuote"
        /\ idem[KeyOf(req[r])].fingerprint = PrintOf(req[r])
    BY <1>1, <1>2 DEF OneSale, Filing
  <2> QED BY <1>1, <1>2, <2>1 DEF OneSale, Filing, KeyOf, CalculateKey
<1> HIDE DEF answer
<1>4. SalesOnFile'
  BY <1>1, <1>2, <1>3 DEF SalesOnFile, Quoted
<1>5. OneSale(Idle("ok"), row) /\ Idle("ok").pc = "idle"
  BY IdleType, IdleSale DEF Codes
<1> QED BY <1>1, <1>4, <1>5, SaleKept

\* Whoever dies leaves the sale as it is.
LEMMA SaleNext ==
    ASSUME Inv, VersionsOK, Versioned, SoldOnce, [Next]_vars
    PROVE  SoldOnce'
<1>1. ASSUME NEW r \in Requests, Continue(r) PROVE SoldOnce'
  BY <1>1, SaleBegins, SaleWritten, SaleCarried, SaleRecorded, SaleAnswered DEF Continue
<1>2. ASSUME NEW r \in Requests, Crash(r) PROVE SoldOnce'
  <2>1. /\ req' = [req EXCEPT ![r] = Idle("crashed")]
        /\ UNCHANGED <<row, idem, answers>>
    BY <1>2 DEF Crash, End
  <2>2. OneSale(Idle("crashed"), row) /\ Idle("crashed").pc = "idle"
    BY IdleType, IdleSale DEF Codes
  <2>3. SalesOnFile'
    BY <2>1 DEF SoldOnce, SalesOnFile, Quoted
  <2> QED BY <2>1, <2>2, <2>3, SaleKept
<1>3. CASE UNCHANGED vars
  BY <1>3 DEF vars, SoldOnce, OneSale, SalesOnFile, Sole, Quoted
<1> QED BY <1>1, <1>2, <1>3, SaleBegins DEF Next

\* One sale is the rule over PostgreSQL, crashes or not.
LEMMA SaleInvariant == ASSUME Versioned PROVE Spec => [](Inv /\ VersionsOK /\ SoldOnce)
<1>1. Init => SoldOnce
  <2> SUFFICES ASSUME Init PROVE SoldOnce
    OBVIOUS
  <2>1. \A r \in Requests : req[r].pc = "idle"
    BY IdleType DEF Init, Codes
  <2>2. SalesOnFile
    BY DEF Init, SalesOnFile
  <2> QED BY <2>1, <2>2, IdleSale DEF SoldOnce, Sole
<1>2. Inv /\ VersionsOK /\ SoldOnce /\ [Next]_vars => SoldOnce'
  BY SaleNext
<1> QED BY <1>1, <1>2, VersionsInvariant, PTL DEF Spec

\* However many handlers calculate at once, and whichever die, equal requests are
\* answered with one quote.
THEOREM OneAnswer == ASSUME Versioned PROVE Spec => []SameRequestSameQuote
<1>1. SoldOnce => SameRequestSameQuote
  BY DEF SoldOnce, SalesOnFile, SameRequestSameQuote
<1> QED BY <1>1, SaleInvariant, PTL

\* A keyed calculation that was answered finds its record, and the record is its own.
LEMMA RepeatIsFound ==
    ASSUME Inv, SoldOnce, NEW r \in Requests, [Next]_vars,
           req[r].pc = "lookup", req[r].key # NoKey, Repeated(r, "calculateQuote")
    PROVE  \/ req'[r] = req[r]
           \/ req'[r].code = "crashed"
           \/ /\ req'[r].pc = "replay"
              /\ req'[r].quote = req[r].base.session.activeQuote
<1>1. /\ req \in [Requests -> Handlers] /\ req[r] \in Handlers
      /\ req[r].base # NoRow /\ req[r].op = "calculateQuote"
  BY DEF Inv, HandlersOK, HandlerOK, Repeated
<1>2. PICK a \in answers : /\ a.key = req[r].key /\ a.arg = req[r].arg
                           /\ a.quote = req[r].base.session.activeQuote
  BY DEF Repeated
<1>3. /\ Quoted(row) /\ a.quote = row.session.activeQuote
      /\ <<"client", req[r].key>> \in DOMAIN idem
      /\ idem[<<"client", req[r].key>>].fingerprint
            = CalculateFingerprint(row.session, req[r].arg)
  BY <1>2 DEF SoldOnce, SalesOnFile
<1>4. req[r].base = row
  BY <1>1, <1>2, <1>3 DEF SoldOnce, OneSale, Quoted
<1>5. /\ EffectiveKey(r) \in DOMAIN idem /\ RecordMatches(r)
      /\ idem[EffectiveKey(r)].quote = row.session.activeQuote
  <2>1. EffectiveKey(r) = <<"client", req[r].key>>
    BY <1>1 DEF EffectiveKey, CalculateKey
  <2>2. Fingerprint(r) = CalculateFingerprint(row.session, req[r].arg)
    BY <1>1, <1>4 DEF Fingerprint
  <2>3. /\ EffectiveKey(r) \in DOMAIN idem
        /\ idem[EffectiveKey(r)].fingerprint = Fingerprint(r)
    BY <1>3, <2>1, <2>2
  <2> HIDE DEF EffectiveKey
  <2> QED BY <1>1, <2>3 DEF RecordMatches, SoldOnce, SalesOnFile
<1>6. ASSUME NEW q \in Requests, Receive(q) PROVE req'[r] = req[r]
  <2>1. ~InFlight(q) /\ \E h : req' = [req EXCEPT ![q] = h]
    BY <1>6, ReceiveStep DEF Begins
  <2> QED BY <1>1, <2>1 DEF InFlight
<1>7. ASSUME NEW q \in Requests, q # r, Continue(q) \/ Crash(q) PROVE req'[r] = req[r]
  BY <1>1, <1>7 DEF Continue, Crash, Found, ComputeQuote, ComputeAdjustment, Compute,
     SaveInMemory, SelectVersion, InsertRow, UpdateRow, SaveQuote, SaveRecord,
     RecordEvent, Replay, Answer, Saved, Goto, End
<1>8. ASSUME Continue(r)
      PROVE  req'[r].pc = "replay" /\ req'[r].quote = req[r].base.session.activeQuote
  <2>1. Found(r)
    BY <1>5, <1>8 DEF Continue, ComputeQuote, ComputeAdjustment, Compute,
       SaveInMemory, SelectVersion, InsertRow, UpdateRow, SaveQuote, SaveRecord,
       RecordEvent, Replay
  <2> DEFINE quote == idem[EffectiveKey(r)].quote
             h == [req[r] EXCEPT !.pc = "replay", !.quote = quote]
  <2>2. req'[r] = h
    BY <1>1, <1>5, <2>1 DEF Found
  <2>3. quote = req[r].base.session.activeQuote
    BY <1>4, <1>5
  <2> HIDE DEF quote
  <2>4. h.pc = "replay" /\ h.quote = quote
    BY <1>1 DEF Handlers
  <2> QED BY <2>2, <2>3, <2>4
<1>9. ASSUME Crash(r) PROVE req'[r].code = "crashed"
  <2>1. req'[r] = Idle("crashed")
    BY <1>1, <1>9 DEF Crash, End
  <2> QED BY <2>1, IdleType DEF Codes
<1>10. CASE UNCHANGED vars
  BY <1>10 DEF vars
<1>11. CASE Next
  <2>1. PICK q \in Requests : Receive(q) \/ Continue(q) \/ Crash(q)
    BY <1>11 DEF Next
  <2> QED BY <1>6, <1>7, <1>8, <1>9, <2>1
<1> QED BY <1>10, <1>11

\* A client that repeats a keyed calculation under the rule version it was answered
\* under gets the quote again for as long as the quote stands, whatever else runs or
\* dies, and whichever rule versions other processes serve.
THEOREM RepeatsAnswered == ASSUME Versioned PROVE Spec => CalculateRepeatAnswered
<1>1. Inv /\ VersionsOK /\ SoldOnce /\ [Next]_vars =>
         [\A r \in Requests :
             /\ req[r].pc = "lookup"
             /\ req[r].key # NoKey
             /\ Repeated(r, "calculateQuote")
             => \/ req'[r] = req[r]
                \/ req'[r].code = "crashed"
                \/ /\ req'[r].pc = "replay"
                   /\ req'[r].quote = req[r].base.session.activeQuote]_vars
  BY RepeatIsFound
<1> QED BY <1>1, SaleInvariant, PTL DEF Spec, CalculateRepeatAnswered

-----------------------------------------------------------------------------
(* The books when handlers may die: each book holds no more than the one   *)
(* before it, since a handler that files a quote has saved the session     *)
(* that shows it.                                                          *)

Nested ==
    /\ \A r \in Requests : Prepared(req[r])
    /\ \A n \in audited : \E q \in history : q.quoteId = n
    /\ \A q \in history : q.quoteId \in Shown(row)
    /\ \A r \in Requests : req[r].pc \in Filing => req[r].quote.quoteId \in Shown(row)

\* One handler moves while the row stays, and adds to a book what the one before shows.
LEMMA NestedKept ==
    ASSUME Inv, Nested, NEW r \in Requests, NEW h, req' = [req EXCEPT ![r] = h],
           UNCHANGED row, Prepared(h),
           h.pc \in Filing => h.quote.quoteId \in Shown(row),
           history \subseteq history',
           \A q \in history' : q \in history \/ q.quoteId \in Shown(row),
           \A n \in audited' : n \in audited \/ \E q \in history' : q.quoteId = n
    PROVE  Nested'
<1>1. req'[r] = h /\ \A q \in Requests : q # r => req'[q] = req[q]
  BY OthersHold
<1>2. \A q \in Requests : Prepared(req'[q])
  BY <1>1 DEF Nested
<1>3. \A q \in Requests : req'[q].pc \in Filing => req'[q].quote.quoteId \in Shown(row)
  BY <1>1 DEF Nested
<1>4. /\ \A n \in audited' : \E q \in history' : q.quoteId = n
      /\ \A q \in history' : q.quoteId \in Shown(row)
  BY DEF Nested
<1> QED BY <1>2, <1>3, <1>4 DEF Nested, Shown

\* A handler that begins, looks up or dies files nothing.
LEMMA NestedBegins ==
    ASSUME Inv, Nested, NEW r \in Requests,
           Receive(r) \/ Found(r) \/ ComputeQuote(r) \/ ComputeAdjustment(r) \/ Crash(r)
    PROVE  Nested'
<1>1. ASSUME NEW h, h.pc = "idle" \/ Starting(h, row) \/ Looking(h, row)
      PROVE  Prepared(h) /\ h.pc \notin Filing
  BY <1>1 DEF Starting, Looking, Prepared, Writing, Filing
<1>2. ASSUME NEW h, h.pc = "idle" \/ Replaying(h, req[r]) \/ Issuing(h, req[r])
      PROVE  Prepared(h) /\ h.pc \notin Filing
  <2>1. CASE Issuing(h, req[r])
    <3>1. KeyOf(h) = KeyOf(req[r]) /\ h.op = req[r].op /\ h.base = req[r].base
      BY <2>1, SameRecord DEF Issuing, SameRequest
    <3> QED BY <2>1, <3>1 DEF Issuing, Prepared, Writing, Filing
  <2> QED BY <1>2, <2>1 DEF Replaying, Prepared, Writing, Filing
<1>3. CASE Receive(r)
  <2>1. Begins(r)
    BY <1>3, ReceiveStep
  <2> QED BY <1>1, <2>1, NestedKept DEF Begins
<1>4. CASE Found(r) \/ ComputeQuote(r) \/ ComputeAdjustment(r)
  <2>1. /\ UNCHANGED <<row, history, idem, audited, answers>>
        /\ \E h : /\ req' = [req EXCEPT ![r] = h]
                  /\ h.pc = "idle" \/ Replaying(h, req[r]) \/ Issuing(h, req[r])
    BY <1>4, LookupStep
  <2> QED BY <1>2, <2>1, NestedKept
<1>5. CASE Crash(r)
  <2>1. /\ req' = [req EXCEPT ![r] = Idle("crashed")] /\ Idle("crashed").pc = "idle"
        /\ UNCHANGED <<row, history, audited>>
    BY <1>5, IdleType DEF Crash, End, Codes
  <2> QED BY <1>1, <2>1, NestedKept
<1> QED BY <1>3, <1>4, <1>5

\* The session on file shows what it showed, and the quote its writer goes on to file.
LEMMA NestedWritten ==
    ASSUME Inv, Nested, Timely, NEW r \in Requests,
           SaveInMemory(r) \/ InsertRow(r) \/ UpdateRow(r)
    PROVE  Nested'
<1>1. /\ req[r].pc \in Writing
      /\ UNCHANGED <<history, idem, audited, issued, answers>>
  BY WriteStep
<1>2. PICK h : /\ req' = [req EXCEPT ![r] = h]
               /\ \/ h.pc = "idle" /\ UNCHANGED row
                  \/ /\ Due(r)
                     /\ row' # NoRow
                     /\ row'.session = req[r].doc.session
                     /\ IF req[r].quote = NoQuote THEN h.pc = "idle"
                        ELSE /\ h.pc = "saveQuote" /\ SameRequest(h, req[r])
                             /\ h.doc = req[r].doc /\ h.quote = req[r].quote
  BY WriteStep
<1>3. Prepared(h)
  BY <1>2 DEF Prepared, Writing
<1>4. CASE h.pc = "idle" /\ UNCHANGED row
  BY <1>1, <1>2, <1>3, <1>4, NestedKept DEF Filing
<1>5. CASE /\ Due(r)
           /\ row' # NoRow
           /\ row'.session = req[r].doc.session
           /\ IF req[r].quote = NoQuote THEN h.pc = "idle"
              ELSE h.pc = "saveQuote" /\ h.quote = req[r].quote
  <2>1. req'[r] = h /\ \A q \in Requests : q # r => req'[q] = req[q]
    BY <1>2, OthersHold
  <2>2. req[r].base = row /\ Prepared(req[r]) /\ req[r].doc # NoRow
    BY <1>1, <1>5 DEF Timely, Nested, Inv, HandlersOK, HandlerOK, Writing
  <2>3. Shown(row)' = Shown(req[r].doc)
    BY <1>5, <2>2 DEF Shown
  <2>4. /\ \A n \in Shown(row) : n \in Shown(row)'
        /\ req[r].quote # NoQuote => req[r].quote.quoteId \in Shown(row)'
    BY <1>1, <2>2, <2>3 DEF Prepared
  <2>5. \A q \in Requests : Prepared(req'[q])
    BY <1>3, <2>1 DEF Nested
  <2>6. h.pc \in Filing => h.quote.quoteId \in Shown(row)'
    BY <1>5, <2>4 DEF Filing
  <2>7. \A q \in Requests : req'[q].pc \in Filing => req'[q].quote.quoteId \in Shown(row)'
    BY <2>1, <2>4, <2>6 DEF Nested
  <2> QED BY <1>1, <2>4, <2>5, <2>7 DEF Nested, Shown
<1> QED BY <1>2, <1>4, <1>5

\* The quote joins the history of the session that shows it; its record follows.
LEMMA NestedFiled ==
    ASSUME Inv, Nested, NEW r \in Requests, SaveQuote(r) \/ SaveRecord(r)
    PROVE  Nested'
<1>1. PICK pc \in {"saveRecord", "audit"} : Goto(r, pc)
  BY DEF SaveQuote, SaveRecord
<1>2. /\ req[r].pc \in Filing
      /\ history' = history \/ history' = history \cup {req[r].quote}
      /\ UNCHANGED <<row, audited>>
  BY DEF SaveQuote, SaveRecord, Filing
<1>3. PICK h : /\ req' = [req EXCEPT ![r] = h]
               /\ h.pc = pc /\ h.quote = req[r].quote
  BY <1>1, GotoStep DEF Pcs
<1>4. Prepared(h) /\ req[r].quote.quoteId \in Shown(row)
  BY <1>2, <1>3 DEF Nested, Prepared, Writing
<1> QED BY <1>2, <1>3, <1>4, NestedKept

\* The event is of a quote of the history.
LEMMA NestedAnswered ==
    ASSUME Inv, Nested, NEW r \in Requests, RecordEvent(r) \/ Replay(r)
    PROVE  Nested'
<1>1. /\ req' = [req EXCEPT ![r] = Idle("ok")] /\ Idle("ok").pc = "idle"
      /\ UNCHANGED <<row, history>>
  BY IdleType DEF RecordEvent, Replay, Answer, End, Codes
<1>2. \A n \in audited' : n \in audited \/ \E q \in history : q.quoteId = n
  <2>1. CASE Replay(r)
    BY <2>1 DEF Replay
  <2>2. CASE RecordEvent(r)
    <3>1. /\ req[r].pc = "audit"
          /\ audited' = audited \cup {req[r].quote.quoteId}
      BY <2>2 DEF RecordEvent
    <3>2. req[r].quote \in history
      BY <3>1 DEF Inv, HandlersOK, HandlerOK
    <3> QED BY <3>1, <3>2
  <2> QED BY <2>1, <2>2
<1>3. Prepared(Idle("ok")) /\ Idle("ok").pc \notin Filing
  BY <1>1 DEF Prepared, Writing, Filing
<1> QED BY <1>1, <1>2, <1>3, NestedKept

\* As long as no write is lost no book gets ahead, whoever dies.
LEMMA NestedNext ==
    ASSUME Inv, Nested, Timely, [Next]_vars
    PROVE  Nested'
<1>1. ASSUME NEW r \in Requests, SelectVersion(r) PROVE Nested'
  <2>1. PICK pc \in {"insert", "update"} : Goto(r, pc)
    BY <1>1 DEF SelectVersion
  <2>2. /\ req[r].pc = "save"
        /\ UNCHANGED <<row, history, idem, audited, clock, issued, answers>>
    BY <1>1 DEF SelectVersion
  <2>3. PICK h : /\ req' = [req EXCEPT ![r] = h]
                 /\ h.pc = pc /\ SameRequest(h, req[r])
                 /\ h.doc = req[r].doc /\ h.quote = req[r].quote
    BY <2>1, GotoStep DEF Pcs
  <2>4. KeyOf(h) = KeyOf(req[r]) /\ h.op = req[r].op /\ h.base = req[r].base
    BY <2>3, SameRecord DEF SameRequest
  <2>5. Prepared(h)
    BY <2>2, <2>3, <2>4 DEF Nested, Prepared, Writing
  <2> QED BY <2>2, <2>3, <2>5, NestedKept DEF Filing
<1>2. ASSUME NEW r \in Requests, Continue(r) PROVE Nested'
  BY <1>1, <1>2, NestedBegins, NestedWritten, NestedFiled, NestedAnswered DEF Continue
<1>3. CASE UNCHANGED vars
  BY <1>3 DEF vars, Nested, Shown
<1> QED BY <1>2, <1>3, NestedBegins DEF Next

\* The nested books are those the run checks.
LEMMA BooksAreNested == Inv /\ Nested => BooksNested
<1> SUFFICES ASSUME Inv, Nested PROVE BooksNested
  OBVIOUS
<1>1. AnswersOnFile
  BY DEF Inv, BooksOK
<1>2. audited \subseteq {q.quoteId : q \in history}
  BY DEF Nested
<1>3. \A q \in history : row # NoRow /\ q.quoteId \in QuoteIds(row.session)
  BY DEF Nested, Shown
<1> QED BY <1>1, <1>2, <1>3 DEF BooksNested

\* Whichever handler dies or is refused between its writes, an event of the audit
\* trail is of a quote of the history, and a quote of the history is one the session
\* on file shows: of a client that waits for its answers, over either store, and of
\* any handlers together where the version column guards the row.
THEOREM BooksNeverAhead == ASSUME Alone \/ Versioned PROVE Spec => []BooksNested
<1>1. Init => Nested
  <2> SUFFICES ASSUME Init PROVE Nested
    OBVIOUS
  <2>1. \A r \in Requests : req[r].pc = "idle"
    BY IdleType DEF Init, Codes
  <2>2. history = {} /\ audited = {}
    BY DEF Init
  <2> QED BY <2>1, <2>2 DEF Nested, Prepared, Writing, Filing
<1>2. CASE Alone
  <2>1. Inv /\ Nested /\ LoneOK /\ [Next]_vars => (Inv /\ Nested /\ LoneOK)'
    BY <1>2, InvNext, NestedNext, LoneNext, TimelyWrites
  <2> QED BY <2>1, <1>1, InvInit, BooksInit, BooksAreNested, PTL DEF Spec
<1>3. CASE Versioned
  <2>1. Inv /\ VersionsOK /\ Nested /\ [Next]_vars => Nested'
    BY <1>3, NestedNext, TimelyWrites
  <2>2. Spec => [](Inv /\ VersionsOK)
    BY <1>3, VersionsInvariant
  <2> QED BY <2>1, <2>2, <1>1, BooksAreNested, PTL DEF Spec
<1> QED BY <1>2, <1>3
=============================================================================
