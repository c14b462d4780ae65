---------------------------- MODULE FunnelEngine ----------------------------
(***************************************************************************)
(* FunnelEngine serving concurrent requests on one session.  A handler     *)
(* runs from one await to the next without interruption; between two       *)
(* awaits other handlers run, in this process or in another one that       *)
(* shares the database.  A handler works on a copy of the session it       *)
(* loaded, and writes it back whole.                                       *)
(*                                                                         *)
(* The store is the in-memory map, whose saveSession overwrites, or        *)
(* PostgreSQL, whose saveSession compares and swaps the version column.    *)
(* The audit log is reduced to the quotes its events mention.              *)
(***************************************************************************)
EXTENDS FunnelDomain, FiniteSets

CONSTANTS
    Requests,      \* handlers that may be in flight together
    Postgres,      \* PERSISTENCE_MODE: TRUE for postgres, FALSE for memory
    Crashes,       \* a handler may die between two awaits
    Corrections,   \* deltas of correct_field
    Adjustments,   \* coverage forms of adjust_quote
    RuleVersions,  \* rule versions active in the processes that serve the session
    ClientKeys,    \* idempotency keys clients choose
    NoKey,         \* the request carries none
    NoRow,         \* the session has no row in the store
    MaxQuotes,     \* bound on the quotes computed
    MaxClock,      \* bound on the time stamps handed out
    MaxVersion     \* bound on the session versions requests start from

Keys == ClientKeys \cup {NoKey}

\* A session, and the version it carries.
Documents == [session : Sessions, version : Nat]

ASSUME EngineAssumption ==
    /\ NoRow \notin Documents
    /\ Postgres \in BOOLEAN
    /\ Crashes \in BOOLEAN
    /\ NoKey \notin ClientKeys
    /\ Corrections \subseteq CorrectionInputs
    /\ Adjustments \subseteq [CoverageFields -> Partial(Values)]
    /\ MaxQuotes \in Nat /\ MaxClock \in Nat /\ MaxVersion \in Nat

VARIABLES
    row,       \* the session's row: its document, and the version column
    history,   \* quote_history: the quotes saved
    idem,      \* idempotency_records: a function from the keys in use
    audited,   \* the quotes with a quote.calculated or quote.adjusted event
    clock,     \* the time stamp last handed out
    issued,    \* the quote identifiers handed out are 1..issued
    req,       \* what each handler holds
    answers    \* history: the quotes returned to clients

vars == <<row, history, idem, audited, clock, issued, req, answers>>

\* A handler between requests; code tells how its last one ended.  arg is the coverage
\* form of an adjustment, and the rule version a calculation is served under.
Idle(code) == [pc |-> "idle", code |-> code, op |-> "none", arg |-> NoKey,
               key |-> NoKey, base |-> NoRow, doc |-> NoRow, quote |-> NoQuote]

InFlight(r) == req[r].pc # "idle"

Init == /\ row = NoRow
        /\ history = {}
        /\ idem = << >>
        /\ audited = {}
        /\ clock = 0
        /\ issued = 0
        /\ req = [r \in Requests |-> Idle("none")]
        /\ answers = {}

End(r, code) == req' = [req EXCEPT ![r] = Idle(code)]

Goto(r, pc) == req' = [req EXCEPT ![r].pc = pc]

-----------------------------------------------------------------------------
(* Handlers of one save: requireSession and the synchronous part that      *)
(* follows it are one step, saveSession comes later.                       *)

Saving(op, s, version) ==
    [Idle("none") EXCEPT !.pc = "save", !.op = op, !.base = row,
                         !.doc = [row EXCEPT !.session = s, !.version = version]]

Load(r) == /\ ~InFlight(r)
           /\ row # NoRow
           /\ row.version <= MaxVersion

\* The handler goes on to save session s, or throws if it may not.
Handle(r, op, may, s) ==
    /\ Load(r)
    /\ req' = [req EXCEPT ![r] = IF may THEN Saving(op, s, row.version)
                                 ELSE Idle("refused")]
    /\ UNCHANGED <<row, history, idem, audited, clock, issued, answers>>

StartSession(r) ==
    /\ ~InFlight(r)
    /\ row = NoRow
    /\ \A q \in Requests : ~InFlight(q)      \* its identifier is fresh
    /\ req' = [req EXCEPT ![r] =
                 [Idle("none") EXCEPT !.pc = "save", !.op = "startSession",
                     !.doc = [session |-> StartedSession, version |-> 1]]]
    /\ UNCHANGED <<row, history, idem, audited, clock, issued, answers>>

SubmitPropertyBasics(r, form) ==
    Handle(r, "submitPropertyBasics",
           MayMove(row.session, {"COLLECTING_PROPERTY"}, "COLLECTING_RISK"),
           Declared(row.session, form, "COLLECTING_RISK"))

SubmitRiskFactors(r, form) ==
    Handle(r, "submitRiskFactors",
           MayMove(row.session, {"COLLECTING_RISK", "COLLECTING_PROPERTY"},
                   "EVALUATING_ELIGIBILITY"),
           Declared(row.session, form, "EVALUATING_ELIGIBILITY"))

\* The pricing port's answer depends on nothing here but the copy it is asked about.
EvaluateEligibility(r) ==
    Handle(r, "evaluateEligibility", MayEvaluate(row.session), Evaluate(row.session))

SelectCoverage(r, form, email) ==
    Handle(r, "selectCoverage",
           MayMove(row.session, {"COLLECTING_COVERAGE", "EVALUATING_ELIGIBILITY"},
                   "AWAITING_CONFIRMATION"),
           Covered(row.session, form, email))

Confirm(r) ==
    /\ clock < MaxClock
    /\ Load(r)
    /\ MayConfirm(row.session)
    /\ clock' = clock + 1
    /\ req' = [req EXCEPT ![r] = Saving("confirmParameters",
                                        ConfirmParameters(row.session, clock'),
                                        row.version)]
    /\ UNCHANGED <<row, history, idem, audited, issued, answers>>

SubmitConsent(r) ==
    /\ clock < MaxClock
    /\ Load(r)
    /\ MayConsent(row.session)
    /\ clock' = clock + 1
    /\ req' = [req EXCEPT ![r] = Saving("submitConsent",
                                        GrantConsent(row.session, clock'),
                                        row.version)]
    /\ UNCHANGED <<row, history, idem, audited, issued, answers>>

\* applyCorrection counts the version up on the copy, before it is saved.
CorrectField(r, delta) ==
    /\ Load(r)
    /\ req' = [req EXCEPT ![r] = Saving("correctField",
                                        ApplyCorrection(row.session, delta),
                                        row.version + 1)]
    /\ UNCHANGED <<row, history, idem, audited, clock, issued, answers>>

-----------------------------------------------------------------------------
(* calculateQuote and adjustQuote: the idempotency record is looked up at  *)
(* the first await after the load.                                         *)

\* A key the client chose, or the one the handler derives.
CalculateKey(key, version) ==
    IF key # NoKey THEN <<"client", key>> ELSE <<"quote_calc", version>>

AdjustKey(key, form) ==
    IF key # NoKey THEN <<"client", key>> ELSE <<"adjust", form>>

CalculateFingerprint_WithStep(s, ruleVersion) ==         \* mutant
    <<ValidatedInput(s.input), s.step, ruleVersion, s.consentGrantedAt,
      s.parametersConfirmedAt>>

CalculateFingerprint(s, ruleVersion) ==
    <<ValidatedInput(s.input), ruleVersion, s.consentGrantedAt, s.parametersConfirmedAt>>

AdjustFingerprint(s, form) ==
    <<WithCoverage(s, form).input.coverage, s.activeQuote.quoteId>>

LookingUp(op, arg, key) ==
    [Idle("none") EXCEPT !.pc = "lookup", !.op = op, !.arg = arg, !.key = key,
                         !.base = row, !.doc = row]

\* Over PostgreSQL the next process may have another rule version active.
CalculateQuote(r, ruleVersion, key) ==
    /\ Load(r)
    /\ req' = [req EXCEPT ![r] =
                 IF ReadyToQuote(row.session) /\ InputsValid(row.session.input)
                 THEN LookingUp("calculateQuote", ruleVersion, key)
                 ELSE Idle("refused")]
    /\ UNCHANGED <<row, history, idem, audited, clock, issued, answers>>

AdjustQuote(r, form, key) ==
    /\ Load(r)
    /\ req' = [req EXCEPT ![r] = IF row.session.activeQuote # NoQuote
                                 THEN LookingUp("adjustQuote", form, key)
                                 ELSE Idle("refused")]
    /\ UNCHANGED <<row, history, idem, audited, clock, issued, answers>>

\* The handler computed its key from the version it loaded.
EffectiveKey(r) == IF req[r].op = "calculateQuote"
                   THEN CalculateKey(req[r].key, req[r].base.version)
                   ELSE AdjustKey(req[r].key, req[r].arg)

Fingerprint(r) == IF req[r].op = "calculateQuote"
                  THEN CalculateFingerprint(req[r].base.session, req[r].arg)
                  ELSE AdjustFingerprint(req[r].base.session, req[r].arg)

\* The record answers this very request.
RecordMatches(r) == LET record == idem[EffectiveKey(r)]
                    IN /\ record.operation = req[r].op
                       /\ record.fingerprint = Fingerprint(r)

Found_DropsQuote(r) ==                                   \* mutant
    /\ req[r].pc = "lookup"
    /\ EffectiveKey(r) \in DOMAIN idem
    /\ IF RecordMatches(r) THEN Goto(r, "replay")
       ELSE End(r, "IDEMPOTENCY_KEY_CONFLICT")
    /\ UNCHANGED <<row, history, idem, audited, clock, issued, answers>>

Found(r) ==
    /\ req[r].pc = "lookup"
    /\ EffectiveKey(r) \in DOMAIN idem
    /\ IF RecordMatches(r)
       THEN req' = [req EXCEPT ![r].pc = "replay",
                               ![r].quote = idem[EffectiveKey(r)].quote]
       ELSE End(r, "IDEMPOTENCY_KEY_CONFLICT")
    /\ UNCHANGED <<row, history, idem, audited, clock, issued, answers>>

\* The handler has no record to replay: it goes on to save session s, whose
\* active quote is new, or throws if it may not.
Compute(r, may, code, s, version) ==
    /\ req[r].pc = "lookup"
    /\ EffectiveKey(r) \notin DOMAIN idem
    /\ IF may
       THEN /\ issued < MaxQuotes
            /\ issued' = issued + 1
            /\ req' = [req EXCEPT ![r].pc = "save",
                                  ![r].quote = s.activeQuote,
                                  ![r].doc = [session |-> s, version |-> version]]
       ELSE /\ End(r, code)
            /\ UNCHANGED issued
    /\ UNCHANGED <<row, history, idem, audited, clock, answers>>

ComputeQuote_BumpsVersion(r) ==                          \* mutant
    /\ req[r].op = "calculateQuote"
    /\ LET doc == req[r].doc
       IN Compute(r, MayIssue(doc.session), "INVALID_STATE_TRANSITION",
                  Issue(doc.session, issued + 1), doc.version + 1)

\* The session must still be able to move to QUOTED.
ComputeQuote(r) ==
    /\ req[r].op = "calculateQuote"
    /\ LET doc == req[r].doc
       IN Compute(r, MayIssue(doc.session), "INVALID_STATE_TRANSITION",
                  Issue(doc.session, issued + 1), doc.version)

\* adjustQuote counts the version up on the copy, before it is saved.
ComputeAdjustment(r) ==
    /\ req[r].op = "adjustQuote"
    /\ LET doc == req[r].doc
       IN Compute(r, MayAdjust(doc.session), "INVALID_INPUT",
                  Adjust(doc.session, req[r].arg, issued + 1), doc.version + 1)

-----------------------------------------------------------------------------
(* saveSession, and what follows it *)

\* A handler whose session is saved has a quote to file, or is done.
Saved(r) == IF req[r].quote = NoQuote THEN End(r, "ok") ELSE Goto(r, "saveQuote")

\* Writes only what the handler changed, over whatever is on file.
SaveInMemory_Patches(r) ==                               \* mutant
    /\ ~Postgres
    /\ req[r].pc = "save"
    /\ LET doc == req[r].doc
           was == IF req[r].base = NoRow THEN doc.session ELSE req[r].base.session
           now == IF row = NoRow THEN doc.session ELSE row.session
       IN row' = [doc EXCEPT !.session = [f \in DOMAIN doc.session |->
                      IF doc.session[f] = was[f] THEN now[f] ELSE doc.session[f]]]
    /\ Saved(r)
    /\ UNCHANGED <<history, idem, audited, clock, issued, answers>>

\* The in-memory map takes whatever it is given.
SaveInMemory(r) ==
    /\ ~Postgres
    /\ req[r].pc = "save"
    /\ row' = req[r].doc
    /\ Saved(r)
    /\ UNCHANGED <<history, idem, audited, clock, issued, answers>>

\* PostgreSQL: SELECT version, then INSERT or UPDATE.
SelectVersion(r) ==
    /\ Postgres
    /\ req[r].pc = "save"
    /\ Goto(r, IF row = NoRow THEN "insert" ELSE "update")
    /\ UNCHANGED <<row, history, idem, audited, clock, issued, answers>>

InsertRow(r) ==
    /\ req[r].pc = "insert"
    /\ row = NoRow
    /\ row' = [req[r].doc EXCEPT !.version = 1]
    /\ Saved(r)
    /\ UNCHANGED <<history, idem, audited, clock, issued, answers>>

UpdateRow_Unchecked(r) ==                                \* mutant
    /\ req[r].pc = "update"
    /\ row' = [req[r].doc EXCEPT !.version = @ + 1]
    /\ Saved(r)
    /\ UNCHANGED <<history, idem, audited, clock, issued, answers>>

UpdateRow_IgnoresCount(r) ==                             \* mutant
    /\ req[r].pc = "update"
    /\ row' = IF row.version = req[r].doc.version
              THEN [req[r].doc EXCEPT !.version = @ + 1] ELSE row
    /\ Saved(r)
    /\ UNCHANGED <<history, idem, audited, clock, issued, answers>>

\* UPDATE ... WHERE version = the version of the copy.
UpdateRow(r) ==
    /\ req[r].pc = "update"
    /\ IF row.version = req[r].doc.version
       THEN /\ row' = [req[r].doc EXCEPT !.version = @ + 1]
            /\ Saved(r)
       ELSE /\ End(r, "CONCURRENT_MODIFICATION")
            /\ UNCHANGED row
    /\ UNCHANGED <<history, idem, audited, clock, issued, answers>>

SaveQuote(r) ==
    /\ req[r].pc = "saveQuote"
    /\ history' = history \cup {req[r].quote}
    /\ Goto(r, "saveRecord")
    /\ UNCHANGED <<row, idem, audited, clock, issued, answers>>

\* INSERT ... ON CONFLICT DO NOTHING: the first record of a key stays.
SaveRecord(r) ==
    /\ req[r].pc = "saveRecord"
    /\ LET key == EffectiveKey(r)
       IN idem' = [k \in DOMAIN idem \cup {key} |->
                     IF k \in DOMAIN idem THEN idem[k]
                     ELSE [operation   |-> req[r].op,
                           fingerprint |-> Fingerprint(r),
                           quote       |-> req[r].quote]]
    /\ Goto(r, "audit")
    /\ UNCHANGED <<row, history, audited, clock, issued, answers>>

Answer(r) ==
    /\ answers' = answers \cup {[op |-> req[r].op, arg |-> req[r].arg,
                                 key |-> req[r].key, base |-> Fingerprint(r),
                                 quote |-> req[r].quote]}
    /\ End(r, "ok")

RecordEvent_CalculationsOnly(r) ==                       \* mutant
    /\ req[r].pc = "audit"
    /\ audited' = IF req[r].op = "calculateQuote"
                  THEN audited \cup {req[r].quote.quoteId} ELSE audited
    /\ Answer(r)
    /\ UNCHANGED <<row, history, idem, clock, issued>>

RecordEvent(r) ==
    /\ req[r].pc = "audit"
    /\ audited' = audited \cup {req[r].quote.quoteId}
    /\ Answer(r)
    /\ UNCHANGED <<row, history, idem, clock, issued>>

\* The request.replayed event, and the quote of the record.
Replay(r) ==
    /\ req[r].pc = "replay"
    /\ Answer(r)
    /\ UNCHANGED <<row, history, idem, audited, clock, issued>>

\* The process dies, or a call of the handler to the database fails.
Crash(r) ==
    /\ Crashes
    /\ InFlight(r)
    /\ End(r, "crashed")
    /\ UNCHANGED <<row, history, idem, audited, clock, issued, answers>>

-----------------------------------------------------------------------------

Receive(r) ==
    \/ StartSession(r)
    \/ \E form \in [PropertyFields -> Values] : SubmitPropertyBasics(r, form)
    \/ \E form \in [FactorFields -> Values] : SubmitRiskFactors(r, form)
    \/ EvaluateEligibility(r)
    \/ \E form \in [CoverageFields -> Partial(Values)], email \in Partial(Emails) :
          SelectCoverage(r, form, email)
    \/ Confirm(r)
    \/ SubmitConsent(r)
    \/ \E ruleVersion \in RuleVersions, key \in Keys : CalculateQuote(r, ruleVersion, key)
    \/ \E form \in Adjustments, key \in Keys : AdjustQuote(r, form, key)
    \/ \E delta \in Corrections : CorrectField(r, delta)

Continue(r) ==
    \/ Found(r)
    \/ ComputeQuote(r)
    \/ ComputeAdjustment(r)
    \/ SaveInMemory(r)
    \/ SelectVersion(r)
    \/ InsertRow(r)
    \/ UpdateRow(r)
    \/ SaveQuote(r)
    \/ SaveRecord(r)
    \/ RecordEvent(r)
    \/ Replay(r)

Next == \E r \in Requests : Receive(r) \/ Continue(r) \/ Crash(r)

Spec == Init /\ [][Next]_vars

\* A handler in flight goes on: the event loop runs it, and what it awaits
\* answers.  A customer who has consented asks for the quote until it is there.
Fairness == /\ \A r \in Requests : WF_vars(Continue(r))
            /\ WF_vars(\E r \in Requests, ruleVersion \in RuleVersions :
                          CalculateQuote(r, ruleVersion, NoKey))

FairSpec == Spec /\ Fairness

-----------------------------------------------------------------------------
(* Properties *)

Pcs == {"idle", "lookup", "replay", "save", "insert", "update", "saveQuote",
        "saveRecord", "audit"}

Codes == {"none", "ok", "refused", "crashed", "CONCURRENT_MODIFICATION",
          "IDEMPOTENCY_KEY_CONFLICT", "INVALID_STATE_TRANSITION", "INVALID_INPUT"}

Ops == {"none", "startSession", "submitPropertyBasics", "submitRiskFactors",
        "evaluateEligibility", "selectCoverage", "confirmParameters",
        "submitConsent", "correctField", "calculateQuote", "adjustQuote"}

Handlers == [pc : Pcs, code : Codes, op : Ops,
             arg : Adjustments \cup RuleVersions \cup {NoKey}, key : Keys,
             base : Documents \cup {NoRow}, doc : Documents \cup {NoRow},
             quote : Quotes \cup {NoQuote}]

\* The row, the records, the answers and the copies handlers hold are well formed,
\* and what a handler replays or files is a quote.
TypeOK ==
    /\ row \in Documents \cup {NoRow}
    /\ history \subseteq Quotes
    /\ audited \subseteq 1..issued
    /\ clock \in 0..MaxClock
    /\ issued \in 0..MaxQuotes
    /\ \A k \in DOMAIN idem : idem[k].quote \in Quotes
    /\ req \in [Requests -> Handlers]
    /\ \A r \in Requests : InFlight(r) => req[r].doc # NoRow
    /\ \A a \in answers : a.quote \in Quotes

\* However requests interleave, the session on file never carries a quote
\* without consent, confirmation and eligibility, or for other terms than its own.
StoredQuoteGate == row # NoRow => QuoteBacked(row.session)

\* Whatever a write of the in-memory map replaces, be it an evaluation over a correction
\* that came behind its load or the other way round, the eligibility verdict on file is
\* the one the risk on file deserves: verdict and risk are written together.
StoredEligibilityCurrent == row # NoRow => VerdictCurrent(row.session)

\* A write of the session replaces exactly the document the writer had loaded:
\* no other handler's write is lost.
NoLostUpdate ==
    [][\A r \in Requests :
          /\ row' # row
          /\ req[r].pc \in {"save", "update", "insert"}
          /\ req'[r].pc \notin {"save", "update", "insert"}
          /\ req'[r].code \notin {"crashed", "CONCURRENT_MODIFICATION"}
          => row = req[r].base]_vars

\* A request is refused with CONCURRENT_MODIFICATION only if another request
\* wrote the session since this one loaded it.
ConflictIsReal ==
    [][\A r \in Requests :
          /\ req[r].pc = "update"
          /\ req'[r].code = "CONCURRENT_MODIFICATION"
          => row # req[r].base]_vars

\* Requests that are the same request -- same operation, key and payload on the
\* same session state -- are answered with the same quote.
SameRequestSameQuote ==
    \A a, b \in answers :
        /\ a.op = b.op /\ a.arg = b.arg /\ a.key = b.key /\ a.base = b.base
        => a.quote = b.quote

\* An idempotency record only ever replays a quote that is in the quote history,
\* and a client is only ever answered with such a quote.
AnswersOnFile ==
    /\ \A k \in DOMAIN idem : idem[k].quote \in history
    /\ \A a \in answers : a.quote \in history

\* A handler that dies, or is refused, between its four writes leaves a book short
\* but never ahead: besides what is replayed or answered, every quote with an event
\* in the audit trail is in the quote history, and the session on file shows every
\* quote of the history.
BooksNested ==
    /\ AnswersOnFile
    /\ audited \subseteq {q.quoteId : q \in history}
    /\ \A q \in history : row # NoRow /\ q.quoteId \in QuoteIds(row.session)

Quiet == \A r \in Requests : ~InFlight(r)

\* Unless a handler died, the books agree when no request is in flight, whichever
\* requests overwrote each other on the way: every quote the session shows is in the
\* quote history, and every quote of the history has its event in the audit trail.
BooksAgree ==
    Quiet /\ row # NoRow =>
        /\ QuoteIds(row.session) \subseteq {q.quoteId : q \in history}
        /\ \A q \in history : q.quoteId \in audited

\* A request repeated on the session it was answered for, its quote still the
\* active one; a calculation also under the rule version it was answered under.
Repeated(r, op) ==
    /\ req[r].op = op
    /\ \E a \in answers : /\ a.op = op /\ a.arg = req[r].arg /\ a.key = req[r].key
                          /\ a.quote = req[r].base.session.activeQuote

\* A keyed calculation repeated like that is answered with the quote that stands, and
\* not refused: neither for the step the session is in nor as a conflict of keys.
CalculateRepeatAnswered ==
    [][\A r \in Requests :
          /\ req[r].pc = "lookup"
          /\ req[r].key # NoKey
          /\ Repeated(r, "calculateQuote")
          => \/ req'[r] = req[r]
             \/ req'[r].code = "crashed"
             \/ /\ req'[r].pc = "replay"
                /\ req'[r].quote = req[r].base.session.activeQuote]_vars

\* The same of an adjustment, with or without a key: at least no conflict of keys.
AdjustRepeatAnswered ==
    [][\A r \in Requests :
          req[r].pc = "lookup" /\ Repeated(r, "adjustQuote")
          => req'[r].code # "IDEMPOTENCY_KEY_CONFLICT"]_vars

\* Requests that conflict do not starve each other: a session that is ready to
\* quote and eligible gets its quote, if it is asked for.
ConsentedGetsQuoted ==
    row # NoRow /\ row.session.step = "READY_TO_QUOTE"
                /\ row.session.eligibility = "eligible"
    ~> row # NoRow /\ row.session.step = "QUOTED"

Promise == INSTANCE QuoteContract
              WITH Risks     <- EligibleRisks,
                   Coverages <- [CoverageFields -> Values],
                   NoTerms   <- NoQuote,
                   stage     <- IF row = NoRow THEN "gathering" ELSE Stage(row.session),
                   terms     <- IF row = NoRow THEN NoQuote ELSE SettledTerms(row.session),
                   offer     <- IF row = NoRow THEN NoQuote ELSE Offer(row.session)

\* Seen from the store, requests that interleave, are refused and die keep the
\* customer's contract, which knows of one request at a time.
StoreKeepsContract == Promise!Spec
=============================================================================
