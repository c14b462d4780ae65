----------------------------- MODULE FlowProofs -----------------------------
(***************************************************************************)
(* Theorems about WaniwaniFlow, for every number of turns in flight, every *)
(* form, reply and bound.                                                  *)
(***************************************************************************)
EXTENDS WaniwaniFlow, TLAPS

(* The inductive invariant.  Where a turn is, or the node a conversation   *)
(* waits at, tells what the state has been through.                        *)

\* The nodes before the customer is asked to confirm, those behind the
\* confirmation, those behind the consent, and those behind the verdict.
Early  == {"collect_property", "collect_risk", "evaluate_eligibility", "evaluating",
           "select_coverage"}
Agreed == {"calculate_quote", "reevaluating", "pricing", "recording"}
Sealed == Agreed \cup {"request_consent"}
Late   == Sealed \cup {"select_coverage", "confirm_parameters"}

Acceptable(s) == /\ s.eligibilityStatus # "referral_required"
                 /\ ~s.strayed => Built(s.input).risk \in EligibleRisks

Confirmed(s) == s.parametersConfirmed = "yes" /\ s.settled

\* What FlowQuoteGate says of one state.
Gated(s) ==
    s.quote # NoQuote =>
        /\ s.hasConsented = "yes"
        /\ s.eligibilityStatus # "referral_required"
        /\ s.quote.input = Built(s.input)
        /\ ~s.strayed => /\ s.quote.input.risk \in EligibleRisks
                         /\ s.parametersConfirmed = "yes" /\ s.settled

\* A state held at a node, or by a conversation that waits there.
HeldAt(place, s) ==
    /\ place = "END" => Gated(s)
    /\ place # "END" => s.quote = NoQuote
    /\ place \in Late => Acceptable(s)
    /\ place \in Agreed => s.hasConsented = "yes"
    /\ ~s.strayed =>
          /\ place \in Early => s.parametersConfirmed = "no"
          /\ place = "confirm_parameters" => s.parametersConfirmed = "no" \/ s.settled
          /\ place \in Sealed => Confirmed(s)

\* A node asks for fields of its own form only.
AskedAt(step, asked) ==
    /\ step \in {"collect_property", "collect_risk"} => asked \subseteq StructuralFields
    /\ step = "select_coverage" => asked \subseteq CoverageFields
    /\ step = "confirm_parameters" => asked \subseteq {"parametersConfirmed"}
    /\ step = "request_consent" => asked \subseteq {"hasConsented"}

\* What is on file, or about to be.
RowOK(row) == HeldAt(row.step, row.state) /\ AskedAt(row.step, row.asked)

\* A turn, and the call it awaits.
TurnOK(w, c) ==
    /\ w.at \notin {"idle", "saving"} => HeldAt(w.at, w.state)
    /\ w.at = "saving" => RowOK(w)
    /\ w.at = "evaluate_eligibility" => Missing(w.state.input.risk, FactorFields) = {}
    /\ w.at \in {"evaluating", "reevaluating", "pricing"} => c.input = Built(w.state.input)
    /\ w.at = "pricing" => w.ruleVersion \in RuleVersions
    /\ w.at = "recording" => /\ w.quote \in FlowQuotes
                             /\ w.quote.input = Built(w.state.input)
    /\ c.answer # NoAnswer =>
          (c.answer.status = "eligible" <=> c.input.risk \in EligibleRisks)

Labelled(q) == q = NoQuote \/ q.rolled \/ q.ruleVersion = q.pricing

\* A quote a state shows is in the book of audited quotes and bears the version
\* that priced it, or is marked.
ShownOK(s, book) == /\ s.quote # NoQuote => s.quote.quoteId \in book
                    /\ Labelled(s.quote)

\* On its way to a quote a turn meets one rule version, or is marked.
MarksOK(w, c, book, version) ==
    /\ w.at # "idle" => ShownOK(w.state, book)
    /\ ~w.rolled =>
          /\ w.at = "reevaluating" /\ c.answer # NoAnswer => c.answer.ruleVersion = version
          /\ w.at = "pricing" /\ c.answer = NoAnswer => w.ruleVersion = version
          /\ w.at = "pricing" /\ c.answer # NoAnswer => c.answer.ruleVersion = w.ruleVersion
    /\ w.at = "recording" => Labelled(w.quote)

FlowInv == /\ flow # NoFlow => RowOK(flow) /\ ShownOK(flow.state, audited)
           /\ \A t \in Callers : /\ TurnOK(turn[t], call[t])
                                 /\ MarksOK(turn[t], call[t], audited, active)

\* The quote a turn is about to record has been numbered.
Numbered == \A t \in Callers : turn[t].at = "recording" =>
                turn[t].quote \in FlowQuotes /\ turn[t].quote.quoteId \in 1..issued

TypeInv == TypeOK /\ Numbered

Inv == TypeInv /\ FlowInv

-----------------------------------------------------------------------------
(* What the operators return *)

\* Merging a reply into the input of a state (the flow library's stateUpdates)
\* gives an input.
LEMMA MergedType ==
    ASSUME NEW input \in Inputs, NEW delta \in Inputs
    PROVE  Merged(input, delta) \in Inputs
<1>1. /\ input.risk \in [StructuralFields -> Partial(Values)]
      /\ delta.risk \in [StructuralFields -> Partial(Values)]
      /\ input.coverage \in [CoverageFields -> Partial(Values)]
      /\ delta.coverage \in [CoverageFields -> Partial(Values)]
      /\ input.email \in Partial(Emails) /\ delta.email \in Partial(Emails)
  BY DEF Inputs
<1>2. /\ Override(input.risk, delta.risk) \in [StructuralFields -> Partial(Values)]
      /\ Override(input.coverage, delta.coverage) \in [CoverageFields -> Partial(Values)]
  BY <1>1 DEF Override
<1> QED BY <1>1, <1>2 DEF Merged, Inputs

\* A reply that fills in nothing of a form leaves the form.
LEMMA BlankOverride ==
    ASSUME NEW D, NEW S, NEW old \in [D -> S], NEW new,
           \A f \in D : new[f] = NoValue
    PROVE  Override(old, new) = old
BY DEF Override

\* A reply leaves a state of the conversation.
LEMMA ReplyType ==
    ASSUME NEW s \in States, NEW a \in Replies, NEW asked
    PROVE  /\ WithReply(s, a, asked) \in States
           /\ WithReply(s, a, asked).input = Merged(s.input, a.input)
           /\ WithReply(s, a, asked).parametersConfirmed
                 = Said(a.parametersConfirmed, s.parametersConfirmed)
           /\ WithReply(s, a, asked).hasConsented = Said(a.hasConsented, s.hasConsented)
           /\ WithReply(s, a, asked).eligibilityStatus = s.eligibilityStatus
           /\ WithReply(s, a, asked).quote = s.quote
<1> DEFINE input == Merged(s.input, a.input)
           confirmed == Said(a.parametersConfirmed, s.parametersConfirmed)
           consented == Said(a.hasConsented, s.hasConsented)
           settled == a.parametersConfirmed = "yes" \/ (s.settled /\ input = s.input)
           strayed == s.strayed \/ ~(AnsweredFields(a) \subseteq asked)
<1>1. input \in Inputs
  BY FlowAssumption, MergedType DEF States
<1>2. confirmed \in Flags /\ consented \in Flags
  BY FlowAssumption DEF Said, Partial, States
<1>3. settled \in BOOLEAN /\ strayed \in BOOLEAN
  BY Zenon DEF States
<1>4. WithReply(s, a, asked) =
        [s EXCEPT !.input = input, !.parametersConfirmed = confirmed,
                  !.hasConsented = consented, !.settled = settled, !.strayed = strayed]
  BY Zenon DEF WithReply, States
<1> HIDE DEF input, confirmed, consented, settled, strayed
<1>5. /\ WithReply(s, a, asked) \in States
      /\ WithReply(s, a, asked).input = input
      /\ WithReply(s, a, asked).parametersConfirmed = confirmed
      /\ WithReply(s, a, asked).hasConsented = consented
      /\ WithReply(s, a, asked).eligibilityStatus = s.eligibilityStatus
      /\ WithReply(s, a, asked).quote = s.quote
  BY <1>1, <1>2, <1>3, <1>4 DEF States
<1> QED BY <1>5, Zenon DEF input, confirmed, consented, settled, strayed

\* ... and the history of what the customer settled, and of answers out of turn.
LEMMA ReplyMarks ==
    ASSUME NEW s \in States, NEW a \in Replies, NEW asked
    PROVE  /\ WithReply(s, a, asked).settled <=>
                 a.parametersConfirmed = "yes"
                    \/ (s.settled /\ Merged(s.input, a.input) = s.input)
           /\ WithReply(s, a, asked).strayed <=>
                 s.strayed \/ ~(AnsweredFields(a) \subseteq asked)
<1> DEFINE input == Merged(s.input, a.input)
           confirmed == Said(a.parametersConfirmed, s.parametersConfirmed)
           consented == Said(a.hasConsented, s.hasConsented)
           settled == a.parametersConfirmed = "yes" \/ (s.settled /\ input = s.input)
           strayed == s.strayed \/ ~(AnsweredFields(a) \subseteq asked)
<1>1. input \in Inputs
  BY FlowAssumption, MergedType DEF States
<1>2. confirmed \in Flags /\ consented \in Flags
  BY FlowAssumption DEF Said, Partial, States
<1>3. settled \in BOOLEAN /\ strayed \in BOOLEAN
  BY Zenon DEF States
<1>4. WithReply(s, a, asked) =
        [s EXCEPT !.input = input, !.parametersConfirmed = confirmed,
                  !.hasConsented = consented, !.settled = settled, !.strayed = strayed]
  BY Zenon DEF WithReply, States
<1> HIDE DEF input, confirmed, consented, settled, strayed
<1>5. /\ WithReply(s, a, asked).settled = settled
      /\ WithReply(s, a, asked).strayed = strayed
  BY <1>1, <1>2, <1>3, <1>4 DEF States
<1> QED BY <1>5, Zenon DEF input, confirmed, consented, settled, strayed

\* What buildValidatedQuoteInput parses is an input.
LEMMA BuiltType ==
    ASSUME NEW input \in Inputs
    PROVE  Built(input) \in Inputs
<1> DEFINE valid == ValidatedInput(input)
           risk == [f \in StructuralFields |->
                      IF input.risk[f] = NoValue /\ f \in DOMAIN FactorDefaults
                      THEN FactorDefaults[f] ELSE input.risk[f]]
<1>1. /\ input.risk \in [StructuralFields -> Partial(Values)]
      /\ input.coverage \in [CoverageFields -> Partial(Values)]
      /\ DefaultCoverage \in [CoverageFields -> Values]
  BY DomainAssumption DEF Inputs
<1>2. Override(DefaultCoverage, input.coverage) \in [CoverageFields -> Partial(Values)]
  BY <1>1 DEF Override, Partial
<1>3. valid \in Inputs /\ valid.risk = input.risk
  BY <1>2 DEF ValidatedInput, Inputs
<1>4. risk \in [StructuralFields -> Partial(Values)]
  BY <1>1, FlowAssumption DEF Partial
<1>5. Built(input) = [valid EXCEPT !.risk = risk]
  BY <1>3 DEF Built
<1> HIDE DEF valid, risk
<1> QED BY <1>3, <1>4, <1>5 DEF Inputs

LEMMA Typed ==
    ASSUME TypeInv, NEW t \in Callers
    PROVE  /\ turn[t] \in Turns
           /\ turn[t].state \in States
           /\ turn[t].state.input \in Inputs
           /\ call[t] \in Calls
           /\ flow # NoFlow => flow \in Rows /\ flow.state \in States
BY DEF TypeInv, TypeOK, PortTypeOK, Turns, States, Rows

-----------------------------------------------------------------------------
(* The steps nodes are made of: each changes its own turn and no other     *)

Becomes(t, w) == /\ turn' \in [Callers -> Turns]
                 /\ turn'[t] = w
                 /\ \A u \in Callers : u # t => turn'[u] = turn[u]

CallBecomes(t, c) == /\ call' \in [Callers -> Calls]
                     /\ call'[t] = c
                     /\ \A u \in Callers : u # t => call'[u] = call[u]

\* Going on to the next node moves the turn and leaves what it holds.
LEMMA GotoStep ==
    ASSUME TypeInv, NEW t \in Callers, NEW node \in Places, NEW s \in States,
           Goto(t, node, s)
    PROVE  Becomes(t, [turn[t] EXCEPT !.at = node, !.state = s])
<1>1. [turn[t] EXCEPT !.at = node, !.state = s] \in Turns
  BY Typed DEF Turns
<1>2. turn' = [turn EXCEPT ![t] = [turn[t] EXCEPT !.at = node, !.state = s]]
  BY DEF Goto, TypeInv, TypeOK
<1> QED BY <1>1, <1>2 DEF Becomes, TypeInv, TypeOK

\* ctx.interrupt makes the node the step the next turn starts at.
LEMMA InterruptStep ==
    ASSUME TypeInv, NEW t \in Callers, turn[t].at \in Asking, NEW s \in States,
           NEW asked \in SUBSET Fields, Interrupt(t, s, asked)
    PROVE  Becomes(t, [turn[t] EXCEPT !.step = turn[t].at, !.at = "saving",
                                      !.state = s, !.asked = asked])
<1> DEFINE w == [turn[t] EXCEPT !.step = turn[t].at, !.at = "saving",
                                !.state = s, !.asked = asked]
<1>1. w \in Turns
  BY Typed DEF Turns, Places
<1>2. turn' = [turn EXCEPT ![t] = w]
  BY DEF Interrupt, TypeInv, TypeOK
<1> HIDE DEF w
<1>3. Becomes(t, w)
  BY <1>1, <1>2 DEF Becomes, TypeInv, TypeOK
<1> QED BY <1>3 DEF w

\* The end of the flow leaves a state to write, and no question.
LEMMA EndedStep ==
    ASSUME TypeInv, NEW t \in Callers, NEW s \in States, Ended(t, s)
    PROVE  Becomes(t, [turn[t] EXCEPT !.at = "saving", !.state = s,
                                      !.step = "END", !.asked = {}])
<1> DEFINE w == [turn[t] EXCEPT !.at = "saving", !.state = s,
                                !.step = "END", !.asked = {}]
<1>1. w \in Turns
  BY Typed DEF Turns, Places
<1>2. turn' = [turn EXCEPT ![t] = w]
  BY DEF Ended, TypeInv, TypeOK
<1> HIDE DEF w
<1>3. Becomes(t, w)
  BY <1>1, <1>2 DEF Becomes, TypeInv, TypeOK
<1> QED BY <1>3 DEF w

\* A turn that fails is over.
LEMMA NoTurnType == NoTurn \in Turns /\ NewState \in States
<1>1. EmptyInput \in Inputs
  BY DEF EmptyInput, Inputs, Partial
<1>2. NewState \in States
  BY <1>1 DEF NewState, States, Flags
<1> QED BY <1>2 DEF NoTurn, Turns, Places

LEMMA FailStep ==
    ASSUME TypeInv, NEW t \in Callers, Fail(t)
    PROVE  Becomes(t, NoTurn)
BY NoTurnType DEF Fail, Becomes, TypeInv, TypeOK

\* The adapter sends an input and has no answer yet.
LEMMA RequestStep ==
    ASSUME TypeInv, NEW t \in Callers, NEW route \in Routes, NEW input \in Inputs,
           Request(t, route, input)
    PROVE  CallBecomes(t, [route |-> route, input |-> input, answer |-> NoAnswer])
BY DEF Request, CallBecomes, TypeInv, TypeOK, PortTypeOK, Calls

LEMMA HangUpStep ==
    ASSUME TypeInv, NEW t \in Callers, HangUp(t)
    PROVE  CallBecomes(t, NoCall)
BY DEF HangUp, CallBecomes, TypeInv, TypeOK, PortTypeOK, Calls

\* The service answers with its verdict on the input it was sent.
LEMMA ServeStep ==
    ASSUME TypeInv, NEW t \in Callers, Serve(t)
    PROVE  /\ call[t].route \in Routes /\ call[t].answer = NoAnswer
           /\ \E status \in Statuses :
                 /\ CallBecomes(t, [call[t] EXCEPT !.answer =
                                      [status |-> status, ruleVersion |-> active]])
                 /\ status = "eligible" <=> call[t].input.risk \in EligibleRisks
<1> DEFINE status == IF call[t].input.risk \in EligibleRisks
                     THEN "eligible" ELSE "referral_required"
           answer == [status |-> status, ruleVersion |-> active]
           c == [call[t] EXCEPT !.answer = answer]
<1>1. answer \in Answers
  BY DEF Answers, Statuses, TypeInv, TypeOK, PortTypeOK
<1>2. call[t] \in Calls /\ call[t].route \in Routes /\ call[t].answer = NoAnswer
  BY Typed DEF Serve
<1>3. call[t] \in [route : Routes, input : Inputs, answer : Answers \cup {NoAnswer}]
  BY <1>2 DEF Calls, NoCall, Routes
<1>4. call' = [call EXCEPT ![t] = c]
  BY DEF Serve, TypeInv, TypeOK, PortTypeOK
<1> HIDE DEF answer
<1>5. c \in Calls
  BY <1>1, <1>3 DEF Calls
<1> HIDE DEF c
<1>6. CallBecomes(t, c)
  BY <1>4, <1>5 DEF CallBecomes, TypeInv, TypeOK, PortTypeOK
<1>7. status \in Statuses /\ (status = "eligible" <=> call[t].input.risk \in EligibleRisks)
  BY DEF Statuses
<1> HIDE DEF status
<1> QED BY <1>2, <1>6, <1>7 DEF c, answer

-----------------------------------------------------------------------------
(* Every action keeps the invariant                                        *)

\* What an action of one turn has to show: what it does to its own turn and call,
\* the rest being left alone, or, of the book and the numbers, only added to.
LEMMA LocalStep ==
    ASSUME Inv, NEW t \in Callers, NEW w, NEW c,
           Becomes(t, w), CallBecomes(t, c), UNCHANGED active,
           issued' \in Nat, issued <= issued',
           audited \subseteq audited', audited' \subseteq 1..issued',
           past' \in [overlaps : 0..MaxOverlaps, died : BOOLEAN, strays : 0..MaxStrays],
           \/ UNCHANGED flow
           \/ flow' \in Rows /\ RowOK(flow') /\ ShownOK(flow'.state, audited'),
           TurnOK(w, c), MarksOK(w, c, audited', active),
           w.at = "recording" => w.quote \in FlowQuotes /\ w.quote.quoteId \in 1..issued'
    PROVE  Inv'
<1>1. TypeOK'
  <2>1. flow' \in Rows \cup {NoFlow}
    BY DEF Inv, TypeInv, TypeOK, Rows
  <2> QED BY <2>1 DEF Inv, TypeInv, TypeOK, PortTypeOK, Becomes, CallBecomes, Rows
<1>2. Numbered'
  <2> SUFFICES ASSUME NEW u \in Callers, turn'[u].at = "recording"
               PROVE  turn'[u].quote \in FlowQuotes /\ turn'[u].quote.quoteId \in 1..issued'
    BY DEF Numbered
  <2>1. CASE u = t
    BY <2>1 DEF Becomes
  <2>2. CASE u # t
    <3>1. turn[u].quote \in FlowQuotes /\ turn[u].quote.quoteId \in 1..issued
      BY <2>2 DEF Becomes, Inv, TypeInv, Numbered
    <3>2. 1..issued \subseteq 1..issued'
      BY DEF Inv, TypeInv, TypeOK
    <3> QED BY <2>2, <3>1, <3>2 DEF Becomes
  <2> QED BY <2>1, <2>2
<1>3. flow' # NoFlow => RowOK(flow') /\ ShownOK(flow'.state, audited')
  <2>1. CASE UNCHANGED flow
    <3> SUFFICES ASSUME flow # NoFlow
                 PROVE  RowOK(flow) /\ ShownOK(flow.state, audited')
      BY <2>1
    <3>1. RowOK(flow) /\ ShownOK(flow.state, audited)
      BY DEF Inv, FlowInv
    <3> QED BY <3>1 DEF ShownOK
  <2> QED BY <2>1
<1>4. ASSUME NEW u \in Callers
      PROVE  TurnOK(turn'[u], call'[u]) /\ MarksOK(turn'[u], call'[u], audited', active')
  <2>1. CASE u = t
    BY <2>1 DEF Becomes, CallBecomes
  <2>2. CASE u # t
    <3>1. turn'[u] = turn[u] /\ call'[u] = call[u]
      BY <2>2 DEF Becomes, CallBecomes
    <3>2. TurnOK(turn[u], call[u]) /\ MarksOK(turn[u], call[u], audited, active)
      BY DEF Inv, FlowInv
    <3>3. MarksOK(turn[u], call[u], audited', active)
      BY <3>2 DEF MarksOK, ShownOK
    <3> QED BY <3>1, <3>2, <3>3
  <2> QED BY <2>1, <2>2
<1> QED BY <1>1, <1>2, <1>3, <1>4 DEF Inv, TypeInv, FlowInv

\* A step that shows no quote and is not on its way to one has no marks to keep.
LEMMA NoMarks ==
    ASSUME NEW w, NEW c, NEW book, NEW version, w.state.quote = NoQuote,
           w.at \notin {"reevaluating", "pricing", "recording"}
    PROVE  MarksOK(w, c, book, version)
BY DEF MarksOK, ShownOK, Labelled

\* No turn is in flight, no call awaited: nothing to keep.
LEMMA NoTurnOK ==
    ASSUME NEW book, NEW version
    PROVE  TurnOK(NoTurn, NoCall) /\ MarksOK(NoTurn, NoCall, book, version)
BY DEF TurnOK, MarksOK, NoTurn, NoCall

Quiet == UNCHANGED <<active, flow, audited, issued, past>>

\* A step that changes a turn and its call only.
LEMMA QuietStep ==
    ASSUME Inv, NEW t \in Callers, NEW w, NEW c,
           Becomes(t, w), CallBecomes(t, c), Quiet,
           TurnOK(w, c), MarksOK(w, c, audited, active),
           w.at = "recording" => w.quote \in FlowQuotes /\ w.quote.quoteId \in 1..issued
    PROVE  Inv'
BY LocalStep DEF Quiet, Inv, TypeInv, TypeOK

LEMMA SameCall ==
    ASSUME TypeInv, NEW t \in Callers, UNCHANGED call
    PROVE  CallBecomes(t, call[t])
BY DEF CallBecomes, TypeInv, TypeOK, PortTypeOK

\* Going on to a node whose place the state is fit for.
LEMMA GotoKeeps ==
    ASSUME Inv, NEW t \in Callers, NEW node \in Nodes, NEW s \in States, NEW c,
           Goto(t, node, s), CallBecomes(t, c), Quiet, HeldAt(node, s),
           node = "evaluate_eligibility" => Missing(s.input.risk, FactorFields) = {},
           c.answer # NoAnswer =>
              (c.answer.status = "eligible" <=> c.input.risk \in EligibleRisks)
    PROVE  Inv'
<1> DEFINE w == [turn[t] EXCEPT !.at = node, !.state = s]
<1>1. Becomes(t, w)
  BY GotoStep DEF Inv, Places
<1>2. w.at = node /\ w.state = s
  BY Typed DEF Inv, Turns
<1> HIDE DEF w
<1>3. s.quote = NoQuote
  BY DEF HeldAt, Nodes, Asking
<1>4. MarksOK(w, c, audited, active)
  BY <1>2, <1>3, NoMarks DEF Nodes, Asking
<1>5. TurnOK(w, c)
  BY <1>2 DEF TurnOK, Nodes, Asking
<1> QED BY <1>1, <1>2, <1>4, <1>5, QuietStep DEF Nodes, Asking

\* Interrupting at a node the state is fit for, to ask for fields of its form.
LEMMA InterruptKeeps ==
    ASSUME Inv, NEW t \in Callers, turn[t].at \in Asking, NEW s \in States,
           NEW asked \in SUBSET Fields, Interrupt(t, s, asked), UNCHANGED call, Quiet,
           HeldAt(turn[t].at, s), AskedAt(turn[t].at, asked)
    PROVE  Inv'
<1> DEFINE w == [turn[t] EXCEPT !.step = turn[t].at, !.at = "saving",
                                !.state = s, !.asked = asked]
<1>1. Becomes(t, w) /\ CallBecomes(t, call[t])
  BY InterruptStep, SameCall DEF Inv
<1>2. w.at = "saving" /\ w.step = turn[t].at /\ w.state = s /\ w.asked = asked
  BY Typed DEF Inv, Turns
<1> HIDE DEF w
<1>3. s.quote = NoQuote
  BY DEF HeldAt, Asking
<1>4. MarksOK(w, call[t], audited, active)
  BY <1>2, <1>3, NoMarks
<1>5. TurnOK(w, call[t])
  BY <1>2 DEF TurnOK, RowOK, Inv, FlowInv
<1> QED BY <1>1, <1>2, <1>4, <1>5, QuietStep

\* A reply without forms leaves the input.
LEMMA BlankReply ==
    ASSUME NEW s \in States, NEW a \in Replies,
           AnsweredFields(a) \cap Fields \subseteq {"parametersConfirmed", "hasConsented"},
           "contactEmail" \notin AnsweredFields(a)
    PROVE  Merged(s.input, a.input) = s.input
<1>1. \A f \in StructuralFields : a.input.risk[f] = NoValue
  BY FlowAssumption DEF AnsweredFields, Fields
<1>2. \A f \in CoverageFields : a.input.coverage[f] = NoValue
  BY FlowAssumption DEF AnsweredFields, Fields
<1>3. a.input.email = NoValue
  BY DEF AnsweredFields
<1>4. /\ s.input.risk \in [StructuralFields -> Partial(Values)]
      /\ s.input.coverage \in [CoverageFields -> Partial(Values)]
      /\ s.input = [risk |-> s.input.risk, coverage |-> s.input.coverage,
                    email |-> s.input.email]
  BY DEF States, Inputs
<1>5. Override(s.input.risk, a.input.risk) = s.input.risk
  BY <1>1, <1>4, BlankOverride
<1>6. Override(s.input.coverage, a.input.coverage) = s.input.coverage
  BY <1>2, <1>4, BlankOverride
<1> QED BY <1>3, <1>4, <1>5, <1>6 DEF Merged

\* A reply to what a node asked leaves the state fit for that node: the form is the
\* node's own, or the state is marked as strayed.
LEMMA ReplyHeld ==
    ASSUME NEW step \in Asking, NEW s \in States, NEW a \in Replies, NEW asked,
           HeldAt(step, s), AskedAt(step, asked)
    PROVE  HeldAt(step, WithReply(s, a, asked))
<1> DEFINE r == WithReply(s, a, asked)
<1>1. /\ r.quote = NoQuote
      /\ r.eligibilityStatus = s.eligibilityStatus
      /\ r.strayed <=> s.strayed \/ ~(AnsweredFields(a) \subseteq asked)
      /\ r.parametersConfirmed = Said(a.parametersConfirmed, s.parametersConfirmed)
      /\ r.settled <=> a.parametersConfirmed = "yes"
                          \/ (s.settled /\ Merged(s.input, a.input) = s.input)
      /\ r.input = Merged(s.input, a.input)
  <2>1. s.quote = NoQuote
    BY DEF HeldAt, Asking
  <2>2. /\ r.quote = s.quote
        /\ r.eligibilityStatus = s.eligibilityStatus
        /\ r.parametersConfirmed = Said(a.parametersConfirmed, s.parametersConfirmed)
        /\ r.input = Merged(s.input, a.input)
    BY ReplyType, Zenon
  <2> QED BY <2>1, <2>2, ReplyMarks, Zenon
<1> HIDE DEF r
<1>2. step \in Late => Acceptable(r)
  <2> HAVE step \in Late
  <2>1. Acceptable(s)
    BY DEF HeldAt
  <2>2. ASSUME ~r.strayed
        PROVE  Built(r.input).risk \in EligibleRisks
    <3>1. ~s.strayed /\ AnsweredFields(a) \subseteq asked
      BY <1>1, <2>2
    <3>2. asked \cap StructuralFields = {}
      BY FlowAssumption DEF AskedAt, Late, Sealed, Agreed, Asking
    <3>3. \A f \in StructuralFields : a.input.risk[f] = NoValue
      BY <3>1, <3>2 DEF AnsweredFields
    <3>4. s.input.risk \in [StructuralFields -> Partial(Values)]
      BY DEF States, Inputs
    <3>5. Override(s.input.risk, a.input.risk) = s.input.risk
      BY <3>3, <3>4, BlankOverride
    <3>6. r.input.risk = s.input.risk
      BY <1>1, <3>5 DEF Merged
    <3>7. Built(r.input).risk = Built(s.input).risk
      BY <3>6 DEF Built, ValidatedInput
    <3> QED BY <2>1, <3>1, <3>7 DEF Acceptable
  <2> QED BY <1>1, <2>1, <2>2 DEF Acceptable
<1>3. step \notin Agreed
  BY DEF Asking, Agreed
<1>4. ASSUME ~r.strayed
      PROVE  /\ step \in Early => r.parametersConfirmed = "no"
             /\ step = "confirm_parameters" => r.parametersConfirmed = "no" \/ r.settled
             /\ step \in Sealed => Confirmed(r)
  <2>1. ~s.strayed /\ AnsweredFields(a) \subseteq asked
    BY <1>1, <1>4
  <2>2. CASE step = "confirm_parameters"
    <3>1. AnsweredFields(a) \subseteq {"parametersConfirmed"}
      BY <2>1, <2>2 DEF AskedAt
    <3>2. a.parametersConfirmed \in {"yes", "no", NoValue}
      BY FlowAssumption DEF Partial, Flags
    <3>3. CASE a.parametersConfirmed = "yes"
      BY <1>1, <2>2, <3>3 DEF Early, Sealed, Agreed
    <3>4. CASE a.parametersConfirmed = "no"
      BY <1>1, <2>2, <3>4, FlowAssumption DEF Early, Sealed, Agreed, Said, Flags
    <3>5. CASE a.parametersConfirmed = NoValue
      <4>1. AnsweredFields(a) = {}
        BY <3>1, <3>5, FlowAssumption DEF AnsweredFields
      <4>2. Merged(s.input, a.input) = s.input
        BY <4>1, BlankReply, Zenon
      <4>3. r.parametersConfirmed = s.parametersConfirmed
        BY <1>1, <3>5 DEF Said
      <4>4. s.settled => r.settled
        BY <1>1, <4>2
      <4>5. s.parametersConfirmed = "no" \/ s.settled
        BY <2>1, <2>2 DEF HeldAt
      <4> QED BY <2>2, <4>3, <4>4, <4>5 DEF Early, Sealed, Agreed
    <3> QED BY <3>2, <3>3, <3>4, <3>5
  <2>3. CASE step = "request_consent"
    <3>1. AnsweredFields(a) \subseteq {"hasConsented"}
      BY <2>1, <2>3 DEF AskedAt
    <3>2. a.parametersConfirmed = NoValue
      BY <3>1 DEF AnsweredFields
    <3>8. Merged(s.input, a.input) = s.input
      BY <3>1, BlankReply
    <3>9. Confirmed(s)
      BY <2>1, <2>3 DEF HeldAt, Sealed
    <3> QED BY <1>1, <2>3, <3>2, <3>8, <3>9 DEF Confirmed, Said, Early
  <2>4. CASE step \in {"collect_property", "collect_risk", "select_coverage"}
    <3>1. asked \subseteq StructuralFields \cup CoverageFields
      BY <2>4 DEF AskedAt
    <3>2. a.parametersConfirmed = NoValue
      BY <2>1, <3>1, FlowAssumption DEF AnsweredFields
    <3>3. s.parametersConfirmed = "no"
      BY <2>1, <2>4 DEF HeldAt, Early
    <3> QED BY <1>1, <2>4, <3>2, <3>3 DEF Said, Sealed, Agreed
  <2> QED BY <2>2, <2>3, <2>4 DEF Asking
<1>5. step # "END"
  BY DEF Asking
<1> QED BY <1>1, <1>2, <1>3, <1>4, <1>5 DEF HeldAt, r

\* Beginning a turn at a node its state is fit for.
LEMMA BeginKeeps ==
    ASSUME Inv, NEW t \in Callers, NEW node \in Asking, NEW s \in States,
           NEW astray \in BOOLEAN, Begin(t, node, s, astray), HeldAt(node, s)
    PROVE  Inv'
<1> DEFINE w == [NoTurn EXCEPT !.at = node, !.state = s]
<1>1. /\ w \in Turns
      /\ w.at = node /\ w.state = s
  BY NoTurnType DEF Turns, Places, Nodes, NoTurn
<1>2. turn' = [turn EXCEPT ![t] = w]
  BY DEF Begin
<1> HIDE DEF w
<1>3. Becomes(t, w)
  BY <1>1, <1>2 DEF Becomes, Inv, TypeInv, TypeOK
<1>4. CallBecomes(t, call[t])
  BY SameCall DEF Begin, Inv
<1>5. past' \in [overlaps : 0..MaxOverlaps, died : BOOLEAN, strays : 0..MaxStrays]
  <2>1. past \in [overlaps : 0..MaxOverlaps, died : BOOLEAN, strays : 0..MaxStrays]
    BY DEF Inv, TypeInv, TypeOK
  <2>2. PICK m \in Nat, n \in Nat :
           past' = [past EXCEPT !.overlaps = m, !.strays = n]
    <3>1. past.overlaps \in Nat /\ past.strays \in Nat
      BY <2>1, FlowAssumption
    <3> DEFINE m == IF \E u \in Callers : InFlight(u) THEN past.overlaps + 1
                    ELSE past.overlaps
               n == IF astray THEN past.strays + 1 ELSE past.strays
    <3>2. past' = [past EXCEPT !.overlaps = m, !.strays = n]
      BY Zenon DEF Begin
    <3>3. m \in Nat /\ n \in Nat
      BY <3>1
    <3> QED BY <3>2, <3>3
  <2>3. past'.overlaps = m /\ past'.strays = n /\ past'.died = past.died
    BY <2>1, <2>2
  <2>4. past'.overlaps <= MaxOverlaps /\ past'.strays <= MaxStrays
    BY DEF Begin
  <2>5. m \in 0..MaxOverlaps /\ n \in 0..MaxStrays
    BY <2>3, <2>4, FlowAssumption
  <2> QED BY <2>1, <2>2, <2>5
<1>6. s.quote = NoQuote /\ node \notin {"idle", "saving", "evaluate_eligibility",
                                        "evaluating", "reevaluating", "pricing",
                                        "recording"}
  BY DEF HeldAt, Asking
<1>7. MarksOK(w, call[t], audited, active)
  BY <1>1, <1>6, NoMarks
<1>8. TurnOK(turn[t], call[t])
  BY DEF Inv, FlowInv
<1>9. TurnOK(w, call[t])
  BY <1>1, <1>6, <1>8 DEF TurnOK
<1>10. UNCHANGED <<active, flow, audited, issued>>
  BY DEF Begin
<1>11. issued \in Nat /\ audited \subseteq 1..issued
  BY DEF Inv, TypeInv, TypeOK
<1> QED BY <1>1, <1>3, <1>4, <1>5, <1>6, <1>7, <1>9, <1>10, <1>11, LocalStep

LEMMA StartKeeps ==
    ASSUME Inv, NEW t \in Callers, NEW a \in Replies, Start(t, a)
    PROVE  Inv'
<1> DEFINE asked == StructuralFields \cup CoverageFields
           s == WithReply(NewState, a, asked)
<1>1. NewState \in States
  BY NoTurnType
<1>2. s \in States
  BY <1>1, ReplyType
<1>3. /\ s.quote = NoQuote
      /\ s.strayed <=> ~(AnsweredFields(a) \subseteq asked)
      /\ s.parametersConfirmed = Said(a.parametersConfirmed, "no")
  <2>1. NewState.strayed = FALSE /\ NewState.parametersConfirmed = "no"
        /\ NewState.quote = NoQuote
    BY DEF NewState
  <2>2. s.quote = NewState.quote
    BY <1>1, ReplyType, Zenon
  <2>3. s.strayed <=> NewState.strayed \/ ~(AnsweredFields(a) \subseteq asked)
    BY <1>1, ReplyMarks, Zenon
  <2>4. s.parametersConfirmed = Said(a.parametersConfirmed, NewState.parametersConfirmed)
    BY <1>1, ReplyType, Zenon
  <2> HIDE DEF s, asked
  <2> QED BY <2>1, <2>2, <2>3, <2>4
<1>4. ~s.strayed => s.parametersConfirmed = "no"
  <2> HAVE ~s.strayed
  <2>1. AnsweredFields(a) \subseteq asked
    BY <1>3
  <2>2. a.parametersConfirmed = NoValue
    BY <2>1, FlowAssumption DEF AnsweredFields
  <2> QED BY <1>3, <2>2 DEF Said
<1> HIDE DEF s
<1>5. HeldAt("collect_property", s)
  BY <1>3, <1>4 DEF HeldAt, Late, Sealed, Agreed
<1>6. Begin(t, "collect_property", s, AnsweredFields(a) # {})
  BY DEF Start, s
<1> QED BY <1>2, <1>5, <1>6, BeginKeeps DEF Asking

LEMMA ContinueKeeps ==
    ASSUME Inv, NEW t \in Callers, NEW a \in Replies, Continue(t, a)
    PROVE  Inv'
<1> DEFINE s == WithReply(flow.state, a, flow.asked)
<1>1. flow.step \in Asking /\ flow.state \in States
  BY Typed DEF Continue, Inv, Rows
<1>2. HeldAt(flow.step, flow.state) /\ AskedAt(flow.step, flow.asked)
  BY DEF Continue, Inv, FlowInv, RowOK
<1>3. s \in States
  BY <1>1, ReplyType
<1>4. HeldAt(flow.step, s)
  BY <1>1, <1>2, ReplyHeld
<1>5. Begin(t, flow.step, s, AnsweredFields(a) # flow.asked)
  BY DEF Continue
<1> HIDE DEF s
<1> QED BY <1>1, <1>3, <1>4, <1>5, BeginKeeps

\* A turn at a node holds a state fit for it.
LEMMA AtNodeHeld ==
    ASSUME Inv, NEW t \in Callers, NEW node, AtNode(t, node),
           node \in Places \ {"idle", "saving"}
    PROVE  /\ turn[t].at = node /\ Quiet /\ HeldAt(node, turn[t].state)
           /\ turn[t].state \in States
           /\ call[t].answer # NoAnswer =>
                 (call[t].answer.status = "eligible" <=> call[t].input.risk \in EligibleRisks)
<1>1. TurnOK(turn[t], call[t])
  BY DEF Inv, FlowInv
<1> QED BY <1>1, Typed DEF AtNode, Quiet, TurnOK, Inv

\* A node that asks for what is missing keeps the invariant if its questions are its
\* own, and with nothing missing the state is fit for the next node.
LEMMA CollectKeeps ==
    ASSUME Inv, NEW t \in Callers, NEW node \in Asking, AtNode(t, node), UNCHANGED call,
           NEW missing \in SUBSET Fields, NEW next \in Nodes, Collect(t, missing, next),
           AskedAt(node, missing),
           missing = {} => HeldAt(next, turn[t].state),
           missing = {} /\ next = "evaluate_eligibility" =>
              Missing(turn[t].state.input.risk, FactorFields) = {}
    PROVE  Inv'
<1> DEFINE s == turn[t].state
<1>1. node \in Places \ {"idle", "saving"}
  BY DEF Asking, Places, Nodes
<1>2. /\ turn[t].at = node /\ Quiet /\ HeldAt(node, s) /\ s \in States
      /\ call[t].answer # NoAnswer =>
            (call[t].answer.status = "eligible" <=> call[t].input.risk \in EligibleRisks)
  BY <1>1, AtNodeHeld
<1>3. CASE missing # {}
  BY <1>2, <1>3, InterruptKeeps DEF Collect
<1>4. CASE missing = {}
  <2>1. Goto(t, next, s)
    BY <1>4 DEF Collect
  <2> QED BY <1>2, <1>4, <2>1, GotoKeeps, SameCall DEF Inv
<1> QED BY <1>3, <1>4

LEMMA CollectPropertyKeeps ==
    ASSUME Inv, NEW t \in Callers, CollectProperty(t)
    PROVE  Inv'
<1> DEFINE s == turn[t].state
           missing == Missing(s.input.risk, PropertyFields)
           misfit == IF PropertyForm(s) \in FittingTrimmed THEN {} ELSE {PostcodeField}
           asked == IF missing # {} THEN missing ELSE misfit
<1>1. AtNode(t, "collect_property") /\ Collect(t, asked, "collect_risk") /\ UNCHANGED call
  BY Zenon DEF CollectProperty
<1>2. asked \subseteq StructuralFields
  BY FlowAssumption DEF Missing, StructuralFields
<1>3. AskedAt("collect_property", asked) /\ asked \in SUBSET Fields
  BY <1>2 DEF AskedAt, Fields
<1>4. HeldAt("collect_property", s)
  BY <1>1, AtNodeHeld DEF Places, Nodes, Asking
<1>5. HeldAt("collect_risk", s)
  BY <1>4 DEF HeldAt, Early, Late, Sealed, Agreed
<1> HIDE DEF asked
<1> QED BY <1>1, <1>3, <1>5, CollectKeeps DEF Asking, Nodes

LEMMA CollectRiskKeeps ==
    ASSUME Inv, NEW t \in Callers, CollectRisk(t)
    PROVE  Inv'
<1> DEFINE s == turn[t].state
           bare == [s EXCEPT !.input.risk[PostcodeField] = NoValue]
           missing == Missing(s.input.risk, FactorFields)
<1>1. AtNode(t, "collect_risk") /\ UNCHANGED call
  BY DEF CollectRisk
<1>2. /\ turn[t].at = "collect_risk" /\ Quiet /\ HeldAt("collect_risk", s)
      /\ s \in States
  BY <1>1, AtNodeHeld DEF Places, Nodes, Asking
<1>3. CASE BadPostcode(s)
  <2>1. Interrupt(t, bare, {PostcodeField})
    BY <1>3 DEF CollectRisk
  <2> DEFINE risk == [s.input.risk EXCEPT ![PostcodeField] = NoValue]
             input == [s.input EXCEPT !.risk = risk]
  <2>2. s.input \in Inputs
    BY <1>2 DEF States
  <2>3. risk \in [StructuralFields -> Partial(Values)]
    BY <2>2 DEF Inputs, Partial
  <2>4. input \in Inputs
    BY <2>2, <2>3 DEF Inputs
  <2>5. bare = [s EXCEPT !.input = input]
    BY <1>2, <2>2 DEF States, Inputs
  <2> HIDE DEF input, bare
  <2>6. /\ bare \in States
        /\ bare.quote = s.quote
        /\ bare.parametersConfirmed = s.parametersConfirmed
        /\ bare.strayed = s.strayed
    BY <1>2, <2>4, <2>5 DEF States
  <2>7. HeldAt("collect_risk", bare)
    BY <1>2, <2>6 DEF HeldAt, Late, Sealed, Agreed
  <2>8. {PostcodeField} \subseteq StructuralFields
    BY FlowAssumption DEF StructuralFields
  <2>9. AskedAt("collect_risk", {PostcodeField}) /\ {PostcodeField} \in SUBSET Fields
    BY <2>8 DEF AskedAt, Fields
  <2> QED BY <1>1, <1>2, <2>1, <2>6, <2>7, <2>9, InterruptKeeps DEF Asking
<1>4. CASE ~BadPostcode(s)
  <2>1. Collect(t, missing, "evaluate_eligibility")
    BY <1>4 DEF CollectRisk
  <2>2. missing \subseteq StructuralFields
    BY DEF Missing, StructuralFields
  <2>3. AskedAt("collect_risk", missing) /\ missing \in SUBSET Fields
    BY <2>2 DEF AskedAt, Fields
  <2>4. HeldAt("evaluate_eligibility", s)
    BY <1>2 DEF HeldAt, Early, Late, Sealed, Agreed
  <2> QED BY <1>1, <2>1, <2>3, <2>4, CollectKeeps DEF Asking, Nodes
<1> QED BY <1>3, <1>4

LEMMA SelectCoverageKeeps ==
    ASSUME Inv, NEW t \in Callers, SelectCoverage(t)
    PROVE  Inv'
<1> DEFINE s == turn[t].state
           missing == Missing(s.input.coverage, CoverageFields)
<1>1. /\ AtNode(t, "select_coverage") /\ UNCHANGED call
      /\ Collect(t, missing, "confirm_parameters")
  BY DEF SelectCoverage
<1>2. HeldAt("select_coverage", s)
  BY <1>1, AtNodeHeld DEF Places, Nodes, Asking
<1>3. missing \subseteq CoverageFields
  BY DEF Missing
<1>4. AskedAt("select_coverage", missing) /\ missing \in SUBSET Fields
  BY <1>3 DEF AskedAt, Fields
<1>5. HeldAt("confirm_parameters", s)
  BY <1>2 DEF HeldAt, Early, Late, Sealed, Agreed
<1> QED BY <1>1, <1>4, <1>5, CollectKeeps DEF Asking, Nodes

LEMMA ConfirmDetailsKeeps ==
    ASSUME Inv, NEW t \in Callers, ConfirmDetails(t)
    PROVE  Inv'
<1> DEFINE s == turn[t].state
           missing == IF s.parametersConfirmed = "yes" THEN {} ELSE {"parametersConfirmed"}
<1>1. /\ AtNode(t, "confirm_parameters") /\ UNCHANGED call
      /\ Collect(t, missing, "request_consent")
  BY DEF ConfirmDetails, Insist
<1>2. HeldAt("confirm_parameters", s)
  BY <1>1, AtNodeHeld DEF Places, Nodes, Asking
<1>3. AskedAt("confirm_parameters", missing) /\ missing \in SUBSET Fields
  BY DEF AskedAt, Fields
<1>4. missing = {} => s.parametersConfirmed = "yes"
  OBVIOUS
<1>5. missing = {} => HeldAt("request_consent", s)
  BY <1>2, <1>4 DEF HeldAt, Early, Late, Sealed, Agreed, Confirmed
<1> HIDE DEF missing
<1> QED BY <1>1, <1>3, <1>5, CollectKeeps DEF Asking, Nodes

LEMMA RequestConsentKeeps ==
    ASSUME Inv, NEW t \in Callers, RequestConsent(t)
    PROVE  Inv'
<1> DEFINE s == turn[t].state
           missing == IF s.hasConsented = "yes" THEN {} ELSE {"hasConsented"}
<1>1. /\ AtNode(t, "request_consent") /\ UNCHANGED call
      /\ Collect(t, missing, "calculate_quote")
  BY DEF RequestConsent, Insist
<1>2. HeldAt("request_consent", s)
  BY <1>1, AtNodeHeld DEF Places, Nodes, Asking
<1>3. AskedAt("request_consent", missing) /\ missing \in SUBSET Fields
  BY DEF AskedAt, Fields
<1>4. missing = {} => s.hasConsented = "yes"
  OBVIOUS
<1>5. missing = {} => HeldAt("calculate_quote", s)
  BY <1>2, <1>4 DEF HeldAt, Early, Late, Sealed, Agreed
<1> HIDE DEF missing
<1> QED BY <1>1, <1>3, <1>5, CollectKeeps DEF Asking, Nodes

\* A turn that fails leaves nothing behind but the event it may have recorded.
LEMMA FailKeeps ==
    ASSUME Inv, NEW t \in Callers, Fail(t), NEW c, CallBecomes(t, c), Quiet,
           c.answer # NoAnswer =>
              (c.answer.status = "eligible" <=> c.input.risk \in EligibleRisks)
    PROVE  Inv'
<1>1. Becomes(t, NoTurn)
  BY FailStep DEF Inv
<1>2. NoTurn.at = "idle"
  BY DEF NoTurn
<1>3. TurnOK(NoTurn, c) /\ MarksOK(NoTurn, c, audited, active)
  BY <1>2 DEF TurnOK, MarksOK
<1> QED BY <1>1, <1>2, <1>3, QuietStep

\* Asking the port: the call is on the input the state gives, and unanswered.
LEMMA AskKeeps ==
    ASSUME Inv, NEW t \in Callers, NEW node \in Nodes, AtNode(t, node),
           NEW place \in {"evaluating", "reevaluating"}, Ask(t, "evaluate", place),
           HeldAt(place, turn[t].state)
    PROVE  Inv'
<1> DEFINE s == turn[t].state
<1>1. /\ Quiet /\ s \in States
      /\ call[t].answer # NoAnswer =>
            (call[t].answer.status = "eligible" <=> call[t].input.risk \in EligibleRisks)
  BY AtNodeHeld DEF Places, Nodes, Asking
<1>2. CASE Valid(s.input)
  <2> DEFINE w == [turn[t] EXCEPT !.at = place, !.state = s]
             c == [route |-> "evaluate", input |-> Built(s.input), answer |-> NoAnswer]
  <2>1. Request(t, "evaluate", Built(s.input)) /\ Goto(t, place, s)
    BY <1>2 DEF Ask
  <2>2. Built(s.input) \in Inputs
    BY <1>1, BuiltType DEF States
  <2>3. Becomes(t, w) /\ CallBecomes(t, c)
    BY <1>1, <2>1, <2>2, GotoStep, RequestStep DEF Inv, Places, Routes
  <2>4. w.at = place /\ w.state = s
    BY Typed DEF Inv, Turns
  <2> HIDE DEF w
  <2>5. TurnOK(w, c)
    BY <2>4 DEF TurnOK
  <2>6. s.quote = NoQuote
    BY DEF HeldAt
  <2>7. MarksOK(w, c, audited, active)
    BY <2>4, <2>6 DEF MarksOK, ShownOK, Labelled
  <2> HIDE DEF c
  <2> QED BY <1>1, <2>3, <2>4, <2>5, <2>7, QuietStep
<1>3. CASE ~Valid(s.input)
  <2>1. Fail(t) /\ UNCHANGED call
    BY <1>3 DEF Ask
  <2> QED BY <1>1, <2>1, FailKeeps, SameCall DEF Inv
<1> QED BY <1>2, <1>3

LEMMA EvaluateEligibilityKeeps ==
    ASSUME Inv, NEW t \in Callers, EvaluateEligibility(t)
    PROVE  Inv'
<1> DEFINE s == turn[t].state
<1>1. AtNode(t, "evaluate_eligibility")
  BY DEF EvaluateEligibility
<1>2. /\ turn[t].at = "evaluate_eligibility"
      /\ HeldAt("evaluate_eligibility", s)
  BY <1>1, AtNodeHeld DEF Places, Nodes, Asking
<1>3. Missing(s.input.risk, FactorFields) = {}
  BY <1>2 DEF Inv, FlowInv, TurnOK
<1>4. Missing(s.input.risk, BandFields) = {}
  BY <1>3, FlowAssumption DEF Missing
<1>5. Ask(t, "evaluate", "evaluating")
  BY <1>4 DEF EvaluateEligibility
<1>6. HeldAt("evaluating", s)
  BY <1>2 DEF HeldAt, Early, Late, Sealed, Agreed
<1> QED BY <1>1, <1>5, <1>6, AskKeeps DEF Nodes

LEMMA EvaluatedKeeps ==
    ASSUME Inv, NEW t \in Callers, Evaluated(t)
    PROVE  Inv'
<1> DEFINE s == turn[t].state
           verdict == call[t].answer
           e == [s EXCEPT !.eligibilityStatus = verdict.status]
           next == IF e.eligibilityStatus = "referral_required" THEN "referral_end"
                   ELSE "select_coverage"
<1>1. AtNode(t, "evaluating") /\ verdict # NoAnswer /\ HangUp(t)
  BY DEF Evaluated, Answered
<1>2. /\ turn[t].at = "evaluating" /\ Quiet /\ HeldAt("evaluating", s)
      /\ s \in States
      /\ verdict.status = "eligible" <=> call[t].input.risk \in EligibleRisks
  BY <1>1, AtNodeHeld DEF Places, Nodes, Asking
<1>3. call[t].input = Built(s.input)
  BY <1>2 DEF Inv, FlowInv, TurnOK
<1>4. verdict \in Answers
  BY <1>1, Typed DEF Inv, Calls, NoCall
<1>5. Goto(t, next, e)
  BY DEF Evaluated, Branch, Verdict
<1>6. /\ e \in States
      /\ e.eligibilityStatus = verdict.status
      /\ e.quote = s.quote /\ e.input = s.input /\ e.strayed = s.strayed
      /\ e.parametersConfirmed = s.parametersConfirmed
  BY <1>2, <1>4 DEF States, Answers, Statuses
<1> HIDE DEF e
<1>7. HeldAt(next, e)
  <2>1. CASE verdict.status = "referral_required"
    BY <1>2, <1>6, <2>1 DEF HeldAt, Early, Late, Sealed, Agreed
  <2>2. CASE verdict.status = "eligible"
    <3>1. Built(e.input).risk \in EligibleRisks
      BY <1>2, <1>3, <1>6, <2>2
    <3>2. Acceptable(e)
      BY <1>6, <2>2, <3>1 DEF Acceptable
    <3> QED BY <1>2, <1>6, <2>2, <3>2 DEF HeldAt, Early, Late, Sealed, Agreed
  <2> QED BY <1>4, <2>1, <2>2 DEF Answers, Statuses
<1>8. next \in Nodes /\ next # "evaluate_eligibility"
  BY DEF Nodes, Asking
<1> HIDE DEF next
<1>9. CallBecomes(t, NoCall) /\ NoCall.answer = NoAnswer
  BY <1>1, HangUpStep DEF Inv, NoCall
<1> QED BY <1>2, <1>5, <1>6, <1>7, <1>8, <1>9, GotoKeeps

LEMMA CalculateQuoteKeeps ==
    ASSUME Inv, NEW t \in Callers, CalculateQuote(t)
    PROVE  Inv'
<1>1. AtNode(t, "calculate_quote") /\ Ask(t, "evaluate", "reevaluating")
  BY DEF CalculateQuote
<1>2. HeldAt("calculate_quote", turn[t].state)
  BY <1>1, AtNodeHeld DEF Places, Nodes, Asking
<1>3. HeldAt("reevaluating", turn[t].state)
  BY <1>2 DEF HeldAt, Early, Late, Sealed, Agreed
<1> QED BY <1>1, <1>3, AskKeeps DEF Nodes

LEMMA ReevaluatedKeeps ==
    ASSUME Inv, NEW t \in Callers, Reevaluated(t)
    PROVE  Inv'
<1> DEFINE s == turn[t].state
           verdict == call[t].answer
           w == [turn[t] EXCEPT !.at = "pricing", !.ruleVersion = verdict.ruleVersion]
           c == [route |-> "calculate", input |-> call[t].input, answer |-> NoAnswer]
<1>1. AtNode(t, "reevaluating") /\ verdict # NoAnswer
  BY DEF Reevaluated, Answered
<1>2. /\ turn[t].at = "reevaluating" /\ Quiet /\ HeldAt("reevaluating", s)
      /\ s \in States
  BY <1>1, AtNodeHeld DEF Places, Nodes, Asking
<1>3. TurnOK(turn[t], call[t]) /\ MarksOK(turn[t], call[t], audited, active)
  BY DEF Inv, FlowInv
<1>4. call[t].input = Built(s.input)
  BY <1>2, <1>3 DEF TurnOK
<1>5. verdict \in Answers /\ call[t].input \in Inputs
  BY <1>1, Typed DEF Inv, Calls, NoCall
<1>6. w \in Turns /\ w.at = "pricing" /\ w.state = s /\ w.rolled = turn[t].rolled
      /\ w.ruleVersion = verdict.ruleVersion /\ verdict.ruleVersion \in RuleVersions
  BY <1>5, Typed DEF Inv, Turns, Places, Answers
<1>7. turn' = [turn EXCEPT ![t] = w]
  BY DEF Reevaluated, Verdict, Inv, TypeInv, TypeOK
<1> HIDE DEF w
<1>8. Becomes(t, w)
  BY <1>6, <1>7 DEF Becomes, Inv, TypeInv, TypeOK
<1>9. CallBecomes(t, c)
  BY <1>5, RequestStep DEF Reevaluated, Inv, Routes
<1>10. HeldAt("pricing", s)
  BY <1>2 DEF HeldAt, Early, Late, Sealed, Agreed
<1>11. TurnOK(w, c)
  BY <1>4, <1>6, <1>10 DEF TurnOK
<1>12. MarksOK(w, c, audited, active)
  BY <1>1, <1>2, <1>3, <1>6 DEF MarksOK
<1> HIDE DEF c
<1> QED BY <1>2, <1>6, <1>8, <1>9, <1>11, <1>12, QuietStep

LEMMA PricedKeeps ==
    ASSUME Inv, NEW t \in Callers, Priced(t)
    PROVE  Inv'
<1> DEFINE s == turn[t].state
           price == call[t].answer
           q == [quoteId     |-> issued + 1,
                 input       |-> call[t].input,
                 ruleVersion |-> turn[t].ruleVersion,
                 pricing     |-> price.ruleVersion,
                 rolled      |-> turn[t].rolled]
           w == [turn[t] EXCEPT !.at = "recording", !.quote = q]
<1>1. /\ turn[t].at = "pricing" /\ price # NoAnswer
      /\ UNCHANGED <<active, flow, audited, past>> /\ issued' = issued + 1
  BY DEF Priced, Answered
<1>2. TurnOK(turn[t], call[t]) /\ MarksOK(turn[t], call[t], audited, active)
  BY DEF Inv, FlowInv
<1>3. HeldAt("pricing", s) /\ call[t].input = Built(s.input)
  BY <1>1, <1>2 DEF TurnOK
<1>4. price \in Answers /\ call[t].input \in Inputs
  BY <1>1, Typed DEF Inv, Calls, NoCall
<1>5. issued \in Nat /\ audited \subseteq 1..issued
  BY DEF Inv, TypeInv, TypeOK
<1>6. q \in FlowQuotes /\ q.quoteId = issued + 1 /\ q.input = Built(s.input)
      /\ q.ruleVersion = turn[t].ruleVersion /\ q.pricing = price.ruleVersion
      /\ q.rolled = turn[t].rolled
  <2>1. turn[t].rolled \in BOOLEAN
    BY Typed DEF Inv, Turns
  <2> QED BY <1>1, <1>2, <1>3, <1>4, <1>5, <2>1 DEF FlowQuotes, Answers, TurnOK
<1>7. turn' = [turn EXCEPT ![t] = w]
  BY DEF Priced, Price, Inv, TypeInv, TypeOK
<1> HIDE DEF q
<1>8. w \in Turns /\ w.at = "recording" /\ w.state = s /\ w.quote = q
  BY <1>6, Typed DEF Inv, Turns, Places
<1> HIDE DEF w
<1>9. Becomes(t, w)
  BY <1>7, <1>8 DEF Becomes, Inv, TypeInv, TypeOK
<1>10. CallBecomes(t, NoCall)
  BY HangUpStep DEF Priced, Inv
<1>11. HeldAt("recording", s)
  BY <1>3 DEF HeldAt, Early, Late, Sealed, Agreed
<1>12. TurnOK(w, NoCall)
  BY <1>6, <1>8, <1>11 DEF TurnOK, NoCall
<1>13. ~q.rolled => q.ruleVersion = q.pricing
  BY <1>1, <1>2, <1>6 DEF MarksOK
<1>14. MarksOK(w, NoCall, audited, active)
  BY <1>1, <1>2, <1>8, <1>13 DEF MarksOK, Labelled
<1>15. /\ issued' \in Nat /\ issued <= issued' /\ q.quoteId \in 1..issued'
       /\ audited' \subseteq 1..issued' /\ audited' = audited
  BY <1>1, <1>5, <1>6
<1>16. past' \in [overlaps : 0..MaxOverlaps, died : BOOLEAN, strays : 0..MaxStrays]
  BY <1>1 DEF Inv, TypeInv, TypeOK
<1> QED BY <1>1, <1>6, <1>8, <1>9, <1>10, <1>12, <1>14, <1>15, <1>16, LocalStep

LEMMA RecordEventKeeps ==
    ASSUME Inv, NEW t \in Callers, RecordEvent(t)
    PROVE  Inv'
<1> DEFINE q == turn[t].quote
           s == turn[t].state
           e == [s EXCEPT !.quote = q]
           w == [turn[t] EXCEPT !.at = "saving", !.state = e, !.step = "END", !.asked = {}]
<1>1. /\ turn[t].at = "recording" /\ Ended(t, e)
      /\ UNCHANGED <<call, active, flow, issued, past>>
      /\ audited' = audited \cup {q.quoteId}
  BY DEF RecordEvent
<1>2. TurnOK(turn[t], call[t]) /\ MarksOK(turn[t], call[t], audited, active)
  BY DEF Inv, FlowInv
<1>3. HeldAt("recording", s) /\ q.input = Built(s.input) /\ q \in FlowQuotes
  BY <1>1, <1>2 DEF TurnOK
<1>4. /\ e \in States /\ e.quote = q /\ e.input = s.input
      /\ e.hasConsented = s.hasConsented /\ e.strayed = s.strayed
      /\ e.eligibilityStatus = s.eligibilityStatus
      /\ e.parametersConfirmed = s.parametersConfirmed /\ e.settled = s.settled
  BY <1>3, Typed DEF Inv, States
<1> HIDE DEF e
<1>5. Becomes(t, w)
  BY <1>1, <1>4, EndedStep DEF Inv
<1>6. w.at = "saving" /\ w.step = "END" /\ w.state = e /\ w.asked = {}
  BY Typed DEF Inv, Turns
<1> HIDE DEF w
<1>7. Gated(e)
  <2>1. Acceptable(s) /\ s.hasConsented = "yes" /\ (~s.strayed => Confirmed(s))
    BY <1>3 DEF HeldAt, Late, Sealed, Agreed
  <2>2. ~e.strayed => /\ e.quote.input.risk \in EligibleRisks
                      /\ e.parametersConfirmed = "yes" /\ e.settled
    BY <1>3, <1>4, <2>1 DEF Acceptable, Confirmed
  <2>3. /\ e.hasConsented = "yes"
        /\ e.eligibilityStatus # "referral_required"
        /\ e.quote.input = Built(e.input)
    BY <1>3, <1>4, <2>1 DEF Acceptable
  <2> QED BY <2>2, <2>3 DEF Gated
<1>8. RowOK(w)
  BY <1>6, <1>7 DEF RowOK, HeldAt, AskedAt, Early, Late, Sealed, Agreed
<1>9. TurnOK(w, call[t])
  BY <1>2, <1>6, <1>8 DEF TurnOK
<1>10. ShownOK(e, audited')
  BY <1>1, <1>2, <1>4 DEF MarksOK, ShownOK, Labelled
<1>11. MarksOK(w, call[t], audited', active)
  BY <1>6, <1>10 DEF MarksOK
<1>12. q.quoteId \in 1..issued /\ issued \in Nat /\ audited \subseteq 1..issued
  BY <1>1 DEF Inv, TypeInv, Numbered, TypeOK
<1>13. past' \in [overlaps : 0..MaxOverlaps, died : BOOLEAN, strays : 0..MaxStrays]
  BY <1>1 DEF Inv, TypeInv, TypeOK
<1>14. CallBecomes(t, call[t])
  BY <1>1, SameCall DEF Inv
<1>15. audited \subseteq audited' /\ audited' \subseteq 1..issued
  BY <1>1, <1>12, Zenon
<1>16. issued' \in Nat /\ issued <= issued' /\ issued' = issued
  BY <1>1, <1>12
<1> QED BY <1>1, <1>5, <1>6, <1>9, <1>11, <1>13, <1>14, <1>15,
          <1>16, LocalStep

LEMMA ReferralEndKeeps ==
    ASSUME Inv, NEW t \in Callers, ReferralEnd(t)
    PROVE  Inv'
<1> DEFINE s == turn[t].state
           w == [turn[t] EXCEPT !.at = "saving", !.state = s, !.step = "END", !.asked = {}]
<1>1. AtNode(t, "referral_end") /\ Ended(t, s) /\ UNCHANGED call
  BY DEF ReferralEnd
<1>2. /\ Quiet /\ s \in States /\ HeldAt("referral_end", s)
  BY <1>1, AtNodeHeld DEF Places, Nodes, Asking
<1>3. Becomes(t, w) /\ CallBecomes(t, call[t])
  BY <1>1, <1>2, EndedStep, SameCall DEF Inv
<1>4. w.at = "saving" /\ w.step = "END" /\ w.state = s /\ w.asked = {}
  BY Typed DEF Inv, Turns
<1> HIDE DEF w
<1>5. s.quote = NoQuote
  BY <1>2 DEF HeldAt
<1>6. RowOK(w)
  BY <1>4, <1>5 DEF RowOK, HeldAt, AskedAt, Gated, Early, Late, Sealed, Agreed
<1>7. TurnOK(turn[t], call[t])
  BY DEF Inv, FlowInv
<1>8. TurnOK(w, call[t])
  BY <1>4, <1>6, <1>7 DEF TurnOK
<1>9. MarksOK(w, call[t], audited, active)
  BY <1>4, <1>5, NoMarks
<1> QED BY <1>2, <1>3, <1>4, <1>8, <1>9, QuietStep

LEMMA SaveKeeps ==
    ASSUME Inv, NEW t \in Callers, Save(t)
    PROVE  Inv'
<1> DEFINE row == [step |-> turn[t].step, state |-> turn[t].state, asked |-> turn[t].asked]
<1>1. /\ turn[t].at = "saving" /\ flow' = row
      /\ UNCHANGED <<call, active, audited, issued, past>>
      /\ turn' = [turn EXCEPT ![t] = NoTurn]
  BY DEF Save
<1>2. TurnOK(turn[t], call[t]) /\ MarksOK(turn[t], call[t], audited, active)
  BY DEF Inv, FlowInv
<1>3. row \in Rows
  BY Typed DEF Inv, Turns, Rows
<1>4. RowOK(row) /\ ShownOK(row.state, audited)
  BY <1>1, <1>2 DEF TurnOK, RowOK, MarksOK
<1> HIDE DEF row
<1>5. Becomes(t, NoTurn)
  BY <1>1, FailStep DEF Fail, Inv
<1>6. CallBecomes(t, call[t])
  BY <1>1, SameCall DEF Inv
<1>7. NoTurn.at = "idle"
  BY DEF NoTurn
<1>8. TurnOK(NoTurn, call[t]) /\ MarksOK(NoTurn, call[t], audited, active)
  BY <1>2, <1>7 DEF TurnOK, MarksOK
<1>9. issued \in Nat /\ audited \subseteq 1..issued
  BY DEF Inv, TypeInv, TypeOK
<1>10. past' \in [overlaps : 0..MaxOverlaps, died : BOOLEAN, strays : 0..MaxStrays]
  BY <1>1 DEF Inv, TypeInv, TypeOK
<1> QED BY <1>1, <1>3, <1>4, <1>5, <1>6, <1>7, <1>8, <1>9, <1>10, LocalStep

LEMMA PortFailsKeeps ==
    ASSUME Inv, NEW t \in Callers, PortFails(t)
    PROVE  Inv'
<1>1. Fail(t) /\ Quiet
  BY DEF PortFails, Quiet
<1>2. CallBecomes(t, NoCall) /\ NoCall.answer = NoAnswer
  BY HangUpStep DEF PortFails, Inv, NoCall
<1> QED BY <1>1, <1>2, FailKeeps

LEMMA CrashKeeps ==
    ASSUME Inv, NEW t \in Callers, Crash(t)
    PROVE  Inv'
<1>1. Becomes(t, NoTurn) /\ NoTurn.at = "idle"
  BY FailStep DEF Crash, Inv, NoTurn
<1>2. CallBecomes(t, NoCall)
  BY HangUpStep DEF Crash, Inv
<1>3. UNCHANGED <<active, flow, audited, issued>>
  BY DEF Crash
<1>4. past' \in [overlaps : 0..MaxOverlaps, died : BOOLEAN, strays : 0..MaxStrays]
  BY DEF Crash, Inv, TypeInv, TypeOK
<1>5. issued \in Nat /\ audited \subseteq 1..issued
  BY DEF Inv, TypeInv, TypeOK
<1>6. TurnOK(NoTurn, NoCall) /\ MarksOK(NoTurn, NoCall, audited', active)
  BY NoTurnOK
<1> QED BY <1>1, <1>2, <1>3, <1>4, <1>5, <1>6, LocalStep

\* The answer comes with the version that is active, wherever the turn is.
LEMMA ServeCallKeeps ==
    ASSUME Inv, NEW t \in Callers, ServeCall(t)
    PROVE  Inv'
<1>1. Serve(t) /\ UNCHANGED turn /\ Quiet
  BY DEF ServeCall, Serve, Quiet
<1>2. PICK status \in Statuses :
         /\ CallBecomes(t, [call[t] EXCEPT !.answer =
                              [status |-> status, ruleVersion |-> active]])
         /\ status = "eligible" <=> call[t].input.risk \in EligibleRisks
  BY <1>1, ServeStep DEF Inv
<1> DEFINE c == [call[t] EXCEPT !.answer = [status |-> status, ruleVersion |-> active]]
<1>3. call[t] \in [route : Routes, input : Inputs, answer : Answers \cup {NoAnswer}]
  <2>1. call[t].route \in Routes
    BY <1>1, ServeStep DEF Inv
  <2> QED BY <2>1, Typed DEF Inv, Calls, NoCall, Routes
<1>4. /\ c.input = call[t].input
      /\ c.answer.status = status /\ c.answer.ruleVersion = active
  BY <1>3
<1>5. Becomes(t, turn[t])
  BY <1>1 DEF Becomes, Inv, TypeInv, TypeOK
<1>6. TurnOK(turn[t], call[t]) /\ MarksOK(turn[t], call[t], audited, active)
  BY DEF Inv, FlowInv
<1> HIDE DEF c
<1>7. TurnOK(turn[t], c)
  BY <1>2, <1>4, <1>6 DEF TurnOK
<1>8. MarksOK(turn[t], c, audited, active)
  <2>1. call[t].answer = NoAnswer
    BY <1>1 DEF Serve
  <2> QED BY <1>4, <1>6, <2>1 DEF MarksOK
<1>9. turn[t].at = "recording" =>
         turn[t].quote \in FlowQuotes /\ turn[t].quote.quoteId \in 1..issued
  BY DEF Inv, TypeInv, Numbered
<1> QED BY <1>1, <1>2, <1>5, <1>7, <1>8, <1>9, QuietStep DEF c

\* A deployment marks the quotes that are between their calls, and changes nothing
\* else about the turns.
LEMMA DeployMarks ==
    ASSUME TypeInv, NEW v \in RuleVersions, DeployRules(v)
    PROVE  /\ active' = v /\ UNCHANGED <<call, flow, audited, issued, past>>
           /\ turn' \in [Callers -> Turns]
           /\ \A t \in Callers :
                 /\ turn'[t].at = turn[t].at /\ turn'[t].state = turn[t].state
                 /\ turn'[t].step = turn[t].step /\ turn'[t].asked = turn[t].asked
                 /\ turn'[t].ruleVersion = turn[t].ruleVersion
                 /\ turn'[t].quote = turn[t].quote
                 /\ turn'[t].rolled = (turn[t].rolled \/ BetweenCalls(t))
<1>1. /\ active' = v /\ UNCHANGED <<call, flow, audited, issued, past>>
      /\ turn' = [t \in Callers |-> [turn[t] EXCEPT !.rolled = @ \/ BetweenCalls(t)]]
  BY DEF DeployRules, Deploy
<1>2. ASSUME NEW t \in Callers
      PROVE  /\ turn'[t] \in Turns
             /\ turn'[t].at = turn[t].at /\ turn'[t].state = turn[t].state
             /\ turn'[t].step = turn[t].step /\ turn'[t].asked = turn[t].asked
             /\ turn'[t].ruleVersion = turn[t].ruleVersion
             /\ turn'[t].quote = turn[t].quote
             /\ turn'[t].rolled = (turn[t].rolled \/ BetweenCalls(t))
  <2> DEFINE mark == turn[t].rolled \/ BetweenCalls(t)
  <2>1. mark \in BOOLEAN
    BY Typed, Zenon DEF Turns
  <2>2. turn'[t] = [turn[t] EXCEPT !.rolled = mark]
    BY <1>1
  <2> HIDE DEF mark
  <2>3. turn[t] \in Turns
    BY Typed
  <2>4. /\ turn'[t] \in Turns
        /\ turn'[t].at = turn[t].at /\ turn'[t].state = turn[t].state
        /\ turn'[t].step = turn[t].step /\ turn'[t].asked = turn[t].asked
        /\ turn'[t].ruleVersion = turn[t].ruleVersion
        /\ turn'[t].quote = turn[t].quote
        /\ turn'[t].rolled = mark
    BY <2>1, <2>2, <2>3 DEF Turns
  <2> QED BY <2>4 DEF mark
<1>3. turn' \in [Callers -> Turns]
  BY <1>1, <1>2
<1> QED BY <1>1, <1>2, <1>3

LEMMA DeployKeeps ==
    ASSUME Inv, NEW v \in RuleVersions, DeployRules(v)
    PROVE  Inv'
<1>1. active' = v /\ UNCHANGED <<call, flow, audited, issued, past>>
  BY DeployMarks DEF Inv
<1>2. turn' \in [Callers -> Turns]
  BY DeployMarks DEF Inv
<1>3. ASSUME NEW t \in Callers
      PROVE  /\ TurnOK(turn'[t], call[t]) /\ MarksOK(turn'[t], call[t], audited, v)
             /\ turn'[t].at = turn[t].at /\ turn'[t].quote = turn[t].quote
  <2>1. /\ turn'[t].at = turn[t].at /\ turn'[t].state = turn[t].state
        /\ turn'[t].step = turn[t].step /\ turn'[t].asked = turn[t].asked
        /\ turn'[t].ruleVersion = turn[t].ruleVersion
        /\ turn'[t].quote = turn[t].quote
        /\ turn'[t].rolled = (turn[t].rolled \/ BetweenCalls(t))
    BY DeployMarks DEF Inv
  <2>2. TurnOK(turn[t], call[t]) /\ MarksOK(turn[t], call[t], audited, active)
    BY DEF Inv, FlowInv
  <2>3. TurnOK(turn'[t], call[t])
    BY <2>1, <2>2 DEF TurnOK, RowOK
  <2>4. MarksOK(turn'[t], call[t], audited, v)
    BY <2>1, <2>2 DEF MarksOK, BetweenCalls
  <2> QED BY <2>1, <2>3, <2>4
<1>4. TypeInv'
  BY <1>1, <1>2, <1>3 DEF Inv, TypeInv, TypeOK, PortTypeOK, Numbered
<1>5. flow' # NoFlow => RowOK(flow') /\ ShownOK(flow'.state, audited')
  BY <1>1 DEF Inv, FlowInv
<1> QED BY <1>1, <1>3, <1>4, <1>5 DEF Inv, FlowInv

LEMMA InitInv == Init => Inv
<1> SUFFICES ASSUME Init PROVE Inv
  OBVIOUS
<1>1. turn = [t \in Callers |-> NoTurn] /\ call = [t \in Callers |-> NoCall]
  BY DEF Init, PortInit
<1>2. TypeOK
  BY <1>1, NoTurnType, FlowAssumption
     DEF Init, PortInit, TypeOK, PortTypeOK, Calls
<1>3. Numbered
  BY <1>1 DEF Numbered, NoTurn
<1>4. \A t \in Callers : TurnOK(turn[t], call[t]) /\ MarksOK(turn[t], call[t], audited, active)
  BY <1>1, NoTurnOK
<1> QED BY <1>2, <1>3, <1>4 DEF Inv, TypeInv, FlowInv, Init

LEMMA NextInv == Inv /\ [Next]_vars => Inv'
<1> SUFFICES ASSUME Inv, [Next]_vars PROVE Inv'
  OBVIOUS
<1>1. CASE UNCHANGED vars
  BY <1>1 DEF vars, Inv, TypeInv, TypeOK, PortTypeOK, Numbered, FlowInv
<1>2. ASSUME NEW t \in Callers, NEW a \in Replies, Start(t, a) \/ Continue(t, a)
      PROVE  Inv'
  BY <1>2, StartKeeps, ContinueKeeps
<1>3. ASSUME NEW t \in Callers, Run(t)
      PROVE  Inv'
  BY <1>3, CollectPropertyKeeps, CollectRiskKeeps, EvaluateEligibilityKeeps,
     EvaluatedKeeps, SelectCoverageKeeps, ConfirmDetailsKeeps, RequestConsentKeeps,
     CalculateQuoteKeeps, ReevaluatedKeeps, PricedKeeps, RecordEventKeeps,
     ReferralEndKeeps, SaveKeeps DEF Run
<1>4. ASSUME NEW t \in Callers, ServeCall(t) \/ PortFails(t) \/ Crash(t)
      PROVE  Inv'
  BY <1>4, ServeCallKeeps, PortFailsKeeps, CrashKeeps
<1>5. ASSUME NEW v \in RuleVersions, DeployRules(v)
      PROVE  Inv'
  BY <1>5, DeployKeeps
<1> QED BY <1>1, <1>2, <1>3, <1>4, <1>5 DEF Next

-----------------------------------------------------------------------------
(* Theorems *)

\* The invariant holds of every behaviour of the primary tool (waniwani-flow.ts).
THEOREM Invariance == Spec => []Inv
BY InitInv, NextInv, PTL DEF Spec

\* Every turn and the row on file keep their types, and every audited quote has an
\* identifier that was handed out (calculate_quote and the store's set).
THEOREM FlowTypeCorrect == Spec => []TypeOK
<1>1. Inv => TypeOK
  BY DEF Inv, TypeInv
<1> QED BY <1>1, Invariance, PTL

\* What holds of the turns in flight and of the row holds of every state held.
LEMMA HeldStatesInv ==
    ASSUME Inv, NEW s \in HeldStates, s.quote # NoQuote
    PROVE  Gated(s) /\ ShownOK(s, audited)
<1>1. CASE \E t \in Callers : InFlight(t) /\ s = turn[t].state
  <2>1. PICK t \in Callers : turn[t].at # "idle" /\ s = turn[t].state
    BY <1>1 DEF InFlight
  <2>2. TurnOK(turn[t], call[t]) /\ MarksOK(turn[t], call[t], audited, active)
    BY DEF Inv, FlowInv
  <2>3. ShownOK(s, audited)
    BY <2>1, <2>2 DEF MarksOK
  <2>4. turn[t].at \in Places /\ turn[t].step \in Asking \cup {"END"}
    BY Typed DEF Inv, Turns
  <2>5. turn[t].at = "saving" /\ turn[t].step = "END"
    BY <2>1, <2>2, <2>4 DEF TurnOK, RowOK, HeldAt, Places, Nodes, Asking
  <2> QED BY <2>1, <2>2, <2>3, <2>5 DEF TurnOK, RowOK, HeldAt
<1>2. CASE flow # NoFlow /\ s = flow.state
  <2>1. RowOK(flow) /\ ShownOK(flow.state, audited)
    BY <1>2 DEF Inv, FlowInv
  <2> QED BY <1>2, <2>1 DEF RowOK, HeldAt
<1> QED BY <1>1, <1>2 DEF HeldStates

\* No quote leaves calculate_quote but behind consent and a verdict that was not a
\* referral, whatever turns overlap, die or lose their pricing call; and if no
\* answer was out of turn, what is priced was confirmed and the rules accept it.
THEOREM FlowGate == Spec => []FlowQuoteGate
<1>1. Inv => FlowQuoteGate
  BY HeldStatesInv DEF FlowQuoteGate, Gated
<1> QED BY <1>1, Invariance, PTL

\* A quote the customer can see has its quote.calculated event, whatever turn died
\* where (calculate_quote awaits recordEvent before it returns).
THEOREM FlowAudited == Spec => []FlowQuotesAudited
<1>1. Inv => FlowQuotesAudited
  BY HeldStatesInv DEF FlowQuotesAudited, ShownOK
<1> QED BY <1>1, Invariance, PTL

\* The label and the fingerprint of a quote name the version that priced it, whatever
\* turns overlap, fail and die and whenever rules are deployed, but for a deployment
\* that falls between the answers to the two calls of that quote (calculate_quote).
THEOREM FlowLabels == Spec => []LabelledAsPriced
<1>1. Inv => LabelledAsPriced
  BY HeldStatesInv DEF LabelledAsPriced, ShownOK, Labelled
<1> QED BY <1>1, Invariance, PTL

-----------------------------------------------------------------------------
(* A conversation whose turns never overlap and never die.  The turn in    *)
(* flight is then the only one that audits, and what it audits it saves.   *)

Lone == past.overlaps = 0 /\ ~past.died

Shown(s) == IF s.quote = NoQuote THEN {} ELSE {s.quote.quoteId}

OnFile == IF flow = NoFlow THEN {} ELSE Shown(flow.state)

Alone == Lone =>
    /\ \A t, u \in Callers : InFlight(t) /\ InFlight(u) => t = u
    /\ (\A t \in Callers : ~InFlight(t)) => audited = OnFile
    /\ \A t \in Callers : InFlight(t) =>
          /\ OnFile = {}
          /\ audited = IF turn[t].at = "saving" THEN Shown(turn[t].state) ELSE {}

\* A call belongs to a turn that awaits it, so that none fails under a turn that has
\* its quote.
Awaiting == {"evaluating", "reevaluating", "pricing"}

Tied == \A t \in Callers : call[t].route \in Routes => turn[t].at \in Awaiting

LoneInv == Alone /\ Tied

\* What a turn does that neither records an event nor writes the row: it shows no quote.
Works(t) ==
    /\ UNCHANGED <<flow, audited, past>>
    /\ turn[t].at \notin {"idle", "saving"}
    /\ \A u \in Callers : u # t => turn'[u] = turn[u] /\ call'[u] = call[u]
    /\ turn'[t].at = "saving" => turn'[t].state.quote = NoQuote
    /\ call'[t].route \in Routes => turn'[t].at \in Awaiting

LEMMA WorksLone ==
    ASSUME LoneInv, NEW t \in Callers, Works(t)
    PROVE  LoneInv'
<1>1. Tied'
  BY DEF LoneInv, Tied, Works
<1>2. Alone'
  <2> SUFFICES ASSUME Lone' PROVE Alone'
    BY DEF Alone
  <2>1. Lone /\ OnFile' = OnFile /\ audited' = audited
    BY DEF Works, Lone, OnFile, Shown
  <2>2. /\ InFlight(t) /\ OnFile = {} /\ audited = {}
        /\ \A u \in Callers : u # t => ~InFlight(u)
    BY <2>1 DEF LoneInv, Alone, Works, InFlight
  <2>3. \A u \in Callers : u # t => ~InFlight(u)'
    BY <2>2 DEF Works, InFlight
  <2>4. turn'[t].at = "saving" => Shown(turn'[t].state) = {}
    BY DEF Works, Shown
  <2> QED BY <2>1, <2>2, <2>3, <2>4 DEF Alone
<1> QED BY <1>1, <1>2 DEF LoneInv

\* The parts of Works that steps of nodes have in common.
LEMMA StepWorks ==
    ASSUME LoneInv, NEW t \in Callers, UNCHANGED <<flow, audited, past>>,
           turn[t].at \notin {"idle", "saving"}, NEW w, Becomes(t, w),
           w.at = "saving" => w.state.quote = NoQuote,
           NEW c, CallBecomes(t, c), c.route \in Routes => w.at \in Awaiting
    PROVE  Works(t)
BY DEF Works, Becomes, CallBecomes

\* A turn at a node awaits no call.
LEMMA NoCallAtNodes ==
    ASSUME LoneInv, NEW t \in Callers, turn[t].at \in Nodes
    PROVE  call[t].route \notin Routes
BY DEF LoneInv, Tied, Awaiting, Nodes, Asking

LEMMA CollectWorks ==
    ASSUME Inv, LoneInv, NEW t \in Callers, NEW node \in Asking, AtNode(t, node),
           UNCHANGED call, NEW missing \in SUBSET Fields, NEW next \in Nodes,
           Collect(t, missing, next)
    PROVE  Works(t)
<1> DEFINE s == turn[t].state
<1>1. node \in Places \ {"idle", "saving"} /\ node \in Nodes
  BY DEF Asking, Places, Nodes
<1>2. turn[t].at = node /\ Quiet /\ HeldAt(node, s) /\ s \in States
  BY <1>1, AtNodeHeld
<1>3. s.quote = NoQuote
  BY <1>2 DEF HeldAt, Asking
<1>4. CallBecomes(t, call[t]) /\ call[t].route \notin Routes
  BY <1>1, <1>2, SameCall, NoCallAtNodes DEF Inv
<1>5. CASE missing # {}
  <2> DEFINE w == [turn[t] EXCEPT !.step = turn[t].at, !.at = "saving",
                                  !.state = s, !.asked = missing]
  <2>1. Becomes(t, w)
    BY <1>2, <1>5, InterruptStep DEF Collect, Inv
  <2>2. w.state = s
    BY Typed DEF Inv, Turns
  <2> HIDE DEF w
  <2> QED BY <1>1, <1>2, <1>3, <1>4, <2>1, <2>2, StepWorks DEF Quiet
<1>6. CASE missing = {}
  <2> DEFINE w == [turn[t] EXCEPT !.at = next, !.state = s]
  <2>1. Becomes(t, w)
    BY <1>2, <1>6, GotoStep DEF Collect, Inv, Places
  <2>2. w.state = s
    BY Typed DEF Inv, Turns
  <2> HIDE DEF w
  <2> QED BY <1>1, <1>2, <1>3, <1>4, <2>1, <2>2, StepWorks DEF Quiet
<1> QED BY <1>5, <1>6

LEMMA CollectRiskWorks ==
    ASSUME Inv, LoneInv, NEW t \in Callers, CollectRisk(t)
    PROVE  Works(t)
<1> DEFINE s == turn[t].state
           bare == [s EXCEPT !.input.risk[PostcodeField] = NoValue]
           missing == Missing(s.input.risk, FactorFields)
<1>1. AtNode(t, "collect_risk") /\ UNCHANGED call
  BY DEF CollectRisk
<1>2. /\ turn[t].at = "collect_risk" /\ Quiet /\ HeldAt("collect_risk", s)
      /\ s \in States
  BY <1>1, AtNodeHeld DEF Places, Nodes, Asking
<1>3. CASE BadPostcode(s)
  <2> DEFINE asked == {PostcodeField}
             w == [turn[t] EXCEPT !.step = turn[t].at, !.at = "saving",
                                  !.state = bare, !.asked = asked]
  <2>1. turn' = [turn EXCEPT ![t] = w]
    BY <1>3 DEF CollectRisk, Interrupt, Inv, TypeInv, TypeOK
  <2>2. /\ bare.quote = s.quote
        /\ w.state = bare /\ w.at = "saving"
    BY <1>2, Typed DEF Inv, Turns, States
  <2> HIDE DEF w, bare
  <2>3. s.quote = NoQuote
    BY <1>2 DEF HeldAt
  <2>4. turn'[t] = w /\ \A u \in Callers : u # t => turn'[u] = turn[u]
    BY <2>1 DEF Inv, TypeInv, TypeOK
  <2>5. call[t].route \notin Routes
    BY <1>2, NoCallAtNodes DEF Nodes, Asking
  <2> QED BY <1>1, <1>2, <2>2, <2>3, <2>4, <2>5 DEF Works, Quiet
<1>4. CASE ~BadPostcode(s)
  <2>1. Collect(t, missing, "evaluate_eligibility")
    BY <1>4 DEF CollectRisk
  <2>2. missing \in SUBSET Fields
    BY DEF Missing, StructuralFields, Fields
  <2> QED BY <1>1, <2>1, <2>2, CollectWorks DEF Asking, Nodes
<1> QED BY <1>3, <1>4

\* The nodes that ask for what is missing.
LEMMA AskingWorks ==
    ASSUME Inv, LoneInv, NEW t \in Callers,
           \/ CollectProperty(t) \/ SelectCoverage(t)
           \/ ConfirmDetails(t) \/ RequestConsent(t)
    PROVE  Works(t)
<1> DEFINE s == turn[t].state
<1>1. CASE CollectProperty(t)
  <2> DEFINE missing == Missing(s.input.risk, PropertyFields)
             misfit == IF PropertyForm(s) \in FittingTrimmed THEN {} ELSE {PostcodeField}
             asked == IF missing # {} THEN missing ELSE misfit
  <2>1. /\ AtNode(t, "collect_property") /\ UNCHANGED call
        /\ Collect(t, asked, "collect_risk")
    BY <1>1, Zenon DEF CollectProperty
  <2>2. asked \in SUBSET Fields
    BY FlowAssumption DEF Missing, StructuralFields, Fields
  <2> HIDE DEF asked
  <2> QED BY <2>1, <2>2, CollectWorks DEF Asking, Nodes
<1>2. CASE SelectCoverage(t)
  <2> DEFINE missing == Missing(s.input.coverage, CoverageFields)
  <2>1. /\ AtNode(t, "select_coverage") /\ UNCHANGED call
        /\ Collect(t, missing, "confirm_parameters")
    BY <1>2 DEF SelectCoverage
  <2>2. missing \in SUBSET Fields
    BY DEF Missing, Fields
  <2> HIDE DEF missing
  <2> QED BY <2>1, <2>2, CollectWorks DEF Asking, Nodes
<1>3. CASE ConfirmDetails(t)
  <2> DEFINE missing == IF s.parametersConfirmed = "yes" THEN {} ELSE {"parametersConfirmed"}
  <2>1. /\ AtNode(t, "confirm_parameters") /\ UNCHANGED call
        /\ Collect(t, missing, "request_consent")
    BY <1>3 DEF ConfirmDetails, Insist
  <2>2. missing \in SUBSET Fields
    BY DEF Fields
  <2> HIDE DEF missing
  <2> QED BY <2>1, <2>2, CollectWorks DEF Asking, Nodes
<1>4. CASE RequestConsent(t)
  <2> DEFINE missing == IF s.hasConsented = "yes" THEN {} ELSE {"hasConsented"}
  <2>1. /\ AtNode(t, "request_consent") /\ UNCHANGED call
        /\ Collect(t, missing, "calculate_quote")
    BY <1>4 DEF RequestConsent, Insist
  <2>2. missing \in SUBSET Fields
    BY DEF Fields
  <2> HIDE DEF missing
  <2> QED BY <2>1, <2>2, CollectWorks DEF Asking, Nodes
<1> QED BY <1>1, <1>2, <1>3, <1>4

\* A turn that fails before it has a quote.
LEMMA FailWorks ==
    ASSUME Inv, LoneInv, NEW t \in Callers, Fail(t), UNCHANGED <<flow, audited, past>>,
           turn[t].at \notin {"idle", "saving"}, NEW c, CallBecomes(t, c),
           c.route \notin Routes
    PROVE  Works(t)
<1>1. Becomes(t, NoTurn) /\ NoTurn.at = "idle"
  BY FailStep DEF Inv, NoTurn
<1> QED BY <1>1, StepWorks

\* Asking the port, or failing to.
LEMMA AskWorks ==
    ASSUME Inv, LoneInv, NEW t \in Callers, NEW node \in Nodes, AtNode(t, node),
           NEW place \in {"evaluating", "reevaluating"}, Ask(t, "evaluate", place)
    PROVE  Works(t)
<1> DEFINE s == turn[t].state
<1>1. /\ turn[t].at = node /\ s \in States /\ UNCHANGED <<flow, audited, past>>
      /\ turn[t].at \notin {"idle", "saving"}
  BY AtNodeHeld DEF Places, Nodes, Asking, Quiet
<1>2. CASE Valid(s.input)
  <2> DEFINE w == [turn[t] EXCEPT !.at = place, !.state = s]
             c == [route |-> "evaluate", input |-> Built(s.input), answer |-> NoAnswer]
  <2>1. Request(t, "evaluate", Built(s.input)) /\ Goto(t, place, s)
    BY <1>2 DEF Ask
  <2>2. Built(s.input) \in Inputs
    BY <1>1, BuiltType DEF States
  <2>3. Becomes(t, w) /\ CallBecomes(t, c)
    BY <1>1, <2>1, <2>2, GotoStep, RequestStep DEF Inv, Places, Routes
  <2>4. w.at = place /\ place \in Awaiting /\ place # "saving"
    BY Typed DEF Inv, Turns, Awaiting
  <2> HIDE DEF w, c
  <2> QED BY <1>1, <2>3, <2>4, StepWorks
<1>3. CASE ~Valid(s.input)
  <2>1. Fail(t) /\ UNCHANGED call
    BY <1>3 DEF Ask
  <2>2. CallBecomes(t, call[t]) /\ call[t].route \notin Routes
    BY <1>1, <2>1, SameCall, NoCallAtNodes DEF Inv
  <2> QED BY <1>1, <2>1, <2>2, FailWorks
<1> QED BY <1>2, <1>3

\* The nodes that ask the port, and what comes of its answers.
LEMMA PortWorks ==
    ASSUME Inv, LoneInv, NEW t \in Callers,
           \/ EvaluateEligibility(t) \/ Evaluated(t) \/ CalculateQuote(t)
           \/ Reevaluated(t) \/ Priced(t)
    PROVE  Works(t)
<1> DEFINE s == turn[t].state
<1>1. CASE EvaluateEligibility(t)
  <2>1. AtNode(t, "evaluate_eligibility")
    BY <1>1 DEF EvaluateEligibility
  <2>2. turn[t].at = "evaluate_eligibility"
    BY <2>1 DEF AtNode
  <2>3. Missing(s.input.risk, FactorFields) = {}
    BY <2>2 DEF Inv, FlowInv, TurnOK
  <2>4. Missing(s.input.risk, BandFields) = {}
    BY <2>3, FlowAssumption DEF Missing
  <2>5. Ask(t, "evaluate", "evaluating")
    BY <1>1, <2>4 DEF EvaluateEligibility
  <2> QED BY <2>1, <2>5, AskWorks DEF Nodes
<1>2. CASE Evaluated(t)
  <2> DEFINE e == [s EXCEPT !.eligibilityStatus = Verdict(t).status]
             next == IF e.eligibilityStatus = "referral_required" THEN "referral_end"
                     ELSE "select_coverage"
             w == [turn[t] EXCEPT !.at = next, !.state = e]
  <2>1. /\ turn[t].at = "evaluating" /\ UNCHANGED <<flow, audited, past>>
        /\ HangUp(t) /\ Goto(t, next, e)
    BY <1>2 DEF Evaluated, AtNode, Branch
  <2>2. next # "saving"
    OBVIOUS
  <2> HIDE DEF e, next
  <2>3. turn' = [turn EXCEPT ![t] = w]
    BY <2>1 DEF Goto, Inv, TypeInv, TypeOK
  <2>4. w.at = next
    BY Typed DEF Inv, Turns
  <2> HIDE DEF w
  <2>5. turn'[t] = w /\ \A u \in Callers : u # t => turn'[u] = turn[u]
    BY <2>3 DEF Inv, TypeInv, TypeOK
  <2>6. CallBecomes(t, NoCall) /\ NoCall.route \notin Routes
    BY <2>1, HangUpStep DEF Inv, NoCall, Routes
  <2> QED BY <2>1, <2>2, <2>4, <2>5, <2>6 DEF Works, CallBecomes
<1>3. CASE CalculateQuote(t)
  BY <1>3, AskWorks DEF CalculateQuote, Nodes
<1>4. CASE Reevaluated(t)
  <2> DEFINE w == [turn[t] EXCEPT !.at = "pricing", !.ruleVersion = Verdict(t).ruleVersion]
  <2>1. /\ turn[t].at = "reevaluating" /\ UNCHANGED <<flow, audited, past>>
        /\ turn' = [turn EXCEPT ![t] = w]
        /\ Request(t, "calculate", call[t].input)
    BY <1>4 DEF Reevaluated, AtNode, Inv, TypeInv, TypeOK
  <2>2. w.at = "pricing"
    BY Typed DEF Inv, Turns
  <2> HIDE DEF w
  <2>3. turn'[t] = w /\ \A u \in Callers : u # t => turn'[u] = turn[u]
    BY <2>1 DEF Inv, TypeInv, TypeOK
  <2>4. \A u \in Callers : u # t => call'[u] = call[u]
    BY <2>1 DEF Request, Inv, TypeInv, TypeOK, PortTypeOK
  <2> QED BY <2>1, <2>2, <2>3, <2>4 DEF Works, Awaiting
<1>5. CASE Priced(t)
  <2> DEFINE q == [quoteId |-> issued + 1, input |-> call[t].input,
                   ruleVersion |-> turn[t].ruleVersion, pricing |-> Price(t),
                   rolled |-> turn[t].rolled]
             w == [turn[t] EXCEPT !.at = "recording", !.quote = q]
  <2>1. /\ turn[t].at = "pricing" /\ UNCHANGED <<flow, audited, past>>
        /\ turn' = [turn EXCEPT ![t] = w] /\ HangUp(t)
    BY <1>5 DEF Priced, Inv, TypeInv, TypeOK
  <2>2. w.at = "recording"
    BY Typed DEF Inv, Turns
  <2> HIDE DEF w
  <2>3. turn'[t] = w /\ \A u \in Callers : u # t => turn'[u] = turn[u]
    BY <2>1 DEF Inv, TypeInv, TypeOK
  <2>4. CallBecomes(t, NoCall) /\ NoCall.route \notin Routes
    BY <2>1, HangUpStep DEF Inv, NoCall, Routes
  <2> QED BY <2>1, <2>2, <2>3, <2>4 DEF Works, CallBecomes
<1> QED BY <1>1, <1>2, <1>3, <1>4, <1>5

LEMMA ReferralEndWorks ==
    ASSUME Inv, LoneInv, NEW t \in Callers, ReferralEnd(t)
    PROVE  Works(t)
<1> DEFINE s == turn[t].state
           w == [turn[t] EXCEPT !.at = "saving", !.state = s, !.step = "END", !.asked = {}]
<1>1. AtNode(t, "referral_end") /\ Ended(t, s) /\ UNCHANGED call
  BY DEF ReferralEnd
<1>2. /\ turn[t].at = "referral_end" /\ UNCHANGED <<flow, audited, past>>
      /\ s \in States /\ HeldAt("referral_end", s)
  BY <1>1, AtNodeHeld DEF Places, Nodes, Asking, Quiet
<1>3. Becomes(t, w) /\ CallBecomes(t, call[t])
  BY <1>1, <1>2, EndedStep, SameCall DEF Inv
<1>4. w.at = "saving" /\ w.state = s /\ s.quote = NoQuote
  BY <1>2, Typed DEF Inv, Turns, HeldAt
<1> HIDE DEF w
<1>5. call[t].route \notin Routes
  BY <1>2, NoCallAtNodes DEF Nodes
<1> QED BY <1>2, <1>3, <1>4, <1>5, StepWorks

\* The turn that has its quote audits it, and holds it until it is saved.
LEMMA RecordEventLone ==
    ASSUME Inv, LoneInv, NEW t \in Callers, RecordEvent(t)
    PROVE  LoneInv'
<1> DEFINE q == turn[t].quote
           e == [turn[t].state EXCEPT !.quote = q]
           w == [turn[t] EXCEPT !.at = "saving", !.state = e, !.step = "END", !.asked = {}]
<1>1. /\ turn[t].at = "recording" /\ UNCHANGED <<call, flow, past>>
      /\ audited' = audited \cup {q.quoteId} /\ Ended(t, e)
  BY DEF RecordEvent
<1>2. q \in FlowQuotes
  BY <1>1 DEF Inv, TypeInv, Numbered
<1>3. turn' = [turn EXCEPT ![t] = w]
  BY <1>1 DEF Ended, Inv, TypeInv, TypeOK
<1>4. w.at = "saving" /\ w.state = e /\ e.quote = q
  BY Typed DEF Inv, Turns, States
<1> HIDE DEF w, e
<1>5. turn'[t] = w /\ \A u \in Callers : u # t => turn'[u] = turn[u]
  BY <1>3 DEF Inv, TypeInv, TypeOK
<1>6. Shown(turn'[t].state) = {q.quoteId}
  BY <1>2, <1>4, <1>5, NothingAssumption DEF Shown
<1>7. Tied'
  BY <1>1, <1>5 DEF LoneInv, Tied, Awaiting
<1>8. Alone'
  <2> SUFFICES ASSUME Lone' PROVE Alone'
    BY DEF Alone
  <2>1. Lone /\ OnFile' = OnFile
    BY <1>1 DEF Lone, OnFile, Shown
  <2>2. /\ InFlight(t) /\ OnFile = {} /\ audited = {}
        /\ \A u \in Callers : u # t => ~InFlight(u)
    BY <1>1, <2>1 DEF LoneInv, Alone, InFlight
  <2>3. InFlight(t)' /\ \A u \in Callers : u # t => ~InFlight(u)'
    BY <1>4, <1>5, <2>2 DEF InFlight
  <2>4. audited' = {q.quoteId} /\ turn'[t].at = "saving"
    BY <1>1, <1>4, <1>5, <2>2
  <2> QED BY <1>6, <2>1, <2>2, <2>3, <2>4 DEF Alone
<1> QED BY <1>7, <1>8 DEF LoneInv

\* Saving puts on file what the turn showed.
LEMMA SaveLone ==
    ASSUME Inv, LoneInv, NEW t \in Callers, Save(t)
    PROVE  LoneInv'
<1> DEFINE row == [step |-> turn[t].step, state |-> turn[t].state, asked |-> turn[t].asked]
<1>1. /\ turn[t].at = "saving" /\ flow' = row /\ UNCHANGED <<call, audited, past>>
      /\ turn' = [turn EXCEPT ![t] = NoTurn]
  BY DEF Save
<1>2. row \in Rows /\ row.state = turn[t].state
  BY Typed DEF Inv, Turns, Rows
<1> HIDE DEF row
<1>3. OnFile' = Shown(turn[t].state)
  BY <1>1, <1>2, NothingAssumption DEF OnFile, Shown
<1>4. /\ turn'[t].at = "idle"
      /\ \A u \in Callers : u # t => turn'[u] = turn[u]
  BY <1>1 DEF NoTurn, Inv, TypeInv, TypeOK
<1>5. Tied'
  BY <1>1, <1>4 DEF LoneInv, Tied, Awaiting
<1>6. Alone'
  <2> SUFFICES ASSUME Lone' PROVE Alone'
    BY DEF Alone
  <2>1. Lone
    BY <1>1 DEF Lone
  <2>2. /\ InFlight(t) /\ audited = Shown(turn[t].state)
        /\ \A u \in Callers : u # t => ~InFlight(u)
    BY <1>1, <2>1 DEF LoneInv, Alone, InFlight
  <2>3. \A u \in Callers : ~InFlight(u)'
    BY <1>4, <2>2 DEF InFlight
  <2> QED BY <1>1, <1>3, <2>2, <2>3 DEF Alone
<1> QED BY <1>5, <1>6 DEF LoneInv

\* A turn begins alone, or the conversation is marked.
LEMMA BeginLone ==
    ASSUME Inv, LoneInv, NEW t \in Callers, NEW node \in Asking, NEW s,
           NEW astray \in BOOLEAN, Begin(t, node, s, astray), ~InFlight(t), OnFile = {}
    PROVE  LoneInv'
<1> DEFINE w == [NoTurn EXCEPT !.at = node, !.state = s]
<1>1. /\ turn' = [turn EXCEPT ![t] = w] /\ UNCHANGED <<call, flow, audited>>
  BY DEF Begin
<1>2. w.at = node /\ node \notin {"idle", "saving"}
  BY DEF NoTurn, Asking
<1> HIDE DEF w
<1>3. turn'[t] = w /\ \A u \in Callers : u # t => turn'[u] = turn[u]
  BY <1>1 DEF Inv, TypeInv, TypeOK
<1>4. Tied'
  <2>1. call[t].route \notin Routes
    BY DEF LoneInv, Tied, InFlight, Awaiting
  <2> QED BY <1>1, <1>3, <2>1 DEF LoneInv, Tied
<1>5. Alone'
  <2> SUFFICES ASSUME Lone' PROVE Alone'
    BY DEF Alone
  <2> DEFINE m == IF \E u \in Callers : InFlight(u) THEN past.overlaps + 1
                  ELSE past.overlaps
             n == IF astray THEN past.strays + 1 ELSE past.strays
  <2>1. past' = [past EXCEPT !.overlaps = m, !.strays = n]
    BY Zenon DEF Begin
  <2>2. /\ past \in [overlaps : 0..MaxOverlaps, died : BOOLEAN, strays : 0..MaxStrays]
        /\ past.overlaps \in Nat
    BY FlowAssumption DEF Inv, TypeInv, TypeOK
  <2> HIDE DEF m, n
  <2>3. past'.overlaps = m
    BY <2>1, <2>2
  <2>4. past'.died = past.died
    BY <2>1, <2>2, Zenon
  <2>5. m = 0
    BY <2>3 DEF Lone
  <2>6. past.overlaps = 0 /\ \A u \in Callers : ~InFlight(u)
    BY <2>2, <2>5 DEF m
  <2>7. ~past.died
    BY <2>4, Zenon DEF Lone
  <2>8. Lone /\ OnFile' = OnFile
    BY <1>1, <2>6, <2>7 DEF Lone, OnFile, Shown
  <2>9. audited = {}
    BY <2>6, <2>8 DEF LoneInv, Alone
  <2>10. \A u \in Callers : u # t => ~InFlight(u)'
    BY <1>3, <2>6 DEF InFlight
  <2> QED BY <1>1, <1>2, <1>3, <2>8, <2>9, <2>10 DEF Alone
<1> QED BY <1>4, <1>5 DEF LoneInv

LEMMA StartLone ==
    ASSUME Inv, LoneInv, NEW t \in Callers, NEW a \in Replies, Start(t, a)
    PROVE  LoneInv'
<1>1. ~InFlight(t) /\ OnFile = {}
  BY DEF Start, OnFile
<1>2. PICK s : Begin(t, "collect_property", s, AnsweredFields(a) # {})
  BY DEF Start
<1> QED BY <1>1, <1>2, BeginLone DEF Asking

LEMMA ContinueLone ==
    ASSUME Inv, LoneInv, NEW t \in Callers, NEW a \in Replies, Continue(t, a)
    PROVE  LoneInv'
<1>1. ~InFlight(t) /\ flow.step \in Asking /\ flow.step # "END"
  BY Typed DEF Continue, Inv, Rows
<1>2. OnFile = {}
  BY <1>1 DEF Continue, Inv, FlowInv, RowOK, HeldAt, OnFile, Shown
<1>3. PICK s : Begin(t, flow.step, s, AnsweredFields(a) # flow.asked)
  BY DEF Continue
<1> QED BY <1>1, <1>2, <1>3, BeginLone

LEMMA CrashLone ==
    ASSUME Inv, LoneInv, NEW t \in Callers, Crash(t)
    PROVE  LoneInv'
<1>1. past'.died = TRUE
  BY DEF Crash, Inv, TypeInv, TypeOK
<1>2. Becomes(t, NoTurn) /\ CallBecomes(t, NoCall) /\ NoCall.route \notin Routes
  BY FailStep, HangUpStep DEF Crash, Inv, NoCall, Routes
<1>3. Tied'
  BY <1>2 DEF LoneInv, Tied, Becomes, CallBecomes
<1> QED BY <1>1, <1>3 DEF LoneInv, Alone, Lone

\* Only a turn that awaits a call can lose it, or have it answered.
LEMMA CallWorks ==
    ASSUME Inv, LoneInv, NEW t \in Callers, ServeCall(t) \/ PortFails(t)
    PROVE  Works(t)
<1>1. call[t].route \in Routes
  BY DEF ServeCall, Serve, PortFails, MayFail
<1>2. turn[t].at \in Awaiting
  BY <1>1 DEF LoneInv, Tied
<1>3. CASE ServeCall(t)
  <2>1. \A u \in Callers : u # t => call'[u] = call[u]
    BY <1>3 DEF ServeCall, Serve, Inv, TypeInv, TypeOK, PortTypeOK
  <2> QED BY <1>2, <1>3, <2>1 DEF Works, ServeCall, Awaiting
<1>4. CASE PortFails(t)
  <2>1. CallBecomes(t, NoCall) /\ NoCall.route \notin Routes
    BY <1>4, HangUpStep DEF PortFails, Inv, NoCall, Routes
  <2> QED BY <1>2, <1>4, <2>1, FailWorks DEF PortFails, Awaiting
<1> QED BY <1>3, <1>4

LEMMA NextLone == Inv /\ LoneInv /\ [Next]_vars => LoneInv'
<1> SUFFICES ASSUME Inv, LoneInv, [Next]_vars PROVE LoneInv'
  OBVIOUS
<1>1. ASSUME UNCHANGED <<call, flow, turn, audited, past>>
      PROVE  LoneInv'
  BY <1>1 DEF LoneInv, Alone, Tied, Lone, OnFile, Shown, InFlight
<1>2. CASE UNCHANGED vars
  BY <1>1, <1>2 DEF vars
<1>3. ASSUME NEW t \in Callers, NEW a \in Replies, Start(t, a) \/ Continue(t, a)
      PROVE  LoneInv'
  BY <1>3, StartLone, ContinueLone
<1>4. ASSUME NEW t \in Callers, Run(t)
      PROVE  LoneInv'
  BY <1>4, AskingWorks, CollectRiskWorks, PortWorks, ReferralEndWorks, WorksLone,
     RecordEventLone, SaveLone DEF Run
<1>5. ASSUME NEW t \in Callers, ServeCall(t) \/ PortFails(t) \/ Crash(t)
      PROVE  LoneInv'
  BY <1>5, CallWorks, WorksLone, CrashLone
<1>6. ASSUME NEW v \in RuleVersions, DeployRules(v)
      PROVE  LoneInv'
  <2>1. /\ UNCHANGED <<call, flow, audited, past>>
        /\ \A t \in Callers : turn'[t].at = turn[t].at /\ turn'[t].state = turn[t].state
    BY <1>6, DeployMarks DEF Inv
  <2>2. /\ Lone' = Lone /\ OnFile' = OnFile /\ audited' = audited
        /\ \A t \in Callers : InFlight(t)' <=> InFlight(t)
    BY <2>1 DEF Lone, OnFile, Shown, InFlight
  <2>3. Tied'
    BY <2>1 DEF LoneInv, Tied
  <2>4. ASSUME Lone, NEW t \in Callers, InFlight(t)
        PROVE  OnFile = {} /\ audited = IF turn'[t].at = "saving" THEN Shown(turn'[t].state)
                                                               ELSE {}
    BY <2>1, <2>4 DEF LoneInv, Alone
  <2>5. Alone'
    BY <2>2, <2>4 DEF LoneInv, Alone, Shown
  <2> QED BY <2>3, <2>5 DEF LoneInv
<1> QED BY <1>2, <1>3, <1>4, <1>5, <1>6 DEF Next

LEMMA InitLone == Init => LoneInv
<1> SUFFICES ASSUME Init PROVE LoneInv
  OBVIOUS
<1>1. turn = [t \in Callers |-> NoTurn] /\ call = [t \in Callers |-> NoCall]
  BY DEF Init, PortInit
<1>2. \A t \in Callers : ~InFlight(t)
  BY <1>1 DEF InFlight, NoTurn
<1>3. Tied
  BY <1>1 DEF Tied, NoCall, Routes
<1> QED BY <1>2, <1>3 DEF LoneInv, Alone, OnFile, Init

\* Unless turns overlap or one dies, the quotes in the audit log are the one on file,
\* however many pricing calls fail (calculate_quote, and the store's set behind it).
THEOREM FlowAuditedOnFile == Spec => []AuditedOnFile
<1>1. Spec => []LoneInv
  BY Invariance, InitLone, NextLone, PTL DEF Spec
<1>2. LoneInv => AuditedOnFile
  BY DEF LoneInv, Alone, Lone, OnFile, Shown, AuditedOnFile
<1> QED BY <1>1, <1>2, PTL
=============================================================================
