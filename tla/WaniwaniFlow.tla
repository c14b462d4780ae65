---------------------------- MODULE WaniwaniFlow ----------------------------
(***************************************************************************)
(* The primary tool, get_home_insurance_quote: a graph of nodes that keeps *)
(* a flow state of its own in a key-value store, beside the sessions of    *)
(* FunnelEngine.  A turn loads the state of one conversation, merges what  *)
(* the customer answered, and runs node after node until one interrupts    *)
(* to ask for more, or the end; then it writes the state back.  Several    *)
(* turns of one conversation may be in flight, and each may die.           *)
(*                                                                         *)
(* Of the flow library this takes: a turn starts at the node that          *)
(* interrupted, an interrupt ends the turn, the state is written once at   *)
(* the end of a turn, and a node that throws ends it without a write.      *)
(***************************************************************************)
EXTENDS PricingPort

CONSTANTS
    Replies,         \* what the customer may answer in one turn
    PostcodeField,   \* the property field postcode
    Fitting,         \* property forms whose postcode has the country's format
    FittingTrimmed,  \* ... and those whose postcode has it once sanitized
    BandFields,      \* constructionYearBand and floorAreaBand
    FactorDefaults,  \* claimsCount5Years 0, isPrimaryResidence false
    MaxQuotes,       \* bound on the quotes calculated
    MaxOverlaps,     \* bound on the turns begun while another is in flight
    MaxStrays,       \* bound on the replies that are no answer to what was asked
    NoFlow           \* the conversation has no row in the store

Flags == {"yes", "no"}     \* "no" is also a flag that is undefined

Fields == StructuralFields \cup CoverageFields \cup {"parametersConfirmed", "hasConsented"}

ASSUME FlowAssumption ==
    /\ Replies \subseteq [input               : Inputs,
                          parametersConfirmed : Partial(Flags),
                          hasConsented        : Partial(Flags)]
    /\ PostcodeField \in PropertyFields
    /\ Fitting \subseteq FittingTrimmed
    /\ BandFields \subseteq FactorFields
    /\ DOMAIN FactorDefaults \subseteq FactorFields
    /\ \A f \in DOMAIN FactorDefaults : FactorDefaults[f] \in Values
    /\ MaxQuotes \in Nat
    /\ MaxOverlaps \in Nat
    /\ MaxStrays \in Nat
    /\ NoValue \notin Flags
    /\ StructuralFields \cap CoverageFields = {}
    /\ {"parametersConfirmed", "hasConsented"}
          \cap (StructuralFields \cup CoverageFields) = {}

VARIABLES
    flow,      \* waniwani_flow_state: the row of the conversation
    turn,      \* what each turn in flight holds
    audited,   \* the quotes with a quote.calculated event
    issued,    \* the quote identifiers handed out are 1..issued
    past       \* history: the turns that overlapped, whether one died, and the
               \* replies that were no answer to what was asked

vars == <<call, active, flow, turn, audited, issued, past>>

\* A quote carries the version of the verdict, and the price of the version
\* that priced it.  rolled is history: whether another version was deployed between
\* the answers to its two calls.
FlowQuotes == [quoteId : Nat, input : Inputs, ruleVersion : RuleVersions,
               pricing : RuleVersions, rolled : BOOLEAN]

\* settled and strayed are history: whether the input is the one the customer last
\* confirmed, and whether an answer was merged that nothing had asked for.
States == [input               : Inputs,
           parametersConfirmed : Flags,
           hasConsented        : Flags,
           eligibilityStatus   : Statuses \cup {"none"},
           quote               : FlowQuotes \cup {NoQuote},
           settled             : BOOLEAN,
           strayed             : BOOLEAN]

NewState == [input               |-> EmptyInput,
             parametersConfirmed |-> "no",
             hasConsented        |-> "no",
             eligibilityStatus   |-> "none",
             quote               |-> NoQuote,
             settled             |-> FALSE,
             strayed             |-> FALSE]

Asking == {"collect_property", "collect_risk", "select_coverage",
           "confirm_parameters", "request_consent"}

Nodes == Asking \cup {"evaluate_eligibility", "calculate_quote", "referral_end"}

\* Where a turn is: at a node, in the calls and the event that nodes await, or
\* about to write.
Places == Nodes \cup {"idle", "evaluating", "reevaluating", "pricing", "recording", "saving"}

\* step and asked are what the turn is about to write; ruleVersion, rolled and quote
\* belong to the quote under way.
Turns == [at : Places, state : States, step : Asking \cup {"END"}, asked : SUBSET Fields,
          ruleVersion : RuleVersions \cup {NoAnswer}, rolled : BOOLEAN,
          quote : FlowQuotes \cup {NoQuote}]

NoTurn == [at |-> "idle", state |-> NewState, step |-> "END", asked |-> {},
           ruleVersion |-> NoAnswer, rolled |-> FALSE, quote |-> NoQuote]

Rows == [step : Asking \cup {"END"}, state : States, asked : SUBSET Fields]

ASSUME NothingAssumption == NoQuote \notin FlowQuotes /\ NoFlow \notin Rows

InFlight(t) == turn[t].at # "idle"

Init == /\ PortInit
        /\ flow = NoFlow
        /\ turn = [t \in Callers |-> NoTurn]
        /\ audited = {}
        /\ issued = 0
        /\ past = [overlaps |-> 0, died |-> FALSE, strays |-> 0]

-----------------------------------------------------------------------------
(* Turns *)

AnsweredFields(a) ==
    {f \in StructuralFields : a.input.risk[f] # NoValue}
        \cup {f \in CoverageFields : a.input.coverage[f] # NoValue}
        \cup (IF a.input.email = NoValue THEN {} ELSE {"contactEmail"})
        \cup (IF a.parametersConfirmed = NoValue THEN {} ELSE {"parametersConfirmed"})
        \cup (IF a.hasConsented = NoValue THEN {} ELSE {"hasConsented"})

Said(flag, before) == IF flag = NoValue THEN before ELSE flag

\* { ...state, ...stateUpdates }
WithReply(s, a, asked) ==
    LET input == Merged(s.input, a.input)
    IN [s EXCEPT !.input = input,
                 !.parametersConfirmed = Said(a.parametersConfirmed, @),
                 !.hasConsented = Said(a.hasConsented, @),
                 !.settled = a.parametersConfirmed = "yes" \/ (@ /\ input = s.input),
                 !.strayed = @ \/ ~(AnsweredFields(a) \subseteq asked)]

Begin(t, node, s, astray) ==
    /\ turn' = [turn EXCEPT ![t] = [NoTurn EXCEPT !.at = node, !.state = s]]
    /\ past' = [past EXCEPT !.overlaps = IF \E u \in Callers : InFlight(u)
                                         THEN @ + 1 ELSE @,
                            !.strays = IF astray THEN @ + 1 ELSE @]
    /\ past'.overlaps <= MaxOverlaps
    /\ past'.strays <= MaxStrays
    /\ UNCHANGED <<call, active, flow, audited, issued>>

\* action "start", or no sessionId and no token: the conversation is new.
Start(t, a) ==
    /\ flow = NoFlow
    /\ \A u \in Callers : ~InFlight(u)
    /\ Begin(t, "collect_property",
             WithReply(NewState, a, StructuralFields \cup CoverageFields),
             AnsweredFields(a) # {})

\* action "continue", or a sessionId or token: get, then the node that interrupted.
Continue(t, a) ==
    /\ ~InFlight(t)
    /\ flow # NoFlow
    /\ flow.step # "END"
    /\ Begin(t, flow.step, WithReply(flow.state, a, flow.asked),
             AnsweredFields(a) # flow.asked)

Goto(t, node, s) == turn' = [turn EXCEPT ![t].at = node, ![t].state = s]

\* ctx.interrupt(questions)
Interrupt(t, s, asked) ==
    turn' = [turn EXCEPT ![t].step = turn[t].at, ![t].at = "saving",
                         ![t].state = s, ![t].asked = asked]

Ended(t, s) == turn' = [turn EXCEPT ![t].at = "saving", ![t].state = s,
                                    ![t].step = "END", ![t].asked = {}]

Fail(t) == turn' = [turn EXCEPT ![t] = NoTurn]

AtNode(t, node) == /\ turn[t].at = node
                   /\ UNCHANGED <<active, flow, audited, issued, past>>

-----------------------------------------------------------------------------
(* Nodes *)

Missing(form, fields) == {f \in fields : form[f] = NoValue}

PropertyForm(s) == [f \in PropertyFields |-> s.input.risk[f]]

\* A node that asks for what is missing in a form, and goes on if nothing is.
Collect(t, missing, next) ==
    IF missing # {} THEN Interrupt(t, turn[t].state, missing)
                    ELSE Goto(t, next, turn[t].state)

CollectProperty(t) ==
    /\ AtNode(t, "collect_property")
    /\ LET missing == Missing(turn[t].state.input.risk, PropertyFields)
           misfit  == IF PropertyForm(turn[t].state) \in FittingTrimmed
                      THEN {} ELSE {PostcodeField}
       IN Collect(t, IF missing # {} THEN missing ELSE misfit, "collect_risk")
    /\ UNCHANGED call

\* The postcode as it is, not trimmed, is tested again; one that does not fit is
\* deleted and asked for.
BadPostcode(s) == /\ s.input.risk[PostcodeField] # NoValue
                  /\ PropertyForm(s) \notin Fitting

CollectRisk_NoRecheck(t) ==                              \* mutant
    /\ AtNode(t, "collect_risk")
    /\ Collect(t, Missing(turn[t].state.input.risk, FactorFields), "evaluate_eligibility")
    /\ UNCHANGED call

CollectRisk(t) ==
    /\ AtNode(t, "collect_risk")
    /\ LET s == turn[t].state
       IN IF BadPostcode(s)
          THEN Interrupt(t, [s EXCEPT !.input.risk[PostcodeField] = NoValue], {PostcodeField})
          ELSE Collect(t, Missing(s.input.risk, FactorFields), "evaluate_eligibility")
    /\ UNCHANGED call

\* buildValidatedQuoteInput: Built is what it parses, Valid that it does not throw.
Built(input) ==
    [ValidatedInput(input) EXCEPT !.risk =
        [f \in StructuralFields |-> IF @[f] = NoValue /\ f \in DOMAIN FactorDefaults
                                    THEN FactorDefaults[f] ELSE @[f]]]

Valid(input) == InputsValid(Built(input))

\* A node that builds an input and awaits the port.
Ask(t, route, place) ==
    IF Valid(turn[t].state.input)
    THEN /\ Request(t, route, Built(turn[t].state.input))
         /\ Goto(t, place, turn[t].state)
    ELSE Fail(t) /\ UNCHANGED call

\* The conditional edge.
Branch(t, s) ==
    Goto(t, IF s.eligibilityStatus = "referral_required" THEN "referral_end"
            ELSE "select_coverage", s)

EvaluateEligibility(t) ==
    /\ AtNode(t, "evaluate_eligibility")
    /\ IF Missing(turn[t].state.input.risk, BandFields) # {}
       THEN Branch(t, turn[t].state) /\ UNCHANGED call
       ELSE Ask(t, "evaluate", "evaluating")

Evaluated(t) ==
    /\ AtNode(t, "evaluating")
    /\ Answered(t, "evaluate")
    /\ Branch(t, [turn[t].state EXCEPT !.eligibilityStatus = Verdict(t).status])
    /\ HangUp(t)

SelectCoverage(t) ==
    /\ AtNode(t, "select_coverage")
    /\ Collect(t, Missing(turn[t].state.input.coverage, CoverageFields), "confirm_parameters")
    /\ UNCHANGED call

\* A node that insists on a flag: one said to be false is asked for again.
Insist(t, flag, value, next) ==
    Collect(t, IF value = "yes" THEN {} ELSE {flag}, next)

ConfirmDetails(t) ==
    /\ AtNode(t, "confirm_parameters")
    /\ Insist(t, "parametersConfirmed", turn[t].state.parametersConfirmed, "request_consent")
    /\ UNCHANGED call

RequestConsent_Skipped(t) ==                             \* mutant
    /\ AtNode(t, "request_consent")
    /\ Goto(t, "calculate_quote", turn[t].state)
    /\ UNCHANGED call

RequestConsent(t) ==
    /\ AtNode(t, "request_consent")
    /\ Insist(t, "hasConsented", turn[t].state.hasConsented, "calculate_quote")
    /\ UNCHANGED call

\* The quote's own evaluation, for its rule version ...
CalculateQuote(t) ==
    /\ AtNode(t, "calculate_quote")
    /\ Ask(t, "evaluate", "reevaluating")

\* ... whose verdict nothing looks at ...
Reevaluated(t) ==
    /\ AtNode(t, "reevaluating")
    /\ Answered(t, "evaluate")
    /\ turn' = [turn EXCEPT ![t].at = "pricing", ![t].ruleVersion = Verdict(t).ruleVersion]
    /\ Request(t, "calculate", call[t].input)

Priced_ReusesId(t) ==                                    \* mutant
    /\ turn[t].at = "pricing"
    /\ Answered(t, "calculate")
    /\ issued < MaxQuotes
    /\ turn' = [turn EXCEPT ![t].at = "recording",
                            ![t].quote = [quoteId     |-> issued + 1,
                                          input       |-> call[t].input,
                                          ruleVersion |-> turn[t].ruleVersion,
                                          pricing     |-> Price(t),
                                          rolled      |-> turn[t].rolled]]
    /\ HangUp(t)
    /\ UNCHANGED <<active, flow, audited, issued, past>>

\* ... then the price, the quote and its event, which is awaited.
Priced(t) ==
    /\ turn[t].at = "pricing"
    /\ Answered(t, "calculate")
    /\ issued < MaxQuotes
    /\ issued' = issued + 1
    /\ turn' = [turn EXCEPT ![t].at = "recording",
                            ![t].quote = [quoteId     |-> issued + 1,
                                          input       |-> call[t].input,
                                          ruleVersion |-> turn[t].ruleVersion,
                                          pricing     |-> Price(t),
                                          rolled      |-> turn[t].rolled]]
    /\ HangUp(t)
    /\ UNCHANGED <<active, flow, audited, past>>

\* No event, as if a failure to write it were swallowed.
RecordEvent_Skipped(t) ==                                \* mutant
    /\ turn[t].at = "recording"
    /\ Ended(t, [turn[t].state EXCEPT !.quote = turn[t].quote])
    /\ UNCHANGED <<call, active, flow, audited, issued, past>>

\* The event is awaited: one that is not written is a Crash.
RecordEvent(t) ==
    /\ turn[t].at = "recording"
    /\ audited' = audited \cup {turn[t].quote.quoteId}
    /\ Ended(t, [turn[t].state EXCEPT !.quote = turn[t].quote])
    /\ UNCHANGED <<call, active, flow, issued, past>>

ReferralEnd(t) ==
    /\ AtNode(t, "referral_end")
    /\ Ended(t, turn[t].state)
    /\ UNCHANGED call

\* A conversation that is over is not written back, in the mutant.
Save_Unfinished(t) ==                                    \* mutant
    /\ turn[t].at = "saving"
    /\ flow' = IF turn[t].step = "END" THEN flow
               ELSE [step |-> turn[t].step, state |-> turn[t].state, asked |-> turn[t].asked]
    /\ turn' = [turn EXCEPT ![t] = NoTurn]
    /\ UNCHANGED <<call, active, audited, issued, past>>

\* set: the row is replaced whatever it holds by now.
Save(t) ==
    /\ turn[t].at = "saving"
    /\ flow' = [step |-> turn[t].step, state |-> turn[t].state, asked |-> turn[t].asked]
    /\ turn' = [turn EXCEPT ![t] = NoTurn]
    /\ UNCHANGED <<call, active, audited, issued, past>>

-----------------------------------------------------------------------------
(* Failures *)

\* The call throws, the node with it, and the turn answers isError.
PortFails(t) ==
    /\ MayFail(t)
    /\ HangUp(t)
    /\ Fail(t)
    /\ UNCHANGED <<active, flow, audited, issued, past>>

\* The server process goes down in the middle of a turn, or a call to one of the
\* databases throws.
Crash(t) ==
    /\ InFlight(t)
    /\ HangUp(t)
    /\ Fail(t)
    /\ past' = [past EXCEPT !.died = TRUE]
    /\ UNCHANGED <<active, flow, audited, issued>>

ServeCall(t) == Serve(t) /\ UNCHANGED <<flow, turn, audited, issued, past>>

\* A quote has the answer to its first call and none to its second.
BetweenCalls(t) == \/ turn[t].at = "reevaluating" /\ call[t].answer # NoAnswer
                   \/ turn[t].at = "pricing" /\ call[t].answer = NoAnswer

\* The turns do not notice.
DeployRules(v) ==
    /\ v # active
    /\ Deploy(v)
    /\ turn' = [t \in Callers |-> [turn[t] EXCEPT !.rolled = @ \/ BetweenCalls(t)]]
    /\ UNCHANGED <<flow, audited, issued, past>>

Run(t) == \/ CollectProperty(t) \/ CollectRisk(t) \/ EvaluateEligibility(t)
          \/ Evaluated(t) \/ SelectCoverage(t) \/ ConfirmDetails(t)
          \/ RequestConsent(t) \/ CalculateQuote(t) \/ Reevaluated(t)
          \/ Priced(t) \/ RecordEvent(t) \/ ReferralEnd(t) \/ Save(t)

Next == \/ \E t \in Callers, a \in Replies : Start(t, a) \/ Continue(t, a)
        \/ \E t \in Callers : Run(t) \/ ServeCall(t) \/ PortFails(t) \/ Crash(t)
        \/ \E v \in RuleVersions : DeployRules(v)

Spec == Init /\ [][Next]_vars

-----------------------------------------------------------------------------
(* Fairness: a handler runs on until it ends, a port that is asked time and *)
(* again answers in time in the end, and so does the customer, with what    *)
(* was asked and with nothing the schema refuses.                           *)

Proper(a) ==
    /\ AnsweredFields(a) = flow.asked
    /\ LET s == WithReply(flow.state, a, flow.asked)
       IN
       /\ PostcodeField \in flow.asked => PropertyForm(s) \in Fitting
       /\ Missing(s.input.risk, StructuralFields) = {} => Valid(s.input)
       /\ "no" \notin {a.parametersConfirmed, a.hasConsented}

ProperAnswer ==
    /\ \A t \in Callers : ~InFlight(t)
    /\ flow # NoFlow
    /\ \E a \in Replies : Proper(a) /\ \E t \in Callers : Continue(t, a)

Fairness == /\ WF_vars(\E t \in Callers : Run(t))
            /\ \A route \in Routes :
                  SF_vars(\E t \in Callers : call[t].route = route /\ ServeCall(t))
            /\ SF_vars(\E t \in Callers : Evaluated(t))
            /\ SF_vars(\E t \in Callers : Reevaluated(t))
            /\ SF_vars(\E t \in Callers : Priced(t))
            /\ SF_vars(ProperAnswer)

FairSpec == Spec /\ Fairness

-----------------------------------------------------------------------------
(* Properties *)

TypeOK ==
    /\ PortTypeOK
    /\ flow \in Rows \cup {NoFlow}
    /\ turn \in [Callers -> Turns]
    /\ issued \in Nat
    /\ audited \subseteq 1..issued
    /\ past \in [overlaps : 0..MaxOverlaps, died : BOOLEAN, strays : 0..MaxStrays]

\* The states of the conversation: the one on file, and those turns work on.
HeldStates == {turn[t].state : t \in {u \in Callers : InFlight(u)}}
                \cup (IF flow = NoFlow THEN {} ELSE {flow.state})

\* calculate_quote runs behind the gates, whatever turns overlap, die or lose their
\* pricing call: a quote prices the input as it is kept, for a customer who said
\* yes to consent, and after a verdict that was not a referral.  If no answer
\* was out of turn, the customer also confirmed exactly what is priced, and the
\* rules accept it.
FlowQuoteGate ==
    \A s \in HeldStates : s.quote # NoQuote =>
        /\ s.hasConsented = "yes"
        /\ s.eligibilityStatus # "referral_required"
        /\ s.quote.input = Built(s.input)
        /\ ~s.strayed => /\ s.quote.input.risk \in EligibleRisks
                         /\ s.parametersConfirmed = "yes" /\ s.settled

\* The event of a quote is written before the state that shows it, so that no
\* crash, failed call or lost update leaves a customer with a quote the audit log
\* does not know (calculate_quote awaits recordEvent).
FlowQuotesAudited ==
    \A s \in HeldStates : s.quote # NoQuote => s.quote.quoteId \in audited

\* The two calls of a quote are two requests.  The version on the quote and in its
\* fingerprint is the one that priced it, unless the service came back with other
\* rules just between the answers to the two: no deployment at another moment, no
\* failed call, no version an earlier turn was given makes a wrong label.
LabelledAsPriced ==
    \A s \in HeldStates :
        s.quote # NoQuote /\ ~s.quote.rolled => s.quote.ruleVersion = s.quote.pricing

\* Left alone, the log and the store agree: with no overlap and no crash so far
\* and no turn in flight, the quotes audited are the one on file, however many
\* pricing calls failed on the way.
AuditedOnFile ==
    (past.overlaps = 0 /\ ~past.died /\ \A t \in Callers : ~InFlight(t))
        => audited = (IF flow = NoFlow \/ flow.state.quote = NoQuote
                      THEN {} ELSE {flow.state.quote.quoteId})

\* A customer who answers what is asked comes to the end of the flow, a quote or
\* a referral, although pricing calls fail and some answers are refused.
ConversationEnds ==
    flow # NoFlow ~> \/ flow # NoFlow /\ flow.step = "END"
                     \/ past.overlaps > 0 \/ past.died \/ past.strays > 0

\* WANIWANI_SDK_NOTES.md: a correction during confirmation invalidates and
\* re-evaluates the verdict, so that a quote is on a risk the rules accept.
QuoteOnEligibleRisk ==
    \A s \in HeldStates : s.quote # NoQuote => s.quote.input.risk \in EligibleRisks
=============================================================================
