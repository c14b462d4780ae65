---------------------------- MODULE PricingPort -----------------------------
(***************************************************************************)
(* The pricing port: HttpPricingServiceAdapter on one side, the internal   *)
(* routes of the pricing service on the other, or, with Remote = FALSE,    *)
(* the adapter that prices in the process.  A call is sent, the service    *)
(* answers it under the rule version it has at that moment, and the caller *)
(* takes the answer unless its timer came first or the call failed.        *)
(*                                                                         *)
(* A price is the rule version it was computed under: with the input, that *)
(* decides it.  An answer that comes behind the time-out is dropped with   *)
(* its connection.                                                         *)
(***************************************************************************)
EXTENDS FunnelDomain

CONSTANTS
    Callers,       \* handlers that may call the port
    Remote,        \* PRICING_MODE: TRUE for http, FALSE for local
    RuleVersions,  \* the versions that may be active behind the port
    NoAnswer       \* the call is not answered yet

ASSUME PortAssumption ==
    /\ Remote \in BOOLEAN
    /\ NoAnswer \notin [status : {"eligible", "referral_required"}, ruleVersion : RuleVersions]

VARIABLES
    call,    \* the call each caller awaits
    active   \* the rule version active behind the port

Routes == {"evaluate", "calculate"}

\* referral_required stands for declined too: both are not eligible.
Statuses == {"eligible", "referral_required"}

Answers == [status : Statuses, ruleVersion : RuleVersions]

NoCall == [route |-> "none", input |-> EmptyInput, answer |-> NoAnswer]

Calls == [route : Routes, input : Inputs, answer : Answers \cup {NoAnswer}]
            \cup {NoCall}

PortTypeOK == /\ call \in [Callers -> Calls]
              /\ active \in RuleVersions

PortInit == /\ call = [c \in Callers |-> NoCall]
            /\ active \in RuleVersions

\* The adapter posts the input and starts its timer.
Request(c, route, input) ==
    call' = [call EXCEPT ![c] = [route |-> route, input |-> input, answer |-> NoAnswer]]

\* The pricing call that forgets its rule set takes the default one.
Serve_DefaultRules(c) ==                                 \* mutant
    /\ call[c].route \in Routes
    /\ call[c].answer = NoAnswer
    /\ InputsValid(call[c].input)
    /\ call' = [call EXCEPT ![c].answer =
                  [status      |-> IF call[c].input.risk \in EligibleRisks
                                  THEN "eligible" ELSE "referral_required",
                   ruleVersion |-> IF call[c].route = "evaluate" THEN active
                                   ELSE CHOOSE v \in RuleVersions : TRUE]]
    /\ UNCHANGED active

\* The service parses the input again; what it makes of one that does not parse
\* is no answer but a failure of the call.
Serve(c) ==
    /\ call[c].route \in Routes
    /\ call[c].answer = NoAnswer
    /\ InputsValid(call[c].input)
    /\ call' = [call EXCEPT ![c].answer =
                  [status      |-> IF call[c].input.risk \in EligibleRisks
                                  THEN "eligible" ELSE "referral_required",
                   ruleVersion |-> active]]
    /\ UNCHANGED active

Answered(c, route) == call[c].route = route /\ call[c].answer # NoAnswer

\* What evaluate returns.
Verdict(c) == call[c].answer

\* What calculate returns: it drops the version that comes with the price.
Price(c) == call[c].answer.ruleVersion

\* The caller is done with its call: it has the answer, or none.
HangUp(c) == call' = [call EXCEPT ![c] = NoCall]

\* The timer runs until the body is read, so a call may fail although the service
\* has answered it; and so may the connection, or the service answer an error.
MayFail(c) == Remote /\ call[c].route \in Routes

\* The service comes back with another active version.
Deploy(v) == /\ Remote
             /\ active' = v
             /\ UNCHANGED call
=============================================================================
