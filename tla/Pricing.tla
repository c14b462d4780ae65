------------------------------- MODULE Pricing -------------------------------
(***************************************************************************)
(* packages/rules: the two rule sets, the eligibility of a risk and its    *)
(* price, and the price of a session's quote through calculations,         *)
(* adjustments and deployments of another rule set.  The engine labels a   *)
(* quote with the version of its own rule policy; the pricing port prices  *)
(* it under the version of the process behind it, which with the HTTP      *)
(* adapter is another process, deployed on its own.  (With the local       *)
(* adapter there is one policy: both deployments come together.)           *)
(*                                                                         *)
(* A field of a declaration is a position in the rule sets' table of it.   *)
(* Base rates are in EUR, all other money in cents, multipliers and tax    *)
(* rates in hundredths.                                                    *)
(* The code multiplies in binary floating point: where the exact product   *)
(* lies half way between two cents, its rounding may go either way.        *)
(***************************************************************************)
EXTENDS Integers

CONSTANTS
    Declarations,  \* the inputs customers ask a price for
    Deductibles,   \* positions of the deductibles adjust_quote may choose
    Tiers,         \* and of the coverage tiers
    NoRequest,
    NoQuote

\* What the schema lets through, of the fields a price depends on.
QuoteInputs == [country    : 1..5,
                property   : 1..5,
                occupancy  : 1..3,
                area       : 1..5,
                year       : 1..4,
                claims     : 0..10,
                tier       : 1..3,
                deductible : 1..4]

ASSUME PricingAssumption == /\ Declarations \subseteq QuoteInputs
                            /\ Deductibles \subseteq 1..4
                            /\ Tiers \subseteq 1..3

VARIABLES version,  \* the rule version active in the engine
          service,  \* the rule version active behind the pricing port
          request,  \* the calculateQuote that awaits the port, with its locals
          quote,    \* the session's quote
          priced    \* history: the version the standing quote was priced under

vars == <<version, service, request, quote, priced>>

-----------------------------------------------------------------------------
(* Rule sets *)

RULE_SET_V1 == [base       |-> <<180, 160, 145, 195, 175>>,
                property   |-> <<90, 105, 115, 130, 160>>,
                occupancy  |-> <<100, 85, 95>>,
                area       |-> <<80, 100, 125, 155, 195>>,
                year       |-> <<95, 100, 115, 130>>,
                claims     |-> <<100, 120, 150, 190>>,
                tier       |-> <<80, 100, 140>>,
                deductible |-> <<0, 2500, 5500, 11000>>,
                tax        |-> <<18, 14, 15, 19, 21>>,
                maxClaimsForInstantQuote |-> 3]

RULE_SET_V2 == [base       |-> <<195, 175, 155, 210, 190>>,
                property   |-> <<88, 105, 118, 135, 165>>,
                occupancy  |-> <<100, 85, 95>>,
                area       |-> <<80, 100, 125, 160, 205>>,
                year       |-> <<90, 100, 120, 135>>,
                claims     |-> <<100, 125, 155, 200>>,
                tier       |-> <<80, 100, 145>>,
                deductible |-> <<0, 3000, 6500, 13000>>,
                tax        |-> <<18, 14, 15, 19, 21>>,
                maxClaimsForInstantQuote |-> 3]

Versions == {"v1", "v2"}

getRuleSet(v) == IF v = "v1" THEN RULE_SET_V1 ELSE RULE_SET_V2

Villa       == 5
Over250Sqm  == 5
MinimumNet  == 5000

isEligible(input, rules) ==
    /\ input.claims <= rules.maxClaimsForInstantQuote
    /\ ~ /\ input.property = Villa
         /\ input.area = Over250Sqm
         /\ input.claims >= 2

-----------------------------------------------------------------------------
(* The product of a base rate and six multipliers exceeds TLC's integers:  *)
(* it is carried in three digits of base 10^5, of which the two lowest are *)
(* the fraction of a cent.                                                 *)

Base == 100000

Times(n, m) == LET low  == n[1] * m
                   mid  == n[2] * m + low \div Base
               IN <<low % Base, mid % Base, n[3] * m + mid \div Base>>

Product(rate, m) ==
    Times(Times(Times(Times(Times(Times(<<rate, 0, 0>>,
        m[1]), m[2]), m[3]), m[4]), m[5]), m[6])

\* The cents a number of that form may be rounded to.
Cents(n) == IF n[2] = Base \div 2 /\ n[1] = 0 THEN {n[3], n[3] + 1}
            ELSE {IF n[2] >= Base \div 2 THEN n[3] + 1 ELSE n[3]}

\* The whole numbers n / d may be rounded to, for an even d.
Rounded(n, d) == IF n % d = d \div 2 THEN {n \div d, n \div d + 1}
                 ELSE {(n + d \div 2) \div d}

Multipliers(input, rules) ==
    <<rules.property[input.property],
      rules.occupancy[input.occupancy],
      rules.area[input.area],
      rules.year[input.year],
      rules.claims[IF input.claims < 3 THEN input.claims + 1 ELSE 4],
      rules.tier[input.tier]>>

GrossCents(input, rules) ==
    Cents(Product(rules.base[input.country], Multipliers(input, rules)))

NetPremium_Unlimited(gross, discount) == gross - discount          \* mutant

NetPremium_Ignored(gross, discount) ==                             \* mutant
    IF gross - discount < MinimumNet THEN gross ELSE gross - discount

NetPremium(gross, discount) == IF gross - discount < MinimumNet THEN MinimumNet
                               ELSE gross - discount

Instalment_OfNet(net, tax) == Rounded(net, 12)                     \* mutant

Instalment(net, tax) == Rounded(net + tax, 12)

NetPremiums(input, rules) ==
    {NetPremium(gross, rules.deductible[input.deductible]) : gross \in GrossCents(input, rules)}

Breakdown(net, tax, monthly) == [netAnnualPremium    |-> net,
                                 fictionalTaxAmount  |-> tax,
                                 totalAnnualPremium  |-> net + tax,
                                 totalMonthlyPremium |-> monthly]

\* The breakdowns calculatePricing may return.
calculatePricing(input, rules) ==
    UNION {UNION {{Breakdown(net, tax, monthly) : monthly \in Instalment(net, tax)} :
                     tax \in Rounded(net * rules.tax[input.country], 100)} :
              net \in NetPremiums(input, rules)}

\* The digest of what decided the price: of the breakdown, all but the instalment.
\* SHA-256 over canonical JSON is taken to be free of collisions; a quote is only
\* issued on an eligible risk, whose one reason code says nothing more.
computeCanonicalQuoteFingerprint(ruleVersion, input, pricing) ==
    <<ruleVersion, input, pricing.netAnnualPremium, pricing.fictionalTaxAmount,
      pricing.totalAnnualPremium>>

Quoted(input, ruleVersion, pricing) ==
    [input       |-> input,
     ruleVersion |-> ruleVersion,
     pricing     |-> pricing,
     quoteHash   |-> computeCanonicalQuoteFingerprint(ruleVersion, input, pricing)]

\* What a replay of a quote may compute from its label and its input.
replayHistoricalQuote(q) ==
    {Quoted(q.input, q.ruleVersion, pricing) :
        pricing \in calculatePricing(q.input, getRuleSet(q.ruleVersion))}

-----------------------------------------------------------------------------
(* The pricing port, which uses the version active behind it *)

evaluate(input) == isEligible(input, getRuleSet(service))

calculate(input) == calculatePricing(input, getRuleSet(service))

-----------------------------------------------------------------------------
(* The quote of one session *)

Init == /\ version = "v1"
        /\ service = "v1"
        /\ request = NoRequest
        /\ quote = NoQuote
        /\ priced = "v1"

\* calculateQuote takes the label from its own policy and awaits evaluate.
CalculateQuote(input) ==
    /\ quote = NoQuote
    /\ request = NoRequest
    /\ request' = [input |-> input, ruleVersion |-> version, route |-> "evaluate"]
    /\ UNCHANGED <<version, service, quote, priced>>

\* The verdict: an eligible risk goes on to calculate, any other is referred.
Evaluated ==
    /\ request # NoRequest
    /\ request.route = "evaluate"
    /\ request' = IF evaluate(request.input) THEN [request EXCEPT !.route = "calculate"]
                                             ELSE NoRequest
    /\ UNCHANGED <<version, service, quote, priced>>

\* The price, under the version active by then, goes out under the label.
Calculated ==
    /\ request # NoRequest
    /\ request.route = "calculate"
    /\ \E pricing \in calculate(request.input) :
          quote' = Quoted(request.input, request.ruleVersion, pricing)
    /\ priced' = service
    /\ request' = NoRequest
    /\ UNCHANGED <<version, service>>

\* A call of the port fails or times out, and calculateQuote throws.
Failed == /\ request # NoRequest
          /\ request' = NoRequest
          /\ UNCHANGED <<version, service, quote, priced>>

Adjusted(tier, deductible) ==
    [quote.input EXCEPT !.tier = tier, !.deductible = deductible]

AdjustQuote_KeepsHash(tier, deductible) ==                         \* mutant
    /\ quote # NoQuote
    /\ LET input == Adjusted(tier, deductible)
       IN \E pricing \in calculate(input) :
             quote' = [quote EXCEPT !.input = input, !.pricing = pricing]
    /\ priced' = service
    /\ UNCHANGED <<version, service, request>>

\* The adjusted quote keeps the version of the one it replaces, whichever version
\* the port prices under.
AdjustQuote(tier, deductible) ==
    /\ quote # NoQuote
    /\ LET input == Adjusted(tier, deductible)
       IN \E pricing \in calculate(input) :
             quote' = Quoted(input, quote.ruleVersion, pricing)
    /\ priced' = service
    /\ UNCHANGED <<version, service, request>>

\* A correction takes the quote back.
Withdraw == /\ quote # NoQuote
            /\ quote' = NoQuote
            /\ UNCHANGED <<version, service, request, priced>>

\* The engine comes back with another active version: what it was at is gone, the
\* stored quote is not.
DeployEngine(v) == /\ version' = v
                   /\ request' = NoRequest
                   /\ UNCHANGED <<service, quote, priced>>

\* So does the process behind the port, at any moment.
DeployService(v) == /\ service' = v
                    /\ UNCHANGED <<version, request, quote, priced>>

Next == \/ \E input \in Declarations : CalculateQuote(input)
        \/ Evaluated
        \/ Calculated
        \/ Failed
        \/ \E tier \in Tiers, deductible \in Deductibles : AdjustQuote(tier, deductible)
        \/ Withdraw
        \/ \E v \in Versions : DeployEngine(v) \/ DeployService(v)

Spec == Init /\ [][Next]_vars

-----------------------------------------------------------------------------
(* Properties *)

\* A premium is a whole number of cents, never below the minimum of 50 EUR, and
\* is quoted under a version of the registry.
TypeOK ==
    /\ {version, service, priced} \subseteq Versions
    /\ request # NoRequest =>
          request \in [input : QuoteInputs, ruleVersion : Versions,
                       route : {"evaluate", "calculate"}]
    /\ quote # NoQuote =>
          /\ quote.ruleVersion \in Versions
          /\ quote.pricing.netAnnualPremium \in Nat
          /\ quote.pricing.netAnnualPremium >= MinimumNet
          /\ quote.pricing.totalAnnualPremium > quote.pricing.netAnnualPremium

\* All figures of a breakdown but the instalment.
SameFigures(p, q) == /\ p.netAnnualPremium = q.netAnnualPremium
                     /\ p.fictionalTaxAmount = q.fictionalTaxAmount
                     /\ p.totalAnnualPremium = q.totalAnnualPremium

\* What a replay is good for, through adjustments and deployments.  isHashMatch never
\* vouches for figures the label's rule set does not give; and a replay misses only
\* where the port priced under another version than the label's, never because of an
\* input, a price or a digest that an earlier quote left behind.
ReplayVouches ==
    quote # NoQuote =>
        /\ \A replay \in replayHistoricalQuote(quote) :
              replay.quoteHash = quote.quoteHash =>
                  SameFigures(replay.pricing, quote.pricing)
        /\ priced = quote.ruleVersion => quote \in replayHistoricalQuote(quote)

\* Another choice of deductible, everything else as it is.
NetAt(deductible) ==
    {p.netAnnualPremium :
        p \in calculatePricing([quote.input EXCEPT !.deductible = deductible],
                               getRuleSet(priced))}

\* A larger deductible takes its discount off the premium, to the cent that binary
\* rounding may add or drop, down to the minimum and never back up.
DeductiblePays ==
    quote # NoQuote =>
        \A d \in {d \in Deductibles : d < quote.input.deductible} :
            LET discounts == getRuleSet(priced).deductible
                net       == quote.pricing.netAnnualPremium
            IN \A other \in NetAt(d) :
                  /\ net <= other
                  /\ net > MinimumNet =>
                        other - net - (discounts[quote.input.deductible] - discounts[d])
                            \in -1..1

\* Twelve instalments make up the annual total, to six cents.
InstalmentsAddUp ==
    quote # NoQuote =>
        12 * quote.pricing.totalMonthlyPremium - quote.pricing.totalAnnualPremium \in -6..6

\* No worse risk, and no better cover, is cheaper.
PremiumFollowsRisk ==
    quote # NoQuote =>
        \A f \in {"property", "area", "year", "claims", "tier"} :
            LET worse == [quote.input EXCEPT ![f] = @ + 1]
                rules == getRuleSet(priced)
            IN worse \in Declarations /\ isEligible(worse, rules) =>
                  \A p \in calculatePricing(worse, rules) :
                      p.netAnnualPremium >= quote.pricing.netAnnualPremium
=============================================================================
