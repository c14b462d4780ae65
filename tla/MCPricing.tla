----------------------------- MODULE MCPricing ------------------------------
(***************************************************************************)
(* Pricing on the declarations of QuoteInputSchema.  A claims count of 4   *)
(* stands for all above 3.                                                 *)
(***************************************************************************)
EXTENDS Pricing

CONSTANTS Countries, Occupancies, Areas, Claims

MCTiers       == 1..3
MCDeductibles == 1..4

MCDeclarations == [country    : Countries,
                   property   : 1..5,
                   occupancy  : Occupancies,
                   area       : Areas,
                   year       : 1..4,
                   claims     : Claims,
                   tier       : MCTiers,
                   deductible : MCDeductibles]
=============================================================================
