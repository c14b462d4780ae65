SPECIFICATION Spec
CONSTANTS
    NoQuote = NoQuote
    NoRequest = NoRequest
    Countries = {3}
    Occupancies = {2}
    Areas = {1, 2, 4, 5}
    Claims = {0, 1, 2, 3, 4}
    Declarations <- MCDeclarations
    Tiers <- MCTiers
    Deductibles <- MCDeductibles
INVARIANTS
    TypeOK
    ReplayVouches
    DeductiblePays
    InstalmentsAddUp
    PremiumFollowsRisk
