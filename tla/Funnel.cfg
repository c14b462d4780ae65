SPECIFICATION Spec
CONSTANTS
    postcode = postcode
    claims = claims
    tier = tier
    low = low
    high = high
    good = good
    wrong = wrong
    NoValue = NoValue
    NoQuote = NoQuote
    PropertyFields <- MCPropertyFields
    FactorFields <- MCFactorFields
    CoverageFields <- MCCoverageFields
    Values <- MCValues
    ValidRisks <- MCValidRisks
    EligibleRisks <- MCEligibleRisks
    DefaultCoverage <- MCDefaultCoverage
    Emails <- MCEmails
    ValidEmails <- MCValidEmails
    Corrections <- MCCorrections
    MaxQuotes = 2
    MaxClock = 4
INVARIANTS
    TypeOK
    QuoteGate
    EligibilityCurrent
    QuotedAsConfirmed
    ConsentFollowsConfirmation
    QuotesAccounted
PROPERTIES
    OneQuotePerConsent
    KeepsContract
