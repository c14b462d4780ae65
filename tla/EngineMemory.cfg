SPECIFICATION Spec
CONSTANTS
    claims = claims
    tier = tier
    low = low
    high = high
    r1 = r1
    r2 = r2
    k1 = k1
    NoValue = NoValue
    NoQuote = NoQuote
    NoKey = NoKey
    NoRow = NoRow
    PropertyFields <- MCPropertyFields
    FactorFields <- MCFactorFields
    CoverageFields <- MCCoverageFields
    Values <- MCValues
    ValidRisks <- MCValidRisks
    EligibleRisks <- MCEligibleRisks
    DefaultCoverage <- MCDefaultCoverage
    Emails <- NoEmails
    ValidEmails <- NoEmails
    Postgres = FALSE
    Crashes = FALSE
    Requests <- Two
    Corrections <- SomeCorrections
    Adjustments <- OneAdjustment
    RuleVersions <- OneVersion
    ClientKeys <- NoKeys
    MaxQuotes = 2
    MaxClock = 3
    MaxVersion = 2
INVARIANTS
    StoredQuoteGate
    StoredEligibilityCurrent
    BooksAgree
SYMMETRY Interchangeable
CHECK_DEADLOCK FALSE
