SPECIFICATION Spec
CONSTANTS
    claims = claims
    tier = tier
    low = low
    high = high
    r1 = r1
    r2 = r2
    k1 = k1
    NoValue = NoValue
    NoQuote = NoQuote
    NoKey = NoKey
    NoRow = NoRow
    PropertyFields <- MCPropertyFields
    FactorFields <- MCFactorFields
    CoverageFields <- MCCoverageFields
    Values <- MCValues
    ValidRisks <- MCValidRisks
    EligibleRisks <- MCEligibleRisks
    DefaultCoverage <- MCDefaultCoverage
    Emails <- NoEmails
    ValidEmails <- NoEmails
    Postgres = TRUE
    Crashes = TRUE
    Requests <- Two
    Corrections <- NoCorrections
    Adjustments <- NoAdjustments
    RuleVersions <- BothVersions
    ClientKeys <- OneKey
    MaxQuotes = 2
    MaxClock = 3
    MaxVersion = 20
INVARIANTS
    TypeOK
    StoredQuoteGate
    SameRequestSameQuote
    BooksNested
PROPERTIES
    NoLostUpdate
    ConflictIsReal
    CalculateRepeatAnswered
    StoreKeepsContract
CHECK_DEADLOCK FALSE
