SPECIFICATION Spec
CONSTANTS
    claims = claims
    tier = tier
    low = low
    high = high
    r1 = r1
    r2 = r2
    k1 = k1
    NoValue = NoValue
    NoQuote = NoQuote
    NoKey = NoKey
    NoRow = NoRow
    PropertyFields <- MCPropertyFields
    FactorFields <- MCFactorFields
    CoverageFields <- MCCoverageFields
    Values <- MCValues
    ValidRisks <- MCValidRisks
    EligibleRisks <- MCEligibleRisks
    DefaultCoverage <- MCDefaultCoverage
    Emails <- NoEmails
    ValidEmails <- NoEmails
    Postgres = TRUE
    Crashes = FALSE
    Requests <- One
    Corrections <- SomeCorrections
    Adjustments <- NoAdjustments
    RuleVersions <- OneVersion
    ClientKeys <- NoKeys
    MaxQuotes = 1
    MaxClock = 2
    MaxVersion = 20
PROPERTIES
    ConflictIsReal
CHECK_DEADLOCK FALSE
