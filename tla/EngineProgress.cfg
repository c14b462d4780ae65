SPECIFICATION FairServedSpec
CONSTANTS
    claims = claims
    tier = tier
    low = low
    high = high
    r1 = r1
    r2 = r2
    k1 = k1
    NoValue = NoValue
    NoQuote = NoQuote
    NoKey = NoKey
    NoRow = NoRow
    PropertyFields <- MCPropertyFields
    FactorFields <- MCFactorFields
    CoverageFields <- MCCoverageFields
    Values <- MCValues
    ValidRisks <- MCValidRisks
    EligibleRisks <- MCEligibleRisks
    DefaultCoverage <- MCDefaultCoverage
    Emails <- NoEmails
    ValidEmails <- NoEmails
    Postgres = TRUE
    Crashes = FALSE
    Requests <- Two
    Corrections <- NoCorrections
    Adjustments <- NoAdjustments
    RuleVersions <- BothVersions
    ClientKeys <- NoKeys
    MaxQuotes = 2
    MaxClock = 2
    MaxVersion = 20
PROPERTIES
    ConsentedGetsQuoted
    ServedInTurn
CHECK_DEADLOCK FALSE
