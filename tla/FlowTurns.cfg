SPECIFICATION FairSpec
CONSTANTS
    postcode = postcode
    claims = claims
    tier = tier
    low = low
    high = high
    odd = odd
    NoValue = NoValue
    NoQuote = NoQuote
    NoAnswer = NoAnswer
    NoFlow = NoFlow
    PropertyFields <- MCPropertyFields
    FactorFields <- MCFactorFields
    CoverageFields <- MCCoverageFields
    Values <- MCValues
    ValidRisks <- MCValidRisks
    EligibleRisks <- MCEligibleRisks
    DefaultCoverage <- MCDefaultCoverage
    Emails = {}
    ValidEmails = {}
    Callers = {"t1", "t2"}
    Remote = TRUE
    RuleVersions = {"v1", "v2"}
    Replies <- MCReplies
    PostcodeField = postcode
    Fitting <- MCFitting
    FittingTrimmed <- MCFittingTrimmed
    BandFields = {}
    FactorDefaults <- MCFactorDefaults
    MaxQuotes = 2
    MaxStrays = 1
    MaxOverlaps = 1
CHECK_DEADLOCK FALSE
INVARIANTS
    TypeOK
    FlowQuoteGate
    FlowQuotesAudited
    LabelledAsPriced
    AuditedOnFile
PROPERTIES
    ConversationEnds
