SPECIFICATION ParserSpec
CONSTANTS
    Methods <- const_Methods
    MaxCases = 2
    MaxAssertions = 2
    MaxTokens = 15
INVARIANTS
    PlanIsMeaning
    ErrorAtFirstBadToken
    NoStringLost
    ParserInv
PROPERTY
    ParserReturns
