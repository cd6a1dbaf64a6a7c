CONSTANTS
    I32Max = 2000000
    NegativeAsUint = 1000000
    Digest <- MCDigest
    ParseAs <- ParseIn
    Evaluate <- AnswerIn
    ValueOf <- ValueIn
    LocalNow <- MCLocal
    UtcNow <- MCUtc
    Phrases <- MCPhrases
    SegmentNames <- MCSegmentNames
    SegmentChoices <- MCSegmentChoices
    FlagNames <- MCFlagNames
    RulePool <- MCRulePool
    MaxRules <- MCMaxRules
    RequirePool <- MCRequirePool
    LinePool <- MCLinePool
    MaxLines <- MCMaxLines
    Links <- MCLinks
    Root <- MCRoot
    Values <- MCValues
    Envs <- MCEnvs
SPECIFICATION Spec
INVARIANTS
    SameTree
    SameAnswer
    ChainsLeft
    LintFindsLoops
    ServerAgrees
    UnreachableNeverDecides
    AcceptedAnswers
    IncludesResolve
PROPERTIES
    RampUpKeepsUsers
CHECK_DEADLOCK FALSE
