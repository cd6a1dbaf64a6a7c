CONSTANTS
    Transpile <- transpile
    Normal <- Dnf
    Library <- ff
    Served <- LdServes
    Digest <- MCDigest
    LocalNow <- MCLocal
    U32Max = 2000000
    Leaf <- MCLeaf
    Return <- MCReturn
    Segments <- MCSegments
    Required <- MCRequired
    Envs <- MCEnvs
    Blocks <- MCBlocks
    Contexts <- MCContexts
    MaxTerms = 2
    MaxRules = 2
SPECIFICATION Spec
INVARIANTS
    TranspiledAnswers
    PayloadAccepted
CHECK_DEADLOCK FALSE
