CONSTANTS
    flag = flag
    a = a
    b = b
    c = c
    prod = prod
    dev = dev
    p1 = p1
    p2 = p2
    p3 = p3
    p4 = p4
    p5 = p5
    Flag = {flag}
    Env = {prod, dev}
    Value = {a, b, c}
    Push = {p1, p2, p3, p4, p5}
    Wants <- MCWants
    Only <- MCOnly
    DryRun = {p5}
    Before <- MCBefore
    MaxFailures = 1
    MaxToggles = 1
SPECIFICATION Spec
SYMMETRY Alike
INVARIANTS
    TypeOK
    TargetingByValue
    KillSwitchSurvives
PROPERTIES
    OthersKeepServing
CHECK_DEADLOCK FALSE
