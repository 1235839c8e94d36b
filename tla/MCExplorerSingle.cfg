SPECIFICATION Spec
CONSTANTS
    e1 = e1
    e2 = e2
    e3 = e3
    e4 = e4
    e5 = e5
    e6 = e6
    e7 = e7
    Encodings <- Enc
    First = e1
    Succ <- TwoWays
    Refused <- RefusedAtE2
    Failing = {}
    PowerLoss = {}
    TestDepth = 3
    StopOnError = FALSE
    Workers = {w1, w2}
    ThreadModes = {FALSE}
    FirstDepths = {0}
    MaxStates = 8
    Null = Null
INVARIANTS
    Exhaustive
CHECK_DEADLOCK FALSE
