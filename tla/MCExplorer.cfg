SPECIFICATION FairSpec
CONSTANTS
    e1 = e1
    e2 = e2
    e3 = e3
    e4 = e4
    e5 = e5
    e6 = e6
    e7 = e7
    Encodings <- Enc
    First = e1
    Succ <- TwoWays
    Refused <- RefusedAtE2
    Failing = {e3}
    PowerLoss = {e4}
    TestDepth = 3
    StopOnError = FALSE
    Workers = {w1, w2}
    ThreadModes = {TRUE, FALSE}
    FirstDepths = {0}
    MaxStates = 8
    Null = Null
INVARIANTS
    TypeOK
    RefCountsExact
    NoStateLeaks
    ExhaustiveThreaded
    
PROPERTIES
    AncestorsStay
    Terminates
CHECK_DEADLOCK FALSE
