CONSTANTS
    t1 = t1
    t2 = t2
    Threads <- TwoThreads
    MaxWrites = 1
    AlwaysAllow = TRUE
    Window = 2
    MaxTime = 4
    MaxCalls = 4

SPECIFICATION Spec
INVARIANT AdmittedPerReset
INVARIANT BurstBound
PROPERTY ForwardResetsApart
INVARIANT DropsJustified
