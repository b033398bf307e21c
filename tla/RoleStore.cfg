CONSTANTS
    t1 = t1
    t2 = t2
    u1 = u1
    u2 = u2
    r1 = r1
    None = None
    Threads <- TwoThreads
    Users <- TwoUsers
    Roles <- OneRole
    Seeds <- OneSeed
    MaxOps = 2
    MaxCrashes = 1
    MaxFailures = 1

SPECIFICATION FairSpec
INVARIANT QuietIsSaved
PROPERTY ChangesAreSaved
