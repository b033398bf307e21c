CONSTANTS
    c1 = c1
    c2 = c2
    c3 = c3
    Callers <- TwoCallers
    Cancellable <- OneCaller
    Lifetimes <- OneLifetime
    Skew = 1
    MaxTime = 1
    MaxLogins = 3

SPECIFICATION FairSpec
INVARIANT SingleFlight
INVARIANT NoOlderToken
INVARIANT TaskHasOwner
PROPERTY ServiceSpec
PROPERTY CallsEnd
