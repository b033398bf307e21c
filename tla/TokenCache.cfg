CONSTANTS
    a1 = a1
    a2 = a2
    b1 = b1
    sa = sa
    sb = sb
    ScopeOf <- ScopeOfCall
    Calls <- ThreeCalls
    Scopes <- TwoScopes
    Cancellable <- OnlyA1
    Lifetimes <- ShortOrLong
    Skew = 1
    DefaultTtl = 2
    MaxLag = 1
    MaxTime = 5
    MaxLogins = 2

SPECIFICATION FairSpec
INVARIANT OneLoginPerScope
INVARIANT NewestOfScope
INVARIANT CachedTokenTimely
PROPERTY ScopesAreServices
PROPERTY CallsEnd
