CONSTANTS
    p1 = p1
    p2 = p2
    None = None
    Persons <- TwoPersons
    First = p1
    MaxLoads = 3

SPECIFICATION FairSpec
INVARIANT BodyIsCurrent
INVARIANT PanesAgree
INVARIANT SpinnerIsOwned
INVARIANT UrlNamesNoOther
PROPERTY SpinnerEnds
