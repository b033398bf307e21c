CONSTANTS
    t1 = t1
    c1 = c1
    c2 = c2
    l1 = l1
    http = http
    app = app
    None = None
    Threads <- OneThread
    Conns <- TwoConns
    Kinds <- TwoKinds
    KindOf <- AllAlike
    DefaultKind = http
    QueueCapacity = 2
    Loads <- OneLoad
    MaxRows = 3
    TrimTo = 2
    PageSize = 2
    MaxEntries = 1
    MaxClicks = 0
    MaxLosses = 0

SPECIFICATION FairSpec
PROPERTY LiveEntryShown
