CONSTANTS
    t1 = t1
    c1 = c1
    c2 = c2
    l1 = l1
    http = http
    app = app
    None = None
    Threads <- OneThread
    Conns <- TwoConns
    Kinds <- TwoKinds
    KindOf <- AllAlike
    DefaultKind = http
    QueueCapacity = 2
    Loads <- OneLoad
    MaxRows = 1
    TrimTo = 1
    PageSize = 1
    MaxEntries = 2
    MaxClicks = 0
    MaxLosses = 0

SPECIFICATION Spec
PROPERTY PageIsRecent
