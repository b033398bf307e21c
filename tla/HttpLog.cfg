CONSTANTS
    p1 = p1
    p2 = p2
    r1 = r1
    r2 = r2
    Producers <- OneProducer
    Clearers <- OneClearer
    Capacity = 1
    MaxQueue = 2
    MaxBatch = 2
    Persist = TRUE
    MaxEntries = 3
    MaxClears = 1

SPECIFICATION FairSpec
INVARIANT SizeExact
INVARIANT NewestIsKept
INVARIANT DiskInOrder
PROPERTY QuietAfterDispose
PROPERTY DisposeEnds
PROPERTY IngestDrains
