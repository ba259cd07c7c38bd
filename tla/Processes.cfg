CONSTANTS
    p1 = p1
    p2 = p2
    None = None
    Fleets <- MCFleets
    Topics <- MCTopics
    Partitions = 3
    FoundPartitions = {0, 1, 3}
    MetadataLags = {1, 2}
    MetadataTimeout = 1
    GoroutineTimeout = 1
    ShutdownTimeout = 2
    ExportTimeout = 1
    WorkTimes = {0, 1, 9}
    CloserTimes = {0, 9}
    Forever = 9
    MaxBatch = 2
    MaxTrouble = 2
SPECIFICATION Spec
INVARIANTS StartsTogether NothingClosedUnder HonestReport LeavesGroup ExitWithin
