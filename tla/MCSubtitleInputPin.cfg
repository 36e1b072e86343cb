CONSTANTS
    Starts = {0, 1}
    Tables = {{0}}
    Headers = {h1}
    Free = free
    Graph = graph
    Decoder = decoder
    None = none
    Kinds = {"text", "utf8", "vtt", "ass", "bitmap"}
    MaxSamples = 3
    MaxSegments = 2
SPECIFICATION FairSpec
CHECK_DEADLOCK FALSE
INVARIANTS TypeOK SegmentClean BatchAnnounced StreamInUse
PROPERTY QueueDrains
