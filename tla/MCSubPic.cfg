CONSTANTS
    Readers = {queue, renderer}
    QueueThread = queue
    UI = ui
    Decoder = decoder
    Providers = {p1, p2}
    NoProvider = null
    Free = free
    MaxWrappers = 3
    Stream = p1
    Frame = 1
    SubFrame = 2
    Ahead = 4
    Unknown = 100
    Times = {0, 2, 3, 6}
    Texts = {"a", "m", "n", "o"}
    NoText = none
    QueueSize = 2
    Script <- Apart
    MaxSeeks = 3
    ClosingScript <- Open
SPECIFICATION SubPicSpec
CHECK_DEADLOCK FALSE
INVARIANTS TypeOK CountIsHolders SectionBalanced DecoderExcludesReaders RenderedAhead
PROPERTIES EventuallyUpToDate DestroyReturns
