CONSTANTS
    Readers = {queue, renderer}
    QueueThread = queue
    UI = ui
    Decoder = decoder
    Providers = {p1, p2}
    NoProvider = null
    Free = free
    MaxWrappers = 3
SPECIFICATION Spec
CHECK_DEADLOCK FALSE
INVARIANT QueueIdleAfterHandshake
