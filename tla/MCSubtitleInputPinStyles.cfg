CONSTANTS
    Starts = {0, 1}
    Tables = {{0}}
    Headers = {h1, h2}
    Free = free
    Graph = graph
    Decoder = decoder
    None = none
    Kinds = {"ass"}
    MaxSamples = 3
    MaxSegments = 3
SPECIFICATION Spec
CHECK_DEADLOCK FALSE
INVARIANT StylesFirst
