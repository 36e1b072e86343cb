CONSTANTS
    Discs = {d1}
    NoKey = nokey
    Generations = {g1, g2}
    Players = {p1, p2}
    Default = default
    Roots = {default, own}
    Shared = shared
    None = none
    Aliases = {a1}
    DiscNames = {n1, empty}
    Key = key
    Empty = empty
    Values = {1}
    Resets = TRUE
    Done = done
    Absent = absent
    Missing = missing
SPECIFICATION FilesSpec
SYMMETRY Symmetric
CHECK_DEADLOCK FALSE
INVARIANTS TypeOK AlwaysOpens TornIsRetried
PROPERTIES ImplementsStore StaysListed UnreadKept
