CONSTANTS
    NPins = 1
    Packets = 2
    QueueMax = 0
    QueueMin = 0
    MaxSeeks = 1
    MaxStops = 1
    Errors = TRUE
    LastPlane = 2
    MaxPictures = 2
    MaxSwitches = 1
    Media = {disc, otherdisc}
    Gone = gone
    NoData = null
    MaxStarts = 2
    MaxChanges = 2
    Lists = {1, 2}
    Still <- OneStill
    End = 2
    Silent = {1, 2}
    Seeks = 2
    KeysEnd = 1
    KeysSilent = {1}
    KeysSeeks = 1
    MaxKeys = 1
    Player = player
    Marker = done
    Absent = absent
    Missing = missing
    MaxOpens = 3
SPECIFICATION PlaybackSpec
CHECK_DEADLOCK FALSE
INVARIANTS PartsTyped InOrder FewStale OneAtTheGraph GraphIsCurrent PostIsCurrent
    WholePictures OnlyOwnLoss SameList MoveIsKept
PROPERTIES LeftOnlyAtEnd
    Returns StreamEnds OpeningsEnd LastPictureShown LossNoticed GoesOn
    NavigatorFollows
