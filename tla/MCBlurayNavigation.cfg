CONSTANTS
    Lists = {1, 2}
    End = 2
    Silent = {1, 2}
    Still <- MCStill
    MaxSeeks = 1
    MaxKeys = 1
SPECIFICATION Spec
CHECK_DEADLOCK FALSE
PROPERTY LeftOnlyAtEnd
