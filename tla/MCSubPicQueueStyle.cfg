CONSTANTS
    QueueSize = 2
    Frame = 1
    SubFrame = 2
    Ahead = 4
    Unknown = 100
    Times = {0}
    Providers = {p1}
    NoProvider = null
    FirstProvider = p1
    Texts <- MCTexts
    NoText = none
    Scripts <- MCScripts
    FirstScript <- AllPlain
    Edits <- OnlyStyled
    Blocking = TRUE
    Failures = {}
    MaxSeeks = 0
    MaxSwaps = 0
    MaxEdits = 1
SPECIFICATION Spec
INVARIANT RestyledIsShown
