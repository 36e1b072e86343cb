CONSTANTS
    QueueSize = 2
    Frame = 1
    SubFrame = 2
    Ahead = 4
    Unknown = 100
    Times = {0, 3}
    Providers = {p1, p2}
    NoProvider = null
    FirstProvider = p2
    Texts <- MCTexts
    NoText = none
    Scripts <- MCScripts
    FirstScript <- MixedAndPlain
    Edits <- AddedOrFlushed
    Blocking = TRUE
    Failures <- Failing
    MaxSeeks = 2
    MaxSwaps = 1
    MaxEdits = 1
SPECIFICATION Spec
INVARIANTS TypeOK QueueSorted InvalidatedIsGone LookupIsCurrent
