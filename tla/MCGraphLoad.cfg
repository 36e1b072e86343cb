CONSTANT
    MaxOpens = 2
SPECIFICATION Spec
CHECK_DEADLOCK FALSE
INVARIANT NoneActive
