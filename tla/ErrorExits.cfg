SPECIFICATION Spec
CONSTANTS
    Caller = parent
    Children = {child1}
    BufSize = 2
    Errnos = {1}
    MaxTexts = 2
    MaxCalls = 2
CHECK_DEADLOCK FALSE
INVARIANTS TypeOK CallersTextOnce OutputBeforeError ErrnoTransparent
