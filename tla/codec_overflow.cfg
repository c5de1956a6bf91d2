CONSTANTS
    Names <- LongNames
    Passwords <- FitPasswords
    WithinLimits = FALSE

SPECIFICATION Spec
INVARIANT FrameConsistent
