CONSTANTS
    Names <- FitNames
    Passwords <- FitPasswords
    WithinLimits = TRUE

SPECIFICATION Spec
INVARIANTS FrameConsistent RoundTrip CopiesAgree
\* Every state can call an encoder again; no state is terminal.
