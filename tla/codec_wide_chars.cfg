CONSTANTS
    Names <- WideNames
    Passwords <- FitPasswords
    WithinLimits = TRUE

SPECIFICATION Spec
INVARIANT RoundTrip
