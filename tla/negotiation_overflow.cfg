CONSTANTS
    MessageTypes <- MCMessageTypes
    IntValues <- MCIntValues
    Strings <- MCLongStrings
    Floats <- MCFloats
    MaxRecords = 2

SPECIFICATION Spec
INVARIANT StreamRoundTrip
