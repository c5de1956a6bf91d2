CONSTANTS
    MessageTypes <- MCMessageTypes
    IntValues <- MCIntValues
    Strings <- MCStrings
    Floats <- MCFloats
    MaxRecords = 2

SPECIFICATION Spec
INVARIANTS StreamRoundTrip
