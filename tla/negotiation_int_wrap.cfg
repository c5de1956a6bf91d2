CONSTANTS
    MessageTypes <- MCMessageTypes
    IntValues <- MCWideInts
    Strings <- MCStrings
    Floats <- MCFloats
    MaxRecords = 2

SPECIFICATION Spec
INVARIANT StreamRoundTrip
