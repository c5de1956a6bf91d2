CONSTANTS
    Username <- MCUsername
    Password <- MCPassword
    PeerFrames <- MCMismatchFrames
    MaxFrames = 4

SPECIFICATION Spec
INVARIANT MalformedFrameEndsSession
\* A closed socket is never reopened: app.js calls wsocket.init once.
CHECK_DEADLOCK FALSE
