CONSTANTS
    Username <- MCUsername
    Password <- MCPassword
    PeerFrames <- MCPeerFrames
    MaxFrames = 4

SPECIFICATION Spec
INVARIANT OnCloseDisabledOnUnload
\* A closed socket is never reopened: app.js calls wsocket.init once.
CHECK_DEADLOCK FALSE
