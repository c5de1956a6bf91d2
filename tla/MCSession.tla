----------------------------- MODULE MCSession ------------------------------
(***************************************************************************)
(* Model-checking instance of Session: the test user of                   *)
(* spec/request_spec.js and the frames a peer can answer with.            *)
(***************************************************************************)
EXTENDS Session

\* "albert" and "12345", as code units.
MCUsername == << 97, 108, 98, 101, 114, 116 >>
MCPassword == << 49, 50, 51, 52, 53 >>

\* user_auth_fail offering PASSWORD.  spec/response_spec.js tests parse on
\* an 8-byte variant with version nibble 0 and a trailing zero byte.
PassOffer == AuthFail(1, << 2 >>)
\* user_auth_fail offering only NONE, and offering nothing.
NoneOffer == AuthFail(1, << 1 >>)
NoMethods == AuthFail(1, << >>)
\* user_auth_fail listing NONE before PASSWORD.
BothMethods == AuthFail(1, << 1, 2 >>)
\* A PASSWORD offer under protocol version 2.
WrongVersion == AuthFail(2, << 2 >>)
\* One byte carrying version 1 and nothing else.
Truncated == << 16 >>
\* A version-1 command other than user_auth_fail (opcode 9).
OtherCommand == << 16, 0, 0, 6, 9, 2 >>

\* A PASSWORD offer whose header claims 9 bytes for its 7.
LengthMismatch == << 16, 0, 0, 9, 8, 3, 2 >>

MCPeerFrames ==
    {PassOffer, NoneOffer, NoMethods, BothMethods, WrongVersion, Truncated, OtherCommand}

\* The frames of a peer whose one malformed frame is LengthMismatch.
MCMismatchFrames == (MCPeerFrames \ {Truncated}) \cup {LengthMismatch}
=============================================================================
