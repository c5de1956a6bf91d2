---------------------------- MODULE SessionSpec ----------------------------
(***************************************************************************)
(* The session state machine spec.md section 4.5 prescribes, as an       *)
(* abstract specification: the session state and the messages it emits.   *)
(***************************************************************************)
EXTENDS Sequences

VARIABLES
    state,   \* Connecting, AwaitingAuthMethod, Authenticating, Authenticated, Closed
    out      \* the messages emitted so far: "handshake", "credentials"

States == {"Connecting", "AwaitingAuthMethod", "Authenticating", "Authenticated", "Closed"}

Init == state = "Connecting" /\ out = << >>

\* transport-open: send the handshake.
Open ==
    /\ state = "Connecting"
    /\ state' = "AwaitingAuthMethod" /\ out' = Append(out, "handshake")

\* RequiresMethod(PASSWORD): send the credentials.
PasswordRequired ==
    /\ state = "AwaitingAuthMethod"
    /\ state' = "Authenticating" /\ out' = Append(out, "credentials")

\* Any valid message while Authenticating: authenticated, nothing sent.
Accepted ==
    /\ state = "Authenticating"
    /\ state' = "Authenticated" /\ UNCHANGED out

\* Bad header, Terminate, unsupported method, transport error or close.
Close ==
    /\ state # "Closed"
    /\ state' = "Closed" /\ UNCHANGED out

Next == Open \/ PasswordRequired \/ Accepted \/ Close

Spec == Init /\ [][Next]_<<state, out>>
=============================================================================
