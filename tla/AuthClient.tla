----------------------------- MODULE AuthClient -----------------------------
(***************************************************************************)
(* What the client of src/javascript/src/socket.js does promise, stated   *)
(* over abstract messages instead of bytes.  The peer's frames queue up   *)
(* in pending; the client hears them one at a time while open:            *)
(*   "offer"   a version-1 user_auth_fail whose first method is PASSWORD, *)
(*             answered with the credentials;                             *)
(*   "foreign" a frame of another protocol version, which ends the        *)
(*             session;                                                   *)
(*   "ignored" anything else, after which the client keeps waiting.       *)
(* said is what the client put on the wire: the handshake, then only      *)
(* credentials.  The client is bound to hear every frame that reaches an  *)
(* open session, so each offer is eventually answered unless the session  *)
(* closes first.                                                          *)
(***************************************************************************)
EXTENDS Sequences

Messages == {"offer", "foreign", "ignored"}

VARIABLES
    phase,     \* "connecting", "open" or "closed"
    pending,   \* frames the peer sent that the client has not heard
    said       \* every message the client sent

vars == <<phase, pending, said>>

Init == phase = "connecting" /\ pending = << >> /\ said = << >>

\* The connection opens and the client introduces itself.
Open ==
    /\ phase = "connecting"
    /\ phase' = "open"
    /\ said' = << "handshake" >>
    /\ UNCHANGED pending

\* The peer sends a frame; it may do so in any phase.
Deliver ==
    /\ \E m \in Messages : pending' = Append(pending, m)
    /\ UNCHANGED <<phase, said>>

\* The client hears the oldest pending frame.
Hear ==
    /\ phase = "open"
    /\ pending # << >>
    /\ pending' = Tail(pending)
    /\ said' = IF Head(pending) = "offer" THEN Append(said, "credentials") ELSE said
    /\ phase' = IF Head(pending) = "foreign" THEN "closed" ELSE "open"

\* Either side, or the network, ends the session.
Close ==
    /\ phase # "closed"
    /\ phase' = "closed"
    /\ UNCHANGED <<pending, said>>

Next == Open \/ Deliver \/ Hear \/ Close

Spec == Init /\ [][Next]_vars /\ WF_vars(Open) /\ WF_vars(Hear)
=============================================================================
