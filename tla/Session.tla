------------------------------ MODULE Session -------------------------------
(***************************************************************************)
(* The client session of src/javascript/src/socket.js and app.js: one     *)
(* WebSocket, its event handlers, and the peer at the other end.          *)
(*                                                                         *)
(* The browser runs one event handler at a time to completion, so each    *)
(* handler is one atomic action.  The transport is a reliable FIFO in     *)
(* each direction.  Both directions are kept as append-only histories:    *)
(* c2s holds every buffer the client sent (the peer has read srvRead of   *)
(* them), s2c every frame the peer sent (the client has consumed cliRead  *)
(* of them).  A frame the client has not consumed when its socket leaves  *)
(* OPEN is never dispatched: the browser drops message events then.       *)
(***************************************************************************)
EXTENDS Request, Response, WireFormat, Functions

CONSTANTS
    Username,      \* config.username, a sequence of UTF-16 code units
    Password,      \* config.passwd
    PeerFrames,    \* the binary frames the peer may answer with
    MaxFrames      \* bound on the number of frames the peer sends

ASSUME MaxFrames \in Nat

VARIABLES
    ready,         \* my_webscoket.readyState
    c2s,           \* every buffer passed to my_webscoket.send
    srvRead,       \* how many of them the peer has read
    s2c,           \* every frame the peer sent: binary data or its close frame
    cliRead,       \* how many of them the client has consumed
    onclose,       \* my_webscoket.onclose, the close event handler attribute
    closeHandlers  \* the handlers the 'close' event ran, {} before it fires

vars == <<ready, c2s, srvRead, s2c, cliRead, onclose, closeHandlers>>
handlerVars == <<onclose, closeHandlers>>

ReadyStates == {"CONNECTING", "OPEN", "CLOSING", "CLOSED"}

DataFrame(buf) == [kind |-> "data", data |-> buf]
CloseFrame == [kind |-> "close", data |-> <<>>]
TextFrame == [kind |-> "text", data |-> <<>>]

-----------------------------------------------------------------------------
(* The client.                                                             *)

\* app.js: the config passed to wsocket.init, whose listeners hand
\* config.username and config.passwd to onConnect and onMessage.
config == [username |-> Username, passwd |-> Password]

\* wsocket.init(config), called once by app.js: a new WebSocket, CONNECTING.
Init ==
    /\ ready = "CONNECTING"
    /\ c2s = << >> /\ srvRead = 0
    /\ s2c = << >> /\ cliRead = 0
    /\ onclose = "null" /\ closeHandlers = {}

\* my_webscoket.send(buf) on an open socket.
Send(buf) == c2s' = Append(c2s, buf)

\* The 'open' event: readyState becomes OPEN and onConnect sends the
\* handshake for config.username.
onConnect ==
    /\ ready = "CONNECTING"
    /\ ready' = "OPEN"
    /\ Send(handshake(config.username))
    /\ UNCHANGED <<srvRead, s2c, cliRead, handlerVars>>

\* The 'message' event for the next data frame, dispatched only while the
\* socket is OPEN.  onMessage ignores a text frame (its data is no
\* ArrayBuffer), closes the socket when checkHeader is false and sends the
\* credentials when parse returns 'passwd'.  A RangeError thrown by
\* checkHeader or parse aborts the handler: nothing happens.
onMessage ==
    /\ ready = "OPEN"
    /\ cliRead < Len(s2c)
    /\ s2c[cliRead + 1].kind \in {"data", "text"}
    /\ cliRead' = cliRead + 1
    /\ LET frame == s2c[cliRead + 1]
           header == checkHeader(frame.data)
       IN  CASE frame.kind = "data" /\ header = FALSE ->
                    ready' = "CLOSING" /\ UNCHANGED c2s
             [] frame.kind = "data" /\ header = TRUE /\ parse(frame.data) = "passwd" ->
                    Send(userAuth(config.username, config.passwd)) /\ UNCHANGED ready
             [] OTHER ->
                    UNCHANGED <<ready, c2s>>
    /\ UNCHANGED <<srvRead, s2c, handlerVars>>

\* window.onbeforeunload: replace the onclose attribute by a no-op, then
\* my_webscoket.close(), which starts the closing handshake of a
\* CONNECTING or OPEN socket and does nothing otherwise.  The page may stay
\* (a download link fires beforeunload too), and the socket with it.
onbeforeunload ==
    /\ onclose' = "noop"
    /\ ready' = IF ready \in {"CONNECTING", "OPEN"} THEN "CLOSING" ELSE ready
    /\ UNCHANGED <<c2s, srvRead, s2c, cliRead, closeHandlers>>

\* The 'close' event runs every listener added with addEventListener
\* (onClose, from init) and the onclose attribute when one is set.
FireClose ==
    closeHandlers' = {"onClose"} \cup ({onclose} \ {"null"})

-----------------------------------------------------------------------------
(* The transport and the peer.                                             *)

\* A frame the peer may send: one of PeerFrames, or a text frame.
PeerSends ==
    /\ Len(s2c) < MaxFrames
    /\ \E f \in {DataFrame(b) : b \in PeerFrames} \cup {TextFrame} :
           s2c' = Append(s2c, f)

\* The peer reads the next client buffer and answers it with one frame.
PeerReply ==
    /\ srvRead < Len(c2s)
    /\ srvRead' = srvRead + 1
    /\ PeerSends
    /\ UNCHANGED <<ready, c2s, cliRead, handlerVars>>

\* Once it has read the handshake, the peer may also send a frame nobody
\* asked for: a repeated offer, or one that overtakes the answer to the
\* credentials.
PeerPush ==
    /\ srvRead >= 1
    /\ PeerSends
    /\ UNCHANGED <<ready, c2s, srvRead, cliRead, handlerVars>>

\* The peer starts the closing handshake.
PeerClose ==
    /\ ready = "OPEN"
    /\ CloseFrame \notin Range(s2c)
    /\ s2c' = Append(s2c, CloseFrame)
    /\ UNCHANGED <<ready, c2s, srvRead, cliRead, handlerVars>>

\* The peer's close frame reaches the client, after every frame before it.
PeerCloseArrives ==
    /\ ready = "OPEN"
    /\ cliRead < Len(s2c)
    /\ s2c[cliRead + 1].kind = "close"
    /\ cliRead' = cliRead + 1
    /\ ready' = "CLOSING"
    /\ UNCHANGED <<c2s, srvRead, s2c, handlerVars>>

\* The closing handshake completes: the 'close' event.
CloseCompleted ==
    /\ ready = "CLOSING"
    /\ ready' = "CLOSED"
    /\ FireClose
    /\ UNCHANGED <<c2s, srvRead, s2c, cliRead, onclose>>

\* The connection fails: the 'error' event (onError logs) and the 'close'
\* event.
ConnectionLost ==
    /\ ready # "CLOSED"
    /\ ready' = "CLOSED"
    /\ FireClose
    /\ UNCHANGED <<c2s, srvRead, s2c, cliRead, onclose>>

Next ==
    \/ onConnect \/ onMessage \/ onbeforeunload
    \/ PeerReply \/ PeerPush \/ PeerClose \/ PeerCloseArrives
    \/ CloseCompleted \/ ConnectionLost

\* The browser's event loop dispatches every queued event, and a closing
\* handshake completes or times out; the peer is under no obligation.
Fairness ==
    /\ WF_vars(onConnect) /\ WF_vars(onMessage)
    /\ WF_vars(PeerCloseArrives) /\ WF_vars(CloseCompleted)

Spec == Init /\ [][Next]_vars /\ Fairness
-----------------------------------------------------------------------------
(* Properties.                                                             *)

\* The frames the client has dispatched to onMessage, in order.
Consumed == SubSeq(s2c, 1, cliRead)

\* How many of them offered the PASSWORD method (spec section 6 reading).
PasswordOffers ==
    Len(SelectSeq(Consumed, LAMBDA f : f.kind = "data" /\ OffersPassword(f.data)))

\* How many credentials messages the client has put on the wire.
CredentialsSent ==
    Len(SelectSeq(c2s, LAMBDA b : DecodeUserAuth(b).method = 2))

\* Every buffer onConnect and onMessage send is a self-describing Verse
\* message the peer reads back as the configured user: first the handshake
\* proposing NONE, after it only PASSWORD requests with config.passwd.
WireWellFormed ==
    \A i \in 1..Len(c2s) :
        /\ Framed(c2s[i])
        /\ DecodeUserAuth(c2s[i]) =
              IF i = 1 THEN [name |-> config.username, method |-> 1, passwd |-> << >>]
                       ELSE [name |-> config.username, method |-> 2, passwd |-> config.passwd]

\* The password leaves the client only in answer to a version-1
\* user_auth_fail that offers PASSWORD, at most once per such frame: a
\* peer speaking another version or refusing PASSWORD never receives it,
\* whatever it sent before.  (onMessage's checkHeader and parse guards.)
CredentialsOnlyOnOffer == CredentialsSent <= PasswordOffers

\* Spec 4.4 and 9: a user_auth_fail offering PASSWORD, at any position of
\* its method list, is answered with the credentials.  parse reads only
\* the first method byte.
EveryOfferAnswered == PasswordOffers <= CredentialsSent

\* Spec 4.5: a version-1 user_auth_fail offering no usable method ends the
\* session (Terminate / RequiresMethod(Unsupported) -> Closed).  parse
\* returns undefined for it and onMessage does nothing.
RefusalEndsSession ==
    \A k \in 1..cliRead :
        (s2c[k].kind = "data" /\ RefusesClient(s2c[k].data)) => ready # "OPEN"

\* Spec 4.1, 4.5 and 7: a frame too short for a header, or whose length
\* field is not its size, ends the session.  checkHeader looks only at the
\* version nibble, and a RangeError thrown by parse aborts onMessage.
MalformedFrameEndsSession ==
    \A k \in 1..cliRead :
        (s2c[k].kind = "data" /\ BadHeader(s2c[k].data)) => ready # "OPEN"

\* socket.js line 11, "disable onclose handler first": a close event that
\* follows onbeforeunload no longer reaches onClose.  onClose was added
\* with addEventListener, which the onclose attribute does not replace.
OnCloseDisabledOnUnload ==
    "noop" \in closeHandlers => "onClose" \notin closeHandlers

\* The session state of spec 4.5 that the code's state stands for.  The
\* code keeps no such variable: it is read off the socket and the wire.
AbsState ==
    CASE ready \in {"CLOSING", "CLOSED"} -> "Closed"
      [] ready = "CONNECTING"            -> "Connecting"
      [] CredentialsSent = 0             -> "AwaitingAuthMethod"
      [] OTHER                           -> "Authenticating"

AbsOut == [i \in 1..Len(c2s) |->
              IF DecodeUserAuth(c2s[i]).method = 2 THEN "credentials" ELSE "handshake"]

Abs == INSTANCE SessionSpec WITH state <- AbsState, out <- AbsOut

\* What the code promises, as the abstract client of AuthClient hears it:
\* a frame of another version ends the session; a version-1
\* user_auth_fail whose first method is PASSWORD is an offer; the rest,
\* text frames included, is ignored.
Classify(f) ==
    CASE f.kind = "data" /\ Len(f.data) >= 1 /\ VersionOf(f.data) # 1 -> "foreign"
      [] f.kind = "data" /\ Len(f.data) >= 7 /\ VersionOf(f.data) = 1
           /\ f.data[5] = 8 /\ f.data[6] > 2 /\ f.data[7] = 2        -> "offer"
      [] OTHER                                                        -> "ignored"

AuthPhase ==
    CASE ready = "CONNECTING" -> "connecting"
      [] ready = "OPEN"       -> "open"
      [] OTHER                -> "closed"

\* The frames still in flight to the client, close frames left out.
AuthPending ==
    LET rest == SelectSeq(SubSeq(s2c, cliRead + 1, Len(s2c)), LAMBDA f : f.kind # "close")
    IN  [i \in 1..Len(rest) |-> Classify(rest[i])]

Auth == INSTANCE AuthClient WITH phase <- AuthPhase, pending <- AuthPending, said <- AbsOut

\* The client implements AuthClient under the browser's fairness: it opens,
\* answers each first-position PASSWORD offer with exactly one credentials
\* message, closes on a foreign version, and hears every frame that
\* reaches it while OPEN (onConnect, onMessage and the close handshake).
RefinesAuthClient == Auth!Spec

\* The client implements the session state machine of spec 4.5: every step
\* of the code is a step of that machine or leaves it unchanged.
RefinesSessionSpec == Abs!Spec
=============================================================================
