------------------------------- MODULE Codec --------------------------------
(***************************************************************************)
(* The request codecs as a component: each step is one call of an encoder *)
(* on inputs drawn from small sets, and the state is the call and what it *)
(* returned.  Both copies of the request codec in the repository are      *)
(* called on the same inputs: src/javascript/src/request.js (module       *)
(* Request) and src/javascript/request.js (module RequestLegacy).         *)
(***************************************************************************)
EXTENDS WireFormat

CONSTANTS
    Names,         \* usernames passed to handshake and userAuth
    Passwords,     \* passwords passed to userAuth
    WithinLimits   \* TRUE: only inputs whose length fields fit (spec 4.3)

ASSUME WithinLimits \in BOOLEAN

Src == INSTANCE Request
Old == INSTANCE RequestLegacy

VARIABLE last      \* the last call: operation, inputs, both results

NoCall == [op |-> "none", name |-> << >>, passwd |-> << >>, buf |-> << >>, old |-> << >>]

\* Spec 4.3: a single-byte length prefix holds at most 255, so the command
\* length 4 + n (handshake) and 5 + n + p (userAuth) must fit in a byte.
HandshakeFits(n) == ~WithinLimits \/ 4 + Len(n) <= 255
UserAuthFits(n, p) == ~WithinLimits \/ 5 + Len(n) + Len(p) <= 255

Init == last = NoCall

\* request.handshake(name)
Handshake ==
    \E n \in Names :
        /\ HandshakeFits(n)
        /\ last' = [op |-> "handshake", name |-> n, passwd |-> << >>,
                    buf |-> Src!handshake(n), old |-> Old!handshake(n)]

\* request.userAuth(name, passwd)
UserAuth ==
    \E n \in Names, p \in Passwords :
        /\ UserAuthFits(n, p)
        /\ last' = [op |-> "userAuth", name |-> n, passwd |-> p,
                    buf |-> Src!userAuth(n, p), old |-> Old!userAuth(n, p)]

Next == Handshake \/ UserAuth

Spec == Init /\ [][Next]_last

-----------------------------------------------------------------------------
\* Spec 3: every length field of an encoded request equals the length it
\* describes: the header length is the buffer's size and the command
\* length counts the bytes from the opcode on.
FrameConsistent == last.op # "none" => Framed(last.buf)

\* Spec 8: the peer reads back exactly the name (and password) the client
\* encoded, with the method the operation stands for.
RoundTrip ==
    last.op # "none" =>
        DecodeUserAuth(last.buf) =
            IF last.op = "handshake"
            THEN [name |-> last.name, method |-> 1, passwd |-> << >>]
            ELSE [name |-> last.name, method |-> 2, passwd |-> last.passwd]

\* The two copies of the request codec produce the same bytes for every
\* input, so it does not matter which request.js the page loads.
CopiesAgree == last.buf = last.old
=============================================================================
