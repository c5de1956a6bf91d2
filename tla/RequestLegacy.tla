--------------------------- MODULE RequestLegacy ---------------------------
(***************************************************************************)
(* The older copy of the request codec, src/javascript/request.js.  It    *)
(* writes the same fields through a moving cursor buf_pos; a cursor that   *)
(* writes each field right after the previous one builds the buffer as the *)
(* concatenation of the fields, which is how it is modelled here.         *)
(***************************************************************************)
EXTENDS DataView

\* setUint16 at the cursor: two big-endian bytes.
U16(v) == << ToUint16(v) \div 256, ToUint16(v) % 256 >>

\* The string loop at the cursor: one byte per code unit.
Chars(str) == [k \in 1..Len(str) |-> ToUint8(CharCodeAt(str, k - 1))]

\* Version byte, then buf_pos += 2 skips the reserved byte (left zero).
Header(message_len) == << 1 * 16, 0 >> \o U16(message_len)

handshake(name) ==
    LET name_len == Len(name)
    IN  Header(name_len + 8)
          \o << 7, ToUint8(4 + name_len), ToUint8(name_len) >>
          \o Chars(name) \o << 1 >>

\* Slip: one of the 1-byte fields left out of the command length.
userAuthCmdMissingField(name, passwd) ==
    LET name_len == Len(name)
        pass_len == Len(passwd)
    IN  Header(4 + 1 + 1 + 1 + name_len + 1 + 1 + pass_len)
          \o << 7, ToUint8(1 + 1 + name_len + 1 + 1 + pass_len), ToUint8(name_len) >>
          \o Chars(name) \o << 2, ToUint8(pass_len) >> \o Chars(passwd)

userAuth(name, passwd) ==
    LET name_len == Len(name)
        pass_len == Len(passwd)
    IN  Header(4 + 1 + 1 + 1 + name_len + 1 + 1 + pass_len)
          \o << 7, ToUint8(1 + 1 + 1 + name_len + 1 + 1 + pass_len), ToUint8(name_len) >>
          \o Chars(name) \o << 2, ToUint8(pass_len) >> \o Chars(passwd)
=============================================================================
