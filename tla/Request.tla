------------------------------ MODULE Request -------------------------------
(***************************************************************************)
(* Request codec of src/javascript/src/request.js: the two outbound        *)
(* user_auth commands, each written into a fresh ArrayBuffer at fixed     *)
(* offsets behind the 4-byte Verse header.                                 *)
(***************************************************************************)
EXTENDS DataView

\* Opcode of the user_auth command and the two method codes the client uses.
USER_AUTH == 7
METHOD_NONE == 1
METHOD_PASSWORD == 2

\* Header: version 1 in the high nibble of byte 0 (1 << 4), byte 1 left
\* zero, message length big-endian at offset 2.
VerseHeader(buf, message_len) == SetUint16(SetUint8(buf, 0, 16), 2, message_len)

\* Slip: userAuth's command length 5 + n written by handshake.
handshakeCmdLenOffByOne(name) ==
    LET n == Len(name)
        message_len == n + 8
        hdr == VerseHeader(NewArrayBuffer(message_len), message_len)
        cmd == SetUint8(SetUint8(SetUint8(hdr, 4, USER_AUTH), 5, 5 + n), 6, n)
    IN  SetUint8(PackString(cmd, 7, name), 7 + n, METHOD_NONE)

\* request.handshake(name): user_auth proposing method NONE.
handshake(name) ==
    LET n == Len(name)
        message_len == n + 8
        hdr == VerseHeader(NewArrayBuffer(message_len), message_len)
        cmd == SetUint8(SetUint8(SetUint8(hdr, 4, USER_AUTH), 5, 4 + n), 6, n)
    IN  SetUint8(PackString(cmd, 7, name), 7 + n, METHOD_NONE)

\* Slip: handshake's command length 4 + n kept for userAuth.
userAuthCmdOffByOne(name, passwd) ==
    LET n == Len(name)
        p == Len(passwd)
        message_len == 9 + n + p
        hdr == VerseHeader(NewArrayBuffer(message_len), message_len)
        cmd == SetUint8(SetUint8(SetUint8(hdr, 4, USER_AUTH), 5, 4 + n + p), 6, n)
        meth == SetUint8(SetUint8(PackString(cmd, 7, name), 7 + n, METHOD_PASSWORD), 8 + n, p)
    IN  PackString(meth, 9 + n, passwd)

\* Slip: the password packed from offset 8 + n, over its length byte.
userAuthPassOverLen(name, passwd) ==
    LET n == Len(name)
        p == Len(passwd)
        message_len == 9 + n + p
        hdr == VerseHeader(NewArrayBuffer(message_len), message_len)
        cmd == SetUint8(SetUint8(SetUint8(hdr, 4, USER_AUTH), 5, 5 + n + p), 6, n)
        meth == SetUint8(SetUint8(PackString(cmd, 7, name), 7 + n, METHOD_PASSWORD), 8 + n, p)
    IN  PackString(meth, 8 + n, passwd)

\* request.userAuth(name, passwd): user_auth with method PASSWORD.
userAuth(name, passwd) ==
    LET n == Len(name)
        p == Len(passwd)
        message_len == 9 + n + p
        hdr == VerseHeader(NewArrayBuffer(message_len), message_len)
        cmd == SetUint8(SetUint8(SetUint8(hdr, 4, USER_AUTH), 5, 5 + n + p), 6, n)
        meth == SetUint8(SetUint8(PackString(cmd, 7, name), 7 + n, METHOD_PASSWORD), 8 + n, p)
    IN  PackString(meth, 9 + n, passwd)
=============================================================================
