----------------------------- MODULE WireFormat -----------------------------
(***************************************************************************)
(* The Verse wire format as spec.md (sections 3, 4.3, 4.4 and 6) states   *)
(* it, written independently of the client code: the reference the codec *)
(* properties compare the code with, and the frames a peer may send.      *)
(***************************************************************************)
EXTENDS Integers, Sequences

\* Header fields of a buffer.
VersionOf(buf) == buf[1] \div 16
LengthOf(buf) == buf[3] * 256 + buf[4]

\* A user_auth / user_auth_fail message is self-describing: version 1,
\* reserved bits zero, the header length is the byte length and the
\* command length counts every byte from the opcode on.
Framed(buf) ==
    /\ Len(buf) >= 6
    /\ VersionOf(buf) = 1 /\ buf[1] % 16 = 0 /\ buf[2] = 0
    /\ LengthOf(buf) = Len(buf)
    /\ buf[6] = Len(buf) - 4

\* Reading of a user_auth command (opcode 7): name-length byte, name,
\* method byte, and for PASSWORD a password-length byte and password.
\* A field that runs past the end of the buffer makes the reading fail.
Malformed == [name |-> <<>>, method |-> 0, passwd |-> <<>>]

DecodeUserAuth(buf) ==
    IF Len(buf) < 7 \/ buf[5] # 7 THEN Malformed
    ELSE LET nl == buf[7]
         IN  IF Len(buf) < 8 + nl THEN Malformed
             ELSE LET name == SubSeq(buf, 8, 7 + nl)
                      method == buf[8 + nl]
                  IN  CASE method = 1 /\ Len(buf) = 8 + nl ->
                             [name |-> name, method |-> 1, passwd |-> <<>>]
                        [] method = 2 /\ Len(buf) >= 9 + nl
                                      /\ Len(buf) = 9 + nl + buf[9 + nl] ->
                             [name |-> name, method |-> 2,
                              passwd |-> SubSeq(buf, 10 + nl, Len(buf))]
                        [] OTHER -> Malformed

\* A user_auth_fail command (opcode 8) offering the given methods, as a
\* server sends it; its command length is 2 + the number of methods.
AuthFail(version, methods) ==
    << version * 16, 0, 0, 6 + Len(methods), 8, 2 + Len(methods) >> \o methods

\* The methods a user_auth_fail offers, read per spec section 6: every
\* byte after the command length up to its end.
OfferedMethods(buf) ==
    IF Len(buf) >= 6 /\ buf[5] = 8 /\ buf[6] > 2 /\ Len(buf) >= 4 + buf[6]
    THEN {buf[k] : k \in 7..(4 + buf[6])}
    ELSE {}

\* The frame is a version-1 user_auth_fail that offers PASSWORD.
OffersPassword(buf) ==
    Len(buf) >= 4 /\ VersionOf(buf) = 1 /\ LengthOf(buf) = Len(buf)
    /\ 2 \in OfferedMethods(buf)

\* The frame is a version-1 user_auth_fail that offers no method the
\* client implements (spec 4.4: Terminate or RequiresMethod(Unsupported)).
RefusesClient(buf) ==
    /\ Len(buf) >= 6 /\ VersionOf(buf) = 1 /\ LengthOf(buf) = Len(buf)
    /\ buf[5] = 8
    /\ 2 \notin OfferedMethods(buf)

\* The frame fails the header checks of spec 4.1 and 7: shorter than a
\* header (MalformedHeader) or its length field is not its byte length
\* (ProtocolVersionOrLengthMismatch).
BadHeader(buf) == Len(buf) < 4 \/ LengthOf(buf) # Len(buf)

-----------------------------------------------------------------------------
(***************************************************************************)
(* Negotiation records, read per spec 4.2: message type, record length,  *)
(* feature type, then a 1-byte int (FCID, CCID, RWIN, COMPRESSION), the  *)
(* rest of the record as a string (URL, COOKIE, DED) or a big-endian     *)
(* float32 (FPS).  A record is read as [msg, feature, value] with value  *)
(* a sequence: <<int>>, the string's bytes, or <<num, den>> for a float.  *)
(***************************************************************************)
IntFeatures == {1, 2, 6, 8}
StringFeatures == {3, 4, 5}
FPS == 7

BadRecord == [msg |-> 0, feature |-> 0, value |-> << >>]

RECURSIVE Lowest(_, _)
\* n / d in lowest terms, d a power of two.
Lowest(n, d) ==
    IF n % 2 = 0 /\ d > 1 THEN Lowest(n \div 2, d \div 2) ELSE << n, d >>

\* The float32 held in four bytes, for the normal numbers between 2^-30
\* and 2^23 (the only ones an exact encoding of a value with a small
\* denominator produces); anything else is not read.
ReadFloat32(b) ==
    LET sign == IF b[1] >= 128 THEN -1 ELSE 1
        biased == (b[1] % 128) * 2 + b[2] \div 128
        frac == (b[2] % 128) * 65536 + b[3] * 256 + b[4]
        q == Lowest(2^23 + frac, 2^(150 - biased))
    IN  IF b = << 0, 0, 0, 0 >> THEN << 0, 1 >>
        ELSE IF biased \in 120..150 THEN << sign * q[1], q[2] >>
        ELSE << >>

ReadRecord(r) ==
    CASE r[3] \in IntFeatures /\ Len(r) = 4 ->
             [msg |-> r[1], feature |-> r[3], value |-> << r[4] >>]
      [] r[3] \in StringFeatures ->
             [msg |-> r[1], feature |-> r[3], value |-> SubSeq(r, 4, Len(r))]
      [] r[3] = FPS /\ Len(r) = 7 ->
             [msg |-> r[1], feature |-> r[3], value |-> ReadFloat32(SubSeq(r, 4, 7))]
      [] OTHER -> BadRecord

RECURSIVE ReadRecords(_)
\* Split a byte stream of back-to-back records by their length bytes.  A
\* length byte below 3 or past the end (TruncatedRecord) stops the
\* reading with BadRecord.
ReadRecords(s) ==
    IF s = << >> THEN << >>
    ELSE IF Len(s) < 3 \/ s[2] < 3 \/ s[2] > Len(s) THEN << BadRecord >>
    ELSE << ReadRecord(SubSeq(s, 1, s[2])) >> \o ReadRecords(SubSeq(s, s[2] + 1, Len(s)))
=============================================================================
