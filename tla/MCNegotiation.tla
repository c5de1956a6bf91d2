---------------------------- MODULE MCNegotiation ----------------------------
EXTENDS NegotiationCodec

Str(len, c) == [i \in 1..len |-> c]

MCMessageTypes == {N!CHANGE_R, N!CONFIRM_L}
\* The ids of spec/negotiation_spec.js (15, 215) and the byte's edges.
MCIntValues == {0, 15, 215, 255}
\* One past the byte: an id of 256.
MCWideInts == MCIntValues \cup {256}
\* Empty, "wc://", and the longest string whose record length fits a byte.
MCStrings == { << >>, << 119, 99, 58, 47, 47 >>, Str(252, 97) }
\* One past it: 253 characters make a 256-byte record.
MCLongStrings == MCStrings \cup { Str(253, 97) }
\* 0, 1, -2.5, 7.25, 5/32, 1023/64.
MCFloats ==
    { [num |-> 0, den |-> 1], [num |-> 1, den |-> 1], [num |-> -5, den |-> 2],
      [num |-> 29, den |-> 4], [num |-> 5, den |-> 32], [num |-> 1023, den |-> 64] }
=============================================================================
