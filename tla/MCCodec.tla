------------------------------ MODULE MCCodec -------------------------------
(***************************************************************************)
(* Inputs for Codec: lengths at the edges of the one-byte length fields. *)
(***************************************************************************)
EXTENDS Codec

\* A string of len copies of the code unit c.
Str(len, c) == [i \in 1..len |-> c]

\* Names and passwords whose length fields all fit: "albert", "12345",
\* empty, single characters, a Latin-1 character, names up to spec 8's
\* bound of 247, and 251, the largest handshake name whose command length
\* 4 + n fits a byte.
FitNames ==
    { << >>, << 97 >>, << 97, 255 >>, << 97, 108, 98, 101, 114, 116 >>,
      Str(2, 97), Str(10, 97), Str(100, 97), Str(150, 97), Str(200, 97),
      Str(246, 97), Str(247, 97), Str(251, 97) }
FitPasswords ==
    { << >>, << 49 >>, << 49, 50 >>, << 49, 50, 51, 52, 53 >>, Str(44, 49), Str(45, 49),
      Str(46, 49), Str(50, 49), Str(100, 49), Str(150, 49) }

\* One past the edge: a name of 252 characters, for which the handshake's
\* command length 4 + 252 = 256 wraps to 0 (and userAuth's 5 + n + p too).
LongNames == FitNames \cup { Str(252, 97) }

\* Names outside Latin-1: code units 0x101 and 0x3B1 (alpha).
WideNames == { << 97, 257 >>, << 945 >> }
=============================================================================
