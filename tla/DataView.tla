------------------------------ MODULE DataView ------------------------------
(***************************************************************************)
(* The byte-buffer semantics the Verse client relies on: an ECMAScript     *)
(* ArrayBuffer read and written through a big-endian DataView.  A buffer  *)
(* is a sequence of bytes; byte offset k of the buffer is element k + 1.  *)
(* A string is a sequence of UTF-16 code units, which is what charCodeAt  *)
(* returns one at a time.                                                  *)
(***************************************************************************)
EXTENDS Integers, Sequences

Byte == 0..255

\* new ArrayBuffer(n): n bytes, all zero.
NewArrayBuffer(n) == [k \in 1..n |-> 0]

\* The ToUint8 / ToUint16 conversions setUint8 / setUint16 apply to a
\* non-negative integer: the value modulo 2^8 / 2^16, never an error.
ToUint8(x) == x % 256
ToUint16(x) == x % 65536

\* A read or write of width bytes at offset off stays inside the buffer;
\* outside it DataView throws a RangeError.
InBounds(buf, off, width) == off >= 0 /\ off + width <= Len(buf)

\* The writes are defined for offsets inside the buffer only.  Outside it
\* the code would throw a RangeError; every write of the client's encoders
\* is in range (each buffer is allocated at the sum of its fields), so
\* the model gives such a write no meaning of its own.
SetUint8(buf, off, v) == [buf EXCEPT ![off + 1] = ToUint8(v)]

SetUint16(buf, off, v) ==
    [buf EXCEPT ![off + 1] = ToUint16(v) \div 256, ![off + 2] = ToUint16(v) % 256]

GetUint8(buf, off) == buf[off + 1]

GetUint16(buf, off) == buf[off + 1] * 256 + buf[off + 2]

\* str.charCodeAt(i)
CharCodeAt(str, i) == str[i + 1]

\* The loop "for (i = 0; i < str.length; i++) view.setUint8(off + i,
\* str.charCodeAt(i))": every code unit is cut to its low 8 bits.
PackString(buf, off, str) ==
    [k \in DOMAIN buf |->
        IF k - 1 - off \in 0..(Len(str) - 1)
        THEN ToUint8(CharCodeAt(str, k - 1 - off))
        ELSE buf[k]]

(***************************************************************************)
(* setFloat32: the IEEE-754 single-precision encoding, big-endian.  A     *)
(* Number is given as a dyadic rational [num |-> n, den |-> d] (d a power *)
(* of two, as in the community module DyadicRationals).  Only values      *)
(* that single precision represents exactly are encoded (Float32Exact),   *)
(* so the round-to-nearest step of the conversion is the identity there; *)
(* d <= 64 keeps every intermediate product inside TLC's integers.         *)
(***************************************************************************)
Float32Exps == -7..11

\* 2^e <= a/d < 2^(e+1)
BinaryExp(a, d) ==
    CHOOSE e \in Float32Exps :
        IF e >= 0 THEN d * 2^e <= a /\ a < d * 2^(e + 1)
                  ELSE d <= a * 2^(-e) /\ a * 2^(-e) < 2 * d

\* The 24-bit significand a/d * 2^(23-e), implicit leading one included.
Significand(a, d) == (a * 2^(23 - BinaryExp(a, d))) \div d

Float32Exact(r) ==
    /\ r.den \in {2^k : k \in 0..6}
    /\ \/ r.num = 0
       \/ LET a == IF r.num < 0 THEN -r.num ELSE r.num
          IN  /\ a \in 1..1023
              /\ (a * 2^(23 - BinaryExp(a, r.den))) % r.den = 0

Float32Bytes(r) ==
    IF r.num = 0 THEN << 0, 0, 0, 0 >>
    ELSE LET a == IF r.num < 0 THEN -r.num ELSE r.num
             sign == IF r.num < 0 THEN 1 ELSE 0
             biased == BinaryExp(a, r.den) + 127
             frac == Significand(a, r.den) - 2^23
         IN  << sign * 128 + biased \div 2,
                (biased % 2) * 128 + frac \div 65536,
                (frac \div 256) % 256,
                frac % 256 >>

SetFloat32(buf, off, r) ==
    [k \in DOMAIN buf |->
        IF k - off \in 1..4 THEN Float32Bytes(r)[k - off] ELSE buf[k]]
=============================================================================
