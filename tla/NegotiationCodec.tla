-------------------------- MODULE NegotiationCodec --------------------------
(***************************************************************************)
(* The negotiation codec as a component: each step calls one constructor *)
(* of negotiation.js and appends the record it returns to a stream, the   *)
(* way records are packed back to back behind a Verse header.  records    *)
(* keeps what each call was asked to encode.                              *)
(***************************************************************************)
EXTENDS WireFormat

CONSTANTS
    MessageTypes,  \* message types passed as the first argument
    IntValues,     \* ids and values for the 1-byte features
    Strings,       \* URLs, cookies and DED strings (code-unit sequences)
    Floats,        \* FPS values, dyadic rationals [num, den]
    MaxRecords     \* records per stream

N == INSTANCE Negotiation

ASSUME \A r \in Floats : N!Float32Exact(r)

VARIABLES
    records,       \* [msg, feature, value] of every call, in order
    stream         \* the concatenated bytes the calls returned

vars == <<records, stream>>

Init == records = << >> /\ stream = << >>

\* One constructor call: its result is appended to the stream; a stream
\* already holding MaxRecords records is sent off and a new one begun.
Emit(buf, msg, feature, value) ==
    LET rec == [msg |-> msg, feature |-> feature, value |-> value]
    IN  IF Len(records) < MaxRecords
        THEN records' = Append(records, rec) /\ stream' = stream \o buf
        ELSE records' = << rec >> /\ stream' = buf

Fcid == \E t \in MessageTypes, v \in IntValues : Emit(N!fcid(t, v), t, 1, << v >>)
Ccid == \E t \in MessageTypes, v \in IntValues : Emit(N!ccid(t, v), t, 2, << v >>)
Url == \E t \in MessageTypes, s \in Strings : Emit(N!url(t, s), t, 3, s)
Cookie == \E t \in MessageTypes, s \in Strings : Emit(N!cookie(t, s), t, 4, s)
Ded == \E t \in MessageTypes, s \in Strings : Emit(N!ded(t, s), t, 5, s)
Rwin == \E t \in MessageTypes, v \in IntValues : Emit(N!rwin(t, v), t, 6, << v >>)
Fps == \E t \in MessageTypes, r \in Floats : Emit(N!fps(t, r), t, 7, << r.num, r.den >>)
Compression == \E t \in MessageTypes, v \in IntValues : Emit(N!compression(t, v), t, 8, << v >>)

Next == Fcid \/ Ccid \/ Url \/ Cookie \/ Ded \/ Rwin \/ Fps \/ Compression

Spec == Init /\ [][Next]_vars

-----------------------------------------------------------------------------
\* Spec 3 and 4.2: records are self-framed, so a reader that knows nothing
\* but the record layout splits the stream back into exactly the records
\* that were encoded, each with its message type, feature and value.
StreamRoundTrip == ReadRecords(stream) = records
=============================================================================
