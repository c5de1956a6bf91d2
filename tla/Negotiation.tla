---------------------------- MODULE Negotiation ----------------------------
(***************************************************************************)
(* Negotiation codec of src/javascript/src/negotiation.js: self-framed    *)
(* feature records [message type, record length, feature type, payload]. *)
(***************************************************************************)
EXTENDS DataView

\* Message types.
CHANGE_L == 3
CHANGE_R == 4
CONFIRM_L == 5
CONFIRM_R == 6

\* Slip: the length byte holds the string's length, not the record's.
string_message_strlen(message_type, data_str, feature_type) ==
    LET mes_len == 3 + Len(data_str)
        hdr == SetUint8(SetUint8(SetUint8(NewArrayBuffer(mes_len),
                   0, message_type), 1, Len(data_str)), 2, feature_type)
    IN  PackString(hdr, 3, data_str)

\* Abstract string message: 3 header bytes, then one byte per code unit.
string_message(message_type, data_str, feature_type) ==
    LET mes_len == 3 + Len(data_str)
        hdr == SetUint8(SetUint8(SetUint8(NewArrayBuffer(mes_len),
                   0, message_type), 1, mes_len), 2, feature_type)
    IN  PackString(hdr, 3, data_str)

\* Abstract int message: 4 bytes, the value in the last.
int_message(message_type, data_int, feature_type) ==
    SetUint8(SetUint8(SetUint8(SetUint8(NewArrayBuffer(4),
        0, message_type), 1, 4), 2, feature_type), 3, data_int)

fcid(type, id) == int_message(type, id, 1)
ccid(type, id) == int_message(type, id, 2)
url(type, nurl) == string_message(type, nurl, 3)
cookie(type, cookie_val) == string_message(type, cookie_val, 4)
ded(type, ded_val) == string_message(type, ded_val, 5)
rwin(type, value) == int_message(type, value, 6)
compression(type, value) == int_message(type, value, 8)

\* Frames per second: a 7-byte record holding a big-endian float32.
fps(message_type, value) ==
    SetFloat32(SetUint8(SetUint8(SetUint8(NewArrayBuffer(7),
        0, message_type), 1, 7), 2, 7), 3, value)
=============================================================================
