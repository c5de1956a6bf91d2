------------------------------ MODULE Response ------------------------------
(***************************************************************************)
(* Response codec of src/javascript/response.js.  Both functions read the *)
(* received ArrayBuffer through a DataView; a read past its end throws a  *)
(* RangeError, modelled as the result RangeError.  parse returns 'passwd' *)
(* or undefined.                                                          *)
(***************************************************************************)
EXTENDS DataView

RangeError == "RangeError"
Undefined == "undefined"

\* Slip: the version comparison dropped.
checkHeaderAnyVersion(buffer) ==
    IF ~InBounds(buffer, 0, 1) THEN RangeError ELSE TRUE

\* response.checkHeader(buffer): the version in the high nibble of byte 0
\* must be 1.  Nothing else of the header is looked at.
checkHeader(buffer) ==
    IF ~InBounds(buffer, 0, 1) THEN RangeError
    ELSE GetUint8(buffer, 0) \div 16 = 1

\* response.parse(buffer): reads message_len (unused), the opcode, and for
\* user_auth_fail (8) the command length and the first method byte only.
parse(buffer) ==
    CASE ~InBounds(buffer, 2, 2)       -> RangeError
      [] ~InBounds(buffer, 4, 1)       -> RangeError
      [] GetUint8(buffer, 4) # 8       -> Undefined
      [] ~InBounds(buffer, 5, 1)       -> RangeError
      [] GetUint8(buffer, 5) <= 2      -> Undefined
      [] ~InBounds(buffer, 6, 1)       -> RangeError
      [] GetUint8(buffer, 6) = 2       -> "passwd"
      [] OTHER                         -> Undefined
=============================================================================
