------------------------------ MODULE MCBase64 ------------------------------
EXTENDS Base64

CONSTANTS pad

(* Bytes with the high bit, the low bits, all bits and none set. *)
MCByteSamples == {0, 3, 128, 255}
=============================================================================
