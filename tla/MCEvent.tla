------------------------------ MODULE MCEvent ------------------------------
(* Two string values, two numbers, one attribute key, up to two           *)
(* attributes on the event.                                               *)
EXTENDS Event

CONSTANTS unset

MCStrs == {"s1", "s2"}
MCNums == {1, 2}
MCAttrKeys == {"k"}
MCStrFields == {"host", "service"}
=============================================================================
