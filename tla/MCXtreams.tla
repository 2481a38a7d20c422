----------------------------- MODULE MCXtreams -----------------------------
(* Four function nodes and one fan-out node and lists of up to four.       *)
EXTENDS Xtreams

CONSTANTS a, b, c, d, j, null, overflow

MCFnNodes == {a, b, c, d}
MCJoinNodes == {j}
=============================================================================
