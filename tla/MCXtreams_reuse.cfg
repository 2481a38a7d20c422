\* Callers that reuse a node of an earlier list, as the streams test does.
CONSTANTS
  a = a
  b = b
  c = c
  d = d
  j = j
  null = null
  overflow = overflow
  FnNodes <- MCFnNodes
  JoinNodes <- MCJoinNodes
  Null <- null
  Overflow <- overflow
  MaxListLen = 4
  Rules = {"fn_tail", "acyclic"}

SPECIFICATION Spec

INVARIANT ChainDelivery
