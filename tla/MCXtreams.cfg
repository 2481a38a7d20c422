\* Callers that extend only the tails of their lists, without cycles.
CONSTANTS
  a = a
  b = b
  c = c
  d = d
  j = j
  null = null
  overflow = overflow
  FnNodes <- MCFnNodes
  JoinNodes <- MCJoinNodes
  Null <- null
  Overflow <- overflow
  MaxListLen = 4
  Rules = {"fn_tail", "tails_only", "acyclic"}

SPECIFICATION Spec

INVARIANT TypeOK
INVARIANT ChainDelivery
