\* Requests whose keys and values contain "&" or "=", escaped by the client.
CONSTANTS
  noreq = noreq
  NoReq <- noreq
  Letters <- MCLetters
  Paths <- MCPaths
  Words <- MCWordsReserved
  MaxPairs = 1
  MaxLen = 0
  CurlInit = {TRUE}

SPECIFICATION Spec

INVARIANT ParamsFromPairs

CHECK_DEADLOCK FALSE
