\* Every uri of up to four tokens, and every request of up to two pairs of
\* plain words; curl_easy_init may fail.
CONSTANTS
  noreq = noreq
  NoReq <- noreq
  Letters <- MCLetters
  Paths <- MCPaths
  Words <- MCWords
  MaxPairs = 2
  MaxLen = 4
  CurlInit = {TRUE, FALSE}

SPECIFICATION Spec

INVARIANT JunkIrrelevant
INVARIANT ParamsFromPairs

\* parse_uri runs once per uri: a parsed uri is the end of a behaviour.
CHECK_DEADLOCK FALSE
