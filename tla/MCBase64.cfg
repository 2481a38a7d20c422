\* Every input of up to four bytes drawn from four byte patterns.
CONSTANTS
  pad = pad
  Pad <- pad
  ByteSamples <- MCByteSamples
  MaxLen = 4

SPECIFICATION Spec

INVARIANT TypeOK
INVARIANT EncodesReference

\* base64Encode returns: "done" is the end of every behaviour.
CHECK_DEADLOCK FALSE
