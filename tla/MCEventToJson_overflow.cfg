\* The real buffer sizes; tags and attributes short or close to buff_size.
CONSTANTS
  BuffSize = 1024
  JsonBuffSize = 4096
  FormatLen = 93
  TagLens = {3, 1000}
  AttrLens = {1, 1000}
  FieldLens = {20}
  MaxTags = 2
  MaxAttrs = 1

SPECIFICATION Spec

INVARIANT NoOverflow
CHECK_DEADLOCK FALSE
