\* Sequences of with / with_ifempty writes from any single-variant event.
CONSTANTS
  unset = unset
  Unset <- unset
  Strs <- MCStrs
  Nums <- MCNums
  AttrKeys <- MCAttrKeys
  MaxAttrs = 2
  StrFields <- MCStrFields

SPECIFICATION Spec

INVARIANT TypeOK
INVARIANT MetricExclusive
PROPERTY DefaultKeepsSet
