\* with() of an attribute the event already carries.
CONSTANTS
  unset = unset
  Unset <- unset
  Strs <- MCStrs
  Nums <- MCNums
  AttrKeys <- MCAttrKeys
  MaxAttrs = 2
  StrFields <- MCStrFields

SPECIFICATION Spec

PROPERTY WithOverrides
