CONSTANTS
  TypeMap <- MCTypeMap
  SmallValues <- MCSmallValues
  AttrTypes = {"Track"}
  MaxDynLen = 2
SPECIFICATION Spec
INVARIANT DecodesSpecPeer
CHECK_DEADLOCK FALSE
