CONSTANTS
  TypeMap <- MCTypeMap
  SmallValues <- MCSmallValues
  AttrTypes = {"HLAinteger16LE", "Position", "Bytes", "HLAASCIIstring", "Tagged", "Track", "OnOff", "Choice"}
  MaxDynLen = 2
SPECIFICATION Spec
INVARIANTS DecodeInvertsHLALayout LocalEncodeIsLayout
CHECK_DEADLOCK FALSE
