CONSTANTS
  TypeNames = {"A", "B"}
  DocBasicNames = {"HLAoctet"}
  RefNames = {"A", "B", "HLAoctet"}
  Cardinalities = {"Dynamic"}
  MemberNames = {"m"}
  EnumValues = {0}
  MaxElements = 2
  AttrTypes = {"A"}
SPECIFICATION Spec
INVARIANT SetEncoderNeverRaises
CHECK_DEADLOCK FALSE
