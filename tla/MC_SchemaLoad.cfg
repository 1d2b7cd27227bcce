CONSTANTS
  TypeNames = {"A", "B"}
  DocBasicNames = {"HLAoctet", "HLAfloat64BE", "HLAbyte"}
  RefNames = {"A", "B", "HLAoctet", "HLAfloat64BE", "Missing"}
  Cardinalities = {"Dynamic", "1"}
  MemberNames = {"m"}
  EnumValues = {0}
  MaxElements = 6
  AttrTypes = {"A", "B", "Missing"}
SPECIFICATION Spec
INVARIANTS TypeOK NeverOverAligned BottomUpSweepExact ReferencesReachable
PROPERTY ChildrenThreadedIntoOpenComposite
CHECK_DEADLOCK FALSE
