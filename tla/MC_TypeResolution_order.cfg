CONSTANTS
  RefNames = {"A", "B", "HLAoctet", "HLAfloat64BE"}
  FieldCounts = {1, 2}
  CompositeKinds = {"simple", "enumerated", "fixedArray", "dynamicArray", "fixedRecord", "variantRecord"}
  Catalogs <- MCCatalogs
SPECIFICATION Spec
INVARIANT AlignmentIsChildMax
CHECK_DEADLOCK FALSE
