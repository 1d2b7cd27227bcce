CONSTANTS
  RefNames = {"A", "B", "HLAoctet", "HLAfloat64BE", "Missing"}
  FieldCounts = {1, 2}
  CompositeKinds = {"simple", "enumerated", "fixedArray", "dynamicArray", "fixedRecord", "variantRecord"}
  Catalogs <- MCCatalogs
SPECIFICATION Spec
INVARIANT SchemaLoadNeverAborts
CHECK_DEADLOCK FALSE
