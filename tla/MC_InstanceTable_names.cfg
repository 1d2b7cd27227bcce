CONSTANTS
  h1 = h1  h2 = h2  h3 = h3  n1 = n1  n2 = n2  v1 = v1
  Empty = Empty
  Handles <- MCHandles
  Names <- MCNames
  Values <- MCValues
  MaxUpdates = 1
SPECIFICATION Spec
INVARIANT NameLookupFindsInstance
CHECK_DEADLOCK FALSE
