CONSTANTS
  Kinds = {"objectClass", "interactionClass"}
  MaxClasses = 4
  MaxMembers = 4
  MaxCalls = 2
SPECIFICATION Spec
INVARIANT ParseNeverRaises
CHECK_DEADLOCK FALSE
