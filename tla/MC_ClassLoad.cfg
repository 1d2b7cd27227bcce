CONSTANTS
  Kinds = {"objectClass", "interactionClass"}
  MaxClasses = 4
  MaxMembers = 4
  MaxCalls = 1
SPECIFICATION LoadSpec
INVARIANTS LoadTypeOK InstanceSlotsAreEffective
PROPERTY InheritedMembersComplete
CHECK_DEADLOCK FALSE
