CONSTANT MaxConnects = 2
SPECIFICATION Spec
INVARIANT AlreadyJoinedOnlyWhenMember
CHECK_DEADLOCK FALSE
