SPECIFICATION Spec
CONSTANT MaxHandles = 2
INVARIANT CallsTheClient
CHECK_DEADLOCK FALSE
