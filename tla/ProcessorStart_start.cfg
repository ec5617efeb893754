SPECIFICATION Spec
CONSTANT N = 1
PROPERTY StartEnds
CHECK_DEADLOCK FALSE
