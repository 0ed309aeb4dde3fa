CONSTANTS None = none
SPECIFICATION MCSpec
INVARIANTS  IOSafe  PrimitivesSafe
PROPERTY ImplementsFifo
CHECK_DEADLOCK FALSE
