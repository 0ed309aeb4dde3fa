CONSTANTS
  MaxRequests = 2
  MaxChunks = 1
  StreamPipelined = TRUE
SPECIFICATION Spec
INVARIANT ResponsesInOrder
CHECK_DEADLOCK FALSE
