CONSTANTS None = none
SPECIFICATION MCSpec
INVARIANTS PipeSafe ConnectionSafe ServingSafe ProxySafe EndpointsSafe 
  CoordinationSafe PollSafe    MetricsSafe
PROPERTY NothingWaitsForever
CHECK_DEADLOCK FALSE
