CONSTANTS
  Timeout = 3
  Interval = 1
  Latency = 1
  Window = 4
  MaxIssued = 2
  Direct = FALSE
SPECIFICATION Spec
INVARIANT OneUsernamePerBridge
