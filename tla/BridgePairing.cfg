CONSTANTS
  Timeout = 5
  Interval = 2
  Latency = 1
  Window = 5
  MaxIssued = 3
  Direct = TRUE
SPECIFICATION FairSpec
INVARIANTS PairTypeOK CredentialsAgree PressNoticed
PROPERTY RequestEnds
