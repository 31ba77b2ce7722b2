\* Audio across a reconnection, far from the end of the range.
CONSTANTS
  Modulus = 400
  UpstreamTS <- AheadTS
  MaxConnections = 2
  MaxTags = 3
SPECIFICATION Spec
CHECK_DEADLOCK FALSE
PROPERTIES AudioAdvances
