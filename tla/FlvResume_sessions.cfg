\* Three connections of three tags; a session ends when the player leaves.
CONSTANTS
  Modulus = 400
  UpstreamTS <- SparseTS
  MaxConnections = 3
  MaxTags = 3
SPECIFICATION Spec
CHECK_DEADLOCK FALSE
PROPERTIES InStep VideoAdvances AudioAdvancesInConnection
