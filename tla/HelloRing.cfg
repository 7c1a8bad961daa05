SPECIFICATION Spec
CONSTANTS
  Hosts <- PairHosts
  Reach <- PairReach
  Channels <- OneChannel
  MAX_SEQUENCE_LEN = 3
  MAX_NEIGHBORS = 4
  BYTE = 256
  Idle = {1}
  SNRs = {3}
  MaxHellos <- PairHellos
  MaxInFlight = 2
  MaxBehind = 3
  MaxLosses = 1
  MaxTimeouts = 2
INVARIANTS TypeOK RingIsHistory RemoteReceivedIsReal NeighborChangeCounted HeardHasEntry
CHECK_DEADLOCK FALSE
