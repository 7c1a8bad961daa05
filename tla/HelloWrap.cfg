SPECIFICATION Spec
CONSTANTS
  Hosts <- PairHosts
  Reach <- PairReach
  Channels <- OneChannel
  MAX_SEQUENCE_LEN = 10
  MAX_NEIGHBORS = 4
  BYTE = 256
  Idle = {1}
  SNRs = {3}
  MaxHellos <- WrapHellos
  MaxInFlight = 1
  MaxBehind = 0
  MaxLosses = 0
  MaxTimeouts = 0
VIEW MCHelloView
INVARIANT RingIsHistory
CHECK_DEADLOCK FALSE
