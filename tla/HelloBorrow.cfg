SPECIFICATION Spec
CONSTANTS
  Hosts <- MiddleHosts
  Reach <- MiddleReach
  Channels <- OneChannel
  MAX_SEQUENCE_LEN = 4
  MAX_NEIGHBORS = 5
  BYTE = 256
  Idle = {1}
  SNRs = {3}
  MaxHellos <- MiddleHellos
  MaxInFlight = 1
  MaxBehind = 1
  MaxLosses = 0
  MaxTimeouts = 0
VIEW MCHelloView
INVARIANT RemoteReceivedIsReal
CHECK_DEADLOCK FALSE
