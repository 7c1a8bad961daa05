SPECIFICATION Spec
CONSTANTS
  Hosts <- ZeroHosts
  Reach <- ZeroReach
  Channels <- OneChannel
  MAX_SEQUENCE_LEN = 4
  MAX_NEIGHBORS = 5
  BYTE = 256
  Idle = {1}
  SNRs = {3}
  MaxHellos <- ZeroHellos
  MaxInFlight = 1
  MaxBehind = 0
  MaxLosses = 0
  MaxTimeouts = 0
VIEW MCHelloView
INVARIANT HeardHasEntry
CHECK_DEADLOCK FALSE
