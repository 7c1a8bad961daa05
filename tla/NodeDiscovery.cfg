SPECIFICATION Spec
CONSTANTS
  Addr = {1, 2, 3}
  Channel_Count = 1
  SeqnoMod = 4
  CounterMod = 4
  RREQ_RETRIES = 1
  NET_DIAMETER = 2
  MAX_QUEUE_LENGTH = 1
  unidir_hack = FALSE
  llfeedback = TRUE
  receive_n_hellos = 0
  rreq_gratuitous = FALSE
  expanding_ring_search = TRUE
  Self = 1
  RREQs <- DiscoveryRreqs
  RREPs <- DiscoveryRreps
  RERRs = {}
  HelloSeqno = {}
  LinkCost = {1}
  MaxSeqno = 3
  wait_on_reboot = TRUE
INVARIANTS
  TypeOK
  SoughtRouteUnusable
  BufferedPacketsAwaitDiscovery
  QueueWithinLimit
PROPERTIES
  KnownStaysKnown
VIEW MCView
