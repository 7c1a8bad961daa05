SPECIFICATION FairSpec
CONSTANTS
  Addr = {1, 2}
  Channel_Count = 1
  SeqnoMod = 4
  CounterMod = 4
  RREQ_RETRIES = 1
  NET_DIAMETER = 2
  MAX_QUEUE_LENGTH = 1
  unidir_hack = TRUE
  llfeedback = FALSE
  receive_n_hellos = 2
  rreq_gratuitous = FALSE
  expanding_ring_search = TRUE
  Self = 1
  RREQs <- LinkRreqs
  RREPs = {}
  RERRs = {}
  HelloSeqno = {1}
  LinkCost = {1}
  MaxSeqno = 2
  wait_on_reboot = FALSE
INVARIANTS
  SoughtRouteUnusable
PROPERTIES
  DiscoveryEnds
