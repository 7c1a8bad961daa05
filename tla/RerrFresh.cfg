SPECIFICATION Spec
CONSTANTS
  Addr = {1, 2, 3}
  Channel_Count = 1
  SeqnoMod = 8
  CounterMod = 8
  RREQ_RETRIES = 1
  NET_DIAMETER = 2
  MAX_QUEUE_LENGTH = 1
  unidir_hack = FALSE
  llfeedback = FALSE
  receive_n_hellos = 0
  rreq_gratuitous = FALSE
  expanding_ring_search = TRUE
  Self = 1
  RREQs = {}
  RREPs <- FreshRreps
  RERRs <- OldRerrs
  HelloSeqno = {}
  LinkCost = {1}
  MaxSeqno = 0
  wait_on_reboot = FALSE
PROPERTIES
  RerrKeepsFreshness
