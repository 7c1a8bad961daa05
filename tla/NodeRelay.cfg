SPECIFICATION Spec
CONSTANTS
  Addr = {1, 2, 3, 4}
  Channel_Count = 1
  SeqnoMod = 4
  CounterMod = 4
  RREQ_RETRIES = 1
  NET_DIAMETER = 2
  MAX_QUEUE_LENGTH = 1
  unidir_hack = FALSE
  llfeedback = FALSE
  receive_n_hellos = 0
  rreq_gratuitous = FALSE
  expanding_ring_search = TRUE
  Self = 1
  RREQs <- RelayRreqs
  RREPs <- RelayRreps
  RERRs <- RelayRerrs
  HelloSeqno = {1}
  LinkCost = {1}
  MaxSeqno = 0
  wait_on_reboot = FALSE
INVARIANTS
  InvalidRoutesWillGo
PROPERTIES
  LinkBreakReported
VIEW MCView
