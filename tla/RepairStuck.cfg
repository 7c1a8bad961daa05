SPECIFICATION RepairSpec
CONSTANTS
  Addr = {1, 2, 3, 4}
  Channel_Count = 1
  SeqnoMod = 16
  CounterMod = 16
  RREQ_RETRIES = 1
  NET_DIAMETER = 10
  MAX_QUEUE_LENGTH = 1
  unidir_hack = FALSE
  llfeedback = TRUE
  receive_n_hellos = 0
  rreq_gratuitous = FALSE
  expanding_ring_search = TRUE
  Self = 1
  RREQs = {}
  RREPs = {}
  RERRs = {}
  HelloSeqno = {}
  LinkCost = {1}
  MaxSeqno = 1
  wait_on_reboot = FALSE
  History <- RelayHistory
  Arrivals <- MendArrivals
  HelloFrom = {}
  Traffic <- RelayTraffic
INVARIANTS
  NoPacketLeftBehind
VIEW MCRepairView
