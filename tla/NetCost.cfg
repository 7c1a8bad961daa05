SPECIFICATION FairSpec
CONSTANTS
  Addr = {1, 2, 3, 4}
  Channel_Count = 1
  SeqnoMod = 64
  CounterMod = 8
  RREQ_RETRIES = 1
  NET_DIAMETER = 35
  MAX_QUEUE_LENGTH = 2
  unidir_hack = FALSE
  llfeedback = TRUE
  receive_n_hellos = 0
  rreq_gratuitous = FALSE
  expanding_ring_search = TRUE
  Links <- Diamond
  Breakable = {}
  Traffic <- Flow14
  LinkCost <- Dear34
  MaxLosses = 1
  MaxExpiries = 0
INVARIANTS
  CheapestRoute
PROPERTIES
  RouteFound
CHECK_DEADLOCK FALSE
