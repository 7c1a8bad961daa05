SPECIFICATION FairSpec
CONSTANTS
  Addr = {1, 2, 3}
  Channel_Count = 1
  SeqnoMod = 64
  CounterMod = 8
  RREQ_RETRIES = 2
  NET_DIAMETER = 35
  MAX_QUEUE_LENGTH = 2
  unidir_hack = FALSE
  llfeedback = TRUE
  receive_n_hellos = 0
  rreq_gratuitous = FALSE
  expanding_ring_search = TRUE
  Links <- Line3
  Breakable = {}
  Traffic <- OneFlow
  LinkCost <- Even
  MaxLosses = 2
  MaxExpiries = 0
PROPERTIES
  RouteFound
CHECK_DEADLOCK FALSE
