SPECIFICATION Spec
CONSTANTS
  Addr = {1, 2, 3}
  Channel_Count = 1
  SeqnoMod = 64
  CounterMod = 8
  RREQ_RETRIES = 1
  NET_DIAMETER = 35
  MAX_QUEUE_LENGTH = 2
  unidir_hack = FALSE
  llfeedback = TRUE
  receive_n_hellos = 0
  rreq_gratuitous = FALSE
  expanding_ring_search = TRUE
  Links <- Line3
  Breakable <- Pair23
  Traffic <- Flows13And23
  LinkCost <- Even
  MaxLosses = 1
  MaxExpiries = 1
INVARIANTS
  LoopFree
  MessagesAsAssumed
CHECK_DEADLOCK FALSE
