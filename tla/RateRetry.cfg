SPECIFICATION Spec
CONSTANTS
  Dests = {d1, d2, d3, d4}
  Channel_Count = 3
  RREQ_RATELIMIT = 10
  RERR_RATELIMIT = 10
  RREQ_RETRIES = 2
  Window = 5
  RING_TRAVERSAL_TIME = 6
  MaxTime = 12
  MaxForwards = 0
SYMMETRY Alike
INVARIANT ReqsWereSent
CHECK_DEADLOCK FALSE
