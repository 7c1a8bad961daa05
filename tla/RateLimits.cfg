SPECIFICATION Spec
CONSTANTS
  Dests = {d1, d2}
  Channel_Count = 2
  RREQ_RATELIMIT = 4
  RERR_RATELIMIT = 3
  RREQ_RETRIES = 1
  Window = 3
  RING_TRAVERSAL_TIME = 4
  MaxTime = 5
  MaxForwards = 3
VIEW WithoutFloods
SYMMETRY Alike
INVARIANTS RateWithinLimit DroppedOnlyAtLimit
CHECK_DEADLOCK FALSE
