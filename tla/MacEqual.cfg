SPECIFICATION AnswerSpec
CONSTANTS
  NONE = NONE
  peer1 = peer1
  MaxFrames = 2
  Peer = {peer1}
  Pkt <- EqualPkts
  Frame <- AnswerFrames
  RTSThreshold = 2
  ShortRetryLimit = 2
  LongRetryLimit = 2
  CWMin = 1
  CWMax = 3
  SeqMod = 2
  bugFix_timer_ = TRUE
PROPERTIES
  LinkServed
