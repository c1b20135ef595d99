CONSTANTS
  SessionTypes = {"LE_DECODED", "A2DP_SOFTWARE", "A2DP_OFFLOAD", "LE_OFFLOAD"}
  CookieSize = 1
  QueueSize = 1
  Interval = 3
  StatePolls = 2
  FmqPolls = 1
  ReadBytes = 2
  FrameSize = 2
  Latency = 1
  MaxFrames = 1
SPECIFICATION Spec
INVARIANT ReadyHasConfig
INVARIANT NoDanglingPort
INVARIANT InputKnowsSession
INVARIANT StandbyHeeded
INVARIANT PositionSane
PROPERTY CallsReturn
