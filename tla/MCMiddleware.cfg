CONSTANTS
  Stacks = {s1, s2}
  Ports = {p1, p2}
  None = None
  LegacyTypes = {"A2DP_SOFTWARE_ENCODING", "A2DP_HARDWARE_OFFLOAD", "LE_AUDIO_HARDWARE_OFFLOAD_ENCODING"}
  SessionTypes <- MCTypes
  LatencyModes = {"LOW_LATENCY"}
  CookieSize = 1
  MaxRequests = 1
  PcmContents <- MCPcm
  CodecContents <- MCCodec
  LeContents <- MCLe
SPECIFICATION MiddlewareSpec
\* The program ends at LOG(FATAL).
CHECK_DEADLOCK FALSE
SYMMETRY MCSymmetry
PROPERTY ChangeAnnounced
INVARIANT KnownUnlessCrossed
INVARIANT NoStrayCallback
INVARIANT ConfigArrives
