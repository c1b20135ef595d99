CONSTANTS
  Stacks = {s1}
  Ports = {p1, p2}
  None = None
  Ctl = Ctl
  StreamCalls = {"resume", "pause"}
  DeviceCalls = {}
  Unsolicited = {"RECONFIGURATION"}
  SessionTypes = {"A2DP_SOFTWARE_ENCODING"}
  LatencyModes = {"LOW_LATENCY"}
  CookieSize = 2
  MaxRequests = 1
  MqResults = {"good"}
  MaxLinks = 1
SPECIFICATION Spec
SYMMETRY MCSymmetry
INVARIANT StartedHasSession
