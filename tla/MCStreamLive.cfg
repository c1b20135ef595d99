CONSTANTS
  Stacks = {s1}
  Ports = {p1}
  None = None
  Ctl = Ctl
  StreamCalls = {"write", "standby"}
  DeviceCalls = {"suspend"}
  Unsolicited = {"RECONFIGURATION"}
  SessionTypes = {"A2DP_SOFTWARE_ENCODING"}
  LatencyModes = {"LOW_LATENCY"}
  CookieSize = 1
  MaxRequests = 1
  MqResults = {"good"}
  MaxLinks = 1
SPECIFICATION FairSpec
PROPERTY CallsReturn
