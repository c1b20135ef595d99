CONSTANTS
  Stacks = {s1}
  Ports = {p1}
  None = None
  Ctl = Ctl
  StreamCalls = {"write", "standby", "pause", "resume", "closing"}
  DeviceCalls = {"suspend", "unsuspend"}
  Unsolicited = {"RECONFIGURATION"}
  SessionTypes = {"A2DP_SOFTWARE_ENCODING", "HEARING_AID_SOFTWARE_ENCODING"}
  LatencyModes = {"LOW_LATENCY"}
  CookieSize = 1
  MaxRequests = 2
  MqResults = {"good"}
  MaxLinks = 1
SPECIFICATION Spec
INVARIANT NoUseAfterFree
INVARIANT OpenStreamHears
INVARIANT StartedHasSession
