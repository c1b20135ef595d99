CONSTANTS
  Stacks = {s1, s2}
  Ports = {p1}
  None = None
  SessionTypes <- MCTypes
  LatencyModes = {"LOW_LATENCY"}
  CookieSize = 1
  MaxRequests = 0
  MqResults = {"good", "bad"}
  MaxLinks = 2
SPECIFICATION ProviderSpec
INVARIANT SessionOwned
PROPERTY SessionWatched
PROPERTY StartReplaces
PROPERTY DeathEndsSession
