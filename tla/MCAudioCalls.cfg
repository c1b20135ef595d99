CONSTANTS
  MajorVersions = {2, 5, 6, 7}
  ApiVersions = {20, 30, 32}
  Handles = {1, 2}
  Word = 16
  MaxBufferSize = 8
  LatencyModeCount = 2
SPECIFICATION CallsSpec
INVARIANT HonestResult
INVARIANT ClientPictureTrue
INVARIANT PropertiesKnown
