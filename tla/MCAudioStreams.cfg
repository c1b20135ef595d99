CONSTANTS
  Streams = {out, in}
  Outputs = {out}
  MajorVersions = {5, 6}
  QueueSize = 1
  MaxCount = 2
  OutCommands = {"WRITE", "GET_PRESENTATION_POSITION", "other"}
  InCommands = {"READ"}
SPECIFICATION AudioSpec
INVARIANT HalStreamLive
INVARIANT Lifetimes
INVARIANT DataMatchesReply
INVARIANT DeviceAccounts
PROPERTY DestructorEnds
PROPERTY MeetsContract
