CONSTANTS
  Extensibility = {FALSE, TRUE}
  RemoteLists <- MCRemoteLists
  Hints <- MCHints
  Foreign <- MCForeign
  Legacy <- MCLegacy
  NoValue = NoValue
SPECIFICATION CodecsSpec
INVARIANT ProposalAccepted
INVARIANT ChosenByBoth
INVARIANT BitpoolExact
INVARIANT RateUnderHint
INVARIANT FallsBack
INVARIANT AdvertisedIsAccepted
