SPECIFICATION FairSpec
CONSTANTS
  Authorities = {"org", "public"}
  SystemRoots = {"public"}
  Options <- MCOptions
  Total = 2
  Old <- LongFile
  ServerPeer <- OrgServer
INVARIANTS ExitTrue FileSane TimeoutFails
PROPERTIES SignalEnds TimeoutEnds
CHECK_DEADLOCK FALSE
