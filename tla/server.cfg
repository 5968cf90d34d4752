SPECIFICATION FairSpec
CONSTANTS
  Authorities = {"org", "public"}
  SystemRoots = {"public"}
  Calls = {c1, c2}
  Configs <- MCConfigs
  Clients <- MCClients
INVARIANTS DbClosed StatusTrue CleanShutdown
PROPERTIES NoCallDropped ShutdownEnds
CHECK_DEADLOCK FALSE
