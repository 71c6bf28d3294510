SPECIFICATION FairSpec
CONSTANTS
  StopAttempts = 3
  MaxStops = 3
  Owners = {o1, o2}
  Conns = {1, 2}
  UserTabs = {"u"}
  FreshTabs = {"f"}
  MaxAsked = 2
  ShimTabs = {1}
  MaxCommands = 2
  MaxEvents = 2
  Hosts = {1, 2}
  HostRuns = {1, 2}
  MaxLines = 1
  FilmTabs = {"s1", "s2"}
  MaxSent = 2
  MaxTyped = 3
  FetchUrls <- Addresses
  FetchGrant = {"a"}
  MaxRedirects = 2
  BlockLengths <- Documents
  MaxFetchCalls = 2
INVARIANTS
  BrowsersKept
  ExtensionLetsGo
  RecordingKept
  FetchKept
PROPERTIES
  NothingHeldUp
CHECK_DEADLOCK FALSE
