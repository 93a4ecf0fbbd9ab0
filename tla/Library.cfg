SPECIFICATION LibrarySpec
CONSTANTS
  Tick = 2
  Switch = 10
  Shift = 3
  Later = FALSE
  Patterns <- MCPatterns
  Leftover <- MCLeftover
  Objects = {1, 2}
  Parsers = {1, 2}
  Home = "CET"
  Groups <- MCGroups
  Indices = {0, 1}
  Colours <- MCColours
  MaxSockets = 2
  MaxRounds = 1
  Lists = {"lights", "scenes"}
  Addresses = {"a1", "a2"}
  Refreshes = {"r1", "r2"}
  SharedState = FALSE
  MaxUsers = 2
  Symbols = {"n", "q", "u", "b", "h", "d", "e", "x"}
  Requests <- MCRequests
  Replies <- MCReplies
  Documents <- MCDocuments
  Locations = {"l1", "l2"}
  Bridges = {"l1"}
  MaxDatagrams = 3
  Kinds = {"sensors", "lights", "groups"}
  Ids = {0, 1, 2}
  Contents <- MCContents
  Asked <- MCAsked
  MaxChanges = 3
INVARIANTS
  LibraryTypeOK
  ReadsBack
  CopiesAgree
  ZoneKept
  StreamAccounted
  CallsTellTruth
  FramesAreOurs
  OneEndpoint
  RefreshAsTold
  NothingLostOrTorn
  BridgesFound
  ObjectsFit
  SettersTell
PROPERTIES
  ConnectEnds
  SendEnds
