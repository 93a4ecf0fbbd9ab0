\* The bridge cache, a list and an unshared item of any class.
CONSTANTS
  bridge = bridge
  list = list
  item = item
  NoCache = NoCache
  Caches <- MCCaches
  Base <- MCBase
  List <- MCList
  Factory <- MCFactory
  Resources <- MCResources
  Res <- MCRes
  Under <- MCUnder
  Permanent <- MCPermanent
  Durations <- MCDurations
  MaxTime = 50
  MaxLatency = 1
  MaxClock = 4
SPECIFICATION ResourceSpec
INVARIANTS ResourceTypeOK ReadYourWrites CreatedIsFound RemovalNoticed
PROPERTY NeverGoesBack
VIEW Visible
