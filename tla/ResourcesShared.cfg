\* The bridge cache, a list and an item of a shared state of any class.
CONSTANTS
  bridge = bridge
  list = list
  item = item
  NoCache = NoCache
  Caches <- MCCaches
  Base <- SharedBase
  List <- MCList
  Factory <- MCFactory
  Resources <- MCResources
  Res <- MCRes
  Under <- MCUnder
  Permanent <- MCPermanent
  Durations <- MCDurations
  MaxTime = 50
  MaxLatency = 1
  MaxClock = 4
SPECIFICATION ResourceSpec
INVARIANTS ReadYourWrites
