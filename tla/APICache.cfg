\* The bridge cache with the list of lights and an unshared light.
CONSTANTS
  bridge = bridge
  lights = lights
  light = light
  NoCache = NoCache
  Caches <- MCCaches
  Base <- MCBase
  List <- MCList
  Factory <- MCFactory
  Resources <- MCResources
  Res <- MCRes
  Under <- MCUnder
  Permanent <- MCPermanent
  Durations <- MCDurations
  MaxTime = 50
  MaxLatency = 1
  MaxClock = 4
SPECIFICATION Spec
INVARIANTS FreshRead PermanentIsFound ListsAreSnapshots
PROPERTIES NoEarlyRefetch ImplementsReplica
