\* The bridge cache with the list of lights and a light of a shared state.
CONSTANTS
  bridge = bridge
  lights = lights
  light = light
  NoCache = NoCache
  Caches <- MCCaches
  Base <- SharedBase
  List <- MCList
  Factory <- MCFactory
  Resources <- MCResources
  Res <- MCRes
  Under <- MCUnder
  Permanent <- MCResources
  Durations <- SharedDurations
  MaxTime = 50
  MaxLatency = 1
  MaxClock = 4
SPECIFICATION Spec
INVARIANTS ListReads
