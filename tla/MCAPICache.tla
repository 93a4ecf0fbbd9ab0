----------------------------- MODULE MCAPICache -----------------------------
(* Instances of APICache: the bridge cache, the list of lights, one light.  *)
EXTENDS APICache

CONSTANTS bridge, lights, light

MCCaches == {bridge, lights, light}
MCResources == {"all", "lights", "light"}
MCRes == [c \in MCCaches |-> CASE c = bridge -> "all"
                               [] c = lights -> "lights"
                               [] c = light -> "light"]
MCUnder == [q \in MCResources |-> CASE q = "all" -> MCResources
                                    [] q = "lights" -> {"lights", "light"}
                                    [] q = "light" -> {"light"}]
MCList == [c \in MCCaches |-> IF c = light THEN lights ELSE NoCache]

\* lights() has a LightFactory.
MCFactory == {light}

\* sharedState = false: the light is a root of its own.
MCBase == [c \in MCCaches |-> IF c = lights THEN bridge ELSE NoCache]
MCPermanent == {"all", "lights"}
MCDurations == {0, 2, MaxTime}

\* sharedState = true: the light is a third level; all resources stay.
SharedBase == [MCBase EXCEPT ![light] = lights]
SharedDurations == {2, MaxTime}
=============================================================================
