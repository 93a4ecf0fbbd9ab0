----------------------------- MODULE MCLibrary ------------------------------
(***************************************************************************)
(* The parts of the library that share no state with each other, checked   *)
(* as the sum of their specifications: `part' is chosen in the initial     *)
(* state, that part runs, and the others stay as they began.               *)
(***************************************************************************)
EXTENDS TimePattern, TimeZone, Streaming, Endpoints, Transport, Discovery,
        Devices

VARIABLE part

Parts == {"patterns", "zone", "stream", "endpoints", "transport",
          "discovery", "devices"}

LibraryInit ==
  /\ part \in Parts
  /\ PatternInit /\ ZoneInit /\ StreamInit /\ EndpointInit
  /\ TransportInit /\ DiscoveryInit /\ DeviceInit
  \* one initial state of each part that does not run
  /\ part # "stream" => ~keyed
  /\ part # "endpoints" => /\ address = CHOOSE a \in Addresses : TRUE
                           /\ duration = CHOOSE d \in Refreshes : TRUE
  /\ part # "devices" => kind = CHOOSE k \in Kinds : TRUE

LibraryNext ==
  \/ /\ part = "patterns" /\ PatternNext
     /\ UNCHANGED <<part, zoneVars, streamVars, endpointVars, transportVars,
                    discoveryVars, deviceVars>>
  \/ /\ part = "zone" /\ ZoneNext
     /\ UNCHANGED <<part, patternVars, streamVars, endpointVars, transportVars,
                    discoveryVars, deviceVars>>
  \/ /\ part = "stream" /\ StreamNext
     /\ UNCHANGED <<part, patternVars, zoneVars, endpointVars, transportVars,
                    discoveryVars, deviceVars>>
  \/ /\ part = "endpoints" /\ EndpointNext
     /\ UNCHANGED <<part, patternVars, zoneVars, streamVars, transportVars,
                    discoveryVars, deviceVars>>
  \/ /\ part = "transport" /\ TransportNext
     /\ UNCHANGED <<part, patternVars, zoneVars, streamVars, endpointVars,
                    discoveryVars, deviceVars>>
  \/ /\ part = "discovery" /\ DiscoveryNext
     /\ UNCHANGED <<part, patternVars, zoneVars, streamVars, endpointVars,
                    transportVars, deviceVars>>
  \/ /\ part = "devices" /\ DeviceNext
     /\ UNCHANGED <<part, patternVars, zoneVars, streamVars, endpointVars,
                    transportVars, discoveryVars>>

libraryVars == <<part, patternVars, zoneVars, streamVars, endpointVars,
                 transportVars, discoveryVars, deviceVars>>

LibrarySpec == /\ LibraryInit /\ [][LibraryNext]_libraryVars
               /\ StreamFairness /\ TransportFairness

\* Every part keeps its types.
LibraryTypeOK ==
  /\ part \in Parts
  /\ PatternTypeOK /\ ZoneTypeOK /\ StreamTypeOK /\ EndpointTypeOK
  /\ TransportTypeOK /\ DiscoveryTypeOK /\ DeviceTypeOK

----------------------------------------------------------------------------
(* Instances.                                                              *)

\* Two ticks to the second; the clocks go back three seconds at the tenth.
Absolute(base, variation) ==
  [type |-> "absolute", base |-> base, variation |-> variation]
Daily(time, days, variation) ==
  [type |-> "recurring", time |-> time, days |-> days, variation |-> variation]
Interval(start, end, days) ==
  [type |-> "interval", start |-> start, end |-> end, days |-> days]
Timer(expires, num, variation) ==
  [type |-> "timer", expires |-> expires, num |-> num, variation |-> variation]

MCPatterns ==
  {Absolute(17, 1), Absolute(20, 7322), Absolute(33, Hours(24)),
   Daily(7323, {0, 2}, 0), Daily(Hours(24), Weekdays, 122),
   Interval(0, 7322, Weekdays), Interval(7323, Hours(24) + 1, {}),
   Timer(7323, 1, 0), Timer(122, 9, 122), Timer(122, 256, 0)}
MCLeftover == {0, Hours(30)}

\* Two lights, one with an id of two bytes; and more lights than a byte counts.
MCGroups  == {<<1, 258>>, [i \in 1..257 |-> i]}
MCColours == {<<255, 0, 7>>}

\* Symbols: ends of line "n", and text.
MCRequests  == {<<"q", "u">>, <<"q", "n", "n", "b">>}
MCReplies   == {<<"h", "n", "n", "d", "e">>,
                <<"h", "n", "h", "n", "n", "d", "n", "n", "e">>,
                <<"h", "n", "x">>, <<"n", "n">>}
MCDocuments == {<<"d", "e">>, <<"d", "n", "n", "e">>}

MCContents ==
  [sensors |-> {Resource("ZLLPresence", "", "", {"battery"}),
                Resource("CLIPLightLevel", "", "", {})},
   lights  |-> {Resource("extended color light", "C", "LCT015", {}),
                Resource("color light", "", "LLC011", {}),
                Resource("color temperature light", "", "LTW001", {}),
                Resource("unknown", "", "", {})},
   groups  |-> {Resource("Room", "", "", {})}]
MCAsked == {AnySensor, ZLLPresence, CLIPLightLevel}
=============================================================================
