------------------------------ MODULE Devices ------------------------------
(***************************************************************************)
(* Sensors, lights and groups as objects of the right class: what          *)
(* SensorList, LightFactory and GroupResourceList make of the JSON of a    *)
(* list, which getters of the object can answer, and what its setters ask  *)
(* of the bridge.  Objects have caches of their own (no shared state); when *)
(* a cache is outdated is left open here, APICache decides it.             *)
(***************************************************************************)
EXTENDS Integers

CONSTANTS Kinds,       \* lists looked at, of "sensors", "lights", "groups"
          Ids,         \* ids in such a list; 0 is the group of all lights
          Contents,    \* for each list, the resources that may be in it
          Asked,       \* the sensor classes programs ask for
          MaxChanges   \* bound: changes other clients make

Resource(name, gamut, model, lacks) ==
  [name |-> name, gamut |-> gamut, model |-> model, lacks |-> lacks]

Absent == Resource("", "", "", {})
Null   == Resource("null", "", "", {})   \* the JSON array [null]
AllLights == Resource("group 0", "", "", {})

\* What the bridge lists has a type.
ASSUME ListsAssumption ==
  /\ Kinds \subseteq {"sensors", "lights", "groups"}
  /\ Ids \subseteq Nat
  /\ \A k \in Kinds : \A r \in Contents[k] : r \notin {Absent, Null}
  /\ MaxChanges \in Nat

----------------------------------------------------------------------------
(* The classes of sensors: the attributes that getters find with at(), of  *)
(* those the ones a has...() function asks for, the ones that have a       *)
(* default when they are missing, and those set with a PUT to "/config"    *)
(* and to "/state".                                                        *)

Class(type, reads, optional, defaults, configures, sets) ==
  [type |-> type, reads |-> reads, optional |-> optional,
   defaults |-> defaults, configures |-> configures, sets |-> sets]

\* Sensor, for sensors of unknown types.
GenericGetters == {"on", "battery", "alert", "url", "ledindication", "usertest"}

AnySensor ==
  Class("", GenericGetters, GenericGetters, {"reachable", "lastupdated"},
        {"on", "battery", "alert", "usertest", "url", "ledindication"}, {})

DaylightGetters ==
  {"on", "battery", "configured", "sunriseoffset", "sunsetoffset", "daylight"}

DaylightSensor ==
  Class("Daylight", DaylightGetters, {"battery"}, {"lastupdated"},
        {"on", "battery", "lat", "long", "sunriseoffset", "sunsetoffset"}, {})

ZGPSwitchGetters == {"on", "buttonevent"}

ZGPSwitch == Class("ZGPSwitch", ZGPSwitchGetters, {}, {}, {"on"}, {})

ZLLSwitchGetters == {"on", "battery", "alert", "reachable", "buttonevent"}

ZLLSwitch == Class("ZLLSwitch", ZLLSwitchGetters, {"battery"}, {"lastupdated"},
                   {"on", "alert"}, {})

ZLLPresenceGetters == {"on", "battery", "alert", "reachable", "sensitivity",
                       "sensitivitymax", "presence"}

ZLLPresence == Class("ZLLPresence", ZLLPresenceGetters, {"battery"},
                     {"lastupdated"}, {"on", "alert", "sensitivity"}, {})

ZLLTemperatureGetters == {"on", "battery", "alert", "reachable", "temperature"}

ZLLTemperature == Class("ZLLTemperature", ZLLTemperatureGetters, {"battery"},
                        {"lastupdated"}, {"on", "alert"}, {})

ZLLLightLevelGetters == {"on", "battery", "reachable", "tholddark",
                         "tholdoffset", "lightlevel", "dark", "daylight"}

ZLLLightLevel == Class("ZLLLightLevel", ZLLLightLevelGetters, {"battery"},
                       {"lastupdated"}, {"on", "tholddark", "tholdoffset"}, {})

\* The CLIP sensors: what BaseCLIP has, and what each class adds.  Programs
\* may set their states.
BaseCLIPGetters == {"on", "battery", "reachable", "url"}

CLIP(type, config, states, sets) ==
  Class(type, BaseCLIPGetters \cup config \cup states,
        {"battery", "url"}, {"lastupdated"},
        {"on", "battery", "url"} \cup config, sets)

CLIPLightStates == {"lightlevel", "dark", "daylight"}

CLIPSwitch        == CLIP("CLIPSwitch", {}, {"buttonevent"}, {"buttonevent"})
CLIPOpenClose     == CLIP("CLIPOpenClose", {}, {"open"}, {"open"})
CLIPPresence      == CLIP("CLIPPresence", {}, {"presence"}, {"presence"})
CLIPTemperature   == CLIP("CLIPTemperature", {}, {"temperature"}, {"temperature"})
CLIPHumidity      == CLIP("CLIPHumidity", {}, {"humidity"}, {"humidity"})
CLIPLightLevel    == CLIP("CLIPLightLevel", {"tholddark", "tholdoffset"},
                          CLIPLightStates, {"lightlevel"})
CLIPGenericFlag   == CLIP("CLIPGenericFlag", {}, {"flag"}, {"flag"})
CLIPGenericStatus == CLIP("CLIPGenericStatus", {}, {"status"}, {"status"})

Classes == {AnySensor, DaylightSensor, ZGPSwitch, ZLLSwitch, ZLLPresence,
            ZLLTemperature, ZLLLightLevel, CLIPSwitch, CLIPOpenClose,
            CLIPPresence, CLIPTemperature, CLIPHumidity, CLIPLightLevel,
            CLIPGenericFlag, CLIPGenericStatus}

ASSUME AskedAssumption == Asked \subseteq Classes

\* The attributes the bridge has for a sensor: those of its type that it
\* does not lack.
Attributes(r) ==
  (UNION {c.reads \cup c.defaults : c \in {k \in Classes : k.type = r.name}})
    \ r.lacks

\* What a getter of class c answers from the data r.
Answer(c, r, attribute) ==
  IF attribute \in Attributes(r) THEN "value"
  ELSE IF attribute \in c.defaults THEN "default" ELSE "out_of_range"

----------------------------------------------------------------------------
(* LightFactory: the controls and the colour type of a light.              *)

GamutA == {"LST001", "LLC005", "LLC006", "LLC007", "LLC010", "LLC011",
           "LLC012", "LLC013", "LLC014"}
GamutB == {"LCT001", "LCT002", "LCT003", "LCT007", "LLM001"}
GamutC == {"LCT010", "LCT011", "LCT012", "LCT014", "LCT015", "LCT016",
           "LLC020", "LST002", "LCA003", "LCB001"}

\* getColorType, without the suffix _TEMPERATURE: the capabilities decide,
\* and if there are none the model.
ColorType(r) ==
  IF r.gamut # "" THEN IF r.gamut \in {"A", "B", "C"} THEN r.gamut ELSE "OTHER"
  ELSE IF r.model \in GamutA THEN "A"
  ELSE IF r.model \in GamutB THEN "B"
  ELSE IF r.model \in GamutC THEN "C" ELSE "UNDEFINED"

Light(brightness, temperature, colour, colorType) ==
  [brightness |-> brightness, temperature |-> temperature, colour |-> colour,
   colorType |-> colorType]

\* createLight: the strategies by the type, or NoLight when it throws.
NoLight == Light("", "", "", "")

Strategies(r) ==
  CASE r.name \in {"on/off light", "on/off plug-in unit"} ->
         Light("none", "none", "none", "NONE")
    [] r.name \in {"dimmable light", "dimmable plug-in unit"} ->
         Light("simple", "none", "none", "NONE")
    [] r.name = "color temperature light" ->
         Light("simple", "simple", "none", "TEMPERATURE")
    [] r.name = "color light" ->
         Light("simple", "none", "simple", ColorType(r))
    [] r.name = "extended color light" ->
         Light("simple", "extended", "extended", ColorType(r))
    [] OTHER -> NoLight

\* The functions of a light, by the strategy they go to; each group includes
\* the getters that answer 0 without it.
BrightnessCalls   == {"setBrightness"}
TemperatureCalls  == {"setColorTemperature"}
HueCalls          == {"setColorHue", "setColorSaturation", "setColorHueSaturation"}
XYCalls           == {"setColorXY", "setColorRGB"}
TemperatureAlerts == {"alertTemperature"}
ColourAlerts      == {"alertHueSaturation", "alertXY", "setColorLoop"}

LightCalls == BrightnessCalls \cup TemperatureCalls \cup TemperatureAlerts
                \cup HueCalls \cup XYCalls \cup ColourAlerts

Control(f) == IF f \in BrightnessCalls THEN "brightness"
              ELSE IF f \in TemperatureCalls \cup TemperatureAlerts
              THEN "temperature" ELSE "colour"

HasControl(light, f) == light[Control(f)] # "none"

----------------------------------------------------------------------------
(* The state.                                                              *)

Idle == [op |-> "none", todo |-> {}]

None == [made |-> Absent, data |-> Absent, light |-> NoLight]

NoRequest == [path |-> "none", attribute |-> "none"]

VARIABLES kind,     \* the list
          bridge,   \* the resources at the bridge
          listed,   \* the JSON in the list's cache
          class,    \* the class of the sensors that were asked for last
          held,     \* the objects of the last call, or None
          call,     \* getAll or getAllByType in progress
          copy,     \* its copy of the list's JSON
          request,  \* the PUT that the last setter has made
          said,     \* the last call and how it ended
          changes   \* bound: how often the bridge has changed

deviceVars == <<kind, bridge, listed, class, held, call, copy, request, said,
                changes>>

NoResources == [i \in Ids |-> Absent]
NoObjects   == [i \in Ids |-> None]

DeviceInit ==
  /\ kind \in Kinds
  /\ bridge = NoResources
  /\ listed = NoResources
  /\ class = AnySensor
  /\ held = NoObjects
  /\ call = Idle
  /\ copy = NoResources
  /\ request = NoRequest
  /\ said = [call |-> "none", on |-> "", answer |-> "returned"]
  /\ changes = 0

Said(c, on, answer) == said' = [call |-> c, on |-> on, answer |-> answer]

\* Other clients and the bridge add, remove and replace resources.
OthersReplace(i) ==
  /\ changes < MaxChanges /\ i # 0
  /\ \E r \in Contents[kind] \cup {Absent} :
       r # bridge[i] /\ bridge' = [bridge EXCEPT ![i] = r]
  /\ changes' = changes + 1
  /\ UNCHANGED <<kind, listed, class, held, call, copy, request, said>>

----------------------------------------------------------------------------
(* Obtaining objects.                                                      *)

\* getValue() of the list: a refresh when it is outdated.
ListValue == listed' \in {listed, bridge}

\* What the bridge answers about i.  Group 0 is not in its list.
Served(i) == IF i = 0 THEN AllLights ELSE bridge[i]

\* The data of an object made from r: those, or, when its cache is outdated
\* at once, the bridge's.
Seeded(i, r) == {r} \cup ({Served(i)} \ {Absent})

\* Mutant: the type of a sensor is not checked.
FitsAny(c, r) == kind = "lights" => Strategies(r) # NoLight

\* SensorList's asSensorType, and createLight: does the resource have the
\* type that is asked for, or one that is known?
Fits(c, r) == CASE kind = "sensors" -> c.type \in {"", r.name}
                [] kind = "lights"  -> Strategies(r) # NoLight
                [] OTHER            -> TRUE

\* get(i) from the JSON r: the object that is made, or why it throws.  The
\* strategies of a light are those of r, the type of a sensor that of its
\* data.
Constructed(i, r, d, c) ==
  [made |-> IF kind = "sensors" THEN d ELSE r, data |-> d,
   light |-> IF kind = "lights" THEN Strategies(r) ELSE NoLight]

Refusal(i, r, d, c) ==
  IF r = Absent THEN "no such id"
  ELSE IF ~Fits(c, IF kind = "sensors" THEN d ELSE r) THEN "wrong type"
  ELSE "returned"

\* A call of get or getAsType.  Group 0 is made from [null] whatever the list
\* has.
Get(i, c) ==
  /\ call = Idle
  /\ kind # "sensors" => c = AnySensor
  /\ ListValue
  /\ class' = c
  /\ \E r \in {IF kind = "groups" /\ i = 0 THEN Null ELSE listed'[i]} :
       \E d \in Seeded(i, r) :
         /\ Said("get", "", Refusal(i, r, d, c))
         /\ held' = IF Refusal(i, r, d, c) = "returned"
                      THEN [NoObjects EXCEPT ![i] = Constructed(i, r, d, c)]
                      ELSE NoObjects
  /\ request' = NoRequest
  /\ copy' = NoResources
  /\ UNCHANGED <<kind, bridge, call, changes>>

\* getAll goes through the list's own JSON, getAllByType through a copy and
\* passes over what is of another type in it.
GetMany(op, c) ==
  /\ call = Idle
  /\ op = "getAllByType" => kind = "sensors" /\ c # AnySensor
  /\ op = "getAll" => c = AnySensor
  /\ ListValue
  /\ copy' = listed'
  /\ class' = c
  /\ held' = NoObjects
  /\ call' = [op |-> op, todo |-> {i \in Ids : /\ listed'[i] # Absent
                                               /\ c.type \in {"", listed'[i].name}}]
  /\ Said(op, "", "begun")
  /\ request' = NoRequest
  /\ UNCHANGED <<kind, bridge, changes>>

\* The next object: getAll makes it of the JSON, getAllByType calls get(i).
\* The first one that throws ends the call, and what it had is lost.
GetNext ==
  /\ call.todo # {}
  /\ IF call.op = "getAllByType" THEN ListValue ELSE UNCHANGED listed
  /\ LET i == CHOOSE j \in call.todo : \A k \in call.todo : j <= k
         r == listed'[i]
     IN  \E d \in Seeded(i, r) :
           IF Refusal(i, r, d, class) = "returned"
             THEN /\ held' = [held EXCEPT ![i] = Constructed(i, r, d, class)]
                  /\ call' = [call EXCEPT !.todo = @ \ {i}]
                  /\ UNCHANGED said
             ELSE /\ held' = NoObjects
                  /\ call' = Idle
                  /\ Said(call.op, IF {listed', bridge} = {copy} THEN "" ELSE "changed",
                          Refusal(i, r, d, class))
  /\ UNCHANGED <<kind, bridge, class, copy, request, changes>>

\* The last one has been made.
GotAll ==
  /\ call.op # "none" /\ call.todo = {}
  /\ call' = Idle
  /\ Said(call.op, "", "returned")
  /\ UNCHANGED <<kind, bridge, listed, class, held, copy, request, changes>>

\* A request fails or is answered with an error: what the call has made is
\* lost.
GetFails ==
  /\ call' = Idle
  /\ held' = NoObjects
  /\ Said(IF call = Idle THEN "get" ELSE call.op, "", "failed")
  /\ request' = NoRequest
  /\ UNCHANGED <<kind, bridge, listed, class, copy, changes>>

----------------------------------------------------------------------------
(* Using them.                                                             *)

Held(i) == call = Idle /\ held[i] # None

\* The object's cache is refreshed, by refresh() or a getter that is not
\* const.  The bridge answers an error if the resource is gone.
RefreshObject(i) ==
  /\ Held(i)
  /\ Served(i) # Absent
  /\ held' = [held EXCEPT ![i].data = Served(i)]
  /\ Said("refresh", "", "returned")
  /\ request' = NoRequest
  /\ UNCHANGED <<kind, bridge, listed, class, call, copy, changes>>

\* A setter of a sensor: a PUT to its section.
SetSensor(i, attribute) ==
  /\ Held(i) /\ kind = "sensors"
  /\ attribute \in class.configures \cup class.sets
  /\ request' = [path |-> IF attribute \in class.configures THEN "/config"
                                                            ELSE "/state",
                 attribute |-> attribute]
  /\ Said("set", attribute, IF bridge[i] = Absent THEN "API error" ELSE "returned")
  /\ UNCHANGED <<kind, bridge, listed, class, held, call, copy, changes>>

\* A function of a light: nothing without the strategy, else what the
\* strategy does: a request, unless all of it is trimmed away (LightControl).
UseLight(i, f) ==
  /\ Held(i) /\ kind = "lights"
  /\ IF HasControl(held[i].light, f)
       THEN \E r \in {NoRequest, [path |-> "/state", attribute |-> Control(f)]} :
              /\ request' = r
              /\ Said("use", Control(f), IF r # NoRequest /\ bridge[i] = Absent
                                           THEN "API error" ELSE "returned")
       ELSE /\ request' = NoRequest
            /\ Said("use", Control(f), "false")
  /\ UNCHANGED <<kind, bridge, listed, class, held, call, copy, changes>>

\* A const getter of a group.  The array [null] has no members.
ReadGroup(i) ==
  /\ Held(i) /\ kind = "groups"
  /\ Said("read", "", IF held[i].data = Null THEN "type_error" ELSE "returned")
  /\ request' = NoRequest
  /\ UNCHANGED <<kind, bridge, listed, class, held, call, copy, changes>>

\* The setters of a group: transactions and their commit, but for
\* setColorLoop, whose transaction is dropped; and setScene, a PUT.
GroupAttributes == {"on", "bri", "hue", "xy", "ct", "effect", "scene"}

SetGroup(i, attribute) ==
  /\ Held(i) /\ kind = "groups" /\ attribute \in GroupAttributes
  /\ IF attribute = "effect"
       THEN /\ request' = NoRequest
            /\ Said("set", attribute, "returned")
       ELSE /\ request' = [path |-> "/action", attribute |-> attribute]
            /\ Said("set", attribute,
                    IF Served(i) = Absent THEN "API error" ELSE "returned")
  /\ UNCHANGED <<kind, bridge, listed, class, held, call, copy, changes>>

\* Mutant: setName looks for the name under the path of a sensor.
SetNameAnyPath(i) ==
  /\ Held(i) /\ kind \in {"sensors", "lights"}
  /\ request' = [path |-> "/name", attribute |-> "name"]
  /\ Said("setName", "", IF bridge[i] = Absent THEN "API error"
                         ELSE IF kind = "lights" THEN "false" ELSE "true")
  /\ UNCHANGED <<kind, bridge, listed, class, held, call, copy, changes>>

\* BaseDevice::setName: the bridge confirms the name under the path of the
\* resource; the code looks for it under that of a light.
SetName(i) ==
  /\ Held(i) /\ kind \in {"sensors", "lights"}
  /\ request' = [path |-> "/name", attribute |-> "name"]
  /\ Said("setName", "", IF bridge[i] = Absent THEN "API error"
                         ELSE IF kind = "lights" THEN "true" ELSE "false")
  /\ UNCHANGED <<kind, bridge, listed, class, held, call, copy, changes>>

DeviceNext ==
  \/ GetNext
  \/ GotAll
  \/ GetFails
  \/ \E c \in Asked, op \in {"getAll", "getAllByType"} : GetMany(op, c)
  \/ \E i \in Ids :
       \/ OthersReplace(i)
       \/ \E c \in Asked : Get(i, c)
       \/ RefreshObject(i)
       \/ \E attribute \in class.configures \cup class.sets : SetSensor(i, attribute)
       \/ \E attribute \in GroupAttributes : SetGroup(i, attribute)
       \/ \E f \in LightCalls : UseLight(i, f)
       \/ ReadGroup(i)
       \/ SetName(i)

DeviceSpec == DeviceInit /\ [][DeviceNext]_deviceVars

----------------------------------------------------------------------------
DeviceTypeOK ==
  /\ kind \in Kinds
  /\ \A i \in Ids : bridge[i] \in Contents[kind] \cup {Absent}
  /\ \A i \in Ids : listed[i] \in Contents[kind] \cup {Absent}
  /\ class \in Asked \cup {AnySensor}
  /\ call.op \in {"none", "getAll", "getAllByType"} /\ call.todo \subseteq Ids
  /\ changes \in 0..MaxChanges

\* An object is what its class says.  A sensor of a class was of that type
\* when it was made, and as long as its data are, every getter answers but
\* those of attributes it lacks; so a getter of a typed sensor fails for
\* another reason only if the bridge has given the id to another kind of
\* sensor and the object has been refreshed since.  (What attributes a sensor
\* has is taken from its class, so this is about the data objects hold and not
\* about what a bridge sends.)  A light can be controlled
\* in the ways that the colour type says.  getAllByType returns exactly the
\* sensors of the type that are in its copy of the list, and throws, unless a
\* request fails, only when the list has changed under it.  Only group 0 is
\* ever without data, until it is refreshed.
ObjectsFit ==
  /\ \A i \in Ids : held[i] # None =>
       LET o == held[i] IN
       /\ kind = "sensors" /\ class # AnySensor =>
            /\ o.made.name = class.type
            /\ o.data.name = class.type =>
                 \A a \in class.reads : Answer(class, o.data, a) = "value"
                                          \/ a \in o.data.lacks
       /\ kind = "lights" =>
            /\ o.light.colour = "none" <=> o.light.colorType \in {"NONE", "TEMPERATURE"}
            /\ o.light.colorType = "TEMPERATURE" => o.light.temperature = "simple"
       /\ o.data = Null => kind = "groups" /\ i = 0
  /\ said.call = "read" /\ said.answer = "type_error" => held[0].data = Null
  /\ said.call = "getAllByType" /\ said.answer = "returned" =>
       \A i \in Ids : held[i] # None <=> copy[i].name = class.type
  /\ said.call = "getAllByType" /\ said.answer \in {"no such id", "wrong type"} =>
       said.on = "changed"

\* The types of lights that have each control.
Coloured  == {"color light", "extended color light"}
Tempered  == {"color temperature light", "extended color light"}
Dimmable  == {"dimmable light", "dimmable plug-in unit"} \cup Coloured \cup Tempered
CanDo == [brightness |-> Dimmable, temperature |-> Tempered, colour |-> Coloured]

\* What the setters say is so: a setter that returns has asked the bridge to
\* change that attribute (but for setColorLoop of a group, which asks
\* nothing), a sensor's in the section its getter looks into; setName returns
\* true only when the bridge has the name, and false only of sensors, although
\* theirs is changed, too.  A light is never asked for what lights of the type
\* it was made from cannot do.
SettersTell ==
  /\ said.call = "set" /\ said.answer = "returned" =>
       \/ request.attribute = said.on
       \/ kind = "groups" /\ said.on = "effect"
  /\ kind = "sensors" /\ request.path = "/state" =>
       request.attribute \in class.reads /\ request.attribute \notin class.configures
  /\ said.call = "setName" =>
       /\ request.attribute = "name"
       /\ said.answer = "false" => kind = "sensors"
  /\ kind = "lights" /\ request.path = "/state" =>
       \E i \in Ids : held[i].made.name \in CanDo[request.attribute]
  /\ said.call = "use" /\ said.answer = "false" => request = NoRequest
=============================================================================
