# Formal models of hueplusplus

TLA+ specifications of hueplusplus, the C++ library for Philips Hue bridges,
with the TLC runs that check them on small instances and TLAPS proofs of the
theorems that hold for every value of the constants.  Line numbers are those of
the sources in `src/` (implementation) and `include/hueplusplus/` (headers).
`PROJECT.json` maps every definition that models code to its lines.

    tlc -config CommandAPI.cfg CommandAPI          model-check
    tlc -config Library.cfg MCLibrary
    tlapm CommandAPIProofs.tla                     check the proofs

## 1. The system

hueplusplus has no thread of its own.  It is a library of objects that send
blocking HTTP requests to one device, the bridge, and keep copies of what the
bridge answered.  Programs use those objects, possibly copies of them, from
several threads; other programs, wall switches and the bridge itself change the
state the copies are about.  What is hard is therefore not in one function but
between calls: which copy is how old, what a failed or half-failed request
leaves behind, what a request built from an old copy means when it arrives.

| Component | State | Operations | Uses |
|---|---|---|---|
| `HueCommandAPI` | IP, port, username; `TimeoutData` (mutex, earliest time of the next request), shared by all copies | `PUTRequest`, `GETRequest`, `POSTRequest`, `DELETERequest`, all through `RunWithTimeout` | HTTP handler |
| `APICache` | own JSON, or a path into the JSON of a base cache; `lastRefresh`, `refreshDuration` | `getValue` (const and not), `refresh`, `setRefreshDuration` | `HueCommandAPI`, its base |
| `Bridge` | credentials, the root `APICache`, one `ResourceList` per resource type, `BridgeConfig` | constructor, `refresh`, `requestUsername`, `setHttpHandler`, `startStreaming`, `stopStreaming`, `setIP`, `setPort` | all below |
| `BridgeFinder` | usernames and client keys per MAC address | `findBridges`, `getBridge`, `addUsername`, `addClientKey` | `UPnP`, `Bridge` |
| `ResourceList`, `CreateableResourceList`, `SearchableResourceList`, `GroupResourceList` | an `APICache`, a factory | `get`, `getAll`, `exists`, `create`, `remove`, `search`, `getNewDevices` | `APICache`, the item's class |
| `BaseDevice`: `Light`, `Sensor` | an `APICache` (own or below the list's) | `refresh`, `setName`, getters | `APICache` |
| `StateTransaction` | a request under construction; pointer to the cached state | setters, `commit`, `toAction`, `trimRequest` | `HueCommandAPI` |
| colour, temperature, brightness strategies | none | setters, `alertXxx` | `StateTransaction` |
| `Group`, `Scene`, `Schedule`, `Rule`, `BridgeConfig` | an `APICache` | setters: PUT, then `refresh` | `APICache`, `HueCommandAPI` |
| `EntertainmentMode` | DTLS context, colour buffer | constructor, `connect`, `update`, `disconnect` | `Bridge`, `Group`, mbedtls |
| `TimePattern` and its parts | a tagged union | `parse`, `toString` | none |
| `TimePattern.cpp`'s time functions | the `TZ` of the process | `parseTimestamp`, `parseUTCTimestamp`, `timepointToTimestamp` | C library |
| `LightFactory`, `SensorList` | an API and a refresh duration; an `APICache` | `createLight`; `getAsType`, `getAllByType` | `Light`, the sensor classes |
| `UPnP`, `LinHttpHandler`, `BaseHttpHandler` | none between calls; sockets during one | `getDevices`; `send`, `sendMulticast`, `sendHTTPRequest` | sockets |
| `Utils`, `ColorUnits` | none | lookup, conversion | none |

How they interact.

* Every request but three goes through a `HueCommandAPI`.  The exceptions,
  `requestUsername`, `startStreaming` and `stopStreaming`, use the HTTP handler
  directly and are neither serial with the other requests nor paced.
* `HueCommandAPI` objects are copied into every cache and device.  The copies
  share the `TimeoutData` until `Bridge::setHttpHandler` makes a new one.
* A `ResourceList` is an `APICache` below the bridge's.  Its items are roots of
  their own (seeded from the list) or, with `sharedState`, a third level.
* A transaction reads the cached state of its light, drops from the request
  what that state already says, sends the rest and copies it into that state.

What makes each component correct, and what is hard about it:

| Component | Should hold | Hard because |
|---|---|---|
| `HueCommandAPI` | one exchange at a time; a bounded rate; one retry, late enough; every call ends | threads wait with an old clock reading; resets, failures and errors leave at different places |
| `APICache` | no value older than its refresh duration; what exists is found; both getters agree; no request for what is known | three objects, each with times of its own, over one JSON |
| transactions, alerts | a request that is trimmed was not needed; the copy follows the light; an alert restores | the copy is updated by keys, and one key, the colour mode, never is |
| pairing | the pieces of one answer stay together; a press in time is seen; the call ends; one username per bridge | an answer is stored in three steps with a request that may fail between |
| lists | a created resource is found, a removed one is not | list cache and bridge differ after `remove`, or when the refresh of `create` fails |
| setters | the object shows what was set | the refresh after the PUT may fail, be skipped, or be another's |
| entertainment | the bridge streams only while somebody is connected | the constructor starts streaming and nothing but `disconnect` stops it |
| time patterns | `parse` inverts `toString`; a copy is a copy | four classes and eight formats in one union |
| time zone | a timestamp is converted in its zone, the program keeps its own | one environment variable for all threads, no lock |
| endpoints | all requests go to one address under one username and pace each other | the address, the API and the durations are copied into every list, the factory and every object |
| transport | requests are written whole; what is returned is all the peer sent | `write` and `read` split anywhere, the connection may end anywhere |
| discovery | a bridge is found once, others never | answers are repeated, cut off, lost, and glued together before they are read |
| typed objects | an object is of the class asked for, its getters answer, its setters ask | list, copy of the list and bridge change while `getAllByType` walks them |

Single hazards, with their lines, are in `PROJECT.json`.

## 2. The plan

In the order of importance.  All of it exists.

1. `PacedLink`, `CommandAPI`: what a `HueCommandAPI` promises, and the
   implementation that refines it.
2. `Replica`, `APICache`: what a tree of caches promises about the data it shows,
   and the implementation; instantiated by `MCAPICache` with and without shared state.
3. `LightControl`: light, cached state, transactions and alerts.
4. `BridgePairing`: `BridgeFinder` and `requestUsername`.
5. `Resources`, instantiated by `MCResources`: `create`, `remove`, `get`, `exists`
   and the setters of `Group`, `Scene`, `Schedule`, `Rule` and the devices, over
   the caches of `APICache`.
6. `Streaming`: `EntertainmentMode` with `startStreaming` and `stopStreaming`.
7. `TimePattern` and `TimeZone`: the two halves of TimePattern.cpp.
8. `Endpoints` (`setIP`, `setPort`, `setHttpHandler`, refresh durations),
   `Transport` (one HTTP request), `Discovery` (`findBridges`), `Devices`
   (sensors, lights and groups as typed objects).
9. `MCLibrary`: the modules of 6 to 8, which share no state with each other, as the sum
   of their specifications.

1 to 5 have a proof module each (`PacedLink` has its own); `TimeProofs` is about 7,
`LibraryProofs` about 6 and 8.

Every safety property of a passing run is proved, and both refinements; what is
left to TLC is liveness (section 6).

## 3. The modules

### PacedLink and CommandAPI

`CommandAPI` is `RunWithTimeout` (HueCommandAPI.cpp:36-66) executed by
`Threads`, each with its own copy of the object.

| Action | Code |
|---|---|
| `Enter` | a request is called; `now` is read (line 38) *before* the mutex is asked for |
| `Lock` | `lock_guard` on the shared mutex (39) |
| `Send` | `sleep_until` when the timeout is later than `now` (40-43), then the exchange (46) |
| `Reply` | the timeout becomes `now + minDelay` (47), or is counted from a new clock reading after a retry (57) |
| `Backoff`, `Retry` | a reset or time-out: `sleep_for(minDelay)` (55) and the second exchange (56), still locked |
| `Throw` | any other error, or any error of the retry |
| `Tick` | the steady clock |

The verbs share all of this.  An exchange takes any time and ends in a reply, a
reply that holds an error (`HandleError`, after the timeout is updated), a reset
or time-out, or another error; that is the HTTP handler, external to the module.
`PacedLink` is the abstract specification: no mutex, timeout or retry, only
when answered exchanges may begin.  `Link == INSTANCE PacedLink WITH time <-
clock, pending <- ...` is the refinement mapping; `sends` maps to itself.

The property worth arguing about is `BurstBound`.  The header promises that a
request waits until the delay "has passed to any previous request", which the
code does not do: `now` is from before the wait for the mutex and before the
exchange.  What the code does give is weaker: two calls *of the same thread* pace everybody
(`PairSpacing`), hence by the pigeonhole principle no period shorter than the
delay holds more than one answered request per thread and one more.
Unanswered exchanges are not paced at all (the timeout is not advanced), and
`PacedLink` says nothing about them.

### APICache

`mem[c][q]` is the age information of `c`'s own JSON about resource `q`: the
time at which the bridge served it.  `Owner(c)` is the cache whose `value` member
`c` reads (APICache.cpp:79), `Base` and `List` give the tree; a constant
`Base` describes both modes of the library: an item is a root (not shared) or a
child of its list (shared).

| Definition | Code |
|---|---|
| `Synced`, `NeedsRefresh` | `needsRefresh` (137-164), which copies `lastRefresh` from the base before deciding |
| `FetchedBy`, `AskedBy` | who sends the request when `refresh` (47-67) passes it to the base |
| `Fetch`, `FetchFails` | the request, served some time before it arrives, or throwing after bases have been synced |
| `GetValue`, `Refresh`, `SetRefreshDuration` | the methods of these names |
| `ConstructChild`, `ConstructRoot` | the constructors, as `ResourceList::get` and `construct` and `LightFactory` call them |
| `ConstStamp` | the const `getValue` (96-115) |
| `BridgeChanges`, `Tick` | resources appear and disappear; time passes |

`Replica` is the abstract specification: a replica per root, which changes only
when one request replaces the whole of it or one part by what the bridge had at one
moment of that request (`Bring`), never a part before the whole, or begins with
what another replica knows (`Seed`).  No durations, refresh times, levels or retries.
`View == INSTANCE Replica WITH ...` is the refinement mapping: replicas are the
root caches, `view` their JSON, the parts the subtrees of the caches that read it.
This rests on a child's `refresh` asking its base for everything when the base was
never refreshed (APICache.cpp:50) and on `Stored` replacing whole subtrees (60, 64).
A shared item is not part of the mapping: its requests are stored in the list's own
`value` member, which no const getter reads and which is filled piece by piece
(finding 3).

`ListsAreSnapshots` says the same of what `getAll` hands out (ResourceList.h:107):
the entries of a list are of one moment, that of the list, and never some of one
request and some of another.

The assumptions on `Base` and `List` are the trees the library builds: bridge, lists
below it (or roots, when a program makes its own), items below a list or apart.

### Resources

`Resources` extends `APICache`: its actions are made of `Fetch`, `GetValue`, `Refresh`
and `ConstructRoot`, and add who changes the bridge and when.  A setter or a
create is two requests, so it is two actions with `job` between them; other
clients (`OthersChange`) and time come in between, and the second request may fail.

| Action | Code |
|---|---|
| `Use` | any getter or `refresh(force)` of the bridge, a list or an object; `exists` and `getAll` of a list |
| `Get`, `GetSchedule` | `ResourceList::get`; only `Schedule`'s constructor sends a request at once (Schedule.cpp:34) |
| `Put` | `sendPutRequest`, confirmed by the bridge at `job.at`; a failing one throws and changes nothing here |
| `GroupSetters`, `RuleSetters`, `ScheduleSetters` | the rest of the setter: a forced refresh, which succeeds or throws |
| `SceneSetters` | the rest of a scene's setter: `refresh()`, which asks the bridge only when the cache is outdated |
| `DeviceSetters` | nothing: `BaseDevice` and sensors leave their cache alone |
| `Post`, `Created` | `create` (ResourceList.h:298-317): the request, then the refresh of the list |
| `Remove` | `remove` (162-169), which leaves the caches alone |

`wrote`, `ids` and `goneAt` are histories: when an object's last change was
confirmed, which ids `create` has returned, when a resource was removed.  What an object `Shows`
is what its const getters read, and nearly all of its getters are const.  The
class of an item is a variable that never changes, so that one run covers all
classes.  `Group::setScene`, `Scene::recall` and the setters of a group's
action are single requests about other resources and are left out.

### LightControl

`light` is what the light shows, `state` what the `Light` has cached about it.
`Commit` is `StateTransaction::commit` (38-83): it adds `"on"` where needed
(`WithPower`), trims (`Trim`), sends, and copies the request's keys into the
cached state (`Noted`).  Note what is *not* copied: the colour mode.  A colour
of mode hs, xy or ct is one value; every transaction is a `Transact` with any
combination of power, brightness, colour and `trim`; an alert is three
transactions (`AlertShow`, `AlertPulse`, `AlertRestore`) between which the
cache may be refreshed and others may change the light.  The bridge's part is
`Accepts`, `Applied` and `Readings`: a light that is off refuses colours, a
request is applied or not when its reply is lost, and a reading has the true
value for the active mode and any value for the others.  `outdated` and
`result` are history: since when the cache could not have followed, and
whether the last call that returned true did what it promises.

### BridgePairing

`getBridge` (Bridge.cpp:93-108) is `GetKnownBridge` or `GetNewBridge`; the loop of
`requestUsername` (208-257) is `Begin`, `Attempt` after each sleep,
`BridgeHandles`/`PostFails` for the request, then `NotPressed` (once more, or
give up) or `Pressed`.  `Pressed` stops after `setHttpHandler` has stored the
new `HueCommandAPI` in the new lists; `RefreshDone` and `RefreshFails` are the two ways in
which the refresh of the whole state inside it ends; only after the first the client key and the
finder's maps are written.  The button stays pressed for `Window`.

### Streaming

The PUT requests of `startStreaming` and `stopStreaming` succeed, are refused
(an error in the reply: false is returned), or throw, obeyed by the bridge or
not (`PutOutcomes`).  `active` is the bridge's side.

| Action | Code |
|---|---|
| `Create` | the constructor (EntertainmentMode.cpp:64-135), which starts streaming and ignores the result; a throwing one leaves no object, but perhaps a stream |
| `Destroy` | the destructor, which sends nothing |
| `ConnectStart`, `OpenSocket`, `Configure`, `Handshake`, `ConnectFails` | `connect` (147-270), one action per call that may fail; all but the first failure lead to `Close` |
| `Disconnect` | `disconnect` (272-276): `Close` |
| `SetColorRGB` | 278-297; the bytes of one light in the message |
| `Update` | 299-320: the record goes out, or is kept by mbedtls and goes out next time, or the write fails |
| `GetKeys` | `requestUsername` has stored a client key |

The message is modelled byte by byte (`NewMessage`, `SetColour`), because what
matters about it is numeric: an id has two bytes, the number of lights is a
`uint8_t` and wraps.  `Decoded` reads it as the bridge would.  `lapse`, `leaked`,
`connects`, `chosen` and `late` are histories.  mbedtls is external.  `Update`
needs no loop over partial writes: over UDP a record is written whole or not at
all, so the arithmetic at line 307 never acts on a partial count.

### TimePattern and TimeZone

In `TimePattern` a text is a sequence of tokens, `<<mark, numbers>>`; `ToString` and
`ParsePattern` are `toString` (TimePattern.cpp:536-553) and `parse`
(555-619) with the functions they call, down to the digits: durations lose the
fraction of a second, a weekday mask is a number, `LeadingTwo` is the
`substr(1, 2)` that reads the repetitions of a timer.  `Localtime` and `Mktime`
are the C library's, with a clock put back once (`Switch`, `Shift`).

| Action | Code |
|---|---|
| `Construct` | the constructors from a value |
| `Assign` | `operator=` and the copy constructor (472-509) |
| `SetTime`, `GetTime` | `Schedule::setTime`, which throws when `toString` does, and `getTime` |

`TimeZone` is the same file's use of `TZ`, one action per call of the C library:
`KeepZone`, `ClearZone`, `Convert`, `RestoreZone` for `parseUTCTimestamp` (90-124),
`LocalTime` for the functions that use the zone as it is.  `crossed` is a
history: two calls have been inside at once.

### Endpoints

| Action | Code |
|---|---|
| `SetAddress` | `setIP`, `setPort` (Bridge.cpp:320-328), which change two members and nothing else |
| `RequestUser` | `requestUsername` in one step, with the lists that `setHttpHandler` (400-415) makes: `Build`, with the duration of the constructor |
| `SetRefresh`, `SetListRefresh` | `setRefreshDuration` of the bridge, of a list, of `BridgeConfig` |
| `Obtain` | `ResourceList::construct` and `LightFactory`: which copy of the API and of the duration an object gets |

### Transport

One HTTP request over a socket: `Send`, `Connect`, `Write`, `Read`, `EndOfReply` are
`LinHttpHandler::send` (LinHttpHandler.cpp:53-139) and, at its end,
`BaseHttpHandler` taking the body and parsing it; `Throw` is every exception,
which closes the socket.  `Arrive`, `Reply`, `PeerCloses`, `PeerHangs` are the
connection and the peer.  `taken` is what the connection has accepted from `write`,
`heard` how much of it has reached the peer: `write` may take any part of what it is
given, also after the peer has gone, and what it took may never arrive.  `refused` is
the `break` of lines 105-108, a `write` that takes nothing; the caller then reads as if
all were sent, and `NothingLostOrTorn` excepts it.  That a `write` to a connection the
peer has reset raises `SIGPIPE`, which ends a program that does not ignore it, is left
out: there is nothing to say of a program that has ended.
Requests and replies are sequences over `Symbols`, of which only `"n"`, an end of
line, means something; parsing is membership in `Documents`, of which it is
only assumed that the beginning of a document is none.

### Discovery

| Action | Code |
|---|---|
| `Search`, `Hear`, `TimeIsUp`, `SearchFails` | `sendMulticast`: answers are appended to one string until the time is up |
| `ReadPiece`, `AllRead` | the string is cut at empty lines; `getDevices` reads each piece and drops known locations |
| `PassBy`, `Visit`, `VisitFails`, `Finish` | `findBridges` (Bridge.cpp:43-76): the description of every device that calls itself a bridge |

Devices may answer any number of times, in any order, without one of the lines, or
with a datagram that was cut off (`ended = FALSE`).

### Devices

What lists make of their JSON, by class: the table `Class(...)` has for every
sensor class which attributes its getters read with `at()`, which have a
`has...` function or a default, and which are set in `/config` or `/state`; `Strategies`
is the table of `LightFactory::createLight`.

| Action | Code |
|---|---|
| `Get` | `get`, `getAsType`; group 0 is made from `[null]` |
| `GetMany`, `GetNext`, `GotAll`, `GetFails` | `getAll` over the list's JSON, `getAllByType` over a copy of it, object by object, each of which may refresh the list |
| `RefreshObject` | the object's cache gets new data, perhaps of a resource of another type that has the id now |
| `SetSensor`, `SetName`, `SetGroup`, `UseLight`, `ReadGroup` | setters and getters: which request they send and what they say |
| `OthersReplace` | the bridge |

## 4. What the runs show

| Run | Specification | Shows |
|---|---|---|
| `command_api` | `FairSpec` | exchanges are serial (`SerialExchanges`), retried once and only after their own reset and a full delay (`RetryDiscipline`), paced (`BurstBound`, `ImplementsPacedLink`), and every call ends (`EveryCallEnds`) |
| `command_api_documented_spacing` | `Spec` | violated: the spacing the header promises |
| `api_cache` | `Spec` | without shared state: reads are fresh (`FreshRead`) and find what exists (`PermanentIsFound`), lists come whole (`ListsAreSnapshots`), nothing known is asked for (`NoEarlyRefetch`), and roots change by snapshots (`ImplementsReplica`) |
| `api_cache_shared` | `Spec` | with shared state: what is read through bridge and lists is fresh, found, and the same for both getters (`ListReads`) |
| `api_cache_shared_missing` | `Spec` | violated: a light that always existed is "not present in base cache" |
| `resources` | `ResourceSpec` | without shared state: an object shows what was set through it (`ReadYourWrites`), created resources are found (`CreatedIsFound`), removed ones forgotten in time (`RemovalNoticed`), nothing goes back (`NeverGoesBack`); `ResourceTypeOK` holds the types of the caches |
| `resources_shared` | `ResourceSpec` | violated: with shared state a setter that has refreshed its object leaves the old values in its getters |
| `light_control` | `Spec` | trimming loses nothing (`TrueMeansDone`), the cache follows (`CacheFollows`), alerts restore (`AlertRestores`) |
| `light_control_across` | `Spec` | violated: an alert in another colour mode does not restore, and returns true |
| `bridge_pairing` | `FairSpec` | `CredentialsAgree`, `PressNoticed`, `RequestEnds`, and the bound on the call's duration in `PairTypeOK` |
| `bridge_pairing_once` | `Spec` | violated: one username per bridge |
| `library` | `LibrarySpec` | the seven parts below, each from its own initial states |

| Part of `library` | Shows |
|---|---|
| `Streaming` | streaming that is on has an owner or a reason (`StreamAccounted`); `connect` and `disconnect` return what is so (`CallsTellTruth`); the message names the group's lights with the colours last set, and no record another light (`FramesAreOurs`); a `connect` ends (`ConnectEnds`) |
| `TimePattern` | what is written is read back to the second, and settles (`ReadsBack`); copies agree (`CopiesAgree`) |
| `TimeZone` | as long as calls do not cross, zones are right and the program's is restored (`ZoneKept`) |
| `Endpoints` | cache, lists and factory of a bridge, and what they make, have one API (`OneEndpoint`) and the refresh duration they were told (`RefreshAsTold`) |
| `Transport` | a request is taken whole, in order and once, before its reply is read, and no reply is returned that was cut off (`NothingLostOrTorn`); a call ends unless the peer is silent (`SendEnds`) |
| `Discovery` | every bridge that answers clearly is found, once, and nothing else (`BridgesFound`) |
| `Devices` | an object is of its class and its getters answer (`ObjectsFit`); setters ask what they say (`SettersTell`) |

Bounds, and why they are enough.

* `CommandAPI.cfg`: two threads with two calls each, delay 2, clock to 3 (further
  only for sleepers).  Four answers are the fewest `BurstBound` speaks of for two threads, two calls per thread
  the fewest in which one waits with an old `now` while the other sends twice; the proofs cover more.
* `APICache*.cfg`: bridge, list of lights, one light, durations 0, 2 and never,
  latency 1, clock 1 to 4: enough to let a value expire, be fetched late and
  expire again while the other caches are at every phase of theirs.  One item
  suffices, as items without shared state do not see each other.  The
  shared runs leave duration 0 out, under which nothing is ever kept, and let
  all resources stay, so that a lookup that fails is the library's doing.
* `Resources*.cfg`: bridge, one list, one object of any class, durations 2 and
  never, latency 1, clock 1 to 4: enough for a change at 1 or 2, its reply a unit later and a
  refresh of an outdated list or bridge after that.  Durations are chosen in the initial state and
  stay.  `VIEW Visible` leaves out of the comparison of states what no property
  of these runs reads and no guard depends on: two histories of `APICache`, the durations
  of objects that do not exist, and whether a list has already copied the
  bridge's `lastRefresh`, which it does before it decides anything.
* `LightControl*.cfg`: two colour modes, two values in each, brightness 0 to 2
  and a parameter width of 4, so that the width is larger than the range and
  values 3 (clamped) and 4 (wraps to 0, as 256 does) occur.  A third mode takes part in no
  comparison of two modes that two do not show; the proof has any number.
* `BridgePairing.cfg`: timeout 5, interval 2, so that the timeout is no multiple
  of the interval, latency 1, three usernames: a first answer, one whose
  refresh fails and one of a direct call.
* `Library.cfg`, part by part.  Patterns: two ticks in a second, so that fractions occur;
  the clocks go back 3 seconds at the 10th, with instants before, in and after the
  repeated time; every class, no day and all days, exactly 24 hours and a tick more (which
  `toString` refuses), 1, 9 and 256 executions and for ever; two
  variables, so that one is copied to the other.  Zone: two threads are
  enough for two calls to cross.  Streaming: a group of two lights, one with an id
  of two bytes, and one of 257, more than the `uint8_t` counts; at most two sockets, so
  that a second `connect` overwrites the first one's, and one round of the
  handshake.  Endpoints: two lists (lights, which have the factory, and another), two addresses
  and durations, two usernames after the first.  Transport: a request with an
  empty line in it; replies with a body, with an empty line inside the
  body, without one, and with an empty body.  Discovery: three datagrams of a
  bridge and another device, so that one can be cut off, the next glued to it, and
  a third follow.  Devices: three ids with group 0 among them, three changes of
  the bridge during a call; sensors of two classes of which one lacks an
  attribute, lights of four types.

## 5. Fairness

`Fairness` is what the code and its platform give: a thread that may run does so
eventually, and time passes.  The mutex is weakly fair only (`std::mutex` promises
no order); that every call ends therefore rests on every other thread making
finitely many calls, `MaxCalls`.  `ExchangesEnd` and `RequestsEnd` are assumptions
about the bridge and are named separately, because the code does *not*
guarantee them: `LinHttpHandler::send` sets no receive timeout (line 120), so a
bridge that accepts a connection and stays silent blocks that thread, and every
thread that waits for the mutex, for good.  `TransportFairness` says the same of
one request: the caller runs, the connection is closed in the end, and
`SendEnds` excepts the peer that is silent.  `StreamFairness` is about the steps
of `connect` alone, each a call that returns; the handshake is bounded by `MaxRounds`, as
mbedtls's own retransmission timeouts bound it.  No fairness is assumed of calls, users or failures.

Deadlock is checked in every run.  `Finished` in `CommandAPI` is the
stutter of a run in which all calls permitted by the bound have been made.

## 6. What is proved

All theorems hold for all values of the constants that satisfy the named
assumption of the module; TLC evaluates these assumptions in the runs.

| Theorem | States | Argument |
|---|---|---|
| `PairSpacingHolds`, `BurstBoundHolds` (`PacedLinkProofs`) | the abstract link's pacing | `LinkInv`: answered exchanges are ordered and do not overlap, each begins `Delay` after the previous one's `since`, and a thread's `since` is not before its previous answer. Two answers of one thread then pace everything after them; among more answers than threads two belong to one thread (pigeonhole, by cardinality) |
| `CommandTypeCorrect`, `ExchangesAreSerial`, `RetriesAreDisciplined` (`CommandAPIProofs`) | the properties of these names | `CommandInv`: the mutex has exactly the holder whose `pc` is inside (`LockInv`); clock readings are ordered (`ClockInv`); the timeout is that of the last answer (`TimeoutInv`); tries follow `pc`; a thread that backs off was the last to end an exchange (`BackoffInv`) |
| `CommandImplementsLink`, `CommandBurstBound` | refinement, and the bound it carries over | under `CommandInv` every step is a step of `PacedLink` or a stutter: `Reply` is `Answer`, `Throw` is `GiveUp`; `ClockInv` and `TimeoutInv` give `MaySendAt` |
| `CacheTypeCorrect`, `ListsReadWell` (`APICacheProofs`) | types of every tree; the reads of the bridge and its lists, with and without shared state | `CacheInv` and `FoundInv` speak of the caches that read a root's JSON (`Rooted`): everything such a cache may return is no older than its `lastRefresh` says, up to the latency and the age of its seed (`AgeInv`); a refreshed root holds all permanent resources below its own (`Backed`), since a request replaces whole subtrees and only by what the bridge has; what was just returned is still in the JSON (`ReadHolds`). Marking a base for the fetch of a child would break the first, which is the mutant of `FreshRead` |
| `ReadsAreFresh`, `PermanentStaysFound`, `BothGettersAgree` | the same for items, under `TwoLevels` (no shared state) | then every cache is `Rooted` |
| `RequestsAreSaved` | no request for what is known, in every tree whose lists are `Disjoint` (no list holds data of another or of the whole bridge) | `Noticed`: after it has asked its bases, a cache's time is not before the last request that brought its data, whoever sent it. Forgetting to ask the base is the mutant of `NoEarlyRefetch` |
| `CacheImplementsReplica` | refinement of `Replica`, for every tree | `Blank`: a root that was never refreshed knows nothing, so the first request, which its children pass to it, brings the whole. Then each action is a `Bring`, a `Seed`, a `Wait` or a stutter |
| `ListsComeWhole` | `ListsAreSnapshots`, for every tree under `ListsApart` (what a request brings holds a list entirely or nothing of it) | inductive itself: a request that touches an entry replaces the list it is in, and an object that is seeded or refreshed is no list |
| `SettersAreSeen`, `CreatedStaysFound`, `RemovalIsNoticed`, `ShowsNeverGoBack`, `ResourceTypeCorrect` (`ResourcesProofs`) | the properties of the run `resources`, for any number of lists and objects; only `SettersAreSeen` assumes that none is shared (`Unshared`) | `ResourceInv` adds to `CacheInv` that the data of an object of its own are as new as its last change (`Written`), that what `create` returned is known below a refreshed bridge cache (`Found`), that no data are from after a removal (`GoneData`), and freshness for all entries of a list (`FreshBelow`). One lemma says what a request does to all data at once (`Later`): existing entries get newer, gone ones vanish; each action is then an instance of it |
| `ResourcesImplementReplica`, `ListsStayWhole` | the same two for setters, `create`, `remove` and what others do | each action is one request of `APICache` with its history, or none |
| `CachedStateFollows`, `TransactionsAreDone`, `AlertsRestore`, `LightTypeCorrect` (`LightControlProofs`) | the properties of the run | `LightInv` adds `AlertOnCourse`: in an undisturbed alert the old look is still what the restoring request will lead to. The lemmas say that trimming does not change the outcome when the state agrees in power, brightness and the active mode, and that noting a request commutes with applying it |
| `CredentialsBelongTogether`, `PressesAreNoticed`, `PairTypeCorrect` (`BridgePairingProofs`) | the properties of the run, for all timeouts, intervals and latencies with `Interval + 2 * Latency < Window` | `PairInv` adds how `elapsed` bounds the phase of the loop (`Clock`), what a request under way may hold (`UnderWay`), and for how long a press that is not yet noticed keeps the button pressed (`Presses`) |
| `PatternTypes`, `PatternsReadBack`, `CopiesDoAgree` (`TimeProofs`) | the properties of the run, for every pattern, tick and change of the clocks | `PatternInv`: the text is `ToString` of the pattern last written. Then lemma by lemma: hours, minutes and seconds give back the whole seconds of a duration; seven bits give back the set of weekdays; the first two digits of a number below 100 are the number; the marks tell the classes apart. What was read has no fraction, so reading it again changes nothing |
| `ZoneTypes`, `ZoneIsKept` | for any number of threads | `OneInside`: unless two calls have crossed, at most one thread is not idle, it keeps a copy of the program's zone, and `TZ` is empty exactly between its two `setenv` |
| `EndpointTypes`, `OneEndpointHolds`, `RefreshesAsTold` (`LibraryProofs`) | for any lists and addresses, with and without shared state | `EndpointInv` adds that no object has a username later than the bridge's, and that objects of an earlier one differ in it |
| `StreamTypes`, `StreamIsAccounted`, `CallsAreTrue`, `FramesAreAlwaysOurs` | the properties of the run, for groups of any size | `CallInv`: in `connect` streaming is on or there is a reason (`BusyInv`), and the open sockets are those leaked and the object's own (`SocketInv`). `FrameInv`: the message is composed of the header and of the lights with the colours chosen (`Composed`), and so is a record waiting to be sent (`Sendable`); decoding what is composed gives these back |
| `TransportTypes`, `RequestsAreWhole` | for any requests, replies and documents | `TransportInv`: what was taken and read are beginnings of request and reply, and a call that has gone on to the reply (`GoneOn`) had nothing left to write. The first empty line of a beginning is the first of the whole (`LeastOf`), so its body is a beginning of the body (`BodyOfPart`), which is a document only if it is all of it |
| `DiscoveryTypes`, `BridgesAreFound` | for any devices and any number of datagrams, cut off, repeated or run together | `SearchInv`: of the pieces read so far, every clear answer's location is known (`StagesInv`), every known device was announced, and once (`DevicesInv`), and every bridge visited is found or mute (`FoundInv`). A piece never ends before the next empty line, so a clear datagram is a piece of its own (`ClearPieceIs`) |
| `LibraryParts` | `LibrarySpec` implies the specification of each part, fairness included | a step of the sum is a step of one part and a stutter of the others (`LibrarySteps`); what is proved of a part therefore holds in the sum |
| `LibraryInvariant`, `LibraryTypes` | all the parts' inductive invariants and types at once | the parts' lemmas |
| `DeviceTypes`, `ObjectsAlwaysFit`, `SettersTellTruth` | for any lists of typed resources and any changes of them | `DeviceInv`: every object fits its class (`Fitting`); while `getAllByType` runs, what it has made and what it has still to make are exactly the sensors of the type in its copy (`ByTypeInv`). What the classes and strategies have is checked case by case (`ClassesAreSound`, `StrategiesAreSound`) |

The assumptions beyond the modules' own: `Disjoint` and `ListsApart` hold because
the bridge's lists are at different paths of its state (`/lights`, `/groups`, ...;
Bridge.cpp:167-176) and no path is below another.  Both are about parameters only and
hold in the instances of the runs.  `TwoLevels` and `Unshared` say that
`sharedState` is false, its default.  They cannot be dropped: with shared state items
are reported missing (`api_cache_shared_missing`) and do not show what was set
(`resources_shared`).

Only model-checked: liveness (`EveryCallEnds`, `RequestEnds`, `ConnectEnds`,
`SendEnds`), which is beyond the prover, as is everything that needs `ENABLED`.
Every invariant, action property and refinement that a passing run checks is a theorem.
`ConstAgrees`, a part of `ListReads`, and `CacheTypeOK`, a part of `ResourceTypeOK`, are
not run by themselves.

## 7. Findings

1. The documented spacing of requests does not hold (HueCommandAPI.h:65 against
   HueCommandAPI.cpp:38-47).
2. With shared state, a light may be reported missing after `bridge.refresh()`:
   the list's data is in the bridge's JSON, the light looks in the list's own
   `value` member (APICache.cpp:79).
3. With shared state, setting a group's name (or anything of a rule or a
   schedule) does not show: the forced refresh writes into the list's own `value` member
   (APICache.cpp:60), the const getters read the bridge's JSON (101).  In general
   the two getters of a shared object read different copies.
4. `alertXY` and its siblings in a mode other than the light's leave the alert
   colour on and return true: commit never updates the cached `colormode`
   (StateTransaction.cpp:69-76), so the restoring colour is trimmed (224).
   The unit test updates it by hand in its mock.
5. `getBridge` loses a username it has received when the refresh inside
   `setHttpHandler` fails (Bridge.cpp:234), and asks for another next time.

The next ones are exceptions that a passing property has to make: without the
named clause TLC finds the run `library` violated.

6. A copy of a `TimePattern` that holds an absolute time loses the random
   variation (TimePattern.cpp:488): `operator=` constructs an `AbsoluteTime` where the union
   has an `AbsoluteVariedTime`, and the variation is whatever the memory held.
   `CopiesAgree` excepts it.
7. Reading the time of a sensor changes the time zone of the whole process
   (TimePattern.cpp:104).  Two threads with two objects, which Shared_State.md:17
   sets apart only under shared state, can leave it in UTC for good.  `ZoneKept`
   assumes that no two calls cross.
8. `lights().setRefreshDuration` does not reach the lights obtained afterwards
   (HueDeviceTypes.cpp:78 against ResourceList.h:94).  Nor does any duration that was
   set outlast `requestUsername`: `Bridge::setRefreshDuration` (Bridge.cpp:186-196) does not
   change the member with which `setHttpHandler` makes the lists anew (403-412).
   `RefreshAsTold` excepts both.
9. `Group::setColorLoop` sends nothing: the transaction is never committed
   (Group.cpp:196).  `SettersTell` excepts it.
10. `setName` of a sensor returns false though the bridge has the name: the
    reply is looked up below `/lights/` (BaseDevice.cpp:91).  `SettersTell` excepts it.
11. `groups().get(0)` gives a group without data: `nlohmann::json {nullptr}` is the
    array `[null]` and not null (ResourceList.h:347), so the constructor fetches
    nothing.  `ObjectsFit` excepts it.
12. `Sensor::isReachable` is documented to throw for a sensor that has no such
    attribute (Sensor.h:120) and returns true (Sensor.cpp:131).

## 8. What is not modelled

* Colour arithmetic (`ColorUnits`): real numbers, which TLC has not.
* `NewDeviceList`, `search` and `getNewDevices`: one request each and the parsing of
  its reply, no state.
* Builders of JSON: `Condition`, `Action`, `LightState`, `CreateGroup`, `CreateScene`,
  `CreateSchedule`, `CreateRule`, `StateTransaction::toAction`; and lookups in JSON
  that a getter makes beyond finding its attribute (units, names of colours, dates).
* The text of requests (`BaseHttpHandler`'s request line and headers) and the
  names of pictures (`ModelPictures`).
* `WinHttpHandler`, which is the Linux handler over another socket library.
* mbedtls, the C library and the bridge are external: they appear as choices in the
  actions of their callers.
* Data races of one object used by two threads without a lock: the
  documentation forbids that use, apart from `HueCommandAPI`, whose lock is modelled,
  and the time zone.
