----------------------------- MODULE Resources ------------------------------
(***************************************************************************)
(* The objects that change the bridge's resources, over the caches of      *)
(* APICache: ResourceList::remove, CreateableResourceList::create and the  *)
(* setters of Group, Rule, Schedule, Scene and BaseDevice.                 *)
(*                                                                         *)
(* A setter is a PUT and then, depending on the class, a forced refresh,   *)
(* a refresh of an outdated cache, or nothing; create is a POST and a      *)
(* refresh of the list.  Between the two requests time passes, and other   *)
(* clients of the bridge go on.  Values are abstracted as in APICache: data *)
(* served at or after the time of a change show it (or a later one).       *)
(***************************************************************************)
EXTENDS APICache

Classes == {"group", "rule", "schedule", "scene", "device"}

\* The classes whose setters force a refresh.
Forcing == {"group", "rule", "schedule"}

VARIABLES
  class,   \* the class of each item, never changes
  job,     \* the setter or create that has changed the bridge, not returned
  wrote,   \* history: when the bridge confirmed the last change made through
           \* an object of a forcing class, if the setter has returned; 0
           \* for an object obtained since
  ids,     \* history: resources create has returned the id of
  goneAt   \* history: when a resource that is gone was removed, by whomever

jobVars == <<class, job, wrote, ids, goneAt>>
resourceVars == <<vars, jobVars>>

NoJob == [op |-> "none", on |-> NoCache, at |-> 0]
Idle  == job = NoJob

ResourceInit ==
  /\ Init
  /\ class \in [Items -> Classes]
  /\ job = NoJob
  /\ wrote = [c \in Caches |-> 0]
  /\ ids = {}
  /\ goneAt = [q \in Resources |-> 0]

----------------------------------------------------------------------------
\* A getter or refresh(force) of a list or an item.  (setRefreshDuration is
\* left to APICache; here every cache keeps its duration, whichever it is.)
Use ==
  /\ Idle
  /\ \E c \in Caches : GetValue(c) \/ Refresh(c)
  /\ UNCHANGED jobVars

\* ResourceList::get constructs the item; the constructors of all classes
\* but Schedule use what the list knows about it.
Get(c) ==
  /\ Idle
  /\ \/ ConstructChild(c)
     \/ class[c] # "schedule" /\ \E d \in Durations : ConstructRoot(c, d)
  /\ wrote' = [wrote EXCEPT ![c] = 0]
  /\ UNCHANGED <<class, job, ids, goneAt>>

\* Schedule::Schedule refreshes at once, and throws if that fails.
GetSchedule(c) ==
  /\ Idle
  /\ c \in Items /\ class[c] = "schedule" /\ Base[c] = NoCache
  /\ HasItem(c)
  /\ Fetch(c, {})
  /\ built' = built \cup {c}
  /\ refreshDuration' = [refreshDuration EXCEPT ![c] = refreshDuration[List[c]]]
  /\ seedAge' = [seedAge EXCEPT ![c] = 0]
  /\ ret' = NoRet
  /\ wrote' = [wrote EXCEPT ![c] = 0]
  /\ UNCHANGED <<exists, class, job, ids, goneAt>>

\* What becomes of a resource at the bridge.
Gone(q) ==
  /\ exists' = exists \ {q}
  /\ ids' = ids \ {q}
  /\ goneAt' = [goneAt EXCEPT ![q] = clock]
  /\ ret' = NoRet

Appears(q) ==
  /\ exists' = exists \cup {q}
  /\ goneAt' = [goneAt EXCEPT ![q] = 0]
  /\ ret' = NoRet

\* A PUT or POST and the reply that confirms it.  (One that fails throws and
\* leaves every cache as it is.)
Changed(op, c) ==
  /\ clock' \in clock .. MaxClock /\ clock' <= clock + MaxLatency
  /\ job' = [op |-> op, on |-> c, at |-> clock']
  /\ UNCHANGED <<built, refreshDuration, lastRefresh, mem, seedAge, fetched, class, wrote, ids>>

\* The first half of a setter: sendPutRequest.
Put(c) ==
  /\ Idle
  /\ c \in Items \cap built
  /\ Res[c] \in exists
  /\ Changed("set", c)
  /\ ret' = NoRet
  /\ UNCHANGED <<exists, goneAt>>

\* The setter or create returns, or throws what its refresh has thrown.
Done == job' = NoJob /\ ret' = NoRet /\ UNCHANGED <<built, refreshDuration, seedAge, class, goneAt>>

Returns(c) ==
  /\ Done
  /\ wrote' = [wrote EXCEPT ![c] = IF class[c] \in Forcing THEN job.at ELSE 0]
  /\ UNCHANGED <<exists, ids>>

Throws == Done /\ UNCHANGED <<exists, wrote, ids>>

Setting(c, classes) == job.op = "set" /\ job.on = c /\ class[c] \in classes

\* refresh(true) and Schedule::refresh().
ForcedRefresh(c) ==
  \/ Fetch(FetchedBy(c), AskedBy(c)) /\ Returns(c)
  \/ FetchFails(AskedBy(c)) /\ Throws

\* refresh() of the other classes: getValue(), which may find the value
\* missing in the base and throws then.
LazyRefresh(c) ==
  \/ /\ NeedsRefresh(c)
     /\ Fetch(FetchedBy(c), {c} \cup AskedBy(c))
     /\ IF mem'[Owner(c)][Res[c]] # NoData THEN Returns(c) ELSE Throws
  \/ NeedsRefresh(c) /\ FetchFails({c} \cup AskedBy(c)) /\ Throws
  \/ /\ ~ NeedsRefresh(c)
     /\ lastRefresh' = SyncAll({c})
     /\ UNCHANGED <<clock, mem, fetched>>
     /\ IF Stamp(c) # NoData THEN Returns(c) ELSE Throws

\* Mutant: the group keeps what it has until it is outdated.
GroupSettersLazy(c) == Setting(c, {"group"}) /\ LazyRefresh(c)

\* Group::setName, setLights, setRoomType.
GroupSetters(c) == Setting(c, {"group"}) /\ ForcedRefresh(c)

\* Rule::setName, setEnabled, setConditions, setActions.
RuleSetters(c) == Setting(c, {"rule"}) /\ ForcedRefresh(c)

\* Schedule::setName, setDescription, setCommand, setTime, setEnabled, setAutodelete.
ScheduleSetters(c) == Setting(c, {"schedule"}) /\ ForcedRefresh(c)

\* Scene::setName, setLightIds, setAppdata, setLightStates, storeCurrentLightState.
SceneSetters(c) == Setting(c, {"scene"}) /\ LazyRefresh(c)

\* BaseDevice::setName and the setters of the sensors.
DeviceSetters(c) ==
  /\ Setting(c, {"device"})
  /\ Returns(c)
  /\ UNCHANGED <<clock, lastRefresh, mem, fetched>>

\* CreateableResourceList::create, the POST: the bridge has a new resource.
\* Devices are searched for, not created.
Post(c) ==
  /\ Idle
  /\ c \in Items /\ class[c] # "device"
  /\ Res[c] \notin exists
  /\ Changed("create", c)
  /\ Appears(Res[c])

\* Mutant: the list is not refreshed, as after remove.
CreatedUnrefreshed(c) ==
  /\ job.op = "create" /\ job.on = c
  /\ Done
  /\ ids' = ids \cup ({Res[c]} \cap exists)
  /\ UNCHANGED <<clock, lastRefresh, mem, fetched, exists, wrote>>

\* ... and the refresh of the list, after which the id is returned; the id
\* is lost when it throws.
Created(c) ==
  /\ job.op = "create" /\ job.on = c
  /\ \/ /\ Fetch(FetchedBy(List[c]), AskedBy(List[c]))
        /\ Done
        /\ ids' = ids \cup ({Res[c]} \cap exists)
        /\ UNCHANGED <<exists, wrote>>
     \/ FetchFails(AskedBy(List[c])) /\ Throws

\* ResourceList::remove: a DELETE.  No cache is touched.
Remove(c) ==
  /\ Idle
  /\ c \in Items
  /\ Res[c] \in exists \ Permanent
  /\ Gone(Res[c])
  /\ UNCHANGED <<clock, built, refreshDuration, lastRefresh, mem, seedAge, fetched, class, job, wrote>>

\* Other clients add and remove resources.
OthersChange ==
  /\ \E q \in Resources \ Permanent :
       \/ q \in exists /\ Gone(q)
       \/ q \notin exists /\ Appears(q) /\ UNCHANGED ids
  /\ UNCHANGED <<clock, built, refreshDuration, lastRefresh, mem, seedAge, fetched, class, job, wrote>>

ResourceNext ==
  \/ Tick /\ UNCHANGED jobVars
  \/ OthersChange
  \/ Use
  \/ \E c \in Items :  \/ Get(c) \/ GetSchedule(c) \/ Remove(c)
                       \/ Put(c) \/ Post(c) \/ Created(c)
                       \/ GroupSetters(c) \/ RuleSetters(c) \/ ScheduleSetters(c)
                       \/ SceneSetters(c) \/ DeviceSetters(c)

ResourceSpec == ResourceInit /\ [][ResourceNext]_resourceVars
----------------------------------------------------------------------------
\* What an object's getters show: nearly all are const, so the const
\* getValue().  NoData when it throws.
Shows(c) == ConstStamp(c)

\* Types, and no change in the future.
ResourceTypeOK ==
  /\ CacheTypeOK
  /\ class \in [Items -> Classes]
  /\ job \in [op : {"set", "create"}, on : Items, at : 1 .. clock] \cup {NoJob}
  /\ wrote \in [Caches -> 0 .. clock]
  /\ ids \subseteq exists
  /\ goneAt \in [Resources -> 0 .. clock]

\* An object of a class that forces the refresh shows what was set through
\* it from the moment the setter returns, whatever is refreshed afterwards.
ReadYourWrites ==
  \A c \in Items \cap built :
    wrote[c] # 0 => Shows(c) >= wrote[c]

\* An id that create has returned is found by exists, get and getAll until
\* somebody removes the resource, through whichever level data arrive.
CreatedIsFound ==
  \A c \in Items : Res[c] \in ids => Shows(List[c]) # NoData /\ mem[Owner(List[c])][Res[c]] # NoData

\* remove leaves the caches alone, yet a list forgets a resource in time:
\* the data in which getValue() of a list finds a resource that is gone are
\* from before its removal, and no older than FreshRead allows.
RemovalNoticed ==
  \A c \in Items :
    /\ ret.kind = "value" /\ ret.cache = List[c] /\ refreshDuration[List[c]] # MaxTime
    /\ Res[c] \notin exists
    /\ clock - goneAt[Res[c]] > AgeBound(refreshDuration[List[c]], 0)
    => mem[Owner(List[c])][Res[c]] = NoData

\* An object never shows older data than it did, and none stops showing data
\* while its resource exists: a refresh by a list, the bridge or a create never
\* takes away what an object has seen.
NeverGoesBack ==
  [][\A c \in built :
       Shows(c) # NoData /\ ~ (c \in Items /\ Get(c))
         => Shows(c)' >= Shows(c) \/ (Shows(c)' = NoData /\ Res[c] \notin exists)]_resourceVars
=============================================================================
