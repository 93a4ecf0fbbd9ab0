------------------------------ MODULE APICache ------------------------------
(***************************************************************************)
(* The tree of APICache objects of one bridge.  A root cache holds its own *)
(* JSON; a child has no JSON of its own and reads and writes the entry of  *)
(* its path in base->value, the JSON member of its base cache.             *)
(*                                                                         *)
(* JSON is abstracted to what it knows: mem[c] says, for every resource    *)
(* of the bridge, at what time the bridge served the data about it that    *)
(* c->value holds, or NoData.  The bridge and the network are the          *)
(* environment: a GET takes up to MaxLatency and may fail, resources come  *)
(* and go.  The objects are used by one thread (they have no lock).        *)
(*                                                                         *)
(* Bridge with its lists is a tree of two levels.  With sharedState every  *)
(* light, group, ... is a third level below its list; without it, it is a  *)
(* root seeded with the data of the list (ResourceList::get).              *)
(***************************************************************************)
EXTENDS Integers, FiniteSets

CONSTANTS
  Caches,      \* APICache objects
  Base,        \* the base of each cache, NoCache for a root
  NoCache,
  List,        \* for an item: the list cache it is obtained from, else NoCache
  Factory,     \* the items their list builds with a factory (lights)
  Resources,   \* paths of the bridge's resource tree
  Res,         \* the resource each cache is about
  Under,       \* Under[q]: q and the resources below it
  Permanent,   \* resources that always exist (the lists, the whole state)
  Durations,   \* refresh durations in use, negative ones included
  MaxTime,     \* duration::max(), c_refreshNever
  MaxLatency,  \* bound: duration of a GET
  MaxClock     \* bound: the steady clock stops here

VARIABLES
  clock,        \* steady_clock::now(); its epoch, 0, means "never"
  built,        \* the caches that have been constructed
  refreshDuration,
  lastRefresh,
  mem,          \* value, see above
  exists,       \* the resources that exist at the bridge
  seedAge,      \* history: age of the initial value of a root
  fetched,      \* history: when a GET last brought the data a cache reads
  ret           \* history: what the last getValue or refresh did

vars == <<clock, built, refreshDuration, lastRefresh, mem, exists, seedAge, fetched, ret>>

NoData == 0
NoRet == [cache |-> NoCache, kind |-> "none", stamp |-> NoData, got |-> FALSE]

Items == {c \in Caches : List[c] # NoCache}

\* The JSON a cache reads: base->value, or value in a root.
Owner(c) == IF Base[c] = NoCache THEN c ELSE Base[c]
Stamp(c) == mem[Owner(c)][Res[c]]

ASSUME CacheAssumption ==
  /\ NoCache \notin Caches
  /\ Base \in [Caches -> Caches \cup {NoCache}]
  /\ List \in [Caches -> Caches \cup {NoCache}]
  /\ \A c \in Caches : List[c] # NoCache => Base[c] \in {NoCache, List[c]}
  /\ \A c \in Caches : Base[c] # NoCache => List[Base[c]] = NoCache  \* nothing below an item
  /\ \A c \in Caches :                      \* a list is a child of the bridge cache
       List[c] = NoCache /\ Base[c] # NoCache => Base[Base[c]] = NoCache
  /\ \A c \in Caches : List[c] # NoCache =>
       /\ List[List[c]] = NoCache /\ Res[List[c]] \in Permanent
       /\ Under[Res[c]] = {Res[c]} /\ Res[c] \in Under[Res[List[c]]]
  /\ \A c, d \in Items : Res[c] = Res[d] => List[c] = List[d]
  /\ Factory \subseteq Caches
  /\ Res \in [Caches -> Resources]
  /\ Under \in [Resources -> SUBSET Resources]
  /\ \A p, q \in Resources : q \in Under[q] /\ (q \in Under[p] => Under[q] \subseteq Under[p])
  /\ \A c \in Caches : Base[c] # NoCache => Res[c] \in Under[Res[Base[c]]]
  /\ Permanent \subseteq Resources
  /\ Durations \subseteq Int
  /\ MaxTime \in Nat
  /\ MaxLatency \in Nat
  /\ MaxClock \in Nat \ {0}
  /\ \A d \in Durations : d = MaxTime \/ d + MaxClock < MaxTime  \* finite ones do not overflow

\* Bridge::Bridge and Bridge::setHttpHandler: the bridge cache has no value
\* and was never refreshed; the lists copy its lastRefresh.
Init ==
  /\ clock = 1
  /\ built = Caches \ Items
  /\ refreshDuration \in [Caches -> Durations]
  /\ lastRefresh = [c \in Caches |-> 0]
  /\ mem = [c \in Caches |-> [q \in Resources |-> NoData]]
  /\ exists = Resources
  /\ seedAge = [c \in Caches |-> 0]
  /\ fetched = [c \in Caches |-> 0]
  /\ ret = NoRet

\* Mutant: a child ignores that its base was refreshed.
NotSynced(c) == lastRefresh[c]

\* needsRefresh brings lastRefresh up to that of the base before it decides.
Synced(c) ==
  IF Base[c] # NoCache /\ lastRefresh[Base[c]] > lastRefresh[c]
  THEN lastRefresh[Base[c]] ELSE lastRefresh[c]

NeedsRefresh(c) ==
  \/ Synced(c) = 0
  \/ refreshDuration[c] < 0
  \/ /\ MaxTime - refreshDuration[c] > Synced(c)  \* the sum does not overflow
     /\ clock >= Synced(c) + refreshDuration[c]

\* Mutant: a child never asks its base.
FetchedAlone(c) == c

\* refresh() of c asks the base first, which asks its own base: the cache
\* whose GET is sent.  A tree has at most three levels.
FetchedBy(c) ==
  LET b  == Base[c]
      bb == Base[b]
  IN  IF b = NoCache \/ ~ NeedsRefresh(b) THEN c
      ELSE IF bb = NoCache \/ ~ NeedsRefresh(bb) THEN b ELSE bb

\* The bases whose needsRefresh runs on the way, which syncs them.
AskedBy(c) ==
  LET b == Base[c]
  IN  IF b = NoCache THEN {}
      ELSE IF Base[b] = NoCache \/ ~ NeedsRefresh(b) THEN {b} ELSE {b, Base[b]}

SyncAll(S) == [c \in Caches |-> IF c \in S THEN Synced(c) ELSE lastRefresh[c]]

\* Mutant: the result of a child overwrites the whole value of the base.
ReplacedAll(entry, c, served) ==
  [q \in Resources |-> IF q \in Under[Res[c]] \cap exists THEN served ELSE NoData]

\* Mutant: the new data are merged into the old ones.
ReplacedMerged(entry, c, served) ==
  [q \in Resources |-> IF q \in Under[Res[c]] \cap exists THEN served ELSE entry[q]]

\* The data of a GET replaces the entry of the fetched resource and of all
\* resources below it; what the bridge no longer has is gone.
Replaced(entry, c, served) ==
  [q \in Resources |-> IF q \notin Under[Res[c]] THEN entry[q]
                       ELSE IF q \in exists THEN served ELSE NoData]

Stored(c, served) ==
  [mem EXCEPT ![Owner(c)] = Replaced(mem[Owner(c)], c, served)]

\* Mutants: the GET of a child marks the whole base as up to date; the time
\* of the next refresh is stored instead of that of the last.
MarkedWithBase(f, synced, arrived) ==
  [SyncAll(synced) EXCEPT ![f] = arrived, ![Owner(f)] = arrived]

MarkedNext(f, synced, arrived) ==
  [SyncAll(synced) EXCEPT ![f] = arrived + 1]

\* Only the cache that sent the GET is marked; its children notice when they
\* are asked, its base does not.
Marked(f, synced, arrived) == [SyncAll(synced) EXCEPT ![f] = arrived]

Fetch(f, synced) ==
  /\ Res[f] \in exists
  /\ \E served, arrived \in clock .. MaxClock :
       /\ served <= arrived /\ arrived <= clock + MaxLatency
       /\ clock' = arrived
       /\ lastRefresh' = Marked(f, synced, arrived)
       /\ mem' = Stored(f, served)
       /\ fetched' = [x \in Caches |->
            IF Owner(x) = Owner(f) /\ Res[x] \in Under[Res[f]] THEN arrived ELSE fetched[x]]

\* A socket error, or the bridge answers with an error: GETRequest throws
\* after the bases have been synced.
FetchFails(synced) ==
  /\ lastRefresh' = SyncAll(synced)
  /\ UNCHANGED <<clock, mem, fetched>>

\* The lookup in base->value, or the value of a root.
Returned(c, got, stamp) ==
  [cache |-> c, got |-> got, stamp |-> stamp,
   kind |-> IF stamp = NoData THEN "missing" ELSE "value"]

\* The non-const getValue(): it refreshes an outdated value, then looks the
\* path up in the base without asking again.
GetValue(c) ==
  /\ c \in built
  /\ \/ /\ NeedsRefresh(c)
        /\ Fetch(FetchedBy(c), {c} \cup AskedBy(c))
        /\ ret' = Returned(c, TRUE, mem'[Owner(c)][Res[c]])
     \/ /\ NeedsRefresh(c)
        /\ FetchFails({c} \cup AskedBy(c))
        /\ ret' = [cache |-> c, got |-> FALSE, stamp |-> NoData, kind |-> "failed"]
     \/ /\ ~ NeedsRefresh(c)
        /\ lastRefresh' = SyncAll({c})
        /\ ret' = Returned(c, FALSE, Stamp(c))
        /\ UNCHANGED <<clock, mem, fetched>>
  /\ UNCHANGED <<built, refreshDuration, exists, seedAge>>

\* refresh(), for example from BaseDevice::refresh(true).
Refresh(c) ==
  /\ c \in built
  /\ Fetch(FetchedBy(c), AskedBy(c)) \/ FetchFails(AskedBy(c))
  /\ ret' = NoRet
  /\ UNCHANGED <<built, refreshDuration, exists, seedAge>>

SetRefreshDuration(c, d) ==
  /\ c \in built
  /\ refreshDuration' = [refreshDuration EXCEPT ![c] = d]
  /\ ret' = NoRet
  /\ UNCHANGED <<clock, built, lastRefresh, mem, exists, seedAge, fetched>>

\* ResourceList::get after its stateCache->getValue(): the list's value holds
\* the item.  (It throws otherwise, and changes nothing.)
HasItem(c) ==
  /\ ret.kind = "value"
  /\ ret.cache = List[c]
  /\ mem[Owner(List[c])][Res[c]] # NoData

\* With shared state the item is a child of the list and copies lastRefresh.
ConstructChild(c) ==
  /\ c \in Items
  /\ Base[c] # NoCache
  /\ HasItem(c)
  /\ built' = built \cup {c}
  /\ lastRefresh' = [lastRefresh EXCEPT ![c] = lastRefresh[Base[c]]]
  /\ refreshDuration' = [refreshDuration EXCEPT ![c] = refreshDuration[Base[c]]]
  /\ fetched' = [fetched EXCEPT ![c] = 0]
  /\ ret' = NoRet
  /\ UNCHANGED <<clock, mem, exists, seedAge>>

\* Without it the item is a root that starts with the list's data, "assumed
\* to be up to date"; its constructor calls getValue(), which asks the bridge
\* at once when the duration is not positive (and throws if that fails).
\* A factory has a duration of its own, the one the bridge was built with,
\* whatever the list's is now.
ConstructRoot(c, d) ==
  LET seed == mem[Owner(List[c])][Res[c]]
  IN  /\ c \in Items
      /\ Base[c] = NoCache
      /\ HasItem(c)
      /\ d = refreshDuration[List[c]] \/ c \in Factory
      /\ built' = built \cup {c}
      /\ refreshDuration' = [refreshDuration EXCEPT ![c] = d]
      /\ ret' = NoRet
      /\ \/ /\ d > 0
            /\ lastRefresh' = [lastRefresh EXCEPT ![c] = clock]
            /\ mem' = [mem EXCEPT ![c][Res[c]] = seed]
            /\ seedAge' = [seedAge EXCEPT ![c] = clock - seed]
            /\ fetched' = [fetched EXCEPT ![c] = 0]
            /\ UNCHANGED clock
         \/ /\ d <= 0
            /\ Fetch(c, {})
            /\ seedAge' = [seedAge EXCEPT ![c] = 0]
      /\ UNCHANGED exists

Tick ==
  /\ clock < MaxClock
  /\ clock' = clock + 1
  /\ ret' = NoRet
  /\ UNCHANGED <<built, refreshDuration, lastRefresh, mem, exists, seedAge, fetched>>

\* The environment: somebody removes or adds a resource at the bridge.
BridgeChanges ==
  /\ \E q \in Resources \ Permanent :
       exists' = IF q \in exists THEN exists \ {q} ELSE exists \cup {q}
  /\ ret' = NoRet
  /\ UNCHANGED <<clock, built, refreshDuration, lastRefresh, mem, seedAge, fetched>>

Next ==
  \/ Tick \/ BridgeChanges
  \/ \E c \in Caches : GetValue(c) \/ Refresh(c) \/ ConstructChild(c)
  \/ \E c \in Caches, d \in Durations : ConstructRoot(c, d) \/ SetRefreshDuration(c, d)

Spec == Init /\ [][Next]_vars
----------------------------------------------------------------------------
\* The const getValue(): down from the root, never asking the bridge.  It
\* throws, here NoData, when the root was never refreshed.
Root(c) == IF Base[c] = NoCache THEN c
           ELSE IF Base[Base[c]] = NoCache THEN Base[c] ELSE Base[Base[c]]

ConstStamp(c) == IF lastRefresh[Root(c)] = 0 THEN NoData ELSE mem[Root(c)][Res[c]]

\* Types, and no time in the future.
CacheTypeOK ==
  /\ clock \in 1 .. MaxClock
  /\ built \subseteq Caches
  /\ refreshDuration \in [Caches -> Durations]
  /\ lastRefresh \in [Caches -> Nat]
  /\ \A c \in Caches : lastRefresh[c] <= clock
  /\ mem \in [Caches -> [Resources -> Nat]]
  /\ \A c \in Caches, q \in Resources : mem[c][q] <= clock
  /\ exists \subseteq Resources
  /\ seedAge \in [Caches -> Nat]
  /\ fetched \in [Caches -> Nat]
  /\ ret \in [cache : Caches \cup {NoCache}, got : BOOLEAN, stamp : Nat,
              kind : {"none", "value", "missing", "failed"}]

\* How old a value from getValue() may be: younger than the refresh duration
\* when it was not asked for now, plus the time the GET that brought it
\* took, plus the age of the initial value of a root.
AgeBound(duration, age) == (IF duration > 0 THEN duration - 1 ELSE 0) + MaxLatency + age

\* getValue() never returns older data, although a child's data are stored
\* in, and replaced through, another cache with its own refresh times.
FreshRead ==
  ret.kind = "value" /\ refreshDuration[ret.cache] # MaxTime
    => clock - ret.stamp <= AgeBound(refreshDuration[ret.cache], seedAge[Owner(ret.cache)])

\* A resource that exists all the time is always found: "Child path not
\* present in base cache" is only thrown for what the bridge has removed.
PermanentIsFound ==
  ret.kind = "missing" => Res[ret.cache] \notin Permanent

\* The const getter sees exactly what the non-const getter has returned.
ConstAgrees ==
  ret.kind = "value" => ConstStamp(ret.cache) = ret.stamp

\* What holds with shared state: the bridge and its lists stay fresh and
\* consistent, whatever the items below the lists do.
ListReads ==
  ret.kind # "none" /\ List[ret.cache] = NoCache => FreshRead /\ PermanentIsFound /\ ConstAgrees

\* getValue() asks the bridge for nothing it was told less than a refresh
\* duration ago, by whichever cache: "the number of requests can be reduced".
NoEarlyRefetch ==
  [][ret'.got /\ fetched[ret'.cache] # 0 /\ refreshDuration[ret'.cache] >= 0
       => clock >= fetched[ret'.cache] + refreshDuration[ret'.cache]]_vars

\* What a list hands out is of one moment: the entries of its value (getAll)
\* were all served with the list itself, however the bridge, the list and its
\* items are refreshed and whatever comes and goes.
ListsAreSnapshots ==
  \A c \in Items : LET value == mem[Owner(List[c])]
                  IN  value[Res[c]] \in {NoData, value[Res[List[c]]]}

Roots == {c \in Caches : Base[c] = NoCache}

\* The JSON of the roots, as Replica states it.
View == INSTANCE Replica
          WITH Replicas <- Roots,
               Whole <- [r \in Roots |-> Under[Res[r]]],
               Parts <- [r \in Roots |-> {Under[Res[c]] : c \in {x \in Caches : Owner(x) = r}}],
               now <- clock,
               filled <- {r \in Roots : lastRefresh[r] # 0},
               view <- [r \in Roots |-> mem[r]]

\* The tree of caches implements replicas that change by whole snapshots.
ImplementsReplica == View!Spec
=============================================================================
