-------------------------- MODULE ResourcesProofs ---------------------------
(***************************************************************************)
(* The objects of the library show what was created, removed and, when     *)
(* they are not below a shared list, set through them, whatever the other  *)
(* caches, the bridge and other clients do in between.                     *)
(***************************************************************************)
EXTENDS Resources, APICacheProofs

\* The items that are roots.
Alone == {c \in Items : Base[c] = NoCache}

\* sharedState is false: every item is one.
Unshared == Items = Alone

\* The value of such an item is as new as the last change through it.
Written ==
  \A c \in Alone : wrote[c] # 0 => lastRefresh[c] # 0 /\ mem[c][Res[c]] >= wrote[c]

\* What create returned is below the bridge cache, which was refreshed.
Found ==
  \A c \in Items : Res[c] \in ids =>
    /\ lastRefresh[Owner(List[c])] # 0
    /\ mem[Owner(List[c])][Res[c]] # NoData
    /\ mem[Owner(List[c])][Res[List[c]]] # NoData

\* No cache knows a resource that is gone from after its removal.
GoneData == \A x \in Caches, q \in Resources \ exists : mem[x][q] <= goneAt[q]

\* The lists and the bridge cache have no initial value.
NoSeeds == \A x \in Caches \ Items : seedAge[x] = 0

\* FreshRead for everything a getter finds below its resource, not only for
\* the resource itself: a list hands out its entries.
FreshBelow ==
  ret.cache \in Rooted /\ ret.kind = "value" /\ refreshDuration[ret.cache] # MaxTime =>
    \A q \in Under[Res[ret.cache]] : mem[Owner(ret.cache)][q] # NoData =>
      clock - mem[Owner(ret.cache)][q]
        <= AgeBound(refreshDuration[ret.cache], seedAge[Owner(ret.cache)])

History == Permanent \subseteq exists /\ Written /\ Found /\ GoneData

ResourceInv == CacheInv /\ ResourceTypeOK /\ History /\ NoSeeds /\ FreshBelow

\* What a step may do to the data: replace what exists by newer data and drop
\* what is gone.  D is the item that is constructed, if any.
Later(D) ==
  /\ \A x \in Caches \ D : lastRefresh[x] # 0 => lastRefresh'[x] # 0
  /\ \A c \in Items \ D : mem'[c][Res[c]] >= mem[c][Res[c]]
  /\ \A x \in Caches \ Items, q \in exists : mem'[x][q] >= mem[x][q]
  /\ \A x \in Caches, q \in Resources \ exists : mem'[x][q] <= goneAt[q]
----------------------------------------------------------------------------
\* No list is an item.
LEMMA ItemLists ==
  ASSUME NEW c \in Items
  PROVE  /\ c \in Caches /\ Res[c] \in Resources /\ Under[Res[c]] = {Res[c]}
         /\ List[c] \in Caches \ Items /\ List[c] \in Rooted
         /\ Owner(List[c]) \in Caches \ Items /\ Base[Owner(List[c])] = NoCache
         /\ Res[c] \in Under[Res[List[c]]] /\ Res[List[c]] \in Permanent
<1>1. /\ c \in Caches /\ Res[c] \in Resources /\ Under[Res[c]] = {Res[c]}
      /\ List[c] \in Caches \ Items /\ Owner(List[c]) \in Caches \ Items
      /\ Res[c] \in Under[Res[List[c]]] /\ Res[List[c]] \in Permanent
  BY CacheAssumption DEF Items, Owner
<1> QED BY <1>1, ListsAreRooted, RootedStructure

\* An item is nobody's base.
LEMMA ItemsOwn ==
  ASSUME NEW c \in Items
  PROVE  \A x \in Caches : Owner(x) = c => x = c /\ c \in Alone
BY CacheAssumption DEF Items, Alone, Owner

LEMMA AloneOwns ==
  ASSUME NEW c \in Alone
  PROVE  c \in Items /\ Owner(c) = c /\ FetchedBy(c) = c /\ AskedBy(c) = {}
BY DEF Alone, Owner, FetchedBy, AskedBy

LEMMA FetchIsLater ==
  ASSUME CacheInv, GoneData, goneAt \in [Resources -> Nat],
         NEW f \in Caches, NEW S, Fetch(f, S)
  PROVE  Later({})
<1> USE DEF CacheInv
<1>1. \A x \in Caches : lastRefresh[x] # 0 => lastRefresh'[x] # 0
  BY FetchReplaces DEF CacheTypeOK
<1>2. \A x \in Caches, q \in Resources : mem[x][q] \in Nat /\ mem[x][q] <= clock /\ clock \in Nat
  BY DEF CacheTypeOK
<1>3. \A x \in Caches, q \in exists : q \in Resources /\ mem'[x][q] >= mem[x][q]
  <2> TAKE x \in Caches, q \in exists
  <2>1. q \in Resources
    BY DEF CacheTypeOK
  <2>2. mem'[x][q] = mem[x][q] \/ mem'[x][q] >= clock
    BY <2>1, FetchReplaces
  <2>3. mem' \in [Caches -> [Resources -> Nat]]
    BY FetchLeaves
  <2> QED BY <1>2, <2>1, <2>2, <2>3
<1>4. \A x \in Caches, q \in Resources \ exists : mem'[x][q] <= goneAt[q]
  BY FetchReplaces DEF GoneData, NoData
<1>5. ASSUME NEW c \in Items PROVE mem'[c][Res[c]] >= mem[c][Res[c]]
  <2>1. c \in Caches /\ Res[c] \in Resources /\ (Owner(f) = c => f = c)
    BY ItemLists, ItemsOwn
  <2>2. CASE Owner(f) = c
    <3>1. Res[f] \in exists
      BY FetchReplaces
    <3> QED BY <1>3, <2>1, <2>2, <3>1
  <2>3. CASE Owner(f) # c
    <3>1. mem'[c][Res[c]] = mem[c][Res[c]]
      BY <2>1, <2>3, FetchReplaces
    <3> QED BY <1>2, <2>1, <3>1
  <2> QED BY <2>2, <2>3
<1> QED BY <1>1, <1>3, <1>4, <1>5 DEF Later

LEMMA SyncIsLater ==
  ASSUME CacheInv, GoneData, NEW S, lastRefresh' = SyncAll(S), mem' = mem
  PROVE  Later({})
<1>1. \A x \in Caches : lastRefresh[x] # 0 => lastRefresh'[x] # 0
  BY CacheAssumption DEF SyncAll, Synced, CacheInv, CacheTypeOK
<1>2. \A x \in Caches, q \in Resources : mem[x][q] \in Nat
  BY DEF CacheInv, CacheTypeOK
<1>3. exists \subseteq Resources /\ \A c \in Items : c \in Caches /\ Res[c] \in Resources
  BY CacheAssumption DEF CacheInv, CacheTypeOK, Items
<1> QED BY <1>1, <1>2, <1>3 DEF Later, GoneData

\* Such a step keeps what create returned.
LEMMA FoundKept ==
  ASSUME CacheInv, ResourceTypeOK, History, NEW D \in SUBSET Items, Later(D),
         mem' \in [Caches -> [Resources -> Nat]],
         NEW c \in Items, Res[c] \in ids
  PROVE  /\ lastRefresh'[Owner(List[c])] # 0
         /\ mem'[Owner(List[c])][Res[c]] # NoData
         /\ mem'[Owner(List[c])][Res[List[c]]] # NoData
<1> DEFINE o == Owner(List[c])
<1>1. o \in Caches \ Items /\ Res[c] \in exists /\ Res[List[c]] \in exists
  BY ItemLists DEF ResourceTypeOK, History
<1>2. lastRefresh[o] # 0 /\ mem[o][Res[c]] # NoData /\ mem[o][Res[List[c]]] # NoData
  BY DEF History, Found
<1>3. exists \subseteq Resources
  BY DEF CacheInv, CacheTypeOK
<1>4. \A q \in exists : mem[o][q] \in Nat /\ mem'[o][q] \in Nat /\ mem'[o][q] >= mem[o][q]
  BY <1>1, <1>3 DEF CacheInv, CacheTypeOK, Later
<1>5. lastRefresh'[o] # 0
  BY <1>1, <1>2 DEF Later
<1> HIDE DEF o
<1>6. mem'[o][Res[c]] # NoData /\ mem'[o][Res[List[c]]] # NoData
  BY <1>1, <1>2, <1>4 DEF NoData
<1> QED BY <1>5, <1>6 DEF o

\* It keeps what the objects show of the changes made through them.
LEMMA WrittenKept ==
  ASSUME CacheInv, ResourceTypeOK, Written, NEW D \in SUBSET Items, Later(D),
         mem' \in [Caches -> [Resources -> Nat]],
         NEW c \in Alone, c \notin D, wrote'[c] # 0, wrote'[c] = wrote[c]
  PROVE  lastRefresh'[c] # 0 /\ mem'[c][Res[c]] >= wrote'[c]
<1>1. c \in Items /\ c \in Caches /\ Res[c] \in Resources
  BY AloneOwns, ItemLists
<1>2. lastRefresh[c] # 0 /\ mem[c][Res[c]] >= wrote[c]
  BY DEF Written
<1>3. mem'[c][Res[c]] \in Nat /\ mem[c][Res[c]] \in Nat /\ wrote[c] \in Nat
  BY <1>1 DEF CacheInv, CacheTypeOK, ResourceTypeOK
<1> QED BY <1>1, <1>2, <1>3 DEF Later

LEMMA HistoryKept ==
  ASSUME CacheInv, ResourceTypeOK, History, NEW D \in SUBSET Items, Later(D),
         mem' \in [Caches -> [Resources -> Nat]],
         exists' = exists, goneAt' = goneAt, ids' \subseteq ids,
         \A c \in Items : wrote'[c] \in {0, wrote[c]} /\ (c \in D => wrote'[c] = 0)
  PROVE  History'
<1>1. Written'
  <2> SUFFICES ASSUME NEW c \in Alone, wrote'[c] # 0
               PROVE  lastRefresh'[c] # 0 /\ mem'[c][Res[c]] >= wrote'[c]
    BY DEF Written, Alone, Items
  <2>1. wrote'[c] = wrote[c] /\ c \notin D
    BY AloneOwns
  <2> QED BY <2>1, WrittenKept DEF History
<1>2. Found'
  <2> SUFFICES ASSUME NEW c \in Items, Res[c] \in ids'
               PROVE  /\ lastRefresh'[Owner(List[c])] # 0
                      /\ mem'[Owner(List[c])][Res[c]] # NoData
                      /\ mem'[Owner(List[c])][Res[List[c]]] # NoData
    BY DEF Found, Items, Owner
  <2> QED BY FoundKept
<1>3. GoneData'
  BY DEF Later, GoneData
<1> QED BY <1>1, <1>2, <1>3 DEF History

----------------------------------------------------------------------------
LEMMA ResourceStart == ASSUME ResourceInit PROVE ResourceInv
<1>1. CacheInv
  BY CacheInit DEF ResourceInit
<1>2. ResourceTypeOK
  BY <1>1 DEF ResourceInit, Init, ResourceTypeOK, CacheInv
<1> QED BY <1>1, <1>2, CacheAssumption
        DEF ResourceInit, Init, ResourceInv, History, Written, Found, GoneData, NoSeeds,
            FreshBelow, Items, Alone, NoRet, NoData

\* Only time passes, a request is answered or a resource comes or goes.
LEMMA Waits ==
  ASSUME CacheInv, clock' \in clock .. MaxClock, exists' \subseteq Resources, ret' = NoRet,
         UNCHANGED <<built, refreshDuration, lastRefresh, mem, seedAge, fetched>>
  PROVE  CacheInv'
<1> USE DEF CacheInv
<1>1. clock \in Nat /\ clock' \in 1 .. MaxClock /\ clock <= clock'
  BY DEF CacheTypeOK
<1>2. ret' \in [cache : Caches \cup {NoCache}, got : BOOLEAN, stamp : Nat,
                kind : {"none", "value", "missing", "failed"}]
  BY DEF NoRet, NoData
<1>3. \A x \in Caches : lastRefresh[x] <= clock'
  BY <1>1 DEF CacheTypeOK
<1>4. \A x \in Caches, q \in Resources : mem[x][q] <= clock'
  BY <1>1 DEF CacheTypeOK
<1>5. CacheTypeOK'
  BY <1>1, <1>2, <1>3, <1>4 DEF CacheTypeOK
<1>6. AgeInv'
  BY DEF AgeInv, Believes, Owner, Rooted
<1> QED BY <1>5, <1>6 DEF RootedFresh, FreshRead, NoRet

\* The types of the histories in a step that advances no history by more
\* than the clock.
LEMMA JobTypes ==
  ASSUME ResourceTypeOK, CacheTypeOK', clock <= clock', class' = class,
         job' \in {job, NoJob},
         \A c \in Caches : wrote'[c] \in {0, wrote[c]} \/ (job # NoJob /\ wrote'[c] = job.at),
         wrote' = [c \in Caches |-> wrote'[c]],
         ids' \subseteq exists', goneAt' = goneAt
  PROVE  ResourceTypeOK'
<1>0. clock \in Nat /\ clock' \in Nat
  BY DEF ResourceTypeOK, CacheTypeOK
<1>1. job # NoJob => job \in [op : {"set", "create"}, on : Items, at : 1 .. clock]
  BY DEF ResourceTypeOK
<1>2. job' \in [op : {"set", "create"}, on : Items, at : 1 .. clock'] \cup {NoJob}
  BY <1>0, <1>1
<1>3. \A c \in Caches : wrote'[c] \in 0 .. clock'
  <2> TAKE c \in Caches
  <2>1. wrote[c] \in 0 .. clock
    BY DEF ResourceTypeOK
  <2>2. job # NoJob => job.at \in 1 .. clock
    BY <1>1
  <2> QED BY <1>0, <2>1, <2>2
<1>4. wrote' \in [Caches -> 0 .. clock']
  BY <1>3
<1>5. goneAt' \in [Resources -> 0 .. clock']
  BY <1>0 DEF ResourceTypeOK
<1> QED BY <1>2, <1>4, <1>5 DEF ResourceTypeOK, Items

\* A setter returns after its GET, or without one.
LEMMA ReturnsKeeps ==
  ASSUME ResourceInv, NEW c \in Items, Returns(c),
         job.op = "set",
         CacheInv', clock <= clock', Later({}),
         c \in Alone /\ class[c] \in Forcing => lastRefresh'[c] # 0 /\ mem'[c][Res[c]] >= job.at
  PROVE  ResourceInv'
<1> USE DEF ResourceInv
<1>0. /\ job' = NoJob /\ ret' = NoRet /\ c \in Caches /\ job # NoJob
      /\ UNCHANGED <<built, refreshDuration, seedAge, class, goneAt, exists, ids>>
      /\ wrote' = [wrote EXCEPT ![c] = IF class[c] \in Forcing THEN job.at ELSE 0]
  BY ItemLists DEF Returns, Done, NoJob
<1>1. wrote' = [x \in Caches |-> wrote'[x]]
      /\ \A x \in Caches : wrote'[x] = IF x = c THEN IF class[c] \in Forcing THEN job.at ELSE 0
                                       ELSE wrote[x]
  BY <1>0 DEF ResourceTypeOK
<1>2. ResourceTypeOK'
  BY <1>0, <1>1, JobTypes DEF ResourceTypeOK, CacheInv
<1>6. mem' \in [Caches -> [Resources -> Nat]]
  BY DEF CacheInv, CacheTypeOK
<1>3. Written'
  <2> SUFFICES ASSUME NEW x \in Alone, wrote'[x] # 0
               PROVE  lastRefresh'[x] # 0 /\ mem'[x][Res[x]] >= wrote'[x]
    BY DEF Written, Alone, Items
  <2>1. CASE x = c
    BY <1>0, <1>1, <2>1
  <2>2. CASE x # c
    <3>1. wrote'[x] = wrote[x]
      BY <1>1, <2>2, AloneOwns, ItemLists
    <3> QED BY <1>6, <3>1, WrittenKept DEF History
  <2> QED BY <2>1, <2>2
<1>4. Found' /\ GoneData'
  <2>1. Found'
    <3> SUFFICES ASSUME NEW x \in Items, Res[x] \in ids'
                 PROVE  /\ lastRefresh'[Owner(List[x])] # 0
                        /\ mem'[Owner(List[x])][Res[x]] # NoData
                        /\ mem'[Owner(List[x])][Res[List[x]]] # NoData
      BY DEF Found, Items, Owner
    <3> QED BY <1>0, <1>6, FoundKept
  <2> QED BY <1>0, <2>1 DEF Later, GoneData
<1>5. NoSeeds' /\ FreshBelow'
  BY <1>0 DEF NoSeeds, FreshBelow, NoRet
<1> QED BY <1>0, <1>2, <1>3, <1>4, <1>5 DEF History

\* ... or throws, like every step that is not the end of a setter or create.
LEMMA OthersKeep ==
  ASSUME ResourceInv, CacheInv', clock <= clock', Later({}),
         ret' = NoRet, job' \in {job, NoJob},
         UNCHANGED <<seedAge, class, goneAt, exists, ids, wrote>>
  PROVE  ResourceInv'
<1> USE DEF ResourceInv
<1>1. ResourceTypeOK'
  BY JobTypes DEF ResourceTypeOK, CacheInv
<1>2. mem' \in [Caches -> [Resources -> Nat]]
  BY DEF CacheInv, CacheTypeOK
<1>3. History'
  BY <1>2, HistoryKept
<1> QED BY <1>1, <1>3 DEF NoSeeds, FreshBelow, NoRet

\* A GET of any cache outside getValue(), as part of a setter or a create.
LEMMA JobFetch ==
  ASSUME ResourceInv, NEW f \in Caches, NEW S, Fetch(f, S), Done, exists' = exists
  PROVE  CacheInv' /\ clock <= clock' /\ Later({})
<1>1. CacheInv'
  BY QuietFetch DEF ResourceInv, Done
<1>2. Later({})
  BY FetchIsLater DEF ResourceInv, History, ResourceTypeOK
<1> QED BY <1>1, <1>2, FetchReplaces DEF ResourceInv

LEMMA JobFails ==
  ASSUME ResourceInv, NEW S, FetchFails(S), Throws
  PROVE  ResourceInv'
<1>1. /\ lastRefresh' = SyncAll(S)
      /\ UNCHANGED <<clock, mem, fetched, built, refreshDuration, exists, seedAge>>
      /\ ret' = NoRet /\ job' = NoJob
      /\ UNCHANGED <<class, goneAt, exists, ids, wrote>>
  BY DEF FetchFails, Throws, Done
<1>2. CacheInv'
  BY <1>1, QuietSync DEF ResourceInv
<1>3. Later({})
  BY <1>1, SyncIsLater DEF ResourceInv, History
<1>4. clock \in Nat
  BY DEF ResourceInv, CacheInv, CacheTypeOK
<1> QED BY <1>1, <1>2, <1>3, <1>4, OthersKeep

\* The GET of an item brings data that are newer than the PUT before it.
LEMMA ForcedRefreshStep ==
  ASSUME ResourceInv, NEW c \in Items, job.op = "set", ForcedRefresh(c)
  PROVE  ResourceInv'
<1> DEFINE f == FetchedBy(c)
<1>0. c \in Caches /\ Res[c] \in Resources /\ Res[c] \in Under[Res[c]] /\ f \in Caches
  BY ItemLists, Structure, FetchedByAsks
<1>1. CASE Fetch(f, AskedBy(c)) /\ Returns(c)
  <2>1. CacheInv' /\ clock <= clock' /\ Later({})
    BY <1>0, <1>1, JobFetch DEF Returns
  <2>2. job # NoJob /\ job.at \in 1 .. clock /\ clock \in Nat
    BY DEF ResourceInv, ResourceTypeOK, NoJob, CacheInv, CacheTypeOK
  <2>3. ASSUME c \in Alone PROVE lastRefresh'[c] # 0 /\ mem'[c][Res[c]] >= job.at
    <3>1. f = c /\ Owner(c) = c
      BY <2>3, AloneOwns
    <3>2. Res[c] \in exists /\ mem'[c][Res[c]] >= clock /\ lastRefresh'[c] = clock'
      BY <1>0, <1>1, <3>1, FetchReplaces DEF ResourceInv
    <3>3. mem'[c][Res[c]] \in Nat /\ clock' \in 1 .. MaxClock
      BY <1>0, <2>1 DEF CacheInv, CacheTypeOK
    <3> QED BY <2>2, <3>2, <3>3
  <2> QED BY <1>1, <2>1, <2>3, ReturnsKeeps
<1>2. CASE FetchFails(AskedBy(c)) /\ Throws
  BY <1>2, JobFails
<1> QED BY <1>1, <1>2 DEF ForcedRefresh

\* Scenes promise nothing about what was set, so any outcome will do.
LEMMA LazyRefreshStep ==
  ASSUME ResourceInv, NEW c \in Items, job.op = "set", class[c] \notin Forcing,
         LazyRefresh(c)
  PROVE  ResourceInv'
<1>0. c \in Caches /\ FetchedBy(c) \in Caches
  BY ItemLists, FetchedByAsks
<1>1. CASE /\ Fetch(FetchedBy(c), {c} \cup AskedBy(c))
           /\ Returns(c) \/ Throws
  <2>1. CacheInv' /\ clock <= clock' /\ Later({})
    BY <1>0, <1>1, JobFetch DEF Returns, Throws
  <2>2. CASE Returns(c)
    BY <2>1, <2>2, ReturnsKeeps
  <2>3. CASE Throws
    BY <2>1, <2>3, OthersKeep DEF Throws, Done
  <2> QED BY <1>1, <2>2, <2>3
<1>2. CASE FetchFails({c} \cup AskedBy(c)) /\ Throws
  BY <1>2, JobFails
<1>3. CASE /\ lastRefresh' = SyncAll({c})
           /\ UNCHANGED <<clock, mem, fetched>>
           /\ Returns(c) \/ Throws
  <2>1. /\ UNCHANGED <<built, refreshDuration, exists, seedAge>>
        /\ ret' = NoRet
    BY <1>3 DEF Returns, Throws, Done
  <2>2. CacheInv'
    BY <1>3, <2>1, QuietSync DEF ResourceInv
  <2>3. Later({}) /\ clock <= clock'
    BY <1>3, SyncIsLater DEF ResourceInv, History, CacheInv, CacheTypeOK
  <2>4. CASE Returns(c)
    BY <2>2, <2>3, <2>4, ReturnsKeeps
  <2>5. CASE Throws
    BY <2>2, <2>3, <2>5, OthersKeep DEF Throws, Done
  <2> QED BY <1>3, <2>4, <2>5
<1> QED BY <1>0, <1>1, <1>2, <1>3 DEF LazyRefresh

LEMMA DeviceSettersStep ==
  ASSUME ResourceInv, NEW c \in Items, DeviceSetters(c)
  PROVE  ResourceInv'
<1>1. /\ Returns(c) /\ job.op = "set" /\ class[c] \notin Forcing
      /\ UNCHANGED <<clock, lastRefresh, mem, fetched>>
      /\ UNCHANGED <<built, refreshDuration, exists, seedAge>> /\ ret' = NoRet
  BY DEF DeviceSetters, Setting, Forcing, Returns, Done
<1>2. clock \in Nat /\ clock \in clock .. MaxClock /\ exists \subseteq Resources
  BY CacheAssumption DEF ResourceInv, CacheInv, CacheTypeOK
<1>3. CacheInv'
  BY <1>1, <1>2, Waits DEF ResourceInv
<1>4. \A x \in Caches, q \in Resources : mem[x][q] \in Nat
  BY DEF ResourceInv, CacheInv, CacheTypeOK
<1>5. \A x \in Items : x \in Caches /\ Res[x] \in Resources
  BY CacheAssumption DEF Items
<1>6. Later({})
  BY <1>1, <1>2, <1>4, <1>5 DEF Later, ResourceInv, History, GoneData
<1> QED BY <1>1, <1>2, <1>3, <1>6, ReturnsKeeps

\* The refresh of the list finds what the POST has made, unless it is gone.
LEMMA CreatedStep ==
  ASSUME ResourceInv, NEW c \in Items, Created(c)
  PROVE  ResourceInv'
<1> DEFINE l == List[c]
           o == Owner(l)
           f == FetchedBy(l)
<1>0. /\ c \in Caches /\ l \in Rooted /\ l \in Caches /\ o \in Caches \ Items
      /\ Res[c] \in Under[Res[l]] /\ Res[l] \in Permanent
  BY ItemLists
<1>1. CASE /\ Fetch(f, AskedBy(l)) /\ Done
           /\ ids' = ids \cup ({Res[c]} \cap exists)
           /\ UNCHANGED <<exists, wrote>>
  <2>1. f \in {l, o} /\ Owner(f) = o /\ f \in Caches /\ Res[l] \in Under[Res[f]]
    BY <1>0, FetchedByOwn, RootedCaches
  <2>2. /\ Res[l] \in Under[Res[l]] /\ Under[Res[l]] \subseteq Under[Res[f]]
        /\ Res[c] \in Resources /\ Res[l] \in Resources
    BY <1>0, <2>1, Structure, CacheAssumption
  <2> HIDE DEF f, o, l
  <2>3. CacheInv' /\ clock <= clock' /\ Later({})
    BY <1>1, <2>1, JobFetch
  <2>4. mem' \in [Caches -> [Resources -> Nat]] /\ clock \in 1 .. MaxClock /\ exists \subseteq Resources
    BY <2>3 DEF ResourceInv, CacheInv, CacheTypeOK
  <2>5. lastRefresh'[o] # 0
    <3>1. CASE f = o
      BY <1>1, <2>1, <2>4, <3>1, <1>0, FetchReplaces DEF ResourceInv
    <3>2. CASE f # o
      <4>1. f = l /\ Base[l] # NoCache /\ o = Base[l] /\ Base[o] = NoCache
        BY <1>0, <2>1, <3>2, RootedStructure DEF o, Owner
      <4>2. ~ NeedsRefresh(o)
        BY <1>0, <4>1, FetchedByAsks DEF f
      <4>3. lastRefresh[o] # 0
        BY <4>1, <4>2 DEF NeedsRefresh, Synced
      <4> QED BY <1>0, <2>3, <4>3 DEF Later
    <3> QED BY <3>1, <3>2
  <2>6. \A q \in Under[Res[l]] \cap exists : mem'[o][q] # NoData
    <3> TAKE q \in Under[Res[l]] \cap exists
    <3>1. q \in Under[Res[f]] /\ q \in exists /\ q \in Resources
      BY <2>2, <2>4
    <3>2. mem'[o][q] >= clock
      BY <1>0, <1>1, <2>1, <3>1, FetchReplaces DEF ResourceInv
    <3>3. mem'[o][q] \in Nat
      BY <1>0, <2>4, <3>1
    <3> QED BY <2>4, <3>2, <3>3 DEF NoData
  <2>7. ResourceTypeOK'
    BY <1>1, <2>3, JobTypes DEF Done, ResourceInv, ResourceTypeOK, CacheInv
  <2>8. Found'
    <3> SUFFICES ASSUME NEW x \in Items, Res[x] \in ids'
                 PROVE  /\ lastRefresh'[Owner(List[x])] # 0
                        /\ mem'[Owner(List[x])][Res[x]] # NoData
                        /\ mem'[Owner(List[x])][Res[List[x]]] # NoData
      BY DEF Found, Items, Owner
    <3>1. CASE Res[x] \in ids
      BY <2>3, <2>4, <3>1, FoundKept DEF ResourceInv
    <3>2. CASE Res[x] = Res[c] /\ Res[c] \in exists
      <4>1. List[x] = l
        BY <3>2, CacheAssumption DEF l
      <4>2. Res[l] \in exists
        BY <1>0 DEF ResourceInv, History
      <4> QED BY <1>0, <2>2, <2>5, <2>6, <3>2, <4>1, <4>2 DEF o
    <3> QED BY <1>1, <3>1, <3>2
  <2>9. Written'
    <3> SUFFICES ASSUME NEW x \in Alone, wrote'[x] # 0
                 PROVE  lastRefresh'[x] # 0 /\ mem'[x][Res[x]] >= wrote'[x]
      BY DEF Written, Alone, Items
    <3> QED BY <1>1, <2>3, <2>4, WrittenKept DEF ResourceInv, History
  <2>10. GoneData'
    BY <1>1, <2>3 DEF Later, GoneData, Done
  <2>11. NoSeeds' /\ FreshBelow'
    BY <1>1 DEF Done, ResourceInv, NoSeeds, FreshBelow, NoRet
  <2> QED BY <1>1, <2>3, <2>7, <2>8, <2>9, <2>10, <2>11 DEF ResourceInv, History
<1>2. CASE FetchFails(AskedBy(l)) /\ Throws
  BY <1>2, JobFails
<1> QED BY <1>1, <1>2 DEF Created

\* Time passes, or somebody adds or removes a resource.
LEMMA BridgeStep ==
  ASSUME ResourceInv, clock' \in clock .. MaxClock, ret' = NoRet,
         UNCHANGED <<built, refreshDuration, lastRefresh, mem, seedAge, fetched, class, wrote>>,
         job' \in [op : {"set", "create"}, on : Items, at : 1 .. clock'] \cup {NoJob},
         NEW q \in Resources,
         \/ UNCHANGED <<exists, ids, goneAt>>
         \/ /\ q \notin Permanent
            /\ exists' = exists \ {q} /\ ids' = ids \ {q}
            /\ goneAt' = [goneAt EXCEPT ![q] = clock]
         \/ /\ exists' = exists \cup {q} /\ ids' = ids
            /\ goneAt' = [goneAt EXCEPT ![q] = 0]
  PROVE  ResourceInv'
<1> USE DEF ResourceInv
<1>0. /\ clock \in Nat /\ clock' \in Nat /\ clock <= clock' /\ exists \subseteq Resources
      /\ \A x \in Caches, r \in Resources : mem[x][r] <= clock
  BY CacheAssumption DEF CacheInv, CacheTypeOK
<1>1. exists' \subseteq Resources /\ Permanent \subseteq exists'
  BY <1>0 DEF History
<1>2. CacheInv'
  BY <1>1, Waits
<1>3. ResourceTypeOK'
  <2>1. wrote' \in [Caches -> 0 .. clock']
    BY <1>0 DEF ResourceTypeOK
  <2>2. ids' \subseteq exists'
    BY DEF ResourceTypeOK
  <2>3. goneAt' \in [Resources -> 0 .. clock']
    BY <1>0 DEF ResourceTypeOK
  <2> QED BY <1>2, <2>1, <2>2, <2>3 DEF ResourceTypeOK, CacheInv, Items
<1>4. Written' /\ NoSeeds' /\ FreshBelow'
  BY DEF History, Written, NoSeeds, FreshBelow, NoRet, Items, Alone, Rooted, Owner
<1>5. Found'
  BY DEF History, Found, Items, Owner
<1>6. GoneData'
  <2> SUFFICES ASSUME NEW x \in Caches, NEW r \in Resources \ exists'
               PROVE  mem[x][r] <= goneAt'[r]
    BY DEF GoneData
  <2>1. CASE r \in exists
    BY <1>0, <2>1 DEF ResourceTypeOK
  <2>2. CASE r \notin exists
    <3>1. mem[x][r] <= goneAt[r] /\ mem[x][r] <= clock
      BY <1>0, <2>2 DEF History, GoneData
    <3>2. goneAt'[r] \in {goneAt[r], clock}
      BY <2>2 DEF ResourceTypeOK
    <3> QED BY <3>1, <3>2
  <2> QED BY <2>1, <2>2
<1> QED BY <1>1, <1>2, <1>3, <1>4, <1>5, <1>6 DEF History

LEMMA ChangedStep ==
  ASSUME ResourceInv, NEW c \in Items, Put(c) \/ Post(c) \/ Remove(c)
  PROVE  ResourceInv'
<1>0. clock \in 1 .. MaxClock /\ MaxClock \in Nat /\ Res[c] \in Resources
  BY CacheAssumption DEF ResourceInv, CacheInv, CacheTypeOK, Items
<1>1. CASE Put(c)
  <2>1. clock' \in clock .. MaxClock /\ job' = [op |-> "set", on |-> c, at |-> clock']
    BY <1>0, <1>1 DEF Put, Changed
  <2>2. job' \in [op : {"set", "create"}, on : Items, at : 1 .. clock']
    BY <1>0, <2>1
  <2> QED BY <1>0, <1>1, <2>1, <2>2, BridgeStep DEF Put, Changed
<1>2. CASE Post(c)
  <2>1. clock' \in clock .. MaxClock /\ job' = [op |-> "create", on |-> c, at |-> clock']
    BY <1>0, <1>2 DEF Post, Changed
  <2>2. job' \in [op : {"set", "create"}, on : Items, at : 1 .. clock']
    BY <1>0, <2>1
  <2> QED BY <1>0, <1>2, <2>1, <2>2, BridgeStep DEF Post, Changed, Appears
<1>3. CASE Remove(c)
  <2>1. clock' \in clock .. MaxClock
    BY <1>0, <1>3 DEF Remove
  <2>2. job' \in [op : {"set", "create"}, on : Items, at : 1 .. clock'] \cup {NoJob}
    BY <1>3 DEF Remove, ResourceInv, ResourceTypeOK
  <2> QED BY <1>0, <1>3, <2>1, <2>2, BridgeStep DEF Remove, Gone
<1> QED BY <1>1, <1>2, <1>3

LEMMA EnvironmentStep ==
  ASSUME ResourceInv, (Tick /\ UNCHANGED jobVars) \/ OthersChange
  PROVE  ResourceInv'
<1>0. clock \in 1 .. MaxClock /\ MaxClock \in Nat
  BY CacheAssumption DEF ResourceInv, CacheInv, CacheTypeOK
<1>1. clock' \in clock .. MaxClock /\ job' = job /\ clock <= clock'
  BY <1>0 DEF Tick, OthersChange, jobVars
<1>2. job' \in [op : {"set", "create"}, on : Items, at : 1 .. clock'] \cup {NoJob}
  <2>1. job # NoJob => job \in [op : {"set", "create"}, on : Items, at : 1 .. clock]
    BY DEF ResourceInv, ResourceTypeOK
  <2> QED BY <1>0, <1>1, <2>1
<1>3. CASE Tick /\ UNCHANGED jobVars
  <2>1. CacheInv'
    BY <1>1, <1>3, Waits DEF Tick, ResourceInv, CacheInv, CacheTypeOK
  <2>2. Later({})
    <3>1. \A x \in Caches, q \in Resources : mem[x][q] \in Nat
      BY DEF ResourceInv, CacheInv, CacheTypeOK
    <3>2. exists \subseteq Resources /\ \A c \in Items : c \in Caches /\ Res[c] \in Resources
      BY CacheAssumption DEF ResourceInv, CacheInv, CacheTypeOK, Items
    <3> QED BY <1>3, <3>1, <3>2 DEF Tick, Later, ResourceInv, History, GoneData
  <2> QED BY <1>1, <1>3, <2>1, <2>2, OthersKeep DEF Tick, jobVars
<1>4. CASE OthersChange
  <2>1. PICK q \in Resources \ Permanent :
           \/ q \in exists /\ Gone(q)
           \/ q \notin exists /\ Appears(q) /\ UNCHANGED ids
    BY <1>4 DEF OthersChange
  <2> QED BY <1>1, <1>2, <1>4, <2>1, BridgeStep DEF OthersChange, Gone, Appears
<1> QED BY <1>3, <1>4

\* A new object starts with what its list knows, or with a GET.
LEMMA GetStep ==
  ASSUME ResourceInv, NEW c \in Items, Get(c) \/ GetSchedule(c)
  PROVE  ResourceInv'
<1> USE DEF ResourceInv
<1> DEFINE seed == mem[Owner(List[c])][Res[c]]
<1>0. /\ c \in Caches /\ List[c] \in Caches /\ Owner(List[c]) \in Caches /\ Res[c] \in Resources
      /\ Base[c] \in Caches \cup {NoCache}
  BY ItemLists, CacheAssumption
<1>1. /\ UNCHANGED <<class, job, ids, goneAt, exists>> /\ ret' = NoRet
      /\ wrote' = [wrote EXCEPT ![c] = 0]
      /\ \A x \in Caches \ Items : seedAge'[x] = seedAge[x]
      /\ \/ Fetch(c, {})
         \/ /\ lastRefresh' = [lastRefresh EXCEPT ![c] = clock]
            /\ mem' = [mem EXCEPT ![c][Res[c]] = seed]
            /\ UNCHANGED clock
         \/ /\ lastRefresh' = [lastRefresh EXCEPT ![c] = lastRefresh[Base[c]]]
            /\ UNCHANGED <<mem, clock>>
  <2>1. CASE GetSchedule(c)
    BY <1>0, <2>1 DEF GetSchedule, CacheInv, CacheTypeOK
  <2>2. CASE Get(c) /\ ConstructChild(c)
    BY <2>2 DEF Get, ConstructChild
  <2>3. CASE Get(c) /\ \E d \in Durations : ConstructRoot(c, d)
    BY <1>0, <2>3 DEF Get, ConstructRoot, CacheInv, CacheTypeOK
  <2> QED BY <2>1, <2>2, <2>3 DEF Get
<1>2. CacheInv'
  <2>1. CASE Get(c)
    BY <1>0, <2>1, ConstructRootStep, ConstructChildStep DEF Get
  <2>2. CASE GetSchedule(c)
    <3>1. refreshDuration[List[c]] \in Durations
      BY <1>0 DEF CacheInv, CacheTypeOK
    <3> QED BY <1>0, <2>2, <3>1, ConstructedByGet DEF GetSchedule
  <2> QED BY <2>1, <2>2
<1>3. /\ clock \in 1 .. MaxClock /\ clock' \in Nat /\ exists \subseteq Resources
      /\ lastRefresh \in [Caches -> Nat]
      /\ mem \in [Caches -> [Resources -> Nat]] /\ mem' \in [Caches -> [Resources -> Nat]]
  BY <1>2 DEF CacheInv, CacheTypeOK
<1>4. Later({c}) /\ clock <= clock'
  <2>1. CASE Fetch(c, {})
    <3>1. Later({})
      BY <1>0, <2>1, FetchIsLater DEF History, ResourceTypeOK
    <3> QED BY <1>0, <2>1, <3>1, FetchReplaces DEF Later
  <2>2. CASE \/ /\ lastRefresh' = [lastRefresh EXCEPT ![c] = clock]
                /\ mem' = [mem EXCEPT ![c][Res[c]] = seed]
                /\ UNCHANGED clock
             \/ /\ lastRefresh' = [lastRefresh EXCEPT ![c] = lastRefresh[Base[c]]]
                /\ UNCHANGED <<mem, clock>>
    <3>1. PICK v \in {seed, mem[c][Res[c]]} : \A x \in Caches, q \in Resources :
            mem'[x][q] = IF x = c /\ q = Res[c] THEN v ELSE mem[x][q]
      <4>1. CASE mem' = [mem EXCEPT ![c][Res[c]] = seed]
        <5>1. \A x \in Caches, q \in Resources :
                mem'[x][q] = IF x = c /\ q = Res[c] THEN seed ELSE mem[x][q]
          BY <1>0, <1>3, <4>1
        <5> QED BY <5>1
      <4>2. CASE mem' = mem
        BY <4>2
      <4> QED BY <2>2, <4>1, <4>2
    <3>2. \A x \in Caches \ {c} : lastRefresh[x] # 0 => lastRefresh'[x] # 0
      BY <1>3, <2>2
    <3>3. \A x \in Items \ {c} : mem'[x][Res[x]] >= mem[x][Res[x]]
      <4> TAKE x \in Items \ {c}
      <4>1. x \in Caches /\ Res[x] \in Resources
        BY ItemLists
      <4>2. mem[x][Res[x]] \in Nat
        BY <1>3, <4>1
      <4> QED BY <3>1, <4>1, <4>2
    <3>4. \A x \in Caches \ Items, q \in exists : mem'[x][q] >= mem[x][q]
      <4> TAKE x \in Caches \ Items, q \in exists
      <4>1. mem[x][q] \in Nat /\ q \in Resources
        BY <1>3
      <4> QED BY <3>1, <4>1
    <3>5. \A x \in Caches, q \in Resources \ exists : mem'[x][q] <= goneAt[q]
      BY <1>0, <3>1 DEF History, GoneData
    <3> QED BY <1>3, <2>2, <3>2, <3>3, <3>4, <3>5 DEF Later
  <2> QED BY <1>1, <2>1, <2>2
<1>5. History'
  <2>1. \A x \in Items : wrote'[x] \in {0, wrote[x]} /\ (x \in {c} => wrote'[x] = 0)
    BY <1>0, <1>1 DEF ResourceTypeOK, Items
  <2> QED BY <1>1, <1>3, <1>4, <2>1, HistoryKept
<1>6. ResourceTypeOK'
  <2>1. /\ wrote' = [x \in Caches |-> wrote'[x]]
        /\ \A x \in Caches : wrote'[x] \in {0, wrote[x]}
    BY <1>0, <1>1 DEF ResourceTypeOK
  <2> QED BY <1>1, <1>2, <1>4, <2>1, JobTypes DEF ResourceTypeOK, CacheInv
<1>7. NoSeeds' /\ FreshBelow'
  BY <1>0, <1>1 DEF NoSeeds, FreshBelow, NoRet, CacheInv, CacheTypeOK
<1> QED BY <1>2, <1>5, <1>6, <1>7

\* getValue() leaves nothing below its resource that is older than allowed.
LEMMA FreshBelowStep ==
  ASSUME CacheInv, NEW c \in Caches, GetValue(c)
  PROVE  FreshBelow'
<1> USE DEF CacheInv
<1> SUFFICES ASSUME c \in Rooted, ret'.kind = "value", refreshDuration'[ret'.cache] # MaxTime,
                    NEW q \in Under[Res[ret'.cache]], mem'[Owner(ret'.cache)][q] # NoData
             PROVE  clock' - mem'[Owner(ret'.cache)][q]
                      <= AgeBound(refreshDuration'[ret'.cache], seedAge'[Owner(ret'.cache)])
  BY DEF FreshBelow, Owner, Rooted, GetValue, Returned
<1> DEFINE d == refreshDuration[c]
           a == seedAge[Owner(c)]
           m == mem'[Owner(c)][q]
<1>0. /\ ret'.cache = c /\ UNCHANGED <<refreshDuration, seedAge>>
      /\ Owner(c) \in Caches /\ Under[Res[c]] \subseteq Resources
  BY Structure DEF GetValue, Returned
<1>1. d \in Durations /\ d # MaxTime /\ q \in Under[Res[c]] /\ q \in Resources /\ m # NoData
  BY <1>0 DEF CacheTypeOK
<1>2. /\ clock \in 1 .. MaxClock /\ MaxClock \in Nat /\ MaxTime \in Nat /\ MaxLatency \in Nat
      /\ a \in Nat /\ d \in Int /\ d + MaxClock < MaxTime
  <2>1. clock \in 1 .. MaxClock /\ a \in Nat
    BY <1>0 DEF CacheTypeOK
  <2>2. d \in Int /\ d + MaxClock < MaxTime
    BY <1>1, CacheAssumption
  <2> HIDE DEF d, a
  <2> QED BY <2>1, <2>2, CacheAssumption
<1>3. CASE /\ NeedsRefresh(c)
           /\ Fetch(FetchedBy(c), {c} \cup AskedBy(c))
  <2>1. /\ FetchedBy(c) \in Caches /\ Owner(FetchedBy(c)) = Owner(c)
        /\ Res[c] \in Under[Res[FetchedBy(c)]]
    BY FetchedByOwn, RootedCaches
  <2>2. Under[Res[c]] \subseteq Under[Res[FetchedBy(c)]]
    BY <2>1, Structure, CacheAssumption
  <2>3. clock' <= m + MaxLatency /\ clock' \in Nat /\ mem' \in [Caches -> [Resources -> Nat]]
    BY <1>1, <1>3, <2>1, <2>2, FetchLeaves
  <2>4. m \in Nat
    BY <1>0, <1>1, <2>3
  <2> HIDE DEF d, a, m
  <2>5. AgeBound(d, a) >= MaxLatency /\ AgeBound(d, a) \in Int
    BY <1>2 DEF AgeBound
  <2>6. clock' - m <= AgeBound(d, a)
    BY <1>2, <2>3, <2>4, <2>5
  <2> QED BY <1>0, <2>6 DEF d, a, m
<1>4. CASE /\ ~ NeedsRefresh(c)
           /\ UNCHANGED <<clock, mem, fetched>>
  <2>1. m \in Nat /\ m = mem[Owner(c)][q]
    BY <1>0, <1>1, <1>4 DEF CacheTypeOK
  <2>2. SyncAll({c})[c] = Synced(c)
    BY DEF SyncAll
  <2>3. Synced(c) \in Nat /\ Synced(c) <= clock /\ Synced(c) <= m + MaxLatency + a
    BY <1>1, <2>1, <2>2, SyncTypes, SyncBelieves DEF Believes
  <2>4. MaxTime - d > Synced(c)
    BY <1>2, <2>3
  <2>5. clock < Synced(c) + d
    BY <1>2, <1>4, <2>3, <2>4 DEF NeedsRefresh
  <2> HIDE DEF d, a, m
  <2>6. clock - m <= AgeBound(d, a)
    BY <1>2, <2>1, <2>3, <2>5 DEF AgeBound
  <2> QED BY <1>0, <1>4, <2>6 DEF d, a, m
<1>5. \/ NeedsRefresh(c) /\ Fetch(FetchedBy(c), {c} \cup AskedBy(c))
      \/ ~ NeedsRefresh(c) /\ UNCHANGED <<clock, mem, fetched>>
  <2>1. ret' # [cache |-> c, got |-> FALSE, stamp |-> NoData, kind |-> "failed"]
    OBVIOUS
  <2> QED BY <2>1 DEF GetValue
<1> QED BY <1>3, <1>4, <1>5

LEMMA UseStep ==
  ASSUME ResourceInv, Use
  PROVE  ResourceInv'
<1> USE DEF ResourceInv
<1>1. PICK c \in Caches : (GetValue(c) \/ Refresh(c)) /\ UNCHANGED jobVars
  BY DEF Use
<1>2. /\ FetchedBy(c) \in Caches
      /\ UNCHANGED <<exists, seedAge, class, job, wrote, ids, goneAt>>
  BY <1>1, FetchedByAsks DEF jobVars, GetValue, Refresh
<1>3. CacheInv'
  BY <1>1, <1>2, GetValueStep, RefreshStep
<1>4. FreshBelow'
  BY <1>1, <1>2, FreshBelowStep DEF Refresh, FreshBelow, NoRet
<1>5. Later({}) /\ clock <= clock'
  <2>1. CASE \E S : Fetch(FetchedBy(c), S)
    <3>1. PICK S : Fetch(FetchedBy(c), S)
      BY <2>1
    <3> QED BY <1>2, <3>1, FetchIsLater, FetchReplaces DEF History, ResourceTypeOK
  <2>2. CASE \E S : lastRefresh' = SyncAll(S) /\ UNCHANGED <<clock, mem>>
    <3>1. clock \in Nat
      BY DEF CacheInv, CacheTypeOK
    <3> QED BY <2>2, <3>1, SyncIsLater DEF History
  <2> QED BY <1>1, <2>1, <2>2 DEF GetValue, Refresh, FetchFails
<1>6. wrote' = [x \in Caches |-> wrote'[x]]
  BY <1>2 DEF ResourceTypeOK
<1>7. ResourceTypeOK'
  BY <1>2, <1>3, <1>5, <1>6, JobTypes DEF ResourceTypeOK, CacheInv
<1>8. History'
  BY <1>2, <1>3, <1>5, HistoryKept DEF CacheInv, CacheTypeOK
<1> QED BY <1>2, <1>3, <1>4, <1>7, <1>8 DEF NoSeeds

LEMMA ResourceStep == ASSUME ResourceInv, [ResourceNext]_resourceVars PROVE ResourceInv'
<1>1. CASE UNCHANGED resourceVars
  <2>1. CacheInv'
    BY <1>1, CacheStep DEF resourceVars, ResourceInv
  <2> QED BY <1>1, <2>1
          DEF resourceVars, vars, jobVars, ResourceInv, ResourceTypeOK, CacheInv, History, Written,
              Found, GoneData, NoSeeds, FreshBelow, Items, Alone, Rooted, Owner
<1>2. CASE (Tick /\ UNCHANGED jobVars) \/ OthersChange
  BY <1>2, EnvironmentStep
<1>3. CASE Use
  BY <1>3, UseStep
<1>4. ASSUME NEW c \in Items, Get(c) \/ GetSchedule(c) PROVE ResourceInv'
  BY <1>4, GetStep
<1>5. ASSUME NEW c \in Items, Put(c) \/ Post(c) \/ Remove(c) PROVE ResourceInv'
  BY <1>5, ChangedStep
<1>6. ASSUME NEW c \in Items, Created(c) PROVE ResourceInv'
  BY <1>6, CreatedStep
<1>7. ASSUME NEW c \in Items, GroupSetters(c) \/ RuleSetters(c) \/ ScheduleSetters(c)
      PROVE  ResourceInv'
  BY <1>7, ForcedRefreshStep DEF GroupSetters, RuleSetters, ScheduleSetters, Setting
<1>8. ASSUME NEW c \in Items, SceneSetters(c) PROVE ResourceInv'
  BY <1>8, LazyRefreshStep DEF SceneSetters, Setting, Forcing
<1>9. ASSUME NEW c \in Items, DeviceSetters(c) PROVE ResourceInv'
  BY <1>9, DeviceSettersStep
<1> QED BY <1>1, <1>2, <1>3, <1>4, <1>5, <1>6, <1>7, <1>8, <1>9 DEF ResourceNext

THEOREM ResourceInvariant == ResourceSpec => []ResourceInv
<1>1. ResourceInit => ResourceInv
  BY ResourceStart
<1>2. ResourceInv /\ [ResourceNext]_resourceVars => ResourceInv'
  BY ResourceStep
<1> QED BY <1>1, <1>2, PTL DEF ResourceSpec

\* What the const getters of a root, a list or the bridge cache show.
LEMMA ShowsOwner ==
  ASSUME NEW c \in Rooted
  PROVE  Shows(c) = IF lastRefresh[Owner(c)] = 0 THEN NoData ELSE mem[Owner(c)][Res[c]]
BY RootedStructure DEF Shows, ConstStamp, Root, Owner

\* Type correctness: no change is recorded from the future, and create only
\* returns the ids of resources that exist.
THEOREM ResourceTypeCorrect == ResourceSpec => []ResourceTypeOK
<1>1. ResourceInv => ResourceTypeOK
  BY DEF ResourceInv
<1> QED BY <1>1, ResourceInvariant, PTL

\* Groups, rules and schedules show what was set through them from when the
\* setter returns, however long its PUT and its GET take, whichever requests
\* fail later and whatever the lists and the bridge refresh.
THEOREM SettersAreSeen == ASSUME Unshared PROVE ResourceSpec => []ReadYourWrites
<1>1. ResourceInv => ReadYourWrites
  <2> SUFFICES ASSUME ResourceInv, NEW c \in Items \cap built, wrote[c] # 0
               PROVE  Shows(c) >= wrote[c]
    BY DEF ReadYourWrites
  <2>1. c \in Alone /\ Owner(c) = c /\ c \in Rooted
    BY AloneOwns, ItemLists DEF Unshared, Alone, Rooted
  <2> QED BY <2>1, ShowsOwner DEF ResourceInv, History, Written
<1> QED BY <1>1, ResourceInvariant, PTL

\* The id that create returns can be looked up, by any path, until somebody
\* removes the resource.
THEOREM CreatedStaysFound == ResourceSpec => []CreatedIsFound
<1>1. ResourceInv => CreatedIsFound
  <2> SUFFICES ASSUME ResourceInv, NEW c \in Items, Res[c] \in ids
               PROVE  Shows(List[c]) # NoData /\ mem[Owner(List[c])][Res[c]] # NoData
    BY DEF CreatedIsFound
  <2>1. List[c] \in Rooted
    BY ItemLists
  <2> QED BY <2>1, ShowsOwner DEF ResourceInv, History, Found
<1> QED BY <1>1, ResourceInvariant, PTL

\* A list whose cache remove has left alone forgets a resource within the
\* refresh duration.
THEOREM RemovalIsNoticed == ResourceSpec => []RemovalNoticed
<1>1. ResourceInv => RemovalNoticed
  <2> SUFFICES ASSUME ResourceInv, NEW c \in Items,
                      ret.kind = "value", ret.cache = List[c], refreshDuration[List[c]] # MaxTime,
                      Res[c] \notin exists,
                      clock - goneAt[Res[c]] > AgeBound(refreshDuration[List[c]], 0),
                      mem[Owner(List[c])][Res[c]] # NoData
               PROVE  FALSE
    BY DEF RemovalNoticed
  <2> DEFINE o == Owner(List[c])
             m == mem[o][Res[c]]
             g == goneAt[Res[c]]
             bound == AgeBound(refreshDuration[List[c]], 0)
  <2>1. /\ o \in Caches \ Items /\ Res[c] \in Resources /\ List[c] \in Caches
        /\ Res[c] \in Under[Res[List[c]]] /\ List[c] \in Rooted
    BY ItemLists
  <2>2. seedAge[o] = 0
    BY <2>1 DEF ResourceInv, NoSeeds
  <2>3. clock - m <= bound
    BY <2>1, <2>2 DEF ResourceInv, FreshBelow
  <2>4. m <= g
    BY <2>1 DEF ResourceInv, History, GoneData
  <2>5. clock \in Nat /\ m \in Nat /\ g \in Nat
    BY <2>1 DEF ResourceInv, ResourceTypeOK, CacheTypeOK
  <2>6. bound \in Int
    <3>1. refreshDuration[List[c]] \in Int
      BY <2>1, CacheAssumption DEF ResourceInv, CacheInv, CacheTypeOK
    <3> QED BY <3>1, CacheAssumption DEF AgeBound
  <2>7. clock - g > bound
    OBVIOUS
  <2> HIDE DEF m, g, bound
  <2> QED BY <2>3, <2>4, <2>5, <2>6, <2>7
<1> QED BY <1>1, ResourceInvariant, PTL
----------------------------------------------------------------------------
\* Every step is, for the data, a GET, a seeded object or nothing.
DataStep ==
  \/ \E f \in Caches : \E S : Fetch(f, S)
  \/ mem' = mem /\ (lastRefresh' = lastRefresh \/ \E S : lastRefresh' = SyncAll(S))
  \/ \E c \in Items : Get(c)

LEMMA StepForms ==
  ASSUME ResourceInv, [ResourceNext]_resourceVars
  PROVE  DataStep
<1>0. \A c \in Caches : FetchedBy(c) \in Caches
  BY FetchedByAsks
<1>1. CASE UNCHANGED resourceVars \/ (Tick /\ UNCHANGED jobVars) \/ OthersChange
  BY <1>1 DEF resourceVars, vars, Tick, OthersChange, DataStep
<1>2. CASE Use
  BY <1>0, <1>2 DEF Use, GetValue, Refresh, FetchFails, DataStep
<1>3. ASSUME NEW c \in Items, GetSchedule(c) PROVE DataStep
  BY <1>3, ItemLists DEF GetSchedule, DataStep
<1>4. ASSUME NEW c \in Items, Put(c) \/ Post(c) \/ Remove(c) \/ DeviceSetters(c) PROVE DataStep
  BY <1>4 DEF Put, Post, Remove, Changed, DeviceSetters, DataStep
<1>5. ASSUME NEW c \in Items, Created(c) PROVE DataStep
  <2>1. FetchedBy(List[c]) \in Caches
    BY <1>0, ItemLists
  <2> QED BY <1>5, <2>1 DEF Created, FetchFails, DataStep
<1>6. ASSUME NEW c \in Items, ForcedRefresh(c) PROVE DataStep
  <2>1. FetchedBy(c) \in Caches
    BY <1>0, ItemLists
  <2> QED BY <1>6, <2>1 DEF ForcedRefresh, FetchFails, DataStep
<1>7. ASSUME NEW c \in Items, LazyRefresh(c) PROVE DataStep
  <2>1. FetchedBy(c) \in Caches
    BY <1>0, ItemLists
  <2> QED BY <1>7, <2>1 DEF LazyRefresh, FetchFails, DataStep
<1>8. CASE \E c \in Items : Get(c)
  BY <1>8 DEF DataStep
<1>9. ASSUME NEW c \in Items,
             GroupSetters(c) \/ RuleSetters(c) \/ ScheduleSetters(c) \/ SceneSetters(c)
      PROVE  DataStep
  BY <1>6, <1>7, <1>9 DEF GroupSetters, RuleSetters, ScheduleSetters, SceneSetters
<1>10. CASE ResourceNext
  BY <1>1, <1>2, <1>3, <1>4, <1>5, <1>8, <1>9, <1>10 DEF ResourceNext
<1> QED BY <1>1, <1>10

\* The const getters look at a list, the bridge cache or an item of its own.
LEMMA RootOf ==
  ASSUME NEW c \in Caches
  PROVE  /\ Root(c) \in Caches \ Items \/ (c \in Alone /\ Root(c) = c)
         /\ Base[Root(c)] = NoCache
<1>1. CASE Base[c] = NoCache
  BY <1>1 DEF Root, Alone
<1>2. CASE Base[c] # NoCache
  <2>1. Base[c] \in Caches /\ List[Base[c]] = NoCache
    BY <1>2, CacheAssumption
  <2>2. CASE Base[Base[c]] = NoCache
    BY <1>2, <2>1, <2>2 DEF Root, Items
  <2>3. CASE Base[Base[c]] # NoCache
    <3>1. /\ Base[Base[c]] \in Caches /\ List[Base[Base[c]]] = NoCache
          /\ Base[Base[Base[c]]] = NoCache
      BY <2>1, <2>3, CacheAssumption
    <3> QED BY <1>2, <2>3, <3>1 DEF Root, Items
  <2> QED BY <2>2, <2>3
<1> QED BY <1>1, <1>2

\* What a cache shows only gets newer, or vanishes with its resource.
LEMMA ShownGetsNewer ==
  ASSUME ResourceInv, [ResourceNext]_resourceVars,
         NEW c \in built, Shows(c) # NoData, ~ (c \in Items /\ Get(c))
  PROVE  Shows(c)' >= Shows(c) \/ (Shows(c)' = NoData /\ Res[c] \notin exists)
<1> DEFINE o == Root(c)
           q == Res[c]
<1>0. /\ c \in Caches
      /\ o \in Caches \ Items \/ (c \in Alone /\ o = c)
      /\ Base[o] = NoCache
  BY RootOf DEF ResourceInv, CacheInv, CacheTypeOK
<1>q. o \in Caches /\ q \in Resources /\ c \in Caches /\ Base[o] = NoCache
  BY <1>0, Structure DEF Alone
<1>1. /\ Shows(c) = IF lastRefresh[o] = 0 THEN NoData ELSE mem[o][q]
      /\ Shows(c)' = IF lastRefresh'[o] = 0 THEN NoData ELSE mem'[o][q]
  BY DEF Shows, ConstStamp, Root
<1>2. /\ lastRefresh[o] # 0 /\ Shows(c) = mem[o][q]
      /\ clock \in Nat /\ mem[o][q] \in Nat /\ mem[o][q] <= clock
      /\ lastRefresh \in [Caches -> Nat]
  BY <1>q, <1>1 DEF ResourceInv, CacheInv, CacheTypeOK
<1> HIDE DEF o, q
<1>3. ASSUME NEW f \in Caches, NEW S, Fetch(f, S)
      PROVE  \/ Shows(c)' >= Shows(c)
             \/ Shows(c)' = NoData /\ q \notin exists
  <2>1. lastRefresh'[o] # 0
    BY <1>q, <1>2, <1>3, FetchReplaces DEF ResourceInv
  <2>2. \/ mem'[o][q] = mem[o][q]
        \/ q \in exists /\ mem'[o][q] >= clock
        \/ q \notin exists /\ mem'[o][q] = NoData
    BY <1>q, <1>3, FetchReplaces DEF ResourceInv
  <2>3. mem'[o][q] \in Nat
    BY <1>q, <1>3, FetchLeaves DEF ResourceInv, CacheInv
  <2> QED BY <1>1, <1>2, <2>1, <2>2, <2>3
<1>4. CASE mem' = mem /\ (lastRefresh' = lastRefresh \/ \E S : lastRefresh' = SyncAll(S))
  <2>1. \A S : SyncAll(S)[o] >= lastRefresh[o]
    BY <1>q, <1>2, CacheAssumption DEF SyncAll, Synced
  <2>2. lastRefresh'[o] # 0
    BY <1>q, <1>2, <1>4, <2>1
  <2> QED BY <1>1, <1>2, <1>4, <2>2
<1>5. ASSUME NEW d \in Items, Get(d), d # c, ~ \E f \in Caches : \E S : Fetch(f, S)
      PROVE  Shows(c)' >= Shows(c)
  <2>1. d \in Caches /\ o # d
    BY <1>0, <1>5, ItemLists
  <2>2. /\ \E t : lastRefresh' = [lastRefresh EXCEPT ![d] = t]
        /\ mem' = mem \/ \E s : mem' = [mem EXCEPT ![d][Res[d]] = s]
    BY <1>5, <2>1 DEF Get, ConstructChild, ConstructRoot
  <2>3. mem'[o][q] = mem[o][q] /\ lastRefresh'[o] = lastRefresh[o]
    BY <1>q, <1>2, <2>1, <2>2 DEF ResourceInv, CacheInv, CacheTypeOK
  <2> QED BY <1>1, <1>2, <2>3
<1> QED BY <1>3, <1>4, <1>5, StepForms DEF DataStep, q

\* No refresh, by whichever object, ever takes an object back to older data,
\* or takes them away while the resource exists.
THEOREM ShowsNeverGoBack == ResourceSpec => NeverGoesBack
<1>1. ResourceInv /\ [ResourceNext]_resourceVars =>
        [\A c \in built :
           Shows(c) # NoData /\ ~ (c \in Items /\ Get(c))
             => Shows(c)' >= Shows(c) \/ (Shows(c)' = NoData /\ Res[c] \notin exists)]_resourceVars
  BY ShownGetsNewer
<1> QED BY <1>1, ResourceInvariant, PTL DEF ResourceSpec, NeverGoesBack
----------------------------------------------------------------------------
(* The replicas and the lists while resources are set, made and removed.   *)

LEMMA RequestIsViewed ==
  ASSUME CacheTypeOK, Blank, Permanent \subseteq exists, exists' = exists,
         NEW c \in Caches, NEW S, Fetch(FetchedBy(c), S)
  PROVE  ViewStep
BY FetchedByAsks, FetchIsViewed

\* The end of a setter or of create.
LEMMA JobIsViewed ==
  ASSUME CacheTypeOK, Blank, Permanent \subseteq exists, NEW c \in Items,
         ForcedRefresh(c) \/ LazyRefresh(c) \/ Created(c) \/ DeviceSetters(c)
  PROVE  ViewStep
<1>1. c \in Caches /\ List[c] \in Caches
  BY ItemLists
<1>2. exists' = exists
  BY DEF ForcedRefresh, LazyRefresh, Created, DeviceSetters, Returns, Throws
<1>3. ASSUME NEW S, lastRefresh' = SyncAll(S), UNCHANGED <<clock, mem>> PROVE ViewStep
  BY <1>2, <1>3, SyncIsViewed
<1>4. CASE ForcedRefresh(c)
  BY <1>1, <1>2, <1>3, <1>4, RequestIsViewed DEF ForcedRefresh, FetchFails
<1>5. CASE LazyRefresh(c)
  BY <1>1, <1>2, <1>3, <1>5, RequestIsViewed DEF LazyRefresh, FetchFails
<1>6. CASE Created(c)
  BY <1>1, <1>2, <1>3, <1>6, RequestIsViewed DEF Created, FetchFails
<1>7. CASE DeviceSetters(c)
  <2>1. UNCHANGED <<clock, lastRefresh, mem>>
    BY <1>7 DEF DeviceSetters
  <2>2. clock' >= clock /\ exists' \subseteq Resources
    BY <1>2, <2>1 DEF CacheTypeOK
  <2> QED BY <1>2, <2>1, <2>2, WaitIsViewed
<1> QED BY <1>4, <1>5, <1>6, <1>7

\* A change at the bridge, by this program or by others, brings no data.
LEMMA ChangeIsViewed ==
  ASSUME CacheTypeOK, CacheTypeOK', Blank, Permanent \subseteq exists',
         \/ \E c \in Items : Put(c) \/ Post(c) \/ Remove(c)
         \/ OthersChange
  PROVE  ViewStep
<1>1. UNCHANGED <<lastRefresh, mem>>
  BY DEF Put, Post, Changed, Remove, OthersChange
<1>2. clock' >= clock
  BY CacheAssumption DEF Put, Post, Changed, Remove, OthersChange, CacheTypeOK
<1>3. exists' \subseteq Resources
  BY DEF CacheTypeOK
<1> QED BY <1>1, <1>2, <1>3, WaitIsViewed

LEMMA ResourceViewed ==
  ASSUME ResourceInv, ResourceInv', Blank, [ResourceNext]_resourceVars
  PROVE  [View!Next]_View!replicaVars /\ Blank'
<1>0. CacheTypeOK /\ CacheTypeOK' /\ Permanent \subseteq exists /\ Permanent \subseteq exists'
  BY DEF ResourceInv, CacheInv, History
<1>1. CASE UNCHANGED resourceVars
  BY <1>1 DEF resourceVars, vars, View!replicaVars, Blank, Roots
<1>2. CASE Tick
  <2>1. clock' >= clock /\ exists' \subseteq Resources /\ UNCHANGED <<lastRefresh, mem>>
    BY <1>0, <1>2 DEF Tick, CacheTypeOK
  <2> QED BY <1>0, <2>1, WaitIsViewed DEF ViewStep
<1>3. CASE Use
  BY <1>0, <1>3, AskingIsViewed DEF Use, ViewStep
<1>4. ASSUME NEW c \in Items, Get(c) PROVE ViewStep
  <2>1. c \in Caches
    BY ItemLists
  <2> QED BY <1>0, <1>4, <2>1, ConstructRootIsViewed, ConstructChildIsViewed DEF Get
<1>5. ASSUME NEW c \in Items, GetSchedule(c) PROVE ViewStep
  <2>1. c \in Caches /\ Base[c] = NoCache /\ Fetch(c, {}) /\ exists' = exists
    BY <1>5, ItemLists DEF GetSchedule
  <2> QED BY <1>0, <2>1, FetchIsViewed
<1>6. CASE OthersChange \/ \E c \in Items : Put(c) \/ Post(c) \/ Remove(c)
  BY <1>0, <1>6, ChangeIsViewed DEF ViewStep
<1>7. ASSUME NEW c \in Items,
             \/ Created(c) \/ DeviceSetters(c)
             \/ GroupSetters(c) \/ RuleSetters(c) \/ ScheduleSetters(c) \/ SceneSetters(c)
      PROVE  ViewStep
  BY <1>0, <1>7, JobIsViewed DEF GroupSetters, RuleSetters, ScheduleSetters, SceneSetters
<1> QED BY <1>1, <1>2, <1>3, <1>4, <1>5, <1>6, <1>7 DEF ResourceNext, ViewStep

\* Setters, create, remove and everything others do at the bridge leave it so:
\* what objects show is a replica that is replaced by whole snapshots.
THEOREM ResourcesImplementReplica == ResourceSpec => ImplementsReplica
<1>1. ResourceInv /\ ResourceInv' /\ Blank /\ [ResourceNext]_resourceVars
        => [View!Next]_View!replicaVars /\ Blank'
  BY ResourceViewed
<1>2. ResourceInit => View!Init /\ Blank
  BY ViewBegins DEF ResourceInit
<1> QED BY <1>1, <1>2, ResourceInvariant, PTL DEF ResourceSpec, ImplementsReplica, View!Spec

LEMMA ResourceSnapshots ==
  ASSUME ListsApart, ListsAreSnapshots, ResourceInv, [ResourceNext]_resourceVars
  PROVE  ListsAreSnapshots'
<1>0. CacheTypeOK /\ Permanent \subseteq exists
  BY DEF ResourceInv, CacheInv, History
<1>1. ASSUME UNCHANGED mem PROVE ListsAreSnapshots'
  BY <1>1 DEF ListsAreSnapshots, Items, Owner
<1>2. ASSUME NEW f \in Caches, NEW S, Fetch(f, S) PROVE ListsAreSnapshots'
  BY <1>0, <1>2, FetchKeepsSnapshots
<1>3. ASSUME NEW c \in Items, Get(c) PROVE ListsAreSnapshots'
  <2>1. CASE ConstructChild(c)
    BY <1>1, <2>1 DEF ConstructChild
  <2>2. CASE \E d \in Durations : ConstructRoot(c, d)
    <3>1. c \in Caches
      BY ItemLists
    <3> QED BY <1>0, <1>2, <2>2, <3>1, SeedKeepsSnapshots DEF ConstructRoot
  <2> QED BY <1>3, <2>1, <2>2 DEF Get
<1> QED BY <1>1, <1>2, <1>3, StepForms DEF DataStep

\* So do the lists: getAll returns what the bridge had at one moment, also
\* after create has refreshed the list and remove has not.
THEOREM ListsStayWhole == ASSUME ListsApart PROVE ResourceSpec => []ListsAreSnapshots
<1>1. ResourceInit => ListsAreSnapshots
  BY ListsOfItems DEF ResourceInit, Init, ListsAreSnapshots
<1>2. ListsAreSnapshots /\ ResourceInv /\ [ResourceNext]_resourceVars => ListsAreSnapshots'
  BY ResourceSnapshots
<1> QED BY <1>1, <1>2, ResourceInvariant, PTL DEF ResourceSpec
=============================================================================
