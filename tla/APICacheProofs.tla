--------------------------- MODULE APICacheProofs ---------------------------
(***************************************************************************)
(* The bridge cache, its lists and the items that are roots never hand out *)
(* old data, whatever the resources, the durations, the latency and the    *)
(* items of shared lists below them are.                                   *)
(***************************************************************************)
EXTENDS APICache, TLAPS

\* The caches that read the JSON of a root: all but the items of a shared
\* list, which read the list's own.
Rooted == {x \in Caches : Base[Owner(x)] = NoCache}

\* Nothing is below the lists: sharedState is false.
TwoLevels == \A c \in Caches : Base[c] # NoCache => Base[Base[c]] = NoCache

\* No cache believes to be newer than the data it would return, up to the
\* time a GET takes and the age of the initial value.  This must hold for
\* all the data below its resource, because its children inherit the claim.
Believes(x, lr, m, age) ==
  \A q \in Under[Res[x]] : m[Owner(x)][q] # NoData => lr[x] <= m[Owner(x)][q] + MaxLatency + age[Owner(x)]

AgeInv == \A x \in Rooted : Believes(x, lastRefresh, mem, seedAge)

RootedFresh == ret.cache \in Rooted => FreshRead

CacheInv == CacheTypeOK /\ AgeInv /\ RootedFresh
----------------------------------------------------------------------------
LEMMA Structure ==
  ASSUME NEW c \in Caches
  PROVE  /\ Owner(c) \in Caches
         /\ Res[c] \in Resources /\ Under[Res[c]] \subseteq Resources
         /\ Res[c] \in Under[Res[c]] /\ Res[c] \in Under[Res[Owner(c)]]
         /\ Under[Res[c]] \subseteq Under[Res[Owner(c)]]
BY CacheAssumption DEF Owner

LEMMA RootedCaches == Rooted \subseteq Caches
BY DEF Rooted

LEMMA RootedStructure ==
  ASSUME NEW c \in Rooted
  PROVE  /\ c \in Caches /\ Owner(c) \in Rooted /\ Base[Owner(c)] = NoCache
         /\ Owner(Owner(c)) = Owner(c)
BY CacheAssumption DEF Rooted, Owner

\* Only items can be below a list, and without them there is no third level.
LEMMA ListsAreRooted == Caches \ Items \subseteq Rooted
BY CacheAssumption DEF Items, Rooted, Owner

LEMMA AllAreRooted == ASSUME TwoLevels PROVE Rooted = Caches
BY CacheAssumption DEF TwoLevels, Rooted, Owner

\* refresh() ends at a cache whose base, if it has one, is up to date.
LEMMA FetchedByAsks ==
  ASSUME NEW c \in Caches
  PROVE  /\ FetchedBy(c) \in Caches
         /\ Base[FetchedBy(c)] # NoCache => ~ NeedsRefresh(Base[FetchedBy(c)])
<1>1. Base[c] \in Caches \cup {NoCache}
  BY CacheAssumption
<1>2. CASE Base[c] = NoCache
  BY <1>2 DEF FetchedBy
<1>3. CASE Base[c] \in Caches
  <2>1. List[Base[c]] = NoCache /\ Base[Base[c]] \in Caches \cup {NoCache}
    BY <1>3, CacheAssumption
  <2>2. Base[Base[c]] # NoCache => Base[Base[Base[c]]] = NoCache
    BY <1>3, <2>1, CacheAssumption
  <2>3. Base[c] # NoCache
    BY <1>3, CacheAssumption
  <2> QED BY <1>3, <2>1, <2>2, <2>3 DEF FetchedBy
<1> QED BY <1>1, <1>2, <1>3

\* For a cache that is rooted it is the cache itself or its base, and both
\* write into the JSON that the cache reads.
LEMMA FetchedByOwn ==
  ASSUME NEW c \in Rooted
  PROVE  /\ FetchedBy(c) \in {c, Owner(c)}
         /\ Owner(FetchedBy(c)) = Owner(c)
         /\ FetchedBy(c) \in Rooted
         /\ Res[c] \in Under[Res[FetchedBy(c)]]
BY CacheAssumption, Structure, RootedStructure DEF Owner, FetchedBy

\* A sync takes over what the base claims.
LEMMA SyncTypes ==
  ASSUME CacheTypeOK, NEW S, NEW x \in Caches
  PROVE  /\ SyncAll(S)[x] \in {lastRefresh[x], lastRefresh[Owner(x)]}
         /\ SyncAll(S)[x] \in Nat /\ SyncAll(S)[x] <= clock
<1>1. SyncAll(S)[x] \in {lastRefresh[x], lastRefresh[Owner(x)]}
  BY CacheAssumption DEF SyncAll, Synced, Owner
<1> QED BY <1>1, Structure DEF CacheTypeOK

LEMMA SyncBelieves ==
  ASSUME CacheTypeOK, AgeInv, NEW S, NEW x \in Rooted
  PROVE  Believes(x, SyncAll(S), mem, seedAge)
<1>1. Owner(x) \in Rooted /\ Owner(Owner(x)) = Owner(x) /\ Under[Res[x]] \subseteq Under[Res[Owner(x)]]
  BY Structure, RootedStructure
<1>2. SyncAll(S)[x] \in {lastRefresh[x], lastRefresh[Owner(x)]}
  BY SyncTypes, RootedStructure
<1>3. Believes(x, lastRefresh, mem, seedAge) /\ Believes(Owner(x), lastRefresh, mem, seedAge)
  BY <1>1 DEF AgeInv
<1> QED BY <1>1, <1>2, <1>3 DEF Believes

LEMMA SyncStep ==
  ASSUME CacheTypeOK, AgeInv, NEW S, lastRefresh' = SyncAll(S),
         UNCHANGED <<mem, seedAge>>
  PROVE  AgeInv'
BY SyncBelieves DEF AgeInv, Believes, Owner, Rooted

\* What a GET of f leaves behind: the data below f are as new as the GET, and
\* every cache is at most as confident as its data allow.
LEMMA FetchLeaves ==
  ASSUME CacheTypeOK, AgeInv, NEW f \in Caches, NEW S, Fetch(f, S)
  PROVE  /\ clock <= clock' /\ clock' \in 1 .. MaxClock
         /\ lastRefresh' \in [Caches -> Nat] /\ \A x \in Caches : lastRefresh'[x] <= clock'
         /\ mem' \in [Caches -> [Resources -> Nat]]
         /\ \A x \in Caches, q \in Resources : mem'[x][q] <= clock'
         /\ \A q \in Under[Res[f]] : mem'[Owner(f)][q] # NoData => clock' <= mem'[Owner(f)][q] + MaxLatency
         /\ \A x \in Rooted : Believes(x, lastRefresh', mem', seedAge)
<1> USE CacheAssumption
<1>1. PICK served, arrived \in clock .. MaxClock :
        /\ served <= arrived /\ arrived <= clock + MaxLatency
        /\ clock' = arrived
        /\ lastRefresh' = Marked(f, S, arrived)
        /\ mem' = Stored(f, served)
  BY DEF Fetch
<1>2. clock \in Nat /\ served \in Nat /\ arrived \in Nat /\ served > 0 /\ MaxLatency \in Nat
  BY <1>1 DEF CacheTypeOK
<1>3. clock <= clock' /\ clock' \in 1 .. MaxClock
  BY <1>1, <1>2 DEF CacheTypeOK
<1>4. \A x \in Caches : lastRefresh'[x] = IF x = f THEN arrived ELSE SyncAll(S)[x]
  BY <1>1 DEF Marked, SyncAll
<1>5. lastRefresh' \in [Caches -> Nat] /\ \A x \in Caches : lastRefresh'[x] <= clock'
  <2>1. lastRefresh' = [x \in Caches |-> lastRefresh'[x]]
    BY <1>1 DEF Marked, SyncAll
  <2>2. \A x \in Caches : lastRefresh'[x] \in Nat /\ lastRefresh'[x] <= clock'
    BY <1>1, <1>2, <1>3, <1>4, SyncTypes
  <2> QED BY <2>1, <2>2
<1>6. Owner(f) \in Caches /\ Res[f] \in Resources
  BY Structure
<1>7. \A x \in Caches, q \in Resources :
        mem'[x][q] = IF x = Owner(f) /\ q \in Under[Res[f]]
                     THEN IF q \in exists THEN served ELSE NoData
                     ELSE mem[x][q]
  BY <1>1, <1>6 DEF Stored, Replaced, CacheTypeOK
<1>8. mem' \in [Caches -> [Resources -> Nat]] /\ \A x \in Caches, q \in Resources : mem'[x][q] <= clock'
  <2>1. mem' \in [Caches -> [Resources -> Nat]]
    BY <1>1, <1>2, <1>6 DEF Stored, Replaced, CacheTypeOK, NoData
  <2>2. ASSUME NEW x \in Caches, NEW q \in Resources PROVE mem'[x][q] <= clock'
    <3>1. mem[x][q] \in Nat /\ mem[x][q] <= clock
      BY DEF CacheTypeOK
    <3> QED BY <1>1, <1>2, <1>7, <3>1 DEF NoData
  <2> QED BY <2>1, <2>2
<1>9. \A q \in Under[Res[f]] : mem'[Owner(f)][q] # NoData => clock' <= mem'[Owner(f)][q] + MaxLatency
  BY <1>1, <1>2, <1>6, <1>7, Structure
<1>10. ASSUME NEW x \in Rooted, NEW q \in Under[Res[x]], mem'[Owner(x)][q] # NoData
       PROVE  lastRefresh'[x] <= mem'[Owner(x)][q] + MaxLatency + seedAge[Owner(x)]
  <2>1. q \in Resources /\ Owner(x) \in Caches /\ x \in Caches
    BY Structure, RootedStructure
  <2>2. seedAge[Owner(x)] \in Nat
    BY <2>1 DEF CacheTypeOK
  <2>3. CASE Owner(x) = Owner(f) /\ q \in Under[Res[f]]
    <3>1. mem'[Owner(x)][q] = served
      BY <1>7, <1>10, <2>1, <2>3
    <3>2. lastRefresh'[x] <= arrived
      BY <1>1, <1>5, <2>1
    <3>3. lastRefresh'[x] \in Nat
      BY <1>5, <2>1
    <3> QED BY <1>1, <1>2, <2>2, <3>1, <3>2, <3>3
  <2>4. CASE ~ (Owner(x) = Owner(f) /\ q \in Under[Res[f]])
    <3>1. mem'[Owner(x)][q] = mem[Owner(x)][q] /\ x # f
      BY <1>7, <2>1, <2>4
    <3>2. lastRefresh'[x] = SyncAll(S)[x]
      BY <1>4, <2>1, <3>1
    <3> QED BY <1>10, <3>1, <3>2, SyncBelieves DEF Believes
  <2> QED BY <2>3, <2>4
<1> QED BY <1>3, <1>5, <1>8, <1>9, <1>10 DEF Believes

\* A GET replaces the data below its resource and nothing else.
LEMMA FetchReplaces ==
  ASSUME CacheInv, NEW f \in Caches, NEW S, Fetch(f, S)
  PROVE  /\ clock' \in 1 .. MaxClock /\ clock <= clock' /\ Res[f] \in exists
         /\ \A x \in Caches : lastRefresh'[x] >= lastRefresh[x] /\ lastRefresh'[x] \in Nat
         /\ lastRefresh'[f] = clock'
         /\ \A x \in Caches, q \in Resources :
              IF x = Owner(f) /\ q \in Under[Res[f]]
              THEN IF q \in exists THEN mem'[x][q] >= clock ELSE mem'[x][q] = NoData
              ELSE mem'[x][q] = mem[x][q]
<1> USE DEF CacheInv
<1>1. PICK served, arrived \in clock .. MaxClock :
        /\ served <= arrived /\ arrived <= clock + MaxLatency
        /\ clock' = arrived
        /\ lastRefresh' = Marked(f, S, arrived)
        /\ mem' = Stored(f, served)
  BY DEF Fetch
<1>2. clock \in Nat /\ served \in Nat /\ arrived \in Nat
  BY <1>1 DEF CacheTypeOK
<1>3. Owner(f) \in Caches /\ Res[f] \in Resources
  BY Structure
<1>4. \A x \in Caches, q \in Resources :
        mem'[x][q] = IF x = Owner(f) /\ q \in Under[Res[f]]
                     THEN IF q \in exists THEN served ELSE NoData
                     ELSE mem[x][q]
  BY <1>1, <1>3 DEF Stored, Replaced, CacheTypeOK
<1>5. \A x \in Caches : lastRefresh'[x] = IF x = f THEN arrived ELSE SyncAll(S)[x]
  BY <1>1 DEF Marked, SyncAll
<1>6. \A x \in Caches : SyncAll(S)[x] >= lastRefresh[x]
  BY CacheAssumption DEF SyncAll, Synced, CacheTypeOK
<1>7. clock' \in 1 .. MaxClock /\ lastRefresh' \in [Caches -> Nat]
      /\ \A x \in Caches : lastRefresh[x] <= clock /\ lastRefresh[x] \in Nat
  BY FetchLeaves DEF CacheTypeOK
<1>8. \A x \in Caches : lastRefresh'[x] >= lastRefresh[x] /\ lastRefresh'[x] \in Nat
  BY <1>1, <1>2, <1>5, <1>6, <1>7
<1> QED BY <1>1, <1>2, <1>4, <1>5, <1>7, <1>8 DEF Fetch

----------------------------------------------------------------------------
LEMMA CacheInit == ASSUME Init PROVE CacheInv
BY CacheAssumption DEF Init, CacheInv, CacheTypeOK, AgeInv, Believes, RootedFresh, FreshRead, NoRet, NoData, Items, Owner, Rooted

\* What getValue() returns is as fresh as the cache believes.
LEMMA GetValueStep ==
  ASSUME CacheInv, NEW c \in Caches, GetValue(c)
  PROVE  CacheInv'
<1> USE DEF CacheInv
<1> DEFINE f == FetchedBy(c)
           asked == {c} \cup AskedBy(c)
<1>0. /\ UNCHANGED <<built, refreshDuration, exists, seedAge>>
      /\ Owner(c) \in Caches /\ Res[c] \in Resources
      /\ Owner(c)' = Owner(c) /\ Res[c] \in Under[Res[c]]
      /\ ret'.cache = c
  BY Structure DEF GetValue, Owner, Returned
<1>r. ASSUME c \in Rooted => FreshRead' PROVE RootedFresh'
  BY <1>0, <1>r DEF RootedFresh, Rooted, Owner
<1>1. CASE /\ Fetch(f, asked)
           /\ ret' = Returned(c, TRUE, mem'[Owner(c)][Res[c]])
  <2>1. f \in Caches
    BY FetchedByAsks
  <2>8. c \in Rooted => Owner(f) = Owner(c) /\ Res[c] \in Under[Res[f]]
    BY FetchedByOwn
  <2> DEFINE stamp == mem'[Owner(c)][Res[c]]
  <2> HIDE DEF f, asked
  <2>2. /\ clock' \in 1 .. MaxClock
        /\ lastRefresh' \in [Caches -> Nat] /\ \A x \in Caches : lastRefresh'[x] <= clock'
        /\ mem' \in [Caches -> [Resources -> Nat]]
        /\ \A x \in Caches, q \in Resources : mem'[x][q] <= clock'
        /\ \A x \in Rooted : Believes(x, lastRefresh', mem', seedAge)
    BY <1>1, <2>1, FetchLeaves
  <2>9. c \in Rooted /\ stamp # NoData => clock' <= stamp + MaxLatency
    BY <1>1, <2>1, <2>8, FetchLeaves
  <2>3. stamp \in Nat
    BY <1>0, <2>2
  <2>4. fetched' \in [Caches -> Nat]
    BY <1>1, CacheAssumption DEF Fetch, CacheTypeOK
  <2>5. CacheTypeOK'
    BY <1>0, <1>1, <2>2, <2>3, <2>4 DEF CacheTypeOK, Returned
  <2>6. AgeInv'
    BY <1>0, <2>2 DEF AgeInv, Believes, Owner, Rooted
  <2>7. c \in Rooted => FreshRead'
    <3> SUFFICES ASSUME c \in Rooted, ret'.kind = "value", refreshDuration'[ret'.cache] # MaxTime
                 PROVE  clock' - ret'.stamp
                          <= AgeBound(refreshDuration'[ret'.cache], seedAge'[Owner(ret'.cache)])
      BY DEF FreshRead, Owner
    <3>1. ret'.cache = c /\ ret'.stamp = stamp /\ stamp # NoData
      BY <1>1 DEF Returned
    <3> DEFINE d == refreshDuration[c]
               a == seedAge[Owner(c)]
    <3>2. clock' \in Nat /\ MaxLatency \in Nat /\ a \in Nat
      BY <1>0, <2>2, CacheAssumption DEF CacheTypeOK
    <3>3. d \in Int
      BY CacheAssumption DEF CacheTypeOK
    <3> HIDE DEF a, d
    <3>4. AgeBound(d, a) >= MaxLatency /\ AgeBound(d, a) \in Int
      BY <3>2, <3>3 DEF AgeBound
    <3>5. clock' - stamp <= AgeBound(d, a)
      BY <2>3, <2>9, <3>1, <3>2, <3>4
    <3> QED BY <1>0, <3>1, <3>5 DEF a, d
  <2> QED BY <1>r, <2>5, <2>6, <2>7
<1>2. CASE /\ FetchFails(asked)
           /\ ret' = [cache |-> c, got |-> FALSE, stamp |-> NoData, kind |-> "failed"]
  <2>1. lastRefresh' = SyncAll(asked) /\ UNCHANGED <<clock, mem, fetched>>
    BY <1>2 DEF FetchFails
  <2> HIDE DEF asked
  <2>2. lastRefresh' \in [Caches -> Nat] /\ \A x \in Caches : lastRefresh'[x] <= clock'
    BY <2>1, SyncTypes DEF SyncAll
  <2>3. CacheTypeOK'
    BY <1>0, <1>2, <2>1, <2>2 DEF CacheTypeOK, NoData
  <2>4. AgeInv'
    BY <1>0, <2>1, SyncStep
  <2> QED BY <1>2, <2>3, <2>4 DEF RootedFresh, FreshRead
<1>3. CASE /\ ~ NeedsRefresh(c)
           /\ lastRefresh' = SyncAll({c})
           /\ ret' = Returned(c, FALSE, Stamp(c))
           /\ UNCHANGED <<clock, mem, fetched>>
  <2>1. lastRefresh' \in [Caches -> Nat] /\ \A x \in Caches : lastRefresh'[x] <= clock'
    BY <1>3, SyncTypes DEF SyncAll
  <2>2. Stamp(c) \in Nat /\ Stamp(c) = mem[Owner(c)][Res[c]]
    BY <1>0 DEF Stamp, CacheTypeOK
  <2>6. ret' \in [cache : Caches \cup {NoCache}, got : BOOLEAN, stamp : Nat,
                  kind : {"none", "value", "missing", "failed"}]
    BY <1>3, <2>2 DEF Returned
  <2>3. CacheTypeOK'
    BY <1>0, <1>3, <2>1, <2>6 DEF CacheTypeOK
  <2>4. AgeInv'
    BY <1>0, <1>3, SyncStep
  <2>5. c \in Rooted => FreshRead'
    <3> SUFFICES ASSUME c \in Rooted, ret'.kind = "value", refreshDuration'[ret'.cache] # MaxTime
                 PROVE  clock' - ret'.stamp
                          <= AgeBound(refreshDuration'[ret'.cache], seedAge'[Owner(ret'.cache)])
      BY DEF FreshRead, Owner
    <3> DEFINE d == refreshDuration[c]
               a == seedAge[Owner(c)]
    <3>1. ret'.cache = c /\ ret'.stamp = Stamp(c) /\ Stamp(c) # NoData /\ d # MaxTime
      BY <1>0, <1>3 DEF Returned
    <3>0. d \in Durations
      BY DEF CacheTypeOK
    <3>2. /\ clock \in Nat /\ clock <= MaxClock /\ MaxClock \in Nat /\ MaxTime \in Nat
          /\ d \in Int /\ d + MaxClock < MaxTime
          /\ a \in Nat /\ MaxLatency \in Nat
      <4>1. clock \in 1 .. MaxClock /\ a \in Nat
        BY <1>0 DEF CacheTypeOK
      <4>2. MaxClock \in Nat /\ MaxTime \in Nat /\ MaxLatency \in Nat
        BY CacheAssumption
      <4>3. d \in Int /\ d + MaxClock < MaxTime
        BY <3>0, <3>1, CacheAssumption
      <4> HIDE DEF d, a
      <4> QED BY <4>1, <4>2, <4>3
    <3>3. SyncAll({c})[c] = Synced(c)
      BY DEF SyncAll
    <3>4. Synced(c) \in Nat /\ Synced(c) <= clock /\ Synced(c) <= Stamp(c) + MaxLatency + a
      BY <1>0, <2>2, <3>1, <3>3, SyncTypes, SyncBelieves DEF Believes
    <3>5. clock < Synced(c) + d
      <4>1. MaxTime - d > Synced(c)
        BY <3>2, <3>4
      <4> QED BY <1>3, <3>2, <3>4, <4>1 DEF NeedsRefresh
    <3>6. clock - Stamp(c) <= AgeBound(d, a)
      BY <2>2, <3>2, <3>4, <3>5 DEF AgeBound
    <3> QED BY <1>0, <1>3, <3>1, <3>6
  <2> QED BY <1>r, <2>3, <2>4, <2>5
<1> QED BY <1>1, <1>2, <1>3 DEF GetValue

\* A GET, or one that fails, outside getValue().
LEMMA QuietFetch ==
  ASSUME CacheInv, NEW f \in Caches, NEW S, Fetch(f, S), ret' = NoRet,
         UNCHANGED <<built, refreshDuration, exists, seedAge>>
  PROVE  CacheInv'
<1> USE DEF CacheInv
<1>1. RootedFresh'
  BY DEF RootedFresh, FreshRead, NoRet
<1>2. ret' \in [cache : Caches \cup {NoCache}, got : BOOLEAN, stamp : Nat,
                kind : {"none", "value", "missing", "failed"}]
  BY DEF NoRet, NoData
<1>3. fetched' \in [Caches -> Nat]
  BY CacheAssumption DEF Fetch, CacheTypeOK
<1>4. CacheTypeOK'
  BY <1>2, <1>3, FetchLeaves DEF CacheTypeOK
<1>5. AgeInv'
  BY FetchLeaves DEF AgeInv, Believes, Owner, Rooted
<1> QED BY <1>1, <1>4, <1>5

LEMMA QuietSync ==
  ASSUME CacheInv, NEW S, lastRefresh' = SyncAll(S), ret' = NoRet,
         UNCHANGED <<clock, mem, fetched, built, refreshDuration, exists, seedAge>>
  PROVE  CacheInv'
<1> USE DEF CacheInv
<1>1. RootedFresh'
  BY DEF RootedFresh, FreshRead, NoRet
<1>2. ret' \in [cache : Caches \cup {NoCache}, got : BOOLEAN, stamp : Nat,
                kind : {"none", "value", "missing", "failed"}]
  BY DEF NoRet, NoData
<1>3. lastRefresh' \in [Caches -> Nat] /\ \A x \in Caches : lastRefresh'[x] <= clock'
  BY SyncTypes DEF SyncAll
<1>4. CacheTypeOK'
  BY <1>2, <1>3 DEF CacheTypeOK
<1>5. AgeInv'
  BY SyncStep
<1> QED BY <1>1, <1>4, <1>5

LEMMA RefreshStep ==
  ASSUME CacheInv, NEW c \in Caches, Refresh(c)
  PROVE  CacheInv'
<1>1. FetchedBy(c) \in Caches
  BY FetchedByAsks
<1> QED BY <1>1, QuietFetch, QuietSync DEF Refresh, FetchFails

\* A root whose constructor asks the bridge at once.  It has no children, so
\* its age matters to nobody else.
LEMMA ConstructedByGet ==
  ASSUME CacheInv, NEW c \in Items, Base[c] = NoCache, NEW d \in Durations,
         Fetch(c, {}), built' = built \cup {c},
         refreshDuration' = [refreshDuration EXCEPT ![c] = d],
         seedAge' = [seedAge EXCEPT ![c] = 0], ret' = NoRet, exists' = exists
  PROVE  CacheInv'
<1> USE DEF CacheInv
<1>0. /\ c \in Caches /\ Owner(c) = c
      /\ \A x \in Caches : x # c => Owner(x) # c
      /\ \A x \in Caches : Owner(x) \in Caches
  BY CacheAssumption DEF Items, Owner
<1>1. RootedFresh'
  BY DEF RootedFresh, FreshRead, NoRet
<1>2. /\ refreshDuration' \in [Caches -> Durations]
      /\ built' \subseteq Caches /\ exists' \subseteq Resources
      /\ seedAge' \in [Caches -> Nat]
      /\ ret' \in [cache : Caches \cup {NoCache}, got : BOOLEAN, stamp : Nat,
                   kind : {"none", "value", "missing", "failed"}]
  BY <1>0 DEF CacheTypeOK, NoRet, NoData
<1>3. fetched' \in [Caches -> Nat]
  BY CacheAssumption DEF Fetch, CacheTypeOK
<1>4. CacheTypeOK'
  BY <1>0, <1>2, <1>3, FetchLeaves DEF CacheTypeOK
<1>5. ASSUME NEW x \in Rooted, NEW q \in Under[Res[x]], mem'[Owner(x)][q] # NoData
      PROVE  lastRefresh'[x] <= mem'[Owner(x)][q] + MaxLatency + seedAge'[Owner(x)]
  <2>1. CASE x = c
    <3>1. clock' <= mem'[c][q] + MaxLatency
      BY <1>0, <1>5, <2>1, FetchLeaves
    <3>2. lastRefresh'[c] <= clock' /\ lastRefresh'[c] \in Nat /\ clock' \in Nat /\ mem'[c][q] \in Nat
      BY <1>0, <1>4, <2>1, Structure DEF CacheTypeOK
    <3>3. seedAge'[c] = 0
      BY <1>0 DEF CacheTypeOK
    <3> QED BY <1>0, <2>1, <3>1, <3>2, <3>3, CacheAssumption
  <2>2. CASE x # c
    <3>1. seedAge'[Owner(x)] = seedAge[Owner(x)]
      BY <1>0, <2>2, RootedCaches DEF CacheTypeOK
    <3> QED BY <1>0, <1>5, <3>1, FetchLeaves DEF Believes
  <2> QED BY <2>1, <2>2
<1> QED BY <1>1, <1>4, <1>5 DEF AgeInv, Believes, Owner, Rooted

\* An item of an unshared list has no children, so its initial value
\* matters to nobody else.
LEMMA ConstructRootStep ==
  ASSUME CacheInv, NEW c \in Caches, NEW d \in Durations,
         ConstructRoot(c, d)
  PROVE  CacheInv'
<1> USE DEF CacheInv
<1> DEFINE seed == mem[Owner(List[c])][Res[c]]
<1>0. /\ Owner(c) = c /\ List[c] \in Caches
      /\ \A x \in Caches : x # c => Owner(x) # c
      /\ \A x \in Caches : Owner(x) \in Caches
  BY CacheAssumption DEF ConstructRoot, Items, Owner
<1>1. /\ ret' = NoRet /\ exists' = exists
      /\ built' = built \cup {c}
      /\ refreshDuration' = [refreshDuration EXCEPT ![c] = d]
  BY DEF ConstructRoot
<1>2. RootedFresh'
  BY <1>1 DEF RootedFresh, FreshRead, NoRet
<1>3. /\ refreshDuration' \in [Caches -> Durations]
      /\ built' \subseteq Caches /\ exists' \subseteq Resources
      /\ ret' \in [cache : Caches \cup {NoCache}, got : BOOLEAN, stamp : Nat,
                   kind : {"none", "value", "missing", "failed"}]
  BY <1>0, <1>1 DEF CacheTypeOK, NoRet, NoData
<1>4. CASE /\ lastRefresh' = [lastRefresh EXCEPT ![c] = clock]
           /\ mem' = [mem EXCEPT ![c][Res[c]] = seed]
           /\ seedAge' = [seedAge EXCEPT ![c] = clock - seed]
           /\ fetched' = [fetched EXCEPT ![c] = 0]
           /\ UNCHANGED clock
  <2>1. clock \in Nat /\ seed \in Nat /\ seed <= clock
    BY <1>0, Structure DEF CacheTypeOK
  <2>2. /\ lastRefresh' \in [Caches -> Nat] /\ \A x \in Caches : lastRefresh'[x] <= clock'
        /\ seedAge' \in [Caches -> Nat] /\ fetched' \in [Caches -> Nat]
    BY <1>4, <2>1 DEF CacheTypeOK
  <2>3. \A x \in Caches, q \in Resources :
          mem'[x][q] = IF x = c /\ q = Res[c] THEN seed ELSE mem[x][q]
    BY <1>4 DEF CacheTypeOK
  <2>4. mem' \in [Caches -> [Resources -> Nat]]
    BY <1>4, <2>1, Structure DEF CacheTypeOK
  <2>5. \A x \in Caches, q \in Resources : mem'[x][q] <= clock'
    BY <1>4, <2>1, <2>3 DEF CacheTypeOK, NoData
  <2>6. CacheTypeOK'
    BY <1>3, <1>4, <2>2, <2>4, <2>5 DEF CacheTypeOK
  <2>7. ASSUME NEW x \in Rooted, NEW q \in Under[Res[x]], mem'[Owner(x)][q] # NoData
        PROVE  lastRefresh'[x] <= mem'[Owner(x)][q] + MaxLatency + seedAge'[Owner(x)]
    <3>1. q \in Resources /\ x \in Caches
      BY Structure, RootedCaches
    <3>2. CASE x = c
      <4>1. mem'[c][q] = seed
        BY <1>0, <2>3, <2>7, <3>1, <3>2, CacheAssumption
      <4>2. lastRefresh'[c] = clock /\ seedAge'[c] = clock - seed
        BY <1>4 DEF CacheTypeOK
      <4> QED BY <1>0, <2>1, <3>2, <4>1, <4>2, CacheAssumption
    <3>3. CASE x # c
      <4>1. mem'[Owner(x)][q] = mem[Owner(x)][q]
        BY <1>0, <2>3, <3>1, <3>3
      <4>2. lastRefresh'[x] = lastRefresh[x] /\ seedAge'[Owner(x)] = seedAge[Owner(x)]
        BY <1>0, <1>4, <3>1, <3>3 DEF CacheTypeOK
      <4> QED BY <2>7, <4>1, <4>2 DEF AgeInv, Believes
    <3> QED BY <3>2, <3>3
  <2> QED BY <1>2, <2>6, <2>7 DEF AgeInv, Believes, Owner, Rooted
<1>5. CASE Fetch(c, {}) /\ seedAge' = [seedAge EXCEPT ![c] = 0]
  BY <1>1, <1>5, ConstructedByGet DEF ConstructRoot
<1> QED BY <1>4, <1>5 DEF ConstructRoot

LEMMA ConstructChildStep ==
  ASSUME CacheInv, NEW c \in Caches, ConstructChild(c)
  PROVE  CacheInv'
<1> USE DEF CacheInv
<1>0. /\ Owner(c) = Base[c] /\ Base[c] \in Caches
      /\ ret' = NoRet /\ UNCHANGED <<clock, mem, exists, seedAge>>
      /\ lastRefresh' = [lastRefresh EXCEPT ![c] = lastRefresh[Base[c]]]
  BY CacheAssumption DEF ConstructChild, Owner
<1>1. CacheTypeOK'
  BY <1>0 DEF ConstructChild, CacheTypeOK, NoRet, NoData
<1>2. RootedFresh'
  BY <1>0 DEF RootedFresh, FreshRead, NoRet
<1>3. c \in Rooted => /\ Owner(c) \in Rooted /\ Owner(Owner(c)) = Owner(c)
                      /\ Under[Res[c]] \subseteq Under[Res[Owner(c)]]
  BY RootedStructure, Structure
<1>4. ASSUME NEW x \in Rooted PROVE Believes(x, lastRefresh', mem, seedAge)
  <2>1. x \in Caches /\ Believes(x, lastRefresh, mem, seedAge)
    BY RootedCaches DEF AgeInv
  <2>2. CASE x # c
    BY <1>0, <2>1, <2>2 DEF Believes, CacheTypeOK
  <2>3. CASE x = c
    <3>1. Believes(Owner(c), lastRefresh, mem, seedAge)
      BY <1>3, <2>3 DEF AgeInv
    <3>2. lastRefresh'[c] = lastRefresh[Owner(c)]
      BY <1>0, <2>1, <2>3 DEF CacheTypeOK
    <3> QED BY <1>3, <2>3, <3>1, <3>2 DEF Believes
  <2> QED BY <2>2, <2>3
<1> QED BY <1>0, <1>1, <1>2, <1>4 DEF AgeInv, Believes, Owner, Rooted

LEMMA CacheStep == ASSUME CacheInv, [Next]_vars PROVE CacheInv'
<1>1. CASE UNCHANGED vars
  BY <1>1 DEF vars, CacheInv, CacheTypeOK, AgeInv, Believes, Owner, Rooted, RootedFresh, FreshRead, AgeBound
<1>2. CASE Tick
  BY <1>2, CacheAssumption
     DEF Tick, CacheInv, CacheTypeOK, AgeInv, Believes, Owner, Rooted, RootedFresh, FreshRead, NoRet, NoData
<1>3. CASE BridgeChanges
  BY <1>3 DEF BridgeChanges, CacheInv, CacheTypeOK, AgeInv, Believes, Owner, Rooted, RootedFresh, FreshRead, NoRet, NoData
<1>4. ASSUME NEW c \in Caches, GetValue(c) \/ Refresh(c) \/ ConstructChild(c)
      PROVE  CacheInv'
  BY <1>4, GetValueStep, RefreshStep, ConstructChildStep
<1>6. ASSUME NEW c \in Caches, NEW d \in Durations, ConstructRoot(c, d) PROVE CacheInv'
  BY <1>6, ConstructRootStep
<1>5. ASSUME NEW c \in Caches, NEW d \in Durations, SetRefreshDuration(c, d) PROVE CacheInv'
  BY <1>5 DEF SetRefreshDuration, CacheInv, CacheTypeOK, AgeInv, Believes, Owner, Rooted, RootedFresh, FreshRead, NoRet, NoData
<1> QED BY <1>1, <1>2, <1>3, <1>4, <1>5, <1>6 DEF Next

THEOREM CacheInvariant == Spec => []CacheInv
<1>1. Init => CacheInv
  BY CacheInit
<1>2. CacheInv /\ [Next]_vars => CacheInv'
  BY CacheStep
<1> QED BY <1>1, <1>2, PTL DEF Spec

\* Type correctness of the cache tree; no lastRefresh lies in the future.
THEOREM CacheTypeCorrect == Spec => []CacheTypeOK
<1>1. CacheInv => CacheTypeOK
  BY DEF CacheInv
<1> QED BY <1>1, CacheInvariant, PTL
----------------------------------------------------------------------------
\* A cache that was refreshed has, in the JSON it reads, everything below its
\* resource that exists all the time, and so has its base.
Backed(x) ==
  lastRefresh[x] # 0 =>
    /\ lastRefresh[Owner(x)] # 0
    /\ \A q \in Under[Res[x]] \cap Permanent : mem[Owner(x)][q] # NoData

\* What getValue() has just returned is what the cache holds.
ReadHolds ==
  /\ ret.kind = "missing" => ret.cache \in Caches /\ Res[ret.cache] \notin Permanent
  /\ ret.kind = "value" =>
       /\ ret.cache \in Caches
       /\ lastRefresh[Owner(ret.cache)] # 0
       /\ ret.stamp = mem[Owner(ret.cache)][Res[ret.cache]]

FoundInv ==
  /\ CacheInv
  /\ Permanent \subseteq exists
  /\ \A x \in Rooted : Backed(x)
  /\ ret.kind \in {"missing", "value"} => ret.cache \in Caches
  /\ ret.cache \in Rooted => ReadHolds

\* A GET brings what exists below its resource, and its base knows the rest.
LEMMA FetchBacks ==
  ASSUME FoundInv, NEW f \in Caches, NEW S, Fetch(f, S),
         Base[f] # NoCache => ~ NeedsRefresh(Base[f])
  PROVE  /\ \A x \in Rooted : Backed(x)'
         /\ f \in Rooted => lastRefresh'[Owner(f)] # 0
         /\ \A q \in Under[Res[f]] \cap exists : mem'[Owner(f)][q] # NoData
<1> USE DEF FoundInv
<1>0. Owner(f) \in Caches /\ exists \subseteq Resources
  BY Structure DEF CacheInv, CacheTypeOK
<1>1. /\ clock' \in 1 .. MaxClock /\ clock \in 1 .. MaxClock /\ clock <= clock'
      /\ \A x \in Caches : lastRefresh'[x] >= lastRefresh[x] /\ lastRefresh'[x] \in Nat
                           /\ lastRefresh[x] \in Nat
      /\ lastRefresh'[f] = clock'
      /\ \A x \in Caches, q \in Resources :
           IF x = Owner(f) /\ q \in Under[Res[f]]
           THEN IF q \in exists THEN mem'[x][q] >= clock ELSE mem'[x][q] = NoData
           ELSE mem'[x][q] = mem[x][q]
      /\ mem' \in [Caches -> [Resources -> Nat]]
  BY FetchReplaces, FetchLeaves DEF CacheInv, CacheTypeOK
<1>2. f \in Rooted => lastRefresh'[Owner(f)] # 0
  <2>1. CASE f = Owner(f)
    BY <1>1, <2>1
  <2>2. CASE f # Owner(f) /\ f \in Rooted
    <3>1. Base[f] # NoCache /\ Owner(f) = Base[f] /\ Base[Owner(f)] = NoCache
      BY <2>2, RootedStructure DEF Owner
    <3>2. lastRefresh[Owner(f)] # 0
      BY <3>1 DEF NeedsRefresh, Synced
    <3> QED BY <1>0, <1>1, <3>2
  <2> QED BY <2>1, <2>2
<1>3. \A x \in Caches, q \in Resources :
        mem'[x][q] = mem[x][q] \/ (q \in exists /\ mem'[x][q] # NoData) \/ q \notin exists
  BY <1>1 DEF NoData
<1>4. ASSUME NEW x \in Rooted, lastRefresh'[x] # 0 PROVE lastRefresh'[Owner(x)] # 0
  <2>1. Owner(x) \in Caches /\ x \in Caches
    BY Structure, RootedCaches
  <2>2. CASE lastRefresh[x] # 0
    BY <1>1, <2>1, <2>2 DEF Backed
  <2>3. CASE x = f
    BY <1>2, <2>3
  <2>4. CASE lastRefresh[x] = 0 /\ x # f
    <3>1. lastRefresh'[x] = SyncAll(S)[x]
      BY <2>1, <2>4 DEF Fetch, Marked, SyncAll
    <3>2. lastRefresh'[x] = lastRefresh[Owner(x)]
      BY <1>4, <2>1, <2>4, <3>1, SyncTypes DEF CacheInv
    <3> QED BY <1>1, <1>4, <2>1, <3>2
  <2> QED BY <2>2, <2>3, <2>4
<1>5. ASSUME NEW x \in Rooted, lastRefresh'[x] # 0, NEW q \in Under[Res[x]] \cap Permanent
      PROVE  mem'[Owner(x)][q] # NoData
  <2>1. /\ x \in Caches /\ q \in Resources /\ q \in exists
        /\ Owner(x) \in Rooted /\ Owner(x) \in Caches /\ Owner(Owner(x)) = Owner(x)
        /\ Under[Res[x]] \subseteq Under[Res[Owner(x)]]
    BY Structure, RootedStructure
  <2>2. CASE lastRefresh[x] # 0
    BY <1>3, <2>1, <2>2 DEF Backed
  <2>3. CASE x = f
    <3>1. mem'[Owner(x)][q] >= clock
      BY <1>1, <2>1, <2>3
    <3> QED BY <1>1, <2>1, <3>1 DEF NoData
  <2>4. CASE lastRefresh[x] = 0 /\ x # f
    <3>1. lastRefresh'[x] = SyncAll(S)[x]
      BY <2>1, <2>4 DEF Fetch, Marked, SyncAll
    <3>2. lastRefresh[Owner(x)] # 0
      BY <1>5, <2>1, <2>4, <3>1, SyncTypes DEF CacheInv
    <3>3. mem[Owner(x)][q] # NoData
      BY <2>1, <3>2 DEF Backed
    <3> QED BY <1>3, <2>1, <3>3
  <2> QED BY <2>2, <2>3, <2>4
<1>6. ASSUME NEW q \in Under[Res[f]] \cap exists PROVE mem'[Owner(f)][q] # NoData
  <2>1. q \in Resources /\ mem'[Owner(f)][q] >= clock
    BY <1>0, <1>1
  <2> QED BY <1>0, <1>1, <2>1 DEF NoData
<1> QED BY <1>2, <1>4, <1>5, <1>6 DEF Backed, Owner

LEMMA SyncBacks ==
  ASSUME FoundInv, NEW S, lastRefresh' = SyncAll(S), mem' = mem
  PROVE  \A x \in Rooted : Backed(x)'
<1> SUFFICES ASSUME NEW x \in Rooted, lastRefresh'[x] # 0
             PROVE  /\ lastRefresh'[Owner(x)] # 0
                    /\ \A q \in Under[Res[x]] \cap Permanent : mem[Owner(x)][q] # NoData
  BY DEF Backed, Owner
<1>0. /\ x \in Caches /\ Owner(x) \in Rooted /\ Owner(x) \in Caches
      /\ Base[Owner(x)] = NoCache /\ Owner(Owner(x)) = Owner(x)
      /\ Under[Res[x]] \subseteq Under[Res[Owner(x)]]
  BY Structure, RootedStructure
<1>1. lastRefresh'[Owner(x)] = lastRefresh[Owner(x)]
  BY <1>0 DEF SyncAll, Synced
<1>2. lastRefresh'[x] \in {lastRefresh[x], lastRefresh[Owner(x)]}
  BY <1>0, SyncTypes DEF FoundInv, CacheInv
<1> QED BY <1>0, <1>1, <1>2 DEF FoundInv, Backed

LEMMA GetValueFinds ==
  ASSUME FoundInv, NEW c \in Caches, GetValue(c)
  PROVE  FoundInv'
<1> USE DEF FoundInv
<1>0. UNCHANGED exists /\ ret'.cache = c
  BY DEF GetValue, Returned
<1>1. CacheInv'
  BY GetValueStep
<1>r. ASSUME \A x \in Rooted : Backed(x)', c \in Rooted => ReadHolds' PROVE FoundInv'
  BY <1>0, <1>1, <1>r DEF Rooted, Owner
<1>2. CASE /\ Fetch(FetchedBy(c), {c} \cup AskedBy(c))
           /\ ret' = Returned(c, TRUE, mem'[Owner(c)][Res[c]])
  <2> DEFINE f == FetchedBy(c)
  <2>1. f \in Caches /\ (Base[f] # NoCache => ~ NeedsRefresh(Base[f]))
    BY FetchedByAsks
  <2>2. /\ \A x \in Rooted : Backed(x)'
        /\ f \in Rooted => lastRefresh'[Owner(f)] # 0
        /\ \A q \in Under[Res[f]] \cap exists : mem'[Owner(f)][q] # NoData
    BY <1>2, <2>1, FetchBacks
  <2>3. ret'.cache = c /\ ret'.stamp = mem'[Owner(c)][Res[c]]
        /\ ret'.kind = IF mem'[Owner(c)][Res[c]] = NoData THEN "missing" ELSE "value"
    BY <1>2 DEF Returned
  <2>4. c \in Rooted => f \in Rooted /\ Owner(f) = Owner(c) /\ Res[c] \in Under[Res[f]]
    BY FetchedByOwn
  <2> HIDE DEF f
  <2>5. c \in Rooted => ReadHolds'
    BY <2>2, <2>3, <2>4 DEF ReadHolds, Owner
  <2> QED BY <1>r, <2>2, <2>5
<1>3. CASE /\ FetchFails({c} \cup AskedBy(c))
           /\ ret' = [cache |-> c, got |-> FALSE, stamp |-> NoData, kind |-> "failed"]
  <2>1. \A x \in Rooted : Backed(x)'
    BY <1>3, SyncBacks DEF FetchFails
  <2>2. ReadHolds'
    BY <1>3 DEF ReadHolds
  <2> QED BY <1>r, <2>1, <2>2
<1>4. CASE /\ ~ NeedsRefresh(c)
           /\ lastRefresh' = SyncAll({c})
           /\ ret' = Returned(c, FALSE, Stamp(c))
           /\ UNCHANGED <<clock, mem, fetched>>
  <2>1. \A x \in Rooted : Backed(x)'
    BY <1>4, SyncBacks
  <2>2. Synced(c) # 0 /\ lastRefresh'[c] = Synced(c) /\ Res[c] \in Under[Res[c]]
    BY <1>4, Structure DEF NeedsRefresh, SyncAll
  <2>3. c \in Rooted => /\ lastRefresh'[Owner(c)] # 0
                        /\ \A q \in Under[Res[c]] \cap Permanent : mem'[Owner(c)][q] # NoData
    BY <2>1, <2>2 DEF Backed, Owner
  <2>4. ret'.cache = c /\ ret'.stamp = mem'[Owner(c)][Res[c]]
        /\ ret'.kind = IF mem'[Owner(c)][Res[c]] = NoData THEN "missing" ELSE "value"
    BY <1>4 DEF Returned, Stamp
  <2>5. c \in Rooted => ReadHolds'
    BY <2>2, <2>3, <2>4 DEF ReadHolds, Owner
  <2> QED BY <1>r, <2>1, <2>5
<1> QED BY <1>2, <1>3, <1>4 DEF GetValue

LEMMA RefreshFinds ==
  ASSUME FoundInv, NEW c \in Caches, Refresh(c)
  PROVE  FoundInv'
<1> USE DEF FoundInv
<1>1. CacheInv' /\ UNCHANGED exists /\ ret' = NoRet
  BY RefreshStep DEF Refresh
<1>2. \A x \in Rooted : Backed(x)'
  BY FetchedByAsks, FetchBacks, SyncBacks DEF Refresh, FetchFails
<1> QED BY <1>1, <1>2 DEF ReadHolds, NoRet, Rooted, Owner

LEMMA ConstructChildFinds ==
  ASSUME FoundInv, NEW c \in Caches, ConstructChild(c)
  PROVE  FoundInv'
<1> USE DEF FoundInv
<1>1. CacheInv' /\ UNCHANGED <<exists, mem>> /\ ret' = NoRet
  BY ConstructChildStep DEF ConstructChild
<1>2. /\ Owner(c) = Base[c] /\ Under[Res[c]] \subseteq Under[Res[Owner(c)]]
      /\ lastRefresh' = [lastRefresh EXCEPT ![c] = lastRefresh[Base[c]]]
      /\ \A x \in Caches : Owner(x) # c /\ Owner(x) \in Caches
  BY CacheAssumption, Structure DEF ConstructChild, Items, Owner
<1>3. \A x \in Caches : lastRefresh'[x] = IF x = c THEN lastRefresh[Base[c]] ELSE lastRefresh[x]
  BY <1>2 DEF CacheInv, CacheTypeOK
<1>4. \A x \in Rooted : Backed(x)'
  <2> SUFFICES ASSUME NEW x \in Rooted, lastRefresh'[x] # 0
               PROVE  /\ lastRefresh'[Owner(x)] # 0
                      /\ \A q \in Under[Res[x]] \cap Permanent : mem[Owner(x)][q] # NoData
    BY <1>1 DEF Backed, Owner
  <2>3. /\ x \in Caches /\ Owner(x) \in Rooted /\ Owner(Owner(x)) = Owner(x)
        /\ lastRefresh'[Owner(x)] = lastRefresh[Owner(x)]
    BY <1>2, <1>3, RootedStructure
  <2>1. CASE x = c
    BY <1>2, <1>3, <2>1, <2>3 DEF Backed
  <2>2. CASE x # c
    BY <1>2, <1>3, <2>2, <2>3 DEF Backed
  <2> QED BY <2>1, <2>2
<1> QED BY <1>1, <1>4 DEF ReadHolds, NoRet, Rooted, Owner

LEMMA ConstructRootFinds ==
  ASSUME FoundInv, NEW c \in Caches, NEW d \in Durations, ConstructRoot(c, d)
  PROVE  FoundInv'
<1> USE DEF FoundInv
<1> DEFINE seed == mem[Owner(List[c])][Res[c]]
<1>1. CacheInv' /\ UNCHANGED exists /\ ret' = NoRet
  BY ConstructRootStep DEF ConstructRoot
<1>2. /\ Base[c] = NoCache /\ c \in Items /\ Owner(c) = c /\ Under[Res[c]] = {Res[c]}
      /\ \A x \in Caches : (Owner(x) = c => x = c) /\ Owner(x) \in Caches
      /\ Res[c] \in Resources /\ seed # NoData
  BY CacheAssumption DEF ConstructRoot, HasItem, Items, Owner
<1>3. CASE Fetch(c, {})
  <2>1. \A x \in Rooted : Backed(x)'
    BY <1>2, <1>3, FetchBacks DEF Items
  <2> QED BY <1>1, <2>1 DEF ReadHolds, NoRet, Rooted, Owner
<1>4. CASE /\ lastRefresh' = [lastRefresh EXCEPT ![c] = clock]
           /\ mem' = [mem EXCEPT ![c][Res[c]] = seed]
  <2>1. /\ \A x \in Caches : lastRefresh'[x] = IF x = c THEN clock ELSE lastRefresh[x]
        /\ \A x \in Caches, q \in Resources :
             mem'[x][q] = IF x = c /\ q = Res[c] THEN seed ELSE mem[x][q]
        /\ clock # 0
    BY <1>2, <1>4 DEF CacheInv, CacheTypeOK
  <2>2. \A x \in Rooted : Backed(x)'
    <3> SUFFICES ASSUME NEW x \in Rooted, lastRefresh'[x] # 0
                 PROVE  /\ lastRefresh'[Owner(x)] # 0
                        /\ \A q \in Under[Res[x]] \cap Permanent : mem'[Owner(x)][q] # NoData
      BY DEF Backed, Owner
    <3>1. CASE x = c
      BY <1>2, <2>1, <3>1
    <3>2. CASE x # c
      <4>1. Owner(x) # c /\ Owner(x) \in Caches /\ lastRefresh[x] # 0 /\ Under[Res[x]] \subseteq Resources
        BY <1>2, <2>1, <3>2, Structure, RootedCaches
      <4>2. /\ lastRefresh[Owner(x)] # 0
            /\ \A q \in Under[Res[x]] \cap Permanent : mem[Owner(x)][q] # NoData
        BY <4>1 DEF Backed
      <4> QED BY <2>1, <4>1, <4>2
    <3> QED BY <3>1, <3>2
  <2> QED BY <1>1, <2>2 DEF ReadHolds, NoRet, Rooted, Owner
<1> QED BY <1>3, <1>4 DEF ConstructRoot

LEMMA FoundStep == ASSUME FoundInv, [Next]_vars PROVE FoundInv'
<1> USE DEF FoundInv
<1>0. CacheInv'
  BY CacheStep
<1>1. CASE UNCHANGED vars
  BY <1>0, <1>1 DEF vars, Backed, ReadHolds, Rooted, Owner
<1>2. CASE Tick \/ \E c \in Caches, d \in Durations : SetRefreshDuration(c, d)
  BY <1>0, <1>2 DEF Tick, SetRefreshDuration, Backed, ReadHolds, Rooted, Owner, NoRet
<1>3. CASE BridgeChanges
  BY <1>0, <1>3 DEF BridgeChanges, Backed, ReadHolds, Rooted, Owner, NoRet
<1>4. ASSUME NEW c \in Caches, GetValue(c) \/ Refresh(c) \/ ConstructChild(c)
      PROVE  FoundInv'
  BY <1>4, GetValueFinds, RefreshFinds, ConstructChildFinds
<1>5. ASSUME NEW c \in Caches, NEW d \in Durations, ConstructRoot(c, d) PROVE FoundInv'
  BY <1>5, ConstructRootFinds
<1> QED BY <1>1, <1>2, <1>3, <1>4, <1>5 DEF Next

THEOREM FoundInvariant == Spec => []FoundInv
<1>1. Init => FoundInv
  BY CacheInit, CacheAssumption DEF Init, FoundInv, Backed, ReadHolds, NoRet, Rooted
<1>2. FoundInv /\ [Next]_vars => FoundInv'
  BY FoundStep
<1> QED BY <1>1, <1>2, PTL DEF Spec

\* getValue() of the bridge cache, of a list or of an unshared item never
\* returns data older than its refresh duration allows, however requests,
\* failures and refreshes of other parts of the tree interleave.
THEOREM ReadsAreFresh == ASSUME TwoLevels PROVE Spec => []FreshRead
<1>1. FoundInv => FreshRead
  BY AllAreRooted DEF FoundInv, CacheInv, RootedFresh, FreshRead
<1> QED BY <1>1, FoundInvariant, PTL

\* Without shared state no getter reports a resource missing that exists all
\* the time, however requests for its base and its siblings interleave.
THEOREM PermanentStaysFound == ASSUME TwoLevels PROVE Spec => []PermanentIsFound
<1>1. FoundInv => PermanentIsFound
  BY AllAreRooted DEF FoundInv, ReadHolds, PermanentIsFound
<1> QED BY <1>1, FoundInvariant, PTL

\* The const getter walks down from the root, which is where a rooted cache
\* reads.
LEMMA ConstReads ==
  ASSUME FoundInv, ret.cache \in Rooted
  PROVE  ConstAgrees
<1> SUFFICES ASSUME ret.kind = "value" PROVE ConstStamp(ret.cache) = ret.stamp
  BY DEF ConstAgrees
<1>1. /\ lastRefresh[Owner(ret.cache)] # 0
      /\ ret.stamp = mem[Owner(ret.cache)][Res[ret.cache]]
  BY DEF FoundInv, ReadHolds
<1>2. Root(ret.cache) = Owner(ret.cache)
  BY RootedStructure DEF Root, Owner
<1> QED BY <1>1, <1>2 DEF ConstStamp

\* Without shared state the const getter, which walks down from the root,
\* returns what the other getter has just returned.
THEOREM BothGettersAgree == ASSUME TwoLevels PROVE Spec => []ConstAgrees
<1>1. FoundInv => ConstAgrees
  BY AllAreRooted, ConstReads DEF FoundInv, ConstAgrees
<1> QED BY <1>1, FoundInvariant, PTL

\* With or without shared state, and whatever the items below the lists do:
\* the bridge cache and its lists return data as fresh as their refresh
\* durations promise, find what exists all the time, and agree with their
\* const getters.
THEOREM ListsReadWell == Spec => []ListReads
<1>1. ASSUME FoundInv, ret.cache \in Rooted PROVE FreshRead /\ PermanentIsFound /\ ConstAgrees
  BY <1>1, ConstReads DEF FoundInv, CacheInv, RootedFresh, ReadHolds, PermanentIsFound
<1>2. ASSUME FoundInv, ret.cache \notin Caches PROVE FreshRead /\ PermanentIsFound /\ ConstAgrees
  BY <1>2 DEF FoundInv, FreshRead, PermanentIsFound, ConstAgrees
<1>3. FoundInv => ListReads
  <2> SUFFICES ASSUME FoundInv, List[ret.cache] = NoCache
               PROVE  FreshRead /\ PermanentIsFound /\ ConstAgrees
    BY DEF ListReads
  <2>1. ret.cache \in Caches => ret.cache \in Rooted
    BY ListsAreRooted DEF Items
  <2> QED BY <1>1, <1>2, <2>1
<1> QED BY <1>3, FoundInvariant, PTL
----------------------------------------------------------------------------
\* Two lists hold different parts of the state of the bridge: a GET brings
\* only the data of the cache that sent it and of its children.
Disjoint ==
  \A f, x \in Caches :
    Owner(x) = Owner(f) /\ Res[x] \in Under[Res[f]] => x = f \/ f = Owner(x)

\* A cache that asks its base knows of every GET that brought its data.
Noticed == \A x \in Caches : fetched[x] <= Synced(x)

LEMMA SyncedBounds ==
  ASSUME CacheTypeOK, NEW x \in Caches
  PROVE  /\ Synced(x) \in Nat /\ Synced(x) >= lastRefresh[x]
         /\ Synced(x) >= lastRefresh[Owner(x)] /\ Owner(x) \in Caches
BY CacheAssumption DEF CacheTypeOK, Synced, Owner

LEMMA SyncedTypeNext ==
  ASSUME CacheTypeOK', NEW x \in Caches
  PROVE  /\ Synced(x)' \in Nat /\ Synced(x)' >= lastRefresh'[x]
         /\ Synced(x)' >= lastRefresh'[Owner(x)]
BY CacheAssumption DEF CacheTypeOK, Synced, Owner

LEMMA SyncedGrows ==
  ASSUME CacheTypeOK, CacheTypeOK',
         \A x \in Caches : lastRefresh'[x] >= lastRefresh[x], NEW x \in Caches
  PROVE  Synced(x)' >= Synced(x)
<1>1. Base[x] \in Caches \cup {NoCache}
  BY CacheAssumption
<1>2. CASE Base[x] = NoCache
  BY <1>2 DEF Synced, CacheTypeOK
<1>3. CASE Base[x] \in Caches
  BY <1>3, CacheAssumption DEF Synced, CacheTypeOK
<1> QED BY <1>1, <1>2, <1>3

LEMMA FetchNoticed ==
  ASSUME Disjoint, CacheInv, CacheTypeOK', Noticed,
         NEW f \in Caches, NEW S, Fetch(f, S)
  PROVE  Noticed'
<1> SUFFICES ASSUME NEW x \in Caches PROVE fetched'[x] <= Synced(x)'
  BY DEF Noticed
<1>1. /\ \A y \in Caches : lastRefresh'[y] >= lastRefresh[y]
      /\ lastRefresh'[f] = clock' /\ clock' \in Nat
  BY FetchReplaces
<1>2. fetched'[x] = IF Owner(x) = Owner(f) /\ Res[x] \in Under[Res[f]] THEN clock' ELSE fetched[x]
  BY DEF Fetch
<1>3. Synced(x)' \in Nat /\ Synced(x)' >= lastRefresh'[x] /\ Synced(x)' >= lastRefresh'[Owner(x)]
  BY SyncedTypeNext
<1>4. CASE Owner(x) = Owner(f) /\ Res[x] \in Under[Res[f]]
  BY <1>1, <1>2, <1>3, <1>4 DEF Disjoint
<1>5. CASE ~ (Owner(x) = Owner(f) /\ Res[x] \in Under[Res[f]])
  <2>1. Synced(x)' >= Synced(x) /\ Synced(x) \in Nat /\ fetched[x] \in Nat /\ fetched[x] <= Synced(x)
    BY <1>1, SyncedGrows, SyncedBounds DEF CacheInv, CacheTypeOK, Noticed
  <2> QED BY <1>2, <1>3, <1>5, <2>1
<1> QED BY <1>4, <1>5

LEMMA SyncNoticed ==
  ASSUME CacheInv, CacheTypeOK', Noticed, NEW S, lastRefresh' = SyncAll(S), UNCHANGED fetched
  PROVE  Noticed'
<1>1. \A y \in Caches : lastRefresh'[y] >= lastRefresh[y]
  BY SyncedBounds DEF SyncAll, CacheInv, CacheTypeOK
<1> SUFFICES ASSUME NEW x \in Caches PROVE fetched'[x] <= Synced(x)'
  BY DEF Noticed
<1>2. Synced(x)' >= Synced(x) /\ Synced(x) \in Nat /\ fetched[x] \in Nat /\ fetched[x] <= Synced(x)
  BY <1>1, SyncedGrows, SyncedBounds DEF CacheInv, CacheTypeOK, Noticed
<1>3. Synced(x)' \in Nat
  BY SyncedTypeNext
<1> QED BY <1>2, <1>3

\* Constructing an item changes its own times only, and starts with no GET.
LEMMA ConstructNoticed ==
  ASSUME CacheInv, CacheTypeOK', Noticed, NEW c \in Items, NEW t \in Nat,
         lastRefresh' = [lastRefresh EXCEPT ![c] = t],
         fetched' = [fetched EXCEPT ![c] = 0]
  PROVE  Noticed'
<1> SUFFICES ASSUME NEW x \in Caches PROVE fetched'[x] <= Synced(x)'
  BY DEF Noticed
<1>1. Synced(x)' \in Nat
  BY SyncedTypeNext
<1>2. CASE x = c
  BY <1>1, <1>2 DEF CacheInv, CacheTypeOK, Items
<1>3. CASE x # c
  <2>1. Base[x] # c
    BY CacheAssumption DEF Items
  <2>2. Synced(x)' = Synced(x) /\ fetched'[x] = fetched[x]
    BY <1>3, <2>1, CacheAssumption DEF Synced, CacheInv, CacheTypeOK, Items
  <2> QED BY <2>2 DEF Noticed
<1> QED BY <1>2, <1>3

LEMMA NoticedStep ==
  ASSUME Disjoint, CacheInv, CacheInv', Noticed, [Next]_vars
  PROVE  Noticed'
<1>0. CacheTypeOK /\ CacheTypeOK'
  BY DEF CacheInv
<1>1. CASE \E c \in Caches : GetValue(c) \/ Refresh(c)
  <2> PICK c \in Caches : GetValue(c) \/ Refresh(c)
    BY <1>1
  <2>1. FetchedBy(c) \in Caches
    BY FetchedByAsks
  <2> QED BY <1>0, <2>1, FetchNoticed, SyncNoticed DEF GetValue, Refresh, FetchFails
<1>2. CASE \E c \in Caches : ConstructChild(c)
  <2> PICK c \in Caches : ConstructChild(c)
    BY <1>2
  <2>1. lastRefresh[Base[c]] \in Nat
    BY <1>0, CacheAssumption DEF ConstructChild, CacheTypeOK
  <2> QED BY <1>0, <2>1, ConstructNoticed DEF ConstructChild
<1>3. CASE \E c \in Caches, d \in Durations : ConstructRoot(c, d)
  <2> PICK c \in Caches, d \in Durations : ConstructRoot(c, d)
    BY <1>3
  <2>1. clock \in Nat /\ c \in Items
    BY <1>0 DEF ConstructRoot, CacheTypeOK
  <2> QED BY <1>0, <2>1, ConstructNoticed, FetchNoticed DEF ConstructRoot
<1>4. CASE UNCHANGED <<lastRefresh, fetched>>
  BY <1>4 DEF Noticed, Synced
<1> QED BY <1>1, <1>2, <1>3, <1>4 DEF Next, vars, Tick, BridgeChanges, SetRefreshDuration

\* With or without shared state, getValue() sends no request for data that
\* were brought, by whichever cache, less than a refresh duration ago.
THEOREM RequestsAreSaved == ASSUME Disjoint PROVE Spec => NoEarlyRefetch
<1>1. Init => Noticed
  BY CacheAssumption DEF Init, Noticed, Synced
<1>2. CacheInv /\ CacheInv' /\ Noticed /\ [Next]_vars => Noticed'
  BY NoticedStep
<1>3. CacheInv /\ Noticed /\ [Next]_vars
        => [ret'.got /\ fetched[ret'.cache] # 0 /\ refreshDuration[ret'.cache] >= 0
            => clock >= fetched[ret'.cache] + refreshDuration[ret'.cache]]_vars
  <2> SUFFICES ASSUME CacheInv, Noticed, Next, ret'.got,
                      fetched[ret'.cache] # 0, refreshDuration[ret'.cache] >= 0
               PROVE  clock >= fetched[ret'.cache] + refreshDuration[ret'.cache]
    OBVIOUS
  <2>1. PICK c \in Caches : GetValue(c)
    BY DEF Next, Tick, BridgeChanges, Refresh, ConstructChild, ConstructRoot, SetRefreshDuration, NoRet
  <2>2. ret'.cache = c /\ NeedsRefresh(c)
    BY <2>1 DEF GetValue, Returned
  <2>3. /\ fetched[c] \in Nat /\ Synced(c) \in Nat /\ fetched[c] <= Synced(c)
        /\ clock \in Nat /\ refreshDuration[c] \in Int
    <3>1. CacheTypeOK
      BY DEF CacheInv
    <3>2. Synced(c) \in Nat
      BY <3>1, SyncedBounds
    <3>3. Durations \subseteq Int
      BY CacheAssumption
    <3>4. fetched[c] \in Nat /\ clock \in 1 .. MaxClock /\ refreshDuration[c] \in Durations
      BY <3>1 DEF CacheTypeOK
    <3>5. fetched[c] <= Synced(c)
      BY DEF Noticed
    <3>6. clock \in Nat
      BY <3>4, CacheAssumption
    <3>7. refreshDuration[c] \in Int
      BY <3>3, <3>4
    <3> QED BY <3>2, <3>4, <3>5, <3>6, <3>7
  <2> QED BY <2>2, <2>3 DEF NeedsRefresh
<1> QED BY <1>1, <1>2, <1>3, CacheInvariant, PTL DEF Spec, NoEarlyRefetch
----------------------------------------------------------------------------
(* The JSON of the roots as replicas.                                      *)

\* A root that was never refreshed knows nothing.
Blank == \A r \in Roots : lastRefresh[r] = 0 => \A q \in Resources : mem[r][q] = NoData

\* One step of the tree, seen as one of the replicas.
ViewStep == View!Next /\ Blank'

LEMMA RootsOwn ==
  ASSUME NEW r \in Roots
  PROVE  r \in Caches /\ Base[r] = NoCache /\ Owner(r) = r /\ Synced(r) = lastRefresh[r]
BY DEF Roots, Owner, Synced

LEMMA WaitIsViewed ==
  ASSUME CacheTypeOK, Blank, clock' >= clock,
         Permanent \subseteq exists', exists' \subseteq Resources,
         \A r \in Roots : lastRefresh'[r] = lastRefresh[r] /\ mem'[r] = mem[r]
  PROVE  ViewStep
<1>1. View!Wait
  <2>1. [r \in Roots |-> mem'[r]] = [r \in Roots |-> mem[r]]
    OBVIOUS
  <2>2. {r \in Roots : lastRefresh'[r] # 0} = {r \in Roots : lastRefresh[r] # 0}
    OBVIOUS
  <2> QED BY <2>1, <2>2 DEF View!Wait, Roots
<1>2. Blank'
  BY DEF Blank, Roots
<1> QED BY <1>1, <1>2 DEF ViewStep, View!Next

LEMMA SyncIsViewed ==
  ASSUME CacheTypeOK, Blank, Permanent \subseteq exists, NEW S,
         lastRefresh' = SyncAll(S), UNCHANGED <<clock, mem, exists>>
  PROVE  ViewStep
<1>1. \A r \in Roots : lastRefresh'[r] = lastRefresh[r]
  BY RootsOwn DEF SyncAll
<1>2. clock' >= clock /\ exists' \subseteq Resources
  BY DEF CacheTypeOK
<1> QED BY <1>1, <1>2, WaitIsViewed

\* A GET brings a part of a replica, or one that is none's: the JSON of a
\* shared list, which only its items read.
LEMMA FetchIsViewed ==
  ASSUME CacheTypeOK, Blank, Permanent \subseteq exists, exists' = exists,
         NEW f \in Caches, NEW S, Fetch(f, S),
         Base[f] # NoCache => ~ NeedsRefresh(Base[f])
  PROVE  ViewStep
<1> DEFINE o == Owner(f)
<1>1. PICK served, arrived \in clock .. MaxClock :
        /\ served <= arrived
        /\ clock' = arrived
        /\ lastRefresh' = Marked(f, S, arrived)
        /\ mem' = Stored(f, served)
  BY DEF Fetch
<1>2. clock \in Nat /\ clock > 0 /\ served \in Nat /\ arrived \in Nat /\ arrived >= clock
      /\ exists \subseteq Resources
  BY <1>1, CacheAssumption DEF CacheTypeOK
<1>3. o \in Caches /\ Res[f] \in Resources
  BY Structure
<1>4. \A x \in Caches : mem'[x] = IF x = o THEN Replaced(mem[o], f, served) ELSE mem[x]
  BY <1>1, <1>3 DEF Stored, CacheTypeOK
<1>5. \A r \in Roots : lastRefresh'[r] = IF r = f THEN arrived ELSE lastRefresh[r]
  BY <1>1, RootsOwn DEF Marked, SyncAll
<1>6. CASE o \notin Roots
  <2>1. f \notin Roots
    BY <1>6, RootsOwn
  <2>2. \A r \in Roots : lastRefresh'[r] = lastRefresh[r] /\ mem'[r] = mem[r]
    BY <1>4, <1>5, <1>6, <2>1, RootsOwn
  <2> QED BY <1>1, <1>2, <2>2, WaitIsViewed
<1>7. CASE o \in Roots
  <2>1. f = o \/ lastRefresh[o] # 0
    <3>1. f # o => Base[f] = o /\ Base[f] # NoCache
      BY DEF Owner
    <3> QED BY <1>7, <3>1, RootsOwn DEF NeedsRefresh
  <2> HIDE DEF o
  <2>2. View!Snapshot(mem[o], Under[Res[f]], served) = Replaced(mem[o], f, served)
    BY DEF View!Snapshot, Replaced, View!Nothing, NoData
  <2>3. [r \in Roots |-> mem'[r]]
          = [[r \in Roots |-> mem[r]] EXCEPT ![o] = View!Snapshot(mem[o], Under[Res[f]], served)]
    BY <1>4, <1>7, <2>2, RootsOwn
  <2>4. {r \in Roots : lastRefresh'[r] # 0} = {r \in Roots : lastRefresh[r] # 0} \cup {o}
    <3>1. \A r \in Roots : lastRefresh'[r] # 0 <=> lastRefresh[r] # 0 \/ r = o
      <4> TAKE r \in Roots
      <4>1. r = f => r = o
        BY RootsOwn DEF o
      <4>2. lastRefresh'[r] = IF r = f THEN arrived ELSE lastRefresh[r]
        BY <1>5
      <4> QED BY <1>2, <2>1, <4>1, <4>2
    <3> QED BY <1>7, <3>1
  <2>5. Under[Res[f]] \in {Under[Res[c]] : c \in {x \in Caches : Owner(x) = o}}
    BY DEF o
  <2>6. o \in {r \in Roots : lastRefresh[r] # 0} \/ Under[Res[f]] = Under[Res[o]]
    BY <1>7, <2>1
  <2>7. served \in clock .. clock' /\ clock' >= clock
    BY <1>1, <1>2
  <2>8. View!Bring(o)
    BY <1>7, <2>3, <2>4, <2>5, <2>6, <2>7 DEF View!Bring, Roots
  <2>9. Blank'
    <3> SUFFICES ASSUME NEW r \in Roots, lastRefresh'[r] = 0, NEW q \in Resources
                 PROVE  mem'[r][q] = NoData
      BY DEF Blank, Roots
    <3>1. r # o /\ lastRefresh[r] = 0
      BY <2>4, <1>7
    <3> QED BY <1>4, <3>1, RootsOwn DEF Blank
  <2> QED BY <1>7, <2>8, <2>9 DEF ViewStep, View!Next
<1> QED BY <1>6, <1>7

\* An item that is a root begins with what its list, and so the replica of
\* the bridge cache, knows of it.
LEMMA SeedIsViewed ==
  ASSUME CacheTypeOK, Blank, NEW c \in Items, Base[c] = NoCache, HasItem(c),
         lastRefresh' = [lastRefresh EXCEPT ![c] = clock],
         mem' = [mem EXCEPT ![c][Res[c]] = mem[Owner(List[c])][Res[c]]],
         UNCHANGED <<clock, exists>>
  PROVE  ViewStep
<1> DEFINE s == Owner(List[c])
<1>1. /\ c \in Caches /\ c \in Roots /\ Res[c] \in Resources /\ Under[Res[c]] = {Res[c]}
      /\ s \in Caches /\ s \in Roots /\ s # c
  BY CacheAssumption DEF Items, Roots, Owner
<1>2. mem[s][Res[c]] # NoData /\ lastRefresh[s] # 0
  BY <1>1 DEF HasItem, Blank
<1> HIDE DEF s
<1>3. /\ \A r \in Roots : lastRefresh'[r] = IF r = c THEN clock ELSE lastRefresh[r]
      /\ \A r \in Roots, q \in Resources :
           mem'[r][q] = IF r = c /\ q = Res[c] THEN mem[s][Res[c]] ELSE mem[r][q]
      /\ clock # 0 /\ clock \in Nat
  <2>1. mem' = [mem EXCEPT ![c][Res[c]] = mem[s][Res[c]]]
    BY DEF s
  <2> QED BY <1>1, <2>1, RootsOwn, CacheAssumption DEF CacheTypeOK
<1>4. [r \in Roots |-> mem'[r]]
        = [[r \in Roots |-> mem[r]] EXCEPT
             ![c] = [q \in Resources |-> IF q \in Under[Res[c]] THEN mem[s][q] ELSE mem[c][q]]]
  <2>1. mem'[c] = [q \in Resources |-> IF q \in Under[Res[c]] THEN mem[s][q] ELSE mem[c][q]]
    <3>1. mem' = [mem EXCEPT ![c] = [mem[c] EXCEPT ![Res[c]] = mem[s][Res[c]]]]
      BY DEF s
    <3>2. mem \in [Caches -> [Resources -> Nat]]
      BY DEF CacheTypeOK
    <3>3. mem'[c] = [mem[c] EXCEPT ![Res[c]] = mem[s][Res[c]]]
      BY <1>1, <3>1, <3>2
    <3> QED BY <1>1, <3>2, <3>3
  <2>2. \A r \in Roots : r # c => mem'[r] = mem[r]
    BY RootsOwn DEF CacheTypeOK
  <2> QED BY <1>1, <2>1, <2>2
<1>5. {r \in Roots : lastRefresh'[r] # 0} = {r \in Roots : lastRefresh[r] # 0} \cup {c}
  BY <1>1, <1>3
<1>6. View!Seed(c, s)
  <2>1. s \in {r \in Roots : lastRefresh[r] # 0} \ {c}
    BY <1>1, <1>2
  <2>2. \A q \in Under[Res[c]] : mem[s][q] # View!Nothing
    BY <1>1, <1>2 DEF NoData, View!Nothing
  <2> QED BY <1>1, <1>4, <1>5, <2>1, <2>2 DEF View!Seed, Roots
<1>7. Blank'
  <2> SUFFICES ASSUME NEW r \in Roots, lastRefresh'[r] = 0, NEW q \in Resources
               PROVE  mem'[r][q] = NoData
    BY DEF Blank, Roots
  <2> QED BY <1>3 DEF Blank
<1> QED BY <1>1, <1>6, <1>7 DEF ViewStep, View!Next

LEMMA ConstructRootIsViewed ==
  ASSUME CacheTypeOK, Blank, Permanent \subseteq exists,
         NEW c \in Caches, NEW d \in Durations, ConstructRoot(c, d)
  PROVE  ViewStep
<1>1. c \in Items /\ Base[c] = NoCache /\ HasItem(c) /\ exists' = exists
  BY DEF ConstructRoot
<1>2. CASE Fetch(c, {})
  BY <1>1, <1>2, FetchIsViewed
<1>3. CASE /\ lastRefresh' = [lastRefresh EXCEPT ![c] = clock]
           /\ mem' = [mem EXCEPT ![c][Res[c]] = mem[Owner(List[c])][Res[c]]]
           /\ UNCHANGED clock
  BY <1>1, <1>3, SeedIsViewed
<1> QED BY <1>2, <1>3 DEF ConstructRoot

LEMMA ConstructChildIsViewed ==
  ASSUME CacheTypeOK, Blank, Permanent \subseteq exists, NEW c \in Caches, ConstructChild(c)
  PROVE  ViewStep
<1>1. c \notin Roots
  BY DEF ConstructChild, Roots
<1>2. /\ lastRefresh' = [lastRefresh EXCEPT ![c] = lastRefresh[Base[c]]]
      /\ UNCHANGED <<clock, mem, exists>>
  BY DEF ConstructChild
<1>3. \A r \in Roots : lastRefresh'[r] = lastRefresh[r] /\ mem'[r] = mem[r]
  BY <1>1, <1>2, RootsOwn DEF CacheTypeOK
<1>4. clock' >= clock /\ exists' \subseteq Resources
  BY <1>2 DEF CacheTypeOK
<1> QED BY <1>2, <1>3, <1>4, WaitIsViewed

LEMMA AskingIsViewed ==
  ASSUME CacheTypeOK, Blank, Permanent \subseteq exists,
         NEW c \in Caches, GetValue(c) \/ Refresh(c)
  PROVE  ViewStep
<1>1. exists' = exists
  BY DEF GetValue, Refresh
<1>2. ASSUME NEW S, Fetch(FetchedBy(c), S) PROVE ViewStep
  BY <1>1, <1>2, FetchedByAsks, FetchIsViewed
<1>3. ASSUME NEW S, lastRefresh' = SyncAll(S), UNCHANGED <<clock, mem>> PROVE ViewStep
  BY <1>1, <1>3, SyncIsViewed
<1> QED BY <1>2, <1>3 DEF GetValue, Refresh, FetchFails

LEMMA CacheViewed ==
  ASSUME FoundInv, FoundInv', Blank, [Next]_vars
  PROVE  [View!Next]_View!replicaVars /\ Blank'
<1>0. CacheTypeOK /\ CacheTypeOK' /\ Permanent \subseteq exists /\ Permanent \subseteq exists'
  BY DEF FoundInv, CacheInv
<1>1. CASE UNCHANGED vars
  BY <1>1 DEF vars, View!replicaVars, Blank, Roots
<1>2. CASE Tick \/ BridgeChanges \/ \E c \in Caches, d \in Durations : SetRefreshDuration(c, d)
  <2>1. clock \in Int /\ clock' >= clock /\ exists' \subseteq Resources
        /\ UNCHANGED <<lastRefresh, mem>>
    BY <1>0, <1>2 DEF Tick, BridgeChanges, SetRefreshDuration, CacheTypeOK
  <2> QED BY <1>0, <2>1, WaitIsViewed DEF ViewStep
<1>3. CASE \E c \in Caches : GetValue(c) \/ Refresh(c) \/ ConstructChild(c)
  BY <1>0, <1>3, AskingIsViewed, ConstructChildIsViewed DEF ViewStep
<1>4. CASE \E c \in Caches, d \in Durations : ConstructRoot(c, d)
  BY <1>0, <1>4, ConstructRootIsViewed DEF ViewStep
<1> QED BY <1>1, <1>2, <1>3, <1>4 DEF Next

LEMMA ViewBegins == Init => View!Init /\ Blank
BY CacheAssumption DEF Init, View!Init, View!Nothing, Blank, Roots, NoData

\* For every tree, with and without shared state: what the const getters read
\* is a replica that is replaced by whole snapshots, the first time entirely.
THEOREM CacheImplementsReplica == Spec => ImplementsReplica
<1>1. FoundInv /\ FoundInv' /\ Blank /\ [Next]_vars
        => [View!Next]_View!replicaVars /\ Blank'
  BY CacheViewed
<1> QED BY ViewBegins, <1>1, FoundInvariant, PTL DEF Spec, ImplementsReplica, View!Spec
----------------------------------------------------------------------------
\* What a request brings holds a list entirely or nothing of it: the lists of
\* the bridge are apart.
ListsApart ==
  \A c \in Items, f \in Caches :
    Owner(f) = Owner(List[c]) /\ Res[c] \in Under[Res[f]] => Res[List[c]] \in Under[Res[f]]

LEMMA ListsOfItems ==
  ASSUME NEW c \in Items
  PROVE  /\ List[c] \in Caches /\ Owner(List[c]) \in Caches \ Items
         /\ Res[c] \in Resources /\ Res[List[c]] \in Resources /\ Res[List[c]] \in Permanent
         /\ Res[c] \in Under[Res[List[c]]]
BY CacheAssumption DEF Items, Owner

LEMMA FetchKeepsSnapshots ==
  ASSUME ListsApart, ListsAreSnapshots, CacheTypeOK, Permanent \subseteq exists,
         NEW f \in Caches, NEW S, Fetch(f, S)
  PROVE  ListsAreSnapshots'
<1>1. PICK served \in clock .. MaxClock : mem' = Stored(f, served)
  BY DEF Fetch
<1>2. Owner(f) \in Caches /\ Res[f] \in Resources
  BY Structure
<1>3. \A x \in Caches, q \in Resources :
        mem'[x][q] = IF x = Owner(f) /\ q \in Under[Res[f]]
                     THEN IF q \in exists THEN served ELSE NoData
                     ELSE mem[x][q]
  BY <1>1, <1>2 DEF Stored, Replaced, CacheTypeOK
<1> SUFFICES ASSUME NEW c \in Items
             PROVE  mem'[Owner(List[c])][Res[c]] \in {NoData, mem'[Owner(List[c])][Res[List[c]]]}
  BY DEF ListsAreSnapshots, Items, Owner
<1>4. mem[Owner(List[c])][Res[c]] \in {NoData, mem[Owner(List[c])][Res[List[c]]]}
  BY DEF ListsAreSnapshots
<1>5. Res[List[c]] \in Under[Res[f]] => Res[c] \in Under[Res[f]]
  <2>1. \A p, q \in Resources : q \in Under[p] => Under[q] \subseteq Under[p]
    BY CacheAssumption
  <2> QED BY <1>2, <2>1, ListsOfItems
<1>6. CASE Owner(f) = Owner(List[c]) /\ Res[List[c]] \in Under[Res[f]]
  BY <1>3, <1>5, <1>6, ListsOfItems
<1>7. CASE Owner(f) = Owner(List[c]) /\ Res[List[c]] \notin Under[Res[f]]
  <2>1. Res[c] \notin Under[Res[f]]
    BY <1>7 DEF ListsApart
  <2> QED BY <1>3, <1>4, <1>7, <2>1, ListsOfItems
<1>8. CASE Owner(f) # Owner(List[c])
  BY <1>3, <1>4, <1>8, ListsOfItems
<1> QED BY <1>6, <1>7, <1>8

\* The initial value of an item is not in the value of a list.
LEMMA SeedKeepsSnapshots ==
  ASSUME ListsAreSnapshots, CacheTypeOK, NEW c \in Items, NEW seed,
         mem' = [mem EXCEPT ![c][Res[c]] = seed]
  PROVE  ListsAreSnapshots'
<1>1. \A x \in Caches \ Items : mem'[x] = mem[x]
  BY DEF CacheTypeOK
<1> QED BY <1>1, ListsOfItems DEF ListsAreSnapshots, Items, Owner

LEMMA SnapshotsStep ==
  ASSUME ListsApart, ListsAreSnapshots, FoundInv, [Next]_vars
  PROVE  ListsAreSnapshots'
<1>0. CacheTypeOK /\ Permanent \subseteq exists
  BY DEF FoundInv, CacheInv
<1>1. ASSUME UNCHANGED mem PROVE ListsAreSnapshots'
  BY <1>1 DEF ListsAreSnapshots, Items, Owner
<1>2. CASE \E c \in Caches : GetValue(c) \/ Refresh(c)
  <2> PICK c \in Caches : GetValue(c) \/ Refresh(c)
    BY <1>2
  <2>1. FetchedBy(c) \in Caches
    BY FetchedByAsks
  <2> QED BY <1>0, <1>1, <2>1, FetchKeepsSnapshots DEF GetValue, Refresh, FetchFails
<1>3. CASE \E c \in Caches, d \in Durations : ConstructRoot(c, d)
  <2> PICK c \in Caches, d \in Durations : ConstructRoot(c, d)
    BY <1>3
  <2>1. c \in Items
    BY DEF ConstructRoot
  <2> QED BY <1>0, <2>1, FetchKeepsSnapshots, SeedKeepsSnapshots DEF ConstructRoot
<1> QED BY <1>1, <1>2, <1>3
        DEF Next, vars, Tick, BridgeChanges, SetRefreshDuration, ConstructChild

\* With and without shared state, for lists that are apart: all entries a list
\* hands out were served at one moment, that of the list.
THEOREM ListsComeWhole == ASSUME ListsApart PROVE Spec => []ListsAreSnapshots
<1>1. Init => ListsAreSnapshots
  BY ListsOfItems DEF Init, ListsAreSnapshots
<1>2. ListsAreSnapshots /\ FoundInv /\ [Next]_vars => ListsAreSnapshots'
  BY SnapshotsStep
<1> QED BY <1>1, <1>2, FoundInvariant, PTL DEF Spec
=============================================================================
