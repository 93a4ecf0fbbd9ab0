----------------------------- MODULE Endpoints ------------------------------
(***************************************************************************)
(* Where the objects of a Bridge send their requests and how long they     *)
(* keep what they got: the address, the username and the refresh durations *)
(* that the Bridge, its lists, its LightFactory and the resources that     *)
(* programs obtained from them each hold a copy of.                        *)
(*                                                                         *)
(* BridgePairing has requestUsername step by step; here it is one step.    *)
(***************************************************************************)
EXTENDS Integers

CONSTANTS Lists,        \* the resource lists (and "config") of the Bridge
          Addresses,    \* addresses and ports programs set
          Refreshes,    \* refresh durations programs set
          SharedState,  \* the Bridge was made with shared state
          MaxUsers      \* bound: usernames obtained

ASSUME EndpointAssumption ==
  /\ "lights" \in Lists
  /\ SharedState \in BOOLEAN
  /\ MaxUsers \in Nat

\* A HueCommandAPI: the address and username it was made with, and which
\* TimeoutData its copies share (each one made has new ones).
Apis == [address : Addresses, user : 0..MaxUsers, timeouts : 0..MaxUsers]

VARIABLES address,     \* Bridge::ip and port
          user,        \* Bridge::username, 0 is the one it was made with
          duration,    \* Bridge::refreshDuration
          api,         \* of the Bridge's stateCache
          listApi,     \* of each list's cache, and of BridgeConfig's
          listRefresh, \* the refresh duration of each list
          factory,     \* the LightFactory: its API and refresh duration
          item,        \* the resource last obtained from each list, or NoItem
          moved,       \* history: setIP or setPort since `api' was made
          told,        \* history: the duration each list was last told
          anew         \* history: it was made anew by requestUsername since

bridgeVars == <<address, user, duration, api, listApi, listRefresh, factory>>
endpointVars == <<bridgeVars, item, moved, told, anew>>

NoItem == [list |-> "none"]

\* Mutant: the lists are made anew, the LightFactory is not.
BuildNoFactory(a, d) ==
  /\ api' = a
  /\ listApi' = [l \in Lists |-> a]
  /\ listRefresh' = [l \in Lists |-> d]
  /\ UNCHANGED factory

\* The lists that Bridge::Bridge and setHttpHandler make, all over one cache.
Build(a, d) ==
  /\ api' = a
  /\ listApi' = [l \in Lists |-> a]
  /\ listRefresh' = [l \in Lists |-> d]
  /\ factory' = [api |-> a, refresh |-> d]

EndpointInit ==
  /\ address \in Addresses /\ duration \in Refreshes
  /\ user = 0
  /\ api = [address |-> address, user |-> 0, timeouts |-> 0]
  /\ listApi = [l \in Lists |-> api]
  /\ listRefresh = [l \in Lists |-> duration]
  /\ factory = [api |-> api, refresh |-> duration]
  /\ item = [l \in Lists |-> NoItem]
  /\ moved = FALSE
  /\ told = listRefresh /\ anew = [l \in Lists |-> FALSE]

\* setIP and setPort.
SetAddress(a) ==
  /\ address' = a
  /\ moved' = TRUE
  /\ UNCHANGED <<user, duration, api, listApi, listRefresh, factory, item, told, anew>>

\* requestUsername: the new username, and setHttpHandler, which gives the new
\* lists the duration the Bridge was made with.  (Its refresh of the new cache
\* may throw; everything is in place then.)
RequestUser ==
  /\ user < MaxUsers
  /\ user' = user + 1
  /\ Build([address |-> address, user |-> user', timeouts |-> user'], duration)
  /\ moved' = FALSE
  /\ anew' = [l \in Lists |-> TRUE]
  /\ UNCHANGED <<address, duration, item, told>>

\* Mutant: the Bridge takes the duration and does not tell its lists.
SetRefreshOwn(d) ==
  /\ duration' = d
  /\ told' = [l \in Lists |-> d] /\ anew' = [l \in Lists |-> FALSE]
  /\ UNCHANGED <<address, user, listRefresh, api, listApi, factory, item, moved>>

\* Bridge::setRefreshDuration.
SetRefresh(d) ==
  /\ listRefresh' = [l \in Lists |-> d]
  /\ told' = [l \in Lists |-> d] /\ anew' = [l \in Lists |-> FALSE]
  /\ UNCHANGED <<address, user, duration, api, listApi, factory, item, moved>>

\* ResourceList::setRefreshDuration and BridgeConfig's.
SetListRefresh(l, d) ==
  /\ listRefresh' = [listRefresh EXCEPT ![l] = d]
  /\ told' = [told EXCEPT ![l] = d] /\ anew' = [anew EXCEPT ![l] = FALSE]
  /\ UNCHANGED <<address, user, duration, api, listApi, factory, item, moved>>

\* construct: with shared state a resource is a child of the list's cache;
\* otherwise a light is made by the factory and anything else from the list.
Obtain(l) ==
  /\ item' = [item EXCEPT ![l] =
       [list |-> l, told |-> told[l], anew |-> anew[l],
        api |-> IF l = "lights" /\ ~SharedState THEN factory.api
                                                ELSE listApi[l],
        refresh |-> IF l = "lights" /\ ~SharedState THEN factory.refresh
                                                    ELSE listRefresh[l]]]
  /\ UNCHANGED <<bridgeVars, moved, told, anew>>

EndpointNext ==
  \/ \E a \in Addresses : SetAddress(a)
  \/ RequestUser
  \/ \E d \in Refreshes : SetRefresh(d)
  \/ \E l \in Lists : Obtain(l) \/ \E d \in Refreshes : SetListRefresh(l, d)

EndpointSpec == EndpointInit /\ [][EndpointNext]_endpointVars

----------------------------------------------------------------------------
ItemsOf(l) == [list : {l}, told : Refreshes, anew : BOOLEAN, api : Apis,
               refresh : Refreshes]

EndpointTypeOK ==
  /\ address \in Addresses /\ user \in 0..MaxUsers /\ duration \in Refreshes
  /\ api \in Apis
  /\ listApi \in [Lists -> Apis]
  /\ listRefresh \in [Lists -> Refreshes]
  /\ factory \in [api : Apis, refresh : Refreshes]
  /\ DOMAIN item = Lists
  /\ \A l \in Lists : item[l] = NoItem \/ item[l] \in ItemsOf(l)
  /\ moved \in BOOLEAN
  /\ told \in [Lists -> Refreshes] /\ anew \in [Lists -> BOOLEAN]

\* The requests of a Bridge's cache, of its lists and of what is obtained from
\* them go to one address under one username, and wait for each other: cache,
\* lists and light factory hold the same API.  (requestUsername itself and the
\* switching of a stream are requests without it.)  The username is the current one; the address
\* is the one of the last requestUsername, that is the current one unless
\* setIP or setPort was called since.  A resource obtained before has an API
\* of its own only if it was obtained under an earlier username.
OneEndpoint ==
  /\ \A l \in Lists : listApi[l] = api
  /\ factory.api = api
  /\ api.user = user
  /\ ~moved => api.address = address
  /\ \A l \in Lists : item[l] # NoItem =>
       item[l].api = api \/ item[l].api.user < user

\* A resource refreshes as its list was told before it was obtained.  Two
\* exceptions refresh as the Bridge was made to: a light, without shared state,
\* whatever its list was told; and every resource obtained after
\* requestUsername, until its list is told again.
RefreshAsTold ==
  \A l \in Lists : item[l] # NoItem =>
    item[l].refresh = IF (l = "lights" /\ ~SharedState) \/ item[l].anew
                        THEN duration ELSE item[l].told
=============================================================================
