--------------------------- MODULE BridgePairing ----------------------------
(***************************************************************************)
(* How a program gets access to a bridge: BridgeFinder::getBridge, the     *)
(* polling loop of Bridge::requestUsername while the user goes to press    *)
(* the link button, and what Bridge and BridgeFinder keep of the answer.   *)
(*                                                                         *)
(* One bridge (the finder's maps are per MAC address).  The n-th username  *)
(* the bridge generates is n, its client key too; None is the empty        *)
(* string.  Times count from the start of the call, so no clock is needed. *)
(***************************************************************************)
EXTENDS Integers

CONSTANTS Timeout,     \* Config::getRequestUsernameTimeout()
          Interval,    \* Config::getRequestUsernameAttemptInterval()
          Latency,     \* bound: duration of a request
          Window,      \* how long the bridge's link button stays pressed
          MaxIssued,   \* bound: then nobody presses the button again
          Direct       \* programs also call Bridge::requestUsername themselves

ASSUME PairingAssumption ==
  /\ Timeout \in Nat /\ Interval \in Nat \ {0} /\ Latency \in Nat
  /\ Window \in Nat /\ Interval + 2 * Latency < Window
  /\ MaxIssued \in Nat
  /\ Direct \in BOOLEAN

VARIABLES pc,        \* where the call of requestUsername is, "idle" outside
          byFinder,  \* the call is getBridge's
          elapsed,   \* time since `start'
          waited,    \* time since the sleep or the request began
          answer,    \* what the bridge has answered
          bridge,    \* the Bridge object: its credentials, those of its lists
          finder,    \* usernames[mac] and clientkeys[mac]
          button,    \* time the link button stays pressed
          issued,    \* usernames the bridge has generated
          pressedAt, \* history: when the button was pressed in this call, or -1
          told,      \* history: usernames that reached the program
          gaveUp     \* history: the last call returned without one

call    == <<pc, byFinder, elapsed, waited, answer>>
history == <<pressedAt, told, gaveUp>>
vars    == <<call, bridge, finder, button, issued, history>>

None == 0
NoBridge == [username |-> None, clientkey |-> None, apiUser |-> None, made |-> FALSE]
NoAnswer == [user |-> None, key |-> None]

Init ==
  /\ pc = "idle" /\ byFinder = FALSE /\ elapsed = 0 /\ waited = 0 /\ answer = NoAnswer
  /\ bridge = NoBridge
  /\ \/ issued = 0 /\ finder = [user |-> None, key |-> None]
     \/ /\ issued = 1                        \* addUsername, addClientKey
        /\ finder \in [user : {1}, key : {None, 1}]
  /\ button = 0
  /\ pressedAt = -1 /\ told = 0 /\ gaveUp = FALSE

\* A Bridge constructed with what is known of it.
Made(user, key) == [username |-> user, clientkey |-> key, apiUser |-> user, made |-> TRUE]

\* requestUsername begins with a sleep.
Begin(finders) ==
  /\ pc' = "asleep"
  /\ byFinder' = finders
  /\ elapsed' = 0 /\ waited' = 0
  /\ pressedAt' = -1
  /\ gaveUp' = FALSE
  /\ UNCHANGED <<answer, finder, button, issued, told>>

\* BridgeFinder::getBridge for a bridge whose username is known, or not.
GetKnownBridge ==
  /\ pc = "idle" /\ finder.user # None
  /\ bridge' = Made(finder.user, finder.key)
  /\ UNCHANGED <<call, finder, button, issued, history>>

GetNewBridge ==
  /\ pc = "idle" /\ finder.user = None
  /\ bridge' = Made(None, None)
  /\ Begin(TRUE)

\* The program's own Bridge object, and requestUsername on it ("should only
\* be called once": until it has delivered a client key).
ConstructBridge ==
  /\ Direct /\ pc = "idle"
  /\ bridge' = Made(None, None)
  /\ UNCHANGED <<call, finder, button, issued, history>>

RequestUsername ==
  /\ Direct /\ pc = "idle" /\ bridge.made /\ bridge.clientkey = None
  /\ UNCHANGED bridge
  /\ Begin(FALSE)

\* The call returns or throws: getBridge's Bridge object is gone if it throws.
End ==
  /\ pc' = "idle" /\ elapsed' = 0 /\ waited' = 0 /\ answer' = NoAnswer
  /\ byFinder' = FALSE

Throws ==
  /\ End
  /\ bridge' = IF byFinder THEN NoBridge ELSE bridge
  /\ UNCHANGED <<finder, pressedAt, told, gaveUp>>

\* sleep_for(checkInterval) is over: POST /api.
Attempt ==
  /\ pc = "asleep" /\ waited = Interval
  /\ pc' = "posting" /\ waited' = 0
  /\ UNCHANGED <<byFinder, elapsed, answer, bridge, finder, button, issued, history>>

\* The bridge generates a username while the button is pressed, with a client
\* key if it knows "generateclientkey"; otherwise error 101.
BridgeHandles ==
  /\ pc = "posting"
  /\ pc' = "answered"
  /\ IF button > 0
     THEN /\ issued' = issued + 1
          /\ answer' \in [user : {issued + 1}, key : {None, issued + 1}]
          /\ button' = IF issued + 1 = MaxIssued THEN 0 ELSE button
     ELSE answer' = NoAnswer /\ UNCHANGED <<issued, button>>
  /\ UNCHANGED <<byFinder, elapsed, waited, bridge, finder, history>>

\* No connection, a lost reply or an error other than 101.
PostFails ==
  /\ pc \in {"posting", "answered"}
  /\ Throws
  /\ UNCHANGED <<button, issued>>

\* Mutant: one more attempt when the timeout is met exactly.
StillWaitingInclusive == elapsed <= Timeout

\* Mutant: the loop ends with the attempt that follows the timeout's half.
StillWaitingHalf == 2 * elapsed < Timeout

StillWaiting == elapsed < Timeout

\* Mutant: the time is taken anew for every attempt.
TryAgainFromStart ==
  /\ pc' = "asleep" /\ waited' = 0 /\ elapsed' = 0
  /\ UNCHANGED <<byFinder, answer, bridge, gaveUp>>

TryAgain ==
  /\ pc' = "asleep" /\ waited' = 0
  /\ UNCHANGED <<byFinder, elapsed, answer, bridge, gaveUp>>

\* Error 101, or an answer without username and error: once more until the
\* timeout, then the empty username is returned and getBridge throws.
NotPressed ==
  /\ pc = "answered" /\ answer.user = None
  /\ UNCHANGED <<finder, button, issued, told>>
  /\ IF StillWaiting
     THEN TryAgain
     ELSE /\ End
          /\ bridge' = IF byFinder THEN NoBridge ELSE bridge
          /\ gaveUp' = TRUE
  /\ UNCHANGED pressedAt

\* Mutant: the lists are rebuilt before the new username is stored.
ReceivedLate(b, user) == [b EXCEPT !.username = user, !.apiUser = b.username]

\* username = ...; setHttpHandler builds a HueCommandAPI with it, new lists ...
Received(b, user) == [b EXCEPT !.username = user, !.apiUser = user]

Pressed ==
  /\ pc = "answered" /\ answer.user # None
  /\ bridge' = Received(bridge, answer.user)
  /\ told' = told + 1
  /\ pc' = "refreshing" /\ waited' = 0
  /\ UNCHANGED <<byFinder, elapsed, answer, finder, button, issued, pressedAt, gaveUp>>

\* addUsername and addClientKey of the finder.
Saved(user, key) == [user |-> user, key |-> key]

\* ... and gets the whole state; only then the client key is stored, and by
\* getBridge the username and the key.
RefreshDone ==
  /\ pc = "refreshing"
  /\ LET key == IF answer.key # None THEN answer.key ELSE bridge.clientkey
     IN /\ bridge' = [bridge EXCEPT !.clientkey = key]
        /\ finder' = IF byFinder THEN Saved(bridge.username, key) ELSE finder
  /\ End
  /\ UNCHANGED <<button, issued, history>>

RefreshFails ==
  /\ pc = "refreshing"
  /\ Throws
  /\ UNCHANGED <<button, issued>>

\* The user presses the link button.
Press ==
  /\ issued < MaxIssued
  /\ button' = Window
  /\ pressedAt' = IF pc \in {"asleep", "posting", "answered"} THEN elapsed ELSE pressedAt
  /\ UNCHANGED <<call, bridge, finder, issued, told, gaveUp>>

\* Time passes; a sleep takes Interval, a request at most Latency.
Tick ==
  /\ pc = "asleep" => waited < Interval
  /\ pc \in {"posting", "answered", "refreshing"} => waited < Latency
  /\ button' = IF button > 0 THEN button - 1 ELSE 0
  /\ IF pc \in {"idle", "refreshing"} THEN UNCHANGED elapsed ELSE elapsed' = elapsed + 1
  /\ IF pc = "idle" THEN UNCHANGED waited ELSE waited' = waited + 1
  /\ UNCHANGED <<pc, byFinder, answer, bridge, finder, issued, history>>

\* The steps of a call.
Run == Attempt \/ BridgeHandles \/ PostFails \/ NotPressed \/ Pressed \/ RefreshDone \/ RefreshFails

Next == \/ GetKnownBridge \/ GetNewBridge \/ ConstructBridge \/ RequestUsername
        \/ Run \/ Press \/ Tick

Spec == Init /\ [][Next]_vars

\* The calling thread runs, and time passes.
Fairness == WF_vars(Attempt \/ NotPressed \/ Pressed) /\ WF_vars(Tick)

\* Assumed of the bridge and the network: a request is answered or fails.
RequestsEnd == WF_vars(BridgeHandles \/ PostFails \/ RefreshDone \/ RefreshFails)

FairSpec == Spec /\ Fairness /\ RequestsEnd

----------------------------------------------------------------------------
(* Properties *)

\* An attempt begins before the timeout, and one is made when the timeout is 0.
LongestCall == (IF Timeout = 0 THEN 0 ELSE Timeout - 1) + Interval + Latency

\* The variables have their types, and the loop is bounded: requestUsername is
\* over at most a sleep and a request after the timeout.
PairTypeOK ==
  /\ pc \in {"idle", "asleep", "posting", "answered", "refreshing"}
  /\ byFinder \in BOOLEAN
  /\ elapsed \in 0 .. LongestCall
  /\ waited \in 0 .. Interval + Latency
  /\ issued \in 0 .. MaxIssued \union {1}
  /\ answer \in [user : 0 .. issued, key : 0 .. issued]
  /\ bridge \in [username : 0 .. issued, clientkey : 0 .. issued,
                 apiUser : 0 .. issued, made : BOOLEAN]
  /\ finder \in [user : 0 .. issued, key : 0 .. issued]
  /\ button \in 0 .. Window
  /\ pressedAt \in -1 .. LongestCall
  /\ told \in 0 .. issued
  /\ gaveUp \in BOOLEAN

\* What is kept belongs together, whichever attempt of whichever call failed
\* half way: the command API and the lists of a Bridge use the username it
\* shows, a client key is the one that came with the username (entertainment
\* mode uses them as a pair), and so it is in the maps of the finder.
CredentialsAgree ==
  /\ bridge.apiUser = bridge.username
  /\ bridge.clientkey \in {None, bridge.username}
  /\ finder.key \in {None, finder.user}

\* Who presses the button while there is time left is not told that it was not
\* pressed: requestUsername gives up only if the press came later than one
\* request before the timeout (the last attempt may then have been under way).
PressNoticed ==
  gaveUp => pressedAt \notin 0 .. Timeout - Latency - 1

\* requestUsername ends although the button may never be pressed, if each of
\* its requests does.
RequestEnds == (pc = "asleep") ~> (pc = "idle")

\* Bridge.h:112 says of saved usernames "so only one username is generated
\* per bridge": a finder that has been told one does not ask for another.
OneUsernamePerBridge == told <= 1
=============================================================================
