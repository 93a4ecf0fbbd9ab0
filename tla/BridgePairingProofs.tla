------------------------ MODULE BridgePairingProofs ------------------------
(***************************************************************************)
(* Proofs about BridgePairing: types and the bound on the loop, the        *)
(* credentials, and that a press of the button in time is noticed.         *)
(***************************************************************************)
EXTENDS BridgePairing, TLAPS

LastBegin == IF Timeout = 0 THEN 0 ELSE Timeout - 1

\* How far the call is, by its own clock: a sleep begins before the timeout.
Clock ==
  /\ pc = "idle" => elapsed = 0 /\ waited = 0
  /\ pc = "asleep" => waited <= Interval /\ elapsed - waited \in 0 .. LastBegin
  /\ pc \in {"posting", "answered"} =>
       waited <= Latency /\ elapsed - waited - Interval \in 0 .. LastBegin
  /\ pc = "refreshing" => waited <= Latency

\* The credentials under way: a call begins without a client key, and the lists
\* are refreshed with the username that was answered.
UnderWay ==
  /\ answer.key \in {None, answer.user}
  /\ pc \in {"idle", "asleep", "posting"} => answer = NoAnswer
  /\ pc # "idle" => bridge.made /\ bridge.clientkey = None /\ ~gaveUp
  /\ pc = "refreshing" => bridge.username = answer.user
  /\ pc = "answered" /\ answer.user # None => told < issued
  /\ button > 0 => issued < MaxIssued

\* A press in this call that no attempt has noticed yet is too recent for one to
\* have missed it, so the button is still pressed.
Unnoticed(age) ==
  pressedAt >= 0 =>
    /\ elapsed - pressedAt \in 0 .. age
    /\ button >= Window - (elapsed - pressedAt)

Presses ==
  /\ pc = "asleep" => Unnoticed(waited + Latency)
  /\ pc = "posting" => Unnoticed(waited + Interval + Latency)
  /\ pc = "answered" /\ answer.user = None => Unnoticed(waited)

PairInv == PairTypeOK /\ CredentialsAgree /\ PressNoticed /\ Clock /\ UnderWay /\ Presses

LEMMA LongestIsNat == LongestCall \in Nat
  BY PairingAssumption DEF LongestCall

\* Every step keeps the invariant.
LEMMA PairStep == PairInv /\ [Next]_vars => PairInv'
<1> SUFFICES ASSUME PairInv, [Next]_vars PROVE PairInv'
  OBVIOUS
<1> USE PairingAssumption DEF PairInv, PairTypeOK, CredentialsAgree, PressNoticed, Clock,
        UnderWay, Presses, Unnoticed, LastBegin, NoAnswer, None, call, history
<1> USE LongestIsNat
<1>1. CASE GetKnownBridge
  <2>1. PairTypeOK'
    <3>1. byFinder' \in BOOLEAN /\ gaveUp' \in BOOLEAN
      BY <1>1 DEF GetKnownBridge, Made
    <3>2. /\ pc' \in {"idle", "asleep", "posting", "answered", "refreshing"}
         /\ elapsed' \in 0 .. LongestCall /\ waited' \in 0 .. Interval + Latency
         /\ issued' \in 0 .. MaxIssued \union {1} /\ told' \in 0 .. issued'
         /\ button' \in 0 .. Window /\ pressedAt' \in -1 .. LongestCall
      BY <1>1 DEF GetKnownBridge, Made
    <3>3. bridge' \in [username : 0 .. issued', clientkey : 0 .. issued',
                   apiUser : 0 .. issued', made : BOOLEAN]
      BY <1>1 DEF GetKnownBridge, Made
    <3>4. finder' \in [user : 0 .. issued', key : 0 .. issued']
      BY <1>1 DEF GetKnownBridge, Made
    <3>5. answer' \in [user : 0 .. issued', key : 0 .. issued']
      BY <1>1 DEF GetKnownBridge, Made
    <3> QED
      BY <3>1, <3>2, <3>3, <3>4, <3>5
  <2>2. CredentialsAgree'
    BY <1>1 DEF GetKnownBridge, Made
  <2>3. PressNoticed'
    BY <1>1 DEF GetKnownBridge, Made
  <2>4. Clock'
    BY <1>1 DEF GetKnownBridge, Made
  <2>5. UnderWay'
    BY <1>1 DEF GetKnownBridge, Made
  <2>6. Presses'
    BY <1>1 DEF GetKnownBridge, Made
  <2> QED
    BY <2>1, <2>2, <2>3, <2>4, <2>5, <2>6
<1>2. CASE GetNewBridge
  <2>1. PairTypeOK'
    <3>1. byFinder' \in BOOLEAN /\ gaveUp' \in BOOLEAN
      BY <1>2 DEF GetNewBridge, Made, Begin
    <3>2. /\ pc' \in {"idle", "asleep", "posting", "answered", "refreshing"}
         /\ elapsed' \in 0 .. LongestCall /\ waited' \in 0 .. Interval + Latency
         /\ issued' \in 0 .. MaxIssued \union {1} /\ told' \in 0 .. issued'
         /\ button' \in 0 .. Window /\ pressedAt' \in -1 .. LongestCall
      BY <1>2 DEF GetNewBridge, Made, Begin
    <3>3. bridge' \in [username : 0 .. issued', clientkey : 0 .. issued',
                   apiUser : 0 .. issued', made : BOOLEAN]
      BY <1>2 DEF GetNewBridge, Made, Begin
    <3>4. finder' \in [user : 0 .. issued', key : 0 .. issued']
      BY <1>2 DEF GetNewBridge, Made, Begin
    <3>5. answer' \in [user : 0 .. issued', key : 0 .. issued']
      BY <1>2 DEF GetNewBridge, Made, Begin
    <3> QED
      BY <3>1, <3>2, <3>3, <3>4, <3>5
  <2>2. CredentialsAgree'
    BY <1>2 DEF GetNewBridge, Made, Begin
  <2>3. PressNoticed'
    BY <1>2 DEF GetNewBridge, Made, Begin
  <2>4. Clock'
    BY <1>2 DEF GetNewBridge, Made, Begin
  <2>5. UnderWay'
    BY <1>2 DEF GetNewBridge, Made, Begin
  <2>6. Presses'
    BY <1>2 DEF GetNewBridge, Made, Begin
  <2> QED
    BY <2>1, <2>2, <2>3, <2>4, <2>5, <2>6
<1>3. CASE ConstructBridge
  <2>1. PairTypeOK'
    <3>1. byFinder' \in BOOLEAN /\ gaveUp' \in BOOLEAN
      BY <1>3 DEF ConstructBridge, Made
    <3>2. /\ pc' \in {"idle", "asleep", "posting", "answered", "refreshing"}
         /\ elapsed' \in 0 .. LongestCall /\ waited' \in 0 .. Interval + Latency
         /\ issued' \in 0 .. MaxIssued \union {1} /\ told' \in 0 .. issued'
         /\ button' \in 0 .. Window /\ pressedAt' \in -1 .. LongestCall
      BY <1>3 DEF ConstructBridge, Made
    <3>3. bridge' \in [username : 0 .. issued', clientkey : 0 .. issued',
                   apiUser : 0 .. issued', made : BOOLEAN]
      BY <1>3 DEF ConstructBridge, Made
    <3>4. finder' \in [user : 0 .. issued', key : 0 .. issued']
      BY <1>3 DEF ConstructBridge, Made
    <3>5. answer' \in [user : 0 .. issued', key : 0 .. issued']
      BY <1>3 DEF ConstructBridge, Made
    <3> QED
      BY <3>1, <3>2, <3>3, <3>4, <3>5
  <2>2. CredentialsAgree'
    BY <1>3 DEF ConstructBridge, Made
  <2>3. PressNoticed'
    BY <1>3 DEF ConstructBridge, Made
  <2>4. Clock'
    BY <1>3 DEF ConstructBridge, Made
  <2>5. UnderWay'
    BY <1>3 DEF ConstructBridge, Made
  <2>6. Presses'
    BY <1>3 DEF ConstructBridge, Made
  <2> QED
    BY <2>1, <2>2, <2>3, <2>4, <2>5, <2>6
<1>4. CASE RequestUsername
  <2>1. PairTypeOK'
    <3>1. byFinder' \in BOOLEAN /\ gaveUp' \in BOOLEAN
      BY <1>4 DEF RequestUsername, Begin
    <3>2. /\ pc' \in {"idle", "asleep", "posting", "answered", "refreshing"}
         /\ elapsed' \in 0 .. LongestCall /\ waited' \in 0 .. Interval + Latency
         /\ issued' \in 0 .. MaxIssued \union {1} /\ told' \in 0 .. issued'
         /\ button' \in 0 .. Window /\ pressedAt' \in -1 .. LongestCall
      BY <1>4 DEF RequestUsername, Begin
    <3>3. bridge' \in [username : 0 .. issued', clientkey : 0 .. issued',
                   apiUser : 0 .. issued', made : BOOLEAN]
      BY <1>4 DEF RequestUsername, Begin
    <3>4. finder' \in [user : 0 .. issued', key : 0 .. issued']
      BY <1>4 DEF RequestUsername, Begin
    <3>5. answer' \in [user : 0 .. issued', key : 0 .. issued']
      BY <1>4 DEF RequestUsername, Begin
    <3> QED
      BY <3>1, <3>2, <3>3, <3>4, <3>5
  <2>2. CredentialsAgree'
    BY <1>4 DEF RequestUsername, Begin
  <2>3. PressNoticed'
    BY <1>4 DEF RequestUsername, Begin
  <2>4. Clock'
    BY <1>4 DEF RequestUsername, Begin
  <2>5. UnderWay'
    BY <1>4 DEF RequestUsername, Begin
  <2>6. Presses'
    BY <1>4 DEF RequestUsername, Begin
  <2> QED
    BY <2>1, <2>2, <2>3, <2>4, <2>5, <2>6
<1>5. CASE Attempt
  <2>1. PairTypeOK'
    BY <1>5 DEF Attempt
  <2>2. CredentialsAgree'
    BY <1>5 DEF Attempt
  <2>3. PressNoticed'
    BY <1>5 DEF Attempt
  <2>4. Clock'
    BY <1>5 DEF Attempt
  <2>5. UnderWay'
    BY <1>5 DEF Attempt
  <2>6. Presses'
    BY <1>5 DEF Attempt
  <2> QED
    BY <2>1, <2>2, <2>3, <2>4, <2>5, <2>6
<1>6. CASE BridgeHandles
  <2>1. PairTypeOK'
    <3>1. byFinder' \in BOOLEAN /\ gaveUp' \in BOOLEAN
      BY <1>6 DEF BridgeHandles
    <3>2. /\ pc' \in {"idle", "asleep", "posting", "answered", "refreshing"}
         /\ elapsed' \in 0 .. LongestCall /\ waited' \in 0 .. Interval + Latency
         /\ issued' \in 0 .. MaxIssued \union {1} /\ told' \in 0 .. issued'
         /\ button' \in 0 .. Window /\ pressedAt' \in -1 .. LongestCall
      BY <1>6 DEF BridgeHandles
    <3>3. bridge' \in [username : 0 .. issued', clientkey : 0 .. issued',
                   apiUser : 0 .. issued', made : BOOLEAN]
      BY <1>6 DEF BridgeHandles
    <3>4. finder' \in [user : 0 .. issued', key : 0 .. issued']
      BY <1>6 DEF BridgeHandles
    <3>5. answer' \in [user : 0 .. issued', key : 0 .. issued']
      BY <1>6 DEF BridgeHandles
    <3> QED
      BY <3>1, <3>2, <3>3, <3>4, <3>5
  <2>2. CredentialsAgree'
    BY <1>6 DEF BridgeHandles
  <2>3. PressNoticed'
    BY <1>6 DEF BridgeHandles
  <2>4. Clock'
    BY <1>6 DEF BridgeHandles
  <2>5. UnderWay'
    BY <1>6 DEF BridgeHandles
  <2>6. Presses'
    BY <1>6 DEF BridgeHandles
  <2> QED
    BY <2>1, <2>2, <2>3, <2>4, <2>5, <2>6
<1>7. CASE PostFails
  <2>1. PairTypeOK'
    <3>1. byFinder' \in BOOLEAN /\ gaveUp' \in BOOLEAN
      BY <1>7 DEF PostFails, Throws, End, NoBridge
    <3>2. /\ pc' \in {"idle", "asleep", "posting", "answered", "refreshing"}
         /\ elapsed' \in 0 .. LongestCall /\ waited' \in 0 .. Interval + Latency
         /\ issued' \in 0 .. MaxIssued \union {1} /\ told' \in 0 .. issued'
         /\ button' \in 0 .. Window /\ pressedAt' \in -1 .. LongestCall
      BY <1>7 DEF PostFails, Throws, End, NoBridge
    <3>3. bridge' \in [username : 0 .. issued', clientkey : 0 .. issued',
                   apiUser : 0 .. issued', made : BOOLEAN]
      BY <1>7 DEF PostFails, Throws, End, NoBridge
    <3>4. finder' \in [user : 0 .. issued', key : 0 .. issued']
      BY <1>7 DEF PostFails, Throws, End, NoBridge
    <3>5. answer' \in [user : 0 .. issued', key : 0 .. issued']
      BY <1>7 DEF PostFails, Throws, End, NoBridge
    <3> QED
      BY <3>1, <3>2, <3>3, <3>4, <3>5
  <2>2. CredentialsAgree'
    BY <1>7 DEF PostFails, Throws, End, NoBridge
  <2>3. PressNoticed'
    BY <1>7 DEF PostFails, Throws, End, NoBridge
  <2>4. Clock'
    BY <1>7 DEF PostFails, Throws, End, NoBridge
  <2>5. UnderWay'
    BY <1>7 DEF PostFails, Throws, End, NoBridge
  <2>6. Presses'
    BY <1>7 DEF PostFails, Throws, End, NoBridge
  <2> QED
    BY <2>1, <2>2, <2>3, <2>4, <2>5, <2>6
<1>8. CASE NotPressed
  <2>1. PairTypeOK'
    <3>1. byFinder' \in BOOLEAN /\ gaveUp' \in BOOLEAN
      BY <1>8 DEF NotPressed, End, NoBridge, TryAgain, StillWaiting
    <3>2. /\ pc' \in {"idle", "asleep", "posting", "answered", "refreshing"}
         /\ elapsed' \in 0 .. LongestCall /\ waited' \in 0 .. Interval + Latency
         /\ issued' \in 0 .. MaxIssued \union {1} /\ told' \in 0 .. issued'
         /\ button' \in 0 .. Window /\ pressedAt' \in -1 .. LongestCall
      BY <1>8 DEF NotPressed, End, NoBridge, TryAgain, StillWaiting
    <3>3. bridge' \in [username : 0 .. issued', clientkey : 0 .. issued',
                   apiUser : 0 .. issued', made : BOOLEAN]
      <4>1. bridge' = bridge \/ bridge' = NoBridge
        BY <1>8 DEF NotPressed, TryAgain
      <4>2. NoBridge \in [username : 0 .. issued, clientkey : 0 .. issued,
                         apiUser : 0 .. issued, made : BOOLEAN]
        BY DEF NoBridge
      <4> QED
        BY <1>8, <4>1, <4>2 DEF NotPressed
    <3>4. finder' \in [user : 0 .. issued', key : 0 .. issued']
      BY <1>8 DEF NotPressed, End, NoBridge, TryAgain, StillWaiting
    <3>5. answer' \in [user : 0 .. issued', key : 0 .. issued']
      BY <1>8 DEF NotPressed, End, NoBridge, TryAgain, StillWaiting
    <3> QED
      BY <3>1, <3>2, <3>3, <3>4, <3>5
  <2>2. CredentialsAgree'
    BY <1>8 DEF NotPressed, End, NoBridge, TryAgain, StillWaiting
  <2>3. PressNoticed'
    <3>1. CASE StillWaiting
      <4>1. ~gaveUp'
        BY <1>8, <3>1 DEF NotPressed, TryAgain
      <4> QED
        BY <4>1
    <3>2. CASE ~StillWaiting
      <4>1. elapsed >= Timeout /\ waited <= Latency /\ pressedAt' = pressedAt
        BY <1>8, <3>2 DEF NotPressed, StillWaiting
      <4>2. pressedAt >= 0 => elapsed - pressedAt <= waited
        BY <1>8 DEF NotPressed
      <4> QED
        BY <4>1, <4>2
    <3> QED
      BY <3>1, <3>2
  <2>4. Clock'
    BY <1>8 DEF NotPressed, End, NoBridge, TryAgain, StillWaiting
  <2>5. UnderWay'
    BY <1>8 DEF NotPressed, End, NoBridge, TryAgain, StillWaiting
  <2>6. Presses'
    BY <1>8 DEF NotPressed, End, NoBridge, TryAgain, StillWaiting
  <2> QED
    BY <2>1, <2>2, <2>3, <2>4, <2>5, <2>6
<1>9. CASE Pressed
  <2>1. PairTypeOK'
    <3>1. byFinder' \in BOOLEAN /\ gaveUp' \in BOOLEAN
      BY <1>9 DEF Pressed, Received
    <3>2. /\ pc' \in {"idle", "asleep", "posting", "answered", "refreshing"}
         /\ elapsed' \in 0 .. LongestCall /\ waited' \in 0 .. Interval + Latency
         /\ issued' \in 0 .. MaxIssued \union {1} /\ told' \in 0 .. issued'
         /\ button' \in 0 .. Window /\ pressedAt' \in -1 .. LongestCall
      BY <1>9 DEF Pressed, Received
    <3>3. bridge' \in [username : 0 .. issued', clientkey : 0 .. issued',
                   apiUser : 0 .. issued', made : BOOLEAN]
      BY <1>9 DEF Pressed, Received
    <3>4. finder' \in [user : 0 .. issued', key : 0 .. issued']
      BY <1>9 DEF Pressed, Received
    <3>5. answer' \in [user : 0 .. issued', key : 0 .. issued']
      BY <1>9 DEF Pressed, Received
    <3> QED
      BY <3>1, <3>2, <3>3, <3>4, <3>5
  <2>2. CredentialsAgree'
    BY <1>9 DEF Pressed, Received
  <2>3. PressNoticed'
    BY <1>9 DEF Pressed, Received
  <2>4. Clock'
    BY <1>9 DEF Pressed, Received
  <2>5. UnderWay'
    BY <1>9 DEF Pressed, Received
  <2>6. Presses'
    BY <1>9 DEF Pressed, Received
  <2> QED
    BY <2>1, <2>2, <2>3, <2>4, <2>5, <2>6
<1>10. CASE RefreshDone
  <2>1. PairTypeOK'
    <3>1. byFinder' \in BOOLEAN /\ gaveUp' \in BOOLEAN
      BY <1>10 DEF RefreshDone, End, Saved
    <3>2. /\ pc' \in {"idle", "asleep", "posting", "answered", "refreshing"}
         /\ elapsed' \in 0 .. LongestCall /\ waited' \in 0 .. Interval + Latency
         /\ issued' \in 0 .. MaxIssued \union {1} /\ told' \in 0 .. issued'
         /\ button' \in 0 .. Window /\ pressedAt' \in -1 .. LongestCall
      BY <1>10 DEF RefreshDone, End, Saved
    <3>3. bridge' \in [username : 0 .. issued', clientkey : 0 .. issued',
                   apiUser : 0 .. issued', made : BOOLEAN]
      BY <1>10 DEF RefreshDone, End, Saved
    <3>4. finder' \in [user : 0 .. issued', key : 0 .. issued']
      BY <1>10 DEF RefreshDone, End, Saved
    <3>5. answer' \in [user : 0 .. issued', key : 0 .. issued']
      BY <1>10 DEF RefreshDone, End, Saved
    <3> QED
      BY <3>1, <3>2, <3>3, <3>4, <3>5
  <2>2. CredentialsAgree'
    BY <1>10 DEF RefreshDone, End, Saved
  <2>3. PressNoticed'
    BY <1>10 DEF RefreshDone, End, Saved
  <2>4. Clock'
    BY <1>10 DEF RefreshDone, End, Saved
  <2>5. UnderWay'
    BY <1>10 DEF RefreshDone, End, Saved
  <2>6. Presses'
    BY <1>10 DEF RefreshDone, End, Saved
  <2> QED
    BY <2>1, <2>2, <2>3, <2>4, <2>5, <2>6
<1>11. CASE RefreshFails
  <2>1. PairTypeOK'
    <3>1. byFinder' \in BOOLEAN /\ gaveUp' \in BOOLEAN
      BY <1>11 DEF RefreshFails, Throws, End, NoBridge
    <3>2. /\ pc' \in {"idle", "asleep", "posting", "answered", "refreshing"}
         /\ elapsed' \in 0 .. LongestCall /\ waited' \in 0 .. Interval + Latency
         /\ issued' \in 0 .. MaxIssued \union {1} /\ told' \in 0 .. issued'
         /\ button' \in 0 .. Window /\ pressedAt' \in -1 .. LongestCall
      BY <1>11 DEF RefreshFails, Throws, End, NoBridge
    <3>3. bridge' \in [username : 0 .. issued', clientkey : 0 .. issued',
                   apiUser : 0 .. issued', made : BOOLEAN]
      BY <1>11 DEF RefreshFails, Throws, End, NoBridge
    <3>4. finder' \in [user : 0 .. issued', key : 0 .. issued']
      BY <1>11 DEF RefreshFails, Throws, End, NoBridge
    <3>5. answer' \in [user : 0 .. issued', key : 0 .. issued']
      BY <1>11 DEF RefreshFails, Throws, End, NoBridge
    <3> QED
      BY <3>1, <3>2, <3>3, <3>4, <3>5
  <2>2. CredentialsAgree'
    BY <1>11 DEF RefreshFails, Throws, End, NoBridge
  <2>3. PressNoticed'
    BY <1>11 DEF RefreshFails, Throws, End, NoBridge
  <2>4. Clock'
    BY <1>11 DEF RefreshFails, Throws, End, NoBridge
  <2>5. UnderWay'
    BY <1>11 DEF RefreshFails, Throws, End, NoBridge
  <2>6. Presses'
    BY <1>11 DEF RefreshFails, Throws, End, NoBridge
  <2> QED
    BY <2>1, <2>2, <2>3, <2>4, <2>5, <2>6
<1>12. CASE Press
  <2>1. PairTypeOK'
    BY <1>12 DEF Press, LongestCall
  <2>2. CredentialsAgree'
    BY <1>12 DEF Press, LongestCall
  <2>3. PressNoticed'
    BY <1>12 DEF Press, LongestCall
  <2>4. Clock'
    BY <1>12 DEF Press, LongestCall
  <2>5. UnderWay'
    BY <1>12 DEF Press, LongestCall
  <2>6. Presses'
    BY <1>12 DEF Press, LongestCall
  <2> QED
    BY <2>1, <2>2, <2>3, <2>4, <2>5, <2>6
<1>13. CASE Tick
  <2>1. PairTypeOK'
    BY <1>13 DEF Tick, LongestCall
  <2>2. CredentialsAgree'
    BY <1>13 DEF Tick, LongestCall
  <2>3. PressNoticed'
    BY <1>13 DEF Tick, LongestCall
  <2>4. Clock'
    BY <1>13 DEF Tick, LongestCall
  <2>5. UnderWay'
    BY <1>13 DEF Tick, LongestCall
  <2>6. Presses'
    BY <1>13 DEF Tick, LongestCall
  <2> QED
    BY <2>1, <2>2, <2>3, <2>4, <2>5, <2>6
<1>14. CASE UNCHANGED vars
  BY <1>14 DEF vars
<1> QED
  BY <1>1, <1>2, <1>3, <1>4, <1>5, <1>6, <1>7, <1>8, <1>9, <1>10, <1>11, <1>12, <1>13, <1>14 DEF Next, Run

\* The initial states satisfy it.
LEMMA PairStart == Init => PairInv
<1> USE PairingAssumption DEF PairInv, PairTypeOK, CredentialsAgree, PressNoticed, Clock,
        UnderWay, Presses, LastBegin, NoBridge, NoAnswer, None
<1> USE LongestIsNat
<1> SUFFICES ASSUME Init PROVE PairInv
  OBVIOUS
<1>1. finder \in [user : 0 .. issued, key : 0 .. issued]
  BY DEF Init
<1>2. bridge \in [username : 0 .. issued, clientkey : 0 .. issued,
                 apiUser : 0 .. issued, made : BOOLEAN]
  BY DEF Init
<1>3. answer \in [user : 0 .. issued, key : 0 .. issued]
  BY DEF Init
<1>4. /\ pc \in {"idle", "asleep", "posting", "answered", "refreshing"}
      /\ elapsed \in 0 .. LongestCall /\ waited \in 0 .. Interval + Latency
      /\ issued \in 0 .. MaxIssued \union {1} /\ told \in 0 .. issued
      /\ button \in 0 .. Window /\ pressedAt \in -1 .. LongestCall
  BY DEF Init
<1>5. byFinder \in BOOLEAN /\ gaveUp \in BOOLEAN
  BY DEF Init
<1>6. PairTypeOK
  BY <1>1, <1>2, <1>3, <1>4, <1>5
<1>7. CredentialsAgree /\ PressNoticed /\ Clock /\ UnderWay /\ Presses
  BY DEF Init
<1> QED
  BY <1>6, <1>7

\* The inductive invariant holds of every behaviour.
THEOREM PairInvariant == Spec => []PairInv
  BY PairStart, PairStep, PTL DEF Spec

\* Types, and the bound on the time requestUsername takes, for every timeout,
\* interval and latency.
THEOREM PairTypeCorrect == Spec => []PairTypeOK
<1>1. PairInv => PairTypeOK
  BY DEF PairInv
<1> QED  BY <1>1, PairInvariant, PTL

\* Username, command API and client key belong together, whatever fails.
THEOREM CredentialsBelongTogether == Spec => []CredentialsAgree
<1>1. PairInv => CredentialsAgree
  BY DEF PairInv
<1> QED  BY <1>1, PairInvariant, PTL

\* A press in time is noticed, provided only that the button stays pressed for
\* longer than one interval and two requests (PairingAssumption).
THEOREM PressesAreNoticed == Spec => []PressNoticed
<1>1. PairInv => PressNoticed
  BY DEF PairInv
<1> QED  BY <1>1, PairInvariant, PTL

=============================================================================
