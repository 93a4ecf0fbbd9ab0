---------------------------- MODULE LibraryProofs ----------------------------
(***************************************************************************)
(* Proofs about the smaller parts of the library: the endpoints of a       *)
(* Bridge, its colour stream, one HTTP request, the search for bridges and *)
(* typed devices, for every value of their constants; and about the sum of *)
(* these parts with those of TimeProofs.                                   *)
(***************************************************************************)
EXTENDS MCLibrary, TimeProofs, FiniteSetTheorems

----------------------------------------------------------------------------
(* The endpoints.                                                          *)

\* The factory has the duration of the Bridge, and every list what it was
\* last told, or that of the Bridge if it has been made anew since.
DurationsKept ==
  /\ factory.refresh = duration
  /\ listRefresh = [l \in Lists |-> IF anew[l] THEN duration ELSE told[l]]

EndpointInv == EndpointTypeOK /\ OneEndpoint /\ DurationsKept /\ RefreshAsTold

LEMMA EndpointInitInv == EndpointInit => EndpointInv
<1> SUFFICES ASSUME EndpointInit PROVE EndpointInv
  OBVIOUS
<1> USE EndpointAssumption DEF EndpointInit
<1>1. api \in Apis /\ user \in 0..MaxUsers
  BY DEF Apis
<1>2. EndpointTypeOK
  BY <1>1 DEF EndpointTypeOK
<1>3. OneEndpoint
  BY DEF OneEndpoint
<1>4. DurationsKept /\ RefreshAsTold
  BY DEF DurationsKept, RefreshAsTold
<1> QED BY <1>2, <1>3, <1>4 DEF EndpointInv

\* What requestUsername leaves behind.
LEMMA RequestUserInv == EndpointInv /\ RequestUser => EndpointInv'
<1> SUFFICES ASSUME EndpointInv, RequestUser PROVE EndpointInv'
  OBVIOUS
<1> USE EndpointAssumption DEF RequestUser, Build
<1>1. EndpointTypeOK /\ OneEndpoint /\ DurationsKept /\ RefreshAsTold
  BY DEF EndpointInv
<1>2. user' \in 0..MaxUsers
  BY <1>1 DEF EndpointTypeOK
<1>3. api' \in Apis
  BY <1>1, <1>2 DEF EndpointTypeOK, Apis
<1>4. EndpointTypeOK'
  BY <1>1, <1>2, <1>3 DEF EndpointTypeOK, ItemsOf
<1>5. ASSUME NEW l \in Lists, item'[l] # NoItem PROVE item'[l].api.user < user'
  <2>1. item[l] \in ItemsOf(l) /\ item' = item
    BY <1>1, <1>5 DEF EndpointTypeOK
  <2>2. item[l].api.user \in 0..MaxUsers
    BY <2>1 DEF ItemsOf, Apis
  <2>3. item[l].api.user <= user
    BY <1>1, <1>5, <2>1, <2>2 DEF OneEndpoint, EndpointTypeOK
  <2> QED BY <1>1, <2>1, <2>2, <2>3 DEF EndpointTypeOK
<1>6. OneEndpoint'
  BY <1>5 DEF OneEndpoint
<1>7. DurationsKept' /\ RefreshAsTold'
  BY <1>1 DEF DurationsKept, RefreshAsTold
<1> QED BY <1>4, <1>6, <1>7 DEF EndpointInv

\* A resource just obtained has the API of the Bridge.
LEMMA ObtainInv ==
  ASSUME EndpointInv, NEW l \in Lists, Obtain(l)
  PROVE  EndpointInv'
<1> USE EndpointAssumption DEF Obtain, bridgeVars
<1>1. EndpointTypeOK /\ OneEndpoint /\ DurationsKept /\ RefreshAsTold
  BY DEF EndpointInv
<1> DEFINE made == l = "lights" /\ ~SharedState
           new == [list |-> l, told |-> told[l], anew |-> anew[l],
                   api |-> IF made THEN factory.api ELSE listApi[l],
                   refresh |-> IF made THEN factory.refresh ELSE listRefresh[l]]
<1>2. item' = [item EXCEPT ![l] = new]
  OBVIOUS
<1>3. new \in ItemsOf(l) /\ new.api = api
  BY <1>1 DEF EndpointTypeOK, ItemsOf, OneEndpoint
<1>4. new.refresh = IF made \/ new.anew THEN duration ELSE new.told
  BY <1>1 DEF DurationsKept
<1> HIDE DEF new
<1>5. \A k \in Lists : item'[k] = item[k] \/ (k = l /\ item'[k] = new)
  BY <1>1, <1>2 DEF EndpointTypeOK
<1>6. EndpointTypeOK'
  BY <1>1, <1>3, <1>5 DEF EndpointTypeOK, ItemsOf
<1>7. OneEndpoint'
  BY <1>1, <1>3, <1>5 DEF OneEndpoint
<1>8. DurationsKept' /\ RefreshAsTold'
  BY <1>1, <1>4, <1>5 DEF DurationsKept, RefreshAsTold
<1> QED BY <1>6, <1>7, <1>8 DEF EndpointInv

LEMMA EndpointStepInv == EndpointInv /\ [EndpointNext]_endpointVars => EndpointInv'
<1> SUFFICES ASSUME EndpointInv, [EndpointNext]_endpointVars PROVE EndpointInv'
  OBVIOUS
<1> USE DEF EndpointInv, EndpointTypeOK, OneEndpoint, DurationsKept, RefreshAsTold, ItemsOf
<1>1. ASSUME NEW a \in Addresses, SetAddress(a) PROVE EndpointInv'
  BY <1>1 DEF SetAddress
<1>2. ASSUME RequestUser PROVE EndpointInv'
  BY <1>2, RequestUserInv
<1>3. ASSUME NEW d \in Refreshes, SetRefresh(d) PROVE EndpointInv'
  BY <1>3 DEF SetRefresh
<1>4. ASSUME NEW l \in Lists, Obtain(l) PROVE EndpointInv'
  BY <1>4, ObtainInv
<1>5. ASSUME NEW l \in Lists, NEW d \in Refreshes, SetListRefresh(l, d) PROVE EndpointInv'
  BY <1>5 DEF SetListRefresh
<1>6. ASSUME UNCHANGED endpointVars PROVE EndpointInv'
  BY <1>6 DEF endpointVars, bridgeVars
<1> QED BY <1>1, <1>2, <1>3, <1>4, <1>5, <1>6 DEF EndpointNext

\* The types of the Bridge's copies of its address, users and durations.
THEOREM EndpointTypes == EndpointSpec => []EndpointTypeOK
<1>1. EndpointInv => EndpointTypeOK
  BY DEF EndpointInv
<1> QED BY EndpointInitInv, EndpointStepInv, <1>1, PTL DEF EndpointSpec

\* For any lists and addresses, with and without shared state: after any
\* sequence of setIP, setPort, requestUsername and of the calls that obtain
\* resources, the Bridge's cache, its lists and its factory hold one API, so
\* the requests made with it wait for each other and go to one place.
THEOREM OneEndpointHolds == EndpointSpec => []OneEndpoint
<1>1. EndpointInv => OneEndpoint
  BY DEF EndpointInv
<1> QED BY EndpointInitInv, EndpointStepInv, <1>1, PTL DEF EndpointSpec

\* A resource has the refresh duration its list was told before it was
\* obtained; a light without shared state, and any resource after
\* requestUsername has made the lists anew, the one the Bridge was made with.
THEOREM RefreshesAsTold == EndpointSpec => []RefreshAsTold
<1>1. EndpointInv => RefreshAsTold
  BY DEF EndpointInv
<1> QED BY EndpointInitInv, EndpointStepInv, <1>1, PTL DEF EndpointSpec

----------------------------------------------------------------------------
(* The colour stream: its calls.                                           *)

\* connect() runs in a living object, after it has switched streaming on.
BusyInv == pc # "idle" => alive /\ active /\ returned.call = "none"

\* Every open socket is the one of the object, or was overwritten; the object
\* has had one if a handshake has begun.
SocketInv ==
  /\ sockets \in Nat /\ connects \in Nat /\ leaked \in Nat
  /\ sockets = leaked + (IF alive /\ connects > 0 THEN 1 ELSE 0)
  /\ pc \in {"configure", "handshake"} => connects > 0

CallInv == BusyInv /\ SocketInv /\ StreamAccounted /\ CallsTellTruth

LEMMA CallInitInv == StreamInit => CallInv
BY DEF StreamInit, CallInv, BusyInv, SocketInv, StreamAccounted, CallsTellTruth

\* The constructor leaves a reason for streaming that is on.
LEMMA CreateInv ==
  ASSUME CallInv, NEW ids \in Groups, Create(ids)
  PROVE  CallInv'
<1>1. /\ ~alive /\ connects' = 0 /\ UNCHANGED <<pc, sockets, leaked>>
      /\ lapse' # {} /\ returned'.call = "create"
  BY DEF Create, Return
<1>2. pc = "idle" /\ sockets = leaked /\ leaked \in Nat
  BY <1>1 DEF CallInv, BusyInv, SocketInv
<1>3. BusyInv' /\ StreamAccounted' /\ CallsTellTruth'
  BY <1>1, <1>2 DEF BusyInv, StreamAccounted, CallsTellTruth
<1>4. SocketInv'
  BY <1>1, <1>2 DEF SocketInv
<1> QED BY <1>3, <1>4 DEF CallInv

\* The destructor closes the socket of the object, if it has opened one.
LEMMA DestroyInv == CallInv /\ Destroy => CallInv'
<1> SUFFICES ASSUME CallInv, Destroy PROVE CallInv'
  OBVIOUS
<1>1. /\ alive /\ ~alive' /\ pc = "idle"
      /\ sockets' = IF connects > 0 THEN sockets - 1 ELSE sockets
      /\ UNCHANGED <<pc, connects, leaked>>
      /\ lapse' # {} /\ returned'.call = "destroy"
  BY DEF Destroy, Return
<1>2. BusyInv' /\ StreamAccounted' /\ CallsTellTruth'
  BY <1>1 DEF BusyInv, StreamAccounted, CallsTellTruth
<1>3. SocketInv'
  BY <1>1 DEF CallInv, SocketInv
<1> QED BY <1>2, <1>3 DEF CallInv

\* connect() that cannot switch streaming on leaves the reason.
LEMMA ConnectStartInv == CallInv /\ ConnectStart => CallInv'
<1> SUFFICES ASSUME CallInv, ConnectStart PROVE CallInv'
  OBVIOUS
<1>1. alive /\ pc = "idle" /\ UNCHANGED <<alive, session, sockets, connects, leaked>>
  BY DEF ConnectStart
<1>2. PICK answer \in PutOutcomes :
        /\ Put(answer, TRUE)
        /\ IF answer = "success"
             THEN /\ pc' = "open" /\ lapse' = {} /\ Return("none", TRUE)
             ELSE /\ pc' = "idle" /\ lapse' = lapse \cup {answer}
                  /\ Return("connect", FALSE)
  BY DEF ConnectStart, StartOutcomes, PutOutcomes
<1>3. SocketInv'
  BY <1>1, <1>2 DEF CallInv, SocketInv
<1>4. CASE answer = "success"
  BY <1>1, <1>2, <1>3, <1>4
     DEF Put, Obeyed, Return, CallInv, BusyInv, StreamAccounted, CallsTellTruth
<1>5. CASE answer # "success"
  <2>1. lapse' \cap {"refused", "lost", "unanswered"} # {} /\ lapse' # {}
    BY <1>2, <1>5 DEF PutOutcomes
  <2> QED BY <1>2, <1>3, <1>5, <2>1
          DEF Return, CallInv, BusyInv, StreamAccounted, CallsTellTruth
<1> QED BY <1>4, <1>5

LEMMA OpenSocketInv == CallInv /\ OpenSocket => CallInv'
<1> SUFFICES ASSUME CallInv, OpenSocket PROVE CallInv'
  OBVIOUS
<1>1. /\ pc = "open" /\ pc' \in {"configure", "close"}
      /\ UNCHANGED <<active, alive, session, returned, lapse>>
  BY DEF OpenSocket
<1>2. BusyInv' /\ StreamAccounted'
  BY <1>1 DEF CallInv, BusyInv, StreamAccounted
<1>3. SocketInv'
  BY <1>1 DEF OpenSocket, CallInv, BusyInv, SocketInv
<1>4. CallsTellTruth'
  BY <1>1 DEF CallInv, BusyInv, CallsTellTruth
<1> QED BY <1>2, <1>3, <1>4 DEF CallInv

LEMMA ConfigureInv == CallInv /\ Configure => CallInv'
BY DEF Configure, CallInv, BusyInv, SocketInv, StreamAccounted, CallsTellTruth

\* A handshake that succeeds has a socket, and streaming is still on.
LEMMA HandshakeInv == CallInv /\ Handshake => CallInv'
<1> SUFFICES ASSUME CallInv, Handshake PROVE CallInv'
  OBVIOUS
<1>1. /\ pc = "handshake" /\ UNCHANGED <<active, alive, sockets, connects, leaked, lapse>>
      /\ \/ UNCHANGED <<pc, session, returned>>
         \/ pc' = "idle" /\ session' = "up" /\ Return("connect", TRUE)
         \/ pc' = "close" /\ UNCHANGED <<session, returned>>
  BY DEF Handshake
<1>2. alive /\ active /\ returned.call = "none" /\ sockets > 0
  BY <1>1 DEF CallInv, BusyInv, SocketInv
<1>3. SocketInv'
  BY <1>1 DEF CallInv, SocketInv
<1>4. BusyInv' /\ StreamAccounted' /\ CallsTellTruth'
  BY <1>1, <1>2 DEF Return, BusyInv, StreamAccounted, CallsTellTruth
<1> QED BY <1>3, <1>4 DEF CallInv

\* However disconnect() or a failed connect() ends, streaming is off or the
\* bridge has not confirmed it.
LEMMA CloseInv ==
  ASSUME CallInv, NEW name \in {"connect", "disconnect"},
         NEW answer \in PutOutcomes, Close(name, answer)
  PROVE  CallInv'
<1>1. /\ pc' = "idle" /\ session' # "up" /\ UNCHANGED <<alive, sockets, connects, leaked>>
      /\ returned' = [call |-> name, value |-> name = "disconnect" /\ answer = "success"]
  BY DEF Close, Return
<1>2. SocketInv' /\ BusyInv'
  BY <1>1 DEF CallInv, SocketInv, BusyInv
<1>3. CASE answer = "success"
  <2>1. ~active'
    BY <1>3 DEF Close, Put, Obeyed
  <2> QED BY <1>1, <1>2, <2>1, <1>3 DEF CallInv, StreamAccounted, CallsTellTruth
<1>4. CASE answer # "success"
  <2>1. lapse' \cap {"refused", "lost", "unanswered"} # {} /\ lapse' # {}
    BY <1>4 DEF Close, PutOutcomes
  <2>2. returned'.value = FALSE
    BY <1>1, <1>4
  <2> QED BY <1>1, <1>2, <2>1, <2>2 DEF CallInv, StreamAccounted, CallsTellTruth
<1> QED BY <1>3, <1>4

\* Nothing else touches the stream.
LEMMA OtherCallsInv ==
  ASSUME CallInv, UNCHANGED <<active, alive, pc, session, sockets, connects,
                              leaked, lapse>>,
         \/ returned' = returned
         \/ pc = "idle" /\ returned'.call \in {"set", "update"}
  PROVE  CallInv'
BY DEF CallInv, BusyInv, SocketInv, StreamAccounted, CallsTellTruth

LEMMA CallStepInv == CallInv /\ [StreamNext]_streamVars => CallInv'
<1> SUFFICES ASSUME CallInv, [StreamNext]_streamVars PROVE CallInv'
  OBVIOUS
<1>1. CASE GetKeys
  BY <1>1, OtherCallsInv DEF GetKeys
<1>2. ASSUME NEW ids \in Groups, Create(ids) PROVE CallInv'
  BY <1>2, CreateInv
<1>3. CASE Destroy
  BY <1>3, DestroyInv
<1>4. CASE ConnectStart
  BY <1>4, ConnectStartInv
<1>5. CASE StreamStep
  BY <1>5, OpenSocketInv, ConfigureInv, HandshakeInv, CloseInv
     DEF StreamStep, ConnectFails
<1>6. CASE Disconnect
  BY <1>6, CloseInv DEF Disconnect
<1>7. ASSUME NEW index \in Indices, NEW colour \in Colours, SetColorRGB(index, colour)
      PROVE  CallInv'
  <2>1. pc = "idle" /\ returned'.call = "set"
    BY <1>7 DEF SetColorRGB, Return
  <2> QED BY <1>7, <2>1, OtherCallsInv DEF SetColorRGB
<1>8. CASE Update
  <2>1. pc = "idle" /\ returned'.call = "update"
    BY <1>8 DEF Update, Return
  <2> QED BY <1>8, <2>1, OtherCallsInv DEF Update
<1>9. CASE UNCHANGED streamVars
  BY <1>9, OtherCallsInv DEF streamVars
<1> QED BY <1>1, <1>2, <1>3, <1>4, <1>5, <1>6, <1>7, <1>8, <1>9 DEF StreamNext

\* For any groups and numbers of connections: streaming that is on has an
\* owner or a reason, whatever step of connect() or disconnect() fails.
THEOREM StreamIsAccounted == StreamSpec => []StreamAccounted
<1>1. CallInv => StreamAccounted
  BY DEF CallInv
<1> QED BY CallInitInv, CallStepInv, <1>1, PTL DEF StreamSpec

\* For any groups and numbers of connections: what connect() and disconnect()
\* return is so.
THEOREM CallsAreTrue == StreamSpec => []CallsTellTruth
<1>1. CallInv => CallsTellTruth
  BY DEF CallInv
<1> QED BY CallInitInv, CallStepInv, <1>1, PTL DEF StreamSpec

----------------------------------------------------------------------------
(* The colour stream: its frames.                                          *)

Colour == Byte \X Byte \X Byte

LEMMA ByteIs == \A b \in Nat : b \in Byte <=> b <= 255
BY DEF Byte

LEMMA MaxIdNat == MaxId \in Nat
BY SMT DEF MaxId

\* The two bytes of an id.
LEMMA IdBytes ==
  ASSUME NEW id \in Nat, id <= MaxId
  PROVE  /\ id \div 256 \in Nat /\ id \div 256 <= 255
         /\ id % 256 \in Nat /\ id % 256 <= 255
BY SMT DEF MaxId

LEMMA HeaderIsBytes == \A i \in 0..15 : Header[i + 1] \in Byte
<1>1. /\ 72 \in Byte /\ 117 \in Byte /\ 101 \in Byte /\ 83 \in Byte /\ 116 \in Byte
      /\ 114 \in Byte /\ 97 \in Byte /\ 109 \in Byte /\ 1 \in Byte /\ 0 \in Byte
  BY ByteIs
<1> QED BY <1>1 DEF Header

LEMMA DivisionByNine ==
  ASSUME NEW m \in Nat, NEW k \in 0..8
  PROVE  (9 * m + k) \div 9 = m /\ (9 * m + k) % 9 = k
OBVIOUS

LEMMA TwoBytes == \A id \in Nat : (id \div 256) * 256 + (id % 256) = id
OBVIOUS

\* Byte number k of a light.
LightByte(id, colour, k) == CASE k = 1 -> id \div 256
                              [] k = 2 -> id % 256
                              [] k \in 3..8 -> colour[(k - 3) \div 2 + 1]
                              [] OTHER -> 0

\* The message of a group whose lights have these colours.
Composed(ids, colours) ==
  [i \in 0..Offset(NumLights(ids)) - 1 |->
     IF i < 16 THEN Header[i + 1]
     ELSE LightByte(ids[(i - 16) \div 9 + 1], colours[(i - 16) \div 9 + 1],
                    (i - 16) % 9)]

ColoursOf(ids) == [1..NumLights(ids) -> Colour]

LEMMA NumLightsFacts ==
  ASSUME NEW ids \in Seq(0..MaxId)
  PROVE  /\ NumLights(ids) \in Nat /\ NumLights(ids) < 256
         /\ NumLights(ids) <= Len(ids)
         /\ Len(ids) < 256 => NumLights(ids) = Len(ids)
         /\ \A n \in 1..NumLights(ids) : ids[n] \in 0..MaxId
<1>1. Len(ids) \in Nat /\ \A n \in 1..Len(ids) : ids[n] \in 0..MaxId
  BY LenProperties, ElementOfSeq
<1>2. /\ NumLights(ids) \in Nat /\ NumLights(ids) < 256
      /\ NumLights(ids) <= Len(ids)
      /\ Len(ids) < 256 => NumLights(ids) = Len(ids)
  BY <1>1 DEF NumLights
<1> QED BY <1>1, <1>2

\* A place in the message is in the header, or byte k of light m + 1.
LEMMA PlaceInMessage ==
  ASSUME NEW N \in Nat, NEW i \in 0..Offset(N) - 1, i >= 16
  PROVE  \E m \in 0..N - 1, k \in 0..8 :
           /\ i = 16 + 9 * m + k
           /\ (i - 16) \div 9 = m /\ (i - 16) % 9 = k
<1>1. i \in Nat /\ i < 16 + N * 9
  BY DEF Offset, HeaderSize, LightSize
<1> DEFINE m == (i - 16) \div 9
           k == (i - 16) % 9
<1>2. m \in Nat /\ k \in Nat /\ k <= 8 /\ i = 16 + 9 * m + k
  BY <1>1
<1> HIDE DEF m, k
<1>3. m < N
  BY <1>1, <1>2
<1>4. m \in 0..N - 1 /\ k \in 0..8
  BY <1>2, <1>3
<1> QED BY <1>2, <1>4 DEF m, k

LEMMA LightByteIsByte ==
  ASSUME NEW id \in 0..MaxId, NEW colour \in Colour, NEW k \in 0..8
  PROVE  LightByte(id, colour, k) \in Byte
<1>1. id \div 256 \in Byte /\ id % 256 \in Byte /\ 0 \in Byte
  <2>1. id \in Nat /\ id <= MaxId
    BY MaxIdNat
  <2> QED BY <2>1, IdBytes, ByteIs
<1>2. k \in 3..8 => (k - 3) \div 2 + 1 \in 1..3
  OBVIOUS
<1>3. \A j \in 1..3 : colour[j] \in Byte
  BY DEF Colour
<1> QED BY <1>1, <1>2, <1>3 DEF LightByte

LEMMA ComposedIsFrame ==
  ASSUME NEW ids \in Seq(0..MaxId), NEW colours \in ColoursOf(ids)
  PROVE  Composed(ids, colours) \in Frames(Offset(NumLights(ids)))
<1> DEFINE N == NumLights(ids)
           byte(i) == IF i < 16 THEN Header[i + 1]
                      ELSE LightByte(ids[(i - 16) \div 9 + 1],
                                     colours[(i - 16) \div 9 + 1], (i - 16) % 9)
<1>1. N \in Nat /\ \A n \in 1..N : ids[n] \in 0..MaxId /\ colours[n] \in Colour
  BY NumLightsFacts DEF ColoursOf
<1>2. Offset(N) \in Nat
  BY <1>1 DEF Offset, HeaderSize, LightSize
<1> HIDE DEF N
<1>3. ASSUME NEW i \in 0..Offset(N) - 1 PROVE byte(i) \in Byte
  <2>1. CASE i < 16
    <3>1. i \in 0..15
      BY <1>2, <2>1
    <3>2. Header[i + 1] \in Byte
      BY <3>1, HeaderIsBytes
    <3> QED BY <2>1, <3>2
  <2>2. CASE ~(i < 16)
    <3>1. i >= 16
      BY <1>2, <2>2
    <3>2. PICK m \in 0..N - 1, k \in 0..8 : (i - 16) \div 9 = m /\ (i - 16) % 9 = k
      BY <1>1, <3>1, PlaceInMessage
    <3>3. m + 1 \in 1..N
      BY <1>1
    <3>4. ids[m + 1] \in 0..MaxId /\ colours[m + 1] \in Colour
      BY <1>1, <3>3
    <3>5. LightByte(ids[m + 1], colours[m + 1], k) \in Byte
      BY <3>4, LightByteIsByte
    <3>6. byte(i) = LightByte(ids[m + 1], colours[m + 1], k)
      BY <2>2, <3>2
    <3> QED BY <3>5, <3>6
  <2> QED BY <2>1, <2>2
<1>4. Composed(ids, colours) = [i \in 0..Offset(N) - 1 |-> byte(i)]
  BY DEF Composed, N
<1> HIDE DEF byte
<1>5. Composed(ids, colours) \in [0..Offset(N) - 1 -> Byte]
  BY <1>3, <1>4
<1> QED BY <1>5 DEF Frames, N

\* The constructor's message has every light dark.
LEMMA NewMessageIsComposed ==
  ASSUME NEW ids \in Seq(0..MaxId)
  PROVE  /\ NewMessage(ids) = Composed(ids, [i \in 1..NumLights(ids) |-> Dark])
         /\ [i \in 1..NumLights(ids) |-> Dark] \in ColoursOf(ids)
<1> DEFINE N == NumLights(ids)
           dark == [i \in 1..N |-> Dark]
<1>1. N \in Nat
  BY NumLightsFacts
<1>2. Offset(N) \in Nat
  BY <1>1 DEF Offset, HeaderSize, LightSize
<1>3. Dark \in Colour
  <2>1. 0 \in Byte
    BY ByteIs
  <2> QED BY <2>1 DEF Dark, Colour
<1>4. dark \in ColoursOf(ids)
  BY <1>3 DEF ColoursOf
<1> HIDE DEF N
<1>5. ASSUME NEW id, NEW k \in 0..8 PROVE LightBytes(id)[k] = LightByte(id, Dark, k)
  <2>1. k \in 3..8 => (k - 3) \div 2 + 1 \in 1..3
    OBVIOUS
  <2>2. \A j \in 1..3 : Dark[j] = 0
    BY DEF Dark
  <2> QED BY <2>1, <2>2 DEF LightBytes, LightByte
<1>6. ASSUME NEW i \in 0..Offset(N) - 1, i >= 16
      PROVE  LightBytes(ids[(i - 16) \div 9 + 1])[(i - 16) % 9] =
               LightByte(ids[(i - 16) \div 9 + 1], dark[(i - 16) \div 9 + 1], (i - 16) % 9)
  <2>1. PICK m \in 0..N - 1, k \in 0..8 : (i - 16) \div 9 = m /\ (i - 16) % 9 = k
    BY <1>1, <1>6, PlaceInMessage
  <2>2. dark[m + 1] = Dark
    BY <1>1
  <2> HIDE DEF dark
  <2>3. LightBytes(ids[m + 1])[k] = LightByte(ids[m + 1], dark[m + 1], k)
    BY <1>5, <2>2
  <2> QED BY <2>1, <2>3
<1> HIDE DEF dark
<1>7. ASSUME NEW i \in 0..Offset(N) - 1
      PROVE  (IF i < 16 THEN Header[i + 1]
              ELSE LightBytes(ids[(i - 16) \div 9 + 1])[(i - 16) % 9]) =
             (IF i < 16 THEN Header[i + 1]
              ELSE LightByte(ids[(i - 16) \div 9 + 1], dark[(i - 16) \div 9 + 1],
                             (i - 16) % 9))
  <2>1. i < 16 \/ i >= 16
    BY <1>2
  <2> QED BY <1>6, <1>2, <2>1
<1>8. NewMessage(ids) = Composed(ids, dark)
  BY <1>7 DEF NewMessage, Composed, HeaderSize, LightSize, N
<1> QED BY <1>4, <1>8 DEF dark, N

\* setColorRGB changes the colour of one light and nothing else.
LEMMA SetColourIsComposed ==
  ASSUME NEW ids \in Seq(0..MaxId), NEW colours \in ColoursOf(ids),
         NEW index \in Nat, index < NumLights(ids), NEW colour \in Colour
  PROVE  /\ SetColour(Composed(ids, colours), index, colour) =
              Composed(ids, [colours EXCEPT ![index + 1] = colour])
         /\ [colours EXCEPT ![index + 1] = colour] \in ColoursOf(ids)
<1> DEFINE N == NumLights(ids)
           new == [colours EXCEPT ![index + 1] = colour]
           M == Composed(ids, colours)
<1>1. N \in Nat /\ index < N /\ colours \in [1..N -> Colour]
  BY NumLightsFacts DEF ColoursOf
<1>2. Offset(N) \in Nat /\ DOMAIN M = 0..Offset(N) - 1
  BY <1>1 DEF Offset, HeaderSize, LightSize, Composed
<1>3. new \in ColoursOf(ids) /\ new[index + 1] = colour
      /\ \A n \in 1..N : n # index + 1 => new[n] = colours[n]
  BY <1>1 DEF ColoursOf
<1> HIDE DEF N, new
<1>4. Offset(index) = 16 + 9 * index
  BY DEF Offset, HeaderSize, LightSize
<1>5. ASSUME NEW i \in 0..Offset(N) - 1
      PROVE  (IF i - Offset(index) \in 3..8 THEN ColourBytes(colour)[i - Offset(index)]
              ELSE M[i]) = Composed(ids, new)[i]
  <2>1. CASE i < 16
    <3>1. i - Offset(index) \notin 3..8
      BY <1>4, <2>1
    <3> QED BY <3>1, <2>1 DEF Composed, N
  <2>2. CASE i >= 16
    <3>1. PICK m \in 0..N - 1, k \in 0..8 :
            i = 16 + 9 * m + k /\ (i - 16) \div 9 = m /\ (i - 16) % 9 = k
      BY <1>1, <2>2, PlaceInMessage
    <3>2. m + 1 \in 1..N
      BY <1>1
    <3>3. /\ M[i] = LightByte(ids[m + 1], colours[m + 1], k)
          /\ Composed(ids, new)[i] = LightByte(ids[m + 1], new[m + 1], k)
      BY <2>2, <3>1 DEF Composed, N
    <3>4. i - Offset(index) \in 3..8 <=> m = index /\ k \in 3..8
      BY <1>4, <3>1
    <3> HIDE DEF M
    <3>5. CASE m = index /\ k \in 3..8
      <4>1. i - Offset(index) = k
        BY <1>4, <3>1, <3>5
      <4>2. ColourBytes(colour)[k] = colour[(k - 3) \div 2 + 1]
        BY <3>5 DEF ColourBytes
      <4>3. LightByte(ids[m + 1], new[m + 1], k) = colour[(k - 3) \div 2 + 1]
        BY <1>3, <3>5 DEF LightByte
      <4> QED BY <3>3, <3>4, <3>5, <4>1, <4>2, <4>3
    <3>6. CASE m = index /\ k \notin 3..8
      <4>1. LightByte(ids[m + 1], new[m + 1], k) = LightByte(ids[m + 1], colours[m + 1], k)
        BY <3>6 DEF LightByte
      <4> QED BY <3>3, <3>4, <3>6, <4>1
    <3>7. CASE m # index
      <4>1. new[m + 1] = colours[m + 1]
        BY <1>3, <3>2, <3>7
      <4> QED BY <3>3, <3>4, <3>7, <4>1
    <3> QED BY <3>5, <3>6, <3>7
  <2> QED BY <1>2, <2>1, <2>2
<1>6. Composed(ids, new) = [i \in 0..Offset(N) - 1 |-> Composed(ids, new)[i]]
  BY DEF Composed, N
<1>7. SetColour(M, index, colour) = Composed(ids, new)
  <2> HIDE DEF M
  <2> QED BY <1>2, <1>5, <1>6 DEF SetColour
<1> QED BY <1>3, <1>7 DEF new

\* The bridge reads the ids and the colours of the lights, in their order.
LEMMA ComposedIsDecoded ==
  ASSUME NEW ids \in Seq(0..MaxId), NEW colours \in ColoursOf(ids)
  PROVE  Decoded(Composed(ids, colours)) =
           [n \in 1..NumLights(ids) |-> [id |-> ids[n], colour |-> colours[n]]]
<1> DEFINE N == NumLights(ids)
           M == Composed(ids, colours)
<1>1. N \in Nat /\ \A n \in 1..N : ids[n] \in 0..MaxId /\ colours[n] \in Colour
  BY NumLightsFacts DEF ColoursOf
<1> HIDE DEF N
<1>2. (Cardinality(DOMAIN M) - 16) \div 9 = N
  <2>1. DOMAIN M = 0..Offset(N) - 1
    BY DEF Composed, N
  <2>2. Offset(N) = 16 + 9 * N
    BY <1>1 DEF Offset, HeaderSize, LightSize
  <2>3. Cardinality(0..Offset(N) - 1) = 16 + 9 * N
    BY <1>1, <2>2, FS_Interval
  <2> DEFINE c == Cardinality(DOMAIN M)
  <2>4. c = 16 + 9 * N
    BY <2>1, <2>3
  <2> HIDE DEF c
  <2>5. (c - 16) \div 9 = N
    BY <1>1, <2>4
  <2> QED BY <2>5 DEF c
<1>3. ASSUME NEW n \in 1..N, NEW k \in 0..8
      PROVE  M[7 + 9 * n + k] = LightByte(ids[n], colours[n], k)
  <2>1. PICK m \in Nat : n = m + 1
    <3>1. n - 1 \in Nat
      OBVIOUS
    <3> QED BY <3>1
  <2> DEFINE i == 7 + 9 * n + k
  <2>2. i - 16 = 9 * m + k /\ i >= 16 /\ i \in 0..Offset(N) - 1
    BY <1>1, <2>1 DEF Offset, HeaderSize, LightSize
  <2>3. (i - 16) \div 9 = m /\ (i - 16) % 9 = k
    BY <2>2, DivisionByNine
  <2> HIDE DEF i
  <2>4. M[i] = LightByte(ids[m + 1], colours[m + 1], k)
    BY <2>2, <2>3 DEF Composed, N
  <2> QED BY <2>1, <2>4 DEF i
<1> HIDE DEF M
<1>4. ASSUME NEW n \in 1..N
      PROVE  [id |-> M[7 + 9 * n + 1] * 256 + M[7 + 9 * n + 2],
              colour |-> <<M[7 + 9 * n + 3], M[7 + 9 * n + 5], M[7 + 9 * n + 7]>>]
             = [id |-> ids[n], colour |-> colours[n]]
  <2>1. M[7 + 9 * n + 1] = ids[n] \div 256 /\ M[7 + 9 * n + 2] = ids[n] % 256
    BY <1>3 DEF LightByte
  <2>2. /\ M[7 + 9 * n + 3] = colours[n][1] /\ M[7 + 9 * n + 5] = colours[n][2]
        /\ M[7 + 9 * n + 7] = colours[n][3]
    BY <1>3 DEF LightByte
  <2>3. (ids[n] \div 256) * 256 + (ids[n] % 256) = ids[n]
    <3>1. ids[n] \in Nat
      BY <1>1
    <3> QED BY <3>1, TwoBytes
  <2>4. colours[n] = <<colours[n][1], colours[n][2], colours[n][3]>>
    BY <1>1 DEF Colour
  <2>5. M[7 + 9 * n + 1] * 256 + M[7 + 9 * n + 2] = ids[n]
    BY ONLY <2>1, <2>3
  <2>6. <<M[7 + 9 * n + 3], M[7 + 9 * n + 5], M[7 + 9 * n + 7]>> = colours[n]
    BY <2>2, <2>4
  <2> QED BY <2>5, <2>6
<1>5. Decoded(M) = [n \in 1..N |-> [id |-> ids[n], colour |-> colours[n]]]
  BY <1>2, <1>4 DEF Decoded
<1> QED BY <1>5 DEF M, N
\* The message is composed of the lights the object was made for and the
\* colours last chosen; a record that was sent, or waits to be, of the same
\* lights and the colours of some moment.
Sendable(f) == f = NoFrame
                 \/ \E colours \in ColoursOf(lights) : f = Composed(lights, colours)

FrameInv ==
  /\ IF alive THEN /\ lights \in Seq(0..MaxId)
                   /\ chosen \in ColoursOf(lights)
                   /\ message = Composed(lights, chosen)
                   /\ Sendable(pending) /\ Sendable(frame)
              ELSE pending = NoFrame /\ frame = NoFrame
  /\ pc # "idle" => alive
  /\ returned = [call |-> "update", value |-> TRUE] /\ session = "up" /\ ~late =>
       frame = message

LEMMA FrameInitInv == StreamInit => FrameInv
BY DEF StreamInit, FrameInv

LEMMA FrameCreateInv ==
  ASSUME NEW ids \in Groups, Create(ids), FrameInv
  PROVE  FrameInv'
<1>1. /\ ~alive /\ UNCHANGED pc /\ pending' = NoFrame /\ frame' = NoFrame
      /\ returned'.call = "create"
      /\ alive' => /\ lights' = ids /\ message' = NewMessage(ids)
                   /\ chosen' = [i \in 1..NumLights(ids) |-> Dark]
  BY DEF Create, Return
<1>2. ids \in Seq(0..MaxId)
  BY StreamAssumption
<1>3. ~(returned' = [call |-> "update", value |-> TRUE])
  BY <1>1
<1>4. pc' # "idle" => alive'
  BY <1>1 DEF FrameInv
<1>5. CASE alive'
  <2>1. /\ chosen' \in ColoursOf(ids) /\ message' = Composed(ids, chosen')
    BY <1>1, <1>2, <1>5, NewMessageIsComposed
  <2>2. lights' = ids
    BY <1>1, <1>5
  <2> QED BY <1>1, <1>2, <1>3, <1>4, <1>5, <2>1, <2>2 DEF FrameInv, Sendable, ColoursOf, Composed
<1>6. CASE ~alive'
  BY <1>1, <1>3, <1>4, <1>6 DEF FrameInv
<1> QED BY <1>5, <1>6

LEMMA FrameSetInv ==
  ASSUME NEW index \in Indices, NEW colour \in Colours, SetColorRGB(index, colour), FrameInv
  PROVE  FrameInv'
<1>1. /\ alive /\ UNCHANGED <<alive, pc, lights, pending, frame>> /\ returned'.call = "set"
      /\ \/ UNCHANGED <<message, chosen>>
         \/ /\ index < NumLights(lights)
            /\ message' = SetColour(message, index, colour)
            /\ chosen' = [chosen EXCEPT ![index + 1] = colour]
  BY DEF SetColorRGB, Return, outputVars
<1>2. ~(returned' = [call |-> "update", value |-> TRUE])
  BY <1>1
<1>3. /\ lights \in Seq(0..MaxId) /\ chosen \in ColoursOf(lights)
      /\ message = Composed(lights, chosen)
  BY <1>1 DEF FrameInv
<1>4. index \in Nat /\ colour \in Colour
  BY StreamAssumption DEF Byte, Colour
<1>5. chosen' \in ColoursOf(lights) /\ message' = Composed(lights, chosen')
  BY <1>1, <1>3, <1>4, SetColourIsComposed
<1>6. Sendable(pending)' /\ Sendable(frame)'
  BY <1>1 DEF FrameInv, Sendable, ColoursOf, Composed
<1> QED BY <1>1, <1>2, <1>3, <1>5, <1>6 DEF FrameInv, ColoursOf, Composed

\* What update() sends is the message, or was it when it was interrupted.
LEMMA FrameUpdateInv == FrameInv /\ Update => FrameInv'
<1> SUFFICES ASSUME FrameInv, Update PROVE FrameInv'
  OBVIOUS
<1>1. alive /\ UNCHANGED <<alive, pc, session, lights, message, chosen>>
  BY DEF Update, objectVars
<1>2. /\ lights \in Seq(0..MaxId) /\ chosen \in ColoursOf(lights)
      /\ message = Composed(lights, chosen) /\ Sendable(pending) /\ Sendable(frame)
      /\ pc # "idle" => alive
  BY <1>1 DEF FrameInv
<1>3. Sendable(message) /\ Sendable(NoFrame)
  BY <1>2 DEF Sendable
<1> DEFINE record == IF pending = NoFrame THEN message ELSE pending
<1>4. Sendable(pending') /\ Sendable(frame')
  <2>1. \/ frame' = record /\ pending' = NoFrame
        \/ pending' = record /\ frame' = frame
        \/ pending' = pending /\ frame' = frame
    BY DEF Update, outputVars
  <2>2. record = message \/ record = pending
    OBVIOUS
  <2> HIDE DEF record
  <2> QED BY <1>2, <1>3, <2>1, <2>2
<1>5. Sendable(pending)' /\ Sendable(frame)'
  BY <1>1, <1>4 DEF Sendable, ColoursOf, Composed
<1>6. returned' = [call |-> "update", value |-> TRUE] /\ session' = "up" /\ ~late' =>
        frame' = message'
  <2>1. CASE /\ frame' = record /\ late' = (pending # NoFrame)
             /\ session = "up"
    BY <1>1, <2>1
  <2>2. CASE Return("update", FALSE)
    BY <2>2 DEF Return
  <2>3. ASSUME NEW went \in {FALSE, session = "down"}, Return("update", went),
               session' = "up"
        PROVE  returned' # [call |-> "update", value |-> TRUE]
    <3>1. went = FALSE
      BY <1>1, <2>3
    <3> QED BY <2>3, <3>1 DEF Return
  <2> QED BY <2>1, <2>2, <2>3 DEF Update
<1> QED BY <1>1, <1>2, <1>5, <1>6 DEF FrameInv, ColoursOf, Composed

\* The other calls send no record and change no message.
LEMMA FrameOtherInv ==
  ASSUME FrameInv, UNCHANGED objectVars, alive' = alive,
         UNCHANGED outputVars \/ (pending' = NoFrame /\ frame' = NoFrame),
         pc' # "idle" => alive,
         \/ UNCHANGED <<returned, session, outputVars>>
         \/ returned'.call # "update"
         \/ session' # "up"
  PROVE  FrameInv'
<1>1. ~(returned'.call # "update" /\ returned' = [call |-> "update", value |-> TRUE])
  OBVIOUS
<1>2. UNCHANGED <<lights, message, chosen>>
  BY DEF objectVars
<1>3. (pending' = pending /\ frame' = frame) \/ (pending' = NoFrame /\ frame' = NoFrame)
  BY DEF outputVars
<1>4. Sendable(NoFrame)
  BY DEF Sendable
<1>5. alive' => /\ (lights \in Seq(0..MaxId))' /\ (chosen \in ColoursOf(lights))'
                /\ (message = Composed(lights, chosen))'
  BY <1>2 DEF FrameInv, ColoursOf, Composed
<1>6. IF alive' THEN Sendable(pending') /\ Sendable(frame')
               ELSE pending' = NoFrame /\ frame' = NoFrame
  BY <1>3, <1>4 DEF FrameInv
<1>7. returned' = [call |-> "update", value |-> TRUE] /\ session' = "up" /\ ~late' =>
        frame' = message'
  BY <1>1, <1>2 DEF FrameInv, outputVars
<1>8. pc' # "idle" => alive'
  OBVIOUS
<1>9. IF alive' THEN Sendable(pending)' /\ Sendable(frame)'
                ELSE pending' = NoFrame /\ frame' = NoFrame
  BY <1>2, <1>6 DEF Sendable, ColoursOf, Composed
<1> QED BY <1>5, <1>7, <1>8, <1>9 DEF FrameInv

LEMMA FrameStepInv == FrameInv /\ [StreamNext]_streamVars => FrameInv'
<1> SUFFICES ASSUME FrameInv, [StreamNext]_streamVars PROVE FrameInv'
  OBVIOUS
<1>1. pc # "idle" => alive
  BY DEF FrameInv
<1>2. CASE GetKeys
  BY <1>1, <1>2, FrameOtherInv DEF GetKeys
<1>3. ASSUME NEW ids \in Groups, Create(ids) PROVE FrameInv'
  BY <1>3, FrameCreateInv
<1>4. CASE Destroy
  <2>1. /\ ~alive' /\ pc' = "idle" /\ pending' = NoFrame /\ frame' = NoFrame
        /\ returned'.call = "destroy"
    BY <1>4 DEF Destroy, Return
  <2> QED BY <2>1 DEF FrameInv
<1>5. CASE ConnectStart
  <2>1. returned'.call # "update"
    BY <1>5 DEF ConnectStart, Return
  <2> QED BY <1>5, <2>1, FrameOtherInv DEF ConnectStart
<1>6. CASE OpenSocket
  BY <1>1, <1>6, FrameOtherInv DEF OpenSocket
<1>7. CASE Configure
  BY <1>1, <1>7, FrameOtherInv DEF Configure
<1>8. CASE Handshake
  <2>1. \/ UNCHANGED <<returned, session, outputVars>>
        \/ pending' = NoFrame /\ frame' = NoFrame /\ returned'.call # "update"
    BY <1>8 DEF Handshake, Return
  <2> QED BY <1>1, <1>8, <2>1, FrameOtherInv DEF Handshake
<1>9. ASSUME NEW name \in {"connect", "disconnect"}, NEW answer \in PutOutcomes,
             Close(name, answer)
      PROVE  FrameInv'
  BY <1>9, FrameOtherInv DEF Close
<1>10. ASSUME NEW index \in Indices, NEW colour \in Colours, SetColorRGB(index, colour)
       PROVE  FrameInv'
  BY <1>10, FrameSetInv
<1>11. CASE Update
  BY <1>11, FrameUpdateInv
<1>12. CASE UNCHANGED streamVars
  BY <1>1, <1>12, FrameOtherInv DEF streamVars
<1> QED BY <1>2, <1>3, <1>4, <1>5, <1>6, <1>7, <1>8, <1>9, <1>10, <1>11, <1>12
        DEF StreamNext, StreamStep, ConnectFails, Disconnect

LEMMA FrameInvImplies == FrameInv => FramesAreOurs
<1> SUFFICES ASSUME FrameInv PROVE FramesAreOurs
  OBVIOUS
<1>1. alive /\ Len(lights) < 256 =>
        Decoded(message) =
          [n \in 1..Len(lights) |-> [id |-> lights[n], colour |-> chosen[n]]]
  BY ComposedIsDecoded, NumLightsFacts DEF FrameInv
<1>2. frame # NoFrame =>
        \A n \in 1..NumLights(lights) : Decoded(frame)[n].id = lights[n]
  <2> SUFFICES ASSUME frame # NoFrame, NEW n \in 1..NumLights(lights)
               PROVE  Decoded(frame)[n].id = lights[n]
    OBVIOUS
  <2>1. PICK colours \in ColoursOf(lights) : frame = Composed(lights, colours)
    BY DEF FrameInv, Sendable
  <2>2. lights \in Seq(0..MaxId)
    BY DEF FrameInv
  <2>3. Decoded(frame) =
          [k \in 1..NumLights(lights) |-> [id |-> lights[k], colour |-> colours[k]]]
    BY <2>1, <2>2, ComposedIsDecoded
  <2> QED BY <2>3
<1>3. returned = [call |-> "update", value |-> TRUE] /\ session = "up" /\ ~late =>
        frame = message
  BY DEF FrameInv
<1> QED BY <1>1, <1>2, <1>3 DEF FramesAreOurs

\* For any groups of lights, of any number of them, and any colours: the
\* message always names each light of the group once, in order, with the colour
\* last set for it, and no record that is sent names another.
THEOREM FramesAreAlwaysOurs == StreamSpec => []FramesAreOurs
<1> QED BY FrameInitInv, FrameStepInv, FrameInvImplies, PTL DEF StreamSpec

----------------------------------------------------------------------------
(* The colour stream: its types.                                           *)

\* The part of the type that follows from what the calls and the frames are.
Kept == /\ sockets \in Nat /\ connects \in Nat /\ leaked \in Nat
        /\ alive => message \in Frames(Offset(NumLights(lights)))

LEMMA KeptHolds == CallInv /\ FrameInv => Kept
BY ComposedIsFrame DEF CallInv, SocketInv, FrameInv, Kept

\* The rest of it.
Switches == keyed \in BOOLEAN /\ active \in BOOLEAN /\ alive \in BOOLEAN /\ late \in BOOLEAN

Reasons == {"created", "destroyed", "refused", "lost", "unanswered"}

Places == /\ pc \in {"idle", "open", "configure", "handshake", "close"}
          /\ rounds \in 0..MaxRounds
          /\ session \in {"none", "up", "down"}
          /\ lapse \subseteq Reasons

Answers == [call : {"none", "create", "destroy", "connect", "disconnect", "set",
                    "update"}, value : BOOLEAN]

Answered == returned \in Answers

LEMMA TypesInit == StreamInit => Switches /\ Places /\ Answered
<1> SUFFICES ASSUME StreamInit PROVE Switches /\ Places /\ Answered
  OBVIOUS
<1>1. Switches
  BY DEF StreamInit, Switches
<1>2. 0 \in 0..MaxRounds
  BY StreamAssumption
<1>3. Places
  BY <1>2 DEF StreamInit, Places
<1>4. Answered
  BY DEF StreamInit, Answered, Answers
<1> QED BY <1>1, <1>3, <1>4

LEMMA SwitchesStep == Switches /\ [StreamNext]_streamVars => Switches'
<1> SUFFICES ASSUME Switches, [StreamNext]_streamVars PROVE Switches'
  OBVIOUS
<1> USE DEF Switches
<1>1. CASE GetKeys
  BY <1>1 DEF GetKeys, outputVars
<1>2. ASSUME NEW ids \in Groups, Create(ids) PROVE Switches'
  <2>1. PICK answer \in StartOutcomes, seeded \in BOOLEAN :
          Put(answer, TRUE) /\ alive' = (~Thrown(answer) /\ seeded)
    BY <1>2 DEF Create
  <2>2. (~Thrown(answer) /\ seeded) \in BOOLEAN
    OBVIOUS
  <2>3. active' \in BOOLEAN
    BY <2>1 DEF Put
  <2>4. late' = FALSE /\ keyed' = keyed
    BY <1>2 DEF Create
  <2> QED BY <2>1, <2>2, <2>3, <2>4
<1>3. CASE Destroy
  BY <1>3 DEF Destroy
<1>4. CASE ConnectStart
  <2>1. UNCHANGED <<keyed, alive, late>> /\ active' \in {active, TRUE}
    BY <1>4 DEF ConnectStart, Put, outputVars
  <2> QED BY <2>1
<1>5. CASE OpenSocket \/ Configure
  BY <1>5 DEF OpenSocket, Configure, outputVars
<1>6. CASE Handshake
  <2>1. UNCHANGED <<keyed, active, alive>> /\ late' \in {late, FALSE}
    BY <1>6 DEF Handshake, outputVars
  <2> QED BY <2>1
<1>7. ASSUME NEW name, NEW answer, Close(name, answer) PROVE Switches'
  <2>1. UNCHANGED <<keyed, alive, late>> /\ active' \in {active, FALSE}
    BY <1>7 DEF Close, Put, outputVars
  <2> QED BY <2>1
<1>8. ASSUME NEW index \in Indices, NEW colour \in Colours, SetColorRGB(index, colour)
      PROVE  Switches'
  BY <1>8 DEF SetColorRGB, outputVars
<1>9. CASE Update
  <2>1. late' = (pending # NoFrame) \/ late' = late
    BY <1>9 DEF Update, outputVars
  <2>2. late' \in BOOLEAN
    BY <2>1
  <2> QED BY <1>9, <2>2 DEF Update
<1>10. CASE UNCHANGED streamVars
  BY <1>10 DEF streamVars, outputVars
<1> QED BY <1>1, <1>2, <1>3, <1>4, <1>5, <1>6, <1>7, <1>8, <1>9, <1>10
        DEF StreamNext, StreamStep, ConnectFails, Disconnect

LEMMA PlacesStep == Places /\ [StreamNext]_streamVars => Places'
<1> SUFFICES ASSUME Places, [StreamNext]_streamVars PROVE Places'
  OBVIOUS
<1> USE DEF Places
<1>1. CASE GetKeys
  BY <1>1 DEF GetKeys
<1>2. ASSUME NEW ids \in Groups, Create(ids) PROVE Places'
  BY <1>2 DEF Create, Reasons
<1>3. CASE Destroy
  BY <1>3 DEF Destroy, Reasons
<1>4. ASSUME NEW answer \in PutOutcomes, answer # "success" PROVE answer \in Reasons
  BY <1>4 DEF PutOutcomes, Reasons
<1>5. CASE ConnectStart
  <2>1. StartOutcomes \subseteq PutOutcomes
    BY DEF StartOutcomes, PutOutcomes
  <2>2. PICK answer \in PutOutcomes :
          \/ pc' = "open" /\ lapse' = {}
          \/ pc' = "idle" /\ lapse' = lapse \cup {answer} /\ answer # "success"
    BY <1>5, <2>1 DEF ConnectStart
  <2> QED BY <1>4, <1>5, <2>2 DEF ConnectStart
<1>6. CASE OpenSocket
  BY <1>6 DEF OpenSocket
<1>7. CASE Configure
  BY <1>7, StreamAssumption DEF Configure
<1>8. CASE Handshake
  <2>1. rounds' \in 0..MaxRounds
    <3>1. rounds' = rounds \/ (rounds < MaxRounds /\ rounds' = rounds + 1)
      BY <1>8 DEF Handshake
    <3>2. rounds \in 0..MaxRounds /\ MaxRounds \in Nat
      BY StreamAssumption
    <3> QED BY ONLY <3>1, <3>2
  <2>2. /\ pc' \in {"idle", "handshake", "close"} /\ session' \in {session, "up"}
        /\ UNCHANGED lapse
    BY <1>8 DEF Handshake
  <2> QED BY <2>1, <2>2
<1>9. ASSUME NEW name, NEW answer \in PutOutcomes, Close(name, answer) PROVE Places'
  <2>1. /\ pc' = "idle" /\ session' \in {session, "down"} /\ UNCHANGED rounds
        /\ \/ lapse' = {}
           \/ lapse' = lapse \cup {answer} /\ answer # "success"
    BY <1>9 DEF Close
  <2> QED BY <1>4, <2>1
<1>10. ASSUME NEW index \in Indices, NEW colour \in Colours, SetColorRGB(index, colour)
       PROVE  Places'
  BY <1>10 DEF SetColorRGB
<1>11. CASE Update
  BY <1>11 DEF Update
<1>12. CASE UNCHANGED streamVars
  BY <1>12 DEF streamVars
<1> QED BY <1>1, <1>2, <1>3, <1>5, <1>6, <1>7, <1>8, <1>9, <1>10, <1>11, <1>12
        DEF StreamNext, StreamStep, ConnectFails, Disconnect

\* A call answers with its name and a truth value, or has not answered.
LEMMA AnsweredStep == Answered /\ Switches' /\ [StreamNext]_streamVars => Answered'
<1> SUFFICES ASSUME Answered, Switches', [StreamNext]_streamVars PROVE Answered'
  OBVIOUS
<1>1. ASSUME NEW name \in {"none", "create", "destroy", "connect", "disconnect",
                           "set", "update"},
             NEW value \in BOOLEAN, Return(name, value)
      PROVE  Answered'
  BY <1>1 DEF Return, Answered, Answers
<1>2. ASSUME returned' = returned PROVE Answered'
  BY <1>2 DEF Answered
<1>3. ASSUME NEW ids \in Groups, Create(ids) PROVE Answered'
  BY <1>1, <1>3 DEF Create, Switches
<1>4. CASE Destroy
  BY <1>1, <1>4 DEF Destroy
<1>5. CASE ConnectStart
  <2>1. Return("none", TRUE) \/ Return("connect", FALSE)
    BY <1>5 DEF ConnectStart
  <2> QED BY <1>1, <2>1
<1>6. CASE Handshake
  <2>1. returned' = returned \/ Return("connect", TRUE)
    BY <1>6 DEF Handshake
  <2> QED BY <1>1, <1>2, <2>1
<1>7. ASSUME NEW name \in {"connect", "disconnect"}, NEW answer, Close(name, answer)
      PROVE  Answered'
  <2>1. (name = "disconnect" /\ answer = "success") \in BOOLEAN
    OBVIOUS
  <2>2. Return(name, name = "disconnect" /\ answer = "success")
    BY <1>7 DEF Close
  <2> QED BY <1>1, <2>1, <2>2
<1>8. ASSUME NEW index \in Indices, NEW colour \in Colours, SetColorRGB(index, colour)
      PROVE  Answered'
  <2>1. Return("set", TRUE) \/ Return("set", FALSE)
    BY <1>8 DEF SetColorRGB
  <2> QED BY <1>1, <2>1
<1>9. CASE Update
  <2>1. \A x \in {FALSE, session = "down"} : x \in BOOLEAN
    OBVIOUS
  <2>2. \E went \in BOOLEAN : Return("update", went)
    BY <1>9, <2>1 DEF Update
  <2> QED BY <1>1, <2>2
<1>10. CASE GetKeys \/ OpenSocket \/ Configure \/ UNCHANGED streamVars
  BY <1>2, <1>10 DEF GetKeys, OpenSocket, Configure, streamVars
<1> QED BY <1>3, <1>4, <1>5, <1>6, <1>7, <1>8, <1>9, <1>10
        DEF StreamNext, StreamStep, ConnectFails, Disconnect

\* The types of the stream's state: for any group the message consists of bytes
\* and has the length its lights need.
THEOREM StreamTypes == StreamSpec => []StreamTypeOK
<1>1. Kept /\ Switches /\ Places /\ Answered => StreamTypeOK
  BY DEF Kept, Switches, Places, Reasons, Answered, Answers, StreamTypeOK
<1> QED BY CallInitInv, CallStepInv, FrameInitInv, FrameStepInv, TypesInit,
           SwitchesStep, PlacesStep, AnsweredStep, KeptHolds, <1>1, PTL DEF StreamSpec

----------------------------------------------------------------------------
(* The HTTP request.                                                       *)

\* The call has come as far as the reply.
GoneOn == step = "read" \/ outcome \in {"HueException", "parse_error", "returned"}

\* What the call has written and read, and what it returns, step by step.
CallData ==
  /\ msg \in Seq(Symbols) /\ reply \in Seq(Symbols)
  /\ taken = SubSeq(msg, 1, sent) /\ Len(taken) = sent
  /\ step # "idle" => outcome = "none"
  /\ GoneOn => sent = Len(msg) \/ refused
  /\ Len(response) \in 0..replied /\ response = SubSeq(reply, 1, Len(response))
  /\ step = "connect" => /\ line = "closed" /\ response = <<>>
                         /\ replied = 0
  /\ outcome = "returned" =>
       /\ step = "idle" /\ BodyStarts(response) # {}
       /\ body = Body(response) /\ body \in Documents

TransportInv == TransportTypeOK /\ CallData

LEMMA TransportInitInv == TransportInit => TransportInv
<1> SUFFICES ASSUME TransportInit PROVE TransportInv
  OBVIOUS
<1>1. <<>> \in Seq(Symbols) /\ Len(<<>>) = 0 /\ SubSeq(<<>>, 1, 0) = <<>>
  BY SubSeqEmpty
<1>2. TransportTypeOK
  <2>1. sent \in 0..Len(msg) /\ heard \in 0..Len(taken) /\ replied \in 0..Len(reply)
    BY <1>1 DEF TransportInit
  <2> QED BY <2>1 DEF TransportInit, TransportTypeOK
<1>3. CallData
  BY <1>1 DEF TransportInit, CallData, GoneOn
<1> QED BY <1>2, <1>3 DEF TransportInv

LEMMA SendInv ==
  ASSUME TransportInv, NEW m \in Requests, Send(m)
  PROVE  TransportInv'
<1>1. m \in Seq(Symbols) /\ <<>> \in Seq(Symbols) /\ Len(<<>>) = 0
      /\ SubSeq(<<>>, 1, 0) = <<>> /\ SubSeq(m, 1, 0) = <<>>
  BY TransportAssumption, SubSeqEmpty
<1>2. Len(m) \in Nat
  BY <1>1, LenProperties
<1>3. TransportTypeOK'
  <2>1. sent' \in 0..Len(msg') /\ heard' \in 0..Len(taken') /\ replied' \in 0..Len(reply')
    BY <1>1, <1>2 DEF Send
  <2> QED BY <2>1 DEF Send, TransportTypeOK
<1>4. CallData'
  BY <1>1 DEF Send, CallData, GoneOn
<1> QED BY <1>3, <1>4 DEF TransportInv

LEMMA ThrowInv ==
  ASSUME TransportInv, NEW what \in {"system_error"}, Throw(what), UNCHANGED <<taken, peerVars>>
  PROVE  TransportInv'
<1>1. TransportTypeOK'
  BY DEF Throw, peerVars, TransportInv, TransportTypeOK
<1>2. CallData'
  BY DEF Throw, peerVars, TransportInv, CallData, GoneOn
<1> QED BY <1>1, <1>2 DEF TransportInv

LEMMA ConnectInv == TransportInv /\ Connect => TransportInv'
<1> SUFFICES ASSUME TransportInv, Connect PROVE TransportInv'
  OBVIOUS
<1>1. CASE Throw("system_error") /\ UNCHANGED <<taken, peerVars>>
  BY <1>1, ThrowInv
<1>2. CASE /\ step = "connect" /\ step' = "write" /\ line' = "open" /\ reply' \in Replies
           /\ UNCHANGED <<msg, sent, refused, response, fds, outcome, body, taken,
                          heard, replied>>
  <2>1. reply' \in Seq(Symbols) /\ Len(reply') \in Nat
    BY <1>2, TransportAssumption, LenProperties
  <2>2. response = <<>> /\ replied = 0 /\ Len(<<>>) = 0 /\ SubSeq(reply', 1, 0) = <<>>
    BY <1>2, SubSeqEmpty DEF TransportInv, CallData
  <2>3. TransportTypeOK'
    BY <1>2, <2>1, <2>2 DEF TransportInv, TransportTypeOK
  <2>4. outcome # "returned"
    BY <1>2 DEF TransportInv, CallData
  <2>5. CallData'
    BY <1>2, <2>1, <2>2, <2>4 DEF TransportInv, CallData, GoneOn
  <2> QED BY <2>3, <2>5 DEF TransportInv
<1> QED BY <1>1, <1>2 DEF Connect

\* The next piece of s continues the beginning of s.
LEMMA NextPiece ==
  ASSUME NEW S, NEW s \in Seq(S), NEW m \in 0..Len(s), NEW n \in m..Len(s)
  PROVE  /\ SubSeq(s, 1, m) \o SubSeq(s, m + 1, n) = SubSeq(s, 1, n)
         /\ Len(SubSeq(s, 1, n)) = n
<1>1. Len(s) \in Nat
  BY LenProperties
<1>2. n \in 0..Len(s) /\ 1 \in 1..Len(s) + 1 /\ m \in 1 - 1..Len(s)
  BY <1>1
<1>3. SubSeq(s, 1, m) \o SubSeq(s, m + 1, n) = SubSeq(s, 1, n)
  BY <1>2, ConcatAdjacentSubSeq
<1>4. \A i \in 1..n : s[i] \in S
  BY <1>1, <1>2, ElementOfSeq
<1>5. Len(SubSeq(s, 1, n)) = n
  BY <1>1, <1>2, <1>4, SubSeqProperties
<1> QED BY <1>3, <1>5

\* What is written next continues what was taken, and the call goes on to the
\* reply only when that is all or write() took nothing.
LEMMA WriteInv == TransportInv /\ Write => TransportInv'
<1> SUFFICES ASSUME TransportInv, Write PROVE TransportInv'
  OBVIOUS
<1>1. CASE Throw("system_error") /\ UNCHANGED <<taken, peerVars>>
  BY <1>1, ThrowInv
<1>2. ASSUME step = "write", NEW bytes \in 0..Len(msg) - sent, sent' = sent + bytes,
             refused' = (bytes = 0),
             taken' = taken \o SubSeq(msg, sent + 1, sent + bytes),
             step' = IF refused' \/ sent' = Len(msg) THEN "read" ELSE "write",
             UNCHANGED <<msg, response, fds, outcome, body, peerVars>>
      PROVE  TransportInv'
  <2>1. msg \in Seq(Symbols) /\ Len(msg) \in Nat /\ sent \in 0..Len(msg)
        /\ taken = SubSeq(msg, 1, sent) /\ Len(taken) = sent /\ heard \in 0..Len(taken)
    BY LenProperties DEF TransportInv, TransportTypeOK, CallData
  <2>2. sent' \in sent..Len(msg) /\ sent' = sent + bytes
    BY <1>2, <2>1
  <2>3. taken' = SubSeq(msg, 1, sent') /\ Len(taken') = sent'
    BY <1>2, <2>1, <2>2, NextPiece
  <2>4. TransportTypeOK'
    <3>1. heard' \in 0..Len(taken') /\ refused' \in BOOLEAN /\ sent' \in 0..Len(msg)
          /\ step' \in {"read", "write"}
      BY <1>2, <2>1, <2>2, <2>3 DEF peerVars
    <3> QED BY <1>2, <3>1 DEF TransportInv, TransportTypeOK, peerVars
  <2>6. outcome = "none"
    BY <1>2 DEF TransportInv, CallData
  <2>7. CallData'
    <3>1. GoneOn' => sent' = Len(msg) \/ refused'
      BY <1>2, <2>6 DEF GoneOn
    <3>2. step' # "connect"
      BY <1>2
    <3> QED BY <1>2, <2>3, <2>6, <3>1, <3>2 DEF TransportInv, CallData, peerVars
  <2> QED BY <2>4, <2>7 DEF TransportInv
<1> QED BY <1>1, <1>2 DEF Write

LEMMA ReadInv == TransportInv /\ Read => TransportInv'
<1> SUFFICES ASSUME TransportInv, Read PROVE TransportInv'
  OBVIOUS
<1>1. PICK n \in Len(response) + 1..replied :
        response' = response \o SubSeq(reply, Len(response) + 1, n)
  BY DEF Read
<1>2. /\ reply \in Seq(Symbols) /\ Len(reply) \in Nat /\ replied \in 0..Len(reply)
      /\ Len(response) \in 0..replied /\ response = SubSeq(reply, 1, Len(response))
  BY LenProperties DEF TransportInv, TransportTypeOK, CallData
<1>3. n \in Len(response)..Len(reply) /\ n \in 0..replied /\ Len(response) \in 0..Len(reply)
  BY <1>2
<1>4. response' = SubSeq(reply, 1, n) /\ Len(response') = n
  <2>1. SubSeq(reply, 1, Len(response)) \o SubSeq(reply, Len(response) + 1, n)
          = SubSeq(reply, 1, n)
        /\ Len(SubSeq(reply, 1, n)) = n
    BY <1>2, <1>3, NextPiece
  <2> QED BY <1>1, <1>2, <2>1
<1>5. TransportTypeOK'
  BY DEF Read, peerVars, TransportInv, TransportTypeOK
<1>6. step = "read" /\ outcome = "none"
  BY DEF Read, TransportInv, CallData
<1>7. CallData'
  BY <1>3, <1>4, <1>6 DEF Read, peerVars, TransportInv, CallData, GoneOn
<1> QED BY <1>5, <1>7 DEF TransportInv

LEMMA EndOfReplyInv == TransportInv /\ EndOfReply => TransportInv'
<1> SUFFICES ASSUME TransportInv, EndOfReply PROVE TransportInv'
  OBVIOUS
<1>1. /\ step' = "idle" /\ fds' = 0
      /\ step = "read"
      /\ UNCHANGED <<msg, sent, refused, response, taken, heard, reply, replied, line>>
      /\ \/ outcome' \in {"HueException", "parse_error"} /\ body' = body
         \/ /\ outcome' = "returned" /\ BodyStarts(response) # {}
            /\ body' = Body(response) /\ Body(response) \in Documents
  BY DEF EndOfReply, peerVars
<1>2. TransportTypeOK'
  BY <1>1 DEF TransportInv, TransportTypeOK
<1>3. (BodyStarts(response))' = BodyStarts(response) /\ (Body(response))' = Body(response)
  BY <1>1 DEF Body, BodyStarts
<1>4. CallData'
  BY <1>1, <1>3 DEF TransportInv, CallData, GoneOn
<1> QED BY <1>2, <1>4 DEF TransportInv

LEMMA PeerInv == TransportInv /\ Peer => TransportInv'
<1> SUFFICES ASSUME TransportInv, Peer PROVE TransportInv'
  OBVIOUS
<1>1. /\ UNCHANGED callVars /\ UNCHANGED <<taken, reply>> /\ line = "open" /\ step # "idle"
      /\ \/ replied' = replied /\ heard' = heard /\ line' \in {"closed", "silent"}
         \/ replied' \in replied + 1..Len(reply) /\ heard' = heard /\ line' = line
         \/ replied' = replied /\ heard' \in heard + 1..Len(taken) /\ line' = line
  BY DEF Peer, Arrive, Reply, PeerCloses, PeerHangs
<1>2. reply \in Seq(Symbols) /\ Len(reply) \in Nat /\ replied \in 0..Len(reply)
      /\ step # "connect" /\ outcome # "returned"
      /\ Len(taken) \in Nat /\ heard \in 0..Len(taken)
  BY <1>1, LenProperties DEF TransportInv, TransportTypeOK, CallData
<1>3. replied' \in replied..Len(reply) /\ heard' \in 0..Len(taken)
  BY <1>1, <1>2
<1>4. TransportTypeOK'
  <2>1. heard' \in 0..Len(taken') /\ replied' \in 0..Len(reply')
    BY <1>1, <1>2, <1>3
  <2> QED BY <1>1, <2>1 DEF callVars, TransportInv, TransportTypeOK
<1>5. CallData'
  <2>1. UNCHANGED <<step, msg, sent, refused, response, outcome, body, taken, reply>>
    BY <1>1 DEF callVars
  <2>2. Len(response') \in 0..replied'
    BY <1>2, <1>3, <2>1 DEF TransportInv, CallData
  <2>3. (BodyStarts(response))' = BodyStarts(response) /\ (Body(response))' = Body(response)
    BY <2>1 DEF Body, BodyStarts
  <2>4. GoneOn' = GoneOn
    BY <2>1 DEF GoneOn
  <2> QED BY <1>2, <2>1, <2>2, <2>3, <2>4 DEF TransportInv, CallData
<1> QED BY <1>4, <1>5 DEF TransportInv

LEMMA TransportStepInv == TransportInv /\ [TransportNext]_transportVars => TransportInv'
<1> SUFFICES ASSUME TransportInv, [TransportNext]_transportVars PROVE TransportInv'
  OBVIOUS
<1>1. CASE UNCHANGED transportVars
  BY <1>1 DEF transportVars, callVars, peerVars, TransportInv, TransportTypeOK,
              CallData, GoneOn, BodyStarts, Body
<1>2. CASE ReadFails
  BY <1>2, ThrowInv DEF ReadFails
<1> QED BY <1>1, <1>2, SendInv, ConnectInv, WriteInv, ReadInv, EndOfReplyInv, PeerInv
        DEF TransportNext, Caller

\* A set of numbers up to L has a least one: inclusion of the intervals 0..x is
\* well founded.
LEMMA LeastOf ==
  ASSUME NEW L \in Nat, NEW B \in SUBSET 0..L, B # {}
  PROVE  \E f \in B : \A j \in B : f <= j
<1> DEFINE S == 0..L
           R == StrictSubsetOrdering(S)
           T == {0..x : x \in B}
<1>1. IsFiniteSet(S)
  BY FS_Interval
<1>2. T \subseteq FiniteSubsetsOf(S) /\ T # {}
  <2>1. \A x \in B : 0..x \in SUBSET S
    OBVIOUS
  <2>2. FiniteSubsetsOf(S) = SUBSET S
    BY <1>1, FS_FiniteSubsetsOfFinite
  <2>3. T \subseteq SUBSET S
    BY <2>1
  <2>4. PICK x : x \in B
    OBVIOUS
  <2>5. 0..x \in T
    BY <2>4
  <2> QED BY <2>2, <2>3, <2>5
<1>3. IsWellFoundedOn(R, FiniteSubsetsOf(S))
  BY FS_StrictSubsetOrderingWellFounded
<1> HIDE DEF R, T
<1>4. PICK I \in T : \A J \in T : ~(<<J, I>> \in R)
  BY <1>2, <1>3, WFMin
<1>5. PICK f \in B : I = 0..f
  BY DEF T
<1>6. ASSUME NEW j \in B PROVE f <= j
  <2>1. f \in Nat /\ j \in Nat /\ f <= L /\ j <= L
    OBVIOUS
  <2>2. SUFFICES ASSUME j < f PROVE FALSE
    BY <2>1
  <2>3. 0..j \in T
    BY DEF T
  <2>4. 0..j \in SUBSET S /\ 0..f \in SUBSET S /\ 0..j \subseteq 0..f
    BY <2>1, <2>2
  <2>5. f \in 0..f /\ f \notin 0..j
    BY <2>1, <2>2
  <2>6. 0..j # 0..f
    BY <2>5
  <2>7. <<0..j, 0..f>> \in R
    BY <2>4, <2>6 DEF R, StrictSubsetOrdering
  <2> QED BY <1>4, <1>5, <2>3, <2>7
<1> QED BY <1>6

\* The body of what was read is a beginning of the body of the reply.
LEMMA BodyOfPart ==
  ASSUME NEW whole \in Seq(Symbols), NEW l \in 0..Len(whole),
         NEW front, front = SubSeq(whole, 1, l), BodyStarts(front) # {}
  PROVE  /\ BodyStarts(whole) # {}
         /\ Body(whole) \in Seq(Symbols)
         /\ \E n \in 0..Len(Body(whole)) : Body(front) = SubSeq(Body(whole), 1, n)
<1> DEFINE L == Len(whole)
<1>1. L \in Nat /\ \A i \in 1..L : whole[i] \in Symbols
  BY LenProperties, ElementOfSeq
<1>2. /\ Len(front) = l /\ \A i \in 1..l : front[i] = whole[i]
      /\ front \in Seq(Symbols)
  <2>1. \A i \in 1..l : whole[i] \in Symbols
    BY <1>1
  <2>2. /\ SubSeq(whole, 1, l) \in Seq(Symbols)
        /\ Len(SubSeq(whole, 1, l)) = IF 1 <= l THEN l - 1 + 1 ELSE 0
        /\ \A i \in 1..l - 1 + 1 : SubSeq(whole, 1, l)[i] = whole[1 + i - 1]
    BY <1>1, <2>1, SubSeqProperties
  <2> QED BY <1>1, <2>2
<1> HIDE DEF L
<1>3. BodyStarts(front) \subseteq BodyStarts(whole)
      /\ \A j \in BodyStarts(whole) : j < l => j \in BodyStarts(front)
  BY <1>1, <1>2 DEF BodyStarts, L
<1>4. PICK f \in BodyStarts(front) : \A j \in BodyStarts(front) : f <= j
  <2>1. BodyStarts(front) \in SUBSET (0..l)
    BY <1>1, <1>2 DEF BodyStarts
  <2>2. l \in Nat
    BY <1>1
  <2> QED BY <2>1, <2>2, LeastOf
<1>5. f \in Nat /\ f + 1 <= l /\ f >= 1
  BY <1>2, <1>4 DEF BodyStarts
<1>6. f \in BodyStarts(whole) /\ \A j \in BodyStarts(whole) : f <= j
  <2>1. f \in BodyStarts(whole)
    BY <1>3, <1>4
  <2>2. ASSUME NEW j \in BodyStarts(whole) PROVE f <= j
    <3>1. j \in Nat
      BY <1>1 DEF BodyStarts, L
    <3>2. CASE j < l
      BY <1>3, <1>4, <3>2
    <3>3. CASE ~(j < l)
      BY <1>5, <3>1, <3>3
    <3> QED BY <3>2, <3>3
  <2> QED BY <2>1, <2>2
<1>7. Body(front) = SubSeq(front, f + 2, l) /\ Body(whole) = SubSeq(whole, f + 2, L)
  <2>1. ASSUME NEW r, NEW S, S = BodyStarts(r), S \subseteq Nat, f \in S,
               \A j \in S : f <= j
        PROVE  Body(r) = SubSeq(r, f + 2, Len(r))
    <3>1. f = CHOOSE i \in S : \A j \in S : i <= j
      <4>1. ASSUME NEW i \in S, \A j \in S : i <= j PROVE i = f
        BY <2>1, <4>1
      <4> QED BY <2>1, <4>1
    <3> QED BY <2>1, <3>1 DEF Body
  <2>2. BodyStarts(front) \subseteq Nat /\ BodyStarts(whole) \subseteq Nat
    BY <1>1, <1>2 DEF BodyStarts, L
  <2>3. Body(front) = SubSeq(front, f + 2, Len(front))
    BY <1>4, <2>1, <2>2
  <2>4. Body(whole) = SubSeq(whole, f + 2, Len(whole))
    BY <1>6, <2>1, <2>2
  <2> QED BY <1>2, <2>3, <2>4 DEF L
<1> DEFINE n == l - f - 1
<1>8. /\ Body(whole) \in Seq(Symbols) /\ n \in 0..Len(Body(whole))
      /\ Body(front) = SubSeq(Body(whole), 1, n)
  <2>1. \A i \in f + 2..L : whole[i] \in Symbols
    BY <1>1, <1>5 DEF L
  <2>2. /\ Body(whole) \in Seq(Symbols)
        /\ Len(Body(whole)) = IF f + 2 <= L THEN L - (f + 2) + 1 ELSE 0
    BY <1>1, <1>5, <1>7, <2>1, SubSeqProperties
  <2>3. l <= L /\ l \in Nat
    BY <1>1 DEF L
  <2>4. n \in 0..Len(Body(whole))
    BY <1>1, <1>5, <2>2, <2>3
  <2>5. CASE n = 0
    <3>1. l < f + 2
      BY <1>5, <2>3, <2>5
    <3>2. Body(front) = <<>>
      BY <1>5, <1>7, <2>3, <3>1, SubSeqEmpty
    <3>3. SubSeq(Body(whole), 1, 0) = <<>>
      BY SubSeqEmpty
    <3> QED BY <2>5, <3>2, <3>3, <2>2, <2>4
  <2>6. CASE n # 0
    <3>1. /\ f + 2 \in 1..L /\ L \in 1..L /\ 1 \in 1..L - (f + 2) + 1
          /\ n \in 1..L - (f + 2) + 1 /\ l \in 1..L
      BY <1>1, <1>5, <2>3, <2>6
    <3>2. SubSeq(SubSeq(whole, f + 2, L), 1, n) = SubSeq(whole, (f + 2) + 1 - 1, (f + 2) + n - 1)
      <4>1. ASSUME NEW g \in 1..L, NEW k \in 1..L - g + 1, 1 \in 1..L - g + 1, L \in 1..L
            PROVE  SubSeq(SubSeq(whole, g, L), 1, k) = SubSeq(whole, g + 1 - 1, g + k - 1)
        BY <4>1, SubSeqOfSubSeq DEF L
      <4> HIDE DEF n
      <4> QED BY <3>1, <4>1
    <3>3. (f + 2) + 1 - 1 = f + 2 /\ (f + 2) + n - 1 = l
      BY <1>5, <2>3
    <3>4. 1 \in 1..L /\ f + 2 \in 1..l - 1 + 1 /\ l \in 1..l - 1 + 1
      BY <1>1, <1>5, <2>3, <2>6
    <3>5. SubSeq(SubSeq(whole, 1, l), f + 2, l) = SubSeq(whole, 1 + (f + 2) - 1, 1 + l - 1)
      <4>1. ASSUME NEW g \in 1..l - 1 + 1, 1 \in 1..L, l \in 1..L, l \in 1..l - 1 + 1
            PROVE  SubSeq(SubSeq(whole, 1, l), g, l) = SubSeq(whole, 1 + g - 1, 1 + l - 1)
        BY <4>1, SubSeqOfSubSeq DEF L
      <4> QED BY <3>1, <3>4, <4>1
    <3>6. 1 + (f + 2) - 1 = f + 2 /\ 1 + l - 1 = l
      BY <1>5, <2>3
    <3>7. Body(front) = SubSeq(Body(whole), 1, n)
      BY <1>7, <3>2, <3>3, <3>5, <3>6
    <3> QED BY <2>2, <2>4, <3>7
  <2> QED BY <2>5, <2>6
<1> QED BY <1>6, <1>8

\* What a call has sent and what it returns is whole.
LEMMA TransportInvImplies == TransportInv => NothingLostOrTorn
<1> SUFFICES ASSUME TransportInv PROVE NothingLostOrTorn
  OBVIOUS
<1>1. response = SubSeq(reply, 1, Len(response))
  BY DEF TransportInv, CallData
<1>3. /\ msg \in Seq(Symbols) /\ Len(msg) \in Nat /\ sent \in 0..Len(msg)
      /\ taken = SubSeq(msg, 1, sent) /\ Len(taken) = sent /\ heard \in 0..sent
      /\ reply \in Seq(Symbols) /\ Len(reply) \in Nat /\ Len(response) \in 0..Len(reply)
  BY LenProperties DEF TransportInv, TransportTypeOK, CallData
<1>4. GoneOn => taken = msg \/ refused
  BY <1>3, SubSeqFull DEF TransportInv, CallData
<1>5. SubSeq(taken, 1, heard) = SubSeq(msg, 1, heard) /\ heard \in 0..Len(msg)
  <2>1. CASE heard = 0
    BY <1>3, <2>1, SubSeqEmpty
  <2>2. CASE heard # 0
    <3>1. 1 \in 1..Len(msg) /\ sent \in 1..Len(msg) /\ 1 \in 1..sent - 1 + 1
          /\ heard \in 1..sent - 1 + 1 /\ 1 + 1 - 1 = 1 /\ 1 + heard - 1 = heard
      BY <1>3, <2>2
    <3>2. SubSeq(SubSeq(msg, 1, sent), 1, heard) = SubSeq(msg, 1 + 1 - 1, 1 + heard - 1)
      BY <1>3, <3>1, SubSeqOfSubSeq
    <3> QED BY <1>3, <3>1, <3>2
  <2> QED BY <2>1, <2>2
<1>2. ASSUME outcome = "returned"
      PROVE  /\ BodyStarts(reply) # {}
             /\ \E n \in 0..Len(Body(reply)) : body = SubSeq(Body(reply), 1, n)
             /\ body \in Documents
             /\ Body(reply) \in Documents => body = Body(reply)
  <2>1. /\ reply \in Seq(Symbols) /\ Len(response) \in 0..Len(reply)
        /\ BodyStarts(response) # {} /\ body = Body(response) /\ body \in Documents
    BY <1>2, LenProperties DEF TransportInv, TransportTypeOK, CallData
  <2>2. /\ BodyStarts(reply) # {} /\ Body(reply) \in Seq(Symbols)
        /\ \E n \in 0..Len(Body(reply)) : body = SubSeq(Body(reply), 1, n)
    BY <1>1, <2>1, BodyOfPart
  <2>3. PICK n \in 0..Len(Body(reply)) : body = SubSeq(Body(reply), 1, n)
    BY <2>2
  <2>4. ASSUME Body(reply) \in Documents PROVE body = Body(reply)
    <3>1. Len(Body(reply)) \in Nat
      BY <2>2, LenProperties
    <3>2. n \notin 0..Len(Body(reply)) - 1
      BY <2>1, <2>3, <2>4, TransportAssumption
    <3>3. n = Len(Body(reply))
      BY <2>3, <3>1, <3>2
    <3> QED BY <2>2, <2>3, <3>3, SubSeqFull
  <2> QED BY <2>1, <2>2, <2>4
<1> QED BY <1>1, <1>2, <1>3, <1>4, <1>5 DEF NothingLostOrTorn, GoneOn

\* The types of a request's progress; a call holds its socket exactly as long
\* as it runs.
THEOREM TransportTypes == TransportSpec => []TransportTypeOK
<1>1. TransportInv => TransportTypeOK
  BY DEF TransportInv
<1> QED BY TransportInitInv, TransportStepInv, <1>1, PTL DEF TransportSpec

\* For any requests, replies and documents, and however the system calls and
\* the peer split them: a call that goes on to the reply has given all of its
\* request to the connection, byte by byte, unless write() took nothing, and
\* what it returns is the document the peer sent, never a part of it.
THEOREM RequestsAreWhole == TransportSpec => []NothingLostOrTorn
<1> QED BY TransportInitInv, TransportStepInv, TransportInvImplies, PTL DEF TransportSpec

----------------------------------------------------------------------------
(* The search for bridges.                                                 *)

\* The first line of a piece is one of its lines; that of a piece of one
\* datagram is the datagram's.
LEMMA FirstIsOne ==
  ASSUME NEW n \in Nat, NEW lines, DOMAIN lines = 1..n
  PROVE  /\ FirstOf(lines) # "" => \E m \in 1..n : lines[m] = FirstOf(lines)
         /\ n = 1 => FirstOf(lines) = lines[1]
<1> DEFINE there == {i \in 1..n : lines[i] # ""}
           first == CHOOSE i \in there : \A j \in there : i <= j
<1> HIDE DEF first
<1>0. \A i \in there : i \in 1..n /\ lines[i] # ""
  OBVIOUS
<1>5. \A i \in 1..n : lines[i] # "" => i \in there
  OBVIOUS
<1>1. FirstOf(lines) = IF there = {} THEN "" ELSE lines[first]
  BY DEF FirstOf, first
<1>2. ASSUME there # {}
      PROVE  first \in there
  <2>1. there \in SUBSET (0..n)
    <3>1. 1..n \subseteq 0..n
      OBVIOUS
    <3> QED BY <1>0, <3>1
  <2>2. \E f \in there : \A j \in there : f <= j
    BY <1>2, <2>1, LeastOf
  <2> QED BY <2>2 DEF first
<1> HIDE DEF there
<1>3. ASSUME n = 1 PROVE FirstOf(lines) = lines[1]
  <2>1. CASE there = {}
    <3>1. 1 \in 1..n
      BY <1>3
    <3>2. lines[1] = ""
      BY <1>5, <2>1, <3>1
    <3> QED BY <1>1, <2>1, <3>2
  <2>2. CASE there # {}
    <3>1. first \in 1..n
      BY <1>0, <1>2, <2>2
    <3>2. first = 1
      BY <1>3, <3>1
    <3> QED BY <1>1, <2>2, <3>2
  <2> QED BY <2>1, <2>2
<1>4. ASSUME FirstOf(lines) # "" PROVE \E m \in 1..n : lines[m] = FirstOf(lines)
  BY <1>0, <1>1, <1>2, <1>4
<1> QED BY <1>3, <1>4

\* What the search heeds: a clear datagram with both lines.
Heeded(i) == Clear(i) /\ stream[i].loc # "" /\ stream[i].server # ""

\* Device n was announced, and if clearly as what it was read as.
Announced(n) ==
  \E k \in 1..Len(stream) :
    /\ stream[k].loc = devices[n].loc
    /\ Clear(k) => stream[k].server = devices[n].server

\* Device n was visited and is found if it is a bridge that answers.
Visited(n) ==
  devices[n].server = "IpBridge" /\ devices[n].loc \in Bridges \ mute =>
    \E m \in 1..Len(found) : found[m] = devices[n].loc

DevicesInv ==
  /\ \A n \in 1..Len(devices) : Announced(n)
  /\ \A m, n \in 1..Len(devices) : devices[m].loc = devices[n].loc => m = n

\* How far the search has come.
StagesInv ==
  /\ stage = "listen" => devices = <<>> /\ found = <<>> /\ done = 0
  /\ stage = "read" =>
       /\ found = <<>>
       /\ done \in 0..Len(stream)
       /\ \A i \in 1..done : Heeded(i) => Known(devices, stream[i].loc)
  /\ stage = "visit" => done \in 0..Len(devices)
  /\ stage = "visit" \/ result = "returned" =>
       \A i \in 1..Len(stream) : Heeded(i) => Known(devices, stream[i].loc)
  /\ result = "returned" => stage = "idle"

FoundInv ==
  /\ \A m \in 1..Len(found) :
       \E n \in 1..Len(devices) : /\ devices[n].loc = found[m]
                                  /\ stage = "visit" => n <= done
  /\ \A m, n \in 1..Len(found) : found[m] = found[n] => m = n
  /\ stage = "visit" => \A n \in 1..done : Visited(n)
  /\ result = "returned" => \A n \in 1..Len(devices) : Visited(n)

SearchInv == DiscoveryTypeOK /\ DevicesInv /\ StagesInv /\ FoundInv

LEMMA SearchInitInv == DiscoveryInit => SearchInv
<1> SUFFICES ASSUME DiscoveryInit PROVE SearchInv
  OBVIOUS
<1> USE DEF DiscoveryInit
<1>1. Len(<<>>) = 0 /\ 1..0 = {}
  OBVIOUS
<1>2. DiscoveryTypeOK
  BY DEF DiscoveryTypeOK
<1>3. DevicesInv /\ StagesInv /\ FoundInv
  BY <1>1 DEF DevicesInv, StagesInv, FoundInv
<1> QED BY <1>2, <1>3 DEF SearchInv

LEMMA SearchBeginInv == Search => SearchInv'
<1> SUFFICES ASSUME Search PROVE SearchInv'
  OBVIOUS
<1> USE DEF Search
<1>1. Len(<<>>) = 0 /\ 1..0 = {}
  OBVIOUS
<1>2. DiscoveryTypeOK'
  BY DEF DiscoveryTypeOK
<1>3. DevicesInv' /\ StagesInv' /\ FoundInv'
  BY <1>1 DEF DevicesInv, StagesInv, FoundInv
<1> QED BY <1>2, <1>3 DEF SearchInv

LEMMA HearInv ==
  ASSUME SearchInv, NEW d \in Datagrams, Hear(d)
  PROVE  SearchInv'
<1>1. devices' = <<>> /\ found' = <<>> /\ done' = 0 /\ stage' = "listen"
      /\ result' = result /\ result # "returned" /\ mute' = mute
      /\ stream' = Append(stream, d)
  BY DEF SearchInv, StagesInv, Hear
<1>2. Len(<<>>) = 0 /\ 1..0 = {}
  OBVIOUS
<1>3. DiscoveryTypeOK'
  BY <1>1 DEF SearchInv, DiscoveryTypeOK
<1>4. DevicesInv' /\ StagesInv' /\ FoundInv'
  BY <1>1, <1>2 DEF DevicesInv, StagesInv, FoundInv
<1> QED BY <1>3, <1>4 DEF SearchInv

LEMMA TimeIsUpInv == SearchInv /\ TimeIsUp => SearchInv'
<1> SUFFICES ASSUME SearchInv, TimeIsUp PROVE SearchInv'
  OBVIOUS
<1>1. /\ devices' = <<>> /\ found' = <<>> /\ done' = 0 /\ stage' = "read"
      /\ result' = result /\ result # "returned" /\ mute' = mute
      /\ stream' = stream
  BY DEF SearchInv, StagesInv, TimeIsUp
<1>2. Len(<<>>) = 0 /\ 1..0 = {} /\ Len(stream) \in Nat
  BY LenProperties DEF SearchInv, DiscoveryTypeOK
<1>3. DiscoveryTypeOK'
  BY <1>1 DEF SearchInv, DiscoveryTypeOK
<1>4. DevicesInv' /\ StagesInv' /\ FoundInv'
  BY <1>1, <1>2 DEF DevicesInv, StagesInv, FoundInv
<1> QED BY <1>3, <1>4 DEF SearchInv

----------------------------------------------------------------------------
\* The end of the next piece.
LEMMA NextEndIs ==
  ASSUME NEW s \in Seq(Datagrams), NEW n \in Nat, \E i \in Ends(s) : i > n
  PROVE  /\ NextEnd(s, n) \in Ends(s) /\ NextEnd(s, n) > n
         /\ \A j \in Ends(s) : j > n => NextEnd(s, n) <= j
<1> DEFINE B == {i \in Ends(s) : i > n}
<1>1. Len(s) \in Nat
  BY LenProperties
<1>2. B \in SUBSET 0..Len(s) /\ B # {}
  BY <1>1 DEF Ends
<1>3. PICK f \in B : \A j \in B : f <= j
  BY <1>1, <1>2, LeastOf
<1>4. f \in Ends(s) /\ f > n /\ \A j \in Ends(s) : j > n => f <= j
  BY <1>3
<1> QED BY <1>4 DEF NextEnd

\* A datagram of s that is complete and not behind one that lacks its end.
ClearIn(s, k) == s[k].ended /\ (k > 1 => s[k - 1].ended)

\* e ends the piece of s that follows n.
EndOfPiece(s, n, e) == \A j \in Ends(s) : j > n => e <= j

\* What was read of the datagrams from n + 1 to e is in one of them.
ReadOf(s, n, e, loc, server) ==
  /\ loc # "" => \E k \in n + 1..e : s[k].loc = loc
  /\ server # "" => \E k \in n + 1..e : s[k].server = server

\* A piece: what was read of it is in one of its datagrams.
LEMMA PieceIs ==
  ASSUME NEW s \in Seq(Datagrams), NEW n \in Nat, NEW e \in Nat,
         n < e, e <= Len(s), NEW piece, piece = SubSeq(s, n + 1, e)
  PROVE  ReadOf(s, n, e, LocationOf(piece), ServerOf(piece))
<1>1. Len(s) \in Nat /\ e - n \in Nat
  BY LenProperties
<1>2. /\ DOMAIN piece = 1..e - n
      /\ \A m \in 1..e - n : piece[m] = s[n + m]
  BY <1>1, SubSeqProperties
<1> DEFINE locs == [i \in DOMAIN piece |-> piece[i].loc]
           servers == [i \in DOMAIN piece |-> piece[i].server]
<1>3. /\ DOMAIN locs = 1..e - n /\ DOMAIN servers = 1..e - n
      /\ LocationOf(piece) = FirstOf(locs) /\ ServerOf(piece) = FirstOf(servers)
      /\ \A m \in 1..e - n : locs[m] = s[n + m].loc /\ servers[m] = s[n + m].server
  BY <1>2 DEF LocationOf, ServerOf
<1> HIDE DEF locs, servers
<1>4. ASSUME LocationOf(piece) # ""
      PROVE  \E k \in n + 1..e : s[k].loc = LocationOf(piece)
  <2>1. PICK m \in 1..e - n : locs[m] = LocationOf(piece)
    <3>1. FirstOf(locs) # "" =>
            \E m \in 1..e - n : locs[m] = FirstOf(locs)
      BY <1>1, <1>3, FirstIsOne
    <3> QED BY <1>3, <1>4, <3>1
  <2>2. n + m \in n + 1..e
    OBVIOUS
  <2> QED BY <1>3, <2>1, <2>2
<1>5. ASSUME ServerOf(piece) # ""
      PROVE  \E k \in n + 1..e : s[k].server = ServerOf(piece)
  <2>1. PICK m \in 1..e - n : servers[m] = ServerOf(piece)
    <3>1. FirstOf(servers) # "" =>
            \E m \in 1..e - n : servers[m] = FirstOf(servers)
      BY <1>1, <1>3, FirstIsOne
    <3> QED BY <1>3, <1>5, <3>1
  <2>2. n + m \in n + 1..e
    OBVIOUS
  <2> QED BY <1>3, <2>1, <2>2
<1> QED BY <1>4, <1>5 DEF ReadOf

\* A clear datagram among them is all that was read.
ReadClear(s, n, e, loc, server) ==
  \A k \in n + 1..e : ClearIn(s, k) => loc = s[k].loc /\ server = s[k].server

\* A clear datagram is a piece of its own.
LEMMA ClearPieceIs ==
  ASSUME NEW s \in Seq(Datagrams), NEW n \in Nat, NEW e \in Nat,
         n < e, e <= Len(s), EndOfPiece(s, n, e),
         NEW piece, piece = SubSeq(s, n + 1, e)
  PROVE  ReadClear(s, n, e, LocationOf(piece), ServerOf(piece))
<1> SUFFICES ASSUME NEW k \in n + 1..e, ClearIn(s, k)
             PROVE  LocationOf(piece) = s[k].loc /\ ServerOf(piece) = s[k].server
  BY DEF ReadClear
<1>1. Len(s) \in Nat /\ e - n \in Nat
  BY LenProperties
<1>2. /\ DOMAIN piece = 1..e - n
      /\ \A m \in 1..e - n : piece[m] = s[n + m]
  BY <1>1, SubSeqProperties
<1> DEFINE locs == [i \in DOMAIN piece |-> piece[i].loc]
           servers == [i \in DOMAIN piece |-> piece[i].server]
<1>3. /\ DOMAIN locs = 1..e - n /\ DOMAIN servers = 1..e - n
      /\ LocationOf(piece) = FirstOf(locs) /\ ServerOf(piece) = FirstOf(servers)
      /\ \A m \in 1..e - n : locs[m] = s[n + m].loc /\ servers[m] = s[n + m].server
  BY <1>2 DEF LocationOf, ServerOf
<1> HIDE DEF locs, servers
<1>4. s[k].ended /\ (k > 1 => s[k - 1].ended)
  BY DEF ClearIn
<1>5. k \in 1..Len(s) /\ k > n
  BY <1>1
<1>6. k = e
  BY <1>4, <1>5 DEF Ends, EndOfPiece
<1>7. k = n + 1
  <2> SUFFICES ASSUME k > n + 1 PROVE FALSE
    OBVIOUS
  <2>1. k - 1 \in 1..Len(s) /\ k - 1 > n /\ k > 1
    BY <1>1
  <2>2. k - 1 \in Ends(s)
    BY <1>4, <2>1 DEF Ends
  <2> QED BY <1>6, <2>1, <2>2 DEF EndOfPiece
<1>8. e - n = 1 /\ 1 \in 1..e - n /\ n + 1 = k
  BY <1>6, <1>7
<1>9. locs[1] = s[k].loc /\ servers[1] = s[k].server
  BY <1>3, <1>8
<1>10. FirstOf(locs) = locs[1] /\ FirstOf(servers) = servers[1]
  BY <1>1, <1>3, <1>8, FirstIsOne
<1> QED BY <1>3, <1>9, <1>10

\* What Append leaves alone.
LEMMA AppendKeeps ==
  ASSUME NEW S, NEW s \in Seq(S), NEW x \in S, NEW i \in 1..Len(s)
  PROVE  Append(s, x)[i] = s[i]
BY AppendProperties

\* What Append does.
LEMMA Appended ==
  ASSUME NEW S, NEW s \in Seq(S), NEW x \in S, NEW t, t = Append(s, x)
  PROVE  /\ t \in Seq(S)
         /\ t[Len(s) + 1] = x /\ Len(s) + 1 \in 1..Len(t)
         /\ \A i \in 1..Len(s) : i \in 1..Len(t) /\ t[i] = s[i]
         /\ \A i \in 1..Len(t) : i \in 1..Len(s) \/ i = Len(s) + 1
         /\ \A i \in 1..Len(s) : i # Len(s) + 1
<1>1. Len(s) \in Nat /\ Len(t) = Len(s) + 1 /\ t \in Seq(S)
  BY AppendProperties, LenProperties
<1>2. t[Len(s) + 1] = x /\ \A i \in 1..Len(s) : t[i] = s[i]
  BY <1>1, AppendProperties
<1>3. /\ Len(s) + 1 \in 1..Len(t)
      /\ \A i \in 1..Len(s) : i \in 1..Len(t) /\ i # Len(s) + 1
      /\ \A i \in 1..Len(t) : i \in 1..Len(s) \/ i = Len(s) + 1
  BY <1>1
<1> QED BY <1>1, <1>2, <1>3

\* The numbers up to the next.
LEMMA OneMore ==
  \A l \in Nat : /\ l + 1 \in 1..l + 1
                 /\ \A i \in 1..l : i \in 1..l + 1
                 /\ \A i \in 1..l + 1 : i \in 1..l \/ i = l + 1
OBVIOUS

LEMMA NothingThere == Len(<<>>) = 0 /\ 1..0 = {}
OBVIOUS

\* A piece from n + 1 to e of something of length l.
LEMMA Segment ==
  ASSUME NEW l \in Nat, NEW n \in 0..l, NEW e \in 1..l, e > n
  PROVE  /\ e \in Nat /\ e \in 0..l
         /\ \A k \in n + 1..e : k \in 1..l
         /\ \A k \in 1..e : k \in 1..n \/ k \in n + 1..e
OBVIOUS

DeviceRecords == [loc : Locations, server : {"IpBridge", "other"}]

\* A piece that ends with e has been read: loc and server are what it says.
LEMMA PieceReadInv ==
  ASSUME SearchInv, stage = "read", NEW e \in Ends(stream), e > done, done' = e,
         NEW loc, NEW server,
         loc # "" => \E k \in done + 1..e : stream[k].loc = loc,
         server # "" => \E k \in done + 1..e : stream[k].server = server,
         \A k \in done + 1..e :
           Clear(k) => loc = stream[k].loc /\ server = stream[k].server,
         stage' = stage, stream' = stream, found' = found, result' = result,
         mute' = mute,
         \/ devices' = devices /\ (loc = "" \/ server = "" \/ Known(devices, loc))
         \/ /\ devices' = Append(devices, [loc |-> loc, server |-> server])
            /\ loc # "" /\ server # "" /\ ~Known(devices, loc)
  PROVE  SearchInv'
<1>1. /\ stream \in Seq(Datagrams) /\ Len(stream) \in Nat
      /\ devices \in Seq(DeviceRecords) /\ Len(devices) \in Nat
      /\ done \in 0..Len(stream) /\ found = <<>> /\ result # "returned"
  BY LenProperties DEF SearchInv, DiscoveryTypeOK, StagesInv, DeviceRecords
<1>2. e \in 1..Len(stream) /\ stream[e].ended
  BY DEF Ends
<1>3. /\ e \in Nat /\ e \in 0..Len(stream)
      /\ \A k \in done + 1..e : k \in 1..Len(stream)
      /\ \A k \in 1..e : k \in 1..done \/ k \in done + 1..e
  BY <1>1, <1>2, Segment
<1>4. \A k \in done + 1..e : stream[k] \in Datagrams
  BY <1>1, <1>3, ElementOfSeq
<1>6. \A n \in 1..Len(devices) : Announced(n)
  BY DEF SearchInv, DevicesInv
<1>7. \A m, n \in 1..Len(devices) : devices[m].loc = devices[n].loc => m = n
  BY DEF SearchInv, DevicesInv
\* the devices
<1>8. /\ DevicesInv' /\ devices' \in Seq(DeviceRecords)
      /\ \A l : Known(devices, l) => Known(devices', l)
      /\ loc # "" /\ server # "" => Known(devices', loc)
  <2>1. CASE devices' = devices /\ (loc = "" \/ server = "" \/ Known(devices, loc))
    <3>1. \A n \in 1..Len(devices') : Announced(n)'
      BY <1>6, <2>1 DEF Announced, Clear
    <3>2. DevicesInv'
      BY <1>7, <2>1, <3>1 DEF DevicesInv
    <3> QED BY <1>1, <2>1, <3>2
  <2>2. CASE /\ devices' = Append(devices, [loc |-> loc, server |-> server])
             /\ loc # "" /\ server # "" /\ ~Known(devices, loc)
    <3> DEFINE new == [loc |-> loc, server |-> server]
               L == Len(devices) + 1
    <3>1. PICK k \in done + 1..e : stream[k].loc = loc
      BY <2>2
    <3>2. PICK j \in done + 1..e : stream[j].server = server
      BY <2>2
    <3>3. loc \in Locations /\ server \in {"IpBridge", "other"}
      BY <1>4, <2>2, <3>1, <3>2 DEF Datagrams
    <3>4. new \in DeviceRecords
      BY <3>3 DEF DeviceRecords
    <3> HIDE DEF L
    <3>5. devices' = Append(devices, new)
      BY <2>2
    <3>6. new.loc = loc /\ new.server = server
      OBVIOUS
    <3> HIDE DEF new
    <3>7. /\ devices' \in Seq(DeviceRecords)
          /\ devices'[L] = new /\ L \in 1..Len(devices')
          /\ \A i \in 1..Len(devices) : i \in 1..Len(devices') /\ devices'[i] = devices[i]
          /\ \A i \in 1..Len(devices') : i \in 1..Len(devices) \/ i = L
      <4>1. devices \in Seq(DeviceRecords) /\ Len(devices) \in Nat
        BY <1>1
      <4>2. devices' \in Seq(DeviceRecords) /\ Len(devices') = Len(devices) + 1
        BY <3>4, <3>5, <4>1, AppendProperties
      <4>3. devices'[L] = new
        BY <3>4, <3>5, <4>1, AppendProperties DEF L
      <4>4. \A i \in 1..Len(devices) : devices'[i] = devices[i]
        <5>1. \A i \in 1..Len(devices) : Append(devices, new)[i] = devices[i]
          BY <3>4, <4>1, AppendKeeps
        <5> QED BY <3>5, <5>1, Zenon
      <4>5. L = Len(devices) + 1
        BY DEF L
      <4>6. /\ L \in 1..Len(devices')
            /\ \A i \in 1..Len(devices) : i \in 1..Len(devices')
            /\ \A i \in 1..Len(devices') : i \in 1..Len(devices) \/ i = L
        BY <4>1, <4>2, <4>5, OneMore, Zenon
      <4> QED BY <4>2, <4>3, <4>4, <4>6
    <3>8. Clear(k) => stream[k].server = server
      OBVIOUS
    <3>9. ASSUME NEW n \in 1..Len(devices') PROVE Announced(n)'
      <4>1. CASE n \in 1..Len(devices)
        <5>1. Announced(n) /\ devices'[n] = devices[n]
          BY <1>6, <3>7, <4>1
        <5> QED BY <5>1 DEF Announced, Clear
      <4>2. CASE n = L
        <5>1. devices'[n].loc = loc /\ devices'[n].server = server
          BY <3>6, <3>7, <4>2
        <5>2. k \in 1..Len(stream)
          BY <1>3
        <5> QED BY <3>1, <3>8, <5>1, <5>2 DEF Announced, Clear
      <4> QED BY <3>7, <4>1, <4>2
    <3>10. \A n \in 1..Len(devices) : devices[n].loc # loc
      BY <2>2 DEF Known
    <3>11. ASSUME NEW m \in 1..Len(devices'), NEW n \in 1..Len(devices'),
                  devices'[m].loc = devices'[n].loc
           PROVE  m = n
      BY <1>7, <3>6, <3>7, <3>10, <3>11
    <3>12. DevicesInv'
      BY <3>9, <3>11 DEF DevicesInv
    <3>13. Known(devices', loc)
      BY <3>6, <3>7 DEF Known
    <3>14. ASSUME NEW l, Known(devices, l) PROVE Known(devices', l)
      BY <3>7, <3>14 DEF Known
    <3> QED BY <3>7, <3>12, <3>13, <3>14
  <2> QED BY <2>1, <2>2
<1>9. DiscoveryTypeOK'
  BY <1>3, <1>8 DEF SearchInv, DiscoveryTypeOK, DeviceRecords
<1>10. ASSUME NEW i \in 1..e, Heeded(i) PROVE Known(devices', stream[i].loc)
  <2>1. CASE i \in 1..done
    <3>1. Known(devices, stream[i].loc)
      BY <1>10, <2>1 DEF SearchInv, StagesInv
    <3> QED BY <1>8, <3>1
  <2>2. CASE i \in done + 1..e
    BY <1>8, <1>10, <2>2 DEF Heeded
  <2> QED BY <1>3, <2>1, <2>2
<1>11. StagesInv'
  <2>2. \A i : Heeded(i)' <=> Heeded(i)
    BY DEF Heeded, Clear
  <2>3. \A l : Known(devices, l)' <=> Known(devices', l)
    BY DEF Known
  <2> QED BY <1>1, <1>2, <1>3, <1>10, <2>2, <2>3 DEF StagesInv
<1>12. FoundInv'
  BY <1>1, NothingThere DEF FoundInv
<1> QED BY <1>8, <1>9, <1>11, <1>12 DEF SearchInv

LEMMA ReadPieceInv == SearchInv /\ ReadPiece => SearchInv'
<1> SUFFICES ASSUME SearchInv, ReadPiece PROVE SearchInv'
  OBVIOUS
<1>1. PICK e : e = NextEnd(stream, done)
  OBVIOUS
<1>2. PICK piece : piece = SubSeq(stream, done + 1, e)
  OBVIOUS
<1>3. PICK loc : loc = LocationOf(piece)
  OBVIOUS
<1>4. PICK server : server = ServerOf(piece)
  OBVIOUS
<1>5. /\ stage = "read" /\ stage' = stage /\ stream' = stream /\ found' = found
      /\ result' = result /\ mute' = mute
      /\ devices' = IF loc = "" \/ server = "" \/ Known(devices, loc)
                      THEN devices
                      ELSE Append(devices, [loc |-> loc, server |-> server])
      /\ done' = e /\ \E i \in Ends(stream) : i > done
  BY <1>1, <1>2, <1>3, <1>4 DEF ReadPiece
<1>6. /\ stream \in Seq(Datagrams) /\ Len(stream) \in Nat /\ done \in Nat
  BY <1>5, LenProperties DEF SearchInv, DiscoveryTypeOK, StagesInv
<1>7. /\ e \in Ends(stream) /\ e > done
      /\ \A j \in Ends(stream) : j > done => e <= j
  BY <1>1, <1>5, <1>6, NextEndIs
<1>8. e \in Nat /\ e <= Len(stream)
  BY <1>6, <1>7 DEF Ends
<1>9. /\ loc # "" => \E k \in done + 1..e : stream[k].loc = loc
      /\ server # "" => \E k \in done + 1..e : stream[k].server = server
      /\ \A k \in done + 1..e :
           ClearIn(stream, k) =>
             loc = stream[k].loc /\ server = stream[k].server
  <2>1. EndOfPiece(stream, done, e)
    BY <1>7 DEF EndOfPiece
  <2>2. done < e
    BY <1>6, <1>7, <1>8
  <2>3. stream \in Seq(Datagrams) /\ done \in Nat /\ e \in Nat /\ e <= Len(stream)
    BY <1>6, <1>8
  <2>4. ReadOf(stream, done, e, LocationOf(piece), ServerOf(piece))
    BY <1>2, <2>2, <2>3, PieceIs, ZenonT(30)
  <2>5. ReadClear(stream, done, e, LocationOf(piece), ServerOf(piece))
    BY <1>2, <2>1, <2>2, <2>3, ClearPieceIs, ZenonT(30)
  <2> QED BY <1>3, <1>4, <2>4, <2>5 DEF ReadOf, ReadClear
<1>10. \A k \in done + 1..e :
         Clear(k) => loc = stream[k].loc /\ server = stream[k].server
  BY <1>9 DEF Clear, ClearIn
<1> QED BY <1>5, <1>7, <1>9, <1>10, PieceReadInv

\* All the pieces have been read.
LEMMA AllReadInv == SearchInv /\ AllRead => SearchInv'
<1> SUFFICES ASSUME SearchInv, AllRead PROVE SearchInv'
  OBVIOUS
<1>1. /\ stage = "read" /\ stage' = "visit" /\ done' = 0 /\ stream' = stream
      /\ devices' = devices /\ found' = found /\ result' = result /\ mute' = mute
      /\ \A i \in Ends(stream) : i <= done
  BY DEF AllRead
<1>2. /\ Len(stream) \in Nat /\ Len(devices) \in Nat
      /\ done \in 0..Len(stream) /\ found = <<>> /\ result # "returned"
  BY <1>1, LenProperties DEF SearchInv, DiscoveryTypeOK, StagesInv
<1>3. DiscoveryTypeOK'
  BY <1>1 DEF SearchInv, DiscoveryTypeOK
<1>4. DevicesInv'
  BY <1>1 DEF SearchInv, DevicesInv, Announced, Clear
<1>5. ASSUME NEW i \in 1..Len(stream), Heeded(i) PROVE Known(devices, stream[i].loc)
  <2>1. i \in Ends(stream)
    BY <1>5 DEF Heeded, Clear, Ends
  <2>2. i \in 1..done
    BY <1>1, <1>2, <2>1
  <2> QED BY <1>1, <1>5, <2>2 DEF SearchInv, StagesInv
<1>6. StagesInv'
  <2>1. \A i : Heeded(i)' <=> Heeded(i)
    BY <1>1 DEF Heeded, Clear
  <2>2. \A l : Known(devices, l)' <=> Known(devices, l)
    BY <1>1 DEF Known
  <2> QED BY <1>1, <1>2, <1>5, <2>1, <2>2 DEF StagesInv
<1>7. FoundInv'
  <2>1. Len(<<>>) = 0 /\ 1..0 = {}
    OBVIOUS
  <2> QED BY <1>1, <1>2, <2>1 DEF FoundInv
<1> QED BY <1>3, <1>4, <1>6, <1>7 DEF SearchInv

\* A step of findBridges to the next device, d.
LEMMA VisitInv ==
  ASSUME SearchInv, Look, NEW d, d = done + 1, Visited(d)',
         stage' = "visit", result' = result, stream' = stream,
         devices' = devices, mute \subseteq mute', mute' \subseteq Locations,
         \/ found' = found
         \/ found' = Append(found, devices[d].loc) /\ devices[d].loc \in Bridges
  PROVE  SearchInv'
<1>1. /\ stage = "visit" /\ done \in 0..Len(devices) /\ done' = d
      /\ done < Len(devices) /\ Len(devices) \in Nat
      /\ found \in Seq(Bridges) /\ result # "returned"
  BY LenProperties DEF Look, SearchInv, StagesInv, DiscoveryTypeOK
<1>2. /\ d \in 1..Len(devices) /\ d \in 0..Len(devices) /\ d \in Nat
      /\ \A n \in 1..done : n \in 1..d /\ n # d
      /\ \A n \in 1..d : n \in 1..done \/ n = d
      /\ \A n \in 1..d : n \in 1..Len(devices) /\ n <= d
      /\ \A n \in 1..Len(devices) : n <= done => n \in 1..done
      /\ d \in 1..d
  BY <1>1
<1>3. /\ found' \in Seq(Bridges)
      /\ \A m \in 1..Len(found) : m \in 1..Len(found') /\ found'[m] = found[m]
      /\ \A m \in 1..Len(found') : \/ m \in 1..Len(found)
                                   \/ m = Len(found) + 1 /\ found'[m] = devices[d].loc
  <2>1. CASE found' = found
    BY <1>1, <2>1
  <2>2. CASE found' = Append(found, devices[d].loc) /\ devices[d].loc \in Bridges
    BY <1>1, <2>2, Appended
  <2> QED BY <2>1, <2>2
<1>4. DiscoveryTypeOK'
  BY <1>1, <1>2, <1>3 DEF SearchInv, DiscoveryTypeOK
<1>5. DevicesInv'
  BY <1>1 DEF SearchInv, DevicesInv, Announced, Clear
<1>6. StagesInv'
  <2>1. \A i : Heeded(i)' <=> Heeded(i)
    BY DEF Heeded, Clear
  <2>2. \A l : Known(devices, l)' <=> Known(devices, l)
    BY DEF Known
  <2> QED BY <1>1, <1>2, <2>1, <2>2 DEF SearchInv, StagesInv
<1>7. \A m \in 1..Len(found) : \E n \in 1..done : devices[n].loc = found[m]
  BY <1>1, <1>2 DEF SearchInv, FoundInv
<1>8. \A m \in 1..Len(found') : \E n \in 1..d : devices[n].loc = found'[m]
  BY <1>2, <1>3, <1>7
<1>9. \A m \in 1..Len(found) : found[m] # devices[d].loc
  BY <1>2, <1>7 DEF SearchInv, DevicesInv
<1>10. ASSUME NEW m \in 1..Len(found'), NEW n \in 1..Len(found'), found'[m] = found'[n]
       PROVE  m = n
  BY <1>3, <1>9, <1>10 DEF SearchInv, FoundInv
<1>11. ASSUME NEW n \in 1..d PROVE Visited(n)'
  <2>1. CASE n = d
    BY <2>1
  <2>2. CASE n \in 1..done
    <3>1. Visited(n)
      BY <1>1, <2>2 DEF SearchInv, FoundInv
    <3> QED BY <1>3, <3>1 DEF Visited
  <2> QED BY <1>2, <2>1, <2>2
<1>12. FoundInv'
  BY <1>1, <1>2, <1>8, <1>10, <1>11 DEF FoundInv
<1> QED BY <1>4, <1>5, <1>6, <1>12 DEF SearchInv

LEMMA PassByInv == SearchInv /\ PassBy => SearchInv'
<1> SUFFICES ASSUME SearchInv, PassBy PROVE SearchInv'
  OBVIOUS
<1>1. PICK d : d = done + 1
  OBVIOUS
<1>2. /\ Look /\ stage' = "visit" /\ result' = result /\ stream' = stream
      /\ devices' = devices /\ mute' = mute /\ found' = found
      /\ devices[d].server # "IpBridge"
  BY <1>1 DEF PassBy, Look, Device
<1>3. Visited(d)'
  BY <1>2 DEF Visited
<1>4. mute' \subseteq Locations
  BY <1>2 DEF SearchInv, DiscoveryTypeOK
<1> QED BY <1>1, <1>2, <1>3, <1>4, VisitInv

LEMMA VisitBridgeInv == SearchInv /\ Visit => SearchInv'
<1> SUFFICES ASSUME SearchInv, Visit PROVE SearchInv'
  OBVIOUS
<1>1. PICK d : d = done + 1
  OBVIOUS
<1>2. /\ Look /\ stage = "visit" /\ stage' = "visit" /\ result' = result
      /\ stream' = stream /\ devices' = devices /\ done < Len(devices)
  BY DEF Visit, Look
<1>3. /\ devices \in Seq(DeviceRecords) /\ Len(devices) \in Nat /\ done \in Nat
      /\ found \in Seq(Bridges) /\ mute \subseteq Locations
  BY LenProperties DEF SearchInv, DiscoveryTypeOK, DeviceRecords
<1>4. d \in 1..Len(devices)
  BY <1>1, <1>2, <1>3
<1>5. devices[d].loc \in Locations
  <2>1. devices[d] \in DeviceRecords
    BY <1>3, <1>4, ElementOfSeq
  <2> QED BY <2>1 DEF DeviceRecords
<1>6. CASE mute' = mute /\ found' = IF devices[d].loc \in Bridges
                                      THEN Append(found, devices[d].loc) ELSE found
  <2>1. devices[d].loc \in Bridges =>
          \E m \in 1..Len(found') : found'[m] = devices[d].loc
    BY <1>3, <1>6, Appended
  <2>2. Visited(d)'
    BY <1>2, <1>6, <2>1 DEF Visited
  <2> QED BY <1>1, <1>2, <1>3, <1>6, <2>2, VisitInv
<1>7. CASE mute' = mute \cup {devices[d].loc} /\ found' = found
  <2>1. Visited(d)'
    BY <1>2, <1>7 DEF Visited
  <2>2. mute \subseteq mute' /\ mute' \subseteq Locations
    BY <1>3, <1>5, <1>7
  <2> QED BY <1>1, <1>2, <1>7, <2>1, <2>2, VisitInv
<1> QED BY <1>1, <1>6, <1>7 DEF Visit, Device

\* The search ends, in one way or another.
LEMMA SearchEndsInv ==
  ASSUME SearchInv, stage # "idle", stage' = "idle",
         stream' = stream, devices' = devices, found' = found, mute' = mute,
         done' \in Nat,
         \/ result' = "system_error"
         \/ result' = "returned" /\ stage = "visit" /\ done = Len(devices)
  PROVE  SearchInv'
<1>1. DiscoveryTypeOK'
  BY DEF SearchInv, DiscoveryTypeOK
<1>2. DevicesInv'
  BY DEF SearchInv, DevicesInv, Announced, Clear
<1>3. StagesInv'
  BY DEF SearchInv, StagesInv, Heeded, Clear, Known
<1>4. FoundInv'
  BY DEF SearchInv, FoundInv, Visited
<1> QED BY <1>1, <1>2, <1>3, <1>4 DEF SearchInv

LEMMA SearchStepInv == SearchInv /\ [DiscoveryNext]_discoveryVars => SearchInv'
<1> SUFFICES ASSUME SearchInv, [DiscoveryNext]_discoveryVars PROVE SearchInv'
  OBVIOUS
<1>0. done \in Nat /\ done + 1 \in Nat
  BY DEF SearchInv, DiscoveryTypeOK
<1>1. CASE SearchFails
  BY <1>0, <1>1, SearchEndsInv DEF SearchFails
<1>2. CASE VisitFails
  BY <1>0, <1>2, SearchEndsInv DEF VisitFails, Look
<1>3. CASE Finish
  BY <1>0, <1>3, SearchEndsInv DEF Finish
<1>4. CASE UNCHANGED discoveryVars
  <2>1. /\ stage' = stage /\ stream' = stream /\ done' = done
        /\ devices' = devices /\ found' = found /\ result' = result /\ mute' = mute
    BY <1>4 DEF discoveryVars
  <2>2. DiscoveryTypeOK'
    BY <2>1 DEF SearchInv, DiscoveryTypeOK
  <2>3. DevicesInv'
    BY <2>1 DEF SearchInv, DevicesInv, Announced, Clear
  <2>4. StagesInv'
    BY <2>1 DEF SearchInv, StagesInv, Heeded, Clear, Known
  <2>5. FoundInv'
    BY <2>1 DEF SearchInv, FoundInv, Visited
  <2> QED BY <2>2, <2>3, <2>4, <2>5 DEF SearchInv
<1>5. CASE Progress
  BY <1>3, <1>5, TimeIsUpInv, ReadPieceInv, AllReadInv, PassByInv, VisitBridgeInv
     DEF Progress
<1> QED BY <1>1, <1>2, <1>4, <1>5, SearchBeginInv, HearInv DEF DiscoveryNext

\* What the search has found is what it should.
LEMMA SearchInvImplies == SearchInv => BridgesFound
<1> SUFFICES ASSUME SearchInv PROVE BridgesFound
  OBVIOUS
<1>1. ASSUME NEW i \in 1..Len(found)
      PROVE  \E k \in 1..Len(stream) : stream[k].loc = found[i]
  <2>1. PICK n \in 1..Len(devices) : devices[n].loc = found[i]
    BY DEF SearchInv, FoundInv
  <2> QED BY <2>1 DEF SearchInv, DevicesInv, Announced
<1>2. ASSUME result = "returned", NEW i \in 1..Len(stream),
             stream[i].loc \in Bridges \ mute, stream[i].server = "IpBridge",
             Clear(i),
             \A k \in 1..Len(stream) : stream[k].loc = stream[i].loc =>
               Clear(k) /\ stream[k].server # "other"
      PROVE  \E m \in 1..Len(found) : found[m] = stream[i].loc
  <2>1. Known(devices, stream[i].loc)
    BY <1>2, DiscoveryAssumption DEF SearchInv, StagesInv, Heeded
  <2>2. PICK n \in 1..Len(devices) : devices[n].loc = stream[i].loc
    BY <2>1 DEF Known
  <2>3. PICK k \in 1..Len(stream) :
          stream[k].loc = devices[n].loc /\ (Clear(k) => stream[k].server = devices[n].server)
    BY DEF SearchInv, DevicesInv, Announced
  <2>4. devices[n].server \in {"IpBridge", "other"}
    <3>1. devices \in Seq(DeviceRecords)
      BY DEF SearchInv, DiscoveryTypeOK, DeviceRecords
    <3>2. devices[n] \in DeviceRecords
      BY <3>1
    <3> QED BY <3>2 DEF DeviceRecords
  <2>5. devices[n].server = "IpBridge"
    BY <1>2, <2>2, <2>3, <2>4
  <2>6. Visited(n)
    BY <1>2 DEF SearchInv, FoundInv
  <2> QED BY <1>2, <2>2, <2>5, <2>6 DEF Visited
<1>3. \A i, j \in 1..Len(found) : found[i] = found[j] => i = j
  BY DEF SearchInv, FoundInv
<1> QED BY <1>1, <1>2, <1>3 DEF BridgesFound

\* The types of a search, and that bridges are all it finds.
THEOREM DiscoveryTypes == DiscoverySpec => []DiscoveryTypeOK
<1>1. SearchInv => DiscoveryTypeOK
  BY DEF SearchInv
<1> QED BY SearchInitInv, SearchStepInv, <1>1, PTL DEF DiscoverySpec

\* For any devices and any number of answers, repeated, cut off or glued
\* together: a bridge that answers clearly is found, once, and nothing is found
\* that has not announced itself.
THEOREM BridgesAreFound == DiscoverySpec => []BridgesFound
<1> QED BY SearchInitInv, SearchStepInv, SearchInvImplies, PTL DEF DiscoverySpec

----------------------------------------------------------------------------
(* Typed devices.                                                          *)

\* What is sent to "/state" is read there and nowhere else, and only the
\* generic class has no type.
ClassIsSound(c) == /\ c.sets \subseteq c.reads
                   /\ c.sets \cap c.configures = {}
                   /\ c.type = "" => c = AnySensor

LEMMA ClassesAreSound == \A c \in Classes : ClassIsSound(c)
<1> USE DEF ClassIsSound, Class
<1>1. ClassIsSound(AnySensor) /\ ClassIsSound(DaylightSensor)
  BY DEF AnySensor, DaylightSensor
<1>2. ClassIsSound(ZGPSwitch) /\ ClassIsSound(ZLLSwitch)
  BY DEF ZGPSwitch, ZLLSwitch
<1>3. ClassIsSound(ZLLPresence) /\ ClassIsSound(ZLLTemperature)
      /\ ClassIsSound(ZLLLightLevel)
  BY DEF ZLLPresence, ZLLTemperature, ZLLLightLevel
<1> USE DEF CLIP, BaseCLIPGetters, CLIPLightStates
<1>4. ClassIsSound(CLIPSwitch) /\ ClassIsSound(CLIPOpenClose)
      /\ ClassIsSound(CLIPPresence) /\ ClassIsSound(CLIPTemperature)
  BY DEF CLIPSwitch, CLIPOpenClose, CLIPPresence, CLIPTemperature
<1>5. ClassIsSound(CLIPHumidity) /\ ClassIsSound(CLIPLightLevel)
      /\ ClassIsSound(CLIPGenericFlag) /\ ClassIsSound(CLIPGenericStatus)
  BY DEF CLIPHumidity, CLIPLightLevel, CLIPGenericFlag, CLIPGenericStatus
<1> QED
  <2> HIDE DEF ClassIsSound, Class, CLIP, BaseCLIPGetters, CLIPLightStates
  <2> QED BY <1>1, <1>2, <1>3, <1>4, <1>5 DEF Classes

\* A getter of a class answers from the data of a sensor of its type, unless
\* that lacks the attribute.
LEMMA GettersAnswer ==
  ASSUME NEW c \in Classes, NEW r, r.name = c.type, NEW a \in c.reads
  PROVE  Answer(c, r, a) = "value" \/ a \in r.lacks
<1>1. c \in {k \in Classes : k.type = r.name}
  OBVIOUS
<1>2. a \in c.reads \cup c.defaults
  OBVIOUS
<1>3. a \in UNION {k.reads \cup k.defaults : k \in {k \in Classes : k.type = r.name}}
  BY <1>1, <1>2, Zenon
<1>4. a \in Attributes(r) \/ a \in r.lacks
  BY <1>3, Zenon DEF Attributes
<1> QED BY <1>4 DEF Answer

\* A light is what its strategies say.
LightIsSound(r, light) ==
  /\ light.colour = "none" <=> light.colorType \in {"NONE", "TEMPERATURE"}
  /\ light.colorType = "TEMPERATURE" => light.temperature = "simple"
  /\ light.brightness # "none" => r.name \in Dimmable
  /\ light.temperature # "none" => r.name \in Tempered
  /\ light.colour # "none" => r.name \in Coloured

LEMMA StrategiesAreSound ==
  ASSUME NEW r, Strategies(r) # NoLight
  PROVE  LightIsSound(r, Strategies(r))
<1>1. PICK type : type = ColorType(r)
  OBVIOUS
<1>2. type \notin {"NONE", "TEMPERATURE"}
  BY <1>1 DEF ColorType
<1>3. PICK name : name = r.name
  OBVIOUS
<1>4. CASE name \in {"on/off light", "on/off plug-in unit"}
  <2>1. Strategies(r) = Light("none", "none", "none", "NONE")
    BY <1>3, <1>4 DEF Strategies
  <2> QED BY <2>1 DEF LightIsSound, Light
<1>5. CASE name \in {"dimmable light", "dimmable plug-in unit"}
  <2>1. Strategies(r) = Light("simple", "none", "none", "NONE")
    BY <1>3, <1>5 DEF Strategies
  <2>2. r.name \in Dimmable
    BY <1>3, <1>5 DEF Dimmable, Tempered, Coloured
  <2>3. PICK l : l = Strategies(r)
    OBVIOUS
  <2>4. l.brightness = "simple" /\ l.temperature = "none"
    BY <2>1, <2>3 DEF Light
  <2>5. l.colour = "none" /\ l.colorType = "NONE"
    BY <2>1, <2>3 DEF Light
  <2> QED BY <2>2, <2>3, <2>4, <2>5 DEF LightIsSound
<1>6. CASE name = "color temperature light"
  <2>1. Strategies(r) = Light("simple", "simple", "none", "TEMPERATURE")
    BY <1>3, <1>6 DEF Strategies
  <2>2. r.name \in Dimmable /\ r.name \in Tempered
    BY <1>3, <1>6 DEF Dimmable, Tempered, Coloured
  <2>3. PICK l : l = Strategies(r)
    OBVIOUS
  <2>4. l.brightness = "simple" /\ l.temperature = "simple"
    BY <2>1, <2>3 DEF Light
  <2>5. l.colour = "none" /\ l.colorType = "TEMPERATURE"
    BY <2>1, <2>3 DEF Light
  <2> QED BY <2>2, <2>3, <2>4, <2>5 DEF LightIsSound
<1>7. CASE name = "color light"
  <2>1. Strategies(r) = Light("simple", "none", "simple", type)
    BY <1>1, <1>3, <1>7 DEF Strategies, Light
  <2>2. r.name \in Dimmable /\ r.name \in Coloured
    BY <1>3, <1>7 DEF Dimmable, Tempered, Coloured
  <2>3. PICK l : l = Strategies(r)
    OBVIOUS
  <2>4. l.brightness = "simple" /\ l.temperature = "none"
    BY <2>1, <2>3 DEF Light
  <2>5. l.colour = "simple" /\ l.colorType = type
    BY <2>1, <2>3 DEF Light
  <2> QED BY <1>2, <2>2, <2>3, <2>4, <2>5 DEF LightIsSound
<1>8. CASE name = "extended color light"
  <2>1. Strategies(r) = Light("simple", "extended", "extended", type)
    BY <1>1, <1>3, <1>8 DEF Strategies, Light
  <2>2. r.name \in Dimmable /\ r.name \in Tempered /\ r.name \in Coloured
    BY <1>3, <1>8 DEF Dimmable, Tempered, Coloured
  <2>3. PICK l : l = Strategies(r)
    OBVIOUS
  <2>4. l.brightness = "simple" /\ l.temperature = "extended"
    BY <2>1, <2>3 DEF Light
  <2>5. l.colour = "extended" /\ l.colorType = type
    BY <2>1, <2>3 DEF Light
  <2> QED BY <1>2, <2>2, <2>3, <2>4, <2>5 DEF LightIsSound
<1>9. name \in {"on/off light", "on/off plug-in unit", "dimmable light",
                "dimmable plug-in unit", "color temperature light",
                "color light", "extended color light"}
  BY <1>3 DEF Strategies
<1> QED BY <1>4, <1>5, <1>6, <1>7, <1>8, <1>9

\* A light is controlled in the ways that lights of its type can be.
LEMMA ControlsAreSound ==
  ASSUME NEW r, NEW light, LightIsSound(r, light), NEW f, HasControl(light, f)
  PROVE  r.name \in CanDo[Control(f)]
<1>1. Control(f) \in {"brightness", "temperature", "colour"}
  BY DEF Control
<1>2. light[Control(f)] # "none"
  BY DEF HasControl
<1>3. /\ CanDo["brightness"] = Dimmable
      /\ CanDo["temperature"] = Tempered
      /\ CanDo["colour"] = Coloured
  BY DEF CanDo
<1> QED BY <1>1, <1>2, <1>3 DEF LightIsSound

\* What is distinct.
LEMMA NothingIsDistinct == Absent # Null /\ Absent # AllLights /\ Null # AllLights
BY DEF Absent, Null, AllLights, Resource

----------------------------------------------------------------------------
\* The lists: group 0 is in none.
ListsInv ==
  /\ kind \in Kinds
  /\ bridge \in [Ids -> Contents[kind] \cup {Absent}]
  /\ listed \in [Ids -> Contents[kind] \cup {Absent}]
  /\ 0 \in Ids => bridge[0] = Absent /\ listed[0] = Absent
  /\ class \in Asked \cup {AnySensor}
  /\ changes \in 0..MaxChanges

\* An object of class c is what it was made of.
Fitting(i, o, c) ==
  /\ o = [made |-> o.made, data |-> o.data, light |-> o.light]
  /\ o # None
  /\ kind = "sensors" => c.type \in {"", o.made.name}
  /\ kind = "lights" => LightIsSound(o.made, o.light)
  /\ o.data = Null => kind = "groups" /\ i = 0

HeldInv == /\ held = [i \in Ids |-> held[i]]
           /\ \A i \in Ids : held[i] # None => Fitting(i, held[i], class)

\* What getAllByType has still to do and what it has done are the sensors of
\* the type in its copy.
ByTypeInv ==
  /\ kind = "sensors" /\ class # AnySensor
  /\ copy \in [Ids -> Contents[kind] \cup {Absent}]
  /\ 0 \in Ids => copy[0] = Absent
  /\ \A i \in Ids : copy[i].name = class.type <=> i \in call.todo \/ held[i] # None

\* The call that runs.
CallsInv ==
  /\ call = [op |-> call.op, todo |-> call.todo]
  /\ call.todo \subseteq Ids
  /\ call.op \in {"none", "getAll", "getAllByType"}
  /\ call.op = "none" => call.todo = {}
  /\ call.op # "none" => /\ request = NoRequest /\ said.answer = "begun"
                         /\ said.call = call.op
  /\ call.op = "getAllByType" => ByTypeInv

\* The call that was the last.
SaidInv ==
  /\ said.call = "read" /\ said.answer = "type_error" =>
       0 \in Ids /\ held[0].data = Null
  /\ said.call = "getAllByType" /\ said.answer = "returned" =>
       \A i \in Ids : held[i] # None <=> copy[i].name = class.type
  /\ said.call = "getAllByType" /\ said.answer \in {"no such id", "wrong type"} =>
       said.on = "changed"

DeviceInv == ListsInv /\ HeldInv /\ CallsInv /\ SaidInv /\ SettersTell

LEMMA DeviceInvTypes == DeviceInv => DeviceTypeOK
BY DEF DeviceInv, ListsInv, CallsInv, DeviceTypeOK

\* The class that was asked for is one of the library's.
LEMMA ClassIsOne == DeviceInv => class \in Classes
<1>1. AnySensor \in Classes
  BY DEF Classes
<1> QED BY <1>1, AskedAssumption DEF DeviceInv, ListsInv

LEMMA DeviceInvFits == DeviceInv => ObjectsFit
<1> SUFFICES ASSUME DeviceInv PROVE ObjectsFit
  OBVIOUS
<1>1. ASSUME NEW i \in Ids, held[i] # None, kind = "sensors", class # AnySensor
      PROVE  /\ held[i].made.name = class.type
             /\ held[i].data.name = class.type =>
                  \A a \in class.reads : Answer(class, held[i].data, a) = "value"
                                           \/ a \in held[i].data.lacks
  <2>1. class \in Classes /\ class.type # ""
    BY <1>1, ClassIsOne, ClassesAreSound DEF ClassIsSound
  <2>2. held[i].made.name = class.type
    BY <1>1, <2>1 DEF DeviceInv, HeldInv, Fitting
  <2>3. ASSUME held[i].data.name = class.type, NEW a \in class.reads
        PROVE  Answer(class, held[i].data, a) = "value" \/ a \in held[i].data.lacks
    BY <2>1, <2>3, GettersAnswer
  <2> QED BY <2>2, <2>3
<1>2. ASSUME NEW i \in Ids, held[i] # None, kind = "lights"
      PROVE  LightIsSound(held[i].made, held[i].light)
  BY <1>2 DEF DeviceInv, HeldInv, Fitting
<1>3. ASSUME NEW i \in Ids, held[i] # None, held[i].data = Null
      PROVE  kind = "groups" /\ i = 0
  BY <1>3 DEF DeviceInv, HeldInv, Fitting
<1>4. \A i \in Ids : held[i] # None =>
       LET o == held[i] IN
       /\ kind = "sensors" /\ class # AnySensor =>
            /\ o.made.name = class.type
            /\ o.data.name = class.type =>
                 \A a \in class.reads : Answer(class, o.data, a) = "value"
                                          \/ a \in o.data.lacks
       /\ kind = "lights" =>
            /\ o.light.colour = "none" <=> o.light.colorType \in {"NONE", "TEMPERATURE"}
            /\ o.light.colorType = "TEMPERATURE" => o.light.temperature = "simple"
       /\ o.data = Null => kind = "groups" /\ i = 0
  BY <1>1, <1>2, <1>3 DEF LightIsSound
<1> QED BY <1>4 DEF ObjectsFit, DeviceInv, SaidInv

LEMMA NoChanges == 0 \in 0..MaxChanges
BY ListsAssumption

LEMMA DeviceInitInv == DeviceInit => DeviceInv
<1> SUFFICES ASSUME DeviceInit PROVE DeviceInv
  OBVIOUS
<1> USE DEF DeviceInit
<1>1. ListsInv
  <2>1. NoResources \in [Ids -> Contents[kind] \cup {Absent}]
    BY DEF NoResources
  <2>2. 0 \in Ids => NoResources[0] = Absent
    BY DEF NoResources
  <2>3. changes \in 0..MaxChanges
    BY NoChanges
  <2> QED BY <2>1, <2>2, <2>3 DEF ListsInv
<1>2. HeldInv
  BY DEF HeldInv, NoObjects
<1>3. CallsInv
  BY DEF CallsInv, Idle
<1>4. SaidInv /\ SettersTell
  BY DEF SaidInv, SettersTell, NoRequest
<1> QED BY <1>1, <1>2, <1>3, <1>4 DEF DeviceInv

----------------------------------------------------------------------------
\* An object that is made fits.
LEMMA ConstructedFits ==
  ASSUME ListsInv, NEW i \in Ids, NEW c, NEW r,
         r = Null => kind = "groups" /\ i = 0,
         NEW d \in Seeded(i, r), Refusal(i, r, d, c) = "returned"
  PROVE  Fitting(i, Constructed(i, r, d, c), c)
<1>1. r # Absent /\ Fits(c, IF kind = "sensors" THEN d ELSE r)
  BY DEF Refusal
<1>2. d = r \/ (d = Served(i) /\ d # Absent)
  BY DEF Seeded
<1>3. Served(i) # Null
  <2>1. bridge[i] # Null
    BY ListsAssumption, NothingIsDistinct DEF ListsInv
  <2> QED BY <2>1, NothingIsDistinct DEF Served
<1>4. PICK o : o = Constructed(i, r, d, c)
  OBVIOUS
<1>5. /\ o = [made |-> o.made, data |-> o.data, light |-> o.light]
      /\ o.made = (IF kind = "sensors" THEN d ELSE r) /\ o.data = d
      /\ kind = "lights" => o.light = Strategies(r)
  BY <1>4 DEF Constructed
<1>6. o.made # Absent
  BY <1>1, <1>2, <1>5
<1>7. o # None
  BY <1>6 DEF None
<1>8. kind = "sensors" => c.type \in {"", o.made.name}
  BY <1>1, <1>5 DEF Fits
<1>9. ASSUME kind = "lights" PROVE LightIsSound(o.made, o.light)
  <2>1. Strategies(r) # NoLight
    BY <1>1, <1>9 DEF Fits
  <2> QED BY <1>5, <1>9, <2>1, StrategiesAreSound
<1>10. o.data = Null => kind = "groups" /\ i = 0
  BY <1>2, <1>3, <1>5
<1> QED BY <1>4, <1>5, <1>7, <1>8, <1>9, <1>10 DEF Fitting

\* The value of the list after it was read.
LEMMA ListValueIs ==
  ASSUME ListsInv, ListValue \/ listed' = listed
  PROVE  /\ listed' \in [Ids -> Contents[kind] \cup {Absent}]
         /\ 0 \in Ids => listed'[0] = Absent
BY DEF ListsInv, ListValue

\* A step that changes neither the lists nor the objects, between two calls.
LEMMA SetterInv ==
  ASSUME DeviceInv, call = Idle, SettersTell',
         UNCHANGED <<kind, bridge, listed, class, held, call, copy, changes>>,
         said'.call \in {"set", "use", "read", "setName"},
         said'.call = "read" /\ said'.answer = "type_error" =>
           0 \in Ids /\ held[0].data = Null
  PROVE  DeviceInv'
<1>1. ListsInv'
  BY DEF DeviceInv, ListsInv
<1>2. HeldInv'
  BY DEF DeviceInv, HeldInv, Fitting
<1>3. CallsInv'
  BY DEF CallsInv, Idle
<1>4. SaidInv'
  BY DEF SaidInv
<1> QED BY <1>1, <1>2, <1>3, <1>4 DEF DeviceInv

LEMMA OthersReplaceInv ==
  ASSUME DeviceInv, NEW i \in Ids, OthersReplace(i)
  PROVE  DeviceInv'
<1> USE DEF OthersReplace
<1>1. ListsInv'
  <2>1. bridge' \in [Ids -> Contents[kind] \cup {Absent}]
    BY DEF DeviceInv, ListsInv
  <2>2. 0 \in Ids => bridge'[0] = Absent
    BY DEF DeviceInv, ListsInv
  <2>3. changes' \in 0..MaxChanges
    BY ListsAssumption DEF DeviceInv, ListsInv
  <2> QED BY <2>1, <2>2, <2>3 DEF DeviceInv, ListsInv
<1>2. HeldInv'
  BY DEF DeviceInv, HeldInv, Fitting
<1>3. CallsInv'
  BY DEF DeviceInv, CallsInv, ByTypeInv
<1>4. SaidInv'
  BY DEF DeviceInv, SaidInv
<1>5. SettersTell'
  BY DEF DeviceInv, SettersTell
<1> QED BY <1>1, <1>2, <1>3, <1>4, <1>5 DEF DeviceInv

LEMMA GetOneInv ==
  ASSUME DeviceInv, NEW i \in Ids, NEW c \in Asked, Get(i, c)
  PROVE  DeviceInv'
<1>1. /\ call = Idle /\ ListValue /\ class' = c /\ request' = NoRequest
      /\ kind' = kind /\ bridge' = bridge /\ call' = call /\ changes' = changes
  BY DEF Get
<1>2. PICK r \in {IF kind = "groups" /\ i = 0 THEN Null ELSE listed'[i]} :
        \E d \in Seeded(i, r) :
          /\ Said("get", "", Refusal(i, r, d, c))
          /\ held' = IF Refusal(i, r, d, c) = "returned"
                       THEN [NoObjects EXCEPT ![i] = Constructed(i, r, d, c)]
                       ELSE NoObjects
  BY DEF Get
<1>3. PICK d \in Seeded(i, r) :
        /\ Said("get", "", Refusal(i, r, d, c))
        /\ held' = IF Refusal(i, r, d, c) = "returned"
                     THEN [NoObjects EXCEPT ![i] = Constructed(i, r, d, c)]
                     ELSE NoObjects
  BY <1>2
<1>4. ListsInv
  BY DEF DeviceInv
<1>5. /\ listed' \in [Ids -> Contents[kind] \cup {Absent}]
      /\ 0 \in Ids => listed'[0] = Absent
  BY <1>1, <1>4, ListValueIs
<1>6. ListsInv'
  BY <1>1, <1>4, <1>5 DEF ListsInv
<1>7. HeldInv'
  <2>1. CASE Refusal(i, r, d, c) = "returned"
    <3>1. r = Null => kind = "groups" /\ i = 0
      <4>1. listed'[i] # Null
        BY <1>5, <1>4, ListsAssumption, NothingIsDistinct DEF ListsInv
      <4> QED BY <1>2, <4>1
    <3>2. Fitting(i, Constructed(i, r, d, c), c)
      BY <1>4, <2>1, <3>1, ConstructedFits
    <3>3. PICK o : o = Constructed(i, r, d, c)
      OBVIOUS
    <3>4. held' = [NoObjects EXCEPT ![i] = o]
      BY <1>3, <2>1, <3>3
    <3>5. Fitting(i, o, c)'
      BY <1>1, <3>2, <3>3 DEF Fitting
    <3>6. /\ held' = [j \in Ids |-> held'[j]]
          /\ \A j \in Ids : held'[j] = IF j = i THEN o ELSE None
      BY <3>4 DEF NoObjects
    <3> QED BY <1>1, <3>5, <3>6 DEF HeldInv
  <2>2. CASE Refusal(i, r, d, c) # "returned"
    BY <1>3, <2>2 DEF HeldInv, NoObjects
  <2> QED BY <2>1, <2>2
<1>8. CallsInv'
  BY <1>1 DEF CallsInv, Idle
<1>9. said'.call = "get"
  BY <1>3 DEF Said
<1>10. SaidInv' /\ SettersTell'
  BY <1>1, <1>9 DEF SaidInv, SettersTell, NoRequest
<1> QED BY <1>6, <1>7, <1>8, <1>10 DEF DeviceInv

LEMMA GetManyInv ==
  ASSUME DeviceInv, NEW op \in {"getAll", "getAllByType"}, NEW c \in Asked,
         GetMany(op, c)
  PROVE  DeviceInv'
<1>1. /\ ListValue /\ copy' = listed' /\ class' = c /\ held' = NoObjects
      /\ request' = NoRequest
      /\ kind' = kind /\ bridge' = bridge /\ changes' = changes
      /\ said' = [call |-> op, on |-> "", answer |-> "begun"]
      /\ op = "getAllByType" => kind = "sensors" /\ c # AnySensor
  BY DEF GetMany, Said
<1>2. PICK todo : todo = {i \in Ids : /\ listed'[i] # Absent
                                      /\ c.type \in {"", listed'[i].name}}
  OBVIOUS
<1>3. call' = [op |-> op, todo |-> todo]
  BY <1>2 DEF GetMany
<1>4. ListsInv
  BY DEF DeviceInv
<1>5. /\ listed' \in [Ids -> Contents[kind] \cup {Absent}]
      /\ 0 \in Ids => listed'[0] = Absent
  BY <1>1, <1>4, ListValueIs
<1>6. ListsInv'
  BY <1>1, <1>4, <1>5 DEF ListsInv
<1>7. held' = [i \in Ids |-> None]
  BY <1>1 DEF NoObjects
<1>8. HeldInv'
  BY <1>7 DEF HeldInv
<1>9. ASSUME op = "getAllByType" PROVE ByTypeInv'
  <2>1. c.type # ""
    BY <1>1, <1>9, AskedAssumption, ClassesAreSound DEF ClassIsSound
  <2>2. Absent.name = ""
    BY DEF Absent, Resource
  <2>3. \A i \in Ids : listed'[i].name = c.type <=> i \in todo
    BY <1>2, <2>1, <2>2
  <2> QED BY <1>1, <1>3, <1>5, <1>7, <1>9, <2>3 DEF ByTypeInv
<1>10. CallsInv'
  <2>1. todo \subseteq Ids
    BY <1>2
  <2> QED BY <1>1, <1>3, <1>9, <2>1 DEF CallsInv
<1>11. SaidInv' /\ SettersTell'
  BY <1>1 DEF SaidInv, SettersTell, NoRequest
<1> QED BY <1>6, <1>8, <1>10, <1>11 DEF DeviceInv

\* A call that has not ended has something least to do.
LEMMA NextIsThere ==
  ASSUME CallsInv, call.todo # {}
  PROVE  (CHOOSE j \in call.todo : \A k \in call.todo : j <= k) \in call.todo
<1>1. call.todo \subseteq Nat
  BY ListsAssumption DEF CallsInv
<1>2. PICK x \in call.todo : TRUE
  OBVIOUS
<1>3. PICK f \in call.todo \cap 0..x : \A j \in call.todo \cap 0..x : f <= j
  <2>1. call.todo \cap 0..x \in SUBSET (0..x) /\ x \in Nat /\ x \in call.todo \cap 0..x
    BY <1>1, <1>2
  <2> QED BY <2>1, LeastOf
<1>4. \A j \in call.todo : f <= j
  BY <1>1, <1>3
<1> QED BY <1>3, <1>4

LEMMA GetNextInv == DeviceInv /\ GetNext => DeviceInv'
<1> SUFFICES ASSUME DeviceInv, GetNext PROVE DeviceInv'
  OBVIOUS
<1>1. CallsInv /\ ListsInv /\ HeldInv
  BY DEF DeviceInv
<1>2. PICK i : i = CHOOSE j \in call.todo : \A k \in call.todo : j <= k
  OBVIOUS
<1>3. /\ call.todo # {} /\ (ListValue \/ listed' = listed)
      /\ kind' = kind /\ bridge' = bridge /\ class' = class /\ copy' = copy
      /\ request' = request /\ changes' = changes
  BY DEF GetNext
<1>4. i \in call.todo /\ i \in Ids
  BY <1>1, <1>2, <1>3, NextIsThere DEF CallsInv
<1>5. PICK r : r = listed'[i]
  OBVIOUS
<1>6. PICK d \in Seeded(i, r) :
        IF Refusal(i, r, d, class) = "returned"
          THEN /\ held' = [held EXCEPT ![i] = Constructed(i, r, d, class)]
               /\ call' = [call EXCEPT !.todo = @ \ {i}]
               /\ UNCHANGED said
          ELSE /\ held' = NoObjects
               /\ call' = Idle
               /\ Said(call.op, IF {listed', bridge} = {copy} THEN "" ELSE "changed",
                       Refusal(i, r, d, class))
  BY <1>2, <1>5 DEF GetNext
<1>7. /\ listed' \in [Ids -> Contents[kind] \cup {Absent}]
      /\ 0 \in Ids => listed'[0] = Absent
  BY <1>1, <1>3, ListValueIs
<1>8. ListsInv'
  BY <1>1, <1>3, <1>7 DEF ListsInv
<1>9. /\ call.op \in {"getAll", "getAllByType"} /\ request = NoRequest
      /\ said.answer = "begun" /\ said.call = call.op
      /\ call = [op |-> call.op, todo |-> call.todo] /\ call.todo \subseteq Ids
      /\ call.op = "getAllByType" => ByTypeInv
  BY <1>1, <1>3 DEF CallsInv
<1>10. CASE Refusal(i, r, d, class) = "returned"
  <2>1. PICK o : o = Constructed(i, r, d, class)
    OBVIOUS
  <2>2. held' = [held EXCEPT ![i] = o] /\ said' = said
    BY <1>6, <1>10, <2>1
  <2>3. call' = [op |-> call.op, todo |-> call.todo \ {i}]
    BY <1>6, <1>9, <1>10
  <2>4. Fitting(i, o, class)
    <3>1. r # Null
      BY <1>1, <1>4, <1>5, <1>7, ListsAssumption, NothingIsDistinct DEF ListsInv
    <3> QED BY <1>1, <1>4, <1>10, <2>1, <3>1, ConstructedFits
  <2>5. /\ held' = [j \in Ids |-> held'[j]]
        /\ \A j \in Ids : held'[j] = IF j = i THEN o ELSE held[j]
    BY <1>1, <1>4, <2>2 DEF HeldInv
  <2>6. HeldInv'
    <3>1. ASSUME NEW j \in Ids, held'[j] # None PROVE Fitting(j, held'[j], class)
      BY <1>1, <2>4, <2>5, <3>1 DEF HeldInv
    <3> QED BY <1>3, <2>5, <3>1 DEF HeldInv, Fitting
  <2>7. ASSUME call.op = "getAllByType" PROVE ByTypeInv'
    <3>1. ByTypeInv /\ o # None
      BY <1>9, <2>4, <2>7 DEF Fitting
    <3>2. ASSUME NEW j \in Ids
          PROVE  copy[j].name = class.type
                   <=> j \in call.todo \ {i} \/ held'[j] # None
      BY <1>4, <2>5, <3>1 DEF ByTypeInv
    <3> QED BY <1>3, <2>3, <3>1, <3>2 DEF ByTypeInv
  <2>8. CallsInv'
    BY <1>3, <1>9, <2>2, <2>3, <2>7 DEF CallsInv
  <2>9. SaidInv' /\ SettersTell'
    BY <1>3, <1>9, <2>2 DEF SaidInv, SettersTell, NoRequest
  <2> QED BY <1>8, <2>6, <2>8, <2>9 DEF DeviceInv
<1>11. CASE Refusal(i, r, d, class) # "returned"
  <2>1. PICK on : on = IF {listed', bridge} = {copy} THEN "" ELSE "changed"
    OBVIOUS
  <2>2. /\ held' = [j \in Ids |-> None] /\ call' = [op |-> "none", todo |-> {}]
        /\ said' = [call |-> call.op, on |-> on, answer |-> Refusal(i, r, d, class)]
    BY <1>6, <1>11, <2>1 DEF Idle, NoObjects, Said
  <2>3. HeldInv'
    BY <2>2 DEF HeldInv
  <2>4. CallsInv'
    BY <2>2 DEF CallsInv
  <2>5. ASSUME call.op = "getAllByType", {listed', bridge} = {copy} PROVE FALSE
    <3>1. ByTypeInv /\ listed' = copy /\ bridge = copy
      BY <1>9, <2>5
    <3>2. r = copy[i] /\ r.name = class.type
      BY <1>4, <1>5, <3>1 DEF ByTypeInv
    <3>3. class.type # ""
      BY <3>1, ClassIsOne, ClassesAreSound DEF ByTypeInv, ClassIsSound
    <3>4. Absent.name = ""
      BY DEF Absent, Resource
    <3>5. r # Absent
      BY <3>2, <3>3, <3>4
    <3>6. i # 0
      BY <1>4, <3>1, <3>2, <3>5 DEF ByTypeInv
    <3>7. d = r
      BY <3>1, <3>2, <3>6 DEF Seeded, Served
    <3> QED BY <1>11, <3>1, <3>2, <3>5, <3>7 DEF Refusal, Fits, ByTypeInv
  <2>6. SaidInv'
    BY <1>9, <1>11, <2>1, <2>2, <2>5 DEF SaidInv
  <2>7. SettersTell'
    BY <1>3, <1>9, <2>2 DEF SettersTell, NoRequest
  <2> QED BY <1>8, <2>3, <2>4, <2>6, <2>7 DEF DeviceInv
<1> QED BY <1>10, <1>11

LEMMA GotAllInv == DeviceInv /\ GotAll => DeviceInv'
<1> SUFFICES ASSUME DeviceInv, GotAll PROVE DeviceInv'
  OBVIOUS
<1>1. /\ call.op # "none" /\ call.todo = {} /\ call' = [op |-> "none", todo |-> {}]
      /\ said' = [call |-> call.op, on |-> "", answer |-> "returned"]
      /\ kind' = kind /\ bridge' = bridge /\ listed' = listed /\ class' = class
      /\ held' = held /\ copy' = copy /\ request' = request /\ changes' = changes
  BY DEF GotAll, Said, Idle
<1>2. /\ call.op \in {"getAll", "getAllByType"} /\ request = NoRequest
      /\ call.op = "getAllByType" => ByTypeInv
  BY <1>1 DEF DeviceInv, CallsInv
<1>3. ListsInv'
  BY <1>1 DEF DeviceInv, ListsInv
<1>4. HeldInv'
  BY <1>1 DEF DeviceInv, HeldInv, Fitting
<1>5. CallsInv'
  BY <1>1 DEF CallsInv
<1>6. SaidInv'
  BY <1>1, <1>2 DEF SaidInv, ByTypeInv
<1>7. SettersTell'
  BY <1>1, <1>2 DEF SettersTell, NoRequest
<1> QED BY <1>3, <1>4, <1>5, <1>6, <1>7 DEF DeviceInv

LEMMA GetFailsInv == DeviceInv /\ GetFails => DeviceInv'
<1> SUFFICES ASSUME DeviceInv, GetFails PROVE DeviceInv'
  OBVIOUS
<1>1. /\ call' = [op |-> "none", todo |-> {}] /\ request' = NoRequest
      /\ held' = [i \in Ids |-> None]
      /\ kind' = kind /\ bridge' = bridge /\ listed' = listed /\ class' = class
      /\ copy' = copy /\ changes' = changes
  BY DEF GetFails, Idle, NoObjects
<1>2. said'.answer = "failed" /\ said'.call \in {"get", "getAll", "getAllByType"}
  <2>1. CASE call = Idle
    BY <2>1 DEF GetFails, Said
  <2>2. CASE call # Idle
    <3>1. call.op \in {"getAll", "getAllByType"}
      BY <2>2 DEF DeviceInv, CallsInv, Idle
    <3> QED BY <2>2, <3>1 DEF GetFails, Said
  <2> QED BY <2>1, <2>2
<1>3. ListsInv'
  BY <1>1 DEF DeviceInv, ListsInv
<1>4. HeldInv'
  BY <1>1 DEF HeldInv
<1>5. CallsInv'
  BY <1>1 DEF CallsInv
<1>6. SaidInv' /\ SettersTell'
  BY <1>1, <1>2 DEF SaidInv, SettersTell, NoRequest
<1> QED BY <1>3, <1>4, <1>5, <1>6 DEF DeviceInv

LEMMA RefreshObjectInv ==
  ASSUME DeviceInv, NEW i \in Ids, RefreshObject(i)
  PROVE  DeviceInv'
<1>1. /\ call = Idle /\ held[i] # None /\ Served(i) # Absent
      /\ held' = [held EXCEPT ![i].data = Served(i)]
      /\ said' = [call |-> "refresh", on |-> "", answer |-> "returned"]
      /\ request' = NoRequest
      /\ kind' = kind /\ bridge' = bridge /\ listed' = listed /\ class' = class
      /\ call' = call /\ copy' = copy /\ changes' = changes
  BY DEF RefreshObject, Held, Said
<1>2. ListsInv'
  BY <1>1 DEF DeviceInv, ListsInv
<1>3. HeldInv
  BY DEF DeviceInv
<1>4. Fitting(i, held[i], class)
  BY <1>1, <1>3 DEF HeldInv
<1>5. Served(i) # Null
  <2>1. bridge[i] # Null
    BY ListsAssumption, NothingIsDistinct DEF DeviceInv, ListsInv
  <2> QED BY <2>1, NothingIsDistinct DEF Served
<1>6. PICK o : o = [made |-> held[i].made, data |-> Served(i), light |-> held[i].light]
  OBVIOUS
<1>7. held[i] = [made |-> held[i].made, data |-> held[i].data, light |-> held[i].light]
  BY <1>4 DEF Fitting
<1>8. [held[i] EXCEPT !.data = Served(i)] = o
  BY <1>6, <1>7
<1>9. held = [j \in Ids |-> held[j]]
  BY <1>3 DEF HeldInv
<1>10. /\ held' = [j \in Ids |-> held'[j]]
       /\ \A j \in Ids : held'[j] = IF j = i THEN o ELSE held[j]
  BY <1>1, <1>8, <1>9
<1>11. Fitting(i, o, class)
  <2>1. o.made = held[i].made /\ o.data = Served(i) /\ o.light = held[i].light
    BY <1>6
  <2>2. o = [made |-> o.made, data |-> o.data, light |-> o.light]
    BY <1>6
  <2>3. o # None
    <3>1. None.data = Absent
      BY DEF None
    <3> QED BY <1>1, <2>1, <3>1
  <2> QED BY <1>4, <1>5, <2>1, <2>2, <2>3 DEF Fitting
<1>12. HeldInv'
  <2>1. ASSUME NEW j \in Ids, held'[j] # None PROVE Fitting(j, held'[j], class)
    BY <1>3, <1>10, <1>11, <2>1 DEF HeldInv
  <2> QED BY <1>1, <1>10, <2>1 DEF HeldInv, Fitting
<1>13. CallsInv'
  BY <1>1 DEF CallsInv, Idle
<1>14. SaidInv' /\ SettersTell'
  BY <1>1 DEF SaidInv, SettersTell, NoRequest
<1> QED BY <1>2, <1>12, <1>13, <1>14 DEF DeviceInv

LEMMA SetSensorInv ==
  ASSUME DeviceInv, NEW i \in Ids, NEW a, SetSensor(i, a)
  PROVE  DeviceInv'
<1>1. ClassIsSound(class)
  BY ClassIsOne, ClassesAreSound
<1>2. SettersTell'
  BY <1>1 DEF SetSensor, Said, SettersTell, ClassIsSound
<1> QED BY <1>2, SetterInv DEF SetSensor, Said, Held

LEMMA SetGroupInv ==
  ASSUME DeviceInv, NEW i \in Ids, NEW a, SetGroup(i, a)
  PROVE  DeviceInv'
<1>1. /\ call = Idle /\ kind = "groups"
      /\ UNCHANGED <<kind, bridge, listed, class, held, call, copy, changes>>
  BY DEF SetGroup, Held
<1>2. CASE a = "effect"
  <2>1. said' = [call |-> "set", on |-> a, answer |-> "returned"]
    BY <1>2 DEF SetGroup, Said
  <2>2. SettersTell'
    BY <1>1, <1>2, <2>1 DEF SettersTell
  <2> QED BY <1>1, <2>1, <2>2, SetterInv
<1>3. CASE a # "effect"
  <2>1. said'.call = "set" /\ said'.on = a /\ request'.attribute = a
    <3>1. PICK answer : said' = [call |-> "set", on |-> a, answer |-> answer]
      BY <1>3 DEF SetGroup, Said
    <3>2. request' = [path |-> "/action", attribute |-> a]
      BY <1>3 DEF SetGroup
    <3> QED BY <3>1, <3>2
  <2>2. SettersTell'
    BY <1>1, <2>1 DEF SettersTell
  <2> QED BY <1>1, <2>1, <2>2, SetterInv
<1> QED BY <1>2, <1>3

LEMMA UseLightInv ==
  ASSUME DeviceInv, NEW i \in Ids, NEW f, UseLight(i, f)
  PROVE  DeviceInv'
<1>1. LightIsSound(held[i].made, held[i].light)
  BY DEF UseLight, Held, DeviceInv, HeldInv, Fitting
<1>2. HasControl(held[i].light, f) => held[i].made.name \in CanDo[Control(f)]
  BY <1>1, ControlsAreSound
<1>3. /\ call = Idle /\ kind = "lights"
      /\ UNCHANGED <<kind, bridge, listed, class, held, call, copy, changes>>
  BY DEF UseLight, Held
<1>4. CASE HasControl(held[i].light, f)
  <2>1. PICK r \in {NoRequest, [path |-> "/state", attribute |-> Control(f)]} :
          /\ request' = r
          /\ Said("use", Control(f), IF r # NoRequest /\ bridge[i] = Absent
                                       THEN "API error" ELSE "returned")
    BY <1>4 DEF UseLight
  <2>2. said'.call = "use" /\ said'.answer # "false"
    BY <2>1 DEF Said
  <2>3. request'.path = "/state" => request'.attribute = Control(f)
    <3>1. NoRequest.path = "none"
      BY DEF NoRequest
    <3>2. request' = NoRequest
          \/ request' = [path |-> "/state", attribute |-> Control(f)]
      BY <2>1
    <3> QED BY <3>1, <3>2
  <2>4. SettersTell'
    BY <1>2, <1>3, <1>4, <2>2, <2>3 DEF SettersTell
  <2> QED BY <1>3, <2>2, <2>4, SetterInv
<1>5. CASE ~HasControl(held[i].light, f)
  <2>1. request' = NoRequest /\ said'.call = "use"
    BY <1>5 DEF UseLight, Said
  <2>2. SettersTell'
    BY <1>3, <2>1 DEF SettersTell, NoRequest
  <2> QED BY <1>3, <2>1, <2>2, SetterInv
<1> QED BY <1>4, <1>5

LEMMA ReadGroupInv ==
  ASSUME DeviceInv, NEW i \in Ids, ReadGroup(i)
  PROVE  DeviceInv'
<1>1. SettersTell'
  BY DEF ReadGroup, Said, SettersTell, NoRequest
<1>2. said'.call = "read" /\ (said'.answer = "type_error" => held[i].data = Null)
  BY DEF ReadGroup, Said
<1>3. held[i].data = Null => i = 0
  BY DEF ReadGroup, Held, DeviceInv, HeldInv, Fitting
<1> QED BY <1>1, <1>2, <1>3, SetterInv DEF ReadGroup, Held

LEMMA SetNameInv ==
  ASSUME DeviceInv, NEW i \in Ids, SetName(i)
  PROVE  DeviceInv'
<1>1. kind \in {"sensors", "lights"}
  BY DEF SetName
<1>2. SettersTell'
  BY <1>1 DEF SetName, Said, SettersTell
<1>3. said'.call = "setName"
  BY DEF SetName, Said
<1> QED BY <1>2, <1>3, SetterInv DEF SetName, Held

LEMMA DeviceStepInv == DeviceInv /\ [DeviceNext]_deviceVars => DeviceInv'
<1> SUFFICES ASSUME DeviceInv, [DeviceNext]_deviceVars PROVE DeviceInv'
  OBVIOUS
<1>1. CASE UNCHANGED deviceVars
  <2>1. ListsInv'
    BY <1>1 DEF deviceVars, DeviceInv, ListsInv
  <2>2. HeldInv'
    BY <1>1 DEF deviceVars, DeviceInv, HeldInv, Fitting
  <2>3. CallsInv'
    BY <1>1 DEF deviceVars, DeviceInv, CallsInv, ByTypeInv
  <2>4. SaidInv'
    BY <1>1 DEF deviceVars, DeviceInv, SaidInv
  <2>5. SettersTell'
    BY <1>1 DEF deviceVars, DeviceInv, SettersTell
  <2> QED BY <2>1, <2>2, <2>3, <2>4, <2>5 DEF DeviceInv
<1> QED BY <1>1, GetNextInv, GotAllInv, GetFailsInv, GetManyInv, OthersReplaceInv,
           GetOneInv, RefreshObjectInv, SetSensorInv, SetGroupInv, UseLightInv,
           ReadGroupInv, SetNameInv
        DEF DeviceNext

\* The types of the objects' module.
THEOREM DeviceTypes == DeviceSpec => []DeviceTypeOK
<1> QED BY DeviceInitInv, DeviceStepInv, DeviceInvTypes, PTL DEF DeviceSpec

\* For any lists, and however they change: an object is what its class says,
\* its getters answer, and getAllByType returns what its copy has.
THEOREM ObjectsAlwaysFit == DeviceSpec => []ObjectsFit
<1> QED BY DeviceInitInv, DeviceStepInv, DeviceInvFits, PTL DEF DeviceSpec

\* For any lists: what the setters ask of the bridge is what they say, and what
\* the light or sensor has.
THEOREM SettersTellTruth == DeviceSpec => []SettersTell
<1>1. DeviceInv => SettersTell
  BY DEF DeviceInv
<1> QED BY DeviceInitInv, DeviceStepInv, <1>1, PTL DEF DeviceSpec
----------------------------------------------------------------------------
(* The sum of the parts.                                                   *)

\* The inductive invariants of the parts.
StreamInv == CallInv /\ FrameInv /\ Switches /\ Places /\ Answered

LibraryInv == /\ part \in Parts
              /\ PatternInv /\ ZoneInv /\ StreamInv /\ EndpointInv
              /\ TransportInv /\ SearchInv /\ DeviceInv

LEMMA StreamInitInv == StreamInit => StreamInv
BY CallInitInv, FrameInitInv, TypesInit DEF StreamInv

LEMMA StreamStepInv == StreamInv /\ [StreamNext]_streamVars => StreamInv'
BY CallStepInv, FrameStepInv, SwitchesStep, PlacesStep, AnsweredStep DEF StreamInv

LEMMA StreamInvTypes == StreamInv => StreamTypeOK
<1>1. Kept /\ Switches /\ Places /\ Answered => StreamTypeOK
  BY DEF Kept, Switches, Places, Reasons, Answered, Answers, StreamTypeOK
<1> QED BY <1>1, KeptHolds DEF StreamInv

LEMMA LibraryInitInv == LibraryInit => LibraryInv
BY PatternInitInv, ZoneInitInv, StreamInitInv, EndpointInitInv, TransportInitInv,
   SearchInitInv, DeviceInitInv DEF LibraryInit, LibraryInv

\* A step of the sum is for every part a step of its own or none.
LEMMA LibrarySteps ==
  [LibraryNext]_libraryVars =>
    /\ part' = part
    /\ [PatternNext]_patternVars /\ [ZoneNext]_zoneVars /\ [StreamNext]_streamVars
    /\ [EndpointNext]_endpointVars /\ [TransportNext]_transportVars
    /\ [DiscoveryNext]_discoveryVars /\ [DeviceNext]_deviceVars
BY DEF LibraryNext, libraryVars

LEMMA LibraryStepInv == LibraryInv /\ [LibraryNext]_libraryVars => LibraryInv'
<1> SUFFICES ASSUME LibraryInv, [LibraryNext]_libraryVars PROVE LibraryInv'
  OBVIOUS
<1>1. (part \in Parts)'
  BY LibrarySteps DEF LibraryInv, Parts
<1>2. PatternInv' /\ ZoneInv' /\ StreamInv'
  BY LibrarySteps, PatternStepInv, ZoneStepInv, StreamStepInv DEF LibraryInv
<1>3. EndpointInv' /\ TransportInv' /\ SearchInv' /\ DeviceInv'
  BY LibrarySteps, EndpointStepInv, TransportStepInv, SearchStepInv, DeviceStepInv DEF LibraryInv
<1> QED BY <1>1, <1>2, <1>3 DEF LibraryInv

THEOREM LibraryInvariant == LibrarySpec => []LibraryInv
BY LibraryInitInv, LibraryStepInv, PTL DEF LibrarySpec

\* The sum is what it says: each of its parts behaves as that part's own
\* specification allows, fairness included, so that what is proved of a part
\* holds in the library.
THEOREM LibraryParts ==
  LibrarySpec => /\ PatternSpec /\ ZoneSpec /\ StreamSpec /\ EndpointSpec
                 /\ TransportSpec /\ DiscoverySpec /\ DeviceSpec
<1>1. LibraryInit => /\ PatternInit /\ ZoneInit /\ StreamInit /\ EndpointInit
                     /\ TransportInit /\ DiscoveryInit /\ DeviceInit
  BY DEF LibraryInit
<1> QED BY <1>1, LibrarySteps, PTL
        DEF LibrarySpec, PatternSpec, ZoneSpec, StreamSpec, EndpointSpec,
            TransportSpec, DiscoverySpec, DeviceSpec

\* Whichever part of the library runs, all keep their types.
THEOREM LibraryTypes == LibrarySpec => []LibraryTypeOK
<1>1. LibraryInv => LibraryTypeOK
  BY StreamInvTypes, DeviceInvTypes
     DEF LibraryInv, LibraryTypeOK, PatternInv, ZoneInv, EndpointInv, TransportInv, SearchInv
<1> QED BY LibraryInvariant, <1>1, PTL
=============================================================================
