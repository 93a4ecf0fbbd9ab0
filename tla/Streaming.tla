----------------------------- MODULE Streaming ------------------------------
(***************************************************************************)
(* EntertainmentMode: the colour stream of an entertainment group, from    *)
(* the PUT requests that switch it on and off at the bridge                *)
(* (Bridge::startStreaming and stopStreaming) over the DTLS connection to  *)
(* the frames that update() sends.                                         *)
(*                                                                         *)
(* One group, one EntertainmentMode object after the other, one thread.    *)
(* The mbedtls library is external: a call of it succeeds or fails.        *)
(***************************************************************************)
EXTENDS Integers, Sequences, FiniteSets

CONSTANTS Groups,       \* what getLightIds() of the group may be
          Indices,      \* the light indices programs use, uint8_t
          Colours,      \* the colours programs use, <<red, green, blue>>
          MaxSockets,   \* bound: then nobody connects again
          MaxRounds     \* the handshake is over after so many rounds

Byte  == 0..255
MaxId == 65535      \* a light id has two bytes of the message

ASSUME StreamAssumption ==
  /\ \A ids \in Groups : ids \in Seq(0..MaxId)
  /\ Indices \subseteq Byte
  /\ Colours \subseteq Byte \X Byte \X Byte
  /\ MaxSockets \in Nat /\ MaxRounds \in Nat

VARIABLES keyed,     \* the Bridge has a client key
          active,    \* the bridge: streaming is on for the group
          alive,     \* there is an EntertainmentMode object
          pc,        \* where its connect() is, "idle" outside
          rounds,    \* calls of mbedtls_ssl_handshake in it
          session,   \* the DTLS session
          sockets,   \* open UDP sockets of this program
          lights,    \* getLightIds() when the object was made
          message,   \* entertainment_msg, a function of offsets
          pending,   \* the record a write was interrupted with, or NoFrame
          frame,     \* the record last sent in this session, or NoFrame
          returned,  \* the last call and what it returned
          connects,  \* history: sockets this object has opened
          leaked,    \* history: sockets overwritten with another
          lapse,     \* history: why nobody may be switching streaming off
          chosen,    \* history: the colour last set for each light
          late       \* history: `frame' is of an earlier, interrupted update

objectVars == <<lights, message, chosen>>
outputVars == <<pending, frame, late>>
streamVars == <<keyed, active, alive, pc, rounds, session, sockets, objectVars,
                outputVars, returned, connects, leaked, lapse>>

NoFrame == <<>>
Dark    == <<0, 0, 0>>

Return(call, value) == returned' = [call |-> call, value |-> value]

StreamInit ==
  /\ keyed \in BOOLEAN
  /\ active = FALSE /\ alive = FALSE
  /\ pc = "idle" /\ rounds = 0
  /\ session = "none" /\ sockets = 0
  /\ lights = <<>> /\ message = NoFrame /\ chosen = <<>>
  /\ pending = NoFrame /\ frame = NoFrame /\ late = FALSE
  /\ returned = [call |-> "none", value |-> TRUE]
  /\ connects = 0 /\ leaked = 0
  /\ lapse = {}

----------------------------------------------------------------------------
(* The message: 16 bytes of header and 9 for each light.                   *)

HeaderSize == 16
LightSize  == 9

Header == << 72, 117, 101, 83, 116, 114, 101, 97, 109, 1, 0, 0, 0, 0, 0, 0 >>

\* entertainment_num_lights is a uint8_t.
NumLights(ids) == Len(ids) % 256

Offset(index) == HeaderSize + index * LightSize

\* The last six bytes of a light: each component is written twice.
ColourBytes(colour) ==
  [k \in 3..8 |-> colour[(k - 3) \div 2 + 1]]

\* Mutant: the low byte of the id comes first.
LightBytesSwapped(id) ==
  [k \in 0..8 |-> CASE k = 1 -> id % 256
                    [] k = 2 -> id \div 256
                    [] OTHER -> 0]

LightBytes(id) ==
  [k \in 0..8 |-> CASE k = 1 -> id \div 256
                    [] k = 2 -> id % 256
                    [] OTHER -> 0]

NewMessage(ids) ==
  [i \in 0..Offset(NumLights(ids)) - 1 |->
     IF i < HeaderSize THEN Header[i + 1]
     ELSE LightBytes(ids[(i - HeaderSize) \div LightSize + 1])
                    [(i - HeaderSize) % LightSize]]

SetColour(msg, index, colour) ==
  [i \in DOMAIN msg |-> IF i - Offset(index) \in 3..8
                          THEN ColourBytes(colour)[i - Offset(index)]
                          ELSE msg[i]]

----------------------------------------------------------------------------
(* The requests.  A request that fails throws, and the bridge may have     *)
(* obeyed it or not; one the bridge refuses is answered with an error.     *)

PutOutcomes == {"success", "refused", "lost", "unanswered"}

Obeyed(outcome) == outcome \in {"success", "unanswered"}
Thrown(outcome) == outcome \in {"lost", "unanswered"}

Put(outcome, value) == active' = IF Obeyed(outcome) THEN value ELSE active

\* startStreaming throws before the request when there is no client key.
StartOutcomes == IF keyed THEN PutOutcomes ELSE {"lost"}

\* requestUsername has got the bridge's keys.
GetKeys == /\ ~keyed
           /\ keyed' = TRUE
           /\ UNCHANGED <<active, alive, pc, rounds, session, sockets,
                          objectVars, outputVars, returned, connects, leaked, lapse>>

----------------------------------------------------------------------------
(* The object.                                                             *)

\* The constructor: it starts streaming and ignores the result, then makes
\* the message.  An exception, from the request or because the random number
\* generator has no seed, leaves no object.
Create(ids) ==
  /\ ~alive
  /\ \E outcome \in StartOutcomes, seeded \in BOOLEAN :
       /\ Put(outcome, TRUE)
       /\ alive' = (~Thrown(outcome) /\ seeded)
       /\ Return("create", alive')
       /\ IF alive'
            THEN /\ lights' = ids
                 /\ message' = NewMessage(ids)
                 /\ chosen' = [i \in 1..NumLights(ids) |-> Dark]
            ELSE UNCHANGED objectVars
  /\ connects' = 0
  /\ session' = "none"
  /\ pending' = NoFrame /\ frame' = NoFrame /\ late' = FALSE
  /\ lapse' = lapse \cup {"created"}
  /\ UNCHANGED <<keyed, pc, rounds, sockets, leaked>>

\* The destructor frees what mbedtls has allocated and closes the socket;
\* it sends nothing.
Destroy ==
  /\ alive /\ pc = "idle"
  /\ alive' = FALSE
  /\ sockets' = IF connects > 0 THEN sockets - 1 ELSE sockets
  /\ session' = "none"
  /\ pending' = NoFrame /\ frame' = NoFrame /\ late' = FALSE
  /\ lapse' = lapse \cup {"destroyed"}
  /\ Return("destroy", TRUE)
  /\ UNCHANGED <<keyed, active, pc, rounds, objectVars, connects, leaked>>

\* connect(): startStreaming.
ConnectStart ==
  /\ alive /\ pc = "idle" /\ sockets < MaxSockets
  /\ \E outcome \in StartOutcomes :
       /\ Put(outcome, TRUE)
       /\ IF outcome = "success"
            THEN /\ pc' = "open"
                 /\ lapse' = {}
                 /\ Return("none", TRUE)
            ELSE /\ pc' = "idle"
                 /\ lapse' = lapse \cup {outcome}
                 /\ Return("connect", FALSE)
  /\ UNCHANGED <<keyed, alive, rounds, session, sockets, objectVars,
                 outputVars, connects, leaked>>

\* Mutant: connect() returns at once when there is no connection.
OpenSocketReturns ==
  /\ pc = "open"
  /\ \/ /\ pc' = "configure"
        /\ sockets' = sockets + 1
        /\ connects' = connects + 1
        /\ leaked' = IF connects > 0 THEN leaked + 1 ELSE leaked
        /\ UNCHANGED returned
     \/ /\ pc' = "idle"
        /\ Return("connect", FALSE)
        /\ UNCHANGED <<sockets, connects, leaked>>
  /\ UNCHANGED <<keyed, active, alive, rounds, session, objectVars, outputVars,
                 lapse>>

\* mbedtls_net_connect, which overwrites the socket of an earlier connection.
OpenSocket ==
  /\ pc = "open"
  /\ \/ /\ pc' = "configure"
        /\ sockets' = sockets + 1
        /\ connects' = connects + 1
        /\ leaked' = IF connects > 0 THEN leaked + 1 ELSE leaked
     \/ /\ pc' = "close"
        /\ UNCHANGED <<sockets, connects, leaked>>
  /\ UNCHANGED <<keyed, active, alive, rounds, session, objectVars, outputVars,
                 returned, lapse>>

\* config_defaults, conf_psk, setup and set_hostname: the first one that
\* fails leads to the end of the call.
Configure ==
  /\ pc = "configure"
  /\ pc' \in {"handshake", "close"}
  /\ rounds' = 0
  /\ UNCHANGED <<keyed, active, alive, session, sockets, objectVars,
                 outputVars, returned, connects, leaked, lapse>>

\* Mutant: a handshake that fails is begun again.
HandshakeAgain ==
  /\ pc = "handshake"
  /\ \/ /\ rounds < MaxRounds
        /\ rounds' = rounds + 1
        /\ UNCHANGED <<pc, session, outputVars, returned>>
     \/ /\ pc' = "idle"
        /\ session' = "up"
        /\ pending' = NoFrame /\ frame' = NoFrame /\ late' = FALSE
        /\ Return("connect", TRUE)
        /\ UNCHANGED rounds
     \/ /\ rounds' = 0
        /\ UNCHANGED <<pc, session, outputVars, returned>>
  /\ UNCHANGED <<keyed, active, alive, sockets, objectVars, connects, leaked, lapse>>

\* mbedtls_ssl_handshake, again while it wants to read or write.
Handshake ==
  /\ pc = "handshake"
  /\ \/ /\ rounds < MaxRounds
        /\ rounds' = rounds + 1
        /\ UNCHANGED <<pc, session, outputVars, returned>>
     \/ /\ pc' = "idle"
        /\ session' = "up"
        /\ pending' = NoFrame /\ frame' = NoFrame /\ late' = FALSE
        /\ Return("connect", TRUE)
        /\ UNCHANGED rounds
     \/ /\ pc' = "close"
        /\ UNCHANGED <<rounds, session, outputVars, returned>>
  /\ UNCHANGED <<keyed, active, alive, sockets, objectVars, connects, leaked, lapse>>

\* Mutant: disconnect() does not look at the answer.
CloseUnasked(call, outcome) ==
  /\ session' = IF session = "up" THEN "down" ELSE session
  /\ Put(outcome, FALSE)
  /\ lapse' = IF outcome = "success" THEN {} ELSE lapse \cup {outcome}
  /\ Return(call, call = "disconnect")
  /\ pc' = "idle"
  /\ UNCHANGED <<keyed, alive, rounds, sockets, objectVars, outputVars,
                 connects, leaked>>

\* close_notify and stopStreaming: how connect() fails after its first step,
\* and what disconnect() does.
Close(call, outcome) ==
  /\ session' = IF session = "up" THEN "down" ELSE session
  /\ Put(outcome, FALSE)
  /\ lapse' = IF outcome = "success" THEN {} ELSE lapse \cup {outcome}
  /\ Return(call, call = "disconnect" /\ outcome = "success")
  /\ pc' = "idle"
  /\ UNCHANGED <<keyed, alive, rounds, sockets, objectVars, outputVars,
                 connects, leaked>>

ConnectFails == pc = "close" /\ \E o \in PutOutcomes : Close("connect", o)

Disconnect == /\ alive /\ pc = "idle"
              /\ \E o \in PutOutcomes : Close("disconnect", o)

SetColorRGB(index, colour) ==
  /\ alive /\ pc = "idle"
  /\ IF index < NumLights(lights)
       THEN /\ message' = SetColour(message, index, colour)
            /\ chosen' = [chosen EXCEPT ![index + 1] = colour]
            /\ Return("set", TRUE)
       ELSE /\ UNCHANGED <<message, chosen>>
            /\ Return("set", FALSE)
  /\ UNCHANGED <<keyed, active, alive, pc, rounds, session, sockets, lights,
                 outputVars, connects, leaked, lapse>>

\* update(): mbedtls_ssl_write, which takes a whole datagram or nothing.
\* When it is interrupted it keeps the record and sends that one the next
\* time, whatever it is called with.  There is nothing to write to before the
\* first handshake, and nobody reads what is written after close_notify.
Update ==
  /\ alive /\ pc = "idle"
  /\ \/ /\ session = "up"
        /\ frame' = IF pending = NoFrame THEN message ELSE pending
        /\ late' = (pending # NoFrame)
        /\ pending' = NoFrame
        /\ Return("update", TRUE)
     \/ /\ session = "up"
        /\ pending' = IF pending = NoFrame THEN message ELSE pending
        /\ Return("update", FALSE)
        /\ UNCHANGED <<frame, late>>
     \/ /\ \E sent \in {FALSE, session = "down"} : Return("update", sent)
        /\ UNCHANGED outputVars
  /\ UNCHANGED <<keyed, active, alive, pc, rounds, session, sockets,
                 objectVars, connects, leaked, lapse>>

StreamStep == OpenSocket \/ Configure \/ Handshake \/ ConnectFails

StreamNext ==
  \/ GetKeys
  \/ \E ids \in Groups : Create(ids)
  \/ Destroy
  \/ ConnectStart
  \/ StreamStep
  \/ Disconnect
  \/ \E index \in Indices, colour \in Colours : SetColorRGB(index, colour)
  \/ Update

\* A call that has begun goes on.
StreamFairness == WF_streamVars(StreamStep)

StreamSpec == StreamInit /\ [][StreamNext]_streamVars /\ StreamFairness

----------------------------------------------------------------------------
Frames(size) == [0..size - 1 -> Byte]

StreamTypeOK ==
  /\ keyed \in BOOLEAN /\ active \in BOOLEAN /\ alive \in BOOLEAN
  /\ pc \in {"idle", "open", "configure", "handshake", "close"}
  /\ rounds \in 0..MaxRounds
  /\ session \in {"none", "up", "down"}
  /\ sockets \in Nat
  /\ connects \in Nat /\ leaked \in Nat
  /\ lapse \subseteq {"created", "destroyed", "refused", "lost", "unanswered"}
  /\ returned \in [call : {"none", "create", "destroy", "connect",
                           "disconnect", "set", "update"}, value : BOOLEAN]
  /\ late \in BOOLEAN
  /\ alive => message \in Frames(Offset(NumLights(lights)))

\* Streaming that is on is somebody's: connect() is running, or it has
\* succeeded and the session is still there, or there is a reason that the
\* calls cannot help: the object was only made or has been destroyed, or a
\* request was refused or lost.  Whatever step of connect() fails, it
\* switches streaming off again.
StreamAccounted == active => \/ pc # "idle"
                             \/ alive /\ session = "up"
                             \/ lapse # {}

\* What the calls say is so: connect() returns true only with streaming on,
\* a session, and a socket of its own; disconnect() only with streaming off
\* and the session closed; and connect() returns false with streaming on
\* only if a request was refused or lost.
CallsTellTruth ==
  /\ returned = [call |-> "connect", value |-> TRUE] =>
       active /\ session = "up" /\ sockets > 0
  /\ returned = [call |-> "disconnect", value |-> TRUE] =>
       ~active /\ session # "up"
  /\ (returned = [call |-> "connect", value |-> FALSE] /\ active) =>
       lapse \cap {"refused", "lost", "unanswered"} # {}

\* A record as the bridge reads it: the lights it names, with their colours.
Decoded(f) ==
  [n \in 1..(Cardinality(DOMAIN f) - 16) \div 9 |->
     LET at(k) == f[7 + 9 * n + k]
     IN  [id |-> at(1) * 256 + at(2), colour |-> << at(3), at(5), at(7) >>]]

\* After any sequence of setColorRGB the message names each light of the
\* group once, in the group's order, with the colour last set for it (a group
\* of 256 lights or more is cut off), and an update() of a session that returns
\* true has sent that message, unless it had to send the one of an interrupted
\* update first.  No record that is ever sent names another light.
FramesAreOurs ==
  /\ alive /\ Len(lights) < 256 =>
       Decoded(message) =
         [n \in 1..Len(lights) |-> [id |-> lights[n], colour |-> chosen[n]]]
  /\ returned = [call |-> "update", value |-> TRUE] /\ session = "up" /\ ~late =>
       frame = message
  /\ frame # NoFrame =>
       \A n \in 1..NumLights(lights) : Decoded(frame)[n].id = lights[n]

\* A connect() that has begun ends: connected, or with streaming off again,
\* or because a request was refused or lost.
ConnectEnds ==
  pc # "idle" ~> /\ pc = "idle"
                 /\ \/ session = "up"
                    \/ ~active
                    \/ lapse # {}
=============================================================================
