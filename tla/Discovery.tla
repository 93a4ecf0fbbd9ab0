----------------------------- MODULE Discovery ------------------------------
(***************************************************************************)
(* BridgeFinder::findBridges: the multicast search, whose answers          *)
(* LinHttpHandler::sendMulticast collects until a timeout and cuts apart   *)
(* again, UPnP::getDevices, which reads them, and the description that is  *)
(* fetched from every device that says it is a bridge.                     *)
(*                                                                         *)
(* A datagram is what the code looks for in it: the LOCATION and SERVER    *)
(* lines, each possibly missing, and whether the empty line that ends it   *)
(* is there (it is not if the datagram was longer than the buffer).        *)
(***************************************************************************)
EXTENDS Integers, Sequences

CONSTANTS Locations,    \* the LOCATIONs devices announce
          Bridges,      \* those whose description is that of a Hue bridge
          MaxDatagrams  \* bound: datagrams that arrive in one search

ASSUME DiscoveryAssumption ==
  /\ "" \notin Locations
  /\ Bridges \subseteq Locations
  /\ MaxDatagrams \in Nat

\* No such line is "".  Of SERVER it only matters if "IpBridge" is in it.
Datagrams == [loc : Locations \cup {""}, server : {"", "IpBridge", "other"},
              ended : BOOLEAN]

VARIABLES stage,     \* where findBridges is, "idle" outside
          stream,    \* what sendMulticast has appended to its response
          done,      \* how much of it, or of `devices', has been looked at
          devices,   \* getDevices' result
          found,     \* foundBridges: the location of each
          result,    \* how the last call ended
          mute       \* history: bridges whose description was not received

discoveryVars == <<stage, stream, done, devices, found, result, mute>>

DiscoveryInit == /\ stage = "idle" /\ stream = <<>> /\ done = 0
                 /\ devices = <<>> /\ found = <<>> /\ result = "none"
                 /\ mute = {}

\* findBridges: the M-SEARCH is sent.
Search ==
  /\ stage = "idle"
  /\ stage' = "listen"
  /\ stream' = <<>> /\ done' = 0 /\ devices' = <<>> /\ found' = <<>>
  /\ result' = "none"
  /\ mute' = {}

\* recv() returns a datagram before the timeout.  A device may answer several
\* times, in any order, or not be heard.
Hear(d) ==
  /\ stage = "listen" /\ Len(stream) < MaxDatagrams
  /\ stream' = Append(stream, d)
  /\ UNCHANGED <<stage, done, devices, found, result, mute>>

\* sendMulticast fails: no socket, or sendto or recv did.
SearchFails ==
  /\ stage = "listen"
  /\ stage' = "idle"
  /\ result' = "system_error"
  /\ UNCHANGED <<stream, done, devices, found, mute>>

\* The timeout is over.
TimeIsUp ==
  /\ stage = "listen"
  /\ stage' = "read"
  /\ UNCHANGED <<stream, done, devices, found, result, mute>>

----------------------------------------------------------------------------
\* The response is cut at the empty lines: what follows a datagram that has
\* none belongs to the same piece, and what follows the last is dropped.
Ends(s) == {i \in 1..Len(s) : s[i].ended}

NextEnd(s, n) == CHOOSE i \in Ends(s) : i > n /\ \A j \in Ends(s) : j > n => i <= j

\* find(): the first line of its kind in a piece, or "".
FirstOf(lines) ==
  LET there == {i \in DOMAIN lines : lines[i] # ""}
  IN  IF there = {} THEN ""
      ELSE lines[CHOOSE i \in there : \A j \in there : i <= j]

LocationOf(piece) == FirstOf([i \in DOMAIN piece |-> piece[i].loc])
ServerOf(piece)   == FirstOf([i \in DOMAIN piece |-> piece[i].server])

Known(list, loc) == \E i \in 1..Len(list) : list[i].loc = loc

\* Mutant: a device is read again with every answer.
ReadPieceAgain ==
  /\ stage = "read" /\ \E i \in Ends(stream) : i > done
  /\ done' = NextEnd(stream, done)
  /\ LET piece == SubSeq(stream, done + 1, done')
         loc   == LocationOf(piece)
     IN  devices' = IF loc = "" \/ ServerOf(piece) = ""
                      THEN devices
                      ELSE Append(devices, [loc |-> loc,
                                            server |-> ServerOf(piece)])
  /\ UNCHANGED <<stage, stream, found, result, mute>>

\* getDevices: a piece without a LOCATION or a SERVER is skipped, and so is
\* one with a location that is known.
ReadPiece ==
  /\ stage = "read" /\ \E i \in Ends(stream) : i > done
  /\ done' = NextEnd(stream, done)
  /\ LET piece == SubSeq(stream, done + 1, done')
         loc   == LocationOf(piece)
     IN  devices' = IF loc = "" \/ ServerOf(piece) = "" \/ Known(devices, loc)
                      THEN devices
                      ELSE Append(devices, [loc |-> loc,
                                            server |-> ServerOf(piece)])
  /\ UNCHANGED <<stage, stream, found, result, mute>>

AllRead ==
  /\ stage = "read" /\ \A i \in Ends(stream) : i <= done
  /\ stage' = "visit"
  /\ done' = 0
  /\ UNCHANGED <<stream, devices, found, result, mute>>

\* findBridges goes on to the next device.
Look == stage = "visit" /\ done < Len(devices) /\ done' = done + 1

Device == devices[done + 1]

PassBy ==
  /\ Look /\ Device.server # "IpBridge"
  /\ UNCHANGED <<stage, stream, devices, found, result, mute>>

\* GET /description.xml and parseDescription: a serial number only if the
\* description is a Hue bridge's.  A reply without a body is skipped ...
Visit ==
  /\ Look /\ Device.server = "IpBridge"
  /\ \/ /\ found' = IF Device.loc \in Bridges THEN Append(found, Device.loc)
                                              ELSE found
        /\ UNCHANGED mute
     \/ /\ mute' = mute \cup {Device.loc}
        /\ UNCHANGED found
  /\ UNCHANGED <<stage, stream, devices, result>>

\* ... any other failure of the request ends the search.
VisitFails ==
  /\ Look /\ Device.server = "IpBridge"
  /\ stage' = "idle"
  /\ result' = "system_error"
  /\ UNCHANGED <<stream, devices, found, mute>>

Finish ==
  /\ stage = "visit" /\ done = Len(devices)
  /\ stage' = "idle"
  /\ result' = "returned"
  /\ UNCHANGED <<stream, done, devices, found, mute>>

Progress == TimeIsUp \/ ReadPiece \/ AllRead \/ PassBy \/ Visit \/ Finish

DiscoveryNext == \/ Search \/ Progress \/ SearchFails \/ VisitFails
                 \/ \E d \in Datagrams : Hear(d)

DiscoverySpec == DiscoveryInit /\ [][DiscoveryNext]_discoveryVars

----------------------------------------------------------------------------
DiscoveryTypeOK ==
  /\ stage \in {"idle", "listen", "read", "visit"}
  /\ stream \in Seq(Datagrams)
  /\ devices \in Seq([loc : Locations, server : {"IpBridge", "other"}])
  /\ done \in Nat
  /\ found \in Seq(Bridges)
  /\ mute \subseteq Locations
  /\ result \in {"none", "returned", "system_error"}

\* A datagram that the search gets right: complete, and not behind one that
\* lacks its end.
Clear(i) == /\ stream[i].ended
            /\ i > 1 => stream[i - 1].ended

\* A bridge is found once, however often and in whatever pieces it answers,
\* and never one that did not announce itself.  None is missed whose answer
\* arrived in time and clear, unless it also called itself something else or
\* its description was not received: what garbles one answer hides no other
\* answers than the next.
BridgesFound ==
  /\ \A i, j \in 1..Len(found) : found[i] = found[j] => i = j
  /\ \A i \in 1..Len(found) : \E k \in 1..Len(stream) : stream[k].loc = found[i]
  /\ result = "returned" =>
       \A i \in 1..Len(stream) :
         LET loc == stream[i].loc IN
         /\ loc \in Bridges \ mute /\ stream[i].server = "IpBridge" /\ Clear(i)
         /\ \A k \in 1..Len(stream) : stream[k].loc = loc =>
              Clear(k) /\ stream[k].server # "other"
         => \E n \in 1..Len(found) : found[n] = loc
=============================================================================
