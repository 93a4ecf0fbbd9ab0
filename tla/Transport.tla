----------------------------- MODULE Transport ------------------------------
(***************************************************************************)
(* One HTTP request: LinHttpHandler::send over a TCP socket, and           *)
(* BaseHttpHandler, which takes the body out of the reply and parses it.   *)
(*                                                                         *)
(* Requests and replies are sequences of symbols: "n" is an end of line    *)
(* and an empty line, <<"n", "n">>, ends a header.  The peer is external:  *)
(* it may reply in any pieces, stop in the middle, or never close.         *)
(***************************************************************************)
EXTENDS Integers, Sequences

CONSTANTS Symbols,    \* what requests and replies are made of
          Requests,   \* what programs send
          Replies,    \* what a peer replies, whole
          Documents   \* bodies that are JSON documents

ASSUME TransportAssumption ==
  /\ \A m \in Requests : m \in Seq(Symbols) /\ Len(m) > 0
  /\ \A r \in Replies : r \in Seq(Symbols)
  \* what is left of a document whose end is missing is no document
  /\ \A d \in Documents : \A n \in 0..Len(d) - 1 :
       SubSeq(d, 1, n) \notin Documents

VARIABLES step,       \* where the call is, "idle" outside
          msg,        \* the request
          sent,       \* how much of it the caller counts as written
          refused,    \* write() took nothing and the caller stopped writing
          response,   \* what has been read
          fds,        \* sockets this call has open
          outcome,    \* how the last call ended
          body,       \* what it returned
          taken,      \* the connection: the bytes write() took, in order
          heard,      \* the peer: how many of them have reached it
          reply,      \* the reply it is making
          replied,    \* how much of it is on its way or read
          line        \* its end of the connection: open, closed or silent

callVars == <<step, msg, sent, refused, response, fds, outcome, body>>
peerVars == <<heard, reply, replied, line>>
transportVars == <<callVars, taken, peerVars>>

TransportInit ==
  /\ step = "idle" /\ msg = <<>> /\ sent = 0 /\ refused = FALSE
  /\ response = <<>> /\ fds = 0 /\ outcome = "none" /\ body = <<>>
  /\ taken = <<>> /\ heard = 0 /\ reply = <<>> /\ replied = 0 /\ line = "closed"

\* A call of GETJson, PUTJson, POSTJson or DELETEJson: socket().
Send(m) ==
  /\ step = "idle"
  /\ msg' = m /\ sent' = 0 /\ refused' = FALSE
  /\ response' = <<>> /\ body' = <<>>
  /\ step' = "connect" /\ outcome' = "none"
  /\ fds' = 1
  /\ taken' = <<>> /\ heard' = 0 /\ reply' = <<>> /\ replied' = 0 /\ line' = "closed"

\* An exception leaves send(): SocketCloser closes the socket.
Throw(what) ==
  /\ step' = "idle"
  /\ fds' = 0
  /\ outcome' = what
  /\ UNCHANGED <<msg, sent, refused, response, body>>

\* gethostbyname and connect.
Connect ==
  /\ step = "connect"
  /\ \/ /\ step' = "write"
        /\ line' = "open"
        /\ reply' \in Replies
        /\ UNCHANGED <<msg, sent, refused, response, fds, outcome, body, taken,
                       heard, replied>>
     \/ /\ Throw("system_error")
        /\ UNCHANGED <<taken, peerVars>>

\* Mutant: what a short write has left is not written.
WriteOnce ==
  /\ step = "write"
  /\ \/ /\ \E bytes \in 0..Len(msg) - sent :
             /\ sent' = sent + bytes
             /\ refused' = (bytes = 0)
             /\ taken' = taken \o SubSeq(msg, sent + 1, sent + bytes)
        /\ step' = "read"
        /\ UNCHANGED <<msg, response, fds, outcome, body, peerVars>>
     \/ /\ Throw("system_error")
        /\ UNCHANGED <<taken, peerVars>>

\* write() of what is left takes some of it, even when the peer has gone (the
\* connection learns that later), or fails.  The loop ends when nothing is
\* left or nothing was taken.
Write ==
  /\ step = "write"
  /\ \/ /\ \E bytes \in 0..Len(msg) - sent :
             /\ sent' = sent + bytes
             /\ refused' = (bytes = 0)
             /\ taken' = taken \o SubSeq(msg, sent + 1, sent + bytes)
        /\ step' = IF refused' \/ sent' = Len(msg) THEN "read" ELSE "write"
        /\ UNCHANGED <<msg, response, fds, outcome, body, peerVars>>
     \/ /\ Throw("system_error")
        /\ UNCHANGED <<taken, peerVars>>

\* read() returns some of what has arrived of the reply since.
Read ==
  /\ step = "read" /\ replied > Len(response)
  /\ \E n \in Len(response) + 1..replied :
       response' = response \o SubSeq(reply, Len(response) + 1, n)
  /\ UNCHANGED <<step, msg, sent, refused, fds, outcome, body, taken, peerVars>>

\* The body begins behind the first empty line.
BodyStarts(r) == {i \in 1..Len(r) - 1 : r[i] = "n" /\ r[i + 1] = "n"}

Body(r) ==
  LET first == CHOOSE i \in BodyStarts(r) : \A j \in BodyStarts(r) : i <= j
  IN  SubSeq(r, first + 2, Len(r))

\* Mutant: send() goes on reading as long as there is no body.
EndOfReplyWaits ==
  /\ step = "read" /\ replied = Len(response) /\ line = "closed"
  /\ BodyStarts(response) # {}
  /\ step' = "idle"
  /\ fds' = 0
  /\ IF Body(response) \notin Documents
       THEN outcome' = "parse_error" /\ UNCHANGED body
     ELSE outcome' = "returned" /\ body' = Body(response)
  /\ UNCHANGED <<msg, sent, refused, response, taken, peerVars>>

\* The end of the reply: send() returns, sendGetHTTPBody looks for the body
\* and parse() for a document.
EndOfReply ==
  /\ step = "read" /\ replied = Len(response) /\ line = "closed"
  /\ step' = "idle"
  /\ fds' = 0
  /\ IF BodyStarts(response) = {}
       THEN outcome' = "HueException" /\ UNCHANGED body
     ELSE IF Body(response) \notin Documents
       THEN outcome' = "parse_error" /\ UNCHANGED body
     ELSE outcome' = "returned" /\ body' = Body(response)
  /\ UNCHANGED <<msg, sent, refused, response, taken, peerVars>>

ReadFails ==
  step = "read" /\ Throw("system_error") /\ UNCHANGED <<taken, peerVars>>

\* What was written reaches the peer, piece by piece ...
Arrive ==
  /\ line = "open" /\ step # "idle"
  /\ \E n \in heard + 1..Len(taken) : heard' = n
  /\ UNCHANGED <<callVars, taken, reply, replied, line>>

\* ... which sends a piece of its reply, not always to all of the request ...
Reply ==
  /\ line = "open" /\ heard > 0 /\ step # "idle"
  /\ \E n \in replied + 1..Len(reply) : replied' = n
  /\ UNCHANGED <<callVars, taken, heard, reply, line>>

\* ... closes, after the reply or before ...
PeerCloses ==
  /\ line = "open" /\ step # "idle"
  /\ line' = "closed"
  /\ UNCHANGED <<callVars, taken, heard, reply, replied>>

\* ... or is never heard of again.
PeerHangs ==
  /\ line = "open" /\ step # "idle"
  /\ line' = "silent"
  /\ UNCHANGED <<callVars, taken, heard, reply, replied>>

Caller == Connect \/ Write \/ Read \/ EndOfReply

Peer == Arrive \/ Reply \/ PeerCloses \/ PeerHangs

TransportNext == (\E m \in Requests : Send(m)) \/ Caller \/ ReadFails \/ Peer

\* The calling thread runs, and a connection is closed in the end unless the
\* peer hangs.
TransportFairness == WF_transportVars(Caller) /\ WF_transportVars(PeerCloses)

TransportSpec ==
  TransportInit /\ [][TransportNext]_transportVars /\ TransportFairness

----------------------------------------------------------------------------
TransportTypeOK ==
  /\ step \in {"idle", "connect", "write", "read"}
  /\ sent \in 0..Len(msg) /\ refused \in BOOLEAN
  /\ fds = IF step = "idle" THEN 0 ELSE 1
  /\ outcome \in {"none", "system_error", "HueException", "parse_error",
                  "returned"}
  /\ heard \in 0..Len(taken) /\ replied \in 0..Len(reply)
  /\ line \in {"open", "closed", "silent"}

\* The request is written whole: when the call has gone on to the reply, and
\* when it has ended otherwise than by an error of the socket, the connection
\* has taken every byte of the request, in order and once, however often
\* write() took less than it was given, unless it took nothing at all.  At any
\* time the peer has heard a beginning of the request.
\*
\* The reply is read whole: however read() splits it, what the call has is its
\* beginning, and what it returns is a whole document and all of the body the
\* peer sent, never one that was cut off.
NothingLostOrTorn ==
  /\ step = "read" \/ outcome \in {"HueException", "parse_error", "returned"} =>
       taken = msg \/ refused
  /\ \E n \in 0..Len(msg) : SubSeq(taken, 1, heard) = SubSeq(msg, 1, n)
  /\ \E n \in 0..Len(reply) : response = SubSeq(reply, 1, n)
  /\ outcome = "returned" =>
       /\ BodyStarts(reply) # {}
       /\ \E n \in 0..Len(Body(reply)) : body = SubSeq(Body(reply), 1, n)
       /\ body \in Documents
       /\ Body(reply) \in Documents => body = Body(reply)

\* A call ends unless the peer hangs: read() has no timeout.
SendEnds == step # "idle" ~> step = "idle" \/ line = "silent"
=============================================================================
