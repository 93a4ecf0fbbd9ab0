----------------------------- MODULE PacedLink -----------------------------
(***************************************************************************)
(* What HueCommandAPI promises to its callers about the traffic it sends   *)
(* to the bridge, without mutex, timeouts or retries.                      *)
(*                                                                         *)
(* Clients enter at some time and leave either without an answer or with   *)
(* one answered exchange.  An exchange occupies the interval at .. done.   *)
(* The link is serial, and the next answered exchange begins at least      *)
(* Delay after the time `since' from which the previous one was counted.   *)
(* `since' is any time between the entry of that call and its answer: the  *)
(* implementation counts from the entry unless it had to retry.            *)
(***************************************************************************)
EXTENDS Integers, Sequences, FiniteSets

CONSTANTS Threads,  \* the threads that issue requests
          Delay     \* Config::getBridgeRequestDelay()

\* What the theorems about the link assume; CommandAPI assumes it too.
LinkAssumption ==
  /\ IsFiniteSet(Threads)
  /\ Delay \in Nat

VARIABLES time,     \* the steady clock
          sends,    \* the answered exchanges, oldest first
          pending   \* when each thread entered its call, NotCalling outside one

linkVars == <<time, sends, pending>>

NotCalling == -1

Exchange == [by : Threads, since : Nat, at : Nat, done : Nat]

Init ==
  /\ time = 0
  /\ sends = <<>>
  /\ pending = [t \in Threads |-> NotCalling]

Enter(t) ==
  /\ pending[t] = NotCalling
  /\ pending' = [pending EXCEPT ![t] = time]
  /\ UNCHANGED <<time, sends>>

\* The serial link, paced: `at' comes after the previous exchange has ended
\* and Delay after the moment that exchange is counted from.
MaySendAt(at) ==
  sends # <<>> => LET last == sends[Len(sends)]
                  IN  /\ last.done <= at
                      /\ last.since + Delay <= at

Answer(t) ==
  /\ pending[t] # NotCalling
  /\ \E at, since \in pending[t] .. time :
       /\ MaySendAt(at)
       /\ sends' = Append(sends, [by |-> t, since |-> since, at |-> at, done |-> time])
  /\ pending' = [pending EXCEPT ![t] = NotCalling]
  /\ UNCHANGED time

GiveUp(t) ==
  /\ pending[t] # NotCalling
  /\ pending' = [pending EXCEPT ![t] = NotCalling]
  /\ UNCHANGED <<time, sends>>

Pass ==
  /\ time' = time + 1
  /\ UNCHANGED <<sends, pending>>

Next == Pass \/ \E t \in Threads : Enter(t) \/ Answer(t) \/ GiveUp(t)

Spec == Init /\ [][Next]_linkVars
----------------------------------------------------------------------------
LinkTypeOK ==
  /\ time \in Nat
  /\ sends \in Seq(Exchange)
  /\ pending \in [Threads -> Nat \cup {NotCalling}]

\* Two calls of one thread pace everybody: whatever is sent after the second
\* answer of a thread is sent at least Delay after its first answer.  This is
\* the spacing RunWithTimeout really gives, and it is weaker than "Delay
\* since any previous request".
PairSpacing ==
  \A i, j, k \in 1 .. Len(sends) :
    i < j /\ j < k /\ sends[i].by = sends[j].by
      => sends[i].done + Delay <= sends[k].at

\* However the threads interleave, at most one answered exchange per thread
\* and one more fall into any period shorter than Delay: the bridge never
\* sees a burst that grows with the number of calls.
BurstBound ==
  \A i, k \in 1 .. Len(sends) :
    i + Cardinality(Threads) < k => sends[i].done + Delay <= sends[k].at
=============================================================================
