----------------------------- MODULE CommandAPI -----------------------------
(***************************************************************************)
(* HueCommandAPI: threads issue requests through copies of one             *)
(* HueCommandAPI, which share the TimeoutData (a mutex and the earliest    *)
(* time of the next request).  RunWithTimeout reads the clock, takes the   *)
(* mutex, sleeps until the shared timeout, runs the exchange and runs it   *)
(* once more when the connection was reset or timed out.                   *)
(*                                                                         *)
(* PUTRequest, GETRequest, DELETERequest and POSTRequest differ only in    *)
(* the HTTP verb, so a call is one of them.  The HTTP exchange is the      *)
(* environment: it takes any time and ends in any of Outcomes.  sends and  *)
(* last are history variables.                                             *)
(***************************************************************************)
EXTENDS Integers, Sequences, FiniteSets

CONSTANTS Threads,   \* threads that use copies of one HueCommandAPI
          NoThread,  \* the mutex is free
          Delay,     \* Config::getBridgeRequestDelay()
          MaxCalls,  \* bound: calls per thread
          MaxClock   \* bound: up to here time passes even if nobody sleeps

ASSUME CommandAssumption ==
  /\ IsFiniteSet(Threads)
  /\ NoThread \notin Threads
  /\ Delay \in Nat
  /\ MaxCalls \in Nat
  /\ MaxClock \in Nat

VARIABLES clock,    \* std::chrono::steady_clock
          timeout,  \* TimeoutData::timeout
          mutex,    \* TimeoutData::mutex, its holder
          pc,       \* where each thread is in RunWithTimeout
          now,      \* the local `now' of each thread
          at,       \* when its current exchange began
          wake,     \* when its sleep_for ends
          tries,    \* exchanges started by its current call
          calls,    \* calls it has made
          sends,    \* history: the answered exchanges
          last      \* history: the last exchange that ended

shared  == <<timeout, mutex>>
locals  == <<pc, now, at, wake, tries, calls>>
history == <<sends, last>>
vars    == <<clock, shared, locals, history>>

\* What the HTTP exchange can end in: a reply, a reply that holds an error
\* member, a std::system_error with connection_reset or timed_out, or
\* another exception (refused connection, no body, unparsable body).
Outcomes == {"reply", "apiError", "reset", "other"}
Answered == {"reply", "apiError"}

Locations == {"idle", "entered", "locked", "exchange", "backoff", "again"}

Init ==
  /\ clock = 0
  /\ timeout = 0
  /\ mutex = NoThread
  /\ pc = [t \in Threads |-> "idle"]
  /\ now = [t \in Threads |-> 0]
  /\ at = [t \in Threads |-> 0]
  /\ wake = [t \in Threads |-> 0]
  /\ tries = [t \in Threads |-> 0]
  /\ calls = [t \in Threads |-> 0]
  /\ sends = <<>>
  /\ last = [by |-> NoThread, ended |-> 0, res |-> "none"]

\* A request is called: `now' is read before the mutex is requested.
Enter(t) ==
  /\ pc[t] = "idle"
  /\ calls[t] < MaxCalls
  /\ calls' = [calls EXCEPT ![t] = @ + 1]
  /\ now' = [now EXCEPT ![t] = clock]
  /\ pc' = [pc EXCEPT ![t] = "entered"]
  /\ UNCHANGED <<clock, shared, at, wake, tries, history>>

\* Mutant: the mutex is a member of each copy instead of the shared data.
LockOwnMutex(t) ==
  /\ pc[t] = "entered"
  /\ mutex' = t
  /\ pc' = [pc EXCEPT ![t] = "locked"]
  /\ UNCHANGED <<clock, timeout, now, at, wake, tries, calls, history>>

Lock(t) ==
  /\ pc[t] = "entered"
  /\ mutex = NoThread
  /\ mutex' = t
  /\ pc' = [pc EXCEPT ![t] = "locked"]
  /\ UNCHANGED <<clock, timeout, now, at, wake, tries, calls, history>>

StartExchange(t, where) ==
  /\ tries' = [tries EXCEPT ![t] = @ + 1]
  /\ at' = [at EXCEPT ![t] = clock]
  /\ pc' = [pc EXCEPT ![t] = where]
  /\ UNCHANGED <<clock, shared, now, wake, calls, history>>

\* sleep_until(timeout) unless the timeout had passed when the call began,
\* then the first exchange.  The thread sleeps with the mutex held.
Send(t) ==
  /\ pc[t] = "locked"
  /\ timeout > now[t] => clock >= timeout
  /\ StartExchange(t, "exchange")

Ended(t, res) == last' = [by |-> t, ended |-> clock, res |-> res]

\* The call ends: its locals are gone and the lock_guard releases the mutex.
\* HandleError then throws for a reply that holds an error member, too late
\* to touch the timeout.
Return(t, res) ==
  /\ Ended(t, res)
  /\ mutex' = NoThread
  /\ pc' = [pc EXCEPT ![t] = "idle"]
  /\ now' = [now EXCEPT ![t] = 0]
  /\ at' = [at EXCEPT ![t] = 0]
  /\ wake' = [wake EXCEPT ![t] = 0]
  /\ tries' = [tries EXCEPT ![t] = 0]
  /\ UNCHANGED <<clock, calls>>

\* The time the next Delay counts from.  After a first exchange that is the
\* `now' read at entry; after a retry the clock is read again.
CountedFrom(t) == IF pc[t] = "again" THEN clock ELSE now[t]

\* Mutant: the shared timeout is not advanced after an answer.
ReplyKeepsTimeout(t, res) ==
  /\ pc[t] \in {"exchange", "again"}
  /\ res \in Answered
  /\ sends' = Append(sends, [by |-> t, since |-> CountedFrom(t), at |-> at[t], done |-> clock])
  /\ Return(t, res)
  /\ UNCHANGED timeout

Reply(t, res) ==
  /\ pc[t] \in {"exchange", "again"}
  /\ res \in Answered
  /\ timeout' = CountedFrom(t) + Delay
  /\ sends' = Append(sends, [by |-> t, since |-> CountedFrom(t), at |-> at[t], done |-> clock])
  /\ Return(t, res)

\* Mutants: a retry at once, a retry in a loop, a second retry.
BackoffNoSleep(t) ==
  /\ pc[t] = "exchange"
  /\ pc' = [pc EXCEPT ![t] = "backoff"]
  /\ wake' = [wake EXCEPT ![t] = clock]
  /\ Ended(t, "reset")
  /\ UNCHANGED <<clock, shared, now, at, tries, calls, sends>>

BackoffLoop(t) ==
  /\ pc[t] = "exchange"
  /\ pc' = [pc EXCEPT ![t] = "locked"]
  /\ tries' = [tries EXCEPT ![t] = 0]
  /\ Ended(t, "reset")
  /\ UNCHANGED <<clock, shared, now, at, wake, calls, sends>>

BackoffTwice(t) ==
  /\ pc[t] \in {"exchange", "again"}
  /\ pc' = [pc EXCEPT ![t] = "backoff"]
  /\ wake' = [wake EXCEPT ![t] = clock + Delay]
  /\ Ended(t, "reset")
  /\ UNCHANGED <<clock, shared, now, at, tries, calls, sends>>

\* connection_reset or timed_out in the first exchange: sleep_for(minDelay),
\* still holding the mutex.
Backoff(t) ==
  /\ pc[t] = "exchange"
  /\ pc' = [pc EXCEPT ![t] = "backoff"]
  /\ wake' = [wake EXCEPT ![t] = clock + Delay]
  /\ Ended(t, "reset")
  /\ UNCHANGED <<clock, shared, now, at, tries, calls, sends>>

Retry(t) ==
  /\ pc[t] = "backoff"
  /\ clock >= wake[t]
  /\ StartExchange(t, "again")

\* Any other exception, and every exception of the retry, leaves
\* RunWithTimeout without an update of the timeout.
Throw(t, res) ==
  /\ \/ pc[t] = "exchange" /\ res = "other"
     \/ pc[t] = "again" /\ res \in {"reset", "other"}
  /\ Return(t, res)
  /\ UNCHANGED <<timeout, sends>>

Sleeping(t) ==
  \/ pc[t] = "locked" /\ timeout > now[t] /\ clock < timeout
  \/ pc[t] = "backoff" /\ clock < wake[t]

\* Time passes.  After MaxClock it passes only while somebody sleeps.
Tick ==
  /\ clock < MaxClock \/ \E t \in Threads : Sleeping(t)
  /\ clock' = clock + 1
  /\ UNCHANGED <<shared, locals, history>>

\* Every thread has made its calls and time has stopped (a bound, not code).
Finished ==
  /\ \A t \in Threads : pc[t] = "idle" /\ calls[t] = MaxCalls
  /\ clock >= MaxClock
  /\ UNCHANGED vars

\* The steps RunWithTimeout takes once it has been called.
Run(t) ==
  \/ Lock(t) \/ Send(t) \/ Backoff(t) \/ Retry(t)
  \/ \E res \in Outcomes : Reply(t, res) \/ Throw(t, res)

Next == Tick \/ Finished \/ \E t \in Threads : Enter(t) \/ Run(t)

Spec == Init /\ [][Next]_vars

\* Threads run and time passes for sleepers.  The mutex is only weakly fair:
\* std::mutex promises no order, so that every call returns rests on MaxCalls
\* being finite.
Fairness ==
  /\ \A t \in Threads : WF_vars(Lock(t) \/ Send(t) \/ Retry(t))
  /\ WF_vars(Tick)

\* Assumed of the bridge, not guaranteed by the code: an exchange ends.
\* LinHttpHandler::send sets no receive timeout (LinHttpHandler.cpp:120), so a
\* bridge that accepts a connection and stays silent holds up every thread.
ExchangesEnd ==
  \A t \in Threads :
    WF_vars(Backoff(t) \/ \E res \in Outcomes : Reply(t, res) \/ Throw(t, res))

FairSpec == Spec /\ Fairness /\ ExchangesEnd
----------------------------------------------------------------------------
Holding == {"locked", "exchange", "backoff", "again"}

\* One answered exchange: who, counted from when, begun when, ended when.
SentRecord == [by : Threads, since : Nat, at : Nat, done : Nat]

EndRecord == [by : Threads \cup {NoThread}, ended : Nat, res : Outcomes \cup {"none"}]

CommandTypeOK ==
  /\ clock \in Nat
  /\ timeout \in Nat
  /\ mutex \in Threads \cup {NoThread}
  /\ pc \in [Threads -> Locations]
  /\ now \in [Threads -> Nat]
  /\ at \in [Threads -> Nat]
  /\ wake \in [Threads -> Nat]
  /\ tries \in [Threads -> 0 .. 2]
  /\ calls \in [Threads -> 0 .. MaxCalls]
  /\ sends \in Seq(SentRecord)
  /\ last \in EndRecord

\* The bridge never has two requests of this API in progress: an exchange,
\* and the back-off before its retry, exclude every other thread although
\* each thread uses a HueCommandAPI object of its own.
SerialExchanges ==
  \A t, u \in Threads :
    pc[t] \in {"exchange", "backoff", "again"} /\ pc[u] \in {"exchange", "backoff", "again"}
      => t = u

\* A request is repeated only directly after its own exchange was reset or
\* timed out, at least Delay after that, and at most once per call.
RetryDiscipline ==
  [][\A t \in Threads :
       tries'[t] > tries[t] /\ tries[t] > 0
         => /\ tries'[t] = 2
            /\ last.by = t
            /\ last.res = "reset"
            /\ clock >= last.ended + Delay]_vars

\* Every call returns or throws if exchanges end: no outcome of an exchange
\* leaves the mutex locked, and no thread sleeps or waits forever (for finitely
\* many calls).
EveryCallEnds == \A t \in Threads : pc[t] # "idle" ~> pc[t] = "idle"

\* The pacing seen by the bridge, as PacedLink states it.
Link == INSTANCE PacedLink
          WITH time <- clock,
               pending <- [t \in Threads |-> IF pc[t] = "idle" THEN -1 ELSE now[t]]

\* RunWithTimeout implements the paced serial link.
ImplementsPacedLink == Link!Spec

\* In any period shorter than Delay the bridge answers at most one request
\* per thread plus one, see PacedLink.
BurstBound == Link!BurstBound

\* HueCommandAPI.h: "This function will block until at least
\* Config::getBridgeRequestDelay() has passed to any previous request".
DocumentedSpacing ==
  \A i, k \in 1 .. Len(sends) : i < k => sends[i].at + Delay <= sends[k].at
=============================================================================
