-------------------------- MODULE CommandAPIProofs --------------------------
(***************************************************************************)
(* RunWithTimeout for any number of threads, any delay and any number of   *)
(* calls: one exchange at a time, and an implementation of PacedLink.      *)
(***************************************************************************)
EXTENDS CommandAPI, TLAPS

\* The lock_guard: exactly the threads past Lock hold the mutex.
LockInv == \A t \in Threads : pc[t] \in Holding <=> mutex = t

InExchange == {"exchange", "backoff", "again"}

\* What the clock readings of a thread are worth.  A thread that is not idle
\* read `now' in the past.  Its exchange began after that, not before the
\* shared timeout and not before the previous answer.
ClockInv ==
  \A t \in Threads :
    /\ pc[t] # "idle" => now[t] <= clock
    /\ pc[t] \in InExchange =>
         /\ now[t] <= at[t] /\ at[t] <= clock
         /\ timeout <= at[t]
         /\ sends # <<>> => sends[Len(sends)].done <= at[t]

\* The shared timeout is Delay after the moment the last answer counts from,
\* and no answer lies in the future.
TimeoutInv ==
  sends # <<>> => /\ timeout = sends[Len(sends)].since + Delay
                  /\ sends[Len(sends)].done <= clock

\* A call has started no exchange before the first and one before the retry.
TriesInv ==
  \A t \in Threads :
    /\ pc[t] \in {"idle", "entered", "locked"} => tries[t] = 0
    /\ pc[t] \in {"exchange", "backoff"} => tries[t] = 1

\* A thread that backs off ended the last exchange, by a reset.
BackoffInv ==
  \A t \in Threads : pc[t] = "backoff" =>
    /\ last.by = t
    /\ last.res = "reset"
    /\ wake[t] = last.ended + Delay

CommandInv == CommandTypeOK /\ LockInv /\ ClockInv /\ TimeoutInv /\ TriesInv /\ BackoffInv
----------------------------------------------------------------------------
LEMMA CommandInit == Init => CommandInv
<1> SUFFICES ASSUME Init PROVE CommandInv
  OBVIOUS
<1> USE CommandAssumption DEF Init
<1>1. CommandTypeOK
  <2>1. last \in EndRecord
    BY DEF EndRecord
  <2> QED BY <2>1 DEF CommandTypeOK, Locations
<1>2. LockInv /\ ClockInv /\ TimeoutInv /\ TriesInv /\ BackoffInv
  BY DEF LockInv, ClockInv, TimeoutInv, TriesInv, BackoffInv, Holding, InExchange
<1> QED BY <1>1, <1>2 DEF CommandInv

\* Entering a call, taking the mutex and the passing of time.
LEMMA EnterStep == ASSUME CommandInv, NEW t \in Threads, Enter(t) PROVE CommandInv'
<1> USE CommandAssumption DEF CommandInv, CommandTypeOK, Enter, shared, history
<1>1. CommandTypeOK'
  <2>1. pc' \in [Threads -> Locations] /\ now' \in [Threads -> Nat]
    BY DEF Locations
  <2>2. calls' \in [Threads -> 0 .. MaxCalls]
    OBVIOUS
  <2> QED BY <2>1, <2>2
<1>2. LockInv' /\ TimeoutInv' /\ TriesInv' /\ BackoffInv'
  <2>1. LockInv' /\ TimeoutInv'
    BY DEF LockInv, TimeoutInv, Holding
  <2>2. TriesInv' /\ BackoffInv'
    BY DEF TriesInv, BackoffInv
  <2> QED BY <2>1, <2>2
<1>3. ClockInv'
  BY DEF ClockInv, InExchange
<1> QED BY <1>1, <1>2, <1>3

LEMMA LockStep == ASSUME CommandInv, NEW t \in Threads, Lock(t) PROVE CommandInv'
<1> USE CommandAssumption DEF CommandInv, CommandTypeOK, Lock, history
<1>1. CommandTypeOK'
  BY DEF Locations
<1>2. LockInv' /\ TimeoutInv' /\ TriesInv' /\ BackoffInv'
  BY DEF LockInv, TimeoutInv, TriesInv, BackoffInv, Holding
<1>3. ClockInv'
  BY DEF ClockInv, InExchange
<1> QED BY <1>1, <1>2, <1>3

LEMMA TickStep == ASSUME CommandInv, Tick PROVE CommandInv'
<1> USE CommandAssumption DEF CommandInv, CommandTypeOK, Tick, shared, locals, history
<1>1. CommandTypeOK'
  OBVIOUS
<1>2. LockInv' /\ TriesInv' /\ BackoffInv'
  BY DEF LockInv, TriesInv, BackoffInv
<1>3. ClockInv'
  BY DEF ClockInv, InExchange
<1>4. TimeoutInv'
  <2>1. sends # <<>> => sends[Len(sends)] \in SentRecord
    OBVIOUS
  <2>2. sends # <<>> => sends[Len(sends)].done \in Nat
    BY <2>1 DEF SentRecord
  <2> QED BY <2>2 DEF TimeoutInv
<1> QED BY <1>1, <1>2, <1>3, <1>4

\* The first exchange and its retry both begin with the mutex held, not
\* before the timeout and not before the previous answer.
LEMMA StartStep ==
  ASSUME CommandInv, NEW t \in Threads, Send(t) \/ Retry(t)
  PROVE  CommandInv'
<1> USE CommandAssumption DEF CommandInv, CommandTypeOK
<1>1. /\ clock >= timeout
      /\ now[t] <= clock
      /\ tries[t] \in {0, 1}
      /\ mutex = t
      /\ pc[t] \in Holding
      /\ sends # <<>> => sends[Len(sends)].done <= clock
  BY DEF Send, Retry, ClockInv, TriesInv, LockInv, TimeoutInv, Holding, InExchange
<1>2. PICK where \in {"exchange", "again"} :
        /\ StartExchange(t, where)
        /\ where = "exchange" => tries[t] = 0
  BY DEF Send, Retry, TriesInv
<1> HIDE DEF CommandInv
<1>3. CommandTypeOK'
  BY <1>1, <1>2 DEF CommandInv, StartExchange, shared, history, Locations
<1>4. LockInv'
  BY <1>1, <1>2 DEF CommandInv, StartExchange, shared, LockInv, Holding
<1>5. TimeoutInv' /\ BackoffInv'
  BY <1>2 DEF CommandInv, StartExchange, shared, history, TimeoutInv, BackoffInv
<1>6. TriesInv'
  BY <1>2 DEF CommandInv, StartExchange, TriesInv
<1>7. ClockInv'
  <2>1. ASSUME NEW u \in Threads, u # t
        PROVE  now'[u] = now[u] /\ at'[u] = at[u] /\ pc'[u] = pc[u]
    BY <1>2, <2>1 DEF CommandInv, StartExchange
  <2>2. /\ clock' = clock /\ timeout' = timeout /\ sends' = sends
        /\ now'[t] = now[t] /\ at'[t] = clock
    BY <1>2 DEF CommandInv, StartExchange, shared, history
  <2>3. timeout <= clock /\ clock <= clock
    BY <1>1 DEF CommandInv
  <2> QED BY <1>1, <2>1, <2>2, <2>3 DEF CommandInv, ClockInv, InExchange
<1> QED BY <1>3, <1>4, <1>5, <1>6, <1>7 DEF CommandInv

LEMMA BackoffStep == ASSUME CommandInv, NEW t \in Threads, Backoff(t) PROVE CommandInv'
<1> USE CommandAssumption DEF CommandInv, CommandTypeOK, Backoff, Ended, shared
<1>1. CommandTypeOK'
  <2>1. pc' \in [Threads -> Locations] /\ wake' \in [Threads -> Nat]
    BY DEF Locations
  <2>2. last' \in EndRecord
    BY DEF Outcomes, EndRecord
  <2> QED BY <2>1, <2>2
<1>2. LockInv' /\ TimeoutInv' /\ TriesInv'
  <2>1. LockInv'
    BY DEF LockInv, Holding
  <2>2. TimeoutInv' /\ TriesInv'
    BY DEF TimeoutInv, TriesInv
  <2> QED BY <2>1, <2>2
<1>3. BackoffInv'
  BY DEF BackoffInv, LockInv, Holding
<1>4. ClockInv'
  BY DEF ClockInv, InExchange
<1> QED BY <1>1, <1>2, <1>3, <1>4

\* The end of a call.  No other thread is in an exchange, so nobody else
\* depends on the timeout and the history that change.
LEMMA ReturnStep ==
  ASSUME CommandInv, NEW t \in Threads, NEW res \in Outcomes, Reply(t, res) \/ Throw(t, res)
  PROVE  CommandInv'
<1> USE CommandAssumption DEF CommandInv, CommandTypeOK, Return, Ended
<1>1. /\ pc[t] \in {"exchange", "again"}
      /\ Return(t, res)
  BY DEF Reply, Throw
<1>2. CountedFrom(t) \in Nat /\ CountedFrom(t) <= clock
  BY <1>1 DEF CountedFrom, ClockInv, InExchange
<1> DEFINE e == [by |-> t, since |-> CountedFrom(t), at |-> at[t], done |-> clock]
<1>3. timeout' \in Nat /\ sends' \in Seq(SentRecord)
  <2>1. e \in SentRecord
    BY <1>2 DEF SentRecord
  <2>2. CASE Reply(t, res)
    BY <1>2, <2>1, <2>2 DEF Reply
  <2>3. CASE Throw(t, res)
    BY <2>3 DEF Throw
  <2> QED BY <2>2, <2>3
<1>4. CommandTypeOK'
  <2>1. last' \in EndRecord
    BY <1>1 DEF EndRecord
  <2> QED BY <1>1, <1>3, <2>1 DEF Locations
<1>5. LockInv' /\ TriesInv'
  BY <1>1 DEF LockInv, TriesInv, Holding
<1>6. \A u \in Threads : pc'[u] \notin InExchange
  BY <1>1 DEF LockInv, Holding, InExchange
<1>7. BackoffInv'
  BY <1>6 DEF BackoffInv, InExchange
<1>8. ClockInv'
  BY <1>1, <1>6 DEF ClockInv
<1>9. TimeoutInv'
  <2>1. CASE Reply(t, res)
    <3>1. sends' = Append(sends, e) /\ timeout' = CountedFrom(t) + Delay /\ clock' = clock
      BY <2>1 DEF Reply
    <3>2. sends'[Len(sends')] = e
      BY <3>1
    <3> QED BY <3>1, <3>2 DEF TimeoutInv
  <2>2. CASE Throw(t, res)
    BY <2>2 DEF Throw, TimeoutInv
  <2> QED BY <2>1, <2>2
<1> QED BY <1>4, <1>5, <1>7, <1>8, <1>9

LEMMA CommandStep == CommandInv /\ [Next]_vars => CommandInv'
<1> SUFFICES ASSUME CommandInv, [Next]_vars PROVE CommandInv'
  OBVIOUS
<1>1. CASE UNCHANGED vars
  BY <1>1 DEF vars, shared, locals, history, CommandInv, CommandTypeOK, LockInv, ClockInv,
              TimeoutInv, TriesInv, BackoffInv
<1>2. CASE Tick
  BY <1>2, TickStep
<1>3. CASE Finished
  BY <1>1, <1>3 DEF Finished
<1>4. ASSUME NEW t \in Threads, Enter(t) \/ Run(t) PROVE CommandInv'
  BY <1>4, EnterStep, LockStep, StartStep, BackoffStep, ReturnStep DEF Run
<1> QED BY <1>1, <1>2, <1>3, <1>4 DEF Next

THEOREM CommandInvariant == Spec => []CommandInv
BY CommandInit, CommandStep, PTL DEF Spec

\* Type correctness for any number of threads and calls (RunWithTimeout).
THEOREM CommandTypeCorrect == Spec => []CommandTypeOK
<1>1. CommandInv => CommandTypeOK
  BY DEF CommandInv
<1> QED BY <1>1, CommandInvariant, PTL

\* At most one exchange of the copies of a HueCommandAPI is in progress.
THEOREM ExchangesAreSerial == Spec => []SerialExchanges
<1>1. CommandInv => SerialExchanges
  BY DEF CommandInv, LockInv, SerialExchanges, Holding
<1> QED BY <1>1, CommandInvariant, PTL

LEMMA RetryStep ==
  ASSUME CommandInv, [Next]_vars, NEW t \in Threads, tries'[t] > tries[t], tries[t] > 0
  PROVE  tries'[t] = 2 /\ last.by = t /\ last.res = "reset" /\ clock >= last.ended + Delay
<1> USE DEF CommandInv, CommandTypeOK
<1>0. tries \in [Threads -> Nat]
  OBVIOUS
<1>1. tries' # tries
  <2> SUFFICES ASSUME tries' = tries PROVE FALSE
    OBVIOUS
  <2>1. tries'[t] = tries[t] /\ tries[t] \in Nat
    BY <1>0
  <2> QED BY <2>1
<1>2. PICK u \in Threads : Enter(u) \/ Run(u)
  BY <1>1 DEF Next, Tick, Finished, vars, locals
<1>3. CASE Send(u) \/ Retry(u)
  <2>1. tries' = [tries EXCEPT ![u] = @ + 1]
    BY <1>3 DEF Send, Retry, StartExchange
  <2>2. u = t
    <3> SUFFICES ASSUME u # t PROVE FALSE
      OBVIOUS
    <3>1. tries'[t] = tries[t] /\ tries[t] \in Nat
      BY <1>0, <2>1
    <3> QED BY <3>1
  <2>3. ~ Send(t)
    BY DEF Send, TriesInv
  <2>4. Retry(t)
    BY <1>3, <2>2, <2>3
  <2>5. tries[t] = 1 /\ tries'[t] = 2
    BY <2>1, <2>2, <2>4 DEF Retry, TriesInv
  <2> QED BY <2>4, <2>5 DEF Retry, BackoffInv
<1>4. CASE \E res \in Outcomes : Reply(u, res) \/ Throw(u, res)
  <2>1. tries' = [tries EXCEPT ![u] = 0]
    BY <1>4 DEF Reply, Throw, Return
  <2> QED BY <2>1
<1>5. CASE Enter(u) \/ Lock(u) \/ Backoff(u)
  BY <1>1, <1>5 DEF Enter, Lock, Backoff
<1> QED BY <1>2, <1>3, <1>4, <1>5 DEF Run

\* A request is repeated at most once, directly after its own reset exchange
\* and Delay later: nothing of another thread comes in between.
THEOREM RetriesAreDisciplined == Spec => RetryDiscipline
<1>1. CommandInv /\ [Next]_vars =>
        [\A t \in Threads :
           tries'[t] > tries[t] /\ tries[t] > 0
             => /\ tries'[t] = 2
                /\ last.by = t
                /\ last.res = "reset"
                /\ clock >= last.ended + Delay]_vars
  BY RetryStep
<1> QED BY <1>1, CommandInvariant, PTL DEF Spec, RetryDiscipline
----------------------------------------------------------------------------
LEMMA LinkInitial == Init => Link!Init
BY DEF Init, Link!Init, Link!NotCalling

\* The entry of each thread, as PacedLink sees it.
Pending == [t \in Threads |-> IF pc[t] = "idle" THEN -1 ELSE now[t]]

LEMMA EnterIsEnter == ASSUME CommandInv, NEW t \in Threads, Enter(t) PROVE Link!Enter(t)
<1> USE DEF CommandInv, CommandTypeOK, Enter, history
<1>1. Pending' = [Pending EXCEPT ![t] = clock]
  BY DEF Pending
<1> QED BY <1>1 DEF Pending, Link!Enter, Link!NotCalling

LEMMA ReturnLeaves ==
  ASSUME CommandInv, NEW t \in Threads, NEW res, Return(t, res)
  PROVE  Pending' = [Pending EXCEPT ![t] = -1]
BY DEF CommandInv, CommandTypeOK, Return, Pending

LEMMA ThrowIsGiveUp ==
  ASSUME CommandInv, NEW t \in Threads, NEW res, Throw(t, res)
  PROVE  Link!GiveUp(t)
<1>1. Return(t, res) /\ sends' = sends /\ clock' = clock /\ pc[t] # "idle"
  BY DEF Throw, Return
<1>2. now[t] # -1
  BY DEF CommandInv, CommandTypeOK
<1>3. Pending' = [Pending EXCEPT ![t] = -1]
  BY <1>1, ReturnLeaves
<1> QED BY <1>1, <1>2, <1>3 DEF Pending, Link!GiveUp, Link!NotCalling

LEMMA ReplyIsAnswer ==
  ASSUME CommandInv, NEW t \in Threads, NEW res, Reply(t, res)
  PROVE  Link!Answer(t)
<1> DEFINE since == CountedFrom(t)
<1>1. /\ Return(t, res) /\ clock' = clock /\ pc[t] # "idle"
      /\ sends' = Append(sends, [by |-> t, since |-> since, at |-> at[t], done |-> clock])
  BY DEF Reply, Return
<1>2. now[t] # -1 /\ Pending[t] = now[t]
  BY <1>1 DEF CommandInv, CommandTypeOK, Pending
<1>3. at[t] \in Pending[t] .. clock /\ since \in Pending[t] .. clock
  BY <1>2 DEF CommandInv, CommandTypeOK, ClockInv, InExchange, Reply, CountedFrom
<1>4. Link!MaySendAt(at[t])
  BY DEF CommandInv, CommandTypeOK, ClockInv, TimeoutInv, InExchange, Reply, Link!MaySendAt
<1>5. Pending' = [Pending EXCEPT ![t] = -1]
  BY <1>1, ReturnLeaves
<1> QED BY <1>1, <1>2, <1>3, <1>4, <1>5 DEF Pending, Link!Answer, Link!NotCalling

\* Taking the mutex, sending, backing off and retrying are invisible.
LEMMA InnerStepStutters ==
  ASSUME CommandInv, NEW t \in Threads, Lock(t) \/ Send(t) \/ Backoff(t) \/ Retry(t)
  PROVE  clock' = clock /\ sends' = sends /\ Pending' = Pending
<1> USE DEF CommandInv, CommandTypeOK, Pending
<1>1. CASE Lock(t)
  BY <1>1 DEF Lock, history
<1>2. CASE Send(t)
  BY <1>2 DEF Send, StartExchange, history
<1>3. CASE Backoff(t)
  BY <1>3 DEF Backoff
<1>4. CASE Retry(t)
  BY <1>4 DEF Retry, StartExchange, history
<1> QED BY <1>1, <1>2, <1>3, <1>4

LEMMA LinkStepSimulation ==
  CommandInv /\ [Next]_vars => [Link!Next]_(Link!linkVars)
<1> SUFFICES ASSUME CommandInv, [Next]_vars PROVE [Link!Next]_(Link!linkVars)
  OBVIOUS
<1>1. CASE UNCHANGED vars
  BY <1>1 DEF vars, shared, locals, history, Link!linkVars
<1>2. CASE Tick
  BY <1>2 DEF Tick, shared, locals, history, Link!Next, Link!Pass
<1>3. CASE Finished
  BY <1>1, <1>3 DEF Finished
<1>4. ASSUME NEW t \in Threads, Enter(t) PROVE [Link!Next]_(Link!linkVars)
  BY <1>4, EnterIsEnter DEF Link!Next
<1>5. ASSUME NEW t \in Threads, Run(t) PROVE [Link!Next]_(Link!linkVars)
  <2>1. CASE Lock(t) \/ Send(t) \/ Backoff(t) \/ Retry(t)
    BY <2>1, InnerStepStutters DEF Pending, Link!linkVars
  <2>2. CASE \E res \in Outcomes : Reply(t, res)
    BY <2>2, ReplyIsAnswer DEF Link!Next
  <2>3. CASE \E res \in Outcomes : Throw(t, res)
    BY <2>3, ThrowIsGiveUp DEF Link!Next
  <2> QED BY <1>5, <2>1, <2>2, <2>3 DEF Run
<1> QED BY <1>1, <1>2, <1>3, <1>4, <1>5 DEF Next

\* RunWithTimeout implements the paced serial link.
THEOREM CommandImplementsLink == Spec => ImplementsPacedLink
BY LinkInitial, LinkStepSimulation, CommandInvariant, PTL DEF Spec, ImplementsPacedLink, Link!Spec

LinkProofs == INSTANCE PacedLinkProofs WITH time <- clock, pending <- Pending

\* At most one answered request per thread plus one in any period shorter
\* than Delay: the burst bound of the link, carried over by the refinement.
THEOREM CommandBurstBound == Spec => []BurstBound
<1>1. LinkProofs!LinkAssumption
  BY CommandAssumption DEF LinkProofs!LinkAssumption, IsFiniteSet, LinkProofs!IsFiniteSet
<1>2. LinkProofs!Spec => []LinkProofs!BurstBound
  BY <1>1, LinkProofs!BurstBoundHolds
<1>3. Link!Spec => LinkProofs!Spec
  <2>1. Link!Init => LinkProofs!Init
    BY DEF Pending, Link!Init, LinkProofs!Init, Link!NotCalling, LinkProofs!NotCalling
  <2>2. [Link!Next]_(Link!linkVars) => [LinkProofs!Next]_(LinkProofs!linkVars)
    BY DEF Pending, Link!Next, LinkProofs!Next, Link!linkVars, LinkProofs!linkVars,
           Link!NotCalling, LinkProofs!NotCalling, Link!Enter, LinkProofs!Enter,
           Link!Answer, LinkProofs!Answer, Link!MaySendAt, LinkProofs!MaySendAt,
           Link!GiveUp, LinkProofs!GiveUp, Link!Pass, LinkProofs!Pass
  <2> QED BY <2>1, <2>2, PTL DEF Link!Spec, LinkProofs!Spec
<1>4. LinkProofs!BurstBound => BurstBound
  BY DEF LinkProofs!BurstBound, BurstBound, Link!BurstBound, LinkProofs!Cardinality, Link!Cardinality
<1> QED BY <1>2, <1>3, <1>4, CommandImplementsLink, PTL DEF ImplementsPacedLink
=============================================================================
