--------------------------- MODULE PacedLinkProofs ---------------------------
(***************************************************************************)
(* Proofs about the paced link, for every set of threads and every delay.  *)
(***************************************************************************)
EXTENDS PacedLink, FiniteSetTheorems, TLAPS

\* What the history says of itself: exchanges are intervals that follow each
\* other, each is paced by every earlier one, and a later call of a thread is
\* counted from a moment after its earlier call ended.
HistoryInv ==
  /\ \A i \in 1 .. Len(sends) : sends[i].at <= sends[i].done /\ sends[i].done <= time
  /\ \A i, j \in 1 .. Len(sends) : i < j =>
       /\ sends[i].done <= sends[j].at
       /\ sends[i].since + Delay <= sends[j].at
       /\ sends[i].by = sends[j].by => sends[i].done <= sends[j].since

\* A thread that is calling entered after its earlier calls ended.
EntryInv ==
  \A t \in Threads : pending[t] # NotCalling =>
    /\ pending[t] <= time
    /\ \A i \in 1 .. Len(sends) : sends[i].by = t => sends[i].done <= pending[t]

LinkInv == LinkTypeOK /\ HistoryInv /\ EntryInv

LEMMA Ordered ==
  ASSUME NEW a \in Nat, NEW b \in Nat, NEW c \in Nat, a <= b, b <= c
  PROVE  a <= c
OBVIOUS

LEMMA PacedThrough ==
  ASSUME NEW a \in Nat, NEW b \in Nat, NEW c \in Nat, NEW d \in Nat, a <= b, b + d <= c
  PROVE  a + d <= c
OBVIOUS

LEMMA LinkInit == ASSUME LinkAssumption, Init PROVE LinkInv
BY DEF LinkAssumption, Init, LinkInv, LinkTypeOK, HistoryInv, EntryInv, Exchange, NotCalling

\* One answered exchange keeps the history in order.
LEMMA AnswerKeepsInv ==
  ASSUME LinkAssumption, LinkInv, NEW t \in Threads, Answer(t)
  PROVE  LinkInv'
<1> USE DEF LinkAssumption, LinkInv, LinkTypeOK, NotCalling
<1>1. PICK at, since \in pending[t] .. time :
        /\ MaySendAt(at)
        /\ sends' = Append(sends, [by |-> t, since |-> since, at |-> at, done |-> time])
  BY DEF Answer
<1>2. pending[t] \in Nat /\ pending' = [pending EXCEPT ![t] = NotCalling] /\ time' = time
  BY DEF Answer
<1> DEFINE e == [by |-> t, since |-> since, at |-> at, done |-> time]
<1>3. e \in Exchange
  BY <1>1, <1>2 DEF Exchange
<1>4. LinkTypeOK'
  BY <1>1, <1>2, <1>3
<1>5. /\ Len(sends') = Len(sends) + 1
      /\ \A i \in 1 .. Len(sends) : sends'[i] = sends[i]
      /\ sends'[Len(sends) + 1] = e
      /\ Len(sends) \in Nat
  BY <1>1, <1>3
<1>6. \A i \in 1 .. Len(sends) : sends[i] \in Exchange
  OBVIOUS
<1>7. \A i \in 1 .. Len(sends) :
        /\ sends[i].done <= at
        /\ sends[i].since + Delay <= at
        /\ sends[i].by = t => sends[i].done <= since
  <2> SUFFICES ASSUME NEW i \in 1 .. Len(sends)
               PROVE  /\ sends[i].done <= at
                      /\ sends[i].since + Delay <= at
                      /\ sends[i].by = t => sends[i].done <= since
    OBVIOUS
  <2> DEFINE n == Len(sends)
  <2>1. n \in Nat /\ n >= 1 /\ sends # <<>>
    OBVIOUS
  <2>2. sends[n].done <= at /\ sends[n].since + Delay <= at
    BY <1>1, <2>1 DEF MaySendAt
  <2>3. sends[n] \in Exchange /\ sends[i] \in Exchange
    BY <1>6, <2>1
  <2>4. i # n => sends[i].done <= sends[n].at /\ sends[i].since + Delay <= sends[n].at
    BY <2>1 DEF HistoryInv
  <2>5. sends[n].at <= sends[n].done
    BY <2>1 DEF HistoryInv
  <2>6. sends[i].done <= at /\ sends[i].since + Delay <= at
    <3>0. /\ sends[i].done \in Nat /\ sends[i].since \in Nat
          /\ sends[n].at \in Nat /\ sends[n].done \in Nat
      BY <2>3 DEF Exchange
    <3>1. at \in Nat /\ Delay \in Nat
      BY <1>2
    <3>2. CASE i = n
      BY <2>2, <3>2
    <3>3. CASE i # n
      <4>1. sends[i].done <= sends[n].at /\ sends[i].since + Delay <= sends[n].at
        BY <2>4, <3>3
      <4>2. sends[n].at <= at
        BY <2>2, <2>5, <3>0, <3>1
      <4> QED BY <3>0, <3>1, <4>1, <4>2
    <3> QED BY <3>2, <3>3
  <2>7. sends[i].by = t => sends[i].done <= pending[t]
    BY <1>2 DEF EntryInv
  <2>8. sends[i].by = t => sends[i].done <= since
    <3>1. sends[i].done \in Nat
      BY <2>3 DEF Exchange
    <3>2. pending[t] <= since /\ since \in Nat
      BY <1>1, <1>2
    <3> HIDE DEF LinkInv, LinkTypeOK
    <3> QED BY <1>2, <2>7, <3>1, <3>2
  <2> QED BY <2>6, <2>8
<1>8. HistoryInv'
  <2>1. ASSUME NEW i \in 1 .. Len(sends')
        PROVE  (sends[i].at <= sends[i].done /\ sends[i].done <= time)'
    BY <1>1, <1>2, <1>5, <2>1 DEF HistoryInv
  <2>2. ASSUME NEW i \in 1 .. Len(sends'), NEW j \in 1 .. Len(sends'), i < j
        PROVE  (/\ sends[i].done <= sends[j].at
                /\ sends[i].since + Delay <= sends[j].at
                /\ sends[i].by = sends[j].by => sends[i].done <= sends[j].since)'
    <3> DEFINE n == Len(sends)
    <3>1. i \in 1 .. n /\ (j \in 1 .. n \/ j = n + 1)
      BY <1>5, <2>2
    <3>2. CASE j \in 1 .. n
      BY <1>5, <2>2, <3>1, <3>2 DEF HistoryInv
    <3>3. CASE j = n + 1
      BY <1>5, <1>7, <3>1, <3>3
    <3> QED BY <3>1, <3>2, <3>3
  <2> QED BY <2>1, <2>2 DEF HistoryInv
<1>9. EntryInv'
  <2> SUFFICES ASSUME NEW u \in Threads, pending'[u] # NotCalling
               PROVE  /\ pending'[u] <= time'
                      /\ \A i \in 1 .. Len(sends') : sends'[i].by = u => sends'[i].done <= pending'[u]
    BY DEF EntryInv
  <2>1. u # t /\ pending'[u] = pending[u]
    BY <1>2
  <2> QED BY <1>2, <1>5, <2>1 DEF EntryInv
<1> QED BY <1>4, <1>8, <1>9

\* Entering, leaving without an answer and the passing of time keep it too.
LEMMA LinkStep == ASSUME LinkAssumption, LinkInv, [Next]_linkVars PROVE LinkInv'
<1> USE DEF LinkAssumption, LinkInv, LinkTypeOK, NotCalling
<1>0. \A i \in 1 .. Len(sends) : sends[i] \in Exchange
  OBVIOUS
<1>1. ASSUME NEW t \in Threads, Enter(t) PROVE LinkInv'
  <2>1. LinkTypeOK' /\ HistoryInv'
    BY <1>1 DEF Enter, HistoryInv
  <2>2. EntryInv'
    <3> SUFFICES ASSUME NEW u \in Threads, pending'[u] # NotCalling
                 PROVE  /\ pending'[u] <= time'
                        /\ \A i \in 1 .. Len(sends') :
                             sends'[i].by = u => sends'[i].done <= pending'[u]
      BY DEF EntryInv
    <3>1. sends' = sends /\ time' = time /\ time <= time
      BY <1>1 DEF Enter
    <3>2. CASE u = t
      <4>1. pending'[u] = time
        BY <1>1, <3>2 DEF Enter
      <4> QED BY <3>1, <4>1 DEF HistoryInv
    <3>3. CASE u # t
      <4>1. pending'[u] = pending[u]
        BY <1>1, <3>3 DEF Enter
      <4> QED BY <3>1, <4>1 DEF EntryInv
    <3> QED BY <3>2, <3>3
  <2> QED BY <2>1, <2>2
<1>2. ASSUME NEW t \in Threads, Answer(t) PROVE LinkInv'
  BY <1>2, AnswerKeepsInv
<1>3. ASSUME NEW t \in Threads, GiveUp(t) PROVE LinkInv'
  BY <1>3 DEF GiveUp, HistoryInv, EntryInv
<1>4. CASE Pass
  <2>1. LinkTypeOK' /\ sends' = sends /\ pending' = pending /\ time' = time + 1
    BY <1>4 DEF Pass
  <2>2. HistoryInv'
    <3>1. \A i \in 1 .. Len(sends) : sends[i].done \in Nat
      BY <1>0 DEF Exchange
    <3>2. \A i \in 1 .. Len(sends) : sends[i].done <= time + 1
      BY <3>1 DEF HistoryInv
    <3> QED BY <2>1, <3>2 DEF HistoryInv
  <2>3. EntryInv'
    BY <2>1 DEF EntryInv
  <2> QED BY <2>1, <2>2, <2>3
<1>5. CASE UNCHANGED linkVars
  BY <1>5 DEF linkVars, HistoryInv, EntryInv
<1> QED BY <1>1, <1>2, <1>3, <1>4, <1>5 DEF Next

\* The strengthened invariant holds for every set of threads and every delay.
THEOREM LinkInvariant == ASSUME LinkAssumption PROVE Spec => []LinkInv
<1>1. Init => LinkInv
  BY LinkInit
<1>2. LinkInv /\ [Next]_linkVars => LinkInv'
  BY LinkStep
<1> QED BY <1>1, <1>2, PTL DEF Spec
----------------------------------------------------------------------------
LEMMA PairSpacingFromInv == ASSUME LinkAssumption, LinkInv PROVE PairSpacing
<1> SUFFICES ASSUME NEW i \in 1 .. Len(sends), NEW j \in 1 .. Len(sends),
                    NEW k \in 1 .. Len(sends),
                    i < j, j < k, sends[i].by = sends[j].by
             PROVE  sends[i].done + Delay <= sends[k].at
  BY DEF PairSpacing
<1>1. sends[i] \in Exchange /\ sends[j] \in Exchange /\ sends[k] \in Exchange
  BY DEF LinkInv, LinkTypeOK
<1>2. sends[i].done <= sends[j].since /\ sends[j].since + Delay <= sends[k].at
  BY DEF LinkInv, HistoryInv
<1>3. /\ sends[i].done \in Nat /\ sends[j].since \in Nat
      /\ sends[k].at \in Nat /\ Delay \in Nat
  BY <1>1 DEF Exchange, LinkAssumption
<1> QED BY <1>2, <1>3, PacedThrough

\* Two answers of one thread pace everything that is sent after them,
\* whatever the other threads do (RunWithTimeout).
THEOREM PairSpacingHolds == ASSUME LinkAssumption PROVE Spec => []PairSpacing
<1>1. LinkInv => PairSpacing
  BY PairSpacingFromInv
<1> QED BY <1>1, LinkInvariant, PTL

\* Among more exchanges than threads two are of the same thread.
LEMMA BurstBoundFromInv == ASSUME LinkAssumption, LinkInv PROVE BurstBound
<1> DEFINE N == Cardinality(Threads)
<1>0. N \in Nat
  BY FS_CardinalityType DEF LinkAssumption
<1> SUFFICES ASSUME NEW i \in 1 .. Len(sends), NEW k \in 1 .. Len(sends), i + N < k
             PROVE  sends[i].done + Delay <= sends[k].at
  BY DEF BurstBound
<1>1. \A m \in 1 .. Len(sends) : sends[m] \in Exchange
  BY DEF LinkInv, LinkTypeOK
<1> DEFINE I == i .. (i + N)
           who == [m \in I |-> sends[m].by]
<1> HIDE DEF N
<1>2. I \subseteq 1 .. Len(sends) /\ Len(sends) \in Nat
  BY <1>0 DEF LinkInv, LinkTypeOK
<1>3. IsFiniteSet(I) /\ Cardinality(I) = N + 1
  <2>1. i \in Int /\ i + N \in Int /\ ~ (i > i + N) /\ (i + N) - i + 1 = N + 1
    BY <1>0
  <2>2. /\ IsFiniteSet(I)
        /\ Cardinality(I) = IF i > i + N THEN 0 ELSE (i + N) - i + 1
    BY <2>1, FS_Interval
  <2> QED BY <2>1, <2>2
<1>4. who \in [I -> Threads]
  BY <1>1, <1>2 DEF Exchange
<1>5. PICK x, y \in I : x # y /\ who[x] = who[y]
  <2> HIDE DEF I, who
  <2>1. Cardinality(I) > Cardinality(Threads)
    BY <1>0, <1>3 DEF N
  <2> QED BY <2>1, <1>3, <1>4, FS_PigeonHole DEF LinkAssumption
<1>6. PICK p, q \in I : p < q /\ sends[p].by = sends[q].by
  BY <1>5
<1>7. sends[p].done + Delay <= sends[k].at
  <2>1. p \in 1 .. Len(sends) /\ q \in 1 .. Len(sends) /\ q < k
    BY <1>0, <1>2, <1>6
  <2> QED BY <1>6, <2>1, PairSpacingFromInv DEF PairSpacing
<1>8. /\ p \in 1 .. Len(sends)
      /\ sends[i].done \in Nat /\ sends[p].done \in Nat
      /\ sends[p].at \in Nat /\ sends[k].at \in Nat
  BY <1>1, <1>2, <1>6 DEF Exchange
<1>9. sends[i].done <= sends[p].done
  <2>1. CASE p = i
    BY <1>8, <2>1
  <2>2. CASE i < p
    <3>1. sends[i].done <= sends[p].at /\ sends[p].at <= sends[p].done
      BY <1>8, <2>2 DEF LinkInv, HistoryInv
    <3> QED BY <1>8, <3>1, Ordered
  <2> QED BY <1>0, <1>6, <2>1, <2>2
<1>10. Delay \in Nat
  BY DEF LinkAssumption
<1> QED BY <1>7, <1>8, <1>9, <1>10, PacedThrough

\* However many calls are made, a period shorter than Delay sees at most one
\* answered exchange per thread plus one (RunWithTimeout).
THEOREM BurstBoundHolds == ASSUME LinkAssumption PROVE Spec => []BurstBound
<1>1. LinkInv => BurstBound
  BY BurstBoundFromInv
<1> QED BY <1>1, LinkInvariant, PTL
=============================================================================
