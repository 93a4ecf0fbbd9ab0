------------------------------ MODULE TimeProofs ------------------------------
(***************************************************************************)
(* Proofs about time patterns and the time zone: what toString writes,     *)
(* parse reads, for every pattern; copies; and the zone that is kept.      *)
(***************************************************************************)
EXTENDS TimeZone, TimePattern, SequenceTheorems, TLAPS

----------------------------------------------------------------------------
(* The time zone.                                                          *)

\* As long as no two calls have crossed, one thread at most is inside
\* parseUTCTimestamp; it has the program's zone in its copy, and the zone that
\* is set is the one that its step says.
OneInside ==
  ~crossed =>
    /\ \A t, u \in Parsers : t # u => at[t] = "idle" \/ at[u] = "idle"
    /\ (\A t \in Parsers : at[t] = "idle") => tz = Home
    /\ \A t \in Parsers : /\ at[t] # "idle" => kept[t] = Home
                          /\ at[t] = "kept" => tz = Home
                          /\ at[t] = "cleared" => tz = ""
    /\ used = asked

ZoneInv == ZoneTypeOK /\ OneInside

LEMMA ZoneInitInv == ZoneInit => ZoneInv
BY ZoneAssumption DEF ZoneInit, ZoneInv, ZoneTypeOK, Zones, OneInside

LEMMA ZoneStepInv == ZoneInv /\ [ZoneNext]_zoneVars => ZoneInv'
<1> SUFFICES ASSUME ZoneInv, [ZoneNext]_zoneVars PROVE ZoneInv'
  OBVIOUS
<1> USE DEF ZoneInv, ZoneTypeOK, Zones, OneInside, Alone
<1>1. ASSUME NEW t \in Parsers, LocalTime(t) PROVE ZoneInv'
  <2>1. ZoneTypeOK'
    BY <1>1 DEF LocalTime
  <2>2. ASSUME ~crossed' PROVE tz = Home /\ used' = asked'
    <3>1. ~crossed /\ \A u \in Parsers : at[u] = "idle"
      BY <1>1, <2>2 DEF LocalTime
    <3> QED BY <1>1, <3>1 DEF LocalTime
  <2>3. OneInside'
    BY <1>1, <2>2 DEF LocalTime
  <2> QED BY <2>1, <2>3
<1>2. ASSUME NEW t \in Parsers, KeepZone(t) PROVE ZoneInv'
  <2>1. ZoneTypeOK'
    BY <1>2 DEF KeepZone
  <2>2. ASSUME ~crossed'
        PROVE  /\ ~crossed /\ used = asked /\ tz = Home
               /\ \A u \in Parsers : at[u] = "idle"
    BY <1>2, <2>2 DEF KeepZone
  <2>3. \A u \in Parsers : at'[u] = IF u = t THEN "kept" ELSE at[u]
    BY <1>2 DEF KeepZone
  <2>4. tz' = tz /\ kept'[t] = tz /\ (used = asked => used' = asked')
    BY <1>2 DEF KeepZone
  <2>5. OneInside'
    BY <2>2, <2>3, <2>4
  <2> QED BY <2>1, <2>5
<1>3. ASSUME NEW t \in Parsers, ClearZone(t) PROVE ZoneInv'
  <2>1. ZoneTypeOK'
    BY <1>3 DEF ClearZone
  <2>2. /\ at[t] = "kept" /\ tz' = "" /\ UNCHANGED <<kept, used, asked, crossed>>
        /\ \A u \in Parsers : at'[u] = IF u = t THEN "cleared" ELSE at[u]
    BY <1>3 DEF ClearZone
  <2>3. ~crossed => \A u \in Parsers : u # t => at[u] = "idle"
    BY <2>2
  <2>4. OneInside'
    <3>1. ASSUME ~crossed', NEW v \in Parsers, NEW w \in Parsers, v # w
          PROVE  at'[v] = "idle" \/ at'[w] = "idle"
      BY <2>2, <2>3, <3>1
    <3>2. ~(\A v \in Parsers : at'[v] = "idle")
      BY <2>2
    <3>3. ASSUME ~crossed', NEW v \in Parsers
          PROVE  /\ at'[v] # "idle" => kept'[v] = Home
                 /\ at'[v] = "kept" => tz' = Home
                 /\ at'[v] = "cleared" => tz' = ""
      BY <2>2, <2>3, <3>3
    <3>4. ~crossed' => used' = asked'
      BY <2>2, <2>3
    <3> QED BY <3>1, <3>2, <3>3, <3>4
  <2> QED BY <2>1, <2>4
<1>4. ASSUME NEW t \in Parsers, Convert(t) PROVE ZoneInv'
  <2>1. ZoneTypeOK'
    BY <1>4 DEF Convert
  <2>2. /\ at[t] = "cleared" /\ UNCHANGED <<tz, kept, crossed>>
        /\ \A u \in Parsers : at'[u] = IF u = t THEN "converted" ELSE at[u]
    BY <1>4 DEF Convert
  <2>3. ~crossed => used' = asked' /\ \A u \in Parsers : u # t => at[u] = "idle"
    BY <1>4, <2>2 DEF Convert
  <2>4. OneInside'
    <3>1. ASSUME ~crossed', NEW v \in Parsers, NEW w \in Parsers, v # w
          PROVE  at'[v] = "idle" \/ at'[w] = "idle"
      BY <2>2, <2>3, <3>1
    <3>2. ~(\A v \in Parsers : at'[v] = "idle")
      BY <2>2
    <3>3. ASSUME ~crossed', NEW v \in Parsers
          PROVE  /\ at'[v] # "idle" => kept'[v] = Home
                 /\ at'[v] = "kept" => tz' = Home
                 /\ at'[v] = "cleared" => tz' = ""
      BY <2>2, <2>3, <3>3
    <3>4. ~crossed' => used' = asked'
      BY <2>2, <2>3
    <3> QED BY <3>1, <3>2, <3>3, <3>4
  <2> QED BY <2>1, <2>4
<1>5. ASSUME NEW t \in Parsers, RestoreZone(t) PROVE ZoneInv'
  <2>1. ZoneTypeOK'
    BY <1>5 DEF RestoreZone
  <2>2. /\ at[t] = "converted" /\ tz' = kept[t] /\ UNCHANGED <<kept, used, asked, crossed>>
        /\ \A u \in Parsers : at'[u] = IF u = t THEN "idle" ELSE at[u]
    BY <1>5 DEF RestoreZone
  <2>3. ~crossed => kept[t] = Home /\ \A u \in Parsers : u # t => at[u] = "idle"
    BY <2>2
  <2>4. OneInside'
    BY <2>2, <2>3
  <2> QED BY <2>1, <2>4
<1>6. ASSUME UNCHANGED zoneVars PROVE ZoneInv'
  BY <1>6 DEF zoneVars
<1> QED BY <1>1, <1>2, <1>3, <1>4, <1>5, <1>6 DEF ZoneNext

\* Whatever the threads do, the zone, the copies and the zones of conversions
\* are the program's own or UTC.
THEOREM ZoneTypes == ZoneSpec => []ZoneTypeOK
<1>1. ZoneInv => ZoneTypeOK
  BY DEF ZoneInv
<1> QED BY ZoneInitInv, ZoneStepInv, <1>1, PTL DEF ZoneSpec

\* For any number of threads and any zone: as long as no two calls of the time
\* functions have run at once, every timestamp is converted in the right zone,
\* and the program has its own zone back after every call.
THEOREM ZoneIsKept == ZoneSpec => []ZoneKept
<1>1. ZoneInv => ZoneKept
  BY DEF ZoneInv, ZoneKept, OneInside
<1> QED BY ZoneInitInv, ZoneStepInv, <1>1, PTL DEF ZoneSpec

----------------------------------------------------------------------------
(* Concatenations of short sequences.                                      *)

LEMMA TwoAndOne ==
  ASSUME NEW a, NEW b, NEW c
  PROVE  <<a, b>> \o <<c>> = <<a, b, c>>
<1> DEFINE S == {a, b, c}
<1>1. <<a, b>> \in Seq(S) /\ <<c>> \in Seq(S) /\ <<a, b, c>> \in Seq(S)
  OBVIOUS
<1> DEFINE s == <<a, b>> \o <<c>>
<1>2. /\ s \in Seq(S) /\ Len(s) = 3
      /\ \A i \in 1..3 : s[i] = IF i <= 2 THEN <<a, b>>[i] ELSE <<c>>[i - 2]
  BY <1>1, ConcatProperties
<1>3. s[1] = a /\ s[2] = b /\ s[3] = c
  BY <1>2
<1> HIDE DEF s
<1>4. \A i \in 1..3 : s[i] = <<a, b, c>>[i]
  BY <1>3
<1>5. s = <<a, b, c>>
  BY <1>1, <1>2, <1>4, SeqEqual
<1> QED BY <1>5 DEF s

LEMMA TwoAndThree ==
  ASSUME NEW a, NEW b, NEW c, NEW d, NEW e
  PROVE  <<a, b>> \o <<c, d, e>> = <<a, b, c, d, e>>
<1> DEFINE S == {a, b, c, d, e}
<1>1. /\ <<a, b>> \in Seq(S) /\ <<c, d, e>> \in Seq(S)
      /\ <<a, b, c, d, e>> \in Seq(S)
  OBVIOUS
<1> DEFINE s == <<a, b>> \o <<c, d, e>>
<1>2. /\ s \in Seq(S) /\ Len(s) = 5
      /\ \A i \in 1..5 : s[i] = IF i <= 2 THEN <<a, b>>[i] ELSE <<c, d, e>>[i - 2]
  BY <1>1, ConcatProperties
<1>3. s[1] = a /\ s[2] = b /\ s[3] = c /\ s[4] = d /\ s[5] = e
  BY <1>2
<1> HIDE DEF s
<1>4. \A i \in 1..5 : s[i] = <<a, b, c, d, e>>[i]
  BY <1>3
<1>5. s = <<a, b, c, d, e>>
  BY <1>1, <1>2, <1>4, SeqEqual
<1> QED BY <1>5 DEF s

----------------------------------------------------------------------------
(* Durations, weekdays, local times and repetitions.                       *)

LEMMA SecondsFacts ==
  ASSUME NEW d \in Durations
  PROVE  /\ Seconds(d) \in Nat
         /\ Whole(d) \in Durations
         /\ Whole(d) <= d
         /\ Seconds(Whole(d)) = Seconds(d)
<1> DEFINE q == d \div Tick
           r == d % Tick
<1>1. Tick \in Nat /\ Tick > 0 /\ d \in Nat
  BY PatternAssumption DEF Durations
<1>2. q \in Nat /\ r \in 0..Tick - 1 /\ d = q * Tick + r
  BY <1>1
<1>3. q * Tick \in Nat /\ q * Tick <= d
  BY <1>1, <1>2
<1>4. (q * Tick) \div Tick = q
  BY <1>1, <1>2
<1> QED BY <1>2, <1>3, <1>4 DEF Seconds, Whole, Durations

\* The numbers of hh:mm:ss are those of the duration's seconds.
LEMMA ClockIsRead ==
  ASSUME NEW d \in Durations, NEW mark
  PROVE  ParseDuration(Clock(mark, d)) = Whole(d)
<1>1. Seconds(d) \in Nat
  BY SecondsFacts
<1> DEFINE c == Clock(mark, d)
<1>2. c[2] * 3600 + c[3] * 60 + c[4] = Seconds(d)
  BY <1>1 DEF Clock
<1> QED BY <1>2 DEF ParseDuration, Whole

LEMMA ZeroIsWhole == Whole(0) = 0
<1>1. Tick \in Nat /\ Tick > 0
  BY PatternAssumption
<1>2. 0 \div Tick = 0
  BY <1>1
<1> QED BY <1>1, <1>2 DEF Whole, Seconds

LEMMA Powers ==
  /\ 2^0 = 1 /\ 2^1 = 2 /\ 2^2 = 4 /\ 2^3 = 8 /\ 2^4 = 16 /\ 2^5 = 32 /\ 2^6 = 64
OBVIOUS

\* parse finds the weekdays that the bitmask was made of.
LEMMA WeekdaysAreRead ==
  ASSUME NEW days \in SUBSET Weekdays
  PROVE  Bitmask(days) \in Nat /\ ParseWeekdays(Bitmask(days)) = days
<1> DEFINE bit(d) == IF d \in days THEN 1 ELSE 0
<1>1. /\ Bit(days, 0) = bit(0) /\ Bit(days, 1) = 2 * bit(1)
      /\ Bit(days, 2) = 4 * bit(2) /\ Bit(days, 3) = 8 * bit(3)
      /\ Bit(days, 4) = 16 * bit(4) /\ Bit(days, 5) = 32 * bit(5)
      /\ Bit(days, 6) = 64 * bit(6)
  BY Powers DEF Bit
<1>2. Bitmask(days) = bit(0) + 2 * bit(1) + 4 * bit(2) + 8 * bit(3) + 16 * bit(4)
                        + 32 * bit(5) + 64 * bit(6)
  BY <1>1 DEF Bitmask
<1>3. \A d \in Weekdays : bit(d) \in {0, 1}
  OBVIOUS
<1>4. \A d \in Weekdays : bit(d) = 1 <=> d \in days
  OBVIOUS
<1>5. 0 \in Weekdays /\ 1 \in Weekdays /\ 2 \in Weekdays /\ 3 \in Weekdays
        /\ 4 \in Weekdays /\ 5 \in Weekdays /\ 6 \in Weekdays
  BY DEF Weekdays
<1> DEFINE n == Bitmask(days)
<1> HIDE DEF bit, n
<1>6. /\ n \in Nat
      /\ (n \div 1) % 2 = bit(0) /\ (n \div 2) % 2 = bit(1)
      /\ (n \div 4) % 2 = bit(2) /\ (n \div 8) % 2 = bit(3)
      /\ (n \div 16) % 2 = bit(4) /\ (n \div 32) % 2 = bit(5)
      /\ (n \div 64) % 2 = bit(6)
  <2>1. n = bit(0) + 2 * bit(1) + 4 * bit(2) + 8 * bit(3) + 16 * bit(4)
              + 32 * bit(5) + 64 * bit(6)
    BY <1>2 DEF n
  <2>2. PICK b0, b1, b2, b3, b4, b5, b6 \in {0, 1} :
          /\ b0 = bit(0) /\ b1 = bit(1) /\ b2 = bit(2) /\ b3 = bit(3)
          /\ b4 = bit(4) /\ b5 = bit(5) /\ b6 = bit(6)
    BY <1>3, <1>5
  <2>3. n = b0 + 2 * b1 + 4 * b2 + 8 * b3 + 16 * b4 + 32 * b5 + 64 * b6
    BY <2>1, <2>2
  <2>4. /\ n \in Nat
        /\ (n \div 1) % 2 = b0 /\ (n \div 2) % 2 = b1 /\ (n \div 4) % 2 = b2
        /\ (n \div 8) % 2 = b3 /\ (n \div 16) % 2 = b4 /\ (n \div 32) % 2 = b5
        /\ (n \div 64) % 2 = b6
    BY <2>3, SMT
  <2> QED BY <2>2, <2>4
<1>7. \A d \in Weekdays : (n \div 2^d) % 2 = bit(d)
  <2> TAKE d \in Weekdays
  <2>1. d = 0 \/ d = 1 \/ d = 2 \/ d = 3 \/ d = 4 \/ d = 5 \/ d = 6
    BY DEF Weekdays
  <2> QED BY <2>1, <1>6, Powers
<1>8. ParseWeekdays(n) = days
  BY <1>4, <1>7 DEF ParseWeekdays
<1> QED BY <1>6, <1>8 DEF n

\* What is read of a local time is a time with that local time, the very one
\* unless it occurs twice.
LEMMA LocalTimeIsRead ==
  ASSUME NEW t \in Nat
  PROVE  /\ Mktime(Localtime(t)) \in Nat
         /\ Localtime(Mktime(Localtime(t))) = Localtime(t)
         /\ ~Repeated(t) => Mktime(Localtime(t)) = t
BY PatternAssumption DEF Mktime, Localtime, Repeated

LEMMA TenPowers ==
  /\ {10^k : k \in 1..8} =
       {10, 100, 1000, 10000, 100000, 1000000, 10000000, 100000000}
<1>1. /\ 10^1 = 10 /\ 10^2 = 100 /\ 10^3 = 1000 /\ 10^4 = 10000 /\ 10^5 = 100000
      /\ 10^6 = 1000000 /\ 10^7 = 10000000 /\ 10^8 = 100000000
  BY SMT
<1>2. \A k \in 1..8 : k = 1 \/ k = 2 \/ k = 3 \/ k = 4 \/ k = 5 \/ k = 6 \/ k = 7 \/ k = 8
  BY SMT
<1> QED BY <1>1, <1>2, SMT

LEMMA MaxIntValue == MaxInt = 2147483647
BY SMT DEF MaxInt

LEMMA MaxIntNat == MaxInt \in Nat /\ 99 <= MaxInt
BY SMT DEF MaxInt

\* Two digits are read of any number of repetitions an int holds.
LEMMA LeadingTwoFacts ==
  ASSUME NEW n \in Nat, n <= MaxInt
  PROVE  /\ LeadingTwo(n) \in 0..99
         /\ n < 100 => LeadingTwo(n) = n
         /\ n >= 100 => LeadingTwo(n) >= 10
<1>0. n \in Nat /\ n <= 2147483647
  BY MaxIntValue, SMT
<1>1. CASE n < 100
  BY <1>0, <1>1, SMT DEF LeadingTwo
<1>2. CASE n >= 100
  <2> DEFINE P == {10^k : k \in 1..8}
  <2>1. \E p \in P : n \div p \in 10..99
    <3>1. /\ 10 \in P /\ 100 \in P /\ 1000 \in P /\ 10000 \in P /\ 100000 \in P
          /\ 1000000 \in P /\ 10000000 \in P /\ 100000000 \in P
      BY TenPowers, SMT
    <3>2. n < 1000 => n \div 10 \in 10..99
      BY <1>0, <1>2, SMT
    <3>3. n >= 1000 /\ n < 10000 => n \div 100 \in 10..99
      BY <1>0, SMT
    <3>4. n >= 10000 /\ n < 100000 => n \div 1000 \in 10..99
      BY <1>0, SMT
    <3>5. n >= 100000 /\ n < 1000000 => n \div 10000 \in 10..99
      BY <1>0, SMT
    <3>6. n >= 1000000 /\ n < 10000000 => n \div 100000 \in 10..99
      BY <1>0, SMT
    <3>7. n >= 10000000 /\ n < 100000000 => n \div 1000000 \in 10..99
      BY <1>0, SMT
    <3>8. n >= 100000000 /\ n < 1000000000 => n \div 10000000 \in 10..99
      BY <1>0, SMT
    <3>9. n >= 1000000000 => n \div 100000000 \in 10..99
      BY <1>0, SMT
    <3> HIDE DEF P
    <3> QED BY <1>0, <3>1, <3>2, <3>3, <3>4, <3>5, <3>6, <3>7, <3>8, <3>9, SMT
  <2>2. n \div Behind(n) \in 10..99
    BY <2>1, Zenon DEF Behind
  <2> QED BY <1>0, <1>2, <2>2, SMT DEF LeadingTwo
<1> QED BY <1>0, <1>1, <1>2, SMT

----------------------------------------------------------------------------
(* What parse reads of the text of a pattern.                              *)

\* The pattern p as it is read back.
ReadPattern(p) ==
  CASE p.type = "undefined" -> Undefined
    [] p.type = "absolute" ->
         [type |-> "absolute", base |-> Mktime(Localtime(Seconds(p.base))) * Tick,
          variation |-> Whole(p.variation)]
    [] p.type = "recurring" ->
         [type |-> "recurring", time |-> Whole(p.time), days |-> p.days,
          variation |-> Whole(p.variation)]
    [] p.type = "interval" ->
         [type |-> "interval", start |-> Whole(p.start), end |-> Whole(p.end),
          days |-> p.days]
    [] p.type = "timer" ->
         [type |-> "timer", expires |-> Whole(p.expires), num |-> LeadingTwo(p.num),
          variation |-> Whole(p.variation)]

\* What is written behind the tokens u, and read behind them again.
ReadBehind(s, u, v) ==
  /\ Len(u) \in Nat /\ Len(s) \in Nat /\ Len(u) <= Len(s)
  /\ \A i \in 1..Len(u) : s[i] = u[i]
  /\ \A i \in Len(u) + 1..Len(s) : s[i][1] = "A"
  /\ VariationAfter(s, Len(u)) = Whole(v)

LEMMA VariationIsRead ==
  ASSUME NEW S, NEW u \in Seq(S), NEW v \in Durations, NEW s, s = u \o Varied(v)
  PROVE  ReadBehind(s, u, v)
<1> DEFINE c == Clock("A", v)
           T == S \cup {c}
<1>1. c[1] = "A" /\ ParseDuration(c) = Whole(v)
  BY ClockIsRead DEF Clock
<1>2. u \in Seq(T)
  BY SeqMonotonic
<1>3. Len(u) \in Nat
  BY LenProperties
<1>4. CASE v = 0
  <2>1. s = u
    BY <1>4, ConcatEmptySeq DEF Varied
  <2> QED BY <1>3, <1>4, <2>1, ZeroIsWhole DEF VariationAfter, ReadBehind
<1>5. CASE v # 0
  <2>1. s = u \o <<c>>
    BY <1>5 DEF Varied
  <2> HIDE DEF c
  <2>2. <<c>> \in Seq(T)
    OBVIOUS
  <2>3. /\ Len(s) = Len(u) + 1
        /\ \A i \in 1..Len(u) + 1 : s[i] = IF i <= Len(u) THEN u[i] ELSE <<c>>[i - Len(u)]
    BY <1>2, <2>1, <2>2, ConcatProperties
  <2>4. s[Len(u) + 1] = c
    BY <1>3, <2>3
  <2>5. VariationAfter(s, Len(u)) = Whole(v)
    BY <1>1, <1>3, <2>3, <2>4 DEF VariationAfter
  <2> QED BY <1>1, <1>3, <2>3, <2>4, <2>5 DEF ReadBehind
<1> QED BY <1>4, <1>5

LEMMA AbsoluteIsRead ==
  ASSUME NEW p \in Absolutes
  PROVE  ParsePattern(AbsoluteText(p)) = ReadPattern(p)
<1> DEFINE s == AbsoluteText(p)
           l == Localtime(Seconds(p.base))
           u == << <<"stamp", l>> >>
<1>1. p.type = "absolute" /\ p.variation \in Durations
  BY DEF Absolutes
<1>2. s = u \o Varied(p.variation)
  BY DEF AbsoluteText
<1> HIDE DEF s, l
<1>3. u \in Seq({<<"stamp", l>>}) /\ Len(u) = 1 /\ u[1] = <<"stamp", l>>
  OBVIOUS
<1> HIDE DEF u
<1>4. /\ Len(s) \in Nat /\ 1 <= Len(s) /\ s[1] = u[1]
      /\ VariationAfter(s, 1) = Whole(p.variation)
  <2>1. ReadBehind(s, u, p.variation)
    BY <1>1, <1>2, <1>3, VariationIsRead
  <2> QED BY <1>3, <2>1 DEF ReadBehind
<1>5. s # <<>> /\ s[1][1] = "stamp" /\ s[1][2] = l
  BY <1>3, <1>4
<1>6. ParsePattern(s) = ParseAbsolute(s)
  BY <1>5 DEF ParsePattern
<1>7. ParseAbsolute(s) = ReadPattern(p)
  BY <1>1, <1>4, <1>5 DEF ParseAbsolute, ReadPattern, l
<1> QED BY <1>6, <1>7 DEF s

LEMMA RecurringIsRead ==
  ASSUME NEW p \in Recurring
  PROVE  ParsePattern(RecurringText(p)) = ReadPattern(p)
<1> DEFINE s == RecurringText(p)
           b == Bitmask(p.days)
           t == Clock("T", p.time)
           u == << <<"W", b>>, <<"/">>, t >>
<1>1. /\ p.type = "recurring" /\ p.variation \in Durations /\ p.time \in Durations
      /\ p.days \in SUBSET Weekdays
  BY DEF Recurring
<1>2. s = u \o Varied(p.variation)
  BY DEF RecurringText
<1>3. t[1] = "T" /\ ParseDuration(t) = Whole(p.time) /\ ParseWeekdays(b) = p.days
  BY <1>1, ClockIsRead, WeekdaysAreRead DEF Clock
<1> HIDE DEF s, t, b
<1>4. /\ u \in Seq({<<"W", b>>, <<"/">>, t}) /\ Len(u) = 3
      /\ u[1] = <<"W", b>> /\ u[2] = <<"/">> /\ u[3] = t
  OBVIOUS
<1> HIDE DEF u
<1>5. /\ Len(s) \in Nat /\ 3 <= Len(s)
      /\ \A i \in 1..3 : s[i] = u[i]
      /\ \A i \in 4..Len(s) : s[i][1] = "A"
      /\ VariationAfter(s, 3) = Whole(p.variation)
  <2>1. ReadBehind(s, u, p.variation)
    BY <1>1, <1>2, <1>4, VariationIsRead
  <2> QED BY <1>4, <2>1 DEF ReadBehind
<1>6. /\ s # <<>> /\ s[1][1] = "W" /\ s[1][2] = b /\ s[2][1] = "/" /\ s[3][1] = "T"
      /\ s[3] = t
  BY <1>3, <1>4, <1>5
<1>7. \A i \in 1..Len(s) : i = 1 \/ i = 2 \/ i = 3 \/ i \in 4..Len(s)
  BY <1>5
<1>8. Slashes(s) = {2}
  BY <1>5, <1>6, <1>7 DEF Slashes
<1>9. ParsePattern(s) = ParseRecurring(s)
  BY <1>6, <1>8 DEF ParsePattern
<1>10. ParseRecurring(s) = ReadPattern(p)
  BY <1>1, <1>3, <1>5, <1>6 DEF ParseRecurring, ReadPattern
<1> QED BY <1>9, <1>10 DEF s

LEMMA IntervalIsRead ==
  ASSUME NEW p \in Intervals
  PROVE  ParsePattern(IntervalText(p)) = ReadPattern(p)
<1> DEFINE s == IntervalText(p)
           b == Bitmask(p.days)
           t == Clock("T", p.start)
           u == Clock("T", p.end)
<1>1. /\ p.type = "interval" /\ p.start \in Durations /\ p.end \in Durations
      /\ p.days \in SUBSET Weekdays
  BY DEF Intervals
<1>2. t[1] = "T" /\ u[1] = "T"
  BY DEF Clock
<1>3. ParseDuration(t) = Whole(p.start) /\ ParseDuration(u) = Whole(p.end)
  BY <1>1, ClockIsRead
<1>4. ParseWeekdays(b) = p.days
  BY <1>1, WeekdaysAreRead
<1>5. CASE p.days = Weekdays
  <2>1. s = << t, <<"/">>, u >>
    BY <1>5 DEF IntervalText
  <2> HIDE DEF s, t, u, b
  <2>2. s # <<>> /\ Len(s) = 3 /\ s[1] = t /\ s[3] = u
    BY <2>1
  <2>3. ParsePattern(s) = ParseInterval(s)
    BY <1>2, <2>2 DEF ParsePattern
  <2>4. ParseInterval(s) = ReadPattern(p)
    BY <1>1, <1>2, <1>3, <1>5, <2>2 DEF ParseInterval, ReadPattern
  <2> QED BY <2>3, <2>4 DEF s
<1>6. CASE p.days # Weekdays
  <2>1. s = << <<"W", b>>, <<"/">>, t, <<"/">>, u >>
    BY <1>6, TwoAndThree DEF IntervalText
  <2> HIDE DEF s, t, u, b
  <2>2. /\ s # <<>> /\ Len(s) = 5 /\ s[1] = <<"W", b>> /\ s[2] = <<"/">>
        /\ s[3] = t /\ s[4] = <<"/">> /\ s[5] = u
    BY <2>1
  <2>3. s[1][1] = "W" /\ s[1][2] = b /\ s[2][1] = "/" /\ s[4][1] = "/"
    BY <2>2
  <2>4. 2 \in Slashes(s) /\ 4 \in Slashes(s)
    BY <2>2, <2>3 DEF Slashes
  <2>5. ParsePattern(s) = ParseInterval(s)
    BY <2>2, <2>3, <2>4 DEF ParsePattern
  <2>6. ParseInterval(s) = ReadPattern(p)
    BY <1>1, <1>3, <1>4, <2>2, <2>3 DEF ParseInterval, ReadPattern
  <2> QED BY <2>5, <2>6 DEF s
<1> QED BY <1>5, <1>6

LEMMA TimerIsRead ==
  ASSUME NEW p \in Timers
  PROVE  ParsePattern(TimerText(p)) = ReadPattern(p)
<1> DEFINE s == TimerText(p)
           t == Clock("PT", p.expires)
           c == Clock("A", p.variation)
<1>1. /\ p.type = "timer" /\ p.expires \in Durations /\ p.variation \in Durations
      /\ p.num \in Nat /\ p.num <= MaxInt
  BY MaxIntNat DEF Timers
<1>2. t[1] = "PT"
  BY DEF Clock
<1>3. ParseDuration(t) = Whole(p.expires)
  BY <1>1, ClockIsRead
<1>4. CASE p.num = 1
  <2> DEFINE u == <<t>>
  <2>1. s = u \o Varied(p.variation)
    BY <1>4 DEF TimerText, Infinite
  <2> HIDE DEF s, t
  <2>2. u \in Seq({t}) /\ Len(u) = 1 /\ u[1] = t
    OBVIOUS
  <2> HIDE DEF u
  <2>3. /\ Len(s) \in Nat /\ 1 <= Len(s) /\ s[1] = u[1]
        /\ VariationAfter(s, 1) = Whole(p.variation)
    <3>1. ReadBehind(s, u, p.variation)
      BY <1>1, <2>1, <2>2, VariationIsRead
    <3> QED BY <2>2, <3>1 DEF ReadBehind
  <2>4. s # <<>> /\ s[1] = t /\ s[1][1] = "PT"
    BY <1>2, <2>2, <2>3
  <2>5. ParsePattern(s) = ParseTimer(s)
    BY <2>4 DEF ParsePattern
  <2>6. LeadingTwo(p.num) = 1
    BY <1>4 DEF LeadingTwo
  <2>7. ParseTimer(s) = ReadPattern(p)
    BY <1>1, <1>3, <2>3, <2>4, <2>6 DEF ParseTimer, ReadPattern
  <2> QED BY <2>5, <2>7 DEF s
<1>5. CASE p.num # 1
  <2> DEFINE r == IF p.num = Infinite THEN <<"R">> ELSE <<"R", p.num>>
             u == << r, <<"/">>, t >>
  <2>1. s = u \o Varied(p.variation)
    BY <1>5, TwoAndOne DEF TimerText
  <2>2. r[1] = "R" /\ Repetitions(r) = LeadingTwo(p.num)
    BY <1>1 DEF Repetitions, LeadingTwo, Infinite
  <2> HIDE DEF s, t, r
  <2>3. u \in Seq({r, <<"/">>, t}) /\ Len(u) = 3 /\ u[1] = r /\ u[3] = t
    OBVIOUS
  <2> HIDE DEF u
  <2>4. /\ Len(s) \in Nat /\ 3 <= Len(s) /\ s[1] = u[1] /\ s[3] = u[3]
        /\ VariationAfter(s, 3) = Whole(p.variation)
    <3>1. ReadBehind(s, u, p.variation)
      BY <1>1, <2>1, <2>3, VariationIsRead
    <3> QED BY <2>3, <3>1 DEF ReadBehind
  <2>5. s # <<>> /\ s[1] = r /\ s[3] = t /\ s[1][1] = "R"
    BY <2>2, <2>3, <2>4
  <2>6. ParsePattern(s) = ParseTimer(s)
    BY <2>5 DEF ParsePattern
  <2>7. ParseTimer(s) = ReadPattern(p)
    BY <1>1, <1>3, <2>2, <2>4, <2>5 DEF ParseTimer, ReadPattern
  <2> QED BY <2>6, <2>7 DEF s
<1> QED BY <1>4, <1>5

\* Whatever pattern is written, parse reads ReadPattern of it.
LEMMA PatternIsRead ==
  ASSUME NEW p \in AllPatterns
  PROVE  ParsePattern(ToString(p)) = ReadPattern(p)
<1>1. CASE p = Undefined
  BY <1>1 DEF Undefined, ParsePattern, ToString, ReadPattern
<1>2. CASE p \in Absolutes
  <2>1. p.type = "absolute"
    BY <1>2 DEF Absolutes
  <2>2. ToString(p) = AbsoluteText(p)
    BY <2>1 DEF ToString
  <2> QED BY <1>2, <2>2, AbsoluteIsRead
<1>3. CASE p \in Recurring
  <2>1. p.type = "recurring"
    BY <1>3 DEF Recurring
  <2>2. ToString(p) = RecurringText(p)
    BY <2>1 DEF ToString
  <2> QED BY <1>3, <2>2, RecurringIsRead
<1>4. CASE p \in Intervals
  <2>1. p.type = "interval"
    BY <1>4 DEF Intervals
  <2>2. ToString(p) = IntervalText(p)
    BY <2>1 DEF ToString
  <2> QED BY <1>4, <2>2, IntervalIsRead
<1>5. CASE p \in Timers
  <2>1. p.type = "timer"
    BY <1>5 DEF Timers
  <2>2. ToString(p) = TimerText(p)
    BY <2>1 DEF ToString
  <2> QED BY <1>5, <2>2, TimerIsRead
<1> QED BY <1>1, <1>2, <1>3, <1>4, <1>5 DEF AllPatterns

\* What is read is a pattern again; if the first could be written it can, and
\* it reads as itself.
SettledAs(p, r) ==
  /\ r \in AllPatterns
  /\ r.type = p.type
  /\ ~Unwritable(p) => ~Unwritable(r)
  /\ ReadPattern(r) = r

LEMMA WholeOnce ==
  ASSUME NEW d \in Durations
  PROVE  /\ Whole(d) \in Durations /\ Whole(Whole(d)) = Whole(d)
         /\ Writable(d) => Writable(Whole(d))
<1>1. /\ Whole(d) \in Nat /\ d \in Nat /\ Whole(d) <= d
      /\ Seconds(Whole(d)) = Seconds(d)
  BY SecondsFacts DEF Durations
<1>2. Hours(24) \in Nat
  BY PatternAssumption DEF Hours
<1> QED BY <1>1, <1>2 DEF Whole, Writable, Durations

LEMMA AbsoluteSettles ==
  ASSUME NEW p \in Absolutes
  PROVE  SettledAs(p, ReadPattern(p))
<1> DEFINE t == Mktime(Localtime(Seconds(p.base)))
           v == Whole(p.variation)
           r == [type |-> "absolute", base |-> t * Tick, variation |-> v]
<1>1. p.type = "absolute" /\ p.base \in Nat /\ p.variation \in Durations
  BY DEF Absolutes
<1>2. ReadPattern(p) = r
  BY <1>1 DEF ReadPattern
<1>3. t \in Nat /\ Mktime(Localtime(t)) = t /\ Tick \in Nat \ {0}
  BY <1>1, SecondsFacts, LocalTimeIsRead, PatternAssumption DEF Durations
<1>4. v \in Durations /\ Whole(v) = v /\ (Writable(p.variation) => Writable(v))
  BY <1>1, WholeOnce
<1> HIDE DEF t, v
<1>5. t * Tick \in Nat /\ (t * Tick) \div Tick = t
  BY <1>3
<1>6. r \in AllPatterns
  BY <1>4, <1>5 DEF AllPatterns, Absolutes
<1>7. ReadPattern(r) = r
  BY <1>3, <1>4, <1>5 DEF ReadPattern, Seconds
<1>8. ~Unwritable(p) => ~Unwritable(r)
  BY <1>1, <1>4 DEF Unwritable
<1> QED BY <1>1, <1>2, <1>6, <1>7, <1>8 DEF SettledAs

LEMMA RecurringSettles ==
  ASSUME NEW p \in Recurring
  PROVE  SettledAs(p, ReadPattern(p))
<1> DEFINE t == Whole(p.time)
           v == Whole(p.variation)
           r == [type |-> "recurring", time |-> t, days |-> p.days, variation |-> v]
<1>1. /\ p.type = "recurring" /\ p.time \in Durations /\ p.variation \in Durations
      /\ p.days \in SUBSET Weekdays
  BY DEF Recurring
<1>2. ReadPattern(p) = r
  BY <1>1 DEF ReadPattern
<1>3. /\ t \in Durations /\ Whole(t) = t /\ (Writable(p.time) => Writable(t))
      /\ v \in Durations /\ Whole(v) = v /\ (Writable(p.variation) => Writable(v))
  BY <1>1, WholeOnce
<1> HIDE DEF t, v
<1>4. r \in AllPatterns
  BY <1>1, <1>3 DEF AllPatterns, Recurring
<1>5. ReadPattern(r) = r
  BY <1>3 DEF ReadPattern
<1>6. ~Unwritable(p) => ~Unwritable(r)
  BY <1>1, <1>3 DEF Unwritable
<1> QED BY <1>1, <1>2, <1>4, <1>5, <1>6 DEF SettledAs

LEMMA IntervalSettles ==
  ASSUME NEW p \in Intervals
  PROVE  SettledAs(p, ReadPattern(p))
<1> DEFINE t == Whole(p.start)
           u == Whole(p.end)
           r == [type |-> "interval", start |-> t, end |-> u, days |-> p.days]
<1>1. /\ p.type = "interval" /\ p.start \in Durations /\ p.end \in Durations
      /\ p.days \in SUBSET Weekdays
  BY DEF Intervals
<1>2. ReadPattern(p) = r
  BY <1>1 DEF ReadPattern
<1>3. /\ t \in Durations /\ Whole(t) = t /\ (Writable(p.start) => Writable(t))
      /\ u \in Durations /\ Whole(u) = u /\ (Writable(p.end) => Writable(u))
  BY <1>1, WholeOnce
<1> HIDE DEF t, u
<1>4. r \in AllPatterns
  BY <1>1, <1>3 DEF AllPatterns, Intervals
<1>5. ReadPattern(r) = r
  BY <1>3 DEF ReadPattern
<1>6. ~Unwritable(p) => ~Unwritable(r)
  BY <1>1, <1>3 DEF Unwritable
<1> QED BY <1>1, <1>2, <1>4, <1>5, <1>6 DEF SettledAs

LEMMA TimerSettles ==
  ASSUME NEW p \in Timers
  PROVE  SettledAs(p, ReadPattern(p))
<1> DEFINE t == Whole(p.expires)
           n == LeadingTwo(p.num)
           v == Whole(p.variation)
           r == [type |-> "timer", expires |-> t, num |-> n, variation |-> v]
<1>1. /\ p.type = "timer" /\ p.expires \in Durations /\ p.variation \in Durations
      /\ p.num \in Nat /\ p.num <= MaxInt
  BY MaxIntNat DEF Timers
<1>2. ReadPattern(p) = r
  BY <1>1 DEF ReadPattern
<1>3. /\ t \in Durations /\ Whole(t) = t /\ (Writable(p.expires) => Writable(t))
      /\ v \in Durations /\ Whole(v) = v /\ (Writable(p.variation) => Writable(v))
  BY <1>1, WholeOnce
<1>4. n \in 0..99
  BY <1>1, LeadingTwoFacts
<1>5. LeadingTwo(n) = n
  BY <1>4 DEF LeadingTwo
<1> HIDE DEF t, n, v
<1>6. n \in 0..MaxInt
  BY <1>4, MaxIntNat
<1>7. r \in AllPatterns
  BY <1>3, <1>6 DEF AllPatterns, Timers
<1>8. ReadPattern(r) = r
  BY <1>3, <1>5 DEF ReadPattern
<1>9. ~Unwritable(p) => ~Unwritable(r)
  BY <1>1, <1>3 DEF Unwritable
<1> QED BY <1>1, <1>2, <1>7, <1>8, <1>9 DEF SettledAs

LEMMA PatternSettles ==
  ASSUME NEW p \in AllPatterns
  PROVE  SettledAs(p, ReadPattern(p))
<1>1. CASE p = Undefined
  BY <1>1 DEF Undefined, ReadPattern, SettledAs, AllPatterns
<1> QED BY <1>1, AbsoluteSettles, RecurringSettles, IntervalSettles, TimerSettles DEF AllPatterns

----------------------------------------------------------------------------
(* The schedule and the copies.                                            *)

PatternInv == PatternTypeOK /\ CopiesAgree

LEMMA PatternInitInv == PatternInit => PatternInv
<1> SUFFICES ASSUME PatternInit PROVE PatternInv
  OBVIOUS
<1>1. Undefined \in AllPatterns /\ ~Unwritable(Undefined) /\ ToString(Undefined) = <<>>
  BY DEF AllPatterns, Unwritable, ToString, Undefined
<1> QED BY <1>1 DEF PatternInit, PatternInv, PatternTypeOK, CopiesAgree

\* A variable is given a value: what it holds is what was meant.
LEMMA GivenInv ==
  ASSUME PatternInv, NEW o \in Objects, NEW p \in AllPatterns,
         object' = [object EXCEPT ![o] = p], meant' = [meant EXCEPT ![o] = p],
         UNCHANGED <<text, written>>
  PROVE  PatternInv'
<1>1. PatternTypeOK'
  BY DEF PatternInv, PatternTypeOK
<1>2. \A x \in Objects : \/ object'[x] = p /\ meant'[x] = p
                         \/ object'[x] = object[x] /\ meant'[x] = meant[x]
  BY DEF PatternInv, PatternTypeOK
<1>3. CopiesAgree'
  BY <1>2 DEF PatternInv, CopiesAgree
<1> QED BY <1>1, <1>3 DEF PatternInv

\* A copy of an absolute time has its base, of anything else its value.
LEMMA AssignInv ==
  ASSUME PatternInv, NEW o \in Objects, NEW other \in Objects, Assign(o, other)
  PROVE  PatternInv'
<1>1. /\ object \in [Objects -> AllPatterns] /\ meant \in [Objects -> AllPatterns]
      /\ written \in AllPatterns /\ ~Unwritable(written) /\ text = ToString(written)
      /\ CopiesAgree
  BY DEF PatternInv, PatternTypeOK
<1>2. meant' = [meant EXCEPT ![o] = meant[other]] /\ UNCHANGED <<text, written>>
  BY DEF Assign
<1>3. PICK q \in AllPatterns :
        /\ object' = [object EXCEPT ![o] = q]
        /\ \/ q = object[other]
           \/ /\ object[other].type = "absolute" /\ q.type = "absolute"
              /\ q.base = object[other].base
  <2>1. CASE object[other].type # "absolute"
    BY <1>1, <2>1 DEF Assign
  <2>2. CASE object[other].type = "absolute"
    <3>1. PICK left \in Leftover :
            object' = [object EXCEPT ![o] = [object[other] EXCEPT !.variation = left]]
      BY <2>2 DEF Assign
    <3>2. object[other] \in Absolutes
      <4>1. object[other] \in AllPatterns
        BY <1>1
      <4> QED BY <2>2, <4>1 DEF AllPatterns, Undefined, Recurring, Intervals, Timers
    <3> DEFINE q == [object[other] EXCEPT !.variation = left]
    <3>3. left \in Durations
      BY PatternAssumption
    <3>4. q \in Absolutes /\ q.type = "absolute" /\ q.base = object[other].base
      BY <3>2, <3>3 DEF Absolutes
    <3>5. q \in AllPatterns
      BY <3>4 DEF AllPatterns
    <3> HIDE DEF q
    <3>6. object' = [object EXCEPT ![o] = q]
      BY <3>1 DEF q
    <3> QED BY <2>2, <3>4, <3>5, <3>6
  <2> QED BY <2>1, <2>2
<1>4. PatternTypeOK'
  BY <1>1, <1>2, <1>3 DEF PatternTypeOK
<1>5. \A x \in Objects : \/ x = o /\ object'[x] = q /\ meant'[x] = meant[other]
                         \/ object'[x] = object[x] /\ meant'[x] = meant[x]
  BY <1>1, <1>2, <1>3
<1>6. \/ q = meant[other]
      \/ /\ q.type = "absolute" /\ meant[other].type = "absolute"
         /\ q.base = meant[other].base
  BY <1>1, <1>3 DEF CopiesAgree
<1>7. CopiesAgree'
  BY <1>1, <1>5, <1>6 DEF CopiesAgree
<1> QED BY <1>4, <1>7 DEF PatternInv

LEMMA PatternStepInv == PatternInv /\ [PatternNext]_patternVars => PatternInv'
<1> SUFFICES ASSUME PatternInv, [PatternNext]_patternVars PROVE PatternInv'
  OBVIOUS
<1>1. ASSUME NEW o \in Objects, NEW p \in Patterns, Construct(o, p) PROVE PatternInv'
  <2>1. p \in AllPatterns
    BY PatternAssumption
  <2> QED BY <1>1, <2>1, GivenInv DEF Construct
<1>2. ASSUME NEW o \in Objects, NEW other \in Objects, Assign(o, other) PROVE PatternInv'
  BY <1>2, AssignInv
<1>3. ASSUME NEW o \in Objects, SetTime(o) PROVE PatternInv'
  BY <1>3 DEF SetTime, PatternInv, PatternTypeOK, CopiesAgree
<1>4. ASSUME NEW o \in Objects, GetTime(o) PROVE PatternInv'
  <2>1. written \in AllPatterns /\ text = ToString(written)
    BY DEF PatternInv, PatternTypeOK
  <2>2. ParsePattern(text) \in AllPatterns
    BY <2>1, PatternIsRead, PatternSettles DEF SettledAs
  <2> QED BY <1>4, <2>2, GivenInv DEF GetTime
<1>5. ASSUME UNCHANGED patternVars PROVE PatternInv'
  BY <1>5 DEF patternVars, PatternInv, PatternTypeOK, CopiesAgree
<1> QED BY <1>1, <1>2, <1>3, <1>4, <1>5 DEF PatternNext

\* What a schedule holds is always the text of a pattern that toString accepts,
\* and what variables hold are patterns: parse makes no other of it.
THEOREM PatternTypes == PatternSpec => []PatternTypeOK
<1>1. PatternInv => PatternTypeOK
  BY DEF PatternInv
<1> QED BY PatternInitInv, PatternStepInv, <1>1, PTL DEF PatternSpec

\* For any patterns, variables and contents of memory: however often a pattern
\* is copied, written and read, it keeps its value but for the variation of an
\* absolute time.
THEOREM CopiesDoAgree == PatternSpec => []CopiesAgree
<1>1. PatternInv => CopiesAgree
  BY DEF PatternInv
<1> QED BY PatternInitInv, PatternStepInv, <1>1, PTL DEF PatternSpec

\* A pattern belongs to the class its type names.
LEMMA ClassOfType ==
  ASSUME NEW p \in AllPatterns
  PROVE  /\ p.type = "absolute" => p \in Absolutes
         /\ p.type = "recurring" => p \in Recurring
         /\ p.type = "interval" => p \in Intervals
         /\ p.type = "timer" => p \in Timers
<1>1. CASE p = Undefined
  BY <1>1 DEF Undefined
<1>2. CASE p \in Absolutes
  BY <1>2 DEF Absolutes
<1>3. CASE p \in Recurring
  BY <1>3 DEF Recurring
<1>4. CASE p \in Intervals
  BY <1>4 DEF Intervals
<1>5. CASE p \in Timers
  <2>1. p.type = "timer"
    BY <1>5 DEF Timers
  <2> QED BY <1>5, <2>1
<1> QED BY <1>1, <1>2, <1>3, <1>4, <1>5 DEF AllPatterns

\* What is read of a pattern, part by part.
LEMMA TypeImpliesReadsBack == PatternTypeOK => ReadsBack
<1> SUFFICES ASSUME PatternTypeOK PROVE ReadsBack
  OBVIOUS
<1> DEFINE p == written
           r == ParsePattern(text)
<1>1. p \in AllPatterns /\ ~Unwritable(p) /\ text = ToString(p)
  BY DEF PatternTypeOK
<1>2. r = ReadPattern(p) /\ SettledAs(p, r)
  BY <1>1, PatternIsRead, PatternSettles
<1>3. r.type = p.type /\ r \in AllPatterns /\ ~Unwritable(r) /\ ReadPattern(r) = r
  BY <1>1, <1>2 DEF SettledAs
<1>4. ParsePattern(ToString(r)) = r
  <2> HIDE DEF r
  <2> QED BY <1>3, PatternIsRead
<1> HIDE DEF r, p
<1>5. ASSUME r.type = "absolute"
      PROVE  /\ ~Repeated(Seconds(p.base)) => r.base = Whole(p.base)
             /\ Localtime(Seconds(r.base)) = Localtime(Seconds(p.base))
             /\ r.variation = Whole(p.variation)
  <2> DEFINE t == Mktime(Localtime(Seconds(p.base)))
  <2>1. p \in Absolutes
    BY <1>1, <1>3, <1>5, ClassOfType
  <2>2. r.base = t * Tick /\ r.variation = Whole(p.variation)
    BY <1>2, <1>3, <1>5 DEF ReadPattern
  <2>3. p.base \in Nat /\ Seconds(p.base) \in Nat /\ Tick \in Nat \ {0}
    BY <2>1, SecondsFacts, PatternAssumption DEF Absolutes, Durations
  <2>4. /\ t \in Nat /\ Localtime(t) = Localtime(Seconds(p.base))
        /\ ~Repeated(Seconds(p.base)) => t = Seconds(p.base)
    BY <2>3, LocalTimeIsRead
  <2> HIDE DEF t
  <2>5. (t * Tick) \div Tick = t
    BY <2>3, <2>4
  <2>6. Seconds(r.base) = t
    BY <2>2, <2>5 DEF Seconds
  <2> QED BY <2>2, <2>4, <2>6 DEF Whole
<1>6. ASSUME r.type = "recurring"
      PROVE  /\ r.time = Whole(p.time) /\ r.variation = Whole(p.variation)
             /\ r.days = p.days
  <2>1. p \in Recurring
    BY <1>1, <1>3, <1>6, ClassOfType
  <2>2. r = [type |-> "recurring", time |-> Whole(p.time), days |-> p.days,
             variation |-> Whole(p.variation)]
    BY <1>2, <1>3, <1>6 DEF ReadPattern
  <2> QED BY <2>2
<1>7. ASSUME r.type = "interval"
      PROVE  /\ r.start = Whole(p.start) /\ r.end = Whole(p.end)
             /\ r.days = p.days
  <2>1. p \in Intervals
    BY <1>1, <1>3, <1>7, ClassOfType
  <2>2. r = [type |-> "interval", start |-> Whole(p.start), end |-> Whole(p.end),
             days |-> p.days]
    BY <1>2, <1>3, <1>7 DEF ReadPattern
  <2> QED BY <2>2
<1>8. ASSUME r.type = "timer"
      PROVE  /\ r.expires = Whole(p.expires)
             /\ r.variation = Whole(p.variation)
             /\ p.num < 100 => r.num = p.num
  <2>1. p \in Timers
    BY <1>1, <1>3, <1>8, ClassOfType
  <2>2. /\ r.expires = Whole(p.expires) /\ r.variation = Whole(p.variation)
        /\ r.num = LeadingTwo(p.num)
    BY <1>2, <1>3, <1>8 DEF ReadPattern
  <2>3. p.num \in Nat /\ p.num <= MaxInt
    BY <2>1, MaxIntNat DEF Timers
  <2> QED BY <2>2, <2>3, LeadingTwoFacts
<1> QED BY <1>3, <1>4, <1>5, <1>6, <1>7, <1>8 DEF ReadsBack, r, p

\* For every pattern, tick and time change: what toString writes, parse reads
\* back to the second, but for the repeated hour and the third digit of a
\* timer's executions, and it reads the same ever after.
THEOREM PatternsReadBack == PatternSpec => []ReadsBack
<1>1. PatternInv => ReadsBack
  BY TypeImpliesReadsBack DEF PatternInv
<1> QED BY PatternInitInv, PatternStepInv, <1>1, PTL DEF PatternSpec
=============================================================================
