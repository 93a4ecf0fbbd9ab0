---------------------------- MODULE TimePattern -----------------------------
(***************************************************************************)
(* The time patterns of schedules: how a pattern becomes the text of the   *)
(* bridge's "localtime" field and is read from it again, and what is left  *)
(* of a pattern when it is copied.                                         *)
(*                                                                         *)
(* A text is a sequence of the tokens the code writes: a mark, followed by *)
(* the numbers written after it.  Durations and instants count ticks of    *)
(* system_clock; the local time of an instant counts seconds.              *)
(***************************************************************************)
EXTENDS Integers, Sequences

CONSTANTS Tick,      \* ticks of system_clock in a second
          Switch,    \* the second at which daylight saving time ends
          Shift,     \* seconds the clocks are put back then
          Later,     \* mktime takes a repeated local time for the later one
          Patterns,  \* the patterns programs construct
          Leftover,  \* what memory that was never written may hold
          Objects    \* variables of type TimePattern

Hours(n) == n * 3600 * Tick

----------------------------------------------------------------------------
(* Patterns: the four classes the union of TimePattern holds, or none.     *)

Durations == Nat
MaxInt    == 2147483647
Weekdays  == 0..6

Undefined == [type |-> "undefined"]
Absolutes == [type : {"absolute"}, base : Nat, variation : Durations]
Recurring == [type : {"recurring"}, time : Durations,
              days : SUBSET Weekdays, variation : Durations]
Intervals == [type : {"interval"}, start : Durations, end : Durations,
              days : SUBSET Weekdays]
Timers    == [type : {"timer"}, expires : Durations, num : 0..MaxInt,
              variation : Durations]

AllPatterns == {Undefined} \cup Absolutes \cup Recurring \cup Intervals
                 \cup Timers

Infinite == 0     \* Timer::infiniteExecutions

ASSUME PatternAssumption ==
  /\ Tick \in Nat \ {0}
  /\ Shift \in Nat /\ Switch \in Nat /\ Shift <= Switch
  /\ Later \in BOOLEAN
  /\ Patterns \subseteq AllPatterns
  /\ Leftover \subseteq Durations

----------------------------------------------------------------------------
(* Writing.                                                                *)

Seconds(d) == d \div Tick

\* durationTo_hh_mm_ss behind a mark: the numbers of hh:mm:ss, the fraction
\* of a second is dropped.  It throws when the duration is longer than a day.
Clock(mark, d) == LET h == Seconds(d) \div 3600
                      m == (Seconds(d) - h * 3600) \div 60
                  IN  <<mark, h, m, Seconds(d) - h * 3600 - m * 60>>

Writable(d) == d <= Hours(24)

Bit(days, d) == IF d \in days THEN 2^d ELSE 0

Bitmask(days) == Bit(days, 0) + Bit(days, 1) + Bit(days, 2) + Bit(days, 3)
                   + Bit(days, 4) + Bit(days, 5) + Bit(days, 6)

\* localtime: the clock on the wall at second t
Localtime(t) == IF t < Switch THEN t + Shift ELSE t

Varied(d) == IF d # 0 THEN <<Clock("A", d)>> ELSE <<>>

AbsoluteText(p) ==
  << <<"stamp", Localtime(Seconds(p.base))>> >> \o Varied(p.variation)

RecurringText(p) ==
  << <<"W", Bitmask(p.days)>>, <<"/">>, Clock("T", p.time) >>
    \o Varied(p.variation)

\* Every day is written as no day.
IntervalText(p) ==
  (IF p.days = Weekdays THEN <<>> ELSE << <<"W", Bitmask(p.days)>>, <<"/">> >>)
    \o <<Clock("T", p.start), <<"/">>, Clock("T", p.end)>>

TimerText(p) ==
  (CASE p.num = 1        -> <<>>
     [] p.num = Infinite -> << <<"R">>, <<"/">> >>
     [] OTHER            -> << <<"R", p.num>>, <<"/">> >>)
    \o <<Clock("PT", p.expires)>> \o Varied(p.variation)

ToString(p) == CASE p.type = "undefined" -> <<>>
                 [] p.type = "absolute"  -> AbsoluteText(p)
                 [] p.type = "recurring" -> RecurringText(p)
                 [] p.type = "interval"  -> IntervalText(p)
                 [] p.type = "timer"     -> TimerText(p)

\* toString of p throws: one of its durations is too long for
\* durationTo_hh_mm_ss
Unwritable(p) ==
  \E d \in CASE p.type = "undefined" -> {}
             [] p.type = "absolute"  -> {p.variation}
             [] p.type = "recurring" -> {p.time, p.variation}
             [] p.type = "interval"  -> {p.start, p.end}
             [] p.type = "timer"     -> {p.expires, p.variation} :
     ~Writable(d)

----------------------------------------------------------------------------
(* Reading.                                                                *)

ParseDuration(token) == (token[2] * 3600 + token[3] * 60 + token[4]) * Tick

ParseWeekdays(n) == {d \in Weekdays : (n \div 2^d) % 2 = 1}

\* mktime with tm_isdst = -1: a local time that occurs twice has two answers
Mktime(l) == IF l < Switch \/ (l < Switch + Shift /\ ~Later) THEN l - Shift
                                                             ELSE l

\* the variation behind the n-th token, if there is one
VariationAfter(s, n) == IF Len(s) > n THEN ParseDuration(s[n + 1]) ELSE 0

ParseAbsolute(s) == [type |-> "absolute", base |-> Mktime(s[1][2]) * Tick,
                     variation |-> VariationAfter(s, 1)]

\* stoi(s.substr(1, 2)): the first two digits of the repetitions
Behind(n)     == CHOOSE p \in {10^k : k \in 1..8} : n \div p \in 10..99
LeadingTwo(n) == IF n < 100 THEN n ELSE n \div Behind(n)

Repetitions(token) == IF Len(token) = 1 THEN Infinite ELSE LeadingTwo(token[2])

ParseTimer(s) ==
  LET n == IF s[1][1] = "R" THEN 3 ELSE 1     \* the token of the duration
  IN  [type |-> "timer", expires |-> ParseDuration(s[n]),
       num |-> IF n = 1 THEN 1 ELSE Repetitions(s[1]),
       variation |-> VariationAfter(s, n)]

ParseRecurring(s) == [type |-> "recurring", time |-> ParseDuration(s[3]),
                      days |-> ParseWeekdays(s[1][2]),
                      variation |-> VariationAfter(s, 3)]

\* Mutant: no days are given, no day it is.
ParseIntervalNoDays(s) ==
  LET n == IF s[1][1] = "W" THEN 3 ELSE 1
  IN  [type |-> "interval", start |-> ParseDuration(s[n]),
       end |-> ParseDuration(s[n + 2]),
       days |-> IF n = 3 THEN ParseWeekdays(s[1][2]) ELSE {}]

ParseInterval(s) ==
  LET n == IF s[1][1] = "W" THEN 3 ELSE 1     \* the token of the start
  IN  [type |-> "interval", start |-> ParseDuration(s[n]),
       end |-> ParseDuration(s[n + 2]),
       days |-> IF n = 3 THEN ParseWeekdays(s[1][2]) ELSE Weekdays]

Slashes(s) == {i \in 1..Len(s) : s[i][1] = "/"}

\* TimePattern::parse goes by the first character and the number of slashes.
ParsePattern(s) ==
  IF s = <<>> THEN Undefined
  ELSE CASE s[1][1] = "stamp"       -> ParseAbsolute(s)
         [] s[1][1] \in {"R", "PT"} -> ParseTimer(s)
         [] s[1][1] = "W" /\ \E i \in Slashes(s) : Slashes(s) = {i} ->
              ParseRecurring(s)
         [] OTHER                   -> ParseInterval(s)

----------------------------------------------------------------------------
(* The program's patterns and a schedule that holds one.                   *)

VARIABLES object,   \* what the union of each TimePattern variable holds
          text,     \* the schedule's "localtime"
          meant,    \* history: the value each variable was given
          written   \* history: the pattern `text' was written from

patternVars == <<object, text, meant, written>>

PatternInit == /\ object = [o \in Objects |-> Undefined]
               /\ meant = object
               /\ text = <<>>
               /\ written = Undefined

\* One of the constructors from a value.
Construct(o, p) ==
  /\ object' = [object EXCEPT ![o] = p]
  /\ meant' = [meant EXCEPT ![o] = p]
  /\ UNCHANGED <<text, written>>

\* Mutant: a copied interval forgets its days.
AssignNoDays(o, other) ==
  /\ o # other
  /\ object' = [object EXCEPT ![o] =
                  IF object[other].type = "interval"
                    THEN [object[other] EXCEPT !.days = Weekdays]
                    ELSE object[other]]
  /\ meant' = [meant EXCEPT ![o] = meant[other]]
  /\ UNCHANGED <<text, written>>

\* operator=, which the copy constructor calls.  For an absolute time it
\* constructs only the AbsoluteTime in the union: the variation is whatever
\* the memory held.
Assign(o, other) ==
  /\ o # other
  /\ IF object[other].type = "absolute"
       THEN \E left \in Leftover :
              object' = [object EXCEPT ![o] =
                           [object[other] EXCEPT !.variation = left]]
       ELSE object' = [object EXCEPT ![o] = object[other]]
  /\ meant' = [meant EXCEPT ![o] = meant[other]]
  /\ UNCHANGED <<text, written>>

\* Mutant: durationTo_hh_mm_ss writes any duration.
SetTimeLong(o) ==
  /\ text' = ToString(object[o])
  /\ written' = object[o]
  /\ UNCHANGED <<object, meant>>

\* Schedule::setTime: the PUT and the refresh.  Nothing is sent when
\* toString throws.
SetTime(o) ==
  /\ ~Unwritable(object[o])
  /\ text' = ToString(object[o])
  /\ written' = object[o]
  /\ UNCHANGED <<object, meant>>

\* Schedule::getTime initialises a variable: parse builds its result in place.
GetTime(o) ==
  /\ object' = [object EXCEPT ![o] = ParsePattern(text)]
  /\ meant' = [meant EXCEPT ![o] = ParsePattern(text)]
  /\ UNCHANGED <<text, written>>

PatternNext ==
  \E o \in Objects :
     \/ \E p \in Patterns : Construct(o, p)
     \/ \E other \in Objects : Assign(o, other)
     \/ SetTime(o)
     \/ GetTime(o)

PatternSpec == PatternInit /\ [][PatternNext]_patternVars

----------------------------------------------------------------------------
PatternTypeOK ==
  /\ object \in [Objects -> AllPatterns]
  /\ meant \in [Objects -> AllPatterns]
  /\ written \in AllPatterns
  /\ ~Unwritable(written)
  /\ text = ToString(written)

\* d without its fraction of a second
Whole(d) == Seconds(d) * Tick

\* The one instant of each repeated local time that is not read back.
Repeated(t) == Switch - Shift <= t /\ t < Switch + Shift

\* What a schedule is told is what is read from it again, to the second:
\* whatever pattern was written with toString, parse recognises its kind
\* and finds every part of it.  Excepted are the hour that is repeated when
\* daylight saving time ends and timers of more than 99 executions, of whose
\* number parse reads two digits.  And there it settles: what was read can be
\* written again and reads the same, so a program that copies the bridge's
\* schedules never changes one.
ReadsBack ==
  LET r == ParsePattern(text) IN
  /\ r.type = written.type
  /\ r.type = "absolute" =>
       /\ ~Repeated(Seconds(written.base)) => r.base = Whole(written.base)
       /\ Localtime(Seconds(r.base)) = Localtime(Seconds(written.base))
       /\ r.variation = Whole(written.variation)
  /\ r.type = "recurring" =>
       /\ r.time = Whole(written.time) /\ r.variation = Whole(written.variation)
       /\ r.days = written.days
  /\ r.type = "interval" =>
       /\ r.start = Whole(written.start) /\ r.end = Whole(written.end)
       /\ r.days = written.days
  /\ r.type = "timer" =>
       /\ r.expires = Whole(written.expires)
       /\ r.variation = Whole(written.variation)
       /\ (written.num < 100 => r.num = written.num)
  /\ ~Unwritable(r) /\ ParsePattern(ToString(r)) = r

\* However often a pattern is copied from variable to variable, written and
\* read, it has the value it was given first, but for the variation of an
\* absolute time.
CopiesAgree ==
  \A o \in Objects :
     \/ object[o] = meant[o]
     \/ /\ object[o].type = "absolute" /\ meant[o].type = "absolute"
        /\ object[o].base = meant[o].base
=============================================================================
