------------------------------ MODULE TimeZone ------------------------------
(***************************************************************************)
(* The process's time zone while threads read and write timestamps.        *)
(* parseUTCTimestamp takes TZ away and puts it back; parseTimestamp and    *)
(* timepointToTimestamp use whatever zone is set.  No lock is held.  The   *)
(* steps are the calls of the C library.                                   *)
(***************************************************************************)
EXTENDS Integers

CONSTANTS Parsers,   \* threads that call the functions
          Home       \* TZ as the program was started; "" means UTC,
                     \* "unset" that there is none

ASSUME ZoneAssumption == Home # ""

VARIABLES tz,        \* the environment variable
          at,        \* where each thread is
          kept,      \* the copy strdup made of TZ, "unset" if there was none
          used,      \* zone the thread's last conversion took place in
          asked,     \* history: zone it should have taken place in
          crossed    \* history: two of the functions ran at once

zoneVars == <<tz, at, kept, used, asked, crossed>>

ZoneInit == /\ tz = Home
            /\ at = [t \in Parsers |-> "idle"]
            /\ kept = [t \in Parsers |-> Home]
            /\ used = [t \in Parsers |-> "none"]
            /\ asked = [t \in Parsers |-> "none"]
            /\ crossed = FALSE

Alone(t) == \A u \in Parsers \ {t} : at[u] = "idle"

\* parseTimestamp's mktime or timepointToTimestamp's localtime.
LocalTime(t) ==
  /\ at[t] = "idle"
  /\ used' = [used EXCEPT ![t] = tz]
  /\ asked' = [asked EXCEPT ![t] = Home]
  /\ crossed' = (crossed \/ ~Alone(t))
  /\ UNCHANGED <<tz, at, kept>>

\* parseUTCTimestamp: getenv and strdup.  A timestamp that is no timestamp
\* has thrown before.
KeepZone(t) ==
  /\ at[t] = "idle"
  /\ at' = [at EXCEPT ![t] = "kept"]
  /\ kept' = [kept EXCEPT ![t] = tz]
  /\ used' = [used EXCEPT ![t] = "none"]
  /\ asked' = [asked EXCEPT ![t] = "none"]
  /\ crossed' = (crossed \/ ~Alone(t))
  /\ UNCHANGED tz

\* Mutant: getenv's pointer is kept without a copy, and setenv changes what
\* it points to.
ClearZoneNoCopy(t) ==
  /\ at[t] = "kept"
  /\ at' = [at EXCEPT ![t] = "cleared"]
  /\ tz' = ""
  /\ kept' = [kept EXCEPT ![t] = ""]
  /\ UNCHANGED <<used, asked, crossed>>

\* setenv("TZ", "") and tzset.
ClearZone(t) ==
  /\ at[t] = "kept"
  /\ at' = [at EXCEPT ![t] = "cleared"]
  /\ tz' = ""
  /\ UNCHANGED <<kept, used, asked, crossed>>

\* mktime.
Convert(t) ==
  /\ at[t] = "cleared"
  /\ at' = [at EXCEPT ![t] = "converted"]
  /\ used' = [used EXCEPT ![t] = tz]
  /\ asked' = [asked EXCEPT ![t] = ""]
  /\ UNCHANGED <<tz, kept, crossed>>

\* setenv of the copy, or unsetenv, and tzset; then mktime's failure, if it
\* failed, is thrown.
RestoreZone(t) ==
  /\ at[t] = "converted"
  /\ at' = [at EXCEPT ![t] = "idle"]
  /\ tz' = kept[t]
  /\ UNCHANGED <<kept, used, asked, crossed>>

ZoneNext == \E t \in Parsers : LocalTime(t) \/ KeepZone(t) \/ ClearZone(t)
                                 \/ Convert(t) \/ RestoreZone(t)

ZoneSpec == ZoneInit /\ [][ZoneNext]_zoneVars

----------------------------------------------------------------------------
Zones == {Home, ""}

ZoneTypeOK ==
  /\ tz \in Zones
  /\ at \in [Parsers -> {"idle", "kept", "cleared", "converted"}]
  /\ kept \in [Parsers -> Zones]
  /\ used \in [Parsers -> Zones \cup {"none"}]
  /\ asked \in [Parsers -> Zones \cup {"none"}]
  /\ crossed \in BOOLEAN

\* As long as no two of the functions have run at the same time, every
\* timestamp is converted in the zone it should be, and the program has its
\* own zone back after every call.  The condition is needed: two crossing
\* calls of parseUTCTimestamp can each keep what the other has set, and the
\* process stays in UTC for good.
ZoneKept ==
  ~crossed => /\ used = asked
              /\ (\A t \in Parsers : at[t] = "idle") => tz = Home
=============================================================================
