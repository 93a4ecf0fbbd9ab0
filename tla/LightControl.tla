---------------------------- MODULE LightControl ----------------------------
(***************************************************************************)
(* A Light and its transactions: what the bridge's light really shows, the *)
(* copy of it that the Light caches, the StateTransaction that trims a     *)
(* request against that copy before it is sent, and the alert functions of *)
(* the colour strategies, which show a colour, pulse and put the old one   *)
(* back with a second transaction.                                         *)
(*                                                                         *)
(* A request is a record with Unset for the keys it lacks.  Hue and        *)
(* saturation are one colour value of mode "hs"; a request has at most one *)
(* colour key.  "effect" is trimmed as "bri" is and is left out, as is     *)
(* "transitiontime", which alone never makes a request.                    *)
(***************************************************************************)
EXTENDS Naturals

CONSTANTS Modes,    \* colour modes of this light: {"hs","xy"}, {"ct"} or all three
          Colours,  \* colour values of any mode
          MaxBri,   \* the brightness setBrightness clamps to (254)
          Width,    \* its parameter is an integer modulo this (uint8_t: 256)
          Unset     \* a key the request does not have

ASSUME LightAssumption ==
  /\ Modes # {} /\ Modes \subseteq {"hs", "xy", "ct"}
  /\ Colours # {}
  /\ MaxBri \in Nat \ {0} /\ Width \in Nat /\ MaxBri < Width
  /\ Unset \notin BOOLEAN \cup Nat \cup Modes \cup Colours

VARIABLES light,     \* what the light shows
          state,     \* the "state" object the Light's cache holds
          outdated,  \* since the last refresh something happened to the
                     \* light that the cached state could not follow
          alert,     \* the alert function in progress
          result     \* history: the last transaction or alert that returned

vars == <<light, state, outdated, alert, result>>

Bris    == 0 .. MaxBri
Looks   == [on : BOOLEAN, bri : Bris, mode : Modes, colour : Colours]
Replies == [on : BOOLEAN, bri : Bris, mode : Modes, colours : [Modes -> Colours]]

\* What a GET of the light can answer: only the value of the active mode is
\* the colour shown, the bridge converts it to the others as it likes.
Readings(look) ==
  {[on |-> look.on, bri |-> look.bri, mode |-> look.mode,
    colours |-> [f EXCEPT ![look.mode] = look.colour]] : f \in [Modes -> Colours]}

\* What a cached state makes the library believe the light shows.
Shown(s) == [on |-> s.on, bri |-> s.bri, mode |-> s.mode, colour |-> s.colours[s.mode]]

NoAlert == [pc |-> "idle"]
Nothing == [op |-> "none", met |-> FALSE]

Init ==
  /\ light \in Looks
  /\ state \in Readings(light)
  /\ outdated = FALSE
  /\ alert = NoAlert
  /\ result = Nothing

-----------------------------------------------------------------------------
\* Mutant: the brightness goes into the request as it is.
UnclampedBri(b) == b % Width

\* The unsigned int of Light::setBrightness narrows to the uint8_t of the
\* transaction's, which clamps it to 254.
ClampedBri(b) == LET narrow == b % Width IN IF narrow > MaxBri THEN MaxBri ELSE narrow

Empty == [on |-> Unset, bri |-> Unset, mode |-> Unset, colour |-> Unset,
          inc |-> FALSE, alert |-> FALSE]

\* What the setters of a transaction build: on or off, a brightness and a
\* colour of one mode, each set or not.
Asking(on, bri, mode, colour) ==
  [Empty EXCEPT !.on = on, !.bri = IF bri = Unset THEN Unset ELSE ClampedBri(bri),
                !.mode = mode, !.colour = colour]

\* incrementBrightness.
Increment == [Empty EXCEPT !.inc = TRUE]

\* setColor(XYBrightness) sets the brightness too, the other modes do not.
ColourRequest(mode, colour, bri) ==
  [Empty EXCEPT !.mode = mode, !.colour = colour,
                !.bri = IF mode = "xy" THEN bri ELSE Unset]

\* commit, first part: a request for a light believed off turns it on,
\* brightness 0 turns a light believed on off, unless "on" was set.
WithPower(r, s) ==
  IF r.on # Unset THEN r
  ELSE IF ~s.on /\ r.bri # 0 /\ (r.bri # Unset \/ r.mode # Unset)
       THEN [r EXCEPT !.on = TRUE]
  ELSE IF r.bri = 0 /\ s.on THEN [r EXCEPT !.on = FALSE] ELSE r

\* Mutant: a colour is dropped when its value matches, whatever the mode.
TrimAnyMode(r, s) ==
  LET same == r.mode # Unset /\ s.colours[r.mode] = r.colour
  IN [r EXCEPT !.on = IF @ = s.on THEN Unset ELSE @,
               !.bri = IF @ = s.bri THEN Unset ELSE @,
               !.mode = IF same THEN Unset ELSE @,
               !.colour = IF same THEN Unset ELSE @]

\* trimRequest: what the cached state already says is dropped; a colour only
\* if the cached colormode is the colour's.  Increments and alerts stay.
Trim(r, s) ==
  LET same == r.mode # Unset /\ s.mode = r.mode /\ s.colours[r.mode] = r.colour
  IN [r EXCEPT !.on = IF @ = s.on THEN Unset ELSE @,
               !.bri = IF @ = s.bri THEN Unset ELSE @,
               !.mode = IF same THEN Unset ELSE @,
               !.colour = IF same THEN Unset ELSE @]

Or(value, default) == IF value = Unset THEN default ELSE value

\* The bridge: a light that is off takes only "on" and alerts, ...
Accepts(look, r) ==
  look.on \/ r.on = TRUE \/ (r.bri = Unset /\ r.mode = Unset /\ ~r.inc)

\* ... and an accepted request changes the light, and its mode with a colour.
Applied(look, r) ==
  [on |-> Or(r.on, look.on),
   bri |-> IF r.inc /\ look.bri < MaxBri THEN look.bri + 1 ELSE Or(r.bri, look.bri),
   mode |-> Or(r.mode, look.mode),
   colour |-> Or(r.colour, look.colour)]

\* Mutant: the colour values are not copied to the cached state.
NotedNoColour(s, r) ==
  [on |-> Or(r.on, s.on), bri |-> Or(r.bri, s.bri), mode |-> s.mode,
   colours |-> s.colours]

\* commit, last part: the request's keys are copied into the cached state.
\* The request has no "colormode" key, so the cached colormode stays.
Noted(s, r) ==
  [on |-> Or(r.on, s.on), bri |-> Or(r.bri, s.bri), mode |-> s.mode,
   colours |-> IF r.mode = Unset THEN s.colours
               ELSE [s.colours EXCEPT ![r.mode] = r.colour]]

-----------------------------------------------------------------------------
\* Light::transaction(): getValue refreshes the cached state (fresh) or not.
Known(fresh) == IF fresh THEN Readings(light) ELSE {state}

\* StateTransaction::commit(trim) of request r on the state `known'; "failed"
\* stands for false and for an exception.
Commit(r, known, fresh, trim, ret) ==
  LET full == WithPower(r, known)
      sent == IF trim THEN Trim(full, known) ELSE full
  IN \/ /\ sent = Empty                      \* nothing left to request
        /\ ret = "true"
        /\ state' = known
        /\ outdated' = (outdated /\ ~fresh)
        /\ UNCHANGED light
     \/ /\ sent # Empty                      \* the reply confirms every key
        /\ Accepts(light, sent)
        /\ ret = "true"
        /\ light' = Applied(light, sent)
        /\ state' = Noted(known, sent)
        /\ outdated' = ((outdated /\ ~fresh) \/ sent.inc)
     \/ /\ sent # Empty                      \* another value, an error reply
        /\ ret = "failed"                    \* or none: applied or not
        /\ light' \in {light, Applied(light, sent)}
        /\ state' = known
        /\ outdated' = TRUE

\* What the documentation of the setters says the light will show.
Meets(look, r) ==
  /\ r.on # Unset => look.on = r.on
  /\ r.on = Unset /\ r.bri = 0 => ~look.on
  /\ r.on = Unset /\ r.bri # 0 /\ (r.bri # Unset \/ r.mode # Unset) => look.on
  /\ r.bri # Unset /\ ~r.inc => look.bri = r.bri
  /\ r.mode # Unset => look.mode = r.mode /\ look.colour = r.colour

\* What the history keeps of a call: whether it did what it promises, for
\* the calls that returned true and had a fair chance.
Told(op, ret, fair, met) ==
  IF ret = "true" /\ fair THEN [op |-> op, met |-> met] ELSE Nothing

\* A transaction of the program: Light::on, off, setBrightness, the colour
\* setters, and transaction() with any of them combined.
Transact(r, trim) ==
  /\ alert.pc = "idle"
  /\ \E fresh \in BOOLEAN, ret \in {"true", "failed"} : \E known \in Known(fresh) :
       /\ Commit(r, known, fresh, trim, ret)
       /\ result' = Told("transaction", ret,
                         (fresh \/ ~outdated) /\ known.mode = light.mode,
                         Meets(light', r))
  /\ UNCHANGED alert

-----------------------------------------------------------------------------
\* alertHueSaturation, alertXY, alertTemperature up to the colour: the old
\* state is read from the cache, then the alert colour is set.
AlertShow(mode, colour, bri) ==
  /\ alert.pc = "idle"
  /\ \E fresh \in BOOLEAN, ret \in {"true", "failed"} : \E known \in Known(fresh) :
       /\ Commit(ColourRequest(mode, colour, bri), known, fresh, TRUE, ret)
       /\ alert' = IF ret = "failed" THEN NoAlert
                   ELSE [pc |-> "shown", mode |-> mode, old |-> Shown(known),
                         fair |-> (fresh \/ ~outdated) /\ Shown(known) = light]
  /\ result' = Nothing

\* ... the pause, then Light::alert().
AlertPulse ==
  /\ alert.pc = "shown"
  /\ \E fresh \in BOOLEAN, ret \in {"true", "failed"} : \E known \in Known(fresh) :
       /\ Commit([Empty EXCEPT !.alert = TRUE], known, fresh, TRUE, ret)
       /\ alert' = IF ret = "failed" THEN NoAlert ELSE [alert EXCEPT !.pc = "pulsed"]
  /\ result' = Nothing

\* Mutant: the restoring transaction leaves "on" to the light.
RestoringNoPower(a) ==
  [ColourRequest(a.old.mode, a.old.colour, a.old.bri) EXCEPT
     !.bri = IF a.mode = "xy" THEN a.old.bri ELSE @]

\* The transaction that puts the old state back: the old colour, the old
\* brightness if either colour carries one, and on or off.
Restoring(a) ==
  [ColourRequest(a.old.mode, a.old.colour, a.old.bri) EXCEPT
     !.bri = IF a.mode = "xy" THEN a.old.bri ELSE @, !.on = a.old.on]

\* ... the second pause, then the old state.
AlertRestore ==
  /\ alert.pc = "pulsed"
  /\ \E fresh \in BOOLEAN, ret \in {"true", "failed"} : \E known \in Known(fresh) :
       /\ Commit(Restoring(alert), known, fresh, TRUE, ret)
       /\ result' = Told(IF alert.mode = alert.old.mode THEN "alert" ELSE "alertAcross",
                         ret, alert.fair, light' = alert.old)
  /\ alert' = NoAlert

\* refresh(true), or a getter of an expired cache.
Refresh ==
  /\ state' \in Readings(light)
  /\ outdated' = FALSE
  /\ result' = Nothing
  /\ UNCHANGED <<light, alert>>

\* Someone else changes the light: a switch, another client, or this
\* program through a Group, whose transactions know no light's state.
OtherChange ==
  /\ \/ light' = [light EXCEPT !.on = ~@]
     \/ \E b \in Bris : light' = [light EXCEPT !.bri = b]
     \/ \E m \in Modes, c \in Colours : light' = [light EXCEPT !.mode = m, !.colour = c]
  /\ outdated' = TRUE
  /\ alert' = IF alert.pc = "idle" THEN NoAlert ELSE [alert EXCEPT !.fair = FALSE]
  /\ result' = Nothing
  /\ UNCHANGED state

Next ==
  \/ \E on \in BOOLEAN \cup {Unset}, bri \in (0 .. Width) \cup {Unset}, trim \in BOOLEAN :
       \/ Transact(Asking(on, bri, Unset, Unset), trim)
       \/ \E mode \in Modes, colour \in Colours : Transact(Asking(on, bri, mode, colour), trim)
  \/ \E trim \in BOOLEAN : Transact(Increment, trim)
  \/ \E mode \in Modes, colour \in Colours, bri \in Bris : AlertShow(mode, colour, bri)
  \/ AlertPulse
  \/ AlertRestore
  \/ Refresh
  \/ OtherChange

Spec == Init /\ [][Next]_vars

-----------------------------------------------------------------------------
\* Properties

Results == [op : {"none", "transaction", "alert", "alertAcross"}, met : BOOLEAN]
Alerts  == [pc : {"shown", "pulsed"}, mode : Modes, old : Looks, fair : BOOLEAN]

\* Every variable has its type: no request the setters build takes the light
\* or the cached state out of range.
LightTypeOK ==
  /\ light \in Looks
  /\ state \in Replies
  /\ outdated \in BOOLEAN
  /\ alert \in Alerts \cup {NoAlert}
  /\ result \in Results

\* Between refreshes the cached state follows the light through this
\* program's own confirmed transactions: power, brightness and the value of
\* the colour mode in use agree (the cached colormode need not).
CacheFollows ==
  ~outdated => /\ state.on = light.on
               /\ state.bri = light.bri
               /\ state.colours[light.mode] = light.colour

\* commit() returned true on an up-to-date state whose colormode was the
\* light's: the light shows everything the setters asked for, whether it was
\* sent or trimmed, and is on or off as their documentation says.
TrueMeansDone ==
  result.op = "transaction" => result.met

\* An alert in the colour mode the light was in, undisturbed from start to
\* end, that returns true leaves the light as it found it.
AlertRestores ==
  result.op = "alert" => result.met

\* The tests of the extended strategies expect the same of an alert in a
\* mode other than the light's: it returns true after one PUT of the old
\* colour (test_ExtendedColorHueStrategy.cpp:86-98).
AlertRestoresAcrossModes ==
  result.op = "alertAcross" => result.met
=============================================================================
