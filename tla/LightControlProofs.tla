------------------------- MODULE LightControlProofs -------------------------
(***************************************************************************)
(* Theorems of LightControl for every set of colour modes and values.      *)
(*                                                                         *)
(* The argument: a cached state that follows the light and has its         *)
(* colormode makes trimming transparent (what is left changes the light as *)
(* the whole request would), and copying a confirmed request back keeps    *)
(* the cached state following.  An alert adds what its three transactions  *)
(* rely on from each other.                                                *)
(***************************************************************************)
EXTENDS LightControl, TLAPS

Requests ==
  {r \in [on : BOOLEAN \cup {Unset}, bri : Bris \cup {Unset}, mode : Modes \cup {Unset},
          colour : Colours \cup {Unset}, inc : BOOLEAN, alert : BOOLEAN] :
     r.mode = Unset <=> r.colour = Unset}

\* The cached state s follows the light `look'.
Follows(s, look) ==
  s.on = look.on /\ s.bri = look.bri /\ s.colours[look.mode] = look.colour

\* What is true between the steps of an undisturbed alert: nothing is out of
\* date, and in the light's own mode the mode and brightness are known.
AlertOnCourse ==
  alert.pc # "idle" /\ alert.fair =>
    /\ ~outdated
    /\ alert.mode = alert.old.mode =>
         /\ light.mode = alert.mode /\ state.mode = alert.mode
         /\ alert.mode # "xy" => light.bri = alert.old.bri

LightInv ==
  /\ LightTypeOK
  /\ CacheFollows
  /\ TrueMeansDone
  /\ AlertRestores
  /\ AlertOnCourse

-----------------------------------------------------------------------------
LEMMA EmptyIsRequest ==
  /\ Empty \in Requests
  /\ Increment \in Requests
  /\ [Empty EXCEPT !.alert = TRUE] \in Requests
  BY DEF Empty, Increment, Requests

LEMMA ClampedType ==
  ASSUME NEW b \in Nat
  PROVE  ClampedBri(b) \in Bris
  <1>1. b % Width \in Nat
    BY LightAssumption DEF LightAssumption
  <1> QED BY <1>1, LightAssumption DEF LightAssumption, ClampedBri, Bris

LEMMA AskingType ==
  ASSUME NEW on \in BOOLEAN \cup {Unset}, NEW bri \in (0 .. Width) \cup {Unset},
         NEW mode \in Modes \cup {Unset}, NEW colour \in Colours \cup {Unset},
         mode = Unset <=> colour = Unset
  PROVE  Asking(on, bri, mode, colour) \in Requests
  <1>1. bri # Unset => ClampedBri(bri) \in Bris
    BY ClampedType, LightAssumption DEF LightAssumption
  <1> QED BY <1>1 DEF Asking, Empty, Requests

LEMMA ColourRequestType ==
  ASSUME NEW m \in Modes, NEW c \in Colours, NEW b \in Bris
  PROVE  /\ ColourRequest(m, c, b) \in Requests
         /\ ColourRequest(m, c, b).mode = m
         /\ ColourRequest(m, c, b).colour = c
         /\ m # "xy" => ColourRequest(m, c, b).bri = Unset
         /\ ~ColourRequest(m, c, b).inc
  BY LightAssumption DEF LightAssumption, ColourRequest, Empty, Requests

LEMMA RestoringType ==
  ASSUME NEW a \in Alerts
  PROVE  /\ Restoring(a) \in Requests
         /\ Restoring(a).on = a.old.on
         /\ Restoring(a).bri \in {a.old.bri, Unset}
         /\ a.mode = "xy" => Restoring(a).bri = a.old.bri
         /\ Restoring(a).mode = a.old.mode
         /\ Restoring(a).colour = a.old.colour
         /\ ~Restoring(a).inc
  <1>1. a.mode \in Modes /\ a.old \in Looks
    BY DEF Alerts
  <1> QED BY <1>1, LightAssumption DEF LightAssumption, Restoring, ColourRequest, Empty, Requests, Looks

LEMMA WithPowerType ==
  ASSUME NEW r \in Requests, NEW s \in Replies
  PROVE  /\ WithPower(r, s) \in Requests
         /\ WithPower(r, s).bri = r.bri
         /\ WithPower(r, s).mode = r.mode
         /\ WithPower(r, s).colour = r.colour
         /\ WithPower(r, s).inc = r.inc
         /\ WithPower(r, s).alert = r.alert
         /\ r.on # Unset => WithPower(r, s).on = r.on
  BY DEF WithPower, Requests, Replies

LEMMA TrimType ==
  ASSUME NEW r \in Requests, NEW s \in Replies
  PROVE  Trim(r, s) \in Requests
  BY DEF Trim, Requests, Replies

LEMMA AppliedType ==
  ASSUME NEW r \in Requests, NEW look \in Looks
  PROVE  Applied(look, r) \in Looks
  <1>1. look.bri < MaxBri => look.bri + 1 \in Bris
    BY LightAssumption DEF LightAssumption, Looks, Bris
  <1> QED BY <1>1 DEF Applied, Or, Requests, Looks

\* Trimming is transparent when the cached state follows the light and has
\* its colormode (StateTransaction::trimRequest).
LEMMA TrimIsTransparent ==
  ASSUME NEW r \in Requests, NEW s \in Replies, NEW look \in Looks,
         Follows(s, look), s.mode = look.mode
  PROVE  Applied(look, Trim(r, s)) = Applied(look, r)
  BY LightAssumption DEF LightAssumption, Follows, Applied, Or, Trim, Requests, Replies, Looks

LEMMA ReadingsFollow ==
  ASSUME NEW look \in Looks, NEW s \in Readings(look)
  PROVE  s \in Replies /\ Follows(s, look) /\ s.mode = look.mode
  <1>1. PICK f \in [Modes -> Colours] :
          s = [on |-> look.on, bri |-> look.bri, mode |-> look.mode,
               colours |-> [f EXCEPT ![look.mode] = look.colour]]
    BY DEF Readings
  <1>2. look.mode \in Modes /\ look.colour \in Colours
    BY DEF Looks
  <1>3. /\ [f EXCEPT ![look.mode] = look.colour] \in [Modes -> Colours]
        /\ [f EXCEPT ![look.mode] = look.colour][look.mode] = look.colour
    BY <1>2
  <1> QED BY <1>1, <1>3 DEF Replies, Looks, Follows

\* Copying a confirmed request into the state keeps it following the light,
\* though the colormode may now differ.
LEMMA NotedFollows ==
  ASSUME NEW r \in Requests, NEW s \in Replies, NEW look \in Looks
  PROVE  /\ Noted(s, r) \in Replies
         /\ Noted(s, r).mode = s.mode
         /\ Follows(s, look) /\ ~r.inc => Follows(Noted(s, r), Applied(look, r))
  <1>1. CASE r.mode = Unset
    BY <1>1 DEF Noted, Applied, Or, Follows, Requests, Replies, Looks
  <1>2. CASE r.mode # Unset
    <2>1. r.mode \in Modes /\ r.colour \in Colours
      BY <1>2 DEF Requests
    <2>2. /\ [s.colours EXCEPT ![r.mode] = r.colour] \in [Modes -> Colours]
          /\ [s.colours EXCEPT ![r.mode] = r.colour][r.mode] = r.colour
      BY <2>1 DEF Replies
    <2>3. Noted(s, r) = [on |-> Or(r.on, s.on), bri |-> Or(r.bri, s.bri), mode |-> s.mode,
                         colours |-> [s.colours EXCEPT ![r.mode] = r.colour]]
      BY <1>2 DEF Noted
    <2>4. Or(r.on, s.on) \in BOOLEAN /\ Or(r.bri, s.bri) \in Bris
      BY DEF Or, Requests, Replies
    <2>5. Applied(look, r).mode = r.mode /\ Applied(look, r).colour = r.colour
      BY <1>2, <2>1, LightAssumption DEF LightAssumption, Applied, Or, Requests
    <2>6. Noted(s, r) \in Replies /\ Noted(s, r).mode = s.mode
      BY <2>2, <2>3, <2>4 DEF Replies
    <2>7. Follows(s, look) /\ ~r.inc => Follows(Noted(s, r), Applied(look, r))
      BY <2>2, <2>3, <2>5 DEF Follows, Applied, Or
    <2> QED BY <2>6, <2>7
  <1> QED BY <1>1, <1>2

-----------------------------------------------------------------------------
\* One commit, whatever request, state and reply.
Fair(fresh) == fresh \/ ~outdated

LEMMA KnownFollows ==
  ASSUME LightTypeOK, CacheFollows, NEW fresh \in BOOLEAN, NEW known \in Known(fresh)
  PROVE  /\ known \in Replies
         /\ Fair(fresh) => Follows(known, light)
         /\ fresh => known.mode = light.mode
         /\ ~fresh => known = state
  <1>1. CASE fresh
    <2>1. known \in Readings(light)
      BY <1>1 DEF Known
    <2> QED BY <1>1, <2>1, ReadingsFollow DEF LightTypeOK
  <1>2. CASE ~fresh
    BY <1>2 DEF Known, Fair, Follows, CacheFollows, LightTypeOK
  <1> QED BY <1>1, <1>2

LEMMA CommitStep ==
  ASSUME LightTypeOK, CacheFollows,
         NEW r \in Requests, NEW fresh \in BOOLEAN, NEW known \in Known(fresh),
         NEW trim \in BOOLEAN, NEW ret, Commit(r, known, fresh, trim, ret)
  PROVE  /\ light' \in Looks /\ state' \in Replies /\ outdated' \in BOOLEAN
         /\ CacheFollows'
         /\ state'.mode = known.mode
         /\ ret \in {"true", "failed"}
         /\ ret = "true" /\ Fair(fresh) /\ ~r.inc => ~outdated'
         /\ ret = "true" /\ Fair(fresh) /\ known.mode = light.mode =>
              light' = Applied(light, WithPower(r, known))
  <1> DEFINE full == WithPower(r, known)
             sent == IF trim THEN Trim(full, known) ELSE full
  <1>1. known \in Replies /\ light \in Looks
    BY KnownFollows DEF LightTypeOK
  <1>2. full \in Requests /\ full.inc = r.inc
    BY <1>1, WithPowerType
  <1>3. sent \in Requests
    BY <1>1, <1>2, TrimType
  <1>4. sent.inc = r.inc
    BY <1>2 DEF Trim, Requests
  <1>5. Fair(fresh) /\ known.mode = light.mode => Applied(light, sent) = Applied(light, full)
    <2>1. SUFFICES ASSUME Fair(fresh), known.mode = light.mode, trim
                   PROVE  Applied(light, Trim(full, known)) = Applied(light, full)
      OBVIOUS
    <2>2. Follows(known, light)
      BY <2>1, KnownFollows
    <2> QED BY <1>1, <1>2, <2>1, <2>2, TrimIsTransparent
  <1> HIDE DEF full, sent
  <1>6. CASE /\ sent = Empty /\ ret = "true" /\ state' = known
             /\ outdated' = (outdated /\ ~fresh) /\ UNCHANGED light
    <2>1. Applied(light, Empty) = light
      BY <1>1 DEF Applied, Or, Empty, Looks
    <2>2. ~outdated' => Follows(known, light)
      BY <1>6, KnownFollows DEF Fair
    <2>3. CacheFollows'
      BY <1>6, <2>2 DEF CacheFollows, Follows
    <2>4. outdated' \in BOOLEAN
      BY <1>6
    <2>5. Fair(fresh) => ~outdated'
      BY <1>6 DEF Fair
    <2>6. Fair(fresh) /\ known.mode = light.mode => light' = Applied(light, full)
      BY <1>5, <1>6, <2>1
    <2> QED BY <1>1, <1>6, <2>3, <2>4, <2>5, <2>6 DEF full
  <1>7. CASE /\ sent # Empty /\ Accepts(light, sent) /\ ret = "true"
             /\ light' = Applied(light, sent) /\ state' = Noted(known, sent)
             /\ outdated' = ((outdated /\ ~fresh) \/ sent.inc)
    <2>1. /\ Noted(known, sent) \in Replies /\ Noted(known, sent).mode = known.mode
          /\ Follows(known, light) /\ ~sent.inc =>
               Follows(Noted(known, sent), Applied(light, sent))
      BY <1>1, <1>3, NotedFollows
    <2>2. Applied(light, sent) \in Looks
      BY <1>1, <1>3, AppliedType
    <2>3. ~outdated' => Fair(fresh) /\ ~sent.inc
      BY <1>7 DEF Fair
    <2>4. CacheFollows'
      BY <1>7, <2>1, <2>3, KnownFollows DEF CacheFollows, Follows
    <2>5. sent.inc \in BOOLEAN
      BY <1>3 DEF Requests
    <2>6. outdated' \in BOOLEAN
      BY <1>7, <2>5
    <2>7. Fair(fresh) /\ ~r.inc => ~outdated'
      BY <1>4, <1>7 DEF Fair
    <2>8. Fair(fresh) /\ known.mode = light.mode => light' = Applied(light, full)
      BY <1>5, <1>7
    <2> QED BY <1>7, <2>1, <2>2, <2>4, <2>6, <2>7, <2>8 DEF full
  <1>8. CASE /\ sent # Empty /\ ret = "failed"
             /\ light' \in {light, Applied(light, sent)}
             /\ state' = known /\ outdated' = TRUE
    <2>1. light' \in Looks
      BY <1>1, <1>3, <1>8, AppliedType
    <2>2. CacheFollows'
      BY <1>8 DEF CacheFollows
    <2> QED BY <1>1, <1>8, <2>1, <2>2
  <1> QED BY <1>6, <1>7, <1>8 DEF Commit, full, sent

\* What the documentation promises of the request is what the request with
\* the power it implies does to a light the state follows.
LEMMA FullRequestMeets ==
  ASSUME NEW r \in Requests, NEW s \in Replies, NEW look \in Looks, Follows(s, look)
  PROVE  Meets(Applied(look, WithPower(r, s)), r)
  BY LightAssumption
  DEF LightAssumption, Meets, Applied, Or, WithPower, Follows, Requests, Replies, Looks, Bris

-----------------------------------------------------------------------------
\* One lemma per action.
LEMMA InitInv ==
  Init => LightInv
  <1> SUFFICES ASSUME Init PROVE LightInv
    OBVIOUS
  <1>1. light \in Looks /\ state \in Replies /\ Follows(state, light)
    BY ReadingsFollow DEF Init
  <1> QED BY <1>1 DEF Init, LightInv, LightTypeOK, CacheFollows, Follows, TrueMeansDone,
                      AlertRestores, AlertOnCourse, NoAlert, Nothing, Results

LEMMA ToldType ==
  ASSUME NEW op \in {"transaction", "alert", "alertAcross"}, NEW ret, NEW fair \in BOOLEAN,
         NEW met \in BOOLEAN
  PROVE  /\ Told(op, ret, fair, met) \in Results
         /\ Told(op, ret, fair, met).op \in {op, "none"}
         /\ Told(op, ret, fair, met).op = op =>
              ret = "true" /\ fair /\ Told(op, ret, fair, met).met = met
  BY DEF Told, Nothing, Results

LEMMA TransactInv ==
  ASSUME LightInv, NEW r \in Requests, NEW trim \in BOOLEAN, Transact(r, trim)
  PROVE  LightInv'
  <1> USE DEF LightInv
  <1>0. PICK fresh \in BOOLEAN, ret \in {"true", "failed"} :
          \E known \in Known(fresh) :
            /\ Commit(r, known, fresh, trim, ret)
            /\ result' = Told("transaction", ret,
                              (fresh \/ ~outdated) /\ known.mode = light.mode, Meets(light', r))
    BY DEF Transact
  <1>1. PICK known \in Known(fresh) :
          /\ Commit(r, known, fresh, trim, ret)
          /\ result' = Told("transaction", ret,
                            (fresh \/ ~outdated) /\ known.mode = light.mode, Meets(light', r))
    BY <1>0
  <1>2. /\ light' \in Looks /\ state' \in Replies /\ outdated' \in BOOLEAN /\ CacheFollows'
        /\ ret = "true" /\ Fair(fresh) /\ known.mode = light.mode =>
             light' = Applied(light, WithPower(r, known))
    BY <1>1, CommitStep
  <1>3. alert' = alert /\ alert.pc = "idle"
    BY DEF Transact
  <1>4. (fresh \/ ~outdated) /\ known.mode = light.mode /\ ret = "true" => Meets(light', r)
    <2>1. known \in Replies /\ light \in Looks /\ (Fair(fresh) => Follows(known, light))
      BY <1>1, KnownFollows DEF LightTypeOK
    <2> QED BY <1>2, <2>1, FullRequestMeets DEF Fair
  <1>5. Meets(light', r) \in BOOLEAN
    BY DEF Meets
  <1>6. ((fresh \/ ~outdated) /\ known.mode = light.mode) \in BOOLEAN
    OBVIOUS
  <1>7. result' \in Results /\ result'.op \in {"transaction", "none"}
    BY <1>1, <1>5, <1>6, ToldType
  <1>8. result'.op = "transaction" => result'.met
    BY <1>1, <1>4, <1>5, <1>6, ToldType
  <1> QED BY <1>2, <1>3, <1>7, <1>8
          DEF LightTypeOK, TrueMeansDone, AlertRestores, AlertOnCourse

LEMMA AlertShowInv ==
  ASSUME LightInv, NEW mode \in Modes, NEW colour \in Colours, NEW bri \in Bris,
         AlertShow(mode, colour, bri)
  PROVE  LightInv'
  <1> USE DEF LightInv
  <1> DEFINE r == ColourRequest(mode, colour, bri)
  <1>0. PICK fresh \in BOOLEAN, ret \in {"true", "failed"} :
          \E known \in Known(fresh) :
            /\ Commit(r, known, fresh, TRUE, ret)
            /\ alert' = IF ret = "failed" THEN NoAlert
                        ELSE [pc |-> "shown", mode |-> mode, old |-> Shown(known),
                              fair |-> (fresh \/ ~outdated) /\ Shown(known) = light]
    BY DEF AlertShow
  <1>1. PICK known \in Known(fresh) :
          /\ Commit(r, known, fresh, TRUE, ret)
          /\ alert' = IF ret = "failed" THEN NoAlert
                      ELSE [pc |-> "shown", mode |-> mode, old |-> Shown(known),
                            fair |-> (fresh \/ ~outdated) /\ Shown(known) = light]
    BY <1>0
  <1>2. /\ r \in Requests /\ r.mode = mode /\ ~r.inc
        /\ mode # "xy" => r.bri = Unset
    BY ColourRequestType
  <1>3. known \in Replies /\ light \in Looks
    BY <1>1, KnownFollows DEF LightTypeOK
  <1> HIDE DEF r
  <1>4. /\ light' \in Looks /\ state' \in Replies /\ outdated' \in BOOLEAN /\ CacheFollows'
        /\ state'.mode = known.mode
        /\ ret = "true" /\ Fair(fresh) => ~outdated'
        /\ ret = "true" /\ Fair(fresh) /\ known.mode = light.mode =>
             light' = Applied(light, WithPower(r, known))
    BY <1>1, <1>2, CommitStep
  <1>5. Shown(known) \in Looks /\ Shown(known).mode = known.mode
    BY <1>3 DEF Shown, Replies, Looks
  <1>6. result' = Nothing
    BY DEF AlertShow
  <1>7. CASE ret = "failed"
    BY <1>1, <1>4, <1>6, <1>7 DEF LightTypeOK, TrueMeansDone, AlertRestores, AlertOnCourse,
                                  NoAlert, Nothing, Results
  <1>8. CASE ret = "true"
    <2>1. /\ alert'.pc = "shown" /\ alert'.mode = mode /\ alert'.old = Shown(known)
          /\ alert'.fair = ((fresh \/ ~outdated) /\ Shown(known) = light)
          /\ alert' \in Alerts
      BY <1>1, <1>5, <1>8 DEF Alerts
    <2>2. ASSUME alert'.fair, mode = known.mode
          PROVE  /\ light'.mode = mode /\ state'.mode = mode
                 /\ mode # "xy" => light'.bri = Shown(known).bri
      <3>1. Fair(fresh) /\ known.mode = light.mode /\ Shown(known) = light
        BY <1>5, <2>1, <2>2 DEF Fair
      <3>2. light' = Applied(light, WithPower(r, known))
        BY <1>4, <1>8, <3>1
      <3>3. /\ WithPower(r, known).mode = mode
            /\ ~WithPower(r, known).inc
            /\ mode # "xy" => WithPower(r, known).bri = Unset
        BY <1>2, <1>3, WithPowerType
      <3>4. mode # Unset
        BY LightAssumption DEF LightAssumption
      <3> QED BY <1>4, <2>2, <3>1, <3>2, <3>3, <3>4 DEF Applied, Or
    <2>3. AlertOnCourse'
      BY <1>4, <1>5, <1>8, <2>1, <2>2 DEF AlertOnCourse, Fair
    <2> QED BY <1>4, <1>6, <2>1, <2>3 DEF LightTypeOK, TrueMeansDone, AlertRestores,
                                          Nothing, Results
  <1> QED BY <1>7, <1>8

LEMMA AlertPulseInv ==
  ASSUME LightInv, AlertPulse
  PROVE  LightInv'
  <1> USE DEF LightInv
  <1> DEFINE r == [Empty EXCEPT !.alert = TRUE]
  <1>0. PICK fresh \in BOOLEAN, ret \in {"true", "failed"} :
          \E known \in Known(fresh) :
            /\ Commit(r, known, fresh, TRUE, ret)
            /\ alert' = IF ret = "failed" THEN NoAlert ELSE [alert EXCEPT !.pc = "pulsed"]
    BY DEF AlertPulse
  <1>1. PICK known \in Known(fresh) :
          /\ Commit(r, known, fresh, TRUE, ret)
          /\ alert' = IF ret = "failed" THEN NoAlert ELSE [alert EXCEPT !.pc = "pulsed"]
    BY <1>0
  <1>2. r \in Requests /\ ~r.inc /\ r.on = Unset /\ r.bri = Unset /\ r.mode = Unset
    BY EmptyIsRequest DEF Empty
  <1>3. /\ known \in Replies /\ light \in Looks /\ (fresh => known.mode = light.mode)
        /\ (~fresh => known = state)
    BY <1>1, KnownFollows DEF LightTypeOK
  <1> HIDE DEF r
  <1>4. /\ light' \in Looks /\ state' \in Replies /\ outdated' \in BOOLEAN /\ CacheFollows'
        /\ state'.mode = known.mode
        /\ ret = "true" /\ Fair(fresh) => ~outdated'
        /\ ret = "true" /\ Fair(fresh) /\ known.mode = light.mode =>
             light' = Applied(light, WithPower(r, known))
    BY <1>1, <1>2, CommitStep
  <1>5. result' = Nothing
    BY DEF AlertPulse
  <1>6. CASE ret = "failed"
    BY <1>1, <1>4, <1>5, <1>6 DEF LightTypeOK, TrueMeansDone, AlertRestores, AlertOnCourse,
                                  NoAlert, Nothing, Results
  <1>7. CASE ret = "true"
    <2>1. alert \in Alerts /\ alert.pc = "shown"
      BY DEF LightTypeOK, AlertPulse, NoAlert
    <2>2. /\ alert' = [alert EXCEPT !.pc = "pulsed"] /\ alert' \in Alerts
          /\ alert'.mode = alert.mode /\ alert'.old = alert.old /\ alert'.fair = alert.fair
      BY <1>1, <1>7, <2>1 DEF Alerts
    <2>3. ASSUME alert.fair PROVE Fair(fresh) /\ ~outdated'
      BY <1>4, <1>7, <2>1, <2>3 DEF AlertOnCourse, Fair
    <2>4. ASSUME alert.fair, alert.mode = alert.old.mode
          PROVE  /\ light'.mode = alert.mode /\ state'.mode = alert.mode
                 /\ alert.mode # "xy" => light'.bri = alert.old.bri
      <3>1. /\ light.mode = alert.mode /\ state.mode = alert.mode
            /\ alert.mode # "xy" => light.bri = alert.old.bri
        BY <2>1, <2>4 DEF AlertOnCourse
      <3>2. known.mode = light.mode
        BY <1>3, <3>1
      <3>3. light' = Applied(light, WithPower(r, known))
        BY <1>4, <1>7, <2>3, <2>4, <3>2
      <3>4. /\ WithPower(r, known).mode = Unset /\ WithPower(r, known).bri = Unset
            /\ ~WithPower(r, known).inc
        BY <1>2, <1>3, WithPowerType
      <3> QED BY <1>4, <3>1, <3>2, <3>3, <3>4 DEF Applied, Or
    <2>5. AlertOnCourse'
      BY <2>2, <2>3, <2>4 DEF AlertOnCourse
    <2> QED BY <1>4, <1>5, <2>2, <2>5 DEF LightTypeOK, TrueMeansDone, AlertRestores,
                                          Nothing, Results
  <1> QED BY <1>6, <1>7

LEMMA AlertRestoreInv ==
  ASSUME LightInv, AlertRestore
  PROVE  LightInv'
  <1> USE DEF LightInv
  <1> DEFINE r == Restoring(alert)
             op == IF alert.mode = alert.old.mode THEN "alert" ELSE "alertAcross"
             met == light' = alert.old
  <1>0. PICK fresh \in BOOLEAN, ret \in {"true", "failed"} :
          \E known \in Known(fresh) :
            /\ Commit(r, known, fresh, TRUE, ret)
            /\ result' = Told(op, ret, alert.fair, met)
    BY DEF AlertRestore
  <1>1. PICK known \in Known(fresh) :
          /\ Commit(r, known, fresh, TRUE, ret)
          /\ result' = Told(op, ret, alert.fair, met)
    BY <1>0
  <1>2. alert \in Alerts /\ alert.pc = "pulsed" /\ alert.fair \in BOOLEAN /\ alert.old \in Looks
    BY DEF LightTypeOK, AlertRestore, NoAlert, Alerts
  <1>3. /\ r \in Requests /\ ~r.inc /\ r.on = alert.old.on
        /\ r.bri \in {alert.old.bri, Unset}
        /\ alert.mode = "xy" => r.bri = alert.old.bri
        /\ r.mode = alert.old.mode /\ r.colour = alert.old.colour
    BY <1>2, RestoringType
  <1>4. /\ known \in Replies /\ light \in Looks /\ (fresh => known.mode = light.mode)
        /\ (~fresh => known = state)
    BY <1>1, KnownFollows DEF LightTypeOK
  <1> HIDE DEF r
  <1>5. /\ light' \in Looks /\ state' \in Replies /\ outdated' \in BOOLEAN /\ CacheFollows'
        /\ ret = "true" /\ Fair(fresh) /\ known.mode = light.mode =>
             light' = Applied(light, WithPower(r, known))
    BY <1>1, <1>3, CommitStep
  <1>6. ASSUME ret = "true", alert.fair, alert.mode = alert.old.mode
        PROVE  met
    <2>1. /\ light.mode = alert.mode /\ state.mode = alert.mode /\ ~outdated
          /\ alert.mode # "xy" => light.bri = alert.old.bri
      BY <1>2, <1>6 DEF AlertOnCourse
    <2>2. light' = Applied(light, WithPower(r, known))
      BY <1>4, <1>5, <1>6, <2>1 DEF Fair
    <2>3. /\ WithPower(r, known).on = r.on /\ WithPower(r, known).bri = r.bri
          /\ WithPower(r, known).mode = r.mode /\ WithPower(r, known).colour = r.colour
          /\ ~WithPower(r, known).inc
      <3>1. r.on # Unset
        BY <1>2, <1>3, LightAssumption DEF LightAssumption, Looks
      <3> QED BY <1>3, <1>4, <3>1, WithPowerType
    <2>4. /\ alert.old.on # Unset /\ alert.old.bri # Unset /\ alert.old.mode # Unset
          /\ alert.old.colour # Unset
      BY <1>2, LightAssumption DEF LightAssumption, Looks, Bris
    <2>5. /\ light'.on = alert.old.on /\ light'.bri = alert.old.bri
          /\ light'.mode = alert.old.mode /\ light'.colour = alert.old.colour
      BY <1>3, <2>1, <2>2, <2>3, <2>4 DEF Applied, Or
    <2> QED BY <1>2, <1>5, <2>5 DEF Looks
  <1>7. op \in {"transaction", "alert", "alertAcross"} /\ met \in BOOLEAN
    OBVIOUS
  <1>8. op = "alert" => alert.mode = alert.old.mode
    OBVIOUS
  <1>9. op # "transaction"
    OBVIOUS
  <1> HIDE DEF op, met
  <1>10. /\ result' \in Results /\ result'.op \in {op, "none"}
         /\ result'.op = op => ret = "true" /\ alert.fair /\ result'.met = met
    BY <1>1, <1>2, <1>7, ToldType
  <1>11. result'.op # "transaction" /\ (result'.op = "alert" => result'.met)
    BY <1>6, <1>8, <1>9, <1>10
  <1>12. alert' = NoAlert
    BY DEF AlertRestore
  <1> QED BY <1>5, <1>10, <1>11, <1>12
          DEF LightTypeOK, TrueMeansDone, AlertRestores, AlertOnCourse, NoAlert

LEMMA RefreshInv ==
  ASSUME LightInv, Refresh
  PROVE  LightInv'
  <1>1. state' \in Replies /\ Follows(state', light) /\ state'.mode = light.mode
    BY ReadingsFollow DEF LightInv, LightTypeOK, Refresh
  <1> QED BY <1>1 DEF LightInv, LightTypeOK, CacheFollows, TrueMeansDone, AlertRestores,
                      AlertOnCourse, Follows, Refresh, Nothing, Results

LEMMA OtherChangeInv ==
  ASSUME LightInv, OtherChange
  PROVE  LightInv'
  <1> USE DEF LightInv
  <1>1. light' \in Looks
    BY DEF LightTypeOK, OtherChange, Looks
  <1>2. alert' \in Alerts \cup {NoAlert} /\ ~(alert'.pc # "idle" /\ alert'.fair)
    <2>1. CASE alert.pc = "idle"
      BY <2>1 DEF OtherChange, NoAlert
    <2>2. CASE alert.pc # "idle"
      <3>1. alert \in Alerts
        BY <2>2 DEF LightTypeOK, NoAlert
      <3> QED BY <2>2, <3>1 DEF OtherChange, Alerts
    <2> QED BY <2>1, <2>2
  <1> QED BY <1>1, <1>2 DEF LightTypeOK, CacheFollows, TrueMeansDone, AlertRestores,
                            AlertOnCourse, OtherChange, Nothing, Results

LEMMA LightStep ==
  ASSUME LightInv, [Next]_vars
  PROVE  LightInv'
  <1>1. ASSUME NEW on \in BOOLEAN \cup {Unset}, NEW bri \in (0 .. Width) \cup {Unset},
               NEW trim \in BOOLEAN,
               \/ Transact(Asking(on, bri, Unset, Unset), trim)
               \/ \E mode \in Modes, colour \in Colours :
                    Transact(Asking(on, bri, mode, colour), trim)
        PROVE  LightInv'
    <2>1. Asking(on, bri, Unset, Unset) \in Requests
      BY AskingType
    <2>2. ASSUME NEW mode \in Modes, NEW colour \in Colours
          PROVE  Asking(on, bri, mode, colour) \in Requests
      BY AskingType, LightAssumption DEF LightAssumption
    <2> QED BY <1>1, <2>1, <2>2, TransactInv
  <1>2. ASSUME NEW trim \in BOOLEAN, Transact(Increment, trim) PROVE LightInv'
    BY <1>2, EmptyIsRequest, TransactInv
  <1>3. ASSUME NEW mode \in Modes, NEW colour \in Colours, NEW bri \in Bris,
               AlertShow(mode, colour, bri)
        PROVE  LightInv'
    BY <1>3, AlertShowInv
  <1>4. CASE AlertPulse
    BY <1>4, AlertPulseInv
  <1>5. CASE AlertRestore
    BY <1>5, AlertRestoreInv
  <1>6. CASE Refresh
    BY <1>6, RefreshInv
  <1>7. CASE OtherChange
    BY <1>7, OtherChangeInv
  <1>8. CASE UNCHANGED vars
    BY <1>8 DEF vars, LightInv, LightTypeOK, CacheFollows, TrueMeansDone, AlertRestores,
                AlertOnCourse
  <1> QED BY <1>1, <1>2, <1>3, <1>4, <1>5, <1>6, <1>7, <1>8 DEF Next

\* The inductive invariant holds in every reachable state.
THEOREM LightInvariant ==
  Spec => []LightInv
  <1>1. LightInv /\ [Next]_vars => LightInv'
    BY LightStep
  <1> QED BY InitInv, <1>1, PTL DEF Spec

\* No request the setters build takes the light or the cache out of range.
THEOREM LightTypeCorrect ==
  Spec => []LightTypeOK
  BY LightInvariant, PTL DEF LightInv

\* The cached state follows the light through this program's own confirmed
\* transactions (StateTransaction::commit).
THEOREM CachedStateFollows ==
  Spec => []CacheFollows
  BY LightInvariant, PTL DEF LightInv

\* A transaction that returned true on an up-to-date state with the light's
\* colormode has done what was asked, trimmed or not.
THEOREM TransactionsAreDone ==
  Spec => []TrueMeansDone
  BY LightInvariant, PTL DEF LightInv

\* An undisturbed alert in the light's own colour mode restores the light.
THEOREM AlertsRestore ==
  Spec => []AlertRestores
  BY LightInvariant, PTL DEF LightInv
=============================================================================
