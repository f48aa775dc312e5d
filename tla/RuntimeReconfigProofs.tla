------------------------ MODULE RuntimeReconfigProofs ------------------------
(***************************************************************************)
(* Theorems of RuntimeReconfig for all settings, requests and bounds: that *)
(* memory and rows stay sound, and that a drained agent stays quiet.       *)
(*                                                                         *)
(* That memory and rows agree is inductive only together with what they    *)
(* are while a setting is being written: of an untainted setting, at most  *)
(* one caller has changed the memory and not yet the row, and what it      *)
(* still has to commit is what memory holds (Agree).                       *)
(***************************************************************************)
EXTENDS RuntimeReconfig, TLAPS

USE KeysAssumption, RequestsAssumption

Held == {"put", "write", "commit"}

\* A call has set settings only while it updates, each of them one it was given,
\* all of them when it commits; what it was given was coerced.
CallSound(x) ==
  /\ x.pc \in Held =>
       x.done \subseteq DOMAIN x.new /\ \A k \in DOMAIN x.new : x.new[k] \in {"on", "off"}
  /\ x.pc = "commit" => x.done = DOMAIN x.new
  /\ x.pc \notin Held => x.done = {}

CallsSound == \A c \in Callers : CallSound(calls[c])

\* Of an untainted setting, memory holds what its only writer has still to
\* commit, or what the rows give.
AgreeOn(k) ==
  /\ \A c, d \in Callers : k \in KeysOf(c) /\ k \in KeysOf(d) => c = d
  /\ \A c \in Callers : k \in KeysOf(c) => mem[k] = calls[c].new[k]
  /\ ~InFlight(k) => mem[k] = apply_persisted_settings[k]

Agree == \A k \in Keys \ tainted : AgreeOn(k)

\* apply_settings awaits the update it makes, and makes it in one stage only.
ApplyAwaits ==
  /\ stage \in {"idle", "report"} => calls["apply"].pc = "idle"
  /\ stage \in {"stop", "drain"} => calls["apply"].pc = "held"

\* A kill switch that the cycle trips is awaited by the cycle.
CycleAwaits == calls["cycle"].pc # "idle" => cycle # none

QuietInv ==
  /\ CycleAwaits
  /\ "agent" \in idleSeen => stage # "idle" /\ cycle = none /\ bus # "market"

-----------------------------------------------------------------------------
(* The calls.                                                               *)

Records == [pc : Steps, new : Updates, done : SUBSET Keys]

\* A dict of settings has values for settings, and a function from settings to
\* values is one.
LEMMA UpdateIs ==
  ASSUME NEW r \in Updates
  PROVE  DOMAIN r \subseteq Keys /\ \A k \in DOMAIN r : r[k] \in Values
BY DEF Updates

LEMMA IsUpdate ==
  ASSUME NEW D \in SUBSET Keys, NEW r \in [D -> Values]
  PROVE  r \in Updates
BY DEF Updates

LEMMA EndedSound ==
  /\ Idle \in Records /\ CallSound(Idle) /\ Idle.done = {}
  /\ \A how \in {"done", "failed"} :
       Ended(how) \in Records /\ CallSound(Ended(how)) /\ Ended(how).done = {}
<1>1. [k \in {} |-> none] \in Updates
  BY IsUpdate
<1>2. Idle \in Records
  BY <1>1 DEF Idle, Records, Steps
<1> QED  BY <1>2 DEF Idle, Ended, Records, Steps, CallSound, Held

\* The next step of a call that has set some of its coerced values.
LEMMA UpdatingSound ==
  ASSUME NEW r \in Updates, NEW done \in SUBSET DOMAIN r,
         \A k \in DOMAIN r : r[k] \in {"on", "off"}
  PROVE  Updating(r, done) \in Records /\ CallSound(Updating(r, done))
<1>1. done \in SUBSET Keys  BY UpdateIs
<1> QED  BY <1>1 DEF Updating, Records, Steps, CallSound, Held

\* coerce leaves a value of the setting as it is, and gives nothing else.
LEMMA CoerceIs ==
  ASSUME NEW k \in Keys
  PROVE  /\ \A v \in {"on", "off"} : coerce(k, v) = v
         /\ \A v \in Values : coerce(k, v) \in {"on", "off", "raise", "skip"}
BY DEF coerce, Keys, Values

\* What a request becomes holds only values of its settings.
LEMMA StartedSound ==
  ASSUME NEW r \in Updates
  PROVE  Started(r) \in Records /\ CallSound(Started(r)) /\ Started(r).done = {}
<1>1. CASE Rejected(r)
  BY <1>1, EndedSound DEF Started
<1>2. CASE ~Rejected(r)
  <2>1. DOMAIN Normalized(r) \subseteq DOMAIN r  BY DEF Normalized
  <2>2. \A k \in DOMAIN Normalized(r) : Normalized(r)[k] \in {"on", "off"}
    BY <1>2, UpdateIs, CoerceIs DEF Normalized, Rejected
  <2>3. Normalized(r) \in [DOMAIN Normalized(r) -> Values]
    <3>1. Normalized(r) = [k \in DOMAIN Normalized(r) |-> Normalized(r)[k]]
      BY DEF Normalized
    <3> QED  BY <2>2, <3>1 DEF Values
  <2>4. Normalized(r) \in Updates  BY <2>1, <2>3, UpdateIs, IsUpdate
  <2>5. Started(r) = Updating(Normalized(r), {})  BY <1>2 DEF Started
  <2>6. Updating(Normalized(r), {}).done = {}  BY DEF Updating
  <2> QED  BY <2>2, <2>4, <2>5, <2>6, UpdatingSound
<1> QED  BY <1>1, <1>2

\* A step that makes one call a sound record leaves the calls sound.
CallsOK == calls \in [Callers -> Records] /\ CallsSound

LEMMA OneCall ==
  ASSUME CallsOK, NEW c \in Callers, NEW x \in Records, CallSound(x),
         calls' = [calls EXCEPT ![c] = x]
  PROVE  CallsOK' /\ calls'[c] = x /\ \A d \in Callers \ {c} : calls'[d] = calls[d]
BY DEF CallsOK, CallsSound

\* What a caller sets is a value of the setting, and a caller that sets or
\* commits has a request.
LEMMA HeldIs ==
  ASSUME CallsOK, NEW c \in Callers, calls[c].pc \in Held
  PROVE  /\ calls[c] \in Records /\ calls[c].new \in Updates
         /\ KeysOf(c) \subseteq DOMAIN calls[c].new
         /\ DOMAIN calls[c].new \subseteq Keys
         /\ \A k \in DOMAIN calls[c].new : calls[c].new[k] \in {"on", "off"}
<1>1. calls[c] \in Records /\ CallSound(calls[c])  BY DEF CallsOK, CallsSound
<1>2. calls[c].new \in Updates  BY <1>1 DEF Records
<1> QED  BY <1>1, <1>2, UpdateIs DEF CallSound, KeysOf

-----------------------------------------------------------------------------
(* The settings: memory, the rows, and the calls that change them.          *)

Stored ==
  /\ mem \in [Keys -> {"on", "off"}] /\ db \in [Keys -> {"on", "off", none}]
  /\ writer \in Callers \cup {none} /\ tainted \subseteq Keys

Sound == Stored /\ CallsOK /\ Agree

\* A caller is left alone, or has nothing set of which memory is still answerable.
LetGo(c) ==
  \/ calls'[c] = calls[c]
  \/ calls'[c].done = {} /\ KeysOf(c) \subseteq tainted'

\* A step that sets and commits nothing, and lets go only of tainted settings,
\* keeps the settings sound.
LEMMA SoundKept ==
  ASSUME Sound, mem' = mem, db' = db, writer' \in Callers \cup {none},
         tainted \subseteq tainted', tainted' \subseteq Keys,
         calls' \in [Callers -> Records],
         \A c \in Callers : CallSound(calls'[c]) /\ LetGo(c)
  PROVE  Sound'
<1>1. CallsOK'  BY DEF CallsOK, CallsSound
<1>2. Stored'  BY DEF Sound, Stored
<1>3. ASSUME NEW k \in Keys \ tainted' PROVE AgreeOn(k)'
  <2>1. AgreeOn(k)  BY <1>3 DEF Sound, Agree
  <2>2. \A c \in Callers : k \in KeysOf(c)' => calls'[c] = calls[c] /\ k \in KeysOf(c)
    BY <1>3 DEF LetGo, KeysOf
  <2>3. \A c \in Callers : k \in KeysOf(c) => k \in KeysOf(c)'
    BY <1>3 DEF LetGo, KeysOf
  <2>4. apply_persisted_settings' = apply_persisted_settings
    BY DEF apply_persisted_settings
  <2>5. InFlight(k)' <=> InFlight(k)  BY <2>2, <2>3 DEF InFlight
  <2>6. \A c \in Callers : k \in KeysOf(c)' => mem'[k] = calls'[c].new[k]
    BY <2>1, <2>2 DEF AgreeOn
  <2>7. \A c, d \in Callers : k \in KeysOf(c)' /\ k \in KeysOf(d)' => c = d
    BY <2>1, <2>2 DEF AgreeOn
  <2>8. ~InFlight(k)' => mem'[k] = apply_persisted_settings'[k]
    BY <2>1, <2>4, <2>5 DEF AgreeOn
  <2> QED  BY <2>6, <2>7, <2>8 DEF AgreeOn
<1> QED  BY <1>1, <1>2, <1>3 DEF Sound, Agree

\* One caller that is not updating goes on to something else that has set nothing.
LEMMA Turns ==
  ASSUME Sound, NEW c \in Callers, calls[c].pc \notin Held,
         NEW x \in Records, CallSound(x), x.done = {},
         calls' = [calls EXCEPT ![c] = x],
         UNCHANGED <<mem, db, writer, tainted>>
  PROVE  Sound'
<1>1. CallsOK' /\ calls'[c] = x /\ \A d \in Callers \ {c} : calls'[d] = calls[d]
  BY OneCall DEF Sound
<1>2. KeysOf(c) = {}
  BY DEF Sound, CallsOK, CallsSound, CallSound, KeysOf
<1>3. \A d \in Callers : CallSound(calls'[d]) /\ LetGo(d)
  BY <1>1, <1>2 DEF LetGo, CallsOK, CallsSound
<1>4. calls' \in [Callers -> Records]  BY <1>1 DEF CallsOK
<1>5. writer' \in Callers \cup {none} /\ tainted \subseteq tainted' /\ tainted' \subseteq Keys
  BY DEF Sound, Stored
<1> QED  BY <1>3, <1>4, <1>5, SoundKept

LEMMA PutSound ==
  ASSUME Sound, NEW c \in Callers, Put(c)
  PROVE  Sound'
<1>1. PICK k \in DOMAIN calls[c].new \ KeysOf(c) :
        /\ mem' = [mem EXCEPT ![k] = calls[c].new[k]]
        /\ calls' = [calls EXCEPT ![c] = [pc |-> "write", new |-> @.new, done |-> @.done \cup {k}]]
        /\ tainted' = IF \E d \in Callers \ {c} : k \in KeysOf(d)
                        THEN tainted \cup {k} ELSE tainted \ {k}
  BY DEF Put
<1> DEFINE x == [pc |-> "write", new |-> calls[c].new, done |-> calls[c].done \cup {k}]
<1>2. calls[c].pc = "put" /\ UNCHANGED <<db, writer>>  BY DEF Put
<1>3. /\ calls[c] \in Records /\ calls[c].new \in Updates
      /\ KeysOf(c) \subseteq DOMAIN calls[c].new /\ DOMAIN calls[c].new \subseteq Keys
      /\ \A j \in DOMAIN calls[c].new : calls[c].new[j] \in {"on", "off"}
  BY <1>2, HeldIs DEF Sound, Held
<1>4. x \in Records /\ CallSound(x)
  BY <1>1, <1>3 DEF Records, Steps, CallSound, Held, KeysOf
<1>5. CallsOK' /\ calls'[c] = x /\ \A d \in Callers \ {c} : calls'[d] = calls[d]
  <2>1. calls' = [calls EXCEPT ![c] = x]  BY <1>1
  <2> HIDE DEF x
  <2> QED  BY <1>4, <2>1, OneCall DEF Sound
<1>6. k \in Keys /\ calls[c].new[k] \in {"on", "off"}  BY <1>1, <1>3
<1>7. Stored'
  BY <1>1, <1>2, <1>6 DEF Sound, Stored
<1>8. KeysOf(c)' = KeysOf(c) \cup {k} /\ \A d \in Callers \ {c} : KeysOf(d)' = KeysOf(d)
  BY <1>5 DEF KeysOf
<1>9. ASSUME NEW j \in Keys \ tainted' PROVE AgreeOn(j)'
  <2>1. CASE j = k
    <3>1. \A d \in Callers \ {c} : k \notin KeysOf(d)'
      BY <1>1, <1>8, <1>9, <2>1
    <3>2. InFlight(j)'  BY <1>8, <2>1 DEF InFlight
    <3>3. mem'[k] = calls'[c].new[k]
      BY <1>1, <1>5, <1>6 DEF Sound, Stored
    <3> QED  BY <2>1, <3>1, <3>2, <3>3 DEF AgreeOn
  <2>2. CASE j # k
    <3>1. j \notin tainted  BY <1>1, <1>9, <2>2
    <3>2. AgreeOn(j)  BY <1>9, <3>1 DEF Sound, Agree
    <3>3. mem'[j] = mem[j]  BY <1>1, <1>9, <2>2 DEF Sound, Stored
    <3>4. \A d \in Callers : (j \in KeysOf(d)' <=> j \in KeysOf(d)) /\ calls'[d].new = calls[d].new
      BY <1>5, <1>8, <2>2
    <3>5. apply_persisted_settings' = apply_persisted_settings
      BY <1>2 DEF apply_persisted_settings
    <3>6. InFlight(j)' <=> InFlight(j)  BY <3>4 DEF InFlight
    <3> QED  BY <3>2, <3>3, <3>4, <3>5, <3>6 DEF AgreeOn
  <2> QED  BY <2>1, <2>2
<1> QED  BY <1>5, <1>7, <1>9 DEF Sound, Agree

LEMMA WriteSound ==
  ASSUME Sound, NEW c \in Callers, Write(c)
  PROVE  Sound'
<1> DEFINE x == Updating(calls[c].new, calls[c].done)
<1>1. calls[c].pc = "write" /\ writer' = c /\ UNCHANGED <<mem, db, tainted>>
      /\ calls' = [calls EXCEPT ![c] = x]
  BY DEF Write
<1>2. /\ calls[c].new \in Updates /\ calls[c].done \subseteq DOMAIN calls[c].new
      /\ \A j \in DOMAIN calls[c].new : calls[c].new[j] \in {"on", "off"}
  BY <1>1, HeldIs DEF Sound, Held, KeysOf
<1>3. x \in Records /\ CallSound(x)  BY <1>2, UpdatingSound
<1>4. x.new = calls[c].new /\ x.done = calls[c].done  BY DEF Updating
<1> HIDE DEF x
<1>5. CallsOK' /\ calls'[c] = x /\ \A d \in Callers \ {c} : calls'[d] = calls[d]
  BY <1>1, <1>3, OneCall DEF Sound
<1>6. \A d \in Callers : KeysOf(d)' = KeysOf(d) /\ calls'[d].new = calls[d].new
  BY <1>4, <1>5 DEF KeysOf
<1>7. Stored'  BY <1>1 DEF Sound, Stored
<1>8. ASSUME NEW k \in Keys \ tainted' PROVE AgreeOn(k)'
  <2>1. AgreeOn(k)  BY <1>1, <1>8 DEF Sound, Agree
  <2>2. apply_persisted_settings' = apply_persisted_settings
    BY <1>1 DEF apply_persisted_settings
  <2>3. InFlight(k)' <=> InFlight(k)  BY <1>6 DEF InFlight
  <2> QED  BY <1>1, <1>6, <2>1, <2>2, <2>3 DEF AgreeOn
<1> QED  BY <1>5, <1>7, <1>8 DEF Sound, Agree

LEMMA CommitSound ==
  ASSUME Sound, NEW c \in Callers, Commit(c)
  PROVE  Sound'
<1>1. /\ calls[c].pc = "commit" /\ writer' = Freed(c) /\ UNCHANGED <<mem, tainted>>
      /\ calls' = [calls EXCEPT ![c] = Ended("done")]
      /\ db' = [k \in Keys |-> IF k \in KeysOf(c) THEN calls[c].new[k] ELSE db[k]]
  BY DEF Commit
<1>2. /\ KeysOf(c) \subseteq DOMAIN calls[c].new
      /\ \A j \in DOMAIN calls[c].new : calls[c].new[j] \in {"on", "off"}
  BY <1>1, HeldIs DEF Sound, Held
<1>3. CallsOK' /\ calls'[c] = Ended("done") /\ \A d \in Callers \ {c} : calls'[d] = calls[d]
  BY <1>1, EndedSound, OneCall DEF Sound
<1>4. Stored'
  BY <1>1, <1>2 DEF Sound, Stored, Freed
<1>5. KeysOf(c)' = {} /\ \A d \in Callers \ {c} : KeysOf(d)' = KeysOf(d)
  BY <1>3, EndedSound DEF KeysOf
<1>6. ASSUME NEW k \in Keys \ tainted' PROVE AgreeOn(k)'
  <2>1. AgreeOn(k)  BY <1>1, <1>6 DEF Sound, Agree
  <2>2. \A a, b \in Callers : k \in KeysOf(a)' /\ k \in KeysOf(b)' => a = b
    BY <1>5, <2>1 DEF AgreeOn
  <2>3. \A d \in Callers : k \in KeysOf(d)' => mem'[k] = calls'[d].new[k]
    BY <1>1, <1>3, <1>5, <2>1 DEF AgreeOn
  <2>4. ASSUME ~InFlight(k)' PROVE mem'[k] = apply_persisted_settings'[k]
    <3>1. CASE k \in KeysOf(c)
      <4>1. db'[k] = calls[c].new[k] /\ calls[c].new[k] \in {"on", "off"}
        BY <1>1, <1>2, <1>6, <3>1
      <4>2. apply_persisted_settings'[k] = db'[k]
        BY <1>6, <4>1, CoerceIs DEF apply_persisted_settings, none
      <4>3. mem[k] = calls[c].new[k]  BY <2>1, <3>1 DEF AgreeOn
      <4> QED  BY <1>1, <4>1, <4>2, <4>3
    <3>2. CASE k \notin KeysOf(c)
      <4>1. ~InFlight(k)  BY <1>5, <2>4, <3>2 DEF InFlight
      <4>2. apply_persisted_settings'[k] = apply_persisted_settings[k]
        BY <1>1, <1>6, <3>2 DEF apply_persisted_settings
      <4> QED  BY <1>1, <2>1, <4>1, <4>2 DEF AgreeOn
    <3> QED  BY <3>1, <3>2
  <2> QED  BY <2>2, <2>3, <2>4 DEF AgreeOn
<1> QED  BY <1>3, <1>4, <1>6 DEF Sound, Agree

LEMMA FailSound ==
  ASSUME Sound, NEW c \in Callers, Fail(c)
  PROVE  Sound'
<1>1. /\ calls[c].pc \in Held /\ writer' = Freed(c) /\ UNCHANGED <<mem, db>>
      /\ calls' = [calls EXCEPT ![c] = Ended("failed")]
      /\ tainted' = tainted \cup KeysOf(c)
  BY DEF Fail, Held
<1>2. KeysOf(c) \subseteq Keys  BY <1>1, HeldIs DEF Sound
<1>3. CallsOK' /\ calls'[c] = Ended("failed") /\ \A d \in Callers \ {c} : calls'[d] = calls[d]
  BY <1>1, EndedSound, OneCall DEF Sound
<1>4. \A d \in Callers : CallSound(calls'[d]) /\ LetGo(d)
  BY <1>1, <1>3, EndedSound DEF LetGo, CallsOK, CallsSound
<1>5. calls' \in [Callers -> Records]  BY <1>3 DEF CallsOK
<1>6. writer' \in Callers \cup {none} /\ tainted' \subseteq Keys
  BY <1>1, <1>2 DEF Sound, Stored, Freed
<1> QED  BY <1>1, <1>4, <1>5, <1>6, SoundKept

\* Stopping the scheduler cancels a call of the cycle and taints what it set;
\* after is what the stop itself does to the calls.
LEMMA StopSound ==
  ASSUME Sound, NEW STATE after, after \in [Callers -> Records],
         \A c \in Callers :
           CallSound(after[c]) /\ (after[c] = calls[c] \/ (after[c].done = {} /\ KeysOf(c) = {})),
         StopScheduler(after), UNCHANGED <<mem, db>>
  PROVE  Sound'
<1>1. CASE Cancelled
  <2>1. /\ writer' = Freed("cycle") /\ tainted' = tainted \cup KeysOf("cycle")
        /\ calls' = [after EXCEPT !["cycle"] = Idle]
    BY <1>1 DEF StopScheduler
  <2>2. "cycle" \in Callers  BY DEF Callers, Guards
  <2>3. calls' \in [Callers -> Records] /\ calls'["cycle"] = Idle
        /\ \A c \in Callers \ {"cycle"} : calls'[c] = after[c]
    BY <2>1, <2>2, EndedSound
  <2>4. KeysOf("cycle") \subseteq Keys
    BY <2>2 DEF Sound, CallsOK, Records, KeysOf
  <2>5. \A c \in Callers : CallSound(calls'[c]) /\ LetGo(c)
    <3> SUFFICES ASSUME NEW c \in Callers PROVE CallSound(calls'[c]) /\ LetGo(c)
      OBVIOUS
    <3>1. CASE c = "cycle"
      BY <2>1, <2>3, <3>1, EndedSound DEF LetGo
    <3>2. CASE c # "cycle"
      BY <2>3, <3>2 DEF LetGo
    <3> QED  BY <3>1, <3>2
  <2>6. writer' \in Callers \cup {none} /\ tainted \subseteq tainted' /\ tainted' \subseteq Keys
    BY <2>1, <2>4 DEF Sound, Stored, Freed
  <2> QED  BY <2>3, <2>5, <2>6, SoundKept
<1>2. CASE ~Cancelled
  <2>1. calls' = after /\ UNCHANGED <<writer, tainted>>  BY <1>2 DEF StopScheduler
  <2>2. \A c \in Callers : CallSound(calls'[c]) /\ LetGo(c)
    BY <2>1 DEF LetGo
  <2>3. writer' \in Callers \cup {none} /\ tainted \subseteq tainted' /\ tainted' \subseteq Keys
    BY <2>1 DEF Sound, Stored
  <2> QED  BY <2>1, <2>2, <2>3, SoundKept
<1> QED  BY <1>1, <1>2

\* A caller that is idle starts an update.
LEMMA AskSound ==
  ASSUME Sound, NEW c \in Callers, NEW r \in Updates, Ask(c, r)
  PROVE  Sound'
<1>1. calls[c].pc \notin Held /\ calls' = [calls EXCEPT ![c] = Started(r)]
      /\ UNCHANGED <<mem, db, writer, tainted>>
  BY DEF Ask, Held, settingVars
<1> QED  BY <1>1, StartedSound, Turns

LEMMA Known == /\ Routes \subseteq Callers /\ Guards \subseteq Callers
               /\ "apply" \in Callers /\ "cycle" \in Callers
               /\ Switches \subseteq Keys
BY DEF Routes, Guards, Callers, Keys

LEMMA RequestsSound == Sound /\ ApplyAwaits /\ Requests => Sound'
<1> SUFFICES ASSUME Sound, ApplyAwaits, Requests PROVE Sound'
  OBVIOUS
<1>1. ASSUME NEW r \in ApplyRequests, ApplyBegin(r) PROVE Sound'
  <2> DEFINE x == [pc |-> "held", new |-> r, done |-> {}]
  <2>1. r \in Updates  OBVIOUS
  <2>2. x \in Records /\ CallSound(x) /\ x.done = {}
    BY <2>1 DEF Records, Steps, CallSound, Held
  <2>3. calls' = [calls EXCEPT !["apply"] = x] /\ UNCHANGED <<mem, db, writer, tainted>>
    BY <1>1 DEF ApplyBegin
  <2>4. calls["apply"].pc \notin Held
    BY <1>1 DEF ApplyBegin, ApplyAwaits, reconfiguring, Held
  <2> HIDE DEF x
  <2> QED  BY <2>2, <2>3, <2>4, Known, Turns
<1>2. ASSUME NEW r \in ToggleRequests, Toggle(r) PROVE Sound'
  <2>1. r \in Updates /\ "toggle" \in Callers  BY DEF Callers, Routes
  <2> QED  BY <1>2, <2>1, AskSound DEF Toggle
<1>3. ASSUME NEW c \in {"start", "stop"}, SchedulerButton(c) PROVE Sound'
  <2> DEFINE r == [k \in {"SCHEDULER_ENABLED"} |-> IF c = "start" THEN "on" ELSE "off"]
  <2>1. {"SCHEDULER_ENABLED"} \in SUBSET Keys  BY Known DEF Switches
  <2>2. r \in [{"SCHEDULER_ENABLED"} -> Values]  BY DEF Values
  <2>3. r \in Updates  BY <2>1, <2>2, IsUpdate
  <2>4. c \in Callers  BY DEF Callers, Routes
  <2>5. Ask(c, r)  BY <1>3 DEF SchedulerButton
  <2> HIDE DEF r
  <2> QED  BY <2>3, <2>4, <2>5, AskSound
<1>4. ASSUME NEW g \in Guards, TripKillSwitch(g) PROVE Sound'
  <2> DEFINE r == [k \in {"TRADING_ENABLED"} |-> "off"]
  <2>1. {"TRADING_ENABLED"} \in SUBSET Keys  BY Known DEF Switches
  <2>2. r \in [{"TRADING_ENABLED"} -> Values]  BY DEF Values
  <2>3. r \in Updates  BY <2>1, <2>2, IsUpdate
  <2>4. Ask(g, r)  BY <1>4 DEF TripKillSwitch
  <2> HIDE DEF r
  <2> QED  BY <2>3, <2>4, Known, AskSound
<1> QED  BY <1>1, <1>2, <1>3, <1>4 DEF Requests

\* apply_settings and the scheduler's buttons go on with the settings as they are.
LEMMA ApplySound ==
  ASSUME Sound, ApplyAwaits,
         ApplyStop \/ ApplyUpdate \/ ApplyRestart \/ ApplyEnd \/ StartPressed \/ StopPressed
  PROVE  Sound'
<1>1. CASE ApplyStop
  <2>1. StopScheduler(calls) /\ UNCHANGED <<mem, db>>  BY <1>1 DEF ApplyStop
  <2>2. calls \in [Callers -> Records] /\ \A c \in Callers : CallSound(calls[c])
    BY DEF Sound, CallsOK, CallsSound
  <2> QED  BY <2>1, <2>2, StopSound
<1>2. CASE ApplyUpdate
  <2>1. calls' = [calls EXCEPT !["apply"] = Started(calls["apply"].new)]
        /\ UNCHANGED <<mem, db, writer, tainted>> /\ calls["apply"].pc \notin Held
    BY <1>2 DEF ApplyUpdate, ApplyAwaits, Held
  <2>2. calls["apply"].new \in Updates  BY Known DEF Sound, CallsOK, Records
  <2> QED  BY <2>1, <2>2, Known, StartedSound, Turns
<1>3. CASE ApplyRestart
  <2>1. calls' = [calls EXCEPT !["apply"] = Idle]
        /\ UNCHANGED <<mem, db, writer, tainted>> /\ calls["apply"].pc \notin Held
    BY <1>3 DEF ApplyRestart, Held
  <2> QED  BY <2>1, Known, EndedSound, Turns
<1>4. CASE ApplyEnd
  <2>1. calls' = [calls EXCEPT !["apply"] = Idle]
        /\ UNCHANGED <<mem, db, writer, tainted>> /\ calls["apply"].pc \notin Held
    BY <1>4 DEF ApplyEnd, ApplyAwaits, Held
  <2> QED  BY <2>1, Known, EndedSound, Turns
<1>5. CASE StartPressed
  <2>1. calls' = [calls EXCEPT !["start"] = Idle] /\ "start" \in Callers
        /\ UNCHANGED <<mem, db, writer, tainted>> /\ calls["start"].pc \notin Held
    BY <1>5 DEF StartPressed, Held, Callers, Routes
  <2> QED  BY <2>1, EndedSound, Turns
<1>6. CASE StopPressed
  <2> DEFINE after == [calls EXCEPT !["stop"] = Idle]
  <2>1. "stop" \in Callers  BY DEF Callers, Routes
  <2>2. StopScheduler(after) /\ UNCHANGED <<mem, db>> /\ calls["stop"].pc \notin Held
    BY <1>6 DEF StopPressed, Held
  <2>3. calls \in [Callers -> Records] /\ \A c \in Callers : CallSound(calls[c])
    BY DEF Sound, CallsOK, CallsSound
  <2>4. after \in [Callers -> Records] /\ after["stop"] = Idle
        /\ \A c \in Callers \ {"stop"} : after[c] = calls[c]
    BY <2>1, <2>3, EndedSound
  <2>5. KeysOf("stop") = {}  BY <2>1, <2>2, <2>3 DEF CallSound, KeysOf
  <2>6. \A c \in Callers :
          CallSound(after[c]) /\ (after[c] = calls[c] \/ (after[c].done = {} /\ KeysOf(c) = {}))
    <3> HIDE DEF after
    <3> SUFFICES ASSUME NEW c \in Callers
                 PROVE  CallSound(after[c]) /\ (after[c] = calls[c] \/ (after[c].done = {} /\ KeysOf(c) = {}))
      OBVIOUS
    <3>1. CASE c = "stop"
      BY <2>4, <2>5, <3>1, EndedSound
    <3>2. CASE c # "stop"
      BY <2>3, <2>4, <3>2
    <3> QED  BY <3>1, <3>2
  <2> HIDE DEF after
  <2> QED  BY <2>2, <2>4, <2>6, StopSound
<1> QED  BY <1>1, <1>2, <1>3, <1>4, <1>5, <1>6

\* What a restart reads back is what the rows give, or the defaults.
LEMMA RestartSound == Sound /\ Restart => Sound'
<1> SUFFICES ASSUME Sound, Restart PROVE Sound'
  OBVIOUS
<1>1. /\ Load /\ db' = db /\ writer' = none
      /\ calls' = [c \in Callers |-> Idle]
  BY DEF Restart
<1>2. CallsOK'
  BY <1>1, EndedSound DEF CallsOK, CallsSound
<1>3. \A c \in Callers : KeysOf(c)' = {}  BY <1>1, EndedSound DEF KeysOf
<1>4. apply_persisted_settings' = apply_persisted_settings
  BY <1>1 DEF apply_persisted_settings
<1>5. apply_persisted_settings \in [Keys -> {"on", "off"}]
  <2> SUFFICES ASSUME NEW k \in Keys
               PROVE  (IF db[k] = none THEN Default ELSE coerce(k, db[k])) \in {"on", "off"}
    BY DEF apply_persisted_settings
  <2>1. db[k] \in {"on", "off", none}  BY DEF Sound, Stored
  <2> QED  BY <2>1, CoerceIs DEF Default
<1>6. CASE mem' = apply_persisted_settings /\ tainted' = {}
  <2>1. Stored'  BY <1>1, <1>5, <1>6 DEF Sound, Stored
  <2>2. Agree'  BY <1>3, <1>4, <1>6 DEF Agree, AgreeOn
  <2> QED  BY <1>2, <2>1, <2>2 DEF Sound
<1>7. CASE mem' = [k \in Keys |-> Default] /\ tainted' = {k \in Keys : db[k] # none}
  <2>1. Stored'  BY <1>1, <1>7 DEF Sound, Stored, Default
  <2>2. \A k \in Keys \ tainted' : mem'[k] = apply_persisted_settings'[k]
    BY <1>4, <1>7 DEF apply_persisted_settings
  <2>3. Agree'  BY <1>3, <2>2 DEF Agree, AgreeOn
  <2> QED  BY <1>2, <2>1, <2>3 DEF Sound
<1> QED  BY <1>1, <1>6, <1>7 DEF Load

\* Every step keeps the settings sound.
LEMMA SoundStep ==
  ASSUME Sound, ApplyAwaits, [Next]_vars
  PROVE  Sound'
<1>1. CASE Requests  BY <1>1, RequestsSound
<1>2. CASE Restart  BY <1>2, RestartSound
<1>3. ASSUME NEW c \in Callers, UpdateStep(c) \/ Return(c) PROVE Sound'
  <2>1. CASE UpdateStep(c)
    BY <2>1, PutSound, WriteSound, CommitSound, FailSound DEF UpdateStep
  <2>2. CASE Return(c)
    <3>1. calls[c].pc \notin Held /\ calls' = [calls EXCEPT ![c] = Idle]
          /\ UNCHANGED <<mem, db, writer, tainted>>
      BY <2>2 DEF Return, Held
    <3> QED  BY <3>1, EndedSound, Turns
  <2> QED  BY <1>3, <2>1, <2>2
<1>4. CASE ApplyStop \/ ApplyUpdate \/ ApplyRestart \/ ApplyEnd \/ StartPressed \/ StopPressed
  BY <1>4, ApplySound
<1>5. CASE Work \/ (\E d \in Drains : DrainStep(d)) \/ UNCHANGED vars
  <2>1. UNCHANGED settingVars
    BY <1>5 DEF Work, StartCycle, PollBegin, EndCycle, PollEnd, MarketEvent, NewsEvent,
         NewsAnalysis, ExitEvent, EndEvent, DrainStep, DrainSeen, DrainExpired, vars
  <2>2. UNCHANGED <<mem, db, writer, tainted, calls>>  BY <2>1 DEF settingVars
  <2>3. \A c \in Callers : CallSound(calls'[c]) /\ LetGo(c)
    BY <2>2 DEF LetGo, Sound, CallsOK, CallsSound
  <2>4. /\ writer' \in Callers \cup {none} /\ tainted \subseteq tainted'
        /\ tainted' \subseteq Keys /\ calls' \in [Callers -> Records]
    BY <2>2 DEF Sound, Stored, CallsOK
  <2> QED  BY <2>2, <2>3, <2>4, SoundKept
<1> QED  BY <1>1, <1>2, <1>3, <1>4, <1>5 DEF Next

-----------------------------------------------------------------------------
(* The drain and the work beside it.                                        *)

Shapes ==
  /\ stage \in {"idle", "stop", "drain", "update", "report"}
  /\ idleSeen \subseteq drained /\ drained \subseteq Drains
  /\ jobs \subseteq {"trading", "news"}
  /\ {poll, cycle} \subseteq {none, "job", "task"}
  /\ bus \in {none, "market", "snapshot", "news", "selling"}
  /\ asked \in 0..MaxRequests

LEMMA ShapesStep == Shapes /\ [Next]_vars => Shapes'
<1> SUFFICES ASSUME Shapes, [Next]_vars PROVE Shapes'
  OBVIOUS
<1> USE DEF Shapes, drainVars, workVars, settingVars
<1>1. CASE Requests
  <2>1. ASSUME NEW r \in ApplyRequests, ApplyBegin(r) PROVE Shapes'
    BY <2>1 DEF ApplyBegin
  <2>2. ASSUME NEW r \in ToggleRequests, Toggle(r) PROVE Shapes'
    BY <2>2 DEF Toggle, Ask
  <2>3. ASSUME NEW c \in {"start", "stop"}, SchedulerButton(c) PROVE Shapes'
    BY <2>3 DEF SchedulerButton, Ask
  <2>4. ASSUME NEW g \in Guards, TripKillSwitch(g) PROVE Shapes'
    BY <2>4 DEF TripKillSwitch, Ask
  <2> QED  BY <1>1, <2>1, <2>2, <2>3, <2>4 DEF Requests
<1>2. CASE Work
  <2>1. ASSUME NEW by \in {"job", "task"}, StartCycle(by) \/ PollBegin(by) PROVE Shapes'
    BY <2>1 DEF StartCycle, PollBegin
  <2>2. CASE EndCycle \/ PollEnd \/ MarketEvent \/ NewsEvent \/ NewsAnalysis \/ ExitEvent \/ EndEvent
    BY <2>2 DEF EndCycle, PollEnd, MarketEvent, NewsEvent, NewsAnalysis, ExitEvent, EndEvent
  <2> QED  BY <1>2, <2>1, <2>2 DEF Work
<1>3. CASE Restart
  BY <1>3 DEF Restart, EnabledBy, Drains
<1>4. ASSUME NEW c \in Callers, UpdateStep(c) \/ Return(c) PROVE Shapes'
  BY <1>4 DEF UpdateStep, Put, Write, Commit, Fail, Return
<1>5. ASSUME NEW d \in Drains, DrainStep(d) PROVE Shapes'
  BY <1>5 DEF DrainStep, DrainSeen, DrainExpired
<1>6. CASE ApplyStop \/ StopPressed
  BY <1>6 DEF ApplyStop, StopPressed, StopScheduler
<1>7. CASE ApplyUpdate \/ ApplyRestart \/ ApplyEnd \/ StartPressed
  BY <1>7 DEF ApplyUpdate, ApplyRestart, ApplyEnd, StartPressed, StartScheduler, wanted, EnabledBy
<1>8. CASE UNCHANGED vars
  BY <1>8 DEF vars
<1> QED  BY <1>1, <1>2, <1>3, <1>4, <1>5, <1>6, <1>7, <1>8 DEF Next

\* A step that a call takes, or that begins one: the call is not idle before an
\* update, and only a Return or the end of an update makes it idle.
LEMMA ControlStep ==
  ASSUME Shapes, CallsOK, ApplyAwaits, QuietInv, [Next]_vars
  PROVE  ApplyAwaits' /\ QuietInv'
<1> USE Known DEF ApplyAwaits, QuietInv, CycleAwaits, Shapes, CallsOK, drainVars, workVars, settingVars
<1>1. CASE Requests
  <2>1. ASSUME NEW r \in ApplyRequests, ApplyBegin(r) PROVE ApplyAwaits' /\ QuietInv'
    BY <2>1 DEF ApplyBegin, reconfiguring
  <2>2. ASSUME NEW r \in ToggleRequests, Toggle(r) PROVE ApplyAwaits' /\ QuietInv'
    BY <2>2 DEF Toggle, Ask
  <2>3. ASSUME NEW c \in {"start", "stop"}, SchedulerButton(c) PROVE ApplyAwaits' /\ QuietInv'
    BY <2>3 DEF SchedulerButton, Ask
  <2>4. ASSUME NEW g \in Guards, TripKillSwitch(g) PROVE ApplyAwaits' /\ QuietInv'
    BY <2>4 DEF TripKillSwitch, Ask, Guards
  <2> QED  BY <1>1, <2>1, <2>2, <2>3, <2>4 DEF Requests
<1>2. CASE Work
  <2>1. ASSUME NEW by \in {"job", "task"}, StartCycle(by) PROVE ApplyAwaits' /\ QuietInv'
    BY <2>1 DEF StartCycle, MayStartCycle, reconfiguring, none
  <2>2. ASSUME NEW by \in {"job", "task"}, PollBegin(by) PROVE ApplyAwaits' /\ QuietInv'
    BY <2>2 DEF PollBegin
  <2>3. CASE EndCycle
    BY <2>3 DEF EndCycle
  <2>4. CASE MarketEvent
    BY <2>4 DEF MarketEvent, reconfiguring
  <2>5. CASE PollEnd \/ NewsEvent \/ NewsAnalysis \/ ExitEvent \/ EndEvent
    BY <2>5 DEF PollEnd, NewsEvent, NewsAnalysis, ExitEvent, EndEvent, none
  <2> QED  BY <1>2, <2>1, <2>2, <2>3, <2>4, <2>5 DEF Work
<1>3. CASE Restart
  <2>1. calls' = [c \in Callers |-> Idle] /\ Idle.pc = "idle"
    BY <1>3 DEF Restart, Idle
  <2> QED  BY <1>3, <2>1 DEF Restart
<1>4. ASSUME NEW c \in Callers, UpdateStep(c) \/ Return(c) PROVE ApplyAwaits' /\ QuietInv'
  <2>1. UNCHANGED <<stage, idleSeen, drained, cycle, bus>>
    BY <1>4 DEF UpdateStep, Put, Write, Commit, Fail, Return
  <2>2. CASE UpdateStep(c)
    <3>1. calls[c].pc \notin {"idle", "held"} /\ \A d \in Callers \ {c} : calls'[d] = calls[d]
      BY <2>2 DEF UpdateStep, Put, Write, Commit, Fail
    <3> QED  BY <2>1, <3>1
  <2>3. CASE Return(c)
    <3>1. c # "apply" /\ calls[c].pc # "idle" /\ \A d \in Callers \ {c} : calls'[d] = calls[d]
      BY <2>3 DEF Return
    <3> QED  BY <2>1, <3>1
  <2> QED  BY <1>4, <2>2, <2>3
<1>5. ASSUME NEW d \in Drains, DrainStep(d) PROVE ApplyAwaits' /\ QuietInv'
  BY <1>5 DEF DrainStep, DrainSeen, DrainExpired, Quiet, AgentIdle
<1>6. CASE ApplyStop \/ StopPressed
  <2>1. ASSUME NEW STATE after, after \in [Callers -> Records],
               after["apply"] = calls["apply"], after["cycle"] = calls["cycle"], StopScheduler(after)
        PROVE  /\ calls'["apply"] = calls["apply"]
               /\ cycle' \in {cycle, none}
               /\ calls'["cycle"].pc # "idle" => calls["cycle"].pc # "idle" /\ cycle' = cycle
    <3>1. CASE Cancelled
      BY <2>1, <3>1 DEF StopScheduler, Idle
    <3>2. CASE ~Cancelled
      BY <2>1, <3>2 DEF StopScheduler
    <3> QED  BY <3>1, <3>2
  <2>2. CASE ApplyStop
    <3>1. StopScheduler(calls)  BY <2>2 DEF ApplyStop
    <3>2. /\ calls'["apply"] = calls["apply"]
          /\ cycle' \in {cycle, none}
          /\ calls'["cycle"].pc # "idle" => calls["cycle"].pc # "idle" /\ cycle' = cycle
      BY <2>1, <3>1
    <3> QED  BY <2>2, <3>2 DEF ApplyStop
  <2>3. CASE StopPressed
    <3> DEFINE after == [calls EXCEPT !["stop"] = Idle]
    <3>1. after \in [Callers -> Records] /\ after["apply"] = calls["apply"]
          /\ after["cycle"] = calls["cycle"]
      BY EndedSound
    <3>2. StopScheduler(after)  BY <2>3 DEF StopPressed
    <3> HIDE DEF after
    <3>3. /\ calls'["apply"] = calls["apply"]
          /\ cycle' \in {cycle, none}
          /\ calls'["cycle"].pc # "idle" => calls["cycle"].pc # "idle" /\ cycle' = cycle
      BY <2>1, <3>1, <3>2
    <3> QED  BY <2>3, <3>3 DEF StopPressed
  <2> QED  BY <1>6, <2>2, <2>3
<1>7. CASE ApplyUpdate
  BY <1>7 DEF ApplyUpdate
<1>8. CASE ApplyRestart
  BY <1>8 DEF ApplyRestart, Idle
<1>9. CASE ApplyEnd
  BY <1>9 DEF ApplyEnd, Idle
<1>10. CASE StartPressed
  BY <1>10 DEF StartPressed
<1>11. CASE UNCHANGED vars
  BY <1>11 DEF vars
<1> QED
  BY <1>1, <1>2, <1>3, <1>4, <1>5, <1>6, <1>7, <1>8, <1>9, <1>10, <1>11 DEF Next

-----------------------------------------------------------------------------
(* The theorems.                                                            *)

Inv == Sound /\ Shapes /\ ApplyAwaits /\ QuietInv

LEMMA InvInit == Init => Inv
<1> SUFFICES ASSUME Init PROVE Inv
  OBVIOUS
<1>1. \A c \in Callers : calls[c] = Idle
  BY DEF Init
<1>2. CallsOK
  BY EndedSound, <1>1 DEF Init, CallsOK, CallsSound
<1>3. \A c \in Callers : KeysOf(c) = {}
  BY <1>1, EndedSound DEF KeysOf
<1>4. Agree
  BY <1>3 DEF Init, Agree, AgreeOn, apply_persisted_settings
<1>5. Stored
  BY DEF Init, Stored, Default
<1>6. Shapes
  BY DEF Init, Shapes, Drains
<1>7. ApplyAwaits /\ QuietInv
  BY <1>1, Known DEF Init, ApplyAwaits, QuietInv, CycleAwaits, Idle
<1> QED  BY <1>2, <1>4, <1>5, <1>6, <1>7 DEF Inv, Sound

LEMMA InvHolds == Spec => []Inv
<1>1. Inv /\ [Next]_vars => Inv'
  BY SoundStep, ShapesStep, ControlStep DEF Inv, Sound
<1> QED  BY <1>1, InvInit, PTL DEF Spec

\* For all settings and requests: memory and rows hold only values of their
\* setting, and once nobody is writing a setting, its memory and its row differ
\* only if an update of it was rolled back or overlapped another
\* (runtime_settings_service.py).
THEOREM MemoryAgrees == Spec => []SettingsSound
<1>1. Inv => SettingsSound
  BY DEF Inv, Sound, Stored, CallsOK, Records, Shapes, Agree, AgreeOn,
         SettingsSound, TypeOK, MemoryMatchesRows
<1> QED  BY <1>1, InvHolds, PTL

\* For all settings and requests: from the moment the drain has seen the agent
\* idle until the reconfiguration ends, no trading cycle runs and no analysis of
\* a market event, nor the kill switch of a cycle (_wait_for_agent_idle,
\* run_cycle, _on_market_event).
THEOREM DrainedStaysQuiet == Spec => []QuietWhileApplied
<1>1. Inv => QuietWhileApplied
  BY DEF Inv, QuietInv, CycleAwaits, QuietWhileApplied
<1> QED  BY <1>1, InvHolds, PTL

=============================================================================
