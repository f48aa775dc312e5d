--------------------------- MODULE RuntimeReconfig ---------------------------
(***************************************************************************)
(* Changing the settings of a running server.                              *)
(*                                                                         *)
(* POST /settings/apply drains the agent and the scheduler, writes the     *)
(* settings to memory and to SQLite, resets the LLM runtime and starts the *)
(* scheduler again.  Meanwhile the dashboard, the scheduler buttons and    *)
(* the kill switch of an analysis write settings through the same service  *)
(* without taking part in the drain, and the event bus, the news polls and *)
(* the scheduler's jobs start work of their own.                           *)
(*                                                                         *)
(* One process, one event loop: a step is the code between two awaits.     *)
(***************************************************************************)
EXTENDS Naturals

CONSTANTS
  Bools,        \* settings whose default is a bool: the two switches below among them
  Numbers,      \* settings with a permitted range
  Choices,      \* settings with an enumerated value
  ApplyRequests,   \* what POST /settings/apply may be sent
  ToggleRequests,  \* what the dashboard and PUT /settings may be sent
  MaxRequests,     \* bound: calls of update_settings that are started
  DrainMayTimeOut, \* the 60 s of the drain may run out
  Crashes          \* the process may die and be started again

Keys == Bools \cup Numbers \cup Choices

\* "odd" is any value outside the setting's domain.
Values == {"on", "off", "odd"}
none   == "none"

\* The dicts update_settings may be given: a value for some of the settings.
Updates == UNION {[D -> Values] : D \in SUBSET Keys}

Switches == {"TRADING_ENABLED", "SCHEDULER_ENABLED", "NEWS_POLL_ENABLED"}

\* The callers of RuntimeSettingsService.update_settings: the four routes, and
\* the kill switch when a cycle or a handler of the event bus trips it.
Routes  == {"apply", "toggle", "start", "stop"}
Guards  == {"cycle", "bus"}
Callers == Routes \cup Guards

ASSUME KeysAssumption ==
  /\ Switches \subseteq Bools
  /\ Numbers \cap (Bools \cup Choices) = {} /\ Bools \cap Choices = {}

ASSUME RequestsAssumption ==
  /\ ApplyRequests \subseteq Updates /\ ToggleRequests \subseteq Updates
  /\ MaxRequests \in Nat
  /\ DrainMayTimeOut \in BOOLEAN /\ Crashes \in BOOLEAN

VARIABLES
  mem,      \* the settings object every reader uses
  db,       \* the committed rows of runtime_settings
  writer,   \* who holds SQLite's write lock
  calls,    \* update_settings per caller: pc, the new values, the keys set so far
  tainted,  \* keys whose memory and row are allowed to differ, and why (see Put, Fail)
  stage,    \* where apply_settings is; "idle" when no reconfiguration is active
  idleSeen, \* which of the two drains has reported idle
  drained,  \* which of the two drains has ended, by idleness or by its deadline
  jobs,     \* job groups of the live scheduler; {} when it is stopped
  poll,     \* who holds the news poll's lock: none, job, task
  cycle,    \* who runs the trading cycle: none, job, task
  bus,      \* what the event bus is handling: none, market, snapshot, news, selling
  asked     \* how many calls of update_settings were started

settingVars == <<mem, db, writer, calls, tainted>>
drainVars   == <<stage, idleSeen, drained>>
workVars    == <<jobs, poll, cycle, bus>>
vars        == <<settingVars, drainVars, workVars, asked>>

Idle == [pc |-> "idle", new |-> [k \in {} |-> none], done |-> {}]
Ended(how) == [Idle EXCEPT !.pc = how]

reconfiguring == stage # "idle"

-----------------------------------------------------------------------------
(* update_settings: coerce all, then per key set memory, upsert; commit.    *)

\* coerce_runtime_setting_value: "raise" is the 400, "skip" leaves the key out.
coerce(k, v) ==
  CASE k \in Bools   -> IF v = "on" THEN "on" ELSE "off"
    [] k \in Numbers -> IF v = "odd" THEN "raise" ELSE v
    [] k \in Choices -> IF v = "odd" THEN "skip" ELSE v

Rejected(r) == \E k \in DOMAIN r : coerce(k, r[k]) = "raise"

\* The values that are left to write.
Normalized(r) ==
  [k \in {k \in DOMAIN r : coerce(k, r[k]) # "skip"} |-> coerce(k, r[k])]

\* A caller that has set the keys done of the values new, its writes flushed.
Updating(new, done) ==
  [pc |-> IF done = DOMAIN new THEN "commit" ELSE "put", new |-> new, done |-> done]

\* The caller's next step once its request is coerced.
Started(r) == IF Rejected(r) THEN Ended("failed") ELSE Updating(Normalized(r), {})

KeysOf(c) == calls[c].done

\* setattr(settings, key, value) of the next key of the request, whichever it
\* is, seen by every reader at once.
Put(c) ==
  /\ calls[c].pc = "put"
  /\ \E k \in DOMAIN calls[c].new \ KeysOf(c) :
       /\ mem' = [mem EXCEPT ![k] = calls[c].new[k]]
       /\ calls' = [calls EXCEPT ![c] = [pc |-> "write", new |-> @.new, done |-> @.done \cup {k}]]
       /\ tainted' = IF \E d \in Callers \ {c} : k \in KeysOf(d)
                       THEN tainted \cup {k}
                       ELSE tainted \ {k}
  /\ UNCHANGED <<db, writer, drainVars, workVars, asked>>

\* upsert_value flushes: the first one of a call takes SQLite's write lock.
Write(c) ==
  /\ calls[c].pc = "write"
  /\ writer \in {none, c}
  /\ writer' = c
  /\ calls' = [calls EXCEPT ![c] = Updating(@.new, @.done)]
  /\ UNCHANGED <<mem, db, tainted, drainVars, workVars, asked>>

Freed(c) == IF writer = c THEN none ELSE writer

\* Mutation: the commit is forgotten.
CommitNothing(c) ==
  /\ calls[c].pc = "commit"
  /\ writer' = Freed(c)
  /\ calls' = [calls EXCEPT ![c] = Ended("done")]
  /\ UNCHANGED <<mem, db, tainted, drainVars, workVars, asked>>


Commit(c) ==
  /\ calls[c].pc = "commit"
  /\ db' = [k \in Keys |-> IF k \in KeysOf(c) THEN calls[c].new[k] ELSE db[k]]
  /\ writer' = Freed(c)
  /\ calls' = [calls EXCEPT ![c] = Ended("done")]
  /\ UNCHANGED <<mem, tainted, drainVars, workVars, asked>>

\* A write that waits out the busy timeout, or a commit that fails, rolls the
\* rows back; what was set in memory stays.
Fail(c) ==
  /\ calls[c].pc \in {"write", "commit"}
  /\ writer' = Freed(c)
  /\ tainted' = tainted \cup KeysOf(c)
  /\ calls' = [calls EXCEPT ![c] = Ended("failed")]
  /\ UNCHANGED <<mem, db, drainVars, workVars, asked>>

-----------------------------------------------------------------------------
(* TradingScheduler.start and stop: neither awaits, each is part of a step. *)

Enables(g) == IF g = "trading" THEN "SCHEDULER_ENABLED" ELSE "NEWS_POLL_ENABLED"
EnabledBy(m) == {g \in {"trading", "news"} : m[Enables(g)] = "on"}
wanted     == EnabledBy(mem)
is_running == jobs # {}

StartScheduler == jobs' = IF is_running THEN jobs ELSE wanted

\* shutdown(wait=False) cancels the coroutines of the running jobs: a cycle one
\* of them runs ends at its await, and so does the kill switch it is tripping,
\* whose transaction is rolled back.  Tasks that no job runs go on.
Cancelled == cycle = "job" /\ is_running

StopScheduler(after) ==
  /\ jobs' = {}
  /\ poll' = IF is_running /\ poll = "job" THEN none ELSE poll
  /\ IF Cancelled
       THEN /\ cycle' = none
            /\ writer' = Freed("cycle")
            /\ tainted' = tainted \cup KeysOf("cycle")
            /\ calls' = [after EXCEPT !["cycle"] = Idle]
       ELSE /\ calls' = after
            /\ UNCHANGED <<cycle, writer, tainted>>

-----------------------------------------------------------------------------
(* apply_settings                                                           *)

AgentIdle     == cycle = none /\ bus \notin {"market", "news", "selling"}
SchedulerIdle == poll = none
Quiet(d)      == IF d = "agent" THEN AgentIdle ELSE SchedulerIdle
Drains        == {"agent", "scheduler"}

\* A second request meets the lock and is answered 409.  Whether the scheduler
\* is to be stopped is read before the first await.
ApplyBegin(r) ==
  /\ ~reconfiguring
  /\ asked < MaxRequests
  /\ asked' = asked + 1
  /\ stage' = IF is_running THEN "stop" ELSE "drain"
  /\ calls' = [calls EXCEPT !["apply"] = [pc |-> "held", new |-> r, done |-> {}]]
  /\ UNCHANGED <<mem, db, writer, tainted, idleSeen, drained, workVars>>

ApplyStop ==
  /\ stage = "stop"
  /\ stage' = "drain"
  /\ StopScheduler(calls)
  /\ UNCHANGED <<mem, db, idleSeen, drained, bus, asked>>

\* wait_until_idle of the agent and of the scheduler, side by side.
DrainSeen(d) ==
  /\ stage = "drain" /\ d \notin drained
  /\ Quiet(d)
  /\ idleSeen' = idleSeen \cup {d}
  /\ drained' = drained \cup {d}
  /\ UNCHANGED <<settingVars, stage, workVars, asked>>

DrainExpired(d) ==
  /\ DrainMayTimeOut
  /\ stage = "drain" /\ d \notin drained
  /\ ~Quiet(d)
  /\ drained' = drained \cup {d}
  /\ UNCHANGED <<settingVars, stage, idleSeen, workVars, asked>>

ApplyUpdate ==
  /\ stage = "drain" /\ drained = Drains
  /\ stage' = "update"
  /\ calls' = [calls EXCEPT !["apply"] = Started(@.new)]
  /\ UNCHANGED <<mem, db, writer, tainted, idleSeen, drained, workVars, asked>>

\* The LLM runtime is reset and the scheduler started if the settings ask for it.
ApplyRestart ==
  /\ stage = "update" /\ calls["apply"].pc = "done"
  /\ stage' = "report"
  /\ calls' = [calls EXCEPT !["apply"] = Idle]
  /\ StartScheduler
  /\ UNCHANGED <<mem, db, writer, tainted, idleSeen, drained, poll, cycle, bus, asked>>

\* Mutation: a failed update leaves the reconfiguration active.
ApplyEndUnlessFailed ==
  /\ stage = "report"
  /\ stage' = "idle"
  /\ idleSeen' = {} /\ drained' = {}
  /\ calls' = [calls EXCEPT !["apply"] = Idle]
  /\ UNCHANGED <<mem, db, writer, tainted, workVars, asked>>

\* The finally: an update that raised leaves the scheduler as the drain left it.
ApplyEnd ==
  /\ \/ stage = "report"
     \/ stage = "update" /\ calls["apply"].pc = "failed"
  /\ stage' = "idle"
  /\ idleSeen' = {} /\ drained' = {}
  /\ calls' = [calls EXCEPT !["apply"] = Idle]
  /\ UNCHANGED <<mem, db, writer, tainted, workVars, asked>>

-----------------------------------------------------------------------------
(* The other writers of settings: none of them looks at the reconfiguration. *)

Ask(c, r) ==
  /\ calls[c].pc = "idle"
  /\ calls' = [calls EXCEPT ![c] = Started(r)]
  /\ UNCHANGED <<mem, db, writer, tainted, drainVars, workVars>>

Toggle(r) ==
  /\ asked < MaxRequests /\ asked' = asked + 1
  /\ Ask("toggle", r)

SchedulerButton(c) ==
  /\ asked < MaxRequests /\ asked' = asked + 1
  /\ Ask(c, [k \in {"SCHEDULER_ENABLED"} |-> IF c = "start" THEN "on" ELSE "off"])

\* TradingGuard._block, reached from a BUY while trading is enabled.
TripKillSwitch(g) ==
  /\ IF g = "cycle" THEN cycle # none ELSE bus \in {"market", "news"}
  /\ mem["TRADING_ENABLED"] = "on"
  /\ asked < MaxRequests /\ asked' = asked + 1
  /\ Ask(g, [k \in {"TRADING_ENABLED"} |-> "off"])

Return(c) ==
  /\ c # "apply" /\ calls[c].pc \in {"done", "failed"}
  /\ c \in {"start", "stop"} => calls[c].pc = "failed"
  /\ calls' = [calls EXCEPT ![c] = Idle]
  /\ UNCHANGED <<mem, db, writer, tainted, drainVars, workVars, asked>>

StartPressed ==
  /\ calls["start"].pc = "done"
  /\ calls' = [calls EXCEPT !["start"] = Idle]
  /\ StartScheduler
  /\ UNCHANGED <<mem, db, writer, tainted, drainVars, poll, cycle, bus, asked>>

StopPressed ==
  /\ calls["stop"].pc = "done"
  /\ StopScheduler([calls EXCEPT !["stop"] = Idle])
  /\ UNCHANGED <<mem, db, drainVars, bus, asked>>

-----------------------------------------------------------------------------
(* Work: cycles, events and news polls.                                     *)

\* Mutation: a cycle starts although a reconfiguration is active.
MayStartCycleAlways == cycle = none

\* run_cycle returns at once while a reconfiguration is active or a cycle runs.
\* Besides the jobs, the admin's trigger runs a cycle, and so does the task that
\* start() leaves behind and stop() does not cancel (_on_startup).
MayStartCycle == ~reconfiguring /\ cycle = none

StartCycle(by) ==
  /\ by = "job" => "trading" \in jobs
  /\ MayStartCycle
  /\ cycle' = by
  /\ UNCHANGED <<settingVars, drainVars, jobs, poll, bus, asked>>

EndCycle ==
  /\ cycle # none /\ calls["cycle"].pc = "idle"
  /\ cycle' = none
  /\ UNCHANGED <<settingVars, drainVars, jobs, poll, bus, asked>>

MarketEvent ==
  /\ bus = none /\ ~reconfiguring
  /\ bus' = "market"
  /\ UNCHANGED <<settingVars, drainVars, jobs, poll, cycle, asked>>

\* A news item is looked at only outside a reconfiguration, but its portfolio
\* snapshot is awaited before the analysis of an impacted symbol begins.
NewsEvent ==
  /\ bus = none /\ ~reconfiguring
  /\ bus' = "snapshot"
  /\ UNCHANGED <<settingVars, drainVars, jobs, poll, cycle, asked>>

NewsAnalysis ==
  /\ bus = "snapshot"
  /\ bus' \in {none, "news"}
  /\ UNCHANGED <<settingVars, drainVars, jobs, poll, cycle, asked>>

\* Stop loss and take profit do not ask whether a reconfiguration is active.
ExitEvent ==
  /\ bus = none
  /\ bus' = "selling"
  /\ UNCHANGED <<settingVars, drainVars, jobs, poll, cycle, asked>>

EndEvent ==
  /\ bus \in {"market", "news", "selling"} /\ calls["bus"].pc = "idle"
  /\ bus' = none
  /\ UNCHANGED <<settingVars, drainVars, jobs, poll, cycle, asked>>

\* _news_poll, as a job or as the task an event of the bus schedules, whether
\* or not a reconfiguration is active.  A poll that waits for the lock begins
\* here when it gets it.
PollBegin(by) ==
  /\ by = "job" => "news" \in jobs
  /\ mem["NEWS_POLL_ENABLED"] = "on" /\ poll = none
  /\ poll' = by
  /\ UNCHANGED <<settingVars, drainVars, jobs, cycle, bus, asked>>

PollEnd ==
  /\ poll # none
  /\ poll' = none
  /\ UNCHANGED <<settingVars, drainVars, jobs, cycle, bus, asked>>

-----------------------------------------------------------------------------
(* The process: lifespan reads the rows back; when that fails it goes on    *)
(* with the defaults.                                                       *)

Default == "on"     \* of every setting the model names

apply_persisted_settings ==
  [k \in Keys |-> IF db[k] = none THEN Default ELSE coerce(k, db[k])]

\* What the process does with the rows: load them, or fail to.
Load == \/ mem' = apply_persisted_settings /\ tainted' = {}
        \/ mem' = [k \in Keys |-> Default] /\ tainted' = {k \in Keys : db[k] # none}

Restart ==
  /\ Crashes
  /\ Load
  /\ jobs' = EnabledBy(mem')
  /\ writer' = none /\ calls' = [c \in Callers |-> Idle]
  /\ stage' = "idle" /\ idleSeen' = {} /\ drained' = {}
  /\ poll' = none /\ cycle' = none /\ bus' = none
  /\ UNCHANGED <<db, asked>>

Init ==
  /\ mem = [k \in Keys |-> Default] /\ db = [k \in Keys |-> none]
  /\ writer = none /\ calls = [c \in Callers |-> Idle] /\ tainted = {}
  /\ stage = "idle" /\ idleSeen = {} /\ drained = {}
  /\ jobs = {"trading", "news"}
  /\ poll = none /\ cycle = none /\ bus = none /\ asked = 0

UpdateStep(c) == Put(c) \/ Write(c) \/ Commit(c) \/ Fail(c)
DrainStep(d)  == DrainSeen(d) \/ DrainExpired(d)
Requests ==
  \/ \E r \in ApplyRequests : ApplyBegin(r)
  \/ \E r \in ToggleRequests : Toggle(r)
  \/ \E c \in {"start", "stop"} : SchedulerButton(c)
  \/ \E g \in Guards : TripKillSwitch(g)
Work ==
  \/ \E by \in {"job", "task"} : StartCycle(by) \/ PollBegin(by)
  \/ EndCycle \/ PollEnd
  \/ MarketEvent \/ NewsEvent \/ NewsAnalysis \/ ExitEvent \/ EndEvent

Next ==
  \/ Requests \/ Work \/ Restart
  \/ \E c \in Callers : UpdateStep(c) \/ Return(c)
  \/ \E d \in Drains : DrainStep(d)
  \/ ApplyStop \/ ApplyUpdate \/ ApplyRestart \/ ApplyEnd
  \/ StartPressed \/ StopPressed

Spec == Init /\ [][Next]_vars

\* The loop resumes every task whose await is over.
Fairness ==
  /\ \A c \in Callers : WF_vars(UpdateStep(c)) /\ WF_vars(Return(c))
  /\ \A d \in Drains : WF_vars(DrainStep(d))
  /\ WF_vars(ApplyStop) /\ WF_vars(ApplyUpdate)
  /\ WF_vars(ApplyRestart) /\ WF_vars(ApplyEnd)
  /\ WF_vars(StartPressed) /\ WF_vars(StopPressed)

FairSpec == Spec /\ Fairness

-----------------------------------------------------------------------------
(* Properties                                                               *)

Steps == {"idle", "held", "put", "write", "commit", "done", "failed"}

\* Every variable keeps its shape: whatever the routes are sent, memory and the
\* rows hold only values of their setting (coerce_runtime_setting_value).
TypeOK ==
  /\ mem \in [Keys -> {"on", "off"}] /\ db \in [Keys -> {"on", "off", none}]
  /\ writer \in Callers \cup {none}
  /\ calls \in [Callers -> [pc : Steps, new : Updates, done : SUBSET Keys]]
  /\ tainted \subseteq Keys
  /\ stage \in {"idle", "stop", "drain", "update", "report"}
  /\ idleSeen \subseteq drained /\ drained \subseteq Drains
  /\ jobs \subseteq {"trading", "news"}
  /\ {poll, cycle} \subseteq {none, "job", "task"}
  /\ bus \in {none, "market", "snapshot", "news", "selling"}
  /\ asked \in 0..MaxRequests

\* Once the drain has seen the agent idle, no trading cycle and no analysis of a
\* market event runs until the reconfiguration ends, so neither of them trips
\* the kill switch while apply_settings writes (run_cycle, _on_market_event).
QuietWhileApplied ==
  "agent" \in idleSeen =>
     /\ cycle = none /\ bus # "market"
     /\ calls["cycle"].pc = "idle"

\* When nobody is writing a setting, memory has the value a restart would load,
\* except for a setting whose update was rolled back or overlapped another of
\* the same setting, and only until it is updated alone.
InFlight(k) == \E c \in Callers : k \in KeysOf(c)

MemoryMatchesRows ==
  \A k \in Keys \ tainted : ~InFlight(k) => mem[k] = apply_persisted_settings[k]

\* The settings are sound: memory and rows hold only values of their setting,
\* and differ only after a rollback or an overlap (runtime_settings_service.py).
SettingsSound == TypeOK /\ MemoryMatchesRows

\* The code: settings are applied once the work in flight has ended.
AppliedAfterWork ==
  stage = "update" /\ calls["apply"].pc \in {"put", "write"} =>
    cycle = none /\ bus \notin {"market", "news"}

\* A reconfiguration ends, whatever keeps the agent busy and whichever write of
\* its settings fails (the finally of apply_settings), and SQLite's write lock
\* is given back.
ReconfigurationEnds ==
  /\ reconfiguring ~> ~reconfiguring
  /\ \A c \in Callers : writer = c ~> writer # c

=============================================================================
