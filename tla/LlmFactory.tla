------------------------------ MODULE LlmFactory ------------------------------
(***************************************************************************)
(* LLMFactory.generate and the three providers behind it.                  *)
(*                                                                         *)
(* A call waits for its tier's semaphore, then takes up the providers of   *)
(* its selection, which is read again from the settings before each one.   *)
(* Codex has a semaphore of its own and cools down after a failure; Claude *)
(* Code shares one conversation session among all calls, behind a lock.    *)
(* Settings may change and reset_runtime_state replace providers and       *)
(* semaphores while calls are under way.  Runs of a CLI are external.      *)
(*                                                                         *)
(* One event loop: a step is the code between two awaits.                  *)
(***************************************************************************)
EXTENDS Naturals, Sequences, FiniteSets

CONSTANTS
  Calls,        \* calls of generate, each made at most once
  Kind,         \* which selection a call uses: tier1, tier2, news or manual
  Settings,     \* settings of the LLM: a selection per kind, a limit per tier
  FirstSettings,\* those the process starts with
  MaxChanges,   \* bound: changes of the settings and resets of the runtime
  MaxSessions   \* bound: sessions that are started

Providers == {"CLAUDE_CODE", "CODEX", "OLLAMA"}
Tiers     == {"tier1", "tier2"}
Kinds     == Tiers \cup {"news", "manual"}
none      == "none"
NoSession == 0

\* The tier whose semaphore and provider objects a call uses.
TierOf(c) == IF Kind[c] = "tier2" THEN "tier2" ELSE "tier1"

\* A selection names a primary provider ("AUTOMATIC": that of tier 1), a
\* fallback provider or none, and which of the two has a model of its own.
Selections == [primary : Providers \cup {"AUTOMATIC"}, fallback : Providers \cup {none},
               models : SUBSET {"primary", "fallback"}]

ASSUME LlmAssumption ==
  /\ Kind \in [Calls -> Kinds] /\ none \notin Calls
  /\ \A s \in Settings :
       /\ \A k \in Kinds : s[k] \in Selections
       /\ \A t \in Tiers : s[t].primary # "AUTOMATIC" /\ s.limit[t] \in Nat
  /\ FirstSettings \in Settings
  /\ MaxChanges \in Nat /\ MaxSessions \in Nat

VARIABLES
  conf,      \* the settings in force
  sems,      \* the tier semaphores: generation and limit, limit 0 when cleared
  epoch,     \* generation of the provider objects and of Codex's semaphore
  call,      \* the state of each call
  cooling,   \* Codex provider objects that are disabled after a failure
  active,    \* _active_session_id
  initialized, \* _session_initialized
  lock,      \* the call that holds Claude's session lock
  orphans,   \* sessions of Claude processes nobody waits for any more
  created,   \* sessions a Claude process was started with
  sessions,  \* how many sessions were started
  cycle,     \* the trading cycle: none, scan, analysis (its session paused), report
  cycleSid,  \* the session the cycle paused
  paused,    \* the session the news translation paused
  changes    \* how often the settings changed

sessionVars == <<active, initialized, sessions, cycle, cycleSid, paused>>
confVars    == <<conf, sems, epoch, changes>>
vars        == <<confVars, call, cooling, lock, orphans, created, sessionVars>>

NoCall == [pc |-> "idle", sem |-> 0, limit |-> 0, tried |-> {}, provider |-> none,
           obj |-> <<>>, epoch |-> 0, runs |-> 0, sid |-> NoSession, resumes |-> FALSE]

-----------------------------------------------------------------------------
(* selection_policy and _provider_chain                                     *)

Resolve(k) ==
  LET s == conf[k]
  IN  IF s.primary # "AUTOMATIC" THEN s
      ELSE [primary  |-> conf["tier1"].primary,
            fallback |-> IF s.fallback = none THEN conf["tier1"].fallback ELSE s.fallback,
            models   |-> s.models]

\* The providers of a call in the order they are tried.
Chain(k) ==
  LET s == Resolve(k)
  IN  IF s.fallback \in {none, s.primary} THEN <<s.primary>> ELSE <<s.primary, s.fallback>>

Selected(c) == {Chain(Kind[c])[i] : i \in 1..Len(Chain(Kind[c]))}

\* A model of its own, or the fallback model of the tier, makes a provider
\* object for this call alone; otherwise the tier's shared object is used.
Object(c, i) ==
  IF (IF i = 1 THEN "primary" ELSE "fallback") \in Resolve(Kind[c]).models
    THEN <<c>> ELSE <<TierOf(c), epoch>>

\* Mutation: only the provider tried last is skipped.
UntriedButLast(c) ==
  {i \in 1..Len(Chain(Kind[c])) : Chain(Kind[c])[i] # call[c].provider}

\* The places in the chain of the providers the call has not taken up yet.
Untried(c) ==
  {i \in 1..Len(Chain(Kind[c])) : Chain(Kind[c])[i] \notin call[c].tried}

\* A call that is over holds nothing.
Over(c, pc) == [NoCall EXCEPT !.pc = pc, !.tried = call[c].tried, !.runs = call[c].runs]

\* The top of generate's loop: the first provider not taken up, or failure.
\* The provider object is chosen here, before Codex's semaphore is waited for.
TakenUp(c) ==
  IF Untried(c) = {} THEN Over(c, "failed")
  ELSE LET i == CHOOSE j \in Untried(c) : \A k \in Untried(c) : j <= k
           p == Chain(Kind[c])[i]
       IN  [pc |-> IF p = "CODEX" THEN "wait" ELSE "check",
            sem |-> call[c].sem, limit |-> call[c].limit,
            tried |-> call[c].tried \cup {p}, provider |-> p, obj |-> Object(c, i),
            epoch |-> epoch, runs |-> 0, sid |-> NoSession, resumes |-> FALSE]

-----------------------------------------------------------------------------
(* Semaphores                                                               *)

Limit(t) == IF conf.limit[t] = 0 THEN 1 ELSE conf.limit[t]

\* Asks for its tier's semaphore, which is made anew when the limit changed.
Ask(c) ==
  /\ call[c].pc = "idle"
  /\ LET t   == TierOf(c)
         old == sems[t]
         now == IF old.limit = Limit(t) THEN old ELSE [gen |-> old.gen + 1, limit |-> Limit(t)]
     IN  /\ sems' = [sems EXCEPT ![t] = now]
         /\ call' = [call EXCEPT ![c] = [NoCall EXCEPT !.pc = "tier", !.sem = now.gen,
                                                       !.limit = now.limit]]
  /\ UNCHANGED <<conf, epoch, changes, cooling, lock, orphans, created, sessionVars>>

Admitted == {c \in Calls : call[c].pc \in {"wait", "check", "lock", "run", "sleep"}}

\* Mutation: Codex's semaphore is not given back.
CodexHoldersLeaking(c) ==
  {d \in Calls \ {c} : "CODEX" \in call[d].tried /\ call[d].pc # "wait"}

TierHolders(c)  == {d \in Admitted : TierOf(d) = TierOf(c) /\ call[d].sem = call[c].sem}
CodexHolders(c) == {d \in Admitted \ {c} : /\ call[d].provider = "CODEX"
                                           /\ call[d].pc # "wait"
                                           /\ call[d].epoch = call[c].epoch}

EnterTier(c) ==
  /\ call[c].pc = "tier"
  /\ Cardinality(TierHolders(c)) < call[c].limit
  /\ call' = [call EXCEPT ![c] = TakenUp(c)]
  /\ UNCHANGED <<confVars, cooling, lock, orphans, created, sessionVars>>

\* Mutation: Codex's semaphore is not waited for.
EnterCodexAtOnce(c) ==
  /\ call[c].pc = "wait"
  /\ call' = [call EXCEPT ![c].pc = "check"]
  /\ UNCHANGED <<confVars, cooling, lock, orphans, created, sessionVars>>

EnterCodex(c) ==
  /\ call[c].pc = "wait"
  /\ CodexHolders(c) = {}
  /\ call' = [call EXCEPT ![c].pc = "check"]
  /\ UNCHANGED <<confVars, cooling, lock, orphans, created, sessionVars>>

-----------------------------------------------------------------------------
(* Providers                                                                *)

\* is_available: Claude's CLI is installed, Ollama may or may not answer.
Available(c)   == call[c].provider = "CODEX" => call[c].obj \notin cooling
Unavailable(c) == \/ call[c].provider = "CODEX" /\ call[c].obj \in cooling
                  \/ call[c].provider = "OLLAMA"

\* Claude builds its command from the session before it waits for the lock.
Started(r) ==
  IF r.provider = "CLAUDE_CODE" /\ active # NoSession
    THEN [r EXCEPT !.pc = "lock", !.sid = active, !.resumes = initialized]
    ELSE [r EXCEPT !.pc = "run", !.runs = @ + 1, !.sid = NoSession, !.resumes = FALSE]

Check(c) ==
  /\ call[c].pc = "check"
  /\ \/ Available(c) /\ call' = [call EXCEPT ![c] = Started(@)]
     \/ Unavailable(c) /\ call' = [call EXCEPT ![c] = TakenUp(c)]
  /\ UNCHANGED <<confVars, cooling, lock, orphans, created, sessionVars>>

\* Mutation: the session's lock is not waited for.
LockAtOnce(c) ==
  /\ call[c].pc = "lock"
  /\ lock' = c
  /\ call' = [call EXCEPT ![c].pc = "run", ![c].runs = @ + 1]
  /\ created' = IF call[c].resumes THEN created ELSE created \cup {call[c].sid}
  /\ UNCHANGED <<confVars, cooling, orphans, sessionVars>>

Lock(c) ==
  /\ call[c].pc = "lock" /\ lock = none
  /\ lock' = c
  /\ call' = [call EXCEPT ![c].pc = "run", ![c].runs = @ + 1]
  /\ created' = IF call[c].resumes THEN created ELSE created \cup {call[c].sid}
  /\ UNCHANGED <<confVars, cooling, orphans, sessionVars>>

Unlocked(c) == IF lock = c THEN none ELSE lock

\* A session call that succeeds marks whatever session is active by now.
Answer(c) ==
  /\ call[c].pc = "run"
  /\ call' = [call EXCEPT ![c] = Over(c, "done")]
  /\ lock' = Unlocked(c)
  /\ initialized' = (initialized \/ call[c].sid # NoSession)
  /\ cooling' = cooling \ {call[c].obj}
  /\ UNCHANGED <<confVars, orphans, created, active, sessions, cycle, cycleSid, paused>>

\* After a failed run: once more if it was the first and the provider is still
\* available, else the next provider.  An object of its own goes with the call.
AfterFailure(c, cooled) ==
  \/ /\ call[c].runs = 1
     /\ call[c].provider = "CODEX" => call[c].obj \notin cooled
     /\ call' = [call EXCEPT ![c].pc = "sleep", ![c].sid = NoSession, ![c].resumes = FALSE]
  \/ /\ \/ call[c].runs = 2 \/ call[c].provider = "OLLAMA"
        \/ call[c].provider = "CODEX" /\ call[c].obj \in cooled
     /\ call' = [call EXCEPT ![c] = TakenUp(c)]

\* An exit code or an HTTP error, or an empty answer.  A failed Codex run cools
\* the object down, an empty answer does not.
RunFails(c) ==
  /\ call[c].pc = "run"
  /\ lock' = Unlocked(c)
  /\ \E cooled \in {cooling, cooling \cup {call[c].obj}} :
       /\ call[c].provider # "CODEX" => cooled = cooling
       /\ cooling' = cooled \ {<<c>>}
       /\ AfterFailure(c, cooled)
  /\ UNCHANGED <<confVars, orphans, created, sessionVars>>

\* The 300 s of Claude Code run out: its process is left running.  Codex is
\* terminated before its timeout is reported; its timeout is a RunFails.
RunTimesOut(c) ==
  /\ call[c].pc = "run" /\ call[c].provider = "CLAUDE_CODE"
  /\ lock' = Unlocked(c)
  /\ orphans' = orphans \cup ({call[c].sid} \ {NoSession})
  /\ AfterFailure(c, cooling)
  /\ UNCHANGED <<confVars, cooling, created, sessionVars>>

\* The two seconds are over: the same provider object is asked again.
Retry(c) ==
  /\ call[c].pc = "sleep"
  /\ call' = [call EXCEPT ![c] = Started(@)]
  /\ UNCHANGED <<confVars, cooling, lock, orphans, created, sessionVars>>

OrphanEnds(s) ==
  /\ s \in orphans
  /\ orphans' = orphans \ {s}
  /\ UNCHANGED <<confVars, call, cooling, lock, created, sessionVars>>

CooldownEnds(o) ==
  /\ o \in cooling
  /\ cooling' = cooling \ {o}
  /\ UNCHANGED <<confVars, call, lock, orphans, created, sessionVars>>

-----------------------------------------------------------------------------
(* Settings                                                                 *)

ChangeSettings(s) ==
  /\ changes + epoch < MaxChanges
  /\ conf' = s /\ changes' = changes + 1
  /\ UNCHANGED <<sems, epoch, call, cooling, lock, orphans, created, sessionVars>>

uses_claude == \E t \in Tiers : \E i \in 1..Len(Chain(t)) : Chain(t)[i] = "CLAUDE_CODE"

\* reset_runtime_state: the session ends, objects and semaphores are dropped;
\* calls that hold or wait for the old ones go on with them.
Reset ==
  /\ changes + epoch < MaxChanges
  /\ epoch' = epoch + 1
  /\ sems' = [t \in Tiers |-> [sems[t] EXCEPT !.limit = 0]]
  /\ IF uses_claude THEN active' = NoSession /\ initialized' = FALSE
     ELSE UNCHANGED <<active, initialized>>
  /\ UNCHANGED <<conf, changes, call, cooling, lock, orphans, created, sessions, cycle, cycleSid, paused>>

-----------------------------------------------------------------------------
(* Sessions: one variable, moved by the trading cycle and the translation.  *)

StartCycle ==
  /\ cycle = none /\ sessions < MaxSessions
  /\ cycle' = "scan"
  /\ IF uses_claude THEN sessions' = sessions + 1 /\ active' = sessions' /\ initialized' = FALSE
     ELSE UNCHANGED <<sessions, active, initialized>>
  /\ UNCHANGED <<confVars, call, cooling, lock, orphans, created, cycleSid, paused>>

PauseCycle ==
  /\ cycle = "scan"
  /\ cycle' = "analysis"
  /\ IF uses_claude THEN cycleSid' = active /\ active' = NoSession
     ELSE cycleSid' = NoSession /\ UNCHANGED active
  /\ UNCHANGED <<confVars, call, cooling, lock, orphans, created, initialized, sessions, paused>>

\* resume_session takes every session it is given for one the CLI has created.
Resume(sid) ==
  IF sid # NoSession /\ uses_claude THEN active' = sid /\ initialized' = TRUE
  ELSE UNCHANGED <<active, initialized>>

ResumeCycle ==
  /\ cycle = "analysis"
  /\ cycle' = "report"
  /\ Resume(cycleSid)
  /\ cycleSid' = NoSession
  /\ UNCHANGED <<confVars, call, cooling, lock, orphans, created, sessions, paused>>

EndSession ==
  IF uses_claude THEN active' = NoSession /\ initialized' = FALSE
  ELSE UNCHANGED <<active, initialized>>

\* A cycle that completes or is caught by its handler ends the session that is
\* active; an early return, or an error outside the handler, does not.
EndCycle ==
  /\ cycle # none
  /\ cycle' = none /\ cycleSid' = NoSession
  /\ \/ EndSession
     \/ cycle = "scan" /\ UNCHANGED <<active, initialized>>
  /\ UNCHANGED <<confVars, call, cooling, lock, orphans, created, sessions, paused>>

PauseTranslation ==
  /\ paused = NoSession /\ active # NoSession
  /\ Chain("news")[1] = "CLAUDE_CODE" /\ uses_claude
  /\ paused' = active /\ active' = NoSession
  /\ UNCHANGED <<confVars, call, cooling, lock, orphans, created, initialized, sessions, cycle, cycleSid>>

ResumeTranslation ==
  /\ paused # NoSession
  /\ Resume(paused)
  /\ paused' = NoSession
  /\ UNCHANGED <<confVars, call, cooling, lock, orphans, created, sessions, cycle, cycleSid>>

-----------------------------------------------------------------------------
Init ==
  /\ conf = FirstSettings
  /\ sems = [t \in Tiers |-> [gen |-> 0, limit |-> 0]] /\ epoch = 0 /\ changes = 0
  /\ call = [c \in Calls |-> NoCall]
  /\ cooling = {} /\ lock = none /\ orphans = {} /\ created = {}
  /\ active = NoSession /\ initialized = FALSE /\ sessions = 0
  /\ cycle = none /\ cycleSid = NoSession /\ paused = NoSession

RunEnds(c) == Answer(c) \/ RunFails(c) \/ RunTimesOut(c)
Proceed(c) == EnterTier(c) \/ EnterCodex(c) \/ Check(c) \/ Lock(c) \/ RunEnds(c) \/ Retry(c)

Next ==
  \/ \E c \in Calls : Ask(c) \/ Proceed(c)
  \/ \E s \in orphans : OrphanEnds(s)
  \/ \E o \in cooling : CooldownEnds(o)
  \/ \E s \in Settings : ChangeSettings(s)
  \/ Reset
  \/ StartCycle \/ PauseCycle \/ ResumeCycle \/ EndCycle
  \/ PauseTranslation \/ ResumeTranslation

Spec == Init /\ [][Next]_vars

\* Every run ends, by its answer, its error or its timeout, and the loop
\* resumes every call whose await is over.
FairSpec == Spec /\ \A c \in Calls : WF_vars(Proceed(c))

-----------------------------------------------------------------------------
(* Properties                                                               *)

Objects == {<<c>> : c \in Calls} \cup (Tiers \X (0..MaxChanges))
Sids    == 0..MaxSessions

\* Every variable keeps its shape; a call that runs Codex has taken it up from
\* its selection, and no call runs a provider a third time (LLMFactory.generate).
TypeOK ==
  /\ conf \in Settings /\ epoch \in 0..MaxChanges /\ changes \in 0..MaxChanges
  /\ \A t \in Tiers : sems[t].gen \in Nat /\ sems[t].limit \in Nat
  /\ \A c \in Calls :
       /\ call[c].pc \in {"idle", "tier", "wait", "check", "lock", "run", "sleep", "done", "failed"}
       /\ call[c].runs \in 0..2 /\ call[c].tried \subseteq Providers
       /\ call[c].pc \in {"wait", "check", "lock", "run", "sleep"} =>
            call[c].provider \in call[c].tried /\ call[c].obj \in Objects
       /\ call[c].sid \in Sids
  /\ cooling \subseteq Objects /\ lock \in Calls \cup {none}
  /\ orphans \subseteq Sids \ {0} /\ created \subseteq Sids \ {0}
  /\ {active, cycleSid, paused} \subseteq Sids /\ initialized \in BOOLEAN
  /\ sessions \in Sids /\ cycle \in {none, "scan", "analysis", "report"}

Runs(c, p) == call[c].pc \in {"run", "sleep"} /\ call[c].provider = p

\* Two calls run Codex at once, in whatever tiers, only when the LLM runtime was
\* reset between them (_provider_semaphore).
CodexSerial ==
  \A c, d \in Calls : c # d /\ Runs(c, "CODEX") /\ Runs(d, "CODEX") =>
                       call[c].epoch # call[d].epoch

\* No run of Codex starts on an object that is cooling down, although objects are
\* shared by calls that wait for the semaphore (CodexProvider.is_available).
CooldownKept ==
  [][\A c \in Calls :
       call[c].pc # "run" /\ call'[c].pc = "run" /\ call'[c].provider = "CODEX" =>
         call'[c].obj \notin cooling]_vars

\* Calls that wait for a Claude process never share a session, although sessions
\* are paused, resumed and replaced while they wait for the lock (_get_lock).
SessionExclusive ==
  \A c, d \in Calls : c # d /\ call[c].pc = "run" /\ call[d].pc = "run" /\ call[c].sid # NoSession =>
                       call[c].sid # call[d].sid

\* The code: one session is never used by two processes at a time.
SessionSerial ==
  \A c \in Calls : call[c].pc = "run" /\ call[c].sid # NoSession => call[c].sid \notin orphans

\* The code: a session that is resumed exists.
ResumedExists ==
  \A c \in Calls : call[c].pc = "run" /\ call[c].resumes => call[c].sid \in created

\* Every call returns: a failed provider, a reset, a change of the limits or a
\* cooldown never leaves a semaphore or the lock taken (the finally of generate).
GenerateReturns == \A c \in Calls : call[c].pc = "tier" ~> call[c].pc \in {"done", "failed"}

ResultOf(c) == CASE call[c].pc = "done" -> "answered"
                 [] call[c].pc = "failed" -> "failed"
                 [] OTHER -> "open"

\* generate implements the promise of Fallback.
Promise == INSTANCE Fallback WITH
  chain  <- [c \in Calls |-> Selected(c)],
  tried  <- [c \in Calls |-> call[c].tried],
  runs   <- [c \in Calls |-> call[c].runs],
  result <- [c \in Calls |-> ResultOf(c)]

\* Whatever the settings do meanwhile, a call takes up each provider once, runs
\* it at most twice, answers once, and fails only when the selection in force
\* has no provider left (the re-read chain and attempted_providers of generate).
RefinesFallback == Promise!Spec
=============================================================================
