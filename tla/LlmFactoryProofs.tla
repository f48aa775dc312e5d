--------------------------- MODULE LlmFactoryProofs ---------------------------
(***************************************************************************)
(* Theorems of LlmFactory for any number of calls, settings and resets:    *)
(* generate implements Fallback (GenerateRefinesFallback); Codex is serial *)
(* within a runtime, live Claude calls never share a session, and Codex is *)
(* not run on an object that is cooling down, all three from what a call   *)
(* knows of its object and semaphore at each of its steps (RuntimeInv).    *)
(***************************************************************************)
EXTENDS LlmFactory, TLAPS

Pcs == {"idle", "tier", "wait", "check", "lock", "run", "sleep", "done", "failed"}

AllObjects == {<<>>} \cup {<<c>> : c \in Calls} \cup (Tiers \X Nat)

CallRecords ==
  [pc : Pcs, sem : Nat, limit : Nat, tried : SUBSET Providers, provider : Providers \cup {none},
   obj : AllObjects, epoch : Nat, runs : 0..2,
   sid : Nat, resumes : BOOLEAN]

\* How often the provider in hand was run, by where the call stands.
Counted(r) ==
  /\ r.pc \in {"idle", "tier"} => r.tried = {} /\ r.runs = 0
  /\ r.pc \in {"wait", "check"} => r.tried # {} /\ r.runs = 0
  /\ r.pc = "lock"  => r.tried # {} /\ r.runs \in 0..1
  /\ r.pc = "sleep" => r.tried # {} /\ r.runs = 1
  /\ r.pc = "run"   => r.tried # {} /\ r.runs \in 1..2

LlmInv ==
  /\ conf \in Settings
  /\ sems \in [Tiers -> [gen : Nat, limit : Nat]]
  /\ epoch \in Nat /\ active \in Nat /\ cycleSid \in Nat /\ paused \in Nat /\ sessions \in Nat
  /\ initialized \in BOOLEAN
  /\ call \in [Calls -> CallRecords]
  /\ \A c \in Calls : Counted(call[c])

\* A selection names one or two providers (selection_policy).
LEMMA ChainShape ==
  ASSUME conf \in Settings, NEW k \in Kinds
  PROVE  /\ Len(Chain(k)) \in 1..2
         /\ \A i \in 1..Len(Chain(k)) : Chain(k)[i] \in Providers
<1>1. conf[k] \in Selections /\ conf["tier1"] \in Selections /\ conf["tier1"].primary # "AUTOMATIC"
  BY LlmAssumption DEF Kinds, Tiers
<1>2. Resolve(k).primary \in Providers /\ Resolve(k).fallback \in Providers \cup {none}
  BY <1>1 DEF Resolve, Selections
<1>3. CASE Resolve(k).fallback \in {none, Resolve(k).primary}
  BY <1>2, <1>3 DEF Chain
<1>4. CASE Resolve(k).fallback \notin {none, Resolve(k).primary}
  BY <1>2, <1>4 DEF Chain
<1>5. QED BY <1>3, <1>4

LEMMA SelectedProviders ==
  ASSUME conf \in Settings, NEW c \in Calls
  PROVE  Selected(c) \subseteq Providers
BY ChainShape, LlmAssumption DEF Selected

\* The provider taken up is a selected one not tried before; a call fails when
\* there is none.
LEMMA TakenUpShape ==
  ASSUME LlmInv, NEW c \in Calls
  PROVE  \/ Selected(c) \subseteq call[c].tried /\ TakenUp(c) = Over(c, "failed")
         \/ \E p \in Selected(c) \ call[c].tried :
              /\ TakenUp(c).tried = call[c].tried \cup {p}
              /\ TakenUp(c).runs = 0 /\ TakenUp(c).pc \in {"wait", "check"}
              /\ TakenUp(c) \in CallRecords
<1> DEFINE ch == Chain(Kind[c])
<1>1. Kind[c] \in Kinds
  BY LlmAssumption
<1>2. Len(ch) \in 1..2 /\ \A i \in 1..Len(ch) : ch[i] \in Providers
  BY <1>1, ChainShape DEF LlmInv
<1>3. CASE Untried(c) = {}
  BY <1>3 DEF TakenUp, Untried, Selected
<1>4. CASE Untried(c) # {}
  <2>1. Untried(c) \subseteq 1..2
    BY <1>2 DEF Untried
  <2>2. \E j \in Untried(c) : \A k \in Untried(c) : j <= k
    <3>1. CASE 1 \in Untried(c)
      BY <3>1, <2>1
    <3>2. CASE 1 \notin Untried(c)
      BY <3>2, <2>1, <1>4
    <3>3. QED BY <3>1, <3>2
  <2> DEFINE i == CHOOSE j \in Untried(c) : \A k \in Untried(c) : j <= k
             p == ch[i]
  <2>3. i \in Untried(c)
    BY <2>2
  <2>4. p \in Selected(c) \ call[c].tried /\ p \in Providers
    BY <2>3, <1>2 DEF Untried, Selected
  <2>5. Object(c, i) \in AllObjects
    BY DEF Object, TierOf, Tiers, LlmInv, AllObjects
  <2>6. TakenUp(c) = [pc |-> IF p = "CODEX" THEN "wait" ELSE "check",
                      sem |-> call[c].sem, limit |-> call[c].limit,
                      tried |-> call[c].tried \cup {p}, provider |-> p, obj |-> Object(c, i),
                      epoch |-> epoch, runs |-> 0, sid |-> NoSession, resumes |-> FALSE]
    BY <1>4 DEF TakenUp
  <2> HIDE DEF i, p
  <2>7. call[c] \in CallRecords /\ epoch \in Nat
    BY DEF LlmInv
  <2>8. /\ TakenUp(c).tried = call[c].tried \cup {p}
        /\ TakenUp(c).runs = 0 /\ TakenUp(c).pc \in {"wait", "check"}
    BY <2>6, <2>7 DEF CallRecords
  <2>9. TakenUp(c) \in CallRecords
    <3>1. call[c].tried \cup {p} \in SUBSET Providers /\ p \in Providers \cup {none}
      BY <2>4, <2>7 DEF CallRecords
    <3>2. QED BY <3>1, <2>5, <2>6, <2>7 DEF CallRecords, Pcs, NoSession
  <2>10. QED BY <2>4, <2>8, <2>9
<1>5. QED BY <1>3, <1>4

LEMMA TakenUpTyped ==
  ASSUME LlmInv, NEW c \in Calls
  PROVE  TakenUp(c) \in CallRecords /\ Counted(TakenUp(c))
<1>1. call[c] \in CallRecords
  BY DEF LlmInv
<1>2. Over(c, "failed") \in CallRecords /\ Counted(Over(c, "failed"))
  BY <1>1 DEF Over, NoCall, CallRecords, AllObjects, Counted, Pcs, NoSession
<1>3. CASE TakenUp(c) = Over(c, "failed")
  BY <1>2, <1>3
<1>4. CASE \E p \in Selected(c) \ call[c].tried :
              /\ TakenUp(c).tried = call[c].tried \cup {p}
              /\ TakenUp(c).runs = 0 /\ TakenUp(c).pc \in {"wait", "check"}
              /\ TakenUp(c) \in CallRecords
  BY <1>4 DEF Counted
<1>5. QED BY <1>3, <1>4, TakenUpShape

\* Changing one call to a record that is counted keeps the invariant's last part.
LEMMA OneCall ==
  ASSUME LlmInv, NEW c \in Calls, NEW r \in CallRecords, Counted(r),
         call' = [call EXCEPT ![c] = r]
  PROVE  call' \in [Calls -> CallRecords] /\ \A d \in Calls : Counted(call'[d])
BY DEF LlmInv

LEMMA StartedTyped ==
  ASSUME LlmInv, NEW r \in CallRecords, r.tried # {}, r.runs \in 0..1
  PROVE  Started(r) \in CallRecords /\ Counted(Started(r))
<1>1. CASE r.provider = "CLAUDE_CODE" /\ active # NoSession
  <2>1. Started(r) = [r EXCEPT !.pc = "lock", !.sid = active, !.resumes = initialized]
    BY <1>1 DEF Started
  <2>2. active \in Nat /\ initialized \in BOOLEAN /\ "lock" \in Pcs
    BY DEF LlmInv, Pcs
  <2>3. QED BY <2>1, <2>2 DEF CallRecords, Counted
<1>2. CASE ~(r.provider = "CLAUDE_CODE" /\ active # NoSession)
  <2> DEFINE n == r.runs + 1
  <2>1. Started(r) = [pc |-> "run", sem |-> r.sem, limit |-> r.limit, tried |-> r.tried,
                      provider |-> r.provider, obj |-> r.obj, epoch |-> r.epoch,
                      runs |-> n, sid |-> 0, resumes |-> FALSE]
    BY <1>2 DEF Started, CallRecords, NoSession
  <2>2. n \in 1..2 /\ n \in 0..2 /\ "run" \in Pcs
    BY DEF Pcs
  <2> HIDE DEF n
  <2>3. QED BY <2>1, <2>2 DEF CallRecords, Counted
<1>3. QED BY <1>1, <1>2

LEMMA AfterFailureTyped ==
  ASSUME LlmInv, NEW c \in Calls, NEW cooled, call[c].pc = "run", AfterFailure(c, cooled)
  PROVE  call' \in [Calls -> CallRecords] /\ \A d \in Calls : Counted(call'[d])
<1>1. call[c] \in CallRecords /\ Counted(call[c])
  BY DEF LlmInv
<1>2. CASE call[c].runs = 1 /\ call' = [call EXCEPT ![c].pc = "sleep", ![c].sid = NoSession, ![c].resumes = FALSE]
  <2> DEFINE r == [call[c] EXCEPT !.pc = "sleep", !.sid = NoSession, !.resumes = FALSE]
  <2>1. r \in CallRecords /\ Counted(r)
    BY <1>1, <1>2 DEF CallRecords, Counted, Pcs, NoSession
  <2>2. call' = [call EXCEPT ![c] = r]
    BY <1>2 DEF LlmInv
  <2>3. QED BY <2>1, <2>2, OneCall
<1>3. CASE call' = [call EXCEPT ![c] = TakenUp(c)]
  BY <1>3, TakenUpTyped, OneCall
<1>4. QED BY <1>2, <1>3 DEF AfterFailure

\* What a step of a call does to the calls.
LEMMA ProceedTyped ==
  ASSUME LlmInv, NEW c \in Calls, Ask(c) \/ Proceed(c)
  PROVE  call' \in [Calls -> CallRecords] /\ \A d \in Calls : Counted(call'[d])
<1>1. call[c] \in CallRecords /\ Counted(call[c])
  BY DEF LlmInv
<1>2. CASE Ask(c)
  <2> DEFINE now == IF sems[TierOf(c)].limit = Limit(TierOf(c)) THEN sems[TierOf(c)]
                    ELSE [gen |-> sems[TierOf(c)].gen + 1, limit |-> Limit(TierOf(c))]
             r == [NoCall EXCEPT !.pc = "tier", !.sem = now.gen, !.limit = now.limit]
  <2>1. TierOf(c) \in Tiers
    BY DEF TierOf, Tiers
  <2>2. Limit(TierOf(c)) \in Nat
    BY <2>1, LlmAssumption DEF Limit, LlmInv
  <2>3. now.gen \in Nat /\ now.limit \in Nat
    BY <2>1, <2>2 DEF LlmInv
  <2>4. call' = [call EXCEPT ![c] = r]
    BY <1>2 DEF Ask
  <2> HIDE DEF now
  <2>5. r \in CallRecords /\ Counted(r)
    <3>1. NoCall \in CallRecords /\ NoCall.tried = {} /\ NoCall.runs = 0
      BY DEF NoCall, CallRecords, AllObjects, Pcs, NoSession
    <3>2. QED BY <3>1, <2>3 DEF CallRecords, Counted, Pcs
  <2>6. QED BY <2>4, <2>5, OneCall
<1>3. CASE EnterTier(c) \/ (Check(c) /\ call' = [call EXCEPT ![c] = TakenUp(c)])
  BY <1>3, TakenUpTyped, OneCall DEF EnterTier
<1>4. CASE EnterCodex(c)
  <2> DEFINE r == [call[c] EXCEPT !.pc = "check"]
  <2>1. r \in CallRecords /\ Counted(r)
    BY <1>1, <1>4 DEF EnterCodex, CallRecords, Counted, Pcs
  <2>2. call' = [call EXCEPT ![c] = r]
    BY <1>4 DEF EnterCodex
  <2>3. QED BY <2>1, <2>2, OneCall
<1>5. CASE (Check(c) \/ Retry(c)) /\ call' = [call EXCEPT ![c] = Started(@)]
  <2>1. call[c].tried # {} /\ call[c].runs \in 0..1
    BY <1>1, <1>5 DEF Check, Retry, Counted
  <2>2. call' = [call EXCEPT ![c] = Started(call[c])]
    BY <1>5 DEF LlmInv
  <2>3. QED BY <1>1, <2>1, <2>2, StartedTyped, OneCall
<1>6. CASE Lock(c)
  <2> DEFINE n == call[c].runs + 1
             r == [call[c] EXCEPT !.pc = "run", !.runs = n]
  <2>1. n \in 0..2 /\ n \in 1..2 /\ call[c].tried # {}
    BY <1>1, <1>6 DEF Lock, Counted
  <2>2. call' = [call EXCEPT ![c] = r]
    BY <1>1, <1>6 DEF Lock, LlmInv, CallRecords
  <2> HIDE DEF n
  <2>3. r \in CallRecords /\ Counted(r)
    BY <1>1, <2>1 DEF CallRecords, Counted, Pcs
  <2>4. QED BY <2>2, <2>3, OneCall
<1>7. CASE Answer(c)
  <2>1. Over(c, "done") \in CallRecords /\ Counted(Over(c, "done"))
    BY <1>1 DEF Over, NoCall, CallRecords, AllObjects, Counted, Pcs, NoSession
  <2>2. QED BY <1>7, <2>1, OneCall DEF Answer
<1>8. CASE RunFails(c) \/ RunTimesOut(c)
  BY <1>8, AfterFailureTyped DEF RunFails, RunTimesOut
<1>9. Check(c) => \/ call' = [call EXCEPT ![c] = TakenUp(c)]
                  \/ call' = [call EXCEPT ![c] = Started(@)]
  BY DEF Check
<1>10. Retry(c) => call' = [call EXCEPT ![c] = Started(@)]
  BY DEF Retry
<1>11. QED
  BY <1>2, <1>3, <1>4, <1>5, <1>6, <1>7, <1>8, <1>9, <1>10 DEF Proceed, RunEnds

LEMMA InvInit == Init => LlmInv
<1>1. NoCall \in CallRecords /\ Counted(NoCall)
  BY DEF NoCall, CallRecords, AllObjects, Counted, Pcs, NoSession
<1>2. [gen |-> 0, limit |-> 0] \in [gen : Nat, limit : Nat]
  OBVIOUS
<1>3. SUFFICES ASSUME Init PROVE LlmInv
  OBVIOUS
<1>4. sems \in [Tiers -> [gen : Nat, limit : Nat]]
  BY <1>2, <1>3 DEF Init
<1>5. /\ call \in [Calls -> CallRecords]
      /\ \A c \in Calls : Counted(call[c])
  BY <1>1, <1>3 DEF Init
<1>6. QED BY <1>3, <1>4, <1>5, LlmAssumption DEF Init, LlmInv, NoSession

LEMMA InvStep == LlmInv /\ [Next]_vars => LlmInv'
<1> SUFFICES ASSUME LlmInv, [Next]_vars PROVE LlmInv'
  OBVIOUS
<1> USE DEF NoSession
<1>1. ASSUME NEW c \in Calls, Ask(c) PROVE LlmInv'
  <2>1. TierOf(c) \in Tiers
    BY DEF TierOf, Tiers
  <2>2. Limit(TierOf(c)) \in Nat
    BY <2>1, LlmAssumption DEF Limit, LlmInv
  <2>3. sems' \in [Tiers -> [gen : Nat, limit : Nat]]
    <3> DEFINE now == IF sems[TierOf(c)].limit = Limit(TierOf(c)) THEN sems[TierOf(c)]
                      ELSE [gen |-> sems[TierOf(c)].gen + 1, limit |-> Limit(TierOf(c))]
    <3>1. now \in [gen : Nat, limit : Nat]
      BY <2>1, <2>2 DEF LlmInv
    <3>2. sems' = [sems EXCEPT ![TierOf(c)] = now]
      BY <1>1 DEF Ask
    <3> HIDE DEF now
    <3>3. QED BY <2>1, <3>1, <3>2 DEF LlmInv
  <2>4. QED BY <1>1, <2>3, ProceedTyped DEF Ask, LlmInv, sessionVars
<1>2. ASSUME NEW c \in Calls, Proceed(c) PROVE LlmInv'
  <2>1. UNCHANGED <<conf, sems, epoch, active, cycleSid, paused, sessions>> /\ initialized' \in BOOLEAN
    BY <1>2 DEF Proceed, RunEnds, EnterTier, EnterCodex, Check, Lock, Answer, RunFails,
                RunTimesOut, Retry, confVars, sessionVars, LlmInv
  <2>2. QED BY <1>2, <2>1, ProceedTyped DEF LlmInv
<1>3. ASSUME \/ \E s \in orphans : OrphanEnds(s)
             \/ \E o \in cooling : CooldownEnds(o)
             \/ UNCHANGED vars
      PROVE  LlmInv'
  BY <1>3 DEF OrphanEnds, CooldownEnds, LlmInv, vars, confVars, sessionVars
<1>4. ASSUME NEW s \in Settings, ChangeSettings(s) PROVE LlmInv'
  BY <1>4 DEF ChangeSettings, LlmInv, sessionVars
<1>5. CASE Reset
  <2>1. sems' \in [Tiers -> [gen : Nat, limit : Nat]]
    BY <1>5 DEF Reset, LlmInv
  <2>2. epoch' \in Nat /\ active' \in Nat /\ initialized' \in BOOLEAN
    <3>1. epoch' \in Nat
      BY <1>5 DEF Reset, LlmInv
    <3>2. CASE uses_claude
      <4>1. active' = 0 /\ initialized' = FALSE
        BY <1>5, <3>2 DEF Reset
      <4>2. QED BY <3>1, <4>1
    <3>3. CASE ~uses_claude
      <4>1. active' = active /\ initialized' = initialized
        BY <1>5, <3>3 DEF Reset
      <4>2. QED BY <3>1, <4>1 DEF LlmInv
    <3>4. QED BY <3>2, <3>3
  <2>3. UNCHANGED <<conf, call, sessions, cycleSid, paused>>
    BY <1>5 DEF Reset
  <2>4. QED BY <2>1, <2>2, <2>3 DEF LlmInv
<1>6. CASE StartCycle \/ PauseCycle \/ ResumeCycle \/ EndCycle \/ PauseTranslation \/ ResumeTranslation
  <2>1. UNCHANGED <<conf, sems, epoch, call>>
    BY <1>6 DEF StartCycle, PauseCycle, ResumeCycle, EndCycle, PauseTranslation,
                ResumeTranslation, confVars
  <2>2. initialized' \in BOOLEAN
    BY <1>6 DEF StartCycle, PauseCycle, ResumeCycle, EndCycle, EndSession, PauseTranslation,
                ResumeTranslation, Resume, LlmInv
  <2>3. active' \in Nat /\ cycleSid' \in Nat /\ paused' \in Nat /\ sessions' \in Nat
    BY <1>6 DEF StartCycle, PauseCycle, ResumeCycle, EndCycle, EndSession, PauseTranslation,
                ResumeTranslation, Resume, LlmInv
  <2>4. QED BY <2>1, <2>2, <2>3 DEF LlmInv
<1>7. QED BY <1>1, <1>2, <1>3, <1>4, <1>5, <1>6 DEF Next

\* generate takes one step of Fallback, or none, with every step of its own.
LEMMA StepMaps ==
  ASSUME LlmInv, [Next]_vars
  PROVE  [Promise!Next]_(Promise!vars)
<1> DEFINE ch  == [c \in Calls |-> Selected(c)]
           tr  == [c \in Calls |-> call[c].tried]
           ru  == [c \in Calls |-> call[c].runs]
           re  == [c \in Calls |-> ResultOf(c)]
<1>1. conf' = conf => \A c \in Calls : Selected(c)' = Selected(c)
  BY DEF Selected, Chain, Resolve
<1>2. call' = call => UNCHANGED <<tr, ru, re>>
  BY DEF ResultOf
<1>3. conf' = conf /\ call' = call => UNCHANGED Promise!vars
  BY <1>1, <1>2 DEF Promise!vars
<1>4. ASSUME NEW s \in Settings, ChangeSettings(s) PROVE Promise!Next
  <2>1. \A c \in Calls : Selected(c)' \subseteq Providers
    <3>1. conf' \in Settings
      BY <1>4 DEF ChangeSettings
    <3>2. \A k \in Kinds : Len(Chain(k)') \in 1..2 /\ \A i \in 1..Len(Chain(k)') : Chain(k)'[i] \in Providers
      <4> SUFFICES ASSUME NEW k \in Kinds
                   PROVE  Len(Chain(k)') \in 1..2 /\ \A i \in 1..Len(Chain(k)') : Chain(k)'[i] \in Providers
        OBVIOUS
      <4>1. conf'[k] \in Selections /\ conf'["tier1"] \in Selections /\ conf'["tier1"].primary # "AUTOMATIC"
        BY <3>1, LlmAssumption DEF Kinds, Tiers
      <4>2. Resolve(k)'.primary \in Providers /\ Resolve(k)'.fallback \in Providers \cup {none}
        BY <4>1 DEF Resolve, Selections
      <4>3. CASE Resolve(k)'.fallback \in {none, Resolve(k)'.primary}
        BY <4>2, <4>3 DEF Chain
      <4>4. CASE Resolve(k)'.fallback \notin {none, Resolve(k)'.primary}
        BY <4>2, <4>4 DEF Chain
      <4>5. QED BY <4>3, <4>4
    <3>3. QED BY <3>2, LlmAssumption DEF Selected
  <2>2. ch' \in [Calls -> SUBSET Providers]
    BY <2>1
  <2>3. call' = call
    BY <1>4 DEF ChangeSettings
  <2>4. QED BY <2>2, <2>3, <1>2 DEF Promise!Next, Promise!Select
<1>5. ASSUME NEW c \in Calls, conf' = conf, NEW r \in CallRecords, call' = [call EXCEPT ![c] = r],
             r.tried = call[c].tried, r.runs = call[c].runs,
             (r.pc \in {"done", "failed"} \/ call[c].pc \in {"done", "failed"}) => r.pc = call[c].pc
      PROVE  UNCHANGED Promise!vars
  <2>1. \A d \in Calls : /\ call'[d].tried = call[d].tried /\ call'[d].runs = call[d].runs
                          /\ ResultOf(d)' = ResultOf(d)
    BY <1>5 DEF LlmInv, ResultOf
  <2>2. QED BY <1>1, <1>5, <2>1 DEF Promise!vars
<1>6. ASSUME NEW c \in Calls, conf' = conf, NEW r \in CallRecords, call' = [call EXCEPT ![c] = r],
             r.tried = call[c].tried, r.runs = call[c].runs + 1, call[c].runs < 2, call[c].tried # {},
             r.pc = "run", call[c].pc \notin {"done", "failed"}
      PROVE  Promise!Run(c)
  <2>1. /\ tr' = tr /\ re' = re
        /\ ru' = [ru EXCEPT ![c] = @ + 1]
    BY <1>6 DEF LlmInv, ResultOf
  <2>2. ch' = ch
    BY <1>1, <1>6
  <2>3. re[c] = "open"
    BY <1>6 DEF ResultOf
  <2>4. QED BY <2>1, <2>2, <2>3, <1>6 DEF Promise!Run
<1>7. ASSUME NEW c \in Calls, conf' = conf, call[c].pc \notin {"done", "failed"},
             call' = [call EXCEPT ![c] = TakenUp(c)]
      PROVE  Promise!Next
  <2>1. ch' = ch /\ re[c] = "open"
    BY <1>1, <1>7 DEF ResultOf
  <2>2. CASE Selected(c) \subseteq call[c].tried /\ TakenUp(c) = Over(c, "failed")
    <3>1. /\ TakenUp(c).pc = "failed" /\ TakenUp(c).tried = call[c].tried
          /\ TakenUp(c).runs = call[c].runs
      BY <2>2 DEF Over, NoCall
    <3>2. tr' = tr /\ ru' = ru /\ re' = [re EXCEPT ![c] = "failed"]
      BY <1>7, <3>1 DEF LlmInv, ResultOf
    <3>3. QED BY <2>1, <2>2, <3>2 DEF Promise!Next, Promise!Fail
  <2>3. CASE \E p \in Selected(c) \ call[c].tried :
              /\ TakenUp(c).tried = call[c].tried \cup {p}
              /\ TakenUp(c).runs = 0 /\ TakenUp(c).pc \in {"wait", "check"}
              /\ TakenUp(c) \in CallRecords
    <3>1. PICK p \in Selected(c) \ call[c].tried :
              /\ TakenUp(c).tried = call[c].tried \cup {p}
              /\ TakenUp(c).runs = 0 /\ TakenUp(c).pc \in {"wait", "check"}
      BY <2>3
    <3>2. /\ tr' = [tr EXCEPT ![c] = @ \cup {p}] /\ ru' = [ru EXCEPT ![c] = 0]
          /\ re' = re
      BY <1>7, <3>1 DEF LlmInv, ResultOf
    <3>3. Promise!TakeUp(c, p)
      BY <2>1, <3>1, <3>2 DEF Promise!TakeUp
    <3>4. p \in Providers
      BY <3>1, SelectedProviders DEF LlmInv
    <3>5. QED BY <3>3, <3>4 DEF Promise!Next
  <2>4. QED BY <2>2, <2>3, TakenUpShape
<1>8. ASSUME NEW c \in Calls, Answer(c) PROVE Promise!Answer(c)
  <2>1. call[c] \in CallRecords /\ call[c].pc = "run" /\ call[c].runs \in 1..2 /\ conf' = conf
    BY <1>8 DEF LlmInv, Answer, Counted, confVars
  <2>2. Over(c, "done").pc = "done" /\ Over(c, "done").tried = call[c].tried /\ Over(c, "done").runs = call[c].runs
    BY DEF Over, NoCall
  <2>3. tr' = tr /\ ru' = ru /\ re' = [re EXCEPT ![c] = "answered"] /\ re[c] = "open"
    BY <1>8, <2>1, <2>2 DEF Answer, LlmInv, ResultOf
  <2>4. ch' = ch
    BY <1>1, <2>1
  <2>5. QED BY <2>1, <2>3, <2>4 DEF Promise!Answer
<1>9. ASSUME NEW c \in Calls, conf' = conf, call[c].pc \in {"check", "sleep"},
             call' = [call EXCEPT ![c] = Started(@)]
      PROVE  [Promise!Next]_(Promise!vars)
  <2>1. call[c] \in CallRecords /\ call[c].tried # {} /\ call[c].runs \in 0..1
    BY <1>9 DEF LlmInv, Counted
  <2>2. Started(call[c]) \in CallRecords /\ call' = [call EXCEPT ![c] = Started(call[c])]
    BY <1>9, <2>1, StartedTyped DEF LlmInv
  <2>3. CASE call[c].provider = "CLAUDE_CODE" /\ active # NoSession
    <3>1. /\ Started(call[c]).pc = "lock" /\ Started(call[c]).tried = call[c].tried
          /\ Started(call[c]).runs = call[c].runs
      BY <2>1, <2>3 DEF Started, CallRecords
    <3>2. QED BY <1>5, <1>9, <2>2, <3>1
  <2>4. CASE ~(call[c].provider = "CLAUDE_CODE" /\ active # NoSession)
    <3>1. /\ Started(call[c]).pc = "run" /\ Started(call[c]).tried = call[c].tried
          /\ Started(call[c]).runs = call[c].runs + 1
      BY <2>1, <2>4 DEF Started, CallRecords
    <3>2. call[c].runs < 2 /\ call[c].pc \notin {"done", "failed"}
      BY <1>9, <2>1
    <3>3. Promise!Run(c)
      BY <1>6, <1>9, <2>1, <2>2, <3>1, <3>2
    <3>4. QED BY <3>3 DEF Promise!Next
  <2>5. QED BY <2>3, <2>4
<1>10. ASSUME NEW c \in Calls, Ask(c) PROVE UNCHANGED Promise!vars
  <2>1. PICK g, l : call' = [call EXCEPT ![c] = [NoCall EXCEPT !.pc = "tier", !.sem = g, !.limit = l]]
    BY <1>10 DEF Ask
  <2>2. call[c].pc = "idle" /\ call[c].tried = {} /\ call[c].runs = 0 /\ conf' = conf
    BY <1>10 DEF Ask, LlmInv, Counted
  <2>3. \A d \in Calls : /\ call'[d].tried = call[d].tried /\ call'[d].runs = call[d].runs
                          /\ ResultOf(d)' = ResultOf(d)
    BY <2>1, <2>2 DEF LlmInv, ResultOf, NoCall
  <2>4. QED BY <1>1, <2>2, <2>3 DEF Promise!vars
<1>11. ASSUME NEW c \in Calls, EnterCodex(c) PROVE UNCHANGED Promise!vars
  <2> DEFINE r == [call[c] EXCEPT !.pc = "check"]
  <2>1. call[c] \in CallRecords /\ call[c].pc = "wait" /\ conf' = conf /\ call' = [call EXCEPT ![c] = r]
    BY <1>11 DEF EnterCodex, LlmInv, confVars
  <2>2. r \in CallRecords /\ r.pc = "check" /\ r.tried = call[c].tried /\ r.runs = call[c].runs
    BY <2>1 DEF CallRecords, Pcs
  <2>3. QED BY <1>5, <2>1, <2>2
<1>12. ASSUME NEW c \in Calls, Lock(c) PROVE Promise!Run(c)
  <2> DEFINE n == call[c].runs + 1
             r == [call[c] EXCEPT !.pc = "run", !.runs = n]
  <2>1. /\ call[c] \in CallRecords /\ call[c].pc = "lock" /\ conf' = conf
        /\ call[c].tried # {} /\ call[c].runs \in 0..1
    BY <1>12 DEF Lock, LlmInv, Counted, confVars
  <2>2. call' = [call EXCEPT ![c] = r]
    BY <1>12, <2>1 DEF Lock, LlmInv, CallRecords
  <2>3. n \in 0..2 /\ n = call[c].runs + 1 /\ call[c].runs < 2
    BY <2>1
  <2> HIDE DEF n
  <2>4. r \in CallRecords /\ r.pc = "run" /\ r.tried = call[c].tried /\ r.runs = n
    BY <2>1, <2>3 DEF CallRecords, Pcs
  <2>5. call[c].pc \notin {"done", "failed"}
    BY <2>1
  <2>6. QED BY <1>6, <2>1, <2>2, <2>3, <2>4, <2>5
<1>13. ASSUME NEW c \in Calls, NEW cooled, conf' = conf, call[c].pc = "run", AfterFailure(c, cooled)
       PROVE  [Promise!Next]_(Promise!vars)
  <2> DEFINE r == [call[c] EXCEPT !.pc = "sleep", !.sid = NoSession, !.resumes = FALSE]
  <2>1. call[c] \in CallRecords
    BY DEF LlmInv
  <2>2. CASE call' = [call EXCEPT ![c].pc = "sleep", ![c].sid = NoSession, ![c].resumes = FALSE]
    <3>1. call' = [call EXCEPT ![c] = r]
      BY <2>2 DEF LlmInv
    <3>2. r \in CallRecords /\ r.pc = "sleep" /\ r.tried = call[c].tried /\ r.runs = call[c].runs
      BY <2>1 DEF CallRecords, Pcs, NoSession
    <3>3. QED BY <1>5, <1>13, <3>1, <3>2
  <2>3. CASE call' = [call EXCEPT ![c] = TakenUp(c)]
    BY <1>7, <1>13, <2>3
  <2>4. QED BY <1>13, <2>2, <2>3 DEF AfterFailure
<1>14. ASSUME NEW c \in Calls, Proceed(c) PROVE [Promise!Next]_(Promise!vars)
  <2>1. conf' = conf
    BY <1>14 DEF Proceed, RunEnds, EnterTier, EnterCodex, Check, Lock, Answer, RunFails, RunTimesOut, Retry, confVars
  <2>2. CASE EnterTier(c)
    BY <1>7, <2>1, <2>2 DEF EnterTier
  <2>3. CASE EnterCodex(c)
    BY <1>11, <2>3
  <2>4. CASE Check(c)
    <3>1. call[c].pc = "check"
      BY <2>4 DEF Check
    <3>2. CASE call' = [call EXCEPT ![c] = TakenUp(c)]
      BY <1>7, <2>1, <3>1, <3>2
    <3>3. CASE call' = [call EXCEPT ![c] = Started(@)]
      BY <1>9, <2>1, <3>1, <3>3
    <3>4. QED BY <2>4, <3>2, <3>3 DEF Check
  <2>5. CASE Retry(c)
    <3>1. call[c].pc = "sleep" /\ call' = [call EXCEPT ![c] = Started(@)]
      BY <2>5 DEF Retry
    <3>2. QED BY <1>9, <2>1, <3>1
  <2>6. CASE Lock(c)
    BY <1>12, <2>6 DEF Promise!Next
  <2>7. CASE Answer(c)
    BY <1>8, <2>7 DEF Promise!Next
  <2>8. CASE RunFails(c)
    BY <1>13, <2>1, <2>8 DEF RunFails
  <2>9. CASE RunTimesOut(c)
    BY <1>13, <2>1, <2>9 DEF RunTimesOut
  <2>10. QED BY <1>14, <2>2, <2>3, <2>4, <2>5, <2>6, <2>7, <2>8, <2>9 DEF Proceed, RunEnds
<1>15. ASSUME \/ \E s \in orphans : OrphanEnds(s)
              \/ \E o \in cooling : CooldownEnds(o)
              \/ Reset \/ StartCycle \/ PauseCycle \/ ResumeCycle \/ EndCycle
              \/ PauseTranslation \/ ResumeTranslation \/ UNCHANGED vars
       PROVE  conf' = conf /\ call' = call
  BY <1>15 DEF OrphanEnds, CooldownEnds, Reset, StartCycle, PauseCycle, ResumeCycle, EndCycle,
               PauseTranslation, ResumeTranslation, vars, confVars
<1>16. QED BY <1>3, <1>4, <1>10, <1>14, <1>15 DEF Next

LEMMA InitMaps == Init => Promise!Init
<1> SUFFICES ASSUME Init PROVE Promise!Init
  OBVIOUS
<1>1. \A c \in Calls : Selected(c) \subseteq Providers
  BY SelectedProviders, LlmAssumption DEF Init
<1>2. \A c \in Calls : call[c].tried = {} /\ call[c].runs = 0 /\ ResultOf(c) = "open"
  BY DEF Init, NoCall, ResultOf
<1>3. QED BY <1>1, <1>2 DEF Promise!Init

\* Whatever the settings do, for any number of calls, generate takes up every
\* provider once, runs it at most twice and fails only when the selection in
\* force is exhausted: it implements Fallback (the loop of LLMFactory.generate).
THEOREM GenerateRefinesFallback == Spec => RefinesFallback
<1>1. Init => LlmInv /\ Promise!Init
  BY InvInit, InitMaps
<1>2. LlmInv /\ [Next]_vars => LlmInv' /\ [Promise!Next]_(Promise!vars)
  BY InvStep, StepMaps
<1>3. QED BY <1>1, <1>2, PTL DEF Spec, RefinesFallback, Promise!Spec

-----------------------------------------------------------------------------
(* What the semaphore of Codex, its cooldown and the lock of Claude's       *)
(* session give, whatever is reset meanwhile.                               *)

InHand == {"wait", "check", "lock", "run", "sleep"}

\* A call that has Codex's semaphore.
HoldsCodex(r) == r.provider = "CODEX" /\ r.pc \in InHand \ {"wait"}

\* The provider object of a call that has taken up Codex: of its own, or that
\* of its tier in the runtime whose semaphore it asks for.
ObjectOf(c, r) ==
  r.provider = "CODEX" /\ r.pc \in InHand =>
    r.pc # "lock" /\ r.obj \in {<<c>>, <<TierOf(c), r.epoch>>}

\* Two calls hold Codex only with semaphores of different runtimes.
CodexApart ==
  \A c, d \in Calls : c # d /\ HoldsCodex(call[c]) /\ HoldsCodex(call[d]) =>
                       call[c].epoch # call[d].epoch

\* The lock belongs to the call that runs on a session.
SessionLocked ==
  \A c \in Calls : call[c].pc = "run" /\ call[c].sid # NoSession => lock = c

\* A call that waits to run Codex again has an object that has not cooled down.
SleepsWarm ==
  \A c \in Calls : call[c].provider = "CODEX" /\ call[c].pc = "sleep" => call[c].obj \notin cooling

RuntimeInv ==
  /\ LlmInv
  /\ \A c \in Calls : ObjectOf(c, call[c])
  /\ CodexApart /\ SessionLocked /\ SleepsWarm

\* A call that has just been taken up, or is over, holds nothing.
Quiet(r) == ~HoldsCodex(r) /\ r.pc # "run"

LEMMA TakenUpQuiet ==
  ASSUME LlmInv, NEW c \in Calls
  PROVE  Quiet(TakenUp(c)) /\ ObjectOf(c, TakenUp(c))
<1>1. CASE Untried(c) = {}
  <2>1. TakenUp(c).provider = none /\ TakenUp(c).pc = "failed"
    BY <1>1 DEF TakenUp, Over, NoCall
  <2>2. QED BY <2>1 DEF Quiet, HoldsCodex, ObjectOf, none
<1>2. CASE Untried(c) # {}
  <2> DEFINE i == CHOOSE j \in Untried(c) : \A k \in Untried(c) : j <= k
             p == Chain(Kind[c])[i]
             o == Object(c, i)
  <2>1. TakenUp(c) = [pc |-> IF p = "CODEX" THEN "wait" ELSE "check",
                      sem |-> call[c].sem, limit |-> call[c].limit,
                      tried |-> call[c].tried \cup {p}, provider |-> p, obj |-> o,
                      epoch |-> epoch, runs |-> 0, sid |-> NoSession, resumes |-> FALSE]
    BY <1>2 DEF TakenUp
  <2>2. o \in {<<c>>, <<TierOf(c), epoch>>}
    BY DEF Object
  <2> HIDE DEF i, p, o
  <2>3. /\ TakenUp(c).pc = IF TakenUp(c).provider = "CODEX" THEN "wait" ELSE "check"
        /\ TakenUp(c).obj \in {<<c>>, <<TierOf(c), TakenUp(c).epoch>>}
    BY <2>1, <2>2
  <2>4. QED BY <2>3 DEF Quiet, HoldsCodex, ObjectOf
<1>3. QED BY <1>1, <1>2

\* Objects of two calls are the same only within one runtime.
LEMMA ObjectsApart ==
  ASSUME NEW c \in Calls, NEW d \in Calls, c # d, NEW e, NEW f, e # f,
         NEW o \in {<<c>>, <<TierOf(c), e>>}, NEW q \in {<<d>>, <<TierOf(d), f>>}
  PROVE  o # q
<1>1. Len(<<c>>) = 1 /\ Len(<<d>>) = 1 /\ Len(<<TierOf(c), e>>) = 2 /\ Len(<<TierOf(d), f>>) = 2
  OBVIOUS
<1>2. <<c>> # <<d>> /\ <<TierOf(c), e>> # <<TierOf(d), f>>
  OBVIOUS
<1>3. QED BY <1>1, <1>2

\* What a change of one call has to respect.
LEMMA Moved ==
  ASSUME RuntimeInv, LlmInv', NEW c \in Calls, NEW r, call' = [call EXCEPT ![c] = r],
         ObjectOf(c, r),
         HoldsCodex(r) => \A d \in Calls \ {c} : HoldsCodex(call[d]) => call[d].epoch # r.epoch,
         r.pc = "run" /\ r.sid # NoSession => lock' = c,
         \A d \in Calls \ {c} : lock = d => lock' = d,
         r.provider = "CODEX" /\ r.pc = "sleep" => r.obj \notin cooling',
         \A d \in Calls \ {c} : call[d].provider = "CODEX" /\ call[d].pc = "sleep"
                                  => call[d].obj \notin cooling'
  PROVE  RuntimeInv'
<1>1. call'[c] = r /\ \A d \in Calls \ {c} : call'[d] = call[d]
  BY DEF RuntimeInv, LlmInv
<1>2. \A d \in Calls : ObjectOf(d, call'[d])
  BY <1>1 DEF RuntimeInv
<1>3. CodexApart'
  <2> SUFFICES ASSUME NEW d \in Calls, NEW e \in Calls, d # e,
                      HoldsCodex(call'[d]), HoldsCodex(call'[e])
               PROVE  call'[d].epoch # call'[e].epoch
    BY DEF CodexApart, HoldsCodex
  <2>1. CASE d # c /\ e # c
    BY <1>1, <2>1 DEF RuntimeInv, CodexApart
  <2>2. CASE d = c
    BY <1>1, <2>2
  <2>3. CASE e = c
    BY <1>1, <2>3
  <2>4. QED BY <2>1, <2>2, <2>3
<1>4. SessionLocked'
  BY <1>1 DEF RuntimeInv, SessionLocked
<1>5. SleepsWarm'
  BY <1>1 DEF SleepsWarm
<1>6. QED BY <1>2, <1>3, <1>4, <1>5 DEF RuntimeInv, ObjectOf, TierOf

\* A change of one call to a record that holds nothing.
LEMMA MovedQuiet ==
  ASSUME RuntimeInv, LlmInv', NEW c \in Calls, NEW r, call' = [call EXCEPT ![c] = r],
         Quiet(r), ObjectOf(c, r),
         \A d \in Calls \ {c} : lock = d => lock' = d,
         \A d \in Calls \ {c} : call[d].provider = "CODEX" /\ call[d].pc = "sleep"
                                  => call[d].obj \notin cooling'
  PROVE  RuntimeInv'
<1>1. r.provider = "CODEX" => r.pc # "sleep"
  BY DEF Quiet, HoldsCodex, InHand
<1>2. QED BY <1>1, Moved DEF Quiet

\* A failed run of c cools down no object another call sleeps on.
LEMMA OthersWarm ==
  ASSUME RuntimeInv, NEW c \in Calls, call[c].pc = "run",
         NEW cooled \in {cooling, cooling \cup {call[c].obj}},
         call[c].provider # "CODEX" => cooled = cooling
  PROVE  \A d \in Calls \ {c} : call[d].provider = "CODEX" /\ call[d].pc = "sleep"
                                  => call[d].obj \notin cooled
<1> SUFFICES ASSUME NEW d \in Calls \ {c}, call[d].provider = "CODEX", call[d].pc = "sleep"
             PROVE  call[d].obj \notin cooled
  OBVIOUS
<1>1. call[d].obj \notin cooling
  BY DEF RuntimeInv, SleepsWarm
<1>2. CASE call[c].provider = "CODEX"
  <2>1. call[c].epoch # call[d].epoch
    BY <1>2 DEF RuntimeInv, CodexApart, HoldsCodex, InHand
  <2>2. /\ call[c].obj \in {<<c>>, <<TierOf(c), call[c].epoch>>}
        /\ call[d].obj \in {<<d>>, <<TierOf(d), call[d].epoch>>}
    BY <1>2 DEF RuntimeInv, ObjectOf, InHand
  <2>3. call[c].obj # call[d].obj
    BY <2>1, <2>2, ObjectsApart
  <2>4. QED BY <1>1, <2>3
<1>3. CASE call[c].provider # "CODEX"
  BY <1>1, <1>3
<1>4. QED BY <1>2, <1>3

LEMMA AfterFailureKeeps ==
  ASSUME RuntimeInv, LlmInv', NEW c \in Calls, call[c].pc = "run", lock' = Unlocked(c),
         NEW cooled \in {cooling, cooling \cup {call[c].obj}},
         call[c].provider # "CODEX" => cooled = cooling,
         cooling' \subseteq cooled, AfterFailure(c, cooled)
  PROVE  RuntimeInv'
<1>1. \A d \in Calls \ {c} : lock = d => lock' = d
  BY DEF Unlocked
<1>2. \A d \in Calls \ {c} : call[d].provider = "CODEX" /\ call[d].pc = "sleep"
                               => call[d].obj \notin cooling'
  BY OthersWarm
<1>3. CASE /\ call[c].provider = "CODEX" => call[c].obj \notin cooled
           /\ call' = [call EXCEPT ![c].pc = "sleep", ![c].sid = NoSession, ![c].resumes = FALSE]
  <2> DEFINE r == [call[c] EXCEPT !.pc = "sleep", !.sid = NoSession, !.resumes = FALSE]
  <2>1. call' = [call EXCEPT ![c] = r]
    BY <1>3 DEF RuntimeInv, LlmInv
  <2>2. /\ r.pc = "sleep" /\ r.provider = call[c].provider
        /\ r.obj = call[c].obj /\ r.epoch = call[c].epoch
    BY DEF RuntimeInv, LlmInv, CallRecords
  <2> HIDE DEF r
  <2>3. ObjectOf(c, r)
    BY <2>2 DEF RuntimeInv, ObjectOf, InHand
  <2>4. HoldsCodex(r) => \A d \in Calls \ {c} : HoldsCodex(call[d]) => call[d].epoch # r.epoch
    BY <2>2 DEF RuntimeInv, CodexApart, HoldsCodex, InHand
  <2>5. r.provider = "CODEX" => r.obj \notin cooling'
    BY <1>3, <2>2
  <2>6. r.pc # "run"
    BY <2>2
  <2>7. QED BY <1>1, <1>2, <2>1, <2>3, <2>4, <2>5, <2>6, Moved
<1>4. CASE call' = [call EXCEPT ![c] = TakenUp(c)]
  BY <1>1, <1>2, <1>4, TakenUpQuiet, MovedQuiet DEF RuntimeInv
<1>5. QED BY <1>3, <1>4 DEF AfterFailure

\* A call starts its run, or waits for the session's lock, with the object and
\* the semaphore it had.
LEMMA StartedKeeps ==
  ASSUME RuntimeInv, LlmInv', NEW c \in Calls, call[c].pc \in {"check", "sleep"},
         call' = [call EXCEPT ![c] = Started(@)], UNCHANGED <<lock, cooling>>
  PROVE  RuntimeInv'
<1> DEFINE r == Started(call[c])
<1>1. call' = [call EXCEPT ![c] = r]
  BY DEF RuntimeInv, LlmInv
<1>2. /\ r.provider = call[c].provider /\ r.obj = call[c].obj /\ r.epoch = call[c].epoch
      /\ \/ r.pc = "lock" /\ r.provider = "CLAUDE_CODE"
         \/ r.pc = "run" /\ r.sid = NoSession
  <2>1. call[c] \in CallRecords
    BY DEF RuntimeInv, LlmInv
  <2>2. CASE call[c].provider = "CLAUDE_CODE" /\ active # NoSession
    <3>1. r = [call[c] EXCEPT !.pc = "lock", !.sid = active, !.resumes = initialized]
      BY <2>2 DEF Started
    <3>2. QED BY <2>1, <2>2, <3>1 DEF CallRecords
  <2>3. CASE ~(call[c].provider = "CLAUDE_CODE" /\ active # NoSession)
    BY <2>1, <2>3 DEF Started, CallRecords
  <2>4. QED BY <2>2, <2>3
<1> HIDE DEF r
<1>3. ObjectOf(c, r)
  BY <1>2 DEF RuntimeInv, ObjectOf, InHand
<1>4. HoldsCodex(r) => \A d \in Calls \ {c} : HoldsCodex(call[d]) => call[d].epoch # r.epoch
  BY <1>2 DEF RuntimeInv, CodexApart, HoldsCodex, InHand
<1>5. r.pc # "sleep" /\ (r.pc = "run" => r.sid = NoSession)
  BY <1>2
<1>6. \A d \in Calls \ {c} : call[d].provider = "CODEX" /\ call[d].pc = "sleep"
                               => call[d].obj \notin cooling'
  BY DEF RuntimeInv, SleepsWarm
<1>7. QED BY <1>1, <1>3, <1>4, <1>5, <1>6, Moved

LEMMA ProceedKeeps ==
  ASSUME RuntimeInv, LlmInv', NEW c \in Calls, Ask(c) \/ Proceed(c)
  PROVE  RuntimeInv'
<1> DEFINE Warm == \A d \in Calls \ {c} : call[d].provider = "CODEX" /\ call[d].pc = "sleep"
                                            => call[d].obj \notin cooling'
<1>1. cooling' \subseteq cooling => Warm
  BY DEF RuntimeInv, SleepsWarm
<1> HIDE DEF Warm
<1>2. CASE Ask(c)
  <2>1. PICK g, l : call' = [call EXCEPT ![c] = [NoCall EXCEPT !.pc = "tier", !.sem = g, !.limit = l]]
    BY <1>2 DEF Ask
  <2> DEFINE r == [NoCall EXCEPT !.pc = "tier", !.sem = g, !.limit = l]
  <2>2. Quiet(r) /\ ObjectOf(c, r)
    BY DEF NoCall, Quiet, HoldsCodex, ObjectOf, InHand
  <2> HIDE DEF r
  <2>3. QED BY <1>1, <1>2, <2>1, <2>2, MovedQuiet DEF Ask, Warm, r
<1>3. CASE EnterTier(c) \/ (Check(c) /\ call' = [call EXCEPT ![c] = TakenUp(c)])
  BY <1>1, <1>3, TakenUpQuiet, MovedQuiet DEF EnterTier, Check, RuntimeInv, Warm
<1>4. CASE EnterCodex(c)
  <2> DEFINE r == [call[c] EXCEPT !.pc = "check"]
  <2>1. /\ call' = [call EXCEPT ![c] = r] /\ call[c].pc = "wait"
        /\ UNCHANGED <<lock, cooling>> /\ CodexHolders(c) = {}
    BY <1>4 DEF EnterCodex
  <2>2. /\ r.pc = "check" /\ r.provider = call[c].provider /\ r.obj = call[c].obj
        /\ r.epoch = call[c].epoch
    BY DEF RuntimeInv, LlmInv, CallRecords
  <2> HIDE DEF r
  <2>3. ObjectOf(c, r)
    BY <2>1, <2>2 DEF RuntimeInv, ObjectOf, InHand
  <2>4. \A d \in Calls \ {c} : HoldsCodex(call[d]) => call[d].epoch # r.epoch
    BY <2>1, <2>2 DEF CodexHolders, Admitted, HoldsCodex, InHand
  <2>5. QED BY <1>1, <2>1, <2>2, <2>3, <2>4, Moved DEF Warm
<1>5. CASE (Check(c) \/ Retry(c)) /\ call' = [call EXCEPT ![c] = Started(@)]
  BY <1>5, StartedKeeps DEF Check, Retry
<1>6. CASE Lock(c)
  <2> DEFINE r == [call[c] EXCEPT !.pc = "run", !.runs = @ + 1]
  <2>1. /\ call' = [call EXCEPT ![c] = r] /\ call[c].pc = "lock"
        /\ lock = none /\ lock' = c /\ cooling' = cooling
    BY <1>6 DEF Lock, RuntimeInv, LlmInv
  <2>2. r.pc = "run" /\ r.provider = call[c].provider
    BY DEF RuntimeInv, LlmInv, CallRecords
  <2> HIDE DEF r
  <2>3. r.provider # "CODEX"
    BY <2>1, <2>2 DEF RuntimeInv, ObjectOf, InHand
  <2>4. \A d \in Calls \ {c} : lock # d
    BY <2>1, LlmAssumption
  <2>5. ObjectOf(c, r) /\ ~HoldsCodex(r)
    BY <2>3 DEF ObjectOf, HoldsCodex
  <2>6. QED BY <1>1, <2>1, <2>2, <2>4, <2>5, Moved DEF Warm
<1>7. CASE Answer(c)
  <2>1. Quiet(Over(c, "done")) /\ ObjectOf(c, Over(c, "done"))
    BY DEF Over, NoCall, Quiet, HoldsCodex, ObjectOf, InHand
  <2>2. \A d \in Calls \ {c} : lock = d => lock' = d
    BY <1>7 DEF Answer, Unlocked
  <2>3. QED BY <1>1, <1>7, <2>1, <2>2, MovedQuiet DEF Answer, Warm
<1>8. CASE RunFails(c)
  <2>1. PICK cooled \in {cooling, cooling \cup {call[c].obj}} :
          /\ call[c].provider # "CODEX" => cooled = cooling
          /\ cooling' = cooled \ {<<c>>}
          /\ AfterFailure(c, cooled)
    BY <1>8 DEF RunFails
  <2>2. QED BY <1>8, <2>1, AfterFailureKeeps DEF RunFails
<1>9. CASE RunTimesOut(c)
  BY <1>9, AfterFailureKeeps DEF RunTimesOut
<1>10. Check(c) => \/ call' = [call EXCEPT ![c] = TakenUp(c)]
                   \/ call' = [call EXCEPT ![c] = Started(@)]
  BY DEF Check
<1>11. Retry(c) => call' = [call EXCEPT ![c] = Started(@)]
  BY DEF Retry
<1>12. QED
  BY <1>2, <1>3, <1>4, <1>5, <1>6, <1>7, <1>8, <1>9, <1>10, <1>11 DEF Proceed, RunEnds

LEMMA RuntimeStep == RuntimeInv /\ [Next]_vars => RuntimeInv'
<1> SUFFICES ASSUME RuntimeInv, [Next]_vars PROVE RuntimeInv'
  OBVIOUS
<1>1. LlmInv'
  BY InvStep DEF RuntimeInv
<1>2. CASE \E c \in Calls : Ask(c) \/ Proceed(c)
  BY <1>1, <1>2, ProceedKeeps
<1>3. ASSUME ~(\E c \in Calls : Ask(c) \/ Proceed(c))
      PROVE  UNCHANGED <<call, lock>> /\ cooling' \subseteq cooling
  BY <1>3 DEF Next, OrphanEnds, CooldownEnds, ChangeSettings, Reset, StartCycle, PauseCycle,
              ResumeCycle, EndCycle, PauseTranslation, ResumeTranslation, vars, confVars
<1>4. CASE ~(\E c \in Calls : Ask(c) \/ Proceed(c))
  BY <1>1, <1>3, <1>4 DEF RuntimeInv, ObjectOf, TierOf, CodexApart, SessionLocked, SleepsWarm, HoldsCodex
<1>5. QED BY <1>2, <1>4

LEMMA RuntimeHolds == Spec => []RuntimeInv
<1>1. Init => RuntimeInv
  <2>1. Init => \A c \in Calls : call[c].pc = "idle"
    BY DEF Init, NoCall
  <2>2. QED BY <2>1, InvInit DEF RuntimeInv, ObjectOf, CodexApart, SessionLocked, SleepsWarm,
                             HoldsCodex, InHand
<1>2. QED BY <1>1, RuntimeStep, PTL DEF Spec

\* However often the runtime is reset while calls wait and run, two calls run
\* Codex at once only with semaphores of different runtimes (_provider_semaphore).
THEOREM CodexIsSerial == Spec => []CodexSerial
<1>1. RuntimeInv => CodexSerial
  BY DEF RuntimeInv, CodexApart, HoldsCodex, InHand, CodexSerial, Runs
<1>2. QED BY <1>1, RuntimeHolds, PTL

\* However sessions are paused, resumed and replaced, and whichever processes are
\* abandoned, two calls that wait for a Claude process have different sessions
\* (the lock of ClaudeCodeProvider.generate).
THEOREM SessionsExclusive == Spec => []SessionExclusive
<1>1. RuntimeInv => SessionExclusive
  BY DEF RuntimeInv, SessionLocked, SessionExclusive
<1>2. QED BY <1>1, RuntimeHolds, PTL

Starts(c) == call[c].pc # "run" /\ call'[c].pc = "run" /\ call'[c].provider = "CODEX"

\* A step of a call starts Codex only on an object that has not cooled down.
LEMMA StartsWarm ==
  ASSUME RuntimeInv, NEW c \in Calls, Ask(c) \/ Proceed(c), Starts(c)
  PROVE  call'[c].obj \notin cooling
<1>1. CASE call' = [call EXCEPT ![c] = Started(@)] /\ call[c].pc \in {"check", "sleep"}
             /\ (call[c].pc = "check" => Available(c))
  <2>1. call[c] \in CallRecords
    BY DEF RuntimeInv, LlmInv
  <2>2. call'[c] = Started(call[c])
    BY <1>1 DEF RuntimeInv, LlmInv
  <2>3. Started(call[c]).obj = call[c].obj /\ Started(call[c]).provider = call[c].provider
    BY <2>1 DEF CallRecords, Started
  <2>4. call[c].provider = "CODEX"
    BY <2>2, <2>3 DEF Starts
  <2>5. QED BY <1>1, <2>2, <2>3, <2>4 DEF RuntimeInv, SleepsWarm, Available
<1>2. CASE call' = [call EXCEPT ![c] = TakenUp(c)]
  <2>1. call'[c] = TakenUp(c)
    BY <1>2 DEF RuntimeInv, LlmInv
  <2>2. QED BY <2>1, TakenUpQuiet DEF RuntimeInv, Quiet, Starts
<1>3. CASE Lock(c)
  <2>1. call'[c].provider = call[c].provider /\ call[c].pc = "lock"
    BY <1>3 DEF RuntimeInv, LlmInv, CallRecords, Lock
  <2>2. QED BY <2>1 DEF RuntimeInv, ObjectOf, InHand, Starts
<1>4. CASE call[c].pc = "run"
  BY <1>4 DEF Starts
<1>5. CASE Ask(c)
  <2>1. PICK g, l : call' = [call EXCEPT ![c] = [NoCall EXCEPT !.pc = "tier", !.sem = g, !.limit = l]]
    BY <1>5 DEF Ask
  <2>2. call'[c].pc = "tier"
    BY <2>1 DEF RuntimeInv, LlmInv, NoCall
  <2>3. QED BY <2>2 DEF Starts
<1>6. CASE EnterCodex(c)
  <2>1. call'[c].pc = "check"
    BY <1>6 DEF RuntimeInv, LlmInv, CallRecords, EnterCodex
  <2>2. QED BY <2>1 DEF Starts
<1>7. QED
  BY <1>1, <1>2, <1>3, <1>4, <1>5, <1>6 DEF Proceed, RunEnds, EnterTier, Check, Retry,
     Answer, RunFails, RunTimesOut

\* A step changes one call, or none.
LEMMA OneMoves ==
  ASSUME RuntimeInv, [Next]_vars, NEW c \in Calls, call'[c] # call[c]
  PROVE  Ask(c) \/ Proceed(c)
<1>1. ASSUME NEW d \in Calls, Ask(d) \/ Proceed(d) PROVE d = c
  <2>1. \E r : call' = [call EXCEPT ![d] = r]
    BY <1>1 DEF Ask, Proceed, RunEnds, EnterTier, EnterCodex, Check, Lock, Answer, RunFails,
                RunTimesOut, AfterFailure, Retry
  <2>2. QED BY <2>1 DEF RuntimeInv, LlmInv
<1>2. ASSUME ~(\E d \in Calls : Ask(d) \/ Proceed(d)) PROVE call' = call
  BY <1>2 DEF Next, OrphanEnds, CooldownEnds, ChangeSettings, Reset, StartCycle, PauseCycle,
              ResumeCycle, EndCycle, PauseTranslation, ResumeTranslation, vars, confVars
<1>3. QED BY <1>1, <1>2

\* A run of Codex never starts on an object that is cooling down: neither a reset
\* nor a call that shares the object lets its cooldown pass unnoticed between the
\* availability check, the two seconds before the retry and the run.
THEOREM CooldownIsKept == Spec => CooldownKept
<1>1. RuntimeInv /\ [Next]_vars
        => [\A c \in Calls : Starts(c) => call'[c].obj \notin cooling]_vars
  BY StartsWarm, OneMoves DEF Starts
<1>2. CooldownKept <=> [][\A c \in Calls : Starts(c) => call'[c].obj \notin cooling]_vars
  BY DEF CooldownKept, Starts
<1>3. QED BY <1>1, <1>2, RuntimeHolds, PTL DEF Spec
=============================================================================
