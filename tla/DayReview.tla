------------------------------ MODULE DayReview ------------------------------
(***************************************************************************)
(* The review after the market and what it changes the next morning: the   *)
(* trading rules it makes, how the pre-market job puts them in force and   *)
(* lets them expire, and the daily report that says the day was reviewed.  *)
(*                                                                         *)
(* A rule overrides a parameter of the strategies or switches a check of   *)
(* the analyses on or off; a check is on unless a rule has switched it off *)
(* ("bootstrap" rules).  Values are 0 and 1, a rule's scope (all           *)
(* strategies or one) is part of its key.                                  *)
(***************************************************************************)
EXTENDS Integers, Sequences, FiniteSets, SequencesExt, FiniteSetsExt

CONSTANTS
  Checks,     \* validation flags with a bootstrap rule
  Params,     \* parameters of the strategies and of the risk manager
  Reviews,    \* action items of a review: sequences of Items
  MaxActive,  \* MAX_ACTIVE_RULES
  Gaps,       \* days to the next trading day: 1, or 3 over a weekend
  MaxReviews, \* bound: reviews with action items
  MaxByHand,  \* bound: reports, and reviews, asked for by hand
  MaxFaults   \* bound: crashes and failed transactions

none == "none"
unset == 2 \* no value: a rule's value is 0 or 1

Keys == Checks \cup Params
Priorities == {"LOW", "MEDIUM", "HIGH"}

\* generate_rules_from_review keeps expires_days in 1..5.
Items == [key : Keys, kind : {"toggle", "override"}, val : 0..1,
          days : 1..5, prio : Priorities]

ASSUME ReviewAssumption ==
  /\ Checks \cap Params = {} /\ IsFiniteSet(Keys)
  /\ Reviews \subseteq Seq(Items)
  /\ MaxActive \in Nat /\ Gaps \subseteq Nat \ {0}
  /\ MaxReviews \in Nat /\ MaxByHand \in Nat /\ MaxFaults \in Nat

\* expires_days of a bootstrap rule, which the model does not count down.
Long == 365

VARIABLES
  phase,   \* "morning", "open", "evening"
  due,     \* the job of this phase has not fired yet
  up,      \* "no", "boot" (startup tasks to come), "yes"
  pre,     \* the pre-market job
  rules,   \* active rules, the oldest first
  inforce, \* trading_agent._active_trading_rules, in the same order
  tuned,   \* parameters of the strategies: unset is the code's own value
  today,   \* today's row of daily_reports
  cycle,   \* what holds trading_agent's cycle lock
  gen,     \* a report that waits for the LLM
  spent    \* reviews with action items, what was asked for by hand, faults

clock == <<phase, due, up>>
enforced == <<inforce, tuned>>
vars == <<clock, pre, rules, enforced, today, cycle, gen, spent>>

Pre == {"idle", "checked", "loaded", "done", "missed"}
NoPre == [at |-> "idle", absent |-> {}]
NoCycle == [at |-> none, items |-> <<>>]
NoGen == [on |-> FALSE, had |-> FALSE, forced |-> FALSE]

-----------------------------------------------------------------------------
(* trading_rules.py.                                                        *)

\* The elements of rs at the positions keep, in their order.
Selected(rs, keep) ==
  [n \in 1..Cardinality(keep) |->
     rs[CHOOSE i \in keep : Cardinality({j \in keep : j < i}) = n - 1]]

\* left: mornings the rule still has.  A review before this morning's check
\* of expires_at counts this morning as one of them.
RuleOf(item) ==
  [key |-> item.key, kind |-> item.kind, val |-> item.val, prio |-> item.prio,
   days |-> item.days, src |-> "review",
   left |-> IF phase = "morning" /\ pre.at \in {"idle", "checked"}
              THEN item.days - 1 ELSE item.days]

Bootstrap(k) ==
  [key |-> k, kind |-> "toggle", val |-> 1, prio |-> "HIGH",
   days |-> Long, src |-> "bootstrap", left |-> Long]

\* The rules whose keys the review does not name, and the ones it makes.
Others(rs, items) ==
  Selected(rs, {i \in DOMAIN rs : \A j \in DOMAIN items : items[j].key # rs[i].key})

Made(items) == [i \in DOMAIN items |-> RuleOf(items[i])]

LastOfKey(items) ==
  {i \in DOMAIN items : \A j \in DOMAIN items : j > i => items[j].key # items[i].key}

\* Mutation: the rules of the same key are deactivated before, once.
AddedWithoutFlush(rs, items) == Others(rs, items) \o Made(items)

\* Each new rule deactivates the rules of its key, the ones of the same
\* review among them: of those the last one stays.
Added(rs, items) ==
  Others(rs, items) \o Selected(Made(items), LastOfKey(items))

\* ORDER BY priority DESC compares strings: MEDIUM, LOW, HIGH.
Rank(prio) == CASE prio = "MEDIUM" -> 1 [] prio = "LOW" -> 2 [] prio = "HIGH" -> 3

GoesBefore(rs, i, j) ==
  \/ Rank(rs[i].prio) < Rank(rs[j].prio)
  \/ rs[i].prio = rs[j].prio /\ i < j

Trimmed(rs) ==
  LET excess == Len(rs) - MaxActive
      keep == {i \in DOMAIN rs :
                 Cardinality({j \in DOMAIN rs : GoesBefore(rs, j, i)}) >= excess}
  IN  Selected(rs, keep)

Generated(rs, items) == IF items = <<>> THEN rs ELSE Trimmed(Added(rs, items))

\* _ensure_bootstrap_rules: an expired rule that is still active counts.
Absent(rs) ==
  {k \in Checks : \A i \in DOMAIN rs : ~(rs[i].key = k /\ rs[i].kind = "toggle")}

WithBootstrap(rs, absent) == rs \o SetToSeq({Bootstrap(k) : k \in absent})

Valid(r) == r.left >= 0

Unexpired(rs) == Selected(rs, {i \in DOMAIN rs : Valid(rs[i])})

\* Mutation: the rules are selected before the bootstrap rules are there.
LoadedFirst(rs, absent) == Unexpired(rs)

Loaded(rs, absent) == Unexpired(WithBootstrap(rs, absent))

\* The value of a key among rules of a kind: the last one's, if any.
ValueOf(rs, kind, k) ==
  LET mine == {i \in DOMAIN rs : rs[i].key = k /\ rs[i].kind = kind}
  IN  IF mine = {} THEN unset ELSE rs[Max(mine)].val

\* The flag the analyses ask for.
CheckedFor(k) == ValueOf(inforce, "toggle", k) = 1

\* apply_to_strategies, apply_to_risk_manager: a value without a rule stays.
Tuned(loaded) ==
  [p \in Params |-> LET v == ValueOf(loaded, "override", p)
                    IN  IF v = unset THEN tuned[p] ELSE v]

-----------------------------------------------------------------------------
(* The clock and the process.                                               *)

Later(r, d) == IF r.src = "bootstrap" THEN r ELSE [r EXCEPT !.left = Max({@ - d, -1})]

LaterAll(rs, d) == [i \in DOMAIN rs |-> Later(rs[i], d)]

\* The phase's job fires before the phase ends, when the process is up.
PhaseOver == up # "boot" /\ (up = "yes" => ~due) /\ pre.at \notin {"checked", "loaded"}

Advance ==
  /\ PhaseOver /\ phase # "evening"
  /\ phase' = (IF phase = "morning" THEN "open" ELSE "evening")
  /\ due' = (phase = "open")
  /\ UNCHANGED <<up, pre, rules, enforced, today, cycle, gen, spent>>

\* Reviews and reports take minutes: none runs over midnight.
NewDay ==
  /\ PhaseOver /\ phase = "evening" /\ cycle = NoCycle /\ ~gen.on
  /\ phase' = "morning" /\ due' = TRUE /\ today' = none /\ pre' = NoPre
  /\ \E d \in Gaps : rules' = LaterAll(rules, d) /\ inforce' = LaterAll(inforce, d)
  /\ UNCHANGED <<up, tuned, cycle, gen, spent>>

Faulty == spent.faults < MaxFaults
Fault == spent' = [spent EXCEPT !.faults = @ + 1]

Crash ==
  /\ up # "no" /\ Faulty /\ Fault
  /\ up' = "no"
  /\ pre' = [NoPre EXCEPT !.at = IF pre.at \in {"checked", "loaded", "done"}
                                   THEN "missed" ELSE @]
  /\ inforce' = <<>> /\ tuned' = [p \in Params |-> unset]
  /\ cycle' = NoCycle /\ gen' = NoGen
  /\ UNCHANGED <<phase, due, rules, today>>

\* The time of the job may have passed.
Restart ==
  /\ up = "no" /\ up' = "boot"
  /\ \/ UNCHANGED <<due, pre>>
     \/ /\ due /\ due' = FALSE
        /\ pre' = IF phase = "morning" THEN [pre EXCEPT !.at = "missed"] ELSE pre
  /\ UNCHANGED <<phase, rules, enforced, today, cycle, gen, spent>>

-----------------------------------------------------------------------------
(* run_cycle: a trading cycle in the market, a review out of it.            *)

RunCycle ==
  cycle' = IF cycle # NoCycle THEN cycle \* skipped: the lock is held
           ELSE [NoCycle EXCEPT !.at = IF phase = "open" THEN "trading" ELSE "collect"]

\* The market's opening scan, a rescan after a sale, the endpoint.
Triggered ==
  /\ up = "yes" /\ cycle = NoCycle /\ RunCycle
  /\ \/ phase = "open" /\ UNCHANGED spent
     \/ phase # "open" /\ spent.byhand < MaxByHand
        /\ spent' = [spent EXCEPT !.byhand = @ + 1]
  /\ UNCHANGED <<clock, pre, rules, enforced, today, gen>>

\* _on_startup: a cycle in the market; in the evening when today has no report.
Boots ==
  /\ up = "boot" /\ up' = "yes"
  /\ IF phase = "open" \/ (phase = "evening" /\ today = none)
       THEN RunCycle ELSE UNCHANGED cycle
  /\ UNCHANGED <<phase, due, pre, rules, enforced, today, gen, spent>>

\* The job of 15:40.
PostMarket ==
  /\ up = "yes" /\ phase = "evening" /\ due /\ due' = FALSE
  /\ RunCycle
  /\ UNCHANGED <<phase, up, pre, rules, enforced, today, gen, spent>>

TradingEnds ==
  /\ cycle.at = "trading" /\ cycle' = NoCycle
  /\ UNCHANGED <<clock, pre, rules, enforced, today, gen, spent>>

\* _run_after_hours_cycle: rankings, activities and results that cannot be had are
\* left out of the review, but without the balance there is none.
ReviewCollects ==
  /\ cycle.at = "collect"
  /\ \/ cycle' = [cycle EXCEPT !.at = "llm"] /\ UNCHANGED spent
     \/ cycle' = NoCycle /\ Faulty /\ Fault
  /\ UNCHANGED <<clock, pre, rules, enforced, today, gen>>

\* An answer that cannot be parsed ends the review, as an error does.
ReviewAnswered ==
  /\ cycle.at = "llm"
  /\ \/ cycle' = NoCycle /\ Faulty /\ Fault
     \/ \E items \in Reviews :
          /\ items # <<>> => spent.reviews < MaxReviews
          /\ cycle' = [at |-> "save", items |-> items]
          /\ spent' = IF items = <<>> THEN spent ELSE [spent EXCEPT !.reviews = @ + 1]
  /\ UNCHANGED <<clock, pre, rules, enforced, today, gen>>

\* _save_daily_report inserts or updates; a failure is logged.
ReviewSaves ==
  /\ cycle.at = "save" /\ cycle' = [cycle EXCEPT !.at = "rules"]
  /\ \/ today' = "review" /\ UNCHANGED spent
     \/ UNCHANGED today /\ Faulty /\ Fault
  /\ UNCHANGED <<clock, pre, rules, enforced, gen>>

ReviewMakesRules ==
  /\ cycle.at = "rules" /\ cycle' = NoCycle
  /\ \/ rules' = Generated(rules, cycle.items) /\ UNCHANGED spent
     \/ UNCHANGED rules /\ Faulty /\ Fault
  /\ UNCHANGED <<clock, pre, enforced, today, gen>>

-----------------------------------------------------------------------------
(* daily_report_service: the report by hand.                                *)

\* An existing report is returned unless the caller forces a new one.
GenStarts ==
  /\ up = "yes" /\ ~gen.on /\ spent.byhand < MaxByHand
  /\ \E forced \in BOOLEAN :
       /\ forced \/ today = none
       /\ gen' = [on |-> TRUE, had |-> today # none, forced |-> forced]
  /\ spent' = [spent EXCEPT !.byhand = @ + 1]
  /\ UNCHANGED <<clock, pre, rules, enforced, today, cycle>>

\* Mutation: the report is merged by its date.
WrittenMerging == "plain"

\* An UPDATE of the row that was read, or an INSERT, which the unique date
\* refuses when a review has been saved meanwhile.
Written == IF gen.had \/ today = none THEN "plain" ELSE today

GenEnds ==
  /\ gen.on /\ gen' = NoGen
  /\ today' = Written
  /\ UNCHANGED <<clock, pre, rules, enforced, cycle, spent>>

-----------------------------------------------------------------------------
(* The pre-market job, 08:50: load_active_rules, apply, expire_old_rules.   *)

PreChecks ==
  /\ up = "yes" /\ phase = "morning" /\ due /\ due' = FALSE
  /\ pre' = [at |-> "checked", absent |-> Absent(rules)]
  /\ UNCHANGED <<phase, up, rules, enforced, today, cycle, gen, spent>>

\* The bootstrap rules it missed are added; without a rule nothing is applied.
PreLoads ==
  /\ pre.at = "checked" /\ pre' = [NoPre EXCEPT !.at = "loaded"]
  /\ rules' = WithBootstrap(rules, pre.absent)
  /\ LET loaded == Loaded(rules, pre.absent)
     IN  IF loaded = <<>> THEN UNCHANGED enforced
         ELSE inforce' = loaded /\ tuned' = Tuned(loaded)
  /\ UNCHANGED <<clock, today, cycle, gen, spent>>

\* Mutation: rules expire only when there are rules to apply.
ExpiredOfLoaded(rs) == IF Unexpired(rs) = <<>> THEN rs ELSE Unexpired(rs)

\* UPDATE ... WHERE expires_at <= now.
Expired(rs) == Unexpired(rs)

PreExpires ==
  /\ pre.at = "loaded" /\ pre' = [pre EXCEPT !.at = "done"]
  /\ rules' = Expired(rules)
  /\ UNCHANGED <<clock, enforced, today, cycle, gen, spent>>

\* A failed transaction ends the job; what was applied stays applied.
PreFails ==
  /\ pre.at \in {"checked", "loaded"} /\ Faulty /\ Fault
  /\ pre' = [NoPre EXCEPT !.at = IF pre.at = "loaded" THEN "done" ELSE "missed"]
  /\ UNCHANGED <<clock, rules, enforced, today, cycle, gen>>

-----------------------------------------------------------------------------

Init ==
  /\ phase = "morning" /\ due = TRUE /\ up = "boot" /\ pre = NoPre
  /\ rules = <<>> /\ inforce = <<>> /\ tuned = [p \in Params |-> unset]
  /\ today = none /\ cycle = NoCycle /\ gen = NoGen
  /\ spent = [reviews |-> 0, byhand |-> 0, faults |-> 0]

ClockStep == Advance \/ NewDay

CycleStep == TradingEnds \/ ReviewCollects \/ ReviewAnswered \/ ReviewSaves \/ ReviewMakesRules

JobStep == PostMarket \/ PreChecks \/ PreLoads \/ PreExpires

Next ==
  \/ ClockStep \/ Crash \/ Restart \/ Boots \/ Triggered
  \/ CycleStep \/ JobStep \/ PreFails \/ GenStarts \/ GenEnds

Spec == Init /\ [][Next]_vars

\* Time passes, the scheduler fires its jobs and they run to their end; what
\* a review answers is the LLM's choice.
FairSpec ==
  /\ Spec
  /\ WF_vars(ClockStep) /\ WF_vars(Restart) /\ WF_vars(Boots)
  /\ WF_vars(CycleStep) /\ WF_vars(JobStep) /\ WF_vars(GenEnds)

-----------------------------------------------------------------------------

Rules == [key : Keys, kind : {"toggle", "override"}, val : 0..1, prio : Priorities,
          days : 1..5 \cup {Long}, src : {"review", "bootstrap"}, left : -1..Long]

TypeOK ==
  /\ phase \in {"morning", "open", "evening"} /\ due \in BOOLEAN
  /\ up \in {"no", "boot", "yes"}
  /\ pre \in [at : Pre, absent : SUBSET Checks]
  /\ rules \in Seq(Rules) /\ inforce \in Seq(Rules)
  /\ tuned \in [Params -> {unset, 0, 1}]
  /\ today \in {none, "plain", "review"}
  /\ cycle \in [at : {none, "trading", "collect", "llm", "save", "rules"},
                items : Reviews \cup {<<>>}]
  /\ gen \in [on : BOOLEAN, had : BOOLEAN, forced : BOOLEAN]
  /\ ~gen.on => gen = NoGen
  /\ cycle.items # <<>> => cycle.at \in {"save", "rules"}
  /\ pre.absent # {} => pre.at = "checked" /\ up = "yes"
  /\ spent \in [reviews : 0..MaxReviews, byhand : 0..MaxByHand, faults : 0..MaxFaults]

\* A review leaves one rule for a key: of the rules it makes, and of those of
\* the reviews before it, at most one of each key is active.
OneRulePerKey ==
  \A i, j \in DOMAIN rules :
    rules[i].src = "review" /\ rules[j].src = "review" /\ rules[i].key = rules[j].key
      => i = j

\* After the pre-market job the rules that it should have loaded are in
\* force: every active rule that has not expired, but for those a review has
\* made since (which still have all their days).
RulesInForce ==
  pre.at \in {"loaded", "done"} =>
    \A i \in DOMAIN rules :
      Valid(rules[i]) /\ (rules[i].left < rules[i].days \/ rules[i].src = "bootstrap")
        => rules[i] \in Range(inforce)

\* The active rules stay within their cap and the bootstrap rules: what a
\* review adds is trimmed, what the morning adds is not there twice.
ActiveBounded == Len(rules) <= MaxActive + Cardinality(Checks)

\* The table of rules is sound: whatever reviews, mornings, errors and crashes do
\* to it, its rows have their type, a key has one rule of the reviews, and the
\* active rules stay within their cap (trading_rules.py).
RulesSound == TypeOK /\ OneRulePerKey /\ ActiveBounded

\* A report made by hand replaces a review of the day only when it is forced
\* to, also when the review is saved while the report waits for the LLM.
UnforcedNeverReplaces ==
  [][today = "review" /\ today' = "plain" => gen.forced]_vars

\* A check that a rule has switched off, or that a restart has lost, is on
\* again some morning, once no review switches it off any more.
ChecksReturn == \A k \in Checks : ~CheckedFor(k) ~> CheckedFor(k)

\* Not promised by the code: a rule that has expired is no longer in force
\* after the pre-market job.  Without any rule to apply the job keeps those
\* of the day before.
NoneOutlasts ==
  pre.at = "done" => \A i \in DOMAIN inforce : Valid(inforce[i])

\* Not promised by the code: a parameter that no rule in force overrides has
\* the value the code gives it.
TunedByRules ==
  \A p \in Params : tuned[p] # unset => ValueOf(inforce, "override", p) = tuned[p]

\* Not promised by the code: a rule of a review is in force some morning
\* (trading_agent.py logs that the rules are applied tomorrow).
RulesApply ==
  [][\A i \in DOMAIN rules :
       rules[i].src = "review" /\ phase' # phase /\ phase = "evening"
         => \E j \in DOMAIN rules' : rules'[j].key = rules[i].key /\ Valid(rules'[j])]_vars

\* Not promised by the code: an evening that ends with the process up and no
\* failure has been reviewed.  The job is skipped while a cycle runs, and the
\* startup's review when there is a report by hand.
DayIsReviewed ==
  [][phase = "evening" /\ phase' = "morning" /\ up = "yes" /\ spent.faults = 0
       => today = "review"]_vars
=============================================================================
