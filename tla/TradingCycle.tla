---------------------------- MODULE TradingCycle ----------------------------
(***************************************************************************)
(* One trading cycle of agent/trading_agent.py: a portfolio snapshot, a    *)
(* market scan, and one analysis task per selected candidate.  The tasks   *)
(* run concurrently under a semaphore, and every await of                  *)
(* _analyze_and_trade is a point where another task may run.  What they    *)
(* share is the cycle's OrderReservationLedger (agent/order_reservation.py)*)
(* and the cash the broker still holds for the account.                    *)
(***************************************************************************)
EXTENDS Integers, FiniteSets

CONSTANTS
  Candidates,     \* the candidates a scan may select
  MaxCash,        \* bound: cash at the broker is in 0 .. MaxCash
  Prices,         \* share prices that occur, as a set of positive integers
  Quantities,     \* share quantities an analysis may propose, positive
  MinQty,         \* MIN_BUY_QUANTITY
  MaxConcurrent,  \* llm_factory.analysis_concurrency_limit()
  Enforce,        \* ORDER_RESERVATION_ENFORCEMENT = "ENFORCE" (else SHADOW)
  MarketMode,     \* BUY_ORDER_EXECUTION_MODE = "MARKET" (else LIMIT_GUARD)
  BrokerMayRaise, \* the adapter may raise while an order is being placed
  MaxDaily,       \* the daily trade limit in force, 0 for none
  MaxCycles       \* bound: cycles started in one behaviour

ASSUME CycleAssumption ==
  /\ IsFiniteSet(Candidates)
  /\ MaxCash \in Nat /\ MaxDaily \in Nat /\ MaxCycles \in Nat
  /\ Prices \subseteq Nat \ {0} /\ Prices # {}
  /\ Quantities \subseteq Nat \ {0}
  /\ MinQty \in Nat \ {0} /\ MaxConcurrent \in Nat \ {0}
  /\ Enforce \in BOOLEAN /\ MarketMode \in BOOLEAN /\ BrokerMayRaise \in BOOLEAN

VARIABLES
  phase,       \* "idle", "scanning" or "analysing": where run_cycle stands
  cycles,      \* cycles started
  startCash,   \* snapshot["cash"], the ledger's starting_cash
  held,        \* candidates in snapshot["holding_symbols"]
  pc,          \* where the task of a candidate stands
  quote,       \* current_price the task fetched, 0 when it has none
  side,        \* signal.action of the task
  price,       \* signal.suggested_price, 0 for None (a market order)
  qty,         \* signal.suggested_quantity
  resv,        \* amount of the candidate's reservation, 0 when it has none
  active,      \* whether that reservation is still active
  cost,        \* what the candidate's BUY commits, known to be accepted
  brokerCash   \* cash the broker holds for the account

taskVars   == <<quote, side, price, qty>>
ledgerVars == <<startCash, resv, active>>
vars == <<phase, cycles, startCash, held, pc, quote, side, price, qty,
          resv, active, cost, brokerCash>>

Steps    == {"waiting", "fetch", "tier1", "tier2", "gate", "risk", "power",
             "submit"}
Outcomes == {"none", "skipped", "refused", "sent", "unsent", "raised"}

\* Variant of Running: a finished task keeps its slot.
RunningWithFinished == {c \in Candidates : pc[c] \notin {"none", "waiting"}}

\* Tasks inside the semaphore.
Running == {c \in Candidates : pc[c] \in Steps \ {"waiting"}}

-----------------------------------------------------------------------------
(* The ledger.  Cash is counted in won: a reservation of n won is the set of *)
(* its n coins, so that sums over reservations are cardinalities.            *)

\* Variant: a released reservation keeps counting.
ReservedCoinsEver == UNION {{c} \X (1 .. resv[c]) : c \in Candidates}

ReservedCoins ==
  UNION {{c} \X (1 .. resv[c]) : c \in {d \in Candidates : active[d]}}

available_cash == LET left == startCash - Cardinality(ReservedCoins)
                  IN  IF left > 0 THEN left ELSE 0

\* Variant: the amount is not compared with the available cash.
ApprovedUnchecked(amount, quantity) == amount > 0 /\ quantity > 0

\* OrderReservationLedger.reserve approves a positive amount and quantity that
\* the available cash covers ...
Approved(amount, quantity) ==
  amount > 0 /\ quantity > 0 /\ amount <= available_cash

\* ... and then records the reservation of candidate c.
Reserve(c, amount, quantity) ==
  IF Approved(amount, quantity)
  THEN /\ resv' = [resv EXCEPT ![c] = amount]
       /\ active' = [active EXCEPT ![c] = TRUE]
  ELSE UNCHANGED <<resv, active>>

\* OrderReservationLedger.release: a no-op unless the reservation is active.
Release(c) == active' = [active EXCEPT ![c] = FALSE]

\* _get_today_trade_count counts Order rows with status FILLED; no code path
\* writes that status, so the count a snapshot carries is always 0.
TodayTradeCount == 0

-----------------------------------------------------------------------------
Init ==
  /\ phase = "idle" /\ cycles = 0 /\ startCash = 0 /\ held = {}
  /\ pc     = [c \in Candidates |-> "none"]
  /\ quote  = [c \in Candidates |-> 0]
  /\ side   = [c \in Candidates |-> "NONE"]
  /\ price  = [c \in Candidates |-> 0]
  /\ qty    = [c \in Candidates |-> 0]
  /\ resv   = [c \in Candidates |-> 0]
  /\ active = [c \in Candidates |-> FALSE]
  /\ cost   = [c \in Candidates |-> 0]
  /\ brokerCash \in 0 .. MaxCash

\* What _build_portfolio_snapshot answers: the account's cash and holdings or,
\* after an exception, the default of neither.
Snapshots == ({brokerCash} \X SUBSET Candidates) \cup {<<0, {}>>}

\* run_cycle passes the lock and takes the snapshot.  An invalid balance, the
\* RuntimeError, ends the cycle and changes nothing here.
TakeSnapshot ==
  /\ phase = "idle" /\ cycles < MaxCycles
  /\ phase' = "scanning" /\ cycles' = cycles + 1
  /\ \E s \in Snapshots : startCash' = s[1] /\ held' = s[2]
  /\ pc'     = [c \in Candidates |-> "none"]
  /\ resv'   = [c \in Candidates |-> 0]
  /\ active' = [c \in Candidates |-> FALSE]
  /\ cost'   = [c \in Candidates |-> 0]
  /\ UNCHANGED <<taskVars, brokerCash>>

\* What market_scanner.scan selects: the model's choice among the ranked stocks,
\* less the ones the cash cannot buy; nothing when the model or its answer fails.
Selections == SUBSET Candidates

\* The ledger is created and the selected tasks are gathered; a scan without a
\* selection ends the cycle.
Scan ==
  /\ phase = "scanning"
  /\ \E chosen \in Selections :
       /\ phase' = IF chosen = {} THEN "idle" ELSE "analysing"
       /\ pc' = [c \in Candidates |-> IF c \in chosen THEN "waiting" ELSE "none"]
  /\ UNCHANGED <<cycles, ledgerVars, held, taskVars, cost, brokerCash>>

\* Task locals are dead once the task has returned.
EndTask(c, outcome) ==
  /\ pc'    = [pc EXCEPT ![c] = outcome]
  /\ quote' = [quote EXCEPT ![c] = 0]
  /\ side'  = [side EXCEPT ![c] = "NONE"]
  /\ price' = [price EXCEPT ![c] = 0]
  /\ qty'   = [qty EXCEPT ![c] = 0]

Advance(c, step) == pc' = [pc EXCEPT ![c] = step]

cycleVars == <<phase, cycles, held, cost, brokerCash>>

\* _analyze_with_limit: the semaphore, then for a BUY-side candidate that is
\* not held the buying power query, which may fail and then lets it pass.
Admit(c) ==
  /\ phase = "analysing" /\ pc[c] = "waiting"
  /\ Cardinality(Running) < MaxConcurrent
  /\ \/ Advance(c, "fetch") /\ UNCHANGED taskVars
     \/ /\ c \notin held
        /\ \E p \in Prices : brokerCash \div p < MinQty
        /\ EndTask(c, "skipped")
  /\ UNCHANGED <<cycleVars, ledgerVars>>

\* The quote of _fetch_symbol_market_data, 0 when the broker's call has failed.
FetchedPrices == Prices \cup {0}

\* The consecutive-loss rule, the market data and the affordability screen.
Fetch(c) ==
  /\ pc[c] = "fetch"
  /\ \/ \E p \in FetchedPrices :
          /\ c \notin held /\ p > 0 => startCash >= p * MinQty
          /\ quote' = [quote EXCEPT ![c] = p]
          /\ Advance(c, "tier1")
          /\ UNCHANGED <<side, price, qty>>
     \/ EndTask(c, "skipped")
  /\ UNCHANGED <<cycleVars, ledgerVars>>

\* What _tier1_analysis answers; "NONE" after a failure or two answers that do
\* not parse.
Tier1Answers == {"BUY", "SELL", "HOLD", "NONE"}

\* What the trading-rule gates may hold against an answer: too little confidence in a
\* purchase, a poor reward for the risk, no stop loss, or too few shares to be had.
RuleFlaws(c, answer) ==
  {"reward"} \cup (IF answer = "BUY" /\ c \notin held THEN {"confidence"} ELSE {})
             \cup (IF answer = "BUY" THEN {"stop", "quantity"} ELSE {})

\* Tier-1 analysis: a BUY, or a SELL of a holding, goes on unless the rules find a
\* flaw in it.
Tier1(c) ==
  /\ pc[c] = "tier1"
  /\ \E answer \in Tier1Answers :
       IF answer = "BUY" \/ (answer = "SELL" /\ c \in held)
       THEN \/ Advance(c, "tier2") /\ UNCHANGED taskVars
            \/ RuleFlaws(c, answer) # {} /\ EndTask(c, "skipped")
       ELSE EndTask(c, "skipped")
  /\ UNCHANGED <<cycleVars, ledgerVars>>

\* What _tier2_review approves, with or without a price and a quantity of its own
\* (0 for none).
Approvals == [action : {"BUY", "SELL"}, price : Prices \cup {0},
              qty : Quantities \cup {0}]

\* Tier-2 review and the signal made of an approval or, where that leaves a number
\* out, of the strategy's; a refusal or a strategy's HOLD ends the task.
Tier2(c) ==
  /\ pc[c] = "tier2"
  /\ \/ /\ \E a \in Approvals :
             /\ side'  = [side EXCEPT ![c] = a.action]
             /\ price' = [price EXCEPT ![c] = a.price]
             /\ qty'   = [qty EXCEPT ![c] = a.qty]
        /\ Advance(c, "gate")
        /\ UNCHANGED quote
     \/ EndTask(c, "skipped")
  /\ UNCHANGED <<cycleVars, ledgerVars>>

\* _evaluate_cost_gate: without a target above the entry there is no edge to judge.
CostGate(edge) == edge \in {"unknown", "pays"}

\* evaluate_gate: the negative pressure of the news is below the threshold.
evaluate_gate(pressure) == pressure = "low"

\* _evaluate_news_gate: a query that fails passes the BUY.
NewsGate(pressure) == pressure = "unknown" \/ evaluate_gate(pressure)

\* A BUY has to pass both gates; a SELL needs a snapshot holding, whose quantity
\* replaces the proposed one.
Gate(c) ==
  /\ pc[c] = "gate"
  /\ \/ /\ side[c] = "BUY"
        /\ \E edge \in {"unknown", "pays", "costs"},
              pressure \in {"unknown", "low", "high"} :
             IF CostGate(edge) /\ NewsGate(pressure)
             THEN Advance(c, "risk") /\ UNCHANGED taskVars
             ELSE EndTask(c, "skipped")
     \/ /\ side[c] = "SELL" /\ c \in held
        /\ \E q \in Quantities : qty' = [qty EXCEPT ![c] = q]
        /\ Advance(c, "risk")
        /\ UNCHANGED <<quote, side, price>>
     \/ side[c] = "SELL" /\ EndTask(c, "skipped")
  /\ UNCHANGED <<cycleVars, ledgerVars>>

\* The quantities RiskManager.check may approve for a BUY: a limit that cuts the
\* quantity, to at least MinQty, is the last one looked at; a quantity that no
\* limit cuts fits the cash of the snapshot.
ApprovedQuantities(c) ==
  {q \in MinQty .. qty[c] : q < qty[c]}
    \cup {q \in {qty[c]} : startCash > 0 /\ price[c] * q <= startCash}

\* RiskManager.check: a SELL passes; a BUY needs a price and a quantity, and the
\* trading guard, the daily limit or a limit that leaves too little rejects it.
RiskCheck(c) ==
  /\ pc[c] = "risk"
  /\ \/ side[c] = "SELL" /\ Advance(c, "submit") /\ UNCHANGED taskVars
     \/ /\ side[c] = "BUY"
        /\ price[c] > 0 /\ qty[c] > 0
        /\ MaxDaily > 0 => TodayTradeCount < MaxDaily
        /\ \E q \in ApprovedQuantities(c) : qty' = [qty EXCEPT ![c] = q]
        /\ Advance(c, "power")
        /\ UNCHANGED <<quote, side, price>>
     \/ side[c] = "BUY" /\ EndTask(c, "skipped")
  /\ UNCHANGED <<cycleVars, ledgerVars>>

\* _apply_buy_execution_policy: a MARKET order carries no price.
ExecutionPrice(c) == IF MarketMode THEN 0 ELSE price[c]

\* The quantities a BUY may leave the buying power query with: the query
\* fails and changes nothing, or caps the quantity by what the cash buys.
CappedQuantities(c) ==
  {qty[c]} \cup
    {IF n < qty[c] THEN n ELSE qty[c] :
       n \in {m \in {brokerCash \div p :
                      p \in IF quote[c] > 0 THEN {quote[c]} ELSE Prices} :
               m >= MinQty}}

\* _reserve_buy_cash_for_cycle for q shares at price p: in ENFORCE mode a refused
\* reservation ends the task, in SHADOW mode the order goes on without one.
ReserveForCycle(c, p, q) ==
  /\ Reserve(c, p * q, q)
  /\ IF Approved(p * q, q) \/ ~Enforce
     THEN /\ Advance(c, "submit")
          /\ price' = [price EXCEPT ![c] = p] /\ qty' = [qty EXCEPT ![c] = q]
          /\ UNCHANGED <<quote, side>>
     ELSE EndTask(c, "refused")

\* The buying power query, and with no await in between the execution policy
\* and the reservation.
PowerAndReserve(c) ==
  /\ pc[c] = "power"
  /\ \/ \E q \in CappedQuantities(c) : ReserveForCycle(c, ExecutionPrice(c), q)
     \/ EndTask(c, "skipped") /\ UNCHANGED <<resv, active>>
  /\ UNCHANGED <<cycleVars, startCash>>

\* Variant: the reservation is released as soon as the order is accepted.
SubmitAcceptedReleases(c) ==
  /\ pc[c] = "submit" /\ side[c] = "BUY" /\ price[c] * qty[c] <= brokerCash
  /\ brokerCash' = brokerCash - price[c] * qty[c]
  /\ cost' = [cost EXCEPT ![c] = price[c] * qty[c]]
  /\ EndTask(c, "sent")
  /\ Release(c)
  /\ UNCHANGED <<phase, cycles, held, startCash, resv>>

\* decision_maker.execute answers success: the broker has accepted the order
\* and, for a BUY, holds its cash back.
SubmitAccepted(c) ==
  /\ pc[c] = "submit"
  /\ IF side[c] = "BUY"
     THEN \E p \in IF price[c] > 0 THEN {price[c]} ELSE Prices :
            /\ p * qty[c] <= brokerCash
            /\ brokerCash' = brokerCash - p * qty[c]
            /\ cost' = [cost EXCEPT ![c] = p * qty[c]]
     ELSE UNCHANGED <<brokerCash, cost>>
  /\ EndTask(c, "sent")
  /\ UNCHANGED <<phase, cycles, held, ledgerVars>>

\* Variant: the reservation of an order that was not submitted is kept.
SubmitRefusedKeeps(c) ==
  /\ pc[c] = "submit"
  /\ EndTask(c, "unsent")
  /\ UNCHANGED <<cycleVars, ledgerVars>>

\* execute answers without success: a submission gate, a pending BUY of the
\* symbol or the broker refused it, and the reservation is released.
SubmitRefused(c) ==
  /\ pc[c] = "submit"
  /\ EndTask(c, "unsent")
  /\ Release(c)
  /\ UNCHANGED <<cycleVars, startCash, resv>>

\* execute answers without success because the broker's answer is lost, although
\* the broker has accepted the BUY: the reservation is released, the cash gone.
SubmitLost(c) ==
  /\ pc[c] = "submit" /\ side[c] = "BUY"
  /\ \E p \in IF price[c] > 0 THEN {price[c]} ELSE Prices :
       p * qty[c] <= brokerCash /\ brokerCash' = brokerCash - p * qty[c]
  /\ EndTask(c, "unsent")
  /\ Release(c)
  /\ UNCHANGED <<phase, cycles, held, cost, startCash, resv>>

\* execute raises (the Kiwoom adapter reads holdings before it orders, and
\* that read can raise): the exception leaves _analyze_and_trade before the
\* release and gather collects it.
SubmitRaises(c) ==
  /\ BrokerMayRaise /\ pc[c] = "submit"
  /\ EndTask(c, "raised")
  /\ UNCHANGED <<cycleVars, ledgerVars>>

\* gather has all results and the cycle lock is released.
FinishCycle ==
  /\ phase = "analysing"
  /\ \A c \in Candidates : pc[c] \in Outcomes
  /\ phase' = "idle"
  /\ UNCHANGED <<cycles, ledgerVars, held, pc, taskVars, cost, brokerCash>>

\* Event-driven orders, fills, deposits: the account's cash moves by itself.
CashMoves ==
  /\ brokerCash' \in 0 .. MaxCash
  /\ UNCHANGED <<phase, cycles, ledgerVars, held, pc, taskVars, cost>>

Task(c) ==
  \/ Admit(c) \/ Fetch(c) \/ Tier1(c) \/ Tier2(c) \/ Gate(c) \/ RiskCheck(c)
  \/ PowerAndReserve(c) \/ SubmitAccepted(c) \/ SubmitRefused(c)
  \/ SubmitLost(c) \/ SubmitRaises(c)

Next ==
  \/ TakeSnapshot \/ Scan \/ FinishCycle \/ CashMoves
  \/ \E c \in Candidates : Task(c)

Spec == Init /\ [][Next]_vars

\* The event loop keeps running: every model, broker and database call of a
\* task returns or times out.  CashMoves and TakeSnapshot are not fair.
FairSpec ==
  /\ Spec
  /\ WF_vars(Scan) /\ WF_vars(FinishCycle)
  /\ \A c \in Candidates : WF_vars(Task(c))

-----------------------------------------------------------------------------
(* Properties.                                                               *)

\* What the BUY orders of the cycle known to be accepted commit, in coins.
SpentCoins == UNION {{c} \X (1 .. cost[c]) : c \in Candidates}

\* Type invariant of the cycle, its tasks and the ledger.
TypeOK ==
  /\ phase \in {"idle", "scanning", "analysing"}
  /\ cycles \in Nat /\ startCash \in Nat /\ brokerCash \in Nat
  /\ held \subseteq Candidates
  /\ pc \in [Candidates -> Steps \cup Outcomes]
  /\ quote \in [Candidates -> Nat]
  /\ side \in [Candidates -> {"NONE", "BUY", "SELL"}]
  /\ price \in [Candidates -> Nat]
  /\ qty \in [Candidates -> Nat]
  /\ resv \in [Candidates -> Nat]
  /\ active \in [Candidates -> BOOLEAN]
  /\ cost \in [Candidates -> Nat]

\* However the tasks interleave their reserve and release calls, the active
\* reservations never exceed the cash the cycle started with.
ReservedWithinCash == Cardinality(ReservedCoins) <= startCash

\* In ENFORCE mode the BUY orders of one cycle that are known to be accepted
\* commit no more than the cash of its snapshot: the amount reserved is the amount
\* ordered, and nothing is released once the order is known to be accepted.
SpendWithinCash == Enforce => Cardinality(SpentCoins) <= startCash

\* A task that has returned without an accepted order holds no reservation: the
\* cash it had reserved is available to the tasks still running.  Only a task
\* that an exception has ended keeps one.
ReservationSettled ==
  \A c \in Candidates : pc[c] \in Outcomes \ {"sent", "raised"} => ~active[c]

\* The ledger refuses a BUY only for cash: either another candidate holds a
\* reservation or the order the risk check approved exceeds the cycle's cash.
RefusedOnlyForCash ==
  [][\A c \in Candidates :
        pc[c] # "refused" /\ pc'[c] = "refused"
          => \/ \E d \in Candidates \ {c} : active[d]
             \/ price[c] * qty[c] > startCash]_vars

\* A cycle that has started its analysis tasks ends: no task keeps the
\* semaphore or the cycle lock for ever.
CycleEnds == (phase = "analysing") ~> (phase = "idle")

=============================================================================
