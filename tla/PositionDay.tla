----------------------------- MODULE PositionDay -----------------------------
(***************************************************************************)
(* What the trading day does to the positions: the broker's holdings, the  *)
(* rows that record them, the stop levels in memory and the account cache. *)
(*                                                                         *)
(* The scheduler's jobs follow the clock: the check of the overnight       *)
(* positions before the market, reviews and sales in it, the liquidation,  *)
(* the evening review and the portfolio sync.  The mode is swing trading.  *)
(*                                                                         *)
(* A sale and its record are one step here (SellPaths and SellRecords take *)
(* them apart); a job that waits for the LLM keeps what it has read.       *)
(***************************************************************************)
EXTENDS Naturals, Sequences, FiniteSets, FiniteSetsExt

CONSTANTS
  Stocks,
  FailsSilently, \* a failed account read returns the cache or nothing (KIS)
                 \* instead of raising (Kiwoom)
  MaxShares,     \* bound: shares and open orders of a stock
  MaxBuys,       \* bound: buys, the program's and the user's own
  MaxCrashes     \* bound: crashes of the process

none == "none"

\* 09:00 opens the market, 15:20 the closing auction, 15:30 the evening.
Clock == <<"pre", "open", "auction", "evening">>
Phases == {Clock[i] : i \in DOMAIN Clock}

\* A level is 0 when it is not set, 1 from the buy, 2 from a review.
Lvls == 0..2

ASSUME PositionAssumption ==
  /\ IsFiniteSet(Stocks) /\ FailsSilently \in BOOLEAN
  /\ MaxShares \in Nat /\ MaxBuys \in Nat /\ MaxCrashes \in Nat

VARIABLES
  phase,  \* the clock
  done,   \* the jobs of this phase that have run, or were missed
  up,     \* the process runs
  held,   \* the broker's holdings
  order,  \* the BUY order of a stock, with what keeps track of it
  rows,   \* open confirmed BUY rows of a stock, the newest first
  exit,   \* the exit_reason of the row that was closed last
  level,  \* event_detector's levels
  cache,  \* account_manager's holdings
  task,   \* the review or liquidation that waits for the LLM
  spent   \* buys and crashes so far

market == <<phase, done, up>>
vars == <<market, held, order, rows, exit, level, cache, task, spent>>

NoOrder == [filled |-> FALSE, row |-> FALSE, watched |-> FALSE]
IsOrder(s) == order[s].row \/ order[s].watched
Kinds == {"review", "liquidation"}
NoTask == [todo |-> {}, view |-> <<>>]
NoTasks == [k \in Kinds |-> NoTask]

Nothing == [s \in Stocks |-> 0]

\* A snapshot is <<holdings>>, or <<>> when there is none or its read failed.
NoSnapshot == <<>>

-----------------------------------------------------------------------------
(* Rows.                                                                    *)

Total(r) == MapThenSumSet(LAMBDA i : r[i].qty, DOMAIN r)

\* What a sale of n shares leaves of the i-th row: the oldest are closed first.
Left(r, n, i) ==
  LET older == MapThenSumSet(LAMBDA j : r[j].qty, (i + 1)..Len(r))
  IN  r[i].qty - Min({r[i].qty, Max({n - older, 0})})

Closed(r, n) ==
  SelectSeq([i \in DOMAIN r |-> [r[i] EXCEPT !.qty = Left(r, n, i)]],
            LAMBDA x : x.qty > 0)

Row(q, l, priced) == [qty |-> q, lvl |-> l, priced |-> priced]

-----------------------------------------------------------------------------
(* account_manager.                                                         *)

InHours == phase \in {"open", "auction"}

\* A read of the broker that fails: Kiwoom's raises, KIS's gives what there is.
FailedView ==
  IF ~FailsSilently THEN NoSnapshot
  ELSE IF cache = NoSnapshot THEN <<Nothing>> ELSE cache

\* get_account_snapshot: what it may return, with the cache it leaves.
\* Out of hours a snapshot that is there is never read again.
Reads ==
  IF ~InHours /\ cache # NoSnapshot
    THEN {[view |-> cache, cache |-> cache]}
    ELSE {[view |-> <<held>>, cache |-> <<held>>],
          [view |-> FailedView, cache |-> cache]}

Seen(view) == {s \in Stocks : view # NoSnapshot /\ view[1][s] > 0}

-----------------------------------------------------------------------------
(* The clock and the process.                                               *)

Jobs(p) ==
  CASE p = "pre" -> {"overnight"}
    [] p = "open" -> {"liquidation"}
    [] p = "auction" -> {}
    [] p = "evening" -> {"review", "recover", "backfill", "repair"}

Due(j) == up /\ j \in Jobs(phase) \ done

NextPhase(p) == Clock[((CHOOSE i \in DOMAIN Clock : Clock[i] = p) % 4) + 1]

\* The cron jobs of a phase fire before it ends, when the process is up.
Advance ==
  /\ up => Jobs(phase) \subseteq done
  /\ phase' = NextPhase(phase) /\ done' = {}
  /\ UNCHANGED <<up, held, order, rows, exit, level, cache, task, spent>>

\* Memory is lost, and with it the order without a row: should it fill later,
\* the program sees what it sees after a purchase of the user.
Crash ==
  /\ up /\ spent.crashes < MaxCrashes
  /\ up' = FALSE
  /\ spent' = [spent EXCEPT !.crashes = @ + 1]
  /\ level' = [s \in Stocks |-> 0]
  /\ cache' = NoSnapshot /\ task' = NoTasks
  /\ order' = [s \in Stocks |-> IF order[s].row THEN [order[s] EXCEPT !.watched = FALSE]
                                                 ELSE NoOrder]
  /\ UNCHANGED <<phase, done, held, rows, exit>>

\* The times of some jobs may have passed.
Restart ==
  /\ ~up /\ up' = TRUE
  /\ \E missed \in SUBSET Jobs(phase) : done' = done \cup missed
  /\ UNCHANGED <<phase, held, order, rows, exit, level, cache, task, spent>>

-----------------------------------------------------------------------------
(* Buying.                                                                  *)

\* The analysis sets the levels; the order is placed; its pending row is
\* made, unless SQLite stays locked.
Buy(s) ==
  /\ up /\ phase = "open" /\ ~IsOrder(s)
  /\ held[s] < MaxShares /\ spent.buys < MaxBuys
  /\ spent' = [spent EXCEPT !.buys = @ + 1]
  /\ level' = [level EXCEPT ![s] = 1]
  /\ \E rowed \in BOOLEAN :
       order' = [order EXCEPT ![s] = [filled |-> FALSE, row |-> rowed, watched |-> TRUE]]
  /\ UNCHANGED <<market, held, rows, exit, cache, task>>

\* An order that lives into the auction may fill at its end.
Fills(s) ==
  /\ InHours /\ IsOrder(s) /\ ~order[s].filled
  /\ order' = [order EXCEPT ![s].filled = TRUE]
  /\ held' = [held EXCEPT ![s] = @ + 1]
  /\ UNCHANGED <<market, rows, exit, level, cache, task, spent>>

\* The user's own purchase, in any session of KRX or NXT.
OutsideBuy(s) ==
  /\ held[s] < MaxShares /\ ~IsOrder(s) /\ spent.buys < MaxBuys
  /\ spent' = [spent EXCEPT !.buys = @ + 1]
  /\ held' = [held EXCEPT ![s] = @ + 1]
  /\ UNCHANGED <<market, order, rows, exit, level, cache, task>>

Recorded(s, priced) == [rows EXCEPT ![s] = <<Row(1, 1, priced)>> \o @]

\* confirm_and_record: a fill becomes a row, at a price that may be unknown;
\* an order without a fill is cancelled, or stays when the cancel fails.
Confirm(s) ==
  /\ up /\ order[s].watched
  /\ IF order[s].filled
       THEN /\ \E priced \in BOOLEAN : rows' = Recorded(s, priced)
            /\ order' = [order EXCEPT ![s] = NoOrder]
       ELSE /\ \/ order' = [order EXCEPT ![s] = NoOrder]
               \/ order[s].row /\ order' = [order EXCEPT ![s].watched = FALSE]
            /\ UNCHANGED rows
  /\ UNCHANGED <<market, held, exit, level, cache, task, spent>>

-----------------------------------------------------------------------------
(* Selling.                                                                 *)

\* n shares are asked for; the broker sells what there is.
Sell(s, n) ==
  /\ held' = [held EXCEPT ![s] = @ - Min({n, @})]
  /\ rows' = [rows EXCEPT ![s] = Closed(@, Min({n, held[s]}))]
  /\ exit' = [exit EXCEPT ![s] = "sale"]
  /\ level' = [level EXCEPT ![s] = 0]

\* The holdings check, the gap check and the exit events.
CheckSells(s) ==
  /\ up /\ phase = "open"
  /\ \E r \in Reads :
       /\ s \in Seen(r.view) /\ held[s] > 0
       /\ Sell(s, r.view[1][s]) /\ cache' = r.cache
  /\ UNCHANGED <<market, order, task, spent>>

\* _collect_holdings_data: the holdings with a row, and those without.
Known(view) == {s \in Seen(view) : rows[s] # <<>>}
Bare(view) == {s \in Seen(view) : rows[s] = <<>>}

Asks(k, todo, view) ==
  task' = [task EXCEPT ![k] = IF todo = {} THEN NoTask ELSE [todo |-> todo, view |-> view]]

\* _intraday_holdings_review leaves the bare ones alone.
ReviewStarts ==
  /\ up /\ phase = "open" /\ task["review"] = NoTask
  /\ \E r \in Reads : Asks("review", Known(r.view), r.view) /\ cache' = r.cache
  /\ UNCHANGED <<market, held, order, rows, exit, level, spent>>

\* _smart_liquidation sells them, those alone without asking the LLM.
LiquidationStarts ==
  /\ Due("liquidation")
  /\ done' = done \cup {"liquidation"}
  /\ \E r \in Reads :
       /\ Asks("liquidation", Known(r.view) \cup Bare(r.view), r.view)
       /\ cache' = r.cache
  /\ UNCHANGED <<phase, up, held, order, rows, exit, level, spent>>

Answered(k, s) ==
  task' = [task EXCEPT ![k] = IF @.todo = {s} THEN NoTask ELSE [@ EXCEPT !.todo = @ \ {s}]]

\* The LLM, or the rule that replaces it, says SELL.
TaskSells(k, s) ==
  /\ up /\ InHours /\ s \in task[k].todo /\ Answered(k, s)
  /\ IF held[s] > 0 THEN Sell(s, task[k].view[1][s]) ELSE UNCHANGED <<held, rows, exit, level>>
  /\ UNCHANGED <<market, order, cache, spent>>

\* It says HOLD, or the sale fails.
TaskHolds(k, s) ==
  /\ up /\ s \in task[k].todo /\ Answered(k, s)
  /\ UNCHANGED <<market, held, order, rows, exit, level, cache, spent>>

\* A review says HOLD with other levels: memory first, then the newest row,
\* unless the database fails.
ReviewAdjusts(s) ==
  /\ up /\ s \in task["review"].todo /\ Answered("review", s)
  /\ level' = [level EXCEPT ![s] = 2]
  /\ \/ rows[s] # <<>> /\ rows' = [rows EXCEPT ![s][1].lvl = 2]
     \/ UNCHANGED rows
  /\ UNCHANGED <<market, held, order, exit, cache, spent>>

-----------------------------------------------------------------------------
(* The overnight check and the evening review.                              *)

\* Mutation: a read that fails shows no holdings.
OrphansOfNothing(view) ==
  {s \in Stocks : rows[s] # <<>> /\ s \notin Seen(view)}

\* Rows of stocks that the account does not show are closed; when the read
\* fails with an error, none is.
Orphans(view) ==
  IF view = NoSnapshot THEN {} ELSE {s \in Stocks : rows[s] # <<>> /\ view[1][s] = 0}

Clean(view) ==
  /\ rows' = [s \in Stocks |-> IF s \in Orphans(view) THEN <<>> ELSE rows[s]]
  /\ exit' = [s \in Stocks |-> IF s \in Orphans(view) THEN "orphan" ELSE exit[s]]

Levelled(r) == {i \in DOMAIN r : r[i].lvl > 0}

\* Mutation: only the newest row is looked at.
RestoredNewest(r, l) == IF r = <<>> \/ r[1].lvl = 0 THEN l ELSE r[1].lvl

\* The rows are taken newest first, so the oldest level is set last.
Restored(r, l) == IF Levelled(r) = {} THEN l ELSE r[Max(Levelled(r))].lvl

\* _check_overnight_positions, 08:50.
OvernightChecks ==
  /\ Due("overnight") /\ done' = done \cup {"overnight"}
  /\ \E r \in Reads :
       /\ Clean(r.view) /\ cache' = r.cache
       /\ level' = [s \in Stocks |-> Restored(rows'[s], level[s])]
  /\ UNCHANGED <<phase, up, held, order, task, spent>>

\* It fails at the database.
OvernightFails ==
  /\ Due("overnight") /\ done' = done \cup {"overnight"}
  /\ UNCHANGED <<phase, up, held, order, rows, exit, level, cache, task, spent>>

\* _run_after_hours_cycle as far as the positions go: by the job at 15:40, at
\* a start in the evening, or by hand.  It may be skipped or fail.
EveningReview ==
  /\ up /\ ~InHours
  /\ done' = IF phase = "evening" THEN done \cup {"review"} ELSE done
  /\ \/ \E r \in Reads : Clean(r.view) /\ cache' = r.cache
     \/ UNCHANGED <<rows, exit, cache>>
  /\ UNCHANGED <<phase, up, held, order, level, task, spent>>

-----------------------------------------------------------------------------
(* portfolio_sync_job, 16:00.  It asks the broker itself.                   *)

SyncStep(j, before) ==
  /\ phase = "evening" /\ Due(j) /\ before \subseteq done
  /\ done' = done \cup {j}
  /\ UNCHANGED <<phase, up, held, exit, level, cache, task, spent>>

\* _recover_pending_confirms.
SyncRecovers ==
  /\ SyncStep("recover", {})
  /\ \E priced \in BOOLEAN :
       rows' = [s \in Stocks |-> IF order[s].row /\ order[s].filled
                                   THEN Recorded(s, priced)[s] ELSE rows[s]]
  /\ order' = [s \in Stocks |-> IF order[s].row THEN NoOrder ELSE order[s]]

Missing(s) == IF held[s] > Total(rows[s]) THEN held[s] - Total(rows[s]) ELSE 0

\* Mutation: only a stock without any row is filled in.
BackfilledBare ==
  [s \in Stocks |-> IF rows[s] = <<>> /\ held[s] > 0 /\ ~order[s].row
                      THEN <<Row(held[s], 0, TRUE)>> ELSE rows[s]]

\* _backfill_missing_open_buys_from_holdings: a row without levels for the
\* shares that no row records, unless a pending row waits.
Backfilled ==
  [s \in Stocks |-> IF Missing(s) > 0 /\ ~order[s].row
                      THEN <<Row(Missing(s), 0, TRUE)>> \o rows[s] ELSE rows[s]]

SyncBackfills ==
  /\ SyncStep("backfill", {"recover"})
  /\ rows' = Backfilled
  /\ UNCHANGED order

Unpriced(s) == {i \in DOMAIN rows[s] : ~rows[s][i].priced}

\* _repair_confirmed_zero_entry_prices: the price follows from the average
\* price when the rows add up to the holding and nothing is pending.
Repairable(s) == ~order[s].row /\ held[s] > 0 /\ held[s] = Total(rows[s])

SyncRepairs ==
  /\ SyncStep("repair", {"recover", "backfill"})
  /\ rows' = [s \in Stocks |->
       IF Repairable(s) THEN [i \in DOMAIN rows[s] |-> [rows[s][i] EXCEPT !.priced = TRUE]]
                        ELSE rows[s]]
  /\ UNCHANGED order

\* A read of the broker fails: the step leaves everything as it is.
SyncFails ==
  /\ \/ SyncStep("recover", {})
     \/ SyncStep("backfill", {"recover"})
     \/ SyncStep("repair", {"recover", "backfill"})
  /\ UNCHANGED <<rows, order>>

-----------------------------------------------------------------------------
Init ==
  /\ phase = "pre" /\ done = {} /\ up = TRUE
  /\ held = Nothing /\ order = [s \in Stocks |-> NoOrder]
  /\ rows = [s \in Stocks |-> <<>>] /\ exit = [s \in Stocks |-> none]
  /\ level = Nothing /\ cache = NoSnapshot
  /\ task = NoTasks /\ spent = [buys |-> 0, crashes |-> 0]

TaskSteps(s) == (\E k \in Kinds : TaskSells(k, s) \/ TaskHolds(k, s)) \/ ReviewAdjusts(s)

Next ==
  \/ Advance \/ Crash \/ Restart
  \/ \E s \in Stocks : Buy(s) \/ Fills(s) \/ OutsideBuy(s) \/ Confirm(s) \/ CheckSells(s)
  \/ ReviewStarts \/ LiquidationStarts \/ \E s \in Stocks : TaskSteps(s)
  \/ OvernightChecks \/ OvernightFails \/ EveningReview
  \/ SyncRecovers \/ SyncBackfills \/ SyncRepairs \/ SyncFails

Spec == Init /\ [][Next]_vars

\* Time goes on, the process is started again, a job that is due runs and its
\* waits end; the broker and the database do not fail every day.
FairSpec ==
  /\ Spec
  /\ WF_vars(Advance) /\ WF_vars(Restart)
  /\ WF_vars(LiquidationStarts) /\ WF_vars(EveningReview /\ Due("review"))
  /\ \A s \in Stocks : WF_vars(Confirm(s)) /\ WF_vars(TaskSteps(s))
  /\ WF_vars(OvernightChecks \/ OvernightFails) /\ SF_vars(OvernightChecks)
  /\ WF_vars(SyncRecovers \/ SyncBackfills \/ SyncRepairs \/ SyncFails)
  /\ SF_vars(SyncRecovers) /\ SF_vars(SyncBackfills) /\ SF_vars(SyncRepairs)

-----------------------------------------------------------------------------
\* Every variable has its type.
TypeOK ==
  /\ phase \in Phases /\ done \subseteq UNION {Jobs(p) : p \in Phases} /\ up \in BOOLEAN
  /\ held \in [Stocks -> 0..(MaxShares + 1)]
  /\ order \in [Stocks -> [filled : BOOLEAN, row : BOOLEAN, watched : BOOLEAN]]
  /\ \A s \in Stocks : rows[s] \in Seq([qty : 1..(MaxShares + 1), lvl : Lvls, priced : BOOLEAN])
  /\ exit \in [Stocks -> {none, "sale", "orphan"}]
  /\ level \in [Stocks -> Lvls]
  /\ cache \in Seq([Stocks -> 0..(MaxShares + 1)]) /\ Len(cache) <= 1
  /\ \A k \in Kinds : task[k].todo \subseteq Stocks /\ Len(task[k].view) <= 1

\* The records never run ahead of the account for long: a row is closed as an
\* orphan only when the last snapshot the broker gave shows no share of the
\* stock, and never because a snapshot could not be had ("조회 실패 시 DB 그대로
\* 사용", _run_after_hours_cycle and _check_overnight_positions).
OrphansUnseen ==
  [][\A s \in Stocks :
       exit[s] # "orphan" /\ exit'[s] = "orphan" => cache' # NoSnapshot /\ cache'[1][s] = 0]_vars

\* A share the broker holds and no row records, after a lost row, a crash or a
\* purchase of the user, gets one from the sync of one of the next evenings,
\* also when the stock has other rows, or it is sold.
RowsReturn ==
  \A s \in Stocks : held[s] > Total(rows[s]) ~> held[s] <= Total(rows[s])

\* An open row whose buy had a stop, of a stock without one in memory after a
\* restart or a partial sale, has it restored on one of the next mornings, or
\* is closed.
LevelsReturn ==
  \A s \in Stocks : Levelled(rows[s]) # {} ~> level[s] > 0 \/ Levelled(rows[s]) = {}

\* A row that was confirmed at price 0 gets its price or is closed, when the
\* rows do not record more shares than the broker holds: pending rows and
\* missing shares do not put the sync's repair off for ever.
PricesReturn ==
  \A s \in Stocks : Unpriced(s) # {} ~> Unpriced(s) = {} \/ Total(rows[s]) > held[s]

\* What a review decided for the newest row is the level of the next day.
AdjustedKept ==
  [][\A s \in Stocks : level[s] = 2 /\ level'[s] = 1 => order'[s].watched]_vars

\* Only rows of stocks that are not held are closed as orphans.
OnlyGoneAreOrphaned ==
  [][\A s \in Stocks : exit[s] # "orphan" /\ exit'[s] = "orphan" => held[s] = 0]_vars

\* A stock that is held in the market has a level in memory.
HeldHaveLevels == \A s \in Stocks : up /\ phase = "open" /\ Levelled(rows[s]) # {} => level[s] > 0
=============================================================================
