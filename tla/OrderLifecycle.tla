--------------------------- MODULE OrderLifecycle ---------------------------
(***************************************************************************)
(* The life of the orders of one symbol, from DecisionMaker.execute to a   *)
(* settled TradeResult row (agent/decision_maker.py).  Each order is a     *)
(* coroutine whose awaits are the steps below; the exchange fills, expires *)
(* and cancels orders between any two of them, other trades (exits, manual *)
(* orders) change the holding, the process may crash, and the recovery job *)
(* (scheduler/jobs/portfolio_sync_job.py, also reachable from the admin    *)
(* API) rewrites pending rows while confirm tasks are still running.       *)
(***************************************************************************)
EXTENDS Integers, FiniteSets

CONSTANTS
  Orders,       \* orders the process may try to place for the symbol
  MaxQty,       \* bound: an order is for 1 .. MaxQty shares
  MaxHeld,      \* bound: shares of the symbol the account may hold at a broker
  Brokers,      \* the brokers the process may be set up with
  OtherTrades,  \* those whose account is also traded by exits and by hand
  ReadsFail,    \* broker and database calls may fail
  RecoveryOn,   \* the recovery job and the stale cleanup run
  MaxCrashes    \* bound: restarts of the process

ASSUME OrderAssumption ==
  /\ IsFiniteSet(Orders)
  /\ MaxQty \in Nat \ {0} /\ MaxHeld \in [Brokers -> Nat] /\ MaxCrashes \in Nat
  /\ Brokers \subseteq {"kis", "kiwoom"} /\ OtherTrades \subseteq Brokers
  /\ ReadsFail \in BOOLEAN /\ RecoveryOn \in BOOLEAN

VARIABLES
  side, ordered,    \* what an order asks for; fixed once chosen
  broker,           \* settings.BROKER_PROVIDER
  live, filled,     \* at the broker: still working, and shares filled
  held,             \* at the broker: shares of the symbol in the account
  pc,               \* where the coroutine of an order stands
  baseline,         \* _SubmittedOrderMeta.baseline_qty (Kiwoom)
  tracked,          \* the confirm task has a pending_record_id
  seen,             \* filled quantity the confirm task has been told
  status, recorded, \* TradeResult.status ("NONE": no row) and .quantity
  recovery,         \* the recovery job: which reads it has made, and their results
  crashes           \* restarts so far

orderVars  == <<side, ordered, broker>>
brokerVars == <<live, filled, held>>
taskVars   == <<pc, baseline, tracked, seen>>
rowVars    == <<status, recorded>>
vars == <<orderVars, brokerVars, taskVars, rowVars, recovery, crashes>>

Steps    == {"idle", "gate", "baseline", "place", "row", "poll", "write",
             "failing", "cancel", "done"}
Statuses == {"NONE", "PENDING_CONFIRM", "CONFIRMED", "CONFIRM_FAILED"}

Unlisted == -1   \* an order that is not among the pending orders read
Resting  == [have |-> {}, rows |-> {},
             listed |-> [o \in Orders |-> Unlisted], holding |-> 0]

Kiwoom == broker = "kiwoom"

Smaller(a, b) == IF a < b THEN a ELSE b
Positive(n)   == IF n > 0 THEN n ELSE 0

Go(o, step) == pc' = [pc EXCEPT ![o] = step]

\* The coroutine returns, and its locals are gone.
Ends(o) ==
  /\ Go(o, "done")
  /\ baseline' = [baseline EXCEPT ![o] = 0] /\ seen' = [seen EXCEPT ![o] = 0]
  /\ tracked' = [tracked EXCEPT ![o] = FALSE]

-----------------------------------------------------------------------------
Init ==
  /\ side \in [Orders -> {"BUY", "SELL"}] /\ ordered \in [Orders -> 1 .. MaxQty]
  /\ live = [o \in Orders |-> FALSE] /\ filled = [o \in Orders |-> 0]
  /\ broker \in Brokers /\ held \in 0 .. MaxHeld[broker]
  /\ pc = [o \in Orders |-> "idle"]
  /\ baseline = [o \in Orders |-> 0] /\ seen = [o \in Orders |-> 0]
  /\ tracked = [o \in Orders |-> FALSE]
  /\ status = [o \in Orders |-> "NONE"] /\ recorded = [o \in Orders |-> 0]
  /\ recovery = Resting /\ crashes = 0

(* _execute_autonomous.                                                      *)

\* The step after the checks: Kiwoom reads the holding before it orders.
Placing == IF Kiwoom THEN "baseline" ELSE "place"

\* execute is called and the submission mode allows the order.
Execute(o) ==
  /\ pc[o] = "idle"
  /\ Go(o, IF side[o] = "BUY" THEN "gate" ELSE Placing)
  /\ UNCHANGED <<orderVars, brokerVars, baseline, tracked, seen, rowVars,
                 recovery, crashes>>

\* Orders _find_existing_pending_buy returns for the symbol.
PendingBuys == {d \in Orders : side[d] = "BUY" /\ live[d]}

\* A pending BUY of the symbol blocks the order; a failed query does not.
Gate(o) ==
  /\ pc[o] = "gate"
  /\ \/ PendingBuys = {} /\ Go(o, Placing)
     \/ PendingBuys # {} /\ Go(o, "done")
     \/ ReadsFail /\ Go(o, Placing)
  /\ UNCHANGED <<orderVars, brokerVars, baseline, tracked, seen, rowVars,
                 recovery, crashes>>

\* KiwoomAdapter.place_order reads the holding; a failure raises out of execute.
ReadBaseline(o) ==
  /\ pc[o] = "baseline"
  /\ \/ baseline' = [baseline EXCEPT ![o] = held] /\ Go(o, "place")
     \/ ReadsFail /\ Go(o, "done") /\ UNCHANGED baseline
  /\ UNCHANGED <<orderVars, brokerVars, tracked, seen, rowVars, recovery, crashes>>

\* Shares the working SELL orders have spoken for.
SpokenFor ==
  Cardinality(UNION {{d} \X (1 .. ordered[d] - filled[d]) :
                     d \in {e \in Orders : side[e] = "SELL" /\ live[e]}})

\* The broker accepts the order, rejects it, or accepts it and the answer is
\* lost, which the caller cannot tell from a rejection.
Place(o) ==
  /\ pc[o] = "place"
  /\ \/ /\ side[o] = "SELL" => ordered[o] + SpokenFor <= held
        /\ live' = [live EXCEPT ![o] = TRUE]
        /\ \/ Go(o, "row") /\ UNCHANGED <<baseline, tracked, seen>>
           \/ ReadsFail /\ Ends(o)
     \/ Ends(o) /\ UNCHANGED live
  /\ UNCHANGED <<orderVars, filled, held, rowVars, recovery, crashes>>

\* _create_pending_record, then the confirm task is spawned; a database error
\* leaves it without a pending_record_id.
CreateRow(o) ==
  /\ pc[o] = "row"
  /\ \/ /\ status' = [status EXCEPT ![o] = "PENDING_CONFIRM"]
        /\ recorded' = [recorded EXCEPT ![o] = ordered[o]]
        /\ tracked' = [tracked EXCEPT ![o] = TRUE]
     \/ ReadsFail /\ UNCHANGED <<status, recorded, tracked>>
  /\ Go(o, "poll")
  /\ UNCHANGED <<orderVars, brokerVars, baseline, seen, recovery, crashes>>

(* confirm_and_record.                                                       *)

\* The quantity of an order in KIS's list of the day's orders, filled or not.
ReportedByKis(o) == filled[o]

\* Variant: the baseline is not subtracted.
ReportedWithoutBaseline(o) ==
  IF ~Kiwoom \/ live[o] THEN filled[o]
  ELSE Smaller(ordered[o], IF side[o] = "BUY" THEN held
                           ELSE Positive(baseline[o] - held))

\* What get_order_status says was filled, 0 for an order it does not find:
\* KIS looks the order up; Kiwoom does so while the order is pending and
\* afterwards infers the quantity from what the holding has moved.
Reported(o) ==
  IF ~Kiwoom THEN ReportedByKis(o)
  ELSE IF live[o] THEN filled[o]
  ELSE Smaller(ordered[o], IF side[o] = "BUY" THEN Positive(held - baseline[o])
                           ELSE Positive(baseline[o] - held))

\* KIS answers a failed query with None, Kiwoom raises.
Poll(o) ==
  /\ pc[o] = "poll"
  /\ \/ /\ seen' = [seen EXCEPT ![o] = Reported(o)]
        /\ Go(o, IF Reported(o) > 0 THEN "write" ELSE "cancel")
     \/ ReadsFail /\ Go(o, IF Kiwoom THEN "failing" ELSE "cancel")
        /\ UNCHANGED seen
  /\ UNCHANGED <<orderVars, brokerVars, baseline, tracked, rowVars, recovery,
                 crashes>>

\* _confirm_pending_record or _record_trade_result writes what was seen, in one
\* transaction and without a look at the row's status.  A SELL without a
\* pending row closes open lots and leaves a row of its own only when there
\* are none.  A database error is swallowed.
WriteRow(o) ==
  /\ pc[o] = "write"
  /\ \/ /\ status' = [status EXCEPT ![o] = "CONFIRMED"]
        /\ recorded' = [recorded EXCEPT ![o] = seen[o]]
     \/ /\ ReadsFail \/ (side[o] = "SELL" /\ ~tracked[o])
        /\ UNCHANGED rowVars
  /\ Ends(o)
  /\ UNCHANGED <<orderVars, brokerVars, recovery, crashes>>

\* _cancel_unfilled_order: the cancel may come too late or be refused; the row
\* stays as it is.
CancelUnfilled(o) ==
  /\ pc[o] = "cancel"
  /\ live' = [live EXCEPT ![o] = FALSE] \/ UNCHANGED live
  /\ Ends(o)
  /\ UNCHANGED <<orderVars, filled, held, rowVars, recovery, crashes>>

\* Variant: the row is failed whatever its status.
MarkFailedAlways(o) ==
  /\ pc[o] = "failing"
  /\ IF tracked[o] THEN status' = [status EXCEPT ![o] = "CONFIRM_FAILED"]
     ELSE UNCHANGED status
  /\ Ends(o)
  /\ UNCHANGED <<orderVars, brokerVars, recorded, recovery, crashes>>

\* _mark_pending_failed: only a row that is still pending is failed.
MarkFailed(o) ==
  /\ pc[o] = "failing"
  /\ IF tracked[o] /\ status[o] = "PENDING_CONFIRM"
     THEN \/ status' = [status EXCEPT ![o] = "CONFIRM_FAILED"]
          \/ ReadsFail /\ UNCHANGED status
     ELSE UNCHANGED status
  /\ Ends(o)
  /\ UNCHANGED <<orderVars, brokerVars, recorded, recovery, crashes>>

Task(o) ==
  \/ Execute(o) \/ Gate(o) \/ ReadBaseline(o) \/ Place(o) \/ CreateRow(o)
  \/ Poll(o) \/ WriteRow(o) \/ CancelUnfilled(o) \/ MarkFailed(o)

-----------------------------------------------------------------------------
(* The broker and the process.                                               *)

\* The exchange fills n shares of a working order.
Fill(o) ==
  /\ live[o]
  /\ \E n \in 1 .. ordered[o] - filled[o] :
       /\ filled' = [filled EXCEPT ![o] = @ + n]
       /\ live' = [live EXCEPT ![o] = filled[o] + n < ordered[o]]
       /\ IF side[o] = "BUY"
          THEN held + n <= MaxHeld[broker] /\ held' = held + n
          ELSE n <= held /\ held' = held - n
  /\ UNCHANGED <<orderVars, taskVars, rowVars, recovery, crashes>>

\* A working order expires or is cancelled by someone else.
Expire(o) ==
  /\ live[o] /\ live' = [live EXCEPT ![o] = FALSE]
  /\ UNCHANGED <<orderVars, filled, held, taskVars, rowVars, recovery, crashes>>

\* An exit, a manual order or a deposit of shares moves the holding.
HoldingMoves ==
  /\ broker \in OtherTrades /\ held' \in 0 .. MaxHeld[broker] /\ held' >= SpokenFor
  /\ UNCHANGED <<orderVars, live, filled, taskVars, rowVars, recovery, crashes>>

\* A restart loses every coroutine; orders and rows stay.
Crash ==
  /\ crashes < MaxCrashes /\ crashes' = crashes + 1
  /\ pc' = [o \in Orders |-> IF pc[o] = "idle" THEN "idle" ELSE "done"]
  /\ baseline' = [o \in Orders |-> 0] /\ seen' = [o \in Orders |-> 0]
  /\ tracked' = [o \in Orders |-> FALSE]
  /\ recovery' = Resting
  /\ UNCHANGED <<orderVars, brokerVars, rowVars>>

-----------------------------------------------------------------------------
(* _recover_pending_confirms reads the pending rows, the pending orders and  *)
(* the holding, and then writes one transaction.  Kiwoom makes the three     *)
(* reads in this order.  For KIS the account manager answers from its cache  *)
(* after trading hours, so the two broker reads may be older than the rows.  *)

Idle == UNCHANGED <<orderVars, brokerVars, taskVars, rowVars, crashes>>

ReadRows ==
  /\ RecoveryOn /\ "rows" \notin recovery.have
  /\ Kiwoom => recovery.have = {}
  /\ \E o \in Orders : status[o] = "PENDING_CONFIRM"
  /\ recovery' = [recovery EXCEPT !.have = @ \cup {"rows"},
                    !.rows = {o \in Orders : status[o] = "PENDING_CONFIRM"}]
  /\ Idle

\* A failed KIS query answers an empty list.
ReadOrders ==
  /\ RecoveryOn /\ "orders" \notin recovery.have
  /\ Kiwoom => recovery.have = {"rows"}
  /\ \E ok \in IF ReadsFail /\ ~Kiwoom THEN BOOLEAN ELSE {TRUE} :
       recovery' = [recovery EXCEPT !.have = @ \cup {"orders"},
                      !.listed = [o \in Orders |-> IF ok /\ live[o] THEN filled[o]
                                                   ELSE Unlisted]]
  /\ Idle

ReadHolding ==
  /\ RecoveryOn /\ "holding" \notin recovery.have
  /\ Kiwoom => recovery.have = {"rows", "orders"}
  /\ \E h \in IF ReadsFail /\ ~Kiwoom THEN {held, 0} ELSE {held} :
       recovery' = [recovery EXCEPT !.have = @ \cup {"holding"}, !.holding = h]
  /\ Idle

Keep == -1   \* the verdict that leaves a row pending; 0 fails it

\* Variant: the holding is not bounded by the quantity of the row.
VerdictsUncapped(o) ==
  CASE recovery.listed[o] > 0 -> {recovery.listed[o]}
    [] recovery.listed[o] = 0 -> {IF Kiwoom THEN Keep ELSE 0}
    [] recovery.listed[o] < 0 /\ side[o] = "BUY" ->
         {IF recovery.holding > 0 THEN recovery.holding
          ELSE IF Kiwoom THEN Keep ELSE 0}
    [] OTHER -> IF Kiwoom THEN Keep .. ordered[o] ELSE {0}

\* What becomes of a pending row: the quantity it is confirmed with, 0 or Keep.
\* A listed order is judged by its fill; for one no longer listed a BUY is
\* judged by the holding and, at Kiwoom, a SELL by open lots this module does
\* not have.
Verdicts(o) ==
  CASE recovery.listed[o] > 0 -> {recovery.listed[o]}
    [] recovery.listed[o] = 0 -> {IF Kiwoom THEN Keep ELSE 0}
    [] recovery.listed[o] < 0 /\ side[o] = "BUY" ->
         {IF recovery.holding > 0 THEN Smaller(recovery.holding, ordered[o])
          ELSE IF Kiwoom THEN Keep ELSE 0}
    [] OTHER -> IF Kiwoom THEN Keep .. ordered[o] ELSE {0}

\* Variant: rows without a verdict from the broker stay pending.
CommitKeeping ==
  /\ recovery.have = {"rows", "orders", "holding"}
  /\ \E verdict \in [recovery.rows -> UNION {Verdicts(o) : o \in recovery.rows}] :
       /\ \A o \in recovery.rows : verdict[o] \in Verdicts(o)
       /\ status' = [o \in Orders |->
            IF o \in recovery.rows /\ verdict[o] > 0 THEN "CONFIRMED" ELSE status[o]]
  /\ recovery' = Resting
  /\ UNCHANGED <<orderVars, brokerVars, taskVars, recorded, crashes>>

\* The writes follow the rows as they were loaded: the status is overwritten
\* whatever it is by now, the quantity only where it differs from the one
\* loaded, which is the quantity ordered.  Orders of failed rows are cancelled.
CommitRecovery ==
  /\ recovery.have = {"rows", "orders", "holding"}
  /\ \E verdict \in [recovery.rows -> UNION {Verdicts(o) : o \in recovery.rows}] :
       /\ \A o \in recovery.rows : verdict[o] \in Verdicts(o)
       /\ status' = [o \in Orders |->
            IF o \notin recovery.rows \/ verdict[o] = Keep THEN status[o]
            ELSE IF verdict[o] > 0 THEN "CONFIRMED" ELSE "CONFIRM_FAILED"]
       /\ recorded' = [o \in Orders |->
            IF /\ o \in recovery.rows /\ verdict[o] > 0
               /\ verdict[o] # ordered[o]
            THEN verdict[o] ELSE recorded[o]]
       /\ \E gone \in SUBSET {o \in recovery.rows : verdict[o] = 0} :
            live' = [o \in Orders |-> live[o] /\ o \notin gone]
  /\ recovery' = Resting
  /\ UNCHANGED <<orderVars, filled, held, taskVars, crashes>>

\* An exception rolls the transaction back: of the database at the end or, at
\* Kiwoom, of any read.
RecoveryFails ==
  /\ ReadsFail
  /\ \/ recovery.have = {"rows", "orders", "holding"}
     \/ Kiwoom /\ recovery.have # {}
  /\ recovery' = Resting
  /\ Idle

\* StalePendingCleanupService: a pending BUY older than 30 minutes, so its
\* confirm task is over, that the broker does not list is failed.
StaleCleanup(o) ==
  /\ RecoveryOn
  /\ side[o] = "BUY" /\ status[o] = "PENDING_CONFIRM" /\ pc[o] = "done"
  /\ ~live[o] \/ ReadsFail
  /\ status' = [status EXCEPT ![o] = "CONFIRM_FAILED"]
  /\ UNCHANGED <<orderVars, brokerVars, taskVars, recorded, recovery, crashes>>

Next ==
  \/ HoldingMoves \/ Crash
  \/ ReadRows \/ ReadOrders \/ ReadHolding \/ CommitRecovery \/ RecoveryFails
  \/ \E o \in Orders : Task(o) \/ Fill(o) \/ Expire(o) \/ StaleCleanup(o)

Spec == Init /\ [][Next]_vars

\* Coroutines are scheduled, and the recovery job, which the scheduler runs
\* every trading day, does not fail to commit for ever.  The exchange owes
\* nothing.
FairSpec ==
  /\ Spec
  /\ \A o \in Orders : WF_vars(Task(o))
  /\ WF_vars(ReadRows) /\ WF_vars(ReadOrders) /\ WF_vars(ReadHolding)
  /\ SF_vars(CommitRecovery)

-----------------------------------------------------------------------------
(* Properties.                                                               *)

\* Type invariant of orders, tasks, rows and the recovery job.
TypeOK ==
  /\ side \in [Orders -> {"BUY", "SELL"}] /\ ordered \in [Orders -> 1 .. MaxQty]
  /\ live \in [Orders -> BOOLEAN] /\ filled \in [Orders -> Nat] /\ held \in Nat
  /\ pc \in [Orders -> Steps] /\ baseline \in [Orders -> Nat]
  /\ tracked \in [Orders -> BOOLEAN] /\ seen \in [Orders -> Nat]
  /\ status \in [Orders -> Statuses] /\ recorded \in [Orders -> Nat]
  /\ recovery \in [have : SUBSET {"rows", "orders", "holding"},
                   rows : SUBSET Orders,
                   listed : [Orders -> Nat \cup {Unlisted}], holding : Nat]
  /\ crashes \in Nat

AloneOnItsSide(o) == \A d \in Orders \ {o} : side[d] # side[o]

\* The row of order o is written by its own confirm task.
TaskWrites(o) ==
  pc[o] = "write" /\ pc'[o] = "done"
    /\ <<status[o], recorded[o]>>' # <<status[o], recorded[o]>>

\* A confirm task never claims shares its order has not got at the exchange,
\* though the quantity observed is written later, and meanwhile the order fills
\* on, expires or is cancelled by the recovery job.  At Kiwoom, where the
\* quantity of an order that has left the pending list is inferred from the
\* holding, for an order no other order of its side shares the symbol with.
ConfirmedWithinFill ==
  [][\A o \in Orders :
        TaskWrites(o) /\ (Kiwoom => AloneOnItsSide(o))
          => recorded'[o] > 0 /\ recorded'[o] <= filled[o]]_vars

\* A confirmed row never claims more than its order asked for, however the
\* holding moves and whoever settles the row.
ConfirmedWithinOrder ==
  \A o \in Orders : status[o] = "CONFIRMED" => recorded[o] <= ordered[o]

\* A confirmed row is failed by nothing but a recovery job that has loaded it
\* while it was pending: a confirm task that fails late leaves it alone.
OnlyRecoveryUnconfirms ==
  [][\A o \in Orders :
        status[o] = "CONFIRMED" /\ status'[o] # "CONFIRMED"
          => o \in recovery.rows]_vars

\* TradeResult.status goes from PENDING_CONFIRM to CONFIRMED or CONFIRM_FAILED
\* and no further.
SettledIsFinal ==
  [][\A o \in Orders :
        status[o] \in {"CONFIRMED", "CONFIRM_FAILED"} => status'[o] = status[o]]_vars

\* The pending BUY gate: a symbol has one working BUY order.
OneLiveBuy == Cardinality(PendingBuys) <= 1

\* At KIS a pending row does not stay pending: its confirm task or, when that has
\* given up or was lost in a restart, the recovery job settles it.  At Kiwoom the
\* job keeps rows it can infer no fill for.
PendingSettles ==
  \A o \in Orders :
    (status[o] = "PENDING_CONFIRM" /\ ~Kiwoom) ~> (status[o] # "PENDING_CONFIRM")

=============================================================================
