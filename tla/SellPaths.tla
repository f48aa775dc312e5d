----------------------------- MODULE SellPaths ------------------------------
(***************************************************************************)
(* The paths that sell a holding outside the trading signal: stop-loss and *)
(* take-profit events (agent/trading_agent.py), the scheduler's jobs that  *)
(* look at every holding in turn, and the liquidation before the close     *)
(* (scheduler/scheduler.py).  They keep out of each other's way with       *)
(* TradingAgent._selling, a set of symbols that _acquire_sell adds to and  *)
(* _release_sell discards from.  The SELL of a trading cycle and a manual  *)
(* sale reach the broker without it.                                       *)
(***************************************************************************)
EXTENDS Integers, FiniteSets

CONSTANTS
  Symbols,        \* symbols the account may hold
  Events,         \* concurrent handlers of stop-loss and take-profit events
  Jobs,           \* concurrent runs of holdings check, gap check and review
  Unlocked,       \* concurrent SELLs of cycles and manual sales
  Liquidation,    \* the liquidation job runs
  MaxHeld         \* bound: shares of a symbol the account may hold

ASSUME SellAssumption ==
  /\ IsFiniteSet(Symbols) /\ MaxHeld \in Nat /\ Liquidation \in BOOLEAN
  /\ Events \cap Jobs = {} /\ Events \cap Unlocked = {} /\ Jobs \cap Unlocked = {}

Paths == Events \cup Jobs \cup Unlocked

VARIABLES
  selling,      \* TradingAgent._selling
  held,         \* at the broker: shares of a symbol in the account
  spoken,       \* at the broker: shares working SELL orders have spoken for
  pc,           \* where a path stands
  symbol,       \* the symbol a path is selling
  ask,          \* the quantity it is about to order
  holdings,     \* a job's list of holdings, read when it started
  todo,         \* the symbols a job has still to look at
  phase,        \* where the liquidation job stands
  task,         \* where the liquidation of a symbol stands
  quantity,     \* the quantity the liquidation orders of a symbol
  accepted,     \* symbols whose liquidation order was answered with success
  recorded      \* symbols whose order was passed to confirm_and_record

brokerVars == <<held, spoken>>
pathVars   == <<pc, symbol, ask, holdings, todo>>
liqVars    == <<phase, task, quantity, accepted, recorded>>
vars == <<selling, brokerVars, pathVars, liqVars>>

\* Steps of a path and of a symbol's liquidation.
PathSteps == {"idle", "next", "read", "place", "confirm"}
TaskSteps == {"out", "waiting", "place", "success", "failure", "skipped",
              "raised", "handled"}
Phases    == {"idle", "first", "results", "retry", "retried", "ended"}

Init ==
  /\ selling = {}
  /\ held \in [Symbols -> 0 .. MaxHeld] /\ spoken = [s \in Symbols |-> 0]
  /\ pc = [x \in Paths |-> "idle"] /\ symbol \in [Paths -> Symbols]
  /\ ask = [x \in Paths |-> 0]
  /\ holdings = [x \in Paths |-> [s \in Symbols |-> 0]]
  /\ todo = [x \in Paths |-> {}]
  /\ phase = "idle" /\ task = [s \in Symbols |-> "out"]
  /\ quantity = [s \in Symbols |-> 0] /\ accepted = {} /\ recorded = {}

-----------------------------------------------------------------------------
(* The lock.                                                                 *)

\* Variant: the entry is added whether or not it is there.
AcquireAlways(s) == selling' = selling \cup {s}

\* _acquire_sell answers True.
Acquire(s) == s \notin selling /\ selling' = selling \cup {s}

\* _release_sell: whoever calls it, the symbol is discarded.
Release(s) == selling' = selling \ {s}

\* The broker takes a SELL order for what no working order has spoken for.
Takes(s, n) == n > 0 /\ n + spoken[s] <= held[s]
Order(s, n) == spoken' = [spoken EXCEPT ![s] = @ + n]

-----------------------------------------------------------------------------
(* Event handlers and jobs.                                                  *)

\* _on_stop_loss and _on_take_profit take the lock first.
EventArrives(x, s) ==
  /\ x \in Events /\ pc[x] = "idle"
  /\ Acquire(s)
  /\ symbol' = [symbol EXCEPT ![x] = s] /\ pc' = [pc EXCEPT ![x] = "read"]
  /\ UNCHANGED <<brokerVars, ask, holdings, todo, liqVars>>

\* _execute_exit_order reads the holding; none, a failed read or disabled
\* trading ends the handler.
ReadHolding(x) ==
  /\ pc[x] = "read"
  /\ \/ /\ held[symbol[x]] > 0
        /\ ask' = [ask EXCEPT ![x] = held[symbol[x]]]
        /\ pc' = [pc EXCEPT ![x] = "place"]
        /\ UNCHANGED selling
     \/ pc' = [pc EXCEPT ![x] = "idle"] /\ Release(symbol[x]) /\ UNCHANGED ask
  /\ UNCHANGED <<brokerVars, symbol, holdings, todo, liqVars>>

\* A job reads the holdings and goes through them one by one.
JobStarts(x) ==
  /\ x \in Jobs /\ pc[x] = "idle"
  /\ holdings' = [holdings EXCEPT ![x] = held]
  /\ todo' = [todo EXCEPT ![x] = {s \in Symbols : held[s] > 0}]
  /\ pc' = [pc EXCEPT ![x] = "next"]
  /\ UNCHANGED <<selling, brokerVars, symbol, ask, liqVars>>

\* A holding is to be sold: the quantity is the one in the list.
JobSells(x, s) ==
  /\ pc[x] = "next" /\ s \in todo[x]
  /\ Acquire(s)
  /\ todo' = [todo EXCEPT ![x] = @ \ {s}]
  /\ symbol' = [symbol EXCEPT ![x] = s]
  /\ ask' = [ask EXCEPT ![x] = holdings[x][s]]
  /\ pc' = [pc EXCEPT ![x] = "place"]
  /\ UNCHANGED <<brokerVars, holdings, liqVars>>

\* A holding is not to be sold, or is being sold already.
JobPasses(x, s) ==
  /\ pc[x] = "next" /\ s \in todo[x]
  /\ todo' = [todo EXCEPT ![x] = @ \ {s}]
  /\ UNCHANGED <<selling, brokerVars, pc, symbol, ask, holdings, liqVars>>

\* The list is done, or an exception ends the job.
JobEnds(x) ==
  /\ pc[x] = "next"
  /\ pc' = [pc EXCEPT ![x] = "idle"] /\ todo' = [todo EXCEPT ![x] = {}]
  /\ UNCHANGED <<selling, brokerVars, symbol, ask, holdings, liqVars>>

\* A cycle or an operator decides to sell what the account showed.
UnlockedStarts(x, s) ==
  /\ x \in Unlocked /\ pc[x] = "idle" /\ held[s] > 0
  /\ symbol' = [symbol EXCEPT ![x] = s] /\ ask' = [ask EXCEPT ![x] = held[s]]
  /\ pc' = [pc EXCEPT ![x] = "place"]
  /\ UNCHANGED <<selling, brokerVars, holdings, todo, liqVars>>

\* Where a path goes when it is done with a symbol, and the release in the
\* finally clause of the paths that hold the lock.
Leave(x) ==
  /\ pc' = [pc EXCEPT ![x] = IF x \in Jobs THEN "next" ELSE "idle"]
  /\ IF x \in Unlocked THEN UNCHANGED selling ELSE Release(symbol[x])

\* Variant: an order that was not accepted leaves the lock behind.
PlaceKeeping(x) ==
  /\ pc[x] = "place"
  /\ \/ /\ Takes(symbol[x], ask[x]) /\ Order(symbol[x], ask[x])
        /\ pc' = [pc EXCEPT ![x] = "confirm"] /\ UNCHANGED selling
     \/ /\ pc' = [pc EXCEPT ![x] = IF x \in Jobs THEN "next" ELSE "idle"]
        /\ UNCHANGED <<selling, spoken>>
  /\ UNCHANGED <<held, symbol, ask, holdings, todo, liqVars>>

\* place_order: accepted; or refused, raised or lost on the way, which the
\* path leaves without a confirmation; a lost answer leaves an order behind.
Place(x) ==
  /\ pc[x] = "place"
  /\ \/ /\ Takes(symbol[x], ask[x]) /\ Order(symbol[x], ask[x])
        /\ pc' = [pc EXCEPT ![x] = "confirm"] /\ UNCHANGED selling
     \/ Leave(x) /\ UNCHANGED spoken
     \/ Leave(x) /\ Takes(symbol[x], ask[x]) /\ Order(symbol[x], ask[x])
  /\ UNCHANGED <<held, symbol, ask, holdings, todo, liqVars>>

\* confirm_and_record waits, looks the order up and cancels it when nothing was
\* filled; every exception is swallowed there.
Confirm(x) ==
  /\ pc[x] = "confirm"
  /\ \E n \in 0 .. spoken[symbol[x]] : spoken' = [spoken EXCEPT ![symbol[x]] = n]
  /\ Leave(x)
  /\ UNCHANGED <<held, symbol, ask, holdings, todo, liqVars>>

-----------------------------------------------------------------------------
(* _force_liquidation.                                                       *)

Batch(step) == {s \in Symbols : task[s] = step}

\* The holdings less what working SELL orders have spoken for; the smart
\* liquidation may decide to keep some.
LiquidationStarts ==
  /\ Liquidation /\ phase = "idle"
  /\ \E sold \in SUBSET {s \in Symbols : held[s] > spoken[s]} :
       /\ task' = [s \in Symbols |-> IF s \in sold THEN "waiting" ELSE "out"]
       /\ quantity' = [s \in Symbols |-> IF s \in sold THEN held[s] - spoken[s] ELSE 0]
       /\ phase' = IF sold = {} THEN "ended" ELSE "first"
  /\ UNCHANGED <<selling, brokerVars, pathVars, accepted, recorded>>

\* _sell_one takes the lock or answers (None, h).
TaskAcquires(s) ==
  /\ task[s] = "waiting"
  /\ \/ Acquire(s) /\ task' = [task EXCEPT ![s] = "place"]
     \/ /\ s \in selling /\ UNCHANGED selling
        /\ task' = [task EXCEPT ![s] = "skipped"]
  /\ UNCHANGED <<brokerVars, pathVars, phase, quantity, accepted, recorded>>

\* The order of _sell_one and the release, without waiting for a fill.
TaskPlaces(s) ==
  /\ task[s] = "place"
  /\ \/ /\ Takes(s, quantity[s]) /\ Order(s, quantity[s])
        /\ task' = [task EXCEPT ![s] = "success"] /\ accepted' = accepted \cup {s}
     \/ /\ (Takes(s, quantity[s]) /\ Order(s, quantity[s])) \/ UNCHANGED spoken
        /\ \E r \in {"failure", "raised"} : task' = [task EXCEPT ![s] = r]
        /\ UNCHANGED accepted
  /\ Release(s)
  /\ UNCHANGED <<held, pathVars, phase, quantity, recorded>>

\* gather has every result of the round.
Gathered ==
  /\ phase \in {"first", "retry"}
  /\ Batch("waiting") = {} /\ Batch("place") = {}
  /\ phase' = IF phase = "first" THEN "results" ELSE "retried"
  /\ UNCHANGED <<selling, brokerVars, pathVars, task, quantity, accepted, recorded>>

\* confirm_and_record for a liquidation order.
Record(s) ==
  /\ recorded' = recorded \cup {s}
  /\ \E n \in 0 .. spoken[s] : spoken' = [spoken EXCEPT ![s] = n]

\* The results of the first round: a success is recorded, a failure is left for
\* the retry, the others are dropped.
FirstResult(s) ==
  /\ phase = "results" /\ task[s] \in {"success", "skipped", "raised"}
  /\ IF task[s] = "success" THEN Record(s) ELSE UNCHANGED <<spoken, recorded>>
  /\ task' = [task EXCEPT ![s] = "handled"]
  /\ UNCHANGED <<selling, held, pathVars, phase, quantity, accepted>>

\* All results are looked at: five seconds later the failed holdings are tried
\* again, with the quantities of the first round.
ResultsDone ==
  /\ phase = "results"
  /\ Batch("success") \cup Batch("skipped") \cup Batch("raised") = {}
  /\ IF Batch("failure") = {}
     THEN phase' = "ended" /\ UNCHANGED task
     ELSE /\ phase' = "retry"
          /\ task' = [s \in Symbols |-> IF task[s] = "failure" THEN "waiting" ELSE task[s]]
  /\ UNCHANGED <<selling, brokerVars, pathVars, quantity, accepted, recorded>>

\* The results of the retry: a skipped one has no response to look at, and the
\* AttributeError ends the job with the rest of the results unread.
RetryResult(s) ==
  /\ phase = "retried" /\ task[s] \in {"success", "failure", "skipped", "raised"}
  /\ IF task[s] = "success" THEN Record(s) ELSE UNCHANGED <<spoken, recorded>>
  /\ phase' = IF task[s] = "skipped" THEN "ended" ELSE phase
  /\ task' = [task EXCEPT ![s] = "handled"]
  /\ UNCHANGED <<selling, held, pathVars, quantity, accepted>>

RetryDone ==
  /\ phase = "retried" /\ \A s \in Symbols : task[s] \in {"out", "handled"}
  /\ phase' = "ended"
  /\ UNCHANGED <<selling, brokerVars, pathVars, task, quantity, accepted, recorded>>

-----------------------------------------------------------------------------
(* The exchange: SELL orders fill or expire, BUY orders fill.                *)

SellFills(s) ==
  /\ \E n \in 1 .. spoken[s] :
       /\ n <= held[s]
       /\ spoken' = [spoken EXCEPT ![s] = @ - n]
       /\ held' = [held EXCEPT ![s] = @ - n]
  /\ UNCHANGED <<selling, pathVars, liqVars>>

BuyFills(s) ==
  /\ held[s] < MaxHeld /\ held' = [held EXCEPT ![s] = @ + 1]
  /\ UNCHANGED <<selling, spoken, pathVars, liqVars>>

PathStep(x) ==
  \/ ReadHolding(x) \/ Place(x) \/ Confirm(x) \/ JobEnds(x)
  \/ \E s \in Symbols : JobSells(x, s) \/ JobPasses(x, s)

LiquidationStep ==
  \/ Gathered \/ ResultsDone \/ RetryDone
  \/ \E s \in Symbols :
       TaskAcquires(s) \/ TaskPlaces(s) \/ FirstResult(s) \/ RetryResult(s)

Next ==
  \/ \E x \in Paths : PathStep(x) \/ JobStarts(x)
  \/ \E x \in Paths, s \in Symbols : EventArrives(x, s) \/ UnlockedStarts(x, s)
  \/ LiquidationStarts \/ LiquidationStep
  \/ \E s \in Symbols : SellFills(s) \/ BuyFills(s)

Spec == Init /\ [][Next]_vars

\* Every broker call returns or times out, so a path that has started and the
\* liquidation job go on; events, jobs and fills need not come.
FairSpec ==
  /\ Spec
  /\ \A x \in Paths : WF_vars(PathStep(x))
  /\ \A s \in Symbols : WF_vars(TaskAcquires(s)) /\ WF_vars(TaskPlaces(s))

-----------------------------------------------------------------------------
(* Properties.                                                               *)

\* Type invariant of the account, the paths and the liquidation.
TypeOK ==
  /\ selling \subseteq Symbols
  /\ held \in [Symbols -> Nat] /\ spoken \in [Symbols -> Nat]
  /\ pc \in [Paths -> PathSteps] /\ symbol \in [Paths -> Symbols]
  /\ ask \in [Paths -> Nat] /\ holdings \in [Paths -> [Symbols -> Nat]]
  /\ todo \in [Paths -> SUBSET Symbols]
  /\ phase \in Phases /\ task \in [Symbols -> TaskSteps]
  /\ quantity \in [Symbols -> Nat]
  /\ accepted \subseteq Symbols /\ recorded \subseteq Symbols

\* Path x is between taking and giving back the lock on s.
Holds(x, s) ==
  x \in Events \cup Jobs /\ symbol[x] = s /\ pc[x] \in {"read", "place", "confirm"}

\* The entry of a symbol in _selling belongs to exactly one path: no two paths
\* sell a symbol under the lock at once, no path releases the lock of another,
\* and no entry is left behind by a path that has ended.
LockIsExact ==
  \A s \in Symbols :
    /\ \A x, y \in Paths : Holds(x, s) /\ Holds(y, s) => x = y
    /\ task[s] = "place" => \A x \in Paths : ~Holds(x, s)
    /\ s \in selling <=> task[s] = "place" \/ \E x \in Paths : Holds(x, s)

\* Path x is about to order, or waits for the fill of its order, of s.
Sells(x, s) == symbol[x] = s /\ pc[x] \in {"place", "confirm"}

\* _acquire_sell answers False while the symbol is being sold.
AcquiredAlone ==
  [][\A s \in Symbols :
        s \notin selling /\ s \in selling' => ~\E x \in Paths : Sells(x, s)]_vars

\* A liquidation order answered with success is passed to confirm_and_record,
\* in the first round as in the retry, before the job ends.
LiquidationRecorded == phase = "ended" => accepted \subseteq recorded

\* A symbol does not stay locked: whatever fails, the path that sells it ends,
\* and later exits of the symbol are possible again.
LockFreed == \A s \in Symbols : (s \in selling) ~> (s \notin selling)

=============================================================================
