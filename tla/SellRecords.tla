---------------------------- MODULE SellRecords -----------------------------
(***************************************************************************)
(* The trade records of one symbol while its sales are written: BUY lots   *)
(* in trade_results, the recorders that close them first in first out      *)
(* (agent/decision_maker.py), the sync job that adds a lot for shares the  *)
(* table does not know of (scheduler/jobs/portfolio_sync_job.py), and the  *)
(* activity log, which writes through a connection of its own              *)
(* (services/activity_logger.py).  SQLite has one writer at a time; a      *)
(* second one waits SQLITE_BUSY_TIMEOUT_MS and fails.  A SELECT takes no   *)
(* lock and opens no transaction, the first UPDATE or INSERT does both.    *)
(***************************************************************************)
EXTENDS Integers, FiniteSets

CONSTANTS
  N,              \* bound: rows of BUY lots
  Rowed,          \* SELLs of cycles whose PENDING_CONFIRM row exists
  Placing,        \* SELLs of cycles that are about to create that row
  Direct,         \* exits, liquidations and manual sales: no row
  Backfill,       \* the sync job runs
  MaxLot,         \* bound: shares of a lot
  None            \* no writer

Recorders == Rowed \cup Placing \cup Direct

ASSUME RecordAssumption ==
  /\ N \in Nat /\ MaxLot \in Nat /\ Backfill \in BOOLEAN
  /\ None \notin Recorders /\ None \notin Nat /\ IsFiniteSet(Recorders)

Lots == 1 .. N      \* in the order of entry_at

VARIABLES
  holding,      \* shares of the symbol in the account
  lots,         \* state and quantity of the row of a BUY lot
  bought,       \* shares of the lot
  clones,       \* shares of the lot in rows cloned off for partial exits
  writer,       \* the recorder whose transaction holds SQLite's write lock
  pc,           \* where a recorder stands
  fill,         \* shares its order has sold
  row,          \* its own row
  copy,         \* the lots it has loaded
  entries,      \* recorders whose entry of the activity log is stored
  seen          \* the holding the sync job has read, None between its runs

lotVars == <<lots, bought, clones>>
recVars == <<pc, fill, row, copy, entries>>
vars == <<holding, lotVars, writer, recVars, seen>>

Steps     == {"placed", "working", "filled", "log", "commit", "done", "failed"}
LotStates == {"absent", "unrecorded", "pending", "open", "closed"}
RowStates == {"none", "pending", "confirmed"}

Available(c, l) == IF c[l].state = "open" THEN c[l].qty ELSE 0

\* The shares that f counts, each by itself, and how many they are: the sum of f.
Units(f) == UNION {{x} \X (1 .. f[x]) : x \in DOMAIN f}
Total(f) == Cardinality(Units(f))

OpenShares(c)   == Total([l \in Lots |-> Available(c, l)])
Smaller(m, n)   == IF m < n THEN m ELSE n

\* The next row comes after the others in entry_at.
NextLot(l) == lots[l].state = "absent" /\ \A k \in Lots : k < l => lots[k].state # "absent"

NoLot == [l \in Lots |-> [state |-> "absent", qty |-> 0]]

Init ==
  /\ \E qty \in [Lots -> 0 .. MaxLot] :
       /\ \A k, l \in Lots : k < l /\ qty[l] > 0 => qty[k] > 0
       /\ lots = [l \in Lots |-> [state |-> IF qty[l] > 0 THEN "open" ELSE "absent",
                                  qty |-> qty[l]]]
       /\ bought = qty
  /\ holding \in 0 .. N * MaxLot /\ holding = OpenShares(lots)
  /\ clones = [l \in Lots |-> 0] /\ writer = None
  /\ pc = [r \in Recorders |-> IF r \in Placing THEN "placed" ELSE "working"]
  /\ row = [r \in Recorders |-> IF r \in Rowed THEN "pending" ELSE "none"]
  /\ fill = [r \in Recorders |-> 0] /\ copy = [r \in Recorders |-> NoLot]
  /\ entries = {} /\ seen = None

-----------------------------------------------------------------------------
(* BUYs and fills.                                                           *)

\* A BUY fills, perhaps before its row is written.
BuyFills(l) ==
  /\ NextLot(l)
  /\ \E n \in 1 .. MaxLot :
       /\ lots' = [lots EXCEPT ![l] = [state |-> "unrecorded", qty |-> n]]
       /\ bought' = [bought EXCEPT ![l] = n] /\ holding' = holding + n
  /\ UNCHANGED <<clones, writer, recVars, seen>>

\* _create_pending_record, then the commit that confirms the row or, when the
\* first failed, adds it.
BuyRow(l) ==
  /\ lots[l].state = "unrecorded" /\ writer = None
  /\ lots' = [lots EXCEPT ![l].state = "pending"]
  /\ UNCHANGED <<holding, bought, clones, writer, recVars, seen>>

BuyRecorded(l) ==
  /\ lots[l].state \in {"unrecorded", "pending"} /\ writer = None
  /\ lots' = [lots EXCEPT ![l].state = "open"]
  /\ UNCHANGED <<holding, bought, clones, writer, recVars, seen>>

\* _create_pending_record: it fails when another writer keeps the lock.
CreateRow(r) ==
  /\ pc[r] = "placed"
  /\ row' = [row EXCEPT ![r] = IF writer = None THEN "pending" ELSE "none"]
  /\ pc' = [pc EXCEPT ![r] = "working"]
  /\ UNCHANGED <<holding, lotVars, writer, fill, copy, entries, seen>>

\* The order fills and confirm_and_record sees it.
OrderFills(r) ==
  /\ pc[r] = "working"
  /\ \E n \in 1 .. holding : fill' = [fill EXCEPT ![r] = n] /\ holding' = holding - n
  /\ pc' = [pc EXCEPT ![r] = "filled"]
  /\ UNCHANGED <<lotVars, writer, row, copy, entries, seen>>

-----------------------------------------------------------------------------
(* Recorders.                                                                *)

\* _confirm_pending_record has changed its row, and the query for the open lots
\* flushes that UPDATE first: from here on the transaction is the writer.
Flush(r) ==
  /\ pc[r] = "filled" /\ row[r] = "pending"
  /\ \/ /\ writer = None /\ writer' = r
        /\ copy' = [copy EXCEPT ![r] = lots] /\ pc' = [pc EXCEPT ![r] = "log"]
     \/ /\ writer # None /\ pc' = [pc EXCEPT ![r] = "failed"]
        /\ UNCHANGED <<writer, copy>>
  /\ UNCHANGED <<holding, lotVars, fill, row, entries, seen>>

\* _record_trade_result loads the open lots; without any it is left with a row
\* of its own to commit.
Load(r) ==
  /\ pc[r] = "filled" /\ row[r] = "none"
  /\ copy' = [copy EXCEPT ![r] = lots]
  /\ pc' = [pc EXCEPT ![r] = IF OpenShares(lots) = 0 THEN "commit" ELSE "log"]
  /\ UNCHANGED <<holding, lotVars, writer, fill, row, entries, seen>>

\* activity_logger.log tries three times and swallows the failure.  The lock in
\* its way may be the one of the transaction that is logging.
Log(r) ==
  /\ pc[r] = "log"
  /\ entries' = IF writer = None THEN entries \cup {r} ELSE entries
  /\ pc' = [pc EXCEPT ![r] = "commit"]
  /\ UNCHANGED <<holding, lotVars, writer, fill, row, copy, seen>>

\* Variant: only the oldest lot is looked at.
RemainingOldest(r) ==
  {left \in [0 .. N -> 0 .. fill[r]] :
     /\ left[0] = fill[r]
     /\ \A l \in Lots : left[l] =
          IF l = 1 THEN left[0] - Smaller(Available(copy[r], 1), left[0]) ELSE left[l - 1]}

\* Variant: the lots are loaded in descending order.
RemainingNewest(r) ==
  {left \in [0 .. N -> 0 .. fill[r]] :
     /\ left[0] = fill[r]
     /\ \E before \in [0 .. N -> 0 .. fill[r]] :
          /\ before[N] = fill[r]
          /\ \A l \in Lots :
               /\ before[l - 1] = before[l] - Smaller(Available(copy[r], l), before[l])
               /\ left[l] = left[l - 1] - (before[l] - before[l - 1])}

\* _apply_sell_fill_to_open_buys: what is left to close after each lot, oldest
\* first; a set of one function.
Remaining(r) ==
  {left \in [0 .. N -> 0 .. fill[r]] :
     /\ left[0] = fill[r]
     /\ \A l \in Lots : left[l] = left[l - 1] - Smaller(Available(copy[r], l), left[l - 1])}

\* Variant: the row of a lot that is closed in part keeps its quantity.
ClosedKeeping(c, l, n) ==
  IF n = 0 THEN lots[l]
  ELSE IF n < c[l].qty THEN lots[l]
  ELSE [lots[l] EXCEPT !.state = "closed"]

\* The row of lot l after n shares of it are closed: the UPDATE writes the
\* quantity computed from the loaded copy, or the exit fields alone.
Closed(c, l, n) ==
  IF n = 0 THEN lots[l]
  ELSE IF n < c[l].qty THEN [lots[l] EXCEPT !.qty = c[l].qty - n]
  ELSE [lots[l] EXCEPT !.state = "closed"]

\* The transaction commits, or waits for the lock in vain.
Commit(r) ==
  /\ pc[r] = "commit"
  /\ \/ /\ writer \in {None, r} /\ writer' = None
        /\ \E left \in Remaining(r) :
             LET taken(l) == left[l - 1] - left[l]
             IN /\ lots' = [l \in Lots |-> Closed(copy[r], l, taken(l))]
                /\ clones' = [l \in Lots |->
                     IF taken(l) < copy[r][l].qty THEN clones[l] + taken(l) ELSE clones[l]]
        /\ row' = [row EXCEPT ![r] = IF @ = "pending" THEN "confirmed" ELSE @]
        /\ pc' = [pc EXCEPT ![r] = "done"]
     \/ /\ writer \notin {None, r} /\ pc' = [pc EXCEPT ![r] = "failed"]
        /\ UNCHANGED <<lots, clones, writer, row>>
  /\ UNCHANGED <<holding, bought, fill, copy, entries, seen>>

-----------------------------------------------------------------------------
(* _backfill_missing_open_buys_from_holdings.                                *)

\* The account is read first.
ReadHoldings ==
  /\ Backfill /\ seen = None /\ seen' = holding
  /\ UNCHANGED <<holding, lotVars, writer, recVars>>

\* Then the rows; shares the open lots do not account for become a lot, unless a
\* BUY of the symbol is pending.
AddMissing ==
  /\ seen # None /\ seen' = None
  /\ IF (\A l \in Lots : lots[l].state # "pending") /\ seen > OpenShares(lots) /\ writer = None
     THEN \E l \in Lots, missing \in 1 .. seen :
            /\ NextLot(l) /\ missing = seen - OpenShares(lots)
            /\ lots' = [lots EXCEPT ![l] = [state |-> "open", qty |-> missing]]
            /\ bought' = [bought EXCEPT ![l] = missing]
     ELSE UNCHANGED <<lots, bought>>
  /\ UNCHANGED <<holding, clones, writer, recVars>>

Recorder(r) == CreateRow(r) \/ Flush(r) \/ Load(r) \/ Log(r) \/ Commit(r)

Next ==
  \/ \E r \in Recorders : Recorder(r) \/ OrderFills(r)
  \/ \E l \in Lots : BuyFills(l) \/ BuyRow(l) \/ BuyRecorded(l)
  \/ ReadHoldings \/ AddMissing

Spec == Init /\ [][Next]_vars

\* A recorder that has an answer from the broker runs on: every statement ends,
\* with its result or with a timeout.
FairSpec == Spec /\ \A r \in Recorders : WF_vars(Recorder(r))

-----------------------------------------------------------------------------
(* Properties.                                                               *)

\* Type invariant of the lots and the recorders.
TypeOK ==
  /\ holding \in Nat
  /\ lots \in [Lots -> [state : LotStates, qty : Nat]]
  /\ bought \in [Lots -> Nat] /\ clones \in [Lots -> Nat]
  /\ writer \in Recorders \cup {None}
  /\ pc \in [Recorders -> Steps] /\ fill \in [Recorders -> Nat]
  /\ row \in [Recorders -> RowStates]
  /\ copy \in [Recorders -> [Lots -> [state : LotStates, qty : Nat]]]
  /\ entries \subseteq Recorders /\ seen \in Nat \cup {None}

\* No sale without a pending row has read the lots yet.  Such a sale reads them
\* before it takes the write lock, and nothing below is promised after it.
AllRowed ==
  \A r \in Recorders : row[r] = "none" => pc[r] \in {"placed", "working", "filled"}

\* No share of a lot is lost or closed twice: what its row and the rows cloned
\* off it hold is what was bought.
SharesConserved ==
  AllRowed => \A l \in Lots : lots[l].qty + clones[l] = bought[l]

\* Shares of lot l that are closed.
ClosedShares(l) == clones[l] + (IF lots[l].state = "closed" THEN lots[l].qty ELSE 0)

\* The oldest lot is closed first: a step that closes shares of a lot leaves
\* nothing open in the lots before it.
OldestFirst ==
  [][\A k, l \in Lots :
       AllRowed' /\ k < l /\ lots[k].state = "open" /\ ClosedShares(l)' > ClosedShares(l)
         => lots'[k].state = "closed"]_vars

\* The closed shares are those of the recorded sales, as far as there were lots
\* to close.
ClosedAreRecorded ==
  LET recorded == {r \in Recorders : pc[r] = "done"}
  IN AllRowed =>
       Total([l \in Lots |-> ClosedShares(l)])
         = Total([r \in recorded |-> Smaller(fill[r], OpenShares(copy[r]))])

\* The activity of a recorded sale is in the activity log.
FillLogged == \A r \in Recorders : pc[r] = "done" => r \in entries

\* The order of a cycle has a row from the moment its placement is reported on.
PlacedHasRow == \A r \in Placing : pc[r] # "placed" => row[r] # "none"

\* Once every sale is recorded, the open lots hold no more than the account:
\* the DB does not believe in shares that are not there.
OpenWithinHolding ==
  (\A r \in Recorders : pc[r] \in {"placed", "working", "done"})
    => OpenShares(lots) <= holding

\* The writer's transaction ends, although its own log entry waits for it.
WriteLockFreed == \A r \in Recorders : (writer = r) ~> (writer # r)

=============================================================================
