------------------------ MODULE OrderLifecycleProofs ------------------------
(***************************************************************************)
(* Theorems of OrderLifecycle for every number of orders and shares: the   *)
(* type invariant; that a row confirmed by its task claims no share its    *)
(* order has not got at the exchange; that no confirmed row claims more    *)
(* than was ordered; and who may change a confirmed row.  The second part  *)
(* is about the calls by which orders are placed, McpCalls.                *)
(***************************************************************************)
EXTENDS OrderLifecycle, TLAPS

LEMMA TypeInit == Init => TypeOK
BY OrderAssumption DEF Init, TypeOK, Resting, Unlisted, Steps, Statuses

\* What get_order_status reports is a number of shares.
LEMMA ReportedType ==
  ASSUME TypeOK, NEW o \in Orders
  PROVE  Reported(o) \in Nat
BY DEF TypeOK, Reported, ReportedByKis, Smaller, Positive

\* The steps of one order's coroutine keep the types.
LEMMA TaskType ==
  ASSUME TypeOK, NEW o \in Orders, Task(o)
  PROVE  TypeOK'
<1> USE DEF TypeOK, Go, Ends, orderVars, brokerVars, rowVars, Steps, Statuses
<1>1. CASE Execute(o)  BY <1>1 DEF Execute, Placing
<1>2. CASE Gate(o)  BY <1>2 DEF Gate, Placing
<1>3. CASE ReadBaseline(o)  BY <1>3 DEF ReadBaseline
<1>4. CASE Place(o)
  <2>1. [live EXCEPT ![o] = TRUE] \in [Orders -> BOOLEAN]
    BY DEF TypeOK
  <2>2. live' \in [Orders -> BOOLEAN]
    BY <1>4, <2>1 DEF Place
  <2>3. UNCHANGED <<side, ordered, filled, held, status, recorded, recovery, crashes>>
    BY <1>4 DEF Place
  <2>4. pc' = [pc EXCEPT ![o] = "row"] \/ pc' = [pc EXCEPT ![o] = "done"]
    BY <1>4 DEF Place
  <2>5. baseline' = baseline \/ baseline' = [baseline EXCEPT ![o] = 0]
    BY <1>4 DEF Place
  <2>6. seen' = seen \/ seen' = [seen EXCEPT ![o] = 0]
    BY <1>4 DEF Place
  <2>7. tracked' = tracked \/ tracked' = [tracked EXCEPT ![o] = FALSE]
    BY <1>4 DEF Place
  <2>8. baseline' \in [Orders -> Nat] /\ seen' \in [Orders -> Nat]
    BY <2>5, <2>6
  <2>9. tracked' \in [Orders -> BOOLEAN] /\ pc' \in [Orders -> Steps]
    BY <2>4, <2>7
  <2> QED  BY <2>2, <2>3, <2>8, <2>9
<1>5. CASE CreateRow(o)
  <2>1. ordered[o] \in Nat
    BY OrderAssumption
  <2> QED  BY <1>5, <2>1 DEF CreateRow
<1>6. CASE Poll(o)
  BY <1>6, ReportedType DEF Poll
<1>7. CASE WriteRow(o)  BY <1>7 DEF WriteRow
<1>8. CASE CancelUnfilled(o)  BY <1>8 DEF CancelUnfilled
<1>9. CASE MarkFailed(o)  BY <1>9 DEF MarkFailed
<1> QED
  BY <1>1, <1>2, <1>3, <1>4, <1>5, <1>6, <1>7, <1>8, <1>9 DEF Task

\* The verdict a row gets is a quantity, 0 or Keep.
LEMMA CommitType ==
  ASSUME TypeOK, CommitRecovery
  PROVE  TypeOK'
<1>1. PICK verdict \in [recovery.rows -> UNION {Verdicts(o) : o \in recovery.rows}] :
        /\ status' = [o \in Orders |->
             IF o \notin recovery.rows \/ verdict[o] = Keep THEN status[o]
             ELSE IF verdict[o] > 0 THEN "CONFIRMED" ELSE "CONFIRM_FAILED"]
        /\ recorded' = [o \in Orders |->
             IF /\ o \in recovery.rows /\ verdict[o] > 0
                /\ verdict[o] # ordered[o]
             THEN verdict[o] ELSE recorded[o]]
        /\ \E gone \in SUBSET {o \in recovery.rows : verdict[o] = 0} :
             live' = [o \in Orders |-> live[o] /\ o \notin gone]
  BY DEF CommitRecovery
<1>2. recorded' \in [Orders -> Nat]
  <2> SUFFICES ASSUME NEW o \in Orders PROVE recorded'[o] \in Nat
    BY <1>1
  <2>1. ASSUME NEW d \in recovery.rows PROVE Verdicts(d) \subseteq Int
    BY OrderAssumption DEF TypeOK, Verdicts, Keep, Unlisted, Smaller
  <2>2. o \in recovery.rows => verdict[o] \in Int
    BY <2>1
  <2> QED  BY <1>1, <2>2 DEF TypeOK
<1>3. status' \in [Orders -> Statuses]
  BY <1>1 DEF TypeOK, Statuses
<1>4. live' \in [Orders -> BOOLEAN]
  BY <1>1 DEF TypeOK
<1> QED
  BY <1>2, <1>3, <1>4
  DEF TypeOK, CommitRecovery, Resting, Unlisted, orderVars, taskVars

LEMMA TypeStep == TypeOK /\ [Next]_vars => TypeOK'
<1> SUFFICES ASSUME TypeOK, [Next]_vars PROVE TypeOK'
  OBVIOUS
<1> USE OrderAssumption
<1>1. CASE HoldingMoves
  BY <1>1 DEF TypeOK, HoldingMoves, orderVars, taskVars, rowVars
<1>2. CASE Crash
  BY <1>2 DEF TypeOK, Crash, Resting, Unlisted, orderVars, brokerVars, rowVars, Steps
<1>3. CASE ReadRows
  BY <1>3 DEF TypeOK, ReadRows, Idle, orderVars, brokerVars, taskVars, rowVars
<1>4. CASE ReadOrders
  <2>1. PICK ok \in BOOLEAN :
          recovery' = [recovery EXCEPT !.have = @ \cup {"orders"},
                         !.listed = [o \in Orders |-> IF ok /\ live[o] THEN filled[o]
                                                      ELSE Unlisted]]
    BY <1>4 DEF ReadOrders
  <2>2. [o \in Orders |-> IF ok /\ live[o] THEN filled[o] ELSE Unlisted]
          \in [Orders -> Nat \cup {Unlisted}]
    BY DEF TypeOK
  <2>3. recovery.have \cup {"orders"} \in SUBSET {"rows", "orders", "holding"}
    BY DEF TypeOK
  <2> QED
    BY <1>4, <2>1, <2>2, <2>3
    DEF TypeOK, ReadOrders, Idle, orderVars, brokerVars, taskVars, rowVars
<1>5. CASE ReadHolding
  <2>1. PICK h \in Nat :
          recovery' = [recovery EXCEPT !.have = @ \cup {"holding"}, !.holding = h]
    BY <1>5 DEF ReadHolding, TypeOK
  <2>2. recovery.have \cup {"holding"} \in SUBSET {"rows", "orders", "holding"}
    BY DEF TypeOK
  <2> QED
    BY <1>5, <2>1, <2>2
    DEF TypeOK, ReadHolding, Idle, orderVars, brokerVars, taskVars, rowVars
<1>6. CASE CommitRecovery
  BY <1>6, CommitType
<1>7. CASE RecoveryFails
  BY <1>7
  DEF TypeOK, RecoveryFails, Resting, Unlisted, Idle, orderVars, brokerVars,
    taskVars, rowVars
<1>8. ASSUME NEW o \in Orders, Task(o) PROVE TypeOK'
  BY <1>8, TaskType
<1>9. ASSUME NEW o \in Orders, Fill(o) PROVE TypeOK'
  <2>1. PICK n \in 1 .. ordered[o] - filled[o] :
          /\ filled' = [filled EXCEPT ![o] = @ + n]
          /\ live' = [live EXCEPT ![o] = filled[o] + n < ordered[o]]
          /\ IF side[o] = "BUY"
             THEN held + n <= MaxHeld[broker] /\ held' = held + n
             ELSE n <= held /\ held' = held - n
    BY <1>9 DEF Fill
  <2>2. n \in Nat /\ filled[o] + n \in Nat
    BY DEF TypeOK
  <2>3. filled' \in [Orders -> Nat]
    BY <2>1, <2>2 DEF TypeOK
  <2>4. held' \in Nat
    BY <2>1, <2>2 DEF TypeOK
  <2>5. live' \in [Orders -> BOOLEAN]
    BY <2>1 DEF TypeOK
  <2> QED  BY <1>9, <2>3, <2>4, <2>5 DEF TypeOK, Fill, orderVars, taskVars, rowVars
<1>10. ASSUME NEW o \in Orders, Expire(o) PROVE TypeOK'
  BY <1>10 DEF TypeOK, Expire, orderVars, taskVars, rowVars
<1>11. ASSUME NEW o \in Orders, StaleCleanup(o) PROVE TypeOK'
  BY <1>11 DEF TypeOK, StaleCleanup, orderVars, brokerVars, taskVars, Statuses
<1>12. CASE UNCHANGED vars
  BY <1>12 DEF TypeOK, vars, orderVars, brokerVars, taskVars, rowVars
<1> QED
  BY <1>1, <1>2, <1>3, <1>4, <1>5, <1>6, <1>7, <1>8, <1>9, <1>10, <1>11, <1>12
  DEF Next

\* Type correctness of every behaviour of the orders (TypeOK).
THEOREM TypeCorrect == Spec => []TypeOK
BY TypeInit, TypeStep, PTL DEF Spec

-----------------------------------------------------------------------------
(* What a confirm task records is covered by the exchange.  The inductive    *)
(* invariant follows the quantity from where it arises: an order not yet     *)
(* placed has no fill; the holding has moved since the baseline by no more   *)
(* than the order filled; what the task has seen was filled.                 *)

\* An order is not at the exchange before place_order has been answered.
NotPlaced(o) ==
  pc[o] \in {"idle", "gate", "baseline", "place"} => ~live[o] /\ filled[o] = 0

\* The move of the holding since the baseline is covered by the order's fill.
Measured(o) ==
  Kiwoom /\ pc[o] \in {"place", "row", "poll"} /\ AloneOnItsSide(o)
    => IF side[o] = "BUY" THEN held <= baseline[o] + filled[o]
                          ELSE baseline[o] <= held + filled[o]

\* The quantity about to be written was filled.
SeenFilled(o) ==
  pc[o] = "write" /\ (Kiwoom => AloneOnItsSide(o))
    => seen[o] > 0 /\ seen[o] <= filled[o]

OrderInv(o) == NotPlaced(o) /\ Measured(o) /\ SeenFilled(o)

FillInv == TypeOK /\ \A o \in Orders : OrderInv(o)

LEMMA FillInvInit == Init => FillInv
<1> SUFFICES ASSUME Init PROVE FillInv
  OBVIOUS
<1>1. ASSUME NEW o \in Orders PROVE OrderInv(o)
  BY DEF Init, OrderInv, NotPlaced, Measured, SeenFilled, Kiwoom
<1> QED  BY <1>1, TypeInit DEF FillInv

\* What get_order_status reports for an order that is measured was filled.
LEMMA ReportedFilled ==
  ASSUME TypeOK, NEW o \in Orders, Measured(o), pc[o] = "poll",
         Kiwoom => AloneOnItsSide(o)
  PROVE  Reported(o) <= filled[o]
BY DEF TypeOK, Measured, Reported, ReportedByKis, Smaller, Positive

\* A step of an order's own coroutine keeps what is known of that order.
LEMMA OwnStep ==
  ASSUME FillInv, NEW o \in Orders, Task(o)
  PROVE  OrderInv(o)'
<1> DEFINE Alone == AloneOnItsSide(o)
<1>1. Alone' <=> Alone
  BY DEF Task, Execute, Gate, ReadBaseline, Place, CreateRow, Poll, WriteRow,
    CancelUnfilled, MarkFailed, orderVars, AloneOnItsSide
<1>2. TypeOK /\ OrderInv(o)
  BY DEF FillInv
<1> HIDE DEF Alone
<1> USE <1>1, <1>2
    DEF TypeOK, OrderInv, NotPlaced, Measured, SeenFilled, Kiwoom, Go, Ends, orderVars,
      brokerVars, rowVars, Alone
<1>a. CASE Execute(o)  BY <1>a DEF Execute, Placing
<1>b. CASE Gate(o)  BY <1>b DEF Gate, Placing
<1>c. CASE ReadBaseline(o)  BY <1>c DEF ReadBaseline
<1>d. CASE Place(o)  BY <1>d DEF Place
<1>e. CASE CreateRow(o)  BY <1>e DEF CreateRow
<1>f. CASE Poll(o)
  BY <1>f, ReportedFilled, ReportedType DEF Poll
<1>g. CASE WriteRow(o)  BY <1>g DEF WriteRow
<1>h. CASE CancelUnfilled(o)  BY <1>h DEF CancelUnfilled
<1>i. CASE MarkFailed(o)  BY <1>i DEF MarkFailed
<1> QED
  BY <1>a, <1>b, <1>c, <1>d, <1>e, <1>f, <1>g, <1>h, <1>i DEF Task

\* A step of another order's coroutine leaves the order alone.
LEMMA OtherStep ==
  ASSUME FillInv, NEW o \in Orders, NEW d \in Orders, d # o, Task(d)
  PROVE  OrderInv(o)'
<1>1. /\ side' = side /\ broker' = broker /\ filled' = filled /\ held' = held
      /\ live'[o] = live[o] /\ pc'[o] = pc[o] /\ baseline'[o] = baseline[o]
      /\ seen'[o] = seen[o] /\ status'[o] = status[o] /\ recorded'[o] = recorded[o]
  BY DEF FillInv, TypeOK, Task, Execute, Gate, ReadBaseline, Place, CreateRow, Poll,
    WriteRow, CancelUnfilled, MarkFailed, Go, Ends, orderVars, brokerVars, rowVars
<1> QED
  BY <1>1 DEF FillInv, OrderInv, NotPlaced, Measured, SeenFilled, Kiwoom, AloneOnItsSide

\* A fill of an order moves the holding by as much; a fill of an order of the
\* other side moves it the other way.
LEMMA FillStep ==
  ASSUME FillInv, NEW o \in Orders, NEW d \in Orders, Fill(d)
  PROVE  OrderInv(o)'
<1>1. PICK n \in 1 .. ordered[d] - filled[d] :
        /\ filled' = [filled EXCEPT ![d] = @ + n]
        /\ live' = [live EXCEPT ![d] = filled[d] + n < ordered[d]]
        /\ IF side[d] = "BUY"
           THEN held + n <= MaxHeld[broker] /\ held' = held + n
           ELSE n <= held /\ held' = held - n
  BY DEF Fill
<1>2. n \in Nat /\ n > 0
  BY DEF FillInv, TypeOK
<1>3. TypeOK /\ OrderInv(o) /\ live[d]
  BY DEF FillInv, Fill
<1>4. UNCHANGED <<side, broker, pc, baseline, seen, status, recorded>>
  BY DEF Fill, orderVars, taskVars, rowVars
<1>5. filled'[o] >= filled[o]
  BY <1>1, <1>2, <1>3 DEF TypeOK
<1>6. AloneOnItsSide(o)' <=> AloneOnItsSide(o)
  BY <1>4 DEF AloneOnItsSide
<1>7. NotPlaced(o)'
  BY <1>1, <1>3, <1>4 DEF TypeOK, OrderInv, NotPlaced
<1>8. SeenFilled(o)'
  BY <1>3, <1>4, <1>5, <1>6, <1>1, <1>2 DEF TypeOK, OrderInv, SeenFilled, Kiwoom
<1>9. Measured(o)'
  <2>1. CASE o = d
    BY <2>1, <1>1, <1>2, <1>3, <1>4, <1>6 DEF TypeOK, OrderInv, Measured, Kiwoom
  <2>2. CASE o # d
    <3>1. AloneOnItsSide(o) => side[d] # side[o]
      BY <2>2 DEF AloneOnItsSide
    <3>2. side[o] \in {"BUY", "SELL"} /\ side[d] \in {"BUY", "SELL"}
      BY <1>3 DEF TypeOK
    <3> QED
      BY <2>2, <3>1, <3>2, <1>1, <1>2, <1>3, <1>4, <1>6 DEF TypeOK, OrderInv, Measured, Kiwoom
  <2> QED  BY <2>1, <2>2
<1> QED  BY <1>7, <1>8, <1>9 DEF OrderInv

\* The recovery job and the stale cleanup may cancel an order and rewrite its
\* row; neither is part of what is known of it.
LEMMA RecoveryStep ==
  ASSUME FillInv, NEW o \in Orders,
         \/ ReadRows \/ ReadOrders \/ ReadHolding \/ CommitRecovery \/ RecoveryFails
         \/ \E d \in Orders : StaleCleanup(d)
  PROVE  OrderInv(o)'
<1>1. UNCHANGED <<side, broker, filled, held, pc, baseline, seen>>
  BY DEF ReadRows, ReadOrders, ReadHolding, CommitRecovery, RecoveryFails, StaleCleanup,
    Idle, orderVars, brokerVars, taskVars
<1>2. live'[o] => live[o]
  BY DEF ReadRows, ReadOrders, ReadHolding, CommitRecovery, RecoveryFails, StaleCleanup,
    Idle, brokerVars
<1>3. live'[o] \in BOOLEAN /\ live[o] \in BOOLEAN
  <2>1. TypeOK'
    BY TypeStep DEF FillInv, Next
  <2> QED  BY <2>1 DEF FillInv, TypeOK
<1> QED
  BY <1>1, <1>2, <1>3
  DEF FillInv, OrderInv, NotPlaced, Measured, SeenFilled, Kiwoom, AloneOnItsSide

LEMMA FillInvStep ==
  ASSUME "kiwoom" \notin OtherTrades
  PROVE  FillInv /\ [Next]_vars => FillInv'
<1> SUFFICES ASSUME FillInv, [Next]_vars PROVE FillInv'
  OBVIOUS
<1>1. TypeOK'
  BY TypeStep DEF FillInv
<1>2. ASSUME NEW o \in Orders PROVE OrderInv(o)'
  <2>1. ASSUME NEW d \in Orders, Task(d) PROVE OrderInv(o)'
    BY <2>1, OwnStep, OtherStep
  <2>2. ASSUME NEW d \in Orders, Fill(d) PROVE OrderInv(o)'
    BY <2>2, FillStep
  <2>3. ASSUME NEW d \in Orders, Expire(d) PROVE OrderInv(o)'
    BY <2>3
    DEF FillInv, TypeOK, Expire, orderVars, taskVars, rowVars, OrderInv, NotPlaced,
      Measured, SeenFilled, Kiwoom, AloneOnItsSide
  <2>4. CASE HoldingMoves
    BY <2>4
    DEF FillInv, HoldingMoves, orderVars, taskVars, rowVars, OrderInv, NotPlaced,
      Measured, SeenFilled, Kiwoom, AloneOnItsSide
  <2>5. CASE Crash
    BY <2>5
    DEF FillInv, TypeOK, Crash, orderVars, brokerVars, rowVars, OrderInv, NotPlaced,
      Measured, SeenFilled, Kiwoom, AloneOnItsSide
  <2>6. CASE UNCHANGED vars
    BY <2>6
    DEF FillInv, vars, orderVars, brokerVars, taskVars, rowVars, OrderInv, NotPlaced,
      Measured, SeenFilled, Kiwoom, AloneOnItsSide
  <2>7. ASSUME NEW d \in Orders, StaleCleanup(d) PROVE OrderInv(o)'
    BY <2>7, RecoveryStep
  <2>8. CASE ReadRows \/ ReadOrders \/ ReadHolding \/ CommitRecovery \/ RecoveryFails
    BY <2>8, RecoveryStep
  <2> QED
    BY <2>1, <2>2, <2>3, <2>4, <2>5, <2>6, <2>7, <2>8 DEF Next
<1> QED  BY <1>1, <1>2 DEF FillInv

\* The only step that takes an order from "write" to "done" with another row is
\* its own WriteRow, which writes what the task has seen.
LEMMA WriteCovered ==
  ASSUME FillInv, [Next]_vars, NEW o \in Orders, TaskWrites(o),
         Kiwoom => AloneOnItsSide(o)
  PROVE  recorded'[o] > 0 /\ recorded'[o] <= filled[o]
<1>1. pc[o] = "write" /\ pc'[o] = "done"
      /\ ~(status'[o] = status[o] /\ recorded'[o] = recorded[o])
  BY DEF TaskWrites
<1>2. SeenFilled(o) /\ TypeOK
  BY DEF FillInv, OrderInv
<1>3. CASE Task(o)
  <2>1. WriteRow(o)
    BY <1>1, <1>3
    DEF Task, Execute, Gate, ReadBaseline, Place, CreateRow, Poll, CancelUnfilled, MarkFailed
  <2>2. recorded' = [recorded EXCEPT ![o] = seen[o]]
    BY <1>1, <2>1 DEF WriteRow, rowVars
  <2> QED  BY <1>1, <1>2, <2>2 DEF SeenFilled, TypeOK
<1>4. ASSUME NEW d \in Orders, d # o, Task(d) PROVE FALSE
  BY <1>1, <1>2, <1>4
  DEF TypeOK, Task, Execute, Gate, ReadBaseline, Place, CreateRow, Poll, WriteRow,
    CancelUnfilled, MarkFailed, Go, Ends
<1>5. ASSUME pc' = pc PROVE FALSE
  BY <1>1, <1>5
<1>6. CASE Crash
  BY <1>1, <1>6 DEF Crash, rowVars
<1>7. Crash \/ (\E d \in Orders : Task(d)) \/ pc' = pc
  BY DEF Next, HoldingMoves, ReadRows, ReadOrders, ReadHolding, CommitRecovery,
    RecoveryFails, Idle, Fill, Expire, StaleCleanup, taskVars, vars
<1> QED  BY <1>3, <1>4, <1>5, <1>6, <1>7

\* A confirm task claims no share its order has not got (ConfirmedWithinFill),
\* whatever the recovery job does meanwhile: at KIS whatever else happens to the
\* account, at Kiwoom while nothing else trades the symbol.
THEOREM ConfirmedFits ==
  ASSUME "kiwoom" \notin OtherTrades
  PROVE  Spec => ConfirmedWithinFill
<1>1. FillInv /\ [Next]_vars =>
        [\A o \in Orders :
           TaskWrites(o) /\ (Kiwoom => AloneOnItsSide(o))
             => recorded'[o] > 0 /\ recorded'[o] <= filled[o]]_vars
  BY WriteCovered
<1>2. FillInv /\ [Next]_vars => FillInv'
  BY FillInvStep
<1> QED  BY FillInvInit, <1>1, <1>2, PTL DEF Spec, ConfirmedWithinFill

-----------------------------------------------------------------------------
(* No row claims more than was ordered, whoever settles it: neither what the *)
(* exchange has filled nor what a task or the recovery job has been told of  *)
(* it exceeds the order.                                                     *)

WithinOrder ==
  \A o \in Orders :
    /\ filled[o] <= ordered[o] /\ seen[o] <= ordered[o] /\ recorded[o] <= ordered[o]
    /\ recovery.listed[o] <= ordered[o]

LEMMA WithinInit == Init => WithinOrder
BY OrderAssumption DEF Init, WithinOrder, Resting, Unlisted

\* The status of an order never tells of more than was ordered.
LEMMA ReportedWithin ==
  ASSUME TypeOK, WithinOrder, NEW o \in Orders
  PROVE  Reported(o) <= ordered[o]
<1>1. ordered[o] \in Nat /\ filled[o] \in Nat /\ held \in Nat /\ baseline[o] \in Nat
      /\ filled[o] <= ordered[o]
  BY OrderAssumption DEF TypeOK, WithinOrder
<1> QED  BY <1>1 DEF Reported, ReportedByKis, Smaller, Positive

\* A task creates its row with what was ordered and writes into it what it has seen.
LEMMA TaskWithin ==
  ASSUME TypeOK, WithinOrder, NEW d \in Orders, Task(d)
  PROVE  WithinOrder'
<1>1. UNCHANGED <<ordered, filled, recovery>>
  BY DEF Task, Execute, Gate, ReadBaseline, Place, CreateRow, Poll, WriteRow,
    CancelUnfilled, MarkFailed, orderVars, brokerVars
<1>2. \A o \in Orders : ordered[o] \in Nat
  BY OrderAssumption DEF TypeOK
<1>3. seen' = seen \/ seen' = [seen EXCEPT ![d] = 0] \/ seen' = [seen EXCEPT ![d] = Reported(d)]
  BY DEF Task, Execute, Gate, ReadBaseline, Place, CreateRow, Poll, WriteRow,
    CancelUnfilled, MarkFailed, Ends, rowVars
<1>4. \/ recorded' = recorded \/ recorded' = [recorded EXCEPT ![d] = ordered[d]]
      \/ recorded' = [recorded EXCEPT ![d] = seen[d]]
  BY DEF Task, Execute, Gate, ReadBaseline, Place, CreateRow, Poll, WriteRow,
    CancelUnfilled, MarkFailed, rowVars
<1>5. \A o \in Orders : seen'[o] <= ordered[o]
  BY <1>2, <1>3, ReportedWithin DEF TypeOK, WithinOrder
<1>6. \A o \in Orders : recorded'[o] <= ordered[o]
  BY <1>2, <1>4 DEF TypeOK, WithinOrder
<1> QED  BY <1>1, <1>5, <1>6 DEF WithinOrder

\* A verdict of the recovery job confirms no more than was ordered.
LEMMA VerdictsWithin ==
  ASSUME TypeOK, WithinOrder, NEW o \in Orders, NEW v \in Verdicts(o)
  PROVE  v \in Int /\ v <= ordered[o]
<1>1. /\ ordered[o] \in Nat /\ recovery.holding \in Nat
      /\ recovery.listed[o] \in Int /\ recovery.listed[o] <= ordered[o]
  BY OrderAssumption DEF TypeOK, WithinOrder, Unlisted
<1> QED  BY <1>1 DEF Verdicts, Keep, Smaller

LEMMA CommitWithin ==
  ASSUME TypeOK, WithinOrder, CommitRecovery
  PROVE  WithinOrder'
<1>1. PICK verdict \in [recovery.rows -> UNION {Verdicts(o) : o \in recovery.rows}] :
        /\ \A o \in recovery.rows : verdict[o] \in Verdicts(o)
        /\ recorded' = [o \in Orders |->
             IF /\ o \in recovery.rows /\ verdict[o] > 0
                /\ verdict[o] # ordered[o]
             THEN verdict[o] ELSE recorded[o]]
  BY DEF CommitRecovery
<1>2. recovery' = Resting /\ UNCHANGED <<ordered, filled, seen>>
  BY DEF CommitRecovery, orderVars, taskVars
<1>3. \A o \in Orders : recorded'[o] <= ordered[o]
  BY <1>1, VerdictsWithin DEF WithinOrder
<1>4. \A o \in Orders : Unlisted <= ordered[o]
  BY OrderAssumption DEF TypeOK, Unlisted
<1> QED  BY <1>2, <1>3, <1>4 DEF WithinOrder, Resting

LEMMA WithinStep == TypeOK /\ WithinOrder /\ [Next]_vars => WithinOrder'
<1> SUFFICES ASSUME TypeOK, WithinOrder, [Next]_vars PROVE WithinOrder'
  OBVIOUS
<1>1. \A o \in Orders : ordered[o] \in Nat /\ filled[o] \in Nat
  BY OrderAssumption DEF TypeOK
<1>2. CASE HoldingMoves \/ UNCHANGED vars \/ \E o \in Orders : Expire(o) \/ StaleCleanup(o)
  BY <1>2 DEF HoldingMoves, Expire, StaleCleanup, vars, orderVars, brokerVars, taskVars,
    rowVars, WithinOrder
<1>3. CASE Crash
  BY <1>1, <1>3 DEF Crash, orderVars, brokerVars, rowVars, WithinOrder, Resting, Unlisted
<1>4. CASE ReadRows \/ ReadHolding
  BY <1>4 DEF ReadRows, ReadHolding, Idle, orderVars, brokerVars, taskVars, rowVars,
    WithinOrder, TypeOK
<1>5. CASE ReadOrders
  <2>1. PICK ok \in BOOLEAN :
          recovery' = [recovery EXCEPT !.have = @ \cup {"orders"},
                         !.listed = [o \in Orders |-> IF ok /\ live[o] THEN filled[o]
                                                      ELSE Unlisted]]
    BY <1>5 DEF ReadOrders
  <2>2. \A o \in Orders : recovery'.listed[o] = filled[o] \/ recovery'.listed[o] = Unlisted
    BY <2>1 DEF TypeOK
  <2> QED
    BY <1>1, <1>5, <2>2 DEF ReadOrders, Idle, orderVars, brokerVars, taskVars, rowVars,
      WithinOrder, Unlisted
<1>6. CASE CommitRecovery
  BY <1>6, CommitWithin
<1>7. CASE RecoveryFails
  BY <1>1, <1>7 DEF RecoveryFails, Idle, orderVars, brokerVars, taskVars, rowVars,
    WithinOrder, Resting, Unlisted
<1>8. ASSUME NEW o \in Orders, Task(o) PROVE WithinOrder'
  BY <1>8, TaskWithin
<1>9. ASSUME NEW o \in Orders, Fill(o) PROVE WithinOrder'
  <2>1. PICK n \in 1 .. ordered[o] - filled[o] : filled' = [filled EXCEPT ![o] = @ + n]
    BY <1>9 DEF Fill
  <2>2. filled[o] + n <= ordered[o]
    BY <1>1, <2>1
  <2>3. \A d \in Orders : filled'[d] <= ordered[d]
    BY <2>1, <2>2 DEF TypeOK, WithinOrder
  <2> QED  BY <1>9, <2>3 DEF Fill, orderVars, taskVars, rowVars, WithinOrder
<1> QED
  BY <1>2, <1>3, <1>4, <1>5, <1>6, <1>7, <1>8, <1>9 DEF Next

\* A confirmed row never claims more than its order asked for, at either broker and
\* whatever else trades the symbol (ConfirmedWithinOrder).
THEOREM ConfirmedAsOrdered == Spec => []ConfirmedWithinOrder
<1>1. WithinOrder => ConfirmedWithinOrder
  BY DEF WithinOrder, ConfirmedWithinOrder
<1> QED  BY <1>1, TypeInit, TypeStep, WithinInit, WithinStep, PTL DEF Spec

-----------------------------------------------------------------------------
(* Who changes a confirmed row.                                              *)

\* An order has no row before its placement is answered, and the recovery job has
\* loaded only rows there are.
RowsAfterPlacing ==
  \A o \in Orders :
    /\ pc[o] \in {"idle", "gate", "baseline", "place", "row"} => status[o] = "NONE"
    /\ o \in recovery.rows => status[o] # "NONE"

LEMMA RowsInit == Init => RowsAfterPlacing
BY DEF Init, RowsAfterPlacing, Resting

\* A task creates its row once, and what it writes later is a status.
LEMMA TaskRows ==
  ASSUME TypeOK, RowsAfterPlacing, NEW d \in Orders, Task(d)
  PROVE  RowsAfterPlacing'
<1>1. /\ recovery' = recovery
      /\ \A o \in Orders \ {d} : pc'[o] = pc[o] /\ status'[o] = status[o]
  BY DEF TypeOK, Task, Execute, Gate, ReadBaseline, Place, CreateRow, Poll, WriteRow,
    CancelUnfilled, MarkFailed, Go, Ends, rowVars
<1>2. CASE UNCHANGED status
  <2>1. pc'[d] \in {"idle", "gate", "baseline", "place", "row"} => status[d] = "NONE"
    BY <1>2 DEF RowsAfterPlacing, TypeOK, Task, Execute, Gate, ReadBaseline, Place,
      CreateRow, Poll, WriteRow, CancelUnfilled, MarkFailed, Go, Ends, Placing
  <2> QED  BY <1>1, <1>2, <2>1 DEF RowsAfterPlacing
<1>3. CASE ~UNCHANGED status
  <2>1. status'[d] # "NONE" /\ pc'[d] \in {"poll", "done"}
    BY <1>3 DEF TypeOK, Task, Execute, Gate, ReadBaseline, Place, CreateRow, Poll, WriteRow,
      CancelUnfilled, MarkFailed, Go, Ends, rowVars
  <2> QED  BY <1>1, <2>1 DEF RowsAfterPlacing
<1> QED  BY <1>2, <1>3

LEMMA RowsStep == TypeOK /\ RowsAfterPlacing /\ [Next]_vars => RowsAfterPlacing'
<1> SUFFICES ASSUME TypeOK, RowsAfterPlacing, [Next]_vars PROVE RowsAfterPlacing'
  OBVIOUS
<1>1. CASE HoldingMoves \/ ReadOrders \/ ReadHolding \/ UNCHANGED vars
           \/ \E o \in Orders : Fill(o) \/ Expire(o)
  <2>1. CASE ReadOrders \/ ReadHolding
    <3>1. UNCHANGED <<pc, status>>
      BY <2>1 DEF ReadOrders, ReadHolding, Idle, taskVars, rowVars
    <3>2. CASE ReadOrders
      <4>1. recovery'.rows = recovery.rows
        BY <3>2 DEF ReadOrders, TypeOK
      <4> QED  BY <3>1, <4>1 DEF RowsAfterPlacing
    <3>3. CASE ReadHolding
      <4>1. recovery'.rows = recovery.rows
        BY <3>3 DEF ReadHolding, TypeOK
      <4> QED  BY <3>1, <4>1 DEF RowsAfterPlacing
    <3> QED  BY <2>1, <3>2, <3>3
  <2>2. CASE HoldingMoves \/ UNCHANGED vars \/ \E o \in Orders : Fill(o) \/ Expire(o)
    <3>1. UNCHANGED <<pc, status, recovery>>
      BY <2>2 DEF HoldingMoves, Fill, Expire, vars, taskVars, rowVars
    <3> QED  BY <3>1 DEF RowsAfterPlacing
  <2> QED  BY <1>1, <2>1, <2>2
<1>2. CASE Crash
  BY <1>2 DEF Crash, Resting, rowVars, RowsAfterPlacing
<1>3. CASE ReadRows
  BY <1>3 DEF ReadRows, Idle, taskVars, rowVars, RowsAfterPlacing, TypeOK
<1>4. CASE CommitRecovery
  <2>1. /\ UNCHANGED pc /\ recovery'.rows = {}
        /\ \A o \in Orders : o \notin recovery.rows => status'[o] = status[o]
    BY <1>4 DEF CommitRecovery, Resting, taskVars
  <2> QED  BY <2>1 DEF RowsAfterPlacing
<1>5. CASE RecoveryFails
  BY <1>5 DEF RecoveryFails, Resting, Idle, taskVars, rowVars, RowsAfterPlacing
<1>6. ASSUME NEW o \in Orders, Task(o) PROVE RowsAfterPlacing'
  BY <1>6, TaskRows
<1>7. ASSUME NEW o \in Orders, StaleCleanup(o) PROVE RowsAfterPlacing'
  BY <1>7 DEF StaleCleanup, taskVars, RowsAfterPlacing, TypeOK
<1> QED  BY <1>1, <1>2, <1>3, <1>4, <1>5, <1>6, <1>7 DEF Next

\* Each step but the recovery's commit leaves a confirmed row confirmed.
LEMMA ConfirmedStays ==
  ASSUME TypeOK, RowsAfterPlacing, [Next]_vars, NEW o \in Orders,
         status[o] = "CONFIRMED", o \notin recovery.rows
  PROVE  status'[o] = "CONFIRMED"
<1>1. CASE \/ HoldingMoves \/ Crash \/ ReadRows \/ ReadOrders \/ ReadHolding \/ RecoveryFails
           \/ UNCHANGED vars \/ \E d \in Orders : Fill(d) \/ Expire(d)
  BY <1>1 DEF HoldingMoves, Crash, ReadRows, ReadOrders, ReadHolding, RecoveryFails, Fill,
    Expire, vars, Idle, rowVars
<1>2. CASE CommitRecovery
  BY <1>2 DEF CommitRecovery
<1>3. ASSUME NEW d \in Orders, Task(d) PROVE status'[o] = "CONFIRMED"
  <2>1. pc[o] # "row"
    BY DEF RowsAfterPlacing
  <2> QED
    BY <1>3, <2>1 DEF TypeOK, Task, Execute, Gate, ReadBaseline, Place, CreateRow, Poll,
      WriteRow, CancelUnfilled, MarkFailed, rowVars
<1>4. ASSUME NEW d \in Orders, StaleCleanup(d) PROVE status'[o] = "CONFIRMED"
  BY <1>4 DEF StaleCleanup, TypeOK
<1> QED  BY <1>1, <1>2, <1>3, <1>4 DEF Next

\* A confirmed row is changed by nothing but a recovery job that has loaded it while it
\* was pending (OnlyRecoveryUnconfirms).
THEOREM RecoveryUnconfirms == Spec => OnlyRecoveryUnconfirms
<1>1. TypeOK /\ RowsAfterPlacing /\ [Next]_vars
        => [\A o \in Orders :
              status[o] = "CONFIRMED" /\ status'[o] # "CONFIRMED"
                => o \in recovery.rows]_vars
  BY ConfirmedStays
<1> QED
  BY <1>1, TypeInit, TypeStep, RowsInit, RowsStep, PTL DEF Spec, OnlyRecoveryUnconfirms

-----------------------------------------------------------------------------
(***************************************************************************)
(* The calls that place the orders, McpCalls, for any number of callers,   *)
(* retries and streams.                                                    *)
(***************************************************************************)

CONSTANTS Placers, Queries, Admins, MaxConcurrent, MaxReconnects, MaxStreams

VARIABLES at, attempt, pending, meta, result, request, via, executed, unconfirmed,
          spawned, taken, found, loop, session, ready, failures, streams

Mcp == INSTANCE McpCalls WITH Orders <- Placers, pc <- at, recorded <- found

\* A reconnect by an administrator is not a call (McpCalls' McpAssumption).
Apart == Mcp!Calls \cap Admins = {}

\* Where a call has no message id of its own.
Unsent == {"idle", "lock", "closing", "opening", "handshake", "queued", "backoff"}

\* A future is in _pending only until it is set, and only its caller's POST or
\* wait is interested in it.
Futures ==
  \A c \in Mcp!Calls :
    /\ c \in pending => at[c] \in {"posting", "waiting"} /\ result[c] = "none"
    /\ at[c] \notin {"posting", "waiting"} => result[c] = "none"

\* A message that may still be executed, or may lead to another message, is the
\* message of an order that has not been executed.
Executions ==
  \A o \in Placers :
    /\ executed[o] \in {0, 1}
    /\ at[o] \in Unsent => executed[o] = 0 /\ request[o] = "none"
    /\ request[o] \in {"sent", "throttled"}
         => executed[o] = 0 /\ result[o] \in {"none", "lost"}
    /\ result[o] = "throttled" => executed[o] = 0 /\ request[o] = "none"

\* The future of an order the recovery knows of says that the connection was
\* lost, until its caller has returned a failure.
Kept ==
  \A o \in unconfirmed \cup taken \cup found :
    /\ o \notin pending
    /\ \/ at[o] = "failed"
       \/ at[o] \in {"posting", "waiting"} /\ result[o] = "lost"

McpInv == Mcp!TypeOK /\ Futures /\ Executions /\ Kept /\ Mcp!WaitingTracked

-----------------------------------------------------------------------------
\* The startup state satisfies the invariant.
LEMMA McpInitInv == Mcp!Init => McpInv
<1> SUFFICES ASSUME Mcp!Init PROVE McpInv
  OBVIOUS
<1> USE DEF Mcp!Init
<1>1. Mcp!TypeOK
  <2>1. at \in [Mcp!Actors -> Mcp!Steps]
    BY DEF Mcp!Steps
  <2>2. /\ attempt \in [Mcp!Calls -> 0 .. 2] /\ via \in [Mcp!Calls -> Nat]
        /\ executed \in [Placers -> Nat]
    OBVIOUS
  <2>3. /\ result \in [Mcp!Calls -> Mcp!Answers \cup {"none", "lost"}]
        /\ request \in [Mcp!Calls -> Mcp!Answers \cup {"none", "sent"}]
    OBVIOUS
  <2> QED BY <2>1, <2>2, <2>3 DEF Mcp!TypeOK, Mcp!LoopSteps
<1>2. Futures /\ Executions
  BY DEF Futures, Executions, Mcp!Calls, Mcp!Actors
<1>3. Kept /\ Mcp!WaitingTracked
  BY DEF Kept, Mcp!WaitingTracked
<1> QED BY <1>1, <1>2, <1>3 DEF McpInv

\* A connection that is given up, together with the step of the actor or of the
\* loop that gives it up: only futures that are set to "lost" change.
LEMMA FailAllInv ==
  ASSUME McpInv, Mcp!FailAllPending, at' \in [Mcp!Actors -> Mcp!Steps],
         \A c \in Mcp!Calls : \/ at'[c] = at[c]
                              \/ at[c] \in Unsent /\ at'[c] \in Unsent,
         loop' \in Mcp!LoopSteps, session' \in Nat, ready' \in BOOLEAN,
         failures' \in Nat,
         UNCHANGED <<attempt, via, executed, spawned, taken, found, streams>>
  PROVE  McpInv'
<1> USE DEF Mcp!Calls, Mcp!Answers
<1>1. Mcp!TypeOK'
  BY DEF McpInv, Mcp!TypeOK, Mcp!FailAllPending, Mcp!LostOrders
<1>2. Futures'
  BY DEF McpInv, Mcp!TypeOK, Futures, Mcp!FailAllPending, Unsent
<1>3. Executions'
  BY DEF McpInv, Mcp!TypeOK, Futures, Executions, Mcp!FailAllPending, Unsent
<1>4. Kept'
  BY DEF McpInv, Mcp!TypeOK, Futures, Kept, Mcp!FailAllPending, Mcp!LostOrders, Unsent
<1>5. Mcp!WaitingTracked'
  BY DEF Mcp!WaitingTracked, Mcp!FailAllPending
<1> QED BY <1>1, <1>2, <1>3, <1>4, <1>5 DEF McpInv

\* A step in which an actor without a message moves among the places without
\* one.
LEMMA MoveInv ==
  ASSUME Apart, McpInv, NEW c \in Mcp!Actors, NEW step \in Mcp!Steps, at[c] \in Unsent,
         step \in Unsent \cup {"failed"} \/ (c \in Admins /\ step = "ok"),
         Mcp!Goto(c, step), UNCHANGED <<Mcp!callVars, Mcp!serverVars, Mcp!recoverVars>>,
         loop' \in Mcp!LoopSteps, session' \in Nat, ready' \in BOOLEAN,
         failures' \in Nat, streams' \in Nat
  PROVE  McpInv'
<1> USE DEF Apart, Mcp!Calls, Mcp!Actors, Mcp!callVars, Mcp!serverVars, Mcp!recoverVars, Mcp!Goto
<1>1. Mcp!TypeOK'
  BY DEF McpInv, Mcp!TypeOK
<1>2. \A d \in Mcp!Calls : d # c => at'[d] = at[d]
  BY DEF McpInv, Mcp!TypeOK
<1>3. c \in Mcp!Calls => at'[c] \in Unsent \cup {"failed"} /\ c \notin pending
  BY DEF McpInv, Mcp!TypeOK, Futures, Unsent
<1>4. Futures'
  BY <1>2, <1>3 DEF McpInv, Futures, Unsent
<1>5. Executions'
  BY <1>2, <1>3 DEF McpInv, Executions, Unsent
<1>6. Kept'
  BY <1>2, <1>3 DEF McpInv, Mcp!TypeOK, Kept, Unsent
<1>7. Mcp!WaitingTracked'
  BY DEF McpInv, Mcp!WaitingTracked
<1> QED BY <1>1, <1>4, <1>5, <1>6, <1>7 DEF McpInv

\* A call that returns takes its future with it.
LEMMA ReturnInv ==
  ASSUME McpInv, NEW c \in Mcp!Calls, NEW keep \in BOOLEAN, NEW step \in {"ok", "failed"},
         step = "ok" => result[c] = "ok", Mcp!Return(c, step, keep)
  PROVE  McpInv'
<1> USE DEF Mcp!Calls, Mcp!Actors, Mcp!serverVars, Mcp!recoverVars, Mcp!loopVars, Mcp!Return,
       Mcp!Goto
<1>1. Mcp!TypeOK'
  BY DEF McpInv, Mcp!TypeOK, Mcp!Steps, Mcp!Answers
<1>2. Futures'
  BY DEF McpInv, Mcp!TypeOK, Futures
<1>3. Executions'
  BY DEF McpInv, Mcp!TypeOK, Executions, Unsent
<1>4. Kept'
  BY DEF McpInv, Mcp!TypeOK, Futures, Kept
<1>5. Mcp!WaitingTracked'
  BY DEF McpInv, Mcp!TypeOK, Mcp!WaitingTracked
<1> QED BY <1>1, <1>2, <1>3, <1>4, <1>5 DEF McpInv

-----------------------------------------------------------------------------
\* A message is posted by a call that has none, in place of one that the server
\* turned away.
LEMMA PostInv ==
  ASSUME McpInv, NEW c \in Mcp!Calls, Mcp!Post(c)
  PROVE  McpInv'
<1>1. CASE ~Mcp!Connected
  <2>1. Mcp!Return(c, "failed", FALSE)
    BY <1>1 DEF Mcp!Post
  <2> QED BY <2>1, ReturnInv
<1>2. CASE Mcp!Connected
  <2> USE DEF Mcp!Calls, Mcp!Actors, Mcp!recoverVars, Mcp!loopVars, Mcp!Post, Mcp!Goto,
         Mcp!Tracks, Unsent
  <2>1. /\ at[c] \in {"queued", "backoff"}
        /\ at' = [at EXCEPT ![c] = "posting"] /\ pending' = pending \cup {c}
        /\ meta' = IF c \in Placers THEN meta \cup {<<c, attempt[c]>>} ELSE meta
        /\ request' = [request EXCEPT ![c] = "sent"]
        /\ via' = [via EXCEPT ![c] = session]
        /\ UNCHANGED <<attempt, result, executed, Mcp!recoverVars, Mcp!loopVars>>
    BY <1>2
  <2>2. Mcp!TypeOK'
    BY <2>1 DEF McpInv, Mcp!TypeOK, Mcp!Steps
  <2>3. Futures'
    BY <2>1 DEF McpInv, Mcp!TypeOK, Futures
  <2>4. Executions'
    BY <2>1 DEF McpInv, Mcp!TypeOK, Futures, Executions
  <2>5. Kept'
    BY <2>1 DEF McpInv, Mcp!TypeOK, Kept
  <2>6. Mcp!WaitingTracked'
    BY <2>1 DEF McpInv, Mcp!TypeOK, Mcp!WaitingTracked
  <2> QED BY <2>2, <2>3, <2>4, <2>5, <2>6 DEF McpInv
<1> QED BY <1>1, <1>2

\* A call goes on when its POST or its future does, or returns.
LEMMA ResumeInv ==
  ASSUME McpInv, NEW c \in Mcp!Calls, Mcp!PostReturns(c) \/ Mcp!Resume(c) \/ Mcp!TimesOut(c)
  PROVE  McpInv'
<1>1. CASE \E keep \in BOOLEAN : Mcp!Return(c, "failed", keep)
  BY <1>1, ReturnInv
<1>2. CASE result[c] = "ok" /\ Mcp!Return(c, "ok", FALSE)
  BY <1>2, ReturnInv
<1>3. CASE /\ at[c] = "posting" /\ Mcp!Goto(c, "waiting")
           /\ UNCHANGED <<Mcp!callVars, Mcp!serverVars, Mcp!recoverVars, Mcp!loopVars>>
  <2> USE <1>3 DEF Mcp!Calls, Mcp!Actors, Mcp!callVars, Mcp!serverVars, Mcp!recoverVars,
             Mcp!loopVars, Mcp!Goto
  <2>1. Mcp!TypeOK'
    BY DEF McpInv, Mcp!TypeOK, Mcp!Steps
  <2>2. Futures' /\ Mcp!WaitingTracked'
    BY DEF McpInv, Mcp!TypeOK, Futures, Mcp!WaitingTracked
  <2>3. Executions' /\ Kept'
    BY DEF McpInv, Mcp!TypeOK, Executions, Kept, Unsent
  <2> QED BY <2>1, <2>2, <2>3 DEF McpInv
<1>4. CASE /\ at[c] = "waiting" /\ Mcp!Retried(c) /\ Mcp!Goto(c, "backoff")
           /\ attempt' = [attempt EXCEPT ![c] = IF @ < 2 THEN @ + 1 ELSE @]
           /\ result' = [result EXCEPT ![c] = "none"]
           /\ UNCHANGED <<pending, meta, Mcp!serverVars, Mcp!recoverVars, Mcp!loopVars>>
  <2> USE <1>4 DEF Mcp!Calls, Mcp!Actors, Mcp!serverVars, Mcp!recoverVars, Mcp!loopVars,
             Mcp!Goto, Mcp!Retried
  <2>1. Mcp!TypeOK'
    BY DEF McpInv, Mcp!TypeOK, Mcp!Steps
  <2>2. c \notin pending
    BY DEF McpInv, Futures
  <2>3. Futures' /\ Mcp!WaitingTracked'
    BY <2>2 DEF McpInv, Mcp!TypeOK, Futures, Mcp!WaitingTracked
  <2>4. Executions' /\ Kept'
    BY DEF McpInv, Mcp!TypeOK, Executions, Kept, Unsent
  <2> QED BY <2>1, <2>3, <2>4 DEF McpInv
<1> QED BY <1>1, <1>2, <1>3, <1>4 DEF Mcp!PostReturns, Mcp!Resume, Mcp!TimesOut

\* The server executes a message once, and its answer sets a future that nothing
\* else has set.
LEMMA ServerInv ==
  ASSUME McpInv, NEW c \in Mcp!Calls, Mcp!Receive(c) \/ Mcp!Deliver(c)
  PROVE  McpInv'
<1> USE DEF Mcp!Calls, Mcp!Actors, Mcp!callVars, Mcp!recoverVars, Mcp!loopVars, Mcp!Answers
<1>1. CASE Mcp!Receive(c)
  <2> PICK a \in Mcp!Answers :
        /\ request[c] = "sent"
        /\ request' = [request EXCEPT ![c] = IF via[c] = session THEN a ELSE "none"]
        /\ executed' = IF c \in Placers /\ a \in {"ok", "unreadable"}
                       THEN [executed EXCEPT ![c] = @ + 1] ELSE executed
        /\ via' = [via EXCEPT ![c] = 0]
        /\ UNCHANGED <<at, Mcp!callVars, Mcp!recoverVars, Mcp!loopVars>>
    BY <1>1 DEF Mcp!Receive
  <2>1. Mcp!TypeOK'
    BY DEF McpInv, Mcp!TypeOK
  <2>2. Futures' /\ Kept' /\ Mcp!WaitingTracked'
    BY DEF McpInv, Futures, Kept, Mcp!WaitingTracked
  <2>3. Executions'
    BY DEF McpInv, Mcp!TypeOK, Executions, Unsent
  <2> QED BY <2>1, <2>2, <2>3 DEF McpInv
<1>2. CASE Mcp!Deliver(c)
  <2> USE <1>2 DEF Mcp!Deliver
  <2>1. Mcp!TypeOK'
    BY DEF McpInv, Mcp!TypeOK
  <2>2. Futures'
    BY DEF McpInv, Mcp!TypeOK, Futures
  <2>3. Executions'
    BY DEF McpInv, Mcp!TypeOK, Futures, Executions, Unsent
  <2>4. Kept' /\ Mcp!WaitingTracked'
    BY DEF McpInv, Mcp!TypeOK, Kept, Mcp!WaitingTracked
  <2> QED BY <2>1, <2>2, <2>3, <2>4 DEF McpInv
<1> QED BY <1>1, <1>2

\* The loop's steps that give up no connection, and the recovery's.
LEMMA LoopInv ==
  ASSUME McpInv,
         \/ Mcp!FirstStream \/ Mcp!Wake \/ Mcp!NextStream \/ Mcp!Rejoined
         \/ Mcp!RecoverStarts \/ Mcp!RecoverEnds
  PROVE  McpInv'
<1> USE DEF Mcp!callVars, Mcp!serverVars, Mcp!recoverVars, Mcp!loopVars, Mcp!OpenStream,
            Mcp!FirstStream, Mcp!Wake, Mcp!NextStream, Mcp!Rejoined, Mcp!RecoverStarts,
            Mcp!RecoverEnds
<1>1. Mcp!TypeOK'
  <2>1. CASE Mcp!FirstStream \/ Mcp!NextStream
    <3>1. streams' \in Nat /\ session' \in Nat
      BY <2>1 DEF McpInv, Mcp!TypeOK
    <3>2. loop' \in Mcp!LoopSteps /\ ready' \in BOOLEAN
      BY <2>1 DEF McpInv, Mcp!TypeOK, Mcp!LoopSteps
    <3> QED BY <2>1, <3>1, <3>2 DEF McpInv, Mcp!TypeOK
  <2>4. CASE Mcp!Wake
    BY <2>4 DEF McpInv, Mcp!TypeOK, Mcp!LoopSteps
  <2>5. CASE Mcp!Rejoined
    <3>1. spawned' \in BOOLEAN
      BY <2>5
    <3> QED BY <2>5, <3>1 DEF McpInv, Mcp!TypeOK, Mcp!LoopSteps
  <2>2. CASE Mcp!RecoverStarts
    BY <2>2 DEF McpInv, Mcp!TypeOK
  <2>3. CASE Mcp!RecoverEnds
    BY <2>3 DEF McpInv, Mcp!TypeOK
  <2> QED BY <2>1, <2>2, <2>3, <2>4, <2>5
<1>2. Futures' /\ Executions' /\ Mcp!WaitingTracked'
  BY DEF McpInv, Futures, Executions, Mcp!WaitingTracked
<1>3. (unconfirmed \cup taken \cup found)' \subseteq unconfirmed \cup taken \cup found
  OBVIOUS
<1>4. Kept'
  BY <1>3 DEF McpInv, Kept
<1> QED BY <1>1, <1>2, <1>4 DEF McpInv

-----------------------------------------------------------------------------
\* Every step keeps the invariant.
LEMMA McpNextInv == Apart /\ McpInv /\ [Mcp!Next]_(Mcp!vars) => McpInv'
<1> SUFFICES ASSUME Apart, McpInv, [Mcp!Next]_(Mcp!vars) PROVE McpInv'
  OBVIOUS
<1>1. ASSUME NEW c \in Mcp!Actors, Mcp!Start(c) PROVE McpInv'
  BY <1>1, MoveInv DEF Mcp!Start, Unsent, Mcp!Steps, McpInv, Mcp!TypeOK, Mcp!loopVars
<1>2. ASSUME NEW c \in Mcp!Actors, Mcp!Connects(c) PROVE McpInv'
  <2>1. CASE Mcp!TakeConnectLock(c)
    BY <2>1, MoveInv DEF Mcp!TakeConnectLock, Unsent, Mcp!Steps, Mcp!LoopSteps, McpInv, Mcp!TypeOK
  <2>2. CASE Mcp!Reconnect(c)
    <3>1. /\ at' \in [Mcp!Actors -> Mcp!Steps]
          /\ \A d \in Mcp!Calls : at'[d] = at[d] \/ (at[d] \in Unsent /\ at'[d] \in Unsent)
      BY <2>2 DEF Mcp!Reconnect, Mcp!Goto, McpInv, Mcp!TypeOK, Mcp!Steps, Unsent, Mcp!Actors
    <3> QED BY <2>2, <3>1, FailAllInv DEF Mcp!Reconnect, Mcp!LoopSteps, McpInv, Mcp!TypeOK
  <2>3. CASE Mcp!AwaitSession(c)
    BY <2>3, MoveInv
       DEF Mcp!AwaitSession, Mcp!Connect, Unsent, Mcp!Steps, McpInv, Mcp!TypeOK, Mcp!loopVars
  <2>4. CASE Mcp!Handshake(c)
    <3>1. PICK up \in BOOLEAN : Mcp!Connect(c, up)
      BY <2>4 DEF Mcp!Handshake, Mcp!Connected
    <3>2. c \in Mcp!Calls \/ c \in Admins
      BY DEF Mcp!Actors
    <3> QED
      BY <2>4, <3>1, <3>2, MoveInv
         DEF Mcp!Handshake, Mcp!Connect, Unsent, Mcp!Steps, McpInv, Mcp!TypeOK, Mcp!loopVars
  <2> QED BY <1>2, <2>1, <2>2, <2>3, <2>4 DEF Mcp!Connects
<1>3. ASSUME NEW c \in Mcp!Calls, Mcp!Calling(c) PROVE McpInv'
  BY <1>3, PostInv, ResumeInv DEF Mcp!Calling
<1>4. ASSUME NEW c \in Mcp!Calls, Mcp!Receive(c) \/ Mcp!Deliver(c) PROVE McpInv'
  BY <1>4, ServerInv
<1>5. CASE Mcp!Drop \/ Mcp!RejoinFails
  BY <1>5, FailAllInv DEF Mcp!Drop, Mcp!RejoinFails, Mcp!StreamLost, Mcp!LoopSteps, McpInv,
         Mcp!TypeOK
<1>6. CASE \/ Mcp!FirstStream \/ Mcp!Wake \/ Mcp!NextStream \/ Mcp!Rejoined
           \/ Mcp!RecoverStarts \/ Mcp!RecoverEnds
  BY <1>6, LoopInv
<1>7. CASE UNCHANGED Mcp!vars
  BY <1>7 DEF Mcp!vars, Mcp!callVars, Mcp!serverVars, Mcp!recoverVars, Mcp!loopVars, McpInv,
         Mcp!TypeOK,
              Futures, Executions, Kept, Mcp!WaitingTracked
<1> QED BY <1>1, <1>2, <1>3, <1>4, <1>5, <1>6, <1>7 DEF Mcp!Next

LEMMA McpInvHolds == ASSUME Apart PROVE Mcp!Spec => []McpInv
<1>1. McpInv /\ [Mcp!Next]_(Mcp!vars) => McpInv'
  BY McpNextInv
<1> QED BY <1>1, McpInitInv, PTL DEF Mcp!Spec

\* Type correctness of the transport: every handler, the loop and the recovery
\* keep each variable in its range.
THEOREM CallsTyped == ASSUME Apart PROVE Mcp!Spec => []Mcp!TypeOK
<1>1. McpInv => Mcp!TypeOK
  BY DEF McpInv
<1> QED BY <1>1, McpInvHolds, PTL

\* _call_tool_inner and its retry place the order of a call at most once, for
\* any number of calls, dropped streams and late answers.
THEOREM AtMostOnce == ASSUME Apart PROVE Mcp!Spec => []Mcp!PlacedOnce
<1>1. McpInv => Mcp!PlacedOnce
  BY DEF McpInv, Executions, Mcp!PlacedOnce
<1> QED BY <1>1, McpInvHolds, PTL

\* What _fail_all_pending keeps for the recovery was never answered to its
\* caller, and never will be.
THEOREM OnlyUnanswered == ASSUME Apart PROVE Mcp!Spec => []Mcp!RecoversUnanswered
<1>1. McpInv => Mcp!RecoversUnanswered
  BY DEF McpInv, Mcp!TypeOK, Futures, Kept, Mcp!RecoversUnanswered, Mcp!Calls
<1> QED BY <1>1, McpInvHolds, PTL

\* Every order with a future in _pending has its entry in _pending_order_meta.
THEOREM Tracked == ASSUME Apart PROVE Mcp!Spec => []Mcp!WaitingTracked
<1>1. McpInv => Mcp!WaitingTracked
  BY DEF McpInv
<1> QED BY <1>1, McpInvHolds, PTL
=============================================================================
