------------------------- MODULE TradingCycleProofs -------------------------
(***************************************************************************)
(* Theorems of TradingCycle for every set of candidates, every amount of   *)
(* cash and every price: the type invariant; that neither the active       *)
(* reservations nor, in ENFORCE mode, the accepted orders of a cycle exceed *)
(* the cash of its snapshot; and who keeps a reservation and why one is    *)
(* refused.                                                                *)
(***************************************************************************)
EXTENDS TradingCycle, FiniteSetTheorems, TLAPS

(***************************************************************************)
(* Arithmetic and cardinality facts.                                       *)
(***************************************************************************)

\* An order amount (price times quantity) is a natural number.
LEMMA ProductNat ==
  ASSUME NEW a \in Nat, NEW b \in Nat
  PROVE  a * b \in Nat
  OBVIOUS

\* What int(cash / price) yields is a natural number.
LEMMA QuotientNat ==
  ASSUME NEW a \in Nat, NEW b \in Nat \ {0}
  PROVE  a \div b \in Nat
  OBVIOUS

\* The coins of one reservation of n won are n in number.
LEMMA CoinsOfOne ==
  ASSUME NEW c, NEW n \in Nat
  PROVE  /\ IsFiniteSet({c} \X (1 .. n))
         /\ Cardinality({c} \X (1 .. n)) = n
<1>1. IsFiniteSet({c}) /\ Cardinality({c}) = 1
  BY FS_Singleton
<1>2. IsFiniteSet(1 .. n) /\ Cardinality(1 .. n) = n
  BY FS_Interval
<1>3. IsFiniteSet({c} \X (1 .. n))
      /\ Cardinality({c} \X (1 .. n)) = Cardinality({c}) * Cardinality(1 .. n)
  BY <1>1, <1>2, FS_Product
<1> QED  BY <1>1, <1>2, <1>3

\* Adding the coins of one reservation adds at most its amount.
LEMMA AddCoins ==
  ASSUME NEW S, IsFiniteSet(S), NEW T, NEW c, NEW n \in Nat,
         T \subseteq S \cup ({c} \X (1 .. n))
  PROVE  /\ IsFiniteSet(T) /\ Cardinality(T) \in Nat
         /\ Cardinality(T) <= Cardinality(S) + n
<1> DEFINE U == {c} \X (1 .. n)
<1>1. IsFiniteSet(U) /\ Cardinality(U) = n
  BY CoinsOfOne
<1> HIDE DEF U
<1>2. IsFiniteSet(S \cup U)
      /\ Cardinality(S \cup U) = Cardinality(S) + n - Cardinality(S \cap U)
  BY <1>1, FS_Union
<1>3. IsFiniteSet(S \cap U)
  BY FS_Intersection
<1>4. Cardinality(S) \in Nat /\ Cardinality(S \cap U) \in Nat
  BY <1>3, FS_CardinalityType
<1>5. IsFiniteSet(T) /\ Cardinality(T) <= Cardinality(S \cup U)
  BY <1>2, FS_Subset DEF U
<1>6. Cardinality(T) \in Nat
  BY <1>5, FS_CardinalityType
<1> QED  BY <1>2, <1>4, <1>5, <1>6

(***************************************************************************)
(* The inductive invariant.                                                *)
(***************************************************************************)

\* A task that has not submitted yet has committed nothing at the broker, and
\* before the tasks are gathered there is no task.
NothingCommittedYet ==
  /\ \A c \in Candidates : pc[c] \in Steps => cost[c] = 0
  /\ phase = "scanning" => \A c \in Candidates : pc[c] = "none" /\ cost[c] = 0

\* In ENFORCE mode a BUY about to be submitted holds a reservation of exactly
\* the amount it orders.
OrderedIsReserved ==
  Enforce => \A c \in Candidates :
    pc[c] = "submit" /\ side[c] = "BUY"
      => active[c] /\ price[c] > 0 /\ resv[c] = price[c] * qty[c]

\* In ENFORCE mode what a candidate has committed is still reserved.
CommittedIsReserved ==
  Enforce => \A c \in Candidates :
    cost[c] > 0 => active[c] /\ cost[c] <= resv[c]

CoinsFinite == IsFiniteSet(ReservedCoins)

IInv ==
  /\ TypeOK /\ CoinsFinite /\ ReservedWithinCash
  /\ NothingCommittedYet /\ OrderedIsReserved /\ CommittedIsReserved

(***************************************************************************)
(* Type correctness.                                                       *)
(***************************************************************************)

LEMMA TypeInit == Init => TypeOK
BY CycleAssumption DEF Init, TypeOK, Steps, Outcomes

\* EndTask keeps the task variables in their types.
LEMMA EndTaskType ==
  ASSUME TypeOK, NEW c \in Candidates, NEW outcome \in Outcomes,
         EndTask(c, outcome)
  PROVE  /\ pc' \in [Candidates -> Steps \cup Outcomes]
         /\ quote' \in [Candidates -> Nat]
         /\ side' \in [Candidates -> {"NONE", "BUY", "SELL"}]
         /\ price' \in [Candidates -> Nat]
         /\ qty' \in [Candidates -> Nat]
BY DEF TypeOK, EndTask

\* The candidate's new quantity after the buying power query is a number.
LEMMA CappedType ==
  ASSUME TypeOK, NEW c \in Candidates, NEW q \in CappedQuantities(c)
  PROVE  q \in Nat
<1>1. CASE q = qty[c]
  BY <1>1 DEF TypeOK
<1>2. CASE q # qty[c]
  <2>1. PICK p \in (IF quote[c] > 0 THEN {quote[c]} ELSE Prices) :
          q = IF brokerCash \div p < qty[c] THEN brokerCash \div p ELSE qty[c]
    BY <1>2 DEF CappedQuantities
  <2>2. p \in Nat \ {0}
    BY <2>1, CycleAssumption DEF TypeOK
  <2>3. brokerCash \div p \in Nat
    BY <2>2, QuotientNat DEF TypeOK
  <2> QED  BY <2>1, <2>3 DEF TypeOK
<1> QED  BY <1>1, <1>2

\* An approval of _tier2_review names a side, and numbers or 0.
LEMMA ApprovalType ==
  ASSUME NEW a \in Approvals
  PROVE  a.action \in {"BUY", "SELL"} /\ a.price \in Nat /\ a.qty \in Nat
<1>1. /\ a.action \in {"BUY", "SELL"}
      /\ a.price \in Prices \cup {0} /\ a.qty \in Quantities \cup {0}
  BY DEF Approvals
<1>2. Prices \cup {0} \subseteq Nat /\ Quantities \cup {0} \subseteq Nat
  BY CycleAssumption
<1> QED  BY <1>1, <1>2

\* A snapshot is an amount of cash and a set of holdings.
LEMMA SnapshotType ==
  ASSUME TypeOK
  PROVE  \A s \in Snapshots : s[1] \in Nat /\ s[2] \subseteq Candidates
BY DEF TypeOK, Snapshots

LEMMA TypeStep == TypeOK /\ [Next]_vars => TypeOK'
<1> SUFFICES ASSUME TypeOK, [Next]_vars PROVE TypeOK'
  OBVIOUS
<1> USE CycleAssumption
<1>1. CASE TakeSnapshot
  BY <1>1, SnapshotType DEF TypeOK, TakeSnapshot, taskVars, Steps, Outcomes
<1>2. CASE Scan
  BY <1>2 DEF TypeOK, Scan, Selections, taskVars, ledgerVars, Steps, Outcomes
<1>3. CASE FinishCycle
  BY <1>3 DEF TypeOK, FinishCycle, taskVars, ledgerVars
<1>4. CASE CashMoves
  BY <1>4 DEF TypeOK, CashMoves, taskVars, ledgerVars
<1>5. ASSUME NEW c \in Candidates, Task(c) PROVE TypeOK'
  <2>1. CASE Admit(c)
    <3>1. CASE EndTask(c, "skipped")
      BY <2>1, <3>1, EndTaskType
      DEF TypeOK, Admit, cycleVars, ledgerVars, Outcomes
    <3>2. CASE Advance(c, "fetch") /\ UNCHANGED taskVars
      BY <2>1, <3>2
      DEF TypeOK, Admit, Advance, cycleVars, ledgerVars, taskVars, Steps
    <3> QED  BY <2>1, <3>1, <3>2 DEF Admit
  <2>2. CASE Fetch(c)
    <3>1. CASE EndTask(c, "skipped")
      BY <2>2, <3>1, EndTaskType
      DEF TypeOK, Fetch, cycleVars, ledgerVars, Outcomes
    <3>2. ASSUME NEW p \in FetchedPrices, quote' = [quote EXCEPT ![c] = p],
                 Advance(c, "tier1"), UNCHANGED <<side, price, qty>>
          PROVE  TypeOK'
      BY <2>2, <3>2 DEF TypeOK, Fetch, FetchedPrices, Advance, cycleVars, ledgerVars, Steps
    <3> QED  BY <2>2, <3>1, <3>2 DEF Fetch
  <2>3. CASE Tier1(c)
    <3>1. CASE EndTask(c, "skipped")
      BY <2>3, <3>1, EndTaskType
      DEF TypeOK, Tier1, cycleVars, ledgerVars, Outcomes
    <3>2. CASE Advance(c, "tier2") /\ UNCHANGED taskVars
      BY <2>3, <3>2
      DEF TypeOK, Tier1, Advance, cycleVars, ledgerVars, taskVars, Steps
    <3> QED  BY <2>3, <3>1, <3>2 DEF Tier1
  <2>4. CASE Tier2(c)
    <3>1. CASE EndTask(c, "skipped")
      BY <2>4, <3>1, EndTaskType
      DEF TypeOK, Tier2, cycleVars, ledgerVars, Outcomes
    <3>2. ASSUME NEW a \in Approvals, side' = [side EXCEPT ![c] = a.action],
                 price' = [price EXCEPT ![c] = a.price],
                 qty' = [qty EXCEPT ![c] = a.qty],
                 Advance(c, "gate"), UNCHANGED quote
          PROVE  TypeOK'
      <4>1. a.action \in {"BUY", "SELL"} /\ a.price \in Nat /\ a.qty \in Nat
        BY <3>2, ApprovalType
      <4> QED  BY <2>4, <3>2, <4>1
               DEF TypeOK, Tier2, Advance, cycleVars, ledgerVars, Steps
    <3> QED  BY <2>4, <3>1, <3>2 DEF Tier2
  <2>5. CASE Gate(c)
    <3>1. CASE EndTask(c, "skipped")
      BY <2>5, <3>1, EndTaskType
      DEF TypeOK, Gate, cycleVars, ledgerVars, Outcomes
    <3>2. CASE Advance(c, "risk") /\ UNCHANGED taskVars
      BY <2>5, <3>2
      DEF TypeOK, Gate, Advance, cycleVars, ledgerVars, taskVars, Steps
    <3>3. ASSUME NEW q \in Quantities, qty' = [qty EXCEPT ![c] = q],
                 Advance(c, "risk"), UNCHANGED <<quote, side, price>>
          PROVE  TypeOK'
      BY <2>5, <3>3 DEF TypeOK, Gate, Advance, cycleVars, ledgerVars, Steps
    <3> QED  BY <2>5, <3>1, <3>2, <3>3 DEF Gate
  <2>6. CASE RiskCheck(c)
    <3>1. CASE EndTask(c, "skipped")
      BY <2>6, <3>1, EndTaskType
      DEF TypeOK, RiskCheck, cycleVars, ledgerVars, Outcomes
    <3>2. CASE Advance(c, "submit") /\ UNCHANGED taskVars
      BY <2>6, <3>2
      DEF TypeOK, RiskCheck, Advance, cycleVars, ledgerVars, taskVars, Steps
    <3>3. ASSUME NEW q \in ApprovedQuantities(c), qty' = [qty EXCEPT ![c] = q],
                 Advance(c, "power"), UNCHANGED <<quote, side, price>>
          PROVE  TypeOK'
      BY <2>6, <3>3
      DEF TypeOK, RiskCheck, ApprovedQuantities, Advance, cycleVars, ledgerVars, Steps
    <3> QED  BY <2>6, <3>1, <3>2, <3>3 DEF RiskCheck
  <2>7. CASE PowerAndReserve(c)
    <3>1. CASE EndTask(c, "skipped") /\ UNCHANGED <<resv, active>>
      BY <2>7, <3>1, EndTaskType
      DEF TypeOK, PowerAndReserve, cycleVars, Outcomes
    <3>2. ASSUME NEW q \in CappedQuantities(c),
                 Reserve(c, ExecutionPrice(c) * q, q),
                 IF Approved(ExecutionPrice(c) * q, q) \/ ~Enforce
                 THEN /\ Advance(c, "submit")
                      /\ price' = [price EXCEPT ![c] = ExecutionPrice(c)]
                      /\ qty' = [qty EXCEPT ![c] = q]
                      /\ UNCHANGED <<quote, side>>
                 ELSE EndTask(c, "refused")
          PROVE  TypeOK'
      <4> DEFINE p == ExecutionPrice(c)
      <4>1. q \in Nat /\ p \in Nat
        BY CappedType DEF ExecutionPrice, TypeOK
      <4>2. p * q \in Nat
        BY <4>1, ProductNat
      <4>3. resv' \in [Candidates -> Nat] /\ active' \in [Candidates -> BOOLEAN]
        BY <3>2, <4>2 DEF Reserve, TypeOK
      <4>4. /\ pc' \in [Candidates -> Steps \cup Outcomes]
            /\ quote' \in [Candidates -> Nat]
            /\ side' \in [Candidates -> {"NONE", "BUY", "SELL"}]
            /\ price' \in [Candidates -> Nat]
            /\ qty' \in [Candidates -> Nat]
        <5>1. CASE EndTask(c, "refused")
          BY <5>1, EndTaskType DEF Outcomes
        <5>2. CASE ~EndTask(c, "refused")
          BY <3>2, <4>1, <5>2 DEF Advance, TypeOK, Steps
        <5> QED  BY <5>1, <5>2
      <4> QED  BY <2>7, <4>3, <4>4 DEF PowerAndReserve, ReserveForCycle, TypeOK, cycleVars
    <3> QED  BY <2>7, <3>1, <3>2 DEF PowerAndReserve, ReserveForCycle
  <2>8. CASE SubmitAccepted(c)
    <3>1. EndTask(c, "sent") /\ UNCHANGED <<phase, cycles, held, ledgerVars>>
      BY <2>8 DEF SubmitAccepted
    <3>2. brokerCash' \in Nat /\ cost' \in [Candidates -> Nat]
      <4>1. CASE side[c] = "BUY"
        <5>1. PICK p \in (IF price[c] > 0 THEN {price[c]} ELSE Prices) :
                /\ p * qty[c] <= brokerCash
                /\ brokerCash' = brokerCash - p * qty[c]
                /\ cost' = [cost EXCEPT ![c] = p * qty[c]]
          BY <2>8, <4>1 DEF SubmitAccepted
        <5>2. p \in Nat /\ qty[c] \in Nat
          BY DEF TypeOK
        <5>3. p * qty[c] \in Nat
          BY <5>2, ProductNat
        <5> QED  BY <5>1, <5>3 DEF TypeOK
      <4>2. CASE side[c] # "BUY"
        BY <2>8, <4>2 DEF SubmitAccepted, TypeOK
      <4> QED  BY <4>1, <4>2
    <3> QED  BY <3>1, <3>2, EndTaskType DEF TypeOK, Outcomes, ledgerVars
  <2>9. CASE SubmitRefused(c)
    BY <2>9, EndTaskType DEF TypeOK, SubmitRefused, Release, cycleVars, Outcomes
  <2>10. CASE SubmitRaises(c)
    BY <2>10, EndTaskType DEF TypeOK, SubmitRaises, cycleVars, ledgerVars, Outcomes
  <2>11. CASE SubmitLost(c)
    <3>1. PICK p \in (IF price[c] > 0 THEN {price[c]} ELSE Prices) :
            p * qty[c] <= brokerCash /\ brokerCash' = brokerCash - p * qty[c]
      BY <2>11 DEF SubmitLost
    <3>2. p \in Nat /\ qty[c] \in Nat
      BY DEF TypeOK
    <3>3. p * qty[c] \in Nat
      BY <3>2, ProductNat
    <3>4. brokerCash' \in Nat
      BY <3>1, <3>3 DEF TypeOK
    <3> QED
      BY <2>11, <3>4, EndTaskType DEF TypeOK, SubmitLost, Release, Outcomes
  <2> QED
    BY <1>5, <2>1, <2>2, <2>3, <2>4, <2>5, <2>6, <2>7, <2>8, <2>9, <2>10, <2>11
    DEF Task
<1>6. CASE UNCHANGED vars
  BY <1>6 DEF TypeOK, vars
<1> QED  BY <1>1, <1>2, <1>3, <1>4, <1>5, <1>6 DEF Next

\* Type correctness of every behaviour of the cycle (TypeOK).
THEOREM TypeCorrect == Spec => []TypeOK
<1>1. Init => TypeOK
  BY TypeInit
<1>2. TypeOK /\ [Next]_vars => TypeOK'
  BY TypeStep
<1> QED  BY <1>1, <1>2, PTL DEF Spec

(***************************************************************************)
(* The safety invariants.                                                  *)
(***************************************************************************)

LEMMA InvInit == Init => IInv
<1> SUFFICES ASSUME Init PROVE IInv
  OBVIOUS
<1>1. TypeOK
  BY TypeInit
<1>2. ReservedCoins = {}
  BY DEF Init, ReservedCoins
<1>3. CoinsFinite /\ ReservedWithinCash
  BY <1>2, FS_EmptySet DEF CoinsFinite, ReservedWithinCash, Init
<1>4. NothingCommittedYet /\ OrderedIsReserved /\ CommittedIsReserved
  BY DEF Init, NothingCommittedYet, OrderedIsReserved, CommittedIsReserved, Steps
<1> QED  BY <1>1, <1>3, <1>4 DEF IInv

\* A step that adds no coin and keeps the snapshot keeps the reservations
\* within the snapshot's cash.
LEMMA FewerCoins ==
  ASSUME CoinsFinite, ReservedWithinCash, TypeOK,
         ReservedCoins' \subseteq ReservedCoins, startCash' = startCash
  PROVE  CoinsFinite' /\ ReservedWithinCash'
<1>1. IsFiniteSet(ReservedCoins')
      /\ Cardinality(ReservedCoins') <= Cardinality(ReservedCoins)
  BY FS_Subset DEF CoinsFinite
<1>2. Cardinality(ReservedCoins) \in Nat /\ Cardinality(ReservedCoins') \in Nat
  BY <1>1, FS_CardinalityType DEF CoinsFinite
<1> QED  BY <1>1, <1>2 DEF CoinsFinite, ReservedWithinCash, TypeOK

\* OrderReservationLedger.reserve keeps the reservations within the cash.
LEMMA ReserveStep ==
  ASSUME CoinsFinite, ReservedWithinCash, TypeOK, NEW c \in Candidates,
         NEW amount \in Nat, NEW q \in Nat, Reserve(c, amount, q),
         startCash' = startCash
  PROVE  CoinsFinite' /\ ReservedWithinCash'
<1>1. CASE ~Approved(amount, q)
  <2>1. ReservedCoins' = ReservedCoins
    BY <1>1 DEF Reserve, ReservedCoins
  <2> QED  BY <2>1, FewerCoins
<1>2. CASE Approved(amount, q)
  <2>1. ReservedCoins' \subseteq ReservedCoins \cup ({c} \X (1 .. amount))
    <3> SUFFICES ASSUME NEW d \in Candidates, active'[d],
                        NEW x \in {d} \X (1 .. resv'[d])
                 PROVE  x \in ReservedCoins \cup ({c} \X (1 .. amount))
      BY DEF ReservedCoins
    <3>1. CASE d = c
      BY <1>2, <3>1 DEF Reserve, TypeOK
    <3>2. CASE d # c
      <4>1. active[d] /\ resv'[d] = resv[d]
        BY <1>2, <3>2 DEF Reserve, TypeOK
      <4> QED  BY <4>1 DEF ReservedCoins
    <3> QED  BY <3>1, <3>2
  <2>2. /\ IsFiniteSet(ReservedCoins') /\ Cardinality(ReservedCoins') \in Nat
        /\ Cardinality(ReservedCoins') <= Cardinality(ReservedCoins) + amount
    BY <2>1, AddCoins DEF CoinsFinite
  <2>3. Cardinality(ReservedCoins) \in Nat
    BY FS_CardinalityType DEF CoinsFinite
  <2>4. Cardinality(ReservedCoins) + amount <= startCash
    BY <1>2, <2>3 DEF Approved, available_cash, TypeOK
  <2> QED  BY <2>2, <2>3, <2>4 DEF CoinsFinite, ReservedWithinCash, TypeOK
<1> QED  BY <1>1, <1>2

\* Releasing a reservation only removes coins.
LEMMA ReleaseShrinks ==
  ASSUME TypeOK, NEW c \in Candidates, Release(c), resv' = resv
  PROVE  ReservedCoins' \subseteq ReservedCoins
BY DEF Release, ReservedCoins, TypeOK

\* Every step keeps the reservations within the cash of the snapshot.
LEMMA ReservedStep ==
  ASSUME IInv, [Next]_vars
  PROVE  CoinsFinite' /\ ReservedWithinCash'
<1> USE DEF IInv
<1>1. CASE TakeSnapshot
  <2>1. ReservedCoins' = {}
    BY <1>1 DEF TakeSnapshot, ReservedCoins
  <2>2. startCash' \in Nat
    BY <1>1, SnapshotType DEF TakeSnapshot
  <2> QED  BY <2>1, <2>2, FS_EmptySet DEF CoinsFinite, ReservedWithinCash
<1>2. ASSUME UNCHANGED ledgerVars
      PROVE  CoinsFinite' /\ ReservedWithinCash'
  BY <1>2, FewerCoins DEF ledgerVars, ReservedCoins
<1>3. CASE Scan \/ FinishCycle \/ CashMoves \/ UNCHANGED vars
  BY <1>2, <1>3 DEF Scan, FinishCycle, CashMoves, vars, ledgerVars
<1>4. ASSUME NEW c \in Candidates, Task(c)
      PROVE  CoinsFinite' /\ ReservedWithinCash'
  <2>1. CASE \/ Admit(c) \/ Fetch(c) \/ Tier1(c) \/ Tier2(c) \/ Gate(c)
             \/ RiskCheck(c) \/ SubmitAccepted(c) \/ SubmitRaises(c)
    BY <1>2, <2>1
    DEF Admit, Fetch, Tier1, Tier2, Gate, RiskCheck, SubmitAccepted, SubmitRaises
  <2>2. CASE PowerAndReserve(c)
    <3>1. startCash' = startCash
      BY <2>2 DEF PowerAndReserve
    <3>2. CASE UNCHANGED <<resv, active>>
      BY <1>2, <3>1, <3>2 DEF ledgerVars
    <3>3. ASSUME NEW q \in CappedQuantities(c),
                 Reserve(c, ExecutionPrice(c) * q, q)
          PROVE  CoinsFinite' /\ ReservedWithinCash'
      <4>1. q \in Nat /\ ExecutionPrice(c) \in Nat
        BY CappedType DEF ExecutionPrice, TypeOK
      <4>2. ExecutionPrice(c) * q \in Nat
        BY <4>1, ProductNat
      <4> QED  BY <3>1, <3>3, <4>1, <4>2, ReserveStep
    <3> QED  BY <2>2, <3>2, <3>3 DEF PowerAndReserve, ReserveForCycle
  <2>3. CASE SubmitRefused(c) \/ SubmitLost(c)
    BY <2>3, ReleaseShrinks, FewerCoins DEF SubmitRefused, SubmitLost
  <2> QED  BY <1>4, <2>1, <2>2, <2>3 DEF Task
<1> QED  BY <1>1, <1>3, <1>4 DEF Next

\* What the ledger writes to the books of candidate c, seen from candidate d.
LEMMA ReserveEffect ==
  ASSUME TypeOK, NEW c \in Candidates, NEW amount \in Nat, NEW q \in Nat,
         Reserve(c, amount, q)
  PROVE  /\ \A d \in Candidates \ {c} :
              resv'[d] = resv[d] /\ active'[d] = active[d]
         /\ Approved(amount, q) => amount > 0 /\ active'[c] /\ resv'[c] = amount
BY DEF Reserve, Approved, TypeOK

\* The three conjuncts of IInv that relate a task to what it has reserved.
Books == NothingCommittedYet /\ OrderedIsReserved /\ CommittedIsReserved

\* A step of candidate c that leaves the books of the other candidates alone
\* has to re-establish only those of c.
LEMMA OtherBooks ==
  ASSUME IInv, TypeOK', NEW c \in Candidates, pc[c] \in Steps, phase' = phase,
         \A d \in Candidates \ {c} :
           /\ pc'[d] = pc[d] /\ side'[d] = side[d] /\ price'[d] = price[d]
           /\ qty'[d] = qty[d] /\ resv'[d] = resv[d] /\ active'[d] = active[d]
           /\ cost'[d] = cost[d],
         pc'[c] \in Steps => cost'[c] = 0,
         Enforce /\ pc'[c] = "submit" /\ side'[c] = "BUY"
           => active'[c] /\ price'[c] > 0 /\ resv'[c] = price'[c] * qty'[c],
         Enforce /\ cost'[c] > 0 => active'[c] /\ cost'[c] <= resv'[c]
  PROVE  Books'
<1>1. phase # "scanning"
  BY DEF IInv, NothingCommittedYet, Steps
<1>2. NothingCommittedYet'
  BY <1>1 DEF IInv, NothingCommittedYet
<1>3. OrderedIsReserved'
  BY DEF IInv, OrderedIsReserved
<1>4. CommittedIsReserved'
  BY DEF IInv, CommittedIsReserved
<1> QED  BY <1>2, <1>3, <1>4 DEF Books

\* EndTask touches candidate c only, and leaves it without a signal.
LEMMA EndTaskEffect ==
  ASSUME TypeOK, NEW c \in Candidates, NEW outcome \in Outcomes,
         EndTask(c, outcome)
  PROVE  /\ pc'[c] = outcome /\ outcome \notin Steps
         /\ \A d \in Candidates \ {c} :
              /\ pc'[d] = pc[d] /\ side'[d] = side[d]
              /\ price'[d] = price[d] /\ qty'[d] = qty[d]
BY DEF TypeOK, EndTask, Steps, Outcomes

\* The steps of a task before its reservation neither reserve nor commit.
LEMMA EarlyBooks ==
  ASSUME IInv, TypeOK', NEW c \in Candidates,
         \/ Admit(c) \/ Fetch(c) \/ Tier1(c) \/ Tier2(c) \/ Gate(c)
         \/ RiskCheck(c)
  PROVE  Books'
<1> USE DEF IInv
<1>1. pc[c] \in Steps /\ cost[c] = 0
  BY DEF Admit, Fetch, Tier1, Tier2, Gate, RiskCheck, Steps, NothingCommittedYet
<1>2. UNCHANGED <<phase, cost, resv, active>>
  BY DEF Admit, Fetch, Tier1, Tier2, Gate, RiskCheck, cycleVars, ledgerVars
<1>3. \A d \in Candidates \ {c} :
        /\ pc'[d] = pc[d] /\ side'[d] = side[d]
        /\ price'[d] = price[d] /\ qty'[d] = qty[d]
  <2>1. CASE EndTask(c, "skipped")
    BY <2>1, EndTaskEffect DEF Outcomes
  <2>2. CASE ~EndTask(c, "skipped")
    BY <2>2
    DEF Admit, Fetch, Tier1, Tier2, Gate, RiskCheck, Advance, taskVars, TypeOK
  <2> QED  BY <2>1, <2>2
<1>4. ~(pc'[c] = "submit" /\ side'[c] = "BUY")
  <2>1. CASE EndTask(c, "skipped")
    BY <2>1, EndTaskEffect DEF Outcomes, Steps
  <2>2. CASE ~EndTask(c, "skipped")
    BY <2>2
    DEF Admit, Fetch, Tier1, Tier2, Gate, RiskCheck, Advance, taskVars, TypeOK
  <2> QED  BY <2>1, <2>2
<1> QED  BY <1>1, <1>2, <1>3, <1>4, OtherBooks DEF TypeOK

\* The reservation makes the amount reserved the amount about to be ordered.
LEMMA ReserveBooks ==
  ASSUME IInv, TypeOK', NEW c \in Candidates, PowerAndReserve(c)
  PROVE  Books'
<1> USE DEF IInv
<1>1. pc[c] \in Steps /\ cost[c] = 0 /\ UNCHANGED <<phase, cost>>
  BY DEF PowerAndReserve, Steps, NothingCommittedYet, cycleVars
<1>2. CASE EndTask(c, "skipped") /\ UNCHANGED <<resv, active>>
  BY <1>1, <1>2, EndTaskEffect, OtherBooks DEF Outcomes, Steps, TypeOK
<1>3. ASSUME NEW q \in CappedQuantities(c),
             Reserve(c, ExecutionPrice(c) * q, q),
             IF Approved(ExecutionPrice(c) * q, q) \/ ~Enforce
             THEN /\ Advance(c, "submit")
                  /\ price' = [price EXCEPT ![c] = ExecutionPrice(c)]
                  /\ qty' = [qty EXCEPT ![c] = q]
                  /\ UNCHANGED <<quote, side>>
             ELSE EndTask(c, "refused")
      PROVE  Books'
  <2> DEFINE p == ExecutionPrice(c)
  <2>1. q \in Nat /\ p \in Nat
    BY CappedType DEF ExecutionPrice, TypeOK
  <2>2. p * q \in Nat
    BY <2>1, ProductNat
  <2>3. /\ \A d \in Candidates \ {c} :
              resv'[d] = resv[d] /\ active'[d] = active[d]
        /\ Approved(p * q, q) => p * q > 0 /\ active'[c] /\ resv'[c] = p * q
    BY <1>3, <2>1, <2>2, ReserveEffect
  <2>4. CASE EndTask(c, "refused")
    BY <1>1, <2>3, <2>4, EndTaskEffect, OtherBooks DEF Outcomes, Steps, TypeOK
  <2>5. CASE ~EndTask(c, "refused")
    <3>1. /\ Approved(p * q, q) \/ ~Enforce
          /\ pc' = [pc EXCEPT ![c] = "submit"]
          /\ price' = [price EXCEPT ![c] = p] /\ qty' = [qty EXCEPT ![c] = q]
          /\ side' = side
      BY <1>3, <2>5 DEF Advance
    <3>2. /\ price'[c] = p /\ qty'[c] = q
          /\ \A d \in Candidates \ {c} :
               /\ pc'[d] = pc[d] /\ side'[d] = side[d]
               /\ price'[d] = price[d] /\ qty'[d] = qty[d]
      BY <3>1 DEF TypeOK
    <3>3. Enforce => active'[c] /\ p > 0 /\ resv'[c] = p * q
      <4>1. p * q > 0 => p > 0
        BY <2>1
      <4> QED  BY <2>3, <3>1, <4>1
    <3> QED  BY <1>1, <2>3, <3>2, <3>3, OtherBooks DEF TypeOK
  <2> QED  BY <2>4, <2>5
<1> QED  BY <1>2, <1>3 DEF PowerAndReserve, ReserveForCycle

\* An accepted BUY commits the amount it has reserved.
LEMMA AcceptedBooks ==
  ASSUME IInv, TypeOK', NEW c \in Candidates, SubmitAccepted(c)
  PROVE  Books'
<1> USE DEF IInv
<1>1. /\ pc[c] = "submit" /\ pc[c] \in Steps /\ cost[c] = 0
      /\ UNCHANGED <<phase, resv, active>>
  BY DEF SubmitAccepted, Steps, NothingCommittedYet, ledgerVars
<1>2. EndTask(c, "sent")
  BY DEF SubmitAccepted
<1>3. CASE side[c] # "BUY"
  BY <1>1, <1>2, <1>3, EndTaskEffect, OtherBooks
  DEF SubmitAccepted, Outcomes, Steps, TypeOK
<1>4. CASE side[c] = "BUY"
  <2>1. PICK p \in (IF price[c] > 0 THEN {price[c]} ELSE Prices) :
          cost' = [cost EXCEPT ![c] = p * qty[c]]
    BY <1>4 DEF SubmitAccepted
  <2>2. /\ cost'[c] = p * qty[c]
        /\ \A d \in Candidates \ {c} : cost'[d] = cost[d]
    BY <2>1 DEF TypeOK
  <2>3. Enforce => active[c] /\ p = price[c] /\ resv[c] = price[c] * qty[c]
    BY <1>1, <1>4, <2>1 DEF OrderedIsReserved
  <2>4. Enforce /\ cost'[c] > 0 => active'[c] /\ cost'[c] <= resv'[c]
    BY <1>1, <2>2, <2>3 DEF TypeOK
  <2> QED
    BY <1>1, <1>2, <2>2, <2>4, EndTaskEffect, OtherBooks DEF Outcomes, Steps
<1> QED  BY <1>3, <1>4

LEMMA BooksStep ==
  ASSUME IInv, TypeOK', [Next]_vars
  PROVE  Books'
<1> USE DEF IInv
<1>1. CASE TakeSnapshot
  BY <1>1 DEF TakeSnapshot, Books, NothingCommittedYet, OrderedIsReserved,
    CommittedIsReserved, Steps
<1>2. CASE Scan
  BY <1>2 DEF Scan, Books, NothingCommittedYet, OrderedIsReserved,
    CommittedIsReserved, ledgerVars, taskVars, Steps
<1>3. CASE FinishCycle \/ CashMoves \/ UNCHANGED vars
  <2>1. UNCHANGED <<pc, side, price, qty, resv, active, cost>>
        /\ (phase' = phase \/ phase' = "idle")
    BY <1>3 DEF FinishCycle, CashMoves, vars, taskVars, ledgerVars
  <2> QED
    BY <2>1 DEF Books, NothingCommittedYet, OrderedIsReserved, CommittedIsReserved
<1>4. ASSUME NEW c \in Candidates, Task(c) PROVE Books'
  <2>1. CASE SubmitRefused(c) \/ SubmitLost(c) \/ SubmitRaises(c)
    <3>1. \E outcome \in {"unsent", "raised"} : EndTask(c, outcome)
      BY <2>1 DEF SubmitRefused, SubmitLost, SubmitRaises
    <3>2. /\ pc[c] \in Steps /\ cost[c] = 0 /\ UNCHANGED <<phase, cost, resv>>
          /\ \A d \in Candidates \ {c} : active'[d] = active[d]
      BY <2>1 DEF SubmitRefused, SubmitLost, SubmitRaises, Release, cycleVars,
        ledgerVars, NothingCommittedYet, Steps, TypeOK
    <3> QED
      BY <3>1, <3>2, EndTaskEffect, OtherBooks DEF Outcomes, Steps, TypeOK
  <2> QED
    BY <1>4, <2>1, EarlyBooks, ReserveBooks, AcceptedBooks DEF Task
<1> QED  BY <1>1, <1>2, <1>3, <1>4 DEF Next

LEMMA InvStep == IInv /\ [Next]_vars => IInv'
<1> SUFFICES ASSUME IInv, [Next]_vars PROVE IInv'
  OBVIOUS
<1>1. TypeOK'
  BY TypeStep DEF IInv
<1>2. CoinsFinite' /\ ReservedWithinCash'
  BY ReservedStep
<1>3. Books'
  BY <1>1, BooksStep
<1> QED  BY <1>1, <1>2, <1>3 DEF IInv, Books

\* What is committed is reserved, so it fits the cash that is reserved.
LEMMA InvImpliesSpend == IInv => SpendWithinCash
<1> SUFFICES ASSUME IInv, Enforce
             PROVE  Cardinality(SpentCoins) <= startCash
  BY DEF SpendWithinCash
<1> USE DEF IInv
<1>1. SpentCoins \subseteq ReservedCoins
  <2> SUFFICES ASSUME NEW c \in Candidates, NEW n \in 1 .. cost[c]
               PROVE  active[c] /\ n \in 1 .. resv[c]
    BY DEF SpentCoins, ReservedCoins
  <2>1. cost[c] \in Nat /\ resv[c] \in Nat /\ cost[c] > 0
    BY DEF TypeOK
  <2> QED  BY <2>1 DEF CommittedIsReserved
<1>2. IsFiniteSet(SpentCoins)
      /\ Cardinality(SpentCoins) <= Cardinality(ReservedCoins)
  BY <1>1, FS_Subset DEF CoinsFinite
<1>3. Cardinality(ReservedCoins) \in Nat /\ Cardinality(SpentCoins) \in Nat
  BY <1>2, FS_CardinalityType DEF CoinsFinite
<1> QED  BY <1>2, <1>3 DEF ReservedWithinCash, TypeOK

\* However the tasks of a cycle interleave, the active reservations never
\* exceed the cash of its snapshot (ReservedWithinCash).
THEOREM ReservationsFit == Spec => []ReservedWithinCash
<1>1. IInv => ReservedWithinCash
  BY DEF IInv
<1> QED  BY <1>1, InvInit, InvStep, PTL DEF Spec

\* In ENFORCE mode the BUY orders of a cycle that are known to be accepted commit
\* no more than the cash of its snapshot (SpendWithinCash).
THEOREM SpendingFits == Spec => []SpendWithinCash
BY InvInit, InvStep, InvImpliesSpend, PTL DEF Spec

(***************************************************************************)
(* Who may hold a reservation, and why one is refused.                     *)
(***************************************************************************)

\* Nobody reserves before the step in front of the order, and only an order that was
\* sent and a task that an exception has ended keep a reservation after it.
HoldersKnown ==
  \A c \in Candidates : active[c] => pc[c] \in {"submit", "sent", "raised"}

\* A BUY that has passed the risk check has a price and a quantity.
PowerReady ==
  \A c \in Candidates : pc[c] = "power" => price[c] > 0 /\ qty[c] > 0

LEMMA HoldersInit == Init => HoldersKnown /\ PowerReady
BY DEF Init, HoldersKnown, PowerReady

\* A step of candidate c has to re-establish only what is said of c.
LEMMA OtherHolders ==
  ASSUME HoldersKnown, PowerReady, NEW c \in Candidates,
         \A d \in Candidates \ {c} :
           /\ pc'[d] = pc[d] /\ price'[d] = price[d]
           /\ qty'[d] = qty[d] /\ active'[d] = active[d],
         active'[c] => pc'[c] \in {"submit", "sent", "raised"},
         pc'[c] = "power" => price'[c] > 0 /\ qty'[c] > 0
  PROVE  HoldersKnown' /\ PowerReady'
BY DEF HoldersKnown, PowerReady

\* The steps before the buying power query reserve nothing.
LEMMA EarlyHolders ==
  ASSUME TypeOK, HoldersKnown, PowerReady, NEW c \in Candidates,
         \/ Admit(c) \/ Fetch(c) \/ Tier1(c) \/ Tier2(c) \/ Gate(c)
  PROVE  HoldersKnown' /\ PowerReady'
<1>1. ~active[c] /\ UNCHANGED active
  BY DEF Admit, Fetch, Tier1, Tier2, Gate, HoldersKnown, ledgerVars
<1>2. CASE EndTask(c, "skipped")
  BY <1>1, <1>2, EndTaskEffect, OtherHolders DEF Outcomes
<1>3. CASE ~EndTask(c, "skipped")
  <2>1. /\ pc'[c] # "power"
        /\ \A d \in Candidates \ {c} :
             pc'[d] = pc[d] /\ price'[d] = price[d] /\ qty'[d] = qty[d]
    BY <1>3 DEF Admit, Fetch, Tier1, Tier2, Gate, Advance, taskVars, TypeOK
  <2> QED  BY <1>1, <2>1, OtherHolders
<1> QED  BY <1>2, <1>3

\* The risk check approves a BUY of some shares at a price.
LEMMA CheckedHolders ==
  ASSUME TypeOK, HoldersKnown, PowerReady, NEW c \in Candidates, RiskCheck(c)
  PROVE  HoldersKnown' /\ PowerReady'
<1>1. pc[c] = "risk" /\ ~active[c] /\ UNCHANGED active
  BY DEF RiskCheck, HoldersKnown, ledgerVars
<1>2. CASE EndTask(c, "skipped")
  BY <1>1, <1>2, EndTaskEffect, OtherHolders DEF Outcomes
<1>3. CASE Advance(c, "submit") /\ UNCHANGED taskVars
  BY <1>1, <1>3, OtherHolders DEF Advance, taskVars, TypeOK
<1>4. ASSUME price[c] > 0, qty[c] > 0,
             NEW q \in ApprovedQuantities(c), qty' = [qty EXCEPT ![c] = q],
             Advance(c, "power"), UNCHANGED <<quote, side, price>>
      PROVE  HoldersKnown' /\ PowerReady'
  <2>1. q > 0
    BY <1>4, CycleAssumption DEF ApprovedQuantities, TypeOK
  <2> QED  BY <1>1, <1>4, <2>1, OtherHolders DEF Advance, TypeOK
<1> QED  BY <1>2, <1>3, <1>4 DEF RiskCheck

\* A reservation is only made by a task that goes on to its order.
LEMMA ReservingHolders ==
  ASSUME TypeOK, HoldersKnown, PowerReady, NEW c \in Candidates, PowerAndReserve(c)
  PROVE  HoldersKnown' /\ PowerReady'
<1>1. pc[c] = "power" /\ ~active[c]
  BY DEF PowerAndReserve, HoldersKnown
<1>2. CASE EndTask(c, "skipped") /\ UNCHANGED <<resv, active>>
  BY <1>1, <1>2, EndTaskEffect, OtherHolders DEF Outcomes
<1>3. ASSUME NEW q \in CappedQuantities(c), ReserveForCycle(c, ExecutionPrice(c), q)
      PROVE  HoldersKnown' /\ PowerReady'
  <2>1. \A d \in Candidates \ {c} : active'[d] = active[d]
    BY <1>3 DEF ReserveForCycle, Reserve, TypeOK
  <2>2. CASE Advance(c, "submit")
    <3>1. /\ pc'[c] = "submit"
          /\ \A d \in Candidates \ {c} :
               pc'[d] = pc[d] /\ price'[d] = price[d] /\ qty'[d] = qty[d]
      BY <1>3, <2>2 DEF ReserveForCycle, Advance, EndTask, TypeOK
    <3> QED  BY <2>1, <3>1, OtherHolders
  <2>3. CASE ~Advance(c, "submit")
    <3>1. EndTask(c, "refused") /\ UNCHANGED active
      BY <1>3, <2>3 DEF ReserveForCycle, Reserve
    <3> QED  BY <1>1, <3>1, EndTaskEffect, OtherHolders DEF Outcomes
  <2> QED  BY <2>2, <2>3
<1> QED  BY <1>2, <1>3 DEF PowerAndReserve

\* An order that is not known to be accepted releases its reservation.
LEMMA SubmittingHolders ==
  ASSUME TypeOK, HoldersKnown, PowerReady, NEW c \in Candidates,
         \/ SubmitAccepted(c) \/ SubmitRefused(c) \/ SubmitLost(c) \/ SubmitRaises(c)
  PROVE  HoldersKnown' /\ PowerReady'
<1>1. CASE SubmitAccepted(c)
  BY <1>1, EndTaskEffect, OtherHolders DEF SubmitAccepted, ledgerVars, Outcomes
<1>2. CASE SubmitRaises(c)
  BY <1>2, EndTaskEffect, OtherHolders DEF SubmitRaises, ledgerVars, Outcomes
<1>3. CASE SubmitRefused(c) \/ SubmitLost(c)
  <2>1. EndTask(c, "unsent") /\ Release(c)
    BY <1>3 DEF SubmitRefused, SubmitLost
  <2>2. ~active'[c] /\ \A d \in Candidates \ {c} : active'[d] = active[d]
    BY <2>1 DEF Release, TypeOK
  <2> QED  BY <2>1, <2>2, EndTaskEffect, OtherHolders DEF Outcomes
<1> QED  BY <1>1, <1>2, <1>3

LEMMA HoldersStep ==
  IInv /\ HoldersKnown /\ PowerReady /\ [Next]_vars => HoldersKnown' /\ PowerReady'
<1> SUFFICES ASSUME IInv, HoldersKnown, PowerReady, [Next]_vars
             PROVE  HoldersKnown' /\ PowerReady'
  OBVIOUS
<1>0. TypeOK
  BY DEF IInv
<1>1. CASE TakeSnapshot
  BY <1>1 DEF TakeSnapshot, HoldersKnown, PowerReady
<1>2. CASE Scan
  <2>1. \A c \in Candidates : ~active[c]
    BY <1>2 DEF Scan, IInv, NothingCommittedYet, HoldersKnown
  <2> QED  BY <1>2, <2>1 DEF Scan, ledgerVars, HoldersKnown, PowerReady
<1>3. CASE FinishCycle \/ CashMoves \/ UNCHANGED vars
  <2>1. UNCHANGED <<pc, price, qty, active>>
    BY <1>3 DEF FinishCycle, CashMoves, vars, taskVars, ledgerVars
  <2> QED  BY <2>1 DEF HoldersKnown, PowerReady
<1>4. ASSUME NEW c \in Candidates, Task(c) PROVE HoldersKnown' /\ PowerReady'
  BY <1>0, <1>4, EarlyHolders, CheckedHolders, ReservingHolders, SubmittingHolders DEF Task
<1> QED  BY <1>1, <1>2, <1>3, <1>4 DEF Next

\* A task that has returned without an accepted order has given its reservation back
\* (ReservationSettled).
THEOREM ReservationsSettle == Spec => []ReservationSettled
<1>1. HoldersKnown => ReservationSettled
  BY DEF HoldersKnown, ReservationSettled, Outcomes
<1> QED  BY <1>1, InvInit, InvStep, HoldersInit, HoldersStep, PTL DEF Spec

\* More shares at one price cost no less.
LEMMA CostGrows ==
  ASSUME NEW p \in Nat, NEW m \in Nat, NEW n \in Nat, m <= n
  PROVE  p * m <= p * n
OBVIOUS

\* The query of the buying power leaves some shares, and no more than asked for.
LEMMA CappedBounds ==
  ASSUME TypeOK, NEW c \in Candidates, qty[c] > 0, NEW q \in CappedQuantities(c)
  PROVE  q \in Nat /\ 0 < q /\ q <= qty[c]
<1>1. CASE q = qty[c]
  BY <1>1 DEF TypeOK
<1>2. CASE q # qty[c]
  <2>1. PICK p \in (IF quote[c] > 0 THEN {quote[c]} ELSE Prices) :
          /\ q = IF brokerCash \div p < qty[c] THEN brokerCash \div p ELSE qty[c]
          /\ brokerCash \div p >= MinQty
    BY <1>2 DEF CappedQuantities
  <2>2. p \in Nat \ {0}
    BY <2>1, CycleAssumption DEF TypeOK
  <2>3. brokerCash \div p \in Nat
    BY <2>2, QuotientNat DEF TypeOK
  <2>4. MinQty \in Nat \ {0} /\ qty[c] \in Nat
    BY CycleAssumption DEF TypeOK
  <2> QED  BY <2>1, <2>3, <2>4
<1> QED  BY <1>1, <1>2

\* Without any reservation the whole cash of the snapshot is available.
LEMMA AllAvailable ==
  ASSUME TypeOK, \A d \in Candidates : ~active[d]
  PROVE  available_cash = startCash
<1>1. ReservedCoins = {}
  BY DEF ReservedCoins
<1>2. Cardinality(ReservedCoins) = 0
  BY <1>1, FS_EmptySet
<1> QED  BY <1>2 DEF available_cash, TypeOK

LEMMA RefusalStep ==
  ASSUME ~MarketMode, TypeOK, HoldersKnown, PowerReady, [Next]_vars,
         NEW c \in Candidates, pc[c] # "refused", pc'[c] = "refused"
  PROVE  \/ \E d \in Candidates \ {c} : active[d]
         \/ price[c] * qty[c] > startCash
<1>1. ~(TakeSnapshot \/ Scan \/ FinishCycle \/ CashMoves \/ UNCHANGED vars)
  BY DEF TakeSnapshot, Scan, FinishCycle, CashMoves, vars, taskVars
<1>2. PICK d \in Candidates : Task(d)
  BY <1>1 DEF Next
<1>3. d = c
  <2> SUFFICES ASSUME d # c PROVE pc'[c] = pc[c]
    OBVIOUS
  <2> QED
    BY <1>2 DEF Task, Admit, Fetch, Tier1, Tier2, Gate, RiskCheck, PowerAndReserve,
      ReserveForCycle, SubmitAccepted, SubmitRefused, SubmitLost, SubmitRaises,
      Advance, EndTask, TypeOK
<1>4. PowerAndReserve(c)
  BY <1>2, <1>3 DEF Task, Admit, Fetch, Tier1, Tier2, Gate, RiskCheck, SubmitAccepted,
    SubmitRefused, SubmitLost, SubmitRaises, Advance, EndTask, TypeOK
<1>5. PICK q \in CappedQuantities(c) : ~Approved(price[c] * q, q)
  BY <1>4 DEF PowerAndReserve, ReserveForCycle, ExecutionPrice, Advance, EndTask, TypeOK
<1>6. price[c] \in Nat /\ qty[c] \in Nat /\ price[c] > 0 /\ qty[c] > 0 /\ ~active[c]
  BY <1>4 DEF PowerAndReserve, PowerReady, HoldersKnown, TypeOK
<1>7. q \in Nat /\ 0 < q /\ q <= qty[c]
  BY <1>6, CappedBounds
<1>8. price[c] * q \in Nat /\ price[c] * q > 0 /\ price[c] * qty[c] \in Nat
  BY <1>6, <1>7
<1>9. CASE \A e \in Candidates : ~active[e]
  <2>1. price[c] * q > startCash
    BY <1>5, <1>7, <1>8, <1>9, AllAvailable DEF Approved, TypeOK
  <2>2. price[c] * q <= price[c] * qty[c]
    BY <1>6, <1>7, CostGrows
  <2> QED  BY <1>8, <2>1, <2>2 DEF TypeOK
<1> QED  BY <1>6, <1>9

\* With limit orders the ledger refuses a BUY for want of cash and for nothing else; with
\* market orders it does not hold (RefusedOnlyForCash).
THEOREM RefusedForCash ==
  ASSUME ~MarketMode
  PROVE  Spec => RefusedOnlyForCash
<1>1. TypeOK /\ HoldersKnown /\ PowerReady /\ [Next]_vars
        => [\A c \in Candidates :
              pc[c] # "refused" /\ pc'[c] = "refused"
                => \/ \E d \in Candidates \ {c} : active[d]
                   \/ price[c] * qty[c] > startCash]_vars
  BY RefusalStep
<1>2. IInv => TypeOK
  BY DEF IInv
<1> QED
  BY <1>1, <1>2, InvInit, InvStep, HoldersInit, HoldersStep, PTL
  DEF Spec, RefusedOnlyForCash

=============================================================================
