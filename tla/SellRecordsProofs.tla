------------------------- MODULE SellRecordsProofs --------------------------
(***************************************************************************)
(* Theorems of SellRecords for every number of lots and recorders: the     *)
(* type invariant; that no share is lost or doubled (SharesKept), that     *)
(* lots close oldest first (OldestGoFirst) and that the closed shares are  *)
(* those of the recorded sales (ClosedAddUp), as long as every recorder    *)
(* writes its pending row before it reads the lots.                        *)
(* Their invariant says why: only the recorder with the write lock has a   *)
(* copy in use, and the open lots of that copy are the open rows of the    *)
(* table.  The sums are counts of units, so that they can be reasoned      *)
(* about with cardinalities; what has to be shown lot by lot is shown with *)
(* the first lot that would break it.  The second part is about the paths  *)
(* that sell without a signal, SellPaths.                                  *)
(***************************************************************************)
EXTENDS SellRecords, FiniteSetTheorems, WellFoundedInduction, TLAPS

-----------------------------------------------------------------------------
(* Sums, as numbers of units.                                                *)

\* A set of natural numbers has a least one; what follows by induction over the lots is
\* shown with it, from the first lot for which it would not hold.
LEMMA LeastNumber ==
  ASSUME NEW T \in SUBSET Nat, T # {}
  PROVE  \E x \in T : \A y \in T : x <= y
<1>1. PICK x \in T : \A y \in T : ~(<<y, x>> \in OpToRel(<, Nat))
  BY WFMin, NatLessThanWellFounded
<1>2. \A y \in T : ~(y < x)
  BY <1>1 DEF OpToRel
<1> QED  BY <1>2

\* The units of one lot or one sale are as many as f says.
LEMMA UnitsOfOne ==
  ASSUME NEW x, NEW n \in Nat
  PROVE  IsFiniteSet({x} \X (1 .. n)) /\ Cardinality({x} \X (1 .. n)) = n
<1>1. IsFiniteSet({x}) /\ Cardinality({x}) = 1
  BY FS_Singleton
<1>2. IsFiniteSet(1 .. n) /\ Cardinality(1 .. n) = n
  BY FS_Interval
<1>3. IsFiniteSet({x} \X (1 .. n))
      /\ Cardinality({x} \X (1 .. n)) = Cardinality({x}) * Cardinality(1 .. n)
  BY <1>1, <1>2, FS_Product
<1> QED  BY <1>1, <1>2, <1>3

\* There are finitely many units of finitely many lots or sales.
LEMMA UnitsFinite ==
  ASSUME NEW D, IsFiniteSet(D), NEW f \in [D -> Nat]
  PROVE  IsFiniteSet(Units(f)) /\ Total(f) \in Nat
<1> DEFINE g == [x \in D |-> {x} \X (1 .. f[x])]
           S == {{x} \X (1 .. f[x]) : x \in D}
<1>1. g \in Surjection(D, S)
  BY DEF Surjection
<1>2. IsFiniteSet(S)
  BY <1>1, FS_Surjection
<1>3. \A s \in S : IsFiniteSet(s)
  <2>1. ASSUME NEW x \in D
        PROVE  IsFiniteSet({x} \X (1 .. f[x]))
    BY UnitsOfOne
  <2> QED  BY <2>1
<1>4. IsFiniteSet(UNION S)
  BY <1>2, <1>3, FS_UNION
<1>5. Units(f) = UNION S
  BY DEF Units
<1> QED  BY <1>4, <1>5, FS_CardinalityType DEF Total

\* One lot or one sale more adds its units.
LEMMA TotalOneMore ==
  ASSUME NEW D, IsFiniteSet(D), NEW x, x \notin D,
         NEW f \in [D -> Nat], NEW h \in [D \cup {x} -> Nat], \A d \in D : h[d] = f[d]
  PROVE  Total(h) = Total(f) + h[x]
<1> DEFINE U == {x} \X (1 .. h[x])
<1>1. IsFiniteSet(U) /\ Cardinality(U) = h[x]
  BY UnitsOfOne
<1>2. IsFiniteSet(Units(f)) /\ Cardinality(Units(f)) \in Nat
  BY UnitsFinite DEF Total
<1>3. Units(h) = Units(f) \cup U
  BY DEF Units
<1>4. Units(f) \cap U = {}
  BY DEF Units
<1> HIDE DEF U
<1>5. Cardinality(Units(h)) = Cardinality(Units(f)) + Cardinality(U) - Cardinality({})
  BY <1>1, <1>2, <1>3, <1>4, FS_Union
<1> QED  BY <1>1, <1>2, <1>5, FS_EmptySet DEF Total

\* The sum of sums.
LEMMA TotalPlus ==
  ASSUME NEW D, IsFiniteSet(D), NEW f \in [D -> Nat], NEW g \in [D -> Nat],
         NEW h \in [D -> Nat], \A d \in D : h[d] = f[d] + g[d]
  PROVE  Total(h) = Total(f) + Total(g)
<1> DEFINE b == [u \in Units(g) |-> <<u[1], f[u[1]] + u[2]>>]
           R == Units(h) \ Units(f)
<1>1. \A u : u \in Units(g) <=> \E d \in D : \E n \in 1 .. g[d] : u = <<d, n>>
  BY DEF Units
<1>2. \A u : u \in R <=> \E d \in D : \E n \in 1 .. g[d] : u = <<d, f[d] + n>>
  <2>1. ASSUME NEW d \in D, NEW n \in 1 .. h[d], <<d, n>> \notin Units(f)
        PROVE  n - f[d] \in 1 .. g[d] /\ n = f[d] + (n - f[d])
    BY <2>1 DEF Units
  <2>2. ASSUME NEW d \in D, NEW n \in 1 .. g[d]
        PROVE  <<d, f[d] + n>> \in R
    BY <2>2 DEF Units
  <2>3. \A u \in R : \E d \in D : \E n \in 1 .. g[d] : u = <<d, f[d] + n>>
    <3> SUFFICES ASSUME NEW u \in R
                 PROVE  \E d \in D : \E n \in 1 .. g[d] : u = <<d, f[d] + n>>
      OBVIOUS
    <3>1. PICK d \in D : \E n \in 1 .. h[d] : u = <<d, n>>
      BY DEF Units
    <3>2. PICK n \in 1 .. h[d] : u = <<d, n>>
      BY <3>1
    <3> QED  BY <2>1, <3>2
  <2> QED  BY <2>2, <2>3
<1>3. b \in Bijection(Units(g), R)
  <2>1. b \in [Units(g) -> R]
    <3>1. ASSUME NEW d \in D, NEW n \in 1 .. g[d]
          PROVE  <<<<d, n>>[1], f[<<d, n>>[1]] + <<d, n>>[2]>> \in R
      BY <1>2
    <3>2. \A u \in Units(g) : <<u[1], f[u[1]] + u[2]>> \in R
      BY <1>1, <3>1
    <3> HIDE DEF R
    <3> QED  BY <3>2
  <2>2. \A u, w \in Units(g) : b[u] = b[w] => u = w
    <3> SUFFICES ASSUME NEW u \in Units(g), NEW w \in Units(g),
                        u[1] = w[1], f[u[1]] + u[2] = f[w[1]] + w[2]
                 PROVE  u = w
      OBVIOUS
    <3>1. PICK d \in D : \E n \in 1 .. g[d] : u = <<d, n>>
      BY <1>1
    <3>2. PICK n \in 1 .. g[d] : u = <<d, n>>
      BY <3>1
    <3>3. PICK e \in D : \E k \in 1 .. g[e] : w = <<e, k>>
      BY <1>1
    <3>4. PICK k \in 1 .. g[e] : w = <<e, k>>
      BY <3>3
    <3> QED  BY <3>2, <3>4
  <2>3. \A w \in R : \E u \in Units(g) : b[u] = w
    <3>1. ASSUME NEW d \in D, NEW n \in 1 .. g[d]
          PROVE  \E u \in Units(g) : b[u] = <<d, f[d] + n>>
      <4>1. <<d, n>> \in Units(g)
        BY <1>1
      <4>2. b[<<d, n>>] = <<d, f[d] + n>>
        BY <4>1
      <4> QED  BY <4>1, <4>2
    <3>2. ASSUME NEW w \in R
          PROVE  \E u \in Units(g) : b[u] = w
      <4> HIDE DEF b, R
      <4>1. PICK d \in D : \E n \in 1 .. g[d] : w = <<d, f[d] + n>>
        BY <1>2
      <4>2. PICK n \in 1 .. g[d] : w = <<d, f[d] + n>>
        BY <4>1
      <4> QED  BY <3>1, <4>2
    <3> QED  BY <3>2
  <2> HIDE DEF b, R
  <2> QED  BY <2>1, <2>2, <2>3 DEF Bijection, Injection, Surjection, IsInjective
<1>4. /\ IsFiniteSet(Units(f)) /\ IsFiniteSet(Units(g)) /\ IsFiniteSet(Units(h))
      /\ Cardinality(Units(f)) \in Nat /\ Cardinality(Units(g)) \in Nat
      /\ Cardinality(Units(h)) \in Nat
  BY UnitsFinite DEF Total
<1>5. Cardinality(R) = Cardinality(Units(g))
  BY <1>3, <1>4, FS_Bijection DEF ExistsBijection
<1>6. Units(h) \cap Units(f) = Units(f)
  BY DEF Units
<1>7. Cardinality(R) = Cardinality(Units(h)) - Cardinality(Units(f))
  <2>1. Cardinality(Units(h) \ Units(f))
          = Cardinality(Units(h)) - Cardinality(Units(h) \cap Units(f))
    BY <1>4, FS_Difference
  <2> QED  BY <1>6, <2>1
<1> QED  BY <1>4, <1>5, <1>7 DEF Total

\* The lots up to the next one.
LEMMA TotalNextLot ==
  ASSUME NEW m \in Nat \ {0}, NEW p \in [1 .. (m - 1) -> Nat], NEW q \in [1 .. m -> Nat],
         \A d \in 1 .. (m - 1) : q[d] = p[d]
  PROVE  Total(q) = Total(p) + q[m]
<1>1. PICK D : D = 1 .. (m - 1)
  OBVIOUS
<1>2. IsFiniteSet(D)
  BY <1>1, FS_Interval
<1>3. m \notin D /\ D \cup {m} = 1 .. m
  BY <1>1
<1>4. p \in [D -> Nat]
  BY <1>1
<1>5. q \in [D \cup {m} -> Nat]
  BY <1>3
<1>6. \A d \in D : q[d] = p[d]
  BY <1>1
<1>7. \A f \in [D -> Nat] : \A h \in [D \cup {m} -> Nat] :
        (\A d \in D : h[d] = f[d]) => Total(h) = Total(f) + h[m]
  BY <1>2, <1>3, TotalOneMore
<1> QED  BY <1>4, <1>5, <1>6, <1>7

\* What is taken from one lot after the other comes to what is gone in the end.
LEMMA Telescope ==
  ASSUME NEW n \in Nat, NEW left \in [0 .. n -> Nat], NEW f \in [1 .. n -> Nat],
         \A l \in 1 .. n : f[l] = left[l - 1] - left[l]
  PROVE  Total(f) = left[0] - left[n]
<1> DEFINE g(m) == [l \in 1 .. m |-> f[l]]
           T == {m \in 0 .. n : Total(g(m)) # left[0] - left[m]}
<1>1. ASSUME T # {}
      PROVE  FALSE
  <2>1. PICK m \in T : \A k \in T : m <= k
    <3>1. T \in SUBSET Nat
      OBVIOUS
    <3> HIDE DEF T
    <3> QED  BY <1>1, <3>1, LeastNumber
  <2>2. m # 0
    <3>1. Units(g(0)) = {} /\ left[0] \in Nat
      BY DEF Units
    <3>2. Total(g(0)) = 0
      <4> HIDE DEF g
      <4> QED  BY <3>1, FS_EmptySet DEF Total
    <3>3. 0 \notin T
      <4> HIDE DEF g
      <4> QED  BY <3>1, <3>2
    <3> HIDE DEF T
    <3> QED  BY <2>1, <3>3
  <2>3. m - 1 \in 0 .. n /\ m \in 1 .. n /\ m - 1 \notin T
    BY <2>1, <2>2
  <2>4. Total(g(m - 1)) = left[0] - left[m - 1]
    BY <2>3
  <2>5. Total(g(m)) = Total(g(m - 1)) + f[m]
    <3>1. m \in Nat \ {0}
      BY <2>3
    <3>2. PICK p : p = g(m - 1)
      OBVIOUS
    <3>3. PICK q : q = g(m)
      OBVIOUS
    <3>4. p \in [1 .. (m - 1) -> Nat] /\ \A d \in 1 .. (m - 1) : p[d] = f[d]
      BY <2>3, <3>2
    <3>5. q \in [1 .. m -> Nat] /\ \A d \in 1 .. m : q[d] = f[d]
      BY <2>3, <3>3
    <3>6. q[m] = f[m] /\ \A d \in 1 .. (m - 1) : q[d] = p[d]
      BY <2>3, <3>4, <3>5
    <3> HIDE DEF g, T
    <3>7. Total(q) = Total(p) + q[m]
      BY <3>1, <3>4, <3>5, <3>6, TotalNextLot
    <3> QED  BY <3>2, <3>3, <3>6, <3>7
  <2>6. /\ left[0] \in Nat /\ left[m] \in Nat /\ left[m - 1] \in Nat
        /\ f[m] = left[m - 1] - left[m]
    BY <2>3
  <2>7. Total(g(m)) = left[0] - left[m]
    BY <2>4, <2>5, <2>6
  <2> QED  BY <2>1, <2>7
<1>2. Total(g(n)) = left[0] - left[n]
  <2>1. n \notin T
    BY <1>1, Zenon
  <2> QED  BY <2>1
<1>3. g(n) = f
  OBVIOUS
<1> QED  BY <1>2, <1>3

-----------------------------------------------------------------------------
(* Types.                                                                    *)

LEMMA TypeInit == Init => TypeOK
BY RecordAssumption DEF Init, TypeOK, Steps, LotStates, RowStates, NoLot, Lots

\* What a sale takes of a lot is no more than the copy has open.
LEMMA TakenBounded ==
  ASSUME TypeOK, NEW r \in Recorders, NEW left \in Remaining(r), NEW l \in Lots
  PROVE  /\ left[l - 1] - left[l] \in 0 .. Available(copy[r], l)
         /\ Available(copy[r], l) \in Nat
<1>1. left[l - 1] \in Nat /\ left[l] = left[l - 1] - Smaller(Available(copy[r], l), left[l - 1])
  BY RecordAssumption DEF Remaining, TypeOK, Lots
<1>2. Available(copy[r], l) \in Nat
  BY DEF TypeOK, Available
<1> QED  BY <1>1, <1>2 DEF Smaller

LEMMA TypeStep == TypeOK /\ [Next]_vars => TypeOK'
<1> SUFFICES ASSUME TypeOK, [Next]_vars PROVE TypeOK'
  OBVIOUS
<1> USE DEF lotVars, recVars
<1>1. ASSUME NEW r \in Recorders, CreateRow(r) PROVE TypeOK'
  BY <1>1 DEF TypeOK, CreateRow, Steps, RowStates
<1>2. ASSUME NEW r \in Recorders, Flush(r) PROVE TypeOK'
  BY <1>2 DEF TypeOK, Flush, Steps
<1>3. ASSUME NEW r \in Recorders, Load(r) PROVE TypeOK'
  BY <1>3 DEF TypeOK, Load, Steps
<1>4. ASSUME NEW r \in Recorders, Log(r) PROVE TypeOK'
  BY <1>4 DEF TypeOK, Log, Steps
<1>5. ASSUME NEW r \in Recorders, Commit(r) PROVE TypeOK'
  <2>1. CASE \E left \in Remaining(r) :
               LET taken(l) == left[l - 1] - left[l]
               IN /\ lots' = [l \in Lots |-> Closed(copy[r], l, taken(l))]
                  /\ clones' = [l \in Lots |->
                       IF taken(l) < copy[r][l].qty THEN clones[l] + taken(l) ELSE clones[l]]
    <3>1. PICK left \in Remaining(r) :
            /\ lots' = [l \in Lots |-> Closed(copy[r], l, left[l - 1] - left[l])]
            /\ clones' = [l \in Lots |-> IF left[l - 1] - left[l] < copy[r][l].qty
                                         THEN clones[l] + (left[l - 1] - left[l]) ELSE clones[l]]
      BY <2>1
    <3>2. ASSUME NEW l \in Lots
          PROVE  Closed(copy[r], l, left[l - 1] - left[l]) \in [state : LotStates, qty : Nat]
      <4>1. left[l - 1] - left[l] \in Nat
        BY TakenBounded
      <4> QED  BY <4>1 DEF Closed, TypeOK, LotStates
    <3>3. \A l \in Lots : left[l - 1] - left[l] \in Nat
      BY TakenBounded
    <3>4. lots' \in [Lots -> [state : LotStates, qty : Nat]] /\ clones' \in [Lots -> Nat]
      BY <3>1, <3>2, <3>3 DEF TypeOK
    <3> QED  BY <1>5, <3>4 DEF TypeOK, Commit, Steps, RowStates
  <2>2. CASE UNCHANGED <<lots, clones, writer, row>>
    BY <1>5, <2>2 DEF TypeOK, Commit, Steps
  <2> QED  BY <1>5, <2>1, <2>2 DEF Commit
<1>6. ASSUME NEW r \in Recorders, OrderFills(r) PROVE TypeOK'
  <2>1. PICK n \in 1 .. holding : fill' = [fill EXCEPT ![r] = n] /\ holding' = holding - n
    BY <1>6 DEF OrderFills
  <2> QED  BY <1>6, <2>1 DEF TypeOK, OrderFills, Steps
<1>7. ASSUME NEW l \in Lots, BuyFills(l) PROVE TypeOK'
  <2>1. PICK n \in 1 .. MaxLot :
          /\ lots' = [lots EXCEPT ![l] = [state |-> "unrecorded", qty |-> n]]
          /\ bought' = [bought EXCEPT ![l] = n] /\ holding' = holding + n
    BY <1>7 DEF BuyFills
  <2> QED  BY <1>7, <2>1, RecordAssumption DEF TypeOK, BuyFills, LotStates
<1>8. ASSUME NEW l \in Lots, BuyRow(l) \/ BuyRecorded(l) PROVE TypeOK'
  <2>1. PICK s \in LotStates : lots' = [lots EXCEPT ![l].state = s]
    BY <1>8 DEF BuyRow, BuyRecorded, LotStates
  <2>2. lots' \in [Lots -> [state : LotStates, qty : Nat]]
    BY <2>1 DEF TypeOK
  <2> QED  BY <1>8, <2>2 DEF TypeOK, BuyRow, BuyRecorded
<1>9. CASE ReadHoldings
  BY <1>9 DEF TypeOK, ReadHoldings
<1>10. CASE AddMissing
  <2>1. CASE UNCHANGED <<lots, bought>>
    BY <1>10, <2>1 DEF TypeOK, AddMissing
  <2>2. ASSUME NEW l \in Lots, NEW missing \in 1 .. seen,
               lots' = [lots EXCEPT ![l] = [state |-> "open", qty |-> missing]],
               bought' = [bought EXCEPT ![l] = missing]
        PROVE  TypeOK'
    <3>1. missing \in Nat
      BY <1>10 DEF TypeOK, AddMissing
    <3> QED  BY <1>10, <2>2, <3>1 DEF TypeOK, AddMissing, LotStates
  <2> QED  BY <1>10, <2>1, <2>2 DEF AddMissing
<1>11. CASE UNCHANGED vars
  BY <1>11 DEF TypeOK, vars
<1> QED
  BY <1>1, <1>2, <1>3, <1>4, <1>5, <1>6, <1>7, <1>8, <1>9, <1>10, <1>11 DEF Next, Recorder

\* Type correctness of every behaviour of the trade records (TypeOK).
THEOREM TypeCorrect == Spec => []TypeOK
BY TypeInit, TypeStep, PTL DEF Spec

-----------------------------------------------------------------------------
(* Conservation of shares when every sale has its pending row.               *)

\* A recorder that has lots in hand holds the write lock.
LockedWhileOpen == \A r \in Recorders : pc[r] \in {"log", "commit"} => writer = r

\* The lots it has in hand are the rows of the table.
CopyCurrent ==
  \A r \in Recorders : pc[r] \in {"log", "commit"} =>
    \A l \in Lots :
      copy[r][l].state = "open" \/ lots[l].state = "open" => lots[l] = copy[r][l]

\* There is nothing where no lot is, and something where there is one.
AbsentEmpty ==
  \A l \in Lots : IF lots[l].state = "absent" THEN clones[l] = 0 ELSE lots[l].qty > 0

\* The rows of every lot hold what was bought.
LotsWhole == \A l \in Lots : lots[l].qty + clones[l] = bought[l]

SharesInv ==
  TypeOK /\ LockedWhileOpen /\ CopyCurrent /\ AbsentEmpty /\ LotsWhole

\* Nothing is claimed once a sale without a row has read the lots.
RowedInv == TypeOK /\ (AllRowed => SharesInv)

LEMMA SharesInit == Init => RowedInv
<1> SUFFICES ASSUME Init PROVE RowedInv
  OBVIOUS
<1>1. TypeOK
  BY TypeInit
<1>2. LockedWhileOpen /\ CopyCurrent
  BY DEF Init, LockedWhileOpen, CopyCurrent, Recorders
<1>3. AbsentEmpty /\ LotsWhole
  BY DEF Init, AbsentEmpty, LotsWhole, Lots
<1> QED  BY <1>1, <1>2, <1>3 DEF SharesInv, RowedInv

\* A sale that has read the lots without a row of its own stays one.
LEMMA RowedBefore ==
  ASSUME TypeOK, [Next]_vars, AllRowed'
  PROVE  AllRowed
<1> SUFFICES ASSUME NEW q \in Recorders, row[q] = "none",
                    pc[q] \notin {"placed", "working", "filled"}
             PROVE  row'[q] = "none" /\ pc'[q] \notin {"placed", "working", "filled"}
  BY DEF AllRowed
<1>1. ASSUME NEW r \in Recorders, Recorder(r) \/ OrderFills(r)
      PROVE  row'[q] = "none" /\ pc'[q] \notin {"placed", "working", "filled"}
  BY <1>1 DEF TypeOK, Recorder, CreateRow, Flush, Load, Log, Commit, OrderFills
<1>2. UNCHANGED <<row, pc>> => row'[q] = "none" /\ pc'[q] \notin {"placed", "working", "filled"}
  OBVIOUS
<1> QED
  BY <1>1, <1>2 DEF Next, BuyFills, BuyRow, BuyRecorded, ReadHoldings, AddMissing, vars, recVars

\* The commit closes what it takes: the rows it writes are the rows it has read.
LEMMA CommitConserves ==
  ASSUME SharesInv, NEW r \in Recorders, Commit(r)
  PROVE  SharesInv'
<1> USE DEF SharesInv
<1>1. TypeOK'
  BY TypeStep DEF Next, Recorder
<1>2. writer = r /\ pc[r] = "commit" /\ row' \in [Recorders -> RowStates]
  BY <1>1 DEF Commit, LockedWhileOpen, TypeOK
<1>3. r # None
  BY RecordAssumption
<1>4. PICK left \in Remaining(r) :
        /\ lots' = [l \in Lots |-> Closed(copy[r], l, left[l - 1] - left[l])]
        /\ clones' = [l \in Lots |-> IF left[l - 1] - left[l] < copy[r][l].qty
                                     THEN clones[l] + (left[l - 1] - left[l]) ELSE clones[l]]
  BY <1>2 DEF Commit
<1>5. /\ pc' = [pc EXCEPT ![r] = "done"]
      /\ row' = [row EXCEPT ![r] = IF @ = "pending" THEN "confirmed" ELSE @]
      /\ UNCHANGED <<bought, copy>>
  BY <1>2 DEF Commit, recVars
<1>6. ASSUME NEW l \in Lots
      PROVE  /\ lots'[l].qty + clones'[l] = bought'[l]
             /\ IF lots'[l].state = "absent" THEN clones'[l] = 0 ELSE lots'[l].qty > 0
  <2> DEFINE n == left[l - 1] - left[l]
  <2>1. n \in 0 .. Available(copy[r], l) /\ Available(copy[r], l) \in Nat
    BY TakenBounded
  <2>2. lots'[l] = Closed(copy[r], l, n)
        /\ clones'[l] = IF n < copy[r][l].qty THEN clones[l] + n ELSE clones[l]
    BY <1>4
  <2>3. /\ lots[l] \in [state : LotStates, qty : Nat]
        /\ copy[r][l] \in [state : LotStates, qty : Nat]
        /\ clones[l] \in Nat /\ bought[l] \in Nat
    BY DEF TypeOK
  <2>4. /\ lots[l].qty + clones[l] = bought[l]
        /\ IF lots[l].state = "absent" THEN clones[l] = 0 ELSE lots[l].qty > 0
    BY DEF LotsWhole, AbsentEmpty
  <2> HIDE DEF n
  <2>5. CASE n = 0
    BY <1>5, <2>2, <2>3, <2>4, <2>5 DEF Closed
  <2>6. CASE n > 0
    <3>1. copy[r][l].state = "open" /\ n <= copy[r][l].qty
      BY <2>1, <2>6 DEF Available
    <3>2. lots[l] = copy[r][l]
      BY <1>2, <3>1 DEF CopyCurrent
    <3>3. CASE n < copy[r][l].qty
      <4>1. lots'[l] = [lots[l] EXCEPT !.qty = copy[r][l].qty - n]
        BY <2>1, <2>2, <2>6, <3>3 DEF Closed
      <4>2. lots'[l].qty = lots[l].qty - n /\ lots'[l].state = "open"
        BY <2>3, <3>1, <3>2, <4>1
      <4>3. lots[l].state = "open" /\ n < lots[l].qty
        BY <3>1, <3>2, <3>3
      <4> QED  BY <1>5, <2>1, <2>2, <2>3, <2>4, <3>3, <4>2, <4>3
    <3>4. CASE n = copy[r][l].qty
      <4>1. lots'[l] = [lots[l] EXCEPT !.state = "closed"]
        BY <2>1, <2>2, <2>3, <2>6, <3>4 DEF Closed
      <4>2. lots'[l].qty = lots[l].qty /\ lots'[l].state = "closed"
        BY <2>3, <4>1
      <4>3. lots[l].state = "open"
        BY <3>1, <3>2
      <4> QED  BY <1>5, <2>1, <2>2, <2>3, <2>4, <3>4, <4>2, <4>3
    <3> QED  BY <2>1, <2>3, <3>1, <3>3, <3>4
  <2> QED  BY <2>1, <2>5, <2>6
<1>7. AbsentEmpty' /\ LotsWhole'
  BY <1>6 DEF AbsentEmpty, LotsWhole
<1>9. ASSUME NEW q \in Recorders PROVE pc'[q] \notin {"log", "commit"}
  <2>1. q # r => pc[q] \notin {"log", "commit"}
    BY <1>2 DEF LockedWhileOpen
  <2> QED  BY <1>5, <2>1 DEF TypeOK
<1>10. LockedWhileOpen' /\ CopyCurrent'
  BY <1>9 DEF LockedWhileOpen, CopyCurrent
<1> QED  BY <1>1, <1>7, <1>10

\* Every other step keeps the lots a recorder has in hand as they are.
LEMMA SharesStep ==
  ASSUME SharesInv, AllRowed', [Next]_vars
  PROVE  SharesInv'
<1> USE DEF SharesInv, lotVars, recVars
<1>1. TypeOK'
  BY TypeStep
<1>2. ASSUME NEW r \in Recorders, CreateRow(r) PROVE SharesInv'
  <2>1. LockedWhileOpen' /\ CopyCurrent'
    BY <1>2 DEF CreateRow, LockedWhileOpen, CopyCurrent, TypeOK
  <2> QED  BY <1>1, <1>2, <2>1 DEF CreateRow, AbsentEmpty, LotsWhole
<1>3. ASSUME NEW r \in Recorders, Flush(r) PROVE SharesInv'
  <2>1. LockedWhileOpen'
    <3>1. writer = None => \A q \in Recorders : pc[q] \notin {"log", "commit"}
      BY RecordAssumption DEF LockedWhileOpen
    <3> QED  BY <1>3, <3>1 DEF Flush, LockedWhileOpen, TypeOK
  <2>2. CopyCurrent'
    <3>1. CASE writer = None /\ copy' = [copy EXCEPT ![r] = lots] /\ pc' = [pc EXCEPT ![r] = "log"]
      <4>1. copy'[r] = lots /\ \A q \in Recorders : q # r => copy'[q] = copy[q] /\ pc'[q] = pc[q]
        BY <3>1 DEF TypeOK
      <4>2. lots' = lots
        BY <1>3 DEF Flush
      <4> QED  BY <4>1, <4>2 DEF CopyCurrent
    <3>2. CASE pc' = [pc EXCEPT ![r] = "failed"] /\ UNCHANGED copy
      BY <1>3, <3>2 DEF Flush, CopyCurrent, TypeOK
    <3> QED  BY <1>3, <3>1, <3>2 DEF Flush
  <2>4. AbsentEmpty' /\ LotsWhole'
    BY <1>3 DEF Flush, AbsentEmpty, LotsWhole
  <2> QED  BY <1>1, <2>1, <2>2, <2>4
<1>4. ASSUME NEW r \in Recorders, Load(r) PROVE SharesInv'
  <2>1. row'[r] = "none" /\ pc'[r] \in {"log", "commit"}
    BY <1>4 DEF Load, TypeOK
  <2> QED  BY <2>1 DEF AllRowed
<1>5. ASSUME NEW r \in Recorders, Log(r) PROVE SharesInv'
  <2>1. LockedWhileOpen' /\ CopyCurrent'
    BY <1>5 DEF Log, LockedWhileOpen, CopyCurrent, TypeOK
  <2> QED  BY <1>1, <1>5, <2>1 DEF Log, AbsentEmpty, LotsWhole
<1>6. ASSUME NEW r \in Recorders, Commit(r) PROVE SharesInv'
  BY <1>6, CommitConserves
<1>7. ASSUME NEW r \in Recorders, OrderFills(r) PROVE SharesInv'
  <2>1. LockedWhileOpen' /\ CopyCurrent'
    BY <1>7 DEF OrderFills, LockedWhileOpen, CopyCurrent, TypeOK
  <2> QED  BY <1>1, <1>7, <2>1 DEF OrderFills, AbsentEmpty, LotsWhole
<1>8. ASSUME NEW l \in Lots, BuyFills(l) PROVE SharesInv'
  <2>1. PICK n \in 1 .. MaxLot :
          /\ lots' = [lots EXCEPT ![l] = [state |-> "unrecorded", qty |-> n]]
          /\ bought' = [bought EXCEPT ![l] = n]
    BY <1>8 DEF BuyFills
  <2>2. lots[l].state = "absent" /\ clones[l] = 0 /\ n \in Nat
    BY <1>8, RecordAssumption DEF BuyFills, NextLot, AbsentEmpty
  <2>3. AbsentEmpty' /\ LotsWhole'
    BY <1>8, <2>1, <2>2 DEF BuyFills, AbsentEmpty, LotsWhole, TypeOK
  <2>4. CopyCurrent'
    BY <1>8, <2>1, <2>2 DEF BuyFills, CopyCurrent, TypeOK
  <2> QED  BY <1>1, <1>8, <2>3, <2>4 DEF BuyFills, LockedWhileOpen
<1>9. ASSUME NEW l \in Lots, BuyRow(l) \/ BuyRecorded(l) PROVE SharesInv'
  <2>1. \A r \in Recorders : pc[r] \notin {"log", "commit"}
    BY <1>9, RecordAssumption DEF BuyRow, BuyRecorded, LockedWhileOpen
  <2>2. PICK st \in {"pending", "open"} :
          lots[l].state # "absent" /\ lots' = [lots EXCEPT ![l] = [lots[l] EXCEPT !.state = st]]
    BY <1>9 DEF BuyRow, BuyRecorded
  <2>3. \A k \in Lots : /\ lots'[k].qty = lots[k].qty
                       /\ (lots'[k].state = "absent" <=> lots[k].state = "absent")
    BY <2>2 DEF TypeOK
  <2>4. UNCHANGED <<bought, clones, writer, recVars>>
    BY <1>9 DEF BuyRow, BuyRecorded
  <2>5. AbsentEmpty' /\ LotsWhole'
    BY <2>3, <2>4 DEF AbsentEmpty, LotsWhole
  <2>6. CopyCurrent' /\ LockedWhileOpen'
    BY <2>1, <2>4 DEF CopyCurrent, LockedWhileOpen
  <2> QED  BY <1>1, <2>5, <2>6
<1>10. CASE ReadHoldings
  BY <1>1, <1>10 DEF ReadHoldings, LockedWhileOpen, CopyCurrent, AbsentEmpty, LotsWhole
<1>11. CASE AddMissing
  <2>1. CASE UNCHANGED <<lots, bought>>
    BY <1>1, <1>11, <2>1
       DEF AddMissing, LockedWhileOpen, CopyCurrent, AbsentEmpty, LotsWhole
  <2>2. ASSUME NEW l \in Lots, NEW missing \in 1 .. seen, NextLot(l), seen # None, writer = None,
               lots' = [lots EXCEPT ![l] = [state |-> "open", qty |-> missing]],
               bought' = [bought EXCEPT ![l] = missing]
        PROVE  SharesInv'
    <3>1. lots[l].state = "absent" /\ clones[l] = 0 /\ missing \in Nat
      BY <2>2 DEF NextLot, AbsentEmpty, TypeOK
    <3>2. AbsentEmpty' /\ LotsWhole'
      BY <1>11, <2>2, <3>1 DEF AddMissing, AbsentEmpty, LotsWhole, TypeOK
    <3>3. CopyCurrent'
      <4>1. \A r \in Recorders : pc[r] \notin {"log", "commit"}
        BY <2>2, RecordAssumption DEF LockedWhileOpen
      <4> QED  BY <1>11, <4>1 DEF AddMissing, CopyCurrent
    <3> QED  BY <1>1, <1>11, <3>2, <3>3 DEF AddMissing, LockedWhileOpen
  <2> QED  BY <1>11, <2>1, <2>2 DEF AddMissing
<1>12. CASE UNCHANGED vars
  BY <1>1, <1>12 DEF vars, LockedWhileOpen, CopyCurrent, AbsentEmpty, LotsWhole
<1> QED
  BY <1>2, <1>3, <1>4, <1>5, <1>6, <1>7, <1>8, <1>9, <1>10, <1>11, <1>12 DEF Next, Recorder

LEMMA RowedStep == RowedInv /\ [Next]_vars => RowedInv'
<1> SUFFICES ASSUME RowedInv, [Next]_vars PROVE RowedInv'
  OBVIOUS
<1>1. TypeOK'
  BY TypeStep DEF RowedInv
<1>2. ASSUME AllRowed' PROVE SharesInv'
  BY <1>2, RowedBefore, SharesStep DEF RowedInv
<1> QED  BY <1>1, <1>2 DEF RowedInv

\* Sales with a pending row, however many, conserve the shares of every lot
\* (SharesConserved): the row is written, and with it the lock taken, before
\* the lots are read.
THEOREM SharesKept == Spec => []SharesConserved
<1>1. RowedInv => SharesConserved
  BY DEF RowedInv, SharesInv, SharesConserved, LotsWhole
<1> QED  BY SharesInit, RowedStep, <1>1, PTL DEF Spec

-----------------------------------------------------------------------------
(* What a commit closes.                                                     *)

\* What is left is a number of shares.
LEMMA LeftNumber ==
  ASSUME TypeOK, NEW r \in Recorders, NEW left \in Remaining(r)
  PROVE  left \in [0 .. N -> Nat]
<1>1. left \in [0 .. N -> 0 .. fill[r]]
  BY DEF Remaining
<1>2. fill[r] \in Nat
  BY DEF TypeOK
<1> QED  BY <1>1, <1>2

\* What is left falls from lot to lot.
LEMMA LeftFalls ==
  ASSUME TypeOK, NEW r \in Recorders, NEW left \in Remaining(r),
         NEW k \in 0 .. N, NEW m \in 0 .. N, k <= m
  PROVE  left[m] <= left[k]
<1>1. PICK T : T = {d \in 0 .. N : k <= d /\ ~(left[d] <= left[k])}
  OBVIOUS
<1>2. left[k] \in Nat
  BY LeftNumber
<1>3. ASSUME T # {}
      PROVE  FALSE
  <2>1. T \in SUBSET Nat
    BY <1>1
  <2>2. PICK d \in T : \A e \in T : d <= e
    BY <1>3, <2>1, LeastNumber
  <2>3. d \in 0 .. N /\ k <= d /\ ~(left[d] <= left[k])
    BY <1>1, <2>2
  <2>4. d # k
    BY <1>2, <2>3
  <2>5. d \in Lots /\ d - 1 \in 0 .. N /\ k <= d - 1 /\ ~(d <= d - 1)
    BY <2>3, <2>4, RecordAssumption DEF Lots
  <2>6. left[d - 1] <= left[k]
    BY <1>1, <2>2, <2>5
  <2>7. left[d - 1] - left[d] \in Nat
    BY <2>5, TakenBounded
  <2>8. left[d] \in Nat /\ left[d - 1] \in Nat
    BY <2>3, <2>5, LeftNumber
  <2> QED  BY <1>2, <2>3, <2>6, <2>7, <2>8
<1> QED  BY <1>1, <1>3

\* As long as something is left, a lot is taken whole.
LEMMA WholeWhileLeft ==
  ASSUME TypeOK, NEW r \in Recorders, NEW left \in Remaining(r),
         NEW l \in Lots, NEW m \in l .. N, left[m] > 0
  PROVE  left[l - 1] - left[l] = Available(copy[r], l)
<1>1. l \in 0 .. N /\ l - 1 \in 0 .. N /\ m \in 0 .. N /\ l <= m
  BY RecordAssumption DEF Lots
<1>2. left[m] <= left[l] /\ left[m] \in Nat /\ left[l] \in Nat /\ left[l - 1] \in Nat
  BY <1>1, LeftFalls, LeftNumber
<1>3. left[l] = left[l - 1] - Smaller(Available(copy[r], l), left[l - 1])
  BY DEF Remaining
<1>4. Available(copy[r], l) \in Nat
  BY TakenBounded
<1> QED  BY <1>2, <1>3, <1>4 DEF Smaller

\* A commit closes of each lot what the sale takes of it, and a lot taken whole is
\* closed with its row.
Takes(r, left) ==
  \A l \in Lots :
    /\ ClosedShares(l)' = ClosedShares(l) + (left[l - 1] - left[l])
    /\ lots[l].state = "open" /\ left[l - 1] - left[l] = Available(copy[r], l)
         => lots'[l].state = "closed"

LEMMA CommitTakes ==
  ASSUME SharesInv, NEW r \in Recorders, Commit(r)
  PROVE  pc' = [pc EXCEPT ![r] = "done"] /\ \E left \in Remaining(r) : Takes(r, left)
<1> USE DEF SharesInv
<1>1. writer = r /\ pc[r] = "commit"
  BY DEF Commit, LockedWhileOpen
<1>2. PICK left \in Remaining(r) :
        /\ lots' = [l \in Lots |-> Closed(copy[r], l, left[l - 1] - left[l])]
        /\ clones' = [l \in Lots |-> IF left[l - 1] - left[l] < copy[r][l].qty
                                     THEN clones[l] + (left[l - 1] - left[l]) ELSE clones[l]]
  BY <1>1 DEF Commit
<1>3. pc' = [pc EXCEPT ![r] = "done"]
  BY <1>1 DEF Commit
<1>4. ASSUME NEW l \in Lots
      PROVE  /\ ClosedShares(l)' = ClosedShares(l) + (left[l - 1] - left[l])
             /\ lots[l].state = "open" /\ left[l - 1] - left[l] = Available(copy[r], l)
                  => lots'[l].state = "closed"
  <2>1. PICK n : n = left[l - 1] - left[l]
    OBVIOUS
  <2>2. n \in 0 .. Available(copy[r], l) /\ Available(copy[r], l) \in Nat
    BY <2>1, TakenBounded
  <2>3. lots'[l] = Closed(copy[r], l, n)
        /\ clones'[l] = IF n < copy[r][l].qty THEN clones[l] + n ELSE clones[l]
    BY <1>2, <2>1
  <2>4. /\ lots[l] \in [state : LotStates, qty : Nat]
        /\ copy[r][l] \in [state : LotStates, qty : Nat]
        /\ clones[l] \in Nat
    BY DEF TypeOK
  <2>5. copy[r][l].state = "open" \/ lots[l].state = "open" => lots[l] = copy[r][l]
    BY <1>1 DEF CopyCurrent
  <2>6. lots[l].state = "open" => lots[l].qty > 0
    BY DEF AbsentEmpty
  <2>7. CASE n = 0
    <3>1. lots'[l] = lots[l] /\ clones'[l] = clones[l]
      BY <2>3, <2>4, <2>7 DEF Closed
    <3>2. lots[l].state = "open" => Available(copy[r], l) > 0
      BY <2>5, <2>6 DEF Available
    <3>3. ClosedShares(l)' = ClosedShares(l) /\ ClosedShares(l) \in Nat
      BY <2>4, <3>1 DEF ClosedShares
    <3> QED  BY <2>1, <2>7, <3>2, <3>3
  <2>8. CASE n > 0
    <3>1. copy[r][l].state = "open" /\ n <= copy[r][l].qty /\ lots[l] = copy[r][l]
      BY <2>2, <2>5, <2>8 DEF Available
    <3>2. ClosedShares(l) = clones[l]
      BY <2>4, <3>1 DEF ClosedShares
    <3>3. CASE n < copy[r][l].qty
      <4>1. lots'[l].state = "open"
        BY <2>2, <2>3, <2>4, <2>8, <3>1, <3>3 DEF Closed
      <4>2. clones'[l] = clones[l] + n
        BY <2>3, <3>3
      <4>3. ClosedShares(l)' = clones[l] + n
        BY <2>2, <2>4, <4>1, <4>2 DEF ClosedShares
      <4> QED  BY <2>1, <2>2, <2>4, <3>1, <3>2, <3>3, <4>3 DEF Available
    <3>4. CASE n = copy[r][l].qty
      <4>1. lots'[l].state = "closed" /\ lots'[l].qty = n
        BY <2>2, <2>3, <2>4, <2>8, <3>1, <3>4 DEF Closed
      <4>2. clones'[l] = clones[l]
        BY <2>3, <2>4, <3>4
      <4>3. ClosedShares(l)' = clones[l] + n
        BY <4>1, <4>2 DEF ClosedShares
      <4> QED  BY <2>1, <3>2, <4>1, <4>3
    <3> QED  BY <2>2, <2>4, <3>1, <3>3, <3>4
  <2> QED  BY <2>2, <2>7, <2>8
<1> QED  BY <1>3, <1>4 DEF Takes

\* No other step closes a share or records a sale.
LEMMA OthersCloseNothing ==
  ASSUME TypeOK, [Next]_vars, \A r \in Recorders : ~Commit(r)
  PROVE  /\ \A l \in Lots : ClosedShares(l)' = ClosedShares(l)
         /\ \A r \in Recorders : pc'[r] = "done" <=> pc[r] = "done"
         /\ \A r \in Recorders : pc[r] = "done" => fill'[r] = fill[r] /\ copy'[r] = copy[r]
<1> DEFINE Same ==
      /\ \A l \in Lots : ClosedShares(l)' = ClosedShares(l)
      /\ \A r \in Recorders : pc'[r] = "done" <=> pc[r] = "done"
      /\ \A r \in Recorders : pc[r] = "done" => fill'[r] = fill[r] /\ copy'[r] = copy[r]
<1> USE DEF lotVars, recVars
<1>1. ASSUME NEW r \in Recorders, CreateRow(r) \/ Flush(r) \/ Load(r) \/ Log(r) \/ OrderFills(r)
      PROVE  Same
  <2>1. UNCHANGED <<lots, clones>>
    BY <1>1 DEF CreateRow, Flush, Load, Log, OrderFills
  <2>2. \A l \in Lots : ClosedShares(l)' = ClosedShares(l)
    BY <2>1 DEF ClosedShares
  <2>3. pc[r] # "done" /\ pc'[r] # "done"
    BY <1>1 DEF CreateRow, Flush, Load, Log, OrderFills, TypeOK
  <2>4. \A q \in Recorders : q # r =>
          pc'[q] = pc[q] /\ fill'[q] = fill[q] /\ copy'[q] = copy[q]
    BY <1>1 DEF CreateRow, Flush, Load, Log, OrderFills, TypeOK
  <2> QED  BY <2>2, <2>3, <2>4
<1>2. ASSUME NEW l \in Lots, BuyFills(l) \/ BuyRow(l) \/ BuyRecorded(l)
      PROVE  Same
  <2>1. UNCHANGED <<clones, pc, fill, copy>> /\ \A k \in Lots : k # l => lots'[k] = lots[k]
    BY <1>2 DEF BuyFills, BuyRow, BuyRecorded, TypeOK
  <2>2. lots[l].state # "closed" /\ lots'[l].state # "closed"
    BY <1>2 DEF BuyFills, BuyRow, BuyRecorded, NextLot, TypeOK
  <2>3. \A k \in Lots : ClosedShares(k)' = ClosedShares(k)
    BY <2>1, <2>2 DEF ClosedShares
  <2> QED  BY <2>1, <2>3
<1>3. ASSUME UNCHANGED <<lots, clones, pc, fill, copy>>
      PROVE  Same
  BY <1>3 DEF ClosedShares
<1>4. ASSUME AddMissing
      PROVE  Same
  <2>1. UNCHANGED <<clones, pc, fill, copy>>
    BY <1>4 DEF AddMissing
  <2>2. ASSUME NEW l \in Lots, NEW missing \in 1 .. seen, NextLot(l),
               lots' = [lots EXCEPT ![l] = [state |-> "open", qty |-> missing]]
        PROVE  Same
    <3>1. lots[l].state # "closed" /\ lots'[l].state # "closed"
          /\ \A k \in Lots : k # l => lots'[k] = lots[k]
      BY <2>2 DEF NextLot, TypeOK
    <3>2. \A k \in Lots : ClosedShares(k)' = ClosedShares(k)
      BY <2>1, <3>1 DEF ClosedShares
    <3> QED  BY <2>1, <3>2
  <2> QED  BY <1>3, <1>4, <2>1, <2>2 DEF AddMissing
<1>5. (ReadHoldings \/ UNCHANGED vars) => UNCHANGED <<lots, clones, pc, fill, copy>>
  BY DEF ReadHoldings, vars
<1> HIDE DEF Same
<1>6. ASSUME NEW r \in Recorders, Recorder(r) \/ OrderFills(r)
      PROVE  Same
  BY <1>1, <1>6 DEF Recorder
<1>7. ReadHoldings \/ UNCHANGED vars => Same
  <2> SUFFICES ASSUME ReadHoldings \/ UNCHANGED vars PROVE Same
    OBVIOUS
  <2>1. UNCHANGED <<lots, clones, pc, fill, copy>>
    BY <1>5
  <2> QED  BY <1>3, <2>1
<1>8. Same
  BY <1>2, <1>4, <1>6, <1>7 DEF Next
<1> QED  BY <1>8 DEF Same

\* First in, first out (OldestFirst): what is left when a lot's turn comes has been
\* left by every older lot, which is then taken whole; and the copy it is taken from
\* knows every lot that is open.
THEOREM OldestGoFirst == Spec => OldestFirst
<1>1. ASSUME RowedInv, [Next]_vars
      PROVE  [\A k, l \in Lots :
                AllRowed' /\ k < l /\ lots[k].state = "open" /\ ClosedShares(l)' > ClosedShares(l)
                  => lots'[k].state = "closed"]_vars
  <2> SUFFICES ASSUME NEW k \in Lots, NEW l \in Lots, AllRowed', k < l,
                      lots[k].state = "open", ClosedShares(l)' > ClosedShares(l)
               PROVE  lots'[k].state = "closed"
    OBVIOUS
  <2>1. SharesInv /\ TypeOK
    BY <1>1, RowedBefore DEF RowedInv
  <2>2. ClosedShares(l) \in Nat
    BY <2>1 DEF ClosedShares, TypeOK
  <2>3. PICK r \in Recorders : Commit(r)
    BY <1>1, <2>1, <2>2, OthersCloseNothing
  <2>4. PICK left \in Remaining(r) : Takes(r, left)
    BY <2>1, <2>3, CommitTakes
  <2>5. left[l - 1] - left[l] \in Nat /\ left[l - 1] - left[l] # 0
    <3>1. left[l - 1] - left[l] \in Nat
      BY <2>1, TakenBounded
    <3>2. ClosedShares(l)' = ClosedShares(l) + (left[l - 1] - left[l])
      BY <2>4 DEF Takes
    <3> QED  BY <2>2, <3>1, <3>2
  <2>6. l - 1 \in k .. N /\ l - 1 \in 0 .. N /\ l \in 0 .. N
    BY RecordAssumption DEF Lots
  <2>7. left[l - 1] > 0
    <3>1. left[l] \in Nat /\ left[l - 1] \in Nat
      BY <2>1, <2>6, LeftNumber
    <3> QED  BY <2>5, <3>1
  <2>8. left[k - 1] - left[k] = Available(copy[r], k)
    BY <2>1, <2>6, <2>7, WholeWhileLeft
  <2> QED  BY <2>4, <2>8 DEF Takes
<1> QED  BY SharesInit, RowedStep, <1>1, PTL DEF Spec, OldestFirst

-----------------------------------------------------------------------------
(* What all commits together have closed.                                    *)

\* The sales that are recorded, and how much each could close.
Recorded == {r \in Recorders : pc[r] = "done"}
Could(R) == [r \in R |-> Smaller(fill[r], OpenShares(copy[r]))]
AllClosed == [l \in Lots |-> ClosedShares(l)]

\* The property under its condition, with those names.
ClosedInv == AllRowed => Total(AllClosed) = Total(Could(Recorded))

LEMMA ClosedNamed == ClosedInv <=> ClosedAreRecorded
BY DEF ClosedInv, ClosedAreRecorded, Recorded, Could, AllClosed

LEMMA LotsFinite == IsFiniteSet(Lots)
BY RecordAssumption, FS_Interval DEF Lots

\* The shares a copy has open.
LEMMA OpenNumber ==
  ASSUME TypeOK, NEW r \in Recorders
  PROVE  /\ [l \in Lots |-> Available(copy[r], l)] \in [Lots -> Nat]
         /\ OpenShares(copy[r]) \in Nat
<1>1. PICK f : f = [l \in Lots |-> Available(copy[r], l)]
  OBVIOUS
<1>2. f \in [Lots -> Nat]
  BY <1>1 DEF TypeOK, Available
<1>3. Total(f) \in Nat
  BY <1>2, LotsFinite, UnitsFinite
<1> QED  BY <1>1, <1>2, <1>3 DEF OpenShares

\* A sale takes what it has sold, or all that is open when that is less.
LEMMA TakenInAll ==
  ASSUME TypeOK, NEW r \in Recorders, NEW left \in Remaining(r),
         NEW taken \in [Lots -> Nat], \A l \in Lots : taken[l] = left[l - 1] - left[l]
  PROVE  Total(taken) = Smaller(fill[r], OpenShares(copy[r]))
<1>1. PICK open : open = [l \in Lots |-> Available(copy[r], l)]
  OBVIOUS
<1>2. open \in [Lots -> Nat] /\ \A l \in Lots : open[l] = Available(copy[r], l)
  BY <1>1, OpenNumber
<1>3. Total(open) = OpenShares(copy[r])
  BY <1>1 DEF OpenShares
<1>4. left \in [0 .. N -> Nat] /\ left[0] = fill[r] /\ N \in Nat /\ left[N] \in Nat
      /\ left[0] \in Nat
  <2>1. left \in [0 .. N -> Nat] /\ N \in Nat /\ left[0] = fill[r]
    BY LeftNumber, RecordAssumption DEF Remaining
  <2> QED  BY <2>1
<1>5. Total(taken) = left[0] - left[N]
  <2>1. taken \in [1 .. N -> Nat] /\ \A l \in 1 .. N : taken[l] = left[l - 1] - left[l]
    BY DEF Lots
  <2> QED  BY <1>4, <2>1, Telescope
<1>6. CASE left[N] > 0
  <2>1. ASSUME NEW l \in Lots
        PROVE  taken[l] = open[l]
    <3>1. N \in l .. N
      BY <1>4 DEF Lots
    <3>2. left[l - 1] - left[l] = Available(copy[r], l)
      BY <1>6, <3>1, WholeWhileLeft
    <3> QED  BY <1>2, <3>2
  <2>2. taken = open
    BY <1>2, <2>1
  <2> QED  BY <1>3, <1>4, <1>5, <1>6, <2>2 DEF Smaller
<1>7. CASE left[N] = 0
  <2>1. PICK rest : rest = [l \in Lots |-> open[l] - taken[l]]
    OBVIOUS
  <2>2. ASSUME NEW l \in Lots
        PROVE  open[l] - taken[l] \in Nat /\ open[l] = taken[l] + (open[l] - taken[l])
    BY <1>2, TakenBounded
  <2>3. rest \in [Lots -> Nat] /\ \A l \in Lots : open[l] = taken[l] + rest[l]
    BY <2>1, <2>2
  <2>4. Total(open) = Total(taken) + Total(rest)
    BY <1>2, <2>3, LotsFinite, TotalPlus
  <2>5. Total(rest) \in Nat
    BY <2>3, LotsFinite, UnitsFinite
  <2> QED  BY <1>3, <1>4, <1>5, <1>7, <2>4, <2>5 DEF Smaller
<1> QED  BY <1>4, <1>6, <1>7

LEMMA ClosedInit == Init => ClosedInv
<1> SUFFICES ASSUME Init PROVE Total(AllClosed) = Total(Could(Recorded))
  BY DEF ClosedInv
<1>1. Recorded = {}
  BY DEF Init, Recorded
<1>2. Units(Could(Recorded)) = {}
  BY <1>1 DEF Units, Could
<1>3. \A l \in Lots : AllClosed[l] = 0
  BY DEF Init, AllClosed, ClosedShares
<1>4. DOMAIN AllClosed = Lots
  BY DEF AllClosed
<1>5. Units(AllClosed) = {}
  <2> HIDE DEF AllClosed
  <2> QED  BY <1>3, <1>4 DEF Units
<1> QED  BY <1>2, <1>5 DEF Total

\* A commit adds the same to both sums.
LEMMA ClosedCommit ==
  ASSUME SharesInv, TypeOK, NEW r \in Recorders, Commit(r),
         Total(AllClosed) = Total(Could(Recorded))
  PROVE  Total(AllClosed)' = Total(Could(Recorded))'
<1>1. PICK left \in Remaining(r) : Takes(r, left)
  BY CommitTakes
<1>2. PICK taken : taken = [l \in Lots |-> left[l - 1] - left[l]]
  OBVIOUS
<1>3. taken \in [Lots -> Nat] /\ \A l \in Lots : taken[l] = left[l - 1] - left[l]
  BY <1>2, TakenBounded
<1>4. AllClosed \in [Lots -> Nat]
  BY DEF AllClosed, ClosedShares, TypeOK
<1>5. PICK after : after = AllClosed'
  OBVIOUS
<1>6. after \in [Lots -> Nat] /\ \A l \in Lots : after[l] = AllClosed[l] + taken[l]
  <2>1. ASSUME NEW l \in Lots
        PROVE  ClosedShares(l)' = AllClosed[l] + taken[l]
    BY <1>1, <1>3 DEF Takes, AllClosed
  <2>2. after = [l \in Lots |-> ClosedShares(l)']
    BY <1>5 DEF AllClosed
  <2> HIDE DEF AllClosed
  <2>3. \A l \in Lots : AllClosed[l] + taken[l] \in Nat
    BY <1>3, <1>4
  <2> QED  BY <2>1, <2>2, <2>3
<1>7. Total(after) = Total(AllClosed) + Total(taken)
  <2> HIDE DEF AllClosed
  <2> QED  BY <1>3, <1>4, <1>6, LotsFinite, TotalPlus
<1>8. Total(taken) = Smaller(fill[r], OpenShares(copy[r]))
  BY <1>1, <1>3, TakenInAll
<1>9. pc[r] = "commit" /\ pc' = [pc EXCEPT ![r] = "done"] /\ UNCHANGED <<fill, copy>>
  BY CommitTakes DEF Commit
<1>10. r \notin Recorded /\ Recorded' = Recorded \cup {r}
  BY <1>9 DEF Recorded, TypeOK
<1>11. PICK R : R = Recorded
  OBVIOUS
<1>12. IsFiniteSet(R)
  BY <1>11, RecordAssumption, FS_Subset DEF Recorded
<1>13. PICK f : f = Could(R)
  OBVIOUS
<1>14. PICK h : h = Could(R \cup {r})
  OBVIOUS
<1>15. ASSUME NEW q \in Recorders
       PROVE  Smaller(fill[q], OpenShares(copy[q])) \in Nat
  BY OpenNumber DEF Smaller, TypeOK
<1>16. f \in [R -> Nat] /\ h \in [R \cup {r} -> Nat] /\ (\A d \in R : h[d] = f[d])
       /\ h[r] = Smaller(fill[r], OpenShares(copy[r]))
  <2>1. R \subseteq Recorders
    BY <1>11 DEF Recorded
  <2> QED  BY <1>13, <1>14, <1>15, <2>1 DEF Could
<1>17. Total(h) = Total(f) + h[r]
  <2>1. r \notin R
    BY <1>10, <1>11
  <2>2. \A p \in [R -> Nat] : \A q \in [R \cup {r} -> Nat] :
          (\A d \in R : q[d] = p[d]) => Total(q) = Total(p) + q[r]
    BY <1>12, <2>1, TotalOneMore
  <2> QED  BY <1>16, <2>2
<1>18. Total(Could(Recorded))' = Total(h)
  <2>1. Could(Recorded)' = [q \in R \cup {r} |-> Smaller(fill[q], OpenShares(copy[q]))]
    BY <1>9, <1>10, <1>11 DEF Could, OpenShares, Available, Total, Units
  <2>2. Could(Recorded)' = h
    BY <1>14, <2>1 DEF Could
  <2> QED  BY <2>2 DEF Total, Units
<1>19. Total(AllClosed)' = Total(after)
  BY <1>5 DEF Total, Units
<1> QED  BY <1>7, <1>8, <1>11, <1>13, <1>16, <1>17, <1>18, <1>19

LEMMA ClosedStep == RowedInv /\ ClosedInv /\ [Next]_vars => ClosedInv'
<1> SUFFICES ASSUME RowedInv, ClosedInv, [Next]_vars, AllRowed'
             PROVE  Total(AllClosed)' = Total(Could(Recorded))'
  BY DEF ClosedInv
<1>1. SharesInv /\ TypeOK /\ Total(AllClosed) = Total(Could(Recorded))
  BY RowedBefore DEF RowedInv, ClosedInv
<1>2. CASE \E r \in Recorders : Commit(r)
  BY <1>1, <1>2, ClosedCommit
<1>3. CASE \A r \in Recorders : ~Commit(r)
  <2>1. /\ \A l \in Lots : ClosedShares(l)' = ClosedShares(l)
        /\ \A r \in Recorders : pc'[r] = "done" <=> pc[r] = "done"
        /\ \A r \in Recorders : pc[r] = "done" => fill'[r] = fill[r] /\ copy'[r] = copy[r]
    BY <1>1, <1>3, OthersCloseNothing
  <2>2. AllClosed' = AllClosed
    BY <2>1 DEF AllClosed
  <2>3. Recorded' = Recorded
    BY <2>1 DEF Recorded
  <2>4. Could(Recorded)' = Could(Recorded)
    <3>1. \A r \in Recorded : fill'[r] = fill[r] /\ copy'[r] = copy[r]
      BY <2>1 DEF Recorded
    <3>2. Could(Recorded)' = [r \in Recorded |-> Smaller(fill'[r], OpenShares(copy'[r]))]
      BY <2>3 DEF Could, OpenShares, Available, Total, Units
    <3> QED  BY <3>1, <3>2 DEF Could
  <2> QED  BY <1>1, <2>2, <2>4 DEF Total, Units
<1> QED  BY <1>2, <1>3

\* The closed shares are those of the recorded sales (ClosedAreRecorded): what a sale
\* takes from one lot after the other comes to its fill, or to all its copy had open,
\* and each commit adds that to both sides.
THEOREM ClosedAddUp == Spec => []ClosedAreRecorded
<1>1. RowedInv /\ ClosedInv /\ [Next]_vars => (RowedInv /\ ClosedInv)'
  BY RowedStep, ClosedStep
<1>2. Init => RowedInv /\ ClosedInv
  BY SharesInit, ClosedInit
<1>3. ClosedInv => ClosedAreRecorded
  BY ClosedNamed
<1> QED  BY <1>1, <1>2, <1>3, PTL DEF Spec

-----------------------------------------------------------------------------
(***************************************************************************)
(* The paths that sell, SellPaths: the type invariant, and that the lock   *)
(* on a symbol belongs to exactly one path.  The second is inductive once  *)
(* it says that a path without the lock is never at a step that reads or   *)
(* gives back, and that before the liquidation starts no symbol of it is   *)
(* anywhere.                                                               *)
(***************************************************************************)

CONSTANTS Symbols, Events, Jobs, Unlocked, Liquidation, MaxHeld

VARIABLES selling, held, spoken, at, symbol, ask, holdings, todo, phase, task,
          quantity, accepted, recorded

Sell == INSTANCE SellPaths WITH pc <- at

\* What SellPaths' SellAssumption says of the paths and of the account.
SellSetting ==
  /\ MaxHeld \in Nat
  /\ Events \cap Jobs = {} /\ Events \cap Unlocked = {} /\ Jobs \cap Unlocked = {}

LEMMA SellTypeInit == SellSetting /\ Sell!Init => Sell!TypeOK
BY DEF SellSetting, Sell!Init, Sell!TypeOK, Sell!PathSteps, Sell!TaskSteps, Sell!Phases

\* The steps of one path keep the types.
LEMMA PathType ==
  ASSUME Sell!TypeOK, NEW x \in Sell!Paths, Sell!PathStep(x)
  PROVE  Sell!TypeOK'
<1> USE DEF Sell!TypeOK, Sell!PathSteps, Sell!Acquire, Sell!Release, Sell!Leave, Sell!Takes,
       Sell!Order, Sell!brokerVars, Sell!liqVars
<1>1. CASE Sell!ReadHolding(x)
  <2>1. symbol[x] \in Symbols /\ held[symbol[x]] \in Nat  OBVIOUS
  <2>2. CASE ask' = [ask EXCEPT ![x] = held[symbol[x]]]
              /\ at' = [at EXCEPT ![x] = "place"] /\ UNCHANGED selling
    BY <1>1, <2>1, <2>2 DEF Sell!ReadHolding
  <2>3. CASE at' = [at EXCEPT ![x] = "idle"] /\ Sell!Release(symbol[x]) /\ UNCHANGED ask
    BY <1>1, <2>1, <2>3 DEF Sell!ReadHolding
  <2> QED  BY <1>1, <2>2, <2>3 DEF Sell!ReadHolding
<1>2. CASE Sell!Place(x)
  <2>1. symbol[x] \in Symbols /\ spoken[symbol[x]] \in Nat /\ ask[x] \in Nat  OBVIOUS
  <2>2. spoken' \in [Symbols -> Nat]  BY <1>2, <2>1 DEF Sell!Place
  <2>3. at' \in [Sell!Paths -> {"idle", "next", "read", "place", "confirm"}]
    BY <1>2 DEF Sell!Place
  <2>4. selling' \subseteq Symbols  BY <1>2, <2>1 DEF Sell!Place
  <2> QED  BY <1>2, <2>2, <2>3, <2>4 DEF Sell!Place
<1>3. CASE Sell!Confirm(x)
  <2>1. PICK n \in 0 .. spoken[symbol[x]] : spoken' = [spoken EXCEPT ![symbol[x]] = n]
    BY <1>3 DEF Sell!Confirm
  <2> QED  BY <1>3, <2>1 DEF Sell!Confirm
<1>4. CASE Sell!JobEnds(x)  BY <1>4 DEF Sell!JobEnds
<1>5. ASSUME NEW s \in Symbols, Sell!JobSells(x, s) PROVE Sell!TypeOK'
  BY <1>5 DEF Sell!JobSells
<1>6. ASSUME NEW s \in Symbols, Sell!JobPasses(x, s) PROVE Sell!TypeOK'
  BY <1>6 DEF Sell!JobPasses
<1> QED  BY <1>1, <1>2, <1>3, <1>4, <1>5, <1>6 DEF Sell!PathStep

\* The steps of the liquidation job keep the types.
LEMMA LiquidationType ==
  ASSUME Sell!TypeOK, Sell!LiquidationStep
  PROVE  Sell!TypeOK'
<1> USE DEF Sell!TypeOK, Sell!TaskSteps, Sell!Phases, Sell!Acquire, Sell!Release, Sell!Takes,
       Sell!Order, Sell!Batch,
      Sell!brokerVars, Sell!pathVars
<1>1. CASE Sell!Gathered  BY <1>1 DEF Sell!Gathered
<1>2. CASE Sell!ResultsDone  BY <1>2 DEF Sell!ResultsDone
<1>3. CASE Sell!RetryDone  BY <1>3 DEF Sell!RetryDone
<1>4. ASSUME NEW s \in Symbols, Sell!TaskAcquires(s) PROVE Sell!TypeOK'
  BY <1>4 DEF Sell!TaskAcquires
<1>5. ASSUME NEW s \in Symbols, Sell!TaskPlaces(s) PROVE Sell!TypeOK'
  <2>1. spoken' \in [Symbols -> Nat]  BY <1>5 DEF Sell!TaskPlaces
  <2>2. task' \in [Symbols -> Sell!TaskSteps]
    <3>1. PICK r \in {"success", "failure", "raised"} : task' = [task EXCEPT ![s] = r]
      BY <1>5 DEF Sell!TaskPlaces
    <3> QED  BY <3>1
  <2>3. accepted' \subseteq Symbols /\ selling' \subseteq Symbols
    BY <1>5 DEF Sell!TaskPlaces
  <2> QED  BY <1>5, <2>1, <2>2, <2>3 DEF Sell!TaskPlaces
<1>6. ASSUME NEW s \in Symbols, Sell!Record(s)
      PROVE  recorded' \subseteq Symbols /\ spoken' \in [Symbols -> Nat]
  <2>1. PICK n \in 0 .. spoken[s] : spoken' = [spoken EXCEPT ![s] = n]
    BY <1>6 DEF Sell!Record
  <2> QED  BY <1>6, <2>1 DEF Sell!Record
<1>7. ASSUME NEW s \in Symbols, Sell!FirstResult(s) PROVE Sell!TypeOK'
  BY <1>6, <1>7 DEF Sell!FirstResult
<1>8. ASSUME NEW s \in Symbols, Sell!RetryResult(s) PROVE Sell!TypeOK'
  BY <1>6, <1>8 DEF Sell!RetryResult
<1> QED  BY <1>1, <1>2, <1>3, <1>4, <1>5, <1>7, <1>8 DEF Sell!LiquidationStep

LEMMA SellTypeStep == Sell!TypeOK /\ [Sell!Next]_(Sell!vars) => Sell!TypeOK'
<1> SUFFICES ASSUME Sell!TypeOK, [Sell!Next]_(Sell!vars) PROVE Sell!TypeOK'
  OBVIOUS
<1> USE DEF Sell!brokerVars, Sell!pathVars, Sell!liqVars
<1>1. ASSUME NEW x \in Sell!Paths, Sell!PathStep(x) PROVE Sell!TypeOK'
  BY <1>1, PathType
<1>2. ASSUME NEW x \in Sell!Paths, Sell!JobStarts(x) PROVE Sell!TypeOK'
  BY <1>2 DEF Sell!TypeOK, Sell!JobStarts, Sell!PathSteps
<1>3. ASSUME NEW x \in Sell!Paths, NEW s \in Symbols, Sell!EventArrives(x, s)
      PROVE  Sell!TypeOK'
  BY <1>3 DEF Sell!TypeOK, Sell!EventArrives, Sell!Acquire, Sell!PathSteps
<1>4. ASSUME NEW x \in Sell!Paths, NEW s \in Symbols, Sell!UnlockedStarts(x, s)
      PROVE  Sell!TypeOK'
  BY <1>4 DEF Sell!TypeOK, Sell!UnlockedStarts, Sell!PathSteps
<1>5. CASE Sell!LiquidationStarts
  <2>1. PICK sold \in SUBSET {s \in Symbols : held[s] > spoken[s]} :
          /\ task' = [s \in Symbols |-> IF s \in sold THEN "waiting" ELSE "out"]
          /\ quantity' = [s \in Symbols |-> IF s \in sold THEN held[s] - spoken[s] ELSE 0]
          /\ phase' = IF sold = {} THEN "ended" ELSE "first"
    BY <1>5 DEF Sell!LiquidationStarts
  <2>2. quantity' \in [Symbols -> Nat]
    BY <2>1 DEF Sell!TypeOK
  <2> QED  BY <1>5, <2>1, <2>2 DEF Sell!TypeOK, Sell!LiquidationStarts, Sell!TaskSteps,
                  Sell!Phases
<1>6. CASE Sell!LiquidationStep
  BY <1>6, LiquidationType
<1>7. ASSUME NEW s \in Symbols, Sell!SellFills(s) PROVE Sell!TypeOK'
  <2>1. PICK n \in 1 .. spoken[s] :
          /\ n <= held[s]
          /\ spoken' = [spoken EXCEPT ![s] = @ - n]
          /\ held' = [held EXCEPT ![s] = @ - n]
    BY <1>7 DEF Sell!SellFills
  <2> QED  BY <1>7, <2>1 DEF Sell!TypeOK, Sell!SellFills
<1>8. ASSUME NEW s \in Symbols, Sell!BuyFills(s) PROVE Sell!TypeOK'
  BY <1>8 DEF Sell!TypeOK, Sell!BuyFills
<1>9. CASE UNCHANGED Sell!vars
  BY <1>9 DEF Sell!TypeOK, Sell!vars
<1> QED
  BY <1>1, <1>2, <1>3, <1>4, <1>5, <1>6, <1>7, <1>8, <1>9 DEF Sell!Next

\* Type correctness of every behaviour of the selling paths (TypeOK).
THEOREM SellsTyped == ASSUME SellSetting PROVE Sell!Spec => []Sell!TypeOK
<1>1. Sell!Init => Sell!TypeOK
  BY SellTypeInit
<1> QED  BY <1>1, SellTypeStep, PTL DEF Sell!Spec

-----------------------------------------------------------------------------
(* Exactness of the lock.                                                    *)

\* Steps between the acquisition of the lock and its release.
Locked == {"read", "place", "confirm"}

\* A cycle or a manual sale is never at a step of the paths with the lock.
UnlockedSteps == \A x \in Unlocked : at[x] \in {"idle", "place", "confirm"}

\* Before the liquidation starts no symbol is on its way to the broker.
NothingLiquidated == phase = "idle" => \A s \in Symbols : task[s] = "out"

LockInv == Sell!TypeOK /\ Sell!LockIsExact /\ UnlockedSteps /\ NothingLiquidated

LEMMA LockInit == SellSetting /\ Sell!Init => LockInv
BY SellTypeInit DEF Sell!Init, LockInv, Sell!LockIsExact, UnlockedSteps,
   NothingLiquidated, Sell!Holds, Sell!Paths

\* A step that moves no path in or out of the lock keeps it exact.
LEMMA LockKept ==
  ASSUME Sell!LockIsExact, selling' = selling,
         \A x \in Sell!Paths, s \in Symbols : Sell!Holds(x, s)' <=> Sell!Holds(x, s),
         \A s \in Symbols : (task[s] = "place")' <=> task[s] = "place"
  PROVE  Sell!LockIsExact'
BY DEF Sell!LockIsExact

\* Path x takes the lock on s.
LEMMA LockTaken ==
  ASSUME Sell!TypeOK, Sell!LockIsExact, NEW x \in Events \cup Jobs, NEW s \in Symbols,
         NEW step \in Locked,
         at[x] \notin Locked, Sell!Acquire(s), task' = task,
         at' = [at EXCEPT ![x] = step], symbol' = [symbol EXCEPT ![x] = s]
  PROVE  Sell!LockIsExact'
<1>1. Sell!Holds(x, s)' /\ \A t \in Symbols : t # s => ~Sell!Holds(x, t)'
  BY DEF Sell!Holds, Sell!TypeOK, Locked, Sell!Paths
<1>2. \A y \in Sell!Paths, t \in Symbols : y # x => (Sell!Holds(y, t)' <=> Sell!Holds(y, t))
  BY DEF Sell!Holds, Sell!TypeOK, Sell!Paths
<1>3. \A t \in Symbols : ~Sell!Holds(x, t)
  BY DEF Sell!Holds, Locked
<1>4. \A y \in Sell!Paths : ~Sell!Holds(y, s)
  BY DEF Sell!LockIsExact, Sell!Acquire
<1>5. task[s] # "place"
  BY DEF Sell!LockIsExact, Sell!Acquire
<1>6. selling' = selling \cup {s}
  BY DEF Sell!Acquire
<1> SUFFICES ASSUME NEW t \in Symbols
    PROVE  /\ \A y, z \in Sell!Paths : Sell!Holds(y, t)' /\ Sell!Holds(z, t)' => y = z
           /\ task[t] = "place" => \A y \in Sell!Paths : ~Sell!Holds(y, t)'
           /\ t \in selling' <=> task[t] = "place" \/ \E y \in Sell!Paths : Sell!Holds(y, t)'
  BY DEF Sell!LockIsExact
<1>7. x \in Sell!Paths
  BY DEF Sell!Paths
<1>8. CASE t = s
  BY <1>1, <1>2, <1>4, <1>5, <1>6, <1>7, <1>8
<1>9. CASE t # s
  BY <1>1, <1>2, <1>3, <1>6, <1>7, <1>9 DEF Sell!LockIsExact
<1> QED  BY <1>8, <1>9

\* Path x, which has the lock on its symbol, gives it back.
LEMMA LockFreedBy ==
  ASSUME Sell!TypeOK, Sell!LockIsExact, NEW x \in Events \cup Jobs,
         NEW step \in Sell!PathSteps \ Locked,
         at[x] \in Locked, Sell!Release(symbol[x]), task' = task, symbol' = symbol,
         at' = [at EXCEPT ![x] = step]
  PROVE  Sell!LockIsExact'
<1> DEFINE s == symbol[x]
<1>1. \A t \in Symbols : ~Sell!Holds(x, t)'
  BY DEF Sell!Holds, Sell!TypeOK, Locked, Sell!Paths
<1>2. \A y \in Sell!Paths, t \in Symbols : y # x => (Sell!Holds(y, t)' <=> Sell!Holds(y, t))
  BY DEF Sell!Holds, Sell!TypeOK, Sell!Paths
<1>3. s \in Symbols /\ Sell!Holds(x, s) /\ \A t \in Symbols : t # s => ~Sell!Holds(x, t)
  BY DEF Sell!Holds, Sell!TypeOK, Locked, Sell!Paths
<1>4. \A y \in Sell!Paths : Sell!Holds(y, s) => y = x
  BY <1>3 DEF Sell!LockIsExact, Sell!Paths
<1>5. task[s] # "place"
  BY <1>3 DEF Sell!LockIsExact, Sell!Paths
<1>6. selling' = selling \ {s}
  BY DEF Sell!Release
<1> HIDE DEF s
<1> SUFFICES ASSUME NEW t \in Symbols
    PROVE  /\ \A y, z \in Sell!Paths : Sell!Holds(y, t)' /\ Sell!Holds(z, t)' => y = z
           /\ task[t] = "place" => \A y \in Sell!Paths : ~Sell!Holds(y, t)'
           /\ t \in selling' <=> task[t] = "place" \/ \E y \in Sell!Paths : Sell!Holds(y, t)'
  BY DEF Sell!LockIsExact
<1>7. x \in Sell!Paths
  BY DEF Sell!Paths
<1>8. CASE t = s
  BY <1>1, <1>2, <1>4, <1>5, <1>6, <1>7, <1>8
<1>9. CASE t # s
  BY <1>1, <1>2, <1>3, <1>6, <1>7, <1>9 DEF Sell!LockIsExact
<1> QED  BY <1>8, <1>9

\* The steps of one path.
LEMMA LockPath ==
  ASSUME SellSetting, LockInv, NEW x \in Sell!Paths, Sell!PathStep(x)
  PROVE  Sell!LockIsExact'
<1> USE DEF LockInv
<1>0. x \in Unlocked \/ x \in Events \cup Jobs
  BY DEF Sell!Paths
<1>u. x \in Unlocked => x \notin Events \cup Jobs
  BY DEF SellSetting
<1>1. CASE Sell!ReadHolding(x)
  <2>1. x \in Events \cup Jobs
    BY <1>0, <1>1 DEF UnlockedSteps, Sell!ReadHolding
  <2>2. CASE at' = [at EXCEPT ![x] = "place"] /\ UNCHANGED selling
    <3>1. \A y \in Sell!Paths, s \in Symbols : Sell!Holds(y, s)' <=> Sell!Holds(y, s)
      BY <1>1, <2>1, <2>2 DEF Sell!ReadHolding, Sell!Holds, Sell!TypeOK, Sell!Paths
    <3> QED  BY <1>1, <2>2, <3>1, LockKept DEF Sell!ReadHolding, Sell!liqVars
  <2>3. CASE at' = [at EXCEPT ![x] = "idle"] /\ Sell!Release(symbol[x])
    BY <1>1, <2>1, <2>3, LockFreedBy DEF Sell!ReadHolding, Sell!liqVars, Sell!PathSteps, Locked
  <2> QED  BY <1>1, <2>2, <2>3 DEF Sell!ReadHolding
<1>2. ASSUME at[x] \in {"place", "confirm"}, Sell!Leave(x), symbol' = symbol, task' = task
      PROVE  Sell!LockIsExact'
  <2>1. CASE x \in Unlocked
    <3>1. \A y \in Sell!Paths, s \in Symbols : Sell!Holds(y, s)' <=> Sell!Holds(y, s)
      BY <1>2, <1>u, <2>1 DEF Sell!Leave, Sell!Holds, Sell!TypeOK, Sell!Paths
    <3> QED  BY <1>2, <2>1, <3>1, LockKept DEF Sell!Leave
  <2>2. CASE x \in Events \cup Jobs
    <3>1. x \notin Unlocked
      BY <2>2 DEF SellSetting
    <3>2. PICK step \in {"next", "idle"} : at' = [at EXCEPT ![x] = step]
      BY <1>2 DEF Sell!Leave
    <3>3. Sell!Release(symbol[x])
      BY <1>2, <3>1 DEF Sell!Leave
    <3> QED  BY <1>2, <2>2, <3>2, <3>3, LockFreedBy DEF Sell!PathSteps, Locked
  <2> QED  BY <1>0, <2>1, <2>2
<1>3. CASE Sell!Place(x)
  <2>1. CASE at' = [at EXCEPT ![x] = "confirm"] /\ UNCHANGED selling
    <3>1. \A y \in Sell!Paths, s \in Symbols : Sell!Holds(y, s)' <=> Sell!Holds(y, s)
      BY <1>3, <2>1 DEF Sell!Place, Sell!Holds, Sell!TypeOK, Sell!Paths
    <3> QED  BY <1>3, <2>1, <3>1, LockKept DEF Sell!Place, Sell!liqVars
  <2>2. CASE Sell!Leave(x)
    BY <1>2, <1>3, <2>2 DEF Sell!Place, Sell!liqVars
  <2> QED  BY <1>3, <2>1, <2>2 DEF Sell!Place
<1>4. CASE Sell!Confirm(x)
  BY <1>2, <1>4 DEF Sell!Confirm, Sell!liqVars
<1>5. CASE Sell!JobEnds(x)
  <2>1. \A y \in Sell!Paths, s \in Symbols : Sell!Holds(y, s)' <=> Sell!Holds(y, s)
    BY <1>5 DEF Sell!JobEnds, Sell!Holds, Sell!TypeOK, Sell!Paths
  <2> QED  BY <1>5, <2>1, LockKept DEF Sell!JobEnds, Sell!liqVars
<1>6. ASSUME NEW s \in Symbols, Sell!JobSells(x, s) PROVE Sell!LockIsExact'
  <2>1. x \in Events \cup Jobs
    BY <1>0, <1>6 DEF UnlockedSteps, Sell!JobSells
  <2> QED  BY <1>6, <2>1, LockTaken DEF Sell!JobSells, Sell!liqVars, Locked
<1>7. ASSUME NEW s \in Symbols, Sell!JobPasses(x, s) PROVE Sell!LockIsExact'
  BY <1>7, LockKept DEF Sell!JobPasses, Sell!Holds, Sell!liqVars
<1> QED  BY <1>1, <1>3, <1>4, <1>5, <1>6, <1>7 DEF Sell!PathStep

\* The steps of the liquidation job.
LEMMA LockLiquidation ==
  ASSUME LockInv, Sell!LiquidationStep
  PROVE  Sell!LockIsExact'
<1> USE DEF LockInv, Sell!pathVars, Sell!brokerVars
<1>1. CASE Sell!Gathered
  BY <1>1, LockKept DEF Sell!Gathered, Sell!Holds
<1>2. CASE Sell!ResultsDone
  <2>1. \A s \in Symbols : (task[s] = "place")' <=> task[s] = "place"
    BY <1>2 DEF Sell!ResultsDone, Sell!TypeOK
  <2> QED  BY <1>2, <2>1, LockKept DEF Sell!ResultsDone, Sell!Holds
<1>3. CASE Sell!RetryDone
  BY <1>3, LockKept DEF Sell!RetryDone, Sell!Holds
<1>4. ASSUME NEW s \in Symbols, Sell!TaskAcquires(s) PROVE Sell!LockIsExact'
  <2>1. \A y \in Sell!Paths, t \in Symbols : Sell!Holds(y, t)' <=> Sell!Holds(y, t)
    BY <1>4 DEF Sell!TaskAcquires, Sell!Holds
  <2>2. CASE Sell!Acquire(s) /\ task' = [task EXCEPT ![s] = "place"]
    <3>1. \A y \in Sell!Paths : ~Sell!Holds(y, s)
      BY <2>2 DEF Sell!LockIsExact, Sell!Acquire
    <3>2. selling' = selling \cup {s}
      BY <2>2 DEF Sell!Acquire
    <3>3. task'[s] = "place" /\ \A t \in Symbols \ {s} : task'[t] = task[t]
      BY <2>2 DEF Sell!TypeOK
    <3> QED  BY <2>1, <3>1, <3>2, <3>3 DEF Sell!LockIsExact
  <2>3. CASE UNCHANGED selling /\ task' = [task EXCEPT ![s] = "skipped"]
    <3>1. \A t \in Symbols : (task[t] = "place")' <=> task[t] = "place"
      BY <1>4, <2>3 DEF Sell!TaskAcquires, Sell!TypeOK
    <3> QED  BY <2>1, <2>3, <3>1, LockKept
  <2> QED  BY <1>4, <2>2, <2>3 DEF Sell!TaskAcquires
<1>5. ASSUME NEW s \in Symbols, Sell!TaskPlaces(s) PROVE Sell!LockIsExact'
  <2>1. \A y \in Sell!Paths, t \in Symbols : Sell!Holds(y, t)' <=> Sell!Holds(y, t)
    BY <1>5 DEF Sell!TaskPlaces, Sell!Holds
  <2>2. PICK r \in {"success", "failure", "raised"} : task' = [task EXCEPT ![s] = r]
    BY <1>5 DEF Sell!TaskPlaces
  <2>3. task'[s] # "place" /\ \A t \in Symbols \ {s} : task'[t] = task[t]
    BY <2>2 DEF Sell!TypeOK
  <2>4. selling' = selling \ {s}
    BY <1>5 DEF Sell!TaskPlaces, Sell!Release
  <2>5. \A y \in Sell!Paths : ~Sell!Holds(y, s)
    BY <1>5 DEF Sell!TaskPlaces, Sell!LockIsExact
  <2> QED  BY <2>1, <2>3, <2>4, <2>5 DEF Sell!LockIsExact
<1>6. ASSUME NEW s \in Symbols, Sell!FirstResult(s) \/ Sell!RetryResult(s) PROVE Sell!LockIsExact'
  <2>1. \A t \in Symbols : (task[t] = "place")' <=> task[t] = "place"
    BY <1>6 DEF Sell!FirstResult, Sell!RetryResult, Sell!TypeOK
  <2>2. UNCHANGED selling /\ UNCHANGED Sell!pathVars
    BY <1>6 DEF Sell!FirstResult, Sell!RetryResult
  <2> QED  BY <2>1, <2>2, LockKept DEF Sell!Holds
<1> QED  BY <1>1, <1>2, <1>3, <1>4, <1>5, <1>6 DEF Sell!LiquidationStep

\* No step takes a cycle or a manual sale among the steps with the lock.
LEMMA UnlockedStep ==
  ASSUME SellSetting, LockInv, [Sell!Next]_(Sell!vars)
  PROVE  UnlockedSteps'
<1> USE DEF LockInv, UnlockedSteps, Sell!TypeOK
<1>1. Unlocked \subseteq Sell!Paths /\ Unlocked \cap (Events \cup Jobs) = {}
  BY DEF SellSetting, Sell!Paths
<1>2. ASSUME NEW x \in Sell!Paths, Sell!PathStep(x) PROVE UnlockedSteps'
  BY <1>1, <1>2
     DEF Sell!PathStep, Sell!ReadHolding, Sell!Place, Sell!Confirm, Sell!JobEnds, Sell!JobSells,
            Sell!JobPasses, Sell!Leave
<1>3. ASSUME NEW x \in Sell!Paths, Sell!JobStarts(x) PROVE UnlockedSteps'
  BY <1>1, <1>3 DEF Sell!JobStarts
<1>4. ASSUME NEW x \in Sell!Paths, NEW s \in Symbols,
             Sell!EventArrives(x, s) \/ Sell!UnlockedStarts(x, s)
      PROVE  UnlockedSteps'
  BY <1>1, <1>4 DEF Sell!EventArrives, Sell!UnlockedStarts
<1>5. ASSUME \/ Sell!LiquidationStarts \/ Sell!LiquidationStep
             \/ \E s \in Symbols : Sell!SellFills(s) \/ Sell!BuyFills(s)
      PROVE  UnlockedSteps'
  <2>1. UNCHANGED at
    BY <1>5 DEF Sell!LiquidationStarts, Sell!LiquidationStep, Sell!Gathered, Sell!ResultsDone,
           Sell!RetryDone,
       Sell!TaskAcquires, Sell!TaskPlaces, Sell!FirstResult, Sell!RetryResult, Sell!SellFills,
       Sell!BuyFills, Sell!pathVars
  <2> QED  BY <2>1
<1>6. CASE UNCHANGED Sell!vars
  BY <1>6 DEF Sell!vars, Sell!pathVars
<1> QED  BY <1>2, <1>3, <1>4, <1>5, <1>6 DEF Sell!Next

LEMMA NothingLiquidatedStep ==
  ASSUME LockInv, [Sell!Next]_(Sell!vars)
  PROVE  NothingLiquidated'
<1> USE DEF LockInv, NothingLiquidated, Sell!TypeOK
<1>1. ASSUME UNCHANGED <<phase, task>> PROVE NothingLiquidated'
  BY <1>1
<1>2. CASE Sell!LiquidationStep
  BY <1>2 DEF Sell!LiquidationStep, Sell!Gathered, Sell!ResultsDone, Sell!RetryDone,
         Sell!TaskAcquires, Sell!TaskPlaces,
     Sell!FirstResult, Sell!RetryResult
<1>3. CASE Sell!LiquidationStarts
  BY <1>3 DEF Sell!LiquidationStarts
<1>4. ASSUME NEW x \in Sell!Paths, Sell!PathStep(x) PROVE NothingLiquidated'
  BY <1>1, <1>4 DEF Sell!PathStep, Sell!ReadHolding, Sell!Place, Sell!Confirm, Sell!JobEnds,
         Sell!JobSells, Sell!JobPasses, Sell!liqVars
<1>5. ASSUME NEW x \in Sell!Paths, Sell!JobStarts(x) PROVE NothingLiquidated'
  BY <1>1, <1>5 DEF Sell!JobStarts, Sell!liqVars
<1>6. ASSUME NEW x \in Sell!Paths, NEW s \in Symbols,
             Sell!EventArrives(x, s) \/ Sell!UnlockedStarts(x, s)
      PROVE  NothingLiquidated'
  BY <1>1, <1>6 DEF Sell!EventArrives, Sell!UnlockedStarts, Sell!liqVars
<1>7. ASSUME NEW s \in Symbols, Sell!SellFills(s) \/ Sell!BuyFills(s) PROVE NothingLiquidated'
  BY <1>1, <1>7 DEF Sell!SellFills, Sell!BuyFills, Sell!liqVars
<1>8. CASE UNCHANGED Sell!vars
  BY <1>1, <1>8 DEF Sell!vars, Sell!liqVars
<1> QED  BY <1>2, <1>3, <1>4, <1>5, <1>6, <1>7, <1>8 DEF Sell!Next

LEMMA LockStep == SellSetting /\ LockInv /\ [Sell!Next]_(Sell!vars) => LockInv'
<1> SUFFICES ASSUME SellSetting, LockInv, [Sell!Next]_(Sell!vars) PROVE Sell!LockIsExact'
  BY SellTypeStep, UnlockedStep, NothingLiquidatedStep DEF LockInv
<1> USE DEF LockInv, Sell!brokerVars, Sell!pathVars, Sell!liqVars
<1>1. ASSUME NEW x \in Sell!Paths, Sell!PathStep(x) PROVE Sell!LockIsExact'
  BY <1>1, LockPath
<1>2. ASSUME NEW x \in Sell!Paths, Sell!JobStarts(x) PROVE Sell!LockIsExact'
  <2>1. \A y \in Sell!Paths, s \in Symbols : Sell!Holds(y, s)' <=> Sell!Holds(y, s)
    BY <1>2 DEF Sell!JobStarts, Sell!Holds, Sell!TypeOK, Sell!Paths
  <2> QED  BY <1>2, <2>1, LockKept DEF Sell!JobStarts
<1>3. ASSUME NEW x \in Sell!Paths, NEW s \in Symbols, Sell!EventArrives(x, s)
      PROVE  Sell!LockIsExact'
  BY <1>3, LockTaken DEF Sell!EventArrives, Locked
<1>4. ASSUME NEW x \in Sell!Paths, NEW s \in Symbols, Sell!UnlockedStarts(x, s)
      PROVE  Sell!LockIsExact'
  <2>1. x \notin Events \cup Jobs
    BY <1>4 DEF SellSetting, Sell!UnlockedStarts
  <2>2. \A y \in Sell!Paths, t \in Symbols : Sell!Holds(y, t)' <=> Sell!Holds(y, t)
    BY <1>4, <2>1 DEF Sell!UnlockedStarts, Sell!Holds, Sell!TypeOK, Sell!Paths
  <2> QED  BY <1>4, <2>2, LockKept DEF Sell!UnlockedStarts
<1>5. CASE Sell!LiquidationStarts
  <2>1. \A s \in Symbols : (task[s] = "place")' <=> task[s] = "place"
    BY <1>5 DEF Sell!LiquidationStarts, NothingLiquidated
  <2> QED  BY <1>5, <2>1, LockKept DEF Sell!LiquidationStarts, Sell!Holds
<1>6. CASE Sell!LiquidationStep
  BY <1>6, LockLiquidation
<1>7. ASSUME NEW s \in Symbols, Sell!SellFills(s) \/ Sell!BuyFills(s) PROVE Sell!LockIsExact'
  BY <1>7, LockKept DEF Sell!SellFills, Sell!BuyFills, Sell!Holds
<1>8. CASE UNCHANGED Sell!vars
  BY <1>8, LockKept DEF Sell!vars, Sell!Holds
<1> QED  BY <1>1, <1>2, <1>3, <1>4, <1>5, <1>6, <1>7, <1>8 DEF Sell!Next

\* For any number of symbols, events, jobs, cycles and sales: the entry of a
\* symbol in _selling belongs to exactly one path (LockIsExact).
THEOREM LockExact == ASSUME SellSetting PROVE Sell!Spec => []Sell!LockIsExact
<1>1. Sell!Init => LockInv
  BY LockInit
<1>2. LockInv /\ [Sell!Next]_(Sell!vars) => LockInv'
  BY LockStep
<1>3. LockInv => Sell!LockIsExact
  BY DEF LockInv
<1> QED  BY <1>1, <1>2, <1>3, PTL DEF Sell!Spec
=============================================================================
