------------------------- MODULE KiwoomAccountProofs -------------------------
(***************************************************************************)
(* Theorems of KiwoomAccount for any finite set of callers and any bounds: *)
(* the type invariant; that a sale by hand is placed once (SalesAreSingle) *)
(* and the snapshot's lock never left taken (LockIsInUse), both from the   *)
(* shape of an operation at each of its requests (Sound); that no request  *)
(* repeats a refused token (RetriesAreFresh), from an order of the tokens  *)
(* known and issued (TokensApart); and that nothing is recorded as sold    *)
(* that is not (RecordedWasSold), from what each snapshot under way can    *)
(* still show (AllTallied).                                                *)
(***************************************************************************)
EXTENDS KiwoomAccount, FiniteSetTheorems, TLAPS

(***************************************************************************)
(* The inductive invariant.                                                *)
(***************************************************************************)

\* The requests an operation may make before its sale is placed, and after.
Approaching(o, s) ==
  \/ o = "sell" /\ s \in {"holding", "pending", "baseline", "order"}
  \/ o = "replace" /\ s \in {"lookup", "holding", "find", "cancel", "baseline", "order"}
  \/ o = "cancel" /\ s \in {"lookup", "find", "cancel"}
  \/ o = "look" /\ s = "holding"

Closing == {"status", "sold", "find", "cancel"}

\* How the request, the stage, the order and the lock of a caller go together.
Shaped(c) ==
  /\ stage[c] = "none" <=> at[c] \in {"idle"} \cup Ends
  /\ at[c] = "idle" => placed[c] = 0
  /\ at[c] \in {"want", "answered"} => stage[c] \in Holdings
  /\ placed[c] \in {0, 1}
  /\ placed[c] = 0 => /\ at[c] # "waiting"
                      /\ stage[c] # "none" => Approaching(op[c], stage[c])
  /\ placed[c] = 1 => /\ op[c] \in {"sell", "replace"}
                      /\ \/ at[c] = "waiting" /\ stage[c] = "order"
                         \/ at[c] # "waiting" /\ stage[c] \in Closing \cup {"none"}
  /\ lock = c <=> stage[c] \in Holdings /\ at[c] # "want"
  /\ stage[c] \notin {"none", "lookup", "holding"} /\ op[c] # "cancel" => shares[c] > 0

AllShaped == \A c \in Callers : Shaped(c)

\* The shares under pending sales are held.
Covered == IsFiniteSet(Pledged) /\ Committed <= held

(***************************************************************************)
(* The shape of an operation.                                              *)
(***************************************************************************)

\* Nothing of caller d changes that Shaped(d) speaks of.
Untouched(d) ==
  /\ op'[d] = op[d] /\ stage'[d] = stage[d] /\ at'[d] = at[d]
  /\ placed'[d] = placed[d] /\ shares'[d] = shares[d]
  /\ lock' = d <=> lock = d

LEMMA OthersShaped ==
  ASSUME AllShaped, NEW c \in Callers, Shaped(c)',
         \A d \in Callers \ {c} : Untouched(d)
  PROVE  AllShaped'
BY DEF AllShaped, Shaped, Untouched

LEMMA StepUntouched ==
  ASSUME \A d \in Callers : Untouched(d), AllShaped
  PROVE  AllShaped'
BY DEF AllShaped, Shaped, Untouched

\* The caller that holds the lock gives it up, and no other caller's does.
LEMMA FreedLock ==
  ASSUME NEW c \in Callers, lock' = Freed(c)
  PROVE  /\ lock' # c
         /\ \A d \in Callers \ {c} : lock' = d <=> lock = d
BY AccountAssumption DEF Freed

\* An operation that ends has the shape of one that has ended.
LEMMA EndShaped ==
  ASSUME TypeOK, AllShaped, NEW c \in Callers, NEW e \in Ends, End(c, e), op' = op,
         placed'[c] \in {0, 1}, placed'[c] = 1 => op[c] \in {"sell", "replace"},
         \A d \in Callers \ {c} : placed'[d] = placed[d]
  PROVE  AllShaped'
<1>1. stage'[c] = "none" /\ at'[c] = e
  BY DEF End, TypeOK
<1>2. Shaped(c)'
  BY <1>1, FreedLock DEF Shaped, End, Ends, Holdings, Closing
<1>3. \A d \in Callers \ {c} : Untouched(d)
  BY FreedLock DEF Untouched, End, TypeOK
<1> QED  BY <1>2, <1>3, OthersShaped

\* An operation that goes on to a request that belongs there keeps its shape.
LEMMA GoShaped ==
  ASSUME TypeOK, AllShaped, NEW c \in Callers, NEW next \in Stages, Go(c, next),
         placed' = placed, lock' \in {lock, Freed(c)}, lock = c => lock' = Freed(c),
         \A d \in Callers \ {c} : op'[d] = op[d] /\ shares'[d] = shares[d],
         placed[c] = 0 => Approaching(op'[c], next),
         placed[c] = 1 => op'[c] = op[c] /\ next \in Closing,
         next \notin {"lookup", "holding"} /\ op'[c] # "cancel" => shares'[c] > 0
  PROVE  AllShaped'
<1>1. stage'[c] = next /\ at'[c] = IF next \in Holdings THEN "want" ELSE "send"
  BY DEF Go, TypeOK
<1>2. lock' # c /\ \A d \in Callers \ {c} : lock' = d <=> lock = d
  BY FreedLock
<1>3. next # "none" /\ at'[c] \notin {"idle", "waiting"} \cup Ends
  BY <1>1 DEF Stages, Holdings, Lists, Ends
<1>4. Shaped(c)
  BY DEF AllShaped
<1>5. Shaped(c)'
  BY <1>1, <1>2, <1>3, <1>4 DEF Shaped, Holdings
<1>6. \A d \in Callers \ {c} : Untouched(d)
  BY <1>2 DEF Untouched, Go, TypeOK
<1> QED  BY <1>5, <1>6, OthersShaped

\* A request that moves on keeps the shape of its operation.
LEMMA RequestShaped ==
  ASSUME TypeOK, AllShaped, NEW c \in Callers, at[c] \in {"send", "issuing", "issued", "sent"},
         NEW a \in {"send", "issuing", "issued", "sent", "answered"},
         at' = [at EXCEPT ![c] = a], a = "answered" => stage[c] \in Holdings,
         UNCHANGED <<op, stage, placed, shares, lock>>
  PROVE  AllShaped'
<1>1. at'[c] = a
  BY DEF TypeOK
<1>2. Shaped(c)'
  BY <1>1 DEF AllShaped, Shaped, Ends, Holdings
<1>3. \A d \in Callers \ {c} : Untouched(d)
  BY DEF Untouched, TypeOK
<1> QED  BY <1>2, <1>3, OthersShaped

(***************************************************************************)
(* The broker: the shares under pending sales.                             *)
(***************************************************************************)

\* The coins of n shares under one order are n in number.
LEMMA CoinsOfOne ==
  ASSUME NEW o, NEW n \in Nat
  PROVE  IsFiniteSet({o} \X (1 .. n)) /\ Cardinality({o} \X (1 .. n)) = n
<1>1. IsFiniteSet({o}) /\ Cardinality({o}) = 1
  BY FS_Singleton
<1>2. IsFiniteSet(1 .. n) /\ Cardinality(1 .. n) = n
  BY FS_Interval
<1>3. IsFiniteSet({o} \X (1 .. n))
      /\ Cardinality({o} \X (1 .. n)) = Cardinality({o}) * Cardinality(1 .. n)
  BY <1>1, <1>2, FS_Product
<1> QED  BY <1>1, <1>2, <1>3

\* A sale that is over, is filled or was never there pledges no more than before.
LEMMA FewerPledged ==
  ASSUME Covered, held \in Nat, held' = held, Pledged' \subseteq Pledged
  PROVE  Covered'
<1>1. IsFiniteSet(Pledged') /\ Cardinality(Pledged') <= Cardinality(Pledged)
  BY FS_Subset DEF Covered
<1>2. Cardinality(Pledged) \in Nat /\ Cardinality(Pledged') \in Nat
  BY <1>1, FS_CardinalityType DEF Covered
<1> QED  BY <1>1, <1>2 DEF Covered, Committed

\* The broker accepts a sale only of shares that no other sale pledges.
LEMMA AcceptCovered ==
  ASSUME TypeOK, Covered, NEW c \in Callers, Accept(c)
  PROVE  Covered'
<1> DEFINE U == {c} \X (1 .. shares[c])
<1>0. shares[c] \in Nat /\ held \in Nat
  BY DEF TypeOK
<1>1. IsFiniteSet(U) /\ Cardinality(U) = shares[c]
  BY <1>0, CoinsOfOne
<1>2. Pledged' \subseteq Pledged \cup U
  BY DEF Accept, Pledged, TypeOK, Orders, Sales
<1> HIDE DEF U
<1>3. /\ IsFiniteSet(Pledged \cup U)
      /\ Cardinality(Pledged \cup U)
           = Cardinality(Pledged) + Cardinality(U) - Cardinality(Pledged \cap U)
  BY <1>1, FS_Union DEF Covered
<1>4. IsFiniteSet(Pledged \cap U)
  BY <1>1, FS_Intersection DEF Covered
<1>5. IsFiniteSet(Pledged') /\ Cardinality(Pledged') <= Cardinality(Pledged \cup U)
  BY <1>2, <1>3, FS_Subset
<1>6. /\ Cardinality(Pledged) \in Nat /\ Cardinality(Pledged \cap U) \in Nat
      /\ Cardinality(Pledged') \in Nat
  BY <1>4, <1>5, FS_CardinalityType DEF Covered
<1>7. shares[c] <= held - Cardinality(Pledged) /\ held' = held
  BY DEF Accept, Sellable, Committed
<1> QED  BY <1>0, <1>1, <1>3, <1>5, <1>6, <1>7 DEF Covered, Committed

\* An order that ends pledges nothing any more.
LEMMA EndOrderCovered ==
  ASSUME TypeOK, Covered, NEW o \in Orders, EndOrder(o)
  PROVE  Covered' /\ left' \in [Orders -> Nat]
<1>1. Pledged' \subseteq Pledged
  BY DEF EndOrder, Pledged, TypeOK, Orders, Sales
<1>2. held \in Nat /\ held' = held
  BY DEF EndOrder, TypeOK
<1>3. left' \in [Orders -> Nat]
  BY DEF EndOrder, TypeOK
<1> QED  BY <1>1, <1>2, <1>3, FewerPledged

\* A fill moves one share, and that share is pledged no longer.
LEMMA FillCovered ==
  ASSUME TypeOK, Covered, NEW o \in Orders, Fill(o)
  PROVE  Covered' /\ held' \in Nat
<1>0. /\ left[o] \in Nat \ {0} /\ left' = [left EXCEPT ![o] = @ - 1]
      /\ left \in [Orders -> Nat] /\ held \in Nat
  BY DEF Fill, TypeOK
<1>1. CASE o \in Sales
  <2> DEFINE x == <<o, left[o]>>
  <2>1. x \in Pledged
    BY <1>0, <1>1 DEF Pledged
  <2>2. Pledged' \subseteq Pledged \ {x}
    BY <1>0, <1>1 DEF Pledged, Orders, Sales
  <2>3. IsFiniteSet(Pledged \ {x}) /\ Cardinality(Pledged \ {x}) = Cardinality(Pledged) - 1
    BY <2>1, FS_RemoveElement DEF Covered
  <2>4. IsFiniteSet(Pledged') /\ Cardinality(Pledged') <= Cardinality(Pledged \ {x})
    BY <2>2, <2>3, FS_Subset
  <2>5. Cardinality(Pledged) \in Nat /\ Cardinality(Pledged') \in Nat
    BY <2>4, FS_CardinalityType DEF Covered
  <2>6. held' = held - 1
    BY <1>1 DEF Fill
  <2> HIDE DEF x
  <2> QED  BY <1>0, <2>3, <2>4, <2>5, <2>6 DEF Covered, Committed
<1>2. CASE o \notin Sales
  <2>1. Pledged' = Pledged
    BY <1>0, <1>2 DEF Pledged, Orders, Sales
  <2>2. held' = held + 1
    BY <1>2 DEF Fill
  <2>3. Cardinality(Pledged) \in Nat
    BY FS_CardinalityType DEF Covered
  <2> QED  BY <1>0, <2>1, <2>2, <2>3 DEF Covered, Committed
<1> QED  BY <1>1, <1>2

LEMMA TargetOrder ==
  ASSUME NEW c \in Callers
  PROVE  Target(c) \in Orders
BY DEF Target, Orders, Sales

\* What a request does at the broker keeps the account in its types and the sales covered,
\* and places no more than one order of its own.
LEMMA ExecutedSound ==
  ASSUME TypeOK, Covered, NEW c \in Callers, Executed(c)
  PROVE  /\ Covered'
         /\ held' = held /\ filled' = filled /\ left' \in [Orders -> Nat]
         /\ stage[c] = "order" => placed' = [placed EXCEPT ![c] = @ + 1]
         /\ stage[c] # "order" => placed' = placed
<1>1. CASE stage[c] = "order"
  <2>1. Accept(c)
    BY <1>1 DEF Executed
  <2>2. left' \in [Orders -> Nat]
    BY <2>1 DEF Accept, TypeOK
  <2> QED  BY <1>1, <2>1, <2>2, AcceptCovered DEF Accept
<1>2. CASE stage[c] = "cancel"
  <2>1. EndOrder(Target(c))
    BY <1>2 DEF Executed
  <2> QED  BY <1>2, <2>1, TargetOrder, EndOrderCovered DEF EndOrder
<1>3. CASE stage[c] \notin {"order", "cancel"}
  <2>1. UNCHANGED brokerVars
    BY <1>3 DEF Executed
  <2>2. Pledged' = Pledged /\ held' = held
    BY <2>1 DEF brokerVars, Pledged
  <2> QED  BY <1>3, <2>1, <2>2 DEF brokerVars, Covered, Committed, TypeOK
<1> QED  BY <1>1, <1>2, <1>3

(***************************************************************************)
(* Every step keeps the types, the shapes and the sales covered.           *)
(***************************************************************************)

Sound == TypeOK /\ AllShaped /\ Covered

LEMMA MinOfTwo ==
  ASSUME NEW a \in Nat, NEW b \in Nat
  PROVE  Min({a, b}) \in {a, b} /\ Min({a, b}) <= a /\ Min({a, b}) <= b
<1>1. \E x \in {a, b} : \A y \in {a, b} : x <= y
  OBVIOUS
<1> QED  BY <1>1 DEF Min

\* Callers, stages and requests by their names.
LEMMA Names ==
  /\ Stages = {"holding", "baseline", "sold", "lookup", "pending", "find", "status", "order",
               "cancel"}
  /\ Holdings = {"holding", "baseline", "sold"} /\ Ends = {"done", "failed", "raised", "seen"}
  /\ Path["sell"]["start"] = "holding" /\ Path["sell"]["holding"] = "pending"
  /\ Path["sell"]["pending"] = "baseline" /\ Path["sell"]["baseline"] = "order"
  /\ Path["replace"]["start"] = "lookup" /\ Path["replace"]["lookup"] = "holding"
  /\ Path["replace"]["holding"] = "find" /\ Path["replace"]["find"] = "cancel"
  /\ Path["replace"]["cancel"] = "baseline" /\ Path["replace"]["baseline"] = "order"
  /\ Path["cancel"]["start"] = "lookup" /\ Path["cancel"]["lookup"] = "find"
  /\ Path["cancel"]["find"] = "cancel" /\ Path["look"]["start"] = "holding"
BY DEF Stages, Holdings, Lists, Ends, Path

\* A step that ends an operation one way or the other.
Stopped(c) ==
  /\ \E e \in Ends : End(c, e)
  /\ recorded' \in {recorded, [recorded EXCEPT ![c] = 0]} /\ cache' \in {cache, {}}

LEMMA Stops ==
  ASSUME NEW c \in Callers, Raise(c) \/ Fail(c) \/ Finish(c, 0) \/ Declined(c)
  PROVE  Stopped(c)
BY DEF Raise, Fail, Finish, Declined, Stopped, Ends

LEMMA EndTyped ==
  ASSUME TypeOK, NEW c \in Callers, NEW e \in Ends, End(c, e), issued' = issued, dead' = dead
  PROVE  /\ stage' \in [Callers -> Stages \cup {"none"}]
         /\ at' \in [Callers -> {"idle", "want", "send", "issuing", "issued", "sent",
                                 "answered", "waiting"} \cup Ends]
         /\ tok' \in [Callers -> 0 .. issued'] /\ refused' \in [Callers -> 0 .. dead']
         /\ limited' \in [Callers -> 0 .. RateRetries] /\ tries' \in [Callers -> 0 .. Attempts]
         /\ {shares', baseline'} \subseteq [Callers -> Nat]
         /\ listed' \in [Callers -> SUBSET Nat] /\ lock' \in Callers \cup {"none"}
BY AccountAssumption DEF TypeOK, End, NewRequest, Freed

LEMMA GoTyped ==
  ASSUME TypeOK, NEW c \in Callers, NEW next \in Stages, Go(c, next), issued' = issued,
         dead' = dead
  PROVE  /\ stage' \in [Callers -> Stages \cup {"none"}]
         /\ at' \in [Callers -> {"idle", "want", "send", "issuing", "issued", "sent",
                                 "answered", "waiting"} \cup Ends]
         /\ tok' \in [Callers -> 0 .. issued'] /\ refused' \in [Callers -> 0 .. dead']
         /\ limited' \in [Callers -> 0 .. RateRetries] /\ tries' \in [Callers -> 0 .. Attempts]
BY AccountAssumption DEF TypeOK, Go, NewRequest

\* The broker's side and the upsets after a step, whatever it is.
Outside ==
  /\ Covered' /\ held' \in Nat /\ {left', filled'} \subseteq [Orders -> Nat]
  /\ upsets' \in 0 .. MaxUpsets

LEMMA OutsideStays ==
  ASSUME Sound, UNCHANGED brokerVars, upsets' \in 0 .. MaxUpsets
  PROVE  Outside
<1>1. Pledged' = Pledged /\ held' = held
  BY DEF brokerVars, Pledged
<1> QED  BY <1>1 DEF brokerVars, Outside, Sound, Covered, Committed, TypeOK

LEMMA StoppedSound ==
  ASSUME Sound, NEW c \in Callers, Stopped(c), UNCHANGED <<op, answer, tokenVars>>, Outside,
         placed' \in [Callers -> Nat], placed'[c] \in {0, 1},
         placed'[c] = 1 => op[c] \in {"sell", "replace"},
         \A d \in Callers \ {c} : placed'[d] = placed[d]
  PROVE  Sound'
<1>0. TypeOK /\ AllShaped /\ UNCHANGED <<op, answer, token, file, issued, dead>>
  BY DEF Sound, tokenVars
<1>1. PICK e \in Ends : End(c, e)
  BY DEF Stopped
<1>2. AllShaped'
  BY <1>0, <1>1, EndShaped
<1>3. recorded' \in [Callers -> Nat] /\ cache' \subseteq Nat
  BY <1>0 DEF Stopped, TypeOK
<1>4. TypeOK'
  BY <1>0, <1>1, <1>3, EndTyped DEF TypeOK, Outside
<1> QED  BY <1>2, <1>4 DEF Sound, Outside

LEMMA GoSound ==
  ASSUME Sound, NEW c \in Callers, NEW next \in Stages, Go(c, next),
         placed' = placed, lock' \in {lock, Freed(c)}, lock = c => lock' = Freed(c),
         op' \in [Callers -> Operations \cup {"none"}], answer' \in [Callers -> SUBSET Nat],
         UNCHANGED tokenVars, Outside,
         {shares', baseline', recorded'} \subseteq [Callers -> Nat],
         listed' \in [Callers -> SUBSET Nat], cache' \subseteq Nat,
         \A d \in Callers \ {c} : op'[d] = op[d] /\ shares'[d] = shares[d],
         placed[c] = 0 => Approaching(op'[c], next),
         placed[c] = 1 => op'[c] = op[c] /\ next \in Closing,
         next \notin {"lookup", "holding"} /\ op'[c] # "cancel" => shares'[c] > 0
  PROVE  Sound'
<1>0. TypeOK /\ AllShaped /\ UNCHANGED <<token, file, issued, dead>>
  BY DEF Sound, tokenVars
<1>1. AllShaped'
  BY <1>0, GoShaped
<1>2. lock' \in Callers \cup {"none"}
  BY <1>0 DEF TypeOK, Freed
<1>3. TypeOK'
  BY <1>0, <1>2, GoTyped DEF TypeOK, Outside
<1> QED  BY <1>1, <1>3 DEF Sound, Outside

LEMMA SoundInit == Init => Sound
<1> SUFFICES ASSUME Init
             PROVE  Sound
  OBVIOUS
<1>1. /\ op = [c \in Callers |-> "none"] /\ stage = [c \in Callers |-> "none"]
      /\ at = [c \in Callers |-> "idle"] /\ lock = "none"
      /\ {tok, refused, limited, tries, shares, baseline, recorded, placed}
           \subseteq {[c \in Callers |-> 0]}
  BY DEF Init
<1>2. left \in [Orders -> {0, 1}] /\ \A o \in Orders \ {"oldSell", "oldBuy"} : left[o] = 0
  BY DEF Init
<1>3. TypeOK
  BY <1>1, <1>2, AccountAssumption DEF Init, TypeOK
<1>4. AllShaped
  BY <1>1, AccountAssumption DEF AllShaped, Shaped, Holdings, Ends
<1>5. Pledged \subseteq {"oldSell"} \X (1 .. 1)
  <2>1. ASSUME NEW o \in Sales, NEW n \in 1 .. left[o]
        PROVE  o = "oldSell" /\ n \in 1 .. 1
    BY <1>2, <2>1, AccountAssumption DEF Orders, Sales
  <2> QED  BY <2>1 DEF Pledged
<1>6. IsFiniteSet({"oldSell"} \X (1 .. 1)) /\ Cardinality({"oldSell"} \X (1 .. 1)) = 1
  BY CoinsOfOne
<1>7. IsFiniteSet(Pledged) /\ Cardinality(Pledged) <= 1
  BY <1>5, <1>6, FS_Subset
<1>8. Cardinality(Pledged) \in Nat /\ held \in Nat /\ held >= 1
  BY <1>7, FS_CardinalityType, AccountAssumption DEF Init
<1> QED  BY <1>3, <1>4, <1>7, <1>8 DEF Sound, Covered, Committed

LEMMA StartSound ==
  ASSUME Sound, NEW c \in Callers, Start(c)
  PROVE  Sound'
<1>0. TypeOK /\ AllShaped /\ Outside /\ Shaped(c) /\ placed' = placed /\ cache' = cache
      /\ UNCHANGED <<recorded, answer, tokenVars>>
  BY OutsideStays DEF Sound, Start, TypeOK, AllShaped, brokerVars
<1>1. at[c] = "idle" /\ placed[c] = 0 /\ stage[c] = "none" /\ lock # c
  BY <1>0 DEF Start, Shaped, Holdings
<1>2. CASE \E o \in May[c] : /\ op' = [op EXCEPT ![c] = o] /\ Go(c, Path[o].start)
                             /\ UNCHANGED <<shares, baseline, listed, lock>>
  <2>1. PICK o \in May[c] : /\ op' = [op EXCEPT ![c] = o] /\ Go(c, Path[o].start)
                            /\ UNCHANGED <<shares, baseline, listed, lock>>
    BY <1>2
  <2>2. o \in {"sell", "replace", "cancel", "look"}
    BY AccountAssumption DEF Operations
  <2>3. Path[o].start \in Stages /\ Approaching(o, Path[o].start)
        /\ Path[o].start \in {"lookup", "holding"}
    BY <2>2, Names DEF Approaching
  <2>4. op' \in [Callers -> Operations \cup {"none"}] /\ op'[c] = o
        /\ \A d \in Callers \ {c} : op'[d] = op[d]
    BY <1>0, <2>1, <2>2 DEF TypeOK, Operations
  <2> QED  BY <1>0, <1>1, <2>1, <2>3, <2>4, GoSound DEF TypeOK
<1>3. CASE End(c, "failed") /\ UNCHANGED op
  <2>1. Stopped(c)
    BY <1>0, <1>3 DEF Stopped, Ends
  <2> QED  BY <1>0, <1>1, <1>3, <2>1, StoppedSound DEF TypeOK
<1> QED  BY <1>2, <1>3 DEF Start

\* The variables of the requests, the tokens and the broker's answers.
RequestTyped ==
  /\ answer' \in [Callers -> SUBSET Nat] /\ issued' \in Nat
  /\ {token', file', dead'} \subseteq 0 .. issued' /\ tok' \in [Callers -> 0 .. issued']
  /\ refused' \in [Callers -> 0 .. dead'] /\ limited' \in [Callers -> 0 .. RateRetries]
  /\ tries' \in [Callers -> 0 .. Attempts] /\ upsets' \in 0 .. MaxUpsets

\* What a request leaves alone on its way.
Apart == <<op, stage, shares, baseline, listed, recorded, cache, lock, brokerVars>>

\* A request that moves on, whatever its token.
LEMMA RequestSound ==
  ASSUME Sound, NEW c \in Callers, at[c] \in {"send", "issuing", "issued", "sent"},
         NEW a \in {"send", "issuing", "issued", "sent", "answered"},
         at' = [at EXCEPT ![c] = a], a = "answered" => stage[c] \in Holdings,
         UNCHANGED Apart, RequestTyped
  PROVE  Sound'
<1>0. /\ TypeOK /\ AllShaped /\ placed' = placed /\ UNCHANGED brokerVars
      /\ UNCHANGED <<op, stage, shares, baseline, listed, recorded, cache, lock>>
  BY DEF Sound, brokerVars, Apart
<1>1. AllShaped'
  BY <1>0, RequestShaped
<1>2. Outside
  BY <1>0, OutsideStays DEF RequestTyped
<1>3. TypeOK'
  BY <1>0, <1>2 DEF TypeOK, Outside, RequestTyped
<1> QED  BY <1>1, <1>2, <1>3 DEF Sound, Outside

LEMMA TokenSound ==
  ASSUME Sound, NEW c \in Callers,
         Send(c) \/ Issue(c) \/ KeepToken(c) \/ TokenRefused(c) \/ TooMany(c)
           \/ ReadAccount(c) \/ SnapshotAgain(c)
  PROVE  Sound'
<1> USE DEF Apart, localVars
<1>0. TypeOK /\ issued \in Nat /\ dead \in 0 .. issued
  BY DEF Sound, TypeOK
<1>1. CASE Send(c)
  <2>1. PICK a \in {"sent", "issuing"} : at' = [at EXCEPT ![c] = a]
    BY <1>1 DEF Send
  <2>2. UNCHANGED Apart /\ at[c] = "send"
    BY <1>1 DEF Send
  <2>3. RequestTyped
    BY <1>0, <1>1 DEF Send, TypeOK, RequestTyped
  <2> QED  BY <2>1, <2>2, <2>3, RequestSound
<1>2. CASE Issue(c)
  <2>1. UNCHANGED Apart /\ at[c] = "issuing" /\ at' = [at EXCEPT ![c] = "issued"]
    BY <1>2 DEF Issue
  <2>2. RequestTyped
    BY <1>0, <1>2 DEF Issue, TypeOK, RequestTyped
  <2> QED  BY <2>1, <2>2, RequestSound
<1>3. CASE KeepToken(c)
  <2>1. UNCHANGED Apart /\ at[c] = "issued" /\ at' = [at EXCEPT ![c] = "sent"]
    BY <1>3 DEF KeepToken
  <2>2. RequestTyped
    BY <1>0, <1>3 DEF KeepToken, TypeOK, RequestTyped, requestVars
  <2> QED  BY <2>1, <2>2, RequestSound
<1>4. CASE TokenRefused(c)
  <2>1. UNCHANGED Apart /\ at[c] = "sent" /\ at' = [at EXCEPT ![c] = "send"]
    BY <1>4 DEF TokenRefused, Again
  <2>2. tok[c] \in 0 .. dead
    BY <1>0, <1>4 DEF TokenRefused, Honoured, TypeOK
  <2>3. RequestTyped
    BY <1>0, <1>4, <2>2 DEF TokenRefused, Again, Forget, TypeOK, RequestTyped
  <2> QED  BY <2>1, <2>3, RequestSound
<1>5. CASE TooMany(c)
  <2>1. UNCHANGED Apart /\ at[c] = "sent" /\ at' = [at EXCEPT ![c] = "send"]
    BY <1>5 DEF TooMany, Again
  <2>2. RequestTyped
    BY <1>0, <1>5, AccountAssumption DEF TooMany, Again, TypeOK, RequestTyped
  <2> QED  BY <2>1, <2>2, RequestSound
<1>6. CASE ReadAccount(c)
  <2>1. /\ UNCHANGED Apart /\ at[c] = "sent" /\ at' = [at EXCEPT ![c] = "answered"]
        /\ stage[c] \in Holdings
    BY <1>6 DEF ReadAccount
  <2>2. RequestTyped
    BY <1>0, <1>6 DEF ReadAccount, TypeOK, RequestTyped, requestVars, tokenVars
  <2> QED  BY <2>1, <2>2, RequestSound
<1>7. CASE SnapshotAgain(c)
  <2>1. UNCHANGED Apart /\ at[c] = "sent" /\ at' = [at EXCEPT ![c] = "send"]
    BY <1>7 DEF SnapshotAgain
  <2>2. RequestTyped
    BY <1>0, <1>7, AccountAssumption DEF SnapshotAgain, TypeOK, RequestTyped, tokenVars
  <2> QED  BY <2>1, <2>2, RequestSound
<1> QED  BY <1>1, <1>2, <1>3, <1>4, <1>5, <1>6, <1>7

\* What a request of c may do at the broker, whether or not its answer arrives.
AtBroker(c) == UNCHANGED brokerVars \/ (at[c] = "sent" /\ Executed(c))

\* The orders of c after a step: at most one, of an operation that sells.
PlacedOnce(c) ==
  /\ placed' \in [Callers -> Nat] /\ placed'[c] \in {0, 1}
  /\ placed'[c] = 1 => op[c] \in {"sell", "replace"}
  /\ \A d \in Callers \ {c} : placed'[d] = placed[d]

\* At most one order of a caller has been accepted once its request has been executed.
LEMMA ExecutedOnce ==
  ASSUME Sound, NEW c \in Callers, at[c] \in {"sent", "issuing"}, AtBroker(c),
         upsets' \in 0 .. MaxUpsets
  PROVE  Outside /\ PlacedOnce(c)
<1> USE DEF PlacedOnce
<1>0. TypeOK /\ Covered /\ Shaped(c)
  BY DEF Sound, AllShaped
<1>1. CASE UNCHANGED brokerVars
  BY <1>0, <1>1, OutsideStays DEF Shaped, TypeOK, brokerVars
<1>2. CASE at[c] = "sent" /\ Executed(c)
  <2>1. Outside
    BY <1>0, <1>2, ExecutedSound DEF Outside, TypeOK
  <2>2. CASE stage[c] = "order"
    <3>1. placed' = [placed EXCEPT ![c] = @ + 1]
      BY <1>0, <1>2, <2>2, ExecutedSound
    <3>2. placed[c] = 0 /\ op[c] \in {"sell", "replace"}
      BY <1>0, <1>2, <2>2 DEF Shaped, Closing, Approaching
    <3> QED  BY <1>0, <2>1, <3>1, <3>2 DEF TypeOK
  <2>3. CASE stage[c] # "order"
    <3>1. placed' = placed
      BY <1>0, <1>2, <2>3, ExecutedSound
    <3> QED  BY <1>0, <2>1, <3>1 DEF TypeOK, Shaped
  <2> QED  BY <2>2, <2>3
<1> QED  BY <1>1, <1>2 DEF AtBroker

LEMMA LostSound ==
  ASSUME Sound, NEW c \in Callers, Lost(c)
  PROVE  Sound'
<1>1. upsets' \in 0 .. MaxUpsets
  BY AccountAssumption DEF Lost, Sound, TypeOK
<1>2. at[c] \in {"sent", "issuing"} /\ UNCHANGED <<op, answer, tokenVars>>
  BY DEF Lost
<1>3. AtBroker(c)
  BY DEF Lost, AtBroker
<1>4. Stopped(c)
  BY Stops DEF Lost
<1>5. Outside /\ PlacedOnce(c)
  BY <1>1, <1>2, <1>3, ExecutedOnce
<1> QED  BY <1>2, <1>4, <1>5, StoppedSound DEF PlacedOnce

LEMMA DeclinesSound ==
  ASSUME Sound, NEW c \in Callers, BrokerDeclines(c)
  PROVE  Sound'
<1>1. upsets' \in 0 .. MaxUpsets
  BY AccountAssumption DEF BrokerDeclines, Sound, TypeOK
<1>2. UNCHANGED <<op, answer, tokenVars>> /\ AtBroker(c) /\ at[c] = "sent"
  BY DEF BrokerDeclines, AtBroker
<1>3. Stopped(c)
  BY Stops DEF BrokerDeclines
<1>4. Outside /\ PlacedOnce(c)
  BY <1>1, <1>2, ExecutedOnce
<1> QED  BY <1>2, <1>3, <1>4, StoppedSound DEF PlacedOnce

LEMMA ListSound ==
  ASSUME Sound, NEW c \in Callers, ListAnswers(c)
  PROVE  Sound'
<1>0. /\ TypeOK /\ Shaped(c) /\ at[c] = "sent" /\ stage[c] \in Lists
      /\ UNCHANGED <<op, answer, tokenVars>> /\ UNCHANGED brokerVars
      /\ placed' = placed /\ Outside
  BY OutsideStays DEF ListAnswers, Sound, AllShaped, TypeOK, brokerVars
<1>1. lock # c /\ op[c] \in Operations /\ placed[c] \in {0, 1}
  BY <1>0 DEF Shaped, Lists, Holdings, TypeOK, Approaching, Operations
<1>2. CASE Stopped(c)
  BY <1>0, <1>2, StoppedSound DEF TypeOK, Shaped
<1>3. ASSUME NEW next \in Stages, Go(c, next), shares' = shares, baseline' = baseline,
             recorded' = recorded, cache' = cache, lock' = lock,
             listed' \in [Callers -> SUBSET Nat],
             placed[c] = 0 => Approaching(op[c], next), placed[c] = 1 => next \in Closing,
             next \notin {"lookup", "holding"} /\ op[c] # "cancel" => shares[c] > 0
      PROVE  Sound'
  BY <1>0, <1>1, <1>3, GoSound DEF TypeOK
<1>4. CASE stage[c] = "status"
  <2>1. placed[c] = 1 /\ shares[c] > 0
    BY <1>0, <1>4 DEF Shaped, Approaching
  <2>2. listed' \in [Callers -> SUBSET Nat]
    BY <1>0, <1>4 DEF ListAnswers, TypeOK, Orders, Sales, Confirming
  <2> QED  BY <1>0, <1>3, <1>4, <2>1, <2>2, Names DEF ListAnswers, Closing
<1>5. CASE stage[c] = "find" /\ Confirming(c)
  <2>1. placed[c] = 1 /\ shares[c] > 0
    BY <1>0, <1>1, <1>5 DEF Shaped, Confirming
  <2>2. CASE Finish(c, 0)
    BY <1>2, <2>2, Stops
  <2>3. CASE Go(c, "cancel") /\ UNCHANGED <<shares, baseline, listed, recorded, cache, lock>>
    BY <1>0, <1>3, <2>1, <2>3, Names DEF Closing, TypeOK
  <2> QED  BY <1>5, <2>2, <2>3 DEF ListAnswers
<1>6. CASE stage[c] # "status" /\ ~Confirming(c)
  <2>1. CASE Fail(c)
    BY <1>2, <2>1, Stops
  <2>2. CASE /\ Go(c, Path[op[c]][stage[c]])
             /\ UNCHANGED <<shares, baseline, listed, recorded, cache, lock>>
    <3>1. placed[c] = 0 /\ Approaching(op[c], stage[c])
      BY <1>0, <1>1, <1>6 DEF Shaped, Confirming, Closing, Lists
    <3>2. /\ op[c] = "sell" => stage[c] = "pending"
          /\ op[c] = "replace" => stage[c] \in {"lookup", "find"}
          /\ op[c] = "cancel" => stage[c] \in {"lookup", "find"}
          /\ op[c] # "look"
      BY <1>0, <3>1 DEF Approaching, Lists
    <3>3. /\ Path[op[c]][stage[c]] \in Stages
          /\ Approaching(op[c], Path[op[c]][stage[c]])
      BY <3>1, <3>2, Names DEF Approaching
    <3>4. Path[op[c]][stage[c]] \notin {"lookup", "holding"} /\ op[c] # "cancel"
            => stage[c] \in {"pending", "find"}
      BY <3>1, <3>2, Names DEF Approaching
    <3>5. Path[op[c]][stage[c]] \notin {"lookup", "holding"} /\ op[c] # "cancel"
            => shares[c] > 0
      BY <1>0, <3>4 DEF Shaped
    <3> QED  BY <1>0, <1>3, <2>2, <3>1, <3>3, <3>5 DEF TypeOK
  <2> QED  BY <1>6, <2>1, <2>2 DEF ListAnswers
<1> QED  BY <1>4, <1>5, <1>6 DEF ListAnswers

LEMMA CancelSound ==
  ASSUME Sound, NEW c \in Callers, CancelAnswers(c)
  PROVE  Sound'
<1>0. /\ TypeOK /\ Shaped(c) /\ at[c] = "sent" /\ stage[c] = "cancel"
      /\ UNCHANGED <<op, answer, tokenVars>> /\ UNCHANGED <<held, filled, placed, upsets>>
      /\ EndOrder(Target(c))
  BY DEF CancelAnswers, Sound, AllShaped, TypeOK, EndOrder
<1>1. Outside
  BY <1>0, TargetOrder, EndOrderCovered DEF Outside, TypeOK, Sound
<1>2. lock # c /\ placed[c] \in {0, 1}
  BY <1>0 DEF Shaped, Holdings
<1>3. CASE Finish(c, 0)
  BY <1>0, <1>1, <1>3, Stops, StoppedSound DEF TypeOK, Shaped
<1>4. CASE /\ ~(Confirming(c) \/ op[c] = "cancel") /\ Go(c, "baseline")
           /\ UNCHANGED <<shares, baseline, listed, recorded, cache, lock>>
  <2>1. placed[c] = 0 /\ op[c] = "replace" /\ shares[c] > 0
    BY <1>0, <1>2, <1>4 DEF Shaped, Confirming, Approaching
  <2>2. Approaching(op[c], "baseline")
    BY <2>1 DEF Approaching
  <2>3. /\ op' \in [Callers -> Operations \cup {"none"}] /\ answer' \in [Callers -> SUBSET Nat]
        /\ {shares', baseline', recorded'} \subseteq [Callers -> Nat]
        /\ listed' \in [Callers -> SUBSET Nat] /\ cache' \subseteq Nat
        /\ op' = op /\ shares' = shares /\ lock' = lock /\ placed' = placed
    BY <1>0, <1>4 DEF TypeOK
  <2>4. Go(c, "baseline") /\ "baseline" \in Stages /\ "baseline" \notin {"lookup", "holding"}
    BY <1>4, Names
  <2>5. /\ UNCHANGED tokenVars /\ lock' \in {lock, Freed(c)} /\ (lock = c => lock' = Freed(c))
        /\ \A d \in Callers \ {c} : op'[d] = op[d] /\ shares'[d] = shares[d]
        /\ placed[c] # 1 /\ shares'[c] > 0 /\ Approaching(op'[c], "baseline")
    BY <1>0, <1>2, <2>1, <2>2, <2>3
  <2> QED  BY <1>1, <2>3, <2>4, <2>5, GoSound
<1> QED  BY <1>3, <1>4 DEF CancelAnswers

LEMMA OrderSound ==
  ASSUME Sound, NEW c \in Callers, OrderAnswers(c)
  PROVE  Sound'
<1>0. /\ TypeOK /\ AllShaped /\ Covered /\ Shaped(c) /\ at[c] = "sent" /\ stage[c] = "order"
      /\ Accept(c) /\ NewRequest(c) /\ at' = [at EXCEPT ![c] = "waiting"]
      /\ UNCHANGED <<op, stage, shares, baseline, listed, recorded, cache, answer, lock>>
      /\ UNCHANGED <<token, file, issued, dead, upsets>>
  BY DEF OrderAnswers, Sound, AllShaped, tokenVars
<1>1. /\ placed[c] = 0 /\ op[c] \in {"sell", "replace"} /\ lock # c
      /\ placed' = [placed EXCEPT ![c] = @ + 1] /\ held' = held /\ filled' = filled
  BY <1>0 DEF Shaped, Approaching, Closing, Holdings, Accept
<1>2. Covered' /\ left' \in [Orders -> Nat]
  BY <1>0, AcceptCovered DEF Accept, TypeOK
<1>3. Shaped(c)'
  BY <1>0, <1>1 DEF Shaped, TypeOK, Ends, Holdings
<1>4. \A d \in Callers \ {c} : Untouched(d)
  BY <1>0, <1>1 DEF Untouched, TypeOK
<1>5. AllShaped'
  BY <1>0, <1>3, <1>4, OthersShaped
<1>6. TypeOK'
  BY <1>0, <1>1, <1>2, AccountAssumption DEF TypeOK, NewRequest
<1> QED  BY <1>2, <1>5, <1>6 DEF Sound

LEMMA WaitedSound ==
  ASSUME Sound, NEW c \in Callers, Waited(c)
  PROVE  Sound'
<1>0. /\ TypeOK /\ Shaped(c) /\ at[c] = "waiting" /\ Outside /\ placed' = placed
      /\ Go(c, "status") /\ cache' = {} /\ UNCHANGED tokenVars
      /\ UNCHANGED <<op, shares, baseline, listed, recorded, answer, lock>>
  BY OutsideStays DEF Waited, Sound, AllShaped, TypeOK, brokerVars
<1>1. placed[c] = 1 /\ stage[c] = "order" /\ lock # c /\ shares[c] > 0
  BY <1>0 DEF Shaped, Holdings, Closing
<1>2. /\ op' \in [Callers -> Operations \cup {"none"}] /\ answer' \in [Callers -> SUBSET Nat]
      /\ {shares', baseline', recorded'} \subseteq [Callers -> Nat]
      /\ listed' \in [Callers -> SUBSET Nat] /\ cache' \subseteq Nat
  BY <1>0 DEF TypeOK
<1> QED  BY <1>0, <1>1, <1>2, Names, GoSound DEF Closing

LEMMA AcquireSound ==
  ASSUME Sound, NEW c \in Callers, Acquire(c)
  PROVE  Sound'
<1>0. /\ TypeOK /\ AllShaped /\ Shaped(c) /\ at[c] = "want" /\ Outside
      /\ at' = [at EXCEPT ![c] = "send"] /\ lock = "none" /\ lock' = c
      /\ UNCHANGED <<op, stage, tok, refused, limited, tries, shares, baseline, listed>>
      /\ UNCHANGED <<recorded, cache, answer, token, file, issued, dead, placed>>
  BY OutsideStays DEF Acquire, Sound, AllShaped, TypeOK, brokerVars, tokenVars, localVars,
                      requestVars
<1>1. Shaped(c)'
  BY <1>0 DEF Shaped, TypeOK, Ends, Holdings
<1>2. \A d \in Callers \ {c} : Untouched(d)
  BY <1>0, AccountAssumption DEF Untouched, TypeOK
<1>3. AllShaped'
  BY <1>0, <1>1, <1>2, OthersShaped
<1>4. TypeOK'
  BY <1>0 DEF TypeOK, Outside
<1> QED  BY <1>0, <1>3, <1>4 DEF Sound, Outside

\* An operation that sees a holding of v shares.
LEMMA SeesSound ==
  ASSUME Sound, NEW c \in Callers, NEW v \in Nat, Sees(c, v), at[c] \in {"want", "answered"},
         UNCHANGED <<op, tokenVars>>, Outside, placed' = placed,
         answer' \in [Callers -> SUBSET Nat], cache' \subseteq Nat
  PROVE  Sound'
<1>0. /\ TypeOK /\ AllShaped /\ Shaped(c) /\ stage[c] \in Holdings /\ placed[c] \in {0, 1}
      /\ UNCHANGED <<op, token, file, issued, dead>>
  BY DEF Sound, AllShaped, Shaped, tokenVars
<1>1. ASSUME NEW e \in Ends, End(c, e), recorded' \in [Callers -> Nat]
      PROVE  Sound'
  <2>1. AllShaped'
    BY <1>0, <1>1, EndShaped DEF Shaped
  <2>2. TypeOK'
    BY <1>0, <1>1, EndTyped DEF TypeOK, Outside
  <2> QED  BY <2>1, <2>2 DEF Sound, Outside
<1>2. ASSUME NEW next \in Stages, Go(c, next), lock' = Freed(c), recorded' = recorded,
             {shares', baseline'} \subseteq [Callers -> Nat], listed' = listed,
             \A d \in Callers \ {c} : shares'[d] = shares[d],
             placed[c] = 0 => Approaching(op[c], next), placed[c] = 1 => next \in Closing,
             next \notin {"lookup", "holding"} /\ op[c] # "cancel" => shares'[c] > 0
      PROVE  Sound'
  <2>1. recorded' \in [Callers -> Nat] /\ listed' \in [Callers -> SUBSET Nat]
        /\ op' \in [Callers -> Operations \cup {"none"}]
    BY <1>0, <1>2 DEF TypeOK
  <2> QED  BY <1>0, <1>2, <2>1, GoSound
<1>3. CASE stage[c] = "holding" /\ (v = 0 \/ op[c] = "look")
  BY <1>0, <1>1, <1>3, Names DEF Sees, TypeOK
<1>4. CASE stage[c] = "holding" /\ v # 0 /\ op[c] # "look"
  <2>1. /\ Go(c, Path[op[c]].holding) /\ shares' = [shares EXCEPT ![c] = v]
        /\ UNCHANGED <<baseline, listed, recorded>> /\ lock' = Freed(c)
    BY <1>4 DEF Sees
  <2>2. placed[c] = 0 /\ op[c] \in {"sell", "replace"}
    BY <1>0, <1>4 DEF Shaped, Approaching, Closing
  <2>3. Path[op[c]].holding \in Stages /\ Approaching(op[c], Path[op[c]].holding)
    BY <2>2, Names DEF Approaching
  <2>4. {shares', baseline'} \subseteq [Callers -> Nat] /\ shares'[c] > 0
        /\ \A d \in Callers \ {c} : shares'[d] = shares[d]
    BY <1>0, <1>4, <2>1 DEF TypeOK
  <2> QED  BY <1>2, <2>1, <2>2, <2>3, <2>4
<1>5. CASE stage[c] = "baseline"
  <2>1. /\ Go(c, "order") /\ baseline' = [baseline EXCEPT ![c] = v]
        /\ UNCHANGED <<shares, listed, recorded>> /\ lock' = Freed(c)
    BY <1>5 DEF Sees
  <2>2. placed[c] = 0 /\ op[c] \in {"sell", "replace"} /\ shares[c] > 0
    BY <1>0, <1>5 DEF Shaped, Approaching, Closing
  <2>3. {shares', baseline'} \subseteq [Callers -> Nat]
    BY <1>0, <2>1 DEF TypeOK
  <2>4. Approaching(op[c], "order")
    BY <2>2 DEF Approaching
  <2> QED  BY <1>2, <2>1, <2>2, <2>3, <2>4, Names
<1>6. CASE stage[c] = "sold"
  <2> DEFINE q == IF listed[c] # {} THEN CHOOSE n \in listed[c] : TRUE ELSE Inferred(c, v)
  <2>1. q \in Nat
    <3>1. baseline[c] \in Nat /\ shares[c] \in Nat /\ listed[c] \subseteq Nat
      BY <1>0 DEF TypeOK
    <3>2. Inferred(c, v) \in Nat
      <4>1. CASE baseline[c] > v
        <5>1. baseline[c] - v \in Nat
          BY <3>1, <4>1
        <5> QED  BY <3>1, <4>1, <5>1, MinOfTwo DEF Inferred
      <4>2. CASE ~(baseline[c] > v)
        BY <4>2 DEF Inferred
      <4> QED  BY <4>1, <4>2
    <3> QED  BY <3>1, <3>2
  <2>2. CASE End(c, "done") /\ recorded' = [recorded EXCEPT ![c] = q]
    <3>1. recorded' \in [Callers -> Nat]
      BY <1>0, <2>1, <2>2 DEF TypeOK
    <3> QED  BY <1>1, <2>2, <3>1, Names
  <2>3. CASE Go(c, "find") /\ UNCHANGED <<shares, baseline, listed, recorded>> /\ lock' = Freed(c)
    <3>1. placed[c] = 1 /\ shares[c] > 0 /\ {shares', baseline'} \subseteq [Callers -> Nat]
      BY <1>0, <1>6, <2>3 DEF Shaped, Approaching, TypeOK
    <3> QED  BY <1>2, <2>3, <3>1, Names DEF Closing
  <2> QED  BY <1>6, <2>2, <2>3 DEF Sees
<1> QED  BY <1>0, <1>3, <1>4, <1>5, <1>6, Names

LEMMA SnapshotSound ==
  ASSUME Sound, NEW c \in Callers, Served(c) \/ SnapshotArrives(c)
  PROVE  Sound'
<1>0. TypeOK /\ Outside /\ placed' = placed /\ UNCHANGED <<op, tokenVars>>
  BY OutsideStays DEF Served, SnapshotArrives, Sound, TypeOK, brokerVars
<1>1. CASE Served(c)
  <2>1. PICK v \in cache : Sees(c, v)
    BY <1>1 DEF Served
  <2>2. /\ v \in Nat /\ at[c] = "want" /\ answer' \in [Callers -> SUBSET Nat]
        /\ cache' \subseteq Nat
    BY <1>0, <1>1 DEF Served, TypeOK
  <2> QED  BY <1>0, <2>1, <2>2, SeesSound
<1>2. CASE SnapshotArrives(c)
  <2>1. PICK v \in answer[c] : Sees(c, v)
    BY <1>2 DEF SnapshotArrives
  <2>2. /\ v \in Nat /\ at[c] = "answered" /\ answer' \in [Callers -> SUBSET Nat]
        /\ cache' \subseteq Nat
    BY <1>0, <1>2 DEF SnapshotArrives, TypeOK
  <2> QED  BY <1>0, <2>1, <2>2, SeesSound
<1> QED  BY <1>1, <1>2

LEMMA SurroundingsSound ==
  ASSUME Sound, SnapshotAges \/ Revoke \/ (\E o \in Orders : Fill(o) \/ ExchangeEnds(o))
                  \/ UNCHANGED vars
  PROVE  Sound'
<1>0. /\ TypeOK /\ AllShaped /\ Covered /\ issued \in Nat /\ dead \in 0 .. issued
      /\ UNCHANGED <<op, stage, at, shares, lock, placed>>
  BY DEF Sound, TypeOK, SnapshotAges, Revoke, Fill, ExchangeEnds, EndOrder, vars, localVars,
         brokerVars
<1>1. AllShaped'
  BY <1>0, StepUntouched DEF Untouched
<1>2. CASE SnapshotAges
  <2>1. Outside
    BY <1>2, OutsideStays DEF SnapshotAges, Sound, TypeOK
  <2> QED  BY <1>0, <1>1, <1>2, <2>1
             DEF SnapshotAges, Sound, Outside, TypeOK, requestVars, localVars, tokenVars, brokerVars
<1>3. CASE Revoke
  <2>1. Outside
    BY <1>3, OutsideStays, AccountAssumption DEF Revoke, Sound, TypeOK
  <2>2. dead' = issued /\ issued' = issued /\ UNCHANGED <<tok, refused, limited, tries>>
    BY <1>3 DEF Revoke, requestVars, localVars
  <2>3. tok' \in [Callers -> 0 .. issued'] /\ refused' \in [Callers -> 0 .. dead']
    BY <1>0, <2>2 DEF TypeOK
  <2>4. UNCHANGED <<baseline, listed, recorded, cache, answer, token, file>>
    BY <1>3 DEF Revoke, localVars
  <2> QED  BY <1>0, <1>1, <2>1, <2>2, <2>3, <2>4 DEF Sound, Outside, TypeOK
<1>4. ASSUME NEW o \in Orders, Fill(o) \/ ExchangeEnds(o)
      PROVE  Sound'
  <2>1. Covered' /\ held' \in Nat /\ {left', filled'} \subseteq [Orders -> Nat]
    <3>1. CASE Fill(o)
      <4>1. left[o] \in Nat \ {0} /\ {left, filled} \subseteq [Orders -> Nat]
            /\ left' = [left EXCEPT ![o] = @ - 1] /\ filled' = [filled EXCEPT ![o] = @ + 1]
        BY <1>0, <3>1 DEF Fill, TypeOK
      <4>2. {left', filled'} \subseteq [Orders -> Nat]
        BY <4>1
      <4> QED  BY <1>0, <3>1, <4>2, FillCovered
    <3>2. CASE ExchangeEnds(o)
      BY <1>0, <3>2, EndOrderCovered DEF ExchangeEnds, EndOrder, TypeOK
    <3> QED  BY <1>4, <3>1, <3>2
  <2>2. /\ UNCHANGED <<tok, refused, limited, tries, baseline, listed, recorded, cache, answer>>
        /\ UNCHANGED <<token, file, issued, dead, upsets>>
    BY <1>4 DEF Fill, ExchangeEnds, requestVars, localVars, tokenVars
  <2> QED  BY <1>0, <1>1, <2>1, <2>2 DEF Sound, TypeOK
<1>5. CASE UNCHANGED vars
  <2>1. Outside
    BY <1>5, OutsideStays DEF vars, Sound, TypeOK
  <2> QED  BY <1>0, <1>1, <1>5, <2>1
             DEF vars, Sound, Outside, TypeOK, requestVars, localVars, tokenVars
<1> QED  BY <1>2, <1>3, <1>4, <1>5

LEMMA SoundStep == Sound /\ [Next]_vars => Sound'
<1> SUFFICES ASSUME Sound, [Next]_vars
             PROVE  Sound'
  OBVIOUS
<1>1. ASSUME NEW c \in Callers, Start(c) \/ Caller(c)
      PROVE  Sound'
  BY <1>1, StartSound, TokenSound, LostSound, DeclinesSound, ListSound, CancelSound, OrderSound,
     WaitedSound, SnapshotSound, AcquireSound DEF Caller
<1>2. CASE SnapshotAges \/ Revoke \/ (\E o \in Orders : Fill(o) \/ ExchangeEnds(o))
             \/ UNCHANGED vars
  BY <1>2, SurroundingsSound
<1> QED  BY <1>1, <1>2 DEF Next

LEMMA AlwaysSound == Spec => []Sound
<1>1. Init => Sound
  BY SoundInit
<1>2. Sound /\ [Next]_vars => Sound'
  BY SoundStep
<1> QED  BY <1>1, <1>2, PTL DEF Spec

(***************************************************************************)
(* Theorems about the operations and the lock.                             *)
(***************************************************************************)

\* The operations, requests, tokens and snapshots of manual_trade_service.py,
\* kiwoom_rest_client.py and kiwoom_clients.py keep their types (TypeOK), and no share is
\* sold that the account does not hold.
THEOREM TypeCorrect == Spec => []TypeOK
<1>1. Sound => TypeOK
  BY DEF Sound
<1> QED  BY <1>1, AlwaysSound, PTL

\* sell_position and replace_pending_sell_with_market_order place at most one order each,
\* although request repeats requests and answers are lost (OrderedOnce).
THEOREM SalesAreSingle == Spec => []OrderedOnce
<1>1. Sound => OrderedOnce
  BY DEF Sound, AllShaped, Shaped, OrderedOnce
<1> QED  BY <1>1, AlwaysSound, PTL

\* Whoever holds _account_snapshot_lock is reading the account (LockInUse).
THEOREM LockIsInUse == Spec => []LockInUse
<1>1. Sound => LockInUse
  <2> SUFFICES ASSUME Sound, lock # "none"
               PROVE  /\ stage[lock] \in Holdings
                      /\ at[lock] \in {"send", "issuing", "issued", "sent", "answered"}
    BY DEF LockInUse
  <2>1. lock \in Callers /\ Shaped(lock) /\ TypeOK
    BY DEF Sound, TypeOK, AllShaped
  <2> QED  BY <2>1, Names DEF Shaped, TypeOK, Closing
<1> QED  BY <1>1, AlwaysSound, PTL

(***************************************************************************)
(* The access token.                                                       *)
(***************************************************************************)

\* A refused token is forgotten, in memory and in the file; a token just issued is known
\* to its own request only; and the token of a request is never the one it was refused with.
TokensApart ==
  \A c \in Callers :
    /\ refused[c] # 0 => token # refused[c] /\ file # refused[c]
    /\ at[c] = "issued" =>
         /\ tok[c] > 0 /\ tok[c] # token /\ tok[c] # file
         /\ \A d \in Callers : tok[c] # refused[d] /\ (d # c => tok[d] # tok[c])
    /\ at[c] = "sent" => tok[c] > 0 /\ tok[c] # refused[c]

\* A step in which c has done with its request, and keeps neither of its tokens.
Renewed(c) ==
  /\ tok' = [tok EXCEPT ![c] = 0] /\ refused' = [refused EXCEPT ![c] = 0]
  /\ at'[c] \notin {"issued", "sent"} /\ \A d \in Callers \ {c} : at'[d] = at[d]
  /\ UNCHANGED <<token, file>>

LEMMA RenewedApart ==
  ASSUME TypeOK, TokensApart, NEW c \in Callers, Renewed(c)
  PROVE  TokensApart'
BY DEF TypeOK, TokensApart, Renewed

\* The end of an operation and its next request both renew it.
LEMMA Renews ==
  ASSUME TypeOK, NEW c \in Callers, UNCHANGED <<token, file>>,
         (\E e \in Ends : End(c, e)) \/ (\E next \in Stages : Go(c, next))
  PROVE  Renewed(c)
BY Names DEF End, Go, NewRequest, Renewed, TypeOK

\* What an operation sees ends it or lets it go on.
LEMMA SeesRenews ==
  ASSUME Sound, NEW c \in Callers, NEW v, Sees(c, v), UNCHANGED <<op, token, file>>
  PROVE  Renewed(c)
<1>0. TypeOK /\ Shaped(c)
  BY DEF Sound, AllShaped
<1>1. (\E e \in Ends : End(c, e)) \/ (\E next \in Stages : Go(c, next))
  <2>1. CASE stage[c] = "holding"
    <3>1. CASE v = 0 \/ op[c] = "look"
      BY <2>1, <3>1, Names DEF Sees
    <3>2. CASE ~(v = 0 \/ op[c] = "look")
      <4>1. op[c] \in {"sell", "replace"}
        BY <1>0, <2>1, <3>2, Names DEF Shaped, Approaching, Closing
      <4>2. Path[op[c]].holding \in Stages
        BY <4>1, Names
      <4> QED  BY <2>1, <3>2, <4>2 DEF Sees
    <3> QED  BY <3>1, <3>2
  <2>2. CASE stage[c] # "holding"
    BY <2>2, Names DEF Sees
  <2> QED  BY <2>1, <2>2
<1> QED  BY <1>0, <1>1, Renews

LEMMA StepRenews ==
  ASSUME Sound, NEW c \in Callers,
         Start(c) \/ Lost(c) \/ BrokerDeclines(c) \/ ListAnswers(c) \/ CancelAnswers(c)
           \/ OrderAnswers(c) \/ Waited(c) \/ Served(c) \/ SnapshotArrives(c)
           \/ SnapshotAgain(c)
  PROVE  Renewed(c)
<1>0. TypeOK /\ AllShaped /\ Shaped(c) /\ UNCHANGED <<token, file>>
  BY DEF Sound, AllShaped, tokenVars, Start, Lost, BrokerDeclines, ListAnswers, CancelAnswers,
         OrderAnswers, Waited, Served, SnapshotArrives, SnapshotAgain
<1>1. CASE Start(c)
  <2>1. \A o \in May[c] : o \in {"sell", "replace", "cancel", "look"}
    BY AccountAssumption DEF Operations
  <2>2. \A o \in May[c] : Path[o].start \in Stages
    BY <2>1, Names
  <2> QED  BY <1>0, <1>1, <2>2, Renews, Names DEF Start
<1>2. CASE Lost(c) \/ BrokerDeclines(c)
  <2>1. Stopped(c)
    BY <1>2, Stops DEF Lost, BrokerDeclines
  <2> QED  BY <1>0, <2>1, Renews DEF Stopped
<1>3. CASE ListAnswers(c)
  <2>1. CASE Stopped(c)
    BY <1>0, <2>1, Renews DEF Stopped
  <2>2. CASE stage[c] = "status" \/ Confirming(c)
    <3>1. CASE Finish(c, 0)
      BY <2>1, <3>1, Stops
    <3>2. CASE Go(c, "sold") \/ Go(c, "cancel")
      BY <1>0, <3>2, Renews, Names
    <3> QED  BY <1>3, <2>2, <3>1, <3>2 DEF ListAnswers
  <2>3. CASE stage[c] # "status" /\ ~Confirming(c)
    <3>1. CASE Fail(c)
      BY <2>1, <3>1, Stops
    <3>2. CASE Go(c, Path[op[c]][stage[c]])
      <4>1. placed[c] = 0 /\ stage[c] \in Lists /\ Approaching(op[c], stage[c])
        BY <1>0, <1>3, <2>3, Names DEF ListAnswers, Lists, Shaped, Confirming, Closing
      <4>2. Path[op[c]][stage[c]] \in Stages
        BY <2>3, <4>1, Names DEF Approaching, Lists
      <4> QED  BY <1>0, <3>2, <4>2, Renews
    <3> QED  BY <1>3, <2>3, <3>1, <3>2 DEF ListAnswers
  <2> QED  BY <2>2, <2>3
<1>4. CASE CancelAnswers(c)
  BY <1>0, <1>4, Renews, Names DEF CancelAnswers, Finish
<1>5. CASE OrderAnswers(c)
  BY <1>0, <1>5 DEF OrderAnswers, NewRequest, Renewed, TypeOK
<1>6. CASE Waited(c)
  BY <1>0, <1>6, Renews, Names DEF Waited
<1>7. CASE Served(c) \/ SnapshotArrives(c)
  BY <1>0, <1>7, SeesRenews DEF Served, SnapshotArrives
<1>8. CASE SnapshotAgain(c)
  BY <1>0, <1>8 DEF SnapshotAgain, Renewed, TypeOK
<1> QED  BY <1>1, <1>2, <1>3, <1>4, <1>5, <1>6, <1>7, <1>8

LEMMA ApartInit == Init => TokensApart
BY DEF Init, TokensApart

\* With a token file that can be written, no step lets a token be used after its refusal.
LEMMA ApartStep ==
  ASSUME FileWritable, Sound, TokensApart, [Next]_vars
  PROVE  TokensApart'
<1>0. TypeOK /\ issued \in Nat /\ dead \in 0 .. issued
  BY DEF Sound, TypeOK
<1>1. ASSUME NEW c \in Callers, Send(c)
      PROVE  TokensApart'
  <2>1. /\ tok' = [tok EXCEPT ![c] = IF token # 0 THEN token ELSE file]
        /\ token' = (IF token # 0 THEN token ELSE file) /\ UNCHANGED <<file, refused>>
        /\ at' = [at EXCEPT ![c] = IF token # 0 \/ file # 0 THEN "sent" ELSE "issuing"]
    BY <1>1 DEF Send
  <2> QED  BY <1>0, <2>1 DEF TypeOK, TokensApart
<1>2. ASSUME NEW c \in Callers, Issue(c)
      PROVE  TokensApart'
  BY <1>0, <1>2 DEF Issue, TypeOK, TokensApart
<1>3. ASSUME NEW c \in Callers, KeepToken(c)
      PROVE  TokensApart'
  BY <1>0, <1>3 DEF KeepToken, TypeOK, TokensApart, requestVars
<1>4. ASSUME NEW c \in Callers, TokenRefused(c)
      PROVE  TokensApart'
  BY <1>0, <1>4 DEF TokenRefused, Again, Forget, TypeOK, TokensApart
<1>5. ASSUME NEW c \in Callers, TooMany(c)
      PROVE  TokensApart'
  BY <1>0, <1>5 DEF TooMany, Again, TypeOK, TokensApart
<1>6. ASSUME NEW c \in Callers, Acquire(c) \/ ReadAccount(c)
      PROVE  TokensApart'
  <2>1. PICK a \in {"send", "answered"} : at' = [at EXCEPT ![c] = a]
    BY <1>6 DEF Acquire, ReadAccount
  <2>2. UNCHANGED <<tok, refused, token, file>>
    BY <1>6 DEF Acquire, ReadAccount, requestVars, tokenVars
  <2> QED  BY <1>0, <2>1, <2>2 DEF TypeOK, TokensApart
<1>7. CASE SnapshotAges \/ Revoke \/ (\E o \in Orders : Fill(o) \/ ExchangeEnds(o))
             \/ UNCHANGED vars
  <2>1. UNCHANGED <<at, tok, refused, token, file>>
    BY <1>7 DEF SnapshotAges, Revoke, Fill, ExchangeEnds, vars, requestVars, tokenVars
  <2> QED  BY <2>1 DEF TokensApart
<1>8. ASSUME NEW c \in Callers, Start(c) \/ Caller(c)
      PROVE  TokensApart'
  BY <1>0, <1>8, <1>1, <1>2, <1>3, <1>4, <1>5, <1>6, StepRenews, RenewedApart DEF Caller
<1> QED  BY <1>7, <1>8 DEF Next

\* With a token file that can be written and removed, request never repeats itself with
\* the token it was refused with, whatever the other requests load, are issued and forget
\* (RetryIsFresh).
THEOREM RetriesAreFresh ==
  ASSUME FileWritable
  PROVE  Spec => []RetryIsFresh
<1>1. Init => Sound /\ TokensApart
  BY SoundInit, ApartInit
<1>2. Sound /\ TokensApart /\ [Next]_vars => (Sound /\ TokensApart)'
  BY SoundStep, ApartStep
<1>3. TokensApart => RetryIsFresh
  BY DEF TokensApart, RetryIsFresh
<1> QED  BY <1>1, <1>2, <1>3, PTL DEF Spec

(***************************************************************************)
(* What is recorded as sold.                                               *)
(***************************************************************************)

\* The holdings that are in the snapshot or on their way into it.
Readings == cache \cup UNION {answer[d] : d \in Callers}

\* No purchase has moved the holding, and no order but the old sale and the one of c has.
Calm     == filled["oldBuy"] = 0
Alone(c) == \A o \in Orders \ {c, "oldSell"} : filled[o] = 0

\* One reading at a time: a snapshot in use and an answer under way exclude each other.
OneReading ==
  /\ \A d \in Callers : answer[d] # {} => at[d] = "answered"
  /\ cache # {} => lock = "none"
  /\ \A v, w \in cache : v = w
  /\ \A d \in Callers : \A v, w \in answer[d] : v = w

\* A reading may be late, but without a purchase it never shows less than is held.
ReadingsCover == Calm => \A v \in Readings : held <= v

\* Nor can it show more than an operation has found before.
FoundCovers(c) ==
  Calm => /\ shares[c] > 0 => held <= shares[c] /\ \A v \in Readings : v <= shares[c]
          /\ baseline[c] <= shares[c]

\* From its baseline on, a sale has no old sale beside it.
OldSaleOver(c) ==
  stage[c] \in {"baseline", "order"} \/ (placed[c] = 1 /\ stage[c] # "none")
    => left["oldSell"] = 0

\* No operation has a baseline before it has found its holding.
Early == {"none", "lookup", "holding"}
BaselineUnset(c) == stage[c] \in Early => baseline[c] = 0

\* The shares gone since the baseline are filled.
GoneAreFilled(c) ==
  placed[c] = 1 /\ stage[c] # "none" /\ Alone(c) => baseline[c] <= held + filled[c]

Tallied(c) ==
  /\ FoundCovers(c) /\ OldSaleOver(c) /\ BaselineUnset(c) /\ GoneAreFilled(c)
  /\ \A n \in listed[c] : n <= filled[c]
  /\ Alone(c) => recorded[c] <= filled[c]

AllTallied == OneReading /\ ReadingsCover /\ \A c \in Callers : Tallied(c)

LEMMA TalliedInit == Init => AllTallied
<1> SUFFICES ASSUME Init
             PROVE  AllTallied
  OBVIOUS
<1>1. /\ stage = [c \in Callers |-> "none"] /\ answer = [c \in Callers |-> {}] /\ cache = {}
      /\ listed = [c \in Callers |-> {}] /\ filled = [o \in Orders |-> 0]
      /\ {shares, baseline, recorded, placed} \subseteq {[c \in Callers |-> 0]}
  BY DEF Init
<1>2. Readings = {}
  BY <1>1 DEF Readings
<1>3. OneReading /\ ReadingsCover
  BY <1>1, <1>2 DEF OneReading, ReadingsCover
<1>4. ASSUME NEW c \in Callers
      PROVE  Tallied(c)
  <2>1. c \in Orders
    BY DEF Orders, Sales
  <2> QED  BY <1>1, <1>2, <2>1
             DEF Tallied, FoundCovers, OldSaleOver, BaselineUnset, GoneAreFilled
<1> QED  BY <1>3, <1>4 DEF AllTallied

\* A step of c that neither reads the account nor leaves a sale of its own to be confirmed.
Plain(c) ==
  /\ \A d \in Callers \ {c} :
       /\ at'[d] = at[d] /\ stage'[d] = stage[d] /\ placed'[d] = placed[d]
       /\ shares'[d] = shares[d] /\ baseline'[d] = baseline[d]
       /\ listed'[d] = listed[d] /\ recorded'[d] = recorded[d]
  /\ answer' = answer /\ answer[c] = {}
  /\ cache' \in {cache, {}} /\ held' = held /\ filled' = filled
  /\ cache' # {} => lock' = "none"
  /\ left["oldSell"] = 0 => left'["oldSell"] = 0
  /\ \/ shares'[c] = shares[c] /\ baseline'[c] = baseline[c]
     \/ shares'[c] = 0 /\ baseline'[c] = 0
  /\ recorded'[c] \in {recorded[c], 0} /\ \A n \in listed'[c] : n <= filled[c]
  /\ stage'[c] \in {"baseline", "order"} \/ (placed'[c] = 1 /\ stage'[c] # "none")
       => left'["oldSell"] = 0
  /\ placed'[c] = 1 /\ stage'[c] # "none"
       => placed[c] = 1 /\ stage[c] # "none" /\ baseline'[c] = baseline[c]
  /\ stage'[c] \in Early => baseline'[c] = 0

LEMMA PlainTallied ==
  ASSUME Sound, AllTallied, NEW c \in Callers, Plain(c)
  PROVE  AllTallied'
<1>0. TypeOK /\ OneReading /\ ReadingsCover /\ c \in Orders /\ "oldBuy" \in Orders
  BY DEF Sound, AllTallied, Orders, Sales
<1>1. Readings' \subseteq Readings
  BY DEF Plain, Readings
<1>2. Calm' = Calm /\ \A d \in Callers : Alone(d)' = Alone(d)
  BY DEF Plain, Calm, Alone
<1>3. OneReading'
  BY <1>0 DEF Plain, OneReading
<1>4. ReadingsCover'
  BY <1>0, <1>1, <1>2 DEF Plain, ReadingsCover
<1>5. ASSUME NEW d \in Callers
      PROVE  Tallied(d)'
  <2>0. Tallied(d) /\ filled' = filled /\ held' = held
    BY DEF AllTallied, Plain
  <2>1. CASE d = c
    <3>1. FoundCovers(c)'
      <4>1. CASE shares'[c] = shares[c] /\ baseline'[c] = baseline[c]
        BY <1>1, <1>2, <2>0, <2>1, <4>1 DEF Tallied, FoundCovers
      <4>2. CASE shares'[c] = 0 /\ baseline'[c] = 0
        BY <4>2 DEF FoundCovers
      <4> QED  BY <4>1, <4>2 DEF Plain
    <3>2. OldSaleOver(c)' /\ BaselineUnset(c)' /\ GoneAreFilled(c)'
      BY <1>2, <2>0, <2>1 DEF Plain, Tallied, OldSaleOver, BaselineUnset, GoneAreFilled
    <3>3. (\A n \in listed[c] : n <= filled[c])' /\ (Alone(c) => recorded[c] <= filled[c])'
      BY <1>0, <1>2, <2>0, <2>1 DEF Plain, Tallied, TypeOK
    <3> QED  BY <2>1, <3>1, <3>2, <3>3 DEF Tallied
  <2>2. CASE d # c
    <3>1. /\ at'[d] = at[d] /\ stage'[d] = stage[d] /\ placed'[d] = placed[d]
          /\ shares'[d] = shares[d] /\ baseline'[d] = baseline[d]
          /\ listed'[d] = listed[d] /\ recorded'[d] = recorded[d]
          /\ left["oldSell"] = 0 => left'["oldSell"] = 0
      BY <2>2 DEF Plain
    <3> QED  BY <1>1, <1>2, <2>0, <3>1
               DEF Tallied, FoundCovers, OldSaleOver, BaselineUnset, GoneAreFilled
  <2> QED  BY <2>1, <2>2
<1> QED  BY <1>3, <1>4, <1>5 DEF AllTallied

\* What the surroundings of an ending or continuing operation c may do.
Around(c) ==
  /\ answer' = answer /\ answer[c] = {} /\ cache' \in {cache, {}}
  /\ held' = held /\ filled' = filled
  /\ left["oldSell"] = 0 => left'["oldSell"] = 0
  /\ \A d \in Callers \ {c} : placed'[d] = placed[d]

LEMMA EndPlain ==
  ASSUME Sound, AllTallied, NEW c \in Callers, NEW e \in Ends, End(c, e), Around(c),
         recorded' \in {recorded, [recorded EXCEPT ![c] = 0]}
  PROVE  Plain(c)
<1>1. TypeOK /\ OneReading
  BY DEF Sound, AllTallied
<1>2. cache' # {} => lock' = "none"
  BY <1>1 DEF Around, End, Freed, OneReading
<1>3. \A d \in Callers \ {c} :
        /\ at'[d] = at[d] /\ stage'[d] = stage[d] /\ placed'[d] = placed[d]
        /\ shares'[d] = shares[d] /\ baseline'[d] = baseline[d]
        /\ listed'[d] = listed[d] /\ recorded'[d] = recorded[d]
  BY <1>1 DEF Around, End, TypeOK
<1>4. /\ stage'[c] = "none" /\ shares'[c] = 0 /\ baseline'[c] = 0 /\ listed'[c] = {}
      /\ recorded'[c] \in {recorded[c], 0}
  BY <1>1 DEF End, TypeOK
<1> QED  BY <1>2, <1>3, <1>4 DEF Plain, Around

LEMMA GoPlain ==
  ASSUME Sound, AllTallied, NEW c \in Callers, NEW next \in Stages, Go(c, next), Around(c),
         placed' = placed, lock' = lock, shares' = shares, baseline' = baseline,
         recorded' = recorded, listed' \in {listed, [listed EXCEPT ![c] = {filled[c]}]}
                                 \cup {[listed EXCEPT ![c] = {}]},
         next \in {"baseline", "order"} \/ placed[c] = 1 => left'["oldSell"] = 0,
         stage[c] # "none" \/ placed[c] = 0, next \in Early => stage[c] \in Early
  PROVE  Plain(c)
<1>1. TypeOK /\ OneReading /\ Tallied(c) /\ c \in Orders
  BY DEF Sound, AllTallied, Orders, Sales
<1>2. cache' # {} => lock' = "none"
  BY <1>1 DEF Around, OneReading
<1>3. \A d \in Callers \ {c} :
        /\ at'[d] = at[d] /\ stage'[d] = stage[d] /\ placed'[d] = placed[d]
        /\ shares'[d] = shares[d] /\ baseline'[d] = baseline[d]
        /\ listed'[d] = listed[d] /\ recorded'[d] = recorded[d]
  BY <1>1 DEF Go, TypeOK
<1>4. stage'[c] = next /\ \A n \in listed'[c] : n <= filled[c]
  BY <1>1 DEF Go, TypeOK, Tallied
<1>5. next \in Early => baseline[c] = 0
  BY <1>1 DEF Tallied, BaselineUnset
<1> QED  BY <1>2, <1>3, <1>4, <1>5 DEF Plain, Around

\* The requests of an operation do not bring the old sale back.
LEMMA OldSaleStays ==
  ASSUME TypeOK, NEW c \in Callers, AtBroker(c)
  PROVE  /\ held' = held /\ filled' = filled
         /\ left["oldSell"] = 0 => left'["oldSell"] = 0
<1>1. CASE UNCHANGED brokerVars
  BY <1>1 DEF brokerVars
<1>2. CASE Accept(c)
  BY <1>2, AccountAssumption DEF Accept, TypeOK
<1>3. CASE EndOrder(Target(c))
  BY <1>3, TargetOrder DEF EndOrder, TypeOK
<1> QED  BY <1>1, <1>2, <1>3 DEF AtBroker, Executed

LEMMA StartPlain ==
  ASSUME Sound, AllTallied, NEW c \in Callers, Start(c)
  PROVE  Plain(c)
<1>0. /\ TypeOK /\ Shaped(c) /\ OneReading /\ at[c] = "idle" /\ UNCHANGED <<recorded, cache, answer>>
      /\ UNCHANGED <<held, left, filled, placed>>
  BY DEF Sound, AllShaped, AllTallied, Start, brokerVars
<1>1. placed[c] = 0 /\ answer[c] = {}
  BY <1>0 DEF Shaped, OneReading
<1>2. Around(c)
  BY <1>0, <1>1 DEF Around
<1>3. CASE End(c, "failed")
  BY <1>0, <1>2, <1>3, Names, EndPlain
<1>4. ASSUME NEW o \in May[c], Go(c, Path[o].start), UNCHANGED <<shares, baseline, listed, lock>>
      PROVE  Plain(c)
  <2>1. o \in {"sell", "replace", "cancel", "look"}
    BY AccountAssumption DEF Operations
  <2>2. Path[o].start \in {"holding", "lookup"}
    BY <2>1, Names
  <2>3. stage[c] \in Early
    BY <1>0 DEF Shaped, Early
  <2> QED  BY <1>0, <1>1, <1>2, <1>4, <2>2, <2>3, Names, GoPlain
<1> QED  BY <1>3, <1>4 DEF Start

LEMMA RequestPlain ==
  ASSUME Sound, AllTallied, NEW c \in Callers,
         Send(c) \/ Issue(c) \/ KeepToken(c) \/ TokenRefused(c) \/ TooMany(c)
           \/ SnapshotAgain(c) \/ Acquire(c)
  PROVE  Plain(c)
<1>0. TypeOK /\ OneReading /\ Tallied(c)
  BY DEF Sound, AllTallied
<1>1. /\ at[c] # "answered" /\ \A d \in Callers \ {c} : at'[d] = at[d]
      /\ UNCHANGED <<stage, shares, baseline, listed, recorded, answer, cache, brokerVars>>
  BY <1>0 DEF Send, Issue, KeepToken, TokenRefused, TooMany, SnapshotAgain, Acquire, Again,
              localVars, TypeOK
<1>2. cache' # {} => lock' = "none"
  BY <1>0 DEF Send, Issue, KeepToken, TokenRefused, TooMany, SnapshotAgain, Acquire, Again,
              OneReading
<1>3. UNCHANGED <<held, left, filled, placed>> /\ answer[c] = {}
  BY <1>0, <1>1 DEF brokerVars, OneReading
<1> QED  BY <1>0, <1>1, <1>2, <1>3 DEF Plain, Tallied, OldSaleOver, BaselineUnset

LEMMA StoppedPlain ==
  ASSUME Sound, AllTallied, NEW c \in Callers, Stopped(c), Around(c)
  PROVE  Plain(c)
BY EndPlain DEF Stopped

LEMMA LostPlain ==
  ASSUME Sound, AllTallied, NEW c \in Callers, Lost(c) \/ BrokerDeclines(c)
  PROVE  Plain(c)
<1>0. TypeOK /\ OneReading
  BY DEF Sound, AllTallied
<1>1. Stopped(c) /\ answer' = answer /\ answer[c] = {}
  BY <1>0, Stops DEF Lost, BrokerDeclines, OneReading
<1>2. AtBroker(c) /\ at[c] \in {"sent", "issuing"}
  BY DEF Lost, BrokerDeclines, AtBroker
<1>3. upsets' \in 0 .. MaxUpsets
  BY <1>0, AccountAssumption DEF Lost, BrokerDeclines, TypeOK
<1>4. PlacedOnce(c)
  BY <1>2, <1>3, ExecutedOnce
<1>5. Around(c)
  BY <1>0, <1>1, <1>2, <1>4, OldSaleStays DEF Around, Stopped, PlacedOnce
<1> QED  BY <1>1, <1>5, StoppedPlain

LEMMA ListPlain ==
  ASSUME Sound, AllTallied, NEW c \in Callers, ListAnswers(c)
  PROVE  Plain(c)
<1>0. /\ TypeOK /\ Shaped(c) /\ OneReading /\ Tallied(c) /\ at[c] = "sent" /\ stage[c] \in Lists
      /\ answer' = answer /\ UNCHANGED <<held, left, filled, placed>>
  BY DEF ListAnswers, Sound, AllShaped, AllTallied, brokerVars
<1>1. answer[c] = {} /\ stage[c] # "none" /\ placed[c] \in {0, 1}
  BY <1>0 DEF OneReading, Lists, Shaped
<1>2. cache' \in {cache, {}} => Around(c)
  BY <1>0, <1>1 DEF Around
<1>3. CASE Stopped(c)
  BY <1>2, <1>3, StoppedPlain DEF Stopped
<1>4. placed[c] = 1 => left["oldSell"] = 0
  BY <1>0, <1>1 DEF Tallied, OldSaleOver
<1>5. ASSUME NEW next \in Stages, Go(c, next), UNCHANGED <<shares, baseline, recorded, cache, lock>>,
             listed' \in {listed, [listed EXCEPT ![c] = {filled[c]}]}
                          \cup {[listed EXCEPT ![c] = {}]},
             next \in {"baseline", "order"} => left["oldSell"] = 0,
             next \in Early => stage[c] = "lookup"
      PROVE  Plain(c)
  BY <1>0, <1>1, <1>2, <1>4, <1>5, GoPlain DEF Early
<1>6. CASE stage[c] = "status"
  BY <1>5, <1>6, Names DEF ListAnswers, Early
<1>7. CASE stage[c] = "find" /\ Confirming(c)
  <2>1. CASE Finish(c, 0)
    BY <1>3, <2>1, Stops
  <2>2. CASE Go(c, "cancel") /\ UNCHANGED <<shares, baseline, listed, recorded, cache, lock>>
    BY <1>5, <2>2, Names DEF Early
  <2> QED  BY <1>7, <2>1, <2>2 DEF ListAnswers
<1>8. CASE stage[c] # "status" /\ ~Confirming(c)
  <2>1. CASE Fail(c)
    BY <1>3, <2>1, Stops
  <2>2. CASE /\ Go(c, Path[op[c]][stage[c]])
             /\ UNCHANGED <<shares, baseline, listed, recorded, cache, lock>>
             /\ stage[c] = "pending" => \A o \in Sales : left[o] = 0
    <3>1. placed[c] = 0 /\ Approaching(op[c], stage[c])
      BY <1>0, <1>1, <1>8 DEF Shaped, Confirming, Closing, Lists
    <3>2. /\ op[c] = "sell" => stage[c] = "pending"
          /\ op[c] = "replace" => stage[c] \in {"lookup", "find"}
          /\ op[c] = "cancel" => stage[c] \in {"lookup", "find"}
          /\ op[c] # "look"
      BY <1>0, <3>1 DEF Approaching, Lists
    <3>3. /\ Path[op[c]][stage[c]] \in Stages
          /\ Path[op[c]][stage[c]] \in {"baseline", "order"} => stage[c] = "pending"
          /\ Path[op[c]][stage[c]] \in Early => stage[c] = "lookup"
      BY <3>1, <3>2, Names DEF Approaching, Early
    <3>4. Path[op[c]][stage[c]] \in {"baseline", "order"} => left["oldSell"] = 0
      BY <2>2, <3>3 DEF Sales
    <3> QED  BY <1>5, <2>2, <3>3, <3>4
  <2> QED  BY <1>8, <2>1, <2>2 DEF ListAnswers
<1> QED  BY <1>6, <1>7, <1>8 DEF ListAnswers

LEMMA CancelPlain ==
  ASSUME Sound, AllTallied, NEW c \in Callers, CancelAnswers(c)
  PROVE  Plain(c)
<1>0. /\ TypeOK /\ Shaped(c) /\ OneReading /\ Tallied(c) /\ at[c] = "sent" /\ stage[c] = "cancel"
      /\ answer' = answer /\ UNCHANGED <<held, filled, placed>> /\ EndOrder(Target(c))
  BY DEF CancelAnswers, Sound, AllShaped, AllTallied, EndOrder
<1>1. AtBroker(c) /\ answer[c] = {} /\ placed[c] \in {0, 1}
  BY <1>0 DEF AtBroker, Executed, OneReading, Shaped
<1>2. cache' \in {cache, {}} => Around(c)
  BY <1>0, <1>1, OldSaleStays DEF Around
<1>3. CASE Finish(c, 0)
  BY <1>2, <1>3, Stops, StoppedPlain DEF Stopped
<1>4. CASE /\ ~(Confirming(c) \/ op[c] = "cancel") /\ Go(c, "baseline")
           /\ UNCHANGED <<shares, baseline, listed, recorded, cache, lock>>
  <2>1. Target(c) = "oldSell"
    BY <1>4 DEF Target
  <2>2. left'["oldSell"] = 0
    BY <1>0, <2>1, TargetOrder DEF EndOrder, TypeOK
  <2> QED  BY <1>0, <1>2, <1>4, <2>2, Names, GoPlain DEF Early
<1> QED  BY <1>3, <1>4 DEF CancelAnswers

LEMMA WaitedPlain ==
  ASSUME Sound, AllTallied, NEW c \in Callers, Waited(c)
  PROVE  Plain(c)
<1>0. /\ TypeOK /\ Shaped(c) /\ OneReading /\ Tallied(c) /\ at[c] = "waiting" /\ Go(c, "status")
      /\ answer' = answer /\ cache' = {} /\ UNCHANGED <<held, left, filled, placed>>
      /\ UNCHANGED <<shares, baseline, listed, recorded, lock>>
  BY DEF Waited, Sound, AllShaped, AllTallied, brokerVars
<1>1. placed[c] = 1 /\ stage[c] = "order" /\ answer[c] = {}
  BY <1>0 DEF Shaped, OneReading, Closing
<1>2. left["oldSell"] = 0 /\ Around(c)
  BY <1>0, <1>1 DEF Tallied, OldSaleOver, Around
<1> QED  BY <1>0, <1>1, <1>2, Names, GoPlain DEF Early

\* The broker accepts no more than is held, so that nothing is gone yet when a sale starts.
LEMMA OrderTallied ==
  ASSUME Sound, AllTallied, NEW c \in Callers, OrderAnswers(c)
  PROVE  AllTallied'
<1>0. /\ TypeOK /\ Shaped(c) /\ OneReading /\ ReadingsCover /\ Tallied(c)
      /\ at[c] = "sent" /\ stage[c] = "order" /\ Accept(c) /\ at' = [at EXCEPT ![c] = "waiting"]
      /\ UNCHANGED <<stage, shares, baseline, listed, recorded, cache, answer, lock>>
      /\ UNCHANGED <<held, filled>> /\ answer[c] = {}
  BY DEF OrderAnswers, Sound, AllShaped, AllTallied, Accept, OneReading
<1>1. Readings' = Readings /\ Calm' = Calm /\ \A d \in Callers : Alone(d)' = Alone(d)
  BY <1>0 DEF Readings, Calm, Alone
<1>2. OneReading' /\ ReadingsCover'
  BY <1>0, <1>1 DEF OneReading, ReadingsCover, TypeOK
<1>3. left["oldSell"] = 0 /\ left'["oldSell"] = 0
  BY <1>0, AccountAssumption DEF Tallied, OldSaleOver, Accept, TypeOK
<1>4. shares[c] <= held
  <2>1. Cardinality(Pledged) \in Nat /\ Committed = Cardinality(Pledged)
    BY FS_CardinalityType DEF Sound, Covered, Committed
  <2> QED  BY <1>0, <2>1 DEF Accept, Sellable, TypeOK
<1>5. Alone(c) => baseline[c] <= held + filled[c]
  <2>1. /\ baseline[c] \in Nat /\ shares[c] \in Nat /\ held \in Nat /\ filled[c] \in Nat
        /\ "oldBuy" \in Orders \ {c, "oldSell"}
    BY <1>0, AccountAssumption DEF TypeOK, Orders, Sales
  <2>2. Alone(c) => Calm
    BY <2>1 DEF Alone, Calm
  <2> QED  BY <1>0, <1>4, <2>1, <2>2 DEF Tallied, FoundCovers
<1>6. ASSUME NEW d \in Callers
      PROVE  Tallied(d)'
  <2>1. Tallied(d)
    BY DEF AllTallied
  <2>2. CASE d = c
    BY <1>0, <1>1, <1>3, <1>5, <2>1, <2>2
       DEF Tallied, FoundCovers, OldSaleOver, BaselineUnset, GoneAreFilled
  <2>3. CASE d # c
    <3>1. placed'[d] = placed[d] /\ left'["oldSell"] = left["oldSell"]
      BY <1>0, <1>3, <2>3 DEF Accept, TypeOK
    <3> QED  BY <1>0, <1>1, <2>1, <3>1
               DEF Tallied, FoundCovers, OldSaleOver, BaselineUnset, GoneAreFilled
  <2> QED  BY <2>2, <2>3
<1> QED  BY <1>2, <1>6 DEF AllTallied

\* The broker reads the account while nobody else does.
LEMMA ReadTallied ==
  ASSUME Sound, AllTallied, NEW c \in Callers, ReadAccount(c)
  PROVE  AllTallied'
<1>0. /\ TypeOK /\ Shaped(c) /\ OneReading /\ ReadingsCover /\ at[c] = "sent"
      /\ stage[c] \in Holdings /\ at' = [at EXCEPT ![c] = "answered"]
      /\ answer' = [answer EXCEPT ![c] = {held}]
      /\ UNCHANGED <<stage, shares, baseline, listed, recorded, cache, lock>>
      /\ UNCHANGED <<held, left, filled, placed>>
  BY DEF ReadAccount, Sound, AllShaped, AllTallied, localVars, brokerVars
<1>1. lock = c /\ cache = {} /\ held \in Nat
  BY <1>0, AccountAssumption DEF Shaped, OneReading, TypeOK
<1>2. Readings' \subseteq Readings \cup {held}
  BY <1>0 DEF Readings, TypeOK
<1>3. Calm' = Calm /\ \A d \in Callers : Alone(d)' = Alone(d)
  BY <1>0 DEF Calm, Alone
<1>4. OneReading'
  BY <1>0, <1>1 DEF OneReading, TypeOK
<1>5. ReadingsCover'
  BY <1>0, <1>1, <1>2, <1>3 DEF ReadingsCover
<1>6. ASSUME NEW d \in Callers
      PROVE  Tallied(d)'
  <2>1. Tallied(d)
    BY DEF AllTallied
  <2>2. FoundCovers(d)'
    BY <1>0, <1>2, <1>3, <2>1 DEF Tallied, FoundCovers
  <2> QED  BY <1>0, <1>3, <2>1, <2>2 DEF Tallied, OldSaleOver, BaselineUnset, GoneAreFilled
<1> QED  BY <1>4, <1>5, <1>6 DEF AllTallied

\* An operation that sees a reading, which is then the only one.
LEMMA SeesTallied ==
  ASSUME Sound, AllTallied, NEW c \in Callers, NEW v \in Readings, Sees(c, v),
         at[c] \in {"want", "answered"}, UNCHANGED <<op, held, left, filled, placed>>,
         lock \in {"none", c}, cache' \subseteq {v}, \A d \in Callers : answer'[d] = {}
  PROVE  AllTallied'
<1>0. TypeOK /\ Shaped(c) /\ OneReading /\ ReadingsCover /\ Tallied(c) /\ c \in Orders
  BY DEF Sound, AllShaped, AllTallied, Orders, Sales
<1>1. Readings' \subseteq {v}
  BY DEF Readings
<1>2. v \in Nat
  BY <1>0 DEF Readings, TypeOK
<1>3. Calm' = Calm /\ \A d \in Callers : Alone(d)' = Alone(d)
  BY DEF Calm, Alone
<1>4. ReadingsCover'
  BY <1>0, <1>1, <1>3 DEF ReadingsCover
<1>5. lock' = "none"
  BY DEF Sees, End, Freed
<1>6. OneReading'
  BY <1>5 DEF OneReading
<1>7. ASSUME NEW d \in Callers \ {c}
      PROVE  Tallied(d)'
  <2>1. /\ stage'[d] = stage[d] /\ shares'[d] = shares[d] /\ baseline'[d] = baseline[d]
        /\ listed'[d] = listed[d] /\ recorded'[d] = recorded[d]
    BY <1>0 DEF Sees, End, Go, TypeOK
  <2>2. Tallied(d) /\ v \in Readings
    BY DEF AllTallied
  <2> QED  BY <1>1, <1>3, <2>1, <2>2
             DEF Tallied, FoundCovers, OldSaleOver, BaselineUnset, GoneAreFilled
<1>8. ASSUME NEW e \in Ends, End(c, e), (Alone(c) => recorded'[c] <= filled[c])
      PROVE  Tallied(c)'
  <2>1. stage'[c] = "none" /\ shares'[c] = 0 /\ baseline'[c] = 0 /\ listed'[c] = {}
    BY <1>0, <1>8 DEF End, TypeOK
  <2> QED  BY <1>3, <1>8, <2>1 DEF Tallied, FoundCovers, OldSaleOver, BaselineUnset, GoneAreFilled
<1>9. ASSUME NEW next \in Stages, Go(c, next), UNCHANGED <<listed, recorded>>, FoundCovers(c)',
             next \in {"baseline", "order"} \/ placed[c] = 1 => left["oldSell"] = 0,
             placed[c] = 1 => stage[c] # "none" /\ baseline' = baseline, next \notin Early
      PROVE  Tallied(c)'
  <2>1. stage'[c] = next
    BY <1>0, <1>9 DEF Go, TypeOK
  <2> QED  BY <1>0, <1>3, <1>9, <2>1 DEF Tallied, OldSaleOver, BaselineUnset, GoneAreFilled
<1>10. Tallied(c)'
  <2>1. CASE stage[c] = "holding"
    <3>1. CASE v = 0 \/ op[c] = "look"
      BY <1>0, <1>8, <2>1, <3>1, Names DEF Sees, Tallied
    <3>2. CASE ~(v = 0 \/ op[c] = "look")
      <4>1. placed[c] = 0 /\ op[c] \in {"sell", "replace"}
        BY <1>0, <2>1, <3>2 DEF Shaped, Approaching, Closing
      <4>2. Path[op[c]].holding \in {"pending", "find"}
        BY <4>1, Names
      <4>3. /\ Go(c, Path[op[c]].holding) /\ shares' = [shares EXCEPT ![c] = v]
            /\ UNCHANGED <<baseline, listed, recorded>>
        BY <2>1, <3>2 DEF Sees
      <4>4. baseline[c] = 0
        BY <1>0, <2>1 DEF Tallied, BaselineUnset, Early
      <4>5. FoundCovers(c)'
        BY <1>0, <1>1, <1>2, <1>3, <4>3, <4>4 DEF FoundCovers, ReadingsCover, TypeOK
      <4> QED  BY <1>9, <4>1, <4>2, <4>3, <4>5, Names DEF Early
    <3> QED  BY <3>1, <3>2
  <2>2. CASE stage[c] = "baseline"
    <3>1. /\ Go(c, "order") /\ baseline' = [baseline EXCEPT ![c] = v]
          /\ UNCHANGED <<shares, listed, recorded>>
      BY <2>2 DEF Sees
    <3>2. placed[c] = 0 /\ shares[c] > 0 /\ left["oldSell"] = 0
      BY <1>0, <2>2 DEF Shaped, Approaching, Closing, Tallied, OldSaleOver
    <3>3. FoundCovers(c)'
      BY <1>0, <1>1, <1>3, <3>1, <3>2 DEF FoundCovers, Tallied, TypeOK
    <3> QED  BY <1>9, <3>1, <3>2, <3>3, Names DEF Early
  <2>3. CASE stage[c] = "sold"
    <3> DEFINE q == IF listed[c] # {} THEN CHOOSE n \in listed[c] : TRUE ELSE Inferred(c, v)
    <3>1. placed[c] = 1 /\ left["oldSell"] = 0
      BY <1>0, <2>3 DEF Shaped, Approaching, Tallied, OldSaleOver
    <3>2. Alone(c) => q <= filled[c]
      <4>1. CASE listed[c] # {}
        BY <1>0, <4>1 DEF Tallied
      <4>2. CASE listed[c] = {} /\ baseline[c] > v
        <5>1. /\ baseline[c] \in Nat /\ shares[c] \in Nat /\ held \in Nat /\ filled[c] \in Nat
              /\ "oldBuy" \in Orders \ {c, "oldSell"}
          BY <1>0, AccountAssumption DEF TypeOK, Orders, Sales
        <5>2. baseline[c] - v \in Nat
          BY <1>2, <4>2, <5>1
        <5>3. Min({baseline[c] - v, shares[c]}) \in Nat
              /\ Min({baseline[c] - v, shares[c]}) <= baseline[c] - v
          BY <5>1, <5>2, MinOfTwo
        <5>4. ASSUME Alone(c)
              PROVE  baseline[c] - v <= filled[c]
          <6>1. baseline[c] <= held + filled[c]
            BY <1>0, <2>3, <3>1, <5>4 DEF Tallied, GoneAreFilled
          <6>2. held <= v
            BY <1>0, <5>1, <5>4 DEF Alone, Calm, ReadingsCover
          <6> QED  BY <1>2, <5>1, <6>1, <6>2
        <5>5. q = Min({baseline[c] - v, shares[c]})
          BY <4>2 DEF Inferred
        <5> QED  BY <1>2, <5>1, <5>3, <5>4, <5>5
      <4>3. CASE listed[c] = {} /\ ~(baseline[c] > v)
        BY <1>0, <4>3 DEF Inferred, TypeOK
      <4> QED  BY <4>1, <4>2, <4>3
    <3>3. CASE End(c, "done") /\ recorded' = [recorded EXCEPT ![c] = q]
      <4>1. recorded'[c] = q
        BY <1>0, <3>3 DEF TypeOK
      <4> QED  BY <1>8, <3>2, <3>3, <4>1, Names
    <3>4. CASE Go(c, "find") /\ UNCHANGED <<shares, baseline, listed, recorded>>
      <4>1. FoundCovers(c)'
        BY <1>0, <1>1, <1>3, <3>4 DEF FoundCovers, Tallied
      <4> QED  BY <1>9, <2>3, <3>1, <3>4, <4>1, Names DEF Early
    <3> QED  BY <2>3, <3>3, <3>4 DEF Sees
  <2> QED  BY <2>1, <2>2, <2>3 DEF Sees
<1> QED  BY <1>4, <1>6, <1>7, <1>10 DEF AllTallied

\* A holding that is read anew, or served again, is the only reading left.
LEMMA SnapshotTallied ==
  ASSUME Sound, AllTallied, NEW c \in Callers, Served(c) \/ SnapshotArrives(c)
  PROVE  AllTallied'
<1>0. /\ TypeOK /\ AllShaped /\ Shaped(c) /\ OneReading /\ op' = op
      /\ UNCHANGED <<held, left, filled, placed>>
  BY DEF Sound, AllShaped, AllTallied, Served, SnapshotArrives, brokerVars
<1>1. \A d \in Callers : answer[d] # {} => lock = d
  BY <1>0 DEF OneReading, AllShaped, Shaped
<1>2. CASE Served(c)
  <2>1. PICK v \in cache : Sees(c, v)
    BY <1>2 DEF Served
  <2>2. lock = "none" /\ at[c] = "want" /\ answer' = answer /\ cache' \subseteq {v}
    BY <1>0, <1>2, <2>1 DEF Served, OneReading
  <2>3. \A d \in Callers : answer'[d] = {}
    BY <1>1, <2>2, AccountAssumption
  <2>4. v \in Readings
    BY <2>1 DEF Readings
  <2> QED  BY <1>0, <2>1, <2>2, <2>3, <2>4, SeesTallied
<1>3. CASE SnapshotArrives(c)
  <2>1. PICK v \in answer[c] : Sees(c, v)
    BY <1>3 DEF SnapshotArrives
  <2>2. lock = c /\ at[c] = "answered" /\ answer' = [answer EXCEPT ![c] = {}]
        /\ cache' \subseteq {v}
    BY <1>0, <1>1, <1>3, <2>1 DEF SnapshotArrives, OneReading
  <2>3. \A d \in Callers : answer'[d] = {}
    BY <1>0, <1>1, <2>2 DEF TypeOK
  <2>4. v \in Readings
    BY <2>1 DEF Readings
  <2> QED  BY <1>0, <2>1, <2>2, <2>3, <2>4, SeesTallied
<1> QED  BY <1>2, <1>3

\* A fill takes a share from the holding and counts it, or shows that a purchase or
\* another sale moves the holding too.
LEMMA FillTallied ==
  ASSUME Sound, AllTallied, NEW o \in Orders, Fill(o)
  PROVE  AllTallied'
<1>0. /\ TypeOK /\ OneReading /\ ReadingsCover /\ left[o] > 0
      /\ left' = [left EXCEPT ![o] = @ - 1] /\ filled' = [filled EXCEPT ![o] = @ + 1]
      /\ UNCHANGED <<stage, at, shares, baseline, listed, recorded, cache, answer, lock, placed>>
  BY DEF Fill, Sound, AllTallied, localVars
<1>1. held \in Nat /\ {left, filled} \subseteq [Orders -> Nat] /\ "oldBuy" \in Orders
      /\ {shares, baseline, recorded} \subseteq [Callers -> Nat]
      /\ \A d \in Callers : listed[d] \subseteq Nat
  BY <1>0 DEF TypeOK, Orders
<1>2. /\ o # "oldBuy" => held' = held - 1
      /\ o = "oldBuy" => held' = held + 1
  BY AccountAssumption DEF Fill, Orders, Sales
<1>3. held' \in Nat
  BY FillCovered DEF Sound
<1>4. Calm' => Calm /\ o # "oldBuy"
  BY <1>0, <1>1 DEF Calm
<1>5. Readings' = Readings /\ Readings \subseteq Nat
  <2>1. cache \subseteq Nat /\ \A d \in Callers : answer[d] \subseteq Nat
    BY <1>0 DEF TypeOK
  <2> QED  BY <1>0, <2>1 DEF Readings
<1>6. OneReading'
  BY <1>0 DEF OneReading
<1>7. ReadingsCover'
  BY <1>0, <1>1, <1>2, <1>3, <1>4, <1>5 DEF ReadingsCover
<1>8. ASSUME NEW d \in Callers
      PROVE  Tallied(d)'
  <2>0. Tallied(d) /\ d \in Orders
    BY DEF AllTallied, Orders, Sales
  <2>1. FoundCovers(d)'
    BY <1>0, <1>1, <1>2, <1>3, <1>4, <1>5, <2>0 DEF Tallied, FoundCovers
  <2>2. OldSaleOver(d)' /\ BaselineUnset(d)'
    BY <1>0, <1>1, <2>0 DEF Tallied, OldSaleOver, BaselineUnset, TypeOK
  <2>3. Alone(d)' => Alone(d) /\ o \in {d, "oldSell"}
    BY <1>0, <1>1, <2>0 DEF Alone
  <2>4. filled'[d] \in Nat /\ filled[d] \in Nat /\ filled'[d] >= filled[d]
    BY <1>0, <1>1, <2>0
  <2>5. GoneAreFilled(d)'
    <3> SUFFICES ASSUME placed[d] = 1, stage[d] # "none", Alone(d)'
                 PROVE  baseline[d] <= held' + filled'[d]
      BY <1>0 DEF GoneAreFilled
    <3>1. o = d
      BY <1>0, <2>0, <2>3 DEF Tallied, OldSaleOver
    <3>2. filled'[d] = filled[d] + 1 /\ held' = held - 1
      BY <1>0, <1>1, <1>2, <2>0, <3>1, AccountAssumption
    <3>3. baseline[d] <= held + filled[d]
      BY <2>0, <2>3 DEF Tallied, GoneAreFilled
    <3> QED  BY <1>1, <2>4, <3>2, <3>3
  <2>6. \A n \in listed'[d] : n <= filled'[d]
    BY <1>0, <1>1, <2>0, <2>4 DEF Tallied
  <2>7. Alone(d)' => recorded'[d] <= filled'[d]
    BY <1>0, <1>1, <2>0, <2>3, <2>4 DEF Tallied
  <2> QED  BY <2>1, <2>2, <2>5, <2>6, <2>7 DEF Tallied
<1> QED  BY <1>6, <1>7, <1>8 DEF AllTallied

LEMMA SurroundingsTallied ==
  ASSUME Sound, AllTallied,
         SnapshotAges \/ Revoke \/ (\E o \in Orders : ExchangeEnds(o)) \/ UNCHANGED vars
  PROVE  AllTallied'
<1>0. /\ TypeOK /\ OneReading /\ ReadingsCover
      /\ UNCHANGED <<stage, at, shares, baseline, listed, recorded, answer, lock>>
      /\ UNCHANGED <<placed, held, filled>> /\ cache' \in {cache, {}}
  BY DEF Sound, AllTallied, SnapshotAges, Revoke, ExchangeEnds, EndOrder, vars, localVars,
         brokerVars
<1>1. left["oldSell"] = 0 => left'["oldSell"] = 0
  <2>1. CASE SnapshotAges \/ Revoke \/ UNCHANGED vars
    BY <2>1 DEF SnapshotAges, Revoke, vars, brokerVars
  <2>2. ASSUME NEW o \in Orders, ExchangeEnds(o)
        PROVE  left["oldSell"] = 0 => left'["oldSell"] = 0
    BY <1>0, <2>2 DEF ExchangeEnds, EndOrder, TypeOK
  <2> QED  BY <2>1, <2>2
<1>2. /\ Readings' \subseteq Readings /\ Calm' = Calm
      /\ \A d \in Callers : Alone(d)' = Alone(d)
  BY <1>0 DEF Readings, Calm, Alone
<1>3. OneReading' /\ ReadingsCover'
  BY <1>0, <1>2 DEF OneReading, ReadingsCover
<1>4. ASSUME NEW d \in Callers
      PROVE  Tallied(d)'
  <2>1. Tallied(d)
    BY DEF AllTallied
  <2> QED  BY <1>0, <1>1, <1>2, <2>1
             DEF Tallied, FoundCovers, OldSaleOver, BaselineUnset, GoneAreFilled
<1> QED  BY <1>3, <1>4 DEF AllTallied

LEMMA TalliedStep ==
  ASSUME Sound, AllTallied, [Next]_vars
  PROVE  AllTallied'
<1>1. ASSUME NEW c \in Callers, Start(c) \/ Caller(c)
      PROVE  AllTallied'
  BY <1>1, PlainTallied, StartPlain, RequestPlain, LostPlain, ListPlain, CancelPlain, WaitedPlain,
     OrderTallied, ReadTallied, SnapshotTallied DEF Caller
<1>2. ASSUME NEW o \in Orders, Fill(o)
      PROVE  AllTallied'
  BY <1>2, FillTallied
<1>3. CASE SnapshotAges \/ Revoke \/ (\E o \in Orders : ExchangeEnds(o)) \/ UNCHANGED vars
  BY <1>3, SurroundingsTallied
<1> QED  BY <1>1, <1>2, <1>3 DEF Next

\* What confirm_and_record records as sold of a manual sale is no more than the broker has
\* sold of it, as long as neither a purchase nor another operation's sale moves the holding
\* (RecordedIsSold).
THEOREM RecordedWasSold == Spec => []RecordedIsSold
<1>1. Init => Sound /\ AllTallied
  BY SoundInit, TalliedInit
<1>2. Sound /\ AllTallied /\ [Next]_vars => (Sound /\ AllTallied)'
  BY SoundStep, TalliedStep
<1>3. AllTallied => RecordedIsSold
  BY DEF AllTallied, Tallied, Alone, RecordedIsSold
<1> QED  BY <1>1, <1>2, <1>3, PTL DEF Spec

=============================================================================
