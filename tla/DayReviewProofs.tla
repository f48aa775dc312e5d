--------------------------- MODULE DayReviewProofs ---------------------------
(***************************************************************************)
(* Theorems of DayReview for all checks, parameters, reviews and bounds:   *)
(* the table of rules is sound, what should be in force after the morning  *)
(* is, and a report by hand replaces the review only when it is forced to. *)
(* The table is cut to its best rules, so that the proof is about which    *)
(* positions a cut keeps: ranks are numbers of positions that go before.   *)
(* The second part is about the rows of the positions over a day,          *)
(* PositionDay.                                                            *)
(***************************************************************************)
EXTENDS DayReview, FiniteSetTheorems, SequenceTheorems, TLAPS

(***************************************************************************)
(* Ranks: how many elements of a finite set come before one.               *)
(***************************************************************************)

\* before[i] are the elements of S before i in a strict total order.
TotalOrder(S, before) ==
  /\ before \in [S -> SUBSET S]
  /\ \A i \in S : i \notin before[i]
  /\ \A i, k \in S : \/ i = k
                     \/ i \in before[k] /\ before[i] \subseteq before[k]
                     \/ k \in before[i] /\ before[k] \subseteq before[i]

LEMMA RankTyped ==
  ASSUME NEW S, IsFiniteSet(S), NEW before, TotalOrder(S, before), NEW i \in S
  PROVE  /\ IsFiniteSet(before[i]) /\ Cardinality(S) \in Nat
         /\ Cardinality(before[i]) \in 0 .. Cardinality(S) - 1
<1>1. before[i] \in SUBSET S /\ before[i] # S
  BY DEF TotalOrder
<1>2. IsFiniteSet(before[i]) /\ Cardinality(before[i]) <= Cardinality(S)
      /\ (Cardinality(S) = Cardinality(before[i]) => S = before[i])
  BY <1>1, FS_Subset
<1>3. Cardinality(S) \in Nat /\ Cardinality(before[i]) \in Nat
  BY <1>2, FS_CardinalityType
<1> QED  BY <1>1, <1>2, <1>3

LEMMA RankInjective ==
  ASSUME NEW S, IsFiniteSet(S), NEW before, TotalOrder(S, before),
         NEW i \in S, NEW k \in S, i # k
  PROVE  Cardinality(before[i]) # Cardinality(before[k])
<1>1. ASSUME NEW a \in S, NEW b \in S, a \in before[b], before[a] \subseteq before[b]
      PROVE  Cardinality(before[a]) # Cardinality(before[b])
  <2>1. before[a] # before[b]
    BY <1>1 DEF TotalOrder
  <2>2. IsFiniteSet(before[b])
    BY RankTyped
  <2> QED  BY <1>1, <2>1, <2>2, FS_Subset
<1> QED  BY <1>1 DEF TotalOrder

\* Every rank is taken.
LEMMA RankTaken ==
  ASSUME NEW S, IsFiniteSet(S), NEW before, TotalOrder(S, before),
         NEW n \in 0 .. Cardinality(S) - 1
  PROVE  \E i \in S : Cardinality(before[i]) = n
<1> DEFINE T == 0 .. Cardinality(S) - 1
           f == [i \in S |-> Cardinality(before[i])]
<1>1. Cardinality(S) \in Nat
  BY FS_CardinalityType
<1>2. IsFiniteSet(T) /\ Cardinality(T) = Cardinality(S)
  BY <1>1, FS_Interval
<1>3. f \in [S -> T]
  BY RankTyped
<1>4. \A i, k \in S : f[i] = f[k] => i = k
  BY RankInjective
<1>5. f \in Injection(S, T)
  BY <1>3, <1>4 DEF Injection, IsInjective
<1>6. f \in Surjection(S, T)
  BY <1>2, <1>5, FS_Injection
<1> QED  BY <1>6 DEF Surjection

\* No more than n elements have at least the rank Cardinality(S) - n.
LEMMA LastRanks ==
  ASSUME NEW S, IsFiniteSet(S), NEW before, TotalOrder(S, before), NEW n \in Nat,
         NEW last, last = {i \in S : Cardinality(before[i]) >= Cardinality(S) - n}
  PROVE  IsFiniteSet(last) /\ Cardinality(last) <= n
<1> DEFINE T == Cardinality(S) - n .. Cardinality(S) - 1
           f == [i \in last |-> Cardinality(before[i])]
<1>1. Cardinality(S) \in Nat
  BY FS_CardinalityType
<1>2. IsFiniteSet(T) /\ Cardinality(T) = n
  <2>1. Cardinality(S) - n \in Int /\ Cardinality(S) - 1 \in Int
    BY <1>1
  <2> QED  BY <1>1, <2>1, FS_Interval
<1>3. \A i \in last : Cardinality(before[i]) \in 0 .. Cardinality(S) - 1
  BY RankTyped
<1>4. f \in [last -> T]
  BY <1>1, <1>3
<1>5. \A i, k \in last : f[i] = f[k] => i = k
  BY RankInjective
<1>6. f \in Injection(last, T)
  BY <1>4, <1>5 DEF Injection, IsInjective
<1> QED  BY <1>2, <1>6, FS_Injection

\* Positions are ordered by <.
LEMMA PositionsOrdered ==
  ASSUME NEW keep \in SUBSET Nat
  PROVE  TotalOrder(keep, [i \in keep |-> {j \in keep : j < i}])
<1> DEFINE before == [i \in keep |-> {j \in keep : j < i}]
<1>1. before \in [keep -> SUBSET keep]
  OBVIOUS
<1>2. ASSUME NEW i \in keep, NEW k \in keep, i < k
      PROVE  i \in before[k] /\ before[i] \subseteq before[k]
  <2>1. before[i] = {j \in keep : j < i} /\ before[k] = {j \in keep : j < k}
    OBVIOUS
  <2>2. \A j \in keep : j < i => j < k
    BY <1>2
  <2> QED  BY <1>2, <2>1, <2>2
<1>3. \A i \in keep : i \notin before[i]
  OBVIOUS
<1>4. \A i, k \in keep : i = k \/ i < k \/ k < i
  OBVIOUS
<1> HIDE DEF before
<1>5. TotalOrder(keep, before)
  BY <1>1, <1>2, <1>3, <1>4 DEF TotalOrder
<1> QED  BY <1>5 DEF before

(***************************************************************************)
(* Sequences of rules.                                                     *)
(***************************************************************************)

\* Selected takes each position of keep once, and no other.
LEMMA SelectedTakes ==
  ASSUME NEW T, NEW rs \in Seq(T), NEW keep \in SUBSET DOMAIN rs
  PROVE  /\ IsFiniteSet(keep) /\ Cardinality(keep) \in Nat
         /\ Selected(rs, keep) \in Seq(T) /\ Len(Selected(rs, keep)) = Cardinality(keep)
         /\ \E from \in [1 .. Cardinality(keep) -> keep] :
              /\ \A n \in 1 .. Cardinality(keep) : Selected(rs, keep)[n] = rs[from[n]]
              /\ \A m, n \in 1 .. Cardinality(keep) : from[m] = from[n] => m = n
              /\ \A i \in keep : \E n \in 1 .. Cardinality(keep) : from[n] = i
<1> DEFINE before == [i \in keep |-> {j \in keep : j < i}]
           pos(n) == CHOOSE i \in keep : Cardinality({j \in keep : j < i}) = n - 1
           from == [n \in 1 .. Cardinality(keep) |-> pos(n)]
<1>1. keep \subseteq 1 .. Len(rs) /\ Len(rs) \in Nat
  BY LenProperties
<1>2. IsFiniteSet(keep) /\ Cardinality(keep) \in Nat
  <2>1. IsFiniteSet(1 .. Len(rs))
    BY <1>1, FS_Interval
  <2> QED  BY <1>1, <2>1, FS_Subset, FS_CardinalityType
<1>3. TotalOrder(keep, before)
  BY <1>1, PositionsOrdered
<1>4. ASSUME NEW n \in 1 .. Cardinality(keep)
      PROVE  pos(n) \in keep /\ Cardinality(before[pos(n)]) = n - 1
  <2>1. n - 1 \in 0 .. Cardinality(keep) - 1
    BY <1>2
  <2>2. \E i \in keep : Cardinality(before[i]) = n - 1
    <3> HIDE DEF before
    <3> QED  BY <1>2, <1>3, <2>1, RankTaken
  <2>3. \E i \in keep : Cardinality({j \in keep : j < i}) = n - 1
    BY <2>2
  <2>4. pos(n) \in keep /\ Cardinality({j \in keep : j < pos(n)}) = n - 1
    BY <2>3
  <2> QED  BY <2>4
<1>5. ASSUME NEW i \in keep PROVE \E n \in 1 .. Cardinality(keep) : from[n] = i
  <2>1. Cardinality(before[i]) \in 0 .. Cardinality(keep) - 1
    BY <1>2, <1>3, RankTyped
  <2>2. PICK n \in 1 .. Cardinality(keep) : Cardinality(before[i]) = n - 1
    <3> DEFINE rank == Cardinality(before[i])
    <3>1. rank \in 0 .. Cardinality(keep) - 1
      BY <2>1
    <3> HIDE DEF rank
    <3>2. rank + 1 \in 1 .. Cardinality(keep) /\ rank = (rank + 1) - 1
      BY <1>2, <3>1
    <3> QED  BY <3>2 DEF rank
  <2>3. Cardinality(before[pos(n)]) = Cardinality(before[i]) /\ pos(n) \in keep
    BY <1>4, <2>2
  <2>4. pos(n) = i
    BY <1>2, <1>3, <2>3, RankInjective
  <2> QED  BY <2>4
<1>6. from \in [1 .. Cardinality(keep) -> keep]
  BY <1>4
<1>7. \A m, n \in 1 .. Cardinality(keep) : from[m] = from[n] => m = n
  <2> SUFFICES ASSUME NEW m \in 1 .. Cardinality(keep), NEW n \in 1 .. Cardinality(keep),
                      pos(m) = pos(n)
               PROVE  m = n
    OBVIOUS
  <2>1. m - 1 = n - 1
    BY <1>4
  <2> QED  BY <1>2, <2>1
<1>8. Selected(rs, keep) = [n \in 1 .. Cardinality(keep) |-> rs[from[n]]]
  BY DEF Selected
<1>9. \A n \in 1 .. Cardinality(keep) : rs[from[n]] \in T
  BY <1>1, <1>6, ElementOfSeq
<1>10. Selected(rs, keep) \in Seq(T) /\ Len(Selected(rs, keep)) = Cardinality(keep)
  <2> DEFINE card == Cardinality(keep)
             s == [n \in 1 .. card |-> rs[from[n]]]
  <2>1. card \in Nat /\ \A n \in 1 .. card : rs[from[n]] \in T
    BY <1>2, <1>9
  <2> HIDE DEF card, from
  <2>2. s \in Seq(T) /\ Len(s) = card
    BY <2>1
  <2> QED  BY <1>8, <2>2 DEF card
<1>11. \A n \in 1 .. Cardinality(keep) : Selected(rs, keep)[n] = rs[from[n]]
  BY <1>8
<1> HIDE DEF before, pos, from
<1> QED  BY <1>2, <1>5, <1>6, <1>7, <1>10, <1>11

(***************************************************************************)
(* The table of rules.                                                     *)
(***************************************************************************)

\* Bootstrap rules switch on a check; each source has one rule of a key.
Clean(rs) ==
  /\ rs \in Seq(Rules)
  /\ \A i \in DOMAIN rs : rs[i].src = "bootstrap" => rs[i].key \in Checks /\ rs[i].kind = "toggle"
  /\ \A i, j \in DOMAIN rs : rs[i].src = rs[j].src /\ rs[i].key = rs[j].key => i = j

OfReviews(rs) == {i \in DOMAIN rs : rs[i].src = "review"}

\* The cap holds for the rules of the reviews.
Capped(rs) == Cardinality(OfReviews(rs)) <= MaxActive

\* The rules that are to be added are not there.
Missing(rs, absent) == \A i \in DOMAIN rs : rs[i].src = "bootstrap" => rs[i].key \notin absent

\* A part of a clean table is clean, and within the cap if the table is.
LEMMA SelectedClean ==
  ASSUME NEW rs, Clean(rs), NEW keep \in SUBSET DOMAIN rs
  PROVE  /\ Clean(Selected(rs, keep))
         /\ Capped(rs) => Capped(Selected(rs, keep))
         /\ \A absent : Missing(rs, absent) => Missing(Selected(rs, keep), absent)
<1> DEFINE sel == Selected(rs, keep)
<1>1. rs \in Seq(Rules)
  BY DEF Clean
<1>2. Cardinality(keep) \in Nat /\ sel \in Seq(Rules) /\ Len(sel) = Cardinality(keep)
  BY <1>1, SelectedTakes
<1>3. PICK from \in [1 .. Cardinality(keep) -> keep] :
        /\ \A n \in 1 .. Cardinality(keep) : sel[n] = rs[from[n]]
        /\ \A m, n \in 1 .. Cardinality(keep) : from[m] = from[n] => m = n
  BY <1>1, SelectedTakes
<1> HIDE DEF sel
<1>4. DOMAIN sel = 1 .. Cardinality(keep)
  BY <1>2, LenProperties
<1>5. Clean(sel)
  BY <1>2, <1>3, <1>4 DEF Clean
<1>6. \A absent : Missing(rs, absent) => Missing(sel, absent)
  BY <1>3, <1>4 DEF Missing
<1>7. Capped(rs) => Capped(sel)
  <2> DEFINE f == [n \in OfReviews(sel) |-> from[n]]
  <2>1. IsFiniteSet(DOMAIN rs)
    BY <1>1, LenProperties, FS_Interval
  <2>2. OfReviews(rs) \in SUBSET DOMAIN rs /\ OfReviews(sel) \in SUBSET DOMAIN sel
    BY DEF OfReviews
  <2>3. IsFiniteSet(OfReviews(rs)) /\ Cardinality(OfReviews(rs)) \in Nat
    BY <2>1, <2>2, FS_Subset, FS_CardinalityType
  <2>4. f \in [OfReviews(sel) -> OfReviews(rs)]
    BY <1>3, <1>4, <2>2 DEF OfReviews
  <2>5. f \in Injection(OfReviews(sel), OfReviews(rs))
    BY <1>3, <1>4, <2>2, <2>4 DEF Injection, IsInjective
  <2>6. IsFiniteSet(OfReviews(sel)) /\ Cardinality(OfReviews(sel)) <= Cardinality(OfReviews(rs))
    BY <2>3, <2>5, FS_Injection
  <2>7. Cardinality(OfReviews(sel)) \in Nat
    BY <2>6, FS_CardinalityType
  <2> QED  BY <2>3, <2>6, <2>7, ReviewAssumption DEF Capped
<1> QED  BY <1>5, <1>6, <1>7 DEF sel

\* The elements of a part are elements of the whole; all of the positions kept
\* are there.
LEMMA SelectedRange ==
  ASSUME NEW T, NEW rs \in Seq(T), NEW keep \in SUBSET DOMAIN rs
  PROVE  /\ \A n \in DOMAIN Selected(rs, keep) : \E i \in keep : Selected(rs, keep)[n] = rs[i]
         /\ \A i \in keep : \E n \in DOMAIN Selected(rs, keep) : Selected(rs, keep)[n] = rs[i]
<1>1. Selected(rs, keep) \in Seq(T) /\ Len(Selected(rs, keep)) = Cardinality(keep)
  BY SelectedTakes
<1>2. \E from \in [1 .. Cardinality(keep) -> keep] :
        /\ \A n \in 1 .. Cardinality(keep) : Selected(rs, keep)[n] = rs[from[n]]
        /\ \A m, n \in 1 .. Cardinality(keep) : from[m] = from[n] => m = n
        /\ \A i \in keep : \E n \in 1 .. Cardinality(keep) : from[n] = i
  BY SelectedTakes
<1>3. PICK sel : sel = Selected(rs, keep)
  OBVIOUS
<1>4. DOMAIN sel = 1 .. Cardinality(keep)
  BY <1>1, <1>3, LenProperties
<1>5. PICK from \in [1 .. Cardinality(keep) -> keep] :
        /\ \A n \in 1 .. Cardinality(keep) : sel[n] = rs[from[n]]
        /\ \A i \in keep : \E n \in 1 .. Cardinality(keep) : from[n] = i
  BY <1>2, <1>3, Zenon
<1>6. \A n \in DOMAIN sel : \E i \in keep : sel[n] = rs[i]
  BY <1>4, <1>5
<1>7. ASSUME NEW i \in keep
      PROVE  \E n \in DOMAIN sel : sel[n] = rs[i]
  <2>1. PICK n \in 1 .. Cardinality(keep) : from[n] = i
    BY <1>5
  <2>2. n \in DOMAIN sel /\ sel[n] = rs[i]
    BY <1>4, <1>5, <2>1
  <2> QED  BY <2>2
<1> QED  BY <1>3, <1>6, <1>7

\* A clean table within the cap has at most the cap's rules and one per check.
LEMMA TableBounded ==
  ASSUME NEW rs, Clean(rs), Capped(rs)
  PROVE  Len(rs) <= MaxActive + Cardinality(Checks)
<1> DEFINE A == OfReviews(rs)
           B == {i \in DOMAIN rs : rs[i].src = "bootstrap"}
           f == [i \in B |-> rs[i].key]
<1>1. rs \in Seq(Rules) /\ DOMAIN rs = 1 .. Len(rs) /\ Len(rs) \in Nat
  BY LenProperties DEF Clean
<1>2. IsFiniteSet(DOMAIN rs) /\ Cardinality(DOMAIN rs) = Len(rs)
  BY <1>1, FS_Interval
<1>3. A \in SUBSET DOMAIN rs /\ B \in SUBSET DOMAIN rs
  BY DEF OfReviews
<1>4. IsFiniteSet(A) /\ IsFiniteSet(B)
  BY <1>2, <1>3, FS_Subset
<1>5. \A i \in DOMAIN rs : rs[i].src \in {"review", "bootstrap"}
  <2> SUFFICES ASSUME NEW i \in DOMAIN rs PROVE rs[i].src \in {"review", "bootstrap"}
    OBVIOUS
  <2>1. rs[i] \in Rules
    BY <1>1, ElementOfSeq
  <2> QED  BY <2>1 DEF Rules
<1>6. DOMAIN rs = A \cup B
  BY <1>5 DEF OfReviews
<1>7. Cardinality(DOMAIN rs) = Cardinality(A) + Cardinality(B) - Cardinality(A \cap B)
  BY <1>4, <1>6, FS_Union
<1>8. IsFiniteSet(Checks)
  BY ReviewAssumption, FS_Subset DEF Keys
<1>9. Cardinality(B) <= Cardinality(Checks)
  <2>1. f \in [B -> Checks]
    BY DEF Clean
  <2>2. f \in Injection(B, Checks)
    BY <2>1 DEF Clean, Injection, IsInjective
  <2> QED  BY <1>8, <2>2, FS_Injection
<1>10. Cardinality(A \cap B) \in Nat /\ Cardinality(A) \in Nat /\ Cardinality(B) \in Nat
       /\ Cardinality(Checks) \in Nat
  <2>1. IsFiniteSet(A \cap B)
    BY <1>4, FS_Subset
  <2> QED  BY <1>4, <1>8, <2>1, FS_CardinalityType
<1>11. Cardinality(A) <= MaxActive
  BY DEF Capped
<1> HIDE DEF A, B
<1> QED  BY <1>1, <1>2, <1>7, <1>9, <1>10, <1>11, ReviewAssumption

\* What is done to the table.

LEMMA LeftLater ==
  ASSUME NEW left \in -1 .. Long, NEW d \in Nat
  PROVE  Max({left - d, -1}) \in -1 .. Long
<1> DEFINE l == left - d
<1>1. l \in Int /\ l <= Long /\ Long \in Nat
  BY DEF Long
<1> HIDE DEF l
<1>2. \E m \in {l, -1} : \A n \in {l, -1} : m >= n
  BY <1>1
<1>3. Max({l, -1}) \in {l, -1} /\ Max({l, -1}) >= -1
  BY <1>2 DEF Max
<1>4. Max({l, -1}) \in -1 .. Long
  BY <1>1, <1>3
<1> QED  BY <1>4 DEF l

LEMMA LaterTyped ==
  ASSUME NEW rs \in Seq(Rules), NEW d \in Nat
  PROVE  /\ LaterAll(rs, d) \in Seq(Rules) /\ DOMAIN LaterAll(rs, d) = DOMAIN rs
         /\ \A i \in DOMAIN rs : /\ LaterAll(rs, d)[i].src = rs[i].src
                                 /\ LaterAll(rs, d)[i].key = rs[i].key
                                 /\ LaterAll(rs, d)[i].kind = rs[i].kind
<1> DEFINE later == LaterAll(rs, d)
<1>1. DOMAIN rs = 1 .. Len(rs) /\ Len(rs) \in Nat
  BY LenProperties
<1>2. ASSUME NEW i \in DOMAIN rs
      PROVE  /\ later[i] \in Rules /\ later[i].src = rs[i].src /\ later[i].key = rs[i].key
             /\ later[i].kind = rs[i].kind
  <2>1. rs[i] \in Rules /\ later[i] = Later(rs[i], d)
    BY <1>1, ElementOfSeq DEF LaterAll
  <2>2. rs[i].left \in -1 .. Long
    BY <2>1 DEF Rules
  <2>3. Max({rs[i].left - d, -1}) \in -1 .. Long
    BY <2>2, LeftLater
  <2> QED  BY <2>1, <2>3 DEF Later, Rules
<1>3. later = [i \in 1 .. Len(rs) |-> Later(rs[i], d)]
  BY <1>1 DEF LaterAll
<1>4. later \in Seq(Rules) /\ DOMAIN later = DOMAIN rs
  <2>1. \A i \in 1 .. Len(rs) : Later(rs[i], d) \in Rules
    BY <1>1, <1>2, <1>3
  <2> QED  BY <1>1, <1>3, <2>1
<1> QED  BY <1>2, <1>4

LEMMA LaterClean ==
  ASSUME NEW rs, Clean(rs), NEW d \in Nat
  PROVE  /\ Clean(LaterAll(rs, d))
         /\ Capped(rs) => Capped(LaterAll(rs, d))
<1> DEFINE later == LaterAll(rs, d)
<1>1. /\ later \in Seq(Rules) /\ DOMAIN later = DOMAIN rs
      /\ \A i \in DOMAIN rs : /\ later[i].src = rs[i].src /\ later[i].key = rs[i].key
                              /\ later[i].kind = rs[i].kind
  BY LaterTyped DEF Clean
<1> HIDE DEF later
<1>2. Clean(later)
  BY <1>1 DEF Clean
<1>3. OfReviews(later) = OfReviews(rs)
  BY <1>1 DEF OfReviews
<1> QED  BY <1>2, <1>3 DEF Capped, later

LEMMA JoinedClean ==
  ASSUME NEW rs, Clean(rs), NEW added, Clean(added),
         \A i \in DOMAIN rs : \A j \in DOMAIN added :
           ~(rs[i].src = added[j].src /\ rs[i].key = added[j].key)
  PROVE  /\ Clean(rs \o added)
         /\ \A i \in DOMAIN (rs \o added) :
              \/ \E j \in DOMAIN rs : (rs \o added)[i] = rs[j]
              \/ \E j \in DOMAIN added : (rs \o added)[i] = added[j]
<1> DEFINE both == rs \o added
<1>1. /\ rs \in Seq(Rules) /\ DOMAIN rs = 1 .. Len(rs) /\ Len(rs) \in Nat
      /\ added \in Seq(Rules) /\ DOMAIN added = 1 .. Len(added) /\ Len(added) \in Nat
  BY LenProperties DEF Clean
<1>2. /\ both \in Seq(Rules) /\ Len(both) = Len(rs) + Len(added)
      /\ \A i \in 1 .. Len(rs) + Len(added) :
           both[i] = IF i <= Len(rs) THEN rs[i] ELSE added[i - Len(rs)]
  BY <1>1, ConcatProperties
<1> HIDE DEF both
<1>3. DOMAIN both = 1 .. Len(rs) + Len(added)
  BY <1>2, LenProperties
<1>4. ASSUME NEW i \in DOMAIN both
      PROVE  \/ i \in DOMAIN rs /\ both[i] = rs[i]
             \/ i - Len(rs) \in DOMAIN added /\ both[i] = added[i - Len(rs)]
  BY <1>1, <1>2, <1>3
<1>5. \A i \in DOMAIN both :
        both[i].src = "bootstrap" => both[i].key \in Checks /\ both[i].kind = "toggle"
  BY <1>4 DEF Clean
<1>6. ASSUME NEW i \in DOMAIN both, NEW j \in DOMAIN both,
             both[i].src = both[j].src, both[i].key = both[j].key
      PROVE  i = j
  <2>1. CASE i \in DOMAIN rs /\ both[i] = rs[i] /\ j \in DOMAIN rs /\ both[j] = rs[j]
    BY <1>6, <2>1 DEF Clean
  <2>2. CASE /\ i - Len(rs) \in DOMAIN added /\ both[i] = added[i - Len(rs)]
             /\ j - Len(rs) \in DOMAIN added /\ both[j] = added[j - Len(rs)]
    <3>1. i - Len(rs) = j - Len(rs)
      BY <1>6, <2>2 DEF Clean
    <3> QED  BY <1>1, <1>3, <3>1
  <2>3. CASE /\ i \in DOMAIN rs /\ both[i] = rs[i]
             /\ j - Len(rs) \in DOMAIN added /\ both[j] = added[j - Len(rs)]
    BY <1>6, <2>3
  <2>4. CASE /\ j \in DOMAIN rs /\ both[j] = rs[j]
             /\ i - Len(rs) \in DOMAIN added /\ both[i] = added[i - Len(rs)]
    BY <1>6, <2>4
  <2> QED  BY <1>4, <2>1, <2>2, <2>3, <2>4
<1>7. Clean(both)
  BY <1>2, <1>5, <1>6 DEF Clean
<1>8. \A i \in DOMAIN both : \/ \E j \in DOMAIN rs : both[i] = rs[j]
                             \/ \E j \in DOMAIN added : both[i] = added[j]
  BY <1>4
<1> QED  BY <1>7, <1>8 DEF both

LEMMA SetToSeqTakes ==
  ASSUME NEW S, IsFiniteSet(S)
  PROVE  /\ Cardinality(S) \in Nat
         /\ SetToSeq(S) \in [1 .. Cardinality(S) -> S]
         /\ \A i, j \in 1 .. Cardinality(S) : SetToSeq(S)[i] = SetToSeq(S)[j] => i = j
<1>1. Cardinality(S) \in Nat /\ ExistsBijection(1 .. Cardinality(S), S)
  BY FS_CardinalityType
<1>2. \E f \in [1 .. Cardinality(S) -> S] : IsInjective(f)
  BY <1>1 DEF ExistsBijection, Bijection, Injection, Surjection
<1>3. SetToSeq(S) \in [1 .. Cardinality(S) -> S] /\ IsInjective(SetToSeq(S))
  BY <1>2 DEF SetToSeq
<1> QED  BY <1>1, <1>3 DEF IsInjective

LEMMA BootstrapClean ==
  ASSUME NEW rs, Clean(rs), NEW absent \in SUBSET Checks, Missing(rs, absent)
  PROVE  /\ Clean(WithBootstrap(rs, absent))
         /\ Capped(rs) => Capped(WithBootstrap(rs, absent))
<1> DEFINE S == {Bootstrap(k) : k \in absent}
           added == SetToSeq(S)
<1>1. IsFiniteSet(S)
  <2> DEFINE f == [k \in absent |-> Bootstrap(k)]
  <2>1. IsFiniteSet(absent)
    BY ReviewAssumption, FS_Subset DEF Keys
  <2>2. f \in Surjection(absent, S)
    BY DEF Surjection
  <2> QED  BY <2>1, <2>2, FS_Surjection
<1>2. \A r \in S : r \in Rules /\ r.src = "bootstrap" /\ r.kind = "toggle" /\ r.key \in absent
                   /\ r = Bootstrap(r.key)
  BY DEF Bootstrap, Rules, Long, Keys, Priorities
<1> HIDE DEF S
<1>3. /\ Cardinality(S) \in Nat /\ added \in [1 .. Cardinality(S) -> S]
      /\ \A i, j \in 1 .. Cardinality(S) : added[i] = added[j] => i = j
  BY <1>1, SetToSeqTakes
<1> HIDE DEF added
<1>4. added \in Seq(Rules) /\ DOMAIN added = 1 .. Cardinality(S)
  <2>1. added \in [1 .. Cardinality(S) -> Rules]
    BY <1>2, <1>3
  <2> QED  BY <1>3, <2>1
<1>5. Clean(added)
  BY <1>2, <1>3, <1>4 DEF Clean
<1>6. \A i \in DOMAIN rs : \A j \in DOMAIN added :
        ~(rs[i].src = added[j].src /\ rs[i].key = added[j].key)
  BY <1>2, <1>3, <1>4 DEF Missing
<1>7. Clean(rs \o added)
  BY <1>5, <1>6, JoinedClean
<1>8. OfReviews(rs \o added) = OfReviews(rs)
  <2>1. rs \in Seq(Rules) /\ DOMAIN rs = 1 .. Len(rs) /\ Len(rs) \in Nat
        /\ Len(added) = Cardinality(S)
    BY <1>3, <1>4, LenProperties DEF Clean
  <2>2. /\ DOMAIN (rs \o added) = 1 .. Len(rs) + Len(added)
        /\ \A i \in 1 .. Len(rs) + Len(added) :
             (rs \o added)[i] = IF i <= Len(rs) THEN rs[i] ELSE added[i - Len(rs)]
    <3>1. rs \o added \in Seq(Rules) /\ Len(rs \o added) = Len(rs) + Len(added)
      BY <1>4, <2>1, ConcatProperties
    <3> QED  BY <1>4, <2>1, <3>1, ConcatProperties, LenProperties
  <2>3. \A j \in DOMAIN added : added[j].src = "bootstrap"
    BY <1>2, <1>3, <1>4
  <2>4. \A i \in 1 .. Len(rs) + Len(added) : i > Len(rs) => i - Len(rs) \in DOMAIN added
    BY <1>3, <1>4, <2>1
  <2>5. DOMAIN rs \subseteq DOMAIN (rs \o added)
    BY <1>3, <2>1, <2>2
  <2>6. \A i \in DOMAIN (rs \o added) :
          (rs \o added)[i].src = "review" <=> i \in DOMAIN rs /\ rs[i].src = "review"
    <3> SUFFICES ASSUME NEW i \in 1 .. Len(rs) + Len(added)
                 PROVE  (rs \o added)[i].src = "review"
                          <=> i \in DOMAIN rs /\ rs[i].src = "review"
      BY <2>2
    <3>1. CASE i <= Len(rs)
      BY <2>1, <2>2, <3>1
    <3>2. CASE i > Len(rs)
      BY <1>3, <2>1, <2>2, <2>3, <2>4, <3>2
    <3> QED  BY <1>3, <2>1, <3>1, <3>2
  <2> QED  BY <2>5, <2>6 DEF OfReviews
<1> QED  BY <1>7, <1>8 DEF WithBootstrap, Capped, added, S

\* Rules of the reviews with different keys.
LEMMA DistinctClean ==
  ASSUME NEW made \in Seq(Rules), NEW keep \in SUBSET DOMAIN made,
         \A i \in keep : made[i].src = "review",
         \A i, j \in keep : made[i].key = made[j].key => i = j
  PROVE  Clean(Selected(made, keep))
<1> DEFINE sel == Selected(made, keep)
<1>1. Cardinality(keep) \in Nat /\ sel \in Seq(Rules) /\ Len(sel) = Cardinality(keep)
  BY SelectedTakes
<1>2. PICK from \in [1 .. Cardinality(keep) -> keep] :
        /\ \A n \in 1 .. Cardinality(keep) : sel[n] = made[from[n]]
        /\ \A m, n \in 1 .. Cardinality(keep) : from[m] = from[n] => m = n
  BY SelectedTakes
<1> HIDE DEF sel
<1>3. DOMAIN sel = 1 .. Cardinality(keep)
  BY <1>1, LenProperties
<1>4. \A n \in DOMAIN sel : from[n] \in keep /\ sel[n] = made[from[n]]
  BY <1>2, <1>3
<1>5. \A m, n \in DOMAIN sel : sel[m].key = sel[n].key => m = n
  BY <1>2, <1>3, <1>4
<1>6. Clean(sel)
  BY <1>1, <1>4, <1>5 DEF Clean
<1> QED  BY <1>6 DEF sel

\* The last item of a key is the only one that is kept.
LEMMA LastOfKeyOnly ==
  ASSUME NEW items \in Seq(Items)
  PROVE  /\ LastOfKey(items) \in SUBSET DOMAIN items
         /\ \A i, j \in LastOfKey(items) : items[i].key = items[j].key => i = j
<1>1. DOMAIN items \subseteq Nat
  BY LenProperties
<1>2. LastOfKey(items) \in SUBSET DOMAIN items
  BY DEF LastOfKey
<1>3. \A i, j \in LastOfKey(items) : items[i].key = items[j].key => ~(i < j) /\ ~(j < i)
  BY DEF LastOfKey
<1>4. LastOfKey(items) \subseteq Nat
  BY <1>1, <1>2
<1> QED  BY <1>2, <1>3, <1>4

\* What a review makes of its items: rules of the reviews, one for a key.
LEMMA MadeClean ==
  ASSUME NEW items \in Seq(Items)
  PROVE  /\ Clean(Selected(Made(items), LastOfKey(items)))
         /\ \A n \in DOMAIN Selected(Made(items), LastOfKey(items)) :
              \E i \in DOMAIN items :
                Selected(Made(items), LastOfKey(items))[n] = RuleOf(items[i])
<1> DEFINE made == Made(items)
<1>1. DOMAIN items = 1 .. Len(items) /\ Len(items) \in Nat
  BY LenProperties
<1>2. ASSUME NEW i \in DOMAIN items
      PROVE  /\ RuleOf(items[i]) \in Rules /\ RuleOf(items[i]).src = "review"
             /\ RuleOf(items[i]).key = items[i].key
  <2>1. items[i] \in Items
    BY <1>1, ElementOfSeq
  <2> QED  BY <2>1 DEF RuleOf, Items, Rules, Long
<1>3. made \in Seq(Rules) /\ DOMAIN made = DOMAIN items
      /\ \A i \in DOMAIN items : made[i] = RuleOf(items[i])
  <2>1. made = [i \in 1 .. Len(items) |-> RuleOf(items[i])]
    BY <1>1 DEF Made
  <2>2. \A i \in 1 .. Len(items) : RuleOf(items[i]) \in Rules
    BY <1>1, <1>2
  <2> QED  BY <1>1, <2>1, <2>2
<1>4. \A i \in DOMAIN items : made[i].src = "review" /\ made[i].key = items[i].key
  BY <1>2, <1>3
<1>5. /\ LastOfKey(items) \in SUBSET DOMAIN made
      /\ \A i \in LastOfKey(items) : made[i].src = "review"
      /\ \A i, j \in LastOfKey(items) : made[i].key = made[j].key => i = j
  <2>1. LastOfKey(items) \subseteq DOMAIN items
    BY LastOfKeyOnly
  <2> QED  BY <1>3, <1>4, <2>1, LastOfKeyOnly
<1> HIDE DEF made
<1>6. Clean(Selected(made, LastOfKey(items)))
  BY <1>3, <1>5, DistinctClean
<1>7. \A n \in DOMAIN Selected(made, LastOfKey(items)) :
        \E i \in LastOfKey(items) : Selected(made, LastOfKey(items))[n] = made[i]
  BY <1>3, <1>5, SelectedRange
<1> QED  BY <1>3, <1>5, <1>6, <1>7 DEF made

\* Deactivate and add: the table stays clean and grows by the review's rules.
LEMMA AddedClean ==
  ASSUME NEW rs, Clean(rs), NEW items \in Seq(Items)
  PROVE  /\ Clean(Added(rs, items))
         /\ \A n \in DOMAIN Added(rs, items) :
              \/ \E i \in DOMAIN rs : Added(rs, items)[n] = rs[i]
              \/ \E j \in DOMAIN items : Added(rs, items)[n] = RuleOf(items[j])
<1> DEFINE kept == {i \in DOMAIN rs : \A j \in DOMAIN items : items[j].key # rs[i].key}
           others == Selected(rs, kept)
           new == Selected(Made(items), LastOfKey(items))
<1>0. rs \in Seq(Rules) /\ kept \in SUBSET DOMAIN rs
      /\ \A i \in kept : i \in DOMAIN rs /\ \A j \in DOMAIN items : items[j].key # rs[i].key
  BY DEF Clean
<1> HIDE DEF kept
<1>1. Clean(others)
  BY <1>0, SelectedClean
<1>2. \A n \in DOMAIN others : \E i \in kept : others[n] = rs[i]
  BY <1>0, SelectedRange
<1>3. Clean(new) /\ \A n \in DOMAIN new : \E i \in DOMAIN items : new[n] = RuleOf(items[i])
  BY MadeClean
<1>4. Added(rs, items) = others \o new
  BY DEF Added, Others, kept
<1>5. \A i \in DOMAIN items : RuleOf(items[i]).key = items[i].key
  BY DEF RuleOf
<1> HIDE DEF others, new
<1>6. \A i \in DOMAIN others : \A j \in DOMAIN new : others[i].key # new[j].key
  BY <1>0, <1>2, <1>3, <1>5
<1>7. /\ Clean(others \o new)
      /\ \A i \in DOMAIN (others \o new) :
           \/ \E j \in DOMAIN others : (others \o new)[i] = others[j]
           \/ \E j \in DOMAIN new : (others \o new)[i] = new[j]
  BY <1>1, <1>3, <1>6, JoinedClean
<1> QED  BY <1>0, <1>2, <1>3, <1>4, <1>7

\* The order in which the cap drops rules is total.
LEMMA DropsOrdered ==
  ASSUME NEW rs \in Seq(Rules)
  PROVE  TotalOrder(DOMAIN rs, [i \in DOMAIN rs |-> {j \in DOMAIN rs : GoesBefore(rs, j, i)}])
<1> DEFINE D == DOMAIN rs
           before == [i \in D |-> {j \in D : GoesBefore(rs, j, i)}]
<1>1. D = 1 .. Len(rs) /\ Len(rs) \in Nat
  BY LenProperties
<1>2. \A i \in D : rs[i].prio \in Priorities
  <2> SUFFICES ASSUME NEW i \in D PROVE rs[i].prio \in Priorities
    OBVIOUS
  <2>1. rs[i] \in Rules
    BY <1>1, ElementOfSeq
  <2> QED  BY <2>1 DEF Rules
<1>3. \A p, q \in Priorities : Rank(p) \in Nat /\ (Rank(p) = Rank(q) => p = q)
  BY DEF Rank, Priorities
<1>4. \A i, j \in D : GoesBefore(rs, i, j)
        <=> \/ Rank(rs[i].prio) < Rank(rs[j].prio)
            \/ Rank(rs[i].prio) = Rank(rs[j].prio) /\ i < j
  BY <1>2, <1>3 DEF GoesBefore
<1>5. \A i \in D : Rank(rs[i].prio) \in Nat
  BY <1>2, <1>3
<1>6. \A i \in D : ~GoesBefore(rs, i, i)
  BY <1>1, <1>4, <1>5
<1>7. \A i, j \in D : i = j \/ GoesBefore(rs, i, j) \/ GoesBefore(rs, j, i)
  BY <1>1, <1>4, <1>5
<1>8. \A i, j, k \in D : GoesBefore(rs, i, j) /\ GoesBefore(rs, j, k) => GoesBefore(rs, i, k)
  BY <1>1, <1>4, <1>5
<1>9. /\ before \in [D -> SUBSET D]
      /\ \A i \in D : before[i] = {j \in D : GoesBefore(rs, j, i)}
  OBVIOUS
<1> HIDE DEF before, D
<1>10. TotalOrder(D, before)
  BY <1>6, <1>7, <1>8, <1>9 DEF TotalOrder
<1> QED  BY <1>10 DEF before, D

\* The cap leaves at most MaxActive rules.
LEMMA TrimmedClean ==
  ASSUME NEW rs, Clean(rs)
  PROVE  /\ Clean(Trimmed(rs)) /\ Capped(Trimmed(rs))
         /\ \A n \in DOMAIN Trimmed(rs) : \E i \in DOMAIN rs : Trimmed(rs)[n] = rs[i]
<1> DEFINE D == DOMAIN rs
           before == [i \in D |-> {j \in D : GoesBefore(rs, j, i)}]
           keep == {i \in D : Cardinality({j \in D : GoesBefore(rs, j, i)})
                                >= Len(rs) - MaxActive}
<1>1. rs \in Seq(Rules) /\ D = 1 .. Len(rs) /\ Len(rs) \in Nat
  BY LenProperties DEF Clean
<1>2. IsFiniteSet(D) /\ Cardinality(D) = Len(rs)
  BY <1>1, FS_Interval
<1>3. Trimmed(rs) = Selected(rs, keep)
  BY DEF Trimmed
<1>4. keep = {i \in D : Cardinality(before[i]) >= Cardinality(D) - MaxActive}
  BY <1>2
<1>5. TotalOrder(D, before)
  BY <1>1, DropsOrdered
<1>6. keep \in SUBSET D
  OBVIOUS
<1> HIDE DEF before, keep
<1>7. IsFiniteSet(keep) /\ Cardinality(keep) <= MaxActive
  BY <1>2, <1>4, <1>5, LastRanks, ReviewAssumption
<1>8. /\ Clean(Selected(rs, keep)) /\ Selected(rs, keep) \in Seq(Rules)
      /\ Len(Selected(rs, keep)) = Cardinality(keep)
      /\ \A n \in DOMAIN Selected(rs, keep) : \E i \in keep : Selected(rs, keep)[n] = rs[i]
  BY <1>1, <1>6, SelectedClean, SelectedTakes, SelectedRange
<1>9. Capped(Selected(rs, keep))
  <2> DEFINE A == OfReviews(Selected(rs, keep))
             C == DOMAIN Selected(rs, keep)
  <2>1. Cardinality(keep) \in Nat /\ C = 1 .. Cardinality(keep)
    BY <1>7, <1>8, FS_CardinalityType, LenProperties
  <2>2. IsFiniteSet(C) /\ Cardinality(C) = Cardinality(keep)
    BY <2>1, FS_Interval
  <2>3. A \in SUBSET C
    BY DEF OfReviews
  <2>4. IsFiniteSet(A) /\ Cardinality(A) <= Cardinality(C)
    BY <2>2, <2>3, FS_Subset
  <2>5. Cardinality(A) \in Nat
    BY <2>4, FS_CardinalityType
  <2> HIDE DEF A, C
  <2>6. Cardinality(A) <= MaxActive
    BY <1>7, <2>1, <2>2, <2>4, <2>5, ReviewAssumption
  <2> QED  BY <2>6 DEF Capped, A
<1> QED  BY <1>3, <1>6, <1>8, <1>9

LEMMA GeneratedClean ==
  ASSUME NEW rs, Clean(rs), Capped(rs), NEW items \in Seq(Items)
  PROVE  /\ Clean(Generated(rs, items)) /\ Capped(Generated(rs, items))
         /\ \A n \in DOMAIN Generated(rs, items) :
              \/ \E i \in DOMAIN rs : Generated(rs, items)[n] = rs[i]
              \/ \E j \in DOMAIN items : Generated(rs, items)[n] = RuleOf(items[j])
<1>1. CASE items = <<>>
  BY <1>1 DEF Generated
<1>2. CASE items # <<>>
  <2> DEFINE added == Added(rs, items)
  <2>1. /\ Clean(added)
        /\ \A n \in DOMAIN added : \/ \E i \in DOMAIN rs : added[n] = rs[i]
                                   \/ \E j \in DOMAIN items : added[n] = RuleOf(items[j])
    BY AddedClean
  <2>2. Generated(rs, items) = Trimmed(added)
    BY <1>2 DEF Generated
  <2> HIDE DEF added
  <2>3. /\ Clean(Trimmed(added)) /\ Capped(Trimmed(added))
        /\ \A n \in DOMAIN Trimmed(added) : \E i \in DOMAIN added : Trimmed(added)[n] = added[i]
    BY <2>1, TrimmedClean
  <2> QED  BY <2>1, <2>2, <2>3
<1> QED  BY <1>1, <1>2

\* The rules that have not expired, and no others.
LEMMA UnexpiredClean ==
  ASSUME NEW rs, Clean(rs)
  PROVE  /\ Clean(Unexpired(rs)) /\ (Capped(rs) => Capped(Unexpired(rs)))
         /\ \A n \in DOMAIN Unexpired(rs) : \E i \in DOMAIN rs : Unexpired(rs)[n] = rs[i]
         /\ \A i \in DOMAIN rs : Valid(rs[i]) => rs[i] \in Range(Unexpired(rs))
<1> DEFINE keep == {i \in DOMAIN rs : Valid(rs[i])}
<1>1. rs \in Seq(Rules) /\ keep \in SUBSET DOMAIN rs
  BY DEF Clean
<1>2. Unexpired(rs) = Selected(rs, keep)
  BY DEF Unexpired
<1>3. \A i \in DOMAIN rs : Valid(rs[i]) => i \in keep
  OBVIOUS
<1> HIDE DEF keep
<1>4. /\ \A n \in DOMAIN Selected(rs, keep) : \E i \in keep : Selected(rs, keep)[n] = rs[i]
      /\ \A i \in keep : \E n \in DOMAIN Selected(rs, keep) : Selected(rs, keep)[n] = rs[i]
  BY <1>1, SelectedRange
<1>5. Clean(Selected(rs, keep)) /\ (Capped(rs) => Capped(Selected(rs, keep)))
  BY <1>1, SelectedClean
<1>6. \A i \in DOMAIN rs : Valid(rs[i]) => rs[i] \in Range(Selected(rs, keep))
  BY <1>3, <1>4 DEF Range
<1> QED  BY <1>1, <1>2, <1>4, <1>5, <1>6

\* A value is that of a rule, or there is none.
LEMMA ValueTyped ==
  ASSUME NEW rs \in Seq(Rules), NEW kind, NEW k
  PROVE  ValueOf(rs, kind, k) \in {unset, 0, 1}
<1> DEFINE mine == {i \in DOMAIN rs : rs[i].key = k /\ rs[i].kind = kind}
<1>1. DOMAIN rs = 1 .. Len(rs) /\ Len(rs) \in Nat
  BY LenProperties
<1>2. mine \in SUBSET DOMAIN rs
  OBVIOUS
<1>3. ValueOf(rs, kind, k) = IF mine = {} THEN unset ELSE rs[Max(mine)].val
  BY DEF ValueOf
<1> HIDE DEF mine
<1>4. CASE mine # {}
  <2>1. \E m \in mine : \A i \in mine : m >= i
    <3> DEFINE before == [i \in mine |-> {j \in mine : j < i}]
    <3>1. IsFiniteSet(DOMAIN rs) /\ mine \in SUBSET Nat
      BY <1>1, <1>2, FS_Interval
    <3>2. IsFiniteSet(mine) /\ Cardinality(mine) \in Nat /\ Cardinality(mine) # 0
      BY <1>2, <1>4, <3>1, FS_Subset, FS_CardinalityType, FS_EmptySet
    <3>3. TotalOrder(mine, before)
      BY <3>1, PositionsOrdered
    <3> HIDE DEF before
    <3>4. PICK m \in mine : Cardinality(before[m]) = Cardinality(mine) - 1
      <4>1. Cardinality(mine) - 1 \in 0 .. Cardinality(mine) - 1
        BY <3>2
      <4> QED  BY <3>2, <3>3, <4>1, RankTaken
    <3>5. ASSUME NEW i \in mine PROVE ~(m < i)
      <4>1. SUFFICES ASSUME m < i PROVE FALSE
        OBVIOUS
      <4>2. m \in before[i] /\ before[m] \subseteq before[i]
        <5>1. before[i] = {j \in mine : j < i} /\ before[m] = {j \in mine : j < m}
          BY DEF before
        <5>2. \A j \in mine : j < m => j < i
          BY <3>1, <4>1
        <5> QED  BY <4>1, <5>1, <5>2
      <4>3. m \notin before[m]
        BY <3>3 DEF TotalOrder
      <4>4. IsFiniteSet(before[i]) /\ Cardinality(before[i]) <= Cardinality(mine) - 1
            /\ Cardinality(before[i]) \in Nat
        BY <3>2, <3>3, RankTyped
      <4>5. Cardinality(before[m]) # Cardinality(before[i])
            /\ Cardinality(before[m]) <= Cardinality(before[i])
        BY <4>2, <4>3, <4>4, FS_Subset
      <4> QED  BY <3>2, <3>4, <4>4, <4>5
    <3> QED  BY <3>1, <3>5
  <2>2. Max(mine) \in mine
    BY <2>1 DEF Max
  <2>3. rs[Max(mine)] \in Rules
    BY <1>1, <1>2, <2>2, ElementOfSeq
  <2> QED  BY <1>3, <1>4, <2>3 DEF Rules, unset
<1> QED  BY <1>3, <1>4

(***************************************************************************)
(* The invariant.                                                          *)
(***************************************************************************)

\* What the morning's check found absent is still absent when it is added.
AbsentStays == pre.at = "checked" => Missing(rules, pre.absent)

RulesInv == TypeOK /\ Clean(rules) /\ Capped(rules) /\ AbsentStays /\ RulesInForce

LEMMA InvSound == RulesInv => RulesSound /\ RulesInForce
<1> SUFFICES ASSUME RulesInv PROVE RulesSound /\ RulesInForce
  OBVIOUS
<1>1. OneRulePerKey
  BY DEF RulesInv, Clean, OneRulePerKey
<1>2. ActiveBounded
  BY TableBounded DEF RulesInv, ActiveBounded
<1> QED  BY <1>1, <1>2 DEF RulesInv, RulesSound

LEMMA InvInit == Init => RulesInv
<1> SUFFICES ASSUME Init PROVE RulesInv
  OBVIOUS
<1>1. TypeOK
  <2>1. rules \in Seq(Rules) /\ inforce \in Seq(Rules)
    BY EmptySeq DEF Init
  <2>2. /\ pre \in [at : Pre, absent : SUBSET Checks] /\ gen = NoGen /\ cycle = NoCycle
        /\ gen \in [on : BOOLEAN, had : BOOLEAN, forced : BOOLEAN]
        /\ cycle \in [at : {none, "trading", "collect", "llm", "save", "rules"},
                     items : Reviews \cup {<<>>}]
        /\ (cycle.items # <<>> => cycle.at \in {"save", "rules"})
        /\ pre.absent = {}
    BY DEF Init, NoPre, NoCycle, NoGen, Pre
  <2>3. spent \in [reviews : 0..MaxReviews, byhand : 0..MaxByHand, faults : 0..MaxFaults]
    BY ReviewAssumption DEF Init
  <2>4. tuned \in [Params -> {unset, 0, 1}] /\ phase \in {"morning", "open", "evening"}
        /\ due \in BOOLEAN /\ up \in {"no", "boot", "yes"} /\ today \in {none, "plain", "review"}
    BY DEF Init
  <2> QED  BY <2>1, <2>2, <2>3, <2>4 DEF TypeOK
<1>2. Clean(rules) /\ Capped(rules)
  <2>1. rules = <<>> /\ <<>> \in Seq(Rules) /\ DOMAIN rules = {}
    BY EmptySeq DEF Init
  <2>2. OfReviews(rules) = {}
    BY <2>1 DEF OfReviews
  <2>3. Clean(rules)
    BY <2>1 DEF Clean
  <2> QED  BY <2>2, <2>3, FS_EmptySet, ReviewAssumption DEF Capped
<1>3. AbsentStays /\ RulesInForce
  BY DEF Init, NoPre, AbsentStays, RulesInForce
<1> QED  BY <1>1, <1>2, <1>3 DEF RulesInv

\* The steps that leave the rules alone and put nothing in force.
Quiet ==
  /\ rules' = rules
  /\ pre'.at = "checked" => pre' = pre
  /\ pre'.at \in {"loaded", "done"} => pre.at \in {"loaded", "done"} /\ inforce' = inforce

LEMMA QuietKeeps ==
  ASSUME RulesInv, Quiet
  PROVE  Clean(rules)' /\ Capped(rules)' /\ AbsentStays' /\ RulesInForce'
<1>1. Clean(rules)' /\ Capped(rules)'
  BY DEF Quiet, RulesInv, Clean, Capped, OfReviews
<1>2. AbsentStays'
  BY DEF Quiet, RulesInv, AbsentStays, Missing
<1>3. RulesInForce'
  BY DEF Quiet, RulesInv, RulesInForce, Valid
<1> QED  BY <1>1, <1>2, <1>3

\* The steps that are not quiet.
Tables == NewDay \/ ReviewMakesRules \/ PreChecks \/ PreLoads \/ PreExpires

LEMMA QuietSteps ==
  ASSUME TypeOK, [Next]_vars
  PROVE  Quiet \/ Tables
<1> USE DEF TypeOK, Quiet, clock, enforced
<1>1. CASE Advance \/ Boots \/ Triggered \/ PostMarket \/ GenStarts \/ GenEnds
  BY <1>1 DEF Advance, Boots, Triggered, PostMarket, GenStarts, GenEnds
<1>2. CASE Crash
  BY <1>2 DEF Crash, NoPre
<1>3. CASE Restart
  BY <1>3 DEF Restart
<1>4. CASE TradingEnds \/ ReviewCollects \/ ReviewAnswered \/ ReviewSaves
  BY <1>4 DEF TradingEnds, ReviewCollects, ReviewAnswered, ReviewSaves
<1>5. CASE PreFails
  BY <1>5 DEF PreFails, NoPre
<1>6. CASE UNCHANGED vars
  BY <1>6 DEF vars
<1> QED  BY <1>1, <1>2, <1>3, <1>4, <1>5, <1>6
         DEF Next, ClockStep, CycleStep, JobStep, Tables

(* What each of the others does to the table.                               *)

LEMMA NewDayKeeps ==
  ASSUME RulesInv, NewDay
  PROVE  /\ Clean(rules)' /\ Capped(rules)' /\ AbsentStays' /\ RulesInForce'
         /\ inforce' \in Seq(Rules)
<1>1. PICK d \in Gaps : rules' = LaterAll(rules, d) /\ inforce' = LaterAll(inforce, d)
  BY DEF NewDay
<1>2. d \in Nat
  BY ReviewAssumption
<1>3. Clean(LaterAll(rules, d)) /\ Capped(LaterAll(rules, d))
  BY <1>2, LaterClean DEF RulesInv
<1>4. Clean(rules)' /\ Capped(rules)'
  BY <1>1, <1>3 DEF Clean, Capped, OfReviews
<1>5. AbsentStays' /\ RulesInForce'
  BY DEF NewDay, NoPre, AbsentStays, RulesInForce
<1>6. inforce' \in Seq(Rules)
  BY <1>1, <1>2, LaterTyped DEF RulesInv, TypeOK
<1> QED  BY <1>4, <1>5, <1>6

LEMMA ReviewKeeps ==
  ASSUME RulesInv, ReviewMakesRules
  PROVE  Clean(rules)' /\ Capped(rules)' /\ AbsentStays' /\ RulesInForce'
<1>1. pre' = pre /\ inforce' = inforce
  BY DEF ReviewMakesRules, enforced
<1>2. CASE rules' = rules
  BY <1>1, <1>2, QuietKeeps DEF Quiet
<1>3. CASE rules' = Generated(rules, cycle.items)
  <2> DEFINE items == cycle.items
  <2>1. items \in Seq(Items)
    BY ReviewAssumption, EmptySeq DEF RulesInv, TypeOK
  <2>2. \A i \in DOMAIN items : items[i] \in Items
    BY <2>1, LenProperties, ElementOfSeq
  <2>3. \A r \in Items : /\ RuleOf(r).src = "review"
                         /\ pre.at \in {"loaded", "done"} => RuleOf(r).left = RuleOf(r).days
    BY DEF RuleOf
  <2> HIDE DEF items
  <2>4. /\ Clean(rules') /\ Capped(rules')
        /\ \A n \in DOMAIN rules' : \/ \E i \in DOMAIN rules : rules'[n] = rules[i]
                                    \/ \E j \in DOMAIN items : rules'[n] = RuleOf(items[j])
    <3>1. /\ Clean(Generated(rules, items)) /\ Capped(Generated(rules, items))
          /\ \A n \in DOMAIN Generated(rules, items) :
               \/ \E i \in DOMAIN rules : Generated(rules, items)[n] = rules[i]
               \/ \E j \in DOMAIN items : Generated(rules, items)[n] = RuleOf(items[j])
      BY <2>1, GeneratedClean DEF RulesInv
    <3>2. rules' = Generated(rules, items)
      BY <1>3 DEF items
    <3> QED  BY <3>1, <3>2
  <2>5. Clean(rules)' /\ Capped(rules)'
    BY <2>4 DEF Clean, Capped, OfReviews
  <2>6. AbsentStays'
    BY <1>1, <2>2, <2>3, <2>4 DEF RulesInv, AbsentStays, Missing
  <2>7. RulesInForce'
    <3> SUFFICES ASSUME pre.at \in {"loaded", "done"}, NEW n \in DOMAIN rules', Valid(rules'[n]),
                        rules'[n].left < rules'[n].days \/ rules'[n].src = "bootstrap"
                 PROVE  rules'[n] \in Range(inforce)
      BY <1>1 DEF RulesInForce, Valid
    <3>1. CASE \E i \in DOMAIN rules : rules'[n] = rules[i]
      BY <3>1 DEF RulesInv, RulesInForce
    <3>2. CASE \E j \in DOMAIN items : rules'[n] = RuleOf(items[j])
      <4>1. PICK j \in DOMAIN items : rules'[n] = RuleOf(items[j])
        BY <3>2
      <4>2. rules'[n].src = "review" /\ rules'[n].left = rules'[n].days
        BY <2>2, <2>3, <4>1
      <4>3. rules'[n].days \in Int
        <5>1. rules'[n] \in Rules
          BY <2>4, LenProperties, ElementOfSeq DEF Clean
        <5> QED  BY <5>1 DEF Rules, Long
      <4> QED  BY <4>2, <4>3
    <3> QED  BY <2>4, <3>1, <3>2
  <2> QED  BY <2>5, <2>6, <2>7
<1> QED  BY <1>2, <1>3 DEF ReviewMakesRules

LEMMA ChecksKeep ==
  ASSUME RulesInv, PreChecks
  PROVE  Clean(rules)' /\ Capped(rules)' /\ AbsentStays' /\ RulesInForce'
<1>1. rules' = rules /\ pre' = [at |-> "checked", absent |-> Absent(rules)]
  BY DEF PreChecks
<1>2. Clean(rules)' /\ Capped(rules)'
  BY <1>1 DEF RulesInv, Clean, Capped, OfReviews
<1>3. Missing(rules, Absent(rules))
  BY DEF RulesInv, Clean, Missing, Absent
<1>4. AbsentStays'
  BY <1>1, <1>3 DEF AbsentStays, Missing
<1>5. RulesInForce'
  BY <1>1 DEF RulesInForce
<1> QED  BY <1>2, <1>4, <1>5

LEMMA LoadsKeep ==
  ASSUME RulesInv, PreLoads
  PROVE  /\ Clean(rules)' /\ Capped(rules)' /\ AbsentStays' /\ RulesInForce'
         /\ inforce' \in Seq(Rules) /\ tuned' \in [Params -> {unset, 0, 1}]
<1> DEFINE more == WithBootstrap(rules, pre.absent)
           loaded == Unexpired(more)
<1>1. pre.at = "checked" /\ pre.absent \in SUBSET Checks /\ Missing(rules, pre.absent)
  BY DEF PreLoads, RulesInv, TypeOK, AbsentStays
<1>2. Clean(more) /\ Capped(more)
  BY <1>1, BootstrapClean DEF RulesInv
<1>3. /\ rules' = more /\ pre'.at = "loaded"
      /\ IF loaded = <<>> THEN UNCHANGED enforced ELSE inforce' = loaded /\ tuned' = Tuned(loaded)
  BY DEF PreLoads, Loaded, NoPre
<1> HIDE DEF more
<1>4. Clean(rules)' /\ Capped(rules)'
  BY <1>2, <1>3 DEF Clean, Capped, OfReviews
<1>5. Clean(loaded) /\ \A i \in DOMAIN more : Valid(more[i]) => more[i] \in Range(loaded)
  BY <1>2, UnexpiredClean
<1> HIDE DEF loaded
<1>6. AbsentStays'
  BY <1>3 DEF AbsentStays
<1>7. CASE loaded = <<>>
  <2>1. \A i \in DOMAIN more : ~Valid(more[i])
    BY <1>5, <1>7 DEF Range
  <2>2. RulesInForce'
    BY <1>3, <2>1 DEF RulesInForce, Valid
  <2> QED  BY <1>3, <1>4, <1>6, <1>7, <2>2 DEF enforced, RulesInv, TypeOK
<1>8. CASE loaded # <<>>
  <2>1. inforce' = loaded /\ tuned' = Tuned(loaded)
    BY <1>3, <1>8
  <2>2. RulesInForce'
    BY <1>3, <1>5, <2>1 DEF RulesInForce, Valid
  <2>3. loaded \in Seq(Rules)
    BY <1>5 DEF Clean
  <2>4. Tuned(loaded) \in [Params -> {unset, 0, 1}]
    BY <2>3, ValueTyped DEF Tuned, RulesInv, TypeOK
  <2> QED  BY <1>4, <1>6, <2>1, <2>2, <2>3, <2>4
<1> QED  BY <1>7, <1>8

LEMMA ExpiresKeep ==
  ASSUME RulesInv, PreExpires
  PROVE  Clean(rules)' /\ Capped(rules)' /\ AbsentStays' /\ RulesInForce'
<1> DEFINE left == Unexpired(rules)
<1>1. /\ rules' = left /\ inforce' = inforce /\ pre.at = "loaded" /\ pre'.at = "done"
  BY DEF PreExpires, Expired, enforced, RulesInv, TypeOK
<1>2. /\ Clean(left) /\ Capped(left)
      /\ \A n \in DOMAIN left : \E i \in DOMAIN rules : left[n] = rules[i]
  BY UnexpiredClean DEF RulesInv
<1> HIDE DEF left
<1>3. Clean(rules)' /\ Capped(rules)'
  BY <1>1, <1>2 DEF Clean, Capped, OfReviews
<1>4. AbsentStays'
  BY <1>1 DEF AbsentStays
<1>5. RulesInForce'
  BY <1>1, <1>2 DEF RulesInv, RulesInForce, Valid
<1> QED  BY <1>3, <1>4, <1>5

LEMMA TablesKeep ==
  ASSUME RulesInv, Tables
  PROVE  Clean(rules)' /\ Capped(rules)' /\ AbsentStays' /\ RulesInForce'
BY NewDayKeeps, ReviewKeeps, ChecksKeep, LoadsKeep, ExpiresKeep DEF Tables

\* The types of the other variables.
LEMMA TypeStep ==
  ASSUME RulesInv, [Next]_vars, Clean(rules)'
  PROVE  TypeOK'
<1>0. TypeOK /\ rules' \in Seq(Rules)
  BY DEF RulesInv, Clean
<1> DEFINE Spent == [reviews : 0..MaxReviews, byhand : 0..MaxByHand, faults : 0..MaxFaults]
<1>f. Faulty /\ Fault => spent' \in Spent
  <2>1. ASSUME Faulty, Fault PROVE spent' \in Spent
    <3>1. spent \in Spent /\ spent' = [spent EXCEPT !.faults = spent.faults + 1]
      BY <1>0, <2>1 DEF Fault, TypeOK
    <3>2. spent.faults + 1 \in 0..MaxFaults
      BY <2>1, <3>1, ReviewAssumption DEF Faulty
    <3> QED  BY <3>1, <3>2
  <2> QED  BY <2>1
<1>h. spent.byhand < MaxByHand => [spent EXCEPT !.byhand = @ + 1] \in Spent
  <2>1. spent \in Spent
    BY <1>0 DEF TypeOK
  <2>2. spent.byhand < MaxByHand => spent.byhand + 1 \in 0..MaxByHand
    BY <2>1, ReviewAssumption
  <2> QED  BY <2>1, <2>2
<1>r. spent.reviews < MaxReviews => [spent EXCEPT !.reviews = @ + 1] \in Spent
  <2>1. spent \in Spent
    BY <1>0 DEF TypeOK
  <2>2. spent.reviews < MaxReviews => spent.reviews + 1 \in 0..MaxReviews
    BY <2>1, ReviewAssumption
  <2> QED  BY <2>1, <2>2
<1>1. CASE Advance
  BY <1>0, <1>1 DEF Advance, TypeOK, enforced
<1>13. CASE Restart
  <2>1. pre.absent = {} /\ pre' \in {pre, [pre EXCEPT !.at = "missed"]}
    BY <1>0, <1>13 DEF Restart, TypeOK
  <2>2. pre' \in [at : Pre, absent : SUBSET Checks] /\ pre'.absent = {}
    BY <1>0, <2>1 DEF TypeOK, Pre
  <2>3. due' \in BOOLEAN /\ up' \in {"no", "boot", "yes"}
    BY <1>0, <1>13 DEF Restart, TypeOK
  <2>4. UNCHANGED <<phase, rules, inforce, tuned, today, cycle, gen, spent>>
    BY <1>13 DEF Restart, enforced
  <2> QED  BY <1>0, <2>2, <2>3, <2>4 DEF TypeOK
<1>2. CASE NewDay
  <2>1. inforce' \in Seq(Rules)
    BY <1>2, NewDayKeeps
  <2> QED  BY <1>0, <1>2, <2>1 DEF NewDay, TypeOK, NoPre, Pre, none
<1>3. CASE Crash
  BY <1>0, <1>3, <1>f, EmptySeq DEF Crash, TypeOK, NoPre, NoCycle, NoGen, Pre, none, unset
<1>4. CASE Boots \/ Triggered \/ PostMarket
  <2> DEFINE Cycles == [at : {none, "trading", "collect", "llm", "save", "rules"},
                        items : Reviews \cup {<<>>}]
  <2>1. RunCycle => /\ cycle' \in Cycles
                    /\ cycle'.items # <<>> => cycle'.at \in {"save", "rules"}
    BY <1>0 DEF RunCycle, NoCycle, TypeOK
  <2>2. CASE Boots
    BY <1>0, <2>1, <2>2 DEF Boots, TypeOK, enforced
  <2>3. CASE Triggered
    BY <1>0, <1>h, <2>1, <2>3 DEF Triggered, TypeOK, enforced, clock
  <2>4. CASE PostMarket
    BY <1>0, <2>1, <2>4 DEF PostMarket, TypeOK, enforced
  <2> QED  BY <1>4, <2>2, <2>3, <2>4
<1>5. CASE TradingEnds \/ ReviewCollects \/ ReviewSaves
  BY <1>0, <1>5, <1>f
     DEF TradingEnds, ReviewCollects, ReviewSaves, NoCycle, TypeOK, enforced, clock
<1>6. CASE ReviewAnswered
  <2>1. CASE cycle' = NoCycle /\ Faulty /\ Fault
    BY <1>0, <1>6, <1>f, <2>1 DEF ReviewAnswered, NoCycle, TypeOK, enforced, clock
  <2>2. ASSUME NEW items \in Reviews, items # <<>> => spent.reviews < MaxReviews,
               cycle' = [at |-> "save", items |-> items],
               spent' = IF items = <<>> THEN spent ELSE [spent EXCEPT !.reviews = @ + 1]
        PROVE  TypeOK'
    <3>1. spent' \in Spent
      BY <1>0, <1>r, <2>2 DEF TypeOK
    <3> QED  BY <1>0, <1>6, <2>2, <3>1 DEF ReviewAnswered, TypeOK, enforced, clock
  <2> QED  BY <1>6, <2>1, <2>2 DEF ReviewAnswered
<1>7. CASE ReviewMakesRules
  BY <1>0, <1>7, <1>f DEF ReviewMakesRules, NoCycle, TypeOK, enforced, clock
<1>8. CASE PreChecks
  BY <1>0, <1>8 DEF PreChecks, Absent, TypeOK, Pre, enforced
<1>9. CASE PreLoads
  <2>1. inforce' \in Seq(Rules) /\ tuned' \in [Params -> {unset, 0, 1}]
    BY <1>9, LoadsKeep
  <2> QED  BY <1>0, <1>9, <2>1 DEF PreLoads, TypeOK, NoPre, Pre, clock
<1>10. CASE PreExpires
  <2>1. pre.absent = {} /\ pre' = [pre EXCEPT !.at = "done"]
    BY <1>0, <1>10 DEF PreExpires, TypeOK
  <2>2. pre' \in [at : Pre, absent : SUBSET Checks] /\ pre'.absent = {}
    BY <1>0, <2>1 DEF TypeOK, Pre
  <2> QED  BY <1>0, <1>10, <2>2 DEF PreExpires, TypeOK, enforced, clock
<1>14. CASE PreFails
  BY <1>0, <1>14, <1>f DEF PreFails, TypeOK, NoPre, Pre, enforced, clock
<1>11. CASE GenStarts
  BY <1>0, <1>11, <1>h DEF GenStarts, TypeOK, enforced, clock
<1>15. CASE GenEnds
  BY <1>0, <1>15 DEF GenEnds, Written, NoGen, TypeOK, enforced, clock
<1>12. CASE UNCHANGED vars
  BY <1>0, <1>12 DEF vars, TypeOK, enforced, clock
<1> QED  BY <1>1, <1>2, <1>3, <1>4, <1>5, <1>6, <1>7, <1>8, <1>9, <1>10, <1>11, <1>12,
            <1>13, <1>14, <1>15
         DEF Next, ClockStep, CycleStep, JobStep

LEMMA InvStep == RulesInv /\ [Next]_vars => RulesInv'
<1> SUFFICES ASSUME RulesInv, [Next]_vars PROVE RulesInv'
  OBVIOUS
<1>1. Clean(rules)' /\ Capped(rules)' /\ AbsentStays' /\ RulesInForce'
  BY QuietSteps, QuietKeeps, TablesKeep DEF RulesInv
<1> QED  BY <1>1, TypeStep DEF RulesInv

THEOREM InvHolds == Spec => []RulesInv
BY InvInit, InvStep, PTL DEF Spec

\* For all checks, reviews and bounds: every variable keeps its type, a key has
\* at most one rule of the reviews, and the active rules stay within their cap
\* and the bootstrap rules (generate_rules_from_review, _ensure_bootstrap_rules).
THEOREM TableSound == Spec => []RulesSound
BY InvHolds, InvSound, PTL

\* After the pre-market job every rule that it should have loaded is in force,
\* also when a review makes rules while the job runs (load_active_rules).
THEOREM LoadedInForce == Spec => []RulesInForce
BY InvHolds, InvSound, PTL

(***************************************************************************)
(* The report of the day that is made by hand.                             *)
(***************************************************************************)

\* A report that found one of today is forced.
HadIsForced ==
  /\ gen \in [on : BOOLEAN, had : BOOLEAN, forced : BOOLEAN]
  /\ gen.had => gen.forced

\* The steps in which no report is made by hand leave it waiting or forget it,
\* and write no report but the review's.
OtherSteps ==
  \/ ClockStep \/ Crash \/ Restart \/ Boots \/ Triggered
  \/ CycleStep \/ JobStep \/ PreFails \/ UNCHANGED vars

LEMMA OthersWriteNoReport ==
  ASSUME OtherSteps
  PROVE  gen' \in {gen, NoGen} /\ today' \in {today, "review", none}
<1> USE DEF clock, enforced
<1>1. CASE ClockStep
  BY <1>1 DEF ClockStep, Advance, NewDay
<1>2. CASE Crash \/ Restart \/ Boots \/ Triggered
  BY <1>2 DEF Crash, Restart, Boots, Triggered
<1>3. CASE CycleStep
  BY <1>3 DEF CycleStep, TradingEnds, ReviewCollects,
       ReviewAnswered, ReviewSaves, ReviewMakesRules
<1>4. CASE JobStep
  BY <1>4 DEF JobStep, PostMarket, PreChecks, PreLoads,
       PreExpires
<1>5. CASE PreFails
  BY <1>5 DEF PreFails
<1>6. CASE UNCHANGED vars
  BY <1>6 DEF vars
<1> QED  BY <1>1, <1>2, <1>3, <1>4, <1>5, <1>6 DEF OtherSteps

LEMMA NextReviews ==
  ASSUME [Next]_vars
  PROVE  OtherSteps \/ GenStarts \/ GenEnds
BY DEF Next, OtherSteps

LEMMA HadIsForcedStep ==
  ASSUME HadIsForced, [Next]_vars
  PROVE  HadIsForced'
<1>1. CASE OtherSteps
  <2>1. CASE gen' = gen
    BY <2>1 DEF HadIsForced
  <2>2. CASE gen' = NoGen
    BY <2>2 DEF HadIsForced, NoGen
  <2> QED  BY <1>1, <2>1, <2>2, OthersWriteNoReport
<1>2. CASE GenStarts
  BY <1>2 DEF GenStarts, HadIsForced
<1>3. CASE GenEnds
  BY <1>3 DEF GenEnds, HadIsForced, NoGen
<1> QED  BY <1>1, <1>2, <1>3, NextReviews

\* What a step may do to a saved review.
ReviewStays == today = "review" /\ today' = "plain" => gen.forced

LEMMA ReviewStep ==
  ASSUME HadIsForced, [Next]_vars
  PROVE  ReviewStays
<1>1. CASE OtherSteps
  BY <1>1, OthersWriteNoReport DEF ReviewStays, none
<1>2. CASE GenStarts
  BY <1>2 DEF GenStarts, ReviewStays
<1>3. CASE GenEnds
  BY <1>3 DEF GenEnds, Written, none, ReviewStays, HadIsForced
<1> QED  BY <1>1, <1>2, <1>3, NextReviews

\* For all reviews, rules and bounds: a report made by hand takes the place of
\* the day's review only when it is forced to, also when the review is saved
\* while the report waits for the LLM (daily_report_service).
THEOREM ReviewsStay == Spec => UnforcedNeverReplaces
<1>1. Init => HadIsForced
  BY DEF Init, NoGen, HadIsForced
<1>2. HadIsForced /\ [Next]_vars => HadIsForced'
  BY HadIsForcedStep
<1>3. HadIsForced /\ [Next]_vars => [ReviewStays]_vars
  BY ReviewStep
<1>4. Spec => [][ReviewStays]_vars
  BY <1>1, <1>2, <1>3, PTL DEF Spec
<1> QED  BY <1>4 DEF UnforcedNeverReplaces, ReviewStays

(***************************************************************************)
(* The rows that the days leave: PositionDay.                              *)
(***************************************************************************)

CONSTANTS Stocks, FailsSilently, MaxShares, MaxBuys, MaxCrashes
VARIABLES hours, done, running, shares, order, rows, exit, level, cache, waiting, used

Day == INSTANCE PositionDay
         WITH phase <- hours, up <- running, held <- shares, task <- waiting, spent <- used

\* With a broker whose failed reads raise (Kiwoom), what account_manager returns
\* is a failure or the snapshot it leaves cached.
LEMMA ReadIsCached ==
  ASSUME ~FailsSilently, NEW r \in Day!Reads
  PROVE  r.view = Day!NoSnapshot \/ r.view = r.cache
  <1>1. CASE ~Day!InHours /\ cache # Day!NoSnapshot
    BY <1>1 DEF Day!Reads
  <1>2. CASE Day!InHours \/ cache = Day!NoSnapshot
    BY <1>2 DEF Day!Reads, Day!FailedView
  <1>3. QED BY <1>1, <1>2

\* The property of one stock in one step.
StepUnseen(s) ==
  exit[s] # "orphan" /\ exit'[s] = "orphan"
    => cache' # Day!NoSnapshot /\ cache'[1][s] = 0

\* A cleaning that uses a read of the account closes only what the read does
\* not show.
LEMMA CleanUnseen ==
  ASSUME ~FailsSilently, NEW r \in Day!Reads, Day!Clean(r.view), cache' = r.cache,
         NEW s \in Stocks
  PROVE  StepUnseen(s)
  <1> SUFFICES ASSUME exit[s] # "orphan", exit'[s] = "orphan"
               PROVE  cache' # Day!NoSnapshot /\ cache'[1][s] = 0
    BY DEF StepUnseen
  <1>1. s \in Day!Orphans(r.view)
    BY DEF Day!Clean
  <1>2. r.view # Day!NoSnapshot /\ r.view[1][s] = 0
    BY <1>1 DEF Day!Orphans
  <1>3. QED BY <1>2, ReadIsCached

\* Every stock has a reason, the empty one included.
Reasons == exit \in [Stocks -> {Day!none, "sale", "orphan"}]

\* What a step does to the reasons: a sale, a cleaning, or nothing.
Sold == \E t \in Stocks : exit' = [exit EXCEPT ![t] = "sale"]
Cleaned == \E r \in Day!Reads : Day!Clean(r.view) /\ cache' = r.cache
Kept == exit' = exit

\* Every step is one of the three.
LEMMA NextCloses ==
  ASSUME [Day!Next]_(Day!vars)
  PROVE  Sold \/ Cleaned \/ Kept
  <1>1. CASE Day!Advance \/ Day!Crash \/ Day!Restart
    BY <1>1 DEF Day!Advance, Day!Crash, Day!Restart, Kept
  <1>2. CASE \E s \in Stocks : Day!Buy(s) \/ Day!Fills(s) \/ Day!OutsideBuy(s) \/ Day!Confirm(s)
    BY <1>2 DEF Day!Buy, Day!Fills, Day!OutsideBuy, Day!Confirm, Kept
  <1>3. CASE \E s \in Stocks : Day!CheckSells(s)
    BY <1>3 DEF Day!CheckSells, Day!Sell, Sold
  <1>4. CASE Day!ReviewStarts \/ Day!LiquidationStarts
    BY <1>4 DEF Day!ReviewStarts, Day!LiquidationStarts, Kept
  <1>5. CASE \E s \in Stocks : Day!TaskSteps(s)
    <2>1. PICK s \in Stocks : Day!TaskSteps(s)
      BY <1>5
    <2>2. CASE \E k \in Day!Kinds : Day!TaskSells(k, s)
      BY <2>2 DEF Day!TaskSells, Day!Sell, Sold, Kept
    <2>3. CASE (\E k \in Day!Kinds : Day!TaskHolds(k, s)) \/ Day!ReviewAdjusts(s)
      BY <2>3 DEF Day!TaskHolds, Day!ReviewAdjusts, Kept
    <2>4. QED BY <2>1, <2>2, <2>3 DEF Day!TaskSteps
  <1>6. CASE Day!OvernightChecks \/ Day!EveningReview
    BY <1>6 DEF Day!OvernightChecks, Day!EveningReview, Cleaned, Kept
  <1>7. CASE Day!OvernightFails
    BY <1>7 DEF Day!OvernightFails, Kept
  <1>8. CASE Day!SyncRecovers \/ Day!SyncBackfills \/ Day!SyncRepairs \/ Day!SyncFails
    BY <1>8 DEF Day!SyncRecovers, Day!SyncBackfills, Day!SyncRepairs, Day!SyncFails,
                Day!SyncStep, Kept
  <1>9. CASE UNCHANGED Day!vars
    BY <1>9 DEF Day!vars, Kept
  <1>10. QED
    BY <1>1, <1>2, <1>3, <1>4, <1>5, <1>6, <1>7, <1>8, <1>9 DEF Day!Next

\* The reasons keep their type.
THEOREM ReasonsTyped == Day!Spec => []Reasons
  <1>1. Day!Init => Reasons
    BY DEF Day!Init, Reasons
  <1>2. Reasons /\ [Day!Next]_(Day!vars) => Reasons'
    <2> SUFFICES ASSUME Reasons, [Day!Next]_(Day!vars) PROVE Reasons'
      OBVIOUS
    <2>1. CASE Sold
      BY <2>1 DEF Sold, Reasons
    <2>2. CASE Cleaned
      BY <2>2 DEF Cleaned, Day!Clean, Reasons
    <2>3. CASE Kept
      BY <2>3 DEF Kept, Reasons
    <2>4. QED BY <2>1, <2>2, <2>3, NextCloses
  <1>3. QED BY <1>1, <1>2, PTL DEF Day!Spec

\* For any stocks and bounds, a row is closed as an orphan only when the last
\* snapshot the broker gave shows no share of the stock: a failed read, which
\* both checks of the open rows may meet, closes none.
THEOREM OrphansAreUnseen ==
  ASSUME ~FailsSilently
  PROVE  Day!Spec => Day!OrphansUnseen
  <1>1. Reasons /\ [Day!Next]_(Day!vars) => [\A s \in Stocks : StepUnseen(s)]_(Day!vars)
    <2> SUFFICES ASSUME Reasons, [Day!Next]_(Day!vars), NEW s \in Stocks PROVE StepUnseen(s)
      OBVIOUS
    <2>1. CASE Sold
      BY <2>1 DEF Sold, Reasons, StepUnseen
    <2>2. CASE Cleaned
      BY <2>2, CleanUnseen DEF Cleaned
    <2>3. CASE Kept
      BY <2>3 DEF Kept, StepUnseen
    <2>4. QED BY <2>1, <2>2, <2>3, NextCloses
  <1>2. Day!Spec => [][\A s \in Stocks : StepUnseen(s)]_(Day!vars)
    BY <1>1, ReasonsTyped, PTL DEF Day!Spec
  <1>3. QED BY <1>2 DEF Day!OrphansUnseen, StepUnseen
=============================================================================
