----------------------------- MODULE BaggageProofs -----------------------------
(***************************************************************************)
(* Baggage fees and payments, for any number of requests and bags, any     *)
(* limit and any fee.  What sums obey comes from SumTheorems; the rest is  *)
(* that a session's bags are old, never wrong: what it has seen is still   *)
(* there when it commits, with the same weights and fees.                  *)
(***************************************************************************)
EXTENDS BaggageRequirements, SumTheorems

Rows == [Bags -> Bag \cup {Nil}]

(***************************************************************************)
(* Sums over rows                                                          *)
(***************************************************************************)

(* What the rows weigh and cost, nothing where there is no row. *)
WeightOf(rows) == [b \in Bags |-> IF rows[b] = Nil THEN 0 ELSE rows[b].weight_kg]

FeeOf(rows) == [b \in Bags |-> IF rows[b] = Nil THEN 0 ELSE rows[b].excess_fee]

LEMMA RowsWeigh ==
  ASSUME NEW rows \in Rows
  PROVE  /\ \A S \in SUBSET Bags : /\ IsFiniteSet(S)
                                   /\ Weighs(S, WeightOf(rows))
                                   /\ Weighs(S, FeeOf(rows))
         /\ Present(rows) \in SUBSET Bags
         /\ Owing(rows) \in SUBSET Present(rows)
  BY BagsAssumption, FS_Subset
  DEF Rows, Bag, WeightOf, FeeOf, Weighs, Present, Owing

(* The sums of the model are totals. *)
LEMMA FeesAreTotals ==
  ASSUME NEW rows \in Rows, NEW some \in SUBSET Present(rows)
  PROVE  TotalFee(rows, some) = Total(some, FeeOf(rows))
<1> DEFINE w == FeeOf(rows)
           R(g) == g = [T \in SUBSET some |->
                 IF T = {} THEN 0
                 ELSE LET e == CHOOSE e \in T : TRUE
                      IN rows[e].excess_fee + g[T \ {e}]]
<1>1. TotalFee(rows, some) = (CHOOSE g : R(g))[some]
  BY DEF TotalFee, MapThenSumSet, MapThenFoldSet
<1>2. \A g : R(g) <=> g = Totals(some, w)
  <2> SUFFICES ASSUME NEW g PROVE R(g) <=> g = Totals(some, w)
    OBVIOUS
  <2>1. ASSUME NEW T \in SUBSET some, T # {}
        PROVE  LET e == CHOOSE e \in T : TRUE IN rows[e].excess_fee = w[e]
    <3>1. (CHOOSE e \in T : TRUE) \in T
      BY <2>1
    <3>2. \A e \in T : rows[e].excess_fee = w[e]
      BY DEF FeeOf, Present
    <3> QED
      BY <3>1, <3>2
  <2>2. SumsUp(g, some, w) <=> R(g)
    <3> HIDE DEF w
    <3> QED
      BY <2>1 DEF SumsUp
  <2>3. SumsUp(g, some, w) <=> g = Totals(some, w)
    <3>1. IsFiniteSet(some) /\ Weighs(some, w)
      BY RowsWeigh
    <3> HIDE DEF w
    <3> QED
      BY <3>1, SumsAreTotals
  <2> QED
    BY <2>2, <2>3
<1>3. (CHOOSE g : R(g)) = Totals(some, w)
  <2> HIDE DEF R
  <2>1. R(Totals(some, w))
    BY <1>2
  <2>2. R(CHOOSE g : R(g))
    BY <2>1
  <2> QED
    BY <1>2, <2>2
<1> HIDE DEF R
<1>4. (CHOOSE g : R(g))[some] = Totals(some, w)[some]
  BY <1>3
<1> QED
  BY <1>1, <1>4 DEF Totals

LEMMA WeightsAreTotals ==
  ASSUME NEW rows \in Rows
  PROVE  TotalWeight(rows) = Total(Present(rows), WeightOf(rows))
<1> DEFINE some == Present(rows)
           w == WeightOf(rows)
           R(g) == g = [T \in SUBSET some |->
                 IF T = {} THEN 0
                 ELSE LET e == CHOOSE e \in T : TRUE
                      IN rows[e].weight_kg + g[T \ {e}]]
<1>1. TotalWeight(rows) = (CHOOSE g : R(g))[some]
  BY DEF TotalWeight, MapThenSumSet, MapThenFoldSet
<1>2. \A g : R(g) <=> g = Totals(some, w)
  <2> SUFFICES ASSUME NEW g PROVE R(g) <=> g = Totals(some, w)
    OBVIOUS
  <2>1. ASSUME NEW T \in SUBSET some, T # {}
        PROVE  LET e == CHOOSE e \in T : TRUE IN rows[e].weight_kg = w[e]
    <3>1. (CHOOSE e \in T : TRUE) \in T
      BY <2>1
    <3>2. \A e \in T : rows[e].weight_kg = w[e]
      BY DEF WeightOf, Present
    <3> QED
      BY <3>1, <3>2
  <2>2. SumsUp(g, some, w) <=> R(g)
    <3> HIDE DEF w
    <3> QED
      BY <2>1 DEF SumsUp
  <2>3. SumsUp(g, some, w) <=> g = Totals(some, w)
    <3>1. IsFiniteSet(some) /\ Weighs(some, w)
      BY RowsWeigh
    <3> HIDE DEF w
    <3> QED
      BY <3>1, SumsAreTotals
  <2> QED
    BY <2>2, <2>3
<1>3. (CHOOSE g : R(g)) = Totals(some, w)
  <2> HIDE DEF R
  <2>1. R(Totals(some, w))
    BY <1>2
  <2>2. R(CHOOSE g : R(g))
    BY <2>1
  <2> QED
    BY <1>2, <2>2
<1> HIDE DEF R
<1>4. (CHOOSE g : R(g))[some] = Totals(some, w)[some]
  BY <1>3
<1> QED
  BY <1>1, <1>4 DEF Totals

LEMMA SumsAreNatural ==
  ASSUME NEW rows \in Rows
  PROVE  /\ TotalWeight(rows) \in Nat
         /\ \A some \in SUBSET Present(rows) : TotalFee(rows, some) \in Nat
<1>1. TotalWeight(rows) \in Nat
  BY RowsWeigh, WeightsAreTotals, UnitsAreFinite
<1>2. ASSUME NEW some \in SUBSET Present(rows)
      PROVE  TotalFee(rows, some) \in Nat
  <2>1. IsFiniteSet(some) /\ Weighs(some, FeeOf(rows))
    BY RowsWeigh
  <2> QED
    BY <2>1, FeesAreTotals, UnitsAreFinite
<1> QED
  BY <1>1, <1>2

(* One more bag adds its weight and its fee. *)
With(rows, b, bag) == [rows EXCEPT ![b] = bag]

LEMMA SumsOfOneMore ==
  ASSUME NEW rows \in Rows, NEW b \in Bags, rows[b] = Nil, NEW bag \in Bag
  PROVE  /\ With(rows, b, bag) \in Rows
         /\ Present(With(rows, b, bag)) = Present(rows) \cup {b}
         /\ TotalWeight(With(rows, b, bag)) = TotalWeight(rows) + bag.weight_kg
         /\ TotalFee(With(rows, b, bag), Present(With(rows, b, bag)))
              = TotalFee(rows, Present(rows)) + bag.excess_fee
         /\ \A some \in SUBSET Present(rows) :
              TotalFee(With(rows, b, bag), some) = TotalFee(rows, some)
<1> DEFINE more == With(rows, b, bag)
<1>0. more = [rows EXCEPT ![b] = bag]
  BY DEF With
<1> HIDE DEF more
<1>1. more \in Rows
  BY <1>0 DEF Rows
<1>2. bag # Nil /\ bag.weight_kg \in Nat /\ bag.excess_fee \in Nat
  BY NilAssumption DEF Bag
<1>3. Present(more) = Present(rows) \cup {b} /\ b \notin Present(rows)
  BY <1>0, <1>2 DEF Present, Rows
<1>4. /\ WeightOf(more)[b] = bag.weight_kg /\ FeeOf(more)[b] = bag.excess_fee
      /\ \A c \in Present(rows) : /\ WeightOf(more)[c] = WeightOf(rows)[c]
                                 /\ FeeOf(more)[c] = FeeOf(rows)[c]
  BY <1>0, <1>2 DEF WeightOf, FeeOf, Present, Rows
<1>5. /\ IsFiniteSet(Present(rows)) /\ Weighs(Present(rows), WeightOf(more))
      /\ Weighs(Present(rows), FeeOf(more))
  BY <1>1, RowsWeigh
<1>6. TotalWeight(more) = TotalWeight(rows) + bag.weight_kg
  <2>1. TotalWeight(more) = Total(Present(rows) \cup {b}, WeightOf(more))
    BY <1>1, <1>3, WeightsAreTotals
  <2>2. @ = bag.weight_kg + Total(Present(rows), WeightOf(more))
    BY <1>2, <1>3, <1>4, <1>5, TotalOfOneMore
  <2>3. Total(Present(rows), WeightOf(more)) = TotalWeight(rows)
    BY <1>4, TotalOfSame, WeightsAreTotals
  <2>4. TotalWeight(rows) \in Nat
    BY SumsAreNatural
  <2> QED
    BY <1>2, <2>1, <2>2, <2>3, <2>4
<1>7. ASSUME NEW some \in SUBSET Present(rows)
      PROVE  TotalFee(more, some) = TotalFee(rows, some)
  <2>1. TotalFee(more, some) = Total(some, FeeOf(more))
    BY <1>1, <1>3, FeesAreTotals
  <2>2. TotalFee(rows, some) = Total(some, FeeOf(rows))
    BY FeesAreTotals
  <2>3. Total(some, FeeOf(more)) = Total(some, FeeOf(rows))
    BY <1>4, TotalOfSame
  <2> QED
    BY <2>1, <2>2, <2>3
<1>8. TotalFee(more, Present(more)) = TotalFee(rows, Present(rows)) + bag.excess_fee
  <2>1. TotalFee(more, Present(more)) = Total(Present(rows) \cup {b}, FeeOf(more))
    BY <1>1, <1>3, FeesAreTotals
  <2>2. @ = bag.excess_fee + Total(Present(rows), FeeOf(more))
    BY <1>2, <1>3, <1>4, <1>5, TotalOfOneMore
  <2>3. Total(Present(rows), FeeOf(more)) = TotalFee(rows, Present(rows))
    <3>1. TotalFee(rows, Present(rows)) = Total(Present(rows), FeeOf(rows))
      BY FeesAreTotals
    <3> QED
      BY <3>1, <1>4, TotalOfSame
  <2>4. TotalFee(rows, Present(rows)) \in Nat
    BY SumsAreNatural
  <2> QED
    BY <1>2, <2>1, <2>2, <2>3, <2>4
<1> QED
  BY <1>1, <1>3, <1>6, <1>7, <1>8 DEF more

(* What has been seen of the rows: some of them, with the same weights and *)
(* fees, though they may have been paid for since.                         *)
Earlier(old, new) ==
  \A b \in Bags : old[b] # Nil =>
    /\ new[b] # Nil
    /\ new[b].weight_kg = old[b].weight_kg
    /\ new[b].excess_fee = old[b].excess_fee
    /\ old[b].fee_paid => new[b].fee_paid

LEMMA SumsOfEarlier ==
  ASSUME NEW old \in Rows, NEW new \in Rows, Earlier(old, new)
  PROVE  /\ Present(old) \in SUBSET Present(new)
         /\ TotalWeight(old) <= TotalWeight(new)
         /\ Present(old) = Present(new) => TotalWeight(old) = TotalWeight(new)
         /\ \A some \in SUBSET Present(old) : TotalFee(old, some) = TotalFee(new, some)
<1>1. Present(old) \in SUBSET Present(new)
  BY DEF Earlier, Present
<1>2. \A b \in Present(old) : /\ WeightOf(old)[b] = WeightOf(new)[b]
                             /\ FeeOf(old)[b] = FeeOf(new)[b]
  BY DEF Earlier, Present, WeightOf, FeeOf
<1>3. /\ TotalWeight(old) <= TotalWeight(new)
      /\ Present(old) = Present(new) => TotalWeight(old) = TotalWeight(new)
  <2>1. TotalWeight(old) = Total(Present(old), WeightOf(new))
    BY <1>2, WeightsAreTotals, TotalOfSame
  <2>2. IsFiniteSet(Present(new)) /\ Weighs(Present(new), WeightOf(new))
    BY RowsWeigh
  <2>3. Total(Present(old), WeightOf(new)) <= Total(Present(new), WeightOf(new))
    BY <1>1, <2>2, TotalOfPart
  <2> QED
    BY <2>1, <2>3, WeightsAreTotals
<1>4. ASSUME NEW some \in SUBSET Present(old)
      PROVE  TotalFee(old, some) = TotalFee(new, some)
  <2>1. TotalFee(old, some) = Total(some, FeeOf(old))
    BY FeesAreTotals
  <2>2. TotalFee(new, some) = Total(some, FeeOf(new))
    BY <1>1, FeesAreTotals
  <2>3. Total(some, FeeOf(old)) = Total(some, FeeOf(new))
    BY <1>2, TotalOfSame
  <2> QED
    BY <2>1, <2>2, <2>3
<1> QED
  BY <1>1, <1>3, <1>4

(* Fees of two sets of rows. *)
LEMMA FeesOfBoth ==
  ASSUME NEW rows \in Rows,
         NEW S \in SUBSET Present(rows), NEW T \in SUBSET Present(rows)
  PROVE  /\ TotalFee(rows, S \cup T) <= TotalFee(rows, S) + TotalFee(rows, T)
         /\ S \cap T = {} =>
              TotalFee(rows, S \cup T) = TotalFee(rows, S) + TotalFee(rows, T)
<1>1. /\ TotalFee(rows, S \cup T) = Total(S \cup T, FeeOf(rows))
      /\ TotalFee(rows, S) = Total(S, FeeOf(rows))
      /\ TotalFee(rows, T) = Total(T, FeeOf(rows))
  BY FeesAreTotals
<1>2. /\ IsFiniteSet(S) /\ Weighs(S, FeeOf(rows))
      /\ IsFiniteSet(T) /\ Weighs(T, FeeOf(rows))
  BY RowsWeigh
<1> QED
  BY <1>1, <1>2, TotalOfBoth

(* Who owes for a bag has something to pay. *)
LEMMA DebtIsPositive ==
  ASSUME NEW rows \in Rows
  PROVE  (Required(rows) > 0) <=> (Owing(rows) # {})
<1>1. /\ IsFiniteSet(Owing(rows)) /\ Weighs(Owing(rows), FeeOf(rows))
      /\ Owing(rows) \in SUBSET Present(rows)
  BY RowsWeigh
<1>2. \A b \in Owing(rows) : FeeOf(rows)[b] > 0
  BY DEF Owing, Present, FeeOf
<1>3. Required(rows) = Total(Owing(rows), FeeOf(rows))
  BY <1>1, FeesAreTotals DEF Required
<1>4. Required(rows) \in Nat
  BY <1>1, SumsAreNatural DEF Required
<1>5. Required(rows) >= Cardinality(Owing(rows))
  BY <1>1, <1>2, <1>3, TotalOfPositive
<1>6. Cardinality(Owing(rows)) \in Nat /\ (Cardinality(Owing(rows)) = 0 <=> Owing(rows) = {})
  BY <1>1, FS_CardinalityType, FS_EmptySet
<1>7. Owing(rows) = {} => Required(rows) = 0
  BY <1>3, TotalOfNone
<1> QED
  BY <1>4, <1>5, <1>6, <1>7

(* Fees grow with the excess. *)
LEMMA FeesGrow ==
  ASSUME NEW m \in Nat, NEW n \in Nat, m <= n
  PROVE  FeePerKg * m \in Nat /\ FeePerKg * m <= FeePerKg * n
<1>1. ASSUME NEW f \in Nat
      PROVE  f * m \in Nat /\ f * m <= f * n
  OBVIOUS
<1> QED
  BY <1>1, WeightAssumption

(***************************************************************************)
(* The invariant                                                           *)
(***************************************************************************)

(* The bag of a session that adds one: priced from what it has seen.       *)
NewBag(x) ==
  [weight_kg  |-> request[x],
   excess_fee |-> FeeForBag(seen[x], request[x]),
   fee_paid   |-> FALSE]

(* What a session has to commit: a new bag, a payment, or the completion.  *)
Adds(x) ==
  \E b \in Bags, s \in {Nil, "WAITING_FOR_PAYMENT"} :
    /\ unsaved[x] = [status |-> s, bags |-> [NoBags EXCEPT ![b] = NewBag(x)],
                     amount |-> 0]
    /\ bags[b] = Nil
    /\ s # Nil => NewBag(x).excess_fee > 0
    /\ request[x] \in Weights

Pays(x) ==
  unsaved[x] = [status |-> "IN_PROGRESS",
                bags   |-> Settled(seen[x], Owing(seen[x])),
                amount |-> Required(seen[x])]

Completes(x) ==
  unsaved[x] = [status |-> "COMPLETED", bags |-> NoBags, amount |-> 0]

WorkIsKnown(x) ==
  /\ pc[x] \in {"idle", "add", "pay", "abort"} => unsaved[x] = NothingUnsaved
  /\ pc[x] = "add" => request[x] \in Weights
  /\ pc[x] = "gateway" =>
       unsaved[x] = [NothingUnsaved EXCEPT !.amount = Required(seen[x])]
  /\ pc[x] \in {"update", "commit"} => Adds(x) \/ Pays(x) \/ Completes(x)
  /\ pc[x] = "update" => unsaved[x].status \in {"WAITING_FOR_PAYMENT", "COMPLETED"}

(* No id is given to two new bags. *)
IdsDiffer ==
  \A x, y \in Sessions : \A b \in Bags :
    x # y /\ bags[b] = Nil /\ unsaved[x].bags[b] # Nil => unsaved[y].bags[b] = Nil

(* What a session has seen is old at worst.                                *)
SeenEarlier == \A x \in Sessions : Earlier(seen[x], bags)

SessionsInv ==
  /\ TypeOK
  /\ \A x \in Sessions : WorkIsKnown(x)
  /\ IdsDiffer
  /\ SeenEarlier

BaggageInv ==
  /\ SessionsInv
  /\ NeverOvercharged
  /\ NothingIsFree
  /\ NeverStuckWaiting

(* Fees are natural numbers, and what has been seen earlier makes them     *)
(* lower.                                                                  *)
LEMMA FeesAreLow ==
  ASSUME NEW old \in Rows, NEW new \in Rows, Earlier(old, new), NEW w \in Nat
  PROVE  /\ FeeForBag(old, w) \in Nat
         /\ FeePerKg * Excess(TotalWeight(new)) + FeeForBag(old, w)
              <= FeePerKg * Excess(TotalWeight(new) + w)
<1> DEFINE m == TotalWeight(old)
           n == TotalWeight(new)
<1>1. m \in Nat /\ n \in Nat /\ m <= n
  BY SumsAreNatural, SumsOfEarlier
<1> HIDE DEF m, n
<1>2. /\ Excess(m) \in Nat /\ Excess(n) \in Nat
      /\ Excess(m + w) \in Nat /\ Excess(n + w) \in Nat
      /\ Excess(m) <= Excess(m + w) /\ Excess(n) <= Excess(n + w)
      /\ Excess(m + w) - Excess(m) <= Excess(n + w) - Excess(n)
  BY <1>1, WeightAssumption DEF Excess
<1>3. /\ Excess(m + w) - Excess(m) \in Nat
      /\ Excess(n + w) - Excess(n) \in Nat
  BY <1>2
<1>4. /\ FeePerKg * (Excess(m + w) - Excess(m)) \in Nat
      /\ FeePerKg * (Excess(m + w) - Excess(m)) <= FeePerKg * (Excess(n + w) - Excess(n))
  BY <1>2, <1>3, FeesGrow
<1>5. FeePerKg * (Excess(n + w) - Excess(n))
        = FeePerKg * Excess(n + w) - FeePerKg * Excess(n)
  BY <1>2, WeightAssumption
<1>6. /\ FeePerKg * Excess(n) \in Nat /\ FeePerKg * Excess(n + w) \in Nat
  BY <1>2, FeesGrow
<1>7. FeeForBag(old, w) = FeePerKg * (Excess(m + w) - Excess(m))
  BY DEF FeeForBag, m
<1>8. FeePerKg * Excess(n) + FeeForBag(old, w) <= FeePerKg * Excess(n + w)
  BY <1>4, <1>5, <1>6, <1>7
<1> QED
  BY <1>4, <1>7, <1>8 DEF n

(* What is settled was seen, and it is settled as it was seen. *)
LEMMA SettledWasSeen ==
  ASSUME NEW rows \in Rows
  PROVE  /\ Settled(rows, Owing(rows)) \in Rows
         /\ \A b \in Bags : Settled(rows, Owing(rows))[b] # Nil =>
              b \in Owing(rows) /\ rows[b] # Nil
         /\ \A b \in Owing(rows) :
              /\ b \in Bags /\ rows[b] \in Bag
              /\ Settled(rows, Owing(rows))[b] \in Bag
              /\ Settled(rows, Owing(rows))[b] # Nil
              /\ Settled(rows, Owing(rows))[b].weight_kg = rows[b].weight_kg
              /\ Settled(rows, Owing(rows))[b].excess_fee = rows[b].excess_fee
              /\ Settled(rows, Owing(rows))[b].fee_paid = TRUE
  BY NilAssumption DEF Settled, Owing, Present, Rows, Bag

LEMMA NilIsApart == Nil \notin Bag /\ Nil \notin CheckInStatuses
  BY NilAssumption

(***************************************************************************)
(* Steps before the end of a transaction                                   *)
(***************************************************************************)

OnlyOf(x) ==
  \A y \in Sessions \ {x} :
    /\ pc'[y] = pc[y] /\ opened'[y] = opened[y] /\ seen'[y] = seen[y]
    /\ request'[y] = request[y] /\ unsaved'[y] = unsaved[y]

(* A step that commits nothing has to be right for its own session only. *)
LEMMA LocalStep ==
  ASSUME SessionsInv, TypeOK', NEW x \in Sessions, OnlyOf(x),
         bags' = bags, WorkIsKnown(x)', Earlier(seen'[x], bags),
         \A b \in Bags : \A y \in Sessions \ {x} :
           bags[b] = Nil /\ unsaved'[x].bags[b] # Nil => unsaved[y].bags[b] = Nil
  PROVE  SessionsInv'
<1>1. ASSUME NEW y \in Sessions \ {x}
      PROVE  WorkIsKnown(y)'
  <2>1. /\ pc'[y] = pc[y] /\ seen'[y] = seen[y]
        /\ request'[y] = request[y] /\ unsaved'[y] = unsaved[y]
    BY DEF OnlyOf
  <2>2. WorkIsKnown(y)
    BY DEF SessionsInv
  <2>3. NewBag(y)' = NewBag(y)
    BY <2>1 DEF NewBag
  <2>4. Adds(y)' <=> Adds(y)
    BY <2>1, <2>3 DEF Adds
  <2>5. (Pays(y)' <=> Pays(y)) /\ (Completes(y)' <=> Completes(y))
    BY <2>1 DEF Pays, Completes
  <2> QED
    BY <2>1, <2>2, <2>4, <2>5 DEF WorkIsKnown
<1>2. IdsDiffer'
  <2> SUFFICES ASSUME NEW y \in Sessions, NEW z \in Sessions, NEW b \in Bags, y # z,
                      bags[b] = Nil, unsaved'[y].bags[b] # Nil
               PROVE  unsaved'[z].bags[b] = Nil
    BY DEF IdsDiffer
  <2>1. \A u \in Sessions \ {x} : unsaved'[u] = unsaved[u]
    BY DEF OnlyOf
  <2>2. \A u, v \in Sessions : u # v /\ unsaved[u].bags[b] # Nil => unsaved[v].bags[b] = Nil
    BY DEF SessionsInv, IdsDiffer
  <2>3. CASE y = x
    BY <2>1, <2>3
  <2>4. CASE z = x
    BY <2>1, <2>4
  <2>5. CASE y # x /\ z # x
    BY <2>1, <2>2, <2>5
  <2> QED
    BY <2>3, <2>4, <2>5
<1>3. SeenEarlier'
  <2>1. \A y \in Sessions \ {x} : seen'[y] = seen[y] /\ Earlier(seen[y], bags)
    BY DEF OnlyOf, SessionsInv, SeenEarlier
  <2> QED
    BY <2>1 DEF SeenEarlier, Earlier
<1> QED
  BY <1>1, <1>2, <1>3 DEF SessionsInv

(* Nothing written, and nothing seen. *)
LEMMA NothingIsFine ==
  /\ NothingUnsaved \in Unsaved
  /\ NoBags \in Rows
  /\ \A b \in Bags : NothingUnsaved.bags[b] = Nil /\ NoBags[b] = Nil
  /\ Earlier(NoBags, bags)
  BY DEF NothingUnsaved, Unsaved, NoBags, Rows, CheckInStatuses, Earlier

(* The requests begin. *)
LEMMA BeginningsKeepInv ==
  ASSUME SessionsInv, NEW x \in Sessions,
         \/ \E w \in Weights : AddBaggage(x, w)
         \/ ProcessPayment(x)
  PROVE  SessionsInv'
<1> USE DEF SessionsInv
<1>1. PICK l \in {"add", "pay", "abort"}, w \in Weights \cup {request[x]} :
        /\ pc[x] = "idle"
        /\ pc' = [pc EXCEPT ![x] = l]
        /\ opened' = [opened EXCEPT ![x] = status]
        /\ request' = [request EXCEPT ![x] = w]
        /\ l = "add" => w \in Weights
        /\ UNCHANGED <<status, bags, collected, seen, unsaved>>
  <2>1. request = [request EXCEPT ![x] = request[x]]
    BY DEF TypeOK
  <2>2. CASE ProcessPayment(x)
    BY <2>1, <2>2 DEF ProcessPayment, Open, Goto
  <2>3. CASE \E w \in Weights : AddBaggage(x, w)
    BY <2>3 DEF AddBaggage, Open, Goto
  <2> QED
    BY <2>2, <2>3
<1>2. TypeOK' /\ OnlyOf(x)
  BY <1>1 DEF TypeOK, OnlyOf
<1>3. unsaved'[x] = NothingUnsaved
  BY <1>1 DEF WorkIsKnown
<1>4. WorkIsKnown(x)'
  <2>1. pc'[x] = l /\ request'[x] = w
    BY <1>1 DEF TypeOK
  <2> QED
    BY <1>1, <1>3, <2>1 DEF WorkIsKnown
<1>5. Earlier(seen'[x], bags)
  BY <1>1 DEF SeenEarlier
<1> QED
  BY <1>1, <1>2, <1>3, <1>4, <1>5, NothingIsFine, LocalStep

(* A payment has read the bags, and it waits for the gateway.              *)
LEMMA InsertPaymentKeepsInv ==
  ASSUME SessionsInv, NEW x \in Sessions, InsertPayment(x)
  PROVE  SessionsInv'
<1> USE DEF SessionsInv
<1>1. unsaved[x] = NothingUnsaved
  BY DEF InsertPayment, WorkIsKnown
<1>2. bags \in Rows /\ Required(bags) \in Nat /\ Earlier(bags, bags)
  <2>1. bags \in Rows
    BY DEF TypeOK, Rows
  <2> QED
    BY <2>1, RowsWeigh, SumsAreNatural DEF Required, Earlier
<1>3. PICK l \in {"gateway", "abort"}, u \in {NothingUnsaved,
                                             [NothingUnsaved EXCEPT !.amount = Required(bags)]} :
        /\ pc[x] = "pay"
        /\ pc' = [pc EXCEPT ![x] = l]
        /\ unsaved' = [unsaved EXCEPT ![x] = u]
        /\ seen' = [seen EXCEPT ![x] = bags]
        /\ l = "abort" => u = NothingUnsaved
        /\ l = "gateway" => u = [NothingUnsaved EXCEPT !.amount = Required(bags)]
        /\ UNCHANGED <<status, bags, collected, opened, request>>
  <2>1. unsaved = [unsaved EXCEPT ![x] = NothingUnsaved]
    BY <1>1 DEF TypeOK
  <2>2. [unsaved EXCEPT ![x].amount = Required(bags)]
          = [unsaved EXCEPT ![x] = [NothingUnsaved EXCEPT !.amount = Required(bags)]]
    BY <1>1 DEF TypeOK
  <2> QED
    BY <2>1, <2>2 DEF InsertPayment, Goto
<1>4. u \in Unsaved /\ \A b \in Bags : u.bags[b] = Nil
  BY <1>2, NothingIsFine DEF Unsaved, NothingUnsaved
<1>5. TypeOK'
  BY <1>2, <1>3, <1>4 DEF TypeOK, Rows
<1>6. pc'[x] = l /\ unsaved'[x] = u /\ seen'[x] = bags
  BY <1>3 DEF TypeOK
<1>7. OnlyOf(x)
  BY <1>3 DEF TypeOK, OnlyOf
<1>8. WorkIsKnown(x)'
  BY <1>3, <1>6 DEF WorkIsKnown
<1> QED
  BY <1>2, <1>3, <1>4, <1>5, <1>6, <1>7, <1>8, LocalStep

(* A bag is inserted, priced from the bags that are there.                 *)
LEMMA InsertBagKeepsInv ==
  ASSUME SessionsInv, NEW x \in Sessions, NEW b \in Bags, InsertBag(x, b)
  PROVE  SessionsInv'
<1> USE DEF SessionsInv
<1> DEFINE fee  == FeeForBag(bags, request[x])
           sent == fee > 0 /\ opened[x] # "WAITING_FOR_PAYMENT"
           s    == IF sent THEN "WAITING_FOR_PAYMENT" ELSE Nil
           bag  == [weight_kg |-> request[x], excess_fee |-> fee, fee_paid |-> FALSE]
           u    == [status |-> s, bags |-> [NoBags EXCEPT ![b] = bag], amount |-> 0]
<1>1. unsaved[x] = NothingUnsaved /\ request[x] \in Weights
  BY DEF InsertBag, WorkIsKnown
<1>2. bags \in Rows /\ Earlier(bags, bags) /\ request[x] \in Nat
  <2>1. \A w \in 1..50 : w \in Nat
    OBVIOUS
  <2>2. Earlier(bags, bags)
    BY DEF Earlier
  <2> QED
    BY <1>1, <2>1, <2>2, WeightAssumption DEF TypeOK, Rows
<1>3. fee \in Nat
  BY <1>2, FeesAreLow
<1>4. bag \in Bag
  BY <1>2, <1>3 DEF Bag
<1>5. unsaved' = [unsaved EXCEPT ![x] = u]
  BY DEF InsertBag
<1> HIDE DEF fee
<1>6. u \in Unsaved
  <2>1. s \in CheckInStatuses \cup {Nil}
    BY DEF CheckInStatuses
  <2>2. [NoBags EXCEPT ![b] = bag] \in [Bags -> Bag \cup {Nil}]
    BY <1>4 DEF NoBags
  <2> HIDE DEF s, bag
  <2> QED
    BY <2>1, <2>2 DEF Unsaved
<1>7. TypeOK'
  <2> HIDE DEF u
  <2>1. bags \in [Bags -> Bag \cup {Nil}]
    BY DEF TypeOK
  <2>2. pc' \in [Sessions -> {"idle", "add", "pay", "gateway", "update", "commit", "abort"}]
    BY DEF TypeOK, InsertBag, Goto
  <2>3. seen' \in [Sessions -> [Bags -> Bag \cup {Nil}]]
    BY <2>1 DEF TypeOK, InsertBag
  <2>4. unsaved' \in [Sessions -> Unsaved]
    BY <1>5, <1>6 DEF TypeOK
  <2> QED
    BY <2>2, <2>3, <2>4 DEF TypeOK, InsertBag
<1>8. /\ pc'[x] = (IF sent THEN "update" ELSE "commit")
      /\ seen'[x] = bags /\ request'[x] = request[x] /\ unsaved'[x] = u
      /\ bags' = bags
  BY <1>5 DEF InsertBag, Goto, TypeOK, fee
<1>9. OnlyOf(x)
  BY <1>5 DEF OnlyOf, InsertBag, Goto, TypeOK
<1>10. NewBag(x)' = bag
  BY <1>8 DEF NewBag, fee
<1>11. bags[b] = Nil /\ \A y \in Sessions : unsaved[y].bags[b] = Nil
  BY DEF InsertBag, Fresh
<1>12. Adds(x)'
  <2>1. s \in {Nil, "WAITING_FOR_PAYMENT"} /\ (s # Nil => bag.excess_fee > 0)
    OBVIOUS
  <2> HIDE DEF s, bag
  <2> QED
    BY <1>1, <1>8, <1>10, <1>11, <2>1 DEF Adds
<1>13. WorkIsKnown(x)'
  BY <1>8, <1>12 DEF WorkIsKnown
<1>14. \A c \in Bags : u.bags[c] # Nil => c = b
  BY DEF NoBags
<1> QED
  BY <1>2, <1>7, <1>8, <1>9, <1>11, <1>13, <1>14, LocalStep

(* The gateway has answered, and the payment is settled in the session.    *)
LEMMA RecordPaymentKeepsInv ==
  ASSUME SessionsInv, NEW x \in Sessions, RecordPayment(x)
  PROVE  SessionsInv'
<1> USE DEF SessionsInv
<1> DEFINE settled == Settled(seen[x], Owing(seen[x]))
           u == [status |-> "IN_PROGRESS", bags |-> settled, amount |-> Required(seen[x])]
<1>1. unsaved[x] = [NothingUnsaved EXCEPT !.amount = Required(seen[x])]
  BY DEF RecordPayment, WorkIsKnown
<1>2. seen[x] \in Rows /\ Required(seen[x]) \in Nat
  <2>1. seen[x] \in Rows
    BY DEF TypeOK, Rows
  <2> QED
    BY <2>1, RowsWeigh, SumsAreNatural DEF Required
<1>3. settled \in Rows
  BY <1>2, SettledWasSeen
<1>4. \A b \in Bags : settled[b] # Nil => bags[b] # Nil
  BY <1>2, SettledWasSeen DEF SeenEarlier, Earlier
<1> HIDE DEF settled
<1>5. unsaved' = [unsaved EXCEPT ![x] = u]
  <2>1. unsaved[x].amount = Required(seen[x])
    BY <1>1 DEF NothingUnsaved
  <2> QED
    BY <2>1 DEF RecordPayment, settled
<1>6. u \in Unsaved
  BY <1>2, <1>3 DEF Unsaved, Rows, CheckInStatuses
<1>7. TypeOK'
  BY <1>5, <1>6 DEF TypeOK, RecordPayment, Goto
<1>8. pc'[x] = "commit" /\ seen' = seen /\ unsaved'[x] = u /\ bags' = bags
  BY <1>5 DEF RecordPayment, Goto, TypeOK
<1>9. OnlyOf(x)
  BY <1>5 DEF OnlyOf, RecordPayment, Goto, TypeOK
<1>10. WorkIsKnown(x)'
  BY <1>8 DEF WorkIsKnown, Pays, settled
<1>11. Earlier(seen'[x], bags)
  BY <1>8 DEF SeenEarlier
<1> QED
  BY <1>4, <1>7, <1>8, <1>9, <1>10, <1>11, LocalStep

(* The completion, and the wait of an UPDATE.                              *)
LEMMA UpdatesKeepInv ==
  ASSUME SessionsInv, NEW x \in Sessions, CompleteCheckIn(x) \/ UpdateStatus(x)
  PROVE  SessionsInv'
<1> USE DEF SessionsInv
<1>1. CASE UpdateStatus(x)
  <2>1. TypeOK' /\ OnlyOf(x)
    BY <1>1 DEF UpdateStatus, Goto, TypeOK, OnlyOf
  <2>2. WorkIsKnown(x)
    OBVIOUS
  <2>3. /\ pc[x] = "update" /\ pc'[x] = "commit" /\ UNCHANGED <<bags, seen, request, unsaved>>
    BY <1>1 DEF UpdateStatus, Goto, TypeOK
  <2>4. (Adds(x) \/ Pays(x) \/ Completes(x)) /\ UNCHANGED Adds(x)
        /\ UNCHANGED Pays(x) /\ UNCHANGED Completes(x)
    BY <2>2, <2>3 DEF WorkIsKnown, Adds, Pays, Completes, NewBag
  <2>5. WorkIsKnown(x)'
    BY <2>3, <2>4 DEF WorkIsKnown
  <2>6. Earlier(seen'[x], bags)
    BY <2>3 DEF SeenEarlier
  <2> QED
    BY <2>1, <2>3, <2>5, <2>6, LocalStep DEF IdsDiffer
<1>2. CASE CompleteCheckIn(x)
  <2> DEFINE done == [status |-> "COMPLETED", bags |-> NoBags, amount |-> 0]
  <2>1. pc[x] = "idle" /\ unsaved[x] = NothingUnsaved
    BY <1>2 DEF CompleteCheckIn, Open, WorkIsKnown
  <2>2. PICK l \in {"update", "abort"}, u \in {NothingUnsaved, done} :
          /\ pc' = [pc EXCEPT ![x] = l]
          /\ opened' = [opened EXCEPT ![x] = status]
          /\ unsaved' = [unsaved EXCEPT ![x] = u]
          /\ l = "abort" => u = NothingUnsaved
          /\ l = "update" => u = done
          /\ UNCHANGED <<status, bags, collected, seen, request>>
    <3>1. unsaved = [unsaved EXCEPT ![x] = NothingUnsaved]
      BY <2>1 DEF TypeOK
    <3>2. [unsaved EXCEPT ![x].status = "COMPLETED"] = [unsaved EXCEPT ![x] = done]
      <4>1. [NothingUnsaved EXCEPT !.status = "COMPLETED"] = done
        BY DEF NothingUnsaved
      <4> HIDE DEF done
      <4> QED
        BY <2>1, <4>1 DEF TypeOK
    <3> HIDE DEF done
    <3> QED
      BY <1>2, <3>1, <3>2 DEF CompleteCheckIn, Open, Goto
  <2>3. u \in Unsaved /\ \A b \in Bags : u.bags[b] = Nil
    BY NothingIsFine DEF Unsaved, Rows, CheckInStatuses
  <2>4. TypeOK' /\ OnlyOf(x)
    BY <2>2, <2>3 DEF TypeOK, OnlyOf
  <2>5. pc'[x] = l /\ unsaved'[x] = u /\ seen'[x] = seen[x] /\ bags' = bags
    BY <2>2 DEF TypeOK
  <2>6. WorkIsKnown(x)'
    BY <2>2, <2>5 DEF WorkIsKnown, Completes
  <2>7. Earlier(seen'[x], bags)
    BY <2>5 DEF SeenEarlier
  <2> QED
    BY <2>3, <2>4, <2>5, <2>6, <2>7, LocalStep
<1> QED
  BY <1>1, <1>2

(***************************************************************************)
(* The end of a transaction                                                *)
(***************************************************************************)

(* An exception leaves nothing of the session.                             *)
LEMMA AbandonKeepsInv ==
  ASSUME SessionsInv, NEW x \in Sessions, Abandon(x)
  PROVE  SessionsInv'
<1> USE DEF SessionsInv
<1>1. TypeOK' /\ OnlyOf(x)
  BY NothingIsFine DEF Abandon, EndSession, Goto, TypeOK, OnlyOf, Rows
<1>2. /\ pc'[x] = "idle" /\ unsaved'[x] = NothingUnsaved
      /\ seen'[x] = NoBags /\ bags' = bags
  BY DEF Abandon, EndSession, Goto, TypeOK
<1>3. WorkIsKnown(x)'
  BY <1>2 DEF WorkIsKnown
<1> QED
  BY <1>1, <1>2, <1>3, NothingIsFine, LocalStep

LEMMA NewBagsAreBags ==
  ASSUME TypeOK, NEW x \in Sessions, request[x] \in Weights
  PROVE  NewBag(x) \in Bag /\ NewBag(x) # Nil /\ request[x] \in Nat /\ seen[x] \in Rows
<1>1. seen[x] \in Rows /\ request[x] \in Nat /\ Earlier(seen[x], seen[x])
  <2>1. \A w \in 1..50 : w \in Nat
    OBVIOUS
  <2>2. Earlier(seen[x], seen[x])
    BY DEF Earlier
  <2> QED
    BY <2>1, <2>2, WeightAssumption DEF TypeOK, Rows
<1>2. FeeForBag(seen[x], request[x]) \in Nat
  BY <1>1, FeesAreLow
<1>3. NewBag(x) \in Bag
  BY <1>1, <1>2 DEF NewBag, Bag
<1> QED
  BY <1>1, <1>3, NilIsApart

(* What a COMMIT makes of the tables: a new bag, a payment, a completion.  *)
BagCommitted(x, b) ==
  /\ bags[b] = Nil
  /\ bags' = [bags EXCEPT ![b] = NewBag(x)]
  /\ request[x] \in Weights
  /\ collected' = collected
  /\ unsaved[x].bags[b] # Nil
  /\ \/ status' = status /\ unsaved[x].status = Nil
     \/ status' = "WAITING_FOR_PAYMENT" /\ NewBag(x).excess_fee > 0

PaymentCommitted(x) ==
  /\ bags' = [b \in Bags |-> IF b \in Owing(seen[x])
                              THEN Settled(seen[x], Owing(seen[x]))[b]
                              ELSE bags[b]]
  /\ collected' = collected + Required(seen[x])
  /\ status' = "IN_PROGRESS"

CompletionCommitted == bags' = bags /\ collected' = collected /\ status' = "COMPLETED"

LEMMA CommitIsKnown ==
  ASSUME SessionsInv, NEW x \in Sessions, Commit(x)
  PROVE  \/ Adds(x) /\ \E b \in Bags : BagCommitted(x, b)
         \/ Pays(x) /\ PaymentCommitted(x)
         \/ Completes(x) /\ CompletionCommitted
<1> USE DEF SessionsInv
<1>1. /\ status' = IF unsaved[x].status = Nil THEN status ELSE unsaved[x].status
      /\ bags' = [b \in Bags |-> IF unsaved[x].bags[b] = Nil
                                  THEN bags[b] ELSE unsaved[x].bags[b]]
      /\ collected' = collected + unsaved[x].amount
      /\ collected \in Nat /\ bags \in Rows /\ seen[x] \in Rows
  BY DEF Commit, TypeOK, Rows
<1>2. Adds(x) \/ Pays(x) \/ Completes(x)
  BY DEF Commit, WorkIsKnown
<1>3. CASE Adds(x)
  <2>1. PICK b \in Bags, s \in {Nil, "WAITING_FOR_PAYMENT"} :
          /\ unsaved[x] = [status |-> s, bags |-> [NoBags EXCEPT ![b] = NewBag(x)],
                           amount |-> 0]
          /\ bags[b] = Nil
          /\ s # Nil => NewBag(x).excess_fee > 0
          /\ request[x] \in Weights
    BY <1>3 DEF Adds
  <2>2. NewBag(x) # Nil
    BY <2>1, NewBagsAreBags
  <2>3. \A c \in Bags : unsaved[x].bags[c] = IF c = b THEN NewBag(x) ELSE Nil
    BY <2>1 DEF NoBags
  <2>4. bags' = [bags EXCEPT ![b] = NewBag(x)]
    BY <1>1, <2>2, <2>3 DEF Rows
  <2>5. unsaved[x].status = s /\ unsaved[x].amount = 0
    BY <2>1
  <2>6. collected' = collected
    BY <1>1, <2>5
  <2>7. \/ status' = status /\ unsaved[x].status = Nil
        \/ status' = "WAITING_FOR_PAYMENT" /\ NewBag(x).excess_fee > 0
    BY <1>1, <2>1, <2>5
  <2>8. BagCommitted(x, b)
    BY <2>1, <2>2, <2>3, <2>4, <2>6, <2>7 DEF BagCommitted
  <2> QED
    BY <1>3, <2>8
<1>4. CASE Pays(x)
  <2> DEFINE settled == Settled(seen[x], Owing(seen[x]))
  <2>1. /\ unsaved[x].status = "IN_PROGRESS" /\ unsaved[x].bags = settled
        /\ unsaved[x].amount = Required(seen[x])
    BY <1>4 DEF Pays
  <2>2. \A b \in Bags : settled[b] = Nil <=> b \notin Owing(seen[x])
    BY <1>1, SettledWasSeen
  <2> HIDE DEF settled
  <2>3. bags' = [b \in Bags |-> IF b \in Owing(seen[x]) THEN settled[b] ELSE bags[b]]
    BY <1>1, <2>1, <2>2
  <2>4. status' = "IN_PROGRESS"
    BY <1>1, <2>1, NilAssumption DEF CheckInStatuses
  <2> QED
    BY <1>1, <1>4, <2>1, <2>3, <2>4 DEF PaymentCommitted, settled
<1>5. CASE Completes(x)
  <2>1. /\ unsaved[x].status = "COMPLETED" /\ unsaved[x].amount = 0
        /\ \A b \in Bags : unsaved[x].bags[b] = Nil
    BY <1>5 DEF Completes, NoBags
  <2>2. bags' = bags
    BY <1>1, <2>1 DEF Rows
  <2>3. status' = "COMPLETED"
    BY <1>1, <2>1, NilAssumption DEF CheckInStatuses
  <2> QED
    BY <1>1, <1>5, <2>1, <2>2, <2>3 DEF CompletionCommitted
<1> QED
  BY <1>2, <1>3, <1>4, <1>5

(* A COMMIT loses no bag, changes no fee and takes no payment back.        *)
LEMMA CommitKeepsBags ==
  ASSUME SessionsInv, NEW x \in Sessions, Commit(x)
  PROVE  /\ bags' \in Rows
         /\ Earlier(bags, bags')
         /\ status' \in CheckInStatuses
         /\ collected' \in Nat
<1> USE DEF SessionsInv
<1>1. /\ bags \in Rows /\ seen[x] \in Rows /\ collected \in Nat
      /\ status \in CheckInStatuses /\ Earlier(seen[x], bags)
  BY DEF TypeOK, Rows, SeenEarlier
<1>2. CASE \E b \in Bags : BagCommitted(x, b)
  <2>1. PICK b \in Bags : BagCommitted(x, b)
    BY <1>2
  <2>2. NewBag(x) \in Bag
    BY <2>1, NewBagsAreBags DEF BagCommitted
  <2>3. bags' \in Rows
    BY <1>1, <2>1, <2>2 DEF BagCommitted, Rows
  <2>4. Earlier(bags, bags')
    BY <1>1, <2>1 DEF BagCommitted, Rows, Earlier
  <2> QED
    BY <1>1, <2>1, <2>3, <2>4 DEF BagCommitted, CheckInStatuses
<1>3. CASE PaymentCommitted(x)
  <2> DEFINE settled == Settled(seen[x], Owing(seen[x]))
  <2>1. settled \in Rows
    BY <1>1, SettledWasSeen
  <2>2. \A b \in Owing(seen[x]) :
          /\ b \in Bags /\ settled[b] \in Bag /\ settled[b] # Nil
          /\ settled[b].weight_kg = seen[x][b].weight_kg
          /\ settled[b].excess_fee = seen[x][b].excess_fee
          /\ settled[b].fee_paid = TRUE
          /\ seen[x][b] # Nil
    BY <1>1, SettledWasSeen DEF Owing, Present
  <2> HIDE DEF settled
  <2>3. bags' = [b \in Bags |-> IF b \in Owing(seen[x]) THEN settled[b] ELSE bags[b]]
    BY <1>3 DEF PaymentCommitted, settled
  <2>4. bags' \in Rows
    BY <1>1, <2>1, <2>3 DEF Rows
  <2>5. ASSUME NEW b \in Bags, bags[b] # Nil
        PROVE  /\ bags'[b] # Nil
               /\ bags'[b].weight_kg = bags[b].weight_kg
               /\ bags'[b].excess_fee = bags[b].excess_fee
               /\ bags[b].fee_paid => bags'[b].fee_paid
    <3>1. CASE b \in Owing(seen[x])
      <4>1. bags'[b] = settled[b] /\ seen[x][b] # Nil
        BY <2>2, <2>3, <3>1
      <4>2. /\ seen[x][b].weight_kg = bags[b].weight_kg
            /\ seen[x][b].excess_fee = bags[b].excess_fee
        BY <1>1, <4>1 DEF Earlier
      <4> QED
        BY <2>2, <3>1, <4>1, <4>2
    <3>2. CASE b \notin Owing(seen[x])
      BY <2>3, <2>5, <3>2
    <3> QED
      BY <3>1, <3>2
  <2>6. Earlier(bags, bags')
    BY <2>5 DEF Earlier
  <2>7. Required(seen[x]) \in Nat
    BY <1>1, RowsWeigh, SumsAreNatural DEF Required
  <2> QED
    BY <1>1, <1>3, <2>4, <2>6, <2>7 DEF PaymentCommitted, CheckInStatuses
<1>4. CASE CompletionCommitted
  BY <1>1, <1>4 DEF CompletionCommitted, CheckInStatuses, Earlier
<1> QED
  BY <1>2, <1>3, <1>4, CommitIsKnown

LEMMA EarlierIsTransitive ==
  ASSUME NEW first, NEW second, NEW third, Earlier(first, second), Earlier(second, third)
  PROVE  Earlier(first, third)
  BY DEF Earlier

(* The other sessions go on with what they have seen and written.          *)
LEMMA CommitKeepsInv ==
  ASSUME SessionsInv, NEW x \in Sessions, Commit(x)
  PROVE  SessionsInv'
<1> USE DEF SessionsInv
<1>1. /\ bags' \in Rows /\ Earlier(bags, bags')
      /\ status' \in CheckInStatuses /\ collected' \in Nat
  BY CommitKeepsBags
<1>2. TypeOK'
  BY <1>1, NothingIsFine DEF TypeOK, Rows, Commit, EndSession, Goto
<1>3. OnlyOf(x)
  BY DEF OnlyOf, TypeOK, Commit, EndSession, Goto
<1>4. pc'[x] = "idle" /\ unsaved'[x] = NothingUnsaved /\ seen'[x] = NoBags
  BY DEF TypeOK, Commit, EndSession, Goto
<1>5. \A y \in Sessions \ {x} : unsaved'[y] = unsaved[y] /\ seen'[y] = seen[y]
                               /\ request'[y] = request[y] /\ pc'[y] = pc[y]
  BY <1>3 DEF OnlyOf
<1>6. \A b \in Bags : bags'[b] = Nil => bags[b] = Nil
  BY <1>1 DEF Earlier
<1>7. ASSUME NEW y \in Sessions \ {x}, Adds(y)
      PROVE  Adds(y)'
  <2>1. PICK b \in Bags, s \in {Nil, "WAITING_FOR_PAYMENT"} :
          /\ unsaved[y] = [status |-> s, bags |-> [NoBags EXCEPT ![b] = NewBag(y)],
                           amount |-> 0]
          /\ bags[b] = Nil
          /\ s # Nil => NewBag(y).excess_fee > 0
          /\ request[y] \in Weights
    BY <1>7 DEF Adds
  <2>2. unsaved[y].bags[b] # Nil
    BY <2>1, NewBagsAreBags DEF NoBags
  <2>3. unsaved[x].bags[b] = Nil
    BY <2>1, <2>2 DEF IdsDiffer
  <2>4. bags'[b] = Nil
    BY <2>1, <2>3 DEF Commit
  <2>5. NewBag(y)' = NewBag(y)
    BY <1>5 DEF NewBag
  <2> QED
    BY <1>5, <2>1, <2>4, <2>5 DEF Adds
<1>8. ASSUME NEW y \in Sessions
      PROVE  WorkIsKnown(y)'
  <2>1. CASE y = x
    BY <1>4, <2>1 DEF WorkIsKnown
  <2>2. CASE y # x
    <3>1. (Pays(y)' <=> Pays(y)) /\ (Completes(y)' <=> Completes(y))
      BY <1>5, <2>2 DEF Pays, Completes
    <3>2. WorkIsKnown(y)
      OBVIOUS
    <3> QED
      BY <1>5, <1>7, <2>2, <3>1, <3>2 DEF WorkIsKnown
  <2> QED
    BY <2>1, <2>2
<1>9. IdsDiffer'
  <2> SUFFICES ASSUME NEW y \in Sessions, NEW z \in Sessions, NEW b \in Bags, y # z,
                      bags'[b] = Nil, unsaved'[y].bags[b] # Nil
               PROVE  unsaved'[z].bags[b] = Nil
    BY DEF IdsDiffer
  <2>1. y # x
    BY <1>4, NothingIsFine
  <2>2. unsaved[z].bags[b] = Nil
    BY <1>5, <1>6, <2>1 DEF IdsDiffer
  <2>3. CASE z = x
    BY <1>4, <2>3, NothingIsFine
  <2>4. CASE z # x
    BY <1>5, <2>2, <2>4
  <2> QED
    BY <2>3, <2>4
<1>10. SeenEarlier'
  <2> SUFFICES ASSUME NEW y \in Sessions PROVE Earlier(seen'[y], bags')
    BY DEF SeenEarlier
  <2>1. CASE y = x
    BY <1>4, <2>1 DEF Earlier, NoBags
  <2>2. CASE y # x
    <3>1. Earlier(seen'[y], bags)
      BY <1>5, <2>2 DEF SeenEarlier
    <3> QED
      BY <1>1, <3>1, EarlierIsTransitive
  <2> QED
    BY <2>1, <2>2
<1> QED
  BY <1>2, <1>8, <1>9, <1>10

(***************************************************************************)
(* What the passenger pays                                                 *)
(***************************************************************************)

Money == NeverOvercharged /\ NothingIsFree /\ NeverStuckWaiting

(* A new bag costs what it adds to the excess of the bags seen, at most    *)
(* what it adds to that of the bags there are.                             *)
LEMMA NewBagKeepsMoney ==
  ASSUME SessionsInv, Money, NEW x \in Sessions, NEW b \in Bags, BagCommitted(x, b)
  PROVE  Money'
<1> USE DEF SessionsInv, Money
<1>1. /\ bags \in Rows /\ seen[x] \in Rows /\ Earlier(seen[x], bags)
      /\ NewBag(x) \in Bag /\ NewBag(x) # Nil /\ request[x] \in Nat
  BY NewBagsAreBags DEF TypeOK, Rows, SeenEarlier, BagCommitted
<1>2. /\ bags[b] = Nil /\ bags' = [bags EXCEPT ![b] = NewBag(x)]
      /\ collected' = collected
  BY DEF BagCommitted
<1>3. /\ NewBag(x).weight_kg = request[x] /\ NewBag(x).fee_paid = FALSE
      /\ NewBag(x).excess_fee = FeeForBag(seen[x], request[x])
  BY DEF NewBag
<1>4. /\ bags' \in Rows
      /\ Present(bags') = Present(bags) \cup {b}
      /\ TotalWeight(bags') = TotalWeight(bags) + request[x]
      /\ TotalFee(bags', Present(bags'))
           = TotalFee(bags, Present(bags)) + FeeForBag(seen[x], request[x])
      /\ \A some \in SUBSET Present(bags) : TotalFee(bags', some) = TotalFee(bags, some)
  <2>1. /\ bags' \in Rows
        /\ Present(bags') = Present(bags) \cup {b}
        /\ TotalWeight(bags') = TotalWeight(bags) + NewBag(x).weight_kg
        /\ TotalFee(bags', Present(bags'))
             = TotalFee(bags, Present(bags)) + NewBag(x).excess_fee
        /\ \A some \in SUBSET Present(bags) : TotalFee(bags', some) = TotalFee(bags, some)
    <3>1. bags' = With(bags, b, NewBag(x))
      BY <1>2 DEF With
    <3>2. /\ With(bags, b, NewBag(x)) \in Rows
          /\ Present(With(bags, b, NewBag(x))) = Present(bags) \cup {b}
          /\ TotalWeight(With(bags, b, NewBag(x)))
               = TotalWeight(bags) + NewBag(x).weight_kg
          /\ TotalFee(With(bags, b, NewBag(x)), Present(With(bags, b, NewBag(x))))
               = TotalFee(bags, Present(bags)) + NewBag(x).excess_fee
          /\ \A some \in SUBSET Present(bags) :
               TotalFee(With(bags, b, NewBag(x)), some) = TotalFee(bags, some)
      <4>1. bags \in Rows /\ NewBag(x) \in Bag /\ bags[b] = Nil
        BY <1>1, <1>2
      <4> QED
        BY <4>1, SumsOfOneMore
    <3> QED
      BY <3>1, <3>2
  <2> QED
    BY <1>3, <2>1
<1>5. NeverOvercharged'
  <2>1. /\ FeeForBag(seen[x], request[x]) \in Nat
        /\ FeePerKg * Excess(TotalWeight(bags)) + FeeForBag(seen[x], request[x])
             <= FeePerKg * Excess(TotalWeight(bags) + request[x])
    BY <1>1, FeesAreLow
  <2>2. TotalFee(bags, Present(bags)) <= FeePerKg * Excess(TotalWeight(bags))
    BY DEF NeverOvercharged, AllFees, DueFees
  <2>3. /\ TotalFee(bags, Present(bags)) \in Nat
        /\ TotalWeight(bags) \in Nat /\ TotalWeight(bags) + request[x] \in Nat
    BY <1>1, SumsAreNatural
  <2>4. /\ FeePerKg * Excess(TotalWeight(bags)) \in Nat
        /\ FeePerKg * Excess(TotalWeight(bags) + request[x]) \in Nat
    <3>1. /\ Excess(TotalWeight(bags)) \in Nat
          /\ Excess(TotalWeight(bags) + request[x]) \in Nat
      BY <2>3, WeightAssumption DEF Excess
    <3> QED
      BY <3>1, FeesGrow
  <2>5. TotalFee(bags', Present(bags')) <= FeePerKg * Excess(TotalWeight(bags'))
    BY <1>4, <2>1, <2>2, <2>3, <2>4
  <2> QED
    BY <2>5 DEF NeverOvercharged, AllFees, DueFees
<1>6. NothingIsFree'
  <2>1. PaidBags' = PaidBags
    BY <1>1, <1>2, <1>3, <1>4 DEF PaidBags, Present, Rows
  <2>2. PaidBags \in SUBSET Present(bags)
    BY DEF PaidBags
  <2>3. TotalFee(bags', PaidBags') = TotalFee(bags, PaidBags)
    BY <1>4, <2>1, <2>2
  <2> QED
    BY <1>2, <2>3 DEF NothingIsFree
<1>7. NeverStuckWaiting'
  <2> SUFFICES ASSUME status' = "WAITING_FOR_PAYMENT"
               PROVE  Required(bags') > 0
    BY DEF NeverStuckWaiting
  <2>1. \A c \in Owing(bags) : c \in Owing(bags')
    BY <1>1, <1>2, <1>4 DEF Owing, Present, Rows
  <2>2. CASE status = "WAITING_FOR_PAYMENT"
    <3>1. Owing(bags) # {}
      BY <1>1, <2>2, DebtIsPositive DEF NeverStuckWaiting
    <3> QED
      BY <1>4, <2>1, <3>1, DebtIsPositive
  <2>3. CASE status # "WAITING_FOR_PAYMENT"
    <3>1. NewBag(x).excess_fee > 0
      BY <2>3 DEF BagCommitted
    <3>2. bags'[b] = NewBag(x)
      BY <1>1, <1>2 DEF Rows
    <3>3. b \in Owing(bags')
      BY <1>3, <1>4, <3>1, <3>2 DEF Owing
    <3> QED
      BY <1>4, <3>3, DebtIsPositive
  <2> QED
    BY <2>2, <2>3
<1> QED
  BY <1>5, <1>6, <1>7

(* A payment has been made of the fees of the bags that it settles. *)
LEMMA PaymentSettles ==
  ASSUME SessionsInv, NEW x \in Sessions, Commit(x), PaymentCommitted(x)
  PROVE  /\ Present(bags') = Present(bags)
         /\ PaidBags' = PaidBags \cup Owing(seen[x])
         /\ Owing(bags') = Owing(bags) \ Owing(seen[x])
         /\ TotalWeight(bags') = TotalWeight(bags)
         /\ \A some \in SUBSET Present(bags) : TotalFee(bags', some) = TotalFee(bags, some)
         /\ Owing(seen[x]) \in SUBSET Present(bags)
         /\ Required(seen[x]) = TotalFee(bags, Owing(seen[x]))
<1> USE DEF SessionsInv
<1> DEFINE settled == Settled(seen[x], Owing(seen[x]))
<1>1. /\ bags \in Rows /\ seen[x] \in Rows /\ Earlier(seen[x], bags)
  BY DEF TypeOK, Rows, SeenEarlier
<1>2. bags' \in Rows /\ Earlier(bags, bags')
  BY CommitKeepsBags
<1>3. \A b \in Owing(seen[x]) :
        /\ b \in Bags /\ settled[b] # Nil /\ settled[b].fee_paid = TRUE
        /\ seen[x][b] # Nil
  BY <1>1, SettledWasSeen DEF Owing, Present
<1>4. \A b \in Bags : bags'[b] = IF b \in Owing(seen[x]) THEN settled[b] ELSE bags[b]
  BY DEF PaymentCommitted
<1>5. \A b \in Owing(seen[x]) : b \in Bags /\ bags[b] # Nil
  BY <1>1, <1>3 DEF Earlier
<1> HIDE DEF settled
<1>6. Present(bags') = Present(bags)
  BY <1>3, <1>4, <1>5 DEF Present
<1>7. PaidBags' = PaidBags \cup Owing(seen[x])
  BY <1>3, <1>4, <1>5, <1>6 DEF PaidBags, Present
<1>8. Owing(bags') = Owing(bags) \ Owing(seen[x])
  <2>1. \A b \in Bags : b \in Owing(bags') <=> b \in Owing(bags) /\ b \notin Owing(seen[x])
    <3> TAKE b \in Bags
    <3>1. CASE b \in Owing(seen[x])
      BY <1>3, <1>4, <3>1 DEF Owing
    <3>2. CASE b \notin Owing(seen[x])
      BY <1>4, <1>6, <3>2 DEF Owing
    <3> QED
      BY <3>1, <3>2
  <2>2. Owing(bags') \subseteq Bags /\ Owing(bags) \subseteq Bags
    BY DEF Owing, Present
  <2> QED
    BY <2>1, <2>2
<1>9. Owing(seen[x]) \in SUBSET Present(bags) /\ Owing(seen[x]) \in SUBSET Present(seen[x])
  BY <1>5 DEF Present, Owing
<1>10. Required(seen[x]) = TotalFee(bags, Owing(seen[x]))
  BY <1>1, <1>9, SumsOfEarlier DEF Required
<1> QED
  BY <1>1, <1>2, <1>6, <1>7, <1>8, <1>9, <1>10, SumsOfEarlier

LEMMA PaymentKeepsMoney ==
  ASSUME SessionsInv, Money, NEW x \in Sessions, Commit(x), PaymentCommitted(x)
  PROVE  Money'
<1> USE DEF Money
<1> DEFINE owed == Owing(seen[x])
<1>1. /\ Present(bags') = Present(bags)
      /\ PaidBags' = PaidBags \cup owed
      /\ TotalWeight(bags') = TotalWeight(bags)
      /\ \A some \in SUBSET Present(bags) : TotalFee(bags', some) = TotalFee(bags, some)
      /\ owed \in SUBSET Present(bags)
      /\ Required(seen[x]) = TotalFee(bags, owed)
  BY PaymentSettles
<1>2. collected' = collected + Required(seen[x]) /\ status' = "IN_PROGRESS"
  BY DEF PaymentCommitted
<1>3. bags \in Rows /\ collected \in Nat
  BY DEF SessionsInv, TypeOK, Rows
<1> HIDE DEF owed
<1>4. NeverOvercharged'
  <2>1. TotalFee(bags', Present(bags')) = TotalFee(bags, Present(bags))
    BY <1>1
  <2> QED
    BY <1>1, <2>1 DEF NeverOvercharged, AllFees, DueFees
<1>5. NothingIsFree'
  <2>1. PaidBags \in SUBSET Present(bags)
    BY DEF PaidBags
  <2>2. TotalFee(bags, PaidBags \cup owed) <= TotalFee(bags, PaidBags) + TotalFee(bags, owed)
    BY <1>1, <1>3, <2>1, FeesOfBoth
  <2>3. TotalFee(bags', PaidBags') = TotalFee(bags, PaidBags \cup owed)
    BY <1>1, <2>1
  <2>4. /\ TotalFee(bags, PaidBags) \in Nat /\ TotalFee(bags, owed) \in Nat
        /\ TotalFee(bags, PaidBags \cup owed) \in Nat
    BY <1>1, <1>3, <2>1, SumsAreNatural
  <2>5. TotalFee(bags, PaidBags) <= collected
    BY DEF NothingIsFree
  <2>6. TotalFee(bags', PaidBags') <= collected'
    BY <1>1, <1>2, <1>3, <2>2, <2>3, <2>4, <2>5
  <2> QED
    BY <2>6 DEF NothingIsFree
<1>6. NeverStuckWaiting'
  BY <1>2 DEF NeverStuckWaiting
<1> QED
  BY <1>4, <1>5, <1>6

LEMMA CommitKeepsMoney ==
  ASSUME SessionsInv, Money, NEW x \in Sessions, Commit(x)
  PROVE  Money'
<1>1. CASE CompletionCommitted
  BY <1>1 DEF CompletionCommitted, Money, NeverOvercharged, AllFees, DueFees,
              NothingIsFree, PaidBags, NeverStuckWaiting
<1> QED
  BY <1>1, CommitIsKnown, NewBagKeepsMoney, PaymentKeepsMoney

(***************************************************************************)
(* Whatever the interleaving                                               *)
(***************************************************************************)

LEMMA InvHoldsInitially == Init => BaggageInv
<1> SUFFICES ASSUME Init PROVE BaggageInv
  OBVIOUS
<1>1. TypeOK
  BY NothingIsFine DEF Init, TypeOK, CheckInStatuses, Rows
<1>2. (\A x \in Sessions : WorkIsKnown(x)) /\ IdsDiffer /\ SeenEarlier
  BY NothingIsFine DEF Init, WorkIsKnown, IdsDiffer, SeenEarlier
<1>3. bags \in Rows /\ Present(bags) = {} /\ PaidBags = {}
  BY NothingIsFine DEF Init, Present, PaidBags
<1>4. TotalFee(bags, {}) = 0
  <2>1. {} \in SUBSET Present(bags)
    OBVIOUS
  <2>2. TotalFee(bags, {}) = Total({}, FeeOf(bags))
    BY <1>3, <2>1, FeesAreTotals
  <2> QED
    BY <2>2, TotalOfNone
<1>5. DueFees \in Nat
  <2>1. Excess(TotalWeight(bags)) \in Nat
    BY <1>3, SumsAreNatural, WeightAssumption DEF Excess
  <2> QED
    BY <2>1, FeesGrow DEF DueFees
<1>6. Money
  BY <1>3, <1>4, <1>5
  DEF Init, Money, NeverOvercharged, AllFees, NothingIsFree, NeverStuckWaiting
<1> QED
  BY <1>1, <1>2, <1>6 DEF BaggageInv, SessionsInv, Money

(* Steps before the COMMIT, and a rollback, change no table. *)
LEMMA TablesAreLeft ==
  ASSUME NEW x \in Sessions, Step(x), ~Commit(x)
  PROVE  UNCHANGED <<status, bags, collected>>
  BY DEF Step, AddBaggage, InsertBag, UpdateStatus, ProcessPayment,
         InsertPayment, RecordPayment, CompleteCheckIn, Abandon

LEMMA InvIsKept == BaggageInv /\ [Next]_vars => BaggageInv'
<1> SUFFICES ASSUME BaggageInv, [Next]_vars
             PROVE  BaggageInv'
  OBVIOUS
<1>1. SessionsInv /\ Money
  BY DEF BaggageInv, Money
<1>2. CASE UNCHANGED vars
  <2>1. /\ UNCHANGED <<status, bags, collected, pc, opened, seen, request, unsaved>>
    BY <1>2 DEF vars
  <2>2. TypeOK' /\ IdsDiffer' /\ SeenEarlier'
    BY <1>1, <2>1 DEF SessionsInv, TypeOK, IdsDiffer, SeenEarlier, Earlier
  <2>3. \A x \in Sessions : WorkIsKnown(x)'
    <3> TAKE x \in Sessions
    <3>1. WorkIsKnown(x)
      BY <1>1 DEF SessionsInv
    <3>2. NewBag(x)' = NewBag(x)
      BY <2>1 DEF NewBag
    <3>3. (Adds(x)' <=> Adds(x)) /\ (Pays(x)' <=> Pays(x))
          /\ (Completes(x)' <=> Completes(x))
      BY <2>1, <3>2 DEF Adds, Pays, Completes
    <3> QED
      BY <2>1, <3>1, <3>3 DEF WorkIsKnown
  <2>4. Money'
    BY <1>1, <2>1 DEF Money, NeverOvercharged, AllFees, DueFees,
                      NothingIsFree, PaidBags, NeverStuckWaiting
  <2> QED
    BY <2>2, <2>3, <2>4 DEF BaggageInv, SessionsInv, Money
<1>3. ASSUME NEW x \in Sessions, Step(x)
      PROVE  SessionsInv' /\ Money'
  <2>1. SessionsInv'
    BY <1>1, <1>3, BeginningsKeepInv, InsertBagKeepsInv, InsertPaymentKeepsInv,
       RecordPaymentKeepsInv, UpdatesKeepInv, CommitKeepsInv, AbandonKeepsInv
    DEF Step
  <2>2. CASE Commit(x)
    BY <1>1, <2>1, <2>2, CommitKeepsMoney
  <2>3. CASE ~Commit(x)
    <3>1. UNCHANGED <<status, bags, collected>>
      BY <1>3, <2>3, TablesAreLeft
    <3> QED
      BY <1>1, <2>1, <3>1 DEF Money, NeverOvercharged, AllFees, DueFees,
                              NothingIsFree, PaidBags, NeverStuckWaiting
  <2> QED
    BY <2>2, <2>3
<1> QED
  BY <1>2, <1>3 DEF Next, BaggageInv, Money

LEMMA BaggageInvariance == Spec => []BaggageInv
<1>1. Init => BaggageInv
  BY InvHoldsInitially
<1>2. BaggageInv /\ [Next]_vars => BaggageInv'
  BY InvIsKept
<1> QED
  BY <1>1, <1>2, PTL DEF Spec

(* Types: the statuses, bags and amounts are what the tables can hold, and *)
(* no request is anywhere but where its code leads.                        *)
THEOREM BaggageTypes == Spec => []TypeOK
<1>1. BaggageInv => TypeOK
  BY DEF BaggageInv, SessionsInv
<1> QED
  BY <1>1, BaggageInvariance, PTL

(* However many bags are added at once, with whatever interleaving, the    *)
(* fees never exceed those of the excess of the total weight: a fee        *)
(* computed from bags that are out of date is too low, not too high.       *)
THEOREM NobodyIsOvercharged == Spec => []NeverOvercharged
<1>1. BaggageInv => NeverOvercharged
  BY DEF BaggageInv
<1> QED
  BY <1>1, BaggageInvariance, PTL

(* No payment marks a bag paid that it has not paid for, whatever bags     *)
(* arrive while the gateway works on it.                                   *)
THEOREM PaidBagsArePaidFor == Spec => []NothingIsFree
<1>1. BaggageInv => NothingIsFree
  BY DEF BaggageInv
<1> QED
  BY <1>1, BaggageInvariance, PTL

(* Whoever waits for a payment has something to pay, so that               *)
(* process_payment can let the check-in go on.                             *)
THEOREM WaitingCanBePaid == Spec => []NeverStuckWaiting
<1>1. BaggageInv => NeverStuckWaiting
  BY DEF BaggageInv
<1> QED
  BY <1>1, BaggageInvariance, PTL

(* No step loses a bag, changes its fee or takes a payment of it back.     *)
THEOREM PaymentsLast == Spec => BagsAreKept
<1>1. ASSUME BaggageInv, [Next]_vars
      PROVE  [\A b \in Bags : BagKept(b)]_vars
  <2>1. CASE UNCHANGED vars
    BY <2>1
  <2>2. ASSUME NEW x \in Sessions, Step(x)
        PROVE  \A b \in Bags : BagKept(b)
    <3>1. CASE Commit(x)
      <4>1. Earlier(bags, bags')
        BY <1>1, <3>1, CommitKeepsBags DEF BaggageInv
      <4> QED
        BY <4>1 DEF Earlier, BagKept
    <3>2. CASE ~Commit(x)
      BY <2>2, <3>2, TablesAreLeft DEF BagKept
    <3> QED
      BY <3>1, <3>2
  <2> QED
    BY <1>1, <2>1, <2>2 DEF Next
<1> QED
  BY <1>1, BaggageInvariance, PTL DEF Spec, BagsAreKept

(***************************************************************************)
(* One request after the other                                             *)
(***************************************************************************)

(* What the only session has read is still so when it writes.              *)
ReadsAreCurrent(x) ==
  /\ pc[x] # "idle" => opened[x] = status
  /\ pc[x] = "add" => status # "COMPLETED"
  /\ pc[x] = "pay" => status = "WAITING_FOR_PAYMENT"
  /\ pc[x] = "gateway" => status = "WAITING_FOR_PAYMENT" /\ seen[x] = bags
  /\ pc[x] \in {"update", "commit"} =>
       /\ Adds(x) =>
            /\ status # "COMPLETED" /\ seen[x] = bags
            /\ unsaved[x].status = Nil =>
                 status = "WAITING_FOR_PAYMENT" \/ NewBag(x).excess_fee = 0
       /\ Pays(x) => status = "WAITING_FOR_PAYMENT" /\ seen[x] = bags
       /\ Completes(x) => status = "IN_PROGRESS"

OneAtATime == \A x, y \in Sessions : pc[x] # "idle" /\ pc[y] # "idle" => x = y

Books ==
  /\ AllFees = DueFees
  /\ TotalFee(bags, PaidBags) = collected
  /\ Owing(bags) # {} => status = "WAITING_FOR_PAYMENT"

SerialInv ==
  /\ OneAtATime
  /\ \A x \in Sessions : ReadsAreCurrent(x)
  /\ Books

RecordedInv == BaggageInv /\ (~overlapped => SerialInv)

(* The status to be written tells what a session does. *)
LEMMA StatusTells ==
  ASSUME NEW x \in Sessions
  PROVE  /\ Adds(x) => unsaved[x].status \in {Nil, "WAITING_FOR_PAYMENT"}
         /\ Pays(x) => unsaved[x].status = "IN_PROGRESS"
         /\ Completes(x) => unsaved[x].status = "COMPLETED"
         /\ Adds(x)' => unsaved'[x].status \in {Nil, "WAITING_FOR_PAYMENT"}
         /\ Pays(x)' => unsaved'[x].status = "IN_PROGRESS"
         /\ Completes(x)' => unsaved'[x].status = "COMPLETED"
         /\ Nil \notin {"IN_PROGRESS", "WAITING_FOR_PAYMENT", "COMPLETED"}
<1>1. Adds(x) => unsaved[x].status \in {Nil, "WAITING_FOR_PAYMENT"}
  BY DEF Adds
<1>2. Adds(x)' => unsaved'[x].status \in {Nil, "WAITING_FOR_PAYMENT"}
  BY DEF Adds
<1>3. /\ Pays(x) => unsaved[x].status = "IN_PROGRESS"
      /\ Completes(x) => unsaved[x].status = "COMPLETED"
      /\ Pays(x)' => unsaved'[x].status = "IN_PROGRESS"
      /\ Completes(x)' => unsaved'[x].status = "COMPLETED"
  BY DEF Pays, Completes
<1> QED
  BY <1>1, <1>2, <1>3, NilAssumption DEF CheckInStatuses

(* The steps before the COMMIT, and a rollback, alone.                     *)
LEMMA ReadsStayCurrent ==
  ASSUME SessionsInv, SerialInv, NEW x \in Sessions, Step(x), ~Commit(x), ~Overlap
  PROVE  SerialInv'
<1> USE DEF SessionsInv, SerialInv
<1>1. UNCHANGED <<status, bags, collected>>
  BY TablesAreLeft
<1>2. Books'
  BY <1>1 DEF Books, AllFees, DueFees, PaidBags
<1>3. OneAtATime'
  BY DEF OneAtATime, Overlap
<1>4. OnlyOf(x)
  BY DEF Step, AddBaggage, InsertBag, UpdateStatus, ProcessPayment, Open, Goto,
         InsertPayment, RecordPayment, CompleteCheckIn, Abandon, EndSession,
         TypeOK, OnlyOf
<1>5. ASSUME NEW y \in Sessions \ {x}
      PROVE  ReadsAreCurrent(y)'
  <2>1. /\ pc'[y] = pc[y] /\ opened'[y] = opened[y] /\ seen'[y] = seen[y]
        /\ request'[y] = request[y] /\ unsaved'[y] = unsaved[y]
    BY <1>4 DEF OnlyOf
  <2>2. NewBag(y)' = NewBag(y)
    BY <2>1 DEF NewBag
  <2>3. (Adds(y)' <=> Adds(y)) /\ (Pays(y)' <=> Pays(y)) /\ (Completes(y)' <=> Completes(y))
    BY <1>1, <2>1, <2>2 DEF Adds, Pays, Completes
  <2>4. ReadsAreCurrent(y)
    OBVIOUS
  <2> QED
    BY <1>1, <2>1, <2>2, <2>3, <2>4 DEF ReadsAreCurrent
<1>6. ReadsAreCurrent(x)'
  <2>0. ReadsAreCurrent(x) /\ WorkIsKnown(x)
    OBVIOUS
  <2>1. CASE \E w \in Weights : AddBaggage(x, w)
    <3>1. /\ pc'[x] \in {"add", "abort"} /\ opened'[x] = status
          /\ pc'[x] = "add" => status # "COMPLETED"
      BY <2>1 DEF AddBaggage, Open, Goto, TypeOK
    <3> QED
      BY <1>1, <3>1 DEF ReadsAreCurrent
  <2>2. CASE ProcessPayment(x)
    <3>1. /\ pc'[x] \in {"pay", "abort"} /\ opened'[x] = status
          /\ pc'[x] = "pay" => status = "WAITING_FOR_PAYMENT"
      BY <2>2 DEF ProcessPayment, Open, Goto, TypeOK
    <3> QED
      BY <1>1, <3>1 DEF ReadsAreCurrent
  <2>3. CASE InsertPayment(x)
    <3>1. /\ pc[x] = "pay" /\ pc'[x] \in {"gateway", "abort"} /\ opened' = opened
          /\ seen'[x] = bags
      BY <2>3 DEF InsertPayment, Goto, TypeOK
    <3> QED
      BY <1>1, <2>0, <3>1 DEF ReadsAreCurrent
  <2>4. CASE CompleteCheckIn(x)
    <3>1. \/ pc'[x] = "abort" /\ opened'[x] = status
          \/ /\ pc'[x] = "update" /\ opened'[x] = status /\ status = "IN_PROGRESS"
             /\ pc[x] = "idle"
             /\ unsaved' = [unsaved EXCEPT ![x].status = "COMPLETED"]
      BY <2>4 DEF CompleteCheckIn, Open, Goto, TypeOK
    <3>2. CASE pc'[x] = "abort"
      BY <1>1, <3>1, <3>2 DEF ReadsAreCurrent
    <3>3. CASE pc'[x] = "update"
      <4>1. unsaved'[x].status = "COMPLETED"
        <5>1. unsaved'[x] = [NothingUnsaved EXCEPT !.status = "COMPLETED"]
          BY <2>0, <3>1, <3>3 DEF TypeOK, WorkIsKnown
        <5> QED
          BY <5>1 DEF NothingUnsaved
      <4>2. ~Adds(x)' /\ ~Pays(x)'
        BY <4>1, StatusTells
      <4> QED
        BY <1>1, <3>1, <3>3, <4>2 DEF ReadsAreCurrent
    <3> QED
      BY <3>1, <3>2, <3>3
  <2>5. CASE UpdateStatus(x)
    <3>1. /\ pc[x] = "update" /\ pc'[x] = "commit"
          /\ UNCHANGED <<status, bags, opened, seen, request, unsaved>>
      BY <2>5 DEF UpdateStatus, Goto, TypeOK
    <3>2. NewBag(x)' = NewBag(x)
      BY <3>1 DEF NewBag
    <3>3. (Adds(x)' <=> Adds(x)) /\ (Pays(x)' <=> Pays(x)) /\ (Completes(x)' <=> Completes(x))
      BY <3>1, <3>2 DEF Adds, Pays, Completes
    <3> QED
      BY <2>0, <3>1, <3>2, <3>3 DEF ReadsAreCurrent
  <2>6. CASE RecordPayment(x)
    <3>1. /\ pc[x] = "gateway" /\ pc'[x] = "commit"
          /\ UNCHANGED <<status, bags, opened, seen>>
          /\ unsaved'[x].status = "IN_PROGRESS"
      BY <2>6 DEF RecordPayment, Goto, TypeOK
    <3>2. ~Adds(x)' /\ ~Completes(x)'
      BY <3>1, StatusTells
    <3> QED
      BY <2>0, <3>1, <3>2 DEF ReadsAreCurrent
  <2>7. CASE \E b \in Bags : InsertBag(x, b)
    <3>1. PICK b \in Bags : InsertBag(x, b)
      BY <2>7
    <3> DEFINE fee == FeeForBag(bags, request[x])
               s   == IF fee > 0 /\ opened[x] # "WAITING_FOR_PAYMENT"
                      THEN "WAITING_FOR_PAYMENT" ELSE Nil
    <3>2. /\ pc[x] = "add" /\ pc'[x] \in {"update", "commit"}
          /\ UNCHANGED <<status, bags, opened, request>>
          /\ seen'[x] = bags /\ unsaved'[x].status = s
      BY <3>1 DEF InsertBag, Goto, TypeOK
    <3>3. fee \in Nat
      <4>1. bags \in Rows /\ Earlier(bags, bags) /\ request[x] \in Nat
        BY <2>0, <3>2, NewBagsAreBags DEF WorkIsKnown, TypeOK, Rows, Earlier
      <4> QED
        BY <4>1, FeesAreLow
    <3>4. NewBag(x)'.excess_fee = fee
      BY <3>2 DEF NewBag
    <3> HIDE DEF fee
    <3>5. ~Pays(x)' /\ ~Completes(x)'
      BY <3>2, StatusTells
    <3>6. opened[x] = status /\ status # "COMPLETED"
      BY <2>0, <3>2 DEF ReadsAreCurrent
    <3>7. unsaved'[x].status = Nil => status = "WAITING_FOR_PAYMENT" \/ fee = 0
      BY <3>2, <3>3, <3>6, NilAssumption DEF CheckInStatuses
    <3> QED
      BY <3>2, <3>4, <3>5, <3>6, <3>7 DEF ReadsAreCurrent
  <2>8. CASE Abandon(x)
    <3>1. pc'[x] = "idle"
      BY <2>8 DEF Abandon, EndSession, Goto, TypeOK
    <3> QED
      BY <3>1 DEF ReadsAreCurrent
  <2> QED
    BY <2>1, <2>2, <2>3, <2>4, <2>5, <2>6, <2>7, <2>8 DEF Step
<1> QED
  BY <1>2, <1>3, <1>5, <1>6

(* The fee of a bag is just what it adds to what is due. *)
LEMMA FeeIsTheExcess ==
  ASSUME NEW rows \in Rows, NEW w \in Nat
  PROVE  FeePerKg * Excess(TotalWeight(rows)) + FeeForBag(rows, w)
           = FeePerKg * Excess(TotalWeight(rows) + w)
<1> DEFINE m == TotalWeight(rows)
<1>1. m \in Nat
  BY SumsAreNatural
<1> HIDE DEF m
<1>2. Excess(m) \in Nat /\ Excess(m + w) \in Nat
  BY <1>1, WeightAssumption DEF Excess
<1>3. FeePerKg * (Excess(m + w) - Excess(m)) = FeePerKg * Excess(m + w) - FeePerKg * Excess(m)
  BY <1>2, WeightAssumption
<1>4. FeePerKg * Excess(m + w) \in Nat /\ FeePerKg * Excess(m) \in Nat
  BY <1>2, FeesGrow
<1>5. FeeForBag(rows, w) = FeePerKg * (Excess(m + w) - Excess(m))
  BY DEF FeeForBag, m
<1>6. FeePerKg * Excess(m) + FeeForBag(rows, w) = FeePerKg * Excess(m + w)
  BY <1>3, <1>4, <1>5
<1> QED
  BY <1>6 DEF m

(* The COMMIT of the only session. *)
LEMMA CommitBalances ==
  ASSUME SessionsInv, SerialInv, NEW x \in Sessions, Commit(x)
  PROVE  /\ Books'
         /\ status = "COMPLETED" => status' = "COMPLETED" /\ bags' = bags
<1> USE DEF SessionsInv, SerialInv
<1>1. /\ bags \in Rows /\ collected \in Nat /\ pc[x] = "commit"
      /\ bags' \in Rows /\ ReadsAreCurrent(x)
      /\ PaidBags \in SUBSET Present(bags)
  BY CommitKeepsBags DEF Commit, TypeOK, Rows, PaidBags
<1>2. /\ TotalFee(bags, Present(bags)) \in Nat /\ TotalFee(bags, PaidBags) \in Nat
      /\ TotalFee(bags, Present(bags)) = FeePerKg * Excess(TotalWeight(bags))
      /\ TotalFee(bags, PaidBags) = collected
      /\ Owing(bags) # {} => status = "WAITING_FOR_PAYMENT"
  BY <1>1, SumsAreNatural DEF Books, AllFees, DueFees
<1>3. ASSUME NEW b \in Bags, Adds(x), BagCommitted(x, b)
      PROVE  Books' /\ status # "COMPLETED"
  <2>1. /\ status # "COMPLETED" /\ seen[x] = bags
        /\ unsaved[x].status = Nil =>
             status = "WAITING_FOR_PAYMENT" \/ NewBag(x).excess_fee = 0
    BY <1>1, <1>3 DEF ReadsAreCurrent
  <2>2. /\ bags[b] = Nil /\ bags' = With(bags, b, NewBag(x))
        /\ collected' = collected
        /\ NewBag(x) \in Bag /\ NewBag(x) # Nil /\ request[x] \in Nat
    BY <1>3, NewBagsAreBags DEF BagCommitted, With
  <2>3. /\ NewBag(x).weight_kg = request[x] /\ NewBag(x).fee_paid = FALSE
        /\ NewBag(x).excess_fee = FeeForBag(bags, request[x])
    BY <2>1 DEF NewBag
  <2>4. /\ Present(With(bags, b, NewBag(x))) = Present(bags) \cup {b}
        /\ TotalWeight(With(bags, b, NewBag(x)))
             = TotalWeight(bags) + NewBag(x).weight_kg
        /\ TotalFee(With(bags, b, NewBag(x)), Present(With(bags, b, NewBag(x))))
             = TotalFee(bags, Present(bags)) + NewBag(x).excess_fee
        /\ \A some \in SUBSET Present(bags) :
             TotalFee(With(bags, b, NewBag(x)), some) = TotalFee(bags, some)
    BY <1>1, <2>2, SumsOfOneMore
  <2>5. /\ Present(bags') = Present(bags) \cup {b}
        /\ TotalWeight(bags') = TotalWeight(bags) + request[x]
        /\ TotalFee(bags', Present(bags'))
             = TotalFee(bags, Present(bags)) + FeeForBag(bags, request[x])
        /\ TotalFee(bags', PaidBags) = TotalFee(bags, PaidBags)
    BY <1>1, <2>2, <2>3, <2>4
  <2>6. (AllFees = DueFees)'
    <3>1. FeePerKg * Excess(TotalWeight(bags)) + FeeForBag(bags, request[x])
            = FeePerKg * Excess(TotalWeight(bags) + request[x])
      BY <1>1, <2>2, FeeIsTheExcess
    <3>2. TotalFee(bags', Present(bags')) = FeePerKg * Excess(TotalWeight(bags'))
      BY <1>2, <2>5, <3>1
    <3> QED
      BY <3>2 DEF AllFees, DueFees
  <2>7. /\ \A c \in Bags \ {b} : bags'[c] = bags[c]
        /\ bags'[b] = NewBag(x)
    BY <1>1, <2>2 DEF With, Rows
  <2>8. PaidBags' = PaidBags
    BY <2>2, <2>3, <2>5, <2>7 DEF PaidBags, Present
  <2>9. Owing(bags') # {} => status' = "WAITING_FOR_PAYMENT"
    <3>1. CASE status' = "WAITING_FOR_PAYMENT"
      BY <3>1
    <3>2. CASE status' # "WAITING_FOR_PAYMENT"
      <4>1. status' = status /\ status # "WAITING_FOR_PAYMENT" /\ NewBag(x).excess_fee = 0
        BY <1>3, <2>1, <3>2 DEF BagCommitted
      <4>2. Owing(bags) = {}
        BY <1>2, <4>1
      <4>3. Owing(bags') = {}
        BY <2>2, <2>7, <4>1, <4>2 DEF Owing, Present
      <4> QED
        BY <4>3
    <3> QED
      BY <3>1, <3>2
  <2> QED
    BY <1>2, <2>1, <2>2, <2>5, <2>6, <2>8, <2>9 DEF Books
<1>4. ASSUME Pays(x), PaymentCommitted(x)
      PROVE  Books' /\ status # "COMPLETED"
  <2>1. status = "WAITING_FOR_PAYMENT" /\ seen[x] = bags
    BY <1>1, <1>4 DEF ReadsAreCurrent
  <2>2. /\ Present(bags') = Present(bags)
        /\ PaidBags' = PaidBags \cup Owing(bags)
        /\ Owing(bags') = {}
        /\ TotalWeight(bags') = TotalWeight(bags)
        /\ \A some \in SUBSET Present(bags) : TotalFee(bags', some) = TotalFee(bags, some)
        /\ Owing(bags) \in SUBSET Present(bags)
        /\ Required(seen[x]) = TotalFee(bags, Owing(bags))
    BY <1>4, <2>1, PaymentSettles
  <2>3. (AllFees = DueFees)'
    BY <1>2, <2>2 DEF AllFees, DueFees
  <2>4. PaidBags \cap Owing(bags) = {}
    BY DEF PaidBags, Owing
  <2>5. TotalFee(bags, PaidBags \cup Owing(bags))
          = TotalFee(bags, PaidBags) + TotalFee(bags, Owing(bags))
    BY <1>1, <2>2, <2>4, FeesOfBoth
  <2>6. collected' = collected + TotalFee(bags, Owing(bags))
    BY <1>4, <2>2 DEF PaymentCommitted
  <2>7. TotalFee(bags', PaidBags') = collected'
    BY <1>1, <1>2, <2>2, <2>5, <2>6
  <2> QED
    BY <2>1, <2>2, <2>3, <2>7 DEF Books
<1>5. ASSUME Completes(x), CompletionCommitted
      PROVE  Books' /\ status # "COMPLETED"
  <2>1. status = "IN_PROGRESS"
    BY <1>1, <1>5 DEF ReadsAreCurrent
  <2>2. bags' = bags /\ collected' = collected
    BY <1>5 DEF CompletionCommitted
  <2> QED
    BY <1>2, <2>1, <2>2 DEF Books, AllFees, DueFees, PaidBags
<1> QED
  BY <1>3, <1>4, <1>5, CommitIsKnown

LEMMA RecordedInvIsKept == RecordedInv /\ [RecordedNext]_<<vars, overlapped>> => RecordedInv'
<1> SUFFICES ASSUME RecordedInv, [RecordedNext]_<<vars, overlapped>>
             PROVE  RecordedInv'
  OBVIOUS
<1>1. BaggageInv /\ [Next]_vars
  BY DEF RecordedInv, RecordedNext
<1>2. BaggageInv'
  BY <1>1, InvIsKept
<1>3. ASSUME ~overlapped'
      PROVE  SerialInv'
  <2>1. CASE UNCHANGED <<vars, overlapped>>
    <3>1. SerialInv /\ UNCHANGED <<status, bags, collected, pc, opened, seen, request, unsaved>>
      BY <1>3, <2>1 DEF RecordedInv, vars
    <3>2. Books' /\ OneAtATime'
      BY <3>1 DEF SerialInv, Books, AllFees, DueFees, PaidBags, OneAtATime
    <3>3. \A x \in Sessions : ReadsAreCurrent(x)'
      <4> TAKE x \in Sessions
      <4>1. ReadsAreCurrent(x)
        BY <3>1 DEF SerialInv
      <4>2. NewBag(x)' = NewBag(x)
        BY <3>1 DEF NewBag
      <4>3. (Adds(x)' <=> Adds(x)) /\ (Pays(x)' <=> Pays(x)) /\ (Completes(x)' <=> Completes(x))
        BY <3>1, <4>2 DEF Adds, Pays, Completes
      <4> QED
        BY <3>1, <4>1, <4>2, <4>3 DEF ReadsAreCurrent
    <3> QED
      BY <3>2, <3>3 DEF SerialInv
  <2>2. ASSUME NEW x \in Sessions, Step(x), ~overlapped, ~Overlap
        PROVE  SerialInv'
    <3>1. SessionsInv /\ SerialInv
      BY <2>2 DEF RecordedInv, BaggageInv
    <3>2. CASE ~Commit(x)
      BY <2>2, <3>1, <3>2, ReadsStayCurrent
    <3>3. CASE Commit(x)
      <4>1. Books'
        BY <3>1, <3>3, CommitBalances
      <4>2. \A y \in Sessions : pc'[y] = "idle"
        <5>1. pc[x] = "commit" /\ pc'[x] = "idle"
              /\ \A y \in Sessions \ {x} : pc'[y] = pc[y]
          BY <3>1, <3>3 DEF Commit, EndSession, Goto, SessionsInv, TypeOK
        <5> QED
          BY <3>1, <5>1 DEF SerialInv, OneAtATime
      <4> QED
        BY <4>1, <4>2 DEF SerialInv, OneAtATime, ReadsAreCurrent
    <3> QED
      BY <3>2, <3>3
  <2> QED
    BY <1>3, <2>1, <2>2 DEF RecordedNext, Next
<1> QED
  BY <1>2, <1>3 DEF RecordedInv

LEMMA RecordedInvariance == RecordedSpec => []RecordedInv
<1>1. RecordedInit => RecordedInv
  <2> SUFFICES ASSUME RecordedInit PROVE RecordedInv
    OBVIOUS
  <2>1. Init /\ BaggageInv
    BY InvHoldsInitially DEF RecordedInit
  <2>2. bags \in Rows /\ Present(bags) = {} /\ PaidBags = {} /\ Owing(bags) = {}
    BY <2>1, NothingIsFine DEF Init, Present, PaidBags, Owing
  <2>3. TotalFee(bags, {}) = 0 /\ TotalWeight(bags) = 0
    <3>1. {} \in SUBSET Present(bags)
      OBVIOUS
    <3>2. TotalFee(bags, {}) = Total({}, FeeOf(bags))
      BY <2>2, <3>1, FeesAreTotals
    <3>3. TotalWeight(bags) = Total({}, WeightOf(bags))
      BY <2>2, WeightsAreTotals
    <3> QED
      BY <3>2, <3>3, TotalOfNone
  <2>4. DueFees = 0
    <3>1. Excess(0) = 0
      BY WeightAssumption DEF Excess
    <3> QED
      BY <2>3, <3>1, WeightAssumption DEF DueFees
  <2>5. SerialInv
    BY <2>1, <2>2, <2>3, <2>4
    DEF Init, SerialInv, OneAtATime, ReadsAreCurrent, Books, AllFees
  <2> QED
    BY <2>1, <2>5 DEF RecordedInv
<1>2. RecordedInv /\ [RecordedNext]_<<vars, overlapped>> => RecordedInv'
  BY RecordedInvIsKept
<1> QED
  BY <1>1, <1>2, PTL DEF RecordedSpec

(* Until two requests overlap, the fees are those of the excess of the     *)
(* total weight: nobody carries more than the limit without being charged. *)
THEOREM ExcessIsCharged == RecordedSpec => []FeesMatchExcess
<1>1. RecordedInv => FeesMatchExcess
  BY DEF RecordedInv, SerialInv, Books, FeesMatchExcess
<1> QED
  BY <1>1, RecordedInvariance, PTL

(* Until two requests overlap, a check-in with an unpaid fee waits for the *)
(* payment.                                                                *)
THEOREM DebtIsWaitedFor == RecordedSpec => []WaitsWhileInDebt
<1>1. RecordedInv => WaitsWhileInDebt
  BY DEF RecordedInv, SerialInv, Books, WaitsWhileInDebt
<1> QED
  BY <1>1, RecordedInvariance, PTL

(* Until two requests overlap, the money taken is the fees of the bags     *)
(* that are paid, so that no fee has been paid twice.                      *)
THEOREM FeesArePaidOnce == RecordedSpec => []EachFeePaidOnce
<1>1. RecordedInv => EachFeePaidOnce
  BY DEF RecordedInv, SerialInv, Books, EachFeePaidOnce
<1> QED
  BY <1>1, RecordedInvariance, PTL

(* Until two requests overlap, a completed check-in stays completed and    *)
(* keeps its bags.                                                         *)
THEOREM CompletionLasts == RecordedSpec => CompletedIsFinal
<1>1. ASSUME RecordedInv, [RecordedNext]_<<vars, overlapped>>
      PROVE  [status = "COMPLETED" /\ ~overlapped =>
                status' = "COMPLETED" /\ bags' = bags]_vars
  <2> SUFFICES ASSUME status = "COMPLETED", ~overlapped, vars' # vars
               PROVE  status' = "COMPLETED" /\ bags' = bags
    OBVIOUS
  <2>1. PICK x \in Sessions : Step(x)
    BY <1>1 DEF RecordedNext, Next
  <2>2. CASE Commit(x)
    BY <1>1, <2>2, CommitBalances DEF RecordedInv, BaggageInv
  <2>3. CASE ~Commit(x)
    BY <2>1, <2>3, TablesAreLeft
  <2> QED
    BY <2>2, <2>3
<1> QED
  BY <1>1, RecordedInvariance, PTL DEF RecordedSpec, CompletedIsFinal
===============================================================================
