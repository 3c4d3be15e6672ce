----------------------------- MODULE SumTheorems ------------------------------
(***************************************************************************)
(* Sums over finite sets.  MapThenSumSet is a recursive function on the    *)
(* subsets of the set; here it is shown to count units: as many for each   *)
(* element as the element weighs.  What sums obey then follows from what   *)
(* cardinalities obey.                                                     *)
(***************************************************************************)
EXTENDS FiniteSetsExt, FiniteSetTheorems, TLAPS

(* The units of the elements of S, if element e weighs w[e]. *)
Units(S, w) == {u \in S \X Nat : u[2] < w[u[1]]}

Total(S, w) == Cardinality(Units(S, w))

Weighs(S, w) == \A e \in S : w[e] \in Nat

(* Induction over a finite set, on the set P of the subsets it holds of. *)
LEMMA SubsetInduction ==
  ASSUME NEW S, IsFiniteSet(S), NEW P, {} \in P,
         \A T \in SUBSET S, e \in S : T \in P => T \cup {e} \in P
  PROVE  S \in P
<1> DEFINE Bad == {T \in SUBSET S : T \notin P}
<1> SUFFICES ASSUME Bad # {} PROVE FALSE
  OBVIOUS
<1>1. SUBSET S = FiniteSubsetsOf(S)
  BY FS_FiniteSubsetsOfFinite
<1>2. IsWellFoundedOn(StrictSubsetOrdering(S), SUBSET S)
  BY <1>1, FS_StrictSubsetOrderingWellFounded
<1>3. PICK T \in Bad : \A U \in Bad : ~ (<<U, T>> \in StrictSubsetOrdering(S))
  <2> HIDE DEF Bad
  <2>1. Bad \subseteq SUBSET S
    BY DEF Bad
  <2> QED
    BY <1>2, <2>1, WFMin
<1>4. PICK e \in T : TRUE
  OBVIOUS
<1>5. T \ {e} \in SUBSET S /\ T \ {e} # T /\ T \ {e} \subseteq T
  BY <1>3, <1>4
<1>6. <<T \ {e}, T>> \in StrictSubsetOrdering(S)
  BY <1>3, <1>5 DEF StrictSubsetOrdering
<1>7. T \ {e} \in P
  BY <1>3, <1>5, <1>6
<1>8. (T \ {e}) \cup {e} = T
  BY <1>4
<1> QED
  BY <1>3, <1>4, <1>5, <1>7, <1>8

(* Two sets together have at most as many elements as each of them has. *)
LEMMA UnionCount ==
  ASSUME NEW A, IsFiniteSet(A), NEW B, IsFiniteSet(B)
  PROVE  /\ IsFiniteSet(A \cup B)
         /\ Cardinality(A \cup B) \in Nat
         /\ Cardinality(A \cup B) <= Cardinality(A) + Cardinality(B)
         /\ A \cap B = {} => Cardinality(A \cup B) = Cardinality(A) + Cardinality(B)
<1>1. /\ IsFiniteSet(A \cup B)
      /\ Cardinality(A \cup B) = Cardinality(A) + Cardinality(B) - Cardinality(A \cap B)
  BY FS_Union
<1>2. IsFiniteSet(A \cap B)
  BY FS_Intersection
<1>3. /\ Cardinality(A) \in Nat /\ Cardinality(B) \in Nat
      /\ Cardinality(A \cap B) \in Nat /\ Cardinality(A \cup B) \in Nat
  BY <1>1, <1>2, FS_CardinalityType
<1>4. A \cap B = {} => Cardinality(A \cap B) = 0
  BY FS_EmptySet
<1> QED
  BY <1>1, <1>3, <1>4

(* The units of one more element come on top of the others'. *)
LEMMA UnitsOfOneMore ==
  ASSUME NEW S, NEW w, NEW e, e \notin S, w[e] \in Nat, IsFiniteSet(Units(S, w))
  PROVE  /\ IsFiniteSet(Units(S \cup {e}, w))
         /\ Total(S \cup {e}, w) = w[e] + Total(S, w)
<1> DEFINE own == {e} \X (0..(w[e] - 1))
<1>1. IsFiniteSet({e}) /\ Cardinality({e}) = 1
  BY FS_Singleton
<1>2. IsFiniteSet(0..(w[e] - 1)) /\ Cardinality(0..(w[e] - 1)) = w[e]
  BY FS_Interval
<1>3. IsFiniteSet(own) /\ Cardinality(own) = w[e]
  <2>1. IsFiniteSet(own) /\ Cardinality(own) = 1 * w[e]
    BY <1>1, <1>2, FS_Product
  <2> QED
    BY <2>1
<1>4. Units(S \cup {e}, w) = Units(S, w) \cup own
  <2>1. ASSUME NEW u, u \in Units(S \cup {e}, w)
        PROVE  u \in Units(S, w) \cup own
    BY <2>1 DEF Units
  <2>2. ASSUME NEW u, u \in own
        PROVE  u \in Units(S \cup {e}, w)
    BY <2>2 DEF Units
  <2>3. Units(S, w) \subseteq Units(S \cup {e}, w)
    BY DEF Units
  <2> QED
    BY <2>1, <2>2, <2>3
<1>5. Units(S, w) \cap own = {}
  BY DEF Units
<1> HIDE DEF own
<1>6. /\ IsFiniteSet(Units(S, w) \cup own)
      /\ Cardinality(Units(S, w) \cup own) = Cardinality(Units(S, w)) + Cardinality(own)
  BY <1>3, <1>5, UnionCount
<1>7. Cardinality(Units(S, w)) \in Nat
  BY FS_CardinalityType
<1>8. /\ IsFiniteSet(Units(S \cup {e}, w))
      /\ Total(S \cup {e}, w) = Cardinality(Units(S, w) \cup own)
  BY <1>4, <1>6 DEF Total
<1>9. Total(S \cup {e}, w) = Cardinality(Units(S, w)) + w[e]
  BY <1>3, <1>6, <1>8
<1> QED
  BY <1>7, <1>8, <1>9 DEF Total

(* Finitely many elements have finitely many units. *)
LEMMA UnitsAreFinite ==
  ASSUME NEW S, IsFiniteSet(S), NEW w, Weighs(S, w)
  PROVE  IsFiniteSet(Units(S, w)) /\ Total(S, w) \in Nat
<1> DEFINE P == {T \in SUBSET S : IsFiniteSet(Units(T, w))}
<1>1. {} \in P
  <2>1. Units({}, w) = {}
    BY DEF Units
  <2> QED
    BY <2>1, FS_EmptySet
<1>2. ASSUME NEW T \in SUBSET S, NEW e \in S, T \in P
      PROVE  T \cup {e} \in P
  <2>1. CASE e \in T
    <3>1. T \cup {e} = T
      BY <2>1
    <3> QED
      BY <1>2, <3>1
  <2>2. CASE e \notin T
    <3>1. IsFiniteSet(Units(T, w)) /\ w[e] \in Nat
      BY <1>2 DEF Weighs
    <3>2. IsFiniteSet(Units(T \cup {e}, w))
      BY <2>2, <3>1, UnitsOfOneMore
    <3> QED
      BY <3>2
  <2> QED
    BY <2>1, <2>2
<1>3. S \in P
  <2> HIDE DEF P
  <2> QED
    BY <1>1, <1>2, SubsetInduction
<1> QED
  BY <1>3, FS_CardinalityType DEF Total

(***************************************************************************)
(* What sums obey                                                          *)
(***************************************************************************)

(* Nothing weighs nothing. *)
LEMMA TotalOfNone == ASSUME NEW w PROVE Total({}, w) = 0
<1>1. Units({}, w) = {}
  BY DEF Units
<1> QED
  BY <1>1, FS_EmptySet DEF Total

(* One more element adds its weight. *)
LEMMA TotalOfOneMore ==
  ASSUME NEW S, IsFiniteSet(S), NEW w, Weighs(S, w),
         NEW e, e \notin S, w[e] \in Nat
  PROVE  Total(S \cup {e}, w) = w[e] + Total(S, w)
  BY UnitsAreFinite, UnitsOfOneMore

(* Only the weights of the elements count. *)
LEMMA TotalOfSame ==
  ASSUME NEW S, NEW v, NEW w, \A e \in S : v[e] = w[e]
  PROVE  Total(S, v) = Total(S, w)
<1>1. Units(S, v) = Units(S, w)
  BY DEF Units
<1> QED
  BY <1>1 DEF Total

(* A part weighs no more than the whole. *)
LEMMA TotalOfPart ==
  ASSUME NEW S, IsFiniteSet(S), NEW w, Weighs(S, w), NEW T \in SUBSET S
  PROVE  Total(T, w) <= Total(S, w) /\ Total(T, w) \in Nat
<1>1. IsFiniteSet(T) /\ Weighs(T, w)
  BY FS_Subset DEF Weighs
<1>2. Units(T, w) \in SUBSET Units(S, w)
  BY DEF Units
<1> QED
  BY <1>1, <1>2, UnitsAreFinite, FS_Subset DEF Total

(* Two sets together weigh at most what each of them weighs, and just that *)
(* if they have nothing in common.                                         *)
LEMMA TotalOfBoth ==
  ASSUME NEW S, IsFiniteSet(S), NEW T, IsFiniteSet(T), NEW w,
         Weighs(S, w), Weighs(T, w)
  PROVE  /\ Total(S \cup T, w) <= Total(S, w) + Total(T, w)
         /\ S \cap T = {} => Total(S \cup T, w) = Total(S, w) + Total(T, w)
<1>1. /\ IsFiniteSet(Units(S, w)) /\ IsFiniteSet(Units(T, w))
      /\ Total(S, w) \in Nat /\ Total(T, w) \in Nat
  BY UnitsAreFinite
<1>2. Units(S \cup T, w) = Units(S, w) \cup Units(T, w)
  BY DEF Units
<1>3. S \cap T = {} => Units(S, w) \cap Units(T, w) = {}
  BY DEF Units
<1> QED
  BY <1>1, <1>2, <1>3, UnionCount DEF Total

(* If every element weighs something, there are as many units at least. *)
LEMMA TotalOfPositive ==
  ASSUME NEW S, IsFiniteSet(S), NEW w, Weighs(S, w), \A e \in S : w[e] > 0
  PROVE  Total(S, w) >= Cardinality(S)
<1> DEFINE f == [e \in S |-> <<e, 0>>]
<1>1. f \in Injection(S, Units(S, w))
  BY DEF Units, Injection, IsInjective, Weighs
<1>2. IsFiniteSet(Units(S, w))
  BY UnitsAreFinite
<1> QED
  BY <1>1, <1>2, FS_Injection DEF Total

(***************************************************************************)
(* MapThenSumSet                                                           *)
(***************************************************************************)

(* g is the function on the subsets of S by which MapThenSumSet sums up. *)
SumsUp(g, S, w) ==
  g = [T \in SUBSET S |->
         IF T = {} THEN 0
         ELSE LET e == CHOOSE e \in T : TRUE IN w[e] + g[T \ {e}]]

Totals(S, w) == [T \in SUBSET S |-> Total(T, w)]

(* There is one such function, and it counts units. *)
LEMMA SumsAreTotals ==
  ASSUME NEW S, IsFiniteSet(S), NEW w, Weighs(S, w), NEW g
  PROVE  SumsUp(g, S, w) <=> g = Totals(S, w)
<1> DEFINE h == [T \in SUBSET S |-> Total(T, w)]
           head(T) == CHOOSE e \in T : TRUE
<1>1. ASSUME NEW T \in SUBSET S, T # {}
      PROVE  /\ head(T) \in T
             /\ T \ {head(T)} \in SUBSET S
             /\ Total(T, w) = w[head(T)] + Total(T \ {head(T)}, w)
  <2>1. head(T) \in T
    BY <1>1
  <2> HIDE DEF head
  <2>2. IsFiniteSet(T \ {head(T)}) /\ Weighs(T \ {head(T)}, w) /\ w[head(T)] \in Nat
    BY <2>1, FS_Subset DEF Weighs
  <2>3. (T \ {head(T)}) \cup {head(T)} = T
    BY <2>1
  <2>4. Total((T \ {head(T)}) \cup {head(T)}, w) = w[head(T)] + Total(T \ {head(T)}, w)
    BY <2>2, TotalOfOneMore
  <2> QED
    BY <2>1, <2>3, <2>4
<1>2. SumsUp(g, S, w) <=>
        g = [T \in SUBSET S |-> IF T = {} THEN 0 ELSE w[head(T)] + g[T \ {head(T)}]]
  BY DEF SumsUp
<1> HIDE DEF head
<1>3. ASSUME g = h
      PROVE  SumsUp(g, S, w)
  <2>1. ASSUME NEW T \in SUBSET S
        PROVE  g[T] = IF T = {} THEN 0 ELSE w[head(T)] + g[T \ {head(T)}]
    BY <1>1, <1>3, <2>1, TotalOfNone
  <2> QED
    BY <1>2, <1>3, <2>1
<1>4. ASSUME SumsUp(g, S, w)
      PROVE  g = h
  <2> DEFINE Bad == {T \in SUBSET S : g[T] # Total(T, w)}
  <2> SUFFICES ASSUME Bad # {} PROVE FALSE
    <3>1. g = [T \in SUBSET S |-> g[T]]
      BY <1>2, <1>4
    <3> QED
      BY <3>1
  <2>1. IsWellFoundedOn(StrictSubsetOrdering(S), SUBSET S)
    BY FS_FiniteSubsetsOfFinite, FS_StrictSubsetOrderingWellFounded
  <2>2. PICK T \in Bad : \A U \in Bad : ~ (<<U, T>> \in StrictSubsetOrdering(S))
    <3> HIDE DEF Bad
    <3>1. Bad \subseteq SUBSET S
      BY DEF Bad
    <3> QED
      BY <2>1, <3>1, WFMin
  <2>3. T \in SUBSET S /\ g[T] # Total(T, w)
    BY <2>2
  <2>4. T # {}
    BY <1>2, <1>4, <2>3, TotalOfNone
  <2>5. g[T] = w[head(T)] + g[T \ {head(T)}]
    BY <1>2, <1>4, <2>3, <2>4
  <2>6. head(T) \in T /\ T \ {head(T)} \in SUBSET S
        /\ Total(T, w) = w[head(T)] + Total(T \ {head(T)}, w)
    BY <1>1, <2>3, <2>4
  <2>7. <<T \ {head(T)}, T>> \in StrictSubsetOrdering(S)
    BY <2>3, <2>6 DEF StrictSubsetOrdering
  <2>8. g[T \ {head(T)}] = Total(T \ {head(T)}, w)
    BY <2>2, <2>6, <2>7
  <2> QED
    BY <2>3, <2>5, <2>6, <2>8
<1> QED
  BY <1>3, <1>4 DEF Totals

(* So the sum is the total. *)
LEMMA SumIsTotal ==
  ASSUME NEW S, IsFiniteSet(S), NEW w, Weighs(S, w)
  PROVE  MapThenSumSet(LAMBDA e : w[e], S) = Total(S, w)
<1> DEFINE R(g) == g = [T \in SUBSET S |->
                 IF T = {} THEN 0
                 ELSE LET e == CHOOSE e \in T : TRUE IN w[e] + g[T \ {e}]]
           h == Totals(S, w)
<1>1. MapThenSumSet(LAMBDA e : w[e], S) = (CHOOSE g : R(g))[S]
  BY DEF MapThenSumSet, MapThenFoldSet
<1>2. \A g : R(g) <=> g = h
  <2> SUFFICES ASSUME NEW g PROVE R(g) <=> g = h
    OBVIOUS
  <2>1. SumsUp(g, S, w) <=> R(g)
    BY DEF SumsUp
  <2>2. SumsUp(g, S, w) <=> g = h
    BY SumsAreTotals
  <2> QED
    BY <2>1, <2>2
<1>3. (CHOOSE g : R(g)) = h
  <2> HIDE DEF R, h
  <2>1. R(h)
    BY <1>2
  <2>2. R(CHOOSE g : R(g))
    BY <2>1
  <2> QED
    BY <1>2, <2>2
<1> HIDE DEF R
<1>4. (CHOOSE g : R(g))[S] = h[S]
  BY <1>3
<1> QED
  BY <1>1, <1>4 DEF Totals
===============================================================================
