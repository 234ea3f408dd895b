---------------------------- MODULE TypesProofs ----------------------------
(***************************************************************************)
(* Proofs about module Types, against the meaning that TypeMeaning gives   *)
(* its types.                                                              *)
(***************************************************************************)
EXTENDS TypeMeaning, FiniteSetTheorems, WellFoundedInduction, TLAPS

-----------------------------------------------------------------------------
(* Numbers.                                                                *)

(* A set of natural numbers that is not empty has a least member. *)
LEMMA MinHolds ==
  ASSUME NEW S \in SUBSET Nat, S # {}
  PROVE  Min(S) \in S /\ \A j \in S : Min(S) <= j
<1> DEFINE R == StrictSubsetOrdering(Nat)
           F == FiniteSubsetsOf(Nat)
           U == {1 .. n : n \in S}
<1>1. IsWellFoundedOn(R, F)
  BY FS_StrictSubsetOrderingWellFounded
<1>2. U \subseteq F /\ U # {}
  <2>1. \A n \in Nat : 1 .. n \in F
    BY FS_Interval DEF FiniteSubsetsOf
  <2> QED BY <2>1
<1>3. PICK X \in U : \A Y \in U : <<Y, X>> \notin R
  <2> HIDE DEF R, F, U
  <2> QED BY <1>1, <1>2, WFMin
<1>4. PICK x \in S : X = 1 .. x
  OBVIOUS
<1>5. ASSUME NEW y \in S, ~(x <= y) PROVE FALSE
  <2>1. 1 .. y \subseteq 1 .. x /\ x \in 1 .. x /\ x \notin 1 .. y
    BY <1>5
  <2>2. 1 .. y # 1 .. x
    BY <2>1
  <2>3. <<1 .. y, 1 .. x>> \in R
    BY <2>1, <2>2 DEF StrictSubsetOrdering
  <2> QED BY <2>3, <1>3, <1>4
<1>6. \E k \in S : \A j \in S : k <= j
  BY <1>5
<1> QED BY <1>6 DEF Min

(* Induction over the natural numbers, for a set of them. *)
LEMMA NumberInduction ==
  ASSUME NEW S \in SUBSET Nat, 0 \in S, \A n \in S : n + 1 \in S
  PROVE  S = Nat
<1> SUFFICES ASSUME S # Nat PROVE FALSE
  OBVIOUS
<1> DEFINE T == Nat \ S
           x == Min(T)
<1>1. T # {} /\ T \in SUBSET Nat
  OBVIOUS
<1>2. x \in T /\ \A y \in T : x <= y
  <2> HIDE DEF T
  <2> QED BY <1>1, MinHolds
<1>3. x # 0 /\ x - 1 \in Nat /\ x - 1 \notin T
  BY <1>2
<1> QED BY <1>2, <1>3

(* The recursion of TwoTo is sound. *)
LEMMA TwoToHolds ==
  \A n \in 0..MaxWidth : TwoTo[n] = IF n = 0 THEN 1 ELSE 2 * TwoTo[n - 1]
<1> DEFINE F(h, n) == IF n = 0 THEN 1 ELSE 2 * h[n - 1]
           S == {n \in Nat : \E h : h = [m \in 0..n |-> F(h, m)]}
<1>1. 0 \in S
  <2> DEFINE h == [m \in 0..0 |-> 1]
  <2>1. h = [m \in 0..0 |-> F(h, m)]
    OBVIOUS
  <2> QED BY <2>1
<1>2. ASSUME NEW n \in S PROVE n + 1 \in S
  <2>1. PICK h : h = [m \in 0..n |-> F(h, m)]
    OBVIOUS
  <2> DEFINE g == [m \in 0..(n + 1) |-> F(h, m)]
  <2>2. \A m \in 0..n : g[m] = h[m]
    BY <2>1
  <2>3. \A m \in 0..(n + 1) : F(g, m) = F(h, m)
    <3> HIDE DEF g
    <3> QED BY <2>2
  <2>4. g = [m \in 0..(n + 1) |-> F(g, m)]
    <3> HIDE DEF F
    <3> QED BY <2>3
  <2>5. n + 1 \in Nat /\ \E f : f = [m \in 0..(n + 1) |-> F(f, m)]
    <3> HIDE DEF g, F
    <3> QED BY <2>4
  <2> QED BY <2>5
<1>3. MaxWidth \in S
  <2> HIDE DEF S
  <2>1. S \in SUBSET Nat
    BY DEF S
  <2> QED BY <1>1, <1>2, <2>1, NumberInduction, LimitsAssumption
<1>4. PICK h : h = [m \in 0..MaxWidth |-> F(h, m)]
  BY <1>3
<1>5. TwoTo = [n \in 0..MaxWidth |-> F(TwoTo, n)]
  BY <1>4 DEF TwoTo
<1> QED BY <1>5

-----------------------------------------------------------------------------
(* The levels of annotations, kinds, expressions and values.               *)

\* The bounds of the recursions are numbers.
LEMMA DeepestIsNumber ==
  /\ MaxNesting \in Nat /\ MaxDepth \in Nat \ {0} /\ Deepest \in Nat
  /\ MaxNesting + MaxDepth <= Deepest /\ 2 * MaxNesting <= Deepest
BY LimitsAssumption DEF Deepest

\* Sequences over a smaller set are sequences over a larger one.
LEMMA SeqGrows ==
  ASSUME NEW A, NEW B, A \subseteq B
  PROVE  Seq(A) \subseteq Seq(B)
OBVIOUS

(* The recursion of AnnotationUpTo is sound. *)
LEMMA AnnotationUpToHolds ==
  \A n \in 0..Deepest : AnnotationUpTo[n] = AnnotationsOver(IF n = 0 THEN {} ELSE AnnotationUpTo[n - 1])
<1> DEFINE F(h, n) == AnnotationsOver(IF n = 0 THEN {} ELSE h[n - 1])
           S == {n \in Nat : \E h : h = [m \in 0..n |-> F(h, m)]}
<1>1. 0 \in S
  <2> DEFINE h == [m \in 0..0 |-> AnnotationsOver({})]
  <2>1. h = [m \in 0..0 |-> F(h, m)]
    OBVIOUS
  <2> QED BY <2>1
<1>2. ASSUME NEW n \in S PROVE n + 1 \in S
  <2>1. PICK h : h = [m \in 0..n |-> F(h, m)]
    OBVIOUS
  <2> DEFINE g == [m \in 0..(n + 1) |-> F(h, m)]
  <2>2. \A m \in 0..n : g[m] = h[m]
    BY <2>1
  <2>3. \A m \in 0..(n + 1) : F(g, m) = F(h, m)
    <3> HIDE DEF g
    <3> QED BY <2>2
  <2>4. g = [m \in 0..(n + 1) |-> F(g, m)]
    <3> HIDE DEF F
    <3> QED BY <2>3
  <2>5. n + 1 \in Nat /\ \E f : f = [m \in 0..(n + 1) |-> F(f, m)]
    <3> HIDE DEF g, F
    <3> QED BY <2>4
  <2> QED BY <2>5
<1>3. Deepest \in S
  <2> HIDE DEF S
  <2>1. S \in SUBSET Nat
    BY DEF S
  <2> QED BY <1>1, <1>2, <2>1, NumberInduction, DeepestIsNumber
<1>4. PICK h : h = [m \in 0..Deepest |-> F(h, m)]
  BY <1>3
<1>5. AnnotationUpTo = [n \in 0..Deepest |-> F(AnnotationUpTo, n)]
  BY <1>4 DEF AnnotationUpTo
<1> QED BY <1>5

(* More levels make more annotations. *)
LEMMA AnnotationsOverGrows ==
  ASSUME NEW A, NEW B, A \subseteq B
  PROVE  AnnotationsOver(A) \subseteq AnnotationsOver(B)
BY DEF AnnotationsOver

\* Each set of levels contains the sets of fewer.
LEMMA AnnotationUpToGrows ==
  \A m \in 0..Deepest : \A n \in 0..m : AnnotationUpTo[n] \subseteq AnnotationUpTo[m]
<1> DEFINE S == {n \in Nat : n < Deepest => AnnotationUpTo[n] \subseteq AnnotationUpTo[n + 1]}
           T == {m \in Nat : m <= Deepest => \A n \in 0..m : AnnotationUpTo[n] \subseteq AnnotationUpTo[m]}
<1>1. 0 \in S
  <2> SUFFICES ASSUME 0 < Deepest PROVE AnnotationUpTo[0] \subseteq AnnotationUpTo[1]
    OBVIOUS
  <2>1. AnnotationUpTo[0] = AnnotationsOver({}) /\ AnnotationUpTo[1] = AnnotationsOver(AnnotationUpTo[0])
    BY AnnotationUpToHolds, DeepestIsNumber
  <2> QED BY <2>1, AnnotationsOverGrows
<1>2. ASSUME NEW n \in S PROVE n + 1 \in S
  <2> SUFFICES ASSUME n + 1 < Deepest PROVE AnnotationUpTo[n + 1] \subseteq AnnotationUpTo[n + 2]
    OBVIOUS
  <2>1. AnnotationUpTo[n + 1] = AnnotationsOver(AnnotationUpTo[n]) /\ AnnotationUpTo[n + 2] = AnnotationsOver(AnnotationUpTo[n + 1])
    <3>1. n + 1 \in 0..Deepest /\ n + 2 \in 0..Deepest /\ n + 1 # 0 /\ n + 2 # 0
             /\ (n + 1) - 1 = n /\ (n + 2) - 1 = n + 1
      BY DeepestIsNumber
    <3> QED BY <3>1, AnnotationUpToHolds
  <2>2. AnnotationUpTo[n] \subseteq AnnotationUpTo[n + 1]
    BY DeepestIsNumber
  <2> QED BY <2>1, <2>2, AnnotationsOverGrows
<1>3. S = Nat
  <2> HIDE DEF S
  <2>1. S \in SUBSET Nat
    BY DEF S
  <2> QED BY <1>1, <1>2, <2>1, NumberInduction
<1>4. 0 \in T
  OBVIOUS
<1>5. ASSUME NEW m \in T PROVE m + 1 \in T
  <2> SUFFICES ASSUME m + 1 <= Deepest, NEW n \in 0..(m + 1)
               PROVE  AnnotationUpTo[n] \subseteq AnnotationUpTo[m + 1]
    OBVIOUS
  <2>1. m \in Nat /\ m < Deepest /\ AnnotationUpTo[m] \subseteq AnnotationUpTo[m + 1]
    BY <1>3, DeepestIsNumber
  <2>4. \A k \in 0..m : AnnotationUpTo[k] \subseteq AnnotationUpTo[m]
    BY <2>1, DeepestIsNumber
  <2>2. CASE n \in 0..m
    BY <2>1, <2>2, <2>4
  <2>3. CASE n = m + 1
    BY <2>3
  <2> QED BY <2>1, <2>2, <2>3
<1>6. T = Nat
  <2> HIDE DEF T
  <2>1. T \in SUBSET Nat
    BY DEF T
  <2> QED BY <1>4, <1>5, <2>1, NumberInduction
<1> QED BY <1>6, DeepestIsNumber

(* The recursion of KindUpTo is sound. *)
LEMMA KindUpToHolds ==
  \A n \in 0..Deepest : KindUpTo[n] = KindsOver(IF n = 0 THEN {} ELSE KindUpTo[n - 1])
<1> DEFINE F(h, n) == KindsOver(IF n = 0 THEN {} ELSE h[n - 1])
           S == {n \in Nat : \E h : h = [m \in 0..n |-> F(h, m)]}
<1>1. 0 \in S
  <2> DEFINE h == [m \in 0..0 |-> KindsOver({})]
  <2>1. h = [m \in 0..0 |-> F(h, m)]
    OBVIOUS
  <2> QED BY <2>1
<1>2. ASSUME NEW n \in S PROVE n + 1 \in S
  <2>1. PICK h : h = [m \in 0..n |-> F(h, m)]
    OBVIOUS
  <2> DEFINE g == [m \in 0..(n + 1) |-> F(h, m)]
  <2>2. \A m \in 0..n : g[m] = h[m]
    BY <2>1
  <2>3. \A m \in 0..(n + 1) : F(g, m) = F(h, m)
    <3> HIDE DEF g
    <3> QED BY <2>2
  <2>4. g = [m \in 0..(n + 1) |-> F(g, m)]
    <3> HIDE DEF F
    <3> QED BY <2>3
  <2>5. n + 1 \in Nat /\ \E f : f = [m \in 0..(n + 1) |-> F(f, m)]
    <3> HIDE DEF g, F
    <3> QED BY <2>4
  <2> QED BY <2>5
<1>3. Deepest \in S
  <2> HIDE DEF S
  <2>1. S \in SUBSET Nat
    BY DEF S
  <2> QED BY <1>1, <1>2, <2>1, NumberInduction, DeepestIsNumber
<1>4. PICK h : h = [m \in 0..Deepest |-> F(h, m)]
  BY <1>3
<1>5. KindUpTo = [n \in 0..Deepest |-> F(KindUpTo, n)]
  BY <1>4 DEF KindUpTo
<1> QED BY <1>5

(* More levels make more kinds. *)
LEMMA KindsOverGrows ==
  ASSUME NEW A, NEW B, A \subseteq B
  PROVE  KindsOver(A) \subseteq KindsOver(B)
<1>1. Seq(A) \subseteq Seq(B)
  OBVIOUS
<1>2. [name : STRING, kind : A] \subseteq [name : STRING, kind : B]
  OBVIOUS
<1>3. Seq([name : STRING, kind : A]) \subseteq Seq([name : STRING, kind : B])
  BY <1>2, SeqGrows
<1>4. [k : {"Struct"}, name : STRING, fields : Seq([name : STRING, kind : A])]
        \subseteq [k : {"Struct"}, name : STRING, fields : Seq([name : STRING, kind : B])]
  BY <1>3
<1>5. [k : {"Tuple"}, elems : Seq(A)] \subseteq [k : {"Tuple"}, elems : Seq(B)]
  BY <1>1
<1>6. [k : {"Vector"}, size : 0..MaxLength, elem : A]
        \subseteq [k : {"Vector"}, size : 0..MaxLength, elem : B]
  OBVIOUS
<1> QED BY <1>4, <1>5, <1>6 DEF KindsOver

\* Each set of levels contains the sets of fewer.
LEMMA KindUpToGrows ==
  \A m \in 0..Deepest : \A n \in 0..m : KindUpTo[n] \subseteq KindUpTo[m]
<1> DEFINE S == {n \in Nat : n < Deepest => KindUpTo[n] \subseteq KindUpTo[n + 1]}
           T == {m \in Nat : m <= Deepest => \A n \in 0..m : KindUpTo[n] \subseteq KindUpTo[m]}
<1>1. 0 \in S
  <2> SUFFICES ASSUME 0 < Deepest PROVE KindUpTo[0] \subseteq KindUpTo[1]
    OBVIOUS
  <2>1. KindUpTo[0] = KindsOver({}) /\ KindUpTo[1] = KindsOver(KindUpTo[0])
    BY KindUpToHolds, DeepestIsNumber
  <2> QED BY <2>1, KindsOverGrows
<1>2. ASSUME NEW n \in S PROVE n + 1 \in S
  <2> SUFFICES ASSUME n + 1 < Deepest PROVE KindUpTo[n + 1] \subseteq KindUpTo[n + 2]
    OBVIOUS
  <2>1. KindUpTo[n + 1] = KindsOver(KindUpTo[n]) /\ KindUpTo[n + 2] = KindsOver(KindUpTo[n + 1])
    <3>1. n + 1 \in 0..Deepest /\ n + 2 \in 0..Deepest /\ n + 1 # 0 /\ n + 2 # 0
             /\ (n + 1) - 1 = n /\ (n + 2) - 1 = n + 1
      BY DeepestIsNumber
    <3> QED BY <3>1, KindUpToHolds
  <2>2. KindUpTo[n] \subseteq KindUpTo[n + 1]
    BY DeepestIsNumber
  <2> QED BY <2>1, <2>2, KindsOverGrows
<1>3. S = Nat
  <2> HIDE DEF S
  <2>1. S \in SUBSET Nat
    BY DEF S
  <2> QED BY <1>1, <1>2, <2>1, NumberInduction
<1>4. 0 \in T
  OBVIOUS
<1>5. ASSUME NEW m \in T PROVE m + 1 \in T
  <2> SUFFICES ASSUME m + 1 <= Deepest, NEW n \in 0..(m + 1)
               PROVE  KindUpTo[n] \subseteq KindUpTo[m + 1]
    OBVIOUS
  <2>1. m \in Nat /\ m < Deepest /\ KindUpTo[m] \subseteq KindUpTo[m + 1]
    BY <1>3, DeepestIsNumber
  <2>4. \A k \in 0..m : KindUpTo[k] \subseteq KindUpTo[m]
    BY <2>1, DeepestIsNumber
  <2>2. CASE n \in 0..m
    BY <2>1, <2>2, <2>4
  <2>3. CASE n = m + 1
    BY <2>3
  <2> QED BY <2>1, <2>2, <2>3
<1>6. T = Nat
  <2> HIDE DEF T
  <2>1. T \in SUBSET Nat
    BY DEF T
  <2> QED BY <1>4, <1>5, <2>1, NumberInduction
<1> QED BY <1>6, DeepestIsNumber

(* The recursion of ExprUpTo is sound. *)
LEMMA ExprUpToHolds ==
  \A n \in 0..MaxNesting : ExprUpTo[n] = ExprsOver(IF n = 0 THEN {} ELSE ExprUpTo[n - 1])
<1> DEFINE F(h, n) == ExprsOver(IF n = 0 THEN {} ELSE h[n - 1])
           S == {n \in Nat : \E h : h = [m \in 0..n |-> F(h, m)]}
<1>1. 0 \in S
  <2> DEFINE h == [m \in 0..0 |-> ExprsOver({})]
  <2>1. h = [m \in 0..0 |-> F(h, m)]
    OBVIOUS
  <2> QED BY <2>1
<1>2. ASSUME NEW n \in S PROVE n + 1 \in S
  <2>1. PICK h : h = [m \in 0..n |-> F(h, m)]
    OBVIOUS
  <2> DEFINE g == [m \in 0..(n + 1) |-> F(h, m)]
  <2>2. \A m \in 0..n : g[m] = h[m]
    BY <2>1
  <2>3. \A m \in 0..(n + 1) : F(g, m) = F(h, m)
    <3> HIDE DEF g
    <3> QED BY <2>2
  <2>4. g = [m \in 0..(n + 1) |-> F(g, m)]
    <3> HIDE DEF F
    <3> QED BY <2>3
  <2>5. n + 1 \in Nat /\ \E f : f = [m \in 0..(n + 1) |-> F(f, m)]
    <3> HIDE DEF g, F
    <3> QED BY <2>4
  <2> QED BY <2>5
<1>3. MaxNesting \in S
  <2> HIDE DEF S
  <2>1. S \in SUBSET Nat
    BY DEF S
  <2> QED BY <1>1, <1>2, <2>1, NumberInduction, DeepestIsNumber
<1>4. PICK h : h = [m \in 0..MaxNesting |-> F(h, m)]
  BY <1>3
<1>5. ExprUpTo = [n \in 0..MaxNesting |-> F(ExprUpTo, n)]
  BY <1>4 DEF ExprUpTo
<1> QED BY <1>5

(* More levels make more expressions. *)
LEMMA ExprsOverGrows ==
  ASSUME NEW A, NEW B, A \subseteq B
  PROVE  ExprsOver(A) \subseteq ExprsOver(B)
BY DEF ExprsOver

\* Each set of levels contains the sets of fewer.
LEMMA ExprUpToGrows ==
  \A m \in 0..MaxNesting : \A n \in 0..m : ExprUpTo[n] \subseteq ExprUpTo[m]
<1> DEFINE S == {n \in Nat : n < MaxNesting => ExprUpTo[n] \subseteq ExprUpTo[n + 1]}
           T == {m \in Nat : m <= MaxNesting => \A n \in 0..m : ExprUpTo[n] \subseteq ExprUpTo[m]}
<1>1. 0 \in S
  <2> SUFFICES ASSUME 0 < MaxNesting PROVE ExprUpTo[0] \subseteq ExprUpTo[1]
    OBVIOUS
  <2>1. ExprUpTo[0] = ExprsOver({}) /\ ExprUpTo[1] = ExprsOver(ExprUpTo[0])
    BY ExprUpToHolds, DeepestIsNumber
  <2> QED BY <2>1, ExprsOverGrows
<1>2. ASSUME NEW n \in S PROVE n + 1 \in S
  <2> SUFFICES ASSUME n + 1 < MaxNesting PROVE ExprUpTo[n + 1] \subseteq ExprUpTo[n + 2]
    OBVIOUS
  <2>1. ExprUpTo[n + 1] = ExprsOver(ExprUpTo[n]) /\ ExprUpTo[n + 2] = ExprsOver(ExprUpTo[n + 1])
    <3>1. n + 1 \in 0..MaxNesting /\ n + 2 \in 0..MaxNesting /\ n + 1 # 0 /\ n + 2 # 0
             /\ (n + 1) - 1 = n /\ (n + 2) - 1 = n + 1
      BY DeepestIsNumber
    <3> QED BY <3>1, ExprUpToHolds
  <2>2. ExprUpTo[n] \subseteq ExprUpTo[n + 1]
    BY DeepestIsNumber
  <2> QED BY <2>1, <2>2, ExprsOverGrows
<1>3. S = Nat
  <2> HIDE DEF S
  <2>1. S \in SUBSET Nat
    BY DEF S
  <2> QED BY <1>1, <1>2, <2>1, NumberInduction
<1>4. 0 \in T
  OBVIOUS
<1>5. ASSUME NEW m \in T PROVE m + 1 \in T
  <2> SUFFICES ASSUME m + 1 <= MaxNesting, NEW n \in 0..(m + 1)
               PROVE  ExprUpTo[n] \subseteq ExprUpTo[m + 1]
    OBVIOUS
  <2>1. m \in Nat /\ m < MaxNesting /\ ExprUpTo[m] \subseteq ExprUpTo[m + 1]
    BY <1>3, DeepestIsNumber
  <2>4. \A k \in 0..m : ExprUpTo[k] \subseteq ExprUpTo[m]
    BY <2>1, DeepestIsNumber
  <2>2. CASE n \in 0..m
    BY <2>1, <2>2, <2>4
  <2>3. CASE n = m + 1
    BY <2>3
  <2> QED BY <2>1, <2>2, <2>3
<1>6. T = Nat
  <2> HIDE DEF T
  <2>1. T \in SUBSET Nat
    BY DEF T
  <2> QED BY <1>4, <1>5, <2>1, NumberInduction
<1> QED BY <1>6, DeepestIsNumber

(* The recursion of ValueUpTo is sound. *)
LEMMA ValueUpToHolds ==
  \A n \in 0..Deepest : ValueUpTo[n] = ValuesOver(IF n = 0 THEN {} ELSE ValueUpTo[n - 1])
<1> DEFINE F(h, n) == ValuesOver(IF n = 0 THEN {} ELSE h[n - 1])
           S == {n \in Nat : \E h : h = [m \in 0..n |-> F(h, m)]}
<1>1. 0 \in S
  <2> DEFINE h == [m \in 0..0 |-> ValuesOver({})]
  <2>1. h = [m \in 0..0 |-> F(h, m)]
    OBVIOUS
  <2> QED BY <2>1
<1>2. ASSUME NEW n \in S PROVE n + 1 \in S
  <2>1. PICK h : h = [m \in 0..n |-> F(h, m)]
    OBVIOUS
  <2> DEFINE g == [m \in 0..(n + 1) |-> F(h, m)]
  <2>2. \A m \in 0..n : g[m] = h[m]
    BY <2>1
  <2>3. \A m \in 0..(n + 1) : F(g, m) = F(h, m)
    <3> HIDE DEF g
    <3> QED BY <2>2
  <2>4. g = [m \in 0..(n + 1) |-> F(g, m)]
    <3> HIDE DEF F
    <3> QED BY <2>3
  <2>5. n + 1 \in Nat /\ \E f : f = [m \in 0..(n + 1) |-> F(f, m)]
    <3> HIDE DEF g, F
    <3> QED BY <2>4
  <2> QED BY <2>5
<1>3. Deepest \in S
  <2> HIDE DEF S
  <2>1. S \in SUBSET Nat
    BY DEF S
  <2> QED BY <1>1, <1>2, <2>1, NumberInduction, DeepestIsNumber
<1>4. PICK h : h = [m \in 0..Deepest |-> F(h, m)]
  BY <1>3
<1>5. ValueUpTo = [n \in 0..Deepest |-> F(ValueUpTo, n)]
  BY <1>4 DEF ValueUpTo
<1> QED BY <1>5

(* More levels make more values. *)
LEMMA ValuesOverGrows ==
  ASSUME NEW A, NEW B, A \subseteq B
  PROVE  ValuesOver(A) \subseteq ValuesOver(B)
BY DEF ValuesOver

\* Each set of levels contains the sets of fewer.
LEMMA ValueUpToGrows ==
  \A m \in 0..Deepest : \A n \in 0..m : ValueUpTo[n] \subseteq ValueUpTo[m]
<1> DEFINE S == {n \in Nat : n < Deepest => ValueUpTo[n] \subseteq ValueUpTo[n + 1]}
           T == {m \in Nat : m <= Deepest => \A n \in 0..m : ValueUpTo[n] \subseteq ValueUpTo[m]}
<1>1. 0 \in S
  <2> SUFFICES ASSUME 0 < Deepest PROVE ValueUpTo[0] \subseteq ValueUpTo[1]
    OBVIOUS
  <2>1. ValueUpTo[0] = ValuesOver({}) /\ ValueUpTo[1] = ValuesOver(ValueUpTo[0])
    BY ValueUpToHolds, DeepestIsNumber
  <2> QED BY <2>1, ValuesOverGrows
<1>2. ASSUME NEW n \in S PROVE n + 1 \in S
  <2> SUFFICES ASSUME n + 1 < Deepest PROVE ValueUpTo[n + 1] \subseteq ValueUpTo[n + 2]
    OBVIOUS
  <2>1. ValueUpTo[n + 1] = ValuesOver(ValueUpTo[n]) /\ ValueUpTo[n + 2] = ValuesOver(ValueUpTo[n + 1])
    <3>1. n + 1 \in 0..Deepest /\ n + 2 \in 0..Deepest /\ n + 1 # 0 /\ n + 2 # 0
             /\ (n + 1) - 1 = n /\ (n + 2) - 1 = n + 1
      BY DeepestIsNumber
    <3> QED BY <3>1, ValueUpToHolds
  <2>2. ValueUpTo[n] \subseteq ValueUpTo[n + 1]
    BY DeepestIsNumber
  <2> QED BY <2>1, <2>2, ValuesOverGrows
<1>3. S = Nat
  <2> HIDE DEF S
  <2>1. S \in SUBSET Nat
    BY DEF S
  <2> QED BY <1>1, <1>2, <2>1, NumberInduction
<1>4. 0 \in T
  OBVIOUS
<1>5. ASSUME NEW m \in T PROVE m + 1 \in T
  <2> SUFFICES ASSUME m + 1 <= Deepest, NEW n \in 0..(m + 1)
               PROVE  ValueUpTo[n] \subseteq ValueUpTo[m + 1]
    OBVIOUS
  <2>1. m \in Nat /\ m < Deepest /\ ValueUpTo[m] \subseteq ValueUpTo[m + 1]
    BY <1>3, DeepestIsNumber
  <2>4. \A k \in 0..m : ValueUpTo[k] \subseteq ValueUpTo[m]
    BY <2>1, DeepestIsNumber
  <2>2. CASE n \in 0..m
    BY <2>1, <2>2, <2>4
  <2>3. CASE n = m + 1
    BY <2>3
  <2> QED BY <2>1, <2>2, <2>3
<1>6. T = Nat
  <2> HIDE DEF T
  <2>1. T \in SUBSET Nat
    BY DEF T
  <2> QED BY <1>4, <1>5, <2>1, NumberInduction
<1> QED BY <1>6, DeepestIsNumber

-----------------------------------------------------------------------------
(* What types and expressions are made of.                                 *)

\* The parts of an annotation over a set are in the set.
LEMMA PartsOfAnnotation ==
  ASSUME NEW I, NEW t \in AnnotationsOver(I)
  PROVE  Parts(t) \in Seq(I)
BY DEF AnnotationsOver, Parts, Boolean, Field, Absent

\* The parts of a kind over a set are in the set.
LEMMA PartsOfKind ==
  ASSUME NEW I, NEW t \in KindsOver(I)
  PROVE  Parts(t) \in Seq(I)
<1>1. CASE t \in [k : {"Struct"}, name : STRING, fields : Seq([name : STRING, kind : I])]
  <2> DEFINE s == t.fields
             R == [name : STRING, kind : I]
  <2>1. Parts(t) = [i \in DOMAIN s |-> s[i].kind]
    BY <1>1 DEF Parts
  <2>2. s \in Seq(R) /\ DOMAIN s = 1..Len(s) /\ Len(s) \in Nat
    BY <1>1
  <2>3. \A i \in 1..Len(s) : s[i].kind \in I
    <3> HIDE DEF s
    <3> SUFFICES ASSUME NEW i \in 1..Len(s) PROVE s[i].kind \in I
      OBVIOUS
    <3>1. s[i] \in R
      <4> HIDE DEF R
      <4> QED BY <2>2
    <3> QED BY <3>1
  <2> HIDE DEF s
  <2> QED BY <2>1, <2>2, <2>3
<1>2. CASE t \notin [k : {"Struct"}, name : STRING, fields : Seq([name : STRING, kind : I])]
  BY <1>2 DEF KindsOver, Parts, Boolean, Field, Unknown
<1> QED BY <1>1, <1>2

(* Tuples and vectors over others. *)
LEMMA PartsMakeSeq ==
  ASSUME NEW I, NEW t \in KindsOver(I), IsSeqKind(t)
  PROVE  /\ SeqLen(t) \in Nat
         /\ \A i \in 1..SeqLen(t) : SeqElem(t, i) \in I /\ \E j \in DOMAIN Parts(t) : SeqElem(t, i) = Parts(t)[j]
<1>1. CASE t.k = "Tuple"
  <2>1. t.elems \in Seq(I)
    BY <1>1 DEF KindsOver, Boolean, Field, Unknown
  <2> QED BY <1>1, <2>1 DEF SeqLen, SeqElem, Parts
<1>2. CASE t.k = "Vector"
  <2>1. t.size \in 0..MaxLength /\ t.elem \in I
    BY <1>2 DEF KindsOver, Boolean, Field, Unknown
  <2>2. MaxLength \in Nat
    BY LimitsAssumption
  <2>3. Parts(t) = <<t.elem>> /\ \A i : SeqElem(t, i) = Parts(t)[1]
    BY <1>2 DEF SeqElem, Parts
  <2> QED BY <1>2, <2>1, <2>2, <2>3 DEF SeqLen
<1> QED BY <1>1, <1>2 DEF IsSeqKind

\* The operands of an expression over a set are in the set.
LEMMA OperandsOfExpr ==
  ASSUME NEW I, NEW e \in ExprsOver(I)
  PROVE  Operands(e) \in Seq(I)
BY DEF ExprsOver, Operands

\* A part has a level less.
LEMMA PartsOfAnnotationUpTo ==
  ASSUME NEW n \in 0..Deepest, NEW t \in AnnotationUpTo[n], NEW i \in DOMAIN Parts(t)
  PROVE  n # 0 /\ Parts(t)[i] \in AnnotationUpTo[n - 1]
<1>1. Parts(t) \in Seq(IF n = 0 THEN {} ELSE AnnotationUpTo[n - 1])
  BY AnnotationUpToHolds, PartsOfAnnotation
<1>2. Parts(t)[i] \in IF n = 0 THEN {} ELSE AnnotationUpTo[n - 1]
  BY <1>1
<1> QED BY <1>2

\* A part has a level less.
LEMMA PartsOfKindUpTo ==
  ASSUME NEW n \in 0..Deepest, NEW t \in KindUpTo[n], NEW i \in DOMAIN Parts(t)
  PROVE  n # 0 /\ Parts(t)[i] \in KindUpTo[n - 1]
<1>1. Parts(t) \in Seq(IF n = 0 THEN {} ELSE KindUpTo[n - 1])
  BY KindUpToHolds, PartsOfKind
<1>2. Parts(t)[i] \in IF n = 0 THEN {} ELSE KindUpTo[n - 1]
  BY <1>1
<1> QED BY <1>2

\* An operand has a level less.
LEMMA OperandsOfExprUpTo ==
  ASSUME NEW n \in 0..MaxNesting, NEW e \in ExprUpTo[n], NEW i \in DOMAIN Operands(e)
  PROVE  n # 0 /\ Operands(e)[i] \in ExprUpTo[n - 1]
<1>1. Operands(e) \in Seq(IF n = 0 THEN {} ELSE ExprUpTo[n - 1])
  BY ExprUpToHolds, OperandsOfExpr
<1>2. Operands(e)[i] \in IF n = 0 THEN {} ELSE ExprUpTo[n - 1]
  BY <1>1
<1> QED BY <1>2

(* The parts and operands of what is in the largest set are in it. *)
LEMMA PartsStay ==
  /\ \A t \in Annotation : \A i \in DOMAIN Parts(t) : Parts(t)[i] \in Annotation
  /\ \A t \in Kind : \A i \in DOMAIN Parts(t) : Parts(t)[i] \in Kind
  /\ \A e \in Expr : \A i \in DOMAIN Operands(e) : Operands(e)[i] \in Expr
<1>1. ASSUME NEW t \in Annotation, NEW i \in DOMAIN Parts(t) PROVE Parts(t)[i] \in Annotation
  <2>1. Deepest # 0 /\ Parts(t)[i] \in AnnotationUpTo[Deepest - 1]
    BY PartsOfAnnotationUpTo, DeepestIsNumber DEF Annotation
  <2> QED BY <2>1, AnnotationUpToGrows, DeepestIsNumber DEF Annotation
<1>2. ASSUME NEW t \in Kind, NEW i \in DOMAIN Parts(t) PROVE Parts(t)[i] \in Kind
  <2>1. Deepest # 0 /\ Parts(t)[i] \in KindUpTo[Deepest - 1]
    BY PartsOfKindUpTo, DeepestIsNumber DEF Kind
  <2> QED BY <2>1, KindUpToGrows, DeepestIsNumber DEF Kind
<1>3. ASSUME NEW e \in Expr, NEW i \in DOMAIN Operands(e) PROVE Operands(e)[i] \in Expr
  <2>1. MaxNesting # 0 /\ Operands(e)[i] \in ExprUpTo[MaxNesting - 1]
    BY OperandsOfExprUpTo, DeepestIsNumber DEF Expr
  <2> QED BY <2>1, ExprUpToGrows, DeepestIsNumber DEF Expr
<1> QED BY <1>1, <1>2, <1>3

-----------------------------------------------------------------------------
(* What recurses on types and expressions does what its definition says.   *)

(* The recursion of TypeNodeKind is sound. *)
LEMMA TypeNodeKindHolds ==
  \A t \in Annotation : TypeNodeKind[t] = AnnotationKind(t, [i \in DOMAIN Parts(t) |-> TypeNodeKind[Parts(t)[i]]])
<1> DEFINE F(h, t) == AnnotationKind(t, [i \in DOMAIN Parts(t) |-> h[Parts(t)[i]]])
           S == {n \in Nat : n <= Deepest => \E h : h = [t \in AnnotationUpTo[n] |-> F(h, t)]}
<1>1. 0 \in S
  <2> DEFINE g == [t \in AnnotationUpTo[0] |-> F(<<>>, t)]
  <2>1. \A t \in AnnotationUpTo[0] : F(g, t) = F(<<>>, t)
    <3> SUFFICES ASSUME NEW t \in AnnotationUpTo[0] PROVE F(g, t) = F(<<>>, t)
      OBVIOUS
    <3>1. DOMAIN Parts(t) = {}
      <4>1. \A i \in DOMAIN Parts(t) : FALSE
        BY PartsOfAnnotationUpTo, DeepestIsNumber
      <4> QED BY <4>1
    <3>2. [i \in DOMAIN Parts(t) |-> g[Parts(t)[i]]] = [i \in DOMAIN Parts(t) |-> <<>>[Parts(t)[i]]]
      BY <3>1
    <3> HIDE DEF g
    <3> QED BY <3>2
  <2>2. g = [t \in AnnotationUpTo[0] |-> F(g, t)]
    <3> HIDE DEF F
    <3> QED BY <2>1
  <2>3. \E f : f = [t \in AnnotationUpTo[0] |-> F(f, t)]
    <3> HIDE DEF g, F
    <3> QED BY <2>2
  <2> QED BY <2>3
<1>2. ASSUME NEW n \in S PROVE n + 1 \in S
  <2> SUFFICES ASSUME n + 1 <= Deepest PROVE \E f : f = [t \in AnnotationUpTo[n + 1] |-> F(f, t)]
    <3>1. n + 1 \in Nat
      OBVIOUS
    <3> HIDE DEF F
    <3> QED BY <3>1
  <2>1. PICK h : h = [t \in AnnotationUpTo[n] |-> F(h, t)]
    <3>1. n <= Deepest
      BY DeepestIsNumber
    <3> HIDE DEF F
    <3> QED BY <3>1
  <2> DEFINE g == [t \in AnnotationUpTo[n + 1] |-> F(h, t)]
  <2>2. \A t \in AnnotationUpTo[n] : g[t] = h[t]
    <3>1. AnnotationUpTo[n] \subseteq AnnotationUpTo[n + 1]
      BY AnnotationUpToGrows, DeepestIsNumber
    <3> HIDE DEF F
    <3> QED BY <2>1, <3>1
  <2>3. \A t \in AnnotationUpTo[n + 1] : F(g, t) = F(h, t)
    <3> SUFFICES ASSUME NEW t \in AnnotationUpTo[n + 1] PROVE F(g, t) = F(h, t)
      OBVIOUS
    <3>1. \A i \in DOMAIN Parts(t) : Parts(t)[i] \in AnnotationUpTo[n]
      BY PartsOfAnnotationUpTo, DeepestIsNumber
    <3> HIDE DEF g
    <3>2. [i \in DOMAIN Parts(t) |-> g[Parts(t)[i]]] = [i \in DOMAIN Parts(t) |-> h[Parts(t)[i]]]
      BY <2>2, <3>1
    <3> QED BY <3>2
  <2>4. g = [t \in AnnotationUpTo[n + 1] |-> F(g, t)]
    <3> HIDE DEF F
    <3> QED BY <2>3
  <2> HIDE DEF g, F
  <2> QED BY <2>4
<1>3. Deepest \in S
  <2> HIDE DEF S
  <2>1. S \in SUBSET Nat
    BY DEF S
  <2> QED BY <1>1, <1>2, <2>1, NumberInduction, DeepestIsNumber
<1>4. PICK h : h = [t \in Annotation |-> F(h, t)]
  <2> HIDE DEF F
  <2> QED BY <1>3, DeepestIsNumber DEF Annotation
<1>5. TypeNodeKind = [t \in Annotation |-> F(TypeNodeKind, t)]
  BY <1>4 DEF TypeNodeKind
<1> QED BY <1>5

(* The recursion of DisplayKind is sound. *)
LEMMA DisplayKindHolds ==
  \A t \in Kind : DisplayKind[t] = Displayed(t, [i \in DOMAIN Parts(t) |-> DisplayKind[Parts(t)[i]]])
<1> DEFINE F(h, t) == Displayed(t, [i \in DOMAIN Parts(t) |-> h[Parts(t)[i]]])
           S == {n \in Nat : n <= Deepest => \E h : h = [t \in KindUpTo[n] |-> F(h, t)]}
<1>1. 0 \in S
  <2> DEFINE g == [t \in KindUpTo[0] |-> F(<<>>, t)]
  <2>1. \A t \in KindUpTo[0] : F(g, t) = F(<<>>, t)
    <3> SUFFICES ASSUME NEW t \in KindUpTo[0] PROVE F(g, t) = F(<<>>, t)
      OBVIOUS
    <3>1. DOMAIN Parts(t) = {}
      <4>1. \A i \in DOMAIN Parts(t) : FALSE
        BY PartsOfKindUpTo, DeepestIsNumber
      <4> QED BY <4>1
    <3>2. [i \in DOMAIN Parts(t) |-> g[Parts(t)[i]]] = [i \in DOMAIN Parts(t) |-> <<>>[Parts(t)[i]]]
      BY <3>1
    <3> HIDE DEF g
    <3> QED BY <3>2
  <2>2. g = [t \in KindUpTo[0] |-> F(g, t)]
    <3> HIDE DEF F
    <3> QED BY <2>1
  <2>3. \E f : f = [t \in KindUpTo[0] |-> F(f, t)]
    <3> HIDE DEF g, F
    <3> QED BY <2>2
  <2> QED BY <2>3
<1>2. ASSUME NEW n \in S PROVE n + 1 \in S
  <2> SUFFICES ASSUME n + 1 <= Deepest PROVE \E f : f = [t \in KindUpTo[n + 1] |-> F(f, t)]
    <3>1. n + 1 \in Nat
      OBVIOUS
    <3> HIDE DEF F
    <3> QED BY <3>1
  <2>1. PICK h : h = [t \in KindUpTo[n] |-> F(h, t)]
    <3>1. n <= Deepest
      BY DeepestIsNumber
    <3> HIDE DEF F
    <3> QED BY <3>1
  <2> DEFINE g == [t \in KindUpTo[n + 1] |-> F(h, t)]
  <2>2. \A t \in KindUpTo[n] : g[t] = h[t]
    <3>1. KindUpTo[n] \subseteq KindUpTo[n + 1]
      BY KindUpToGrows, DeepestIsNumber
    <3> HIDE DEF F
    <3> QED BY <2>1, <3>1
  <2>3. \A t \in KindUpTo[n + 1] : F(g, t) = F(h, t)
    <3> SUFFICES ASSUME NEW t \in KindUpTo[n + 1] PROVE F(g, t) = F(h, t)
      OBVIOUS
    <3>1. \A i \in DOMAIN Parts(t) : Parts(t)[i] \in KindUpTo[n]
      BY PartsOfKindUpTo, DeepestIsNumber
    <3> HIDE DEF g
    <3>2. [i \in DOMAIN Parts(t) |-> g[Parts(t)[i]]] = [i \in DOMAIN Parts(t) |-> h[Parts(t)[i]]]
      BY <2>2, <3>1
    <3> QED BY <3>2
  <2>4. g = [t \in KindUpTo[n + 1] |-> F(g, t)]
    <3> HIDE DEF F
    <3> QED BY <2>3
  <2> HIDE DEF g, F
  <2> QED BY <2>4
<1>3. Deepest \in S
  <2> HIDE DEF S
  <2>1. S \in SUBSET Nat
    BY DEF S
  <2> QED BY <1>1, <1>2, <2>1, NumberInduction, DeepestIsNumber
<1>4. PICK h : h = [t \in Kind |-> F(h, t)]
  <2> HIDE DEF F
  <2> QED BY <1>3, DeepestIsNumber DEF Kind
<1>5. DisplayKind = [t \in Kind |-> F(DisplayKind, t)]
  BY <1>4 DEF DisplayKind
<1> QED BY <1>5

(* The recursion of ExprTyKind is sound. *)
LEMMA ExprTyKindHolds ==
  \A t \in Expr : ExprTyKind[t] = ExprKind(t, [i \in DOMAIN Operands(t) |-> ExprTyKind[Operands(t)[i]]])
<1> DEFINE F(h, t) == ExprKind(t, [i \in DOMAIN Operands(t) |-> h[Operands(t)[i]]])
           S == {n \in Nat : n <= MaxNesting => \E h : h = [t \in ExprUpTo[n] |-> F(h, t)]}
<1>1. 0 \in S
  <2> DEFINE g == [t \in ExprUpTo[0] |-> F(<<>>, t)]
  <2>1. \A t \in ExprUpTo[0] : F(g, t) = F(<<>>, t)
    <3> SUFFICES ASSUME NEW t \in ExprUpTo[0] PROVE F(g, t) = F(<<>>, t)
      OBVIOUS
    <3>1. DOMAIN Operands(t) = {}
      <4>1. \A i \in DOMAIN Operands(t) : FALSE
        BY OperandsOfExprUpTo, DeepestIsNumber
      <4> QED BY <4>1
    <3>2. [i \in DOMAIN Operands(t) |-> g[Operands(t)[i]]] = [i \in DOMAIN Operands(t) |-> <<>>[Operands(t)[i]]]
      BY <3>1
    <3> HIDE DEF g
    <3> QED BY <3>2
  <2>2. g = [t \in ExprUpTo[0] |-> F(g, t)]
    <3> HIDE DEF F
    <3> QED BY <2>1
  <2>3. \E f : f = [t \in ExprUpTo[0] |-> F(f, t)]
    <3> HIDE DEF g, F
    <3> QED BY <2>2
  <2> QED BY <2>3
<1>2. ASSUME NEW n \in S PROVE n + 1 \in S
  <2> SUFFICES ASSUME n + 1 <= MaxNesting PROVE \E f : f = [t \in ExprUpTo[n + 1] |-> F(f, t)]
    <3>1. n + 1 \in Nat
      OBVIOUS
    <3> HIDE DEF F
    <3> QED BY <3>1
  <2>1. PICK h : h = [t \in ExprUpTo[n] |-> F(h, t)]
    <3>1. n <= MaxNesting
      BY DeepestIsNumber
    <3> HIDE DEF F
    <3> QED BY <3>1
  <2> DEFINE g == [t \in ExprUpTo[n + 1] |-> F(h, t)]
  <2>2. \A t \in ExprUpTo[n] : g[t] = h[t]
    <3>1. ExprUpTo[n] \subseteq ExprUpTo[n + 1]
      BY ExprUpToGrows, DeepestIsNumber
    <3> HIDE DEF F
    <3> QED BY <2>1, <3>1
  <2>3. \A t \in ExprUpTo[n + 1] : F(g, t) = F(h, t)
    <3> SUFFICES ASSUME NEW t \in ExprUpTo[n + 1] PROVE F(g, t) = F(h, t)
      OBVIOUS
    <3>1. \A i \in DOMAIN Operands(t) : Operands(t)[i] \in ExprUpTo[n]
      BY OperandsOfExprUpTo, DeepestIsNumber
    <3> HIDE DEF g
    <3>2. [i \in DOMAIN Operands(t) |-> g[Operands(t)[i]]] = [i \in DOMAIN Operands(t) |-> h[Operands(t)[i]]]
      BY <2>2, <3>1
    <3> QED BY <3>2
  <2>4. g = [t \in ExprUpTo[n + 1] |-> F(g, t)]
    <3> HIDE DEF F
    <3> QED BY <2>3
  <2> HIDE DEF g, F
  <2> QED BY <2>4
<1>3. MaxNesting \in S
  <2> HIDE DEF S
  <2>1. S \in SUBSET Nat
    BY DEF S
  <2> QED BY <1>1, <1>2, <2>1, NumberInduction, DeepestIsNumber
<1>4. PICK h : h = [t \in Expr |-> F(h, t)]
  <2> HIDE DEF F
  <2> QED BY <1>3, DeepestIsNumber DEF Expr
<1>5. ExprTyKind = [t \in Expr |-> F(ExprTyKind, t)]
  BY <1>4 DEF ExprTyKind
<1> QED BY <1>5

(* The recursion of Members is sound. *)
LEMMA MembersHolds ==
  \A t \in Kind : Members[t] = KindMembers(t, [i \in DOMAIN Parts(t) |-> Members[Parts(t)[i]]])
<1> DEFINE F(h, t) == KindMembers(t, [i \in DOMAIN Parts(t) |-> h[Parts(t)[i]]])
           S == {n \in Nat : n <= Deepest => \E h : h = [t \in KindUpTo[n] |-> F(h, t)]}
<1>1. 0 \in S
  <2> DEFINE g == [t \in KindUpTo[0] |-> F(<<>>, t)]
  <2>1. \A t \in KindUpTo[0] : F(g, t) = F(<<>>, t)
    <3> SUFFICES ASSUME NEW t \in KindUpTo[0] PROVE F(g, t) = F(<<>>, t)
      OBVIOUS
    <3>1. DOMAIN Parts(t) = {}
      <4>1. \A i \in DOMAIN Parts(t) : FALSE
        BY PartsOfKindUpTo, DeepestIsNumber
      <4> QED BY <4>1
    <3>2. [i \in DOMAIN Parts(t) |-> g[Parts(t)[i]]] = [i \in DOMAIN Parts(t) |-> <<>>[Parts(t)[i]]]
      BY <3>1
    <3> HIDE DEF g
    <3> QED BY <3>2
  <2>2. g = [t \in KindUpTo[0] |-> F(g, t)]
    <3> HIDE DEF F
    <3> QED BY <2>1
  <2>3. \E f : f = [t \in KindUpTo[0] |-> F(f, t)]
    <3> HIDE DEF g, F
    <3> QED BY <2>2
  <2> QED BY <2>3
<1>2. ASSUME NEW n \in S PROVE n + 1 \in S
  <2> SUFFICES ASSUME n + 1 <= Deepest PROVE \E f : f = [t \in KindUpTo[n + 1] |-> F(f, t)]
    <3>1. n + 1 \in Nat
      OBVIOUS
    <3> HIDE DEF F
    <3> QED BY <3>1
  <2>1. PICK h : h = [t \in KindUpTo[n] |-> F(h, t)]
    <3>1. n <= Deepest
      BY DeepestIsNumber
    <3> HIDE DEF F
    <3> QED BY <3>1
  <2> DEFINE g == [t \in KindUpTo[n + 1] |-> F(h, t)]
  <2>2. \A t \in KindUpTo[n] : g[t] = h[t]
    <3>1. KindUpTo[n] \subseteq KindUpTo[n + 1]
      BY KindUpToGrows, DeepestIsNumber
    <3> HIDE DEF F
    <3> QED BY <2>1, <3>1
  <2>3. \A t \in KindUpTo[n + 1] : F(g, t) = F(h, t)
    <3> SUFFICES ASSUME NEW t \in KindUpTo[n + 1] PROVE F(g, t) = F(h, t)
      OBVIOUS
    <3>1. \A i \in DOMAIN Parts(t) : Parts(t)[i] \in KindUpTo[n]
      BY PartsOfKindUpTo, DeepestIsNumber
    <3> HIDE DEF g
    <3>2. [i \in DOMAIN Parts(t) |-> g[Parts(t)[i]]] = [i \in DOMAIN Parts(t) |-> h[Parts(t)[i]]]
      BY <2>2, <3>1
    <3> QED BY <3>2
  <2>4. g = [t \in KindUpTo[n + 1] |-> F(g, t)]
    <3> HIDE DEF F
    <3> QED BY <2>3
  <2> HIDE DEF g, F
  <2> QED BY <2>4
<1>3. Deepest \in S
  <2> HIDE DEF S
  <2>1. S \in SUBSET Nat
    BY DEF S
  <2> QED BY <1>1, <1>2, <2>1, NumberInduction, DeepestIsNumber
<1>4. PICK h : h = [t \in Kind |-> F(h, t)]
  <2> HIDE DEF F
  <2> QED BY <1>3, DeepestIsNumber DEF Kind
<1>5. Members = [t \in Kind |-> F(Members, t)]
  BY <1>4 DEF Members
<1> QED BY <1>5

(* The recursion of Supertypes is sound. *)
LEMMA SupertypesHolds ==
  \A t \in Kind : Supertypes[t] = {sup \in Kind :
     \/ Unknown \in {t, sup}
     \/ t = sup /\ t.k \in {"Boolean", "Field"}
     \/ t.k = "Uint" /\ sup.k = "Field"
     \/ t.k = "Uint" /\ sup.k = "Uint" /\ UintUpperLe(t.upper, sup.upper)
     \/ t.k = "Bytes" /\ sup.k = "Bytes" /\ t.size = sup.size
     \/ /\ IsSeqKind(t) /\ IsSeqKind(sup)
        /\ SeqLen(t) = SeqLen(sup)
        /\ \A i \in 1..SeqLen(t) : SeqElem(sup, i) \in Supertypes[SeqElem(t, i)]
     \/ t.k \in {"Struct", "Enum"} /\ sup.k = t.k /\ t.name = sup.name}
<1> DEFINE F(h, t) == {sup \in Kind :
     \/ Unknown \in {t, sup}
     \/ t = sup /\ t.k \in {"Boolean", "Field"}
     \/ t.k = "Uint" /\ sup.k = "Field"
     \/ t.k = "Uint" /\ sup.k = "Uint" /\ UintUpperLe(t.upper, sup.upper)
     \/ t.k = "Bytes" /\ sup.k = "Bytes" /\ t.size = sup.size
     \/ /\ IsSeqKind(t) /\ IsSeqKind(sup)
        /\ SeqLen(t) = SeqLen(sup)
        /\ \A i \in 1..SeqLen(t) : SeqElem(sup, i) \in h[SeqElem(t, i)]
     \/ t.k \in {"Struct", "Enum"} /\ sup.k = t.k /\ t.name = sup.name}
           S == {n \in Nat : n <= Deepest => \E h : h = [t \in KindUpTo[n] |-> F(h, t)]}
<1>1. 0 \in S
  <2> DEFINE g == [t \in KindUpTo[0] |-> F(<<>>, t)]
  <2>1. \A t \in KindUpTo[0] : F(g, t) = F(<<>>, t)
    <3> SUFFICES ASSUME NEW t \in KindUpTo[0] PROVE F(g, t) = F(<<>>, t)
      OBVIOUS
    <3>1. DOMAIN Parts(t) = {}
      <4>1. \A i \in DOMAIN Parts(t) : FALSE
        BY PartsOfKindUpTo, DeepestIsNumber
      <4> QED BY <4>1
    <3>2. IsSeqKind(t) => SeqLen(t) = 0
      BY <3>1, PartsMakeSeq, KindUpToHolds, DeepestIsNumber
    <3> HIDE DEF g
    <3> QED BY <3>2
  <2>2. g = [t \in KindUpTo[0] |-> F(g, t)]
    <3> HIDE DEF F
    <3> QED BY <2>1
  <2>3. \E f : f = [t \in KindUpTo[0] |-> F(f, t)]
    <3> HIDE DEF g, F
    <3> QED BY <2>2
  <2> QED BY <2>3
<1>2. ASSUME NEW n \in S PROVE n + 1 \in S
  <2> SUFFICES ASSUME n + 1 <= Deepest PROVE \E f : f = [t \in KindUpTo[n + 1] |-> F(f, t)]
    <3>1. n + 1 \in Nat
      OBVIOUS
    <3> HIDE DEF F
    <3> QED BY <3>1
  <2>1. PICK h : h = [t \in KindUpTo[n] |-> F(h, t)]
    <3>1. n <= Deepest
      BY DeepestIsNumber
    <3> HIDE DEF F
    <3> QED BY <3>1
  <2> DEFINE g == [t \in KindUpTo[n + 1] |-> F(h, t)]
  <2>2. \A t \in KindUpTo[n] : g[t] = h[t]
    <3>1. KindUpTo[n] \subseteq KindUpTo[n + 1]
      BY KindUpToGrows, DeepestIsNumber
    <3> HIDE DEF F
    <3> QED BY <2>1, <3>1
  <2>3. \A t \in KindUpTo[n + 1] : F(g, t) = F(h, t)
    <3> SUFFICES ASSUME NEW t \in KindUpTo[n + 1] PROVE F(g, t) = F(h, t)
      OBVIOUS
    <3>1. \A i \in DOMAIN Parts(t) : Parts(t)[i] \in KindUpTo[n]
      BY PartsOfKindUpTo, DeepestIsNumber
    <3> HIDE DEF g
    <3>2. \A sup : IsSeqKind(t) => \A i \in 1..SeqLen(t) :
                        SeqElem(sup, i) \in g[SeqElem(t, i)] <=> SeqElem(sup, i) \in h[SeqElem(t, i)]
      BY <2>2, <3>1, PartsMakeSeq, KindUpToHolds, DeepestIsNumber
    <3> QED BY <3>2
  <2>4. g = [t \in KindUpTo[n + 1] |-> F(g, t)]
    <3> HIDE DEF F
    <3> QED BY <2>3
  <2> HIDE DEF g, F
  <2> QED BY <2>4
<1>3. Deepest \in S
  <2> HIDE DEF S
  <2>1. S \in SUBSET Nat
    BY DEF S
  <2> QED BY <1>1, <1>2, <2>1, NumberInduction, DeepestIsNumber
<1>4. PICK h : h = [t \in Kind |-> F(h, t)]
  <2> HIDE DEF F
  <2> QED BY <1>3, DeepestIsNumber DEF Kind
<1>5. Supertypes = [t \in Kind |-> F(Supertypes, t)]
  BY <1>4 DEF Supertypes
<1> QED BY <1>5

(* The recursion of SubTypes is sound. *)
LEMMA SubTypesHolds ==
  \A t \in Annotation \cup Kind : SubTypes[t] = {t} \cup UNION {SubTypes[Parts(t)[i]] : i \in DOMAIN Parts(t)}
<1> DEFINE F(h, t) == {t} \cup UNION {h[Parts(t)[i]] : i \in DOMAIN Parts(t)}
           S == {n \in Nat : n <= Deepest => \E h : h = [t \in (AnnotationUpTo[n] \cup KindUpTo[n]) |-> F(h, t)]}
<1>1. 0 \in S
  <2> DEFINE g == [t \in (AnnotationUpTo[0] \cup KindUpTo[0]) |-> F(<<>>, t)]
  <2>1. \A t \in (AnnotationUpTo[0] \cup KindUpTo[0]) : F(g, t) = F(<<>>, t)
    <3> SUFFICES ASSUME NEW t \in (AnnotationUpTo[0] \cup KindUpTo[0]) PROVE F(g, t) = F(<<>>, t)
      OBVIOUS
    <3>1. DOMAIN Parts(t) = {}
      <4>1. \A i \in DOMAIN Parts(t) : FALSE
        BY PartsOfAnnotationUpTo, PartsOfKindUpTo, DeepestIsNumber
      <4> QED BY <4>1
    <3>2. {g[Parts(t)[i]] : i \in DOMAIN Parts(t)} = {<<>>[Parts(t)[i]] : i \in DOMAIN Parts(t)}
      BY <3>1
    <3> HIDE DEF g
    <3> QED BY <3>2
  <2>2. g = [t \in (AnnotationUpTo[0] \cup KindUpTo[0]) |-> F(g, t)]
    <3> HIDE DEF F
    <3> QED BY <2>1
  <2>3. \E f : f = [t \in (AnnotationUpTo[0] \cup KindUpTo[0]) |-> F(f, t)]
    <3> HIDE DEF g, F
    <3> QED BY <2>2
  <2> QED BY <2>3
<1>2. ASSUME NEW n \in S PROVE n + 1 \in S
  <2> SUFFICES ASSUME n + 1 <= Deepest PROVE \E f : f = [t \in (AnnotationUpTo[n + 1] \cup KindUpTo[n + 1]) |-> F(f, t)]
    <3>1. n + 1 \in Nat
      OBVIOUS
    <3> HIDE DEF F
    <3> QED BY <3>1
  <2>1. PICK h : h = [t \in (AnnotationUpTo[n] \cup KindUpTo[n]) |-> F(h, t)]
    <3>1. n <= Deepest
      BY DeepestIsNumber
    <3> HIDE DEF F
    <3> QED BY <3>1
  <2> DEFINE g == [t \in (AnnotationUpTo[n + 1] \cup KindUpTo[n + 1]) |-> F(h, t)]
  <2>2. \A t \in (AnnotationUpTo[n] \cup KindUpTo[n]) : g[t] = h[t]
    <3>1. (AnnotationUpTo[n] \cup KindUpTo[n]) \subseteq (AnnotationUpTo[n + 1] \cup KindUpTo[n + 1])
      BY AnnotationUpToGrows, KindUpToGrows, DeepestIsNumber
    <3> HIDE DEF F
    <3> QED BY <2>1, <3>1
  <2>3. \A t \in (AnnotationUpTo[n + 1] \cup KindUpTo[n + 1]) : F(g, t) = F(h, t)
    <3> SUFFICES ASSUME NEW t \in (AnnotationUpTo[n + 1] \cup KindUpTo[n + 1]) PROVE F(g, t) = F(h, t)
      OBVIOUS
    <3>1. \A i \in DOMAIN Parts(t) : Parts(t)[i] \in (AnnotationUpTo[n] \cup KindUpTo[n])
      BY PartsOfAnnotationUpTo, PartsOfKindUpTo, DeepestIsNumber
    <3> HIDE DEF g
    <3>2. {g[Parts(t)[i]] : i \in DOMAIN Parts(t)} = {h[Parts(t)[i]] : i \in DOMAIN Parts(t)}
      BY <2>2, <3>1
    <3> QED BY <3>2
  <2>4. g = [t \in (AnnotationUpTo[n + 1] \cup KindUpTo[n + 1]) |-> F(g, t)]
    <3> HIDE DEF F
    <3> QED BY <2>3
  <2> HIDE DEF g, F
  <2> QED BY <2>4
<1>3. Deepest \in S
  <2> HIDE DEF S
  <2>1. S \in SUBSET Nat
    BY DEF S
  <2> QED BY <1>1, <1>2, <2>1, NumberInduction, DeepestIsNumber
<1>4. PICK h : h = [t \in Annotation \cup Kind |-> F(h, t)]
  <2> HIDE DEF F
  <2>1. \E h : h = [t \in (AnnotationUpTo[Deepest] \cup KindUpTo[Deepest]) |-> F(h, t)]
    BY <1>3
  <2> QED BY <2>1 DEF Annotation, Kind
<1>5. SubTypes = [t \in Annotation \cup Kind |-> F(SubTypes, t)]
  BY <1>4 DEF SubTypes
<1> QED BY <1>5

(* The recursion of SubExprs is sound. *)
LEMMA SubExprsHolds ==
  \A t \in Expr : SubExprs[t] = {t} \cup UNION {SubExprs[Operands(t)[i]] : i \in DOMAIN Operands(t)}
<1> DEFINE F(h, t) == {t} \cup UNION {h[Operands(t)[i]] : i \in DOMAIN Operands(t)}
           S == {n \in Nat : n <= MaxNesting => \E h : h = [t \in ExprUpTo[n] |-> F(h, t)]}
<1>1. 0 \in S
  <2> DEFINE g == [t \in ExprUpTo[0] |-> F(<<>>, t)]
  <2>1. \A t \in ExprUpTo[0] : F(g, t) = F(<<>>, t)
    <3> SUFFICES ASSUME NEW t \in ExprUpTo[0] PROVE F(g, t) = F(<<>>, t)
      OBVIOUS
    <3>1. DOMAIN Operands(t) = {}
      <4>1. \A i \in DOMAIN Operands(t) : FALSE
        BY OperandsOfExprUpTo, DeepestIsNumber
      <4> QED BY <4>1
    <3>2. {g[Operands(t)[i]] : i \in DOMAIN Operands(t)} = {<<>>[Operands(t)[i]] : i \in DOMAIN Operands(t)}
      BY <3>1
    <3> HIDE DEF g
    <3> QED BY <3>2
  <2>2. g = [t \in ExprUpTo[0] |-> F(g, t)]
    <3> HIDE DEF F
    <3> QED BY <2>1
  <2>3. \E f : f = [t \in ExprUpTo[0] |-> F(f, t)]
    <3> HIDE DEF g, F
    <3> QED BY <2>2
  <2> QED BY <2>3
<1>2. ASSUME NEW n \in S PROVE n + 1 \in S
  <2> SUFFICES ASSUME n + 1 <= MaxNesting PROVE \E f : f = [t \in ExprUpTo[n + 1] |-> F(f, t)]
    <3>1. n + 1 \in Nat
      OBVIOUS
    <3> HIDE DEF F
    <3> QED BY <3>1
  <2>1. PICK h : h = [t \in ExprUpTo[n] |-> F(h, t)]
    <3>1. n <= MaxNesting
      BY DeepestIsNumber
    <3> HIDE DEF F
    <3> QED BY <3>1
  <2> DEFINE g == [t \in ExprUpTo[n + 1] |-> F(h, t)]
  <2>2. \A t \in ExprUpTo[n] : g[t] = h[t]
    <3>1. ExprUpTo[n] \subseteq ExprUpTo[n + 1]
      BY ExprUpToGrows, DeepestIsNumber
    <3> HIDE DEF F
    <3> QED BY <2>1, <3>1
  <2>3. \A t \in ExprUpTo[n + 1] : F(g, t) = F(h, t)
    <3> SUFFICES ASSUME NEW t \in ExprUpTo[n + 1] PROVE F(g, t) = F(h, t)
      OBVIOUS
    <3>1. \A i \in DOMAIN Operands(t) : Operands(t)[i] \in ExprUpTo[n]
      BY OperandsOfExprUpTo, DeepestIsNumber
    <3> HIDE DEF g
    <3>2. {g[Operands(t)[i]] : i \in DOMAIN Operands(t)} = {h[Operands(t)[i]] : i \in DOMAIN Operands(t)}
      BY <2>2, <3>1
    <3> QED BY <3>2
  <2>4. g = [t \in ExprUpTo[n + 1] |-> F(g, t)]
    <3> HIDE DEF F
    <3> QED BY <2>3
  <2> HIDE DEF g, F
  <2> QED BY <2>4
<1>3. MaxNesting \in S
  <2> HIDE DEF S
  <2>1. S \in SUBSET Nat
    BY DEF S
  <2> QED BY <1>1, <1>2, <2>1, NumberInduction, DeepestIsNumber
<1>4. PICK h : h = [t \in Expr |-> F(h, t)]
  <2> HIDE DEF F
  <2> QED BY <1>3, DeepestIsNumber DEF Expr
<1>5. SubExprs = [t \in Expr |-> F(SubExprs, t)]
  BY <1>4 DEF SubExprs
<1> QED BY <1>5

-----------------------------------------------------------------------------
(* What recurses on the room that is left.                                 *)

(* The recursion of DeclKinds is sound. *)
LEMMA DeclKindsHolds ==
  \A room \in 0..MaxDepth : DeclKinds[room] =
  [user \in ToSet(program.decls) |-> [visited \in SUBSET STRING |->
     [i \in DOMAIN program.decls |->
        LET owner == Decl(i)
            within == visited \cup {owner.name}
        IN  CASE room > 0 /\ owner.kind = "struct" /\ owner.name \notin visited ->
                   Struct(owner.name, BuildStructFields(user, owner, within, DeclKinds[room - 1]))
              [] room > 0 /\ owner.kind = "enum" -> Enum(owner.name)
              [] OTHER -> Unknown]]]
<1> DEFINE F(h, n) == [user \in ToSet(program.decls) |-> [visited \in SUBSET STRING |->
     [i \in DOMAIN program.decls |->
        LET owner == Decl(i)
            within == visited \cup {owner.name}
        IN  CASE n > 0 /\ owner.kind = "struct" /\ owner.name \notin visited ->
                   Struct(owner.name, BuildStructFields(user, owner, within, h[n - 1]))
              [] n > 0 /\ owner.kind = "enum" -> Enum(owner.name)
              [] OTHER -> Unknown]]]
           S == {n \in Nat : \E h : h = [m \in 0..n |-> F(h, m)]}
<1>0. \A g, h : F(g, 0) = F(h, 0)
  OBVIOUS
<1>1. 0 \in S
  <2> DEFINE g == [m \in 0..0 |-> F(<<>>, m)]
  <2>1. \A m \in 0..0 : F(g, m) = F(<<>>, m)
    <3> HIDE DEF F, g
    <3> QED BY <1>0
  <2>2. g = [m \in 0..0 |-> F(g, m)]
    <3> HIDE DEF F
    <3> QED BY <2>1
  <2>3. \E f : f = [m \in 0..0 |-> F(f, m)]
    <3> HIDE DEF F, g
    <3> QED BY <2>2
  <2> HIDE DEF F
  <2> QED BY <2>3
<1>2. ASSUME NEW n \in S PROVE n + 1 \in S
  <2>1. PICK h : h = [m \in 0..n |-> F(h, m)]
    <3> HIDE DEF F
    <3> QED OBVIOUS
  <2> DEFINE g == [m \in 0..(n + 1) |-> F(h, m)]
  <2>2. \A m \in 0..n : g[m] = h[m]
    <3> HIDE DEF F
    <3> QED BY <2>1
  <2>3. \A m \in 0..(n + 1) : F(g, m) = F(h, m)
    <3> SUFFICES ASSUME NEW m \in 0..(n + 1) PROVE F(g, m) = F(h, m)
      OBVIOUS
    <3>1. CASE m = 0
      <4> HIDE DEF F, g
      <4> QED BY <1>0, <3>1
    <3>2. CASE m > 0
      <4> HIDE DEF g
      <4>1. g[m - 1] = h[m - 1]
        BY <2>2, <3>2
      <4> QED BY <4>1
    <3> QED BY <3>1, <3>2
  <2>4. g = [m \in 0..(n + 1) |-> F(g, m)]
    <3> HIDE DEF F
    <3> QED BY <2>3
  <2>5. n + 1 \in Nat /\ \E f : f = [m \in 0..(n + 1) |-> F(f, m)]
    <3> HIDE DEF g, F
    <3> QED BY <2>4
  <2> HIDE DEF F
  <2> QED BY <2>5
<1>3. MaxDepth \in S
  <2> HIDE DEF S
  <2>1. S \in SUBSET Nat
    BY DEF S
  <2> QED BY <1>1, <1>2, <2>1, NumberInduction, DeepestIsNumber
<1>4. PICK h : h = [m \in 0..MaxDepth |-> F(h, m)]
  <2> HIDE DEF F
  <2> QED BY <1>3
<1>5. DeclKinds = [m \in 0..MaxDepth |-> F(DeclKinds, m)]
  BY <1>4 DEF DeclKinds
<1> QED BY <1>5

(* The recursion of TypeExpr is sound: what it is at each room. *)
LEMMA TypeExprHolds ==
  ASSUME NEW d
  PROVE  \E types :
           /\ \A room \in 0..MaxDepth :
                types[room] = IF room = 0 THEN [at \in DOMAIN d.body |-> [x \in Expr |-> Unknown]]
                            ELSE ExprTypes(d, types[room - 1])
           /\ \A s \in DOMAIN d.body, e \in Expr : TypeExpr(d, s, e) = types[MaxDepth][s][e]
<1> DEFINE F(h, n) == IF n = 0 THEN [at \in DOMAIN d.body |-> [x \in Expr |-> Unknown]]
                            ELSE ExprTypes(d, h[n - 1])
           S == {n \in Nat : \E h : h = [m \in 0..n |-> F(h, m)]}
<1>0. \A g, h : F(g, 0) = F(h, 0)
  OBVIOUS
<1>1. 0 \in S
  <2> DEFINE g == [m \in 0..0 |-> F(<<>>, m)]
  <2>1. \A m \in 0..0 : F(g, m) = F(<<>>, m)
    <3> HIDE DEF F, g
    <3> QED BY <1>0
  <2>2. g = [m \in 0..0 |-> F(g, m)]
    <3> HIDE DEF F
    <3> QED BY <2>1
  <2>3. \E f : f = [m \in 0..0 |-> F(f, m)]
    <3> HIDE DEF F, g
    <3> QED BY <2>2
  <2> HIDE DEF F
  <2> QED BY <2>3
<1>2. ASSUME NEW n \in S PROVE n + 1 \in S
  <2>1. PICK h : h = [m \in 0..n |-> F(h, m)]
    <3> HIDE DEF F
    <3> QED OBVIOUS
  <2> DEFINE g == [m \in 0..(n + 1) |-> F(h, m)]
  <2>2. \A m \in 0..n : g[m] = h[m]
    <3> HIDE DEF F
    <3> QED BY <2>1
  <2>3. \A m \in 0..(n + 1) : F(g, m) = F(h, m)
    <3> SUFFICES ASSUME NEW m \in 0..(n + 1) PROVE F(g, m) = F(h, m)
      OBVIOUS
    <3>1. CASE m = 0
      <4> HIDE DEF F, g
      <4> QED BY <1>0, <3>1
    <3>2. CASE m > 0
      <4> HIDE DEF g
      <4>1. g[m - 1] = h[m - 1]
        BY <2>2, <3>2
      <4> QED BY <4>1
    <3> QED BY <3>1, <3>2
  <2>4. g = [m \in 0..(n + 1) |-> F(g, m)]
    <3> HIDE DEF F
    <3> QED BY <2>3
  <2>5. n + 1 \in Nat /\ \E f : f = [m \in 0..(n + 1) |-> F(f, m)]
    <3> HIDE DEF g, F
    <3> QED BY <2>4
  <2> HIDE DEF F
  <2> QED BY <2>5
<1>3. MaxDepth \in S
  <2> HIDE DEF S
  <2>1. S \in SUBSET Nat
    BY DEF S
  <2> QED BY <1>1, <1>2, <2>1, NumberInduction, DeepestIsNumber
<1>4. PICK h : h = [m \in 0..MaxDepth |-> F(h, m)]
  <2> HIDE DEF F
  <2> QED BY <1>3
<1> DEFINE At == CHOOSE f : f = [m \in 0..MaxDepth |-> F(f, m)]
<1>5. At = [m \in 0..MaxDepth |-> F(At, m)]
  <2> HIDE DEF F
  <2> QED BY <1>4
<1>6. \A room \in 0..MaxDepth : At[room] = F(At, room)
  <2> HIDE DEF F, At
  <2> QED BY <1>5
<1>7. \A s \in DOMAIN d.body, e \in Expr : TypeExpr(d, s, e) = At[MaxDepth][s][e]
  BY DEF TypeExpr
<1> HIDE DEF At
<1> WITNESS At
<1> QED BY <1>6, <1>7

-----------------------------------------------------------------------------
(* Programs and the names in them.                                         *)

(* A bounded set of natural numbers that is not empty has a greatest member. *)
LEMMA MaxHolds ==
  ASSUME NEW n \in Nat, NEW S \in SUBSET (0..n), S # {}
  PROVE  Max(S) \in S
<1> DEFINE T == {n - j : j \in S}
<1>1. T \in SUBSET Nat /\ T # {}
  <2>1. \A j \in S : j \in Nat /\ n - j \in Nat
    OBVIOUS
  <2> QED BY <2>1
<1>2. Min(T) \in T /\ \A j \in T : Min(T) <= j
  <2> HIDE DEF T
  <2> QED BY <1>1, MinHolds
<1>3. PICK j \in S : Min(T) = n - j
  BY <1>2
<1>4. \A y \in S : j >= y
  <2> SUFFICES ASSUME NEW y \in S PROVE j >= y
    OBVIOUS
  <2>1. n - y \in T
    OBVIOUS
  <2>2. n - j <= n - y
    BY <1>2, <1>3, <2>1
  <2> QED BY <2>2
<1> QED BY <1>4 DEF Max

\* What is written in a program is an annotation.
LEMMA WrittenHolds ==
  /\ \A n \in MaxNesting..Deepest : Written \subseteq AnnotationUpTo[n]
  /\ Written \subseteq Annotation
BY AnnotationUpToGrows, DeepestIsNumber DEF Written, Annotation

\* The fields of a declaration have their types.
LEMMA DeclarationHolds ==
  ASSUME NEW d \in Declaration
  PROVE  /\ Len(d.body) \in Nat /\ DOMAIN d.body = 1..Len(d.body)
         /\ \A s \in DOMAIN d.body : /\ d.body[s].value \in Expr /\ d.body[s].ty \in Written
                                     /\ d.body[s].simple \in BOOLEAN
         /\ Len(d.params) \in Nat /\ DOMAIN d.params = 1..Len(d.params)
         /\ \A i \in DOMAIN d.params : /\ d.params[i].ty \in Written
                                       /\ d.params[i].simple \in BOOLEAN
         /\ Len(d.fields) \in Nat /\ DOMAIN d.fields = 1..Len(d.fields)
         /\ \A i \in DOMAIN d.fields : d.fields[i].ty \in Written /\ d.fields[i].name \in STRING
         /\ d.ret \in Written /\ d.head \in Written /\ d.name \in STRING
<1>1. d.body \in Seq(Statement) /\ d.params \in Seq(Parameter) /\ d.fields \in Seq(StructField)
        /\ d.ret \in Written /\ d.head \in Written /\ d.name \in STRING
  BY DEF Declaration
<1>2. /\ Len(d.body) \in Nat /\ DOMAIN d.body = 1..Len(d.body)
      /\ \A s \in DOMAIN d.body : d.body[s] \in Statement
  BY <1>1
<1>3. /\ Len(d.params) \in Nat /\ DOMAIN d.params = 1..Len(d.params)
      /\ \A i \in DOMAIN d.params : d.params[i] \in Parameter
  BY <1>1
<1>4. /\ Len(d.fields) \in Nat /\ DOMAIN d.fields = 1..Len(d.fields)
      /\ \A i \in DOMAIN d.fields : d.fields[i] \in StructField
  BY <1>1
<1>5. \A x \in Statement : x.value \in Expr /\ x.ty \in Written /\ x.simple \in BOOLEAN
  BY DEF Statement
<1>6. \A x \in Parameter : x.ty \in Written /\ x.simple \in BOOLEAN
  BY DEF Parameter
<1>7. \A x \in StructField : x.ty \in Written /\ x.name \in STRING
  BY DEF StructField
<1> QED BY <1>1, <1>2, <1>3, <1>4, <1>5, <1>6, <1>7

\* The declarations of a program are declarations.
LEMMA ProgramHolds ==
  ASSUME WellFormed(program)
  PROVE  /\ Len(program.decls) \in Nat /\ DOMAIN program.decls = 1..Len(program.decls)
         /\ \A i \in DOMAIN program.decls : Decl(i) \in Declaration /\ Decl(i) \in ToSet(program.decls)
<1>1. program.decls \in Seq(Declaration)
  BY DEF WellFormed
<1> QED BY <1>1 DEF Decl, ToSet

(* What a name resolves to has that name, and an item is what it is from anywhere in *)
(* the declaration.                                                        *)
LEMMA ResolveHolds ==
  ASSUME WellFormed(program), NEW d \in Declaration, NEW s \in 0..Len(d.body), NEW x,
         NEW r, r = Resolve(d, s, x)
  PROVE  /\ r.is \in {"const", "param", "generic", "nothing", "item"}
         /\ r.is = "const" => /\ r.at \in 1..(s - 1) /\ r.at \in DOMAIN d.body
                              /\ d.body[r.at].name = x
         /\ r.is = "param" => r.at \in DOMAIN d.params /\ d.params[r.at].name = x
         /\ r.is = "item" => /\ r.at \in DOMAIN program.decls /\ Decl(r.at).name = x
                             /\ Resolve(d, 0, x) = r
<1> DEFINE Named(seq, dom) == {j \in dom : seq[j].name = x}
           consts(t) == {j \in Named(d.body, 1..(t - 1)) : d.body[j].k = "const"}
           params == Named(d.params, DOMAIN d.params)
           InFile(f) == {i \in Named(program.decls, DOMAIN program.decls) : Decl(i).file = f}
           files == Sees(d.file)
           seen == {n \in DOMAIN files : InFile(files[n]) # {}}
           item == [is |-> "item", at |-> Min(InFile(files[Min(seen)]))]
           nothing == [is |-> "nothing", at |-> 0]
           generic == [is |-> "generic", at |-> 0]
           Outer(t) == IF consts(t) # {} THEN [is |-> "const", at |-> Max(consts(t))]
                       ELSE IF params # {} THEN [is |-> "param", at |-> Min(params)]
                       ELSE IF x \in Generics(d) THEN generic
                       ELSE IF seen = {} THEN nothing ELSE item
<1>1. Resolve(d, s, x) = Outer(s) /\ Resolve(d, 0, x) = Outer(0)
  BY DEF Resolve
<1>2. consts(0) = {}
  OBVIOUS
<1>3. /\ Len(d.body) \in Nat /\ DOMAIN d.body = 1..Len(d.body)
      /\ Len(d.params) \in Nat /\ DOMAIN d.params = 1..Len(d.params)
  BY DeclarationHolds
<1>4. consts(s) # {} => Max(consts(s)) \in consts(s)
  <2>1. consts(s) \in SUBSET (0..Len(d.body))
    BY <1>3
  <2> HIDE DEF consts
  <2> QED BY <1>3, <2>1, MaxHolds
<1>5. params # {} => Min(params) \in params
  <2>1. params \in SUBSET Nat
    BY <1>3
  <2> HIDE DEF params
  <2> QED BY <2>1, MinHolds
<1>6. seen # {} => Min(seen) \in seen
  <2>1. DOMAIN files = 1..3 \/ DOMAIN files = 1..2 \/ DOMAIN files = 1..1
    BY DEF Sees
  <2>2. seen \in SUBSET Nat
    BY <2>1
  <2> HIDE DEF seen
  <2> QED BY <2>2, MinHolds
<1>7. ASSUME NEW f, InFile(f) # {}
      PROVE  Min(InFile(f)) \in InFile(f)
  <2>1. InFile(f) \in SUBSET Nat
    BY ProgramHolds
  <2> HIDE DEF InFile
  <2> QED BY <1>7, <2>1, MinHolds
<1>8. seen # {} => item.at \in DOMAIN program.decls /\ Decl(item.at).name = x
  <2> SUFFICES ASSUME seen # {} PROVE item.at \in DOMAIN program.decls /\ Decl(item.at).name = x
    OBVIOUS
  <2>1. InFile(files[Min(seen)]) # {}
    BY <1>6
  <2>2. item.at \in InFile(files[Min(seen)])
    <3> HIDE DEF InFile, seen, files
    <3> QED BY <1>7, <2>1
  <2> QED BY <2>2 DEF Decl
<1>9. r = Outer(s) /\ (r.is = "item" => r = item /\ Outer(0) = item /\ seen # {})
  <2>1. r = Outer(s)
    BY <1>1
  <2> HIDE DEF consts, params, seen
  <2> QED BY <1>2, <2>1
<1>10. r.is = "const" => consts(s) # {} /\ r.at = Max(consts(s))
  <2> HIDE DEF consts, params, seen
  <2> QED BY <1>9
<1>11. r.is = "param" => params # {} /\ r.at = Min(params)
  <2> HIDE DEF consts, params, seen
  <2> QED BY <1>9
<1>12. r.is \in {"const", "param", "generic", "nothing", "item"}
  <2> HIDE DEF consts, params, seen
  <2> QED BY <1>9
<1>13. r.is = "const" => r.at \in 1..(s - 1) /\ r.at \in DOMAIN d.body /\ d.body[r.at].name = x
  <2> SUFFICES ASSUME r.is = "const"
               PROVE  r.at \in 1..(s - 1) /\ r.at \in DOMAIN d.body /\ d.body[r.at].name = x
    OBVIOUS
  <2>1. r.at \in consts(s)
    <3> HIDE DEF consts
    <3> QED BY <1>4, <1>10
  <2>2. r.at \in 1..(s - 1) /\ d.body[r.at].name = x
    BY <2>1
  <2> QED BY <1>3, <2>2
<1>14. r.is = "param" => r.at \in DOMAIN d.params /\ d.params[r.at].name = x
  BY <1>5, <1>11
<1>15. r.is = "item" => /\ r.at \in DOMAIN program.decls /\ Decl(r.at).name = x
                        /\ Resolve(d, 0, x) = r
  <2> HIDE DEF Outer, item
  <2> QED BY <1>1, <1>8, <1>9
<1> QED BY <1>12, <1>13, <1>14, <1>15

-----------------------------------------------------------------------------
(* The values of annotations and expressions are what their definitions say. *)

(* The recursion of Values is sound. *)
LEMMA ValuesHolds ==
  ASSUME NEW d, NEW inst
  PROVE  \A t \in Annotation :
           Values(d, t, inst) = AnnotationValues(d, t, inst,
                                  [i \in DOMAIN Parts(t) |-> Values(d, Parts(t)[i], inst)])
<1> DEFINE F(h, t) == AnnotationValues(d, t, inst, [i \in DOMAIN Parts(t) |-> h[Parts(t)[i]]])
           S == {n \in Nat : n <= Deepest => \E h : h = [t \in AnnotationUpTo[n] |-> F(h, t)]}
<1>1. 0 \in S
  <2> DEFINE g == [t \in AnnotationUpTo[0] |-> F(<<>>, t)]
  <2>1. \A t \in AnnotationUpTo[0] : F(g, t) = F(<<>>, t)
    <3> SUFFICES ASSUME NEW t \in AnnotationUpTo[0] PROVE F(g, t) = F(<<>>, t)
      OBVIOUS
    <3>1. DOMAIN Parts(t) = {}
      <4>1. \A i \in DOMAIN Parts(t) : FALSE
        BY PartsOfAnnotationUpTo, DeepestIsNumber
      <4> QED BY <4>1
    <3>2. [i \in DOMAIN Parts(t) |-> g[Parts(t)[i]]] = [i \in DOMAIN Parts(t) |-> <<>>[Parts(t)[i]]]
      BY <3>1
    <3> HIDE DEF g
    <3> QED BY <3>2
  <2>2. g = [t \in AnnotationUpTo[0] |-> F(g, t)]
    <3> HIDE DEF F
    <3> QED BY <2>1
  <2>3. \E f : f = [t \in AnnotationUpTo[0] |-> F(f, t)]
    <3> HIDE DEF g, F
    <3> QED BY <2>2
  <2> QED BY <2>3
<1>2. ASSUME NEW n \in S PROVE n + 1 \in S
  <2> SUFFICES ASSUME n + 1 <= Deepest PROVE \E f : f = [t \in AnnotationUpTo[n + 1] |-> F(f, t)]
    <3>1. n + 1 \in Nat
      OBVIOUS
    <3> HIDE DEF F
    <3> QED BY <3>1
  <2>1. PICK h : h = [t \in AnnotationUpTo[n] |-> F(h, t)]
    <3>1. n <= Deepest
      BY DeepestIsNumber
    <3> HIDE DEF F
    <3> QED BY <3>1
  <2> DEFINE g == [t \in AnnotationUpTo[n + 1] |-> F(h, t)]
  <2>2. \A t \in AnnotationUpTo[n] : g[t] = h[t]
    <3>1. AnnotationUpTo[n] \subseteq AnnotationUpTo[n + 1]
      BY AnnotationUpToGrows, DeepestIsNumber
    <3> HIDE DEF F
    <3> QED BY <2>1, <3>1
  <2>3. \A t \in AnnotationUpTo[n + 1] : F(g, t) = F(h, t)
    <3> SUFFICES ASSUME NEW t \in AnnotationUpTo[n + 1] PROVE F(g, t) = F(h, t)
      OBVIOUS
    <3>1. \A i \in DOMAIN Parts(t) : Parts(t)[i] \in AnnotationUpTo[n]
      BY PartsOfAnnotationUpTo, DeepestIsNumber
    <3> HIDE DEF g
    <3>2. [i \in DOMAIN Parts(t) |-> g[Parts(t)[i]]] = [i \in DOMAIN Parts(t) |-> h[Parts(t)[i]]]
      BY <2>2, <3>1
    <3> QED BY <3>2
  <2>4. g = [t \in AnnotationUpTo[n + 1] |-> F(g, t)]
    <3> HIDE DEF F
    <3> QED BY <2>3
  <2> HIDE DEF g, F
  <2> QED BY <2>4
<1>3. Deepest \in S
  <2> HIDE DEF S
  <2>1. S \in SUBSET Nat
    BY DEF S
  <2> QED BY <1>1, <1>2, <2>1, NumberInduction, DeepestIsNumber
<1>4. PICK h : h = [t \in Annotation |-> F(h, t)]
  <2> HIDE DEF F
  <2> QED BY <1>3, DeepestIsNumber DEF Annotation
<1> DEFINE Of == CHOOSE f : f = [t \in Annotation |-> F(f, t)]
<1>5. Of = [t \in Annotation |-> F(Of, t)]
  <2> HIDE DEF F
  <2> QED BY <1>4
<1>6. \A t \in Annotation : Of[t] = F(Of, t)
  <2> HIDE DEF F, Of
  <2> QED BY <1>5
<1>7. \A t : Values(d, t, inst) = Of[t]
  BY DEF Values
<1>8. ASSUME NEW t \in Annotation
      PROVE  F(Of, t) = AnnotationValues(d, t, inst,
                          [i \in DOMAIN Parts(t) |-> Values(d, Parts(t)[i], inst)])
  <2>1. [i \in DOMAIN Parts(t) |-> Values(d, Parts(t)[i], inst)] = [i \in DOMAIN Parts(t) |-> Of[Parts(t)[i]]]
    <3> HIDE DEF Of
    <3> QED BY <1>7
  <2> HIDE DEF Of
  <2> QED BY <2>1
<1> HIDE DEF Of, F
<1> QED BY <1>6, <1>7, <1>8

\* A place of an earlier statement or fewer levels comes before.
LEMMA TimesGrows ==
  ASSUME NEW M \in Nat, NEW a \in Nat, NEW b \in Nat, a < b
  PROVE  a * M + M <= b * M
<1>1. b * M = (b - a - 1) * M + a * M + M
  OBVIOUS
<1>2. (b - a - 1) * M >= 0
  <2>1. b - a - 1 \in Nat
    OBVIOUS
  <2> QED BY <2>1
<1>3. a * M \in Nat /\ b * M \in Nat /\ (b - a - 1) * M \in Int
  OBVIOUS
<1> QED BY <1>1, <1>2, <1>3

\* The values of what binds e in statement s of d if it is the name of a local.
BoundValues(d, s, e, inst) ==
  LET r == Resolve(d, s, e.name)
  IN  IF r.is = "const" /\ Binding(d, r).ty = Absent THEN ValuesOf(d, r.at, Binding(d, r).value, inst)
                                                    ELSE Values(d, Binding(d, r).ty, inst)

(* The recursion of ValuesOf is sound: an operand has fewer levels, and the value of *)
(* a const lies in an earlier statement.                                   *)
LEMMA ValuesOfHolds ==
  ASSUME WellFormed(program), NEW d \in Declaration, NEW inst
  PROVE  \A s \in DOMAIN d.body, e \in Expr :
           ValuesOf(d, s, e, inst) =
             ExprValues(d, s, e, inst,
                        [i \in DOMAIN Operands(e) |-> ValuesOf(d, s, Operands(e)[i], inst)],
                        BoundValues(d, s, e, inst))
<1> DEFINE IsValue(r) == r.is = "const" /\ Binding(d, r).ty = Absent
           Whole(h, r) == IF IsValue(r) THEN h[<<r.at, Binding(d, r).value>>]
                                        ELSE Values(d, Binding(d, r).ty, inst)
           F(h, p) == ExprValues(d, p[1], p[2], inst,
                                 [i \in DOMAIN Operands(p[2]) |-> h[<<p[1], Operands(p[2])[i]>>]],
                                 Whole(h, Resolve(d, p[1], p[2].name)))
           M == MaxNesting + 1
           All == (DOMAIN d.body) \X Expr
           D(m) == {p \in All : \E n \in 0..MaxNesting : p[2] \in ExprUpTo[n] /\ p[1] * M + n <= m}
           S == {m \in Nat : \E h : h = [p \in D(m) |-> F(h, p)]}
           top == Len(d.body) * M + MaxNesting
<1>0. /\ Len(d.body) \in Nat /\ DOMAIN d.body = 1..Len(d.body) /\ M \in Nat \ {0}
      /\ \A s \in DOMAIN d.body : d.body[s].value \in Expr
  BY DeclarationHolds, DeepestIsNumber
<1>1. D(0) = {}
  <2> SUFFICES ASSUME NEW p \in All, NEW n \in 0..MaxNesting, p[1] * M + n <= 0 PROVE FALSE
    OBVIOUS
  <2>1. p[1] \in Nat /\ 0 < p[1]
    BY <1>0
  <2>2. 0 * M + M <= p[1] * M
    <3> HIDE DEF M
    <3> QED BY <1>0, <2>1, TimesGrows
  <2>3. p[1] * M \in Nat /\ 0 * M = 0
    <3> HIDE DEF M
    <3> QED BY <1>0, <2>1
  <2> HIDE DEF M
  <2> QED BY <1>0, <2>2, <2>3
<1>2. ASSUME NEW m \in Nat, NEW p \in D(m + 1)
      PROVE  /\ \A i \in DOMAIN Operands(p[2]) : <<p[1], Operands(p[2])[i]>> \in D(m)
             /\ \A r : r = Resolve(d, p[1], p[2].name) /\ IsValue(r) =>
                         <<r.at, Binding(d, r).value>> \in D(m)
  <2>1. PICK n \in 0..MaxNesting : p[2] \in ExprUpTo[n] /\ p[1] * M + n <= m + 1
    OBVIOUS
  <2>2. p[1] \in Nat /\ p[1] \in DOMAIN d.body /\ p[1] * M \in Nat
    BY <1>0
  <2>3. ASSUME NEW i \in DOMAIN Operands(p[2])
        PROVE  <<p[1], Operands(p[2])[i]>> \in D(m)
    <3>1. n # 0 /\ Operands(p[2])[i] \in ExprUpTo[n - 1]
      BY <2>1, OperandsOfExprUpTo
    <3>2. Operands(p[2])[i] \in Expr
      BY PartsStay
    <3>3. n - 1 \in 0..MaxNesting /\ p[1] * M + (n - 1) <= m
      <4> HIDE DEF M
      <4> QED BY <2>1, <2>2, <3>1, DeepestIsNumber
    <3> HIDE DEF M
    <3> QED BY <2>2, <3>1, <3>2, <3>3
  <2>4. ASSUME NEW r, r = Resolve(d, p[1], p[2].name), IsValue(r)
        PROVE  <<r.at, Binding(d, r).value>> \in D(m)
    <3>1. r.at \in 1..(p[1] - 1) /\ r.at \in DOMAIN d.body
      BY <1>0, <2>2, <2>4, ResolveHolds
    <3>2. Binding(d, r).value = d.body[r.at].value
      BY <2>4 DEF Binding
    <3>3. d.body[r.at].value \in Expr /\ d.body[r.at].value \in ExprUpTo[MaxNesting]
      BY <1>0, <3>1 DEF Expr
    <3>4. r.at * M + M <= p[1] * M /\ r.at * M \in Nat
      <4>1. r.at \in Nat /\ r.at < p[1]
        BY <2>2, <3>1
      <4> HIDE DEF M
      <4>2. \A a, b \in Nat : a < b => a * M + M <= b * M
        BY <1>0, TimesGrows
      <4>3. \A a \in Nat : a * M \in Nat
        BY <1>0
      <4>4. r.at * M + M <= p[1] * M
        BY <2>2, <4>1, <4>2
      <4> QED BY <4>1, <4>3, <4>4
    <3>5. r.at * M + MaxNesting <= m
      BY <2>1, <2>2, <3>4, DeepestIsNumber
    <3>6. MaxNesting \in 0..MaxNesting
      BY DeepestIsNumber
    <3> HIDE DEF M
    <3> QED BY <3>1, <3>2, <3>3, <3>5, <3>6
  <2> QED BY <2>3, <2>4
<1>3. \A m \in Nat : D(m) \subseteq D(m + 1)
  <2> SUFFICES ASSUME NEW m \in Nat, NEW p \in All, NEW n \in 0..MaxNesting,
                      p[2] \in ExprUpTo[n], p[1] * M + n <= m
               PROVE  p[1] * M + n <= m + 1
    OBVIOUS
  <2>1. p[1] * M + n \in Int
    BY <1>0
  <2> HIDE DEF M
  <2> QED BY <2>1
<1>4. 0 \in S
  <2> DEFINE g == [p \in D(0) |-> F(<<>>, p)]
  <2>1. g = [p \in D(0) |-> F(g, p)]
    <3> HIDE DEF F
    <3> QED BY <1>1
  <2>2. \E h : h = [p \in D(0) |-> F(h, p)]
    <3> HIDE DEF F, g, D
    <3> QED BY <2>1
  <2> HIDE DEF F, D
  <2> QED BY <2>2
<1>5. ASSUME NEW m \in S PROVE m + 1 \in S
  <2>1. PICK h : h = [p \in D(m) |-> F(h, p)]
    <3> HIDE DEF F, D
    <3> QED OBVIOUS
  <2> DEFINE g == [p \in D(m + 1) |-> F(h, p)]
  <2>2. \A p \in D(m) : g[p] = h[p]
    <3>1. D(m) \subseteq D(m + 1)
      BY <1>3
    <3> HIDE DEF F, D
    <3> QED BY <2>1, <3>1
  <2>3. \A p \in D(m + 1) : F(g, p) = F(h, p)
    <3> SUFFICES ASSUME NEW p \in D(m + 1) PROVE F(g, p) = F(h, p)
      OBVIOUS
    <3> DEFINE r == Resolve(d, p[1], p[2].name)
    <3>1. /\ \A i \in DOMAIN Operands(p[2]) : <<p[1], Operands(p[2])[i]>> \in D(m)
          /\ IsValue(r) => <<r.at, Binding(d, r).value>> \in D(m)
      <4> HIDE DEF D, IsValue
      <4> QED BY <1>2
    <3>2. [i \in DOMAIN Operands(p[2]) |-> g[<<p[1], Operands(p[2])[i]>>]]
            = [i \in DOMAIN Operands(p[2]) |-> h[<<p[1], Operands(p[2])[i]>>]]
      <4> HIDE DEF D, g
      <4> QED BY <2>2, <3>1
    <3>3. Whole(g, r) = Whole(h, r)
      <4> HIDE DEF D, g, r, IsValue
      <4> QED BY <2>2, <3>1
    <3> HIDE DEF g, D, Whole
    <3> QED BY <3>2, <3>3
  <2>4. g = [p \in D(m + 1) |-> F(g, p)]
    <3> HIDE DEF F, D
    <3> QED BY <2>3
  <2>5. m + 1 \in Nat /\ \E f : f = [p \in D(m + 1) |-> F(f, p)]
    <3> HIDE DEF g, F, D
    <3> QED BY <2>4
  <2> HIDE DEF F, D
  <2> QED BY <2>5
<1>6. top \in S
  <2>1. top \in Nat
    <3>1. Len(d.body) * M \in Nat
      <4> HIDE DEF M
      <4> QED BY <1>0
    <3> HIDE DEF M
    <3> QED BY <3>1, DeepestIsNumber
  <2> HIDE DEF S, top
  <2>2. S \in SUBSET Nat
    BY DEF S
  <2> QED BY <1>4, <1>5, <2>1, <2>2, NumberInduction
<1>7. D(top) = All
  <2> SUFFICES ASSUME NEW p \in All PROVE p[2] \in ExprUpTo[MaxNesting] /\ p[1] * M + MaxNesting <= top
    <3>1. MaxNesting \in 0..MaxNesting
      BY DeepestIsNumber
    <3> HIDE DEF M, top, All
    <3> QED BY <3>1
  <2>1. p[1] \in Nat /\ p[1] <= Len(d.body)
    BY <1>0
  <2>2. p[1] * M <= Len(d.body) * M
    <3>1. CASE p[1] < Len(d.body)
      <4>1. p[1] * M + M <= Len(d.body) * M /\ p[1] * M \in Nat /\ Len(d.body) * M \in Nat
        <5> HIDE DEF M
        <5> QED BY <1>0, <2>1, <3>1, TimesGrows
      <4> HIDE DEF M
      <4> QED BY <1>0, <4>1
    <3>2. CASE p[1] = Len(d.body)
      <4>1. Len(d.body) * M \in Nat
        BY <1>0
      <4> HIDE DEF M
      <4> QED BY <3>2, <4>1
    <3> QED BY <1>0, <2>1, <3>1, <3>2
  <2>3. p[1] * M \in Nat /\ Len(d.body) * M \in Nat
    BY <1>0, <2>1
  <2> HIDE DEF M
  <2> QED BY <2>2, <2>3, DeepestIsNumber DEF Expr
<1>8. PICK h : h = [p \in All |-> F(h, p)]
  <2> HIDE DEF F, D, All
  <2> QED BY <1>6, <1>7
<1> DEFINE Of == CHOOSE f : f = [p \in All |-> F(f, p)]
<1>9. Of = [p \in All |-> F(Of, p)]
  <2> HIDE DEF F, All
  <2> QED BY <1>8
<1>10. \A p \in All : Of[p] = F(Of, p)
  <2> HIDE DEF F, Of, All
  <2> QED BY <1>9
<1>11. \A s, e : ValuesOf(d, s, e, inst) = Of[<<s, e>>]
  BY DEF ValuesOf
<1>12. ASSUME NEW s \in DOMAIN d.body, NEW e \in Expr
       PROVE  ValuesOf(d, s, e, inst) = F(Of, <<s, e>>)
  <2>1. <<s, e>> \in All
    OBVIOUS
  <2> HIDE DEF F, Of, All
  <2> QED BY <1>10, <1>11, <2>1
<1>13. ASSUME NEW s, NEW e
       PROVE  F(Of, <<s, e>>) =
                ExprValues(d, s, e, inst,
                           [i \in DOMAIN Operands(e) |-> ValuesOf(d, s, Operands(e)[i], inst)],
                           BoundValues(d, s, e, inst))
  <2>1. [i \in DOMAIN Operands(e) |-> ValuesOf(d, s, Operands(e)[i], inst)]
          = [i \in DOMAIN Operands(e) |-> Of[<<s, Operands(e)[i]>>]]
    <3> HIDE DEF Of
    <3> QED BY <1>11
  <2>2. BoundValues(d, s, e, inst) = Whole(Of, Resolve(d, s, e.name))
    <3> HIDE DEF Of
    <3> QED BY <1>11 DEF BoundValues
  <2> HIDE DEF Of, Whole
  <2> QED BY <2>1, <2>2
<1> QED
  <2> HIDE DEF F, Of
  <2> QED BY <1>12, <1>13

-----------------------------------------------------------------------------
(* The limits, and the kinds that the lowering makes.                      *)

\* Powers of two are positive numbers.
LEMMA TwoToIsNumber ==
  \A n \in 0..MaxWidth : TwoTo[n] \in Nat \ {0}
<1> DEFINE S == {n \in Nat : n <= MaxWidth => TwoTo[n] \in Nat \ {0}}
<1>0. MaxWidth \in Nat
  BY LimitsAssumption
<1>1. 0 \in S
  BY <1>0, TwoToHolds
<1>2. ASSUME NEW n \in S PROVE n + 1 \in S
  <2> SUFFICES ASSUME n + 1 <= MaxWidth PROVE TwoTo[n + 1] \in Nat \ {0}
    OBVIOUS
  <2>1. n + 1 \in 0..MaxWidth /\ n + 1 # 0 /\ (n + 1) - 1 = n /\ n <= MaxWidth
    BY <1>0
  <2> QED BY <2>1, TwoToHolds
<1>3. S = Nat
  <2> HIDE DEF S
  <2>1. S \in SUBSET Nat
    BY DEF S
  <2> QED BY <1>1, <1>2, <2>1, NumberInduction
<1> QED BY <1>0, <1>3

\* A larger exponent makes no smaller power.
LEMMA TwoToGrows ==
  \A n \in 0..MaxWidth : \A m \in 0..(n - 1) : TwoTo[m] < TwoTo[n]
<1> DEFINE S == {n \in Nat : n <= MaxWidth => \A m \in 0..(n - 1) : TwoTo[m] < TwoTo[n]}
<1>0. MaxWidth \in Nat
  BY LimitsAssumption
<1>1. 0 \in S
  BY <1>0
<1>2. ASSUME NEW n \in S PROVE n + 1 \in S
  <2> SUFFICES ASSUME n + 1 <= MaxWidth, NEW m \in 0..((n + 1) - 1)
               PROVE  TwoTo[m] < TwoTo[n + 1]
    OBVIOUS
  <2>1. n + 1 \in 0..MaxWidth /\ n + 1 # 0 /\ (n + 1) - 1 = n /\ n <= MaxWidth /\ n \in 0..MaxWidth
    BY <1>0
  <2>2. m \in 0..MaxWidth /\ (m = n \/ m \in 0..(n - 1))
    BY <1>0, <2>1
  <2>3. TwoTo[n + 1] = 2 * TwoTo[n]
    BY <2>1, TwoToHolds
  <2>4. TwoTo[m] \in Nat \ {0} /\ TwoTo[n] \in Nat \ {0}
    BY <2>1, <2>2, TwoToIsNumber
  <2>5. m # n => TwoTo[m] < TwoTo[n]
    BY <2>1, <2>2
  <2> QED BY <2>3, <2>4, <2>5
<1>3. S = Nat
  <2> HIDE DEF S
  <2>1. S \in SUBSET Nat
    BY DEF S
  <2> QED BY <1>1, <1>2, <2>1, NumberInduction
<1> QED BY <1>0, <1>3

\* The limits of the checker, as numbers.
LEMMA Limits ==
  /\ WordBits \in 1..MaxWidth /\ MaxWidth \in Nat /\ MaxLength \in Nat
  /\ TwoTo[WordBits] \in Nat \ {0} /\ TwoTo[MaxWidth] \in Nat \ {0}
  /\ MaxWidth < TwoTo[WordBits] /\ MaxLength < TwoTo[WordBits]
  /\ TwoTo[WordBits] <= TwoTo[MaxWidth]
  /\ FieldSize \in Nat /\ TwoTo[MaxWidth] < FieldSize
<1>1. /\ WordBits \in 1..MaxWidth /\ MaxWidth \in Nat /\ MaxLength \in Nat
      /\ MaxWidth < TwoTo[WordBits] /\ MaxLength < TwoTo[WordBits]
  BY LimitsAssumption
<1>2. TwoTo[WordBits] \in Nat \ {0} /\ TwoTo[MaxWidth] \in Nat \ {0}
  BY <1>1, TwoToIsNumber
<1>3. TwoTo[WordBits] <= TwoTo[MaxWidth]
  <2>1. WordBits = MaxWidth \/ WordBits \in 0..(MaxWidth - 1)
    BY <1>1
  <2> QED BY <1>1, <1>2, <2>1, TwoToGrows
<1> QED BY <1>1, <1>2, <1>3, MeaningAssumption

\* A size is kept as it is, or not at all.
LEMMA ParseHolds ==
  ASSUME NEW size \in Int
  PROVE  /\ ParseIntLiteral(size) = None \/ ParseIntLiteral(size) = size
         /\ ParseIntLiteral(size) \in Int
         /\ ParseIntLiteral(size) = size <=> size = None \/ size \in 0..(TwoTo[WordBits] - 1)
BY Limits DEF ParseIntLiteral, None

(* What the bound of an annotation is, by its sizes. *)
LEMMA UintBoundHolds ==
  ASSUME NEW sizes \in Seq(Size), Len(sizes) \in 1..2
  PROVE  \/ UintBound(sizes) = Unknown
         \/ /\ Len(sizes) = 1 /\ sizes[1] \in 1..MaxWidth
            /\ UintBound(sizes) = Uint(IF sizes[1] < WordBits THEN TwoTo[sizes[1]] ELSE None)
         \/ /\ Len(sizes) = 2 /\ sizes[1] = 0
            /\ \/ sizes[2] \in 1..(TwoTo[WordBits] - 1) /\ UintBound(sizes) = Uint(sizes[2])
               \/ sizes[2] \notin 0..(TwoTo[WordBits] - 1) /\ UintBound(sizes) = Uint(None)
<1> DEFINE n == [i \in DOMAIN sizes |-> ParseIntLiteral(sizes[i])]
<1>1. CASE Len(sizes) = 1
  <2>1. sizes[1] \in Int /\ n[1] = ParseIntLiteral(sizes[1])
    BY <1>1 DEF Size, Param
  <2>2. UintBound(sizes) = IF n[1] \in 1..MaxWidth
                           THEN Uint(IF n[1] < WordBits THEN TwoTo[n[1]] ELSE None) ELSE Unknown
    BY <1>1 DEF UintBound
  <2>3. n[1] \in 1..MaxWidth => n[1] = sizes[1]
    BY <2>1, ParseHolds DEF None
  <2> HIDE DEF n
  <2> QED BY <1>1, <2>2, <2>3
<1>2. CASE Len(sizes) = 2
  <2>1. /\ sizes[1] \in Int /\ n[1] = ParseIntLiteral(sizes[1])
        /\ sizes[2] \in Int /\ n[2] = ParseIntLiteral(sizes[2])
    BY <1>2 DEF Size, Param
  <2>2. UintBound(sizes) = IF n[1] = 0 /\ n[2] # 0 THEN Uint(n[2]) ELSE Unknown
    BY <1>2 DEF UintBound
  <2>3. n[1] = 0 => sizes[1] = 0
    BY <2>1, ParseHolds DEF None
  <2>4. sizes[2] \in Size /\ sizes[2] # None
    <3>1. sizes[2] \in Size
      BY <1>2
    <3> QED BY <3>1 DEF Size, None, Param
  <2>5. n[2] # 0 => \/ sizes[2] \in 1..(TwoTo[WordBits] - 1) /\ n[2] = sizes[2]
                    \/ sizes[2] \notin 0..(TwoTo[WordBits] - 1) /\ n[2] = None
    <3> HIDE DEF n
    <3> QED BY <2>1, <2>4, Limits DEF ParseIntLiteral, None
  <2> HIDE DEF n
  <2> QED BY <1>2, <2>2, <2>3, <2>5
<1> QED BY <1>1, <1>2

\* A bounded number type is lowered to a kind.
LEMMA UintBoundIsKind ==
  ASSUME NEW sizes \in Seq(Size), Len(sizes) \in 1..2, NEW K
  PROVE  UintBound(sizes) \in KindsOver(K)
<1>1. Unknown \in KindsOver(K) /\ Uint(None) \in KindsOver(K)
  BY DEF KindsOver, Uint
<1>2. \A u \in 1..(TwoTo[WordBits] - 1) : Uint(u) \in KindsOver(K)
  BY DEF KindsOver, Uint
<1>3. \A w \in 1..MaxWidth : w < WordBits => TwoTo[w] \in 1..(TwoTo[WordBits] - 1)
  BY Limits, TwoToIsNumber, TwoToGrows
<1> QED BY <1>1, <1>2, <1>3, UintBoundHolds

\* A size that is a length is kept as it is.
LEMMA LengthHolds ==
  ASSUME NEW size \in Size, IsLength(size)
  PROVE  size \in 0..MaxLength
BY ParseHolds, Limits DEF IsLength, Size, Param, None

(* An annotation of some levels is a kind of no more. *)
LEMMA AnnotationKindIsKind ==
  ASSUME NEW A, NEW K, NEW t \in AnnotationsOver(A), NEW parts \in [DOMAIN Parts(t) -> K]
  PROVE  AnnotationKind(t, parts) \in KindsOver(K)
<1>1. CASE t.k = "Uint"
  <2>1. t.sizes \in Seq(Size) /\ Len(t.sizes) \in 1..2
    BY <1>1 DEF AnnotationsOver, Boolean, Field, Absent
  <2> QED BY <1>1, <2>1, UintBoundIsKind DEF AnnotationKind
<1>2. CASE t.k = "Tuple"
  <2>1. t.elems \in Seq(A) /\ Parts(t) = t.elems
    BY <1>2 DEF AnnotationsOver, Boolean, Field, Absent, Parts
  <2>2. DOMAIN parts = 1..Len(t.elems) /\ Len(t.elems) \in Nat
    BY <2>1
  <2>3. parts \in [1..Len(t.elems) -> K]
    BY <2>2
  <2>4. parts \in Seq(K)
    BY <2>2, <2>3
  <2> QED BY <1>2, <2>4 DEF AnnotationKind, Tuple, KindsOver
<1>3. CASE t.k = "Vector" /\ IsLength(t.size)
  <2>1. t.size \in Size /\ Parts(t) = <<t.elem>>
    BY <1>3 DEF AnnotationsOver, Boolean, Field, Absent, Parts
  <2>2. parts[1] \in K
    BY <2>1
  <2> QED BY <1>3, <2>1, <2>2, LengthHolds DEF AnnotationKind, Vector, KindsOver
<1>4. CASE t.k = "Bytes" /\ IsLength(t.size)
  <2>1. t.size \in Size
    BY <1>4 DEF AnnotationsOver, Boolean, Field, Absent
  <2> QED BY <1>4, <2>1, LengthHolds DEF AnnotationKind, Bytes, KindsOver
<1>5. CASE t.k \in {"Boolean", "Field"}
  BY <1>5 DEF AnnotationKind, AnnotationsOver, KindsOver, Boolean, Field, Absent
<1>6. CASE t.k \notin {"Uint", "Tuple", "Boolean", "Field"} /\ ~(t.k \in {"Vector", "Bytes"} /\ IsLength(t.size))
  BY <1>6 DEF AnnotationKind, KindsOver
<1> QED BY <1>1, <1>2, <1>3, <1>4, <1>5, <1>6

\* type_node_kind makes kinds.
LEMMA TypeNodeKindIsKind ==
  /\ \A n \in 0..Deepest : \A t \in AnnotationUpTo[n] : TypeNodeKind[t] \in KindUpTo[n]
  /\ \A t \in Annotation : TypeNodeKind[t] \in Kind
<1> DEFINE P(n) == \A t \in AnnotationUpTo[n] : TypeNodeKind[t] \in KindUpTo[n]
           S == {n \in Nat : n <= Deepest => P(n)}
           parts(t) == [i \in DOMAIN Parts(t) |-> TypeNodeKind[Parts(t)[i]]]
<1>1. ASSUME NEW n \in 0..Deepest, n # 0 => P(n - 1) PROVE P(n)
  <2> DEFINE K == IF n = 0 THEN {} ELSE KindUpTo[n - 1]
             A == IF n = 0 THEN {} ELSE AnnotationUpTo[n - 1]
  <2> SUFFICES ASSUME NEW t \in AnnotationUpTo[n] PROVE TypeNodeKind[t] \in KindUpTo[n]
    OBVIOUS
  <2>1. \A i \in DOMAIN Parts(t) : TypeNodeKind[Parts(t)[i]] \in K
    BY <1>1, PartsOfAnnotationUpTo
  <2>2. parts(t) \in [DOMAIN Parts(t) -> K]
    <3> HIDE DEF K
    <3> QED BY <2>1
  <2>3. t \in AnnotationsOver(A) /\ KindUpTo[n] = KindsOver(K)
    BY AnnotationUpToHolds, KindUpToHolds
  <2>4. AnnotationKind(t, parts(t)) \in KindsOver(K)
    <3> HIDE DEF K, A, parts
    <3> QED BY <2>2, <2>3, AnnotationKindIsKind
  <2>5. t \in Annotation
    BY AnnotationUpToGrows, DeepestIsNumber DEF Annotation
  <2>6. TypeNodeKind[t] = AnnotationKind(t, parts(t))
    BY <2>5, TypeNodeKindHolds
  <2> HIDE DEF K, parts
  <2> QED BY <2>3, <2>4, <2>6
<1>2. 0 \in S
  <2> HIDE DEF P
  <2> QED BY <1>1, DeepestIsNumber
<1>3. ASSUME NEW n \in S PROVE n + 1 \in S
  <2> SUFFICES ASSUME n + 1 <= Deepest PROVE P(n + 1)
    BY DEF P
  <2>1. n + 1 \in 0..Deepest /\ (n + 1) - 1 = n /\ n <= Deepest
    BY DeepestIsNumber
  <2> HIDE DEF P
  <2> QED BY <1>1, <2>1
<1>4. S = Nat
  <2> HIDE DEF S
  <2>1. S \in SUBSET Nat
    BY DEF S
  <2> QED BY <1>2, <1>3, <2>1, NumberInduction
<1>5. \A n \in 0..Deepest : P(n)
  <2> HIDE DEF P
  <2> QED BY <1>4, DeepestIsNumber
<1> QED BY <1>5, DeepestIsNumber DEF Annotation, Kind

\* literal_ty_kind makes kinds.
LEMMA LiteralIsKind ==
  ASSUME NEW I, NEW e \in ExprsOver(I), NEW K
  PROVE  LiteralTyKind(e) \in KindsOver(K)
<1>1. Unknown \in KindsOver(K) /\ Boolean \in KindsOver(K) /\ Uint(None) \in KindsOver(K)
  BY DEF KindsOver, Uint
<1>2. CASE e.k = "int"
  <2>1. e.n \in Nat
    BY <1>2 DEF ExprsOver
  <2>2. \A u \in 1..(TwoTo[WordBits] - 1) : Uint(u) \in KindsOver(K)
    BY DEF KindsOver, Uint
  <2>3. \/ LiteralTyKind(e) = Uint(None)
        \/ e.n + 1 \in 1..(TwoTo[WordBits] - 1) /\ LiteralTyKind(e) = Uint(e.n + 1)
    BY <1>2, <2>1, Limits DEF LiteralTyKind, ParseIntLiteral, None
  <2> QED BY <1>1, <2>2, <2>3
<1>3. CASE e.k # "int"
  BY <1>1, <1>3 DEF LiteralTyKind
<1> QED BY <1>2, <1>3

\* One step of expr_ty_kind makes a kind of kinds.
LEMMA ExprKindIsKind ==
  ASSUME NEW I, NEW K, KindUpTo[MaxNesting] \subseteq KindsOver(K),
         NEW e \in ExprsOver(I), NEW kinds \in [DOMAIN Operands(e) -> K]
  PROVE  ExprKind(e, kinds) \in KindsOver(K)
<1>1. CASE e.k \in {"bool", "int", "string"}
  BY <1>1, LiteralIsKind DEF ExprKind
<1>2. CASE e.k = "cast"
  <2>1. e.ty \in AnnotationUpTo[MaxNesting]
    BY <1>2 DEF ExprsOver
  <2>2. TypeNodeKind[e.ty] \in KindUpTo[MaxNesting]
    BY <2>1, TypeNodeKindIsKind, DeepestIsNumber
  <2> QED BY <1>2, <2>2 DEF ExprKind
<1>3. CASE e.k = "array" /\ ~HasSpread(e.elems)
  <2>1. e.elems \in Seq(I) /\ Operands(e) = e.elems
    BY <1>3 DEF ExprsOver, Operands
  <2>2. kinds \in [1..Len(e.elems) -> K] /\ Len(e.elems) \in Nat
    BY <2>1
  <2>3. kinds \in Seq(K)
    BY <2>2
  <2> QED BY <1>3, <2>3 DEF ExprKind, Tuple, KindsOver
<1>4. CASE e.k \notin {"bool", "int", "string", "cast"} /\ ~(e.k = "array" /\ ~HasSpread(e.elems))
  BY <1>4 DEF ExprKind, KindsOver
<1> QED BY <1>1, <1>2, <1>3, <1>4

\* expr_ty_kind makes kinds.
LEMMA ExprTyKindIsKind ==
  \A e \in Expr : ExprTyKind[e] \in Kind
<1> DEFINE P(n) == \A e \in ExprUpTo[n] : ExprTyKind[e] \in KindUpTo[n + MaxNesting]
           S == {n \in Nat : n <= MaxNesting => P(n)}
           kinds(e) == [i \in DOMAIN Operands(e) |-> ExprTyKind[Operands(e)[i]]]
<1>1. ASSUME NEW n \in 0..MaxNesting, n # 0 => P(n - 1) PROVE P(n)
  <2> DEFINE K == IF n + MaxNesting = 0 THEN {} ELSE KindUpTo[n + MaxNesting - 1]
             A == IF n = 0 THEN {} ELSE ExprUpTo[n - 1]
  <2> SUFFICES ASSUME NEW e \in ExprUpTo[n] PROVE ExprTyKind[e] \in KindUpTo[n + MaxNesting]
    OBVIOUS
  <2>0. n + MaxNesting \in 0..Deepest /\ n \in Nat /\ MaxNesting \in 0..(n + MaxNesting)
    BY DeepestIsNumber
  <2>1. \A i \in DOMAIN Operands(e) : ExprTyKind[Operands(e)[i]] \in K
    <3> SUFFICES ASSUME NEW i \in DOMAIN Operands(e) PROVE ExprTyKind[Operands(e)[i]] \in K
      OBVIOUS
    <3>1. n # 0 /\ Operands(e)[i] \in ExprUpTo[n - 1]
      BY OperandsOfExprUpTo
    <3>2. n + MaxNesting # 0 /\ (n - 1) + MaxNesting = n + MaxNesting - 1
      BY <2>0, <3>1, DeepestIsNumber
    <3> QED BY <1>1, <3>1, <3>2
  <2>2. kinds(e) \in [DOMAIN Operands(e) -> K]
    <3> HIDE DEF K
    <3> QED BY <2>1
  <2>3. e \in ExprsOver(A) /\ KindUpTo[n + MaxNesting] = KindsOver(K)
    BY <2>0, ExprUpToHolds, KindUpToHolds
  <2>4. KindUpTo[MaxNesting] \subseteq KindsOver(K)
    <3> HIDE DEF K
    <3> QED BY <2>0, <2>3, KindUpToGrows
  <2>5. ExprKind(e, kinds(e)) \in KindsOver(K)
    <3> HIDE DEF K, A, kinds
    <3> QED BY <2>2, <2>3, <2>4, ExprKindIsKind
  <2>6. e \in Expr
    BY ExprUpToGrows, DeepestIsNumber DEF Expr
  <2>7. ExprTyKind[e] = ExprKind(e, kinds(e))
    BY <2>6, ExprTyKindHolds
  <2> HIDE DEF K, kinds
  <2> QED BY <2>3, <2>5, <2>7
<1>2. 0 \in S
  <2> HIDE DEF P
  <2> QED BY <1>1, DeepestIsNumber
<1>3. ASSUME NEW n \in S PROVE n + 1 \in S
  <2> SUFFICES ASSUME n + 1 <= MaxNesting PROVE P(n + 1)
    BY DEF P
  <2>1. n + 1 \in 0..MaxNesting /\ (n + 1) - 1 = n /\ n <= MaxNesting
    BY DeepestIsNumber
  <2> HIDE DEF P
  <2> QED BY <1>1, <2>1
<1>4. S = Nat
  <2> HIDE DEF S
  <2>1. S \in SUBSET Nat
    BY DEF S
  <2> QED BY <1>2, <1>3, <2>1, NumberInduction
<1>5. P(MaxNesting)
  <2> HIDE DEF P
  <2> QED BY <1>4, DeepestIsNumber
<1> SUFFICES ASSUME NEW e \in Expr PROVE ExprTyKind[e] \in Kind
  OBVIOUS
<1>6. ExprTyKind[e] \in KindUpTo[MaxNesting + MaxNesting]
  BY <1>5 DEF Expr
<1>7. MaxNesting + MaxNesting \in 0..Deepest /\ Deepest \in 0..Deepest
  BY DeepestIsNumber
<1> QED BY <1>6, <1>7, KindUpToGrows DEF Kind

-----------------------------------------------------------------------------
(* Induction over annotations, kinds, expressions, and their places.       *)

\* What holds of an annotation whose parts it holds of, holds of all of them.
LEMMA AnnotationInduction ==
  ASSUME NEW S, \A t \in Annotation : (\A i \in DOMAIN Parts(t) : Parts(t)[i] \in S) => t \in S
  PROVE  Annotation \subseteq S
<1> DEFINE U == {n \in Nat : n <= Deepest => AnnotationUpTo[n] \subseteq S}
<1>1. ASSUME NEW n \in 0..Deepest, n # 0 => AnnotationUpTo[n - 1] \subseteq S
      PROVE  AnnotationUpTo[n] \subseteq S
  <2> SUFFICES ASSUME NEW t \in AnnotationUpTo[n] PROVE t \in S
    OBVIOUS
  <2>1. t \in Annotation
    BY AnnotationUpToGrows, DeepestIsNumber DEF Annotation
  <2>2. \A i \in DOMAIN Parts(t) : Parts(t)[i] \in S
    BY <1>1, PartsOfAnnotationUpTo
  <2> QED BY <2>1, <2>2
<1>2. 0 \in U
  BY <1>1, DeepestIsNumber
<1>3. ASSUME NEW n \in U PROVE n + 1 \in U
  <2> SUFFICES ASSUME n + 1 <= Deepest PROVE AnnotationUpTo[n + 1] \subseteq S
    OBVIOUS
  <2>1. n + 1 \in 0..Deepest /\ (n + 1) - 1 = n /\ n <= Deepest
    BY DeepestIsNumber
  <2> QED BY <1>1, <2>1
<1>4. U = Nat
  <2> HIDE DEF U
  <2>1. U \in SUBSET Nat
    BY DEF U
  <2> QED BY <1>2, <1>3, <2>1, NumberInduction
<1> QED BY <1>4, DeepestIsNumber DEF Annotation

\* What holds of a kind whose parts it holds of, holds of all of them.
LEMMA KindInduction ==
  ASSUME NEW S, \A t \in Kind : (\A i \in DOMAIN Parts(t) : Parts(t)[i] \in S) => t \in S
  PROVE  Kind \subseteq S
<1> DEFINE U == {n \in Nat : n <= Deepest => KindUpTo[n] \subseteq S}
<1>1. ASSUME NEW n \in 0..Deepest, n # 0 => KindUpTo[n - 1] \subseteq S
      PROVE  KindUpTo[n] \subseteq S
  <2> SUFFICES ASSUME NEW t \in KindUpTo[n] PROVE t \in S
    OBVIOUS
  <2>1. t \in Kind
    BY KindUpToGrows, DeepestIsNumber DEF Kind
  <2>2. \A i \in DOMAIN Parts(t) : Parts(t)[i] \in S
    BY <1>1, PartsOfKindUpTo
  <2> QED BY <2>1, <2>2
<1>2. 0 \in U
  BY <1>1, DeepestIsNumber
<1>3. ASSUME NEW n \in U PROVE n + 1 \in U
  <2> SUFFICES ASSUME n + 1 <= Deepest PROVE KindUpTo[n + 1] \subseteq S
    OBVIOUS
  <2>1. n + 1 \in 0..Deepest /\ (n + 1) - 1 = n /\ n <= Deepest
    BY DeepestIsNumber
  <2> QED BY <1>1, <2>1
<1>4. U = Nat
  <2> HIDE DEF U
  <2>1. U \in SUBSET Nat
    BY DEF U
  <2> QED BY <1>2, <1>3, <2>1, NumberInduction
<1> QED BY <1>4, DeepestIsNumber DEF Kind

\* What holds of an expression whose operands it holds of, holds of all of them.
LEMMA ExprInduction ==
  ASSUME NEW S, \A e \in Expr : (\A i \in DOMAIN Operands(e) : Operands(e)[i] \in S) => e \in S
  PROVE  Expr \subseteq S
<1> DEFINE U == {n \in Nat : n <= MaxNesting => ExprUpTo[n] \subseteq S}
<1>1. ASSUME NEW n \in 0..MaxNesting, n # 0 => ExprUpTo[n - 1] \subseteq S
      PROVE  ExprUpTo[n] \subseteq S
  <2> SUFFICES ASSUME NEW e \in ExprUpTo[n] PROVE e \in S
    OBVIOUS
  <2>1. e \in Expr
    BY ExprUpToGrows, DeepestIsNumber DEF Expr
  <2>2. \A i \in DOMAIN Operands(e) : Operands(e)[i] \in S
    BY <1>1, OperandsOfExprUpTo
  <2> QED BY <2>1, <2>2
<1>2. 0 \in U
  BY <1>1, DeepestIsNumber
<1>3. ASSUME NEW n \in U PROVE n + 1 \in U
  <2> SUFFICES ASSUME n + 1 <= MaxNesting PROVE ExprUpTo[n + 1] \subseteq S
    OBVIOUS
  <2>1. n + 1 \in 0..MaxNesting /\ (n + 1) - 1 = n /\ n <= MaxNesting
    BY DeepestIsNumber
  <2> QED BY <1>1, <2>1
<1>4. U = Nat
  <2> HIDE DEF U
  <2>1. U \in SUBSET Nat
    BY DEF U
  <2> QED BY <1>2, <1>3, <2>1, NumberInduction
<1> QED BY <1>4, DeepestIsNumber DEF Expr

(* An expression after its operands, and after every expression of the earlier *)
(* statements.                                                             *)
LEMMA PlaceInduction ==
  ASSUME NEW n \in Nat, NEW S,
         \A s \in 1..n, e \in Expr :
           /\ \A i \in DOMAIN Operands(e) : <<s, Operands(e)[i]>> \in S
           /\ \A q \in 1..(s - 1), x \in Expr : <<q, x>> \in S
           => <<s, e>> \in S
  PROVE  \A s \in 1..n, e \in Expr : <<s, e>> \in S
<1> DEFINE Done(m) == \A s \in 1..m : \A e \in Expr : <<s, e>> \in S
           U == {m \in Nat : m <= n => Done(m)}
<1>1. 0 \in U
  OBVIOUS
<1>2. ASSUME NEW m \in U PROVE m + 1 \in U
  <2> SUFFICES ASSUME m + 1 <= n PROVE Done(m + 1)
    <3> HIDE DEF Done
    <3> QED OBVIOUS
  <2> DEFINE T == {e \in Expr : <<m + 1, e>> \in S}
  <2>1. Done(m) /\ (m + 1) - 1 = m /\ m + 1 \in 1..n /\ m \in Nat
    <3> HIDE DEF Done
    <3> QED OBVIOUS
  <2>2. ASSUME NEW e \in Expr, \A i \in DOMAIN Operands(e) : Operands(e)[i] \in T
        PROVE  e \in T
    <3>1. \A i \in DOMAIN Operands(e) : <<m + 1, Operands(e)[i]>> \in S
      BY <2>2
    <3>2. \A q \in 1..((m + 1) - 1), x \in Expr : <<q, x>> \in S
      BY <2>1
    <3> QED BY <2>1, <3>1, <3>2
  <2>3. Expr \subseteq T
    <3> HIDE DEF T
    <3> QED BY <2>2, ExprInduction
  <2>4. \A s \in 1..(m + 1) : s = m + 1 \/ s \in 1..m
    BY <2>1
  <2>5. \A e \in Expr : <<m + 1, e>> \in S
    BY <2>3
  <2> QED BY <2>1, <2>4, <2>5
<1>3. U = Nat
  <2> HIDE DEF U
  <2>1. U \in SUBSET Nat
    BY DEF U
  <2> QED BY <1>1, <1>2, <2>1, NumberInduction
<1>4. Done(n)
  <2> HIDE DEF Done
  <2> QED BY <1>3
<1> QED BY <1>4

-----------------------------------------------------------------------------
(* Sequences of values.                                                    *)

(* What is made of sets that all have a member has one itself. *)
LEMMA RowsHold ==
  ASSUME NEW sets, \A i \in DOMAIN sets : sets[i] # {}
  PROVE  \E row \in Rows(sets) : TRUE
<1> DEFINE row == [i \in DOMAIN sets |-> CHOOSE v \in sets[i] : TRUE]
<1>1. \A i \in DOMAIN sets : row[i] \in sets[i]
  OBVIOUS
<1>2. row \in [DOMAIN sets -> UNION {sets[i] : i \in DOMAIN sets}]
  <2> HIDE DEF row
  <2>1. \A i \in DOMAIN sets : row[i] \in UNION {sets[j] : j \in DOMAIN sets}
    BY <1>1
  <2>2. row = [i \in DOMAIN sets |-> row[i]]
    BY DEF row
  <2> QED BY <2>1, <2>2
<1> HIDE DEF row
<1> QED BY <1>1, <1>2 DEF Rows

\* Sequences over sets that all have a member exist.
LEMMA SequencesHold ==
  ASSUME NEW sets, \A i \in DOMAIN sets : sets[i] # {}
  PROVE  SequencesOf(sets) # {}
BY RowsHold DEF SequencesOf

(* Nothing but a larger set of each can make a larger set of sequences. *)
LEMMA SequencesCompare ==
  ASSUME NEW A, NEW B, \A i \in DOMAIN A : A[i] # {}, SequencesOf(A) \subseteq SequencesOf(B)
  PROVE  DOMAIN A = DOMAIN B /\ \A i \in DOMAIN A : A[i] \subseteq B[i]
<1>1. ASSUME NEW row \in Rows(A)
      PROVE  row \in Rows(B)
  <2>1. <<"sequence", row>> \in SequencesOf(B)
    BY DEF SequencesOf
  <2> QED BY <2>1 DEF SequencesOf
<1>2. PICK row \in Rows(A) : TRUE
  BY RowsHold
<1>3. DOMAIN A = DOMAIN B
  BY <1>1, <1>2 DEF Rows
<1>4. ASSUME NEW i \in DOMAIN A, NEW v \in A[i]
      PROVE  v \in B[i]
  <2> DEFINE other == [j \in DOMAIN A |-> IF j = i THEN v ELSE row[j]]
  <2>1. \A j \in DOMAIN A : row[j] \in A[j]
    BY <1>2 DEF Rows
  <2>2. \A j \in DOMAIN A : other[j] \in A[j]
    BY <2>1
  <2>3. other \in [DOMAIN A -> UNION {A[j] : j \in DOMAIN A}]
    BY <2>2
  <2>4. other \in Rows(A)
    <3> HIDE DEF other
    <3> QED BY <2>2, <2>3 DEF Rows
  <2>5. other \in Rows(B) /\ other[i] = v
    BY <1>1, <2>4
  <2> HIDE DEF other
  <2> QED BY <1>3, <2>5 DEF Rows
<1> QED BY <1>3, <1>4

\* Larger sets make more sequences.
LEMMA SequencesGrow ==
  ASSUME NEW A, NEW B, DOMAIN A = DOMAIN B, \A i \in DOMAIN A : A[i] \subseteq B[i]
  PROVE  SequencesOf(A) \subseteq SequencesOf(B)
<1> SUFFICES ASSUME NEW row \in Rows(A) PROVE row \in Rows(B)
  BY DEF SequencesOf
<1>1. row \in [DOMAIN A -> UNION {A[i] : i \in DOMAIN A}] /\ \A i \in DOMAIN A : row[i] \in A[i]
  BY DEF Rows
<1>2. \A i \in DOMAIN B : row[i] \in B[i]
  BY <1>1
<1>3. row \in [DOMAIN B -> UNION {B[i] : i \in DOMAIN B}]
  BY <1>1, <1>2
<1> QED BY <1>2, <1>3 DEF Rows

-----------------------------------------------------------------------------
(* Every annotation and every expression has a value.                      *)

\* What the tag of an annotation says of its fields.
LEMMA AnnotationFields ==
  ASSUME NEW A, NEW t \in AnnotationsOver(A)
  PROVE  /\ t.k \in {"Boolean", "Field", "Absent", "Uint", "Bytes", "Ref", "Tuple", "Vector"}
         /\ t.k = "Uint" => t.sizes \in Seq(Size) /\ Len(t.sizes) \in 1..2
         /\ t.k \in {"Bytes", "Vector"} => t.size \in Size
         /\ t.k = "Tuple" => t.elems \in Seq(A) /\ Parts(t) = t.elems
         /\ t.k = "Vector" => t.elem \in A /\ Parts(t) = <<t.elem>>
BY DEF AnnotationsOver, Boolean, Field, Absent, Parts

\* An annotation is made by the constructor its tag names.
LEMMA AnnotationIs ==
  ASSUME NEW t \in Annotation
  PROVE  /\ t.k \in {"Boolean", "Field", "Absent", "Uint", "Bytes", "Ref", "Tuple", "Vector"}
         /\ t.k = "Uint" => t.sizes \in Seq(Size) /\ Len(t.sizes) \in 1..2
         /\ t.k \in {"Bytes", "Vector"} => t.size \in Size
         /\ t.k = "Tuple" => t.elems \in Seq(Annotation) /\ Parts(t) = t.elems
         /\ t.k = "Vector" => t.elem \in Annotation /\ Parts(t) = <<t.elem>>
<1> DEFINE A == IF Deepest = 0 THEN {} ELSE AnnotationUpTo[Deepest - 1]
<1>1. t \in AnnotationsOver(A)
  BY AnnotationUpToHolds, DeepestIsNumber DEF Annotation
<1>2. A \subseteq Annotation
  BY AnnotationUpToGrows, DeepestIsNumber DEF Annotation
<1> HIDE DEF A
<1>3. Seq(A) \subseteq Seq(Annotation)
  BY <1>2, SeqGrows
<1> QED BY <1>1, <1>2, <1>3, AnnotationFields

\* A number type has a value.
LEMMA UintValuesHold ==
  ASSUME NEW sizes \in Seq(Size), NEW inst, inst.N \in Nat
  PROVE  UintValues(sizes, inst) # {}
<1>1. \A m \in Nat \ {0} : <<"number", 0>> \in Numbers(m)
  BY DEF Numbers
<1> DEFINE n == [i \in DOMAIN sizes |-> SizeOf(sizes[i], inst)]
           widest == TwoTo[MaxWidth]
<1>2. CASE Len(n) = 1 /\ n[1] \in 1..MaxWidth
  <2>1. TwoTo[n[1]] \in Nat \ {0}
    BY <1>2, TwoToIsNumber, Limits
  <2>2. UintValues(sizes, inst) = Numbers(TwoTo[n[1]])
    BY <1>2 DEF UintValues
  <2> HIDE DEF n
  <2> QED BY <1>1, <2>1, <2>2
<1>3. CASE Len(n) = 2 /\ n[1] = 0 /\ n[2] > 0
  <2>1. n[2] \in Int
    <3>1. 2 \in DOMAIN sizes /\ sizes[2] \in Size
      BY <1>3
    <3> QED BY <3>1 DEF Size, SizeOf, Param
  <2>2. UintValues(sizes, inst) = Numbers(IF n[2] < widest THEN n[2] ELSE widest)
    BY <1>3 DEF UintValues
  <2>3. (IF n[2] < widest THEN n[2] ELSE widest) \in Nat \ {0}
    <3> HIDE DEF n
    <3> QED BY <1>3, <2>1, Limits
  <2> HIDE DEF n
  <2> QED BY <1>1, <2>2, <2>3
<1>4. CASE ~(Len(n) = 1 /\ n[1] \in 1..MaxWidth) /\ ~(Len(n) = 2 /\ n[1] = 0 /\ n[2] > 0)
  BY <1>4 DEF UintValues, Opaque
<1> QED BY <1>2, <1>3, <1>4

\* Every annotation has a value.
LEMMA ValuesHold ==
  ASSUME NEW d, NEW inst \in Instantiations
  PROVE  \A t \in Annotation : Values(d, t, inst) # {}
<1> DEFINE S == {t \in Annotation : Values(d, t, inst) # {}}
<1>1. inst.N \in Nat /\ inst.T # {}
  BY MeaningAssumption
<1>2. ASSUME NEW t \in Annotation, \A i \in DOMAIN Parts(t) : Parts(t)[i] \in S
      PROVE  t \in S
  <2> DEFINE parts == [i \in DOMAIN Parts(t) |-> Values(d, Parts(t)[i], inst)]
  <2>1. Values(d, t, inst) = AnnotationValues(d, t, inst, parts)
    BY ValuesHolds
  <2>2. DOMAIN parts = DOMAIN Parts(t) /\ \A i \in DOMAIN parts : parts[i] # {}
    BY <1>2
  <2> HIDE DEF parts
  <2>3. CASE t.k = "Tuple"
    <3>1. AnnotationValues(d, t, inst, parts) = SequencesOf(parts)
      BY <2>3 DEF AnnotationValues
    <3> QED BY <2>1, <2>2, <3>1, SequencesHold
  <2>4. CASE t.k = "Vector"
    <3> DEFINE sets == [i \in 1..SizeOf(t.size, inst) |-> parts[1]]
    <3>1. AnnotationValues(d, t, inst, parts) = SequencesOf(sets)
      BY <2>4 DEF AnnotationValues
    <3>2. 1 \in DOMAIN parts
      BY <2>2, <2>4, AnnotationIs
    <3>3. \A i \in DOMAIN sets : sets[i] # {}
      BY <2>2, <3>2
    <3> HIDE DEF sets
    <3> QED BY <2>1, <3>1, <3>3, SequencesHold
  <2>5. CASE t.k = "Uint"
    BY <1>1, <2>1, <2>5, AnnotationIs, UintValuesHold DEF AnnotationValues
  <2>6. CASE t.k = "Ref"
    BY <1>1, <2>1, <2>6 DEF AnnotationValues, NamedValues, Opaque
  <2>7. CASE t.k \notin {"Tuple", "Vector", "Uint", "Ref", "Field"}
    BY <2>1, <2>7 DEF AnnotationValues, Opaque, Booleans
  <2>8. CASE t.k = "Field"
    <3>1. <<"number", 0>> \in Numbers(FieldSize)
      BY Limits DEF Numbers
    <3> QED BY <2>1, <2>8, <3>1 DEF AnnotationValues
  <2> QED BY <2>1, <2>3, <2>4, <2>5, <2>6, <2>7, <2>8
<1>3. Annotation \subseteq S
  <2> HIDE DEF S
  <2> QED BY <1>2, AnnotationInduction
<1> QED BY <1>3

\* What may be opaque has a value.
LEMMA OrOpaqueHolds ==
  ASSUME NEW V
  PROVE  OrOpaque(V) # {}
BY DEF OrOpaque, Opaque

\* What the tag of an expression says of its fields.
LEMMA ExprFields ==
  ASSUME NEW E, NEW e \in ExprsOver(E)
  PROVE  /\ e.k \in {"bool", "string", "int", "name", "struct", "spread", "cast", "member", "array",
                     "call", "method"}
         /\ e.k = "int" => e.n \in Nat
         /\ e.k = "cast" => e.ty \in Written
         /\ e.k \in {"spread", "cast", "member"} => e.of \in E /\ Operands(e) = <<e.of>>
         /\ e.k = "array" => e.elems \in Seq(E) /\ Operands(e) = e.elems
         /\ e.k = "call" => e.args \in Seq(E) /\ Operands(e) = e.args
         /\ e.k = "method" => e.of \in E /\ e.args \in Seq(E) /\ Operands(e) = <<e.of>> \o e.args
BY DEF ExprsOver, Operands, Written

\* An expression is made of the operands its tag names.
LEMMA ExprIs ==
  ASSUME NEW e \in Expr
  PROVE  /\ e.k \in {"bool", "string", "int", "name", "struct", "spread", "cast", "member", "array",
                     "call", "method"}
         /\ e.k = "int" => e.n \in Nat
         /\ e.k = "cast" => e.ty \in Written
         /\ e.k \in {"spread", "cast", "member"} => e.of \in Expr /\ Operands(e) = <<e.of>>
         /\ e.k = "array" => e.elems \in Seq(Expr) /\ Operands(e) = e.elems
         /\ e.k = "call" => e.args \in Seq(Expr) /\ Operands(e) = e.args
         /\ e.k = "method" => e.of \in Expr /\ e.args \in Seq(Expr) /\ Operands(e) = <<e.of>> \o e.args
<1> DEFINE A == IF MaxNesting = 0 THEN {} ELSE ExprUpTo[MaxNesting - 1]
<1>1. e \in ExprsOver(A)
  BY ExprUpToHolds, DeepestIsNumber DEF Expr
<1>2. A \subseteq Expr
  BY ExprUpToGrows, DeepestIsNumber DEF Expr
<1> HIDE DEF A
<1>3. Seq(A) \subseteq Seq(Expr)
  BY <1>2, SeqGrows
<1> QED BY <1>1, <1>2, <1>3, ExprFields

EarlierHold(d, s, inst) == \A q \in 1..(s - 1), x \in Expr : ValuesOf(d, q, x, inst) # {}

\* What binds a local has a value, if the statements before have.
LEMMA BoundValuesHold ==
  ASSUME WellFormed(program), NEW d \in Declaration, NEW inst \in Instantiations,
         NEW s \in DOMAIN d.body, NEW e, Resolve(d, s, e.name).is \in {"param", "const"},
         EarlierHold(d, s, inst)
  PROVE  BoundValues(d, s, e, inst) # {}
<1> DEFINE r == Resolve(d, s, e.name)
<1>1. s \in 0..Len(d.body)
  BY DeclarationHolds
<1>2. CASE r.is = "const"
  <2>1. r.at \in 1..(s - 1) /\ r.at \in DOMAIN d.body
    BY <1>1, <1>2, ResolveHolds
  <2>2. d.body[r.at].value \in Expr /\ d.body[r.at].ty \in Annotation
    BY <2>1, DeclarationHolds, WrittenHolds
  <2> HIDE DEF r
  <2>3. Binding(d, r) = d.body[r.at]
    BY <1>2 DEF Binding
  <2>4. ValuesOf(d, r.at, Binding(d, r).value, inst) # {} /\ Values(d, Binding(d, r).ty, inst) # {}
    BY <2>1, <2>2, <2>3, ValuesHold DEF EarlierHold
  <2> QED BY <2>4 DEF BoundValues, r
<1>3. CASE r.is = "param"
  <2>1. r.at \in DOMAIN d.params
    BY <1>1, <1>3, ResolveHolds
  <2>2. d.params[r.at].ty \in Annotation
    BY <2>1, DeclarationHolds, WrittenHolds
  <2> HIDE DEF r
  <2>3. Binding(d, r) = d.params[r.at]
    BY <1>3 DEF Binding
  <2>4. Values(d, Binding(d, r).ty, inst) # {}
    BY <2>2, <2>3, ValuesHold
  <2> QED BY <1>3, <2>4 DEF BoundValues, r
<1> QED BY <1>2, <1>3

\* Every expression has a value.
LEMMA ValuesOfHold ==
  ASSUME WellFormed(program), NEW d \in Declaration, NEW inst \in Instantiations
  PROVE  \A s \in DOMAIN d.body, e \in Expr : ValuesOf(d, s, e, inst) # {}
<1> DEFINE S == {p \in (DOMAIN d.body) \X Expr : ValuesOf(d, p[1], p[2], inst) # {}}
<1>1. Len(d.body) \in Nat /\ DOMAIN d.body = 1..Len(d.body)
  BY DeclarationHolds
<1>2. ASSUME NEW s \in 1..Len(d.body), NEW e \in Expr,
             \A i \in DOMAIN Operands(e) : <<s, Operands(e)[i]>> \in S,
             \A q \in 1..(s - 1), x \in Expr : <<q, x>> \in S
      PROVE  <<s, e>> \in S
  <2> DEFINE parts == [i \in DOMAIN Operands(e) |-> ValuesOf(d, s, Operands(e)[i], inst)]
             whole == BoundValues(d, s, e, inst)
             r == Resolve(d, s, e.name)
  <2>1. ValuesOf(d, s, e, inst) = ExprValues(d, s, e, inst, parts, whole)
    BY <1>1, ValuesOfHolds
  <2>2. DOMAIN parts = DOMAIN Operands(e) /\ \A i \in DOMAIN parts : parts[i] # {}
    BY <1>2
  <2>3. r.is \in {"param", "const"} => whole # {}
    <3>1. EarlierHold(d, s, inst)
      BY <1>2 DEF EarlierHold
    <3>2. s \in DOMAIN d.body
      BY <1>1
    <3> SUFFICES ASSUME r.is \in {"param", "const"} PROVE whole # {}
      OBVIOUS
    <3>3. BoundValues(d, s, e, inst) # {}
      BY <3>1, <3>2, BoundValuesHold
    <3> QED BY <3>3
  <2>4. inst.N \in Nat /\ inst.T # {}
    BY MeaningAssumption
  <2> HIDE DEF parts, whole, r
  <2>5. ExprValues(d, s, e, inst, parts, whole) # {}
    <3>1. CASE e.k = "array"
      <4>1. CASE HasSpread(e.elems)
        <5> DEFINE Spliced(i) == IF e.elems[i].k = "spread" THEN {v[2] : v \in parts[i]}
                                                             ELSE {<<v>> : v \in parts[i]}
                   sets == [i \in DOMAIN parts |-> Spliced(i)]
        <5>1. \A i \in DOMAIN sets : sets[i] # {}
          BY <2>2
        <5>2. \E row \in Rows(sets) : TRUE
          <6> HIDE DEF sets
          <6> QED BY <5>1, RowsHold
        <5>3. ExprValues(d, s, e, inst, parts, whole) = {<<"sequence", FlattenSeq(row)>> : row \in Rows(sets)}
          BY <3>1, <4>1 DEF ExprValues
        <5> HIDE DEF sets
        <5> QED BY <5>2, <5>3
      <4>2. CASE ~HasSpread(e.elems)
        BY <2>2, <3>1, <4>2, SequencesHold DEF ExprValues
      <4> QED BY <4>1, <4>2
    <3>2. CASE e.k = "int"
      <4>1. <<"number", 0>> \in Numbers(e.n + 1)
        <5>0. e.n \in Nat
          BY <3>2, ExprIs
        <5>1. 0 \in 0..((e.n + 1) - 1)
          BY <5>0
        <5> QED BY <5>1 DEF Numbers
      <4> QED BY <3>2, <4>1 DEF ExprValues
    <3>3. CASE e.k = "cast"
      BY <3>3, ExprIs, WrittenHolds, ValuesHold DEF ExprValues
    <3>4. CASE e.k = "spread"
      <4>0. Operands(e) = <<e.of>>
        BY <3>4, ExprIs
      <4>1. 1 \in DOMAIN parts
        BY <2>2, <4>0
      <4> QED BY <2>2, <3>4, <4>1 DEF ExprValues
    <3>5. CASE e.k = "name" /\ r.is \in {"param", "const"}
      <4>1. ExprValues(d, s, e, inst, parts, whole) = 
              IF Binding(d, r).simple THEN whole ELSE {v[2][1] : v \in whole}
        BY <3>5 DEF ExprValues, r
      <4> QED BY <2>3, <3>5, <4>1
    <3>6. CASE e.k \in {"member", "call"}
      BY <3>6, OrOpaqueHolds DEF ExprValues
    <3>7. CASE e.k \in {"bool", "string"}
      BY <3>7 DEF ExprValues, Booleans
    <3>8. CASE e.k \in {"struct", "method"}
      BY <3>8 DEF ExprValues, Opaque
    <3>10. CASE e.k = "name" /\ r.is \notin {"param", "const"}
      BY <3>10 DEF ExprValues, Opaque, r
    <3>11. CASE e.k = "name"
      BY <3>5, <3>10, <3>11
    <3>9. e.k \in {"bool", "string", "int", "name", "struct", "spread", "cast", "member", "array",
                   "call", "method"}
      BY ExprIs
    <3> HIDE DEF ExprValues
    <3> QED BY <3>1, <3>2, <3>3, <3>4, <3>5, <3>6, <3>7, <3>8, <3>9, <3>11
  <2> QED BY <1>1, <2>1, <2>5
<1>3. \A s \in 1..Len(d.body), e \in Expr : <<s, e>> \in S
  <2> HIDE DEF S
  <2> QED BY <1>1, <1>2, PlaceInduction
<1> QED BY <1>1, <1>3

-----------------------------------------------------------------------------
(* The kinds that are lowered, and the values they stand for.              *)

\* What the values of something say of its kind.  M holds the kinds and values of its parts.
Fits(kind, values, M) ==
  /\ kind \in Kind /\ values # {}
  /\ kind.k \notin {"Struct", "Enum"}
  /\ kind.k = "Boolean" => values = Booleans
  /\ kind.k = "Field" => values = Numbers(FieldSize)
  /\ kind.k = "Uint" /\ kind.upper # None => values = Numbers(kind.upper)
  /\ kind.k = "Bytes" => values = {<<"bytes", kind.size>>}
  /\ IsSeqKind(kind) =>
       \E sets : /\ DOMAIN sets = 1..SeqLen(kind) /\ values = SequencesOf(sets)
                 /\ \A i \in 1..SeqLen(kind) : <<SeqElem(kind, i), sets[i]>> \in M

\* A set of pairs of a kind and the values it stands for, with those of its parts.
Sound(M) == \A m \in M : Fits(m[1], m[2], M)

\* A bound that is too large to keep is no smaller than any that is kept.
Large(kind, values) ==
  kind.k = "Uint" /\ kind.upper = None =>
    \E n \in Nat : n >= TwoTo[WordBits] /\ values = Numbers(n)
Numbered(M) == \A m \in M : Large(m[1], m[2])

\* A bound that is kept is the bound of the values.
LEMMA UintMeans ==
  ASSUME NEW sizes \in Seq(Size), Len(sizes) \in 1..2, NEW inst, NEW u, UintBound(sizes) = Uint(u)
  PROVE  /\ u # None => UintValues(sizes, inst) = Numbers(u)
         /\ u = None /\ ~(Len(sizes) = 2 /\ sizes[2] = Param) =>
              \E n \in Nat : n >= TwoTo[WordBits] /\ UintValues(sizes, inst) = Numbers(n)
<1> DEFINE n == [i \in DOMAIN sizes |-> SizeOf(sizes[i], inst)]
           widest == TwoTo[MaxWidth]
<1>0. Uint(u).k = "Uint" /\ Uint(u).upper = u /\ Unknown.k = "Unknown"
  BY DEF Uint, Unknown
<1>1. CASE /\ Len(sizes) = 1 /\ sizes[1] \in 1..MaxWidth
           /\ UintBound(sizes) = Uint(IF sizes[1] < WordBits THEN TwoTo[sizes[1]] ELSE None)
  <2>1. u = IF sizes[1] < WordBits THEN TwoTo[sizes[1]] ELSE None
    BY <1>1 DEF Uint
  <2>2. Len(n) = 1 /\ n[1] = sizes[1]
    BY <1>1, Limits DEF SizeOf, Param
  <2>3. UintValues(sizes, inst) = Numbers(TwoTo[sizes[1]])
    BY <1>1, <2>2 DEF UintValues
  <2>4. TwoTo[sizes[1]] \in Nat \ {0} /\ (sizes[1] >= WordBits => TwoTo[sizes[1]] >= TwoTo[WordBits])
    <3>1. sizes[1] \in 0..MaxWidth /\ WordBits \in 0..MaxWidth
      BY <1>1, Limits
    <3>2. sizes[1] > WordBits => TwoTo[WordBits] < TwoTo[sizes[1]]
      BY <3>1, TwoToGrows
    <3>3. TwoTo[sizes[1]] \in Nat \ {0} /\ TwoTo[WordBits] \in Nat
      BY <3>1, TwoToIsNumber
    <3> QED BY <3>1, <3>2, <3>3
  <2>5. sizes[1] \in Nat /\ WordBits \in Nat
    BY <1>1, Limits
  <2>6. (u # None => u = TwoTo[sizes[1]]) /\ (u = None => sizes[1] >= WordBits)
    BY <2>1, <2>4, <2>5 DEF None
  <2> HIDE DEF n
  <2> QED BY <2>3, <2>4, <2>6
<1>2. CASE /\ Len(sizes) = 2 /\ sizes[1] = 0
           /\ sizes[2] \in 1..(TwoTo[WordBits] - 1) /\ UintBound(sizes) = Uint(sizes[2])
  <2>1. u = sizes[2] /\ u # None
    BY <1>2, Limits DEF Uint, None
  <2>2. Len(n) = 2 /\ n[1] = 0 /\ n[2] = u /\ n[2] > 0
    BY <1>2, <2>1, Limits DEF SizeOf, Param
  <2>3. u < widest
    BY <1>2, <2>1, Limits
  <2>4. UintValues(sizes, inst) = Numbers(IF n[2] < widest THEN n[2] ELSE widest)
    BY <2>2 DEF UintValues
  <2> HIDE DEF n
  <2> QED BY <2>1, <2>2, <2>3, <2>4
<1>3. CASE /\ Len(sizes) = 2 /\ sizes[1] = 0
           /\ sizes[2] \notin 0..(TwoTo[WordBits] - 1) /\ UintBound(sizes) = Uint(None)
  <2>1. u = None
    BY <1>3 DEF Uint
  <2> SUFFICES ASSUME sizes[2] # Param
               PROVE  \E m \in Nat : m >= TwoTo[WordBits] /\ UintValues(sizes, inst) = Numbers(m)
    BY <1>3, <2>1
  <2>2. sizes[2] \in Nat /\ sizes[2] >= TwoTo[WordBits]
    <3>0. Len(sizes) = 2
      BY <1>3
    <3>1. sizes[2] \in Size
      BY <3>0
    <3> QED BY <1>3, <3>1, Limits DEF Size
  <2>3. Len(n) = 2 /\ n[1] = 0 /\ n[2] = sizes[2] /\ n[2] > 0
    BY <1>3, <2>2, Limits DEF SizeOf, Param
  <2>4. UintValues(sizes, inst) = Numbers(IF n[2] < widest THEN n[2] ELSE widest)
    BY <2>3 DEF UintValues
  <2>5. /\ (IF n[2] < widest THEN n[2] ELSE widest) \in Nat
        /\ (IF n[2] < widest THEN n[2] ELSE widest) >= TwoTo[WordBits]
    <3> HIDE DEF n
    <3> QED BY <2>2, <2>3, Limits
  <2> HIDE DEF n
  <2> QED BY <2>4, <2>5
<1> QED BY <1>0, <1>1, <1>2, <1>3, UintBoundHolds

(* An annotation fits the kind it is lowered to. *)
LEMMA LoweredFits ==
  ASSUME NEW d, NEW inst \in Instantiations, NEW t \in Annotation, NEW M,
         \A i \in DOMAIN Parts(t) : <<TypeNodeKind[Parts(t)[i]], Values(d, Parts(t)[i], inst)>> \in M
  PROVE  Fits(TypeNodeKind[t], Values(d, t, inst), M)
<1> DEFINE parts == [i \in DOMAIN Parts(t) |-> Values(d, Parts(t)[i], inst)]
           kinds == [i \in DOMAIN Parts(t) |-> TypeNodeKind[Parts(t)[i]]]
<1>1. Values(d, t, inst) = AnnotationValues(d, t, inst, parts)
  BY ValuesHolds
<1>2. TypeNodeKind[t] = AnnotationKind(t, kinds)
  BY TypeNodeKindHolds
<1>3. Values(d, t, inst) # {} /\ TypeNodeKind[t] \in Kind
  BY ValuesHold, TypeNodeKindIsKind
<1>4. /\ DOMAIN parts = DOMAIN Parts(t) /\ DOMAIN kinds = DOMAIN Parts(t)
      /\ \A i \in DOMAIN Parts(t) : <<kinds[i], parts[i]>> \in M
  OBVIOUS
<1> HIDE DEF parts, kinds
<1>5. CASE TypeNodeKind[t] = Unknown
  BY <1>3, <1>5 DEF Fits, Unknown, IsSeqKind
<1>6. CASE t.k = "Uint" /\ UintBound(t.sizes) # Unknown
  <2>1. t.sizes \in Seq(Size) /\ Len(t.sizes) \in 1..2
    BY <1>6, AnnotationIs
  <2>2. PICK u : UintBound(t.sizes) = Uint(u)
    BY <1>6, <2>1, UintBoundHolds
  <2>3. TypeNodeKind[t] = Uint(u) /\ Values(d, t, inst) = UintValues(t.sizes, inst)
    BY <1>1, <1>2, <1>6, <2>2 DEF AnnotationKind, AnnotationValues
  <2>4. u # None => UintValues(t.sizes, inst) = Numbers(u)
    BY <2>1, <2>2, UintMeans
  <2> QED BY <1>3, <2>3, <2>4 DEF Fits, Uint, IsSeqKind
<1>7. CASE t.k = "Tuple"
  <2>1. TypeNodeKind[t] = Tuple(kinds) /\ Values(d, t, inst) = SequencesOf(parts)
    BY <1>1, <1>2, <1>7 DEF AnnotationKind, AnnotationValues
  <2>2. t.elems \in Seq(Annotation) /\ Parts(t) = t.elems
    BY <1>7, AnnotationIs
  <2>3. Len(t.elems) \in Nat /\ DOMAIN Parts(t) = 1..Len(t.elems)
    BY <2>2
  <2>4. Len(kinds) = Len(t.elems)
    BY <1>4, <2>3
  <2>5. /\ IsSeqKind(TypeNodeKind[t]) /\ TypeNodeKind[t].k = "Tuple" /\ SeqLen(TypeNodeKind[t]) = Len(t.elems)
        /\ \A i : SeqElem(TypeNodeKind[t], i) = kinds[i]
    BY <2>1, <2>4 DEF IsSeqKind, SeqLen, SeqElem, Tuple
  <2> QED BY <1>3, <1>4, <2>1, <2>3, <2>5 DEF Fits
<1>8. CASE t.k = "Vector" /\ IsLength(t.size)
  <2>1. TypeNodeKind[t] = Vector(t.size, kinds[1])
    BY <1>2, <1>8 DEF AnnotationKind
  <2>2. t.size \in Size /\ Parts(t) = <<t.elem>>
    BY <1>8, AnnotationIs
  <2>3. t.size \in 0..MaxLength /\ SizeOf(t.size, inst) = t.size
    BY <1>8, <2>2, LengthHolds, Limits DEF SizeOf, Param
  <2> DEFINE sets == [i \in 1..t.size |-> parts[1]]
  <2>4. Values(d, t, inst) = SequencesOf(sets)
    BY <1>1, <1>8, <2>3 DEF AnnotationValues
  <2>5. /\ IsSeqKind(TypeNodeKind[t]) /\ TypeNodeKind[t].k = "Vector" /\ SeqLen(TypeNodeKind[t]) = t.size
        /\ \A i : SeqElem(TypeNodeKind[t], i) = kinds[1]
    BY <2>1 DEF IsSeqKind, SeqLen, SeqElem, Vector
  <2>6. <<kinds[1], parts[1]>> \in M
    BY <1>4, <2>2
  <2>7. DOMAIN sets = 1..t.size /\ \A i \in 1..t.size : <<kinds[1], sets[i]>> \in M
    BY <2>6
  <2> HIDE DEF sets
  <2> QED BY <1>3, <2>4, <2>5, <2>7 DEF Fits
<1>9. CASE t.k = "Bytes" /\ IsLength(t.size)
  <2>1. t.size \in Size
    BY <1>9, AnnotationIs
  <2>2. SizeOf(t.size, inst) = t.size
    BY <1>9, <2>1, LengthHolds, Limits DEF SizeOf, Param
  <2>3. TypeNodeKind[t] = Bytes(t.size) /\ Values(d, t, inst) = {<<"bytes", t.size>>}
    BY <1>1, <1>2, <1>9, <2>2 DEF AnnotationKind, AnnotationValues
  <2> QED BY <1>3, <2>3 DEF Fits, Bytes, IsSeqKind
<1>10. CASE t.k \in {"Boolean", "Field"}
  <2>1. TypeNodeKind[t] = t
    BY <1>2, <1>10 DEF AnnotationKind
  <2>2. Values(d, t, inst) = IF t.k = "Boolean" THEN Booleans ELSE Numbers(FieldSize)
    BY <1>1, <1>10 DEF AnnotationValues
  <2> QED BY <1>3, <1>10, <2>1, <2>2 DEF Fits, IsSeqKind
<1>11. \/ TypeNodeKind[t] = Unknown
       \/ t.k = "Uint" /\ UintBound(t.sizes) # Unknown
       \/ t.k = "Tuple"
       \/ t.k \in {"Vector", "Bytes"} /\ IsLength(t.size)
       \/ t.k \in {"Boolean", "Field"}
  <2>1. AnnotationKind(t, kinds) # Unknown =>
          \/ t.k = "Uint" /\ UintBound(t.sizes) # Unknown
          \/ t.k = "Tuple"
          \/ t.k \in {"Vector", "Bytes"} /\ IsLength(t.size)
          \/ t.k \in {"Boolean", "Field"}
    BY DEF AnnotationKind
  <2> QED BY <1>2, <2>1
<1> QED BY <1>5, <1>6, <1>7, <1>8, <1>9, <1>10, <1>11

NumberedExpr(e) == \A x \in SubExprs[e] : x.k = "cast" => NumberedType(x.ty)

TypeMeanings(d, inst) == {<<TypeNodeKind[t], Values(d, t, inst)>> : t \in Annotation}
ExprMeanings(d, inst) ==
  {<<ExprTyKind[e], ValuesOf(d, s, e, inst)>> : s \in DOMAIN d.body, e \in Expr} \cup TypeMeanings(d, inst)

\* Of those the ones that are numbered.
NumberedTypeMeanings(d, inst) ==
  {<<TypeNodeKind[t], Values(d, t, inst)>> : t \in {t \in Annotation : NumberedType(t)}}
NumberedMeanings(d, inst) ==
  {<<ExprTyKind[e], ValuesOf(d, s, e, inst)>> : s \in DOMAIN d.body, e \in {e \in Expr : NumberedExpr(e)}}
    \cup NumberedTypeMeanings(d, inst)

\* The parts of a numbered type are numbered.
LEMMA PartIsNumbered ==
  ASSUME NEW t \in Annotation, NumberedType(t), NEW i \in DOMAIN Parts(t)
  PROVE  NumberedType(Parts(t)[i])
<1>1. SubTypes[Parts(t)[i]] \subseteq SubTypes[t]
  BY SubTypesHolds
<1> QED BY <1>1 DEF NumberedType

\* The operands of a numbered expression are numbered.
LEMMA OperandIsNumbered ==
  ASSUME NEW e \in Expr, NumberedExpr(e), NEW i \in DOMAIN Operands(e)
  PROVE  NumberedExpr(Operands(e)[i])
<1>1. SubExprs[Operands(e)[i]] \subseteq SubExprs[e]
  BY SubExprsHolds
<1> QED BY <1>1 DEF NumberedExpr

\* Lowered annotations fit their values.
LEMMA TypesAreSound ==
  ASSUME NEW d, NEW inst \in Instantiations
  PROVE  Sound(TypeMeanings(d, inst))
<1> SUFFICES ASSUME NEW t \in Annotation
             PROVE  Fits(TypeNodeKind[t], Values(d, t, inst), TypeMeanings(d, inst))
  BY DEF Sound, TypeMeanings
<1>1. \A i \in DOMAIN Parts(t) : <<TypeNodeKind[Parts(t)[i]], Values(d, Parts(t)[i], inst)>> \in TypeMeanings(d, inst)
  BY PartsStay DEF TypeMeanings
<1> QED BY <1>1, LoweredFits

\* Lowered annotations that are numbered fit them, and are large if they say so.
LEMMA NumberedTypesAreSound ==
  ASSUME NEW d, NEW inst \in Instantiations
  PROVE  Sound(NumberedTypeMeanings(d, inst)) /\ Numbered(NumberedTypeMeanings(d, inst))
<1> SUFFICES ASSUME NEW t \in Annotation, NumberedType(t)
             PROVE  /\ Fits(TypeNodeKind[t], Values(d, t, inst), NumberedTypeMeanings(d, inst))
                    /\ Large(TypeNodeKind[t], Values(d, t, inst))
  <2>1. \A m \in NumberedTypeMeanings(d, inst) : \E t \in Annotation :
          NumberedType(t) /\ m[1] = TypeNodeKind[t] /\ m[2] = Values(d, t, inst)
    BY DEF NumberedTypeMeanings
  <2> QED BY <2>1 DEF Sound, Numbered
<1>1. \A i \in DOMAIN Parts(t) :
        <<TypeNodeKind[Parts(t)[i]], Values(d, Parts(t)[i], inst)>> \in NumberedTypeMeanings(d, inst)
  BY PartsStay, PartIsNumbered DEF NumberedTypeMeanings
<1>2. Fits(TypeNodeKind[t], Values(d, t, inst), NumberedTypeMeanings(d, inst))
  BY <1>1, LoweredFits
<1>3. Large(TypeNodeKind[t], Values(d, t, inst))
  <2> SUFFICES ASSUME TypeNodeKind[t].k = "Uint", TypeNodeKind[t].upper = None
               PROVE  \E n \in Nat : n >= TwoTo[WordBits] /\ Values(d, t, inst) = Numbers(n)
    BY DEF Large
  <2> DEFINE parts == [i \in DOMAIN Parts(t) |-> Values(d, Parts(t)[i], inst)]
             kinds == [i \in DOMAIN Parts(t) |-> TypeNodeKind[Parts(t)[i]]]
  <2>1. Values(d, t, inst) = AnnotationValues(d, t, inst, parts)
    BY ValuesHolds
  <2>2. TypeNodeKind[t] = AnnotationKind(t, kinds)
    BY TypeNodeKindHolds
  <2> HIDE DEF parts, kinds
  <2>3. t.k = "Uint" /\ TypeNodeKind[t] = UintBound(t.sizes)
    BY <2>2 DEF AnnotationKind, Bytes, Tuple, Vector, Unknown
  <2>4. t.sizes \in Seq(Size) /\ Len(t.sizes) \in 1..2
    BY <2>3, AnnotationIs
  <2>5. t \in SubTypes[t]
    BY SubTypesHolds
  <2>6. ~(Len(t.sizes) = 2 /\ t.sizes[2] = Param)
    BY <2>3, <2>5 DEF NumberedType
  <2>7. UintBound(t.sizes) = Uint(None)
    <3>1. UintBound(t.sizes) # Unknown
      BY <2>3 DEF Unknown
    <3>2. PICK u : UintBound(t.sizes) = Uint(u)
      BY <2>4, <3>1, UintBoundHolds
    <3> QED BY <2>3, <3>2 DEF Uint
  <2>8. Values(d, t, inst) = UintValues(t.sizes, inst)
    BY <2>1, <2>3 DEF AnnotationValues
  <2> QED BY <2>4, <2>6, <2>7, <2>8, UintMeans
<1> QED BY <1>2, <1>3

(* A larger set of kinds and values fits as well. *)
LEMMA FitsGrows ==
  ASSUME NEW kind, NEW values, NEW M, NEW N, M \subseteq N, Fits(kind, values, M)
  PROVE  Fits(kind, values, N)
BY DEF Fits

(* An expression fits the kind that it is given. *)
LEMMA ExprFits ==
  ASSUME WellFormed(program), NEW d \in Declaration, NEW inst \in Instantiations,
         NEW s \in DOMAIN d.body, NEW e \in Expr, NEW M,
         \A i \in DOMAIN Operands(e) :
           <<ExprTyKind[Operands(e)[i]], ValuesOf(d, s, Operands(e)[i], inst)>> \in M,
         e.k = "cast" => Fits(TypeNodeKind[e.ty], Values(d, e.ty, inst), M)
  PROVE  /\ Fits(ExprTyKind[e], ValuesOf(d, s, e, inst), M)
         /\ e.k # "cast" => Large(ExprTyKind[e], ValuesOf(d, s, e, inst))
<1> DEFINE parts == [i \in DOMAIN Operands(e) |-> ValuesOf(d, s, Operands(e)[i], inst)]
           kinds == [i \in DOMAIN Operands(e) |-> ExprTyKind[Operands(e)[i]]]
           whole == BoundValues(d, s, e, inst)
<1>1. ValuesOf(d, s, e, inst) = ExprValues(d, s, e, inst, parts, whole)
  BY ValuesOfHolds
<1>2. ExprTyKind[e] = ExprKind(e, kinds)
  BY ExprTyKindHolds
<1>3. ValuesOf(d, s, e, inst) # {} /\ ExprTyKind[e] \in Kind
  BY ValuesOfHold, ExprTyKindIsKind
<1>4. /\ DOMAIN parts = DOMAIN Operands(e) /\ DOMAIN kinds = DOMAIN Operands(e)
      /\ \A i \in DOMAIN Operands(e) : <<kinds[i], parts[i]>> \in M
  OBVIOUS
<1> HIDE DEF parts, kinds, whole
<1>5. CASE ExprTyKind[e] = Unknown
  BY <1>3, <1>5 DEF Fits, Unknown, IsSeqKind, Large
<1>6. CASE e.k = "bool"
  <2>1. ExprTyKind[e] = Boolean /\ ValuesOf(d, s, e, inst) = Booleans
    BY <1>1, <1>2, <1>6 DEF ExprKind, LiteralTyKind, ExprValues
  <2> QED BY <1>3, <2>1 DEF Fits, Large, Boolean, IsSeqKind
<1>7. CASE e.k = "int"
  <2>1. e.n \in Nat
    BY <1>7, ExprIs
  <2>2. ValuesOf(d, s, e, inst) = Numbers(e.n + 1)
    BY <1>1, <1>7 DEF ExprValues
  <2>3. ExprTyKind[e] = LiteralTyKind(e)
    BY <1>2, <1>7 DEF ExprKind
  <2>4. \/ LiteralTyKind(e) = Uint(None) /\ e.n + 1 >= TwoTo[WordBits]
        \/ LiteralTyKind(e) = Uint(e.n + 1) /\ e.n + 1 # None
    BY <1>7, <2>1, Limits DEF LiteralTyKind, ParseIntLiteral, None
  <2>5. e.n + 1 \in Nat
    BY <2>1
  <2> QED BY <1>3, <2>2, <2>3, <2>4, <2>5 DEF Fits, Large, Uint, IsSeqKind
<1>8. CASE e.k = "cast"
  <2>1. ExprTyKind[e] = TypeNodeKind[e.ty] /\ ValuesOf(d, s, e, inst) = Values(d, e.ty, inst)
    BY <1>1, <1>2, <1>8 DEF ExprKind, ExprValues
  <2> QED BY <1>8, <2>1
<1>9. CASE e.k = "array" /\ ~HasSpread(e.elems)
  <2>1. ExprTyKind[e] = Tuple(kinds) /\ ValuesOf(d, s, e, inst) = SequencesOf(parts)
    BY <1>1, <1>2, <1>9 DEF ExprKind, ExprValues
  <2>2. e.elems \in Seq(Expr) /\ Operands(e) = e.elems
    BY <1>9, ExprIs
  <2>3. Len(e.elems) \in Nat /\ DOMAIN Operands(e) = 1..Len(e.elems)
    BY <2>2
  <2>4. Len(kinds) = Len(e.elems)
    BY <1>4, <2>3
  <2>5. /\ IsSeqKind(ExprTyKind[e]) /\ ExprTyKind[e].k = "Tuple" /\ SeqLen(ExprTyKind[e]) = Len(e.elems)
        /\ \A i : SeqElem(ExprTyKind[e], i) = kinds[i]
    BY <2>1, <2>4 DEF IsSeqKind, SeqLen, SeqElem, Tuple
  <2> QED BY <1>3, <1>4, <2>1, <2>3, <2>5 DEF Fits, Large
<1>10. \/ ExprTyKind[e] = Unknown
       \/ e.k \in {"bool", "int", "cast"}
       \/ e.k = "array" /\ ~HasSpread(e.elems)
  <2>1. e.k = "string" => ExprKind(e, kinds) = Unknown
    BY DEF ExprKind, LiteralTyKind
  <2>2. e.k \notin {"bool", "int", "string", "cast"} /\ ~(e.k = "array" /\ ~HasSpread(e.elems))
          => ExprKind(e, kinds) = Unknown
    BY DEF ExprKind
  <2> QED BY <1>2, <2>1, <2>2
<1> QED BY <1>5, <1>6, <1>7, <1>8, <1>9, <1>10

\* The kinds of expressions fit their values.
LEMMA ExprsAreSound ==
  ASSUME WellFormed(program), NEW d \in Declaration, NEW inst \in Instantiations
  PROVE  Sound(ExprMeanings(d, inst))
<1> DEFINE M == ExprMeanings(d, inst)
<1>1. TypeMeanings(d, inst) \subseteq M
  BY DEF ExprMeanings
<1>2. ASSUME NEW t \in Annotation PROVE Fits(TypeNodeKind[t], Values(d, t, inst), M)
  <2>1. <<TypeNodeKind[t], Values(d, t, inst)>> \in TypeMeanings(d, inst)
    BY DEF TypeMeanings
  <2>2. Fits(TypeNodeKind[t], Values(d, t, inst), TypeMeanings(d, inst))
    BY <2>1, TypesAreSound DEF Sound
  <2> HIDE DEF M
  <2> QED BY <1>1, <2>2, FitsGrows
<1>3. ASSUME NEW s \in DOMAIN d.body, NEW e \in Expr
      PROVE  Fits(ExprTyKind[e], ValuesOf(d, s, e, inst), M)
  <2>1. \A i \in DOMAIN Operands(e) :
          <<ExprTyKind[Operands(e)[i]], ValuesOf(d, s, Operands(e)[i], inst)>> \in M
    BY PartsStay DEF ExprMeanings
  <2>2. e.k = "cast" => Fits(TypeNodeKind[e.ty], Values(d, e.ty, inst), M)
    <3> HIDE DEF M
    <3> QED BY <1>2, ExprIs, WrittenHolds
  <2> HIDE DEF M
  <2> QED BY <2>1, <2>2, ExprFits
<1>4. \A m \in M : \/ \E t \in Annotation : m[1] = TypeNodeKind[t] /\ m[2] = Values(d, t, inst)
                   \/ \E s \in DOMAIN d.body, e \in Expr :
                        m[1] = ExprTyKind[e] /\ m[2] = ValuesOf(d, s, e, inst)
  BY DEF ExprMeanings, TypeMeanings
<1> HIDE DEF M
<1>5. Sound(M)
  BY <1>2, <1>3, <1>4 DEF Sound
<1> QED BY <1>5 DEF M

\* The kinds of numbered expressions fit them, and are large if they say so.
LEMMA NumberedAreSound ==
  ASSUME WellFormed(program), NEW d \in Declaration, NEW inst \in Instantiations
  PROVE  Sound(NumberedMeanings(d, inst)) /\ Numbered(NumberedMeanings(d, inst))
<1> DEFINE M == NumberedMeanings(d, inst)
<1>1. NumberedTypeMeanings(d, inst) \subseteq M
  BY DEF NumberedMeanings
<1>2. ASSUME NEW t \in Annotation, NumberedType(t)
      PROVE  Fits(TypeNodeKind[t], Values(d, t, inst), M) /\ Large(TypeNodeKind[t], Values(d, t, inst))
  <2>1. <<TypeNodeKind[t], Values(d, t, inst)>> \in NumberedTypeMeanings(d, inst)
    BY <1>2 DEF NumberedTypeMeanings
  <2>2. Fits(TypeNodeKind[t], Values(d, t, inst), NumberedTypeMeanings(d, inst))
    BY <2>1, NumberedTypesAreSound DEF Sound
  <2>3. Large(TypeNodeKind[t], Values(d, t, inst))
    BY <2>1, NumberedTypesAreSound DEF Numbered
  <2> HIDE DEF M
  <2> QED BY <1>1, <2>2, <2>3, FitsGrows
<1>3. ASSUME NEW s \in DOMAIN d.body, NEW e \in Expr, NumberedExpr(e)
      PROVE  Fits(ExprTyKind[e], ValuesOf(d, s, e, inst), M) /\ Large(ExprTyKind[e], ValuesOf(d, s, e, inst))
  <2>1. \A i \in DOMAIN Operands(e) :
          <<ExprTyKind[Operands(e)[i]], ValuesOf(d, s, Operands(e)[i], inst)>> \in M
    BY <1>3, PartsStay, OperandIsNumbered DEF NumberedMeanings
  <2>2. e.k = "cast" => e.ty \in Annotation /\ NumberedType(e.ty)
    <3>1. e \in SubExprs[e]
      BY SubExprsHolds
    <3> QED BY <1>3, <3>1, ExprIs, WrittenHolds DEF NumberedExpr
  <2> HIDE DEF M
  <2>3. CASE e.k # "cast"
    BY <2>1, <2>3, ExprFits
  <2>4. CASE e.k = "cast"
    <3>1. ExprTyKind[e] = TypeNodeKind[e.ty]
      BY <2>4, ExprTyKindHolds DEF ExprKind
    <3>2. ValuesOf(d, s, e, inst) = Values(d, e.ty, inst)
      BY <2>4, ValuesOfHolds DEF ExprValues
    <3> QED BY <1>2, <2>2, <2>4, <3>1, <3>2
  <2> QED BY <2>3, <2>4
<1>4. \A m \in M : \/ \E t \in Annotation :
                        NumberedType(t) /\ m[1] = TypeNodeKind[t] /\ m[2] = Values(d, t, inst)
                   \/ \E s \in DOMAIN d.body, e \in Expr :
                        NumberedExpr(e) /\ m[1] = ExprTyKind[e] /\ m[2] = ValuesOf(d, s, e, inst)
  BY DEF NumberedMeanings, NumberedTypeMeanings
<1> HIDE DEF M
<1>5. Sound(M) /\ Numbered(M)
  BY <1>2, <1>3, <1>4 DEF Sound, Numbered
<1> QED BY <1>5 DEF M

-----------------------------------------------------------------------------
(* What the checker concludes of two kinds, and what is so of their values. *)

\* What the tag of a kind says of its fields.
LEMMA KindFields ==
  ASSUME NEW K, NEW k \in KindsOver(K)
  PROVE  /\ k.k \in {"Boolean", "Field", "Unknown", "Uint", "Bytes", "Enum", "Tuple", "Vector", "Struct"}
         /\ k.k = "Boolean" => k = Boolean
         /\ k.k = "Field" => k = Field
         /\ k.k = "Unknown" => k = Unknown
         /\ k.k = "Uint" => k.upper \in 1..(TwoTo[WordBits] - 1) \cup {None} /\ k = Uint(k.upper)
         /\ k.k = "Bytes" => k.size \in 0..MaxLength /\ k = Bytes(k.size)
         /\ k.k = "Tuple" => k.elems \in Seq(K) /\ k = Tuple(k.elems)
         /\ k.k = "Vector" => k.size \in 0..MaxLength /\ k.elem \in K /\ k = Vector(k.size, k.elem)
         /\ k.k = "Struct" => k.fields \in Seq([name : STRING, kind : K]) /\ k.name \in STRING
BY DEF KindsOver, Boolean, Field, Unknown, Uint, Bytes, Tuple, Vector

\* A kind is made by the constructor its tag names.
LEMMA KindIs ==
  ASSUME NEW k \in Kind
  PROVE  /\ k.k \in {"Boolean", "Field", "Unknown", "Uint", "Bytes", "Enum", "Tuple", "Vector", "Struct"}
         /\ k.k = "Boolean" => k = Boolean
         /\ k.k = "Field" => k = Field
         /\ k.k = "Unknown" => k = Unknown
         /\ k.k = "Uint" => k.upper \in 1..(TwoTo[WordBits] - 1) \cup {None} /\ k = Uint(k.upper)
         /\ k.k = "Bytes" => k.size \in 0..MaxLength /\ k = Bytes(k.size)
         /\ k.k = "Tuple" => k.elems \in Seq(Kind) /\ k = Tuple(k.elems)
         /\ k.k = "Vector" => k.size \in 0..MaxLength /\ k.elem \in Kind /\ k = Vector(k.size, k.elem)
<1> DEFINE K == IF Deepest = 0 THEN {} ELSE KindUpTo[Deepest - 1]
<1>1. k \in KindsOver(K)
  BY KindUpToHolds, DeepestIsNumber DEF Kind
<1>2. K \subseteq Kind
  BY KindUpToGrows, DeepestIsNumber DEF Kind
<1> HIDE DEF K
<1>3. Seq(K) \subseteq Seq(Kind)
  BY <1>2, SeqGrows
<1> QED BY <1>1, <1>2, <1>3, KindFields

\* The elements of a sequence kind are its parts.
LEMMA KindIsSeq ==
  ASSUME NEW k \in Kind, IsSeqKind(k)
  PROVE  /\ SeqLen(k) \in Nat
         /\ \A i \in 1..SeqLen(k) : SeqElem(k, i) \in Kind /\ \E j \in DOMAIN Parts(k) : SeqElem(k, i) = Parts(k)[j]
<1> DEFINE K == IF Deepest = 0 THEN {} ELSE KindUpTo[Deepest - 1]
<1>1. k \in KindsOver(K)
  BY KindUpToHolds, DeepestIsNumber DEF Kind
<1>2. K \subseteq Kind
  BY KindUpToGrows, DeepestIsNumber DEF Kind
<1> HIDE DEF K
<1> QED BY <1>1, <1>2, PartsMakeSeq

\* No annotation has a number that the widest type does not have.
Narrow(M) == \A m \in M : m[1].k = "Uint" => m[2] \subseteq Numbers(TwoTo[MaxWidth]) \cup Opaque

\* What numbers there are below a bound.
LEMMA NumbersHold ==
  /\ \A m, n : <<"number", n>> \in Numbers(m) <=> n \in 0..(m - 1)
  /\ \A m, n \in Int : m <= n => Numbers(m) \subseteq Numbers(n)
  /\ \A m, n : <<"number", n>> \notin Opaque
BY DEF Numbers, Opaque

\* No number type has values beyond the widest.
LEMMA UintIsNarrow ==
  ASSUME NEW sizes \in Seq(Size), NEW inst, inst.N \in Nat
  PROVE  UintValues(sizes, inst) \subseteq Numbers(TwoTo[MaxWidth]) \cup Opaque
<1> DEFINE n == [i \in DOMAIN sizes |-> SizeOf(sizes[i], inst)]
           widest == TwoTo[MaxWidth]
<1>0. \A m \in Int : m <= widest => Numbers(m) \subseteq Numbers(widest)
  BY Limits, NumbersHold
<1>1. CASE Len(n) = 1 /\ n[1] \in 1..MaxWidth
  <2>1. UintValues(sizes, inst) = Numbers(TwoTo[n[1]])
    BY <1>1 DEF UintValues
  <2> HIDE DEF n
  <2>2. n[1] \in 0..MaxWidth /\ MaxWidth \in 0..MaxWidth
    BY <1>1, Limits
  <2>3. TwoTo[n[1]] \in Nat /\ TwoTo[n[1]] <= widest
    <3>1. n[1] = MaxWidth \/ n[1] \in 0..(MaxWidth - 1)
      BY <2>2
    <3> QED BY <2>2, <3>1, TwoToGrows, TwoToIsNumber
  <2> QED BY <1>0, <2>1, <2>3
<1>2. CASE Len(n) = 2 /\ n[1] = 0 /\ n[2] > 0
  <2>1. UintValues(sizes, inst) = Numbers(IF n[2] < widest THEN n[2] ELSE widest)
    BY <1>2 DEF UintValues
  <2> HIDE DEF n
  <2>2. n[2] \in Int
    <3>1. 2 \in DOMAIN sizes /\ sizes[2] \in Size
      BY <1>2 DEF n
    <3> QED BY <3>1 DEF Size, SizeOf, Param, n
  <2> QED BY <2>1, <2>2, NumbersHold, Limits
<1>3. CASE ~(Len(n) = 1 /\ n[1] \in 1..MaxWidth) /\ ~(Len(n) = 2 /\ n[1] = 0 /\ n[2] > 0)
  BY <1>3 DEF UintValues
<1> QED BY <1>1, <1>2, <1>3

\* Only a number type is lowered to one.
LEMMA LoweredIsUint ==
  ASSUME NEW t \in Annotation, TypeNodeKind[t].k = "Uint"
  PROVE  t.k = "Uint" /\ t.sizes \in Seq(Size) /\ Len(t.sizes) \in 1..2 /\ TypeNodeKind[t] = UintBound(t.sizes)
<1> DEFINE kinds == [i \in DOMAIN Parts(t) |-> TypeNodeKind[Parts(t)[i]]]
<1>1. TypeNodeKind[t] = AnnotationKind(t, kinds)
  BY TypeNodeKindHolds
<1> HIDE DEF kinds
<1>2. t.k = "Uint" /\ TypeNodeKind[t] = UintBound(t.sizes)
  BY <1>1 DEF AnnotationKind, Bytes, Tuple, Vector, Unknown
<1> QED BY <1>2, AnnotationIs

\* Lowered number types are no wider than the widest.
LEMMA TypesAreNarrow ==
  ASSUME NEW d, NEW inst \in Instantiations
  PROVE  Narrow(TypeMeanings(d, inst))
<1> SUFFICES ASSUME NEW t \in Annotation, TypeNodeKind[t].k = "Uint"
             PROVE  Values(d, t, inst) \subseteq Numbers(TwoTo[MaxWidth]) \cup Opaque
  <2>1. \A m \in TypeMeanings(d, inst) : \E t \in Annotation :
          m[1] = TypeNodeKind[t] /\ m[2] = Values(d, t, inst)
    BY DEF TypeMeanings
  <2> QED BY <2>1 DEF Narrow
<1>1. t.k = "Uint" /\ t.sizes \in Seq(Size)
  BY LoweredIsUint
<1>2. Values(d, t, inst) = UintValues(t.sizes, inst)
  BY <1>1, ValuesHolds DEF AnnotationValues
<1> QED BY <1>1, <1>2, UintIsNarrow, MeaningAssumption

(* What is rejected has a value that the other kind does not have. *)
LEMMA Rejection ==
  ASSUME NEW M1, Sound(M1), Numbered(M1), NEW M2, Sound(M2), Narrow(M2)
  PROVE  \A m1 \in M1, m2 \in M2 : ~IsSubtype(m1[1], m2[1]) => ~(m1[2] \subseteq m2[2])
<1> DEFINE Right(k) == \A m1 \in M1, m2 \in M2 :
                         m1[1] = k /\ ~IsSubtype(k, m2[1]) => ~(m1[2] \subseteq m2[2])
           S == {k \in Kind : Right(k)}
<1>1. ASSUME NEW k \in Kind, \A i \in DOMAIN Parts(k) : Parts(k)[i] \in S
      PROVE  k \in S
  <2> SUFFICES ASSUME NEW m1 \in M1, NEW m2 \in M2, m1[1] = k, ~IsSubtype(k, m2[1]),
                      m1[2] \subseteq m2[2]
               PROVE  FALSE
    OBVIOUS
  <2> DEFINE sup == m2[1]
             V1 == m1[2]
             V2 == m2[2]
  <2>1. Fits(k, V1, M1) /\ Fits(sup, V2, M2) /\ Large(k, V1) /\ sup \in Kind
    BY DEF Sound, Numbered, Fits
  <2>2. /\ k # Unknown /\ sup # Unknown
        /\ ~(k = sup /\ k.k \in {"Boolean", "Field"})
        /\ ~(k.k = "Uint" /\ sup.k = "Field")
        /\ ~(k.k = "Uint" /\ sup.k = "Uint" /\ UintUpperLe(k.upper, sup.upper))
        /\ ~(k.k = "Bytes" /\ sup.k = "Bytes" /\ k.size = sup.size)
        /\ ~(/\ IsSeqKind(k) /\ IsSeqKind(sup)
             /\ SeqLen(k) = SeqLen(sup)
             /\ \A i \in 1..SeqLen(k) : SeqElem(sup, i) \in Supertypes[SeqElem(k, i)])
    BY <2>1, SupertypesHolds DEF IsSubtype
  <2>3. sup.k = "Uint" => V2 \subseteq Numbers(TwoTo[MaxWidth]) \cup Opaque
    BY DEF Narrow
  <2>0. V1 \subseteq V2
    OBVIOUS
  <2>4. PICK v \in V1 : v \in V2
    BY <2>1 DEF Fits
  <2> HIDE DEF sup, V1, V2
  <2>5. k.k \in {"Boolean", "Field", "Uint", "Bytes"} \/ IsSeqKind(k)
    BY <2>1, <2>2, KindIs DEF Fits, IsSeqKind
  <2>6. sup.k \in {"Boolean", "Field", "Uint", "Bytes"} \/ IsSeqKind(sup)
    BY <2>1, <2>2, KindIs DEF Fits, IsSeqKind
  <2>7. /\ k.k = "Boolean" => v[1] = "boolean"
        /\ k.k \in {"Field", "Uint"} => v[1] = "number"
        /\ k.k = "Bytes" => v[1] = "bytes"
        /\ IsSeqKind(k) => v[1] = "sequence"
    BY <2>1, <2>4 DEF Fits, Large, Booleans, Numbers, SequencesOf
  <2>8. /\ sup.k = "Boolean" => v[1] = "boolean"
        /\ sup.k = "Field" => v[1] = "number"
        /\ sup.k = "Uint" => v[1] \in {"number", "opaque"}
        /\ sup.k = "Bytes" => v[1] = "bytes"
        /\ IsSeqKind(sup) => v[1] = "sequence"
    BY <2>1, <2>3, <2>4 DEF Fits, Booleans, Numbers, SequencesOf, Opaque
  <2>9. CASE k.k = "Boolean"
    BY <2>1, <2>2, <2>6, <2>7, <2>8, <2>9, KindIs DEF IsSeqKind
  <2>10. CASE k.k = "Field"
    <3>1. sup.k = "Uint"
      BY <2>1, <2>2, <2>6, <2>7, <2>8, <2>10, KindIs DEF IsSeqKind
    <3>2. V1 = Numbers(FieldSize) /\ V1 \subseteq Numbers(TwoTo[MaxWidth]) \cup Opaque
      BY <2>0, <2>1, <2>3, <2>10, <3>1 DEF Fits
    <3>3. <<"number", FieldSize - 1>> \in V1
      BY <3>2, Limits, NumbersHold
    <3> QED BY <3>2, <3>3, Limits, NumbersHold
  <2>11. CASE k.k = "Uint"
    <3>1. sup.k = "Uint" /\ ~UintUpperLe(k.upper, sup.upper)
      BY <2>1, <2>2, <2>6, <2>7, <2>8, <2>11, KindIs DEF IsSeqKind
    <3>2. sup.upper # None /\ (k.upper = None \/ ~(k.upper <= sup.upper))
      BY <3>1 DEF UintUpperLe
    <3>3. sup.upper \in 1..(TwoTo[WordBits] - 1)
      BY <2>1, <3>1, <3>2, KindIs
    <3>4. V2 = Numbers(sup.upper)
      BY <2>1, <3>1, <3>2 DEF Fits
    <3>5. PICK n \in Nat : n > sup.upper /\ V1 = Numbers(n)
      <4>1. CASE k.upper = None
        BY <2>1, <2>11, <3>3, <4>1, Limits DEF Large
      <4>2. CASE k.upper # None
        <5>1. k.upper \in 1..(TwoTo[WordBits] - 1)
          BY <2>11, <4>2, KindIs
        <5>2. V1 = Numbers(k.upper)
          BY <2>1, <2>11, <4>2 DEF Fits
        <5> QED BY <3>2, <3>3, <4>2, <5>1, <5>2, Limits
      <4> QED BY <4>1, <4>2
    <3>6. <<"number", n - 1>> \in V1
      BY <3>3, <3>5, Limits, NumbersHold
    <3> QED BY <2>0, <3>3, <3>4, <3>5, <3>6, Limits, NumbersHold
  <2>12. CASE k.k = "Bytes"
    <3>1. sup.k = "Bytes" /\ k.size # sup.size
      BY <2>1, <2>2, <2>6, <2>7, <2>8, <2>12, KindIs DEF IsSeqKind
    <3> QED BY <2>1, <2>4, <2>12, <3>1 DEF Fits
  <2>13. CASE IsSeqKind(k)
    <3>1. IsSeqKind(sup)
      BY <2>6, <2>7, <2>8, <2>13
    <3>2. PICK A : /\ DOMAIN A = 1..SeqLen(k) /\ V1 = SequencesOf(A)
                   /\ \A i \in 1..SeqLen(k) : <<SeqElem(k, i), A[i]>> \in M1
      BY <2>1, <2>13 DEF Fits
    <3>3. PICK B : /\ DOMAIN B = 1..SeqLen(sup) /\ V2 = SequencesOf(B)
                   /\ \A i \in 1..SeqLen(sup) : <<SeqElem(sup, i), B[i]>> \in M2
      BY <2>1, <3>1 DEF Fits
    <3>4. \A i \in DOMAIN A : A[i] # {}
      <4> SUFFICES ASSUME NEW i \in DOMAIN A PROVE A[i] # {}
        OBVIOUS
      <4>1. <<SeqElem(k, i), A[i]>> \in M1
        BY <3>2
      <4>2. Fits(SeqElem(k, i), A[i], M1)
        BY <4>1 DEF Sound
      <4> QED BY <4>2 DEF Fits
    <3>5. DOMAIN A = DOMAIN B /\ \A i \in DOMAIN A : A[i] \subseteq B[i]
      BY <2>0, <3>2, <3>3, <3>4, SequencesCompare
    <3>6. SeqLen(k) \in Nat /\ SeqLen(sup) \in Nat
      BY <2>1, <2>13, <3>1, KindIsSeq
    <3>7. SeqLen(k) = SeqLen(sup)
      <4>1. \A a, b \in Nat : 1..a = 1..b => a = b
        <5> SUFFICES ASSUME NEW a \in Nat, NEW b \in Nat, 1..a = 1..b PROVE a = b
          OBVIOUS
        <5>1. (a \in 1..a <=> a # 0) /\ (b \in 1..b <=> b # 0)
          OBVIOUS
        <5> QED BY <5>1
      <4> QED BY <3>2, <3>3, <3>5, <3>6, <4>1
    <3>8. PICK i \in 1..SeqLen(k) : SeqElem(sup, i) \notin Supertypes[SeqElem(k, i)]
      BY <2>2, <2>13, <3>1, <3>7
    <3>9. <<SeqElem(k, i), A[i]>> \in M1 /\ <<SeqElem(sup, i), B[i]>> \in M2 /\ A[i] \subseteq B[i]
      BY <3>2, <3>3, <3>5, <3>7
    <3>10. SeqElem(k, i) \in S
      BY <1>1, <2>13, KindIsSeq
    <3>11. Right(SeqElem(k, i))
      BY <3>10
    <3>12. ~IsSubtype(SeqElem(k, i), SeqElem(sup, i))
      BY <3>8 DEF IsSubtype
    <3>13. ASSUME NEW a \in M1, NEW b \in M2, a[1] = SeqElem(k, i), ~IsSubtype(SeqElem(k, i), b[1])
           PROVE  ~(a[2] \subseteq b[2])
      BY <3>11, <3>13
    <3> QED BY <3>9, <3>12, <3>13
  <2> QED BY <2>5, <2>9, <2>10, <2>11, <2>12, <2>13
<1>2. Kind \subseteq S
  <2> HIDE DEF S
  <2> QED BY <1>1, KindInduction
<1> SUFFICES ASSUME NEW m1 \in M1, NEW m2 \in M2, ~IsSubtype(m1[1], m2[1]) PROVE ~(m1[2] \subseteq m2[2])
  OBVIOUS
<1>3. m1[1] \in Kind
  BY DEF Sound, Fits
<1>4. Right(m1[1])
  BY <1>2, <1>3
<1> QED BY <1>4

\* The parts of an exact kind are exact.
LEMMA ExactParts ==
  ASSUME NEW k \in Kind, IsExact(k)
  PROVE  /\ k.k = "Uint" => k.upper # None
         /\ k.k \in {"Uint", "Boolean", "Field", "Bytes", "Tuple", "Vector"}
         /\ \A i \in DOMAIN Parts(k) : IsExact(Parts(k)[i])
<1>1. k \in SubTypes[k] /\ \A i \in DOMAIN Parts(k) : SubTypes[Parts(k)[i]] \subseteq SubTypes[k]
  BY SubTypesHolds
<1> QED BY <1>1 DEF IsExact

\* An exact kind has one of the plain tags.
LEMMA ExactIs ==
  ASSUME NEW k \in Kind,
         IF k.k = "Uint" THEN k.upper # None
                         ELSE k.k \in {"Boolean", "Field", "Bytes", "Tuple", "Vector"},
         \A i \in DOMAIN Parts(k) : IsExact(Parts(k)[i])
  PROVE  IsExact(k)
<1>1. SubTypes[k] = {k} \cup UNION {SubTypes[Parts(k)[i]] : i \in DOMAIN Parts(k)}
  BY SubTypesHolds
<1> QED BY <1>1 DEF IsExact

\* The bound of an exact number type is kept.
LEMMA ExactUint ==
  ASSUME NEW k \in Kind, k.k = "Uint", k.upper # None
  PROVE  IsExact(k)
<1>1. DOMAIN Parts(k) = {}
  BY DEF Parts
<1> QED BY <1>1, ExactIs

\* A kind that is neither number type nor sequence is exact by its tag.
LEMMA ExactPlain ==
  ASSUME NEW k \in Kind, k.k = "Boolean" \/ k.k = "Field" \/ k.k = "Bytes"
  PROVE  IsExact(k)
<1>1. DOMAIN Parts(k) = {} /\ k.k # "Uint"
  BY DEF Parts
<1> QED BY <1>1, ExactIs

(* What is accepted of kinds that are exact has no value that the other kind does not have. *)
LEMMA Acceptance ==
  ASSUME NEW M1, Sound(M1), NEW M2, Sound(M2)
  PROVE  \A m1 \in M1, m2 \in M2 :
           IsExact(m1[1]) /\ IsExact(m2[1]) /\ IsSubtype(m1[1], m2[1]) => m1[2] \subseteq m2[2]
<1> DEFINE Right(k) == \A m1 \in M1, m2 \in M2 :
                         m1[1] = k /\ IsExact(k) /\ IsExact(m2[1]) /\ IsSubtype(k, m2[1])
                           => m1[2] \subseteq m2[2]
           S == {k \in Kind : Right(k)}
<1>1. ASSUME NEW k \in Kind, \A i \in DOMAIN Parts(k) : Parts(k)[i] \in S
      PROVE  k \in S
  <2> SUFFICES ASSUME NEW m1 \in M1, NEW m2 \in M2, m1[1] = k, IsExact(k), IsExact(m2[1]),
                      IsSubtype(k, m2[1])
               PROVE  m1[2] \subseteq m2[2]
    OBVIOUS
  <2> DEFINE sup == m2[1]
             V1 == m1[2]
             V2 == m2[2]
  <2>1. Fits(k, V1, M1) /\ Fits(sup, V2, M2) /\ sup \in Kind
    BY DEF Sound, Fits
  <2>2. /\ k.k = "Uint" => k.upper # None
        /\ k.k \in {"Uint", "Boolean", "Field", "Bytes", "Tuple", "Vector"}
        /\ sup.k = "Uint" => sup.upper # None
        /\ sup.k \in {"Uint", "Boolean", "Field", "Bytes", "Tuple", "Vector"}
    BY <2>1, ExactParts
  <2>3. \/ Unknown \in {k, sup}
        \/ k = sup /\ k.k \in {"Boolean", "Field"}
        \/ k.k = "Uint" /\ sup.k = "Field"
        \/ k.k = "Uint" /\ sup.k = "Uint" /\ UintUpperLe(k.upper, sup.upper)
        \/ k.k = "Bytes" /\ sup.k = "Bytes" /\ k.size = sup.size
        \/ /\ IsSeqKind(k) /\ IsSeqKind(sup)
           /\ SeqLen(k) = SeqLen(sup)
           /\ \A i \in 1..SeqLen(k) : SeqElem(sup, i) \in Supertypes[SeqElem(k, i)]
        \/ k.k \in {"Struct", "Enum"}
    BY SupertypesHolds DEF IsSubtype
  <2>0. IsExact(sup) /\ IsExact(k)
    OBVIOUS
  <2> HIDE DEF sup, V1, V2
  <2>4. CASE k = sup /\ k.k \in {"Boolean", "Field"}
    BY <2>1, <2>4 DEF Fits, V1, V2
  <2>5. CASE k.k = "Uint" /\ sup.k = "Field"
    <3>1. k.upper \in 1..(TwoTo[WordBits] - 1)
      BY <2>2, <2>5, KindIs
    <3>2. V1 = Numbers(k.upper) /\ V2 = Numbers(FieldSize)
      BY <2>1, <2>2, <2>5 DEF Fits
    <3>3. V1 \subseteq V2
      BY <3>1, <3>2, Limits, NumbersHold
    <3> QED BY <3>3 DEF V1, V2
  <2>6. CASE k.k = "Uint" /\ sup.k = "Uint" /\ UintUpperLe(k.upper, sup.upper)
    <3>1. k.upper \in 1..(TwoTo[WordBits] - 1) /\ sup.upper \in 1..(TwoTo[WordBits] - 1)
      BY <2>1, <2>2, <2>6, KindIs
    <3>2. V1 = Numbers(k.upper) /\ V2 = Numbers(sup.upper)
      BY <2>1, <2>2, <2>6 DEF Fits
    <3>3. k.upper <= sup.upper
      BY <2>2, <2>6 DEF UintUpperLe
    <3>4. V1 \subseteq V2
      BY <3>1, <3>2, <3>3, Limits, NumbersHold
    <3> QED BY <3>4 DEF V1, V2
  <2>7. CASE k.k = "Bytes" /\ sup.k = "Bytes" /\ k.size = sup.size
    BY <2>1, <2>7 DEF Fits, V1, V2
  <2>8. CASE /\ IsSeqKind(k) /\ IsSeqKind(sup)
             /\ SeqLen(k) = SeqLen(sup)
             /\ \A i \in 1..SeqLen(k) : SeqElem(sup, i) \in Supertypes[SeqElem(k, i)]
    <3>2. PICK A : /\ DOMAIN A = 1..SeqLen(k) /\ V1 = SequencesOf(A)
                   /\ \A i \in 1..SeqLen(k) : <<SeqElem(k, i), A[i]>> \in M1
      BY <2>1, <2>8 DEF Fits
    <3>3. PICK B : /\ DOMAIN B = 1..SeqLen(sup) /\ V2 = SequencesOf(B)
                   /\ \A i \in 1..SeqLen(sup) : <<SeqElem(sup, i), B[i]>> \in M2
      BY <2>1, <2>8 DEF Fits
    <3>4. ASSUME NEW i \in DOMAIN A PROVE A[i] \subseteq B[i]
      <4>1. i \in 1..SeqLen(k) /\ i \in 1..SeqLen(sup)
        BY <2>8, <3>2
      <4>2. <<SeqElem(k, i), A[i]>> \in M1 /\ <<SeqElem(sup, i), B[i]>> \in M2
        BY <3>2, <3>3, <4>1
      <4>3. SeqElem(k, i) \in S /\ IsExact(SeqElem(k, i))
        BY <1>1, <2>0, <2>8, <4>1, KindIsSeq, ExactParts
      <4>4. IsExact(SeqElem(sup, i))
        BY <2>0, <2>1, <2>8, <4>1, KindIsSeq, ExactParts
      <4>5. IsSubtype(SeqElem(k, i), SeqElem(sup, i))
        BY <2>8, <4>1 DEF IsSubtype
      <4>6. Right(SeqElem(k, i))
        BY <4>3
      <4>7. ASSUME NEW a \in M1, NEW b \in M2, a[1] = SeqElem(k, i), IsExact(b[1]),
                   IsSubtype(SeqElem(k, i), b[1])
            PROVE  a[2] \subseteq b[2]
        BY <4>3, <4>6, <4>7
      <4> QED BY <4>2, <4>4, <4>5, <4>7
    <3>5. DOMAIN A = DOMAIN B
      BY <2>8, <3>2, <3>3
    <3>6. V1 \subseteq V2
      BY <3>2, <3>3, <3>4, <3>5, SequencesGrow
    <3> QED BY <3>6 DEF V1, V2
  <2>9. k # Unknown /\ sup # Unknown
    BY <2>2 DEF Unknown
  <2> QED BY <2>2, <2>3, <2>4, <2>5, <2>6, <2>7, <2>8, <2>9
<1>2. Kind \subseteq S
  <2> HIDE DEF S
  <2> QED BY <1>1, KindInduction
<1> SUFFICES ASSUME NEW m1 \in M1, NEW m2 \in M2, IsExact(m1[1]), IsExact(m2[1]), IsSubtype(m1[1], m2[1])
             PROVE  m1[2] \subseteq m2[2]
  OBVIOUS
<1>3. m1[1] \in Kind
  BY DEF Sound, Fits
<1>4. Right(m1[1])
  BY <1>2, <1>3
<1> QED BY <1>4

(* What the checker claims to model has a kind that says all. *)
LEMMA ModelledIsExact ==
  \A t \in Annotation : Modelled(t) => IsExact(TypeNodeKind[t])
<1> DEFINE S == {t \in Annotation : Modelled(t) => IsExact(TypeNodeKind[t])}
<1>1. ASSUME NEW t \in Annotation, \A i \in DOMAIN Parts(t) : Parts(t)[i] \in S
      PROVE  t \in S
  <2> SUFFICES ASSUME Modelled(t) PROVE IsExact(TypeNodeKind[t])
    OBVIOUS
  <2> DEFINE kinds == [i \in DOMAIN Parts(t) |-> TypeNodeKind[Parts(t)[i]]]
  <2>1. TypeNodeKind[t] = AnnotationKind(t, kinds)
    BY TypeNodeKindHolds
  <2>2. TypeNodeKind[t] \in Kind
    BY TypeNodeKindIsKind
  <2>3. t \in SubTypes[t] /\ \A i \in DOMAIN Parts(t) : SubTypes[Parts(t)[i]] \subseteq SubTypes[t]
    BY SubTypesHolds
  <2>4. \A i \in DOMAIN Parts(t) : Modelled(Parts(t)[i])
    BY <2>3 DEF Modelled
  <2>5. DOMAIN kinds = DOMAIN Parts(t) /\ \A i \in DOMAIN Parts(t) : IsExact(kinds[i])
    BY <1>1, <2>4
  <2> HIDE DEF kinds
  <2>6. /\ t.k = "Uint" => \/ Len(t.sizes) = 1 /\ t.sizes[1] \in 1..(WordBits - 1)
                           \/ Len(t.sizes) = 2 /\ t.sizes[1] = 0 /\ t.sizes[2] \in 1..(TwoTo[WordBits] - 1)
        /\ t.k \in {"Bytes", "Vector"} => t.size \in 0..MaxLength
        /\ t.k \in {"Uint", "Bytes", "Vector", "Boolean", "Field", "Tuple"}
    BY <2>3 DEF Modelled
  <2>7. CASE t.k = "Uint"
    <3>1. TypeNodeKind[t] = UintBound(t.sizes)
      BY <2>1, <2>7 DEF AnnotationKind
    <3>2. \E u : u # None /\ UintBound(t.sizes) = Uint(u)
      <4>1. CASE Len(t.sizes) = 1 /\ t.sizes[1] \in 1..(WordBits - 1)
        <5>1. t.sizes[1] \in 1..MaxWidth /\ t.sizes[1] < WordBits /\ t.sizes[1] < TwoTo[WordBits]
          BY <4>1, Limits
        <5>2. ParseIntLiteral(t.sizes[1]) = t.sizes[1]
          BY <5>1, Limits DEF ParseIntLiteral
        <5>3. UintBound(t.sizes) = Uint(TwoTo[t.sizes[1]])
          BY <4>1, <5>1, <5>2, Limits DEF UintBound
        <5>4. TwoTo[t.sizes[1]] \in Nat
          BY <5>1, TwoToIsNumber, Limits
        <5> QED BY <5>3, <5>4 DEF None
      <4>2. CASE Len(t.sizes) = 2 /\ t.sizes[1] = 0 /\ t.sizes[2] \in 1..(TwoTo[WordBits] - 1)
        <5>1. ParseIntLiteral(t.sizes[1]) = 0 /\ ParseIntLiteral(t.sizes[2]) = t.sizes[2]
          BY <4>2, Limits DEF ParseIntLiteral
        <5>2. UintBound(t.sizes) = Uint(t.sizes[2])
          BY <4>2, <5>1, Limits DEF UintBound
        <5> QED BY <4>2, <5>2, Limits DEF None
      <4> QED BY <2>6, <2>7, <4>1, <4>2
    <3>3. TypeNodeKind[t].k = "Uint" /\ TypeNodeKind[t].upper # None
      BY <3>1, <3>2 DEF Uint
    <3> QED BY <2>2, <3>3, ExactUint
  <2>8. CASE t.k = "Tuple"
    <3>1. TypeNodeKind[t] = Tuple(kinds)
      BY <2>1, <2>8 DEF AnnotationKind
    <3>2. Parts(TypeNodeKind[t]) = kinds /\ TypeNodeKind[t].k = "Tuple"
      BY <3>1 DEF Parts, Tuple
    <3> QED BY <2>2, <2>5, <3>2, ExactIs
  <2>9. CASE t.k = "Vector"
    <3>1. t.size \in 0..MaxLength /\ IsLength(t.size)
      BY <2>6, <2>9, Limits DEF IsLength, ParseIntLiteral
    <3>2. TypeNodeKind[t] = Vector(t.size, kinds[1])
      BY <2>1, <2>9, <3>1 DEF AnnotationKind
    <3>3. Parts(TypeNodeKind[t]) = <<kinds[1]>> /\ TypeNodeKind[t].k = "Vector"
      BY <3>2 DEF Parts, Vector
    <3>4. Parts(t) = <<t.elem>>
      BY <2>9, AnnotationIs
    <3>5. \A i \in DOMAIN <<kinds[1]>> : IsExact(<<kinds[1]>>[i])
      BY <2>5, <3>4
    <3> QED BY <2>2, <3>3, <3>5, ExactIs
  <2>10. CASE t.k = "Bytes"
    <3>1. t.size \in 0..MaxLength /\ IsLength(t.size)
      BY <2>6, <2>10, Limits DEF IsLength, ParseIntLiteral
    <3>2. TypeNodeKind[t] = Bytes(t.size)
      BY <2>1, <2>10, <3>1 DEF AnnotationKind
    <3>3. TypeNodeKind[t].k = "Bytes"
      BY <3>2 DEF Bytes
    <3> QED BY <2>2, <3>3, ExactPlain
  <2>11. CASE t.k \in {"Boolean", "Field"}
    <3>1. TypeNodeKind[t] = t
      BY <2>1, <2>11 DEF AnnotationKind
    <3>2. TypeNodeKind[t].k = "Boolean" \/ TypeNodeKind[t].k = "Field"
      BY <2>11, <3>1
    <3> QED BY <2>2, <3>2, ExactPlain
  <2> QED BY <2>6, <2>7, <2>8, <2>9, <2>10, <2>11
<1>2. Annotation \subseteq S
  <2> HIDE DEF S
  <2> QED BY <1>1, AnnotationInduction
<1> QED BY <1>2

\* The kind of an expression that is modelled is exact.
LEMMA ModelledExprIsExact ==
  \A e \in Expr : ModelledExpr(e) => IsExact(ExprTyKind[e])
<1> DEFINE S == {e \in Expr : ModelledExpr(e) => IsExact(ExprTyKind[e])}
<1>1. ASSUME NEW e \in Expr, \A i \in DOMAIN Operands(e) : Operands(e)[i] \in S
      PROVE  e \in S
  <2> SUFFICES ASSUME ModelledExpr(e) PROVE IsExact(ExprTyKind[e])
    OBVIOUS
  <2> DEFINE kinds == [i \in DOMAIN Operands(e) |-> ExprTyKind[Operands(e)[i]]]
  <2>1. ExprTyKind[e] = ExprKind(e, kinds)
    BY ExprTyKindHolds
  <2>2. ExprTyKind[e] \in Kind
    BY ExprTyKindIsKind
  <2>3. e \in SubExprs[e] /\ \A i \in DOMAIN Operands(e) : SubExprs[Operands(e)[i]] \subseteq SubExprs[e]
    BY SubExprsHolds
  <2>4. \A i \in DOMAIN Operands(e) : ModelledExpr(Operands(e)[i])
    BY <2>3 DEF ModelledExpr
  <2>5. DOMAIN kinds = DOMAIN Operands(e) /\ \A i \in DOMAIN Operands(e) : IsExact(kinds[i])
    BY <1>1, <2>4
  <2> HIDE DEF kinds
  <2>6. \/ e.k = "bool"
        \/ e.k = "int" /\ e.n + 1 < TwoTo[WordBits]
        \/ e.k = "cast" /\ Modelled(e.ty)
        \/ e.k = "array"
    <3>1. \A x \in SubExprs[e] : \/ x.k = "bool"
                                 \/ x.k = "int" /\ x.n + 1 < TwoTo[WordBits]
                                 \/ x.k = "cast" /\ Modelled(x.ty)
                                 \/ x.k = "array"
      BY DEF ModelledExpr
    <3> QED BY <2>3, <3>1
  <2>7. CASE e.k = "bool"
    <3>1. ExprTyKind[e] = Boolean
      BY <2>1, <2>7 DEF ExprKind, LiteralTyKind
    <3>2. ExprTyKind[e].k = "Boolean"
      BY <3>1 DEF Boolean
    <3> QED BY <2>2, <3>2, ExactPlain
  <2>8. CASE e.k = "int" /\ e.n + 1 < TwoTo[WordBits]
    <3>1. e.n \in Nat
      BY <2>8, ExprIs
    <3>2. ExprTyKind[e] = Uint(e.n + 1) /\ e.n + 1 # None
      <4>1. ParseIntLiteral(e.n) = e.n /\ ParseIntLiteral(e.n + 1) = e.n + 1 /\ e.n # None /\ e.n + 1 # None
        BY <2>8, <3>1, Limits DEF ParseIntLiteral, None
      <4> QED BY <2>1, <2>8, <4>1 DEF ExprKind, LiteralTyKind
    <3>3. ExprTyKind[e].k = "Uint" /\ ExprTyKind[e].upper # None
      BY <3>2 DEF Uint
    <3> QED BY <2>2, <3>3, ExactUint
  <2>9. CASE e.k = "cast" /\ Modelled(e.ty)
    <3>1. ExprTyKind[e] = TypeNodeKind[e.ty]
      BY <2>1, <2>9 DEF ExprKind
    <3> QED BY <2>9, <3>1, ExprIs, WrittenHolds, ModelledIsExact
  <2>10. CASE e.k = "array"
    <3>1. Operands(e) = e.elems
      BY <2>10, ExprIs
    <3>2. ~HasSpread(e.elems)
      <4> SUFFICES ASSUME NEW i \in DOMAIN e.elems, e.elems[i].k = "spread" PROVE FALSE
        BY DEF HasSpread
      <4>1. e.elems[i] \in Expr
        BY <3>1, PartsStay
      <4>2. e.elems[i] \in SubExprs[e.elems[i]]
        BY <4>1, SubExprsHolds
      <4> QED BY <2>4, <3>1, <4>2 DEF ModelledExpr
    <3>3. ExprTyKind[e] = Tuple(kinds)
      BY <2>1, <2>10, <3>2 DEF ExprKind
    <3>4. Parts(ExprTyKind[e]) = kinds /\ ExprTyKind[e].k = "Tuple"
      BY <3>3 DEF Parts, Tuple
    <3> QED BY <2>2, <2>5, <3>4, ExactIs
  <2> QED BY <2>6, <2>7, <2>8, <2>9, <2>10
<1>2. Expr \subseteq S
  <2> HIDE DEF S
  <2> QED BY <1>1, ExprInduction
<1> QED BY <1>2

(* A cast that is rejected reads no value. *)
LEMMA CastHolds ==
  ASSUME NEW k1, NEW V1, NEW M1, Fits(k1, V1, M1), NEW k2, NEW V2, NEW M2, Fits(k2, V2, M2), ~CanCast(k1, k2)
  PROVE  Uncastable(V1, V2)
<1> DEFINE Of(set, tag) == set # {} /\ \A v \in set : v[1] = tag
<1>1. /\ k1.k = "Boolean" => Of(V1, "boolean")
      /\ k2.k = "Boolean" => Of(V2, "boolean")
      /\ k1.k = "Bytes" => Of(V1, "bytes") /\ V1 = {<<"bytes", k1.size>>}
      /\ k2.k = "Bytes" => Of(V2, "bytes") /\ V2 = {<<"bytes", k2.size>>}
  BY DEF Fits, Booleans
<1>2. {k1.k, k2.k} = {"Boolean", "Bytes"} \/ (k1.k = "Bytes" /\ k2.k = "Bytes" /\ k1.size # k2.size)
  BY DEF CanCast
<1>3. CASE {k1.k, k2.k} = {"Boolean", "Bytes"}
  <2>0. "Boolean" \in {k1.k, k2.k} /\ "Bytes" \in {k1.k, k2.k}
    BY <1>3
  <2>1. CASE k1.k = "Boolean"
    <3>1. k2.k = "Bytes"
      BY <2>0, <2>1
    <3> QED BY <1>1, <2>1, <3>1 DEF Uncastable
  <2>2. CASE k2.k = "Boolean"
    <3>1. k1.k = "Bytes"
      BY <2>0, <2>2
    <3> QED BY <1>1, <2>2, <3>1 DEF Uncastable
  <2> QED BY <2>0, <2>1, <2>2
<1>4. CASE k1.k = "Bytes" /\ k2.k = "Bytes" /\ k1.size # k2.size
  <2>1. V1 \cap V2 = {}
    BY <1>1, <1>4
  <2> QED BY <1>1, <1>4, <2>1 DEF Uncastable
<1> QED BY <1>2, <1>3, <1>4

-----------------------------------------------------------------------------
(* The expressions of a declaration.                                       *)

\* The parts of an expression of the program are expressions of the program.
LEMMA SubExprsStay ==
  \A e \in Expr : SubExprs[e] \subseteq Expr /\ \A x \in SubExprs[e] : SubExprs[x] \subseteq SubExprs[e]
<1> DEFINE Right(e) == SubExprs[e] \subseteq Expr /\ \A x \in SubExprs[e] : SubExprs[x] \subseteq SubExprs[e]
           S == {e \in Expr : Right(e)}
<1>1. ASSUME NEW e \in Expr, \A i \in DOMAIN Operands(e) : Operands(e)[i] \in S
      PROVE  e \in S
  <2>1. SubExprs[e] = {e} \cup UNION {SubExprs[Operands(e)[i]] : i \in DOMAIN Operands(e)}
    BY SubExprsHolds
  <2>2. \A i \in DOMAIN Operands(e) : SubExprs[Operands(e)[i]] \subseteq SubExprs[e]
    BY <2>1
  <2>3. ASSUME NEW x \in SubExprs[e] PROVE x \in Expr /\ SubExprs[x] \subseteq SubExprs[e]
    <3>1. CASE x = e
      BY <3>1
    <3>2. CASE x # e
      <4>1. PICK i \in DOMAIN Operands(e) : x \in SubExprs[Operands(e)[i]]
        BY <2>1, <3>2
      <4>2. Right(Operands(e)[i])
        BY <1>1
      <4>3. x \in Expr /\ SubExprs[x] \subseteq SubExprs[Operands(e)[i]]
        BY <4>1, <4>2
      <4> QED BY <2>2, <4>3
    <3> QED BY <3>1, <3>2
  <2> QED BY <2>3
<1>2. Expr \subseteq S
  <2> HIDE DEF S
  <2> QED BY <1>1, ExprInduction
<1> QED BY <1>2

\* An expression of a declaration lies in one of its statements, with all its parts.
LEMMA ExprsOfHold ==
  ASSUME NEW d \in Declaration, NEW x \in ExprsOf(d)
  PROVE  /\ x[1] \in DOMAIN d.body /\ x[2] \in Expr /\ x = <<x[1], x[2]>>
         /\ \A y \in SubExprs[x[2]] : <<x[1], y>> \in ExprsOf(d)
         /\ \A i \in DOMAIN Operands(x[2]) : <<x[1], Operands(x[2])[i]>> \in ExprsOf(d)
<1>1. PICK s \in DOMAIN d.body : x \in {s} \X SubExprs[d.body[s].value]
  BY DEF ExprsOf
<1>2. x[1] = s /\ x[2] \in SubExprs[d.body[s].value] /\ x = <<x[1], x[2]>>
  BY <1>1
<1>3. d.body[s].value \in Expr
  BY DeclarationHolds
<1>4. x[2] \in Expr /\ SubExprs[x[2]] \subseteq SubExprs[d.body[s].value]
  BY <1>2, <1>3, SubExprsStay
<1>5. \A y \in SubExprs[x[2]] : <<s, y>> \in ExprsOf(d)
  BY <1>4 DEF ExprsOf
<1>6. \A i \in DOMAIN Operands(x[2]) : Operands(x[2])[i] \in SubExprs[x[2]]
  <2> SUFFICES ASSUME NEW i \in DOMAIN Operands(x[2]) PROVE Operands(x[2])[i] \in SubExprs[x[2]]
    OBVIOUS
  <2>1. Operands(x[2])[i] \in Expr
    BY <1>4, PartsStay
  <2>2. Operands(x[2])[i] \in SubExprs[Operands(x[2])[i]]
    BY <2>1, SubExprsHolds
  <2> QED BY <1>4, <2>2, SubExprsHolds
<1> QED BY <1>2, <1>4, <1>5, <1>6

\* The value of a statement is an expression of its declaration.
LEMMA ValueIsOf ==
  ASSUME NEW d \in Declaration, NEW s \in DOMAIN d.body
  PROVE  <<s, d.body[s].value>> \in ExprsOf(d)
<1>1. d.body[s].value \in SubExprs[d.body[s].value]
  BY DeclarationHolds, SubExprsHolds
<1> QED BY <1>1 DEF ExprsOf

-----------------------------------------------------------------------------
(* Every diagnostic is real.                                               *)

(* What the checker does not let stand for annotation t is not among its values. *)
LEMMA MisfitHolds ==
  ASSUME WellFormed(program), NumberedBounds(program), NEW i \in DOMAIN program.decls,
         NEW d, d = Decl(i), NEW s, NEW e, <<s, e>> \in ExprsOf(d), NEW inst \in Instantiations,
         NEW c, NEW t \in Annotation, ~IsSubtype(ExprTyKind[e], TypeNodeKind[t])
  PROVE  ~(ValuesOf(d, s, e, inst) \subseteq Values(c, t, inst))
<1>1. d \in Declaration
  BY ProgramHolds
<1> DEFINE x == <<s, e>>
<1>2. x \in ExprsOf(d) /\ x[1] = s /\ x[2] = e
  OBVIOUS
<1>3. s \in DOMAIN d.body /\ e \in Expr /\ \A y \in SubExprs[e] : <<s, y>> \in ExprsOf(d)
  <2> HIDE DEF x
  <2>1. x[1] \in DOMAIN d.body /\ x[2] \in Expr /\ \A y \in SubExprs[x[2]] : <<x[1], y>> \in ExprsOf(d)
    BY <1>1, <1>2, ExprsOfHold
  <2> QED BY <1>2, <2>1
<1>4. NumberedExpr(e)
  <2> SUFFICES ASSUME NEW y \in SubExprs[e], y.k = "cast" PROVE NumberedType(y.ty)
    BY DEF NumberedExpr
  <2>1. <<s, y>> \in ExprsOf(program.decls[i])
    BY <1>3 DEF Decl
  <2>2. \A z \in ExprsOf(program.decls[i]) : z[2].k = "cast" => NumberedType(z[2].ty)
    BY DEF NumberedBounds
  <2>3. <<s, y>>[2].k = "cast" => NumberedType(<<s, y>>[2].ty)
    BY <2>1, <2>2
  <2> QED BY <2>3
<1> DEFINE m1 == <<ExprTyKind[e], ValuesOf(d, s, e, inst)>>
           m2 == <<TypeNodeKind[t], Values(c, t, inst)>>
<1>5. m1 \in NumberedMeanings(d, inst) /\ m2 \in TypeMeanings(c, inst)
  BY <1>3, <1>4 DEF NumberedMeanings, TypeMeanings
<1>6. ~IsSubtype(m1[1], m2[1]) => ~(m1[2] \subseteq m2[2])
  <2> HIDE DEF m1, m2
  <2>1. Sound(NumberedMeanings(d, inst)) /\ Numbered(NumberedMeanings(d, inst))
    BY <1>1, NumberedAreSound
  <2>2. Sound(TypeMeanings(c, inst)) /\ Narrow(TypeMeanings(c, inst))
    BY TypesAreSound, TypesAreNarrow
  <2> QED BY <1>5, <2>1, <2>2, Rejection
<1> QED BY <1>6

\* What type_diagnostics_query reports does not fit or can not be cast.
LEMMA ReturnsAreReal ==
  ASSUME WellFormed(program), NumberedBounds(program), NEW g \in ReturnMismatches
  PROVE  IsReal(g)
<1>1. PICK i, s :
        LET e == Decl(i).body[s].value
        IN  /\ i \in DeclsOf({"circuit"}) /\ s \in CircuitReturns(Decl(i))
            /\ \/ g = Diag("E3002", i, s, e, 0) /\ CastError(e)
               \/ g = Diag("E3001", i, s, e, 0) /\ ~IsSubtype(ExprTyKind[e], TypeNodeKind[Decl(i).ret])
  BY DEF ReturnMismatches
<1> DEFINE d == Decl(i)
           e == d.body[s].value
<1>2. i \in DOMAIN program.decls /\ d \in Declaration /\ s \in DOMAIN d.body
  BY <1>1, ProgramHolds DEF DeclsOf, CircuitReturns
<1>3. e \in Expr /\ d.ret \in Annotation /\ <<s, e>> \in ExprsOf(d)
  BY <1>2, DeclarationHolds, WrittenHolds, ValueIsOf
<1>4. \/ g = Diag("E3002", i, s, e, 0) /\ CastError(e)
      \/ g = Diag("E3001", i, s, e, 0) /\ ~IsSubtype(ExprTyKind[e], TypeNodeKind[d.ret])
  BY <1>1
<1>0. d = Decl(i)
  OBVIOUS
<1> HIDE DEF d, e
<1> SUFFICES ASSUME NEW inst \in Instantiations PROVE Holds(g, inst)
  BY DEF IsReal
<1>5. CASE g = Diag("E3001", i, s, e, 0) /\ ~IsSubtype(ExprTyKind[e], TypeNodeKind[d.ret])
  <2>1. ~(ValuesOf(d, s, e, inst) \subseteq Values(d, d.ret, inst))
    BY <1>0, <1>2, <1>3, <1>5, MisfitHolds
  <2>2. g.code = "E3001" /\ Decl(g.owner) = d /\ g.at = s /\ g.node = e
    BY <1>0, <1>5 DEF Diag
  <2> QED BY <2>1, <2>2 DEF Holds
<1>6. CASE g = Diag("E3002", i, s, e, 0) /\ CastError(e)
  <2>1. e.k = "cast" /\ ~CanCast(ExprTyKind[e.of], TypeNodeKind[e.ty])
    BY <1>6 DEF CastError
  <2>2. e.of \in Expr /\ e.ty \in Annotation
    BY <1>3, <2>1, ExprIs, WrittenHolds
  <2>3. Fits(TypeNodeKind[e.ty], Values(d, e.ty, inst), TypeMeanings(d, inst))
    <3> DEFINE m == <<TypeNodeKind[e.ty], Values(d, e.ty, inst)>>
    <3>1. m \in TypeMeanings(d, inst)
      BY <2>2 DEF TypeMeanings
    <3>2. Fits(m[1], m[2], TypeMeanings(d, inst))
      <4> HIDE DEF m
      <4> QED BY <3>1, TypesAreSound DEF Sound
    <3> QED BY <3>2
  <2>4. Fits(ExprTyKind[e.of], ValuesOf(d, s, e.of, inst), ExprMeanings(d, inst))
    <3> DEFINE m == <<ExprTyKind[e.of], ValuesOf(d, s, e.of, inst)>>
    <3>1. m \in ExprMeanings(d, inst)
      BY <1>2, <2>2 DEF ExprMeanings
    <3>2. Fits(m[1], m[2], ExprMeanings(d, inst))
      <4> HIDE DEF m
      <4> QED BY <1>2, <3>1, ExprsAreSound DEF Sound
    <3> QED BY <3>2
  <2>5. Uncastable(ValuesOf(d, s, e.of, inst), Values(d, e.ty, inst))
    BY <2>1, <2>3, <2>4, CastHolds
  <2>6. g.code = "E3002" /\ Decl(g.owner) = d /\ g.at = s /\ g.node = e
    BY <1>0, <1>6 DEF Diag
  <2> QED BY <2>5, <2>6 DEF Holds
<1> QED BY <1>4, <1>5, <1>6

\* What signature_diagnostics_query reports is bound twice.
LEMMA DuplicatesAreReal ==
  ASSUME WellFormed(program), NEW g \in DuplicateParams
  PROVE  IsReal(g)
<1>1. PICK i, n : /\ i \in DeclsOf(Callables) /\ n \in FirstDuplicate(Decl(i))
                  /\ g = Diag("E3005", i, 0, Absent, n)
  BY DEF DuplicateParams
<1> DEFINE d == Decl(i)
           again == {m \in DOMAIN d.params : \E j \in 1..(m - 1) : ParamName(d, m) \cap ParamName(d, j) # {}}
<1>2. i \in DOMAIN program.decls /\ d \in Declaration
  BY <1>1, ProgramHolds DEF DeclsOf
<1>3. Len(d.params) \in Nat /\ DOMAIN d.params = 1..Len(d.params)
  BY <1>2, DeclarationHolds
<1>4. again # {}
  BY <1>1 DEF FirstDuplicate
<1>5. PICK m, j : /\ m \in DOMAIN d.params /\ j \in 1..(m - 1)
                  /\ ParamName(d, m) \cap ParamName(d, j) # {}
  BY <1>4
<1>6. j \in DOMAIN d.params /\ j # m /\ d.params[m].name = d.params[j].name
  BY <1>3, <1>5 DEF ParamName
<1>7. g.code = "E3005" /\ Decl(g.owner) = d
  BY <1>1 DEF Diag
<1>8. \E a, b \in DOMAIN d.params : a # b /\ d.params[a].name = d.params[b].name
  BY <1>5, <1>6
<1> HIDE DEF d
<1> SUFFICES ASSUME NEW inst \in Instantiations PROVE Holds(g, inst)
  BY DEF IsReal
<1> QED BY <1>7, <1>8 DEF Holds

\* What generic_diagnostics_query reports has another number of arguments.
LEMMA AritiesAreReal ==
  ASSUME NEW g \in ArityMismatches
  PROVE  IsReal(g)
<1>1. PICK i, w : LET r == Resolve(Decl(i), w[1], w[2].name)
                  IN  /\ g = Diag("E3003", i, w[1], w[2], 0)
                      /\ ItemSymbol(r) /\ w[2].args # Len(Decl(r.at).generics)
  BY DEF ArityMismatches
<1> SUFFICES ASSUME NEW inst \in Instantiations PROVE Holds(g, inst)
  BY DEF IsReal
<1>2. g.code = "E3003" /\ g.owner = i /\ g.at = w[1] /\ g.node = w[2]
  BY <1>1 DEF Diag
<1>3. LET r == Resolve(Decl(g.owner), g.at, g.node.name)
      IN  r.is = "item" /\ Len(Decl(r.at).generics) # g.node.args
  BY <1>1, <1>2 DEF ItemSymbol
<1> QED BY <1>2, <1>3 DEF Holds

\* Where the arguments of a method stand among its operands.
LEMMA ConcatHolds ==
  ASSUME NEW T, NEW a \in Seq(T), NEW b \in Seq(T), NEW n \in 1..Len(b)
  PROVE  Len(a) + n \in DOMAIN (a \o b) /\ (a \o b)[Len(a) + n] = b[n]
OBVIOUS

\* The arguments of a call are expressions of the declaration.
LEMMA ArgumentsAreOf ==
  ASSUME NEW d \in Declaration, NEW x \in ExprsOf(d), NEW n,
         x[2].k \in {"call", "method"}, n \in DOMAIN x[2].args
  PROVE  x[2].args[n] \in Expr /\ <<x[1], x[2].args[n]>> \in ExprsOf(d)
<1>1. x[2] \in Expr /\ \A i \in DOMAIN Operands(x[2]) : <<x[1], Operands(x[2])[i]>> \in ExprsOf(d)
  BY ExprsOfHold
<1>2. x[2].args \in Seq(Expr)
  BY <1>1, ExprIs
<1>3. x[2].args[n] \in Expr
  BY <1>2
<1>4. \E i \in DOMAIN Operands(x[2]) : Operands(x[2])[i] = x[2].args[n]
  <2>1. CASE x[2].k = "call"
    <3>1. Operands(x[2]) = x[2].args
      BY <1>1, <2>1, ExprIs
    <3> QED BY <3>1
  <2>2. CASE x[2].k = "method"
    <3>1. Operands(x[2]) = <<x[2].of>> \o x[2].args /\ x[2].of \in Expr
      BY <1>1, <2>2, ExprIs
    <3>2. n \in 1..Len(x[2].args) /\ Len(x[2].args) \in Nat
      BY <1>2
    <3>3. <<x[2].of>> \in Seq(Expr) /\ Len(<<x[2].of>>) = 1
      BY <3>1
    <3> DEFINE a == <<x[2].of>>
               b == x[2].args
    <3>5. a \in Seq(Expr) /\ b \in Seq(Expr) /\ Len(a) = 1
      BY <1>2, <3>3
    <3>6. 1 + n \in DOMAIN (a \o b) /\ (a \o b)[1 + n] = b[n]
      <4>1. n \in 1..Len(b)
        BY <3>2
      <4> HIDE DEF a, b
      <4>2. Len(a) + n \in DOMAIN (a \o b) /\ (a \o b)[Len(a) + n] = b[n]
        BY <3>5, <4>1, ConcatHolds
      <4> QED BY <3>5, <4>2
    <3> QED BY <3>1, <3>6
  <2> QED BY <2>1, <2>2
<1> QED BY <1>1, <1>3, <1>4

\* What ledger_call_diagnostics_query reports does not fit the method of the field.
LEMMA LedgerMisfitsAreReal ==
  ASSUME WellFormed(program), NumberedBounds(program), NEW g \in LedgerMisfits
  PROVE  IsReal(g)
<1>1. PICK i, x, a, n :
        LET call == x[2]
        IN  /\ i \in DeclsOf({"circuit"})
            /\ x \in ExprsOf(Decl(i)) /\ call.k = "method" /\ call.of.k = "name"
            /\ a \in LedgerAdtAt(Decl(i), x[1], call.of.name)
            /\ call.name \in DOMAIN Surfaces[a]
            /\ n \in Misfits(MethodParams(a, call.name), call.args)
            /\ g = Diag("E3004", i, x[1], call, n)
  BY DEF LedgerMisfits
<1> DEFINE d == Decl(i)
           call == x[2]
           r == Resolve(d, x[1], call.of.name)
           field == Decl(r.at)
           sig == Surfaces[a][call.name]
<1>2. i \in DOMAIN program.decls /\ d \in Declaration
  BY <1>1, ProgramHolds DEF DeclsOf
<1>3. field.head.k = "Ref" /\ a = field.head.name /\ a \in DOMAIN Surfaces
  BY <1>1 DEF LedgerAdtAt
<1>4. sig \in Seq(Written)
  BY <1>1, <1>3, ProgramsAssumption
<1>5. n \in DOMAIN sig /\ n \in DOMAIN call.args /\ ~IsSubtype(ExprTyKind[call.args[n]], TypeNodeKind[sig[n]])
  BY <1>1 DEF Misfits, MethodParams
<1>6. sig[n] \in Annotation
  <2> HIDE DEF sig
  <2>1. sig[n] \in Written
    BY <1>4, <1>5
  <2> QED BY <2>1, WrittenHolds
<1>7. <<x[1], call.args[n]>> \in ExprsOf(d)
  BY <1>1, <1>2, <1>5, ArgumentsAreOf
<1>8. g.code = "E3004" /\ g.owner = i /\ g.at = x[1] /\ g.node = call /\ g.arg = n
  BY <1>1 DEF Diag
<1>9. call.name \in DOMAIN Surfaces[TrueAdt(field)] => Surfaces[TrueAdt(field)][call.name] = sig
  <2>1. TrueAdt(field) = a \/ TrueAdt(field) = "Cell"
    BY <1>3 DEF TrueAdt
  <2> QED BY <1>1, <1>3, <2>1, SurfacesAssumption
<1> SUFFICES ASSUME NEW inst \in Instantiations PROVE Holds(g, inst)
  BY DEF IsReal
<1>10. ~(ValuesOf(d, x[1], call.args[n], inst) \subseteq Values(d, sig[n], inst))
  <2>0. d = Decl(i)
    OBVIOUS
  <2> HIDE DEF d, sig, call
  <2> QED BY <1>2, <1>5, <1>6, <1>7, <2>0, MisfitHolds
<1>11. LET methods == Surfaces[TrueAdt(field)]
       IN  g.node.name \in DOMAIN methods =>
             ~(ValuesOf(d, g.at, g.node.args[g.arg], inst) \subseteq Values(d, methods[g.node.name][g.arg], inst))
  <2> HIDE DEF d, sig, call, field
  <2> QED BY <1>8, <1>9, <1>10
<1>12. field = Decl(Resolve(d, g.at, g.node.of.name).at) /\ d = Decl(g.owner)
  BY <1>8
<1> HIDE DEF d, sig, call, field, r
<1> QED BY <1>8, <1>11, <1>12 DEF Holds

\* A callee that is certain is the only overload.
LEMMA CalleeHolds ==
  ASSUME WellFormed(program), NEW d \in Declaration, NEW s \in DOMAIN d.body, NEW name, NEW c,
         c \in UniqueCallee(d, s, name)
  PROVE  /\ c \in DOMAIN program.decls /\ Resolve(d, s, name).is = "item" /\ Resolve(d, s, name).at = c
         /\ Overloads(d, s, name) \subseteq {c}
<1> DEFINE r == Resolve(d, s, name)
<1>1. /\ c \in DeclsOf(Callables) /\ r.is = "item" /\ c = r.at
      /\ \A j \in DeclsOf(Callables) : Decl(j).name = name => j = c
  BY DEF UniqueCallee
<1>2. c \in DOMAIN program.decls /\ Decl(c).file = "here"
  BY <1>1 DEF DeclsOf
<1> HIDE DEF r
<1>3. Overloads(d, s, name) \subseteq {c}
  <2> SUFFICES ASSUME NEW j \in Overloads(d, s, name) PROVE j = c
    OBVIOUS
  <2>1. j \in DOMAIN program.decls /\ Decl(j).file = Decl(r.at).file /\ Decl(j).name = name /\ Decl(j).kind \in Callables
    BY DEF Overloads, r
  <2>2. j \in DeclsOf(Callables)
    BY <1>1, <1>2, <2>1 DEF DeclsOf
  <2> QED BY <1>1, <2>1, <2>2
<1> QED BY <1>1, <1>2, <1>3 DEF r

\* What call_arg_diagnostics_query reports fits no overload.
LEMMA ArgMisfitsAreReal ==
  ASSUME WellFormed(program), NumberedBounds(program), NEW g \in ArgMisfits
  PROVE  IsReal(g)
<1> DEFINE Of(i, x) ==
             UNION {LET params == Decl(callee).params
                    IN  {Diag("E3006", i, x[1], x[2], n) :
                           n \in CallMisfits([j \in DOMAIN params |-> TypeNodeKind[params[j].ty]],
                                             x[2].args)}
                    : callee \in UniqueCallee(Decl(i), x[1], x[2].name)}
<1>0. PICK i, x :
        i \in DeclsOf({"circuit"}) /\ x \in {y \in ExprsOf(Decl(i)) : y[2].k = "call"} /\ g \in Of(i, x)
  <2>1. ArgMisfits = UNION {UNION {Of(i, x) : x \in {y \in ExprsOf(Decl(i)) : y[2].k = "call"}}
                            : i \in DeclsOf({"circuit"})}
    BY DEF ArgMisfits
  <2> HIDE DEF Of
  <2> QED BY <2>1
<1>1. PICK c, n :
        LET params == Decl(c).params
        IN  /\ i \in DeclsOf({"circuit"}) /\ x \in ExprsOf(Decl(i)) /\ x[2].k = "call"
            /\ c \in UniqueCallee(Decl(i), x[1], x[2].name)
            /\ n \in CallMisfits([j \in DOMAIN params |-> TypeNodeKind[params[j].ty]], x[2].args)
            /\ g = Diag("E3006", i, x[1], x[2], n)
  BY <1>0
<1> DEFINE d == Decl(i)
           args == x[2].args
           params == Decl(c).params
           kinds == [j \in DOMAIN params |-> TypeNodeKind[params[j].ty]]
<1>2. i \in DOMAIN program.decls /\ d \in Declaration
  BY <1>1, ProgramHolds DEF DeclsOf
<1>3. x[1] \in DOMAIN d.body /\ x[2] \in Expr
  BY <1>1, <1>2, ExprsOfHold
<1>4. c \in DOMAIN program.decls /\ Overloads(d, x[1], x[2].name) \subseteq {c}
  <2> HIDE DEF d
  <2> QED BY <1>1, <1>2, <1>3, CalleeHolds DEF d
<1>5. Decl(c) \in Declaration
  BY <1>4, ProgramHolds
<1>6. Len(params) \in Nat /\ DOMAIN params = 1..Len(params) /\ \A j \in DOMAIN params : params[j].ty \in Annotation
  BY <1>5, DeclarationHolds, WrittenHolds
<1>7. args \in Seq(Expr)
  BY <1>1, <1>3, ExprIs
<1>8. Len(kinds) = Len(params) /\ DOMAIN kinds = DOMAIN params
  BY <1>6
<1>9. ~HasSpread(args) /\ (Len(args) # Len(params) \/ n \in Misfits(kinds, args))
  BY <1>1, <1>8 DEF CallMisfits
<1>10. g.code = "E3006" /\ g.owner = i /\ g.at = x[1] /\ g.node = x[2]
  BY <1>1 DEF Diag
<1> SUFFICES ASSUME NEW inst \in Instantiations PROVE Holds(g, inst)
  BY DEF IsReal
<1>11. ~Accepts(Decl(c), d, x[1], args, inst)
  <2>1. CASE Len(args) # Len(params)
    BY <2>1 DEF Accepts
  <2>2. CASE n \in Misfits(kinds, args)
    <3>1. n \in DOMAIN params /\ n \in DOMAIN args /\ ~IsSubtype(ExprTyKind[args[n]], TypeNodeKind[params[n].ty])
      BY <1>8, <2>2 DEF Misfits
    <3>2. <<x[1], args[n]>> \in ExprsOf(d)
      BY <1>1, <1>2, <3>1, ArgumentsAreOf
    <3>3. params[n].ty \in Annotation
      BY <1>6, <3>1
    <3>4. d = Decl(i)
      OBVIOUS
    <3> HIDE DEF d, args, params, kinds
    <3>5. ~(ValuesOf(d, x[1], args[n], inst) \subseteq Values(Decl(c), params[n].ty, inst))
      BY <1>2, <3>1, <3>2, <3>3, <3>4, MisfitHolds
    <3> QED BY <3>1, <3>5 DEF Accepts, params
  <2> QED BY <1>9, <2>1, <2>2
<1>12. \A j \in Overloads(d, x[1], x[2].name) : ~Accepts(Decl(j), d, x[1], args, inst)
  BY <1>4, <1>11
<1>13. \A j \in Overloads(Decl(g.owner), g.at, g.node.name) : ~Accepts(Decl(j), Decl(g.owner), g.at, g.node.args, inst)
  BY <1>10, <1>12
<1> HIDE DEF d, args, params, kinds
<1> QED BY <1>10, <1>13 DEF Holds

-----------------------------------------------------------------------------
(* Every mismatch of types that are modelled is found.                     *)

\* Where an argument that is modelled does not fit, the checker finds it.
LEMMA ExactAccepts ==
  ASSUME WellFormed(program), NEW d \in Declaration, NEW s \in DOMAIN d.body, NEW e \in Expr,
         ModelledExpr(e), NEW c, NEW t \in Annotation, Modelled(t),
         NEW inst \in Instantiations, ~(ValuesOf(d, s, e, inst) \subseteq Values(c, t, inst))
  PROVE  ~IsSubtype(ExprTyKind[e], TypeNodeKind[t]) /\ TypeNodeKind[t] # Unknown
<1> DEFINE m1 == <<ExprTyKind[e], ValuesOf(d, s, e, inst)>>
           m2 == <<TypeNodeKind[t], Values(c, t, inst)>>
<1>1. m1 \in ExprMeanings(d, inst) /\ m2 \in TypeMeanings(c, inst)
  BY DEF ExprMeanings, TypeMeanings
<1>2. IsExact(ExprTyKind[e]) /\ IsExact(TypeNodeKind[t])
  BY ModelledExprIsExact, ModelledIsExact
<1>3. IsExact(m1[1]) /\ IsExact(m2[1]) /\ IsSubtype(m1[1], m2[1]) => m1[2] \subseteq m2[2]
  <2> HIDE DEF m1, m2
  <2>1. Sound(ExprMeanings(d, inst)) /\ Sound(TypeMeanings(c, inst))
    BY ExprsAreSound, TypesAreSound
  <2> QED BY <1>1, <2>1, Acceptance
<1>4. TypeNodeKind[t] # Unknown
  <2>1. TypeNodeKind[t] \in Kind
    BY TypeNodeKindIsKind
  <2> QED BY <1>2, <2>1, ExactParts DEF Unknown
<1> QED BY <1>2, <1>3, <1>4

-----------------------------------------------------------------------------
(* The passes, one after the other.                                        *)

\* The diagnostics there are before pass p.
Reported(p) ==
  CASE p = "types" -> {}
    [] p = "signatures" -> ReturnMismatches
    [] p = "generics" -> ReturnMismatches \cup DuplicateParams
    [] p = "ledger calls" -> ReturnMismatches \cup DuplicateParams \cup ArityMismatches
    [] p = "calls" -> ReturnMismatches \cup DuplicateParams \cup ArityMismatches \cup LedgerMisfits
    [] p = "generic modules" ->
         ReturnMismatches \cup DuplicateParams \cup ArityMismatches \cup LedgerMisfits \cup ArgMisfits
    [] p = "done" ->
         {g \in ReturnMismatches \cup DuplicateParams \cup ArityMismatches \cup LedgerMisfits \cup ArgMisfits :
            ~Decl(g.owner).generic_module}

PassesInv ==
  /\ program \in Programs
  /\ pass \in {"types", "signatures", "generics", "ledger calls", "calls", "generic modules", "done"}
  /\ diags = Reported(pass)

\* The ADT of a field depends on the program alone.
LEMMA LedgerAdtStays ==
  ASSUME program' = program
  PROVE  \A d, s, x : LedgerAdtAt(d, s, x)' = LedgerAdtAt(d, s, x)
BY DEF Decl, Resolve, ItemSymbol, LedgerAdtAt, IsUserType

\* The mismatches of ledger calls depend on the program alone.
LEMMA LedgerMisfitsStay ==
  ASSUME program' = program
  PROVE  LedgerMisfits' = LedgerMisfits
<1> DEFINE Adt(i, x) == IF x[2].of.k = "name" THEN LedgerAdtAt(Decl(i), x[1], x[2].of.name) ELSE {}
           Of(i, x, adt) ==
             UNION {{Diag("E3004", i, x[1], x[2], n) : n \in Misfits(MethodParams(a, x[2].name), x[2].args)}
                    : a \in {b \in adt : x[2].name \in DOMAIN Surfaces[b]}}
           Calls(d) == {y \in ExprsOf(d) : y[2].k = "method"}
<1>1. LedgerMisfits = UNION {UNION {Of(i, x, Adt(i, x)) : x \in Calls(Decl(i))} : i \in DeclsOf({"circuit"})}
  BY DEF LedgerMisfits
<1>2. LedgerMisfits' = UNION {UNION {Of(i, x, Adt(i, x)') : x \in Calls(Decl(i)')} : i \in DeclsOf({"circuit"})'}
  BY DEF LedgerMisfits
<1>3. DeclsOf({"circuit"})' = DeclsOf({"circuit"}) /\ \A i : Decl(i)' = Decl(i)
  BY DEF DeclsOf, Decl
<1>4. \A i, x : Adt(i, x)' = Adt(i, x)
  BY <1>3, LedgerAdtStays
<1> HIDE DEF Of, Adt, Calls
<1> QED BY <1>1, <1>2, <1>3, <1>4

\* What each pass finds depends on the program alone.
LEMMA FoundStays ==
  ASSUME program' = program
  PROVE  /\ ReturnMismatches' = ReturnMismatches /\ DuplicateParams' = DuplicateParams
         /\ ArityMismatches' = ArityMismatches /\ LedgerMisfits' = LedgerMisfits
         /\ ArgMisfits' = ArgMisfits /\ \A i : Decl(i)' = Decl(i)
<1>1. ReturnMismatches' = ReturnMismatches
  BY DEF Decl, DeclsOf, ReturnMismatches
<1>2. DuplicateParams' = DuplicateParams
  BY DEF Decl, DeclsOf, DuplicateParams
<1>3. ArityMismatches' = ArityMismatches
  BY DEF Decl, Resolve, ArityMismatches, ItemSymbol
<1>4. LedgerMisfits' = LedgerMisfits
  BY LedgerMisfitsStay
<1>5. ArgMisfits' = ArgMisfits
  BY DEF Decl, Resolve, ArgMisfits, UniqueCallee, DeclsOf
<1>6. \A i : Decl(i)' = Decl(i)
  BY DEF Decl
<1> QED BY <1>1, <1>2, <1>3, <1>4, <1>5, <1>6

\* No step leaves the diagnostics other than the passes before it make them.
LEMMA PassesStep ==
  ASSUME PassesInv, [Next]_vars
  PROVE  PassesInv'
<1>1. program' = program
  BY DEF Next, vars, TypeDiagnostics, SignatureDiagnostics, GenericDiagnostics, LedgerCallDiagnostics,
         CallArgDiagnostics, DropGenericModules, TypeAt, Report
<1>2. ASSUME NEW p PROVE Reported(p)' = Reported(p)
  BY <1>1, FoundStays DEF Reported
<1>3. program' \in Programs
  BY <1>1 DEF PassesInv
<1>4. ASSUME NEW from, NEW to, NEW found, Report(from, to, found),
             Reported(to) = Reported(from) \cup found,
             to \in {"signatures", "generics", "ledger calls", "calls", "generic modules"}
      PROVE  PassesInv'
  <2>1. diags' = Reported(to) /\ pass' = to
    BY <1>4 DEF Report, PassesInv
  <2> QED BY <1>2, <1>3, <1>4, <2>1 DEF PassesInv
<1>5. CASE TypeDiagnostics
  BY <1>4, <1>5 DEF TypeDiagnostics, Reported
<1>6. CASE SignatureDiagnostics
  BY <1>4, <1>6 DEF SignatureDiagnostics, Reported
<1>7. CASE GenericDiagnostics
  BY <1>4, <1>7 DEF GenericDiagnostics, Reported
<1>8. CASE LedgerCallDiagnostics
  BY <1>4, <1>8 DEF LedgerCallDiagnostics, Reported
<1>9. CASE CallArgDiagnostics
  BY <1>4, <1>9 DEF CallArgDiagnostics, Reported
<1>10. CASE DropGenericModules
  <2>1. diags' = Reported("done") /\ pass' = "done"
    BY <1>10 DEF DropGenericModules, Reported, PassesInv
  <2> QED BY <1>2, <1>3, <2>1 DEF PassesInv
<1>11. CASE TypeAt \/ UNCHANGED vars
  <2>1. diags' = diags /\ pass' = pass
    BY <1>11 DEF TypeAt, vars
  <2> QED BY <1>2, <1>3, <2>1 DEF PassesInv
<1> QED BY <1>5, <1>6, <1>7, <1>8, <1>9, <1>10, <1>11 DEF Next

\* Every diagnostic of a finished check marks a place that breaks its rule.
LEMMA DiagnosticsAreReal ==
  ASSUME \A p \in Programs : NumberedBounds(p), PassesInv
  PROVE  NoFalsePositive
<1> SUFFICES ASSUME pass = "done", NEW g \in diags PROVE IsReal(g)
  BY DEF NoFalsePositive
<1>1. WellFormed(program) /\ NumberedBounds(program)
  BY ProgramsAssumption DEF PassesInv
<1>2. g \in ReturnMismatches \cup DuplicateParams \cup ArityMismatches \cup LedgerMisfits \cup ArgMisfits
  BY DEF PassesInv, Reported
<1> QED BY <1>1, <1>2, ReturnsAreReal, DuplicatesAreReal, AritiesAreReal, LedgerMisfitsAreReal, ArgMisfitsAreReal

\* A return that does not fit is reported.
LEMMA ReturnsAreFound ==
  ASSUME PassesInv, pass = "done", NEW o \in DeclsOf({"circuit"}), ~Decl(o).generic_module
  PROVE  ReturnsAreChecked(o)
<1> DEFINE d == Decl(o)
<1>1. WellFormed(program)
  BY ProgramsAssumption DEF PassesInv
<1>2. o \in DOMAIN program.decls /\ d \in Declaration
  BY <1>1, ProgramHolds DEF DeclsOf
<1>3. d.ret \in Annotation
  BY <1>2, DeclarationHolds, WrittenHolds
<1> SUFFICES ASSUME NEW s \in CircuitReturns(d), ModelledExpr(d.body[s].value), Modelled(d.ret),
                    NEW inst \in Instantiations,
                    ~(ValuesOf(d, s, d.body[s].value, inst) \subseteq Values(d, d.ret, inst))
             PROVE  \E g \in diags : /\ g.owner = o /\ g.at = s /\ g.node = d.body[s].value
                                     /\ g.code \in {"E3001", "E3002"}
  BY DEF ReturnsAreChecked
<1> DEFINE e == d.body[s].value
           g == IF CastError(e) THEN Diag("E3002", o, s, e, 0) ELSE Diag("E3001", o, s, e, 0)
<1>4. s \in DOMAIN d.body /\ e \in Expr
  BY <1>2, DeclarationHolds DEF CircuitReturns
<1>5. ~IsSubtype(ExprTyKind[e], TypeNodeKind[d.ret]) /\ TypeNodeKind[d.ret] # Unknown
  <2> HIDE DEF d
  <2> QED BY <1>1, <1>2, <1>3, <1>4, ExactAccepts
<1>6. g \in ReturnMismatches
  BY <1>5 DEF ReturnMismatches
<1>7. g.owner = o /\ g.at = s /\ g.node = e /\ g.code \in {"E3001", "E3002"}
  BY DEF Diag
<1>8. g \in diags
  <2> HIDE DEF g
  <2> QED BY <1>6, <1>7 DEF PassesInv, Reported
<1> HIDE DEF g
<1> QED BY <1>7, <1>8

\* An argument that does not fit is reported.
LEMMA ArgumentsAreFound ==
  ASSUME PassesInv, pass = "done", NEW o \in DeclsOf({"circuit"}), ~Decl(o).generic_module
  PROVE  ArgumentsAreChecked(o)
<1> DEFINE d == Decl(o)
<1>1. WellFormed(program)
  BY ProgramsAssumption DEF PassesInv
<1>2. o \in DOMAIN program.decls /\ d \in Declaration
  BY <1>1, ProgramHolds DEF DeclsOf
<1> SUFFICES ASSUME NEW x \in ExprsOf(d), NEW c \in DeclsOf(Callables),
                    x[2].k = "call", Resolve(d, x[1], x[2].name) = [is |-> "item", at |-> c],
                    Overloads(d, x[1], x[2].name) = {c},
                    Decl(c).generics = <<>>, ~HasSpread(x[2].args),
                    \/ Len(x[2].args) # Len(Decl(c).params)
                    \/ \E i \in DOMAIN x[2].args : Misfit(Decl(c), d, x[1], x[2].args, i)
             PROVE  \E g \in diags : g.owner = o /\ g.at = x[1] /\ g.node = x[2] /\ g.code = "E3006"
  BY DEF ArgumentsAreChecked
<1> DEFINE r == Resolve(d, x[1], x[2].name)
           args == x[2].args
           params == Decl(c).params
           kinds == [j \in DOMAIN params |-> TypeNodeKind[params[j].ty]]
<1>3. c \in DOMAIN program.decls /\ Decl(c) \in Declaration
  BY <1>1, ProgramHolds DEF DeclsOf
<1>4. x[1] \in DOMAIN d.body /\ x[2] \in Expr
  BY <1>2, ExprsOfHold
<1>5. c \in UniqueCallee(d, x[1], x[2].name)
  <2>1. r.is = "item" /\ r.at = c
    OBVIOUS
  <2>2. ASSUME NEW j \in DeclsOf(Callables), Decl(j).name = x[2].name PROVE j = c
    <3>1. j \in Overloads(d, x[1], x[2].name)
      BY <2>1, <2>2 DEF Overloads, DeclsOf
    <3> QED BY <3>1
  <2> QED BY <2>1, <2>2 DEF UniqueCallee
<1>6. Len(params) \in Nat /\ DOMAIN params = 1..Len(params) /\ \A j \in DOMAIN params : params[j].ty \in Annotation
  BY <1>3, DeclarationHolds, WrittenHolds
<1>7. Len(kinds) = Len(params) /\ DOMAIN kinds = DOMAIN params
  BY <1>6
<1>8. PICK n : n \in CallMisfits(kinds, args)
  <2>1. CASE Len(args) # Len(params)
    BY <1>7, <2>1 DEF CallMisfits
  <2>2. CASE Len(args) = Len(params)
    <3>1. PICK i \in DOMAIN args : Misfit(Decl(c), d, x[1], args, i)
      BY <2>2
    <3>2. PICK inst \in Instantiations :
            ~(ValuesOf(d, x[1], args[i], inst) \subseteq Values(Decl(c), params[i].ty, inst))
      BY <3>1 DEF Misfit
    <3>3. args \in Seq(Expr)
      BY <1>4, ExprIs
    <3>4. args[i] \in Expr /\ i \in DOMAIN params
      BY <1>6, <2>2, <3>3
    <3>5. ModelledExpr(args[i]) /\ Modelled(params[i].ty)
      BY <3>1 DEF Misfit
    <3>6. params[i].ty \in Annotation
      BY <1>6, <3>4
    <3>7. ~IsSubtype(ExprTyKind[args[i]], TypeNodeKind[params[i].ty])
      <4> HIDE DEF d, args, params, r
      <4> QED BY <1>1, <1>2, <1>4, <3>2, <3>4, <3>5, <3>6, ExactAccepts
    <3>8. i \in Misfits(kinds, args)
      BY <1>7, <3>4, <3>7 DEF Misfits
    <3> QED BY <1>7, <2>2, <3>8 DEF CallMisfits
  <2> QED BY <2>1, <2>2
<1> DEFINE g == Diag("E3006", o, x[1], x[2], n)
<1>9. g \in ArgMisfits
  <2>1. g \in {Diag("E3006", o, x[1], x[2], m) : m \in CallMisfits(kinds, args)}
    BY <1>8
  <2> DEFINE Of(i, y) ==
               UNION {LET ps == Decl(callee).params
                      IN  {Diag("E3006", i, y[1], y[2], m) :
                             m \in CallMisfits([j \in DOMAIN ps |-> TypeNodeKind[ps[j].ty]], y[2].args)}
                      : callee \in UniqueCallee(Decl(i), y[1], y[2].name)}
  <2>2. g \in Of(o, x)
    <3> HIDE DEF g
    <3> QED BY <1>5, <2>1
  <2>3. ArgMisfits = UNION {UNION {Of(i, y) : y \in {z \in ExprsOf(Decl(i)) : z[2].k = "call"}}
                            : i \in DeclsOf({"circuit"})}
    BY DEF ArgMisfits
  <2>4. x \in {z \in ExprsOf(Decl(o)) : z[2].k = "call"}
    OBVIOUS
  <2> HIDE DEF g, Of
  <2> QED BY <2>2, <2>3, <2>4
<1>10. g.owner = o /\ g.at = x[1] /\ g.node = x[2] /\ g.code = "E3006"
  BY DEF Diag
<1>11. g \in diags
  <2> HIDE DEF g
  <2> QED BY <1>9, <1>10 DEF PassesInv, Reported
<1> HIDE DEF g
<1> QED BY <1>10, <1>11

(* A finished check has reported every return and every argument that does not fit, of *)
(* the types the checker models, outside generic modules: what each pass of            *)
(* type_diagnostics has found stays until the pass that drops the generic modules.     *)
THEOREM MismatchesAreFound == Spec => []MismatchesAreReported
<1>1. Init => PassesInv
  BY DEF Init, PassesInv, Reported
<1>2. PassesInv /\ [Next]_vars => PassesInv'
  BY PassesStep
<1>3. PassesInv => MismatchesAreReported
  BY ReturnsAreFound, ArgumentsAreFound DEF MismatchesAreReported
<1> QED BY <1>1, <1>2, <1>3, PTL DEF Spec

(* And every diagnostic marks a place that breaks its rule for every choice of the      *)
(* generic parameters: type_diagnostics has no false positive, and misses nothing that *)
(* it models.  A bound that is a generic parameter is taken for one too large to keep, *)
(* where it may be small, so casts to such a type are excluded.                        *)
THEOREM DiagnosticsHold ==
  ASSUME \A p \in Programs : NumberedBounds(p)
  PROVE  Spec => []DiagnosticsAreExact
<1>1. Init => PassesInv
  BY DEF Init, PassesInv, Reported
<1>2. PassesInv /\ [Next]_vars => PassesInv'
  BY PassesStep
<1>3. PassesInv => DiagnosticsAreExact
  <2>1. PassesInv => NoFalsePositive
    BY DiagnosticsAreReal
  <2>2. PassesInv => MismatchesAreReported
    BY ReturnsAreFound, ArgumentsAreFound DEF MismatchesAreReported
  <2> QED BY <2>1, <2>2 DEF DiagnosticsAreExact
<1> QED BY <1>1, <1>2, <1>3, PTL DEF Spec

-----------------------------------------------------------------------------
(* A kind lets through the values of what it is the kind of.               *)

\* A sequence is made of values.
LEMMA ValueIs ==
  ASSUME NEW v \in Value
  PROVE  v[1] = "sequence" => Len(v[2]) \in Nat /\ DOMAIN v[2] = 1..Len(v[2]) /\ \A i \in DOMAIN v[2] : v[2][i] \in Value
<1>0. Deepest \in Nat
  BY DeepestIsNumber
<1> DEFINE inner == IF Deepest = 0 THEN {} ELSE ValueUpTo[Deepest - 1]
<1>1. v \in ValuesOver(inner)
  BY <1>0, ValueUpToHolds DEF Value
<1>2. inner \subseteq Value
  BY <1>0, ValueUpToGrows DEF Value
<1> HIDE DEF inner
<1>3. v[1] = "sequence" => v[2] \in Seq(inner)
  BY <1>1 DEF ValuesOver, Booleans
<1> QED BY <1>2, <1>3

\* A kind of numbers is one of numbers only.
Counted(M) == \A m \in M : m[1].k = "Uint" => \A v \in m[2] : v[1] = "number"

\* The values below a bound are numbers.
LEMMA NumbersAreCounted ==
  \A n : \A v \in Numbers(n) : v[1] = "number"
BY DEF Numbers

\* The values of what is lowered to a number type are numbers.
LEMMA TypesAreCounted ==
  ASSUME NEW d, NEW inst \in Instantiations, inst.N > 0
  PROVE  Counted(TypeMeanings(d, inst))
<1> SUFFICES ASSUME NEW t \in Annotation, TypeNodeKind[t].k = "Uint"
             PROVE  \A v \in Values(d, t, inst) : v[1] = "number"
  BY DEF Counted, TypeMeanings
<1>1. t.k = "Uint" /\ t.sizes \in Seq(Size) /\ Len(t.sizes) \in 1..2 /\ TypeNodeKind[t] = UintBound(t.sizes)
  BY LoweredIsUint
<1>2. Values(d, t, inst) = UintValues(t.sizes, inst)
  <2> DEFINE parts == [i \in DOMAIN Parts(t) |-> Values(d, Parts(t)[i], inst)]
  <2>1. Values(d, t, inst) = AnnotationValues(d, t, inst, parts)
    BY ValuesHolds
  <2> HIDE DEF parts
  <2> QED BY <1>1, <2>1 DEF AnnotationValues
<1> DEFINE sizes == t.sizes
           n == [i \in DOMAIN sizes |-> SizeOf(sizes[i], inst)]
           widest == TwoTo[MaxWidth]
<1>3. inst.N \in Nat
  BY MeaningAssumption
<1>4. CASE Len(sizes) = 1 /\ sizes[1] \in 1..MaxWidth
  <2>1. Len(n) = 1 /\ n[1] = sizes[1]
    BY <1>4, Limits DEF SizeOf, Param
  <2>2. UintValues(sizes, inst) = Numbers(TwoTo[n[1]])
    BY <1>4, <2>1 DEF UintValues
  <2> QED BY <1>2, <2>2, NumbersAreCounted
<1>5. CASE Len(sizes) = 2 /\ sizes[1] = 0 /\ sizes[2] # 0
  <2>1. sizes[2] \in Nat \cup {Param}
    BY <1>1, <1>5 DEF Size
  <2>2. Len(n) = 2 /\ n[1] = 0 /\ n[2] > 0
    BY <1>3, <1>5, <2>1 DEF SizeOf, Param
  <2>3. UintValues(sizes, inst) = Numbers(IF n[2] < widest THEN n[2] ELSE widest)
    BY <2>2 DEF UintValues
  <2> QED BY <1>2, <2>3, NumbersAreCounted
<1>6. \/ Len(sizes) = 1 /\ sizes[1] \in 1..MaxWidth
      \/ Len(sizes) = 2 /\ sizes[1] = 0 /\ sizes[2] # 0
  <2>1. UintBound(sizes) # Unknown
    BY <1>1 DEF Unknown
  <2> HIDE DEF sizes
  <2>2. sizes \in Seq(Size) /\ Len(sizes) \in 1..2
    BY <1>1 DEF sizes
  <2> QED BY <2>1, <2>2, UintBoundHolds, Limits
<1> QED BY <1>4, <1>5, <1>6

\* The values of what has a number type are numbers.
LEMMA ExprsAreCounted ==
  ASSUME WellFormed(program), NEW d \in Declaration, NEW inst \in Instantiations, inst.N > 0
  PROVE  Counted(ExprMeanings(d, inst))
<1>1. Counted(TypeMeanings(d, inst))
  BY TypesAreCounted
<1>2. ASSUME NEW s \in DOMAIN d.body, NEW e \in Expr, ExprTyKind[e].k = "Uint"
      PROVE  \A v \in ValuesOf(d, s, e, inst) : v[1] = "number"
  <2> DEFINE M == ExprMeanings(d, inst)
             parts == [i \in DOMAIN Operands(e) |-> ValuesOf(d, s, Operands(e)[i], inst)]
             kinds == [i \in DOMAIN Operands(e) |-> ExprTyKind[Operands(e)[i]]]
             whole == BoundValues(d, s, e, inst)
  <2>1. CASE e.k = "cast"
    <3>1. ValuesOf(d, s, e, inst) = ExprValues(d, s, e, inst, parts, whole)
      BY ValuesOfHolds
    <3>2. ExprTyKind[e] = ExprKind(e, kinds)
      BY ExprTyKindHolds
    <3> HIDE DEF parts, kinds, whole
    <3>3. ExprTyKind[e] = TypeNodeKind[e.ty] /\ ValuesOf(d, s, e, inst) = Values(d, e.ty, inst)
      BY <2>1, <3>1, <3>2 DEF ExprKind, ExprValues
    <3>4. e.ty \in Annotation
      BY <2>1, ExprIs, WrittenHolds
    <3>5. <<ExprTyKind[e], ValuesOf(d, s, e, inst)>> \in TypeMeanings(d, inst)
      BY <3>3, <3>4 DEF TypeMeanings
    <3> QED BY <1>1, <1>2, <3>5 DEF Counted
  <2>2. CASE e.k # "cast"
    <3>1. \A i \in DOMAIN Operands(e) : <<ExprTyKind[Operands(e)[i]], ValuesOf(d, s, Operands(e)[i], inst)>> \in M
      BY PartsStay DEF ExprMeanings
    <3>2. Large(ExprTyKind[e], ValuesOf(d, s, e, inst)) /\ Fits(ExprTyKind[e], ValuesOf(d, s, e, inst), M)
      <4> HIDE DEF M
      <4> QED BY <2>2, <3>1, ExprFits
    <3>3. \E n : ValuesOf(d, s, e, inst) = Numbers(n)
      BY <1>2, <3>2 DEF Large, Fits
    <3> QED BY <3>3, NumbersAreCounted
  <2> QED BY <2>1, <2>2
<1>3. \A m \in ExprMeanings(d, inst) :
        \/ m \in TypeMeanings(d, inst)
        \/ \E s \in DOMAIN d.body, e \in Expr : m[1] = ExprTyKind[e] /\ m[2] = ValuesOf(d, s, e, inst)
  BY DEF ExprMeanings
<1> QED BY <1>1, <1>2, <1>3 DEF Counted

(* The values of a pair of a sound set are those its kind lets through. *)
LEMMA KindLetsThrough ==
  ASSUME NEW M, Sound(M), Counted(M)
  PROVE  \A m \in M : m[2] \cap Value \subseteq Members[m[1]]
<1> DEFINE Right(k) == \A m \in M : m[1] = k => m[2] \cap Value \subseteq Members[k]
           S == {k \in Kind : Right(k)}
<1>1. ASSUME NEW k \in Kind, \A i \in DOMAIN Parts(k) : Parts(k)[i] \in S
      PROVE  k \in S
  <2> SUFFICES ASSUME NEW m \in M, m[1] = k, NEW v \in m[2], v \in Value PROVE v \in Members[k]
    OBVIOUS
  <2> DEFINE parts == [i \in DOMAIN Parts(k) |-> Members[Parts(k)[i]]]
             V == m[2]
  <2>1. Members[k] = KindMembers(k, parts)
    BY MembersHolds
  <2>2. Fits(k, V, M) /\ (k.k = "Uint" => v[1] = "number")
    BY DEF Sound, Counted
  <2>3. k.k \notin {"Struct", "Enum"}
    BY <2>2 DEF Fits
  <2>4. \A i \in DOMAIN Parts(k) : parts[i] = Members[Parts(k)[i]]
    OBVIOUS
  <2>0. v \in V
    OBVIOUS
  <2> HIDE DEF parts, V
  <2>5. CASE k.k = "Boolean"
    <3>1. V = Booleans
      BY <2>2, <2>5 DEF Fits
    <3>2. v[1] = "boolean"
      BY <2>0, <3>1 DEF Booleans
    <3> QED BY <2>1, <2>5, <3>2 DEF KindMembers, IsSeqKind
  <2>6. CASE k.k = "Field"
    <3>1. V = Numbers(FieldSize)
      BY <2>2, <2>6 DEF Fits
    <3>2. v[1] = "number"
      BY <2>0, <3>1, NumbersAreCounted
    <3> QED BY <2>1, <2>6, <3>2 DEF KindMembers, IsSeqKind
  <2>7. CASE k.k = "Uint"
    <3>1. k.upper # None => V = Numbers(k.upper) /\ k.upper \in Int
      BY <2>2, <2>7, KindIs, Limits DEF Fits
    <3>2. k.upper # None => v[2] < k.upper
      BY <2>0, <3>1 DEF Numbers
    <3> QED BY <2>1, <2>2, <2>7, <3>2 DEF KindMembers, IsSeqKind
  <2>8. CASE k.k = "Bytes"
    <3>1. V = {<<"bytes", k.size>>}
      BY <2>2, <2>8 DEF Fits
    <3>2. v[1] = "bytes" /\ v[2] = k.size
      BY <2>0, <3>1
    <3> QED BY <2>1, <2>8, <3>2 DEF KindMembers, IsSeqKind
  <2>9. CASE IsSeqKind(k)
    <3>1. PICK sets : /\ DOMAIN sets = 1..SeqLen(k) /\ V = SequencesOf(sets)
                      /\ \A i \in 1..SeqLen(k) : <<SeqElem(k, i), sets[i]>> \in M
      BY <2>2, <2>9 DEF Fits
    <3>2. v[1] = "sequence" /\ DOMAIN v[2] = 1..SeqLen(k) /\ \A i \in 1..SeqLen(k) : v[2][i] \in sets[i]
      BY <2>0, <3>1 DEF SequencesOf, Rows
    <3>3. SeqLen(k) \in Nat
      BY <2>9, KindIsSeq
    <3>4. Len(v[2]) = SeqLen(k) /\ \A i \in DOMAIN v[2] : v[2][i] \in Value
      BY <3>2, <3>3, ValueIs
    <3>5. ASSUME NEW i \in 1..SeqLen(k)
          PROVE  v[2][i] \in parts[IF k.k = "Vector" THEN 1 ELSE i]
      <4>1. parts[IF k.k = "Vector" THEN 1 ELSE i] = Members[SeqElem(k, i)] /\ SeqElem(k, i) \in S
        <5>1. CASE k.k = "Vector"
          <6>1. Parts(k) = <<k.elem>> /\ SeqElem(k, i) = k.elem
            BY <5>1 DEF Parts, SeqElem
          <6> QED BY <1>1, <2>4, <5>1, <6>1
        <5>2. CASE k.k = "Tuple"
          <6>1. Parts(k) = k.elems /\ SeqElem(k, i) = k.elems[i] /\ SeqLen(k) = Len(k.elems)
            BY <5>2 DEF Parts, SeqElem, SeqLen
          <6>2. k.elems \in Seq(Kind)
            BY <5>2, KindIs
          <6>3. i \in DOMAIN Parts(k)
            BY <6>1, <6>2
          <6> QED BY <1>1, <2>4, <5>2, <6>1, <6>3
        <5> QED BY <2>9, <5>1, <5>2 DEF IsSeqKind
      <4>2. <<SeqElem(k, i), sets[i]>> \in M
        BY <3>1
      <4>3. Right(SeqElem(k, i))
        BY <4>1
      <4>4. sets[i] \cap Value \subseteq Members[SeqElem(k, i)]
        BY <4>2, <4>3
      <4> QED BY <3>2, <3>4, <4>1, <4>4
    <3>6. k.k \in {"Tuple", "Vector"}
      BY <2>9 DEF IsSeqKind
    <3> QED BY <2>1, <2>9, <3>2, <3>4, <3>5, <3>6 DEF KindMembers
  <2>10. CASE k.k = "Unknown"
    BY <2>1, <2>10 DEF KindMembers, IsSeqKind
  <2> QED BY <2>3, <2>5, <2>6, <2>7, <2>8, <2>9, <2>10, KindIs DEF IsSeqKind
<1>2. Kind \subseteq S
  <2> HIDE DEF S
  <2> QED BY <1>1, KindInduction
<1> SUFFICES ASSUME NEW m \in M PROVE m[2] \cap Value \subseteq Members[m[1]]
  OBVIOUS
<1>3. m[1] \in Kind
  BY DEF Sound, Fits
<1>4. Right(m[1])
  BY <1>2, <1>3
<1> QED BY <1>4

-----------------------------------------------------------------------------
(* What the declarations are lowered to.                                   *)

\* A declaration is lowered to a struct, an enum or nothing known.
LEMMA DeclKindIs ==
  ASSUME NEW room \in 0..MaxDepth, NEW user \in ToSet(program.decls), NEW visited \in SUBSET STRING,
         NEW i \in DOMAIN program.decls
  PROVE  \/ /\ room > 0
            /\ DeclKinds[room][user][visited][i] =
                 Struct(Decl(i).name,
                        BuildStructFields(user, Decl(i), visited \cup {Decl(i).name}, DeclKinds[room - 1]))
         \/ DeclKinds[room][user][visited][i] = Enum(Decl(i).name)
         \/ DeclKinds[room][user][visited][i] = Unknown
<1> DEFINE Of(u, seen, j) ==
      LET owner == Decl(j)
          within == seen \cup {owner.name}
      IN  CASE room > 0 /\ owner.kind = "struct" /\ owner.name \notin seen ->
                 Struct(owner.name, BuildStructFields(u, owner, within, DeclKinds[room - 1]))
            [] room > 0 /\ owner.kind = "enum" -> Enum(owner.name)
            [] OTHER -> Unknown
<1>1. DeclKinds[room] = [u \in ToSet(program.decls) |-> [seen \in SUBSET STRING |->
                           [j \in DOMAIN program.decls |-> Of(u, seen, j)]]]
  BY DeclKindsHolds
<1>2. DeclKinds[room][user][visited][i] = Of(user, visited, i)
  <2> HIDE DEF Of
  <2> QED BY <1>1
<1> QED BY <1>2

\* A name is lowered to what its declaration is lowered to, if to anything.
LEMMA NamedIs ==
  ASSUME WellFormed(program), NEW c \in Declaration, NEW s \in 0..Len(c.body), NEW x, NEW visited, NEW kinds
  PROVE  \/ LowerNamedAt(c, s, x, visited, kinds) = Unknown
         \/ \E i \in DOMAIN program.decls :
              /\ Resolve(c, s, x).is = "item" /\ Resolve(c, s, x).at = i
              /\ Resolve(c, 0, x).is = "item" /\ Resolve(c, 0, x).at = i
              /\ LowerNamedAt(c, s, x, visited, kinds) = kinds[c][visited][i]
<1> DEFINE r == Resolve(c, s, x)
<1>1. r.is = "item" => r.at \in DOMAIN program.decls /\ Resolve(c, 0, x) = r
  BY ResolveHolds
<1>2. LowerNamedAt(c, s, x, visited, kinds) = IF r.is = "item" THEN kinds[c][visited][r.at] ELSE Unknown
  BY DEF LowerNamedAt
<1> QED BY <1>1, <1>2

\* The type of a field is lowered as written, or to what the field names.
LEMMA LoweredInIs ==
  ASSUME WellFormed(program), NEW user, NEW owner \in Declaration, NEW t, NEW visited, NEW kinds, NEW kind,
         kind = LowerTypeIn(user, owner, t, visited, kinds)
  PROVE  \/ t.k # "Ref" /\ kind = TypeNodeKind[t]
         \/ kind = Unknown
         \/ t.k = "Ref" /\ \E i \in DOMAIN program.decls :
              /\ Resolve(owner, 0, t.name).is = "item" /\ Resolve(owner, 0, t.name).at = i
              /\ kind = kinds[owner][visited][i]
<1>1. 0 \in 0..Len(owner.body)
  BY DeclarationHolds
<1>2. kind \in {IF t.k # "Ref" THEN TypeNodeKind[t] ELSE Unknown,
                IF t.k # "Ref" THEN TypeNodeKind[t] ELSE LowerNamedAt(owner, 0, t.name, visited, kinds)}
  BY DEF LowerTypeIn
<1> QED BY <1>1, <1>2, NamedIs

(* A declaration is lowered to a kind, one level deeper with each struct. *)
LEMMA DeclKindsAreKinds ==
  ASSUME WellFormed(program)
  PROVE  \A room \in 0..MaxDepth : \A user \in ToSet(program.decls), visited \in SUBSET STRING, i \in DOMAIN program.decls :
           DeclKinds[room][user][visited][i] \in KindUpTo[MaxNesting + room]
<1> DEFINE Right(n) == \A user \in ToSet(program.decls), visited \in SUBSET STRING, i \in DOMAIN program.decls :
                         DeclKinds[n][user][visited][i] \in KindUpTo[MaxNesting + n]
           S == {n \in Nat : n <= MaxDepth => Right(n)}
<1>0. /\ MaxNesting \in Nat /\ MaxDepth \in Nat /\ Deepest \in Nat
      /\ \A n \in 0..MaxDepth : MaxNesting + n \in 0..Deepest
  BY DeepestIsNumber
<1>1. ASSUME NEW n \in 0..MaxDepth, n > 0 => Right(n - 1) PROVE Right(n)
  <2> SUFFICES ASSUME NEW user \in ToSet(program.decls), NEW visited \in SUBSET STRING, NEW i \in DOMAIN program.decls
               PROVE  DeclKinds[n][user][visited][i] \in KindUpTo[MaxNesting + n]
    OBVIOUS
  <2> DEFINE kind == DeclKinds[n][user][visited][i]
             owner == Decl(i)
             within == visited \cup {owner.name}
             inner == IF MaxNesting + n = 0 THEN {} ELSE KindUpTo[(MaxNesting + n) - 1]
             fields == BuildStructFields(user, owner, within, DeclKinds[n - 1])
  <2>1. KindUpTo[MaxNesting + n] = KindsOver(inner)
    BY <1>0, KindUpToHolds
  <2>2. owner \in Declaration /\ owner \in ToSet(program.decls) /\ owner.name \in STRING
    BY ProgramHolds, DeclarationHolds
  <2> HIDE DEF inner
  <2>3. CASE kind = Unknown
    BY <2>1, <2>3 DEF KindsOver, Unknown
  <2>4. CASE kind = Enum(owner.name)
    <3> HIDE DEF owner, kind
    <3>1. Enum(owner.name) \in [k : {"Enum"}, name : STRING]
      BY <2>2 DEF Enum
    <3>2. kind \in KindUpTo[MaxNesting + n]
      BY <2>1, <2>4, <3>1 DEF KindsOver
    <3> QED BY <3>2 DEF kind
  <2>5. CASE n > 0 /\ kind = Struct(owner.name, fields)
    <3>1. n - 1 \in 0..MaxDepth /\ (MaxNesting + n) - 1 = MaxNesting + (n - 1) /\ MaxNesting + n # 0
      BY <1>0, <2>5
    <3>2. inner = KindUpTo[MaxNesting + (n - 1)]
      BY <3>1 DEF inner
    <3>3. within \in SUBSET STRING
      BY <2>2
    <3>4. ASSUME NEW j \in DOMAIN owner.fields
          PROVE  LowerTypeIn(user, owner, owner.fields[j].ty, within, DeclKinds[n - 1]) \in inner
      <4> DEFINE t == owner.fields[j].ty
                 lowered == LowerTypeIn(user, owner, t, within, DeclKinds[n - 1])
      <4>1. t \in Written
        BY <2>2, DeclarationHolds
      <4>2. CASE lowered = TypeNodeKind[t]
        <5>1. TypeNodeKind[t] \in KindUpTo[MaxNesting]
          BY <1>0, <4>1, TypeNodeKindIsKind DEF Written
        <5>2. MaxNesting + (n - 1) \in 0..Deepest /\ MaxNesting \in 0..(MaxNesting + (n - 1))
          BY <1>0, <3>1
        <5>3. KindUpTo[MaxNesting] \subseteq KindUpTo[MaxNesting + (n - 1)]
          BY <5>2, KindUpToGrows
        <5> QED BY <3>2, <4>2, <5>1, <5>3
      <4>3. CASE lowered = Unknown
        <5>1. Unknown \in KindUpTo[MaxNesting + (n - 1)]
          BY <1>0, <3>1, KindUpToHolds DEF KindsOver
        <5> QED BY <3>2, <4>3, <5>1
      <4>4. ASSUME NEW at \in DOMAIN program.decls, lowered = DeclKinds[n - 1][owner][within][at]
            PROVE  lowered \in inner
        <5>1. Right(n - 1)
          BY <1>1, <2>5
        <5> HIDE DEF owner, within, lowered
        <5>2. DeclKinds[n - 1][owner][within][at] \in KindUpTo[MaxNesting + (n - 1)]
          BY <2>2, <3>3, <5>1
        <5> QED BY <3>2, <4>4, <5>2
      <4>5. \/ lowered = TypeNodeKind[t]
            \/ lowered = Unknown
            \/ \E at \in DOMAIN program.decls : lowered = DeclKinds[n - 1][owner][within][at]
        <5> DEFINE kinds == DeclKinds[n - 1]
        <5>1. lowered = LowerTypeIn(user, owner, t, within, kinds)
          OBVIOUS
        <5> HIDE DEF t, within, owner, kinds, lowered
        <5>2. \/ lowered = TypeNodeKind[t]
              \/ lowered = Unknown
              \/ \E at \in DOMAIN program.decls : lowered = kinds[owner][within][at]
          BY <2>2, <5>1, LoweredInIs
        <5> QED BY <5>2 DEF kinds
      <4> QED BY <4>2, <4>3, <4>4, <4>5
    <3>5. Len(owner.fields) \in Nat /\ DOMAIN owner.fields = 1..Len(owner.fields)
          /\ \A j \in DOMAIN owner.fields : owner.fields[j].name \in STRING
      BY <2>2, DeclarationHolds
    <3>6. fields \in Seq([name : STRING, kind : inner])
      <4> HIDE DEF owner, within
      <4>1. \A j \in DOMAIN owner.fields : fields[j] \in [name : STRING, kind : inner]
        BY <3>4, <3>5 DEF BuildStructFields
      <4>2. DOMAIN fields = 1..Len(owner.fields) /\ fields = [j \in 1..Len(owner.fields) |-> fields[j]]
        BY <3>5 DEF BuildStructFields
      <4> DEFINE length == Len(owner.fields)
                 T == [name : STRING, kind : inner]
      <4>3. length \in Nat /\ \A j \in 1..length : fields[j] \in T
        BY <3>5, <4>1
      <4>4. fields = [j \in 1..length |-> fields[j]]
        BY <4>2
      <4> HIDE DEF fields, length, T
      <4>5. fields \in [1..length -> T]
        BY <4>3, <4>4
      <4>6. fields \in Seq(T)
        BY <4>3, <4>5
      <4> QED BY <4>6 DEF T
    <3>7. Struct(owner.name, fields) \in [k : {"Struct"}, name : STRING, fields : Seq([name : STRING, kind : inner])]
      <4> HIDE DEF owner, fields
      <4> QED BY <2>2, <3>6 DEF Struct
    <3> HIDE DEF owner, fields, kind
    <3>8. kind \in KindUpTo[MaxNesting + n]
      BY <2>1, <2>5, <3>7 DEF KindsOver
    <3> QED BY <3>8 DEF kind
  <2>6. \/ n > 0 /\ kind = Struct(owner.name, fields)
        \/ kind = Enum(owner.name)
        \/ kind = Unknown
    BY DeclKindIs
  <2> QED BY <2>3, <2>4, <2>5, <2>6
<1>2. 0 \in S
  <2> HIDE DEF Right
  <2> QED BY <1>0, <1>1
<1>3. ASSUME NEW n \in S PROVE n + 1 \in S
  <2> HIDE DEF Right
  <2> SUFFICES ASSUME n + 1 <= MaxDepth PROVE Right(n + 1)
    OBVIOUS
  <2>1. n + 1 \in 0..MaxDepth /\ (n + 1) - 1 = n /\ n <= MaxDepth
    BY <1>0
  <2> QED BY <1>1, <2>1
<1>4. S = Nat
  <2> HIDE DEF S
  <2>1. S \in SUBSET Nat
    BY DEF S
  <2> QED BY <1>2, <1>3, <2>1, NumberInduction
<1> HIDE DEF Right
<1>5. \A n \in 0..MaxDepth : Right(n)
  BY <1>0, <1>4
<1> QED BY <1>5 DEF Right

-----------------------------------------------------------------------------
(* What kinds mean, those of declarations included.                        *)

\* The kind of a declaration lowered with this room, and what it stands for.
IsNamed(room, kind, values) ==
  \E user \in ToSet(program.decls), visited \in SUBSET STRING, i \in DOMAIN program.decls :
    kind = DeclKinds[room][user][visited][i] /\ values = {<<"declared", i>>}

\* The kind of an annotation in some declaration, and its values there.
IsLowered(kind, values, inst) == \E c \in ToSet(program.decls) : <<kind, values>> \in TypeMeanings(c, inst)

\* Nothing is known of what is unknown.
LEMMA UnknownIsAny == Unknown \in Kind /\ Members[Unknown] = Value
<1>1. Unknown \in Kind
  <2> DEFINE inner == IF Deepest = 0 THEN {} ELSE KindUpTo[Deepest - 1]
  <2>1. Kind = KindsOver(inner)
    BY DeepestIsNumber, KindUpToHolds DEF Kind
  <2> HIDE DEF inner
  <2> QED BY <2>1 DEF KindsOver
<1> DEFINE parts == [i \in DOMAIN Parts(Unknown) |-> Members[Parts(Unknown)[i]]]
<1>2. Members[Unknown] = KindMembers(Unknown, parts)
  BY <1>1, MembersHolds
<1> HIDE DEF parts
<1>3. Unknown.k = "Unknown"
  BY DEF Unknown
<1> QED BY <1>1, <1>2, <1>3 DEF KindMembers, IsSeqKind

(* A named type stands for the declaration it names, any other for what it is. *)
LEMMA NamedValuesHold ==
  ASSUME NEW d, NEW t \in Annotation, t.k = "Ref", Resolve(d, 0, t.name).is = "item", NEW inst
  PROVE  Values(d, t, inst) = {<<"declared", Resolve(d, 0, t.name).at>>}
<1> DEFINE parts == [i \in DOMAIN Parts(t) |-> Values(d, Parts(t)[i], inst)]
<1>1. Values(d, t, inst) = AnnotationValues(d, t, inst, parts)
  BY ValuesHolds
<1> HIDE DEF parts
<1>2. Values(d, t, inst) = NamedValues(d, t.name, inst)
  BY <1>1 DEF AnnotationValues
<1> QED BY <1>2 DEF NamedValues

\* The kind of a field of a struct means the values of the field.
LEMMA FieldMeans ==
  ASSUME WellFormed(program), NEW user, NEW owner \in ToSet(program.decls), NEW t \in Written,
         NEW visited \in SUBSET STRING, NEW room, NEW kind,
         kind = LowerTypeIn(user, owner, t, visited, DeclKinds[room]), NEW inst
  PROVE  \/ kind = Unknown
         \/ IsNamed(room, kind, Values(owner, t, inst))
         \/ IsLowered(kind, Values(owner, t, inst), inst)
<1>1. owner \in Declaration
  BY ProgramHolds DEF ToSet, Decl
<1>2. t \in Annotation
  BY WrittenHolds
<1> DEFINE kinds == DeclKinds[room]
<1>3. kind = LowerTypeIn(user, owner, t, visited, kinds)
  OBVIOUS
<1> HIDE DEF kinds
<1>4. \/ t.k # "Ref" /\ kind = TypeNodeKind[t]
      \/ kind = Unknown
      \/ t.k = "Ref" /\ \E i \in DOMAIN program.decls :
           /\ Resolve(owner, 0, t.name).is = "item" /\ Resolve(owner, 0, t.name).at = i
           /\ kind = kinds[owner][visited][i]
  BY <1>1, <1>3, LoweredInIs
<1>5. CASE kind = TypeNodeKind[t]
  <2>1. <<kind, Values(owner, t, inst)>> \in TypeMeanings(owner, inst)
    BY <1>2, <1>5 DEF TypeMeanings
  <2> QED BY <2>1 DEF IsLowered
<1>6. ASSUME t.k = "Ref", NEW i \in DOMAIN program.decls,
             Resolve(owner, 0, t.name).is = "item", Resolve(owner, 0, t.name).at = i,
             kind = kinds[owner][visited][i]
      PROVE  IsNamed(room, kind, Values(owner, t, inst))
  <2>1. Values(owner, t, inst) = {<<"declared", i>>}
    BY <1>2, <1>6, NamedValuesHold
  <2> QED BY <1>6, <2>1 DEF IsNamed, kinds
<1> QED BY <1>4, <1>5, <1>6

\* A lowered annotation lets its values through.
LEMMA LoweredLetsThrough ==
  ASSUME NEW inst \in Instantiations, inst.N > 0, NEW kind, NEW values, IsLowered(kind, values, inst)
  PROVE  values \cap Value \subseteq Members[kind]
<1>1. PICK c : <<kind, values>> \in TypeMeanings(c, inst)
  BY DEF IsLowered
<1> DEFINE M == TypeMeanings(c, inst)
           m == <<kind, values>>
<1>2. Sound(M) /\ Counted(M)
  BY TypesAreSound, TypesAreCounted
<1>3. m \in M /\ m[1] = kind /\ m[2] = values
  BY <1>1
<1> HIDE DEF M, m
<1>4. m[2] \cap Value \subseteq Members[m[1]]
  BY <1>2, <1>3, KindLetsThrough
<1> QED BY <1>3, <1>4

(* The kind of a declaration lets it through, with the fields it has. *)
LEMMA DeclarationsLetThrough ==
  ASSUME WellFormed(program), \A inst \in Instantiations : inst.N > 0
  PROVE  \A room \in 0..MaxDepth : \A kind, values :
           IsNamed(room, kind, values) => kind \in Kind /\ values \cap Value \subseteq Members[kind]
<1> DEFINE Right(n) == \A kind, values : IsNamed(n, kind, values) => values \cap Value \subseteq Members[kind]
           S == {n \in Nat : n <= MaxDepth => Right(n)}
<1>0. MaxDepth \in Nat
  BY DeepestIsNumber
<1>a. ASSUME NEW n \in 0..MaxDepth, NEW kind, NEW values, IsNamed(n, kind, values) PROVE kind \in Kind
  <2>1. kind \in KindUpTo[MaxNesting + n]
    BY <1>a, DeclKindsAreKinds DEF IsNamed
  <2>2. Deepest \in Nat /\ MaxNesting + n \in 0..Deepest
    BY DeepestIsNumber
  <2>3. KindUpTo[MaxNesting + n] \subseteq KindUpTo[Deepest]
    BY <2>2, KindUpToGrows
  <2> QED BY <2>1, <2>3 DEF Kind
<1>1. ASSUME NEW n \in 0..MaxDepth, n > 0 => Right(n - 1) PROVE Right(n)
  <2> SUFFICES ASSUME NEW kind, NEW values, IsNamed(n, kind, values), NEW v \in values, v \in Value
               PROVE  v \in Members[kind]
    OBVIOUS
  <2>1. kind \in Kind
    BY <1>a
  <2>2. PICK user \in ToSet(program.decls), visited \in SUBSET STRING, i \in DOMAIN program.decls :
          kind = DeclKinds[n][user][visited][i] /\ values = {<<"declared", i>>}
    BY DEF IsNamed
  <2> DEFINE parts == [j \in DOMAIN Parts(kind) |-> Members[Parts(kind)[j]]]
             owner == Decl(i)
             within == visited \cup {owner.name}
             fields == BuildStructFields(user, owner, within, DeclKinds[n - 1])
  <2>3. Members[kind] = KindMembers(kind, parts)
    BY <2>1, MembersHolds
  <2>4. v = <<"declared", i>> /\ v[1] = "declared" /\ v[2] = i
    BY <2>2
  <2>5. owner \in Declaration /\ owner \in ToSet(program.decls) /\ owner.name \in STRING
    BY ProgramHolds, DeclarationHolds
  <2>6. CASE kind = Unknown
    BY <2>6, UnknownIsAny
  <2>7. CASE kind = Enum(owner.name)
    <3>1. kind.k = "Enum" /\ kind.name = owner.name
      BY <2>7 DEF Enum
    <3> HIDE DEF parts
    <3> QED BY <2>3, <2>4, <3>1 DEF KindMembers, IsSeqKind
  <2>8. CASE n > 0 /\ kind = Struct(owner.name, fields)
    <3>1. kind.k = "Struct" /\ kind.name = owner.name /\ kind.fields = fields
      <4> HIDE DEF fields
      <4> QED BY <2>8 DEF Struct
    <3>2. /\ Len(owner.fields) \in Nat /\ DOMAIN owner.fields = 1..Len(owner.fields)
          /\ \A j \in DOMAIN owner.fields : owner.fields[j].ty \in Written
      BY <2>5, DeclarationHolds
    <3>3. /\ DOMAIN fields = DOMAIN owner.fields
          /\ \A j \in DOMAIN fields :
               /\ fields[j].name = owner.fields[j].name
               /\ fields[j].kind = LowerTypeIn(user, owner, owner.fields[j].ty, within, DeclKinds[n - 1])
      <4> HIDE DEF owner, within
      <4> QED BY DEF BuildStructFields
    <3>4. Parts(kind) = [j \in DOMAIN fields |-> fields[j].kind]
      <4> HIDE DEF fields
      <4> QED BY <3>1 DEF Parts
    <3>5. ASSUME NEW j \in DOMAIN fields, NEW inst \in Instantiations
          PROVE  Values(owner, owner.fields[j].ty, inst) \cap Value \subseteq parts[j]
      <4> DEFINE t == owner.fields[j].ty
                 part == LowerTypeIn(user, owner, t, within, DeclKinds[n - 1])
      <4>1. parts[j] = Members[part]
        <5> HIDE DEF fields
        <5> QED BY <3>3, <3>4
      <4>2. t \in Written
        BY <3>2, <3>3
      <4>3. within \in SUBSET STRING
        BY <2>5
      <4>4. \/ part = Unknown
            \/ IsNamed(n - 1, part, Values(owner, t, inst))
            \/ IsLowered(part, Values(owner, t, inst), inst)
        <5> DEFINE k == part
        <5>1. k = LowerTypeIn(user, owner, t, within, DeclKinds[n - 1])
          OBVIOUS
        <5> HIDE DEF k, t, within, owner
        <5>2. \/ k = Unknown
              \/ IsNamed(n - 1, k, Values(owner, t, inst))
              \/ IsLowered(k, Values(owner, t, inst), inst)
          BY <2>5, <4>2, <4>3, <5>1, FieldMeans
        <5> QED BY <5>1, <5>2
      <4> HIDE DEF t, part, owner
      <4>5. Values(owner, t, inst) \cap Value \subseteq Members[part]
        <5>1. CASE part = Unknown
          BY <5>1, UnknownIsAny
        <5>2. CASE IsNamed(n - 1, part, Values(owner, t, inst))
          BY <1>1, <2>8, <5>2
        <5>3. CASE IsLowered(part, Values(owner, t, inst), inst)
          BY <5>3, LoweredLetsThrough
        <5> QED BY <4>4, <5>1, <5>2, <5>3
      <4> QED BY <4>1, <4>5 DEF t
    <3>6. Len(fields) = Len(owner.fields)
      BY <3>2, <3>3
    <3> HIDE DEF parts, fields
    <3>7. FieldsFit(v, kind, parts)
      BY <2>4, <3>1, <3>3, <3>5, <3>6 DEF FieldsFit
    <3> QED BY <2>3, <2>4, <3>1, <3>7 DEF KindMembers, IsSeqKind
  <2>9. \/ n > 0 /\ kind = Struct(owner.name, fields)
        \/ kind = Enum(owner.name)
        \/ kind = Unknown
    BY <2>2, DeclKindIs
  <2> QED BY <2>6, <2>7, <2>8, <2>9
<1>2. 0 \in S
  <2> HIDE DEF Right
  <2> QED BY <1>0, <1>1
<1>3. ASSUME NEW n \in S PROVE n + 1 \in S
  <2> HIDE DEF Right
  <2> SUFFICES ASSUME n + 1 <= MaxDepth PROVE Right(n + 1)
    OBVIOUS
  <2>1. n + 1 \in 0..MaxDepth /\ (n + 1) - 1 = n /\ n <= MaxDepth
    BY <1>0
  <2> QED BY <1>1, <2>1
<1>4. S = Nat
  <2> HIDE DEF S
  <2>1. S \in SUBSET Nat
    BY DEF S
  <2> QED BY <1>2, <1>3, <2>1, NumberInduction
<1> HIDE DEF Right
<1>5. \A n \in 0..MaxDepth : Right(n)
  BY <1>0, <1>4
<1> QED BY <1>5, <1>a DEF Right

-----------------------------------------------------------------------------
(* What the type of an expression means.                                   *)

\* What is known of an expression of kind `kind` in d that may have these values.
Means(kind, values, d, inst) ==
  \/ kind = Unknown
  \/ \E room \in 0..MaxDepth : IsNamed(room, kind, values)
  \/ IsLowered(kind, values, inst)
  \/ <<kind, values>> \in ExprMeanings(d, inst)

\* type_kind_resolved gives a kind that means the values of the annotation.
LEMMA ResolvedMeans ==
  ASSUME WellFormed(program), NEW c \in ToSet(program.decls), NEW s \in 0..Len(c.body), NEW t \in Written,
         NEW d, NEW inst
  PROVE  Means(TypeKindResolved(c, s, t), Values(c, t, inst), d, inst)
<1>1. c \in Declaration /\ t \in Annotation
  BY ProgramHolds, WrittenHolds DEF ToSet, Decl
<1>2. CASE t.k # "Ref"
  <2>1. <<TypeNodeKind[t], Values(c, t, inst)>> \in TypeMeanings(c, inst)
    BY <1>1 DEF TypeMeanings
  <2>2. IsLowered(TypeNodeKind[t], Values(c, t, inst), inst)
    BY <2>1 DEF IsLowered
  <2> QED BY <1>2, <2>2 DEF TypeKindResolved, Means
<1>3. CASE t.k = "Ref"
  <2> DEFINE kinds == DeclKinds[MaxDepth]
             kind == LowerNamedAt(c, s, t.name, {}, kinds)
  <2>1. TypeKindResolved(c, s, t) = kind
    BY <1>3 DEF TypeKindResolved, NamedTypeTy
  <2>2. \/ kind = Unknown
        \/ \E i \in DOMAIN program.decls :
             /\ Resolve(c, 0, t.name).is = "item" /\ Resolve(c, 0, t.name).at = i
             /\ kind = kinds[c][{}][i]
    <3> HIDE DEF kinds
    <3> QED BY <1>1, NamedIs
  <2>3. ASSUME NEW i \in DOMAIN program.decls,
               Resolve(c, 0, t.name).is = "item", Resolve(c, 0, t.name).at = i,
               kind = kinds[c][{}][i]
        PROVE  Means(kind, Values(c, t, inst), d, inst)
    <3>1. Values(c, t, inst) = {<<"declared", i>>}
      BY <1>1, <1>3, <2>3, NamedValuesHold
    <3>2. MaxDepth \in 0..MaxDepth /\ {} \in SUBSET STRING
      BY DeepestIsNumber
    <3> HIDE DEF kind
    <3>3. IsNamed(MaxDepth, kind, Values(c, t, inst))
      BY <2>3, <3>1, <3>2 DEF IsNamed
    <3> QED BY <3>2, <3>3 DEF Means
  <2> HIDE DEF kind, kinds
  <2> QED BY <2>1, <2>2, <2>3 DEF Means
<1> QED BY <1>2, <1>3

\* The kind a struct is lowered to, fields and all.
IsStruct(room, kind, user, visited, i) ==
  /\ room > 0
  /\ kind = Struct(Decl(i).name,
                   BuildStructFields(user, Decl(i), visited \cup {Decl(i).name}, DeclKinds[room - 1]))

\* Only a struct is lowered to a struct.
LEMMA NamedStruct ==
  ASSUME NEW room \in 0..MaxDepth, NEW kind, NEW values, IsNamed(room, kind, values), kind.k = "Struct"
  PROVE  \E user \in ToSet(program.decls), visited \in SUBSET STRING, i \in DOMAIN program.decls :
           IsStruct(room, kind, user, visited, i) /\ values = {<<"declared", i>>}
<1>1. PICK user \in ToSet(program.decls), visited \in SUBSET STRING, i \in DOMAIN program.decls :
        kind = DeclKinds[room][user][visited][i] /\ values = {<<"declared", i>>}
  BY DEF IsNamed
<1> DEFINE lowered == Struct(Decl(i).name,
                             BuildStructFields(user, Decl(i), visited \cup {Decl(i).name}, DeclKinds[room - 1]))
<1>2. (room > 0 /\ kind = lowered) \/ kind = Enum(Decl(i).name) \/ kind = Unknown
  BY <1>1, DeclKindIs
<1>3. room > 0 /\ kind = lowered
  <2> HIDE DEF lowered
  <2> QED BY <1>2 DEF Enum, Unknown
<1>4. IsStruct(room, kind, user, visited, i)
  BY <1>3 DEF IsStruct
<1> QED BY <1>1, <1>4

\* FieldKind gives a kind that means the values of the member.
LEMMA MemberMeans ==
  ASSUME WellFormed(program), NEW d \in Declaration, NEW inst \in Instantiations, NEW kind, NEW values,
         Means(kind, values, d, inst), NEW x
  PROVE  Means(FieldKind(kind, x), OrOpaque(FieldValues(values, x, inst)), d, inst)
<1> DEFINE at == {j \in DOMAIN kind.fields : kind.fields[j].name = x}
<1>1. CASE kind.k # "Struct"
  BY <1>1 DEF FieldKind, Means
<1>2. CASE kind.k = "Struct" /\ at = {}
  BY <1>2 DEF FieldKind, Means
<1>3. CASE kind.k = "Struct" /\ at # {}
  <2>1. PICK room \in 0..MaxDepth : IsNamed(room, kind, values)
    <3>1. kind # Unknown
      BY <1>3 DEF Unknown
    <3>2. ~IsLowered(kind, values, inst)
      <4> SUFFICES ASSUME NEW c, <<kind, values>> \in TypeMeanings(c, inst) PROVE FALSE
        BY DEF IsLowered
      <4> DEFINE m == <<kind, values>>
      <4>1. Sound(TypeMeanings(c, inst)) /\ m \in TypeMeanings(c, inst) /\ m[1] = kind /\ m[2] = values
        BY TypesAreSound
      <4> HIDE DEF m
      <4> QED BY <1>3, <4>1 DEF Sound, Fits
    <3>3. <<kind, values>> \notin ExprMeanings(d, inst)
      <4> SUFFICES ASSUME <<kind, values>> \in ExprMeanings(d, inst) PROVE FALSE
        OBVIOUS
      <4> DEFINE m == <<kind, values>>
      <4>1. Sound(ExprMeanings(d, inst)) /\ m \in ExprMeanings(d, inst) /\ m[1] = kind /\ m[2] = values
        BY ExprsAreSound
      <4> HIDE DEF m
      <4> QED BY <1>3, <4>1 DEF Sound, Fits
    <3> QED BY <3>1, <3>2, <3>3 DEF Means
  <2>2. PICK user \in ToSet(program.decls), visited \in SUBSET STRING, i \in DOMAIN program.decls :
          IsStruct(room, kind, user, visited, i) /\ values = {<<"declared", i>>}
    BY <1>3, <2>1, NamedStruct
  <2> DEFINE owner == Decl(i)
             within == visited \cup {owner.name}
             fields == BuildStructFields(user, owner, within, DeclKinds[room - 1])
  <2>3. room > 0 /\ kind = Struct(owner.name, fields)
    BY <2>2 DEF IsStruct
  <2>4. kind.fields = fields
    <3> HIDE DEF fields
    <3> QED BY <2>3 DEF Struct
  <2>5. owner \in Declaration /\ owner \in ToSet(program.decls) /\ owner.name \in STRING
    BY ProgramHolds, DeclarationHolds
  <2>6. /\ DOMAIN fields = DOMAIN owner.fields
        /\ \A j \in DOMAIN fields :
             /\ fields[j].name = owner.fields[j].name
             /\ fields[j].kind = LowerTypeIn(user, owner, owner.fields[j].ty, within, DeclKinds[room - 1])
    <3> HIDE DEF owner, within
    <3> QED BY DEF BuildStructFields
  <2>7. /\ Len(owner.fields) \in Nat /\ DOMAIN owner.fields = 1..Len(owner.fields)
        /\ \A j \in DOMAIN owner.fields : owner.fields[j].ty \in Written
    BY <2>5, DeclarationHolds
  <2> HIDE DEF fields
  <2>8. at = {j \in DOMAIN owner.fields : owner.fields[j].name = x}
    BY <2>4, <2>6
  <2> DEFINE j == Min(at)
             t == owner.fields[j].ty
             part == LowerTypeIn(user, owner, t, within, DeclKinds[room - 1])
  <2>9. j \in DOMAIN owner.fields
    <3>1. at \in SUBSET Nat
      <4> HIDE DEF owner
      <4> QED BY <2>7, <2>8
    <3> HIDE DEF at
    <3>2. j \in at
      BY <1>3, <3>1, MinHolds
    <3> QED BY <2>8, <3>2
  <2>10. FieldKind(kind, x) = part
    <3>1. FieldKind(kind, x) = kind.fields[j].kind
      BY <1>3 DEF FieldKind
    <3> HIDE DEF j, owner, within
    <3> QED BY <2>4, <2>6, <2>9, <3>1
  <2>11. OrOpaque(FieldValues(values, x, inst)) = Values(owner, t, inst)
    <3>1. t \in Annotation
      BY <2>7, <2>9, WrittenHolds
    <3>2. Values(owner, t, inst) # {}
      BY <3>1, ValuesHold
    <3> DEFINE Of(v) == LET o == Decl(v[2])
                            a == {n \in DOMAIN o.fields : o.fields[n].name = x}
                        IN  IF a = {} THEN {} ELSE Values(o, o.fields[Min(a)].ty, inst)
    <3>3. FieldValues(values, x, inst) = UNION {Of(v) : v \in {v \in values : v[1] = "declared"}}
      BY DEF FieldValues
    <3>4. Of(<<"declared", i>>) = Values(owner, t, inst)
      BY <1>3, <2>8
    <3>5. {v \in values : v[1] = "declared"} = {<<"declared", i>>}
      BY <2>2
    <3> HIDE DEF Of, t, owner
    <3>6. FieldValues(values, x, inst) = Values(owner, t, inst)
      BY <3>3, <3>4, <3>5
    <3> QED BY <3>2, <3>6 DEF OrOpaque
  <2>12. \/ part = Unknown
         \/ IsNamed(room - 1, part, Values(owner, t, inst))
         \/ IsLowered(part, Values(owner, t, inst), inst)
    <3>1. t \in Written /\ within \in SUBSET STRING
      BY <2>5, <2>7, <2>9
    <3> DEFINE k == part
    <3>2. k = LowerTypeIn(user, owner, t, within, DeclKinds[room - 1])
      OBVIOUS
    <3> HIDE DEF k, t, within, owner
    <3>3. \/ k = Unknown
          \/ IsNamed(room - 1, k, Values(owner, t, inst))
          \/ IsLowered(k, Values(owner, t, inst), inst)
      BY <2>5, <3>1, <3>2, FieldMeans
    <3> QED BY <3>2, <3>3
  <2>13. room - 1 \in 0..MaxDepth
    BY <2>3, DeepestIsNumber
  <2> HIDE DEF part, t
  <2>14. Means(part, Values(owner, t, inst), d, inst)
    BY <2>12, <2>13 DEF Means
  <2> QED BY <2>10, <2>11, <2>14
<1> QED BY <1>1, <1>2, <1>3

\* What is asked of the types of the level below.
TypesMean(d, types, inst) ==
  \A s \in DOMAIN d.body, e \in Expr : Means(types[s][e], ValuesOf(d, s, e, inst), d, inst)

\* The type of a name means the values of what binds it.
LEMMA NameMeans ==
  ASSUME WellFormed(program), NEW d \in Declaration, d \in ToSet(program.decls), NEW inst \in Instantiations,
         NEW types, TypesMean(d, types, inst), NEW s \in DOMAIN d.body, NEW e \in Expr, e.k = "name"
  PROVE  Means(ExprTy(d, s, e, types), ValuesOf(d, s, e, inst), d, inst)
<1> DEFINE r == Resolve(d, s, e.name)
           parts == [i \in DOMAIN Operands(e) |-> ValuesOf(d, s, Operands(e)[i], inst)]
           whole == BoundValues(d, s, e, inst)
<1>0. s \in 0..Len(d.body) /\ DOMAIN d.body = 1..Len(d.body) /\ Len(d.body) \in Nat
  BY DeclarationHolds
<1>1. /\ r.is \in {"const", "param", "generic", "nothing", "item"}
      /\ r.is = "const" => r.at \in DOMAIN d.body
      /\ r.is = "param" => r.at \in DOMAIN d.params
  BY <1>0, ResolveHolds
<1>2. ValuesOf(d, s, e, inst) = ExprValues(d, s, e, inst, parts, whole)
  BY ValuesOfHolds
<1>3. ExprTy(d, s, e, types) = IF r.is = "const" /\ d.body[r.at].simple /\ d.body[r.at].ty = Absent
                                 THEN types[r.at][d.body[r.at].value]
                                 ELSE LocalBindingTy(d, r)
  BY DEF ExprTy
<1>4. whole = IF r.is = "const" /\ Binding(d, r).ty = Absent THEN ValuesOf(d, r.at, Binding(d, r).value, inst)
                                                           ELSE Values(d, Binding(d, r).ty, inst)
  BY DEF BoundValues
<1>5. r.is \in {"param", "const"} /\ Binding(d, r).simple => ValuesOf(d, s, e, inst) = whole
  <2> HIDE DEF parts, whole
  <2> QED BY <1>2 DEF ExprValues
<1>6. (r.is = "param" => Binding(d, r) = d.params[r.at]) /\ (r.is = "const" => Binding(d, r) = d.body[r.at])
  BY DEF Binding
<1> HIDE DEF r, parts, whole
<1>7. CASE r.is = "const" /\ d.body[r.at].simple /\ d.body[r.at].ty = Absent
  <2>1. ValuesOf(d, s, e, inst) = ValuesOf(d, r.at, d.body[r.at].value, inst)
    BY <1>4, <1>5, <1>6, <1>7
  <2>2. d.body[r.at].value \in Expr /\ r.at \in DOMAIN d.body
    BY <1>1, <1>7, DeclarationHolds
  <2>3. Means(types[r.at][d.body[r.at].value], ValuesOf(d, r.at, d.body[r.at].value, inst), d, inst)
    BY <2>2 DEF TypesMean
  <2> QED BY <1>3, <1>7, <2>1, <2>3
<1>8. CASE r.is = "const" /\ d.body[r.at].simple /\ d.body[r.at].ty # Absent
  <2>1. ValuesOf(d, s, e, inst) = Values(d, d.body[r.at].ty, inst)
    BY <1>4, <1>5, <1>6, <1>8
  <2>2. ExprTy(d, s, e, types) = TypeKindResolved(d, r.at, d.body[r.at].ty)
    BY <1>3, <1>8 DEF LocalBindingTy
  <2>3. r.at \in 0..Len(d.body) /\ d.body[r.at].ty \in Written
    BY <1>0, <1>1, <1>8, DeclarationHolds
  <2> QED BY <2>1, <2>2, <2>3, ResolvedMeans
<1>9. CASE r.is = "param" /\ d.params[r.at].simple
  <2>1. ValuesOf(d, s, e, inst) = Values(d, d.params[r.at].ty, inst)
    BY <1>4, <1>5, <1>6, <1>9
  <2>2. ExprTy(d, s, e, types) = TypeKindResolved(d, 0, d.params[r.at].ty)
    BY <1>3, <1>9 DEF LocalBindingTy
  <2>3. 0 \in 0..Len(d.body) /\ d.params[r.at].ty \in Written
    BY <1>0, <1>1, <1>9, DeclarationHolds
  <2> QED BY <2>1, <2>2, <2>3, ResolvedMeans
<1>10. CASE ~(r.is = "const" /\ d.body[r.at].simple) /\ ~(r.is = "param" /\ d.params[r.at].simple)
  <2>1. ExprTy(d, s, e, types) = Unknown
    BY <1>3, <1>10 DEF LocalBindingTy
  <2> QED BY <2>1 DEF Means
<1> QED BY <1>7, <1>8, <1>9, <1>10

\* The type of a call means the values of what it may return.
LEMMA CallMeans ==
  ASSUME WellFormed(program), NEW d \in Declaration, NEW inst \in Instantiations,
         NEW types, NEW s \in DOMAIN d.body, NEW e \in Expr, e.k = "call"
  PROVE  Means(ExprTy(d, s, e, types), ValuesOf(d, s, e, inst), d, inst)
<1> DEFINE parts == [i \in DOMAIN Operands(e) |-> ValuesOf(d, s, Operands(e)[i], inst)]
           whole == BoundValues(d, s, e, inst)
           callee == UniqueCallee(d, s, e.name)
<1>1. ValuesOf(d, s, e, inst) = ExprValues(d, s, e, inst, parts, whole)
  BY ValuesOfHolds
<1>2. ExprTy(d, s, e, types) = CalleeReturnTy(d, s, e.name)
  BY DEF ExprTy
<1> HIDE DEF parts, whole
<1>3. ValuesOf(d, s, e, inst) =
        OrOpaque(UNION {Values(Decl(i), Decl(i).ret, inst) : i \in Overloads(d, s, e.name)})
  BY <1>1 DEF ExprValues
<1>4. CASE callee = {}
  BY <1>2, <1>4 DEF CalleeReturnTy, Means
<1>5. CASE callee # {}
  <2> DEFINE c == CHOOSE i \in callee : TRUE
             owner == Decl(c)
  <2>1. c \in callee
    BY <1>5
  <2> HIDE DEF c
  <2>2. /\ c \in DOMAIN program.decls /\ Resolve(d, s, e.name).is = "item" /\ Resolve(d, s, e.name).at = c
        /\ Overloads(d, s, e.name) \subseteq {c}
    BY <2>1, CalleeHolds
  <2>3. c \in DeclsOf(Callables)
    BY <2>1 DEF UniqueCallee
  <2>4. Decl(c).name = e.name
    <3>1. s \in 0..Len(d.body)
      BY DeclarationHolds
    <3> QED BY <2>2, <3>1, ResolveHolds
  <2>5. Overloads(d, s, e.name) = {c}
    BY <2>2, <2>3, <2>4 DEF Overloads, DeclsOf
  <2>6. owner \in Declaration /\ owner \in ToSet(program.decls) /\ owner.ret \in Written /\ 0 \in 0..Len(owner.body)
    BY <2>2, ProgramHolds, DeclarationHolds
  <2>7. ExprTy(d, s, e, types) = TypeKindResolved(owner, 0, owner.ret)
    BY <1>2, <1>5 DEF CalleeReturnTy, c
  <2>8. ValuesOf(d, s, e, inst) = Values(owner, owner.ret, inst)
    <3>1. Values(owner, owner.ret, inst) # {}
      BY <2>6, WrittenHolds, ValuesHold
    <3> QED BY <1>3, <2>5, <3>1 DEF OrOpaque
  <2> HIDE DEF owner
  <2> QED BY <2>6, <2>7, <2>8, ResolvedMeans
<1> QED BY <1>4, <1>5

\* The type of a struct expression means the struct.
LEMMA StructMeans ==
  ASSUME WellFormed(program), NEW d \in Declaration, d \in ToSet(program.decls), NEW inst \in Instantiations,
         NEW types, NEW s \in DOMAIN d.body, NEW e \in Expr, e.k = "struct"
  PROVE  Means(ExprTy(d, s, e, types), ValuesOf(d, s, e, inst), d, inst)
<1> DEFINE parts == [i \in DOMAIN Operands(e) |-> ValuesOf(d, s, Operands(e)[i], inst)]
           whole == BoundValues(d, s, e, inst)
           kinds == DeclKinds[MaxDepth]
           kind == LowerNamedAt(d, s, e.name, {}, kinds)
<1>1. ValuesOf(d, s, e, inst) = ExprValues(d, s, e, inst, parts, whole)
  BY ValuesOfHolds
<1>2. ExprTy(d, s, e, types) = kind
  BY DEF ExprTy, NamedTypeTy
<1> HIDE DEF parts, whole
<1>3. s \in 0..Len(d.body)
  BY DeclarationHolds
<1>4. \/ kind = Unknown
      \/ \E i \in DOMAIN program.decls :
           /\ Resolve(d, s, e.name).is = "item" /\ Resolve(d, s, e.name).at = i
           /\ kind = kinds[d][{}][i]
  <2> HIDE DEF kinds
  <2> QED BY <1>3, NamedIs
<1>5. ASSUME NEW i \in DOMAIN program.decls,
             Resolve(d, s, e.name).is = "item", Resolve(d, s, e.name).at = i,
             kind = kinds[d][{}][i]
      PROVE  Means(kind, ValuesOf(d, s, e, inst), d, inst)
  <2>1. ValuesOf(d, s, e, inst) = {<<"declared", i>>}
    BY <1>1, <1>5 DEF ExprValues
  <2>2. MaxDepth \in 0..MaxDepth /\ {} \in SUBSET STRING
    BY DeepestIsNumber
  <2> HIDE DEF kind
  <2>3. IsNamed(MaxDepth, kind, ValuesOf(d, s, e, inst))
    BY <1>5, <2>1, <2>2 DEF IsNamed
  <2> QED BY <2>2, <2>3 DEF Means
<1> HIDE DEF kind, kinds
<1> QED BY <1>2, <1>4, <1>5 DEF Means

\* expr_ty gives a type that means the values, if the types one level down do.
LEMMA LevelMeans ==
  ASSUME WellFormed(program), NEW d \in Declaration, d \in ToSet(program.decls), NEW inst \in Instantiations,
         NEW types, TypesMean(d, types, inst), NEW s \in DOMAIN d.body, NEW e \in Expr
  PROVE  Means(ExprTy(d, s, e, types), ValuesOf(d, s, e, inst), d, inst)
<1>1. CASE e.k = "name"
  BY <1>1, NameMeans
<1>2. CASE e.k = "call"
  BY <1>2, CallMeans
<1>3. CASE e.k = "struct"
  BY <1>3, StructMeans
<1>4. CASE e.k = "member"
  <2> DEFINE parts == [i \in DOMAIN Operands(e) |-> ValuesOf(d, s, Operands(e)[i], inst)]
             whole == BoundValues(d, s, e, inst)
             V == ValuesOf(d, s, e.of, inst)
             kind == types[s][e.of]
  <2>1. e.of \in Expr /\ Operands(e) = <<e.of>>
    BY <1>4, ExprIs
  <2>2. parts[1] = V
    BY <2>1
  <2>3. ValuesOf(d, s, e, inst) = ExprValues(d, s, e, inst, parts, whole)
    BY ValuesOfHolds
  <2>4. ExprTy(d, s, e, types) = FieldKind(kind, e.name)
    BY <1>4 DEF ExprTy
  <2>5. Means(kind, V, d, inst)
    BY <2>1 DEF TypesMean
  <2> HIDE DEF parts, whole, V, kind
  <2>6. ValuesOf(d, s, e, inst) = OrOpaque(FieldValues(V, e.name, inst))
    BY <1>4, <2>2, <2>3 DEF ExprValues
  <2>7. Means(FieldKind(kind, e.name), OrOpaque(FieldValues(V, e.name, inst)), d, inst)
    BY <2>5, MemberMeans
  <2> QED BY <2>4, <2>6, <2>7
<1>5. CASE e.k \notin {"name", "call", "struct", "member"}
  <2>1. ExprTy(d, s, e, types) = ExprTyKind[e]
    BY <1>5 DEF ExprTy
  <2>2. <<ExprTyKind[e], ValuesOf(d, s, e, inst)>> \in ExprMeanings(d, inst)
    BY DEF ExprMeanings
  <2> QED BY <2>1, <2>2 DEF Means
<1> QED BY <1>1, <1>2, <1>3, <1>4, <1>5

(* The type of an expression means what the expression may be. *)
LEMMA TypeExprMeans ==
  ASSUME WellFormed(program), NEW d \in Declaration, d \in ToSet(program.decls), NEW inst \in Instantiations
  PROVE  \A s \in DOMAIN d.body, e \in Expr : Means(TypeExpr(d, s, e), ValuesOf(d, s, e, inst), d, inst)
<1>1. PICK types :
        /\ \A room \in 0..MaxDepth :
             types[room] = IF room = 0 THEN [at \in DOMAIN d.body |-> [x \in Expr |-> Unknown]]
                         ELSE ExprTypes(d, types[room - 1])
        /\ \A s \in DOMAIN d.body, e \in Expr : TypeExpr(d, s, e) = types[MaxDepth][s][e]
  BY TypeExprHolds
<1> DEFINE S == {n \in Nat : n <= MaxDepth => TypesMean(d, types[n], inst)}
<1>0. MaxDepth \in Nat
  BY DeepestIsNumber
<1>2. 0 \in S
  <2>1. types[0] = [at \in DOMAIN d.body |-> [x \in Expr |-> Unknown]]
    BY <1>0, <1>1
  <2> QED BY <2>1 DEF TypesMean, Means
<1>3. ASSUME NEW n \in S PROVE n + 1 \in S
  <2> SUFFICES ASSUME n + 1 <= MaxDepth PROVE TypesMean(d, types[n + 1], inst)
    OBVIOUS
  <2>1. n + 1 \in 0..MaxDepth /\ (n + 1) - 1 = n /\ n <= MaxDepth /\ n + 1 # 0
    BY <1>0
  <2>2. types[n + 1] = ExprTypes(d, types[n])
    BY <1>1, <2>1
  <2>3. TypesMean(d, types[n], inst)
    BY <2>1
  <2>4. ASSUME NEW s \in DOMAIN d.body, NEW e \in Expr
        PROVE  Means(types[n + 1][s][e], ValuesOf(d, s, e, inst), d, inst)
    <3>1. types[n + 1][s][e] = ExprTy(d, s, e, types[n])
      BY <2>2 DEF ExprTypes
    <3> QED BY <2>3, <3>1, LevelMeans
  <2> QED BY <2>4 DEF TypesMean
<1>4. S = Nat
  <2> HIDE DEF S
  <2>1. S \in SUBSET Nat
    BY DEF S
  <2> QED BY <1>2, <1>3, <2>1, NumberInduction
<1>5. TypesMean(d, types[MaxDepth], inst)
  BY <1>0, <1>4
<1> QED BY <1>1, <1>5 DEF TypesMean

(* A kind lets through the values of what it is the kind of, *)
LEMMA MeansLetsThrough ==
  ASSUME WellFormed(program), \A inst \in Instantiations : inst.N > 0,
         NEW d \in Declaration, NEW inst \in Instantiations, NEW kind, NEW values, Means(kind, values, d, inst)
  PROVE  values \cap Value \subseteq Members[kind]
<1>1. CASE kind = Unknown
  BY <1>1, UnknownIsAny
<1>2. ASSUME NEW room \in 0..MaxDepth, IsNamed(room, kind, values) PROVE values \cap Value \subseteq Members[kind]
  BY <1>2, DeclarationsLetThrough
<1>3. CASE IsLowered(kind, values, inst)
  BY <1>3, LoweredLetsThrough
<1>4. CASE <<kind, values>> \in ExprMeanings(d, inst)
  <2> DEFINE M == ExprMeanings(d, inst)
             m == <<kind, values>>
  <2>1. Sound(M) /\ Counted(M)
    BY ExprsAreSound, ExprsAreCounted
  <2>2. m \in M /\ m[1] = kind /\ m[2] = values
    BY <1>4
  <2> HIDE DEF M, m
  <2>3. m[2] \cap Value \subseteq Members[m[1]]
    BY <2>1, <2>2, KindLetsThrough
  <2> QED BY <2>2, <2>3
<1> QED BY <1>1, <1>2, <1>3, <1>4 DEF Means

(* and an exact one no other numbers. *)
LEMMA ExactNumbers ==
  ASSUME WellFormed(program), NEW d \in Declaration, NEW inst \in Instantiations,
         NEW kind \in Kind, NEW values, Means(kind, values, d, inst), IsExact(kind),
         NEW n \in 0..(FieldSize - 1), <<"number", n>> \in Members[kind]
  PROVE  <<"number", n>> \in values
<1>1. /\ kind.k = "Uint" => kind.upper # None
      /\ kind.k \in {"Uint", "Boolean", "Field", "Bytes", "Tuple", "Vector"}
  BY ExactParts
<1> DEFINE parts == [i \in DOMAIN Parts(kind) |-> Members[Parts(kind)[i]]]
           v == <<"number", n>>
           m == <<kind, values>>
<1>2. \E M : Sound(M) /\ m \in M
  <2>1. kind # Unknown
    BY <1>1 DEF Unknown
  <2>2. ASSUME NEW room \in 0..MaxDepth, IsNamed(room, kind, values) PROVE FALSE
    <3>1. kind.k # "Struct" /\ kind.k # "Enum"
      BY <1>1
    <3>2. PICK user \in ToSet(program.decls), visited \in SUBSET STRING, i \in DOMAIN program.decls :
            kind = DeclKinds[room][user][visited][i]
      BY <2>2 DEF IsNamed
    <3> DEFINE lowered == Struct(Decl(i).name,
                             BuildStructFields(user, Decl(i), visited \cup {Decl(i).name}, DeclKinds[room - 1]))
    <3>3. kind = lowered \/ kind = Enum(Decl(i).name) \/ kind = Unknown
      BY <3>2, DeclKindIs
    <3> QED BY <2>1, <3>1, <3>3 DEF Enum, Struct
  <2>3. CASE IsLowered(kind, values, inst)
    BY <2>3, TypesAreSound DEF IsLowered
  <2>4. CASE <<kind, values>> \in ExprMeanings(d, inst)
    BY <2>4, ExprsAreSound
  <2> QED BY <2>1, <2>2, <2>3, <2>4 DEF Means
<1>3. PICK M : Sound(M) /\ m \in M
  BY <1>2
<1>4. m[1] = kind /\ m[2] = values
  OBVIOUS
<1> HIDE DEF m
<1>5. Fits(kind, values, M)
  BY <1>3, <1>4 DEF Sound
<1>6. Members[kind] = KindMembers(kind, parts)
  BY MembersHolds
<1>7. v \in KindMembers(kind, parts) /\ v[1] = "number" /\ v[2] = n
  BY <1>6
<1> HIDE DEF parts, v
<1>8. kind.k = "Field" \/ (kind.k = "Uint" /\ n < kind.upper)
  <2>1. CASE kind.k = "Uint"
    <3>1. v[2] < kind.upper
      BY <1>1, <1>7, <2>1 DEF KindMembers, IsSeqKind
    <3> QED BY <1>7, <2>1, <3>1
  <2>2. kind.k # "Boolean"
    BY <1>7 DEF KindMembers, IsSeqKind
  <2>3. kind.k # "Bytes"
    BY <1>7 DEF KindMembers, IsSeqKind
  <2>4. kind.k \notin {"Tuple", "Vector"}
    BY <1>7 DEF KindMembers, IsSeqKind
  <2> QED BY <1>1, <2>1, <2>2, <2>3, <2>4
<1>9. CASE kind.k = "Field"
  <2>1. values = Numbers(FieldSize)
    BY <1>5, <1>9 DEF Fits
  <2> QED BY <2>1 DEF Numbers, v
<1>10. CASE kind.k = "Uint" /\ n < kind.upper
  <2>1. values = Numbers(kind.upper) /\ kind.upper \in Int
    BY <1>1, <1>5, <1>10, KindIs DEF Fits
  <2> QED BY <1>10, <2>1 DEF Numbers, v
<1> QED BY <1>8, <1>9, <1>10

-----------------------------------------------------------------------------
(* What is displayed, read as an annotation.                               *)

\* The sizes a bound is displayed with are read as that bound.
LEMMA UintIsDisplayed ==
  ASSUME NEW upper \in 1..(TwoTo[WordBits] - 1)
  PROVE  /\ UintSizes(upper) \in Seq(Size) /\ Len(UintSizes(upper)) \in 1..2
         /\ UintBound(UintSizes(upper)) = Uint(upper)
<1> DEFINE widths == {w \in 1..MaxWidth : TwoTo[w] = upper}
<1>1. CASE widths # {}
  <2> DEFINE w == Min(widths)
  <2>1. w \in widths
    <3>1. widths \in SUBSET Nat
      BY Limits
    <3> HIDE DEF widths
    <3> QED BY <1>1, <3>1, MinHolds
  <2>2. UintSizes(upper) = <<w>>
    BY <1>1 DEF UintSizes
  <2>3. w \in 1..MaxWidth /\ TwoTo[w] = upper
    BY <2>1
  <2> HIDE DEF w, widths
  <2>4. w < WordBits
    <3>1. w \in 0..MaxWidth /\ WordBits \in 0..MaxWidth
      BY <2>3, Limits
    <3>2. WordBits < w => TwoTo[WordBits] < TwoTo[w]
      BY <3>1, TwoToGrows
    <3> QED BY <2>3, <3>1, <3>2, Limits
  <2>5. <<w>> \in Seq(Size) /\ Len(<<w>>) = 1 /\ <<w>>[1] = w
    BY <2>3, Limits DEF Size
  <2>6. ParseIntLiteral(w) = w
    BY <2>3, Limits DEF ParseIntLiteral
  <2>7. UintBound(<<w>>) = Uint(TwoTo[w])
    BY <2>3, <2>4, <2>5, <2>6 DEF UintBound
  <2> QED BY <2>2, <2>3, <2>5, <2>7
<1>2. CASE widths = {}
  <2>1. UintSizes(upper) = <<0, upper>>
    BY <1>2 DEF UintSizes
  <2>2. upper \in Nat /\ upper # 0 /\ upper < TwoTo[WordBits]
    BY Limits
  <2>3. <<0, upper>> \in Seq(Size) /\ Len(<<0, upper>>) = 2 /\ <<0, upper>>[1] = 0 /\ <<0, upper>>[2] = upper
    BY <2>2 DEF Size
  <2>4. ParseIntLiteral(0) = 0 /\ ParseIntLiteral(upper) = upper
    BY <2>2, Limits DEF ParseIntLiteral
  <2>5. UintBound(<<0, upper>>) = Uint(upper)
    BY <2>2, <2>3, <2>4 DEF UintBound
  <2> QED BY <2>1, <2>3, <2>5
<1> QED BY <1>1, <1>2

(* An exact kind is displayed as the annotation it is the kind of. *)
LEMMA ExactIsDisplayed ==
  \A k \in Kind : IsExact(k) => TypeNodeKind[DisplayKind[k]] = k
<1> DEFINE Right(n) == \A k \in KindUpTo[n] :
                         IsExact(k) => DisplayKind[k] \in AnnotationUpTo[n] /\ TypeNodeKind[DisplayKind[k]] = k
           S == {n \in Nat : n <= Deepest => Right(n)}
<1>0. Deepest \in Nat
  BY DeepestIsNumber
<1>1. ASSUME NEW n \in 0..Deepest, n > 0 => Right(n - 1) PROVE Right(n)
  <2> SUFFICES ASSUME NEW k \in KindUpTo[n], IsExact(k)
               PROVE  DisplayKind[k] \in AnnotationUpTo[n] /\ TypeNodeKind[DisplayKind[k]] = k
    OBVIOUS
  <2> DEFINE parts == [i \in DOMAIN Parts(k) |-> DisplayKind[Parts(k)[i]]]
             kinds == IF n = 0 THEN {} ELSE KindUpTo[n - 1]
             inner == IF n = 0 THEN {} ELSE AnnotationUpTo[n - 1]
             t == DisplayKind[k]
             read == [i \in DOMAIN Parts(t) |-> TypeNodeKind[Parts(t)[i]]]
  <2>1. k \in Kind /\ KindUpTo[n] \subseteq Kind /\ AnnotationUpTo[n] \subseteq Annotation
    BY <1>0, KindUpToGrows, AnnotationUpToGrows DEF Kind, Annotation
  <2>2. k \in KindsOver(kinds) /\ AnnotationUpTo[n] = AnnotationsOver(inner)
    BY KindUpToHolds, AnnotationUpToHolds
  <2>3. t = Displayed(k, parts)
    BY <2>1, DisplayKindHolds
  <2>4. t \in Annotation => TypeNodeKind[t] = AnnotationKind(t, read)
    BY TypeNodeKindHolds
  <2>5. /\ k.k = "Uint" => k.upper # None
        /\ k.k \in {"Uint", "Boolean", "Field", "Bytes", "Tuple", "Vector"}
        /\ \A i \in DOMAIN Parts(k) : IsExact(Parts(k)[i])
    BY <2>1, ExactParts
  <2>6. \A i \in DOMAIN Parts(k) : parts[i] \in inner /\ TypeNodeKind[parts[i]] = Parts(k)[i]
    <3> SUFFICES ASSUME NEW i \in DOMAIN Parts(k) PROVE parts[i] \in inner /\ TypeNodeKind[parts[i]] = Parts(k)[i]
      OBVIOUS
    <3>1. n # 0 /\ Parts(k)[i] \in KindUpTo[n - 1]
      BY PartsOfKindUpTo
    <3>2. Right(n - 1)
      BY <1>1, <3>1
    <3> QED BY <2>5, <3>1, <3>2
  <2>7. DOMAIN parts = DOMAIN Parts(k)
    OBVIOUS
  <2> HIDE DEF parts
  <2> SUFFICES t \in AnnotationsOver(inner) /\ AnnotationKind(t, read) = k
    BY <2>1, <2>2, <2>4
  <2>9. CASE k.k \in {"Boolean", "Field"}
    <3>1. k \in {Boolean, Field}
      BY <2>1, <2>9, KindIs
    <3>2. t = k
      BY <2>3, <2>9 DEF Displayed
    <3> HIDE DEF t, inner, read
    <3>3. t \in AnnotationsOver(inner)
      BY <3>1, <3>2 DEF AnnotationsOver
    <3> QED BY <2>9, <3>2, <3>3 DEF AnnotationKind
  <2>10. CASE k.k = "Uint"
    <3>1. k.upper \in 1..(TwoTo[WordBits] - 1) /\ k = Uint(k.upper)
      BY <2>1, <2>5, <2>10, KindIs
    <3>2. t = [k |-> "Uint", sizes |-> UintSizes(k.upper)]
      BY <2>3, <2>10 DEF Displayed
    <3> HIDE DEF t, inner, read
    <3>3. t.k = "Uint" /\ t.sizes = UintSizes(k.upper)
      BY <3>2
    <3>4. t \in AnnotationsOver(inner)
      BY <3>1, <3>2, UintIsDisplayed DEF AnnotationsOver
    <3>5. AnnotationKind(t, read) = UintBound(t.sizes)
      BY <3>3 DEF AnnotationKind
    <3> QED BY <3>1, <3>3, <3>4, <3>5, UintIsDisplayed
  <2>11. CASE k.k = "Bytes"
    <3>1. k.size \in 0..MaxLength /\ k = Bytes(k.size)
      BY <2>1, <2>11, KindIs
    <3>2. t = k
      BY <2>3, <2>11 DEF Displayed
    <3> HIDE DEF t, inner, read
    <3>3. t \in AnnotationsOver(inner)
      BY <3>1, <3>2, Limits DEF AnnotationsOver, Bytes, Size
    <3>4. IsLength(t.size)
      BY <3>1, <3>2, Limits DEF IsLength, ParseIntLiteral
    <3> QED BY <2>11, <3>1, <3>2, <3>3, <3>4 DEF AnnotationKind
  <2>12. CASE k.k = "Tuple"
    <3>1. k = Tuple(k.elems) /\ k.elems \in Seq(Kind)
      BY <2>1, <2>12, KindIs
    <3>2. Parts(k) = k.elems
      BY <2>12 DEF Parts
    <3>3. t = Tuple(parts)
      BY <2>3, <2>12 DEF Displayed
    <3> DEFINE length == Len(k.elems)
    <3>4. length \in Nat /\ DOMAIN parts = 1..length /\ k.elems = [i \in 1..length |-> k.elems[i]]
      BY <2>7, <3>1, <3>2
    <3>5. Parts(t) = parts /\ t.k = "Tuple"
      BY <3>3 DEF Parts, Tuple
    <3>6. read = k.elems
      <4>1. \A i \in 1..length : TypeNodeKind[parts[i]] = k.elems[i]
        BY <2>6, <2>7, <3>2, <3>4
      <4> QED BY <3>4, <3>5, <4>1
    <3>7. parts \in Seq(inner)
      <4> HIDE DEF inner, length
      <4>1. \A i \in 1..length : parts[i] \in inner
        BY <2>6, <2>7, <3>4
      <4>2. parts = [i \in 1..length |-> parts[i]]
        BY <3>4 DEF parts
      <4>3. parts \in [1..length -> inner]
        BY <4>1, <4>2
      <4> QED BY <3>4, <4>3
    <3> HIDE DEF t, inner, read, length
    <3>8. t \in AnnotationsOver(inner)
      BY <3>3, <3>7 DEF AnnotationsOver, Tuple
    <3>9. AnnotationKind(t, read) = Tuple(read)
      BY <3>5 DEF AnnotationKind
    <3> QED BY <3>1, <3>6, <3>8, <3>9
  <2>13. CASE k.k = "Vector"
    <3>1. k = Vector(k.size, k.elem) /\ k.size \in 0..MaxLength
      BY <2>1, <2>13, KindIs
    <3>2. Parts(k) = <<k.elem>>
      BY <2>13 DEF Parts
    <3>3. t = Vector(k.size, parts[1])
      BY <2>3, <2>13 DEF Displayed
    <3>4. Parts(t) = <<parts[1]>> /\ t.k = "Vector" /\ t.size = k.size
      BY <3>3 DEF Parts, Vector
    <3>5. parts[1] \in inner /\ TypeNodeKind[parts[1]] = k.elem
      BY <2>6, <3>2
    <3>6. read[1] = k.elem
      BY <3>4, <3>5
    <3> HIDE DEF t, inner, read
    <3>7. t \in AnnotationsOver(inner)
      BY <3>1, <3>3, <3>5, Limits DEF AnnotationsOver, Vector, Size
    <3>8. IsLength(t.size)
      BY <3>1, <3>4, Limits DEF IsLength, ParseIntLiteral
    <3>9. AnnotationKind(t, read) = Vector(t.size, read[1])
      BY <3>4, <3>8 DEF AnnotationKind
    <3> QED BY <3>1, <3>4, <3>6, <3>7, <3>9
  <2> QED BY <2>5, <2>9, <2>10, <2>11, <2>12, <2>13
<1>2. 0 \in S
  <2> HIDE DEF Right
  <2> QED BY <1>0, <1>1
<1>3. ASSUME NEW n \in S PROVE n + 1 \in S
  <2> HIDE DEF Right
  <2> SUFFICES ASSUME n + 1 <= Deepest PROVE Right(n + 1)
    OBVIOUS
  <2>1. n + 1 \in 0..Deepest /\ (n + 1) - 1 = n /\ n <= Deepest
    BY <1>0
  <2> QED BY <1>1, <2>1
<1>4. S = Nat
  <2> HIDE DEF S
  <2>1. S \in SUBSET Nat
    BY DEF S
  <2> QED BY <1>2, <1>3, <2>1, NumberInduction
<1>5. Right(Deepest)
  <2> HIDE DEF Right
  <2> QED BY <1>0, <1>4
<1> QED BY <1>5 DEF Kind

-----------------------------------------------------------------------------
(* The answer of type_at.                                                  *)

\* The types of the expressions of d, level by level.
Levels(d, types) ==
  /\ \A room \in 0..MaxDepth :
       types[room] = IF room = 0 THEN [at \in DOMAIN d.body |-> [x \in Expr |-> Unknown]]
                     ELSE ExprTypes(d, types[room - 1])
  /\ \A s \in DOMAIN d.body, e \in Expr : TypeExpr(d, s, e) = types[MaxDepth][s][e]

\* The types of the expressions are made level by level,
LEMMA LevelsHold == \A d : \E types : Levels(d, types)
BY TypeExprHolds DEF Levels

\* after a step too.
LEMMA LevelsStillHold == (\A d : \E types : Levels(d, types))'
<1>1. \A d : \E types : Levels(d, types)
  BY LevelsHold
<1> QED BY <1>1, PTL

\* What declarations are lowered to depends on the program alone.
LEMMA DeclKindsStay ==
  ASSUME program' = program
  PROVE  DeclKinds' = DeclKinds
BY DEF Decl, Resolve, DeclKinds, BuildStructFields, LowerTypeIn, LowerNamedAt

\* What the type of a call is made of.
CalleeReturns(d, s, x, k) ==
  LET callee == UniqueCallee(d, s, x)
  IN  /\ callee = {} => CalleeReturnTy(d, s, x) = Unknown
      /\ callee # {} /\ k = Decl(CHOOSE i \in callee : TRUE)
         => CalleeReturnTy(d, s, x) = TypeKindResolved(k, 0, k.ret)

\* The type of a call is that of the callee that is certain,
LEMMA CalleeReturnsHold == \A d, s, x, k : CalleeReturns(d, s, x, k)
BY DEF CalleeReturns, CalleeReturnTy

\* after a step too.
LEMMA CalleeReturnsStillHold == (\A d, s, x, k : CalleeReturns(d, s, x, k))'
<1>1. \A d, s, x, k : CalleeReturns(d, s, x, k)
  BY CalleeReturnsHold
<1> QED BY <1>1, PTL

\* The type of an expression depends on the program alone, one level down,
LEMMA ExprTyStays ==
  ASSUME program' = program
  PROVE  \A d, s, e, types : ExprTy(d, s, e, types)' = ExprTy(d, s, e, types)
<1>1. DeclKinds' = DeclKinds
  BY DeclKindsStay
<1>2. \A d, s, x : Resolve(d, s, x)' = Resolve(d, s, x)
  BY DEF Resolve, Decl
<1>3. \A d, s, x : NamedTypeTy(d, s, x)' = NamedTypeTy(d, s, x)
  BY <1>1, <1>2 DEF NamedTypeTy, LowerNamedAt
<1>4. \A d, s, t : TypeKindResolved(d, s, t)' = TypeKindResolved(d, s, t)
  BY <1>3 DEF TypeKindResolved
<1>5. \A i : Decl(i)' = Decl(i)
  BY DEF Decl
<1>6. \A d, s, x : UniqueCallee(d, s, x)' = UniqueCallee(d, s, x)
  BY <1>2, <1>5 DEF UniqueCallee, DeclsOf
<1>7. \A d, s, x : CalleeReturnTy(d, s, x)' = CalleeReturnTy(d, s, x)
  <2> SUFFICES ASSUME NEW d, NEW s, NEW x PROVE CalleeReturnTy(d, s, x)' = CalleeReturnTy(d, s, x)
    OBVIOUS
  <2> DEFINE callee == UniqueCallee(d, s, x)
             c == CHOOSE i \in callee : TRUE
  <2>1. callee' = callee
    BY <1>6
  <2>2. PICK k : k = Decl(c)
    OBVIOUS
  <2>3. Decl(c)' = k
    BY <1>5, <2>1, <2>2
  <2>4. CalleeReturns(d, s, x, k)
    BY CalleeReturnsHold
  <2>5. CalleeReturns(d, s, x, k)'
    BY CalleeReturnsStillHold
  <2>6. CASE callee = {}
    <3>1. CalleeReturnTy(d, s, x) = Unknown
      BY <2>4, <2>6 DEF CalleeReturns
    <3>2. CalleeReturnTy(d, s, x)' = Unknown
      BY <2>1, <2>5, <2>6 DEF CalleeReturns
    <3> QED BY <3>1, <3>2
  <2>7. CASE callee # {}
    <3>1. CalleeReturnTy(d, s, x) = TypeKindResolved(k, 0, k.ret)
      BY <2>2, <2>4, <2>7 DEF CalleeReturns
    <3>2. CalleeReturnTy(d, s, x)' = TypeKindResolved(k, 0, k.ret)'
      BY <2>1, <2>3, <2>5, <2>7 DEF CalleeReturns
    <3> QED BY <1>4, <3>1, <3>2
  <2> QED BY <2>6, <2>7
<1>8. \A d, r : LocalBindingTy(d, r)' = LocalBindingTy(d, r)
  BY <1>4 DEF LocalBindingTy
<1> QED BY <1>2, <1>3, <1>7, <1>8 DEF ExprTy, FieldKind

\* and at all of them.
LEMMA TypeExprStays ==
  ASSUME program' = program, NEW d, NEW s \in DOMAIN d.body, NEW e \in Expr
  PROVE  TypeExpr(d, s, e)' = TypeExpr(d, s, e)
<1>1. PICK now : Levels(d, now)
  BY LevelsHold
<1>2. (\A c : \E types : Levels(c, types))'
  BY LevelsStillHold
<1>3. PICK next : Levels(d, next)'
  BY <1>2
<1> DEFINE S == {n \in Nat : n <= MaxDepth => next[n] = now[n]}
<1>0. MaxDepth \in Nat
  BY DeepestIsNumber
<1>4. \A n \in 0..MaxDepth :
        /\ now[n] = IF n = 0 THEN [at \in DOMAIN d.body |-> [x \in Expr |-> Unknown]] ELSE ExprTypes(d, now[n - 1])
        /\ next[n] = IF n = 0 THEN [at \in DOMAIN d.body |-> [x \in Expr |-> Unknown]] ELSE ExprTypes(d, next[n - 1])'
  BY <1>1, <1>3 DEF Levels
<1>5. \A types : ExprTypes(d, types)' = ExprTypes(d, types)
  BY ExprTyStays DEF ExprTypes
<1>6. 0 \in S
  BY <1>0, <1>4
<1>7. ASSUME NEW n \in S PROVE n + 1 \in S
  <2>1. n + 1 <= MaxDepth => n + 1 \in 0..MaxDepth /\ (n + 1) - 1 = n /\ n <= MaxDepth /\ n + 1 # 0
    BY <1>0
  <2> QED BY <1>4, <1>5, <2>1
<1>8. S = Nat
  <2> HIDE DEF S
  <2>1. S \in SUBSET Nat
    BY DEF S
  <2> QED BY <1>6, <1>7, <2>1, NumberInduction
<1>9. next[MaxDepth] = now[MaxDepth]
  BY <1>0, <1>8
<1> QED BY <1>1, <1>3, <1>9 DEF Levels

\* The answer a is the type of an expression of the circuit d.
Meets(a, d) ==
  /\ a.owner \in DeclsOf({"circuit"}) /\ d = Decl(a.owner)
  /\ <<a.at, a.node>> \in ExprsOf(d)
  /\ a.kind = TypeExpr(d, a.at, a.node)

AnswerInv ==
  /\ program \in Programs
  /\ answer = NoAnswer \/ \E d : Meets(answer, d)

\* An answer stays the type of the expression asked about.
LEMMA AnswersStep ==
  ASSUME AnswerInv, [Next]_vars
  PROVE  AnswerInv'
<1>1. program' = program
  BY DEF Next, vars, TypeDiagnostics, SignatureDiagnostics, GenericDiagnostics, LedgerCallDiagnostics,
         CallArgDiagnostics, DropGenericModules, TypeAt, Report
<1>2. WellFormed(program) /\ program' \in Programs
  BY <1>1, ProgramsAssumption DEF AnswerInv
<1>3. (\A i : Decl(i)' = Decl(i)) /\ DeclsOf({"circuit"})' = DeclsOf({"circuit"})
  BY <1>1 DEF Decl, DeclsOf
<1>4. ASSUME NEW a, a.owner \in DeclsOf({"circuit"}), <<a.at, a.node>> \in ExprsOf(Decl(a.owner)),
             a.kind = TypeExpr(Decl(a.owner), a.at, a.node), answer' = a
      PROVE  AnswerInv'
  <2>0. PICK d : d = Decl(a.owner)
    OBVIOUS
  <2>1. d \in Declaration
    BY <1>2, <1>4, <2>0, ProgramHolds DEF DeclsOf
  <2>2. PICK x : x = <<a.at, a.node>>
    OBVIOUS
  <2>3. x[1] = a.at /\ x[2] = a.node /\ x \in ExprsOf(d)
    BY <1>4, <2>0, <2>2
  <2>4. a.at \in DOMAIN d.body /\ a.node \in Expr
    BY <2>1, <2>3, ExprsOfHold
  <2>5. TypeExpr(d, a.at, a.node)' = TypeExpr(d, a.at, a.node)
    BY <1>1, <2>4, TypeExprStays
  <2>6. Decl(a.owner)' = d
    BY <1>3, <2>0
  <2>7. Meets(a, d)
    BY <1>4, <2>0 DEF Meets
  <2>8. Meets(a, d)'
    BY <1>3, <2>5, <2>6, <2>7 DEF Meets
  <2> QED BY <1>2, <1>4, <2>8 DEF AnswerInv
<1>5. CASE TypeAt
  <2>1. PICK i, x :
          /\ i \in DeclsOf({"circuit"})
          /\ x \in ExprsOf(Decl(i))
          /\ answer' = [owner |-> i, at |-> x[1], node |-> x[2], kind |-> TypeExpr(Decl(i), x[1], x[2])]
    BY <1>5 DEF TypeAt
  <2>2. x = <<x[1], x[2]>>
    BY <2>1 DEF ExprsOf
  <2>3. PICK a : a = answer'
    OBVIOUS
  <2>4. a.owner = i /\ a.at = x[1] /\ a.node = x[2] /\ a.kind = TypeExpr(Decl(i), x[1], x[2])
    BY <2>1, <2>3
  <2> QED BY <1>4, <2>1, <2>2, <2>3, <2>4
<1>6. CASE answer' = answer
  <2>1. CASE answer = NoAnswer
    BY <1>2, <1>6, <2>1 DEF AnswerInv
  <2>2. CASE \E d : Meets(answer, d)
    <3>1. PICK d : Meets(answer, d)
      BY <2>2
    <3>2. PICK a : a = answer'
      OBVIOUS
    <3> QED BY <1>4, <1>6, <3>1, <3>2 DEF Meets
  <2> QED BY <2>1, <2>2 DEF AnswerInv
<1> QED BY <1>5, <1>6
   DEF Next, vars, TypeDiagnostics, SignatureDiagnostics, GenericDiagnostics, LedgerCallDiagnostics,
       CallArgDiagnostics, DropGenericModules, Report

\* What means something is a kind.
LEMMA MeansIsKind ==
  ASSUME WellFormed(program), \A inst \in Instantiations : inst.N > 0,
         NEW d, NEW inst \in Instantiations, NEW kind, NEW values, Means(kind, values, d, inst)
  PROVE  kind \in Kind
<1>1. CASE kind = Unknown
  BY <1>1, UnknownIsAny
<1>2. ASSUME NEW room \in 0..MaxDepth, IsNamed(room, kind, values) PROVE kind \in Kind
  BY <1>2, DeclarationsLetThrough
<1>3. ASSUME NEW c, <<kind, values>> \in TypeMeanings(c, inst) PROVE kind \in Kind
  <2>1. PICK t \in Annotation : <<kind, values>> = <<TypeNodeKind[t], Values(c, t, inst)>>
    BY <1>3 DEF TypeMeanings
  <2> QED BY <2>1, TypeNodeKindIsKind
<1>4. CASE <<kind, values>> \in ExprMeanings(d, inst)
  <2>1. CASE <<kind, values>> \in {<<ExprTyKind[e], ValuesOf(d, s, e, inst)>> : s \in DOMAIN d.body, e \in Expr}
    <3>1. PICK s \in DOMAIN d.body, e \in Expr : <<kind, values>> = <<ExprTyKind[e], ValuesOf(d, s, e, inst)>>
      BY <2>1
    <3> QED BY <3>1, ExprTyKindIsKind
  <2> QED BY <1>3, <1>4, <2>1 DEF ExprMeanings
<1> QED BY <1>1, <1>2, <1>3, <1>4 DEF Means, IsLowered

\* The type shown is the type of the expression.
LEMMA AnswerIsRight ==
  ASSUME AnswerInv, \A inst \in Instantiations : inst.N > 0
  PROVE  TypeShownIsRight
<1>1. WellFormed(program)
  BY ProgramsAssumption DEF AnswerInv
<1> SUFFICES ASSUME answer # NoAnswer PROVE TypeShownIsRight
  BY DEF TypeShownIsRight
<1>2. PICK d : Meets(answer, d)
  BY DEF AnswerInv
<1>3. /\ answer.owner \in DeclsOf({"circuit"}) /\ d = Decl(answer.owner)
      /\ <<answer.at, answer.node>> \in ExprsOf(d)
      /\ answer.kind = TypeExpr(d, answer.at, answer.node)
  BY <1>2 DEF Meets
<1>4. d \in Declaration /\ d \in ToSet(program.decls)
  BY <1>1, <1>3, ProgramHolds DEF DeclsOf
<1>5. PICK x : x = <<answer.at, answer.node>>
  OBVIOUS
<1>6. answer.at \in DOMAIN d.body /\ answer.node \in Expr
  <2>1. x[1] = answer.at /\ x[2] = answer.node /\ x \in ExprsOf(d)
    BY <1>3, <1>5
  <2> QED BY <1>4, <2>1, ExprsOfHold
<1> DEFINE Shown(inst) == ValuesOf(d, answer.at, answer.node, inst)
<1>7. \A inst \in Instantiations : Means(answer.kind, Shown(inst), d, inst)
  BY <1>1, <1>3, <1>4, <1>6, TypeExprMeans
<1> HIDE DEF Shown
<1>8. answer.kind \in Kind
  <2>1. PICK inst : inst \in Instantiations
    BY MeaningAssumption
  <2> QED BY <1>1, <1>7, <2>1, MeansIsKind
<1>9. \A inst \in Instantiations : Shown(inst) \cap Value \subseteq Members[answer.kind]
  BY <1>1, <1>4, <1>7, MeansLetsThrough
<1>10. IsExact(answer.kind) =>
         /\ TypeNodeKind[DisplayKind[answer.kind]] = answer.kind
         /\ \A inst \in Instantiations : \A n \in 0..(FieldSize - 1) :
              <<"number", n>> \in Members[answer.kind] => <<"number", n>> \in Shown(inst)
  <2>1. IsExact(answer.kind) => TypeNodeKind[DisplayKind[answer.kind]] = answer.kind
    BY <1>8, ExactIsDisplayed
  <2>2. ASSUME IsExact(answer.kind), NEW inst \in Instantiations, NEW n \in 0..(FieldSize - 1),
               <<"number", n>> \in Members[answer.kind]
        PROVE  <<"number", n>> \in Shown(inst)
    BY <1>1, <1>4, <1>7, <1>8, <2>2, ExactNumbers
  <2> QED BY <2>1, <2>2
<1> QED BY <1>3, <1>9, <1>10 DEF TypeShownIsRight, Shown

\* The methods shown for a ledger field are those its calls are checked against.
LEMMA MethodsAreChecked == MethodsShownAreChecked
<1> SUFFICES ASSUME NEW o \in DeclsOf({"circuit"}), NEW f \in DeclsOf({"ledger"}),
                    NEW r, r = Resolve(Decl(f), 0, Decl(f).head.name),
                    Resolve(Decl(o), 0, Decl(f).name) = [is |-> "item", at |-> f],
                    Decl(f).head.k = "Ref", r.is = "item" => ItemSymbol(r)
             PROVE  LedgerAdtAt(Decl(o), 0, Decl(f).name) \subseteq {LedgerFieldAdt(Decl(f))}
  BY DEF MethodsShownAreChecked
<1>1. Decl(f).file = "here"
  BY DEF DeclsOf
<1> DEFINE item == [is |-> "item", at |-> f]
<1>2. item.at = f
  OBVIOUS
<1>3. CASE ~IsUserType(r) /\ Decl(f).head.name \in DOMAIN Surfaces
  <2>1. LedgerFieldAdt(Decl(f)) = Decl(f).head.name
    BY <1>3 DEF LedgerFieldAdt, IsUserType
  <2>2. LedgerAdtAt(Decl(o), 0, Decl(f).name) \subseteq {Decl(f).head.name}
    BY DEF LedgerAdtAt
  <2> QED BY <2>1, <2>2
<1>4. CASE ~(~IsUserType(r) /\ Decl(f).head.name \in DOMAIN Surfaces)
  BY <1>1, <1>2, <1>4 DEF LedgerAdtAt
<1> QED BY <1>3, <1>4

(* The type that type_at shows for any expression has all the values the expression may *)
(* have, no other numbers if it is exact, and is displayed as an annotation that is read *)
(* as that type; the methods shown for a ledger field are those its calls are checked   *)
(* against.  Uint<0..0> has no numbers, so no bound may be instantiated with 0.          *)
THEOREM AnswersHold ==
  ASSUME \A inst \in Instantiations : inst.N > 0
  PROVE  Spec => []AnswersAreRight
<1>1. Init => AnswerInv
  BY DEF Init, AnswerInv
<1>2. AnswerInv /\ [Next]_vars => AnswerInv'
  BY AnswersStep
<1>3. AnswerInv => AnswersAreRight
  BY AnswerIsRight, MethodsAreChecked DEF AnswersAreRight
<1> QED BY <1>1, <1>2, <1>3, PTL DEF Spec

=============================================================================
