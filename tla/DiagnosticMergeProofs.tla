------------------------ MODULE DiagnosticMergeProofs ------------------------
(***************************************************************************)
(* Proofs about Positions and DiagnosticMerge: for every text, every output*)
(* of the compiler, every list of native diagnostics and every cap.        *)
(*                                                                         *)
(* The order of the module: numbers and ranks in a set of them; widths;    *)
(* lines; columns; what is located; the compiler's set; merging; semantic  *)
(* tokens; the inductive invariant; the theorems.                          *)
(*                                                                         *)
(* Induction over the numbers is derived here from the well-foundedness of *)
(* finite sets under inclusion, which needs no operator as a parameter.    *)
(***************************************************************************)
EXTENDS DiagnosticMerge, SequenceTheorems, FiniteSetTheorems, WellFoundedInduction, TLAPS

(* A set of natural numbers that is not empty has a least member. *)
LEMMA LeastNumber ==
  ASSUME NEW T \in SUBSET Nat, T # {}
  PROVE  \E x \in T : \A y \in T : x <= y
<1> DEFINE R == StrictSubsetOrdering(Nat)
           F == FiniteSubsetsOf(Nat)
           U == {1 .. n : n \in T}
<1>1. IsWellFoundedOn(R, F)
  BY FS_StrictSubsetOrderingWellFounded
<1>2. U \subseteq F /\ U # {}
  <2>1. \A n \in Nat : 1 .. n \in F
    BY FS_Interval DEF FiniteSubsetsOf
  <2> QED BY <2>1
<1>3. PICK X \in U : \A Y \in U : <<Y, X>> \notin R
  <2> HIDE DEF R, F, U
  <2> QED BY <1>1, <1>2, WFMin
<1>4. PICK x \in T : X = 1 .. x
  OBVIOUS
<1>5. ASSUME NEW y \in T, y < x PROVE FALSE
  <2>1. 1 .. y \subseteq 1 .. x /\ x \in 1 .. x /\ x \notin 1 .. y
    BY <1>5
  <2>2. 1 .. y # 1 .. x
    BY <2>1
  <2>3. <<1 .. y, 1 .. x>> \in R
    BY <2>1, <2>2 DEF StrictSubsetOrdering
  <2> QED BY <2>3, <1>3, <1>4
<1> QED BY <1>4, <1>5

(* Induction over the natural numbers, for a set of them. *)
LEMMA NumberInduction ==
  ASSUME NEW S \in SUBSET Nat, 0 \in S, \A n \in S : n + 1 \in S
  PROVE  S = Nat
<1> SUFFICES ASSUME S # Nat PROVE FALSE
  OBVIOUS
<1>1. PICK x \in Nat \ S : \A y \in Nat \ S : x <= y
  BY LeastNumber
<1>2. x - 1 \in Nat /\ x - 1 \notin Nat \ S
  BY <1>1
<1> QED BY <1>1, <1>2

LEMMA GreatestIs ==
  ASSUME NEW S \in SUBSET Nat, NEW k \in S, \A y \in S : y <= k
  PROVE  Max(S) = k
<1>1. \A y \in S : k >= y
  OBVIOUS
<1>2. Max(S) \in S /\ \A y \in S : Max(S) >= y
  BY <1>1 DEF Max
<1>3. Max(S) \in Nat /\ k \in Nat /\ Max(S) >= k /\ k >= Max(S)
  BY <1>1, <1>2
<1> QED BY <1>3

LEMMA LeastIs ==
  ASSUME NEW S \in SUBSET Nat, NEW k \in S, \A y \in S : k <= y
  PROVE  Min(S) = k
<1>1. Min(S) \in S /\ \A y \in S : Min(S) =< y
  BY DEF Min
<1>2. Min(S) \in Nat /\ k \in Nat /\ Min(S) <= k /\ k <= Min(S)
  BY <1>1
<1> QED BY <1>2

LEMMA LeastExists ==
  ASSUME NEW S \in SUBSET Nat, S # {}
  PROVE  Min(S) \in S /\ \A y \in S : Min(S) <= y
BY LeastNumber, LeastIs

(***************************************************************************)
(* The rank of a number in a set of them, and the number of a given rank.  *)
(***************************************************************************)
Rank(S, i) == Cardinality({h \in S : h <= i})

(* A set of numbers up to n is finite, and so are its parts. *)
LEMMA RankType ==
  ASSUME NEW n \in Nat, NEW S \in SUBSET (0 .. n), NEW i \in Nat
  PROVE  /\ IsFiniteSet(S) /\ IsFiniteSet({h \in S : h <= i})
         /\ Cardinality(S) \in Nat /\ Rank(S, i) \in Nat
         /\ Rank(S, i) <= Cardinality(S)
<1>1. IsFiniteSet(S)
  <2>1. IsFiniteSet(0 .. n)
    BY FS_Interval
  <2> QED BY <2>1, FS_Subset
<1>2. IsFiniteSet({h \in S : h <= i}) /\ Rank(S, i) <= Cardinality(S)
  <2> DEFINE T == {h \in S : h <= i}
  <2>1. T \in SUBSET S
    OBVIOUS
  <2>2. IsFiniteSet(T) /\ Cardinality(T) <= Cardinality(S)
    BY <1>1, <2>1, FS_Subset
  <2> QED BY <2>2 DEF Rank
<1> QED BY <1>1, <1>2, FS_CardinalityType DEF Rank

(* The rank grows with the number, and with every member passed. *)
LEMMA RankMonotone ==
  ASSUME NEW n \in Nat, NEW S \in SUBSET (0 .. n), NEW i \in Nat, NEW k \in Nat, i <= k
  PROVE  /\ Rank(S, i) <= Rank(S, k)
         /\ (\E h \in S : i < h /\ h <= k) <=> Rank(S, i) < Rank(S, k)
<1> DEFINE A == {h \in S : h <= i}
           B == {h \in S : h <= k}
<1>0. \A h \in S : h \in Nat
  OBVIOUS
<1>1. A \in SUBSET B
  <2>1. \A h \in S : h <= i => h <= k
    BY <1>0
  <2> QED BY <2>1
<1>2. IsFiniteSet(B) /\ Rank(S, i) \in Nat /\ Rank(S, k) \in Nat
  BY RankType
<1>3. Rank(S, i) <= Rank(S, k) /\ (Rank(S, k) = Rank(S, i) => B = A)
  <2> HIDE DEF A, B
  <2>1. Cardinality(A) <= Cardinality(B) /\ (Cardinality(B) = Cardinality(A) => B = A)
    BY <1>1, <1>2, FS_Subset
  <2> QED BY <2>1 DEF Rank, A, B
<1>4. (\E h \in S : i < h /\ h <= k) <=> A # B
  <2>1. \A h \in S : (i < h /\ h <= k) <=> (h \in B /\ h \notin A)
    BY <1>0
  <2>2. A # B <=> \E h \in S : h \in B /\ h \notin A
    BY <1>1
  <2> QED BY <2>1, <2>2
<1>5. A = B => Rank(S, i) = Rank(S, k)
  BY DEF Rank
<1> HIDE DEF A, B
<1> QED BY <1>2, <1>3, <1>4, <1>5

LEMMA RankOrders ==
  ASSUME NEW n \in Nat, NEW S \in SUBSET (0 .. n), NEW i \in S, NEW k \in S
  PROVE  /\ Rank(S, i) \in 1 .. Cardinality(S)
         /\ Rank(S, i) < Rank(S, k) <=> i < k
         /\ Rank(S, i) = Rank(S, k) <=> i = k
<1>1. i \in Nat /\ k \in Nat
  OBVIOUS
<1>2. Rank(S, i) \in Nat /\ Rank(S, k) \in Nat /\ Rank(S, i) <= Cardinality(S) /\ Cardinality(S) \in Nat
  BY <1>1, RankType
<1>3. Rank(S, i) # 0
  <2>1. IsFiniteSet({h \in S : h <= i}) /\ i \in {h \in S : h <= i}
    BY <1>1, RankType
  <2>2. {h \in S : h <= i} # {}
    BY <2>1
  <2> QED BY <2>1, <2>2, FS_EmptySet DEF Rank
<1>4. ASSUME NEW a \in S, NEW b \in S, a < b PROVE Rank(S, a) < Rank(S, b)
  <2>1. a \in Nat /\ b \in Nat /\ a <= b
    BY <1>4
  <2>2. (\E h \in S : a < h /\ h <= b) <=> Rank(S, a) < Rank(S, b)
    BY <2>1, RankMonotone
  <2> QED BY <2>1, <2>2, <1>4
<1>5. (i < k => Rank(S, i) < Rank(S, k)) /\ (k < i => Rank(S, k) < Rank(S, i))
  BY <1>4
<1> QED BY <1>1, <1>2, <1>3, <1>5

(* Each rank up to the number of members is the rank of one of them. *)
LEMMA RankReached ==
  ASSUME NEW n \in Nat, NEW S \in SUBSET (0 .. n), NEW j \in 1 .. Cardinality(S)
  PROVE  \E i \in S : Rank(S, i) = j
<1>0. Cardinality(S) \in Nat /\ \A h \in S : h \in Nat /\ h <= n
  <2>1. Cardinality(S) \in Nat
    BY RankType
  <2> QED BY <2>1
<1>1. Rank(S, n) = Cardinality(S)
  <2>1. {h \in S : h <= n} = S
    BY <1>0
  <2> QED BY <2>1 DEF Rank
<1> DEFINE T == {m \in Nat : Rank(S, m) >= j}
<1>2. T # {} /\ T \in SUBSET Nat
  BY <1>0, <1>1
<1>3. PICK m \in T : \A y \in T : m <= y
  <2> HIDE DEF T
  <2> QED BY <1>2, LeastNumber
<1>4. m \in Nat /\ Rank(S, m) \in Nat /\ Rank(S, m) >= j
  BY RankType
<1>5. CASE m = 0
  <2>1. {h \in S : h <= m} \subseteq {0}
    <3>1. \A h \in S : h <= 0 => h = 0
      BY <1>0
    <3> QED BY <3>1, <1>5
  <2>2. {h \in S : h <= m} = {} => Rank(S, m) = 0
    BY FS_EmptySet DEF Rank
  <2>3. 0 \in S /\ {h \in S : h <= m} = {0}
    BY <1>4, <2>1, <2>2
  <2>4. Rank(S, m) = 1
    BY <2>3, FS_Singleton DEF Rank
  <2> QED BY <1>4, <1>5, <2>3, <2>4
<1>6. CASE m # 0
  <2>1. m - 1 \in Nat /\ m - 1 \notin T
    BY <1>3, <1>4, <1>6
  <2>2. Rank(S, m - 1) \in Nat /\ Rank(S, m - 1) < j
    <3>1. Rank(S, m - 1) \in Nat
      BY <2>1, RankType
    <3> QED BY <2>1, <3>1
  <2> DEFINE A == {h \in S : h <= m - 1}
  <2>3. IsFiniteSet(A)
    BY <2>1, RankType
  <2>4. {h \in S : h <= m} = IF m \in S THEN A \cup {m} ELSE A
    <3>1. \A h \in S : h <= m <=> (h <= m - 1 \/ h = m)
      BY <1>0, <1>4
    <3> QED BY <3>1, <1>4
  <2>5. m \notin A
    BY <1>4
  <2>6. m \in S /\ Rank(S, m) = Cardinality(A \cup {m})
    BY <1>4, <2>2, <2>4 DEF Rank
  <2>7. Rank(S, m) = Rank(S, m - 1) + 1
    <3> HIDE DEF A
    <3>1. Cardinality(A \cup {m}) = Cardinality(A) + 1
      BY <2>3, <2>5, FS_AddElement
    <3> QED BY <2>6, <3>1 DEF Rank, A
  <2> QED BY <1>4, <2>2, <2>6, <2>7
<1> QED BY <1>5, <1>6

(* Nth and Rank are inverse to each other. *)
LEMMA NthRank ==
  ASSUME NEW n \in Nat, NEW S \in SUBSET (0 .. n)
  PROVE  /\ \A j \in 1 .. Cardinality(S) : Nth(S, j) \in S /\ Rank(S, Nth(S, j)) = j
         /\ \A i \in S : Nth(S, Rank(S, i)) = i
<1>1. \A j \in 1 .. Cardinality(S) : Nth(S, j) \in S /\ Rank(S, Nth(S, j)) = j
  <2> SUFFICES ASSUME NEW j \in 1 .. Cardinality(S)
               PROVE  Nth(S, j) \in S /\ Rank(S, Nth(S, j)) = j
    OBVIOUS
  <2>1. \E i \in S : Cardinality({h \in S : h <= i}) = j
    BY RankReached DEF Rank
  <2> QED BY <2>1 DEF Nth, Rank
<1>2. ASSUME NEW i \in S PROVE Nth(S, Rank(S, i)) = i
  <2>1. Rank(S, i) \in 1 .. Cardinality(S)
    BY RankOrders
  <2>2. Nth(S, Rank(S, i)) \in S /\ Rank(S, Nth(S, Rank(S, i))) = Rank(S, i)
    BY <1>1, <2>1
  <2> QED BY <2>2, RankOrders
<1> QED BY <1>1, <1>2

(* Nth enumerates a set in ascending order. *)
LEMMA NthAscends ==
  ASSUME NEW n \in Nat, NEW S \in SUBSET (0 .. n),
         NEW i \in 1 .. Cardinality(S), NEW j \in 1 .. Cardinality(S), i < j
  PROVE  Nth(S, i) < Nth(S, j)
<1>1. Nth(S, i) \in S /\ Nth(S, j) \in S /\ Rank(S, Nth(S, i)) = i /\ Rank(S, Nth(S, j)) = j
  BY NthRank
<1>2. Rank(S, Nth(S, i)) < Rank(S, Nth(S, j)) <=> Nth(S, i) < Nth(S, j)
  BY <1>1, RankOrders
<1> QED BY <1>1, <1>2

(* A restricted sequence holds each of the chosen elements once, at its rank. *)
LEMMA WhereHolds ==
  ASSUME NEW n \in Nat, NEW S \in SUBSET (1 .. n), NEW seq
  PROVE  /\ Cardinality(S) \in Nat /\ Len(Where(seq, S)) = Cardinality(S)
         /\ DOMAIN Where(seq, S) = 1 .. Cardinality(S)
         /\ \A j \in 1 .. Cardinality(S) : Nth(S, j) \in S /\ Where(seq, S)[j] = seq[Nth(S, j)]
         /\ \A i \in S : Rank(S, i) \in 1 .. Cardinality(S) /\ Where(seq, S)[Rank(S, i)] = seq[i]
         /\ \A i \in S, j \in 1 .. Cardinality(S) : Nth(S, j) = i <=> j = Rank(S, i)
<1>0. S \in SUBSET (0 .. n)
  OBVIOUS
<1>1. Cardinality(S) \in Nat
  BY <1>0, RankType
<1>2. /\ \A j \in 1 .. Cardinality(S) : Nth(S, j) \in S /\ Rank(S, Nth(S, j)) = j
      /\ \A i \in S : Nth(S, Rank(S, i)) = i
  BY <1>0, NthRank
<1>3. \A i \in S : Rank(S, i) \in 1 .. Cardinality(S)
  BY <1>0, RankOrders
<1>4. /\ DOMAIN Where(seq, S) = 1 .. Cardinality(S)
      /\ \A j \in 1 .. Cardinality(S) : Where(seq, S)[j] = seq[Nth(S, j)]
  BY DEF Where
<1>5. Len(Where(seq, S)) = Cardinality(S)
  BY <1>1 DEF Where
<1> QED BY <1>1, <1>2, <1>3, <1>4, <1>5

-----------------------------------------------------------------------------
(***************************************************************************)
(* Widths.                                                                 *)
(***************************************************************************)
Width == [Char -> 1 .. 4]

LEMMA Widths == Bytes \in Width /\ Units \in Width
BY DEF Bytes, Units, Width, Char

(* Each character takes something, so that places in a text are told apart by
   what is before them. *)
LEMMA TakenGrows ==
  ASSUME text \in Seq(Char), NEW width \in Width, NEW from \in Nat, NEW j \in from .. Len(text)
  PROVE  /\ Taken(width, from, j) \in Nat
         /\ \A k \in from .. Len(text) : j < k => Taken(width, from, j) < Taken(width, from, k)
<1> DEFINE D(k) == {u \in (from + 1 .. k) \X (1 .. 4) : u[2] <= width[text[u[1]]]}
<1>0. Len(text) \in Nat /\ j \in Nat
  OBVIOUS
<1>1. ASSUME NEW k \in Nat PROVE IsFiniteSet(D(k)) /\ Cardinality(D(k)) \in Nat
  <2>1. IsFiniteSet((from + 1 .. k) \X (1 .. 4))
    <3>1. from + 1 \in Int /\ k \in Int
      OBVIOUS
    <3>2. IsFiniteSet(from + 1 .. k)
      BY <3>1, FS_Interval
    <3>3. 1 \in Int /\ 4 \in Int
      OBVIOUS
    <3>4. IsFiniteSet(1 .. 4)
      BY <3>3, FS_Interval
    <3> QED BY <3>2, <3>4, FS_Product
  <2> QED BY <2>1, FS_Subset, FS_CardinalityType
<1>2. ASSUME NEW k \in from .. Len(text), j < k
      PROVE  Cardinality(D(j)) < Cardinality(D(k))
  <2>0. k \in Nat /\ k \in 1 .. Len(text) /\ k \in from + 1 .. k
    BY <1>0, <1>2
  <2>1. D(j) \in SUBSET D(k)
    <3>1. from + 1 .. j \subseteq from + 1 .. k
      BY <1>0, <1>2, <2>0
    <3> QED BY <3>1
  <2>2. <<k, 1>> \in D(k)
    <3>1. text[k] \in Char
      BY <2>0
    <3>2. width[text[k]] \in 1 .. 4
      BY <3>1 DEF Width
    <3> QED BY <3>2, <2>0
  <2>3. <<k, 1>> \notin D(j)
    BY <1>0, <1>2, <2>0
  <2>4. IsFiniteSet(D(k)) /\ Cardinality(D(k)) \in Nat /\ Cardinality(D(j)) \in Nat
    BY <1>0, <1>1, <2>0
  <2>5. Cardinality(D(j)) <= Cardinality(D(k)) /\ (Cardinality(D(k)) = Cardinality(D(j)) => D(k) = D(j))
    <3> HIDE DEF D
    <3> QED BY <2>1, <2>4, FS_Subset
  <2>6. D(k) # D(j)
    <3> HIDE DEF D
    <3> QED BY <2>2, <2>3
  <2> HIDE DEF D
  <2> QED BY <2>4, <2>5, <2>6
<1>3. \A k \in Nat : Taken(width, from, k) = Cardinality(D(k))
  BY DEF Taken
<1>4. Taken(width, from, j) \in Nat
  BY <1>0, <1>1, <1>3
<1>5. ASSUME NEW k \in from .. Len(text), j < k
      PROVE  Taken(width, from, j) < Taken(width, from, k)
  <2>1. k \in Nat
    BY <1>0
  <2> HIDE DEF D
  <2> QED BY <1>0, <1>2, <1>3, <1>5, <2>1
<1> QED BY <1>4, <1>5

(* A byte offset is one boundary's, and they are in order. *)
LEMMA BytesGrow ==
  ASSUME text \in Seq(Char), NEW j \in Boundary, NEW k \in Boundary
  PROVE  /\ ByteAt(j) \in Nat
         /\ ByteAt(j) <= ByteAt(k) <=> j <= k
         /\ ByteAt(j) = ByteAt(k) <=> j = k
<1>0. Len(text) \in Nat /\ j \in 0 .. Len(text) /\ k \in 0 .. Len(text)
  BY DEF Boundary
<1>1. /\ ByteAt(j) \in Nat /\ ByteAt(k) \in Nat
      /\ j < k => ByteAt(j) < ByteAt(k)
      /\ k < j => ByteAt(k) < ByteAt(j)
  BY <1>0, TakenGrows, Widths DEF ByteAt
<1> QED BY <1>0, <1>1

-----------------------------------------------------------------------------
(***************************************************************************)
(* Lines.                                                                  *)
(***************************************************************************)
LEMMA StartsInText ==
  ASSUME text \in Seq(Char)
  PROVE  /\ Len(text) \in Nat
         /\ LineStarts \in SUBSET (0 .. Len(text)) /\ LineStarts \in SUBSET Boundary
         /\ 0 \in LineStarts
         /\ Cardinality(LineStarts) \in Nat \ {0}
         /\ \A k \in Boundary : LineOf(k) = Rank(LineStarts, k) - 1
<1>1. Len(text) \in Nat /\ DOMAIN text = 1 .. Len(text)
  OBVIOUS
<1>2. LineStarts \in SUBSET (0 .. Len(text)) /\ 0 \in LineStarts
  BY <1>1 DEF LineStarts
<1>3. Cardinality(LineStarts) \in Nat
  BY <1>1, <1>2, RankType
<1>4. Rank(LineStarts, 0) \in 1 .. Cardinality(LineStarts)
  BY <1>1, <1>2, RankOrders
<1> QED BY <1>1, <1>2, <1>3, <1>4 DEF LineOf, Rank, Boundary

(* Lines are numbered from zero in the order of their beginnings. *)
LEMMA LineNumbers ==
  ASSUME text \in Seq(Char)
  PROVE  /\ \A line \in Lines : LineStart(line) \in LineStarts /\ LineOf(LineStart(line)) = line
         /\ \A s \in LineStarts : LineOf(s) \in Lines /\ LineStart(LineOf(s)) = s
         /\ \A s, t \in LineStarts : LineOf(s) < LineOf(t) <=> s < t
<1>1. /\ Len(text) \in Nat /\ LineStarts \in SUBSET (0 .. Len(text))
      /\ \A k \in LineStarts : LineOf(k) = Rank(LineStarts, k) - 1
      /\ Cardinality(LineStarts) \in Nat
  BY StartsInText
<1>2. /\ \A j \in 1 .. Cardinality(LineStarts) :
           Nth(LineStarts, j) \in LineStarts /\ Rank(LineStarts, Nth(LineStarts, j)) = j
      /\ \A i \in LineStarts : Nth(LineStarts, Rank(LineStarts, i)) = i
  BY <1>1, NthRank
<1>3. \A s \in LineStarts : Rank(LineStarts, s) \in 1 .. Cardinality(LineStarts)
  BY <1>1, RankOrders
<1>4. \A s, t \in LineStarts : Rank(LineStarts, s) < Rank(LineStarts, t) <=> s < t
  BY <1>1, RankOrders
<1>5. ASSUME NEW line \in Lines
      PROVE  LineStart(line) \in LineStarts /\ LineOf(LineStart(line)) = line
  <2>1. line \in Nat /\ line + 1 \in 1 .. Cardinality(LineStarts)
    BY <1>1 DEF Lines
  <2>2. /\ LineStart(line) \in LineStarts
        /\ LineOf(LineStart(line)) = Rank(LineStarts, LineStart(line)) - 1
        /\ Rank(LineStarts, LineStart(line)) = line + 1
    BY <1>1, <1>2, <2>1 DEF LineStart
  <2> QED BY <2>1, <2>2
<1>6. ASSUME NEW s \in LineStarts
      PROVE  LineOf(s) \in Lines /\ LineStart(LineOf(s)) = s
  <2>1. LineOf(s) + 1 = Rank(LineStarts, s) /\ LineOf(s) \in Lines
    BY <1>1, <1>3 DEF Lines
  <2> QED BY <1>2, <2>1 DEF LineStart
<1>7. ASSUME NEW s \in LineStarts, NEW t \in LineStarts
      PROVE  LineOf(s) < LineOf(t) <=> s < t
  BY <1>1, <1>3, <1>4
<1> QED BY <1>5, <1>6, <1>7

(* A boundary belongs to the line of the last beginning that is not behind it. *)
LEMMA LineBegins ==
  ASSUME text \in Seq(Char), NEW k \in Boundary
  PROVE  /\ LineOf(k) \in Lines
         /\ LineStart(LineOf(k)) \in LineStarts
         /\ LineStart(LineOf(k)) <= k
         /\ \A s \in LineStarts : s <= k => s <= LineStart(LineOf(k))
<1>0. /\ Len(text) \in Nat /\ LineStarts \in SUBSET (0 .. Len(text))
      /\ k \in 0 .. Len(text) /\ k \in Nat /\ 0 \in LineStarts
      /\ Cardinality(LineStarts) \in Nat
      /\ \A i \in Boundary : LineOf(i) = Rank(LineStarts, i) - 1
      /\ LineStarts \in SUBSET Boundary
  BY StartsInText DEF Boundary
<1>1. Rank(LineStarts, k) \in Nat /\ Rank(LineStarts, k) <= Cardinality(LineStarts)
  BY <1>0, RankType
<1>2. Rank(LineStarts, 0) \in 1 .. Cardinality(LineStarts) /\ Rank(LineStarts, 0) <= Rank(LineStarts, k)
  <2>1. Rank(LineStarts, 0) \in 1 .. Cardinality(LineStarts)
    BY <1>0, RankOrders
  <2>2. 0 \in Nat /\ 0 <= k
    BY <1>0
  <2>3. Rank(LineStarts, 0) <= Rank(LineStarts, k)
    BY <1>0, <2>2, RankMonotone
  <2> QED BY <2>1, <2>3
<1>3. LineOf(k) \in Lines
  BY <1>0, <1>1, <1>2 DEF Lines
<1> DEFINE s0 == LineStart(LineOf(k))
<1>4. s0 \in LineStarts /\ LineOf(s0) = LineOf(k)
  BY <1>3, LineNumbers
<1>5. s0 \in Nat /\ Rank(LineStarts, s0) \in Nat /\ Rank(LineStarts, s0) = Rank(LineStarts, k)
  <2>1. s0 \in Nat /\ s0 \in Boundary
    <3>1. \A s \in LineStarts : s \in Nat /\ s \in Boundary
      BY <1>0
    <3> QED BY <1>4, <3>1
  <2>2. Rank(LineStarts, s0) \in Nat
    BY <1>0, <2>1, RankType
  <2> HIDE DEF s0
  <2> QED BY <1>0, <1>1, <1>4, <2>1, <2>2
<1> HIDE DEF s0
<1>6. s0 <= k
  <2> SUFFICES ASSUME k < s0 PROVE FALSE
    BY <1>0, <1>5
  <2>1. k <= s0
    BY <1>0, <1>5
  <2>2. (\E h \in LineStarts : k < h /\ h <= s0) <=> Rank(LineStarts, k) < Rank(LineStarts, s0)
    BY <1>0, <1>5, <2>1, RankMonotone
  <2> QED BY <2>2, <1>4, <1>5
<1>7. ASSUME NEW s \in LineStarts, s <= k PROVE s <= s0
  <2> SUFFICES ASSUME s0 < s PROVE FALSE
    BY <1>0, <1>5
  <2>1. Rank(LineStarts, s0) < Rank(LineStarts, k)
    BY <1>0, <1>4, <1>5, <1>6, <1>7, RankMonotone
  <2> QED BY <2>1, <1>5
<1> QED BY <1>3, <1>4, <1>6, <1>7 DEF s0

(* The line of a boundary grows with it. *)
LEMMA LinesAscend ==
  ASSUME text \in Seq(Char), NEW j \in Boundary, NEW k \in Boundary, j <= k
  PROVE  LineOf(j) \in Nat /\ LineOf(k) \in Nat /\ LineOf(j) <= LineOf(k)
<1>1. /\ Len(text) \in Nat /\ LineStarts \in SUBSET (0 .. Len(text))
      /\ j \in Nat /\ k \in Nat /\ Cardinality(LineStarts) \in Nat
      /\ LineOf(j) = Rank(LineStarts, j) - 1 /\ LineOf(k) = Rank(LineStarts, k) - 1
  BY StartsInText DEF Boundary
<1>2. LineOf(j) \in Nat /\ LineOf(k) \in Nat
  BY <1>1, LineBegins DEF Lines
<1>3. Rank(LineStarts, j) \in Nat /\ Rank(LineStarts, k) \in Nat
  BY <1>1, RankType
<1>4. Rank(LineStarts, j) <= Rank(LineStarts, k)
  BY <1>1, RankMonotone
<1> QED BY <1>1, <1>2, <1>3, <1>4

(* A line ends where the next begins, behind its line feed, or with the text. *)
LEMMA LineExtends ==
  ASSUME text \in Seq(Char), NEW line \in Lines
  PROVE  /\ LineStart(line) \in Boundary /\ LineEnd(line) \in Boundary
         /\ LineStart(line) <= LineEnd(line)
         /\ \A k \in Boundary : LineStart(line) <= k /\ k < LineEnd(line) => LineOf(k) = line
         /\ \A k \in Boundary : LineOf(k) = line => LineStart(line) <= k /\ k <= LineEnd(line)
         /\ \/ /\ LineStart(line) < LineEnd(line) /\ text[LineEnd(line)] = "nl"
               /\ LineOf(LineEnd(line)) # line
            \/ /\ LineEnd(line) = Len(text) /\ LineOf(LineEnd(line)) = line
               /\ LineEnd(line) = LineStart(line) \/ text[LineEnd(line)] # "nl"
<1> DEFINE s == LineStart(line)
           e == LineEnd(line)
<1>0. /\ Len(text) \in Nat /\ LineStarts \in SUBSET Boundary
      /\ Cardinality(LineStarts) \in Nat
      /\ \A k \in Boundary : k \in Nat /\ k <= Len(text)
      /\ line \in Nat /\ line < Cardinality(LineStarts)
      /\ Len(text) \in Boundary
  BY StartsInText DEF Boundary, Lines
<1>1. s \in LineStarts /\ LineOf(s) = line /\ s \in Boundary
  BY <1>0, LineNumbers
<1>2. \A k \in Boundary : LineOf(k) = line => s <= k
  BY LineBegins
<1>3. \A k \in Boundary : s <= k => LineOf(k) \in Lines /\ LineOf(k) \in Nat /\ line <= LineOf(k)
  <2> SUFFICES ASSUME NEW k \in Boundary, s <= k
               PROVE  LineOf(k) \in Lines /\ LineOf(k) \in Nat /\ line <= LineOf(k)
    OBVIOUS
  <2> HIDE DEF s
  <2> QED BY <1>1, LinesAscend, LineBegins
<1>4. CASE line + 1 < Cardinality(LineStarts)
  <2>1. line + 1 \in Lines /\ e = LineStart(line + 1)
    BY <1>0, <1>4 DEF Lines, LineEnd
  <2>2. e \in LineStarts /\ LineOf(e) = line + 1 /\ e \in Boundary
    BY <1>0, <2>1, LineNumbers
  <2>3. s < e
    <3>1. LineOf(s) < LineOf(e)
      BY <1>0, <1>1, <2>2
    <3> HIDE DEF s, e
    <3> QED BY <3>1, <1>1, <2>2, LineNumbers
  <2>4. text[e] = "nl"
    <3>1. e # 0
      BY <1>0, <1>1, <2>2, <2>3
    <3> HIDE DEF e
    <3> QED BY <3>1, <2>2 DEF LineStarts
  <2>5. ASSUME NEW k \in Boundary, s <= k, k < e PROVE LineOf(k) = line
    <3>1. LineOf(k) \in Nat /\ line <= LineOf(k)
      BY <1>3, <2>5
    <3>2. LineOf(k) <= line + 1
      <4>1. k <= e
        BY <1>0, <2>2, <2>5
      <4> HIDE DEF s, e
      <4> QED BY <4>1, <2>2, LinesAscend
    <3>3. LineOf(k) # line + 1
      <4>1. LineStart(LineOf(k)) <= k
        BY LineBegins
      <4>2. SUFFICES ASSUME LineOf(k) = line + 1 PROVE FALSE
        OBVIOUS
      <4>3. e <= k
        BY <2>1, <4>1, <4>2
      <4> HIDE DEF s, e
      <4> QED BY <1>0, <2>2, <2>5, <4>3
    <3> QED BY <1>0, <3>1, <3>2, <3>3
  <2>6. ASSUME NEW k \in Boundary, LineOf(k) = line PROVE k <= e
    <3>1. SUFFICES ASSUME e <= k PROVE FALSE
      BY <1>0, <2>2
    <3>2. e <= s
      BY <2>2, <2>6, <3>1, LineBegins
    <3> HIDE DEF s, e
    <3> QED BY <1>0, <1>1, <2>2, <2>3, <3>2
  <2> HIDE DEF s, e
  <2>7. s <= e /\ LineOf(e) # line
    BY <1>0, <1>1, <2>2, <2>3
  <2> QED BY <1>1, <1>2, <2>2, <2>3, <2>4, <2>5, <2>6, <2>7 DEF s, e
<1>5. CASE ~(line + 1 < Cardinality(LineStarts))
  <2>1. e = Len(text) /\ e \in Boundary /\ Cardinality(LineStarts) = line + 1
    BY <1>0, <1>5 DEF LineEnd
  <2>2. \A k \in Boundary : s <= k => LineOf(k) = line
    <3> SUFFICES ASSUME NEW k \in Boundary, s <= k PROVE LineOf(k) = line
      OBVIOUS
    <3>1. LineOf(k) \in Lines /\ LineOf(k) \in Nat /\ line <= LineOf(k)
      BY <1>3
    <3> HIDE DEF s, e
    <3> QED BY <1>0, <2>1, <3>1 DEF Lines
  <2>3. s <= e /\ \A k \in Boundary : k <= e
    BY <1>0, <1>1, <2>1
  <2>4. e = s \/ text[e] # "nl"
    <3> SUFFICES ASSUME e # s, text[e] = "nl" PROVE FALSE
      OBVIOUS
    <3>1. e \in DOMAIN text
      BY <1>0, <1>1, <2>1, <2>3
    <3>2. e \in LineStarts
      BY <3>1 DEF LineStarts
    <3>3. e <= s
      <4>1. LineOf(e) = line /\ e <= e
        BY <1>0, <2>1, <2>2, <2>3
      <4> HIDE DEF e
      <4> QED BY <2>1, <3>2, <4>1, LineBegins
    <3> QED BY <1>0, <1>1, <2>1, <2>3, <3>3
  <2> HIDE DEF s, e
  <2> QED BY <1>1, <1>2, <2>1, <2>2, <2>3, <2>4 DEF s, e
<1> QED BY <1>4, <1>5

(* The content of a line ends in that line. *)
LEMMA ContentEnds ==
  ASSUME text \in Seq(Char), NEW line \in Lines
  PROVE  /\ ContentEnd(line) \in Boundary
         /\ LineStart(line) <= ContentEnd(line)
         /\ LineOf(ContentEnd(line)) = line
         /\ LineOf(LineEnd(line)) = line => ContentEnd(line) = LineEnd(line)
<1> DEFINE s == LineStart(line)
           e == LineEnd(line)
           c == ContentEnd(line)
<1>0. /\ s \in Boundary /\ e \in Boundary /\ s <= e
      /\ s \in Nat /\ e \in Nat /\ e <= Len(text) /\ Len(text) \in Nat
      /\ \A k \in Boundary : s <= k /\ k < e => LineOf(k) = line
      /\ \/ s < e /\ text[e] = "nl" /\ LineOf(e) # line
         \/ e = Len(text) /\ LineOf(e) = line /\ (e = s \/ text[e] # "nl")
  BY LineExtends, StartsInText DEF Boundary
<1>1. c = IF e = s \/ text[e] # "nl" THEN e
          ELSE IF e - 1 > s /\ text[e - 1] = "cr" THEN e - 2 ELSE e - 1
  BY DEF ContentEnd
<1> HIDE DEF s, e, c
<1>2. CASE s < e /\ text[e] = "nl" /\ LineOf(e) # line
  <2>1. c \in {e - 1, e - 2} /\ s <= c /\ c < e /\ c \in Nat
    BY <1>0, <1>1, <1>2
  <2>2. c \in Boundary
    BY <1>0, <2>1 DEF Boundary
  <2> QED BY <1>0, <1>2, <2>1, <2>2 DEF s, e, c
<1>3. CASE e = Len(text) /\ LineOf(e) = line /\ (e = s \/ text[e] # "nl")
  BY <1>0, <1>1, <1>3 DEF s, e, c
<1> QED BY <1>0, <1>2, <1>3

-----------------------------------------------------------------------------
(***************************************************************************)
(* From bytes to the editor's columns and back.                            *)
(***************************************************************************)
Col(k) == Taken(Units, LineStart(LineOf(k)), k)

LEMMA LineColOfBoundary ==
  ASSUME text \in Seq(Char), NEW k \in Boundary
  PROVE  LineCol(ByteAt(k)) = [line |-> LineOf(k), col |-> Col(k)]
<1> DEFINE B == {j \in Boundary : ByteAt(j) <= ByteAt(k)}
<1>1. k \in B /\ \A j \in B : j <= k
  BY BytesGrow DEF Boundary
<1>2. B \in SUBSET Nat
  BY DEF Boundary
<1>3. Max(B) = k
  <2> HIDE DEF B
  <2> QED BY <1>1, <1>2, GreatestIs
<1> QED BY <1>3 DEF LineCol, Col

(* Within a line, columns grow with the boundary. *)
LEMMA ColumnsAscend ==
  ASSUME text \in Seq(Char), NEW j \in Boundary, NEW k \in Boundary, LineOf(j) = LineOf(k)
  PROVE  /\ Col(j) \in Nat /\ Col(k) \in Nat
         /\ j < k => Col(j) < Col(k)
<1> DEFINE s == LineStart(LineOf(k))
<1>1. s \in Nat /\ s <= j /\ s <= k /\ Len(text) \in Nat
  <2>1. s <= k /\ s <= j /\ s \in Boundary
    BY LineBegins, StartsInText
  <2> QED BY <2>1, StartsInText DEF Boundary
<1>2. j \in s .. Len(text) /\ k \in s .. Len(text)
  BY <1>1 DEF Boundary
<1>3. Col(j) = Taken(Units, s, j) /\ Col(k) = Taken(Units, s, k)
  BY DEF Col
<1> HIDE DEF s
<1> QED BY <1>1, <1>2, <1>3, TakenGrows, Widths

(* Offset stays in the line it is asked for, and stops at the column or behind
   it, unless the content ends before. *)
LEMMA OffsetLands ==
  ASSUME text \in Seq(Char), NEW line \in Lines, NEW col \in Nat
  PROVE  \E k \in Boundary :
           /\ LineOf(k) = line /\ Offset([line |-> line, col |-> col]) = ByteAt(k)
           /\ Col(k) >= col \/ k = ContentEnd(line)
<1> DEFINE pos == [line |-> line, col |-> col]
           s == LineStart(line)
           e == LineEnd(line)
           ahead == {k \in s .. e - 1 : Taken(Units, s, k) >= col}
<1>0. /\ s \in Nat /\ e \in Nat /\ e <= Len(text) /\ Len(text) \in Nat
      /\ \A k \in Boundary : s <= k /\ k < e => LineOf(k) = line
      /\ ContentEnd(line) \in Boundary /\ LineOf(ContentEnd(line)) = line
  BY LineExtends, ContentEnds, StartsInText DEF Boundary
<1>1. Offset(pos) = ByteAt(IF ahead # {} THEN Min(ahead) ELSE ContentEnd(line))
  BY DEF Offset
<1>2. CASE ahead = {}
  BY <1>0, <1>1, <1>2
<1>3. CASE ahead # {}
  <2>1. ahead \in SUBSET Nat
    BY <1>0
  <2>2. Min(ahead) \in ahead
    <3> HIDE DEF ahead
    <3> QED BY <1>3, <2>1, LeastExists
  <2> DEFINE k == Min(ahead)
  <2>3. k \in Boundary /\ s <= k /\ k < e /\ Taken(Units, s, k) >= col
    BY <1>0, <2>2 DEF Boundary
  <2>4. LineOf(k) = line
    <3> HIDE DEF k
    <3> QED BY <1>0, <2>3
  <2>5. Col(k) >= col
    BY <2>3, <2>4 DEF Col
  <2> QED BY <1>1, <1>3, <2>3, <2>4, <2>5
<1> QED BY <1>2, <1>3

(* A boundary goes to the editor and comes back as itself. *)
LEMMA BoundaryReturns ==
  ASSUME text \in Seq(Char), NEW k \in Boundary
  PROVE  Offset(LineCol(ByteAt(k))) = ByteAt(k)
<1> DEFINE line == LineOf(k)
           s == LineStart(line)
           e == LineEnd(line)
           ahead == {i \in s .. e - 1 : Taken(Units, s, i) >= Col(k)}
<1>0. /\ line \in Lines /\ k \in Nat
      /\ s \in Nat /\ e \in Nat /\ e <= Len(text) /\ Len(text) \in Nat
      /\ s <= k /\ k <= e /\ e \in Boundary
      /\ \A i \in Boundary : s <= i /\ i < e => LineOf(i) = line
      /\ LineOf(e) = line => ContentEnd(line) = e
  <2>1. line \in Lines
    BY LineBegins
  <2> HIDE DEF line
  <2>2. /\ s \in Boundary /\ e \in Boundary
        /\ \A i \in Boundary : s <= i /\ i < e => LineOf(i) = line
        /\ LineOf(k) = line => s <= k /\ k <= e
    BY <2>1, LineExtends
  <2>3. LineOf(e) = line => ContentEnd(line) = e
    BY <2>1, ContentEnds
  <2> QED BY <2>1, <2>2, <2>3, StartsInText DEF Boundary, line
<1>1. Offset(LineCol(ByteAt(k))) = ByteAt(IF ahead # {} THEN Min(ahead) ELSE ContentEnd(line))
  <2> DEFINE pos == LineCol(ByteAt(k))
  <2>1. pos.line = line /\ pos.col = Col(k)
    BY LineColOfBoundary
  <2> HIDE DEF pos, line
  <2>2. Offset(pos) = ByteAt(IF ahead # {} THEN Min(ahead) ELSE ContentEnd(line))
    BY <2>1 DEF Offset
  <2> QED BY <2>2 DEF pos, line
<1>2. \A i \in s .. e - 1 : i < k => ~(Taken(Units, s, i) >= Col(k))
  <2> SUFFICES ASSUME NEW i \in s .. e - 1, i < k
               PROVE  ~(Taken(Units, s, i) >= Col(k))
    OBVIOUS
  <2>1. i \in Boundary /\ LineOf(i) = line
    BY <1>0 DEF Boundary
  <2>2. Taken(Units, s, i) = Col(i)
    BY <2>1 DEF Col
  <2>3. Col(i) \in Nat /\ Col(k) \in Nat /\ Col(i) < Col(k)
    BY <2>1, ColumnsAscend
  <2> QED BY <2>2, <2>3
<1>3. CASE k < e
  <2>1. k \in ahead
    <3>1. Taken(Units, s, k) = Col(k) /\ Col(k) \in Nat
      BY ColumnsAscend DEF Col
    <3> QED BY <1>0, <1>3, <3>1
  <2>2. ahead \in SUBSET Nat /\ \A y \in ahead : k <= y
    BY <1>0, <1>2
  <2>3. Min(ahead) = k
    <3> HIDE DEF ahead
    <3> QED BY <2>1, <2>2, LeastIs
  <2> QED BY <1>1, <2>1, <2>3
<1>4. CASE k = e
  <2>1. ahead = {}
    BY <1>0, <1>2, <1>4
  <2> QED BY <1>0, <1>1, <1>4, <2>1
<1> QED BY <1>0, <1>3, <1>4

LEMMA TextColumnsAgree == text \in Seq(Char) => ColumnsAgree
<1> SUFFICES ASSUME text \in Seq(Char) PROVE ColumnsAgree
  OBVIOUS
<1>1. RoundTrip
  BY BoundaryReturns DEF RoundTrip
<1>2. StaysInLine
  <2> SUFFICES ASSUME NEW pos \in Position
               PROVE  /\ LineCol(Offset(pos)).line = pos.line
                      /\ \/ LineCol(Offset(pos)).col >= pos.col
                         \/ Offset(pos) >= ByteAt(ContentEnd(pos.line))
    BY DEF StaysInLine
  <2>1. pos.line \in Lines /\ pos.col \in Nat /\ pos = [line |-> pos.line, col |-> pos.col]
    BY DEF Position, Columns
  <2>2. PICK k \in Boundary :
          /\ LineOf(k) = pos.line /\ Offset(pos) = ByteAt(k)
          /\ Col(k) >= pos.col \/ k = ContentEnd(pos.line)
    BY <2>1, OffsetLands
  <2>3. LineCol(Offset(pos)) = [line |-> LineOf(k), col |-> Col(k)]
    BY <2>2, LineColOfBoundary
  <2>4. ByteAt(k) \in Nat
    BY BytesGrow
  <2> QED BY <2>2, <2>3, <2>4
<1> QED BY <1>1, <1>2 DEF ColumnsAgree

(* The walk of StartByte ends where it was told to. *)
LEMMA CompilerPlace ==
  ASSUME text \in Seq(Char), NEW k \in Boundary
  PROVE  StartByte(LineOf(k) + 1, k - LineStart(LineOf(k)) + 1) = ByteAt(k)
<1> DEFINE line == LineOf(k)
           s == LineStart(line)
           stops == {i \in s .. LineEnd(line) : i = k \/ i = Len(text) \/ text[i + 1] = "nl"}
<1>0. /\ line \in Lines /\ line \in Nat /\ k \in Nat /\ k <= Len(text)
      /\ s \in Nat /\ LineEnd(line) \in Nat /\ LineEnd(line) <= Len(text) /\ Len(text) \in Nat
      /\ s <= k /\ k <= LineEnd(line)
      /\ \A t \in LineStarts : t <= k => t <= s
  <2>1. line \in Lines /\ s <= k /\ \A t \in LineStarts : t <= k => t <= s
    BY LineBegins
  <2> HIDE DEF line
  <2>2. s \in Boundary /\ LineEnd(line) \in Boundary /\ (LineOf(k) = line => k <= LineEnd(line))
    BY <2>1, LineExtends
  <2> QED BY <2>1, <2>2, StartsInText DEF Boundary, Lines, line
<1>1. StartByte(line + 1, k - s + 1) = ByteAt(Min(stops))
  <2> DEFINE n == line + 1
             c == k - s + 1
  <2>1. n - 1 = line /\ \A i : i = s + c - 1 <=> i = k
    BY <1>0
  <2>2. StartByte(n, c) =
          ByteAt(Min({i \in LineStart(n - 1) .. LineEnd(n - 1) :
                        i = LineStart(n - 1) + c - 1 \/ i = Len(text) \/ text[i + 1] = "nl"}))
    BY DEF StartByte
  <2> HIDE DEF n, c, line
  <2>3. StartByte(n, c) = ByteAt(Min(stops))
    BY <2>1, <2>2
  <2> QED BY <2>3 DEF n, c, line
<1>2. k \in stops /\ stops \in SUBSET Nat
  BY <1>0
<1>3. ASSUME NEW i \in stops, i < k PROVE FALSE
  <2>1. i + 1 \in DOMAIN text /\ text[i + 1] = "nl" /\ i + 1 <= k /\ s < i + 1
    BY <1>0, <1>3
  <2>2. i + 1 \in LineStarts
    BY <2>1 DEF LineStarts
  <2> HIDE DEF stops
  <2> QED BY <1>0, <2>1, <2>2
<1>4. \A i \in stops : k <= i
  <2> HIDE DEF stops
  <2> QED BY <1>0, <1>2, <1>3
<1>5. Min(stops) = k
  <2> HIDE DEF stops
  <2> QED BY <1>2, <1>4, LeastIs
<1> QED BY <1>1, <1>5

LEMMA TextCompilerColumnsFit == text \in Seq(Char) => CompilerColumnsFit
BY CompilerPlace DEF CompilerColumnsFit

-----------------------------------------------------------------------------
(***************************************************************************)
(* Diagnostics and their ranges.                                           *)
(***************************************************************************)

(* A position that exists is located at a boundary of the text. *)
LEMMA StartByteLands ==
  ASSUME text \in Seq(Char), NEW line \in Nat, NEW col \in Nat, IsPlace(line, col)
  PROVE  \E k \in Boundary : StartByte(line, col) = ByteAt(k)
<1> DEFINE l == line - 1
           s == LineStart(l)
           e == LineEnd(l)
           stops == {i \in s .. e : i = s + col - 1 \/ i = Len(text) \/ text[i + 1] = "nl"}
<1>1. l \in Lines
  BY StartsInText DEF IsPlace, Lines
<1>2. /\ s \in Nat /\ e \in Nat /\ s <= e /\ e <= Len(text) /\ Len(text) \in Nat
      /\ (s < e /\ text[e] = "nl") \/ e = Len(text)
  <2> HIDE DEF l
  <2>1. /\ s \in Boundary /\ e \in Boundary /\ s <= e
        /\ (s < e /\ text[e] = "nl") \/ e = Len(text)
    BY <1>1, LineExtends
  <2> QED BY <2>1, StartsInText DEF Boundary
<1>3. stops # {} /\ stops \in SUBSET Nat
  <2> HIDE DEF s, e
  <2>1. CASE e = Len(text)
    BY <1>2, <2>1
  <2>2. CASE s < e /\ text[e] = "nl"
    <3>1. e - 1 \in s .. e /\ text[(e - 1) + 1] = "nl"
      BY <1>2, <2>2
    <3>2. e - 1 \in stops
      BY <3>1
    <3>3. \A i \in stops : i \in Nat
      BY <1>2
    <3> QED BY <3>2, <3>3
  <2> QED BY <1>2, <2>1, <2>2
<1>4. Min(stops) \in stops
  <2> HIDE DEF stops
  <2> QED BY <1>3, LeastExists
<1>5. Min(stops) \in Boundary
  BY <1>2, <1>4 DEF Boundary
<1>6. StartByte(line, col) = ByteAt(Min(stops))
  BY DEF StartByte
<1> HIDE DEF stops
<1> QED BY <1>5, <1>6

(* What is located at a boundary is the token there, the last token at the end,
   nothing in an empty text. *)
LEMMA LocateAt ==
  ASSUME text \in Seq(Char), NEW line, NEW col, NEW k \in Boundary,
         StartByte(line, col) = ByteAt(k)
  PROVE  Locate(line, col) = IF Len(text) = 0 THEN [from |-> 0, to |-> 0]
                             ELSE IF k = Len(text) THEN [from |-> k - 1, to |-> k]
                             ELSE [from |-> k, to |-> k + 1]
<1>0. Len(text) \in Nat /\ k \in Nat /\ k <= Len(text)
  BY DEF Boundary
<1>1. (CHOOSE j \in Boundary : ByteAt(j) = StartByte(line, col)) = k
  <2>1. \A j \in Boundary : ByteAt(j) = StartByte(line, col) <=> j = k
    BY BytesGrow
  <2> QED BY <2>1
<1> DEFINE last == Max({0, Len(text) - 1})
           first == Min({k, last})
<1>2. Locate(line, col) = [from |-> first, to |-> Min({first + 1, Len(text)})]
  BY <1>1 DEF Locate
<1>3. last = IF Len(text) = 0 THEN 0 ELSE Len(text) - 1
  <2>1. CASE Len(text) = 0
    <3>1. Max({0, -1}) = 0
      <4>1. \A y \in {0, -1} : 0 >= y
        OBVIOUS
      <4>2. Max({0, -1}) \in {0, -1} /\ \A y \in {0, -1} : Max({0, -1}) >= y
        BY <4>1 DEF Max
      <4> QED BY <4>2
    <3> QED BY <2>1, <3>1
  <2>2. CASE Len(text) # 0
    <3>1. {0, Len(text) - 1} \in SUBSET Nat /\ \A y \in {0, Len(text) - 1} : y <= Len(text) - 1
      BY <1>0, <2>2
    <3> QED BY <2>2, <3>1, GreatestIs
  <2> QED BY <2>1, <2>2
<1>4. last \in Nat
  BY <1>0, <1>3
<1> HIDE DEF last
<1>5. first = IF k <= last THEN k ELSE last
  <2>1. CASE k <= last
    <3>1. {k, last} \in SUBSET Nat /\ \A y \in {k, last} : k <= y
      BY <1>0, <1>4, <2>1
    <3> QED BY <2>1, <3>1, LeastIs
  <2>2. CASE ~(k <= last)
    <3>1. {k, last} \in SUBSET Nat /\ \A y \in {k, last} : last <= y
      BY <1>0, <1>4, <2>2
    <3> QED BY <2>2, <3>1, LeastIs
  <2> QED BY <2>1, <2>2
<1>6. first \in Nat
  BY <1>0, <1>4, <1>5
<1> HIDE DEF first
<1>7. Min({first + 1, Len(text)}) = IF first + 1 <= Len(text) THEN first + 1 ELSE Len(text)
  <2>1. CASE first + 1 <= Len(text)
    <3>1. /\ {first + 1, Len(text)} \in SUBSET Nat
          /\ \A y \in {first + 1, Len(text)} : first + 1 <= y
      BY <1>0, <1>6, <2>1
    <3> QED BY <2>1, <3>1, LeastIs
  <2>2. CASE ~(first + 1 <= Len(text))
    <3>1. /\ {first + 1, Len(text)} \in SUBSET Nat
          /\ \A y \in {first + 1, Len(text)} : Len(text) <= y
      BY <1>0, <1>6, <2>2
    <3> QED BY <2>2, <3>1, LeastIs
  <2> QED BY <2>1, <2>2
<1> QED BY <1>0, <1>2, <1>3, <1>5, <1>7

(* The compiler's position of a character leads to the token it is, whose range
   the editor reads as that character. *)
LEMMA LocateFinds ==
  ASSUME text \in Seq(Char), NEW k \in 0 .. Len(text) - 1
  PROVE  LET r == Spread(Locate(LineOf(k) + 1, k - LineStart(LineOf(k)) + 1))
         IN  /\ IsPlace(LineOf(k) + 1, k - LineStart(LineOf(k)) + 1)
             /\ Offset(r.start) = ByteAt(k) /\ Offset(r.end) = ByteAt(k + 1)
<1> DEFINE line == LineOf(k) + 1
           col == k - LineStart(LineOf(k)) + 1
<1>0. Len(text) \in Nat /\ k \in Boundary /\ k + 1 \in Boundary /\ k # Len(text) /\ Len(text) # 0
  BY DEF Boundary
<1>1. StartByte(line, col) = ByteAt(k)
  BY <1>0, CompilerPlace
<1>2. IsPlace(line, col)
  <2>1. /\ LineOf(k) \in Lines /\ LineStart(LineOf(k)) <= k /\ LineStart(LineOf(k)) \in LineStarts
    BY <1>0, LineBegins
  <2>2. LineStart(LineOf(k)) \in Nat /\ Cardinality(LineStarts) \in Nat
    BY <2>1, StartsInText DEF Boundary
  <2> QED BY <2>1, <2>2 DEF IsPlace, Lines
<1>3. Locate(line, col) = [from |-> k, to |-> k + 1]
  <2> HIDE DEF line, col
  <2> QED BY <1>0, <1>1, LocateAt
<1> DEFINE r == Spread(Locate(line, col))
<1>4. r.start = LineCol(ByteAt(k)) /\ r.end = LineCol(ByteAt(k + 1))
  BY <1>3 DEF Spread
<1> HIDE DEF r
<1>5. Offset(r.start) = ByteAt(k) /\ Offset(r.end) = ByteAt(k + 1)
  BY <1>0, <1>4, BoundaryReturns
<1> QED BY <1>2, <1>5 DEF r

(* Whatever is located becomes the range of a token or the top of the file. *)
LEMMA LocatedRange ==
  ASSUME text \in Seq(Char), NEW line \in Nat, NEW col \in Nat, IsPlace(line, col)
  PROVE  Spread(Locate(line, col)) \in Ranges \cup {Top}
<1>0. Len(text) \in Nat /\ DOMAIN text = 1 .. Len(text)
  OBVIOUS
<1>1. PICK k \in Boundary : StartByte(line, col) = ByteAt(k)
  BY StartByteLands
<1>2. Locate(line, col) = IF Len(text) = 0 THEN [from |-> 0, to |-> 0]
                          ELSE IF k = Len(text) THEN [from |-> k - 1, to |-> k]
                          ELSE [from |-> k, to |-> k + 1]
  BY <1>1, LocateAt
<1>3. CASE Len(text) = 0
  BY <1>2, <1>3 DEF Top
<1>4. CASE Len(text) # 0
  <2>1. PICK i \in DOMAIN text : Locate(line, col) = [from |-> i - 1, to |-> i]
    <3>1. CASE k = Len(text)
      BY <1>0, <1>2, <1>4, <3>1
    <3>2. CASE k # Len(text)
      <4>1. k + 1 \in DOMAIN text /\ (k + 1) - 1 = k
        <5>1. Len(text) \in Nat /\ k \in 0 .. Len(text)
          BY DEF Boundary
        <5>2. k + 1 \in 1 .. Len(text) /\ (k + 1) - 1 = k
          BY <3>2, <5>1
        <5> QED BY <1>0, <5>2
      <4> QED BY <1>2, <1>4, <3>2, <4>1
    <3> QED BY <3>1, <3>2
  <2> QED BY <2>1 DEF Ranges
<1> QED BY <1>3, <1>4

-----------------------------------------------------------------------------
(***************************************************************************)
(* The compiler's set.                                                     *)
(***************************************************************************)
Output == BoundedSeq(Line, MaxLines)
Compactc == {d \in Diagnostic : d.source = "compactc"}

LEMMA Bounds ==
  /\ MaxLength \in Nat /\ MaxTokens \in Nat
  /\ MaxDiagnostics \in Nat \ {0} /\ MaxNative \in Nat /\ MaxLines \in Nat
BY PositionsAssumption, MergeAssumption

LEMMA BoundedIsSeq ==
  ASSUME NEW S, NEW n \in Nat, NEW seq \in BoundedSeq(S, n)
  PROVE  seq \in Seq(S) /\ Len(seq) \in 0 .. n /\ DOMAIN seq = 1 .. Len(seq)
<1>1. PICK m \in 0 .. n : seq \in [1 .. m -> S]
  BY DEF BoundedSeq, SeqOf
<1>2. m \in Nat
  OBVIOUS
<1> QED BY <1>1, <1>2

(* Each attributed line names a place that exists. *)
LEMMA AttributedLines ==
  ASSUME text \in Seq(Char), NEW stderr \in Output
  PROVE  /\ Len(stderr) \in Nat /\ Len(stderr) <= MaxLines /\ DOMAIN stderr = 1 .. Len(stderr)
         /\ Attributed(stderr) \in SUBSET (1 .. Len(stderr))
         /\ Unattributed(stderr) \in SUBSET (1 .. MaxLines)
         /\ \A i \in Attributed(stderr) :
              /\ stderr[i].line \in Nat /\ stderr[i].col \in Nat
              /\ IsPlace(stderr[i].line, stderr[i].col)
<1>1. stderr \in Seq(Line) /\ Len(stderr) \in 0 .. MaxLines /\ DOMAIN stderr = 1 .. Len(stderr)
  BY Bounds, BoundedIsSeq DEF Output
<1>2. Parsed(stderr) \in SUBSET (1 .. Len(stderr)) /\ Parsed(stderr) \in SUBSET (1 .. MaxLines)
  <2>1. \A i \in 1 .. Len(stderr) : i \in 1 .. MaxLines
    BY <1>1, Bounds
  <2> QED BY <1>1, <2>1 DEF Parsed
<1>3. ASSUME NEW i \in Attributed(stderr) PROVE stderr[i].line \in Nat /\ stderr[i].col \in Nat
  <2>1. stderr[i] \in Line /\ stderr[i].kind = "structured"
    BY <1>1, <1>2, <1>3 DEF Attributed, Parsed
  <2>2. Len(text) \in Nat /\ Cardinality(LineStarts) \in Nat
    BY StartsInText
  <2>3. CASE stderr[i] \in [kind : {"structured"}, saved : {TRUE},
                          line : 0 .. Cardinality(LineStarts) + 1, col : 0 .. Len(text) + 1]
    <3>1. /\ stderr[i].line \in 0 .. Cardinality(LineStarts) + 1
          /\ stderr[i].col \in 0 .. Len(text) + 1
      BY <2>3
    <3> QED BY <2>2, <3>1
  <2>4. CASE stderr[i] \in [kind : {"structured"}, saved : {FALSE}, line : {1}, col : {1}]
    <3>1. stderr[i].line \in {1} /\ stderr[i].col \in {1}
      BY <2>4
    <3> QED BY <3>1
  <2>5. ~(stderr[i] \in [kind : {"blank", "other"}])
    BY <2>1
  <2> QED BY <2>1, <2>3, <2>4, <2>5 DEF Line
<1> QED BY <1>1, <1>2, <1>3 DEF Attributed, Unattributed

(* The set of a compile that reported errors: the attributed lines in their
   order, each with what it says, and what is left over behind them. *)
LEMMA FromErrorsAre ==
  ASSUME text \in Seq(Char), NEW stderr \in Output
  PROVE  LET A == Attributed(stderr)
             a == Cardinality(A)
             c == FromErrors(stderr)
             rest == Parsed(stderr) = {} \/ Unattributed(stderr) # {}
         IN  /\ a \in Nat /\ c \in Seq(Compactc) /\ Len(c) = IF rest THEN a + 1 ELSE a
             /\ \A i \in A : /\ Rank(A, i) \in 1 .. a
                             /\ c[Rank(A, i)] = CompilerDiagnostic(
                                  Spread(Locate(stderr[i].line, stderr[i].col)), {i})
             /\ \A j \in 1 .. a : \E i \in A : j = Rank(A, i)
             /\ rest => c[a + 1] = FileTop(Unattributed(stderr))
<1> DEFINE A == Attributed(stderr)
           a == Cardinality(A)
           D(i) == CompilerDiagnostic(Spread(Locate(stderr[i].line, stderr[i].col)), {i})
           all == [i \in DOMAIN stderr |-> D(i)]
           q == Squiggles(stderr)
           rest == Parsed(stderr) = {} \/ Unattributed(stderr) # {}
           t == IF rest THEN <<FileTop(Unattributed(stderr))>> ELSE << >>
           c == FromErrors(stderr)
<1>1. /\ Len(stderr) \in Nat /\ Len(stderr) <= MaxLines /\ DOMAIN stderr = 1 .. Len(stderr)
      /\ A \in SUBSET (1 .. Len(stderr)) /\ Unattributed(stderr) \in SUBSET (1 .. MaxLines)
  BY AttributedLines
<1>2. q = Where(all, A)
  BY DEF Squiggles
<1>3. /\ a \in Nat /\ Len(q) = a /\ DOMAIN q = 1 .. a
      /\ \A j \in 1 .. a : Nth(A, j) \in A /\ q[j] = all[Nth(A, j)]
      /\ \A i \in A : Rank(A, i) \in 1 .. a /\ q[Rank(A, i)] = all[i]
      /\ \A i \in A, j \in 1 .. a : Nth(A, j) = i <=> j = Rank(A, i)
  <2> HIDE DEF A, all, q
  <2> DEFINE w == Where(all, A)
  <2>1. /\ a \in Nat /\ Len(w) = a /\ DOMAIN w = 1 .. a
        /\ \A j \in 1 .. a : Nth(A, j) \in A /\ w[j] = all[Nth(A, j)]
        /\ \A i \in A : Rank(A, i) \in 1 .. a /\ w[Rank(A, i)] = all[i]
        /\ \A i \in A, j \in 1 .. a : Nth(A, j) = i <=> j = Rank(A, i)
    <3> DEFINE n == Len(stderr)
    <3>1. n \in Nat /\ A \in SUBSET (1 .. n)
      BY <1>1
    <3> HIDE DEF n
    <3>2. a \in Nat /\ Len(w) = a /\ DOMAIN w = 1 .. a
      BY <3>1, WhereHolds
    <3>3. \A j \in 1 .. a : Nth(A, j) \in A /\ w[j] = all[Nth(A, j)]
      <4>1. \A j \in 1 .. a : Nth(A, j) \in A
        BY <3>1, WhereHolds
      <4>2. \A j \in 1 .. a : w[j] = all[Nth(A, j)]
        BY DEF Where, w
      <4> QED BY <4>1, <4>2
    <3>4. \A i \in A : Rank(A, i) \in 1 .. a /\ w[Rank(A, i)] = all[i]
      BY <3>1, WhereHolds
    <3>5. \A i \in A, j \in 1 .. a : Nth(A, j) = i <=> j = Rank(A, i)
      BY <3>1, WhereHolds
    <3> QED BY <3>2, <3>3, <3>4, <3>5
  <2> HIDE DEF w, a
  <2>2. q = w
    BY <1>2 DEF w
  <2> QED BY <2>1, <2>2
<1>4. \A i \in A : all[i] = D(i) /\ D(i) \in Compactc
  <2> SUFFICES ASSUME NEW i \in A PROVE all[i] = D(i) /\ D(i) \in Compactc
    OBVIOUS
  <2>1. i \in 1 .. Len(stderr) /\ i \in 1 .. MaxLines
    <3>1. i \in 1 .. Len(stderr)
      BY <1>1
    <3> QED BY <1>1, <3>1, Bounds
  <2>2. Spread(Locate(stderr[i].line, stderr[i].col)) \in Ranges \cup {Top}
    BY AttributedLines, LocatedRange
  <2>3. D(i) \in Compactc
    BY <2>1, <2>2 DEF CompilerDiagnostic, Compactc, Diagnostic, Severity, Source
  <2>4. all[i] = D(i)
    BY <1>1, <2>1
  <2> QED BY <2>3, <2>4
<1>5. q \in Seq(Compactc)
  <2>1. ASSUME NEW j \in 1 .. a PROVE q[j] \in Compactc
    <3> DEFINE i == Nth(A, j)
    <3>1. i \in A /\ q[j] = all[i]
      BY <1>3
    <3> HIDE DEF i, A, q, a
    <3>2. all[i] = D(i) /\ D(i) \in Compactc
      BY <1>4, <3>1
    <3> HIDE DEF all, D
    <3> QED BY <3>1, <3>2
  <2> HIDE DEF A
  <2>2. q = [j \in 1 .. a |-> q[j]]
    BY <1>2, <1>3 DEF Where
  <2> HIDE DEF q, a
  <2> QED BY <1>3, <2>1, <2>2
<1>6. t \in Seq(Compactc) /\ Len(t) = (IF rest THEN 1 ELSE 0)
      /\ (rest => t[1] = FileTop(Unattributed(stderr)))
  <2>1. FileTop(Unattributed(stderr)) \in Compactc
    BY <1>1 DEF FileTop, CompilerDiagnostic, Compactc, Diagnostic, Severity, Source
  <2> QED BY <2>1
<1>7. c = q \o t
  BY DEF FromErrors
<1> HIDE DEF q, t, A, a, all, rest, c, D
<1>8. /\ c \in Seq(Compactc) /\ Len(c) = Len(q) + Len(t)
      /\ \A i \in 1 .. Len(q) + Len(t) : c[i] = IF i <= Len(q) THEN q[i] ELSE t[i - Len(q)]
  BY <1>5, <1>6, <1>7, ConcatProperties
<1>9. Len(c) = IF rest THEN a + 1 ELSE a
  BY <1>3, <1>6, <1>8
<1>10. ASSUME NEW i \in A PROVE Rank(A, i) \in 1 .. a /\ c[Rank(A, i)] = D(i)
  <2>1. Rank(A, i) \in 1 .. a /\ q[Rank(A, i)] = all[i]
    BY <1>3
  <2>2. Rank(A, i) \in 1 .. Len(q) + Len(t) /\ Rank(A, i) <= Len(q)
    BY <1>3, <1>6, <2>1
  <2> QED BY <1>4, <1>8, <2>1, <2>2
<1>11. \A j \in 1 .. a : \E i \in A : j = Rank(A, i)
  BY <1>3
<1>12. ASSUME rest PROVE c[a + 1] = FileTop(Unattributed(stderr))
  <2>1. a + 1 \in 1 .. Len(q) + Len(t) /\ ~(a + 1 <= Len(q)) /\ (a + 1) - Len(q) = 1
    BY <1>3, <1>6, <1>12
  <2> QED BY <1>6, <1>8, <1>12, <2>1
<1> QED BY <1>3, <1>8, <1>9, <1>10, <1>11, <1>12 DEF A, a, c, rest, D

(* Whatever a compile came to, its set is made of the compiler's diagnostics,
   and is empty exactly if it succeeded. *)
LEMMA CompilerSetIs ==
  ASSUME text \in Seq(Char), NEW status \in Status, NEW stderr \in Output
  PROVE  /\ BuildCompilerDiagnostics(status, stderr) \in Seq(Compactc)
         /\ BuildCompilerDiagnostics(status, stderr) # << >> <=> status \in Failing
<1>1. FileTop({}) \in Compactc
  BY DEF FileTop, CompilerDiagnostic, Compactc, Diagnostic, Severity, Source
<1>2. CASE status = "error"
  <2> DEFINE A == Attributed(stderr)
             c == FromErrors(stderr)
             rest == Parsed(stderr) = {} \/ Unattributed(stderr) # {}
  <2>1. /\ Cardinality(A) \in Nat /\ c \in Seq(Compactc)
        /\ Len(c) = IF rest THEN Cardinality(A) + 1 ELSE Cardinality(A)
    BY FromErrorsAre
  <2>2. ~rest => Cardinality(A) # 0
    <3>1. ~rest => A # {}
      BY DEF Unattributed, Attributed
    <3>2. IsFiniteSet(A)
      <4>1. Len(stderr) \in Nat /\ A \in SUBSET (0 .. Len(stderr))
        BY AttributedLines
      <4> HIDE DEF A
      <4> QED BY <4>1, RankType
    <3> HIDE DEF A
    <3> QED BY <3>1, <3>2, FS_EmptySet
  <2>3. Len(c) # 0
    <3> HIDE DEF A, c, rest
    <3> QED BY <2>1, <2>2
  <2>4. c # << >>
    BY <2>3
  <2> QED BY <1>2, <2>1, <2>4 DEF BuildCompilerDiagnostics, Failing
<1>3. CASE status # "error"
  BY <1>1, <1>3 DEF BuildCompilerDiagnostics, Failing
<1> QED BY <1>2, <1>3

(* Each message of the compiler is in exactly one diagnostic of its set, and the
   one it was attributed to is where the compiler meant it. *)
LEMMA MessageIsSaid ==
  ASSUME text \in Seq(Char), NEW stderr \in Output, NEW n \in Parsed(stderr)
  PROVE  \E i \in DOMAIN FromErrors(stderr) :
           /\ \A j \in DOMAIN FromErrors(stderr) : n \in FromErrors(stderr)[j].says <=> j = i
           /\ \A k \in 0 .. Len(text) - 1 :
                Means(stderr[n], k) =>
                  /\ Offset(FromErrors(stderr)[i].range.start) = ByteAt(k)
                  /\ Offset(FromErrors(stderr)[i].range.end) = ByteAt(k + 1)
<1> DEFINE A == Attributed(stderr)
           a == Cardinality(A)
           c == FromErrors(stderr)
           rest == Parsed(stderr) = {} \/ Unattributed(stderr) # {}
           R(i) == Spread(Locate(stderr[i].line, stderr[i].col))
<1>1. /\ a \in Nat /\ c \in Seq(Compactc) /\ Len(c) = IF rest THEN a + 1 ELSE a
      /\ \A i \in A : Rank(A, i) \in 1 .. a /\ c[Rank(A, i)] = CompilerDiagnostic(R(i), {i})
      /\ \A j \in 1 .. a : \E i \in A : j = Rank(A, i)
      /\ rest => c[a + 1] = FileTop(Unattributed(stderr))
  BY FromErrorsAre
<1>2. DOMAIN c = 1 .. Len(c)
  <2> HIDE DEF c
  <2> QED BY <1>1
<1>3. \A i \in A : c[Rank(A, i)].says = {i} /\ c[Rank(A, i)].range = R(i)
  <2> SUFFICES ASSUME NEW i \in A
               PROVE  c[Rank(A, i)].says = {i} /\ c[Rank(A, i)].range = R(i)
    OBVIOUS
  <2>1. c[Rank(A, i)] = CompilerDiagnostic(R(i), {i})
    BY <1>1
  <2> HIDE DEF c, A, R
  <2> QED BY <2>1 DEF CompilerDiagnostic
<1>4. rest => c[a + 1].says = Unattributed(stderr)
  BY <1>1 DEF FileTop, CompilerDiagnostic
<1>5. A \cap Unattributed(stderr) = {} /\ (n \in A \/ n \in Unattributed(stderr))
  BY DEF Unattributed
<1>6. \A k \in 0 .. Len(text) - 1 : Means(stderr[n], k) =>
        /\ n \in A
        /\ Offset(R(n).start) = ByteAt(k) /\ Offset(R(n).end) = ByteAt(k + 1)
  <2> SUFFICES ASSUME NEW k \in 0 .. Len(text) - 1, Means(stderr[n], k)
               PROVE  /\ n \in A
                      /\ Offset(R(n).start) = ByteAt(k) /\ Offset(R(n).end) = ByteAt(k + 1)
    OBVIOUS
  <2>1. /\ stderr[n].saved /\ stderr[n].line = LineOf(k) + 1
        /\ stderr[n].col = k - LineStart(LineOf(k)) + 1
    BY DEF Means
  <2>2. /\ IsPlace(stderr[n].line, stderr[n].col)
        /\ Offset(R(n).start) = ByteAt(k) /\ Offset(R(n).end) = ByteAt(k + 1)
    BY <2>1, LocateFinds
  <2> QED BY <2>1, <2>2 DEF Attributed
<1> HIDE DEF A, a, c, rest, R
<1>7. CASE n \in A
  <2> DEFINE i == Rank(A, n)
  <2>1. i \in DOMAIN c /\ i \in 1 .. a
    <3>1. i \in 1 .. a
      BY <1>1, <1>7
    <3>2. a <= Len(c) /\ Len(c) \in Nat
      BY <1>1
    <3> QED BY <1>1, <1>2, <3>1, <3>2
  <2>2. ASSUME NEW j \in DOMAIN c PROVE n \in c[j].says <=> j = i
    <3>1. CASE j \in 1 .. a
      BY <1>1, <1>3, <1>7, <3>1
    <3>2. CASE j \notin 1 .. a
      <4>1. rest /\ j = a + 1
        BY <1>1, <1>2, <3>2
      <4>2. i # j
        BY <2>1, <3>2
      <4> QED BY <1>4, <1>5, <1>7, <4>1, <4>2
    <3> QED BY <3>1, <3>2
  <2> QED BY <1>3, <1>6, <1>7, <2>1, <2>2 DEF c
<1>8. CASE n \notin A
  <2>1. rest
    BY <1>5, <1>8 DEF rest
  <2>2. a + 1 \in DOMAIN c /\ n \in c[a + 1].says
    BY <1>1, <1>2, <1>4, <1>5, <1>8, <2>1
  <2>3. ASSUME NEW j \in DOMAIN c, j # a + 1 PROVE n \notin c[j].says
    <3>1. j \in 1 .. a
      BY <1>1, <1>2, <2>1, <2>3
    <3> QED BY <1>1, <1>3, <1>8, <3>1
  <2> QED BY <1>6, <1>8, <2>2, <2>3 DEF c
<1> QED BY <1>7, <1>8

-----------------------------------------------------------------------------
(***************************************************************************)
(* Merging.                                                                *)
(***************************************************************************)
LEMMA NativeAreDiagnostics ==
  NativeDiagnostics \subseteq {d \in Diagnostic : d.source = "native"} /\ Note \in Diagnostic
BY DEF NativeDiagnostics, Native, Note, Diagnostic, Severity, Source

(* The compiler's diagnostics that are merged in are those whose range no native
   one has. *)
LEMMA ApartAre ==
  ASSUME NEW natives, NEW compilers \in Seq(Compactc)
  PROVE  /\ Apart(compilers, natives) \in Seq(Compactc)
         /\ \A i \in DOMAIN compilers :
              \/ \E j \in DOMAIN natives : natives[j].range = compilers[i].range
              \/ \E j \in DOMAIN Apart(compilers, natives) : Apart(compilers, natives)[j] = compilers[i]
<1> DEFINE n == Len(compilers)
           S == {i \in DOMAIN compilers : \A j \in DOMAIN natives : natives[j].range # compilers[i].range}
           w == Apart(compilers, natives)
<1>1. n \in Nat /\ DOMAIN compilers = 1 .. n /\ \A i \in 1 .. n : compilers[i] \in Compactc
  OBVIOUS
<1>2. S \in SUBSET (1 .. n)
  BY <1>1
<1>3. w = Where(compilers, S)
  BY DEF Apart
<1> HIDE DEF S, n
<1>4. /\ Cardinality(S) \in Nat /\ DOMAIN Where(compilers, S) = 1 .. Cardinality(S)
      /\ \A j \in 1 .. Cardinality(S) : Nth(S, j) \in S
      /\ \A i \in S : /\ Rank(S, i) \in 1 .. Cardinality(S)
                      /\ Where(compilers, S)[Rank(S, i)] = compilers[i]
  BY <1>1, <1>2, WhereHolds
<1>5. w \in Seq(Compactc)
  <2>1. w = [j \in 1 .. Cardinality(S) |-> compilers[Nth(S, j)]]
    BY <1>3 DEF Where
  <2>2. \A j \in 1 .. Cardinality(S) : compilers[Nth(S, j)] \in Compactc
    BY <1>1, <1>2, <1>4
  <2> HIDE DEF w
  <2> QED BY <1>4, <2>1, <2>2
<1>6. ASSUME NEW i \in DOMAIN compilers
      PROVE  \/ \E j \in DOMAIN natives : natives[j].range = compilers[i].range
             \/ \E j \in DOMAIN w : w[j] = compilers[i]
  <2>1. CASE i \in S
    BY <1>3, <1>4, <2>1
  <2>2. CASE i \notin S
    BY <2>2 DEF S
  <2> QED BY <2>1, <2>2
<1> QED BY <1>5, <1>6

(* Below the cap everything is there; above it a note is, and only then. *)
LEMMA MergeIs ==
  ASSUME NEW natives \in Seq(NativeDiagnostics), NEW compilers \in Seq(Compactc)
  PROVE  LET p == MergeDiagnostics(natives, compilers)
             noted == \E i \in DOMAIN p : p[i].source = "note"
         IN  /\ p \in Seq(Diagnostic)
             /\ noted => Len(p) = MaxDiagnostics + 1
             /\ \A i \in 1 .. Len(natives) : i <= MaxDiagnostics => i \in DOMAIN p /\ p[i] = natives[i]
             /\ \A i \in DOMAIN natives : (\E j \in DOMAIN p : p[j] = natives[i]) \/ noted
             /\ \A i \in DOMAIN Apart(compilers, natives) :
                  (\E j \in DOMAIN p : p[j] = Apart(compilers, natives)[i]) \/ noted
<1> DEFINE ap == Apart(compilers, natives)
           all == natives \o ap
           p == MergeDiagnostics(natives, compilers)
           noted == \E i \in DOMAIN p : p[i].source = "note"
           m == Len(natives)
           n == Len(ap)
<1>1. /\ natives \in Seq(Diagnostic) /\ ap \in Seq(Diagnostic)
      /\ m \in Nat /\ n \in Nat /\ DOMAIN natives = 1 .. m /\ DOMAIN ap = 1 .. n
      /\ \A i \in 1 .. m : natives[i].source = "native"
      /\ \A i \in 1 .. n : ap[i].source = "compactc"
  <2>1. ap \in Seq(Compactc)
    BY ApartAre
  <2> HIDE DEF ap
  <2>2. \A i \in 1 .. m : natives[i] \in NativeDiagnostics
    OBVIOUS
  <2>3. natives \in Seq(Diagnostic) /\ \A i \in 1 .. m : natives[i].source = "native"
    BY <2>2, NativeAreDiagnostics
  <2>4. \A i \in 1 .. n : ap[i] \in Compactc
    BY <2>1
  <2>5. ap \in Seq(Diagnostic) /\ \A i \in 1 .. n : ap[i].source = "compactc"
    BY <2>1, <2>4 DEF Compactc
  <2> QED BY <2>1, <2>3, <2>5
<1> HIDE DEF ap
<1>2. /\ all \in Seq(Diagnostic) /\ Len(all) = m + n /\ DOMAIN all = 1 .. m + n
      /\ \A i \in 1 .. m + n : all[i] = IF i <= m THEN natives[i] ELSE ap[i - m]
  <2>1. /\ all \in Seq(Diagnostic) /\ Len(all) = Len(natives) + Len(ap)
        /\ \A i \in 1 .. Len(natives) + Len(ap) :
             all[i] = IF i <= Len(natives) THEN natives[i] ELSE ap[i - Len(natives)]
    BY <1>1, ConcatProperties
  <2> HIDE DEF all
  <2> QED BY <1>1, <2>1
<1>3. \A i \in 1 .. m : i \in DOMAIN all /\ all[i] = natives[i]
  BY <1>1, <1>2
<1>4. \A i \in 1 .. n : m + i \in DOMAIN all /\ all[m + i] = ap[i]
  <2> SUFFICES ASSUME NEW i \in 1 .. n PROVE m + i \in DOMAIN all /\ all[m + i] = ap[i]
    OBVIOUS
  <2>1. m + i \in 1 .. m + n /\ ~(m + i <= m) /\ (m + i) - m = i
    BY <1>1
  <2> HIDE DEF all, m, n
  <2> QED BY <1>2, <2>1
<1>5. \A i \in DOMAIN all : all[i].source # "note"
  <2> SUFFICES ASSUME NEW i \in 1 .. m + n PROVE all[i].source # "note"
    BY <1>2
  <2>1. CASE i <= m
    BY <1>1, <1>2, <2>1
  <2>2. CASE ~(i <= m)
    <3>1. i - m \in 1 .. n
      BY <1>1, <2>2
    <3> HIDE DEF all
    <3> QED BY <1>1, <1>2, <2>2, <3>1
  <2> QED BY <2>1, <2>2
<1>6. p = IF Len(all) <= MaxDiagnostics THEN all ELSE SubSeq(all, 1, MaxDiagnostics) \o <<Note>>
  BY DEF MergeDiagnostics, CapDiagnostics, ap
<1> HIDE DEF all, p, m, n
<1>7. CASE Len(all) <= MaxDiagnostics
  <2>1. p = all /\ ~noted
    BY <1>5, <1>6, <1>7
  <2> QED BY <1>1, <1>2, <1>3, <1>4, <2>1 DEF p, m, n, ap
<1>8. CASE ~(Len(all) <= MaxDiagnostics)
  <2> DEFINE sub == SubSeq(all, 1, MaxDiagnostics)
  <2>1. p = sub \o <<Note>>
    BY <1>6, <1>8
  <2>2. /\ sub \in Seq(Diagnostic) /\ Len(sub) = MaxDiagnostics
        /\ \A i \in 1 .. MaxDiagnostics : sub[i] = all[i]
    <3>1. \A i \in 1 .. MaxDiagnostics : all[i] \in Diagnostic
      BY <1>1, <1>2, <1>8, Bounds
    <3>2. /\ sub \in Seq(Diagnostic) /\ Len(sub) = IF 1 <= MaxDiagnostics THEN MaxDiagnostics - 1 + 1 ELSE 0
          /\ \A i \in 1 .. MaxDiagnostics - 1 + 1 : sub[i] = all[1 + i - 1]
      BY <3>1, Bounds, SubSeqProperties
    <3> HIDE DEF sub
    <3> QED BY <3>2, Bounds
  <2> HIDE DEF sub
  <2>3. <<Note>> \in Seq(Diagnostic) /\ Len(<<Note>>) = 1 /\ <<Note>>[1] = Note
    BY NativeAreDiagnostics
  <2>4. /\ p \in Seq(Diagnostic) /\ Len(p) = Len(sub) + Len(<<Note>>)
        /\ \A i \in 1 .. Len(sub) + Len(<<Note>>) : p[i] = IF i <= Len(sub) THEN sub[i] ELSE <<Note>>[i - Len(sub)]
    BY <2>1, <2>2, <2>3, ConcatProperties
  <2>5. Len(p) = MaxDiagnostics + 1 /\ DOMAIN p = 1 .. MaxDiagnostics + 1
    BY <2>2, <2>3, <2>4, Bounds
  <2>6. \A i \in 1 .. MaxDiagnostics : i \in DOMAIN p /\ p[i] = all[i]
    BY <2>2, <2>3, <2>4, <2>5, Bounds
  <2>7. p[MaxDiagnostics + 1] = Note /\ MaxDiagnostics + 1 \in DOMAIN p
    <3>1. /\ MaxDiagnostics + 1 \in 1 .. Len(sub) + Len(<<Note>>)
          /\ ~(MaxDiagnostics + 1 <= Len(sub)) /\ (MaxDiagnostics + 1) - Len(sub) = 1
      BY <2>2, <2>3, Bounds
    <3> QED BY <2>3, <2>4, <2>5, <3>1, Bounds
  <2>8. noted
    BY <2>7 DEF Note
  <2>9. \A i \in 1 .. m : i <= MaxDiagnostics => i \in DOMAIN p /\ p[i] = natives[i]
    BY <1>1, <1>3, <2>6, Bounds
  <2> QED BY <2>4, <2>5, <2>8, <2>9 DEF p, m
<1> QED BY <1>7, <1>8

-----------------------------------------------------------------------------
(***************************************************************************)
(* Semantic tokens.                                                        *)
(***************************************************************************)
Origin == [line |-> 0, col |-> 0, out |-> << >>]

(* The recursive functions exist, so that they are what they say. *)
LEMMA EncodeRecursion ==
  ASSUME NEW tokens, Len(tokens) \in Nat
  PROVE  \E f : /\ f = [i \in 0 .. Len(tokens) |->
                          IF i = 0 THEN Origin ELSE EncodeStep(f[i - 1], Place(tokens[i]))]
                /\ Encode(tokens) = f[Len(tokens)].out
<1> DEFINE Is(f, n) == f = [i \in 0 .. n |->
                              IF i = 0 THEN Origin ELSE EncodeStep(f[i - 1], Place(tokens[i]))]
           S == {n \in Nat : \E f : Is(f, n)}
<1>1. 0 \in S
  <2> DEFINE g == [i \in 0 .. 0 |-> Origin]
  <2>1. Is(g, 0)
    <3>1. \A i \in 0 .. 0 : i = 0
      OBVIOUS
    <3> QED BY <3>1
  <2> QED BY <2>1
<1>2. ASSUME NEW n \in S PROVE n + 1 \in S
  <2>1. PICK f : Is(f, n)
    OBVIOUS
  <2> DEFINE g == [i \in 0 .. n + 1 |->
                     IF i <= n THEN f[i] ELSE EncodeStep(f[n], Place(tokens[n + 1]))]
  <2>2. n \in Nat
    OBVIOUS
  <2>3. \A i \in 0 .. n + 1 :
          g[i] = IF i = 0 THEN Origin ELSE EncodeStep(g[i - 1], Place(tokens[i]))
    <3> SUFFICES ASSUME NEW i \in 0 .. n + 1
                 PROVE  g[i] = IF i = 0 THEN Origin ELSE EncodeStep(g[i - 1], Place(tokens[i]))
      OBVIOUS
    <3>1. CASE i = 0
      BY <2>1, <2>2, <3>1
    <3>2. CASE i # 0
      <4>1. i - 1 \in 0 .. n + 1 /\ i - 1 <= n /\ g[i - 1] = f[i - 1]
        BY <2>2, <3>2
      <4>2. CASE i <= n
        <5>1. i \in 0 .. n
          BY <2>2, <4>2
        <5>2. f[i] = EncodeStep(f[i - 1], Place(tokens[i]))
          BY <2>1, <3>2, <5>1
        <5> QED BY <3>2, <4>1, <4>2, <5>2
      <4>3. CASE i = n + 1
        <5>1. i - 1 = n /\ ~(i <= n)
          BY <2>2, <4>3
        <5> QED BY <3>2, <4>1, <4>3, <5>1
      <4> QED BY <2>2, <4>2, <4>3
    <3> QED BY <3>1, <3>2
  <2>4. Is(g, n + 1)
    BY <2>3
  <2> HIDE DEF g
  <2>5. \E h : Is(h, n + 1)
    BY <2>4
  <2> HIDE DEF Is
  <2> QED BY <2>2, <2>5
<1>3. S = Nat
  <2> HIDE DEF S
  <2> QED BY <1>1, <1>2, NumberInduction DEF S
<1>4. \E f : Is(f, Len(tokens))
  BY <1>3
<1> DEFINE acc == CHOOSE f : Is(f, Len(tokens))
<1>5. Is(acc, Len(tokens))
  BY <1>4
<1>6. Encode(tokens) = acc[Len(tokens)].out
  BY DEF Encode, Origin
<1> HIDE DEF acc
<1> QED BY <1>5, <1>6

LEMMA DecodeRecursion ==
  ASSUME NEW deltas, Len(deltas) \in Nat
  PROVE  \E f : /\ f = [i \in 0 .. Len(deltas) |->
                          IF i = 0 THEN Origin ELSE DecodeStep(f[i - 1], deltas[i])]
                /\ Decode(deltas) = f[Len(deltas)].out
<1> DEFINE Is(f, n) == f = [i \in 0 .. n |->
                              IF i = 0 THEN Origin ELSE DecodeStep(f[i - 1], deltas[i])]
           S == {n \in Nat : \E f : Is(f, n)}
<1>1. 0 \in S
  <2> DEFINE g == [i \in 0 .. 0 |-> Origin]
  <2>1. Is(g, 0)
    <3>1. \A i \in 0 .. 0 : i = 0
      OBVIOUS
    <3> QED BY <3>1
  <2> QED BY <2>1
<1>2. ASSUME NEW n \in S PROVE n + 1 \in S
  <2>1. PICK f : Is(f, n)
    OBVIOUS
  <2> DEFINE g == [i \in 0 .. n + 1 |-> IF i <= n THEN f[i] ELSE DecodeStep(f[n], deltas[n + 1])]
  <2>2. n \in Nat
    OBVIOUS
  <2>3. \A i \in 0 .. n + 1 : g[i] = IF i = 0 THEN Origin ELSE DecodeStep(g[i - 1], deltas[i])
    <3> SUFFICES ASSUME NEW i \in 0 .. n + 1
                 PROVE  g[i] = IF i = 0 THEN Origin ELSE DecodeStep(g[i - 1], deltas[i])
      OBVIOUS
    <3>1. CASE i = 0
      BY <2>1, <2>2, <3>1
    <3>2. CASE i # 0
      <4>1. i - 1 \in 0 .. n + 1 /\ i - 1 <= n /\ g[i - 1] = f[i - 1]
        BY <2>2, <3>2
      <4>2. CASE i <= n
        <5>1. i \in 0 .. n
          BY <2>2, <4>2
        <5>2. f[i] = DecodeStep(f[i - 1], deltas[i])
          BY <2>1, <3>2, <5>1
        <5> QED BY <3>2, <4>1, <4>2, <5>2
      <4>3. CASE i = n + 1
        <5>1. i - 1 = n /\ ~(i <= n)
          BY <2>2, <4>3
        <5> QED BY <3>2, <4>1, <4>3, <5>1
      <4> QED BY <2>2, <4>2, <4>3
    <3> QED BY <3>1, <3>2
  <2>4. Is(g, n + 1)
    BY <2>3
  <2> HIDE DEF g
  <2>5. \E h : Is(h, n + 1)
    BY <2>4
  <2> HIDE DEF Is
  <2> QED BY <2>2, <2>5
<1>3. S = Nat
  <2> HIDE DEF S
  <2> QED BY <1>1, <1>2, NumberInduction DEF S
<1>4. \E f : Is(f, Len(deltas))
  BY <1>3
<1> DEFINE acc == CHOOSE f : Is(f, Len(deltas))
<1>5. Is(acc, Len(deltas))
  BY <1>4
<1>6. Decode(deltas) = acc[Len(deltas)].out
  BY DEF Decode, Origin
<1> HIDE DEF acc
<1> QED BY <1>5, <1>6

PlaceSet == [line : Nat, col : Nat, length : Nat]

LEMMA PlaceType ==
  ASSUME text \in Seq(Char), NEW t \in Token
  PROVE  /\ t.from \in Boundary
         /\ Place(t) \in PlaceSet
         /\ Place(t).line = LineOf(t.from) /\ Place(t).col = Col(t.from)
<1>1. t.from \in Boundary /\ t.to \in Boundary /\ t.from < t.to
  BY DEF Token
<1>2. /\ LineCol(ByteAt(t.from)) = [line |-> LineOf(t.from), col |-> Col(t.from)]
      /\ LineCol(ByteAt(t.to)) = [line |-> LineOf(t.to), col |-> Col(t.to)]
  BY <1>1, LineColOfBoundary
<1>3. Place(t) = [line |-> LineOf(t.from), col |-> Col(t.from),
                  length |-> IF LineOf(t.to) = LineOf(t.from) THEN Col(t.to) - Col(t.from) ELSE 0]
  BY <1>2 DEF Place
<1>4. LineOf(t.from) \in Nat /\ Col(t.from) \in Nat
  BY <1>1, LinesAscend, ColumnsAscend DEF Boundary
<1>5. LineOf(t.to) = LineOf(t.from) => Col(t.to) - Col(t.from) \in Nat
  <2> SUFFICES ASSUME LineOf(t.from) = LineOf(t.to) PROVE Col(t.to) - Col(t.from) \in Nat
    OBVIOUS
  <2>1. Col(t.from) \in Nat /\ Col(t.to) \in Nat /\ Col(t.from) < Col(t.to)
    BY <1>1, ColumnsAscend
  <2> QED BY <2>1
<1> QED BY <1>1, <1>3, <1>4, <1>5 DEF PlaceSet

(* The rank of the next number is one more if it is a member. *)
LEMMA RankStep ==
  ASSUME NEW n \in Nat, NEW S \in SUBSET (1 .. n), NEW i \in Nat
  PROVE  /\ Rank(S, 0) = 0 /\ Rank(S, i) \in Nat
         /\ i + 1 \in S => Rank(S, i + 1) = Rank(S, i) + 1
         /\ i + 1 \notin S => Rank(S, i + 1) = Rank(S, i)
         /\ Rank(S, n) = Cardinality(S)
<1>0. S \in SUBSET (0 .. n) /\ \A h \in S : h \in Nat /\ h <= n /\ h # 0
  OBVIOUS
<1> DEFINE A == {h \in S : h <= i}
<1>1. IsFiniteSet(A) /\ Rank(S, i) \in Nat
  BY <1>0, RankType
<1>2. {h \in S : h <= 0} = {} /\ {h \in S : h <= n} = S
  <2>1. \A h \in S : ~(h <= 0) /\ h <= n
    BY <1>0
  <2> QED BY <2>1
<1>3. {h \in S : h <= i + 1} = IF i + 1 \in S THEN A \cup {i + 1} ELSE A
  <2>1. \A h \in S : h <= i + 1 <=> (h <= i \/ h = i + 1)
    BY <1>0
  <2> QED BY <2>1
<1>4. i + 1 \notin A
  BY <1>0
<1>5. Rank(S, i) = Cardinality(A)
  BY DEF Rank
<1> HIDE DEF A
<1>6. Cardinality(A \cup {i + 1}) = Cardinality(A) + 1
  BY <1>1, <1>4, FS_AddElement
<1> QED BY <1>1, <1>2, <1>3, <1>5, <1>6, FS_EmptySet DEF Rank

(* The base of the j-th place that is sent, and what is sent for it. *)
Base(W, j) == IF j = 0 THEN Origin ELSE W[j]
Delta(W, j) ==
  [line |-> W[j].line - Base(W, j - 1).line,
   col |-> IF W[j].line = Base(W, j - 1).line THEN W[j].col - Base(W, j - 1).col ELSE W[j].col,
   length |-> W[j].length]

(* encode_semantic_tokens sends each token that is kept relative to the kept one
   before it. *)
LEMMA EncodeIs ==
  ASSUME text \in Seq(Char), NEW tokens \in Seq(Token)
  PROVE  LET K == Kept(tokens)
             W == Where([i \in DOMAIN tokens |-> Place(tokens[i])], K)
         IN  /\ K \in SUBSET (1 .. Len(tokens))
             /\ Encode(tokens) = [j \in 1 .. Cardinality(K) |-> Delta(W, j)]
<1> DEFINE n == Len(tokens)
           K == Kept(tokens)
           P == [i \in DOMAIN tokens |-> Place(tokens[i])]
           W == Where(P, K)
<1>0. n \in Nat /\ DOMAIN tokens = 1 .. n /\ \A i \in 1 .. n : tokens[i] \in Token
  OBVIOUS
<1>1. K \in SUBSET (1 .. n)
  BY <1>0 DEF Kept
<1>2. \A i \in 1 .. n : /\ P[i] = Place(tokens[i]) /\ P[i] \in PlaceSet
                        /\ i \in K <=> P[i].length # 0
  <2> SUFFICES ASSUME NEW i \in 1 .. n
               PROVE  P[i] = Place(tokens[i]) /\ P[i] \in PlaceSet /\ (i \in K <=> P[i].length # 0)
    OBVIOUS
  <2>1. P[i] = Place(tokens[i]) /\ P[i] \in PlaceSet
    BY <1>0, PlaceType
  <2>2. P[i].length \in Nat
    BY <2>1 DEF PlaceSet
  <2>3. i \in K <=> P[i].length > 0
    BY <1>0, <2>1 DEF Kept
  <2> QED BY <2>1, <2>2, <2>3
<1>3. \A i \in K : Rank(K, i) \in 1 .. Cardinality(K) /\ W[Rank(K, i)] = P[i]
  <2> HIDE DEF K, P, n
  <2> QED BY <1>0, <1>1, WhereHolds
<1>4. PICK f : /\ f = [i \in 0 .. n |->
                         IF i = 0 THEN Origin ELSE EncodeStep(f[i - 1], Place(tokens[i]))]
               /\ Encode(tokens) = f[n].out
  BY <1>0, EncodeRecursion
<1> HIDE DEF K, P, W, n
<1>5. f[0] = Origin
  <2>1. 0 \in 0 .. n
    BY <1>0
  <2> QED BY <1>4, <2>1
<1>6. \A i \in 0 .. n : i # n => f[i + 1] = EncodeStep(f[i], P[i + 1])
  <2> SUFFICES ASSUME NEW i \in 0 .. n, i # n PROVE f[i + 1] = EncodeStep(f[i], P[i + 1])
    OBVIOUS
  <2>1. i + 1 \in 0 .. n /\ i + 1 \in 1 .. n /\ i + 1 # 0 /\ (i + 1) - 1 = i
    BY <1>0
  <2>2. f[i + 1] = EncodeStep(f[(i + 1) - 1], Place(tokens[i + 1]))
    BY <1>4, <2>1
  <2> QED BY <1>2, <2>1, <2>2
<1> DEFINE Good(i) == /\ f[i].out = [j \in 1 .. Rank(K, i) |-> Delta(W, j)]
                      /\ f[i].line = Base(W, Rank(K, i)).line
                      /\ f[i].col = Base(W, Rank(K, i)).col
           S == {i \in Nat : i <= n => Good(i)}
<1>7. 0 \in S
  <2>1. Rank(K, 0) = 0
    BY <1>0, <1>1, RankStep
  <2>2. f[0].out = [j \in 1 .. 0 |-> Delta(W, j)]
    BY <1>5 DEF Origin
  <2> QED BY <1>5, <2>1, <2>2 DEF Base, Origin
<1>8. ASSUME NEW i \in S PROVE i + 1 \in S
  <2>0. i \in Nat
    OBVIOUS
  <2> SUFFICES ASSUME i + 1 <= n PROVE Good(i + 1)
    BY <2>0
  <2>1. i \in 0 .. n /\ i # n /\ i + 1 \in 1 .. n /\ Good(i)
    BY <1>0, <2>0
  <2>2. f[i + 1] = EncodeStep(f[i], P[i + 1])
    BY <1>6, <2>1
  <2> DEFINE r == Rank(K, i)
  <2>3. r \in Nat /\ Rank(K, i + 1) = IF i + 1 \in K THEN r + 1 ELSE r
    <3>1. n \in Nat
      BY <1>0
    <3> HIDE DEF S
    <3>2. Rank(K, i) \in Nat
      BY <1>1, <2>0, <3>1, RankStep
    <3>3. i + 1 \in K => Rank(K, i + 1) = Rank(K, i) + 1
      BY <1>1, <2>0, <3>1, RankStep
    <3>4. i + 1 \notin K => Rank(K, i + 1) = Rank(K, i)
      BY <1>1, <2>0, <3>1, RankStep
    <3> QED BY <3>2, <3>3, <3>4
  <2> HIDE DEF S
  <2>4. CASE i + 1 \notin K
    <3>1. P[i + 1].length = 0
      BY <1>2, <2>1, <2>4
    <3>2. f[i + 1] = f[i]
      BY <2>2, <3>1 DEF EncodeStep
    <3> QED BY <2>1, <2>3, <2>4, <3>2
  <2>5. CASE i + 1 \in K
    <3>1. Rank(K, i + 1) = r + 1 /\ W[r + 1] = P[i + 1]
      BY <1>3, <2>3, <2>5
    <3>2. P[i + 1].length # 0
      BY <1>2, <2>1, <2>5
    <3> DEFINE p == P[i + 1]
               d == [line |-> p.line - f[i].line,
                     col |-> IF p.line = f[i].line THEN p.col - f[i].col ELSE p.col,
                     length |-> p.length]
    <3>3. f[i + 1] = [line |-> p.line, col |-> p.col, out |-> Append(f[i].out, d)]
      BY <2>2, <3>2 DEF EncodeStep
    <3>4. d = Delta(W, r + 1)
      <4>1. (r + 1) - 1 = r /\ W[r + 1] = p
        BY <2>3, <3>1
      <4>2. f[i].line = Base(W, r).line /\ f[i].col = Base(W, r).col
        BY <2>1
      <4> HIDE DEF r
      <4> QED BY <4>1, <4>2 DEF Delta
    <3>5. Append([j \in 1 .. r |-> Delta(W, j)], Delta(W, r + 1)) = [j \in 1 .. r + 1 |-> Delta(W, j)]
      <4> HIDE DEF r
      <4> QED BY <2>3
    <3>6. f[i].out = [j \in 1 .. r |-> Delta(W, j)]
      BY <2>1
    <3>7. Base(W, r + 1) = p
      BY <2>3, <3>1 DEF Base
    <3>8. /\ f[i + 1].out = [j \in 1 .. r + 1 |-> Delta(W, j)]
          /\ f[i + 1].line = Base(W, r + 1).line /\ f[i + 1].col = Base(W, r + 1).col
      <4> HIDE DEF r, p, d
      <4>1. /\ f[i + 1].out = Append(f[i].out, d)
            /\ f[i + 1].line = p.line /\ f[i + 1].col = p.col
        BY <3>3
      <4> QED BY <3>4, <3>5, <3>6, <3>7, <4>1
    <3> HIDE DEF r
    <3> QED BY <3>1, <3>8
  <2> QED BY <2>4, <2>5
<1>9. S = Nat
  <2> HIDE DEF S
  <2> QED BY <1>7, <1>8, NumberInduction DEF S
<1>10. Good(n) /\ Rank(K, n) = Cardinality(K)
  <2>1. Good(n)
    BY <1>0, <1>9
  <2> QED BY <1>0, <1>1, <2>1, RankStep
<1> QED BY <1>1, <1>4, <1>10 DEF K, P, W, n

(* The places that are kept. *)
LEMMA KeptPlaces ==
  ASSUME text \in Seq(Char), NEW tokens \in Seq(Token)
  PROVE  LET K == Kept(tokens)
             W == Where([i \in DOMAIN tokens |-> Place(tokens[i])], K)
         IN  /\ Cardinality(K) \in Nat /\ W = [j \in 1 .. Cardinality(K) |-> W[j]]
             /\ \A j \in 1 .. Cardinality(K) :
                  Nth(K, j) \in 1 .. Len(tokens) /\ W[j] = Place(tokens[Nth(K, j)]) /\ W[j] \in PlaceSet
<1> DEFINE n == Len(tokens)
           K == Kept(tokens)
           P == [i \in DOMAIN tokens |-> Place(tokens[i])]
           W == Where(P, K)
<1>0. n \in Nat /\ DOMAIN tokens = 1 .. n /\ \A i \in 1 .. n : tokens[i] \in Token
  OBVIOUS
<1>1. K \in SUBSET (1 .. n)
  BY <1>0 DEF Kept
<1>2. \A i \in 1 .. n : P[i] = Place(tokens[i]) /\ P[i] \in PlaceSet
  BY <1>0, PlaceType
<1> HIDE DEF K, P, n
<1>3. Cardinality(K) \in Nat /\ \A j \in 1 .. Cardinality(K) : Nth(K, j) \in K
  BY <1>0, <1>1, WhereHolds
<1>4. W = [j \in 1 .. Cardinality(K) |-> P[Nth(K, j)]]
  BY DEF Where
<1>5. \A j \in 1 .. Cardinality(K) : W[j] = P[Nth(K, j)]
  BY <1>4
<1>6. W = [j \in 1 .. Cardinality(K) |-> W[j]]
  BY <1>4
<1> HIDE DEF W
<1>7. \A j \in 1 .. Cardinality(K) :
        Nth(K, j) \in 1 .. n /\ W[j] = Place(tokens[Nth(K, j)]) /\ W[j] \in PlaceSet
  BY <1>1, <1>2, <1>3, <1>5
<1> QED BY <1>3, <1>6, <1>7 DEF K, P, W, n

(* The editor adds up again what was subtracted. *)
LEMMA DecodeIs ==
  ASSUME text \in Seq(Char), NEW tokens \in Seq(Token)
  PROVE  Decode(Encode(tokens)) =
           Where([i \in DOMAIN tokens |-> Place(tokens[i])], Kept(tokens))
<1> DEFINE m == Cardinality(Kept(tokens))
           W == Where([i \in DOMAIN tokens |-> Place(tokens[i])], Kept(tokens))
           e == Encode(tokens)
<1>1. m \in Nat /\ W = [j \in 1 .. m |-> W[j]] /\ \A j \in 1 .. m : W[j] \in PlaceSet
  BY KeptPlaces
<1>2. e = [j \in 1 .. m |-> Delta(W, j)]
  BY EncodeIs
<1> HIDE DEF m, W, e
<1>3. Len(e) = m /\ \A j \in 1 .. m : e[j] = Delta(W, j)
  BY <1>1, <1>2
<1>4. PICK f : /\ f = [i \in 0 .. m |-> IF i = 0 THEN Origin ELSE DecodeStep(f[i - 1], e[i])]
               /\ Decode(e) = f[m].out
  BY <1>1, <1>3, DecodeRecursion
<1>5. f[0] = Origin
  <2>1. 0 \in 0 .. m
    BY <1>1
  <2> QED BY <1>4, <2>1
<1>6. \A i \in 0 .. m : i # m => f[i + 1] = DecodeStep(f[i], Delta(W, i + 1))
  <2> SUFFICES ASSUME NEW i \in 0 .. m, i # m PROVE f[i + 1] = DecodeStep(f[i], Delta(W, i + 1))
    OBVIOUS
  <2>1. i + 1 \in 0 .. m /\ i + 1 \in 1 .. m /\ i + 1 # 0 /\ (i + 1) - 1 = i
    BY <1>1
  <2>2. f[i + 1] = DecodeStep(f[(i + 1) - 1], e[i + 1])
    BY <1>4, <2>1
  <2> QED BY <1>3, <2>1, <2>2
<1> DEFINE Good(i) == /\ f[i].out = [j \in 1 .. i |-> W[j]]
                      /\ f[i].line = Base(W, i).line
                      /\ f[i].col = Base(W, i).col
           S == {i \in Nat : i <= m => Good(i)}
<1>7. 0 \in S
  <2>1. f[0].out = [j \in 1 .. 0 |-> W[j]]
    BY <1>5 DEF Origin
  <2> QED BY <1>5, <2>1 DEF Base, Origin
<1>8. ASSUME NEW i \in S PROVE i + 1 \in S
  <2>0. i \in Nat
    OBVIOUS
  <2> SUFFICES ASSUME i + 1 <= m PROVE Good(i + 1)
    BY <2>0
  <2>1. i \in 0 .. m /\ i # m /\ i + 1 \in 1 .. m /\ Good(i)
    BY <1>1, <2>0
  <2> HIDE DEF S
  <2> DEFINE p == W[i + 1]
             b == Base(W, i)
  <2>2. p \in PlaceSet /\ b.line \in Nat /\ b.col \in Nat
    <3>1. p \in PlaceSet
      BY <1>1, <2>1
    <3>2. CASE i = 0
      BY <3>1, <3>2 DEF Base, Origin
    <3>3. CASE i # 0
      <4>1. i \in 1 .. m
        BY <2>1, <3>3
      <4>2. W[i] \in PlaceSet
        BY <1>1, <4>1
      <4> QED BY <3>1, <3>3, <4>2 DEF Base, PlaceSet
    <3> QED BY <3>2, <3>3
  <2>3. p = [line |-> p.line, col |-> p.col, length |-> p.length] /\ p.line \in Nat /\ p.col \in Nat
    <3> HIDE DEF p
    <3> QED BY <2>2 DEF PlaceSet
  <2>4. Base(W, i + 1) = p
    BY <2>0 DEF Base
  <2> DEFINE d == Delta(W, i + 1)
  <2>5. /\ d.line = p.line - b.line /\ d.length = p.length
        /\ d.col = IF p.line = b.line THEN p.col - b.col ELSE p.col
    <3>1. (i + 1) - 1 = i
      BY <2>0
    <3>2. d = [line |-> p.line - b.line,
               col |-> IF p.line = b.line THEN p.col - b.col ELSE p.col, length |-> p.length]
      BY <3>1 DEF Delta
    <3> HIDE DEF d, p, b
    <3> QED BY <3>2
  <2>6. f[i + 1] = DecodeStep(f[i], d)
    BY <1>6, <2>1
  <2>7. f[i].line = b.line /\ f[i].col = b.col /\ f[i].out = [j \in 1 .. i |-> W[j]]
    BY <2>1
  <2> HIDE DEF d, b
  <2>8. f[i + 1] = [line |-> p.line, col |-> p.col, out |-> Append(f[i].out, p)]
    <3>1. f[i].line + d.line = p.line
      BY <2>2, <2>3, <2>5, <2>7
    <3>2. (IF d.line = 0 THEN f[i].col + d.col ELSE d.col) = p.col
      BY <2>2, <2>3, <2>5, <2>7
    <3> DEFINE fi == f[i]
    <3> HIDE DEF fi, p
    <3>3. DecodeStep(fi, d) =
            LET c == IF d.line = 0 THEN fi.col + d.col ELSE d.col
            IN  [line |-> fi.line + d.line, col |-> c,
                 out |-> Append(fi.out, [line |-> fi.line + d.line, col |-> c, length |-> d.length])]
      BY DEF DecodeStep
    <3>4. DecodeStep(fi, d) = [line |-> p.line, col |-> p.col, out |-> Append(fi.out, p)]
      BY <2>3, <2>5, <3>1, <3>2, <3>3 DEF fi
    <3> QED BY <2>6, <3>4 DEF fi
  <2>9. Append([j \in 1 .. i |-> W[j]], W[i + 1]) = [j \in 1 .. i + 1 |-> W[j]]
    BY <2>0
  <2>10. /\ f[i + 1].out = [j \in 1 .. i + 1 |-> W[j]]
         /\ f[i + 1].line = p.line /\ f[i + 1].col = p.col
    <3> DEFINE g == f[i + 1]
    <3>1. g = [line |-> p.line, col |-> p.col, out |-> Append(f[i].out, p)]
      BY <2>8
    <3> HIDE DEF g, p
    <3>2. g.out = Append(f[i].out, p) /\ g.line = p.line /\ g.col = p.col
      BY <3>1
    <3> QED BY <2>7, <2>9, <3>2 DEF g, p
  <2> HIDE DEF p
  <2> QED BY <2>4, <2>10
<1>9. S = Nat
  <2> HIDE DEF S
  <2> QED BY <1>7, <1>8, NumberInduction DEF S
<1>10. f[m].out = W
  <2>1. Good(m)
    <3>1. m \in S /\ m <= m
      BY <1>1, <1>9
    <3> QED BY <3>1
  <2> QED BY <1>1, <2>1
<1> QED BY <1>4, <1>10 DEF m, W, e

(* Tokens in document order, each of which ends before the next, begin in that
   order. *)
LEMMA TokensAscend ==
  ASSUME NEW tokens \in Seq(Token), Len(text) \in Nat, InOrder(tokens),
         NEW a \in 1 .. Len(tokens), NEW b \in 1 .. Len(tokens), a < b
  PROVE  tokens[a].from < tokens[b].from
<1> DEFINE n == Len(tokens)
           S == {d \in Nat : a + d <= n => tokens[a].from <= tokens[a + d].from}
<1>0. /\ n \in Nat /\ a \in Nat /\ b \in Nat /\ b <= n
      /\ \A i \in 1 .. n : /\ tokens[i].from \in Nat /\ tokens[i].to \in Nat
                           /\ tokens[i].from < tokens[i].to
  <2>1. \A i \in 1 .. n : tokens[i] \in Token
    OBVIOUS
  <2> QED BY <2>1 DEF Token, Boundary
<1>1. \A i \in 1 .. n : i + 1 <= n => tokens[i].from < tokens[i + 1].from
  <2> SUFFICES ASSUME NEW i \in 1 .. n, i + 1 <= n PROVE tokens[i].from < tokens[i + 1].from
    OBVIOUS
  <2>1. i \in 1 .. n - 1 /\ i + 1 \in 1 .. n
    BY <1>0
  <2>2. tokens[i].to <= tokens[i + 1].from
    BY <2>1 DEF InOrder
  <2> QED BY <1>0, <2>1, <2>2
<1>2. 0 \in S
  <2>1. a + 0 = a
    BY <1>0
  <2> QED BY <1>0, <2>1
<1>3. ASSUME NEW d \in S PROVE d + 1 \in S
  <2>0. d \in Nat /\ a + (d + 1) = (a + d) + 1
    BY <1>0
  <2> SUFFICES ASSUME a + (d + 1) <= n PROVE tokens[a].from <= tokens[a + (d + 1)].from
    BY <2>0
  <2>1. a + d <= n /\ a + d \in 1 .. n /\ (a + d) + 1 \in 1 .. n
    BY <1>0, <2>0
  <2>2. tokens[a].from <= tokens[a + d].from
    BY <2>1
  <2>3. tokens[a + d].from < tokens[(a + d) + 1].from
    BY <1>1, <2>0, <2>1
  <2> QED BY <1>0, <2>0, <2>1, <2>2, <2>3
<1>4. S = Nat
  <2> HIDE DEF S
  <2> QED BY <1>2, <1>3, NumberInduction DEF S
<1>5. tokens[a].from <= tokens[b - 1].from
  <2> DEFINE d == b - a - 1
  <2>1. d \in Nat /\ a + d = b - 1 /\ b - 1 <= n
    BY <1>0
  <2>2. d \in S
    <3> HIDE DEF S, d
    <3> QED BY <1>4, <2>1
  <2> HIDE DEF d
  <2> QED BY <2>1, <2>2
<1>6. tokens[b - 1].from < tokens[b].from
  <2>1. b - 1 \in 1 .. n /\ (b - 1) + 1 = b
    BY <1>0
  <2> QED BY <1>0, <1>1, <2>1
<1>7. b - 1 \in 1 .. n
  BY <1>0
<1> QED BY <1>0, <1>5, <1>6, <1>7

(* No difference that is sent is negative. *)
LEMMA DeltasAreNatural ==
  ASSUME text \in Seq(Char), NEW tokens \in Seq(Token), InOrder(tokens)
  PROVE  \A j \in DOMAIN Encode(tokens) :
           Encode(tokens)[j].line \in Nat /\ Encode(tokens)[j].col \in Nat
<1> DEFINE K == Kept(tokens)
           m == Cardinality(K)
           W == Where([i \in DOMAIN tokens |-> Place(tokens[i])], K)
           e == Encode(tokens)
<1>1. /\ m \in Nat
      /\ \A j \in 1 .. m : /\ Nth(K, j) \in 1 .. Len(tokens)
                           /\ W[j] = Place(tokens[Nth(K, j)]) /\ W[j] \in PlaceSet
  BY KeptPlaces
<1>2. K \in SUBSET (1 .. Len(tokens)) /\ e = [j \in 1 .. m |-> Delta(W, j)]
  BY EncodeIs
<1> HIDE DEF K, W, e
<1>3. Len(tokens) \in Nat /\ Len(text) \in Nat /\ \A i \in 1 .. Len(tokens) : tokens[i] \in Token
  OBVIOUS
<1> SUFFICES ASSUME NEW j \in 1 .. m PROVE e[j].line \in Nat /\ e[j].col \in Nat
  BY <1>2 DEF e
<1> DEFINE q == W[j]
           b == Base(W, j - 1)
<1>4. /\ q.line \in Nat /\ q.col \in Nat /\ b.line \in Nat /\ b.col \in Nat
      /\ b.line <= q.line /\ (b.line = q.line => b.col <= q.col)
  <2>1. q \in PlaceSet
    BY <1>1
  <2>2. CASE j = 1
    <3>1. b = Origin
      BY <2>2 DEF Base
    <3> HIDE DEF b, q
    <3> QED BY <2>1, <3>1 DEF Origin, PlaceSet
  <2>3. CASE j # 1
    <3>1. j - 1 \in 1 .. m /\ j - 1 < j /\ j - 1 # 0 /\ b = W[j - 1]
      BY <1>1, <2>3 DEF Base
    <3> DEFINE x == Nth(K, j - 1)
               y == Nth(K, j)
    <3>2. x < y
      <4>1. K \in SUBSET (0 .. Len(tokens))
        BY <1>2
      <4> QED BY <1>3, <3>1, <4>1, NthAscends
    <3>3. /\ x \in 1 .. Len(tokens) /\ y \in 1 .. Len(tokens)
          /\ b = Place(tokens[x]) /\ q = Place(tokens[y])
      BY <1>1, <3>1
    <3> HIDE DEF x, y, b, q, m
    <3>4. tokens[x] \in Token /\ tokens[y] \in Token /\ tokens[x].from < tokens[y].from
      BY <1>3, <3>2, <3>3, TokensAscend
    <3>5. /\ b \in PlaceSet /\ b.line = LineOf(tokens[x].from) /\ b.col = Col(tokens[x].from)
          /\ q \in PlaceSet /\ q.line = LineOf(tokens[y].from) /\ q.col = Col(tokens[y].from)
          /\ tokens[x].from \in Boundary /\ tokens[y].from \in Boundary
      BY <3>3, <3>4, PlaceType
    <3>6. tokens[x].from <= tokens[y].from
      BY <3>4, <3>5 DEF Boundary
    <3>7. b.line <= q.line
      BY <3>5, <3>6, LinesAscend
    <3>8. b.line = q.line => b.col < q.col
      BY <3>4, <3>5, ColumnsAscend
    <3> QED BY <3>5, <3>7, <3>8 DEF PlaceSet
  <2> QED BY <2>2, <2>3
<1>5. e[j] = [line |-> q.line - b.line,
              col |-> IF q.line = b.line THEN q.col - b.col ELSE q.col, length |-> q.length]
  BY <1>2 DEF Delta
<1> HIDE DEF q, b
<1> QED BY <1>4, <1>5

LEMMA TextTokensSurvive == text \in Seq(Char) => TokensSurvive
<1> SUFFICES ASSUME text \in Seq(Char),
                    NEW tokens \in BoundedSeq(Token, MaxTokens), InOrder(tokens)
             PROVE  /\ Decode(Encode(tokens)) =
                         Where([i \in DOMAIN tokens |-> Place(tokens[i])], Kept(tokens))
                    /\ \A i \in DOMAIN Encode(tokens) :
                         Encode(tokens)[i].line \in Nat /\ Encode(tokens)[i].col \in Nat
  BY DEF TokensSurvive
<1>1. tokens \in Seq(Token)
  BY Bounds, BoundedIsSeq
<1> QED BY <1>1, DecodeIs, DeltasAreNatural

-----------------------------------------------------------------------------
(***************************************************************************)
(* The inductive invariant: the editor has the merge of the two sets, and  *)
(* the compiler's is the one of what the compile said of this text.        *)
(***************************************************************************)
IInv ==
  /\ TypeOK
  /\ outcome = Pending => native = << >> /\ compiler = << >> /\ published = << >>
  /\ outcome.status = "error" \/ outcome.stderr = << >>
  /\ compiler = BuildCompilerDiagnostics(outcome.status, outcome.stderr)
  /\ published = MergeDiagnostics(native, compiler)

(* The operators look at nothing but the text. *)
LEMMA SameText ==
  ASSUME text' = text
  PROVE  /\ Line' = Line /\ NativeDiagnostics' = NativeDiagnostics /\ Diagnostic' = Diagnostic
         /\ \A status, stderr :
              BuildCompilerDiagnostics(status, stderr)' = BuildCompilerDiagnostics(status, stderr)
         /\ \A natives, compilers :
              MergeDiagnostics(natives, compilers)' = MergeDiagnostics(natives, compilers)
<1>1. LineStarts' = LineStarts /\ Boundary' = Boundary
  BY DEF LineStarts, Boundary
<1>2. \A k : ByteAt(k)' = ByteAt(k)
  BY DEF ByteAt, Taken
<1>3. \A f, t : Taken(Units, f, t)' = Taken(Units, f, t)
  BY DEF Taken
<1>4. \A k : LineOf(k)' = LineOf(k) /\ LineStart(k)' = LineStart(k)
  BY <1>1 DEF LineOf, LineStart
<1>5. \A k : LineEnd(k)' = LineEnd(k)
  BY <1>1, <1>4 DEF LineEnd
<1>6. \A b : LineCol(b)' = LineCol(b)
  BY <1>1, <1>2, <1>3, <1>4 DEF LineCol
<1>7. \A r : Spread(r)' = Spread(r)
  BY <1>2, <1>6 DEF Spread
<1>8. \A l, c : StartByte(l, c)' = StartByte(l, c)
  BY <1>2, <1>4, <1>5 DEF StartByte
<1>9. \A l, c : Locate(l, c)' = Locate(l, c) /\ IsPlace(l, c)' = IsPlace(l, c)
  BY <1>1, <1>2, <1>8 DEF Locate, IsPlace
<1>10. Top' = Top /\ Ranges' = Ranges /\ Note' = Note
  BY <1>7 DEF Top, Ranges, Note
<1>11. Line' = Line /\ NativeDiagnostics' = NativeDiagnostics /\ Diagnostic' = Diagnostic
  BY <1>1, <1>10 DEF Line, NativeDiagnostics, Diagnostic
<1>12. \A s : Attributed(s)' = Attributed(s) /\ Unattributed(s)' = Unattributed(s)
  BY <1>9 DEF Attributed, Unattributed, Parsed
<1>13. \A s : FileTop(s)' = FileTop(s) /\ FromErrors(s)' = FromErrors(s)
  BY <1>7, <1>9, <1>10, <1>12 DEF FileTop, FromErrors, Squiggles, CompilerDiagnostic, Parsed
<1>14. \A status, stderr :
         BuildCompilerDiagnostics(status, stderr)' = BuildCompilerDiagnostics(status, stderr)
  BY <1>13 DEF BuildCompilerDiagnostics
<1>15. \A natives, compilers :
         MergeDiagnostics(natives, compilers)' = MergeDiagnostics(natives, compilers)
  BY <1>10 DEF MergeDiagnostics, CapDiagnostics
<1> QED BY <1>11, <1>14, <1>15

LEMMA NothingToMerge ==
  /\ Apart(<< >>, << >>) = << >>
  /\ MergeDiagnostics(<< >>, << >>) = << >>
<1>1. Apart(<< >>, << >>) = << >>
  <2>1. DOMAIN << >> = {}
    OBVIOUS
  <2>2. Apart(<< >>, << >>) = Where(<< >>, {})
    BY <2>1 DEF Apart
  <2>3. Cardinality({}) = 0
    BY FS_EmptySet
  <2> QED BY <2>2, <2>3 DEF Where
<1>2. << >> \o << >> = << >> /\ Len(<< >>) <= MaxDiagnostics
  BY Bounds
<1> QED BY <1>1, <1>2 DEF MergeDiagnostics, CapDiagnostics

LEMMA InitInv == Init => IInv
<1> SUFFICES ASSUME Init PROVE IInv
  OBVIOUS
<1>1. TypeOK
  BY DEF Init, TypeOK
<1>2. outcome.status = "none" /\ outcome.stderr = << >>
  BY DEF Init, Pending
<1>3. BuildCompilerDiagnostics("none", << >>) = << >>
  BY DEF BuildCompilerDiagnostics, Failing
<1> QED BY <1>1, <1>2, <1>3, NothingToMerge DEF Init, IInv

(* A compile and an edit merge what is well-typed in the text there is. *)
LEMMA MergedInv ==
  ASSUME IInv, text' = text, outcome' # Pending,
         native' \in BoundedSeq(NativeDiagnostics, MaxNative),
         outcome' \in [status : Status, stderr : Output],
         outcome'.status = "error" \/ outcome'.stderr = << >>,
         compiler' = BuildCompilerDiagnostics(outcome'.status, outcome'.stderr),
         published' = MergeDiagnostics(native', compiler')
  PROVE  IInv'
<1>1. text \in Seq(Char)
  BY DEF IInv, TypeOK
<1>2. native' \in Seq(NativeDiagnostics)
  BY Bounds, BoundedIsSeq
<1>3. compiler' \in Seq(Compactc)
  <2>1. outcome'.status \in Status /\ outcome'.stderr \in Output
    OBVIOUS
  <2> QED BY <1>1, <2>1, CompilerSetIs
<1>4. published' \in Seq(Diagnostic)
  BY <1>2, <1>3, MergeIs
<1>5. compiler' \in Seq(Diagnostic)
  <2>1. Compactc \subseteq Diagnostic
    BY DEF Compactc
  <2> QED BY <1>3, <2>1, SeqMonotonic
<1>6. TypeOK'
  <2>1. text' \in Seq(Char) /\ native' \in Seq(NativeDiagnostics')
    BY <1>1, <1>2, SameText
  <2>2. {compiler', published'} \subseteq Seq(Diagnostic')
    BY <1>4, <1>5, SameText
  <2>3. outcome' \in [status : Status, stderr : BoundedSeq(Line', MaxLines)]
    BY SameText DEF Output
  <2> QED BY <2>1, <2>2, <2>3 DEF TypeOK
<1>7. (compiler = BuildCompilerDiagnostics(outcome.status, outcome.stderr))'
  BY SameText
<1>8. (published = MergeDiagnostics(native, compiler))'
  BY SameText
<1> QED BY <1>6, <1>7, <1>8 DEF IInv

LEMMA StepInv == IInv /\ [Next]_vars => IInv'
<1> SUFFICES ASSUME IInv, [Next]_vars PROVE IInv'
  OBVIOUS
<1>1. CASE Compiled
  <2>1. PICK status \in Status, stderr \in Output :
          /\ status = "error" \/ stderr = << >>
          /\ outcome' = [status |-> status, stderr |-> stderr]
          /\ compiler' = BuildCompilerDiagnostics(status, stderr)
    BY <1>1 DEF Compiled, Output
  <2>2. outcome'.status = status /\ outcome'.stderr = stderr
    BY <2>1
  <2>3. outcome' # Pending
    BY <2>2 DEF Pending, Status, Failing
  <2>4. /\ native' \in BoundedSeq(NativeDiagnostics, MaxNative)
        /\ published' = MergeDiagnostics(native', compiler') /\ text' = text
    BY <1>1 DEF Compiled
  <2> QED BY <2>1, <2>2, <2>3, <2>4, MergedInv
<1>2. CASE Edited
  <2>1. /\ native' \in BoundedSeq(NativeDiagnostics, MaxNative)
        /\ published' = MergeDiagnostics(native', compiler)
        /\ outcome # Pending /\ text' = text /\ outcome' = outcome /\ compiler' = compiler
    BY <1>2 DEF Edited
  <2>2. /\ outcome \in [status : Status, stderr : Output]
        /\ outcome.status = "error" \/ outcome.stderr = << >>
        /\ compiler = BuildCompilerDiagnostics(outcome.status, outcome.stderr)
    BY <2>1 DEF IInv, TypeOK, Output
  <2> QED BY <2>1, <2>2, MergedInv
<1>3. CASE \E c \in Char : Write(c)
  <2>1. PICK c \in Char : Write(c)
    BY <1>3
  <2>2. /\ outcome = Pending /\ outcome' = Pending /\ text' = Append(text, c)
        /\ native' = << >> /\ compiler' = << >> /\ published' = << >>
    BY <2>1 DEF Write, Type, IInv
  <2>3. text' \in Seq(Char)
    BY <2>2, AppendProperties DEF IInv, TypeOK
  <2>4. outcome'.status = "none" /\ outcome'.stderr = << >>
    BY <2>2 DEF Pending
  <2>5. BuildCompilerDiagnostics(outcome.status, outcome.stderr)' = << >>
    BY <2>4 DEF BuildCompilerDiagnostics, Failing
  <2>6. MergeDiagnostics(native, compiler)' = << >>
    <3>1. << >> \o << >> = << >> /\ Len(<< >>) <= MaxDiagnostics
      BY Bounds
    <3> QED BY <2>2, <3>1, NothingToMerge DEF MergeDiagnostics, CapDiagnostics
  <2>7. TypeOK'
    BY <2>2, <2>3 DEF TypeOK
  <2> QED BY <2>2, <2>4, <2>5, <2>6, <2>7 DEF IInv
<1>4. CASE UNCHANGED vars
  <2>1. /\ text' = text /\ native' = native /\ outcome' = outcome
        /\ compiler' = compiler /\ published' = published
    BY <1>4 DEF vars
  <2>2. TypeOK'
    BY <2>1, SameText DEF IInv, TypeOK
  <2> QED BY <2>1, <2>2, SameText DEF IInv
<1> QED BY <1>1, <1>2, <1>3, <1>4 DEF Next

LEMMA Invariance == Spec => []IInv
BY InitInv, StepInv, PTL DEF Spec

(***************************************************************************)
(* Theorems.                                                               *)
(***************************************************************************)
(* Type correctness: all that is shown is a diagnostic of the native analysis,
   of the compiler or the note, at a token of the file or at its top. *)
THEOREM TypeCorrect == Spec => []TypeOK
<1>1. IInv => TypeOK
  BY DEF IInv
<1> QED BY <1>1, Invariance, PTL

(* line_col and offset: for every text, each boundary comes back from the editor
   as itself, and a column that does not exist stays in its line. *)
THEOREM ColumnsAreAgreedOn == Spec => []ColumnsAgree
<1>1. IInv => ColumnsAgree
  BY TextColumnsAgree DEF IInv, TypeOK
<1> QED BY <1>1, Invariance, PTL

(* locate: for every text, the compiler's line and column of a character lead to it. *)
THEOREM CompilerColumnsAreRead == Spec => []CompilerColumnsFit
<1>1. IInv => CompilerColumnsFit
  BY TextCompilerColumnsFit DEF IInv, TypeOK
<1> QED BY <1>1, Invariance, PTL

(* encode_semantic_tokens: for every text and every number of tokens in document
   order, the editor decodes those that are kept to where they are, and all
   differences are unsigned numbers. *)
THEOREM TokensAreDecoded == Spec => []TokensSurvive
<1>1. IInv => TokensSurvive
  BY TextTokensSurvive DEF IInv, TypeOK
<1> QED BY <1>1, Invariance, PTL

(* build_compiler_diagnostics: for every text and every output of the compiler,
   each of its messages is in exactly one diagnostic, and the editor finds it at
   the character that was meant; a failed compile always shows. *)
THEOREM MessagesAreSaid == Spec => []EveryMessageIsSaid
<1>1. IInv => EveryMessageIsSaid
  <2> SUFFICES ASSUME IInv PROVE EveryMessageIsSaid
    OBVIOUS
  <2>1. CASE outcome = Pending
    <3>1. outcome.status = "none" /\ outcome.stderr = << >> /\ compiler = << >>
      BY <2>1 DEF IInv, Pending
    <3> QED BY <3>1 DEF EveryMessageIsSaid, Failing, Parsed
  <2>2. CASE outcome # Pending
    <3>1. /\ text \in Seq(Char) /\ outcome.status \in Status /\ outcome.stderr \in Output
          /\ outcome.status = "error" \/ outcome.stderr = << >>
          /\ compiler = BuildCompilerDiagnostics(outcome.status, outcome.stderr)
      BY <2>2 DEF IInv, TypeOK, Output
    <3>2. compiler # << >> <=> outcome.status \in Failing
      BY <3>1, CompilerSetIs
    <3>3. CASE outcome.stderr = << >>
      BY <3>2, <3>3 DEF EveryMessageIsSaid, Parsed
    <3>4. CASE outcome.status = "error"
      <4>1. compiler = FromErrors(outcome.stderr)
        BY <3>1, <3>4 DEF BuildCompilerDiagnostics
      <4> QED BY <3>1, <3>2, <4>1, MessageIsSaid DEF EveryMessageIsSaid
    <3> QED BY <3>1, <3>3, <3>4
  <2> QED BY <2>1, <2>2
<1> QED BY <1>1, Invariance, PTL

(* merge_diagnostics and cap_diagnostics: for every cap and all sets, what is not
   shown is covered by a native diagnostic or announced, and the native ones come
   first. *)
THEOREM MergeLosesNothing == Spec => []NothingIsLost
<1>1. IInv => NothingIsLost
  <2> SUFFICES ASSUME IInv PROVE NothingIsLost
    OBVIOUS
  <2>1. text \in Seq(Char) /\ native \in Seq(NativeDiagnostics)
    BY DEF IInv, TypeOK
  <2>2. compiler \in Seq(Compactc)
    <3>1. CASE outcome = Pending
      <4>1. compiler = << >>
        BY <3>1 DEF IInv
      <4> QED BY <4>1, EmptySeq
    <3>2. CASE outcome # Pending
      <4>1. /\ outcome.status \in Status /\ outcome.stderr \in Output
            /\ compiler = BuildCompilerDiagnostics(outcome.status, outcome.stderr)
        BY <3>2 DEF IInv, TypeOK, Output
      <4> QED BY <2>1, <4>1, CompilerSetIs
    <3> QED BY <3>1, <3>2
  <2> DEFINE ap == Apart(compiler, native)
  <2>3. /\ published \in Seq(Diagnostic)
        /\ Noted => Len(published) = MaxDiagnostics + 1
        /\ \A i \in 1 .. Len(native) : i <= MaxDiagnostics =>
             i \in DOMAIN published /\ published[i] = native[i]
        /\ \A i \in DOMAIN native : Shown(native[i]) \/ Noted
        /\ \A i \in DOMAIN ap : Shown(ap[i]) \/ Noted
    <3>1. published = MergeDiagnostics(native, compiler)
      BY DEF IInv
    <3> QED BY <2>1, <2>2, <3>1, MergeIs DEF Noted, Shown
  <2>4. \A i \in DOMAIN compiler : Shown(compiler[i]) \/ Covered(compiler[i]) \/ Noted
    <3> SUFFICES ASSUME NEW i \in DOMAIN compiler
                 PROVE  Shown(compiler[i]) \/ Covered(compiler[i]) \/ Noted
      OBVIOUS
    <3>1. \/ \E j \in DOMAIN native : native[j].range = compiler[i].range
          \/ \E j \in DOMAIN ap : ap[j] = compiler[i]
      BY <2>2, ApartAre
    <3> HIDE DEF ap
    <3> QED BY <2>3, <3>1 DEF Covered
  <2>5. NativeComesFirst
    <3>1. Room \in Nat /\ Room <= Len(native) /\ Room <= MaxDiagnostics
      BY <2>1, Bounds DEF Room
    <3>2. \A i \in 1 .. Room : published[i] = native[i]
      BY <2>1, <2>3, <3>1, Bounds
    <3>3. \A i \in 1 .. Room : native[i] \in NativeDiagnostics
      BY <2>1, <3>1
    <3> DEFINE p == SubSeq(published, 1, Room)
               q == SubSeq(native, 1, Room)
    <3>4. /\ p \in Seq(NativeDiagnostics) /\ q \in Seq(NativeDiagnostics)
          /\ Len(p) = Room /\ Len(q) = Room
          /\ \A i \in 1 .. Room : p[i] = published[i] /\ q[i] = native[i]
      BY <3>1, <3>2, <3>3
    <3> HIDE DEF p, q
    <3>5. p = q
      BY <3>2, <3>4, SeqEqual
    <3> QED BY <3>5 DEF p, q, NativeComesFirst
  <2> QED BY <2>3, <2>4, <2>5 DEF NothingIsLost
<1> QED BY <1>1, Invariance, PTL
=============================================================================
