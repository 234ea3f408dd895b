--------------------------- MODULE AnalysesProofs ---------------------------
(***************************************************************************)
(* Proofs about the analyses of a workspace: module Names, for every set   *)
(* of well-formed workspaces, and the facts that module Disclosure rests   *)
(* on, in WitnessSets.                                                     *)
(*                                                                         *)
(* Names has one invariant, TypeOK: a rename changes texts and nothing of  *)
(* the syntax, and the item trees follow the texts.  Its properties are    *)
(* facts of any state that TypeOK describes.  The search through the       *)
(* includes recurses on the files not yet on the path, so what it finds is *)
(* shown by induction on the number of those.                              *)
(***************************************************************************)
EXTENDS Names, WitnessSets, SequenceTheorems, FiniteSetTheorems, WellFoundedInduction, TLAPS

CONSTANTS Srcs,      \* what a witness or a leak may be attributed to
          Infos,     \* what a witness says of its origin: <<kind, ...>>
          Points     \* what a step of a path may be

(* A set of natural numbers that is not empty has a least member. *)
LEMMA LeastHolds ==
  ASSUME NEW S \in SUBSET Nat, S # {}
  PROVE  Least(S) \in S /\ \A j \in S : Least(S) <= j
<1> DEFINE R == StrictSubsetOrdering(Nat)
           F == FiniteSubsetsOf(Nat)
           U == {1 .. n : n \in S}
<1>1. IsWellFoundedOn(R, F)
  BY FS_StrictSubsetOrderingWellFounded
<1>2. U \subseteq F /\ U # {}
  <2>1. \A n \in Nat : 1 .. n \in F
    BY FS_Interval DEF FiniteSubsetsOf
  <2> QED BY <2>1
<1>3. PICK X \in U : \A Y \in U : <<Y, X>> \notin R
  <2> HIDE DEF R, F, U
  <2> QED BY <1>1, <1>2, WFMin
<1>4. PICK x \in S : X = 1 .. x
  OBVIOUS
<1>5. ASSUME NEW y \in S, ~(x <= y) PROVE FALSE
  <2>1. 1 .. y \subseteq 1 .. x /\ x \in 1 .. x /\ x \notin 1 .. y
    BY <1>5
  <2>2. 1 .. y # 1 .. x
    BY <2>1
  <2>3. <<1 .. y, 1 .. x>> \in R
    BY <2>1, <2>2 DEF StrictSubsetOrdering
  <2> QED BY <2>3, <1>3, <1>4
<1>6. \E k \in S : \A j \in S : k <= j
  BY <1>5
<1> QED BY <1>6 DEF Least

(* Induction over the natural numbers, for a set of them. *)
LEMMA NumberInduction ==
  ASSUME NEW S \in SUBSET Nat, 0 \in S, \A n \in S : n + 1 \in S
  PROVE  S = Nat
<1> SUFFICES ASSUME S # Nat PROVE FALSE
  OBVIOUS
<1> DEFINE T == Nat \ S
           x == Least(T)
<1>1. T # {} /\ T \in SUBSET Nat
  OBVIOUS
<1>2. x \in T /\ \A y \in T : x <= y
  <2> HIDE DEF T
  <2> QED BY <1>1, LeastHolds
<1>3. x - 1 \in Nat /\ x - 1 \notin T
  <2>1. x # 0 /\ x \in Nat
    BY <1>2
  <2> HIDE DEF x, T
  <2> QED BY <1>2, <2>1
<1> QED BY <1>2, <1>3

(***************************************************************************)
(* Definitions, and the first of some of them.                             *)
(***************************************************************************)
LEMMA DefinitionsAreNotNone ==
  /\ \A f, i : Item(f, i) # None /\ Item(f, i).tag = "item" /\ Item(f, i).file = f
  /\ \A f, p, d : Local(f, p, d) # None /\ Local(f, p, d).tag = "local" /\ Local(f, p, d).file = f
  /\ None.tag = "none"
<1>1. \A f, i : Item(f, i).tag = "item" /\ Item(f, i).file = f
  BY DEF Item
<1>2. \A f, p, d : Local(f, p, d).tag = "local" /\ Local(f, p, d).file = f
  BY DEF Local
<1>3. None.tag = "none"
  BY DEF None
<1>4. \A f, i : Item(f, i) # None
  BY <1>1, <1>3
<1>5. \A f, p, d : Local(f, p, d) # None
  BY <1>2, <1>3
<1> QED BY <1>1, <1>2, <1>3, <1>4, <1>5

LEMMA FirstFoundIs ==
  ASSUME NEW defs, DOMAIN defs \subseteq Nat
  PROVE  /\ FirstFound(defs) = None \/ \E k \in DOMAIN defs : FirstFound(defs) = defs[k] /\ defs[k] # None
         /\ FirstFound(defs) # None <=> \E k \in DOMAIN defs : defs[k] # None
<1> DEFINE found == {k \in DOMAIN defs : defs[k] # None}
<1>1. CASE found = {}
  BY <1>1 DEF FirstFound
<1>2. CASE found # {}
  <2>1. Least(found) \in found
    <3>1. found \in SUBSET Nat
      OBVIOUS
    <3> HIDE DEF found
    <3> QED BY <1>2, <3>1, LeastHolds
  <2>2. FirstFound(defs) = defs[Least(found)]
    BY <1>2 DEF FirstFound
  <2> QED BY <2>1, <2>2
<1> QED BY <1>1, <1>2

(* Looking up a name among the children of a symbol finds it if one has it. *)
LEMMA NamedIs ==
  ASSUME NEW f, NEW parent, NEW name
  PROVE  /\ Named(f, parent, name) # None <=> \E i \in ChildrenOf(f, parent) : trees[f][i].name = name
         /\ Exported(f, parent, name) # None <=> name \in ExportedNames(f, parent)
         /\ Named(f, parent, name) # None => Named(f, parent, name).tag = "item" /\ Named(f, parent, name).file = f
         /\ Exported(f, parent, name) # None =>
              Exported(f, parent, name).tag = "item" /\ Exported(f, parent, name).file = f
<1>1. \A hits : /\ FirstItem(f, hits) # None <=> hits # {}
                /\ FirstItem(f, hits) # None => FirstItem(f, hits).tag = "item" /\ FirstItem(f, hits).file = f
  BY DefinitionsAreNotNone DEF FirstItem
<1>2. Exported(f, parent, name) # None <=> name \in ExportedNames(f, parent)
  BY <1>1 DEF Exported, ExportedNames
<1> QED BY <1>1, <1>2 DEF Named, Exported

(***************************************************************************)
(* The search through the includes.                                        *)
(***************************************************************************)
Files == DOMAIN ws

LEMMA IncludesAreFiles ==
  ASSUME WellFormed(ws), NEW f \in Files
  PROVE  /\ DOMAIN ws[f].includes \subseteq Nat
         /\ \A k \in DOMAIN ws[f].includes :
              ws[f].includes[k] # NoFile => ws[f].includes[k] \in Files /\ ws[f].includes[k] \in IncludesOf(f)
         /\ IncludesOf(f) \subseteq Files
         /\ \A t \in IncludesOf(f) : t # NoFile /\ \E k \in DOMAIN ws[f].includes : t = ws[f].includes[k]
<1>1. ws[f].includes \in Seq(Files \cup {NoFile})
  BY DEF WellFormed, Files
<1> QED BY <1>1 DEF IncludesOf, ToSet, Files

LEMMA FilesLeft ==
  ASSUME WellFormed(ws), NEW on \in SUBSET Files
  PROVE  /\ Cardinality(Files \ on) \in Nat /\ Cardinality(Files \ on) <= Cardinality(Files)
         /\ Cardinality(Files) \in Nat
         /\ \A t \in Files \ on : Cardinality(Files \ (on \cup {t})) = Cardinality(Files \ on) - 1
<1>1. IsFiniteSet(Files)
  BY DEF WellFormed, Files
<1>2. Files \ on \in SUBSET Files
  OBVIOUS
<1>3. IsFiniteSet(Files \ on) /\ Cardinality(Files \ on) <= Cardinality(Files)
  BY <1>1, <1>2, FS_Subset
<1>4. Cardinality(Files \ on) \in Nat /\ Cardinality(Files) \in Nat
  BY <1>1, <1>3, FS_CardinalityType
<1>5. ASSUME NEW t \in Files \ on
      PROVE  Cardinality(Files \ (on \cup {t})) = Cardinality(Files \ on) - 1
  <2>1. Files \ (on \cup {t}) = (Files \ on) \ {t}
    OBVIOUS
  <2>2. Cardinality((Files \ on) \ {t}) = Cardinality(Files \ on) - 1
    BY <1>3, FS_RemoveElement
  <2> QED BY <2>1, <2>2
<1> QED BY <1>3, <1>4, <1>5

Enter(name, s, on, g) ==
  FirstFound([k \in DOMAIN ws[g].includes |->
    LET t == ws[g].includes[k]
    IN IF t = NoFile \/ t \in on THEN None ELSE OrElse(Named(t, 0, name), s[on \cup {t}][t])])

IsSearch(name, s) ==
  /\ s = [on \in SUBSET Files |-> [g \in Files |-> Enter(name, s, on, g)]]
  /\ \A f \in Files, on \in SUBSET Files : ResolveIncludes(f, name, on) = s[on][f]

(* The recursive function of ResolveIncludes exists: the path grows with   *)
(* every call, and there are finitely many files to put on it.             *)
LEMMA IncludesRecursion ==
  ASSUME WellFormed(ws), NEW name
  PROVE  \E s : IsSearch(name, s)
<1> DEFINE Level(s, on) == [g \in Files |-> Enter(name, s, on, g)]
           Left(on) == Cardinality(Files \ on)
           Is(s, n) == /\ s = [on \in SUBSET Files |-> s[on]]
                       /\ \A on \in SUBSET Files : Left(on) < n => s[on] = Level(s, on)
           S == {n \in Nat : \E s : Is(s, n)}
<1>1. 0 \in S
  <2> DEFINE s == [on \in SUBSET Files |-> {}]
  <2>1. s = [on \in SUBSET Files |-> s[on]]
    OBVIOUS
  <2>2. \A on \in SUBSET Files : ~(Left(on) < 0)
    BY FilesLeft
  <2>3. Is(s, 0)
    <3> HIDE DEF s, Left, Level
    <3> QED BY <2>1, <2>2
  <2> HIDE DEF s, Is
  <2> QED BY <2>3
<1>2. ASSUME NEW n \in S PROVE n + 1 \in S
  <2>1. n \in Nat /\ \E s : Is(s, n)
    OBVIOUS
  <2>2. PICK s : Is(s, n)
    BY <2>1
  <2> DEFINE r == [on \in SUBSET Files |-> Level(s, on)]
  <2>3. ASSUME NEW on \in SUBSET Files, Left(on) < n + 1
        PROVE  Level(s, on) = Level(r, on)
    <3>1. ASSUME NEW g \in Files PROVE Enter(name, s, on, g) = Enter(name, r, on, g)
      <4>1. ASSUME NEW k \in DOMAIN ws[g].includes, ws[g].includes[k] # NoFile, ws[g].includes[k] \notin on
            PROVE  s[on \cup {ws[g].includes[k]}] = r[on \cup {ws[g].includes[k]}]
        <5> DEFINE t == ws[g].includes[k]
                   more == on \cup {t}
        <5>1. t \in Files /\ t \notin on
          BY <4>1, IncludesAreFiles
        <5>2. more \in SUBSET Files /\ Left(more) = Left(on) - 1 /\ Left(on) \in Nat
          BY <5>1, FilesLeft
        <5> HIDE DEF more, t, Left
        <5>3. Left(more) < n
          BY <2>1, <2>3, <5>2
        <5>4. s[more] = Level(s, more)
          BY <2>2, <5>2, <5>3
        <5>5. r[more] = Level(s, more)
          BY <5>2
        <5> QED BY <5>4, <5>5 DEF more, t
      <4> HIDE DEF r
      <4> QED BY <4>1 DEF Enter
    <3> HIDE DEF r
    <3> QED BY <3>1
  <2>4. Is(r, n + 1)
    <3>1. r = [on \in SUBSET Files |-> r[on]]
      OBVIOUS
    <3>2. \A on \in SUBSET Files : r[on] = Level(s, on)
      OBVIOUS
    <3> HIDE DEF r, Left, Level
    <3> QED BY <2>3, <3>1, <3>2
  <2> HIDE DEF Is, r
  <2> QED BY <2>1, <2>4
<1>3. S = Nat
  <2> HIDE DEF S
  <2> QED BY <1>1, <1>2, NumberInduction DEF S
<1> DEFINE N == Cardinality(Files) + 1
<1>4. N \in Nat /\ \A on \in SUBSET Files : Left(on) < N
  <2>1. Cardinality(Files) \in Nat
    BY FilesLeft
  <2>2. \A on \in SUBSET Files : Left(on) \in Nat /\ Left(on) <= Cardinality(Files)
    BY FilesLeft
  <2> HIDE DEF Left
  <2> QED BY <2>1, <2>2
<1>5. PICK s : Is(s, N)
  <2> HIDE DEF Is, N
  <2> QED BY <1>3, <1>4
<1>6. s = [on \in SUBSET Files |-> [g \in Files |-> Enter(name, s, on, g)]]
  <2> HIDE DEF N, Left
  <2> QED BY <1>4, <1>5
<1> DEFINE W(x) == x = [on \in SUBSET Files |-> [g \in Files |-> Enter(name, x, on, g)]]
           c == CHOOSE x : W(x)
<1>7. W(c)
  <2> HIDE DEF W
  <2>1. W(s)
    BY <1>6 DEF W
  <2> QED BY <2>1
<1>8. \A f \in Files, on \in SUBSET Files : ResolveIncludes(f, name, on) = c[on][f]
  BY DEF ResolveIncludes, Enter, Files
<1> HIDE DEF c
<1> QED BY <1>7, <1>8 DEF IsSearch

FoundIn(t, name, on) == OrElse(Named(t, 0, name), ResolveIncludes(t, name, on \cup {t}))

(* One call of it: an include is found by its own names, then by its includes. *)
LEMMA SearchStep ==
  ASSUME WellFormed(ws), NEW name, NEW f \in Files, NEW on \in SUBSET Files
  PROVE  /\ ResolveIncludes(f, name, on) # None =>
              \E t \in IncludesOf(f) \ on :
                FoundIn(t, name, on) # None /\ ResolveIncludes(f, name, on) = FoundIn(t, name, on)
         /\ ResolveIncludes(f, name, on) = None => \A t \in IncludesOf(f) \ on : FoundIn(t, name, on) = None
<1> DEFINE found(t) == FoundIn(t, name, on)
           R == ResolveIncludes(f, name, on)
<1>1. PICK s : IsSearch(name, s)
  BY IncludesRecursion
<1> DEFINE t(k) == ws[f].includes[k]
           K == DOMAIN ws[f].includes
           defs == [k \in K |-> IF t(k) = NoFile \/ t(k) \in on THEN None
                                ELSE OrElse(Named(t(k), 0, name), s[on \cup {t(k)}][t(k)])]
<1>2. R = FirstFound(defs)
  <2>1. R = s[on][f]
    BY <1>1 DEF IsSearch
  <2>2. s[on] = [g \in Files |-> Enter(name, s, on, g)]
    BY <1>1 DEF IsSearch
  <2>3. R = Enter(name, s, on, f)
    <3> HIDE DEF R
    <3> QED BY <2>1, <2>2
  <2> QED BY <2>3 DEF Enter
<1>3. /\ \A k \in K : t(k) # NoFile => t(k) \in IncludesOf(f)
      /\ \A u \in IncludesOf(f) : u # NoFile /\ \E k \in K : u = t(k)
      /\ IncludesOf(f) \subseteq Files /\ K \subseteq Nat
  BY IncludesAreFiles
<1>4. \A u \in IncludesOf(f) \ on : OrElse(Named(u, 0, name), s[on \cup {u}][u]) = found(u)
  <2> SUFFICES ASSUME NEW u \in IncludesOf(f) \ on
               PROVE  ResolveIncludes(u, name, on \cup {u}) = s[on \cup {u}][u]
    BY DEF FoundIn
  <2>1. u \in Files /\ on \cup {u} \in SUBSET Files
    BY <1>3
  <2> QED BY <1>1, <2>1 DEF IsSearch
<1>5. \A k \in K : defs[k] = IF t(k) = NoFile \/ t(k) \in on THEN None ELSE found(t(k))
  BY <1>3, <1>4
<1>6. /\ FirstFound(defs) = None \/ \E k \in K : FirstFound(defs) = defs[k] /\ defs[k] # None
      /\ FirstFound(defs) # None <=> \E k \in K : defs[k] # None
  <2>1. DOMAIN defs = K
    OBVIOUS
  <2> HIDE DEF defs, K
  <2> QED BY <1>3, <2>1, FirstFoundIs
<1> HIDE DEF defs, K, R, found, t
<1>7. R # None => \E u \in IncludesOf(f) \ on : R = found(u) /\ found(u) # None
  BY <1>2, <1>3, <1>5, <1>6
<1>8. R = None => \A u \in IncludesOf(f) \ on : found(u) = None
  BY <1>2, <1>3, <1>5, <1>6
<1> QED BY <1>7, <1>8 DEF R, found

(* The search ends in a file that the includes lead to: in every set of files that holds *)
(* the first one and is closed under includes.                                           *)
LEMMA SearchStaysInside ==
  ASSUME WellFormed(ws), NEW name, NEW S \in SUBSET Files, \A h \in S : IncludesOf(h) \subseteq S,
         NEW f \in S, NEW on \in SUBSET Files, ResolveIncludes(f, name, on) # None
  PROVE  \E g \in S : ResolveIncludes(f, name, on) = Named(g, 0, name)
<1> DEFINE Left(h) == Cardinality(Files \ h)
           Ok(n) == \A g \in S, h \in SUBSET Files :
                      Left(h) < n /\ ResolveIncludes(g, name, h) # None =>
                        \E e \in S : ResolveIncludes(g, name, h) = Named(e, 0, name)
           T == {n \in Nat : Ok(n)}
<1>0. \A h \in SUBSET Files : Left(h) \in Nat
  BY FilesLeft
<1>1. 0 \in T
  <2> HIDE DEF Left
  <2> QED BY <1>0
<1>2. ASSUME NEW n \in T PROVE n + 1 \in T
  <2>1. n \in Nat /\ Ok(n)
    OBVIOUS
  <2>2. ASSUME NEW g \in S, NEW h \in SUBSET Files, Left(h) < n + 1, ResolveIncludes(g, name, h) # None
        PROVE  \E e \in S : ResolveIncludes(g, name, h) = Named(e, 0, name)
    <3>1. PICK t \in IncludesOf(g) \ h :
            FoundIn(t, name, h) # None /\ ResolveIncludes(g, name, h) = FoundIn(t, name, h)
      BY <2>2, SearchStep
    <3>2. t \in S /\ t \in Files \ h
      BY <3>1
    <3>3. CASE Named(t, 0, name) # None
      BY <3>1, <3>2, <3>3 DEF OrElse, FoundIn
    <3>4. CASE Named(t, 0, name) = None
      <4>1. ResolveIncludes(g, name, h) = ResolveIncludes(t, name, h \cup {t})
        BY <3>1, <3>4 DEF OrElse, FoundIn
      <4>2. h \cup {t} \in SUBSET Files /\ Left(h \cup {t}) = Left(h) - 1
        BY <3>2, FilesLeft
      <4>3. Left(h \cup {t}) < n
        <5> HIDE DEF Left
        <5> QED BY <1>0, <2>1, <2>2, <4>2
      <4> HIDE DEF Left
      <4> QED BY <2>1, <2>2, <3>2, <4>1, <4>2, <4>3
    <3> QED BY <3>3, <3>4
  <2> HIDE DEF Left
  <2> QED BY <2>1, <2>2
<1>3. T = Nat
  <2> HIDE DEF T
  <2> QED BY <1>1, <1>2, NumberInduction DEF T
<1>4. Ok(Left(on) + 1)
  <2>1. Left(on) + 1 \in Nat
    <3> HIDE DEF Left
    <3> QED BY <1>0
  <2> HIDE DEF Ok, Left
  <2> QED BY <1>3, <2>1
<1>5. Left(on) < Left(on) + 1
  <2> HIDE DEF Left
  <2> QED BY <1>0
<1> HIDE DEF Left
<1> QED BY <1>4, <1>5

(* The files that a search from f with the path `on` may still enter. *)
Within(f, on) ==
  {g \in Files : \A S \in SUBSET Files :
     (IncludesOf(f) \ on \subseteq S /\ \A h \in S : IncludesOf(h) \ on \subseteq S) => g \in S}

(* Entering the includes of f one by one leads to all of them, although each *)
(* is then on the path of what is searched below it.                         *)
LEMMA WithinSplits ==
  ASSUME WellFormed(ws), NEW f \in Files, NEW on \in SUBSET Files, NEW g \in Within(f, on)
  PROVE  \E t \in IncludesOf(f) \ on : g = t \/ g \in Within(t, on \cup {t})
<1> DEFINE T == IncludesOf(f) \ on
           S == T \cup UNION {Within(t, on \cup {t}) : t \in T}
<1>0. \A h \in Files : IncludesOf(h) \subseteq Files
  BY IncludesAreFiles
<1>1. S \in SUBSET Files
  BY <1>0 DEF Within
<1>2. ASSUME NEW t \in T
      PROVE  /\ IncludesOf(t) \ (on \cup {t}) \subseteq Within(t, on \cup {t})
             /\ \A h \in Within(t, on \cup {t}) :
                  IncludesOf(h) \ (on \cup {t}) \subseteq Within(t, on \cup {t})
  <2>1. t \in Files
    BY <1>0
  <2>2. IncludesOf(t) \ (on \cup {t}) \subseteq Within(t, on \cup {t})
    BY <1>0, <2>1 DEF Within
  <2>3. ASSUME NEW h \in Within(t, on \cup {t}), NEW y \in IncludesOf(h) \ (on \cup {t})
        PROVE  y \in Within(t, on \cup {t})
    <3>1. h \in Files /\ y \in Files
      BY <1>0, <2>3 DEF Within
    <3> QED BY <2>3, <3>1 DEF Within
  <2> QED BY <2>2, <2>3
<1>3. ASSUME NEW h \in S, NEW y \in IncludesOf(h) \ on PROVE y \in S
  <2>1. CASE h \in T
    <3>1. y = h \/ y \in Within(h, on \cup {h})
      BY <1>2, <1>3, <2>1
    <3> QED BY <2>1, <3>1
  <2>2. CASE h \notin T
    <3>1. PICK t \in T : h \in Within(t, on \cup {t})
      BY <2>2
    <3>2. y = t \/ y \in Within(t, on \cup {t})
      BY <1>2, <1>3, <3>1
    <3> QED BY <3>1, <3>2
  <2> QED BY <2>1, <2>2
<1>4. g \in S
  <2>1. IncludesOf(f) \ on \subseteq S
    OBVIOUS
  <2> HIDE DEF S
  <2> QED BY <1>1, <1>3, <2>1 DEF Within
<1> QED BY <1>4

(* A search that finds nothing has passed by no file that has the name. *)
LEMMA SearchMissesNothing ==
  ASSUME WellFormed(ws), NEW name, NEW f \in Files, NEW on \in SUBSET Files,
         ResolveIncludes(f, name, on) = None, NEW g \in Within(f, on)
  PROVE  Named(g, 0, name) = None
<1> DEFINE Left(h) == Cardinality(Files \ h)
           Ok(n) == \A a \in Files, h \in SUBSET Files :
                      Left(h) < n /\ ResolveIncludes(a, name, h) = None =>
                        \A e \in Within(a, h) : Named(e, 0, name) = None
           T == {n \in Nat : Ok(n)}
<1>0. \A h \in SUBSET Files : Left(h) \in Nat
  BY FilesLeft
<1>1. 0 \in T
  <2> HIDE DEF Left
  <2> QED BY <1>0
<1>2. ASSUME NEW n \in T PROVE n + 1 \in T
  <2>1. n \in Nat /\ Ok(n)
    OBVIOUS
  <2>2. ASSUME NEW a \in Files, NEW h \in SUBSET Files, Left(h) < n + 1,
               ResolveIncludes(a, name, h) = None, NEW e \in Within(a, h)
        PROVE  Named(e, 0, name) = None
    <3>1. PICK t \in IncludesOf(a) \ h : e = t \/ e \in Within(t, h \cup {t})
      BY WithinSplits
    <3>2. t \in Files \ h
      BY <3>1, IncludesAreFiles
    <3>3. FoundIn(t, name, h) = None
      BY <2>2, SearchStep
    <3>4. Named(t, 0, name) = None /\ ResolveIncludes(t, name, h \cup {t}) = None
      BY <3>3 DEF FoundIn, OrElse
    <3>5. h \cup {t} \in SUBSET Files /\ Left(h \cup {t}) = Left(h) - 1
      BY <3>2, FilesLeft
    <3>6. Left(h \cup {t}) < n
      <4> HIDE DEF Left
      <4> QED BY <1>0, <2>1, <2>2, <3>5
    <3>7. \A x \in Within(t, h \cup {t}) : Named(x, 0, name) = None
      <4> HIDE DEF Left
      <4> QED BY <2>1, <3>2, <3>4, <3>5, <3>6
    <3> QED BY <3>1, <3>4, <3>7
  <2> HIDE DEF Left
  <2> QED BY <2>1, <2>2
<1>3. T = Nat
  <2> HIDE DEF T
  <2> QED BY <1>1, <1>2, NumberInduction DEF T
<1>4. Ok(Left(on) + 1)
  <2>1. Left(on) + 1 \in Nat
    <3> HIDE DEF Left
    <3> QED BY <1>0
  <2> HIDE DEF Ok, Left
  <2> QED BY <1>3, <2>1
<1>5. Left(on) < Left(on) + 1
  <2> HIDE DEF Left
  <2> QED BY <1>0
<1> HIDE DEF Left
<1> QED BY <1>4, <1>5

LEMMA ClosureHolds ==
  ASSUME WellFormed(ws), NEW f \in Files
  PROVE  /\ f \in IncludeClosure(f) /\ IncludeClosure(f) \in SUBSET Files
         /\ \A h \in IncludeClosure(f) : IncludesOf(h) \subseteq IncludeClosure(f)
         /\ \A g \in IncludeClosure(f) : g = f \/ g \in Within(f, {f})
<1>0. \A h \in Files : IncludesOf(h) \subseteq Files
  BY IncludesAreFiles
<1>1. f \in IncludeClosure(f) /\ IncludeClosure(f) \in SUBSET Files
  BY DEF IncludeClosure, Files
<1>2. ASSUME NEW h \in IncludeClosure(f), NEW y \in IncludesOf(h)
      PROVE  y \in IncludeClosure(f)
  <2>1. y \in Files
    BY <1>0, <1>1
  <2> QED BY <2>1 DEF IncludeClosure, Files
<1>3. ASSUME NEW g \in IncludeClosure(f) PROVE g = f \/ g \in Within(f, {f})
  <2> DEFINE S == {f} \cup Within(f, {f})
  <2>1. S \in SUBSET Files
    BY DEF Within
  <2>2. ASSUME NEW h \in S, NEW y \in IncludesOf(h) PROVE y \in S
    <3>1. h \in Files /\ y \in Files
      BY <1>0, <2>1
    <3>2. CASE h = f
      BY <1>0, <3>1, <3>2 DEF Within
    <3>3. CASE h # f
      <4>1. h \in Within(f, {f})
        BY <3>3
      <4> QED BY <3>1, <4>1 DEF Within
    <3> QED BY <3>2, <3>3
  <2>3. f \in S
    OBVIOUS
  <2>4. g \in S
    <3> HIDE DEF S
    <3> QED BY <2>1, <2>2, <2>3 DEF IncludeClosure, Files
  <2> QED BY <2>4
<1> QED BY <1>1, <1>2, <1>3

(* A name is found at the top level of a file or through its includes exactly if *)
(* one of the files that the includes reach declares it.                         *)
LEMMA SplicedIs ==
  ASSUME WellFormed(ws), NEW name, NEW f \in Files
  PROVE  (Named(f, 0, name) # None \/ ResolveIncludes(f, name, {f}) # None)
           <=> \E g \in IncludeClosure(f) : name \in TopLevelNames(g)
<1>1. \A g : name \in TopLevelNames(g) <=> Named(g, 0, name) # None
  BY NamedIs DEF TopLevelNames, ChildrenOf
<1>2. {f} \in SUBSET Files
  OBVIOUS
<1>3. ASSUME ResolveIncludes(f, name, {f}) # None
      PROVE  \E g \in IncludeClosure(f) : Named(g, 0, name) # None
  <2>1. \E g \in IncludeClosure(f) : ResolveIncludes(f, name, {f}) = Named(g, 0, name)
    <3> DEFINE S == IncludeClosure(f)
    <3>1. S \in SUBSET Files /\ f \in S /\ \A h \in S : IncludesOf(h) \subseteq S
      BY ClosureHolds
    <3> HIDE DEF S
    <3>2. \E g \in S : ResolveIncludes(f, name, {f}) = Named(g, 0, name)
      BY <1>2, <1>3, <3>1, SearchStaysInside
    <3> QED BY <3>2 DEF S
  <2> QED BY <1>3, <2>1
<1>4. ASSUME ResolveIncludes(f, name, {f}) = None, NEW g \in IncludeClosure(f), Named(g, 0, name) # None
      PROVE  Named(f, 0, name) # None
  <2>1. g = f \/ g \in Within(f, {f})
    BY ClosureHolds
  <2>2. g \in Within(f, {f}) => Named(g, 0, name) = None
    BY <1>2, <1>4, SearchMissesNothing
  <2> QED BY <1>4, <2>1, <2>2
<1>5. f \in IncludeClosure(f)
  BY ClosureHolds
<1> QED BY <1>1, <1>3, <1>4, <1>5

(***************************************************************************)
(* Imports.                                                                *)
(***************************************************************************)
LEMMA ImportsAre ==
  ASSUME WellFormed(ws), NEW f \in Files
  PROVE  /\ DOMAIN ws[f].imports \subseteq Nat
         /\ \A imp \in ToSet(ws[f].imports) :
              DOMAIN imp.specs \subseteq Nat /\ imp.target \in Files \cup {NoFile}
         /\ \A k \in DOMAIN ws[f].imports : ws[f].imports[k] \in ToSet(ws[f].imports)
<1> DEFINE token == DOMAIN ws[f].text
           I == [at : token \cup {0}, path : STRING, prefixed : BOOLEAN,
                 specs : Seq([orig : token, alias : token \cup {0}]), target : Files \cup {NoFile}]
<1>1. ws[f].imports \in Seq(I)
  BY DEF WellFormed, Files
<1>2. \A imp \in I : DOMAIN imp.specs \subseteq Nat /\ imp.target \in Files \cup {NoFile}
  OBVIOUS
<1> HIDE DEF I
<1> QED BY <1>1, <1>2 DEF ToSet

LEMMA ResolveImportsIs ==
  ASSUME WellFormed(ws), NEW f \in Files, NEW name
  PROVE  /\ ResolveImports(f, name) # None <=>
              \E imp \in ToSet(ws[f].imports) : ResolveOneImport(f, imp, name) # None
         /\ ResolveImports(f, name) # None =>
              \E imp \in ToSet(ws[f].imports) : ResolveImports(f, name) = ResolveOneImport(f, imp, name)
<1> DEFINE K == DOMAIN ws[f].imports
           defs == [k \in K |-> ResolveOneImport(f, ws[f].imports[k], name)]
<1>1. K \subseteq Nat /\ ToSet(ws[f].imports) = {ws[f].imports[k] : k \in K}
  BY ImportsAre DEF ToSet
<1>2. /\ FirstFound(defs) = None \/ \E k \in K : FirstFound(defs) = defs[k] /\ defs[k] # None
      /\ FirstFound(defs) # None <=> \E k \in K : defs[k] # None
  <2>1. DOMAIN defs = K
    OBVIOUS
  <2> HIDE DEF defs, K
  <2> QED BY <1>1, <2>1, FirstFoundIs
<1>3. \A k \in K : defs[k] = ResolveOneImport(f, ws[f].imports[k], name)
  OBVIOUS
<1>4. ResolveImports(f, name) = FirstFound(defs)
  BY DEF ResolveImports
<1> HIDE DEF defs, K
<1> QED BY <1>1, <1>2, <1>3, <1>4

(* The names that the imported module exports. *)
Importable(f, imp) ==
  UNION {ExportedNames(m[1], m[2]) : m \in IF IsStdlib(f, imp) THEN {<<Stdlib, 0>>} ELSE ImportedModule(f, imp)}

LEMMA MemberIs ==
  ASSUME NEW f, NEW imp, NEW name, NEW o, TargetName(f, imp, name) = <<o>>
  PROVE  ResolveOneImport(f, imp, name) # None <=> o \in Importable(f, imp)
<1> DEFINE inScope == IF imp.at = 0 THEN None ELSE ModuleIn(f, ws[f].text[imp.at])
           m == SingleTopLevelModule(imp.target)
<1>0. <<o>> # <<>> /\ <<o>>[1] = o
  OBVIOUS
<1>1. CASE IsStdlib(f, imp)
  <2>1. ResolveOneImport(f, imp, name) = Exported(Stdlib, 0, o)
    BY <1>0, <1>1 DEF ResolveOneImport
  <2>2. Importable(f, imp) = ExportedNames(Stdlib, 0)
    BY <1>1 DEF Importable
  <2> QED BY <2>1, <2>2, NamedIs
<1>2. CASE ~IsStdlib(f, imp) /\ inScope # None
  <2>1. ResolveOneImport(f, imp, name) = Exported(f, inScope.index, o)
    BY <1>0, <1>2 DEF ResolveOneImport
  <2>2. ImportedModule(f, imp) = {<<f, inScope.index>>}
    BY <1>2 DEF ImportedModule
  <2>3. Importable(f, imp) = ExportedNames(f, inScope.index)
    BY <1>2, <2>2 DEF Importable
  <2> QED BY <2>1, <2>3, NamedIs
<1>3. CASE ~IsStdlib(f, imp) /\ inScope = None
  <2>1. ResolveOneImport(f, imp, name) = ResolveExternalModuleMember(imp.target, ExpectedModule(f, imp), o)
    BY <1>0, <1>3 DEF ResolveOneImport
  <2>2. Importable(f, imp) = UNION {ExportedNames(e[1], e[2]) : e \in ImportedModule(f, imp)}
    BY <1>3 DEF Importable
  <2>3. CASE imp.target = NoFile \/ m = 0 \/ trees[imp.target][m].name # ExpectedModule(f, imp)
    <3>1. ResolveOneImport(f, imp, name) = None
      BY <2>1, <2>3 DEF ResolveExternalModuleMember
    <3>2. ImportedModule(f, imp) = {}
      BY <1>3, <2>3 DEF ImportedModule
    <3> QED BY <2>2, <3>1, <3>2
  <2>4. CASE ~(imp.target = NoFile \/ m = 0 \/ trees[imp.target][m].name # ExpectedModule(f, imp))
    <3>1. ResolveOneImport(f, imp, name) = Exported(imp.target, m, o)
      BY <2>1, <2>4 DEF ResolveExternalModuleMember
    <3>2. ImportedModule(f, imp) = {<<imp.target, m>>}
      BY <1>3, <2>4 DEF ImportedModule
    <3>3. Importable(f, imp) = ExportedNames(imp.target, m)
      BY <2>2, <3>2
    <3> QED BY <3>1, <3>3, NamedIs
  <2> QED BY <2>3, <2>4
<1> QED BY <1>1, <1>2, <1>3

(* An import resolves no name but those it makes visible; and all of them, *)
(* unless it gives one label to different members.                         *)
LEMMA OneImport ==
  ASSUME WellFormed(ws), NEW f \in Files, NEW imp \in ToSet(ws[f].imports), NEW name
  PROVE  /\ ResolveOneImport(f, imp, name) # None => name \in ImportLabels(f, imp)
         /\ LabelsDiffer(f, imp) /\ name \in ImportLabels(f, imp) => ResolveOneImport(f, imp, name) # None
<1> DEFINE lookup == IF imp.prefixed /\ name \in DOMAIN Bare THEN Bare[name] ELSE name
           K == DOMAIN imp.specs
           label(k) == Specifiers(f, imp)[k].label
           orig(k) == Specifiers(f, imp)[k].orig
           hits == {k \in K : label(k) = lookup}
           exported == Importable(f, imp)
           selected == {label(k) : k \in {k \in K : orig(k) \in exported}}
           labels == IF imp.specs = <<>> THEN exported ELSE selected
<1>1. CASE imp.prefixed /\ name \notin DOMAIN Bare
  <2>1. TargetName(f, imp, name) = <<>>
    BY <1>1 DEF TargetName
  <2>2. ResolveOneImport(f, imp, name) = None
    BY <2>1 DEF ResolveOneImport
  <2>3. name \notin ImportLabels(f, imp)
    BY <1>1 DEF ImportLabels
  <2> QED BY <2>2, <2>3
<1>2. CASE ~(imp.prefixed /\ name \notin DOMAIN Bare)
  <2>1. name \in ImportLabels(f, imp) <=> lookup \in labels
    <3>1. ImportLabels(f, imp) = IF imp.prefixed THEN {n \in DOMAIN Bare : Bare[n] \in labels} ELSE labels
      BY DEF ImportLabels, Importable
    <3> HIDE DEF labels
    <3> QED BY <1>2, <3>1
  <2>2. CASE imp.specs = <<>>
    <3>1. TargetName(f, imp, name) = <<lookup>>
      BY <1>2, <2>2 DEF TargetName
    <3>2. ResolveOneImport(f, imp, name) # None <=> lookup \in exported
      <4> HIDE DEF lookup
      <4> QED BY <3>1, MemberIs
    <3> HIDE DEF lookup, exported
    <3> QED BY <2>1, <2>2, <3>2
  <2>3. CASE imp.specs # <<>> /\ hits = {}
    <3>1. TargetName(f, imp, name) = <<>>
      BY <1>2, <2>3 DEF TargetName
    <3>2. ResolveOneImport(f, imp, name) = None
      BY <3>1 DEF ResolveOneImport
    <3>3. lookup \notin labels
      <4> HIDE DEF lookup, label, orig, exported, K
      <4> QED BY <2>3
    <3> QED BY <2>1, <3>2, <3>3
  <2>4. CASE imp.specs # <<>> /\ hits # {}
    <3> DEFINE k == Least(hits)
    <3>1. k \in K /\ label(k) = lookup
      <4>1. hits \in SUBSET Nat
        BY ImportsAre
      <4>2. k \in hits
        <5> HIDE DEF hits
        <5> QED BY <2>4, <4>1, LeastHolds
      <4> HIDE DEF k
      <4> QED BY <4>2
    <3>2. TargetName(f, imp, name) = <<orig(k)>>
      BY <1>2, <2>4 DEF TargetName
    <3>3. ResolveOneImport(f, imp, name) # None <=> orig(k) \in exported
      <4> HIDE DEF k, exported
      <4> QED BY <3>2, MemberIs DEF exported
    <3> HIDE DEF k, lookup, exported
    <3>4. labels = selected
      BY <2>4
    <3>5. orig(k) \in exported => lookup \in selected
      BY <3>1
    <3>6. ASSUME LabelsDiffer(f, imp), lookup \in selected PROVE orig(k) \in exported
      <4>1. PICK j \in K : orig(j) \in exported /\ label(j) = lookup
        BY <3>6
      <4>2. orig(j) = orig(k)
        BY <3>1, <3>6, <4>1 DEF LabelsDiffer
      <4> QED BY <4>1, <4>2
    <3> HIDE DEF labels, selected
    <3> QED BY <2>1, <3>3, <3>4, <3>5, <3>6
  <2> QED BY <2>2, <2>3, <2>4
<1> QED BY <1>1, <1>2

(***************************************************************************)
(* What is visible at a position.                                          *)
(***************************************************************************)
LEMMA LocalIs ==
  ASSUME NEW f, NEW p, NEW name
  PROVE  /\ ResolveLocalName(f, p, name) # None <=> name \in LocalNames(f, p)
         /\ ResolveLocalName(f, p, name) # None => ResolveLocalName(f, p, name).file = f
<1> DEFINE hits == {b \in ScopeBindingsAt(f, p) : BindingName(f, b) = name}
           Sc(i) == ws[f].scopes[i]
           I == {i \in DOMAIN ws[f].scopes : p \in Sc(i).from .. Sc(i).to}
           K(i) == {k \in DOMAIN Sc(i).binds : Sc(i).binds[k].sees <= p}
<1>1. /\ ResolveLocalName(f, p, name) # None <=> hits # {}
      /\ ResolveLocalName(f, p, name) # None => ResolveLocalName(f, p, name).file = f
  BY DefinitionsAreNotNone DEF ResolveLocalName, Bound
<1>2. hits # {} <=> \E i \in I : \E k \in K(i) : ws[f].text[Sc(i).binds[k].at] = name
  <2>1. \A i, k : BindingName(f, <<i, k>>) = ws[f].text[Sc(i).binds[k].at]
    BY DEF BindingName, Binding
  <2>2. ScopeBindingsAt(f, p) = UNION {{<<i, k>> : k \in K(i)} : i \in I}
    BY DEF ScopeBindingsAt, ScopeBindings
  <2>3. hits # {} <=> \E i \in I : \E k \in K(i) : BindingName(f, <<i, k>>) = name
    <3> DEFINE all == UNION {{<<i, k>> : k \in K(i)} : i \in I}
    <3>1. \A b : b \in all <=> \E i \in I : \E k \in K(i) : b = <<i, k>>
      <4> HIDE DEF I, K
      <4> QED OBVIOUS
    <3>2. hits # {} <=> \E b \in all : BindingName(f, b) = name
      BY <2>2
    <3> HIDE DEF I, K, all, hits
    <3>3. ASSUME NEW b \in all, BindingName(f, b) = name
          PROVE  \E i \in I : \E k \in K(i) : BindingName(f, <<i, k>>) = name
      BY <3>1, <3>3
    <3>4. ASSUME NEW i \in I, NEW k \in K(i), BindingName(f, <<i, k>>) = name
          PROVE  \E b \in all : BindingName(f, b) = name
      BY <3>1, <3>4
    <3> QED BY <3>2, <3>3, <3>4
  <2> HIDE DEF I, K, Sc, hits
  <2> QED BY <2>1, <2>3
<1>3. name \in LocalNames(f, p) <=> \E i \in I : \E k \in K(i) : ws[f].text[Sc(i).binds[k].at] = name
  <2> DEFINE B(s) == {b \in ToSet(s.binds) : p \in s.from .. s.to /\ b.sees <= p}
  <2>1. name \in LocalNames(f, p) <=> \E s \in ToSet(ws[f].scopes) : \E b \in B(s) : ws[f].text[b.at] = name
    BY DEF LocalNames
  <2>2. \A i \in DOMAIN ws[f].scopes :
          (\E b \in B(Sc(i)) : ws[f].text[b.at] = name)
            <=> i \in I /\ \E k \in K(i) : ws[f].text[Sc(i).binds[k].at] = name
    BY DEF ToSet
  <2>3. ToSet(ws[f].scopes) = {Sc(i) : i \in DOMAIN ws[f].scopes}
    BY DEF ToSet
  <2> HIDE DEF B, K, Sc
  <2> QED BY <2>1, <2>2, <2>3
<1> HIDE DEF hits, I, K, Sc
<1> QED BY <1>1, <1>2, <1>3

LEMMA SiblingIs ==
  ASSUME NEW f, NEW p, NEW name
  PROVE  LET m == EnclosingModule(f, p)
         IN (IF m = 0 THEN None ELSE Named(f, m, name)) # None <=> name \in SiblingNames(f, p)
<1> DEFINE m == EnclosingModule(f, p)
<1>1. CASE m = 0
  BY <1>1 DEF SiblingNames
<1>2. CASE m # 0
  <2>1. name \in SiblingNames(f, p) <=> \E i \in ChildrenOf(f, m) : trees[f][i].name = name
    BY <1>2 DEF SiblingNames, ChildrenOf
  <2> QED BY <1>2, <2>1, NamedIs
<1> QED BY <1>1, <1>2

LEMMA VisibleIs ==
  ASSUME WellFormed(ws), NEW f \in Files, NEW p, NEW name
  PROVE  /\ ResolveNameAt(f, p, name) # None <=>
              \/ name \in LocalNames(f, p)
              \/ name \in SiblingNames(f, p)
              \/ \E g \in IncludeClosure(f) : name \in TopLevelNames(g)
              \/ \E imp \in ToSet(ws[f].imports) : ResolveOneImport(f, imp, name) # None
         /\ name \in VisibleNames(f, p) <=>
              \/ name \in LocalNames(f, p)
              \/ name \in SiblingNames(f, p)
              \/ \E g \in IncludeClosure(f) : name \in TopLevelNames(g)
              \/ \E imp \in ToSet(ws[f].imports) : name \in ImportLabels(f, imp)
<1> DEFINE m == EnclosingModule(f, p)
           sibling == IF m = 0 THEN None ELSE Named(f, m, name)
           spliced == OrElse(Named(f, 0, name), ResolveIncludes(f, name, {f}))
<1>1. ResolveNameAt(f, p, name) # None <=>
        \/ ResolveLocalName(f, p, name) # None \/ sibling # None
        \/ spliced # None \/ ResolveImports(f, name) # None
  BY DEF ResolveNameAt, ResolveInFile, OrElse
<1>2. sibling # None <=> name \in SiblingNames(f, p)
  BY SiblingIs
<1>3. spliced # None <=> \E g \in IncludeClosure(f) : name \in TopLevelNames(g)
  BY SplicedIs DEF OrElse
<1>4. ResolveImports(f, name) # None <=>
        \E imp \in ToSet(ws[f].imports) : ResolveOneImport(f, imp, name) # None
  BY ResolveImportsIs
<1>5. name \in VisibleNames(f, p) <=>
        \/ name \in LocalNames(f, p)
        \/ name \in SiblingNames(f, p)
        \/ \E g \in IncludeClosure(f) : name \in TopLevelNames(g)
        \/ \E imp \in ToSet(ws[f].imports) : name \in ImportLabels(f, imp)
  <2> DEFINE top == UNION {TopLevelNames(g) : g \in IncludeClosure(f)}
             imported == UNION {ImportLabels(f, imp) : imp \in ToSet(ws[f].imports)}
  <2>1. VisibleNames(f, p) = LocalNames(f, p) \cup SiblingNames(f, p) \cup top \cup imported
    BY DEF VisibleNames
  <2>2. name \in top <=> \E g \in IncludeClosure(f) : name \in TopLevelNames(g)
    OBVIOUS
  <2>3. name \in imported <=> \E imp \in ToSet(ws[f].imports) : name \in ImportLabels(f, imp)
    OBVIOUS
  <2> HIDE DEF top, imported
  <2> QED BY <2>1, <2>2, <2>3
<1> HIDE DEF sibling, spliced
<1> QED BY <1>1, <1>2, <1>3, <1>4, <1>5, LocalIs

LEMMA VisibleNamesResolve ==
  ASSUME WellFormed(ws)
  PROVE  ResolvesWhatIsVisible
<1> SUFFICES ASSUME NEW f \in Files, NEW p \in Tokens(f), NEW n \in AllNames
             PROVE  /\ ResolveNameAt(f, p, n) # None => n \in VisibleNames(f, p)
                    /\ (\A imp \in ToSet(ws[f].imports) : LabelsDiffer(f, imp)) =>
                         (n \in VisibleNames(f, p) => ResolveNameAt(f, p, n) # None)
  BY DEF ResolvesWhatIsVisible, Files
<1>1. \A imp \in ToSet(ws[f].imports) :
        /\ ResolveOneImport(f, imp, n) # None => n \in ImportLabels(f, imp)
        /\ LabelsDiffer(f, imp) /\ n \in ImportLabels(f, imp) => ResolveOneImport(f, imp, n) # None
  BY OneImport
<1> QED BY <1>1, VisibleIs

LEMMA QuietImports ==
  ASSUME WellFormed(ws)
  PROVE  QuietImportsResolve
<1> SUFFICES ASSUME NEW f \in Files, NEW imp \in ToSet(ws[f].imports)
             PROVE  /\ ImportDiagnostics(f, imp) = {} =>
                         /\ IsStdlib(f, imp) \/ ImportedModule(f, imp) # {}
                         /\ LabelsDiffer(f, imp) =>
                              \A n \in ImportLabels(f, imp) : ResolveOneImport(f, imp, n) # None
                    /\ ImportDiagnostics(f, imp) # {} =>
                         \A n \in AllNames : ResolveOneImport(f, imp, n) = None
  BY DEF QuietImportsResolve, Files
<1> DEFINE inScope == IF imp.at = 0 THEN None ELSE ModuleIn(f, ws[f].text[imp.at])
           m == SingleTopLevelModule(imp.target)
<1>1. NeedsFile(f, imp) <=> ~IsStdlib(f, imp) /\ inScope = None
  BY DEF NeedsFile
<1>2. CASE ~NeedsFile(f, imp)
  <2>1. ImportDiagnostics(f, imp) = {}
    BY <1>2 DEF ImportDiagnostics
  <2>2. IsStdlib(f, imp) \/ ImportedModule(f, imp) # {}
    BY <1>1, <1>2 DEF ImportedModule
  <2> QED BY <2>1, <2>2, OneImport
<1>3. CASE NeedsFile(f, imp) /\ (imp.target = NoFile \/ m = 0 \/ trees[imp.target][m].name # ExpectedModule(f, imp))
  <2>1. ImportDiagnostics(f, imp) # {}
    BY <1>3 DEF ImportDiagnostics, ModuleMismatch
  <2>2. \A n : ResolveOneImport(f, imp, n) = None
    BY <1>1, <1>3 DEF ResolveOneImport, ResolveExternalModuleMember
  <2> QED BY <2>1, <2>2
<1>4. CASE NeedsFile(f, imp) /\ ~(imp.target = NoFile \/ m = 0 \/ trees[imp.target][m].name # ExpectedModule(f, imp))
  <2>1. ImportDiagnostics(f, imp) = {}
    BY <1>4 DEF ImportDiagnostics, ModuleMismatch
  <2>2. ImportedModule(f, imp) # {}
    BY <1>1, <1>4 DEF ImportedModule
  <2> QED BY <2>1, <2>2, OneImport
<1> QED BY <1>2, <1>3, <1>4

(***************************************************************************)
(* Completion.                                                             *)
(***************************************************************************)
LEMMA BoundedHaveGreatest ==
  ASSUME NEW S \in SUBSET Nat, S # {}, NEW N \in Nat, \A j \in S : j <= N
  PROVE  \E k \in S : \A j \in S : j <= k
<1> DEFINE above == {n \in Nat : \A j \in S : j <= n}
           top == Least(above)
<1>1. above \in SUBSET Nat /\ above # {}
  OBVIOUS
<1>2. top \in above /\ \A n \in above : top <= n
  <2> HIDE DEF above
  <2> QED BY <1>1, LeastHolds
<1>3. top \in Nat /\ \A j \in S : j <= top
  BY <1>2
<1>4. top \in S
  <2> SUFFICES ASSUME top \notin S PROVE FALSE
    OBVIOUS
  <2>1. PICK j \in S : TRUE
    OBVIOUS
  <2> HIDE DEF top
  <2>2. top # 0 /\ top - 1 \in Nat
    BY <1>3, <2>1
  <2>3. \A k \in S : k <= top - 1
    BY <1>3
  <2>4. top - 1 \in above
    BY <2>2, <2>3
  <2> HIDE DEF above
  <2> QED BY <1>2, <1>3, <2>4
<1> HIDE DEF top
<1> QED BY <1>3, <1>4

LEMMA BindingsAre ==
  ASSUME WellFormed(ws), NEW f \in Files, NEW p
  PROVE  \A b \in ScopeBindingsAt(f, p) :
           /\ b = <<b[1], b[2]>> /\ b[1] \in Nat /\ b[2] \in Nat
           /\ b[1] \in 1 .. Len(ws[f].scopes) /\ b[2] \in 1 .. Len(ws[f].scopes[b[1]].binds)
           /\ Len(ws[f].scopes) \in Nat /\ Len(ws[f].scopes[b[1]].binds) \in Nat
<1> DEFINE token == DOMAIN ws[f].text
           B == [at : token, sees : Nat, detail : STRING]
           scope == [kind : STRING, from : token, to : token, binds : Seq(B)]
<1>1. ws[f].scopes \in Seq(scope)
  BY DEF WellFormed, Files
<1>2. \A i \in DOMAIN ws[f].scopes : ws[f].scopes[i].binds \in Seq(B) /\ i \in 1 .. Len(ws[f].scopes)
  <2>1. \A s \in scope : s.binds \in Seq(B)
    <3> HIDE DEF B, token
    <3> QED OBVIOUS
  <2> HIDE DEF B, scope
  <2> QED BY <1>1, <2>1
<1>3. Len(ws[f].scopes) \in Nat
  BY <1>1
<1>4. ASSUME NEW i \in DOMAIN ws[f].scopes, NEW b \in ScopeBindings(f, i, p)
      PROVE  \E k \in DOMAIN ws[f].scopes[i].binds : b = <<i, k>>
  BY <1>4 DEF ScopeBindings
<1>5. \A i \in DOMAIN ws[f].scopes :
        /\ DOMAIN ws[f].scopes[i].binds = 1 .. Len(ws[f].scopes[i].binds)
        /\ Len(ws[f].scopes[i].binds) \in Nat
  BY <1>2
<1> SUFFICES ASSUME NEW b \in ScopeBindingsAt(f, p)
             PROVE  \E i \in DOMAIN ws[f].scopes : \E k \in DOMAIN ws[f].scopes[i].binds : b = <<i, k>>
  <2> HIDE DEF B
  <2> QED BY <1>2, <1>3, <1>5
<1> QED BY <1>4 DEF ScopeBindingsAt

(* Some binding with the name is nearer than every other. *)
LEMMA NearestIs ==
  ASSUME WellFormed(ws), NEW f \in Files, NEW p, NEW hits \in SUBSET ScopeBindingsAt(f, p), hits # {}
  PROVE  /\ \E b \in hits : \A c \in hits : c = b \/ Nearer(f, b, c)
         /\ \A b, d \in hits : (\A c \in hits : c = b \/ Nearer(f, b, c)) /\ (\A c \in hits : c = d \/ Nearer(f, d, c)) => b = d
<1>1. \A b \in hits :
           /\ b = <<b[1], b[2]>> /\ b[1] \in Nat /\ b[2] \in Nat
           /\ b[1] \in 1 .. Len(ws[f].scopes) /\ b[2] \in 1 .. Len(ws[f].scopes[b[1]].binds)
           /\ Len(ws[f].scopes) \in Nat /\ Len(ws[f].scopes[b[1]].binds) \in Nat
  BY BindingsAre
<1>2. \A b, d \in hits : Nearer(f, b, d) /\ Nearer(f, d, b) => FALSE
  BY <1>1 DEF Nearer
<1>3. \E b \in hits : \A c \in hits : c = b \/ Nearer(f, b, c)
  <2> DEFINE I == {b[1] : b \in hits}
  <2>1. I \in SUBSET Nat /\ I # {}
    BY <1>1
  <2>2. Len(ws[f].scopes) \in Nat /\ \A i \in I : i <= Len(ws[f].scopes)
    BY <1>1
  <2>3. \E i \in I : \A j \in I : j <= i
    <3> HIDE DEF I
    <3> QED BY <2>1, <2>2, BoundedHaveGreatest
  <2>4. PICK i \in I : \A j \in I : j <= i
    BY <2>3
  <2> DEFINE inner == {b \in hits : b[1] = i}
             K == {b[2] : b \in inner}
  <2>5. K \in SUBSET Nat /\ K # {}
    BY <1>1
  <2>6. Len(ws[f].scopes[i].binds) \in Nat /\ \A k \in K : k <= Len(ws[f].scopes[i].binds)
    BY <1>1
  <2>7. (\E k \in K : \A j \in K : j <= k) /\ (\E k \in K : \A j \in K : k <= j)
    <3> HIDE DEF K
    <3> QED BY <2>5, <2>6, BoundedHaveGreatest, LeastHolds
  <2>8. PICK k \in K : IF ws[f].scopes[i].kind = "block" THEN \A j \in K : j <= k ELSE \A j \in K : k <= j
    BY <2>7
  <2>9. PICK b \in hits : b[1] = i /\ b[2] = k
    OBVIOUS
  <2>10. ASSUME NEW c \in hits PROVE c = b \/ Nearer(f, b, c)
    <3>1. c[1] \in Nat /\ c[2] \in Nat /\ i \in Nat /\ k \in Nat /\ c = <<c[1], c[2]>> /\ b = <<i, k>>
      BY <1>1, <2>9
    <3>2. c[1] <= i
      BY <2>4
    <3>3. CASE c[1] # i
      BY <2>9, <3>1, <3>2, <3>3 DEF Nearer
    <3>4. CASE c[1] = i
      <4>1. c[2] \in K
        BY <3>4
      <4> HIDE DEF K
      <4> QED BY <2>8, <2>9, <3>1, <3>4, <4>1 DEF Nearer
    <3> QED BY <3>3, <3>4
  <2> QED BY <2>10
<1> QED BY <1>2, <1>3

LEMMA LocalOffersAre ==
  ASSUME WellFormed(ws), NEW f \in Files, NEW p, NEW name, NEW B \in SUBSET ScopeBindingsAt(f, p),
         \A b \in ScopeBindingsAt(f, p) : BindingName(f, b) = name => b \in B
  PROVE  /\ \A o \in LocalOffers(f, B) : o.label = name =>
              o.def = ResolveLocalName(f, p, name) /\ o.def # None /\ name \in LocalNames(f, p)
         /\ name \in LocalNames(f, p) => name \in Labels(LocalOffers(f, B))
<1> DEFINE hits == {b \in ScopeBindingsAt(f, p) : BindingName(f, b) = name}
           nearest(b) == \A c \in hits : c = b \/ Nearer(f, b, c)
           shown == {b \in B : \A c \in B : BindingName(f, c) = BindingName(f, b) => c = b \/ Nearer(f, b, c)}
<1>1. \A b \in B : BindingName(f, b) = name <=> b \in hits
  OBVIOUS
<1>2. hits \subseteq B /\ hits \in SUBSET ScopeBindingsAt(f, p)
  OBVIOUS
<1>3. \A b \in B : BindingName(f, b) = name => (b \in shown <=> nearest(b))
  BY <1>1, <1>2
<1>4. \A o \in LocalOffers(f, B) : \E b \in shown : o = Offer(BindingName(f, b), Bound(f, b))
  BY DEF LocalOffers
<1>5. \A b \in shown : Offer(BindingName(f, b), Bound(f, b)) \in LocalOffers(f, B)
  BY DEF LocalOffers
<1>6. \A l, d : Offer(l, d).label = l /\ Offer(l, d).def = d
  BY DEF Offer
<1>7. hits # {} => /\ \E b \in hits : nearest(b)
                   /\ \A b, d \in hits : nearest(b) /\ nearest(d) => b = d
  <2> HIDE DEF hits
  <2> QED BY <1>2, NearestIs
<1>8. hits # {} => ResolveLocalName(f, p, name) = Bound(f, CHOOSE b \in hits : nearest(b))
  BY DEF ResolveLocalName
<1>9. hits = {} => ResolveLocalName(f, p, name) = None
  BY DEF ResolveLocalName
<1>10. name \in LocalNames(f, p) <=> ResolveLocalName(f, p, name) # None
  BY LocalIs
<1>11. \A b : Bound(f, b) # None
  BY DefinitionsAreNotNone DEF Bound
<1> HIDE DEF hits, nearest, shown
<1>12. ASSUME NEW o \in LocalOffers(f, B), o.label = name
       PROVE  o.def = ResolveLocalName(f, p, name) /\ o.def # None
  <2>1. PICK b \in shown : o = Offer(BindingName(f, b), Bound(f, b))
    BY <1>4
  <2>2. BindingName(f, b) = name /\ o.def = Bound(f, b) /\ b \in B
    BY <1>6, <1>12, <2>1 DEF shown
  <2>3. b \in hits /\ nearest(b)
    BY <1>1, <1>3, <2>1, <2>2
  <2>4. (CHOOSE d \in hits : nearest(d)) = b
    BY <1>7, <2>3
  <2> QED BY <1>8, <1>11, <2>2, <2>3, <2>4
<1>13. ASSUME name \in LocalNames(f, p) PROVE name \in Labels(LocalOffers(f, B))
  <2>1. hits # {}
    BY <1>9, <1>10, <1>13
  <2>2. PICK b \in hits : nearest(b)
    BY <1>7, <2>1
  <2>3. BindingName(f, b) = name /\ b \in shown
    BY <1>1, <1>2, <1>3, <2>2
  <2> QED BY <1>5, <1>6, <2>3 DEF Labels
<1> QED BY <1>10, <1>12, <1>13

(* The symbols offered under a name are the first of it, if all of that name are offered. *)
LEMMA SymbolOffersAre ==
  ASSUME NEW f, DOMAIN trees[f] \subseteq Nat, NEW parent, NEW kinds, NEW name,
         \A i \in ChildrenOf(f, parent) : trees[f][i].name = name => trees[f][i].kind \in kinds
  PROVE  /\ \A o \in SymbolOffers(f, OfKinds(f, parent, kinds)) : o.label = name =>
              o.def = Named(f, parent, name) /\ o.def # None
         /\ Named(f, parent, name) # None => name \in Labels(SymbolOffers(f, OfKinds(f, parent, kinds)))
<1> DEFINE hits == {i \in ChildrenOf(f, parent) : trees[f][i].name = name}
           of == OfKinds(f, parent, kinds)
           shown == {i \in of : \A j \in of : trees[f][j].name = trees[f][i].name => i <= j}
<1>1. hits \in SUBSET Nat
  BY DEF ChildrenOf
<1>2. \A i : i \in hits <=> i \in of /\ trees[f][i].name = name
  BY DEF OfKinds
<1>3. hits # {} => Least(hits) \in hits /\ \A j \in hits : Least(hits) <= j
  <2> HIDE DEF hits
  <2> QED BY <1>1, LeastHolds
<1>4. Named(f, parent, name) = IF hits = {} THEN None ELSE Item(f, Least(hits))
  BY DEF Named, FirstItem
<1>5. \A o : o \in SymbolOffers(f, of) <=> \E i \in shown : o = Offer(trees[f][i].name, Item(f, i))
  BY DEF SymbolOffers
<1>6. \A l, d : Offer(l, d).label = l /\ Offer(l, d).def = d
  BY DEF Offer
<1>7. \A i : Item(f, i) # None
  BY DefinitionsAreNotNone
<1>8. \A i : i \in shown /\ trees[f][i].name = name => i \in hits /\ i = Least(hits)
  <2> SUFFICES ASSUME NEW i, i \in shown, trees[f][i].name = name PROVE i \in hits /\ i = Least(hits)
    OBVIOUS
  <2>1. i \in hits /\ \A j \in hits : i <= j
    BY <1>2
  <2> HIDE DEF hits
  <2>2. Least(hits) <= i /\ i <= Least(hits) /\ i \in Nat /\ Least(hits) \in Nat
    BY <1>1, <1>3, <2>1
  <2> QED BY <2>1, <2>2
<1>9. hits # {} => Least(hits) \in shown /\ trees[f][Least(hits)].name = name
  BY <1>2, <1>3
<1> HIDE DEF hits, shown, of
<1>10. ASSUME NEW o \in SymbolOffers(f, of), o.label = name
       PROVE  o.def = Named(f, parent, name) /\ o.def # None
  <2>1. PICK i \in shown : o = Offer(trees[f][i].name, Item(f, i))
    BY <1>5
  <2>2. trees[f][i].name = name /\ o.def = Item(f, i)
    BY <1>6, <1>10, <2>1
  <2> QED BY <1>4, <1>7, <1>8, <2>2
<1>11. ASSUME Named(f, parent, name) # None PROVE name \in Labels(SymbolOffers(f, of))
  <2>1. hits # {}
    BY <1>4, <1>11
  <2>2. Offer(trees[f][Least(hits)].name, Item(f, Least(hits))) \in SymbolOffers(f, of)
    BY <1>5, <1>9, <2>1
  <2> QED BY <1>6, <1>9, <2>1, <2>2 DEF Labels
<1> QED BY <1>10, <1>11 DEF of

(* The label that an import shows a member under is one that it resolves to the member. *)
LEMMA VisibleLabelsAre ==
  ASSUME WellFormed(ws), NEW f \in Files, NEW imp \in ToSet(ws[f].imports), NEW orig,
         NEW n \in VisibleLabels(f, imp, orig)
  PROVE  /\ orig \in Importable(f, imp) => n \in ImportLabels(f, imp)
         /\ LabelsDiffer(f, imp) => TargetName(f, imp, n) = <<orig>>
<1> DEFINE K == DOMAIN imp.specs
           label(k) == Specifiers(f, imp)[k].label
           of(k) == Specifiers(f, imp)[k].orig
           hits == {k \in K : of(k) = orig}
           plain == IF imp.specs = <<>> THEN {orig} ELSE IF hits = {} THEN {} ELSE {label(Least(hits))}
           lookup == IF imp.prefixed /\ n \in DOMAIN Bare THEN Bare[n] ELSE n
           here == {k \in K : label(k) = lookup}
           exported == Importable(f, imp)
           selected == {label(k) : k \in {k \in K : of(k) \in exported}}
           labels == IF imp.specs = <<>> THEN exported ELSE selected
<1>1. K \subseteq Nat
  BY ImportsAre
<1>2. VisibleLabels(f, imp, orig) = IF imp.prefixed THEN {x \in DOMAIN Bare : Bare[x] \in plain} ELSE plain
  BY DEF VisibleLabels
<1>3. lookup \in plain /\ ~(imp.prefixed /\ n \notin DOMAIN Bare)
  <2> HIDE DEF plain
  <2> QED BY <1>2
<1>4. ImportLabels(f, imp) = IF imp.prefixed THEN {x \in DOMAIN Bare : Bare[x] \in labels} ELSE labels
  BY DEF ImportLabels, Importable
<1>5. lookup \in labels => n \in ImportLabels(f, imp)
  <2> HIDE DEF labels
  <2> QED BY <1>3, <1>4
<1>6. CASE imp.specs = <<>>
  <2>1. lookup = orig
    BY <1>3, <1>6
  <2>2. TargetName(f, imp, n) = <<lookup>>
    BY <1>3, <1>6 DEF TargetName
  <2>3. orig \in exported => lookup \in labels
    <3> HIDE DEF exported, lookup
    <3> QED BY <1>6, <2>1
  <2> HIDE DEF lookup
  <2> QED BY <1>5, <2>1, <2>2, <2>3
<1>7. CASE imp.specs # <<>>
  <2>1. hits # {} /\ lookup = label(Least(hits))
    <3> HIDE DEF lookup, label, hits
    <3> QED BY <1>3, <1>7
  <2>2. Least(hits) \in hits
    <3>1. hits \in SUBSET Nat
      BY <1>1
    <3> HIDE DEF hits
    <3> QED BY <2>1, <3>1, LeastHolds
  <2>3. PICK k \in K : of(k) = orig /\ label(k) = lookup
    <3> HIDE DEF lookup, label, of, K
    <3> QED BY <2>1, <2>2
  <2>4. here # {} /\ Least(here) \in here
    <3>1. here \in SUBSET Nat /\ k \in here
      BY <1>1, <2>3
    <3> HIDE DEF here
    <3> QED BY <3>1, LeastHolds
  <2> DEFINE j == Least(here)
  <2>5. j \in K /\ label(j) = lookup
    <3> HIDE DEF lookup, label, K
    <3> QED BY <2>4
  <2>6. TargetName(f, imp, n) = <<of(j)>>
    BY <1>3, <1>7, <2>4 DEF TargetName
  <2>7. LabelsDiffer(f, imp) => of(j) = orig
    <3> HIDE DEF j
    <3> QED BY <2>3, <2>5 DEF LabelsDiffer
  <2>8. orig \in exported => lookup \in labels
    <3> HIDE DEF lookup, exported
    <3> QED BY <1>7, <2>3
  <2> HIDE DEF j, lookup
  <2> QED BY <1>5, <2>6, <2>7, <2>8
<1> QED BY <1>6, <1>7

LEMMA MemberOffersAre ==
  ASSUME NEW f, NEW imp, NEW g, NEW parent, NEW kinds
  PROVE  \A o \in MemberOffers(f, imp, g, parent, kinds) :
           \E orig \in ExportedNames(g, parent) :
             o.label \in VisibleLabels(f, imp, orig) /\ o.def = Named(g, parent, orig)
<1> DEFINE members == {i \in OfKinds(g, parent, kinds) : trees[g][i].exported}
           labels(i) == VisibleLabels(f, imp, trees[g][i].name)
           first(i) == {n \in labels(i) : \A j \in members : j < i => n \notin labels(j)}
           offers(i) == {Offer(n, Named(g, parent, trees[g][i].name)) : n \in first(i)}
<1>1. MemberOffers(f, imp, g, parent, kinds) = UNION {offers(i) : i \in members}
  BY DEF MemberOffers
<1>2. \A i \in members : trees[g][i].name \in ExportedNames(g, parent)
  BY DEF OfKinds, ExportedNames
<1>3. ASSUME NEW i \in members, NEW o \in offers(i)
      PROVE  o.label \in VisibleLabels(f, imp, trees[g][i].name) /\ o.def = Named(g, parent, trees[g][i].name)
  <2>1. PICK n \in first(i) : o = Offer(n, Named(g, parent, trees[g][i].name))
    BY <1>3
  <2>2. n \in VisibleLabels(f, imp, trees[g][i].name)
    BY <2>1
  <2> HIDE DEF first
  <2> QED BY <2>1, <2>2 DEF Offer
<1> HIDE DEF members, offers
<1> QED BY <1>1, <1>2, <1>3

(* What is offered of an import is under a label of it, and resolves to what was offered. *)
LEMMA ImportOffersAre ==
  ASSUME WellFormed(ws), NEW f \in Files, NEW imp \in ToSet(ws[f].imports), NEW kinds,
         NEW o \in ImportOffers(f, imp, kinds)
  PROVE  /\ o.label \in ImportLabels(f, imp)
         /\ LabelsDiffer(f, imp) /\ ExportedFirst(f, imp) =>
              ResolveOneImport(f, imp, o.label) = o.def /\ o.def # None
<1> DEFINE inScope == IF imp.at = 0 THEN None ELSE ModuleIn(f, ws[f].text[imp.at])
<1>0. \A x : <<x>> # <<>> /\ <<x>>[1] = x
  OBVIOUS
<1>1. CASE IsStdlib(f, imp)
  <2>1. o \in MemberOffers(f, imp, Stdlib, 0, kinds)
    BY <1>1 DEF ImportOffers
  <2>2. PICK orig \in ExportedNames(Stdlib, 0) :
          o.label \in VisibleLabels(f, imp, orig) /\ o.def = Named(Stdlib, 0, orig)
    BY <2>1, MemberOffersAre
  <2>3. Importable(f, imp) = ExportedNames(Stdlib, 0)
    BY <1>1 DEF Importable
  <2>4. o.label \in ImportLabels(f, imp) /\ (LabelsDiffer(f, imp) => TargetName(f, imp, o.label) = <<orig>>)
    BY <2>2, <2>3, VisibleLabelsAre
  <2>5. TargetName(f, imp, o.label) = <<orig>> => ResolveOneImport(f, imp, o.label) = Exported(Stdlib, 0, orig)
    BY <1>0, <1>1 DEF ResolveOneImport
  <2>6. ExportedFirst(f, imp) => Named(Stdlib, 0, orig) = Exported(Stdlib, 0, orig)
    <3>1. <<Stdlib, 0>>[1] = Stdlib /\ <<Stdlib, 0>>[2] = 0
      OBVIOUS
    <3> QED BY <2>2, <3>1 DEF ExportedFirst
  <2>7. Exported(Stdlib, 0, orig) # None
    BY <2>2, NamedIs
  <2> QED BY <2>2, <2>4, <2>5, <2>6, <2>7
<1>2. CASE ~IsStdlib(f, imp)
  <2> DEFINE m == inScope.index
  <2>1. inScope # None /\ o \in MemberOffers(f, imp, f, m, kinds)
    BY <1>2 DEF ImportOffers
  <2>2. PICK orig \in ExportedNames(f, m) :
          o.label \in VisibleLabels(f, imp, orig) /\ o.def = Named(f, m, orig)
    <3> HIDE DEF m
    <3> QED BY <2>1, MemberOffersAre
  <2>3. ImportedModule(f, imp) = {<<f, m>>}
    BY <2>1 DEF ImportedModule
  <2>4. Importable(f, imp) = ExportedNames(f, m)
    BY <1>2, <2>3 DEF Importable
  <2>5. o.label \in ImportLabels(f, imp) /\ (LabelsDiffer(f, imp) => TargetName(f, imp, o.label) = <<orig>>)
    BY <2>2, <2>4, VisibleLabelsAre
  <2>6. TargetName(f, imp, o.label) = <<orig>> => ResolveOneImport(f, imp, o.label) = Exported(f, m, orig)
    BY <1>0, <1>2, <2>1 DEF ResolveOneImport
  <2>7. ExportedFirst(f, imp) => Named(f, m, orig) = Exported(f, m, orig)
    <3> HIDE DEF m
    <3>1. <<f, m>>[1] = f /\ <<f, m>>[2] = m /\ <<f, m>> \in ImportedModule(f, imp)
      BY <2>3
    <3> QED BY <2>2, <3>1 DEF ExportedFirst
  <2>8. Exported(f, m, orig) # None
    BY <2>2, NamedIs
  <2> HIDE DEF m
  <2> QED BY <2>2, <2>5, <2>6, <2>7, <2>8
<1> QED BY <1>1, <1>2

(* If only one import makes the name visible, the imports give what that one gives. *)
LEMMA OneImportGives ==
  ASSUME WellFormed(ws), NEW f \in Files, NEW name, NEW k \in DOMAIN ws[f].imports,
         \A j \in DOMAIN ws[f].imports : name \in ImportLabels(f, ws[f].imports[j]) => j = k
  PROVE  ResolveImports(f, name) = ResolveOneImport(f, ws[f].imports[k], name)
<1> DEFINE K == DOMAIN ws[f].imports
           defs == [j \in K |-> ResolveOneImport(f, ws[f].imports[j], name)]
<1>1. DOMAIN defs \subseteq Nat /\ DOMAIN defs = K
  BY ImportsAre
<1>2. \A j \in K : j # k => defs[j] = None
  BY OneImport, ImportsAre
<1>3. /\ FirstFound(defs) = None \/ \E j \in K : FirstFound(defs) = defs[j] /\ defs[j] # None
      /\ FirstFound(defs) # None <=> \E j \in K : defs[j] # None
  <2> HIDE DEF defs, K
  <2> QED BY <1>1, FirstFoundIs
<1>4. FirstFound(defs) = defs[k]
  <2>1. k \in K
    OBVIOUS
  <2> HIDE DEF defs, K
  <2> QED BY <1>2, <1>3, <2>1
<1> QED BY <1>4 DEF ResolveImports

(* What completion shows at an expression or a type, by the kinds it asks for. *)
LEMMA CompletionIs ==
  ASSUME NEW f, NEW p, ws[f].role[p].as \in {"name", "type"}, NEW o \in Completion(f, p)
  PROVE  \E B \in SUBSET ScopeBindingsAt(f, p), kinds \in {TypeKinds, ValueKinds} :
           /\ o \in Pushing(LocalOffers(f, B), Pushing(FileOffers(f, p, kinds), ImportedOffers(f, kinds)))
           /\ kinds = IF ws[f].role[p].as = "type" THEN TypeKinds ELSE ValueKinds
           /\ \A b \in ScopeBindingsAt(f, p) :
                b \in B <=> (ws[f].role[p].as = "type" => Binding(f, b).detail = "generic")
<1> DEFINE all == ScopeBindingsAt(f, p)
           generics == {b \in all : Binding(f, b).detail = "generic"}
<1>1. CASE ws[f].role[p].as = "type"
  <2>1. o \in Pushing(LocalOffers(f, generics), Pushing(FileOffers(f, p, TypeKinds), ImportedOffers(f, TypeKinds)))
    BY <1>1 DEF Completion, TypeItems
  <2>2. generics \in SUBSET all /\ \A b \in all : b \in generics <=> Binding(f, b).detail = "generic"
    OBVIOUS
  <2> HIDE DEF all, generics
  <2> QED BY <1>1, <2>1, <2>2 DEF all
<1>2. CASE ws[f].role[p].as = "name"
  <2>1. o \in Pushing(LocalOffers(f, all), Pushing(FileOffers(f, p, ValueKinds), ImportedOffers(f, ValueKinds)))
    BY <1>2 DEF Completion, ScopeAndItems
  <2> QED BY <1>2, <2>1
<1> QED BY <1>1, <1>2

LEMMA CompletionIsRight ==
  ASSUME WellFormed(ws), \A f \in Files : DOMAIN trees[f] \subseteq Nat
  PROVE  CompletionAgrees
<1> SUFFICES ASSUME NEW f \in Files, NEW p \in Tokens(f), ws[f].role[p].as \in {"name", "type"},
                    NEW o \in Completion(f, p), OneMeaning(f, p, o.label)
             PROVE  ResolveNameAt(f, p, o.label) = o.def
  BY DEF CompletionAgrees, Files
<1> DEFINE n == o.label
           m == EnclosingModule(f, p)
           type == ws[f].role[p].as = "type"
<1>1. PICK B \in SUBSET ScopeBindingsAt(f, p), kinds \in {TypeKinds, ValueKinds} :
        /\ o \in Pushing(LocalOffers(f, B), Pushing(FileOffers(f, p, kinds), ImportedOffers(f, kinds)))
        /\ kinds = IF type THEN TypeKinds ELSE ValueKinds
        /\ \A b \in ScopeBindingsAt(f, p) : b \in B <=> (type => Binding(f, b).detail = "generic")
  BY CompletionIs
<1>2. n \in LocalNames(f, p) => \A b \in ScopeBindingsAt(f, p) : BindingName(f, b) = n => b \in B
  BY <1>1 DEF OneMeaning
<1>3. n \notin LocalNames(f, p) =>
        /\ \A i \in ChildrenOf(f, 0) \cup ChildrenOf(f, m) : trees[f][i].name = n => trees[f][i].kind \in kinds
        /\ \A k \in DOMAIN ws[f].imports : n \in ImportLabels(f, ws[f].imports[k]) =>
             /\ \A j \in DOMAIN ws[f].imports : n \in ImportLabels(f, ws[f].imports[j]) => j = k
             /\ LabelsDiffer(f, ws[f].imports[k]) /\ ExportedFirst(f, ws[f].imports[k])
             /\ \A g \in IncludeClosure(f) \ {f} : n \notin TopLevelNames(g)
  BY <1>1 DEF OneMeaning
<1>4. ResolveLocalName(f, p, n) # None <=> n \in LocalNames(f, p)
  BY LocalIs
<1>5. n \notin LocalNames(f, p) => \A b \in ScopeBindingsAt(f, p) : BindingName(f, b) # n
  BY <1>4, DefinitionsAreNotNone DEF ResolveLocalName, Bound
<1>6. /\ \A x \in LocalOffers(f, B) : x.label = n =>
           x.def = ResolveLocalName(f, p, n) /\ x.def # None /\ n \in LocalNames(f, p)
      /\ n \in LocalNames(f, p) => n \in Labels(LocalOffers(f, B))
  <2>1. \A b \in ScopeBindingsAt(f, p) : BindingName(f, b) = n => b \in B
    BY <1>2, <1>5
  <2> HIDE DEF n
  <2> QED BY <2>1, LocalOffersAre
<1>7. CASE o \in LocalOffers(f, B)
  <2>1. o.def = ResolveLocalName(f, p, n) /\ o.def # None
    BY <1>6, <1>7
  <2> QED BY <2>1 DEF ResolveNameAt, OrElse
<1>8. ASSUME n \notin LocalNames(f, p)
      PROVE  ResolveNameAt(f, p, n) = ResolveInFile(f, p, n)
  BY <1>4, <1>8 DEF ResolveNameAt, OrElse
<1>9. ASSUME n \notin LocalNames(f, p), NEW parent \in {0, m}
      PROVE  /\ \A x \in SymbolOffers(f, OfKinds(f, parent, kinds)) : x.label = n =>
                  x.def = Named(f, parent, n) /\ x.def # None
             /\ Named(f, parent, n) # None => n \in Labels(SymbolOffers(f, OfKinds(f, parent, kinds)))
  <2>1. \A i \in ChildrenOf(f, parent) : trees[f][i].name = n => trees[f][i].kind \in kinds
    BY <1>3, <1>9
  <2> HIDE DEF n, m
  <2> QED BY <2>1, SymbolOffersAre
<1> DEFINE siblings == IF m = 0 THEN {} ELSE SymbolOffers(f, OfKinds(f, m, kinds))
           tops == SymbolOffers(f, OfKinds(f, 0, kinds))
           sibling == IF m = 0 THEN None ELSE Named(f, m, n)
<1>10. FileOffers(f, p, kinds) = Pushing(siblings, tops)
  BY DEF FileOffers
<1>11. ASSUME n \notin LocalNames(f, p)
       PROVE  /\ \A x \in siblings : x.label = n => x.def = sibling /\ x.def # None
              /\ sibling # None => n \in Labels(siblings)
              /\ \A x \in tops : x.label = n => x.def = Named(f, 0, n) /\ x.def # None
              /\ Named(f, 0, n) # None => n \in Labels(tops)
  <2> HIDE DEF n, m
  <2> QED BY <1>9, <1>11
<1>12. ResolveInFile(f, p, n) =
         OrElse(sibling, OrElse(OrElse(Named(f, 0, n), ResolveIncludes(f, n, {f})), ResolveImports(f, n)))
  BY DEF ResolveInFile
<1> HIDE DEF siblings, tops, sibling
<1>13. CASE o \in FileOffers(f, p, kinds) /\ n \notin LocalNames(f, p)
  <2>1. CASE o \in siblings
    BY <1>8, <1>11, <1>12, <1>13, <2>1 DEF OrElse
  <2>2. CASE o \in tops /\ n \notin Labels(siblings)
    BY <1>8, <1>11, <1>12, <1>13, <2>2 DEF OrElse
  <2> QED BY <1>10, <1>13, <2>1, <2>2 DEF Pushing
<1>14. CASE /\ o \in ImportedOffers(f, kinds) /\ n \notin LocalNames(f, p)
            /\ n \notin Labels(FileOffers(f, p, kinds))
  <2>1. sibling = None /\ Named(f, 0, n) = None
    BY <1>10, <1>11, <1>14 DEF Pushing, Labels
  <2>2. PICK k \in DOMAIN ws[f].imports : o \in ImportOffers(f, ws[f].imports[k], kinds)
    BY <1>14 DEF ImportedOffers
  <2> DEFINE imp == ws[f].imports[k]
  <2>3. imp \in ToSet(ws[f].imports)
    BY ImportsAre
  <2>4. n \in ImportLabels(f, imp)
        /\ (LabelsDiffer(f, imp) /\ ExportedFirst(f, imp) => ResolveOneImport(f, imp, n) = o.def /\ o.def # None)
    <3> HIDE DEF imp
    <3> QED BY <2>2, <2>3, ImportOffersAre DEF imp
  <2>5. ResolveOneImport(f, imp, n) = o.def /\ ResolveImports(f, n) = ResolveOneImport(f, imp, n)
    <3>1. LabelsDiffer(f, imp) /\ ExportedFirst(f, imp)
          /\ \A j \in DOMAIN ws[f].imports : n \in ImportLabels(f, ws[f].imports[j]) => j = k
      BY <1>3, <1>14, <2>4
    <3>2. ResolveImports(f, n) = ResolveOneImport(f, imp, n)
      <4> HIDE DEF n
      <4> QED BY <3>1, OneImportGives
    <3> QED BY <2>4, <3>1, <3>2
  <2>6. ResolveIncludes(f, n, {f}) = None
    <3>1. \A g \in IncludeClosure(f) \ {f} : n \notin TopLevelNames(g)
      BY <1>3, <1>14, <2>4
    <3>2. n \notin TopLevelNames(f)
      BY <2>1, NamedIs DEF TopLevelNames, ChildrenOf
    <3> HIDE DEF n
    <3> QED BY <3>1, <3>2, SplicedIs
  <2> QED BY <1>8, <1>12, <1>14, <2>1, <2>5, <2>6 DEF OrElse
<1>15. \/ o \in LocalOffers(f, B)
       \/ n \notin Labels(LocalOffers(f, B)) /\ o \in FileOffers(f, p, kinds)
       \/ /\ n \notin Labels(LocalOffers(f, B)) /\ n \notin Labels(FileOffers(f, p, kinds))
          /\ o \in ImportedOffers(f, kinds)
  BY <1>1 DEF Pushing
<1> QED BY <1>6, <1>7, <1>13, <1>14, <1>15

(***************************************************************************)
(* Where definitions are, and references.                                  *)
(***************************************************************************)
Inside(S) ==
  /\ S \in SUBSET Files /\ Stdlib \in S
  /\ \A h \in S : IncludesOf(h) \subseteq S /\ \A imp \in ToSet(ws[h].imports) : imp.target \in S \cup {NoFile}

LEMMA NamesStayInside ==
  ASSUME WellFormed(ws), NEW S, Inside(S), NEW f \in S, NEW p, NEW name
  PROVE  ResolveNameAt(f, p, name) # None => ResolveNameAt(f, p, name).file \in S
<1> DEFINE m == EnclosingModule(f, p)
           sibling == IF m = 0 THEN None ELSE Named(f, m, name)
           spliced == OrElse(Named(f, 0, name), ResolveIncludes(f, name, {f}))
<1>0. S \in SUBSET Files /\ f \in Files /\ Stdlib \in S /\ {f} \in SUBSET Files
      /\ \A h \in S : IncludesOf(h) \subseteq S
      /\ \A imp \in ToSet(ws[f].imports) : imp.target \in S \cup {NoFile}
  BY DEF Inside
<1>1. sibling # None => sibling.file \in S
  BY NamedIs
<1>2. spliced # None => spliced.file \in S
  <2>1. ResolveIncludes(f, name, {f}) # None => ResolveIncludes(f, name, {f}).file \in S
    <3> SUFFICES ASSUME ResolveIncludes(f, name, {f}) # None
                 PROVE  ResolveIncludes(f, name, {f}).file \in S
      OBVIOUS
    <3>1. PICK g \in S : ResolveIncludes(f, name, {f}) = Named(g, 0, name)
      BY <1>0, SearchStaysInside
    <3>2. Named(g, 0, name).file = g
      BY <3>1, NamedIs
    <3> QED BY <3>1, <3>2
  <2> QED BY <2>1, NamedIs DEF OrElse
<1>3. ResolveImports(f, name) # None => ResolveImports(f, name).file \in S
  <2> SUFFICES ASSUME NEW imp \in ToSet(ws[f].imports), ResolveOneImport(f, imp, name) # None
               PROVE  ResolveOneImport(f, imp, name).file \in S
    BY <1>0, ResolveImportsIs
  <2> DEFINE inScope == IF imp.at = 0 THEN None ELSE ModuleIn(f, ws[f].text[imp.at])
             t == SingleTopLevelModule(imp.target)
             o == TargetName(f, imp, name)[1]
  <2>1. CASE ResolveOneImport(f, imp, name) = Exported(Stdlib, 0, o)
    BY <1>0, <2>1, NamedIs
  <2>2. CASE ResolveOneImport(f, imp, name) = Exported(f, inScope.index, o)
    BY <2>2, NamedIs
  <2>3. CASE ResolveOneImport(f, imp, name) = ResolveExternalModuleMember(imp.target, ExpectedModule(f, imp), o)
    <3>1. imp.target # NoFile /\ ResolveOneImport(f, imp, name) = Exported(imp.target, t, o)
      BY <2>3 DEF ResolveExternalModuleMember
    <3> QED BY <1>0, <3>1, NamedIs
  <2> QED BY <2>1, <2>2, <2>3 DEF ResolveOneImport
<1>4. ResolveLocalName(f, p, name) # None => ResolveLocalName(f, p, name).file \in S
  BY LocalIs
<1> HIDE DEF spliced, sibling
<1>5. ResolveNameAt(f, p, name)
        = OrElse(ResolveLocalName(f, p, name), OrElse(sibling, OrElse(spliced, ResolveImports(f, name))))
  BY DEF ResolveNameAt, ResolveInFile, spliced, sibling
<1> QED BY <1>1, <1>2, <1>3, <1>4, <1>5 DEF OrElse

(* What an identifier resolves to is in a file that its own file leads to. *)
LEMMA DefinitionsStayInside ==
  ASSUME WellFormed(ws), NEW S, Inside(S), NEW f \in S, NEW p
  PROVE  Resolve(f, p) # None => Resolve(f, p).file \in S
<1> DEFINE as == ws[f].role[p].as
           of == ws[f].role[p].of
           name == ws[f].text[p]
<1>0. Stdlib \in S
  BY DEF Inside
<1>1. \A q, n : ResolveNameAt(f, q, n) # None => ResolveNameAt(f, q, n).file \in S
  BY NamesStayInside
<1>2. \A def, kind, n : (def # None => def.file \in S) =>
                         (MemberOf(def, kind, n) # None => MemberOf(def, kind, n).file \in S)
  <2>1. \A g, hits : FirstItem(g, hits) # None => FirstItem(g, hits).file = g
    BY DefinitionsAreNotNone DEF FirstItem
  <2> QED BY <2>1, DefinitionsAreNotNone DEF MemberOf
<1>3. CASE as \in {"pattern", "for", "generic"}
  <2>1. \E d : Resolve(f, p) = Local(f, p, d)
    <3>1. CASE as = "pattern"
      <4>1. Resolve(f, p) = Local(f, p, DetailForBinding(f, p))
        BY <3>1 DEF Resolve
      <4> QED BY <4>1
    <3>2. CASE as \in {"for", "generic"}
      <4>1. Resolve(f, p) = Local(f, p, as)
        BY <3>2 DEF Resolve
      <4> QED BY <4>1
    <3> QED BY <1>3, <3>1, <3>2
  <2> QED BY <2>1, DefinitionsAreNotNone
<1>4. CASE as = "declaration"
  <2>1. Resolve(f, p) = ItemDeclarationAt(f, p)
    BY <1>4 DEF Resolve
  <2> QED BY <2>1, DefinitionsAreNotNone DEF ItemDeclarationAt, FirstItem
<1>5. CASE as \in {"name", "type", "shorthand"}
  <2>1. Resolve(f, p) = ResolveNameAt(f, p, name)
    BY <1>5 DEF Resolve
  <2> QED BY <1>1, <2>1
<1>6. CASE as = "field init"
  <2>1. Resolve(f, p) = MemberOf(ResolveNameAt(f, of, ws[f].text[of]), "field", name)
    BY <1>6 DEF Resolve, ResolveStructLiteralField
  <2> QED BY <1>1, <1>2, <2>1
<1>7. CASE as = "member"
  <2>1. Resolve(f, p) = ResolveMember(f, p, name)
    BY <1>7 DEF Resolve
  <2>2. \/ ResolveMember(f, p, name) = None
        \/ ResolveMember(f, p, name) = MemberOf(ResolveNameAt(f, of, ws[f].text[of]), "variant", name)
    BY DefinitionsAreNotNone DEF ResolveMember
  <2> QED BY <1>1, <1>2, <2>1, <2>2
<1>8. CASE as = "specifier"
  <2> DEFINE imp == ws[f].imports[of]
             inScope == IF imp.at = 0 THEN None ELSE ModuleIn(f, ws[f].text[imp.at])
  <2>1. Resolve(f, p) = ResolveImportSpecifier(f, imp, p, name)
    BY <1>8 DEF Resolve
  <2>2. \/ ResolveImportSpecifier(f, imp, p, name) = None
        \/ ResolveImportSpecifier(f, imp, p, name) = Exported(Stdlib, 0, name)
        \/ ResolveImportSpecifier(f, imp, p, name) = Exported(f, inScope.index, name)
    BY DEF ResolveImportSpecifier
  <2>3. \A g, i : Exported(g, i, name) # None => Exported(g, i, name).file = g
    BY NamedIs
  <2> HIDE DEF imp, inScope
  <2> QED BY <1>0, <2>1, <2>2, <2>3
<1>9. CASE as \notin {"pattern", "for", "generic", "declaration", "name", "type", "shorthand",
                     "field init", "member", "specifier"}
  BY <1>9 DEF Resolve
<1> QED BY <1>3, <1>4, <1>5, <1>6, <1>7, <1>8, <1>9

LEMMA StdlibStandsAlone ==
  ASSUME WellFormed(ws)
  PROVE  Inside({Stdlib}) /\ Inside(Files)
<1>1. Stdlib \in Files /\ ws[Stdlib].imports = <<>> /\ ws[Stdlib].includes = <<>>
  BY DEF WellFormed, Files
<1>2. IncludesOf(Stdlib) = {} /\ ToSet(ws[Stdlib].imports) = {}
  BY <1>1 DEF IncludesOf, ToSet
<1>3. Inside({Stdlib})
  BY <1>1, <1>2 DEF Inside
<1>4. \A h \in Files : IncludesOf(h) \subseteq Files /\ \A imp \in ToSet(ws[h].imports) : imp.target \in Files \cup {NoFile}
  BY IncludesAreFiles, ImportsAre
<1> QED BY <1>1, <1>3, <1>4 DEF Inside

LEMMA ReferencesAre ==
  ASSUME WellFormed(ws)
  PROVE  ReferencesAgree
<1> SUFFICES ASSUME NEW f \in Files \cap (Indexed \cup {Stdlib}), NEW p \in Tokens(f), NEW r \in FindReferences(f, p)
             PROVE  FindReferences(r[1], r[2]) = FindReferences(f, p)
  BY DEF ReferencesAgree, Files
<1> DEFINE def == Resolve(f, p)
           At(g) == {<<g, q>> : q \in {q \in Tokens(g) : ws[g].text[q] = DefName(def) /\ Resolve(g, q) = def}}
<1>1. def # None
  BY DEF FindReferences
<1>2. FindReferences(f, p) = UNION {At(g) : g \in SearchedFiles(def, f)}
  BY <1>1 DEF FindReferences
<1>3. PICK g \in SearchedFiles(def, f) : r \in At(g)
  <2> HIDE DEF At, def
  <2> QED BY <1>2
<1>4. r[1] = g /\ Resolve(g, r[2]) = def
  BY <1>3
<1>5. FindReferences(r[1], r[2]) = UNION {At(h) : h \in SearchedFiles(def, g)}
  BY <1>1, <1>4 DEF FindReferences
<1>6. SearchedFiles(def, g) = SearchedFiles(def, f)
  <2>1. f = Stdlib => def.file = Stdlib
    BY <1>1, StdlibStandsAlone, DefinitionsStayInside
  <2> HIDE DEF def
  <2> QED BY <1>3, <2>1 DEF SearchedFiles
<1> HIDE DEF def, At
<1> QED BY <1>2, <1>5, <1>6

(***************************************************************************)
(* The invariant: a rename changes names, and nothing of the syntax around *)
(* them.                                                                   *)
(***************************************************************************)
LEMMA SameSyntax ==
  ASSUME NEW w, NEW v, WellFormed(w), DOMAIN v = DOMAIN w, v = [f \in DOMAIN v |-> v[f]],
         \A f \in DOMAIN w :
           \E text \in Seq(STRING) :
             /\ DOMAIN text = DOMAIN w[f].text
             /\ v[f] = [text |-> text, role |-> w[f].role, decls |-> w[f].decls,
                        scopes |-> w[f].scopes, imports |-> w[f].imports, includes |-> w[f].includes]
  PROVE  WellFormed(v)
<1>1. \A f \in DOMAIN w : /\ DOMAIN v[f].text = DOMAIN w[f].text /\ v[f].text \in Seq(STRING)
                          /\ v[f].role = w[f].role /\ v[f].decls = w[f].decls /\ v[f].scopes = w[f].scopes
                          /\ v[f].imports = w[f].imports /\ v[f].includes = w[f].includes
  OBVIOUS
<1>2. \A f \in DOMAIN w :
        v[f] = [text |-> v[f].text, role |-> v[f].role, decls |-> v[f].decls,
                scopes |-> v[f].scopes, imports |-> v[f].imports, includes |-> v[f].includes]
  OBVIOUS
<1>3. \A f \in DOMAIN w : OnePart(v[f])
  <2>1. \A f \in DOMAIN w : OnePart(w[f])
    BY DEF WellFormed
  <2> QED BY <1>1, <2>1 DEF OnePart
<1>4. IsFiniteSet(DOMAIN v) /\ Stdlib \in DOMAIN v /\ NoFile \notin DOMAIN v
      /\ v[Stdlib].imports = <<>> /\ v[Stdlib].includes = <<>>
  BY <1>1 DEF WellFormed
<1>5. ASSUME NEW f \in DOMAIN w
      PROVE  LET token == DOMAIN v[f].text
                 file == DOMAIN v \cup {NoFile}
                 specifier == [orig : token, alias : token \cup {0}]
                 binding == [at : token, sees : Nat, detail : STRING]
             IN /\ v[f].role \in [token -> [as : STRING, of : Nat]]
                /\ v[f].decls \in Seq([kind : STRING, at : token, from : token, to : token,
                                        exported : BOOLEAN, parent : Nat])
                /\ v[f].scopes \in Seq([kind : STRING, from : token, to : token, binds : Seq(binding)])
                /\ v[f].imports \in Seq([at : token \cup {0}, path : STRING, prefixed : BOOLEAN,
                                          specs : Seq(specifier), target : file])
                /\ v[f].includes \in Seq(file)
                /\ \A k \in DOMAIN v[f].decls : v[f].decls[k].parent < k
                /\ \A p \in token : v[f].role[p].as = "specifier" => v[f].role[p].of \in DOMAIN v[f].imports
  BY <1>1 DEF WellFormed
<1> QED BY <1>1, <1>2, <1>3, <1>4, <1>5 DEF WellFormed

LEMMA ApplyKeepsSyntax ==
  ASSUME WellFormed(ws), NEW edits, NEW new \in STRING
  PROVE  /\ WellFormed(Apply(edits, new)) /\ DOMAIN Apply(edits, new) = DOMAIN ws
         /\ \A f \in DOMAIN ws : DOMAIN Apply(edits, new)[f].text = DOMAIN ws[f].text
<1> DEFINE v == Apply(edits, new)
           T(f) == [p \in DOMAIN ws[f].text |-> IF <<f, p>> \in edits THEN new ELSE ws[f].text[p]]
<1>1. DOMAIN v = DOMAIN ws /\ v = [f \in DOMAIN v |-> v[f]]
  BY DEF Apply
<1>2. ASSUME NEW f \in DOMAIN ws
      PROVE  /\ T(f) \in Seq(STRING) /\ DOMAIN T(f) = DOMAIN ws[f].text
             /\ v[f] = [text |-> T(f), role |-> ws[f].role, decls |-> ws[f].decls,
                        scopes |-> ws[f].scopes, imports |-> ws[f].imports, includes |-> ws[f].includes]
  <2>1. /\ ws[f].text \in Seq(STRING)
        /\ ws[f] = [text |-> ws[f].text, role |-> ws[f].role, decls |-> ws[f].decls,
                    scopes |-> ws[f].scopes, imports |-> ws[f].imports, includes |-> ws[f].includes]
    BY DEF WellFormed
  <2>2. T(f) \in Seq(STRING) /\ DOMAIN T(f) = DOMAIN ws[f].text
    <3> DEFINE n == Len(ws[f].text)
    <3>1. n \in Nat /\ DOMAIN ws[f].text = 1 .. n /\ \A p \in 1 .. n : ws[f].text[p] \in STRING
      BY <2>1
    <3> HIDE DEF n
    <3>2. T(f) \in [1 .. n -> STRING]
      BY <3>1
    <3>3. DOMAIN T(f) = 1 .. n
      BY <3>2
    <3> HIDE DEF T
    <3> QED BY <3>1, <3>2, <3>3
  <2>3. v[f] = [ws[f] EXCEPT !.text = T(f)]
    BY DEF Apply
  <2> HIDE DEF T, v
  <2> QED BY <2>1, <2>2, <2>3
<1>3. WellFormed(v)
  <2> HIDE DEF T, v
  <2> QED BY <1>1, <1>2, SameSyntax
<1>4. ASSUME NEW f \in DOMAIN ws PROVE DOMAIN v[f].text = DOMAIN ws[f].text
  <2> DEFINE t == T(f)
  <2>1. DOMAIN t = DOMAIN ws[f].text
    BY <1>2
  <2>2. v[f] = [text |-> t, role |-> ws[f].role, decls |-> ws[f].decls,
                scopes |-> ws[f].scopes, imports |-> ws[f].imports, includes |-> ws[f].includes]
    BY <1>2
  <2> HIDE DEF t, v, T
  <2> QED BY <2>1, <2>2
<1> QED BY <1>1, <1>3, <1>4

LEMMA ReferencesAreTokens ==
  ASSUME WellFormed(ws), Indexed \subseteq Files, NEW f \in Files, NEW p
  PROVE  FindReferences(f, p) \subseteq UNION {{g} \X Tokens(g) : g \in Files}
<1> DEFINE def == Resolve(f, p)
<1>1. CASE def = None
  BY <1>1 DEF FindReferences
<1>2. CASE def # None
  <2>1. SearchedFiles(def, f) \subseteq Files
    <3>1. def.file \in Files
      BY <1>2, StdlibStandsAlone, DefinitionsStayInside
    <3> QED BY <3>1 DEF SearchedFiles
  <2> DEFINE At(g) == {<<g, q>> : q \in {q \in Tokens(g) : ws[g].text[q] = DefName(def) /\ Resolve(g, q) = def}}
  <2>2. FindReferences(f, p) = UNION {At(g) : g \in SearchedFiles(def, f)}
    BY <1>2 DEF FindReferences
  <2>3. \A g : At(g) \subseteq {g} \X Tokens(g)
    OBVIOUS
  <2> HIDE DEF At, def
  <2> QED BY <2>1, <2>2, <2>3
<1> QED BY <1>1, <1>2

LEMMA NamesInit == Init => TypeOK
<1> SUFFICES ASSUME Init PROVE TypeOK
  OBVIOUS
<1>1. WellFormed(ws) /\ Indexed \subseteq DOMAIN ws
  BY NamesAssumption DEF Init
<1> QED BY <1>1 DEF Init, TypeOK

LEMMA NamesStep == TypeOK /\ [Next]_vars => TypeOK'
<1> SUFFICES ASSUME TypeOK, [Next]_vars PROVE TypeOK'
  OBVIOUS
<1> DEFINE Outcomes == {"none", "invalid name", "not found", "builtin target", "conflict", "edited"}
           Places == UNION {{g} \X Tokens(g) : g \in DOMAIN ws}
<1>0. WellFormed(ws) /\ Indexed \subseteq DOMAIN ws /\ trees = [f \in DOMAIN ws |-> ItemTree(f)]
  BY DEF TypeOK
<1>1. ASSUME NEW f \in DOMAIN ws, NEW p \in Tokens(f), NEW new \in NewNames, Rename(f, p, new)
      PROVE  TypeOK'
  <2> DEFINE def == Resolve(f, p)
             outcome == RenameOutcome(def, FindReferences(f, p), new)
             edits == IF outcome = "edited" THEN FindReferences(f, p) ELSE {}
  <2>1. new \in STRING
    BY NamesAssumption
  <2>2. ws' = Apply(edits, new) /\ trees' = [g \in DOMAIN ws |-> ItemTree(g)']
        /\ renamed'.outcome = outcome /\ renamed'.edits = edits
    BY <1>1 DEF Rename
  <2>3. WellFormed(ws') /\ DOMAIN ws' = DOMAIN ws /\ \A g \in DOMAIN ws : DOMAIN ws'[g].text = DOMAIN ws[g].text
    <3> HIDE DEF edits
    <3> QED BY <1>0, <2>1, <2>2, ApplyKeepsSyntax
  <2>4. outcome \in Outcomes
    BY DEF RenameOutcome
  <2>5. edits \subseteq Places
    <3>1. FindReferences(f, p) \subseteq Places
      BY <1>0, ReferencesAreTokens DEF Files
    <3> HIDE DEF Places
    <3> QED BY <3>1
  <2>6. Places = (UNION {{g} \X Tokens(g) : g \in DOMAIN ws})'
    BY <2>3 DEF Tokens
  <2>7. trees' = [g \in DOMAIN ws |-> ItemTree(g)]'
    BY <2>2, <2>3
  <2> HIDE DEF outcome, edits, Places
  <2> QED BY <1>0, <2>2, <2>3, <2>4, <2>5, <2>6, <2>7 DEF TypeOK, WellFormed
<1>2. ASSUME NEW f \in DOMAIN ws, NEW p \in Tokens(f), NEW new \in NewNames, RenameCancelled(f, p, new)
      PROVE  TypeOK'
  <2>1. ws' = ws /\ trees' = trees /\ renamed'.outcome = "not found" /\ renamed'.edits = {}
    BY <1>2 DEF RenameCancelled
  <2>2. trees' = [g \in DOMAIN ws |-> ItemTree(g)]'
    BY <1>0, <2>1 DEF ItemTree, PushItem
  <2> QED BY <1>0, <2>1, <2>2 DEF TypeOK, WellFormed
<1>3. CASE UNCHANGED vars
  <2>1. ws' = ws /\ trees' = trees /\ renamed' = renamed
    BY <1>3 DEF vars
  <2>2. trees' = [g \in DOMAIN ws |-> ItemTree(g)]'
    BY <1>0, <2>1 DEF ItemTree, PushItem
  <2>3. /\ renamed.outcome \in Outcomes /\ renamed.edits \subseteq Places
        /\ Places = (UNION {{g} \X Tokens(g) : g \in DOMAIN ws})'
    BY <2>1 DEF TypeOK, Tokens
  <2> QED BY <1>0, <2>1, <2>2, <2>3 DEF TypeOK, WellFormed
<1> QED BY <1>1, <1>2, <1>3 DEF Next

LEMMA NamesInvariant == Spec => []TypeOK
<1> QED BY NamesInit, NamesStep, PTL DEF Spec

(***************************************************************************)
(* What a name may mean, whatever the order of the search: the bindings    *)
(* around it, and the items that a file reaches where no import prefixes   *)
(* or selects.                                                             *)
(***************************************************************************)
BindingsOf(f, p, name) == {b \in ScopeBindingsAt(f, p) : BindingName(f, b) = name}
PlainImports(f) == \A imp \in ToSet(ws[f].imports) : ~imp.prefixed /\ imp.specs = <<>>
Places(f, imp) == IF IsStdlib(f, imp) THEN {<<Stdlib, 0>>} ELSE ImportedModule(f, imp)
Gives(g, parent) == {Item(g, i) : i \in ChildrenOf(g, parent)}
GivesExported(g, parent) == {Item(g, i) : i \in {i \in ChildrenOf(g, parent) : trees[g][i].exported}}
Reach(f, p) ==
  Gives(f, EnclosingModule(f, p))
    \cup (UNION {Gives(g, 0) : g \in IncludeClosure(f)})
    \cup UNION {UNION {GivesExported(m[1], m[2]) : m \in Places(f, imp)} : imp \in ToSet(ws[f].imports)}
TreesAreCounted == \A g \in Files : DOMAIN trees[g] \subseteq Nat
Calls(def, name) == trees[def.file][def.index].name = name

LEMMA ItemsAre == \A f, i : Item(f, i).file = f /\ Item(f, i).index = i
BY DEF Item

LocalsAreFound ==
  \A f \in Files : \A p, name :
    /\ BindingsOf(f, p, name) = {} => ResolveLocalName(f, p, name) = None
    /\ BindingsOf(f, p, name) # {} =>
         \E b \in BindingsOf(f, p, name) : ResolveLocalName(f, p, name) = Bound(f, b)
ItemsAreFound ==
  \A f \in Files : PlainImports(f) => \A p, name :
    /\ ResolveInFile(f, p, name) # None =>
         \E d \in Reach(f, p) : Calls(d, name) /\ ResolveInFile(f, p, name) = d
    /\ ResolveInFile(f, p, name) = None => \A d \in Reach(f, p) : ~Calls(d, name)

LEMMA LocalFound == WellFormed(ws) => LocalsAreFound
<1> SUFFICES ASSUME WellFormed(ws), NEW f \in Files, NEW p, NEW name
             PROVE  /\ BindingsOf(f, p, name) = {} => ResolveLocalName(f, p, name) = None
                    /\ BindingsOf(f, p, name) # {} =>
                         \E b \in BindingsOf(f, p, name) : ResolveLocalName(f, p, name) = Bound(f, b)
  BY DEF LocalsAreFound
<1> DEFINE hits == BindingsOf(f, p, name)
           nearest(b) == \A c \in hits : c = b \/ Nearer(f, b, c)
<1>1. hits \in SUBSET ScopeBindingsAt(f, p)
  BY DEF BindingsOf
<1>2. ResolveLocalName(f, p, name) = IF hits = {} THEN None ELSE Bound(f, CHOOSE b \in hits : nearest(b))
  BY DEF ResolveLocalName, BindingsOf
<1>3. hits # {} => \E b \in hits : nearest(b)
  <2> HIDE DEF hits
  <2> QED BY <1>1, NearestIs
<1> HIDE DEF hits, nearest
<1>4. hits # {} => (CHOOSE b \in hits : nearest(b)) \in hits
  BY <1>3
<1> QED BY <1>2, <1>4 DEF hits

LEMMA NamedFinds ==
  ASSUME NEW f, DOMAIN trees[f] \subseteq Nat, NEW parent, NEW name
  PROVE  /\ Named(f, parent, name) # None =>
              \E d \in Gives(f, parent) : Calls(d, name) /\ Named(f, parent, name) = d
         /\ Named(f, parent, name) = None => \A d \in Gives(f, parent) : ~Calls(d, name)
         /\ Exported(f, parent, name) # None =>
              \E d \in GivesExported(f, parent) : Calls(d, name) /\ Exported(f, parent, name) = d
         /\ Exported(f, parent, name) = None => \A d \in GivesExported(f, parent) : ~Calls(d, name)
<1> DEFINE all == {i \in ChildrenOf(f, parent) : trees[f][i].name = name}
           some == {i \in ChildrenOf(f, parent) : trees[f][i].exported /\ trees[f][i].name = name}
<1>1. ASSUME NEW S \in SUBSET Nat
      PROVE  /\ FirstItem(f, S) # None => \E i \in S : FirstItem(f, S) = Item(f, i)
             /\ FirstItem(f, S) = None => S = {}
  BY LeastHolds, DefinitionsAreNotNone DEF FirstItem
<1>2. all \in SUBSET Nat /\ some \in SUBSET Nat
  BY DEF ChildrenOf
<1>3. Named(f, parent, name) = FirstItem(f, all) /\ Exported(f, parent, name) = FirstItem(f, some)
  BY DEF Named, Exported
<1>4. /\ \A i \in all : Item(f, i) \in Gives(f, parent) /\ Calls(Item(f, i), name)
      /\ \A i \in some : Item(f, i) \in GivesExported(f, parent) /\ Calls(Item(f, i), name)
  BY ItemsAre DEF Gives, GivesExported, Calls
<1>5. /\ \A d \in Gives(f, parent) : Calls(d, name) => \E i \in all : d = Item(f, i)
      /\ \A d \in GivesExported(f, parent) : Calls(d, name) => \E i \in some : d = Item(f, i)
  BY ItemsAre DEF Gives, GivesExported, Calls
<1> HIDE DEF all, some
<1> QED BY <1>1, <1>2, <1>3, <1>4, <1>5

LEMMA PlainImportFinds ==
  ASSUME WellFormed(ws), \A g \in Files : DOMAIN trees[g] \subseteq Nat,
         NEW f \in Files, NEW imp \in ToSet(ws[f].imports), ~imp.prefixed, imp.specs = <<>>, NEW name
  PROVE  LET reached == UNION {GivesExported(m[1], m[2]) : m \in Places(f, imp)}
         IN /\ ResolveOneImport(f, imp, name) # None =>
                 \E d \in reached : Calls(d, name) /\ ResolveOneImport(f, imp, name) = d
            /\ ResolveOneImport(f, imp, name) = None => \A d \in reached : ~Calls(d, name)
<1> DEFINE inScope == IF imp.at = 0 THEN None ELSE ModuleIn(f, ws[f].text[imp.at])
           m == SingleTopLevelModule(imp.target)
           reached == UNION {GivesExported(e[1], e[2]) : e \in Places(f, imp)}
           found == ResolveOneImport(f, imp, name)
<1>0. TargetName(f, imp, name) = <<name>> /\ <<name>> # <<>> /\ <<name>>[1] = name
  BY DEF TargetName
<1>1. ASSUME NEW g \in Files, NEW k, Places(f, imp) = {<<g, k>>}, found = Exported(g, k, name)
      PROVE  /\ found # None => \E d \in reached : Calls(d, name) /\ found = d
             /\ found = None => \A d \in reached : ~Calls(d, name)
  <2>1. reached = GivesExported(g, k)
    BY <1>1
  <2> HIDE DEF reached, found
  <2> QED BY <1>1, <2>1, NamedFinds
<1>2. CASE IsStdlib(f, imp)
  <2>1. found = Exported(Stdlib, 0, name)
    BY <1>0, <1>2 DEF ResolveOneImport
  <2>2. Places(f, imp) = {<<Stdlib, 0>>} /\ Stdlib \in Files
    BY <1>2 DEF Places, WellFormed, Files
  <2> HIDE DEF found, reached
  <2> QED BY <1>1, <2>1, <2>2 DEF found, reached
<1>3. CASE ~IsStdlib(f, imp) /\ inScope # None
  <2>1. found = Exported(f, inScope.index, name)
    BY <1>0, <1>3 DEF ResolveOneImport
  <2>2. Places(f, imp) = {<<f, inScope.index>>}
    BY <1>3 DEF Places, ImportedModule
  <2> HIDE DEF found, reached, inScope
  <2> QED BY <1>1, <2>1, <2>2 DEF found, reached
<1>4. CASE ~IsStdlib(f, imp) /\ inScope = None
  <2>1. found = ResolveExternalModuleMember(imp.target, ExpectedModule(f, imp), name)
    BY <1>0, <1>4 DEF ResolveOneImport
  <2>2. CASE imp.target = NoFile \/ m = 0 \/ trees[imp.target][m].name # ExpectedModule(f, imp)
    <3>1. found = None
      BY <2>1, <2>2 DEF ResolveExternalModuleMember
    <3>2. Places(f, imp) = {}
      BY <1>4, <2>2 DEF Places, ImportedModule
    <3> QED BY <3>1, <3>2
  <2>3. CASE ~(imp.target = NoFile \/ m = 0 \/ trees[imp.target][m].name # ExpectedModule(f, imp))
    <3>1. found = Exported(imp.target, m, name)
      BY <2>1, <2>3 DEF ResolveExternalModuleMember
    <3>2. Places(f, imp) = {<<imp.target, m>>}
      BY <1>4, <2>3 DEF Places, ImportedModule
    <3>3. imp.target \in Files
      BY <2>3, ImportsAre
    <3> HIDE DEF found, reached, m
    <3> QED BY <1>1, <3>1, <3>2, <3>3 DEF found, reached
  <2> QED BY <2>2, <2>3
<1> QED BY <1>2, <1>3, <1>4

LEMMA InFileFound == WellFormed(ws) /\ TreesAreCounted => ItemsAreFound
<1> SUFFICES ASSUME WellFormed(ws), \A g \in Files : DOMAIN trees[g] \subseteq Nat,
                    NEW f \in Files, PlainImports(f), NEW p, NEW name
             PROVE  /\ ResolveInFile(f, p, name) # None =>
                         \E d \in Reach(f, p) : Calls(d, name) /\ ResolveInFile(f, p, name) = d
                    /\ ResolveInFile(f, p, name) = None => \A d \in Reach(f, p) : ~Calls(d, name)
  BY DEF ItemsAreFound, TreesAreCounted
<1> DEFINE m == EnclosingModule(f, p)
           sibling == IF m = 0 THEN None ELSE Named(f, m, name)
           own == Named(f, 0, name)
           included == ResolveIncludes(f, name, {f})
           imported == ResolveImports(f, name)
           found == ResolveInFile(f, p, name)
           around == Gives(f, m)
           spliced == UNION {Gives(g, 0) : g \in IncludeClosure(f)}
           members(imp) == UNION {GivesExported(e[1], e[2]) : e \in Places(f, imp)}
           brought == UNION {members(imp) : imp \in ToSet(ws[f].imports)}
<1>1. found = IF sibling # None THEN sibling
              ELSE IF own # None THEN own
              ELSE IF included # None THEN included ELSE imported
  BY DEF ResolveInFile, OrElse
<1>2. Reach(f, p) = around \cup spliced \cup brought
  BY DEF Reach
<1>3. f \in IncludeClosure(f) /\ IncludeClosure(f) \in SUBSET Files
  BY ClosureHolds
<1>4. /\ sibling # None => \E d \in around : Calls(d, name) /\ sibling = d
      /\ sibling = None /\ own = None => \A d \in around : ~Calls(d, name)
      /\ own # None => \E d \in spliced : Calls(d, name) /\ own = d
  <2>1. /\ own # None => \E d \in Gives(f, 0) : Calls(d, name) /\ own = d
        /\ own = None => \A d \in Gives(f, 0) : ~Calls(d, name)
    BY NamedFinds
  <2>2. m # 0 => /\ sibling # None => \E d \in around : Calls(d, name) /\ sibling = d
                 /\ sibling = None => \A d \in around : ~Calls(d, name)
    BY NamedFinds
  <2>3. Gives(f, 0) \subseteq spliced
    BY <1>3
  <2> HIDE DEF own, spliced, m
  <2> QED BY <2>1, <2>2, <2>3
<1>5. ASSUME included # None
      PROVE  \E d \in spliced : Calls(d, name) /\ included = d
  <2> DEFINE S == IncludeClosure(f)
  <2>1. S \in SUBSET Files /\ f \in S /\ \A h \in S : IncludesOf(h) \subseteq S
    BY ClosureHolds
  <2>2. {f} \in SUBSET Files
    OBVIOUS
  <2> HIDE DEF S
  <2>3. PICK g \in S : included = Named(g, 0, name)
    BY <1>5, <2>1, <2>2, SearchStaysInside
  <2>4. \E d \in Gives(g, 0) : Calls(d, name) /\ included = d
    <3> HIDE DEF included
    <3> QED BY <1>5, <2>1, <2>3, NamedFinds
  <2>5. Gives(g, 0) \subseteq spliced
    BY <2>3 DEF S
  <2> HIDE DEF spliced, included
  <2> QED BY <2>4, <2>5
<1>6. ASSUME own = None, included = None, NEW d \in spliced
      PROVE  ~Calls(d, name)
  <2>1. PICK g \in IncludeClosure(f) : d \in Gives(g, 0)
    OBVIOUS
  <2>2. g = f \/ g \in Within(f, {f})
    BY ClosureHolds
  <2>3. {f} \in SUBSET Files /\ g \in Files
    BY <1>3
  <2>4. g \in Within(f, {f}) => Named(g, 0, name) = None
    BY <1>6, <2>3, SearchMissesNothing
  <2> QED BY <1>6, <2>1, <2>2, <2>3, <2>4, NamedFinds
<1>7. /\ imported # None => \E d \in brought : Calls(d, name) /\ imported = d
      /\ imported = None => \A d \in brought : ~Calls(d, name)
  <2>1. ASSUME NEW imp \in ToSet(ws[f].imports)
        PROVE  /\ ResolveOneImport(f, imp, name) # None =>
                    \E d \in members(imp) : Calls(d, name) /\ ResolveOneImport(f, imp, name) = d
               /\ ResolveOneImport(f, imp, name) = None => \A d \in members(imp) : ~Calls(d, name)
    BY PlainImportFinds DEF PlainImports
  <2>2. /\ imported # None <=> \E imp \in ToSet(ws[f].imports) : ResolveOneImport(f, imp, name) # None
        /\ imported # None => \E imp \in ToSet(ws[f].imports) : imported = ResolveOneImport(f, imp, name)
    BY ResolveImportsIs
  <2> HIDE DEF members, imported
  <2> QED BY <2>1, <2>2
<1> HIDE DEF m, sibling, own, included, imported, found, around, spliced, brought
<1> QED BY <1>1, <1>2, <1>4, <1>5, <1>6, <1>7 DEF found

(***************************************************************************)
(* What a rename leaves as it was: all but the texts at the edits and the  *)
(* names declared there.                                                   *)
(***************************************************************************)
Renames(edits, new) ==
  /\ DOMAIN ws' = DOMAIN ws
  /\ \A g \in Files :
       /\ ws'[g].role = ws[g].role /\ ws'[g].scopes = ws[g].scopes
       /\ ws'[g].imports = ws[g].imports /\ ws'[g].includes = ws[g].includes
       /\ DOMAIN ws'[g].text = DOMAIN ws[g].text
       /\ \A q \in DOMAIN ws[g].text :
            ws'[g].text[q] = IF <<g, q>> \in edits THEN new ELSE ws[g].text[q]
       /\ DOMAIN trees'[g] = DOMAIN trees[g]
       /\ \A i \in DOMAIN trees[g] :
            LET before == trees[g][i]
                after == trees'[g][i]
            IN /\ after.kind = before.kind /\ after.at = before.at /\ after.parent = before.parent
               /\ after.from = before.from /\ after.to = before.to /\ after.exported = before.exported
               /\ after.name = IF before.kind # "constructor" /\ <<g, before.at>> \in edits
                               THEN new ELSE before.name

LEMMA ApplyRenames ==
  ASSUME TypeOK, NEW edits, NEW new \in STRING,
         ws' = Apply(edits, new), trees' = [g \in DOMAIN ws |-> ItemTree(g)']
  PROVE  Renames(edits, new)
<1>0. WellFormed(ws) /\ trees = [g \in Files |-> ItemTree(g)]
  BY DEF TypeOK, Files
<1>1. DOMAIN ws' = DOMAIN ws
  BY DEF Apply
<1> SUFFICES ASSUME NEW g \in Files
             PROVE  /\ ws'[g].role = ws[g].role /\ ws'[g].scopes = ws[g].scopes
                    /\ ws'[g].imports = ws[g].imports /\ ws'[g].includes = ws[g].includes
                    /\ DOMAIN ws'[g].text = DOMAIN ws[g].text
                    /\ \A q \in DOMAIN ws[g].text :
                         ws'[g].text[q] = IF <<g, q>> \in edits THEN new ELSE ws[g].text[q]
                    /\ DOMAIN trees'[g] = DOMAIN trees[g]
                    /\ \A i \in DOMAIN trees[g] :
                         LET before == trees[g][i]
                             after == trees'[g][i]
                         IN /\ after.kind = before.kind /\ after.at = before.at /\ after.parent = before.parent
                            /\ after.from = before.from /\ after.to = before.to /\ after.exported = before.exported
                            /\ after.name = IF before.kind # "constructor" /\ <<g, before.at>> \in edits
                                            THEN new ELSE before.name
  BY <1>1 DEF Renames
<1> DEFINE text == [q \in DOMAIN ws[g].text |-> IF <<g, q>> \in edits THEN new ELSE ws[g].text[q]]
<1>2. ws'[g] = [text |-> text, role |-> ws[g].role, decls |-> ws[g].decls,
                scopes |-> ws[g].scopes, imports |-> ws[g].imports, includes |-> ws[g].includes]
  <2>1. ws[g] = [text |-> ws[g].text, role |-> ws[g].role, decls |-> ws[g].decls,
                 scopes |-> ws[g].scopes, imports |-> ws[g].imports, includes |-> ws[g].includes]
    BY <1>0 DEF WellFormed, Files
  <2>2. ws'[g] = [ws[g] EXCEPT !.text = text]
    BY DEF Apply, Files
  <2> HIDE DEF text
  <2> QED BY <2>1, <2>2
<1> HIDE DEF text
<1>3. /\ ws'[g].text = text /\ ws'[g].role = ws[g].role /\ ws'[g].scopes = ws[g].scopes
      /\ ws'[g].imports = ws[g].imports /\ ws'[g].includes = ws[g].includes /\ ws'[g].decls = ws[g].decls
  BY <1>2
<1>4. trees[g] = ItemTree(g) /\ trees'[g] = ItemTree(g)'
  BY <1>0 DEF Files
<1> DEFINE items == {k \in DOMAIN ws[g].decls : ws[g].decls[k].kind # "export_list"}
<1>5. DOMAIN trees[g] = items /\ DOMAIN trees'[g] = items
  BY <1>3, <1>4 DEF ItemTree
<1>6. ASSUME NEW i \in items
      PROVE  LET before == trees[g][i]
                 after == trees'[g][i]
             IN /\ after.kind = before.kind /\ after.at = before.at /\ after.parent = before.parent
                /\ after.from = before.from /\ after.to = before.to /\ after.exported = before.exported
                /\ after.name = IF before.kind # "constructor" /\ <<g, before.at>> \in edits
                                THEN new ELSE before.name
  <2> DEFINE d == ws[g].decls[i]
  <2>1. trees[g][i] = PushItem(g, i) /\ trees'[g][i] = PushItem(g, i)'
    BY <1>3, <1>4 DEF ItemTree
  <2>2. d.at \in DOMAIN ws[g].text
    <3> DEFINE D == [kind : STRING, at : DOMAIN ws[g].text, from : DOMAIN ws[g].text, to : DOMAIN ws[g].text,
                     exported : BOOLEAN, parent : Nat]
    <3>1. ws[g].decls \in Seq(D)
      BY <1>0 DEF WellFormed, Files
    <3>2. \A r \in D : r.at \in DOMAIN ws[g].text
      OBVIOUS
    <3> HIDE DEF D
    <3> QED BY <3>1, <3>2
  <2>3. text[d.at] = IF <<g, d.at>> \in edits THEN new ELSE ws[g].text[d.at]
    BY <2>2 DEF text
  <2> HIDE DEF d
  <2>4. /\ PushItem(g, i).name = IF d.kind = "constructor" THEN "constructor" ELSE ws[g].text[d.at]
        /\ PushItem(g, i).kind = d.kind /\ PushItem(g, i).at = d.at /\ PushItem(g, i).from = d.from
        /\ PushItem(g, i).to = d.to /\ PushItem(g, i).parent = d.parent
        /\ PushItem(g, i).exported = IF d.parent # 0 /\ ws[g].decls[d.parent].kind \in Brings
                                     THEN ws[g].decls[d.parent].exported ELSE d.exported
    BY DEF PushItem, d
  <2>5. /\ PushItem(g, i)'.name = IF d.kind = "constructor" THEN "constructor" ELSE text[d.at]
        /\ PushItem(g, i)'.kind = d.kind /\ PushItem(g, i)'.at = d.at /\ PushItem(g, i)'.from = d.from
        /\ PushItem(g, i)'.to = d.to /\ PushItem(g, i)'.parent = d.parent
        /\ PushItem(g, i)'.exported = IF d.parent # 0 /\ ws[g].decls[d.parent].kind \in Brings
                                      THEN ws[g].decls[d.parent].exported ELSE d.exported
    BY <1>3 DEF PushItem, d
  <2> QED BY <2>1, <2>3, <2>4, <2>5
<1>7. /\ DOMAIN text = DOMAIN ws[g].text
      /\ \A q \in DOMAIN ws[g].text : text[q] = IF <<g, q>> \in edits THEN new ELSE ws[g].text[q]
  BY DEF text
<1> HIDE DEF items
<1> QED BY <1>3, <1>5, <1>6, <1>7

LEMMA ScopesStay ==
  ASSUME NEW edits, NEW new, Renames(edits, new), NEW g \in Files, NEW q
  PROVE  /\ ScopeBindingsAt(g, q)' = ScopeBindingsAt(g, q)
         /\ \A b : Binding(g, b)' = Binding(g, b) /\ Bound(g, b)' = Bound(g, b)
         /\ EnclosingModule(g, q)' = EnclosingModule(g, q)
<1>1. ws'[g].scopes = ws[g].scopes
  BY DEF Renames
<1>2. /\ ScopeBindingsAt(g, q)' = ScopeBindingsAt(g, q)
      /\ \A b : Binding(g, b)' = Binding(g, b) /\ Bound(g, b)' = Bound(g, b)
  BY <1>1 DEF ScopeBindingsAt, ScopeBindings, Binding, Bound
<1>3. {i \in DOMAIN trees'[g] : trees'[g][i].kind = "module" /\ q \in trees'[g][i].from..trees'[g][i].to}
        = {i \in DOMAIN trees[g] : trees[g][i].kind = "module" /\ q \in trees[g][i].from..trees[g][i].to}
  <2>1. /\ DOMAIN trees'[g] = DOMAIN trees[g]
        /\ \A i \in DOMAIN trees[g] : /\ trees'[g][i].kind = trees[g][i].kind
                                      /\ trees'[g][i].from = trees[g][i].from /\ trees'[g][i].to = trees[g][i].to
    BY DEF Renames
  <2> QED BY <2>1
<1> QED BY <1>2, <1>3 DEF EnclosingModule

LEMMA ReachStays ==
  ASSUME WellFormed(ws), \A g \in Files : DOMAIN trees[g] \subseteq Nat,
         NEW edits, NEW new, Renames(edits, new),
         \A g \in Files : \A i \in DOMAIN trees[g] :
           trees[g][i].kind = "module" => trees'[g][i].name = trees[g][i].name,
         \A g \in Files : \A imp \in ToSet(ws[g].imports) :
           imp.at # 0 => ws'[g].text[imp.at] = ws[g].text[imp.at],
         NEW f \in Files, NEW q
  PROVE  Reach(f, q)' = Reach(f, q)
<1>1. ASSUME NEW g \in Files
      PROVE  /\ \A parent : /\ ChildrenOf(g, parent)' = ChildrenOf(g, parent)
                            /\ Gives(g, parent)' = Gives(g, parent)
                            /\ GivesExported(g, parent)' = GivesExported(g, parent)
             /\ \A name : ModuleIn(g, name)' = ModuleIn(g, name)
             /\ SingleTopLevelModule(g)' = SingleTopLevelModule(g)
             /\ IncludesOf(g)' = IncludesOf(g)
  <2>1. /\ DOMAIN trees'[g] = DOMAIN trees[g]
        /\ \A i \in DOMAIN trees[g] :
             /\ trees'[g][i].kind = trees[g][i].kind /\ trees'[g][i].parent = trees[g][i].parent
             /\ trees'[g][i].exported = trees[g][i].exported
        /\ ws'[g].includes = ws[g].includes
    BY DEF Renames
  <2>2. \A parent : ChildrenOf(g, parent)' = ChildrenOf(g, parent) /\ ChildrenOf(g, parent) \subseteq DOMAIN trees[g]
    BY <2>1 DEF ChildrenOf
  <2>3. \A parent : Gives(g, parent)' = Gives(g, parent)
    BY <2>2 DEF Gives
  <2>4. ASSUME NEW parent
        PROVE  GivesExported(g, parent)' = GivesExported(g, parent)
    <3>1. {i \in ChildrenOf(g, parent)' : trees'[g][i].exported} = {i \in ChildrenOf(g, parent) : trees[g][i].exported}
      BY <2>1, <2>2
    <3> QED BY <3>1 DEF GivesExported
  <2>5. ASSUME NEW name
        PROVE  ModuleIn(g, name)' = ModuleIn(g, name)
    <3>1. {i \in ChildrenOf(g, 0)' : trees'[g][i].kind = "module" /\ trees'[g][i].name = name}
            = {i \in ChildrenOf(g, 0) : trees[g][i].kind = "module" /\ trees[g][i].name = name}
      BY <2>1, <2>2
    <3> QED BY <3>1 DEF ModuleIn, FirstItem
  <2>6. SingleTopLevelModule(g)' = SingleTopLevelModule(g)
    <3>1. (\A i \in ChildrenOf(g, 0)' : trees'[g][i].kind = "module")
            <=> \A i \in ChildrenOf(g, 0) : trees[g][i].kind = "module"
      BY <2>1, <2>2
    <3> QED BY <2>2, <3>1 DEF SingleTopLevelModule
  <2>7. IncludesOf(g)' = IncludesOf(g)
    BY <2>1 DEF IncludesOf
  <2> QED BY <2>2, <2>3, <2>4, <2>5, <2>6, <2>7
<1>2. DOMAIN ws' = DOMAIN ws /\ ws'[f].imports = ws[f].imports
  BY DEF Renames
<1>3. IncludeClosure(f)' = IncludeClosure(f) /\ IncludeClosure(f) \subseteq Files
  <2>1. \A S \in SUBSET Files : (\A h \in S : IncludesOf(h)' \subseteq S) <=> \A h \in S : IncludesOf(h) \subseteq S
    BY <1>1
  <2> QED BY <1>2, <2>1 DEF IncludeClosure, Files
<1>4. ASSUME NEW imp \in ToSet(ws[f].imports)
      PROVE  /\ Places(f, imp)' = Places(f, imp)
             /\ \A m \in Places(f, imp) : m[1] \in Files
  <2>1. /\ IsStdlib(f, imp)' = IsStdlib(f, imp) /\ ExpectedModule(f, imp)' = ExpectedModule(f, imp)
        /\ (IF imp.at = 0 THEN None ELSE ModuleIn(f, ws[f].text[imp.at]))'
             = IF imp.at = 0 THEN None ELSE ModuleIn(f, ws[f].text[imp.at])
    BY <1>1 DEF IsStdlib, ExpectedModule
  <2>2. imp.target \in Files \cup {NoFile}
    BY ImportsAre
  <2> DEFINE t == imp.target
             m == SingleTopLevelModule(t)
  <2>3. ASSUME t # NoFile, m # 0
        PROVE  m' = m /\ trees'[t][m].name = trees[t][m].name
    <3>1. t \in Files
      BY <2>2, <2>3
    <3> DEFINE tops == ChildrenOf(t, 0)
    <3>2. m = Least(tops) /\ Cardinality(tops) = 1 /\ \A i \in tops : trees[t][i].kind = "module"
      BY <2>3 DEF SingleTopLevelModule
    <3>3. tops # {} /\ tops \in SUBSET Nat /\ tops \subseteq DOMAIN trees[t]
      <4>1. tops \subseteq DOMAIN trees[t] /\ DOMAIN trees[t] \subseteq Nat
        BY <3>1 DEF ChildrenOf
      <4>2. tops # {}
        <5>1. Cardinality({}) = 0
          BY FS_EmptySet
        <5>2. Cardinality(tops) = 1
          BY <3>2
        <5> HIDE DEF tops
        <5> QED BY <5>1, <5>2
      <4> QED BY <4>1, <4>2
    <3>4. m \in tops
      <4> HIDE DEF tops, m
      <4> QED BY <3>2, <3>3, LeastHolds
    <3> QED BY <1>1, <3>1, <3>2, <3>3, <3>4
  <2>4. ImportedModule(f, imp)' = ImportedModule(f, imp)
    <3>1. t # NoFile => SingleTopLevelModule(t)' = SingleTopLevelModule(t)
      BY <1>1, <2>2
    <3> QED BY <2>1, <2>3, <3>1 DEF ImportedModule
  <2>5. \A e \in ImportedModule(f, imp) : e[1] \in Files
    BY <2>2 DEF ImportedModule
  <2>6. Stdlib \in Files
    BY DEF WellFormed, Files
  <2> QED BY <2>1, <2>4, <2>5, <2>6 DEF Places
<1>5. Gives(f, EnclosingModule(f, q))' = Gives(f, EnclosingModule(f, q))
  BY <1>1, ScopesStay DEF Gives
<1>6. (UNION {Gives(g, 0) : g \in IncludeClosure(f)})' = UNION {Gives(g, 0) : g \in IncludeClosure(f)}
  BY <1>1, <1>3
<1>7. (UNION {UNION {GivesExported(m[1], m[2]) : m \in Places(f, imp)} : imp \in ToSet(ws[f].imports)})'
        = UNION {UNION {GivesExported(m[1], m[2]) : m \in Places(f, imp)} : imp \in ToSet(ws[f].imports)}
  <2>1. ToSet(ws[f].imports)' = ToSet(ws[f].imports)
    BY <1>2 DEF ToSet
  <2>2. ASSUME NEW imp \in ToSet(ws[f].imports)
        PROVE  (UNION {GivesExported(m[1], m[2]) : m \in Places(f, imp)})'
                 = UNION {GivesExported(m[1], m[2]) : m \in Places(f, imp)}
    BY <1>1, <1>4
  <2> QED BY <2>1, <2>2
<1> QED BY <1>5, <1>6, <1>7 DEF Reach
LEMMA FoundAfter == (WellFormed(ws) => LocalsAreFound)' /\ (WellFormed(ws) /\ TreesAreCounted => ItemsAreFound)'
BY LocalFound, InFileFound, PTL

LEMMA TreesAreSequenced ==
  ASSUME TypeOK
  PROVE  TreesAreCounted
<1> SUFFICES ASSUME NEW f \in Files PROVE DOMAIN trees[f] \subseteq Nat
  BY DEF TreesAreCounted
<1>1. WellFormed(ws) /\ trees[f] = ItemTree(f)
  BY DEF TypeOK, Files
<1>2. \E D : ws[f].decls \in Seq(D)
  BY <1>1 DEF WellFormed, Files
<1>3. DOMAIN ws[f].decls \subseteq Nat
  BY <1>2
<1> QED BY <1>1, <1>3 DEF ItemTree

LEMMA ReachedAreItems ==
  ASSUME WellFormed(ws), TreesAreCounted, NEW f \in Files, NEW p, NEW d \in Reach(f, p)
  PROVE  \E g \in Files : \E i \in DOMAIN trees[g] : d = Item(g, i)
<1>1. \A g, parent : \A e \in Gives(g, parent) \cup GivesExported(g, parent) :
        \E i \in DOMAIN trees[g] : e = Item(g, i)
  BY DEF Gives, GivesExported, ChildrenOf
<1>2. IncludeClosure(f) \subseteq Files
  BY DEF IncludeClosure, Files
<1>3. \A imp \in ToSet(ws[f].imports) : \A m \in Places(f, imp) : m[1] \in Files
  <2> SUFFICES ASSUME NEW imp \in ToSet(ws[f].imports) PROVE \A m \in Places(f, imp) : m[1] \in Files
    OBVIOUS
  <2>1. imp.target \in Files \cup {NoFile} /\ Stdlib \in Files
    BY ImportsAre DEF WellFormed, Files
  <2> QED BY <2>1 DEF Places, ImportedModule
<1> QED BY <1>1, <1>2, <1>3 DEF Reach

(* The name of a declared item stands at one token, which resolves to it. *)
LEMMA DeclaredOnce ==
  ASSUME TypeOK, NEW h \in Files, NEW i \in DOMAIN trees[h], trees[h][i].kind # "constructor"
  PROVE  /\ ws[h].role[trees[h][i].at].as = "declaration" /\ trees[h][i].at \in Tokens(h)
         /\ ws[h].text[trees[h][i].at] = trees[h][i].name
         /\ Resolve(h, trees[h][i].at) = Item(h, i)
<1>0. WellFormed(ws) /\ trees[h] = ItemTree(h) /\ DOMAIN trees[h] \subseteq Nat
  BY TreesAreSequenced DEF TypeOK, Files, TreesAreCounted
<1> DEFINE items == {k \in DOMAIN ws[h].decls : ws[h].decls[k].kind # "export_list"}
           at == trees[h][i].at
<1>1. /\ DOMAIN trees[h] = items
      /\ \A k \in items : trees[h][k].at = ws[h].decls[k].at /\ trees[h][k].kind = ws[h].decls[k].kind
      /\ \A k \in items : trees[h][k].kind # "constructor" => trees[h][k].name = ws[h].text[trees[h][k].at]
  <2>1. DOMAIN trees[h] = items /\ \A k \in items : trees[h][k] = PushItem(h, k)
    BY <1>0 DEF ItemTree
  <2>2. \A k : /\ PushItem(h, k).at = ws[h].decls[k].at /\ PushItem(h, k).kind = ws[h].decls[k].kind
               /\ PushItem(h, k).name = IF ws[h].decls[k].kind = "constructor" THEN "constructor"
                                        ELSE ws[h].text[ws[h].decls[k].at]
    BY DEF PushItem
  <2> HIDE DEF items
  <2> QED BY <2>1, <2>2
<1>2. /\ ws[h].role[at].as = "declaration"
      /\ \A j \in items : trees[h][j].at = at => j = i
  <2>1. OnePart(ws[h])
    BY <1>0 DEF WellFormed, Files
  <2> QED BY <1>1, <2>1 DEF OnePart
<1>3. at \in Tokens(h)
  <2> DEFINE D == [kind : STRING, at : DOMAIN ws[h].text, from : DOMAIN ws[h].text, to : DOMAIN ws[h].text,
                   exported : BOOLEAN, parent : Nat]
  <2>1. ws[h].decls \in Seq(D)
    BY <1>0 DEF WellFormed, Files
  <2>2. \A r \in D : r.at \in DOMAIN ws[h].text
    OBVIOUS
  <2> HIDE DEF D
  <2> QED BY <1>1, <2>1, <2>2 DEF Tokens
<1>4. Resolve(h, at) = Item(h, i)
  <2> DEFINE hits == {k \in DOMAIN trees[h] : trees[h][k].at = at}
  <2>1. hits = {i}
    BY <1>1, <1>2
  <2>2. Least({i}) = i
    BY <1>0, LeastHolds
  <2>3. ItemDeclarationAt(h, at) = Item(h, i)
    <3>1. ItemDeclarationAt(h, at) = FirstItem(h, hits)
      BY DEF ItemDeclarationAt
    <3> HIDE DEF hits
    <3> QED BY <2>1, <2>2, <3>1 DEF FirstItem
  <2>4. Resolve(h, at) = ItemDeclarationAt(h, at)
    BY <1>2 DEF Resolve
  <2> QED BY <2>3, <2>4
<1> QED BY <1>1, <1>2, <1>3, <1>4

(* The search of a file finds items only. *)
LEMMA InFileIsItem ==
  ASSUME WellFormed(ws), NEW f \in Files, NEW p, NEW name, ResolveInFile(f, p, name) # None
  PROVE  ResolveInFile(f, p, name).tag = "item"
<1> DEFINE m == EnclosingModule(f, p)
           included == ResolveIncludes(f, name, {f})
           imported == ResolveImports(f, name)
<1>1. \A g, parent, n : /\ Named(g, parent, n) # None => Named(g, parent, n).tag = "item"
                        /\ Exported(g, parent, n) # None => Exported(g, parent, n).tag = "item"
  BY NamedIs
<1>2. included # None => included.tag = "item"
  <2> DEFINE S == IncludeClosure(f)
  <2>1. S \in SUBSET Files /\ f \in S /\ (\A h \in S : IncludesOf(h) \subseteq S) /\ {f} \in SUBSET Files
    BY ClosureHolds
  <2> HIDE DEF S
  <2>2. included # None => \E g \in S : included = Named(g, 0, name)
    BY <2>1, SearchStaysInside
  <2> QED BY <1>1, <2>2
<1>3. imported # None => imported.tag = "item"
  <2>1. \A imp : ResolveOneImport(f, imp, name) # None => ResolveOneImport(f, imp, name).tag = "item"
    BY <1>1 DEF ResolveOneImport, ResolveExternalModuleMember
  <2>2. imported # None => \E imp \in ToSet(ws[f].imports) : imported = ResolveOneImport(f, imp, name)
    BY ResolveImportsIs
  <2> QED BY <2>1, <2>2
<1> QED BY <1>1, <1>2, <1>3 DEF ResolveInFile, OrElse

(* What a token that means something means, by its part in the syntax. *)
LEMMA ResolvedIs ==
  ASSUME TypeOK, NEW f \in Files, NEW p \in Tokens(f), NEW def, def = Resolve(f, p), def # None
  PROVE  LET as == ws[f].role[p].as
         IN  \/ as \in {"pattern", "for", "generic"} /\ def.tag = "local" /\ def.file = f /\ def.at = p
             \/ as = "declaration" /\ def.tag = "item" /\ \E i \in DOMAIN trees[f] : def = Item(f, i)
             \/ as \in {"name", "type", "shorthand"} /\ def = ResolveNameAt(f, p, ws[f].text[p])
             \/ as \in {"field init", "member"} /\ def.tag = "item"
                  /\ trees[def.file][def.index].kind \in {"field", "variant"}
             \/ as = "specifier" /\ def.tag = "item"
                  /\ \E imp \in ToSet(ws[f].imports) : imp.specs # <<>>
<1>0. WellFormed(ws) /\ TreesAreCounted
  BY TreesAreSequenced DEF TypeOK
<1> DEFINE as == ws[f].role[p].as
           name == ws[f].text[p]
<1>1. \A g \in Files : \A hits \in SUBSET DOMAIN trees[g] :
        FirstItem(g, hits) # None => \E i \in hits : FirstItem(g, hits) = Item(g, i)
  BY <1>0, LeastHolds DEF FirstItem, TreesAreCounted
<1>2. ASSUME NEW d, d = None \/ d.file \in Files, NEW kind, MemberOf(d, kind, name) # None
      PROVE  LET e == MemberOf(d, kind, name) IN e.tag = "item" /\ trees[e.file][e.index].kind = kind
  <2> DEFINE hits == {i \in ChildrenOf(d.file, d.index) : trees[d.file][i].kind = kind /\ trees[d.file][i].name = name}
  <2>1. MemberOf(d, kind, name) = FirstItem(d.file, hits) /\ d.file \in Files
    BY <1>2, DefinitionsAreNotNone DEF MemberOf
  <2>2. hits \in SUBSET DOMAIN trees[d.file] /\ \A i \in hits : trees[d.file][i].kind = kind
    BY DEF ChildrenOf
  <2> HIDE DEF hits
  <2>3. PICK i \in hits : MemberOf(d, kind, name) = Item(d.file, i)
    BY <1>1, <1>2, <2>1, <2>2
  <2> QED BY <2>2, <2>3, ItemsAre, DefinitionsAreNotNone
<1>3. \A q, n : ResolveNameAt(f, q, n) = None \/ ResolveNameAt(f, q, n).file \in Files
  BY <1>0, StdlibStandsAlone, NamesStayInside
<1>4. CASE as = "pattern"
  BY <1>4, DefinitionsAreNotNone DEF Resolve, Local
<1>5. CASE as \in {"for", "generic"}
  BY <1>5, DefinitionsAreNotNone DEF Resolve, Local
<1>6. CASE as = "declaration"
  <2> DEFINE hits == {i \in DOMAIN trees[f] : trees[f][i].at = p}
  <2>1. def = FirstItem(f, hits) /\ hits \in SUBSET DOMAIN trees[f]
    BY <1>6 DEF Resolve, ItemDeclarationAt
  <2> HIDE DEF hits
  <2> QED BY <1>1, <1>6, <2>1, DefinitionsAreNotNone
<1>7. CASE as \in {"name", "type", "shorthand"}
  BY <1>7 DEF Resolve
<1>8. CASE as = "field init"
  <2>1. def = ResolveStructLiteralField(f, p, name)
    BY <1>8 DEF Resolve
  <2>2. PICK d : def = MemberOf(d, "field", name) /\ (d = None \/ d.file \in Files)
    BY <1>3, <2>1 DEF ResolveStructLiteralField
  <2>3. def.tag = "item" /\ trees[def.file][def.index].kind = "field"
    BY <1>2, <2>2
  <2> QED BY <1>8, <2>3
<1>9. CASE as = "member"
  <2>1. def = ResolveMember(f, p, name)
    BY <1>9 DEF Resolve
  <2>2. \E d : def = MemberOf(d, "variant", name) /\ (d = None \/ d.file \in Files)
    BY <1>3, <2>1 DEF ResolveMember
  <2>3. def.tag = "item" /\ trees[def.file][def.index].kind = "variant"
    BY <1>2, <2>2
  <2> QED BY <1>9, <2>3
<1>10. CASE as = "specifier"
  <2> DEFINE imp == ws[f].imports[ws[f].role[p].of]
  <2>1. def = ResolveImportSpecifier(f, imp, p, name)
    BY <1>10 DEF Resolve
  <2>2. imp \in ToSet(ws[f].imports)
    <3> QED BY <1>0, <1>10 DEF WellFormed, Files, ToSet, Tokens
  <2> HIDE DEF imp
  <2>3. p \in {s.orig : s \in ToSet(imp.specs)}
    BY <2>1 DEF ResolveImportSpecifier
  <2>4. imp.specs # <<>>
    BY <2>3 DEF ToSet
  <2>5. def.tag = "item"
    BY <2>1, NamedIs DEF ResolveImportSpecifier
  <2> QED BY <1>10, <2>2, <2>4, <2>5
<1>11. CASE as \notin {"pattern", "for", "generic", "declaration", "name", "type", "shorthand", "field init",
                       "member", "specifier"}
  BY <1>11 DEF Resolve
<1> QED BY <1>4, <1>5, <1>6, <1>7, <1>8, <1>9, <1>10, <1>11

(* Resolution reads the files and their item trees, and nothing else. *)
LEMMA SameFilesSameMeaning ==
  ASSUME ws' = ws, trees' = trees, NEW f, NEW p
  PROVE  Resolve(f, p)' = Resolve(f, p)
<1>1. \A g, parent : ChildrenOf(g, parent)' = ChildrenOf(g, parent)
  BY DEF ChildrenOf
<1>2. \A g, parent, n : Named(g, parent, n)' = Named(g, parent, n) /\ Exported(g, parent, n)' = Exported(g, parent, n)
  BY <1>1 DEF Named, Exported, FirstItem
<1>3. \A g, n : ModuleIn(g, n)' = ModuleIn(g, n)
  BY <1>1 DEF ModuleIn, FirstItem
<1>4. \A g : SingleTopLevelModule(g)' = SingleTopLevelModule(g)
  BY <1>1 DEF SingleTopLevelModule
<1>5. \A g, q, n : ResolveLocalName(g, q, n)' = ResolveLocalName(g, q, n)
  BY DEF ResolveLocalName, ScopeBindingsAt, ScopeBindings, BindingName, Binding, Bound, Nearer
<1>6. ASSUME NEW g, NEW n, NEW on
      PROVE  ResolveIncludes(g, n, on)' = ResolveIncludes(g, n, on)
  <2> DEFINE Searches(s) == [path \in SUBSET Files |-> [h \in Files |-> Enter(n, s, path, h)]]
  <2>1. \A s : \A path, h : Enter(n, s, path, h)' = Enter(n, s, path, h)
    BY <1>2 DEF Enter
  <2>2. \A s : Searches(s)' = Searches(s)
    BY <2>1 DEF Files
  <2>3. ResolveIncludes(g, n, on) = (CHOOSE s : s = Searches(s))[on][g]
    BY DEF ResolveIncludes, Enter, Files
  <2>4. ResolveIncludes(g, n, on)' = (CHOOSE s : s = Searches(s)')[on][g]
    BY DEF ResolveIncludes, Enter, Files
  <2> HIDE DEF Searches
  <2> QED BY <2>2, <2>3, <2>4
<1>7. \A g, imp, n : TargetName(g, imp, n)' = TargetName(g, imp, n)
  BY DEF TargetName, Specifiers
<1>8. \A g, imp : IsStdlib(g, imp)' = IsStdlib(g, imp) /\ ExpectedModule(g, imp)' = ExpectedModule(g, imp)
  BY DEF IsStdlib, ExpectedModule
<1>9. \A t, m, n : ResolveExternalModuleMember(t, m, n)' = ResolveExternalModuleMember(t, m, n)
  BY <1>2, <1>4 DEF ResolveExternalModuleMember
<1>10. \A g, imp, n : ResolveOneImport(g, imp, n)' = ResolveOneImport(g, imp, n)
  BY <1>2, <1>3, <1>7, <1>8, <1>9 DEF ResolveOneImport
<1>11. \A g, n : ResolveImports(g, n)' = ResolveImports(g, n)
  BY <1>10 DEF ResolveImports
<1>12. \A g, q : EnclosingModule(g, q)' = EnclosingModule(g, q)
  BY DEF EnclosingModule
<1>13. \A g, q, n : ResolveNameAt(g, q, n)' = ResolveNameAt(g, q, n)
  BY <1>2, <1>5, <1>6, <1>11, <1>12 DEF ResolveNameAt, ResolveInFile
<1>14. \A d, kind, n : MemberOf(d, kind, n)' = MemberOf(d, kind, n)
  BY <1>1 DEF MemberOf, FirstItem
<1>15. /\ ItemDeclarationAt(f, p)' = ItemDeclarationAt(f, p) /\ DetailForBinding(f, p)' = DetailForBinding(f, p)
       /\ \A n : /\ ResolveStructLiteralField(f, p, n)' = ResolveStructLiteralField(f, p, n)
                 /\ ResolveMember(f, p, n)' = ResolveMember(f, p, n)
                 /\ \A imp : ResolveImportSpecifier(f, imp, p, n)' = ResolveImportSpecifier(f, imp, p, n)
  BY <1>2, <1>3, <1>8, <1>13, <1>14
     DEF ItemDeclarationAt, DetailForBinding, FirstItem, ResolveStructLiteralField, ResolveMember, ResolveImportSpecifier
<1> QED BY <1>13, <1>15 DEF Resolve

(* The rename of a local that is found at its own declaration, or of an item that is no module *)
(* and no member, where no import prefixes or selects.                                         *)
PlainRename(def, edits) ==
  IF def.tag = "local" THEN <<def.file, def.at>> \in edits
  ELSE /\ trees[def.file][def.index].kind \notin {"module", "constructor", "field", "variant"}
       /\ \A g \in Files : PlainImports(g)

\* The references of def are edits, and found to be free of conflicts.
Edited(def, edits, new) ==
  /\ \A e \in edits : e = <<e[1], e[2]>>
  /\ \A g, q : <<g, q>> \in edits =>
       /\ g \in Files /\ q \in Tokens(g) /\ ws[g].text[q] = DefName(def) /\ Resolve(g, q) = def
       /\ ResolveNameAt(g, q, new) \in {None, def} /\ (def.tag = "local" => g = def.file)
  /\ def # None
  /\ def.tag = "item" => \A q \in Tokens(def.file) :
       ws[def.file].text[q] = DefName(def) /\ Resolve(def.file, q) = def => <<def.file, q>> \in edits

LEMMA BindingsArePlaced ==
  ASSUME WellFormed(ws), NEW f \in Files, NEW p, NEW b \in ScopeBindingsAt(f, p)
  PROVE  /\ Binding(f, b).at \in Tokens(f)
         /\ ws[f].role[Binding(f, b).at].as \in {"pattern", "parameter", "for", "generic"}
         /\ \A q, c : c \in ScopeBindingsAt(f, q) /\ Binding(f, c).at = Binding(f, b).at => Bound(f, c) = Bound(f, b)
<1> DEFINE all == UNION {ToSet(s.binds) : s \in ToSet(ws[f].scopes)}
<1>1. \A q : \A c \in ScopeBindingsAt(f, q) : Binding(f, c) \in all
  <2> SUFFICES ASSUME NEW q, NEW c \in ScopeBindingsAt(f, q) PROVE Binding(f, c) \in all
    OBVIOUS
  <2>1. PICK i \in DOMAIN ws[f].scopes : c \in ScopeBindings(f, i, q)
    BY DEF ScopeBindingsAt
  <2>2. PICK k \in DOMAIN ws[f].scopes[i].binds : c = <<i, k>>
    BY <2>1 DEF ScopeBindings
  <2>3. Binding(f, c) = ws[f].scopes[i].binds[k]
    BY <2>2 DEF Binding
  <2> QED BY <2>3 DEF ToSet
<1>2. \A b1 \in all : b1.at \in Tokens(f)
  <2> DEFINE B == [at : DOMAIN ws[f].text, sees : Nat, detail : STRING]
             S == [kind : STRING, from : DOMAIN ws[f].text, to : DOMAIN ws[f].text, binds : Seq(B)]
  <2>1. ws[f].scopes \in Seq(S)
    BY DEF WellFormed, Files
  <2>2. \A s \in S : s.binds \in Seq(B)
    <3> HIDE DEF B
    <3> QED OBVIOUS
  <2>3. \A b1 \in B : b1.at \in DOMAIN ws[f].text
    OBVIOUS
  <2> HIDE DEF B, S
  <2>4. \A s \in ToSet(ws[f].scopes) : ToSet(s.binds) \subseteq B
    BY <2>1, <2>2 DEF ToSet
  <2> QED BY <2>3, <2>4 DEF Tokens
<1>3. OnePart(ws[f])
  BY DEF WellFormed, Files
<1>4. /\ \A b1 \in all : ws[f].role[b1.at].as \in {"pattern", "parameter", "for", "generic"}
      /\ \A b1, c1 \in all : b1.at = c1.at => b1 = c1
  BY <1>3 DEF OnePart
<1> HIDE DEF all
<1> QED BY <1>1, <1>2, <1>4 DEF Bound

LEMMA LocalKeeps ==
  ASSUME TypeOK, TypeOK', NEW def, NEW edits, NEW new, Edited(def, edits, new), Renames(edits, new),
         new # DefName(def), def.tag = "local", <<def.file, def.at>> \in edits,
         NEW f \in Files, NEW q \in Tokens(f), <<f, q>> \in edits,
         ws[f].role[q].as \in {"name", "type", "shorthand"}
  PROVE  ResolveNameAt(f, q, new)' = def
<1>0. WellFormed(ws) /\ WellFormed(ws)' /\ LocalsAreFound
  BY LocalFound DEF TypeOK
<1>1. /\ Resolve(f, q) = def /\ def # None /\ def.file = f /\ ResolveNameAt(f, q, new) \in {None, def}
      /\ ws[f].text[q] = DefName(def)
  BY DEF Edited
<1> DEFINE old == DefName(def)
<1>2. old = ws[f].text[def.at]
  BY <1>1 DEF DefName
<1>3. ResolveNameAt(f, q, old) = def
  BY <1>1 DEF Resolve
<1>4. \A n : ResolveInFile(f, q, n) # None => ResolveInFile(f, q, n) # def
  BY <1>0, InFileIsItem
<1>5. \A n : /\ ResolveNameAt(f, q, n) = def => ResolveLocalName(f, q, n) = def
             /\ ResolveNameAt(f, q, n) = None => ResolveLocalName(f, q, n) = None
  BY <1>1, <1>4 DEF ResolveNameAt, OrElse
<1>6. \A n : /\ BindingsOf(f, q, n) = {} => ResolveLocalName(f, q, n) = None
             /\ BindingsOf(f, q, n) # {} =>
                  \E b \in BindingsOf(f, q, n) : ResolveLocalName(f, q, n) = Bound(f, b)
  BY <1>0 DEF LocalsAreFound
<1>7. PICK b0 \in BindingsOf(f, q, old) : Bound(f, b0) = def
  BY <1>1, <1>3, <1>5, <1>6
<1>8. b0 \in ScopeBindingsAt(f, q) /\ Binding(f, b0).at = def.at
  BY <1>7 DEF BindingsOf, Bound, Local
<1>9. BindingsOf(f, q, new) = {}
  <2> SUFFICES ASSUME BindingsOf(f, q, new) # {} PROVE FALSE
    OBVIOUS
  <2>1. PICK b \in BindingsOf(f, q, new) : ResolveLocalName(f, q, new) = Bound(f, b)
    BY <1>6
  <2>2. Bound(f, b) = def
    BY <1>1, <1>5, <2>1, DefinitionsAreNotNone DEF Bound
  <2>3. ws[f].text[def.at] = new
    BY <2>2 DEF BindingsOf, BindingName, Bound, Local
  <2> QED BY <1>2, <2>3
<1>10. /\ ScopeBindingsAt(f, q)' = ScopeBindingsAt(f, q)
       /\ \A b : Binding(f, b)' = Binding(f, b) /\ Bound(f, b)' = Bound(f, b)
  BY ScopesStay
<1>11. ASSUME NEW b \in ScopeBindingsAt(f, q)
       PROVE  b \in BindingsOf(f, q, new)' <=> <<f, Binding(f, b).at>> \in edits
  <2>1. Binding(f, b).at \in DOMAIN ws[f].text
    BY <1>0, BindingsArePlaced DEF Tokens
  <2>2. ws[f].text[Binding(f, b).at] # new
    BY <1>9 DEF BindingsOf, BindingName
  <2>3. ws'[f].text[Binding(f, b).at] = IF <<f, Binding(f, b).at>> \in edits THEN new ELSE ws[f].text[Binding(f, b).at]
    BY <2>1 DEF Renames
  <2> QED BY <1>10, <2>2, <2>3 DEF BindingsOf, BindingName
<1>12. b0 \in BindingsOf(f, q, new)'
  BY <1>1, <1>8, <1>11
<1>13. ASSUME NEW b \in BindingsOf(f, q, new)'
       PROVE  Bound(f, b)' = def
  <2>1. b \in ScopeBindingsAt(f, q) /\ <<f, Binding(f, b).at>> \in edits
    BY <1>10, <1>11 DEF BindingsOf
  <2>2. Resolve(f, Binding(f, b).at) = def /\ Binding(f, b).at \in Tokens(f)
    BY <2>1 DEF Edited
  <2>3. ws[f].role[Binding(f, b).at].as \in {"pattern", "parameter", "for", "generic"}
    BY <1>0, <2>1, BindingsArePlaced
  <2>4. def.at = Binding(f, b).at
    <3> DEFINE as == ws[f].role[Binding(f, b).at].as
    <3>1. \/ as \in {"pattern", "for", "generic"} /\ def.at = Binding(f, b).at
          \/ as \in {"declaration", "name", "type", "shorthand", "field init", "member", "specifier"}
      BY <1>1, <2>2, ResolvedIs
    <3> QED BY <2>3, <3>1
  <2>5. Bound(f, b) = Bound(f, b0)
    BY <1>0, <1>8, <2>1, <2>4, BindingsArePlaced
  <2> QED BY <1>7, <1>10, <2>5
<1>14. LocalsAreFound' /\ f \in Files'
  <2>1. LocalsAreFound'
    BY <1>0, FoundAfter
  <2> QED BY <2>1 DEF Renames, Files
<1>15. ResolveLocalName(f, q, new)' = def
  <2>1. BindingsOf(f, q, new)' # {} => \E b \in BindingsOf(f, q, new)' : ResolveLocalName(f, q, new)' = Bound(f, b)'
    BY <1>14 DEF LocalsAreFound
  <2> QED BY <1>12, <1>13, <2>1
<1> QED BY <1>1, <1>15 DEF ResolveNameAt, OrElse

LEMMA ImportTokens ==
  ASSUME WellFormed(ws), NEW f \in Files, NEW imp \in ToSet(ws[f].imports)
  PROVE  imp.at \in Tokens(f) \cup {0}
<1> DEFINE I == [at : DOMAIN ws[f].text \cup {0}, path : STRING, prefixed : BOOLEAN,
                 specs : Seq([orig : DOMAIN ws[f].text, alias : DOMAIN ws[f].text \cup {0}]), target : Files \cup {NoFile}]
<1>1. ws[f].imports \in Seq(I)
  BY DEF WellFormed, Files
<1>2. \A i \in I : i.at \in DOMAIN ws[f].text \cup {0}
  OBVIOUS
<1> HIDE DEF I
<1> QED BY <1>1, <1>2 DEF ToSet, Tokens

(* A local is found in the file that it is in. *)
LEMMA ResolvedInFile ==
  ASSUME TypeOK, NEW f \in Files, NEW p \in Tokens(f), Resolve(f, p) # None, Resolve(f, p).tag = "local"
  PROVE  Resolve(f, p).file = f
<1> DEFINE def == Resolve(f, p)
           name == ws[f].text[p]
<1>1. WellFormed(ws)
  BY DEF TypeOK
<1>2. def.file = f \/ def = ResolveNameAt(f, p, name)
  <2> QED BY ResolvedIs
<1>3. ResolveLocalName(f, p, name) # None => ResolveLocalName(f, p, name).file = f
  BY LocalIs
<1>4. ResolveInFile(f, p, name) # None => ResolveInFile(f, p, name).tag = "item"
  BY <1>1, InFileIsItem
<1> QED BY <1>2, <1>3, <1>4 DEF ResolveNameAt, OrElse

(* What a name means at a position is a local or an item. *)
LEMMA MeantIs ==
  ASSUME WellFormed(ws), NEW f \in Files, NEW p, NEW name, ResolveNameAt(f, p, name) # None
  PROVE  ResolveNameAt(f, p, name).tag \in {"local", "item"}
<1>1. ResolveLocalName(f, p, name) # None => ResolveLocalName(f, p, name).tag = "local"
  BY LocalFound, DefinitionsAreNotNone DEF LocalsAreFound, Bound
<1> QED BY <1>1, InFileIsItem DEF ResolveNameAt, OrElse

LEMMA ItemKeeps ==
  ASSUME TypeOK, TypeOK', NEW def, NEW edits, NEW new, Edited(def, edits, new), Renames(edits, new),
         new # DefName(def), def.tag = "item", PlainRename(def, edits),
         NEW f \in Files, NEW q \in Tokens(f), <<f, q>> \in edits,
         ws[f].role[q].as \in {"name", "type", "shorthand"}
  PROVE  ResolveNameAt(f, q, new)' = def
<1>0. /\ WellFormed(ws) /\ WellFormed(ws)' /\ TreesAreCounted /\ LocalsAreFound /\ ItemsAreFound
      /\ \A g \in Files : PlainImports(g)
  BY TreesAreSequenced, LocalFound, InFileFound DEF TypeOK, PlainRename
<1>1. /\ Resolve(f, q) = def /\ def # None /\ ResolveNameAt(f, q, new) \in {None, def}
      /\ ws[f].text[q] = DefName(def)
  BY DEF Edited
<1> DEFINE old == DefName(def)
<1>2. ResolveNameAt(f, q, old) = def
  BY <1>1 DEF Resolve
<1>3. \A n : /\ BindingsOf(f, q, n) = {} => ResolveLocalName(f, q, n) = None
             /\ BindingsOf(f, q, n) # {} => ResolveLocalName(f, q, n).tag = "local" /\ ResolveLocalName(f, q, n) # None
  BY <1>0, DefinitionsAreNotNone DEF LocalsAreFound, Bound
<1>4. \A n : /\ ResolveNameAt(f, q, n) = def => ResolveInFile(f, q, n) = def
             /\ ResolveNameAt(f, q, n) = None => BindingsOf(f, q, n) = {} /\ ResolveInFile(f, q, n) = None
             /\ ResolveNameAt(f, q, n) \in {None, def} => BindingsOf(f, q, n) = {}
  BY <1>1, <1>3 DEF ResolveNameAt, OrElse
<1>5. \A n : /\ ResolveInFile(f, q, n) # None =>
                  \E d \in Reach(f, q) : Calls(d, n) /\ ResolveInFile(f, q, n) = d
             /\ ResolveInFile(f, q, n) = None => \A d \in Reach(f, q) : ~Calls(d, n)
  BY <1>0 DEF ItemsAreFound
<1>6. def \in Reach(f, q) /\ Calls(def, old)
  BY <1>1, <1>2, <1>4, <1>5
<1>7. BindingsOf(f, q, new) = {} /\ \A d \in Reach(f, q) : ~Calls(d, new)
  <2>1. ResolveInFile(f, q, new) # def
    BY <1>1, <1>5 DEF Calls, DefName
  <2> QED BY <1>1, <1>4, <1>5, <2>1
<1>8. PICK h \in Files : \E i \in DOMAIN trees[h] : def = Item(h, i)
  BY <1>0, <1>6, ReachedAreItems
<1>9. PICK i \in DOMAIN trees[h] : def = Item(h, i)
  BY <1>8
<1>10. /\ def.file = h /\ def.index = i /\ old = trees[h][i].name
       /\ trees[h][i].kind \notin {"module", "constructor", "field", "variant"}
  BY <1>9, ItemsAre DEF DefName, PlainRename
<1>11. <<h, trees[h][i].at>> \in edits
  BY <1>9, <1>10, DeclaredOnce DEF Edited
(* Nothing but def is renamed. *)
<1>12. ASSUME NEW g \in Files, NEW k \in DOMAIN trees[g], trees[g][k].kind # "constructor",
              <<g, trees[g][k].at>> \in edits
       PROVE  Item(g, k) = def
  <2>1. Resolve(g, trees[g][k].at) = def
    BY <1>12 DEF Edited
  <2> QED BY <1>12, <2>1, DeclaredOnce
<1>13. ASSUME NEW g, NEW t, <<g, t>> \in edits
       PROVE  ws[g].role[t].as \notin {"pattern", "parameter", "for", "generic", "import"}
  <2> DEFINE as == ws[g].role[t].as
  <2>1. g \in Files /\ t \in Tokens(g) /\ Resolve(g, t) = def
    BY <1>13 DEF Edited
  <2>2. \/ as \in {"pattern", "for", "generic"} /\ def.tag = "local"
        \/ as \in {"declaration", "name", "type", "shorthand", "field init", "member", "specifier"}
    BY <1>1, <2>1, ResolvedIs
  <2> QED BY <2>2
(* Afterwards. *)
<1>14. ASSUME BindingsOf(f, q, new)' # {}
       PROVE  FALSE
  <2>1. PICK b \in BindingsOf(f, q, new)' : TRUE
    BY <1>14
  <2>2. b \in ScopeBindingsAt(f, q) /\ ws'[f].text[Binding(f, b).at] = new
    BY <2>1, ScopesStay DEF BindingsOf, BindingName
  <2>3. Binding(f, b).at \in Tokens(f) /\ ws[f].text[Binding(f, b).at] # new
    BY <1>0, <1>7, <2>2, BindingsArePlaced DEF BindingsOf, BindingName
  <2>4. <<f, Binding(f, b).at>> \in edits
    BY <2>2, <2>3 DEF Renames, Tokens
  <2> QED BY <1>0, <1>13, <2>2, <2>4, BindingsArePlaced
<1>15. Reach(f, q)' = Reach(f, q)
  <2>1. \A g \in Files : \A k \in DOMAIN trees[g] :
          trees[g][k].kind = "module" => trees'[g][k].name = trees[g][k].name
    <3> SUFFICES ASSUME NEW g \in Files, NEW k \in DOMAIN trees[g], trees[g][k].kind = "module",
                        trees'[g][k].name # trees[g][k].name
                 PROVE  FALSE
      OBVIOUS
    <3>1. <<g, trees[g][k].at>> \in edits
      BY DEF Renames
    <3>2. Item(g, k) = def
      BY <1>12, <3>1
    <3> QED BY <1>10, <3>2, ItemsAre
  <2>2. \A g \in Files : \A imp \in ToSet(ws[g].imports) :
          imp.at # 0 => ws'[g].text[imp.at] = ws[g].text[imp.at]
    <3> SUFFICES ASSUME NEW g \in Files, NEW imp \in ToSet(ws[g].imports), imp.at # 0
                 PROVE  ws'[g].text[imp.at] = ws[g].text[imp.at]
      OBVIOUS
    <3>1. ws[g].role[imp.at].as = "import"
      BY <1>0 DEF WellFormed, Files, OnePart
    <3>2. imp.at \in DOMAIN ws[g].text
      BY <1>0, ImportTokens DEF Tokens
    <3>3. <<g, imp.at>> \notin edits
      BY <1>13, <3>1
    <3> QED BY <3>2, <3>3 DEF Renames
  <2> QED BY <1>0, <2>1, <2>2, ReachStays DEF TreesAreCounted
<1>16. ASSUME NEW d \in Reach(f, q)
       PROVE  Calls(d, new)' <=> d = def
  <2>1. PICK g \in Files : \E k \in DOMAIN trees[g] : d = Item(g, k)
    BY <1>0, ReachedAreItems
  <2>2. PICK k \in DOMAIN trees[g] : d = Item(g, k)
    BY <2>1
  <2>3. trees'[g][k].name = IF trees[g][k].kind # "constructor" /\ <<g, trees[g][k].at>> \in edits
                            THEN new ELSE trees[g][k].name
    BY DEF Renames
  <2>4. trees[g][k].name # new
    BY <1>7, <2>2, ItemsAre DEF Calls
  <2>5. Calls(d, new)' <=> trees'[g][k].name = new
    BY <2>2, ItemsAre DEF Calls
  <2>6. d = def => trees[g][k].kind # "constructor" /\ <<g, trees[g][k].at>> \in edits
    <3>1. d = def => g = h /\ k = i
      <4>1. /\ Item(g, k).file = g /\ Item(g, k).index = k
            /\ Item(h, i).file = h /\ Item(h, i).index = i
        BY ItemsAre
      <4> QED BY <1>9, <2>2, <4>1
    <3> QED BY <1>10, <1>11, <3>1
  <2> QED BY <1>12, <2>2, <2>3, <2>4, <2>5, <2>6
<1>17. LocalsAreFound' /\ ItemsAreFound' /\ f \in Files' /\ PlainImports(f)'
  <2>1. TreesAreCounted'
    BY <1>0 DEF Renames, TreesAreCounted, Files
  <2>2. LocalsAreFound' /\ ItemsAreFound'
    BY <1>0, <2>1, FoundAfter
  <2> QED BY <1>0, <2>2 DEF Renames, Files, PlainImports
<1>18. ResolveLocalName(f, q, new)' = None
  BY <1>14, <1>17 DEF LocalsAreFound
<1>19. ResolveInFile(f, q, new)' = def
  <2>1. /\ ResolveInFile(f, q, new)' # None =>
             \E d \in Reach(f, q)' : Calls(d, new)' /\ ResolveInFile(f, q, new)' = d
        /\ ResolveInFile(f, q, new)' = None => \A d \in Reach(f, q)' : ~Calls(d, new)'
    BY <1>17 DEF ItemsAreFound
  <2> QED BY <1>6, <1>15, <1>16, <2>1
<1> QED BY <1>18, <1>19 DEF ResolveNameAt, OrElse

(* Every token that a plain rename edits means what it meant before. *)
LEMMA RenamedSitesStay ==
  ASSUME TypeOK, TypeOK', NEW f \in Files, NEW p \in Tokens(f), NEW new \in NewNames, Rename(f, p, new),
         renamed'.outcome = "edited", PlainRename(renamed'.def, renamed'.edits)
  PROVE  \A e \in renamed'.edits : Resolve(e[1], e[2])' = renamed'.def
<1> DEFINE def == Resolve(f, p)
           edits == FindReferences(f, p)
           old == DefName(def)
<1>0. WellFormed(ws) /\ Indexed \subseteq Files /\ trees = [g \in Files |-> ItemTree(g)] /\ new \in STRING
  BY NamesAssumption DEF TypeOK, Files
<1>1. RenameOutcome(def, edits, new) = "edited"
  BY DEF Rename
<1>2. /\ ws' = Apply(edits, new) /\ trees' = [g \in DOMAIN ws |-> ItemTree(g)']
      /\ renamed'.def = def /\ renamed'.edits = edits
  BY <1>1 DEF Rename
<1>3. def # None /\ Conflicts(def, edits, new) = {}
  BY <1>1 DEF RenameOutcome
<1>4. Renames(edits, new)
  <2> HIDE DEF edits
  <2> QED BY <1>0, <1>2, ApplyRenames
<1>5. Edited(def, edits, new)
  <2> DEFINE At(g) == {<<g, q>> : q \in {q \in Tokens(g) : ws[g].text[q] = old /\ Resolve(g, q) = def}}
  <2>1. edits = UNION {At(g) : g \in SearchedFiles(def, f)}
    BY <1>3 DEF FindReferences
  <2>2. SearchedFiles(def, f) \subseteq Files /\ (def.tag # "local" => def.file \in SearchedFiles(def, f))
    <3>1. def.file \in Files
      BY <1>0, <1>3, StdlibStandsAlone, DefinitionsStayInside
    <3> QED BY <1>0, <3>1 DEF SearchedFiles
  <2>3. def.tag = "local" => SearchedFiles(def, f) = {f} /\ def.file = f
    <3>1. def.tag = "local" => def.file = f
      BY <1>0, <1>3, ResolvedInFile
    <3> QED BY <3>1 DEF SearchedFiles
  <2>4. \A g, q : <<g, q>> \in edits <=>
          g \in SearchedFiles(def, f) /\ q \in Tokens(g) /\ ws[g].text[q] = old /\ Resolve(g, q) = def
    <3> HIDE DEF edits, def, old
    <3> QED BY <2>1
  <2>5. \A e \in edits : e = <<e[1], e[2]>>
    <3> HIDE DEF edits, def, old
    <3> QED BY <2>1
  <2>6. \A g, q : <<g, q>> \in edits => ResolveNameAt(g, q, new) \in {None, def}
    <3> HIDE DEF edits, def
    <3> QED BY <1>3 DEF Conflicts
  <2>7. \A g, q : <<g, q>> \in edits =>
          /\ g \in Files /\ q \in Tokens(g) /\ ws[g].text[q] = old /\ Resolve(g, q) = def
          /\ (def.tag = "local" => g = def.file)
    <3> HIDE DEF edits, def, old
    <3> QED BY <2>2, <2>3, <2>4
  <2>8. def.tag = "item" => \A q \in Tokens(def.file) :
          ws[def.file].text[q] = old /\ Resolve(def.file, q) = def => <<def.file, q>> \in edits
    <3> HIDE DEF edits, def, old
    <3> QED BY <2>2, <2>4
  <2> HIDE DEF edits, def
  <2> QED BY <1>3, <2>5, <2>6, <2>7, <2>8 DEF Edited
<1> SUFFICES ASSUME NEW e \in edits PROVE Resolve(e[1], e[2])' = def
  BY <1>2
<1> DEFINE g == e[1]
           q == e[2]
           as == ws[g].role[q].as
<1>6. /\ e = <<g, q>> /\ g \in Files /\ q \in Tokens(g) /\ ws[g].text[q] = old /\ Resolve(g, q) = def
      /\ <<g, q>> \in edits
  <2> HIDE DEF edits, def, old
  <2> QED BY <1>5 DEF Edited, old
<1> HIDE DEF edits, g, q
<1>7. CASE new = old
  <2>1. ASSUME NEW h \in Files
        PROVE  ws'[h] = ws[h]
    <3> DEFINE text == [t \in DOMAIN ws[h].text |-> IF <<h, t>> \in edits THEN new ELSE ws[h].text[t]]
    <3>1. /\ ws[h].text \in Seq(STRING)
          /\ ws[h] = [text |-> ws[h].text, role |-> ws[h].role, decls |-> ws[h].decls,
                      scopes |-> ws[h].scopes, imports |-> ws[h].imports, includes |-> ws[h].includes]
      BY <1>0 DEF WellFormed, Files
    <3>2. \A t \in DOMAIN ws[h].text : <<h, t>> \in edits => ws[h].text[t] = new
      <4> HIDE DEF def
      <4> QED BY <1>5, <1>7 DEF Edited
    <3>3. text = ws[h].text
      <4> DEFINE n == Len(ws[h].text)
      <4>1. DOMAIN ws[h].text = 1 .. n /\ ws[h].text = [t \in 1 .. n |-> ws[h].text[t]]
        BY <3>1
      <4> HIDE DEF n
      <4> QED BY <3>2, <4>1
    <3>4. ws'[h] = [ws[h] EXCEPT !.text = text]
      BY <1>2 DEF Apply, Files
    <3> HIDE DEF text
    <3> QED BY <3>1, <3>3, <3>4
  <2>2. ws' = ws
    <3>1. DOMAIN ws' = DOMAIN ws /\ ws' = [h \in DOMAIN ws' |-> ws'[h]] /\ ws = [h \in DOMAIN ws |-> ws[h]]
      BY <1>0, <1>2 DEF Apply, WellFormed
    <3> QED BY <2>1, <3>1 DEF Files
  <2>3. trees' = trees
    <3>1. \A h : ItemTree(h)' = ItemTree(h)
      BY <2>2 DEF ItemTree, PushItem
    <3> QED BY <1>0, <1>2, <3>1 DEF Files
  <2>4. Resolve(g, q)' = Resolve(g, q)
    BY <2>2, <2>3, SameFilesSameMeaning
  <2> QED BY <1>6, <2>4 DEF g, q
<1>8. CASE new # old
  <2>1. /\ ws'[g].role = ws[g].role /\ ws'[g].scopes = ws[g].scopes /\ ws'[g].text[q] = new
        /\ {i \in DOMAIN trees'[g] : trees'[g][i].at = q} = {i \in DOMAIN trees[g] : trees[g][i].at = q}
    BY <1>4, <1>6 DEF Renames, Tokens
  <2>2. PlainRename(def, edits)
    BY <1>2
  <2>3. CASE as \in {"name", "type", "shorthand"}
    <3>1. Resolve(g, q)' = ResolveNameAt(g, q, new)'
      BY <2>1, <2>3 DEF Resolve
    <3>2. def.tag \in {"local", "item"}
      BY <1>0, <1>3, <1>6, <2>3, MeantIs DEF Resolve
    <3>3. ResolveNameAt(g, q, new)' = def
      <4>1. def.tag = "local" => <<def.file, def.at>> \in edits
        BY <2>2 DEF PlainRename
      <4> HIDE DEF def
      <4> QED BY <1>4, <1>5, <1>6, <1>8, <2>2, <2>3, <3>2, <4>1, LocalKeeps, ItemKeeps DEF old
    <3> QED BY <3>1, <3>3 DEF g, q
  <2>4. CASE as \in {"pattern", "for", "generic", "declaration"}
    <3>1. Resolve(g, q)' = Resolve(g, q)
      BY <2>1, <2>4 DEF Resolve, DetailForBinding, ItemDeclarationAt, FirstItem
    <3> QED BY <1>6, <3>1 DEF g, q
  <2>5. CASE as \notin {"name", "type", "shorthand", "pattern", "for", "generic", "declaration"}
    <3>1. /\ def.tag = "item"
          /\ \/ trees[def.file][def.index].kind \in {"field", "variant"}
             \/ \E imp \in ToSet(ws[g].imports) : imp.specs # <<>>
      BY <1>3, <1>6, <2>5, ResolvedIs
    <3> QED BY <1>6, <2>2, <3>1 DEF PlainRename, PlainImports
  <2> QED BY <2>3, <2>4, <2>5
<1> QED BY <1>7, <1>8

(***************************************************************************)
(* The theorems.                                                           *)
(***************************************************************************)
(* The files keep the shape that the parser gives them, the item trees are those of the texts *)
(* on hand, and a rename edits identifiers only: the whole of `rename_cancellable`.           *)
THEOREM NamesTypeCorrect == Spec => []TypeOK
BY NamesInvariant

(* resolve_name_at finds a declaration of every name that is visible at a position and of no  *)
(* other, in every workspace: through nested scopes, modules, includes that form cycles, and  *)
(* imports with prefixes and aliases.                                                         *)
THEOREM ResolutionIsExact == Spec => []ResolvesWhatIsVisible
<1>1. TypeOK => ResolvesWhatIsVisible
  BY VisibleNamesResolve DEF TypeOK
<1> QED BY <1>1, NamesInvariant, PTL

(* The diagnostics of an import and the resolver judge it alike, in every workspace. *)
THEOREM ImportsAreJudgedAlike == Spec => []QuietImportsResolve
<1>1. TypeOK => QuietImportsResolve
  BY QuietImports DEF TypeOK
<1> QED BY <1>1, NamesInvariant, PTL

(* find_references gives one answer for a definition, wherever it is asked for. *)
THEOREM ReferencesAreMutual == Spec => []ReferencesAgree
<1>1. TypeOK => ReferencesAgree
  BY ReferencesAre DEF TypeOK
<1> QED BY <1>1, NamesInvariant, PTL

(* What completion offers at an expression or at a type resolves, once typed there, to what it *)
(* was offered as (push_scope_and_items and push_type_items against resolve_name_at), wherever *)
(* the label has one meaning.                                                                  *)
THEOREM CompletionIsExact == Spec => []CompletionAgrees
<1>1. TypeOK => CompletionAgrees
  <2> SUFFICES ASSUME TypeOK PROVE CompletionAgrees
    OBVIOUS
  <2>1. WellFormed(ws) /\ trees = [f \in Files |-> ItemTree(f)]
    BY DEF TypeOK, Files
  <2>2. \A f \in Files : DOMAIN trees[f] \subseteq Nat
    BY TreesAreSequenced DEF TreesAreCounted
  <2> QED BY <2>1, <2>2, CompletionIsRight
<1> QED BY <1>1, NamesInvariant, PTL

(* A rename captures nothing: each identifier that it edits means, under the new name, the     *)
(* declaration that was renamed (the conflict check of rename_cancellable suffices), whatever  *)
(* the files and the includes between them, when the rename is a plain one.                    *)
THEOREM PlainRenamesCaptureNothing ==
  Spec /\ [][renamed'.outcome = "edited" => PlainRename(renamed'.def, renamed'.edits)]_vars => RenamedSitesAgree
<1>1. ASSUME NEW f, NEW p, NEW new, RenameCancelled(f, p, new)
      PROVE  renamed'.outcome # "edited"
  <2>1. renamed' = [outcome |-> "not found", def |-> None, edits |-> {}]
    BY <1>1 DEF RenameCancelled
  <2>2. [outcome |-> "not found", def |-> None, edits |-> {}].outcome = "not found"
    OBVIOUS
  <2>3. renamed'.outcome = "not found"
    BY <2>1, <2>2
  <2> QED BY <2>3
<1>2. ASSUME TypeOK, TypeOK', [Next]_vars,
             [renamed'.outcome = "edited" => PlainRename(renamed'.def, renamed'.edits)]_vars
      PROVE  [renamed'.outcome = "edited" => \A e \in renamed'.edits : Resolve(e[1], e[2])' = renamed'.def]_vars
  <2> SUFFICES ASSUME ~UNCHANGED vars, renamed'.outcome = "edited"
               PROVE  \A e \in renamed'.edits : Resolve(e[1], e[2])' = renamed'.def
    OBVIOUS
  <2>1. PICK f \in Files : \E p \in Tokens(f), new \in NewNames : Rename(f, p, new) \/ RenameCancelled(f, p, new)
    BY <1>2 DEF Next, Files
  <2>2. PICK p \in Tokens(f), new \in NewNames : Rename(f, p, new) \/ RenameCancelled(f, p, new)
    BY <2>1
  <2>3. ~RenameCancelled(f, p, new)
    BY <1>1
  <2> QED BY <1>2, <2>2, <2>3, RenamedSitesStay
<1> QED BY <1>2, NamesInvariant, PTL DEF Spec, RenamedSitesAgree

(***************************************************************************)
(* What the witness sets and the sink of the disclosure analysis promise,  *)
(* for every set of uids, sources and path points.  The interpreter built  *)
(* on them (Disclosure) is recursive, so what it computes is left to TLC;  *)
(* these are the facts its fail-closed argument leans on: no operation on  *)
(* a set or on the sink forgets a witness, a leak or an advisory.          *)
(***************************************************************************)
Witness == [src : Srcs, info : Infos, path : Seq(Points)]

WitnessSets == UNION {[U -> Witness] : U \in SUBSET Nat}

(* A witness that names uid in one set is the same witness in the other; only
   the paths differ.  Uids are handed out once per query, so it holds of any two
   sets of one query (FreshUids below). *)
Consistent(w1, w2) ==
  \A u \in DOMAIN w1 \cap DOMAIN w2 : w1[u].src = w2[u].src /\ w1[u].info = w2[u].info

Sinks == [advisories : SUBSET (Srcs \X Points), uid : Nat,
          leaks : UNION {[K -> WitnessSets] : K \in SUBSET (Srcs \X Points)}]

(* Every witness of the leak table was given a uid the counter has passed. *)
UidsPassed(sink) ==
  \A k \in DOMAIN sink.leaks : \A u \in DOMAIN sink.leaks[k] : u < sink.uid

-----------------------------------------------------------------------------
LEMMA WitnessSetShape ==
  ASSUME NEW wits
  PROVE  wits \in WitnessSets <=>
           /\ wits = [u \in DOMAIN wits |-> wits[u]]
           /\ DOMAIN wits \subseteq Nat
           /\ \A u \in DOMAIN wits : wits[u] \in Witness
<1>1. ASSUME wits \in WitnessSets
      PROVE  /\ wits = [u \in DOMAIN wits |-> wits[u]]
             /\ DOMAIN wits \subseteq Nat
             /\ \A u \in DOMAIN wits : wits[u] \in Witness
  <2>1. PICK U \in SUBSET Nat : wits \in [U -> Witness]  BY <1>1 DEF WitnessSets
  <2>2. QED  BY <2>1
<1>2. ASSUME wits = [u \in DOMAIN wits |-> wits[u]],
             DOMAIN wits \subseteq Nat,
             \A u \in DOMAIN wits : wits[u] \in Witness
      PROVE  wits \in WitnessSets
  <2>1. wits \in [DOMAIN wits -> Witness]  BY <1>2
  <2>2. QED  BY <1>2, <2>1 DEF WitnessSets
<1>3. QED  BY <1>1, <1>2

LEMMA OnPathIsWitness ==
  ASSUME NEW w \in Witness, NEW p \in Seq(Points)
  PROVE  /\ OnPath(w, p) \in Witness
         /\ OnPath(w, p).src = w.src
         /\ OnPath(w, p).info = w.info
         /\ OnPath(w, p).path = w.path \o p
BY ConcatProperties DEF Witness, OnPath

(* The value of a merged set at each uid, in one place. *)
LEMMA MergeAt ==
  ASSUME NEW w1 \in WitnessSets, NEW w2 \in WitnessSets
  PROVE  /\ DOMAIN MergeWitnesses(w1, w2) = DOMAIN w1 \cup DOMAIN w2
         /\ \A u \in DOMAIN w1 \ DOMAIN w2 : MergeWitnesses(w1, w2)[u] = w1[u]
         /\ \A u \in DOMAIN w2 \ DOMAIN w1 : MergeWitnesses(w1, w2)[u] = w2[u]
         /\ \A u \in DOMAIN w1 \cap DOMAIN w2 :
              MergeWitnesses(w1, w2)[u] = OnPath(w1[u], w2[u].path)
BY DEF MergeWitnesses

LEMMA PathsAreSequences ==
  ASSUME NEW wits \in WitnessSets, NEW u \in DOMAIN wits
  PROVE  wits[u] \in Witness /\ wits[u].path \in Seq(Points)
BY WitnessSetShape DEF Witness

(* merge_witnesses gives a witness set, and no witness of either side is lost:
   each uid keeps its origin, and its path is only ever extended. *)
THEOREM MergeKeepsBoth ==
  ASSUME NEW w1 \in WitnessSets, NEW w2 \in WitnessSets, Consistent(w1, w2)
  PROVE  /\ MergeWitnesses(w1, w2) \in WitnessSets
         /\ DOMAIN MergeWitnesses(w1, w2) = DOMAIN w1 \cup DOMAIN w2
         /\ Consistent(w1, MergeWitnesses(w1, w2))
         /\ Consistent(w2, MergeWitnesses(w1, w2))
<1> DEFINE m == MergeWitnesses(w1, w2)
<1>1. DOMAIN m = DOMAIN w1 \cup DOMAIN w2  BY MergeAt
<1>2. DOMAIN m \subseteq Nat  BY <1>1, WitnessSetShape
<1>3. ASSUME NEW u \in DOMAIN m
      PROVE  /\ m[u] \in Witness
             /\ u \in DOMAIN w1 => m[u].src = w1[u].src /\ m[u].info = w1[u].info
             /\ u \in DOMAIN w2 => m[u].src = w2[u].src /\ m[u].info = w2[u].info
  <2>1. CASE u \in DOMAIN w1 \ DOMAIN w2
    <3>1. m[u] = w1[u]  BY <2>1, MergeAt
    <3>2. QED  BY <2>1, <3>1, WitnessSetShape
  <2>2. CASE u \in DOMAIN w2 \ DOMAIN w1
    <3>1. m[u] = w2[u]  BY <2>2, MergeAt
    <3>2. QED  BY <2>2, <3>1, PathsAreSequences
  <2>3. CASE u \in DOMAIN w1 \cap DOMAIN w2
    <3>1. w1[u] \in Witness /\ w2[u].path \in Seq(Points)  BY <2>3, PathsAreSequences
    <3>2. m[u] = OnPath(w1[u], w2[u].path)  BY <2>3, MergeAt
    <3>3. m[u] \in Witness /\ m[u].src = w1[u].src /\ m[u].info = w1[u].info
      BY <3>1, <3>2, OnPathIsWitness
    <3>4. w1[u].src = w2[u].src /\ w1[u].info = w2[u].info  BY <2>3 DEF Consistent
    <3>5. QED  BY <3>3, <3>4
  <2>4. QED  BY <1>1, <2>1, <2>2, <2>3
<1>4. m = [u \in DOMAIN m |-> m[u]]  BY <1>1 DEF MergeWitnesses
<1>5. m \in WitnessSets
  <2> HIDE DEF m
  <2>1. QED  BY <1>2, <1>3, <1>4, WitnessSetShape
<1>6. QED  BY <1>1, <1>3, <1>5 DEF Consistent

(* The order in which the parts of an expression are merged shows only in how
   they are grouped, never in the set: merge_witnesses is associative, paths
   included, so a fold over any number of operands is well defined. *)
THEOREM MergeIsAssociative ==
  ASSUME NEW w1 \in WitnessSets, NEW w2 \in WitnessSets, NEW w3 \in WitnessSets,
         Consistent(w1, w2), Consistent(w2, w3), Consistent(w1, w3)
  PROVE  MergeWitnesses(MergeWitnesses(w1, w2), w3) =
         MergeWitnesses(w1, MergeWitnesses(w2, w3))
<1> DEFINE m12 == MergeWitnesses(w1, w2)
           m23 == MergeWitnesses(w2, w3)
           l == MergeWitnesses(m12, w3)
           r == MergeWitnesses(w1, m23)
<1>1. m12 \in WitnessSets /\ m23 \in WitnessSets  BY MergeKeepsBoth
<1>2. DOMAIN l = DOMAIN w1 \cup DOMAIN w2 \cup DOMAIN w3
  <2>1. DOMAIN m12 = DOMAIN w1 \cup DOMAIN w2  BY MergeAt
  <2> HIDE DEF m12
  <2>2. DOMAIN l = DOMAIN m12 \cup DOMAIN w3  BY <1>1, MergeAt
  <2>3. QED  BY <2>1, <2>2
<1>3. DOMAIN r = DOMAIN w1 \cup DOMAIN w2 \cup DOMAIN w3
  <2>1. DOMAIN m23 = DOMAIN w2 \cup DOMAIN w3  BY MergeAt
  <2> HIDE DEF m23
  <2>2. DOMAIN r = DOMAIN w1 \cup DOMAIN m23  BY <1>1, MergeAt
  <2>3. QED  BY <2>1, <2>2
<1>4. ASSUME NEW u \in DOMAIN l  PROVE l[u] = r[u]
  <2> DEFINE in1 == u \in DOMAIN w1
             in2 == u \in DOMAIN w2
             in3 == u \in DOMAIN w3
  <2>1. l[u] = IF ~ in3 THEN m12[u]
               ELSE IF ~ (in1 \/ in2) THEN w3[u]
               ELSE OnPath(m12[u], w3[u].path)
    <3>1. DOMAIN m12 = DOMAIN w1 \cup DOMAIN w2  BY MergeAt
    <3>2. u \in DOMAIN m12 \cup DOMAIN w3  BY <1>2, <3>1
    <3> HIDE DEF m12
    <3>3. QED  BY <3>1, <3>2 DEF MergeWitnesses
  <2>2. r[u] = IF ~ (in2 \/ in3) THEN w1[u]
               ELSE IF ~ in1 THEN m23[u]
               ELSE OnPath(w1[u], m23[u].path)
    <3>1. DOMAIN m23 = DOMAIN w2 \cup DOMAIN w3  BY MergeAt
    <3>2. u \in DOMAIN w1 \cup DOMAIN m23  BY <1>2, <3>1
    <3> HIDE DEF m23
    <3>3. QED  BY <3>1, <3>2 DEF MergeWitnesses
  <2>3. in1 \/ in2 => m12[u] = IF ~ in2 THEN w1[u] ELSE IF ~ in1 THEN w2[u]
                                ELSE OnPath(w1[u], w2[u].path)
    BY DEF MergeWitnesses
  <2>4. in2 \/ in3 => m23[u] = IF ~ in3 THEN w2[u] ELSE IF ~ in2 THEN w3[u]
                                ELSE OnPath(w2[u], w3[u].path)
    BY DEF MergeWitnesses
  <2>5. in1 \/ in2 \/ in3  BY <1>2
  <2>6. CASE in1 /\ in2 /\ in3
    <3>1. /\ w1[u] \in Witness /\ w1[u].path \in Seq(Points)
          /\ w2[u] \in Witness /\ w2[u].path \in Seq(Points)
          /\ w3[u] \in Witness /\ w3[u].path \in Seq(Points)
      BY <2>6, PathsAreSequences
    <3>2. \A x, y, z \in Seq(Points) : (x \o y) \o z = x \o (y \o z)
      BY ConcatAssociative
    <3>3. l[u] = OnPath(OnPath(w1[u], w2[u].path), w3[u].path)  BY <2>1, <2>3, <2>6
    <3>4. r[u] = OnPath(w1[u], OnPath(w2[u], w3[u].path).path)  BY <2>2, <2>4, <2>6
    <3>5. QED  BY <3>1, <3>2, <3>3, <3>4 DEF OnPath
  <2>7. CASE ~ (in1 /\ in2 /\ in3)
    <3> HIDE DEF l, r, m12, m23
    <3>1. CASE in1 /\ ~ in2 /\ in3
      <4>1. w3[u] = m23[u]  BY <2>4, <3>1
      <4>2. l[u] = OnPath(w1[u], w3[u].path)  BY <2>1, <2>3, <3>1
      <4>3. QED  BY <2>2, <3>1, <4>1, <4>2
    <3>2. CASE ~ in1 /\ in2 /\ in3
      BY <2>1, <2>2, <2>3, <2>4, <3>2
    <3>3. CASE in1 /\ in2 /\ ~ in3
      <4>1. m23[u] = w2[u]  BY <2>4, <3>3
      <4>2. QED  BY <2>1, <2>2, <2>3, <3>3, <4>1
    <3>4. CASE (in1 /\ ~ in2 /\ ~ in3) \/ (~ in1 /\ in2 /\ ~ in3) \/ (~ in1 /\ ~ in2 /\ in3)
      BY <2>1, <2>2, <2>3, <2>4, <3>4
    <3>5. QED  BY <2>5, <2>7, <3>1, <3>2, <3>3, <3>4
  <2>8. QED  BY <2>6, <2>7
<1>5. l = [u \in DOMAIN l |-> l[u]] /\ r = [u \in DOMAIN r |-> r[u]]
  BY DEF MergeWitnesses
<1>6. QED
  <2> HIDE DEF l, r
  <2>1. l = r  BY <1>2, <1>3, <1>4, <1>5
  <2>2. QED  BY <2>1 DEF l, r

-----------------------------------------------------------------------------
LEMMA PushKeepsAll ==
  ASSUME NEW wits \in WitnessSets, NEW pp \in Points
  PROVE  /\ PushPoint(wits, pp) \in WitnessSets
         /\ DOMAIN PushPoint(wits, pp) = DOMAIN wits
         /\ Consistent(wits, PushPoint(wits, pp))
<1> DEFINE q == PushPoint(wits, pp)
<1>1. DOMAIN q = DOMAIN wits /\ q = [u \in DOMAIN q |-> q[u]]  BY DEF PushPoint
<1>2. ASSUME NEW u \in DOMAIN wits
      PROVE  q[u] \in Witness /\ q[u].src = wits[u].src /\ q[u].info = wits[u].info
  <2>1. q[u] = OnPath(wits[u], <<pp>>)  BY DEF PushPoint
  <2>2. <<pp>> \in Seq(Points)  OBVIOUS
  <2>3. wits[u] \in Witness  BY PathsAreSequences
  <2>4. QED  BY <2>1, <2>2, <2>3, OnPathIsWitness
<1>3. DOMAIN q \subseteq Nat  BY <1>1, WitnessSetShape
<1>4. q \in WitnessSets
  <2> HIDE DEF q
  <2>1. QED  BY <1>1, <1>2, <1>3, WitnessSetShape
<1>5. QED  BY <1>1, <1>2, <1>4 DEF Consistent

(* thread_control: whatever is run under a condition depends on every witness of
   the condition and on every witness already in force, so nothing nested in an
   `if` is analysed with less control taint than its surroundings. *)
THEOREM BranchesStayControlled ==
  ASSUME NEW condWs \in WitnessSets, NEW control \in WitnessSets, NEW src,
         <<src, "branch">> \in Points, Consistent(condWs, control)
  PROVE  /\ ThreadControl(condWs, control, src) \in WitnessSets
         /\ DOMAIN ThreadControl(condWs, control, src) = DOMAIN condWs \cup DOMAIN control
         /\ Consistent(control, ThreadControl(condWs, control, src))
<1> DEFINE q == PushPoint(condWs, <<src, "branch">>)
<1>1. q \in WitnessSets /\ DOMAIN q = DOMAIN condWs /\ Consistent(condWs, q)
  BY PushKeepsAll
<1>2. Consistent(q, control)  BY <1>1 DEF Consistent
<1> HIDE DEF q
<1>3. /\ MergeWitnesses(q, control) \in WitnessSets
      /\ DOMAIN MergeWitnesses(q, control) = DOMAIN q \cup DOMAIN control
      /\ Consistent(control, MergeWitnesses(q, control))
  BY <1>1, <1>2, MergeKeepsBoth
<1>4. QED  BY <1>1, <1>3 DEF ThreadControl, q

(* filter_witnesses after merge_witnesses: the witnesses an exported circuit's
   return leaks are those of the one side and those of the other; the kind of a
   witness is not changed by merging it. *)
THEOREM FilterOfMerge ==
  ASSUME NEW w1 \in WitnessSets, NEW w2 \in WitnessSets, Consistent(w1, w2)
  PROVE  DOMAIN FilterWitnesses(MergeWitnesses(w1, w2)) =
           DOMAIN FilterWitnesses(w1) \cup DOMAIN FilterWitnesses(w2)
<1> DEFINE m == MergeWitnesses(w1, w2)
<1>1. /\ DOMAIN m = DOMAIN w1 \cup DOMAIN w2
      /\ Consistent(w1, m) /\ Consistent(w2, m)
  BY MergeKeepsBoth
<1> HIDE DEF m
<1>2. /\ \A u \in DOMAIN w1 : m[u].info = w1[u].info
      /\ \A u \in DOMAIN w2 : m[u].info = w2[u].info
  BY <1>1 DEF Consistent
<1>3. DOMAIN FilterWitnesses(m) = DOMAIN FilterWitnesses(w1) \cup DOMAIN FilterWitnesses(w2)
  BY <1>1, <1>2 DEF FilterWitnesses
<1>4. QED  BY <1>3 DEF m

-----------------------------------------------------------------------------
LEMMA LeaksAt ==
  ASSUME NEW sink \in Sinks, NEW src \in Srcs, NEW nature \in Points,
         NEW wits \in WitnessSets, DOMAIN wits # {}
  PROVE  LET after == RecordLeak(sink, src, nature, wits)
             key == <<src, nature>>
         IN  /\ after = [sink EXCEPT !.leaks = after.leaks]
             /\ after.uid = sink.uid /\ after.advisories = sink.advisories
             /\ DOMAIN after.leaks = DOMAIN sink.leaks \cup {key}
             /\ \A k \in DOMAIN sink.leaks \ {key} : after.leaks[k] = sink.leaks[k]
             /\ after.leaks[key] = IF key \in DOMAIN sink.leaks
                                   THEN MergeWitnesses(sink.leaks[key], wits) ELSE wits
BY DEF Sinks, RecordLeak

LEMMA RowsAreWitnessSets ==
  ASSUME NEW sink \in Sinks
  PROVE  \A k \in DOMAIN sink.leaks : sink.leaks[k] \in WitnessSets
BY DEF Sinks

(* record_leak never takes anything back: every row of the leak table stays, with
   every witness it had and its origin, the advisories stay, and the witnesses
   that leak now are in their row. *)
THEOREM LeaksAreKept ==
  ASSUME NEW sink \in Sinks, NEW src \in Srcs, NEW nature \in Points,
         NEW wits \in WitnessSets,
         \A k \in DOMAIN sink.leaks : Consistent(sink.leaks[k], wits)
  PROVE  LET after == RecordLeak(sink, src, nature, wits)
         IN  /\ sink.advisories \subseteq after.advisories
             /\ \A k \in DOMAIN sink.leaks :
                  /\ k \in DOMAIN after.leaks
                  /\ DOMAIN sink.leaks[k] \subseteq DOMAIN after.leaks[k]
                  /\ Consistent(sink.leaks[k], after.leaks[k])
             /\ DOMAIN wits # {} => /\ <<src, nature>> \in DOMAIN after.leaks
                                  /\ DOMAIN wits \subseteq DOMAIN after.leaks[<<src, nature>>]
<1> DEFINE after == RecordLeak(sink, src, nature, wits)
           key == <<src, nature>>
<1>1. CASE DOMAIN wits = {}
  <2>1. after = sink  BY <1>1 DEF RecordLeak
  <2>2. QED  BY <1>1, <2>1 DEF Consistent
<1>2. CASE DOMAIN wits # {}
  <2>1. /\ after.advisories = sink.advisories
        /\ DOMAIN after.leaks = DOMAIN sink.leaks \cup {key}
        /\ \A k \in DOMAIN sink.leaks \ {key} : after.leaks[k] = sink.leaks[k]
        /\ after.leaks[key] = IF key \in DOMAIN sink.leaks
                              THEN MergeWitnesses(sink.leaks[key], wits) ELSE wits
    BY <1>2, LeaksAt
  <2> HIDE DEF after
  <2>2. ASSUME key \in DOMAIN sink.leaks
        PROVE  /\ DOMAIN sink.leaks[key] \cup DOMAIN wits = DOMAIN after.leaks[key]
               /\ Consistent(sink.leaks[key], after.leaks[key])
    <3>1. sink.leaks[key] \in WitnessSets /\ Consistent(sink.leaks[key], wits)
      BY <2>2, RowsAreWitnessSets
    <3> HIDE DEF key
    <3>2. QED  BY <2>1, <2>2, <3>1, MergeKeepsBoth
  <2> HIDE DEF key
  <2>3. ASSUME NEW k \in DOMAIN sink.leaks
        PROVE  /\ k \in DOMAIN after.leaks
               /\ DOMAIN sink.leaks[k] \subseteq DOMAIN after.leaks[k]
               /\ Consistent(sink.leaks[k], after.leaks[k])
    <3>1. CASE k = key  BY <2>1, <2>2, <3>1
    <3>2. CASE k # key  BY <2>1, <3>2 DEF Consistent
    <3>3. QED  BY <3>1, <3>2
  <2>4. key \in DOMAIN after.leaks /\ DOMAIN wits \subseteq DOMAIN after.leaks[key]
    BY <2>1, <2>2
  <2>5. QED  BY <2>1, <2>3, <2>4 DEF after, key
<1>3. QED  BY <1>1, <1>2

(* Two leaks at the same place are the same report in either order: the rows and
   the witnesses each one names do not depend on which came first. *)
THEOREM LeakOrderIsIrrelevant ==
  ASSUME NEW sink \in Sinks, NEW src \in Srcs, NEW nature \in Points,
         NEW w1 \in WitnessSets, NEW w2 \in WitnessSets,
         DOMAIN w1 # {}, DOMAIN w2 # {}
  PROVE  LET ab == RecordLeak(RecordLeak(sink, src, nature, w1), src, nature, w2)
             ba == RecordLeak(RecordLeak(sink, src, nature, w2), src, nature, w1)
         IN  /\ DOMAIN ab.leaks = DOMAIN ba.leaks
             /\ \A k \in DOMAIN ab.leaks : DOMAIN ab.leaks[k] = DOMAIN ba.leaks[k]
<1> DEFINE key == <<src, nature>>
           old == IF key \in DOMAIN sink.leaks THEN DOMAIN sink.leaks[key] ELSE {}
<1>1. \A v, w : DOMAIN MergeWitnesses(v, w) = DOMAIN v \cup DOMAIN w
  BY DEF MergeWitnesses
<1>2. ASSUME NEW v \in WitnessSets, NEW w \in WitnessSets, DOMAIN v # {}, DOMAIN w # {}
      PROVE  LET one == RecordLeak(sink, src, nature, v)
                 two == RecordLeak(one, src, nature, w)
             IN  /\ DOMAIN two.leaks = DOMAIN sink.leaks \cup {key}
                 /\ \A k \in DOMAIN sink.leaks \ {key} : two.leaks[k] = sink.leaks[k]
                 /\ DOMAIN two.leaks[key] = old \cup DOMAIN v \cup DOMAIN w
  <2> DEFINE one == RecordLeak(sink, src, nature, v)
             two == RecordLeak(one, src, nature, w)
  <2>1. /\ one = [sink EXCEPT !.leaks = one.leaks]
        /\ DOMAIN one.leaks = DOMAIN sink.leaks \cup {key}
        /\ \A k \in DOMAIN sink.leaks \ {key} : one.leaks[k] = sink.leaks[k]
        /\ one.leaks[key] = IF key \in DOMAIN sink.leaks
                            THEN MergeWitnesses(sink.leaks[key], v) ELSE v
    BY <1>2, LeaksAt
  <2>2. DOMAIN one.leaks[key] = old \cup DOMAIN v  BY <1>1, <2>1
  <2>3. /\ DOMAIN two.leaks = DOMAIN one.leaks \cup {key}
        /\ \A k \in DOMAIN one.leaks \ {key} : two.leaks[k] = one.leaks[k]
        /\ two.leaks[key] = MergeWitnesses(one.leaks[key], w)
    <3>1. key \in DOMAIN one.leaks  BY <2>1
    <3>2. two.leaks = [k \in DOMAIN one.leaks \cup {key} |->
                        IF k # key THEN one.leaks[k]
                        ELSE MergeWitnesses(one.leaks[key], w)]
      <4>1. two = [one EXCEPT !.leaks =
                     [k \in DOMAIN one.leaks \cup {key} |->
                        IF k # key THEN one.leaks[k]
                        ELSE MergeWitnesses(one.leaks[key], w)]]
        <5> HIDE DEF one
        <5>1. QED  BY <1>2, <3>1 DEF RecordLeak
      <4>2. "leaks" \in DOMAIN one  BY <2>1 DEF Sinks
      <4> HIDE DEF one, two, key
      <4>3. QED  BY <4>1, <4>2
    <3> HIDE DEF one, two
    <3>3. QED  BY <3>1, <3>2
  <2> HIDE DEF one, two, old
  <2>4. DOMAIN two.leaks[key] = old \cup DOMAIN v \cup DOMAIN w
    <3>1. DOMAIN MergeWitnesses(one.leaks[key], w) = DOMAIN one.leaks[key] \cup DOMAIN w
      BY <1>1
    <3> HIDE DEF key
    <3>2. QED  BY <2>2, <2>3, <3>1
  <2>5. QED  BY <2>1, <2>3, <2>4 DEF one, two
<1>3. QED
  <2> DEFINE ab == RecordLeak(RecordLeak(sink, src, nature, w1), src, nature, w2)
             ba == RecordLeak(RecordLeak(sink, src, nature, w2), src, nature, w1)
  <2>1. /\ DOMAIN ab.leaks = DOMAIN sink.leaks \cup {key}
        /\ \A k \in DOMAIN sink.leaks \ {key} : ab.leaks[k] = sink.leaks[k]
        /\ DOMAIN ab.leaks[key] = old \cup DOMAIN w1 \cup DOMAIN w2
    BY <1>2
  <2>2. /\ DOMAIN ba.leaks = DOMAIN sink.leaks \cup {key}
        /\ \A k \in DOMAIN sink.leaks \ {key} : ba.leaks[k] = sink.leaks[k]
        /\ DOMAIN ba.leaks[key] = old \cup DOMAIN w2 \cup DOMAIN w1
    BY <1>2
  <2> HIDE DEF ab, ba, old, key
  <2>3. DOMAIN ab.leaks = DOMAIN ba.leaks
        /\ \A k \in DOMAIN ab.leaks : DOMAIN ab.leaks[k] = DOMAIN ba.leaks[k]
    BY <2>1, <2>2
  <2>4. QED  BY <2>3 DEF ab, ba

-----------------------------------------------------------------------------
(* next_witness_uid hands out a uid no recorded witness has, and nothing that is
   recorded later can catch up with the counter: so two fresh witnesses never
   share a uid, which is what makes Consistent hold of any two sets of a query. *)
THEOREM FreshUids ==
  ASSUME NEW sink \in Sinks, UidsPassed(sink)
  PROVE  /\ UidsPassed(NewSink)
         /\ \A k \in DOMAIN sink.leaks : sink.uid \notin DOMAIN sink.leaks[k]
         /\ UidsPassed(BumpUid(sink)) /\ BumpUid(sink).uid > sink.uid
         /\ \A src, reason : UidsPassed(EmitAdvisory(sink, src, reason))
         /\ \A src \in Srcs, nature \in Points, wits \in WitnessSets :
              (\A u \in DOMAIN wits : u < sink.uid)
                 => UidsPassed(RecordLeak(sink, src, nature, wits))
<1>1. UidsPassed(NewSink)  BY DEF UidsPassed, NewSink
<1>2. \A k \in DOMAIN sink.leaks : sink.uid \notin DOMAIN sink.leaks[k]
  BY DEF UidsPassed, Sinks
<1>3. UidsPassed(BumpUid(sink)) /\ BumpUid(sink).uid > sink.uid
  <2>1. BumpUid(sink).uid = sink.uid + 1 /\ BumpUid(sink).leaks = sink.leaks /\ sink.uid \in Nat
    BY DEF BumpUid, Sinks
  <2>2. \A k \in DOMAIN sink.leaks : DOMAIN sink.leaks[k] \subseteq Nat
    BY RowsAreWitnessSets, WitnessSetShape
  <2>3. QED  BY <2>1, <2>2 DEF UidsPassed
<1>4. ASSUME NEW src, NEW reason  PROVE UidsPassed(EmitAdvisory(sink, src, reason))
  <2>1. /\ EmitAdvisory(sink, src, reason).uid = sink.uid
        /\ EmitAdvisory(sink, src, reason).leaks = sink.leaks
    BY DEF EmitAdvisory, Sinks
  <2>2. QED  BY <2>1 DEF UidsPassed
<1>5. ASSUME NEW src \in Srcs, NEW nature \in Points, NEW wits \in WitnessSets,
             \A u \in DOMAIN wits : u < sink.uid
      PROVE  UidsPassed(RecordLeak(sink, src, nature, wits))
  <2> DEFINE after == RecordLeak(sink, src, nature, wits)
             key == <<src, nature>>
  <2>1. CASE DOMAIN wits = {}
    <3>1. after = sink  BY <2>1 DEF RecordLeak
    <3>2. QED  BY <3>1
  <2>2. CASE DOMAIN wits # {}
    <3>1. /\ after.uid = sink.uid
          /\ DOMAIN after.leaks = DOMAIN sink.leaks \cup {key}
          /\ \A k \in DOMAIN sink.leaks \ {key} : after.leaks[k] = sink.leaks[k]
          /\ after.leaks[key] = IF key \in DOMAIN sink.leaks
                                THEN MergeWitnesses(sink.leaks[key], wits) ELSE wits
      BY <2>2, LeaksAt
    <3>2. key \in DOMAIN sink.leaks =>
            DOMAIN MergeWitnesses(sink.leaks[key], wits) = DOMAIN sink.leaks[key] \cup DOMAIN wits
      BY DEF MergeWitnesses
    <3> HIDE DEF after, key
    <3>3. \A k \in DOMAIN after.leaks : \A u \in DOMAIN after.leaks[k] : u < sink.uid
      BY <1>5, <3>1, <3>2 DEF UidsPassed
    <3>4. QED  BY <3>1, <3>3 DEF UidsPassed, after
  <2>3. QED  BY <2>1, <2>2
<1>6. QED  BY <1>1, <1>2, <1>3, <1>4, <1>5
=============================================================================
