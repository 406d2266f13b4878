----------------------------- MODULE DataLemmas -----------------------------
(***************************************************************************)
(* Lemmas on the data of the models.  Sums over finite sets, as the scores *)
(* of the charts are, and sequences flattened into one: the functions by   *)
(* which the community modules define them exist, and what follows of the  *)
(* values.  Then the parse trees of a grammar, which are a function of the *)
(* spans as well: of what kinds they are, what their subtrees cover, and   *)
(* what sets of them weigh.  Data is induced over by least counterexamples.*)
(***************************************************************************)
EXTENDS ParseTrees, FiniteSets, SequencesExt, FiniteSetTheorems, SequenceTheorems, WellFoundedInduction,
        TLAPS

(* Induction on the naturals, for a set instead of a predicate.            *)
LEMMA SetInduction ==
  ASSUME NEW S, 0 \in S, \A n \in Nat : n \in S => n + 1 \in S
  PROVE  Nat \subseteq S
<1> DEFINE T == Nat \ S
<1> SUFFICES ASSUME T # {} PROVE FALSE
  OBVIOUS
<1>1. PICK x \in T : \A y \in T : ~ (<<y, x>> \in OpToRel(<, Nat))
  <2> HIDE DEF T
  <2>1. T \subseteq Nat
    BY DEF T
  <2> QED  BY <2>1, NatLessThanWellFounded, WFMin
<1>2. x \in Nat /\ x # 0 /\ x \notin S
  OBVIOUS
<1>3. x - 1 \in Nat /\ x - 1 < x
  BY <1>2
<1>4. <<x - 1, x>> \in OpToRel(<, Nat)
  BY <1>2, <1>3 DEF OpToRel
<1>5. x - 1 \in S
  BY <1>1, <1>3, <1>4
<1> QED  BY <1>2, <1>3, <1>5

(* The element that the folds of the community modules take first.         *)
AnyOf(s) == CHOOSE x \in s : TRUE

(* It is an element, and the set is smaller without it.                    *)
LEMMA AnyTaken ==
  ASSUME NEW D, IsFiniteSet(D), NEW s \in SUBSET D, s # {}
  PROVE  /\ AnyOf(s) \in s /\ s \ {AnyOf(s)} \in SUBSET D
         /\ Cardinality(s) \in Nat
         /\ Cardinality(s \ {AnyOf(s)}) = Cardinality(s) - 1
<1>1. AnyOf(s) \in s
  BY DEF AnyOf
<1>2. IsFiniteSet(s) /\ Cardinality(s) \in Nat
  BY FS_Subset, FS_CardinalityType
<1> QED  BY <1>1, <1>2, FS_RemoveElement

(* What holds of the empty set, and of a set if it holds of all but its    *)
(* first element, holds of every subset of a finite set.                   *)
LEMMA SubsetInduction ==
  ASSUME NEW D, IsFiniteSet(D), NEW Good, {} \in Good,
         \A s \in SUBSET D : s # {} /\ s \ {AnyOf(s)} \in Good => s \in Good
  PROVE  SUBSET D \subseteq Good
<1> DEFINE S == {n \in Nat : \A s \in SUBSET D : Cardinality(s) <= n => s \in Good}
<1>1. \A s \in SUBSET D : IsFiniteSet(s) /\ Cardinality(s) \in Nat
  BY FS_Subset, FS_CardinalityType
<1>2. 0 \in S
  <2>1. \A s \in SUBSET D : Cardinality(s) <= 0 => s = {}
    BY <1>1, FS_EmptySet
  <2> QED  BY <2>1
<1>3. ASSUME NEW n \in Nat, n \in S PROVE n + 1 \in S
  <2> SUFFICES ASSUME NEW s \in SUBSET D, Cardinality(s) <= n + 1 PROVE s \in Good
    OBVIOUS
  <2>1. CASE s = {}
    BY <2>1
  <2>2. CASE s # {}
    <3>1. s \ {AnyOf(s)} \in SUBSET D /\ Cardinality(s \ {AnyOf(s)}) <= n
      BY <2>2, AnyTaken
    <3> QED  BY <1>3, <2>2, <3>1
  <2> QED  BY <2>1, <2>2
<1>4. Nat \subseteq S
  <2> HIDE DEF S
  <2> QED  BY <1>2, <1>3, SetInduction
<1> QED  BY <1>1, <1>4

(* The equation of the function that sums f over the subsets of D.         *)
SumTable(f, D, g) ==
  [s \in SUBSET D |-> IF s = {} THEN 0 ELSE f[AnyOf(s)] + g[s \ {AnyOf(s)}]]

(* Over a finite set, the equation of the sums has a solution.             *)
LEMMA SumExists ==
  ASSUME NEW f, NEW D, IsFiniteSet(D)
  PROVE  \E g : g = SumTable(f, D, g)
<1> DEFINE UpTo(n) == {s \in SUBSET D : Cardinality(s) <= n}
           Value(g, s) == IF s = {} THEN 0 ELSE f[AnyOf(s)] + g[s \ {AnyOf(s)}]
           Solved(n) == \E g : /\ g = [s \in SUBSET D |-> g[s]]
                               /\ \A s \in UpTo(n) : g[s] = Value(g, s)
           S == {n \in Nat : Solved(n)}
<1>1. \A s \in SUBSET D : IsFiniteSet(s) /\ Cardinality(s) \in Nat
  BY FS_Subset, FS_CardinalityType
<1>2. \A s \in SUBSET D : Cardinality(s) = 0 <=> s = {}
  BY <1>1, FS_EmptySet
<1>3. \A s \in SUBSET D : s # {} =>
        /\ AnyOf(s) \in s /\ s \ {AnyOf(s)} \in SUBSET D
        /\ Cardinality(s \ {AnyOf(s)}) = Cardinality(s) - 1
  BY AnyTaken
<1>4. 0 \in S
  <2> DEFINE g == [s \in SUBSET D |-> 0]
  <2>1. \A s \in UpTo(0) : s = {}
    BY <1>1, <1>2
  <2>2. \A s \in UpTo(0) : g[s] = Value(g, s)
    BY <2>1
  <2>3. g = [s \in SUBSET D |-> g[s]]
    OBVIOUS
  <2> HIDE DEF g, UpTo, Value
  <2> QED  BY <2>2, <2>3
<1>5. ASSUME NEW n \in Nat, n \in S PROVE n + 1 \in S
  <2>1. PICK g : g = [s \in SUBSET D |-> g[s]] /\ \A s \in UpTo(n) : g[s] = Value(g, s)
    BY <1>5
  <2> DEFINE h == [s \in SUBSET D |-> Value(g, s)]
  <2>2. \A s \in UpTo(n) : h[s] = g[s]
    BY <2>1
  <2>3. \A s \in UpTo(n + 1) : s # {} => s \ {AnyOf(s)} \in UpTo(n)
    BY <1>1, <1>3
  <2>4. \A s \in UpTo(n + 1) : Value(h, s) = Value(g, s)
    <3> TAKE s \in UpTo(n + 1)
    <3> HIDE DEF h, UpTo
    <3> QED  BY <2>2, <2>3
  <2>5. \A s \in UpTo(n + 1) : h[s] = Value(h, s)
    BY <2>4
  <2>6. h = [s \in SUBSET D |-> h[s]]
    OBVIOUS
  <2>7. Solved(n + 1)
    <3> HIDE DEF h, UpTo, Value
    <3> QED  BY <2>5, <2>6
  <2> HIDE DEF Solved
  <2> QED  BY <2>7
<1>6. Cardinality(D) \in S
  <2> HIDE DEF S
  <2>1. Nat \subseteq S
    BY <1>4, <1>5, SetInduction
  <2> QED  BY <2>1, FS_CardinalityType
<1>7. PICK g : g = [s \in SUBSET D |-> g[s]] /\ \A s \in UpTo(Cardinality(D)) : g[s] = Value(g, s)
  BY <1>6
<1>8. \A s \in SUBSET D : s \in UpTo(Cardinality(D))
  BY FS_Subset
<1>9. \A s \in SUBSET D : g[s] = Value(g, s)
  <2> HIDE DEF UpTo, Value
  <2> QED  BY <1>7, <1>8
<1>10. g = [s \in SUBSET D |-> Value(g, s)]
  <2> HIDE DEF Value
  <2> QED  BY <1>7, <1>9
<1> QED  BY <1>10 DEF SumTable

(* A sum takes one element from the set and sums the others.               *)
LEMMA SumDefined ==
  ASSUME NEW f, IsFiniteSet(DOMAIN f)
  PROVE  \E g : /\ SumFunction(f) = g[DOMAIN f]
                /\ g = SumTable(f, DOMAIN f, g)
<1> DEFINE D == DOMAIN f
           g == CHOOSE g : g = SumTable(f, D, g)
<1>1. g = SumTable(f, D, g)
  BY SumExists
<1>2. SumFunction(f) = g[D]
  BY DEF SumFunction, SumFunctionOnSet, FoldFunctionOnSet, MapThenFoldSet, SumTable, AnyOf
<1> QED  BY <1>1, <1>2

(* What holds of 0 and is kept by addition holds of a sum.                 *)
LEMMA SumClosed ==
  ASSUME NEW D, IsFiniteSet(D), NEW Z, 0 \in Z, \A x, y \in Z : x + y \in Z,
         NEW f \in [D -> Z]
  PROVE  SumFunction(f) \in Z
<1>1. PICK g : SumFunction(f) = g[D] /\ g = SumTable(f, D, g)
  BY SumDefined
<1>2. \A s \in SUBSET D : g[s] = IF s = {} THEN 0 ELSE f[AnyOf(s)] + g[s \ {AnyOf(s)}]
  BY <1>1 DEF SumTable
<1>3. g[{}] \in Z
  BY <1>2
<1>4. ASSUME NEW s \in SUBSET D, s # {}, g[s \ {AnyOf(s)}] \in Z PROVE g[s] \in Z
  <2>1. f[AnyOf(s)] \in Z
    BY <1>4, AnyTaken
  <2> QED  BY <1>2, <1>4, <2>1
<1> DEFINE Good == {s \in SUBSET D : g[s] \in Z}
<1>5. SUBSET D \subseteq Good
  <2>1. {} \in Good
    BY <1>3
  <2>2. \A s \in SUBSET D : s # {} /\ s \ {AnyOf(s)} \in Good => s \in Good
    BY <1>4
  <2> HIDE DEF Good
  <2> QED  BY <2>1, <2>2, SubsetInduction
<1> QED  BY <1>1, <1>5

(* A sum of naturals is a natural, and none of them exceeds it.            *)
LEMMA SumOfNaturals ==
  ASSUME NEW D, IsFiniteSet(D), NEW f \in [D -> Nat]
  PROVE  /\ SumFunction(f) \in Nat
         /\ \A x \in D : f[x] <= SumFunction(f)
<1>1. PICK g : SumFunction(f) = g[D] /\ g = SumTable(f, D, g)
  BY SumDefined
<1>2. \A s \in SUBSET D : g[s] = IF s = {} THEN 0 ELSE f[AnyOf(s)] + g[s \ {AnyOf(s)}]
  BY <1>1 DEF SumTable
<1> DEFINE Good == {s \in SUBSET D : g[s] \in Nat /\ \A x \in s : f[x] <= g[s]}
<1>3. {} \in Good
  BY <1>2
<1>4. ASSUME NEW s \in SUBSET D, s # {}, s \ {AnyOf(s)} \in Good PROVE s \in Good
  <2> DEFINE r == s \ {AnyOf(s)}
  <2>1. AnyOf(s) \in s
    BY <1>4, AnyTaken
  <2>2. g[r] \in Nat /\ \A x \in r : f[x] <= g[r]
    BY <1>4
  <2>3. g[s] = f[AnyOf(s)] + g[r] /\ f[AnyOf(s)] \in Nat
    BY <1>2, <1>4, <2>1
  <2>4. \A x \in s : f[x] \in Nat /\ (x = AnyOf(s) \/ x \in r)
    OBVIOUS
  <2>5. g[s] \in Nat /\ \A x \in s : f[x] <= g[s]
    <3> HIDE DEF r
    <3> QED  BY <2>2, <2>3, <2>4
  <2> QED  BY <2>5
<1>5. SUBSET D \subseteq Good
  <2> HIDE DEF Good
  <2> QED  BY <1>3, <1>4, SubsetInduction
<1> QED  BY <1>1, <1>5

(* The image of a finite set is finite.                                    *)
LEMMA FiniteImage ==
  ASSUME NEW S, IsFiniteSet(S), NEW h
  PROVE  IsFiniteSet({h[x] : x \in S})
<1> DEFINE k == [x \in S |-> h[x]]
           Z == {h[x] : x \in S}
<1>1. k \in Surjection(S, Z)
  BY DEF Surjection
<1> HIDE DEF k, Z
<1>2. IsFiniteSet(Z)
  BY <1>1, FS_Surjection
<1> QED  BY <1>2 DEF Z

-----------------------------------------------------------------------------
(* The sum of the values of a function over some of its arguments.         *)
Total(f, S) == SumFunctionOnSet(f, S)

(* One table has the sums over all subsets of a finite set.                *)
LEMMA TotalTable ==
  ASSUME NEW f, NEW D, IsFiniteSet(D)
  PROVE  \E g : g = SumTable(f, D, g) /\ \A S \in SUBSET D : Total(f, S) = g[S]
<1>1. PICK g : g = SumTable(f, D, g)
  BY SumExists
<1>2. \A s \in SUBSET D : g[s] = IF s = {} THEN 0 ELSE f[AnyOf(s)] + g[s \ {AnyOf(s)}]
  BY <1>1 DEF SumTable
<1>3. ASSUME NEW S \in SUBSET D PROVE Total(f, S) = g[S]
  <2> DEFINE h == CHOOSE h : h = SumTable(f, S, h)
  <2>1. IsFiniteSet(S)
    BY FS_Subset
  <2>2. h = SumTable(f, S, h)
    BY <2>1, SumExists
  <2>3. Total(f, S) = h[S]
    BY DEF Total, SumFunctionOnSet, FoldFunctionOnSet, MapThenFoldSet, SumTable, AnyOf
  <2> HIDE DEF h
  <2>4. \A s \in SUBSET S : h[s] = IF s = {} THEN 0 ELSE f[AnyOf(s)] + h[s \ {AnyOf(s)}]
    BY <2>2 DEF SumTable
  <2> DEFINE Good == {s \in SUBSET S : h[s] = g[s]}
  <2>5. {} \in Good
    BY <1>2, <2>4
  <2>6. ASSUME NEW s \in SUBSET S, s # {}, s \ {AnyOf(s)} \in Good PROVE s \in Good
    BY <1>2, <2>4, <2>6
  <2>7. SUBSET S \subseteq Good
    <3> HIDE DEF Good
    <3> QED  BY <2>1, <2>5, <2>6, SubsetInduction
  <2> QED  BY <2>3, <2>7
<1> QED  BY <1>1, <1>3

(* The sum over a set without one of its elements.                         *)
LEMMA TotalSplit ==
  ASSUME NEW D, IsFiniteSet(D), NEW f, \A x \in D : f[x] \in Nat
  PROVE  /\ Total(f, {}) = 0
         /\ \A S \in SUBSET D : Total(f, S) \in Nat
         /\ \A S \in SUBSET D : \A x \in S : Total(f, S) = f[x] + Total(f, S \ {x})
<1>1. PICK g : g = SumTable(f, D, g) /\ \A S \in SUBSET D : Total(f, S) = g[S]
  BY TotalTable
<1>2. \A s \in SUBSET D : g[s] = IF s = {} THEN 0 ELSE f[AnyOf(s)] + g[s \ {AnyOf(s)}]
  BY <1>1 DEF SumTable
<1>3. \A s \in SUBSET D : IsFiniteSet(s) /\ Cardinality(s) \in Nat
  BY FS_Subset, FS_CardinalityType
<1> DEFINE Right(s) == g[s] \in Nat /\ \A x \in s : g[s] = f[x] + g[s \ {x}]
           K == {n \in Nat : \A s \in SUBSET D : Cardinality(s) <= n => Right(s)}
<1>4. g[{}] = 0 /\ Right({})
  <2>1. g[{}] = 0
    BY <1>2
  <2> QED  BY <2>1
<1>5. 0 \in K
  <2>1. \A s \in SUBSET D : Cardinality(s) <= 0 => s = {}
    BY <1>3, FS_EmptySet
  <2> QED  BY <1>4, <2>1
<1>6. ASSUME NEW n \in Nat, n \in K PROVE n + 1 \in K
  <2> SUFFICES ASSUME NEW s \in SUBSET D, Cardinality(s) <= n + 1 PROVE Right(s)
    OBVIOUS
  <2>0. CASE s = {}
    BY <1>4, <2>0
  <2> SUFFICES ASSUME s # {} PROVE Right(s)
    <3> HIDE DEF Right
    <3> QED  BY <2>0
  <2> DEFINE a == AnyOf(s)
  <2>1. a \in s
    BY DEF AnyOf
  <2>2. \A x \in s : s \ {x} \in SUBSET D /\ Cardinality(s \ {x}) <= n
    <3> TAKE x \in s
    <3>1. Cardinality(s \ {x}) = Cardinality(s) - 1
      BY <1>3, FS_RemoveElement
    <3> QED  BY <1>3, <3>1
  <2>3. \A x \in s : Right(s \ {x})
    BY <1>6, <2>2
  <2>4. g[s] = f[a] + g[s \ {a}]
    BY <1>2
  <2> HIDE DEF a
  <2>5. g[s] \in Nat
    BY <2>1, <2>3, <2>4
  <2>6. ASSUME NEW x \in s PROVE g[s] = f[x] + g[s \ {x}]
    <3>1. CASE x = a
      BY <2>4, <3>1
    <3>2. CASE x # a
      <4>1. g[s \ {a}] = f[x] + g[(s \ {a}) \ {x}]
        BY <2>1, <2>3, <3>2
      <4>2. g[s \ {x}] = f[a] + g[(s \ {x}) \ {a}]
        BY <2>1, <2>3, <3>2
      <4>3. (s \ {a}) \ {x} = (s \ {x}) \ {a}
        OBVIOUS
      <4>4. g[(s \ {x}) \ {a}] \in Nat
        <5> DEFINE r == s \ {x}
        <5>1. Right(r) /\ a \in r /\ r \in SUBSET D
          BY <2>1, <2>2, <2>3, <3>2
        <5>2. Cardinality(r) <= n /\ Cardinality(r) \in Nat /\ IsFiniteSet(r)
          BY <1>3, <2>2, <5>1
        <5>3. r \ {a} \in SUBSET D /\ Cardinality(r \ {a}) = Cardinality(r) - 1
          BY <5>1, <5>2, FS_RemoveElement
        <5>4. Cardinality(r \ {a}) <= n
          BY <5>2, <5>3
        <5>5. Right(r \ {a})
          BY <1>6, <5>3, <5>4
        <5> QED  BY <5>5
      <4>5. f[a] \in Nat /\ f[x] \in Nat
        BY <2>1
      <4> DEFINE u == g[s]
                 v == g[s \ {x}]
                 w == g[s \ {a}]
                 z == g[(s \ {x}) \ {a}]
      <4>6. u = f[a] + w /\ w = f[x] + z /\ v = f[a] + z
        BY <2>4, <4>1, <4>2, <4>3
      <4>7. z \in Nat
        BY <4>4
      <4> HIDE DEF u, v, w, z
      <4>8. u = f[x] + v
        BY <4>5, <4>6, <4>7
      <4> QED  BY <4>8 DEF u, v
    <3> QED  BY <3>1, <3>2
  <2> QED  BY <2>5, <2>6
<1>7. ASSUME NEW s \in SUBSET D PROVE Right(s)
  <2>1. Nat \subseteq K
    <3> HIDE DEF K
    <3> QED  BY <1>5, <1>6, SetInduction
  <2>2. Cardinality(s) \in K
    BY <1>3, <2>1
  <2> QED  BY <2>2
<1> QED  BY <1>1, <1>4, <1>7

(* Sums of equal values are equal.                                         *)
LEMMA TotalSame ==
  ASSUME NEW S, IsFiniteSet(S), NEW f, NEW g, \A x \in S : f[x] \in Nat /\ f[x] = g[x]
  PROVE  Total(f, S) = Total(g, S)
<1> DEFINE Good == {T \in SUBSET S : Total(f, T) = Total(g, T)}
<1>1. /\ Total(f, {}) = 0 /\ Total(g, {}) = 0
      /\ \A T \in SUBSET S : \A x \in T : Total(f, T) = f[x] + Total(f, T \ {x})
      /\ \A T \in SUBSET S : \A x \in T : Total(g, T) = g[x] + Total(g, T \ {x})
  BY TotalSplit
<1>2. {} \in Good
  BY <1>1
<1>3. ASSUME NEW T \in SUBSET S, T # {}, T \ {AnyOf(T)} \in Good PROVE T \in Good
  <2>1. AnyOf(T) \in T
    BY <1>3, AnyTaken
  <2> QED  BY <1>1, <1>3, <2>1
<1>4. SUBSET S \subseteq Good
  <2> HIDE DEF Good
  <2> QED  BY <1>2, <1>3, SubsetInduction
<1> QED  BY <1>4

(* A sum over two sets without a common element.                           *)
LEMMA TotalUnion ==
  ASSUME NEW D, IsFiniteSet(D), NEW f, \A x \in D : f[x] \in Nat,
         NEW A \in SUBSET D, NEW B \in SUBSET D, A \cap B = {}
  PROVE  Total(f, A \cup B) = Total(f, A) + Total(f, B)
<1> DEFINE Good == {T \in SUBSET A : Total(f, T \cup B) = Total(f, T) + Total(f, B)}
<1>1. /\ Total(f, {}) = 0 /\ \A S \in SUBSET D : Total(f, S) \in Nat
      /\ \A S \in SUBSET D : \A x \in S : Total(f, S) = f[x] + Total(f, S \ {x})
  BY TotalSplit
<1>2. {} \in Good
  <2>1. {} \cup B = B /\ Total(f, B) \in Nat
    BY <1>1
  <2> QED  BY <1>1, <2>1
<1>3. ASSUME NEW T \in SUBSET A, T # {}, T \ {AnyOf(T)} \in Good PROVE T \in Good
  <2> DEFINE a == AnyOf(T)
             R == T \ {a}
  <2>1. a \in T /\ a \in D /\ f[a] \in Nat
    BY <1>3, AnyTaken
  <2>2. Total(f, R \cup B) = Total(f, R) + Total(f, B)
    BY <1>3
  <2>3. (T \cup B) \ {a} = R \cup B /\ R \in SUBSET D /\ T \cup B \in SUBSET D /\ T \in SUBSET D
    BY <2>1
  <2>4. Total(f, T \cup B) = f[a] + Total(f, (T \cup B) \ {a}) /\ Total(f, T) = f[a] + Total(f, R)
    BY <1>1, <2>1, <2>3
  <2>5. Total(f, R) \in Nat /\ Total(f, B) \in Nat
    BY <1>1, <2>3
  <2> HIDE DEF a, R
  <2>6. Total(f, T \cup B) = f[a] + (Total(f, R) + Total(f, B))
    BY <2>2, <2>3, <2>4
  <2>7. \A i, j, k \in Nat : i + (j + k) = (i + j) + k
    OBVIOUS
  <2>8. f[a] + (Total(f, R) + Total(f, B)) = (f[a] + Total(f, R)) + Total(f, B)
    BY <2>1, <2>5, <2>7
  <2>9. Total(f, T \cup B) = Total(f, T) + Total(f, B)
    BY <2>4, <2>6, <2>8
  <2> QED  BY <2>9
<1>4. SUBSET A \subseteq Good
  <2> HIDE DEF Good
  <2>1. IsFiniteSet(A)
    BY FS_Subset
  <2> QED  BY <1>2, <1>3, <2>1, SubsetInduction
<1> QED  BY <1>4

(* A set whose elements are named once each by those of a finite set.      *)
LEMMA TotalImage ==
  ASSUME NEW S, IsFiniteSet(S), NEW h, NEW f,
         \A x, y \in S : h[x] = h[y] => x = y, \A x \in S : f[h[x]] \in Nat
  PROVE  /\ IsFiniteSet({h[x] : x \in S})
         /\ Total(f, {h[x] : x \in S}) = Total([x \in S |-> f[h[x]]], S)
<1> DEFINE Of(T) == {h[x] : x \in T}
           g == [x \in S |-> f[h[x]]]
           Good == {T \in SUBSET S : Total(f, Of(T)) = Total(g, T)}
<1>1. IsFiniteSet(Of(S))
  <2> DEFINE k == [x \in S |-> h[x]]
  <2>1. k \in Surjection(S, Of(S))
    BY DEF Surjection
  <2> HIDE DEF k, Of
  <2> QED  BY <2>1, FS_Surjection
<1>2. \A y \in Of(S) : f[y] \in Nat
  OBVIOUS
<1>3. \A x \in S : g[x] \in Nat /\ g[x] = f[h[x]]
  OBVIOUS
<1>4. /\ Total(f, {}) = 0 /\ Total(g, {}) = 0
      /\ \A T \in SUBSET Of(S) : \A x \in T : Total(f, T) = f[x] + Total(f, T \ {x})
      /\ \A T \in SUBSET S : \A x \in T : Total(g, T) = g[x] + Total(g, T \ {x})
  <2> HIDE DEF Of, g
  <2> QED  BY <1>1, <1>2, <1>3, TotalSplit
<1>5. {} \in Good
  <2>1. Of({}) = {}
    OBVIOUS
  <2> HIDE DEF Of, g
  <2> QED  BY <1>4, <2>1
<1>6. ASSUME NEW T \in SUBSET S, T # {}, T \ {AnyOf(T)} \in Good PROVE T \in Good
  <2> DEFINE a == AnyOf(T)
  <2>1. a \in T
    BY <1>6, AnyTaken
  <2> HIDE DEF a
  <2>2. Of(T) \ {h[a]} = Of(T \ {a}) /\ h[a] \in Of(T) /\ Of(T) \in SUBSET Of(S)
    BY <2>1
  <2>3. Total(f, Of(T \ {a})) = Total(g, T \ {a})
    BY <1>6 DEF a
  <2> HIDE DEF Of, g
  <2>4. Total(f, Of(T)) = f[h[a]] + Total(f, Of(T \ {a}))
    BY <1>4, <2>2
  <2>5. Total(g, T) = g[a] + Total(g, T \ {a})
    BY <1>4, <2>1
  <2> QED  BY <1>3, <2>1, <2>3, <2>4, <2>5
<1>7. SUBSET S \subseteq Good
  <2> HIDE DEF Good
  <2> QED  BY <1>5, <1>6, SubsetInduction
<1> QED  BY <1>1, <1>7

(* Distribution.                                                           *)
LEMMA Distribution == \A k, u, v \in Nat : k * (u + v) = k * u + k * v /\ (u + v) * k = u * k + v * k
OBVIOUS

(* A common factor.                                                        *)
LEMMA TotalScale ==
  ASSUME NEW S, IsFiniteSet(S), NEW f, \A x \in S : f[x] \in Nat, NEW k \in Nat
  PROVE  Total([x \in S |-> k * f[x]], S) = k * Total(f, S)
<1> DEFINE g == [x \in S |-> k * f[x]]
           Good == {T \in SUBSET S : Total(g, T) = k * Total(f, T)}
<1>1. \A x \in S : g[x] = k * f[x] /\ g[x] \in Nat
  OBVIOUS
<1> HIDE DEF g
<1>2. /\ Total(f, {}) = 0 /\ Total(g, {}) = 0 /\ \A T \in SUBSET S : Total(f, T) \in Nat
      /\ \A T \in SUBSET S : \A x \in T : Total(f, T) = f[x] + Total(f, T \ {x})
      /\ \A T \in SUBSET S : \A x \in T : Total(g, T) = g[x] + Total(g, T \ {x})
  BY <1>1, TotalSplit
<1>3. {} \in Good
  BY <1>2
<1>4. ASSUME NEW T \in SUBSET S, T # {}, T \ {AnyOf(T)} \in Good PROVE T \in Good
  <2> DEFINE a == AnyOf(T)
  <2>1. a \in T
    BY <1>4, AnyTaken
  <2>2. Total(g, T \ {a}) = k * Total(f, T \ {a})
    BY <1>4
  <2> HIDE DEF a
  <2>3. Total(g, T) = k * f[a] + k * Total(f, T \ {a})
    BY <1>1, <1>2, <2>1, <2>2
  <2>4. k * (f[a] + Total(f, T \ {a})) = k * f[a] + k * Total(f, T \ {a})
    BY <1>2, <2>1, Distribution
  <2>5. Total(f, T) = f[a] + Total(f, T \ {a})
    BY <1>2, <2>1
  <2> QED  BY <2>3, <2>4, <2>5
<1>5. SUBSET S \subseteq Good
  <2> HIDE DEF Good
  <2> QED  BY <1>3, <1>4, SubsetInduction
<1> QED  BY <1>5 DEF g

(* What is zero adds nothing.                                              *)
LEMMA TotalOfZeros ==
  ASSUME NEW D, IsFiniteSet(D), NEW f, \A x \in D : f[x] \in Nat,
         NEW S \in SUBSET D, \A x \in D \ S : f[x] = 0
  PROVE  Total(f, D) = Total(f, S)
<1> DEFINE R == D \ S
           z == [x \in R |-> 0 * f[x]]
<1>1. IsFiniteSet(R) /\ \A x \in R : f[x] \in Nat /\ f[x] = z[x]
  BY FS_Subset
<1>2. Total(f, R) = Total(z, R)
  <2> HIDE DEF R, z
  <2> QED  BY <1>1, TotalSame
<1>3. Total(z, R) = 0 * Total(f, R)
  <2> HIDE DEF R
  <2> QED  BY <1>1, TotalScale
<1>4. Total(f, R) \in Nat /\ Total(f, S) \in Nat
  BY TotalSplit
<1>5. Total(f, S \cup R) = Total(f, S) + Total(f, R) /\ S \cup R = D
  BY TotalUnion
<1>6. \A i \in Nat : 0 * i = 0 /\ i + 0 = i
  OBVIOUS
<1>7. Total(f, R) = 0
  <2> HIDE DEF R, z
  <2> QED  BY <1>2, <1>3, <1>4, <1>6
<1>8. Total(f, D) = Total(f, S) + Total(f, R)
  BY <1>5
<1> QED  BY <1>4, <1>6, <1>7, <1>8

(* A sum over sets that have no element in common.                         *)
LEMMA TotalDisjoint ==
  ASSUME NEW D, IsFiniteSet(D), NEW f, \A x \in D : f[x] \in Nat,
         NEW K, IsFiniteSet(K), NEW F, \A k \in K : F[k] \in SUBSET D,
         \A j, k \in K : j # k => F[j] \cap F[k] = {}
  PROVE  Total(f, UNION {F[k] : k \in K}) = Total([k \in K |-> Total(f, F[k])], K)
<1> DEFINE Of(J) == UNION {F[k] : k \in J}
           g == [k \in K |-> Total(f, F[k])]
           Good == {J \in SUBSET K : Total(f, Of(J)) = Total(g, J)}
<1>1. \A S \in SUBSET D : Total(f, S) \in Nat
  BY TotalSplit
<1>2. \A k \in K : g[k] = Total(f, F[k]) /\ g[k] \in Nat
  BY <1>1
<1>3. /\ Total(f, {}) = 0 /\ Total(g, {}) = 0
      /\ \A J \in SUBSET K : \A k \in J : Total(g, J) = g[k] + Total(g, J \ {k})
  <2> HIDE DEF g
  <2> QED  BY <1>2, TotalSplit
<1>4. {} \in Good
  <2>1. Of({}) = {}
    OBVIOUS
  <2> HIDE DEF Of, g
  <2> QED  BY <1>3, <2>1
<1>5. ASSUME NEW J \in SUBSET K, J # {}, J \ {AnyOf(J)} \in Good PROVE J \in Good
  <2> DEFINE a == AnyOf(J)
  <2>1. a \in J
    BY <1>5, AnyTaken
  <2> HIDE DEF a
  <2>2. Of(J) = F[a] \cup Of(J \ {a})
    BY <2>1
  <2>3. F[a] \in SUBSET D /\ Of(J \ {a}) \in SUBSET D /\ F[a] \cap Of(J \ {a}) = {}
    BY <2>1
  <2>4. Total(f, Of(J \ {a})) = Total(g, J \ {a})
    BY <1>5 DEF a
  <2> HIDE DEF Of, g
  <2>5. Total(f, Of(J)) = Total(f, F[a]) + Total(f, Of(J \ {a}))
    <3> DEFINE A == F[a]
               B == Of(J \ {a})
    <3>1. A \in SUBSET D /\ B \in SUBSET D /\ A \cap B = {} /\ Of(J) = A \cup B
      BY <2>2, <2>3
    <3> HIDE DEF A, B
    <3>2. Total(f, A \cup B) = Total(f, A) + Total(f, B)
      BY <3>1, TotalUnion
    <3> QED  BY <3>1, <3>2 DEF A, B
  <2>6. Total(g, J) = Total(f, F[a]) + Total(g, J \ {a})
    BY <1>2, <1>3, <2>1
  <2>7. Total(f, Of(J)) = Total(g, J)
    BY <2>4, <2>5, <2>6
  <2> QED  BY <2>7
<1>6. SUBSET K \subseteq Good
  <2> HIDE DEF Good
  <2> QED  BY <1>4, <1>5, SubsetInduction
<1>7. Total(f, Of(K)) = Total(g, K)
  BY <1>6
<1> QED  BY <1>7

(* The sum of a function is the one over its arguments.                    *)
LEMMA TotalOfSum == \A f : SumFunction(f) = Total(f, DOMAIN f)
BY DEF SumFunction, Total

-----------------------------------------------------------------------------
(* A function on the first numbers is a sequence.                          *)
LEMMA SeqMade ==
  ASSUME NEW T, NEW n \in Nat, NEW f, f = [i \in 1..n |-> f[i]], \A i \in 1..n : f[i] \in T
  PROVE  f \in Seq(T) /\ Len(f) = n
<1>1. f \in [1..n -> T]
  OBVIOUS
<1> QED  BY <1>1

(* The equation by which FlattenSeq puts sequences together.               *)
FlatTable(s, f) == [i \in 1..Len(s) |-> IF i = 1 THEN s[i] ELSE f[i - 1] \o s[i]]

(* It has a solution.                                                      *)
LEMMA FlatExists ==
  ASSUME NEW W, NEW s \in Seq(Seq(W))
  PROVE  \E f : f = FlatTable(s, f)
<1> DEFINE D == 1..Len(s)
           Value(f, i) == IF i = 1 THEN s[i] ELSE f[i - 1] \o s[i]
           Solved(n) == \E f : /\ f = [i \in D |-> f[i]]
                               /\ \A i \in D : i <= n => f[i] = Value(f, i)
           S == {n \in Nat : Solved(n)}
<1>1. Len(s) \in Nat
  OBVIOUS
<1>2. 0 \in S
  <2> DEFINE f == [i \in D |-> <<>>]
  <2>1. f = [i \in D |-> f[i]]
    OBVIOUS
  <2>2. \A i \in D : ~(i <= 0)
    OBVIOUS
  <2> HIDE DEF f, Value
  <2>3. Solved(0)
    BY <2>1, <2>2
  <2> QED  BY <2>3
<1>3. ASSUME NEW n \in Nat, n \in S PROVE n + 1 \in S
  <2>1. PICK f : f = [i \in D |-> f[i]] /\ \A i \in D : i <= n => f[i] = Value(f, i)
    BY <1>3
  <2> DEFINE h == [i \in D |-> IF i <= n THEN f[i] ELSE Value(f, i)]
  <2>2. h = [i \in D |-> h[i]]
    OBVIOUS
  <2>3. ASSUME NEW i \in D, i <= n + 1 PROVE h[i] = Value(h, i)
    <3>1. h[i] = Value(f, i)
      BY <2>1
    <3>2. i # 1 => h[i - 1] = f[i - 1]
      BY <2>3
    <3> HIDE DEF h
    <3> QED  BY <3>1, <3>2
  <2>4. Solved(n + 1)
    <3> HIDE DEF h, Value
    <3> QED  BY <2>2, <2>3
  <2> HIDE DEF Solved
  <2> QED  BY <2>4
<1>4. Len(s) \in S
  <2> HIDE DEF S
  <2> QED  BY <1>1, <1>2, <1>3, SetInduction
<1>5. PICK f : f = [i \in D |-> f[i]] /\ \A i \in D : i <= Len(s) => f[i] = Value(f, i)
  BY <1>4
<1>6. f = [i \in D |-> Value(f, i)]
  <2>0. \A i \in D : i <= Len(s)
    BY <1>1
  <2>1. \A i \in D : f[i] = Value(f, i)
    BY <1>5, <2>0
  <2> HIDE DEF Value
  <2> QED  BY <1>5, <2>1
<1> QED  BY <1>6 DEF FlatTable

Flat(s) == CHOOSE f : f = FlatTable(s, f)

(* The prefixes of the result, and the result.                             *)
LEMMA FlatPrefixes ==
  ASSUME NEW W, NEW s \in Seq(Seq(W))
  PROVE  /\ \A i \in 1..Len(s) : Flat(s)[i] = IF i = 1 THEN s[i] ELSE Flat(s)[i - 1] \o s[i]
         /\ \A i \in 1..Len(s) : Flat(s)[i] \in Seq(W)
         /\ FlattenSeq(s) = IF s = <<>> THEN <<>> ELSE Flat(s)[Len(s)]
<1>1. Flat(s) = FlatTable(s, Flat(s))
  BY FlatExists DEF Flat
<1>2. \A i \in 1..Len(s) : Flat(s)[i] = IF i = 1 THEN s[i] ELSE Flat(s)[i - 1] \o s[i]
  BY <1>1 DEF FlatTable
<1> DEFINE S == {n \in Nat : \A i \in 1..Len(s) : i <= n => Flat(s)[i] \in Seq(W)}
<1>3. Len(s) \in Nat /\ \A i \in 1..Len(s) : s[i] \in Seq(W)
  OBVIOUS
<1>4. 0 \in S
  OBVIOUS
<1>5. ASSUME NEW n \in Nat, n \in S PROVE n + 1 \in S
  <2>1. ASSUME NEW i \in 1..Len(s), i <= n + 1 PROVE Flat(s)[i] \in Seq(W)
    <3>1. CASE i = 1
      BY <1>2, <1>3, <3>1
    <3>2. CASE i # 1
      <4>1. i - 1 \in 1..Len(s) /\ i - 1 <= n
        BY <2>1, <3>2
      <4>2. Flat(s)[i - 1] \in Seq(W)
        BY <1>5, <4>1
      <4> QED  BY <1>2, <1>3, <3>2, <4>2, ConcatProperties, ZenonT(60)
    <3> QED  BY <3>1, <3>2
  <2> QED  BY <2>1
<1>6. Len(s) \in S
  <2> HIDE DEF S
  <2> QED  BY <1>3, <1>4, <1>5, SetInduction
<1>7. \A i \in 1..Len(s) : Flat(s)[i] \in Seq(W)
  BY <1>3, <1>6
<1>8. FlattenSeq(s) = IF s = <<>> THEN <<>> ELSE Flat(s)[Len(s)]
  <2>1. Len(s) = 0 <=> s = <<>>
    OBVIOUS
  <2>2. FlattenSeq(s) = IF Len(s) = 0 THEN s ELSE Flat(s)[Len(s)]
    BY DEF FlattenSeq, Flat, FlatTable
  <2> QED  BY <2>1, <2>2
<1> QED  BY <1>2, <1>7, <1>8

(* Flattening commutes with putting sequences one after the other.         *)
LEMMA FlattenConcat ==
  ASSUME NEW W, NEW s \in Seq(Seq(W)), NEW t \in Seq(Seq(W))
  PROVE  FlattenSeq(s \o t) = FlattenSeq(s) \o FlattenSeq(t)
<1> DEFINE r == s \o t
           m == Len(s)
           n == Len(t)
<1>1. /\ r \in Seq(Seq(W)) /\ Len(r) = m + n /\ m \in Nat /\ n \in Nat
      /\ \A i \in 1..(m + n) : r[i] = IF i <= m THEN s[i] ELSE t[i - m]
  BY ConcatProperties
<1>2. CASE s = <<>>
  <2>0. <<>> \o t = t
    BY ConcatEmptySeq
  <2>1. r = t /\ FlattenSeq(s) = <<>>
    BY <1>2, <2>0, FlatPrefixes
  <2>2. FlattenSeq(t) \in Seq(W)
    BY FlatPrefixes
  <2> QED  BY <2>1, <2>2, ConcatEmptySeq
<1>3. CASE t = <<>>
  <2>0. s \o <<>> = s
    BY ConcatEmptySeq
  <2>1. r = s /\ FlattenSeq(t) = <<>>
    BY <1>3, <2>0, FlatPrefixes
  <2>2. FlattenSeq(s) \in Seq(W)
    BY FlatPrefixes, SMTT(60)
  <2> QED  BY <2>1, <2>2, ConcatEmptySeq
<1>4. CASE s # <<>> /\ t # <<>>
  <2>1. m >= 1 /\ n >= 1 /\ r # <<>>
    BY <1>1, <1>4
  <2> DEFINE u == Flat(s)[m]
             S == {k \in Nat : \A i \in 1..m : i <= k => Flat(r)[i] = Flat(s)[i]}
             T == {k \in Nat : \A i \in 1..n : i <= k => Flat(r)[m + i] = u \o Flat(t)[i]}
  <2>2. /\ \A i \in 1..(m + n) : Flat(r)[i] = IF i = 1 THEN r[i] ELSE Flat(r)[i - 1] \o r[i]
        /\ \A i \in 1..m : Flat(s)[i] = IF i = 1 THEN s[i] ELSE Flat(s)[i - 1] \o s[i]
        /\ \A i \in 1..n : Flat(t)[i] = IF i = 1 THEN t[i] ELSE Flat(t)[i - 1] \o t[i]
        /\ \A i \in 1..m : Flat(s)[i] \in Seq(W)
        /\ \A i \in 1..n : Flat(t)[i] \in Seq(W)
    <3> HIDE DEF r
    <3> QED  BY <1>1, FlatPrefixes
  <2> HIDE DEF r
  <2>3. m \in S
    <3>1. 0 \in S
      OBVIOUS
    <3>2. ASSUME NEW k \in Nat, k \in S PROVE k + 1 \in S
      <4>1. ASSUME NEW i \in 1..m, i <= k + 1 PROVE Flat(r)[i] = Flat(s)[i]
        <5>1. i \in 1..(m + n) /\ r[i] = s[i]
          BY <1>1
        <5>2. CASE i = 1
          BY <2>2, <5>1, <5>2
        <5>3. CASE i # 1
          <6>1. i - 1 \in 1..m /\ i - 1 <= k
            BY <1>1, <4>1, <5>3
          <6>2. Flat(r)[i - 1] = Flat(s)[i - 1]
            BY <3>2, <6>1
          <6> QED  BY <2>2, <5>1, <5>3, <6>2
        <5> QED  BY <5>2, <5>3
      <4> QED  BY <4>1
    <3> HIDE DEF S
    <3> QED  BY <1>1, <3>1, <3>2, SetInduction
  <2>4. Flat(r)[m] = u
    BY <1>1, <2>1, <2>3
  <2>5. u \in Seq(W)
    BY <1>1, <2>1, <2>2
  <2>6. n \in T
    <3>0. n \in Nat /\ m \in Nat
      BY <1>1
    <3>00. \A i \in 1..n : ~(i <= 0)
      BY <3>0
    <3>1. 0 \in T
      <4> HIDE DEF n, m, u
      <4> QED  BY <3>00
    <3>2. ASSUME NEW k \in Nat, k \in T PROVE k + 1 \in T
      <4>1. ASSUME NEW i \in 1..n, i <= k + 1 PROVE Flat(r)[m + i] = u \o Flat(t)[i]
        <5>0. i \in Nat /\ i >= 1 /\ i <= n /\ m \in Nat /\ n \in Nat
          BY <1>1
        <5>1. m + i \in 1..(m + n) /\ m + i # 1 /\ r[m + i] = t[i] /\ (m + i) - 1 = m + (i - 1)
          <6>1. m + i \in 1..(m + n) /\ m + i # 1 /\ ~(m + i <= m) /\ (m + i) - m = i /\ (m + i) - 1 = m + (i - 1)
            <7> HIDE DEF n, m
            <7> QED  BY <5>0, <2>1
          <6>2. r[m + i] = t[(m + i) - m]
            BY <1>1, <6>1
          <6> QED  BY <6>1, <6>2
        <5>2. Flat(r)[m + i] = Flat(r)[m + (i - 1)] \o t[i]
          BY <2>2, <5>1
        <5>3. CASE i = 1
          <6>1. m + (i - 1) = m
            BY <1>1, <5>3
          <6> QED  BY <2>2, <2>4, <5>2, <5>3, <6>1
        <5>4. CASE i # 1
          <6>1. i - 1 \in 1..n /\ i - 1 <= k
            BY <1>1, <4>1, <5>4
          <6>2. Flat(r)[m + (i - 1)] = u \o Flat(t)[i - 1]
            <7> HIDE DEF n, m, u
            <7> QED  BY <3>2, <6>1
          <6>3. Flat(t)[i] = Flat(t)[i - 1] \o t[i]
            BY <2>2, <5>4
          <6>4. t[i] \in Seq(W) /\ Flat(t)[i - 1] \in Seq(W)
            BY <2>2, <6>1
          <6>5. (u \o Flat(t)[i - 1]) \o t[i] = u \o (Flat(t)[i - 1] \o t[i])
            <7>1. \A x, y, z \in Seq(W) : (x \o y) \o z = x \o (y \o z)
              BY ConcatAssociative
            <7> HIDE DEF u
            <7> QED  BY <2>5, <6>4, <7>1, Zenon
          <6> HIDE DEF u
          <6> QED  BY <5>2, <6>2, <6>3, <6>5
        <5> QED  BY <5>3, <5>4
      <4>2. k + 1 \in Nat
        OBVIOUS
      <4> HIDE DEF m, n, u
      <4> QED  BY <4>1, <4>2
    <3> HIDE DEF T, n
    <3> QED  BY <3>0, <3>1, <3>2, SetInduction
  <2>7. Flat(r)[m + n] = u \o Flat(t)[n]
    <3>1. n \in Nat /\ n \in 1..n
      BY <1>1, <2>1
    <3> HIDE DEF m, n, u
    <3> QED  BY <2>6, <3>1
  <2>8. FlattenSeq(r) = Flat(r)[m + n] /\ FlattenSeq(s) = u /\ FlattenSeq(t) = Flat(t)[n]
    BY <1>1, <1>4, <2>1, FlatPrefixes
  <2> QED  BY <2>7, <2>8 DEF r
<1> QED  BY <1>2, <1>3, <1>4

(* One sequence is itself, and none is the empty one.                      *)
LEMMA FlattenOne ==
  ASSUME NEW W, NEW x \in Seq(W)
  PROVE  FlattenSeq(<<x>>) = x /\ FlattenSeq(<<>>) = <<>>
<1>1. <<x>> \in Seq(Seq(W)) /\ <<>> \in Seq(Seq(W))
  OBVIOUS
<1>2. Len(<<x>>) = 1 /\ <<x>>[1] = x /\ <<x>> # <<>>
  OBVIOUS
<1>3. FlattenSeq(<<x>>) = Flat(<<x>>)[1] /\ FlattenSeq(<<>>) = <<>>
  BY <1>1, <1>2, FlatPrefixes
<1>4. Flat(<<x>>)[1] = x
  <2>1. 1 \in 1..Len(<<x>>)
    BY <1>2
  <2> QED  BY <1>1, <1>2, <2>1, FlatPrefixes
<1> QED  BY <1>3, <1>4

(* The elements of the result are those of its parts.                      *)
LEMMA FlattenType ==
  ASSUME NEW W, NEW s \in Seq(Seq(W))
  PROVE  FlattenSeq(s) \in Seq(W)
<1>1. s # <<>> => Len(s) \in 1..Len(s)
  OBVIOUS
<1> QED  BY <1>1, FlatPrefixes

-----------------------------------------------------------------------------
(* What is needed of numbers where terms are large.                        *)
LEMMA Naturals == \A m, n \in Nat : m * n \in Nat /\ m + n \in Nat
OBVIOUS

(* Products of positive numbers are positive.                              *)
LEMMA PositiveProduct == \A m, n \in Nat \ {0} : m * n \in Nat \ {0}
<1> SUFFICES ASSUME NEW m \in Nat \ {0}, NEW n \in Nat \ {0} PROVE m * n \in Nat \ {0}
  OBVIOUS
<1>1. m * n >= m * 1
  OBVIOUS
<1> QED  BY <1>1

Groups(D, up) == {up[r] : r \in D}
GroupSum(D, up, w, f, q) == SumFunction([r \in {p \in D : up[p] = q} |-> w[r] * f[r]])

(* Merging the rules of a table leaves finitely many, with natural sums.   *)
LEMMA TableProjection ==
  ASSUME NEW D, IsFiniteSet(D), NEW up, NEW w \in [D -> Nat], NEW f \in [D -> Nat]
  PROVE  IsFiniteSet(Groups(D, up)) /\ \A q : GroupSum(D, up, w, f, q) \in Nat
<1>1. IsFiniteSet(Groups(D, up))
  BY FiniteImage DEF Groups
<1>2. ASSUME NEW q PROVE GroupSum(D, up, w, f, q) \in Nat
  <2> DEFINE E == {p \in D : up[p] = q}
             g == [r \in E |-> w[r] * f[r]]
  <2>1. IsFiniteSet(E)
    BY FS_Subset, E \in SUBSET D
  <2>2. g \in [E -> Nat]
    BY Naturals
  <2>3. SumFunction(g) \in Nat
    <3> HIDE DEF E, g
    <3> QED  BY <2>1, <2>2, SumOfNaturals
  <2> QED  BY <2>3 DEF GroupSum
<1> QED  BY <1>1, <1>2

(* The symbols that symbols of a level are merged into.                    *)
(* A sum over more, and of no smaller values, is no smaller.               *)
LEMMA TotalAtMost ==
  ASSUME NEW D, IsFiniteSet(D), NEW A \in SUBSET D, NEW f, NEW g,
         \A x \in A : f[x] \in Nat /\ f[x] <= g[x], \A x \in D : g[x] \in Nat
  PROVE  Total(f, A) <= Total(g, D)
<1>0. IsFiniteSet(A)
  BY FS_Subset
<1>1. /\ Total(g, {}) = 0 /\ \A S \in SUBSET D : Total(g, S) \in Nat
      /\ \A S \in SUBSET D : \A x \in S : Total(g, S) = g[x] + Total(g, S \ {x})
  <2>1. IsFiniteSet(D) /\ \A x \in D : g[x] \in Nat
    OBVIOUS
  <2> QED  BY ONLY <2>1, TotalSplit
<1>2. /\ Total(f, {}) = 0 /\ \A S \in SUBSET A : Total(f, S) \in Nat
      /\ \A S \in SUBSET A : \A x \in S : Total(f, S) = f[x] + Total(f, S \ {x})
  BY <1>0, TotalSplit
<1> DEFINE Good == {S \in SUBSET A : Total(f, S) <= Total(g, S)}
<1>3. {} \in Good
  BY <1>1, <1>2
<1>4. ASSUME NEW S \in SUBSET A, S # {}, S \ {AnyOf(S)} \in Good PROVE S \in Good
  <2> DEFINE a == AnyOf(S)
             R == S \ {a}
  <2>1. a \in S /\ R \in SUBSET A /\ R \in SUBSET D /\ S \in SUBSET D
    BY <1>0, <1>4, AnyTaken
  <2>2. Total(f, R) <= Total(g, R) /\ Total(f, R) \in Nat /\ Total(g, R) \in Nat
    BY <1>1, <1>2, <1>4, <2>1
  <2>3. Total(f, S) = f[a] + Total(f, R) /\ Total(g, S) = g[a] + Total(g, R)
    BY <1>1, <1>2, <2>1
  <2>4. f[a] \in Nat /\ f[a] <= g[a] /\ g[a] \in Nat
    BY <2>1
  <2>5. \A i, j, k, m \in Nat : i <= j /\ k <= m => i + k <= j + m
    OBVIOUS
  <2> HIDE DEF a, R
  <2> QED  BY <2>2, <2>3, <2>4, <2>5
<1>5. SUBSET A \subseteq Good
  <2> HIDE DEF Good
  <2> QED  BY <1>0, <1>3, <1>4, SubsetInduction
<1>6. Total(f, A) <= Total(g, A)
  BY <1>5
<1>7. Total(g, D) = Total(g, A) + Total(g, D \ A)
  <2>1. A \cup (D \ A) = D /\ A \cap (D \ A) = {} /\ D \ A \in SUBSET D
    OBVIOUS
  <2> QED  BY <2>1, TotalUnion
<1>8. Total(f, A) \in Nat /\ Total(g, A) \in Nat /\ Total(g, D \ A) \in Nat
  BY <1>1, <1>2
<1> QED  BY <1>6, <1>7, <1>8

(* What lies below a sum and, where it must be exact, misses only zeros.   *)
CloseTo(exact, u, v) == u <= v /\ (exact => u = v)

(* Sums of such values are such values.                                    *)
LEMMA TotalClose ==
  ASSUME NEW D, IsFiniteSet(D), NEW A \in SUBSET D, NEW f, NEW g, NEW exact \in BOOLEAN,
         \A x \in A : f[x] \in Nat /\ CloseTo(exact, f[x], g[x]), \A x \in D : g[x] \in Nat,
         exact => \A x \in D \ A : g[x] = 0
  PROVE  CloseTo(exact, Total(f, A), Total(g, D))
<1>1. \A x \in A : f[x] \in Nat /\ f[x] <= g[x] /\ (exact => f[x] = g[x])
  BY DEF CloseTo
<1>2. Total(f, A) <= Total(g, D)
  BY <1>1, TotalAtMost
<1>3. ASSUME exact PROVE Total(f, A) = Total(g, D)
  <2>1. IsFiniteSet(A)
    BY FS_Subset
  <2>2. \A x \in A : f[x] \in Nat /\ f[x] = g[x]
    BY <1>1, <1>3
  <2>3. Total(f, A) = Total(g, A)
    BY <2>1, <2>2, TotalSame
  <2>4. \A x \in D \ A : g[x] = 0
    BY <1>3
  <2>5. Total(g, D) = Total(g, A)
    BY <2>4, TotalOfZeros
  <2> QED  BY <2>3, <2>5
<1> QED  BY <1>2, <1>3 DEF CloseTo

-----------------------------------------------------------------------------
(* The spans of n words, and the points at which one can be split.         *)
SpansOf(n) == {s \in (0..n) \X (0..n) : s[1] < s[2]}
Width(s) == s[2] - s[1]
MidsOf(s) == (s[1] + 1)..(s[2] - 1)

(* The parts of a span are shorter spans.                                  *)
LEMMA PartsOfSpans ==
  ASSUME NEW n \in Nat \ {0}, NEW s \in SpansOf(n)
  PROVE  /\ s[1] \in 0..(n - 1) /\ s[2] \in 1..n /\ s[1] < s[2] /\ s = <<s[1], s[2]>>
         /\ Width(s) \in Nat \ {0} /\ Width(s) <= n
         /\ Width(s) = 1 <=> s[2] = s[1] + 1
         /\ Width(s) = 1 => MidsOf(s) = {}
         /\ IsFiniteSet(MidsOf(s)) /\ MidsOf(s) \subseteq 0..n
         /\ \A m \in MidsOf(s) :
              /\ <<s[1], m>> \in SpansOf(n) /\ <<m, s[2]>> \in SpansOf(n)
              /\ Width(<<s[1], m>>) < Width(s) /\ Width(<<m, s[2]>>) < Width(s)
              /\ Width(<<s[1], m>>) = m - s[1] /\ Width(<<m, s[2]>>) = s[2] - m
<1>1. /\ s[1] \in 0..(n - 1) /\ s[2] \in 1..n /\ s[1] < s[2] /\ s = <<s[1], s[2]>>
  BY DEF SpansOf
<1>2. /\ Width(s) \in Nat \ {0} /\ Width(s) <= n
      /\ Width(s) = 1 <=> s[2] = s[1] + 1
      /\ Width(s) = 1 => MidsOf(s) = {}
  BY <1>1 DEF Width, MidsOf
<1>3. IsFiniteSet(MidsOf(s)) /\ MidsOf(s) \subseteq 0..n
  <2>1. s[1] + 1 \in Int /\ s[2] - 1 \in Int
    BY <1>1
  <2>2. IsFiniteSet((s[1] + 1)..(s[2] - 1))
    BY <2>1, FS_Interval
  <2> QED  BY <1>1, <2>2 DEF MidsOf
<1>4. ASSUME NEW m \in MidsOf(s)
      PROVE  /\ <<s[1], m>> \in SpansOf(n) /\ <<m, s[2]>> \in SpansOf(n)
             /\ Width(<<s[1], m>>) < Width(s) /\ Width(<<m, s[2]>>) < Width(s)
             /\ Width(<<s[1], m>>) = m - s[1] /\ Width(<<m, s[2]>>) = s[2] - m
  BY <1>1 DEF MidsOf, SpansOf, Width
<1> QED  BY <1>1, <1>2, <1>3, <1>4

(* There are finitely many.                                                *)
LEMMA FiniteSpans == \A n \in Nat : IsFiniteSet(SpansOf(n))
<1> TAKE n \in Nat
<1>1. IsFiniteSet(0..n)
  BY FS_Interval
<1>2. IsFiniteSet((0..n) \X (0..n))
  BY <1>1, FS_Product
<1> QED  BY <1>2, FS_Subset DEF SpansOf

(* Induction on the width of spans.                                        *)
LEMMA SpanInduction ==
  ASSUME NEW n \in Nat \ {0}, NEW G,
         \A s \in SpansOf(n) : (\A t \in SpansOf(n) : Width(t) < Width(s) => t \in G) => s \in G
  PROVE  \A s \in SpansOf(n) : s \in G
<1> DEFINE S == {k \in Nat : \A s \in SpansOf(n) : Width(s) <= k => s \in G}
<1>1. 0 \in S
  BY PartsOfSpans
<1>2. ASSUME NEW k \in Nat, k \in S PROVE k + 1 \in S
  <2> SUFFICES ASSUME NEW s \in SpansOf(n), Width(s) <= k + 1 PROVE s \in G
    OBVIOUS
  <2>1. \A t \in SpansOf(n) : Width(t) < Width(s) => Width(t) <= k
    BY PartsOfSpans
  <2> QED  BY <1>2, <2>1
<1>3. n \in S
  <2> HIDE DEF S
  <2> QED  BY <1>1, <1>2, SetInduction
<1> QED  BY <1>3, PartsOfSpans

-----------------------------------------------------------------------------
(* The trees over some of the constituents, with the table of shorter      *)
(* spans written out, for a grammar g: the number of words, the rules, a   *)
(* table of the words, and the constituents.                               *)
CellTrees(g) == TreesOfCells(g.n, g.model, g.words, g.cells)

CellWords(g, s) ==
  {WordTree(P, s[1], g.words[s[1]][P]) :
     P \in {Q \in DOMAIN g.words[s[1]] : <<s, Q>> \in g.cells /\ g.words[s[1]][Q] > 0}}

CellSplits(g, f, s, m) ==
  {u \in (DOMAIN g.model.bin) \X f[<<s[1], m>>] \X f[<<m, s[2]>>] :
     <<s, u[1][1]>> \in g.cells /\ u[1][2] = u[2].sym /\ u[1][3] = u[3].sym}

CellBinaries(g, f, s) ==
  UNION {{BinaryTree(u[1][1], u[2], u[3], g.model.bin[u[1]]) : u \in CellSplits(g, f, s, m)} :
           m \in (s[1] + 1)..(s[2] - 1)}

CellPlains(g, f, s) == IF s[2] = s[1] + 1 THEN CellWords(g, s) ELSE CellBinaries(g, f, s)

CellUnaries(g, s, plain) ==
  {UnaryTree(u[1][1], u[2], g.model.una[u[1]]) :
     u \in {v \in (DOMAIN g.model.una) \X plain :
              <<s, v[1][1]>> \in g.cells /\ v[1][2] = v[2].sym /\ v[1][1][1] # v[1][2][1]}}

CellTreesOf(g, f, s) == CellPlains(g, f, s) \cup CellUnaries(g, s, CellPlains(g, f, s))

CellTable(g, f) == [s \in SpansOf(g.n) |-> CellTreesOf(g, f, s)]

(* This is the set of trees that is meant.                                 *)
LEMMA SameCellTrees == ASSUME NEW g PROVE CellTrees(g) = CHOOSE f : f = CellTable(g, f)
BY DEF CellTrees, TreesOfCells, TreesOver, SpansOf, CellTable, CellTreesOf, CellUnaries, CellPlains, CellBinaries,
       CellSplits, CellWords

(* The trees over a span need only those over shorter ones.                *)
LEMMA ShorterCellTrees ==
  ASSUME NEW g, g.n \in Nat \ {0}, NEW f, NEW h, NEW s \in SpansOf(g.n),
         \A t \in SpansOf(g.n) : Width(t) < Width(s) => f[t] = h[t]
  PROVE  CellTreesOf(g, f, s) = CellTreesOf(g, h, s)
<1>1. \A m \in MidsOf(s) : f[<<s[1], m>>] = h[<<s[1], m>>] /\ f[<<m, s[2]>>] = h[<<m, s[2]>>]
  BY PartsOfSpans
<1>2. CellBinaries(g, f, s) = CellBinaries(g, h, s)
  <2> DEFINE made(u) == BinaryTree(u[1][1], u[2], u[3], g.model.bin[u[1]])
             row(k, m) == {made(u) : u \in CellSplits(g, k, s, m)}
  <2>1. \A k : CellBinaries(g, k, s) = UNION {row(k, m) : m \in MidsOf(s)}
    BY DEF CellBinaries, MidsOf
  <2>2. \A m \in MidsOf(s) : CellSplits(g, f, s, m) = CellSplits(g, h, s, m)
    BY <1>1 DEF CellSplits
  <2>3. \A m \in MidsOf(s) : row(f, m) = row(h, m)
    <3> HIDE DEF made
    <3> QED  BY <2>2
  <2> HIDE DEF row, made
  <2> QED  BY <2>1, <2>3
<1> QED  BY <1>2 DEF CellTreesOf, CellPlains

(* So the table exists, and is what its definition says.                   *)
LEMMA CellTreesExist ==
  ASSUME NEW g, g.n \in Nat \ {0}
  PROVE  \A s \in SpansOf(g.n) : CellTrees(g)[s] = CellTreesOf(g, CellTrees(g), s)
<1> DEFINE Solved(k) == \E f : /\ f = [s \in SpansOf(g.n) |-> f[s]]
                               /\ \A s \in SpansOf(g.n) : Width(s) <= k => f[s] = CellTreesOf(g, f, s)
           S == {k \in Nat : Solved(k)}
<1>1. 0 \in S
  <2> DEFINE f == [s \in SpansOf(g.n) |-> {}]
  <2>1. f = [s \in SpansOf(g.n) |-> f[s]]
    OBVIOUS
  <2>2. \A s \in SpansOf(g.n) : ~(Width(s) <= 0)
    BY PartsOfSpans
  <2> HIDE DEF f
  <2>3. Solved(0)
    BY <2>1, <2>2
  <2> QED  BY <2>3
<1>2. ASSUME NEW k \in Nat, k \in S PROVE k + 1 \in S
  <2>1. PICK f : /\ f = [s \in SpansOf(g.n) |-> f[s]]
                 /\ \A s \in SpansOf(g.n) : Width(s) <= k => f[s] = CellTreesOf(g, f, s)
    BY <1>2
  <2> DEFINE h == [s \in SpansOf(g.n) |-> IF Width(s) <= k THEN f[s] ELSE CellTreesOf(g, f, s)]
  <2>2. h = [s \in SpansOf(g.n) |-> h[s]]
    OBVIOUS
  <2>3. ASSUME NEW s \in SpansOf(g.n), Width(s) <= k + 1 PROVE h[s] = CellTreesOf(g, h, s)
    <3>1. h[s] = CellTreesOf(g, f, s)
      BY <2>1
    <3>2. \A t \in SpansOf(g.n) : Width(t) < Width(s) => f[t] = h[t]
      BY <2>3, PartsOfSpans
    <3> HIDE DEF h
    <3>3. CellTreesOf(g, f, s) = CellTreesOf(g, h, s)
      BY <3>2, ShorterCellTrees
    <3> QED  BY <3>1, <3>3
  <2>4. Solved(k + 1)
    <3> HIDE DEF h
    <3> QED  BY <2>2, <2>3
  <2> HIDE DEF Solved
  <2> QED  BY <2>4
<1>3. g.n \in S
  <2> HIDE DEF S
  <2> QED  BY <1>1, <1>2, SetInduction
<1>4. PICK f : f = [s \in SpansOf(g.n) |-> f[s]] /\ \A s \in SpansOf(g.n) : f[s] = CellTreesOf(g, f, s)
  BY <1>3, PartsOfSpans
<1>5. f = CellTable(g, f)
  BY <1>4 DEF CellTable
<1>6. CellTrees(g) = CellTable(g, CellTrees(g))
  BY <1>5, SameCellTrees
<1> QED  BY <1>6 DEF CellTable

(* The kinds of trees over a span.                                         *)
CellWord(g, s, x) ==
  Width(s) = 1 /\ \E P \in DOMAIN g.words[s[1]] :
    <<s, P>> \in g.cells /\ g.words[s[1]][P] > 0 /\ x = WordTree(P, s[1], g.words[s[1]][P])

CellJoined(g, s, x) ==
  \E r \in DOMAIN g.model.bin, m \in MidsOf(s) :
    \E a \in CellTrees(g)[<<s[1], m>>], b \in CellTrees(g)[<<m, s[2]>>] :
      <<s, r[1]>> \in g.cells /\ a.sym = r[2] /\ b.sym = r[3] /\ x = BinaryTree(r[1], a, b, g.model.bin[r])

CellPlain(g, s, x) == CellWord(g, s, x) \/ CellJoined(g, s, x)

CellRaised(g, s, x) ==
  \E r \in DOMAIN g.model.una : \E a :
    /\ CellPlain(g, s, a) /\ <<s, r[1]>> \in g.cells /\ a.sym = r[2] /\ r[1][1] # r[2][1]
    /\ x = UnaryTree(r[1], a, g.model.una[r])

(* All trees over a span are of these kinds.                               *)
LEMMA CellKinds ==
  ASSUME NEW g, g.n \in Nat \ {0}, NEW s \in SpansOf(g.n)
  PROVE  \A x : x \in CellTrees(g)[s] <=> CellPlain(g, s, x) \/ CellRaised(g, s, x)
<1> DEFINE T == CellTrees(g)
           plain == CellPlains(g, T, s)
<1>1. \A x : x \in CellWords(g, s) <=> \E P \in DOMAIN g.words[s[1]] :
        <<s, P>> \in g.cells /\ g.words[s[1]][P] > 0 /\ x = WordTree(P, s[1], g.words[s[1]][P])
  BY DEF CellWords
<1>2. \A x : x \in CellBinaries(g, T, s) <=> CellJoined(g, s, x)
  <2> DEFINE B == g.model.bin
  <2>1. \A x : x \in CellBinaries(g, T, s) <=>
          \E m \in MidsOf(s) : \E u \in CellSplits(g, T, s, m) : x = BinaryTree(u[1][1], u[2], u[3], B[u[1]])
    BY DEF CellBinaries, MidsOf
  <2>2. \A m, u : u \in CellSplits(g, T, s, m) <=>
          /\ u \in (DOMAIN B) \X T[<<s[1], m>>] \X T[<<m, s[2]>>]
          /\ <<s, u[1][1]>> \in g.cells /\ u[1][2] = u[2].sym /\ u[1][3] = u[3].sym
    BY DEF CellSplits
  <2>0. \A x : CellJoined(g, s, x) <=>
          \E r \in DOMAIN B, m \in MidsOf(s) : \E a \in T[<<s[1], m>>], b \in T[<<m, s[2]>>] :
            <<s, r[1]>> \in g.cells /\ a.sym = r[2] /\ b.sym = r[3] /\ x = BinaryTree(r[1], a, b, B[r])
    BY DEF CellJoined
  <2> HIDE DEF B, T
  <2> TAKE x
  <2>3. ASSUME x \in CellBinaries(g, T, s) PROVE CellJoined(g, s, x)
    <3>1. PICK m \in MidsOf(s) : \E u \in CellSplits(g, T, s, m) : x = BinaryTree(u[1][1], u[2], u[3], B[u[1]])
      BY <2>1, <2>3
    <3>2. PICK u \in CellSplits(g, T, s, m) : x = BinaryTree(u[1][1], u[2], u[3], B[u[1]])
      BY <3>1
    <3>3. /\ u[1] \in DOMAIN B /\ u[2] \in T[<<s[1], m>>] /\ u[3] \in T[<<m, s[2]>>]
          /\ <<s, u[1][1]>> \in g.cells /\ u[2].sym = u[1][2] /\ u[3].sym = u[1][3]
      BY <2>2
    <3> QED  BY <2>0, <3>2, <3>3
  <2>4. ASSUME CellJoined(g, s, x) PROVE x \in CellBinaries(g, T, s)
    <3>1. PICK r \in DOMAIN B, m \in MidsOf(s) : \E a \in T[<<s[1], m>>], b \in T[<<m, s[2]>>] :
            <<s, r[1]>> \in g.cells /\ a.sym = r[2] /\ b.sym = r[3] /\ x = BinaryTree(r[1], a, b, B[r])
      BY <2>0, <2>4
    <3>2. PICK a \in T[<<s[1], m>>], b \in T[<<m, s[2]>>] :
            <<s, r[1]>> \in g.cells /\ a.sym = r[2] /\ b.sym = r[3] /\ x = BinaryTree(r[1], a, b, B[r])
      BY <3>1
    <3> DEFINE u == <<r, a, b>>
    <3>3. u \in (DOMAIN B) \X T[<<s[1], m>>] \X T[<<m, s[2]>>] /\ u[1] = r /\ u[2] = a /\ u[3] = b
      BY <3>2
    <3> HIDE DEF u
    <3>4. u \in CellSplits(g, T, s, m)
      BY <2>2, <3>2, <3>3
    <3>5. x = BinaryTree(u[1][1], u[2], u[3], B[u[1]])
      BY <3>2, <3>3
    <3> QED  BY <2>1, <3>4, <3>5
  <2> QED  BY <2>3, <2>4
<1>3. \A x : x \in plain <=> CellPlain(g, s, x)
  <2>1. Width(s) = 1 <=> s[2] = s[1] + 1
    BY PartsOfSpans
  <2>2. CASE Width(s) = 1
    <3>1. \A x : ~CellJoined(g, s, x)
      BY <2>2, PartsOfSpans DEF CellJoined
    <3> QED  BY <1>1, <2>1, <2>2, <3>1 DEF CellPlains, CellPlain, CellWord
  <2>3. CASE Width(s) # 1
    BY <1>2, <2>1, <2>3 DEF CellPlains, CellPlain, CellWord
  <2> QED  BY <2>2, <2>3
<1> HIDE DEF plain
<1>4. \A x : x \in CellUnaries(g, s, plain) <=> CellRaised(g, s, x)
  <2> DEFINE U == g.model.una
  <2>0. \A x : CellRaised(g, s, x) <=>
          \E r \in DOMAIN U : \E a :
            /\ CellPlain(g, s, a) /\ <<s, r[1]>> \in g.cells /\ a.sym = r[2] /\ r[1][1] # r[2][1]
            /\ x = UnaryTree(r[1], a, U[r])
    BY DEF CellRaised
  <2>1. \A x : x \in CellUnaries(g, s, plain) <=>
          \E u \in (DOMAIN U) \X plain :
            /\ <<s, u[1][1]>> \in g.cells /\ u[1][2] = u[2].sym /\ u[1][1][1] # u[1][2][1]
            /\ x = UnaryTree(u[1][1], u[2], U[u[1]])
    BY DEF CellUnaries
  <2> HIDE DEF U
  <2> TAKE x
  <2>2. ASSUME x \in CellUnaries(g, s, plain) PROVE CellRaised(g, s, x)
    <3>1. PICK u \in (DOMAIN U) \X plain :
            /\ <<s, u[1][1]>> \in g.cells /\ u[1][2] = u[2].sym /\ u[1][1][1] # u[1][2][1]
            /\ x = UnaryTree(u[1][1], u[2], U[u[1]])
      BY <2>1, <2>2
    <3>2. u[1] \in DOMAIN U /\ CellPlain(g, s, u[2])
      BY <1>3, <3>1
    <3> QED  BY <2>0, <3>1, <3>2
  <2>3. ASSUME CellRaised(g, s, x) PROVE x \in CellUnaries(g, s, plain)
    <3>1. PICK r \in DOMAIN U : \E a :
            /\ CellPlain(g, s, a) /\ <<s, r[1]>> \in g.cells /\ a.sym = r[2] /\ r[1][1] # r[2][1]
            /\ x = UnaryTree(r[1], a, U[r])
      BY <2>0, <2>3
    <3>2. PICK a :
            /\ CellPlain(g, s, a) /\ <<s, r[1]>> \in g.cells /\ a.sym = r[2] /\ r[1][1] # r[2][1]
            /\ x = UnaryTree(r[1], a, U[r])
      BY <3>1
    <3> DEFINE u == <<r, a>>
    <3>3. u \in (DOMAIN U) \X plain /\ u[1] = r /\ u[2] = a
      BY <1>3, <3>2
    <3> HIDE DEF u
    <3> QED  BY <2>1, <3>2, <3>3
  <2> QED  BY <2>2, <2>3
<1>5. T[s] = plain \cup CellUnaries(g, s, plain)
  BY CellTreesExist DEF CellTreesOf, plain
<1> HIDE DEF T
<1> QED  BY <1>3, <1>4, <1>5 DEF T

-----------------------------------------------------------------------------
(* A grammar has finitely many rules, with scores, and words of finitely   *)
(* many symbols.                                                           *)
IsGrammar(g) ==
  /\ g.n \in Nat \ {0}
  /\ IsFiniteSet(DOMAIN g.model.bin) /\ \A r \in DOMAIN g.model.bin : g.model.bin[r] \in Nat \ {0}
  /\ IsFiniteSet(DOMAIN g.model.una) /\ \A r \in DOMAIN g.model.una : g.model.una[r] \in Nat \ {0}
  /\ \A b \in 0..(g.n - 1) : IsFiniteSet(DOMAIN g.words[b]) /\ \A P \in DOMAIN g.words[b] : g.words[b][P] \in Nat

GrammarTrees(g) == UNION {CellTrees(g)[s] : s \in SpansOf(g.n)}

(* The parts of a new tree.                                                *)
LEMMA TreeParts ==
  /\ \A P, b, v : LET x == WordTree(P, b, v) IN
       x.sym = P /\ x.span = <<b, b + 1>> /\ x.unary = FALSE /\ x.score = v /\ x.kids = <<>>
       /\ x.cells = {<<<<b, b + 1>>, P>>}
  /\ \A P, a, k : LET x == UnaryTree(P, a, k) IN
       x.sym = P /\ x.span = a.span /\ x.unary = TRUE /\ x.score = k * a.score /\ x.kids = <<a>>
       /\ x.cells = a.cells \cup {<<a.span, P>>}
  /\ \A P, a, b, k : LET x == BinaryTree(P, a, b, k) IN
       x.sym = P /\ x.span = <<a.span[1], b.span[2]>> /\ x.unary = FALSE
       /\ x.score = k * a.score * b.score /\ x.kids = <<a, b>>
       /\ x.cells = a.cells \cup b.cells \cup {<<<<a.span[1], b.span[2]>>, P>>}
BY DEF WordTree, UnaryTree, BinaryTree

(* What the parts of a tree over a span show.                              *)
FitsCell(g, s, x) == x.span = s /\ x.score \in Nat \ {0} /\ <<s, x.sym>> \in g.cells

(* Trees of words and of binary rules, if those below have the parts.      *)
LEMMA PlainFits ==
  ASSUME NEW g, IsGrammar(g), NEW s \in SpansOf(g.n), NEW x, CellPlain(g, s, x),
         \A t \in SpansOf(g.n) : Width(t) < Width(s) => \A y \in CellTrees(g)[t] : FitsCell(g, t, y)
  PROVE  FitsCell(g, s, x) /\ x.unary = FALSE
<1>0. g.n \in Nat \ {0} /\ s[1] \in 0..(g.n - 1) /\ s = <<s[1], s[2]>> /\ s[2] \in Int
  BY PartsOfSpans DEF IsGrammar
<1>1. CASE CellWord(g, s, x)
  <2>1. PICK P \in DOMAIN g.words[s[1]] :
          <<s, P>> \in g.cells /\ g.words[s[1]][P] > 0 /\ x = WordTree(P, s[1], g.words[s[1]][P])
    BY <1>1 DEF CellWord
  <2>2. g.words[s[1]][P] \in Nat
    BY <1>0 DEF IsGrammar
  <2>3. x.sym = P /\ x.span = <<s[1], s[1] + 1>> /\ x.unary = FALSE /\ x.score = g.words[s[1]][P]
    BY <2>1, TreeParts
  <2>4. s[2] = s[1] + 1
    BY <1>0, <1>1, PartsOfSpans DEF CellWord
  <2>5. x.span = s
    BY <1>0, <2>3, <2>4
  <2> QED  BY <2>1, <2>2, <2>3, <2>5 DEF FitsCell
<1>2. CASE CellJoined(g, s, x)
  <2>1. PICK r \in DOMAIN g.model.bin, m \in MidsOf(s) :
          \E a \in CellTrees(g)[<<s[1], m>>], b \in CellTrees(g)[<<m, s[2]>>] :
            <<s, r[1]>> \in g.cells /\ x = BinaryTree(r[1], a, b, g.model.bin[r])
    BY <1>2 DEF CellJoined
  <2>2. PICK a \in CellTrees(g)[<<s[1], m>>], b \in CellTrees(g)[<<m, s[2]>>] :
            <<s, r[1]>> \in g.cells /\ x = BinaryTree(r[1], a, b, g.model.bin[r])
    BY <2>1
  <2>3. FitsCell(g, <<s[1], m>>, a) /\ FitsCell(g, <<m, s[2]>>, b)
    BY <1>0, PartsOfSpans
  <2>4. /\ x.sym = r[1] /\ x.span = <<a.span[1], b.span[2]>> /\ x.unary = FALSE
        /\ x.score = g.model.bin[r] * a.score * b.score
    BY <2>2, TreeParts
  <2>5. a.span[1] = s[1] /\ b.span[2] = s[2] /\ a.score \in Nat \ {0} /\ b.score \in Nat \ {0}
    BY <2>3 DEF FitsCell
  <2>6. g.model.bin[r] \in Nat \ {0}
    BY DEF IsGrammar
  <2>7. x.score \in Nat \ {0}
    BY <2>4, <2>5, <2>6, PositiveProduct
  <2>8. x.span = s
    BY <1>0, <2>4, <2>5
  <2> QED  BY <2>2, <2>4, <2>7, <2>8 DEF FitsCell
<1> QED  BY <1>1, <1>2 DEF CellPlain

(* And those of unary rules.                                               *)
LEMMA RaisedFits ==
  ASSUME NEW g, IsGrammar(g), NEW s \in SpansOf(g.n), NEW x, CellRaised(g, s, x),
         \A t \in SpansOf(g.n) : Width(t) < Width(s) => \A y \in CellTrees(g)[t] : FitsCell(g, t, y)
  PROVE  FitsCell(g, s, x) /\ x.unary = TRUE
<1>1. PICK r \in DOMAIN g.model.una : \E a :
        CellPlain(g, s, a) /\ <<s, r[1]>> \in g.cells /\ x = UnaryTree(r[1], a, g.model.una[r])
  BY DEF CellRaised
<1>2. PICK a : CellPlain(g, s, a) /\ <<s, r[1]>> \in g.cells /\ x = UnaryTree(r[1], a, g.model.una[r])
  BY <1>1
<1>3. a.span = s /\ a.score \in Nat \ {0}
  <2>1. FitsCell(g, s, a)
    BY <1>2, PlainFits
  <2> QED  BY <2>1 DEF FitsCell
<1>4. x.sym = r[1] /\ x.span = a.span /\ x.unary = TRUE /\ x.score = g.model.una[r] * a.score
  BY <1>2, TreeParts
<1>5. g.model.una[r] \in Nat \ {0}
  BY DEF IsGrammar
<1>6. x.score \in Nat \ {0}
  BY <1>3, <1>4, <1>5, PositiveProduct
<1> QED  BY <1>2, <1>3, <1>4, <1>6 DEF FitsCell

(* So all trees have them, and those of unary rules are known by a flag.   *)
LEMMA CellFacts ==
  ASSUME NEW g, IsGrammar(g), NEW s \in SpansOf(g.n)
  PROVE  /\ \A x \in CellTrees(g)[s] : FitsCell(g, s, x) /\ x.unary \in BOOLEAN
         /\ \A x : CellPlain(g, s, x) <=> x \in CellTrees(g)[s] /\ x.unary = FALSE
         /\ \A x : CellRaised(g, s, x) <=> x \in CellTrees(g)[s] /\ x.unary = TRUE
<1> DEFINE G == {t \in SpansOf(g.n) : \A x \in CellTrees(g)[t] : FitsCell(g, t, x)}
<1>0. g.n \in Nat \ {0}
  BY DEF IsGrammar
<1>1. ASSUME NEW t \in SpansOf(g.n), \A u \in SpansOf(g.n) : Width(u) < Width(t) => u \in G PROVE t \in G
  <2> SUFFICES ASSUME NEW x \in CellTrees(g)[t] PROVE FitsCell(g, t, x)
    OBVIOUS
  <2>1. CellPlain(g, t, x) \/ CellRaised(g, t, x)
    BY <1>0, CellKinds
  <2>2. \A u \in SpansOf(g.n) : Width(u) < Width(t) => \A y \in CellTrees(g)[u] : FitsCell(g, u, y)
    BY <1>1
  <2> QED  BY <2>1, <2>2, PlainFits, RaisedFits
<1>2. \A t \in SpansOf(g.n) : t \in G
  <2> HIDE DEF G
  <2> QED  BY <1>0, <1>1, SpanInduction
<1>3. \A t \in SpansOf(g.n) : \A x \in CellTrees(g)[t] : FitsCell(g, t, x)
  BY <1>2
<1>4. \A x : (CellPlain(g, s, x) => x.unary = FALSE) /\ (CellRaised(g, s, x) => x.unary = TRUE)
  BY <1>3, PlainFits, RaisedFits
<1>5. \A x : x \in CellTrees(g)[s] <=> CellPlain(g, s, x) \/ CellRaised(g, s, x)
  BY <1>0, CellKinds
<1> QED  BY <1>3, <1>4, <1>5

(* There are finitely many trees.                                          *)
LEMMA FiniteCells ==
  ASSUME NEW g, IsGrammar(g)
  PROVE  IsFiniteSet(GrammarTrees(g)) /\ \A s \in SpansOf(g.n) : IsFiniteSet(CellTrees(g)[s])
<1> DEFINE G == {t \in SpansOf(g.n) : IsFiniteSet(CellTrees(g)[t])}
           D == GrammarTrees(g)
           Bin == DOMAIN g.model.bin
           Una == DOMAIN g.model.una
<1>0. g.n \in Nat \ {0} /\ IsFiniteSet(Bin) /\ IsFiniteSet(Una)
  BY DEF IsGrammar
<1>1. ASSUME NEW s \in SpansOf(g.n), \A t \in SpansOf(g.n) : Width(t) < Width(s) => t \in G PROVE s \in G
  <2> DEFINE I == DOMAIN g.words[s[1]]
             word == [P \in I |-> WordTree(P, s[1], g.words[s[1]][P])]
             W == {word[P] : P \in I}
             join == [u \in Bin \X (D \X D) |-> BinaryTree(u[1][1], u[2][1], u[2][2], g.model.bin[u[1]])]
             parts(m) == Bin \X (CellTrees(g)[<<s[1], m>>] \X CellTrees(g)[<<m, s[2]>>])
             J(m) == {join[u] : u \in parts(m)}
             Js == UNION {J(m) : m \in MidsOf(s)}
             raise == [u \in Una \X (W \cup Js) |-> UnaryTree(u[1][1], u[2], g.model.una[u[1]])]
             R == {raise[u] : u \in Una \X (W \cup Js)}
  <2>1. IsFiniteSet(W)
    <3>1. IsFiniteSet(I)
      BY <1>0, PartsOfSpans DEF IsGrammar
    <3> HIDE DEF word, I
    <3> QED  BY <3>1, FiniteImage
  <2>2. ASSUME NEW m \in MidsOf(s) PROVE IsFiniteSet(J(m))
    <3>1. IsFiniteSet(CellTrees(g)[<<s[1], m>>]) /\ IsFiniteSet(CellTrees(g)[<<m, s[2]>>])
      BY <1>0, <1>1, PartsOfSpans
    <3>2. IsFiniteSet(parts(m))
      BY <1>0, <3>1, FS_Product
    <3> HIDE DEF join, parts
    <3> QED  BY <3>2, FiniteImage
  <2>3. IsFiniteSet(Js)
    <3> DEFINE row == [m \in MidsOf(s) |-> J(m)]
               Rows == {row[m] : m \in MidsOf(s)}
    <3>1. IsFiniteSet(MidsOf(s))
      BY <1>0, PartsOfSpans
    <3>2. IsFiniteSet(Rows)
      <4> HIDE DEF row
      <4> QED  BY <3>1, FiniteImage
    <3>3. \A Z \in Rows : IsFiniteSet(Z)
      BY <2>2
    <3>4. Js = UNION Rows
      <4> HIDE DEF J
      <4> QED  OBVIOUS
    <3> HIDE DEF Rows, Js
    <3> QED  BY <3>2, <3>3, <3>4, FS_UNION
  <2>4. ASSUME NEW x, CellWord(g, s, x) PROVE x \in W
    BY <2>4 DEF CellWord
  <2>5. ASSUME NEW x, CellJoined(g, s, x) PROVE x \in Js
    <3>1. PICK r \in Bin, m \in MidsOf(s) : \E a \in CellTrees(g)[<<s[1], m>>], b \in CellTrees(g)[<<m, s[2]>>] :
            x = BinaryTree(r[1], a, b, g.model.bin[r])
      BY <2>5 DEF CellJoined
    <3>2. PICK a \in CellTrees(g)[<<s[1], m>>], b \in CellTrees(g)[<<m, s[2]>>] :
            x = BinaryTree(r[1], a, b, g.model.bin[r])
      BY <3>1
    <3>3. a \in D /\ b \in D
      BY <1>0, PartsOfSpans DEF GrammarTrees
    <3> DEFINE u == <<r, <<a, b>>>>
    <3> HIDE DEF D
    <3>4. u \in parts(m) /\ u \in Bin \X (D \X D)
      BY <3>3
    <3>5. join[u] = x
      BY <3>2, <3>4
    <3> HIDE DEF u, join, parts
    <3> QED  BY <3>4, <3>5
  <2>6. IsFiniteSet(W \cup Js)
    <3> HIDE DEF W, Js
    <3> QED  BY <2>1, <2>3, FS_Union
  <2>7. IsFiniteSet(R)
    <3>1. IsFiniteSet(Una \X (W \cup Js))
      <4> HIDE DEF W, Js, Una
      <4> QED  BY <1>0, <2>6, FS_Product
    <3> HIDE DEF raise, W, Js
    <3> QED  BY <3>1, FiniteImage
  <2>8. ASSUME NEW x, CellPlain(g, s, x) PROVE x \in W \cup Js
    BY <2>4, <2>5, <2>8 DEF CellPlain
  <2> HIDE DEF W, Js
  <2>9. ASSUME NEW x, CellRaised(g, s, x) PROVE x \in R
    <3>1. PICK r \in Una : \E a : CellPlain(g, s, a) /\ x = UnaryTree(r[1], a, g.model.una[r])
      BY <2>9 DEF CellRaised
    <3>2. PICK a : CellPlain(g, s, a) /\ x = UnaryTree(r[1], a, g.model.una[r])
      BY <3>1
    <3> DEFINE u == <<r, a>>
    <3>3. u \in Una \X (W \cup Js)
      BY <2>8, <3>2
    <3>4. raise[u] = x
      BY <3>2, <3>3
    <3> HIDE DEF u, raise
    <3> QED  BY <3>3, <3>4
  <2> HIDE DEF R
  <2>10. CellTrees(g)[s] \subseteq (W \cup Js) \cup R
    BY <1>0, <2>8, <2>9, CellKinds
  <2>11. IsFiniteSet((W \cup Js) \cup R)
    BY <2>6, <2>7, FS_Union
  <2> QED  BY <2>10, <2>11, FS_Subset
<1>2. \A s \in SpansOf(g.n) : s \in G
  <2> HIDE DEF G
  <2> QED  BY <1>0, <1>1, SpanInduction
<1>3. \A s \in SpansOf(g.n) : IsFiniteSet(CellTrees(g)[s])
  BY <1>2
<1>4. IsFiniteSet(GrammarTrees(g))
  <2> DEFINE row == [s \in SpansOf(g.n) |-> CellTrees(g)[s]]
             Rows == {row[s] : s \in SpansOf(g.n)}
  <2>1. IsFiniteSet(Rows)
    <3> HIDE DEF row
    <3> QED  BY <1>0, FiniteSpans, FiniteImage
  <2>2. \A Z \in Rows : IsFiniteSet(Z)
    BY <1>3
  <2>3. GrammarTrees(g) = UNION Rows
    BY DEF GrammarTrees
  <2> HIDE DEF Rows
  <2> QED  BY <2>1, <2>2, <2>3, FS_UNION
<1> QED  BY <1>3, <1>4

(* The total score of a set of trees, among the trees of U.                *)
ScoresIn(U) == [t \in U |-> t.score]
ScoreIn(U, A) == Total(ScoresIn(U), A)

(* Totals of trees are naturals, and add up.                               *)
LEMMA ScoreTotals ==
  ASSUME NEW U, IsFiniteSet(U), \A t \in U : t.score \in Nat
  PROVE  /\ \A t \in U : ScoresIn(U)[t] = t.score /\ ScoresIn(U)[t] \in Nat
         /\ IsFiniteSet(U) /\ \A A \in SUBSET U : IsFiniteSet(A) /\ ScoreIn(U, A) \in Nat
         /\ ScoreIn(U, {}) = 0
         /\ \A t \in U : ScoreIn(U, {t}) = t.score
         /\ \A A, B \in SUBSET U : A \cap B = {} => ScoreIn(U, A \cup B) = ScoreIn(U, A) + ScoreIn(U, B)
<1>1. \A t \in U : ScoresIn(U)[t] = t.score /\ ScoresIn(U)[t] \in Nat
  BY DEF ScoresIn
<1>3. /\ ScoreIn(U, {}) = 0 /\ \A A \in SUBSET U : ScoreIn(U, A) \in Nat
      /\ \A A \in SUBSET U : \A x \in A : ScoreIn(U, A) = ScoresIn(U)[x] + ScoreIn(U, A \ {x})
  <2>1. IsFiniteSet(U) /\ \A t \in U : ScoresIn(U)[t] \in Nat
    BY <1>1
  <2> QED  BY ONLY <2>1, TotalSplit DEF ScoreIn
<1>4. \A A, B \in SUBSET U : A \cap B = {} => ScoreIn(U, A \cup B) = ScoreIn(U, A) + ScoreIn(U, B)
  BY <1>1, TotalUnion DEF ScoreIn
<1>5. \A t \in U : ScoreIn(U, {t}) = t.score
  <2> TAKE t \in U
  <2>1. ScoreIn(U, {t}) = ScoresIn(U)[t] + ScoreIn(U, {t} \ {t})
    BY <1>3
  <2>2. {t} \ {t} = {}
    OBVIOUS
  <2> QED  BY <1>1, <1>3, <2>1, <2>2
<1>6. \A A \in SUBSET U : IsFiniteSet(A)
  BY FS_Subset
<1> QED  BY <1>1, <1>3, <1>4, <1>5, <1>6

(* The total that the property names is this one.                          *)
LEMMA ScoreOfIsTotal ==
  ASSUME NEW U, IsFiniteSet(U), \A t \in U : t.score \in Nat,
         NEW A \in SUBSET U
  PROVE  ScoreOf(A) = ScoreIn(U, A)
<1> DEFINE Table(h) == [s \in SUBSET A |-> IF s = {} THEN 0 ELSE AnyOf(s).score + h[s \ {AnyOf(s)}]]
           h == CHOOSE h : h = Table(h)
<1>1. ScoreOf(A) = h[A]
  BY DEF ScoreOf, MapThenSumSet, MapThenFoldSet, AnyOf
<1>2. IsFiniteSet(A) /\ \A t \in A : ScoresIn(U)[t] = t.score
  BY ScoreTotals
<1>3. PICK g : g = SumTable(ScoresIn(U), A, g) /\ \A S \in SUBSET A : Total(ScoresIn(U), S) = g[S]
  BY <1>2, TotalTable
<1>4. \A s \in SUBSET A : s # {} => ScoresIn(U)[AnyOf(s)] = AnyOf(s).score
  BY <1>2, AnyTaken
<1>5. SumTable(ScoresIn(U), A, g) = Table(g)
  BY <1>4 DEF SumTable
<1>6. h = Table(h)
  BY <1>3, <1>5
<1> HIDE DEF h
<1>7. \A s \in SUBSET A : h[s] = IF s = {} THEN 0 ELSE AnyOf(s).score + h[s \ {AnyOf(s)}]
  BY <1>6
<1>8. \A s \in SUBSET A : g[s] = IF s = {} THEN 0 ELSE AnyOf(s).score + g[s \ {AnyOf(s)}]
  BY <1>3, <1>5
<1> DEFINE Good == {s \in SUBSET A : h[s] = g[s]}
<1>9. {} \in Good
  BY <1>7, <1>8
<1>10. ASSUME NEW s \in SUBSET A, s # {}, s \ {AnyOf(s)} \in Good PROVE s \in Good
  BY <1>7, <1>8, <1>10
<1>11. SUBSET A \subseteq Good
  <2> HIDE DEF Good
  <2> QED  BY <1>2, <1>9, <1>10, SubsetInduction
<1> QED  BY <1>1, <1>3, <1>11 DEF ScoreIn

(* The trees a binary rule makes of two sets of trees.                     *)
Joins(P, A, D, k) == {BinaryTree(P, x, y, k) : x \in A, y \in D}

(* Their total score.                                                      *)
LEMMA ScoreOfJoins ==
  ASSUME NEW U, IsFiniteSet(U), \A t \in U : t.score \in Nat,
         NEW A \in SUBSET U, NEW D \in SUBSET U, NEW P, NEW k \in Nat,
         \A x \in A, y \in D : BinaryTree(P, x, y, k) \in U
  PROVE  ScoreIn(U, Joins(P, A, D, k)) = k * ScoreIn(U, A) * ScoreIn(U, D)
<1> DEFINE Join(x, y) == BinaryTree(P, x, y, k)
           Q == {Join(x, y) : x \in A, y \in D}
           row(x) == [y \in D |-> Join(x, y)]
           F == [x \in A |-> {row(x)[y] : y \in D}]
<1>1. /\ \A t \in U : ScoresIn(U)[t] = t.score /\ ScoresIn(U)[t] \in Nat
      /\ IsFiniteSet(A) /\ IsFiniteSet(D) /\ IsFiniteSet(U)
      /\ ScoreIn(U, A) \in Nat /\ ScoreIn(U, D) \in Nat
  BY ScoreTotals
<1>2. ASSUME NEW x \in A PROVE ScoreIn(U, F[x]) = (k * x.score) * ScoreIn(U, D)
  <2> DEFINE h == row(x)
             c == k * x.score
             g == [y \in D |-> ScoresIn(U)[h[y]]]
             z == [y \in D |-> c * ScoresIn(U)[y]]
  <2>1. c \in Nat
    BY <1>1, Naturals
  <2>2. \A y \in D : h[y] = Join(x, y) /\ h[y] \in U /\ h[y].kids = <<x, y>>
                     /\ h[y].score = k * x.score * y.score
    BY TreeParts
  <2>3. \A y \in D : ScoresIn(U)[h[y]] = c * ScoresIn(U)[y] /\ ScoresIn(U)[h[y]] \in Nat /\ ScoresIn(U)[y] \in Nat
    BY <1>1, <2>2
  <2>4. \A u, v \in D : h[u] = h[v] => u = v
    <3> HIDE DEF h
    <3> TAKE u, v \in D
    <3> HAVE h[u] = h[v]
    <3>1. <<x, u>> = <<x, v>>
      BY <2>2
    <3> QED  BY <3>1
  <2>5. F[x] = {h[y] : y \in D}
    OBVIOUS
  <2> HIDE DEF h, c, F
  <2>6. Total(ScoresIn(U), {h[y] : y \in D}) = Total(g, D)
    <3>1. IsFiniteSet(D) /\ \A y \in D : ScoresIn(U)[h[y]] \in Nat
      BY <1>1, <2>3
    <3> QED  BY ONLY <2>4, <3>1, TotalImage
  <2>7. Total(g, D) = Total(z, D)
    <3>1. \A y \in D : g[y] \in Nat /\ g[y] = z[y]
      BY <2>3
    <3> HIDE DEF g, z
    <3> QED  BY <1>1, <3>1, TotalSame
  <2>8. Total(z, D) = c * Total(ScoresIn(U), D)
    BY <1>1, <2>1, TotalScale
  <2>9. ScoreIn(U, F[x]) = c * ScoreIn(U, D)
    BY <2>5, <2>6, <2>7, <2>8 DEF ScoreIn
  <2> QED  BY <2>9 DEF c
<1>3. \A x \in A : F[x] \in SUBSET U
  OBVIOUS
<1>4. \A u, v \in A : u # v => F[u] \cap F[v] = {}
  <2> SUFFICES ASSUME NEW u \in A, NEW v \in A, NEW x \in D, NEW y \in D,
                      Join(u, x) = Join(v, y)
               PROVE  u = v
    OBVIOUS
  <2>1. <<u, x>> = <<v, y>>
    BY TreeParts
  <2> QED  BY <2>1
<1>5. Q = UNION {F[x] : x \in A}
  OBVIOUS
<1> DEFINE e == k * ScoreIn(U, D)
           g == [x \in A |-> Total(ScoresIn(U), F[x])]
           z == [x \in A |-> e * ScoresIn(U)[x]]
<1>6. Total(ScoresIn(U), UNION {F[x] : x \in A}) = Total(g, A)
  <2> HIDE DEF F
  <2>1. /\ IsFiniteSet(U) /\ \A t \in U : ScoresIn(U)[t] \in Nat
        /\ IsFiniteSet(A)
    BY <1>1
  <2> QED  BY ONLY <1>3, <1>4, <2>1, TotalDisjoint
<1>7. e \in Nat
  BY <1>1, Naturals
<1>8. Total(g, A) = Total(z, A)
  <2>1. \A x \in A : g[x] = z[x] /\ z[x] \in Nat
    <3> TAKE x \in A
    <3> DEFINE w == x.score
               d == ScoreIn(U, D)
    <3>1. Total(ScoresIn(U), F[x]) = (k * w) * d
      BY <1>2 DEF ScoreIn
    <3>2. w \in Nat /\ d \in Nat /\ ScoresIn(U)[x] = w
      BY <1>1
    <3>3. g[x] = Total(ScoresIn(U), F[x]) /\ z[x] = e * ScoresIn(U)[x]
      OBVIOUS
    <3>4. \A i, j, n \in Nat : (i * j) * n = (i * n) * j /\ (i * n) * j \in Nat
      OBVIOUS
    <3> HIDE DEF g, z, w, d
    <3> QED  BY <1>1, <3>1, <3>2, <3>3, <3>4 DEF d
  <2> HIDE DEF g, z
  <2> QED  BY <1>1, <2>1, TotalSame
<1>9. Total(z, A) = e * Total(ScoresIn(U), A)
  <2> HIDE DEF e
  <2> QED  BY <1>1, <1>7, TotalScale
<1>10. ScoreIn(U, Q) = e * ScoreIn(U, A)
  <2> HIDE DEF g, z, F, Q, e
  <2> QED  BY <1>5, <1>6, <1>8, <1>9 DEF ScoreIn
<1>11. \A i, j, n \in Nat : (i * n) * j = i * j * n
  OBVIOUS
<1> HIDE DEF Q
<1>12. ScoreIn(U, Q) = k * ScoreIn(U, A) * ScoreIn(U, D)
  BY <1>1, <1>10, <1>11
<1> QED  BY <1>12 DEF Q, Joins

(* The trees a unary rule makes of trees.                                  *)
LEMMA ScoreOfRaised ==
  ASSUME NEW U, IsFiniteSet(U), \A t \in U : t.score \in Nat,
         NEW A \in SUBSET U, NEW P, NEW k \in Nat,
         \A x \in A : UnaryTree(P, x, k) \in U
  PROVE  ScoreIn(U, {UnaryTree(P, x, k) : x \in A}) = k * ScoreIn(U, A)
<1> DEFINE h == [x \in A |-> UnaryTree(P, x, k)]
           g == [x \in A |-> ScoresIn(U)[h[x]]]
           z == [x \in A |-> k * ScoresIn(U)[x]]
<1>1. /\ \A x \in U : ScoresIn(U)[x] = x.score /\ ScoresIn(U)[x] \in Nat
      /\ IsFiniteSet(A)
  BY ScoreTotals
<1>2. \A x \in A : h[x] = UnaryTree(P, x, k) /\ h[x] \in U /\ h[x].kids = <<x>> /\ h[x].score = k * x.score
  BY TreeParts
<1>3. \A x \in A : ScoresIn(U)[h[x]] = k * ScoresIn(U)[x] /\ ScoresIn(U)[h[x]] \in Nat /\ ScoresIn(U)[x] \in Nat
  BY <1>1, <1>2
<1>4. \A u, v \in A : h[u] = h[v] => u = v
  <2> HIDE DEF h
  <2> TAKE u, v \in A
  <2> HAVE h[u] = h[v]
  <2>1. <<u>> = <<v>>
    BY <1>2
  <2> QED  BY <2>1
<1>5. {UnaryTree(P, x, k) : x \in A} = {h[x] : x \in A}
  OBVIOUS
<1> HIDE DEF h
<1>6. Total(ScoresIn(U), {h[x] : x \in A}) = Total(g, A)
  BY <1>1, <1>3, <1>4, TotalImage
<1>7. Total(g, A) = Total(z, A)
  <2>1. \A x \in A : g[x] \in Nat /\ g[x] = z[x]
    BY <1>3
  <2> HIDE DEF g, z
  <2> QED  BY <1>1, <2>1, TotalSame
<1>8. Total(z, A) = k * Total(ScoresIn(U), A)
  BY <1>1, TotalScale
<1> QED  BY <1>5, <1>6, <1>7, <1>8 DEF ScoreIn

-----------------------------------------------------------------------------
(* The children of a tree, and how high it is: a unary rule is above what  *)
(* is over the same span.                                                  *)
TreeKids(x) == {x.kids[i] : i \in DOMAIN x.kids}
TreeHeight(x) == 2 * Width(x.span) + (IF x.unary THEN 1 ELSE 0)

(* A tree by the children it has, whatever its rules and scores.           *)
IsLeaf(g, s, x) == Width(s) = 1 /\ TreeKids(x) = {} /\ x.cells = {<<s, x.sym>>} /\ x.unary = FALSE

IsStem(g, s, x, a) ==
  /\ a \in CellTrees(g)[s] /\ a.unary = FALSE /\ a.sym # x.sym
  /\ TreeKids(x) = {a} /\ x.cells = a.cells \cup {<<s, x.sym>>} /\ x.unary = TRUE

IsFork(g, s, x, m, a, b) ==
  /\ m \in MidsOf(s) /\ a \in CellTrees(g)[<<s[1], m>>] /\ b \in CellTrees(g)[<<m, s[2]>>]
  /\ TreeKids(x) = {a, b} /\ x.cells = a.cells \cup b.cells \cup {<<s, x.sym>>} /\ x.unary = FALSE

(* Every tree is of one of these shapes.                                   *)
LEMMA CellShapes ==
  ASSUME NEW g, IsGrammar(g), NEW s \in SpansOf(g.n), NEW x \in CellTrees(g)[s]
  PROVE  /\ x \in GrammarTrees(g) /\ x.span = s
         /\ IsLeaf(g, s, x) \/ (\E a : IsStem(g, s, x, a)) \/ \E m, a, b : IsFork(g, s, x, m, a, b)
<1>n. g.n \in Nat \ {0}
  BY DEF IsGrammar
<1>0. \A y \in CellTrees(g)[s] : FitsCell(g, s, y)
  BY CellFacts
<1>1. x \in GrammarTrees(g) /\ x.span = s
  BY <1>0 DEF GrammarTrees, FitsCell
<1>2. s = <<s[1], s[2]>>
  BY <1>n, PartsOfSpans
<1>3. CASE CellWord(g, s, x)
  <2>1. PICK P : x = WordTree(P, s[1], g.words[s[1]][P])
    BY <1>3 DEF CellWord
  <2>2. Width(s) = 1 /\ s = <<s[1], s[1] + 1>>
    BY <1>2, <1>3, <1>n, PartsOfSpans DEF CellWord
  <2>3. x.sym = P /\ x.unary = FALSE /\ x.kids = <<>> /\ x.cells = {<<<<s[1], s[1] + 1>>, P>>}
    BY <2>1, TreeParts
  <2>4. x.cells = {<<s, x.sym>>}
    BY <2>2, <2>3
  <2>5. TreeKids(x) = {}
    BY <2>3 DEF TreeKids
  <2> QED  BY <1>1, <2>2, <2>3, <2>4, <2>5 DEF IsLeaf
<1>4. CASE CellRaised(g, s, x)
  <2>1. PICK r \in DOMAIN g.model.una : r[1][1] # r[2][1] /\ \E a :
          CellPlain(g, s, a) /\ a.sym = r[2] /\ x = UnaryTree(r[1], a, g.model.una[r])
    BY <1>4 DEF CellRaised
  <2>2. PICK a : CellPlain(g, s, a) /\ a.sym = r[2] /\ x = UnaryTree(r[1], a, g.model.una[r])
    BY <2>1
  <2>3. a \in CellTrees(g)[s] /\ a.unary = FALSE /\ a.span = s
    <3>1. a \in CellTrees(g)[s] /\ a.unary = FALSE
      BY <2>2, CellFacts
    <3> QED  BY <1>0, <3>1 DEF FitsCell
  <2>4. r[1] # r[2]
    BY <2>1
  <2>5. x.sym = r[1] /\ x.unary = TRUE /\ x.kids = <<a>> /\ x.cells = a.cells \cup {<<a.span, r[1]>>}
    BY <2>2, TreeParts
  <2>6. TreeKids(x) = {a}
    BY <2>5 DEF TreeKids
  <2>7. IsStem(g, s, x, a)
    BY <2>2, <2>3, <2>4, <2>5, <2>6 DEF IsStem
  <2> QED  BY <1>1, <2>7
<1>5. CASE CellJoined(g, s, x)
  <2>1. PICK r \in DOMAIN g.model.bin, m \in MidsOf(s) :
          \E a \in CellTrees(g)[<<s[1], m>>], b \in CellTrees(g)[<<m, s[2]>>] :
            x = BinaryTree(r[1], a, b, g.model.bin[r])
    BY <1>5 DEF CellJoined
  <2>2. PICK a \in CellTrees(g)[<<s[1], m>>], b \in CellTrees(g)[<<m, s[2]>>] :
          x = BinaryTree(r[1], a, b, g.model.bin[r])
    BY <2>1
  <2>3. a.span = <<s[1], m>> /\ b.span = <<m, s[2]>>
    <3>1. <<s[1], m>> \in SpansOf(g.n) /\ <<m, s[2]>> \in SpansOf(g.n)
      BY <1>n, PartsOfSpans
    <3>2. FitsCell(g, <<s[1], m>>, a) /\ FitsCell(g, <<m, s[2]>>, b)
      BY <2>2, <3>1, CellFacts
    <3> QED  BY <3>2 DEF FitsCell
  <2>4. /\ x.sym = r[1] /\ x.unary = FALSE /\ x.kids = <<a, b>>
        /\ x.cells = a.cells \cup b.cells \cup {<<<<a.span[1], b.span[2]>>, r[1]>>}
    BY <2>2, TreeParts
  <2>5. TreeKids(x) = {a, b}
    BY <2>4 DEF TreeKids
  <2>6. <<a.span[1], b.span[2]>> = s
    BY <1>2, <2>3
  <2>7. x.cells = a.cells \cup b.cells \cup {<<s, x.sym>>}
    BY <2>4, <2>6
  <2>8. IsFork(g, s, x, m, a, b)
    BY <2>4, <2>5, <2>7 DEF IsFork
  <2> QED  BY <1>1, <2>8
<1> QED  BY <1>3, <1>4, <1>5, <1>n, CellKinds DEF CellPlain

(* A tree is over the span of its own.                                     *)
LEMMA CellSpan ==
  ASSUME NEW g, IsGrammar(g)
  PROVE  \A x \in GrammarTrees(g) :
           /\ x.span \in SpansOf(g.n) /\ x \in CellTrees(g)[x.span] /\ x.unary \in BOOLEAN
           /\ x.span[1] \in Int /\ x.span[2] \in Int /\ x.span[1] < x.span[2]
           /\ Width(x.span) \in Nat /\ TreeHeight(x) \in Int
<1>n. g.n \in Nat \ {0}
  BY DEF IsGrammar
<1> SUFFICES ASSUME NEW s \in SpansOf(g.n), NEW x \in CellTrees(g)[s]
             PROVE  /\ x.span \in SpansOf(g.n) /\ x \in CellTrees(g)[x.span] /\ x.unary \in BOOLEAN
                    /\ x.span[1] \in Int /\ x.span[2] \in Int /\ x.span[1] < x.span[2]
                    /\ Width(x.span) \in Nat /\ TreeHeight(x) \in Int
  BY DEF GrammarTrees
<1>1. x.span = s
  BY CellShapes
<1>2. x.unary \in BOOLEAN
  BY CellFacts
<1>3. s[1] \in Int /\ s[2] \in Int /\ s[1] < s[2] /\ Width(s) \in Nat
  BY <1>n, PartsOfSpans
<1> QED  BY <1>1, <1>2, <1>3 DEF TreeHeight

(* Children are trees, lower than their parents.                           *)
LEMMA TreeKidsLower ==
  ASSUME NEW g, IsGrammar(g)
  PROVE  \A x \in GrammarTrees(g) :
           TreeKids(x) \subseteq GrammarTrees(g) /\ \A y \in TreeKids(x) : TreeHeight(y) < TreeHeight(x)
<1>n. g.n \in Nat \ {0}
  BY DEF IsGrammar
<1> SUFFICES ASSUME NEW s \in SpansOf(g.n), NEW x \in CellTrees(g)[s], NEW y \in TreeKids(x)
             PROVE  y \in GrammarTrees(g) /\ TreeHeight(y) < TreeHeight(x)
  BY DEF GrammarTrees
<1>1. x \in GrammarTrees(g) /\ x.span = s /\ Width(s) \in Nat
  BY <1>n, CellShapes, PartsOfSpans
<1>2. ASSUME NEW a, IsStem(g, s, x, a) PROVE y \in GrammarTrees(g) /\ TreeHeight(y) < TreeHeight(x)
  <2>1. y = a /\ y \in CellTrees(g)[s] /\ y.unary = FALSE /\ x.unary = TRUE
    BY <1>2 DEF IsStem
  <2>2. y \in GrammarTrees(g) /\ y.span = s
    BY <2>1, CellShapes
  <2> QED  BY <1>1, <2>1, <2>2 DEF TreeHeight
<1>3. ASSUME NEW m, NEW a, NEW b, IsFork(g, s, x, m, a, b)
      PROVE  y \in GrammarTrees(g) /\ TreeHeight(y) < TreeHeight(x)
  <2>1. PICK t \in SpansOf(g.n) : Width(t) < Width(s) /\ y \in CellTrees(g)[t]
    BY <1>3, <1>n, PartsOfSpans DEF IsFork
  <2>2. y \in GrammarTrees(g) /\ y.span = t
    BY <2>1, CellShapes
  <2>3. Width(t) \in Nat /\ y.unary \in BOOLEAN /\ x.unary \in BOOLEAN
    BY <1>1, <2>2, <1>n, PartsOfSpans, CellSpan
  <2> QED  BY <1>1, <2>1, <2>2, <2>3 DEF TreeHeight
<1> QED  BY <1>2, <1>3, CellShapes DEF IsLeaf

-----------------------------------------------------------------------------
(* The subtrees of a tree: the least set that has it, and the children of  *)
(* all it has.                                                             *)
HasKids(C) == \A x \in C : TreeKids(x) \subseteq C
Subtrees(g, t) == {x \in GrammarTrees(g) : \A C \in SUBSET GrammarTrees(g) : t \in C /\ HasKids(C) => x \in C}

(* Subtrees of subtrees are subtrees.                                      *)
LEMMA SubtreeLaws ==
  ASSUME NEW g, IsGrammar(g)
  PROVE  /\ \A t \in GrammarTrees(g) : t \in Subtrees(g, t)
         /\ \A t \in GrammarTrees(g) : HasKids(Subtrees(g, t)) /\ Subtrees(g, t) \subseteq GrammarTrees(g)
         /\ \A t \in GrammarTrees(g), C \in SUBSET GrammarTrees(g) :
              t \in C /\ HasKids(C) => Subtrees(g, t) \subseteq C
         /\ \A t \in GrammarTrees(g) : \A x \in Subtrees(g, t) : Subtrees(g, x) \subseteq Subtrees(g, t)
<1>1. \A t \in GrammarTrees(g) : t \in Subtrees(g, t)
  BY DEF Subtrees
<1>2. \A t \in GrammarTrees(g) : HasKids(Subtrees(g, t)) /\ Subtrees(g, t) \subseteq GrammarTrees(g)
  <2> TAKE t \in GrammarTrees(g)
  <2>1. Subtrees(g, t) \subseteq GrammarTrees(g)
    BY DEF Subtrees
  <2>2. ASSUME NEW x \in Subtrees(g, t), NEW y \in TreeKids(x) PROVE y \in Subtrees(g, t)
    <3>1. y \in GrammarTrees(g)
      BY <2>1, TreeKidsLower
    <3>2. ASSUME NEW C \in SUBSET GrammarTrees(g), t \in C, HasKids(C) PROVE y \in C
      <4>1. x \in C
        BY <3>2 DEF Subtrees
      <4> QED  BY <3>2, <4>1 DEF HasKids
    <3> QED  BY <3>1, <3>2 DEF Subtrees
  <2> QED  BY <2>1, <2>2 DEF HasKids
<1>3. \A t \in GrammarTrees(g), C \in SUBSET GrammarTrees(g) : t \in C /\ HasKids(C) => Subtrees(g, t) \subseteq C
  BY DEF Subtrees
<1> QED  BY <1>1, <1>2, <1>3

(* The subtrees are the tree and those of its children.                    *)
LEMMA SubtreesOfKids ==
  ASSUME NEW g, IsGrammar(g), NEW t \in GrammarTrees(g)
  PROVE  Subtrees(g, t) = {t} \cup UNION {Subtrees(g, y) : y \in TreeKids(t)}
<1> DEFINE C == {t} \cup UNION {Subtrees(g, y) : y \in TreeKids(t)}
<1>1. TreeKids(t) \subseteq GrammarTrees(g)
  BY TreeKidsLower
<1>2. \A y \in TreeKids(t) :
        y \in Subtrees(g, y) /\ HasKids(Subtrees(g, y)) /\ Subtrees(g, y) \subseteq GrammarTrees(g)
  BY <1>1, SubtreeLaws
<1>3. HasKids(C) /\ t \in C /\ C \in SUBSET GrammarTrees(g)
  BY <1>2 DEF HasKids
<1>4. Subtrees(g, t) \subseteq C
  <2> HIDE DEF C
  <2> QED  BY <1>3, SubtreeLaws
<1>5. t \in Subtrees(g, t) /\ \A y \in TreeKids(t) : y \in Subtrees(g, t)
  BY SubtreeLaws DEF HasKids
<1>6. \A y \in TreeKids(t) : Subtrees(g, y) \subseteq Subtrees(g, t)
  BY <1>5, SubtreeLaws
<1> QED  BY <1>4, <1>5, <1>6

(* What is true of the subtrees of a tree: they lie under it, there is one *)
(* for each of its cells, and all but the tree itself are children of one  *)
(* subtree each.                                                           *)
SubsUnder(g, t) ==
  \A x \in Subtrees(g, t) : /\ t.span[1] <= x.span[1] /\ x.span[2] <= t.span[2]
                            /\ x = t \/ TreeHeight(x) < TreeHeight(t)
SubsCells(g, t) == t.cells = {<<x.span, x.sym>> : x \in Subtrees(g, t)}
SubsDistinct(g, t) == \A x, y \in Subtrees(g, t) : x.span = y.span /\ x.sym = y.sym => x = y
SubsBelow(g, t) == \A x \in Subtrees(g, t) : x = t \/ \E p \in Subtrees(g, t) : x \in TreeKids(p)
SubsOnce(g, t) == \A p, q \in Subtrees(g, t) : TreeKids(p) \cap TreeKids(q) # {} => p = q

SubsProper(g, t) ==
  SubsUnder(g, t) /\ SubsCells(g, t) /\ SubsDistinct(g, t) /\ SubsBelow(g, t) /\ SubsOnce(g, t)

(* So it is for a word.                                                    *)
LEMMA LeafProper ==
  ASSUME NEW g, IsGrammar(g), NEW s \in SpansOf(g.n), NEW t \in CellTrees(g)[s], IsLeaf(g, s, t)
  PROVE  SubsProper(g, t)
<1>n. g.n \in Nat \ {0}
  BY DEF IsGrammar
<1>1. t \in GrammarTrees(g) /\ t.span = s /\ s[1] \in Int /\ s[2] \in Int
  BY CellShapes, <1>n, PartsOfSpans
<1>2. TreeKids(t) = {} /\ t.cells = {<<t.span, t.sym>>}
  BY <1>1 DEF IsLeaf
<1>3. Subtrees(g, t) = {t}
  BY <1>1, <1>2, SubtreesOfKids
<1> QED  BY <1>1, <1>2, <1>3 DEF SubsProper, SubsUnder, SubsCells, SubsDistinct, SubsBelow, SubsOnce

(* For a tree with another below it: that is a child of the tree only.     *)
LEMMA StemProper ==
  ASSUME NEW g, IsGrammar(g), NEW s \in SpansOf(g.n), NEW t \in CellTrees(g)[s], NEW c,
         IsStem(g, s, t, c), SubsProper(g, c)
  PROVE  SubsProper(g, t)
<1>n. g.n \in Nat \ {0}
  BY DEF IsGrammar
<1>0. c \in CellTrees(g)[s]
  BY DEF IsStem
<1>1. t \in GrammarTrees(g) /\ t.span = s /\ c \in GrammarTrees(g) /\ c.span = s /\ s[1] \in Int /\ s[2] \in Int
  BY <1>0, CellShapes, <1>n, PartsOfSpans
<1>2. /\ TreeKids(t) = {c} /\ t.cells = c.cells \cup {<<t.span, t.sym>>} /\ c.sym # t.sym
      /\ t.unary = TRUE /\ c.unary = FALSE
  BY <1>1 DEF IsStem
<1>3. Subtrees(g, t) = {t} \cup Subtrees(g, c)
  BY <1>1, <1>2, SubtreesOfKids
<1>4. Subtrees(g, c) \subseteq GrammarTrees(g) /\ c \in Subtrees(g, c) /\ HasKids(Subtrees(g, c))
  BY <1>1, SubtreeLaws
<1>5. \A x \in GrammarTrees(g) : x.span[1] \in Int /\ x.span[2] \in Int /\ TreeHeight(x) \in Int
  BY CellSpan
<1>6. TreeHeight(c) < TreeHeight(t)
  BY <1>1, <1>2, TreeKidsLower
<1>7. \A x \in Subtrees(g, c) : /\ c.span[1] <= x.span[1] /\ x.span[2] <= c.span[2]
                                /\ x = c \/ TreeHeight(x) < TreeHeight(c)
  BY DEF SubsProper, SubsUnder
<1>8. \A x \in Subtrees(g, c) : TreeHeight(x) < TreeHeight(t)
  BY <1>1, <1>4, <1>5, <1>6, <1>7
<1>9. SubsUnder(g, t)
  BY <1>1, <1>3, <1>7, <1>8 DEF SubsUnder
<1>10. SubsCells(g, t)
  BY <1>2, <1>3 DEF SubsProper, SubsCells
<1>11. SubsDistinct(g, t)
  <2>1. \A x \in Subtrees(g, c) : ~(x.span = t.span /\ x.sym = t.sym)
    <3> SUFFICES ASSUME NEW x \in Subtrees(g, c), x.span = s, x.sym = t.sym PROVE FALSE
      BY <1>1
    <3>1. x # c
      BY <1>2
    <3>2. TreeHeight(x) < TreeHeight(c)
      BY <1>7, <3>1
    <3>3. TreeHeight(c) = 2 * Width(s) /\ TreeHeight(x) >= 2 * Width(s)
      BY <1>1, <1>2, <1>n, PartsOfSpans DEF TreeHeight
    <3>4. TreeHeight(x) \in Int /\ TreeHeight(c) \in Int /\ Width(s) \in Nat
      BY <1>1, <1>4, <1>5, <1>n, PartsOfSpans
    <3> QED  BY <3>2, <3>3, <3>4
  <2> QED  BY <1>3, <2>1 DEF SubsProper, SubsDistinct
<1>12. SubsBelow(g, t)
  BY <1>2, <1>3 DEF SubsProper, SubsBelow
<1>13. SubsOnce(g, t)
  <2>1. \A p \in Subtrees(g, c) : c \notin TreeKids(p)
    <3> SUFFICES ASSUME NEW p \in Subtrees(g, c), c \in TreeKids(p) PROVE FALSE
      OBVIOUS
    <3>1. TreeHeight(c) < TreeHeight(p)
      BY <1>4, TreeKidsLower
    <3> QED  BY <1>1, <1>4, <1>5, <1>7, <3>1
  <2>2. \A p \in Subtrees(g, c) : TreeKids(p) \cap TreeKids(t) = {}
    BY <1>2, <2>1
  <2> QED  BY <1>3, <2>2 DEF SubsProper, SubsOnce
<1> QED  BY <1>9, <1>10, <1>11, <1>12, <1>13 DEF SubsProper

(* And for a binary rule: of the two parts, one lies before the other.     *)
LEMMA ForkProper ==
  ASSUME NEW g, IsGrammar(g), NEW s \in SpansOf(g.n), NEW t \in CellTrees(g)[s], NEW m, NEW l, NEW r,
         IsFork(g, s, t, m, l, r), SubsProper(g, l), SubsProper(g, r)
  PROVE  SubsProper(g, t)
<1>n. g.n \in Nat \ {0}
  BY DEF IsGrammar
<1>1. m \in MidsOf(s) /\ l \in CellTrees(g)[<<s[1], m>>] /\ r \in CellTrees(g)[<<m, s[2]>>]
  BY DEF IsFork
<1>2. /\ t \in GrammarTrees(g) /\ t.span = s
      /\ l \in GrammarTrees(g) /\ l.span = <<s[1], m>> /\ r \in GrammarTrees(g) /\ r.span = <<m, s[2]>>
  BY <1>1, <1>n, CellShapes, PartsOfSpans
<1>3. m \in Int /\ s[1] \in Int /\ s[2] \in Int /\ s[1] < m /\ m < s[2]
  BY <1>1, <1>n, PartsOfSpans DEF MidsOf
<1>4. TreeKids(t) = {l, r} /\ t.cells = l.cells \cup r.cells \cup {<<t.span, t.sym>>}
  BY <1>2 DEF IsFork
<1>5. Subtrees(g, t) = {t} \cup Subtrees(g, l) \cup Subtrees(g, r)
  BY <1>2, <1>4, SubtreesOfKids
<1>6. /\ Subtrees(g, l) \subseteq GrammarTrees(g) /\ Subtrees(g, r) \subseteq GrammarTrees(g)
      /\ l \in Subtrees(g, l) /\ r \in Subtrees(g, r)
      /\ HasKids(Subtrees(g, l)) /\ HasKids(Subtrees(g, r))
  BY <1>2, SubtreeLaws
<1>7. \A x \in GrammarTrees(g) :
        x.span[1] \in Int /\ x.span[2] \in Int /\ x.span[1] < x.span[2] /\ TreeHeight(x) \in Int
  BY CellSpan
<1>8. \A x \in Subtrees(g, l) : s[1] <= x.span[1] /\ x.span[2] <= m /\ (x = l \/ TreeHeight(x) < TreeHeight(l))
  <2>1. SubsUnder(g, l)
    BY DEF SubsProper
  <2>2. l.span[1] = s[1] /\ l.span[2] = m
    BY <1>2
  <2> QED  BY <2>1, <2>2 DEF SubsUnder
<1>9. \A x \in Subtrees(g, r) : m <= x.span[1] /\ x.span[2] <= s[2] /\ (x = r \/ TreeHeight(x) < TreeHeight(r))
  <2>1. SubsUnder(g, r)
    BY DEF SubsProper
  <2>2. r.span[1] = m /\ r.span[2] = s[2]
    BY <1>2
  <2> QED  BY <2>1, <2>2 DEF SubsUnder
<1>10. TreeHeight(l) < TreeHeight(t) /\ TreeHeight(r) < TreeHeight(t)
  BY <1>2, <1>4, TreeKidsLower
<1>11. \A x \in Subtrees(g, l) :
         TreeHeight(x) < TreeHeight(t) /\ x.span[2] < s[2] /\ s[1] <= x.span[1] /\ x.span[2] <= s[2]
  BY <1>2, <1>3, <1>6, <1>7, <1>8, <1>10
<1>12. \A x \in Subtrees(g, r) :
         TreeHeight(x) < TreeHeight(t) /\ s[1] < x.span[1] /\ s[1] <= x.span[1] /\ x.span[2] <= s[2]
  BY <1>2, <1>3, <1>6, <1>7, <1>9, <1>10
<1>13. \A x \in Subtrees(g, l), y \in Subtrees(g, r) : x.span # y.span
  BY <1>3, <1>6, <1>7, <1>8, <1>9
<1>14. SubsUnder(g, t)
  BY <1>2, <1>3, <1>5, <1>11, <1>12 DEF SubsUnder
<1>15. SubsCells(g, t)
  <2>1. /\ l.cells = {<<x.span, x.sym>> : x \in Subtrees(g, l)}
        /\ r.cells = {<<x.span, x.sym>> : x \in Subtrees(g, r)}
    BY DEF SubsProper, SubsCells
  <2> QED  BY <1>4, <1>5, <2>1 DEF SubsCells
<1>16. SubsDistinct(g, t)
  <2>1. SubsDistinct(g, l) /\ SubsDistinct(g, r)
    BY DEF SubsProper
  <2>2. \A x \in Subtrees(g, l) : x.span # t.span
    BY <1>2, <1>3, <1>6, <1>7, <1>11
  <2>3. \A x \in Subtrees(g, r) : x.span # t.span
    BY <1>2, <1>3, <1>6, <1>7, <1>12
  <2> QED  BY <1>5, <1>13, <2>1, <2>2, <2>3 DEF SubsDistinct
<1>17. SubsBelow(g, t)
  <2>1. SubsBelow(g, l) /\ SubsBelow(g, r)
    BY DEF SubsProper
  <2> QED  BY <1>4, <1>5, <2>1 DEF SubsBelow
<1>18. SubsOnce(g, t)
  <2>1. SubsOnce(g, l) /\ SubsOnce(g, r)
    BY DEF SubsProper
  <2>2. \A p \in Subtrees(g, l) : TreeKids(p) \subseteq Subtrees(g, l)
    BY <1>6 DEF HasKids
  <2>3. \A p \in Subtrees(g, r) : TreeKids(p) \subseteq Subtrees(g, r)
    BY <1>6 DEF HasKids
  <2>4. \A p \in Subtrees(g, l) : l \notin TreeKids(p)
    BY <1>2, <1>6, <1>7, <1>8, TreeKidsLower
  <2>5. \A p \in Subtrees(g, r) : r \notin TreeKids(p)
    BY <1>2, <1>6, <1>7, <1>9, TreeKidsLower
  <2>6. r \notin Subtrees(g, l) /\ l \notin Subtrees(g, r) /\ Subtrees(g, l) \cap Subtrees(g, r) = {}
    BY <1>6, <1>13
  <2>7. \A p \in Subtrees(g, l), q \in Subtrees(g, r) :
          TreeKids(p) \cap TreeKids(q) = {} /\ TreeKids(q) \cap TreeKids(p) = {}
    BY <2>2, <2>3, <2>6
  <2>8. \A p \in Subtrees(g, l) : TreeKids(p) \cap {l, r} = {}
    BY <2>2, <2>4, <2>6
  <2>9. \A p \in Subtrees(g, r) : TreeKids(p) \cap {l, r} = {}
    BY <2>3, <2>5, <2>6
  <2>10. \A p \in Subtrees(g, l) \cup Subtrees(g, r) :
           TreeKids(p) \cap TreeKids(t) = {} /\ TreeKids(t) \cap TreeKids(p) = {}
    BY <1>4, <2>8, <2>9
  <2>11. ASSUME NEW p \in Subtrees(g, t), NEW q \in Subtrees(g, t), TreeKids(p) \cap TreeKids(q) # {} PROVE p = q
    <3>1. CASE p = t \/ q = t
      BY <1>5, <2>10, <2>11, <3>1
    <3>2. CASE p # t /\ q # t
      BY <1>5, <2>1, <2>7, <2>11, <3>2 DEF SubsOnce
    <3> QED  BY <3>1, <3>2
  <2> QED  BY <2>11 DEF SubsOnce
<1> QED  BY <1>14, <1>15, <1>16, <1>17, <1>18 DEF SubsProper

(* So it is for all trees.                                                 *)
LEMMA CellsProper ==
  ASSUME NEW g, IsGrammar(g)
  PROVE  \A t \in GrammarTrees(g) : SubsProper(g, t)
<1> DEFINE G == {s \in SpansOf(g.n) : \A t \in CellTrees(g)[s] : SubsProper(g, t)}
<1>n. g.n \in Nat \ {0}
  BY DEF IsGrammar
<1>1. ASSUME NEW s \in SpansOf(g.n), \A t \in SpansOf(g.n) : Width(t) < Width(s) => t \in G PROVE s \in G
  <2> SUFFICES ASSUME NEW t \in CellTrees(g)[s] PROVE SubsProper(g, t)
    OBVIOUS
  <2>1. ASSUME NEW x \in CellTrees(g)[s], ~x.unary PROVE SubsProper(g, x)
    <3>1. ASSUME NEW m, NEW a, NEW b, IsFork(g, s, x, m, a, b) PROVE SubsProper(g, x)
      <4>1. a \in CellTrees(g)[<<s[1], m>>] /\ b \in CellTrees(g)[<<m, s[2]>>] /\ m \in MidsOf(s)
        BY <3>1 DEF IsFork
      <4>2. <<s[1], m>> \in G /\ <<m, s[2]>> \in G
        BY <1>1, <1>n, <4>1, PartsOfSpans
      <4>3. SubsProper(g, a) /\ SubsProper(g, b)
        BY <4>1, <4>2
      <4> QED  BY <3>1, <4>3, ForkProper
    <3>2. \A a : ~IsStem(g, s, x, a)
      BY <2>1 DEF IsStem
    <3> QED  BY <3>1, <3>2, CellShapes, LeafProper
  <2>2. ASSUME NEW a, IsStem(g, s, t, a) PROVE SubsProper(g, t)
    <3>1. a \in CellTrees(g)[s] /\ ~a.unary
      BY <2>2 DEF IsStem
    <3> QED  BY <2>1, <2>2, <3>1, StemProper
  <2>3. CASE t.unary = FALSE
    BY <2>1, <2>3
  <2> QED  BY <2>2, <2>3, CellShapes DEF IsLeaf, IsFork
<1>2. \A s \in SpansOf(g.n) : s \in G
  <2> HIDE DEF G
  <2> QED  BY <1>1, <1>n, SpanInduction
<1> QED  BY <1>2 DEF GrammarTrees

-----------------------------------------------------------------------------
(* The cells of a tree are among those of the grammar, and that of the     *)
(* tree itself is one.                                                     *)
LEMMA CellsWithin ==
  ASSUME NEW g, IsGrammar(g), NEW s \in SpansOf(g.n), NEW x \in CellTrees(g)[s]
  PROVE  x.cells \subseteq g.cells /\ <<s, x.sym>> \in x.cells
<1>1. x \in GrammarTrees(g) /\ x.span = s
  BY CellShapes
<1>2. x.cells = {<<y.span, y.sym>> : y \in Subtrees(g, x)}
  BY <1>1, CellsProper DEF SubsProper, SubsCells
<1>3. x \in Subtrees(g, x) /\ Subtrees(g, x) \subseteq GrammarTrees(g)
  BY <1>1, SubtreeLaws
<1>4. ASSUME NEW y \in Subtrees(g, x) PROVE <<y.span, y.sym>> \in g.cells
  <2>1. y.span \in SpansOf(g.n) /\ y \in CellTrees(g)[y.span]
    BY <1>3, CellSpan
  <2>2. FitsCell(g, y.span, y)
    BY <2>1, CellFacts
  <2> QED  BY <2>2 DEF FitsCell
<1> QED  BY <1>1, <1>2, <1>3, <1>4

(* A grammar with fewer cells has the trees that lie in them.              *)
LEMMA FewerTrees ==
  ASSUME NEW g, IsGrammar(g), NEW h, h.n = g.n, h.model = g.model, h.words = g.words, h.cells \subseteq g.cells
  PROVE  \A s \in SpansOf(g.n) : CellTrees(h)[s] = {x \in CellTrees(g)[s] : x.cells \subseteq h.cells}
<1> DEFINE Left(s) == \A x : x \in CellTrees(h)[s] <=> x \in CellTrees(g)[s] /\ x.cells \subseteq h.cells
           G == {s \in SpansOf(g.n) : Left(s)}
<1>0. g.n \in Nat \ {0}
  BY DEF IsGrammar
<1>1. ASSUME NEW s \in SpansOf(g.n), \A t \in SpansOf(g.n) : Width(t) < Width(s) => t \in G PROVE Left(s)
  <2>0. s = <<s[1], s[2]>> /\ (Width(s) = 1 <=> s[2] = s[1] + 1)
    BY <1>0, PartsOfSpans
  <2>1. \A x : CellWord(h, s, x) <=> CellWord(g, s, x) /\ x.cells \subseteq h.cells
    <3>1. \A P, v : Width(s) = 1 => WordTree(P, s[1], v).cells = {<<s, P>>}
      BY <2>0, TreeParts
    <3> QED  BY <3>1 DEF CellWord
  <2>2. \A x : CellJoined(h, s, x) <=> CellJoined(g, s, x) /\ x.cells \subseteq h.cells
    <3>1. ASSUME NEW m \in MidsOf(s)
          PROVE  /\ <<s[1], m>> \in SpansOf(g.n) /\ <<m, s[2]>> \in SpansOf(g.n)
                 /\ Left(<<s[1], m>>) /\ Left(<<m, s[2]>>)
      BY <1>0, <1>1, PartsOfSpans
    <3>2. ASSUME NEW m \in MidsOf(s), NEW a \in CellTrees(g)[<<s[1], m>>], NEW b \in CellTrees(g)[<<m, s[2]>>],
                 NEW P, NEW k
          PROVE  BinaryTree(P, a, b, k).cells = a.cells \cup b.cells \cup {<<s, P>>}
      <4>1. a.span = <<s[1], m>> /\ b.span = <<m, s[2]>>
        BY <3>1, CellShapes
      <4> QED  BY <2>0, <4>1, TreeParts
    <3>3. ASSUME NEW x, CellJoined(h, s, x) PROVE CellJoined(g, s, x) /\ x.cells \subseteq h.cells
      <4>1. PICK r \in DOMAIN g.model.bin, m \in MidsOf(s) :
              \E a \in CellTrees(h)[<<s[1], m>>], b \in CellTrees(h)[<<m, s[2]>>] :
                <<s, r[1]>> \in h.cells /\ a.sym = r[2] /\ b.sym = r[3] /\ x = BinaryTree(r[1], a, b, g.model.bin[r])
        BY <3>3 DEF CellJoined
      <4>2. PICK a \in CellTrees(h)[<<s[1], m>>], b \in CellTrees(h)[<<m, s[2]>>] :
              <<s, r[1]>> \in h.cells /\ a.sym = r[2] /\ b.sym = r[3] /\ x = BinaryTree(r[1], a, b, g.model.bin[r])
        BY <4>1
      <4>3. /\ a \in CellTrees(g)[<<s[1], m>>] /\ a.cells \subseteq h.cells
            /\ b \in CellTrees(g)[<<m, s[2]>>] /\ b.cells \subseteq h.cells
        BY <3>1, <4>2
      <4>4. x.cells = a.cells \cup b.cells \cup {<<s, r[1]>>}
        BY <3>2, <4>2, <4>3
      <4>5. CellJoined(g, s, x)
        BY <4>2, <4>3 DEF CellJoined
      <4> QED  BY <4>2, <4>3, <4>4, <4>5
    <3>4. ASSUME NEW x, CellJoined(g, s, x), x.cells \subseteq h.cells PROVE CellJoined(h, s, x)
      <4>1. PICK r \in DOMAIN g.model.bin, m \in MidsOf(s) :
              \E a \in CellTrees(g)[<<s[1], m>>], b \in CellTrees(g)[<<m, s[2]>>] :
                a.sym = r[2] /\ b.sym = r[3] /\ x = BinaryTree(r[1], a, b, g.model.bin[r])
        BY <3>4 DEF CellJoined
      <4>2. PICK a \in CellTrees(g)[<<s[1], m>>], b \in CellTrees(g)[<<m, s[2]>>] :
              a.sym = r[2] /\ b.sym = r[3] /\ x = BinaryTree(r[1], a, b, g.model.bin[r])
        BY <4>1
      <4>3. x.cells = a.cells \cup b.cells \cup {<<s, r[1]>>}
        BY <3>2, <4>2
      <4>4. a \in CellTrees(h)[<<s[1], m>>] /\ b \in CellTrees(h)[<<m, s[2]>>] /\ <<s, r[1]>> \in h.cells
        BY <3>1, <3>4, <4>2, <4>3
      <4> QED  BY <4>2, <4>4 DEF CellJoined
    <3> QED  BY <3>3, <3>4
  <2>3. \A x : CellPlain(h, s, x) <=> CellPlain(g, s, x) /\ x.cells \subseteq h.cells
    BY <2>1, <2>2 DEF CellPlain
  <2>4. \A x : CellRaised(h, s, x) <=> CellRaised(g, s, x) /\ x.cells \subseteq h.cells
    <3>1. \A a, P, k : CellPlain(g, s, a) => UnaryTree(P, a, k).cells = a.cells \cup {<<s, P>>}
      <4> SUFFICES ASSUME NEW a, CellPlain(g, s, a) PROVE \A P, k : UnaryTree(P, a, k).cells = a.cells \cup {<<s, P>>}
        OBVIOUS
      <4>1. a \in CellTrees(g)[s]
        BY <1>0, CellKinds
      <4>2. a.span = s
        BY <4>1, CellShapes
      <4> QED  BY <4>2, TreeParts
    <3>2. ASSUME NEW x, CellRaised(h, s, x) PROVE CellRaised(g, s, x) /\ x.cells \subseteq h.cells
      <4>1. PICK r \in DOMAIN g.model.una : \E a :
              /\ CellPlain(h, s, a) /\ <<s, r[1]>> \in h.cells /\ a.sym = r[2] /\ r[1][1] # r[2][1]
              /\ x = UnaryTree(r[1], a, g.model.una[r])
        BY <3>2 DEF CellRaised
      <4>2. PICK a :
              /\ CellPlain(h, s, a) /\ <<s, r[1]>> \in h.cells /\ a.sym = r[2] /\ r[1][1] # r[2][1]
              /\ x = UnaryTree(r[1], a, g.model.una[r])
        BY <4>1
      <4>3. CellPlain(g, s, a) /\ a.cells \subseteq h.cells /\ x.cells = a.cells \cup {<<s, r[1]>>}
        BY <2>3, <3>1, <4>2
      <4>4. CellRaised(g, s, x)
        BY <4>2, <4>3 DEF CellRaised
      <4> QED  BY <4>2, <4>3, <4>4
    <3>3. ASSUME NEW x, CellRaised(g, s, x), x.cells \subseteq h.cells PROVE CellRaised(h, s, x)
      <4>1. PICK r \in DOMAIN g.model.una : \E a :
              CellPlain(g, s, a) /\ a.sym = r[2] /\ r[1][1] # r[2][1] /\ x = UnaryTree(r[1], a, g.model.una[r])
        BY <3>3 DEF CellRaised
      <4>2. PICK a :
              CellPlain(g, s, a) /\ a.sym = r[2] /\ r[1][1] # r[2][1] /\ x = UnaryTree(r[1], a, g.model.una[r])
        BY <4>1
      <4>3. x.cells = a.cells \cup {<<s, r[1]>>}
        BY <3>1, <4>2
      <4>4. CellPlain(h, s, a) /\ <<s, r[1]>> \in h.cells
        BY <2>3, <3>3, <4>2, <4>3
      <4> QED  BY <4>2, <4>4 DEF CellRaised
    <3> QED  BY <3>2, <3>3
  <2>5. \A x : x \in CellTrees(g)[s] <=> CellPlain(g, s, x) \/ CellRaised(g, s, x)
    BY <1>0, CellKinds
  <2>6. \A x : x \in CellTrees(h)[s] <=> CellPlain(h, s, x) \/ CellRaised(h, s, x)
    BY <1>0, CellKinds
  <2> QED  BY <2>3, <2>4, <2>5, <2>6
<1>2. \A s \in SpansOf(g.n) : s \in G
  <2> HIDE DEF Left
  <2>1. \A s \in SpansOf(g.n) : (\A t \in SpansOf(g.n) : Width(t) < Width(s) => t \in G) => s \in G
    BY <1>1
  <2> HIDE DEF G
  <2> QED  BY <1>0, <2>1, SpanInduction
<1> QED  BY <1>2
=============================================================================
