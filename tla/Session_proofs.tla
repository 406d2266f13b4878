--------------------------- MODULE Session_proofs ---------------------------
(***************************************************************************)
(* Proofs about Session.  What a formatter prints is defined by recursion  *)
(* over the nodes of a tree; the recursions are shown to have a solution,  *)
(* and what they compute follows by induction from the leaves up.          *)
(***************************************************************************)
EXTENDS Session, DataLemmas

-----------------------------------------------------------------------------
(* The levels of a tree, as Level defines them.                            *)
Levels(tree, f) == [j \in 0..MaxDepth |-> IF j = 0 THEN {tree} ELSE UNION {Range(n.kids) : n \in f[j - 1]}]

(* They exist.                                                             *)
LEMMA LevelsExist == ASSUME NEW tree PROVE \E f : f = Levels(tree, f)
<1> DEFINE D == 0..MaxDepth
           Value(f, k) == IF k = 0 THEN {tree} ELSE UNION {Range(n.kids) : n \in f[k - 1]}
           Solved(n) == \E f : /\ f = [k \in D |-> f[k]]
                               /\ \A k \in D : k <= n => f[k] = Value(f, k)
           S == {n \in Nat : Solved(n)}
<1>1. MaxDepth \in Nat /\ \A k \in D : k \in Nat /\ k <= MaxDepth /\ (k # 0 => k - 1 \in D)
  BY BoundAssumption
<1>2. 0 \in S
  <2> DEFINE f == [k \in D |-> {tree}]
  <2>1. f = [k \in D |-> f[k]]
    OBVIOUS
  <2>2. \A k \in D : k <= 0 => k = 0
    BY <1>1
  <2>3. \A k \in D : k <= 0 => f[k] = Value(f, k)
    BY <2>2
  <2> HIDE DEF f, Value
  <2>4. Solved(0)
    BY <2>1, <2>3
  <2> QED  BY <2>4
<1>3. ASSUME NEW n \in Nat, n \in S PROVE n + 1 \in S
  <2>1. PICK f : f = [k \in D |-> f[k]] /\ \A k \in D : k <= n => f[k] = Value(f, k)
    BY <1>3
  <2> DEFINE h == [k \in D |-> IF k <= n THEN f[k] ELSE Value(f, k)]
  <2>2. h = [k \in D |-> h[k]]
    OBVIOUS
  <2>3. ASSUME NEW k \in D, k <= n + 1 PROVE h[k] = Value(h, k)
    <3>1. h[k] = Value(f, k)
      BY <2>1
    <3>2. k # 0 => k - 1 \in D /\ k - 1 <= n
      BY <1>1, <2>3
    <3>3. k # 0 => h[k - 1] = f[k - 1]
      BY <3>2
    <3> HIDE DEF h
    <3> QED  BY <3>1, <3>3
  <2>4. Solved(n + 1)
    <3> HIDE DEF h, Value
    <3> QED  BY <2>2, <2>3
  <2> HIDE DEF Solved
  <2> QED  BY <2>4
<1>4. MaxDepth \in S
  <2> HIDE DEF S
  <2> QED  BY <1>1, <1>2, <1>3, SetInduction
<1>5. PICK f : f = [k \in D |-> f[k]] /\ \A k \in D : k <= MaxDepth => f[k] = Value(f, k)
  BY <1>4
<1>6. f = [k \in D |-> Value(f, k)]
  <2>1. \A k \in D : f[k] = Value(f, k)
    BY <1>1, <1>5
  <2> HIDE DEF Value
  <2> QED  BY <1>5, <2>1
<1> QED  BY <1>6 DEF Levels

(* Every level has the children of the one above.                          *)
LEMMA LevelFacts ==
  ASSUME NEW tree
  PROVE  /\ Level(tree, 0) = {tree}
         /\ \A k \in 1..MaxDepth : Level(tree, k) = UNION {Range(n.kids) : n \in Level(tree, k - 1)}
<1> DEFINE f == CHOOSE f : f = Levels(tree, f)
<1>1. f = Levels(tree, f)
  BY LevelsExist
<1>2. \A k : Level(tree, k) = f[k]
  BY DEF Level, Levels
<1>3. MaxDepth \in Nat
  BY BoundAssumption
<1> HIDE DEF f
<1>4. f[0] = {tree}
  BY <1>1, <1>3 DEF Levels
<1>5. ASSUME NEW k \in 1..MaxDepth PROVE f[k] = UNION {Range(n.kids) : n \in f[k - 1]}
  <2>1. k \in 0..MaxDepth /\ k # 0
    BY <1>3
  <2> QED  BY <1>1, <2>1, Zenon DEF Levels
<1> QED  BY <1>2, <1>4, <1>5

(* A tree whose nodes have sequences of nodes as children, none below the  *)
(* last level.                                                             *)
Bounded(tree) ==
  /\ \A n \in Nodes(tree) : n.kids \in Seq(Nodes(tree))
  /\ \A n \in Level(tree, MaxDepth) : n.kids = <<>>

(* The nodes from the level k down.                                        *)
Below(tree, k) == UNION {Level(tree, j) : j \in k..MaxDepth}

(* The children of a node are below it.                                    *)
LEMMA KidsBelow ==
  ASSUME NEW tree, Bounded(tree), NEW k \in 0..MaxDepth, NEW n \in Below(tree, k), NEW i \in DOMAIN n.kids
  PROVE  n.kids[i] \in Below(tree, k + 1)
<1>1. PICK j \in k..MaxDepth : n \in Level(tree, j)
  BY DEF Below
<1>2. MaxDepth \in Nat /\ j \in Nat /\ k \in Nat /\ k <= j /\ j <= MaxDepth
  BY BoundAssumption
<1>3. j # MaxDepth
  <2>1. DOMAIN <<>> = {}
    OBVIOUS
  <2> QED  BY <1>1, <2>1 DEF Bounded
<1>4. j + 1 \in 1..MaxDepth /\ (j + 1) - 1 = j /\ j + 1 \in (k + 1)..MaxDepth
  BY <1>2, <1>3
<1>5. Level(tree, j + 1) = UNION {Range(m.kids) : m \in Level(tree, (j + 1) - 1)}
  BY <1>4, LevelFacts
<1>6. n.kids[i] \in Range(n.kids)
  BY DEF Range
<1>7. n.kids[i] \in Level(tree, j + 1)
  BY <1>1, <1>4, <1>5, <1>6
<1> QED  BY <1>4, <1>7 DEF Below

(* The nodes are those from the first level down.                          *)
LEMMA BelowFacts ==
  ASSUME NEW tree
  PROVE  /\ Nodes(tree) = Below(tree, 0) /\ tree \in Nodes(tree)
         /\ Below(tree, MaxDepth + 1) = {}
         /\ \A k \in 0..MaxDepth : Below(tree, k + 1) \subseteq Below(tree, k) /\ Below(tree, k) \subseteq Nodes(tree)
<1>1. MaxDepth \in Nat /\ 0 \in 0..MaxDepth
  BY BoundAssumption
<1>2. (MaxDepth + 1)..MaxDepth = {}
  BY <1>1
<1>3. \A k \in 0..MaxDepth : (k + 1)..MaxDepth \subseteq k..MaxDepth /\ k..MaxDepth \subseteq 0..MaxDepth
  BY <1>1
<1>4. tree \in Nodes(tree)
  BY <1>1, LevelFacts DEF Nodes
<1> QED  BY <1>2, <1>3, <1>4 DEF Below, Nodes

(* Induction from the leaves up.                                           *)
LEMMA TreeInduction ==
  ASSUME NEW tree, Bounded(tree), NEW T,
         \A n \in Nodes(tree) : (\A i \in DOMAIN n.kids : n.kids[i] \in T) => n \in T
  PROVE  Nodes(tree) \subseteq T
<1> DEFINE S == {d \in Nat : d <= MaxDepth + 1 => Below(tree, (MaxDepth + 1) - d) \subseteq T}
<1>1. MaxDepth \in Nat
  BY BoundAssumption
<1>2. 0 \in S
  <2>1. (MaxDepth + 1) - 0 = MaxDepth + 1
    BY <1>1
  <2> QED  BY <2>1, BelowFacts
<1>3. ASSUME NEW d \in Nat, d \in S PROVE d + 1 \in S
  <2>1. ASSUME d + 1 <= MaxDepth + 1 PROVE Below(tree, (MaxDepth + 1) - (d + 1)) \subseteq T
    <3> DEFINE k == (MaxDepth + 1) - (d + 1)
    <3>1. k \in 0..MaxDepth /\ k + 1 = (MaxDepth + 1) - d /\ d <= MaxDepth + 1
      BY <1>1, <2>1
    <3>2. Below(tree, k + 1) \subseteq T
      BY <1>3, <3>1
    <3> HIDE DEF k
    <3>3. ASSUME NEW n \in Below(tree, k) PROVE n \in T
      <4>1. n \in Nodes(tree)
        BY <3>1, <3>3, BelowFacts
      <4>2. \A i \in DOMAIN n.kids : n.kids[i] \in T
        BY <3>1, <3>2, <3>3, KidsBelow
      <4> QED  BY <4>1, <4>2
    <3>4. Below(tree, k) \subseteq T
      BY <3>3
    <3> QED  BY <3>4 DEF k
  <2>2. d + 1 \in Nat
    OBVIOUS
  <2> QED  BY <2>1, <2>2
<1>4. MaxDepth + 1 \in S
  <2>1. MaxDepth + 1 \in Nat
    BY <1>1
  <2> HIDE DEF S
  <2> QED  BY <1>2, <1>3, <2>1, SetInduction
<1>5. Below(tree, 0) \subseteq T
  <2>1. (MaxDepth + 1) - (MaxDepth + 1) = 0 /\ MaxDepth + 1 <= MaxDepth + 1
    BY <1>1
  <2> QED  BY <1>4, <2>1
<1> QED  BY <1>5, BelowFacts

-----------------------------------------------------------------------------
(* The recursions of SExpr, POSTags and Yield, one node at a time.         *)
KidsOf(n, f) == [i \in DOMAIN n.kids |-> f[n.kids[i]]]

SExprOf(withRoot, tree, n, f) ==
  LET root == n = tree
      tag == IF n.value = "" \/ (root /\ ~withRoot /\ n.kids # <<>>) THEN <<>> ELSE <<Escape(n.value)>>
  IN  IF n.kids = <<>> THEN
        (IF tag = <<>> THEN (IF root THEN <<"(", "(", ")", ")">> ELSE <<"(", ")">>) ELSE tag)
      ELSE <<"(">> \o tag \o FlattenSeq([i \in DOMAIN n.kids |-> f[n.kids[i]]]) \o <<")">>

POSTagsOf(n, f) ==
  FlattenSeq([i \in DOMAIN n.kids |->
    IF n.kids[i].kids = <<>> THEN <<<<n.kids[i].value, n.value>>>> ELSE f[n.kids[i]]])

YieldOf(n, f) ==
  IF n.kids = <<>> THEN <<n.value>> ELSE FlattenSeq([i \in DOMAIN n.kids |-> f[n.kids[i]]])

SExprTable(withRoot, tree, f) == [n \in Nodes(tree) |-> SExprOf(withRoot, tree, n, f)]
POSTagsTable(tree, f) == [n \in Nodes(tree) |-> POSTagsOf(n, f)]
YieldTable(tree, f) == [n \in Nodes(tree) |-> YieldOf(n, f)]

ValueOf(way, withRoot, tree, n, f) ==
  IF way = "sexpr" THEN SExprOf(withRoot, tree, n, f) ELSE IF way = "postag" THEN POSTagsOf(n, f) ELSE YieldOf(n, f)

Table(way, withRoot, tree, f) == [n \in Nodes(tree) |-> ValueOf(way, withRoot, tree, n, f)]

(* They depend on the values of the children only.                         *)
LEMMA ValueLocal ==
  ASSUME NEW way, NEW withRoot, NEW tree, NEW n, NEW f, NEW g,
         \A i \in DOMAIN n.kids : f[n.kids[i]] = g[n.kids[i]]
  PROVE  ValueOf(way, withRoot, tree, n, f) = ValueOf(way, withRoot, tree, n, g)
<1>1. [i \in DOMAIN n.kids |-> f[n.kids[i]]] = [i \in DOMAIN n.kids |-> g[n.kids[i]]]
  OBVIOUS
<1>2. [i \in DOMAIN n.kids |->
         IF n.kids[i].kids = <<>> THEN <<<<n.kids[i].value, n.value>>>> ELSE f[n.kids[i]]] =
      [i \in DOMAIN n.kids |->
         IF n.kids[i].kids = <<>> THEN <<<<n.kids[i].value, n.value>>>> ELSE g[n.kids[i]]]
  OBVIOUS
<1>3. SExprOf(withRoot, tree, n, f) = SExprOf(withRoot, tree, n, g)
  BY <1>1, Zenon DEF SExprOf
<1>4. POSTagsOf(n, f) = POSTagsOf(n, g)
  BY <1>2, Zenon DEF POSTagsOf
<1>5. YieldOf(n, f) = YieldOf(n, g)
  BY <1>1, Zenon DEF YieldOf
<1> QED  BY <1>3, <1>4, <1>5 DEF ValueOf

(* A solution exists.                                                      *)
LEMMA TableExists ==
  ASSUME NEW way, NEW withRoot, NEW tree, Bounded(tree)
  PROVE  \E f : f = Table(way, withRoot, tree, f)
<1> DEFINE N == Nodes(tree)
           V(n, f) == ValueOf(way, withRoot, tree, n, f)
           Solved(k) == \E f : /\ f = [n \in N |-> f[n]]
                               /\ \A n \in Below(tree, k) : f[n] = V(n, f)
           S == {d \in Nat : d <= MaxDepth + 1 => Solved((MaxDepth + 1) - d)}
<1>1. MaxDepth \in Nat
  BY BoundAssumption
<1>2. 0 \in S
  <2>1. (MaxDepth + 1) - 0 = MaxDepth + 1
    BY <1>1
  <2> DEFINE f == [n \in N |-> <<>>]
  <2>2. f = [n \in N |-> f[n]]
    OBVIOUS
  <2>3. \A n \in Below(tree, MaxDepth + 1) : f[n] = V(n, f)
    BY BelowFacts
  <2> HIDE DEF f, V
  <2>4. Solved(MaxDepth + 1)
    BY <2>2, <2>3
  <2> QED  BY <2>1, <2>4
<1>3. ASSUME NEW d \in Nat, d \in S PROVE d + 1 \in S
  <2>1. ASSUME d + 1 <= MaxDepth + 1 PROVE Solved((MaxDepth + 1) - (d + 1))
    <3> DEFINE k == (MaxDepth + 1) - (d + 1)
    <3>1. k \in 0..MaxDepth /\ k + 1 = (MaxDepth + 1) - d /\ d <= MaxDepth + 1
      BY <1>1, <2>1
    <3> HIDE DEF k
    <3>2. Solved(k + 1)
      <4> HIDE DEF Solved
      <4> QED  BY <1>3, <3>1
    <3>3. PICK g : g = [n \in N |-> g[n]] /\ \A n \in Below(tree, k + 1) : g[n] = V(n, g)
      BY <3>2
    <3> DEFINE f == [n \in N |-> IF n \in Below(tree, k + 1) THEN g[n] ELSE V(n, g)]
    <3>4. f = [n \in N |-> f[n]]
      OBVIOUS
    <3>5. ASSUME NEW n \in Below(tree, k) PROVE f[n] = V(n, f)
      <4>1. n \in N
        BY <3>1, <3>5, BelowFacts
      <4>2. f[n] = V(n, g)
        <5> HIDE DEF V
        <5> QED  BY <3>3, <4>1
      <4>3. ASSUME NEW i \in DOMAIN n.kids PROVE f[n.kids[i]] = g[n.kids[i]]
        <5>1. n.kids[i] \in Below(tree, k + 1)
          BY <3>1, <3>5, KidsBelow
        <5>2. n.kids[i] \in N
          BY <3>1, <5>1, BelowFacts
        <5> HIDE DEF V
        <5> QED  BY <5>1, <5>2
      <4>4. V(n, f) = V(n, g)
        <5> HIDE DEF f
        <5> QED  BY <4>3, ValueLocal
      <4> HIDE DEF f, V
      <4> QED  BY <4>2, <4>4
    <3>6. Solved(k)
      <4> HIDE DEF f, V
      <4> QED  BY <3>4, <3>5
    <3> HIDE DEF Solved
    <3> QED  BY <3>6 DEF k
  <2>2. d + 1 \in Nat
    OBVIOUS
  <2> HIDE DEF Solved
  <2> QED  BY <2>1, <2>2
<1>4. MaxDepth + 1 \in S
  <2>1. MaxDepth + 1 \in Nat
    BY <1>1
  <2> HIDE DEF S
  <2> QED  BY <1>2, <1>3, <2>1, SetInduction
<1>5. Solved(0)
  <2>1. (MaxDepth + 1) - (MaxDepth + 1) = 0 /\ MaxDepth + 1 <= MaxDepth + 1
    BY <1>1
  <2> HIDE DEF Solved
  <2> QED  BY <1>4, <2>1
<1>6. PICK f : f = [n \in N |-> f[n]] /\ \A n \in Below(tree, 0) : f[n] = V(n, f)
  BY <1>5
<1>7. f = [n \in N |-> V(n, f)]
  <2>1. \A n \in N : f[n] = V(n, f)
    BY <1>6, BelowFacts
  <2> HIDE DEF V
  <2> QED  BY <1>6, <2>1
<1> QED  BY <1>7 DEF Table

(* What the three operators compute of a tree, node by node.               *)
LEMMA Solutions ==
  ASSUME NEW withRoot, NEW tree, Bounded(tree)
  PROVE  /\ \E f : /\ SExpr(withRoot, tree) = f[tree]
                   /\ \A n \in Nodes(tree) : f[n] = SExprOf(withRoot, tree, n, f)
         /\ \E f : POSTags(tree) = f[tree] /\ \A n \in Nodes(tree) : f[n] = POSTagsOf(n, f)
         /\ \E f : Yield(tree) = f[tree] /\ \A n \in Nodes(tree) : f[n] = YieldOf(n, f)
<1>1. \E f : f = SExprTable(withRoot, tree, f)
  <2>1. PICK f : f = Table("sexpr", withRoot, tree, f)
    BY TableExists
  <2>2. \A n : ValueOf("sexpr", withRoot, tree, n, f) = SExprOf(withRoot, tree, n, f)
    BY DEF ValueOf
  <2>3. f = SExprTable(withRoot, tree, f)
    BY <2>1, <2>2 DEF Table, SExprTable
  <2> QED  BY <2>3
<1>2. \E f : f = POSTagsTable(tree, f)
  <2>1. PICK f : f = Table("postag", withRoot, tree, f)
    BY TableExists
  <2>2. \A n : ValueOf("postag", withRoot, tree, n, f) = POSTagsOf(n, f)
    BY DEF ValueOf
  <2>3. f = POSTagsTable(tree, f)
    BY <2>1, <2>2 DEF Table, POSTagsTable
  <2> QED  BY <2>3
<1>3. \E f : f = YieldTable(tree, f)
  <2>1. PICK f : f = Table("yield", withRoot, tree, f)
    BY TableExists
  <2>2. \A n : ValueOf("yield", withRoot, tree, n, f) = YieldOf(n, f)
    BY DEF ValueOf
  <2>3. f = YieldTable(tree, f)
    BY <2>1, <2>2 DEF Table, YieldTable
  <2> QED  BY <2>3
<1>4. \E f : /\ SExpr(withRoot, tree) = f[tree]
             /\ \A n \in Nodes(tree) : f[n] = SExprOf(withRoot, tree, n, f)
  <2> DEFINE f == CHOOSE f : f = SExprTable(withRoot, tree, f)
  <2>1. f = SExprTable(withRoot, tree, f)
    BY <1>1
  <2>2. SExpr(withRoot, tree) = f[tree]
    BY DEF SExpr, SExprTable, SExprOf
  <2> HIDE DEF f
  <2>3. \A n \in Nodes(tree) : f[n] = SExprOf(withRoot, tree, n, f)
    BY <2>1 DEF SExprTable
  <2> QED  BY <2>2, <2>3
<1>5. \E f : POSTags(tree) = f[tree] /\ \A n \in Nodes(tree) : f[n] = POSTagsOf(n, f)
  <2> DEFINE f == CHOOSE f : f = POSTagsTable(tree, f)
  <2>1. f = POSTagsTable(tree, f)
    BY <1>2
  <2>2. POSTags(tree) = f[tree]
    BY DEF POSTags, POSTagsTable, POSTagsOf
  <2> HIDE DEF f
  <2>3. \A n \in Nodes(tree) : f[n] = POSTagsOf(n, f)
    BY <2>1 DEF POSTagsTable
  <2> QED  BY <2>2, <2>3
<1>6. \E f : Yield(tree) = f[tree] /\ \A n \in Nodes(tree) : f[n] = YieldOf(n, f)
  <2> DEFINE f == CHOOSE f : f = YieldTable(tree, f)
  <2>1. f = YieldTable(tree, f)
    BY <1>3
  <2>2. Yield(tree) = f[tree]
    BY DEF Yield, YieldTable, YieldOf
  <2> HIDE DEF f
  <2>3. \A n \in Nodes(tree) : f[n] = YieldOf(n, f)
    BY <2>1 DEF YieldTable
  <2> QED  BY <2>2, <2>3
<1> QED  BY <1>4, <1>5, <1>6

-----------------------------------------------------------------------------
(* Sequences of pieces put together: a relation that two pairs of          *)
(* sequences hand on to their concatenations is handed on by flattening.   *)
LEMMA FlattenClosed ==
  ASSUME NEW A, NEW B, NEW R, R \subseteq Seq(A) \X Seq(B),
         \A x \in R : \A y \in R : <<x[1] \o y[1], x[2] \o y[2]>> \in R,
         NEW s \in Seq(Seq(A)), NEW t \in Seq(Seq(B)), s # <<>>, Len(t) = Len(s),
         \A i \in 1..Len(s) : <<s[i], t[i]>> \in R
  PROVE  <<FlattenSeq(s), FlattenSeq(t)>> \in R
<1> DEFINE m == Len(s)
           f == Flat(s)
           g == Flat(t)
           S == {n \in Nat : \A i \in 1..m : i <= n => <<f[i], g[i]>> \in R}
<1>1. m \in Nat /\ m \in 1..m /\ t # <<>>
  OBVIOUS
<1>2. /\ \A i \in 1..m : f[i] = IF i = 1 THEN s[i] ELSE f[i - 1] \o s[i]
      /\ \A i \in 1..m : g[i] = IF i = 1 THEN t[i] ELSE g[i - 1] \o t[i]
      /\ FlattenSeq(s) = f[m] /\ FlattenSeq(t) = g[m]
  <2> HIDE DEF f, g
  <2>1. /\ \A i \in 1..Len(s) : f[i] = IF i = 1 THEN s[i] ELSE f[i - 1] \o s[i]
        /\ FlattenSeq(s) = IF s = <<>> THEN <<>> ELSE f[Len(s)]
    BY FlatPrefixes DEF f
  <2>2. /\ \A i \in 1..Len(t) : g[i] = IF i = 1 THEN t[i] ELSE g[i - 1] \o t[i]
        /\ FlattenSeq(t) = IF t = <<>> THEN <<>> ELSE g[Len(t)]
    BY FlatPrefixes DEF g
  <2> QED  BY <2>1, <2>2, <1>1
<1> HIDE DEF f, g
<1>3. 0 \in S
  OBVIOUS
<1>4. ASSUME NEW n \in Nat, n \in S PROVE n + 1 \in S
  <2>1. ASSUME NEW i \in 1..m, i <= n + 1 PROVE <<f[i], g[i]>> \in R
    <3>1. CASE i = 1
      <4>1. f[i] = s[i] /\ g[i] = t[i]
        BY <1>2, <3>1
      <4> QED  BY <4>1
    <3>2. CASE i # 1
      <4>1. i - 1 \in 1..m /\ i - 1 <= n
        BY <1>1, <2>1, <3>2
      <4>2. <<f[i - 1], g[i - 1]>> \in R /\ <<s[i], t[i]>> \in R
        BY <1>4, <4>1
      <4>3. <<f[i - 1] \o s[i], g[i - 1] \o t[i]>> \in R
        <5>1. \A a, b, c, d : <<a, b>> \in R /\ <<c, d>> \in R => <<a \o c, b \o d>> \in R
          OBVIOUS
        <5> QED  BY <4>2, <5>1, Zenon
      <4>4. f[i] = f[i - 1] \o s[i] /\ g[i] = g[i - 1] \o t[i]
        BY <1>2, <3>2
      <4> QED  BY <4>3, <4>4
    <3> QED  BY <3>1, <3>2
  <2>2. n + 1 \in Nat
    OBVIOUS
  <2> QED  BY <2>1, <2>2
<1>5. m \in S
  <2> HIDE DEF S, m
  <2> QED  BY <1>1, <1>3, <1>4, SetInduction
<1>6. <<f[m], g[m]>> \in R
  BY <1>1, <1>5
<1> QED  BY <1>2, <1>6

(* Empty pieces make nothing.                                              *)
LEMMA FlattenEmpty ==
  ASSUME NEW A, NEW s \in Seq(Seq(A)), \A i \in 1..Len(s) : s[i] = <<>>
  PROVE  FlattenSeq(s) = <<>>
<1>1. CASE s = <<>>
  BY <1>1, FlattenOne
<1>2. CASE s # <<>>
  <2> DEFINE R == {<<<<>>, <<>>>>}
  <2>1. R \subseteq Seq(A) \X Seq(A)
    OBVIOUS
  <2>2. \A x \in R : \A y \in R : <<x[1] \o y[1], x[2] \o y[2]>> \in R
    <3>1. <<>> \o <<>> = <<>>
      OBVIOUS
    <3> QED  BY <3>1
  <2>3. \A i \in 1..Len(s) : <<s[i], s[i]>> \in R
    OBVIOUS
  <2>4. <<FlattenSeq(s), FlattenSeq(s)>> \in R
    <3> HIDE DEF R
    <3> QED  BY <1>2, <2>1, <2>2, <2>3, FlattenClosed
  <2> QED  BY <2>4
<1> QED  BY <1>1, <1>2

Mapped(g, s) == [i \in DOMAIN s |-> g[s[i]]]

(* A function applied to each element, before or after.                    *)
LEMMA MapConcat ==
  ASSUME NEW A, NEW g, NEW s \in Seq(A), NEW t \in Seq(A)
  PROVE  Mapped(g, s \o t) = Mapped(g, s) \o Mapped(g, t)
<1> DEFINE B == {g[a] : a \in A}
           p == Mapped(g, s)
           q == Mapped(g, t)
           r == Mapped(g, s \o t)
           m == Len(s)
           n == Len(t)
<1>1. /\ m \in Nat /\ n \in Nat /\ s \o t \in Seq(A) /\ Len(s \o t) = m + n
      /\ \A i \in 1..(m + n) : (s \o t)[i] = IF i <= m THEN s[i] ELSE t[i - m]
  BY ConcatProperties
<1>2. ASSUME NEW u \in Seq(A)
      PROVE  /\ Mapped(g, u) \in Seq(B) /\ Len(Mapped(g, u)) = Len(u)
             /\ \A i \in 1..Len(u) : Mapped(g, u)[i] = g[u[i]]
  <2> DEFINE x == Mapped(g, u)
             l == Len(u)
  <2>1. x = [i \in 1..l |-> g[u[i]]] /\ l \in Nat /\ \A i \in 1..l : u[i] \in A
    BY DEF Mapped
  <2>0. \A i \in 1..l : g[u[i]] \in B
    BY <2>1
  <2> HIDE DEF x, l, B
  <2>2. x = [i \in 1..l |-> x[i]] /\ \A i \in 1..l : x[i] = g[u[i]] /\ x[i] \in B
    <3>1. \A i \in 1..l : x[i] = g[u[i]]
      BY ONLY <2>1
    <3>2. x = [i \in 1..l |-> x[i]]
      BY ONLY <2>1
    <3> QED  BY <2>0, <3>1, <3>2
  <2>3. x \in Seq(B) /\ Len(x) = l
    <3>1. x \in [1..l -> B] /\ l \in Nat
      BY <2>1, <2>2
    <3> QED  BY ONLY <3>1
  <2> QED  BY <2>2, <2>3 DEF x, l
<1>3. /\ p \in Seq(B) /\ Len(p) = m /\ \A i \in 1..m : p[i] = g[s[i]]
      /\ q \in Seq(B) /\ Len(q) = n /\ \A i \in 1..n : q[i] = g[t[i]]
      /\ r \in Seq(B) /\ Len(r) = m + n /\ \A i \in 1..(m + n) : r[i] = g[(s \o t)[i]]
  <2>1. /\ p \in Seq(B) /\ Len(p) = m /\ \A i \in 1..m : p[i] = g[s[i]]
        /\ q \in Seq(B) /\ Len(q) = n /\ \A i \in 1..n : q[i] = g[t[i]]
    BY <1>2
  <2>2. r \in Seq(B) /\ Len(r) = Len(s \o t) /\ \A i \in 1..Len(s \o t) : r[i] = g[(s \o t)[i]]
    BY <1>1, <1>2
  <2> HIDE DEF p, q, r
  <2> QED  BY <1>1, <2>1, <2>2
<1> HIDE DEF p, q, r
<1>4. /\ p \o q \in Seq(B) /\ Len(p \o q) = Len(p) + Len(q)
      /\ \A i \in 1..(Len(p) + Len(q)) : (p \o q)[i] = IF i <= Len(p) THEN p[i] ELSE q[i - Len(p)]
  <2>1. p \in Seq(B) /\ q \in Seq(B)
    BY <1>3
  <2> QED  BY ONLY <2>1, ConcatProperties
<1>5. ASSUME NEW i \in 1..(m + n) PROVE r[i] = (p \o q)[i]
  <2> HIDE DEF m, n
  <2>1. CASE i <= m
    <3>1. i \in 1..m
      BY <1>1, <2>1
    <3>2. (s \o t)[i] = s[i] /\ (p \o q)[i] = p[i]
      BY <1>1, <1>3, <1>4, <2>1
    <3> QED  BY <1>3, <3>1, <3>2
  <2>2. CASE ~(i <= m)
    <3>1. i - m \in 1..n
      BY <1>1, <2>2
    <3>2. (s \o t)[i] = t[i - m] /\ (p \o q)[i] = q[i - m]
      BY <1>1, <1>3, <1>4, <2>2
    <3> QED  BY <1>3, <3>1, <3>2
  <2> QED  BY <2>1, <2>2
<1>6. r = p \o q
  <2> HIDE DEF m, n
  <2> QED  BY <1>3, <1>4, <1>5, SeqEqual
<1> QED  BY <1>3, <1>6 DEF p, q, r

-----------------------------------------------------------------------------
(* What a token adds to the height.                                        *)
Rise(x) == IF x = "(" THEN 1 ELSE IF x = ")" THEN -1 ELSE 0

(* The height is the sum of what the tokens add.                           *)
LEMMA HeightStep ==
  ASSUME NEW line
  PROVE  /\ Height(line, 0) = 0
         /\ \A i \in Nat : Height(line, i) \in Int /\ Height(line, i + 1) = Height(line, i) + Rise(line[i + 1])
<1> DEFINE At(x, i) == {j \in 1..i : line[j] = x}
<1>1. \A x : At(x, 0) = {}
  OBVIOUS
<1>2. ASSUME NEW x, NEW i \in Nat
      PROVE  /\ Cardinality(At(x, i)) \in Nat
             /\ Cardinality(At(x, i + 1)) = Cardinality(At(x, i)) + IF line[i + 1] = x THEN 1 ELSE 0
  <2>1. IsFiniteSet(At(x, i))
    <3>1. IsFiniteSet(1..i)
      BY FS_Interval
    <3>2. At(x, i) \subseteq 1..i
      OBVIOUS
    <3> QED  BY <3>1, <3>2, FS_Subset
  <2>2. i + 1 \notin At(x, i)
    OBVIOUS
  <2>3. At(x, i + 1) = IF line[i + 1] = x THEN At(x, i) \cup {i + 1} ELSE At(x, i)
    <3>1. 1..(i + 1) = (1..i) \cup {i + 1}
      OBVIOUS
    <3> QED  BY <3>1
  <2> HIDE DEF At
  <2>4. Cardinality(At(x, i) \cup {i + 1}) = Cardinality(At(x, i)) + 1
    BY <2>1, <2>2, FS_AddElement
  <2>5. Cardinality(At(x, i)) \in Nat
    BY <2>1, FS_CardinalityType
  <2> QED  BY <2>3, <2>4, <2>5
<1>3. \A i : Height(line, i) = Cardinality(At("(", i)) - Cardinality(At(")", i))
  BY DEF Height
<1> HIDE DEF At
<1>4. Height(line, 0) = 0
  BY <1>1, <1>3, FS_EmptySet
<1>5. ASSUME NEW i \in Nat
      PROVE  Height(line, i) \in Int /\ Height(line, i + 1) = Height(line, i) + Rise(line[i + 1])
  BY <1>2, <1>3 DEF Rise
<1> QED  BY <1>4, <1>5

(* The height in a concatenation.                                          *)
LEMMA HeightConcat ==
  ASSUME NEW A, NEW p \in Seq(A), NEW q \in Seq(A)
  PROVE  /\ \A i \in 0..Len(p) : Height(p \o q, i) = Height(p, i)
         /\ \A i \in 0..Len(q) : Height(p \o q, Len(p) + i) = Height(p, Len(p)) + Height(q, i)
<1> DEFINE r == p \o q
           m == Len(p)
           n == Len(q)
           S == {i \in Nat : i <= m => Height(r, i) = Height(p, i)}
           T == {i \in Nat : i <= n => Height(r, m + i) = Height(p, m) + Height(q, i)}
<1>1. /\ m \in Nat /\ n \in Nat
      /\ \A i \in 1..(m + n) : r[i] = IF i <= m THEN p[i] ELSE q[i - m]
  BY ConcatProperties
<1> HIDE DEF r, m, n
<1>2. 0 \in S
  BY HeightStep
<1>3. ASSUME NEW i \in Nat, i \in S PROVE i + 1 \in S
  <2>1. ASSUME i + 1 <= m PROVE Height(r, i + 1) = Height(p, i + 1)
    <3>1. i + 1 \in 1..(m + n) /\ i <= m
      BY <1>1, <2>1
    <3>2. r[i + 1] = p[i + 1]
      BY <1>1, <2>1, <3>1
    <3>3. Height(r, i) = Height(p, i)
      BY <1>3, <3>1
    <3> QED  BY <3>2, <3>3, HeightStep
  <2>2. i + 1 \in Nat
    OBVIOUS
  <2> QED  BY <2>1, <2>2
<1>4. Nat \subseteq S
  <2> HIDE DEF S
  <2> QED  BY <1>2, <1>3, SetInduction
<1>5. \A i \in Nat : i <= m => Height(r, i) = Height(p, i)
  BY <1>4
<1>6. 0 \in T
  <2>1. Height(r, m) = Height(p, m) /\ Height(p, m) \in Int /\ m + 0 = m
    <3>1. m <= m /\ m + 0 = m
      BY <1>1
    <3> QED  BY <1>1, <1>5, <3>1, HeightStep
  <2>2. Height(q, 0) = 0
    BY HeightStep
  <2>3. Height(r, m + 0) = Height(p, m) + Height(q, 0)
    BY <2>1, <2>2
  <2> QED  BY <2>3
<1>7. ASSUME NEW i \in Nat, i \in T PROVE i + 1 \in T
  <2>1. ASSUME i + 1 <= n PROVE Height(r, m + (i + 1)) = Height(p, m) + Height(q, i + 1)
    <3>1. (m + i) + 1 \in 1..(m + n) /\ m + i \in Nat /\ i <= n /\ (m + i) + 1 = m + (i + 1)
      BY <1>1, <2>1
    <3>2. r[(m + i) + 1] = q[i + 1]
      <4>1. ~((m + i) + 1 <= m) /\ ((m + i) + 1) - m = i + 1
        BY <1>1
      <4> QED  BY <1>1, <3>1, <4>1
    <3>3. Height(r, m + i) = Height(p, m) + Height(q, i)
      BY <1>7, <3>1
    <3>4. Height(r, (m + i) + 1) = Height(r, m + i) + Rise(r[(m + i) + 1])
      BY <3>1, HeightStep
    <3>5. Height(q, i + 1) = Height(q, i) + Rise(q[i + 1]) /\ Height(q, i) \in Int
      BY HeightStep
    <3>6. Height(p, m) \in Int /\ Rise(q[i + 1]) \in Int
      BY <1>1, HeightStep DEF Rise
    <3> QED  BY <3>1, <3>2, <3>3, <3>4, <3>5, <3>6
  <2>2. i + 1 \in Nat
    OBVIOUS
  <2> QED  BY <2>1, <2>2
<1>8. Nat \subseteq T
  <2> HIDE DEF T
  <2> QED  BY <1>6, <1>7, SetInduction
<1>9. \A i \in Nat : i <= n => Height(r, m + i) = Height(p, m) + Height(q, i)
  BY <1>8
<1>10. (\A i \in 0..m : i \in Nat /\ i <= m) /\ (\A i \in 0..n : i \in Nat /\ i <= n)
  BY <1>1
<1> QED  BY <1>5, <1>9, <1>10 DEF r, m, n

-----------------------------------------------------------------------------
(* The words of a piece of a line that follows anything but "(".           *)
MarkAt(p, i) == IF p[i] \notin {"(", ")"} /\ (i = 1 \/ p[i - 1] # "(") THEN <<p[i]>> ELSE <<>>
Marks(p) == [i \in DOMAIN p |-> MarkAt(p, i)]
Said(p) == FlattenSeq(Marks(p))

(* One piece of the words for every token.                                 *)
LEMMA MarksType ==
  ASSUME NEW p \in Seq(Names)
  PROVE  /\ Marks(p) \in Seq(Seq(Names)) /\ Len(Marks(p)) = Len(p)
         /\ \A i \in 1..Len(p) : Marks(p)[i] = MarkAt(p, i)
<1> DEFINE x == Marks(p)
           l == Len(p)
<1>1. x = [i \in 1..l |-> MarkAt(p, i)] /\ l \in Nat /\ \A i \in 1..l : p[i] \in Names
  BY DEF Marks
<1>2. \A i \in 1..l : MarkAt(p, i) \in Seq(Names)
  <2>1. \A y \in Names : <<y>> \in Seq(Names)
    <3>1. ASSUME NEW A, NEW y \in A PROVE <<y>> \in Seq(A)
      OBVIOUS
    <3> QED  BY <3>1
  <2>2. <<>> \in Seq(Names)
    OBVIOUS
  <2> HIDE DEF l
  <2> QED  BY <1>1, <2>1, <2>2 DEF MarkAt
<1> HIDE DEF x, l
<1>3. x = [i \in 1..l |-> x[i]] /\ \A i \in 1..l : x[i] = MarkAt(p, i) /\ x[i] \in Seq(Names)
  BY <1>1, <1>2
<1>4. x \in Seq(Seq(Names)) /\ Len(x) = l
  BY <1>1, <1>3, SeqMade
<1> QED  BY <1>3, <1>4 DEF x, l

(* The words of a concatenation, unless it puts a word after a "(".        *)
LEMMA SaidConcat ==
  ASSUME NEW p \in Seq(Names), NEW q \in Seq(Names),
         p = <<>> \/ p[Len(p)] # "(" \/ q = <<>> \/ q[1] \in {"(", ")"}
  PROVE  Said(p \o q) = Said(p) \o Said(q)
<1> DEFINE r == p \o q
           m == Len(p)
           n == Len(q)
           x == Marks(p)
           y == Marks(q)
           z == Marks(r)
<1>1. /\ m \in Nat /\ n \in Nat /\ r \in Seq(Names) /\ Len(r) = m + n
      /\ \A i \in 1..(m + n) : r[i] = IF i <= m THEN p[i] ELSE q[i - m]
  BY ConcatProperties
<1>2. /\ x \in Seq(Seq(Names)) /\ Len(x) = m /\ \A i \in 1..m : x[i] = MarkAt(p, i)
      /\ y \in Seq(Seq(Names)) /\ Len(y) = n /\ \A i \in 1..n : y[i] = MarkAt(q, i)
      /\ z \in Seq(Seq(Names)) /\ Len(z) = m + n /\ \A i \in 1..(m + n) : z[i] = MarkAt(r, i)
  <2>1. /\ x \in Seq(Seq(Names)) /\ Len(x) = m /\ \A i \in 1..m : x[i] = MarkAt(p, i)
        /\ y \in Seq(Seq(Names)) /\ Len(y) = n /\ \A i \in 1..n : y[i] = MarkAt(q, i)
    BY MarksType
  <2>2. z \in Seq(Seq(Names)) /\ Len(z) = Len(r) /\ \A i \in 1..Len(r) : z[i] = MarkAt(r, i)
    <3> HIDE DEF r
    <3> QED  BY <1>1, MarksType
  <2> HIDE DEF x, y, z, r, m, n
  <2> QED  BY <1>1, <2>1, <2>2
<1>3. p = <<>> \/ p[m] # "(" \/ n = 0 \/ q[1] \in {"(", ")"}
  OBVIOUS
<1>4. p = <<>> => m = 0
  OBVIOUS
<1> HIDE DEF x, y, z, r, m, n
<1>5. /\ x \o y \in Seq(Seq(Names)) /\ Len(x \o y) = m + n
      /\ \A i \in 1..(m + n) : (x \o y)[i] = IF i <= m THEN x[i] ELSE y[i - m]
  <2>1. x \in Seq(Seq(Names)) /\ y \in Seq(Seq(Names))
    BY <1>2
  <2>2. /\ x \o y \in Seq(Seq(Names)) /\ Len(x \o y) = Len(x) + Len(y)
        /\ \A i \in 1..(Len(x) + Len(y)) : (x \o y)[i] = IF i <= Len(x) THEN x[i] ELSE y[i - Len(x)]
    BY ONLY <2>1, ConcatProperties
  <2>3. Len(x) = m /\ Len(y) = n
    BY <1>2
  <2> QED  BY <2>2, <2>3
<1>6. ASSUME NEW i \in 1..(m + n) PROVE z[i] = (x \o y)[i]
  <2>1. CASE i <= m
    <3>1. i \in 1..m /\ r[i] = p[i] /\ (i # 1 => r[i - 1] = p[i - 1])
      <4>1. i # 1 => i - 1 \in 1..(m + n) /\ i - 1 <= m
        BY <1>1, <2>1
      <4> QED  BY <1>1, <2>1, <4>1
    <3>2. MarkAt(r, i) = MarkAt(p, i)
      BY <3>1 DEF MarkAt
    <3>3. (x \o y)[i] = x[i]
      BY <1>2, <1>5, <2>1
    <3> QED  BY <1>2, <3>1, <3>2, <3>3
  <2>2. CASE i = m + 1
    <3>1. i - m = 1 /\ n # 0 /\ 1 \in 1..n /\ ~(i <= m) /\ i - 1 = m /\ (m # 0 => i # 1 /\ m \in 1..(m + n))
      BY <1>1, <2>2
    <3>2. r[i] = q[1] /\ (m # 0 => r[i - 1] = p[m])
      BY <1>1, <3>1
    <3>3. MarkAt(r, i) = MarkAt(q, 1)
      <4>1. CASE m = 0
        <5>1. i = 1
          BY <2>2, <4>1
        <5> QED  BY <3>2, <5>1 DEF MarkAt
      <4>2. CASE m # 0 /\ p[m] # "("
        BY <3>1, <3>2, <4>2 DEF MarkAt
      <4>3. CASE q[1] \in {"(", ")"}
        BY <3>2, <4>3 DEF MarkAt
      <4> QED  BY <1>3, <1>4, <3>1, <4>1, <4>2, <4>3
    <3>4. (x \o y)[i] = y[1]
      BY <1>2, <1>5, <3>1
    <3> QED  BY <1>2, <3>1, <3>3, <3>4
  <2>3. CASE i > m + 1
    <3> DEFINE j == i - m
    <3>1. /\ j \in 1..n /\ j # 1 /\ i # 1 /\ ~(i <= m) /\ ~(i - 1 <= m)
          /\ i - 1 \in 1..(m + n) /\ (i - 1) - m = j - 1
      BY <1>1, <2>3
    <3>2. r[i] = q[j] /\ r[i - 1] = q[j - 1]
      BY <1>1, <3>1
    <3> HIDE DEF j
    <3>3. MarkAt(r, i) = MarkAt(q, j)
      BY <3>1, <3>2 DEF MarkAt
    <3>4. (x \o y)[i] = y[j]
      BY <1>2, <1>5, <3>1 DEF j
    <3> QED  BY <1>2, <3>1, <3>3, <3>4
  <2>4. i <= m \/ i = m + 1 \/ i > m + 1
    BY <1>1
  <2> QED  BY <2>1, <2>2, <2>3, <2>4
<1>7. z = x \o y
  BY <1>2, <1>5, <1>6, SeqEqual
<1>8. FlattenSeq(x \o y) = FlattenSeq(x) \o FlattenSeq(y)
  BY <1>2, FlattenConcat
<1> QED  BY <1>7, <1>8 DEF Said, x, y, z, r

-----------------------------------------------------------------------------
(* How the words of a tree are printed.                                    *)
Escaping == [v \in Names |-> Escape(v)]
Escaped(w) == Mapped(Escaping, w)

(* Escaping leaves no bracket.                                             *)
LEMMA EscapeFacts ==
  /\ \A v \in Names : Escape(v) \in Names /\ Escape(v) \notin {"(", ")"}
  /\ Escaping \in [Names -> Names]
<1>1. \A v \in Names : Escape(v) \in Names /\ Escape(v) \notin {"(", ")"}
  BY NamesAssumption DEF Escape
<1> QED  BY <1>1 DEF Escaping

(* Pieces are escaped apart.                                               *)
LEMMA EscapedConcat ==
  ASSUME NEW v \in Seq(Names), NEW w \in Seq(Names)
  PROVE  Escaped(v \o w) = Escaped(v) \o Escaped(w)
<1> QED  BY MapConcat DEF Escaped

(* A sequence of complete expressions or words that says w.                *)
Complete(p, w) ==
  /\ p # <<>> /\ p[Len(p)] # "("
  /\ Height(p, Len(p)) = 0 /\ \A i \in 0..Len(p) : Height(p, i) >= 0
  /\ Said(p) = Escaped(w)

Expressions == {x \in Seq(Names) \X Seq(Names) : Complete(x[1], x[2])}

(* Those that start with a bracket.                                        *)
Bracketed == {x \in Expressions : x[1][1] = "("}

(* Two of them are another.                                                *)
LEMMA CompleteConcat ==
  /\ \A x \in Expressions : \A y \in Expressions : <<x[1] \o y[1], x[2] \o y[2]>> \in Expressions
  /\ \A x \in Bracketed : \A y \in Bracketed : <<x[1] \o y[1], x[2] \o y[2]>> \in Bracketed
<1>1. ASSUME NEW p \in Seq(Names), NEW v \in Seq(Names), Complete(p, v),
             NEW q \in Seq(Names), NEW w \in Seq(Names), Complete(q, w)
      PROVE  /\ p \o q \in Seq(Names) /\ v \o w \in Seq(Names) /\ Complete(p \o q, v \o w)
             /\ (p \o q)[1] = p[1]
  <2> DEFINE r == p \o q
             m == Len(p)
             n == Len(q)
  <2>1. /\ r \in Seq(Names) /\ Len(r) = m + n
        /\ \A i \in 1..(m + n) : r[i] = IF i <= m THEN p[i] ELSE q[i - m]
    BY ConcatProperties
  <2>2. m \in Nat /\ n \in Nat /\ m # 0 /\ n # 0
    BY <1>1 DEF Complete
  <2>3. /\ \A i \in 0..m : Height(r, i) = Height(p, i)
        /\ \A i \in 0..n : Height(r, m + i) = Height(p, m) + Height(q, i)
    BY HeightConcat
  <2>4. /\ Height(p, m) = 0 /\ \A i \in 0..m : Height(p, i) >= 0
        /\ Height(q, n) = 0 /\ \A i \in 0..n : Height(q, i) >= 0
        /\ p[m] # "(" /\ q[n] # "(" /\ Said(p) = Escaped(v) /\ Said(q) = Escaped(w)
    BY <1>1 DEF Complete
  <2>5. Said(r) = Said(p) \o Said(q)
    BY <2>4, SaidConcat
  <2>6. Escaped(v \o w) = Escaped(v) \o Escaped(w)
    BY EscapedConcat
  <2>7. v \o w \in Seq(Names)
    BY ConcatProperties
  <2> HIDE DEF r, m, n
  <2>8. \A i \in Nat : Height(q, i) \in Int
    BY HeightStep
  <2>9. ASSUME NEW i \in 0..(m + n) PROVE Height(r, i) >= 0
    <3>1. CASE i <= m
      <4>1. i \in 0..m
        BY <2>2, <3>1
      <4> QED  BY <2>3, <2>4, <4>1
    <3>2. CASE ~(i <= m)
      <4>1. i - m \in 0..n /\ m + (i - m) = i /\ i - m \in Nat
        BY <2>2, <3>2
      <4>2. Height(r, m + (i - m)) = Height(p, m) + Height(q, i - m)
        BY <2>3, <4>1
      <4>3. Height(q, i - m) >= 0 /\ Height(q, i - m) \in Int
        BY <2>4, <2>8, <4>1
      <4> QED  BY <2>4, <4>1, <4>2, <4>3
    <3> QED  BY <3>1, <3>2
  <2>10. Height(r, m + n) = 0
    <3>1. n \in 0..n
      BY <2>2
    <3> QED  BY <2>3, <2>4, <3>1
  <2>11. r[m + n] = q[n] /\ r[1] = p[1]
    <3>1. m + n \in 1..(m + n) /\ ~(m + n <= m) /\ (m + n) - m = n /\ 1 \in 1..(m + n) /\ 1 <= m
      BY <2>2
    <3>2. r[m + n] = q[(m + n) - m] /\ r[1] = p[1]
      BY ONLY <2>1, <3>1
    <3> QED  BY <3>1, <3>2
  <2>12. r # <<>>
    <3>1. Len(<<>>) = 0 /\ m + n # 0
      BY <2>2
    <3> QED  BY <2>1, <3>1
  <2>13. Complete(r, v \o w)
    BY <2>1, <2>4, <2>5, <2>6, <2>9, <2>10, <2>11, <2>12 DEF Complete
  <2> QED  BY <2>1, <2>7, <2>11, <2>13 DEF r
<1>2. ASSUME NEW x \in Expressions, NEW y \in Expressions
      PROVE  <<x[1] \o y[1], x[2] \o y[2]>> \in Expressions /\ (x[1] \o y[1])[1] = x[1][1]
  <2>1. /\ x[1] \in Seq(Names) /\ x[2] \in Seq(Names) /\ Complete(x[1], x[2])
        /\ y[1] \in Seq(Names) /\ y[2] \in Seq(Names) /\ Complete(y[1], y[2])
    BY DEF Expressions
  <2>2. /\ x[1] \o y[1] \in Seq(Names) /\ x[2] \o y[2] \in Seq(Names) /\ Complete(x[1] \o y[1], x[2] \o y[2])
        /\ (x[1] \o y[1])[1] = x[1][1]
    BY <1>1, <2>1, ZenonT(60)
  <2> QED  BY <2>2 DEF Expressions
<1>3. ASSUME NEW x \in Bracketed, NEW y \in Bracketed
      PROVE  <<x[1] \o y[1], x[2] \o y[2]>> \in Bracketed
  <2>1. x \in Expressions /\ y \in Expressions /\ x[1][1] = "("
    BY DEF Bracketed
  <2>2. <<x[1] \o y[1], x[2] \o y[2]>> \in Expressions /\ (x[1] \o y[1])[1] = "("
    BY <1>2, <2>1
  <2> QED  BY <2>2 DEF Bracketed
<1> QED  BY <1>2, <1>3

(* A word alone says itself.                                               *)
LEMMA WordComplete ==
  ASSUME NEW v \in Names
  PROVE  <<<<Escape(v)>>, <<v>>>> \in Expressions
<1> DEFINE e == Escape(v)
           p == <<e>>
<1>1. e \in Names /\ e \notin {"(", ")"}
  BY EscapeFacts
<1> HIDE DEF e
<1>2. p \in Seq(Names) /\ Len(p) = 1 /\ p[1] = e /\ p # <<>> /\ DOMAIN p = 1..1
  <2>1. ASSUME NEW A, NEW x \in A PROVE <<x>> \in Seq(A)
    OBVIOUS
  <2> QED  BY <1>1, <2>1
<1>3. <<v>> \in Seq(Names) /\ Escaped(<<v>>) = p
  <2>1. ASSUME NEW A, NEW x \in A PROVE <<x>> \in Seq(A) /\ DOMAIN <<x>> = {1} /\ <<x>>[1] = x
    OBVIOUS
  <2>2. <<v>> \in Seq(Names) /\ DOMAIN <<v>> = {1} /\ <<v>>[1] = v /\ Escaping[v] = e
    BY <2>1 DEF Escaping, e
  <2>3. Escaped(<<v>>) = [i \in {1} |-> e]
    BY <2>2 DEF Escaped, Mapped
  <2>4. p = [i \in {1} |-> e]
    OBVIOUS
  <2> QED  BY <2>2, <2>3, <2>4
<1> HIDE DEF p
<1>4. Height(p, 0) = 0 /\ Height(p, 1) = 0
  <2>1. Height(p, 0 + 1) = Height(p, 0) + Rise(p[0 + 1]) /\ Height(p, 0) = 0
    BY HeightStep
  <2>2. Rise(p[1]) = 0
    BY <1>1, <1>2 DEF Rise
  <2> QED  BY <2>1, <2>2
<1>5. Said(p) = p
  <2>1. MarkAt(p, 1) = p
    BY <1>1, <1>2 DEF MarkAt, p
  <2>2. Marks(p) = <<p>>
    <3>1. Marks(p) \in Seq(Seq(Names)) /\ Len(Marks(p)) = 1 /\ Marks(p)[1] = p
      BY <1>2, <2>1, MarksType
    <3> QED  BY <3>1
  <2> QED  BY <1>2, <2>2, FlattenOne DEF Said
<1>6. \A i \in 0..1 : Height(p, i) >= 0
  <2>1. \A i \in 0..1 : i = 0 \/ i = 1
    OBVIOUS
  <2> QED  BY <1>4, <2>1
<1>7. Complete(p, <<v>>)
  BY <1>1, <1>2, <1>3, <1>4, <1>5, <1>6 DEF Complete
<1> QED  BY <1>2, <1>3, <1>7 DEF Expressions, p, e

(* The opening of an expression, with a tag or without.                    *)
LEMMA OpeningFacts ==
  ASSUME NEW tag \in Seq(Names), tag = <<>> \/ \E e \in Names \ {"(", ")"} : tag = <<e>>
  PROVE  LET a == <<"(">> \o tag
         IN  /\ a \in Seq(Names) /\ a[1] = "(" /\ Len(a) \in Nat /\ Len(a) = 1 + Len(tag)
             /\ \A i \in 1..Len(a) : Height(a, i) = 1
             /\ Said(a) = <<>>
             /\ tag # <<>> => a[Len(a)] # "("
<1> DEFINE a == <<"(">> \o tag
<1>1. Len(tag) \in {0, 1} /\ (tag # <<>> => Len(tag) = 1 /\ tag[1] \notin {"(", ")"})
  OBVIOUS
<1>2. <<"(">> \in Seq(Names) /\ Len(<<"(">>) = 1 /\ <<"(">>[1] = "("
  <2>1. ASSUME NEW A, NEW x \in A PROVE <<x>> \in Seq(A)
    OBVIOUS
  <2> QED  BY <2>1, NamesAssumption
<1>3. /\ a \in Seq(Names) /\ Len(a) = 1 + Len(tag)
      /\ \A i \in 1..(1 + Len(tag)) : a[i] = IF i <= 1 THEN "(" ELSE tag[i - 1]
  <2>1. /\ a \in Seq(Names) /\ Len(a) = Len(<<"(">>) + Len(tag)
        /\ \A i \in 1..(Len(<<"(">>) + Len(tag)) :
             a[i] = IF i <= Len(<<"(">>) THEN <<"(">>[i] ELSE tag[i - Len(<<"(">>)]
    BY ONLY <1>2, tag \in Seq(Names), ConcatProperties
  <2>2. \A i \in 1..(1 + Len(tag)) : i <= 1 => i = 1
    BY <1>1
  <2> QED  BY <1>2, <2>1, <2>2
<1> HIDE DEF a
<1>4. /\ a[1] = "(" /\ (tag # <<>> => a[2] \notin {"(", ")"})
      /\ Height(a, 1) = 1 /\ (Len(a) = 2 => Height(a, 2) = 1)
  <2>1. 1 \in 1..(1 + Len(tag)) /\ (tag # <<>> => 2 \in 1..(1 + Len(tag)) /\ ~(2 <= 1) /\ 2 - 1 = 1)
    BY <1>1
  <2>2. a[1] = "(" /\ (tag # <<>> => a[2] = tag[1])
    BY <1>3, <2>1
  <2>3. /\ Height(a, 0 + 1) = Height(a, 0) + Rise(a[0 + 1]) /\ Height(a, 0) = 0
        /\ Height(a, 1 + 1) = Height(a, 1) + Rise(a[1 + 1])
    BY HeightStep
  <2>4. Rise(a[1]) = 1 /\ (tag # <<>> => Rise(a[2]) = 0)
    BY <1>1, <2>2 DEF Rise
  <2>5. Height(a, 1) = 1 /\ Height(a, 2) = Height(a, 1) + Rise(a[2])
    BY <2>3, <2>4
  <2>6. Len(a) = 2 => tag # <<>>
    <3>1. Len(<<>>) = 0
      OBVIOUS
    <3> QED  BY <1>3, <3>1
  <2> QED  BY <1>1, <2>2, <2>4, <2>5, <2>6
<1>5. \A i \in 1..Len(a) : Height(a, i) = 1
  <2>1. \A i \in 1..Len(a) : i = 1 \/ (i = 2 /\ Len(a) = 2)
    BY <1>1, <1>3
  <2> QED  BY <1>4, <2>1
<1>6. Said(a) = <<>>
  <2>1. \A i \in 1..Len(a) : i = 1 \/ (i = 2 /\ i - 1 = 1)
    BY <1>1, <1>3
  <2>2. \A i \in 1..Len(a) : MarkAt(a, i) = <<>>
    BY <1>4, <2>1 DEF MarkAt
  <2>3. Marks(a) \in Seq(Seq(Names)) /\ \A i \in 1..Len(Marks(a)) : Marks(a)[i] = <<>>
    BY <1>3, <2>2, MarksType
  <2> QED  BY <2>3, FlattenEmpty DEF Said
<1>7. tag # <<>> => a[Len(a)] # "("
  <2>1. ASSUME tag # <<>> PROVE a[Len(a)] # "("
    <3>0. Len(tag) = 1 /\ Len(a) = 1 + Len(tag)
      BY <1>1, <1>3, <2>1
    <3>1. Len(a) = 2
      BY ONLY <3>0
    <3> QED  BY <1>4, <2>1, <3>1
  <2> QED  BY <2>1
<1> QED  BY <1>1, <1>3, <1>4, <1>5, <1>6, <1>7 DEF a

(* An expression: the opening, complete expressions and the end.           *)
LEMMA WrappedFacts ==
  ASSUME NEW p \in Seq(Names), NEW w \in Seq(Names), Complete(p, w), NEW tag \in Seq(Names),
         (tag = <<>> /\ p[1] = "(") \/ \E e \in Names \ {"(", ")"} : tag = <<e>>
  PROVE  LET r == <<"(">> \o tag \o p \o <<")">>
         IN  /\ r \in Seq(Names) /\ Complete(r, w) /\ r[1] = "("
             /\ \A i \in 1..(Len(r) - 1) : Height(r, i) > 0
<1> DEFINE a == <<"(">> \o tag
           b == a \o p
           c == <<")">>
           r == b \o c
           k == Len(a)
           m == Len(p)
<1>1. /\ a \in Seq(Names) /\ a[1] = "(" /\ k \in Nat /\ k # 0
      /\ \A i \in 1..k : Height(a, i) = 1
      /\ Said(a) = <<>>
      /\ a[k] # "(" \/ p[1] = "("
  <2>1. /\ a \in Seq(Names) /\ a[1] = "(" /\ Len(a) \in Nat /\ Len(a) = 1 + Len(tag)
        /\ \A i \in 1..Len(a) : Height(a, i) = 1
        /\ Said(a) = <<>>
        /\ tag # <<>> => a[Len(a)] # "("
    BY OpeningFacts
  <2>2. Len(tag) \in Nat /\ (tag = <<>> => p[1] = "(")
    <3>1. Len(tag) \in Nat
      OBVIOUS
    <3>2. \A x : <<x>> # <<>>
      OBVIOUS
    <3> QED  BY <3>1, <3>2
  <2>3. k # 0
    <3> HIDE DEF a
    <3> QED  BY <2>1, <2>2
  <2> HIDE DEF a
  <2> QED  BY <2>1, <2>2, <2>3
<1>2. c \in Seq(Names) /\ Len(c) = 1 /\ c[1] = ")" /\ Height(c, 1) = -1
  <2>1. ASSUME NEW A, NEW x \in A PROVE <<x>> \in Seq(A)
    OBVIOUS
  <2>2. c \in Seq(Names) /\ Len(c) = 1 /\ c[1] = ")"
    BY <2>1, NamesAssumption
  <2> HIDE DEF c
  <2>3. Height(c, 0 + 1) = Height(c, 0) + Rise(c[0 + 1]) /\ Height(c, 0) = 0
    BY HeightStep
  <2>4. Rise(c[1]) = -1
    BY <2>2 DEF Rise
  <2> QED  BY <2>2, <2>3, <2>4
<1>3. /\ p # <<>> /\ p[m] # "(" /\ m \in Nat /\ m # 0
      /\ Height(p, m) = 0 /\ (\A i \in 0..m : Height(p, i) >= 0) /\ Said(p) = Escaped(w)
  BY DEF Complete
<1> HIDE DEF a, c, k, m
<1>4. /\ b \in Seq(Names) /\ Len(b) = k + m /\ b[1] = "(" /\ b[k + m] = p[m]
      /\ \A i \in 1..(k + m) : Height(b, i) > 0
      /\ Height(b, k + m) = 1
      /\ Said(b) = Said(a) \o Said(p)
  <2>1. /\ b \in Seq(Names) /\ Len(b) = k + m
        /\ \A i \in 1..(k + m) : b[i] = IF i <= k THEN a[i] ELSE p[i - k]
    BY ONLY <1>1, p \in Seq(Names), ConcatProperties DEF k, m
  <2>2. /\ \A i \in 0..k : Height(b, i) = Height(a, i)
        /\ \A i \in 0..m : Height(b, k + i) = Height(a, k) + Height(p, i)
    BY <1>1, HeightConcat DEF k, m
  <2>3. Said(b) = Said(a) \o Said(p)
    BY <1>1, <1>3, SaidConcat DEF k
  <2> HIDE DEF b
  <2>4. \A i \in Nat : Height(p, i) \in Int
    BY HeightStep
  <2>5. Height(a, k) = 1
    BY <1>1
  <2>6. ASSUME NEW i \in 1..(k + m) PROVE Height(b, i) > 0
    <3>1. CASE i <= k
      <4>1. i \in 0..k /\ i \in 1..k
        BY <1>1, <3>1
      <4> QED  BY <1>1, <2>2, <4>1
    <3>2. CASE ~(i <= k)
      <4>1. i - k \in 0..m /\ k + (i - k) = i /\ i - k \in Nat
        BY <1>1, <1>3, <3>2
      <4>2. Height(b, k + (i - k)) = Height(a, k) + Height(p, i - k)
        BY <2>2, <4>1
      <4>3. Height(p, i - k) >= 0 /\ Height(p, i - k) \in Int
        BY <1>3, <2>4, <4>1
      <4> QED  BY <2>5, <4>1, <4>2, <4>3
    <3> QED  BY <3>1, <3>2
  <2>7. Height(b, k + m) = 1
    <3>1. m \in 0..m
      BY <1>3
    <3> QED  BY <1>3, <2>2, <2>5, <3>1
  <2>8. b[1] = "(" /\ b[k + m] = p[m]
    <3>1. 1 \in 1..(k + m) /\ 1 <= k /\ k + m \in 1..(k + m) /\ ~(k + m <= k) /\ (k + m) - k = m
      BY <1>1, <1>3
    <3>2. b[1] = a[1] /\ b[k + m] = p[(k + m) - k]
      BY ONLY <2>1, <3>1
    <3> QED  BY <1>1, <3>1, <3>2
  <2> QED  BY <2>1, <2>3, <2>6, <2>7, <2>8
<1> HIDE DEF b
<1>5. k + m \in Nat /\ k + m # 0
  BY <1>1, <1>3
<1>6. /\ r \in Seq(Names) /\ Len(r) = (k + m) + 1
      /\ \A i \in 1..((k + m) + 1) : r[i] = IF i <= k + m THEN b[i] ELSE c[i - (k + m)]
  <2>1. /\ r \in Seq(Names) /\ Len(r) = Len(b) + Len(c)
        /\ \A i \in 1..(Len(b) + Len(c)) : r[i] = IF i <= Len(b) THEN b[i] ELSE c[i - Len(b)]
    BY <1>2, <1>4, ConcatProperties
  <2>2. Len(b) = k + m /\ Len(c) = 1
    BY <1>2, <1>4
  <2> HIDE DEF r
  <2> QED  BY <2>1, <2>2
<1>7. /\ \A i \in 0..(k + m) : Height(r, i) = Height(b, i)
      /\ Height(r, (k + m) + 1) = 0
  <2>1. /\ \A i \in 0..Len(b) : Height(r, i) = Height(b, i)
        /\ \A i \in 0..Len(c) : Height(r, Len(b) + i) = Height(b, Len(b)) + Height(c, i)
    <3>1. b \in Seq(Names) /\ c \in Seq(Names)
      BY <1>2, <1>4
    <3> QED  BY ONLY <3>1, HeightConcat
  <2>2. Len(b) = k + m /\ Len(c) = 1 /\ 1 \in 0..1
    BY <1>2, <1>4
  <2> HIDE DEF r
  <2> QED  BY <1>2, <1>4, <2>1, <2>2
<1>8. Said(r) = Escaped(w)
  <2>1. Said(c) = <<>>
    <3>1. MarkAt(c, 1) = <<>>
      BY <1>2 DEF MarkAt
    <3>2. Marks(c) \in Seq(Seq(Names)) /\ Len(Marks(c)) = 1 /\ Marks(c)[1] = <<>>
      BY <1>2, <3>1, MarksType
    <3>3. \A i \in 1..Len(Marks(c)) : Marks(c)[i] = <<>>
      BY <3>2
    <3> QED  BY <3>2, <3>3, FlattenEmpty DEF Said
  <2>2. Said(r) = Said(b) \o Said(c)
    <3>1. c[1] \in {"(", ")"}
      BY <1>2
    <3> QED  BY <1>2, <1>4, <3>1, SaidConcat
  <2>3. Escaped(w) \in Seq(Names)
    <3> DEFINE e == Escaped(w)
               l == Len(w)
    <3>1. e = [i \in 1..l |-> Escape(w[i])] /\ l \in Nat /\ \A i \in 1..l : w[i] \in Names
      BY DEF Escaped, Mapped, Escaping
    <3>2. \A i \in 1..l : Escape(w[i]) \in Names
      BY <3>1, EscapeFacts
    <3> HIDE DEF e, l
    <3>3. e \in [1..l -> Names]
      BY <3>1, <3>2
    <3>4. e \in Seq(Names)
      BY ONLY <3>1, <3>3
    <3> QED  BY <3>4 DEF e
  <2>4. \A A : \A x \in Seq(A) : <<>> \o x = x /\ x \o <<>> = x
    BY ConcatEmptySeq
  <2>5. Said(b) = Escaped(w)
    BY <1>1, <1>3, <1>4, <2>3, <2>4
  <2> QED  BY <2>1, <2>2, <2>3, <2>4, <2>5
<1>9. \A i \in 1..(Len(r) - 1) : Height(r, i) > 0
  <2>1. \A i \in 1..(Len(r) - 1) : i \in 0..(k + m) /\ i \in 1..(k + m)
    BY <1>5, <1>6
  <2> HIDE DEF r
  <2> QED  BY <1>4, <1>7, <2>1
<1>10. r[1] = "(" /\ r[(k + m) + 1] = ")"
  <2>1. /\ 1 \in 1..((k + m) + 1) /\ 1 <= k + m
        /\ (k + m) + 1 \in 1..((k + m) + 1) /\ ~((k + m) + 1 <= k + m) /\ ((k + m) + 1) - (k + m) = 1
    BY <1>5
  <2>2. r[1] = b[1] /\ r[(k + m) + 1] = c[((k + m) + 1) - (k + m)]
    <3> HIDE DEF r
    <3> QED  BY ONLY <1>6, <2>1
  <2> QED  BY <1>2, <1>4, <2>1, <2>2
<1>11. Complete(r, w)
  <2>1. \A i \in 0..Len(r) : Height(r, i) >= 0
    <3>1. \A i \in 0..Len(r) : i = 0 \/ i = (k + m) + 1 \/ i \in 1..(Len(r) - 1)
      BY <1>5, <1>6
    <3>2. Height(r, 0) = 0
      BY HeightStep
    <3>3. \A i \in Nat : Height(r, i) \in Int
      BY HeightStep
    <3>4. \A i \in 1..(Len(r) - 1) : i \in Nat
      BY <1>5, <1>6
    <3> HIDE DEF r
    <3> QED  BY <1>7, <1>9, <3>1, <3>2, <3>3, <3>4
  <2>2. r # <<>>
    <3>1. Len(<<>>) = 0 /\ (k + m) + 1 # 0
      BY <1>5
    <3> HIDE DEF r
    <3> QED  BY <1>6, <3>1
  <2> HIDE DEF r
  <2> QED  BY <1>6, <1>7, <1>8, <1>10, <2>1, <2>2 DEF Complete
<1> QED  BY <1>6, <1>9, <1>10, <1>11 DEF r, b, a, c

-----------------------------------------------------------------------------
(* A tree as parse() builds them is bounded.                               *)
LEMMA ShapedFacts ==
  ASSUME NEW tree, Shaped(tree)
  PROVE  /\ Bounded(tree)
         /\ \A n \in Nodes(tree) : n.value \in Names /\ n.kids \in Seq(Nodes(tree))
         /\ tree.kids # <<>> /\ \A i \in DOMAIN tree.kids : tree.kids[i].kids # <<>>
<1>1. \A n \in Nodes(tree) : n.value \in Names /\ n.kids \in Seq(Nodes(tree))
  BY DEF Shaped
<1> QED  BY <1>1 DEF Shaped, Bounded

KidsIn(n, f, A) == \A i \in DOMAIN n.kids : f[n.kids[i]] \in A

(* The values of the children make a sequence.                             *)
LEMMA KidsFacts ==
  ASSUME NEW N, NEW n, n.kids \in Seq(N), n.kids # <<>>, NEW A, NEW f, KidsIn(n, f, A)
  PROVE  /\ KidsOf(n, f) \in Seq(A) /\ KidsOf(n, f) # <<>>
         /\ Len(KidsOf(n, f)) = Len(n.kids) /\ DOMAIN n.kids = 1..Len(n.kids)
         /\ \A i \in 1..Len(n.kids) : KidsOf(n, f)[i] = f[n.kids[i]]
<1> DEFINE s == KidsOf(n, f)
           l == Len(n.kids)
<1>1. l \in Nat /\ l # 0 /\ DOMAIN n.kids = 1..l
  OBVIOUS
<1> HIDE DEF l
<1>2. s = [i \in 1..l |-> f[n.kids[i]]]
  BY <1>1 DEF KidsOf
<1> HIDE DEF s
<1>3. s \in [1..l -> A] /\ \A i \in 1..l : s[i] = f[n.kids[i]]
  BY <1>1, <1>2 DEF KidsIn
<1>4. s \in Seq(A) /\ Len(s) = l
  BY ONLY <1>1, <1>3
<1>5. s # <<>>
  <2>1. Len(<<>>) = 0
    OBVIOUS
  <2> QED  BY <1>1, <1>4, <2>1
<1> QED  BY <1>1, <1>3, <1>4, <1>5 DEF s, l

(* A node is printed as one expression of its words, its height positive   *)
(* until the end if it is not a word.                                      *)
Printed(n, p, w) ==
  /\ <<p, w>> \in Expressions
  /\ n.kids # <<>> => p[1] = "(" /\ \A i \in 1..(Len(p) - 1) : Height(p, i) > 0

(* SExprFormatter: every node of a tree is printed so.                     *)
LEMMA SExprRight ==
  ASSUME NEW withRoot \in BOOLEAN, NEW tree, Shaped(tree),
         NEW f, \A n \in Nodes(tree) : f[n] = SExprOf(withRoot, tree, n, f),
         NEW y, \A n \in Nodes(tree) : y[n] = YieldOf(n, y)
  PROVE  \A n \in Nodes(tree) : Printed(n, f[n], y[n])
<1> DEFINE N == Nodes(tree)
           T == {n \in N : Printed(n, f[n], y[n])}
<1>1. ASSUME NEW n \in N, \A i \in DOMAIN n.kids : n.kids[i] \in T PROVE Printed(n, f[n], y[n])
  <2>1. n.value \in Names /\ n.kids \in Seq(N)
    BY ShapedFacts
  <2>2. f[n] = SExprOf(withRoot, tree, n, f) /\ y[n] = YieldOf(n, y)
    OBVIOUS
  <2> DEFINE e == Escape(n.value)
             tag == IF n.value = "" \/ ((n = tree) /\ ~withRoot /\ n.kids # <<>>) THEN <<>> ELSE <<e>>
  <2>3. n.value # "" /\ e \in Names /\ e \notin {"(", ")"}
    BY <2>1, EscapeFacts, NamesAssumption
  <2>4. CASE n.kids = <<>>
    <3>1. tag = <<e>> /\ <<e>> # <<>>
      BY <2>3, <2>4
    <3>2. f[n] = <<e>>
      BY <2>2, <2>4, <3>1 DEF SExprOf
    <3>3. y[n] = <<n.value>>
      BY <2>2, <2>4 DEF YieldOf
    <3> QED  BY <2>1, <2>4, <3>2, <3>3, WordComplete DEF Printed
  <2>5. CASE n.kids # <<>>
    <3> DEFINE s == KidsOf(n, f)
               t == KidsOf(n, y)
               p == FlattenSeq(s)
               w == FlattenSeq(t)
    <3>1. \A i \in DOMAIN n.kids : Printed(n.kids[i], f[n.kids[i]], y[n.kids[i]])
      BY <1>1
    <3>2. \A i \in DOMAIN n.kids : <<f[n.kids[i]], y[n.kids[i]]>> \in Expressions
      BY <3>1 DEF Printed
    <3>3. \A i \in DOMAIN n.kids : f[n.kids[i]] \in Seq(Names) /\ y[n.kids[i]] \in Seq(Names)
      BY <3>2 DEF Expressions
    <3>4. /\ s \in Seq(Seq(Names)) /\ s # <<>> /\ Len(s) = Len(n.kids) /\ DOMAIN n.kids = 1..Len(n.kids)
          /\ \A i \in 1..Len(n.kids) : s[i] = f[n.kids[i]]
          /\ t \in Seq(Seq(Names)) /\ Len(t) = Len(n.kids)
          /\ \A i \in 1..Len(n.kids) : t[i] = y[n.kids[i]]
      <4>1. n.kids \in Seq(N)
        BY <2>1
      <4>2. KidsIn(n, f, Seq(Names))
        BY <3>3 DEF KidsIn
      <4>3. KidsIn(n, y, Seq(Names))
        BY <3>3 DEF KidsIn
      <4> HIDE DEF N
      <4>4. /\ s \in Seq(Seq(Names)) /\ s # <<>> /\ Len(s) = Len(n.kids) /\ DOMAIN n.kids = 1..Len(n.kids)
            /\ \A i \in 1..Len(n.kids) : s[i] = f[n.kids[i]]
        BY ONLY <4>1, <2>5, <4>2, KidsFacts
      <4>5. /\ t \in Seq(Seq(Names)) /\ Len(t) = Len(n.kids)
            /\ \A i \in 1..Len(n.kids) : t[i] = y[n.kids[i]]
        BY ONLY <4>1, <2>5, <4>3, KidsFacts
      <4> QED  BY <4>4, <4>5
    <3> HIDE DEF s, t, T
    <3>5. \A i \in 1..Len(s) : <<s[i], t[i]>> \in Expressions
      BY <3>2, <3>4
    <3>6. Expressions \subseteq Seq(Names) \X Seq(Names) /\ Bracketed \subseteq Seq(Names) \X Seq(Names)
      BY DEF Expressions, Bracketed
    <3>7. <<p, w>> \in Expressions
      BY <3>4, <3>5, <3>6, CompleteConcat, FlattenClosed
    <3>8. tag = <<>> => p[1] = "("
      <4>1. ASSUME tag = <<>> PROVE p[1] = "("
        <5>1. n = tree
          <6>1. <<e>> # <<>>
            OBVIOUS
          <6> QED  BY <2>3, <4>1, <6>1
        <5>2. \A i \in DOMAIN n.kids : n.kids[i].kids # <<>>
          BY <5>1, ShapedFacts
        <5>3. \A i \in DOMAIN n.kids : f[n.kids[i]][1] = "("
          BY <3>1, <5>2 DEF Printed
        <5>4. \A i \in 1..Len(s) : <<s[i], t[i]>> \in Bracketed
          <6>1. ASSUME NEW i \in 1..Len(s) PROVE <<s[i], t[i]>> \in Bracketed
            <7>0. i \in DOMAIN n.kids /\ s[i] = f[n.kids[i]]
              BY <3>4
            <7>1. s[i][1] = "(" /\ <<s[i], t[i]>> \in Expressions
              BY <3>5, <5>3, <7>0
            <7> QED  BY <7>1 DEF Bracketed
          <6> QED  BY <6>1
        <5>5. <<p, w>> \in Bracketed
          BY <3>4, <3>6, <5>4, CompleteConcat, FlattenClosed
        <5> QED  BY <5>5 DEF Bracketed
      <4> QED  BY <4>1
    <3>9. p \in Seq(Names) /\ w \in Seq(Names) /\ Complete(p, w)
      BY <3>7 DEF Expressions
    <3>10. tag \in Seq(Names) /\ ((tag = <<>> /\ p[1] = "(") \/ \E g \in Names \ {"(", ")"} : tag = <<g>>)
      <4>1. ASSUME NEW A, NEW x \in A PROVE <<x>> \in Seq(A)
        OBVIOUS
      <4>2. tag = <<>> \/ tag = <<e>>
        OBVIOUS
      <4>3. <<>> \in Seq(Names)
        OBVIOUS
      <4> HIDE DEF tag, e
      <4> QED  BY <2>3, <3>8, <4>1, <4>2, <4>3
    <3>11. f[n] = <<"(">> \o tag \o p \o <<")">>
      BY <2>2, <2>5 DEF SExprOf, s, KidsOf
    <3>12. y[n] = w
      BY <2>2, <2>5 DEF YieldOf, t, KidsOf
    <3> HIDE DEF tag, p, w
    <3> DEFINE r == <<"(">> \o tag \o p \o <<")">>
    <3>13. /\ r \in Seq(Names) /\ Complete(r, w) /\ r[1] = "("
           /\ \A i \in 1..(Len(r) - 1) : Height(r, i) > 0
      BY <3>9, <3>10, WrappedFacts
    <3> HIDE DEF r
    <3>14. f[n] = r
      BY <3>11 DEF r
    <3> QED  BY <3>9, <3>12, <3>13, <3>14 DEF Printed, Expressions
  <2> QED  BY <2>4, <2>5
<1>2. N \subseteq T
  <2>1. \A n \in N : (\A i \in DOMAIN n.kids : n.kids[i] \in T) => n \in T
    BY <1>1
  <2> HIDE DEF T
  <2> QED  BY <2>1, ShapedFacts, TreeInduction
<1> QED  BY <1>2

(* A printed pair of a word and its tag.                                   *)
Word == [a \in Names \X Names |-> a[1]]
Taggings == {x \in Seq(Names \X Names) \X Seq(Names) : Mapped(Word, x[1]) = x[2]}

(* POSTagFormatter: the first parts of the pairs are the words.            *)
LEMMA TagsRight ==
  ASSUME NEW tree, Shaped(tree),
         NEW f, \A n \in Nodes(tree) : f[n] = POSTagsOf(n, f),
         NEW y, \A n \in Nodes(tree) : y[n] = YieldOf(n, y)
  PROVE  \A n \in Nodes(tree) : n.kids # <<>> => <<f[n], y[n]>> \in Taggings
<1> DEFINE N == Nodes(tree)
           T == {n \in N : n.kids # <<>> => <<f[n], y[n]>> \in Taggings}
<1>0. ASSUME NEW A, NEW x \in A PROVE <<x>> \in Seq(A)
  OBVIOUS
<1>1. ASSUME NEW n \in N, \A i \in DOMAIN n.kids : n.kids[i] \in T, n.kids # <<>>
      PROVE  <<f[n], y[n]>> \in Taggings
  <2>1. n.value \in Names /\ n.kids \in Seq(N)
    BY ShapedFacts
  <2> DEFINE g == [x \in N |-> IF x.kids = <<>> THEN <<<<x.value, n.value>>>> ELSE f[x]]
             s == KidsOf(n, g)
             t == KidsOf(n, y)
  <2>2. \A i \in DOMAIN n.kids : n.kids[i] \in N
    BY <2>1
  <2>3. ASSUME NEW i \in DOMAIN n.kids PROVE <<g[n.kids[i]], y[n.kids[i]]>> \in Taggings
    <3> DEFINE x == n.kids[i]
    <3>1. x \in T /\ x \in N
      BY <1>1, <2>2
    <3>2. x.value \in Names
      BY <3>1, ShapedFacts
    <3> HIDE DEF x
    <3>3. CASE x.kids = <<>>
      <4> DEFINE a == <<x.value, n.value>>
      <4>1. g[x] = <<a>>
        BY <3>1, <3>3
      <4>2. y[x] = <<x.value>>
        BY <3>1, <3>3 DEF YieldOf
      <4>3. a \in Names \X Names /\ Word[a] = x.value
        BY <2>1, <3>2 DEF Word
      <4> HIDE DEF a, g
      <4>4. <<a>> \in Seq(Names \X Names) /\ <<x.value>> \in Seq(Names)
        BY <1>0, <3>2, <4>3
      <4>5. Mapped(Word, <<a>>) = <<x.value>>
        <5>1. \A z : DOMAIN <<z>> = {1} /\ <<z>>[1] = z
          OBVIOUS
        <5>2. Mapped(Word, <<a>>) = [i_1 \in {1} |-> x.value]
          BY <4>3, <5>1 DEF Mapped
        <5>3. <<x.value>> = [i_1 \in {1} |-> x.value]
          OBVIOUS
        <5> QED  BY <5>2, <5>3
      <4> QED  BY <4>1, <4>2, <4>4, <4>5 DEF Taggings, x
    <3>4. CASE x.kids # <<>>
      <4>1. g[x] = f[x]
        BY <3>1, <3>4
      <4> QED  BY <3>1, <3>4, <4>1 DEF x
    <3> QED  BY <3>3, <3>4 DEF x
  <2>4. \A i \in DOMAIN n.kids : g[n.kids[i]] \in Seq(Names \X Names) /\ y[n.kids[i]] \in Seq(Names)
    <3> HIDE DEF g
    <3> QED  BY <2>3 DEF Taggings
  <2>5. f[n] = FlattenSeq(s)
    <3>1. s = [i \in DOMAIN n.kids |->
                 IF n.kids[i].kids = <<>> THEN <<<<n.kids[i].value, n.value>>>> ELSE f[n.kids[i]]]
      BY <2>2 DEF KidsOf
    <3> QED  BY <3>1 DEF POSTagsOf
  <2> HIDE DEF g, T
  <2>6. /\ s \in Seq(Seq(Names \X Names)) /\ s # <<>> /\ Len(s) = Len(n.kids) /\ DOMAIN n.kids = 1..Len(n.kids)
        /\ \A i \in 1..Len(n.kids) : s[i] = g[n.kids[i]]
    <3>1. KidsIn(n, g, Seq(Names \X Names))
      BY <2>4 DEF KidsIn
    <3>2. n.kids \in Seq(N) /\ n.kids # <<>>
      BY <1>1, <2>1
    <3> HIDE DEF N
    <3> QED  BY ONLY <3>1, <3>2, KidsFacts
  <2>7. /\ t \in Seq(Seq(Names)) /\ Len(t) = Len(n.kids)
        /\ \A i \in 1..Len(n.kids) : t[i] = y[n.kids[i]]
    <3>1. KidsIn(n, y, Seq(Names))
      BY <2>4 DEF KidsIn
    <3>2. n.kids \in Seq(N) /\ n.kids # <<>>
      BY <1>1, <2>1
    <3> HIDE DEF N
    <3> QED  BY ONLY <3>1, <3>2, KidsFacts
  <2>8. y[n] = FlattenSeq(t)
    BY <1>1 DEF YieldOf, KidsOf
  <2> HIDE DEF s, t
  <2>9. Taggings \subseteq Seq(Names \X Names) \X Seq(Names)
    BY DEF Taggings
  <2>10. \A x \in Taggings : \A z \in Taggings : <<x[1] \o z[1], x[2] \o z[2]>> \in Taggings
    <3> SUFFICES ASSUME NEW x \in Taggings, NEW z \in Taggings
                 PROVE  <<x[1] \o z[1], x[2] \o z[2]>> \in Taggings
      OBVIOUS
    <3>1. /\ x[1] \in Seq(Names \X Names) /\ x[2] \in Seq(Names) /\ Mapped(Word, x[1]) = x[2]
          /\ z[1] \in Seq(Names \X Names) /\ z[2] \in Seq(Names) /\ Mapped(Word, z[1]) = z[2]
      BY DEF Taggings
    <3>2. Mapped(Word, x[1] \o z[1]) = Mapped(Word, x[1]) \o Mapped(Word, z[1])
      <4>1. x[1] \in Seq(Names \X Names) /\ z[1] \in Seq(Names \X Names)
        BY <3>1
      <4> QED  BY ONLY <4>1, MapConcat
    <3>3. x[1] \o z[1] \in Seq(Names \X Names) /\ x[2] \o z[2] \in Seq(Names)
      BY <3>1, ConcatProperties
    <3> QED  BY <3>1, <3>2, <3>3 DEF Taggings
  <2>11. \A i \in 1..Len(s) : <<s[i], t[i]>> \in Taggings
    BY <2>3, <2>6, <2>7
  <2>12. <<FlattenSeq(s), FlattenSeq(t)>> \in Taggings
    BY <2>6, <2>7, <2>9, <2>10, <2>11, FlattenClosed
  <2> QED  BY <2>5, <2>8, <2>12
<1>2. N \subseteq T
  <2>1. \A n \in N : (\A i \in DOMAIN n.kids : n.kids[i] \in T) => n \in T
    BY <1>1
  <2> HIDE DEF T
  <2> QED  BY <2>1, ShapedFacts, TreeInduction
<1> QED  BY <1>2

-----------------------------------------------------------------------------
(* The line printed of a tree, and the words read from it, with the        *)
(* options as arguments.                                                   *)
Text(fmt, withRoot, tree) == IF fmt = "sexpr" THEN SExpr(withRoot, tree) ELSE POSTags(tree)

WordsRead(fmt, line) ==
  IF fmt = "postag" THEN [i \in DOMAIN line |-> line[i][1]]
  ELSE FlattenSeq([i \in DOMAIN line |->
         IF line[i] \notin {"(", ")"} /\ i > 1 /\ line[i - 1] # "(" THEN <<line[i]>> ELSE <<>>])

Wanted(fmt, w) == [i \in DOMAIN w |-> IF fmt = "sexpr" THEN Escape(w[i]) ELSE w[i]]

BalancedLine(line) ==
  /\ Height(line, Len(line)) = 0
  /\ \A i \in 1..(Len(line) - 1) : Height(line, i) > 0

Right(fmt, withRoot, tree, w) ==
  /\ WordsRead(fmt, Text(fmt, withRoot, tree)) = Wanted(fmt, w)
  /\ fmt = "sexpr" => BalancedLine(Text(fmt, withRoot, tree))

(* A line starts with a bracket, and so says the same as a piece of one.   *)
LEMMA LineSaid ==
  ASSUME NEW p \in Seq(Names), p[1] = "("
  PROVE  WordsRead("sexpr", p) = Said(p)
<1> DEFINE At(i) == IF p[i] \notin {"(", ")"} /\ i > 1 /\ p[i - 1] # "(" THEN <<p[i]>> ELSE <<>>
<1>1. \A i \in DOMAIN p : i \in Nat /\ i >= 1
  OBVIOUS
<1>2. \A i \in DOMAIN p : At(i) = MarkAt(p, i)
  BY <1>1 DEF MarkAt
<1>3. [i \in DOMAIN p |-> At(i)] = Marks(p)
  <2> HIDE DEF At
  <2> QED  BY <1>2 DEF Marks
<1>4. WordsRead("sexpr", p) = FlattenSeq([i \in DOMAIN p |-> At(i)])
  BY DEF WordsRead
<1> HIDE DEF At
<1> QED  BY <1>3, <1>4 DEF Said

(* Both formats print the words of a tree in order, and an S expression is *)
(* balanced.                                                               *)
LEMMA TreeRight ==
  ASSUME NEW fmt \in {"sexpr", "postag"}, NEW withRoot \in BOOLEAN, NEW tree, Shaped(tree)
  PROVE  Right(fmt, withRoot, tree, Yield(tree))
<1>1. Bounded(tree) /\ tree \in Nodes(tree) /\ tree.kids # <<>>
  BY ShapedFacts, BelowFacts
<1>2. PICK f : SExpr(withRoot, tree) = f[tree] /\ \A n \in Nodes(tree) : f[n] = SExprOf(withRoot, tree, n, f)
  BY <1>1, Solutions
<1>3. PICK g : POSTags(tree) = g[tree] /\ \A n \in Nodes(tree) : g[n] = POSTagsOf(n, g)
  BY <1>1, Solutions
<1>4. PICK y : Yield(tree) = y[tree] /\ \A n \in Nodes(tree) : y[n] = YieldOf(n, y)
  BY <1>1, Solutions
<1> DEFINE p == f[tree]
           q == g[tree]
           w == y[tree]
<1>5. CASE fmt = "sexpr"
  <2>1. Printed(tree, p, w)
    BY <1>1, <1>2, <1>4, SExprRight
  <2> HIDE DEF p, w
  <2>2. p \in Seq(Names) /\ Complete(p, w) /\ p[1] = "(" /\ \A i \in 1..(Len(p) - 1) : Height(p, i) > 0
    BY <1>1, <2>1 DEF Printed, Expressions
  <2>3. WordsRead("sexpr", p) = Escaped(w)
    BY <2>2, LineSaid DEF Complete
  <2>4. w \in Seq(Names)
    BY <2>1 DEF Printed, Expressions
  <2>5. Escaped(w) = Wanted("sexpr", w)
    <3>1. \A i \in DOMAIN w : w[i] \in Names
      BY <2>4
    <3> QED  BY <3>1 DEF Escaped, Mapped, Escaping, Wanted
  <2>6. BalancedLine(p)
    BY <2>2 DEF BalancedLine, Complete
  <2>7. Text(fmt, withRoot, tree) = p /\ Yield(tree) = w
    BY <1>2, <1>4, <1>5 DEF Text, p, w
  <2> QED  BY <1>5, <2>3, <2>5, <2>6, <2>7 DEF Right
<1>6. CASE fmt = "postag"
  <2>1. <<q, w>> \in Taggings
    BY <1>1, <1>3, <1>4, TagsRight
  <2> HIDE DEF q, w
  <2>2. q \in Seq(Names \X Names) /\ w \in Seq(Names) /\ Mapped(Word, q) = w
    BY <2>1 DEF Taggings
  <2>3. WordsRead("postag", q) = w
    <3>1. \A i \in DOMAIN q : q[i] \in Names \X Names
      BY <2>2
    <3>2. \A i \in DOMAIN q : Word[q[i]] = q[i][1]
      BY <3>1 DEF Word
    <3>3. [i \in DOMAIN q |-> q[i][1]] = [i \in DOMAIN q |-> Word[q[i]]]
      BY <3>2
    <3> QED  BY <2>2, <3>3 DEF WordsRead, Mapped
  <2>4. Wanted("postag", w) = w
    <3>1. w = [i \in DOMAIN w |-> w[i]]
      BY <2>2
    <3> QED  BY <3>1 DEF Wanted
  <2>5. Text(fmt, withRoot, tree) = q /\ Yield(tree) = w
    BY <1>3, <1>4, <1>6 DEF Text, q, w
  <2> QED  BY <1>6, <2>3, <2>4, <2>5 DEF Right
<1> QED  BY <1>5, <1>6

(* So does the leaf that stands for no parse: no words.                    *)
LEMMA NothingRight ==
  ASSUME NEW fmt \in {"sexpr", "postag"}, NEW withRoot \in BOOLEAN
  PROVE  Right(fmt, withRoot, Leaf(""), <<>>)
<1> DEFINE tree == Leaf("")
           D == 0..MaxDepth
<1>1. tree.kids = <<>> /\ tree.value = "" /\ Range(tree.kids) = {}
  BY DEF Leaf, Node, Range
<1>2. MaxDepth \in Nat
  BY BoundAssumption
<1> HIDE DEF tree
<1> DEFINE S == {k \in Nat : k \in D => Level(tree, k) \subseteq {tree}}
<1>3. 0 \in S
  BY LevelFacts
<1>4. ASSUME NEW k \in Nat, k \in S PROVE k + 1 \in S
  <2>1. ASSUME k + 1 \in D PROVE Level(tree, k + 1) \subseteq {tree}
    <3>1. k \in D /\ k + 1 \in 1..MaxDepth /\ (k + 1) - 1 = k
      BY <1>2, <2>1
    <3>2. Level(tree, k + 1) = UNION {Range(n.kids) : n \in Level(tree, k)}
      BY <3>1, LevelFacts
    <3>3. \A n \in Level(tree, k) : Range(n.kids) = {}
      BY <1>1, <1>4, <3>1
    <3> QED  BY <3>2, <3>3
  <2>2. k + 1 \in Nat
    OBVIOUS
  <2> QED  BY <2>1, <2>2
<1>5. Nat \subseteq S
  <2> HIDE DEF S
  <2> QED  BY <1>3, <1>4, SetInduction
<1>6. \A k \in D : Level(tree, k) \subseteq {tree}
  BY <1>2, <1>5
<1>7. Bounded(tree) /\ tree \in Nodes(tree)
  <2>1. Nodes(tree) \subseteq {tree} /\ Level(tree, MaxDepth) \subseteq {tree}
    BY <1>2, <1>6 DEF Nodes
  <2>2. <<>> \in Seq(Nodes(tree))
    OBVIOUS
  <2> QED  BY <1>1, <2>1, <2>2, BelowFacts, ZenonT(60) DEF Bounded
<1>8. SExpr(withRoot, tree) = <<"(", "(", ")", ")">>
  <2>1. PICK f : SExpr(withRoot, tree) = f[tree] /\ \A n \in Nodes(tree) : f[n] = SExprOf(withRoot, tree, n, f)
    BY <1>7, Solutions
  <2> QED  BY <1>1, <1>7, <2>1 DEF SExprOf
<1>9. POSTags(tree) = <<>>
  <2>1. PICK f : POSTags(tree) = f[tree] /\ \A n \in Nodes(tree) : f[n] = POSTagsOf(n, f)
    BY <1>7, Solutions
  <2>2. f[tree] = POSTagsOf(tree, f)
    BY <1>7, <2>1
  <2>3. DOMAIN tree.kids = {}
    <3>1. DOMAIN <<>> = {}
      OBVIOUS
    <3> QED  BY <1>1, <3>1
  <2> DEFINE h == [i \in DOMAIN tree.kids |->
                     IF tree.kids[i].kids = <<>> THEN <<<<tree.kids[i].value, tree.value>>>> ELSE f[tree.kids[i]]]
  <2>5. h = <<>>
    BY <2>3
  <2>6. POSTagsOf(tree, f) = FlattenSeq(h)
    BY DEF POSTagsOf
  <2> HIDE DEF h
  <2>7. FlattenSeq(<<>>) = <<>>
    <3>1. \A x \in Seq(Names) : FlattenSeq(<<>>) = <<>>
      BY FlattenOne
    <3>2. <<>> \in Seq(Names)
      OBVIOUS
    <3> QED  BY <3>1, <3>2
  <2>8. POSTags(tree) = f[tree]
    BY <2>1
  <2> QED  BY <2>2, <2>5, <2>6, <2>7, <2>8
<1>10. CASE fmt = "sexpr"
  <2> DEFINE p == <<"(", "(", ")", ")">>
  <2>1. p \in Seq(Names) /\ Len(p) = 4 /\ p[1] = "(" /\ p[2] = "(" /\ p[3] = ")" /\ p[4] = ")"
    <3>1. \A A : \A a, b, c, d \in A : <<a, b, c, d>> \in Seq(A)
      OBVIOUS
    <3> QED  BY <3>1, NamesAssumption
  <2>2. Text(fmt, withRoot, tree) = p
    BY <1>8, <1>10 DEF Text
  <2> HIDE DEF p
  <2>3. Height(p, 1) = 1 /\ Height(p, 2) = 2 /\ Height(p, 3) = 1 /\ Height(p, 4) = 0
    <3>1. Rise(p[1]) = 1 /\ Rise(p[2]) = 1 /\ Rise(p[3]) = -1 /\ Rise(p[4]) = -1
      BY <2>1 DEF Rise
    <3>2. /\ Height(p, 0) = 0
          /\ Height(p, 0 + 1) = Height(p, 0) + Rise(p[0 + 1])
          /\ Height(p, 1 + 1) = Height(p, 1) + Rise(p[1 + 1])
          /\ Height(p, 2 + 1) = Height(p, 2) + Rise(p[2 + 1])
          /\ Height(p, 3 + 1) = Height(p, 3) + Rise(p[3 + 1])
      BY HeightStep
    <3>3. 0 + 1 = 1 /\ 1 + 1 = 2 /\ 2 + 1 = 3 /\ 3 + 1 = 4
      OBVIOUS
    <3> QED  BY <3>1, <3>2, <3>3
  <2>4. BalancedLine(p)
    <3>1. \A i \in 1..(4 - 1) : i = 1 \/ i = 2 \/ i = 3
      OBVIOUS
    <3> QED  BY <2>1, <2>3, <3>1 DEF BalancedLine
  <2>5. Said(p) = <<>>
    <3>1. \A i \in 1..4 : i = 1 \/ i = 2 \/ i = 3 \/ i = 4
      OBVIOUS
    <3>2. \A i \in 1..4 : MarkAt(p, i) = <<>>
      BY <2>1, <3>1 DEF MarkAt
    <3>3. Marks(p) \in Seq(Seq(Names)) /\ Len(Marks(p)) = 4 /\ \A i \in 1..4 : Marks(p)[i] = MarkAt(p, i)
      BY <2>1, MarksType
    <3>4. \A i \in 1..Len(Marks(p)) : Marks(p)[i] = <<>>
      BY <3>2, <3>3
    <3> QED  BY <3>3, <3>4, FlattenEmpty DEF Said
  <2>6. WordsRead("sexpr", p) = <<>>
    BY <2>1, <2>5, LineSaid
  <2>7. Wanted("sexpr", <<>>) = <<>>
    BY DEF Wanted
  <2> QED  BY <1>10, <2>2, <2>4, <2>6, <2>7 DEF Right, tree
<1>11. CASE fmt = "postag"
  <2>1. Text(fmt, withRoot, tree) = <<>>
    BY <1>9, <1>11 DEF Text
  <2>2. WordsRead("postag", <<>>) = <<>> /\ Wanted("postag", <<>>) = <<>>
    BY DEF WordsRead, Wanted
  <2> QED  BY <1>11, <2>1, <2>2 DEF Right, tree
<1> QED  BY <1>10, <1>11

(* Pieces of one element each make the sequence of the elements.           *)
LEMMA FlattenSingles ==
  ASSUME NEW A, NEW w \in Seq(A), NEW s \in Seq(Seq(A)), Len(s) = Len(w),
         \A i \in 1..Len(w) : s[i] = <<w[i]>>
  PROVE  FlattenSeq(s) = w
<1> DEFINE m == Len(w)
           f == Flat(s)
           S == {n \in Nat : \A i \in 1..m : i <= n =>
                   f[i] \in Seq(A) /\ Len(f[i]) = i /\ \A j \in 1..i : f[i][j] = w[j]}
<1>1. m \in Nat /\ \A i \in 1..m : w[i] \in A
  OBVIOUS
<1>2. /\ \A i \in 1..m : f[i] = IF i = 1 THEN s[i] ELSE f[i - 1] \o s[i]
      /\ FlattenSeq(s) = IF s = <<>> THEN <<>> ELSE f[m]
  <2> HIDE DEF f
  <2>1. /\ \A i \in 1..Len(s) : f[i] = IF i = 1 THEN s[i] ELSE f[i - 1] \o s[i]
        /\ FlattenSeq(s) = IF s = <<>> THEN <<>> ELSE f[Len(s)]
    BY FlatPrefixes DEF f
  <2> QED  BY <2>1
<1>3. \A i \in 1..m : s[i] \in Seq(A) /\ Len(s[i]) = 1 /\ s[i][1] = w[i]
  <2>1. ASSUME NEW x \in A PROVE <<x>> \in Seq(A) /\ Len(<<x>>) = 1 /\ <<x>>[1] = x
    OBVIOUS
  <2> HIDE DEF m
  <2>2. \A i \in 1..m : s[i] = <<w[i]>>
    BY DEF m
  <2> QED  BY <1>1, <2>1, <2>2
<1> HIDE DEF f
<1>4. 0 \in S
  OBVIOUS
<1>5. ASSUME NEW n \in Nat, n \in S PROVE n + 1 \in S
  <2>1. ASSUME NEW i \in 1..m, i <= n + 1
        PROVE  f[i] \in Seq(A) /\ Len(f[i]) = i /\ \A j \in 1..i : f[i][j] = w[j]
    <3>1. CASE i = 1
      <4>1. f[i] = s[1] /\ \A j \in 1..1 : j = 1
        BY <1>2, <3>1
      <4>2. s[1] \in Seq(A) /\ Len(s[1]) = 1 /\ s[1][1] = w[1]
        BY <1>3, <3>1
      <4> QED  BY <3>1, <4>1, <4>2
    <3>2. CASE i # 1
      <4> DEFINE p == f[i - 1]
      <4>1. i - 1 \in 1..m /\ i - 1 <= n
        BY <1>1, <2>1, <3>2
      <4>2. p \in Seq(A) /\ Len(p) = i - 1 /\ \A j \in 1..(i - 1) : p[j] = w[j]
        BY <1>5, <4>1
      <4>3. f[i] = p \o s[i]
        BY <1>2, <3>2
      <4> HIDE DEF p
      <4> DEFINE q == s[i]
      <4>4. q \in Seq(A) /\ Len(q) = 1 /\ q[1] = w[i]
        BY <1>3
      <4> HIDE DEF q
      <4>5. /\ p \o q \in Seq(A) /\ Len(p \o q) = Len(p) + Len(q)
            /\ \A j \in 1..(Len(p) + Len(q)) : (p \o q)[j] = IF j <= Len(p) THEN p[j] ELSE q[j - Len(p)]
        <5>1. p \in Seq(A) /\ q \in Seq(A)
          BY <4>2, <4>4
        <5> QED  BY ONLY <5>1, ConcatProperties
      <4>6. Len(p) + Len(q) = i /\ Len(p) = i - 1
        BY <4>2, <4>4
      <4>7. ASSUME NEW j \in 1..i PROVE (p \o q)[j] = w[j]
        <5>1. CASE j <= i - 1
          <6>1. j \in 1..(i - 1)
            BY <5>1
          <6> QED  BY <4>2, <4>5, <4>6, <5>1, <6>1
        <5>2. CASE ~(j <= i - 1)
          <6>1. j = i /\ j - (i - 1) = 1
            BY <5>2
          <6> QED  BY <4>4, <4>5, <4>6, <5>2, <6>1
        <5> QED  BY <5>1, <5>2
      <4> QED  BY <4>3, <4>5, <4>6, <4>7 DEF q
    <3> QED  BY <3>1, <3>2
  <2>2. n + 1 \in Nat
    OBVIOUS
  <2> QED  BY <2>1, <2>2
<1>6. m \in S
  <2> HIDE DEF S, m
  <2> QED  BY <1>1, <1>4, <1>5, SetInduction
<1>7. CASE m = 0
  <2>1. w = <<>> /\ s = <<>>
    BY <1>7
  <2> QED  BY <1>2, <2>1
<1>8. CASE m # 0
  <2>1. m \in 1..m /\ s # <<>> /\ m <= m
    BY <1>8
  <2>2. f[m] \in Seq(A) /\ Len(f[m]) = m /\ \A j \in 1..m : f[m][j] = w[j]
    BY <1>6, <2>1
  <2>3. f[m] = w
    <3> HIDE DEF m
    <3>1. w \in Seq(A) /\ Len(w) = m
      BY DEF m
    <3> QED  BY <2>2, <3>1, SeqEqual
  <2> QED  BY <1>2, <2>1, <2>3
<1> QED  BY <1>7, <1>8

(* The tree of a failure that is to have words.                            *)
ListTree(w) == Node("ROOT", <<Node("?", [i \in DOMAIN w |-> Unknown(w[i])])>>)

(* It has the shape of a tree, over these words.                           *)
LEMMA ListTreeShaped ==
  ASSUME NEW w \in Seq(Names), w # <<>>
  PROVE  Shaped(ListTree(w)) /\ Yield(ListTree(w)) = w
<1> DEFINE D == 0..MaxDepth
           tree == ListTree(w)
           kids == [i \in DOMAIN w |-> Unknown(w[i])]
           list == Node("?", kids)
           spelt == {w[i] : i \in DOMAIN w}
           pre == {Unknown(v) : v \in spelt}
           leaves == {Leaf(v) : v \in spelt}
           N == Nodes(tree)
<1>1. MaxDepth \in Nat /\ 3 <= MaxDepth
  BY BoundAssumption
<1>2. /\ spelt \subseteq Names /\ DOMAIN w = 1..Len(w) /\ Len(w) \in Nat /\ Len(w) # 0
      /\ "ROOT" \in Names /\ "?" \in Names
  <2>1. DOMAIN w = 1..Len(w) /\ Len(w) \in Nat /\ Len(w) # 0
    OBVIOUS
  <2>2. spelt \subseteq Names
    OBVIOUS
  <2> QED  BY <2>1, <2>2, NamesAssumption
<1>3. /\ kids \in Seq(pre) /\ Len(kids) = Len(w) /\ \A i \in 1..Len(w) : kids[i] = Unknown(w[i])
      /\ Range(kids) = pre
  <2>1. kids = [i \in 1..Len(w) |-> Unknown(w[i])] /\ \A i \in 1..Len(w) : Unknown(w[i]) \in pre
    BY <1>2
  <2>2. Range(kids) = pre
    BY DEF Range
  <2> HIDE DEF kids, pre
  <2>3. kids \in [1..Len(w) -> pre] /\ \A i \in 1..Len(w) : kids[i] = Unknown(w[i])
    BY <2>1
  <2>4. kids \in Seq(pre) /\ Len(kids) = Len(w)
    BY <1>2, <2>3
  <2> QED  BY <2>2, <2>3, <2>4
<1>4. \A x : Range(<<x>>) = {x} /\ Range(<<>>) = {}
  BY DEF Range
<1>5. /\ tree.value = "ROOT" /\ tree.kids = <<list>>
      /\ list.value = "?" /\ list.kids = kids
      /\ \A v : Unknown(v).value = "?" /\ Unknown(v).kids = <<Leaf(v)>>
      /\ \A v : Leaf(v).value = v /\ Leaf(v).kids = <<>>
  BY DEF ListTree, Node, Unknown, Leaf
<1>6. tree \in [value : {"ROOT"}, kids : {<<list>>}] /\ list \in [value : {"?"}, kids : {kids}]
  BY DEF ListTree, Node
<1>7. \A v : Unknown(v) \in [value : {"?"}, kids : {<<Leaf(v)>>}] /\ Leaf(v) \in [value : {v}, kids : {<<>>}]
  BY DEF Unknown, Leaf, Node
<1> HIDE DEF tree, list, kids
<1>8. Level(tree, 0) = {tree} /\ Level(tree, 1) = {list} /\ Level(tree, 2) = pre /\ Level(tree, 3) = leaves
  <2>1. 1 \in 1..MaxDepth /\ 2 \in 1..MaxDepth /\ 3 \in 1..MaxDepth /\ 1 - 1 = 0 /\ 2 - 1 = 1 /\ 3 - 1 = 2
    BY <1>1
  <2>2. /\ Level(tree, 0) = {tree}
        /\ Level(tree, 1) = UNION {Range(n.kids) : n \in Level(tree, 0)}
        /\ Level(tree, 2) = UNION {Range(n.kids) : n \in Level(tree, 1)}
        /\ Level(tree, 3) = UNION {Range(n.kids) : n \in Level(tree, 2)}
    <3>1. /\ Level(tree, 0) = {tree}
          /\ Level(tree, 1) = UNION {Range(n.kids) : n \in Level(tree, 1 - 1)}
          /\ Level(tree, 2) = UNION {Range(n.kids) : n \in Level(tree, 2 - 1)}
          /\ Level(tree, 3) = UNION {Range(n.kids) : n \in Level(tree, 3 - 1)}
      BY <2>1, LevelFacts, Zenon
    <3> QED  BY <2>1, <3>1
  <2>0. Range(tree.kids) = {list} /\ Range(list.kids) = pre
    BY <1>3, <1>4, <1>5
  <2> HIDE DEF pre, leaves
  <2>3. Level(tree, 1) = {list}
    BY <2>0, <2>2
  <2>4. Level(tree, 2) = pre
    <3>1. \A x : UNION {Range(n.kids) : n \in {x}} = Range(x.kids)
      OBVIOUS
    <3>2. Level(tree, 2) = UNION {Range(n.kids) : n \in {list}}
      BY <2>2, <2>3
    <3> QED  BY <2>0, <3>1, <3>2
  <2>5. UNION {Range(n.kids) : n \in pre} = leaves
    <3>1. \A v \in spelt : Range(Unknown(v).kids) = {Leaf(v)}
      BY <1>4, <1>5
    <3>2. \A n \in pre : \E v \in spelt : n = Unknown(v) /\ Range(n.kids) = {Leaf(v)}
      BY <3>1 DEF pre
    <3>3. \A v \in spelt : Unknown(v) \in pre
      BY DEF pre
    <3>4. \A x : x \in leaves <=> \E v \in spelt : x = Leaf(v)
      BY DEF leaves
    <3> HIDE DEF spelt
    <3>5. UNION {Range(n.kids) : n \in pre} \subseteq leaves
      BY <3>2, <3>4
    <3>6. leaves \subseteq UNION {Range(n.kids) : n \in pre}
      BY <3>1, <3>3, <3>4
    <3> QED  BY <3>5, <3>6
  <2> QED  BY <2>2, <2>3, <2>4, <2>5
<1>9. \A k \in D : k >= 3 => Level(tree, k) \subseteq leaves
  <2> DEFINE S == {k \in Nat : k + 3 \in D => Level(tree, k + 3) \subseteq leaves}
  <2>1. 0 \in S
    <3>1. 0 + 3 = 3
      OBVIOUS
    <3> HIDE DEF leaves
    <3> QED  BY <1>8, <3>1
  <2>2. ASSUME NEW k \in Nat, k \in S PROVE k + 1 \in S
    <3>1. ASSUME (k + 1) + 3 \in D PROVE Level(tree, (k + 1) + 3) \subseteq leaves
      <4>1. k + 3 \in D /\ (k + 1) + 3 \in 1..MaxDepth /\ ((k + 1) + 3) - 1 = k + 3
        BY <1>1, <3>1
      <4>2. Level(tree, (k + 1) + 3) = UNION {Range(n.kids) : n \in Level(tree, k + 3)}
        <5>1. Level(tree, (k + 1) + 3) = UNION {Range(n.kids) : n \in Level(tree, ((k + 1) + 3) - 1)}
          BY <4>1, LevelFacts, Zenon
        <5> QED  BY <4>1, <5>1
      <4>3. \A n \in leaves : Range(n.kids) = {}
        BY <1>4, <1>5
      <4>4. Level(tree, k + 3) \subseteq leaves
        BY <2>2, <4>1
      <4> HIDE DEF leaves
      <4>5. \A n \in Level(tree, k + 3) : Range(n.kids) = {}
        BY <4>3, <4>4
      <4>6. Level(tree, (k + 1) + 3) = {}
        <5>1. ASSUME NEW Z, \A n \in Z : Range(n.kids) = {} PROVE UNION {Range(n.kids) : n \in Z} = {}
          BY <5>1
        <5> QED  BY <4>2, <4>5, <5>1
      <4> QED  BY <4>6
    <3>2. k + 1 \in Nat
      OBVIOUS
    <3> QED  BY <3>1, <3>2
  <2>3. Nat \subseteq S
    <3> HIDE DEF S
    <3> QED  BY <2>1, <2>2, SetInduction
  <2>4. ASSUME NEW k \in D, k >= 3 PROVE Level(tree, k) \subseteq leaves
    <3>1. k - 3 \in Nat /\ (k - 3) + 3 = k
      BY <1>1, <2>4
    <3>2. k - 3 \in S
      BY <2>3, <3>1
    <3> HIDE DEF leaves
    <3> QED  BY <2>4, <3>1, <3>2
  <2> QED  BY <2>4
<1>10. N = {tree, list} \cup pre \cup leaves
  <2>1. N = UNION {Level(tree, k) : k \in D}
    BY DEF Nodes
  <2>2. 0 \in D /\ 1 \in D /\ 2 \in D /\ 3 \in D /\ \A k \in D : k = 0 \/ k = 1 \/ k = 2 \/ k >= 3
    BY <1>1
  <2> HIDE DEF pre, leaves, N, D
  <2>3. N \subseteq {tree, list} \cup pre \cup leaves
    BY <1>8, <1>9, <2>1, <2>2
  <2>4. {tree, list} \cup pre \cup leaves \subseteq N
    BY <1>8, <2>1, <2>2
  <2> QED  BY <2>3, <2>4
<1>11. \A n \in N : n \in [value : Names, kids : Seq(N)]
  <2>1. ASSUME NEW A, NEW x \in A PROVE <<x>> \in Seq(A) /\ <<>> \in Seq(A)
    OBVIOUS
  <2>2. tree \in [value : Names, kids : Seq(N)]
    <3>1. <<list>> \in Seq(N)
      BY <1>10, <2>1
    <3> HIDE DEF N
    <3> QED  BY <1>2, <1>6, <3>1
  <2>3. list \in [value : Names, kids : Seq(N)]
    <3>1. kids \in Seq(N)
      <4>1. pre \subseteq N
        BY <1>10
      <4> HIDE DEF pre, N
      <4> QED  BY <1>3, <4>1
    <3> HIDE DEF N
    <3> QED  BY <1>2, <1>6, <3>1
  <2>4. ASSUME NEW v \in spelt PROVE Unknown(v) \in [value : Names, kids : Seq(N)]
    <3>1. <<Leaf(v)>> \in Seq(N)
      BY <1>10, <2>1
    <3> HIDE DEF N
    <3> QED  BY <1>2, <1>7, <3>1
  <2>5. ASSUME NEW v \in spelt PROVE Leaf(v) \in [value : Names, kids : Seq(N)]
    <3>1. <<>> \in Seq(N)
      OBVIOUS
    <3>2. v \in Names
      BY <1>2
    <3> HIDE DEF N
    <3> QED  BY <1>7, <3>1, <3>2, ZenonT(60)
  <2>6. \A n \in N : n = tree \/ n = list \/ (\E v \in spelt : n = Unknown(v)) \/ \E v \in spelt : n = Leaf(v)
    BY <1>10
  <2> HIDE DEF N, spelt
  <2> QED  BY <2>2, <2>3, <2>4, <2>5, <2>6, Zenon
<1>12. \A n \in Level(tree, MaxDepth) : n.kids = <<>>
  <2>1. MaxDepth \in D
    BY <1>1
  <2>2. \A n \in leaves : n.kids = <<>>
    BY <1>5
  <2> HIDE DEF leaves, D
  <2> QED  BY <1>1, <1>9, <2>1, <2>2
<1>13. tree.kids # <<>> /\ \A i \in DOMAIN tree.kids : tree.kids[i].kids # <<>>
  <2>1. \A x : <<x>> # <<>> /\ \A i \in DOMAIN <<x>> : <<x>>[i] = x
    OBVIOUS
  <2>2. kids # <<>>
    <3>1. Len(<<>>) = 0
      OBVIOUS
    <3> QED  BY <1>2, <1>3, <3>1
  <2> QED  BY <1>5, <2>1, <2>2
<1>14. Shaped(tree)
  BY <1>11, <1>12, <1>13 DEF Shaped
<1>15. Yield(tree) = w
  <2>1. PICK y : Yield(tree) = y[tree] /\ \A n \in Nodes(tree) : y[n] = YieldOf(n, y)
    BY <1>14, ShapedFacts, Solutions
  <2>2. tree \in N /\ list \in N /\ \A v \in spelt : Unknown(v) \in N /\ Leaf(v) \in N
    BY <1>10
  <2>3. \A x : [i \in DOMAIN <<x>> |-> y[<<x>>[i]]] = <<y[x]>>
    OBVIOUS
  <2>4. \A x : <<x>> # <<>>
    OBVIOUS
  <2>5. ASSUME NEW v \in spelt PROVE y[Unknown(v)] = <<v>>
    <3>1. y[Leaf(v)] = <<v>>
      BY <1>5, <2>1, <2>2 DEF YieldOf
    <3> DEFINE n == Unknown(v)
               l == Leaf(v)
    <3>2. n \in N /\ n.kids = <<l>> /\ n.kids # <<>>
      <4>1. n \in N
        BY <2>2
      <4>2. n.kids = <<l>>
        BY <1>5
      <4>3. <<l>> # <<>>
        BY <2>4
      <4> HIDE DEF n, l
      <4> QED  BY <4>1, <4>2, <4>3
    <3> HIDE DEF n, l
    <3>6. y[n] = FlattenSeq([i \in DOMAIN n.kids |-> y[n.kids[i]]])
      BY <2>1, <3>2 DEF YieldOf
    <3>3. y[Unknown(v)] = FlattenSeq(<<y[Leaf(v)]>>)
      BY <2>3, <3>2, <3>6 DEF n, l
    <3>4. <<v>> \in Seq(Names)
      <4>1. v \in Names
        BY <1>2
      <4> QED  BY <4>1
    <3> QED  BY <3>1, <3>3, <3>4, FlattenOne
  <2>6. y[list] = w
    <3> DEFINE s == [i \in DOMAIN kids |-> y[kids[i]]]
    <3>1. kids # <<>>
      <4>1. Len(<<>>) = 0
        OBVIOUS
      <4> QED  BY <1>2, <1>3, <4>1
    <3>2. y[list] = FlattenSeq(s)
      BY <1>5, <2>1, <2>2, <3>1 DEF YieldOf
    <3>3. DOMAIN kids = 1..Len(w)
      BY <1>3
    <3>4. ASSUME NEW i \in 1..Len(w) PROVE s[i] = <<w[i]>> /\ s[i] \in Seq(Names)
      <4>1. kids[i] = Unknown(w[i]) /\ w[i] \in spelt /\ w[i] \in Names
        BY <1>2, <1>3
      <4>2. y[Unknown(w[i])] = <<w[i]>>
        BY <2>5, <4>1
      <4>3. <<w[i]>> \in Seq(Names)
        BY <4>1
      <4> QED  BY <3>3, <4>1, <4>2, <4>3
    <3>5. s = [i \in 1..Len(w) |-> s[i]]
      BY <3>3
    <3> HIDE DEF s
    <3>6. s \in Seq(Seq(Names)) /\ Len(s) = Len(w)
      BY <1>2, <3>4, <3>5, SeqMade
    <3>7. FlattenSeq(s) = w
      BY <3>4, <3>6, FlattenSingles
    <3> QED  BY <3>2, <3>7
  <2>7. y[tree] = FlattenSeq(<<y[list]>>)
    <3>1. tree.kids = <<list>> /\ tree.kids # <<>>
      BY <1>5, <2>4
    <3>2. y[tree] = FlattenSeq([i \in DOMAIN tree.kids |-> y[tree.kids[i]]])
      BY <2>1, <2>2, <3>1 DEF YieldOf
    <3> QED  BY <2>3, <3>1, <3>2
  <2> QED  BY <2>1, <2>6, <2>7, FlattenOne
<1> QED  BY <1>14, <1>15 DEF tree

-----------------------------------------------------------------------------
(* The results parse() may have for a line, and the words they say.        *)
DefaultOf(forced, ws) ==
  IF forced
    THEN Node("ROOT", <<Node("?", IF ws = <<>> THEN <<Unknown("-EMPTY-")>>
                                  ELSE [i \in DOMAIN ws |-> Unknown(ws[i])])>>)
    ELSE Leaf("")

Results(forced, ws) == {DefaultOf(forced, ws)} \cup (IF ws = <<>> THEN {} ELSE TreesFor(ws))

ResultWords(forced, ws, tree) ==
  IF ws = <<>> THEN (IF forced THEN <<"-EMPTY-">> ELSE <<>>)
  ELSE IF tree = Leaf("") THEN <<>> ELSE ws

(* Every result is printed right: a tree, a list of the words, or nothing. *)
LEMMA ResultRight ==
  ASSUME NEW fmt \in {"sexpr", "postag"}, NEW withRoot \in BOOLEAN, NEW forced \in BOOLEAN,
         NEW lines \in Inputs, NEW k \in DOMAIN lines, NEW tree \in Results(forced, lines[k])
  PROVE  Right(fmt, withRoot, tree, ResultWords(forced, lines[k], tree))
<1> DEFINE ws == lines[k]
<1>1. ws \in Seq(Names)
  BY InputAssumption
<1>2. \A t : t.kids # <<>> => t # Leaf("")
  <2>1. Leaf("").kids = <<>>
    BY DEF Leaf, Node
  <2> QED  BY <2>1
<1>3. CASE ws # <<>> /\ tree \in TreesFor(ws)
  <2>1. Shaped(tree) /\ Yield(tree) = ws
    BY <1>3, InputAssumption
  <2>2. Right(fmt, withRoot, tree, ws)
    BY <2>1, TreeRight
  <2>3. tree # Leaf("")
    BY <1>2, <2>1, ShapedFacts
  <2> QED  BY <1>3, <2>2, <2>3 DEF ResultWords
<1>4. CASE forced /\ tree = DefaultOf(forced, ws)
  <2> DEFINE w == IF ws = <<>> THEN <<"-EMPTY-">> ELSE ws
  <2>1. w \in Seq(Names) /\ w # <<>>
    <3>1. \A x \in Names : <<x>> \in Seq(Names) /\ <<x>> # <<>>
      OBVIOUS
    <3> QED  BY <1>1, <3>1, NamesAssumption
  <2>2. tree = ListTree(w)
    <3>1. CASE ws = <<>>
      <4>1. \A x : [i \in DOMAIN <<x>> |-> Unknown(<<x>>[i])] = <<Unknown(x)>>
        OBVIOUS
      <4>2. w = <<"-EMPTY-">> /\ tree = Node("ROOT", <<Node("?", <<Unknown("-EMPTY-")>>)>>)
        BY <1>4, <3>1 DEF DefaultOf
      <4> QED  BY <4>1, <4>2 DEF ListTree
    <3>2. CASE ws # <<>>
      BY <1>4, <3>2 DEF DefaultOf, ListTree
    <3> QED  BY <3>1, <3>2
  <2> HIDE DEF w
  <2>3. Shaped(tree) /\ Yield(tree) = w
    BY <2>1, <2>2, ListTreeShaped
  <2>4. Right(fmt, withRoot, tree, w)
    BY <2>3, TreeRight
  <2>5. tree # Leaf("")
    BY <1>2, <2>3, ShapedFacts
  <2>6. ResultWords(forced, ws, tree) = w
    BY <1>4, <2>5 DEF ResultWords, w
  <2> QED  BY <2>4, <2>6
<1>5. CASE ~forced /\ tree = DefaultOf(forced, ws)
  <2>1. tree = Leaf("")
    BY <1>5 DEF DefaultOf
  <2>2. ResultWords(forced, ws, tree) = <<>>
    BY <1>5, <2>1 DEF ResultWords
  <2> QED  BY <2>1, <2>2, NothingRight
<1>6. (ws # <<>> /\ tree \in TreesFor(ws)) \/ tree = DefaultOf(forced, ws)
  BY DEF Results
<1> QED  BY <1>3, <1>4, <1>5, <1>6

(* All results of all lines, and what is printed of them.                  *)
AllResults == UNION {UNION {Results(f, lines[k]) : f \in BOOLEAN, k \in DOMAIN lines} : lines \in Inputs}
Texts(fmt, withRoot) == {Text(fmt, withRoot, t) : t \in AllResults}

(* What has been parsed and written: the k-th parse is of the k-th line,   *)
(* and the k-th line written is of the k-th parse.                         *)
History(fmt, withRoot, forced, lines, ps, out) ==
  /\ ps \in Seq(AllResults) /\ out \in Seq(Texts(fmt, withRoot))
  /\ \A k \in 1..Len(ps) : k \in DOMAIN lines /\ ps[k] \in Results(forced, lines[k])
  /\ \A k \in 1..Len(out) : k <= Len(ps) /\ out[k] = Text(fmt, withRoot, ps[k])

(* A line is parsed.                                                       *)
LEMMA ParseHistory ==
  ASSUME NEW fmt, NEW withRoot, NEW forced \in BOOLEAN, NEW lines \in Inputs, NEW ps, NEW out,
         History(fmt, withRoot, forced, lines, ps, out),
         Len(ps) + 1 \in DOMAIN lines, NEW t \in Results(forced, lines[Len(ps) + 1])
  PROVE  /\ History(fmt, withRoot, forced, lines, Append(ps, t), out)
         /\ Len(Append(ps, t)) = Len(ps) + 1 /\ Append(ps, t)[Len(ps) + 1] = t
<1>1. /\ ps \in Seq(AllResults) /\ Len(ps) \in Nat /\ out \in Seq(Texts(fmt, withRoot)) /\ Len(out) \in Nat
      /\ \A k \in 1..Len(ps) : k \in DOMAIN lines /\ ps[k] \in Results(forced, lines[k])
      /\ \A k \in 1..Len(out) : k <= Len(ps) /\ out[k] = Text(fmt, withRoot, ps[k])
  BY DEF History
<1>2. t \in AllResults
  BY DEF AllResults
<1> DEFINE q == Append(ps, t)
<1>3. /\ q \in Seq(AllResults) /\ Len(q) = Len(ps) + 1
      /\ \A k \in 1..Len(ps) : q[k] = ps[k]
      /\ q[Len(ps) + 1] = t
  BY <1>1, <1>2, AppendProperties
<1> HIDE DEF q
<1>4. \A k \in 1..Len(q) : k \in DOMAIN lines /\ q[k] \in Results(forced, lines[k])
  <2>1. \A k \in 1..Len(q) : k \in 1..Len(ps) \/ k = Len(ps) + 1
    BY <1>1, <1>3
  <2> QED  BY <1>1, <1>3, <2>1
<1>5. \A k \in 1..Len(out) : k <= Len(q) /\ out[k] = Text(fmt, withRoot, q[k])
  <2>1. \A k \in 1..Len(out) : k \in 1..Len(ps) /\ k <= Len(q)
    BY <1>1, <1>3
  <2> QED  BY <1>1, <1>3, <2>1
<1> QED  BY <1>1, <1>3, <1>4, <1>5 DEF History, q

(* A line is written.                                                      *)
LEMMA WriteHistory ==
  ASSUME NEW fmt, NEW withRoot, NEW forced \in BOOLEAN, NEW lines \in Inputs, NEW ps, NEW out,
         History(fmt, withRoot, forced, lines, ps, out), Len(out) + 1 = Len(ps), NEW x,
         x = Text(fmt, withRoot, ps[Len(ps)])
  PROVE  History(fmt, withRoot, forced, lines, ps, Append(out, x)) /\ Len(Append(out, x)) = Len(out) + 1
<1>1. /\ ps \in Seq(AllResults) /\ Len(ps) \in Nat /\ out \in Seq(Texts(fmt, withRoot)) /\ Len(out) \in Nat
      /\ \A k \in 1..Len(ps) : k \in DOMAIN lines /\ ps[k] \in Results(forced, lines[k])
      /\ \A k \in 1..Len(out) : k <= Len(ps) /\ out[k] = Text(fmt, withRoot, ps[k])
  BY DEF History
<1>2. Len(ps) \in 1..Len(ps)
  BY <1>1
<1>3. x \in Texts(fmt, withRoot)
  <2>1. ps[Len(ps)] \in AllResults
    BY <1>1, <1>2
  <2> QED  BY <2>1 DEF Texts
<1> DEFINE q == Append(out, x)
<1>4. /\ q \in Seq(Texts(fmt, withRoot)) /\ Len(q) = Len(out) + 1
      /\ \A k \in 1..Len(out) : q[k] = out[k]
      /\ q[Len(out) + 1] = x
  BY <1>1, <1>3, AppendProperties
<1> HIDE DEF q
<1>5. \A k \in 1..Len(q) : k <= Len(ps) /\ q[k] = Text(fmt, withRoot, ps[k])
  <2>1. \A k \in 1..Len(q) : k \in 1..Len(out) \/ (k = Len(ps) /\ k = Len(out) + 1 /\ k <= Len(ps))
    BY <1>1, <1>4
  <2> QED  BY <1>1, <1>4, <2>1
<1> QED  BY <1>1, <1>4, <1>5 DEF History, q

-----------------------------------------------------------------------------
(* The invariant: which line is being worked on, and what has been done.   *)
Counts ==
  /\ Len(parses) = (IF pc = "parse" THEN next - 2 ELSE next - 1)
  /\ Len(output) = (IF pc \in {"parse", "write"} THEN next - 2 ELSE next - 1)
  /\ pc \in {"parse", "write"} => next >= 2 /\ words = input[next - 1]
  /\ pc = "write" => parse = parses[next - 1]

TimerOK ==
  /\ timer \in [running : BOOLEAN, start : Nat, elapsed : Nat]
  /\ timer.running => timer.start <= clock

IInv == TypeOK /\ Counts /\ TimerOK /\ History(format, addRoot, force, input, parses, output)

(* What is known of the input.                                             *)
LEMMA InputFacts ==
  ASSUME TypeOK
  PROVE  /\ Len(input) \in Nat /\ DOMAIN input = 1..Len(input) /\ next \in Nat /\ next >= 1 /\ next <= Len(input) + 1
         /\ \A k \in 1..Len(input) : input[k] \in Seq(Names) /\ Len(input[k]) \in Nat
<1>1. input \in Seq(Seq(Names))
  BY InputAssumption DEF TypeOK
<1>2. Len(input) \in Nat /\ DOMAIN input = 1..Len(input) /\ \A k \in 1..Len(input) : input[k] \in Seq(Names)
  BY <1>1
<1>3. next \in 1..(Len(input) + 1)
  BY DEF TypeOK
<1> QED  BY <1>2, <1>3

(* The invariant holds at the start.                                       *)
LEMMA InitInv == Init => IInv
<1> SUFFICES ASSUME Init PROVE IInv
  OBVIOUS
<1>1. /\ pc = "read" /\ input \in Inputs /\ next = 1 /\ clock = 0 /\ totalWords = 0
      /\ format \in {"sexpr", "postag"} /\ addRoot \in BOOLEAN /\ force \in BOOLEAN
      /\ timer = [running |-> FALSE, start |-> 0, elapsed |-> 0] /\ output = <<>> /\ parses = <<>>
  BY DEF Init
<1>2. input \in Seq(Seq(Names))
  BY <1>1, InputAssumption
<1>3. Len(input) \in Nat
  BY <1>2
<1>4. timer.running = FALSE /\ timer.start = 0 /\ timer.elapsed = 0
  BY <1>1
<1>5. Len(output) = 0 /\ Len(parses) = 0 /\ 1 \in 1..(Len(input) + 1) /\ 1..0 = {} /\ 1 - 1 = 0
  BY <1>1, <1>3
<1>6. TypeOK
  BY <1>1, <1>3, <1>4, <1>5 DEF TypeOK
<1>7. Counts
  <2>1. pc \notin {"parse", "write"} /\ pc # "parse" /\ pc # "write"
    BY <1>1
  <2> QED  BY <1>1, <1>5, <2>1 DEF Counts
<1>8. TimerOK
  BY <1>1, <1>4 DEF TimerOK
<1>9. History(format, addRoot, force, input, parses, output)
  <2>1. \A S : <<>> \in Seq(S)
    OBVIOUS
  <2> QED  BY <1>1, <1>5, <2>1 DEF History
<1> QED  BY <1>6, <1>7, <1>8, <1>9 DEF IInv

(* Every step keeps it.                                                    *)
LEMMA StepInv == IInv /\ [Next]_vars => IInv'
<1> SUFFICES ASSUME IInv, [Next]_vars PROVE IInv'
  OBVIOUS
<1> USE DEF options
<1>1. TypeOK /\ Counts /\ TimerOK /\ History(format, addRoot, force, input, parses, output)
  BY DEF IInv
<1>2. /\ Len(input) \in Nat /\ DOMAIN input = 1..Len(input) /\ next \in Nat /\ next >= 1 /\ next <= Len(input) + 1
      /\ \A k \in 1..Len(input) : input[k] \in Seq(Names) /\ Len(input[k]) \in Nat
  BY <1>1, InputFacts
<1>3. CASE Read
  <2>1. /\ input' = input /\ format' = format /\ addRoot' = addRoot /\ force' = force
        /\ parses' = parses /\ output' = output /\ clock' = clock
        /\ pc = "read" /\ pc' = "parse" /\ next <= Len(input) /\ next' = next + 1
        /\ words' = input[next] /\ totalWords' = totalWords + Len(input[next])
        /\ timer' = [timer EXCEPT !.running = TRUE, !.start = clock]
    BY <1>3 DEF Read
  <2>2. clock \in Nat /\ totalWords \in Nat /\ Len(input[next]) \in Nat
    BY <1>1, <1>2, <2>1 DEF TypeOK
  <2>3. TimerOK' /\ timer'.running \in BOOLEAN /\ timer'.start \in Nat /\ timer'.elapsed \in Nat
    <3>1. timer \in [running : BOOLEAN, start : Nat, elapsed : Nat]
      BY <1>1 DEF TimerOK
    <3>2. timer' \in [running : BOOLEAN, start : Nat, elapsed : Nat] /\ timer'.start = clock
      BY <2>1, <2>2, <3>1
    <3>3. timer'.running => timer'.start <= clock'
      BY <2>1, <2>2, <3>2
    <3>4. timer'.running \in BOOLEAN /\ timer'.start \in Nat /\ timer'.elapsed \in Nat
      BY <3>2
    <3> QED  BY <3>2, <3>3, <3>4 DEF TimerOK
  <2>4. TypeOK'
    <3>1. next' \in 1..(Len(input) + 1) /\ totalWords' \in Nat
      BY <1>2, <2>1, <2>2
    <3> QED  BY <1>1, <2>1, <2>3, <3>1 DEF TypeOK
  <2>5. Counts'
    <3>1. next' - 2 = next - 1 /\ next' - 1 = next /\ next' >= 2
      BY <1>2, <2>1
    <3> QED  BY <1>1, <2>1, <3>1 DEF Counts
  <2> QED  BY <1>1, <2>1, <2>3, <2>4, <2>5 DEF IInv
<1>4. CASE Parse
  <2>1. PICK lap \in 0..MaxLap :
          /\ clock' = clock + lap /\ timer.running
          /\ timer' = [timer EXCEPT !.running = FALSE, !.elapsed = @ + Lap(clock')]
          /\ \E t \in {DefaultParse(words)} \cup (IF words = <<>> THEN {} ELSE TreesFor(words)) :
               parse' = t /\ parses' = Append(parses, t)
    BY <1>4 DEF Parse
  <2>2. /\ input' = input /\ format' = format /\ addRoot' = addRoot /\ force' = force
        /\ output' = output /\ next' = next /\ words' = words /\ totalWords' = totalWords
        /\ pc = "parse" /\ pc' = "write"
    BY <1>4 DEF Parse
  <2>3. PICK t \in Results(force, words) : parse' = t /\ parses' = Append(parses, t)
    BY <2>1 DEF Results, DefaultOf, DefaultParse
  <2>4. Len(parses) = next - 2 /\ Len(output) = next - 2 /\ next >= 2 /\ words = input[next - 1]
    BY <1>1, <2>2 DEF Counts
  <2>5. Len(parses) + 1 = next - 1 /\ next - 1 \in DOMAIN input
    BY <1>2, <2>4
  <2>6. force \in BOOLEAN /\ input \in Inputs
    BY <1>1 DEF TypeOK
  <2>7. /\ History(format, addRoot, force, input, Append(parses, t), output)
        /\ Len(Append(parses, t)) = Len(parses) + 1 /\ Append(parses, t)[Len(parses) + 1] = t
    <3>1. t \in Results(force, input[Len(parses) + 1]) /\ Len(parses) + 1 \in DOMAIN input
      BY <2>4, <2>5
    <3> QED  BY <1>1, <2>6, <3>1, ParseHistory
  <2>8. /\ clock \in Nat /\ clock' \in Nat /\ timer.start \in Nat /\ timer.elapsed \in Nat /\ timer.start <= clock
        /\ Lap(clock') \in Nat
    <3>1. lap \in Nat /\ clock \in Nat
      BY <1>1, BoundAssumption DEF TypeOK
    <3>2. timer.start \in Nat /\ timer.elapsed \in Nat /\ timer.start <= clock
      BY <1>1, <2>1 DEF TimerOK
    <3> QED  BY <2>1, <3>1, <3>2 DEF Lap
  <2>9. TimerOK' /\ timer'.running \in BOOLEAN /\ timer'.start \in Nat /\ timer'.elapsed \in Nat
    <3> DEFINE d == Lap(clock')
    <3>1. d \in Nat /\ timer.elapsed + d \in Nat
      BY <2>8
    <3>2. timer' = [timer EXCEPT !.running = FALSE, !.elapsed = @ + d]
      BY <2>1
    <3> HIDE DEF d
    <3> QED  BY <1>1, <2>8, <3>1, <3>2 DEF TimerOK
  <2>10. TypeOK'
    <3>1. Len(parses') <= Len(input)
      BY <1>2, <2>3, <2>5, <2>7
    <3> QED  BY <1>1, <2>2, <2>8, <2>9, <3>1 DEF TypeOK
  <2>11. Counts'
    BY <2>2, <2>3, <2>4, <2>5, <2>7 DEF Counts
  <2> QED  BY <2>2, <2>3, <2>7, <2>9, <2>10, <2>11 DEF IInv
<1>5. CASE Write
  <2>1. /\ input' = input /\ format' = format /\ addRoot' = addRoot /\ force' = force
        /\ parses' = parses /\ next' = next /\ words' = words /\ parse' = parse
        /\ clock' = clock /\ timer' = timer /\ totalWords' = totalWords
        /\ pc = "write" /\ pc' = "read"
        /\ output' = Append(output, Text(format, addRoot, parse))
    BY <1>5 DEF Write, Text
  <2>2. Len(parses) = next - 1 /\ Len(output) = next - 2 /\ next >= 2 /\ parse = parses[next - 1]
    BY <1>1, <2>1 DEF Counts
  <2>3. Len(output) + 1 = Len(parses)
    BY <1>2, <2>2
  <2> DEFINE x == Text(format, addRoot, parse)
  <2>4. /\ History(format, addRoot, force, input, parses, Append(output, x))
        /\ Len(Append(output, x)) = Len(output) + 1
    <3>1. force \in BOOLEAN /\ input \in Inputs
      BY <1>1 DEF TypeOK
    <3>2. x = Text(format, addRoot, parses[Len(parses)])
      BY <2>2
    <3> HIDE DEF x
    <3> QED  BY <1>1, <2>3, <3>1, <3>2, WriteHistory
  <2>5. output' = Append(output, x)
    BY <2>1
  <2> HIDE DEF x
  <2>6. Len(output') = next - 1 /\ Len(output') <= Len(input)
    BY <1>2, <2>2, <2>4, <2>5
  <2>7. TypeOK'
    BY <1>1, <2>1, <2>6 DEF TypeOK
  <2>8. Counts'
    BY <2>1, <2>2, <2>6 DEF Counts
  <2>9. TimerOK'
    BY <1>1, <2>1 DEF TimerOK
  <2>10. History(format, addRoot, force, input, parses, output)'
    BY <2>1, <2>4, <2>5
  <2> QED  BY <2>7, <2>8, <2>9, <2>10 DEF IInv
<1>6. CASE EndOfInput
  <2>1. /\ pc = "read" /\ pc' = "done"
        /\ UNCHANGED <<options, next, words, parse, clock, timer, totalWords, output, parses>>
    BY <1>6 DEF EndOfInput
  <2>2. TypeOK'
    BY <1>1, <2>1 DEF TypeOK
  <2>3. Counts'
    BY <1>1, <2>1 DEF Counts
  <2>4. TimerOK' /\ History(format, addRoot, force, input, parses, output)'
    BY <1>1, <2>1 DEF TimerOK
  <2> QED  BY <2>2, <2>3, <2>4 DEF IInv
<1>7. CASE UNCHANGED vars
  BY <1>1, <1>7 DEF vars, IInv, TypeOK, Counts, TimerOK
<1> QED  BY <1>3, <1>4, <1>5, <1>6, <1>7 DEF Next

(* IInv is an invariant: the k-th line written is the text of the k-th     *)
(* parse, which is a result for the k-th line read.                        *)
THEOREM Invariance == Spec => []IInv
<1>1. Init => IInv
  BY InitInv
<1>2. IInv /\ [Next]_vars => IInv'
  BY StepInv
<1> QED  BY <1>1, <1>2, PTL DEF Spec

(* Every variable keeps its type; the timer is never negative.             *)
THEOREM TypeCorrect == Spec => []TypeOK
<1>1. IInv => TypeOK
  BY DEF IInv
<1> QED  BY <1>1, Invariance, PTL

(* Every line that has been written is right.                              *)
LEMMA WrittenRight ==
  ASSUME IInv
  PROVE  \A k \in DOMAIN output :
           /\ output[k] = Text(format, addRoot, parses[k])
           /\ Right(format, addRoot, parses[k], ResultWords(force, input[k], parses[k]))
<1>1. /\ parses \in Seq(AllResults) /\ output \in Seq(Texts(format, addRoot))
      /\ \A k \in 1..Len(parses) : k \in DOMAIN input /\ parses[k] \in Results(force, input[k])
      /\ \A k \in 1..Len(output) : k <= Len(parses) /\ output[k] = Text(format, addRoot, parses[k])
  BY DEF IInv, History
<1>2. /\ input \in Inputs /\ format \in {"sexpr", "postag"} /\ addRoot \in BOOLEAN /\ force \in BOOLEAN
  BY DEF IInv, TypeOK
<1>3. DOMAIN output = 1..Len(output) /\ Len(output) \in Nat /\ Len(parses) \in Nat
  BY <1>1
<1>4. ASSUME NEW k \in DOMAIN output
      PROVE  /\ output[k] = Text(format, addRoot, parses[k])
             /\ Right(format, addRoot, parses[k], ResultWords(force, input[k], parses[k]))
  <2>1. k \in 1..Len(output) /\ k \in 1..Len(parses)
    BY <1>1, <1>3
  <2>2. k \in DOMAIN input /\ parses[k] \in Results(force, input[k]) /\ output[k] = Text(format, addRoot, parses[k])
    BY <1>1, <2>1
  <2>3. Right(format, addRoot, parses[k], ResultWords(force, input[k], parses[k]))
    BY <1>2, <2>2, ResultRight
  <2> QED  BY <2>2, <2>3
<1> QED  BY <1>4

(* The output has a line for every line of the input, in order, and each   *)
(* says the words of its line, or nothing when there is no parse.          *)
THEOREM Alignment == Spec => []Aligned
<1>1. IInv => Aligned
  <2> SUFFICES ASSUME IInv PROVE Aligned
    OBVIOUS
  <2>1. Len(output) = (IF pc \in {"parse", "write"} THEN next - 2 ELSE next - 1)
    BY DEF IInv, Counts
  <2>2. format \in {"sexpr", "postag"}
    BY DEF IInv, TypeOK
  <2>3. ASSUME NEW k \in DOMAIN output
        PROVE  LET expected == IF input[k] = <<>> THEN (IF force THEN <<"-EMPTY-">> ELSE <<>>)
                               ELSE IF parses[k] = Leaf("") THEN <<>> ELSE input[k]
               IN  PrintedWords(output[k]) =
                     [i \in DOMAIN expected |-> IF format = "sexpr" THEN Escape(expected[i]) ELSE expected[i]]
    <3> DEFINE expected == ResultWords(force, input[k], parses[k])
    <3>1. WordsRead(format, output[k]) = Wanted(format, expected)
      BY <2>3, WrittenRight DEF Right
    <3>2. PrintedWords(output[k]) = WordsRead(format, output[k])
      BY DEF PrintedWords, WordsRead
    <3>3. Wanted(format, expected) =
            [i \in DOMAIN expected |-> IF format = "sexpr" THEN Escape(expected[i]) ELSE expected[i]]
      BY DEF Wanted
    <3> QED  BY <3>1, <3>2, <3>3 DEF ResultWords
  <2> QED  BY <2>1, <2>3 DEF Aligned
<1> QED  BY <1>1, Invariance, PTL

(* Every S expression that is written is one balanced expression.          *)
THEOREM BalancedOutput == Spec => []Balanced
<1>1. IInv => Balanced
  <2> SUFFICES ASSUME IInv, format = "sexpr", NEW k \in DOMAIN output PROVE BalancedLine(output[k])
    BY DEF Balanced, BalancedLine
  <2> QED  BY WrittenRight DEF Right
<1> QED  BY <1>1, Invariance, PTL
=============================================================================
