------------------------- MODULE ChartParser_proofs -------------------------
(***************************************************************************)
(* Proofs about the chart parser, for every grammar, hierarchy, sentence   *)
(* and threshold: its types, that it implements CoarseToFine, and that its *)
(* inside pass computes the scores of the parse trees.                     *)
(*                                                                         *)
(* The abstract control lets each level leave any charts, but insists that *)
(* the second attempt sees at every level what the first has left there.   *)
(* The parser has no memory to insist on it: it computes everything anew.  *)
(* So the invariant has three parts.  Own: the charts, their sizes and the *)
(* loops.  CP!IInv: the invariant of the control, under the refinement     *)
(* mapping.  Traced: the configuration of the level loop is one of the     *)
(* deterministic run from the inputs of the call, and every recorded level *)
(* was left by a configuration of that same run.  A run prunes a level at  *)
(* most once and never rejects one that it prunes, so what the second      *)
(* attempt computes is what has been recorded.                             *)
(*                                                                         *)
(* The inside pass needs a further invariant, Summed: the spans it is done *)
(* with have the scores of all their trees, the one it is at those without *)
(* a unary rule on top, tag by tag, the others none; and the extents of a  *)
(* tag, wide at every moment, hold every phrase it has a score for.  The   *)
(* trees are defined by recursion on spans, so first come the sets of them *)
(* and their totals, then the passes.                                      *)
(*                                                                         *)
(* The outside pass goes downwards.  OutsideSummed: a symbol has been      *)
(* handed what the productive rules above it owe, of all longer spans done *)
(* with, and its unary rules once its own span is.  Accounted: the inside  *)
(* score of a phrase is no more than the split points within the extents   *)
(* account for, so where it is the score of all trees, the extents have    *)
(* hidden no rule from the outside pass.  A parse through a constituent is *)
(* one of its trees, or goes on by exactly one rule above it: so, from the *)
(* longest span down, the parses through a constituent weigh no more than  *)
(* the product of its scores.                                              *)
(*                                                                         *)
(* Retrieval goes upwards again, by tags.  A tag it finds over a span has  *)
(* a tree of tags there, and a tree that pruning leaves is found, because  *)
(* the symbols of a parse have scores from outside, and its rules are      *)
(* productive where the inside pass found all trees.                       *)
(***************************************************************************)
EXTENDS ChartParser, DataLemmas

(* The symbols that symbols of a level are merged into.                    *)
LEMMA CoarserSymbols ==
  ASSUME NEW l \in AllLevels \ {0}, NEW S \in Symbols(l)
  PROVE  Coarser(S, l) \in Symbols(l - 1)
<1>0. PICK t \in TagIds : \E s \in 0..(NumSub[t][l] - 1) : S = <<t, s>>
  BY DEF Symbols
<1>1. PICK s \in 0..(NumSub[t][l] - 1) : S = <<t, s>>
  BY <1>0
<1>2. Parent[t][l] \in [0..(NumSub[t][l] - 1) -> 0..(NumSub[t][l - 1] - 1)]
  BY HierarchyAssumption
<1>3. Parent[t][l][s] \in 0..(NumSub[t][l - 1] - 1)
  BY <1>2
<1> QED  BY <1>1, <1>3 DEF Symbols, Coarser

(* Projecting a model of a level gives one of the level below.             *)
LEMMA ProjectedModel ==
  ASSUME NEW l \in AllLevels \ {0}, NEW m, IsModel(m, l)
  PROVE  IsModel(Project(m, l), l - 1)
<1> DEFINE Up3(r) == <<Coarser(r[1], l), Coarser(r[2], l), Coarser(r[3], l)>>
           Up2(r) == <<Coarser(r[1], l), Coarser(r[2], l)>>
           UpWord(r) == <<Coarser(r[1], l), r[2]>>
           Value(f, up, q) == SumFunction([r \in {p \in DOMAIN f : up[p] = q} |-> Cond[l][r[1]] * f[r]])
           bin == [q \in {Up3(r) : r \in DOMAIN m.bin} |->
                     SumFunction([r \in {p \in DOMAIN m.bin : Up3(p) = q} |-> Cond[l][r[1]] * m.bin[r]])]
           una == [q \in {Up2(r) : r \in DOMAIN m.una} |->
                     SumFunction([r \in {p \in DOMAIN m.una : Up2(p) = q} |-> Cond[l][r[1]] * m.una[r]])]
           lex == [q \in {UpWord(r) : r \in DOMAIN m.lex} |->
                     SumFunction([r \in {p \in DOMAIN m.lex : UpWord(p) = q} |-> Cond[l][r[1]] * m.lex[r]])]
<1>1. Project(m, l) = [bin |-> bin, lex |-> lex, una |-> [q \in DOMAIN una |-> una[q] \div CondDen]]
  BY DEF Project, ProjectTable, SumOver
<1>2. /\ IsFiniteSet(DOMAIN m.bin) /\ \A r \in DOMAIN m.bin : m.bin[r] \in Nat /\ r \in Symbols(l) \X Symbols(l) \X Symbols(l)
      /\ IsFiniteSet(DOMAIN m.una) /\ \A r \in DOMAIN m.una : m.una[r] \in Nat /\ r \in Symbols(l) \X Symbols(l)
      /\ IsFiniteSet(DOMAIN m.lex) /\ \A r \in DOMAIN m.lex : m.lex[r] \in Nat /\ r[1] \in Symbols(l)
  BY DEF IsModel
<1>3. \A S \in Symbols(l) : Cond[l][S] \in Nat
  BY CondAssumption
<1>4. IsFiniteSet(DOMAIN bin) /\ \A q \in DOMAIN bin : bin[q] \in Nat
  <2> DEFINE D == DOMAIN m.bin
             up == [r \in D |-> Up3(r)]
             w == [r \in D |-> Cond[l][r[1]]]
             f == [r \in D |-> m.bin[r]]
  <2>1. w \in [D -> Nat] /\ f \in [D -> Nat] /\ IsFiniteSet(D)
    BY <1>2, <1>3
  <2>2. DOMAIN bin = Groups(D, up)
    BY DEF Groups
  <2>3. \A q \in DOMAIN bin : bin[q] = GroupSum(D, up, w, f, q)
    <3> TAKE q \in DOMAIN bin
    <3>1. {p \in D : Up3(p) = q} = {p \in D : up[p] = q}
      OBVIOUS
    <3>2. \A r \in D : Cond[l][r[1]] * m.bin[r] = w[r] * f[r]
      OBVIOUS
    <3> HIDE DEF Up3
    <3> QED  BY <3>1, <3>2 DEF GroupSum
  <2> HIDE DEF bin, D, up, w, f
  <2> QED  BY <2>1, <2>2, <2>3, TableProjection
<1>5. IsFiniteSet(DOMAIN una) /\ \A q \in DOMAIN una : una[q] \in Nat
  <2> DEFINE D == DOMAIN m.una
             up == [r \in D |-> Up2(r)]
             w == [r \in D |-> Cond[l][r[1]]]
             f == [r \in D |-> m.una[r]]
  <2>1. w \in [D -> Nat] /\ f \in [D -> Nat] /\ IsFiniteSet(D)
    BY <1>2, <1>3
  <2>2. DOMAIN una = Groups(D, up)
    BY DEF Groups
  <2>3. \A q \in DOMAIN una : una[q] = GroupSum(D, up, w, f, q)
    <3> TAKE q \in DOMAIN una
    <3>1. {p \in D : Up2(p) = q} = {p \in D : up[p] = q}
      OBVIOUS
    <3>2. \A r \in D : Cond[l][r[1]] * m.una[r] = w[r] * f[r]
      OBVIOUS
    <3> HIDE DEF Up2
    <3> QED  BY <3>1, <3>2 DEF GroupSum
  <2> HIDE DEF una, D, up, w, f
  <2> QED  BY <2>1, <2>2, <2>3, TableProjection
<1>6. IsFiniteSet(DOMAIN lex) /\ \A q \in DOMAIN lex : lex[q] \in Nat
  <2> DEFINE D == DOMAIN m.lex
             up == [r \in D |-> UpWord(r)]
             w == [r \in D |-> Cond[l][r[1]]]
             f == [r \in D |-> m.lex[r]]
  <2>1. w \in [D -> Nat] /\ f \in [D -> Nat] /\ IsFiniteSet(D)
    BY <1>2, <1>3
  <2>2. DOMAIN lex = Groups(D, up)
    BY DEF Groups
  <2>3. \A q \in DOMAIN lex : lex[q] = GroupSum(D, up, w, f, q)
    <3> TAKE q \in DOMAIN lex
    <3>1. {p \in D : UpWord(p) = q} = {p \in D : up[p] = q}
      OBVIOUS
    <3>2. \A r \in D : Cond[l][r[1]] * m.lex[r] = w[r] * f[r]
      OBVIOUS
    <3> HIDE DEF UpWord
    <3> QED  BY <3>1, <3>2 DEF GroupSum
  <2> HIDE DEF lex, D, up, w, f
  <2> QED  BY <2>1, <2>2, <2>3, TableProjection
<1>7. /\ \A q \in DOMAIN bin : q \in Symbols(l - 1) \X Symbols(l - 1) \X Symbols(l - 1)
      /\ \A q \in DOMAIN una : q \in Symbols(l - 1) \X Symbols(l - 1)
      /\ \A q \in DOMAIN lex : q[1] \in Symbols(l - 1)
  BY <1>2, CoarserSymbols
<1>8. \A q \in DOMAIN una : una[q] \div CondDen \in Nat
  <2>1. \A n \in Nat : n \div CondDen \in Nat
    BY CondAssumption
  <2> HIDE DEF una
  <2> QED  BY <1>5, <2>1
<1> HIDE DEF bin, una, lex
<1> QED  BY <1>1, <1>4, <1>5, <1>6, <1>7, <1>8 DEF IsModel

(* One model after the other, from the finest down.                        *)
Chain(finest, g) ==
  [l \in AllLevels |-> IF l = Depth - 1 THEN finest ELSE Project(g[l + 1], l + 1)]

(* The recursion of ModelsOf has a solution.                               *)
LEMMA ChainExists == ASSUME NEW finest PROVE \E g : g = Chain(finest, g)
<1> DEFINE Value(g, l) == IF l = Depth - 1 THEN finest ELSE Project(g[l + 1], l + 1)
           Solved(n) == \E g : /\ g = [l \in AllLevels |-> g[l]]
                               /\ \A l \in AllLevels : l >= Depth - 1 - n => g[l] = Value(g, l)
           S == {n \in Nat : Solved(n)}
<1>1. Depth \in Nat \ {0}
  BY HierarchyAssumption
<1>2. 0 \in S
  <2> DEFINE g == [l \in AllLevels |-> finest]
  <2>1. g = [l \in AllLevels |-> g[l]]
    OBVIOUS
  <2>2. \A l \in AllLevels : l >= Depth - 1 - 0 => g[l] = Value(g, l)
    BY <1>1 DEF AllLevels
  <2>3. Solved(0)
    BY <2>1, <2>2
  <2> HIDE DEF Solved
  <2> QED  BY <2>3
<1>3. ASSUME NEW n \in Nat, n \in S PROVE n + 1 \in S
  <2>1. PICK g : /\ g = [l \in AllLevels |-> g[l]]
                 /\ \A l \in AllLevels : l >= Depth - 1 - n => g[l] = Value(g, l)
    BY <1>3
  <2> DEFINE h == [l \in AllLevels |-> IF l >= Depth - 1 - n THEN g[l] ELSE Value(g, l)]
  <2>2. h = [l \in AllLevels |-> h[l]]
    OBVIOUS
  <2>3. ASSUME NEW l \in AllLevels, l >= Depth - 1 - (n + 1) PROVE h[l] = Value(h, l)
    <3>1. h[l] = Value(g, l)
      BY <2>1
    <3>2. l # Depth - 1 => l + 1 \in AllLevels /\ l + 1 >= Depth - 1 - n
      BY <1>1, <2>3 DEF AllLevels
    <3>3. l # Depth - 1 => h[l + 1] = g[l + 1]
      BY <3>2
    <3> HIDE DEF h
    <3> QED  BY <3>1, <3>3
  <2>4. Solved(n + 1)
    <3> HIDE DEF h, Value
    <3> QED  BY <2>2, <2>3
  <2> HIDE DEF Solved
  <2> QED  BY <2>4
<1>4. Solved(Depth)
  <2>1. Nat \subseteq S
    <3> HIDE DEF S
    <3> QED  BY <1>2, <1>3, SetInduction
  <2> HIDE DEF Solved
  <2> QED  BY <1>1, <2>1
<1>5. PICK g : /\ g = [l \in AllLevels |-> g[l]]
               /\ \A l \in AllLevels : l >= Depth - 1 - Depth => g[l] = Value(g, l)
  BY <1>4
<1>6. g = [l \in AllLevels |-> Value(g, l)]
  <2>1. \A l \in AllLevels : l >= Depth - 1 - Depth
    BY <1>1 DEF AllLevels
  <2> HIDE DEF Value
  <2>2. \A l \in AllLevels : g[l] = Value(g, l)
    BY <1>5, <2>1
  <2> QED  BY <1>5, <2>2
<1> QED  BY <1>6 DEF Chain

(* Every model of the parser is one of its level.                          *)
LEMMA LevelModels ==
  ASSUME NEW finest \in FinestModels
  PROVE  \A l \in AllLevels : IsModel(ModelsOf(finest)[l], l)
<1> DEFINE g == CHOOSE g : g = Chain(finest, g)
<1>1. g = Chain(finest, g)
  BY ChainExists
<1>2. ModelsOf(finest) = [l \in AllLevels |-> g[l]]
  BY DEF ModelsOf, Chain
<1> HIDE DEF g
<1>3. Depth \in Nat \ {0} /\ IsModel(finest, Depth - 1)
  BY HierarchyAssumption, InputAssumption
<1> DEFINE Good(n) == \A l \in AllLevels : l >= Depth - 1 - n => IsModel(g[l], l)
           S == {n \in Nat : Good(n)}
<1>4. \A l \in AllLevels : g[l] = IF l = Depth - 1 THEN finest ELSE Project(g[l + 1], l + 1)
  BY <1>1 DEF Chain
<1>5. 0 \in S
  BY <1>3, <1>4 DEF AllLevels
<1>6. ASSUME NEW n \in Nat, n \in S PROVE n + 1 \in S
  <2> SUFFICES ASSUME NEW l \in AllLevels, l >= Depth - 1 - (n + 1) PROVE IsModel(g[l], l)
    OBVIOUS
  <2>1. CASE l = Depth - 1
    BY <1>3, <1>4, <2>1
  <2>2. CASE l # Depth - 1
    <3>1. l + 1 \in AllLevels \ {0} /\ l + 1 >= Depth - 1 - n /\ (l + 1) - 1 = l
      BY <1>3, <2>2 DEF AllLevels
    <3>2. IsModel(g[l + 1], l + 1)
      BY <1>6, <3>1
    <3>3. IsModel(Project(g[l + 1], l + 1), (l + 1) - 1)
      BY <3>1, <3>2, ProjectedModel
    <3> QED  BY <1>4, <2>2, <3>1, <3>3
  <2> QED  BY <2>1, <2>2
<1>7. Nat \subseteq S
  <2> HIDE DEF S
  <2> QED  BY <1>5, <1>6, SetInduction
<1>8. \A l \in AllLevels : IsModel(g[l], l)
  <2>1. Good(Depth)
    BY <1>3, <1>7
  <2> QED  BY <1>3, <2>1 DEF AllLevels
<1> QED  BY <1>2, <1>8
-----------------------------------------------------------------------------
(* The vectors of an allowed cell have one entry for each of its subtags,  *)
(* and a flag for it.                                                      *)
SubIds(c, l) == 0..(NumSub[c[2]][l] - 1)

Sized(l) ==
  \A c \in Cells : allowedTag[c] =>
    /\ allowedSub[c] \in [SubIds(c, l) -> BOOLEAN]
    /\ DOMAIN inside[c] = SubIds(c, l) /\ DOMAIN outside[c] = SubIds(c, l)

RootAllowed == allowedTag[RootCell] /\ allowedSub[RootCell][0]

ExtentType == [nr : 1..(NumWords + 1), nl : -1..(NumWords - 1),
               wr : -1..NumWords, wl : 0..(NumWords + 1)]

Passes == {"terminals", "unary", "binary", "score", "outside", "prune"}

(* The flags and the scores.                                               *)
TypesOK ==
  /\ pc \in {"setup", "call", "charts", "terminals", "unary", "binary", "score",
             "outside", "prune", "retrieve", "return", "done"}
  /\ sentence \in Sentences /\ threshold \in Thresholds
  /\ allowedTag \in [Cells -> BOOLEAN]
  /\ DOMAIN allowedSub = Cells /\ DOMAIN inside = Cells /\ DOMAIN outside = Cells
  /\ \A c \in Cells : /\ \A i \in DOMAIN inside[c] : inside[c][i] \in Nat
                      /\ \A i \in DOMAIN outside[c] : outside[c][i] \in Nat
  /\ retrievable \subseteq AllLevels

(* The spans a pass visits, and the models it reads.                       *)
LoopOK ==
  /\ pos \in [len : 0..(NumWords + 1), begin : 0..(NumWords - 1), tag : 0..NumTags]
  /\ pc \in {"unary", "binary", "outside"} =>
       pos.len \in 1..NumWords /\ pos.begin + pos.len <= NumWords
  /\ pc = "binary" => pos.tag < NumTags
  /\ pc # "setup" => \A l \in AllLevels : IsModel(models[l], l)

(* The vectors follow the level, and ROOT over the sentence is never       *)
(* pruned: its outside score starts at 1 and only grows.                   *)
AllSubIds == UNION {SubIds(d, l) : d \in Cells, l \in AllLevels}

VectorsOK ==
  /\ \A c \in Cells : DOMAIN allowedSub[c] \subseteq AllSubIds
  /\ extent \in [0..NumWords -> [TagIds -> ExtentType]]
  /\ pc \in Passes => level \in AllLevels /\ Sized(level) /\ RootAllowed
  /\ pc = "charts" /\ level > 0 => Sized(level - 1) /\ RootAllowed
  /\ pc \in {"outside", "prune"} => outside[RootCell][0] >= 1

Own == TypesOK /\ LoopOK /\ VectorsOK

-----------------------------------------------------------------------------
(* Sizes that the code takes for granted.                                  *)
LEMMA Shapes ==
  /\ NumWords \in Nat \ {0} /\ NumTags \in Nat \ {0} /\ Depth \in Nat \ {0}
  /\ 0 \in AllLevels /\ \A l \in AllLevels : l \in Nat
  /\ RootTag \in TagIds /\ Whole \in Spans /\ RootCell \in Cells
  /\ RootCell[1] = Whole /\ RootCell[2] = RootTag
  /\ \A c \in Cells : c = <<c[1], c[2]>> /\ c[1] \in Spans /\ c[2] \in TagIds
  /\ \A s \in Spans : /\ s = <<s[1], s[2]>> /\ s[1] \in 0..(NumWords - 1)
                      /\ s[2] \in 1..NumWords /\ s[1] < s[2]
<1>1. NumWords \in Nat \ {0} /\ NumTags \in Nat \ {0} /\ Depth \in Nat \ {0}
  BY InputAssumption, HierarchyAssumption
<1>2. 0 \in AllLevels /\ \A l \in AllLevels : l \in Nat
  BY <1>1 DEF AllLevels
<1>3. RootTag \in TagIds /\ Whole \in Spans
  BY <1>1 DEF RootTag, TagIds, Whole, Spans
<1>4. \A s \in Spans : /\ s = <<s[1], s[2]>> /\ s[1] \in 0..(NumWords - 1)
                       /\ s[2] \in 1..NumWords /\ s[1] < s[2]
  BY <1>1 DEF Spans
<1> QED  BY <1>1, <1>2, <1>3, <1>4 DEF Cells, RootCell

(* The subtags of a cell.                                                  *)
LEMMA SubShapes ==
  /\ \A c \in Cells, l \in AllLevels : NumSub[c[2]][l] \in Nat \ {0} /\ 0 \in SubIds(c, l)
  /\ \A c \in Cells : NumSub[c[2]][0] = 1 /\ SubIds(c, 0) = {0}
  /\ \A l \in AllLevels : SubIds(RootCell, l) = {0}
  /\ \A c \in Cells, l \in AllLevels \ {0} :
       /\ l - 1 \in AllLevels
       /\ Parent[c[2]][l] \in [SubIds(c, l) -> SubIds(c, l - 1)]
<1>1. \A c \in Cells : c[2] \in TagIds
  BY Shapes
<1>2. \A c \in Cells, l \in AllLevels : NumSub[c[2]][l] \in Nat \ {0}
  BY <1>1, HierarchyAssumption
<1>3. \A c \in Cells : NumSub[c[2]][0] = 1
  BY <1>1, HierarchyAssumption
<1>4. \A l \in AllLevels : NumSub[RootCell[2]][l] = 1
  BY Shapes, HierarchyAssumption
<1>5. \A l \in AllLevels \ {0} : l - 1 \in AllLevels
  BY Shapes DEF AllLevels
<1>6. \A c \in Cells, l \in AllLevels \ {0} : Parent[c[2]][l] \in [SubIds(c, l) -> SubIds(c, l - 1)]
  BY <1>1, HierarchyAssumption DEF SubIds
<1> QED  BY <1>2, <1>3, <1>4, <1>5, <1>6 DEF SubIds

(* The symbols of a level are its tags with their subtags.                 *)
LEMMA SymbolShapes ==
  ASSUME NEW l \in AllLevels, NEW S \in Symbols(l), NEW s \in Spans
  PROVE  /\ S = <<S[1], S[2]>> /\ S[1] \in TagIds /\ <<s, S[1]>> \in Cells
         /\ S[2] \in SubIds(<<s, S[1]>>, l)
<1>0. PICK t \in TagIds : \E i \in 0..(NumSub[t][l] - 1) : S = <<t, i>>
  BY DEF Symbols
<1>1. PICK i \in 0..(NumSub[t][l] - 1) : S = <<t, i>>
  BY <1>0
<1> QED  BY <1>1 DEF Cells, SubIds

-----------------------------------------------------------------------------
(* While a level is scored, its vectors and its model fit each other.      *)
Scoring == Own /\ pc \in Passes

(* Every vector of an allowed cell has the size of its subtags.            *)
LEMMA ScoringShapes ==
  ASSUME Scoring
  PROVE  /\ level \in AllLevels /\ Sized(level) /\ IsModel(Model, level)
         /\ \A c \in Cells : allowedTag[c] =>
              /\ allowedSub[c] \in [SubIds(c, level) -> BOOLEAN]
              /\ DOMAIN inside[c] = SubIds(c, level) /\ DOMAIN outside[c] = SubIds(c, level)
              /\ \A i \in SubIds(c, level) : inside[c][i] \in Nat /\ outside[c][i] \in Nat
<1>1. level \in AllLevels /\ Sized(level)
  BY DEF Scoring, Own, VectorsOK
<1>2. IsModel(Model, level)
  BY <1>1 DEF Scoring, Own, LoopOK, Passes, Model
<1>3. \A c \in Cells : /\ \A i \in DOMAIN inside[c] : inside[c][i] \in Nat
                       /\ \A i \in DOMAIN outside[c] : outside[c][i] \in Nat
  BY DEF Scoring, Own, TypesOK
<1> QED  BY <1>1, <1>2, <1>3 DEF Sized

(* A symbol in use over a span has its scores.                             *)
LEMMA UsableScores ==
  ASSUME Scoring, NEW s \in Spans, NEW S \in Symbols(level), Usable(<<s, S[1]>>, S)
  PROVE  inside[<<s, S[1]>>][S[2]] \in Nat /\ outside[<<s, S[1]>>][S[2]] \in Nat
BY ScoringShapes, SymbolShapes DEF Usable

(* The productive uses of the rules of a tag over a span.                  *)
LEMMA ProductiveShapes ==
  ASSUME Scoring, NEW s \in Spans, NEW t \in TagIds
  PROVE  /\ IsFiniteSet(Productive(s, t))
         /\ Productive(s, t) \subseteq (DOMAIN Model.bin) \X (0..NumWords)
         /\ \A u \in Productive(s, t) :
              /\ u[1] \in DOMAIN Model.bin /\ Model.bin[u[1]] \in Nat
              /\ u[1] \in Symbols(level) \X Symbols(level) \X Symbols(level)
              /\ u[1][1][1] = t /\ Usable(<<s, t>>, u[1][1])
              /\ s[1] < u[2] /\ u[2] < s[2] /\ u[2] \in Nat
              /\ <<s[1], u[2]>> \in Spans /\ <<u[2], s[2]>> \in Spans
              /\ Usable(<<<<s[1], u[2]>>, u[1][2][1]>>, u[1][2])
              /\ Usable(<<<<u[2], s[2]>>, u[1][3][1]>>, u[1][3])
              /\ LeftScore(s, u) \in Nat \ {0} /\ RightScore(s, u) \in Nat \ {0}
<1> DEFINE M == (s[1] + 1)..(s[2] - 1)
           R == DOMAIN Model.bin
<1>0. s[1] \in Nat /\ s[1] + 1 \in Int /\ s[2] \in Nat /\ s[2] - 1 \in Int
  BY Shapes
<1>1. /\ IsFiniteSet(R) /\ \A r \in R : Model.bin[r] \in Nat
      /\ \A r \in R : r \in Symbols(level) \X Symbols(level) \X Symbols(level)
  BY ScoringShapes DEF IsModel
<1>2. \A u \in BinaryUses(s, t) :
        /\ u \in R \X M /\ u = <<u[1], u[2]>> /\ u[1][1][1] = t
        /\ allowedTag[<<s, t>>] /\ allowedSub[<<s, t>>][u[1][1][2]]
        /\ Usable(<<<<s[1], u[2]>>, u[1][2][1]>>, u[1][2])
        /\ Usable(<<<<u[2], s[2]>>, u[1][3][1]>>, u[1][3])
  <2> TAKE u \in BinaryUses(s, t)
  <2> DEFINE split(r) == {m \in Mids(s[1], s[2], r[2][1], r[3][1]) :
                     /\ Usable(<<<<s[1], m>>, r[2][1]>>, r[2])
                     /\ Usable(<<<<m, s[2]>>, r[3][1]>>, r[3])
                     /\ m - s[1] > 1 => r[2][1] \notin Lexicals
                     /\ s[2] - m > 1 => r[3][1] \notin Lexicals}
  <2>1. /\ allowedTag[<<s, t>>]
        /\ u \in UNION {{<<r, m>> : m \in split(r)} :
               r \in {q \in DOMAIN Model.bin : q[1][1] = t /\ allowedSub[<<s, t>>][q[1][2]]}}
    BY DEF BinaryUses
  <2> HIDE DEF split
  <2>2. PICK r \in R : /\ r[1][1] = t /\ allowedSub[<<s, t>>][r[1][2]]
                       /\ \E m \in split(r) : u = <<r, m>>
    BY <2>1
  <2>3. PICK m \in split(r) : u = <<r, m>>
    BY <2>2
  <2>4. /\ m \in M
        /\ Usable(<<<<s[1], m>>, r[2][1]>>, r[2])
        /\ Usable(<<<<m, s[2]>>, r[3][1]>>, r[3])
    BY <2>3 DEF split, Mids
  <2> HIDE DEF M, R
  <2> QED  BY <2>1, <2>2, <2>3, <2>4
<1>3. IsFiniteSet(Productive(s, t))
  <2>1. IsFiniteSet(M)
    BY <1>0, FS_Interval
  <2>2. IsFiniteSet(R \X M)
    <3> HIDE DEF R, M
    <3> QED  BY <1>1, <2>1, FS_Product
  <2> HIDE DEF R, M
  <2>3. Productive(s, t) \in SUBSET (R \X M)
    BY <1>2 DEF Productive
  <2> QED  BY <2>2, <2>3, FS_Subset
<1>4. ASSUME NEW u \in Productive(s, t)
      PROVE  /\ u[1] \in R /\ u[2] \in M
             /\ <<s[1], u[2]>> \in Spans /\ <<u[2], s[2]>> \in Spans
  <2>1. u \in BinaryUses(s, t)
    BY DEF Productive
  <2>2. u[1] \in R /\ u[2] \in M
    <3> HIDE DEF R, M
    <3> QED  BY <1>2, <2>1
  <2>3. <<s[1], u[2]>> \in Spans /\ <<u[2], s[2]>> \in Spans
    BY <2>2, Shapes DEF Spans
  <2> QED  BY <2>2, <2>3
<1>5. ASSUME NEW u \in Productive(s, t)
      PROVE  LeftScore(s, u) \in Nat \ {0} /\ RightScore(s, u) \in Nat \ {0}
  <2>1. /\ u \in BinaryUses(s, t) /\ LeftScore(s, u) > 0 /\ RightScore(s, u) > 0
    BY DEF Productive
  <2>2. u[1][2] \in Symbols(level) /\ u[1][3] \in Symbols(level)
    BY <1>1, <1>4
  <2>3. LeftScore(s, u) \in Nat /\ RightScore(s, u) \in Nat
    BY <1>2, <1>4, <2>1, <2>2, UsableScores DEF LeftScore, RightScore
  <2> QED  BY <2>1, <2>3
<1>6. ASSUME NEW u \in Productive(s, t)
      PROVE  s[1] < u[2] /\ u[2] < s[2] /\ u[2] \in Nat
  <2>1. \A a, b \in Nat : \A m \in (a + 1)..(b - 1) : a < m /\ m < b /\ m \in Nat
    OBVIOUS
  <2>2. u[2] \in (s[1] + 1)..(s[2] - 1)
    BY <1>4
  <2> QED  BY <1>0, <2>1, <2>2
<1>7. \A u \in Productive(s, t) : u \in BinaryUses(s, t)
  BY DEF Productive
<1>8. ASSUME NEW u \in Productive(s, t)
      PROVE  /\ Model.bin[u[1]] \in Nat
             /\ u[1] \in Symbols(level) \X Symbols(level) \X Symbols(level)
             /\ u[1][1][1] = t /\ Usable(<<s, t>>, u[1][1])
             /\ Usable(<<<<s[1], u[2]>>, u[1][2][1]>>, u[1][2])
             /\ Usable(<<<<u[2], s[2]>>, u[1][3][1]>>, u[1][3])
  <2> HIDE DEF R, M
  <2>1. u[1] \in R /\ u \in BinaryUses(s, t)
    BY <1>4, <1>7
  <2>2. Model.bin[u[1]] \in Nat /\ u[1] \in Symbols(level) \X Symbols(level) \X Symbols(level)
    BY <1>1, <2>1
  <2> QED  BY <1>2, <2>1, <2>2 DEF Usable
<1>9. \A u \in Productive(s, t) : u[1] \in DOMAIN Model.bin
  BY <1>4
<1>10. Productive(s, t) \subseteq R \X (0..NumWords)
  <2> DEFINE W == 0..NumWords
  <2>1. M \subseteq W
    BY Shapes
  <2> HIDE DEF R, M, W
  <2>2. \A u \in Productive(s, t) : u \in R \X M
    BY <1>2, <1>7
  <2>3. R \X M \subseteq R \X W
    BY <2>1
  <2> QED  BY <2>2, <2>3 DEF W
<1> QED  BY <1>3, <1>4, <1>5, <1>6, <1>8, <1>9, <1>10

(* The score of a word or an abstract tag.                                 *)
LEMMA WordScores ==
  ASSUME Scoring, NEW b, NEW S PROVE Terminal(Model, b, S) \in Nat
<1>1. \A P, u : Entry(Model, P, u) \in Nat
  BY ScoringShapes DEF IsModel, Entry
<1> DEFINE unk(P) == [u \in UnkWords |-> Entry(Model, P, u)]
<1>2. ASSUME NEW P PROVE SumFunction(unk(P)) \in Nat
  <2>1. unk(P) \in [UnkWords -> Nat]
    BY <1>1
  <2> HIDE DEF unk
  <2> QED  BY <2>1, SmoothingAssumption, SumOfNaturals
<1>3. \A P, u : WordScore(Model, P, u) \in Nat
  <2> TAKE P, u
  <2>1. SmoothNum \in Nat /\ SmoothDen - SmoothNum \in Nat
    BY SmoothingAssumption
  <2> DEFINE e == Entry(Model, P, u)
             k == SumFunction(unk(P))
  <2>2. e \in Nat /\ k \in Nat
    BY <1>1, <1>2
  <2>3. WordScore(Model, P, u) = (SmoothDen - SmoothNum) * e + SmoothNum * k
    BY DEF WordScore, SumOver
  <2> HIDE DEF e, k, unk
  <2> QED  BY <2>1, <2>2, <2>3, Naturals
<1>4. WordScore(Model, S, Token(b).wid) \in Nat
  BY <1>3
<1> QED  BY <1>4 DEF Terminal

(* What the binary rules of a parent add up to.                            *)
LEMMA BinarySums ==
  ASSUME Scoring, NEW s \in Spans, NEW t \in TagIds
  PROVE  \A i : BinarySum(s, t, i) \in Nat
<1> TAKE i
<1> DEFINE D == {u \in Productive(s, t) : u[1][1][2] = i}
           f == [u \in D |-> Model.bin[u[1]] * LeftScore(s, u) * RightScore(s, u)]
<1>1. IsFiniteSet(D)
  BY ProductiveShapes, FS_Subset, D \in SUBSET Productive(s, t)
<1>2. f \in [D -> Nat]
  BY ProductiveShapes, Naturals
<1>3. SumFunction(f) \in Nat
  <2> HIDE DEF D, f
  <2> QED  BY <1>1, <1>2, SumOfNaturals
<1> QED  BY <1>3 DEF BinarySum, SumOver

(* Unary rules of two symbols in use over a span.                          *)
LEMMA UnaryShapes ==
  ASSUME Scoring, NEW s \in Spans
  PROVE  /\ IsFiniteSet(UnaryUses(s))
         /\ \A r \in UnaryUses(s) :
              /\ Model.una[r] \in Nat
              /\ r[1] \in Symbols(level) /\ r[2] \in Symbols(level)
              /\ Usable(<<s, r[1][1]>>, r[1]) /\ Usable(<<s, r[2][1]>>, r[2])
              /\ inside[<<s, r[2][1]>>][r[2][2]] \in Nat
              /\ outside[<<s, r[1][1]>>][r[1][2]] \in Nat
<1>1. /\ IsFiniteSet(DOMAIN Model.una)
      /\ \A r \in DOMAIN Model.una : Model.una[r] \in Nat /\ r \in Symbols(level) \X Symbols(level)
  BY ScoringShapes DEF IsModel
<1>2. UnaryUses(s) \in SUBSET DOMAIN Model.una
  BY DEF UnaryUses
<1>3. \A r \in UnaryUses(s) : Usable(<<s, r[1][1]>>, r[1]) /\ Usable(<<s, r[2][1]>>, r[2])
  BY DEF UnaryUses
<1>4. IsFiniteSet(UnaryUses(s))
  BY <1>1, <1>2, FS_Subset
<1>5. \A r \in UnaryUses(s) :
        /\ Model.una[r] \in Nat /\ r[1] \in Symbols(level) /\ r[2] \in Symbols(level)
  BY <1>1, <1>2
<1> QED  BY <1>3, <1>4, <1>5, UsableScores

(* What the unary rules of a symbol add up to, inside and outside.         *)
LEMMA UnarySums ==
  ASSUME Scoring, NEW s \in Spans
  PROVE  \A p : InsideUnaryDelta(s, p) \in Nat /\ OutsideUnaryDelta(s, p) \in Nat
<1> TAKE p
<1>1. InsideUnaryDelta(s, p) \in Nat
  <2> DEFINE D == {r \in UnaryUses(s) : r[1] = p /\ p[1] \notin Lexicals}
             f == [r \in D |-> Model.una[r] * inside[<<s, r[2][1]>>][r[2][2]]]
  <2>1. IsFiniteSet(D)
    BY UnaryShapes, FS_Subset, D \in SUBSET UnaryUses(s)
  <2>2. f \in [D -> Nat]
    BY UnaryShapes, Naturals
  <2>3. SumFunction(f) \in Nat
    <3> HIDE DEF D, f
    <3> QED  BY <2>1, <2>2, SumOfNaturals
  <2> QED  BY <2>3 DEF InsideUnaryDelta, SumOver
<1>2. OutsideUnaryDelta(s, p) \in Nat
  <2> DEFINE D == {r \in UnaryUses(s) : r[2] = p}
             f == [r \in D |-> Model.una[r] * outside[<<s, r[1][1]>>][r[1][2]]]
  <2>1. IsFiniteSet(D)
    BY UnaryShapes, FS_Subset, D \in SUBSET UnaryUses(s)
  <2>2. f \in [D -> Nat]
    BY UnaryShapes, Naturals
  <2>3. SumFunction(f) \in Nat
    <3> HIDE DEF D, f
    <3> QED  BY <2>1, <2>2, SumOfNaturals
  <2> QED  BY <2>3 DEF OutsideUnaryDelta, SumOver
<1> QED  BY <1>1, <1>2

(* The unary rules only add to the outside scores over a span.             *)
LEMMA AboveScores ==
  ASSUME Scoring, NEW s \in Spans, NEW c \in Cells
  PROVE  /\ DOMAIN AfterUnary(s)[c] = DOMAIN outside[c]
         /\ \A i \in DOMAIN outside[c] : AfterUnary(s)[c][i] \in Nat /\ AfterUnary(s)[c][i] >= outside[c][i]
<1>1. AfterUnary(s)[c] = IF c[1] = s /\ allowedTag[c]
        THEN [i \in DOMAIN outside[c] |-> outside[c][i] + OutsideUnaryDelta(s, <<c[2], i>>)]
        ELSE outside[c]
  BY DEF AfterUnary
<1>2. \A i \in DOMAIN outside[c] : outside[c][i] \in Nat
  BY DEF Scoring, Own, TypesOK
<1>3. \A i : OutsideUnaryDelta(s, <<c[2], i>>) \in Nat
  BY UnarySums
<1> QED  BY <1>1, <1>2, <1>3

(* So do the binary rules below it.                                        *)
LEMMA OutsideSums ==
  ASSUME Scoring, NEW s \in Spans, NEW c \in Cells, NEW i
  PROVE  OutsideBinaryDelta(s, AfterUnary(s), c, i) \in Nat
<1> DEFINE uses == UNION {Productive(s, t) : t \in TagIds}
           above == AfterUnary(s)
           top(u) == Model.bin[u[1]] * above[<<s, u[1][1][1]>>][u[1][1][2]]
           D == {u \in uses : c[1] = <<s[1], u[2]>> /\ u[1][2] = <<c[2], i>>}
           E == {u \in uses : c[1] = <<u[2], s[2]>> /\ u[1][3] = <<c[2], i>>}
           f == [u \in D |-> top(u) * RightScore(s, u)]
           g == [u \in E |-> top(u) * LeftScore(s, u)]
<1>1. IsFiniteSet(uses)
  <2> DEFINE R == DOMAIN Model.bin
             M == 0..NumWords
  <2>1. IsFiniteSet(R) /\ IsFiniteSet(M)
    BY Shapes, ScoringShapes, FS_Interval DEF IsModel
  <2>2. uses \in SUBSET (R \X M)
    <3>1. \A t \in TagIds : Productive(s, t) \subseteq R \X M
      BY ProductiveShapes
    <3> HIDE DEF R, M
    <3> QED  BY <3>1
  <2> HIDE DEF R, M, uses
  <2>3. IsFiniteSet(R \X M)
    BY <2>1, FS_Product
  <2> QED  BY <2>2, <2>3, FS_Subset
<1>2. ASSUME NEW u \in uses PROVE top(u) \in Nat /\ LeftScore(s, u) \in Nat /\ RightScore(s, u) \in Nat
  <2>1. PICK t \in TagIds : u \in Productive(s, t)
    OBVIOUS
  <2>2. /\ Model.bin[u[1]] \in Nat /\ u[1][1] \in Symbols(level) /\ u[1][1][1] = t
        /\ Usable(<<s, t>>, u[1][1]) /\ LeftScore(s, u) \in Nat /\ RightScore(s, u) \in Nat
    BY <2>1, ProductiveShapes, ZenonT(60)
  <2>3. <<s, t>> \in Cells /\ u[1][1][2] \in SubIds(<<s, t>>, level) /\ level \in AllLevels
    BY <2>2, SymbolShapes, ScoringShapes
  <2>4. u[1][1][2] \in DOMAIN outside[<<s, t>>]
    BY <2>2, <2>3, ScoringShapes DEF Usable
  <2>5. above[<<s, t>>][u[1][1][2]] \in Nat
    BY <2>3, <2>4, AboveScores
  <2> HIDE DEF above
  <2> QED  BY <2>2, <2>5, Naturals
<1> HIDE DEF uses, top
<1>3. IsFiniteSet(D) /\ IsFiniteSet(E)
  BY <1>1, FS_Subset, D \in SUBSET uses, E \in SUBSET uses
<1>4. f \in [D -> Nat] /\ g \in [E -> Nat]
  BY <1>2, Naturals
<1>5. SumFunction(f) \in Nat /\ SumFunction(g) \in Nat
  <2> HIDE DEF D, E, f, g
  <2> QED  BY <1>3, <1>4, SumOfNaturals
<1>6. OutsideBinaryDelta(s, AfterUnary(s), c, i) = SumFunction(f) + SumFunction(g)
  BY DEF OutsideBinaryDelta, SumOver, uses, top
<1> HIDE DEF f, g
<1> QED  BY <1>5, <1>6

-----------------------------------------------------------------------------
(* One lemma per action: the vectors, the scores and the loops.            *)

(* The parser starts with empty charts.                                    *)
LEMMA InitOwn == Init => Own
<1> SUFFICES ASSUME Init PROVE Own
  OBVIOUS
<1>1. DOMAIN NoVector = {}
  BY DEF NoVector, Vector
<1>2. extent \in [0..NumWords -> [TagIds -> ExtentType]]
  BY Shapes DEF Init, FreshExtents, FreshExtent, ExtentType
<1>3. TypesOK
  BY <1>1 DEF Init, TypesOK
<1>4. LoopOK
  BY Shapes DEF Init, LoopOK, FirstSpan
<1>5. VectorsOK
  BY <1>1, <1>2 DEF Init, VectorsOK, Passes
<1> QED  BY <1>3, <1>4, <1>5 DEF Own

(* Every model loaded has its coarse models.                               *)
LEMMA LoadOwn == Own /\ Load => Own'
<1> SUFFICES ASSUME Own, Load PROVE Own'
  OBVIOUS
<1>1. PICK m \in FinestModels : models' = ModelsOf(m)
  BY DEF Load
<1>2. \A l \in AllLevels : IsModel(models'[l], l)
  BY <1>1, LevelModels
<1>3. TypesOK' /\ VectorsOK'
  BY DEF Own, TypesOK, VectorsOK, Load, flags, control, history, Passes
<1>4. LoopOK'
  BY <1>2 DEF Own, LoopOK, Load
<1> QED  BY <1>3, <1>4 DEF Own

(* Actions that touch no chart.                                            *)
LEMMA ParseEmptyOwn == Own /\ ParseEmpty => Own'
BY DEF Own, TypesOK, LoopOK, VectorsOK, Passes, ParseEmpty, input, flags, history

(* A rejected level leaves its charts as they are.                         *)
LEMMA RejectLevelOwn == Own /\ RejectLevel => Own'
BY DEF Own, TypesOK, LoopOK, VectorsOK, Passes, RejectLevel, input, flags, history

(* Retrieval reads the charts only.                                        *)
LEMMA RetrieveOwn == Own /\ Retrieve => Own'
BY DEF Own, TypesOK, LoopOK, VectorsOK, Passes, Retrieve, input, flags, history

(* So does the decision to try again.                                      *)
LEMMA ReturnOwn == Own /\ Return => Own'
BY DEF Own, TypesOK, LoopOK, VectorsOK, Passes, Return, MayRetry, input, flags, history, control

(* Every attempt has charts of its own.                                    *)
LEMMA StartAttemptOwn == Own /\ StartAttempt => Own'
<1> SUFFICES ASSUME Own, StartAttempt PROVE Own'
  OBVIOUS
<1>1. DOMAIN NoVector = {}
  BY DEF NoVector, Vector
<1>2. /\ allowedTag' = [c \in Cells |-> FALSE] /\ allowedSub' = [c \in Cells |-> NoVector]
      /\ inside' = [c \in Cells |-> NoVector] /\ outside' = [c \in Cells |-> NoVector]
      /\ extent' = FreshExtents /\ pos' = FirstSpan /\ pc' = "charts" /\ pc = "call" /\ level' = 0
      /\ UNCHANGED <<sentence, threshold, models, retrievable>>
  BY DEF StartAttempt, FreshFlags, input, history
<1>3. extent' \in [0..NumWords -> [TagIds -> ExtentType]]
  BY <1>2, Shapes DEF FreshExtents, FreshExtent, ExtentType
<1>4. TypesOK'
  BY <1>1, <1>2 DEF Own, TypesOK
<1>5. LoopOK'
  BY <1>2, Shapes DEF Own, LoopOK, FirstSpan
<1>6. VectorsOK'
  BY <1>1, <1>2, <1>3 DEF VectorsOK, Passes
<1> QED  BY <1>4, <1>5, <1>6 DEF Own

(* The vectors of allowed cells take the size of the level.                *)
LEMMA InitializeChartsOwn == Own /\ InitializeCharts /\ level \in AllLevels => Own'
<1> SUFFICES ASSUME Own, InitializeCharts, level \in AllLevels PROVE Own'
  OBVIOUS
<1>1. /\ allowedTag' = [c \in Cells |-> level = 0 \/ allowedTag[c]]
      /\ allowedSub' = [c \in Cells |-> InitSub(c)]
      /\ inside' = [c \in Cells |-> InitScores(c)] /\ outside' = [c \in Cells |-> InitScores(c)]
      /\ extent' = [p \in 0..NumWords |-> [t \in TagIds |-> InitExtent(p, t)]]
      /\ pc = "charts" /\ pc' = "terminals"
      /\ UNCHANGED <<sentence, threshold, models, level, pos, retrievable>>
  BY DEF InitializeCharts, InitTags, InitSubs, InitCharts, InitExtents, input, control, history
<1>2. \A k, v : Vector(k, v) = [i \in 0..(k - 1) |-> v]
  BY DEF Vector
<1>12. \A v : Vector(1, v) = [i \in 0..0 |-> v]
  <2>1. 0..(1 - 1) = 0..0
    OBVIOUS
  <2> QED  BY <2>1 DEF Vector
<1>3. \A c \in Cells : \A i \in DOMAIN InitScores(c) : InitScores(c)[i] = 0
  BY <1>2 DEF InitScores, NoVector
<1>4. ASSUME NEW c \in Cells, level = 0 \/ allowedTag[c]
      PROVE  DOMAIN InitScores(c) = SubIds(c, level) /\ InitSub(c) \in [SubIds(c, level) -> BOOLEAN]
  <2>1. CASE level = 0
    <3>1. InitScores(c) = [i \in 0..0 |-> 0] /\ InitSub(c) = [i \in 0..0 |-> TRUE]
      BY <1>12, <2>1 DEF InitScores, InitSub
    <3>2. SubIds(c, level) = 0..0
      BY <2>1, SubShapes
    <3> QED  BY <3>1, <3>2
  <2>2. CASE level # 0
    <3>1. level > 0 /\ level \in AllLevels \ {0}
      BY <2>2, Shapes
    <3>2. DOMAIN InitScores(c) = SubIds(c, level)
      BY <1>2, <1>4, <2>2 DEF InitScores, SubIds
    <3>3. allowedSub[c] \in [SubIds(c, level - 1) -> BOOLEAN]
      BY <1>1, <1>4, <2>2, <3>1 DEF Own, VectorsOK, Sized
    <3>4. Parent[c[2]][level] \in [SubIds(c, level) -> SubIds(c, level - 1)]
      BY <3>1, SubShapes
    <3>5. InitSub(c) = [i \in SubIds(c, level) |-> allowedSub[c][Parent[c[2]][level][i]]]
      BY <1>4, <2>2 DEF InitSub, RefinedSub, SubIds
    <3> QED  BY <3>2, <3>3, <3>4, <3>5
  <2> QED  BY <2>1, <2>2
<1>5. Sized(level)'
  BY <1>1, <1>4 DEF Sized
<1>6. RootAllowed'
  <2>1. CASE level = 0
    <3>1. allowedTag'[RootCell] /\ allowedSub'[RootCell] = [i \in 0..0 |-> TRUE]
      BY <1>1, <1>12, <2>1, Shapes DEF InitSub
    <3> QED  BY <3>1 DEF RootAllowed, RootCell, Whole
  <2>2. CASE level # 0
    <3>1. level > 0 /\ level \in AllLevels \ {0}
      BY <2>2, Shapes
    <3>2. RootAllowed
      BY <1>1, <3>1 DEF Own, VectorsOK
    <3>3. Parent[RootCell[2]][level] \in [{0} -> {0}]
      BY <3>1, Shapes, SubShapes
    <3>4. Parent[RootCell[2]][level][0] = 0
      BY <3>3
    <3>5. 0 \in 0..(NumSub[RootCell[2]][level] - 1)
      BY Shapes, SubShapes DEF SubIds
    <3>6. allowedSub'[RootCell][0]
      BY <1>1, <2>2, <3>2, <3>4, <3>5, Shapes DEF RootAllowed, InitSub, RefinedSub
    <3>7. allowedTag'[RootCell]
      BY <1>1, <3>2, Shapes DEF RootAllowed
    <3> QED  BY <3>6, <3>7 DEF RootAllowed, RootCell, Whole
  <2> QED  BY <2>1, <2>2
<1>7. extent' \in [0..NumWords -> [TagIds -> ExtentType]]
  <2>1. ASSUME NEW p \in 0..NumWords, NEW t \in TagIds PROVE InitExtent(p, t) \in ExtentType
    <3>1. extent[p][t] \in ExtentType
      BY DEF Own, VectorsOK
    <3> QED  BY <3>1, Shapes DEF InitExtent, ExtentType
  <2> QED  BY <1>1, <2>1
<1>8. \A c \in Cells : DOMAIN allowedSub'[c] \subseteq AllSubIds
  <2> TAKE c \in Cells
  <2>1. CASE level = 0 \/ allowedTag[c]
    BY <1>1, <1>4, <2>1 DEF AllSubIds
  <2>2. CASE ~(level = 0 \/ allowedTag[c])
    BY <1>1, <2>2 DEF InitSub, Own, VectorsOK
  <2> QED  BY <2>1, <2>2
<1>9. TypesOK'
  BY <1>1, <1>3 DEF Own, TypesOK
<1>10. LoopOK'
  BY <1>1 DEF Own, LoopOK
<1>11. VectorsOK'
  BY <1>1, <1>5, <1>6, <1>7, <1>8 DEF VectorsOK
<1> QED  BY <1>9, <1>10, <1>11 DEF Own

(* A pass over the charts changes scores, and no size.                     *)
LEMMA SameSizes ==
  ASSUME Own, pc \in Passes, UNCHANGED <<allowedTag, allowedSub, level>>,
         \A c \in Cells : /\ DOMAIN inside'[c] = DOMAIN inside[c]
                          /\ DOMAIN outside'[c] = DOMAIN outside[c]
  PROVE  /\ level' \in AllLevels /\ Sized(level)' /\ RootAllowed'
         /\ \A c \in Cells : DOMAIN allowedSub'[c] \subseteq AllSubIds
<1>1. level \in AllLevels /\ Sized(level) /\ RootAllowed
  BY DEF Own, VectorsOK
<1>2. Sized(level)'
  BY <1>1 DEF Sized
<1> QED  BY <1>1, <1>2 DEF RootAllowed, Own, VectorsOK

(* The words' scores.                                                      *)
LEMMA SetTerminalsOwn == Own /\ SetTerminals => Own'
<1> SUFFICES ASSUME Own, SetTerminals PROVE Own'
  OBVIOUS
<1>1. /\ inside' = TerminalScores /\ pos' = FirstSpan /\ pc = "terminals" /\ pc' = "unary"
      /\ UNCHANGED <<sentence, models, threshold, level, allowedTag, allowedSub,
                     outside, extent, retrievable>>
  BY DEF SetTerminals, input, control, flags, history
<1>2. Scoring
  BY <1>1 DEF Scoring, Passes
<1>3. \A c \in Cells : /\ DOMAIN inside'[c] = DOMAIN inside[c]
                       /\ \A i \in DOMAIN inside[c] : inside'[c][i] \in Nat
  <2> TAKE c \in Cells
  <2>1. inside'[c] = IF c[1][2] = c[1][1] + 1 /\ allowedTag[c]
          THEN [i \in DOMAIN inside[c] |->
                  IF allowedSub[c][i] THEN Terminal(Model, c[1][1], <<c[2], i>>) ELSE 0]
          ELSE inside[c]
    BY <1>1 DEF TerminalScores
  <2>2. \A i : Terminal(Model, c[1][1], <<c[2], i>>) \in Nat
    BY <1>2, WordScores
  <2>3. \A i \in DOMAIN inside[c] : inside[c][i] \in Nat
    BY DEF Own, TypesOK
  <2> QED  BY <2>1, <2>2, <2>3
<1>4. TypesOK'
  BY <1>1, <1>3 DEF Own, TypesOK, TerminalScores
<1>5. LoopOK'
  BY <1>1, Shapes DEF Own, LoopOK, FirstSpan
<1>6. VectorsOK'
  BY <1>1, <1>2, <1>3, SameSizes DEF Scoring, Own, VectorsOK, Passes
<1> QED  BY <1>4, <1>5, <1>6 DEF Own

(* The span of a loop is one of the sentence, and so is the next one.      *)
LEMMA LoopSpans ==
  ASSUME Own, pc \in {"unary", "binary", "outside"}
  PROVE  /\ Span \in Spans /\ Scoring
         /\ NextSpan(pos) \in [len : 0..(NumWords + 1), begin : 0..(NumWords - 1), tag : 0..NumTags]
         /\ NextSpan(pos).tag = 0
         /\ NextSpan(pos).len > NumWords \/ NextSpan(pos).begin + NextSpan(pos).len <= NumWords
         /\ NextSpan(pos).len >= 1
         /\ PreviousSpan(pos) \in [len : 0..(NumWords + 1), begin : 0..(NumWords - 1), tag : 0..NumTags]
         /\ PreviousSpan(pos).len \in 0..NumWords
         /\ PreviousSpan(pos).begin + PreviousSpan(pos).len <= NumWords
<1>1. /\ pos \in [len : 0..(NumWords + 1), begin : 0..(NumWords - 1), tag : 0..NumTags]
      /\ pos.len \in 1..NumWords /\ pos.begin + pos.len <= NumWords
  BY DEF Own, LoopOK
<1>2. PICK k \in 1..NumWords, b \in 0..(NumWords - 1), t \in 0..NumTags :
        pos = [len |-> k, begin |-> b, tag |-> t]
  BY <1>1
<1>3. b + k <= NumWords
  BY <1>1, <1>2
<1>4. Span \in Spans
  BY <1>2, <1>3, Shapes DEF Span, Spans
<1>5. CASE b + k < NumWords
  <2>1. NextSpan(pos) = [len |-> k, begin |-> b + 1, tag |-> 0]
    BY <1>2, <1>5 DEF NextSpan
  <2>2. PreviousSpan(pos) = [len |-> k, begin |-> b + 1, tag |-> t]
    BY <1>2, <1>5 DEF PreviousSpan
  <2>3. b + 1 \in 0..(NumWords - 1) /\ b + 1 + k <= NumWords
    BY <1>5, Shapes
  <2> QED  BY <1>4, <2>1, <2>2, <2>3, Shapes DEF Scoring, Passes
<1>6. CASE ~(b + k < NumWords)
  <2>1. NextSpan(pos) = [len |-> k + 1, begin |-> 0, tag |-> 0]
    BY <1>2, <1>6 DEF NextSpan
  <2>2. PreviousSpan(pos) = [len |-> k - 1, begin |-> 0, tag |-> t]
    BY <1>2, <1>6 DEF PreviousSpan
  <2> QED  BY <1>4, <2>1, <2>2, Shapes DEF Scoring, Passes
<1> QED  BY <1>5, <1>6

(* The extents stay between the ends of the sentence.                      *)
LEMMA WidenedExtents ==
  ASSUME extent \in [0..NumWords -> [TagIds -> ExtentType]], NEW s \in Spans, NEW t \in TagIds
  PROVE  Widened(s, t) \in [0..NumWords -> [TagIds -> ExtentType]]
<1> DEFINE left == extent[s[2]][t]
           right == extent[s[1]][t]
           newLeft == IF s[1] > left.nl THEN [left EXCEPT !.nl = s[1], !.wl = s[1]]
                      ELSE IF s[1] < left.wl THEN [left EXCEPT !.wl = s[1]] ELSE left
           newRight == IF s[2] < right.nr THEN [right EXCEPT !.nr = s[2], !.wr = s[2]]
                       ELSE IF s[2] > right.wr THEN [right EXCEPT !.wr = s[2]] ELSE right
<1>1. /\ s[1] \in 0..(NumWords - 1) /\ s[2] \in 1..NumWords
      /\ s[1] \in 0..NumWords /\ s[2] \in 0..NumWords
  BY Shapes
<1>2. left \in ExtentType /\ right \in ExtentType
  BY <1>1
<1>3. newLeft \in ExtentType
  <2>1. s[1] \in -1..(NumWords - 1) /\ s[1] \in 0..(NumWords + 1)
    BY <1>1, Shapes
  <2> HIDE DEF left
  <2>2. [left EXCEPT !.nl = s[1], !.wl = s[1]] \in ExtentType
    BY <1>2, <2>1 DEF ExtentType
  <2>3. [left EXCEPT !.wl = s[1]] \in ExtentType
    BY <1>2, <2>1 DEF ExtentType
  <2> QED  BY <1>2, <2>2, <2>3
<1>4. newRight \in ExtentType
  <2>1. s[2] \in 1..(NumWords + 1) /\ s[2] \in -1..NumWords
    BY <1>1, Shapes
  <2> HIDE DEF right
  <2>2. [right EXCEPT !.nr = s[2], !.wr = s[2]] \in ExtentType
    BY <1>2, <2>1 DEF ExtentType
  <2>3. [right EXCEPT !.wr = s[2]] \in ExtentType
    BY <1>2, <2>1 DEF ExtentType
  <2> QED  BY <1>2, <2>2, <2>3
<1>5. Widened(s, t) = [extent EXCEPT ![s[2]][t] = newLeft, ![s[1]][t] = newRight]
  BY DEF Widened
<1> HIDE DEF left, right, newLeft, newRight
<1> QED  BY <1>1, <1>3, <1>4, <1>5

(* The binary rules of one parent.                                         *)
LEMMA InsideBinaryOwn == Own /\ InsideBinary => Own'
<1> SUFFICES ASSUME Own, InsideBinary PROVE Own'
  OBVIOUS
<1>1. /\ inside' = BinaryScores /\ extent' = BinaryExtents /\ pos' = [pos EXCEPT !.tag = @ + 1]
      /\ pc = "binary" /\ pc' = IF pos.tag = NumTags - 1 THEN "unary" ELSE "binary"
      /\ UNCHANGED <<sentence, models, threshold, level, allowedTag, allowedSub,
                     outside, retrievable>>
  BY DEF InsideBinary, input, control, flags, history
<1>2. Span \in Spans /\ Scoring /\ pos.tag \in TagIds
  <2>1. pos.tag < NumTags /\ pos.tag \in 0..NumTags
    BY <1>1 DEF Own, LoopOK
  <2> QED  BY <1>1, <2>1, LoopSpans, Shapes DEF TagIds
<1> DEFINE c0 == <<Span, pos.tag>>
<1>3. \A i : BinarySum(Span, pos.tag, i) \in Nat
  BY <1>2, BinarySums
<1>4. \A c \in Cells : /\ DOMAIN inside'[c] = DOMAIN inside[c]
                       /\ \A i \in DOMAIN inside[c] : inside'[c][i] \in Nat
  <2> TAKE c \in Cells
  <2>1. \A i \in DOMAIN inside[c] : inside[c][i] \in Nat
    BY DEF Own, TypesOK
  <2>2. \/ inside'[c] = inside[c]
        \/ inside'[c] = [i \in DOMAIN inside[c] |->
             IF allowedSub[c][i] THEN BinarySum(Span, pos.tag, i) ELSE inside[c][i]]
    <3>1. DOMAIN inside = Cells
      BY DEF Own, TypesOK
    <3> QED  BY <1>1, <3>1 DEF BinaryScores
  <2> QED  BY <1>3, <2>1, <2>2
<1>5. DOMAIN inside' = Cells
  BY <1>1 DEF Own, TypesOK, BinaryScores
<1>6. extent' \in [0..NumWords -> [TagIds -> ExtentType]]
  BY <1>1, <1>2, WidenedExtents DEF BinaryExtents, Own, VectorsOK
<1>7. TypesOK'
  BY <1>1, <1>4, <1>5 DEF Own, TypesOK
<1>8. LoopOK'
  <2>1. PICK k \in 0..(NumWords + 1), b \in 0..(NumWords - 1), t \in 0..NumTags :
          pos = [len |-> k, begin |-> b, tag |-> t]
    BY DEF Own, LoopOK
  <2>2. pos' = [len |-> k, begin |-> b, tag |-> t + 1]
    BY <1>1, <2>1
  <2>3. k \in 1..NumWords /\ b + k <= NumWords /\ t \in 0..(NumTags - 1)
    BY <1>1, <1>2, <2>1 DEF Own, LoopOK, TagIds
  <2>4. t + 1 \in 0..NumTags /\ (t # NumTags - 1 => t + 1 < NumTags)
    BY <2>3, Shapes
  <2> QED  BY <1>1, <2>1, <2>2, <2>3, <2>4 DEF Own, LoopOK
<1>9. VectorsOK'
  BY <1>1, <1>2, <1>4, <1>6, SameSizes DEF Scoring, Own, VectorsOK, Passes
<1> QED  BY <1>7, <1>8, <1>9 DEF Own

(* The unary rules over a span.                                            *)
LEMMA InsideUnaryOwn == Own /\ InsideUnary => Own'
<1> SUFFICES ASSUME Own, InsideUnary PROVE Own'
  OBVIOUS
<1>1. /\ inside' = UnaryScores /\ pos' = NextSpan(pos) /\ pc = "unary"
      /\ pc' = IF pos'.len > NumWords THEN "score" ELSE IF pos'.len = 1 THEN "unary" ELSE "binary"
      /\ UNCHANGED <<sentence, models, threshold, level, allowedTag, allowedSub,
                     outside, extent, retrievable>>
  BY DEF InsideUnary, input, control, flags, history
<1>2. Span \in Spans /\ Scoring
  BY <1>1, LoopSpans
<1>3. \A c \in Cells : /\ DOMAIN inside'[c] = DOMAIN inside[c]
                       /\ \A i \in DOMAIN inside[c] : inside'[c][i] \in Nat
  <2> TAKE c \in Cells
  <2>1. \A i \in DOMAIN inside[c] : inside[c][i] \in Nat
    BY DEF Own, TypesOK
  <2>2. inside'[c] = IF c[1] = Span /\ allowedTag[c]
          THEN [i \in DOMAIN inside[c] |-> inside[c][i] + InsideUnaryDelta(Span, <<c[2], i>>)]
          ELSE inside[c]
    BY <1>1 DEF UnaryScores
  <2>3. \A p : InsideUnaryDelta(Span, p) \in Nat
    BY <1>2, UnarySums
  <2> QED  BY <2>1, <2>2, <2>3
<1>4. TypesOK'
  BY <1>1, <1>3 DEF Own, TypesOK, UnaryScores
<1>5. LoopOK'
  <2>1. /\ pos' \in [len : 0..(NumWords + 1), begin : 0..(NumWords - 1), tag : 0..NumTags]
        /\ pos'.tag = 0 /\ pos'.len >= 1
        /\ pos'.len > NumWords \/ pos'.begin + pos'.len <= NumWords
    BY <1>1, LoopSpans
  <2>2. pos'.len <= NumWords => pos'.len \in 1..NumWords
    BY <2>1, Shapes
  <2> QED  BY <1>1, <2>1, <2>2, Shapes DEF Own, LoopOK
<1>6. VectorsOK'
  BY <1>1, <1>2, <1>3, SameSizes DEF Scoring, Own, VectorsOK, Passes
<1> QED  BY <1>4, <1>5, <1>6 DEF Own

(* The outside pass starts from 1 at ROOT over the sentence.               *)
LEMMA AcceptLevelOwn == Own /\ AcceptLevel => Own'
<1> SUFFICES ASSUME Own, AcceptLevel PROVE Own'
  OBVIOUS
<1>1. /\ outside' = [outside EXCEPT ![RootCell][0] = 1] /\ pos' = LastSpan
      /\ pc = "score" /\ pc' = "outside"
      /\ UNCHANGED <<sentence, models, threshold, level, allowedTag, allowedSub,
                     inside, extent, retrievable>>
  BY DEF AcceptLevel, input, control, flags, history
<1>2. Scoring /\ DOMAIN outside = Cells /\ RootCell \in Cells /\ allowedTag[RootCell] /\ level \in AllLevels
  BY <1>1, Shapes DEF Scoring, Passes, Own, TypesOK, VectorsOK, RootAllowed
<1>3. 0 \in DOMAIN outside[RootCell]
  BY <1>2, ScoringShapes, SubShapes
<1>4. \A c \in Cells : outside'[c] = IF c = RootCell THEN [outside[c] EXCEPT ![0] = 1] ELSE outside[c]
  BY <1>1, <1>2
<1>5. \A c \in Cells : /\ DOMAIN outside'[c] = DOMAIN outside[c]
                       /\ \A i \in DOMAIN outside[c] : outside'[c][i] \in Nat
  <2> TAKE c \in Cells
  <2>1. \A i \in DOMAIN outside[c] : outside[c][i] \in Nat
    BY DEF Own, TypesOK
  <2>2. DOMAIN outside'[c] = DOMAIN outside[c]
    BY <1>4
  <2>3. ASSUME NEW i \in DOMAIN outside[c] PROVE outside'[c][i] = 1 \/ outside'[c][i] = outside[c][i]
    BY <1>4
  <2> QED  BY <2>1, <2>2, <2>3
<1>6. outside'[RootCell][0] = 1
  BY <1>2, <1>3, <1>4
<1>7. TypesOK'
  BY <1>1, <1>5 DEF Own, TypesOK
<1>8. LoopOK'
  BY <1>1, Shapes DEF Own, LoopOK, LastSpan
<1>9. VectorsOK'
  <2>1. outside'[RootCell'][0] >= 1
    BY <1>6 DEF RootCell, Whole
  <2> QED  BY <1>1, <1>2, <1>5, <2>1, SameSizes DEF Scoring, Own, VectorsOK, Passes
<1> QED  BY <1>7, <1>8, <1>9 DEF Own

(* The rules add to the outside scores below a span.                       *)
LEMMA OutsideSpanOwn == Own /\ OutsideSpan => Own'
<1> SUFFICES ASSUME Own, OutsideSpan PROVE Own'
  OBVIOUS
<1>1. /\ outside' = OutsideScores /\ pos' = PreviousSpan(pos) /\ pc = "outside"
      /\ pc' = IF pos'.len = 0 THEN "prune" ELSE "outside"
      /\ UNCHANGED <<sentence, models, threshold, level, allowedTag, allowedSub,
                     inside, extent, retrievable>>
  BY DEF OutsideSpan, input, control, flags, history
<1>2. Span \in Spans /\ Scoring
  BY <1>1, LoopSpans
<1>3. \A c \in Cells : /\ DOMAIN outside'[c] = DOMAIN outside[c]
                       /\ \A i \in DOMAIN outside[c] : outside'[c][i] \in Nat /\ outside'[c][i] >= outside[c][i]
  <2> TAKE c \in Cells
  <2> DEFINE above == AfterUnary(Span)
  <2>1. outside'[c] = IF Within(Span, c) /\ allowedTag[c]
          THEN [i \in DOMAIN outside[c] |-> above[c][i] + OutsideBinaryDelta(Span, above, c, i)]
          ELSE above[c]
    BY <1>1 DEF OutsideScores
  <2>2. \A i : OutsideBinaryDelta(Span, above, c, i) \in Nat
    BY <1>2, OutsideSums
  <2>3. /\ DOMAIN above[c] = DOMAIN outside[c]
        /\ \A i \in DOMAIN outside[c] : above[c][i] \in Nat /\ above[c][i] >= outside[c][i]
    BY <1>2, AboveScores
  <2>4. \A i \in DOMAIN outside[c] : outside[c][i] \in Nat
    BY DEF Own, TypesOK
  <2> HIDE DEF above
  <2> QED  BY <2>1, <2>2, <2>3, <2>4
<1>4. TypesOK'
  BY <1>1, <1>3 DEF Own, TypesOK, OutsideScores
<1>5. LoopOK'
  <2>1. /\ pos' \in [len : 0..(NumWords + 1), begin : 0..(NumWords - 1), tag : 0..NumTags]
        /\ pos'.len \in 0..NumWords /\ pos'.begin + pos'.len <= NumWords
    BY <1>1, LoopSpans
  <2>2. pos'.len # 0 => pos'.len \in 1..NumWords
    BY <2>1, Shapes
  <2> QED  BY <1>1, <2>1, <2>2 DEF Own, LoopOK
<1>6. outside'[RootCell][0] >= 1
  <2>1. 0 \in DOMAIN outside[RootCell]
    <3>1. allowedTag[RootCell] /\ level \in AllLevels
      BY <1>1 DEF Own, VectorsOK, RootAllowed, Passes
    <3> QED  BY <1>2, <3>1, Shapes, SubShapes, ScoringShapes
  <2>2. outside[RootCell][0] >= 1 /\ outside[RootCell][0] \in Nat
    BY <1>1, <2>1, Shapes DEF Own, VectorsOK, TypesOK
  <2> QED  BY <1>3, <2>1, <2>2, Shapes
<1>7. VectorsOK'
  <2>1. outside'[RootCell'][0] >= 1
    BY <1>6 DEF RootCell, Whole
  <2> QED  BY <1>1, <1>2, <1>3, <2>1, SameSizes DEF Scoring, Own, VectorsOK, Passes
<1> QED  BY <1>4, <1>5, <1>7 DEF Own

(* The product of the scores of ROOT over the sentence is at least the     *)
(* score of the sentence, and the threshold at most 1.                     *)
LEMMA RootKept ==
  ASSUME Own, pc = "prune"
  PROVE  /\ Kept(RootCell, 0)
         /\ 0 \in DOMAIN allowedSub[RootCell] /\ PrunedSub[RootCell][0] /\ PrunedTag[RootCell]
<1>1. Scoring
  BY DEF Scoring, Passes
<1>2. allowedTag[RootCell] /\ allowedSub[RootCell][0] /\ outside[RootCell][0] >= 1
  BY <1>1 DEF Scoring, Own, VectorsOK, RootAllowed
<1>3. /\ 0 \in DOMAIN allowedSub[RootCell] /\ inside[RootCell][0] \in Nat
      /\ outside[RootCell][0] \in Nat
  BY <1>1, <1>2, Shapes, SubShapes, ScoringShapes
<1>4. threshold \in 0..ThresholdDen /\ ThresholdDen \in Nat
  BY InputAssumption DEF Own, TypesOK
<1>5. Kept(RootCell, 0)
  <2> DEFINE i == inside[RootCell][0]
             o == outside[RootCell][0]
  <2>1. i \in Nat /\ o \in Nat /\ o >= 1
    BY <1>2, <1>3
  <2>2. i * o >= i /\ i * o \in Nat
    <3> HIDE DEF i, o
    <3> QED  BY <2>1
  <2>3. \A j, k \in Nat : k >= j => k * ThresholdDen >= threshold * j
    <3> SUFFICES ASSUME NEW j \in Nat, NEW k \in Nat, k >= j PROVE k * ThresholdDen >= threshold * j
      OBVIOUS
    <3>1. k * ThresholdDen >= j * ThresholdDen
      BY <1>4
    <3>2. j * ThresholdDen >= j * threshold
      BY <1>4
    <3> QED  BY <1>4, <3>1, <3>2
  <2>4. i * o * ThresholdDen >= threshold * i
    <3> HIDE DEF i, o
    <3> QED  BY <2>1, <2>2, <2>3
  <2> QED  BY <2>4 DEF Kept, SentenceScore
<1>6. PrunedSub[RootCell] = [s \in DOMAIN allowedSub[RootCell] |-> allowedSub[RootCell][s] /\ Kept(RootCell, s)]
  BY <1>2, Shapes DEF PrunedSub
<1>7. PrunedSub[RootCell][0] /\ 0 \in DOMAIN PrunedSub[RootCell]
  BY <1>2, <1>3, <1>5, <1>6
<1>8. PrunedTag[RootCell]
  BY <1>2, <1>7, Shapes DEF PrunedTag
<1> QED  BY <1>3, <1>5, <1>7, <1>8

(* Pruning takes flags away, and not the one of ROOT over the sentence.    *)
LEMMA PruneChartsOwn == Own /\ PruneCharts => Own'
<1> SUFFICES ASSUME Own, PruneCharts PROVE Own'
  OBVIOUS
<1>1. /\ allowedTag' = PrunedTag /\ allowedSub' = PrunedSub /\ level' = level + 1
      /\ pc = "prune" /\ pc' = IF level = target THEN "retrieve" ELSE "charts"
      /\ retrievable' = retrievable \cup (IF CanRetrieve(PrunedTag, PrunedSub) THEN {level} ELSE {})
      /\ UNCHANGED <<sentence, models, threshold, inside, outside, extent, pos>>
  BY DEF PruneCharts, input
<1>2. Scoring /\ level \in AllLevels /\ level \in Nat
  BY <1>1, Shapes DEF Scoring, Passes, Own, VectorsOK
<1>3. \A c \in Cells : DOMAIN allowedSub'[c] = DOMAIN allowedSub[c]
  BY <1>1 DEF PrunedSub
<1>4. \A c \in Cells : allowedTag'[c] \in BOOLEAN /\ (allowedTag'[c] => allowedTag[c])
  BY <1>1 DEF PrunedTag, Own, TypesOK
<1>5. \A c \in Cells : allowedTag'[c] => allowedSub'[c] \in [SubIds(c, level) -> BOOLEAN]
  <2> SUFFICES ASSUME NEW c \in Cells, allowedTag'[c] PROVE allowedSub'[c] \in [SubIds(c, level) -> BOOLEAN]
    OBVIOUS
  <2>1. allowedSub[c] \in [SubIds(c, level) -> BOOLEAN] /\ allowedTag[c]
    BY <1>2, <1>4, ScoringShapes
  <2>2. allowedSub'[c] = [s \in DOMAIN allowedSub[c] |-> allowedSub[c][s] /\ Kept(c, s)]
    BY <1>1, <2>1 DEF PrunedSub
  <2> QED  BY <2>1, <2>2
<1>6. RootAllowed'
  <2>1. allowedTag'[RootCell] /\ allowedSub'[RootCell][0]
    BY <1>1, RootKept
  <2> QED  BY <2>1 DEF RootAllowed, RootCell, Whole
<1>7. \A c \in Cells : allowedTag'[c] =>
        DOMAIN inside'[c] = SubIds(c, level) /\ DOMAIN outside'[c] = SubIds(c, level)
  BY <1>1, <1>2, <1>4, ScoringShapes
<1>8. Sized(level - 1)'
  <2>1. level' - 1 = level
    BY <1>1, <1>2
  <2> QED  BY <1>5, <1>7, <2>1 DEF Sized, SubIds
<1>9. TypesOK'
  <2>1. allowedTag' \in [Cells -> BOOLEAN]
    BY <1>1, <1>4 DEF PrunedTag
  <2>2. DOMAIN allowedSub' = Cells
    BY <1>1 DEF PrunedSub
  <2>3. retrievable' \subseteq AllLevels
    BY <1>1, <1>2 DEF Own, TypesOK
  <2> QED  BY <1>1, <2>1, <2>2, <2>3 DEF Own, TypesOK
<1>10. LoopOK'
  BY <1>1 DEF Own, LoopOK
<1>11. VectorsOK'
  <2>1. \A c \in Cells : DOMAIN allowedSub'[c] \subseteq AllSubIds
    BY <1>3 DEF Own, VectorsOK
  <2>2. pc' \notin Passes /\ pc' \notin {"outside", "prune"}
    BY <1>1 DEF Passes
  <2> QED  BY <1>1, <1>6, <1>8, <2>1, <2>2 DEF Own, VectorsOK
<1> QED  BY <1>9, <1>10, <1>11 DEF Own

(* A configuration of the level loop, and the operators of the parser there *)
At(q) == INSTANCE ChartParser
           WITH pc <- q.pc, level <- q.level, pos <- q.pos,
                allowedTag <- q.allowedTag, allowedSub <- q.allowedSub,
                inside <- q.inside, outside <- q.outside, extent <- q.extent,
                sentence <- q.sentence, models <- q.models, threshold <- q.threshold,
                fine <- 0, attempt <- 0, target <- 0, result <- 0, seen <- 0, retrievable <- {}

Here == [pc |-> pc, level |-> level, pos |-> pos, allowedTag |-> allowedTag,
         allowedSub |-> allowedSub, inside |-> inside, outside |-> outside, extent |-> extent,
         sentence |-> sentence, models |-> models, threshold |-> threshold]

Start == [pc |-> "charts", level |-> 0, pos |-> FirstSpan,
          allowedTag |-> [c \in Cells |-> FALSE], allowedSub |-> [c \in Cells |-> NoVector],
          inside |-> [c \in Cells |-> NoVector], outside |-> [c \in Cells |-> NoVector],
          extent |-> FreshExtents,
          sentence |-> sentence, models |-> models, threshold |-> threshold]

Config(q, stage, l, p, tag, sub, in, out, ext) ==
  [pc |-> stage, level |-> l, pos |-> p, allowedTag |-> tag, allowedSub |-> sub,
   inside |-> in, outside |-> out, extent |-> ext,
   sentence |-> q.sentence, models |-> q.models, threshold |-> q.threshold]

(* What the step out of a configuration leads to.                          *)
AfterCharts(q) ==
  Config(q, "terminals", q.level, q.pos, At(q)!InitTags, At(q)!InitSubs,
         At(q)!InitCharts, At(q)!InitCharts, At(q)!InitExtents)

AfterTerminals(q) ==
  Config(q, "unary", q.level, FirstSpan, q.allowedTag, q.allowedSub,
         At(q)!TerminalScores, q.outside, q.extent)

AfterUnaryPass(q) ==
  LET p == NextSpan(q.pos)
  IN  Config(q, IF p.len > NumWords THEN "score" ELSE IF p.len = 1 THEN "unary" ELSE "binary",
             q.level, p, q.allowedTag, q.allowedSub, At(q)!UnaryScores, q.outside, q.extent)

AfterBinaryPass(q) ==
  Config(q, IF q.pos.tag = NumTags - 1 THEN "unary" ELSE "binary",
         q.level, [q.pos EXCEPT !.tag = @ + 1], q.allowedTag, q.allowedSub,
         At(q)!BinaryScores, q.outside, At(q)!BinaryExtents)

AfterScore(q) ==
  IF q.inside[RootCell][0] = 0 THEN q
  ELSE Config(q, "outside", q.level, LastSpan, q.allowedTag, q.allowedSub,
              q.inside, [q.outside EXCEPT ![RootCell][0] = 1], q.extent)

AfterOutside(q) ==
  LET p == PreviousSpan(q.pos)
  IN  Config(q, IF p.len = 0 THEN "prune" ELSE "outside", q.level, p,
             q.allowedTag, q.allowedSub, q.inside, At(q)!OutsideScores, q.extent)

AfterPrune(q) ==
  Config(q, "charts", q.level + 1, q.pos, At(q)!PrunedTag, At(q)!PrunedSub,
         q.inside, q.outside, q.extent)

After(q) ==
  CASE q.pc = "charts" -> AfterCharts(q)
    [] q.pc = "terminals" -> AfterTerminals(q)
    [] q.pc = "unary" -> AfterUnaryPass(q)
    [] q.pc = "binary" -> AfterBinaryPass(q)
    [] q.pc = "score" -> AfterScore(q)
    [] q.pc = "outside" -> AfterOutside(q)
    [] q.pc = "prune" -> AfterPrune(q)
    [] OTHER -> q

(* The levels only go up; a rejected configuration is the last.            *)
LEMMA AfterLevel ==
  ASSUME NEW q
  PROVE  /\ q.pc # "prune" => After(q).level = q.level
         /\ q.pc = "prune" => After(q).level = q.level + 1
         /\ q.pc = "score" /\ q.inside[RootCell][0] = 0 => After(q) = q
<1> DEFINE Pcs == {"charts", "terminals", "unary", "binary", "score", "outside", "prune"}
<1>1. CASE q.pc = "charts"
  BY <1>1 DEF After, AfterCharts, Config
<1>2. CASE q.pc = "terminals"
  BY <1>2 DEF After, AfterTerminals, Config
<1>3. CASE q.pc = "unary"
  BY <1>3 DEF After, AfterUnaryPass, Config
<1>4. CASE q.pc = "binary"
  BY <1>4 DEF After, AfterBinaryPass, Config
<1>5. CASE q.pc = "score"
  BY <1>5 DEF After, AfterScore, Config
<1>6. CASE q.pc = "outside"
  BY <1>6 DEF After, AfterOutside, Config
<1>7. CASE q.pc = "prune"
  BY <1>7 DEF After, AfterPrune, Config
<1>8. CASE q.pc \notin Pcs
  BY <1>8 DEF After
<1> QED  BY <1>1, <1>2, <1>3, <1>4, <1>5, <1>6, <1>7, <1>8

-----------------------------------------------------------------------------
(* A run of the level loop.                                                *)
Steps(r, n) == \A i \in 0..(n - 1) : r[i + 1] = After(r[i])
IsRun(r) == \A n \in Nat : r[n + 1] = After(r[n])

(* Two runs from the same configuration are the same.                      *)
LEMMA RunsAgree ==
  ASSUME NEW a, NEW g, NEW h, g[0] = a, h[0] = a,
         NEW n \in Nat, Steps(g, n), Steps(h, n)
  PROVE  g[n] = h[n]
<1> DEFINE S == {i \in Nat : i <= n => g[i] = h[i]}
<1>1. 0 \in S
  OBVIOUS
<1>2. ASSUME NEW i \in Nat, i \in S PROVE i + 1 \in S
  <2> SUFFICES ASSUME i + 1 <= n PROVE g[i + 1] = h[i + 1]
    OBVIOUS
  <2>1. i \in 0..(n - 1) /\ g[i] = h[i]
    BY <1>2
  <2> QED  BY <2>1 DEF Steps
<1>3. Nat \subseteq S
  <2> HIDE DEF S
  <2> QED  BY <1>1, <1>2, SetInduction
<1> QED  BY <1>3

(* The level loop has a run from every configuration.                      *)
LEMMA RunExists == ASSUME NEW a PROVE \E r : r[0] = a /\ IsRun(r)
<1> DEFINE Begun(g, n) == g[0] = a /\ Steps(g, n)
           S == {n \in Nat : \E g : Begun(g, n)}
           r == [n \in Nat |-> CHOOSE v : \E g : Begun(g, n) /\ v = g[n]]
<1>1. 0 \in S
  <2> DEFINE g == [n \in Nat |-> a]
  <2>1. Begun(g, 0)
    BY DEF Steps
  <2> HIDE DEF Begun
  <2> QED  BY <2>1
<1>2. ASSUME NEW n \in Nat, n \in S PROVE n + 1 \in S
  <2>1. PICK g : Begun(g, n)
    BY <1>2
  <2> DEFINE h == [i \in Nat |-> IF i <= n THEN g[i] ELSE After(g[n])]
  <2>2. h[0] = a
    BY <2>1
  <2>3. ASSUME NEW i \in 0..((n + 1) - 1) PROVE h[i + 1] = After(h[i])
    <3>1. CASE i = n
      <4>1. i + 1 \in Nat /\ ~(i + 1 <= n) /\ n \in Nat
        BY <3>1
      <4> QED  BY <3>1, <4>1
    <3>2. CASE i # n
      <4>1. i \in 0..(n - 1) /\ i + 1 <= n /\ i + 1 \in Nat /\ i <= n /\ i \in Nat
        BY <3>2
      <4>2. g[i + 1] = After(g[i])
        BY <2>1, <4>1 DEF Steps
      <4> QED  BY <4>1, <4>2
    <3> QED  BY <3>1, <3>2
  <2>4. Begun(h, n + 1)
    <3> HIDE DEF h
    <3> QED  BY <2>2, <2>3 DEF Steps
  <2> HIDE DEF Begun, h
  <2> QED  BY <2>4
<1>3. \A n \in Nat : \E g : Begun(g, n)
  <2>1. Nat \subseteq S
    <3> HIDE DEF S
    <3> QED  BY <1>1, <1>2, SetInduction
  <2> HIDE DEF Begun
  <2> QED  BY <2>1
<1>4. \A n \in Nat : \E g : Begun(g, n) /\ r[n] = g[n]
  <2> TAKE n \in Nat
  <2>1. PICK g : Begun(g, n)
    BY <1>3
  <2>2. \E v : \E f : Begun(f, n) /\ v = f[n]
    <3> HIDE DEF Begun
    <3> QED  BY <2>1
  <2>3. r[n] = CHOOSE v : \E f : Begun(f, n) /\ v = f[n]
    OBVIOUS
  <2> HIDE DEF Begun, r
  <2> QED  BY <2>2, <2>3
<1> HIDE DEF r
<1>5. \A n \in Nat : \A g : Begun(g, n) => g[n] = r[n]
  BY <1>4, RunsAgree
<1>6. r[0] = a
  <2>1. PICK g : Begun(g, 0) /\ r[0] = g[0]
    BY <1>4
  <2> QED  BY <2>1
<1>7. ASSUME NEW n \in Nat PROVE r[n + 1] = After(r[n])
  <2>1. PICK g : Begun(g, n + 1) /\ r[n + 1] = g[n + 1]
    BY <1>4
  <2>2. Begun(g, n)
    BY <2>1 DEF Steps
  <2>3. g[n] = r[n]
    <3> HIDE DEF Begun
    <3> QED  BY <1>5, <2>2
  <2>4. g[n + 1] = After(g[n])
    <3>1. n \in 0..((n + 1) - 1)
      OBVIOUS
    <3> QED  BY <2>1, <3>1 DEF Steps
  <2> QED  BY <2>1, <2>3, <2>4
<1> QED  BY <1>6, <1>7 DEF IsRun

(* The level of a run never falls.                                         *)
LEMMA RunLevels ==
  ASSUME NEW r, IsRun(r), r[0].level = 0
  PROVE  /\ \A n \in Nat : r[n].level \in Nat
         /\ \A m, n \in Nat : m <= n => r[m].level <= r[n].level
<1>1. \A n \in Nat : r[n + 1].level = r[n].level \/ r[n + 1].level = r[n].level + 1
  BY AfterLevel DEF IsRun
<1>2. \A n \in Nat : r[n].level \in Nat
  <2> DEFINE S == {n \in Nat : r[n].level \in Nat}
  <2>1. 0 \in S
    OBVIOUS
  <2>2. \A n \in Nat : n \in S => n + 1 \in S
    BY <1>1
  <2>3. Nat \subseteq S
    <3> HIDE DEF S
    <3> QED  BY <2>1, <2>2, SetInduction
  <2> QED  BY <2>3
<1>3. ASSUME NEW m \in Nat PROVE \A n \in Nat : m <= n => r[m].level <= r[n].level
  <2> DEFINE S == {n \in Nat : m <= n => r[m].level <= r[n].level}
  <2>1. 0 \in S
    BY <1>2
  <2>2. ASSUME NEW n \in Nat, n \in S PROVE n + 1 \in S
    <3>1. CASE m <= n
      <4>1. r[m].level <= r[n].level /\ r[n].level <= r[n + 1].level
        BY <1>1, <1>2, <2>2, <3>1
      <4>2. r[m].level \in Nat /\ r[n].level \in Nat /\ r[n + 1].level \in Nat
        BY <1>2
      <4>3. r[m].level <= r[n + 1].level
        BY <4>1, <4>2
      <4> QED  BY <4>3
    <3>2. CASE m = n + 1
      BY <1>2, <3>2
    <3>3. CASE ~(m <= n) /\ m # n + 1
      BY <3>3
    <3> QED  BY <3>1, <3>2, <3>3
  <2>3. Nat \subseteq S
    <3> HIDE DEF S
    <3> QED  BY <2>1, <2>2, SetInduction
  <2> QED  BY <2>3
<1> QED  BY <1>2, <1>3

(* A run prunes each level at most once.                                   *)
LEMMA OnePrune ==
  ASSUME NEW r, IsRun(r), r[0].level = 0, NEW m \in Nat, NEW n \in Nat,
         r[m].pc = "prune", r[n].pc = "prune", r[m].level = r[n].level
  PROVE  m = n
<1>1. \A i \in Nat : r[i].pc = "prune" => \A j \in Nat : i < j => r[i].level < r[j].level
  <2> TAKE i \in Nat
  <2> HAVE r[i].pc = "prune"
  <2> TAKE j \in Nat
  <2> HAVE i < j
  <2>1. r[i + 1].level = r[i].level + 1
    BY AfterLevel DEF IsRun
  <2>2. i + 1 \in Nat /\ i + 1 <= j
    OBVIOUS
  <2> QED  BY <2>1, <2>2, RunLevels
<1>2. r[m].level \in Nat
  BY RunLevels
<1>3. ~(m < n) /\ ~(n < m)
  BY <1>1, <1>2
<1> QED  BY <1>3

(* A run that prunes a level never rejects it.                             *)
LEMMA NoReject ==
  ASSUME NEW r, IsRun(r), r[0].level = 0, NEW m \in Nat, NEW n \in Nat,
         r[m].pc = "prune", r[n].pc = "score", r[m].level = r[n].level
  PROVE  r[n].inside[RootCell][0] # 0
<1> SUFFICES ASSUME r[n].inside[RootCell][0] = 0 PROVE FALSE
  OBVIOUS
<1>1. \A i \in Nat : n <= i => r[i] = r[n]
  <2> DEFINE S == {i \in Nat : n <= i => r[i] = r[n]}
  <2>1. 0 \in S
    OBVIOUS
  <2>2. ASSUME NEW i \in Nat, i \in S PROVE i + 1 \in S
    <3>1. CASE n <= i
      <4>1. r[i] = r[n] /\ r[i + 1] = After(r[i]) /\ After(r[n]) = r[n]
        BY <2>2, <3>1, AfterLevel DEF IsRun
      <4> QED  BY <4>1
    <3>2. CASE ~(n <= i)
      <4>1. n <= i + 1 => n = i + 1
        BY <3>2
      <4> QED  BY <4>1
    <3> QED  BY <3>1, <3>2
  <2>3. Nat \subseteq S
    <3> HIDE DEF S
    <3> QED  BY <2>1, <2>2, SetInduction
  <2> QED  BY <2>3
<1>2. m < n
  BY <1>1
<1>3. r[m + 1].level = r[m].level + 1
  BY AfterLevel DEF IsRun
<1>4. r[m + 1].level <= r[n].level /\ r[m].level \in Nat
  BY <1>2, RunLevels
<1> QED  BY <1>3, <1>4

(* The operators at the configuration of a state are those of the state.   *)
LEMMA SameSums == \A f : At(Here)!SumFunction(f) = SumFunction(f)
BY DEF At!SumFunction, SumFunction, At!SumFunctionOnSet, SumFunctionOnSet,
       At!FoldFunctionOnSet, FoldFunctionOnSet, At!MapThenFoldSet, MapThenFoldSet

(* The cells, the model and the span at the configuration of a state.      *)
LEMMA SameShapes ==
  /\ At(Here)!Spans = Spans /\ At(Here)!TagIds = TagIds /\ At(Here)!Cells = Cells
  /\ At(Here)!RootCell = RootCell /\ At(Here)!SentenceScore = SentenceScore
  /\ At(Here)!Model = Model /\ At(Here)!Lexicals = Lexicals /\ At(Here)!Span = Span
  /\ At(Here)!NoVector = NoVector /\ \A n, v : At(Here)!Vector(n, v) = Vector(n, v)
BY DEF At!Spans, Spans, At!TagIds, TagIds, At!Cells, Cells, At!Whole, Whole, At!RootTag, RootTag,
       At!RootCell, RootCell, At!SentenceScore, SentenceScore, At!Model, Model,
       At!Lexicals, Lexicals, At!LexicalTags, LexicalTags, At!Span, Span, Here,
       At!NoVector, NoVector, At!Vector, Vector

(* The charts that initializeCharts makes there.                           *)
LEMMA SameCharts ==
  /\ At(Here)!InitTags = InitTags /\ At(Here)!InitSubs = InitSubs
  /\ At(Here)!InitCharts = InitCharts /\ At(Here)!InitExtents = InitExtents
<1>1. At(Here)!InitTags = InitTags
  BY SameShapes DEF At!InitTags, InitTags, Here
<1>2. At(Here)!InitSubs = InitSubs
  BY SameShapes DEF At!InitSubs, InitSubs, At!InitSub, InitSub, At!RefinedSub, RefinedSub, Here
<1>3. At(Here)!InitCharts = InitCharts
  BY SameShapes DEF At!InitCharts, InitCharts, At!InitScores, InitScores, Here
<1>4. At(Here)!InitExtents = InitExtents
  BY SameShapes DEF At!InitExtents, InitExtents, At!InitExtent, InitExtent, Here
<1> QED  BY <1>1, <1>2, <1>3, <1>4

(* The scores of the words there.                                          *)
LEMMA SameTerminals == At(Here)!TerminalScores = TerminalScores
<1>1. \A P, u : At(Here)!Entry(Model, P, u) = Entry(Model, P, u)
  BY DEF At!Entry, Entry
<1>2. \A P, u : At(Here)!WordScore(Model, P, u) = WordScore(Model, P, u)
  <2> TAKE P, u
  <2> DEFINE f == [v \in UnkWords |-> Entry(Model, P, v)]
             g == [v \in UnkWords |-> At(Here)!Entry(Model, P, v)]
  <2>1. f = g
    BY <1>1
  <2> HIDE DEF f, g
  <2>2. WordScore(Model, P, u) = (SmoothDen - SmoothNum) * Entry(Model, P, u) + SmoothNum * SumFunction(f)
    BY DEF WordScore, SumOver, f
  <2>3. At(Here)!WordScore(Model, P, u)
          = (SmoothDen - SmoothNum) * At(Here)!Entry(Model, P, u) + SmoothNum * At(Here)!SumFunction(g)
    BY DEF At!WordScore, At!SumOver, g
  <2> QED  BY <1>1, <2>1, <2>2, <2>3, SameSums
<1>3. \A b, S : At(Here)!Terminal(Model, b, S) = Terminal(Model, b, S)
  BY <1>2 DEF At!Terminal, Terminal, At!Abstract, Abstract, At!Token, Token, At!NoTag, NoTag, Here
<1> QED  BY <1>3, SameShapes, ZenonT(60) DEF At!TerminalScores, TerminalScores, Here

(* The uses of the rules there.                                            *)
LEMMA SameProductive ==
  /\ \A s, t : At(Here)!Productive(s, t) = Productive(s, t)
  /\ \A s, u : /\ At(Here)!LeftScore(s, u) = LeftScore(s, u)
               /\ At(Here)!RightScore(s, u) = RightScore(s, u)
  /\ \A s : At(Here)!UnaryUses(s) = UnaryUses(s)
<1>1. ASSUME NEW s, NEW t PROVE At(Here)!BinaryUses(s, t) = BinaryUses(s, t)
  BY DEF At!BinaryUses, BinaryUses, At!Mids, Mids, At!Usable, Usable, At!Lexicals, Lexicals,
         At!LexicalTags, LexicalTags, At!Model, Model, Here
<1>2. \A s, u : /\ At(Here)!LeftScore(s, u) = LeftScore(s, u)
                /\ At(Here)!RightScore(s, u) = RightScore(s, u)
  BY DEF At!LeftScore, LeftScore, At!RightScore, RightScore, Here
<1>3. ASSUME NEW s, NEW t PROVE At(Here)!Productive(s, t) = Productive(s, t)
  BY <1>1, <1>2, SameShapes DEF At!Productive, Productive
<1>4. ASSUME NEW s PROVE At(Here)!UnaryUses(s) = UnaryUses(s)
  BY SameShapes DEF At!UnaryUses, UnaryUses, At!Usable, Usable, Here
<1> QED  BY <1>2, <1>3, <1>4

(* The scores and extents after the binary rules of a parent there.        *)
LEMMA SameBinary ==
  At(Here)!BinaryScores = BinaryScores /\ At(Here)!BinaryExtents = BinaryExtents
<1>1. ASSUME NEW s, NEW t, NEW v PROVE At(Here)!BinarySum(s, t, v) = BinarySum(s, t, v)
  <2> DEFINE D == {u \in Productive(s, t) : u[1][1][2] = v}
             f == [u \in D |-> Model.bin[u[1]] * LeftScore(s, u) * RightScore(s, u)]
  <2>1. BinarySum(s, t, v) = SumFunction(f)
    BY DEF BinarySum, SumOver
  <2>2. At(Here)!BinarySum(s, t, v) = At(Here)!SumFunction(f)
    BY SameProductive, SameShapes DEF At!BinarySum, At!SumOver
  <2> HIDE DEF f
  <2> QED  BY <2>1, <2>2, SameSums
<1> DEFINE c == <<Span, pos.tag>>
<1>2. At(Here)!BinaryScores = BinaryScores
  <2>1. \A v : At(Here)!BinarySum(Span, pos.tag, v) = BinarySum(Span, pos.tag, v)
    BY <1>1
  <2>2. [s \in DOMAIN inside[c] |->
           IF allowedSub[c][s] THEN At(Here)!BinarySum(Span, pos.tag, s) ELSE inside[c][s]]
        = [s \in DOMAIN inside[c] |->
           IF allowedSub[c][s] THEN BinarySum(Span, pos.tag, s) ELSE inside[c][s]]
    BY <2>1
  <2> HIDE DEF c
  <2>3. At(Here)!BinaryScores =
          IF allowedTag[c] /\ pos.tag \notin Lexicals
            THEN [inside EXCEPT ![c] = [s \in DOMAIN inside[c] |->
                   IF allowedSub[c][s] THEN At(Here)!BinarySum(Span, pos.tag, s) ELSE inside[c][s]]]
            ELSE inside
    BY SameShapes DEF At!BinaryScores, Here, c
  <2> QED  BY <2>2, <2>3 DEF BinaryScores, c
<1>3. At(Here)!BinaryExtents = BinaryExtents
  BY SameProductive DEF At!BinaryExtents, BinaryExtents, At!Widened, Widened, At!Span, Span, Here
<1> QED  BY <1>2, <1>3

(* The scores after the unary rules over a span there.                     *)
LEMMA SameUnary ==
  /\ At(Here)!UnaryScores = UnaryScores
  /\ \A s, p : At(Here)!OutsideUnaryDelta(s, p) = OutsideUnaryDelta(s, p)
<1>1. ASSUME NEW s, NEW p PROVE At(Here)!InsideUnaryDelta(s, p) = InsideUnaryDelta(s, p)
  <2> DEFINE D == {r \in UnaryUses(s) : r[1] = p /\ p[1] \notin Lexicals}
             f == [r \in D |-> Model.una[r] * inside[<<s, r[2][1]>>][r[2][2]]]
  <2>1. InsideUnaryDelta(s, p) = SumFunction(f)
    BY DEF InsideUnaryDelta, SumOver
  <2>2. At(Here)!InsideUnaryDelta(s, p) = At(Here)!SumFunction(f)
    <3> DEFINE E == {r \in At(Here)!UnaryUses(s) : r[1] = p /\ p[1] \notin Lexicals}
               g == [r \in E |-> Model.una[r] * inside[<<s, r[2][1]>>][r[2][2]]]
    <3>1. D = E
      BY SameProductive
    <3>2. f = g
      <4> HIDE DEF D, E
      <4> QED  BY <3>1
    <3>3. At(Here)!InsideUnaryDelta(s, p) = At(Here)!SumFunction(g)
      BY DEF At!InsideUnaryDelta, At!SumOver, At!Lexicals, Lexicals,
             At!LexicalTags, LexicalTags, At!Model, Model, Here
    <3> HIDE DEF f, g
    <3> QED  BY <3>2, <3>3
  <2> HIDE DEF f
  <2> QED  BY <2>1, <2>2, SameSums
<1>2. ASSUME NEW s, NEW p PROVE At(Here)!OutsideUnaryDelta(s, p) = OutsideUnaryDelta(s, p)
  <2> DEFINE D == {r \in UnaryUses(s) : r[2] = p}
             f == [r \in D |-> Model.una[r] * outside[<<s, r[1][1]>>][r[1][2]]]
  <2>1. OutsideUnaryDelta(s, p) = SumFunction(f)
    BY DEF OutsideUnaryDelta, SumOver
  <2>2. At(Here)!OutsideUnaryDelta(s, p) = At(Here)!SumFunction(f)
    <3> DEFINE E == {r \in At(Here)!UnaryUses(s) : r[2] = p}
               g == [r \in E |-> Model.una[r] * outside[<<s, r[1][1]>>][r[1][2]]]
    <3>1. D = E
      BY SameProductive
    <3>2. f = g
      <4> HIDE DEF D, E
      <4> QED  BY <3>1
    <3>3. At(Here)!OutsideUnaryDelta(s, p) = At(Here)!SumFunction(g)
      BY DEF At!OutsideUnaryDelta, At!SumOver, At!Model, Model, Here
    <3> HIDE DEF f, g
    <3> QED  BY <3>2, <3>3
  <2> HIDE DEF f
  <2> QED  BY <2>1, <2>2, SameSums
<1>3. At(Here)!UnaryScores = UnaryScores
  BY <1>1, SameShapes DEF At!UnaryScores, UnaryScores, Here
<1> QED  BY <1>2, <1>3

(* The outside scores below a span there.                                  *)
LEMMA SameOutside == At(Here)!OutsideScores = OutsideScores
<1>1. \A s : At(Here)!AfterUnary(s) = AfterUnary(s)
  BY SameUnary, SameShapes, ZenonT(60) DEF At!AfterUnary, AfterUnary, Here
<1>2. ASSUME NEW s, NEW above, NEW c, NEW i
      PROVE  At(Here)!OutsideBinaryDelta(s, above, c, i) = OutsideBinaryDelta(s, above, c, i)
  <2> DEFINE uses == UNION {Productive(s, t) : t \in TagIds}
             top(u) == Model.bin[u[1]] * above[<<s, u[1][1][1]>>][u[1][1][2]]
             D == {u \in uses : c[1] = <<s[1], u[2]>> /\ u[1][2] = <<c[2], i>>}
             E == {u \in uses : c[1] = <<u[2], s[2]>> /\ u[1][3] = <<c[2], i>>}
             f == [u \in D |-> top(u) * RightScore(s, u)]
             g == [u \in E |-> top(u) * LeftScore(s, u)]
  <2>1. OutsideBinaryDelta(s, above, c, i) = SumFunction(f) + SumFunction(g)
    BY DEF OutsideBinaryDelta, SumOver
  <2>2. At(Here)!OutsideBinaryDelta(s, above, c, i) = At(Here)!SumFunction(f) + At(Here)!SumFunction(g)
    <3>1. UNION {At(Here)!Productive(s, t) : t \in At(Here)!TagIds} = uses
      BY SameProductive, SameShapes
    <3> HIDE DEF uses
    <3> QED  BY <3>1, SameProductive, SameShapes DEF At!OutsideBinaryDelta, At!SumOver
  <2> HIDE DEF f, g
  <2> QED  BY <2>1, <2>2, SameSums
<1> QED  BY <1>1, <1>2, SameShapes
         DEF At!OutsideScores, OutsideScores, At!Within, Within, Here

(* The flags that pruning leaves there.                                    *)
LEMMA SamePruned ==
  At(Here)!PrunedSub = PrunedSub /\ At(Here)!PrunedTag = PrunedTag
<1>1. \A c, s : At(Here)!Kept(c, s) = Kept(c, s)
  BY SameShapes DEF At!Kept, Kept, Here
<1>2. At(Here)!PrunedSub = PrunedSub
  BY <1>1, SameShapes DEF At!PrunedSub, PrunedSub, Here
<1> QED  BY <1>2, SameShapes DEF At!PrunedTag, PrunedTag, Here

CP == INSTANCE CoarseToFine_proofs
        WITH Tags <- TagIds, Root <- RootTag, Lexical <- {}, m1 <- FALSE,
             pc <- Stage, empty <- (sentence = <<>>),
             allowedSub <- SetOf(allowedSub),
             width <- Sizes(allowedSub), scores <- Sizes(inside),
             preparse <- {}

InLoop == {"charts"} \cup Passes

(* The flags a configuration leaves when its level is pruned.              *)
Left(q) == SetOf(At(q)!PrunedSub)

Traced ==
  \E r : /\ IsRun(r) /\ r[0] = Start
         /\ pc \in InLoop => \E n \in Nat : r[n] = Here
         /\ \A k \in 1..Len(seen) : \E n \in Nat :
              r[n].pc = "prune" /\ r[n].level = k - 1 /\ seen[k].sub = Left(r[n])

IInv == Own /\ CP!IInv /\ Traced

-----------------------------------------------------------------------------
(* The steps of the loop follow the run.                                   *)
LEMMA LoopSteps ==
  /\ InitializeCharts => Here' = After(Here)
  /\ SetTerminals => Here' = After(Here)
  /\ InsideBinary => Here' = After(Here)
  /\ InsideUnary => Here' = After(Here)
  /\ AcceptLevel => Here' = After(Here)
  /\ OutsideSpan => Here' = After(Here)
  /\ PruneCharts /\ level # target => Here' = After(Here)
<1> DEFINE q == Here
<1>1. ASSUME InitializeCharts PROVE Here' = After(Here)
  <2>1. After(q) = AfterCharts(q)
    BY <1>1 DEF After, InitializeCharts, Here
  <2>2. /\ pc' = "terminals" /\ allowedTag' = InitTags /\ allowedSub' = InitSubs
        /\ inside' = InitCharts /\ outside' = InitCharts /\ extent' = InitExtents
        /\ UNCHANGED <<level, pos, sentence, models, threshold>>
    BY <1>1 DEF InitializeCharts, input, control
  <2> QED  BY <2>1, <2>2, SameCharts DEF AfterCharts, Config, Here
<1>2. ASSUME SetTerminals PROVE Here' = After(Here)
  <2>1. After(q) = AfterTerminals(q)
    BY <1>2 DEF After, SetTerminals, Here
  <2>2. /\ pc' = "unary" /\ inside' = TerminalScores /\ pos' = FirstSpan
        /\ UNCHANGED <<level, allowedTag, allowedSub, outside, extent, sentence, models, threshold>>
    BY <1>2 DEF SetTerminals, input, control, flags
  <2> QED  BY <2>1, <2>2, SameTerminals DEF AfterTerminals, Config, Here
<1>3. ASSUME InsideBinary PROVE Here' = After(Here)
  <2>1. After(q) = AfterBinaryPass(q)
    BY <1>3 DEF After, InsideBinary, Here
  <2>2. /\ inside' = BinaryScores /\ extent' = BinaryExtents /\ pos' = [pos EXCEPT !.tag = @ + 1]
        /\ pc' = IF pos.tag = NumTags - 1 THEN "unary" ELSE "binary"
        /\ UNCHANGED <<level, allowedTag, allowedSub, outside, sentence, models, threshold>>
    BY <1>3 DEF InsideBinary, input, control, flags
  <2> QED  BY <2>1, <2>2, SameBinary DEF AfterBinaryPass, Config, Here
<1>4. ASSUME InsideUnary PROVE Here' = After(Here)
  <2>1. After(q) = AfterUnaryPass(q)
    BY <1>4 DEF After, InsideUnary, Here
  <2>2. /\ inside' = UnaryScores /\ pos' = NextSpan(pos)
        /\ pc' = IF NextSpan(pos).len > NumWords THEN "score"
                 ELSE IF NextSpan(pos).len = 1 THEN "unary" ELSE "binary"
        /\ UNCHANGED <<level, allowedTag, allowedSub, outside, extent, sentence, models, threshold>>
    BY <1>4 DEF InsideUnary, input, control, flags
  <2> QED  BY <2>1, <2>2, SameUnary DEF AfterUnaryPass, Config, Here
<1>5. ASSUME AcceptLevel PROVE Here' = After(Here)
  <2>1. After(q) = AfterScore(q)
    BY <1>5 DEF After, AcceptLevel, Here
  <2>2. /\ outside' = [outside EXCEPT ![RootCell][0] = 1] /\ pos' = LastSpan
        /\ pc' = "outside" /\ inside[RootCell][0] # 0
        /\ UNCHANGED <<level, allowedTag, allowedSub, inside, extent, sentence, models, threshold>>
    BY <1>5 DEF AcceptLevel, SentenceScore, input, control, flags
  <2> QED  BY <2>1, <2>2 DEF AfterScore, Config, Here
<1>6. ASSUME OutsideSpan PROVE Here' = After(Here)
  <2>1. After(q) = AfterOutside(q)
    BY <1>6 DEF After, OutsideSpan, Here
  <2>2. /\ outside' = OutsideScores /\ pos' = PreviousSpan(pos)
        /\ pc' = IF PreviousSpan(pos).len = 0 THEN "prune" ELSE "outside"
        /\ UNCHANGED <<level, allowedTag, allowedSub, inside, extent, sentence, models, threshold>>
    BY <1>6 DEF OutsideSpan, input, control, flags
  <2> QED  BY <2>1, <2>2, SameOutside DEF AfterOutside, Config, Here
<1>7. ASSUME PruneCharts, level # target PROVE Here' = After(Here)
  <2>1. After(q) = AfterPrune(q)
    BY <1>7 DEF After, PruneCharts, Here
  <2>2. /\ allowedTag' = PrunedTag /\ allowedSub' = PrunedSub /\ level' = level + 1
        /\ pc' = "charts"
        /\ UNCHANGED <<inside, outside, extent, pos, sentence, models, threshold>>
    BY <1>7 DEF PruneCharts, input
  <2> QED  BY <2>1, <2>2, SamePruned DEF AfterPrune, Config, Here
<1> QED  BY <1>1, <1>2, <1>3, <1>4, <1>5, <1>6, <1>7

(* What the control says of the level.                                     *)
LEMMA ControlFacts ==
  ASSUME IInv
  PROVE  /\ level \in 0..Depth /\ target \in AllLevels /\ Len(seen) \in Nat
         /\ fine \in AllLevels /\ attempt \in 0..2
         /\ result \in [succeeded : BOOLEAN, final : -1..(Depth - 1)]
         /\ attempt = 0 => seen = <<>>
         /\ pc = "setup" => attempt = 0
         /\ pc \in InLoop => /\ level \in AllLevels /\ level <= target /\ attempt \in {1, 2}
                             /\ attempt = 1 => Len(seen) = level
                             /\ attempt = 2 => level < Len(seen)
<1>1. CP!TypeOK /\ CP!ControlOK
  BY DEF IInv, CP!IInv
<1>2. CP!Levels = AllLevels
  BY DEF CP!Levels, AllLevels
<1>3. /\ level \in 0..Depth /\ target \in AllLevels /\ Len(seen) \in Nat
      /\ fine \in AllLevels /\ attempt \in 0..2
      /\ result \in [succeeded : BOOLEAN, final : -1..(Depth - 1)]
  BY <1>1, <1>2 DEF CP!TypeOK
<1>4. attempt = 0 => seen = <<>>
  BY <1>1 DEF CP!ControlOK
<1>5. pc = "setup" => attempt = 0
  BY <1>1 DEF CP!ControlOK, Stage
<1>6. ASSUME pc \in InLoop
      PROVE  /\ level \in AllLevels /\ level <= target /\ attempt \in {1, 2}
             /\ attempt = 1 => Len(seen) = level
             /\ attempt = 2 => level < Len(seen)
  <2>1. Stage \in {"charts", "score", "prune"}
    BY <1>6 DEF InLoop, Passes, Stage
  <2>2. /\ level <= target /\ attempt \in {1, 2}
        /\ attempt = 1 => Len(seen) = level
        /\ attempt = 2 => target < Len(seen)
    BY <1>1, <2>1 DEF CP!ControlOK, CP!Loop
  <2> QED  BY <1>3, <2>2, Shapes DEF AllLevels
<1> QED  BY <1>3, <1>4, <1>5, <1>6

(* The run stays the same as long as the inputs and the record do.         *)
LEMMA TracedStep ==
  ASSUME Traced, UNCHANGED <<seen, sentence, models, threshold>>,
         \/ pc' \notin InLoop
         \/ pc \in InLoop /\ Here' = After(Here)
         \/ Here' = Start
  PROVE  Traced'
<1>1. PICK r : /\ IsRun(r) /\ r[0] = Start
               /\ pc \in InLoop => \E n \in Nat : r[n] = Here
               /\ \A k \in 1..Len(seen) : \E n \in Nat :
                    r[n].pc = "prune" /\ r[n].level = k - 1 /\ seen[k].sub = Left(r[n])
  BY DEF Traced
<1>2. Start' = Start
  BY DEF Start
<1>3. IsRun(r)'
  BY <1>1
<1>4. pc' \in InLoop => \E n \in Nat : r[n] = Here'
  <2>1. CASE pc \in InLoop /\ Here' = After(Here)
    <3>1. PICK n \in Nat : r[n] = Here
      BY <1>1, <2>1
    <3>2. r[n + 1] = After(r[n])
      BY <1>1 DEF IsRun
    <3>3. After(r[n]) = After(Here)
      BY <3>1
    <3>4. r[n + 1] = Here'
      BY <2>1, <3>2, <3>3
    <3>5. n + 1 \in Nat
      OBVIOUS
    <3> QED  BY <3>4, <3>5
  <2>2. CASE Here' = Start
    BY <1>1, <2>2
  <2> QED  BY <2>1, <2>2
<1>5. ASSUME NEW k \in 1..Len(seen')
      PROVE  \E n \in Nat : r[n].pc = "prune" /\ r[n].level = k - 1 /\ seen'[k].sub = Left(r[n])'
  <2>1. PICK n \in Nat : r[n].pc = "prune" /\ r[n].level = k - 1 /\ seen[k].sub = Left(r[n])
    BY <1>1
  <2>2. Left(r[n])' = Left(r[n])
    OBVIOUS
  <2> QED  BY <2>1, <2>2
<1> QED  BY <1>1, <1>2, <1>3, <1>4, <1>5 DEF Traced, InLoop, Passes

(* At every level the second attempt meets what the first has left there.  *)
LEMMA SeenAgain ==
  ASSUME IInv, pc = "prune", level < Len(seen)
  PROVE  seen[level + 1].sub = SetOf(PrunedSub)
<1>1. PICK r : /\ IsRun(r) /\ r[0] = Start
               /\ pc \in InLoop => \E n \in Nat : r[n] = Here
               /\ \A k \in 1..Len(seen) : \E n \in Nat :
                    r[n].pc = "prune" /\ r[n].level = k - 1 /\ seen[k].sub = Left(r[n])
  BY DEF IInv, Traced
<1>2. r[0].level = 0
  BY <1>1 DEF Start
<1>3. PICK m \in Nat : r[m] = Here
  BY <1>1 DEF InLoop, Passes
<1>4. r[m].pc = "prune" /\ r[m].level = level
  BY <1>3 DEF Here
<1>5. level \in Nat /\ Len(seen) \in Nat
  BY ControlFacts, Shapes
<1>6. level + 1 \in 1..Len(seen) /\ (level + 1) - 1 = level
  BY <1>5
<1>7. PICK n \in Nat : r[n].pc = "prune" /\ r[n].level = level /\ seen[level + 1].sub = Left(r[n])
  BY <1>1, <1>6
<1>8. m = n
  BY <1>1, <1>2, <1>4, <1>7, OnePrune
<1>9. Left(Here) = SetOf(PrunedSub)
  BY SamePruned DEF Left
<1> QED  BY <1>3, <1>7, <1>8, <1>9

(* A level the first attempt has passed is not rejected by the second.     *)
LEMMA NotRejectedAgain ==
  ASSUME IInv, pc = "score", SentenceScore = 0
  PROVE  ~(level < Len(seen))
<1> SUFFICES ASSUME level < Len(seen) PROVE FALSE
  OBVIOUS
<1>1. PICK r : /\ IsRun(r) /\ r[0] = Start
               /\ pc \in InLoop => \E n \in Nat : r[n] = Here
               /\ \A k \in 1..Len(seen) : \E n \in Nat :
                    r[n].pc = "prune" /\ r[n].level = k - 1 /\ seen[k].sub = Left(r[n])
  BY DEF IInv, Traced
<1>2. r[0].level = 0
  BY <1>1 DEF Start
<1>3. PICK n \in Nat : r[n] = Here
  BY <1>1 DEF InLoop, Passes
<1>4. r[n].pc = "score" /\ r[n].level = level /\ r[n].inside[RootCell][0] = 0
  BY <1>3 DEF Here, SentenceScore
<1>5. level \in Nat /\ Len(seen) \in Nat
  BY ControlFacts, Shapes
<1>6. level + 1 \in 1..Len(seen) /\ (level + 1) - 1 = level
  BY <1>5
<1>7. PICK m \in Nat : r[m].pc = "prune" /\ r[m].level = level
  BY <1>1, <1>6
<1> QED  BY <1>1, <1>2, <1>4, <1>7, NoReject

(* The assumptions of the abstract specification.                          *)
LEMMA AbstractShape == CP!ShapeAssumption
BY HierarchyAssumption, InputAssumption DEF CP!ShapeAssumption, TagIds, RootTag

(* The hierarchy of the parser is one of the control.                      *)
LEMMA AbstractHierarchy == CP!HierarchyAssumption
BY HierarchyAssumption DEF CP!HierarchyAssumption, CP!Levels, AllLevels

(* The cells and the subtags of the control are those of the parser.       *)
LEMMA SameCells ==
  /\ CP!Cells = Cells /\ CP!RootCell = RootCell /\ CP!Levels = AllLevels
  /\ \A c \in Cells, l \in AllLevels : CP!Subs(c, l) = SubIds(c, l)
<1>1. CP!Cells = Cells
  BY DEF CP!Cells, Cells, CP!Spans, Spans
<1>2. CP!RootCell = RootCell
  BY DEF CP!RootCell, RootCell, Whole
<1>3. CP!Levels = AllLevels
  BY DEF CP!Levels, AllLevels
<1>4. \A c, l : CP!Subs(c, l) = SubIds(c, l)
  BY DEF CP!Subs, SubIds
<1> QED  BY <1>1, <1>2, <1>3, <1>4

(* So are the subtags of all levels.                                       *)
LEMMA SameAllSubs == CP!AllSubs = AllSubIds
BY SameCells DEF CP!AllSubs, AllSubIds

(* A vector of n entries has size n.                                       *)
LEMMA SizeOfInterval == ASSUME NEW n \in Nat, NEW v, DOMAIN v = 0..(n - 1) PROVE Size(v) = n
BY FS_Interval DEF Size

(* A released vector has size 0.                                           *)
LEMMA SizeOfNone == Size(NoVector) = 0
<1>1. DOMAIN NoVector = {}
  BY DEF NoVector, Vector
<1> QED  BY <1>1, FS_EmptySet DEF Size

(* The initial states are initial states of the control.                   *)
LEMMA InitRefined == Init => CP!Init
<1> SUFFICES ASSUME Init PROVE CP!Init
  OBVIOUS
<1>1. DOMAIN NoVector = {}
  BY DEF NoVector, Vector
<1>2. SetOf(allowedSub) = [c \in Cells |-> {}]
  BY <1>1 DEF Init, SetOf
<1>3. Sizes(allowedSub) = [c \in Cells |-> 0] /\ Sizes(inside) = [c \in Cells |-> 0]
  BY SizeOfNone DEF Init, Sizes
<1>4. Stage = "setup"
  BY DEF Init, Stage
<1> QED  BY <1>2, <1>3, <1>4, SameCells DEF Init, CP!Init, CP!Failure, Failure

(* Setting the fine level.                                                 *)
LEMMA LoadRefined == IInv /\ Load => CP!SetFineLevel
<1> SUFFICES ASSUME IInv, Load PROVE CP!SetFineLevel
  OBVIOUS
<1>1. /\ Stage = "setup" /\ Stage' = "call" /\ fine' \in AllLevels
  BY DEF Load, Stage
<1>2. CP!ClampedLevel(fine') = fine' /\ fine' \in -1..Depth
  BY <1>1, Shapes DEF CP!ClampedLevel, AllLevels
<1>3. UNCHANGED <<sentence, attempt, target, level, allowedTag, allowedSub, inside, seen, result>>
  BY DEF Load, control, flags, history
<1> QED  BY <1>1, <1>2, <1>3 DEF CP!SetFineLevel, CP!charts, SetOf, Sizes

(* The empty sentence.                                                     *)
LEMMA ParseEmptyRefined == IInv /\ ParseEmpty => CP!ParseEmpty
BY DEF ParseEmpty, CP!ParseEmpty, Stage, CP!charts, SetOf, Sizes, input, flags, history, CP!Success, Success

(* The start of an attempt: allowed_tag is not yet read.                   *)
LEMMA StartAttemptRefined == IInv /\ StartAttempt => CP!StartAttempt
<1> SUFFICES ASSUME IInv, StartAttempt PROVE CP!StartAttempt
  OBVIOUS
<1>1. /\ Stage = "call" /\ Stage' = "charts" /\ sentence # <<>> /\ target' = TargetOf(attempt)
      /\ attempt' = attempt + 1 /\ level' = 0
      /\ allowedTag' = [c \in Cells |-> FALSE] /\ allowedSub' = [c \in Cells |-> NoVector]
      /\ inside' = [c \in Cells |-> NoVector]
      /\ UNCHANGED <<sentence, fine, result, seen>>
  BY DEF StartAttempt, Stage, FreshFlags, input, history
<1>2. SetOf(allowedSub)' = [c \in Cells |-> {}]
  <2>1. DOMAIN NoVector = {}
    BY DEF NoVector, Vector
  <2> QED  BY <1>1, <2>1 DEF SetOf
<1>3. Sizes(allowedSub)' = [c \in Cells |-> 0] /\ Sizes(inside)' = [c \in Cells |-> 0]
  BY <1>1, SizeOfNone DEF Sizes
<1>4. TargetOf(attempt) = CP!TargetOf(attempt)
  BY DEF TargetOf, CP!TargetOf
<1>5. allowedTag' \in [Cells -> BOOLEAN]
  BY <1>1
<1> QED  BY <1>1, <1>2, <1>3, <1>4, <1>5, SameCells DEF CP!StartAttempt

(* The vectors of a level take its sizes, and the flags of the symbols     *)
(* refined.                                                                *)
LEMMA InitializeChartsRefined == IInv /\ InitializeCharts => CP!InitializeCharts
<1> SUFFICES ASSUME IInv, InitializeCharts PROVE CP!InitializeCharts
  OBVIOUS
<1>1. /\ allowedTag' = InitTags /\ allowedSub' = InitSubs /\ inside' = InitCharts
      /\ pc = "charts" /\ Stage = "charts" /\ Stage' = "score"
      /\ UNCHANGED <<sentence, fine, attempt, target, level, seen, result>>
  BY DEF InitializeCharts, Stage, input, control, history
<1>2. level \in AllLevels
  BY <1>1, ControlFacts DEF InLoop
<1>3. allowedTag \in [Cells -> BOOLEAN] /\ DOMAIN allowedSub = Cells
      /\ (level > 0 => Sized(level - 1))
  BY <1>1 DEF IInv, Own, TypesOK, VectorsOK
<1>4. allowedTag' = [c \in Cells |-> CP!InitTag(c)]
  BY <1>1, <1>3 DEF InitTags, CP!InitTag
<1>5. ASSUME NEW c \in Cells PROVE SetOf(InitSubs)[c] = CP!InitSub(c)
  <2>1. SetOf(InitSubs)[c] = {s \in DOMAIN InitSub(c) : InitSub(c)[s]}
    BY DEF SetOf, InitSubs
  <2>2. CASE level = 0
    <3>1. InitSub(c) = [s \in 0..0 |-> TRUE]
      <4>1. 0..(1 - 1) = 0..0
        OBVIOUS
      <4> QED  BY <2>2, <4>1 DEF InitSub, Vector
    <3>2. CP!InitSub(c) = {0}
      BY <2>2 DEF CP!InitSub, CP!InitTag
    <3> QED  BY <2>1, <3>1, <3>2
  <2>3. CASE level # 0 /\ allowedTag[c]
    <3>1. level > 0 /\ level \in AllLevels \ {0}
      BY <1>2, <2>3, Shapes
    <3>2. Parent[c[2]][level] \in [SubIds(c, level) -> SubIds(c, level - 1)]
      BY <3>1, SubShapes
    <3>3. DOMAIN allowedSub[c] = SubIds(c, level - 1)
      BY <1>3, <2>3, <3>1 DEF Sized
    <3>4. InitSub(c) = [s \in SubIds(c, level) |-> allowedSub[c][Parent[c[2]][level][s]]]
      BY <2>3 DEF InitSub, RefinedSub, SubIds
    <3>5. CP!InitSub(c) = {s \in SubIds(c, level) : Parent[c[2]][level][s] \in SetOf(allowedSub)[c]}
      BY <1>2, <2>3, SameCells DEF CP!InitSub, CP!Refine
    <3>6. \A s \in SubIds(c, level) :
            Parent[c[2]][level][s] \in SetOf(allowedSub)[c] <=> allowedSub[c][Parent[c[2]][level][s]]
      BY <3>2, <3>3 DEF SetOf
    <3> QED  BY <2>1, <3>4, <3>5, <3>6
  <2>4. CASE level # 0 /\ ~allowedTag[c]
    BY <2>1, <2>4 DEF InitSub, CP!InitSub, SetOf
  <2> QED  BY <2>2, <2>3, <2>4
<1>6. SetOf(allowedSub)' = [c \in Cells |-> CP!InitSub(c)]
  <2>1. SetOf(allowedSub)' = SetOf(InitSubs)
    BY <1>1 DEF SetOf
  <2>2. SetOf(InitSubs) = [c \in Cells |-> SetOf(InitSubs)[c]]
    BY DEF SetOf
  <2> QED  BY <1>5, <2>1, <2>2
<1>7. ASSUME NEW c \in Cells
      PROVE  /\ Size(InitSub(c)) = IF level = 0 \/ allowedTag[c] THEN NumSub[c[2]][level] ELSE Size(allowedSub[c])
             /\ Size(InitScores(c)) = IF level = 0 \/ allowedTag[c] THEN NumSub[c[2]][level] ELSE 0
  <2>1. NumSub[c[2]][level] \in Nat /\ (level = 0 => NumSub[c[2]][level] = 1)
    BY <1>2, SubShapes
  <2>2. \A n, v : DOMAIN Vector(n, v) = 0..(n - 1)
    BY DEF Vector
  <2>3. CASE level = 0
    <3>1. \A v : Size(Vector(1, v)) = 1
      BY <2>2, SizeOfInterval
    <3> QED  BY <2>1, <2>3, <3>1 DEF InitSub, InitScores
  <2>4. CASE level # 0 /\ allowedTag[c]
    <3>1. DOMAIN InitSub(c) = 0..(NumSub[c[2]][level] - 1)
          /\ DOMAIN InitScores(c) = 0..(NumSub[c[2]][level] - 1)
      BY <2>2, <2>4 DEF InitSub, RefinedSub, InitScores
    <3> QED  BY <2>1, <2>4, <3>1, SizeOfInterval
  <2>5. CASE level # 0 /\ ~allowedTag[c]
    BY <2>5, SizeOfNone DEF InitSub, InitScores
  <2> QED  BY <2>3, <2>4, <2>5
<1>8. Sizes(allowedSub)' = [c \in Cells |-> IF level = 0 \/ allowedTag[c]
                               THEN NumSub[c[2]][level] ELSE Sizes(allowedSub)[c]]
  <2>1. Sizes(allowedSub)' = [c \in Cells |-> Size(InitSub(c))]
    BY <1>1 DEF Sizes, InitSubs
  <2>2. \A c \in Cells : Sizes(allowedSub)[c] = Size(allowedSub[c])
    BY DEF Sizes
  <2> QED  BY <1>7, <2>1, <2>2
<1>9. Sizes(inside)' = [c \in Cells |-> IF level = 0 \/ allowedTag[c] THEN NumSub[c[2]][level] ELSE 0]
  <2>1. Sizes(inside)' = [c \in Cells |-> Size(InitScores(c))]
    BY <1>1 DEF Sizes, InitCharts
  <2> QED  BY <1>7, <2>1
<1> QED  BY <1>1, <1>4, <1>6, <1>8, <1>9, SameCells DEF CP!InitializeCharts

(* A score of 0 is a rejection the control allows: the level is a new one. *)
LEMMA RejectLevelRefined == IInv /\ RejectLevel => CP!RejectLevel
<1> SUFFICES ASSUME IInv, RejectLevel PROVE CP!RejectLevel
  OBVIOUS
<1>1. ~CP!Known(level)
  BY NotRejectedAgain DEF RejectLevel, CP!Known
<1>2. /\ Stage = "score" /\ Stage' = "return" /\ result' = CP!Failure(level)
      /\ UNCHANGED <<sentence, fine, attempt, target, level, allowedTag, allowedSub, inside, seen>>
  BY DEF RejectLevel, Stage, input, flags, history, Failure, CP!Failure
<1> QED  BY <1>1, <1>2 DEF CP!RejectLevel, CP!charts, SetOf, Sizes

(* A positive score lets the level be pruned.                              *)
LEMMA AcceptLevelRefined == IInv /\ AcceptLevel => CP!AcceptLevel
<1> SUFFICES ASSUME IInv, AcceptLevel PROVE CP!AcceptLevel
  OBVIOUS
<1>1. allowedTag[CP!RootCell]
  BY SameCells DEF AcceptLevel, IInv, Own, VectorsOK, RootAllowed, Passes
<1>2. /\ Stage = "score" /\ Stage' = "prune"
      /\ UNCHANGED <<sentence, fine, attempt, target, level, allowedTag, allowedSub, inside, seen, result>>
  BY DEF AcceptLevel, Stage, input, control, flags, history
<1> QED  BY <1>1, <1>2 DEF CP!AcceptLevel, CP!charts, SetOf, Sizes

(* Retrieval succeeds or fails at the target.                              *)
LEMMA RetrieveRefined == IInv /\ Retrieve => CP!Retrieve
BY DEF Retrieve, CP!Retrieve, Stage, input, flags, history, CP!charts, SetOf, Sizes,
       Failure, CP!Failure, Success, CP!Success

(* parse() tries once more, or returns.                                    *)
LEMMA ReturnRefined == IInv /\ Return => CP!Retry \/ CP!Finish
BY DEF Return, MayRetry, CP!Retry, CP!Finish, CP!MayRetry, Stage, input, control, flags, history,
       CP!charts, SetOf, Sizes

(* The passes that only compute scores are no step of the control.         *)
LEMMA ScorePassStutters ==
  ASSUME Stage' = Stage, DOMAIN inside = Cells,
         \A c \in Cells : DOMAIN inside'[c] = DOMAIN inside[c],
         UNCHANGED <<sentence, fine, control, flags, seen>>
  PROVE  UNCHANGED CP!vars
<1>1. Sizes(inside)' = Sizes(inside)
  BY DEF Sizes, Size
<1> QED  BY <1>1 DEF CP!vars, control, flags, SetOf, Sizes

(* Scoring the words changes no size and no flag.                          *)
LEMMA SetTerminalsRefined == IInv /\ SetTerminals => UNCHANGED CP!vars
<1> SUFFICES ASSUME IInv, SetTerminals PROVE UNCHANGED CP!vars
  OBVIOUS
<1>1. Stage' = Stage
  BY DEF SetTerminals, Stage
<1>2. \A c \in Cells : DOMAIN inside'[c] = DOMAIN inside[c]
  BY DEF SetTerminals, TerminalScores
<1>3. DOMAIN inside = Cells
  BY DEF IInv, Own, TypesOK
<1> QED  BY <1>1, <1>2, <1>3, ScorePassStutters DEF SetTerminals, input, history

(* Neither do the binary rules.                                            *)
LEMMA InsideBinaryRefined == IInv /\ InsideBinary => UNCHANGED CP!vars
<1> SUFFICES ASSUME IInv, InsideBinary PROVE UNCHANGED CP!vars
  OBVIOUS
<1>1. Stage' = Stage
  BY DEF InsideBinary, Stage
<1>2. DOMAIN inside = Cells
  BY DEF IInv, Own, TypesOK
<1>3. \A c \in Cells : DOMAIN inside'[c] = DOMAIN inside[c]
  BY <1>2 DEF InsideBinary, BinaryScores
<1> QED  BY <1>1, <1>2, <1>3, ScorePassStutters DEF InsideBinary, input, history

(* Nor the unary rules.                                                    *)
LEMMA InsideUnaryRefined == IInv /\ InsideUnary => UNCHANGED CP!vars
<1> SUFFICES ASSUME IInv, InsideUnary PROVE UNCHANGED CP!vars
  OBVIOUS
<1>1. Stage' = Stage
  BY DEF InsideUnary, Stage
<1>2. \A c \in Cells : DOMAIN inside'[c] = DOMAIN inside[c]
  BY DEF InsideUnary, UnaryScores
<1>3. DOMAIN inside = Cells
  BY DEF IInv, Own, TypesOK
<1> QED  BY <1>1, <1>2, <1>3, ScorePassStutters DEF InsideUnary, input, history

(* Nor the outside pass.                                                   *)
LEMMA OutsideSpanRefined == IInv /\ OutsideSpan => UNCHANGED CP!vars
<1> SUFFICES ASSUME IInv, OutsideSpan PROVE UNCHANGED CP!vars
  OBVIOUS
<1>1. Stage' = Stage
  BY DEF OutsideSpan, Stage
<1> QED  BY <1>1 DEF OutsideSpan, CP!vars, input, control, flags, history, SetOf, Sizes

(* Pruning leaves what the control lets a level leave: fewer flags, ROOT   *)
(* over the sentence, and at a known level what has been recorded.         *)
LEMMA PruneChartsRefined == IInv /\ PruneCharts => CP!PruneCharts
<1> SUFFICES ASSUME IInv, PruneCharts PROVE CP!PruneCharts
  OBVIOUS
<1>1. /\ allowedTag' = PrunedTag /\ allowedSub' = PrunedSub /\ level' = level + 1
      /\ pc = "prune" /\ Stage = "prune"
      /\ Stage' = IF level = target THEN "retrieve" ELSE "charts"
      /\ seen' = IF level < Len(seen) THEN seen
                 ELSE Append(seen, [tag |-> PrunedTag, sub |-> SetOf(PrunedSub)])
      /\ UNCHANGED <<sentence, fine, attempt, target, inside, result>>
  BY DEF PruneCharts, Stage, input
<1>2. Own /\ allowedTag \in [Cells -> BOOLEAN] /\ DOMAIN allowedSub = Cells
      /\ \A c \in Cells : DOMAIN allowedSub[c] \subseteq AllSubIds
  BY DEF IInv, Own, TypesOK, VectorsOK
<1> DEFINE kept == SetOf(PrunedSub)
<1>3. SetOf(allowedSub)' = kept
  BY <1>1 DEF SetOf
<1>4. \A c \in Cells : kept[c] \subseteq SetOf(allowedSub)[c] /\ (~allowedTag[c] => kept[c] = SetOf(allowedSub)[c])
  BY DEF SetOf, PrunedSub
<1>5. kept \in [Cells -> SUBSET CP!AllSubs]
  <2>1. \A c \in Cells : kept[c] \subseteq AllSubIds
    BY <1>2, <1>4 DEF SetOf
  <2> QED  BY <2>1, SameAllSubs DEF SetOf
<1>6. kept[RootCell] = SetOf(allowedSub)[RootCell]
  <2>1. DOMAIN allowedSub[RootCell] = {0}
    <3>1. Scoring /\ allowedTag[RootCell] /\ level \in AllLevels
      BY <1>1, <1>2 DEF Scoring, Passes, Own, VectorsOK, RootAllowed
    <3> QED  BY <3>1, ScoringShapes, Shapes, SubShapes
  <2>2. PrunedSub[RootCell][0] /\ DOMAIN PrunedSub[RootCell] = DOMAIN allowedSub[RootCell]
    BY <1>1, <1>2, RootKept, Shapes DEF PrunedSub
  <2>3. allowedSub[RootCell][0]
    BY <1>1, <1>2 DEF Own, VectorsOK, RootAllowed, Passes
  <2> QED  BY <2>1, <2>2, <2>3, Shapes DEF SetOf
<1>7. CP!Pruned(kept)
  BY <1>4, <1>6, SameCells DEF CP!Pruned
<1>8. allowedTag' = [c \in Cells |-> allowedTag[c] /\ kept[c] # {}]
  <2>1. \A c \in Cells : (\E s \in DOMAIN PrunedSub[c] : PrunedSub[c][s]) <=> kept[c] # {}
    BY DEF SetOf
  <2> HIDE DEF kept
  <2> QED  BY <1>1, <2>1 DEF PrunedTag
<1>9. CP!Known(level) <=> level < Len(seen)
  BY DEF CP!Known
<1>10. level < Len(seen) => kept = seen[level + 1].sub
  BY <1>1, SeenAgain
<1>11. \A c \in Cells : DOMAIN PrunedSub[c] = DOMAIN allowedSub[c]
  BY DEF PrunedSub
<1>12. Sizes(allowedSub)' = Sizes(allowedSub) /\ Sizes(inside)' = Sizes(inside)
  BY <1>1, <1>11 DEF Sizes, Size
<1> HIDE DEF kept
<1> QED  BY <1>1, <1>3, <1>5, <1>7, <1>8, <1>9, <1>10, <1>12, SameCells
         DEF CP!PruneCharts, CP!Chart, kept

-----------------------------------------------------------------------------
(* The invariant holds at first.                                           *)
LEMMA InitInv == Init => IInv
<1> SUFFICES ASSUME Init PROVE IInv
  OBVIOUS
<1>1. CP!IInv
  BY InitRefined, CP!InitInv, AbstractShape, AbstractHierarchy
     DEF CP!ShapeAssumption, CP!HierarchyAssumption
<1>2. Traced
  <2>1. PICK r : r[0] = Start /\ IsRun(r)
    BY RunExists
  <2>2. pc \notin InLoop /\ seen = <<>>
    BY DEF Init, InLoop, Passes
  <2> QED  BY <2>1, <2>2 DEF Traced
<1> QED  BY <1>1, <1>2, InitOwn DEF IInv

(* Every step keeps to the run of the call's inputs, and records what it   *)
(* has left.                                                               *)
LEMMA TracedPreserved == IInv /\ Next => Traced'
<1> SUFFICES ASSUME IInv, Next PROVE Traced'
  OBVIOUS
<1>0. Traced
  BY DEF IInv
<1>1. CASE Load
  <2>1. seen' = <<>> /\ pc' \notin InLoop
    BY <1>1, ControlFacts DEF Load, InLoop, Passes, history
  <2>2. PICK r : r[0] = Start' /\ IsRun(r)
    BY RunExists
  <2> QED  BY <2>1, <2>2 DEF Traced, InLoop, Passes
<1>2. CASE StartAttempt
  <2>1. Here' = Start
    BY <1>2 DEF StartAttempt, FreshFlags, Here, Start, input
  <2> QED  BY <1>0, <1>2, <2>1, TracedStep DEF StartAttempt, input, history
<1>3. CASE ParseEmpty \/ RejectLevel \/ Retrieve \/ Return
  <2>1. pc' \notin InLoop /\ UNCHANGED <<seen, sentence, models, threshold>>
    BY <1>3 DEF ParseEmpty, RejectLevel, Retrieve, Return, input, history, InLoop, Passes
  <2> QED  BY <1>0, <2>1, TracedStep
<1>4. CASE InitializeCharts \/ SetTerminals \/ InsideBinary \/ InsideUnary \/ AcceptLevel \/ OutsideSpan
  <2>1. Here' = After(Here)
    BY <1>4, LoopSteps
  <2>2. pc \in InLoop /\ UNCHANGED <<seen, sentence, models, threshold>>
    BY <1>4 DEF InitializeCharts, SetTerminals, InsideBinary, InsideUnary, AcceptLevel, OutsideSpan,
                input, history, InLoop, Passes
  <2> QED  BY <1>0, <2>1, <2>2, TracedStep
<1>5. CASE PruneCharts
  <2>1. /\ pc = "prune" /\ pc' = IF level = target THEN "retrieve" ELSE "charts"
        /\ seen' = IF level < Len(seen) THEN seen
                   ELSE Append(seen, [tag |-> PrunedTag, sub |-> SetOf(PrunedSub)])
        /\ UNCHANGED <<sentence, models, threshold>>
    BY <1>5 DEF PruneCharts, input
  <2>2. pc' \in InLoop => Here' = After(Here)
    BY <1>5, <2>1, LoopSteps DEF InLoop, Passes
  <2>3. pc \in InLoop
    BY <2>1 DEF InLoop, Passes
  <2>4. CASE level < Len(seen)
    BY <1>0, <2>1, <2>2, <2>3, <2>4, TracedStep
  <2>5. CASE ~(level < Len(seen))
    <3>1. PICK r : /\ IsRun(r) /\ r[0] = Start
                   /\ pc \in InLoop => \E n \in Nat : r[n] = Here
                   /\ \A k \in 1..Len(seen) : \E n \in Nat :
                        r[n].pc = "prune" /\ r[n].level = k - 1 /\ seen[k].sub = Left(r[n])
      BY <1>0 DEF Traced
    <3>2. PICK m \in Nat : r[m] = Here
      BY <2>3, <3>1
    <3>3. Start' = Start
      BY <2>1 DEF Start
    <3>4. pc' \in InLoop => \E n \in Nat : r[n] = Here'
      <4>1. r[m + 1] = After(r[m])
        BY <3>1 DEF IsRun
      <4>2. After(r[m]) = After(Here)
        BY <3>2
      <4>3. m + 1 \in Nat
        OBVIOUS
      <4> QED  BY <2>2, <4>1, <4>2, <4>3
    <3>5. Len(seen) = level /\ level \in Nat /\ Len(seen) \in Nat
      BY <2>3, <2>5, ControlFacts, Shapes
    <3>6. /\ Len(seen') = level + 1 /\ seen'[level + 1].sub = SetOf(PrunedSub)
          /\ \A k \in 1..level : seen'[k] = seen[k]
      <4>1. seen \in Seq([tag : [CP!Cells -> BOOLEAN], sub : [CP!Cells -> SUBSET CP!AllSubs]])
        BY DEF IInv, CP!IInv, CP!TypeOK
      <4> HIDE DEF CP!IInv
      <4> QED  BY <2>1, <2>5, <3>5, <4>1
    <3>7. ASSUME NEW k \in 1..Len(seen')
          PROVE  \E n \in Nat : r[n].pc = "prune" /\ r[n].level = k - 1 /\ seen'[k].sub = Left(r[n])
      <4>1. CASE k = level + 1
        <5>1. r[m].pc = "prune" /\ r[m].level = k - 1
          BY <2>1, <3>2, <3>5, <4>1 DEF Here
        <5>2. Left(r[m]) = Left(Here)
          BY <3>2
        <5>3. Left(Here) = SetOf(PrunedSub)
          BY SamePruned DEF Left
        <5> QED  BY <3>6, <4>1, <5>1, <5>2, <5>3
      <4>2. CASE k # level + 1
        <5>1. k \in 1..level
          BY <3>5, <3>6, <4>2
        <5> QED  BY <3>1, <3>5, <3>6, <5>1
      <4> QED  BY <4>1, <4>2
    <3>8. \A n : Left(r[n])' = Left(r[n])
      OBVIOUS
    <3>9. IsRun(r)'
      BY <3>1
    <3> QED  BY <3>1, <3>3, <3>4, <3>7, <3>8, <3>9 DEF Traced, InLoop, Passes
  <2> QED  BY <2>4, <2>5
<1> QED  BY <1>1, <1>2, <1>3, <1>4, <1>5 DEF Next

(* Every step is one of the control, or none.                              *)
LEMMA StepRefined == IInv /\ [Next]_vars => [CP!Next]_CP!vars
<1> SUFFICES ASSUME IInv, [Next]_vars PROVE CP!Next \/ UNCHANGED CP!vars
  OBVIOUS
<1>1. CASE UNCHANGED vars
  BY <1>1 DEF vars, input, control, flags, history, CP!vars, Stage, SetOf, Sizes
<1>2. CASE SetTerminals \/ InsideBinary \/ InsideUnary \/ OutsideSpan
  BY <1>2, SetTerminalsRefined, InsideBinaryRefined, InsideUnaryRefined, OutsideSpanRefined
<1>3. CASE \/ Load \/ ParseEmpty \/ StartAttempt \/ InitializeCharts \/ RejectLevel
           \/ AcceptLevel \/ PruneCharts \/ Retrieve \/ Return
  <2>1. CP!Next
    BY <1>3, LoadRefined, ParseEmptyRefined, StartAttemptRefined, InitializeChartsRefined,
       RejectLevelRefined, AcceptLevelRefined, PruneChartsRefined, RetrieveRefined, ReturnRefined
       DEF CP!Next
  <2> QED  BY <2>1
<1> QED  BY <1>1, <1>2, <1>3 DEF Next

(* The invariant is inductive.                                             *)
LEMMA StepInv == IInv /\ [Next]_vars => IInv'
<1> SUFFICES ASSUME IInv, [Next]_vars PROVE IInv'
  OBVIOUS
<1>1. CP!IInv'
  <2>1. CP!IInv /\ [CP!Next]_CP!vars
    BY StepRefined DEF IInv
  <2> QED  BY <2>1, CP!StepInv, AbstractShape, AbstractHierarchy
           DEF CP!ShapeAssumption, CP!HierarchyAssumption
<1>2. CASE UNCHANGED vars
  <2>1. Own'
    BY <1>2 DEF IInv, Own, TypesOK, LoopOK, VectorsOK, Sized, RootAllowed, vars, input, control, flags, history
  <2>2. Traced'
    <3>1. Here' = Here /\ UNCHANGED <<pc, seen, sentence, models, threshold>>
      BY <1>2 DEF vars, input, control, flags, history, Here
    <3>2. PICK r : /\ IsRun(r) /\ r[0] = Start
                   /\ pc \in InLoop => \E n \in Nat : r[n] = Here
                   /\ \A k \in 1..Len(seen) : \E n \in Nat :
                        r[n].pc = "prune" /\ r[n].level = k - 1 /\ seen[k].sub = Left(r[n])
      BY DEF IInv, Traced
    <3>3. Start' = Start /\ IsRun(r)'
      BY <3>1, <3>2 DEF Start
    <3>4. \A n : Left(r[n])' = Left(r[n])
      OBVIOUS
    <3> QED  BY <3>1, <3>2, <3>3, <3>4 DEF Traced, InLoop, Passes
  <2> QED  BY <1>1, <2>1, <2>2 DEF IInv
<1>3. CASE Next
  <2>1. Own'
    <3>1. Own
      BY DEF IInv
    <3>2. InitializeCharts => level \in AllLevels
      BY ControlFacts DEF InitializeCharts, InLoop
    <3> QED  BY <1>3, <3>1, <3>2, LoadOwn, ParseEmptyOwn, StartAttemptOwn, InitializeChartsOwn,
             SetTerminalsOwn, InsideBinaryOwn, InsideUnaryOwn, RejectLevelOwn, AcceptLevelOwn,
             OutsideSpanOwn, PruneChartsOwn, RetrieveOwn, ReturnOwn DEF Next
  <2>2. Traced'
    BY <1>3, TracedPreserved
  <2> QED  BY <1>1, <2>1, <2>2 DEF IInv
<1> QED  BY <1>2, <1>3

(* Scores are naturals, the loops stay on the spans of the sentence and    *)
(* the extents between its ends, at every level of every attempt.          *)
THEOREM TypeCorrect == Spec => []TypeOK
<1>1. IInv => TypeOK
  <2> SUFFICES ASSUME IInv PROVE TypeOK
    OBVIOUS
  <2>1. Own
    BY DEF IInv
  <2>2. \A c \in Cells : \A v \in {inside[c], outside[c]} : \A s \in DOMAIN v : v[s] \in Nat
    BY <2>1 DEF Own, TypesOK
  <2>3. \A p \in 0..NumWords, t \in TagIds : extent[p][t] \in ExtentType
    BY <2>1 DEF Own, VectorsOK
  <2>4. pos.len \in 0..(NumWords + 1) /\ pos.begin \in 0..(NumWords - 1) /\ pos.tag \in 0..NumTags
    BY <2>1 DEF Own, LoopOK
  <2> QED  BY <2>1, <2>2, <2>3, <2>4, ControlFacts DEF Own, TypesOK, TypeOK, ExtentType
<1> QED  BY <1>1, InitInv, StepInv, PTL DEF Spec

(* CoarseToFine and the module of its proofs, instantiated alike, are      *)
(* alike.                                                                  *)
LEMMA SameControl ==
  /\ C2F!Cells = CP!Cells /\ C2F!RootCell = CP!RootCell /\ C2F!AllSubs = CP!AllSubs
  /\ C2F!vars = CP!vars /\ C2F!charts = CP!charts
  /\ \A l : C2F!Known(l) <=> CP!Known(l)
BY DEF C2F!Cells, CP!Cells, C2F!Spans, CP!Spans, C2F!RootCell, CP!RootCell,
       C2F!AllSubs, CP!AllSubs, C2F!Subs, CP!Subs, C2F!Levels, CP!Levels,
       C2F!vars, CP!vars, C2F!charts, CP!charts, C2F!Known, CP!Known

(* So are their steps.                                                     *)
LEMMA SameNext == CP!Next => C2F!Next
<1>1. CP!SetFineLevel => C2F!SetFineLevel
  BY DEF CP!SetFineLevel, C2F!SetFineLevel, CP!ClampedLevel, C2F!ClampedLevel, CP!charts, C2F!charts
<1>2. CP!ParseEmpty => C2F!ParseEmpty
  BY DEF CP!ParseEmpty, C2F!ParseEmpty, CP!Success, C2F!Success, CP!charts, C2F!charts
<1>3. CP!StartAttempt => C2F!StartAttempt
  BY SameControl DEF CP!StartAttempt, C2F!StartAttempt, CP!TargetOf, C2F!TargetOf
<1>4. CP!InitializeCharts => C2F!InitializeCharts
  BY SameControl DEF CP!InitializeCharts, C2F!InitializeCharts, CP!InitTag, C2F!InitTag,
     CP!InitSub, C2F!InitSub, CP!Refine, C2F!Refine, CP!Subs, C2F!Subs
<1>5. CP!RejectLevel => C2F!RejectLevel
  BY SameControl DEF CP!RejectLevel, C2F!RejectLevel, CP!Failure, C2F!Failure, CP!charts, C2F!charts
<1>6. CP!AcceptLevel => C2F!AcceptLevel
  BY SameControl DEF CP!AcceptLevel, C2F!AcceptLevel, CP!charts, C2F!charts
<1>7. CP!PruneCharts => C2F!PruneCharts
  BY SameControl DEF CP!PruneCharts, C2F!PruneCharts, CP!Pruned, C2F!Pruned, CP!Chart, C2F!Chart
<1>8. CP!Retrieve => C2F!Retrieve
  BY DEF CP!Retrieve, C2F!Retrieve, CP!Success, C2F!Success, CP!Failure, C2F!Failure, CP!charts, C2F!charts
<1>9. CP!Retry => C2F!Retry
  BY DEF CP!Retry, C2F!Retry, CP!MayRetry, C2F!MayRetry, CP!charts, C2F!charts
<1>10. CP!Finish => C2F!Finish
  BY DEF CP!Finish, C2F!Finish, CP!MayRetry, C2F!MayRetry, CP!charts, C2F!charts
<1> QED  BY <1>1, <1>2, <1>3, <1>4, <1>5, <1>6, <1>7, <1>8, <1>9, <1>10 DEF CP!Next, C2F!Next

(* The parser with its scores implements CoarseToFine: what is proved of   *)
(* the control for arbitrary outcomes of the levels holds of the parser.   *)
THEOREM Refinement == Spec => ImplementsCoarseToFine
<1>1. Init => C2F!Init
  BY InitRefined, SameControl DEF CP!Init, C2F!Init, CP!Failure, C2F!Failure
<1>2. IInv /\ [Next]_vars => [C2F!Next]_C2F!vars
  <2>1. UNCHANGED CP!vars => UNCHANGED C2F!vars
    BY DEF CP!vars, C2F!vars, CP!charts, C2F!charts
  <2> QED  BY <2>1, StepRefined, SameNext
<1> QED  BY <1>1, <1>2, InitInv, StepInv, PTL DEF Spec, ImplementsCoarseToFine, C2F!SafeSpec

(* The second attempt cannot fail for want of a score: every level it      *)
(* comes to gives the sentence a positive one, and only retrieving the     *)
(* tree may still fail.                                                    *)
THEOREM SecondAttemptScored == Spec => [](pc = "score" /\ attempt = 2 => SentenceScore # 0)
<1>1. IInv => (pc = "score" /\ attempt = 2 => SentenceScore # 0)
  <2> SUFFICES ASSUME IInv, pc = "score", attempt = 2 PROVE SentenceScore # 0
    OBVIOUS
  <2>1. level < Len(seen)
    BY ControlFacts DEF InLoop, Passes
  <2> QED  BY <2>1, NotRejectedAgain
<1> QED  BY <1>1, InitInv, StepInv, PTL DEF Spec

-----------------------------------------------------------------------------
(* The trees of a level, and the grammar they are of.                      *)
Trees == TreesAt(level)
AllTrees == UNION {Trees[s] : s \in Spans}
Ok(s, S) == Usable(<<s, S[1]>>, S)

AllowedGrammar ==
  [n |-> NumWords, model |-> UsedModel(models[level]), words |-> WordTable(level),
   cells |-> {x \in Spans \X Symbols(level) : Usable(<<x[1], x[2][1]>>, x[2])}]

(* They are all trees of that grammar.                                     *)
LEMMA AllowedTrees ==
  /\ AllowedGrammar.n = NumWords /\ SpansOf(NumWords) = Spans
  /\ AllowedGrammar.model = UsedModel(models[level]) /\ AllowedGrammar.words = WordTable(level)
  /\ CellTrees(AllowedGrammar) = Trees /\ GrammarTrees(AllowedGrammar) = AllTrees
  /\ \A s \in Spans : \A P : <<s, P>> \in AllowedGrammar.cells <=> P \in Symbols(level) /\ Ok(s, P)
<1>1. /\ AllowedGrammar.n = NumWords /\ SpansOf(NumWords) = Spans
      /\ AllowedGrammar.model = UsedModel(models[level]) /\ AllowedGrammar.words = WordTable(level)
      /\ AllowedGrammar.cells = {x \in Spans \X Symbols(level) : Usable(<<x[1], x[2][1]>>, x[2])}
  BY DEF AllowedGrammar, SpansOf, Spans
<1>2. CellTrees(AllowedGrammar) = Trees
  BY <1>1 DEF CellTrees, Trees, TreesAt
<1>3. GrammarTrees(AllowedGrammar) = AllTrees
  BY <1>1, <1>2 DEF GrammarTrees, AllTrees
<1> QED  BY <1>1, <1>2, <1>3 DEF Ok

(* The spans between the ends of one are shorter.                          *)
LEMMA SpanParts ==
  ASSUME NEW s \in Spans
  PROVE  /\ Width(s) \in Nat \ {0} /\ Width(s) <= NumWords
         /\ Width(s) = 1 <=> s[2] = s[1] + 1
         /\ Width(s) = 1 => MidsOf(s) = {}
         /\ IsFiniteSet(MidsOf(s)) /\ MidsOf(s) \subseteq 0..NumWords
         /\ \A m \in MidsOf(s) :
              /\ <<s[1], m>> \in Spans /\ <<m, s[2]>> \in Spans
              /\ Width(<<s[1], m>>) < Width(s) /\ Width(<<m, s[2]>>) < Width(s)
              /\ Width(<<s[1], m>>) = m - s[1] /\ Width(<<m, s[2]>>) = s[2] - m
<1>1. NumWords \in Nat \ {0} /\ SpansOf(NumWords) = Spans
  BY Shapes, AllowedTrees
<1> QED  BY <1>1, PartsOfSpans

-----------------------------------------------------------------------------
(* The rules in use, and the kinds of trees over a span.                   *)
InUse(f) == {r \in DOMAIN f : r[1][1] \notin Lexicals /\ f[r] > 0}
Bins == InUse(Model.bin)
Unas == {r \in InUse(Model.una) : r[1][1] # r[2][1]}

IsWord(s, x) ==
  Width(s) = 1 /\ \E P \in Symbols(level) :
    Ok(s, P) /\ Terminal(Model, s[1], P) > 0 /\ x = WordTree(P, s[1], Terminal(Model, s[1], P))

IsJoined(s, x) ==
  \E r \in Bins, m \in MidsOf(s) : \E a \in Trees[<<s[1], m>>], b \in Trees[<<m, s[2]>>] :
    Ok(s, r[1]) /\ a.sym = r[2] /\ b.sym = r[3] /\ x = BinaryTree(r[1], a, b, Model.bin[r])

IsPlain(s, x) == IsWord(s, x) \/ IsJoined(s, x)

IsRaised(s, x) ==
  \E r \in Unas : \E a : IsPlain(s, a) /\ Ok(s, r[1]) /\ a.sym = r[2] /\ x = UnaryTree(r[1], a, Model.una[r])

(* The tables of the rules in use.                                         *)
LEMMA UsedTables ==
  /\ UsedModel(models[level]).bin = [r \in Bins |-> Model.bin[r]]
  /\ UsedModel(models[level]).una = [r \in InUse(Model.una) |-> Model.una[r]]
BY DEF UsedModel, Used, Bins, InUse, Lexicals, Model

(* What the grammar of a level has.                                        *)
LEMMA AllowedHas ==
  /\ DOMAIN AllowedGrammar.model.bin = Bins
  /\ \A r \in Bins : AllowedGrammar.model.bin[r] = Model.bin[r]
  /\ DOMAIN AllowedGrammar.model.una = InUse(Model.una)
  /\ \A r \in InUse(Model.una) : AllowedGrammar.model.una[r] = Model.una[r]
  /\ \A b \in 0..(NumWords - 1) :
       /\ DOMAIN AllowedGrammar.words[b] = Symbols(level)
       /\ \A S \in Symbols(level) : AllowedGrammar.words[b][S] = Terminal(Model, b, S)
<1>1. ASSUME NEW b \in 0..(NumWords - 1)
      PROVE  /\ DOMAIN AllowedGrammar.words[b] = Symbols(level)
             /\ \A S \in Symbols(level) : AllowedGrammar.words[b][S] = Terminal(Model, b, S)
  <2>1. AllowedGrammar.words[b] = [S \in Symbols(level) |-> Terminal(Model, b, S)]
    BY AllowedTrees DEF WordTable, Model
  <2> QED  BY <2>1
<1>2. AllowedGrammar.model = UsedModel(models[level])
  BY AllowedTrees
<1> QED  BY <1>1, <1>2, UsedTables

-----------------------------------------------------------------------------
(* There are finitely many symbols, rules and spans.                       *)
LEMMA RuleFacts ==
  ASSUME Scoring
  PROVE  /\ IsFiniteSet(Bins) /\ IsFiniteSet(Unas) /\ IsFiniteSet(Symbols(level)) /\ IsFiniteSet(Spans)
         /\ \A r \in Bins : /\ r \in DOMAIN Model.bin /\ Model.bin[r] \in Nat /\ Model.bin[r] > 0
                            /\ r = <<r[1], r[2], r[3]>> /\ r[1][1] \notin Lexicals
                            /\ r[1] \in Symbols(level) /\ r[2] \in Symbols(level) /\ r[3] \in Symbols(level)
         /\ \A r \in Unas : /\ r \in DOMAIN Model.una /\ Model.una[r] \in Nat /\ Model.una[r] > 0
                            /\ r = <<r[1], r[2]>> /\ r[1][1] \notin Lexicals /\ r[1][1] # r[2][1]
                            /\ r[1] \in Symbols(level) /\ r[2] \in Symbols(level)
<1>1. /\ IsFiniteSet(DOMAIN Model.bin) /\ IsFiniteSet(DOMAIN Model.una)
      /\ \A r \in DOMAIN Model.bin : Model.bin[r] \in Nat
                                     /\ r \in Symbols(level) \X Symbols(level) \X Symbols(level)
      /\ \A r \in DOMAIN Model.una : Model.una[r] \in Nat /\ r \in Symbols(level) \X Symbols(level)
  BY ScoringShapes DEF IsModel
<1>2. IsFiniteSet(Bins) /\ IsFiniteSet(Unas)
  <2>1. Bins \in SUBSET DOMAIN Model.bin /\ Unas \in SUBSET DOMAIN Model.una
    BY DEF Bins, Unas, InUse
  <2> QED  BY <1>1, <2>1, FS_Subset
<1>3. IsFiniteSet(Symbols(level))
  <2> DEFINE row == [t \in TagIds |-> {<<t, i>> : i \in 0..(NumSub[t][level] - 1)}]
             Rows == {row[t] : t \in TagIds}
  <2>1. IsFiniteSet(TagIds)
    BY Shapes, FS_Interval DEF TagIds
  <2>2. \A Z \in Rows : IsFiniteSet(Z)
    <3> SUFFICES ASSUME NEW t \in TagIds PROVE IsFiniteSet(row[t])
      OBVIOUS
    <3> DEFINE I == 0..(NumSub[t][level] - 1)
               h == [i \in I |-> <<t, i>>]
    <3>1. NumSub[t][level] \in Nat
      BY ScoringShapes, HierarchyAssumption
    <3>2. IsFiniteSet(I)
      BY <3>1, FS_Interval
    <3>3. row[t] = {h[i] : i \in I}
      OBVIOUS
    <3> HIDE DEF I, h, row
    <3> QED  BY <3>2, <3>3, FiniteImage
  <2>3. IsFiniteSet(Rows)
    <3> HIDE DEF row
    <3> QED  BY <2>1, FiniteImage
  <2>4. Symbols(level) = UNION Rows
    BY DEF Symbols
  <2> HIDE DEF Rows
  <2> QED  BY <2>2, <2>3, <2>4, FS_UNION
<1>4. IsFiniteSet(Spans)
  BY Shapes, FiniteSpans, AllowedTrees
<1>5. \A r \in Bins : r \in DOMAIN Model.bin /\ r[1][1] \notin Lexicals /\ Model.bin[r] > 0
  BY DEF Bins, InUse
<1>6. \A r \in Unas : r \in DOMAIN Model.una /\ r[1][1] \notin Lexicals /\ Model.una[r] > 0 /\ r[1][1] # r[2][1]
  BY DEF Unas, InUse
<1> QED  BY <1>1, <1>2, <1>3, <1>4, <1>5, <1>6

(* So it is a grammar, with these kinds of trees.                          *)
LEMMA AllowedKinds ==
  ASSUME Scoring
  PROVE  /\ IsGrammar(AllowedGrammar)
         /\ \A s \in Spans : \A x : /\ CellPlain(AllowedGrammar, s, x) <=> IsPlain(s, x)
                                    /\ CellRaised(AllowedGrammar, s, x) <=> IsRaised(s, x)
<1> DEFINE g == AllowedGrammar
           U == InUse(Model.una)
<1>1. /\ g.n = NumWords /\ NumWords \in Nat \ {0} /\ CellTrees(g) = Trees
      /\ \A s \in Spans : \A P : <<s, P>> \in g.cells <=> P \in Symbols(level) /\ Ok(s, P)
  BY Shapes, AllowedTrees
<1>2. /\ DOMAIN g.model.bin = Bins /\ \A r \in Bins : g.model.bin[r] = Model.bin[r]
      /\ DOMAIN g.model.una = U /\ \A r \in U : g.model.una[r] = Model.una[r]
      /\ \A b \in 0..(NumWords - 1) : /\ DOMAIN g.words[b] = Symbols(level)
                                      /\ \A S \in Symbols(level) : g.words[b][S] = Terminal(Model, b, S)
  BY AllowedHas
<1> HIDE DEF g
<1>3. IsGrammar(g)
  <2>1. IsFiniteSet(U) /\ \A r \in U : Model.una[r] \in Nat \ {0}
    <3>1. IsFiniteSet(DOMAIN Model.una) /\ \A r \in DOMAIN Model.una : Model.una[r] \in Nat
      BY ScoringShapes DEF IsModel
    <3>2. U \in SUBSET DOMAIN Model.una /\ \A r \in U : Model.una[r] > 0
      BY DEF InUse
    <3> QED  BY <3>1, <3>2, FS_Subset
  <2>2. IsFiniteSet(Bins) /\ \A r \in Bins : Model.bin[r] \in Nat \ {0}
    BY RuleFacts
  <2>3. \A b \in 0..(NumWords - 1) : IsFiniteSet(DOMAIN g.words[b]) /\ \A P \in DOMAIN g.words[b] : g.words[b][P] \in Nat
    <3>1. IsFiniteSet(Symbols(level)) /\ \A b, S : Terminal(Model, b, S) \in Nat
      BY RuleFacts, WordScores
    <3> QED  BY <1>2, <3>1
  <2> HIDE DEF U
  <2> QED  BY <1>1, <1>2, <2>1, <2>2, <2>3 DEF IsGrammar
<1>4. \A s \in Spans : \A x : CellWord(g, s, x) <=> IsWord(s, x)
  <2> TAKE s \in Spans
  <2> TAKE x
  <2>1. DOMAIN g.words[s[1]] = Symbols(level) /\ \A P \in Symbols(level) : g.words[s[1]][P] = Terminal(Model, s[1], P)
    BY <1>2, Shapes
  <2> QED  BY <1>1, <2>1 DEF CellWord, IsWord
<1>5. \A s \in Spans : \A x : CellJoined(g, s, x) <=> IsJoined(s, x)
  <2>1. \A s \in Spans : \A r \in Bins : <<s, r[1]>> \in g.cells <=> Ok(s, r[1])
    BY <1>1, RuleFacts
  <2>2. ASSUME NEW s \in Spans, NEW x, CellJoined(g, s, x) PROVE IsJoined(s, x)
    BY <1>1, <1>2, <2>1, <2>2 DEF CellJoined, IsJoined
  <2>3. ASSUME NEW s \in Spans, NEW x, IsJoined(s, x) PROVE CellJoined(g, s, x)
    <3>1. PICK r \in Bins, m \in MidsOf(s) : \E a \in Trees[<<s[1], m>>], b \in Trees[<<m, s[2]>>] :
            Ok(s, r[1]) /\ a.sym = r[2] /\ b.sym = r[3] /\ x = BinaryTree(r[1], a, b, Model.bin[r])
      BY <2>3 DEF IsJoined
    <3>2. <<s, r[1]>> \in g.cells /\ r \in DOMAIN g.model.bin /\ g.model.bin[r] = Model.bin[r]
      BY <1>2, <2>1, <3>1
    <3> QED  BY <1>1, <3>1, <3>2 DEF CellJoined
  <2> QED  BY <2>2, <2>3
<1>6. \A s \in Spans : \A x : CellPlain(g, s, x) <=> IsPlain(s, x)
  BY <1>4, <1>5 DEF CellPlain, IsPlain
<1>7. \A s \in Spans : \A x : CellRaised(g, s, x) <=> IsRaised(s, x)
  <2>1. Unas = {r \in U : r[1][1] # r[2][1]}
    BY DEF Unas
  <2> HIDE DEF U
  <2>2. \A s \in Spans : \A r \in Unas : <<s, r[1]>> \in g.cells <=> Ok(s, r[1])
    BY <1>1, RuleFacts
  <2>3. ASSUME NEW s \in Spans, NEW x, CellRaised(g, s, x) PROVE IsRaised(s, x)
    BY <1>2, <1>6, <2>1, <2>2, <2>3 DEF CellRaised, IsRaised
  <2>4. ASSUME NEW s \in Spans, NEW x, IsRaised(s, x) PROVE CellRaised(g, s, x)
    BY <1>2, <1>6, <2>1, <2>2, <2>4 DEF CellRaised, IsRaised
  <2> QED  BY <2>3, <2>4
<1> QED  BY <1>3, <1>6, <1>7 DEF g

(* What the parts of a tree show.                                          *)
TreeFact(s, x) ==
  /\ x.span = s /\ x.score \in Nat \ {0} /\ x.sym \in Symbols(level) /\ Ok(s, x.sym)
  /\ x.sym[1] \in Lexicals => Width(s) = 1

(* All trees have them, and those of unary rules are known by a flag.      *)
LEMMA TreeFacts ==
  ASSUME Scoring
  PROVE  \A s \in Spans : /\ \A x \in Trees[s] : TreeFact(s, x)
                          /\ \A x : IsPlain(s, x) <=> x \in Trees[s] /\ x.unary = FALSE
                          /\ \A x : IsRaised(s, x) <=> x \in Trees[s] /\ x.unary = TRUE
<1> TAKE s \in Spans
<1>1. SpansOf(AllowedGrammar.n) = Spans /\ CellTrees(AllowedGrammar) = Trees /\ IsGrammar(AllowedGrammar)
  BY AllowedTrees, AllowedKinds
<1>2. /\ \A x \in Trees[s] : FitsCell(AllowedGrammar, s, x) /\ x.unary \in BOOLEAN
      /\ \A x : IsPlain(s, x) <=> x \in Trees[s] /\ x.unary = FALSE
      /\ \A x : IsRaised(s, x) <=> x \in Trees[s] /\ x.unary = TRUE
  BY <1>1, AllowedKinds, CellFacts
<1>3. ASSUME NEW x \in Trees[s] PROVE TreeFact(s, x)
  <2>1. x.span = s /\ x.score \in Nat \ {0} /\ x.sym \in Symbols(level) /\ Ok(s, x.sym)
    BY <1>2, AllowedTrees DEF FitsCell
  <2>2. \A y : IsPlain(s, y) => y.sym[1] \notin Lexicals \/ Width(s) = 1
    <3>1. ASSUME NEW r \in Bins, NEW a, NEW b PROVE BinaryTree(r[1], a, b, Model.bin[r]).sym[1] \notin Lexicals
      BY TreeParts, RuleFacts
    <3> QED  BY <3>1 DEF IsPlain, IsWord, IsJoined
  <2>3. IsRaised(s, x) => x.sym[1] \notin Lexicals
    <3>1. ASSUME NEW r \in Unas, NEW a PROVE UnaryTree(r[1], a, Model.una[r]).sym[1] \notin Lexicals
      BY TreeParts, RuleFacts
    <3> QED  BY <3>1 DEF IsRaised
  <2>4. IsPlain(s, x) \/ IsRaised(s, x)
    BY <1>2
  <2> QED  BY <2>1, <2>2, <2>3, <2>4 DEF TreeFact
<1> QED  BY <1>2, <1>3

(* The trees over a span, by their kinds.                                  *)
LEMMA TreeKinds ==
  ASSUME Scoring, NEW s \in Spans
  PROVE  \A x : x \in Trees[s] <=> IsPlain(s, x) \/ IsRaised(s, x)
<1>1. \A x \in Trees[s] : x.unary \in BOOLEAN
  BY AllowedTrees, AllowedKinds, CellFacts
<1> QED  BY <1>1, TreeFacts

(* There are finitely many trees.                                          *)
LEMMA FiniteTrees ==
  ASSUME Scoring
  PROVE  IsFiniteSet(AllTrees) /\ (\A s \in Spans : IsFiniteSet(Trees[s])) /\ \A t \in AllTrees : t.score \in Nat
<1>1. IsFiniteSet(AllTrees) /\ \A s \in Spans : IsFiniteSet(Trees[s])
  BY AllowedTrees, AllowedKinds, FiniteCells
<1>2. \A s \in Spans : \A x \in Trees[s] : x.score \in Nat
  BY TreeFacts DEF TreeFact
<1> QED  BY <1>1, <1>2 DEF AllTrees

-----------------------------------------------------------------------------
(* The total score of a set of trees.                                      *)
ScoreMap == ScoresIn(AllTrees)
Score(A) == Total(ScoreMap, A)

(* Totals of trees are naturals, and add up.                               *)
LEMMA Scores ==
  ASSUME Scoring
  PROVE  /\ \A t \in AllTrees : ScoreMap[t] = t.score /\ ScoreMap[t] \in Nat
         /\ IsFiniteSet(AllTrees) /\ \A A \in SUBSET AllTrees : IsFiniteSet(A) /\ Score(A) \in Nat
         /\ Score({}) = 0
         /\ \A t \in AllTrees : Score({t}) = t.score
         /\ \A A, B \in SUBSET AllTrees : A \cap B = {} => Score(A \cup B) = Score(A) + Score(B)
BY FiniteTrees, ScoreTotals DEF ScoreMap, Score, ScoreIn

(* The total that the property names is this one.                          *)
LEMMA ScoreOfTotal ==
  ASSUME Scoring, NEW A \in SUBSET AllTrees
  PROVE  ScoreOf(A) = Score(A)
BY FiniteTrees, ScoreOfIsTotal DEF ScoreMap, Score, ScoreIn

(* The trees a binary rule makes of two sets of trees.                     *)
LEMMA JoinedScore ==
  ASSUME Scoring, NEW A \in SUBSET AllTrees, NEW D \in SUBSET AllTrees, NEW P, NEW k \in Nat,
         \A x \in A, y \in D : BinaryTree(P, x, y, k) \in AllTrees
  PROVE  Score(Joins(P, A, D, k)) = k * Score(A) * Score(D)
BY FiniteTrees, ScoreOfJoins DEF ScoreMap, Score, ScoreIn

(* The trees a unary rule makes of trees.                                  *)
LEMMA RaisedScore ==
  ASSUME Scoring, NEW A \in SUBSET AllTrees, NEW P, NEW k \in Nat,
         \A x \in A : UnaryTree(P, x, k) \in AllTrees
  PROVE  Score({UnaryTree(P, x, k) : x \in A}) = k * Score(A)
BY FiniteTrees, ScoreOfRaised DEF ScoreMap, Score, ScoreIn

-----------------------------------------------------------------------------
(* The trees of a symbol over a span, and those of words and binary rules  *)
(* among them.                                                             *)
TreesWith(s, P) == {x \in Trees[s] : x.sym = P}
PlainOf(s, P) == {x \in Trees[s] : x.sym = P /\ ~x.unary}
FullSum(s, P) == Score(TreesWith(s, P))
PlainSum(s, P) == Score(PlainOf(s, P))

(* Those of unary rules are the others, and all have natural totals.       *)
LEMMA SomeTrees ==
  ASSUME Scoring, NEW s \in Spans
  PROVE  \A P : /\ TreesWith(s, P) \in SUBSET AllTrees /\ PlainOf(s, P) \in SUBSET AllTrees
                /\ \A x : x \in PlainOf(s, P) <=> IsPlain(s, x) /\ x.sym = P
                /\ \A x : x \in TreesWith(s, P) <=> x \in PlainOf(s, P) \/ (IsRaised(s, x) /\ x.sym = P)
                /\ \A x : IsRaised(s, x) => x \notin PlainOf(s, P)
                /\ FullSum(s, P) \in Nat /\ PlainSum(s, P) \in Nat
                /\ ~Ok(s, P) => TreesWith(s, P) = {} /\ PlainOf(s, P) = {}
                /\ P[1] \in Lexicals /\ Width(s) # 1 => TreesWith(s, P) = {} /\ PlainOf(s, P) = {}
<1> TAKE P
<1>0. /\ \A x \in Trees[s] : TreeFact(s, x)
      /\ \A x : IsPlain(s, x) <=> x \in Trees[s] /\ x.unary = FALSE
      /\ \A x : IsRaised(s, x) <=> x \in Trees[s] /\ x.unary = TRUE
  BY TreeFacts
<1>1. TreesWith(s, P) \in SUBSET AllTrees /\ PlainOf(s, P) \in SUBSET AllTrees
  BY DEF TreesWith, PlainOf, AllTrees
<1>2. \A x \in Trees[s] : (IsPlain(s, x) /\ ~x.unary) \/ (IsRaised(s, x) /\ ~ ~x.unary)
  BY <1>0, TreeKinds
<1>3. \A x : x \in PlainOf(s, P) <=> IsPlain(s, x) /\ x.sym = P
  BY <1>0, <1>2 DEF PlainOf
<1>4. \A x : IsRaised(s, x) => ~IsPlain(s, x)
  BY <1>0
<1>5. \A x : x \in TreesWith(s, P) <=> x \in PlainOf(s, P) \/ (IsRaised(s, x) /\ x.sym = P)
  BY <1>3, TreeKinds DEF TreesWith
<1>6. FullSum(s, P) \in Nat /\ PlainSum(s, P) \in Nat
  BY <1>1, Scores DEF FullSum, PlainSum
<1>7. \A x \in TreesWith(s, P) : Ok(s, P) /\ (P[1] \in Lexicals => Width(s) = 1)
  BY <1>0 DEF TreesWith, TreeFact
<1>8. PlainOf(s, P) \subseteq TreesWith(s, P)
  BY DEF PlainOf, TreesWith
<1> QED  BY <1>1, <1>3, <1>4, <1>5, <1>6, <1>7, <1>8

(* Over a word, there is its own tree.                                     *)
LEMMA WordPlain ==
  ASSUME Scoring, NEW s \in Spans, Width(s) = 1, NEW P \in Symbols(level), Ok(s, P)
  PROVE  PlainSum(s, P) = Terminal(Model, s[1], P)
<1> DEFINE v == Terminal(Model, s[1], P)
           x == WordTree(P, s[1], v)
<1>1. \A y : ~IsJoined(s, y)
  BY SpanParts DEF IsJoined
<1>2. x.sym = P /\ x.score = v
  BY TreeParts
<1>3. \A y : y \in PlainOf(s, P) <=> v > 0 /\ y = x
  <2> TAKE y
  <2>1. ASSUME y \in PlainOf(s, P) PROVE v > 0 /\ y = x
    <3>1. IsWord(s, y) /\ y.sym = P
      BY <1>1, <2>1, SomeTrees DEF IsPlain
    <3>2. PICK Q \in Symbols(level) : Terminal(Model, s[1], Q) > 0 /\ y = WordTree(Q, s[1], Terminal(Model, s[1], Q))
      BY <3>1 DEF IsWord
    <3>3. Q = P
      BY <3>1, <3>2, TreeParts
    <3> QED  BY <3>2, <3>3
  <2>2. ASSUME v > 0, y = x PROVE y \in PlainOf(s, P)
    <3>1. IsPlain(s, x)
      BY <2>2 DEF IsPlain, IsWord
    <3> QED  BY <1>2, <2>2, <3>1, SomeTrees
  <2> QED  BY <2>1, <2>2
<1>4. v \in Nat
  BY WordScores
<1>5. PlainOf(s, P) \in SUBSET AllTrees
  BY SomeTrees
<1> HIDE DEF x, v
<1>6. CASE v > 0
  <2>1. PlainOf(s, P) = {x} /\ x \in AllTrees
    BY <1>3, <1>5, <1>6
  <2> QED  BY <1>2, <2>1, Scores DEF PlainSum, v
<1>7. CASE v = 0
  <2>1. PlainOf(s, P) = {}
    BY <1>3, <1>7
  <2> QED  BY <1>7, <2>1, Scores DEF PlainSum, v
<1> QED  BY <1>4, <1>6, <1>7

-----------------------------------------------------------------------------
(* What the uses of the binary rules over a span weigh, by the trees below, *)
(* and what its unary rules add.                                           *)
Uses(s, P) == {u \in Bins \X MidsOf(s) : u[1][1] = P}
UseTerms(s) ==
  [u \in Bins \X MidsOf(s) |->
     Model.bin[u[1]] * FullSum(<<s[1], u[2]>>, u[1][2]) * FullSum(<<u[2], s[2]>>, u[1][3])]

Raises(P) == {r \in Unas : r[1] = P}
RaiseTerms(s) == [r \in Unas |-> Model.una[r] * PlainSum(s, r[2])]

(* There are finitely many uses, of natural weight.                        *)
LEMMA UseFacts ==
  ASSUME Scoring, NEW s \in Spans
  PROVE  /\ IsFiniteSet(Bins \X MidsOf(s)) /\ IsFiniteSet(Unas)
         /\ \A P : Uses(s, P) \in SUBSET (Bins \X MidsOf(s)) /\ Raises(P) \in SUBSET Unas
         /\ \A P : IsFiniteSet(Uses(s, P)) /\ IsFiniteSet(Raises(P))
         /\ \A u \in Bins \X MidsOf(s) : UseTerms(s)[u] \in Nat
         /\ \A r \in Unas : RaiseTerms(s)[r] \in Nat
<1>1. IsFiniteSet(Bins \X MidsOf(s)) /\ IsFiniteSet(Unas)
  BY RuleFacts, SpanParts, FS_Product
<1>2. \A P : Uses(s, P) \in SUBSET (Bins \X MidsOf(s)) /\ Raises(P) \in SUBSET Unas
  BY DEF Uses, Raises
<1>3. \A P : IsFiniteSet(Uses(s, P)) /\ IsFiniteSet(Raises(P))
  BY <1>1, <1>2, FS_Subset
<1>4. ASSUME NEW u \in Bins \X MidsOf(s) PROVE UseTerms(s)[u] \in Nat
  <2>1. <<s[1], u[2]>> \in Spans /\ <<u[2], s[2]>> \in Spans
    BY SpanParts
  <2>2. FullSum(<<s[1], u[2]>>, u[1][2]) \in Nat /\ FullSum(<<u[2], s[2]>>, u[1][3]) \in Nat
    BY <2>1, SomeTrees
  <2>3. Model.bin[u[1]] \in Nat
    BY RuleFacts
  <2> QED  BY <2>2, <2>3, Naturals DEF UseTerms
<1>5. ASSUME NEW r \in Unas PROVE RaiseTerms(s)[r] \in Nat
  <2>1. PlainSum(s, r[2]) \in Nat /\ Model.una[r] \in Nat
    BY SomeTrees, RuleFacts
  <2> QED  BY <2>1, Naturals DEF RaiseTerms
<1> QED  BY <1>1, <1>2, <1>3, <1>4, <1>5

(* Over a phrase, the trees of binary rules weigh what their uses weigh.   *)
LEMMA JoinedPlain ==
  ASSUME Scoring, NEW s \in Spans, Width(s) # 1, NEW P, Ok(s, P)
  PROVE  PlainSum(s, P) = Total(UseTerms(s), Uses(s, P))
<1> DEFINE lefts(u) == TreesWith(<<s[1], u[2]>>, u[1][2])
           rights(u) == TreesWith(<<u[2], s[2]>>, u[1][3])
           Made1(u) == {BinaryTree(P, a, b, Model.bin[u[1]]) : a \in lefts(u), b \in rights(u)}
           F == [u \in Uses(s, P) |-> Made1(u)]
<1>1. ASSUME NEW u \in Uses(s, P)
      PROVE  /\ u = <<u[1], u[2]>> /\ u[1] \in Bins /\ u[2] \in MidsOf(s) /\ u[1][1] = P
             /\ <<s[1], u[2]>> \in Spans /\ <<u[2], s[2]>> \in Spans
             /\ u[1] = <<u[1][1], u[1][2], u[1][3]>>
             /\ Model.bin[u[1]] \in Nat
             /\ \A a \in lefts(u) : a \in Trees[<<s[1], u[2]>>] /\ a.sym = u[1][2] /\ a.span = <<s[1], u[2]>>
             /\ \A b \in rights(u) : b \in Trees[<<u[2], s[2]>>] /\ b.sym = u[1][3] /\ b.span = <<u[2], s[2]>>
  <2>1. u = <<u[1], u[2]>> /\ u[1] \in Bins /\ u[2] \in MidsOf(s) /\ u[1][1] = P
    BY DEF Uses
  <2>2. <<s[1], u[2]>> \in Spans /\ <<u[2], s[2]>> \in Spans
    BY <2>1, SpanParts
  <2>3. u[1] = <<u[1][1], u[1][2], u[1][3]>> /\ Model.bin[u[1]] \in Nat
    BY <2>1, RuleFacts
  <2>4. \A t \in Spans : \A x \in Trees[t] : x.span = t
    <3>1. \A t \in Spans : \A x \in Trees[t] : TreeFact(t, x)
      BY TreeFacts
    <3> QED  BY <3>1 DEF TreeFact
  <2>5. /\ \A a \in lefts(u) : a \in Trees[<<s[1], u[2]>>] /\ a.sym = u[1][2]
        /\ \A b \in rights(u) : b \in Trees[<<u[2], s[2]>>] /\ b.sym = u[1][3]
    BY DEF TreesWith
  <2> HIDE DEF lefts, rights
  <2>6. /\ \A a \in lefts(u) : a.span = <<s[1], u[2]>>
        /\ \A b \in rights(u) : b.span = <<u[2], s[2]>>
    BY <2>2, <2>4, <2>5
  <2> QED  BY <2>1, <2>2, <2>3, <2>5, <2>6
<1>2. ASSUME NEW x PROVE IsJoined(s, x) /\ x.sym = P <=> \E u \in Uses(s, P) : x \in Made1(u)
  <2>1. ASSUME IsJoined(s, x), x.sym = P PROVE \E u \in Uses(s, P) : x \in Made1(u)
    <3>1. PICK r \in Bins, m \in MidsOf(s) : \E a \in Trees[<<s[1], m>>], b \in Trees[<<m, s[2]>>] :
            Ok(s, r[1]) /\ a.sym = r[2] /\ b.sym = r[3] /\ x = BinaryTree(r[1], a, b, Model.bin[r])
      BY <2>1 DEF IsJoined
    <3>2. PICK a \in Trees[<<s[1], m>>], b \in Trees[<<m, s[2]>>] :
            a.sym = r[2] /\ b.sym = r[3] /\ x = BinaryTree(r[1], a, b, Model.bin[r])
      BY <3>1
    <3>3. r[1] = P
      BY <2>1, <3>2, TreeParts
    <3> DEFINE u == <<r, m>>
    <3>4. u \in Uses(s, P) /\ u[1] = r /\ u[2] = m
      BY <3>3 DEF Uses
    <3>5. a \in lefts(u) /\ b \in rights(u)
      BY <3>2, <3>4 DEF TreesWith
    <3>6. x = BinaryTree(P, a, b, Model.bin[u[1]])
      BY <3>2, <3>3, <3>4
    <3> HIDE DEF u
    <3>7. x \in Made1(u)
      BY <3>5, <3>6
    <3> HIDE DEF Made1
    <3> QED  BY <3>4, <3>7
  <2>2. ASSUME NEW u \in Uses(s, P), x \in Made1(u) PROVE IsJoined(s, x) /\ x.sym = P
    <3>1. PICK a \in lefts(u), b \in rights(u) : x = BinaryTree(P, a, b, Model.bin[u[1]])
      BY <2>2
    <3>2. IsJoined(s, x)
      BY <1>1, <3>1 DEF IsJoined
    <3> QED  BY <3>1, <3>2, TreeParts
  <2> HIDE DEF Made1
  <2> QED  BY <2>1, <2>2
<1>3. PlainOf(s, P) = UNION {F[u] : u \in Uses(s, P)}
  <2>1. \A x : ~IsWord(s, x)
    BY DEF IsWord
  <2>2. \A x : x \in PlainOf(s, P) <=> IsJoined(s, x) /\ x.sym = P
    BY <2>1, SomeTrees DEF IsPlain
  <2>3. \A u \in Uses(s, P) : F[u] = Made1(u)
    OBVIOUS
  <2> HIDE DEF F, Made1
  <2> QED  BY <1>2, <2>2, <2>3
<1>4. \A u \in Uses(s, P) : F[u] \in SUBSET AllTrees
  <2>1. PlainOf(s, P) \in SUBSET AllTrees
    BY SomeTrees
  <2> HIDE DEF F
  <2> QED  BY <1>3, <2>1
<1>5. \A u, v \in Uses(s, P) : u # v => F[u] \cap F[v] = {}
  <2>0. \A u \in Uses(s, P) : F[u] = Made1(u)
    OBVIOUS
  <2> HIDE DEF F
  <2> SUFFICES ASSUME NEW u \in Uses(s, P), NEW v \in Uses(s, P), NEW x, x \in Made1(u), x \in Made1(v) PROVE u = v
    <3> HIDE DEF Made1
    <3> QED  BY <2>0
  <2>1. PICK a \in lefts(u), b \in rights(u) : x = BinaryTree(P, a, b, Model.bin[u[1]])
    OBVIOUS
  <2>2. PICK c \in lefts(v), d \in rights(v) : x = BinaryTree(P, c, d, Model.bin[v[1]])
    OBVIOUS
  <2>3. x.kids = <<a, b>> /\ x.kids = <<c, d>>
    <3>1. \A e, f, k : BinaryTree(P, e, f, k).kids = <<e, f>>
      BY TreeParts
    <3> QED  BY <2>1, <2>2, <3>1
  <2>4. a = c /\ b = d
    BY <2>3
  <2>5. /\ a.sym = u[1][2] /\ a.span = <<s[1], u[2]>> /\ b.sym = u[1][3]
        /\ c.sym = v[1][2] /\ c.span = <<s[1], v[2]>> /\ d.sym = v[1][3]
    <3> HIDE DEF lefts, rights
    <3> QED  BY <1>1
  <2>6. u[2] = v[2]
    <3>1. <<s[1], u[2]>> = <<s[1], v[2]>>
      BY <2>4, <2>5
    <3> QED  BY <3>1
  <2>7. u[1] = v[1]
    <3>1. u[1] = <<u[1][1], u[1][2], u[1][3]>> /\ v[1] = <<v[1][1], v[1][2], v[1][3]>> /\ u[1][1] = P /\ v[1][1] = P
      BY <1>1
    <3> QED  BY <2>4, <2>5, <3>1
  <2>8. u = <<u[1], u[2]>> /\ v = <<v[1], v[2]>>
    BY <1>1
  <2> QED  BY ONLY <2>6, <2>7, <2>8
<1>6. ASSUME NEW u \in Uses(s, P) PROVE Score(F[u]) = UseTerms(s)[u]
  <2> DEFINE A == lefts(u)
             D == rights(u)
             k == Model.bin[u[1]]
  <2>1. A \in SUBSET AllTrees /\ D \in SUBSET AllTrees /\ k \in Nat
    BY <1>1, SomeTrees
  <2>2. F[u] = Joins(P, A, D, k)
    BY DEF Joins
  <2>3. \A x \in A, y \in D : BinaryTree(P, x, y, k) \in AllTrees
    <3> HIDE DEF F, A, D, k
    <3> QED  BY <1>4, <2>2 DEF Joins
  <2>4. UseTerms(s)[u] = k * Score(A) * Score(D)
    <3>1. u \in Bins \X MidsOf(s)
      BY UseFacts
    <3> QED  BY <3>1 DEF UseTerms, FullSum
  <2> HIDE DEF F, A, D, k
  <2>5. Score(Joins(P, A, D, k)) = k * Score(A) * Score(D)
    BY <2>1, <2>3, JoinedScore
  <2> QED  BY <2>2, <2>4, <2>5
<1> HIDE DEF F
<1> DEFINE g == [u \in Uses(s, P) |-> Total(ScoreMap, F[u])]
<1>7. Total(ScoreMap, UNION {F[u] : u \in Uses(s, P)}) = Total(g, Uses(s, P))
  <2>1. IsFiniteSet(AllTrees) /\ (\A t \in AllTrees : ScoreMap[t] \in Nat) /\ IsFiniteSet(Uses(s, P))
    BY Scores, UseFacts
  <2> QED  BY ONLY <1>4, <1>5, <2>1, TotalDisjoint
<1>8. Total(g, Uses(s, P)) = Total(UseTerms(s), Uses(s, P))
  <2>1. \A u \in Uses(s, P) : g[u] = UseTerms(s)[u]
    BY <1>6 DEF Score
  <2>2. IsFiniteSet(Uses(s, P)) /\ \A u \in Uses(s, P) : UseTerms(s)[u] \in Nat
    BY UseFacts
  <2> HIDE DEF g
  <2>3. \A u \in Uses(s, P) : g[u] \in Nat /\ g[u] = UseTerms(s)[u]
    BY <2>1, <2>2
  <2> QED  BY <2>2, <2>3, TotalSame
<1> QED  BY <1>3, <1>7, <1>8 DEF PlainSum, Score

(* All trees of a symbol weigh what those without a unary rule do, and     *)
(* what the unary rules add.                                               *)
LEMMA FullSums ==
  ASSUME Scoring, NEW s \in Spans, NEW P, Ok(s, P)
  PROVE  FullSum(s, P) = PlainSum(s, P) + Total(RaiseTerms(s), Raises(P))
<1> DEFINE F == [r \in Raises(P) |-> {UnaryTree(P, a, Model.una[r]) : a \in PlainOf(s, r[2])}]
           R == {x \in Trees[s] : IsRaised(s, x) /\ x.sym = P}
<1>1. ASSUME NEW r \in Raises(P)
      PROVE  r \in Unas /\ r[1] = P /\ r = <<r[1], r[2]>> /\ Model.una[r] \in Nat
  BY RuleFacts DEF Raises
<1>2. R = UNION {F[r] : r \in Raises(P)}
  <2>1. ASSUME NEW x \in R PROVE \E r \in Raises(P) : x \in F[r]
    <3>1. PICK r \in Unas : \E a : IsPlain(s, a) /\ Ok(s, r[1]) /\ a.sym = r[2] /\ x = UnaryTree(r[1], a, Model.una[r])
      BY DEF IsRaised
    <3>2. PICK a : IsPlain(s, a) /\ a.sym = r[2] /\ x = UnaryTree(r[1], a, Model.una[r])
      BY <3>1
    <3>3. r[1] = P
      BY <3>2, TreeParts
    <3>4. r \in Raises(P) /\ a \in PlainOf(s, r[2])
      BY <3>2, <3>3, SomeTrees DEF Raises
    <3> QED  BY <3>2, <3>3, <3>4
  <2>2. ASSUME NEW r \in Raises(P), NEW x \in F[r] PROVE x \in R
    <3>1. PICK a \in PlainOf(s, r[2]) : x = UnaryTree(P, a, Model.una[r])
      OBVIOUS
    <3>2. IsPlain(s, a) /\ a.sym = r[2]
      BY SomeTrees
    <3>3. IsRaised(s, x)
      BY <1>1, <3>1, <3>2 DEF IsRaised
    <3>4. x \in Trees[s]
      BY <3>3, TreeKinds
    <3> QED  BY <3>1, <3>3, <3>4, TreeParts
  <2> HIDE DEF F, R
  <2> QED  BY <2>1, <2>2
<1>3. TreesWith(s, P) = PlainOf(s, P) \cup R /\ PlainOf(s, P) \cap R = {} /\ R \in SUBSET AllTrees
  <2>1. \A x : x \in TreesWith(s, P) <=> x \in PlainOf(s, P) \/ (IsRaised(s, x) /\ x.sym = P)
    BY SomeTrees
  <2>2. \A x : IsRaised(s, x) => x \notin PlainOf(s, P)
    BY SomeTrees
  <2>3. \A x : IsRaised(s, x) => x \in Trees[s]
    BY TreeKinds
  <2>4. R \in SUBSET AllTrees
    BY DEF AllTrees
  <2> QED  BY <2>1, <2>2, <2>3, <2>4
<1>4. FullSum(s, P) = PlainSum(s, P) + Score(R)
  <2>1. PlainOf(s, P) \in SUBSET AllTrees
    BY SomeTrees
  <2> HIDE DEF R
  <2> QED  BY <1>3, <2>1, Scores DEF FullSum, PlainSum
<1>5. \A r \in Raises(P) : F[r] \in SUBSET AllTrees
  <2> HIDE DEF F, R
  <2> QED  BY <1>2, <1>3
<1>6. \A r, q \in Raises(P) : r # q => F[r] \cap F[q] = {}
  <2> DEFINE raised(r) == {UnaryTree(P, a, Model.una[r]) : a \in PlainOf(s, r[2])}
  <2>0. \A r \in Raises(P) : F[r] = raised(r)
    OBVIOUS
  <2> HIDE DEF F
  <2> SUFFICES ASSUME NEW r \in Raises(P), NEW q \in Raises(P), NEW x, x \in raised(r), x \in raised(q)
               PROVE  r = q
    <3> HIDE DEF raised
    <3> QED  BY <2>0
  <2>1. PICK a \in PlainOf(s, r[2]) : x = UnaryTree(P, a, Model.una[r])
    OBVIOUS
  <2>2. PICK b \in PlainOf(s, q[2]) : x = UnaryTree(P, b, Model.una[q])
    OBVIOUS
  <2>3. x.kids = <<a>> /\ x.kids = <<b>>
    <3>1. \A e, k : UnaryTree(P, e, k).kids = <<e>>
      BY TreeParts
    <3> QED  BY <2>1, <2>2, <3>1
  <2>4. a = b
    BY <2>3
  <2>5. a.sym = r[2] /\ b.sym = q[2]
    BY SomeTrees
  <2> QED  BY <1>1, <2>4, <2>5
<1>7. \A r \in Raises(P) : Score(F[r]) = RaiseTerms(s)[r]
  <2> TAKE r \in Raises(P)
  <2> DEFINE A == PlainOf(s, r[2])
             k == Model.una[r]
  <2>1. A \in SUBSET AllTrees /\ k \in Nat
    BY <1>1, SomeTrees
  <2>2. F[r] = {UnaryTree(P, x, k) : x \in A}
    OBVIOUS
  <2>3. \A x \in A : UnaryTree(P, x, k) \in AllTrees
    <3> HIDE DEF F, A, k
    <3> QED  BY <1>5, <2>2
  <2>4. RaiseTerms(s)[r] = k * Score(A)
    BY <1>1 DEF RaiseTerms, PlainSum
  <2> HIDE DEF F, A, k
  <2>5. Score({UnaryTree(P, x, k) : x \in A}) = k * Score(A)
    BY <2>1, <2>3, RaisedScore
  <2> QED  BY <2>2, <2>4, <2>5
<1> HIDE DEF F, R
<1> DEFINE g == [r \in Raises(P) |-> Total(ScoreMap, F[r])]
<1>8. Total(ScoreMap, UNION {F[r] : r \in Raises(P)}) = Total(g, Raises(P))
  <2>1. IsFiniteSet(AllTrees) /\ (\A t \in AllTrees : ScoreMap[t] \in Nat) /\ IsFiniteSet(Raises(P))
    BY Scores, UseFacts
  <2> QED  BY ONLY <1>5, <1>6, <2>1, TotalDisjoint
<1>9. Total(g, Raises(P)) = Total(RaiseTerms(s), Raises(P))
  <2>1. \A r \in Raises(P) : g[r] = RaiseTerms(s)[r]
    BY <1>7 DEF Score
  <2>2. IsFiniteSet(Raises(P)) /\ \A r \in Raises(P) : RaiseTerms(s)[r] \in Nat
    BY UseFacts
  <2> HIDE DEF g
  <2>3. \A r \in Raises(P) : g[r] \in Nat /\ g[r] = RaiseTerms(s)[r]
    BY <2>1, <2>2
  <2> QED  BY <2>2, <2>3, TotalSame
<1> QED  BY <1>2, <1>4, <1>8, <1>9 DEF Score

-----------------------------------------------------------------------------
(* Where the inside pass of a level stands: the spans it is done with, and *)
(* those whose words and binary rules it has summed.                       *)
InsidePass == {"unary", "binary", "score"}
Before(s) == Width(s) < pos.len \/ (Width(s) = pos.len /\ s[1] < pos.begin)
PlainDone(s, t) == Width(s) = 1 \/ Before(s) \/ (s = Span /\ (pc = "unary" \/ t < pos.tag))

In(s, P) == inside[<<s, P[1]>>][P[2]]
Near(u, v) == CloseTo(NoPhrasalUnary, u, v)

(* The charts are empty before the words are read.                         *)
Fresh ==
  pc = "terminals" =>
    \A c \in Cells : allowedTag[c] => \A i \in DOMAIN inside[c] : inside[c][i] = 0

(* The nearest ends never move, and the farthest only away from them.      *)
ExtentsKept ==
  pc \in {"terminals"} \cup InsidePass =>
    \A t \in TagIds :
      /\ \A b \in 0..(NumWords - 1) : extent[b][t].nr = b + 1 /\ extent[b][t].wr >= b + 1
      /\ \A e \in 1..NumWords : extent[e][t].nl = e - 1 /\ extent[e][t].wl <= e - 1

(* The extents of a tag reach over every phrase it has a score for.        *)
ExtentsReach ==
  pc \in InsidePass /\ NoPhrasalUnary =>
    \A s \in Spans : \A P \in Symbols(level) :
      P[1] # RootTag /\ allowedTag[<<s, P[1]>>] /\ Width(s) # 1 /\ In(s, P) > 0 =>
        extent[s[1]][P[1]].wr >= s[2] /\ extent[s[2]][P[1]].wl <= s[1]

(* The scores so far are those of all trees, or of those without a unary   *)
(* rule on top, or of none.                                                *)
SumsNear ==
  pc \in InsidePass =>
    \A s \in Spans : \A P \in Symbols(level) :
      allowedTag[<<s, P[1]>>] =>
        /\ Before(s) => Near(In(s, P), FullSum(s, P))
        /\ ~Before(s) /\ PlainDone(s, P[1]) => Near(In(s, P), PlainSum(s, P))
        /\ ~PlainDone(s, P[1]) => In(s, P) = 0

(* Phrases follow words, and the pass ends after all spans.                *)
LoopEnds == (pc = "binary" => pos.len > 1) /\ (pc = "score" => pos.len > NumWords)

Summed == Fresh /\ ExtentsKept /\ ExtentsReach /\ SumsNear /\ LoopEnds

-----------------------------------------------------------------------------
(* The trees follow from the inputs, the level and the flags.              *)
LEMMA TreesKept ==
  ASSUME UNCHANGED <<sentence, models, level, allowedTag, allowedSub>>
  PROVE  Trees' = Trees
BY DEF Trees, TreesAt, Terminal, Abstract, Token, Usable, TreesOver, UsedModel, Used, LexicalTags, Symbols,
       WordScore, Entry, SumOver, TreesOfCells, WordTable

(* So do their totals.                                                     *)
LEMMA TotalsKept ==
  ASSUME UNCHANGED <<sentence, models, level, allowedTag, allowedSub>>
  PROVE  /\ Symbols(level)' = Symbols(level)
         /\ \A s, P : FullSum(s, P)' = FullSum(s, P) /\ PlainSum(s, P)' = PlainSum(s, P)
         /\ NoPhrasalUnary' = NoPhrasalUnary
         /\ \A u, v : Near(u, v)' = Near(u, v)
<1>1. Symbols(level)' = Symbols(level)
  BY DEF Symbols
<1>2. AllTrees' = AllTrees
  BY TreesKept DEF AllTrees
<1>3. ScoreMap' = ScoreMap
  BY <1>2 DEF ScoreMap, ScoresIn
<1>4. \A s, P : TreesWith(s, P)' = TreesWith(s, P) /\ PlainOf(s, P)' = PlainOf(s, P)
  BY TreesKept DEF TreesWith, PlainOf
<1>5. \A s, P : FullSum(s, P)' = FullSum(s, P) /\ PlainSum(s, P)' = PlainSum(s, P)
  BY <1>3, <1>4 DEF FullSum, PlainSum, Score
<1>6. Model' = Model /\ Lexicals' = Lexicals
  BY DEF Model, Lexicals, LexicalTags
<1>7. NoPhrasalUnary' = NoPhrasalUnary
  BY <1>6 DEF NoPhrasalUnary
<1>8. \A u, v : Near(u, v)' = Near(u, v)
  BY <1>7 DEF Near, CloseTo
<1> QED  BY <1>1, <1>5, <1>7, <1>8

(* Scores of allowed symbols are naturals.                                 *)
LEMMA InShape ==
  ASSUME Scoring, NEW s \in Spans, NEW P \in Symbols(level), allowedTag[<<s, P[1]>>]
  PROVE  /\ In(s, P) \in Nat /\ <<s, P[1]>> \in Cells
         /\ P[2] \in DOMAIN inside[<<s, P[1]>>] /\ P = <<P[1], P[2]>>
         /\ allowedSub[<<s, P[1]>>][P[2]] \in BOOLEAN
         /\ Ok(s, P) <=> allowedSub[<<s, P[1]>>][P[2]]
<1>1. /\ P = <<P[1], P[2]>> /\ <<s, P[1]>> \in Cells /\ P[2] \in SubIds(<<s, P[1]>>, level)
  BY ScoringShapes, SymbolShapes
<1>2. /\ allowedSub[<<s, P[1]>>] \in [SubIds(<<s, P[1]>>, level) -> BOOLEAN]
      /\ DOMAIN inside[<<s, P[1]>>] = SubIds(<<s, P[1]>>, level)
      /\ inside[<<s, P[1]>>][P[2]] \in Nat
  BY <1>1, ScoringShapes
<1> QED  BY <1>1, <1>2 DEF In, Ok, Usable

(* Near values: of zero, of sums and of products.                          *)
LEMMA NearLaws ==
  /\ \A u : u \in Nat => Near(u, u) /\ (Near(u, 0) => u = 0)
  /\ \A u, v, i, j \in Nat : Near(u, v) /\ Near(i, j) => Near(u + i, v + j)
  /\ \A k, u, v, i, j \in Nat : Near(u, v) /\ Near(i, j) => Near(k * u * i, k * v * j)
  /\ \A k, u, v \in Nat : Near(u, v) => Near(k * u, k * v)
<1> DEFINE e == NoPhrasalUnary
<1>1. \A u : u \in Nat => CloseTo(e, u, u) /\ (CloseTo(e, u, 0) => u = 0)
  <2> HIDE DEF e
  <2> QED  BY DEF CloseTo
<1>2. \A u, v, i, j \in Nat : CloseTo(e, u, v) /\ CloseTo(e, i, j) => CloseTo(e, u + i, v + j)
  <2> HIDE DEF e
  <2> QED  BY DEF CloseTo
<1>3. \A k, u, v \in Nat : u <= v => k * u <= k * v
  OBVIOUS
<1>4. \A k, u, v \in Nat : CloseTo(e, u, v) => CloseTo(e, k * u, k * v)
  <2> HIDE DEF e
  <2> QED  BY <1>3 DEF CloseTo
<1>5. ASSUME NEW k \in Nat, NEW u \in Nat, NEW v \in Nat, NEW i \in Nat, NEW j \in Nat, CloseTo(e, u, v), CloseTo(e, i, j)
      PROVE  CloseTo(e, k * u * i, k * v * j)
  <2>1. k * u <= k * v /\ k * u \in Nat /\ k * v \in Nat /\ (e => k * u = k * v)
    <3> HIDE DEF e
    <3> QED  BY <1>3, <1>5, Naturals DEF CloseTo
  <2> DEFINE a == k * u
             b == k * v
  <2>2. a <= b /\ a \in Nat /\ b \in Nat /\ (e => a = b)
    BY <2>1
  <2> HIDE DEF a, b, e
  <2>3. a * i <= a * j
    BY <1>3, <1>5, <2>2 DEF CloseTo
  <2>4. j * a <= j * b
    BY <1>3, <2>2
  <2>5. j * a = a * j /\ j * b = b * j /\ a * i \in Nat /\ a * j \in Nat /\ b * j \in Nat
    BY <2>2
  <2>6. a * i <= b * j
    BY <2>3, <2>4, <2>5
  <2>7. e => a * i = b * j
    BY <1>5, <2>2 DEF CloseTo
  <2>8. CloseTo(e, a * i, b * j)
    BY <2>6, <2>7 DEF CloseTo
  <2> QED  BY <2>8 DEF a, b
<1> QED  BY <1>1, <1>2, <1>4, <1>5 DEF Near

-----------------------------------------------------------------------------
(* What the unary rules over a span add to a symbol.                       *)
LEMMA UnarySumNear ==
  ASSUME Scoring, NEW s \in Spans, NEW P \in Symbols(level), Ok(s, P),
         \A Q \in Symbols(level) : Ok(s, Q) => Near(In(s, Q), PlainSum(s, Q))
  PROVE  Near(InsideUnaryDelta(s, P), Total(RaiseTerms(s), Raises(P)))
<1> DEFINE D == {r \in UnaryUses(s) : r[1] = P /\ P[1] \notin Lexicals}
           A == {r \in D : Model.una[r] > 0}
           f == [r \in D |-> Model.una[r] * inside[<<s, r[2][1]>>][r[2][2]]]
           g == RaiseTerms(s)
           B == Raises(P)
<1>1. InsideUnaryDelta(s, P) = Total(f, D)
  BY TotalOfSum DEF InsideUnaryDelta, SumOver
<1>2. /\ IsFiniteSet(UnaryUses(s))
      /\ \A r \in UnaryUses(s) :
           /\ Model.una[r] \in Nat /\ r[1] \in Symbols(level) /\ r[2] \in Symbols(level)
           /\ Ok(s, r[1]) /\ Ok(s, r[2]) /\ In(s, r[2]) \in Nat
           /\ r \in DOMAIN Model.una /\ r[1][1] # r[2][1]
  BY UnaryShapes DEF Ok, In, UnaryUses
<1>3. \A r \in D : f[r] = Model.una[r] * In(s, r[2]) /\ f[r] \in Nat
  BY <1>2, Naturals DEF In
<1>4. IsFiniteSet(D) /\ D \subseteq UnaryUses(s)
  BY <1>2, FS_Subset, D \in SUBSET UnaryUses(s)
<1>5. Total(f, D) = Total(f, A)
  <2>1. ASSUME NEW r \in D \ A PROVE f[r] = 0
    <3>1. r \in D /\ Model.una[r] = 0 /\ In(s, r[2]) \in Nat
      BY <1>2
    <3>2. f[r] = 0 * In(s, r[2])
      BY <1>3, <3>1
    <3> QED  BY <3>1, <3>2
  <2>2. A \in SUBSET D
    OBVIOUS
  <2> HIDE DEF D, A, f
  <2> QED  BY <1>3, <1>4, <2>1, <2>2, TotalOfZeros
<1>6. A \subseteq B
  BY <1>2, <1>4 DEF Raises, Unas, InUse
<1>7. \A r \in A : f[r] \in Nat /\ Near(f[r], g[r])
  <2> SUFFICES ASSUME NEW r \in A PROVE f[r] \in Nat /\ Near(f[r], g[r])
    OBVIOUS
  <2>1. Near(In(s, r[2]), PlainSum(s, r[2]))
    BY <1>2
  <2>2. Model.una[r] \in Nat /\ In(s, r[2]) \in Nat /\ PlainSum(s, r[2]) \in Nat
    BY <1>2, SomeTrees
  <2>3. g[r] = Model.una[r] * PlainSum(s, r[2])
    BY <1>6, UseFacts DEF RaiseTerms
  <2> DEFINE k == Model.una[r]
             u == In(s, r[2])
             v == PlainSum(s, r[2])
  <2>4. f[r] = k * u /\ f[r] \in Nat /\ g[r] = k * v
    BY <1>3, <2>3
  <2>5. Near(u, v) /\ k \in Nat /\ u \in Nat /\ v \in Nat
    BY <2>1, <2>2
  <2> HIDE DEF f, g, k, u, v
  <2>6. Near(k * u, k * v)
    BY <2>5, NearLaws
  <2> QED  BY <2>4, <2>6
<1>8. NoPhrasalUnary => \A r \in B \ A : g[r] = 0
  <2> SUFFICES ASSUME NEW r \in B, g[r] # 0 PROVE r \in A
    OBVIOUS
  <2>1. r \in Unas /\ r[1] = P /\ P[1] \notin Lexicals /\ r[1][1] # r[2][1]
        /\ r \in DOMAIN Model.una /\ Model.una[r] > 0 /\ Model.una[r] \in Nat
    BY RuleFacts DEF Raises
  <2>2. g[r] = Model.una[r] * PlainSum(s, r[2])
    BY <2>1 DEF RaiseTerms
  <2>3. PlainSum(s, r[2]) # 0
    BY <2>1, <2>2
  <2>4. PlainOf(s, r[2]) # {}
    BY <2>3, Scores DEF PlainSum
  <2>5. Ok(s, r[2]) /\ (r[2][1] \in Lexicals => Width(s) = 1)
    BY <2>4, SomeTrees
  <2>6. s[2] - s[1] > 1 => r[2][1] \notin Lexicals
    BY <2>5, SpanParts DEF Width
  <2>7. r \in UnaryUses(s)
    BY <2>1, <2>5, <2>6 DEF UnaryUses, Ok
  <2> QED  BY <2>1, <2>7
<1>9. IsFiniteSet(B) /\ \A r \in B : g[r] \in Nat
  BY UseFacts
<1>10. NoPhrasalUnary \in BOOLEAN
  BY DEF NoPhrasalUnary
<1> HIDE DEF D, A, f, g, B
<1>11. CloseTo(NoPhrasalUnary, Total(f, A), Total(g, B))
  BY <1>6, <1>7, <1>8, <1>9, <1>10, TotalClose DEF Near
<1> QED  BY <1>1, <1>5, <1>11 DEF Near, g, B

(* A symbol that is not in use over a span has no unary rules there.       *)
LEMMA UnarySumNone ==
  ASSUME Scoring, NEW s \in Spans, NEW P, ~Ok(s, P)
  PROVE  InsideUnaryDelta(s, P) = 0
<1> DEFINE D == {r \in UnaryUses(s) : r[1] = P /\ P[1] \notin Lexicals}
           f == [r \in D |-> Model.una[r] * inside[<<s, r[2][1]>>][r[2][2]]]
<1>1. InsideUnaryDelta(s, P) = Total(f, D)
  BY TotalOfSum DEF InsideUnaryDelta, SumOver
<1>2. D = {}
  BY DEF UnaryUses, Ok
<1>3. \A g : Total(g, {}) = 0
  <2> TAKE g
  <2>1. IsFiniteSet({}) /\ \A x \in {} : g[x] \in Nat
    BY FS_EmptySet
  <2> QED  BY <2>1, TotalSplit
<1> QED  BY <1>1, <1>2, <1>3

(* Nor has a phrase, unless it is ROOT, where unary rules are for words.   *)
LEMMA UnarySumPhrase ==
  ASSUME Scoring, NoPhrasalUnary, NEW s \in Spans, Width(s) # 1, NEW P \in Symbols(level), P[1] # RootTag
  PROVE  InsideUnaryDelta(s, P) = 0
<1> DEFINE D == {r \in UnaryUses(s) : r[1] = P /\ P[1] \notin Lexicals}
           f == [r \in D |-> Model.una[r] * inside[<<s, r[2][1]>>][r[2][2]]]
<1>1. InsideUnaryDelta(s, P) = Total(f, D)
  BY TotalOfSum DEF InsideUnaryDelta, SumOver
<1>2. s[2] - s[1] > 1
  BY SpanParts DEF Width
<1>3. \A r \in D : /\ r \in DOMAIN Model.una /\ Model.una[r] \in Nat /\ r[1] = P
                   /\ r[2][1] \notin Lexicals /\ inside[<<s, r[2][1]>>][r[2][2]] \in Nat
  BY <1>2, UnaryShapes DEF UnaryUses
<1>4. ASSUME NEW r \in D PROVE Model.una[r] = 0
  <2>1. /\ r \in DOMAIN Model.una /\ Model.una[r] \in Nat /\ r[1][1] # RootTag
        /\ r[2][1] \notin Lexicals
    BY <1>3
  <2>2. Model.una[r] > 0 => r[2][1] \in Lexicals \/ r[1][1] = RootTag
    BY <2>1 DEF NoPhrasalUnary
  <2> QED  BY <2>1, <2>2
<1>5. ASSUME NEW r \in D PROVE f[r] = 0
  <2>1. inside[<<s, r[2][1]>>][r[2][2]] \in Nat /\ Model.una[r] = 0
    BY <1>3, <1>4
  <2>2. f[r] = 0 * inside[<<s, r[2][1]>>][r[2][2]]
    BY <2>1
  <2> QED  BY <2>1, <2>2
<1>6. IsFiniteSet(D)
  BY UnaryShapes, FS_Subset, D \in SUBSET UnaryUses(s)
<1> HIDE DEF D, f
<1>7. Total(f, {}) = 0
  <2>1. \A r \in D : f[r] \in Nat
    BY <1>5
  <2> QED  BY <1>6, <2>1, TotalSplit
<1>8. Total(f, D) = Total(f, {})
  BY <1>5, <1>6, TotalOfZeros
<1> QED  BY <1>1, <1>7, <1>8

-----------------------------------------------------------------------------
(* The span a pass is at, and those it is done with.                       *)
LEMMA SpanReached ==
  ASSUME Own, pc \in {"unary", "binary"}
  PROVE  /\ Span \in Spans /\ Span[1] = pos.begin /\ Width(Span) = pos.len
         /\ ~Before(Span) /\ \A s \in Spans : Width(s) < Width(Span) => Before(s)
<1>1. /\ pos.len \in 1..NumWords /\ pos.begin \in 0..(NumWords - 1) /\ pos.begin + pos.len <= NumWords
  BY DEF Own, LoopOK
<1>2. NumWords \in Nat \ {0}
  BY Shapes
<1>3. Span \in Spans /\ Span[1] = pos.begin /\ Width(Span) = pos.len
  BY <1>1, <1>2 DEF Span, Spans, Width
<1> QED  BY <1>1, <1>3 DEF Before

(* The split points that the extents must not exclude: those at which both *)
(* children have a score.                                                  *)
LEMMA MidFound ==
  ASSUME Scoring, Summed, pc = "binary", NoPhrasalUnary, NEW s \in Spans, NEW m \in MidsOf(s),
         NEW L \in Symbols(level), NEW R \in Symbols(level), L[1] # RootTag, R[1] # RootTag,
         allowedTag[<<<<s[1], m>>, L[1]>>], allowedTag[<<<<m, s[2]>>, R[1]>>],
         In(<<s[1], m>>, L) > 0, In(<<m, s[2]>>, R) > 0
  PROVE  m \in Mids(s[1], s[2], L[1], R[1])
<1> DEFINE b == s[1]
           e == s[2]
           l == L[1]
           r == R[1]
<1>1. /\ b \in 0..(NumWords - 1) /\ e \in 1..NumWords /\ m \in (b + 1)..(e - 1)
      /\ NumWords \in Nat
  BY Shapes DEF MidsOf
<1>2. l \in TagIds /\ r \in TagIds
  BY ScoringShapes, SymbolShapes
<1>3. <<b, m>> \in Spans /\ <<m, e>> \in Spans /\ Width(<<b, m>>) = m - b /\ Width(<<m, e>>) = e - m
  BY SpanParts
<1>4. /\ extent[b][l].nr = b + 1 /\ extent[b][l].wr >= b + 1
      /\ extent[e][r].nl = e - 1 /\ extent[e][r].wl <= e - 1
  BY <1>1, <1>2 DEF Summed, ExtentsKept, InsidePass
<1>5. Width(<<b, m>>) # 1 => extent[b][l].wr >= m
  BY <1>3 DEF Summed, ExtentsReach, InsidePass
<1>6. Width(<<m, e>>) # 1 => extent[e][r].wl <= m
  BY <1>3 DEF Summed, ExtentsReach, InsidePass
<1>7. /\ extent[b][l].wr \in Int /\ extent[e][r].wl \in Int
      /\ extent[b][l].nr \in Int /\ extent[e][r].nl \in Int
  <2>1. b \in 0..NumWords /\ e \in 0..NumWords
    BY <1>1
  <2>2. extent[b][l] \in ExtentType /\ extent[e][r] \in ExtentType
    BY <1>2, <2>1 DEF Scoring, Own, VectorsOK
  <2> QED  BY <1>1, <2>2 DEF ExtentType
<1>8. m - b = 1 => m = b + 1
  BY <1>1
<1>9. e - m = 1 => m = e - 1
  BY <1>1
<1>10. extent[b][l].nr <= m /\ m <= extent[b][l].wr
  BY <1>1, <1>3, <1>4, <1>5, <1>7, <1>8
<1>11. extent[e][r].wl <= m /\ m <= extent[e][r].nl
  BY <1>1, <1>3, <1>4, <1>6, <1>7, <1>9
<1> QED  BY <1>1, <1>10, <1>11 DEF Mids

(* What the binary rules over a span give a symbol.                        *)
LEMMA BinarySumNear ==
  ASSUME Scoring, Summed, pc = "binary", NEW P \in Symbols(level), P[1] \notin Lexicals, Ok(Span, P)
  PROVE  Near(BinarySum(Span, P[1], P[2]), PlainSum(Span, P))
<1> DEFINE s == Span
           D == {u \in Productive(s, P[1]) : u[1][1][2] = P[2]}
           f == [u \in D |-> Model.bin[u[1]] * LeftScore(s, u) * RightScore(s, u)]
           g == UseTerms(s)
           B == Uses(s, P)
<1>0. s \in Spans /\ P[1] \in TagIds /\ Width(s) # 1
  <2>1. Own /\ level \in AllLevels
    BY ScoringShapes DEF Scoring
  <2>2. pos.len > 1
    BY DEF Summed, LoopEnds
  <2> QED  BY <2>1, <2>2, SpanReached, SymbolShapes
<1>1. BinarySum(s, P[1], P[2]) = Total(f, D)
  BY TotalOfSum DEF BinarySum, SumOver
<1>2. PlainSum(s, P) = Total(g, B)
  BY <1>0, JoinedPlain
<1>3. ASSUME NEW t \in Spans, Width(t) < Width(s), NEW Q \in Symbols(level), allowedTag[<<t, Q[1]>>]
      PROVE  Near(In(t, Q), FullSum(t, Q)) /\ In(t, Q) \in Nat /\ FullSum(t, Q) \in Nat
  <2>1. Before(t)
    BY <1>3, SpanReached DEF Scoring
  <2> QED  BY <1>3, <2>1, InShape, SomeTrees DEF Summed, SumsNear, InsidePass
<1>4. ASSUME NEW u \in D
      PROVE  /\ u \in B /\ u[1] \in Symbols(level) \X Symbols(level) \X Symbols(level)
             /\ u[2] \in MidsOf(s)
             /\ allowedTag[<<<<s[1], u[2]>>, u[1][2][1]>>] /\ allowedTag[<<<<u[2], s[2]>>, u[1][3][1]>>]
             /\ LeftScore(s, u) = In(<<s[1], u[2]>>, u[1][2]) /\ RightScore(s, u) = In(<<u[2], s[2]>>, u[1][3])
  <2>1. /\ u \in Productive(s, P[1]) /\ u[1] \in DOMAIN Model.bin /\ u \in (DOMAIN Model.bin) \X (0..NumWords)
        /\ u[1] \in Symbols(level) \X Symbols(level) \X Symbols(level) /\ u[1][1][1] = P[1] /\ u[1][1][2] = P[2]
        /\ s[1] < u[2] /\ u[2] < s[2] /\ u[2] \in Nat
        /\ Usable(<<<<s[1], u[2]>>, u[1][2][1]>>, u[1][2])
        /\ Usable(<<<<u[2], s[2]>>, u[1][3][1]>>, u[1][3])
    <3>1. u \in Productive(s, P[1]) /\ u[1][1][2] = P[2]
      OBVIOUS
    <3> HIDE DEF s, D
    <3>2. u \in (DOMAIN Model.bin) \X (0..NumWords)
      BY <1>0, <3>1, ProductiveShapes
    <3>3. u[1] \in DOMAIN Model.bin
      BY <3>2
    <3>7. u[1][1][1] = P[1]
      <4>1. \A z \in Spans : \A t \in TagIds : \A v \in Productive(z, t) : v[1][1][1] = t
        BY ProductiveShapes
      <4>2. s \in Spans /\ P[1] \in TagIds /\ u \in Productive(s, P[1])
        BY <1>0, <3>1
      <4> QED  BY ONLY <4>1, <4>2
    <3>6. u[1] \in Symbols(level) \X Symbols(level) \X Symbols(level)
      BY <3>3, ScoringShapes DEF IsModel
    <3>4. s[1] < u[2] /\ u[2] < s[2] /\ u[2] \in Nat
      BY <1>0, <3>1, ProductiveShapes
    <3>5. /\ Usable(<<<<s[1], u[2]>>, u[1][2][1]>>, u[1][2])
          /\ Usable(<<<<u[2], s[2]>>, u[1][3][1]>>, u[1][3])
      BY <1>0, <3>1, ProductiveShapes
    <3> QED  BY <3>1, <3>2, <3>3, <3>4, <3>5, <3>6, <3>7
  <2>2. Model.bin[u[1]] > 0
    BY <2>1 DEF Productive
  <2>3. u[1][1] = P
    <3>1. u[1][1] \in Symbols(level)
      BY <2>1
    <3>2. u[1][1] = <<u[1][1][1], u[1][1][2]>> /\ P = <<P[1], P[2]>>
      BY <1>0, <3>1, ScoringShapes, SymbolShapes
    <3> QED  BY <2>1, <3>2
  <2>4. u[2] \in MidsOf(s)
    BY <1>0, <2>1, Shapes DEF MidsOf
  <2>5. u[1] \in Bins
    BY <2>1, <2>2, <2>3 DEF Bins, InUse
  <2>6. u \in B
    <3>1. u = <<u[1], u[2]>>
      BY <2>1
    <3> QED  BY <2>3, <2>4, <2>5, <3>1 DEF Uses
  <2> QED  BY <2>1, <2>4, <2>6 DEF Usable, LeftScore, RightScore, In
<1>5. \A u \in B : /\ u = <<u[1], u[2]>> /\ u[1] \in Bins /\ u[2] \in MidsOf(s) /\ u[1][1] = P
                   /\ <<s[1], u[2]>> \in Spans /\ <<u[2], s[2]>> \in Spans
                   /\ Width(<<s[1], u[2]>>) < Width(s) /\ Width(<<u[2], s[2]>>) < Width(s)
                   /\ u[1] = <<u[1][1], u[1][2], u[1][3]>> /\ u[1] \in DOMAIN Model.bin
                   /\ u[1][2] \in Symbols(level) /\ u[1][3] \in Symbols(level)
                   /\ Model.bin[u[1]] \in Nat /\ Model.bin[u[1]] > 0
                   /\ g[u] = Model.bin[u[1]] * FullSum(<<s[1], u[2]>>, u[1][2]) * FullSum(<<u[2], s[2]>>, u[1][3])
  <2> TAKE u \in B
  <2>1. u = <<u[1], u[2]>> /\ u[1] \in Bins /\ u[2] \in MidsOf(s) /\ u[1][1] = P
    BY DEF Uses
  <2>2. /\ <<s[1], u[2]>> \in Spans /\ <<u[2], s[2]>> \in Spans
        /\ Width(<<s[1], u[2]>>) < Width(s) /\ Width(<<u[2], s[2]>>) < Width(s)
    BY <1>0, <2>1, SpanParts
  <2>3. /\ u[1] = <<u[1][1], u[1][2], u[1][3]>> /\ u[1] \in DOMAIN Model.bin
        /\ u[1][2] \in Symbols(level) /\ u[1][3] \in Symbols(level)
        /\ Model.bin[u[1]] \in Nat /\ Model.bin[u[1]] > 0
    BY <2>1, RuleFacts
  <2>4. g[u] = Model.bin[u[1]] * FullSum(<<s[1], u[2]>>, u[1][2]) * FullSum(<<u[2], s[2]>>, u[1][3])
    <3>1. u \in Bins \X MidsOf(s)
      BY <1>0, UseFacts
    <3> QED  BY <3>1 DEF UseTerms
  <2> QED  BY <2>1, <2>2, <2>3, <2>4
<1>6. ASSUME NEW u \in D PROVE f[u] \in Nat /\ Near(f[u], g[u])
  <2> DEFINE k == Model.bin[u[1]]
             x == In(<<s[1], u[2]>>, u[1][2])
             y == In(<<u[2], s[2]>>, u[1][3])
             v == FullSum(<<s[1], u[2]>>, u[1][2])
             w == FullSum(<<u[2], s[2]>>, u[1][3])
  <2>1. f[u] = k * x * y /\ g[u] = k * v * w /\ k \in Nat
    BY <1>4, <1>5
  <2>2. Near(x, v) /\ x \in Nat /\ v \in Nat
    BY <1>3, <1>4, <1>5
  <2>3. Near(y, w) /\ y \in Nat /\ w \in Nat
    BY <1>3, <1>4, <1>5
  <2> HIDE DEF f, g, k, x, y, v, w
  <2>4. Near(k * x * y, k * v * w) /\ k * x * y \in Nat
    BY <2>1, <2>2, <2>3, NearLaws, Naturals
  <2> QED  BY <2>1, <2>4
<1>7. ASSUME NoPhrasalUnary, NEW u \in B, g[u] # 0 PROVE u \in D
  <2> DEFINE v == FullSum(<<s[1], u[2]>>, u[1][2])
             w == FullSum(<<u[2], s[2]>>, u[1][3])
  <2>1. v # 0 /\ w # 0
    <3>1. v \in Nat /\ w \in Nat
      BY <1>5, SomeTrees
    <3>2. g[u] = Model.bin[u[1]] * v * w /\ Model.bin[u[1]] \in Nat
      BY <1>5
    <3> HIDE DEF v, w
    <3>3. \A i, j \in Nat : i * 0 = 0 /\ i * 0 * j = 0 /\ i * j * 0 = 0
      OBVIOUS
    <3> QED  BY <1>7, <3>1, <3>2, <3>3
  <2>2. TreesWith(<<s[1], u[2]>>, u[1][2]) # {} /\ TreesWith(<<u[2], s[2]>>, u[1][3]) # {}
    BY <2>1, Scores DEF FullSum
  <2>3. /\ Ok(<<s[1], u[2]>>, u[1][2]) /\ Ok(<<u[2], s[2]>>, u[1][3])
        /\ u[1][2][1] \in Lexicals => Width(<<s[1], u[2]>>) = 1
        /\ u[1][3][1] \in Lexicals => Width(<<u[2], s[2]>>) = 1
    BY <1>5, <2>2, SomeTrees
  <2>4. /\ allowedTag[<<<<s[1], u[2]>>, u[1][2][1]>>] /\ allowedTag[<<<<u[2], s[2]>>, u[1][3][1]>>]
        /\ Usable(<<<<s[1], u[2]>>, u[1][2][1]>>, u[1][2])
        /\ Usable(<<<<u[2], s[2]>>, u[1][3][1]>>, u[1][3])
    BY <2>3 DEF Ok, Usable
  <2>5. /\ In(<<s[1], u[2]>>, u[1][2]) = v /\ In(<<u[2], s[2]>>, u[1][3]) = w
        /\ In(<<s[1], u[2]>>, u[1][2]) > 0 /\ In(<<u[2], s[2]>>, u[1][3]) > 0
    <3>1. Near(In(<<s[1], u[2]>>, u[1][2]), v) /\ In(<<s[1], u[2]>>, u[1][2]) \in Nat
      BY <1>3, <1>5, <2>4
    <3>2. Near(In(<<u[2], s[2]>>, u[1][3]), w) /\ In(<<u[2], s[2]>>, u[1][3]) \in Nat
      BY <1>3, <1>5, <2>4
    <3> QED  BY <1>7, <2>1, <3>1, <3>2 DEF Near, CloseTo
  <2>6. u[1][2][1] # RootTag /\ u[1][3][1] # RootTag
    <3>1. u[1] \in DOMAIN Model.bin /\ Model.bin[u[1]] > 0
      BY <1>5
    <3>2. RootTag \notin {u[1][2][1], u[1][3][1]}
      BY <1>7, <3>1 DEF NoPhrasalUnary
    <3> QED  BY <3>2
  <2>7. u[2] \in Mids(s[1], s[2], u[1][2][1], u[1][3][1])
    BY <1>0, <1>5, <1>7, <2>4, <2>5, <2>6, MidFound
  <2>8. /\ u[2] - s[1] > 1 => u[1][2][1] \notin Lexicals
        /\ s[2] - u[2] > 1 => u[1][3][1] \notin Lexicals
    <3>1. Width(<<s[1], u[2]>>) = u[2] - s[1] /\ Width(<<u[2], s[2]>>) = s[2] - u[2]
      BY <1>0, <1>5, SpanParts
    <3> QED  BY <2>3, <3>1
  <2>9. allowedTag[<<s, P[1]>>] /\ allowedSub[<<s, P[1]>>][P[2]]
    BY DEF Ok, Usable
  <2>10. u \in BinaryUses(s, P[1])
    <3> DEFINE r == u[1]
               m == u[2]
               split(q) == {i \in Mids(s[1], s[2], q[2][1], q[3][1]) :
                              /\ Usable(<<<<s[1], i>>, q[2][1]>>, q[2])
                              /\ Usable(<<<<i, s[2]>>, q[3][1]>>, q[3])
                              /\ i - s[1] > 1 => q[2][1] \notin Lexicals
                              /\ s[2] - i > 1 => q[3][1] \notin Lexicals}
               row(q) == {<<q, i>> : i \in split(q)}
               rules == {q \in DOMAIN Model.bin : q[1][1] = P[1] /\ allowedSub[<<s, P[1]>>][q[1][2]]}
    <3>1. BinaryUses(s, P[1]) = UNION {row(q) : q \in rules}
      BY <2>9 DEF BinaryUses
    <3>2. r \in rules
      BY <1>5, <2>9
    <3>3. m \in split(r)
      BY <2>4, <2>7, <2>8
    <3>4. u = <<r, m>>
      BY <1>5
    <3>5. u \in row(r)
      <4> HIDE DEF split, r, m
      <4> QED  BY <3>3, <3>4
    <3> HIDE DEF row, rules, r
    <3> QED  BY <3>1, <3>2, <3>5
  <2>11. LeftScore(s, u) > 0 /\ RightScore(s, u) > 0
    BY <2>5 DEF LeftScore, RightScore, In
  <2>12. u \in Productive(s, P[1])
    BY <1>5, <2>10, <2>11 DEF Productive
  <2>13. u[1][1][2] = P[2]
    BY <1>5
  <2> QED  BY <2>12, <2>13
<1>8. IsFiniteSet(B) /\ (\A u \in B : g[u] \in Nat) /\ NoPhrasalUnary \in BOOLEAN
  BY <1>0, UseFacts DEF NoPhrasalUnary
<1>9. D \in SUBSET B
  BY <1>4
<1> HIDE DEF D, f, g, B
<1>10. CloseTo(NoPhrasalUnary, Total(f, D), Total(g, B))
  <2>1. \A u \in D : f[u] \in Nat /\ CloseTo(NoPhrasalUnary, f[u], g[u])
    BY <1>6 DEF Near
  <2>2. NoPhrasalUnary => \A u \in B \ D : g[u] = 0
    BY <1>7
  <2> QED  BY <1>8, <1>9, <2>1, <2>2, TotalClose
<1> QED  BY <1>1, <1>2, <1>10 DEF Near

-----------------------------------------------------------------------------
(* Initially, and between the levels, there is nothing to show.            *)
LEMMA NotSummed ==
  ASSUME pc' \notin {"terminals"} \cup InsidePass
  PROVE  Summed'
<1>1. pc' # "terminals" /\ pc' # "binary" /\ pc' # "score" /\ pc' \notin InsidePass
  BY DEF InsidePass
<1> QED
  BY <1>1 DEF Summed, Fresh, ExtentsKept, ExtentsReach, SumsNear, LoopEnds, InsidePass

(* A new level starts with empty charts and extents.                       *)
LEMMA InitializeChartsSummed == Own /\ InitializeCharts => Summed'
<1> SUFFICES ASSUME Own, InitializeCharts PROVE Summed'
  OBVIOUS
<1>1. /\ allowedTag' = InitTags /\ inside' = InitCharts /\ extent' = InitExtents /\ pc' = "terminals"
  BY DEF InitializeCharts
<1>2. Fresh'
  <2> SUFFICES ASSUME NEW c \in Cells, allowedTag'[c], NEW i \in DOMAIN inside'[c] PROVE inside'[c][i] = 0
    BY DEF Fresh
  <2>1. level = 0 \/ allowedTag[c]
    BY <1>1 DEF InitTags
  <2>2. inside'[c] = InitScores(c)
    BY <1>1 DEF InitCharts
  <2> QED  BY <2>1, <2>2 DEF InitScores, Vector
<1>3. ExtentsKept'
  <2> SUFFICES ASSUME NEW t \in TagIds
               PROVE  /\ \A b \in 0..(NumWords - 1) : extent'[b][t].nr = b + 1 /\ extent'[b][t].wr >= b + 1
                      /\ \A e \in 1..NumWords : extent'[e][t].nl = e - 1 /\ extent'[e][t].wl <= e - 1
    BY DEF ExtentsKept
  <2>1. \A p \in 0..NumWords : extent'[p][t] = InitExtent(p, t)
    BY <1>1 DEF InitExtents
  <2>2. ASSUME NEW b \in 0..(NumWords - 1) PROVE extent'[b][t].nr = b + 1 /\ extent'[b][t].wr >= b + 1
    <3>1. b \in 0..NumWords /\ b < NumWords
      BY Shapes
    <3>2. InitExtent(b, t).nr = b + 1 /\ InitExtent(b, t).wr = b + 1
      BY <3>1 DEF InitExtent
    <3>3. extent'[b][t] = InitExtent(b, t)
      BY <2>1, <3>1
    <3> QED  BY <3>1, <3>2, <3>3
  <2>3. ASSUME NEW e \in 1..NumWords PROVE extent'[e][t].nl = e - 1 /\ extent'[e][t].wl <= e - 1
    <3>1. e \in 0..NumWords /\ e > 0
      BY Shapes
    <3>2. InitExtent(e, t).nl = e - 1 /\ InitExtent(e, t).wl = e - 1
      BY <3>1 DEF InitExtent
    <3>3. extent'[e][t] = InitExtent(e, t)
      BY <2>1, <3>1
    <3> QED  BY <3>1, <3>2, <3>3
  <2> QED  BY <2>2, <2>3
<1> QED  BY <1>1, <1>2, <1>3 DEF Summed, ExtentsReach, SumsNear, LoopEnds, InsidePass

(* The words fill their cells, and those only.                             *)
LEMMA SetTerminalsSummed == Own /\ Summed /\ SetTerminals => Summed'
<1> SUFFICES ASSUME Own, Summed, SetTerminals PROVE Summed'
  OBVIOUS
<1>1. /\ pc = "terminals" /\ pc' = "unary" /\ inside' = TerminalScores /\ pos' = FirstSpan
      /\ UNCHANGED <<sentence, models, level, allowedTag, allowedSub, extent>>
  BY DEF SetTerminals, input, control, flags
<1>2. Scoring
  BY <1>1 DEF Scoring, Passes
<1>3. ASSUME NEW s \in Spans, NEW P \in Symbols(level), allowedTag[<<s, P[1]>>]
      PROVE  /\ Width(s) = 1 => In(s, P)' = IF Ok(s, P) THEN Terminal(Model, s[1], P) ELSE 0
             /\ Width(s) # 1 => In(s, P)' = 0
  <2> DEFINE c == <<s, P[1]>>
  <2>1. /\ c \in Cells /\ c[1] = s /\ c[2] = P[1] /\ P = <<P[1], P[2]>> /\ P[2] \in DOMAIN inside[c]
        /\ Ok(s, P) <=> allowedSub[c][P[2]]
    BY <1>2, <1>3, InShape
  <2>2. In(s, P)' = TerminalScores[c][P[2]]
    BY <1>1 DEF In
  <2>3. Width(s) = 1 <=> s[2] = s[1] + 1
    BY SpanParts
  <2>4. CASE Width(s) = 1
    <3>1. c[1][2] = c[1][1] + 1 /\ allowedTag[c]
      BY <1>3, <2>1, <2>3, <2>4
    <3>2. TerminalScores[c] = [i \in DOMAIN inside[c] |->
                                 IF allowedSub[c][i] THEN Terminal(Model, c[1][1], <<c[2], i>>) ELSE 0]
      BY <2>1, <3>1 DEF TerminalScores
    <3>3. TerminalScores[c][P[2]] = IF allowedSub[c][P[2]] THEN Terminal(Model, c[1][1], <<c[2], P[2]>>) ELSE 0
      BY <2>1, <3>2
    <3> HIDE DEF c
    <3>4. <<c[2], P[2]>> = P /\ c[1][1] = s[1]
      BY <2>1
    <3> QED  BY <2>1, <2>2, <2>4, <3>3, <3>4
  <2>5. CASE Width(s) # 1
    <3>1. TerminalScores[c] = inside[c]
      BY <2>1, <2>3, <2>5 DEF TerminalScores
    <3>2. inside[c][P[2]] = 0
      BY <1>1, <1>3, <2>1 DEF Summed, Fresh
    <3> QED  BY <2>2, <2>5, <3>1, <3>2
  <2> QED  BY <2>4, <2>5
<1>4. \A s \in Spans : ~Before(s)' /\ \A t : PlainDone(s, t)' <=> Width(s) = 1
  <2>1. pos'.len = 1 /\ pos'.begin = 0 /\ Span' = <<0, 1>>
    BY <1>1 DEF FirstSpan, Span
  <2>2. \A s \in Spans : Width(s) \in Nat \ {0} /\ s[1] \in Nat
    BY SpanParts, Shapes
  <2>3. Width(<<0, 1>>) = 1
    BY DEF Width
  <2>4. ASSUME NEW s \in Spans PROVE ~Before(s)'
    BY <2>1, <2>2 DEF Before, Width
  <2>5. ASSUME NEW s \in Spans, NEW t PROVE PlainDone(s, t)' <=> Width(s) = 1
    BY <2>1, <2>3, <2>4 DEF PlainDone, Width
  <2> QED  BY <2>4, <2>5
<1>5. SumsNear'
  <2> SUFFICES ASSUME NEW s \in Spans, NEW P \in Symbols(level), allowedTag[<<s, P[1]>>]
               PROVE  /\ Width(s) = 1 => Near(In(s, P)', PlainSum(s, P))
                      /\ Width(s) # 1 => In(s, P)' = 0
    <3> DEFINE Goal(s, P) == allowedTag[<<s, P[1]>>] => /\ Width(s) = 1 => Near(In(s, P)', PlainSum(s, P))
                                                        /\ Width(s) # 1 => In(s, P)' = 0
    <3>1. \A s \in Spans : \A P \in Symbols(level) : Goal(s, P)
      OBVIOUS
    <3>2. /\ Symbols(level)' = Symbols(level)
          /\ \A s, P : PlainSum(s, P)' = PlainSum(s, P)
          /\ \A u, v : Near(u, v)' = Near(u, v)
      BY <1>1, TotalsKept
    <3>3. ASSUME NEW s \in Spans, NEW P \in Symbols(level), allowedTag'[<<s, P[1]>>]
          PROVE  /\ Before(s)' => Near(In(s, P), FullSum(s, P))'
                 /\ ~Before(s)' /\ PlainDone(s, P[1])' => Near(In(s, P), PlainSum(s, P))'
                 /\ ~PlainDone(s, P[1])' => In(s, P)' = 0
      <4>1. Goal(s, P) /\ allowedTag[<<s, P[1]>>]
        BY <1>1, <3>1, <3>3
      <4>2. Near(In(s, P), PlainSum(s, P))' <=> Near(In(s, P)', PlainSum(s, P))
        BY <3>2
      <4> QED  BY <1>4, <4>1, <4>2
    <3> HIDE DEF Goal
    <3> QED  BY <3>2, <3>3 DEF SumsNear
  <2>1. CASE Width(s) = 1 /\ Ok(s, P)
    <3>1. PlainSum(s, P) = Terminal(Model, s[1], P) /\ In(s, P)' = Terminal(Model, s[1], P)
      BY <1>2, <1>3, <2>1, WordPlain
    <3>2. Terminal(Model, s[1], P) \in Nat
      BY <1>2, WordScores
    <3> QED  BY <2>1, <3>1, <3>2, NearLaws
  <2>2. CASE Width(s) = 1 /\ ~Ok(s, P)
    <3>1. PlainSum(s, P) = 0 /\ In(s, P)' = 0
      BY <1>2, <1>3, <2>2, SomeTrees, Scores DEF PlainSum
    <3> QED  BY <2>2, <3>1, NearLaws
  <2>3. CASE Width(s) # 1
    BY <1>3, <2>3
  <2> QED  BY <2>1, <2>2, <2>3
<1>6. ExtentsKept'
  BY <1>1 DEF Summed, ExtentsKept, InsidePass
<1>7. ExtentsReach'
  <2>1. Symbols(level)' = Symbols(level)
    BY <1>1, TotalsKept
  <2>2. ASSUME NEW s \in Spans, NEW P \in Symbols(level), allowedTag'[<<s, P[1]>>], Width(s) # 1 PROVE ~(In(s, P)' > 0)
    BY <1>1, <1>3, <2>2
  <2>3. ASSUME NEW s \in Spans, NEW P \in Symbols(level)', P[1] # RootTag /\ allowedTag'[<<s, P[1]>>] /\ Width(s) # 1 /\ In(s, P)' > 0
        PROVE  FALSE
    BY <2>1, <2>2, <2>3
  <2> QED  BY <2>3 DEF ExtentsReach, Width
<1> QED  BY <1>1, <1>5, <1>6, <1>7 DEF Summed, Fresh, LoopEnds

-----------------------------------------------------------------------------
(* What the binary rules of one parent do to the charts.                   *)
LEMMA BinaryIn ==
  ASSUME Own, Summed, InsideBinary, NEW s \in Spans, NEW P \in Symbols(level), allowedTag[<<s, P[1]>>]
  PROVE  In(s, P)' = IF s = Span /\ P[1] = pos.tag /\ P[1] \notin Lexicals /\ Ok(s, P)
                       THEN BinarySum(s, P[1], P[2]) ELSE In(s, P)
<1>1. pc = "binary" /\ inside' = BinaryScores
  BY DEF InsideBinary
<1>2. Scoring
  BY <1>1 DEF Scoring, Passes
<1> DEFINE c == <<s, P[1]>>
           d == <<Span, pos.tag>>
<1>3. /\ c \in Cells /\ c[1] = s /\ c[2] = P[1] /\ P[2] \in DOMAIN inside[c]
      /\ Ok(s, P) <=> allowedSub[c][P[2]]
  BY <1>2, InShape
<1>4. In(s, P)' = BinaryScores[c][P[2]]
  BY <1>1 DEF In
<1>5. CASE allowedTag[d] /\ pos.tag \notin Lexicals
  <2>1. BinaryScores = [inside EXCEPT ![d] = [i \in DOMAIN inside[d] |->
               IF allowedSub[d][i] THEN BinarySum(Span, pos.tag, i) ELSE inside[d][i]]]
    BY <1>5 DEF BinaryScores
  <2>2. DOMAIN inside = Cells
    BY DEF Own, TypesOK
  <2>3. CASE c = d
    <3>1. BinaryScores[c] = [i \in DOMAIN inside[c] |->
               IF allowedSub[c][i] THEN BinarySum(Span, pos.tag, i) ELSE inside[c][i]]
      BY <1>3, <2>1, <2>2, <2>3
    <3>2. BinaryScores[c][P[2]] = IF allowedSub[c][P[2]] THEN BinarySum(Span, pos.tag, P[2]) ELSE inside[c][P[2]]
      BY <1>3, <3>1
    <3>3. s = Span /\ P[1] = pos.tag
      BY <2>3
    <3> QED  BY <1>3, <1>4, <1>5, <3>2, <3>3 DEF In
  <2>4. CASE c # d
    <3>1. BinaryScores[c] = inside[c]
      BY <1>3, <2>1, <2>2, <2>4
    <3>2. ~(s = Span /\ P[1] = pos.tag)
      BY <2>4
    <3> QED  BY <1>4, <3>1, <3>2 DEF In
  <2> QED  BY <2>3, <2>4
<1>6. CASE ~(allowedTag[d] /\ pos.tag \notin Lexicals)
  <2>1. BinaryScores = inside
    BY <1>6 DEF BinaryScores
  <2>2. s = Span /\ P[1] = pos.tag => P[1] \in Lexicals
    BY <1>6
  <2> QED  BY <1>4, <2>1, <2>2 DEF In
<1> QED  BY <1>5, <1>6

(* And to the extents.                                                     *)
LEMMA BinaryExtent ==
  ASSUME Own, Summed, InsideBinary
  PROVE  /\ \A t \in TagIds :
              /\ \A b \in 0..(NumWords - 1) : /\ extent'[b][t].nr = extent[b][t].nr
                                              /\ extent'[b][t].wr >= extent[b][t].wr /\ extent'[b][t].wr \in Int
              /\ \A e \in 1..NumWords : /\ extent'[e][t].nl = extent[e][t].nl
                                        /\ extent'[e][t].wl <= extent[e][t].wl /\ extent'[e][t].wl \in Int
         /\ Productive(Span, pos.tag) # {} =>
              /\ extent'[Span[1]][pos.tag].wr >= Span[2]
              /\ extent'[Span[2]][pos.tag].wl <= Span[1]
<1>1. /\ pc = "binary" /\ pos.tag < NumTags /\ extent' = BinaryExtents
      /\ extent \in [0..NumWords -> [TagIds -> ExtentType]]
  BY DEF InsideBinary, Own, VectorsOK
<1>2. Span \in Spans /\ pos.tag \in TagIds /\ Span[1] + 1 < Span[2]
  <2>1. Span \in Spans /\ Width(Span) = pos.len
    BY <1>1, SpanReached
  <2>2. pos.len > 1
    BY <1>1 DEF Summed, LoopEnds
  <2>3. pos.tag \in TagIds
    BY <1>1, Shapes DEF Own, LoopOK, TagIds
  <2> QED  BY <2>1, <2>2, <2>3, Shapes DEF Width
<1> DEFINE b == Span[1]
           e == Span[2]
           t == pos.tag
           left == extent[e][t]
           right == extent[b][t]
<1>3. b \in 0..(NumWords - 1) /\ e \in 1..NumWords /\ b \in 0..NumWords /\ e \in 0..NumWords /\ b # e /\ b + 1 < e
  BY <1>2, Shapes
<1>4. left.nl = e - 1 /\ right.nr = b + 1
  BY <1>1, <1>2, <1>3 DEF Summed, ExtentsKept, InsidePass
<1>5. left \in ExtentType /\ right \in ExtentType
  BY <1>1, <1>2, <1>3
<1>6. CASE Productive(Span, pos.tag) # {}
  <2> DEFINE newLeft == IF b < left.wl THEN [left EXCEPT !.wl = b] ELSE left
             newRight == IF e > right.wr THEN [right EXCEPT !.wr = e] ELSE right
  <2>1. extent' = [extent EXCEPT ![e][t] = newLeft, ![b][t] = newRight]
    <3>1. ~(b > left.nl) /\ ~(e < right.nr)
      BY <1>3, <1>4
    <3> QED  BY <1>1, <1>6, <3>1 DEF BinaryExtents, Widened
  <2>2. newLeft.nl = left.nl /\ newLeft.wl <= left.wl /\ newLeft.wl <= b /\ newLeft.wl \in Int
    BY <1>3, <1>5 DEF ExtentType
  <2>3. newRight.nr = right.nr /\ newRight.wr >= right.wr /\ newRight.wr >= e /\ newRight.wr \in Int
    BY <1>3, <1>5 DEF ExtentType
  <2> HIDE DEF newLeft, newRight
  <2>4. extent'[e][t] = newLeft /\ extent'[b][t] = newRight
    BY <1>1, <1>2, <1>3, <2>1
  <2>5. \A p \in 0..NumWords, q \in TagIds : <<p, q>> # <<e, t>> /\ <<p, q>> # <<b, t>> => extent'[p][q] = extent[p][q]
    BY <1>1, <2>1
  <2> HIDE DEF b, e, t, left, right
  <2>6. ASSUME NEW q \in TagIds, NEW p \in 0..(NumWords - 1)
        PROVE  extent'[p][q].nr = extent[p][q].nr /\ extent'[p][q].wr >= extent[p][q].wr /\ extent'[p][q].wr \in Int
    <3>1. p \in 0..NumWords /\ extent[p][q] \in ExtentType
      BY <1>1, Shapes
    <3>2. extent[p][q].wr \in Int /\ extent[p][q].wr >= extent[p][q].wr
      BY <3>1 DEF ExtentType
    <3>3. CASE p = b /\ q = t
      BY <2>3, <2>4, <3>3 DEF right
    <3>4. CASE p = e /\ q = t
      <4>1. newLeft.nr = left.nr /\ newLeft.wr = left.wr
        BY <1>5 DEF newLeft, ExtentType
      <4> QED  BY <2>4, <3>2, <3>4, <4>1 DEF left
    <3>5. CASE <<p, q>> # <<e, t>> /\ <<p, q>> # <<b, t>>
      BY <2>5, <3>1, <3>2, <3>5
    <3> QED  BY <3>3, <3>4, <3>5
  <2>7. ASSUME NEW q \in TagIds, NEW p \in 1..NumWords
        PROVE  extent'[p][q].nl = extent[p][q].nl /\ extent'[p][q].wl <= extent[p][q].wl /\ extent'[p][q].wl \in Int
    <3>1. p \in 0..NumWords /\ extent[p][q] \in ExtentType
      BY <1>1, Shapes
    <3>2. extent[p][q].wl \in Int /\ extent[p][q].wl <= extent[p][q].wl
      BY <3>1 DEF ExtentType
    <3>3. CASE p = e /\ q = t
      BY <2>2, <2>4, <3>3 DEF left
    <3>4. CASE p = b /\ q = t
      <4>1. newRight.nl = right.nl /\ newRight.wl = right.wl
        BY <1>5 DEF newRight, ExtentType
      <4> QED  BY <2>4, <3>2, <3>4, <4>1 DEF right
    <3>5. CASE <<p, q>> # <<e, t>> /\ <<p, q>> # <<b, t>>
      BY <2>5, <3>1, <3>2, <3>5
    <3> QED  BY <3>3, <3>4, <3>5
  <2>8. extent'[Span[1]][pos.tag].wr >= Span[2] /\ extent'[Span[2]][pos.tag].wl <= Span[1]
    BY <2>2, <2>3, <2>4 DEF b, e, t
  <2> QED  BY <2>6, <2>7, <2>8
<1>7. CASE Productive(Span, pos.tag) = {}
  <2>1. extent' = extent
    BY <1>1, <1>7 DEF BinaryExtents
  <2>2. \A p \in 0..NumWords, q \in TagIds : extent[p][q].wr \in Int /\ extent[p][q].wl \in Int
    BY <1>1 DEF ExtentType
  <2>3. \A p \in 0..(NumWords - 1) : p \in 0..NumWords
    BY Shapes
  <2>4. \A p \in 1..NumWords : p \in 0..NumWords
    BY Shapes
  <2> QED  BY <1>7, <2>1, <2>2, <2>3, <2>4
<1> QED  BY <1>6, <1>7

(* The binary rules of a parent keep the scores and extents in step.       *)
LEMMA InsideBinarySummed == Own /\ Summed /\ InsideBinary => Summed'
<1> SUFFICES ASSUME Own, Summed, InsideBinary PROVE Summed'
  OBVIOUS
<1>1. /\ pc = "binary" /\ pos.tag < NumTags /\ inside' = BinaryScores
      /\ pos' = [pos EXCEPT !.tag = @ + 1]
      /\ pc' = IF pos.tag = NumTags - 1 THEN "unary" ELSE "binary"
      /\ UNCHANGED <<sentence, models, level, allowedTag, allowedSub>>
  BY DEF InsideBinary, input, control, flags
<1>2. Scoring /\ pc' \in {"unary", "binary"}
  BY <1>1 DEF Scoring, Passes
<1>3. /\ pos'.len = pos.len /\ pos'.begin = pos.begin /\ pos'.tag = pos.tag + 1 /\ pos.tag \in Nat
      /\ Span' = Span /\ pos.len > 1
  <2>1. pos \in [len : 0..(NumWords + 1), begin : 0..(NumWords - 1), tag : 0..NumTags]
    BY DEF Own, LoopOK
  <2>2. pos'.len = pos.len /\ pos'.begin = pos.begin /\ pos'.tag = pos.tag + 1 /\ pos.tag \in Nat
    BY <1>1, <2>1
  <2>3. Span' = Span
    BY <2>2 DEF Span
  <2> QED  BY <1>1, <2>2, <2>3 DEF Summed, LoopEnds
<1>4. Span \in Spans /\ ~Before(Span) /\ Width(Span) # 1
  BY <1>1, <1>3, SpanReached
<1>5. ASSUME NEW s \in Spans, NEW t \in TagIds
      PROVE  /\ Before(s)' <=> Before(s)
             /\ PlainDone(s, t)' <=> PlainDone(s, t) \/ (s = Span /\ t = pos.tag)
  <2>1. Before(s)' <=> Before(s)
    BY <1>3 DEF Before, Width
  <2>2. (pc' = "unary" \/ t < pos'.tag) <=> (t < pos.tag \/ t = pos.tag)
    <3>1. t \in Nat /\ t <= NumTags - 1 /\ NumTags \in Nat
      BY Shapes DEF TagIds
    <3>2. CASE pos.tag = NumTags - 1
      BY <1>1, <3>1, <3>2
    <3>3. CASE pos.tag # NumTags - 1
      <4>1. pc' # "unary"
        BY <1>1, <3>3
      <4> QED  BY <1>3, <3>1, <4>1
    <3> QED  BY <3>2, <3>3
  <2>3. PlainDone(s, t)' <=> Width(s) = 1 \/ Before(s) \/ (s = Span /\ (t < pos.tag \/ t = pos.tag))
    BY <1>3, <2>1, <2>2 DEF PlainDone, Width
  <2>4. PlainDone(s, t) <=> Width(s) = 1 \/ Before(s) \/ (s = Span /\ t < pos.tag)
    BY <1>1 DEF PlainDone
  <2> QED  BY <2>1, <2>3, <2>4
<1>6. /\ Symbols(level)' = Symbols(level)
      /\ \A s, P : FullSum(s, P)' = FullSum(s, P) /\ PlainSum(s, P)' = PlainSum(s, P)
      /\ NoPhrasalUnary' = NoPhrasalUnary
      /\ \A u, v : Near(u, v)' = Near(u, v)
  BY <1>1, TotalsKept
<1>7. \A P \in Symbols(level) : P[1] \in TagIds
  BY <1>2, <1>4, ScoringShapes, SymbolShapes
<1>8. ASSUME NEW s \in Spans, NEW P \in Symbols(level), allowedTag[<<s, P[1]>>]
      PROVE  /\ Before(s) => Near(In(s, P), FullSum(s, P))
             /\ ~Before(s) /\ PlainDone(s, P[1]) => Near(In(s, P), PlainSum(s, P))
             /\ ~PlainDone(s, P[1]) => In(s, P) = 0
  BY <1>1, <1>8 DEF Summed, SumsNear, InsidePass
<1>9. ~PlainDone(Span, pos.tag)
  BY <1>1, <1>3, <1>4 DEF PlainDone
<1>10. ASSUME NEW s \in Spans, s = Span, NEW P \in Symbols(level), P[1] = pos.tag, allowedTag[<<s, P[1]>>]
       PROVE  Near(In(s, P)', PlainSum(s, P))
  <2>1. In(s, P)' = IF P[1] \notin Lexicals /\ Ok(s, P) THEN BinarySum(s, P[1], P[2]) ELSE In(s, P)
    BY <1>10, BinaryIn
  <2>2. In(s, P) = 0
    BY <1>8, <1>9, <1>10
  <2>3. CASE P[1] \notin Lexicals /\ Ok(s, P)
    <3>1. Near(BinarySum(Span, P[1], P[2]), PlainSum(Span, P))
      BY <1>1, <1>2, <1>10, <2>3, BinarySumNear
    <3> QED  BY <1>10, <2>1, <2>3, <3>1
  <2>4. CASE ~(P[1] \notin Lexicals /\ Ok(s, P))
    <3>1. PlainOf(s, P) = {}
      <4>1. Width(s) # 1
        BY <1>4, <1>10
      <4> QED  BY <1>2, <2>4, <4>1, SomeTrees
    <3>2. PlainSum(s, P) = 0
      BY <1>2, <3>1, Scores DEF PlainSum
    <3> QED  BY <2>1, <2>2, <2>4, <3>2, NearLaws
  <2> QED  BY <2>3, <2>4
<1>11. ASSUME NEW s \in Spans, NEW P \in Symbols(level), allowedTag[<<s, P[1]>>], ~(s = Span /\ P[1] = pos.tag)
       PROVE  In(s, P)' = In(s, P)
  BY <1>11, BinaryIn
<1>12. SumsNear'
  <2>1. ASSUME NEW s \in Spans, NEW P \in Symbols(level), allowedTag'[<<s, P[1]>>]
        PROVE  /\ Before(s)' => Near(In(s, P), FullSum(s, P))'
               /\ ~Before(s)' /\ PlainDone(s, P[1])' => Near(In(s, P), PlainSum(s, P))'
               /\ ~PlainDone(s, P[1])' => In(s, P)' = 0
    <3>1. /\ Near(In(s, P), FullSum(s, P))' <=> Near(In(s, P)', FullSum(s, P))
          /\ Near(In(s, P), PlainSum(s, P))' <=> Near(In(s, P)', PlainSum(s, P))
      BY <1>6
    <3>2. allowedTag[<<s, P[1]>>] /\ P[1] \in TagIds
      BY <1>1, <1>7, <2>1
    <3>3. CASE s = Span /\ P[1] = pos.tag
      <4>1. Near(In(s, P)', PlainSum(s, P))
        BY <1>10, <3>2, <3>3
      <4> QED  BY <1>4, <1>5, <3>1, <3>2, <3>3, <4>1
    <3>4. CASE ~(s = Span /\ P[1] = pos.tag)
      <4>1. In(s, P)' = In(s, P)
        BY <1>11, <3>2, <3>4
      <4>2. (Before(s)' <=> Before(s)) /\ (PlainDone(s, P[1])' <=> PlainDone(s, P[1]))
        BY <1>5, <3>2, <3>4
      <4> QED  BY <1>8, <3>1, <3>2, <4>1, <4>2
    <3> QED  BY <3>3, <3>4
  <2> QED  BY <1>6, <2>1 DEF SumsNear
<1>13. ExtentsKept'
  <2> SUFFICES ASSUME NEW t \in TagIds
               PROVE  /\ \A b \in 0..(NumWords - 1) : extent'[b][t].nr = b + 1 /\ extent'[b][t].wr >= b + 1
                      /\ \A e \in 1..NumWords : extent'[e][t].nl = e - 1 /\ extent'[e][t].wl <= e - 1
    BY DEF ExtentsKept
  <2>1. extent \in [0..NumWords -> [TagIds -> ExtentType]]
    BY DEF Own, VectorsOK
  <2>2. ASSUME NEW b \in 0..(NumWords - 1) PROVE extent'[b][t].nr = b + 1 /\ extent'[b][t].wr >= b + 1
    <3>1. extent[b][t].nr = b + 1 /\ extent[b][t].wr >= b + 1
      BY <1>1 DEF Summed, ExtentsKept, InsidePass
    <3>2. /\ extent'[b][t].nr = extent[b][t].nr
          /\ extent'[b][t].wr >= extent[b][t].wr /\ extent'[b][t].wr \in Int
      BY BinaryExtent
    <3>3. extent[b][t].wr \in Int
      <4>1. b \in 0..NumWords
        BY Shapes
      <4> QED  BY <2>1, <4>1 DEF ExtentType
    <3> QED  BY <3>1, <3>2, <3>3
  <2>3. ASSUME NEW e \in 1..NumWords PROVE extent'[e][t].nl = e - 1 /\ extent'[e][t].wl <= e - 1
    <3>1. extent[e][t].nl = e - 1 /\ extent[e][t].wl <= e - 1
      BY <1>1 DEF Summed, ExtentsKept, InsidePass
    <3>2. /\ extent'[e][t].nl = extent[e][t].nl
          /\ extent'[e][t].wl <= extent[e][t].wl /\ extent'[e][t].wl \in Int
      BY BinaryExtent
    <3>3. extent[e][t].wl \in Int
      <4>1. e \in 0..NumWords
        BY Shapes
      <4> QED  BY <2>1, <4>1 DEF ExtentType
    <3> QED  BY <3>1, <3>2, <3>3
  <2> QED  BY <2>2, <2>3
<1>14. ExtentsReach'
  <2>1. ASSUME NoPhrasalUnary, NEW s \in Spans, NEW P \in Symbols(level), P[1] # RootTag,
               allowedTag[<<s, P[1]>>], Width(s) # 1, In(s, P)' > 0
        PROVE  extent'[s[1]][P[1]].wr >= s[2] /\ extent'[s[2]][P[1]].wl <= s[1]
    <3>0. P[1] \in TagIds
      BY <1>7
    <3>1. CASE In(s, P) > 0
      <4>1. extent[s[1]][P[1]].wr >= s[2] /\ extent[s[2]][P[1]].wl <= s[1]
        BY <1>1, <2>1, <3>1 DEF Summed, ExtentsReach, InsidePass
      <4>2. s[1] \in 0..(NumWords - 1) /\ s[2] \in 1..NumWords /\ s[1] \in 0..NumWords /\ s[2] \in 0..NumWords
        BY Shapes
      <4>3. /\ extent'[s[1]][P[1]].wr >= extent[s[1]][P[1]].wr /\ extent'[s[1]][P[1]].wr \in Int
            /\ extent'[s[2]][P[1]].wl <= extent[s[2]][P[1]].wl /\ extent'[s[2]][P[1]].wl \in Int
        BY <3>0, <4>2, BinaryExtent
      <4>4. extent[s[1]][P[1]].wr \in Int /\ extent[s[2]][P[1]].wl \in Int
        <5>1. extent \in [0..NumWords -> [TagIds -> ExtentType]]
          BY DEF Own, VectorsOK
        <5> QED  BY <3>0, <4>2, <5>1 DEF ExtentType
      <4> QED  BY <4>1, <4>2, <4>3, <4>4
    <3>2. CASE ~(In(s, P) > 0)
      <4>1. s = Span /\ P[1] = pos.tag /\ P[1] \notin Lexicals /\ Ok(s, P)
        BY <2>1, <3>2, BinaryIn
      <4>2. In(s, P)' = BinarySum(Span, P[1], P[2])
        BY <2>1, <4>1, BinaryIn
      <4>3. Productive(Span, pos.tag) # {}
        <5> SUFFICES ASSUME Productive(Span, pos.tag) = {} PROVE FALSE
          OBVIOUS
        <5> DEFINE D == {u \in Productive(Span, P[1]) : u[1][1][2] = P[2]}
                   f == [u \in D |-> Model.bin[u[1]] * LeftScore(Span, u) * RightScore(Span, u)]
        <5>1. BinarySum(Span, P[1], P[2]) = Total(f, D)
          BY TotalOfSum DEF BinarySum, SumOver
        <5>2. D = {}
          BY <4>1
        <5>3. \A g : Total(g, {}) = 0
          <6> TAKE g
          <6>1. IsFiniteSet({}) /\ \A x \in {} : g[x] \in Nat
            BY FS_EmptySet
          <6> QED  BY <6>1, TotalSplit
        <5> HIDE DEF D, f
        <5> QED  BY <2>1, <4>2, <5>1, <5>2, <5>3
      <4> QED  BY <4>1, <4>3, BinaryExtent
    <3> QED  BY <3>1, <3>2
  <2>2. ASSUME NoPhrasalUnary', NEW s \in Spans, NEW P \in Symbols(level)',
               P[1] # RootTag /\ allowedTag'[<<s, P[1]>>] /\ Width(s) # 1 /\ In(s, P)' > 0
        PROVE  extent'[s[1]][P[1]].wr >= s[2] /\ extent'[s[2]][P[1]].wl <= s[1]
    BY <1>1, <1>6, <2>1, <2>2
  <2> QED  BY <2>2 DEF ExtentsReach, Width
<1>15. Fresh' /\ LoopEnds'
  BY <1>2, <1>3 DEF Fresh, LoopEnds
<1> QED  BY <1>12, <1>13, <1>14, <1>15 DEF Summed

(* The unary rules of a span complete it.                                  *)
LEMMA InsideUnarySummed == Own /\ Summed /\ InsideUnary => Summed'
<1> SUFFICES ASSUME Own, Summed, InsideUnary PROVE Summed'
  OBVIOUS
<1>1. /\ pc = "unary" /\ inside' = UnaryScores /\ pos' = NextSpan(pos)
      /\ pc' = IF pos'.len > NumWords THEN "score" ELSE IF pos'.len = 1 THEN "unary" ELSE "binary"
      /\ UNCHANGED <<sentence, models, level, allowedTag, allowedSub, extent>>
  BY DEF InsideUnary, input, control, flags
<1>2. Scoring /\ pc' \in InsidePass
  BY <1>1 DEF Scoring, Passes, InsidePass
<1>3. Span \in Spans /\ Span[1] = pos.begin /\ Width(Span) = pos.len /\ ~Before(Span)
  BY <1>1, SpanReached
<1>4. /\ Symbols(level)' = Symbols(level)
      /\ \A s, P : FullSum(s, P)' = FullSum(s, P) /\ PlainSum(s, P)' = PlainSum(s, P)
      /\ NoPhrasalUnary' = NoPhrasalUnary
      /\ \A u, v : Near(u, v)' = Near(u, v)
  BY <1>1, TotalsKept
<1>5. \A s \in Spans : (Before(s)' <=> Before(s) \/ s = Span) /\ (Span' = s /\ pc' = "unary" => Width(s) = 1)
  <2>1. PICK k \in 1..NumWords, b \in 0..(NumWords - 1), t \in 0..NumTags :
          pos = [len |-> k, begin |-> b, tag |-> t] /\ b + k <= NumWords
    <3>1. /\ pos \in [len : 0..(NumWords + 1), begin : 0..(NumWords - 1), tag : 0..NumTags]
          /\ pos.len \in 1..NumWords /\ pos.begin + pos.len <= NumWords
      BY <1>1 DEF Own, LoopOK
    <3>2. pos = [len |-> pos.len, begin |-> pos.begin, tag |-> pos.tag]
      BY <3>1
    <3> QED  BY <3>1, <3>2
  <2> SUFFICES ASSUME NEW s \in Spans
               PROVE (Before(s)' <=> Before(s) \/ s = Span) /\ (Span' = s /\ pc' = "unary" => Width(s) = 1)
    OBVIOUS
  <2>2. /\ s = <<s[1], s[2]>> /\ s[1] \in 0..(NumWords - 1) /\ s[2] \in 1..NumWords /\ s[1] < s[2]
        /\ NumWords \in Nat \ {0}
    BY Shapes
  <2>3. s = Span <=> s[1] = b /\ s[2] - s[1] = k
    <3>1. Span = <<b, b + k>>
      BY <2>1 DEF Span
    <3>2. s[2] - s[1] = k <=> s[2] = s[1] + k
      BY <2>1, <2>2
    <3>3. s = <<b, b + k>> <=> s[1] = b /\ s[2] = b + k
      BY <2>2
    <3> QED  BY <3>1, <3>2, <3>3
  <2>4. Before(s) <=> s[2] - s[1] < k \/ (s[2] - s[1] = k /\ s[1] < b)
    BY <2>1 DEF Before, Width
  <2>5. CASE b + k < NumWords
    <3>1. pos'.len = k /\ pos'.begin = b + 1
      BY <1>1, <2>1, <2>5 DEF NextSpan
    <3>2. Before(s)' <=> s[2] - s[1] < k \/ (s[2] - s[1] = k /\ s[1] < b + 1)
      BY <3>1 DEF Before, Width
    <3>3. Before(s)' <=> Before(s) \/ s = Span
      BY <2>1, <2>2, <2>3, <2>4, <3>2
    <3>4. Span' = s /\ pc' = "unary" => Width(s) = 1
      <4>1. Span' = <<b + 1, b + 1 + k>>
        BY <3>1 DEF Span
      <4>2. pc' = "unary" => k = 1
        BY <1>1, <2>1, <3>1
      <4> QED  BY <2>1, <4>1, <4>2 DEF Width
    <3> QED  BY <3>3, <3>4
  <2>6. CASE ~(b + k < NumWords)
    <3>1. pos'.len = k + 1 /\ pos'.begin = 0
      BY <1>1, <2>1, <2>6 DEF NextSpan
    <3>2. Before(s)' <=> s[2] - s[1] < k + 1 \/ (s[2] - s[1] = k + 1 /\ s[1] < 0)
      BY <3>1 DEF Before, Width
    <3>3. b + k = NumWords
      BY <2>1, <2>2, <2>6
    <3>4. Before(s)' <=> Before(s) \/ s = Span
      BY <2>1, <2>2, <2>3, <2>4, <3>2, <3>3
    <3>5. pc' # "unary"
      BY <1>1, <2>1, <3>1
    <3> QED  BY <3>4, <3>5
  <2> QED  BY <2>5, <2>6
<1>6. ASSUME NEW s \in Spans, NEW P \in Symbols(level), allowedTag[<<s, P[1]>>]
      PROVE  In(s, P)' = IF s = Span THEN In(s, P) + InsideUnaryDelta(s, P) ELSE In(s, P)
  <2> DEFINE c == <<s, P[1]>>
  <2>1. c \in Cells /\ c[1] = s /\ c[2] = P[1] /\ P[2] \in DOMAIN inside[c] /\ <<c[2], P[2]>> = P
    BY <1>2, <1>6, InShape
  <2>2. In(s, P)' = UnaryScores[c][P[2]]
    BY <1>1 DEF In
  <2>3. UnaryScores[c] = IF c[1] = Span /\ allowedTag[c]
                           THEN [i \in DOMAIN inside[c] |-> inside[c][i] + InsideUnaryDelta(Span, <<c[2], i>>)]
                           ELSE inside[c]
    BY <2>1 DEF UnaryScores
  <2>4. CASE s = Span
    <3>1. UnaryScores[c] = [i \in DOMAIN inside[c] |-> inside[c][i] + InsideUnaryDelta(Span, <<c[2], i>>)]
      BY <1>6, <2>1, <2>3, <2>4
    <3>2. UnaryScores[c][P[2]] = inside[c][P[2]] + InsideUnaryDelta(Span, <<c[2], P[2]>>)
      BY <2>1, <3>1
    <3> QED  BY <2>1, <2>2, <2>4, <3>2 DEF In
  <2>5. CASE s # Span
    BY <2>1, <2>2, <2>3, <2>5 DEF In
  <2> QED  BY <2>4, <2>5
<1>7. ASSUME NEW s \in Spans, NEW P \in Symbols(level), allowedTag[<<s, P[1]>>]
      PROVE  /\ Before(s) => Near(In(s, P), FullSum(s, P))
             /\ ~Before(s) /\ PlainDone(s, P[1]) => Near(In(s, P), PlainSum(s, P))
             /\ ~PlainDone(s, P[1]) => In(s, P) = 0
  BY <1>1, <1>7 DEF Summed, SumsNear, InsidePass
<1>8. ASSUME NEW s \in Spans, s = Span, NEW P \in Symbols(level), allowedTag[<<s, P[1]>>]
      PROVE  Near(In(s, P)', FullSum(s, P))
  <2>1. \A Q \in Symbols(level) : allowedTag[<<s, Q[1]>>] => Near(In(s, Q), PlainSum(s, Q))
    BY <1>1, <1>3, <1>7, <1>8 DEF PlainDone
  <2>2. \A Q \in Symbols(level) : Ok(s, Q) => Near(In(s, Q), PlainSum(s, Q))
    BY <2>1 DEF Ok, Usable
  <2>3. In(s, P)' = In(s, P) + InsideUnaryDelta(s, P) /\ In(s, P) \in Nat
    BY <1>2, <1>3, <1>6, <1>8, InShape
  <2>4. Near(In(s, P), PlainSum(s, P)) /\ PlainSum(s, P) \in Nat
    BY <1>2, <1>3, <1>8, <2>1, SomeTrees
  <2>5. CASE Ok(s, P)
    <3> DEFINE a == Total(RaiseTerms(s), Raises(P))
               d == InsideUnaryDelta(s, P)
    <3>1. FullSum(s, P) = PlainSum(s, P) + a
      BY <1>2, <1>3, <2>5, FullSums
    <3>2. Near(d, a)
      BY <1>2, <1>3, <2>2, <2>5, UnarySumNear
    <3>3. d \in Nat
      BY <1>2, <1>3, UnarySums
    <3>4. a \in Nat
      BY <1>2, <1>3, UseFacts, TotalSplit
    <3> HIDE DEF a, d
    <3>5. Near(In(s, P) + d, PlainSum(s, P) + a)
      BY <2>3, <2>4, <3>2, <3>3, <3>4, NearLaws
    <3> QED  BY <2>3, <3>1, <3>5 DEF d
  <2>6. CASE ~Ok(s, P)
    <3>1. InsideUnaryDelta(s, P) = 0
      BY <1>2, <1>3, <2>6, UnarySumNone
    <3>2. TreesWith(s, P) = {} /\ PlainOf(s, P) = {}
      BY <1>2, <1>3, <2>6, SomeTrees
    <3>3. FullSum(s, P) = PlainSum(s, P)
      BY <3>2 DEF FullSum, PlainSum
    <3>4. In(s, P)' = In(s, P)
      BY <2>3, <3>1
    <3> QED  BY <2>4, <3>3, <3>4
  <2> QED  BY <2>5, <2>6
<1>9. SumsNear'
  <2>1. ASSUME NEW s \in Spans, NEW P \in Symbols(level), allowedTag'[<<s, P[1]>>]
        PROVE  /\ Before(s)' => Near(In(s, P), FullSum(s, P))'
               /\ ~Before(s)' /\ PlainDone(s, P[1])' => Near(In(s, P), PlainSum(s, P))'
               /\ ~PlainDone(s, P[1])' => In(s, P)' = 0
    <3>1. /\ Near(In(s, P), FullSum(s, P))' <=> Near(In(s, P)', FullSum(s, P))
          /\ Near(In(s, P), PlainSum(s, P))' <=> Near(In(s, P)', PlainSum(s, P))
      BY <1>4
    <3>2. allowedTag[<<s, P[1]>>] /\ P[1] \in TagIds
      BY <1>1, <1>2, <2>1, ScoringShapes, SymbolShapes
    <3>3. CASE s = Span
      <4>1. Near(In(s, P)', FullSum(s, P))
        BY <1>8, <3>2, <3>3
      <4>2. Before(s)' /\ PlainDone(s, P[1])'
        <5>1. Before(s)'
          BY <1>5, <3>3
        <5> QED  BY <5>1 DEF PlainDone
      <4> QED  BY <3>1, <4>1, <4>2
    <3>4. CASE s # Span
      <4>1. In(s, P)' = In(s, P) /\ (Before(s)' <=> Before(s))
        BY <1>5, <1>6, <3>2, <3>4
      <4>2. ~Before(s) => (PlainDone(s, P[1]) <=> Width(s) = 1)
        BY <3>4 DEF PlainDone
      <4>3. ~Before(s) => (PlainDone(s, P[1])' <=> Width(s) = 1)
        <5>1. ~(P[1] < pos'.tag)
          <6>1. NextSpan(pos).tag = 0
            BY <1>1, LoopSpans
          <6>2. pos'.tag = 0 /\ P[1] \in Nat
            BY <1>1, <3>2, <6>1, Shapes DEF TagIds
          <6> QED  BY <6>2
        <5>2. PlainDone(s, P[1])' <=> Width(s) = 1 \/ Before(s)' \/ (s = Span' /\ (pc' = "unary" \/ P[1] < pos'.tag))
          BY DEF PlainDone, Width
        <5> QED  BY <1>5, <4>1, <5>1, <5>2
      <4>4. Before(s) => PlainDone(s, P[1]) /\ PlainDone(s, P[1])'
        BY <4>1 DEF PlainDone
      <4> QED  BY <1>7, <3>1, <3>2, <4>1, <4>2, <4>3, <4>4
    <3> QED  BY <3>3, <3>4
  <2> QED  BY <1>4, <2>1 DEF SumsNear
<1>10. ExtentsKept'
  BY <1>1 DEF Summed, ExtentsKept, InsidePass
<1>11. ExtentsReach'
  <2>1. ASSUME NoPhrasalUnary, NEW s \in Spans, NEW P \in Symbols(level), P[1] # RootTag,
               allowedTag[<<s, P[1]>>], Width(s) # 1, In(s, P)' > 0
        PROVE  extent[s[1]][P[1]].wr >= s[2] /\ extent[s[2]][P[1]].wl <= s[1]
    <3>1. In(s, P)' = In(s, P)
      <4>1. CASE s = Span
        <5>1. InsideUnaryDelta(s, P) = 0 /\ In(s, P) \in Nat
          BY <1>2, <2>1, UnarySumPhrase, InShape
        <5> QED  BY <1>6, <2>1, <4>1, <5>1
      <4>2. CASE s # Span
        BY <1>6, <2>1, <4>2
      <4> QED  BY <4>1, <4>2
    <3> QED  BY <1>1, <2>1, <3>1 DEF Summed, ExtentsReach, InsidePass
  <2>2. ASSUME NoPhrasalUnary', NEW s \in Spans, NEW P \in Symbols(level)',
               P[1] # RootTag /\ allowedTag'[<<s, P[1]>>] /\ Width(s) # 1 /\ In(s, P)' > 0
        PROVE  extent'[s[1]][P[1]].wr >= s[2] /\ extent'[s[2]][P[1]].wl <= s[1]
    BY <1>1, <1>4, <2>1, <2>2
  <2> QED  BY <2>2 DEF ExtentsReach, Width
<1>12. Fresh' /\ LoopEnds'
  <2>1. NextSpan(pos) \in [len : 0..(NumWords + 1), begin : 0..(NumWords - 1), tag : 0..NumTags]
        /\ NextSpan(pos).len >= 1
    BY <1>1, LoopSpans
  <2>2. pos'.len \in Nat /\ pos'.len >= 1
    BY <1>1, <2>1, Shapes
  <2> QED  BY <1>1, <2>2 DEF Fresh, LoopEnds
<1> QED  BY <1>9, <1>10, <1>11, <1>12 DEF Summed

-----------------------------------------------------------------------------
(* A step that changes nothing keeps it all.                               *)
LEMMA StutterSummed == Summed /\ UNCHANGED vars => Summed'
<1> SUFFICES ASSUME Summed, UNCHANGED vars PROVE Summed'
  OBVIOUS
<1>1. /\ pc' = pc /\ pos' = pos /\ inside' = inside /\ extent' = extent
      /\ UNCHANGED <<sentence, models, level, allowedTag, allowedSub>>
  BY DEF vars, input, control, flags
<1>2. /\ Symbols(level)' = Symbols(level)
      /\ \A s, P : FullSum(s, P)' = FullSum(s, P) /\ PlainSum(s, P)' = PlainSum(s, P)
      /\ NoPhrasalUnary' = NoPhrasalUnary
      /\ \A u, v : Near(u, v)' = Near(u, v)
  BY <1>1, TotalsKept
<1>3. /\ \A s : Before(s)' <=> Before(s)
      /\ \A s, t : PlainDone(s, t)' <=> PlainDone(s, t)
      /\ \A s, P : In(s, P)' = In(s, P)
  BY <1>1 DEF Before, PlainDone, Span, Width, In
<1>4. SumsNear'
  <2>1. ASSUME pc \in InsidePass, NEW s \in Spans, NEW P \in Symbols(level), allowedTag'[<<s, P[1]>>]
        PROVE  /\ Before(s)' => Near(In(s, P), FullSum(s, P))'
               /\ ~Before(s)' /\ PlainDone(s, P[1])' => Near(In(s, P), PlainSum(s, P))'
               /\ ~PlainDone(s, P[1])' => In(s, P)' = 0
    <3>1. /\ Near(In(s, P), FullSum(s, P))' <=> Near(In(s, P), FullSum(s, P))
          /\ Near(In(s, P), PlainSum(s, P))' <=> Near(In(s, P), PlainSum(s, P))
      BY <1>2, <1>3
    <3>2. /\ Before(s) => Near(In(s, P), FullSum(s, P))
          /\ ~Before(s) /\ PlainDone(s, P[1]) => Near(In(s, P), PlainSum(s, P))
          /\ ~PlainDone(s, P[1]) => In(s, P) = 0
      BY <1>1, <2>1 DEF Summed, SumsNear
    <3> QED  BY <1>3, <3>1, <3>2
  <2> QED  BY <1>1, <1>2, <2>1 DEF SumsNear, InsidePass
<1>5. ExtentsReach'
  BY <1>1, <1>2, <1>3 DEF Summed, ExtentsReach, Width, InsidePass
<1>6. ExtentsKept'
  BY <1>1 DEF Summed, ExtentsKept, InsidePass
<1> QED  BY <1>1, <1>4, <1>5, <1>6 DEF Summed, Fresh, LoopEnds

(* There is nothing to show before the first level.                        *)
LEMMA InitSummed == Init => Summed
BY DEF Init, Summed, Fresh, ExtentsKept, ExtentsReach, SumsNear, LoopEnds, InsidePass

(* Every step keeps it.                                                    *)
LEMMA StepSummed == Own /\ Summed /\ [Next]_vars => Summed'
<1> SUFFICES ASSUME Own, Summed, [Next]_vars PROVE Summed'
  OBVIOUS
<1>1. CASE Load \/ ParseEmpty \/ StartAttempt \/ RejectLevel \/ AcceptLevel
  <2>1. pc' \notin {"terminals"} \cup InsidePass
    BY <1>1 DEF Load, ParseEmpty, StartAttempt, RejectLevel, AcceptLevel, InsidePass
  <2> QED  BY <2>1, NotSummed
<1>2. CASE OutsideSpan \/ PruneCharts \/ Retrieve \/ Return
  <2>1. pc' \notin {"terminals"} \cup InsidePass
    BY <1>2 DEF OutsideSpan, PruneCharts, Retrieve, Return, InsidePass
  <2> QED  BY <2>1, NotSummed
<1>3. CASE InitializeCharts
  BY <1>3, InitializeChartsSummed
<1>4. CASE SetTerminals
  BY <1>4, SetTerminalsSummed
<1>5. CASE InsideBinary
  BY <1>5, InsideBinarySummed
<1>6. CASE InsideUnary
  BY <1>6, InsideUnarySummed
<1>7. CASE UNCHANGED vars
  BY <1>7, StutterSummed
<1> QED  BY <1>1, <1>2, <1>3, <1>4, <1>5, <1>6, <1>7 DEF Next

(* After the last span every score is complete.                            *)
LEMMA SummedExact == Own /\ Summed => InsideExact
<1> SUFFICES ASSUME Own, Summed, pc = "score" PROVE InsideExact
  BY DEF InsideExact
<1>1. Scoring
  BY DEF Scoring, Passes
<1>2. \A s \in Spans : Before(s)
  <2>1. pos.len > NumWords /\ pos.len \in Nat
    <3>1. pos \in [len : 0..(NumWords + 1), begin : 0..(NumWords - 1), tag : 0..NumTags]
      BY DEF Own, LoopOK
    <3> QED  BY <3>1, Shapes DEF Summed, LoopEnds
  <2>2. \A s \in Spans : Width(s) \in Nat /\ Width(s) <= NumWords
    BY SpanParts
  <2> QED  BY <2>1, <2>2, Shapes DEF Before
<1>3. ASSUME NEW c \in Cells, allowedTag[c], NEW i \in DOMAIN inside[c]
      PROVE  /\ inside[c][i] <= TreeSum(Trees, c, i)
             /\ NoPhrasalUnary => inside[c][i] = TreeSum(Trees, c, i)
  <2> DEFINE s == c[1]
             P == <<c[2], i>>
  <2>1. s \in Spans /\ c[2] \in TagIds /\ c = <<c[1], c[2]>>
    BY DEF Cells
  <2>2. P \in Symbols(level)
    <3>1. i \in 0..(NumSub[c[2]][level] - 1)
      BY <1>1, <1>3, ScoringShapes DEF SubIds
    <3> QED  BY <2>1, <3>1 DEF Symbols
  <2>3. allowedTag[<<s, P[1]>>] /\ In(s, P) = inside[c][i]
    BY <1>3, <2>1 DEF In
  <2>4. Near(In(s, P), FullSum(s, P))
    BY <1>2, <2>1, <2>2, <2>3 DEF Summed, SumsNear, InsidePass
  <2>5. TreeSum(Trees, c, i) = FullSum(s, P)
    <3>1. TreesWith(s, P) \in SUBSET AllTrees
      BY <1>1, <2>1, SomeTrees
    <3>2. TreeSum(Trees, c, i) = ScoreOf(TreesWith(s, P))
      BY DEF TreeSum, TreesWith
    <3> QED  BY <1>1, <3>1, <3>2, ScoreOfTotal DEF FullSum
  <2> HIDE DEF s, P
  <2> QED  BY <2>3, <2>4, <2>5 DEF Near, CloseTo
<1> QED  BY <1>3 DEF InsideExact, AllFound, Trees

(* The inside pass sums no tree that is none, and misses none where no     *)
(* phrase but ROOT is derived by a unary rule: for every grammar, sentence *)
(* and pruning, whatever the order in which the extents grow.              *)
THEOREM InsidesExact == Spec => []InsideExact
<1>1. IInv /\ Summed => InsideExact
  BY SummedExact DEF IInv
<1>2. IInv /\ Summed /\ [Next]_vars => Summed'
  BY StepSummed DEF IInv
<1> QED  BY <1>1, <1>2, InitInv, StepInv, InitSummed, PTL DEF Spec

-----------------------------------------------------------------------------
(* A tree over a span of a level has that span.                            *)
LEMMA TreeShapes ==
  ASSUME Scoring, NEW s \in Spans, NEW x \in Trees[s]
  PROVE  x \in AllTrees /\ x.span = s
<1>1. TreeFact(s, x)
  BY TreeFacts
<1> QED  BY <1>1 DEF AllTrees, TreeFact

(* Every tree of a level is over its own span.                             *)
LEMMA TreeSpan ==
  ASSUME Scoring
  PROVE  \A x \in AllTrees : /\ x.span \in Spans /\ x \in Trees[x.span] /\ x.unary \in BOOLEAN
                             /\ TreeHeight(x) \in Int
BY AllowedTrees, AllowedKinds, CellSpan

(* The children of a tree of a level are of the level, and lower.          *)
LEMMA KidsLower ==
  ASSUME Scoring
  PROVE  \A x \in AllTrees : TreeKids(x) \subseteq AllTrees /\ \A y \in TreeKids(x) : TreeHeight(y) < TreeHeight(x)
BY AllowedTrees, AllowedKinds, TreeKidsLower

(* So are its subtrees, with theirs.                                       *)
LEMMA SubLaws ==
  ASSUME Scoring, NEW t \in AllTrees
  PROVE  /\ t \in Subtrees(AllowedGrammar, t) /\ HasKids(Subtrees(AllowedGrammar, t))
         /\ Subtrees(AllowedGrammar, t) \subseteq AllTrees
         /\ \A x \in Subtrees(AllowedGrammar, t) : Subtrees(AllowedGrammar, x) \subseteq Subtrees(AllowedGrammar, t)
BY AllowedTrees, AllowedKinds, SubtreeLaws

-----------------------------------------------------------------------------
(* The binary rules over longer spans of which a symbol over a span may be *)
(* a child: the left one, or the right one.                                *)
Out(v, S) == outside[<<v, S[1]>>][S[2]]

OnLeft(v, u) == u[2][1] = v[1]
LeftUp(v, S, u) == u[1][2] = S /\ u[2][1] = v[1] /\ v[2] < u[2][2]
RightUp(v, S, u) == u[1][3] = S /\ u[2][2] = v[2] /\ u[2][1] < v[1]
Ups(v, S) == {u \in Bins \X Spans : LeftUp(v, S, u) \/ RightUp(v, S, u)}

(* The use of the rule, and the other child.                               *)
UseOf(v, u) == IF OnLeft(v, u) THEN <<u[1], v[2]>> ELSE <<u[1], v[1]>>
Beside(v, u) == IF OnLeft(v, u) THEN <<v[2], u[2][2]>> ELSE <<u[2][1], v[1]>>
BesideSym(v, u) == IF OnLeft(v, u) THEN u[1][3] ELSE u[1][2]

(* Both are children of the rule over the longer span.                     *)
LEMMA UpFacts ==
  ASSUME Scoring, NEW v \in Spans, NEW S \in Symbols(level)
  PROVE  /\ IsFiniteSet(Ups(v, S))
         /\ \A u \in Ups(v, S) :
              /\ u = <<u[1], u[2]>> /\ u[1] \in Bins /\ u[2] \in Spans
              /\ UseOf(v, u) \in Uses(u[2], u[1][1]) /\ UseOf(v, u)[1] = u[1]
              /\ UseOf(v, u)[2] \in MidsOf(u[2]) /\ Width(u[2]) # 1 /\ Width(v) < Width(u[2])
              /\ Beside(v, u) \in Spans /\ BesideSym(v, u) \in Symbols(level)
              /\ OnLeft(v, u) => /\ u[1][2] = S /\ UseOf(v, u)[2] = v[2] /\ v = <<u[2][1], v[2]>>
                                 /\ Beside(v, u) = <<v[2], u[2][2]>> /\ BesideSym(v, u) = u[1][3]
              /\ ~OnLeft(v, u) => /\ u[1][3] = S /\ UseOf(v, u)[2] = v[1] /\ v = <<v[1], u[2][2]>>
                                  /\ Beside(v, u) = <<u[2][1], v[1]>> /\ BesideSym(v, u) = u[1][2]
<1>1. IsFiniteSet(Ups(v, S))
  <2>1. IsFiniteSet(Bins \X Spans)
    BY RuleFacts, FS_Product
  <2> QED  BY <2>1, FS_Subset DEF Ups
<1>2. ASSUME NEW u \in Ups(v, S)
      PROVE  /\ u = <<u[1], u[2]>> /\ u[1] \in Bins /\ u[2] \in Spans
             /\ UseOf(v, u) \in Uses(u[2], u[1][1]) /\ UseOf(v, u)[1] = u[1]
             /\ UseOf(v, u)[2] \in MidsOf(u[2]) /\ Width(u[2]) # 1 /\ Width(v) < Width(u[2])
             /\ Beside(v, u) \in Spans /\ BesideSym(v, u) \in Symbols(level)
             /\ OnLeft(v, u) => /\ u[1][2] = S /\ UseOf(v, u)[2] = v[2] /\ v = <<u[2][1], v[2]>>
                                /\ Beside(v, u) = <<v[2], u[2][2]>> /\ BesideSym(v, u) = u[1][3]
             /\ ~OnLeft(v, u) => /\ u[1][3] = S /\ UseOf(v, u)[2] = v[1] /\ v = <<v[1], u[2][2]>>
                                 /\ Beside(v, u) = <<u[2][1], v[1]>> /\ BesideSym(v, u) = u[1][2]
  <2>1. u = <<u[1], u[2]>> /\ u[1] \in Bins /\ u[2] \in Spans
    BY DEF Ups
  <2> DEFINE w == u[2]
             r == u[1]
  <2>2. /\ v = <<v[1], v[2]>> /\ v[1] \in Int /\ v[2] \in Int /\ v[1] < v[2]
        /\ w \in Spans /\ w = <<w[1], w[2]>> /\ w[1] \in Int /\ w[2] \in Int /\ w[1] < w[2]
    BY <2>1, Shapes
  <2>3. r[2] \in Symbols(level) /\ r[3] \in Symbols(level)
    BY <2>1, RuleFacts
  <2>4. LeftUp(v, S, u) \/ RightUp(v, S, u)
    BY DEF Ups
  <2>5. Width(w) = 1 => MidsOf(w) = {}
    BY <2>1, SpanParts
  <2>6. CASE OnLeft(v, u)
    <3>1. r[2] = S /\ w[1] = v[1] /\ v[2] < w[2]
      BY <2>2, <2>4, <2>6 DEF OnLeft, LeftUp, RightUp
    <3>2. UseOf(v, u) = <<r, v[2]>> /\ Beside(v, u) = <<v[2], w[2]>> /\ BesideSym(v, u) = r[3]
      BY <2>6 DEF UseOf, Beside, BesideSym
    <3>3. v[2] \in MidsOf(w)
      BY <2>2, <3>1 DEF MidsOf
    <3>4. <<v[2], w[2]>> \in Spans /\ Width(<<w[1], v[2]>>) < Width(w)
      BY <2>1, <3>3, SpanParts
    <3>5. <<r, v[2]>> \in Uses(w, r[1])
      BY <2>1, <3>3 DEF Uses
    <3>6. v = <<w[1], v[2]>>
      BY <2>2, <3>1
    <3> HIDE DEF w, r
    <3>7. Width(v) < Width(w) /\ Width(w) # 1
      BY <2>5, <3>3, <3>4, <3>6
    <3> QED  BY <2>1, <2>3, <2>6, <3>1, <3>2, <3>3, <3>4, <3>5, <3>6, <3>7 DEF w, r
  <2>7. CASE ~OnLeft(v, u)
    <3>1. r[3] = S /\ w[2] = v[2] /\ w[1] < v[1]
      BY <2>4, <2>7 DEF OnLeft, LeftUp, RightUp
    <3>2. UseOf(v, u) = <<r, v[1]>> /\ Beside(v, u) = <<w[1], v[1]>> /\ BesideSym(v, u) = r[2]
      BY <2>7 DEF UseOf, Beside, BesideSym
    <3>3. v[1] \in MidsOf(w)
      BY <2>2, <3>1 DEF MidsOf
    <3>4. <<w[1], v[1]>> \in Spans /\ Width(<<v[1], w[2]>>) < Width(w)
      BY <2>1, <3>3, SpanParts
    <3>5. <<r, v[1]>> \in Uses(w, r[1])
      BY <2>1, <3>3 DEF Uses
    <3>6. v = <<v[1], w[2]>>
      BY <2>2, <3>1
    <3> HIDE DEF w, r
    <3>7. Width(v) < Width(w) /\ Width(w) # 1
      BY <2>5, <3>3, <3>4, <3>6
    <3> QED  BY <2>1, <2>3, <2>7, <3>1, <3>2, <3>3, <3>4, <3>5, <3>6, <3>7 DEF w, r
  <2> QED  BY <2>6, <2>7
<1> QED  BY <1>1, <1>2

(* The trees that a rule makes of trees over a span, and another beside    *)
(* them or none.                                                           *)
Joining(A, v, u) ==
  IF ~Ok(u[2], u[1][1]) THEN {}
  ELSE IF OnLeft(v, u) THEN Joins(u[1][1], A, TreesWith(Beside(v, u), u[1][3]), Model.bin[u[1]])
  ELSE Joins(u[1][1], TreesWith(Beside(v, u), u[1][2]), A, Model.bin[u[1]])

Raising(A, v, r) == {UnaryTree(r[1], a, Model.una[r]) : a \in {x \in A : Ok(v, r[1]) /\ ~x.unary}}
RaisersOf(S) == {r \in Unas : r[2] = S}

(* Joining gives trees over the longer span, each with one of A as a child *)
(* and naming the rule.                                                    *)
LEMMA JoiningTrees ==
  ASSUME Scoring, NEW v \in Spans, NEW S \in Symbols(level), NEW A \in SUBSET TreesWith(v, S),
         NEW u \in Ups(v, S)
  PROVE  /\ Joining(A, v, u) \subseteq PlainOf(u[2], u[1][1])
         /\ \A p \in Joining(A, v, u) :
              /\ TreeKids(p) \cap A # {} /\ p.span = u[2] /\ p.unary = FALSE
              /\ p.sym = u[1][1] /\ \E x, y : p.kids = <<x, y>> /\ x.sym = u[1][2] /\ y.sym = u[1][3]
<1> DEFINE w == u[2]
           r == u[1]
<1>1. /\ r \in Bins /\ w \in Spans /\ UseOf(v, u)[2] \in MidsOf(w)
      /\ Beside(v, u) \in Spans
      /\ OnLeft(v, u) => r[2] = S /\ UseOf(v, u)[2] = v[2] /\ v = <<w[1], v[2]>> /\ Beside(v, u) = <<v[2], w[2]>>
      /\ ~OnLeft(v, u) => r[3] = S /\ UseOf(v, u)[2] = v[1] /\ v = <<v[1], w[2]>> /\ Beside(v, u) = <<w[1], v[1]>>
  BY UpFacts
<1> SUFFICES ASSUME NEW p \in Joining(A, v, u)
             PROVE  /\ p \in PlainOf(w, r[1]) /\ TreeKids(p) \cap A # {} /\ p.span = w /\ p.unary = FALSE
                    /\ p.sym = r[1] /\ \E x, y : p.kids = <<x, y>> /\ x.sym = r[2] /\ y.sym = r[3]
  OBVIOUS
<1>2. PICK m, x, y :
        /\ m \in MidsOf(w)
        /\ x \in Trees[<<w[1], m>>] /\ y \in Trees[<<m, w[2]>>]
        /\ x \in A \/ y \in A
        /\ x.sym = r[2] /\ y.sym = r[3] /\ p = BinaryTree(r[1], x, y, Model.bin[r]) /\ Ok(w, r[1])
  <2>1. CASE OnLeft(v, u)
    <3>1. PICK x \in A, y \in TreesWith(Beside(v, u), r[3]) : p = BinaryTree(r[1], x, y, Model.bin[r])
      BY <2>1 DEF Joining, Joins
    <3>2. x \in Trees[<<w[1], v[2]>>] /\ x.sym = r[2] /\ v[2] \in MidsOf(w)
      BY <1>1, <2>1 DEF TreesWith
    <3>3. y \in Trees[<<v[2], w[2]>>] /\ y.sym = r[3]
      BY <1>1, <2>1 DEF TreesWith
    <3> QED  BY <3>1, <3>2, <3>3 DEF Joining
  <2>2. CASE ~OnLeft(v, u)
    <3>1. PICK x \in TreesWith(Beside(v, u), r[2]), y \in A : p = BinaryTree(r[1], x, y, Model.bin[r])
      BY <2>2 DEF Joining, Joins
    <3>2. y \in Trees[<<v[1], w[2]>>] /\ y.sym = r[3] /\ v[1] \in MidsOf(w)
      BY <1>1, <2>2 DEF TreesWith
    <3>3. x \in Trees[<<w[1], v[1]>>] /\ x.sym = r[2]
      BY <1>1, <2>2 DEF TreesWith
    <3> QED  BY <3>1, <3>2, <3>3 DEF Joining
  <2> QED  BY <2>1, <2>2
<1>3. IsJoined(w, p)
  BY <1>1, <1>2 DEF IsJoined
<1>4. p.sym = r[1] /\ p.kids = <<x, y>>
  BY <1>2, TreeParts
<1>5. TreeKids(p) = {x, y}
  BY <1>4 DEF TreeKids
<1>6. p \in Trees[w] /\ p.unary = FALSE
  BY <1>1, <1>3, TreeFacts DEF IsPlain
<1>7. p.span = w
  BY <1>1, <1>6, TreeShapes
<1> HIDE DEF w, r
<1> QED  BY <1>2, <1>4, <1>5, <1>6, <1>7 DEF PlainOf

(* Raising gives trees over the same span.                                 *)
LEMMA RaisingTrees ==
  ASSUME Scoring, NEW v \in Spans, NEW S \in Symbols(level), NEW A \in SUBSET TreesWith(v, S)
  PROVE  \A r \in RaisersOf(S) : \A p \in Raising(A, v, r) :
           p \in TreesWith(v, r[1]) /\ TreeKids(p) \cap A # {} /\ p.unary = TRUE /\ p.sym = r[1]
<1> SUFFICES ASSUME NEW r \in RaisersOf(S), NEW p \in Raising(A, v, r)
             PROVE  p \in TreesWith(v, r[1]) /\ TreeKids(p) \cap A # {} /\ p.unary = TRUE /\ p.sym = r[1]
  OBVIOUS
<1>1. r \in Unas /\ r[2] = S
  BY DEF RaisersOf
<1>2. PICK a \in A : Ok(v, r[1]) /\ ~a.unary /\ p = UnaryTree(r[1], a, Model.una[r])
  BY DEF Raising
<1>3. a \in Trees[v] /\ a.sym = S
  BY DEF TreesWith
<1>4. a \in AllTrees
  BY <1>3 DEF AllTrees
<1>5. a.unary = FALSE
  BY <1>2, <1>4, TreeSpan
<1>6. IsPlain(v, a)
  BY <1>3, <1>5, TreeFacts
<1>7. IsRaised(v, p)
  BY <1>1, <1>2, <1>3, <1>6 DEF IsRaised
<1>8. p \in Trees[v]
  BY <1>7, TreeKinds
<1>9. p.sym = r[1] /\ p.unary = TRUE /\ p.kids = <<a>>
  BY <1>2, TreeParts
<1>10. TreeKids(p) = {a}
  BY <1>9 DEF TreeKids
<1> QED  BY <1>8, <1>9, <1>10 DEF TreesWith

(* These are all the parents.                                              *)
LEMMA ParentKinds ==
  ASSUME Scoring, NEW v \in Spans, NEW S \in Symbols(level), NEW A \in SUBSET TreesWith(v, S),
         NEW p \in AllTrees, NEW a \in A, a \in TreeKids(p)
  PROVE  (\E u \in Ups(v, S) : p \in Joining(A, v, u)) \/ (\E r \in RaisersOf(S) : p \in Raising(A, v, r))
<1>1. PICK w \in Spans : p \in Trees[w]
  BY DEF AllTrees
<1>2. a \in Trees[v] /\ a.sym = S /\ a.span = v
  <2>1. a \in Trees[v] /\ a.sym = S
    BY DEF TreesWith
  <2> QED  BY <2>1, TreeShapes
<1>3. CASE IsWord(w, p)
  <2>1. p.kids = <<>>
    BY <1>3, TreeParts DEF IsWord
  <2>2. TreeKids(p) = {}
    BY <2>1 DEF TreeKids
  <2> QED  BY <2>2
<1>4. CASE IsRaised(w, p)
  <2>1. PICK r \in Unas : \E x : IsPlain(w, x) /\ Ok(w, r[1]) /\ x.sym = r[2] /\ p = UnaryTree(r[1], x, Model.una[r])
    BY <1>4 DEF IsRaised
  <2>2. PICK x : IsPlain(w, x) /\ Ok(w, r[1]) /\ x.sym = r[2] /\ p = UnaryTree(r[1], x, Model.una[r])
    BY <2>1
  <2>3. p.kids = <<x>>
    BY <2>2, TreeParts
  <2>4. TreeKids(p) = {x}
    BY <2>3 DEF TreeKids
  <2>5. x = a
    BY <2>4
  <2>6. a.span = w /\ ~a.unary
    BY <2>2, <2>5, TreeFacts DEF TreeFact
  <2>7. v = w /\ r \in RaisersOf(S)
    BY <1>2, <2>2, <2>5, <2>6 DEF RaisersOf
  <2>8. p \in Raising(A, v, r)
    BY <2>2, <2>5, <2>6, <2>7 DEF Raising
  <2> QED  BY <2>7, <2>8
<1>5. CASE IsJoined(w, p)
  <2>1. PICK r \in Bins, m \in MidsOf(w) : \E x \in Trees[<<w[1], m>>], y \in Trees[<<m, w[2]>>] :
          Ok(w, r[1]) /\ x.sym = r[2] /\ y.sym = r[3] /\ p = BinaryTree(r[1], x, y, Model.bin[r])
    BY <1>5 DEF IsJoined
  <2>2. PICK x \in Trees[<<w[1], m>>], y \in Trees[<<m, w[2]>>] :
          Ok(w, r[1]) /\ x.sym = r[2] /\ y.sym = r[3] /\ p = BinaryTree(r[1], x, y, Model.bin[r])
    BY <2>1
  <2>3. p.kids = <<x, y>>
    BY <2>2, TreeParts
  <2>4. TreeKids(p) = {x, y}
    BY <2>3 DEF TreeKids
  <2>5. <<w[1], m>> \in Spans /\ <<m, w[2]>> \in Spans
    BY SpanParts
  <2>6. x.span = <<w[1], m>> /\ y.span = <<m, w[2]>>
    BY <2>5, TreeShapes
  <2>7. m \in Int /\ w[1] \in Int /\ w[2] \in Int /\ w[1] < m /\ m < w[2]
    BY Shapes DEF MidsOf
  <2> DEFINE u == <<r, w>>
  <2>8. u \in Bins \X Spans /\ u[1] = r /\ u[2] = w
    OBVIOUS
  <2> HIDE DEF u
  <2>9. CASE a = x
    <3>1. v[1] = w[1] /\ v[2] = m /\ r[2] = S
      BY <1>2, <2>2, <2>6, <2>9
    <3>2. OnLeft(v, u) /\ u \in Ups(v, S)
      BY <2>7, <2>8, <3>1 DEF OnLeft, Ups, LeftUp
    <3>3. Beside(v, u) = <<m, w[2]>>
      BY <2>8, <3>1, <3>2 DEF Beside
    <3>4. y \in TreesWith(Beside(v, u), r[3])
      BY <2>2, <3>3 DEF TreesWith
    <3>5. p \in Joins(r[1], A, TreesWith(Beside(v, u), r[3]), Model.bin[r])
      BY <2>2, <2>9, <3>4 DEF Joins
    <3>6. p \in Joining(A, v, u)
      BY <2>2, <2>8, <3>2, <3>5 DEF Joining
    <3> QED  BY <3>2, <3>6
  <2>10. CASE a = y
    <3>1. v[2] = w[2] /\ v[1] = m /\ r[3] = S
      BY <1>2, <2>2, <2>6, <2>10
    <3>2. ~OnLeft(v, u) /\ u \in Ups(v, S)
      BY <2>7, <2>8, <3>1 DEF OnLeft, Ups, RightUp
    <3>3. Beside(v, u) = <<w[1], m>>
      BY <2>8, <3>1, <3>2 DEF Beside
    <3>4. x \in TreesWith(Beside(v, u), r[2])
      BY <2>2, <3>3 DEF TreesWith
    <3>5. p \in Joins(r[1], TreesWith(Beside(v, u), r[2]), A, Model.bin[r])
      BY <2>2, <2>10, <3>4 DEF Joins
    <3>6. p \in Joining(A, v, u)
      BY <2>2, <2>8, <3>2, <3>5 DEF Joining
    <3> QED  BY <3>2, <3>6
  <2> QED  BY <2>4, <2>9, <2>10
<1> QED  BY <1>1, <1>3, <1>4, <1>5, TreeKinds DEF IsPlain

-----------------------------------------------------------------------------
(* The parses with one of the given trees in them, and among them those    *)
(* that are one themselves or go on upwards by a binary rule.              *)
Thru(A) == {t \in Complete(Trees) : A \cap Subtrees(AllowedGrammar, t) # {}}
ThruJoining(A, v, S) == UNION {Thru(Joining(A, v, u)) : u \in Ups(v, S)}
ThruRaising(A, v, S) == UNION {Thru(Raising(A, v, r)) : r \in RaisersOf(S)}
ThruTop(A, v, S) == (A \cap Complete(Trees)) \cup ThruJoining(A, v, S)

(* A parse is a tree.                                                      *)
LEMMA ParseFacts ==
  ASSUME Scoring
  PROVE  /\ Complete(Trees) \subseteq AllTrees
         /\ \A t \in Complete(Trees) :
              t \in AllTrees /\ SubsProper(AllowedGrammar, t) /\ t.span = Whole /\ t.sym = <<RootTag, 0>>
         /\ \A A : Thru(A) \in SUBSET AllTrees
         /\ \A A, v, S : ThruJoining(A, v, S) \in SUBSET AllTrees /\ ThruRaising(A, v, S) \in SUBSET AllTrees
                         /\ ThruTop(A, v, S) \in SUBSET AllTrees
<1>1. \A t \in Complete(Trees) : t \in Trees[Whole] /\ t.sym = <<RootTag, 0>> /\ Whole \in Spans
  BY Shapes DEF Complete
<1>2. \A t \in Complete(Trees) : t \in AllTrees /\ t.span = Whole /\ t.sym = <<RootTag, 0>>
  BY <1>1, TreeShapes
<1>3. \A t \in Complete(Trees) : SubsProper(AllowedGrammar, t)
  BY <1>2, AllowedTrees, AllowedKinds, CellsProper
<1>4. Complete(Trees) \subseteq AllTrees
  BY <1>2
<1>5. \A A : Thru(A) \in SUBSET AllTrees
  BY <1>4 DEF Thru
<1>6. \A A, v, S : ThruJoining(A, v, S) \in SUBSET AllTrees /\ ThruRaising(A, v, S) \in SUBSET AllTrees
  BY <1>5 DEF ThruJoining, ThruRaising
<1> QED  BY <1>2, <1>3, <1>4, <1>5, <1>6 DEF ThruTop

(* Two subtrees of a parse over the same cell have, as its children, the   *)
(* same parent.                                                            *)
LEMMA OneWayUp ==
  ASSUME Scoring, NEW v \in Spans, NEW S \in Symbols(level), NEW A \in SUBSET TreesWith(v, S),
         NEW t \in Complete(Trees)
  PROVE  /\ \A p, q \in Subtrees(AllowedGrammar, t) : TreeKids(p) \cap A # {} /\ TreeKids(q) \cap A # {} => p = q
         /\ t \in A => \A p \in Subtrees(AllowedGrammar, t) : TreeKids(p) \cap A = {}
<1>1. t \in AllTrees /\ SubsDistinct(AllowedGrammar, t) /\ SubsOnce(AllowedGrammar, t) /\ SubsUnder(AllowedGrammar, t)
  BY ParseFacts DEF SubsProper
<1>2. \A a \in A : a.span = v /\ a.sym = S
  <2>1. \A a \in A : a \in Trees[v] /\ a.sym = S
    BY DEF TreesWith
  <2> QED  BY <2>1, TreeShapes
<1>3. \A p \in Subtrees(AllowedGrammar, t) : TreeKids(p) \subseteq Subtrees(AllowedGrammar, t) /\ p \in AllTrees
  BY <1>1, SubLaws DEF HasKids
<1>4. ASSUME NEW p \in Subtrees(AllowedGrammar, t), NEW q \in Subtrees(AllowedGrammar, t),
             TreeKids(p) \cap A # {}, TreeKids(q) \cap A # {}
      PROVE  p = q
  <2>1. PICK a \in A : a \in TreeKids(p)
    BY <1>4
  <2>2. PICK b \in A : b \in TreeKids(q)
    BY <1>4
  <2>3. a = b
    BY <1>1, <1>2, <1>3, <2>1, <2>2 DEF SubsDistinct
  <2> QED  BY <1>1, <2>1, <2>2, <2>3 DEF SubsOnce
<1>5. ASSUME t \in A, NEW p \in Subtrees(AllowedGrammar, t), NEW a \in A, a \in TreeKids(p) PROVE FALSE
  <2>1. t \in Subtrees(AllowedGrammar, t) /\ a \in Subtrees(AllowedGrammar, t) /\ a.span = t.span /\ a.sym = t.sym
    BY <1>1, <1>2, <1>3, <1>5, SubLaws
  <2>2. a = t
    BY <1>1, <2>1 DEF SubsDistinct
  <2>3. TreeHeight(t) < TreeHeight(p)
    BY <1>3, <1>5, <2>2, KidsLower
  <2>4. p = t \/ TreeHeight(p) < TreeHeight(t)
    BY <1>1 DEF SubsUnder
  <2>5. TreeHeight(t) \in Int /\ TreeHeight(p) \in Int
    BY <1>1, <1>3, TreeSpan
  <2> QED  BY <2>3, <2>4, <2>5
<1> QED  BY <1>4, <1>5

(* Every parse through some trees of a cell is one of them, or has exactly *)
(* one parent of theirs.                                                   *)
LEMMA ThruSplit ==
  ASSUME Scoring, NEW v \in Spans, NEW S \in Symbols(level), NEW A \in SUBSET TreesWith(v, S)
  PROVE  /\ Thru(A) = ThruTop(A, v, S) \cup ThruRaising(A, v, S)
         /\ ThruTop(A, v, S) \cap ThruRaising(A, v, S) = {}
         /\ (A \cap Complete(Trees)) \cap ThruJoining(A, v, S) = {}
         /\ \A u, w \in Ups(v, S) : u # w => Thru(Joining(A, v, u)) \cap Thru(Joining(A, v, w)) = {}
         /\ \A q, r \in RaisersOf(S) : q # r => Thru(Raising(A, v, q)) \cap Thru(Raising(A, v, r)) = {}
<1>0. \A r \in RaisersOf(S) : \A p \in Raising(A, v, r) :
        p \in TreesWith(v, r[1]) /\ TreeKids(p) \cap A # {} /\ p.unary = TRUE /\ p.sym = r[1]
  BY RaisingTrees
<1>1. \A u \in Ups(v, S) : \A t \in Thru(Joining(A, v, u)) :
        t \in Complete(Trees) /\ \E p \in Subtrees(AllowedGrammar, t) :
          p \in Joining(A, v, u) /\ TreeKids(p) \cap A # {} /\ p.unary = FALSE
  <2>1. ASSUME NEW u \in Ups(v, S) PROVE \A p \in Joining(A, v, u) : TreeKids(p) \cap A # {} /\ p.unary = FALSE
    <3>1. \A p \in Joining(A, v, u) :
            /\ TreeKids(p) \cap A # {} /\ p.span = u[2] /\ p.unary = FALSE
            /\ p.sym = u[1][1] /\ \E x, y : p.kids = <<x, y>> /\ x.sym = u[1][2] /\ y.sym = u[1][3]
      BY JoiningTrees
    <3> QED  BY <3>1
  <2> QED  BY <2>1 DEF Thru
<1>2. \A r \in RaisersOf(S) : \A t \in Thru(Raising(A, v, r)) :
        t \in Complete(Trees) /\ \E p \in Subtrees(AllowedGrammar, t) :
          p \in Raising(A, v, r) /\ TreeKids(p) \cap A # {} /\ p.unary = TRUE
  BY <1>0 DEF Thru
<1>3. \A t \in Complete(Trees) : t \in AllTrees /\ SubsBelow(AllowedGrammar, t)
  BY ParseFacts DEF SubsProper
<1>4. \A t \in Complete(Trees) : \A p \in Subtrees(AllowedGrammar, t) : TreeKids(p) \cap A # {} => t \in Thru(A)
  <2> SUFFICES ASSUME NEW t \in Complete(Trees), NEW p \in Subtrees(AllowedGrammar, t), NEW a \in A, a \in TreeKids(p)
               PROVE  t \in Thru(A)
    OBVIOUS
  <2>1. a \in Subtrees(AllowedGrammar, t)
    BY <1>3, SubLaws DEF HasKids
  <2> QED  BY <2>1 DEF Thru
<1>5. Thru(A) = ThruTop(A, v, S) \cup ThruRaising(A, v, S)
  <2>1. ASSUME NEW t \in Thru(A) PROVE t \in ThruTop(A, v, S) \cup ThruRaising(A, v, S)
    <3>1. t \in Complete(Trees) /\ t \in AllTrees
      BY <1>3 DEF Thru
    <3>2. PICK a \in A : a \in Subtrees(AllowedGrammar, t)
      BY DEF Thru
    <3>3. CASE a = t
      BY <3>1, <3>3 DEF ThruTop
    <3>4. CASE a # t
      <4>1. PICK p \in Subtrees(AllowedGrammar, t) : a \in TreeKids(p)
        BY <1>3, <3>1, <3>2, <3>4 DEF SubsBelow
      <4>2. p \in AllTrees
        BY <3>1, <4>1, SubLaws
      <4>3. (\E u \in Ups(v, S) : p \in Joining(A, v, u)) \/ (\E r \in RaisersOf(S) : p \in Raising(A, v, r))
        BY <4>1, <4>2, ParentKinds
      <4>4. ASSUME NEW u \in Ups(v, S), p \in Joining(A, v, u) PROVE t \in ThruTop(A, v, S)
        <5>1. t \in Thru(Joining(A, v, u))
          BY <3>1, <4>1, <4>4 DEF Thru
        <5> QED  BY <5>1 DEF ThruTop, ThruJoining
      <4>5. ASSUME NEW r \in RaisersOf(S), p \in Raising(A, v, r) PROVE t \in ThruRaising(A, v, S)
        <5>1. t \in Thru(Raising(A, v, r))
          BY <3>1, <4>1, <4>5 DEF Thru
        <5> QED  BY <5>1 DEF ThruRaising
      <4> QED  BY <4>3, <4>4, <4>5
    <3> QED  BY <3>3, <3>4
  <2>2. A \cap Complete(Trees) \subseteq Thru(A)
    BY <1>3, SubLaws DEF Thru
  <2>3. ThruJoining(A, v, S) \subseteq Thru(A)
    BY <1>1, <1>4 DEF ThruJoining
  <2>4. ThruRaising(A, v, S) \subseteq Thru(A)
    BY <1>2, <1>4 DEF ThruRaising
  <2> QED  BY <2>1, <2>2, <2>3, <2>4 DEF ThruTop
<1>6. (A \cap Complete(Trees)) \cap ThruJoining(A, v, S) = {}
  BY <1>1, OneWayUp DEF ThruJoining
<1>7. (A \cap Complete(Trees)) \cap ThruRaising(A, v, S) = {}
  BY <1>2, OneWayUp DEF ThruRaising
<1>8. ThruJoining(A, v, S) \cap ThruRaising(A, v, S) = {}
  <2> SUFFICES ASSUME NEW t, t \in ThruJoining(A, v, S), t \in ThruRaising(A, v, S) PROVE FALSE
    OBVIOUS
  <2>1. t \in Complete(Trees) /\ \E p \in Subtrees(AllowedGrammar, t) : TreeKids(p) \cap A # {} /\ p.unary = FALSE
    BY <1>1 DEF ThruJoining
  <2>2. \E q \in Subtrees(AllowedGrammar, t) : TreeKids(q) \cap A # {} /\ q.unary = TRUE
    BY <1>2 DEF ThruRaising
  <2> QED  BY <2>1, <2>2, OneWayUp
<1>9. ASSUME NEW u \in Ups(v, S), NEW w \in Ups(v, S), NEW t, t \in Thru(Joining(A, v, u)), t \in Thru(Joining(A, v, w))
      PROVE  u = w
  <2>1. PICK p \in Subtrees(AllowedGrammar, t) : p \in Joining(A, v, u) /\ TreeKids(p) \cap A # {}
    BY <1>1, <1>9
  <2>2. PICK q \in Subtrees(AllowedGrammar, t) : q \in Joining(A, v, w) /\ TreeKids(q) \cap A # {}
    BY <1>1, <1>9
  <2>3. t \in Complete(Trees)
    BY <1>9 DEF Thru
  <2>4. p = q
    BY <2>1, <2>2, <2>3, OneWayUp
  <2>5. /\ p.span = u[2] /\ p.sym = u[1][1]
        /\ \E x, y : p.kids = <<x, y>> /\ x.sym = u[1][2] /\ y.sym = u[1][3]
    BY <2>1, JoiningTrees
  <2>6. /\ p.span = w[2] /\ p.sym = w[1][1]
        /\ \E x, y : p.kids = <<x, y>> /\ x.sym = w[1][2] /\ y.sym = w[1][3]
    <3>1. /\ q.span = w[2] /\ q.sym = w[1][1]
          /\ \E x, y : q.kids = <<x, y>> /\ x.sym = w[1][2] /\ y.sym = w[1][3]
      BY <2>2, JoiningTrees
    <3> QED  BY <2>4, <3>1
  <2>7. u[1][2] = w[1][2] /\ u[1][3] = w[1][3]
    <3>1. PICK x, y : p.kids = <<x, y>> /\ x.sym = u[1][2] /\ y.sym = u[1][3]
      BY <2>5
    <3>2. PICK d, z : p.kids = <<d, z>> /\ d.sym = w[1][2] /\ z.sym = w[1][3]
      BY <2>6
    <3>3. x = d /\ y = z
      BY <3>1, <3>2
    <3> QED  BY <3>1, <3>2, <3>3
  <2>8. u = <<u[1], u[2]>> /\ w = <<w[1], w[2]>> /\ u[1] \in Bins /\ w[1] \in Bins
    BY UpFacts
  <2>9. u[1] = <<u[1][1], u[1][2], u[1][3]>> /\ w[1] = <<w[1][1], w[1][2], w[1][3]>>
    BY <2>8, RuleFacts
  <2>10. u[1] = w[1] /\ u[2] = w[2]
    BY <2>5, <2>6, <2>7, <2>9
  <2> QED  BY <2>8, <2>10
<1>10. ASSUME NEW q \in RaisersOf(S), NEW r \in RaisersOf(S), NEW t, t \in Thru(Raising(A, v, q)), t \in Thru(Raising(A, v, r))
       PROVE  q = r
  <2>1. PICK x \in Subtrees(AllowedGrammar, t) : x \in Raising(A, v, q) /\ TreeKids(x) \cap A # {}
    BY <1>2, <1>10
  <2>2. PICK y \in Subtrees(AllowedGrammar, t) : y \in Raising(A, v, r) /\ TreeKids(y) \cap A # {}
    BY <1>2, <1>10
  <2>3. t \in Complete(Trees)
    BY <1>10 DEF Thru
  <2>4. x = y
    BY <2>1, <2>2, <2>3, OneWayUp
  <2>5. x.sym = q[1] /\ x.sym = r[1]
    BY <1>0, <2>1, <2>2, <2>4
  <2>6. q = <<q[1], q[2]>> /\ r = <<r[1], r[2]>> /\ q[2] = S /\ r[2] = S
    BY RuleFacts DEF RaisersOf
  <2> QED  BY <2>5, <2>6
<1> QED  BY <1>5, <1>6, <1>7, <1>8, <1>9, <1>10 DEF ThruTop

-----------------------------------------------------------------------------
(* The uses of the rules of a symbol at the split points that the extents  *)
(* admit.                                                                  *)
Admitted(s, P) == {u \in Uses(s, P) : u[2] \in Mids(s[1], s[2], u[1][2][1], u[1][3][1])}

(* In the inside pass, and after it, these account for all that a phrase   *)
(* has got, besides its unary rules.                                       *)
Accounted ==
  pc \in InsidePass \cup {"outside", "prune"} =>
    \A s \in Spans : \A P \in Symbols(level) :
      Ok(s, P) /\ Width(s) # 1 =>
        In(s, P) <= Total(UseTerms(s), Admitted(s, P))
                    + (IF pc \in InsidePass /\ ~Before(s) THEN 0 ELSE Total(RaiseTerms(s), Raises(P)))

(* A use, its parts and its weight.                                        *)
LEMMA UseParts ==
  ASSUME Scoring, NEW s \in Spans, NEW P
  PROVE  \A u \in Uses(s, P) :
           /\ u = <<u[1], u[2]>> /\ u[1] \in Bins /\ u[2] \in MidsOf(s) /\ u[1][1] = P
           /\ <<s[1], u[2]>> \in Spans /\ <<u[2], s[2]>> \in Spans
           /\ Width(<<s[1], u[2]>>) < Width(s) /\ Width(<<u[2], s[2]>>) < Width(s)
           /\ u[1] = <<u[1][1], u[1][2], u[1][3]>> /\ u[1] \in DOMAIN Model.bin
           /\ u[1][2] \in Symbols(level) /\ u[1][3] \in Symbols(level)
           /\ Model.bin[u[1]] \in Nat /\ Model.bin[u[1]] > 0
           /\ FullSum(<<s[1], u[2]>>, u[1][2]) \in Nat /\ FullSum(<<u[2], s[2]>>, u[1][3]) \in Nat
           /\ UseTerms(s)[u] = Model.bin[u[1]] * FullSum(<<s[1], u[2]>>, u[1][2]) * FullSum(<<u[2], s[2]>>, u[1][3])
<1> TAKE u \in Uses(s, P)
<1>1. u = <<u[1], u[2]>> /\ u[1] \in Bins /\ u[2] \in MidsOf(s) /\ u[1][1] = P
  BY DEF Uses
<1>2. /\ <<s[1], u[2]>> \in Spans /\ <<u[2], s[2]>> \in Spans
      /\ Width(<<s[1], u[2]>>) < Width(s) /\ Width(<<u[2], s[2]>>) < Width(s)
  BY <1>1, SpanParts
<1>3. /\ u[1] = <<u[1][1], u[1][2], u[1][3]>> /\ u[1] \in DOMAIN Model.bin
      /\ u[1][2] \in Symbols(level) /\ u[1][3] \in Symbols(level)
      /\ Model.bin[u[1]] \in Nat /\ Model.bin[u[1]] > 0
  BY <1>1, RuleFacts
<1>4. UseTerms(s)[u] = Model.bin[u[1]] * FullSum(<<s[1], u[2]>>, u[1][2]) * FullSum(<<u[2], s[2]>>, u[1][3])
  <2>1. u \in Bins \X MidsOf(s)
    BY UseFacts
  <2> QED  BY <2>1 DEF UseTerms
<1>5. FullSum(<<s[1], u[2]>>, u[1][2]) \in Nat /\ FullSum(<<u[2], s[2]>>, u[1][3]) \in Nat
  BY <1>2, SomeTrees
<1> QED  BY <1>1, <1>2, <1>3, <1>4, <1>5

(* A use with trees on both sides, whose scores have been found, is        *)
(* productive if the extents admit it.                                     *)
LEMMA ProductiveUse ==
  ASSUME Scoring, NEW s \in Spans, NEW P \in Symbols(level), Ok(s, P), NEW u \in Admitted(s, P),
         FullSum(<<s[1], u[2]>>, u[1][2]) > 0, FullSum(<<u[2], s[2]>>, u[1][3]) > 0,
         Ok(<<s[1], u[2]>>, u[1][2]) => In(<<s[1], u[2]>>, u[1][2]) = FullSum(<<s[1], u[2]>>, u[1][2]),
         Ok(<<u[2], s[2]>>, u[1][3]) => In(<<u[2], s[2]>>, u[1][3]) = FullSum(<<u[2], s[2]>>, u[1][3])
  PROVE  u \in Productive(s, P[1])
<1>1. u \in Uses(s, P) /\ u[2] \in Mids(s[1], s[2], u[1][2][1], u[1][3][1])
  BY DEF Admitted
<1>2. /\ u = <<u[1], u[2]>> /\ u[1] \in Bins /\ u[2] \in MidsOf(s) /\ u[1][1] = P
      /\ <<s[1], u[2]>> \in Spans /\ <<u[2], s[2]>> \in Spans
      /\ u[1] \in DOMAIN Model.bin /\ Model.bin[u[1]] > 0
  BY <1>1, UseParts
<1>3. TreesWith(<<s[1], u[2]>>, u[1][2]) # {} /\ TreesWith(<<u[2], s[2]>>, u[1][3]) # {}
  <2>1. Score({}) = 0 /\ ~(0 > 0)
    BY Scores
  <2> QED  BY <2>1 DEF FullSum
<1>4. /\ Ok(<<s[1], u[2]>>, u[1][2]) /\ Ok(<<u[2], s[2]>>, u[1][3])
      /\ u[1][2][1] \in Lexicals => Width(<<s[1], u[2]>>) = 1
      /\ u[1][3][1] \in Lexicals => Width(<<u[2], s[2]>>) = 1
  BY <1>2, <1>3, SomeTrees
<1>5. /\ Usable(<<<<s[1], u[2]>>, u[1][2][1]>>, u[1][2])
      /\ Usable(<<<<u[2], s[2]>>, u[1][3][1]>>, u[1][3])
  BY <1>4 DEF Ok
<1>6. /\ u[2] - s[1] > 1 => u[1][2][1] \notin Lexicals
      /\ s[2] - u[2] > 1 => u[1][3][1] \notin Lexicals
  <2>1. Width(<<s[1], u[2]>>) = u[2] - s[1] /\ Width(<<u[2], s[2]>>) = s[2] - u[2]
    BY <1>2, SpanParts
  <2> QED  BY <1>4, <2>1
<1>7. allowedTag[<<s, P[1]>>] /\ allowedSub[<<s, P[1]>>][P[2]] /\ P[1] \notin Lexicals
  BY <1>2, RuleFacts DEF Ok, Usable
<1>8. u \in BinaryUses(s, P[1])
  <2> DEFINE r == u[1]
             m == u[2]
             split(q) == {i \in Mids(s[1], s[2], q[2][1], q[3][1]) :
                            /\ Usable(<<<<s[1], i>>, q[2][1]>>, q[2])
                            /\ Usable(<<<<i, s[2]>>, q[3][1]>>, q[3])
                            /\ i - s[1] > 1 => q[2][1] \notin Lexicals
                            /\ s[2] - i > 1 => q[3][1] \notin Lexicals}
             row(q) == {<<q, i>> : i \in split(q)}
             rules == {q \in DOMAIN Model.bin : q[1][1] = P[1] /\ allowedSub[<<s, P[1]>>][q[1][2]]}
  <2>1. BinaryUses(s, P[1]) = UNION {row(q) : q \in rules}
    BY <1>7 DEF BinaryUses
  <2>2. r \in rules
    BY <1>2, <1>7
  <2>3. m \in split(r)
    BY <1>1, <1>5, <1>6
  <2>4. u = <<r, m>>
    BY <1>2
  <2>5. u \in row(r)
    <3> HIDE DEF split, r, m
    <3> QED  BY <2>3, <2>4
  <2> HIDE DEF row, rules, r
  <2> QED  BY <2>1, <2>2, <2>5
<1>9. LeftScore(s, u) > 0 /\ RightScore(s, u) > 0
  BY <1>4 DEF LeftScore, RightScore, In
<1> QED  BY <1>2, <1>8, <1>9 DEF Productive

(* A productive use is one of those admitted, by its own parent.           *)
LEMMA UseOfProductive ==
  ASSUME Scoring, NEW s \in Spans, NEW t \in TagIds, NEW u \in Productive(s, t)
  PROVE  /\ u \in Admitted(s, u[1][1]) /\ u[1][1] \in Symbols(level) /\ u[1][1][1] = t /\ Ok(s, u[1][1])
         /\ Ok(<<s[1], u[2]>>, u[1][2]) /\ Ok(<<u[2], s[2]>>, u[1][3])
         /\ LeftScore(s, u) = In(<<s[1], u[2]>>, u[1][2]) /\ RightScore(s, u) = In(<<u[2], s[2]>>, u[1][3])
         /\ In(<<s[1], u[2]>>, u[1][2]) \in Nat /\ In(<<u[2], s[2]>>, u[1][3]) \in Nat
<1>1. u \in (DOMAIN Model.bin) \X (0..NumWords)
  BY ProductiveShapes
<1>2. u[1] \in DOMAIN Model.bin /\ u = <<u[1], u[2]>>
  BY <1>1
<1>3. u[1] \in Symbols(level) \X Symbols(level) \X Symbols(level)
  BY <1>2, ScoringShapes DEF IsModel
<1>4. u[1][1] \in Symbols(level)
  BY <1>3
<1>5. u[1][1][1] = t /\ Usable(<<s, t>>, u[1][1])
  <2>1. \A v \in Productive(s, t) : v[1][1][1] = t /\ Usable(<<s, t>>, v[1][1])
    BY ProductiveShapes
  <2> QED  BY <2>1
<1>6. s[1] < u[2] /\ u[2] < s[2] /\ u[2] \in Nat
  BY ProductiveShapes
<1>7. /\ Usable(<<<<s[1], u[2]>>, u[1][2][1]>>, u[1][2])
      /\ Usable(<<<<u[2], s[2]>>, u[1][3][1]>>, u[1][3])
  BY ProductiveShapes
<1>8. LeftScore(s, u) \in Nat /\ RightScore(s, u) \in Nat
  BY ProductiveShapes
<1>9. u[2] \in MidsOf(s)
  BY <1>6, Shapes DEF MidsOf
<1>10. /\ u \in BinaryUses(s, t) /\ Model.bin[u[1]] > 0
  BY DEF Productive
<1>11. t \notin Lexicals /\ u[2] \in Mids(s[1], s[2], u[1][2][1], u[1][3][1])
  <2> DEFINE split(q) == {i \in Mids(s[1], s[2], q[2][1], q[3][1]) :
                            /\ Usable(<<<<s[1], i>>, q[2][1]>>, q[2])
                            /\ Usable(<<<<i, s[2]>>, q[3][1]>>, q[3])
                            /\ i - s[1] > 1 => q[2][1] \notin Lexicals
                            /\ s[2] - i > 1 => q[3][1] \notin Lexicals}
             row(q) == {<<q, i>> : i \in split(q)}
             rules == {q \in DOMAIN Model.bin : q[1][1] = t /\ allowedSub[<<s, t>>][q[1][2]]}
  <2>1. allowedTag[<<s, t>>] /\ t \notin Lexicals /\ BinaryUses(s, t) = UNION {row(q) : q \in rules}
    BY <1>10 DEF BinaryUses
  <2>2. PICK q \in rules : u \in row(q)
    <3> HIDE DEF row, rules
    <3> QED  BY <1>10, <2>1
  <2>3. PICK i \in split(q) : u = <<q, i>>
    <3> HIDE DEF split, rules
    <3> QED  BY <2>2
  <2>4. i \in Mids(s[1], s[2], q[2][1], q[3][1])
    BY <2>3
  <2>5. u[1] = q /\ u[2] = i
    BY <2>3
  <2> HIDE DEF split, row, rules
  <2> QED  BY <2>1, <2>4, <2>5
<1>12. u[1] \in Bins
  BY <1>2, <1>5, <1>10, <1>11 DEF Bins, InUse
<1>13. u \in Admitted(s, u[1][1])
  BY <1>2, <1>9, <1>11, <1>12 DEF Admitted, Uses
<1> QED  BY <1>4, <1>5, <1>7, <1>8, <1>13 DEF Ok, LeftScore, RightScore, In

-----------------------------------------------------------------------------
(* The spans that the outside pass is done with.                           *)
DownDone(w) == pc = "prune" \/ Width(w) > pos.len \/ (Width(w) = pos.len /\ w[1] < pos.begin)

(* What a symbol over a span gets from the productive rules above it, and  *)
(* by the unary rules from its parents.                                    *)
UpTerm(v, u) ==
  IF UseOf(v, u) \in Productive(u[2], u[1][1][1])
    THEN Model.bin[u[1]] * Out(u[2], u[1][1]) * In(Beside(v, u), BesideSym(v, u)) ELSE 0
UpTerms(v, S) == [u \in Ups(v, S) |-> UpTerm(v, u)]
Start1(v, S) == IF <<v, S[1]>> = RootCell THEN 1 ELSE 0
DoneUps(v, S) == {u \in Ups(v, S) : DownDone(u[2])}
Beneath(v, S) == Start1(v, S) + Total(UpTerms(v, S), DoneUps(v, S))

RaisedFrom(v, S) == {r \in UnaryUses(v) : r[2] = S}
AboveTerms(v, S) == [r \in RaisedFrom(v, S) |-> Model.una[r] * Beneath(v, r[1])]
AboveSum(v, S) == Total(AboveTerms(v, S), RaisedFrom(v, S))

(* The outside scores so far are what the spans done with have passed on.  *)
OutsideSummed ==
  pc \in {"outside", "prune"} =>
    \A v \in Spans : \A S \in Symbols(level) :
      Ok(v, S) => Out(v, S) = Beneath(v, S) + (IF DownDone(v) THEN AboveSum(v, S) ELSE 0)

-----------------------------------------------------------------------------
(* The inside pass has found all trees.                                    *)
Found == \A s \in Spans : \A P \in Symbols(level) : allowedTag[<<s, P[1]>>] => In(s, P) = FullSum(s, P)

(* That is what AllFound says.                                             *)
LEMMA AllAreFound == Scoring /\ AllFound(Trees) => Found
<1> SUFFICES ASSUME Scoring, AllFound(Trees), NEW s \in Spans, NEW P \in Symbols(level), allowedTag[<<s, P[1]>>]
             PROVE  In(s, P) = FullSum(s, P)
  BY DEF Found
<1>1. <<s, P[1]>> \in Cells /\ P[2] \in DOMAIN inside[<<s, P[1]>>] /\ P = <<P[1], P[2]>>
  BY InShape
<1>2. In(s, P) = TreeSum(Trees, <<s, P[1]>>, P[2])
  BY <1>1 DEF In, AllFound
<1>3. TreeSum(Trees, <<s, P[1]>>, P[2]) = ScoreOf(TreesWith(s, P))
  BY <1>1 DEF TreeSum, TreesWith
<1>4. TreesWith(s, P) \in SUBSET AllTrees
  BY SomeTrees
<1> QED  BY <1>2, <1>3, <1>4, ScoreOfTotal DEF FullSum

(* Where all trees have been found, every rule that makes trees of the     *)
(* children's trees is productive: the outside pass meets it.              *)
LEMMA ProductiveUp ==
  ASSUME Scoring, pc = "prune", Found, Accounted, NEW s \in Spans, Width(s) # 1, NEW P \in Symbols(level),
         Ok(s, P), NEW u \in Uses(s, P), UseTerms(s)[u] > 0
  PROVE  u \in Productive(s, P[1])
<1> DEFINE g == UseTerms(s)
           D == Uses(s, P)
           A == Admitted(s, P)
           R == Total(RaiseTerms(s), Raises(P))
<1>1. allowedTag[<<s, P[1]>>]
  BY DEF Ok, Usable
<1>2. In(s, P) = Total(g, D) + R
  <2>1. In(s, P) = FullSum(s, P)
    BY <1>1 DEF Found
  <2> QED  BY <2>1, JoinedPlain, FullSums
<1>3. In(s, P) <= Total(g, A) + R
  <2>1. pc \notin InsidePass /\ pc \in InsidePass \cup {"outside", "prune"}
    BY DEF InsidePass
  <2> QED  BY <2>1 DEF Accounted
<1>4. /\ IsFiniteSet(D) /\ D \in SUBSET (Bins \X MidsOf(s)) /\ \A x \in D : g[x] \in Nat
      /\ IsFiniteSet(Raises(P)) /\ Raises(P) \in SUBSET Unas /\ \A r \in Unas : RaiseTerms(s)[r] \in Nat
  BY UseFacts
<1>5. R \in Nat
  <2> DEFINE h == RaiseTerms(s)
  <2>1. Raises(P) \in SUBSET Raises(P) /\ \A r \in Raises(P) : h[r] \in Nat
    BY <1>4
  <2> HIDE DEF h
  <2>2. Total(h, Raises(P)) \in Nat
    BY <1>4, <2>1, TotalSplit
  <2> QED  BY <2>2 DEF h
<1>6. A \subseteq D
  BY DEF Admitted
<1>7. u \in A
  <2> SUFFICES ASSUME u \notin A PROVE FALSE
    OBVIOUS
  <2> DEFINE E == D \ {u}
  <2>1. IsFiniteSet(E) /\ E \in SUBSET D /\ D \in SUBSET D /\ A \in SUBSET E /\ A \in SUBSET D
    BY <1>4, <1>6, FS_Subset
  <2> HIDE DEF g, D, A, R
  <2>2. Total(g, D) = g[u] + Total(g, E) /\ Total(g, D) \in Nat
    <3>1. \A S \in SUBSET D : Total(g, S) \in Nat /\ \A x \in S : Total(g, S) = g[x] + Total(g, S \ {x})
      BY <1>4, TotalSplit
    <3>2. u \in D
      BY DEF D
    <3> QED  BY <2>1, <3>1, <3>2
  <2>3. Total(g, E) \in Nat /\ Total(g, A) \in Nat
    BY <1>4, <2>1, TotalSplit
  <2>4. Total(g, A) <= Total(g, E)
    <3>1. \A x \in E : g[x] \in Nat
      BY <1>4, <2>1
    <3>2. \A x \in A : g[x] \in Nat /\ g[x] <= g[x]
      BY <2>1, <3>1
    <3> HIDE DEF E
    <3> QED  BY <2>1, <3>1, <3>2, TotalAtMost
  <2>5. g[u] > 0 /\ g[u] \in Nat
    BY <1>4 DEF g, D
  <2> QED  BY <1>2, <1>3, <1>5, <2>2, <2>3, <2>4, <2>5
<1> DEFINE x == FullSum(<<s[1], u[2]>>, u[1][2])
           y == FullSum(<<u[2], s[2]>>, u[1][3])
<1>8. /\ <<s[1], u[2]>> \in Spans /\ <<u[2], s[2]>> \in Spans
      /\ u[1][2] \in Symbols(level) /\ u[1][3] \in Symbols(level)
      /\ x \in Nat /\ y \in Nat /\ Model.bin[u[1]] \in Nat /\ g[u] = Model.bin[u[1]] * x * y
  BY UseParts
<1>9. x > 0 /\ y > 0
  <2>1. g[u] > 0
    OBVIOUS
  <2> HIDE DEF g, x, y
  <2>2. \A i, j \in Nat : ~(i * 0 * j > 0) /\ ~(i * j * 0 > 0)
    OBVIOUS
  <2>3. x # 0 /\ y # 0
    BY <1>8, <2>1, <2>2
  <2> QED  BY <1>8, <2>3
<1>10. /\ Ok(<<s[1], u[2]>>, u[1][2]) => In(<<s[1], u[2]>>, u[1][2]) = x
       /\ Ok(<<u[2], s[2]>>, u[1][3]) => In(<<u[2], s[2]>>, u[1][3]) = y
  BY <1>8 DEF Found, Ok, Usable
<1>11. u \in Admitted(s, P)
  BY <1>7
<1> HIDE DEF g, D, A, R
<1> QED  BY <1>9, <1>10, <1>11, ProductiveUse DEF x, y

(* The trees joined weigh what the rule, the given trees and those beside  *)
(* them weigh.                                                             *)
LEMMA JoiningScore ==
  ASSUME Scoring, NEW v \in Spans, NEW S \in Symbols(level), NEW A \in SUBSET TreesWith(v, S),
         NEW u \in Ups(v, S), Ok(u[2], u[1][1])
  PROVE  /\ Score(Joining(A, v, u)) = Model.bin[u[1]] * Score(A) * FullSum(Beside(v, u), BesideSym(v, u))
         /\ Score(Joining(A, v, u)) \in Nat /\ Score(A) \in Nat /\ Model.bin[u[1]] \in Nat
         /\ FullSum(Beside(v, u), BesideSym(v, u)) \in Nat
<1> DEFINE k == Model.bin[u[1]]
           P == u[1][1]
           D == TreesWith(Beside(v, u), BesideSym(v, u))
           J == Joining(A, v, u)
<1>1. /\ u[2] \in Spans /\ u[1] \in Bins /\ Beside(v, u) \in Spans
      /\ OnLeft(v, u) => BesideSym(v, u) = u[1][3]
      /\ ~OnLeft(v, u) => BesideSym(v, u) = u[1][2]
  BY UpFacts
<1>2. k \in Nat
  BY <1>1, RuleFacts
<1>3. D \in SUBSET AllTrees /\ A \in SUBSET AllTrees /\ J \in SUBSET AllTrees
  <2>1. TreesWith(v, S) \in SUBSET AllTrees /\ D \in SUBSET AllTrees /\ PlainOf(u[2], P) \in SUBSET AllTrees
    BY <1>1, SomeTrees
  <2>2. J \subseteq PlainOf(u[2], P)
    BY JoiningTrees
  <2> QED  BY <2>1, <2>2
<1>4. Score(D) \in Nat /\ Score(A) \in Nat /\ Score(J) \in Nat
  <2> HIDE DEF D, J
  <2> QED  BY <1>3, Scores
<1>5. FullSum(Beside(v, u), BesideSym(v, u)) = Score(D)
  BY DEF FullSum
<1>6. CASE OnLeft(v, u)
  <2>1. J = Joins(P, A, D, k)
    BY <1>1, <1>6 DEF Joining
  <2>2. \A x \in A, y \in D : BinaryTree(P, x, y, k) \in AllTrees
    BY <1>3, <2>1 DEF Joins
  <2> HIDE DEF D, J, P, k
  <2>3. Score(J) = k * Score(A) * Score(D)
    BY <1>2, <1>3, <2>1, <2>2, JoinedScore
  <2> QED  BY <1>2, <1>4, <1>5, <2>3 DEF D, J, k
<1>7. CASE ~OnLeft(v, u)
  <2>1. J = Joins(P, D, A, k)
    BY <1>1, <1>7 DEF Joining
  <2>2. \A x \in D, y \in A : BinaryTree(P, x, y, k) \in AllTrees
    BY <1>3, <2>1 DEF Joins
  <2> HIDE DEF D, J, P, k
  <2>3. Score(J) = k * Score(D) * Score(A)
    BY <1>2, <1>3, <2>1, <2>2, JoinedScore
  <2>4. \A i, j, l \in Nat : i * j * l = i * l * j
    OBVIOUS
  <2>5. Score(J) = k * Score(A) * Score(D)
    BY <1>2, <1>4, <2>3, <2>4
  <2> QED  BY <1>2, <1>4, <1>5, <2>5 DEF D, J, k
<1> QED  BY <1>6, <1>7

(* What a symbol gets from a rule above, times the trees it is for, is the *)
(* outside score there times the trees made of them.                       *)
LEMMA UpScore ==
  ASSUME Scoring, pc = "prune", Found, Accounted,
         NEW v \in Spans, NEW S \in Symbols(level), NEW A \in SUBSET TreesWith(v, S), NEW u \in Ups(v, S)
  PROVE  /\ UpTerm(v, u) \in Nat
         /\ ~Ok(u[2], u[1][1]) => UpTerm(v, u) = 0 /\ Joining(A, v, u) = {}
         /\ Ok(u[2], u[1][1]) => /\ Out(u[2], u[1][1]) \in Nat
                                 /\ Out(u[2], u[1][1]) * Score(Joining(A, v, u)) = UpTerm(v, u) * Score(A)
<1> DEFINE w == u[2]
           P == u[1][1]
           x == UseOf(v, u)
           b == Beside(v, u)
           Q == BesideSym(v, u)
           k == Model.bin[u[1]]
<1>1. /\ w \in Spans /\ u[1] \in Bins /\ x \in Uses(w, P) /\ x[1] = u[1] /\ Width(w) # 1
      /\ b \in Spans /\ Q \in Symbols(level)
      /\ OnLeft(v, u) => /\ u[1][2] = S /\ v = <<w[1], x[2]>> /\ b = <<x[2], w[2]>> /\ Q = u[1][3]
      /\ ~OnLeft(v, u) => /\ u[1][3] = S /\ v = <<x[2], w[2]>> /\ b = <<w[1], x[2]>> /\ Q = u[1][2]
  BY UpFacts
<1>2. P \in Symbols(level) /\ P[1] \in TagIds /\ k \in Nat
  <2>1. P \in Symbols(level) /\ k \in Nat
    BY <1>1, RuleFacts
  <2> QED  BY <1>1, <2>1, SymbolShapes, ScoringShapes
<1>3. x \in Productive(w, P[1]) => Ok(w, P) /\ Ok(b, Q) /\ In(b, Q) \in Nat
  <2> SUFFICES ASSUME x \in Productive(w, P[1]) PROVE Ok(w, P) /\ Ok(b, Q) /\ In(b, Q) \in Nat
    OBVIOUS
  <2> HIDE DEF w, P, x, b, Q
  <2>1. /\ Ok(w, x[1][1]) /\ Ok(<<w[1], x[2]>>, x[1][2]) /\ Ok(<<x[2], w[2]>>, x[1][3])
        /\ In(<<w[1], x[2]>>, x[1][2]) \in Nat /\ In(<<x[2], w[2]>>, x[1][3]) \in Nat
    BY <1>1, <1>2, UseOfProductive
  <2>2. Ok(w, P)
    BY <1>1, <2>1 DEF P
  <2> QED  BY <1>1, <2>1, <2>2
<1>4. CASE ~Ok(w, P)
  <2>1. UpTerm(v, u) = 0
    BY <1>3, <1>4 DEF UpTerm
  <2>2. Joining(A, v, u) = {}
    BY <1>4 DEF Joining
  <2> QED  BY <1>4, <2>1, <2>2
<1>5. CASE Ok(w, P)
  <2> DEFINE o == Out(w, P)
             j == Score(Joining(A, v, u))
             f == FullSum(b, Q)
             a == Score(A)
  <2>1. o \in Nat
    BY <1>1, <1>2, <1>5, UsableScores DEF Out, Ok
  <2>2. j = k * a * f /\ j \in Nat /\ a \in Nat /\ f \in Nat
    BY <1>5, JoiningScore
  <2>3. CASE x \in Productive(w, P[1])
    <3>1. In(b, Q) = f
      BY <1>1, <1>3, <2>3 DEF Found, Ok, Usable
    <3>2. UpTerm(v, u) = k * o * f
      BY <2>3, <3>1 DEF UpTerm
    <3>3. \A i, l, m, n \in Nat : i * (l * m * n) = (l * i * n) * m /\ l * i * n \in Nat
      <4> TAKE i, l, m, n \in Nat
      <4>1. i * (l * m * n) = (l * i * n) * m
        BY SMT
      <4>2. l * i * n \in Nat
        BY Naturals
      <4> QED  BY <4>1, <4>2
    <3> HIDE DEF k, o, f, j, a, w, P
    <3>4. o * j = UpTerm(v, u) * a /\ UpTerm(v, u) \in Nat
      BY <1>2, <2>1, <2>2, <3>2, <3>3
    <3> QED  BY <1>5, <2>1, <3>4 DEF o, j, a, w, P
  <2>4. CASE x \notin Productive(w, P[1])
    <3>1. UpTerm(v, u) = 0
      BY <2>4 DEF UpTerm
    <3>2. ~(UseTerms(w)[x] > 0)
      <4> HIDE DEF w, P, x
      <4> QED  BY <1>1, <1>2, <1>5, <2>4, ProductiveUp
    <3> DEFINE l == FullSum(<<w[1], x[2]>>, x[1][2])
               r == FullSum(<<x[2], w[2]>>, x[1][3])
    <3>3. /\ l \in Nat /\ r \in Nat /\ UseTerms(w)[x] = Model.bin[x[1]] * l * r
          /\ Model.bin[x[1]] \in Nat /\ Model.bin[x[1]] > 0
      <4> HIDE DEF w, P, x
      <4> QED  BY <1>1, UseParts
    <3>4. l = 0 \/ r = 0
      <4>1. \A c, d, e \in Nat : c > 0 /\ d > 0 /\ e > 0 => c * d * e > 0
        <5> TAKE c, d, e \in Nat
        <5>1. c > 0 /\ d > 0 => c * d > 0 /\ c * d \in Nat
          BY SMT
        <5>2. \A z \in Nat : z > 0 /\ e > 0 => z * e > 0
          BY SMT
        <5> QED  BY <5>1, <5>2
      <4> HIDE DEF l, r, x, w, P
      <4> QED  BY <3>2, <3>3, <4>1
    <3>5. a = 0 \/ f = 0
      <4>1. FullSum(v, S) = 0 \/ f = 0
        <5> HIDE DEF w, P, x, b, Q
        <5> QED  BY <1>1, <3>4 DEF b, Q
      <4>2. a <= FullSum(v, S) /\ FullSum(v, S) \in Nat
        <5>1. TreesWith(v, S) \in SUBSET AllTrees
          BY SomeTrees
        <5>2. IsFiniteSet(TreesWith(v, S)) /\ (\A t \in TreesWith(v, S) : ScoreMap[t] \in Nat) /\ FullSum(v, S) \in Nat
          BY <5>1, Scores DEF FullSum
        <5>3. \A t \in A : ScoreMap[t] \in Nat /\ ScoreMap[t] <= ScoreMap[t]
          BY <5>2
        <5> QED  BY <5>2, <5>3, TotalAtMost DEF FullSum, Score
      <4> QED  BY <2>2, <4>1, <4>2
    <3>6. \A c, d \in Nat : c * 0 = 0 /\ c * 0 * d = 0 /\ c * d * 0 = 0 /\ c * (0 * d) = 0 /\ 0 * c = 0
      OBVIOUS
    <3>7. j = 0
      <4> HIDE DEF k, a, f, j
      <4> QED  BY <1>2, <2>2, <3>5, <3>6
    <3> HIDE DEF k, o, f, j, a, w, P
    <3>8. o * j = UpTerm(v, u) * a /\ UpTerm(v, u) \in Nat
      BY <2>1, <2>2, <3>1, <3>6, <3>7
    <3> QED  BY <1>5, <2>1, <3>8 DEF o, j, a, w, P
  <2> QED  BY <2>3, <2>4
<1> QED  BY <1>4, <1>5

-----------------------------------------------------------------------------
(* The parses through trees of a symbol weigh no more than the score from  *)
(* outside times that of the trees, and as much where no tag of a word     *)
(* derives another.                                                        *)
TopClose(v, S) ==
  \A A \in SUBSET TreesWith(v, S) : CloseTo(NoLexicalParent, Score(ThruTop(A, v, S)), Beneath(v, S) * Score(A))
OutClose(v, S) ==
  \A A \in SUBSET PlainOf(v, S) : CloseTo(NoLexicalParent, Score(Thru(A)), Out(v, S) * Score(A))

(* What comes from above is a natural.                                     *)
LEMMA BeneathNat ==
  ASSUME Scoring, pc = "prune", Found, Accounted, NEW v \in Spans, NEW S \in Symbols(level)
  PROVE  /\ DoneUps(v, S) = Ups(v, S) /\ IsFiniteSet(Ups(v, S))
         /\ \A u \in Ups(v, S) : UpTerms(v, S)[u] = UpTerm(v, u) /\ UpTerm(v, u) \in Nat
         /\ Total(UpTerms(v, S), Ups(v, S)) \in Nat /\ Start1(v, S) \in Nat
         /\ Beneath(v, S) = Start1(v, S) + Total(UpTerms(v, S), Ups(v, S)) /\ Beneath(v, S) \in Nat
<1>1. DoneUps(v, S) = Ups(v, S)
  BY DEF DoneUps, DownDone
<1>2. IsFiniteSet(Ups(v, S))
  BY UpFacts
<1>3. \A u \in Ups(v, S) : UpTerm(v, u) \in Nat
  <2> TAKE u \in Ups(v, S)
  <2>1. {} \in SUBSET TreesWith(v, S)
    OBVIOUS
  <2> QED  BY <2>1, UpScore
<1>4. \A u \in Ups(v, S) : UpTerms(v, S)[u] = UpTerm(v, u) /\ UpTerm(v, u) \in Nat
  BY <1>3 DEF UpTerms
<1>5. Total(UpTerms(v, S), Ups(v, S)) \in Nat
  <2> DEFINE g == UpTerms(v, S)
             D == Ups(v, S)
  <2>1. IsFiniteSet(D) /\ (\A u \in D : g[u] \in Nat) /\ D \in SUBSET D
    BY <1>2, <1>4
  <2> HIDE DEF g, D
  <2>2. Total(g, D) \in Nat
    BY <2>1, TotalSplit
  <2> QED  BY <2>2 DEF g, D
<1>6. Start1(v, S) \in Nat
  BY DEF Start1
<1> QED  BY <1>1, <1>2, <1>4, <1>5, <1>6 DEF Beneath

(* By the rules above a span, once their parents have their scores.        *)
LEMMA TopIsClose ==
  ASSUME Scoring, pc = "prune", Found, Accounted, NEW v \in Spans, NEW S \in Symbols(level),
         \A w \in Spans : Width(w) > Width(v) => \A P \in Symbols(level) : Ok(w, P) => OutClose(w, P)
  PROVE  TopClose(v, S)
<1> SUFFICES ASSUME NEW A \in SUBSET TreesWith(v, S)
             PROVE  CloseTo(NoLexicalParent, Score(ThruTop(A, v, S)), Beneath(v, S) * Score(A))
  BY DEF TopClose
<1> DEFINE K == Ups(v, S)
           F == [u \in K |-> Thru(Joining(A, v, u))]
           f == [u \in K |-> Total(ScoreMap, F[u])]
           a == Score(A)
           h == UpTerms(v, S)
           g == [u \in K |-> a * h[u]]
           C == A \cap Complete(Trees)
           T == Total(h, K)
<1>1. /\ IsFiniteSet(K) /\ \A u \in K : h[u] = UpTerm(v, u) /\ h[u] \in Nat
      /\ T \in Nat /\ Start1(v, S) \in Nat /\ Beneath(v, S) = Start1(v, S) + T
  BY BeneathNat
<1>2. A \in SUBSET AllTrees /\ C \in SUBSET AllTrees /\ a \in Nat
  <2>1. A \in SUBSET AllTrees
    BY SomeTrees
  <2> QED  BY <2>1, Scores
<1>3. ASSUME NEW u \in K PROVE f[u] \in Nat /\ g[u] \in Nat /\ CloseTo(NoLexicalParent, f[u], g[u])
  <2> DEFINE w == u[2]
             P == u[1][1]
             J == Joining(A, v, u)
             o == Out(w, P)
  <2>1. /\ UpTerm(v, u) \in Nat
        /\ ~Ok(w, P) => UpTerm(v, u) = 0 /\ J = {}
        /\ Ok(w, P) => o \in Nat /\ o * Score(J) = UpTerm(v, u) * a
    BY UpScore
  <2>2. f[u] = Score(Thru(J)) /\ f[u] \in Nat
    <3>1. f[u] = Score(Thru(J))
      BY DEF Score
    <3>2. Thru(J) \in SUBSET AllTrees
      BY ParseFacts
    <3> QED  BY <3>1, <3>2, Scores
  <2>3. g[u] = a * UpTerm(v, u) /\ g[u] \in Nat /\ a * UpTerm(v, u) = UpTerm(v, u) * a
    <3>1. g[u] = a * UpTerm(v, u)
      BY <1>1
    <3>2. \A i, j \in Nat : i * j \in Nat /\ i * j = j * i
      OBVIOUS
    <3> HIDE DEF g, a
    <3> QED  BY <1>2, <2>1, <3>1, <3>2
  <2>4. Score(Thru({})) = 0
    <3>1. Thru({}) = {}
      BY DEF Thru
    <3> QED  BY <3>1, Scores
  <2>5. CASE ~Ok(w, P)
    <3>1. f[u] = 0
      BY <2>1, <2>2, <2>4, <2>5
    <3>2. g[u] = 0
      <4>1. UpTerm(v, u) = 0
        BY <2>1, <2>5
      <4>2. a * 0 = 0
        BY <1>2
      <4> HIDE DEF g, a
      <4> QED  BY <2>3, <4>1, <4>2
    <3> HIDE DEF f, g
    <3> QED  BY <3>1, <3>2 DEF CloseTo
  <2>6. CASE Ok(w, P)
    <3>1. w \in Spans /\ u[1] \in Bins /\ Width(v) < Width(w)
      BY UpFacts
    <3>2. P \in Symbols(level)
      BY <3>1, RuleFacts
    <3>3. Width(w) > Width(v)
      BY <3>1, SpanParts
    <3>4. OutClose(w, P)
      BY <2>6, <3>1, <3>2, <3>3
    <3>5. J \in SUBSET PlainOf(w, P)
      BY JoiningTrees
    <3>6. CloseTo(NoLexicalParent, Score(Thru(J)), o * Score(J))
      <4> HIDE DEF J, o, w, P
      <4> QED  BY <3>4, <3>5 DEF OutClose, o
    <3> HIDE DEF f, g, J, o, a, w, P
    <3>7. o * Score(J) = g[u]
      BY <2>1, <2>3, <2>6
    <3> QED  BY <2>2, <2>3, <3>6, <3>7
  <2> QED  BY <2>5, <2>6
<1>4. Score(ThruJoining(A, v, S)) = Total(f, K)
  <2>1. \A u \in K : F[u] \in SUBSET AllTrees
    BY ParseFacts
  <2>2. \A u, w \in K : u # w => F[u] \cap F[w] = {}
    BY ThruSplit
  <2>3. IsFiniteSet(AllTrees) /\ \A t \in AllTrees : ScoreMap[t] \in Nat
    BY Scores
  <2>4. ThruJoining(A, v, S) = UNION {F[u] : u \in K}
    BY DEF ThruJoining
  <2>5. Total(ScoreMap, UNION {F[u] : u \in K}) = Total(f, K)
    <3> HIDE DEF F, K
    <3> QED  BY ONLY <1>1, <2>1, <2>2, <2>3, TotalDisjoint DEF f
  <2> HIDE DEF F, f, K
  <2> QED  BY <2>4, <2>5 DEF Score
<1>5. CloseTo(NoLexicalParent, Total(f, K), Total(g, K)) /\ Total(f, K) \in Nat
  <2>1. K \in SUBSET K /\ NoLexicalParent \in BOOLEAN /\ (NoLexicalParent => \A x \in K \ K : g[x] = 0)
    BY DEF NoLexicalParent
  <2>2. (\A u \in K : f[u] \in Nat /\ CloseTo(NoLexicalParent, f[u], g[u])) /\ \A u \in K : g[u] \in Nat
    <3> HIDE DEF f, g, K
    <3> QED  BY <1>3
  <2> HIDE DEF f, g, K
  <2>3. Total(f, K) \in Nat
    BY <1>1, <2>1, <2>2, TotalSplit
  <2>4. CloseTo(NoLexicalParent, Total(f, K), Total(g, K))
    BY ONLY <1>1, <2>1, <2>2, TotalClose
  <2> QED  BY <2>3, <2>4
<1>6. Total(g, K) = a * T
  <2> HIDE DEF h, K, a
  <2> QED  BY <1>1, <1>2, TotalScale
<1>7. Score(C) = Start1(v, S) * a
  <2>1. \A t \in A : t \in Trees[v] /\ t.sym = S /\ t.span = v
    <3>1. \A t \in A : t \in Trees[v] /\ t.sym = S
      BY DEF TreesWith
    <3> QED  BY <3>1, TreeShapes
  <2>2. CASE <<v, S[1]>> = RootCell
    <3>1. v = Whole /\ S[1] = RootTag
      BY <2>2 DEF RootCell
    <3>2. S = <<RootTag, 0>>
      <4>1. S = <<S[1], S[2]>> /\ S[2] \in SubIds(<<v, S[1]>>, level) /\ level \in AllLevels
        BY ScoringShapes, SymbolShapes
      <4>2. SubIds(RootCell, level) = {0}
        BY <4>1, SubShapes
      <4> QED  BY <2>2, <3>1, <4>1, <4>2
    <3>3. C = A
      BY <2>1, <3>1, <3>2 DEF Complete
    <3>4. Start1(v, S) = 1 /\ 1 * a = a
      BY <1>2, <2>2 DEF Start1
    <3> HIDE DEF C, a
    <3> QED  BY <3>3, <3>4 DEF a
  <2>3. CASE <<v, S[1]>> # RootCell
    <3>1. C = {}
      <4> SUFFICES ASSUME NEW t \in C PROVE FALSE
        OBVIOUS
      <4>1. t.span = Whole /\ t.sym = <<RootTag, 0>> /\ t.span = v /\ t.sym = S
        BY <2>1, ParseFacts
      <4> QED  BY <2>3, <4>1 DEF RootCell
    <3>2. Start1(v, S) = 0 /\ 0 * a = 0
      BY <1>2, <2>3 DEF Start1
    <3>3. Score({}) = 0
      BY Scores
    <3> HIDE DEF C, a
    <3> QED  BY <3>1, <3>2, <3>3
  <2> QED  BY <2>2, <2>3
<1>8. Score(ThruTop(A, v, S)) = Score(C) + Score(ThruJoining(A, v, S))
  <2>1. ThruTop(A, v, S) = C \cup ThruJoining(A, v, S) /\ C \cap ThruJoining(A, v, S) = {}
    BY ThruSplit DEF ThruTop
  <2>2. ThruJoining(A, v, S) \in SUBSET AllTrees
    BY ParseFacts
  <2> HIDE DEF C
  <2> QED  BY <1>2, <2>1, <2>2, Scores
<1>9. Beneath(v, S) * a = Start1(v, S) * a + a * T
  <2>1. \A i, j, k \in Nat : (i + j) * k = i * k + k * j
    <3> TAKE i, j, k \in Nat
    <3>1. (i + j) * k = i * k + j * k
      BY Distribution
    <3>2. j * k = k * j
      OBVIOUS
    <3> QED  BY <3>1, <3>2
  <2> HIDE DEF a, T
  <2> QED  BY <1>1, <1>2, <2>1
<1>10. Start1(v, S) * a \in Nat /\ a * T \in Nat
  <2> HIDE DEF a, T
  <2> QED  BY <1>1, <1>2, Naturals
<1> HIDE DEF a, T, f, g, C, K
<1>11. CloseTo(NoLexicalParent, Score(ThruTop(A, v, S)), Beneath(v, S) * a)
  BY <1>4, <1>5, <1>6, <1>7, <1>8, <1>9, <1>10 DEF CloseTo
<1> QED  BY <1>11 DEF a

-----------------------------------------------------------------------------
(* What a unary rule makes of trees without one is not raised again.       *)
LEMMA RaisedOnce ==
  ASSUME Scoring, NEW v \in Spans, NEW S \in Symbols(level), NEW A \in SUBSET PlainOf(v, S),
         NEW r \in RaisersOf(S)
  PROVE  /\ A \in SUBSET TreesWith(v, S) /\ Score(A) \in Nat /\ r[1] \in Symbols(level)
         /\ Model.una[r] \in Nat /\ Raising(A, v, r) \in SUBSET TreesWith(v, r[1])
         /\ Thru(Raising(A, v, r)) = ThruTop(Raising(A, v, r), v, r[1])
         /\ ~Ok(v, r[1]) => Raising(A, v, r) = {}
         /\ Ok(v, r[1]) => Score(Raising(A, v, r)) = Model.una[r] * Score(A)
<1> DEFINE B == Raising(A, v, r)
<1>1. A \in SUBSET TreesWith(v, S) /\ \A a \in A : ~a.unary
  BY DEF PlainOf, TreesWith
<1>2. r \in Unas /\ r[1] \in Symbols(level) /\ Model.una[r] \in Nat
  BY RuleFacts DEF RaisersOf
<1>3. \A p \in B : p \in TreesWith(v, r[1]) /\ p.unary = TRUE
  <2>1. \A q \in RaisersOf(S) : \A p \in Raising(A, v, q) :
            p \in TreesWith(v, q[1]) /\ TreeKids(p) \cap A # {} /\ p.unary = TRUE /\ p.sym = q[1]
    BY <1>1, RaisingTrees
  <2> QED  BY <2>1
<1>4. B \in SUBSET TreesWith(v, r[1])
  BY <1>3
<1>5. TreesWith(v, S) \in SUBSET AllTrees /\ TreesWith(v, r[1]) \in SUBSET AllTrees
  BY SomeTrees
<1>6. Thru(B) = ThruTop(B, v, r[1])
  <2>1. \A q : Raising(B, v, q) = {}
    BY <1>3 DEF Raising
  <2>2. Thru({}) = {}
    BY DEF Thru
  <2>3. ThruRaising(B, v, r[1]) = {}
    BY <2>1, <2>2 DEF ThruRaising
  <2>4. Thru(B) = ThruTop(B, v, r[1]) \cup ThruRaising(B, v, r[1])
    <3> HIDE DEF B
    <3> QED  BY <1>2, <1>4, ThruSplit
  <2> QED  BY <2>3, <2>4
<1>7. ASSUME Ok(v, r[1]) PROVE Score(B) = Model.una[r] * Score(A)
  <2>1. B = {UnaryTree(r[1], x, Model.una[r]) : x \in A}
    BY <1>1, <1>7 DEF Raising
  <2>2. \A x \in A : UnaryTree(r[1], x, Model.una[r]) \in AllTrees
    BY <1>4, <1>5, <2>1
  <2>3. A \in SUBSET AllTrees
    BY <1>1, <1>5
  <2> HIDE DEF B
  <2> QED  BY <1>2, <2>1, <2>2, <2>3, RaisedScore
<1>8. ~Ok(v, r[1]) => B = {}
  BY DEF Raising
<1>9. Score(A) \in Nat
  BY <1>1, <1>5, Scores
<1> QED  BY <1>1, <1>2, <1>4, <1>6, <1>7, <1>8, <1>9

(* What unary rules hand down over a span.                                 *)
LEMMA AboveFacts ==
  ASSUME Scoring, pc = "prune", Found, Accounted, OutsideSummed,
         NEW v \in Spans, NEW S \in Symbols(level), Ok(v, S)
  PROVE  /\ IsFiniteSet(RaisedFrom(v, S)) /\ AboveSum(v, S) \in Nat
         /\ \A r \in RaisedFrom(v, S) :
              /\ AboveTerms(v, S)[r] = Model.una[r] * Beneath(v, r[1])
              /\ Model.una[r] \in Nat /\ Beneath(v, r[1]) \in Nat /\ AboveTerms(v, S)[r] \in Nat
         /\ Out(v, S) = Beneath(v, S) + AboveSum(v, S) /\ Beneath(v, S) \in Nat
<1> DEFINE D == RaisedFrom(v, S)
           h == AboveTerms(v, S)
<1>1. IsFiniteSet(D)
  <2>1. D \in SUBSET UnaryUses(v) /\ IsFiniteSet(UnaryUses(v))
    BY UnaryShapes DEF RaisedFrom
  <2> QED  BY <2>1, FS_Subset
<1>2. ASSUME NEW r \in D
      PROVE  /\ h[r] = Model.una[r] * Beneath(v, r[1])
             /\ Model.una[r] \in Nat /\ Beneath(v, r[1]) \in Nat /\ h[r] \in Nat
  <2>1. r \in UnaryUses(v)
    BY DEF RaisedFrom
  <2>2. Model.una[r] \in Nat /\ r[1] \in Symbols(level)
    BY <2>1, UnaryShapes
  <2>3. Beneath(v, r[1]) \in Nat
    BY <2>2, BeneathNat
  <2>4. h[r] = Model.una[r] * Beneath(v, r[1])
    BY DEF AboveTerms
  <2> HIDE DEF h
  <2> QED  BY <2>2, <2>3, <2>4, Naturals
<1>3. AboveSum(v, S) \in Nat
  <2>1. \A r \in D : h[r] \in Nat
    BY <1>2
  <2>2. AboveSum(v, S) = Total(h, D)
    BY DEF AboveSum
  <2> HIDE DEF h, D
  <2> QED  BY <1>1, <2>1, <2>2, TotalSplit
<1>4. Out(v, S) = Beneath(v, S) + AboveSum(v, S) /\ Beneath(v, S) \in Nat
  <2>1. DownDone(v)
    BY DEF DownDone
  <2> QED  BY <2>1, BeneathNat DEF OutsideSummed
<1> QED  BY <1>1, <1>2, <1>3, <1>4

(* With the unary rules, all that a symbol has from above.                 *)
LEMMA OutIsClose ==
  ASSUME Scoring, pc = "prune", Found, Accounted, OutsideSummed,
         NEW v \in Spans, NEW S \in Symbols(level), Ok(v, S),
         \A Q \in Symbols(level) : TopClose(v, Q)
  PROVE  OutClose(v, S)
<1> SUFFICES ASSUME NEW A \in SUBSET PlainOf(v, S)
             PROVE  CloseTo(NoLexicalParent, Score(Thru(A)), Out(v, S) * Score(A))
  BY DEF OutClose
<1> DEFINE K == RaisersOf(S)
           K0 == {r \in K : Ok(v, r[1])}
           D == RaisedFrom(v, S)
           H == [r \in K |-> Thru(Raising(A, v, r))]
           f == [r \in K |-> Total(ScoreMap, H[r])]
           a == Score(A)
           h == AboveTerms(v, S)
           g == [r \in D |-> a * h[r]]
           U == AboveSum(v, S)
<1>1. A \in SUBSET TreesWith(v, S) /\ a \in Nat /\ A \in SUBSET AllTrees
  <2>1. A \in SUBSET TreesWith(v, S)
    BY DEF PlainOf, TreesWith
  <2>2. A \in SUBSET AllTrees
    BY <2>1, SomeTrees
  <2> QED  BY <2>1, <2>2, Scores
<1>2. IsFiniteSet(K) /\ IsFiniteSet(D) /\ K \subseteq Unas
  <2>1. K \in SUBSET Unas /\ IsFiniteSet(Unas)
    BY RuleFacts DEF RaisersOf
  <2> QED  BY <2>1, FS_Subset, AboveFacts
<1>3. \A r \in D : h[r] = Model.una[r] * Beneath(v, r[1]) /\ Model.una[r] \in Nat /\ Beneath(v, r[1]) \in Nat
                   /\ h[r] \in Nat
  BY AboveFacts
<1>4. U \in Nat /\ U = Total(h, D) /\ Total(g, D) = a * U
  <2>1. U \in Nat /\ U = Total(h, D)
    BY AboveFacts DEF AboveSum
  <2>2. \A r \in D : h[r] \in Nat
    BY <1>3
  <2> HIDE DEF h, D, a, U
  <2>3. Total(g, D) = a * Total(h, D)
    BY <1>1, <1>2, <2>2, TotalScale
  <2> QED  BY <2>1, <2>3
<1>5. Score(ThruRaising(A, v, S)) = Total(f, K)
  <2>1. \A r \in K : H[r] \in SUBSET AllTrees
    BY ParseFacts
  <2>2. \A r, q \in K : r # q => H[r] \cap H[q] = {}
    BY <1>1, ThruSplit
  <2>3. IsFiniteSet(AllTrees) /\ \A t \in AllTrees : ScoreMap[t] \in Nat
    BY Scores
  <2>4. ThruRaising(A, v, S) = UNION {H[r] : r \in K}
    BY DEF ThruRaising
  <2>5. Total(ScoreMap, UNION {H[r] : r \in K}) = Total(f, K)
    <3> HIDE DEF H, K
    <3> QED  BY ONLY <1>2, <2>1, <2>2, <2>3, TotalDisjoint DEF f
  <2> HIDE DEF H, f, K
  <2> QED  BY <2>4, <2>5 DEF Score
<1>6. \A r \in K : f[r] \in Nat /\ f[r] = Score(Thru(Raising(A, v, r)))
  <2> TAKE r \in K
  <2>1. f[r] = Score(Thru(Raising(A, v, r)))
    BY DEF Score
  <2>2. Thru(Raising(A, v, r)) \in SUBSET AllTrees
    BY ParseFacts
  <2> QED  BY <2>1, <2>2, Scores
<1>7. \A r \in K \ K0 : f[r] = 0
  <2> TAKE r \in K \ K0
  <2>1. Raising(A, v, r) = {}
    BY RaisedOnce
  <2>2. Thru({}) = {}
    BY DEF Thru
  <2> QED  BY <1>6, <2>1, <2>2, Scores
<1>8. CASE A = {}
  <2>1. Thru(A) = {} /\ Score({}) = 0
    BY <1>8, Scores DEF Thru
  <2>2. Out(v, S) \in Nat
    BY UsableScores DEF Ok, Out
  <2>3. Out(v, S) * 0 = 0
    BY <2>2
  <2> QED  BY <1>8, <2>1, <2>3 DEF CloseTo
<1>9. CASE A # {}
  <2>1. K0 \in SUBSET D
    <3> SUFFICES ASSUME NEW r \in K0 PROVE r \in D
      OBVIOUS
    <3>1. r \in Unas /\ r[2] = S /\ Ok(v, r[1])
      BY DEF RaisersOf
    <3>2. r \in DOMAIN Model.una /\ r[1][1] # r[2][1]
      BY <3>1, RuleFacts
    <3>3. v[2] - v[1] > 1 => S[1] \notin Lexicals
      <4>1. S[1] \in Lexicals /\ Width(v) # 1 => TreesWith(v, S) = {}
        BY SomeTrees
      <4>2. v[2] - v[1] > 1 => Width(v) # 1
        BY DEF Width
      <4> QED  BY <1>1, <1>9, <4>1, <4>2
    <3> QED  BY <3>1, <3>2, <3>3 DEF RaisedFrom, UnaryUses, Ok
  <2>2. \A r \in D : g[r] \in Nat /\ g[r] = a * h[r]
    <3> HIDE DEF a, h, D
    <3> QED  BY <1>1, <1>3, Naturals
  <2>3. ASSUME NEW r \in K0 PROVE CloseTo(NoLexicalParent, f[r], g[r])
    <3> DEFINE B == Raising(A, v, r)
               b == Beneath(v, r[1])
               k == Model.una[r]
    <3>1. /\ r \in K /\ Ok(v, r[1]) /\ r[1] \in Symbols(level) /\ B \in SUBSET TreesWith(v, r[1])
          /\ Thru(B) = ThruTop(B, v, r[1]) /\ Score(B) = k * a
      BY RaisedOnce
    <3>2. CloseTo(NoLexicalParent, Score(ThruTop(B, v, r[1])), b * Score(B))
      <4>1. TopClose(v, r[1])
        BY <3>1
      <4> HIDE DEF B
      <4> QED  BY <3>1, <4>1 DEF TopClose
    <3>3. r \in D /\ g[r] = a * (k * b) /\ k \in Nat /\ b \in Nat
      BY <1>3, <2>1, <2>2
    <3>4. b * (k * a) = a * (k * b)
      <4>1. \A x, y, z \in Nat : x * (y * z) = z * (y * x)
        OBVIOUS
      <4> HIDE DEF a, b, k, K0, D, g
      <4> QED  BY <1>1, <3>3, <4>1
    <3>5. f[r] = Score(Thru(B))
      BY <1>6, <3>1
    <3> HIDE DEF a, b, k, B, f, g, K0, D, K
    <3> QED  BY <3>1, <3>2, <3>3, <3>4, <3>5
  <2>4. NoLexicalParent => \A r \in D \ K0 : g[r] = 0
    <3> SUFFICES ASSUME NoLexicalParent, NEW r \in D \ K0 PROVE g[r] = 0
      OBVIOUS
    <3>1. r \in DOMAIN Model.una /\ r[2] = S /\ r[1][1] # r[2][1] /\ Ok(v, r[1])
      BY DEF RaisedFrom, UnaryUses, Ok
    <3>2. r \notin Unas
      BY <3>1 DEF RaisersOf
    <3>3. Model.una[r] = 0
      <4>1. ~(Model.una[r] > 0)
        BY <3>1, <3>2 DEF Unas, InUse, NoLexicalParent
      <4> QED  BY <1>3, <4>1
    <3>4. h[r] = 0
      <4>1. 0 * Beneath(v, r[1]) = 0
        BY <1>3
      <4> QED  BY <1>3, <3>3, <4>1
    <3>5. g[r] = a * h[r] /\ a * 0 = 0
      BY <1>1, <2>2
    <3> HIDE DEF g, a, h
    <3> QED  BY <3>4, <3>5
  <2>5. Total(f, K) = Total(f, K0) /\ K0 \in SUBSET K
    <3>1. K0 \in SUBSET K /\ \A r \in K : f[r] \in Nat
      BY <1>6
    <3> HIDE DEF f, K0, K
    <3> QED  BY ONLY <1>2, <1>7, <3>1, TotalOfZeros
  <2>6. CloseTo(NoLexicalParent, Total(f, K0), Total(g, D))
    <3>1. NoLexicalParent \in BOOLEAN
      BY DEF NoLexicalParent
    <3>2. \A r \in K0 : f[r] \in Nat /\ CloseTo(NoLexicalParent, f[r], g[r])
      BY <1>6, <2>3
    <3>3. \A r \in D : g[r] \in Nat
      BY <2>2
    <3> HIDE DEF f, g, D, K, K0
    <3> QED  BY ONLY <1>2, <2>1, <2>4, <3>1, <3>2, <3>3, TotalClose
  <2>7. Total(f, K) \in Nat
    <3>1. \A r \in K : f[r] \in Nat
      BY <1>6
    <3> HIDE DEF f, K
    <3> QED  BY <1>2, <3>1, TotalSplit
  <2>8. CloseTo(NoLexicalParent, Score(ThruTop(A, v, S)), Beneath(v, S) * a)
    BY <1>1 DEF TopClose
  <2>9. /\ Score(Thru(A)) = Score(ThruTop(A, v, S)) + Score(ThruRaising(A, v, S))
        /\ Score(ThruTop(A, v, S)) \in Nat
    <3>1. Thru(A) = ThruTop(A, v, S) \cup ThruRaising(A, v, S) /\ ThruTop(A, v, S) \cap ThruRaising(A, v, S) = {}
      BY <1>1, ThruSplit
    <3>2. ThruTop(A, v, S) \in SUBSET AllTrees /\ ThruRaising(A, v, S) \in SUBSET AllTrees
      BY ParseFacts
    <3> QED  BY <3>1, <3>2, Scores
  <2>10. Out(v, S) = Beneath(v, S) + U /\ Beneath(v, S) \in Nat
    BY AboveFacts
  <2>11. Out(v, S) * a = Beneath(v, S) * a + a * U /\ Beneath(v, S) * a \in Nat /\ a * U \in Nat
    <3>1. \A x, y, z \in Nat : (x + y) * z = x * z + z * y
      <4> TAKE x, y, z \in Nat
      <4>1. (x + y) * z = x * z + y * z
        BY Distribution
      <4>2. y * z = z * y
        OBVIOUS
      <4> QED  BY <4>1, <4>2
    <3> HIDE DEF a, U
    <3> QED  BY <1>1, <1>4, <2>10, <3>1, Naturals
  <2> HIDE DEF a, f, g, D, K, K0, U
  <2>12. CloseTo(NoLexicalParent, Score(Thru(A)), Out(v, S) * a)
    BY <1>4, <1>5, <2>5, <2>6, <2>7, <2>8, <2>9, <2>11 DEF CloseTo
  <2> QED  BY <2>12 DEF a
<1> QED  BY <1>8, <1>9

-----------------------------------------------------------------------------
(* So it is for all spans, from the longest down.                          *)
LEMMA AllClose ==
  ASSUME Scoring, pc = "prune", Found, Accounted, OutsideSummed
  PROVE  \A v \in Spans : \A S \in Symbols(level) : TopClose(v, S) /\ (Ok(v, S) => OutClose(v, S))
<1> DEFINE Done(v) == \A S \in Symbols(level) : TopClose(v, S) /\ (Ok(v, S) => OutClose(v, S))
           I == {k \in Nat : \A v \in Spans : NumWords < Width(v) + k => Done(v)}
<1>1. \A v \in Spans : Width(v) \in Nat \ {0} /\ Width(v) <= NumWords
  BY SpanParts
<1>2. NumWords \in Nat
  BY Shapes
<1>3. 0 \in I
  <2> HIDE DEF Done
  <2> QED  BY <1>1, <1>2
<1>4. ASSUME NEW k \in Nat, k \in I PROVE k + 1 \in I
  <2> SUFFICES ASSUME NEW v \in Spans, NumWords < Width(v) + (k + 1) PROVE Done(v)
    <3> HIDE DEF Done
    <3> QED  OBVIOUS
  <2>1. \A w \in Spans : Width(w) > Width(v) => Done(w)
    <3> SUFFICES ASSUME NEW w \in Spans, Width(w) > Width(v) PROVE Done(w)
      <4> HIDE DEF Done
      <4> QED  OBVIOUS
    <3>1. NumWords < Width(w) + k
      BY <1>1, <1>2
    <3> HIDE DEF Done
    <3> QED  BY <1>4, <3>1
  <2>2. \A w \in Spans : Width(w) > Width(v) => \A P \in Symbols(level) : Ok(w, P) => OutClose(w, P)
    BY <2>1
  <2>3. \A S \in Symbols(level) : TopClose(v, S)
    BY <2>2, TopIsClose
  <2>4. ASSUME NEW S \in Symbols(level), Ok(v, S) PROVE OutClose(v, S)
    BY <2>3, <2>4, OutIsClose
  <2> QED  BY <2>3, <2>4
<1>5. NumWords \in I
  <2> HIDE DEF I
  <2> QED  BY <1>2, <1>3, <1>4, SetInduction
<1>6. \A v \in Spans : NumWords < Width(v) + NumWords
  BY <1>1, <1>2
<1>7. \A v \in Spans : Done(v)
  <2> HIDE DEF Done
  <2> QED  BY <1>5, <1>6
<1> QED  BY <1>7

(* The parses that have a cell are those through the trees of the cell.    *)
LEMMA ThroughCell ==
  ASSUME Scoring, NEW v \in Spans, NEW S
  PROVE  {t \in Complete(Trees) : <<v, S>> \in t.cells} = Thru(TreesWith(v, S))
<1>1. ASSUME NEW t \in Complete(Trees)
      PROVE  <<v, S>> \in t.cells <=> TreesWith(v, S) \cap Subtrees(AllowedGrammar, t) # {}
  <2>1. t \in AllTrees /\ t.cells = {<<x.span, x.sym>> : x \in Subtrees(AllowedGrammar, t)}
    BY ParseFacts DEF SubsProper, SubsCells
  <2>2. \A x \in Subtrees(AllowedGrammar, t) : x \in Trees[x.span]
    BY <2>1, SubLaws, TreeSpan
  <2>3. \A x \in TreesWith(v, S) : x.span = v /\ x.sym = S
    BY TreeShapes DEF TreesWith
  <2>4. ASSUME <<v, S>> \in t.cells PROVE TreesWith(v, S) \cap Subtrees(AllowedGrammar, t) # {}
    <3>1. PICK x \in Subtrees(AllowedGrammar, t) : <<v, S>> = <<x.span, x.sym>>
      BY <2>1, <2>4
    <3> QED  BY <2>2, <3>1 DEF TreesWith
  <2>5. ASSUME NEW x \in TreesWith(v, S) \cap Subtrees(AllowedGrammar, t) PROVE <<v, S>> \in t.cells
    BY <2>1, <2>3
  <2> QED  BY <2>4, <2>5
<1> QED  BY <1>1 DEF Thru

(* The product for a cell against the parses through it.                   *)
LEMMA CellCovers ==
  ASSUME Scoring, pc = "prune", Found, Accounted, OutsideSummed,
         NEW v \in Spans, NEW S \in Symbols(level), allowedTag[<<v, S[1]>>]
  PROVE  /\ In(v, S) * Out(v, S) >= Score(Thru(TreesWith(v, S)))
         /\ NoLexicalParent /\ S[1] \in Lexicals => In(v, S) * Out(v, S) = Score(Thru(TreesWith(v, S)))
<1> DEFINE A == TreesWith(v, S)
           P == PlainOf(v, S)
           R == A \ P
<1>1. In(v, S) \in Nat /\ In(v, S) = Score(A)
  BY InShape DEF Found, FullSum
<1>2. Out(v, S) \in Nat
  BY ScoringShapes, SymbolShapes DEF Out
<1>3. CASE ~Ok(v, S)
  <2>1. A = {}
    BY <1>3, SomeTrees
  <2>2. Thru({}) = {} /\ Score({}) = 0
    BY Scores DEF Thru
  <2>3. 0 * Out(v, S) = 0
    BY <1>2
  <2> QED  BY <1>1, <2>1, <2>2, <2>3
<1>4. CASE Ok(v, S)
  <2>1. A \in SUBSET AllTrees /\ P \in SUBSET A /\ R \in SUBSET A /\ A = P \cup R /\ P \cap R = {}
    BY SomeTrees DEF PlainOf, TreesWith
  <2>2. \A x \in R : x.unary
    BY DEF PlainOf, TreesWith
  <2>3. Thru(A) = Thru(P) \cup Thru(R)
    BY <2>1 DEF Thru
  <2>4. Thru(P) \cap Thru(R) = {}
    <3> SUFFICES ASSUME NEW t \in Complete(Trees), NEW x \in P \cap Subtrees(AllowedGrammar, t),
                        NEW y \in R \cap Subtrees(AllowedGrammar, t)
                 PROVE  FALSE
      BY DEF Thru
    <3>1. x.span = v /\ x.sym = S /\ y.span = v /\ y.sym = S
      BY TreeShapes DEF TreesWith, PlainOf
    <3>2. SubsDistinct(AllowedGrammar, t)
      BY ParseFacts DEF SubsProper
    <3>3. x = y
      BY <3>1, <3>2 DEF SubsDistinct
    <3> QED  BY <2>1, <3>3
  <2>5. Thru(R) = ThruTop(R, v, S)
    <3>1. \A q : Raising(R, v, q) = {}
      BY <2>2 DEF Raising
    <3>2. ThruRaising(R, v, S) = {}
      BY <3>1 DEF ThruRaising, Thru
    <3>3. Thru(R) = ThruTop(R, v, S) \cup ThruRaising(R, v, S)
      <4> HIDE DEF R
      <4> QED  BY <2>1, ThruSplit
    <3> QED  BY <3>2, <3>3
  <2>6. CloseTo(NoLexicalParent, Score(Thru(P)), Out(v, S) * Score(P))
    BY <1>4, AllClose DEF OutClose
  <2>7. CloseTo(NoLexicalParent, Score(Thru(R)), Beneath(v, S) * Score(R))
    <3>1. TopClose(v, S)
      BY AllClose
    <3> QED  BY <2>1, <2>5, <3>1 DEF TopClose
  <2>8. Out(v, S) = Beneath(v, S) + AboveSum(v, S) /\ Beneath(v, S) \in Nat /\ AboveSum(v, S) \in Nat
    BY <1>4, AboveFacts
  <2>9. /\ Score(P) \in Nat /\ Score(R) \in Nat /\ Score(A) = Score(P) + Score(R)
        /\ Score(Thru(A)) = Score(Thru(P)) + Score(Thru(R))
        /\ Score(Thru(P)) \in Nat /\ Score(Thru(R)) \in Nat
    <3>1. P \in SUBSET AllTrees /\ R \in SUBSET AllTrees
      BY <2>1
    <3>2. Thru(P) \in SUBSET AllTrees /\ Thru(R) \in SUBSET AllTrees
      BY ParseFacts
    <3> HIDE DEF A, P, R
    <3> QED  BY <2>1, <2>3, <2>4, <3>1, <3>2, Scores
  <2>10. (Score(P) + Score(R)) * Out(v, S) = Out(v, S) * Score(P) + Beneath(v, S) * Score(R) + AboveSum(v, S) * Score(R)
    <3>1. \A p, r, b, u \in Nat : (p + r) * (b + u) = (b + u) * p + b * r + u * r
      <4> TAKE p, r, b, u \in Nat
      <4>1. b + u \in Nat /\ (p + r) * (b + u) = p * (b + u) + r * (b + u)
        BY Distribution
      <4>2. r * (b + u) = r * b + r * u
        BY Distribution
      <4>3. p * (b + u) = (b + u) * p /\ r * b = b * r /\ r * u = u * r
        BY <4>1
      <4>4. b * r \in Nat /\ u * r \in Nat /\ (b + u) * p \in Nat
        BY <4>1, Naturals
      <4> QED  BY <4>1, <4>2, <4>3, <4>4
    <3> HIDE DEF P, R
    <3> QED  BY <2>8, <2>9, <3>1
  <2>11. /\ Out(v, S) * Score(P) \in Nat /\ Beneath(v, S) * Score(R) \in Nat
         /\ AboveSum(v, S) * Score(R) \in Nat
    <3> HIDE DEF P, R
    <3> QED  BY <1>2, <2>8, <2>9, Naturals
  <2>12. In(v, S) * Out(v, S) >= Score(Thru(A))
    <3> HIDE DEF A, P, R
    <3> QED  BY <1>1, <2>6, <2>7, <2>9, <2>10, <2>11 DEF CloseTo
  <2>13. ASSUME NoLexicalParent, S[1] \in Lexicals PROVE In(v, S) * Out(v, S) = Score(Thru(A))
    <3>1. R = {}
      <4> SUFFICES ASSUME NEW x \in R PROVE FALSE
        OBVIOUS
      <4>1. IsRaised(v, x) /\ x.sym = S
        BY SomeTrees
      <4>2. PICK r \in Unas : \E a : x = UnaryTree(r[1], a, Model.una[r])
        BY <4>1 DEF IsRaised
      <4>3. r[1] = S
        BY <4>1, <4>2, TreeParts
      <4>4. r[1][1] \notin Lexicals
        BY RuleFacts
      <4> QED  BY <2>13, <4>3, <4>4
    <3>2. A = P
      BY <2>1, <3>1
    <3>3. Score(Thru(P)) = Out(v, S) * Score(P)
      BY <2>6, <2>13 DEF CloseTo
    <3>4. In(v, S) * Out(v, S) = Out(v, S) * In(v, S)
      BY <1>1, <1>2
    <3> HIDE DEF A, P, R
    <3> QED  BY <1>1, <3>2, <3>3, <3>4
  <2> QED  BY <2>12, <2>13
<1> QED  BY <1>3, <1>4

(* After the outside pass the products are what the property asks for.     *)
LEMMA SummedCovers == Own /\ Accounted /\ OutsideSummed => PosteriorCovers
<1> SUFFICES ASSUME Own, Accounted, OutsideSummed, pc = "prune", AllFound(Trees),
                    NEW c \in Cells, allowedTag[c], NEW i \in DOMAIN inside[c]
             PROVE  LET through == ScoreOf({t \in Complete(Trees) : <<c[1], <<c[2], i>>>> \in t.cells})
                    IN  /\ inside[c][i] * outside[c][i] >= through
                        /\ NoLexicalParent /\ c[2] \in Lexicals => inside[c][i] * outside[c][i] = through
  BY Zenon DEF PosteriorCovers, Trees
<1>1. Scoring
  BY DEF Scoring, Passes
<1>2. Found
  BY <1>1, AllAreFound
<1> DEFINE v == c[1]
           S == <<c[2], i>>
<1>3. v \in Spans /\ c = <<v, S[1]>> /\ S[1] = c[2] /\ S[2] = i /\ c[2] \in TagIds
  BY Shapes
<1>4. S \in Symbols(level)
  <2>1. i \in 0..(NumSub[c[2]][level] - 1)
    BY <1>1, ScoringShapes DEF SubIds
  <2> QED  BY <1>3, <2>1 DEF Symbols
<1>5. inside[c][i] = In(v, S) /\ outside[c][i] = Out(v, S)
  BY <1>3 DEF In, Out
<1>6. {t \in Complete(Trees) : <<v, S>> \in t.cells} = Thru(TreesWith(v, S))
  BY <1>1, <1>3, ThroughCell
<1>7. ScoreOf(Thru(TreesWith(v, S))) = Score(Thru(TreesWith(v, S)))
  <2>1. Thru(TreesWith(v, S)) \in SUBSET AllTrees
    BY <1>1, ParseFacts
  <2> QED  BY <1>1, <2>1, ScoreOfTotal
<1>8. allowedTag[<<v, S[1]>>]
  BY <1>3
<1> HIDE DEF v, S
<1>9. /\ In(v, S) * Out(v, S) >= Score(Thru(TreesWith(v, S)))
      /\ NoLexicalParent /\ S[1] \in Lexicals => In(v, S) * Out(v, S) = Score(Thru(TreesWith(v, S)))
  BY <1>1, <1>2, <1>3, <1>4, <1>8, CellCovers
<1> QED  BY <1>3, <1>5, <1>6, <1>7, <1>9 DEF v, S

-----------------------------------------------------------------------------
(* What the words give to the symbols over a span.                         *)
LEMMA TerminalsIn ==
  ASSUME Own, Summed, SetTerminals, NEW s \in Spans, NEW P \in Symbols(level), allowedTag[<<s, P[1]>>]
  PROVE  /\ Width(s) = 1 => In(s, P)' = IF Ok(s, P) THEN Terminal(Model, s[1], P) ELSE 0
         /\ Width(s) # 1 => In(s, P)' = 0
<1>1. /\ pc = "terminals" /\ pc' = "unary" /\ inside' = TerminalScores /\ pos' = FirstSpan
      /\ UNCHANGED <<sentence, models, level, allowedTag, allowedSub, extent>>
  BY DEF SetTerminals, input, control, flags
<1>2. Scoring
  BY <1>1 DEF Scoring, Passes
<1>3. /\ Width(s) = 1 => In(s, P)' = IF Ok(s, P) THEN Terminal(Model, s[1], P) ELSE 0
      /\ Width(s) # 1 => In(s, P)' = 0
  <2> DEFINE c == <<s, P[1]>>
  <2>1. /\ c \in Cells /\ c[1] = s /\ c[2] = P[1] /\ P = <<P[1], P[2]>> /\ P[2] \in DOMAIN inside[c]
        /\ Ok(s, P) <=> allowedSub[c][P[2]]
    BY <1>2, InShape
  <2>2. In(s, P)' = TerminalScores[c][P[2]]
    BY <1>1 DEF In
  <2>3. Width(s) = 1 <=> s[2] = s[1] + 1
    BY SpanParts
  <2>4. CASE Width(s) = 1
    <3>1. c[1][2] = c[1][1] + 1 /\ allowedTag[c]
      BY <2>1, <2>3, <2>4
    <3>2. TerminalScores[c] = [i \in DOMAIN inside[c] |->
                                 IF allowedSub[c][i] THEN Terminal(Model, c[1][1], <<c[2], i>>) ELSE 0]
      BY <2>1, <3>1 DEF TerminalScores
    <3>3. TerminalScores[c][P[2]] = IF allowedSub[c][P[2]] THEN Terminal(Model, c[1][1], <<c[2], P[2]>>) ELSE 0
      BY <2>1, <3>2
    <3> HIDE DEF c
    <3>4. <<c[2], P[2]>> = P /\ c[1][1] = s[1]
      BY <2>1
    <3> QED  BY <2>1, <2>2, <2>4, <3>3, <3>4
  <2>5. CASE Width(s) # 1
    <3>1. TerminalScores[c] = inside[c]
      BY <2>1, <2>3, <2>5 DEF TerminalScores
    <3>2. inside[c][P[2]] = 0
      BY <1>1, <2>1 DEF Summed, Fresh
    <3> QED  BY <2>2, <2>5, <3>1, <3>2
  <2> QED  BY <2>4, <2>5
<1> QED  BY <1>3

(* The unary rules over a span complete it, and only it.                   *)
LEMMA UnaryBefore ==
  ASSUME Own, Summed, InsideUnary
  PROVE  /\ \A s \in Spans : (Before(s)' <=> Before(s) \/ s = Span) /\ (Span' = s /\ pc' = "unary" => Width(s) = 1)
         /\ Span \in Spans /\ Span[1] = pos.begin /\ Width(Span) = pos.len /\ ~Before(Span)
<1>1. /\ pc = "unary" /\ pos' = NextSpan(pos)
      /\ pc' = IF pos'.len > NumWords THEN "score" ELSE IF pos'.len = 1 THEN "unary" ELSE "binary"
  BY DEF InsideUnary
<1>3. Span \in Spans /\ Span[1] = pos.begin /\ Width(Span) = pos.len /\ ~Before(Span)
  BY <1>1, SpanReached
<1>5. \A s \in Spans : (Before(s)' <=> Before(s) \/ s = Span) /\ (Span' = s /\ pc' = "unary" => Width(s) = 1)
  <2>1. PICK k \in 1..NumWords, b \in 0..(NumWords - 1), t \in 0..NumTags :
          pos = [len |-> k, begin |-> b, tag |-> t] /\ b + k <= NumWords
    <3>1. /\ pos \in [len : 0..(NumWords + 1), begin : 0..(NumWords - 1), tag : 0..NumTags]
          /\ pos.len \in 1..NumWords /\ pos.begin + pos.len <= NumWords
      BY <1>1 DEF Own, LoopOK
    <3>2. pos = [len |-> pos.len, begin |-> pos.begin, tag |-> pos.tag]
      BY <3>1
    <3> QED  BY <3>1, <3>2
  <2> SUFFICES ASSUME NEW s \in Spans
               PROVE (Before(s)' <=> Before(s) \/ s = Span) /\ (Span' = s /\ pc' = "unary" => Width(s) = 1)
    OBVIOUS
  <2>2. /\ s = <<s[1], s[2]>> /\ s[1] \in 0..(NumWords - 1) /\ s[2] \in 1..NumWords /\ s[1] < s[2]
        /\ NumWords \in Nat \ {0}
    BY Shapes
  <2>3. s = Span <=> s[1] = b /\ s[2] - s[1] = k
    <3>1. Span = <<b, b + k>>
      BY <2>1 DEF Span
    <3>2. s[2] - s[1] = k <=> s[2] = s[1] + k
      BY <2>1, <2>2
    <3>3. s = <<b, b + k>> <=> s[1] = b /\ s[2] = b + k
      BY <2>2
    <3> QED  BY <3>1, <3>2, <3>3
  <2>4. Before(s) <=> s[2] - s[1] < k \/ (s[2] - s[1] = k /\ s[1] < b)
    BY <2>1 DEF Before, Width
  <2>5. CASE b + k < NumWords
    <3>1. pos'.len = k /\ pos'.begin = b + 1
      BY <1>1, <2>1, <2>5 DEF NextSpan
    <3>2. Before(s)' <=> s[2] - s[1] < k \/ (s[2] - s[1] = k /\ s[1] < b + 1)
      BY <3>1 DEF Before, Width
    <3>3. Before(s)' <=> Before(s) \/ s = Span
      BY <2>1, <2>2, <2>3, <2>4, <3>2
    <3>4. Span' = s /\ pc' = "unary" => Width(s) = 1
      <4>1. Span' = <<b + 1, b + 1 + k>>
        BY <3>1 DEF Span
      <4>2. pc' = "unary" => k = 1
        BY <1>1, <2>1, <3>1
      <4> QED  BY <2>1, <4>1, <4>2 DEF Width
    <3> QED  BY <3>3, <3>4
  <2>6. CASE ~(b + k < NumWords)
    <3>1. pos'.len = k + 1 /\ pos'.begin = 0
      BY <1>1, <2>1, <2>6 DEF NextSpan
    <3>2. Before(s)' <=> s[2] - s[1] < k + 1 \/ (s[2] - s[1] = k + 1 /\ s[1] < 0)
      BY <3>1 DEF Before, Width
    <3>3. b + k = NumWords
      BY <2>1, <2>2, <2>6
    <3>4. Before(s)' <=> Before(s) \/ s = Span
      BY <2>1, <2>2, <2>3, <2>4, <3>2, <3>3
    <3>5. pc' # "unary"
      BY <1>1, <2>1, <3>1
    <3> QED  BY <3>4, <3>5
  <2> QED  BY <2>5, <2>6
<1> QED  BY <1>3, <1>5

(* What they give to its symbols.                                          *)
LEMMA UnaryIn ==
  ASSUME Own, Summed, InsideUnary, NEW s \in Spans, NEW P \in Symbols(level), allowedTag[<<s, P[1]>>]
  PROVE  In(s, P)' = IF s = Span THEN In(s, P) + InsideUnaryDelta(s, P) ELSE In(s, P)
<1>1. pc = "unary" /\ inside' = UnaryScores
  BY DEF InsideUnary
<1>2. Scoring
  BY <1>1 DEF Scoring, Passes
<1>6. In(s, P)' = IF s = Span THEN In(s, P) + InsideUnaryDelta(s, P) ELSE In(s, P)
  <2> DEFINE c == <<s, P[1]>>
  <2>1. c \in Cells /\ c[1] = s /\ c[2] = P[1] /\ P[2] \in DOMAIN inside[c] /\ <<c[2], P[2]>> = P
    BY <1>2, InShape
  <2>2. In(s, P)' = UnaryScores[c][P[2]]
    BY <1>1 DEF In
  <2>3. UnaryScores[c] = IF c[1] = Span /\ allowedTag[c]
                           THEN [i \in DOMAIN inside[c] |-> inside[c][i] + InsideUnaryDelta(Span, <<c[2], i>>)]
                           ELSE inside[c]
    BY <2>1 DEF UnaryScores
  <2>4. CASE s = Span
    <3>1. UnaryScores[c] = [i \in DOMAIN inside[c] |-> inside[c][i] + InsideUnaryDelta(Span, <<c[2], i>>)]
      BY <2>1, <2>3, <2>4
    <3>2. UnaryScores[c][P[2]] = inside[c][P[2]] + InsideUnaryDelta(Span, <<c[2], P[2]>>)
      BY <2>1, <3>1
    <3> QED  BY <2>1, <2>2, <2>4, <3>2 DEF In
  <2>5. CASE s # Span
    BY <2>1, <2>2, <2>3, <2>5 DEF In
  <2> QED  BY <2>4, <2>5
<1> QED  BY <1>6

-----------------------------------------------------------------------------
(* The uses and their weights follow from the inputs, the level and flags. *)
LEMMA WeightsKept ==
  ASSUME UNCHANGED <<sentence, models, level, allowedTag, allowedSub>>
  PROVE  /\ Bins' = Bins /\ Unas' = Unas /\ Symbols(level)' = Symbols(level) /\ Model' = Model
         /\ \A s : UseTerms(s)' = UseTerms(s) /\ RaiseTerms(s)' = RaiseTerms(s)
         /\ \A s, P : Uses(s, P)' = Uses(s, P) /\ Raises(P)' = Raises(P) /\ (Ok(s, P)' <=> Ok(s, P))
<1>1. \A s, P : FullSum(s, P)' = FullSum(s, P) /\ PlainSum(s, P)' = PlainSum(s, P)
  BY TotalsKept
<1>2. Model' = Model /\ Lexicals' = Lexicals /\ Symbols(level)' = Symbols(level)
  BY DEF Model, Lexicals, Symbols
<1>3. Bins' = Bins /\ Unas' = Unas
  BY <1>2 DEF Bins, Unas, InUse
<1>4. ASSUME NEW s PROVE UseTerms(s)' = UseTerms(s)
  <2>1. \A u : u[1][1] = u[1][1]
    OBVIOUS
  <2> QED  BY <1>1, <1>2, <1>3 DEF UseTerms, MidsOf
<1>5. ASSUME NEW s PROVE RaiseTerms(s)' = RaiseTerms(s)
  BY <1>1, <1>2, <1>3 DEF RaiseTerms
<1>6. ASSUME NEW s, NEW P PROVE Uses(s, P)' = Uses(s, P) /\ Raises(P)' = Raises(P)
  BY <1>3 DEF Uses, Raises, MidsOf
<1>7. ASSUME NEW s, NEW P PROVE Ok(s, P)' <=> Ok(s, P)
  BY DEF Ok, Usable
<1> QED  BY <1>2, <1>3, <1>4, <1>5, <1>6, <1>7

(* What is admitted is of natural weight.                                  *)
LEMMA AdmittedFacts ==
  ASSUME Scoring, NEW s \in Spans, NEW P
  PROVE  /\ IsFiniteSet(Admitted(s, P)) /\ Admitted(s, P) \in SUBSET Uses(s, P) /\ IsFiniteSet(Uses(s, P))
         /\ \A u \in Uses(s, P) : UseTerms(s)[u] \in Nat
         /\ Total(UseTerms(s), Admitted(s, P)) \in Nat /\ Total(RaiseTerms(s), Raises(P)) \in Nat
<1>1. Admitted(s, P) \in SUBSET Uses(s, P) /\ IsFiniteSet(Uses(s, P))
  BY UseFacts DEF Admitted
<1>2. IsFiniteSet(Admitted(s, P))
  BY <1>1, FS_Subset
<1>3. \A u \in Uses(s, P) : UseTerms(s)[u] \in Nat
  BY UseFacts
<1>4. Total(UseTerms(s), Admitted(s, P)) \in Nat
  BY <1>1, <1>3, TotalSplit
<1>5. Total(RaiseTerms(s), Raises(P)) \in Nat
  BY UseFacts, TotalSplit
<1> QED  BY <1>1, <1>2, <1>3, <1>4, <1>5

(* The binary rules give a symbol no more than what is admitted.           *)
LEMMA BinaryBound ==
  ASSUME Scoring, Summed, pc = "binary", NEW P \in Symbols(level), Ok(Span, P)
  PROVE  BinarySum(Span, P[1], P[2]) <= Total(UseTerms(Span), Admitted(Span, P))
<1> DEFINE s == Span
           D == {u \in Productive(s, P[1]) : u[1][1][2] = P[2]}
           f == [u \in D |-> Model.bin[u[1]] * LeftScore(s, u) * RightScore(s, u)]
           g == UseTerms(s)
           B == Admitted(s, P)
<1>0. s \in Spans /\ P[1] \in TagIds /\ P = <<P[1], P[2]>> /\ level \in AllLevels
  <2>1. Own /\ level \in AllLevels
    BY ScoringShapes DEF Scoring
  <2> QED  BY <2>1, SpanReached, SymbolShapes
<1>1. BinarySum(s, P[1], P[2]) = Total(f, D)
  BY TotalOfSum DEF BinarySum, SumOver
<1>2. ASSUME NEW t \in Spans, Width(t) < Width(s), NEW Q \in Symbols(level), Ok(t, Q)
      PROVE  In(t, Q) <= FullSum(t, Q) /\ In(t, Q) \in Nat /\ FullSum(t, Q) \in Nat
  <2>1. Before(t)
    BY <1>2, SpanReached DEF Scoring
  <2>2. allowedTag[<<t, Q[1]>>]
    BY <1>2 DEF Ok, Usable
  <2>3. Near(In(t, Q), FullSum(t, Q))
    BY <1>2, <2>1, <2>2 DEF Summed, SumsNear, InsidePass
  <2> QED  BY <1>2, <2>2, <2>3, InShape, SomeTrees DEF Near, CloseTo
<1>3. ASSUME NEW u \in D
      PROVE  /\ u \in B /\ f[u] = Model.bin[u[1]] * In(<<s[1], u[2]>>, u[1][2]) * In(<<u[2], s[2]>>, u[1][3])
             /\ Ok(<<s[1], u[2]>>, u[1][2]) /\ Ok(<<u[2], s[2]>>, u[1][3])
  <2>1. u \in Productive(s, P[1]) /\ u[1][1][2] = P[2] /\ s \in Spans /\ P[1] \in TagIds
    BY <1>0
  <2> HIDE DEF s
  <2>2. /\ u \in Admitted(s, u[1][1]) /\ u[1][1] \in Symbols(level) /\ u[1][1][1] = P[1]
        /\ Ok(<<s[1], u[2]>>, u[1][2]) /\ Ok(<<u[2], s[2]>>, u[1][3])
        /\ LeftScore(s, u) = In(<<s[1], u[2]>>, u[1][2]) /\ RightScore(s, u) = In(<<u[2], s[2]>>, u[1][3])
    BY <2>1, UseOfProductive
  <2>3. u[1][1] = P
    <3>1. u[1][1] = <<u[1][1][1], u[1][1][2]>>
      BY <1>0, <2>1, <2>2, SymbolShapes
    <3> QED  BY <1>0, <2>1, <2>2, <3>1
  <2> QED  BY <2>2, <2>3
<1>4. ASSUME NEW u \in D PROVE f[u] \in Nat /\ f[u] <= g[u]
  <2> DEFINE k == Model.bin[u[1]]
             x == In(<<s[1], u[2]>>, u[1][2])
             y == In(<<u[2], s[2]>>, u[1][3])
             v == FullSum(<<s[1], u[2]>>, u[1][2])
             w == FullSum(<<u[2], s[2]>>, u[1][3])
  <2>1. /\ <<s[1], u[2]>> \in Spans /\ <<u[2], s[2]>> \in Spans
        /\ Width(<<s[1], u[2]>>) < Width(s) /\ Width(<<u[2], s[2]>>) < Width(s)
        /\ u[1][2] \in Symbols(level) /\ u[1][3] \in Symbols(level)
        /\ k \in Nat /\ g[u] = k * v * w
    <3>1. u \in Uses(s, P)
      BY <1>3 DEF Admitted
    <3> HIDE DEF s, D
    <3> QED  BY <1>0, <3>1, UseParts
  <2>2. x <= v /\ x \in Nat /\ v \in Nat
    BY <1>2, <1>3, <2>1
  <2>3. y <= w /\ y \in Nat /\ w \in Nat
    BY <1>2, <1>3, <2>1
  <2>4. f[u] = k * x * y
    BY <1>3
  <2> HIDE DEF f, g, k, x, y, v, w
  <2>5. k * x <= k * v /\ k * x \in Nat /\ k * v \in Nat
    <3>1. \A i, m, n \in Nat : m <= n => i * m <= i * n
      BY SMT
    <3> QED  BY <2>1, <2>2, <3>1, Naturals
  <2>6. (k * x) * y <= (k * v) * w /\ (k * x) * y \in Nat
    <3>1. \A i, j, m, n \in Nat : i <= j /\ m <= n => i * m <= j * n
      BY SMT
    <3> QED  BY <2>3, <2>5, <3>1, Naturals
  <2> QED  BY <2>1, <2>4, <2>6
<1>5. IsFiniteSet(B) /\ (\A u \in B : g[u] \in Nat)
  BY <1>0, AdmittedFacts
<1>6. D \in SUBSET B
  BY <1>3
<1> HIDE DEF D, f, g, B
<1>7. Total(f, D) <= Total(g, B)
  BY <1>4, <1>5, <1>6, TotalAtMost
<1> QED  BY <1>1, <1>7 DEF g, B

-----------------------------------------------------------------------------
(* The words have nothing to do with phrases.                              *)
LEMMA SetTerminalsAccounted == Own /\ Summed /\ SetTerminals => Accounted'
<1> SUFFICES ASSUME Own, Summed, SetTerminals PROVE Accounted'
  OBVIOUS
<1>1. /\ pc = "terminals" /\ pc' = "unary"
      /\ UNCHANGED <<sentence, models, level, allowedTag, allowedSub, extent>>
  BY DEF SetTerminals, input, control, flags
<1>2. Scoring
  BY <1>1 DEF Scoring, Passes
<1>3. /\ Symbols(level)' = Symbols(level)
      /\ \A s : UseTerms(s)' = UseTerms(s) /\ RaiseTerms(s)' = RaiseTerms(s)
      /\ \A s, P : Uses(s, P)' = Uses(s, P) /\ Raises(P)' = Raises(P) /\ (Ok(s, P)' <=> Ok(s, P))
  BY <1>1, WeightsKept
<1>4. ASSUME NEW s \in Spans, NEW P \in Symbols(level), Ok(s, P), Width(s) # 1
      PROVE  /\ In(s, P)' = 0 /\ Admitted(s, P)' = Admitted(s, P)
             /\ Total(UseTerms(s), Admitted(s, P)) \in Nat /\ Total(RaiseTerms(s), Raises(P)) \in Nat
  <2>1. allowedTag[<<s, P[1]>>]
    BY <1>4 DEF Ok, Usable
  <2>2. Admitted(s, P)' = Admitted(s, P)
    BY <1>1, <1>3 DEF Admitted, Mids
  <2> QED  BY <1>2, <1>4, <2>1, <2>2, TerminalsIn, AdmittedFacts
<1>5. ASSUME NEW s \in Spans, NEW P \in Symbols(level)', Ok(s, P)', Width(s) # 1
      PROVE  In(s, P)' <= Total(UseTerms(s)', Admitted(s, P)')
                          + (IF pc' \in InsidePass /\ ~Before(s)' THEN 0 ELSE Total(RaiseTerms(s)', Raises(P)'))
  <2>1. P \in Symbols(level) /\ Ok(s, P)
    BY <1>3, <1>5
  <2>2. UseTerms(s)' = UseTerms(s) /\ RaiseTerms(s)' = RaiseTerms(s) /\ Raises(P)' = Raises(P)
    BY <1>3
  <2> QED  BY <1>4, <1>5, <2>1, <2>2
<1> QED  BY <1>5 DEF Accounted, Width, Total

(* The binary rules of a parent add no more than the uses admitted, and    *)
(* what has been admitted stays so while the extents grow.                 *)
LEMMA InsideBinaryAccounted == Own /\ Summed /\ Accounted /\ InsideBinary => Accounted'
<1> SUFFICES ASSUME Own, Summed, Accounted, InsideBinary PROVE Accounted'
  OBVIOUS
<1>1. /\ pc = "binary" /\ pc' \in InsidePass
      /\ pos' = [pos EXCEPT !.tag = @ + 1]
      /\ UNCHANGED <<sentence, models, level, allowedTag, allowedSub>>
  BY DEF InsideBinary, input, control, flags, InsidePass
<1>2. Scoring
  BY <1>1 DEF Scoring, Passes
<1>3. /\ Symbols(level)' = Symbols(level)
      /\ \A s : UseTerms(s)' = UseTerms(s) /\ RaiseTerms(s)' = RaiseTerms(s)
      /\ \A s, P : Uses(s, P)' = Uses(s, P) /\ Raises(P)' = Raises(P) /\ (Ok(s, P)' <=> Ok(s, P))
  BY <1>1, WeightsKept
<1>4. \A s \in Spans : Before(s)' <=> Before(s)
  <2>1. pos \in [len : 0..(NumWords + 1), begin : 0..(NumWords - 1), tag : 0..NumTags]
    BY DEF Own, LoopOK
  <2>2. pos'.len = pos.len /\ pos'.begin = pos.begin
    BY <1>1, <2>1
  <2> QED  BY <2>2 DEF Before, Width
<1>5. ASSUME NEW s \in Spans, NEW P
      PROVE  Admitted(s, P) \in SUBSET Admitted(s, P)' /\ Admitted(s, P)' \in SUBSET Uses(s, P)
  <2>1. Admitted(s, P)' \in SUBSET Uses(s, P)
    BY <1>3 DEF Admitted
  <2> SUFFICES ASSUME NEW u \in Admitted(s, P) PROVE u \in Admitted(s, P)'
    BY <2>1
  <2>2. u \in Uses(s, P) /\ u[2] \in Mids(s[1], s[2], u[1][2][1], u[1][3][1])
    BY DEF Admitted
  <2> DEFINE b == s[1]
             e == s[2]
             m == u[2]
             l == u[1][2][1]
             r == u[1][3][1]
  <2>3. /\ b \in 0..(NumWords - 1) /\ e \in 1..NumWords /\ l \in TagIds /\ r \in TagIds
        /\ b \in 0..NumWords /\ e \in 0..NumWords
    <3>1. u[1][2] \in Symbols(level) /\ u[1][3] \in Symbols(level)
      BY <1>2, <2>2, UseParts
    <3>2. level \in AllLevels
      BY <1>2, ScoringShapes
    <3>3. l \in TagIds /\ r \in TagIds
      <4> HIDE DEF l, r
      <4>1. \A Q \in Symbols(level) : Q[1] \in TagIds
        BY <3>2, SymbolShapes
      <4> QED  BY <3>1, <4>1 DEF l, r
    <3>4. b \in 0..(NumWords - 1) /\ e \in 1..NumWords /\ b \in 0..NumWords /\ e \in 0..NumWords
      BY Shapes
    <3> QED  BY <3>3, <3>4
  <2>4. /\ m \in (b + 1)..(e - 1)
        /\ extent[b][l].nr <= m /\ m <= extent[b][l].wr
        /\ extent[e][r].wl <= m /\ m <= extent[e][r].nl
    BY <2>2 DEF Mids
  <2>5. /\ extent'[b][l].nr = extent[b][l].nr
        /\ extent'[b][l].wr >= extent[b][l].wr /\ extent'[b][l].wr \in Int
        /\ extent'[e][r].nl = extent[e][r].nl
        /\ extent'[e][r].wl <= extent[e][r].wl /\ extent'[e][r].wl \in Int
    BY <2>3, BinaryExtent
  <2>6. extent[b][l].wr \in Int /\ extent[e][r].wl \in Int
    <3>1. extent \in [0..NumWords -> [TagIds -> ExtentType]]
      BY DEF Own, VectorsOK
    <3>2. extent[b][l] \in ExtentType /\ extent[e][r] \in ExtentType
      BY <2>3, <3>1
    <3> QED  BY <3>2 DEF ExtentType
  <2>7. b \in Int /\ e \in Int
    BY <2>3
  <2> HIDE DEF b, e, l, r, m
  <2>8. /\ m \in (b + 1)..(e - 1)
        /\ extent'[b][l].nr <= m /\ m <= extent'[b][l].wr
        /\ extent'[e][r].wl <= m /\ m <= extent'[e][r].nl
    BY <2>4, <2>5, <2>6, <2>7
  <2>9. m \in Mids(b, e, l, r)'
    BY <2>8 DEF Mids
  <2> QED  BY <1>3, <2>2, <2>9 DEF Admitted, b, e, l, r, m
<1>6. ASSUME NEW s \in Spans, NEW P \in Symbols(level), Ok(s, P), Width(s) # 1
      PROVE  In(s, P)' <= Total(UseTerms(s), Admitted(s, P)')
                          + (IF ~Before(s) THEN 0 ELSE Total(RaiseTerms(s), Raises(P)))
  <2> DEFINE a == Total(UseTerms(s), Admitted(s, P))
             b == Total(UseTerms(s), Admitted(s, P)')
             c == IF ~Before(s) THEN 0 ELSE Total(RaiseTerms(s), Raises(P))
  <2>1. allowedTag[<<s, P[1]>>] /\ In(s, P) \in Nat
    BY <1>2, <1>6, InShape DEF Ok, Usable
  <2>2. a \in Nat /\ c \in Nat
    BY <1>2, AdmittedFacts
  <2>3. a <= b /\ b \in Nat
    <3> DEFINE D == Admitted(s, P)'
               A == Admitted(s, P)
               f == UseTerms(s)
    <3>1. D \in SUBSET Uses(s, P) /\ A \in SUBSET D
      BY <1>5
    <3>2. IsFiniteSet(Uses(s, P)) /\ \A u \in Uses(s, P) : f[u] \in Nat
      BY <1>2, AdmittedFacts
    <3> HIDE DEF D, A, f
    <3>3. IsFiniteSet(D) /\ (\A u \in D : f[u] \in Nat) /\ \A u \in A : f[u] \in Nat /\ f[u] <= f[u]
      <4>1. IsFiniteSet(D)
        BY <3>1, <3>2, FS_Subset
      <4> QED  BY <3>1, <3>2, <4>1
    <3>4. Total(f, A) <= Total(f, D)
      BY <3>1, <3>3, TotalAtMost
    <3>5. Total(f, D) \in Nat
      BY <3>1, <3>2, TotalSplit
    <3> QED  BY <3>4, <3>5 DEF D, A, f
  <2>4. In(s, P) <= a + c
    BY <1>1, <1>6 DEF Accounted, InsidePass
  <2>5. In(s, P)' = IF s = Span /\ P[1] = pos.tag /\ P[1] \notin Lexicals /\ Ok(s, P)
                       THEN BinarySum(s, P[1], P[2]) ELSE In(s, P)
    BY <2>1, BinaryIn
  <2>6. CASE s = Span /\ P[1] = pos.tag /\ P[1] \notin Lexicals
    <3>1. BinarySum(s, P[1], P[2]) <= a
      BY <1>1, <1>2, <1>6, <2>6, BinaryBound
    <3>2. BinarySum(s, P[1], P[2]) \in Nat
      <4>1. P[1] \in TagIds
        BY <1>2, ScoringShapes, SymbolShapes
      <4> QED  BY <1>2, <4>1, BinarySums
    <3> HIDE DEF a, b, c
    <3>3. In(s, P)' <= b + c
      BY <1>6, <2>2, <2>3, <2>5, <2>6, <3>1, <3>2
    <3> QED  BY <3>3 DEF b, c
  <2>7. CASE ~(s = Span /\ P[1] = pos.tag /\ P[1] \notin Lexicals)
    <3> HIDE DEF a, b, c
    <3>1. In(s, P)' <= b + c
      BY <2>1, <2>2, <2>3, <2>4, <2>5, <2>7
    <3> QED  BY <3>1 DEF b, c
  <2> QED  BY <2>6, <2>7
<1>7. ASSUME NEW s \in Spans, NEW P \in Symbols(level)', Ok(s, P)', Width(s) # 1
      PROVE  In(s, P)' <= Total(UseTerms(s)', Admitted(s, P)')
                          + (IF pc' \in InsidePass /\ ~Before(s)' THEN 0 ELSE Total(RaiseTerms(s)', Raises(P)'))
  <2>1. P \in Symbols(level) /\ Ok(s, P)
    BY <1>3, <1>7
  <2>2. UseTerms(s)' = UseTerms(s) /\ RaiseTerms(s)' = RaiseTerms(s) /\ Raises(P)' = Raises(P)
    BY <1>3
  <2>3. (pc' \in InsidePass /\ ~Before(s)') <=> ~Before(s)
    BY <1>1, <1>4
  <2>4. In(s, P)' <= Total(UseTerms(s), Admitted(s, P)')
                          + (IF ~Before(s) THEN 0 ELSE Total(RaiseTerms(s), Raises(P)))
    BY <1>6, <1>7, <2>1
  <2> QED  BY <2>2, <2>3, <2>4
<1> QED  BY <1>7 DEF Accounted, Width, Total

(* The unary rules of a span add no more than what they raise.             *)
LEMMA InsideUnaryAccounted == Own /\ Summed /\ Accounted /\ InsideUnary => Accounted'
<1> SUFFICES ASSUME Own, Summed, Accounted, InsideUnary PROVE Accounted'
  OBVIOUS
<1>1. /\ pc = "unary" /\ pc' \in InsidePass
      /\ UNCHANGED <<sentence, models, level, allowedTag, allowedSub, extent>>
  BY DEF InsideUnary, input, control, flags, InsidePass
<1>2. Scoring
  BY <1>1 DEF Scoring, Passes
<1>3. /\ Symbols(level)' = Symbols(level)
      /\ \A s : UseTerms(s)' = UseTerms(s) /\ RaiseTerms(s)' = RaiseTerms(s)
      /\ \A s, P : Uses(s, P)' = Uses(s, P) /\ Raises(P)' = Raises(P) /\ (Ok(s, P)' <=> Ok(s, P))
  BY <1>1, WeightsKept
<1>4. /\ \A s \in Spans : Before(s)' <=> Before(s) \/ s = Span
      /\ Span \in Spans /\ ~Before(Span)
  BY UnaryBefore
<1>5. \A s, P : Admitted(s, P)' = Admitted(s, P)
  BY <1>1, <1>3 DEF Admitted, Mids
<1>6. ASSUME NEW s \in Spans, NEW P \in Symbols(level), Ok(s, P), Width(s) # 1
      PROVE  In(s, P)' <= Total(UseTerms(s), Admitted(s, P))
                          + (IF ~(Before(s) \/ s = Span) THEN 0 ELSE Total(RaiseTerms(s), Raises(P)))
  <2> DEFINE a == Total(UseTerms(s), Admitted(s, P))
             c == Total(RaiseTerms(s), Raises(P))
             d == InsideUnaryDelta(s, P)
  <2>1. allowedTag[<<s, P[1]>>] /\ In(s, P) \in Nat
    BY <1>2, <1>6, InShape DEF Ok, Usable
  <2>2. a \in Nat /\ c \in Nat
    BY <1>2, AdmittedFacts
  <2>3. In(s, P) <= a + (IF ~Before(s) THEN 0 ELSE c)
    BY <1>1, <1>6 DEF Accounted, InsidePass
  <2>4. In(s, P)' = IF s = Span THEN In(s, P) + d ELSE In(s, P)
    BY <2>1, UnaryIn
  <2>5. CASE s = Span
    <3>1. \A Q \in Symbols(level) : Ok(s, Q) => Near(In(s, Q), PlainSum(s, Q))
      <4> TAKE Q \in Symbols(level)
      <4> HAVE Ok(s, Q)
      <4>1. allowedTag[<<s, Q[1]>>]
        BY DEF Ok, Usable
      <4>2. PlainDone(s, Q[1]) /\ ~Before(s)
        BY <1>1, <1>4, <2>5 DEF PlainDone
      <4> QED  BY <1>1, <4>1, <4>2 DEF Summed, SumsNear, InsidePass
    <3>2. d <= c /\ d \in Nat
      BY <1>2, <1>6, <3>1, UnarySumNear, UnarySums DEF Near, CloseTo
    <3> HIDE DEF a, c, d
    <3> QED  BY <1>4, <2>1, <2>2, <2>3, <2>4, <2>5, <3>2 DEF a, c
  <2>6. CASE s # Span
    <3> HIDE DEF a, c, d
    <3> QED  BY <2>3, <2>4, <2>6 DEF a, c
  <2> QED  BY <2>5, <2>6
<1>7. ASSUME NEW s \in Spans, NEW P \in Symbols(level)', Ok(s, P)', Width(s) # 1
      PROVE  In(s, P)' <= Total(UseTerms(s)', Admitted(s, P)')
                          + (IF pc' \in InsidePass /\ ~Before(s)' THEN 0 ELSE Total(RaiseTerms(s)', Raises(P)'))
  <2>1. P \in Symbols(level) /\ Ok(s, P)
    BY <1>3, <1>7
  <2>2. UseTerms(s)' = UseTerms(s) /\ RaiseTerms(s)' = RaiseTerms(s) /\ Raises(P)' = Raises(P)
    BY <1>3
  <2>3. (pc' \in InsidePass /\ ~Before(s)') <=> ~(Before(s) \/ s = Span)
    BY <1>1, <1>4
  <2>4. In(s, P)' <= Total(UseTerms(s), Admitted(s, P))
                          + (IF ~(Before(s) \/ s = Span) THEN 0 ELSE Total(RaiseTerms(s), Raises(P)))
    BY <1>6, <1>7, <2>1
  <2> QED  BY <1>5, <2>2, <2>3, <2>4
<1> QED  BY <1>7 DEF Accounted, Width, Total

(* What changes neither the inside scores nor the extents keeps it, once   *)
(* the pass is over.                                                       *)
LEMMA AccountedStays ==
  ASSUME Own, Summed, Accounted, pc \in InsidePass \cup {"outside", "prune"}, pc' \in InsidePass \cup {"outside", "prune"},
         UNCHANGED <<sentence, models, level, allowedTag, allowedSub, inside, extent>>,
         \A s \in Spans : (pc \in InsidePass /\ ~Before(s)) <=> (pc' \in InsidePass /\ ~Before(s)')
  PROVE  Accounted'
<1>3. /\ Symbols(level)' = Symbols(level)
      /\ \A s : UseTerms(s)' = UseTerms(s) /\ RaiseTerms(s)' = RaiseTerms(s)
      /\ \A s, P : Uses(s, P)' = Uses(s, P) /\ Raises(P)' = Raises(P) /\ (Ok(s, P)' <=> Ok(s, P))
  BY WeightsKept
<1>5. \A s, P : Admitted(s, P)' = Admitted(s, P)
  BY <1>3 DEF Admitted, Mids
<1>7. ASSUME NEW s \in Spans, NEW P \in Symbols(level)', Ok(s, P)', Width(s) # 1
      PROVE  In(s, P)' <= Total(UseTerms(s)', Admitted(s, P)')
                          + (IF pc' \in InsidePass /\ ~Before(s)' THEN 0 ELSE Total(RaiseTerms(s)', Raises(P)'))
  <2>1. P \in Symbols(level) /\ Ok(s, P)
    BY <1>3, <1>7
  <2>2. UseTerms(s)' = UseTerms(s) /\ RaiseTerms(s)' = RaiseTerms(s) /\ Raises(P)' = Raises(P)
    BY <1>3
  <2>3. In(s, P)' = In(s, P)
    BY DEF In
  <2>4. In(s, P) <= Total(UseTerms(s), Admitted(s, P))
                          + (IF pc \in InsidePass /\ ~Before(s) THEN 0 ELSE Total(RaiseTerms(s), Raises(P)))
    BY <1>7, <2>1 DEF Accounted
  <2> QED  BY <1>5, <2>2, <2>3, <2>4
<1> QED  BY <1>7 DEF Accounted, Width, Total

-----------------------------------------------------------------------------
(* No outside score is set before the inside pass is over.                 *)
OutsideFresh ==
  pc \in {"terminals"} \cup InsidePass =>
    \A c \in Cells : allowedTag[c] => \A i \in DOMAIN outside[c] : outside[c][i] = 0

(* Every step keeps them zero until then.                                 *)
LEMMA StepFresh == OutsideFresh /\ [Next]_vars => OutsideFresh'
<1> SUFFICES ASSUME OutsideFresh, [Next]_vars PROVE OutsideFresh'
  OBVIOUS
<1>1. CASE InitializeCharts
  <2> SUFFICES ASSUME NEW c \in Cells, allowedTag'[c], NEW i \in DOMAIN outside'[c] PROVE outside'[c][i] = 0
    BY DEF OutsideFresh
  <2>1. allowedTag' = InitTags /\ outside' = InitCharts
    BY <1>1 DEF InitializeCharts
  <2>2. level = 0 \/ allowedTag[c]
    BY <2>1 DEF InitTags
  <2>3. outside'[c] = InitScores(c)
    BY <2>1 DEF InitCharts
  <2> QED  BY <2>2, <2>3 DEF InitScores, Vector
<1>2. CASE pc' \notin {"terminals"} \cup InsidePass
  BY <1>2 DEF OutsideFresh
<1>3. CASE SetTerminals \/ InsideBinary \/ InsideUnary \/ UNCHANGED vars
  <2>1. (pc \in {"terminals"} \cup InsidePass \/ UNCHANGED pc) /\ UNCHANGED <<outside, allowedTag>>
    BY <1>3 DEF SetTerminals, InsideBinary, InsideUnary, vars, flags, InsidePass
  <2> QED  BY <2>1 DEF OutsideFresh
<1>4. CASE \/ Load \/ ParseEmpty \/ StartAttempt \/ RejectLevel \/ AcceptLevel \/ OutsideSpan
           \/ PruneCharts \/ Retrieve \/ Return
  <2>1. pc' \notin {"terminals"} \cup InsidePass
    BY <1>4 DEF Load, ParseEmpty, StartAttempt, RejectLevel, AcceptLevel, OutsideSpan, PruneCharts, Retrieve,
                Return, InsidePass
  <2> QED  BY <1>2, <2>1
<1> QED  BY <1>1, <1>3, <1>4 DEF Next

(* Where the pass goes on from: what it is done with depends on the        *)
(* position alone.                                                         *)
LEMMA OutsideLoop ==
  ASSUME Own, OutsideSpan
  PROVE  /\ Span \in Spans /\ Width(Span) = pos.len /\ ~DownDone(Span) /\ Scoring
         /\ \A w \in Spans : DownDone(w)' <=> DownDone(w) \/ w = Span
         /\ \A w \in Spans : DownDone(w) => Width(w) >= Width(Span)
         /\ \A w \in Spans : Width(w) > Width(Span) => DownDone(w)
<1>1. pc = "outside" /\ pos' = PreviousSpan(pos) /\ pc' = (IF pos'.len = 0 THEN "prune" ELSE "outside")
  BY DEF OutsideSpan
<1>2. Span \in Spans /\ Scoring
  BY <1>1, LoopSpans
<1>3. PICK k \in 1..NumWords, b \in 0..(NumWords - 1), t \in 0..NumTags :
          pos = [len |-> k, begin |-> b, tag |-> t] /\ b + k <= NumWords
  <2>1. /\ pos \in [len : 0..(NumWords + 1), begin : 0..(NumWords - 1), tag : 0..NumTags]
        /\ pos.len \in 1..NumWords /\ pos.begin + pos.len <= NumWords
    BY <1>1 DEF Own, LoopOK
  <2>2. pos = [len |-> pos.len, begin |-> pos.begin, tag |-> pos.tag]
    BY <2>1
  <2> QED  BY <2>1, <2>2
<1>4. Span = <<b, b + k>> /\ Width(Span) = k /\ k \in Nat /\ b \in Nat /\ pos.len = k /\ pos.begin = b
  <2>1. Span = <<b, b + k>> /\ pos.len = k /\ pos.begin = b
    BY <1>3 DEF Span
  <2>2. k \in Nat /\ b \in Nat
    BY <1>3, Shapes
  <2> QED  BY <2>1, <2>2 DEF Width
<1>5. \A w \in Spans : DownDone(w) <=> Width(w) > k \/ (Width(w) = k /\ w[1] < b)
  BY <1>1, <1>4 DEF DownDone
<1>6. \A w \in Spans : /\ w = <<w[1], w[2]>> /\ w[1] \in Nat /\ w[2] \in Nat /\ w[2] <= NumWords /\ w[1] < w[2]
                       /\ Width(w) = w[2] - w[1] /\ NumWords \in Nat
  BY Shapes DEF Width
<1>7. ASSUME NEW w \in Spans PROVE DownDone(w)' <=> DownDone(w) \/ w = Span
  <2>1. w = Span <=> w[1] = b /\ w[2] - w[1] = k
    <3>1. w[2] - w[1] = k <=> w[2] = w[1] + k
      BY <1>4, <1>6
    <3>2. w = <<b, b + k>> <=> w[1] = b /\ w[2] = b + k
      BY <1>6
    <3> QED  BY <1>4, <3>1, <3>2
  <2>2. CASE b + k < NumWords
    <3>1. pos'.len = k /\ pos'.begin = b + 1 /\ pc' = "outside"
      <4>1. pos' = [pos EXCEPT !.begin = b + 1]
        BY <1>1, <1>3, <1>4, <2>2 DEF PreviousSpan
      <4>2. pos'.len = k /\ pos'.begin = b + 1
        BY <1>3, <4>1
      <4> QED  BY <1>1, <1>3, <4>2
    <3>2. DownDone(w)' <=> w[2] - w[1] > k \/ (w[2] - w[1] = k /\ w[1] < b + 1)
      BY <3>1 DEF DownDone, Width
    <3> QED  BY <1>4, <1>5, <1>6, <2>1, <3>2
  <2>3. CASE ~(b + k < NumWords)
    <3>1. pos'.len = k - 1 /\ pos'.begin = 0
      <4>1. pos' = [pos EXCEPT !.len = k - 1, !.begin = 0]
        BY <1>1, <1>3, <1>4, <2>3 DEF PreviousSpan
      <4> QED  BY <1>3, <4>1
    <3>2. DownDone(w)' <=> pc' = "prune" \/ w[2] - w[1] > k - 1 \/ (w[2] - w[1] = k - 1 /\ w[1] < 0)
      BY <3>1 DEF DownDone, Width
    <3>3. DownDone(w)' <=> w[2] - w[1] > k - 1
      <4>1. pc' = "prune" => k - 1 = 0
        BY <1>1, <3>1
      <4> QED  BY <1>4, <1>6, <3>2, <4>1
    <3>4. b + k = NumWords
      BY <1>3, <1>4, <1>6, <2>3, Shapes
    <3> QED  BY <1>4, <1>5, <1>6, <2>1, <3>3, <3>4
  <2> QED  BY <2>2, <2>3
<1>8. ~DownDone(Span)
  BY <1>2, <1>4, <1>5
<1>9. \A w \in Spans : (DownDone(w) => Width(w) >= Width(Span)) /\ (Width(w) > Width(Span) => DownDone(w))
  BY <1>4, <1>5, <1>6
<1> QED  BY <1>2, <1>4, <1>7, <1>8, <1>9

(* What the productive rules over a span are, follows from the charts      *)
(* inside.                                                                 *)
LEMMA PassKept ==
  ASSUME UNCHANGED <<sentence, models, level, allowedTag, allowedSub, inside, extent>>
  PROVE  /\ Model' = Model /\ Symbols(level)' = Symbols(level)
         /\ \A s, t : Productive(s, t)' = Productive(s, t)
         /\ \A s, P : In(s, P)' = In(s, P) /\ (Ok(s, P)' <=> Ok(s, P))
         /\ \A s : UnaryUses(s)' = UnaryUses(s)
         /\ \A v, S : Ups(v, S)' = Ups(v, S) /\ RaisedFrom(v, S)' = RaisedFrom(v, S)
<1>1. Model' = Model /\ Bins' = Bins /\ Symbols(level)' = Symbols(level)
  BY WeightsKept
<1>2. Lexicals' = Lexicals
  BY <1>1 DEF Lexicals, LexicalTags
<1>3. \A s, t : Productive(s, t)' = Productive(s, t)
  BY <1>1, <1>2 DEF Productive, BinaryUses, Usable, Mids, LeftScore, RightScore
<1>4. \A s : UnaryUses(s)' = UnaryUses(s)
  BY <1>1, <1>2 DEF UnaryUses, Usable
<1>5. \A s, P : In(s, P)' = In(s, P) /\ (Ok(s, P)' <=> Ok(s, P))
  BY DEF In, Ok, Usable
<1>6. \A v, S : Ups(v, S)' = Ups(v, S) /\ RaisedFrom(v, S)' = RaisedFrom(v, S)
  BY <1>1, <1>4 DEF Ups, RaisedFrom, LeftUp, RightUp
<1> QED  BY <1>1, <1>3, <1>4, <1>5, <1>6

(* The pass starts with ROOT over the sentence.                            *)
LEMMA AcceptLevelOut == Own /\ Summed /\ OutsideFresh /\ AcceptLevel => OutsideSummed'
<1> SUFFICES ASSUME Own, Summed, OutsideFresh, AcceptLevel PROVE OutsideSummed'
  OBVIOUS
<1>1. /\ pc = "score" /\ pc' = "outside" /\ pos' = LastSpan /\ outside' = [outside EXCEPT ![RootCell][0] = 1]
      /\ UNCHANGED <<sentence, models, level, allowedTag, allowedSub, inside, extent>>
  BY DEF AcceptLevel, input, control, flags
<1>2. Scoring
  BY <1>1 DEF Scoring, Passes
<1>3. \A w \in Spans : ~DownDone(w)'
  <2>1. pos'.len = NumWords /\ pos'.begin = 0
    BY <1>1 DEF LastSpan
  <2>2. \A w \in Spans : Width(w) \in Nat /\ Width(w) <= NumWords /\ w[1] \in Nat /\ NumWords \in Nat
    BY SpanParts, Shapes
  <2> TAKE w \in Spans
  <2>3. DownDone(w)' <=> pc' = "prune" \/ Width(w) > pos'.len \/ (Width(w) = pos'.len /\ w[1] < pos'.begin)
    BY DEF DownDone, Width
  <2> QED  BY <1>1, <2>1, <2>2, <2>3
<1>4. ASSUME NEW v \in Spans, NEW S \in Symbols(level), Ok(v, S)
      PROVE  Out(v, S)' = Beneath(v, S)'
  <2>1. DoneUps(v, S)' = {}
    <3>1. Ups(v, S)' = Ups(v, S) /\ \A u \in Ups(v, S) : u[2] \in Spans
      BY <1>1, <1>2, PassKept, UpFacts
    <3> QED  BY <1>3, <3>1 DEF DoneUps
  <2>2. \A f : Total(f, {}) = 0
    <3> TAKE f
    <3>1. IsFiniteSet({}) /\ \A x \in {} : f[x] \in Nat
      BY FS_EmptySet
    <3> QED  BY <3>1, TotalSplit
  <2>3. Beneath(v, S)' = Start1(v, S) + 0
    <3>1. Beneath(v, S)' = Start1(v, S) + Total(UpTerms(v, S)', DoneUps(v, S)')
      BY DEF Beneath, Start1, Total
    <3> QED  BY <2>1, <2>2, <3>1
  <2> DEFINE c == <<v, S[1]>>
  <2>4. c \in Cells /\ S[2] \in SubIds(c, level) /\ allowedTag[c] /\ level \in AllLevels
    BY <1>2, <1>4, ScoringShapes, SymbolShapes DEF Ok, Usable
  <2>5. DOMAIN outside[c] = SubIds(c, level) /\ outside[c][S[2]] = 0
    <3>1. DOMAIN outside[c] = SubIds(c, level)
      BY <1>2, <2>4, ScoringShapes
    <3> QED  BY <1>1, <2>4, <3>1 DEF OutsideFresh, InsidePass
  <2>6. DOMAIN outside = Cells /\ RootCell \in Cells
    BY Shapes DEF Own, TypesOK
  <2>7. Out(v, S)' = Start1(v, S)
    <3>1. CASE c = RootCell
      <4>1. S[2] = 0 /\ 0 \in DOMAIN outside[c]
        BY <2>4, <2>5, <3>1, SubShapes
      <4>2. outside'[c][0] = 1
        BY <1>1, <2>6, <3>1, <4>1
      <4> QED  BY <3>1, <4>1, <4>2 DEF Out, Start1
    <3>2. CASE c # RootCell
      <4>1. outside'[c] = outside[c]
        BY <1>1, <2>4, <2>6, <3>2
      <4> QED  BY <2>5, <3>2, <4>1 DEF Out, Start1
    <3> QED  BY <3>1, <3>2
  <2>8. Start1(v, S) \in Nat
    BY DEF Start1
  <2> QED  BY <2>3, <2>7, <2>8
<1>5. ASSUME NEW v \in Spans, NEW S \in Symbols(level)', Ok(v, S)'
      PROVE  Out(v, S)' = Beneath(v, S)' + (IF DownDone(v)' THEN AboveSum(v, S)' ELSE 0)
  <2>1. S \in Symbols(level) /\ Ok(v, S)
    BY <1>1, <1>5, PassKept
  <2>2. Out(v, S)' = Beneath(v, S)' /\ Out(v, S)' \in Nat
    <3>1. Out(v, S)' = Beneath(v, S)'
      BY <1>4, <2>1
    <3>2. Out(v, S)' \in Nat
      <4> DEFINE c == <<v, S[1]>>
      <4>1. c \in Cells /\ S[2] \in SubIds(c, level) /\ allowedTag[c] /\ level \in AllLevels
        BY <1>2, <2>1, ScoringShapes, SymbolShapes DEF Ok, Usable
      <4>2. DOMAIN outside[c] = SubIds(c, level) /\ outside[c][S[2]] \in Nat
        BY <1>2, <4>1, ScoringShapes
      <4>3. DOMAIN outside = Cells /\ RootCell \in Cells
        BY Shapes DEF Own, TypesOK
      <4>4. outside'[c][S[2]] \in Nat
        <5>1. CASE c = RootCell
          <6>1. S[2] = 0
            BY <4>1, <5>1, SubShapes
          <6>2. outside'[c][0] = 1
            BY <1>1, <4>1, <4>2, <4>3, <5>1, <6>1
          <6> QED  BY <6>1, <6>2
        <5>2. CASE c # RootCell
          BY <1>1, <4>1, <4>2, <4>3, <5>2
        <5> QED  BY <5>1, <5>2
      <4> QED  BY <4>4 DEF Out
    <3> QED  BY <3>1, <3>2
  <2> QED  BY <1>3, <2>2
<1> QED  BY <1>5 DEF OutsideSummed

-----------------------------------------------------------------------------
(* What the pass does to the score of a symbol: over its span, below it,   *)
(* or elsewhere.                                                           *)
LEMMA OutsideOut ==
  ASSUME Own, OutsideSpan, NEW v \in Spans, NEW S \in Symbols(level), Ok(v, S)
  PROVE  Out(v, S)' = IF v = Span THEN Out(v, S) + OutsideUnaryDelta(Span, S)
                      ELSE IF Span[1] <= v[1] /\ v[2] <= Span[2]
                             THEN Out(v, S) + OutsideBinaryDelta(Span, AfterUnary(Span), <<v, S[1]>>, S[2])
                      ELSE Out(v, S)
<1>1. outside' = OutsideScores /\ Scoring
  BY OutsideLoop DEF OutsideSpan
<1> DEFINE c == <<v, S[1]>>
           i == S[2]
           above == AfterUnary(Span)
<1>2. c \in Cells /\ allowedTag[c] /\ i \in DOMAIN outside[c] /\ c[1] = v /\ c[2] = S[1] /\ S = <<S[1], S[2]>>
  <2>1. c \in Cells /\ S[2] \in SubIds(c, level) /\ allowedTag[c] /\ level \in AllLevels /\ S = <<S[1], S[2]>>
    BY <1>1, ScoringShapes, SymbolShapes DEF Ok, Usable
  <2>2. DOMAIN outside[c] = SubIds(c, level)
    BY <1>1, <2>1, ScoringShapes
  <2> QED  BY <2>1, <2>2
<1>3. above[c] = IF c[1] = Span /\ allowedTag[c]
                   THEN [j \in DOMAIN outside[c] |-> outside[c][j] + OutsideUnaryDelta(Span, <<c[2], j>>)]
                   ELSE outside[c]
  BY <1>2 DEF AfterUnary
<1>4. Out(v, S)' = OutsideScores[c][i]
  BY <1>1 DEF Out
<1>5. OutsideScores[c] = IF Within(Span, c) /\ allowedTag[c]
                           THEN [j \in DOMAIN outside[c] |-> above[c][j] + OutsideBinaryDelta(Span, above, c, j)]
                           ELSE above[c]
  BY <1>2 DEF OutsideScores
<1>6. CASE v = Span
  <2>1. ~Within(Span, c)
    BY <1>2, <1>6 DEF Within
  <2>2. OutsideScores[c] = [j \in DOMAIN outside[c] |-> outside[c][j] + OutsideUnaryDelta(Span, <<c[2], j>>)]
    BY <1>2, <1>3, <1>5, <1>6, <2>1
  <2>3. OutsideScores[c][i] = outside[c][i] + OutsideUnaryDelta(Span, <<c[2], i>>)
    BY <1>2, <2>2
  <2> QED  BY <1>2, <1>4, <1>6, <2>3 DEF Out
<1>7. CASE v # Span
  <2>1. above[c] = outside[c]
    BY <1>2, <1>3, <1>7
  <2>2. Within(Span, c) <=> Span[1] <= v[1] /\ v[2] <= Span[2]
    BY <1>2, <1>7 DEF Within
  <2>3. OutsideScores[c][i] = IF Within(Span, c) THEN outside[c][i] + OutsideBinaryDelta(Span, above, c, i)
                              ELSE outside[c][i]
    <3> HIDE DEF above, i, c
    <3>1. CASE Within(Span, c)
      <4>1. OutsideScores[c] = [j \in DOMAIN outside[c] |-> above[c][j] + OutsideBinaryDelta(Span, above, c, j)]
        BY <1>2, <1>5, <3>1
      <4>2. OutsideScores[c][i] = above[c][i] + OutsideBinaryDelta(Span, above, c, i)
        BY <1>2, <4>1
      <4> QED  BY <2>1, <3>1, <4>2
    <3>2. CASE ~Within(Span, c)
      <4>1. OutsideScores[c] = above[c]
        BY <1>5, <3>2
      <4> QED  BY <2>1, <3>2, <4>1
    <3> QED  BY <3>1, <3>2
  <2> QED  BY <1>4, <1>7, <2>2, <2>3 DEF Out
<1> QED  BY <1>6, <1>7

-----------------------------------------------------------------------------
(* The rules above a symbol over one longer span, and what they hand down  *)
(* once the unary rules over that span are done.                           *)
UpsFrom(v, S, s) == {u \in Ups(v, S) : u[2] = s}
NewTerm(v, u) ==
  IF UseOf(v, u) \in Productive(u[2], u[1][1][1])
    THEN Model.bin[u[1]] * AfterUnary(u[2])[<<u[2], u[1][1][1]>>][u[1][1][2]] * In(Beside(v, u), BesideSym(v, u))
    ELSE 0
NewTerms(v, S, s) == [u \in UpsFrom(v, S, s) |-> NewTerm(v, u)]

(* Productive uses by their parts.                                         *)
LEMMA UsesBelow ==
  ASSUME Scoring, NEW s \in Spans
  PROVE  \A x \in UNION {Productive(s, t) : t \in TagIds} :
           /\ x = <<x[1], x[2]>> /\ x[1] \in Bins /\ x[2] \in MidsOf(s) /\ x \in Productive(s, x[1][1][1])
           /\ s[1] < x[2] /\ x[2] < s[2]
           /\ x[1][1] \in Symbols(level) /\ Ok(s, x[1][1]) /\ x[1][1][1] \in TagIds
           /\ x[1][2] \in Symbols(level) /\ x[1][3] \in Symbols(level)
           /\ LeftScore(s, x) = In(<<s[1], x[2]>>, x[1][2]) /\ RightScore(s, x) = In(<<x[2], s[2]>>, x[1][3])
           /\ In(<<s[1], x[2]>>, x[1][2]) \in Nat /\ In(<<x[2], s[2]>>, x[1][3]) \in Nat
           /\ Model.bin[x[1]] \in Nat
<1> TAKE x \in UNION {Productive(s, t) : t \in TagIds}
<1>1. PICK t \in TagIds : x \in Productive(s, t)
  OBVIOUS
<1>2. /\ x \in Admitted(s, x[1][1]) /\ x[1][1] \in Symbols(level) /\ x[1][1][1] = t /\ Ok(s, x[1][1])
      /\ LeftScore(s, x) = In(<<s[1], x[2]>>, x[1][2]) /\ RightScore(s, x) = In(<<x[2], s[2]>>, x[1][3])
      /\ In(<<s[1], x[2]>>, x[1][2]) \in Nat /\ In(<<x[2], s[2]>>, x[1][3]) \in Nat
  BY <1>1, UseOfProductive
<1>3. x \in Uses(s, x[1][1])
  BY <1>2 DEF Admitted
<1>4. /\ x = <<x[1], x[2]>> /\ x[1] \in Bins /\ x[2] \in MidsOf(s)
      /\ x[1][2] \in Symbols(level) /\ x[1][3] \in Symbols(level) /\ Model.bin[x[1]] \in Nat
  <2> DEFINE P == x[1][1]
  <2>1. x \in Uses(s, P)
    BY <1>3
  <2> HIDE DEF P
  <2>2. \A u \in Uses(s, P) :
           /\ u = <<u[1], u[2]>> /\ u[1] \in Bins /\ u[2] \in MidsOf(s) /\ u[1][1] = P
           /\ <<s[1], u[2]>> \in Spans /\ <<u[2], s[2]>> \in Spans
           /\ Width(<<s[1], u[2]>>) < Width(s) /\ Width(<<u[2], s[2]>>) < Width(s)
           /\ u[1] = <<u[1][1], u[1][2], u[1][3]>> /\ u[1] \in DOMAIN Model.bin
           /\ u[1][2] \in Symbols(level) /\ u[1][3] \in Symbols(level)
           /\ Model.bin[u[1]] \in Nat /\ Model.bin[u[1]] > 0
           /\ FullSum(<<s[1], u[2]>>, u[1][2]) \in Nat /\ FullSum(<<u[2], s[2]>>, u[1][3]) \in Nat
           /\ UseTerms(s)[u] = Model.bin[u[1]] * FullSum(<<s[1], u[2]>>, u[1][2]) * FullSum(<<u[2], s[2]>>, u[1][3])
    BY UseParts
  <2> QED  BY <2>1, <2>2
<1>5. s[1] < x[2] /\ x[2] < s[2]
  BY <1>4, Shapes DEF MidsOf
<1> QED  BY <1>1, <1>2, <1>4, <1>5

(* What is handed down is a natural, and it comes from symbols in use.     *)
LEMMA NewTermNat ==
  ASSUME Scoring, NEW v \in Spans, NEW S \in Symbols(level)
  PROVE  \A u \in Ups(v, S) : /\ UpTerm(v, u) \in Nat /\ NewTerm(v, u) \in Nat
                              /\ UseOf(v, u) \in Productive(u[2], u[1][1][1]) => Ok(u[2], u[1][1])
<1> TAKE u \in Ups(v, S)
<1>1. /\ u[1] \in Bins /\ u[2] \in Spans /\ UseOf(v, u)[1] = u[1]
      /\ OnLeft(v, u) => UseOf(v, u)[2] = v[2] /\ Beside(v, u) = <<v[2], u[2][2]>> /\ BesideSym(v, u) = u[1][3]
      /\ ~OnLeft(v, u) => UseOf(v, u)[2] = v[1] /\ Beside(v, u) = <<u[2][1], v[1]>> /\ BesideSym(v, u) = u[1][2]
  BY UpFacts
<1>2. CASE UseOf(v, u) \notin Productive(u[2], u[1][1][1])
  BY <1>2 DEF UpTerm, NewTerm
<1>3. CASE UseOf(v, u) \in Productive(u[2], u[1][1][1])
  <2> DEFINE x == UseOf(v, u)
             s == u[2]
             P == u[1][1]
  <2>1. P \in Symbols(level)
    BY <1>1, RuleFacts
  <2>2. P[1] \in TagIds /\ <<s, P[1]>> \in Cells /\ P[2] \in SubIds(<<s, P[1]>>, level) /\ level \in AllLevels
    BY <1>1, <2>1, ScoringShapes, SymbolShapes
  <2>3. x \in UNION {Productive(s, t) : t \in TagIds} /\ x[1] = u[1]
    BY <1>1, <1>3, <2>2
  <2>4. /\ Ok(s, P) /\ In(Beside(v, u), BesideSym(v, u)) \in Nat /\ Model.bin[u[1]] \in Nat
    <3> HIDE DEF x, s, P
    <3>1. /\ Ok(s, x[1][1]) /\ In(<<s[1], x[2]>>, x[1][2]) \in Nat /\ In(<<x[2], s[2]>>, x[1][3]) \in Nat
          /\ Model.bin[x[1]] \in Nat
      BY <1>1, <2>3, UsesBelow DEF s
    <3> QED  BY <1>1, <2>3, <3>1 DEF x, s, P
  <2>5. Out(s, P) \in Nat /\ AfterUnary(s)[<<s, P[1]>>][P[2]] \in Nat
    <3>1. allowedTag[<<s, P[1]>>]
      BY <2>4 DEF Ok, Usable
    <3>2. DOMAIN outside[<<s, P[1]>>] = SubIds(<<s, P[1]>>, level) /\ outside[<<s, P[1]>>][P[2]] \in Nat
      BY <2>2, <3>1, ScoringShapes
    <3>3. AfterUnary(s)[<<s, P[1]>>][P[2]] \in Nat
      BY <1>1, <2>2, <3>2, AboveScores
    <3> QED  BY <3>2, <3>3 DEF Out
  <2>6. /\ UpTerm(v, u) = Model.bin[u[1]] * Out(s, P) * In(Beside(v, u), BesideSym(v, u))
        /\ NewTerm(v, u) = Model.bin[u[1]] * AfterUnary(s)[<<s, P[1]>>][P[2]] * In(Beside(v, u), BesideSym(v, u))
    BY <1>3 DEF UpTerm, NewTerm
  <2> HIDE DEF x, s, P
  <2>7. UpTerm(v, u) \in Nat /\ NewTerm(v, u) \in Nat
    BY <2>4, <2>5, <2>6, Naturals
  <2> QED  BY <2>4, <2>7 DEF s, P
<1> QED  BY <1>2, <1>3

(* The productive uses over a span that have a symbol as a child: on the   *)
(* left, and on the right.                                                 *)
LeftUses(v, S, s) == {x \in UNION {Productive(s, t) : t \in TagIds} : v = <<s[1], x[2]>> /\ x[1][2] = S}
RightUses(v, S, s) == {x \in UNION {Productive(s, t) : t \in TagIds} : v = <<x[2], s[2]>> /\ x[1][3] = S}

(* The productive uses above a symbol, and those below the longer span     *)
(* that have it as a child, are the same: on the left,                     *)
LEMMA LeftImage ==
  ASSUME Scoring, NEW s \in Spans, NEW v \in Spans, NEW S \in Symbols(level)
  PROVE  /\ {<<x[1], s>> : x \in LeftUses(v, S, s)} = {u \in UpsFrom(v, S, s) : OnLeft(v, u) /\ UseOf(v, u) \in Productive(s, u[1][1][1])}
         /\ LeftUses(v, S, s) = {UseOf(v, u) : u \in {<<x[1], s>> : x \in LeftUses(v, S, s)}}
         /\ \A x, y \in LeftUses(v, S, s) : <<x[1], s>> = <<y[1], s>> => x = y
         /\ \A x \in LeftUses(v, S, s) : NewTerm(v, <<x[1], s>>) =
              Model.bin[x[1]] * AfterUnary(s)[<<s, x[1][1][1]>>][x[1][1][2]] * RightScore(s, x)
<1> DEFINE X == LeftUses(v, S, s)
<1> USE DEF LeftUses
<1>1. ASSUME NEW x \in X
      PROVE  LET u == <<x[1], s>>
             IN  /\ u \in UpsFrom(v, S, s) /\ OnLeft(v, u) /\ UseOf(v, u) = x /\ x \in Productive(s, u[1][1][1])
                 /\ NewTerm(v, u) = Model.bin[x[1]] * AfterUnary(s)[<<s, x[1][1][1]>>][x[1][1][2]] * RightScore(s, x)
  <2> DEFINE u == <<x[1], s>>
  <2>1. /\ x = <<x[1], x[2]>> /\ x[1] \in Bins /\ x \in Productive(s, x[1][1][1]) /\ x[2] < s[2]
        /\ RightScore(s, x) = In(<<x[2], s[2]>>, x[1][3])
    BY UsesBelow
  <2>2. v[1] = s[1] /\ v[2] = x[2] /\ x[1][2] = S
    OBVIOUS
  <2>3. LeftUp(v, S, u) /\ OnLeft(v, u)
    BY <2>1, <2>2 DEF LeftUp, OnLeft
  <2>4. u \in UpsFrom(v, S, s)
    BY <2>1, <2>3 DEF UpsFrom, Ups
  <2>5. UseOf(v, u) = x /\ Beside(v, u) = <<x[2], s[2]>> /\ BesideSym(v, u) = x[1][3]
    BY <2>1, <2>2, <2>3 DEF UseOf, Beside, BesideSym
  <2>6. NewTerm(v, u) = Model.bin[x[1]] * AfterUnary(s)[<<s, x[1][1][1]>>][x[1][1][2]] * RightScore(s, x)
    BY <2>1, <2>5 DEF NewTerm
  <2> QED  BY <2>1, <2>3, <2>4, <2>5, <2>6
<1>2. ASSUME NEW u \in UpsFrom(v, S, s), OnLeft(v, u), UseOf(v, u) \in Productive(s, u[1][1][1])
      PROVE  \E x \in X : u = <<x[1], s>>
  <2>1. u \in Ups(v, S) /\ u[2] = s
    BY DEF UpsFrom
  <2>2. u = <<u[1], u[2]>> /\ u[1] \in Bins /\ UseOf(v, u)[1] = u[1]
    BY <2>1, UpFacts
  <2>3. u[1][2] = S /\ UseOf(v, u)[2] = v[2] /\ v = <<u[2][1], v[2]>>
    BY <1>2, <2>1, UpFacts
  <2>4. u[1][1][1] \in TagIds
    <3>1. u[1][1] \in Symbols(level) /\ level \in AllLevels
      BY <2>2, RuleFacts, ScoringShapes
    <3> QED  BY <3>1, SymbolShapes
  <2>5. UseOf(v, u) \in X
    BY <1>2, <2>1, <2>2, <2>3, <2>4
  <2> QED  BY <2>1, <2>2, <2>5
<1>3. {<<x[1], s>> : x \in X} = {u \in UpsFrom(v, S, s) : OnLeft(v, u) /\ UseOf(v, u) \in Productive(s, u[1][1][1])}
  <2> DEFINE I == {<<x[1], s>> : x \in X}
             N == {u \in UpsFrom(v, S, s) : OnLeft(v, u) /\ UseOf(v, u) \in Productive(s, u[1][1][1])}
  <2>1. ASSUME NEW u \in I PROVE u \in N
    <3>1. PICK x \in X : u = <<x[1], s>>
      OBVIOUS
    <3> QED  BY <1>1, <3>1
  <2>2. ASSUME NEW u \in N PROVE u \in I
    <3>1. \E x \in X : u = <<x[1], s>>
      BY <1>2
    <3> QED  BY <3>1
  <2> HIDE DEF I, N
  <2>3. I = N
    BY <2>1, <2>2
  <2> QED  BY <2>3 DEF I, N
<1>4. X = {UseOf(v, u) : u \in {<<x[1], s>> : x \in X}}
  BY <1>1
<1>5. \A x, y \in X : <<x[1], s>> = <<y[1], s>> => x = y
  <2>1. \A x \in X : UseOf(v, <<x[1], s>>) = x
    BY <1>1
  <2> QED  BY <2>1
<1> QED  BY <1>1, <1>3, <1>4, <1>5

(* and on the right.                                                       *)
LEMMA RightImage ==
  ASSUME Scoring, NEW s \in Spans, NEW v \in Spans, NEW S \in Symbols(level)
  PROVE  /\ {<<x[1], s>> : x \in RightUses(v, S, s)} = {u \in UpsFrom(v, S, s) : ~OnLeft(v, u) /\ UseOf(v, u) \in Productive(s, u[1][1][1])}
         /\ RightUses(v, S, s) = {UseOf(v, u) : u \in {<<x[1], s>> : x \in RightUses(v, S, s)}}
         /\ \A x, y \in RightUses(v, S, s) : <<x[1], s>> = <<y[1], s>> => x = y
         /\ \A x \in RightUses(v, S, s) : NewTerm(v, <<x[1], s>>) =
              Model.bin[x[1]] * AfterUnary(s)[<<s, x[1][1][1]>>][x[1][1][2]] * LeftScore(s, x)
<1> DEFINE X == RightUses(v, S, s)
<1> USE DEF RightUses
<1>1. ASSUME NEW x \in X
      PROVE  LET u == <<x[1], s>>
             IN  /\ u \in UpsFrom(v, S, s) /\ ~OnLeft(v, u) /\ UseOf(v, u) = x /\ x \in Productive(s, u[1][1][1])
                 /\ NewTerm(v, u) = Model.bin[x[1]] * AfterUnary(s)[<<s, x[1][1][1]>>][x[1][1][2]] * LeftScore(s, x)
  <2> DEFINE u == <<x[1], s>>
  <2>1. /\ x = <<x[1], x[2]>> /\ x[1] \in Bins /\ x \in Productive(s, x[1][1][1]) /\ s[1] < x[2]
        /\ LeftScore(s, x) = In(<<s[1], x[2]>>, x[1][2])
    BY UsesBelow
  <2>2. v[1] = x[2] /\ v[2] = s[2] /\ x[1][3] = S
    OBVIOUS
  <2>3. RightUp(v, S, u) /\ ~OnLeft(v, u)
    <3>1. s[1] \in Nat /\ s[1] # v[1]
      BY <2>1, <2>2, Shapes
    <3> QED  BY <2>1, <2>2, <3>1 DEF RightUp, OnLeft
  <2>4. u \in UpsFrom(v, S, s)
    BY <2>1, <2>3 DEF UpsFrom, Ups
  <2>5. UseOf(v, u) = x /\ Beside(v, u) = <<s[1], x[2]>> /\ BesideSym(v, u) = x[1][2]
    BY <2>1, <2>2, <2>3 DEF UseOf, Beside, BesideSym
  <2>6. NewTerm(v, u) = Model.bin[x[1]] * AfterUnary(s)[<<s, x[1][1][1]>>][x[1][1][2]] * LeftScore(s, x)
    BY <2>1, <2>5 DEF NewTerm
  <2> QED  BY <2>1, <2>3, <2>4, <2>5, <2>6
<1>2. ASSUME NEW u \in UpsFrom(v, S, s), ~OnLeft(v, u), UseOf(v, u) \in Productive(s, u[1][1][1])
      PROVE  \E x \in X : u = <<x[1], s>>
  <2>1. u \in Ups(v, S) /\ u[2] = s
    BY DEF UpsFrom
  <2>2. u = <<u[1], u[2]>> /\ u[1] \in Bins /\ UseOf(v, u)[1] = u[1]
    BY <2>1, UpFacts
  <2>3. u[1][3] = S /\ UseOf(v, u)[2] = v[1] /\ v = <<v[1], u[2][2]>>
    BY <1>2, <2>1, UpFacts
  <2>4. u[1][1][1] \in TagIds
    <3>1. u[1][1] \in Symbols(level) /\ level \in AllLevels
      BY <2>2, RuleFacts, ScoringShapes
    <3> QED  BY <3>1, SymbolShapes
  <2>5. UseOf(v, u) \in X
    BY <1>2, <2>1, <2>2, <2>3, <2>4
  <2> QED  BY <2>1, <2>2, <2>5
<1>3. {<<x[1], s>> : x \in X} = {u \in UpsFrom(v, S, s) : ~OnLeft(v, u) /\ UseOf(v, u) \in Productive(s, u[1][1][1])}
  <2> DEFINE I == {<<x[1], s>> : x \in X}
             N == {u \in UpsFrom(v, S, s) : ~OnLeft(v, u) /\ UseOf(v, u) \in Productive(s, u[1][1][1])}
  <2>1. ASSUME NEW u \in I PROVE u \in N
    <3>1. PICK x \in X : u = <<x[1], s>>
      OBVIOUS
    <3> QED  BY <1>1, <3>1
  <2>2. ASSUME NEW u \in N PROVE u \in I
    <3>1. \E x \in X : u = <<x[1], s>>
      BY <1>2
    <3> QED  BY <3>1
  <2> HIDE DEF I, N
  <2>3. I = N
    BY <2>1, <2>2
  <2> QED  BY <2>3 DEF I, N
<1>4. X = {UseOf(v, u) : u \in {<<x[1], s>> : x \in X}}
  BY <1>1
<1>5. \A x, y \in X : <<x[1], s>> = <<y[1], s>> => x = y
  <2>1. \A x \in X : UseOf(v, <<x[1], s>>) = x
    BY <1>1
  <2> QED  BY <2>1
<1> QED  BY <1>1, <1>3, <1>4, <1>5

-----------------------------------------------------------------------------
(* A sum over a set, and over the names of its elements.                   *)
LEMMA NamedSum ==
  ASSUME NEW X, IsFiniteSet(X), NEW h, NEW f, NEW g,
         \A x, y \in X : h[x] = h[y] => x = y, \A x \in X : g[h[x]] \in Nat /\ f[x] = g[h[x]]
  PROVE  Total(f, X) = Total(g, {h[x] : x \in X})
<1> DEFINE k == [x \in X |-> g[h[x]]]
<1>1. Total(g, {h[x] : x \in X}) = Total(k, X)
  BY ONLY TotalImage, IsFiniteSet(X), \A x, y \in X : h[x] = h[y] => x = y, \A x \in X : g[h[x]] \in Nat /\ f[x] = g[h[x]]
<1>2. \A x \in X : f[x] \in Nat /\ f[x] = k[x]
  OBVIOUS
<1> HIDE DEF k
<1>3. Total(f, X) = Total(k, X)
  BY ONLY <1>2, TotalSame, IsFiniteSet(X)
<1> QED  BY <1>1, <1>3

(* One use for each of some rules above is a finite set of uses.           *)
LEMMA UsesFinite ==
  ASSUME NEW D, IsFiniteSet(D), NEW X, NEW v, X = {UseOf(v, u) : u \in D}
  PROVE  IsFiniteSet(X)
<1> DEFINE f == [u \in D |-> UseOf(v, u)]
<1>1. IsFiniteSet({f[u] : u \in D})
  BY FiniteImage
<1>2. {f[u] : u \in D} = {UseOf(v, u) : u \in D}
  OBVIOUS
<1> QED  BY <1>1, <1>2

(* The binary rules over a span hand a symbol what the productive rules    *)
(* above it do.                                                            *)
LEMMA BinaryDelta ==
  ASSUME Scoring, NEW s \in Spans, NEW v \in Spans, NEW S \in Symbols(level)
  PROVE  /\ OutsideBinaryDelta(s, AfterUnary(s), <<v, S[1]>>, S[2]) = Total(NewTerms(v, S, s), UpsFrom(v, S, s))
         /\ IsFiniteSet(UpsFrom(v, S, s)) /\ Total(NewTerms(v, S, s), UpsFrom(v, S, s)) \in Nat
<1> DEFINE uses == UNION {Productive(s, t) : t \in TagIds}
           above == AfterUnary(s)
           c == <<v, S[1]>>
           top(u) == Model.bin[u[1]] * above[<<s, u[1][1][1]>>][u[1][1][2]]
           X == {u \in uses : c[1] = <<s[1], u[2]>> /\ u[1][2] = <<c[2], S[2]>>}
           Y == {u \in uses : c[1] = <<u[2], s[2]>> /\ u[1][3] = <<c[2], S[2]>>}
           f == [u \in X |-> top(u) * RightScore(s, u)]
           g == [u \in Y |-> top(u) * LeftScore(s, u)]
           U == UpsFrom(v, S, s)
           N == NewTerms(v, S, s)
           V == {u \in U : OnLeft(v, u) /\ UseOf(v, u) \in Productive(s, u[1][1][1])}
           W == {u \in U : ~OnLeft(v, u) /\ UseOf(v, u) \in Productive(s, u[1][1][1])}
           hx == [x \in X |-> <<x[1], s>>]
           hy == [x \in Y |-> <<x[1], s>>]
<1>1. OutsideBinaryDelta(s, AfterUnary(s), c, S[2]) = Total(f, X) + Total(g, Y)
  <2>1. OutsideBinaryDelta(s, AfterUnary(s), c, S[2]) = SumFunction(f) + SumFunction(g)
    BY DEF OutsideBinaryDelta, SumOver
  <2> HIDE DEF f, g
  <2>2. SumFunction(f) = Total(f, DOMAIN f) /\ SumFunction(g) = Total(g, DOMAIN g)
    BY TotalOfSum
  <2>3. DOMAIN f = X /\ DOMAIN g = Y
    BY DEF f, g
  <2> QED  BY <2>1, <2>2, <2>3
<1>2. S = <<S[1], S[2]>> /\ c[1] = v /\ c[2] = S[1]
  <2>1. level \in AllLevels
    BY ScoringShapes
  <2> QED  BY <2>1, SymbolShapes
<1>3. /\ X = {x \in UNION {Productive(s, t) : t \in TagIds} : v = <<s[1], x[2]>> /\ x[1][2] = S}
      /\ Y = {x \in UNION {Productive(s, t) : t \in TagIds} : v = <<x[2], s[2]>> /\ x[1][3] = S}
  BY <1>2
<1>a. X = LeftUses(v, S, s) /\ Y = RightUses(v, S, s)
  <2> HIDE DEF X, Y
  <2> QED  BY <1>3 DEF LeftUses, RightUses
<1>4. IsFiniteSet(U) /\ IsFiniteSet(V) /\ IsFiniteSet(W) /\ V \in SUBSET U /\ W \in SUBSET U /\ V \cap W = {}
  <2>1. IsFiniteSet(Ups(v, S)) /\ U \in SUBSET Ups(v, S)
    BY UpFacts DEF UpsFrom
  <2>2. V \in SUBSET U /\ W \in SUBSET U /\ V \cap W = {}
    OBVIOUS
  <2> HIDE DEF U, V, W
  <2> QED  BY <2>1, <2>2, FS_Subset
<1>5. \A u \in U : N[u] = NewTerm(v, u) /\ N[u] \in Nat
  <2>1. \A u \in Ups(v, S) : /\ UpTerm(v, u) \in Nat /\ NewTerm(v, u) \in Nat
                             /\ UseOf(v, u) \in Productive(u[2], u[1][1][1]) => Ok(u[2], u[1][1])
    BY NewTermNat
  <2>2. \A u \in U : N[u] = NewTerm(v, u) /\ u \in Ups(v, S)
    BY DEF NewTerms, UpsFrom
  <2> QED  BY <2>1, <2>2
<1>6. /\ {<<x[1], s>> : x \in X} = V
      /\ X = {UseOf(v, u) : u \in {<<x[1], s>> : x \in X}}
      /\ \A x, y \in X : <<x[1], s>> = <<y[1], s>> => x = y
      /\ \A x \in X : NewTerm(v, <<x[1], s>>) =
           Model.bin[x[1]] * AfterUnary(s)[<<s, x[1][1][1]>>][x[1][1][2]] * RightScore(s, x)
  <2> DEFINE Z == LeftUses(v, S, s)
  <2> HIDE DEF Z, X, Y
  <2>1. /\ {<<x[1], s>> : x \in Z} = V
        /\ Z = {UseOf(v, u) : u \in {<<x[1], s>> : x \in Z}}
        /\ \A x, y \in Z : <<x[1], s>> = <<y[1], s>> => x = y
        /\ \A x \in Z : NewTerm(v, <<x[1], s>>) =
             Model.bin[x[1]] * AfterUnary(s)[<<s, x[1][1][1]>>][x[1][1][2]] * RightScore(s, x)
    BY LeftImage DEF Z
  <2>2. Z = X
    BY <1>a DEF Z
  <2> QED  BY <2>1, <2>2
<1>7. /\ {<<x[1], s>> : x \in Y} = W
      /\ Y = {UseOf(v, u) : u \in {<<x[1], s>> : x \in Y}}
      /\ \A x, y \in Y : <<x[1], s>> = <<y[1], s>> => x = y
      /\ \A x \in Y : NewTerm(v, <<x[1], s>>) =
           Model.bin[x[1]] * AfterUnary(s)[<<s, x[1][1][1]>>][x[1][1][2]] * LeftScore(s, x)
  <2> DEFINE Z == RightUses(v, S, s)
  <2> HIDE DEF Z, X, Y
  <2>1. /\ {<<x[1], s>> : x \in Z} = W
        /\ Z = {UseOf(v, u) : u \in {<<x[1], s>> : x \in Z}}
        /\ \A x, y \in Z : <<x[1], s>> = <<y[1], s>> => x = y
        /\ \A x \in Z : NewTerm(v, <<x[1], s>>) =
             Model.bin[x[1]] * AfterUnary(s)[<<s, x[1][1][1]>>][x[1][1][2]] * LeftScore(s, x)
    BY RightImage DEF Z
  <2>2. Z = Y
    BY <1>a DEF Z
  <2> QED  BY <2>1, <2>2
<1>8. Total(f, X) = Total(N, V)
  <2>1. /\ \A x \in X : hx[x] = <<x[1], s>> /\ hx[x] \in V /\ f[x] = NewTerm(v, <<x[1], s>>)
        /\ {hx[x] : x \in X} = V
    <3>1. \A x \in X : hx[x] = <<x[1], s>>
      OBVIOUS
    <3>2. \A x \in X : f[x] = Model.bin[x[1]] * AfterUnary(s)[<<s, x[1][1][1]>>][x[1][1][2]] * RightScore(s, x)
      OBVIOUS
    <3> HIDE DEF X, Y, hx, hy, f, g, V, W
    <3>3. \A x \in X : f[x] = NewTerm(v, <<x[1], s>>)
      BY <1>6, <3>2
    <3>4. {hx[x] : x \in X} = {<<x[1], s>> : x \in X}
      BY <3>1
    <3>5. {hx[x] : x \in X} = V
      BY <1>6, <3>4
    <3> QED  BY <3>1, <3>3, <3>5
  <2>2. IsFiniteSet(X)
    <3> HIDE DEF X, V
    <3>1. X = {UseOf(v, u) : u \in V}
      BY <1>6
    <3> QED  BY <1>4, <3>1, UsesFinite
  <2>3. \A x \in X : N[hx[x]] \in Nat /\ f[x] = N[hx[x]]
    <3> HIDE DEF X, Y, N, f, g, hx, hy, U, V, W
    <3>1. \A x \in X : hx[x] \in U /\ hx[x] = <<x[1], s>> /\ f[x] = NewTerm(v, <<x[1], s>>)
      BY <1>4, <2>1
    <3> QED  BY <1>5, <3>1
  <2>4. \A x, y \in X : hx[x] = hx[y] => x = y
    <3>1. \A x, y \in X : <<x[1], s>> = <<y[1], s>> => x = y
      BY <1>6
    <3>2. \A x \in X : hx[x] = <<x[1], s>>
      BY <2>1
    <3> HIDE DEF X, hx
    <3> QED  BY <3>1, <3>2
  <2> HIDE DEF X, N, f, hx, V, U
  <2>5. Total(f, X) = Total(N, {hx[x] : x \in X})
    BY ONLY <2>2, <2>3, <2>4, NamedSum
  <2> QED  BY <2>1, <2>5
<1>9. Total(g, Y) = Total(N, W)
  <2>1. /\ \A x \in Y : hy[x] = <<x[1], s>> /\ hy[x] \in W /\ g[x] = NewTerm(v, <<x[1], s>>)
        /\ {hy[x] : x \in Y} = W
    <3>1. \A x \in Y : hy[x] = <<x[1], s>>
      OBVIOUS
    <3>2. \A x \in Y : g[x] = Model.bin[x[1]] * AfterUnary(s)[<<s, x[1][1][1]>>][x[1][1][2]] * LeftScore(s, x)
      OBVIOUS
    <3> HIDE DEF X, Y, hx, hy, f, g, V, W
    <3>3. \A x \in Y : g[x] = NewTerm(v, <<x[1], s>>)
      BY <1>7, <3>2
    <3>4. {hy[x] : x \in Y} = {<<x[1], s>> : x \in Y}
      BY <3>1
    <3>5. {hy[x] : x \in Y} = W
      BY <1>7, <3>4
    <3> QED  BY <3>1, <3>3, <3>5
  <2>2. IsFiniteSet(Y)
    <3> HIDE DEF Y, W
    <3>1. Y = {UseOf(v, u) : u \in W}
      BY <1>7
    <3> QED  BY <1>4, <3>1, UsesFinite
  <2>3. \A x \in Y : N[hy[x]] \in Nat /\ g[x] = N[hy[x]]
    <3> HIDE DEF X, Y, N, f, g, hx, hy, U, V, W
    <3>1. \A x \in Y : hy[x] \in U /\ hy[x] = <<x[1], s>> /\ g[x] = NewTerm(v, <<x[1], s>>)
      BY <1>4, <2>1
    <3> QED  BY <1>5, <3>1
  <2>4. \A x, y \in Y : hy[x] = hy[y] => x = y
    <3>1. \A x, y \in Y : <<x[1], s>> = <<y[1], s>> => x = y
      BY <1>7
    <3>2. \A x \in Y : hy[x] = <<x[1], s>>
      BY <2>1
    <3> HIDE DEF Y, hy
    <3> QED  BY <3>1, <3>2
  <2> HIDE DEF Y, N, g, hy, W, U
  <2>5. Total(g, Y) = Total(N, {hy[x] : x \in Y})
    BY ONLY <2>2, <2>3, <2>4, NamedSum
  <2> QED  BY <2>1, <2>5
<1>10. \A u \in U \ (V \cup W) : N[u] = 0
  <2> SUFFICES ASSUME NEW u \in U \ (V \cup W) PROVE N[u] = 0
    OBVIOUS
  <2>1. u[2] = s /\ UseOf(v, u) \notin Productive(s, u[1][1][1])
    BY DEF UpsFrom
  <2>2. NewTerm(v, u) = 0
    BY <2>1 DEF NewTerm
  <2> QED  BY <1>5, <2>2
<1> HIDE DEF U, V, W, N, f, g, X, Y, c
<1>11. \A u \in U : N[u] \in Nat
  BY <1>5
<1>12. Total(N, V \cup W) = Total(N, V) + Total(N, W)
  BY ONLY <1>4, <1>11, TotalUnion
<1>13. V \cup W \in SUBSET U
  BY <1>4
<1>14. Total(N, U) = Total(N, V \cup W)
  BY ONLY <1>4, <1>10, <1>11, <1>13, TotalOfZeros
<1>15. Total(N, U) \in Nat
  BY <1>4, <1>11, TotalSplit
<1> QED  BY <1>1, <1>4, <1>8, <1>9, <1>12, <1>14, <1>15 DEF U, N, c

-----------------------------------------------------------------------------
(* What the pass hands down from a span stays as it is afterwards, and is  *)
(* what the unary rules over it have left.                                 *)
LEMMA UpTermStep ==
  ASSUME Own, OutsideSpan, NEW v \in Spans, NEW S \in Symbols(level), NEW u \in Ups(v, S)
  PROVE  /\ DownDone(u[2]) => UpTerm(v, u)' = UpTerm(v, u)
         /\ u[2] = Span => UpTerm(v, u)' = NewTerm(v, u)
<1> DEFINE w == u[2]
           P == u[1][1]
           side == In(Beside(v, u), BesideSym(v, u))
<1>1. /\ Model' = Model /\ \A s, t : Productive(s, t)' = Productive(s, t)
      /\ \A s, Q : In(s, Q)' = In(s, Q)
  <2>1. UNCHANGED <<sentence, models, level, allowedTag, allowedSub, inside, extent>>
    BY DEF OutsideSpan, input, control, flags
  <2> QED  BY <2>1, PassKept
<1>2. UpTerm(v, u)' = IF UseOf(v, u) \in Productive(w, P[1]) THEN Model.bin[u[1]] * Out(w, P)' * side ELSE 0
  <2>1. UpTerm(v, u)' = IF UseOf(v, u) \in Productive(w, P[1])' THEN Model'.bin[u[1]] * Out(w, P)' * side' ELSE 0
    BY DEF UpTerm
  <2>2. side' = side
    BY <1>1
  <2> HIDE DEF side
  <2> QED  BY <1>1, <2>1, <2>2
<1>3. CASE UseOf(v, u) \notin Productive(w, P[1])
  BY <1>2, <1>3 DEF UpTerm, NewTerm
<1>4. CASE UseOf(v, u) \in Productive(w, P[1])
  <2>1. /\ Scoring /\ Span \in Spans /\ Width(Span) = pos.len /\ ~DownDone(Span)
        /\ \A s \in Spans : DownDone(s) => Width(s) >= Width(Span)
    BY OutsideLoop
  <2>2. w \in Spans /\ u[1] \in Bins
    BY <2>1, UpFacts
  <2>3. P \in Symbols(level) /\ Ok(w, P)
    <3>1. P \in Symbols(level)
      BY <2>1, <2>2, RuleFacts
    <3>2. \A x \in Ups(v, S) : UseOf(v, x) \in Productive(x[2], x[1][1][1]) => Ok(x[2], x[1][1])
      BY <2>1, NewTermNat
    <3> QED  BY <1>4, <3>1, <3>2
  <2>4. Out(w, P)' = IF w = Span THEN Out(w, P) + OutsideUnaryDelta(Span, P)
                     ELSE IF Span[1] <= w[1] /\ w[2] <= Span[2]
                            THEN Out(w, P) + OutsideBinaryDelta(Span, AfterUnary(Span), <<w, P[1]>>, P[2])
                     ELSE Out(w, P)
    BY <2>2, <2>3, OutsideOut
  <2>5. ASSUME DownDone(w) PROVE UpTerm(v, u)' = UpTerm(v, u)
    <3>1. w # Span /\ ~(Span[1] <= w[1] /\ w[2] <= Span[2])
      <4>1. w = <<w[1], w[2]>> /\ Span = <<Span[1], Span[2]>> /\ w[1] \in Int /\ w[2] \in Int
            /\ Span[1] \in Int /\ Span[2] \in Int
        BY <2>1, <2>2, Shapes
      <4>2. Width(w) >= Width(Span) /\ w # Span
        BY <2>1, <2>2, <2>5
      <4> HIDE DEF w
      <4>3. w[2] - w[1] >= Span[2] - Span[1]
        BY <4>2 DEF Width
      <4>4. (Span[1] <= w[1] /\ w[2] <= Span[2]) => w[1] = Span[1] /\ w[2] = Span[2]
        BY <4>1, <4>3
      <4> QED  BY <4>1, <4>2, <4>4
    <3>2. Out(w, P)' = Out(w, P)
      BY <2>4, <3>1
    <3> QED  BY <1>2, <1>4, <3>2 DEF UpTerm
  <2>6. ASSUME w = Span PROVE UpTerm(v, u)' = NewTerm(v, u)
    <3>1. Out(w, P)' = Out(w, P) + OutsideUnaryDelta(Span, P)
      BY <2>4, <2>6
    <3>2. level \in AllLevels /\ P = <<P[1], P[2]>> /\ <<w, P[1]>> \in Cells /\ P[2] \in SubIds(<<w, P[1]>>, level)
      BY <2>1, <2>2, <2>3, SymbolShapes, ScoringShapes
    <3>3. allowedTag[<<w, P[1]>>] /\ P[2] \in DOMAIN outside[<<w, P[1]>>]
      <4>1. allowedTag[<<w, P[1]>>]
        BY <2>3 DEF Ok, Usable
      <4> QED  BY <2>1, <3>2, <4>1, ScoringShapes
    <3>4. AfterUnary(w)[<<w, P[1]>>][P[2]] = Out(w, P) + OutsideUnaryDelta(w, P)
      <4> DEFINE c == <<w, P[1]>>
      <4> HIDE DEF w, P
      <4>1. c \in Cells /\ c[1] = w /\ c[2] = P[1] /\ allowedTag[c] /\ P[2] \in DOMAIN outside[c]
        BY <3>2, <3>3
      <4>2. AfterUnary(w)[c] = [i \in DOMAIN outside[c] |-> outside[c][i] + OutsideUnaryDelta(w, <<c[2], i>>)]
        BY <4>1 DEF AfterUnary
      <4>3. AfterUnary(w)[c][P[2]] = outside[c][P[2]] + OutsideUnaryDelta(w, <<P[1], P[2]>>)
        BY <4>1, <4>2
      <4> QED  BY <3>2, <4>3 DEF Out
    <3>5. Out(w, P)' = AfterUnary(w)[<<w, P[1]>>][P[2]]
      BY <2>6, <3>1, <3>4
    <3> QED  BY <1>2, <1>4, <3>5 DEF NewTerm
  <2> QED  BY <2>5, <2>6
<1> QED  BY <1>3, <1>4

(* So what a symbol has from above grows by what its span has handed down. *)
LEMMA BeneathStep ==
  ASSUME Own, OutsideSpan, NEW v \in Spans, NEW S \in Symbols(level)
  PROVE  /\ Beneath(v, S)' = Beneath(v, S) + Total(NewTerms(v, S, Span), UpsFrom(v, S, Span))
         /\ Beneath(v, S) \in Nat /\ Total(NewTerms(v, S, Span), UpsFrom(v, S, Span)) \in Nat
<1> DEFINE D == DoneUps(v, S)
           F == UpsFrom(v, S, Span)
           f == UpTerms(v, S)
           N == NewTerms(v, S, Span)
           g == [u \in Ups(v, S) |-> UpTerm(v, u)']
<1>1. /\ Scoring /\ Span \in Spans /\ ~DownDone(Span)
      /\ \A w \in Spans : DownDone(w)' <=> DownDone(w) \/ w = Span
  BY OutsideLoop
<1>2. Ups(v, S)' = Ups(v, S)
  <2>1. UNCHANGED <<sentence, models, level, allowedTag, allowedSub, inside, extent>>
    BY DEF OutsideSpan, input, control, flags
  <2> QED  BY <2>1, PassKept
<1>3. IsFiniteSet(Ups(v, S)) /\ \A u \in Ups(v, S) : u[2] \in Spans
  BY <1>1, UpFacts
<1>4. D \in SUBSET Ups(v, S) /\ F \in SUBSET Ups(v, S) /\ D \cap F = {} /\ D \cup F \in SUBSET Ups(v, S)
  BY <1>1 DEF DoneUps, UpsFrom
<1>5. DoneUps(v, S)' = D \cup F
  <2>1. DoneUps(v, S)' = {u \in Ups(v, S)' : DownDone(u[2])'}
    BY DEF DoneUps
  <2>2. DoneUps(v, S)' = {u \in Ups(v, S) : DownDone(u[2]) \/ u[2] = Span}
    BY <1>1, <1>2, <1>3, <2>1
  <2> QED  BY <2>2 DEF DoneUps, UpsFrom
<1>6. UpTerms(v, S)' = g
  BY <1>2 DEF UpTerms
<1>7. \A u \in Ups(v, S) : /\ f[u] = UpTerm(v, u) /\ f[u] \in Nat /\ NewTerm(v, u) \in Nat
  BY <1>1, NewTermNat DEF UpTerms
<1>8. \A u \in D : g[u] = f[u] /\ g[u] \in Nat
  <2> SUFFICES ASSUME NEW u \in D PROVE g[u] = f[u] /\ g[u] \in Nat
    OBVIOUS
  <2>1. u \in Ups(v, S) /\ DownDone(u[2])
    BY DEF DoneUps
  <2>2. UpTerm(v, u)' = UpTerm(v, u)
    BY <2>1, UpTermStep
  <2> QED  BY <1>7, <2>1, <2>2
<1>9. \A u \in F : g[u] = N[u] /\ g[u] \in Nat
  <2> SUFFICES ASSUME NEW u \in F PROVE g[u] = N[u] /\ g[u] \in Nat
    OBVIOUS
  <2>1. u \in Ups(v, S) /\ u[2] = Span
    BY DEF UpsFrom
  <2>2. UpTerm(v, u)' = NewTerm(v, u)
    BY <2>1, UpTermStep
  <2>3. N[u] = NewTerm(v, u)
    BY DEF NewTerms
  <2> QED  BY <1>7, <2>1, <2>2, <2>3
<1>10. Start1(v, S)' = Start1(v, S) /\ Start1(v, S) \in Nat
  BY DEF Start1
<1>11. Beneath(v, S)' = Start1(v, S) + Total(g, D \cup F)
  <2>1. Beneath(v, S)' = Start1(v, S)' + Total(UpTerms(v, S)', DoneUps(v, S)')
    BY DEF Beneath, Total
  <2> QED  BY <1>5, <1>6, <1>10, <2>1
<1> HIDE DEF D, F, f, N, g
<1>12. IsFiniteSet(D) /\ IsFiniteSet(F) /\ IsFiniteSet(D \cup F)
  BY <1>3, <1>4, FS_Subset
<1>13. \A u \in D \cup F : g[u] \in Nat
  BY <1>8, <1>9
<1>14. D \in SUBSET (D \cup F) /\ F \in SUBSET (D \cup F)
  OBVIOUS
<1>15. Total(g, D \cup F) = Total(g, D) + Total(g, F)
  BY ONLY <1>4, <1>12, <1>13, <1>14, TotalUnion
<1>16. Total(g, D) = Total(f, D)
  BY ONLY <1>8, <1>12, TotalSame
<1>17. Total(g, F) = Total(N, F)
  BY ONLY <1>9, <1>12, TotalSame
<1>18. Total(f, D) \in Nat /\ Total(N, F) \in Nat
  <2>1. Total(g, D) \in Nat /\ Total(g, F) \in Nat
    BY ONLY <1>12, <1>13, <1>14, TotalSplit
  <2> QED  BY <1>16, <1>17, <2>1
<1>19. Beneath(v, S) = Start1(v, S) + Total(f, D)
  BY DEF Beneath, f, D
<1>20. Beneath(v, S)' = Beneath(v, S) + Total(N, F) /\ Beneath(v, S) \in Nat
  BY <1>10, <1>11, <1>15, <1>16, <1>17, <1>18, <1>19
<1> QED  BY <1>18, <1>20 DEF N, F

-----------------------------------------------------------------------------
(* Longer spans alone have a span below them.                              *)
LEMMA UpsWithin ==
  ASSUME Scoring, NEW s \in Spans, NEW v \in Spans, NEW S \in Symbols(level)
  PROVE  /\ UpsFrom(v, S, s) # {} => v # s /\ s[1] <= v[1] /\ v[2] <= s[2]
         /\ UpsFrom(v, S, s) = {} => Total(NewTerms(v, S, s), UpsFrom(v, S, s)) = 0
<1>1. ASSUME NEW u \in UpsFrom(v, S, s) PROVE v # s /\ s[1] <= v[1] /\ v[2] <= s[2]
  <2>1. u[2] = s /\ (LeftUp(v, S, u) \/ RightUp(v, S, u))
    BY DEF UpsFrom, Ups
  <2>2. v[1] \in Int /\ v[2] \in Int /\ s[1] \in Int /\ s[2] \in Int
    BY Shapes
  <2>3. (s[1] = v[1] /\ v[2] < s[2]) \/ (s[2] = v[2] /\ s[1] < v[1])
    BY <2>1 DEF LeftUp, RightUp
  <2> QED  BY <2>2, <2>3
<1>2. Total(NewTerms(v, S, s), {}) = 0
  <2> DEFINE f == NewTerms(v, S, s)
  <2> HIDE DEF f
  <2>1. IsFiniteSet({}) /\ \A x \in {} : f[x] \in Nat
    BY FS_EmptySet
  <2>2. Total(f, {}) = 0
    BY ONLY <2>1, TotalSplit
  <2> QED  BY <2>2 DEF f
<1> QED  BY <1>1, <1>2

(* Every step of the outside pass keeps the scores what the rules hand     *)
(* down: those over its span are complete, those below it get their share, *)
(* and the others stay.                                                    *)
LEMMA OutsideSpanSummed == Own /\ OutsideSummed /\ OutsideSpan => OutsideSummed'
<1> SUFFICES ASSUME Own, OutsideSummed, OutsideSpan PROVE OutsideSummed'
  OBVIOUS
<1>1. /\ Scoring /\ Span \in Spans /\ ~DownDone(Span) /\ pc = "outside"
      /\ \A w \in Spans : DownDone(w)' <=> DownDone(w) \/ w = Span
      /\ \A w \in Spans : DownDone(w) => Width(w) >= Width(Span)
  BY OutsideLoop DEF OutsideSpan
<1>2. /\ Model' = Model /\ Symbols(level)' = Symbols(level)
      /\ \A w, Q : Ok(w, Q)' <=> Ok(w, Q)
      /\ \A w, Q : RaisedFrom(w, Q)' = RaisedFrom(w, Q)
  <2>1. UNCHANGED <<sentence, models, level, allowedTag, allowedSub, inside, extent>>
    BY DEF OutsideSpan, input, control, flags
  <2> QED  BY <2>1, PassKept
<1>3. \A w \in Spans : \A Q \in Symbols(level) :
        Ok(w, Q) => Out(w, Q) = Beneath(w, Q) + (IF DownDone(w) THEN AboveSum(w, Q) ELSE 0)
  BY <1>1 DEF OutsideSummed
<1>4. SUFFICES ASSUME NEW v \in Spans, NEW S \in Symbols(level), Ok(v, S)
               PROVE  Out(v, S)' = Beneath(v, S)' + (IF DownDone(v)' THEN AboveSum(v, S)' ELSE 0)
  <2>1. OutsideSummed' <=>
          (pc' \in {"outside", "prune"} =>
             \A w \in Spans : \A Q \in Symbols(level)' :
               Ok(w, Q)' => Out(w, Q)' = Beneath(w, Q)' + (IF DownDone(w)' THEN AboveSum(w, Q)' ELSE 0))
    BY DEF OutsideSummed
  <2> QED  BY <1>2, <2>1
<1> DEFINE new(Q) == Total(NewTerms(v, Q, Span), UpsFrom(v, Q, Span))
           within == v # Span /\ Span[1] <= v[1] /\ v[2] <= Span[2]
<1>5. \A Q \in Symbols(level) : Beneath(v, Q)' = Beneath(v, Q) + new(Q) /\ Beneath(v, Q) \in Nat /\ new(Q) \in Nat
  BY BeneathStep
<1>6. ~within => \A Q \in Symbols(level) : new(Q) = 0
  <2>1. \A Q \in Symbols(level) :
          /\ UpsFrom(v, Q, Span) # {} => v # Span /\ Span[1] <= v[1] /\ v[2] <= Span[2]
          /\ UpsFrom(v, Q, Span) = {} => Total(NewTerms(v, Q, Span), UpsFrom(v, Q, Span)) = 0
    BY <1>1, UpsWithin
  <2> QED  BY <2>1
<1>7. new(S) = OutsideBinaryDelta(Span, AfterUnary(Span), <<v, S[1]>>, S[2])
  BY <1>1, <1>4, BinaryDelta
<1>8. Out(v, S)' = IF v = Span THEN Out(v, S) + OutsideUnaryDelta(Span, S)
                   ELSE IF within THEN Out(v, S) + new(S) ELSE Out(v, S)
  <2>1. Out(v, S)' = IF v = Span THEN Out(v, S) + OutsideUnaryDelta(Span, S)
                      ELSE IF Span[1] <= v[1] /\ v[2] <= Span[2]
                             THEN Out(v, S) + OutsideBinaryDelta(Span, AfterUnary(Span), <<v, S[1]>>, S[2])
                      ELSE Out(v, S)
    BY <1>4, OutsideOut
  <2> HIDE DEF new
  <2> QED  BY <1>7, <2>1
<1>9. AboveSum(v, S)' = Total([r \in RaisedFrom(v, S) |-> Model.una[r] * Beneath(v, r[1])'], RaisedFrom(v, S))
  <2>1. AboveSum(v, S)' = Total([r \in RaisedFrom(v, S)' |-> Model'.una[r] * Beneath(v, r[1])'], RaisedFrom(v, S)')
    BY DEF AboveSum, AboveTerms, Total
  <2> QED  BY <1>2, <2>1
<1>10. \A r \in RaisedFrom(v, S) : r[1] \in Symbols(level) /\ Ok(v, r[1])
  BY <1>1, UnaryShapes DEF RaisedFrom, Ok
<1> HIDE DEF new
<1>11. CASE v = Span
  <2>1. \A Q \in Symbols(level) : Beneath(v, Q)' = Beneath(v, Q)
    BY <1>5, <1>6, <1>11
  <2>2. \A Q \in Symbols(level) : Ok(v, Q) => Out(v, Q) = Beneath(v, Q)
    BY <1>1, <1>3, <1>5, <1>11
  <2>3. OutsideUnaryDelta(v, S) = Total([r \in RaisedFrom(v, S) |-> Model.una[r] * Out(v, r[1])], RaisedFrom(v, S))
    <3> DEFINE h == [r \in RaisedFrom(v, S) |-> Model.una[r] * Out(v, r[1])]
    <3>1. OutsideUnaryDelta(v, S) = SumFunction(h)
      BY DEF OutsideUnaryDelta, SumOver, RaisedFrom, Out
    <3>2. DOMAIN h = RaisedFrom(v, S)
      OBVIOUS
    <3> HIDE DEF h
    <3>3. SumFunction(h) = Total(h, DOMAIN h)
      BY TotalOfSum
    <3> QED  BY <3>1, <3>2, <3>3 DEF h
  <2>4. [r \in RaisedFrom(v, S) |-> Model.una[r] * Out(v, r[1])]
          = [r \in RaisedFrom(v, S) |-> Model.una[r] * Beneath(v, r[1])']
    BY <1>10, <2>1, <2>2
  <2>5. OutsideUnaryDelta(v, S) = AboveSum(v, S)'
    BY <1>9, <2>3, <2>4
  <2>6. DownDone(v)'
    BY <1>1, <1>11
  <2>7. Out(v, S) = Beneath(v, S)' /\ Out(v, S)' = Out(v, S) + AboveSum(v, S)'
    BY <1>4, <1>8, <1>11, <2>1, <2>2, <2>5
  <2> QED  BY <2>6, <2>7
<1>12. CASE within
  <2>1. ~DownDone(v)
    <3>1. v = <<v[1], v[2]>> /\ Span = <<Span[1], Span[2]>> /\ v[1] \in Int /\ v[2] \in Int
          /\ Span[1] \in Int /\ Span[2] \in Int
      BY <1>1, Shapes
    <3> DEFINE s == Span
    <3>2. v[1] # s[1] \/ v[2] # s[2]
      BY <1>12, <3>1
    <3>3. s[1] <= v[1] /\ v[2] <= s[2]
      BY <1>12
    <3> HIDE DEF s
    <3>4. v[2] - v[1] < s[2] - s[1]
      BY <3>1, <3>2, <3>3 DEF s
    <3>5. ~(Width(v) >= Width(s))
      BY <3>1, <3>4 DEF Width, s
    <3> QED  BY <1>1, <3>5 DEF s
  <2>2. ~DownDone(v)'
    BY <1>1, <1>12, <2>1
  <2>3. Out(v, S) = Beneath(v, S)
    BY <1>3, <1>4, <1>5, <2>1
  <2> QED  BY <1>5, <1>8, <1>12, <2>2, <2>3
<1>13. CASE v # Span /\ ~within
  <2>1. \A Q \in Symbols(level) : Beneath(v, Q)' = Beneath(v, Q)
    BY <1>5, <1>6, <1>13
  <2>2. DownDone(v)' <=> DownDone(v)
    BY <1>1, <1>13
  <2>3. AboveSum(v, S)' = AboveSum(v, S)
    <3>1. [r \in RaisedFrom(v, S) |-> Model.una[r] * Beneath(v, r[1])']
            = [r \in RaisedFrom(v, S) |-> Model.una[r] * Beneath(v, r[1])]
      BY <1>10, <2>1
    <3> QED  BY <1>9, <3>1 DEF AboveSum, AboveTerms
  <2>4. Out(v, S)' = Out(v, S)
    BY <1>8, <1>13
  <2>5. Beneath(v, S)' = Beneath(v, S)
    BY <1>4, <2>1
  <2> QED  BY <1>3, <1>4, <2>2, <2>3, <2>4, <2>5
<1> QED  BY <1>11, <1>12, <1>13

-----------------------------------------------------------------------------
(* A step that changes nothing changes none of the sums.                   *)
LEMMA StutterOutside == OutsideSummed /\ UNCHANGED vars => OutsideSummed'
<1> SUFFICES ASSUME OutsideSummed, UNCHANGED vars PROVE OutsideSummed'
  OBVIOUS
<1>1. pc' = pc /\ pos' = pos /\ outside' = outside
  BY DEF vars
<1>2. /\ Model' = Model /\ Symbols(level)' = Symbols(level)
      /\ \A s, t : Productive(s, t)' = Productive(s, t)
      /\ \A s, P : In(s, P)' = In(s, P) /\ (Ok(s, P)' <=> Ok(s, P))
      /\ \A v, S : Ups(v, S)' = Ups(v, S) /\ RaisedFrom(v, S)' = RaisedFrom(v, S)
  <2>1. UNCHANGED <<sentence, models, level, allowedTag, allowedSub, inside, extent>>
    BY DEF vars, input, control, flags
  <2> QED  BY <2>1, PassKept
<1>3. /\ \A v, S : Out(v, S)' = Out(v, S)
      /\ \A w : DownDone(w)' <=> DownDone(w)
  BY <1>1 DEF Out, DownDone, Width
<1>4. \A v, u : UpTerm(v, u)' = UpTerm(v, u)
  <2> TAKE v, u
  <2> DEFINE side == In(Beside(v, u), BesideSym(v, u))
  <2>1. UpTerm(v, u)' = IF UseOf(v, u) \in Productive(u[2], u[1][1][1])'
                          THEN Model'.bin[u[1]] * Out(u[2], u[1][1])' * side' ELSE 0
    BY DEF UpTerm
  <2>2. side' = side
    BY <1>2
  <2>3. UpTerm(v, u)' = IF UseOf(v, u) \in Productive(u[2], u[1][1][1])
                          THEN Model.bin[u[1]] * Out(u[2], u[1][1]) * side ELSE 0
    <3> HIDE DEF side
    <3> QED  BY <1>2, <1>3, <2>1, <2>2
  <2> QED  BY <2>3 DEF UpTerm
<1>5. \A v, S : Beneath(v, S)' = Beneath(v, S)
  <2> TAKE v, S
  <2>1. UpTerms(v, S)' = UpTerms(v, S) /\ DoneUps(v, S)' = DoneUps(v, S)
    BY <1>2, <1>3, <1>4 DEF UpTerms, DoneUps
  <2>2. Beneath(v, S)' = Start1(v, S)' + Total(UpTerms(v, S)', DoneUps(v, S)') /\ Start1(v, S)' = Start1(v, S)
    BY DEF Beneath, Total, Start1
  <2> QED  BY <2>1, <2>2 DEF Beneath
<1>6. \A v, S : AboveSum(v, S)' = AboveSum(v, S)
  <2> TAKE v, S
  <2>1. AboveTerms(v, S)' = AboveTerms(v, S)
    BY <1>2, <1>5 DEF AboveTerms
  <2>2. AboveSum(v, S)' = Total(AboveTerms(v, S)', RaisedFrom(v, S)')
    BY DEF AboveSum, Total
  <2> QED  BY <1>2, <2>1, <2>2 DEF AboveSum
<1>7. OutsideSummed' <=>
        (pc' \in {"outside", "prune"} =>
           \A w \in Spans : \A Q \in Symbols(level)' :
             Ok(w, Q)' => Out(w, Q)' = Beneath(w, Q)' + (IF DownDone(w)' THEN AboveSum(w, Q)' ELSE 0))
  BY DEF OutsideSummed
<1> QED  BY <1>1, <1>2, <1>3, <1>5, <1>6, <1>7 DEF OutsideSummed

(* Every step keeps the outside scores what has been handed down.          *)
LEMMA StepOutside == Own /\ Summed /\ OutsideFresh /\ OutsideSummed /\ [Next]_vars => OutsideSummed'
<1> SUFFICES ASSUME Own, Summed, OutsideFresh, OutsideSummed, [Next]_vars PROVE OutsideSummed'
  OBVIOUS
<1>1. CASE \/ Load \/ ParseEmpty \/ StartAttempt \/ InitializeCharts \/ SetTerminals \/ InsideBinary
           \/ InsideUnary \/ RejectLevel
  <2>1. pc' \notin {"outside", "prune"}
    BY <1>1 DEF Load, ParseEmpty, StartAttempt, InitializeCharts, SetTerminals, InsideBinary, InsideUnary, RejectLevel
  <2> QED  BY <2>1 DEF OutsideSummed
<1>2. CASE PruneCharts \/ Retrieve \/ Return
  <2>1. pc' \notin {"outside", "prune"}
    BY <1>2 DEF PruneCharts, Retrieve, Return
  <2> QED  BY <2>1 DEF OutsideSummed
<1>3. CASE AcceptLevel
  BY <1>3, AcceptLevelOut
<1>4. CASE OutsideSpan
  BY <1>4, OutsideSpanSummed
<1>5. CASE UNCHANGED vars
  BY <1>5, StutterOutside
<1> QED  BY <1>1, <1>2, <1>3, <1>4, <1>5 DEF Next

(* After the last span nothing is left to do.                              *)
LEMMA AllBefore ==
  ASSUME Own, Summed, pc = "score"
  PROVE  \A s \in Spans : Before(s)
<1>1. pos.len > NumWords /\ pos.len \in Nat
  <2>1. pos \in [len : 0..(NumWords + 1), begin : 0..(NumWords - 1), tag : 0..NumTags]
    BY DEF Own, LoopOK
  <2> QED  BY <2>1, Shapes DEF Summed, LoopEnds
<1>2. \A s \in Spans : Width(s) \in Nat /\ Width(s) <= NumWords
  BY SpanParts
<1> QED  BY <1>1, <1>2, Shapes DEF Before

(* Every step leaves no phrase more than the admitted uses and its unary   *)
(* rules account for.                                                      *)
LEMMA StepAccounted == Own /\ Summed /\ Accounted /\ [Next]_vars => Accounted'
<1> SUFFICES ASSUME Own, Summed, Accounted, [Next]_vars PROVE Accounted'
  OBVIOUS
<1>1. CASE Load \/ ParseEmpty \/ StartAttempt \/ InitializeCharts \/ RejectLevel
  <2>1. pc' \notin InsidePass \cup {"outside", "prune"}
    BY <1>1 DEF Load, ParseEmpty, StartAttempt, InitializeCharts, RejectLevel, InsidePass
  <2> QED  BY <2>1 DEF Accounted
<1>2. CASE PruneCharts \/ Retrieve \/ Return
  <2>1. pc' \notin InsidePass \cup {"outside", "prune"}
    BY <1>2 DEF PruneCharts, Retrieve, Return, InsidePass
  <2> QED  BY <2>1 DEF Accounted
<1>3. CASE SetTerminals
  BY <1>3, SetTerminalsAccounted
<1>4. CASE InsideBinary
  BY <1>4, InsideBinaryAccounted
<1>5. CASE InsideUnary
  BY <1>5, InsideUnaryAccounted
<1>6. CASE AcceptLevel
  <2>1. pc = "score" /\ pc' = "outside" /\ UNCHANGED <<sentence, models, level, allowedTag, allowedSub, inside, extent>>
    BY <1>6 DEF AcceptLevel, input, control, flags
  <2>2. \A s \in Spans : Before(s)
    BY <2>1, AllBefore
  <2>3. pc \in InsidePass \cup {"outside", "prune"} /\ pc' \in InsidePass \cup {"outside", "prune"} /\ pc' \notin InsidePass
    BY <2>1 DEF InsidePass
  <2> QED  BY <2>1, <2>2, <2>3, AccountedStays
<1>7. CASE OutsideSpan
  <2>1. pc = "outside" /\ pc' \in {"outside", "prune"}
        /\ UNCHANGED <<sentence, models, level, allowedTag, allowedSub, inside, extent>>
    BY <1>7 DEF OutsideSpan, input, control, flags
  <2>2. pc \in InsidePass \cup {"outside", "prune"} /\ pc' \in InsidePass \cup {"outside", "prune"}
        /\ pc \notin InsidePass /\ pc' \notin InsidePass
    BY <2>1 DEF InsidePass
  <2> QED  BY <2>1, <2>2, AccountedStays
<1>8. CASE UNCHANGED vars
  <2>1. UNCHANGED <<pc, pos, sentence, models, level, allowedTag, allowedSub, inside, extent>>
    BY <1>8 DEF vars, input, control, flags
  <2>2. CASE pc \in InsidePass \cup {"outside", "prune"}
    <3>1. \A s \in Spans : (pc \in InsidePass /\ ~Before(s)) <=> (pc' \in InsidePass /\ ~Before(s)')
      BY <2>1 DEF Before, Width, InsidePass
    <3>2. pc' \in InsidePass \cup {"outside", "prune"}
      BY <2>1, <2>2
    <3> QED  BY <2>1, <2>2, <3>1, <3>2, AccountedStays
  <2>3. CASE pc \notin InsidePass \cup {"outside", "prune"}
    BY <2>1, <2>3 DEF Accounted, InsidePass
  <2> QED  BY <2>2, <2>3
<1> QED  BY <1>1, <1>2, <1>3, <1>4, <1>5, <1>6, <1>7, <1>8 DEF Next

-----------------------------------------------------------------------------
(* The invariant of the scores, inside and outside.                        *)
Scored == Summed /\ Accounted /\ OutsideFresh /\ OutsideSummed

(* There is nothing to show at first.                                     *)
LEMMA InitScored == Init => Scored
BY InitSummed DEF Init, Scored, Accounted, OutsideFresh, OutsideSummed, InsidePass

(* Every step keeps it.                                                    *)
LEMMA StepScored == Own /\ Scored /\ [Next]_vars => Scored'
BY StepSummed, StepAccounted, StepFresh, StepOutside DEF Scored

(* A constituent is pruned only if all its parses together weigh less than *)
(* the threshold, wherever the inside pass found all trees, and the tags   *)
(* of the words are judged by exactly their parses, unless such a tag      *)
(* derives another: for every grammar, sentence, threshold and pruning.    *)
THEOREM PosteriorsCover == Spec => []PosteriorCovers
<1>1. IInv /\ Scored => PosteriorCovers
  BY SummedCovers DEF IInv, Scored
<1>2. IInv /\ Scored /\ [Next]_vars => Scored'
  BY StepScored DEF IInv
<1> QED  BY <1>1, <1>2, InitInv, StepInv, InitScored, PTL DEF Spec

-----------------------------------------------------------------------------
(* The cells of a parse are symbols in use over their spans.               *)
LEMMA ParseCells ==
  ASSUME Scoring, NEW t \in Complete(Trees), NEW x \in t.cells
  PROVE  /\ x = <<x[1], x[2]>> /\ x[1] \in Spans /\ x[2] \in Symbols(level) /\ Ok(x[1], x[2])
         /\ t.score \in Nat /\ t \in AllTrees
<1>1. t \in AllTrees /\ t.cells = {<<y.span, y.sym>> : y \in Subtrees(AllowedGrammar, t)}
  BY ParseFacts DEF SubsProper, SubsCells
<1>2. PICK y \in Subtrees(AllowedGrammar, t) : x = <<y.span, y.sym>>
  BY <1>1
<1>3. y \in AllTrees
  BY <1>1, SubLaws
<1>4. y.span \in Spans /\ y \in Trees[y.span] /\ t.span \in Spans /\ t \in Trees[t.span]
  BY <1>1, <1>3, TreeSpan
<1>5. TreeFact(y.span, y) /\ TreeFact(t.span, t)
  BY <1>4, TreeFacts
<1> QED  BY <1>1, <1>2, <1>4, <1>5 DEF TreeFact

(* One parse weighs no more than all that have a cell of its own.          *)
LEMMA ParseBelow ==
  ASSUME Scoring, NEW t \in Complete(Trees), NEW x \in t.cells
  PROVE  t.score <= Score(Thru(TreesWith(x[1], x[2])))
<1> DEFINE T == Thru(TreesWith(x[1], x[2]))
<1>1. x = <<x[1], x[2]>> /\ x[1] \in Spans /\ t.score \in Nat /\ t \in AllTrees
  BY ParseCells
<1>2. t \in T
  <2>1. {u \in Complete(Trees) : <<x[1], x[2]>> \in u.cells} = T
    BY <1>1, ThroughCell
  <2> QED  BY <1>1, <2>1
<1>3. T \in SUBSET AllTrees
  BY ParseFacts
<1> HIDE DEF T
<1>4. {t} \in SUBSET AllTrees /\ T \ {t} \in SUBSET AllTrees /\ {t} \cap (T \ {t}) = {} /\ {t} \cup (T \ {t}) = T
  BY <1>1, <1>2, <1>3
<1>5. Score(T) = Score({t}) + Score(T \ {t}) /\ Score({t}) = t.score /\ Score(T \ {t}) \in Nat
  BY <1>1, <1>4, Scores
<1> QED  BY <1>1, <1>5 DEF T

(* What outweighs the threshold is kept.                                   *)
LEMMA Monotone ==
  \A i, k, d, m \in Nat : k <= i /\ k * d >= m => i * d >= m
<1> SUFFICES ASSUME NEW i \in Nat, NEW k \in Nat, NEW d \in Nat, NEW m \in Nat, k <= i, k * d >= m
             PROVE  i * d >= m
  OBVIOUS
<1>1. i * d >= k * d
  OBVIOUS
<1>2. i * d \in Nat /\ k * d \in Nat
  BY Naturals
<1> QED  BY <1>1, <1>2

(* So no cell of a parse that alone reaches the threshold is pruned.       *)
LEMMA DominantKept ==
  ASSUME Own, Scored, pc = "prune", AllFound(Trees), NEW t \in Complete(Trees),
         t.score * ThresholdDen >= threshold * SentenceScore, NEW x \in t.cells
  PROVE  PrunedTag[<<x[1], x[2][1]>>] /\ PrunedSub[<<x[1], x[2][1]>>][x[2][2]]
<1>1. Scoring /\ Accounted /\ OutsideSummed
  BY DEF Scoring, Passes, Scored
<1>2. Found
  BY <1>1, AllAreFound
<1> DEFINE v == x[1]
           S == x[2]
           c == <<v, S[1]>>
           i == S[2]
<1>3. v \in Spans /\ S \in Symbols(level) /\ Ok(v, S) /\ t.score \in Nat
  BY <1>1, ParseCells
<1>4. c \in Cells /\ allowedTag[c] /\ allowedSub[c][i] /\ i \in SubIds(c, level) /\ level \in AllLevels
  <2>1. level \in AllLevels
    BY <1>1, ScoringShapes
  <2> QED  BY <1>3, <2>1, SymbolShapes DEF Ok, Usable
<1>5. /\ i \in DOMAIN allowedSub[c] /\ inside[c][i] \in Nat /\ outside[c][i] \in Nat
      /\ inside[c][i] = In(v, S) /\ outside[c][i] = Out(v, S)
  <2>1. allowedSub[c] \in [SubIds(c, level) -> BOOLEAN] /\ inside[c][i] \in Nat /\ outside[c][i] \in Nat
    BY <1>1, <1>4, ScoringShapes
  <2> QED  BY <1>4, <2>1 DEF In, Out
<1>6. In(v, S) * Out(v, S) >= Score(Thru(TreesWith(v, S)))
  BY <1>1, <1>2, <1>3, <1>4, CellCovers
<1>7. t.score <= Score(Thru(TreesWith(v, S))) /\ Score(Thru(TreesWith(v, S))) \in Nat
  <2>1. Thru(TreesWith(v, S)) \in SUBSET AllTrees
    BY <1>1, ParseFacts
  <2> QED  BY <1>1, <2>1, ParseBelow, Scores
<1>8. threshold * SentenceScore \in Nat /\ ThresholdDen \in Nat
  <2>1. threshold \in 0..ThresholdDen /\ ThresholdDen \in Nat
    BY InputAssumption DEF Own, TypesOK
  <2>2. SentenceScore \in Nat
    <3>1. RootAllowed /\ RootCell \in Cells /\ level \in AllLevels /\ 0 \in SubIds(RootCell, level)
      BY <1>1, Shapes, SubShapes, ScoringShapes DEF Own, VectorsOK, Scoring
    <3>2. inside[RootCell][0] \in Nat
      BY <1>1, <3>1, ScoringShapes DEF RootAllowed
    <3> QED  BY <3>2 DEF SentenceScore
  <2> QED  BY <2>1, <2>2, Naturals
<1> HIDE DEF v, S, c, i
<1>9. Kept(c, i)
  <2>1. In(v, S) * Out(v, S) \in Nat
    BY <1>5, Naturals
  <2>2. t.score <= In(v, S) * Out(v, S)
    BY <1>3, <1>6, <1>7, <2>1
  <2>3. (In(v, S) * Out(v, S)) * ThresholdDen >= threshold * SentenceScore
    BY <1>3, <1>8, <2>1, <2>2, Monotone
  <2> QED  BY <1>5, <2>3 DEF Kept
<1>10. PrunedSub[c] = [s \in DOMAIN allowedSub[c] |-> allowedSub[c][s] /\ Kept(c, s)]
  BY <1>4 DEF PrunedSub
<1>11. PrunedSub[c][i] /\ i \in DOMAIN PrunedSub[c]
  BY <1>4, <1>5, <1>9, <1>10
<1>12. PrunedTag[c]
  BY <1>4, <1>11 DEF PrunedTag
<1> QED  BY <1>11, <1>12 DEF c, i, v, S

(* At every level, for every grammar, sentence and threshold: pruning      *)
(* keeps whole each parse that alone reaches the threshold, wherever the   *)
(* inside pass found all trees.                                            *)
THEOREM DominantParsesKept == Spec => PruneKeepsDominant
<1> DEFINE Keeps ==
             pc = "prune" /\ AllFound(TreesAt(level)) =>
               \A t \in Complete(TreesAt(level)) :
                 t.score * ThresholdDen >= threshold * SentenceScore =>
                   \A x \in t.cells : allowedTag'[<<x[1], x[2][1]>>]
                                      /\ allowedSub'[<<x[1], x[2][1]>>][x[2][2]]
<1>1. IInv /\ Scored /\ [Next]_vars => [Keeps]_vars
  <2> SUFFICES ASSUME IInv, Scored, Next PROVE Keeps
    OBVIOUS
  <2> SUFFICES ASSUME pc = "prune", AllFound(Trees), NEW t \in Complete(Trees),
                      t.score * ThresholdDen >= threshold * SentenceScore, NEW x \in t.cells
               PROVE  allowedTag'[<<x[1], x[2][1]>>] /\ allowedSub'[<<x[1], x[2][1]>>][x[2][2]]
    BY DEF Trees
  <2>1. allowedTag' = PrunedTag /\ allowedSub' = PrunedSub
    BY DEF Next, Load, ParseEmpty, StartAttempt, InitializeCharts, SetTerminals, InsideBinary, InsideUnary,
           RejectLevel, AcceptLevel, OutsideSpan, PruneCharts, Retrieve, Return
  <2>2. Own
    BY DEF IInv
  <2>3. PrunedTag[<<x[1], x[2][1]>>] /\ PrunedSub[<<x[1], x[2][1]>>][x[2][2]]
    BY <2>2, DominantKept
  <2> QED  BY <2>1, <2>3
<1>2. IInv /\ Scored /\ [Next]_vars => Scored'
  BY StepScored DEF IInv
<1> HIDE DEF Keeps
<1>3. Spec => [][Keeps]_vars
  BY <1>1, <1>2, InitInv, StepInv, InitScored, PTL DEF Spec
<1> QED  BY <1>3 DEF PruneKeepsDominant, Keeps

-----------------------------------------------------------------------------
(* The tags that retrieval finds over a span, with the table of shorter    *)
(* spans written out.                                                      *)
OnAt(c, S) == PrunedTag[c] /\ PrunedSub[c][S[2]]
LiveAt(c, S) == OnAt(c, S) /\ outside[c][S[2]] > 0
OnCell(s, S) == OnAt(<<s, S[1]>>, S)
LiveCell(s, S) == LiveAt(<<s, S[1]>>, S)
AllProductive(s) == UNION {Productive(s, t) : t \in TagIds}
Retrieved == FiniteTags(PrunedTag, PrunedSub)

WordTags(b) ==
  {t \in TagIds :
     /\ PrunedTag[<<<<b, b + 1>>, t>>]
     /\ \E i \in DOMAIN PrunedSub[<<<<b, b + 1>>, t>>] :
          LiveAt(<<<<b, b + 1>>, t>>, <<t, i>>) /\ Terminal(Model, b, <<t, i>>) > 0}

UsesFound(f, s, m) ==
  {u \in AllProductive(s) :
     /\ u[2] = m /\ LiveCell(s, u[1][1])
     /\ OnCell(<<s[1], m>>, u[1][2]) /\ u[1][2][1] \in f[<<s[1], m>>].all
     /\ OnCell(<<m, s[2]>>, u[1][3]) /\ u[1][3][1] \in f[<<m, s[2]>>].all}

PlainTags(f, s) ==
  IF s[2] = s[1] + 1 THEN WordTags(s[1])
  ELSE {u[1][1][1] : u \in UNION {UsesFound(f, s, m) : m \in (s[1] + 1)..(s[2] - 1)}}

RulesFound(s, plain) ==
  {r \in UnaryUses(s) :
     /\ LiveCell(s, r[1]) /\ OnCell(s, r[2])
     /\ r[1][1] \notin Lexicals /\ r[2][1] \in plain
     /\ Model.una[r] > 0 /\ inside[<<s, r[2][1]>>][r[2][2]] > 0}

RaisedTags(s, plain) ==
  IF s[2] = s[1] + 1 /\ Abstract(s[1]) /\ plain = {} THEN {} ELSE {r[1][1] : r \in RulesFound(s, plain)}

TagsOf(f, s) ==
  [up |-> RaisedTags(s, PlainTags(f, s)), all |-> PlainTags(f, s) \cup RaisedTags(s, PlainTags(f, s))]

TagTable(f) == [s \in Spans |-> TagsOf(f, s)]

(* This is what the model computes.                                        *)
LEMMA SameTags == Retrieved = CHOOSE f : f = TagTable(f)
BY DEF Retrieved, FiniteTags, TagTable, TagsOf, RaisedTags, RulesFound, PlainTags, UsesFound, WordTags,
       AllProductive, LiveCell, OnCell, LiveAt, OnAt

(* The tags over a span need only those over shorter ones.                 *)
LEMMA ShorterTags ==
  ASSUME NEW f, NEW h, NEW s \in Spans, \A t \in Spans : Width(t) < Width(s) => f[t] = h[t]
  PROVE  TagsOf(f, s) = TagsOf(h, s)
<1>1. \A m \in MidsOf(s) : f[<<s[1], m>>] = h[<<s[1], m>>] /\ f[<<m, s[2]>>] = h[<<m, s[2]>>]
  BY SpanParts
<1>2. \A m \in MidsOf(s) : UsesFound(f, s, m) = UsesFound(h, s, m)
  BY <1>1 DEF UsesFound
<1>3. PlainTags(f, s) = PlainTags(h, s)
  <2> DEFINE row(k) == UNION {UsesFound(k, s, m) : m \in MidsOf(s)}
  <2>1. row(f) = row(h)
    BY <1>2
  <2>2. \A k : PlainTags(k, s) = IF s[2] = s[1] + 1 THEN WordTags(s[1]) ELSE {u[1][1][1] : u \in row(k)}
    BY DEF PlainTags, MidsOf
  <2> HIDE DEF row
  <2> QED  BY <2>1, <2>2
<1> QED  BY <1>3 DEF TagsOf

(* So the table exists.                                                    *)
LEMMA TagsExist == \A s \in Spans : Retrieved[s] = TagsOf(Retrieved, s)
<1> DEFINE Solved(k) == \E f : /\ f = [s \in Spans |-> f[s]]
                               /\ \A s \in Spans : Width(s) <= k => f[s] = TagsOf(f, s)
           S == {k \in Nat : Solved(k)}
<1>1. 0 \in S
  <2> DEFINE f == [s \in Spans |-> {}]
  <2>1. f = [s \in Spans |-> f[s]]
    OBVIOUS
  <2>2. \A s \in Spans : ~(Width(s) <= 0)
    BY SpanParts
  <2> HIDE DEF f
  <2>3. Solved(0)
    BY <2>1, <2>2
  <2> QED  BY <2>3
<1>2. ASSUME NEW k \in Nat, k \in S PROVE k + 1 \in S
  <2>1. PICK f : /\ f = [s \in Spans |-> f[s]]
                 /\ \A s \in Spans : Width(s) <= k => f[s] = TagsOf(f, s)
    BY <1>2
  <2> DEFINE h == [s \in Spans |-> IF Width(s) <= k THEN f[s] ELSE TagsOf(f, s)]
  <2>2. h = [s \in Spans |-> h[s]]
    OBVIOUS
  <2>3. ASSUME NEW s \in Spans, Width(s) <= k + 1 PROVE h[s] = TagsOf(h, s)
    <3>1. h[s] = TagsOf(f, s)
      BY <2>1
    <3>2. \A t \in Spans : Width(t) < Width(s) => f[t] = h[t]
      BY <2>3, SpanParts
    <3> HIDE DEF h
    <3>3. TagsOf(f, s) = TagsOf(h, s)
      BY <3>2, ShorterTags
    <3> QED  BY <3>1, <3>3
  <2>4. Solved(k + 1)
    <3> HIDE DEF h
    <3> QED  BY <2>2, <2>3
  <2> HIDE DEF Solved
  <2> QED  BY <2>4
<1>3. NumWords \in S
  <2> HIDE DEF S
  <2> QED  BY <1>1, <1>2, SetInduction, Shapes
<1>4. PICK f : f = [s \in Spans |-> f[s]] /\ \A s \in Spans : f[s] = TagsOf(f, s)
  BY <1>3, SpanParts
<1>5. f = TagTable(f)
  BY <1>4 DEF TagTable
<1>6. Retrieved = TagTable(Retrieved)
  BY <1>5, SameTags
<1> QED  BY <1>6 DEF TagTable

(* The tags by how they are found: over a word, by a binary rule, or by a  *)
(* unary rule above one of these.                                          *)
FoundWord(s, t) ==
  Width(s) = 1 /\ PrunedTag[<<s, t>>] /\ \E i \in DOMAIN PrunedSub[<<s, t>>] :
    LiveAt(<<s, t>>, <<t, i>>) /\ Terminal(Model, s[1], <<t, i>>) > 0

FoundBinary(s, t) ==
  \E u \in AllProductive(s) :
    /\ u[2] \in MidsOf(s) /\ LiveCell(s, u[1][1]) /\ t = u[1][1][1]
    /\ OnCell(<<s[1], u[2]>>, u[1][2]) /\ u[1][2][1] \in Retrieved[<<s[1], u[2]>>].all
    /\ OnCell(<<u[2], s[2]>>, u[1][3]) /\ u[1][3][1] \in Retrieved[<<u[2], s[2]>>].all

FoundPlain(s, t) == (t \in TagIds /\ FoundWord(s, t)) \/ (Width(s) # 1 /\ FoundBinary(s, t))

FoundRaised(s, t) ==
  \E r \in UnaryUses(s) :
    /\ LiveCell(s, r[1]) /\ OnCell(s, r[2]) /\ t = r[1][1]
    /\ r[1][1] \notin Lexicals /\ FoundPlain(s, r[2][1])
    /\ Model.una[r] > 0 /\ inside[<<s, r[2][1]>>][r[2][2]] > 0

(* These are all.                                                          *)
LEMMA TagKinds ==
  ASSUME NEW s \in Spans
  PROVE  /\ \A t : t \in Retrieved[s].up <=> FoundRaised(s, t)
         /\ \A t : t \in Retrieved[s].all <=> FoundPlain(s, t) \/ FoundRaised(s, t)
<1> DEFINE plain == PlainTags(Retrieved, s)
<1>1. \A t : t \in plain <=> FoundPlain(s, t)
  <2>0. (Width(s) = 1 <=> s[2] = s[1] + 1) /\ s = <<s[1], s[2]>>
    BY SpanParts, Shapes
  <2>1. CASE Width(s) = 1
    <3>1. s[2] = s[1] + 1 /\ s = <<s[1], s[1] + 1>>
      BY <2>0, <2>1
    <3>2. plain = WordTags(s[1])
      BY <3>1 DEF PlainTags
    <3>3. \A t : t \in WordTags(s[1]) <=> t \in TagIds /\ FoundWord(s, t)
      BY <2>1, <3>1 DEF WordTags, FoundWord
    <3> QED  BY <2>1, <3>2, <3>3 DEF FoundPlain
  <2>2. CASE Width(s) # 1
    <3>1. plain = {u[1][1][1] : u \in UNION {UsesFound(Retrieved, s, m) : m \in MidsOf(s)}}
      BY <2>0, <2>2 DEF PlainTags, MidsOf
    <3>2. \A t : t \in plain <=> \E m \in MidsOf(s) : \E u \in UsesFound(Retrieved, s, m) : t = u[1][1][1]
      BY <3>1
    <3>3. \A m, u : u \in UsesFound(Retrieved, s, m) <=>
            /\ u \in AllProductive(s)
            /\ u[2] = m /\ LiveCell(s, u[1][1])
            /\ OnCell(<<s[1], m>>, u[1][2]) /\ u[1][2][1] \in Retrieved[<<s[1], m>>].all
            /\ OnCell(<<m, s[2]>>, u[1][3]) /\ u[1][3][1] \in Retrieved[<<m, s[2]>>].all
      BY DEF UsesFound
    <3> HIDE DEF plain
    <3>4. ASSUME NEW t, t \in plain PROVE FoundBinary(s, t)
      <4>1. PICK m \in MidsOf(s) : \E u \in UsesFound(Retrieved, s, m) : t = u[1][1][1]
        BY <3>2, <3>4
      <4>2. PICK u \in UsesFound(Retrieved, s, m) : t = u[1][1][1]
        BY <4>1
      <4>3. /\ u \in AllProductive(s) /\ u[2] = m /\ LiveCell(s, u[1][1])
            /\ OnCell(<<s[1], m>>, u[1][2]) /\ u[1][2][1] \in Retrieved[<<s[1], m>>].all
            /\ OnCell(<<m, s[2]>>, u[1][3]) /\ u[1][3][1] \in Retrieved[<<m, s[2]>>].all
        BY <3>3, <4>2
      <4> QED  BY <4>1, <4>2, <4>3 DEF FoundBinary
    <3>5. ASSUME NEW t, FoundBinary(s, t) PROVE t \in plain
      <4>1. PICK u \in AllProductive(s) :
              /\ u[2] \in MidsOf(s) /\ LiveCell(s, u[1][1]) /\ t = u[1][1][1]
              /\ OnCell(<<s[1], u[2]>>, u[1][2]) /\ u[1][2][1] \in Retrieved[<<s[1], u[2]>>].all
              /\ OnCell(<<u[2], s[2]>>, u[1][3]) /\ u[1][3][1] \in Retrieved[<<u[2], s[2]>>].all
        BY <3>5 DEF FoundBinary
      <4>2. u \in UsesFound(Retrieved, s, u[2])
        BY <3>3, <4>1
      <4> QED  BY <3>2, <4>1, <4>2
    <3> QED  BY <2>2, <3>4, <3>5 DEF FoundPlain, FoundWord
  <2> QED  BY <2>1, <2>2
<1>2. Retrieved[s] = [up |-> RaisedTags(s, plain), all |-> plain \cup RaisedTags(s, plain)]
  BY TagsExist DEF TagsOf
<1> HIDE DEF plain
<1>3. \A t : t \in RaisedTags(s, plain) <=> FoundRaised(s, t)
  <2>1. \A t : (\E r \in RulesFound(s, plain) : t = r[1][1]) <=> FoundRaised(s, t)
    BY <1>1 DEF RulesFound, FoundRaised
  <2>2. plain = {} => \A t : ~FoundRaised(s, t)
    BY <1>1 DEF FoundRaised
  <2> QED  BY <2>1, <2>2 DEF RaisedTags
<1> QED  BY <1>1, <1>2, <1>3

-----------------------------------------------------------------------------
(* The grammars of the trees that pruning leaves, and of those by tags.    *)
PrunedGrammar ==
  [n |-> NumWords, model |-> UsedModel(Model), words |-> WordTable(level),
   cells |-> {x \in Spans \X Symbols(level) :
                PrunedTag[<<x[1], x[2][1]>>] /\ PrunedSub[<<x[1], x[2][1]>>][x[2][2]]}]

TagGrammar ==
  [n |-> NumWords, model |-> TagModel(UsedModel(Model)),
   words |-> [b \in 0..(NumWords - 1) |->
                [T \in Symbols(0) |->
                   IF \E S \in Symbols(level) : TagOf(S) = T /\ Terminal(Model, b, S) > 0 THEN 1 ELSE 0]],
   cells |-> {x \in Spans \X Symbols(0) : PrunedTag[<<x[1], x[2][1]>>]}]

(* Their trees are those that the property names.                          *)
LEMMA Grammars ==
  /\ PrunedTrees = CellTrees(PrunedGrammar) /\ PrunedTagTrees = CellTrees(TagGrammar)
  /\ PrunedGrammar.n = NumWords /\ TagGrammar.n = NumWords
  /\ NumWords \in Nat \ {0} /\ SpansOf(NumWords) = Spans
BY Shapes, AllowedTrees DEF PrunedTrees, PrunedTagTrees, CellTrees, PrunedGrammar, TagGrammar

(* A constituent that pruning leaves was allowed.                          *)
LEMMA LeftAllowed ==
  ASSUME Scoring, NEW s \in Spans
  PROVE  /\ \A S \in Symbols(level) : OnCell(s, S) => Ok(s, S) /\ S[2] \in DOMAIN PrunedSub[<<s, S[1]>>]
         /\ \A t \in TagIds : PrunedTag[<<s, t>>] =>
              \A i \in DOMAIN PrunedSub[<<s, t>>] : <<t, i>> \in Symbols(level)
<1>0. level \in AllLevels
  BY ScoringShapes
<1>1. \A c \in Cells : PrunedTag[c] =>
        /\ allowedTag[c] /\ DOMAIN PrunedSub[c] = SubIds(c, level)
        /\ \A i \in SubIds(c, level) : PrunedSub[c][i] => allowedSub[c][i]
  <2> TAKE c \in Cells
  <2> SUFFICES ASSUME PrunedTag[c]
               PROVE  /\ allowedTag[c] /\ DOMAIN PrunedSub[c] = SubIds(c, level)
                      /\ \A i \in SubIds(c, level) : PrunedSub[c][i] => allowedSub[c][i]
    OBVIOUS
  <2>1. allowedTag[c]
    BY DEF PrunedTag
  <2>2. DOMAIN allowedSub[c] = SubIds(c, level)
    BY <2>1, ScoringShapes
  <2>3. PrunedSub[c] = [i \in DOMAIN allowedSub[c] |-> allowedSub[c][i] /\ Kept(c, i)]
    BY <2>1 DEF PrunedSub
  <2> QED  BY <2>1, <2>2, <2>3
<1>2. \A S \in Symbols(level) : OnCell(s, S) => Ok(s, S) /\ S[2] \in DOMAIN PrunedSub[<<s, S[1]>>]
  <2> SUFFICES ASSUME NEW S \in Symbols(level), OnCell(s, S)
               PROVE  Ok(s, S) /\ S[2] \in DOMAIN PrunedSub[<<s, S[1]>>]
    OBVIOUS
  <2>1. <<s, S[1]>> \in Cells /\ S[2] \in SubIds(<<s, S[1]>>, level)
    BY <1>0, SymbolShapes
  <2>2. PrunedTag[<<s, S[1]>>] /\ PrunedSub[<<s, S[1]>>][S[2]]
    BY DEF OnCell, OnAt
  <2>3. allowedTag[<<s, S[1]>>] /\ allowedSub[<<s, S[1]>>][S[2]] /\ S[2] \in DOMAIN PrunedSub[<<s, S[1]>>]
    BY <1>1, <2>1, <2>2
  <2> QED  BY <2>3 DEF Ok, Usable
<1>3. ASSUME NEW t \in TagIds, PrunedTag[<<s, t>>], NEW i \in DOMAIN PrunedSub[<<s, t>>]
      PROVE  <<t, i>> \in Symbols(level)
  <2>1. <<s, t>> \in Cells
    BY DEF Cells
  <2>2. i \in SubIds(<<s, t>>, level)
    BY <1>1, <1>3, <2>1
  <2> QED  BY <2>2 DEF SubIds, Symbols
<1> QED  BY <1>2, <1>3

(* The tags of the symbols of a level are the symbols of level 0.          *)
LEMMA TagSymbols ==
  ASSUME Scoring
  PROVE  /\ \A t \in TagIds : <<t, 0>> \in Symbols(0)
         /\ \A S \in Symbols(level) : S[1] \in TagIds /\ TagOf(S) = <<S[1], 0>> /\ TagOf(S) \in Symbols(0)
<1>1. \A t \in TagIds : <<t, 0>> \in Symbols(0)
  <2> TAKE t \in TagIds
  <2>1. NumSub[t][0] = 1
    BY HierarchyAssumption
  <2>2. 0 \in 0..(NumSub[t][0] - 1)
    BY <2>1
  <2> QED  BY <2>2 DEF Symbols
<1>2. \A S \in Symbols(level) : S[1] \in TagIds
  BY ScoringShapes, SymbolShapes, Shapes
<1> QED  BY <1>1, <1>2 DEF TagOf

(* What the grammar of the tags has.                                       *)
LEMMA TagGrammarHas ==
  ASSUME Scoring
  PROVE  /\ \A r \in Bins : <<TagOf(r[1]), TagOf(r[2]), TagOf(r[3])>> \in DOMAIN TagGrammar.model.bin
         /\ \A r \in Unas : <<TagOf(r[1]), TagOf(r[2])>> \in DOMAIN TagGrammar.model.una
         /\ \A s \in Spans : \A S \in Symbols(level) :
              /\ OnCell(s, S) => <<s, TagOf(S)>> \in TagGrammar.cells
              /\ Terminal(Model, s[1], S) > 0 =>
                   TagOf(S) \in DOMAIN TagGrammar.words[s[1]] /\ TagGrammar.words[s[1]][TagOf(S)] > 0
<1>1. /\ TagGrammar.model.bin = TagModel(UsedModel(Model)).bin
      /\ TagGrammar.model.una = TagModel(UsedModel(Model)).una
  BY DEF TagGrammar
<1>2. UsedModel(Model).bin = [r \in Bins |-> Model.bin[r]] /\ UsedModel(Model).una = [r \in InUse(Model.una) |-> Model.una[r]]
  BY UsedTables DEF Model
<1>3. /\ DOMAIN TagGrammar.model.bin = {<<TagOf(r[1]), TagOf(r[2]), TagOf(r[3])>> : r \in DOMAIN UsedModel(Model).bin}
      /\ DOMAIN TagGrammar.model.una = {<<TagOf(r[1]), TagOf(r[2])>> : r \in DOMAIN UsedModel(Model).una}
  BY <1>1 DEF TagModel
<1>4. DOMAIN UsedModel(Model).bin = Bins /\ DOMAIN UsedModel(Model).una = InUse(Model.una)
  BY <1>2
<1>5. Unas \subseteq InUse(Model.una)
  BY DEF Unas
<1>6. \A r \in Bins : <<TagOf(r[1]), TagOf(r[2]), TagOf(r[3])>> \in DOMAIN TagGrammar.model.bin
  BY <1>3, <1>4
<1>7. \A r \in Unas : <<TagOf(r[1]), TagOf(r[2])>> \in DOMAIN TagGrammar.model.una
  BY <1>3, <1>4, <1>5
<1>8. ASSUME NEW s \in Spans, NEW S \in Symbols(level), OnCell(s, S) PROVE <<s, TagOf(S)>> \in TagGrammar.cells
  <2>1. TagOf(S) \in Symbols(0) /\ TagOf(S)[1] = S[1]
    BY TagSymbols
  <2>2. PrunedTag[<<s, S[1]>>]
    BY <1>8 DEF OnCell, OnAt
  <2>3. TagGrammar.cells = {x \in Spans \X Symbols(0) : PrunedTag[<<x[1], x[2][1]>>]}
    BY DEF TagGrammar
  <2> QED  BY <2>1, <2>2, <2>3
<1>9. ASSUME NEW s \in Spans, NEW S \in Symbols(level), Terminal(Model, s[1], S) > 0
      PROVE  TagOf(S) \in DOMAIN TagGrammar.words[s[1]] /\ TagGrammar.words[s[1]][TagOf(S)] > 0
  <2>1. TagOf(S) \in Symbols(0) /\ s[1] \in 0..(NumWords - 1)
    BY TagSymbols, Shapes
  <2>2. TagGrammar.words[s[1]] =
          [T \in Symbols(0) |->
             IF \E Q \in Symbols(level) : TagOf(Q) = T /\ Terminal(Model, s[1], Q) > 0 THEN 1 ELSE 0]
    BY <2>1 DEF TagGrammar
  <2> QED  BY <1>9, <2>1, <2>2
<1> QED  BY <1>6, <1>7, <1>8, <1>9

-----------------------------------------------------------------------------
(* A tag that retrieval finds over a span has a tree there.                *)
HasTagTree(s) ==
  /\ \A t : FoundPlain(s, t) => \E x : CellPlain(TagGrammar, s, x) /\ x.sym = <<t, 0>>
  /\ \A t : FoundRaised(s, t) => \E x : CellRaised(TagGrammar, s, x) /\ x.sym = <<t, 0>> /\ x.unary

(* Over a word.                                                            *)
LEMMA WordHasTree ==
  ASSUME Scoring, NEW s \in Spans, NEW t \in TagIds, FoundWord(s, t)
  PROVE  \E x : CellPlain(TagGrammar, s, x) /\ x.sym = <<t, 0>>
<1>1. PICK i \in DOMAIN PrunedSub[<<s, t>>] : LiveAt(<<s, t>>, <<t, i>>) /\ Terminal(Model, s[1], <<t, i>>) > 0
  BY DEF FoundWord
<1>2. <<t, i>> \in Symbols(level)
  BY LeftAllowed DEF FoundWord
<1>3. OnCell(s, <<t, i>>) /\ TagOf(<<t, i>>) = <<t, 0>>
  BY <1>1 DEF LiveAt, OnCell, TagOf
<1>4. /\ <<s, <<t, 0>>>> \in TagGrammar.cells
      /\ <<t, 0>> \in DOMAIN TagGrammar.words[s[1]] /\ TagGrammar.words[s[1]][<<t, 0>>] > 0
  BY <1>1, <1>2, <1>3, TagGrammarHas
<1> DEFINE x == WordTree(<<t, 0>>, s[1], TagGrammar.words[s[1]][<<t, 0>>])
<1>5. CellWord(TagGrammar, s, x)
  BY <1>4 DEF CellWord, FoundWord
<1>6. x.sym = <<t, 0>>
  BY TreeParts
<1> QED  BY <1>5, <1>6 DEF CellPlain

(* By a binary rule, if the tags over shorter spans have trees.            *)
LEMMA BinaryHasTree ==
  ASSUME Scoring, NEW s \in Spans, \A v \in Spans : Width(v) < Width(s) => HasTagTree(v),
         NEW t, FoundBinary(s, t)
  PROVE  \E x : CellPlain(TagGrammar, s, x) /\ x.sym = <<t, 0>>
<1>1. PICK u \in AllProductive(s) :
        /\ u[2] \in MidsOf(s) /\ LiveCell(s, u[1][1]) /\ t = u[1][1][1]
        /\ OnCell(<<s[1], u[2]>>, u[1][2]) /\ u[1][2][1] \in Retrieved[<<s[1], u[2]>>].all
        /\ OnCell(<<u[2], s[2]>>, u[1][3]) /\ u[1][3][1] \in Retrieved[<<u[2], s[2]>>].all
  BY DEF FoundBinary
<1> DEFINE m == u[2]
           r == u[1]
           l == <<s[1], m>>
           e == <<m, s[2]>>
           q == <<TagOf(r[1]), TagOf(r[2]), TagOf(r[3])>>
<1>2. PICK p \in TagIds : u \in Productive(s, p)
  BY <1>1 DEF AllProductive
<1>3. u \in Admitted(s, r[1])
  BY <1>2, UseOfProductive
<1>4. r \in Bins /\ m \in MidsOf(s)
  BY <1>3 DEF Admitted, Uses
<1>5. r[1] \in Symbols(level) /\ r[2] \in Symbols(level) /\ r[3] \in Symbols(level)
  BY <1>4, RuleFacts
<1>6. l \in Spans /\ e \in Spans /\ HasTagTree(l) /\ HasTagTree(e)
  BY <1>4, SpanParts
<1>7. ASSUME NEW v \in Spans, HasTagTree(v), NEW S \in Symbols(level), S[1] \in Retrieved[v].all
      PROVE  \E a \in CellTrees(TagGrammar)[v] : a.sym = TagOf(S)
  <2>1. FoundPlain(v, S[1]) \/ FoundRaised(v, S[1])
    BY <1>7, TagKinds
  <2>2. \E a : (CellPlain(TagGrammar, v, a) \/ CellRaised(TagGrammar, v, a)) /\ a.sym = <<S[1], 0>>
    BY <1>7, <2>1 DEF HasTagTree
  <2>3. \A a : CellPlain(TagGrammar, v, a) \/ CellRaised(TagGrammar, v, a) => a \in CellTrees(TagGrammar)[v]
    BY CellKinds, Grammars
  <2> QED  BY <2>2, <2>3 DEF TagOf
<1>8. PICK a \in CellTrees(TagGrammar)[l] : a.sym = TagOf(r[2])
  BY <1>1, <1>5, <1>6, <1>7
<1>9. PICK b \in CellTrees(TagGrammar)[e] : b.sym = TagOf(r[3])
  BY <1>1, <1>5, <1>6, <1>7
<1>10. q \in DOMAIN TagGrammar.model.bin /\ <<s, TagOf(r[1])>> \in TagGrammar.cells
  <2>1. OnCell(s, r[1])
    BY <1>1 DEF LiveCell, LiveAt, OnCell
  <2> QED  BY <1>4, <1>5, <2>1, TagGrammarHas
<1>11. q[1] = TagOf(r[1]) /\ q[2] = TagOf(r[2]) /\ q[3] = TagOf(r[3])
  OBVIOUS
<1>12. TagOf(r[1]) = <<t, 0>>
  BY <1>1 DEF TagOf
<1> HIDE DEF q
<1> DEFINE x == BinaryTree(q[1], a, b, TagGrammar.model.bin[q])
<1>13. x.sym = q[1]
  BY TreeParts
<1>14. CellJoined(TagGrammar, s, x)
  BY <1>4, <1>8, <1>9, <1>10, <1>11 DEF CellJoined
<1> HIDE DEF x
<1> QED  BY <1>11, <1>12, <1>13, <1>14 DEF CellPlain

(* By a unary rule, if the tags below it have trees.                       *)
LEMMA RaisedHasTree ==
  ASSUME Scoring, NEW s \in Spans,
         \A t : FoundPlain(s, t) => \E x : CellPlain(TagGrammar, s, x) /\ x.sym = <<t, 0>>,
         NEW t, FoundRaised(s, t)
  PROVE  \E x : CellRaised(TagGrammar, s, x) /\ x.sym = <<t, 0>> /\ x.unary
<1>1. PICK r \in UnaryUses(s) :
        /\ LiveCell(s, r[1]) /\ OnCell(s, r[2]) /\ t = r[1][1]
        /\ r[1][1] \notin Lexicals /\ FoundPlain(s, r[2][1])
        /\ Model.una[r] > 0
  BY DEF FoundRaised
<1>2. r \in DOMAIN Model.una /\ r[1][1] # r[2][1]
  BY DEF UnaryUses
<1>3. r \in Unas
  BY <1>1, <1>2 DEF Unas, InUse
<1>4. r[1] \in Symbols(level) /\ r[2] \in Symbols(level)
  BY <1>3, RuleFacts
<1> DEFINE q == <<TagOf(r[1]), TagOf(r[2])>>
<1>5. q \in DOMAIN TagGrammar.model.una /\ <<s, TagOf(r[1])>> \in TagGrammar.cells
  <2>1. OnCell(s, r[1])
    BY <1>1 DEF LiveCell, LiveAt, OnCell
  <2> QED  BY <1>3, <1>4, <2>1, TagGrammarHas
<1>6. q[1] = TagOf(r[1]) /\ q[2] = TagOf(r[2]) /\ q[1][1] # q[2][1] /\ q[1] = <<t, 0>>
  BY <1>1, <1>2 DEF TagOf
<1>7. PICK a : CellPlain(TagGrammar, s, a) /\ a.sym = <<r[2][1], 0>>
  BY <1>1
<1>8. a.sym = q[2]
  BY <1>6, <1>7 DEF TagOf
<1> HIDE DEF q
<1> DEFINE x == UnaryTree(q[1], a, TagGrammar.model.una[q])
<1>9. x.sym = q[1] /\ x.unary = TRUE
  BY TreeParts
<1>10. CellRaised(TagGrammar, s, x)
  BY <1>5, <1>6, <1>7, <1>8 DEF CellRaised
<1> HIDE DEF x
<1> QED  BY <1>6, <1>9, <1>10

(* So it is over all spans.                                                *)
LEMMA TagsHaveTrees ==
  ASSUME Scoring
  PROVE  \A s \in Spans : HasTagTree(s)
<1> DEFINE S == {k \in Nat : \A s \in Spans : Width(s) <= k => HasTagTree(s)}
<1>1. 0 \in S
  <2>1. \A s \in Spans : ~(Width(s) <= 0)
    BY SpanParts
  <2> QED  BY <2>1
<1>2. ASSUME NEW k \in Nat, k \in S PROVE k + 1 \in S
  <2> SUFFICES ASSUME NEW s \in Spans, Width(s) <= k + 1 PROVE HasTagTree(s)
    OBVIOUS
  <2>1. \A v \in Spans : Width(v) < Width(s) => HasTagTree(v)
    <3>1. \A v \in Spans : Width(v) < Width(s) => Width(v) <= k
      BY SpanParts
    <3> QED  BY <1>2, <3>1
  <2>2. \A t : FoundPlain(s, t) => \E x : CellPlain(TagGrammar, s, x) /\ x.sym = <<t, 0>>
    <3> TAKE t
    <3>1. t \in TagIds /\ FoundWord(s, t) => \E x : CellPlain(TagGrammar, s, x) /\ x.sym = <<t, 0>>
      BY WordHasTree
    <3>2. FoundBinary(s, t) => \E x : CellPlain(TagGrammar, s, x) /\ x.sym = <<t, 0>>
      BY <2>1, BinaryHasTree
    <3> QED  BY <3>1, <3>2 DEF FoundPlain
  <2>3. \A t : FoundRaised(s, t) => \E x : CellRaised(TagGrammar, s, x) /\ x.sym = <<t, 0>> /\ x.unary
    BY <2>2, RaisedHasTree
  <2> QED  BY <2>2, <2>3 DEF HasTagTree
<1>3. NumWords \in S
  <2> HIDE DEF S
  <2> QED  BY <1>1, <1>2, SetInduction, Shapes
<1> QED  BY <1>3, SpanParts

(* What is retrieved has a tree of its tags.                               *)
LEMMA RetrievedConnected ==
  ASSUME Scoring, CanRetrieve(PrunedTag, PrunedSub)
  PROVE  \E t \in Complete(PrunedTagTrees) : t.unary
<1>1. RootTag \in Retrieved[Whole].up
  BY DEF CanRetrieve, Retrieved
<1>2. FoundRaised(Whole, RootTag) /\ HasTagTree(Whole) /\ Whole \in Spans
  BY <1>1, TagKinds, TagsHaveTrees, Shapes
<1>3. PICK x : CellRaised(TagGrammar, Whole, x) /\ x.sym = <<RootTag, 0>> /\ x.unary
  BY <1>2 DEF HasTagTree
<1>4. x \in CellTrees(TagGrammar)[Whole]
  BY <1>2, <1>3, CellKinds, Grammars
<1> QED  BY <1>3, <1>4, Grammars DEF Complete

-----------------------------------------------------------------------------
(* A symbol with a tree has a score.                                       *)
LEMMA TreeWeighs ==
  ASSUME Scoring, NEW s \in Spans, NEW x \in Trees[s]
  PROVE  FullSum(s, x.sym) \in Nat /\ FullSum(s, x.sym) > 0
<1> DEFINE A == TreesWith(s, x.sym)
           B == A \ {x}
<1>1. x \in A /\ A \in SUBSET AllTrees /\ Score(A) \in Nat
  BY SomeTrees DEF TreesWith, FullSum
<1>2. x \in AllTrees /\ {x} \in SUBSET AllTrees /\ B \in SUBSET AllTrees /\ {x} \cap B = {} /\ {x} \cup B = A
  BY <1>1
<1> HIDE DEF A, B
<1>3. Score(A) = Score({x}) + Score(B) /\ Score(B) \in Nat /\ Score({x}) = x.score
  BY <1>2, Scores
<1>4. x.score \in Nat \ {0}
  BY TreeFacts DEF TreeFact
<1>5. Score(A) > 0
  BY <1>3, <1>4
<1> QED  BY <1>1, <1>5 DEF A, FullSum

-----------------------------------------------------------------------------
(* Whether pruning leaves all constituents of a tree.                      *)
Spared(x) == \A y \in x.cells : OnCell(y[1], y[2])

(* The trees that pruning leaves are the trees of the level whose          *)
(* constituents it leaves.                                                 *)
LEMMA PrunedAre ==
  ASSUME Scoring
  PROVE  \A s \in Spans : \A x : x \in CellTrees(PrunedGrammar)[s] <=> x \in Trees[s] /\ Spared(x)
<1> DEFINE g == AllowedGrammar
           h == PrunedGrammar
<1>1. /\ IsGrammar(g) /\ SpansOf(g.n) = Spans /\ CellTrees(g) = Trees
      /\ \A s \in Spans : \A P : <<s, P>> \in g.cells <=> P \in Symbols(level) /\ Ok(s, P)
  BY AllowedTrees, AllowedKinds
<1>2. /\ h.n = g.n /\ h.model = g.model /\ h.words = g.words
      /\ h.cells = {x \in Spans \X Symbols(level) : OnCell(x[1], x[2])}
  BY DEF AllowedGrammar, PrunedGrammar, Model, OnCell, OnAt
<1>3. h.cells \subseteq g.cells
  <2> SUFFICES ASSUME NEW s \in Spans, NEW P \in Symbols(level), OnCell(s, P) PROVE <<s, P>> \in g.cells
    BY <1>2
  <2> QED  BY <1>1, LeftAllowed
<1>4. g.cells \subseteq Spans \X Symbols(level)
  BY DEF AllowedGrammar
<1> HIDE DEF g, h
<1>5. \A s \in Spans : CellTrees(h)[s] = {x \in Trees[s] : x.cells \subseteq h.cells}
  BY <1>1, <1>2, <1>3, FewerTrees
<1>6. \A s \in Spans : \A x \in Trees[s] : x.cells \subseteq Spans \X Symbols(level)
  BY <1>1, <1>4, CellsWithin
<1>7. \A s \in Spans : \A x \in Trees[s] : x.cells \subseteq h.cells <=> Spared(x)
  BY <1>2, <1>6 DEF Spared
<1> QED  BY <1>5, <1>7 DEF h

-----------------------------------------------------------------------------
(* A tree of the level is found by retrieval, if pruning leaves its        *)
(* constituents and they have scores from outside.                         *)
Live(x) == \A y \in x.cells : LiveCell(y[1], y[2])
FindsTrees(s) ==
  \A x : Live(x) => /\ IsPlain(s, x) => FoundPlain(s, x.sym[1])
                    /\ IsRaised(s, x) => FoundRaised(s, x.sym[1])

(* Over a word.                                                            *)
LEMMA FindsWord ==
  ASSUME Scoring, NEW s \in Spans, NEW x, Live(x), IsWord(s, x)
  PROVE  FoundPlain(s, x.sym[1])
<1>1. PICK P \in Symbols(level) : Terminal(Model, s[1], P) > 0 /\ x = WordTree(P, s[1], Terminal(Model, s[1], P))
  BY DEF IsWord
<1>2. x.sym = P /\ x.cells = {<<<<s[1], s[1] + 1>>, P>>}
  BY <1>1, TreeParts
<1>3. Width(s) = 1 /\ s = <<s[1], s[1] + 1>>
  BY SpanParts, Shapes DEF IsWord
<1>4. LiveAt(<<s, P[1]>>, P) /\ OnCell(s, P)
  BY <1>2, <1>3 DEF Live, LiveCell, LiveAt, OnCell
<1>5. P[1] \in TagIds /\ P = <<P[1], P[2]>>
  BY ScoringShapes, SymbolShapes
<1>6. PrunedTag[<<s, P[1]>>] /\ P[2] \in DOMAIN PrunedSub[<<s, P[1]>>]
  BY <1>4, LeftAllowed DEF OnCell, OnAt
<1>7. FoundWord(s, P[1])
  BY <1>1, <1>3, <1>4, <1>5, <1>6 DEF FoundWord
<1> QED  BY <1>2, <1>5, <1>7 DEF FoundPlain

(* What is found of a tree over a span, and that it is left.               *)
LEMMA TreeFound ==
  ASSUME Scoring, NEW s \in Spans, NEW x \in Trees[s], Live(x)
  PROVE  /\ FindsTrees(s) => x.sym[1] \in Retrieved[s].all
         /\ OnCell(s, x.sym) /\ x.span = s
<1>1. <<s, x.sym>> \in x.cells
  BY AllowedTrees, AllowedKinds, CellsWithin
<1>2. OnCell(s, x.sym)
  BY <1>1 DEF Live, LiveCell, LiveAt, OnCell
<1>3. FindsTrees(s) => FoundPlain(s, x.sym[1]) \/ FoundRaised(s, x.sym[1])
  BY TreeKinds DEF FindsTrees
<1> QED  BY <1>2, <1>3, TagKinds, TreeShapes

(* By a binary rule, if those over shorter spans are found: the rule is    *)
(* productive where the inside pass found all trees.                       *)
LEMMA FindsJoined ==
  ASSUME Scoring, pc = "prune", Found, Accounted, NEW s \in Spans,
         \A v \in Spans : Width(v) < Width(s) => FindsTrees(v),
         NEW x, Live(x), IsJoined(s, x)
  PROVE  FoundPlain(s, x.sym[1])
<1>1. PICK r \in Bins, m \in MidsOf(s) : \E a \in Trees[<<s[1], m>>], b \in Trees[<<m, s[2]>>] :
        Ok(s, r[1]) /\ a.sym = r[2] /\ b.sym = r[3] /\ x = BinaryTree(r[1], a, b, Model.bin[r])
  BY DEF IsJoined
<1>2. PICK a \in Trees[<<s[1], m>>], b \in Trees[<<m, s[2]>>] :
        Ok(s, r[1]) /\ a.sym = r[2] /\ b.sym = r[3] /\ x = BinaryTree(r[1], a, b, Model.bin[r])
  BY <1>1
<1> DEFINE l == <<s[1], m>>
           e == <<m, s[2]>>
           u == <<r, m>>
<1>3. /\ r[1] \in Symbols(level) /\ r[2] \in Symbols(level) /\ r[3] \in Symbols(level)
      /\ Model.bin[r] \in Nat /\ Model.bin[r] > 0
  BY RuleFacts
<1>4. l \in Spans /\ e \in Spans /\ Width(l) < Width(s) /\ Width(e) < Width(s) /\ Width(s) # 1
  BY SpanParts
<1>5. x.sym = r[1] /\ x.cells = a.cells \cup b.cells \cup {<<s, r[1]>>}
  <2>1. a.span = <<s[1], m>> /\ b.span = <<m, s[2]>>
    BY <1>2, <1>4, TreeShapes
  <2>2. <<a.span[1], b.span[2]>> = s
    BY <2>1, Shapes
  <2> QED  BY <1>2, <2>2, TreeParts
<1>6. Live(a) /\ Live(b) /\ LiveCell(s, r[1])
  <2>1. <<s, r[1]>> \in x.cells
    BY <1>5
  <2>2. LiveCell(s, r[1])
    BY <2>1 DEF Live
  <2> QED  BY <1>5, <2>2 DEF Live
<1>7. /\ OnCell(l, r[2]) /\ r[2][1] \in Retrieved[l].all
       /\ OnCell(e, r[3]) /\ r[3][1] \in Retrieved[e].all
  BY <1>2, <1>4, <1>6, TreeFound
<1>8. FullSum(l, r[2]) \in Nat /\ FullSum(l, r[2]) > 0 /\ FullSum(e, r[3]) \in Nat /\ FullSum(e, r[3]) > 0
  BY <1>2, <1>4, TreeWeighs
<1>9. u \in Uses(s, r[1]) /\ u[1] = r /\ u[2] = m
  BY <1>3 DEF Uses
<1>10. UseTerms(s)[u] = (Model.bin[r] * FullSum(l, r[2])) * FullSum(e, r[3])
  BY <1>9, UseParts
<1>11. UseTerms(s)[u] > 0
  <2>1. \A i, k \in Nat : i > 0 /\ k > 0 => i * k \in Nat /\ i * k > 0
    OBVIOUS
  <2>2. Model.bin[r] * FullSum(l, r[2]) \in Nat /\ Model.bin[r] * FullSum(l, r[2]) > 0
    BY <1>3, <1>8, <2>1
  <2> HIDE DEF u, l, e
  <2> QED  BY <1>8, <1>10, <2>1, <2>2
<1>12. u \in AllProductive(s)
  <2>1. u \in Productive(s, r[1][1])
    BY <1>2, <1>3, <1>4, <1>9, <1>11, ProductiveUp
  <2>2. r[1][1] \in TagIds
    BY <1>3, ScoringShapes, SymbolShapes
  <2> QED  BY <2>1, <2>2 DEF AllProductive
<1>13. FoundBinary(s, r[1][1])
  BY <1>6, <1>7, <1>9, <1>12 DEF FoundBinary
<1> QED  BY <1>4, <1>5, <1>13 DEF FoundPlain

(* And by a unary rule, if what is below it is found.                      *)
LEMMA FindsRaised ==
  ASSUME Scoring, Found, NEW s \in Spans,
         \A y : Live(y) /\ IsPlain(s, y) => FoundPlain(s, y.sym[1]),
         NEW x, Live(x), IsRaised(s, x)
  PROVE  FoundRaised(s, x.sym[1])
<1>1. PICK r \in Unas : \E a : IsPlain(s, a) /\ Ok(s, r[1]) /\ a.sym = r[2] /\ x = UnaryTree(r[1], a, Model.una[r])
  BY DEF IsRaised
<1>2. PICK a : IsPlain(s, a) /\ Ok(s, r[1]) /\ a.sym = r[2] /\ x = UnaryTree(r[1], a, Model.una[r])
  BY <1>1
<1>3. /\ r \in DOMAIN Model.una /\ Model.una[r] > 0 /\ r[1][1] \notin Lexicals /\ r[1][1] # r[2][1]
      /\ r[1] \in Symbols(level) /\ r[2] \in Symbols(level)
  BY RuleFacts
<1>4. a \in Trees[s] /\ TreeFact(s, a)
  BY <1>2, TreeFacts
<1>5. x.sym = r[1] /\ x.cells = a.cells \cup {<<s, r[1]>>}
  BY <1>2, <1>4, TreeParts DEF TreeFact
<1>6. Live(a) /\ LiveCell(s, r[1])
  <2>1. <<s, r[1]>> \in x.cells
    BY <1>5
  <2>2. LiveCell(s, r[1])
    BY <2>1 DEF Live
  <2> QED  BY <1>5, <2>2 DEF Live
<1>7. OnCell(s, r[2]) /\ Ok(s, r[2])
  BY <1>2, <1>4, <1>6, TreeFound DEF TreeFact
<1>8. FoundPlain(s, r[2][1])
  BY <1>2, <1>6
<1>9. r \in UnaryUses(s)
  <2>1. s[2] - s[1] > 1 => r[2][1] \notin Lexicals
    BY <1>2, <1>4 DEF Width, TreeFact
  <2> QED  BY <1>2, <1>3, <1>7, <2>1 DEF UnaryUses, Ok
<1>10. inside[<<s, r[2][1]>>][r[2][2]] > 0
  <2>1. In(s, r[2]) = FullSum(s, r[2])
    BY <1>3, <1>7 DEF Found, Ok, Usable
  <2>2. FullSum(s, r[2]) > 0
    BY <1>2, <1>4, TreeWeighs
  <2> QED  BY <2>1, <2>2 DEF In
<1>11. FoundRaised(s, r[1][1])
  BY <1>3, <1>6, <1>7, <1>8, <1>9, <1>10 DEF FoundRaised
<1> QED  BY <1>5, <1>11

(* So retrieval finds all of them.                                         *)
LEMMA FindsAll ==
  ASSUME Scoring, pc = "prune", Found, Accounted
  PROVE  \A s \in Spans : FindsTrees(s)
<1> DEFINE G == {s \in Spans : FindsTrees(s)}
<1>1. ASSUME NEW s \in Spans, \A v \in Spans : Width(v) < Width(s) => v \in G PROVE s \in G
  <2>1. \A v \in Spans : Width(v) < Width(s) => FindsTrees(v)
    BY <1>1
  <2>2. \A x : Live(x) /\ IsPlain(s, x) => FoundPlain(s, x.sym[1])
    BY <2>1, FindsWord, FindsJoined DEF IsPlain
  <2>3. \A x : Live(x) /\ IsRaised(s, x) => FoundRaised(s, x.sym[1])
    BY <2>2, FindsRaised
  <2> QED  BY <2>2, <2>3 DEF FindsTrees
<1>2. \A s \in Spans : s \in G
  <2> HIDE DEF G
  <2> QED  BY <1>1, Grammars, SpanInduction
<1> QED  BY <1>2

-----------------------------------------------------------------------------
(* The constituents of a parse have scores from outside: the product with  *)
(* the inside score is no less than the score of the parse.                *)
LEMMA ParseLive ==
  ASSUME Scoring, pc = "prune", Found, Accounted, OutsideSummed, NEW t \in Complete(Trees)
  PROVE  \A x \in t.cells : Out(x[1], x[2]) > 0
<1> TAKE x \in t.cells
<1> DEFINE v == x[1]
           P == x[2]
<1>1. v \in Spans /\ P \in Symbols(level) /\ Ok(v, P) /\ t.score \in Nat
  BY ParseCells
<1>2. t.score > 0
  <2>1. t.span \in Spans /\ t \in Trees[t.span]
    BY ParseFacts, TreeSpan
  <2>2. t.score \in Nat \ {0}
    BY <2>1, TreeFacts DEF TreeFact
  <2> QED  BY <2>2
<1>3. Score(Thru(TreesWith(v, P))) \in Nat
  BY ParseFacts, Scores
<1>4. t.score <= Score(Thru(TreesWith(v, P)))
  BY ParseBelow
<1>5. In(v, P) * Out(v, P) >= Score(Thru(TreesWith(v, P)))
  BY <1>1, CellCovers DEF Ok, Usable
<1>6. In(v, P) \in Nat /\ Out(v, P) \in Nat
  BY <1>1, UsableScores DEF In, Out, Ok
<1> HIDE DEF v, P
<1>7. Out(v, P) # 0
  <2> SUFFICES ASSUME Out(v, P) = 0 PROVE FALSE
    OBVIOUS
  <2>1. In(v, P) * Out(v, P) = 0
    BY <1>6
  <2> QED  BY <1>1, <1>2, <1>3, <1>4, <1>5, <2>1
<1> QED  BY <1>6, <1>7 DEF v, P

(* Where pruning leaves a parse, one is retrieved.                         *)
LEMMA ConnectedRetrieved ==
  ASSUME Scoring, pc = "prune", Found, Accounted, OutsideSummed,
         NEW t \in Complete(PrunedTrees), t.unary
  PROVE  CanRetrieve(PrunedTag, PrunedSub)
<1>1. Whole \in Spans /\ t \in CellTrees(PrunedGrammar)[Whole] /\ t.sym = <<RootTag, 0>>
  BY Grammars, Shapes DEF Complete
<1>2. t \in Complete(Trees) /\ Spared(t)
  BY <1>1, PrunedAre DEF Complete
<1>3. Live(t)
  BY <1>2, ParseLive DEF Live, Spared, LiveCell, LiveAt, OnCell, Out
<1>4. IsRaised(Whole, t)
  BY <1>1, <1>2, TreeKinds, TreeFacts DEF Complete
<1>5. FoundRaised(Whole, RootTag)
  <2>1. FoundRaised(Whole, t.sym[1])
    BY <1>1, <1>3, <1>4, FindsAll DEF FindsTrees
  <2> QED  BY <1>1, <2>1
<1> QED  BY <1>1, <1>5, TagKinds DEF CanRetrieve, Retrieved

(* Retrieval succeeds only if the tags that pruning leaves have a parse,   *)
(* and always if the constituents left have one, where the inside pass     *)
(* found all trees: for every grammar, sentence, threshold and level.      *)
THEOREM RetrievalConnected == Spec => []RetrievedIffConnected
<1>1. IInv /\ Scored => RetrievedIffConnected
  <2> SUFFICES ASSUME IInv, Scored, pc = "prune"
               PROVE  /\ CanRetrieve(PrunedTag, PrunedSub) => \E t \in Complete(PrunedTagTrees) : t.unary
                      /\ AllFound(Trees) /\ (\E t \in Complete(PrunedTrees) : t.unary)
                           => CanRetrieve(PrunedTag, PrunedSub)
    BY DEF RetrievedIffConnected, Trees
  <2>1. Scoring /\ Accounted /\ OutsideSummed
    BY DEF IInv, Scoring, Passes, Scored
  <2>2. CanRetrieve(PrunedTag, PrunedSub) => \E t \in Complete(PrunedTagTrees) : t.unary
    BY <2>1, RetrievedConnected
  <2>3. ASSUME AllFound(Trees), NEW t \in Complete(PrunedTrees), t.unary PROVE CanRetrieve(PrunedTag, PrunedSub)
    BY <2>1, <2>3, AllAreFound, ConnectedRetrieved
  <2> QED  BY <2>2, <2>3
<1>2. IInv /\ Scored /\ [Next]_vars => Scored'
  BY StepScored DEF IInv
<1> QED  BY <1>1, <1>2, InitInv, StepInv, InitScored, PTL DEF Spec

-----------------------------------------------------------------------------
(* A parse that alone reaches the threshold is among those that pruning    *)
(* leaves.                                                                 *)
LEMMA DominantLeft ==
  ASSUME Own, Scored, pc = "prune", AllFound(Trees), NEW t \in Complete(Trees),
         t.score * ThresholdDen >= threshold * SentenceScore
  PROVE  t \in Complete(PrunedTrees)
<1>1. Scoring
  BY DEF Scoring, Passes
<1>2. Spared(t)
  BY DominantKept DEF Spared, OnCell, OnAt
<1>3. t \in Trees[Whole] /\ Whole \in Spans /\ t.sym = <<RootTag, 0>>
  BY Shapes DEF Complete
<1>4. t \in CellTrees(PrunedGrammar)[Whole]
  BY <1>1, <1>2, <1>3, PrunedAre
<1> QED  BY <1>3, <1>4, Grammars DEF Complete

(* Pruning and retrieval together: where the inside pass found all trees   *)
(* and one parse, with ROOT by a unary rule as buildTree wants it, alone   *)
(* reaches the threshold, the level can give a tree.                       *)
THEOREM DominantRetrieved ==
  Spec => [][pc = "prune" /\ AllFound(TreesAt(level))
             /\ (\E t \in Complete(TreesAt(level)) :
                   t.unary /\ t.score * ThresholdDen >= threshold * SentenceScore)
             => level \in retrievable']_vars
<1> DEFINE Dominant ==
             pc = "prune" /\ AllFound(TreesAt(level))
             /\ (\E t \in Complete(TreesAt(level)) :
                   t.unary /\ t.score * ThresholdDen >= threshold * SentenceScore)
           Gives == Dominant => level \in retrievable'
<1>1. IInv /\ Scored /\ [Next]_vars => [Gives]_vars
  <2> SUFFICES ASSUME IInv, Scored, Next, Dominant PROVE level \in retrievable'
    OBVIOUS
  <2>1. PruneCharts
    BY DEF Next, Load, ParseEmpty, StartAttempt, InitializeCharts, SetTerminals, InsideBinary, InsideUnary,
           RejectLevel, AcceptLevel, OutsideSpan, PruneCharts, Retrieve, Return
  <2>2. PICK t \in Complete(Trees) : t.unary /\ t.score * ThresholdDen >= threshold * SentenceScore
    BY DEF Trees
  <2>3. Own /\ pc = "prune" /\ AllFound(Trees)
    BY DEF IInv, Trees
  <2>4. t \in Complete(PrunedTrees)
    BY <2>2, <2>3, DominantLeft
  <2>5. Scoring /\ Found /\ Accounted /\ OutsideSummed
    <3>1. Scoring /\ Accounted /\ OutsideSummed
      BY <2>3 DEF Scoring, Passes, Scored
    <3> QED  BY <2>3, <3>1, AllAreFound
  <2> HIDE DEF Dominant
  <2>6. CanRetrieve(PrunedTag, PrunedSub)
    BY <2>2, <2>3, <2>4, <2>5, ConnectedRetrieved
  <2> QED  BY <2>1, <2>6 DEF PruneCharts
<1>2. IInv /\ Scored /\ [Next]_vars => Scored'
  BY StepScored DEF IInv
<1> HIDE DEF Gives
<1>3. Spec => [][Gives]_vars
  BY <1>1, <1>2, InitInv, StepInv, InitScored, PTL DEF Spec
<1> QED  BY <1>3 DEF Gives, Dominant
=============================================================================
