------------------------- MODULE M1Preparse_proofs -------------------------
(***************************************************************************)
(* Proofs about the M1 preparse, for every sentence, level-0 model, count  *)
(* and threshold.  Its scores are never negative, so the outside score of  *)
(* ROOT over the sentence, which starts at 1, can only grow.  The charts   *)
(* are closed under the rules, so they cover what level 0 can parse.  They *)
(* are sums over the trees of the G-1 grammar: by induction from short     *)
(* spans to long ones inside, and from children to parents outside.        *)
(***************************************************************************)
EXTENDS M1Preparse, DataLemmas

RootCell == <<Whole, RootTag>>

(* From the outside pass on, ROOT over the sentence has its outside score. *)
RootScored == pc \in {"outside", "prune", "done"} => outside[RootCell] >= 1

(* The words' scores, and the rules between the tags of the G-1 grammar    *)
(* that have a score.                                                      *)
Words == {c \in (0..(NumWords - 1)) \X TagIds : Terminal(c[1], c[2]) > 0}
Branches == {p \in Pairs : Binary(p[1], p[2]) > 0}
Chains == {t \in Lexicals : Unary(t) > 0}

WordsScored(W, ins) == \A c \in W : ins[<<<<c[1], c[1] + 1>>, c[2]>>] > 0

(* Over the span, what a rule makes of children with an inside score has   *)
(* one itself.                                                             *)
InsideClosed(B, U, ins, s) ==
  /\ \A p \in B, m \in Mids(s) :
       ins[<<<<s[1], m>>, p[1]>>] > 0 /\ ins[<<<<m, s[2]>>, p[2]>>] > 0 => ins[<<s, RootTag>>] > 0
  /\ \A t \in U : ins[<<s, t>>] > 0 => ins[<<s, RootTag>>] > 0

(* Over the span, an outside score is passed on to the child of every      *)
(* rule whose other child has an inside score.                             *)
OutsideClosed(B, U, ins, out, s) ==
  out[<<s, RootTag>>] > 0 =>
    /\ \A t \in U : out[<<s, t>>] > 0
    /\ \A p \in B, m \in Mids(s) :
         /\ ins[<<<<m, s[2]>>, p[2]>>] > 0 => out[<<<<s[1], m>>, p[1]>>] > 0
         /\ ins[<<<<s[1], m>>, p[1]>>] > 0 => out[<<<<m, s[2]>>, p[2]>>] > 0

(* The order of the two passes, and the spans they are done with.          *)
Size(s) == s[2] - s[1]
Before(s, t) == Size(s) < Size(t) \/ (Size(s) = Size(t) /\ s[1] < t[1])
BeforeDown(s, t) == Size(s) > Size(t) \/ (Size(s) = Size(t) /\ s[1] < t[1])

InsideDone(p, at, s) ==
  p # "terminals" /\ (p = "inside" => Before(s, at))
OutsideDone(p, at, s) ==
  p \in {"outside", "prune", "done"} /\ (p = "outside" => BeforeDown(s, at))

(* How far the two passes have come.                                       *)
Passes ==
  /\ Counts(model, weight)
  /\ pc = "terminals" => span = FirstSpan
  /\ pc = "root" => span = Whole
  /\ pc # "terminals" => WordsScored(Words, inside)
  /\ \A s \in Spans : InsideDone(pc, span, s) => InsideClosed(Branches, Chains, inside, s)
  /\ \A s \in Spans : OutsideDone(pc, span, s) => OutsideClosed(Branches, Chains, inside, outside, s)

IInv == TypeOK /\ RootScored /\ RootSurvives

-----------------------------------------------------------------------------
(* The ranges of the loops.                                                *)
LEMMA Shapes ==
  /\ NumWords \in Nat \ {0} /\ NumTags \in Nat \ {0} /\ 0 \in AllLevels
  /\ RootTag \in TagIds /\ IsFiniteSet(TagIds)
  /\ FirstSpan \in Spans /\ LastSpan \in Spans /\ Whole \in Spans /\ RootCell \in Cells
<1>1. NumWords \in Nat \ {0} /\ NumTags \in Nat \ {0} /\ 0 \in AllLevels
  BY InputAssumption, HierarchyAssumption DEF AllLevels
<1>2. RootTag \in TagIds /\ IsFiniteSet(TagIds)
  BY <1>1, FS_Interval DEF RootTag, TagIds
<1>3. FirstSpan \in Spans /\ LastSpan \in Spans /\ Whole \in Spans
  BY <1>1 DEF FirstSpan, LastSpan, Whole, Spans
<1> QED  BY <1>1, <1>2, <1>3 DEF Cells, RootCell

(* The first component of a symbol is a tag.                               *)
LEMMA SymbolTags == \A l \in AllLevels : \A S \in Symbols(l) : S[1] \in TagIds
BY DEF Symbols

(* The semi-terminals are tags.                                            *)
LEMMA LexicalTagIds ==
  ASSUME TypeOK
  PROVE  /\ Lexicals \subseteq TagIds /\ M1Tags \subseteq TagIds
         /\ IsFiniteSet(Lexicals) /\ IsFiniteSet(M1Tags)
<1>1. \A r \in DOMAIN model.lex : r[1] \in Symbols(0)
  BY InputAssumption DEF TypeOK, IsModel
<1>2. Lexicals \subseteq TagIds
  BY <1>1, SymbolTags, Shapes DEF Lexicals, LexicalTags
<1>3. M1Tags \subseteq TagIds
  BY <1>2, Shapes DEF M1Tags
<1> QED  BY <1>2, <1>3, Shapes, FS_Subset

(* The scores of the G-1 grammar are sums of weighted level-0 scores.      *)
LEMMA RuleScores ==
  ASSUME TypeOK
  PROVE  /\ \A l, r : Binary(l, r) \in Nat
         /\ \A c : Unary(c) \in Nat
<1>1. IsModel(model, 0) /\ \A t \in TagIds : weight[t] \in Nat
  BY InputAssumption DEF TypeOK
<1> DEFINE w(r) == weight[r[1][1]]
           bins(q) == {r \in DOMAIN model.bin : <<X, Up(r[2]), Up(r[3])>> = q}
           unas(q) == {r \in DOMAIN model.una : <<X, Up(r[2])>> = q}
           binTable(q) == [r \in bins(q) |-> w(r) * model.bin[r]]
           unaTable(q) == [r \in unas(q) |-> w(r) * model.una[r]]
<1>2. \A r \in DOMAIN model.bin : w(r) \in Nat /\ model.bin[r] \in Nat
  BY <1>1, SymbolTags, Shapes DEF IsModel
<1>3. \A r \in DOMAIN model.una : w(r) \in Nat /\ model.una[r] \in Nat
  BY <1>1, SymbolTags, Shapes DEF IsModel
<1>4. ASSUME NEW q PROVE SumFunction(binTable(q)) \in Nat /\ SumFunction(unaTable(q)) \in Nat
  <2>1. IsFiniteSet(bins(q)) /\ IsFiniteSet(unas(q))
    <3>1. bins(q) \in SUBSET DOMAIN model.bin /\ unas(q) \in SUBSET DOMAIN model.una
      OBVIOUS
    <3>2. IsFiniteSet(DOMAIN model.bin) /\ IsFiniteSet(DOMAIN model.una)
      BY <1>1 DEF IsModel
    <3> HIDE DEF bins, unas
    <3> QED  BY <3>1, <3>2, FS_Subset
  <2>2. \A m, n \in Nat : m * n \in Nat
    OBVIOUS
  <2>3. binTable(q) \in [bins(q) -> Nat] /\ unaTable(q) \in [unas(q) -> Nat]
    <3> HIDE DEF w
    <3> QED  BY <1>2, <1>3, <2>2
  <2> HIDE DEF bins, unas, binTable, unaTable
  <2> QED  BY <2>1, <2>3, SumOfNaturals
<1>5. /\ \A q \in DOMAIN M1Model.bin : M1Model.bin[q] = SumFunction(binTable(q))
      /\ \A q \in DOMAIN M1Model.una : M1Model.una[q] = SumFunction(unaTable(q))
  BY DEF M1Model, ProjectTable, SumOver
<1> HIDE DEF w, bins, unas, binTable, unaTable
<1> QED  BY <1>4, <1>5 DEF Binary, Unary

(* A word's score mixes naturals with weights that are naturals.           *)
LEMMA TerminalScores == ASSUME TypeOK PROVE \A b, t : Terminal(b, t) \in Nat
<1>1. IsModel(model, 0)
  BY InputAssumption DEF TypeOK
<1>2. \A P, u : Entry(model, P, u) \in Nat
  BY <1>1 DEF IsModel, Entry
<1> DEFINE unk(P) == [u \in UnkWords |-> Entry(model, P, u)]
<1>3. ASSUME NEW P PROVE SumFunction(unk(P)) \in Nat
  <2>1. unk(P) \in [UnkWords -> Nat]
    BY <1>2
  <2> HIDE DEF unk
  <2> QED  BY <2>1, SmoothingAssumption, SumOfNaturals
<1>4. \A P, u : WordScore(model, P, u) \in Nat
  <2> TAKE P, u
  <2>1. SmoothNum \in Nat /\ SmoothDen - SmoothNum \in Nat
    BY SmoothingAssumption
  <2> DEFINE e == Entry(model, P, u)
             k == SumFunction(unk(P))
  <2>2. e \in Nat /\ k \in Nat
    BY <1>2, <1>3
  <2>3. WordScore(model, P, u) = (SmoothDen - SmoothNum) * e + SmoothNum * k
    BY DEF WordScore, SumOver
  <2>4. \A m, n \in Nat : m * n \in Nat /\ m + n \in Nat
    OBVIOUS
  <2> HIDE DEF e, k, unk
  <2> QED  BY <2>1, <2>2, <2>3, <2>4
<1> QED  BY <1>4 DEF Terminal

(* Products of positive scores are positive.                               *)
LEMMA Products ==
  /\ \A m, n \in Nat : m * n \in Nat
  /\ \A m, n \in Nat : m > 0 /\ n > 0 => m * n > 0
OBVIOUS

(* What the rules add to the inside score of ROOT over a span, and when    *)
(* they add something.                                                     *)
LEMMA InsideSums ==
  ASSUME TypeOK, NEW s \in Spans
  PROVE  /\ BinarySum(s) \in Nat /\ UnarySum(s) \in Nat
         /\ \A p \in Branches, m \in Mids(s) :
              inside[<<<<s[1], m>>, p[1]>>] > 0 /\ inside[<<<<m, s[2]>>, p[2]>>] > 0 => BinarySum(s) > 0
         /\ \A t \in Chains : inside[<<s, t>>] > 0 => UnarySum(s) > 0
<1>1. inside \in [Cells -> Nat]
  BY DEF TypeOK
<1>2. \A m, n \in Nat : m * n \in Nat
  OBVIOUS
<1>3. UnarySum(s) \in Nat /\ \A t \in Chains : inside[<<s, t>>] > 0 => UnarySum(s) > 0
  <2> DEFINE f == [t \in Lexicals |-> Unary(t) * inside[<<s, t>>]]
  <2>1. \A t \in Lexicals : <<s, t>> \in Cells
    BY LexicalTagIds DEF Cells
  <2>2. f \in [Lexicals -> Nat]
    BY <1>1, <1>2, <2>1, RuleScores
  <2>3. SumFunction(f) \in Nat /\ \A t \in Lexicals : f[t] <= SumFunction(f)
    <3> HIDE DEF f
    <3> QED  BY <2>2, LexicalTagIds, SumOfNaturals
  <2>4. UnarySum(s) = SumFunction(f)
    BY DEF UnarySum, SumOver
  <2>5. ASSUME NEW t \in Chains, inside[<<s, t>>] > 0 PROVE UnarySum(s) > 0
    <3>1. t \in Lexicals /\ Unary(t) > 0 /\ Unary(t) \in Nat
      BY RuleScores DEF Chains
    <3>2. inside[<<s, t>>] \in Nat
      BY <1>1, <2>1, <3>1
    <3>3. f[t] > 0 /\ f[t] \in Nat
      BY <2>5, <3>1, <3>2, Products
    <3> HIDE DEF f
    <3> QED  BY <2>3, <2>4, <3>1, <3>3
  <2> HIDE DEF f
  <2> QED  BY <2>3, <2>4, <2>5
<1>4. /\ BinarySum(s) \in Nat
      /\ \A p \in Branches, m \in Mids(s) :
           inside[<<<<s[1], m>>, p[1]>>] > 0 /\ inside[<<<<m, s[2]>>, p[2]>>] > 0 => BinarySum(s) > 0
  <2> DEFINE value(u) == Binary(u[1][1], u[1][2]) * inside[<<<<s[1], u[2]>>, u[1][1]>>]
                                                  * inside[<<<<u[2], s[2]>>, u[1][2]>>]
             D == Pairs \X Mids(s)
             f == [u \in D |-> value(u)]
  <2>1. ASSUME NEW u \in D PROVE value(u) \in Nat
    <3>1. u[1][1] \in TagIds /\ u[1][2] \in TagIds /\ u[2] \in Mids(s)
      BY LexicalTagIds DEF Pairs
    <3>2. <<s[1], u[2]>> \in Spans /\ <<u[2], s[2]>> \in Spans
      BY <3>1, Shapes DEF Mids, Spans
    <3>3. /\ inside[<<<<s[1], u[2]>>, u[1][1]>>] \in Nat
          /\ inside[<<<<u[2], s[2]>>, u[1][2]>>] \in Nat
      BY <1>1, <3>1, <3>2 DEF Cells
    <3>4. Binary(u[1][1], u[1][2]) \in Nat
      BY RuleScores
    <3> QED  BY <1>2, <3>3, <3>4
  <2>2. IsFiniteSet(D)
    <3>1. IsFiniteSet(Mids(s))
      BY Shapes, FS_Interval DEF Mids, Spans
    <3>2. IsFiniteSet(Pairs)
      BY LexicalTagIds, FS_Product DEF Pairs
    <3> QED  BY <3>1, <3>2, FS_Product
  <2>3. f \in [D -> Nat]
    <3> HIDE DEF D, value
    <3> QED  BY <2>1
  <2>4. SumFunction(f) \in Nat /\ \A u \in D : f[u] <= SumFunction(f)
    <3> HIDE DEF D, f
    <3> QED  BY <2>2, <2>3, SumOfNaturals
  <2>5. BinarySum(s) = SumFunction(f)
    BY DEF BinarySum, SumOver
  <2>6. ASSUME NEW p \in Branches, NEW m \in Mids(s),
               inside[<<<<s[1], m>>, p[1]>>] > 0, inside[<<<<m, s[2]>>, p[2]>>] > 0
        PROVE  BinarySum(s) > 0
    <3> DEFINE u == <<p, m>>
    <3>1. u \in D /\ Binary(p[1], p[2]) > 0 /\ Binary(p[1], p[2]) \in Nat
      BY RuleScores DEF Branches
    <3>2. p[1] \in TagIds /\ p[2] \in TagIds
      BY LexicalTagIds DEF Branches, Pairs
    <3>3. <<s[1], m>> \in Spans /\ <<m, s[2]>> \in Spans
      BY Shapes DEF Mids, Spans
    <3>4. inside[<<<<s[1], m>>, p[1]>>] \in Nat /\ inside[<<<<m, s[2]>>, p[2]>>] \in Nat
      BY <1>1, <3>2, <3>3 DEF Cells
    <3>5. value(u) > 0 /\ value(u) \in Nat
      BY <2>6, <3>1, <3>4, Products
    <3>6. f[u] = value(u)
      BY <3>1
    <3> HIDE DEF f, D, value, u
    <3> QED  BY <2>4, <2>5, <3>1, <3>5, <3>6
  <2> HIDE DEF f, D
  <2> QED  BY <2>4, <2>5, <2>6
<1> QED  BY <1>3, <1>4

(* What a span adds to the outside score of a cell is not negative, and    *)
(* not zero if a rule passes a score on to the cell.                       *)
LEMMA OutsideShares ==
  ASSUME TypeOK, NEW c \in Cells
  PROVE  /\ UnaryShare(c) \in Nat /\ LeftShare(c) \in Nat /\ RightShare(c) \in Nat
         /\ Above > 0 /\ c[1] = span /\ c[2] \in Chains => UnaryShare(c) > 0
         /\ \A p \in Branches, m \in Mids(span) :
              /\ Above > 0 /\ c = <<<<span[1], m>>, p[1]>> /\ inside[<<<<m, span[2]>>, p[2]>>] > 0 =>
                   LeftShare(c) > 0
              /\ Above > 0 /\ c = <<<<m, span[2]>>, p[2]>> /\ inside[<<<<span[1], m>>, p[1]>>] > 0 =>
                   RightShare(c) > 0
<1>1. inside \in [Cells -> Nat] /\ outside \in [Cells -> Nat] /\ span \in Spans
  BY DEF TypeOK
<1>2. Above \in Nat
  BY <1>1, Shapes DEF Above, Cells
<1>3. \A m, n \in Nat : m * n \in Nat
  OBVIOUS
<1>4. UnaryShare(c) \in Nat /\ (Above > 0 /\ c[1] = span /\ c[2] \in Chains => UnaryShare(c) > 0)
  <2>1. \A t : Unary(t) \in Nat
    BY RuleScores
  <2> QED  BY <1>2, <2>1, Products DEF UnaryShare, Chains
<1>5. /\ LeftShare(c) \in Nat
      /\ c[1][1] = span[1] /\ c[1][2] \in Mids(span) /\ c[2] \in M1Tags /\ Above > 0 =>
           \A r \in M1Tags : Binary(c[2], r) > 0 /\ inside[<<<<c[1][2], span[2]>>, r>>] > 0 => LeftShare(c) > 0
  <2> SUFFICES ASSUME c[1][1] = span[1], c[1][2] \in Mids(span), c[2] \in M1Tags
               PROVE  /\ LeftShare(c) \in Nat
                      /\ Above > 0 => \A r \in M1Tags : Binary(c[2], r) > 0 /\ inside[<<<<c[1][2], span[2]>>, r>>] > 0 => LeftShare(c) > 0
    BY DEF LeftShare
  <2> DEFINE f == [r \in M1Tags |-> Binary(c[2], r) * Above * inside[<<<<c[1][2], span[2]>>, r>>]]
  <2>1. <<c[1][2], span[2]>> \in Spans
    BY <1>1, Shapes DEF Mids, Spans
  <2>2. \A r \in M1Tags : inside[<<<<c[1][2], span[2]>>, r>>] \in Nat
    BY <1>1, <2>1, LexicalTagIds DEF Cells
  <2>3. \A r \in M1Tags : Binary(c[2], r) \in Nat
    BY RuleScores
  <2>4. f \in [M1Tags -> Nat]
    BY <1>2, <2>2, <2>3, Products
  <2>5. SumFunction(f) \in Nat /\ \A r \in M1Tags : f[r] <= SumFunction(f)
    <3> HIDE DEF f
    <3> QED  BY <2>4, LexicalTagIds, SumOfNaturals
  <2>6. LeftShare(c) = SumFunction(f)
    BY DEF LeftShare, SumOver
  <2>7. ASSUME NEW r \in M1Tags, Above > 0, Binary(c[2], r) > 0, inside[<<<<c[1][2], span[2]>>, r>>] > 0 PROVE LeftShare(c) > 0
    <3>1. f[r] > 0 /\ f[r] \in Nat
      BY <1>2, <2>2, <2>3, <2>7, Products
    <3> HIDE DEF f
    <3> QED  BY <2>5, <2>6, <3>1
  <2> HIDE DEF f
  <2> QED  BY <2>5, <2>6, <2>7
<1>6. /\ RightShare(c) \in Nat
      /\ c[1][2] = span[2] /\ c[1][1] \in Mids(span) /\ c[2] \in M1Tags /\ Above > 0 =>
           \A l \in M1Tags : Binary(l, c[2]) > 0 /\ inside[<<<<span[1], c[1][1]>>, l>>] > 0 => RightShare(c) > 0
  <2> SUFFICES ASSUME c[1][2] = span[2], c[1][1] \in Mids(span), c[2] \in M1Tags
               PROVE  /\ RightShare(c) \in Nat
                      /\ Above > 0 => \A l \in M1Tags : Binary(l, c[2]) > 0 /\ inside[<<<<span[1], c[1][1]>>, l>>] > 0 => RightShare(c) > 0
    BY DEF RightShare
  <2> DEFINE f == [l \in M1Tags |-> Binary(l, c[2]) * Above * inside[<<<<span[1], c[1][1]>>, l>>]]
  <2>1. <<span[1], c[1][1]>> \in Spans
    BY <1>1, Shapes DEF Mids, Spans
  <2>2. \A l \in M1Tags : inside[<<<<span[1], c[1][1]>>, l>>] \in Nat
    BY <1>1, <2>1, LexicalTagIds DEF Cells
  <2>3. \A l \in M1Tags : Binary(l, c[2]) \in Nat
    BY RuleScores
  <2>4. f \in [M1Tags -> Nat]
    BY <1>2, <2>2, <2>3, Products
  <2>5. SumFunction(f) \in Nat /\ \A l \in M1Tags : f[l] <= SumFunction(f)
    <3> HIDE DEF f
    <3> QED  BY <2>4, LexicalTagIds, SumOfNaturals
  <2>6. RightShare(c) = SumFunction(f)
    BY DEF RightShare, SumOver
  <2>7. ASSUME NEW l \in M1Tags, Above > 0, Binary(l, c[2]) > 0, inside[<<<<span[1], c[1][1]>>, l>>] > 0 PROVE RightShare(c) > 0
    <3>1. f[l] > 0 /\ f[l] \in Nat
      BY <1>2, <2>2, <2>3, <2>7, Products
    <3> HIDE DEF f
    <3> QED  BY <2>5, <2>6, <3>1
  <2> HIDE DEF f
  <2> QED  BY <2>5, <2>6, <2>7
<1>7. ASSUME NEW p \in Branches, NEW m \in Mids(span), Above > 0, c = <<<<span[1], m>>, p[1]>>,
             inside[<<<<m, span[2]>>, p[2]>>] > 0
      PROVE  LeftShare(c) > 0
  <2>1. p[1] \in M1Tags /\ p[2] \in M1Tags /\ Binary(p[1], p[2]) > 0
    BY DEF Branches, Pairs
  <2>2. c[1][1] = span[1] /\ c[1][2] = m /\ c[2] = p[1]
    BY <1>7
  <2> QED  BY <1>5, <1>7, <2>1, <2>2
<1>8. ASSUME NEW p \in Branches, NEW m \in Mids(span), Above > 0, c = <<<<m, span[2]>>, p[2]>>,
             inside[<<<<span[1], m>>, p[1]>>] > 0
      PROVE  RightShare(c) > 0
  <2>1. p[1] \in M1Tags /\ p[2] \in M1Tags /\ Binary(p[1], p[2]) > 0
    BY DEF Branches, Pairs
  <2>2. c[1][1] = m /\ c[1][2] = span[2] /\ c[2] = p[2]
    BY <1>8
  <2> QED  BY <1>6, <1>8, <2>1, <2>2
<1> QED  BY <1>4, <1>5, <1>6, <1>7, <1>8

-----------------------------------------------------------------------------
(* The loops stay within the spans of the sentence.                        *)
LEMMA SpanSteps ==
  ASSUME NEW s \in Spans
  PROVE  /\ s # Whole => NextSpan(s) \in Spans
         /\ s # LastSpan => PreviousSpan(s) \in Spans
<1>1. s = <<s[1], s[2]>> /\ s[1] \in 0..NumWords /\ s[2] \in 0..NumWords /\ s[1] < s[2]
  BY DEF Spans
<1>2. s # Whole => NextSpan(s) \in Spans
  BY <1>1, Shapes DEF NextSpan, Spans, Whole
<1>3. s # LastSpan => PreviousSpan(s) \in Spans
  BY <1>1, Shapes DEF PreviousSpan, Spans, LastSpan
<1> QED  BY <1>2, <1>3

(* The sentence and the model do not change, nor do the scores from them.  *)
LEMMA RulesKept ==
  ASSUME UNCHANGED input
  PROVE  /\ Words' = Words /\ Branches' = Branches /\ Chains' = Chains
         /\ Lexicals' = Lexicals
         /\ Counts(model, weight)' = Counts(model, weight)
<1>1. sentence' = sentence /\ model' = model /\ weight' = weight
  BY DEF input
<1>2. Lexicals' = Lexicals
  BY <1>1 DEF Lexicals, LexicalTags
<1>3. M1Model' = M1Model
  BY <1>1, <1>2 DEF M1Model, Up, ProjectTable, SumOver
<1>4. \A l, r : Binary(l, r)' = Binary(l, r)
  BY <1>3 DEF Binary
<1>5. \A c : Unary(c)' = Unary(c)
  BY <1>3 DEF Unary
<1>6. \A b, t : Terminal(b, t)' = Terminal(b, t)
  BY <1>1 DEF Terminal, Abstract, WordScore, Entry, SumOver
<1>7. Words' = Words /\ Branches' = Branches /\ Chains' = Chains
  BY <1>2, <1>4, <1>5, <1>6 DEF Words, Branches, Chains, Pairs, M1Tags
<1>8. Counts(model, weight)' = Counts(model, weight)
  BY <1>1
<1> QED  BY <1>2, <1>7, <1>8

(* The loops go through the spans in order.                                *)
LEMMA SpanOrder ==
  ASSUME NEW s \in Spans, NEW t \in Spans
  PROVE  /\ s = <<s[1], s[2]>> /\ s[1] \in 0..NumWords /\ s[2] \in 0..NumWords /\ s[1] < s[2]
         /\ ~Before(s, FirstSpan) /\ ~BeforeDown(s, Whole)
         /\ t # Whole => (Before(s, NextSpan(t)) => Before(s, t) \/ s = t)
         /\ Before(s, Whole) \/ s = Whole
         /\ t # LastSpan => (BeforeDown(s, PreviousSpan(t)) => BeforeDown(s, t) \/ s = t)
         /\ BeforeDown(s, LastSpan) \/ s = LastSpan
<1>1. /\ s = <<s[1], s[2]>> /\ s[1] \in 0..NumWords /\ s[2] \in 0..NumWords /\ s[1] < s[2]
      /\ t = <<t[1], t[2]>> /\ t[1] \in 0..NumWords /\ t[2] \in 0..NumWords /\ t[1] < t[2]
      /\ NumWords \in Nat \ {0}
  BY Shapes DEF Spans
<1>2. \A a, b, c, d \in Nat : a = c /\ b = d => <<a, b>> = <<c, d>>
  OBVIOUS
<1>3. ~Before(s, FirstSpan) /\ ~BeforeDown(s, Whole)
  BY <1>1 DEF Before, BeforeDown, Size, FirstSpan, Whole
<1>4. t # Whole => (Before(s, NextSpan(t)) => Before(s, t) \/ s = t)
  BY <1>1, <1>2 DEF Before, Size, NextSpan, Whole
<1>5. Before(s, Whole) \/ s = Whole
  BY <1>1, <1>2 DEF Before, Size, Whole
<1>6. t # LastSpan => (BeforeDown(s, PreviousSpan(t)) => BeforeDown(s, t) \/ s = t)
  BY <1>1, <1>2 DEF BeforeDown, Size, PreviousSpan, LastSpan
<1>7. BeforeDown(s, LastSpan) \/ s = LastSpan
  BY <1>1, <1>2 DEF BeforeDown, Size, LastSpan
<1> QED  BY <1>1, <1>3, <1>4, <1>5, <1>6, <1>7

(* All scores start at zero.                                               *)
LEMMA InitInv == Init => IInv
BY Shapes DEF Init, IInv, TypeOK, RootScored, RootSurvives

(* The words' scores.                                                      *)
LEMMA SetTerminalsInv == IInv /\ SetTerminals => IInv'
<1> SUFFICES ASSUME IInv, SetTerminals PROVE IInv'
  OBVIOUS
<1>1. TypeOK'
  BY TerminalScores DEF IInv, TypeOK, SetTerminals, input
<1> QED  BY <1>1 DEF IInv, SetTerminals, RootScored, RootSurvives

(* The inside pass changes no outside score.                               *)
LEMMA InsideSpanInv == IInv /\ InsideSpan => IInv'
<1> SUFFICES ASSUME IInv, InsideSpan PROVE IInv'
  OBVIOUS
<1>1. TypeOK
  BY DEF IInv
<1>2. span \in Spans /\ inside \in [Cells -> Nat] /\ <<span, RootTag>> \in Cells
  BY <1>1, Shapes DEF TypeOK, Cells
<1>3. inside' \in [Cells -> Nat]
  <2> DEFINE v == (IF span[2] - span[1] > 1 THEN BinarySum(span) ELSE inside[<<span, RootTag>>])
                    + UnarySum(span)
  <2>1. v \in Nat
    BY <1>1, <1>2, InsideSums
  <2>2. inside' = [inside EXCEPT ![<<span, RootTag>>] = v]
    BY DEF InsideSpan
  <2> HIDE DEF v
  <2> QED  BY <1>2, <2>1, <2>2
<1>4. span' \in Spans
  BY <1>2, SpanSteps DEF InsideSpan
<1>5. TypeOK'
  BY <1>1, <1>3, <1>4 DEF TypeOK, InsideSpan, input
<1> QED  BY <1>5 DEF IInv, InsideSpan, RootScored, RootSurvives

(* The outside pass starts from ROOT over the sentence.                    *)
LEMMA StartOutsideInv == IInv /\ StartOutside => IInv'
<1> SUFFICES ASSUME IInv, StartOutside PROVE IInv'
  OBVIOUS
<1>1. TypeOK'
  BY DEF IInv, TypeOK, StartOutside, input
<1>2. outside'[RootCell] = 1
  BY Shapes DEF IInv, TypeOK, StartOutside, RootCell
<1> QED  BY <1>1, <1>2 DEF IInv, StartOutside, RootScored, RootSurvives

(* Every span only adds to the outside scores.                             *)
LEMMA OutsideSpanInv == IInv /\ OutsideSpan => IInv'
<1> SUFFICES ASSUME IInv, OutsideSpan PROVE IInv'
  OBVIOUS
<1>1. TypeOK
  BY DEF IInv
<1>2. \A c \in Cells : outside'[c] \in Nat /\ outside'[c] >= outside[c]
  <2> TAKE c \in Cells
  <2>1. outside'[c] = outside[c] + UnaryShare(c) + LeftShare(c) + RightShare(c)
    BY DEF OutsideSpan
  <2>2. outside[c] \in Nat
    BY <1>1 DEF TypeOK
  <2> QED  BY <1>1, <2>1, <2>2, OutsideShares
<1>3. outside' \in [Cells -> Nat]
  BY <1>2 DEF OutsideSpan
<1>4. span' \in Spans
  BY <1>1, SpanSteps DEF OutsideSpan, TypeOK
<1>5. TypeOK'
  BY <1>1, <1>3, <1>4 DEF TypeOK, OutsideSpan, input
<1>6. outside'[RootCell] >= 1
  BY <1>1, <1>2, Shapes DEF IInv, RootScored, OutsideSpan, TypeOK
<1> QED  BY <1>5, <1>6 DEF IInv, OutsideSpan, RootScored, RootSurvives

(* ROOT over the sentence reaches any threshold; a score of zero is        *)
(* reached by all.                                                         *)
LEMMA PruneInv == IInv /\ Prune => IInv'
<1> SUFFICES ASSUME IInv, Prune PROVE IInv'
  OBVIOUS
<1>1. TypeOK
  BY DEF IInv
<1>2. /\ inside \in [Cells -> Nat] /\ outside \in [Cells -> Nat] /\ outside[RootCell] >= 1
      /\ threshold \in 0..ThresholdDen /\ ThresholdDen \in Nat
      /\ pc' = "done" /\ UNCHANGED <<input, inside, outside, span>>
      /\ allowedTag' = [c \in Cells |-> Kept(c[1], IF c[2] \in Lexicals THEN c[2] ELSE RootTag)]
  BY <1>1, InputAssumption DEF TypeOK, IInv, RootScored, Prune
<1>3. \A c \in Cells : allowedTag'[c] \in BOOLEAN
  BY <1>2 DEF Kept
<1>4. TypeOK'
  BY <1>1, <1>2, <1>3 DEF TypeOK, input
<1>5. RootScored'
  BY <1>2 DEF RootScored, RootCell, Whole
<1>6. allowedTag'[RootCell]
  <2> DEFINE i == inside[RootCell]
             o == outside[RootCell]
  <2>1. i \in Nat /\ o \in Nat /\ o >= 1
    BY <1>2, Shapes
  <2>2. \A m, n \in Nat : m * n \in Nat
    OBVIOUS
  <2>3. i * o >= i
    <3> HIDE DEF i, o
    <3> QED  BY <2>1
  <2>4. \A j, k \in Nat : k >= j => k * ThresholdDen >= threshold * j
    <3> SUFFICES ASSUME NEW j \in Nat, NEW k \in Nat, k >= j PROVE k * ThresholdDen >= threshold * j
      OBVIOUS
    <3>1. k * ThresholdDen >= j * ThresholdDen
      BY <1>2
    <3>2. j * ThresholdDen >= j * threshold
      BY <1>2
    <3> QED  BY <1>2, <3>1, <3>2
  <2>5. i * o * ThresholdDen >= threshold * i
    <3> HIDE DEF i, o
    <3> QED  BY <2>1, <2>2, <2>3, <2>4
  <2> QED  BY <1>2, <2>5, Shapes DEF Kept, RootCell, Cells
<1>7. ASSUME inside[RootCell] = 0, NEW c \in Cells PROVE allowedTag'[c]
  <2> DEFINE t == IF c[2] \in Lexicals THEN c[2] ELSE RootTag
  <2>1. <<c[1], t>> \in Cells
    BY Shapes DEF Cells
  <2>2. inside[<<c[1], t>>] \in Nat /\ outside[<<c[1], t>>] \in Nat
    BY <1>2, <2>1
  <2>3. \A m, n \in Nat : m * n \in Nat
    OBVIOUS
  <2>4. inside[<<c[1], t>>] * outside[<<c[1], t>>] * ThresholdDen >= threshold * 0
    BY <1>2, <2>2, <2>3
  <2> QED  BY <1>2, <1>7, <2>4 DEF Kept, RootCell
<1>8. RootSurvives'
  BY <1>2, <1>6, <1>7 DEF RootSurvives, RootCell, Whole
<1> QED  BY <1>4, <1>5, <1>8 DEF IInv

(* The invariant is inductive.                                             *)
LEMMA StepInv == IInv /\ [Next]_vars => IInv'
<1>1. IInv /\ UNCHANGED vars => IInv'
  BY DEF IInv, vars, TypeOK, RootScored, RootSurvives
<1> QED
  BY <1>1, SetTerminalsInv, InsideSpanInv, StartOutsideInv, OutsideSpanInv, PruneInv DEF Next

-----------------------------------------------------------------------------
(* What the two passes have covered.                                       *)
LEMMA InitPasses == Init => Passes
<1> SUFFICES ASSUME Init PROVE Passes
  OBVIOUS
<1>1. pc = "terminals" /\ span = FirstSpan /\ Counts(model, weight)
  BY DEF Init
<1> QED  BY <1>1 DEF Passes, InsideDone, OutsideDone

(* The words come before any span.                                         *)
LEMMA SetTerminalsPasses == TypeOK /\ Passes /\ SetTerminals => Passes'
<1> SUFFICES ASSUME TypeOK, Passes, SetTerminals PROVE Passes'
  OBVIOUS
<1>1. /\ pc' = "inside" /\ span' = FirstSpan /\ UNCHANGED input
      /\ inside' = [c \in Cells |-> IF c[1][2] = c[1][1] + 1 THEN Terminal(c[1][1], c[2]) ELSE 0]
  BY DEF SetTerminals, Passes
<1>2. Words' = Words /\ Counts(model, weight)'
  BY <1>1, RulesKept DEF Passes
<1>3. WordsScored(Words, inside')
  <2> SUFFICES ASSUME NEW c \in Words PROVE inside'[<<<<c[1], c[1] + 1>>, c[2]>>] > 0
    BY DEF WordsScored
  <2>1. c[1] \in 0..(NumWords - 1) /\ c[2] \in TagIds /\ Terminal(c[1], c[2]) > 0
    BY DEF Words
  <2>2. <<<<c[1], c[1] + 1>>, c[2]>> \in Cells
    BY <2>1, Shapes DEF Cells, Spans
  <2> QED  BY <1>1, <2>1, <2>2
<1>4. \A s \in Spans : ~InsideDone(pc', span', s) /\ ~OutsideDone(pc', span', s)
  BY <1>1, SpanOrder, Shapes DEF InsideDone, OutsideDone
<1> QED  BY <1>1, <1>2, <1>3, <1>4 DEF Passes

(* A span's parts are shorter than the span.                               *)
LEMMA SpanParts ==
  ASSUME NEW s \in Spans, NEW m \in Mids(s)
  PROVE  /\ <<s[1], m>> \in Spans /\ <<m, s[2]>> \in Spans /\ Size(s) > 1
         /\ Size(<<s[1], m>>) < Size(s) /\ Size(<<m, s[2]>>) < Size(s)
         /\ \A t \in Spans : s = t \/ Before(s, t) => <<s[1], m>> # t /\ <<m, s[2]>> # t
<1>1. s[1] \in 0..NumWords /\ s[2] \in 0..NumWords /\ m \in (s[1] + 1)..(s[2] - 1) /\ NumWords \in Nat
  BY Shapes DEF Spans, Mids
<1>2. <<s[1], m>> \in Spans /\ <<m, s[2]>> \in Spans /\ Size(s) > 1
  BY <1>1 DEF Spans, Size
<1>3. Size(<<s[1], m>>) < Size(s) /\ Size(<<m, s[2]>>) < Size(s)
  BY <1>1 DEF Size
<1>4. \A t \in Spans : Size(t) \in Nat
  BY Shapes DEF Spans, Size
<1>5. \A t \in Spans : s = t \/ Before(s, t) => Size(s) <= Size(t)
  BY <1>4 DEF Before
<1> QED  BY <1>2, <1>3, <1>4, <1>5

(* The inside pass closes one span after the other.                        *)
LEMMA InsideSpanPasses == TypeOK /\ Passes /\ InsideSpan => Passes'
<1> SUFFICES ASSUME TypeOK, Passes, InsideSpan PROVE Passes'
  OBVIOUS
<1>1. /\ span \in Spans /\ inside \in [Cells -> Nat] /\ <<span, RootTag>> \in Cells
      /\ pc = "inside" /\ UNCHANGED <<input, outside>>
  BY Shapes DEF TypeOK, Cells, InsideSpan
<1> DEFINE v == (IF span[2] - span[1] > 1 THEN BinarySum(span) ELSE inside[<<span, RootTag>>])
                  + UnarySum(span)
<1>2. inside' = [inside EXCEPT ![<<span, RootTag>>] = v]
  BY DEF InsideSpan
<1>3. /\ \A c \in Cells : c # <<span, RootTag>> => inside'[c] = inside[c]
      /\ inside'[<<span, RootTag>>] = v
  <2> HIDE DEF v
  <2> QED  BY <1>1, <1>2
<1>4. Words' = Words /\ Branches' = Branches /\ Chains' = Chains /\ Counts(model, weight)'
  BY <1>1, RulesKept DEF Passes
<1>5. /\ pc' \in {"inside", "root"} /\ (pc' = "root" => span' = Whole)
      /\ \A s \in Spans : InsideDone(pc', span', s) => Before(s, span) \/ s = span
  BY <1>1, SpanOrder DEF InsideSpan, InsideDone
<1>6. BinarySum(span) \in Nat /\ UnarySum(span) \in Nat
  BY <1>1, InsideSums
<1>7. WordsScored(Words, inside')
  <2> SUFFICES ASSUME NEW c \in Words PROVE inside'[<<<<c[1], c[1] + 1>>, c[2]>>] > 0
    BY DEF WordsScored
  <2> DEFINE x == <<<<c[1], c[1] + 1>>, c[2]>>
  <2>1. x \in Cells
    BY Shapes DEF Words, Cells, Spans
  <2>2. inside[x] > 0
    BY <1>1 DEF Passes, WordsScored
  <2>3. CASE x = <<span, RootTag>>
    <3>1. span = <<c[1], c[1] + 1>> /\ c[1] \in Int
      BY <2>3 DEF Words
    <3>2. v = inside[<<span, RootTag>>] + UnarySum(span)
      BY <3>1
    <3>3. inside[<<span, RootTag>>] > 0 /\ inside[<<span, RootTag>>] \in Nat
      BY <1>1, <2>2, <2>3
    <3>4. v > 0
      BY <1>6, <3>2, <3>3
    <3> QED  BY <1>3, <2>3, <3>4
  <2>4. CASE x # <<span, RootTag>>
    BY <1>3, <2>1, <2>2, <2>4
  <2> QED  BY <2>3, <2>4
<1>8. ASSUME NEW s \in Spans, InsideDone(pc', span', s) PROVE InsideClosed(Branches, Chains, inside', s)
  <2>1. s = span \/ Before(s, span)
    BY <1>5, <1>8
  <2>2. ASSUME NEW p \in Branches, NEW m \in Mids(s)
        PROVE  /\ inside'[<<<<s[1], m>>, p[1]>>] = inside[<<<<s[1], m>>, p[1]>>]
               /\ inside'[<<<<m, s[2]>>, p[2]>>] = inside[<<<<m, s[2]>>, p[2]>>]
    <3>1. p[1] \in TagIds /\ p[2] \in TagIds
      BY LexicalTagIds DEF Branches, Pairs
    <3>2. /\ <<s[1], m>> \in Spans /\ <<m, s[2]>> \in Spans
          /\ <<s[1], m>> # span /\ <<m, s[2]>> # span
      BY <1>1, <2>1, SpanParts
    <3>3. <<<<s[1], m>>, p[1]>> \in Cells /\ <<<<m, s[2]>>, p[2]>> \in Cells
      BY <3>1, <3>2 DEF Cells
    <3>4. <<<<s[1], m>>, p[1]>> # <<span, RootTag>> /\ <<<<m, s[2]>>, p[2]>> # <<span, RootTag>>
      BY <3>2
    <3> QED  BY <1>3, <3>3, <3>4
  <2>3. ASSUME NEW t \in Chains, <<s, t>> # <<span, RootTag>> PROVE inside'[<<s, t>>] = inside[<<s, t>>]
    <3>1. <<s, t>> \in Cells
      BY LexicalTagIds DEF Chains, Cells
    <3> QED  BY <1>3, <2>3, <3>1
  <2>4. CASE s = span
    <3>1. ASSUME NEW p \in Branches, NEW m \in Mids(s),
                 inside'[<<<<s[1], m>>, p[1]>>] > 0, inside'[<<<<m, s[2]>>, p[2]>>] > 0
          PROVE  inside'[<<s, RootTag>>] > 0
      <4>1. BinarySum(span) > 0
        BY <1>1, <2>2, <2>4, <3>1, InsideSums
      <4>2. span[2] - span[1] > 1
        BY <2>4, SpanParts DEF Size
      <4> QED  BY <1>3, <1>6, <2>4, <4>1, <4>2
    <3>2. ASSUME NEW t \in Chains, inside'[<<s, t>>] > 0 PROVE inside'[<<s, RootTag>>] > 0
      <4>1. CASE t = RootTag
        BY <3>2, <4>1
      <4>2. CASE t # RootTag
        <5>1. UnarySum(span) > 0
          BY <1>1, <2>3, <2>4, <3>2, <4>2, InsideSums
        <5>2. inside[<<span, RootTag>>] \in Nat
          BY <1>1
        <5> QED  BY <1>3, <1>6, <2>4, <5>1, <5>2
      <4> QED  BY <4>1, <4>2
    <3> QED  BY <3>1, <3>2 DEF InsideClosed
  <2>5. CASE s # span
    <3>1. InsideClosed(Branches, Chains, inside, s)
      BY <1>1, <2>1, <2>5 DEF Passes, InsideDone
    <3>2. inside'[<<s, RootTag>>] = inside[<<s, RootTag>>]
      BY <1>3, <2>5, Shapes DEF Cells
    <3>3. \A t \in Chains : inside'[<<s, t>>] = inside[<<s, t>>]
      BY <2>3, <2>5
    <3> HIDE DEF v
    <3> QED  BY <2>2, <3>1, <3>2, <3>3 DEF InsideClosed
  <2> QED  BY <2>4, <2>5
<1>9. pc' # "terminals" /\ \A s \in Spans : ~OutsideDone(pc', span', s)
  BY <1>5 DEF OutsideDone
<1> HIDE DEF v
<1> QED  BY <1>4, <1>5, <1>7, <1>8, <1>9 DEF Passes

(* The outside pass starts above all spans.                                *)
LEMMA StartOutsidePasses == TypeOK /\ Passes /\ StartOutside => Passes'
<1> SUFFICES ASSUME TypeOK, Passes, StartOutside PROVE Passes'
  OBVIOUS
<1>1. /\ pc = "root" /\ pc' = "outside" /\ span = Whole /\ UNCHANGED <<input, inside, span>>
  BY DEF StartOutside, Passes
<1>2. Words' = Words /\ Branches' = Branches /\ Chains' = Chains /\ Counts(model, weight)'
  BY <1>1, RulesKept DEF Passes
<1>3. \A s \in Spans : InsideDone(pc, span, s) /\ ~OutsideDone(pc', span', s)
  BY <1>1, SpanOrder, Shapes DEF InsideDone, OutsideDone
<1> QED  BY <1>1, <1>2, <1>3 DEF Passes

(* The outside pass passes the scores on from one span after the other,    *)
(* and never again to a span it is done with.                              *)
LEMMA OutsideSpanPasses == TypeOK /\ Passes /\ OutsideSpan => Passes'
<1> SUFFICES ASSUME TypeOK, Passes, OutsideSpan PROVE Passes'
  OBVIOUS
<1>1. /\ span \in Spans /\ inside \in [Cells -> Nat] /\ outside \in [Cells -> Nat]
      /\ pc = "outside" /\ UNCHANGED <<input, inside>>
  BY DEF TypeOK, OutsideSpan
<1>2. \A c \in Cells : /\ outside'[c] = outside[c] + UnaryShare(c) + LeftShare(c) + RightShare(c)
                       /\ outside[c] \in Nat
  BY <1>1 DEF OutsideSpan
<1>3. \A c \in Cells : outside'[c] >= outside[c]
  BY <1>2, OutsideShares
<1>4. Words' = Words /\ Branches' = Branches /\ Chains' = Chains /\ Counts(model, weight)'
  BY <1>1, RulesKept DEF Passes
<1>5. /\ pc' \in {"outside", "prune"}
      /\ \A s \in Spans : OutsideDone(pc', span', s) => BeforeDown(s, span) \/ s = span
  BY <1>1, SpanOrder DEF OutsideSpan, OutsideDone
<1>6. ASSUME NEW s \in Spans, BeforeDown(s, span) \/ s = span, outside'[<<s, RootTag>>] > 0
      PROVE  outside[<<s, RootTag>>] > 0
  <2> DEFINE c == <<s, RootTag>>
  <2>1. c \in Cells
    BY Shapes DEF Cells
  <2>2. Size(s) >= Size(span)
    BY <1>1, <1>6, Shapes DEF BeforeDown, Size, Spans
  <2>3. \A m \in Mids(span) : s # <<span[1], m>> /\ s # <<m, span[2]>>
    <3> TAKE m \in Mids(span)
    <3> DEFINE l == <<span[1], m>>
               r == <<m, span[2]>>
    <3>1. l \in Spans /\ r \in Spans /\ Size(l) < Size(span) /\ Size(r) < Size(span)
      BY <1>1, SpanParts
    <3>2. Size(s) \in Nat /\ Size(span) \in Nat /\ Size(l) \in Nat /\ Size(r) \in Nat
      <4> HIDE DEF l, r
      <4> QED  BY <1>1, <3>1, Shapes DEF Size, Spans
    <3>3. Size(l) # Size(s) /\ Size(r) # Size(s)
      <4> HIDE DEF l, r
      <4> QED  BY <2>2, <3>1, <3>2
    <3> HIDE DEF l, r
    <3>4. s # l /\ s # r
      BY <3>3
    <3> QED  BY <3>4 DEF l, r
  <2>4. s = <<s[1], s[2]>>
    BY SpanOrder
  <2>5. LeftShare(c) = 0 /\ RightShare(c) = 0
    BY <2>3, <2>4 DEF LeftShare, RightShare
  <2>6. outside[c] = 0 => UnaryShare(c) = 0
    <3>1. Unary(RootTag) \in Nat
      BY RuleScores
    <3> QED  BY <3>1 DEF UnaryShare, Above
  <2> HIDE DEF c
  <2>7. outside'[c] = outside[c] + UnaryShare(c) /\ outside[c] \in Nat
    BY <1>2, <2>1, <2>5, OutsideShares
  <2>8. outside[c] > 0
    BY <1>6, <2>6, <2>7 DEF c
  <2> QED  BY <2>8 DEF c
<1>7. ASSUME NEW s \in Spans, OutsideDone(pc', span', s)
      PROVE  OutsideClosed(Branches, Chains, inside, outside', s)
  <2>1. SUFFICES ASSUME outside'[<<s, RootTag>>] > 0
                 PROVE  /\ \A t \in Chains : outside'[<<s, t>>] > 0
                        /\ \A p \in Branches, m \in Mids(s) :
                             /\ inside[<<<<m, s[2]>>, p[2]>>] > 0 => outside'[<<<<s[1], m>>, p[1]>>] > 0
                             /\ inside[<<<<s[1], m>>, p[1]>>] > 0 => outside'[<<<<m, s[2]>>, p[2]>>] > 0
    BY DEF OutsideClosed
  <2>2. outside[<<s, RootTag>>] > 0
    BY <1>5, <1>6, <1>7, <2>1
  <2>3. \A t \in Chains : <<s, t>> \in Cells
    BY LexicalTagIds DEF Chains, Cells
  <2>4. \A p \in Branches, m \in Mids(s) :
          <<<<s[1], m>>, p[1]>> \in Cells /\ <<<<m, s[2]>>, p[2]>> \in Cells
    <3> TAKE p \in Branches, m \in Mids(s)
    <3>1. p[1] \in TagIds /\ p[2] \in TagIds
      BY LexicalTagIds DEF Branches, Pairs
    <3>2. <<s[1], m>> \in Spans /\ <<m, s[2]>> \in Spans
      BY SpanParts
    <3> QED  BY <3>1, <3>2 DEF Cells
  <2>5. CASE s = span
    <3>1. Above > 0
      BY <2>2, <2>5 DEF Above
    <3>2. ASSUME NEW t \in Chains PROVE outside'[<<s, t>>] > 0
      <4> DEFINE c == <<s, t>>
      <4>1. c \in Cells /\ c[1] = span /\ c[2] \in Chains
        BY <2>3, <2>5
      <4> HIDE DEF c
      <4>2. outside'[c] > 0
        BY <1>2, <3>1, <4>1, OutsideShares
      <4> QED  BY <4>2 DEF c
    <3>3. ASSUME NEW p \in Branches, NEW m \in Mids(s), inside[<<<<m, s[2]>>, p[2]>>] > 0
          PROVE  outside'[<<<<s[1], m>>, p[1]>>] > 0
      <4> DEFINE c == <<<<s[1], m>>, p[1]>>
      <4>1. c \in Cells /\ c = <<<<span[1], m>>, p[1]>> /\ inside[<<<<m, span[2]>>, p[2]>>] > 0
            /\ m \in Mids(span)
        BY <2>4, <2>5, <3>3
      <4> HIDE DEF c
      <4>2. LeftShare(c) > 0
        BY <3>1, <4>1, OutsideShares
      <4>3. outside'[c] > 0
        BY <1>2, <4>1, <4>2, OutsideShares
      <4> QED  BY <4>3 DEF c
    <3>4. ASSUME NEW p \in Branches, NEW m \in Mids(s), inside[<<<<s[1], m>>, p[1]>>] > 0
          PROVE  outside'[<<<<m, s[2]>>, p[2]>>] > 0
      <4> DEFINE c == <<<<m, s[2]>>, p[2]>>
      <4>1. c \in Cells /\ c = <<<<m, span[2]>>, p[2]>> /\ inside[<<<<span[1], m>>, p[1]>>] > 0
            /\ m \in Mids(span)
        BY <2>4, <2>5, <3>4
      <4> HIDE DEF c
      <4>2. RightShare(c) > 0
        BY <3>1, <4>1, OutsideShares
      <4>3. outside'[c] > 0
        BY <1>2, <4>1, <4>2, OutsideShares
      <4> QED  BY <4>3 DEF c
    <3> QED  BY <3>2, <3>3, <3>4
  <2>6. CASE s # span
    <3>1. OutsideClosed(Branches, Chains, inside, outside, s)
      BY <1>1, <1>5, <1>7, <2>6 DEF Passes, OutsideDone
    <3>2. \A c \in Cells : outside[c] > 0 => outside'[c] > 0
      <4> TAKE c \in Cells
      <4>1. outside'[c] >= outside[c] /\ outside[c] \in Nat /\ outside'[c] \in Nat
        BY <1>2, <1>3, OutsideShares
      <4> QED  BY <4>1
    <3> QED  BY <2>2, <2>3, <2>4, <3>1, <3>2 DEF OutsideClosed
  <2> QED  BY <2>5, <2>6
<1>8. \A s \in Spans : InsideDone(pc, span, s)
  BY <1>1 DEF InsideDone
<1> QED  BY <1>1, <1>4, <1>5, <1>7, <1>8 DEF Passes

(* Pruning changes no score.                                               *)
LEMMA PrunePasses == TypeOK /\ Passes /\ Prune => Passes'
<1> SUFFICES ASSUME TypeOK, Passes, Prune PROVE Passes'
  OBVIOUS
<1>1. pc = "prune" /\ pc' = "done" /\ UNCHANGED <<input, inside, outside, span>>
  BY DEF Prune
<1>2. Words' = Words /\ Branches' = Branches /\ Chains' = Chains /\ Counts(model, weight)'
  BY <1>1, RulesKept DEF Passes
<1>3. \A s \in Spans : InsideDone(pc, span, s) /\ OutsideDone(pc, span, s)
  BY <1>1 DEF InsideDone, OutsideDone
<1> QED  BY <1>1, <1>2, <1>3 DEF Passes

(* The passes keep to their order.                                         *)
LEMMA StepPasses == TypeOK /\ Passes /\ [Next]_vars => Passes'
<1>1. Passes /\ UNCHANGED vars => Passes'
  <2> SUFFICES ASSUME Passes, UNCHANGED vars PROVE Passes'
    OBVIOUS
  <2>1. UNCHANGED <<pc, inside, outside, span>> /\ UNCHANGED input
    BY DEF vars, input
  <2>2. Words' = Words /\ Branches' = Branches /\ Chains' = Chains /\ Counts(model, weight)'
    BY <2>1, RulesKept DEF Passes
  <2> QED  BY <2>1, <2>2 DEF Passes
<1> QED
  BY <1>1, SetTerminalsPasses, InsideSpanPasses, StartOutsidePasses, OutsideSpanPasses, PrunePasses
  DEF Next

-----------------------------------------------------------------------------
(* The trees of level 0, with the table of shorter ones written out.       *)
Words0(b) == [S \in {<<t, 0>> : t \in TagIds} |-> Level0Terminal(b, S)]

WordTrees(b) == {WordTree(P, b, Words0(b)[P]) : P \in {Q \in DOMAIN Words0(b) : TRUE /\ Words0(b)[Q] > 0}}

Splits(f, b, e, m) ==
  {u \in (DOMAIN Level0Model.bin) \X f[<<b, m>>] \X f[<<m, e>>] :
     TRUE /\ u[1][2] = u[2].sym /\ u[1][3] = u[3].sym}

BinaryTrees(f, b, e) ==
  UNION {{BinaryTree(u[1][1], u[2], u[3], Level0Model.bin[u[1]]) : u \in Splits(f, b, e, m)} :
           m \in (b + 1)..(e - 1)}

PlainTrees(f, b, e) == IF e = b + 1 THEN WordTrees(b) ELSE BinaryTrees(f, b, e)

Raised(plain) ==
  {UnaryTree(u[1][1], u[2], Level0Model.una[u[1]]) :
     u \in {v \in (DOMAIN Level0Model.una) \X plain :
              TRUE /\ v[1][2] = v[2].sym /\ v[1][1][1] # v[1][2][1]}}

TreesAt(f, s) == PlainTrees(f, s[1], s[2]) \cup Raised(PlainTrees(f, s[1], s[2]))

TreeTable(f) == [s \in Spans |-> TreesAt(f, s)]

(* This is the set of trees the property is about.                         *)
LEMMA SameTrees == Level0Trees = CHOOSE f : f = TreeTable(f)
BY DEF Level0Trees, TreesOver, Spans, TreeTable, TreesAt, Raised, PlainTrees, BinaryTrees, Splits,
       WordTrees, Words0

(* The trees over a span need only those over shorter ones.                *)
LEMMA ShorterTrees ==
  ASSUME NEW f, NEW h, NEW s \in Spans, \A t \in Spans : Size(t) < Size(s) => f[t] = h[t]
  PROVE  TreesAt(f, s) = TreesAt(h, s)
<1>1. \A m \in Mids(s) : f[<<s[1], m>>] = h[<<s[1], m>>] /\ f[<<m, s[2]>>] = h[<<m, s[2]>>]
  BY SpanParts
<1>2. BinaryTrees(f, s[1], s[2]) = BinaryTrees(h, s[1], s[2])
  <2> DEFINE made(u) == BinaryTree(u[1][1], u[2], u[3], Level0Model.bin[u[1]])
             row(g, m) == {made(u) : u \in Splits(g, s[1], s[2], m)}
  <2>1. \A g : BinaryTrees(g, s[1], s[2]) = UNION {row(g, m) : m \in Mids(s)}
    BY DEF BinaryTrees, Mids
  <2>2. \A m \in Mids(s) : Splits(f, s[1], s[2], m) = Splits(h, s[1], s[2], m)
    BY <1>1 DEF Splits
  <2>3. \A m \in Mids(s) : row(f, m) = row(h, m)
    <3> HIDE DEF made
    <3> QED  BY <2>2
  <2> HIDE DEF row, made
  <2> QED  BY <2>1, <2>3
<1> QED  BY <1>2 DEF TreesAt, PlainTrees

(* Spans have a length of at most the sentence's.                          *)
LEMMA Sizes == \A s \in Spans : Size(s) \in Nat \ {0} /\ Size(s) <= NumWords
BY Shapes DEF Spans, Size

(* So the table exists, and is what its definition says.                   *)
LEMMA TreesExist == Level0Trees = TreeTable(Level0Trees)
<1> DEFINE Solved(k) == \E f : /\ f = [s \in Spans |-> f[s]]
                               /\ \A s \in Spans : Size(s) <= k => f[s] = TreesAt(f, s)
           S == {k \in Nat : Solved(k)}
<1>1. 0 \in S
  <2> DEFINE f == [s \in Spans |-> {}]
  <2>1. f = [s \in Spans |-> f[s]]
    OBVIOUS
  <2>2. \A s \in Spans : ~(Size(s) <= 0)
    BY Sizes
  <2> HIDE DEF f
  <2>3. Solved(0)
    BY <2>1, <2>2
  <2> QED  BY <2>3
<1>2. ASSUME NEW k \in Nat, k \in S PROVE k + 1 \in S
  <2>1. PICK f : /\ f = [s \in Spans |-> f[s]]
                 /\ \A s \in Spans : Size(s) <= k => f[s] = TreesAt(f, s)
    BY <1>2
  <2> DEFINE h == [s \in Spans |-> IF Size(s) <= k THEN f[s] ELSE TreesAt(f, s)]
  <2>2. h = [s \in Spans |-> h[s]]
    OBVIOUS
  <2>3. ASSUME NEW s \in Spans, Size(s) <= k + 1 PROVE h[s] = TreesAt(h, s)
    <3>1. h[s] = TreesAt(f, s)
      BY <2>1
    <3>2. \A t \in Spans : Size(t) < Size(s) => f[t] = h[t]
      BY <2>3, Sizes
    <3> HIDE DEF h
    <3>3. TreesAt(f, s) = TreesAt(h, s)
      BY <3>2, ShorterTrees
    <3> QED  BY <3>1, <3>3
  <2>4. Solved(k + 1)
    <3> HIDE DEF h
    <3> QED  BY <2>2, <2>3
  <2> HIDE DEF Solved
  <2> QED  BY <2>4
<1>3. NumWords \in S
  <2> HIDE DEF S
  <2> QED  BY <1>1, <1>2, SetInduction, Shapes
<1>4. PICK f : f = [s \in Spans |-> f[s]] /\ \A s \in Spans : f[s] = TreesAt(f, s)
  BY <1>3, Sizes
<1>5. f = TreeTable(f)
  BY <1>4 DEF TreeTable
<1> QED  BY <1>5, SameTrees

(* The G-1 tag under which the charts keep a symbol of level 0.            *)
Tag(S) == Up(S)[1]

(* Level 0 has one symbol for each tag.                                    *)
LEMMA TagsOfSymbols ==
  ASSUME TypeOK
  PROVE  /\ \A S \in Symbols(0) : S[1] \in TagIds /\ S = <<S[1], 0>>
         /\ \A S \in Symbols(0) : Up(S) = <<Tag(S), 0>> /\ Tag(S) \in M1Tags /\ Tag(S) \in TagIds
         /\ \A S : S[1] \notin Lexicals => Tag(S) = RootTag
         /\ \A S : S[1] \in Lexicals => Tag(S) = S[1]
<1>1. \A t \in TagIds : NumSub[t][0] = 1
  BY HierarchyAssumption
<1>2. \A S \in Symbols(0) : S[1] \in TagIds /\ S = <<S[1], 0>>
  BY <1>1 DEF Symbols
<1>3. \A S : /\ S[1] \notin Lexicals => Tag(S) = RootTag
             /\ S[1] \in Lexicals => Tag(S) = S[1]
  BY DEF Tag, Up, X
<1>4. ASSUME NEW S \in Symbols(0) PROVE Up(S) = <<Tag(S), 0>> /\ Tag(S) \in M1Tags /\ Tag(S) \in TagIds
  <2>1. CASE S[1] \in Lexicals
    BY <1>2, <1>3, <2>1, LexicalTagIds DEF Up, M1Tags
  <2>2. CASE S[1] \notin Lexicals
    BY <1>3, <2>2, LexicalTagIds DEF Up, X, M1Tags
  <2> QED  BY <2>1, <2>2
<1> QED  BY <1>2, <1>3, <1>4

(* Every rule that level 0 uses, of a tag with a count, has a rule of the  *)
(* G-1 grammar with a score, or is a unary rule between phrases.           *)
LEMMA RulesUsed ==
  ASSUME TypeOK
  PROVE  /\ \A r \in DOMAIN Level0Model.bin :
              /\ Tag(r[1]) = RootTag
              /\ weight[r[1][1]] > 0 => <<Tag(r[2]), Tag(r[3])>> \in Branches
         /\ \A r \in DOMAIN Level0Model.una :
              /\ Tag(r[1]) = RootTag
              /\ weight[r[1][1]] > 0 => Tag(r[2]) \in Chains \/ Tag(r[2]) = RootTag
<1>1. IsModel(model, 0) /\ \A t \in TagIds : weight[t] \in Nat
  BY InputAssumption DEF TypeOK
<1>2. /\ \A r \in DOMAIN Level0Model.bin :
           r \in DOMAIN model.bin /\ r[1][1] \notin Lexicals /\ model.bin[r] > 0
      /\ \A r \in DOMAIN Level0Model.una :
           r \in DOMAIN model.una /\ r[1][1] \notin Lexicals /\ model.una[r] > 0
  BY DEF Level0Model, Used
<1> DEFINE w(r) == weight[r[1][1]]
           bins(q) == {r \in DOMAIN model.bin : <<X, Up(r[2]), Up(r[3])>> = q}
           unas(q) == {r \in DOMAIN model.una : <<X, Up(r[2])>> = q}
           binTable(q) == [r \in bins(q) |-> w(r) * model.bin[r]]
           unaTable(q) == [r \in unas(q) |-> w(r) * model.una[r]]
<1>3. \A r \in DOMAIN model.bin : w(r) \in Nat /\ model.bin[r] \in Nat
  BY <1>1, SymbolTags, Shapes DEF IsModel
<1>4. \A r \in DOMAIN model.una : w(r) \in Nat /\ model.una[r] \in Nat
  BY <1>1, SymbolTags, Shapes DEF IsModel
<1>5. IsFiniteSet(DOMAIN model.bin) /\ IsFiniteSet(DOMAIN model.una)
  BY <1>1 DEF IsModel
<1>6. /\ \A q \in DOMAIN M1Model.bin : M1Model.bin[q] = SumFunction(binTable(q))
      /\ \A q \in DOMAIN M1Model.una : M1Model.una[q] = SumFunction(unaTable(q))
      /\ \A r \in DOMAIN model.bin : <<X, Up(r[2]), Up(r[3])>> \in DOMAIN M1Model.bin
      /\ \A r \in DOMAIN model.una : <<X, Up(r[2])>> \in DOMAIN M1Model.una
  BY DEF M1Model, ProjectTable, SumOver
<1>7. ASSUME NEW r \in DOMAIN Level0Model.bin, w(r) > 0 PROVE <<Tag(r[2]), Tag(r[3])>> \in Branches
  <2> DEFINE q == <<X, Up(r[2]), Up(r[3])>>
  <2>1. r \in bins(q)
    BY <1>2
  <2>2. IsFiniteSet(bins(q)) /\ binTable(q) \in [bins(q) -> Nat]
    <3>1. bins(q) \in SUBSET DOMAIN model.bin
      OBVIOUS
    <3>2. binTable(q) \in [bins(q) -> Nat]
      <4> HIDE DEF w, q
      <4> QED  BY <1>3, Products
    <3> HIDE DEF bins, binTable, q
    <3> QED  BY <1>5, <3>1, <3>2, FS_Subset
  <2>3. binTable(q)[r] > 0 /\ binTable(q)[r] \in Nat
    <3> HIDE DEF w, q
    <3> QED  BY <1>2, <1>3, <1>7, <2>1, Products
  <2>4. SumFunction(binTable(q)) > 0
    <3> HIDE DEF bins, binTable, q
    <3>1. binTable(q)[r] <= SumFunction(binTable(q)) /\ SumFunction(binTable(q)) \in Nat
      BY <2>1, <2>2, SumOfNaturals
    <3> QED  BY <2>3, <3>1
  <2>5. r[2] \in Symbols(0) /\ r[3] \in Symbols(0)
    BY <1>1, <1>2 DEF IsModel
  <2>6. q = <<X, <<Tag(r[2]), 0>>, <<Tag(r[3]), 0>>>> /\ Tag(r[2]) \in M1Tags /\ Tag(r[3]) \in M1Tags
    BY <2>5, TagsOfSymbols
  <2>7. q \in DOMAIN M1Model.bin /\ M1Model.bin[q] > 0
    <3> HIDE DEF bins, binTable
    <3> QED  BY <1>2, <1>6, <2>4
  <2> HIDE DEF q
  <2>8. Binary(Tag(r[2]), Tag(r[3])) > 0
    BY <2>6, <2>7 DEF Binary
  <2> QED  BY <2>6, <2>8 DEF Branches, Pairs
<1>8. ASSUME NEW r \in DOMAIN Level0Model.una, w(r) > 0, Tag(r[2]) # RootTag PROVE Tag(r[2]) \in Chains
  <2> DEFINE q == <<X, Up(r[2])>>
  <2>1. r \in unas(q)
    BY <1>2
  <2>2. IsFiniteSet(unas(q)) /\ unaTable(q) \in [unas(q) -> Nat]
    <3>1. unas(q) \in SUBSET DOMAIN model.una
      OBVIOUS
    <3>2. unaTable(q) \in [unas(q) -> Nat]
      <4> HIDE DEF w, q
      <4> QED  BY <1>4, Products
    <3> HIDE DEF unas, unaTable, q
    <3> QED  BY <1>5, <3>1, <3>2, FS_Subset
  <2>3. unaTable(q)[r] > 0 /\ unaTable(q)[r] \in Nat
    <3> HIDE DEF w, q
    <3> QED  BY <1>2, <1>4, <1>8, <2>1, Products
  <2>4. SumFunction(unaTable(q)) > 0
    <3> HIDE DEF unas, unaTable, q
    <3>1. unaTable(q)[r] <= SumFunction(unaTable(q)) /\ SumFunction(unaTable(q)) \in Nat
      BY <2>1, <2>2, SumOfNaturals
    <3> QED  BY <2>3, <3>1
  <2>5. r[2] \in Symbols(0)
    BY <1>1, <1>2 DEF IsModel
  <2>6. q = <<X, <<Tag(r[2]), 0>>>> /\ Tag(r[2]) \in Lexicals
    BY <1>8, <2>5, TagsOfSymbols DEF M1Tags
  <2>7. q \in DOMAIN M1Model.una /\ M1Model.una[q] > 0
    <3> HIDE DEF unas, unaTable
    <3> QED  BY <1>2, <1>6, <2>4
  <2> HIDE DEF q
  <2>8. Unary(Tag(r[2])) > 0
    BY <2>6, <2>7 DEF Unary
  <2> QED  BY <2>6, <2>8 DEF Chains
<1> HIDE DEF bins, unas, binTable, unaTable
<1> QED  BY <1>2, <1>7, <1>8, TagsOfSymbols

(* Only the tags that derive words have a score for a word.                *)
LEMMA ScoredTags ==
  ASSUME TypeOK, NEW t, NEW u, WordScore(model, <<t, 0>>, u) > 0
  PROVE  t \in Lexicals
<1> SUFFICES ASSUME t \notin Lexicals PROVE FALSE
  OBVIOUS
<1>1. \A v : Entry(model, <<t, 0>>, v) = 0
  <2> SUFFICES ASSUME NEW v, <<<<t, 0>>, v>> \in DOMAIN model.lex PROVE FALSE
    BY DEF Entry
  <2>1. <<<<t, 0>>, v>>[1][1] = t
    OBVIOUS
  <2> QED  BY <2>1 DEF Lexicals, LexicalTags
<1> DEFINE f == [v \in UnkWords |-> Entry(model, <<t, 0>>, v)]
<1>2. SumFunction(f) \in {0}
  <2>1. f \in [UnkWords -> {0}]
    BY <1>1
  <2>2. \A x, y \in {0} : x + y \in {0}
    OBVIOUS
  <2>3. IsFiniteSet(UnkWords) /\ 0 \in {0}
    BY SmoothingAssumption
  <2> HIDE DEF f
  <2> QED  BY <2>1, <2>2, <2>3, SumClosed
<1>3. WordScore(model, <<t, 0>>, u) = (SmoothDen - SmoothNum) * 0 + SmoothNum * SumFunction(f)
  BY <1>1 DEF WordScore, SumOver
<1> HIDE DEF f
<1>4. WordScore(model, <<t, 0>>, u) = 0
  BY <1>2, <1>3, SmoothingAssumption
<1> QED  BY <1>4

(* The charts cover a tree over the span, if its tag has a count: all of   *)
(* its cells have an inside score, and the root passes an outside score on *)
(* to all of them.                                                         *)
Cell(x) == <<x[1], Tag(x[2])>>

Covered(s, tree) ==
  /\ tree.span = s /\ tree.sym \in Symbols(0)
  /\ <<s, tree.sym>> \in tree.cells
  /\ \A x \in tree.cells : Cell(x) \in Cells
  /\ weight[tree.sym[1]] > 0 =>
       /\ \A x \in tree.cells : inside[Cell(x)] > 0
       /\ outside[<<s, Tag(tree.sym)>>] > 0 => \A x \in tree.cells : outside[Cell(x)] > 0

(* What the passes leave for the trees.                                    *)
PassesDone ==
  /\ TypeOK /\ Counts(model, weight) /\ WordsScored(Words, inside)
  /\ \A s \in Spans : /\ InsideClosed(Branches, Chains, inside, s)
                       /\ OutsideClosed(Branches, Chains, inside, outside, s)
  /\ \A b \in 0..(NumWords - 1) : ~LexicalToken(b)

(* A word, also one of an abstract tag of phrases.                         *)
LEMMA WordCovered ==
  ASSUME PassesDone, NEW s \in Spans, s[2] = s[1] + 1, NEW tree \in WordTrees(s[1])
  PROVE  Covered(s, tree)
<1> DEFINE b == s[1]
<1>1. TypeOK /\ WordsScored(Words, inside)
  BY DEF PassesDone
<1>2. b \in 0..(NumWords - 1) /\ s = <<b, b + 1>>
  <2>1. s = <<s[1], s[2]>> /\ s[1] \in 0..NumWords /\ s[2] \in 0..NumWords /\ NumWords \in Nat
    BY SpanOrder, Shapes
  <2> QED  BY <2>1
<1>3. PICK t \in TagIds : Level0Terminal(b, <<t, 0>>) > 0
                          /\ tree = WordTree(<<t, 0>>, b, Words0(b)[<<t, 0>>])
  BY DEF WordTrees, Words0
<1> DEFINE S == <<t, 0>>
<1>4. S \in Symbols(0)
  BY HierarchyAssumption DEF Symbols
<1>5. <<b, Tag(S)>> \in Words
  <2>1. Tag(S) \in TagIds
    BY <1>1, <1>4, TagsOfSymbols
  <2>2. CASE Abstract(b)
    <3>1. t = sentence[b + 1].tid
      BY <1>3, <2>2 DEF Level0Terminal
    <3>2. t \notin Lexicals
      BY <1>2, <2>2, <3>1 DEF PassesDone, LexicalToken
    <3>3. Tag(S) = RootTag
      BY <1>1, <3>2, TagsOfSymbols
    <3>4. Terminal(b, Tag(S)) = 1
      BY <2>2, <3>3 DEF Terminal
    <3> QED  BY <1>2, <2>1, <3>4 DEF Words
  <2>3. CASE ~Abstract(b)
    <3>1. WordScore(model, S, sentence[b + 1].wid) > 0
      BY <1>3, <2>3 DEF Level0Terminal
    <3>2. t \in Lexicals
      BY <1>1, <3>1, ScoredTags
    <3>3. Tag(S) = t
      BY <1>1, <3>2, TagsOfSymbols
    <3>4. Terminal(b, Tag(S)) > 0
      BY <2>3, <3>1, <3>3 DEF Terminal
    <3> QED  BY <1>2, <2>1, <3>4 DEF Words
  <2> QED  BY <2>2, <2>3
<1>6. inside[<<s, Tag(S)>>] > 0 /\ <<s, Tag(S)>> \in Cells
  BY <1>1, <1>2, <1>4, <1>5, TagsOfSymbols DEF WordsScored, Cells
<1>7. tree.span = s /\ tree.sym = S /\ tree.cells = {<<s, S>>}
  BY <1>2, <1>3 DEF WordTree
<1>8. \A x \in tree.cells : Cell(x) = <<s, Tag(S)>>
  BY <1>7 DEF Cell
<1> HIDE DEF b, S
<1> QED  BY <1>4, <1>6, <1>7, <1>8 DEF Covered

(* Two trees under a binary rule.                                          *)
LEMMA BinaryCovered ==
  ASSUME PassesDone, NEW s \in Spans, NEW m \in Mids(s), NEW r \in DOMAIN Level0Model.bin,
         NEW l, NEW g, r[2] = l.sym, r[3] = g.sym,
         Covered(<<s[1], m>>, l), Covered(<<m, s[2]>>, g), NEW score
  PROVE  Covered(s, BinaryTree(r[1], l, g, score))
<1> DEFINE tree == BinaryTree(r[1], l, g, score)
           a == <<s[1], m>>
           d == <<m, s[2]>>
<1>1. /\ TypeOK /\ InsideClosed(Branches, Chains, inside, s)
      /\ OutsideClosed(Branches, Chains, inside, outside, s)
  BY DEF PassesDone
<1>2. l.span = a /\ g.span = d /\ s = <<s[1], s[2]>>
  BY SpanOrder DEF Covered
<1>3. /\ tree.span = s /\ tree.sym = r[1]
      /\ tree.cells = l.cells \cup g.cells \cup {<<s, r[1]>>}
  BY <1>2 DEF BinaryTree
<1>4. Tag(r[1]) = RootTag
  BY <1>1, RulesUsed
<1>5. r[1] \in Symbols(0)
  BY <1>1, InputAssumption DEF TypeOK, IsModel, Level0Model, Used
<1>6. weight[r[1][1]] > 0 => weight[r[2][1]] > 0 /\ weight[r[3][1]] > 0
  BY DEF PassesDone, Counts, Level0Model, Used
<1>7. \A x \in tree.cells : x \in l.cells \/ x \in g.cells \/ Cell(x) = <<s, RootTag>>
  BY <1>3, <1>4 DEF Cell
<1>8. <<s, RootTag>> \in Cells
  BY Shapes DEF Cells
<1> HIDE DEF tree
<1>9. \A x \in tree.cells : Cell(x) \in Cells
  BY <1>7, <1>8 DEF Covered
<1>10. ASSUME weight[r[1][1]] > 0
       PROVE  /\ \A x \in tree.cells : inside[Cell(x)] > 0
              /\ outside[<<s, RootTag>>] > 0 => \A x \in tree.cells : outside[Cell(x)] > 0
  <2>1. <<Tag(r[2]), Tag(r[3])>> \in Branches
    BY <1>1, <1>10, RulesUsed
  <2>2. inside[<<a, Tag(r[2])>>] > 0 /\ inside[<<d, Tag(r[3])>>] > 0
    BY <1>6, <1>10 DEF Covered, Cell
  <2>3. inside[<<s, RootTag>>] > 0
    BY <1>1, <2>1, <2>2 DEF InsideClosed
  <2>4. outside[<<s, RootTag>>] > 0 => outside[<<a, Tag(r[2])>>] > 0 /\ outside[<<d, Tag(r[3])>>] > 0
    BY <1>1, <2>1, <2>2 DEF OutsideClosed
  <2> QED  BY <1>6, <1>7, <1>10, <2>3, <2>4 DEF Covered
<1>11. Covered(s, tree)
  BY <1>3, <1>4, <1>5, <1>9, <1>10 DEF Covered
<1> QED  BY <1>11 DEF tree

(* A word or a binary rule under a unary rule.                             *)
LEMMA UnaryCovered ==
  ASSUME PassesDone, NEW s \in Spans, NEW r \in DOMAIN Level0Model.una,
         NEW c, r[2] = c.sym, Covered(s, c), NEW score
  PROVE  Covered(s, UnaryTree(r[1], c, score))
<1> DEFINE tree == UnaryTree(r[1], c, score)
<1>1. /\ TypeOK /\ InsideClosed(Branches, Chains, inside, s)
      /\ OutsideClosed(Branches, Chains, inside, outside, s)
  BY DEF PassesDone
<1>2. tree.span = s /\ tree.sym = r[1] /\ tree.cells = c.cells \cup {<<s, r[1]>>}
  BY DEF UnaryTree, Covered
<1>3. Tag(r[1]) = RootTag
  BY <1>1, RulesUsed
<1>4. r[1] \in Symbols(0)
  BY <1>1, InputAssumption DEF TypeOK, IsModel, Level0Model, Used
<1>5. weight[r[1][1]] > 0 => weight[r[2][1]] > 0
  BY DEF PassesDone, Counts, Level0Model, Used
<1>6. \A x \in tree.cells : x \in c.cells \/ Cell(x) = <<s, RootTag>>
  BY <1>2, <1>3 DEF Cell
<1>7. <<s, RootTag>> \in Cells
  BY Shapes DEF Cells
<1> HIDE DEF tree
<1>8. \A x \in tree.cells : Cell(x) \in Cells
  BY <1>6, <1>7 DEF Covered
<1>9. ASSUME weight[r[1][1]] > 0
      PROVE  /\ \A x \in tree.cells : inside[Cell(x)] > 0
             /\ outside[<<s, RootTag>>] > 0 => \A x \in tree.cells : outside[Cell(x)] > 0
  <2>1. Tag(r[2]) \in Chains \/ Tag(r[2]) = RootTag
    BY <1>1, <1>9, RulesUsed
  <2>2. inside[<<s, Tag(r[2])>>] > 0
    BY <1>5, <1>9 DEF Covered, Cell
  <2>3. inside[<<s, RootTag>>] > 0
    BY <1>1, <2>1, <2>2 DEF InsideClosed
  <2>4. outside[<<s, RootTag>>] > 0 => outside[<<s, Tag(r[2])>>] > 0
    BY <1>1, <2>1 DEF OutsideClosed
  <2> QED  BY <1>5, <1>6, <1>9, <2>3, <2>4 DEF Covered
<1>10. Covered(s, tree)
  BY <1>2, <1>3, <1>4, <1>8, <1>9 DEF Covered
<1> QED  BY <1>10 DEF tree

(* All trees of level 0, by the length of their spans.                     *)
LEMMA TreesCovered ==
  ASSUME PassesDone
  PROVE  \A s \in Spans : \A tree \in Level0Trees[s] : Covered(s, tree)
<1> DEFINE T == Level0Trees
           S == {k \in Nat : \A s \in Spans : Size(s) <= k => \A tree \in T[s] : Covered(s, tree)}
<1>1. \A s \in Spans : T[s] = TreesAt(T, s)
  <2> HIDE DEF T
  <2>1. T = TreeTable(T)
    BY TreesExist DEF T
  <2> QED  BY <2>1 DEF TreeTable
<1> HIDE DEF T
<1>2. 0 \in S
  <2>1. \A s \in Spans : ~(Size(s) <= 0)
    BY Sizes
  <2> QED  BY <2>1
<1>3. ASSUME NEW k \in Nat, k \in S PROVE k + 1 \in S
  <2> SUFFICES ASSUME NEW s \in Spans, Size(s) <= k + 1, NEW tree \in TreesAt(T, s)
               PROVE  Covered(s, tree)
    BY <1>1
  <2>1. ASSUME NEW c \in PlainTrees(T, s[1], s[2]) PROVE Covered(s, c)
    <3>1. CASE s[2] = s[1] + 1
      BY <2>1, <3>1, WordCovered DEF PlainTrees
    <3>2. CASE s[2] # s[1] + 1
      <4>1. c \in BinaryTrees(T, s[1], s[2])
        BY <2>1, <3>2 DEF PlainTrees
      <4>2. PICK m \in Mids(s) : \E u \in Splits(T, s[1], s[2], m) :
                   c = BinaryTree(u[1][1], u[2], u[3], Level0Model.bin[u[1]])
        BY <4>1 DEF BinaryTrees, Mids
      <4>3. PICK u \in Splits(T, s[1], s[2], m) : c = BinaryTree(u[1][1], u[2], u[3], Level0Model.bin[u[1]])
        BY <4>2
      <4>4. /\ u[1] \in DOMAIN Level0Model.bin /\ u[2] \in T[<<s[1], m>>] /\ u[3] \in T[<<m, s[2]>>]
            /\ u[1][2] = u[2].sym /\ u[1][3] = u[3].sym
        BY DEF Splits
      <4>5. /\ <<s[1], m>> \in Spans /\ <<m, s[2]>> \in Spans
            /\ Size(<<s[1], m>>) <= k /\ Size(<<m, s[2]>>) <= k
        BY SpanParts, Sizes
      <4>6. Covered(<<s[1], m>>, u[2]) /\ Covered(<<m, s[2]>>, u[3])
        BY <1>3, <4>4, <4>5
      <4> QED  BY <4>3, <4>4, <4>6, BinaryCovered
    <3> QED  BY <3>1, <3>2
  <2>2. CASE tree \in PlainTrees(T, s[1], s[2])
    BY <2>1, <2>2
  <2>3. CASE tree \in Raised(PlainTrees(T, s[1], s[2]))
    <3>1. PICK r \in DOMAIN Level0Model.una, c \in PlainTrees(T, s[1], s[2]) :
                 r[2] = c.sym /\ tree = UnaryTree(r[1], c, Level0Model.una[r])
      BY <2>3 DEF Raised
    <3> QED  BY <2>1, <3>1, UnaryCovered
  <2> QED  BY <2>2, <2>3 DEF TreesAt
<1>4. NumWords \in S
  <2> HIDE DEF S
  <2> QED  BY <1>2, <1>3, SetInduction, Shapes
<1> QED  BY <1>4, Sizes DEF T

(* When the passes are over, a level-0 parse has a posterior everywhere.   *)
LEMMA PassesCover == TypeOK /\ RootScored /\ Passes => CoversLevel0
<1> SUFFICES ASSUME TypeOK, RootScored, Passes, pc = "prune",
                    \A b \in 0..(NumWords - 1) : ~LexicalToken(b),
                    NEW tree \in Complete(Level0Trees), NEW x \in tree.cells
             PROVE  inside[<<x[1], Up(x[2])[1]>>] * outside[<<x[1], Up(x[2])[1]>>] > 0
  BY DEF CoversLevel0
<1>1. PassesDone
  BY DEF PassesDone, Passes, InsideDone, OutsideDone
<1>2. Whole \in Spans /\ outside[RootCell] >= 1 /\ outside[RootCell] \in Nat
  BY Shapes DEF RootScored, TypeOK
<1>3. tree \in Level0Trees[Whole] /\ tree.sym = X
  BY DEF Complete
<1>4. Covered(Whole, tree)
  BY <1>1, <1>2, <1>3, TreesCovered
<1>5. Tag(X) = RootTag
  BY DEF Tag, Up, X
<1>6. outside[<<Whole, Tag(tree.sym)>>] > 0 /\ weight[tree.sym[1]] > 0
  BY <1>1, <1>2, <1>3, <1>5 DEF RootCell, PassesDone, Counts, X
<1>7. Cell(x) \in Cells /\ inside[Cell(x)] > 0 /\ outside[Cell(x)] > 0
  BY <1>4, <1>6 DEF Covered
<1>8. inside[Cell(x)] \in Nat /\ outside[Cell(x)] \in Nat
  BY <1>7 DEF TypeOK
<1>9. inside[Cell(x)] * outside[Cell(x)] > 0
  BY <1>7, <1>8, Products
<1> QED  BY <1>9 DEF Cell, Tag

(* Scores are naturals, and the loops stay on the spans of the sentence.   *)
THEOREM TypeCorrect == Spec => []TypeOK
<1>1. Init => IInv
  BY InitInv
<1>2. IInv /\ [Next]_vars => IInv'
  BY StepInv
<1>3. IInv => TypeOK
  BY DEF IInv
<1> QED  BY <1>1, <1>2, <1>3, PTL DEF Spec

(* Whatever the model, the counts and the threshold, the preparse leaves   *)
(* ROOT over the sentence, and everything if it finds no parse.            *)
THEOREM NeverFailsAlone == Spec => []RootSurvives
<1>1. Init => IInv
  BY InitInv
<1>2. IInv /\ [Next]_vars => IInv'
  BY StepInv
<1>3. IInv => RootSurvives
  BY DEF IInv
<1> QED  BY <1>1, <1>2, <1>3, PTL DEF Spec

(* Whatever the model, the counts, the sentence and its abstract tags of   *)
(* phrases, all constituents of a level-0 parse have a positive posterior  *)
(* in the preparse: only the threshold can prune them.                     *)
THEOREM CoversParses == Spec => []CoversLevel0
<1>1. Init => IInv /\ Passes
  BY InitInv, InitPasses
<1>2. (IInv /\ Passes) /\ [Next]_vars => (IInv /\ Passes)'
  <2>1. IInv => TypeOK
    BY DEF IInv
  <2> QED  BY <2>1, StepInv, StepPasses
<1>3. IInv /\ Passes => CoversLevel0
  BY PassesCover DEF IInv
<1> QED  BY <1>1, <1>2, <1>3, PTL DEF Spec

-----------------------------------------------------------------------------
(* The trees of the G-1 grammar, with the table of shorter ones written    *)
(* out.                                                                    *)
Words1(b) == [S \in {<<t, 0>> : t \in TagIds} |-> Terminal(b, S[1])]

WordTrees1(b) == {WordTree(P, b, Words1(b)[P]) : P \in {Q \in DOMAIN Words1(b) : TRUE /\ Words1(b)[Q] > 0}}

Splits1(f, b, e, m) ==
  {u \in (DOMAIN M1Model.bin) \X f[<<b, m>>] \X f[<<m, e>>] :
     TRUE /\ u[1][2] = u[2].sym /\ u[1][3] = u[3].sym}

BinaryTrees1(f, b, e) ==
  UNION {{BinaryTree(u[1][1], u[2], u[3], M1Model.bin[u[1]]) : u \in Splits1(f, b, e, m)} :
           m \in (b + 1)..(e - 1)}

PlainTrees1(f, b, e) == IF e = b + 1 THEN WordTrees1(b) ELSE BinaryTrees1(f, b, e)

Raised1(plain) ==
  {UnaryTree(u[1][1], u[2], M1Model.una[u[1]]) :
     u \in {v \in (DOMAIN M1Model.una) \X plain :
              TRUE /\ v[1][2] = v[2].sym /\ v[1][1][1] # v[1][2][1]}}

TreesAt1(f, s) == PlainTrees1(f, s[1], s[2]) \cup Raised1(PlainTrees1(f, s[1], s[2]))

TreeTable1(f) == [s \in Spans |-> TreesAt1(f, s)]

(* This is the set of trees the property is about.                         *)
LEMMA SameTrees1 == M1Trees = CHOOSE f : f = TreeTable1(f)
BY DEF M1Trees, TreesOver, Spans, TreeTable1, TreesAt1, Raised1, PlainTrees1, BinaryTrees1, Splits1,
       WordTrees1, Words1

(* The trees over a span need only those over shorter ones.                *)
LEMMA ShorterTrees1 ==
  ASSUME NEW f, NEW h, NEW s \in Spans, \A t \in Spans : Size(t) < Size(s) => f[t] = h[t]
  PROVE  TreesAt1(f, s) = TreesAt1(h, s)
<1>1. \A m \in Mids(s) : f[<<s[1], m>>] = h[<<s[1], m>>] /\ f[<<m, s[2]>>] = h[<<m, s[2]>>]
  BY SpanParts
<1>2. BinaryTrees1(f, s[1], s[2]) = BinaryTrees1(h, s[1], s[2])
  <2> DEFINE made(u) == BinaryTree(u[1][1], u[2], u[3], M1Model.bin[u[1]])
             row(g, m) == {made(u) : u \in Splits1(g, s[1], s[2], m)}
  <2>1. \A g : BinaryTrees1(g, s[1], s[2]) = UNION {row(g, m) : m \in Mids(s)}
    BY DEF BinaryTrees1, Mids
  <2>2. \A m \in Mids(s) : Splits1(f, s[1], s[2], m) = Splits1(h, s[1], s[2], m)
    BY <1>1 DEF Splits1
  <2>3. \A m \in Mids(s) : row(f, m) = row(h, m)
    <3> HIDE DEF made
    <3> QED  BY <2>2
  <2> HIDE DEF row, made
  <2> QED  BY <2>1, <2>3
<1> QED  BY <1>2 DEF TreesAt1, PlainTrees1

(* So the table exists, and is what its definition says.                   *)
LEMMA TreesExist1 == \A s \in Spans : M1Trees[s] = TreesAt1(M1Trees, s)
<1> DEFINE Solved(k) == \E f : /\ f = [s \in Spans |-> f[s]]
                               /\ \A s \in Spans : Size(s) <= k => f[s] = TreesAt1(f, s)
           S == {k \in Nat : Solved(k)}
<1>1. 0 \in S
  <2> DEFINE f == [s \in Spans |-> {}]
  <2>1. f = [s \in Spans |-> f[s]]
    OBVIOUS
  <2>2. \A s \in Spans : ~(Size(s) <= 0)
    BY Sizes
  <2> HIDE DEF f
  <2>3. Solved(0)
    BY <2>1, <2>2
  <2> QED  BY <2>3
<1>2. ASSUME NEW k \in Nat, k \in S PROVE k + 1 \in S
  <2>1. PICK f : /\ f = [s \in Spans |-> f[s]]
                 /\ \A s \in Spans : Size(s) <= k => f[s] = TreesAt1(f, s)
    BY <1>2
  <2> DEFINE h == [s \in Spans |-> IF Size(s) <= k THEN f[s] ELSE TreesAt1(f, s)]
  <2>2. h = [s \in Spans |-> h[s]]
    OBVIOUS
  <2>3. ASSUME NEW s \in Spans, Size(s) <= k + 1 PROVE h[s] = TreesAt1(h, s)
    <3>1. h[s] = TreesAt1(f, s)
      BY <2>1
    <3>2. \A t \in Spans : Size(t) < Size(s) => f[t] = h[t]
      BY <2>3, Sizes
    <3> HIDE DEF h
    <3>3. TreesAt1(f, s) = TreesAt1(h, s)
      BY <3>2, ShorterTrees1
    <3> QED  BY <3>1, <3>3
  <2>4. Solved(k + 1)
    <3> HIDE DEF h
    <3> QED  BY <2>2, <2>3
  <2> HIDE DEF Solved
  <2> QED  BY <2>4
<1>3. NumWords \in S
  <2> HIDE DEF S
  <2> QED  BY <1>1, <1>2, SetInduction, Shapes
<1>4. PICK f : f = [s \in Spans |-> f[s]] /\ \A s \in Spans : f[s] = TreesAt1(f, s)
  BY <1>3, Sizes
<1>5. f = TreeTable1(f)
  BY <1>4 DEF TreeTable1
<1>6. M1Trees = TreeTable1(M1Trees)
  BY <1>5, SameTrees1
<1> QED  BY <1>6 DEF TreeTable1

-----------------------------------------------------------------------------
(* The three kinds of G-1 trees over a span.                               *)
Sym(t) == <<t, 0>>
BinRule(l, r) == <<X, Sym(l), Sym(r)>>
UnaRule(t) == <<X, Sym(t)>>

Word(b, t) == WordTree(Sym(t), b, Terminal(b, t))
Raise(t, c) == UnaryTree(X, c, Unary(t))
Join(l, r, x, y) == BinaryTree(X, x, y, Binary(l, r))

(* The trees over a span whose symbol is that of the tag.                  *)
Of(s, t) == {x \in M1Trees[s] : x.sym = Sym(t)}

IsWord(s, x) ==
  Size(s) = 1 /\ \E t \in M1Tags : Terminal(s[1], t) > 0 /\ x = Word(s[1], t)

IsRaised(s, x) ==
  Size(s) = 1 /\ \E t \in Lexicals : /\ Terminal(s[1], t) > 0 /\ UnaRule(t) \in DOMAIN M1Model.una
                                     /\ x = Raise(t, Word(s[1], t))

IsJoined(s, x) ==
  \E m \in Mids(s), p \in Pairs :
    \E l \in Of(<<s[1], m>>, p[1]), r \in Of(<<m, s[2]>>, p[2]) :
      BinRule(p[1], p[2]) \in DOMAIN M1Model.bin /\ x = Join(p[1], p[2], l, r)

(* ROOT is not the tag of a word, and the parent of all rules.             *)
LEMMA G1Rules ==
  ASSUME TypeOK
  PROVE  /\ RootTag \notin Lexicals
         /\ \A q \in DOMAIN M1Model.bin : \E p \in Pairs : q = BinRule(p[1], p[2])
         /\ \A q \in DOMAIN M1Model.una : \E t \in M1Tags : q = UnaRule(t)
         /\ \A l, r : BinRule(l, r) \in DOMAIN M1Model.bin => M1Model.bin[BinRule(l, r)] = Binary(l, r)
         /\ \A l, r : BinRule(l, r) \notin DOMAIN M1Model.bin => Binary(l, r) = 0
         /\ \A t : UnaRule(t) \in DOMAIN M1Model.una => M1Model.una[UnaRule(t)] = Unary(t)
         /\ \A t : UnaRule(t) \notin DOMAIN M1Model.una => Unary(t) = 0
<1>1. RootTag \notin Lexicals /\ IsModel(model, 0)
  BY InputAssumption DEF TypeOK, Lexicals
<1>2. /\ \A q \in DOMAIN M1Model.bin : \E r \in DOMAIN model.bin : q = <<X, Up(r[2]), Up(r[3])>>
      /\ \A q \in DOMAIN M1Model.una : \E r \in DOMAIN model.una : q = <<X, Up(r[2])>>
  BY DEF M1Model, ProjectTable
<1>3. \A q \in DOMAIN M1Model.bin : \E p \in Pairs : q = BinRule(p[1], p[2])
  <2> TAKE q \in DOMAIN M1Model.bin
  <2>1. PICK r \in DOMAIN model.bin : q = <<X, Up(r[2]), Up(r[3])>>
    BY <1>2
  <2>2. r[2] \in Symbols(0) /\ r[3] \in Symbols(0)
    BY <1>1 DEF IsModel
  <2>3. /\ Up(r[2]) = Sym(Tag(r[2])) /\ Up(r[3]) = Sym(Tag(r[3]))
        /\ Tag(r[2]) \in M1Tags /\ Tag(r[3]) \in M1Tags
    BY <2>2, TagsOfSymbols DEF Sym
  <2>4. <<Tag(r[2]), Tag(r[3])>> \in Pairs
    BY <2>3 DEF Pairs
  <2> QED  BY <2>1, <2>3, <2>4 DEF BinRule
<1>4. \A q \in DOMAIN M1Model.una : \E t \in M1Tags : q = UnaRule(t)
  <2> TAKE q \in DOMAIN M1Model.una
  <2>1. PICK r \in DOMAIN model.una : q = <<X, Up(r[2])>>
    BY <1>2
  <2>2. r[2] \in Symbols(0)
    BY <1>1 DEF IsModel
  <2> QED  BY <2>1, <2>2, TagsOfSymbols DEF Sym, UnaRule
<1> QED  BY <1>1, <1>3, <1>4 DEF Binary, Unary, BinRule, UnaRule, Sym

(* Only tags of the G-1 grammar have a score for a word.                   *)
LEMMA WordTags == ASSUME TypeOK PROVE \A b, t : Terminal(b, t) > 0 => t \in M1Tags
BY ScoredTags DEF Terminal, M1Tags

(* Symbols are those of tags.                                              *)
LEMMA SymOfTag == /\ X = Sym(RootTag) /\ \A t, u : Sym(t) = Sym(u) => t = u
                  /\ \A t : Sym(t)[1] = t
BY DEF X, Sym

(* The trees over a span, by their kinds.                                  *)
LEMMA TreeKinds ==
  ASSUME TypeOK, NEW s \in Spans
  PROVE  \A x : x \in M1Trees[s] <=> IsWord(s, x) \/ IsRaised(s, x) \/ IsJoined(s, x)
<1> DEFINE T == M1Trees
<1>1. s = <<s[1], s[2]>> /\ s[1] \in 0..(NumWords - 1) /\ s[2] \in 1..NumWords /\ (Size(s) = 1 <=> s[2] = s[1] + 1)
  BY SpanOrder, Shapes DEF Size
<1>2. \A x : x \in WordTrees1(s[1]) <=> \E t \in M1Tags : Terminal(s[1], t) > 0 /\ x = Word(s[1], t)
  <2>1. \A x : x \in WordTrees1(s[1]) <=> \E t \in TagIds : Terminal(s[1], t) > 0 /\ x = Word(s[1], t)
    <3> DEFINE W == Words1(s[1])
    <3>1. DOMAIN W = {Sym(t) : t \in TagIds} /\ \A t \in TagIds : W[Sym(t)] = Terminal(s[1], t)
      BY DEF Words1, Sym
    <3>2. \A x : x \in WordTrees1(s[1]) <=> \E P \in DOMAIN W : W[P] > 0 /\ x = WordTree(P, s[1], W[P])
      BY DEF WordTrees1
    <3> HIDE DEF W
    <3>3. \A x : (\E P \in DOMAIN W : W[P] > 0 /\ x = WordTree(P, s[1], W[P]))
              <=> \E t \in TagIds : W[Sym(t)] > 0 /\ x = WordTree(Sym(t), s[1], W[Sym(t)])
      BY <3>1
    <3> QED  BY <3>1, <3>2, <3>3 DEF Word
  <2> QED  BY <2>1, WordTags, LexicalTagIds
<1>3. \A x : x \in BinaryTrees1(T, s[1], s[2]) <=> IsJoined(s, x)
  <2> TAKE x
  <2> HIDE DEF T
  <2>1. ASSUME x \in BinaryTrees1(T, s[1], s[2]) PROVE IsJoined(s, x)
    <3>1. PICK m \in Mids(s) : \E u \in Splits1(T, s[1], s[2], m) :
                   x = BinaryTree(u[1][1], u[2], u[3], M1Model.bin[u[1]])
      BY <2>1 DEF BinaryTrees1, Mids
    <3>2. PICK u \in Splits1(T, s[1], s[2], m) : x = BinaryTree(u[1][1], u[2], u[3], M1Model.bin[u[1]])
      BY <3>1
    <3>3. /\ u[1] \in DOMAIN M1Model.bin /\ u[2] \in T[<<s[1], m>>] /\ u[3] \in T[<<m, s[2]>>]
          /\ u[1][2] = u[2].sym /\ u[1][3] = u[3].sym
      BY DEF Splits1
    <3>4. PICK p \in Pairs : u[1] = BinRule(p[1], p[2])
      BY <3>3, G1Rules
    <3>5. u[1][1] = X /\ u[2].sym = Sym(p[1]) /\ u[3].sym = Sym(p[2])
          /\ M1Model.bin[u[1]] = Binary(p[1], p[2]) /\ BinRule(p[1], p[2]) \in DOMAIN M1Model.bin
      <4>1. M1Model.bin[u[1]] = Binary(p[1], p[2])
        BY <3>3, <3>4, G1Rules
      <4> QED  BY <3>3, <3>4, <4>1 DEF BinRule
    <3>6. u[2] \in Of(<<s[1], m>>, p[1]) /\ u[3] \in Of(<<m, s[2]>>, p[2])
      BY <3>3, <3>5 DEF Of, T
    <3>7. x = Join(p[1], p[2], u[2], u[3])
      BY <3>2, <3>5 DEF Join
    <3> QED  BY <3>5, <3>6, <3>7 DEF IsJoined
  <2>2. ASSUME IsJoined(s, x) PROVE x \in BinaryTrees1(T, s[1], s[2])
    <3>1. PICK m \in Mids(s), p \in Pairs :
            \E l \in Of(<<s[1], m>>, p[1]), r \in Of(<<m, s[2]>>, p[2]) :
              BinRule(p[1], p[2]) \in DOMAIN M1Model.bin /\ x = Join(p[1], p[2], l, r)
      BY <2>2 DEF IsJoined
    <3>2. PICK l \in Of(<<s[1], m>>, p[1]), r \in Of(<<m, s[2]>>, p[2]) :
              BinRule(p[1], p[2]) \in DOMAIN M1Model.bin /\ x = Join(p[1], p[2], l, r)
      BY <3>1
    <3>3. l \in T[<<s[1], m>>] /\ l.sym = Sym(p[1]) /\ r \in T[<<m, s[2]>>] /\ r.sym = Sym(p[2])
      BY DEF Of, T
    <3> DEFINE q == BinRule(p[1], p[2])
               u == <<q, l, r>>
    <3>4. q[1] = X /\ q[2] = l.sym /\ q[3] = r.sym
      BY <3>3 DEF BinRule
    <3>5. M1Model.bin[q] = Binary(p[1], p[2]) /\ q \in DOMAIN M1Model.bin
      BY <3>2, G1Rules
    <3> HIDE DEF q
    <3>6. u \in Splits1(T, s[1], s[2], m)
      BY <3>3, <3>4, <3>5 DEF Splits1
    <3>7. x = BinaryTree(u[1][1], u[2], u[3], M1Model.bin[u[1]])
      BY <3>2, <3>4, <3>5 DEF Join
    <3> QED  BY <3>6, <3>7 DEF BinaryTrees1, Mids
  <2> QED  BY <2>1, <2>2
<1>5. ~(s[2] = s[1] + 1) => \A x : IsJoined(s, x) => x.sym = X
  BY DEF IsJoined, Join, BinaryTree
<1>6. s[2] = s[1] + 1 => \A x : ~IsJoined(s, x)
  <2>1. s[2] = s[1] + 1 => Mids(s) = {}
    BY <1>1 DEF Mids
  <2> QED  BY <2>1 DEF IsJoined
<1> DEFINE plain == PlainTrees1(T, s[1], s[2])
<1>7. \A x : x \in plain <=> IsWord(s, x) \/ IsJoined(s, x)
  BY <1>1, <1>2, <1>3, <1>6 DEF PlainTrees1, IsWord, Mids
<1>8. \A x : x \in Raised1(plain) <=> IsRaised(s, x)
  <2> HIDE DEF plain
  <2> TAKE x
  <2>1. ASSUME x \in Raised1(plain) PROVE IsRaised(s, x)
    <3>1. PICK q \in DOMAIN M1Model.una, c \in plain :
            q[2] = c.sym /\ q[1][1] # q[2][1] /\ x = UnaryTree(q[1], c, M1Model.una[q])
      BY <2>1 DEF Raised1
    <3>2. PICK t \in M1Tags : q = UnaRule(t)
      BY G1Rules
    <3>3. q[1] = X /\ c.sym = Sym(t) /\ t # RootTag /\ M1Model.una[q] = Unary(t)
      <4>1. M1Model.una[q] = Unary(t)
        BY <3>2, G1Rules
      <4>2. q[1] = X /\ q[2] = Sym(t)
        BY <3>2 DEF UnaRule
      <4> QED  BY <3>1, <4>1, <4>2, SymOfTag
    <3>4. t \in Lexicals /\ c.sym # X
      BY <3>3, SymOfTag DEF M1Tags
    <3>5. IsWord(s, c)
      BY <1>5, <1>6, <1>7, <3>4
    <3>6. PICK w \in M1Tags : Terminal(s[1], w) > 0 /\ c = Word(s[1], w)
      BY <3>5 DEF IsWord
    <3>7. w = t
      BY <3>3, <3>6, SymOfTag DEF Word, WordTree
    <3> QED  BY <3>1, <3>2, <3>3, <3>4, <3>5, <3>6, <3>7 DEF IsRaised, IsWord, Raise
  <2>2. ASSUME IsRaised(s, x) PROVE x \in Raised1(plain)
    <3>1. PICK t \in Lexicals : /\ Terminal(s[1], t) > 0 /\ UnaRule(t) \in DOMAIN M1Model.una
                                /\ x = Raise(t, Word(s[1], t))
      BY <2>2 DEF IsRaised
    <3> DEFINE c == Word(s[1], t)
               q == UnaRule(t)
    <3>2. c \in plain
      BY <1>7, <2>2, <3>1 DEF IsWord, IsRaised, M1Tags
    <3>3. c.sym = Sym(t) /\ q[1] = X /\ q[2] = Sym(t) /\ t # RootTag
      BY G1Rules DEF Word, WordTree, UnaRule
    <3>4. M1Model.una[q] = Unary(t)
      BY <3>1, G1Rules
    <3> HIDE DEF c, q
    <3>5. x = UnaryTree(q[1], c, M1Model.una[q]) /\ q \in DOMAIN M1Model.una
      BY <3>1, <3>3, <3>4 DEF Raise, c, q
    <3>6. q[1][1] # q[2][1] /\ q[2] = c.sym
      BY <3>3, SymOfTag
    <3>7. <<q, c>> \in (DOMAIN M1Model.una) \X plain
      BY <3>2, <3>5
    <3> QED  BY <3>5, <3>6, <3>7 DEF Raised1
  <2> QED  BY <2>1, <2>2
<1>9. T[s] = plain \cup Raised1(plain)
  BY TreesExist1 DEF TreesAt1
<1> HIDE DEF T, plain
<1> QED  BY <1>7, <1>8, <1>9 DEF T

-----------------------------------------------------------------------------
(* What holds of the trees over single words, and of two trees joined if   *)
(* it holds of both, holds of all trees.                                   *)
HasWords(Good) == \A s \in Spans : \A x : IsWord(s, x) \/ IsRaised(s, x) => <<s, x>> \in Good

HasJoined(Good) ==
  \A s \in Spans : \A m \in Mids(s), p \in Pairs :
    \A l \in Of(<<s[1], m>>, p[1]), r \in Of(<<m, s[2]>>, p[2]) :
      BinRule(p[1], p[2]) \in DOMAIN M1Model.bin
        /\ <<<<s[1], m>>, l>> \in Good /\ <<<<m, s[2]>>, r>> \in Good
      => <<s, Join(p[1], p[2], l, r)>> \in Good

(* Induction over the trees, from the shortest spans to the longest.       *)
LEMMA TreeInduction ==
  ASSUME TypeOK, NEW Good, HasWords(Good), HasJoined(Good)
  PROVE  \A s \in Spans : \A x \in M1Trees[s] : <<s, x>> \in Good
<1> DEFINE S == {k \in Nat : \A s \in Spans : Size(s) <= k => \A x \in M1Trees[s] : <<s, x>> \in Good}
<1>1. 0 \in S
  <2>1. \A s \in Spans : ~(Size(s) <= 0)
    BY Sizes
  <2> QED  BY <2>1
<1>2. ASSUME NEW k \in Nat, k \in S PROVE k + 1 \in S
  <2> SUFFICES ASSUME NEW s \in Spans, Size(s) <= k + 1, NEW x \in M1Trees[s] PROVE <<s, x>> \in Good
    OBVIOUS
  <2>1. CASE IsWord(s, x) \/ IsRaised(s, x)
    BY <2>1 DEF HasWords
  <2>2. CASE IsJoined(s, x)
    <3>1. PICK m \in Mids(s), p \in Pairs :
            \E l \in Of(<<s[1], m>>, p[1]), r \in Of(<<m, s[2]>>, p[2]) :
              BinRule(p[1], p[2]) \in DOMAIN M1Model.bin /\ x = Join(p[1], p[2], l, r)
      BY <2>2 DEF IsJoined
    <3>2. PICK l \in Of(<<s[1], m>>, p[1]), r \in Of(<<m, s[2]>>, p[2]) :
              BinRule(p[1], p[2]) \in DOMAIN M1Model.bin /\ x = Join(p[1], p[2], l, r)
      BY <3>1
    <3>3. /\ <<s[1], m>> \in Spans /\ <<m, s[2]>> \in Spans
          /\ Size(<<s[1], m>>) <= k /\ Size(<<m, s[2]>>) <= k
      BY SpanParts, Sizes
    <3>4. <<<<s[1], m>>, l>> \in Good /\ <<<<m, s[2]>>, r>> \in Good
      BY <1>2, <3>3 DEF Of
    <3> QED  BY <3>2, <3>4 DEF HasJoined
  <2> QED  BY <2>1, <2>2, TreeKinds
<1>3. NumWords \in S
  <2> HIDE DEF S
  <2> QED  BY <1>1, <1>2, SetInduction, Shapes
<1> QED  BY <1>3, Sizes

(* The trees, the children of one, and how high one is: a unary rule is    *)
(* above what is over the same words.                                      *)
AllTrees == UNION {M1Trees[s] : s \in Spans}

Kids(x) == {x.kids[i] : i \in DOMAIN x.kids}
Height(x) == 2 * Size(x.span) + (IF x.unary THEN 1 ELSE 0)

(* The parts of a new tree.                                                *)
LEMMA Made ==
  /\ \A b, t : /\ Word(b, t).sym = Sym(t) /\ Word(b, t).span = <<b, b + 1>> /\ Kids(Word(b, t)) = {}
               /\ Word(b, t).unary = FALSE /\ Word(b, t).score = Terminal(b, t)
               /\ Word(b, t).cells = {<<<<b, b + 1>>, Sym(t)>>}
  /\ \A t, c : /\ Raise(t, c).sym = X /\ Raise(t, c).span = c.span /\ Kids(Raise(t, c)) = {c}
               /\ Raise(t, c).unary = TRUE /\ Raise(t, c).score = Unary(t) * c.score
               /\ Raise(t, c).cells = c.cells \cup {<<c.span, X>>}
  /\ \A l, r, x, y :
       /\ Join(l, r, x, y).sym = X /\ Join(l, r, x, y).span = <<x.span[1], y.span[2]>>
       /\ Kids(Join(l, r, x, y)) = {x, y} /\ Join(l, r, x, y).kids = <<x, y>>
       /\ Join(l, r, x, y).unary = FALSE /\ Join(l, r, x, y).score = Binary(l, r) * x.score * y.score
       /\ Join(l, r, x, y).cells = x.cells \cup y.cells \cup {<<<<x.span[1], y.span[2]>>, X>>}
<1>1. ASSUME NEW b, NEW t
      PROVE  /\ Word(b, t).sym = Sym(t) /\ Word(b, t).span = <<b, b + 1>> /\ Kids(Word(b, t)) = {}
             /\ Word(b, t).unary = FALSE /\ Word(b, t).score = Terminal(b, t)
             /\ Word(b, t).cells = {<<<<b, b + 1>>, Sym(t)>>}
  BY DEF Word, WordTree, Kids
<1>2. ASSUME NEW t, NEW c
      PROVE  /\ Raise(t, c).sym = X /\ Raise(t, c).span = c.span /\ Kids(Raise(t, c)) = {c}
             /\ Raise(t, c).unary = TRUE /\ Raise(t, c).score = Unary(t) * c.score
             /\ Raise(t, c).cells = c.cells \cup {<<c.span, X>>}
  <2>1. Raise(t, c).kids = <<c>>
    BY DEF Raise, UnaryTree
  <2>2. Kids(Raise(t, c)) = {c}
    BY <2>1 DEF Kids
  <2> QED  BY <2>2 DEF Raise, UnaryTree
<1>3. ASSUME NEW l, NEW r, NEW x, NEW y
      PROVE  /\ Join(l, r, x, y).sym = X /\ Join(l, r, x, y).span = <<x.span[1], y.span[2]>>
             /\ Kids(Join(l, r, x, y)) = {x, y} /\ Join(l, r, x, y).kids = <<x, y>>
             /\ Join(l, r, x, y).unary = FALSE /\ Join(l, r, x, y).score = Binary(l, r) * x.score * y.score
             /\ Join(l, r, x, y).cells = x.cells \cup y.cells \cup {<<<<x.span[1], y.span[2]>>, X>>}
  <2>1. Join(l, r, x, y).kids = <<x, y>>
    BY DEF Join, BinaryTree
  <2>2. Kids(Join(l, r, x, y)) = {x, y}
    BY <2>1 DEF Kids
  <2> QED  BY <2>1, <2>2 DEF Join, BinaryTree
<1> QED  BY <1>1, <1>2, <1>3

(* Trees know their spans, have a tag of the grammar and a natural score.  *)
LEMMA TreeFacts ==
  ASSUME TypeOK
  PROVE  \A s \in Spans : \A x \in M1Trees[s] :
           /\ x.span = s /\ x.score \in Nat /\ x.unary \in BOOLEAN
           /\ \E t \in M1Tags : x.sym = Sym(t)
<1> DEFINE Fact(s, x) == /\ x.span = s /\ x.score \in Nat /\ x.unary \in BOOLEAN
                         /\ \E t \in M1Tags : x.sym = Sym(t)
           Good == {c \in Spans \X AllTrees : Fact(c[1], c[2])}
<1>1. ASSUME NEW s \in Spans, NEW x, IsWord(s, x) \/ IsRaised(s, x) PROVE Fact(s, x)
  <2>1. s = <<s[1], s[1] + 1>>
    <3>1. s = <<s[1], s[2]>> /\ s[1] \in Int /\ s[2] \in Int /\ s[2] - s[1] = 1
      BY <1>1, SpanOrder DEF IsWord, IsRaised, Size
    <3> QED  BY <3>1
  <2>2. CASE IsWord(s, x)
    <3>1. PICK t \in M1Tags : x = Word(s[1], t)
      BY <2>2 DEF IsWord
    <3>2. /\ x.sym = Sym(t) /\ x.span = <<s[1], s[1] + 1>>
          /\ x.unary = FALSE /\ x.score = Terminal(s[1], t)
      BY <3>1, Made
    <3> QED  BY <2>1, <3>2, TerminalScores
  <2>3. CASE IsRaised(s, x)
    <3>1. PICK t \in Lexicals : x = Raise(t, Word(s[1], t))
      BY <2>3 DEF IsRaised
    <3>2. Unary(t) \in Nat /\ Terminal(s[1], t) \in Nat
      BY RuleScores, TerminalScores
    <3>3. Unary(t) * Terminal(s[1], t) \in Nat
      BY <3>2, Products
    <3> DEFINE c == Word(s[1], t)
    <3>4. c.span = <<s[1], s[1] + 1>> /\ c.score = Terminal(s[1], t)
      BY Made
    <3>5. x.sym = X /\ x.span = c.span /\ x.unary = TRUE /\ x.score = Unary(t) * c.score
      BY <3>1, Made
    <3> HIDE DEF c
    <3> QED  BY <2>1, <3>3, <3>4, <3>5, SymOfTag DEF M1Tags
  <2> QED  BY <1>1, <2>2, <2>3
<1>2. ASSUME NEW s \in Spans, NEW m \in Mids(s), NEW p \in Pairs,
             NEW l \in Of(<<s[1], m>>, p[1]), NEW r \in Of(<<m, s[2]>>, p[2]),
             Fact(<<s[1], m>>, l), Fact(<<m, s[2]>>, r)
      PROVE  Fact(s, Join(p[1], p[2], l, r))
  <2>1. Binary(p[1], p[2]) \in Nat
    BY RuleScores
  <2>2. Binary(p[1], p[2]) * l.score * r.score \in Nat
    BY <1>2, <2>1, Products
  <2>3. s = <<s[1], s[2]>>
    BY SpanOrder
  <2> DEFINE x == Join(p[1], p[2], l, r)
  <2>4. /\ x.sym = X /\ x.span = <<l.span[1], r.span[2]>> /\ x.unary = FALSE
        /\ x.score = Binary(p[1], p[2]) * l.score * r.score
    BY Made
  <2> HIDE DEF x
  <2>5. l.span[1] = s[1] /\ r.span[2] = s[2]
    BY <1>2
  <2>6. x.span = s /\ x.score \in Nat
    BY <2>2, <2>3, <2>4, <2>5
  <2>7. Fact(s, x)
    BY <2>4, <2>6, SymOfTag DEF M1Tags
  <2> QED  BY <2>7 DEF x
<1>3. \A s \in Spans : \A x \in M1Trees[s] : <<s, x>> \in Good
  <2>1. \A s \in Spans : \A x : IsWord(s, x) \/ IsRaised(s, x) => <<s, x>> \in Good
    BY <1>1, TreeKinds DEF AllTrees
  <2>2. ASSUME NEW s \in Spans, NEW m \in Mids(s), NEW p \in Pairs,
               NEW l \in Of(<<s[1], m>>, p[1]), NEW r \in Of(<<m, s[2]>>, p[2]),
               BinRule(p[1], p[2]) \in DOMAIN M1Model.bin,
               <<<<s[1], m>>, l>> \in Good, <<<<m, s[2]>>, r>> \in Good
        PROVE  <<s, Join(p[1], p[2], l, r)>> \in Good
    <3>1. Fact(s, Join(p[1], p[2], l, r))
      <4>1. Fact(<<s[1], m>>, l) /\ Fact(<<m, s[2]>>, r)
        BY <2>2
      <4> HIDE DEF Fact, Good
      <4> QED  BY <1>2, <4>1
    <3>2. IsJoined(s, Join(p[1], p[2], l, r))
      BY <2>2 DEF IsJoined
    <3>3. Join(p[1], p[2], l, r) \in AllTrees
      BY <3>2, TreeKinds DEF AllTrees
    <3> QED  BY <3>1, <3>3
  <2> HIDE DEF Good, Fact
  <2>3. HasWords(Good) /\ HasJoined(Good)
    BY <2>1, <2>2 DEF HasWords, HasJoined
  <2> QED  BY <2>3, TreeInduction
<1>4. \A s \in Spans : \A x \in M1Trees[s] : Fact(s, x)
  <2> TAKE s \in Spans
  <2> TAKE x \in M1Trees[s]
  <2> DEFINE c == <<s, x>>
  <2>1. c \in Good /\ c[1] = s /\ c[2] = x
    BY <1>3
  <2> HIDE DEF c, Fact
  <2>2. Fact(c[1], c[2])
    BY <2>1
  <2> QED  BY <2>1, <2>2
<1> QED  BY <1>4

(* A tree is over the span of its own.                                     *)
LEMMA TreeSpan ==
  ASSUME TypeOK
  PROVE  \A x \in AllTrees : x.span \in Spans /\ x \in M1Trees[x.span]
BY TreeFacts DEF AllTrees

-----------------------------------------------------------------------------
(* The subtrees of a tree: the least set that has it, and the children of  *)
(* all it has.                                                             *)
Closed(C) == \A x \in C : Kids(x) \subseteq C
Sub(t) == {x \in AllTrees : \A C \in SUBSET AllTrees : t \in C /\ Closed(C) => x \in C}

(* Children are trees.                                                     *)
LEMMA KidsAreTrees ==
  ASSUME TypeOK
  PROVE  \A x \in AllTrees : Kids(x) \subseteq AllTrees
<1> SUFFICES ASSUME NEW s \in Spans, NEW x \in M1Trees[s] PROVE Kids(x) \subseteq AllTrees
  BY DEF AllTrees
<1>1. CASE IsWord(s, x)
  BY <1>1, Made DEF IsWord
<1>2. CASE IsRaised(s, x)
  <2>1. PICK t \in Lexicals : Terminal(s[1], t) > 0 /\ x = Raise(t, Word(s[1], t))
    BY <1>2 DEF IsRaised
  <2>2. IsWord(s, Word(s[1], t))
    BY <1>2, <2>1 DEF IsWord, IsRaised, M1Tags
  <2> QED  BY <2>1, <2>2, Made, TreeKinds DEF AllTrees
<1>3. CASE IsJoined(s, x)
  <2>1. PICK m \in Mids(s), p \in Pairs :
          \E l \in Of(<<s[1], m>>, p[1]), r \in Of(<<m, s[2]>>, p[2]) : x = Join(p[1], p[2], l, r)
    BY <1>3 DEF IsJoined
  <2>2. PICK l \in Of(<<s[1], m>>, p[1]), r \in Of(<<m, s[2]>>, p[2]) : x = Join(p[1], p[2], l, r)
    BY <2>1
  <2>3. l \in AllTrees /\ r \in AllTrees
    BY SpanParts DEF Of, AllTrees
  <2> QED  BY <2>2, <2>3, Made
<1> QED  BY <1>1, <1>2, <1>3, TreeKinds

(* Children are lower than their parents.                                  *)
LEMMA KidsLower ==
  ASSUME TypeOK
  PROVE  \A x \in AllTrees : \A y \in Kids(x) : Height(y) < Height(x)
<1> SUFFICES ASSUME NEW s \in Spans, NEW x \in M1Trees[s], NEW y \in Kids(x) PROVE Height(y) < Height(x)
  BY DEF AllTrees
<1>1. x.span = s /\ x.unary \in BOOLEAN
  BY TreeFacts
<1>2. CASE IsWord(s, x)
  BY <1>2, Made DEF IsWord
<1>3. CASE IsRaised(s, x)
  <2>1. PICK t \in Lexicals : Terminal(s[1], t) > 0 /\ x = Raise(t, Word(s[1], t))
    BY <1>3 DEF IsRaised
  <2> DEFINE c == Word(s[1], t)
  <2>2. IsWord(s, c)
    BY <1>3, <2>1 DEF IsWord, IsRaised, M1Tags
  <2>3. c.span = s
    BY <2>2, TreeKinds, TreeFacts
  <2>4. c.unary = FALSE /\ x.unary = TRUE /\ Kids(x) = {c}
    BY <2>1, Made
  <2> HIDE DEF c
  <2>5. y = c
    BY <2>4
  <2> QED  BY <1>1, <2>3, <2>4, <2>5, Sizes DEF Height
<1>4. CASE IsJoined(s, x)
  <2>1. PICK m \in Mids(s), p \in Pairs :
          \E l \in Of(<<s[1], m>>, p[1]), r \in Of(<<m, s[2]>>, p[2]) : x = Join(p[1], p[2], l, r)
    BY <1>4 DEF IsJoined
  <2>2. PICK l \in Of(<<s[1], m>>, p[1]), r \in Of(<<m, s[2]>>, p[2]) : x = Join(p[1], p[2], l, r)
    BY <2>1
  <2>3. y = l \/ y = r
    BY <2>2, Made
  <2>4. /\ Size(<<s[1], m>>) < Size(s) /\ Size(<<m, s[2]>>) < Size(s)
        /\ <<s[1], m>> \in Spans /\ <<m, s[2]>> \in Spans
    BY SpanParts
  <2>5. l.span = <<s[1], m>> /\ r.span = <<m, s[2]>> /\ l.unary \in BOOLEAN /\ r.unary \in BOOLEAN
    BY <2>4, TreeFacts DEF Of
  <2>6. y.span \in Spans /\ Size(y.span) < Size(s) /\ y.unary \in BOOLEAN
    BY <2>3, <2>4, <2>5
  <2>7. Size(y.span) \in Nat /\ Size(s) \in Nat
    BY <2>6, Sizes
  <2> QED  BY <1>1, <2>6, <2>7 DEF Height
<1> QED  BY <1>2, <1>3, <1>4, TreeKinds

(* Subtrees of subtrees are subtrees.                                      *)
LEMMA SubLaws ==
  ASSUME TypeOK
  PROVE  /\ \A t \in AllTrees : t \in Sub(t)
         /\ \A t \in AllTrees : Closed(Sub(t)) /\ Sub(t) \subseteq AllTrees
         /\ \A t \in AllTrees, C \in SUBSET AllTrees : t \in C /\ Closed(C) => Sub(t) \subseteq C
         /\ \A t \in AllTrees : \A x \in Sub(t) : Sub(x) \subseteq Sub(t)
<1>1. \A t \in AllTrees : t \in Sub(t)
  BY DEF Sub
<1>2. \A t \in AllTrees : Closed(Sub(t)) /\ Sub(t) \subseteq AllTrees
  <2> TAKE t \in AllTrees
  <2>1. Sub(t) \subseteq AllTrees
    BY DEF Sub
  <2>2. ASSUME NEW x \in Sub(t), NEW y \in Kids(x) PROVE y \in Sub(t)
    <3>1. y \in AllTrees
      BY <2>1, KidsAreTrees
    <3>2. ASSUME NEW C \in SUBSET AllTrees, t \in C, Closed(C) PROVE y \in C
      <4>1. x \in C
        BY <3>2 DEF Sub
      <4> QED  BY <3>2, <4>1 DEF Closed
    <3> QED  BY <3>1, <3>2 DEF Sub
  <2> QED  BY <2>1, <2>2 DEF Closed
<1>3. \A t \in AllTrees, C \in SUBSET AllTrees : t \in C /\ Closed(C) => Sub(t) \subseteq C
  BY DEF Sub
<1> QED  BY <1>1, <1>2, <1>3

(* The subtrees of a word.                                                 *)
LEMMA SubOfWord ==
  ASSUME TypeOK, NEW t \in AllTrees, Kids(t) = {}
  PROVE  Sub(t) = {t}
<1>1. Closed({t})
  BY DEF Closed
<1> QED  BY <1>1, SubLaws

(* Of a word and the unary rule above it.                                  *)
LEMMA SubOfRaised ==
  ASSUME TypeOK, NEW t \in AllTrees, NEW c \in AllTrees, Kids(t) = {c}, Kids(c) = {}
  PROVE  Sub(t) = {t, c}
<1>1. Closed({t, c})
  BY DEF Closed
<1>2. Sub(t) \subseteq {t, c}
  <2> DEFINE C == {t, c}
  <2>1. C \in SUBSET AllTrees /\ t \in C /\ Closed(C)
    BY <1>1
  <2> HIDE DEF C
  <2>2. Sub(t) \subseteq C
    BY <2>1, SubLaws
  <2> QED  BY <2>2 DEF C
<1>3. t \in Sub(t) /\ c \in Sub(t)
  BY SubLaws DEF Closed
<1> QED  BY <1>2, <1>3

(* Of a binary rule: the tree, and the subtrees of the two.                *)
LEMMA SubOfJoined ==
  ASSUME TypeOK, NEW t \in AllTrees, NEW l \in AllTrees, NEW r \in AllTrees, Kids(t) = {l, r}
  PROVE  Sub(t) = {t} \cup Sub(l) \cup Sub(r)
<1> DEFINE C == {t} \cup Sub(l) \cup Sub(r)
<1>1. l \in Sub(l) /\ r \in Sub(r) /\ Closed(Sub(l)) /\ Closed(Sub(r)) /\ C \in SUBSET AllTrees
  BY SubLaws
<1>2. Closed(C) /\ t \in C
  BY <1>1 DEF Closed
<1>3. Sub(t) \subseteq C
  <2> HIDE DEF C
  <2> QED  BY <1>1, <1>2, SubLaws
<1>4. t \in Sub(t) /\ l \in Sub(t) /\ r \in Sub(t)
  BY SubLaws DEF Closed
<1>5. Sub(l) \subseteq Sub(t) /\ Sub(r) \subseteq Sub(t)
  BY <1>4, SubLaws
<1> QED  BY <1>3, <1>4, <1>5

(* What is true of the subtrees of a tree: they lie under it, there is one *)
(* for each of its cells, and all but the tree itself are children of      *)
(* subtrees over one span.                                                 *)
Under(t) ==
  \A x \in Sub(t) : /\ t.span[1] <= x.span[1] /\ x.span[2] <= t.span[2]
                    /\ x = t \/ Height(x) < Height(t)
CellsOfSubs(t) == t.cells = {<<x.span, x.sym>> : x \in Sub(t)}
OnePerCell(t) == \A x, y \in Sub(t) : x.span = y.span /\ x.sym = y.sym => x = y
HaveParents(t) == \A x \in Sub(t) : x = t \/ \E p \in Sub(t) : x \in Kids(p)
OneParent(t) == \A p, q \in Sub(t) : \A x \in Kids(p) \cap Kids(q) : p.span = q.span

Proper(t) == Under(t) /\ CellsOfSubs(t) /\ OnePerCell(t) /\ HaveParents(t) /\ OneParent(t)

(* So it is for words.                                                     *)
LEMMA ProperWord ==
  ASSUME TypeOK, NEW s \in Spans, NEW t, IsWord(s, t)
  PROVE  Proper(t)
<1>1. t \in AllTrees /\ t.span = s
  BY TreeKinds, TreeFacts DEF AllTrees
<1>2. PICK a \in M1Tags : t = Word(s[1], a)
  BY DEF IsWord
<1>3. Kids(t) = {} /\ t.cells = {<<t.span, t.sym>>}
  BY <1>2, Made
<1>4. Sub(t) = {t}
  BY <1>1, <1>3, SubOfWord
<1>5. t.span[1] \in Int /\ t.span[2] \in Int
  BY <1>1, SpanOrder
<1> QED  BY <1>3, <1>4, <1>5 DEF Proper, Under, CellsOfSubs, OnePerCell, HaveParents, OneParent

(* And for a unary rule.                                                   *)
LEMMA ProperRaised ==
  ASSUME TypeOK, NEW s \in Spans, NEW t, IsRaised(s, t)
  PROVE  Proper(t)
<1>1. t \in AllTrees /\ t.span = s
  BY TreeKinds, TreeFacts DEF AllTrees
<1>2. PICK a \in Lexicals : Terminal(s[1], a) > 0 /\ t = Raise(a, Word(s[1], a))
  BY DEF IsRaised
<1> DEFINE c == Word(s[1], a)
<1>3. IsWord(s, c)
  BY <1>2 DEF IsWord, IsRaised, M1Tags
<1>4. c \in AllTrees /\ c.span = s
  BY <1>3, TreeKinds, TreeFacts DEF AllTrees
<1>5. Kids(c) = {} /\ c.cells = {<<c.span, c.sym>>} /\ c.sym = Sym(a) /\ c.unary = FALSE
  BY Made
<1>6. Kids(t) = {c} /\ t.cells = c.cells \cup {<<c.span, X>>} /\ t.sym = X /\ t.unary = TRUE
  BY <1>2, Made
<1>7. Sub(t) = {t, c}
  BY <1>1, <1>4, <1>5, <1>6, SubOfRaised
<1>8. c.sym # t.sym
  BY <1>5, <1>6, G1Rules, SymOfTag
<1>9. s[1] \in Int /\ s[2] \in Int /\ Size(s) \in Nat
  BY SpanOrder, Sizes
<1> HIDE DEF c
<1>10. Height(c) < Height(t)
  BY <1>1, <1>4, <1>5, <1>6, <1>9 DEF Height
<1>11. Under(t)
  BY <1>1, <1>4, <1>7, <1>9, <1>10 DEF Under
<1>12. CellsOfSubs(t)
  BY <1>1, <1>4, <1>5, <1>6, <1>7 DEF CellsOfSubs
<1>13. OnePerCell(t) /\ HaveParents(t)
  BY <1>6, <1>7, <1>8 DEF OnePerCell, HaveParents
<1>14. OneParent(t)
  BY <1>1, <1>4, <1>7 DEF OneParent
<1> QED  BY <1>11, <1>12, <1>13, <1>14 DEF Proper

(* And for a binary rule: of the two parts, one lies before the other.     *)
LEMMA ProperJoined ==
  ASSUME TypeOK, NEW s \in Spans, NEW m \in Mids(s), NEW t \in AllTrees, t.span = s, t.unary = FALSE,
         NEW l \in M1Trees[<<s[1], m>>], NEW r \in M1Trees[<<m, s[2]>>],
         Kids(t) = {l, r}, t.cells = l.cells \cup r.cells \cup {<<t.span, t.sym>>},
         Proper(l), Proper(r)
  PROVE  Proper(t)
<1>1. /\ <<s[1], m>> \in Spans /\ <<m, s[2]>> \in Spans
      /\ Size(<<s[1], m>>) < Size(s) /\ Size(<<m, s[2]>>) < Size(s)
  BY SpanParts
<1>2. /\ l \in AllTrees /\ l.span[1] = s[1] /\ l.span[2] = m /\ Size(l.span) < Size(s) /\ l.unary \in BOOLEAN
      /\ r \in AllTrees /\ r.span[1] = m /\ r.span[2] = s[2] /\ Size(r.span) < Size(s) /\ r.unary \in BOOLEAN
  BY <1>1, TreeFacts DEF AllTrees
<1>3. m \in Int /\ s[1] \in Int /\ s[2] \in Int /\ s[1] < m /\ m < s[2]
  BY SpanOrder DEF Mids
<1>4. Sub(t) = {t} \cup Sub(l) \cup Sub(r)
  BY <1>2, SubOfJoined
<1>5. \A x \in AllTrees : /\ x.span[1] \in Int /\ x.span[2] \in Int /\ x.span[1] < x.span[2]
                          /\ Size(x.span) \in Nat /\ Height(x) \in Int
                          /\ \A y \in AllTrees : Size(x.span) < Size(y.span) => Height(x) < Height(y)
  <2>1. \A x \in AllTrees : x.span \in Spans
    BY TreeSpan
  <2>2. \A x \in AllTrees : x.span[1] \in Int /\ x.span[2] \in Int /\ x.span[1] < x.span[2] /\ Size(x.span) \in Nat
    BY <2>1, SpanOrder, Sizes
  <2> QED  BY <2>2 DEF Height
<1>6. Sub(l) \subseteq AllTrees /\ Sub(r) \subseteq AllTrees /\ l \in Sub(l) /\ r \in Sub(r)
      /\ Closed(Sub(l)) /\ Closed(Sub(r))
  BY <1>2, SubLaws
<1>7. \A x \in Sub(l) : s[1] <= x.span[1] /\ x.span[2] <= m /\ (x = l \/ Height(x) < Height(l))
  <2>1. Under(l)
    BY DEF Proper
  <2> QED  BY <1>2, <2>1 DEF Under
<1>8. \A x \in Sub(r) : m <= x.span[1] /\ x.span[2] <= s[2] /\ (x = r \/ Height(x) < Height(r))
  <2>1. Under(r)
    BY DEF Proper
  <2> QED  BY <1>2, <2>1 DEF Under
<1>9. Height(l) < Height(t) /\ Height(r) < Height(t)
  BY <1>2, <1>5
<1>10. \A x \in Sub(l) : Height(x) < Height(t) /\ x.span[2] < s[2]
  BY <1>2, <1>3, <1>5, <1>6, <1>7, <1>9
<1>11. \A x \in Sub(r) : Height(x) < Height(t) /\ s[1] < x.span[1]
  BY <1>2, <1>3, <1>5, <1>6, <1>8, <1>9
<1>12. \A x \in Sub(l), y \in Sub(r) : x.span # y.span
  BY <1>5, <1>6, <1>7, <1>8, <1>3
<1>13. Under(t)
  BY <1>3, <1>4, <1>5, <1>6, <1>7, <1>8, <1>10, <1>11 DEF Under
<1>14. CellsOfSubs(t)
  <2>1. l.cells = {<<x.span, x.sym>> : x \in Sub(l)} /\ r.cells = {<<x.span, x.sym>> : x \in Sub(r)}
    BY DEF Proper, CellsOfSubs
  <2> QED  BY <1>4, <2>1 DEF CellsOfSubs
<1>15. OnePerCell(t)
  <2>1. OnePerCell(l) /\ OnePerCell(r)
    BY DEF Proper
  <2>2. \A x \in Sub(l) \cup Sub(r) : x.span # t.span
    BY <1>10, <1>11, <1>3, <1>5, <1>6
  <2> QED  BY <1>4, <1>12, <2>1, <2>2 DEF OnePerCell
<1>16. HaveParents(t)
  <2>1. HaveParents(l) /\ HaveParents(r)
    BY DEF Proper
  <2> QED  BY <1>4, <2>1 DEF HaveParents
<1>17. OneParent(t)
  <2>1. OneParent(l) /\ OneParent(r)
    BY DEF Proper
  <2>2. \A p \in Sub(l) : Kids(p) \subseteq Sub(l)
    BY <1>6 DEF Closed
  <2>3. \A p \in Sub(r) : Kids(p) \subseteq Sub(r)
    BY <1>6 DEF Closed
  <2>4. \A p \in Sub(l) : l \notin Kids(p)
    <3>1. \A p \in Sub(l) : p = l \/ Height(p) < Height(l)
      BY <1>7
    <3> QED  BY <1>2, <1>5, <1>6, <3>1, KidsLower
  <2>5. \A p \in Sub(r) : r \notin Kids(p)
    <3>1. \A p \in Sub(r) : p = r \/ Height(p) < Height(r)
      BY <1>8
    <3> QED  BY <1>2, <1>5, <1>6, <3>1, KidsLower
  <2>6. r \notin Sub(l) /\ l \notin Sub(r) /\ Sub(l) \cap Sub(r) = {}
    BY <1>6, <1>12
  <2>7. \A p \in Sub(l), q \in Sub(r) : Kids(p) \cap Kids(q) = {}
    BY <2>2, <2>3, <2>6
  <2>8. \A p \in Sub(l) : Kids(p) \cap {l, r} = {}
    BY <2>2, <2>4, <2>6
  <2>9. \A p \in Sub(r) : Kids(p) \cap {l, r} = {}
    BY <2>3, <2>5, <2>6
  <2> QED  BY <1>4, <2>1, <2>7, <2>8, <2>9 DEF OneParent
<1> QED  BY <1>13, <1>14, <1>15, <1>16, <1>17 DEF Proper

(* So it is for all trees.                                                 *)
LEMMA TreesProper == ASSUME TypeOK PROVE \A t \in AllTrees : Proper(t)
<1> DEFINE Good == {c \in Spans \X AllTrees : Proper(c[2])}
<1>1. HasWords(Good)
  <2>1. \A s \in Spans : \A x : IsWord(s, x) \/ IsRaised(s, x) => x \in AllTrees /\ Proper(x)
    BY ProperWord, ProperRaised, TreeKinds DEF AllTrees
  <2> QED  BY <2>1 DEF HasWords
<1>2. HasJoined(Good)
  <2> SUFFICES ASSUME NEW s \in Spans, NEW m \in Mids(s), NEW p \in Pairs,
                      NEW l \in Of(<<s[1], m>>, p[1]), NEW r \in Of(<<m, s[2]>>, p[2]),
                      BinRule(p[1], p[2]) \in DOMAIN M1Model.bin,
                      <<<<s[1], m>>, l>> \in Good, <<<<m, s[2]>>, r>> \in Good
               PROVE  <<s, Join(p[1], p[2], l, r)>> \in Good
    BY DEF HasJoined
  <2>1. Proper(l) /\ Proper(r) /\ l \in M1Trees[<<s[1], m>>] /\ r \in M1Trees[<<m, s[2]>>]
    BY DEF Of
  <2> DEFINE t == Join(p[1], p[2], l, r)
  <2>2. IsJoined(s, t)
    BY DEF IsJoined
  <2>3. t \in M1Trees[s] /\ t \in AllTrees
    BY <2>2, TreeKinds DEF AllTrees
  <2>4. /\ t.span = <<l.span[1], r.span[2]>> /\ Kids(t) = {l, r} /\ t.unary = FALSE /\ t.sym = X
        /\ t.cells = l.cells \cup r.cells \cup {<<<<l.span[1], r.span[2]>>, X>>}
    BY Made
  <2> HIDE DEF t, Good
  <2>5. t.span = s
    BY <2>3, TreeFacts
  <2>6. t.cells = l.cells \cup r.cells \cup {<<t.span, t.sym>>}
    BY <2>4
  <2>7. Proper(t)
    BY <2>1, <2>3, <2>4, <2>5, <2>6, ProperJoined
  <2> QED  BY <2>3, <2>7 DEF t, Good
<1>3. \A s \in Spans : \A x \in M1Trees[s] : <<s, x>> \in Good
  <2> HIDE DEF Good
  <2> QED  BY <1>1, <1>2, TreeInduction
<1>4. \A s \in Spans : \A x \in M1Trees[s] : Proper(x)
  <2> TAKE s \in Spans
  <2> TAKE x \in M1Trees[s]
  <2> DEFINE c == <<s, x>>
  <2>1. c \in Good /\ c[2] = x
    BY <1>3
  <2> HIDE DEF c
  <2>2. Proper(c[2])
    BY <2>1
  <2> QED  BY <2>1, <2>2
<1> QED  BY <1>4 DEF AllTrees

-----------------------------------------------------------------------------
(* There are finitely many trees over a span.                              *)
LEMMA FiniteTrees == ASSUME TypeOK PROVE IsFiniteSet(AllTrees) /\ IsFiniteSet(Spans) /\ \A s \in Spans : IsFiniteSet(M1Trees[s])
<1> DEFINE S == {k \in Nat : \A s \in Spans : Size(s) <= k => IsFiniteSet(M1Trees[s])}
<1>0. \A A, B, C : IsFiniteSet(B) /\ IsFiniteSet(C) /\ A \subseteq B \cup C => IsFiniteSet(A)
  BY FS_Union, FS_Subset
<1>1. 0 \in S
  <2>1. \A s \in Spans : ~(Size(s) <= 0)
    BY Sizes
  <2> QED  BY <2>1
<1>2. ASSUME NEW k \in Nat, k \in S PROVE k + 1 \in S
  <2> SUFFICES ASSUME NEW s \in Spans, Size(s) <= k + 1 PROVE IsFiniteSet(M1Trees[s])
    OBVIOUS
  <2> DEFINE word == [t \in M1Tags |-> Word(s[1], t)]
             raised == [t \in Lexicals |-> Raise(t, Word(s[1], t))]
             W == {word[t] : t \in M1Tags}
             R == {raised[t] : t \in Lexicals}
             join == [u \in Pairs \X (AllTrees \X AllTrees) |-> Join(u[1][1], u[1][2], u[2][1], u[2][2])]
             parts(m) == Pairs \X (M1Trees[<<s[1], m>>] \X M1Trees[<<m, s[2]>>])
             J(m) == {join[u] : u \in parts(m)}
             Js == UNION {J(m) : m \in Mids(s)}
  <2>1. IsFiniteSet(W) /\ IsFiniteSet(R)
    <3> HIDE DEF word, raised
    <3> QED  BY LexicalTagIds, FiniteImage
  <2>2. ASSUME NEW m \in Mids(s) PROVE IsFiniteSet(J(m))
    <3>1. IsFiniteSet(M1Trees[<<s[1], m>>]) /\ IsFiniteSet(M1Trees[<<m, s[2]>>])
      BY <1>2, SpanParts, Sizes
    <3>2. IsFiniteSet(Pairs)
      BY LexicalTagIds, FS_Product DEF Pairs
    <3>3. IsFiniteSet(parts(m))
      BY <3>1, <3>2, FS_Product
    <3> HIDE DEF join, parts
    <3> QED  BY <3>3, FiniteImage
  <2>3. IsFiniteSet(Js)
    <3> DEFINE row == [m \in Mids(s) |-> J(m)]
               Rows == {row[m] : m \in Mids(s)}
    <3>1. IsFiniteSet(Mids(s))
      BY Shapes, FS_Interval DEF Mids, Spans
    <3>2. IsFiniteSet(Rows)
      <4> HIDE DEF row
      <4> QED  BY <3>1, FiniteImage
    <3>3. \A Z \in Rows : IsFiniteSet(Z)
      BY <2>2
    <3>4. Js = UNION Rows
      <4> HIDE DEF J
      <4> QED  OBVIOUS
    <3> HIDE DEF Rows, Js
    <3> QED  BY <3>2, <3>3, <3>4, FS_UNION
  <2>4. ASSUME NEW x, IsWord(s, x) PROVE x \in W
    BY <2>4 DEF IsWord
  <2>5. ASSUME NEW x, IsRaised(s, x) PROVE x \in R
    BY <2>5 DEF IsRaised
  <2>6. ASSUME NEW x, IsJoined(s, x) PROVE x \in Js
    <3>1. PICK m \in Mids(s), p \in Pairs :
            \E l \in Of(<<s[1], m>>, p[1]), r \in Of(<<m, s[2]>>, p[2]) : x = Join(p[1], p[2], l, r)
      BY <2>6 DEF IsJoined
    <3>2. PICK l \in Of(<<s[1], m>>, p[1]), r \in Of(<<m, s[2]>>, p[2]) : x = Join(p[1], p[2], l, r)
      BY <3>1
    <3>3. l \in M1Trees[<<s[1], m>>] /\ r \in M1Trees[<<m, s[2]>>] /\ l \in AllTrees /\ r \in AllTrees
      BY SpanParts DEF Of, AllTrees
    <3> DEFINE u == <<p, <<l, r>>>>
    <3>4. u \in parts(m) /\ u \in Pairs \X (AllTrees \X AllTrees)
      BY <3>3
    <3>5. join[u] = x
      BY <3>2, <3>4
    <3> HIDE DEF u, join, parts
    <3> QED  BY <3>4, <3>5
  <2> HIDE DEF W, R, Js
  <2>7. M1Trees[s] \subseteq W \cup (R \cup Js)
    BY <2>4, <2>5, <2>6, TreeKinds
  <2>8. IsFiniteSet(R \cup Js)
    BY <2>1, <2>3, FS_Union
  <2> QED  BY <1>0, <2>1, <2>7, <2>8
<1>3. NumWords \in S
  <2> HIDE DEF S
  <2> QED  BY <1>1, <1>2, SetInduction, Shapes
<1>4. \A s \in Spans : IsFiniteSet(M1Trees[s])
  BY <1>3, Sizes
<1>5. IsFiniteSet(Spans)
  <2>1. IsFiniteSet(0..NumWords)
    BY Shapes, FS_Interval
  <2>2. IsFiniteSet((0..NumWords) \X (0..NumWords))
    BY <2>1, FS_Product
  <2> QED  BY <2>2, FS_Subset DEF Spans
<1>6. IsFiniteSet(AllTrees)
  <2> DEFINE row == [s \in Spans |-> M1Trees[s]]
             Rows == {row[s] : s \in Spans}
  <2>1. IsFiniteSet(Rows)
    <3> HIDE DEF row
    <3> QED  BY <1>5, FiniteImage
  <2>2. \A Z \in Rows : IsFiniteSet(Z)
    BY <1>4
  <2>3. AllTrees = UNION Rows
    BY DEF AllTrees
  <2> HIDE DEF Rows
  <2> QED  BY <2>1, <2>2, <2>3, FS_UNION
<1> QED  BY <1>4, <1>5, <1>6

-----------------------------------------------------------------------------
(* The total score of trees.                                               *)
ScoreMap == [t \in AllTrees |-> t.score]
Score(A) == Total(ScoreMap, A)

(* It is natural, and a sum over parts without a common tree.              *)
LEMMA Scores ==
  ASSUME TypeOK
  PROVE  /\ \A t \in AllTrees : ScoreMap[t] = t.score /\ ScoreMap[t] \in Nat
         /\ Score({}) = 0
         /\ \A A \in SUBSET AllTrees : IsFiniteSet(A) /\ Score(A) \in Nat
         /\ \A A, B \in SUBSET AllTrees : A \cap B = {} => Score(A \cup B) = Score(A) + Score(B)
         /\ \A t \in AllTrees : Score({t}) = t.score
<1>1. \A t \in AllTrees : ScoreMap[t] = t.score /\ ScoreMap[t] \in Nat
  BY TreeFacts DEF AllTrees, ScoreMap
<1>2. IsFiniteSet(AllTrees)
  BY FiniteTrees
<1>3. /\ Score({}) = 0 /\ \A A \in SUBSET AllTrees : Score(A) \in Nat
      /\ \A A \in SUBSET AllTrees : \A x \in A : Score(A) = ScoreMap[x] + Score(A \ {x})
  BY <1>1, <1>2, TotalSplit DEF Score
<1>4. \A A, B \in SUBSET AllTrees : A \cap B = {} => Score(A \cup B) = Score(A) + Score(B)
  BY <1>1, <1>2, TotalUnion DEF Score
<1>5. \A t \in AllTrees : Score({t}) = t.score
  <2> TAKE t \in AllTrees
  <2>1. Score({t}) = ScoreMap[t] + Score({t} \ {t})
    BY <1>3
  <2>2. {t} \ {t} = {}
    OBVIOUS
  <2> QED  BY <1>1, <1>3, <2>1, <2>2
<1>6. \A A \in SUBSET AllTrees : IsFiniteSet(A)
  BY <1>2, FS_Subset
<1> QED  BY <1>1, <1>3, <1>4, <1>5, <1>6

(* The trees a binary rule makes of two sets of trees.                     *)
LEMMA JoinedScore ==
  ASSUME TypeOK, NEW A \in SUBSET AllTrees, NEW D \in SUBSET AllTrees, NEW l, NEW r,
         \A x \in A, y \in D : Join(l, r, x, y) \in AllTrees
  PROVE  Score({Join(l, r, x, y) : x \in A, y \in D}) = Binary(l, r) * Score(A) * Score(D)
<1> DEFINE Q == {Join(l, r, x, y) : x \in A, y \in D}
           row(x) == [y \in D |-> Join(l, r, x, y)]
           F == [x \in A |-> {row(x)[y] : y \in D}]
           k == Binary(l, r)
<1>1. /\ \A t \in AllTrees : ScoreMap[t] = t.score /\ ScoreMap[t] \in Nat
      /\ IsFiniteSet(A) /\ IsFiniteSet(D) /\ IsFiniteSet(AllTrees)
      /\ Score(A) \in Nat /\ Score(D) \in Nat /\ k \in Nat
  BY Scores, RuleScores
<1>2. ASSUME NEW x \in A PROVE Score(F[x]) = (k * x.score) * Score(D)
  <2> DEFINE h == row(x)
             c == k * x.score
             g == [y \in D |-> ScoreMap[h[y]]]
             z == [y \in D |-> c * ScoreMap[y]]
  <2>1. c \in Nat
    BY <1>1, Products
  <2>2. \A y \in D : h[y] = Join(l, r, x, y) /\ h[y] \in AllTrees /\ Kids(h[y]) = {x, y} /\ h[y].kids = <<x, y>>
                     /\ h[y].score = k * x.score * y.score
    BY Made
  <2>3. \A y \in D : ScoreMap[h[y]] = c * ScoreMap[y] /\ ScoreMap[h[y]] \in Nat /\ ScoreMap[y] \in Nat
    BY <1>1, <2>2
  <2>4. \A u, v \in D : h[u] = h[v] => u = v
    <3> HIDE DEF h
    <3> TAKE u, v \in D
    <3> HAVE h[u] = h[v]
    <3>1. <<x, u>> = <<x, v>>
      BY <2>2
    <3> QED  BY <3>1
  <2>5. F[x] = {h[y] : y \in D}
    OBVIOUS
  <2> HIDE DEF h, c, F
  <2>6. Total(ScoreMap, {h[y] : y \in D}) = Total(g, D)
    <3>1. IsFiniteSet(D) /\ \A y \in D : ScoreMap[h[y]] \in Nat
      BY <1>1, <2>3
    <3> QED  BY ONLY <2>4, <3>1, TotalImage
  <2>7. Total(g, D) = Total(z, D)
    <3>1. \A y \in D : g[y] \in Nat /\ g[y] = z[y]
      BY <2>3
    <3> HIDE DEF g, z
    <3> QED  BY <1>1, <3>1, TotalSame
  <2>8. Total(z, D) = c * Total(ScoreMap, D)
    BY <1>1, <2>1, TotalScale
  <2>9. Score(F[x]) = c * Score(D)
    BY <2>5, <2>6, <2>7, <2>8 DEF Score
  <2> QED  BY <2>9 DEF c
<1>3. \A x \in A : F[x] \in SUBSET AllTrees
  OBVIOUS
<1>4. \A u, v \in A : u # v => F[u] \cap F[v] = {}
  <2> SUFFICES ASSUME NEW u \in A, NEW v \in A, NEW x \in D, NEW y \in D,
                      Join(l, r, u, x) = Join(l, r, v, y)
               PROVE  u = v
    OBVIOUS
  <2>1. <<u, x>> = <<v, y>>
    BY Made
  <2> QED  BY <2>1
<1>5. Q = UNION {F[x] : x \in A}
  OBVIOUS
<1> DEFINE e == k * Score(D)
           g == [x \in A |-> Total(ScoreMap, F[x])]
           z == [x \in A |-> e * ScoreMap[x]]
<1>6. Total(ScoreMap, UNION {F[x] : x \in A}) = Total(g, A)
  <2> HIDE DEF F
  <2>1. /\ IsFiniteSet(AllTrees) /\ \A t \in AllTrees : ScoreMap[t] \in Nat
        /\ IsFiniteSet(A)
    BY <1>1
  <2> QED  BY ONLY <1>3, <1>4, <2>1, TotalDisjoint
<1>7. e \in Nat
  BY <1>1, Products
<1>8. Total(g, A) = Total(z, A)
  <2>1. \A x \in A : g[x] = z[x] /\ z[x] \in Nat
    <3> TAKE x \in A
    <3> DEFINE w == x.score
               d == Score(D)
    <3>1. Total(ScoreMap, F[x]) = (k * w) * d
      BY <1>2 DEF Score
    <3>2. w \in Nat /\ d \in Nat /\ ScoreMap[x] = w
      BY <1>1
    <3>3. g[x] = Total(ScoreMap, F[x]) /\ z[x] = e * ScoreMap[x]
      OBVIOUS
    <3>4. \A i, j, n \in Nat : (i * j) * n = (i * n) * j /\ (i * n) * j \in Nat
      OBVIOUS
    <3> HIDE DEF g, z, w, d, k
    <3> QED  BY <1>1, <3>1, <3>2, <3>3, <3>4 DEF d
  <2> HIDE DEF g, z
  <2> QED  BY <1>1, <2>1, TotalSame
<1>9. Total(z, A) = e * Total(ScoreMap, A)
  <2> HIDE DEF e
  <2> QED  BY <1>1, <1>7, TotalScale
<1>10. Score(Q) = e * Score(A)
  <2> HIDE DEF g, z, F, Q, e
  <2> QED  BY <1>5, <1>6, <1>8, <1>9 DEF Score
<1>11. \A i, j, n \in Nat : (i * n) * j = i * j * n
  OBVIOUS
<1> HIDE DEF k, Q
<1>12. Score(Q) = k * Score(A) * Score(D)
  BY <1>1, <1>10, <1>11
<1> QED  BY <1>12 DEF Q, k

(* The trees a unary rule makes of trees.                                  *)
LEMMA RaisedScore ==
  ASSUME TypeOK, NEW A \in SUBSET AllTrees, NEW t, \A x \in A : Raise(t, x) \in AllTrees
  PROVE  Score({Raise(t, x) : x \in A}) = Unary(t) * Score(A)
<1> DEFINE h == [x \in A |-> Raise(t, x)]
           k == Unary(t)
           g == [x \in A |-> ScoreMap[h[x]]]
           z == [x \in A |-> k * ScoreMap[x]]
<1>1. /\ \A x \in AllTrees : ScoreMap[x] = x.score /\ ScoreMap[x] \in Nat
      /\ IsFiniteSet(A) /\ k \in Nat
  BY Scores, RuleScores
<1>2. \A x \in A : h[x] = Raise(t, x) /\ h[x] \in AllTrees /\ Kids(h[x]) = {x} /\ h[x].score = k * x.score
  BY Made
<1>3. \A x \in A : ScoreMap[h[x]] = k * ScoreMap[x] /\ ScoreMap[h[x]] \in Nat /\ ScoreMap[x] \in Nat
  BY <1>1, <1>2
<1>4. \A u, v \in A : h[u] = h[v] => u = v
  <2> HIDE DEF h
  <2> QED  BY <1>2
<1>5. {Raise(t, x) : x \in A} = {h[x] : x \in A}
  OBVIOUS
<1> HIDE DEF h, k
<1>6. Total(ScoreMap, {h[x] : x \in A}) = Total(g, A)
  BY <1>1, <1>3, <1>4, TotalImage
<1>7. Total(g, A) = Total(z, A)
  <2>1. \A x \in A : g[x] \in Nat /\ g[x] = z[x]
    BY <1>3
  <2> HIDE DEF g, z
  <2> QED  BY <1>1, <2>1, TotalSame
<1>8. Total(z, A) = k * Total(ScoreMap, A)
  BY <1>1, TotalScale
<1>9. Score({Raise(t, x) : x \in A}) = k * Score(A)
  BY <1>5, <1>6, <1>7, <1>8 DEF Score
<1> QED  BY <1>9 DEF k

-----------------------------------------------------------------------------
(* What a span passes on to a cell below it.                               *)
UnaryPart(w, c) ==
  IF c[1] = w /\ c[2] \in Lexicals THEN Unary(c[2]) * outside[<<w, RootTag>>] ELSE 0

LeftPart(w, c) ==
  IF c[1][1] = w[1] /\ c[1][2] \in Mids(w) /\ c[2] \in M1Tags
    THEN SumOver(M1Tags, LAMBDA r : Binary(c[2], r) * outside[<<w, RootTag>>] * inside[<<<<c[1][2], w[2]>>, r>>])
    ELSE 0

RightPart(w, c) ==
  IF c[1][2] = w[2] /\ c[1][1] \in Mids(w) /\ c[2] \in M1Tags
    THEN SumOver(M1Tags, LAMBDA l : Binary(l, c[2]) * outside[<<w, RootTag>>] * inside[<<<<w[1], c[1][1]>>, l>>])
    ELSE 0

Share(w, c) == UnaryPart(w, c) + LeftPart(w, c) + RightPart(w, c)
Shares(c) == [w \in Spans |-> Share(w, c)]

(* The sums the two passes have come to.                                   *)
Base(s, t) == IF Size(s) = 1 THEN Terminal(s[1], t) ELSE 0

InsideSummed ==
  pc # "terminals" =>
    \A s \in Spans :
      /\ \A t \in Lexicals : inside[<<s, t>>] = Base(s, t)
      /\ ~InsideDone(pc, span, s) => inside[<<s, RootTag>>] = Base(s, RootTag)
      /\ InsideDone(pc, span, s) =>
           inside[<<s, RootTag>>] = (IF Size(s) > 1 THEN BinarySum(s) ELSE Base(s, RootTag)) + UnarySum(s)

DoneDown == {w \in Spans : OutsideDone(pc, span, w)}

OutsideSummed ==
  /\ pc \in {"terminals", "inside", "root"} => \A c \in Cells : outside[c] = 0
  /\ pc \in {"outside", "prune", "done"} =>
       \A c \in Cells : outside[c] = (IF c = RootCell THEN 1 ELSE 0) + Total(Shares(c), DoneDown)

(* A step's span is done with after the step, and so are those before it.  *)
LEMMA DoneOrder ==
  ASSUME NEW s \in Spans, NEW t \in Spans
  PROVE  /\ t # Whole => Before(t, NextSpan(t)) /\ (Before(s, t) => Before(s, NextSpan(t)))
         /\ t # LastSpan => BeforeDown(t, PreviousSpan(t)) /\ (BeforeDown(s, t) => BeforeDown(s, PreviousSpan(t)))
         /\ ~Before(t, t) /\ ~BeforeDown(t, t)
<1>1. /\ s[1] \in 0..NumWords /\ s[2] \in 0..NumWords /\ s[1] < s[2]
      /\ t = <<t[1], t[2]>> /\ t[1] \in 0..NumWords /\ t[2] \in 0..NumWords /\ t[1] < t[2]
      /\ NumWords \in Nat \ {0}
  BY SpanOrder, Shapes
<1>2. t # Whole => t[1] # 0 \/ t[2] # NumWords
  BY <1>1 DEF Whole
<1>3. t # LastSpan => t[1] # NumWords - 1 \/ t[2] # NumWords
  BY <1>1 DEF LastSpan
<1>4. t # Whole => Before(t, NextSpan(t)) /\ (Before(s, t) => Before(s, NextSpan(t)))
  BY <1>1, <1>2 DEF Before, Size, NextSpan
<1>5. t # LastSpan => BeforeDown(t, PreviousSpan(t)) /\ (BeforeDown(s, t) => BeforeDown(s, PreviousSpan(t)))
  BY <1>1, <1>3 DEF BeforeDown, Size, PreviousSpan
<1>6. ~Before(t, t) /\ ~BeforeDown(t, t)
  BY <1>1 DEF Before, BeforeDown, Size
<1> QED  BY <1>4, <1>5, <1>6

(* Scores from the input do not change.                                    *)
LEMMA ScoresKept ==
  ASSUME UNCHANGED input
  PROVE  /\ Lexicals' = Lexicals /\ M1Tags' = M1Tags /\ Pairs' = Pairs
         /\ \A l, r : Binary(l, r)' = Binary(l, r)
         /\ \A c : Unary(c)' = Unary(c)
         /\ \A b, t : Terminal(b, t)' = Terminal(b, t)
         /\ \A s, t : Base(s, t)' = Base(s, t)
<1>1. sentence' = sentence /\ model' = model /\ weight' = weight
  BY DEF input
<1>2. Lexicals' = Lexicals
  BY <1>1 DEF Lexicals, LexicalTags
<1>3. M1Model' = M1Model
  BY <1>1, <1>2 DEF M1Model, Up, ProjectTable, SumOver
<1>4. \A l, r : Binary(l, r)' = Binary(l, r)
  BY <1>3 DEF Binary
<1>5. \A c : Unary(c)' = Unary(c)
  BY <1>3 DEF Unary
<1>6. \A b, t : Terminal(b, t)' = Terminal(b, t)
  BY <1>1 DEF Terminal, Abstract, WordScore, Entry, SumOver
<1>7. M1Tags' = M1Tags /\ Pairs' = Pairs
  BY <1>2 DEF M1Tags, Pairs
<1> QED  BY <1>2, <1>4, <1>5, <1>6, <1>7 DEF Base

(* The sums for a span change with the inside scores below it only.        *)
LEMMA SumsKept ==
  ASSUME UNCHANGED input, NEW s \in Spans,
         \A m \in Mids(s) : \A t \in M1Tags :
           /\ inside'[<<<<s[1], m>>, t>>] = inside[<<<<s[1], m>>, t>>]
           /\ inside'[<<<<m, s[2]>>, t>>] = inside[<<<<m, s[2]>>, t>>],
         \A t \in Lexicals : inside'[<<s, t>>] = inside[<<s, t>>]
  PROVE  BinarySum(s)' = BinarySum(s) /\ UnarySum(s)' = UnarySum(s)
<1>1. UnarySum(s)' = UnarySum(s)
  <2> DEFINE f == [t \in Lexicals |-> Unary(t) * inside[<<s, t>>]]
             g == [t \in Lexicals |-> Unary(t) * inside'[<<s, t>>]]
  <2>1. UnarySum(s) = SumFunction(f)
    BY DEF UnarySum, SumOver
  <2>2. UnarySum(s)' = SumFunction(g)
    BY ScoresKept DEF UnarySum, SumOver
  <2>3. f = g
    OBVIOUS
  <2> QED  BY <2>1, <2>2, <2>3
<1>2. BinarySum(s)' = BinarySum(s)
  <2> DEFINE f == [u \in Pairs \X Mids(s) |->
                     Binary(u[1][1], u[1][2]) * inside[<<<<s[1], u[2]>>, u[1][1]>>]
                                              * inside[<<<<u[2], s[2]>>, u[1][2]>>]]
             g == [u \in Pairs \X Mids(s) |->
                     Binary(u[1][1], u[1][2]) * inside'[<<<<s[1], u[2]>>, u[1][1]>>]
                                              * inside'[<<<<u[2], s[2]>>, u[1][2]>>]]
  <2>1. BinarySum(s) = SumFunction(f)
    BY DEF BinarySum, SumOver
  <2>2. BinarySum(s)' = SumFunction(g)
    <3> DEFINE h == [u \in Pairs' \X Mids(s) |->
                       Binary(u[1][1], u[1][2])' * inside'[<<<<s[1], u[2]>>, u[1][1]>>]
                                                 * inside'[<<<<u[2], s[2]>>, u[1][2]>>]]
    <3>1. BinarySum(s)' = SumFunction(h)
      BY DEF BinarySum, SumOver
    <3>2. h = g
      BY ScoresKept
    <3> QED  BY <3>1, <3>2
  <2>3. f = g
    <3>1. \A u \in Pairs \X Mids(s) : u[1][1] \in M1Tags /\ u[1][2] \in M1Tags /\ u[2] \in Mids(s)
      BY DEF Pairs
    <3> QED  BY <3>1
  <2> QED  BY <2>1, <2>2, <2>3
<1> QED  BY <1>1, <1>2

-----------------------------------------------------------------------------
(* Nothing is summed at first.                                             *)
LEMMA InitSummed == Init => InsideSummed /\ OutsideSummed
BY DEF Init, InsideSummed, OutsideSummed

(* The words' scores.                                                      *)
LEMMA SetTerminalsSummed ==
  TypeOK /\ Passes /\ InsideSummed /\ OutsideSummed /\ SetTerminals => InsideSummed' /\ OutsideSummed'
<1> SUFFICES ASSUME TypeOK, Passes, InsideSummed, OutsideSummed, SetTerminals
             PROVE  InsideSummed' /\ OutsideSummed'
  OBVIOUS
<1>1. /\ pc = "terminals" /\ pc' = "inside" /\ span' = FirstSpan /\ UNCHANGED <<input, outside>>
      /\ inside' = [c \in Cells |-> IF c[1][2] = c[1][1] + 1 THEN Terminal(c[1][1], c[2]) ELSE 0]
  BY DEF SetTerminals, Passes
<1>2. \A s \in Spans : ~InsideDone(pc', span', s)
  BY <1>1, SpanOrder, Shapes DEF InsideDone
<1>3. \A s \in Spans : \A t \in M1Tags : inside'[<<s, t>>] = Base(s, t)
  <2> TAKE s \in Spans
  <2> TAKE t \in M1Tags
  <2> DEFINE c == <<s, t>>
  <2>1. c \in Cells /\ c[1] = s /\ c[2] = t
    BY LexicalTagIds DEF Cells
  <2>2. Size(s) = 1 <=> s[2] = s[1] + 1
    BY SpanOrder DEF Size
  <2>3. inside'[c] = IF c[1][2] = c[1][1] + 1 THEN Terminal(c[1][1], c[2]) ELSE 0
    BY <1>1, <2>1
  <2> HIDE DEF c
  <2>4. inside'[c] = Base(s, t)
    BY <2>1, <2>2, <2>3 DEF Base
  <2> QED  BY <2>4 DEF c
<1>4. InsideSummed'
  <2>1. Lexicals' = Lexicals /\ Lexicals \subseteq M1Tags /\ RootTag \in M1Tags
    BY <1>1, ScoresKept DEF M1Tags
  <2>2. \A s, t : Base(s, t)' = Base(s, t)
    BY <1>1, ScoresKept
  <2> QED  BY <1>1, <1>2, <1>3, <2>1, <2>2 DEF InsideSummed
<1>5. OutsideSummed'
  BY <1>1 DEF OutsideSummed
<1> QED  BY <1>4, <1>5

(* The inside pass sums for one span after the other.                      *)
LEMMA InsideSpanSummed ==
  TypeOK /\ Passes /\ InsideSummed /\ OutsideSummed /\ InsideSpan => InsideSummed' /\ OutsideSummed'
<1> SUFFICES ASSUME TypeOK, Passes, InsideSummed, OutsideSummed, InsideSpan
             PROVE  InsideSummed' /\ OutsideSummed'
  OBVIOUS
<1>1. /\ span \in Spans /\ inside \in [Cells -> Nat] /\ <<span, RootTag>> \in Cells
      /\ pc = "inside" /\ UNCHANGED <<input, outside>>
  BY Shapes DEF TypeOK, Cells, InsideSpan
<1> DEFINE v == (IF span[2] - span[1] > 1 THEN BinarySum(span) ELSE inside[<<span, RootTag>>])
                  + UnarySum(span)
<1>2. inside' = [inside EXCEPT ![<<span, RootTag>>] = v]
  BY DEF InsideSpan
<1>3. /\ \A c \in Cells : c # <<span, RootTag>> => inside'[c] = inside[c]
      /\ inside'[<<span, RootTag>>] = v
  <2> HIDE DEF v
  <2> QED  BY <1>1, <1>2
<1>4. /\ pc' \in {"inside", "root"}
      /\ \A s \in Spans : InsideDone(pc', span', s) <=> InsideDone(pc, span, s) \/ s = span
      /\ ~InsideDone(pc, span, span)
  <2>1. \A s \in Spans : InsideDone(pc, span, s) <=> Before(s, span)
    BY <1>1 DEF InsideDone
  <2>2. ~InsideDone(pc, span, span)
    BY <1>1, <2>1, DoneOrder
  <2>3. CASE span = Whole
    <3>1. pc' = "root"
      BY <2>3 DEF InsideSpan
    <3>2. \A s \in Spans : Before(s, span) \/ s = span
      BY <2>3, SpanOrder
    <3> QED  BY <2>1, <2>2, <3>1, <3>2 DEF InsideDone
  <2>4. CASE span # Whole
    <3>1. pc' = "inside" /\ span' = NextSpan(span)
      BY <2>4 DEF InsideSpan
    <3>2. \A s \in Spans : Before(s, NextSpan(span)) <=> Before(s, span) \/ s = span
      BY <1>1, <2>4, SpanOrder, DoneOrder
    <3> QED  BY <2>1, <2>2, <3>1, <3>2 DEF InsideDone
  <2> QED  BY <2>3, <2>4
<1>5. RootTag \notin Lexicals /\ Lexicals \subseteq M1Tags /\ M1Tags \subseteq TagIds
  BY G1Rules, LexicalTagIds DEF M1Tags
<1>6. \A s \in Spans : \A t \in Lexicals : inside'[<<s, t>>] = inside[<<s, t>>]
  <2> TAKE s \in Spans
  <2> TAKE t \in Lexicals
  <2>1. <<s, t>> \in Cells /\ <<s, t>> # <<span, RootTag>>
    BY <1>5 DEF Cells
  <2> QED  BY <1>3, <2>1
<1>7. \A s \in Spans : s # span => inside'[<<s, RootTag>>] = inside[<<s, RootTag>>]
  BY <1>3, Shapes DEF Cells
<1>8. ASSUME NEW s \in Spans, InsideDone(pc, span, s) \/ s = span
      PROVE  BinarySum(s)' = BinarySum(s) /\ UnarySum(s)' = UnarySum(s)
  <2>1. s = span \/ Before(s, span)
    BY <1>1, <1>8 DEF InsideDone
  <2>2. ASSUME NEW m \in Mids(s), NEW t \in M1Tags
        PROVE  /\ inside'[<<<<s[1], m>>, t>>] = inside[<<<<s[1], m>>, t>>]
               /\ inside'[<<<<m, s[2]>>, t>>] = inside[<<<<m, s[2]>>, t>>]
    <3>1. /\ <<s[1], m>> \in Spans /\ <<m, s[2]>> \in Spans
          /\ <<s[1], m>> # span /\ <<m, s[2]>> # span
      BY <1>1, <2>1, SpanParts
    <3>2. <<<<s[1], m>>, t>> \in Cells /\ <<<<m, s[2]>>, t>> \in Cells
      BY <1>5, <3>1 DEF Cells
    <3>3. <<<<s[1], m>>, t>> # <<span, RootTag>> /\ <<<<m, s[2]>>, t>> # <<span, RootTag>>
      BY <3>1
    <3> QED  BY <1>3, <3>2, <3>3
  <2>3. UNCHANGED input
    BY <1>1
  <2> HIDE DEF v
  <2> QED  BY <1>6, <2>2, <2>3, SumsKept
<1>9. v = (IF Size(span) > 1 THEN BinarySum(span) ELSE Base(span, RootTag)) + UnarySum(span)
  <2>1. inside[<<span, RootTag>>] = Base(span, RootTag)
    BY <1>1, <1>4 DEF InsideSummed
  <2> QED  BY <2>1 DEF Size
<1>10. InsideSummed'
  <2>1. Lexicals' = Lexicals /\ \A s, t : Base(s, t)' = Base(s, t)
    BY <1>1, ScoresKept
  <2> SUFFICES ASSUME NEW s \in Spans
               PROVE  /\ \A t \in Lexicals : inside'[<<s, t>>] = Base(s, t)
                      /\ ~InsideDone(pc', span', s) => inside'[<<s, RootTag>>] = Base(s, RootTag)
                      /\ InsideDone(pc', span', s) =>
                           inside'[<<s, RootTag>>] =
                             (IF Size(s) > 1 THEN BinarySum(s)' ELSE Base(s, RootTag)) + UnarySum(s)'
    BY <2>1 DEF InsideSummed
  <2>2. /\ \A t \in Lexicals : inside[<<s, t>>] = Base(s, t)
        /\ ~InsideDone(pc, span, s) => inside[<<s, RootTag>>] = Base(s, RootTag)
        /\ InsideDone(pc, span, s) =>
             inside[<<s, RootTag>>] = (IF Size(s) > 1 THEN BinarySum(s) ELSE Base(s, RootTag)) + UnarySum(s)
    BY <1>1 DEF InsideSummed
  <2> HIDE DEF v
  <2>3. CASE s = span
    BY <1>3, <1>4, <1>6, <1>8, <1>9, <2>2, <2>3
  <2>4. CASE s # span
    BY <1>4, <1>6, <1>7, <1>8, <2>2, <2>4
  <2> QED  BY <2>3, <2>4
<1>11. OutsideSummed'
  BY <1>1, <1>4 DEF OutsideSummed
<1> QED  BY <1>10, <1>11

(* What does not change the inside scores.                                 *)
LEMMA InsideSummedKept ==
  ASSUME InsideSummed, UNCHANGED <<input, inside>>, pc # "terminals",
         \A s \in Spans : InsideDone(pc', span', s) <=> InsideDone(pc, span, s)
  PROVE  InsideSummed'
<1>1. UNCHANGED input /\ inside' = inside
  OBVIOUS
<1>2. \A s \in Spans : BinarySum(s)' = BinarySum(s) /\ UnarySum(s)' = UnarySum(s)
  BY <1>1, SumsKept
<1>3. Lexicals' = Lexicals /\ \A s, t : Base(s, t)' = Base(s, t)
  BY <1>1, ScoresKept
<1> QED  BY <1>1, <1>2, <1>3 DEF InsideSummed

(* A sum over nothing.                                                     *)
LEMMA TotalOfNone == \A f : Total(f, {}) = 0
<1> TAKE f
<1>1. IsFiniteSet({}) /\ \A x \in {} : f[x] \in Nat
  BY FS_EmptySet
<1> QED  BY <1>1, TotalSplit

(* What a span passes on is natural.                                       *)
LEMMA PartsNat ==
  ASSUME TypeOK, NEW w \in Spans, NEW c \in Cells
  PROVE  UnaryPart(w, c) \in Nat /\ LeftPart(w, c) \in Nat /\ RightPart(w, c) \in Nat
<1> DEFINE o == outside[<<w, RootTag>>]
<1>1. inside \in [Cells -> Nat] /\ o \in Nat
  BY Shapes DEF TypeOK, Cells
<1>2. UnaryPart(w, c) \in Nat
  <2>1. Unary(c[2]) * o \in Nat
    BY <1>1, RuleScores, Products
  <2> QED  BY <2>1 DEF UnaryPart
<1>3. LeftPart(w, c) \in Nat
  <2> SUFFICES ASSUME c[1][1] = w[1], c[1][2] \in Mids(w), c[2] \in M1Tags PROVE LeftPart(w, c) \in Nat
    BY DEF LeftPart
  <2> DEFINE f == [r \in M1Tags |-> Binary(c[2], r) * o * inside[<<<<c[1][2], w[2]>>, r>>]]
  <2>1. \A r \in M1Tags : inside[<<<<c[1][2], w[2]>>, r>>] \in Nat
    BY <1>1, SpanParts, LexicalTagIds DEF Cells
  <2>2. \A r \in M1Tags : Binary(c[2], r) \in Nat
    BY RuleScores
  <2>3. f \in [M1Tags -> Nat]
    <3> HIDE DEF o
    <3> QED  BY <1>1, <2>1, <2>2, Products
  <2>4. SumFunction(f) \in Nat
    <3> HIDE DEF f
    <3> QED  BY <2>3, LexicalTagIds, SumOfNaturals
  <2>5. LeftPart(w, c) = SumFunction(f)
    BY DEF LeftPart, SumOver
  <2> QED  BY <2>4, <2>5
<1>4. RightPart(w, c) \in Nat
  <2> SUFFICES ASSUME c[1][2] = w[2], c[1][1] \in Mids(w), c[2] \in M1Tags PROVE RightPart(w, c) \in Nat
    BY DEF RightPart
  <2> DEFINE f == [l \in M1Tags |-> Binary(l, c[2]) * o * inside[<<<<w[1], c[1][1]>>, l>>]]
  <2>1. \A l \in M1Tags : inside[<<<<w[1], c[1][1]>>, l>>] \in Nat
    BY <1>1, SpanParts, LexicalTagIds DEF Cells
  <2>2. \A l \in M1Tags : Binary(l, c[2]) \in Nat
    BY RuleScores
  <2>3. f \in [M1Tags -> Nat]
    <3> HIDE DEF o
    <3> QED  BY <1>1, <2>1, <2>2, Products
  <2>4. SumFunction(f) \in Nat
    <3> HIDE DEF f
    <3> QED  BY <2>3, LexicalTagIds, SumOfNaturals
  <2>5. RightPart(w, c) = SumFunction(f)
    BY DEF RightPart, SumOver
  <2> QED  BY <2>4, <2>5
<1> QED  BY <1>2, <1>3, <1>4

(* And so is its sum.                                                      *)
LEMMA ShareNat == ASSUME TypeOK PROVE \A w \in Spans : \A c \in Cells : Share(w, c) \in Nat
BY PartsNat DEF Share

(* It depends on the inside scores and on the outside score of its ROOT.   *)
LEMMA ShareKept ==
  ASSUME UNCHANGED <<input, inside>>, NEW w, outside'[<<w, RootTag>>] = outside[<<w, RootTag>>], NEW c
  PROVE  Share(w, c)' = Share(w, c)
<1>1. /\ Lexicals' = Lexicals /\ M1Tags' = M1Tags
      /\ \A l, r : Binary(l, r)' = Binary(l, r)
      /\ \A t : Unary(t)' = Unary(t)
  BY ScoresKept
<1>2. UnaryPart(w, c)' = UnaryPart(w, c)
  BY <1>1 DEF UnaryPart
<1>3. LeftPart(w, c)' = LeftPart(w, c)
  <2> DEFINE f == [r \in M1Tags |-> Binary(c[2], r) * outside[<<w, RootTag>>] * inside[<<<<c[1][2], w[2]>>, r>>]]
             g == [r \in M1Tags' |-> Binary(c[2], r)' * outside'[<<w, RootTag>>] * inside'[<<<<c[1][2], w[2]>>, r>>]]
             P == c[1][1] = w[1] /\ c[1][2] \in Mids(w)
  <2>1. LeftPart(w, c) = IF P /\ c[2] \in M1Tags THEN SumFunction(f) ELSE 0
    BY DEF LeftPart, SumOver
  <2>2. LeftPart(w, c)' = IF P /\ c[2] \in M1Tags' THEN SumFunction(g) ELSE 0
    BY DEF LeftPart, SumOver
  <2>3. f = g
    BY <1>1
  <2> QED  BY <1>1, <2>1, <2>2, <2>3
<1>4. RightPart(w, c)' = RightPart(w, c)
  <2> DEFINE f == [l \in M1Tags |-> Binary(l, c[2]) * outside[<<w, RootTag>>] * inside[<<<<w[1], c[1][1]>>, l>>]]
             g == [l \in M1Tags' |-> Binary(l, c[2])' * outside'[<<w, RootTag>>] * inside'[<<<<w[1], c[1][1]>>, l>>]]
             P == c[1][2] = w[2] /\ c[1][1] \in Mids(w)
  <2>1. RightPart(w, c) = IF P /\ c[2] \in M1Tags THEN SumFunction(f) ELSE 0
    BY DEF RightPart, SumOver
  <2>2. RightPart(w, c)' = IF P /\ c[2] \in M1Tags' THEN SumFunction(g) ELSE 0
    BY DEF RightPart, SumOver
  <2>3. f = g
    BY <1>1
  <2> QED  BY <1>1, <2>1, <2>2, <2>3
<1> QED  BY <1>2, <1>3, <1>4 DEF Share

(* ROOT over a span gets its outside score from larger spans only.         *)
LEMMA RootShares ==
  ASSUME TypeOK, NEW s \in Spans, NEW w \in Spans, Size(s) >= Size(w)
  PROVE  Share(w, <<s, RootTag>>) = 0
<1> DEFINE c == <<s, RootTag>>
<1>1. \A m \in Mids(w) : s # <<w[1], m>> /\ s # <<m, w[2]>>
  <2> TAKE m \in Mids(w)
  <2> DEFINE l == <<w[1], m>>
             r == <<m, w[2]>>
  <2>1. l \in Spans /\ r \in Spans /\ Size(l) < Size(w) /\ Size(r) < Size(w)
    BY SpanParts
  <2> HIDE DEF l, r
  <2>2. Size(l) # Size(s) /\ Size(r) # Size(s)
    BY <2>1, Sizes
  <2>3. s # l /\ s # r
    BY <2>2
  <2> QED  BY <2>3 DEF l, r
<1>2. s = <<s[1], s[2]>>
  BY SpanOrder
<1>3. LeftPart(w, c) = 0 /\ RightPart(w, c) = 0
  BY <1>1, <1>2 DEF LeftPart, RightPart
<1>4. UnaryPart(w, c) = 0
  BY G1Rules DEF UnaryPart
<1> QED  BY <1>3, <1>4 DEF Share

(* The outside pass starts from ROOT over the sentence.                    *)
LEMMA StartOutsideSummed ==
  TypeOK /\ Passes /\ InsideSummed /\ OutsideSummed /\ StartOutside => InsideSummed' /\ OutsideSummed'
<1> SUFFICES ASSUME TypeOK, Passes, InsideSummed, OutsideSummed, StartOutside
             PROVE  InsideSummed' /\ OutsideSummed'
  OBVIOUS
<1>1. /\ pc = "root" /\ pc' = "outside" /\ span = Whole /\ UNCHANGED <<input, inside, span>>
      /\ outside' = [outside EXCEPT ![RootCell] = 1]
  BY DEF StartOutside, Passes, RootCell
<1>2. InsideSummed'
  <2>1. \A s \in Spans : InsideDone(pc', span', s) <=> InsideDone(pc, span, s)
    BY <1>1 DEF InsideDone
  <2> QED  BY <1>1, <2>1, InsideSummedKept
<1>3. \A c \in Cells : outside'[c] = IF c = RootCell THEN 1 ELSE 0
  BY <1>1 DEF OutsideSummed, TypeOK
<1>4. DoneDown' = {}
  BY <1>1, SpanOrder, Shapes DEF DoneDown, OutsideDone
<1>5. \A c : Total(Shares(c)', DoneDown') = 0
  BY <1>4, TotalOfNone
<1>6. OutsideSummed'
  <2> SUFFICES ASSUME NEW c \in Cells
               PROVE  outside'[c] = (IF c = RootCell THEN 1 ELSE 0) + Total(Shares(c)', DoneDown')
    BY <1>1 DEF OutsideSummed
  <2> QED  BY <1>3, <1>5
<1> QED  BY <1>2, <1>6

(* Span by span, it adds what the span passes on.                          *)
LEMMA OutsideSpanSummed ==
  TypeOK /\ Passes /\ InsideSummed /\ OutsideSummed /\ OutsideSpan => InsideSummed' /\ OutsideSummed'
<1> SUFFICES ASSUME TypeOK, Passes, InsideSummed, OutsideSummed, OutsideSpan
             PROVE  InsideSummed' /\ OutsideSummed'
  OBVIOUS
<1>1. /\ span \in Spans /\ inside \in [Cells -> Nat] /\ outside \in [Cells -> Nat]
      /\ pc = "outside" /\ pc' \in {"outside", "prune"} /\ UNCHANGED <<input, inside>>
  BY DEF TypeOK, OutsideSpan
<1>2. \A c \in Cells : outside'[c] = outside[c] + Share(span, c)
  <2> TAKE c \in Cells
  <2>1. UnaryShare(c) = UnaryPart(span, c) /\ LeftShare(c) = LeftPart(span, c) /\ RightShare(c) = RightPart(span, c)
    BY DEF UnaryShare, UnaryPart, LeftShare, LeftPart, RightShare, RightPart, Above
  <2>2. UnaryShare(c) \in Nat /\ LeftShare(c) \in Nat /\ RightShare(c) \in Nat /\ outside[c] \in Nat
    BY <1>1, OutsideShares
  <2>3. outside'[c] = outside[c] + UnaryShare(c) + LeftShare(c) + RightShare(c)
    BY DEF OutsideSpan
  <2> QED  BY <2>1, <2>2, <2>3 DEF Share
<1>3. InsideSummed'
  <2>1. \A s \in Spans : InsideDone(pc', span', s) <=> InsideDone(pc, span, s)
    BY <1>1 DEF InsideDone
  <2> QED  BY <1>1, <2>1, InsideSummedKept
<1>4. /\ \A s \in Spans : OutsideDone(pc', span', s) <=> OutsideDone(pc, span, s) \/ s = span
      /\ \A s \in Spans : OutsideDone(pc, span, s) <=> BeforeDown(s, span)
      /\ ~BeforeDown(span, span)
  <2>1. \A s \in Spans : OutsideDone(pc, span, s) <=> BeforeDown(s, span)
    BY <1>1 DEF OutsideDone
  <2>2. ~BeforeDown(span, span)
    BY <1>1, DoneOrder
  <2>3. CASE span = LastSpan
    <3>1. pc' = "prune"
      BY <2>3 DEF OutsideSpan
    <3>2. \A s \in Spans : BeforeDown(s, span) \/ s = span
      BY <2>3, SpanOrder
    <3> QED  BY <2>1, <2>2, <3>1, <3>2 DEF OutsideDone
  <2>4. CASE span # LastSpan
    <3>1. pc' = "outside" /\ span' = PreviousSpan(span)
      BY <2>4 DEF OutsideSpan
    <3>2. \A s \in Spans : BeforeDown(s, PreviousSpan(span)) <=> BeforeDown(s, span) \/ s = span
      BY <1>1, <2>4, SpanOrder, DoneOrder
    <3> QED  BY <2>1, <2>2, <3>1, <3>2 DEF OutsideDone
  <2> QED  BY <2>3, <2>4
<1>5. DoneDown' = DoneDown \cup {span} /\ span \notin DoneDown
  BY <1>1, <1>4 DEF DoneDown
<1>6. \A w \in DoneDown' : outside'[<<w, RootTag>>] = outside[<<w, RootTag>>]
  <2> TAKE w \in DoneDown'
  <2>1. w \in Spans /\ (BeforeDown(w, span) \/ w = span)
    BY <1>1, <1>4, <1>5 DEF DoneDown
  <2>2. Size(w) >= Size(span)
    BY <1>1, <2>1, Sizes DEF BeforeDown
  <2>3. Share(span, <<w, RootTag>>) = 0
    BY <1>1, <2>1, <2>2, RootShares
  <2>4. <<w, RootTag>> \in Cells
    BY <2>1, Shapes DEF Cells
  <2> QED  BY <1>1, <1>2, <2>3, <2>4
<1>7. OutsideSummed'
  <2> SUFFICES ASSUME NEW c \in Cells
               PROVE  outside'[c] = (IF c = RootCell THEN 1 ELSE 0) + Total(Shares(c)', DoneDown')
    BY <1>1 DEF OutsideSummed
  <2> DEFINE f == Shares(c)
             g == Shares(c)'
             D == DoneDown'
             k == IF c = RootCell THEN 1 ELSE 0
  <2>1. \A w \in Spans : f[w] = Share(w, c) /\ f[w] \in Nat
    BY ShareNat DEF Shares
  <2>2. D \subseteq Spans /\ IsFiniteSet(Spans) /\ IsFiniteSet(D)
    <3>1. D \in SUBSET Spans
      BY DEF DoneDown
    <3> HIDE DEF D
    <3> QED  BY <3>1, FiniteTrees, FS_Subset
  <2>3. \A w \in D : g[w] = f[w]
    <3> TAKE w \in D
    <3>1. g[w] = Share(w, c)'
      BY <2>2 DEF Shares
    <3>2. Share(w, c)' = Share(w, c)
      BY <1>1, <1>6, ShareKept
    <3> QED  BY <2>1, <2>2, <3>1, <3>2
  <2>4. outside[c] = k + Total(f, DoneDown)
    BY <1>1 DEF OutsideSummed
  <2> HIDE DEF f, g, D, k
  <2>5. Total(g, D) = Total(f, D)
    <3>1. \A w \in D : f[w] \in Nat /\ f[w] = g[w]
      BY <2>1, <2>2, <2>3
    <3>2. Total(f, D) = Total(g, D)
      BY ONLY <2>2, <3>1, TotalSame
    <3> QED  BY <3>2
  <2>6. Total(f, D) = f[span] + Total(f, DoneDown) /\ Total(f, DoneDown) \in Nat
    <3>1. D \ {span} = DoneDown /\ span \in D /\ D \in SUBSET Spans /\ DoneDown \in SUBSET Spans
      BY <1>5, <2>2 DEF D
    <3>2. \A w \in Spans : f[w] \in Nat
      BY <2>1
    <3>3. /\ \A S \in SUBSET Spans : Total(f, S) \in Nat
          /\ \A S \in SUBSET Spans : \A x \in S : Total(f, S) = f[x] + Total(f, S \ {x})
      BY ONLY <2>2, <3>2, TotalSplit
    <3> QED  BY <3>1, <3>3
  <2>7. outside'[c] = outside[c] + f[span] /\ f[span] \in Nat /\ k \in Nat
    BY <1>1, <1>2, <2>1 DEF k
  <2>8. outside'[c] = k + Total(g, D)
    BY <2>4, <2>5, <2>6, <2>7
  <2> QED  BY <2>8 DEF k, g, D
<1> QED  BY <1>3, <1>7

(* Pruning changes no score.                                               *)
LEMMA PruneSummed ==
  TypeOK /\ Passes /\ InsideSummed /\ OutsideSummed /\ Prune => InsideSummed' /\ OutsideSummed'
<1> SUFFICES ASSUME InsideSummed, OutsideSummed, Prune PROVE InsideSummed' /\ OutsideSummed'
  OBVIOUS
<1>1. pc = "prune" /\ pc' = "done" /\ UNCHANGED <<input, inside, outside, span>>
  BY DEF Prune
<1>2. InsideSummed'
  <2>1. \A s \in Spans : InsideDone(pc', span', s) <=> InsideDone(pc, span, s)
    BY <1>1 DEF InsideDone
  <2> QED  BY <1>1, <2>1, InsideSummedKept
<1>3. \A c : Shares(c)' = Shares(c)
  BY <1>1, ShareKept DEF Shares
<1>4. DoneDown' = DoneDown
  BY <1>1 DEF DoneDown, OutsideDone
<1> QED  BY <1>1, <1>2, <1>3, <1>4 DEF OutsideSummed

(* No step of the preparse leaves the sums wrong.                          *)
LEMMA StepSummed ==
  TypeOK /\ Passes /\ InsideSummed /\ OutsideSummed /\ [Next]_vars => InsideSummed' /\ OutsideSummed'
<1>1. InsideSummed /\ OutsideSummed /\ UNCHANGED vars => InsideSummed' /\ OutsideSummed'
  <2> SUFFICES ASSUME InsideSummed, OutsideSummed, UNCHANGED vars PROVE InsideSummed' /\ OutsideSummed'
    OBVIOUS
  <2>1. UNCHANGED <<pc, inside, outside, span>> /\ UNCHANGED input
    BY DEF vars, input
  <2>2. InsideSummed'
    <3>1. CASE pc = "terminals"
      BY <2>1, <3>1 DEF InsideSummed
    <3>2. CASE pc # "terminals"
      <4>1. \A s \in Spans : InsideDone(pc', span', s) <=> InsideDone(pc, span, s)
        BY <2>1
      <4> QED  BY <2>1, <3>2, <4>1, InsideSummedKept
    <3> QED  BY <3>1, <3>2
  <2>3. \A c : Shares(c)' = Shares(c)
    BY <2>1, ShareKept DEF Shares
  <2>4. DoneDown' = DoneDown
    BY <2>1 DEF DoneDown
  <2> QED  BY <2>1, <2>2, <2>3, <2>4 DEF OutsideSummed
<1> QED
  BY <1>1, SetTerminalsSummed, InsideSpanSummed, StartOutsideSummed, OutsideSpanSummed, PruneSummed
  DEF Next

-----------------------------------------------------------------------------
(* The total that the property names is this one.                          *)
LEMMA ScoreOfTotal ==
  ASSUME TypeOK, NEW A \in SUBSET AllTrees
  PROVE  ScoreOf(A) = Score(A)
<1> DEFINE Table(h) == [s \in SUBSET A |-> IF s = {} THEN 0 ELSE AnyOf(s).score + h[s \ {AnyOf(s)}]]
           h == CHOOSE h : h = Table(h)
<1>1. ScoreOf(A) = h[A]
  BY DEF ScoreOf, MapThenSumSet, MapThenFoldSet, AnyOf
<1>2. IsFiniteSet(A) /\ \A t \in A : ScoreMap[t] = t.score
  BY Scores
<1>3. PICK g : g = SumTable(ScoreMap, A, g) /\ \A S \in SUBSET A : Total(ScoreMap, S) = g[S]
  BY <1>2, TotalTable
<1>4. \A s \in SUBSET A : s # {} => ScoreMap[AnyOf(s)] = AnyOf(s).score
  BY <1>2, AnyTaken
<1>5. SumTable(ScoreMap, A, g) = Table(g)
  BY <1>4 DEF SumTable
<1>6. h = Table(h)
  BY <1>3, <1>5
<1> HIDE DEF h
<1>7. \A s \in SUBSET A : h[s] = IF s = {} THEN 0 ELSE AnyOf(s).score + h[s \ {AnyOf(s)}]
  BY <1>6
<1>8. \A s \in SUBSET A : g[s] = IF s = {} THEN 0 ELSE AnyOf(s).score + g[s \ {AnyOf(s)}]
  BY <1>3, <1>5
<1> DEFINE Good == {s \in SUBSET A : h[s] = g[s]}
<1>9. {} \in Good
  BY <1>7, <1>8
<1>10. ASSUME NEW s \in SUBSET A, s # {}, s \ {AnyOf(s)} \in Good PROVE s \in Good
  BY <1>7, <1>8, <1>10
<1>11. SUBSET A \subseteq Good
  <2> HIDE DEF Good
  <2> QED  BY <1>2, <1>9, <1>10, SubsetInduction
<1> QED  BY <1>1, <1>3, <1>11 DEF Score

-----------------------------------------------------------------------------
(* After the inside pass, the inside scores are the totals of the trees.   *)
InsideTotals == \A s \in Spans, t \in M1Tags : inside[<<s, t>>] = Score(Of(s, t))

(* Trees that rules made are of the phrase symbol, and a join needs two    *)
(* words.                                                                  *)
LEMMA RuleTrees ==
  ASSUME NEW s \in Spans
  PROVE  /\ \A x : IsRaised(s, x) => x.sym = X /\ x.unary = TRUE
         /\ \A x : IsJoined(s, x) => x.sym = X /\ x.unary = FALSE /\ Size(s) > 1
<1>1. \A x : IsRaised(s, x) => x.sym = X /\ x.unary = TRUE
  BY Made DEF IsRaised
<1>2. ASSUME NEW x, IsJoined(s, x) PROVE x.sym = X /\ x.unary = FALSE /\ Size(s) > 1
  <2>1. PICK m \in Mids(s), p \in Pairs :
          \E l \in Of(<<s[1], m>>, p[1]), r \in Of(<<m, s[2]>>, p[2]) : x = Join(p[1], p[2], l, r)
    BY <1>2 DEF IsJoined
  <2>2. PICK l, r : x = Join(p[1], p[2], l, r)
    BY <2>1
  <2>3. Size(s) > 1
    BY SpanParts
  <2> QED  BY <2>2, <2>3, Made
<1> QED  BY <1>1, <1>2

(* The trees over a span are trees.                                        *)
LEMMA OfTrees ==
  ASSUME TypeOK, NEW s \in Spans, NEW t
  PROVE  Of(s, t) \in SUBSET AllTrees
BY DEF Of, AllTrees

(* A tree of a tag of words is a word.                                     *)
LEMMA LexicalTrees ==
  ASSUME TypeOK, NEW s \in Spans, NEW t \in Lexicals, NEW x \in Of(s, t)
  PROVE  Size(s) = 1 /\ Terminal(s[1], t) > 0 /\ x = Word(s[1], t)
<1>1. t # RootTag /\ t \in M1Tags
  BY G1Rules DEF M1Tags
<1>2. x \in M1Trees[s] /\ x.sym = Sym(t)
  BY DEF Of
<1>3. x.sym # X
  BY <1>1, <1>2, SymOfTag
<1>4. IsWord(s, x)
  BY <1>2, <1>3, TreeKinds, RuleTrees
<1>5. PICK u \in M1Tags : Terminal(s[1], u) > 0 /\ x = Word(s[1], u)
  BY <1>4 DEF IsWord
<1>6. u = t
  BY <1>2, <1>5, Made, SymOfTag
<1> QED  BY <1>4, <1>5, <1>6 DEF IsWord

(* A tag of words, over a word.                                            *)
LEMMA LexicalTotal ==
  ASSUME TypeOK, NEW s \in Spans, NEW t \in Lexicals
  PROVE  Score(Of(s, t)) = Base(s, t)
<1>1. t # RootTag /\ t \in M1Tags
  BY G1Rules DEF M1Tags
<1>2. \A x \in Of(s, t) : Size(s) = 1 /\ x = Word(s[1], t) /\ Terminal(s[1], t) > 0
  BY LexicalTrees
<1> DEFINE w == Word(s[1], t)
<1>3. CASE Size(s) = 1 /\ Terminal(s[1], t) > 0
  <2>1. w \in M1Trees[s]
    BY <1>1, <1>3, TreeKinds DEF IsWord
  <2>2. w.sym = Sym(t) /\ w.score = Terminal(s[1], t)
    BY Made
  <2>3. Of(s, t) = {w} /\ w \in AllTrees
    BY <1>2, <2>1, <2>2 DEF Of, AllTrees
  <2> QED  BY <1>3, <2>2, <2>3, Scores DEF Base
<1>4. CASE ~(Size(s) = 1 /\ Terminal(s[1], t) > 0)
  <2>1. Of(s, t) = {}
    BY <1>2, <1>4
  <2>2. Base(s, t) = 0
    BY <1>4, TerminalScores DEF Base
  <2> QED  BY <2>1, <2>2, Scores
<1> QED  BY <1>3, <1>4

(* ROOT over a word: the word itself, and what the unary rules make of it. *)
LEMMA RootWordTotal ==
  ASSUME TypeOK, NEW s \in Spans, Size(s) = 1, \A t \in Lexicals : inside[<<s, t>>] = Base(s, t)
  PROVE  Score(Of(s, RootTag)) = Base(s, RootTag) + UnarySum(s)
<1> DEFINE w(t) == Word(s[1], t)
           W == IF Terminal(s[1], RootTag) > 0 THEN {w(RootTag)} ELSE {}
           R == [t \in Lexicals |-> {Raise(t, x) : x \in IF UnaRule(t) \in DOMAIN M1Model.una THEN Of(s, t) ELSE {}}]
           U == UNION {R[t] : t \in Lexicals}
<1>0. Lexicals \subseteq M1Tags /\ RootTag \in M1Tags /\ RootTag \notin Lexicals
  BY G1Rules DEF M1Tags
<1>1. \A t \in Lexicals : \A x \in Of(s, t) : Terminal(s[1], t) > 0 /\ x = w(t)
  BY LexicalTrees
<1>2. \A t \in M1Tags : Terminal(s[1], t) > 0 => w(t) \in Of(s, t)
  <2> TAKE t \in M1Tags
  <2> HAVE Terminal(s[1], t) > 0
  <2>1. IsWord(s, w(t))
    BY DEF IsWord
  <2>2. w(t).sym = Sym(t)
    BY Made
  <2> QED  BY <2>1, <2>2, TreeKinds DEF Of
<1>3. \A x : x \in U <=> IsRaised(s, x)
  <2> TAKE x
  <2>1. ASSUME x \in U PROVE IsRaised(s, x)
    <3>1. PICK t \in Lexicals : x \in R[t]
      BY <2>1
    <3>2. PICK c \in Of(s, t) : UnaRule(t) \in DOMAIN M1Model.una /\ x = Raise(t, c)
      BY <3>1
    <3> QED  BY <1>1, <3>2 DEF IsRaised
  <2>2. ASSUME IsRaised(s, x) PROVE x \in U
    <3>1. PICK t \in Lexicals : Terminal(s[1], t) > 0 /\ UnaRule(t) \in DOMAIN M1Model.una /\ x = Raise(t, w(t))
      BY <2>2 DEF IsRaised
    <3>2. w(t) \in Of(s, t)
      BY <1>0, <1>2, <3>1
    <3>3. x \in R[t]
      <4> HIDE DEF w
      <4> QED  BY <3>1, <3>2
    <3> QED  BY <3>3
  <2> QED  BY <2>1, <2>2
<1>4. \A x : ~IsJoined(s, x)
  <2>1. ~(Size(s) > 1)
    OBVIOUS
  <2> QED  BY <2>1, RuleTrees
<1>5. \A x : x \in W <=> IsWord(s, x) /\ x.sym = X
  <2>1. \A t : w(t).sym = Sym(t)
    BY Made
  <2>2. \A t : Sym(t) = X => t = RootTag
    BY SymOfTag
  <2>3. Sym(RootTag) = X
    BY SymOfTag
  <2>4. \A x : IsWord(s, x) <=> \E t \in M1Tags : Terminal(s[1], t) > 0 /\ x = w(t)
    BY DEF IsWord
  <2> HIDE DEF w
  <2> QED  BY <1>0, <2>1, <2>2, <2>3, <2>4
<1>6. Of(s, RootTag) = W \cup U
  <2>1. \A x : IsRaised(s, x) => x.sym = X
    BY Made DEF IsRaised
  <2> HIDE DEF W, U
  <2> QED  BY <1>3, <1>4, <1>5, <2>1, TreeKinds, SymOfTag DEF Of
<1>7. W \cap U = {}
  <2>1. \A x : IsWord(s, x) => x.unary = FALSE
    BY Made DEF IsWord
  <2>2. \A x : IsRaised(s, x) => x.unary = TRUE
    BY Made DEF IsRaised
  <2> HIDE DEF W, U
  <2> QED  BY <1>3, <1>5, <2>1, <2>2
<1>8. W \in SUBSET AllTrees /\ U \in SUBSET AllTrees
  <2>1. Of(s, RootTag) \in SUBSET AllTrees
    BY OfTrees
  <2> QED  BY <1>6, <2>1
<1>9. Score(Of(s, RootTag)) = Score(W) + Score(U)
  <2> HIDE DEF W, U
  <2> QED  BY <1>6, <1>7, <1>8, Scores
<1>10. Score(W) = Base(s, RootTag)
  <2>1. CASE Terminal(s[1], RootTag) > 0
    <3>1. W = {w(RootTag)} /\ w(RootTag) \in AllTrees /\ w(RootTag).score = Terminal(s[1], RootTag)
      BY <1>8, <2>1, Made
    <3> QED  BY <3>1, Scores DEF Base
  <2>2. CASE ~(Terminal(s[1], RootTag) > 0)
    BY <2>2, Scores, TerminalScores DEF Base
  <2> QED  BY <2>1, <2>2
<1>11. Score(U) = UnarySum(s)
  <2> DEFINE f == [t \in Lexicals |-> Unary(t) * inside[<<s, t>>]]
             g == [t \in Lexicals |-> Total(ScoreMap, R[t])]
  <2>1. UnarySum(s) = Total(f, Lexicals)
    BY TotalOfSum DEF UnarySum, SumOver
  <2>2. ASSUME NEW t \in Lexicals PROVE Score(R[t]) = Unary(t) * inside[<<s, t>>] /\ Score(R[t]) \in Nat
    <3> DEFINE A == IF UnaRule(t) \in DOMAIN M1Model.una THEN Of(s, t) ELSE {}
    <3>1. A \in SUBSET AllTrees
      BY OfTrees
    <3>2. \A x \in A : Raise(t, x) \in AllTrees
      <4>1. \A x \in A : Raise(t, x) \in R[t]
        OBVIOUS
      <4> QED  BY <1>8, <4>1
    <3>3. R[t] = {Raise(t, x) : x \in A}
      OBVIOUS
    <3> HIDE DEF A, R
    <3>4. Score(R[t]) = Unary(t) * Score(A)
      BY <3>1, <3>2, <3>3, RaisedScore
    <3>5. Unary(t) \in Nat /\ Score(A) \in Nat
      BY <3>1, RuleScores, Scores
    <3>6. inside[<<s, t>>] = Score(Of(s, t)) /\ Score(Of(s, t)) \in Nat
      BY LexicalTotal, OfTrees, Scores
    <3>7. CASE UnaRule(t) \in DOMAIN M1Model.una
      <4>1. A = Of(s, t)
        BY <3>7 DEF A
      <4> QED  BY <3>4, <3>5, <3>6, <4>1, Products
    <3>8. CASE UnaRule(t) \notin DOMAIN M1Model.una
      <4>1. Unary(t) = 0
        BY <3>8, G1Rules
      <4>2. \A i \in Nat : 0 * i = 0
        OBVIOUS
      <4> QED  BY <3>4, <3>5, <3>6, <4>1, <4>2
    <3> QED  BY <3>7, <3>8
  <2>3. Total(ScoreMap, U) = Total(g, Lexicals)
    <3>1. \A t \in Lexicals : R[t] \in SUBSET AllTrees
      BY <1>8
    <3>2. \A t, u \in Lexicals : t # u => R[t] \cap R[u] = {}
      <4>1. \A t \in Lexicals : \A x \in R[t] : Kids(x) = {w(t)}
        <5> TAKE t \in Lexicals
        <5> TAKE x \in R[t]
        <5>1. PICK c \in Of(s, t) : x = Raise(t, c)
          OBVIOUS
        <5>2. Kids(x) = {c} /\ c = w(t)
          BY <1>1, <5>1, Made
        <5> QED  BY <5>2
      <4>2. \A t, u \in Lexicals : w(t) = w(u) => t = u
        BY Made, SymOfTag
      <4> HIDE DEF R, w
      <4> QED  BY <4>1, <4>2
    <3>3. IsFiniteSet(AllTrees) /\ IsFiniteSet(Lexicals) /\ \A x \in AllTrees : ScoreMap[x] \in Nat
      BY FiniteTrees, LexicalTagIds, Scores
    <3> HIDE DEF R
    <3> QED  BY ONLY <3>1, <3>2, <3>3, TotalDisjoint
  <2>4. Total(g, Lexicals) = Total(f, Lexicals)
    <3>1. \A t \in Lexicals : g[t] \in Nat /\ g[t] = f[t]
      <4> HIDE DEF R
      <4> QED  BY <2>2 DEF Score
    <3>2. IsFiniteSet(Lexicals)
      BY LexicalTagIds
    <3> HIDE DEF f, g
    <3> QED  BY ONLY <3>1, <3>2, TotalSame
  <2> QED  BY <2>1, <2>3, <2>4 DEF Score
<1> QED  BY <1>9, <1>10, <1>11

(* ROOT over several words: what the binary rules make, as no tag of words *)
(* is there for the unary ones.                                            *)
LEMMA RootPhraseTotal ==
  ASSUME TypeOK, NEW s \in Spans, Size(s) > 1, \A t \in Lexicals : inside[<<s, t>>] = Base(s, t),
         \A m \in Mids(s), t \in M1Tags :
           /\ inside[<<<<s[1], m>>, t>>] = Score(Of(<<s[1], m>>, t))
           /\ inside[<<<<m, s[2]>>, t>>] = Score(Of(<<m, s[2]>>, t))
  PROVE  Score(Of(s, RootTag)) = BinarySum(s) + UnarySum(s)
<1> DEFINE D == Pairs \X Mids(s)
           L(u) == Of(<<s[1], u[2]>>, u[1][1])
           R(u) == Of(<<u[2], s[2]>>, u[1][2])
           Q(u) == {Join(u[1][1], u[1][2], x, y) : x \in L(u), y \in R(u)}
           F == [u \in D |-> IF BinRule(u[1][1], u[1][2]) \in DOMAIN M1Model.bin THEN Q(u) ELSE {}]
           f == [u \in D |-> Binary(u[1][1], u[1][2]) * inside[<<<<s[1], u[2]>>, u[1][1]>>]
                                              * inside[<<<<u[2], s[2]>>, u[1][2]>>]]
           g == [u \in D |-> Total(ScoreMap, F[u])]
           z == [t \in Lexicals |-> Unary(t) * inside[<<s, t>>]]
           U == UNION {F[u] : u \in D}
<1>1. IsFiniteSet(D)
  <2>1. IsFiniteSet(Pairs)
    BY LexicalTagIds, FS_Product DEF Pairs
  <2>2. IsFiniteSet(Mids(s))
    BY Shapes, FS_Interval DEF Mids, Spans
  <2> QED  BY <2>1, <2>2, FS_Product
<1>2. \A u \in D : u[1] \in Pairs /\ u[1][1] \in M1Tags /\ u[1][2] \in M1Tags /\ u[2] \in Mids(s)
  <2>1. \A u \in D : u[1] \in Pairs /\ u[2] \in Mids(s)
    OBVIOUS
  <2>2. \A p \in Pairs : p[1] \in M1Tags /\ p[2] \in M1Tags
    BY DEF Pairs
  <2> QED  BY <2>1, <2>2
<1>3. ASSUME NEW x PROVE x \in U <=> IsJoined(s, x)
  <2>1. ASSUME x \in U PROVE IsJoined(s, x)
    <3>1. PICK u \in D : x \in F[u]
      <4> HIDE DEF F, D
      <4> QED  BY <2>1
    <3>2. x \in Q(u) /\ BinRule(u[1][1], u[1][2]) \in DOMAIN M1Model.bin
      <4> HIDE DEF Q
      <4> QED  BY <3>1
    <3>3. PICK l \in L(u), r \in R(u) : x = Join(u[1][1], u[1][2], l, r)
      BY <3>2
    <3> QED  BY <1>2, <3>2, <3>3 DEF IsJoined
  <2>2. ASSUME IsJoined(s, x) PROVE x \in U
    <3>1. PICK m \in Mids(s), p \in Pairs :
            \E l \in Of(<<s[1], m>>, p[1]), r \in Of(<<m, s[2]>>, p[2]) :
              BinRule(p[1], p[2]) \in DOMAIN M1Model.bin /\ x = Join(p[1], p[2], l, r)
      BY <2>2 DEF IsJoined
    <3>2. PICK l \in Of(<<s[1], m>>, p[1]), r \in Of(<<m, s[2]>>, p[2]) :
              BinRule(p[1], p[2]) \in DOMAIN M1Model.bin /\ x = Join(p[1], p[2], l, r)
      BY <3>1
    <3> DEFINE u == <<p, m>>
    <3>3. u \in D /\ u[1] = p /\ u[2] = m
      OBVIOUS
    <3> HIDE DEF u
    <3>4. x \in Q(u) /\ BinRule(u[1][1], u[1][2]) \in DOMAIN M1Model.bin
      BY <3>2, <3>3
    <3>5. x \in F[u]
      <4> HIDE DEF Q, D
      <4> QED  BY <3>3, <3>4
    <3> HIDE DEF F, D
    <3> QED  BY <3>3, <3>5
  <2> HIDE DEF U
  <2> QED  BY <2>1, <2>2
<1>4. Of(s, RootTag) = U
  <2>1. \A x : ~IsWord(s, x) /\ ~IsRaised(s, x)
    BY DEF IsWord, IsRaised
  <2> HIDE DEF U
  <2>2. \A x : x \in M1Trees[s] <=> x \in U
    BY <1>3, <2>1, TreeKinds
  <2>3. \A x : x \in U => x.sym = Sym(RootTag)
    BY <1>3, RuleTrees, SymOfTag
  <2>4. \A x : x \in Of(s, RootTag) <=> x \in U
    BY <2>2, <2>3 DEF Of
  <2> QED  BY <2>4
<1>5. U \in SUBSET AllTrees
  <2> HIDE DEF U
  <2> QED  BY <1>4, OfTrees
<1>6. ASSUME NEW u \in D PROVE Score(F[u]) = f[u] /\ Score(F[u]) \in Nat /\ F[u] \in SUBSET AllTrees
  <2>1. F[u] \in SUBSET AllTrees
    <3> HIDE DEF F, D
    <3> QED  BY <1>5
  <2>2. Score(F[u]) \in Nat
    BY <2>1, Scores
  <2> DEFINE l == u[1][1]
             r == u[1][2]
             A == L(u)
             B == R(u)
  <2>3. l \in M1Tags /\ r \in M1Tags /\ u[2] \in Mids(s)
    BY <1>2
  <2>4. A \in SUBSET AllTrees /\ B \in SUBSET AllTrees
    BY <2>3, SpanParts, OfTrees
  <2>5. inside[<<<<s[1], u[2]>>, l>>] = Score(A) /\ inside[<<<<u[2], s[2]>>, r>>] = Score(B)
    BY <2>3
  <2>6. f[u] = Binary(l, r) * Score(A) * Score(B)
    BY <2>5
  <2>7. CASE BinRule(l, r) \in DOMAIN M1Model.bin
    <3>1. F[u] = {Join(l, r, x, y) : x \in A, y \in B}
      BY <2>7
    <3> HIDE DEF F, f, A, B, l, r
    <3>2. \A x \in A, y \in B : Join(l, r, x, y) \in AllTrees
      BY <2>1, <3>1
    <3>3. Score(F[u]) = Binary(l, r) * Score(A) * Score(B)
      BY <2>4, <3>1, <3>2, JoinedScore
    <3> QED  BY <2>1, <2>2, <2>6, <3>3
  <2>8. CASE BinRule(l, r) \notin DOMAIN M1Model.bin
    <3>1. F[u] = {} /\ Binary(l, r) = 0
      BY <2>8, G1Rules
    <3>2. Score(A) \in Nat /\ Score(B) \in Nat /\ Score({}) = 0
      BY <2>4, Scores
    <3>3. \A i, j \in Nat : 0 * i * j = 0
      OBVIOUS
    <3> HIDE DEF F, f, A, B, l, r
    <3> QED  BY <2>1, <2>2, <2>6, <3>1, <3>2, <3>3
  <2> QED  BY <2>7, <2>8
<1>7. \A u, v \in D : u # v => F[u] \cap F[v] = {}
  <2>1. ASSUME NEW u \in D, NEW x \in F[u]
        PROVE  \E l, r : x.kids = <<l, r>> /\ l.span[2] = u[2] /\ l.sym = Sym(u[1][1]) /\ r.sym = Sym(u[1][2])
    <3>1. x \in Q(u)
      BY <2>1
    <3>2. PICK l \in L(u), r \in R(u) : x = Join(u[1][1], u[1][2], l, r)
      BY <3>1
    <3>3. l \in M1Trees[<<s[1], u[2]>>] /\ l.sym = Sym(u[1][1]) /\ r.sym = Sym(u[1][2])
      BY DEF Of
    <3>4. l.span = <<s[1], u[2]>>
      BY <1>2, <3>3, SpanParts, TreeFacts
    <3>5. x.kids = <<l, r>>
      BY <3>2, Made
    <3> QED  BY <3>3, <3>4, <3>5
  <2> HIDE DEF F
  <2> SUFFICES ASSUME NEW u \in D, NEW v \in D, NEW x \in F[u], x \in F[v] PROVE u = v
    OBVIOUS
  <2>2. PICK l, r : x.kids = <<l, r>> /\ l.span[2] = u[2] /\ l.sym = Sym(u[1][1]) /\ r.sym = Sym(u[1][2])
    BY <2>1
  <2>3. PICK k, q : x.kids = <<k, q>> /\ k.span[2] = v[2] /\ k.sym = Sym(v[1][1]) /\ q.sym = Sym(v[1][2])
    BY <2>1
  <2>4. l = k /\ r = q
    BY <2>2, <2>3
  <2>5. u[2] = v[2] /\ u[1][1] = v[1][1] /\ u[1][2] = v[1][2]
    BY <2>2, <2>3, <2>4, SymOfTag
  <2>6. \A d \in D : d = <<<<d[1][1], d[1][2]>>, d[2]>>
    BY DEF Pairs
  <2> HIDE DEF D
  <2> QED  BY <2>5, <2>6
<1>8. Total(ScoreMap, U) = Total(g, D)
  <2>1. IsFiniteSet(AllTrees) /\ \A x \in AllTrees : ScoreMap[x] \in Nat
    BY FiniteTrees, Scores
  <2>2. \A u \in D : F[u] \in SUBSET AllTrees
    <3> HIDE DEF F, D, f
    <3> QED  BY <1>6
  <2> HIDE DEF F, D
  <2> QED  BY ONLY <1>1, <1>7, <2>1, <2>2, TotalDisjoint
<1>9. Total(g, D) = Total(f, D)
  <2>1. \A u \in D : g[u] = Score(F[u])
    BY DEF Score
  <2>2. \A u \in D : g[u] \in Nat /\ g[u] = f[u]
    <3> HIDE DEF g, f, F, D
    <3> QED  BY <1>6, <2>1
  <2> HIDE DEF f, g, D
  <2> QED  BY ONLY <1>1, <2>2, TotalSame
<1>10. BinarySum(s) = Total(f, D)
  BY TotalOfSum DEF BinarySum, SumOver
<1>11. UnarySum(s) = 0
  <2>1. UnarySum(s) = Total(z, Lexicals)
    BY TotalOfSum DEF UnarySum, SumOver
  <2>2. \A t \in Lexicals : z[t] = 0 /\ z[t] \in Nat
    <3> TAKE t \in Lexicals
    <3>1. inside[<<s, t>>] = 0 /\ Unary(t) \in Nat
      BY RuleScores DEF Base
    <3>2. \A i \in Nat : i * 0 = 0
      OBVIOUS
    <3> QED  BY <3>1, <3>2
  <2>3. IsFiniteSet(Lexicals)
    BY LexicalTagIds
  <2>4. Total(z, Lexicals) = Total(z, {})
    <3>1. {} \in SUBSET Lexicals /\ \A t \in Lexicals \ {} : z[t] = 0
      BY <2>2
    <3>2. \A t \in Lexicals : z[t] \in Nat
      BY <2>2
    <3> HIDE DEF z
    <3> QED  BY ONLY <2>3, <3>1, <3>2, TotalOfZeros
  <2> QED  BY <2>1, <2>4, TotalOfNone
<1>12. Score(Of(s, RootTag)) = BinarySum(s) /\ BinarySum(s) \in Nat
  <2> HIDE DEF f, g, U, D
  <2> QED  BY <1>4, <1>5, <1>8, <1>9, <1>10, Scores DEF Score
<1> QED  BY <1>11, <1>12

(* So the inside pass sums the scores of all trees.                        *)
LEMMA InsideIsTotal ==
  ASSUME TypeOK, InsideSummed, pc \in {"outside", "prune", "done"}
  PROVE  InsideTotals
<1>1. \A s \in Spans : InsideDone(pc, span, s)
  BY DEF InsideDone
<1>2. /\ \A s \in Spans : \A t \in Lexicals : inside[<<s, t>>] = Base(s, t)
      /\ \A s \in Spans : inside[<<s, RootTag>>] =
           (IF Size(s) > 1 THEN BinarySum(s) ELSE Base(s, RootTag)) + UnarySum(s)
  BY <1>1 DEF InsideSummed
<1> DEFINE S == {k \in Nat : \A s \in Spans : Size(s) <= k => \A t \in M1Tags : inside[<<s, t>>] = Score(Of(s, t))}
<1>3. 0 \in S
  BY Sizes
<1>4. ASSUME NEW k \in Nat, k \in S PROVE k + 1 \in S
  <2> SUFFICES ASSUME NEW s \in Spans, Size(s) <= k + 1, NEW t \in M1Tags PROVE inside[<<s, t>>] = Score(Of(s, t))
    OBVIOUS
  <2>1. CASE t \in Lexicals
    BY <1>2, <2>1, LexicalTotal
  <2>2. CASE t = RootTag /\ Size(s) > 1
    <3>1. ASSUME NEW m \in Mids(s), NEW u \in M1Tags
          PROVE  /\ inside[<<<<s[1], m>>, u>>] = Score(Of(<<s[1], m>>, u))
                 /\ inside[<<<<m, s[2]>>, u>>] = Score(Of(<<m, s[2]>>, u))
      <4>1. /\ <<s[1], m>> \in Spans /\ <<m, s[2]>> \in Spans
            /\ Size(<<s[1], m>>) <= k /\ Size(<<m, s[2]>>) <= k
        BY SpanParts, Sizes
      <4> QED  BY <1>4, <4>1
    <3> QED  BY <1>2, <2>2, <3>1, RootPhraseTotal
  <2>3. CASE t = RootTag /\ ~(Size(s) > 1)
    <3>1. Size(s) = 1
      BY <2>3, Sizes
    <3> QED  BY <1>2, <2>3, <3>1, RootWordTotal
  <2> QED  BY <2>1, <2>2, <2>3 DEF M1Tags
<1>5. NumWords \in S
  <2> HIDE DEF S
  <2> QED  BY <1>3, <1>4, SetInduction, Shapes
<1> QED  BY <1>5, Sizes DEF InsideTotals

-----------------------------------------------------------------------------
(* The parses with one of the given trees in them, and the trees over a    *)
(* span with one of them as a child.                                       *)
Thru(A) == {t \in Complete(M1Trees) : A \cap Sub(t) # {}}
Parents(A, w) == {p \in M1Trees[w] : Kids(p) \cap A # {}}

(* A tree over w that a rule makes of a tree a of tag x over v.            *)
UnaryAbove(w, v, x, a, p) ==
  v = w /\ x \in Lexicals /\ UnaRule(x) \in DOMAIN M1Model.una /\ p = Raise(x, a)

LeftAbove(w, v, x, a, p) ==
  /\ v[1] = w[1] /\ v[2] \in Mids(w)
  /\ \E r \in M1Tags : \E y \in Of(<<v[2], w[2]>>, r) :
       BinRule(x, r) \in DOMAIN M1Model.bin /\ p = Join(x, r, a, y)

RightAbove(w, v, x, a, p) ==
  /\ v[2] = w[2] /\ v[1] \in Mids(w)
  /\ \E l \in M1Tags : \E y \in Of(<<w[1], v[1]>>, l) :
       BinRule(l, x) \in DOMAIN M1Model.bin /\ p = Join(l, x, y, a)

(* The parents of a tree.                                                  *)
LEMMA ParentKinds ==
  ASSUME TypeOK, NEW w \in Spans, NEW v \in Spans, NEW x \in M1Tags, NEW a \in Of(v, x)
  PROVE  \A p : p \in M1Trees[w] /\ a \in Kids(p)
             <=> UnaryAbove(w, v, x, a, p) \/ LeftAbove(w, v, x, a, p) \/ RightAbove(w, v, x, a, p)
<1>0. a \in M1Trees[v] /\ a.sym = Sym(x) /\ a.span = v /\ v = <<v[1], v[2]>> /\ w = <<w[1], w[2]>>
  BY TreeFacts, SpanOrder DEF Of
<1>1. ASSUME NEW p \in M1Trees[w], a \in Kids(p)
      PROVE  UnaryAbove(w, v, x, a, p) \/ LeftAbove(w, v, x, a, p) \/ RightAbove(w, v, x, a, p)
  <2>1. CASE IsWord(w, p)
    BY <1>1, <2>1, Made DEF IsWord
  <2>2. CASE IsRaised(w, p)
    <3>1. PICK t \in Lexicals : /\ Terminal(w[1], t) > 0 /\ UnaRule(t) \in DOMAIN M1Model.una
                                /\ p = Raise(t, Word(w[1], t))
      BY <2>2 DEF IsRaised
    <3>2. a = Word(w[1], t)
      BY <1>1, <3>1, Made
    <3>3. t = x
      BY <1>0, <3>2, Made, SymOfTag
    <3>4. IsWord(w, a)
      BY <2>2, <3>1, <3>2 DEF IsRaised, IsWord, M1Tags
    <3>5. v = w
      BY <1>0, <3>4, TreeKinds, TreeFacts
    <3> QED  BY <3>1, <3>2, <3>3, <3>5 DEF UnaryAbove
  <2>3. CASE IsJoined(w, p)
    <3>1. PICK m \in Mids(w), q \in Pairs :
            \E l \in Of(<<w[1], m>>, q[1]), r \in Of(<<m, w[2]>>, q[2]) :
              BinRule(q[1], q[2]) \in DOMAIN M1Model.bin /\ p = Join(q[1], q[2], l, r)
      BY <2>3 DEF IsJoined
    <3>2. PICK l \in Of(<<w[1], m>>, q[1]), r \in Of(<<m, w[2]>>, q[2]) :
              BinRule(q[1], q[2]) \in DOMAIN M1Model.bin /\ p = Join(q[1], q[2], l, r)
      BY <3>1
    <3>3. /\ l \in M1Trees[<<w[1], m>>] /\ l.sym = Sym(q[1])
          /\ r \in M1Trees[<<m, w[2]>>] /\ r.sym = Sym(q[2])
          /\ q[1] \in M1Tags /\ q[2] \in M1Tags
      BY DEF Of, Pairs
    <3>4. l.span = <<w[1], m>> /\ r.span = <<m, w[2]>>
      BY <3>3, SpanParts, TreeFacts
    <3>5. a = l \/ a = r
      BY <1>1, <3>2, Made
    <3>6. CASE a = l
      <4>1. v[1] = w[1] /\ v[2] = m /\ x = q[1]
        BY <1>0, <3>3, <3>4, <3>6, SymOfTag
      <4> QED  BY <3>2, <3>3, <3>6, <4>1 DEF LeftAbove
    <3>7. CASE a = r
      <4>1. v[2] = w[2] /\ v[1] = m /\ x = q[2]
        BY <1>0, <3>3, <3>4, <3>7, SymOfTag
      <4> QED  BY <3>2, <3>3, <3>7, <4>1 DEF RightAbove
    <3> QED  BY <3>5, <3>6, <3>7
  <2> QED  BY <1>1, <2>1, <2>2, <2>3, TreeKinds
<1>2. ASSUME NEW p, UnaryAbove(w, v, x, a, p) PROVE p \in M1Trees[w] /\ a \in Kids(p)
  <2>1. v = w /\ x \in Lexicals /\ UnaRule(x) \in DOMAIN M1Model.una /\ p = Raise(x, a)
    BY <1>2 DEF UnaryAbove
  <2>2. Size(w) = 1 /\ Terminal(w[1], x) > 0 /\ a = Word(w[1], x)
    BY <2>1, LexicalTrees
  <2>3. IsRaised(w, p)
    BY <2>1, <2>2 DEF IsRaised
  <2> QED  BY <2>1, <2>3, TreeKinds, Made
<1>3. ASSUME NEW p, LeftAbove(w, v, x, a, p) PROVE p \in M1Trees[w] /\ a \in Kids(p)
  <2>1. PICK r \in M1Tags : \E y \in Of(<<v[2], w[2]>>, r) :
          BinRule(x, r) \in DOMAIN M1Model.bin /\ p = Join(x, r, a, y)
    BY <1>3 DEF LeftAbove
  <2>2. PICK y \in Of(<<v[2], w[2]>>, r) : BinRule(x, r) \in DOMAIN M1Model.bin /\ p = Join(x, r, a, y)
    BY <2>1
  <2>3. v[1] = w[1] /\ v[2] \in Mids(w) /\ a \in Of(<<w[1], v[2]>>, x)
    BY <1>0, <1>3 DEF LeftAbove
  <2> DEFINE q == <<x, r>>
  <2>4. q \in Pairs /\ q[1] = x /\ q[2] = r
    BY DEF Pairs
  <2> HIDE DEF q
  <2>5. IsJoined(w, p)
    BY <2>2, <2>3, <2>4 DEF IsJoined
  <2> QED  BY <2>2, <2>5, TreeKinds, Made
<1>4. ASSUME NEW p, RightAbove(w, v, x, a, p) PROVE p \in M1Trees[w] /\ a \in Kids(p)
  <2>1. PICK l \in M1Tags : \E y \in Of(<<w[1], v[1]>>, l) :
          BinRule(l, x) \in DOMAIN M1Model.bin /\ p = Join(l, x, y, a)
    BY <1>4 DEF RightAbove
  <2>2. PICK y \in Of(<<w[1], v[1]>>, l) : BinRule(l, x) \in DOMAIN M1Model.bin /\ p = Join(l, x, y, a)
    BY <2>1
  <2>3. v[2] = w[2] /\ v[1] \in Mids(w) /\ a \in Of(<<v[1], w[2]>>, x)
    BY <1>0, <1>4 DEF RightAbove
  <2> DEFINE q == <<l, x>>
  <2>4. q \in Pairs /\ q[1] = l /\ q[2] = x
    BY DEF Pairs
  <2> HIDE DEF q
  <2>5. IsJoined(w, p)
    BY <2>2, <2>3, <2>4 DEF IsJoined
  <2> QED  BY <2>2, <2>5, TreeKinds, Made
<1> QED  BY <1>1, <1>2, <1>3, <1>4

(* A parse passes through a tree by exactly one of its parents.            *)
LEMMA ThruParents ==
  ASSUME TypeOK, NEW v \in Spans, NEW x \in M1Tags, NEW A \in SUBSET Of(v, x), ~(v = Whole /\ x = RootTag)
  PROVE  /\ Thru(A) = UNION {Thru(Parents(A, w)) : w \in Spans}
         /\ \A w, u \in Spans : w # u => Thru(Parents(A, w)) \cap Thru(Parents(A, u)) = {}
<1>0. \A t : t \in Complete(M1Trees) => t \in AllTrees /\ t.span = Whole /\ t.sym = X /\ Proper(t)
  <2>1. Whole \in Spans
    BY Shapes
  <2>2. \A t : t \in Complete(M1Trees) => t \in AllTrees /\ t.span = Whole /\ t.sym = X
    BY <2>1, TreeFacts DEF Complete, AllTrees
  <2> QED  BY <2>2, TreesProper
<1>1. \A a \in A : a \in AllTrees /\ a.span = v /\ a.sym = Sym(x)
  BY TreeFacts DEF Of, AllTrees
<1>2. ASSUME NEW t \in Thru(A) PROVE \E w \in Spans : t \in Thru(Parents(A, w))
  <2>1. t \in Complete(M1Trees) /\ t \in AllTrees /\ t.span = Whole /\ t.sym = X /\ HaveParents(t)
    BY <1>0 DEF Thru, Proper
  <2>2. PICK a \in A : a \in Sub(t)
    BY DEF Thru
  <2>3. a # t
    BY <1>1, <2>1, SymOfTag
  <2>4. PICK p \in Sub(t) : a \in Kids(p)
    BY <2>1, <2>2, <2>3 DEF HaveParents
  <2>5. p.span \in Spans /\ p \in M1Trees[p.span]
    BY <2>1, <2>4, SubLaws, TreeSpan
  <2>6. p \in Parents(A, p.span)
    BY <2>4, <2>5 DEF Parents
  <2>7. t \in Thru(Parents(A, p.span))
    BY <2>1, <2>4, <2>6 DEF Thru
  <2> QED  BY <2>5, <2>7
<1>3. ASSUME NEW w \in Spans, NEW t \in Thru(Parents(A, w))
      PROVE  /\ t \in Complete(M1Trees) /\ t \in AllTrees
             /\ \E p \in Sub(t) : \E a \in A : p.span = w /\ a \in Kids(p) /\ a \in Sub(t)
  <2>1. t \in Complete(M1Trees) /\ t \in AllTrees
    BY <1>0 DEF Thru
  <2>2. PICK p \in Parents(A, w) : p \in Sub(t)
    BY DEF Thru
  <2>3. p \in M1Trees[w]
    BY DEF Parents
  <2>4. p.span = w
    BY <2>3, TreeFacts
  <2>5. PICK a \in A : a \in Kids(p)
    BY DEF Parents
  <2>6. a \in Sub(t)
    BY <2>1, <2>2, <2>5, SubLaws DEF Closed
  <2> QED  BY <2>1, <2>2, <2>4, <2>5, <2>6
<1>4. \A w \in Spans : Thru(Parents(A, w)) \subseteq Thru(A)
  BY <1>3 DEF Thru
<1>5. Thru(A) = UNION {Thru(Parents(A, w)) : w \in Spans}
  BY <1>2, <1>4
<1>6. ASSUME NEW w \in Spans, NEW u \in Spans, NEW t \in Thru(Parents(A, w)), t \in Thru(Parents(A, u)) PROVE w = u
  <2>1. t \in AllTrees /\ OnePerCell(t) /\ OneParent(t)
    BY <1>0, <1>3 DEF Proper
  <2>2. PICK p \in Sub(t) : \E a \in A : p.span = w /\ a \in Kids(p) /\ a \in Sub(t)
    BY <1>3
  <2>3. PICK a \in A : p.span = w /\ a \in Kids(p) /\ a \in Sub(t)
    BY <2>2
  <2>4. PICK q \in Sub(t) : \E b \in A : q.span = u /\ b \in Kids(q) /\ b \in Sub(t)
    BY <1>3, <1>6
  <2>5. PICK b \in A : q.span = u /\ b \in Kids(q) /\ b \in Sub(t)
    BY <2>4
  <2>6. a = b
    BY <1>1, <2>1, <2>3, <2>5 DEF OnePerCell
  <2> QED  BY <2>1, <2>3, <2>5, <2>6 DEF OneParent
<1> QED  BY <1>5, <1>6

-----------------------------------------------------------------------------
(* Two sums whose terms have one factor each that the other's have not.    *)
WithFactors(S, b, i, k, o, f, g) ==
  /\ IsFiniteSet(S) /\ k \in Nat /\ o \in Nat
  /\ \A x \in S : b[x] \in Nat /\ i[x] \in Nat /\ f[x] = b[x] * k * i[x] /\ g[x] = b[x] * o * i[x]

(* Each sum times what it has not is the same.                             *)
LEMMA TotalFactors ==
  ASSUME NEW S, NEW b, NEW i, NEW k, NEW o, NEW f, NEW g, WithFactors(S, b, i, k, o, f, g)
  PROVE  o * Total(f, S) = Total(g, S) * k
<1> USE DEF WithFactors
<1> DEFINE h == [x \in S |-> b[x] * i[x]]
           hk == [x \in S |-> k * h[x]]
           ho == [x \in S |-> o * h[x]]
<1>0. \A m, n, p \in Nat : m * n * p = n * (m * p) /\ n * (m * p) \in Nat /\ m * p \in Nat
  OBVIOUS
<1>1. \A x \in S : h[x] \in Nat /\ f[x] \in Nat /\ g[x] \in Nat /\ f[x] = hk[x] /\ g[x] = ho[x]
  <2> TAKE x \in S
  <2>1. h[x] = b[x] * i[x] /\ hk[x] = k * h[x] /\ ho[x] = o * h[x]
    OBVIOUS
  <2>2. f[x] = b[x] * k * i[x] /\ g[x] = b[x] * o * i[x] /\ b[x] \in Nat /\ i[x] \in Nat
    OBVIOUS
  <2> HIDE DEF h, hk, ho
  <2> QED  BY <1>0, <2>1, <2>2
<1>2. Total(f, S) = Total(hk, S) /\ Total(g, S) = Total(ho, S)
  <2> HIDE DEF h, hk, ho
  <2> QED  BY <1>1, TotalSame
<1>3. Total(hk, S) = k * Total(h, S) /\ Total(ho, S) = o * Total(h, S)
  <2>1. \A x \in S : h[x] \in Nat
    BY <1>1
  <2> HIDE DEF h
  <2> QED  BY <2>1, TotalScale
<1>4. Total(h, S) \in Nat
  <2>1. \A x \in S : h[x] \in Nat
    BY <1>1
  <2> HIDE DEF h
  <2> QED  BY <2>1, TotalSplit
<1>5. \A n \in Nat : o * (k * n) = (o * n) * k
  OBVIOUS
<1> HIDE DEF h, hk, ho
<1> QED  BY <1>2, <1>3, <1>4, <1>5

(* What the parents of trees in one place have in score, times what is     *)
(* outside of them, is what they pass on times the score of the trees.     *)
Passed(w, v, x, A) ==
  outside[<<w, RootTag>>] * Score(Parents(A, w)) = Share(w, <<v, x>>) * Score(A)

(* The one part of a share that is not zero.                               *)
LEMMA OneShare ==
  ASSUME TypeOK, NEW w \in Spans, NEW v \in Spans, NEW x \in M1Tags
  PROVE  LET c == <<v, x>>
         IN  /\ ~(v = w /\ x \in Lexicals) => UnaryPart(w, c) = 0
             /\ ~(v[1] = w[1] /\ v[2] \in Mids(w)) => LeftPart(w, c) = 0
             /\ ~(v[2] = w[2] /\ v[1] \in Mids(w)) => RightPart(w, c) = 0
             /\ v[1] = w[1] /\ v[2] \in Mids(w) => v # w /\ v[2] # w[2]
             /\ v[2] = w[2] /\ v[1] \in Mids(w) => v # w /\ v[1] # w[1]
             /\ UnaryPart(w, c) \in Nat /\ LeftPart(w, c) \in Nat /\ RightPart(w, c) \in Nat
<1> DEFINE c == <<v, x>>
<1>1. c[1] = v /\ c[2] = x /\ c \in Cells
  BY LexicalTagIds DEF Cells
<1> HIDE DEF c
<1>2. ~(v = w /\ x \in Lexicals) => UnaryPart(w, c) = 0
  BY <1>1 DEF UnaryPart
<1>3. ~(v[1] = w[1] /\ v[2] \in Mids(w)) => LeftPart(w, c) = 0
  BY <1>1 DEF LeftPart
<1>4. ~(v[2] = w[2] /\ v[1] \in Mids(w)) => RightPart(w, c) = 0
  BY <1>1 DEF RightPart
<1>5. w[1] \in Int /\ w[2] \in Int
  BY SpanOrder
<1>6. w[1] \notin Mids(w) /\ w[2] \notin Mids(w)
  BY <1>5 DEF Mids
<1>7. UnaryPart(w, c) \in Nat /\ LeftPart(w, c) \in Nat /\ RightPart(w, c) \in Nat
  BY <1>1, PartsNat
<1> QED  BY <1>2, <1>3, <1>4, <1>6, <1>7 DEF c

(* By a unary rule.                                                        *)
LEMMA PassedUp ==
  ASSUME TypeOK, NEW v \in Spans, NEW x \in M1Tags, NEW A \in SUBSET Of(v, x)
  PROVE  Passed(v, v, x, A)
<1> DEFINE o == outside[<<v, RootTag>>]
           c == <<v, x>>
           B == Parents(A, v)
<1>1. A \in SUBSET AllTrees /\ B \in SUBSET AllTrees /\ Score(A) \in Nat /\ Score(B) \in Nat /\ Score({}) = 0
  <2>1. A \in SUBSET AllTrees
    BY OfTrees
  <2>2. B \in SUBSET AllTrees
    BY DEF Parents, AllTrees
  <2> HIDE DEF B
  <2> QED  BY <2>1, <2>2, Scores
<1>2. o \in Nat
  BY Shapes DEF TypeOK, Cells
<1>3. LeftPart(v, c) = 0 /\ RightPart(v, c) = 0 /\ UnaryPart(v, c) \in Nat
  BY OneShare
<1>4. Share(v, c) = UnaryPart(v, c)
  BY <1>3 DEF Share
<1>5. \A a \in A : \A p : p \in M1Trees[v] /\ a \in Kids(p) <=> UnaryAbove(v, v, x, a, p)
  <2>1. v[1] \notin Mids(v) /\ v[2] \notin Mids(v)
    BY SpanOrder DEF Mids
  <2>2. \A a, p : ~LeftAbove(v, v, x, a, p) /\ ~RightAbove(v, v, x, a, p)
    BY <2>1 DEF LeftAbove, RightAbove
  <2> QED  BY <2>2, ParentKinds
<1>6. \A p : p \in B <=> \E a \in A : UnaryAbove(v, v, x, a, p)
  BY <1>5 DEF Parents
<1>7. CASE x \in Lexicals /\ UnaRule(x) \in DOMAIN M1Model.una
  <2>1. B = {Raise(x, a) : a \in A}
    BY <1>6, <1>7 DEF UnaryAbove
  <2>2. Score(B) = Unary(x) * Score(A)
    <3>1. \A a \in A : Raise(x, a) \in AllTrees
      BY <1>1, <2>1
    <3> HIDE DEF B
    <3> QED  BY <1>1, <2>1, <3>1, RaisedScore
  <2>3. UnaryPart(v, c) = Unary(x) * o
    BY <1>7 DEF UnaryPart
  <2>4. Unary(x) \in Nat
    BY RuleScores
  <2>5. \A i, j, k \in Nat : i * (j * k) = (j * i) * k
    OBVIOUS
  <2> HIDE DEF o, c, B
  <2>6. o * Score(B) = Share(v, c) * Score(A)
    BY <1>1, <1>2, <1>4, <2>2, <2>3, <2>4, <2>5
  <2> QED  BY <2>6 DEF Passed, o, c, B
<1>8. CASE ~(x \in Lexicals /\ UnaRule(x) \in DOMAIN M1Model.una)
  <2>1. B = {}
    BY <1>6, <1>8 DEF UnaryAbove
  <2>2. UnaryPart(v, c) = 0
    <3>1. x \in Lexicals => Unary(x) = 0
      BY <1>8, G1Rules
    <3>2. x \in Lexicals => UnaryPart(v, c) = Unary(x) * o
      BY DEF UnaryPart
    <3>3. x \notin Lexicals => UnaryPart(v, c) = 0
      BY DEF UnaryPart
    <3>4. 0 * o = 0
      BY <1>2
    <3> HIDE DEF o, c
    <3> QED  BY <3>1, <3>2, <3>3, <3>4
  <2>3. \A i \in Nat : i * 0 = 0 /\ 0 * i = 0
    OBVIOUS
  <2> HIDE DEF o, c, B
  <2>4. o * Score(B) = Share(v, c) * Score(A)
    BY <1>1, <1>2, <1>4, <2>1, <2>2, <2>3
  <2> QED  BY <2>4 DEF Passed, o, c, B
<1> QED  BY <1>7, <1>8

(* By a binary rule, to the left child.                                    *)
LEMMA PassedLeft ==
  ASSUME TypeOK, InsideTotals, NEW w \in Spans, NEW v \in Spans, NEW x \in M1Tags, NEW A \in SUBSET Of(v, x),
         v[1] = w[1], v[2] \in Mids(w)
  PROVE  Passed(w, v, x, A)
<1> DEFINE o == outside[<<w, RootTag>>]
           c == <<v, x>>
           B == Parents(A, w)
           k == Score(A)
           n == <<v[2], w[2]>>
           b == [r \in M1Tags |-> Binary(x, r)]
           i == [r \in M1Tags |-> inside[<<n, r>>]]
           g == [r \in M1Tags |-> Binary(x, r) * o * inside[<<n, r>>]]
           F == [r \in M1Tags |-> IF BinRule(x, r) \in DOMAIN M1Model.bin
                                    THEN {Join(x, r, a, y) : a \in A, y \in Of(n, r)} ELSE {}]
           f == [r \in M1Tags |-> Total(ScoreMap, F[r])]
<1>1. A \in SUBSET AllTrees /\ B \in SUBSET AllTrees /\ Score(A) \in Nat /\ Score(B) \in Nat /\ Score({}) = 0
  <2>1. A \in SUBSET AllTrees
    BY OfTrees
  <2>2. B \in SUBSET AllTrees
    BY DEF Parents, AllTrees
  <2> HIDE DEF B
  <2> QED  BY <2>1, <2>2, Scores
<1>2. o \in Nat
  BY Shapes DEF TypeOK, Cells
<1>3. n \in Spans
  BY SpanParts
<1>4. Share(w, c) = LeftPart(w, c)
  <2>1. UnaryPart(w, c) = 0 /\ RightPart(w, c) = 0 /\ LeftPart(w, c) \in Nat
    BY OneShare
  <2> QED  BY <2>1 DEF Share
<1>5. \A p : p \in B <=> \E a \in A : LeftAbove(w, v, x, a, p)
  <2>1. v # w /\ v[2] # w[2]
    BY OneShare
  <2>2. \A a, p : ~UnaryAbove(w, v, x, a, p) /\ ~RightAbove(w, v, x, a, p)
    BY <2>1 DEF UnaryAbove, RightAbove
  <2>3. \A a \in A : \A p : p \in M1Trees[w] /\ a \in Kids(p) <=> LeftAbove(w, v, x, a, p)
    BY <2>2, ParentKinds
  <2>4. \A a, p : LeftAbove(w, v, x, a, p) => a \in Kids(p)
    BY Made DEF LeftAbove
  <2> QED  BY <2>3, <2>4 DEF Parents
<1>6. ASSUME NEW p
      PROVE  p \in B <=> \E r \in M1Tags : p \in F[r]
  <2>1. ASSUME NEW a \in A, LeftAbove(w, v, x, a, p) PROVE \E r \in M1Tags : p \in F[r]
    <3>1. PICK r \in M1Tags : \E y \in Of(n, r) : BinRule(x, r) \in DOMAIN M1Model.bin /\ p = Join(x, r, a, y)
      BY <2>1 DEF LeftAbove
    <3>2. PICK y \in Of(n, r) : BinRule(x, r) \in DOMAIN M1Model.bin /\ p = Join(x, r, a, y)
      BY <3>1
    <3>3. F[r] = {Join(x, r, z, q) : z \in A, q \in Of(n, r)}
      BY <3>2
    <3> HIDE DEF F, n
    <3> QED  BY <3>2, <3>3
  <2>2. ASSUME NEW r \in M1Tags, p \in F[r] PROVE \E a \in A : LeftAbove(w, v, x, a, p)
    <3>1. BinRule(x, r) \in DOMAIN M1Model.bin /\ p \in {Join(x, r, z, q) : z \in A, q \in Of(n, r)}
      <4> HIDE DEF n
      <4> QED  BY <2>2
    <3>2. PICK a \in A, y \in Of(n, r) : p = Join(x, r, a, y)
      <4> HIDE DEF n
      <4> QED  BY <3>1
    <3> QED  BY <3>1, <3>2 DEF LeftAbove
  <2> HIDE DEF B, F
  <2> QED  BY <1>5, <2>1, <2>2
<1>7. B = UNION {F[r] : r \in M1Tags}
  <2> HIDE DEF B, F
  <2> QED  BY <1>6
<1>8. \A r \in M1Tags : F[r] \in SUBSET AllTrees
  <2> HIDE DEF B, F
  <2> QED  BY <1>1, <1>7
<1>9. \A r \in M1Tags : b[r] \in Nat /\ i[r] \in Nat /\ i[r] = Score(Of(n, r)) /\ Of(n, r) \in SUBSET AllTrees
  <2>1. \A r \in M1Tags : inside[<<n, r>>] = Score(Of(n, r)) /\ Of(n, r) \in SUBSET AllTrees
    <3> HIDE DEF n
    <3> QED  BY <1>3, OfTrees DEF InsideTotals
  <2>2. \A r \in M1Tags : Score(Of(n, r)) \in Nat
    <3> HIDE DEF n
    <3> QED  BY <2>1, Scores
  <2> HIDE DEF n
  <2> QED  BY <2>1, <2>2, RuleScores
<1>10. ASSUME NEW r \in M1Tags PROVE f[r] = b[r] * k * i[r] /\ f[r] \in Nat
  <2>1. Score(F[r]) \in Nat
    <3> HIDE DEF F
    <3> QED  BY <1>8, Scores
  <2>2. f[r] = Score(F[r]) /\ b[r] = Binary(x, r)
    BY DEF Score
  <2>3. CASE BinRule(x, r) \in DOMAIN M1Model.bin
    <3>1. F[r] = {Join(x, r, a, y) : a \in A, y \in Of(n, r)}
      <4> HIDE DEF n
      <4> QED  BY <2>3
    <3> HIDE DEF F, n, i, b, f
    <3>2. \A a \in A, y \in Of(n, r) : Join(x, r, a, y) \in AllTrees
      BY <1>8, <3>1
    <3>3. Score(F[r]) = Binary(x, r) * Score(A) * Score(Of(n, r))
      BY <1>1, <1>9, <3>1, <3>2, JoinedScore
    <3> QED  BY <1>9, <2>1, <2>2, <3>3 DEF k
  <2>4. CASE BinRule(x, r) \notin DOMAIN M1Model.bin
    <3>1. F[r] = {} /\ b[r] = 0
      BY <2>4, G1Rules
    <3>2. \A j, m \in Nat : 0 * j * m = 0
      OBVIOUS
    <3>3. k \in Nat /\ i[r] \in Nat
      BY <1>1, <1>9
    <3> HIDE DEF F, n, i, b, f, k
    <3> QED  BY <1>1, <2>1, <2>2, <3>1, <3>2, <3>3
  <2> HIDE DEF F, n, i, b, f, k
  <2> QED  BY <2>3, <2>4
<1>11. Score(B) = Total(f, M1Tags)
  <2>1. IsFiniteSet(AllTrees) /\ IsFiniteSet(M1Tags) /\ \A t \in AllTrees : ScoreMap[t] \in Nat
    BY FiniteTrees, Scores, LexicalTagIds
  <2>2. ASSUME NEW q \in M1Tags, NEW r \in M1Tags, q # r PROVE F[q] \cap F[r] = {}
    <3>1. ASSUME NEW u \in M1Tags, NEW p \in F[u] PROVE \E a, y : p.kids = <<a, y>> /\ y.sym = Sym(u)
      <4>1. p \in {Join(x, u, a, y) : a \in A, y \in Of(n, u)}
        <5> HIDE DEF n
        <5> QED  BY <3>1
      <4>2. PICK a \in A, y \in Of(n, u) : p = Join(x, u, a, y)
        <5> HIDE DEF n
        <5> QED  BY <4>1
      <4> QED  BY <4>2, Made DEF Of
    <3> HIDE DEF F
    <3> SUFFICES ASSUME NEW p \in F[q], p \in F[r] PROVE FALSE
      OBVIOUS
    <3>2. PICK a, y : p.kids = <<a, y>> /\ y.sym = Sym(q)
      BY <3>1
    <3>3. PICK d, z : p.kids = <<d, z>> /\ z.sym = Sym(r)
      BY <3>1
    <3>4. y = z
      BY <3>2, <3>3
    <3> QED  BY <2>2, <3>2, <3>3, <3>4, SymOfTag
  <2>3. Total(ScoreMap, UNION {F[r] : r \in M1Tags}) = Total(f, M1Tags)
    <3> HIDE DEF F
    <3> QED  BY ONLY <1>8, <2>1, <2>2, TotalDisjoint
  <2> HIDE DEF F, f, B
  <2> QED  BY <1>7, <2>3 DEF Score
<1>12. LeftPart(w, c) = Total(g, M1Tags)
  BY TotalOfSum DEF LeftPart, SumOver
<1>13. o * Total(f, M1Tags) = Total(g, M1Tags) * k
  <2>1. k \in Nat /\ IsFiniteSet(M1Tags)
    BY <1>1, LexicalTagIds
  <2>2. \A r \in M1Tags : b[r] \in Nat /\ i[r] \in Nat
    BY <1>9
  <2>3. \A r \in M1Tags : f[r] = b[r] * k * i[r]
    <3> HIDE DEF f, b, i, k
    <3> QED  BY <1>10
  <2>4. \A r \in M1Tags : g[r] = b[r] * o * i[r]
    OBVIOUS
  <2> HIDE DEF f, g, b, i, o, k
  <2>5. WithFactors(M1Tags, b, i, k, o, f, g)
    BY <1>2, <2>1, <2>2, <2>3, <2>4 DEF WithFactors
  <2> QED  BY <2>5, TotalFactors
<1>14. o * Score(B) = Share(w, c) * k
  <2> HIDE DEF f, g, o, c, B, k
  <2> QED  BY <1>4, <1>11, <1>12, <1>13
<1> QED  BY <1>14 DEF Passed

(* By a binary rule, to the right child.                                   *)
LEMMA PassedRight ==
  ASSUME TypeOK, InsideTotals, NEW w \in Spans, NEW v \in Spans, NEW x \in M1Tags, NEW A \in SUBSET Of(v, x),
         v[2] = w[2], v[1] \in Mids(w)
  PROVE  Passed(w, v, x, A)
<1> DEFINE o == outside[<<w, RootTag>>]
           c == <<v, x>>
           B == Parents(A, w)
           k == Score(A)
           n == <<w[1], v[1]>>
           b == [r \in M1Tags |-> Binary(r, x)]
           i == [r \in M1Tags |-> inside[<<n, r>>]]
           g == [r \in M1Tags |-> Binary(r, x) * o * inside[<<n, r>>]]
           F == [r \in M1Tags |-> IF BinRule(r, x) \in DOMAIN M1Model.bin
                                    THEN {Join(r, x, y, a) : y \in Of(n, r), a \in A} ELSE {}]
           f == [r \in M1Tags |-> Total(ScoreMap, F[r])]
<1>1. A \in SUBSET AllTrees /\ B \in SUBSET AllTrees /\ Score(A) \in Nat /\ Score(B) \in Nat /\ Score({}) = 0
  <2>1. A \in SUBSET AllTrees
    BY OfTrees
  <2>2. B \in SUBSET AllTrees
    BY DEF Parents, AllTrees
  <2> HIDE DEF B
  <2> QED  BY <2>1, <2>2, Scores
<1>2. o \in Nat
  BY Shapes DEF TypeOK, Cells
<1>3. n \in Spans
  BY SpanParts
<1>4. Share(w, c) = RightPart(w, c)
  <2>1. UnaryPart(w, c) = 0 /\ LeftPart(w, c) = 0 /\ RightPart(w, c) \in Nat
    BY OneShare
  <2> QED  BY <2>1 DEF Share
<1>5. \A p : p \in B <=> \E a \in A : RightAbove(w, v, x, a, p)
  <2>1. v # w /\ v[1] # w[1]
    BY OneShare
  <2>2. \A a, p : ~UnaryAbove(w, v, x, a, p) /\ ~LeftAbove(w, v, x, a, p)
    BY <2>1 DEF UnaryAbove, LeftAbove
  <2>3. \A a \in A : \A p : p \in M1Trees[w] /\ a \in Kids(p) <=> RightAbove(w, v, x, a, p)
    BY <2>2, ParentKinds
  <2>4. \A a, p : RightAbove(w, v, x, a, p) => a \in Kids(p)
    BY Made DEF RightAbove
  <2> QED  BY <2>3, <2>4 DEF Parents
<1>6. ASSUME NEW p
      PROVE  p \in B <=> \E r \in M1Tags : p \in F[r]
  <2>1. ASSUME NEW a \in A, RightAbove(w, v, x, a, p) PROVE \E r \in M1Tags : p \in F[r]
    <3>1. PICK r \in M1Tags : \E y \in Of(n, r) : BinRule(r, x) \in DOMAIN M1Model.bin /\ p = Join(r, x, y, a)
      BY <2>1 DEF RightAbove
    <3>2. PICK y \in Of(n, r) : BinRule(r, x) \in DOMAIN M1Model.bin /\ p = Join(r, x, y, a)
      BY <3>1
    <3>3. F[r] = {Join(r, x, q, z) : q \in Of(n, r), z \in A}
      BY <3>2
    <3> HIDE DEF F, n
    <3> QED  BY <3>2, <3>3
  <2>2. ASSUME NEW r \in M1Tags, p \in F[r] PROVE \E a \in A : RightAbove(w, v, x, a, p)
    <3>1. BinRule(r, x) \in DOMAIN M1Model.bin /\ p \in {Join(r, x, q, z) : q \in Of(n, r), z \in A}
      <4> HIDE DEF n
      <4> QED  BY <2>2
    <3>2. PICK a \in A, y \in Of(n, r) : p = Join(r, x, y, a)
      <4> HIDE DEF n
      <4> QED  BY <3>1
    <3> QED  BY <3>1, <3>2 DEF RightAbove
  <2> HIDE DEF B, F
  <2> QED  BY <1>5, <2>1, <2>2
<1>7. B = UNION {F[r] : r \in M1Tags}
  <2> HIDE DEF B, F
  <2> QED  BY <1>6
<1>8. \A r \in M1Tags : F[r] \in SUBSET AllTrees
  <2> HIDE DEF B, F
  <2> QED  BY <1>1, <1>7
<1>9. \A r \in M1Tags : b[r] \in Nat /\ i[r] \in Nat /\ i[r] = Score(Of(n, r)) /\ Of(n, r) \in SUBSET AllTrees
  <2>1. \A r \in M1Tags : inside[<<n, r>>] = Score(Of(n, r)) /\ Of(n, r) \in SUBSET AllTrees
    <3> HIDE DEF n
    <3> QED  BY <1>3, OfTrees DEF InsideTotals
  <2>2. \A r \in M1Tags : Score(Of(n, r)) \in Nat
    <3> HIDE DEF n
    <3> QED  BY <2>1, Scores
  <2> HIDE DEF n
  <2> QED  BY <2>1, <2>2, RuleScores
<1>10. ASSUME NEW r \in M1Tags PROVE f[r] = b[r] * k * i[r] /\ f[r] \in Nat
  <2>1. Score(F[r]) \in Nat
    <3> HIDE DEF F
    <3> QED  BY <1>8, Scores
  <2>2. f[r] = Score(F[r]) /\ b[r] = Binary(r, x)
    BY DEF Score
  <2>3. CASE BinRule(r, x) \in DOMAIN M1Model.bin
    <3>1. F[r] = {Join(r, x, y, a) : y \in Of(n, r), a \in A}
      <4> HIDE DEF n
      <4> QED  BY <2>3
    <3> HIDE DEF F, n, i, b, f
    <3>2. \A y \in Of(n, r), a \in A : Join(r, x, y, a) \in AllTrees
      BY <1>8, <3>1
    <3>3. Score(F[r]) = Binary(r, x) * Score(Of(n, r)) * Score(A)
      BY <1>1, <1>9, <3>1, <3>2, JoinedScore
    <3>4. Binary(r, x) \in Nat /\ Score(Of(n, r)) \in Nat
      BY <1>9, RuleScores
    <3>5. \A j, m, q \in Nat : j * m * q = j * q * m
      OBVIOUS
    <3>6. Score(F[r]) = Binary(r, x) * Score(A) * Score(Of(n, r))
      BY <1>1, <3>3, <3>4, <3>5
    <3> QED  BY <1>9, <2>1, <2>2, <3>6 DEF k
  <2>4. CASE BinRule(r, x) \notin DOMAIN M1Model.bin
    <3>1. F[r] = {} /\ b[r] = 0
      BY <2>4, G1Rules
    <3>2. \A j, m \in Nat : 0 * j * m = 0
      OBVIOUS
    <3>3. k \in Nat /\ i[r] \in Nat
      BY <1>1, <1>9
    <3> HIDE DEF F, n, i, b, f, k
    <3> QED  BY <1>1, <2>1, <2>2, <3>1, <3>2, <3>3
  <2> HIDE DEF F, n, i, b, f, k
  <2> QED  BY <2>3, <2>4
<1>11. Score(B) = Total(f, M1Tags)
  <2>1. IsFiniteSet(AllTrees) /\ IsFiniteSet(M1Tags) /\ \A t \in AllTrees : ScoreMap[t] \in Nat
    BY FiniteTrees, Scores, LexicalTagIds
  <2>2. ASSUME NEW q \in M1Tags, NEW r \in M1Tags, q # r PROVE F[q] \cap F[r] = {}
    <3>1. ASSUME NEW u \in M1Tags, NEW p \in F[u] PROVE \E a, y : p.kids = <<y, a>> /\ y.sym = Sym(u)
      <4>1. p \in {Join(u, x, y, a) : y \in Of(n, u), a \in A}
        <5> HIDE DEF n
        <5> QED  BY <3>1
      <4>2. PICK a \in A, y \in Of(n, u) : p = Join(u, x, y, a)
        <5> HIDE DEF n
        <5> QED  BY <4>1
      <4> QED  BY <4>2, Made DEF Of
    <3> HIDE DEF F
    <3> SUFFICES ASSUME NEW p \in F[q], p \in F[r] PROVE FALSE
      OBVIOUS
    <3>2. PICK a, y : p.kids = <<y, a>> /\ y.sym = Sym(q)
      BY <3>1
    <3>3. PICK d, z : p.kids = <<z, d>> /\ z.sym = Sym(r)
      BY <3>1
    <3>4. y = z
      BY <3>2, <3>3
    <3> QED  BY <2>2, <3>2, <3>3, <3>4, SymOfTag
  <2>3. Total(ScoreMap, UNION {F[r] : r \in M1Tags}) = Total(f, M1Tags)
    <3> HIDE DEF F
    <3> QED  BY ONLY <1>8, <2>1, <2>2, TotalDisjoint
  <2> HIDE DEF F, f, B
  <2> QED  BY <1>7, <2>3 DEF Score
<1>12. RightPart(w, c) = Total(g, M1Tags)
  BY TotalOfSum DEF RightPart, SumOver
<1>13. o * Total(f, M1Tags) = Total(g, M1Tags) * k
  <2>1. k \in Nat /\ IsFiniteSet(M1Tags)
    BY <1>1, LexicalTagIds
  <2>2. \A r \in M1Tags : b[r] \in Nat /\ i[r] \in Nat
    BY <1>9
  <2>3. \A r \in M1Tags : f[r] = b[r] * k * i[r]
    <3> HIDE DEF f, b, i, k
    <3> QED  BY <1>10
  <2>4. \A r \in M1Tags : g[r] = b[r] * o * i[r]
    OBVIOUS
  <2> HIDE DEF f, g, b, i, o, k
  <2>5. WithFactors(M1Tags, b, i, k, o, f, g)
    BY <1>2, <2>1, <2>2, <2>3, <2>4 DEF WithFactors
  <2> QED  BY <2>5, TotalFactors
<1>14. o * Score(B) = Share(w, c) * k
  <2> HIDE DEF f, g, o, c, B, k
  <2> QED  BY <1>4, <1>11, <1>12, <1>13
<1> QED  BY <1>14 DEF Passed

(* Nowhere else.                                                           *)
LEMMA PassedNot ==
  ASSUME TypeOK, NEW w \in Spans, NEW v \in Spans, NEW x \in M1Tags, NEW A \in SUBSET Of(v, x),
         v # w, ~(v[1] = w[1] /\ v[2] \in Mids(w)), ~(v[2] = w[2] /\ v[1] \in Mids(w))
  PROVE  Passed(w, v, x, A)
<1>1. Share(w, <<v, x>>) = 0
  BY OneShare DEF Share
<1>2. Parents(A, w) = {}
  <2>1. \A a, p : ~UnaryAbove(w, v, x, a, p) /\ ~LeftAbove(w, v, x, a, p) /\ ~RightAbove(w, v, x, a, p)
    BY DEF UnaryAbove, LeftAbove, RightAbove
  <2>2. \A a \in A : \A p : ~(p \in M1Trees[w] /\ a \in Kids(p))
    BY <2>1, ParentKinds
  <2> QED  BY <2>2 DEF Parents
<1>3. outside[<<w, RootTag>>] \in Nat /\ Score(A) \in Nat /\ Score({}) = 0
  BY OfTrees, Scores, Shapes DEF TypeOK, Cells
<1>4. \A i \in Nat : i * 0 = 0 /\ 0 * i = 0
  OBVIOUS
<1> QED  BY <1>1, <1>2, <1>3, <1>4 DEF Passed

(* A share is what the parents over the span have in score.                *)
LEMMA SharePassed ==
  ASSUME TypeOK, InsideTotals, NEW w \in Spans, NEW v \in Spans, NEW x \in M1Tags, NEW A \in SUBSET Of(v, x)
  PROVE  Passed(w, v, x, A)
BY PassedUp, PassedLeft, PassedRight, PassedNot

-----------------------------------------------------------------------------
(* After the outside pass, what the parses through some trees of a cell    *)
(* have in score is the outside score of the cell times that of the trees. *)
OutsideExact(v, x) ==
  \A A \in SUBSET Of(v, x) : Score(Thru(A)) = outside[<<v, x>>] * Score(A)

(* ROOT over the sentence: the parses themselves.                          *)
LEMMA OutsideOfRoot ==
  ASSUME TypeOK, OutsideSummed, pc = "prune"
  PROVE  OutsideExact(Whole, RootTag)
<1> SUFFICES ASSUME NEW A \in SUBSET Of(Whole, RootTag)
             PROVE  Score(Thru(A)) = outside[RootCell] * Score(A)
  BY DEF OutsideExact, RootCell
<1>1. Whole \in Spans /\ RootCell \in Cells
  BY Shapes
<1>2. \A t \in Of(Whole, RootTag) : t \in Complete(M1Trees) /\ t \in AllTrees /\ t.span = Whole /\ t.sym = X
  BY <1>1, TreeFacts, SymOfTag DEF Complete, Of, AllTrees
<1>3. Thru(A) = A
  <2>1. ASSUME NEW t \in A PROVE t \in Thru(A)
    BY <1>2, SubLaws DEF Thru
  <2>2. ASSUME NEW t \in Thru(A) PROVE t \in A
    <3>1. PICK a \in A : a \in Sub(t)
      BY DEF Thru
    <3>2. t \in Of(Whole, RootTag)
      BY SymOfTag DEF Thru, Complete, Of
    <3>3. t \in AllTrees /\ OnePerCell(t) /\ t \in Sub(t)
      BY <1>2, <3>2, TreesProper, SubLaws DEF Proper
    <3>4. a = t
      BY <1>2, <3>1, <3>2, <3>3 DEF OnePerCell
    <3> QED  BY <3>4
  <2> QED  BY <2>1, <2>2
<1>4. outside[RootCell] = 1
  <2> DEFINE z == [w \in Spans |-> 0]
  <2>1. outside[RootCell] = 1 + Total(Shares(RootCell), DoneDown)
    BY <1>1 DEF OutsideSummed
  <2>2. \A w \in Spans : Share(w, RootCell) = 0
    <3>1. \A w \in Spans : Size(Whole) >= Size(w)
      BY Shapes, Sizes DEF Size, Whole
    <3> QED  BY <1>1, <3>1, RootShares DEF RootCell
  <2>3. IsFiniteSet(DoneDown) /\ DoneDown \subseteq Spans
    BY FiniteTrees, FS_Subset DEF DoneDown
  <2>4. \A w \in DoneDown : Shares(RootCell)[w] = 0 /\ Shares(RootCell)[w] \in Nat
    BY <2>2, <2>3 DEF Shares
  <2>5. Total(Shares(RootCell), DoneDown) = Total(Shares(RootCell), {})
    <3> DEFINE f == Shares(RootCell)
    <3>1. {} \in SUBSET DoneDown /\ IsFiniteSet(DoneDown)
          /\ (\A w \in DoneDown : f[w] \in Nat) /\ \A w \in DoneDown \ {} : f[w] = 0
      BY <2>3, <2>4
    <3> HIDE DEF f
    <3>2. Total(f, DoneDown) = Total(f, {})
      BY ONLY <3>1, TotalOfZeros
    <3> QED  BY <3>2 DEF f
  <2> QED  BY <2>1, <2>5, TotalOfNone
<1>5. Score(A) \in Nat
  BY <1>1, OfTrees, Scores
<1>6. \A n \in Nat : 1 * n = n
  OBVIOUS
<1> QED  BY <1>3, <1>4, <1>5, <1>6

(* A cell whose parents have their outside scores.                         *)
LEMMA OutsideOfCell ==
  ASSUME TypeOK, InsideTotals, OutsideSummed, pc = "prune",
         NEW v \in Spans, NEW x \in M1Tags, ~(v = Whole /\ x = RootTag),
         \A w \in Spans : Size(w) > Size(v) \/ (w = v /\ x \in Lexicals) => OutsideExact(w, RootTag)
  PROVE  OutsideExact(v, x)
<1> SUFFICES ASSUME NEW A \in SUBSET Of(v, x)
             PROVE  Score(Thru(A)) = outside[<<v, x>>] * Score(A)
  BY DEF OutsideExact
<1> DEFINE c == <<v, x>>
           k == Score(A)
           F == [w \in Spans |-> Thru(Parents(A, w))]
           f == [w \in Spans |-> Total(ScoreMap, F[w])]
           S == Shares(c)
           g == [w \in Spans |-> k * S[w]]
<1>1. c \in Cells /\ c # RootCell
  BY LexicalTagIds DEF Cells, RootCell
<1>2. k \in Nat
  BY OfTrees, Scores
<1>3. \A w \in Spans : S[w] = Share(w, c) /\ S[w] \in Nat
  BY <1>1, ShareNat DEF Shares
<1>4. \A w \in Spans : F[w] \in SUBSET AllTrees
  <2>1. Complete(M1Trees) \subseteq AllTrees
    BY Shapes DEF Complete, AllTrees
  <2> QED  BY <2>1 DEF Thru
<1>5. Thru(A) = UNION {F[w] : w \in Spans} /\ \A w, u \in Spans : w # u => F[w] \cap F[u] = {}
  <2>1. Thru(A) = UNION {Thru(Parents(A, w)) : w \in Spans}
    BY ThruParents
  <2>2. \A w, u \in Spans : w # u => Thru(Parents(A, w)) \cap Thru(Parents(A, u)) = {}
    BY ThruParents
  <2> QED  BY <2>1, <2>2
<1>6. ASSUME NEW w \in Spans PROVE f[w] = g[w] /\ f[w] \in Nat
  <2> DEFINE B == Parents(A, w)
             o == outside[<<w, RootTag>>]
  <2>1. o * Score(B) = S[w] * k
    BY <1>3, SharePassed DEF Passed
  <2>2. f[w] = Score(Thru(B)) /\ g[w] = k * S[w]
    BY DEF Score
  <2>3. Score(Thru(B)) \in Nat
    <3>1. Thru(B) \in SUBSET AllTrees
      BY <1>4
    <3> HIDE DEF B
    <3> QED  BY <3>1, Scores
  <2>4. Score(Thru(B)) = o * Score(B)
    <3>1. CASE B = {}
      <4>1. Thru({}) = {}
        BY DEF Thru
      <4>2. o \in Nat /\ Score({}) = 0
        BY Shapes, Scores DEF TypeOK, Cells
      <4>3. \A n \in Nat : n * 0 = 0
        OBVIOUS
      <4>4. B = {}
        BY <3>1
      <4> HIDE DEF o, B
      <4>5. Thru(B) = {}
        BY <4>1, <4>4
      <4>6. Score(Thru(B)) = 0 /\ Score(B) = 0
        BY <4>2, <4>4, <4>5
      <4> QED  BY <4>2, <4>3, <4>6
    <3>2. CASE B # {}
      <4>1. \A a \in A : \A p : p \in M1Trees[w] /\ a \in Kids(p)
               => UnaryAbove(w, v, x, a, p) \/ LeftAbove(w, v, x, a, p) \/ RightAbove(w, v, x, a, p)
        BY ParentKinds
      <4>2. \A a, p : UnaryAbove(w, v, x, a, p) => p.sym = X /\ w = v /\ x \in Lexicals
        BY Made DEF UnaryAbove
      <4>3. \A a, p : LeftAbove(w, v, x, a, p) => p.sym = X /\ v[1] = w[1] /\ v[2] \in Mids(w)
        BY Made DEF LeftAbove
      <4>4. \A a, p : RightAbove(w, v, x, a, p) => p.sym = X /\ v[2] = w[2] /\ v[1] \in Mids(w)
        BY Made DEF RightAbove
      <4>5. (v[1] = w[1] /\ v[2] \in Mids(w)) \/ (v[2] = w[2] /\ v[1] \in Mids(w)) => Size(w) > Size(v)
        BY SpanOrder DEF Size, Mids
      <4>6. B \subseteq Of(w, RootTag)
        BY <4>1, <4>2, <4>3, <4>4, SymOfTag DEF Parents, Of
      <4>7. Size(w) > Size(v) \/ (w = v /\ x \in Lexicals)
        <5>1. PICK p \in B : TRUE
          BY <3>2
        <5>2. PICK a \in A : a \in Kids(p) /\ p \in M1Trees[w]
          BY DEF Parents
        <5>3. UnaryAbove(w, v, x, a, p) \/ LeftAbove(w, v, x, a, p) \/ RightAbove(w, v, x, a, p)
          BY <4>1, <5>2
        <5>4. \/ w = v /\ x \in Lexicals
              \/ v[1] = w[1] /\ v[2] \in Mids(w)
              \/ v[2] = w[2] /\ v[1] \in Mids(w)
          BY <5>3 DEF UnaryAbove, LeftAbove, RightAbove
        <5> QED  BY <4>5, <5>4
      <4> HIDE DEF B
      <4> QED  BY <4>6, <4>7 DEF OutsideExact
    <3> QED  BY <3>1, <3>2
  <2>5. S[w] * k = k * S[w]
    <3> HIDE DEF S, k
    <3> QED  BY <1>2, <1>3
  <2> HIDE DEF B, o, S, k, f, g
  <2> QED  BY <2>1, <2>2, <2>3, <2>4, <2>5
<1>7. IsFiniteSet(Spans) /\ IsFiniteSet(AllTrees) /\ \A t \in AllTrees : ScoreMap[t] \in Nat
  BY FiniteTrees, Scores
<1>8. Score(Thru(A)) = Total(f, Spans)
  <2>1. \A w, u \in Spans : w # u => F[w] \cap F[u] = {}
    BY <1>5
  <2>2. Total(ScoreMap, UNION {F[w] : w \in Spans}) = Total(f, Spans)
    <3> HIDE DEF F
    <3> QED  BY ONLY <1>4, <1>7, <2>1, TotalDisjoint
  <2> HIDE DEF F, f
  <2> QED  BY <1>5, <2>2 DEF Score
<1>9. Total(f, Spans) = Total(g, Spans)
  <2>1. \A w \in Spans : f[w] \in Nat /\ f[w] = g[w]
    <3> HIDE DEF f, g
    <3> QED  BY <1>6
  <2> HIDE DEF f, g
  <2> QED  BY ONLY <1>7, <2>1, TotalSame
<1>10. Total(g, Spans) = k * Total(S, Spans)
  <2>1. \A w \in Spans : S[w] \in Nat
    BY <1>3
  <2> HIDE DEF S, k
  <2> QED  BY ONLY <1>2, <1>7, <2>1, TotalScale
<1>11. outside[c] = Total(S, Spans) /\ Total(S, Spans) \in Nat
  <2>1. DoneDown = Spans
    BY DEF DoneDown, OutsideDone
  <2>2. \A w \in Spans : S[w] \in Nat
    BY <1>3
  <2>3. Total(S, Spans) \in Nat
    <3> HIDE DEF S
    <3>1. Spans \in SUBSET Spans
      OBVIOUS
    <3> QED  BY <1>7, <2>2, <3>1, TotalSplit
  <2>4. outside[c] = 0 + Total(S, DoneDown)
    BY <1>1 DEF OutsideSummed
  <2> HIDE DEF S, c
  <2> QED  BY <2>1, <2>3, <2>4
<1>12. \A i, j \in Nat : i * j = j * i
  OBVIOUS
<1>13. Score(Thru(A)) = outside[c] * k
  <2> HIDE DEF S, c, k, f, g
  <2> QED  BY <1>2, <1>8, <1>9, <1>10, <1>11, <1>12
<1> QED  BY <1>13

(* So the outside pass is exact for all cells.                             *)
LEMMA OutsideIsExact ==
  ASSUME TypeOK, InsideTotals, OutsideSummed, pc = "prune"
  PROVE  \A v \in Spans, x \in M1Tags : OutsideExact(v, x)
<1> DEFINE S == {k \in Nat : \A v \in Spans : Size(v) >= NumWords - k => OutsideExact(v, RootTag)}
<1>0. NumWords \in Nat /\ RootTag \in M1Tags /\ RootTag \notin Lexicals
  BY Shapes, G1Rules DEF M1Tags
<1>1. \A v \in Spans : (\A w \in Spans : Size(w) > Size(v) => OutsideExact(w, RootTag)) => OutsideExact(v, RootTag)
  BY <1>0, OutsideOfRoot, OutsideOfCell
<1>2. 0 \in S
  <2> SUFFICES ASSUME NEW v \in Spans, Size(v) >= NumWords - 0 PROVE OutsideExact(v, RootTag)
    OBVIOUS
  <2>1. \A w \in Spans : ~(Size(w) > Size(v))
    BY <1>0, Sizes
  <2> QED  BY <1>1, <2>1
<1>3. ASSUME NEW k \in Nat, k \in S PROVE k + 1 \in S
  <2> SUFFICES ASSUME NEW v \in Spans, Size(v) >= NumWords - (k + 1) PROVE OutsideExact(v, RootTag)
    OBVIOUS
  <2>1. \A w \in Spans : Size(w) > Size(v) => OutsideExact(w, RootTag)
    <3> SUFFICES ASSUME NEW w \in Spans, Size(w) > Size(v) PROVE OutsideExact(w, RootTag)
      OBVIOUS
    <3>1. Size(w) >= NumWords - k
      BY <1>0, Sizes
    <3> QED  BY <1>3, <3>1
  <2> QED  BY <1>1, <2>1
<1>4. NumWords \in S
  <2> HIDE DEF S
  <2> QED  BY <1>0, <1>2, <1>3, SetInduction
<1>5. \A v \in Spans : OutsideExact(v, RootTag)
  BY <1>0, <1>4, Sizes
<1>6. \A v \in Spans, x \in Lexicals : OutsideExact(v, x)
  BY <1>0, <1>5, OutsideOfCell DEF M1Tags
<1> QED  BY <1>5, <1>6 DEF M1Tags

(* The parses with a cell are those through the trees of the cell.         *)
LEMMA ThroughCell ==
  ASSUME TypeOK, NEW s \in Spans, NEW t \in M1Tags
  PROVE  {tree \in Complete(M1Trees) : <<s, <<t, 0>>>> \in tree.cells} = Thru(Of(s, t))
<1>1. ASSUME NEW tree \in Complete(M1Trees)
      PROVE  <<s, <<t, 0>>>> \in tree.cells <=> Of(s, t) \cap Sub(tree) # {}
  <2>1. tree \in AllTrees
    BY Shapes DEF Complete, AllTrees
  <2>2. tree.cells = {<<y.span, y.sym>> : y \in Sub(tree)}
    BY <2>1, TreesProper DEF Proper, CellsOfSubs
  <2>3. \A y \in Sub(tree) : y \in M1Trees[y.span]
    BY <2>1, SubLaws, TreeSpan
  <2>4. \A y \in Of(s, t) : y.span = s /\ y.sym = <<t, 0>>
    BY TreeFacts DEF Of, Sym
  <2>5. \A y \in Sub(tree) : y.span = s /\ y.sym = <<t, 0>> => y \in Of(s, t)
    BY <2>3 DEF Of, Sym
  <2>6. <<s, <<t, 0>>>> \in tree.cells <=> \E y \in Sub(tree) : y.span = s /\ y.sym = <<t, 0>>
    BY <2>2
  <2> QED  BY <2>4, <2>5, <2>6
<1> QED  BY <1>1 DEF Thru

(* When both passes are done, the posteriors are exact.                    *)
LEMMA SummedExact == TypeOK /\ InsideSummed /\ OutsideSummed => PosteriorExact
<1> SUFFICES ASSUME TypeOK, InsideSummed, OutsideSummed, pc = "prune", NEW s \in Spans, NEW t \in M1Tags
             PROVE  inside[<<s, t>>] * outside[<<s, t>>] =
                      ScoreOf({tree \in Complete(M1Trees) : <<s, <<t, 0>>>> \in tree.cells})
  BY DEF PosteriorExact
<1> DEFINE A == Of(s, t)
<1>1. InsideTotals
  BY InsideIsTotal
<1>2. Score(Thru(A)) = outside[<<s, t>>] * Score(A)
  BY <1>1, OutsideIsExact DEF OutsideExact
<1>3. inside[<<s, t>>] = Score(A)
  BY <1>1 DEF InsideTotals
<1>4. ScoreOf(Thru(A)) = Score(Thru(A))
  <2>1. Thru(A) \in SUBSET AllTrees
    BY Shapes DEF Thru, Complete, AllTrees
  <2> HIDE DEF A
  <2> QED  BY <2>1, ScoreOfTotal
<1>5. inside[<<s, t>>] \in Nat /\ outside[<<s, t>>] \in Nat
  BY LexicalTagIds DEF TypeOK, Cells
<1>6. \A i, j \in Nat : i * j = j * i
  OBVIOUS
<1> HIDE DEF A
<1>7. inside[<<s, t>>] * outside[<<s, t>>] = ScoreOf(Thru(A))
  BY <1>2, <1>3, <1>4, <1>5, <1>6
<1> QED  BY <1>7, ThroughCell DEF A

(* The preparse prunes by exact posteriors: doM1Preparse compares with the *)
(* threshold what the G-1 trees through a cell have in score, all of it    *)
(* and nothing else.                                                       *)
THEOREM PosteriorsExact == Spec => []PosteriorExact
<1> DEFINE Inv == IInv /\ Passes /\ InsideSummed /\ OutsideSummed
<1>1. Init => Inv
  BY InitInv, InitPasses, InitSummed
<1>2. Inv /\ [Next]_vars => Inv'
  BY StepInv, StepPasses, StepSummed DEF IInv
<1>3. Inv => PosteriorExact
  BY SummedExact DEF IInv
<1> QED  BY <1>1, <1>2, <1>3, PTL DEF Spec
=============================================================================
