--------------------------- MODULE MaxRule_proofs ---------------------------
(***************************************************************************)
(* Proofs about the retrieval of the max-rule tree, for every sentence     *)
(* length, grammar and table of gains.                                     *)
(***************************************************************************)
EXTENDS MaxRule, DataLemmas

(* The parts of an anchored binary rule, and the score of the tree it      *)
(* makes of the best ones of its parts.                                    *)
LeftOf(u) == <<<<u[1][1], u[5]>>, u[3]>>
RightOf(u) == <<<<u[5], u[1][2]>>, u[4]>>
Ready(B, u) == B[LeftOf(u)] # NegInfty /\ B[RightOf(u)] # NegInfty
Combined(G, B, u) == G.bin[u] + B[LeftOf(u)] + B[RightOf(u)]

Size(v) == v[2] - v[1]

(* A tree with k rules can have the score x.                               *)
Within(x, k) == 4 * NumWords * x > k * NegInfty

(* Backpointers k give the tag t over the span v the score x by a word or  *)
(* by a binary rule.                                                       *)
Pointed(K, v, t) == <<v, t, K[<<v, t>>].left, K[<<v, t>>].right, K[<<v, t>>].mid>>

Derived(G, B, K, v, t, x) ==
  IF Size(v) = 1
    THEN <<v, t>> \in DOMAIN G.lex /\ x = G.lex[<<v, t>>]
    ELSE LET u == Pointed(K, v, t)
         IN  u \in DOMAIN G.bin /\ Ready(B, u) /\ x = Combined(G, B, u)

(* The score of a cell is that of its backpointers, with the unary rule    *)
(* last.                                                                   *)
Sound(G, B, K, v, t) ==
  LET child == K[<<v, t>>].child
      score == B[<<v, t>>]
  IN  IF score = NegInfty THEN child = NoTag
      ELSE /\ Within(score, 4 * Size(v) - 2)
           /\ IF child = NoTag THEN Derived(G, B, K, v, t, score)
              ELSE /\ <<v, t, child>> \in DOMAIN G.una
                   /\ \E x \in Int : Derived(G, B, K, v, child, x) /\ score = x + G.una[<<v, t, child>>]

(* The score x is that of some word or binary rule for the tag.            *)
Offered(G, B, v, t, x) ==
  \/ <<v, t>> \in DOMAIN G.lex /\ x = G.lex[<<v, t>>]
  \/ \E u \in DOMAIN G.bin : u[1] = v /\ u[2] = t /\ Ready(B, u) /\ x = Combined(G, B, u)

Gainless(G) == \A h \in {G.bin, G.una, G.lex} : \A u \in DOMAIN h : h[u] <= 0

(* No rule gives the tag more than its score.                              *)
Maximal(G, B, v, t) ==
  /\ \A x \in Int : Offered(G, B, v, t, x) => x <= B[<<v, t>>]
  /\ \A u \in DOMAIN G.una : u[1] = v /\ u[2] = t =>
       \A x \in Int : Offered(G, B, v, u[3], x) => x + G.una[u] <= B[<<v, t>>]

(* The spans that the loops have left behind.                              *)
Before(v, s) == Size(v) < Size(s) \/ (Size(v) = Size(s) /\ v[1] < s[1])
Finished(p, s) == IF p \in {"tree", "done"} THEN Spans ELSE {v \in Spans : Before(v, s)}

FinishedRight ==
  \A v \in Finished(pc, span) : \A t \in Tags :
    /\ Sound(gains, best, back, v, t)
    /\ Gainless(gains) => Maximal(gains, best, v, t)

(* Before the unary rules of the span.                                     *)
BaseSound(t) ==
  best[Cell(t)] # NegInfty =>
    Within(best[Cell(t)], 4 * Size(span) - 3) /\ Derived(gains, best, back, span, t, best[Cell(t)])

BinaryRight ==
  pc = "binary" =>
    /\ Size(span) > 1 /\ pending \subseteq {u \in DOMAIN gains.bin : u[1] = span}
    /\ \A t \in Tags : BaseSound(t) /\ back[Cell(t)].child = NoTag
    /\ Gainless(gains) =>
         \A u \in DOMAIN gains.bin : u[1] = span /\ u \notin pending /\ Ready(best, u) =>
           Combined(gains, best, u) <= best[Cell(u[2])]

WordRight ==
  pc = "word" =>
    /\ Size(span) = 1
    /\ \A t \in Tags : best[Cell(t)] = NegInfty /\ back[Cell(t)].child = NoTag

AfterSound(t) ==
  LET child == back[Cell(t)].child
  IN  IF after[t] = NegInfty THEN child = NoTag
      ELSE /\ Within(after[t], 4 * Size(span) - 2)
           /\ IF child = NoTag THEN after[t] = best[Cell(t)]
              ELSE /\ <<span, t, child>> \in DOMAIN gains.una
                   /\ best[Cell(child)] # NegInfty
                   /\ after[t] = best[Cell(child)] + gains.una[<<span, t, child>>]

UnaryRight ==
  pc = "unary" =>
    /\ pending \subseteq {u \in DOMAIN gains.una : u[1] = span}
    /\ \A t \in Tags : BaseSound(t) /\ AfterSound(t) /\ best[Cell(t)] <= after[t]
    /\ Gainless(gains) =>
         /\ \A t \in Tags : \A x \in Int : Offered(gains, best, span, t, x) => x <= best[Cell(t)]
         /\ \A u \in DOMAIN gains.una :
              u[1] = span /\ u \notin pending /\ best[Cell(u[3])] # NegInfty =>
                best[Cell(u[3])] + gains.una[u] <= after[u[2]]

Floors == (\A c \in Cells : best[c] >= NegInfty) /\ (\A t \in Tags : after[t] >= NegInfty)

-----------------------------------------------------------------------------
(* What a span is made of.                                                 *)
LEMMA SpanFacts ==
  ASSUME NEW v \in Spans
  PROVE  /\ v = <<v[1], v[2]>> /\ v[1] \in 0..NumWords /\ v[2] \in 0..NumWords
         /\ v[1] < v[2] /\ Size(v) \in 1..NumWords
BY SentenceAssumption DEF Spans, Size

(* The first span and the whole sentence.                                  *)
LEMMA Ends == <<0, 1>> \in Spans /\ Whole \in Spans /\ Size(Whole) = NumWords /\ NumWords \in Nat \ {0}
BY SentenceAssumption DEF Spans, Whole, Size

(* The parts of a binary rule are shorter spans next to one another.       *)
LEMMA BinaryFacts ==
  ASSUME NEW G \in GainTables, NEW u \in DOMAIN G.bin
  PROVE  /\ G.bin[u] \in Int /\ Within(G.bin[u], 1)
         /\ u = <<u[1], u[2], u[3], u[4], u[5]>>
         /\ u[1] \in Spans /\ u[2] \in Tags \ {Root} /\ u[3] \in Tags /\ u[4] \in Tags
         /\ u[5] \in Nat /\ u[1][1] < u[5] /\ u[5] < u[1][2]
         /\ <<u[1][1], u[5]>> \in Spans /\ <<u[5], u[1][2]>> \in Spans
         /\ LeftOf(u) \in Cells /\ RightOf(u) \in Cells
         /\ Size(<<u[1][1], u[5]>>) + Size(<<u[5], u[1][2]>>) = Size(u[1])
         /\ Size(u[1]) > 1
<1>1. u \in Spans \X Tags \X Tags \X Tags \X (1..NumWords)
  BY GainAssumption
<1>2. u[1][1] < u[5] /\ u[5] < u[1][2] /\ u[2] # Root
  BY GainAssumption
<1>3. G.bin \in [DOMAIN G.bin -> Int] /\ 4 * NumWords * G.bin[u] > NegInfty
  BY GainAssumption
<1>4. G.bin[u] \in Int /\ Within(G.bin[u], 1)
  BY <1>3, SentenceAssumption DEF Within
<1>5. /\ u = <<u[1], u[2], u[3], u[4], u[5]>>
      /\ u[1] \in Spans /\ u[2] \in Tags /\ u[3] \in Tags /\ u[4] \in Tags /\ u[5] \in 1..NumWords
  BY <1>1
<1>6. u[1][1] \in 0..NumWords /\ u[1][2] \in 0..NumWords /\ NumWords \in Nat
  BY <1>5, SpanFacts, SentenceAssumption
<1>7. <<u[1][1], u[5]>> \in Spans /\ <<u[5], u[1][2]>> \in Spans
  BY <1>2, <1>5, <1>6 DEF Spans
<1>8. LeftOf(u) \in Cells /\ RightOf(u) \in Cells
  BY <1>5, <1>7 DEF Cells, LeftOf, RightOf
<1>9. Size(<<u[1][1], u[5]>>) + Size(<<u[5], u[1][2]>>) = Size(u[1]) /\ Size(u[1]) > 1
  BY <1>2, <1>5, <1>6 DEF Size
<1> QED  BY <1>2, <1>4, <1>5, <1>7, <1>8, <1>9

(* A unary rule joins two different tags over one span.                    *)
LEMMA UnaryFacts ==
  ASSUME NEW G \in GainTables, NEW u \in DOMAIN G.una
  PROVE  /\ G.una[u] \in Int /\ Within(G.una[u], 1)
         /\ u = <<u[1], u[2], u[3]>> /\ u[1] \in Spans /\ u[2] \in Tags /\ u[3] \in Tags /\ u[2] # u[3]
<1>1. u \in Spans \X Tags \X Tags /\ u[2] # u[3]
  BY GainAssumption
<1>2. G.una \in [DOMAIN G.una -> Int] /\ 4 * NumWords * G.una[u] > NegInfty
  BY GainAssumption
<1>3. G.una[u] \in Int /\ Within(G.una[u], 1)
  BY <1>2, SentenceAssumption DEF Within
<1> QED  BY <1>1, <1>3

(* A word has a tag other than ROOT over a span of its own.                *)
LEMMA WordFacts ==
  ASSUME NEW G \in GainTables, NEW u \in DOMAIN G.lex
  PROVE  /\ G.lex[u] \in Int /\ Within(G.lex[u], 1)
         /\ u = <<u[1], u[2]>> /\ u[1] \in Spans /\ u[2] \in Tags \ {Root} /\ Size(u[1]) = 1
<1>1. u \in Cells /\ u[1][2] = u[1][1] + 1 /\ u[2] # Root
  BY GainAssumption
<1>2. G.lex \in [DOMAIN G.lex -> Int] /\ 4 * NumWords * G.lex[u] > NegInfty
  BY GainAssumption
<1>3. G.lex[u] \in Int /\ Within(G.lex[u], 1)
  BY <1>2, SentenceAssumption DEF Within
<1>4. u = <<u[1], u[2]>> /\ u[1] \in Spans /\ u[2] \in Tags
  BY <1>1 DEF Cells
<1>5. Size(u[1]) = 1
  BY <1>1, <1>4, SpanFacts DEF Size
<1> QED  BY <1>1, <1>3, <1>4, <1>5

(* Scores of parts add up within the bound of their rules together, which  *)
(* is above the mark for no score as long as they are few enough.          *)
LEMMA WithinSum ==
  ASSUME NEW x \in Int, NEW y \in Int, NEW j \in Int, NEW k \in Int, Within(x, j), Within(y, k)
  PROVE  Within(x + y, j + k)
<1>1. NumWords \in Int /\ NegInfty \in Int
  BY SentenceAssumption
<1>2. 4 * NumWords * (x + y) = 4 * NumWords * x + 4 * NumWords * y
  BY <1>1
<1>3. (j + k) * NegInfty = j * NegInfty + k * NegInfty
  BY <1>1
<1>4. /\ 4 * NumWords * x \in Int /\ 4 * NumWords * y \in Int
      /\ j * NegInfty \in Int /\ k * NegInfty \in Int
  BY <1>1
<1> QED  BY <1>2, <1>3, <1>4 DEF Within

(* A score fit for some rules is fit for more rules.                       *)
LEMMA WithinMore ==
  ASSUME NEW x \in Int, NEW j \in Int, NEW k \in Int, j <= k, Within(x, j)
  PROVE  Within(x, k)
<1>1. NumWords \in Int /\ NegInfty \in Int /\ NegInfty < 0
  BY SentenceAssumption
<1>2. j * NegInfty >= k * NegInfty
  BY <1>1
<1>3. 4 * NumWords * x \in Int /\ j * NegInfty \in Int /\ k * NegInfty \in Int
  BY <1>1
<1> QED  BY <1>2, <1>3 DEF Within

(* So a sum of the gains of a whole tree is above the mark for no score.   *)
LEMMA WithinScored ==
  ASSUME NEW x \in Int, NEW k \in Int, k <= 4 * NumWords, Within(x, k)
  PROVE  x > NegInfty
<1>1. NumWords \in Nat \ {0} /\ NegInfty \in Int
  BY SentenceAssumption
<1>2. Within(x, 4 * NumWords)
  BY <1>1, WithinMore
<1>3. 4 * NumWords * x > 4 * NumWords * NegInfty
  BY <1>2 DEF Within
<1>4. ASSUME NEW m \in Nat, m > 0, m * x > m * NegInfty PROVE x > NegInfty
  BY <1>1, <1>4
<1> QED  BY <1>1, <1>3, <1>4

-----------------------------------------------------------------------------
(* What is written over one span does not matter to the rules of the spans *)
(* that are not longer.                                                    *)
Agree(B, B2, s) == \A c \in Cells : c[1] # s => B2[c] = B[c]

(* Writing one span leaves the parts of the rules over spans that are not  *)
(* longer alone.                                                           *)
LEMMA PartsElsewhere ==
  ASSUME NEW G \in GainTables, NEW B, NEW B2, NEW s \in Spans, Agree(B, B2, s),
         NEW u \in DOMAIN G.bin, Size(u[1]) <= Size(s)
  PROVE  /\ B2[LeftOf(u)] = B[LeftOf(u)] /\ B2[RightOf(u)] = B[RightOf(u)]
         /\ (Ready(B2, u) <=> Ready(B, u)) /\ Combined(G, B2, u) = Combined(G, B, u)
<1>1. /\ LeftOf(u) \in Cells /\ RightOf(u) \in Cells
      /\ LeftOf(u)[1] \in Spans /\ RightOf(u)[1] \in Spans
      /\ Size(LeftOf(u)[1]) + Size(RightOf(u)[1]) = Size(u[1])
  BY BinaryFacts DEF LeftOf, RightOf
<1>2. /\ Size(LeftOf(u)[1]) \in Nat \ {0} /\ Size(RightOf(u)[1]) \in Nat \ {0}
      /\ Size(u[1]) \in Nat /\ Size(s) \in Nat
  <2>1. \A v \in Spans : Size(v) \in Nat \ {0}
    BY SpanFacts
  <2> QED  BY <1>1, <2>1, BinaryFacts
<1>3. Size(LeftOf(u)[1]) # Size(s) /\ Size(RightOf(u)[1]) # Size(s)
  BY <1>1, <1>2
<1>4. B2[LeftOf(u)] = B[LeftOf(u)] /\ B2[RightOf(u)] = B[RightOf(u)]
  BY <1>1, <1>3 DEF Agree
<1> QED  BY <1>4 DEF Ready, Combined

(* And with them what those rules offer.                                   *)
LEMMA OfferedElsewhere ==
  ASSUME NEW G \in GainTables, NEW B, NEW B2, NEW s \in Spans, Agree(B, B2, s),
         NEW v \in Spans, Size(v) <= Size(s), NEW t, NEW x
  PROVE  Offered(G, B2, v, t, x) <=> Offered(G, B, v, t, x)
<1>1. \A u \in DOMAIN G.bin : u[1] = v =>
        (Ready(B2, u) <=> Ready(B, u)) /\ Combined(G, B2, u) = Combined(G, B, u)
  BY PartsElsewhere
<1> QED  BY <1>1 DEF Offered

(* And what backpointers derive.                                           *)
LEMMA DerivedElsewhere ==
  ASSUME NEW G \in GainTables, NEW B, NEW B2, NEW s \in Spans, Agree(B, B2, s),
         NEW v \in Spans, Size(v) <= Size(s), NEW t, NEW x, NEW K, NEW K2,
         Pointed(K2, v, t) = Pointed(K, v, t)
  PROVE  Derived(G, B2, K2, v, t, x) <=> Derived(G, B, K, v, t, x)
<1> DEFINE u == Pointed(K, v, t)
<1>1. u \in DOMAIN G.bin => (Ready(B2, u) <=> Ready(B, u)) /\ Combined(G, B2, u) = Combined(G, B, u)
  <2>1. u[1] = v
    BY DEF Pointed
  <2> HIDE DEF u
  <2> QED  BY <2>1, PartsElsewhere
<1> QED  BY <1>1 DEF Derived

(* So what is finished stays right.                                        *)
LEMMA FinishedElsewhere ==
  ASSUME NEW G \in GainTables, NEW B, NEW B2, NEW K, NEW K2, NEW s \in Spans,
         Agree(B, B2, s), Agree(K, K2, s), NEW v \in Spans, Before(v, s), NEW t \in Tags
  PROVE  /\ Sound(G, B, K, v, t) => Sound(G, B2, K2, v, t)
         /\ Maximal(G, B, v, t) => Maximal(G, B2, v, t)
<1>1. v # s /\ Size(v) <= Size(s)
  BY SpanFacts DEF Before
<1>2. \A y \in Tags : B2[<<v, y>>] = B[<<v, y>>] /\ K2[<<v, y>>] = K[<<v, y>>]
  BY <1>1 DEF Agree, Cells
<1>3. \A y \in Tags : \A x : Derived(G, B2, K2, v, y, x) <=> Derived(G, B, K, v, y, x)
  <2> TAKE y \in Tags
  <2>1. Pointed(K2, v, y) = Pointed(K, v, y)
    BY <1>2 DEF Pointed
  <2> QED  BY <1>1, <2>1, DerivedElsewhere
<1>4. Sound(G, B, K, v, t) => Sound(G, B2, K2, v, t)
  <2>1. \A u \in DOMAIN G.una : u[3] \in Tags
    BY UnaryFacts
  <2>2. <<v, t, K[<<v, t>>].child>> \in DOMAIN G.una => K[<<v, t>>].child \in Tags
    BY <2>1
  <2> QED  BY <1>2, <1>3, <2>2 DEF Sound
<1>5. \A y, x : Offered(G, B2, v, y, x) <=> Offered(G, B, v, y, x)
  BY <1>1, OfferedElsewhere
<1> QED  BY <1>2, <1>4, <1>5 DEF Maximal

(* The order in which the spans are taken.                                 *)
LEMMA NextSpanFacts ==
  ASSUME NEW s \in Spans, s # Whole
  PROVE  /\ NextSpan(s) \in Spans
         /\ \A v \in Spans : Before(v, NextSpan(s)) <=> Before(v, s) \/ v = s
<1>1. /\ NumWords \in Nat \ {0} /\ s = <<s[1], s[2]>> /\ s[1] \in 0..NumWords /\ s[2] \in 0..NumWords
      /\ s[1] < s[2]
  BY SpanFacts, Ends
<1>2. ~ (s[1] = 0 /\ s[2] = NumWords)
  BY <1>1 DEF Whole
<1>3. NextSpan(s) \in Spans
  BY <1>1, <1>2 DEF NextSpan, Spans
<1>4. ASSUME NEW v \in Spans PROVE Before(v, NextSpan(s)) <=> Before(v, s) \/ v = s
  <2>1. v = <<v[1], v[2]>> /\ v[1] \in 0..NumWords /\ v[2] \in 0..NumWords /\ v[1] < v[2]
    BY SpanFacts
  <2>2. v = s <=> v[1] = s[1] /\ v[2] = s[2]
    BY <1>1, <2>1
  <2>3. CASE s[2] < NumWords
    BY <1>1, <2>1, <2>2, <2>3 DEF NextSpan, Before, Size
  <2>4. CASE s[2] = NumWords
    BY <1>1, <2>1, <2>2, <2>4 DEF NextSpan, Before, Size
  <2> QED  BY <1>1, <2>3, <2>4
<1> QED  BY <1>3, <1>4

(* Every span is taken no later than the whole sentence.                   *)
LEMMA BeforeWhole == \A v \in Spans : Before(v, Whole) \/ v = Whole
<1> TAKE v \in Spans
<1>1. v = <<v[1], v[2]>> /\ v[1] \in 0..NumWords /\ v[2] \in 0..NumWords /\ v[1] < v[2]
  BY SpanFacts
<1> QED  BY <1>1, Ends DEF Before, Whole, Size

(* The order is strict.                                                    *)
LEMMA NotBeforeItself == \A v \in Spans : ~Before(v, v)
BY SpanFacts DEF Before

(* A step within a span, and one that leaves it.                           *)
LEMMA FinishedKept ==
  ASSUME TypeOK, FinishedRight, pc \notin {"tree", "done"}, pc' \notin {"tree", "done"},
         span' = span, gains' = gains, Agree(best, best', span), Agree(back, back', span)
  PROVE  FinishedRight'
<1>1. Finished(pc', span') = {v \in Spans : Before(v, span)}
  BY DEF Finished
<1>2. Finished(pc, span) = {v \in Spans : Before(v, span)}
  BY DEF Finished
<1>3. span \in Spans /\ gains \in GainTables
  BY DEF TypeOK
<1>4. ASSUME NEW v \in Spans, Before(v, span), NEW t \in Tags
      PROVE  /\ Sound(gains, best', back', v, t)
             /\ Gainless(gains) => Maximal(gains, best', v, t)
  <2>1. Sound(gains, best, back, v, t) /\ (Gainless(gains) => Maximal(gains, best, v, t))
    BY <1>2, <1>4 DEF FinishedRight
  <2> QED  BY <1>3, <1>4, <2>1, FinishedElsewhere
<1> QED  BY <1>1, <1>4 DEF FinishedRight

(* A step that ends the current span adds it to the finished ones.         *)
LEMMA FinishedGrows ==
  ASSUME TypeOK, FinishedRight, pc \notin {"tree", "done"}, Advance,
         gains' = gains, Agree(best, best', span), Agree(back, back', span),
         \A t \in Tags : /\ Sound(gains, best', back', span, t)
                         /\ Gainless(gains) => Maximal(gains, best', span, t)
  PROVE  FinishedRight' /\ span' \in Spans
<1>1. span \in Spans /\ gains \in GainTables
  BY DEF TypeOK
<1>2. Finished(pc, span) = {v \in Spans : Before(v, span)}
  BY DEF Finished
<1>3. span' \in Spans /\ Finished(pc', span') = {v \in Spans : Before(v, span) \/ v = span}
  <2>1. CASE span = Whole
    BY <1>1, <2>1, BeforeWhole DEF Advance, Finished
  <2>2. CASE span # Whole
    BY <1>1, <2>2, NextSpanFacts DEF Advance, Finished
  <2> QED  BY <2>1, <2>2
<1>4. ASSUME NEW v \in Spans, Before(v, span), NEW t \in Tags
      PROVE  /\ Sound(gains, best', back', v, t)
             /\ Gainless(gains) => Maximal(gains, best', v, t)
  <2>1. Sound(gains, best, back, v, t) /\ (Gainless(gains) => Maximal(gains, best, v, t))
    BY <1>2, <1>4 DEF FinishedRight
  <2> QED  BY <1>1, <1>4, <2>1, FinishedElsewhere
<1>5. \A v \in Finished(pc', span') : \A t \in Tags :
         /\ Sound(gains, best', back', v, t)
         /\ Gainless(gains) => Maximal(gains, best', v, t)
  BY <1>3, <1>4
<1> QED  BY <1>3, <1>5 DEF FinishedRight

-----------------------------------------------------------------------------
(* The trees and the retrieval as operators of what they read.             *)
Joined(b, t, child) ==
  IF ~b /\ BarOf[t] # NoTag /\ child.label = <<"tag", BarOf[t]>> THEN child.kids ELSE <<child>>

WordTrees(G, v) == {Tree(u[2], G.lex[u], <<Leaf(v[1])>>) : u \in {w \in DOMAIN G.lex : w[1] = v}}

BinaryTrees(G, b, f, v) ==
  UNION {{Tree(u[2], G.bin[u] + p[1].gain + p[2].gain,
               Joined(b, u[2], p[1].shape) \o Joined(b, u[2], p[2].shape)) :
            p \in {q \in f[<<v[1], u[5]>>] \X f[<<u[5], v[2]>>] : q[1].tag = u[3] /\ q[2].tag = u[4]}} :
         u \in {w \in DOMAIN G.bin : w[1] = v}}

PlainTrees(G, b, f, v) == WordTrees(G, v) \cup BinaryTrees(G, b, f, v)

UnaryTrees(G, b, plain, v) ==
  UNION {{Tree(u[2], G.una[u] + p.gain, Joined(b, u[2], p.shape)) : p \in {q \in plain : q.tag = u[3]}} :
         u \in {w \in DOMAIN G.una : w[1] = v}}

TreesAt(G, b, f, v) == PlainTrees(G, b, f, v) \cup UnaryTrees(G, b, PlainTrees(G, b, f, v), v)

TreeTable(G, b, f) == [v \in Spans |-> TreesAt(G, b, f, v)]

TreesOf(G, b) == CHOOSE f : f = TreeTable(G, b, f)

Sub(f, v, t) == IF t = NoTag THEN <<>> ELSE f[<<v, t, TRUE>>]

Built(K, b, f, x) ==
  LET s == x[1]
      t == x[2]
      p == K[<<s, t>>]
  IN  IF p.child = NoTag /\ t = Root THEN <<>>
      ELSE IF p.child # NoTag /\ x[3] THEN
        LET kid == f[<<s, p.child, FALSE>>]
        IN  IF kid = <<>> THEN <<>> ELSE <<Node(t, Joined(b, t, kid[1]))>>
      ELSE IF s[2] - s[1] > 1 THEN
        LET left == Sub(f, <<s[1], p.mid>>, p.left)
            right == Sub(f, <<p.mid, s[2]>>, p.right)
        IN  IF left = <<>> \/ right = <<>> THEN <<>>
            ELSE <<Node(t, Joined(b, t, left[1]) \o Joined(b, t, right[1]))>>
      ELSE <<Node(t, <<Leaf(s[1])>>)>>

Goals == Spans \X Tags \X BOOLEAN

BuildTable(K, b, f) == [x \in Goals |-> Built(K, b, f, x)]

BuildOf(K, b) == (CHOOSE f : f = BuildTable(K, b, f))[<<Whole, Root, TRUE>>]

(* The sets of trees of the model, with their arguments written out.       *)
LEMMA SameTrees == ParsesOver = TreesOf(gains, binarize) /\ ParsesOver' = TreesOf(gains', binarize')
<1>1. ParsesOver = TreesOf(gains, binarize)
  BY DEF ParsesOver, TreesOf, TreeTable, TreesAt, PlainTrees, UnaryTrees, BinaryTrees, WordTrees, Attached, Joined
<1>2. ParsesOver' = TreesOf(gains', binarize')
  BY DEF ParsesOver, TreesOf, TreeTable, TreesAt, PlainTrees, UnaryTrees, BinaryTrees, WordTrees, Attached, Joined
<1> QED  BY <1>1, <1>2

(* buildTree, with its arguments written out.                              *)
LEMMA SameBuild == BuildTree = BuildOf(back, binarize)
BY DEF BuildTree, BuildOf, BuildTable, Built, Sub, Goals, Attached, Joined

(* The sets of trees exist: those over a span need only shorter spans.     *)
LEMMA ShorterTrees ==
  ASSUME NEW G \in GainTables, NEW b, NEW f, NEW h, NEW v \in Spans,
         \A w \in Spans : Size(w) < Size(v) => f[w] = h[w]
  PROVE  TreesAt(G, b, f, v) = TreesAt(G, b, h, v)
<1> DEFINE U == {w \in DOMAIN G.bin : w[1] = v}
           pairs(g, u) == {q \in g[<<v[1], u[5]>>] \X g[<<u[5], v[2]>>] : q[1].tag = u[3] /\ q[2].tag = u[4]}
           made(u, p) == Tree(u[2], G.bin[u] + p[1].gain + p[2].gain,
                              Joined(b, u[2], p[1].shape) \o Joined(b, u[2], p[2].shape))
<1>1. ASSUME NEW u \in U PROVE pairs(f, u) = pairs(h, u)
  <2>1. /\ <<u[1][1], u[5]>> \in Spans /\ <<u[5], u[1][2]>> \in Spans /\ u[1] = v
        /\ Size(<<u[1][1], u[5]>>) + Size(<<u[5], u[1][2]>>) = Size(u[1])
    BY BinaryFacts
  <2>2. \A w \in Spans : Size(w) \in Nat \ {0}
    BY SpanFacts
  <2>3. f[<<v[1], u[5]>>] = h[<<v[1], u[5]>>] /\ f[<<u[5], v[2]>>] = h[<<u[5], v[2]>>]
    BY <2>1, <2>2
  <2> QED  BY <2>3
<1>2. BinaryTrees(G, b, f, v) = UNION {{made(u, p) : p \in pairs(f, u)} : u \in U}
  BY DEF BinaryTrees
<1>3. BinaryTrees(G, b, h, v) = UNION {{made(u, p) : p \in pairs(h, u)} : u \in U}
  BY DEF BinaryTrees
<1>4. BinaryTrees(G, b, f, v) = BinaryTrees(G, b, h, v)
  <2> HIDE DEF U, pairs, made
  <2>1. \A u \in U : {made(u, p) : p \in pairs(f, u)} = {made(u, p) : p \in pairs(h, u)}
    BY <1>1
  <2> QED  BY <1>2, <1>3, <2>1
<1>5. PlainTrees(G, b, f, v) = PlainTrees(G, b, h, v)
  BY <1>4 DEF PlainTrees
<1> QED  BY <1>5 DEF TreesAt

(* So the table of all of them is what its definition says.                *)
LEMMA TreesExist ==
  ASSUME NEW G \in GainTables, NEW b
  PROVE  TreesOf(G, b) = TreeTable(G, b, TreesOf(G, b))
<1> DEFINE Solved(n) == \E f : /\ f = [v \in Spans |-> f[v]]
                               /\ \A v \in Spans : Size(v) <= n => f[v] = TreesAt(G, b, f, v)
           S == {n \in Nat : Solved(n)}
<1>1. \A v \in Spans : Size(v) \in Nat \ {0} /\ Size(v) <= NumWords
  BY SpanFacts
<1>2. 0 \in S
  <2> DEFINE f == [v \in Spans |-> {}]
  <2>1. f = [v \in Spans |-> f[v]]
    OBVIOUS
  <2>2. \A v \in Spans : ~(Size(v) <= 0)
    BY <1>1
  <2> HIDE DEF f
  <2>3. Solved(0)
    BY <2>1, <2>2
  <2> QED  BY <2>3
<1>3. ASSUME NEW n \in Nat, n \in S PROVE n + 1 \in S
  <2>1. PICK f : /\ f = [v \in Spans |-> f[v]]
                 /\ \A v \in Spans : Size(v) <= n => f[v] = TreesAt(G, b, f, v)
    BY <1>3
  <2> DEFINE h == [v \in Spans |-> IF Size(v) <= n THEN f[v] ELSE TreesAt(G, b, f, v)]
  <2>2. h = [v \in Spans |-> h[v]]
    OBVIOUS
  <2>3. ASSUME NEW v \in Spans, Size(v) <= n + 1 PROVE h[v] = TreesAt(G, b, h, v)
    <3>1. h[v] = TreesAt(G, b, f, v)
      BY <2>1
    <3>2. \A w \in Spans : Size(w) < Size(v) => f[w] = h[w]
      BY <1>1, <2>3
    <3> HIDE DEF h
    <3>3. TreesAt(G, b, f, v) = TreesAt(G, b, h, v)
      BY <3>2, ShorterTrees
    <3> QED  BY <3>1, <3>3
  <2>4. Solved(n + 1)
    <3> HIDE DEF h
    <3> QED  BY <2>2, <2>3
  <2> HIDE DEF Solved
  <2> QED  BY <2>4
<1>4. NumWords \in S
  <2> HIDE DEF S
  <2> QED  BY <1>2, <1>3, SetInduction, Ends
<1>5. PICK f : f = [v \in Spans |-> f[v]] /\ \A v \in Spans : f[v] = TreesAt(G, b, f, v)
  BY <1>1, <1>4
<1>6. f = TreeTable(G, b, f)
  BY <1>5 DEF TreeTable
<1> QED  BY <1>6 DEF TreesOf

(* So does the recursion of buildTree, once the middle that goes with a    *)
(* child is inside the span.                                               *)
Halved(K) ==
  \A v \in Spans : \A t \in Tags :
    /\ K[<<v, t>>].child \in Tags \cup {NoTag}
    /\ K[<<v, t>>].left \in Tags => v[1] < K[<<v, t>>].mid /\ K[<<v, t>>].mid < v[2]
    /\ K[<<v, t>>].right \in Tags => v[1] < K[<<v, t>>].mid /\ K[<<v, t>>].mid < v[2]
    /\ K[<<v, t>>].left \in Tags \cup {NoTag} /\ K[<<v, t>>].right \in Tags \cup {NoTag}
    /\ K[<<v, t>>].mid \in Int

Rank(x) == 2 * Size(x[1]) + (IF x[3] THEN 1 ELSE 0)

(* A call of buildTree needs only calls of lower rank: a shorter span, or  *)
(* the same one below its unary rule.                                      *)
LEMMA LowerRank ==
  ASSUME NEW K, Halved(K), NEW b, NEW f, NEW h, NEW x \in Goals,
         \A y \in Goals : Rank(y) < Rank(x) => f[y] = h[y]
  PROVE  Built(K, b, f, x) = Built(K, b, h, x)
<1>1. x[1] \in Spans /\ x[2] \in Tags /\ x[3] \in BOOLEAN
  BY DEF Goals
<1> DEFINE s == x[1]
           p == K[<<x[1], x[2]>>]
<1>2. /\ p.child \in Tags \cup {NoTag}
      /\ p.left \in Tags \cup {NoTag} /\ p.right \in Tags \cup {NoTag}
      /\ p.left \in Tags => s[1] < p.mid /\ p.mid < s[2]
      /\ p.right \in Tags => s[1] < p.mid /\ p.mid < s[2]
      /\ p.mid \in Int
  BY <1>1 DEF Halved
<1>3. s[1] \in 0..NumWords /\ s[2] \in 0..NumWords /\ NumWords \in Nat /\ Size(s) \in Nat
  BY <1>1, SpanFacts, Ends
<1>4. p.child # NoTag /\ x[3] => f[<<s, p.child, FALSE>>] = h[<<s, p.child, FALSE>>]
  <2>1. p.child # NoTag => <<s, p.child, FALSE>> \in Goals
    BY <1>1, <1>2 DEF Goals
  <2>2. x[3] => Rank(<<s, p.child, FALSE>>) < Rank(x)
    BY <1>3 DEF Rank
  <2> QED  BY <2>1, <2>2
<1>5. Sub(f, <<s[1], p.mid>>, p.left) = Sub(h, <<s[1], p.mid>>, p.left)
  <2>1. CASE p.left = NoTag
    BY <2>1 DEF Sub
  <2>2. CASE p.left # NoTag
    <3> DEFINE m == p.mid
    <3>0. p.left \in Tags /\ m \in Int /\ s[1] < m /\ m < s[2]
      BY <1>2, <2>2
    <3>1. <<<<s[1], p.mid>>, p.left, TRUE>> \in Goals /\ Size(<<s[1], p.mid>>) < Size(s)
          /\ Size(<<s[1], p.mid>>) \in Nat
      <4> HIDE DEF s, m, p
      <4>1. <<s[1], m>> \in Spans /\ Size(<<s[1], m>>) < Size(s) /\ Size(<<s[1], m>>) \in Nat
        BY <1>3, <3>0 DEF Spans, Size
      <4> QED  BY <3>0, <4>1 DEF Goals, m
    <3>2. Rank(<<<<s[1], p.mid>>, p.left, TRUE>>) < Rank(x)
      BY <1>3, <3>1 DEF Rank
    <3> QED  BY <3>1, <3>2 DEF Sub
  <2> QED  BY <2>1, <2>2
<1>6. Sub(f, <<p.mid, s[2]>>, p.right) = Sub(h, <<p.mid, s[2]>>, p.right)
  <2>1. CASE p.right = NoTag
    BY <2>1 DEF Sub
  <2>2. CASE p.right # NoTag
    <3> DEFINE m == p.mid
    <3>0. p.right \in Tags /\ m \in Int /\ s[1] < m /\ m < s[2]
      BY <1>2, <2>2
    <3>1. <<<<p.mid, s[2]>>, p.right, TRUE>> \in Goals /\ Size(<<p.mid, s[2]>>) < Size(s)
          /\ Size(<<p.mid, s[2]>>) \in Nat
      <4> HIDE DEF s, m, p
      <4>1. <<m, s[2]>> \in Spans /\ Size(<<m, s[2]>>) < Size(s) /\ Size(<<m, s[2]>>) \in Nat
        BY <1>3, <3>0 DEF Spans, Size
      <4> QED  BY <3>0, <4>1 DEF Goals, m
    <3>2. Rank(<<<<p.mid, s[2]>>, p.right, TRUE>>) < Rank(x)
      BY <1>3, <3>1 DEF Rank
    <3> QED  BY <3>1, <3>2 DEF Sub
  <2> QED  BY <2>1, <2>2
<1> QED  BY <1>4, <1>5, <1>6 DEF Built

(* So buildTree ends and its results are what its code says, whatever the  *)
(* chart.                                                                  *)
LEMMA BuildExists ==
  ASSUME NEW K, Halved(K), NEW b
  PROVE  \E f : f = BuildTable(K, b, f)
<1> DEFINE Solved(n) == \E f : /\ f = [x \in Goals |-> f[x]]
                               /\ \A x \in Goals : Rank(x) <= n => f[x] = Built(K, b, f, x)
           S == {n \in Nat : Solved(n)}
<1>1. \A x \in Goals : Rank(x) \in Nat \ {0} /\ Rank(x) <= 2 * NumWords + 1
  BY SpanFacts, Ends DEF Goals, Rank
<1>2. 0 \in S
  <2> DEFINE f == [x \in Goals |-> <<>>]
  <2>1. f = [x \in Goals |-> f[x]]
    OBVIOUS
  <2>2. \A x \in Goals : ~(Rank(x) <= 0)
    BY <1>1
  <2> HIDE DEF f
  <2>3. Solved(0)
    BY <2>1, <2>2
  <2> QED  BY <2>3
<1>3. ASSUME NEW n \in Nat, n \in S PROVE n + 1 \in S
  <2>1. PICK f : /\ f = [x \in Goals |-> f[x]]
                 /\ \A x \in Goals : Rank(x) <= n => f[x] = Built(K, b, f, x)
    BY <1>3
  <2> DEFINE h == [x \in Goals |-> IF Rank(x) <= n THEN f[x] ELSE Built(K, b, f, x)]
  <2>2. h = [x \in Goals |-> h[x]]
    OBVIOUS
  <2>3. ASSUME NEW x \in Goals, Rank(x) <= n + 1 PROVE h[x] = Built(K, b, h, x)
    <3>1. h[x] = Built(K, b, f, x)
      BY <2>1
    <3>2. \A y \in Goals : Rank(y) < Rank(x) => f[y] = h[y]
      BY <1>1, <2>3
    <3> HIDE DEF h
    <3> QED  BY <3>1, <3>2, LowerRank
  <2>4. Solved(n + 1)
    <3> HIDE DEF h
    <3> QED  BY <2>2, <2>3
  <2> HIDE DEF Solved
  <2> QED  BY <2>4
<1>4. 2 * NumWords + 1 \in S
  <2> HIDE DEF S
  <2> QED  BY <1>2, <1>3, SetInduction, Ends
<1>5. PICK f : f = [x \in Goals |-> f[x]] /\ \A x \in Goals : f[x] = Built(K, b, f, x)
  BY <1>1, <1>4
<1> QED  BY <1>5 DEF BuildTable

-----------------------------------------------------------------------------
(* What the types of the variables give the steps.                         *)
Pointers == [left : Tags \cup {NoTag}, right : Tags \cup {NoTag},
             mid : -1..NumWords, child : Tags \cup {NoTag}]

(* What the types of the variables say of the current span.                *)
LEMMA Typed ==
  ASSUME TypeOK
  PROVE  /\ gains \in GainTables /\ span \in Spans /\ Size(span) \in 1..NumWords
         /\ best \in [Cells -> Int] /\ after \in [Tags -> Int] /\ back \in [Cells -> Pointers]
         /\ \A t \in Tags : Cell(t) \in Cells /\ best[Cell(t)] \in Int /\ after[t] \in Int
         /\ NegInfty \in Int /\ NumWords \in Nat \ {0}
<1>1. gains \in GainTables /\ span \in Spans
  BY DEF TypeOK
<1>2. best \in [Cells -> Int] /\ after \in [Tags -> Int] /\ back \in [Cells -> Pointers]
  BY DEF TypeOK, Pointers
<1>3. \A t \in Tags : Cell(t) \in Cells
  BY <1>1 DEF Cell, Cells
<1>4. \A t \in Tags : Cell(t) \in Cells /\ best[Cell(t)] \in Int /\ after[t] \in Int
  BY <1>2, <1>3
<1> QED  BY <1>1, <1>2, <1>4, SpanFacts, SentenceAssumption

WithParts(K, c, l, r, m) == [K EXCEPT ![c].left = l, ![c].right = r, ![c].mid = m]

(* What writing left, right and mid of one cell changes.                   *)
LEMMA WriteParts ==
  ASSUME NEW K \in [Cells -> Pointers], NEW c \in Cells, NEW l \in Tags, NEW r \in Tags, NEW m \in 1..NumWords,
         NEW K2, K2 = WithParts(K, c, l, r, m)
  PROVE  /\ K2 \in [Cells -> Pointers]
         /\ \A d \in Cells : d # c => K2[d] = K[d]
         /\ K2[c].left = l /\ K2[c].right = r /\ K2[c].mid = m /\ K2[c].child = K[c].child
<1>1. m \in -1..NumWords
  BY Ends
<1>2. K[c] \in Pointers
  OBVIOUS
<1> DEFINE K3 == [K EXCEPT ![c].left = l]
           K4 == [K3 EXCEPT ![c].right = r]
<1>3. /\ K3 \in [Cells -> Pointers] /\ \A d \in Cells : d # c => K3[d] = K[d]
      /\ K3[c].left = l /\ K3[c].child = K[c].child
  BY <1>2 DEF Pointers
<1>4. K3[c] \in Pointers
  BY <1>3
<1> HIDE DEF K3
<1>5. /\ K4 \in [Cells -> Pointers] /\ \A d \in Cells : d # c => K4[d] = K3[d]
      /\ K4[c].left = K3[c].left /\ K4[c].right = r /\ K4[c].child = K3[c].child
  BY <1>3, <1>4 DEF Pointers
<1>6. K4[c] \in Pointers
  BY <1>5
<1>7. K2 = [K4 EXCEPT ![c].mid = m]
  BY DEF K3, WithParts
<1> HIDE DEF K4
<1>8. /\ K2 \in [Cells -> Pointers] /\ \A d \in Cells : d # c => K2[d] = K4[d]
      /\ K2[c].left = K4[c].left /\ K2[c].right = K4[c].right /\ K2[c].mid = m /\ K2[c].child = K4[c].child
  <2>1. K4 \in [Cells -> Pointers]
    BY <1>5
  <2>2. K2 = [K4 EXCEPT ![c] = [K4[c] EXCEPT !.mid = m]]
    BY <1>7
  <2>3. [K4[c] EXCEPT !.mid = m] \in Pointers
    BY <1>1, <1>6 DEF Pointers
  <2> DEFINE p == [K4[c] EXCEPT !.mid = m]
  <2>4. p.left = K4[c].left /\ p.right = K4[c].right /\ p.mid = m /\ p.child = K4[c].child
    BY <1>6 DEF Pointers
  <2> HIDE DEF p
  <2> QED  BY <2>1, <2>2, <2>3, <2>4 DEF p
<1> QED  BY <1>3, <1>5, <1>8

WithChild(K, c, y) == [K EXCEPT ![c].child = y]

(* What writing the child of one cell changes.                             *)
LEMMA WriteChild ==
  ASSUME NEW K \in [Cells -> Pointers], NEW c \in Cells, NEW y \in Tags,
         NEW K2, K2 = WithChild(K, c, y)
  PROVE  /\ K2 \in [Cells -> Pointers]
         /\ \A d \in Cells : d # c => K2[d] = K[d]
         /\ K2[c].left = K[c].left /\ K2[c].right = K[c].right /\ K2[c].mid = K[c].mid /\ K2[c].child = y
<1>1. NumWords \in Nat
  BY Ends
<1>2. K[c] \in Pointers
  OBVIOUS
<1> QED  BY <1>1, <1>2 DEF Pointers, WithChild

(* An improvement has a score, and without gains above 0 everything else   *)
(* that could have one is not skipped for nothing.                         *)
LEMMA Improved ==
  ASSUME NEW base \in Int, NEW gain \in Int, NEW old \in Int, old >= NegInfty, Improves(base, gain, old)
  PROVE  base # NegInfty /\ base + gain > old /\ base + gain # NegInfty
BY SentenceAssumption DEF Improves, Plus

(* With gains of at most 0 a candidate that is skipped would not have      *)
(* improved the cell.                                                      *)
LEMMA NotImproved ==
  ASSUME NEW base \in Int, NEW gain \in Int, NEW old \in Int, base # NegInfty, gain > NegInfty, gain <= 0,
         ~Improves(base, gain, old)
  PROVE  base + gain <= old
BY SentenceAssumption DEF Improves, Plus

(* No gain is as low as the mark for no score.                             *)
LEMMA GainsScored ==
  ASSUME NEW G \in GainTables
  PROVE  /\ \A u \in DOMAIN G.bin : G.bin[u] > NegInfty
         /\ \A u \in DOMAIN G.una : G.una[u] > NegInfty
         /\ \A u \in DOMAIN G.lex : G.lex[u] > NegInfty
<1>1. 1 \in Int /\ 1 <= 4 * NumWords
  BY Ends
<1>2. \A u \in DOMAIN G.bin : G.bin[u] \in Int /\ Within(G.bin[u], 1)
  BY BinaryFacts
<1>3. \A u \in DOMAIN G.una : G.una[u] \in Int /\ Within(G.una[u], 1)
  BY UnaryFacts
<1>4. \A u \in DOMAIN G.lex : G.lex[u] \in Int /\ Within(G.lex[u], 1)
  BY WordFacts
<1> QED  BY <1>1, <1>2, <1>3, <1>4, WithinScored

(* The parts of a binary rule of the current span have their final scores. *)
LEMMA PartsScored ==
  ASSUME TypeOK, FinishedRight, pc \notin {"tree", "done"},
         NEW u \in DOMAIN gains.bin, u[1] = span, Ready(best, u)
  PROVE  /\ best[LeftOf(u)] \in Int /\ best[RightOf(u)] \in Int
         /\ best[LeftOf(u)] + best[RightOf(u)] > NegInfty
         /\ Combined(gains, best, u) \in Int
         /\ Within(Combined(gains, best, u), 4 * Size(span) - 3)
<1>1. gains \in GainTables /\ span \in Spans /\ best \in [Cells -> Int] /\ NumWords \in Nat \ {0}
  BY Typed
<1> DEFINE a == <<span[1], u[5]>>
           b == <<u[5], span[2]>>
<1>2. /\ gains.bin[u] \in Int /\ Within(gains.bin[u], 1) /\ u[3] \in Tags /\ u[4] \in Tags
      /\ a \in Spans /\ b \in Spans /\ Size(a) + Size(b) = Size(span)
      /\ LeftOf(u) \in Cells /\ RightOf(u) \in Cells
  BY <1>1, BinaryFacts
<1>3. LeftOf(u) = <<a, u[3]>> /\ RightOf(u) = <<b, u[4]>>
  BY DEF LeftOf, RightOf
<1> HIDE DEF a, b
<1>4. Size(a) \in 1..NumWords /\ Size(b) \in 1..NumWords /\ Size(span) \in 1..NumWords
  BY <1>1, <1>2, SpanFacts
<1>5. a \in Finished(pc, span) /\ b \in Finished(pc, span)
  BY <1>1, <1>2, <1>4 DEF Finished, Before
<1>6. Within(best[LeftOf(u)], 4 * Size(a) - 2) /\ Within(best[RightOf(u)], 4 * Size(b) - 2)
  BY <1>2, <1>3, <1>5 DEF FinishedRight, Sound, Ready
<1>7. best[LeftOf(u)] \in Int /\ best[RightOf(u)] \in Int
  BY <1>1, <1>2
<1> DEFINE x == best[LeftOf(u)]
           y == best[RightOf(u)]
           i == 4 * Size(a) - 2
           j == 4 * Size(b) - 2
<1>8. i \in Int /\ j \in Int /\ i + j <= 4 * NumWords /\ 1 + (i + j) = 4 * Size(span) - 3
  BY <1>1, <1>2, <1>4
<1>9. Within(x + y, i + j)
  <2> HIDE DEF x, y, i, j
  <2> QED  BY <1>6, <1>7, <1>8, WithinSum DEF x, y, i, j
<1>10. Within(gains.bin[u] + (x + y), 1 + (i + j))
  <2> HIDE DEF x, y, i, j
  <2>1. x + y \in Int /\ i + j \in Int
    BY <1>7, <1>8 DEF x, y
  <2> QED  BY <1>2, <1>9, <2>1, WithinSum
<1>11. x + y > NegInfty
  <2> HIDE DEF x, y, i, j
  <2>1. x + y \in Int /\ i + j \in Int
    BY <1>7, <1>8 DEF x, y
  <2> QED  BY <1>8, <1>9, <2>1, WithinScored
<1>12. Combined(gains, best, u) = gains.bin[u] + (x + y)
  BY <1>2, <1>7 DEF Combined
<1>13. Combined(gains, best, u) \in Int
  BY <1>2, <1>7, <1>12
<1> QED  BY <1>7, <1>8, <1>10, <1>11, <1>12, <1>13

(* So a word or binary rule that offers a score offers more than none.     *)
LEMMA OfferedScored ==
  ASSUME TypeOK, FinishedRight, pc \notin {"tree", "done"},
         NEW t, NEW x, Offered(gains, best, span, t, x)
  PROVE  x > NegInfty /\ x \in Int
<1>1. gains \in GainTables /\ Size(span) \in 1..NumWords /\ NumWords \in Nat
  BY Typed
<1>2. CASE <<span, t>> \in DOMAIN gains.lex /\ x = gains.lex[<<span, t>>]
  BY <1>1, <1>2, GainsScored, WordFacts
<1>3. ASSUME NEW u \in DOMAIN gains.bin, u[1] = span, Ready(best, u), x = Combined(gains, best, u)
      PROVE  x > NegInfty /\ x \in Int
  <2>1. x \in Int /\ Within(x, 4 * Size(span) - 3)
    BY <1>3, PartsScored
  <2>2. 4 * Size(span) - 3 \in Int /\ 4 * Size(span) - 3 <= 4 * NumWords
    BY <1>1
  <2> QED  BY <2>1, <2>2, WithinScored
<1> QED  BY <1>2, <1>3 DEF Offered

-----------------------------------------------------------------------------
Chart == Floors /\ Halved(back) /\ FinishedRight /\ BinaryRight /\ WordRight /\ UnaryRight

(* Clearing the cells of a span keeps the chart right.                     *)
LEMMA InitCellsRight ==
  ASSUME TypeOK, Chart, InitCells
  PROVE  TypeOK' /\ Chart'
<1>1. /\ gains \in GainTables /\ span \in Spans /\ Size(span) \in 1..NumWords
      /\ best \in [Cells -> Int] /\ back \in [Cells -> Pointers] /\ NegInfty \in Int /\ NumWords \in Nat
      /\ \A t \in Tags : Cell(t) \in Cells
  BY Typed
<1>2. /\ pc = "init" /\ gains' = gains /\ binarize' = binarize /\ span' = span
      /\ after' = after /\ parse' = parse
      /\ best' = [c \in Cells |-> IF c[1] = span THEN NegInfty ELSE best[c]]
      /\ back' = [c \in Cells |-> IF c[1] = span THEN NoBack ELSE back[c]]
      /\ pending' = {u \in DOMAIN gains.bin : u[1] = span}
      /\ pc' = IF Size(span) > 1 THEN "binary" ELSE "word"
  BY DEF InitCells, Size
<1>3. NoBack \in Pointers /\ NoBack.child = NoTag /\ NoBack.left = NoTag /\ NoBack.right = NoTag
      /\ NoBack.mid \in Int
  BY <1>1 DEF NoBack, Pointers
<1>4. best' \in [Cells -> Int] /\ back' \in [Cells -> Pointers]
  BY <1>1, <1>2, <1>3
<1>5. TypeOK'
  BY <1>2, <1>4 DEF TypeOK, Pointers
<1>6. \A t \in Tags : best'[<<span, t>>] = NegInfty /\ back'[<<span, t>>] = NoBack
  BY <1>1, <1>2 DEF Cell
<1>7. FinishedRight'
  <2>1. Agree(best, best', span) /\ Agree(back, back', span)
    BY <1>2 DEF Agree
  <2> QED  BY <1>2, <2>1, FinishedKept DEF Chart
<1>8. Floors'
  BY <1>1, <1>2 DEF Chart, Floors
<1>9. Halved(back')
  <2> SUFFICES ASSUME NEW v \in Spans, NEW t \in Tags
               PROVE  /\ back'[<<v, t>>].child \in Tags \cup {NoTag}
                      /\ back'[<<v, t>>].left \in Tags => v[1] < back'[<<v, t>>].mid /\ back'[<<v, t>>].mid < v[2]
                      /\ back'[<<v, t>>].right \in Tags => v[1] < back'[<<v, t>>].mid /\ back'[<<v, t>>].mid < v[2]
                      /\ back'[<<v, t>>].left \in Tags \cup {NoTag} /\ back'[<<v, t>>].right \in Tags \cup {NoTag}
                      /\ back'[<<v, t>>].mid \in Int
    BY DEF Halved
  <2>1. CASE v = span
    BY <1>3, <1>6, <2>1, SentenceAssumption
  <2>2. CASE v # span
    <3>1. back'[<<v, t>>] = back[<<v, t>>]
      BY <1>2, <2>2 DEF Cells
    <3> QED  BY <3>1 DEF Chart, Halved
  <2> QED  BY <2>1, <2>2
<1>10. BinaryRight'
  <2> SUFFICES ASSUME pc' = "binary" PROVE BinaryRight'
    BY DEF BinaryRight
  <2>1. Size(span) > 1
    BY <1>1, <1>2
  <2>2. \A t \in Tags : BaseSound(t)' /\ back'[Cell(t)'].child = NoTag
    BY <1>2, <1>3, <1>6 DEF BaseSound, Cell
  <2> QED  BY <1>2, <2>1, <2>2 DEF BinaryRight
<1>11. WordRight'
  <2>1. pc' = "word" => Size(span) = 1
    BY <1>1, <1>2
  <2> QED  BY <1>2, <1>3, <1>6, <2>1 DEF WordRight, Cell
<1>12. UnaryRight'
  BY <1>2 DEF UnaryRight
<1> QED  BY <1>5, <1>7, <1>8, <1>9, <1>10, <1>11, <1>12 DEF Chart

(* So does a candidate of the binary loop, taken or not.                   *)
LEMMA TryBinaryRight ==
  ASSUME TypeOK, Chart, TryBinary
  PROVE  TypeOK' /\ Chart'
<1>1. /\ gains \in GainTables /\ span \in Spans /\ Size(span) \in 1..NumWords
      /\ best \in [Cells -> Int] /\ back \in [Cells -> Pointers] /\ NegInfty \in Int /\ NumWords \in Nat
      /\ \A t \in Tags : Cell(t) \in Cells
  BY Typed
<1>2. /\ pc = "binary" /\ pc' = pc /\ gains' = gains /\ binarize' = binarize /\ span' = span
      /\ after' = after /\ parse' = parse
  BY DEF TryBinary
<1>3. /\ Size(span) > 1 /\ pending \subseteq {u \in DOMAIN gains.bin : u[1] = span}
      /\ \A t \in Tags : BaseSound(t) /\ back[Cell(t)].child = NoTag
      /\ Gainless(gains) =>
           \A u \in DOMAIN gains.bin : u[1] = span /\ u \notin pending /\ Ready(best, u) =>
             Combined(gains, best, u) <= best[Cell(u[2])]
  BY <1>2, SMTT(60) DEF Chart, BinaryRight
<1>4. PICK u \in pending :
        LET base == Plus(best[LeftOf(u)], best[RightOf(u)])
            c == Cell(u[2])
        IN  /\ pending' = pending \ {u}
            /\ IF Improves(base, gains.bin[u], best[c])
                 THEN /\ best' = [best EXCEPT ![c] = base + gains.bin[u]]
                      /\ back' = [back EXCEPT ![c].left = u[3], ![c].right = u[4], ![c].mid = u[5]]
                 ELSE UNCHANGED <<best, back>>
  <2>1. PICK u \in Turn :
       LET base == Plus(best[<<<<span[1], u[5]>>, u[3]>>], best[<<<<u[5], span[2]>>, u[4]>>])
           c == Cell(u[2])
       IN  /\ pending' = pending \ {u}
           /\ IF Improves(base, gains.bin[u], best[c])
                THEN /\ best' = [best EXCEPT ![c] = base + gains.bin[u]]
                     /\ back' = [back EXCEPT ![c].left = u[3], ![c].right = u[4], ![c].mid = u[5]]
                ELSE UNCHANGED <<best, back>>
    BY DEF TryBinary
  <2>2. u \in pending /\ u[1] = span
    BY <1>3 DEF Turn
  <2>3. LeftOf(u) = <<<<span[1], u[5]>>, u[3]>> /\ RightOf(u) = <<<<u[5], span[2]>>, u[4]>>
    BY <2>2 DEF LeftOf, RightOf
  <2> QED  BY <2>1, <2>2, <2>3
<1>5. u \in DOMAIN gains.bin /\ u[1] = span
  BY <1>3
<1>6. /\ u = <<span, u[2], u[3], u[4], u[5]>> /\ gains.bin[u] \in Int
      /\ u[2] \in Tags /\ u[3] \in Tags /\ u[4] \in Tags /\ u[5] \in 1..NumWords
      /\ span[1] < u[5] /\ u[5] < span[2] /\ LeftOf(u) \in Cells /\ RightOf(u) \in Cells
  <2>1. u[5] \in 1..NumWords
    BY <1>1, <1>5, GainAssumption
  <2> QED  BY <1>1, <1>5, <2>1, BinaryFacts
<1> DEFINE c == Cell(u[2])
           base == Plus(best[LeftOf(u)], best[RightOf(u)])
<1>7. c \in Cells /\ c[1] = span /\ best[c] \in Int /\ best[c] >= NegInfty
  BY <1>1, <1>6 DEF Chart, Floors, Cell
<1>8. best[LeftOf(u)] \in Int /\ best[RightOf(u)] \in Int /\ base \in Int
  BY <1>1, <1>6 DEF Plus
<1>9. pending' = pending \ {u}
  BY <1>4
<1>10. CASE ~Improves(base, gains.bin[u], best[c])
  <2>1. best' = best /\ back' = back
    BY <1>4, <1>10
  <2>2. TypeOK'
    BY <1>2, <1>9, <2>1 DEF TypeOK
  <2>3. Floors' /\ Halved(back')
    BY <1>2, <2>1 DEF Chart, Floors
  <2>4. FinishedRight'
    BY <1>2, <2>1, FinishedKept DEF Chart, Agree
  <2>5. BinaryRight'
    <3>1. \A t \in Tags : BaseSound(t)' /\ back'[Cell(t)'].child = NoTag
      BY <1>2, <1>3, <2>1 DEF BaseSound, Cell
    <3>2. ASSUME Gainless(gains), NEW v \in DOMAIN gains.bin, v[1] = span, v \notin pending', Ready(best, v)
          PROVE  Combined(gains, best, v) <= best[Cell(v[2])]
      <4>1. CASE v # u
        BY <1>3, <1>9, <3>2, <4>1
      <4>2. CASE v = u
        <5>1. /\ best[LeftOf(u)] + best[RightOf(u)] > NegInfty
              /\ best[LeftOf(u)] # NegInfty /\ best[RightOf(u)] # NegInfty
          BY <1>2, <1>5, <3>2, <4>2, PartsScored DEF Chart, Ready
        <5>2. base = best[LeftOf(u)] + best[RightOf(u)] /\ base # NegInfty
          BY <1>1, <1>8, <5>1 DEF Plus
        <5>3. gains.bin[u] > NegInfty /\ gains.bin[u] <= 0
          BY <1>1, <1>5, <3>2, GainsScored DEF Gainless
        <5>4. base + gains.bin[u] <= best[c]
          BY <1>6, <1>7, <1>8, <1>10, <5>2, <5>3, NotImproved
        <5>5. Combined(gains, best, u) = base + gains.bin[u]
          BY <1>6, <1>8, <5>2 DEF Combined
        <5> QED  BY <4>2, <5>4, <5>5
      <4> QED  BY <4>1, <4>2
    <3> QED  BY <1>2, <1>3, <1>9, <2>1, <3>1, <3>2 DEF BinaryRight, Cell
  <2>6. WordRight' /\ UnaryRight'
    BY <1>2 DEF WordRight, UnaryRight
  <2> QED  BY <2>2, <2>3, <2>4, <2>5, <2>6 DEF Chart
<1>11. CASE Improves(base, gains.bin[u], best[c])
  <2> DEFINE x == base + gains.bin[u]
  <2>1. best' = [best EXCEPT ![c] = x]
    BY <1>4, <1>11
  <2>2. back' = [back EXCEPT ![c].left = u[3], ![c].right = u[4], ![c].mid = u[5]]
    BY <1>4, <1>11
  <2>3. base # NegInfty /\ x > best[c] /\ x # NegInfty /\ x \in Int
    BY <1>6, <1>7, <1>8, <1>11, Improved
  <2>4. Ready(best, u) /\ base = best[LeftOf(u)] + best[RightOf(u)]
    BY <2>3 DEF Plus, Ready
  <2>5. x = Combined(gains, best, u)
    BY <1>6, <1>8, <2>4 DEF Combined
  <2> HIDE DEF x, base, c
  <2>6. best' \in [Cells -> Int] /\ best'[c] = x /\ \A d \in Cells : d # c => best'[d] = best[d]
    BY <1>1, <1>7, <2>1, <2>3
  <2>7. /\ back' \in [Cells -> Pointers] /\ \A d \in Cells : d # c => back'[d] = back[d]
        /\ back'[c].left = u[3] /\ back'[c].right = u[4] /\ back'[c].mid = u[5]
        /\ back'[c].child = back[c].child
    <3>1. back' = WithParts(back, c, u[3], u[4], u[5])
      BY <2>2 DEF WithParts
    <3> QED  BY <1>1, <1>6, <1>7, <3>1, WriteParts
  <2>8. Agree(best, best', span) /\ Agree(back, back', span)
    BY <1>7, <2>6, <2>7 DEF Agree
  <2>9. TypeOK'
    BY <1>2, <1>9, <2>6, <2>7 DEF TypeOK, Pointers
  <2>10. FinishedRight'
    BY <1>2, <2>8, FinishedKept DEF Chart
  <2>11. Floors'
    <3>1. \A d \in Cells : best'[d] >= NegInfty
      BY <1>1, <1>7, <2>3, <2>6 DEF Chart, Floors
    <3> QED  BY <1>2, <3>1 DEF Chart, Floors
  <2>12. Halved(back')
    <3> SUFFICES ASSUME NEW v \in Spans, NEW t \in Tags
                 PROVE  /\ back'[<<v, t>>].child \in Tags \cup {NoTag}
                        /\ back'[<<v, t>>].left \in Tags => v[1] < back'[<<v, t>>].mid /\ back'[<<v, t>>].mid < v[2]
                        /\ back'[<<v, t>>].right \in Tags => v[1] < back'[<<v, t>>].mid /\ back'[<<v, t>>].mid < v[2]
                        /\ back'[<<v, t>>].left \in Tags \cup {NoTag} /\ back'[<<v, t>>].right \in Tags \cup {NoTag}
                        /\ back'[<<v, t>>].mid \in Int
      BY DEF Halved
    <3>1. CASE <<v, t>> = c
      <4>1. v = span /\ back[c].child \in Tags \cup {NoTag}
        BY <3>1, <1>1, <1>7 DEF Cell, c, Pointers
      <4> QED  BY <1>6, <2>7, <3>1, <4>1
    <3>2. CASE <<v, t>> # c
      <4>1. back'[<<v, t>>] = back[<<v, t>>]
        BY <2>7, <3>2 DEF Cells
      <4> QED  BY <4>1 DEF Chart, Halved
    <3> QED  BY <3>1, <3>2
  <2>13. BinaryRight'
    <3>1. ASSUME NEW t \in Tags PROVE BaseSound(t)' /\ back'[Cell(t)'].child = NoTag
      <4>1. Cell(t)' = Cell(t) /\ Cell(t) \in Cells /\ back[Cell(t)].child = NoTag
        BY <1>1, <1>2, <1>3 DEF Cell
      <4>2. CASE t = u[2]
        <5>1. Cell(t) = c
          BY <4>2 DEF c
        <5>2. Within(x, 4 * Size(span) - 3)
          BY <1>2, <1>5, <2>4, <2>5, PartsScored DEF Chart
        <5>3. Pointed(back', span, t) = u
          BY <1>6, <2>7, <4>2, <5>1 DEF Pointed, Cell
        <5>4. Ready(best', u) /\ x = Combined(gains, best', u)
          BY <1>1, <1>5, <2>4, <2>5, <2>8, PartsElsewhere
        <5>5. Derived(gains, best', back', span, t, x)
          BY <1>1, <1>3, <1>5, <5>3, <5>4 DEF Derived
        <5> QED  BY <1>2, <2>6, <2>7, <4>1, <5>1, <5>2, <5>5 DEF BaseSound
      <4>3. CASE t # u[2]
        <5>1. Cell(t) # c
          BY <4>3 DEF c, Cell
        <5>2. best'[Cell(t)] = best[Cell(t)] /\ back'[Cell(t)] = back[Cell(t)]
          BY <2>6, <2>7, <4>1, <5>1
        <5>3. Pointed(back', span, t) = Pointed(back, span, t)
          BY <5>2 DEF Pointed, Cell
        <5>4. \A y : Derived(gains, best', back', span, t, y) <=> Derived(gains, best, back, span, t, y)
          BY <1>1, <2>8, <5>3, DerivedElsewhere
        <5> QED  BY <1>2, <1>3, <4>1, <5>2, <5>4 DEF BaseSound
      <4> QED  BY <4>2, <4>3
    <3>2. ASSUME Gainless(gains), NEW v \in DOMAIN gains.bin, v[1] = span, v \notin pending', Ready(best', v)
          PROVE  Combined(gains, best', v) <= best'[Cell(v[2])]
      <4>1. Ready(best, v) /\ Combined(gains, best', v) = Combined(gains, best, v)
        BY <1>1, <2>8, <3>2, PartsElsewhere
      <4>2. Cell(v[2]) \in Cells /\ Combined(gains, best, v) \in Int
        BY <1>1, <1>2, <3>2, <4>1, BinaryFacts, PartsScored DEF Chart
      <4>3. CASE v # u
        <5>1. Combined(gains, best, v) <= best[Cell(v[2])]
          BY <1>3, <1>9, <3>2, <4>1, <4>3
        <5>2. best[Cell(v[2])] <= best'[Cell(v[2])]
          BY <1>1, <1>7, <2>3, <2>6, <4>2
        <5> QED  BY <1>1, <2>6, <4>1, <4>2, <5>1, <5>2
      <4>4. CASE v = u
        BY <2>3, <2>5, <2>6, <4>1, <4>4 DEF c
      <4> QED  BY <4>3, <4>4
    <3> QED  BY <1>2, <1>3, <1>9, <3>1, <3>2 DEF BinaryRight, Cell
  <2>14. WordRight' /\ UnaryRight'
    BY <1>2 DEF WordRight, UnaryRight
  <2> QED  BY <2>9, <2>10, <2>11, <2>12, <2>13, <2>14 DEF Chart
<1> QED  BY <1>10, <1>11

(* Words and binary rules of the span are all tried: the unary rules start.*)
LEMMA UnaryStarts ==
  ASSUME TypeOK, Chart, StartUnary, UNCHANGED <<gains, binarize, span, parse>>,
         best' \in [Cells -> Int], back' \in [Cells -> Pointers], Halved(back'),
         Agree(best, best', span), Agree(back, back', span), \A c \in Cells : best'[c] >= NegInfty,
         pc \notin {"tree", "done"},
         \A t \in Tags : /\ back'[<<span, t>>].child = NoTag
                         /\ best'[<<span, t>>] # NegInfty =>
                              /\ Within(best'[<<span, t>>], 4 * Size(span) - 3)
                              /\ Derived(gains, best', back', span, t, best'[<<span, t>>])
                         /\ Gainless(gains) =>
                              \A x \in Int : Offered(gains, best', span, t, x) => x <= best'[<<span, t>>]
  PROVE  TypeOK' /\ Chart'
<1>1. /\ gains \in GainTables /\ span \in Spans /\ Size(span) \in 1..NumWords
      /\ NegInfty \in Int /\ NumWords \in Nat /\ \A t \in Tags : <<span, t>> \in Cells
  BY Typed DEF Cell
<1>2. /\ after' = [t \in Tags |-> best'[<<span, t>>]]
      /\ pending' = {u \in DOMAIN gains.una : u[1] = span} /\ pc' = "unary"
  BY DEF StartUnary, Cell
<1>3. after' \in [Tags -> Int]
  BY <1>1, <1>2
<1>4. TypeOK'
  BY <1>2, <1>3 DEF TypeOK, Pointers
<1>5. FinishedRight'
  BY <1>2, FinishedKept DEF Chart
<1>6. Floors'
  BY <1>1, <1>2 DEF Floors
<1>7. UnaryRight'
  <2>1. ASSUME NEW t \in Tags PROVE BaseSound(t)' /\ AfterSound(t)' /\ best'[<<span', t>>] <= after'[t]
    <3>1. after'[t] = best'[<<span, t>>] /\ best'[<<span, t>>] \in Int
      BY <1>1, <1>2
    <3>2. BaseSound(t)'
      BY DEF BaseSound, Cell
    <3>3. best'[<<span, t>>] # NegInfty => Within(best'[<<span, t>>], 4 * Size(span) - 2)
      <4> SUFFICES ASSUME best'[<<span, t>>] # NegInfty PROVE Within(best'[<<span, t>>], 4 * Size(span) - 2)
        OBVIOUS
      <4>1. Within(best'[<<span, t>>], 4 * Size(span) - 3)
        OBVIOUS
      <4>2. 4 * Size(span) - 3 \in Int /\ 4 * Size(span) - 2 \in Int /\ 4 * Size(span) - 3 <= 4 * Size(span) - 2
        BY <1>1
      <4> QED  BY <3>1, <4>1, <4>2, WithinMore
    <3>4. AfterSound(t)'
      BY <3>1, <3>3 DEF AfterSound, Cell
    <3> QED  BY <3>1, <3>2, <3>4
  <2> QED  BY <1>2, <2>1 DEF UnaryRight, Cell
<1>8. BinaryRight' /\ WordRight'
  BY <1>2 DEF BinaryRight, WordRight
<1> QED  BY <1>4, <1>5, <1>6, <1>7, <1>8 DEF Chart

(* So does the copy of the scores before the unary rules.                  *)
LEMMA EndBinaryRight ==
  ASSUME TypeOK, Chart, EndBinary
  PROVE  TypeOK' /\ Chart'
<1>1. /\ gains \in GainTables /\ span \in Spans
      /\ best \in [Cells -> Int] /\ back \in [Cells -> Pointers]
  BY Typed
<1>2. /\ pc = "binary" /\ pending = {} /\ StartUnary /\ UNCHANGED <<gains, binarize, span, parse>>
      /\ best' = best /\ back' = back
  BY DEF EndBinary
<1>3. /\ Size(span) > 1
      /\ \A t \in Tags : BaseSound(t) /\ back[Cell(t)].child = NoTag
      /\ Gainless(gains) =>
           \A u \in DOMAIN gains.bin : u[1] = span /\ Ready(best, u) =>
             Combined(gains, best, u) <= best[Cell(u[2])]
  BY <1>2 DEF Chart, BinaryRight
<1>4. ASSUME NEW t \in Tags
      PROVE  /\ back[<<span, t>>].child = NoTag
             /\ best[<<span, t>>] # NegInfty =>
                  /\ Within(best[<<span, t>>], 4 * Size(span) - 3)
                  /\ Derived(gains, best, back, span, t, best[<<span, t>>])
             /\ Gainless(gains) =>
                  \A x \in Int : Offered(gains, best, span, t, x) => x <= best[<<span, t>>]
  <2>1. \A u \in DOMAIN gains.lex : Size(u[1]) = 1
    BY <1>1, WordFacts
  <2>2. <<span, t>> \notin DOMAIN gains.lex
    BY <1>3, <2>1, <1>1, SpanFacts
  <2>3. Gainless(gains) =>
          \A x \in Int : Offered(gains, best, span, t, x) => x <= best[<<span, t>>]
    BY <1>3, <2>2 DEF Offered, Cell
  <2> QED  BY <1>3, <2>3 DEF BaseSound, Cell
<1>5. Agree(best, best', span) /\ Agree(back, back', span)
  BY <1>2 DEF Agree
<1>6. Halved(back) /\ \A c \in Cells : best[c] >= NegInfty
  BY DEF Chart, Floors
<1> QED  BY <1>1, <1>2, <1>4, <1>5, <1>6, UnaryStarts

(* So do the words.                                                        *)
LEMMA SetWordRight ==
  ASSUME TypeOK, Chart, SetWord
  PROVE  TypeOK' /\ Chart'
<1>1. /\ gains \in GainTables /\ span \in Spans /\ Size(span) \in 1..NumWords
      /\ best \in [Cells -> Int] /\ back \in [Cells -> Pointers] /\ NegInfty \in Int /\ NumWords \in Nat
      /\ \A t \in Tags : <<span, t>> \in Cells
  BY Typed DEF Cell
<1>2. /\ pc = "word" /\ gains' = gains /\ binarize' = binarize /\ back' = back /\ parse' = parse
      /\ best' = [c \in Cells |-> IF c \in DOMAIN gains.lex /\ c[1] = span THEN gains.lex[c] ELSE best[c]]
      /\ \/ /\ \A t \in Tags : Cell(t) \notin DOMAIN gains.lex
            /\ Advance /\ UNCHANGED <<after, pending>>
         \/ StartUnary /\ span' = span
  BY DEF SetWord
<1>3. Size(span) = 1 /\ \A t \in Tags : best[<<span, t>>] = NegInfty /\ back[<<span, t>>].child = NoTag
  BY <1>2 DEF Chart, WordRight, Cell
<1>4. \A u \in DOMAIN gains.lex : gains.lex[u] \in Int /\ Within(gains.lex[u], 1) /\ gains.lex[u] > NegInfty
  BY <1>1, WordFacts, GainsScored
<1>5. best' \in [Cells -> Int] /\ \A c \in Cells : best'[c] >= NegInfty
  BY <1>1, <1>2, <1>4 DEF Chart, Floors
<1>6. Agree(best, best', span) /\ Agree(back, back', span)
  BY <1>2 DEF Agree
<1>7. \A u \in DOMAIN gains.bin : u[1] # span
  <2>1. \A u \in DOMAIN gains.bin : Size(u[1]) > 1
    BY <1>1, BinaryFacts
  <2> QED  BY <1>3, <2>1
<1>8. ASSUME NEW t \in Tags
      PROVE  /\ back'[<<span, t>>].child = NoTag
             /\ best'[<<span, t>>] # NegInfty =>
                  /\ <<span, t>> \in DOMAIN gains.lex
                  /\ Within(best'[<<span, t>>], 4 * Size(span) - 3)
                  /\ Derived(gains, best', back', span, t, best'[<<span, t>>])
             /\ \A x \in Int : Offered(gains, best', span, t, x) =>
                  <<span, t>> \in DOMAIN gains.lex /\ x <= best'[<<span, t>>]
  <2>1. best'[<<span, t>>] = IF <<span, t>> \in DOMAIN gains.lex THEN gains.lex[<<span, t>>] ELSE NegInfty
    BY <1>1, <1>2, <1>3
  <2>2. \A x \in Int : Offered(gains, best', span, t, x) =>
          <<span, t>> \in DOMAIN gains.lex /\ x <= best'[<<span, t>>]
    BY <1>7, <2>1 DEF Offered
  <2>3. 4 * Size(span) - 3 = 1
    BY <1>3
  <2> QED  BY <1>2, <1>3, <1>4, <2>1, <2>2, <2>3 DEF Derived
<1>9. CASE StartUnary /\ span' = span
  BY <1>1, <1>2, <1>5, <1>6, <1>8, <1>9, UnaryStarts DEF Chart
<1>10. CASE /\ \A t \in Tags : Cell(t) \notin DOMAIN gains.lex
            /\ Advance /\ UNCHANGED <<after, pending>>
  <2>1. \A t \in Tags : <<span, t>> \notin DOMAIN gains.lex
    BY <1>10 DEF Cell
  <2>2. ASSUME NEW t \in Tags
        PROVE  /\ Sound(gains, best', back', span, t)
               /\ Gainless(gains) => Maximal(gains, best', span, t)
    <3>1. best'[<<span, t>>] = NegInfty /\ back'[<<span, t>>].child = NoTag
      BY <1>8, <2>1
    <3>2. \A y \in Tags : \A x \in Int : ~Offered(gains, best', span, y, x)
      BY <1>8, <2>1
    <3>3. \A u \in DOMAIN gains.una : u[3] \in Tags
      BY <1>1, UnaryFacts
    <3> QED  BY <3>1, <3>2, <3>3 DEF Sound, Maximal
  <2>3. FinishedRight' /\ span' \in Spans
    BY <1>2, <1>6, <1>10, <2>2, FinishedGrows DEF Chart
  <2>4. pc' \in {"tree", "init"}
    BY <1>10 DEF Advance
  <2>5. TypeOK'
    BY <1>2, <1>5, <1>10, <2>3, <2>4 DEF TypeOK
  <2>6. Floors' /\ Halved(back')
    BY <1>2, <1>5, <1>10 DEF Chart, Floors
  <2>7. BinaryRight' /\ WordRight' /\ UnaryRight'
    BY <2>4 DEF BinaryRight, WordRight, UnaryRight
  <2> QED  BY <2>3, <2>5, <2>6, <2>7 DEF Chart
<1> QED  BY <1>2, <1>9, <1>10

(* So does a candidate of the unary loop, taken or not.                    *)
LEMMA TryUnaryRight ==
  ASSUME TypeOK, Chart, TryUnary
  PROVE  TypeOK' /\ Chart'
<1>1. /\ gains \in GainTables /\ span \in Spans /\ Size(span) \in 1..NumWords
      /\ best \in [Cells -> Int] /\ back \in [Cells -> Pointers] /\ after \in [Tags -> Int]
      /\ NegInfty \in Int /\ NumWords \in Nat
      /\ \A t \in Tags : Cell(t) \in Cells /\ best[Cell(t)] \in Int /\ after[t] \in Int
  BY Typed
<1>2. /\ pc = "unary" /\ pc' = pc /\ gains' = gains /\ binarize' = binarize /\ span' = span
      /\ best' = best /\ parse' = parse
  BY DEF TryUnary
<1>3. /\ pending \subseteq {u \in DOMAIN gains.una : u[1] = span}
      /\ \A t \in Tags : BaseSound(t) /\ AfterSound(t) /\ best[Cell(t)] <= after[t]
      /\ Gainless(gains) =>
           /\ \A t \in Tags : \A x \in Int : Offered(gains, best, span, t, x) => x <= best[Cell(t)]
           /\ \A u \in DOMAIN gains.una :
                u[1] = span /\ u \notin pending /\ best[Cell(u[3])] # NegInfty =>
                  best[Cell(u[3])] + gains.una[u] <= after[u[2]]
  BY <1>2 DEF Chart, UnaryRight
<1>4. PICK u \in pending :
        /\ pending' = pending \ {u}
        /\ IF Improves(best[Cell(u[3])], gains.una[u], after[u[2]])
             THEN /\ after' = [after EXCEPT ![u[2]] = best[Cell(u[3])] + gains.una[u]]
                  /\ back' = [back EXCEPT ![Cell(u[2])].child = u[3]]
             ELSE UNCHANGED <<after, back>>
  BY DEF TryUnary, UnaryBase, Turn
<1>5. u \in DOMAIN gains.una /\ u[1] = span
  BY <1>3
<1>6. /\ u = <<span, u[2], u[3]>> /\ gains.una[u] \in Int /\ Within(gains.una[u], 1)
      /\ u[2] \in Tags /\ u[3] \in Tags
  BY <1>1, <1>5, UnaryFacts
<1> DEFINE c == Cell(u[2])
           base == best[Cell(u[3])]
<1>7. c \in Cells /\ c[1] = span /\ base \in Int /\ after[u[2]] \in Int /\ after[u[2]] >= NegInfty
  BY <1>1, <1>6 DEF Chart, Floors, Cell
<1>8. pending' = pending \ {u}
  BY <1>4
<1>9. WordRight' /\ BinaryRight'
  BY <1>2 DEF WordRight, BinaryRight
<1>10. CASE ~Improves(base, gains.una[u], after[u[2]])
  <2>1. after' = after /\ back' = back
    BY <1>4, <1>10
  <2>2. TypeOK'
    BY <1>2, <1>8, <2>1 DEF TypeOK
  <2>3. Floors' /\ Halved(back')
    BY <1>2, <2>1 DEF Chart, Floors
  <2>4. FinishedRight'
    BY <1>2, <2>1, FinishedKept DEF Chart, Agree
  <2>5. UnaryRight'
    <3>1. \A t \in Tags : BaseSound(t)' /\ AfterSound(t)' /\ best'[Cell(t)'] <= after'[t]
      BY <1>2, <1>3, <2>1 DEF BaseSound, AfterSound, Cell
    <3>2. ASSUME Gainless(gains), NEW v \in DOMAIN gains.una, v[1] = span, v \notin pending',
                 best[Cell(v[3])] # NegInfty
          PROVE  best[Cell(v[3])] + gains.una[v] <= after[v[2]]
      <4>1. CASE v # u
        BY <1>3, <1>8, <3>2, <4>1
      <4>2. CASE v = u
        <5>1. gains.una[u] > NegInfty /\ gains.una[u] <= 0
          BY <1>1, <1>5, <3>2, GainsScored DEF Gainless
        <5> QED  BY <1>6, <1>7, <1>10, <3>2, <4>2, <5>1, NotImproved
      <4> QED  BY <4>1, <4>2
    <3> QED  BY <1>2, <1>3, <1>8, <2>1, <3>1, <3>2 DEF UnaryRight, Cell
  <2> QED  BY <1>9, <2>2, <2>3, <2>4, <2>5 DEF Chart
<1>11. CASE Improves(base, gains.una[u], after[u[2]])
  <2> DEFINE x == base + gains.una[u]
  <2>1. after' = [after EXCEPT ![u[2]] = x]
    BY <1>4, <1>11
  <2>2. back' = WithChild(back, c, u[3])
    BY <1>4, <1>11 DEF WithChild
  <2>3. base # NegInfty /\ x > after[u[2]] /\ x # NegInfty /\ x \in Int
    BY <1>6, <1>7, <1>11, Improved
  <2>4. Within(x, 4 * Size(span) - 2)
    <3>1. Within(base, 4 * Size(span) - 3)
      BY <1>3, <1>6, <2>3 DEF BaseSound
    <3>2. 4 * Size(span) - 3 \in Int /\ 1 \in Int /\ (4 * Size(span) - 3) + 1 = 4 * Size(span) - 2
      BY <1>1
    <3> HIDE DEF base
    <3>3. Within(base + gains.una[u], (4 * Size(span) - 3) + 1)
      BY <1>6, <1>7, <3>1, <3>2, WithinSum
    <3> QED  BY <3>2, <3>3
  <2> HIDE DEF x, base, c
  <2>5. after' \in [Tags -> Int] /\ after'[u[2]] = x /\ \A t \in Tags : t # u[2] => after'[t] = after[t]
    BY <1>1, <1>6, <2>1, <2>3
  <2>6. /\ back' \in [Cells -> Pointers] /\ \A d \in Cells : d # c => back'[d] = back[d]
        /\ back'[c].left = back[c].left /\ back'[c].right = back[c].right /\ back'[c].mid = back[c].mid
        /\ back'[c].child = u[3]
    BY <1>1, <1>6, <1>7, <2>2, WriteChild
  <2>7. Agree(best, best', span) /\ Agree(back, back', span)
    BY <1>2, <1>7, <2>6 DEF Agree
  <2>8. TypeOK'
    BY <1>2, <1>8, <2>5, <2>6 DEF TypeOK, Pointers
  <2>9. FinishedRight'
    BY <1>2, <2>7, FinishedKept DEF Chart
  <2>10. Floors'
    <3>1. \A t \in Tags : after'[t] >= NegInfty
      BY <1>1, <1>6, <1>7, <2>3, <2>5 DEF Chart, Floors
    <3> QED  BY <1>2, <3>1 DEF Chart, Floors
  <2>11. Halved(back')
    <3>1. ASSUME NEW v \in Spans, NEW t \in Tags
          PROVE  /\ back'[<<v, t>>].left = back[<<v, t>>].left /\ back'[<<v, t>>].right = back[<<v, t>>].right
                 /\ back'[<<v, t>>].mid = back[<<v, t>>].mid
                 /\ back'[<<v, t>>].child = back[<<v, t>>].child \/ back'[<<v, t>>].child \in Tags
      <4>1. <<v, t>> \in Cells
        BY DEF Cells
      <4>2. CASE <<v, t>> = c
        BY <1>6, <2>6, <4>2
      <4>3. CASE <<v, t>> # c
        BY <2>6, <4>1, <4>3
      <4> QED  BY <4>2, <4>3
    <3> QED  BY <3>1 DEF Halved, Chart
  <2>12. UnaryRight'
    <3>1. ASSUME NEW t \in Tags PROVE BaseSound(t)' /\ AfterSound(t)' /\ best'[Cell(t)'] <= after'[t]
      <4>1. Cell(t)' = Cell(t) /\ Cell(t) \in Cells
        BY <1>1, <1>2 DEF Cell
      <4>2. Pointed(back', span, t) = Pointed(back, span, t)
        BY <2>6, <4>1 DEF Pointed, Cell
      <4>3. \A y : Derived(gains, best', back', span, t, y) <=> Derived(gains, best, back, span, t, y)
        BY <1>1, <2>7, <4>2, DerivedElsewhere
      <4>4. BaseSound(t)'
        BY <1>2, <1>3, <4>1, <4>3 DEF BaseSound
      <4>5. best[Cell(t)] <= after'[t]
        BY <1>1, <1>3, <1>6, <1>7, <2>3, <2>5
      <4>6. AfterSound(t)'
        <5>1. CASE t = u[2]
          <6>1. Cell(t) = c /\ after'[t] = x /\ back'[c].child = u[3]
            BY <2>5, <2>6, <5>1 DEF c
          <6>2. <<span, t, u[3]>> = u /\ u[3] # NoTag
            BY <1>6, <5>1, SentenceAssumption
          <6>3. <<span, t, u[3]>> \in DOMAIN gains.una /\ x = base + gains.una[<<span, t, u[3]>>]
            BY <1>5, <6>2 DEF x
          <6>4. Cell(u[3])' = Cell(u[3]) /\ base = best[Cell(u[3])]
            BY <1>2 DEF Cell, base
          <6> QED  BY <1>2, <2>3, <2>4, <4>1, <6>1, <6>2, <6>3, <6>4 DEF AfterSound
        <5>2. CASE t # u[2]
          <6>1. Cell(t) # c
            BY <5>2 DEF c, Cell
          <6>2. back'[Cell(t)] = back[Cell(t)] /\ after'[t] = after[t]
            BY <2>5, <2>6, <4>1, <5>2, <6>1
          <6> QED  BY <1>2, <1>3, <4>1, <6>2 DEF AfterSound, Cell
        <5> QED  BY <5>1, <5>2
      <4> QED  BY <1>2, <4>1, <4>4, <4>5, <4>6
    <3>2. ASSUME Gainless(gains), NEW v \in DOMAIN gains.una, v[1] = span, v \notin pending',
                 best[Cell(v[3])] # NegInfty
          PROVE  best[Cell(v[3])] + gains.una[v] <= after'[v[2]]
      <4>1. CASE v # u
        <5>1. best[Cell(v[3])] + gains.una[v] <= after[v[2]]
          BY <1>3, <1>8, <3>2, <4>1
        <5>2. v[2] \in Tags /\ v[3] \in Tags /\ gains.una[v] \in Int
          BY <1>1, UnaryFacts
        <5>3. after[v[2]] <= after'[v[2]]
          BY <1>1, <1>7, <2>3, <2>5, <5>2
        <5> QED  BY <1>1, <2>5, <5>1, <5>2, <5>3
      <4>2. CASE v = u
        BY <2>3, <2>5, <4>2 DEF x, base
      <4> QED  BY <4>1, <4>2
    <3> QED  BY <1>2, <1>3, <1>8, <3>1, <3>2 DEF UnaryRight, Cell
  <2> QED  BY <1>9, <2>8, <2>9, <2>10, <2>11, <2>12 DEF Chart
<1> QED  BY <1>10, <1>11

(* Copying the unary scores back finishes the span.                        *)
LEMMA EndUnaryRight ==
  ASSUME TypeOK, Chart, EndUnary
  PROVE  TypeOK' /\ Chart'
<1>1. /\ gains \in GainTables /\ span \in Spans /\ Size(span) \in 1..NumWords
      /\ best \in [Cells -> Int] /\ back \in [Cells -> Pointers] /\ after \in [Tags -> Int]
      /\ NegInfty \in Int /\ NumWords \in Nat
      /\ \A t \in Tags : Cell(t) \in Cells /\ best[Cell(t)] \in Int /\ after[t] \in Int
  BY Typed
<1>2. /\ pc = "unary" /\ pending = {} /\ gains' = gains /\ binarize' = binarize /\ Advance
      /\ best' = [c \in Cells |-> IF c[1] = span THEN after[c[2]] ELSE best[c]]
      /\ pending' = pending /\ back' = back /\ after' = after /\ parse' = parse
  BY DEF EndUnary
<1>3. /\ \A t \in Tags : BaseSound(t) /\ AfterSound(t) /\ best[Cell(t)] <= after[t]
      /\ Gainless(gains) =>
           /\ \A t \in Tags : \A x \in Int : Offered(gains, best, span, t, x) => x <= best[Cell(t)]
           /\ \A u \in DOMAIN gains.una :
                u[1] = span /\ best[Cell(u[3])] # NegInfty =>
                  best[Cell(u[3])] + gains.una[u] <= after[u[2]]
  BY <1>2 DEF Chart, UnaryRight
<1>4. \A c \in Cells : c = <<c[1], c[2]>> /\ c[2] \in Tags
  BY DEF Cells
<1>5. best' \in [Cells -> Int] /\ \A c \in Cells : best'[c] >= NegInfty
  BY <1>1, <1>2, <1>4 DEF Chart, Floors
<1>6. Agree(best, best', span) /\ Agree(back, back', span)
  BY <1>2 DEF Agree
<1>7. \A t \in Tags : best'[<<span, t>>] = after[t]
  BY <1>1, <1>2 DEF Cell
<1>8. ASSUME NEW t \in Tags
      PROVE  /\ Sound(gains, best', back', span, t)
             /\ Gainless(gains) => Maximal(gains, best', span, t)
  <2>1. \A y \in Tags : \A x : Derived(gains, best', back', span, y, x) <=> Derived(gains, best, back, span, y, x)
    BY <1>1, <1>2, <1>6, DerivedElsewhere
  <2>2. \A y, x : Offered(gains, best', span, y, x) <=> Offered(gains, best, span, y, x)
    BY <1>1, <1>6, OfferedElsewhere
  <2>3. \A u \in DOMAIN gains.una : u[2] \in Tags /\ u[3] \in Tags /\ gains.una[u] \in Int
    BY <1>1, UnaryFacts
  <2>4. Sound(gains, best', back', span, t)
    <3> DEFINE child == back[<<span, t>>].child
    <3>1. CASE after[t] = NegInfty
      BY <1>2, <1>3, <1>7, <3>1 DEF Sound, AfterSound, Cell
    <3>2. CASE after[t] # NegInfty /\ child = NoTag
      <4>1. Within(after[t], 4 * Size(span) - 2) /\ after[t] = best[Cell(t)]
        BY <1>3, <3>2 DEF AfterSound, Cell
      <4>2. Derived(gains, best, back, span, t, after[t])
        BY <1>3, <3>2, <4>1 DEF BaseSound
      <4> QED  BY <1>2, <1>7, <2>1, <3>2, <4>1, <4>2 DEF Sound
    <3>3. CASE after[t] # NegInfty /\ child # NoTag
      <4>1. /\ Within(after[t], 4 * Size(span) - 2)
            /\ <<span, t, child>> \in DOMAIN gains.una
            /\ best[Cell(child)] # NegInfty
            /\ after[t] = best[Cell(child)] + gains.una[<<span, t, child>>]
        BY <1>3, <3>3 DEF AfterSound, Cell
      <4>2. child \in Tags
        BY <2>3, <4>1
      <4>3. Derived(gains, best, back, span, child, best[Cell(child)]) /\ best[Cell(child)] \in Int
        BY <1>1, <1>3, <4>1, <4>2 DEF BaseSound
      <4> QED  BY <1>2, <1>7, <2>1, <3>3, <4>1, <4>2, <4>3 DEF Sound
    <3> QED  BY <3>1, <3>2, <3>3
  <2>5. ASSUME Gainless(gains) PROVE Maximal(gains, best', span, t)
    <3>1. ASSUME NEW x \in Int, Offered(gains, best', span, t, x) PROVE x <= best'[<<span, t>>]
      <4>1. x <= best[Cell(t)] /\ best[Cell(t)] <= after[t]
        BY <1>3, <2>2, <2>5, <3>1
      <4> QED  BY <1>1, <1>7, <4>1
    <3>2. ASSUME NEW u \in DOMAIN gains.una, u[1] = span, u[2] = t,
                 NEW x \in Int, Offered(gains, best', span, u[3], x)
          PROVE  x + gains.una[u] <= best'[<<span, t>>]
      <4>1. Offered(gains, best, span, u[3], x)
        BY <2>2, <3>2
      <4>2. x > NegInfty
        BY <1>2, <4>1, OfferedScored DEF Chart
      <4>3. x <= best[Cell(u[3])] /\ best[Cell(u[3])] \in Int /\ u[3] \in Tags
        BY <1>1, <1>3, <2>3, <2>5, <4>1
      <4>4. best[Cell(u[3])] + gains.una[u] <= after[t]
        BY <1>1, <1>3, <2>5, <3>2, <4>2, <4>3
      <4> QED  BY <1>1, <1>7, <2>3, <4>3, <4>4
    <3> QED  BY <3>1, <3>2 DEF Maximal
  <2> QED  BY <2>4, <2>5
<1>9. FinishedRight' /\ span' \in Spans
  BY <1>2, <1>6, <1>8, FinishedGrows DEF Chart
<1>10. pc' \in {"tree", "init"}
  BY <1>2 DEF Advance
<1>11. TypeOK'
  BY <1>2, <1>5, <1>9, <1>10 DEF TypeOK
<1>12. Floors' /\ Halved(back')
  BY <1>2, <1>5 DEF Chart, Floors
<1>13. BinaryRight' /\ WordRight' /\ UnaryRight'
  BY <1>10 DEF BinaryRight, WordRight, UnaryRight
<1> QED  BY <1>9, <1>11, <1>12, <1>13 DEF Chart

-----------------------------------------------------------------------------
(* The trees over a span by their last rule.                               *)
LEMMA TreeOfWord ==
  ASSUME NEW G \in GainTables, NEW b, NEW f, NEW v, NEW t, <<v, t>> \in DOMAIN G.lex
  PROVE  Tree(t, G.lex[<<v, t>>], <<Leaf(v[1])>>) \in PlainTrees(G, b, f, v)
BY DEF PlainTrees, WordTrees

(* A binary rule above a tree of each part is a tree of the span.          *)
LEMMA TreeOfBinary ==
  ASSUME NEW G \in GainTables, NEW b, NEW f, NEW v, NEW u \in DOMAIN G.bin, u[1] = v,
         NEW p \in f[<<v[1], u[5]>>], NEW q \in f[<<u[5], v[2]>>], p.tag = u[3], q.tag = u[4]
  PROVE  Tree(u[2], G.bin[u] + p.gain + q.gain, Joined(b, u[2], p.shape) \o Joined(b, u[2], q.shape))
           \in PlainTrees(G, b, f, v)
<1> DEFINE pairs(w) == {d \in f[<<v[1], w[5]>>] \X f[<<w[5], v[2]>>] : d[1].tag = w[3] /\ d[2].tag = w[4]}
           made(w, d) == Tree(w[2], G.bin[w] + d[1].gain + d[2].gain,
                              Joined(b, w[2], d[1].shape) \o Joined(b, w[2], d[2].shape))
           U == {w \in DOMAIN G.bin : w[1] = v}
<1>1. <<p, q>> \in pairs(u)
  OBVIOUS
<1>2. u \in U
  OBVIOUS
<1>3. BinaryTrees(G, b, f, v) = UNION {{made(w, d) : d \in pairs(w)} : w \in U}
  BY DEF BinaryTrees
<1>4. made(u, <<p, q>>) \in BinaryTrees(G, b, f, v)
  <2> HIDE DEF pairs, made, U
  <2> QED  BY <1>1, <1>2, <1>3
<1> QED  BY <1>4 DEF PlainTrees

(* A unary rule above a word or a binary rule is a tree of the span.       *)
LEMMA TreeOfUnary ==
  ASSUME NEW G \in GainTables, NEW b, NEW plain, NEW v, NEW u \in DOMAIN G.una, u[1] = v,
         NEW p \in plain, p.tag = u[3]
  PROVE  Tree(u[2], G.una[u] + p.gain, Joined(b, u[2], p.shape)) \in UnaryTrees(G, b, plain, v)
BY DEF UnaryTrees

ByWord(G, v, r) == \E u \in DOMAIN G.lex : u[1] = v /\ r = Tree(u[2], G.lex[u], <<Leaf(v[1])>>)

ByBinary(G, b, f, v, r) ==
  \E u \in DOMAIN G.bin : u[1] = v /\
    \E p \in f[<<v[1], u[5]>>], q \in f[<<u[5], v[2]>>] :
      /\ p.tag = u[3] /\ q.tag = u[4]
      /\ r = Tree(u[2], G.bin[u] + p.gain + q.gain, Joined(b, u[2], p.shape) \o Joined(b, u[2], q.shape))

(* A tree without a unary rule on top has a word or a binary rule there.   *)
LEMMA PlainTreeCases ==
  ASSUME NEW G \in GainTables, NEW b, NEW f, NEW v, NEW r \in PlainTrees(G, b, f, v)
  PROVE  ByWord(G, v, r) \/ ByBinary(G, b, f, v, r)
<1>1. CASE r \in WordTrees(G, v)
  BY <1>1 DEF WordTrees, ByWord
<1>2. CASE r \in BinaryTrees(G, b, f, v)
  <2> DEFINE pairs(w) == {d \in f[<<v[1], w[5]>>] \X f[<<w[5], v[2]>>] : d[1].tag = w[3] /\ d[2].tag = w[4]}
             made(w, d) == Tree(w[2], G.bin[w] + d[1].gain + d[2].gain,
                                Joined(b, w[2], d[1].shape) \o Joined(b, w[2], d[2].shape))
             U == {w \in DOMAIN G.bin : w[1] = v}
  <2>1. BinaryTrees(G, b, f, v) = UNION {{made(w, d) : d \in pairs(w)} : w \in U}
    BY DEF BinaryTrees
  <2>2. PICK u \in U : \E d \in pairs(u) : r = made(u, d)
    <3> HIDE DEF pairs, made, U
    <3> QED  BY <1>2, <2>1
  <2>3. PICK d \in pairs(u) : r = made(u, d)
    BY <2>2
  <2>4. d[1] \in f[<<v[1], u[5]>>] /\ d[2] \in f[<<u[5], v[2]>>] /\ d[1].tag = u[3] /\ d[2].tag = u[4]
    OBVIOUS
  <2> QED  BY <2>3, <2>4 DEF ByBinary
<1> QED  BY <1>1, <1>2 DEF PlainTrees

(* A tree with a unary rule on top has a tree without one below it.        *)
LEMMA UnaryTreeCases ==
  ASSUME NEW G \in GainTables, NEW b, NEW plain, NEW v, NEW r \in UnaryTrees(G, b, plain, v)
  PROVE  \E u \in DOMAIN G.una : u[1] = v /\
           \E p \in plain : p.tag = u[3] /\ r = Tree(u[2], G.una[u] + p.gain, Joined(b, u[2], p.shape))
BY DEF UnaryTrees

-----------------------------------------------------------------------------
(* buildTree finds the tree whose score the chart gives.                   *)
Found(B, f, H, v, t) ==
  B[<<v, t>>] # NegInfty =>
    \E r \in H[v] : r.tag = t /\ r.gain = B[<<v, t>>] /\ f[<<v, t, TRUE>>] = <<r.shape>>

FoundBelow(B, f, H, v) ==
  \A w \in Spans : \A y \in Tags : Size(w) < Size(v) => Found(B, f, H, w, y)

Answered(K, f, trees, v, t, x) ==
  \E r \in trees : /\ r.tag = t /\ r.gain = x /\ f[<<v, t, FALSE>>] = <<r.shape>>
                   /\ K[<<v, t>>].child = NoTag => f[<<v, t, TRUE>>] = <<r.shape>>

(* Where backpointers derive a score by a word or binary rule, buildTree   *)
(* returns a tree that has it.                                             *)
LEMMA PlainFound ==
  ASSUME NEW G \in GainTables, NEW b, NEW B \in [Cells -> Int], NEW K,
         NEW f, f = BuildTable(K, b, f), NEW H,
         NEW v \in Spans, NEW t \in Tags, NEW x, Derived(G, B, K, v, t, x),
         FoundBelow(B, f, H, v)
  PROVE  Answered(K, f, PlainTrees(G, b, H, v), v, t, x)
<1>1. <<v, t, FALSE>> \in Goals /\ <<v, t, TRUE>> \in Goals
  BY DEF Goals
<1>2. /\ f[<<v, t, FALSE>>] = Built(K, b, f, <<v, t, FALSE>>)
      /\ f[<<v, t, TRUE>>] = Built(K, b, f, <<v, t, TRUE>>)
  BY <1>1 DEF BuildTable
<1>3. Size(v) \in 1..NumWords /\ NumWords \in Nat
  BY SpanFacts, Ends
<1> DEFINE p == K[<<v, t>>]
<1>4. t # Root
  BY BinaryFacts, WordFacts DEF Derived, Pointed
<1>5. CASE Size(v) = 1
  <2>1. <<v, t>> \in DOMAIN G.lex /\ x = G.lex[<<v, t>>]
    BY <1>5 DEF Derived
  <2>2. /\ f[<<v, t, FALSE>>] = <<Node(t, <<Leaf(v[1])>>)>>
        /\ p.child = NoTag => f[<<v, t, TRUE>>] = <<Node(t, <<Leaf(v[1])>>)>>
    <3>1. ~(v[2] - v[1] > 1)
      BY <1>5 DEF Size
    <3> QED  BY <1>2, <1>4, <3>1 DEF Built
  <2> DEFINE r == Tree(t, x, <<Leaf(v[1])>>)
  <2>3. r \in PlainTrees(G, b, H, v)
    BY <2>1, TreeOfWord
  <2>4. r.tag = t /\ r.gain = x /\ r.shape = Node(t, <<Leaf(v[1])>>)
    BY DEF Tree
  <2> QED  BY <2>2, <2>3, <2>4 DEF Answered
<1>6. CASE Size(v) # 1
  <2> DEFINE u == <<v, t, p.left, p.right, p.mid>>
  <2>1. u \in DOMAIN G.bin /\ Ready(B, u) /\ x = Combined(G, B, u)
    BY <1>6 DEF Derived, Pointed
  <2>2. u[1] = v /\ u[2] = t /\ u[3] = p.left /\ u[4] = p.right /\ u[5] = p.mid
    OBVIOUS
  <2> HIDE DEF u
  <2>3. /\ G.bin[u] \in Int /\ u[3] \in Tags /\ u[4] \in Tags
        /\ <<v[1], u[5]>> \in Spans /\ <<u[5], v[2]>> \in Spans
        /\ LeftOf(u) \in Cells /\ RightOf(u) \in Cells
        /\ Size(<<v[1], u[5]>>) + Size(<<u[5], v[2]>>) = Size(v)
    BY <2>1, <2>2, BinaryFacts
  <2>4. Size(<<v[1], u[5]>>) < Size(v) /\ Size(<<u[5], v[2]>>) < Size(v)
    BY <1>3, <2>3, SpanFacts
  <2>5. LeftOf(u) = <<<<v[1], u[5]>>, u[3]>> /\ RightOf(u) = <<<<u[5], v[2]>>, u[4]>>
    BY <2>2 DEF LeftOf, RightOf
  <2> DEFINE a == <<v[1], u[5]>>
             d == <<u[5], v[2]>>
  <2>a. Found(B, f, H, a, u[3]) /\ Found(B, f, H, d, u[4]) /\ B[<<a, u[3]>>] # NegInfty /\ B[<<d, u[4]>>] # NegInfty
    <3>1. B[<<a, u[3]>>] # NegInfty /\ B[<<d, u[4]>>] # NegInfty
      BY <2>1, <2>5 DEF Ready
    <3>2. a \in Spans /\ d \in Spans /\ Size(a) < Size(v) /\ Size(d) < Size(v)
      BY <2>3, <2>4
    <3> HIDE DEF a, d
    <3> QED  BY <2>3, <3>1, <3>2 DEF FoundBelow
  <2>6. PICK l \in H[<<v[1], u[5]>>] :
          l.tag = u[3] /\ l.gain = B[LeftOf(u)] /\ f[<<<<v[1], u[5]>>, u[3], TRUE>>] = <<l.shape>>
    BY <2>5, <2>a DEF Found
  <2>7. PICK r \in H[<<u[5], v[2]>>] :
          r.tag = u[4] /\ r.gain = B[RightOf(u)] /\ f[<<<<u[5], v[2]>>, u[4], TRUE>>] = <<r.shape>>
    BY <2>5, <2>a DEF Found
  <2> DEFINE kids == Joined(b, t, l.shape) \o Joined(b, t, r.shape)
             s == Tree(t, G.bin[u] + l.gain + r.gain, kids)
  <2>8. s \in PlainTrees(G, b, H, v)
    BY <2>1, <2>2, <2>6, <2>7, TreeOfBinary
  <2>9. s.tag = t /\ s.gain = G.bin[u] + l.gain + r.gain /\ s.shape = Node(t, kids)
    BY DEF Tree
  <2>10. s.gain = x
    BY <2>1, <2>6, <2>7, <2>9 DEF Combined
  <2>11. f[<<v, t, FALSE>>] = <<Node(t, kids)>> /\ (p.child = NoTag => f[<<v, t, TRUE>>] = <<Node(t, kids)>>)
    <3>1. Sub(f, <<v[1], p.mid>>, p.left) = <<l.shape>> /\ Sub(f, <<p.mid, v[2]>>, p.right) = <<r.shape>>
      BY <2>2, <2>3, <2>6, <2>7, SentenceAssumption DEF Sub
    <3>2. v[2] - v[1] > 1
      BY <1>3, <1>6 DEF Size
    <3>3. <<l.shape>> # <<>> /\ <<r.shape>> # <<>> /\ <<l.shape>>[1] = l.shape /\ <<r.shape>>[1] = r.shape
      OBVIOUS
    <3> DEFINE joint == LET left == Sub(f, <<v[1], p.mid>>, p.left)
                            right == Sub(f, <<p.mid, v[2]>>, p.right)
                        IN  IF left = <<>> \/ right = <<>> THEN <<>>
                            ELSE <<Node(t, Joined(b, t, left[1]) \o Joined(b, t, right[1]))>>
    <3>4. Built(K, b, f, <<v, t, FALSE>>) = joint /\ (p.child = NoTag => Built(K, b, f, <<v, t, TRUE>>) = joint)
      <4> HIDE DEF kids
      <4> QED  BY <1>4, <3>2 DEF Built
    <3> HIDE DEF p
    <3> QED  BY <1>2, <3>1, <3>3, <3>4
  <2> QED  BY <2>8, <2>9, <2>10, <2>11 DEF Answered
<1> QED  BY <1>5, <1>6

(* Where the chart has a score, buildTree returns a tree that has it, and  *)
(* where it has none it returns none.                                      *)
LEMMA AllFound ==
  ASSUME NEW G \in GainTables, NEW b, NEW B \in [Cells -> Int], NEW K \in [Cells -> Pointers],
         NEW f, f = BuildTable(K, b, f), NEW H, H = TreeTable(G, b, H),
         \A v \in Spans : \A t \in Tags : Sound(G, B, K, v, t)
  PROVE  \A v \in Spans : \A t \in Tags : Found(B, f, H, v, t)
<1> DEFINE S == {n \in Nat : \A v \in Spans : \A t \in Tags : Size(v) <= n => Found(B, f, H, v, t)}
<1>1. \A v \in Spans : Size(v) \in Nat \ {0} /\ Size(v) <= NumWords
  BY SpanFacts
<1>2. 0 \in S
  BY <1>1
<1>3. ASSUME NEW n \in Nat, n \in S PROVE n + 1 \in S
  <2>1. ASSUME NEW v \in Spans, Size(v) <= n + 1, NEW t \in Tags, B[<<v, t>>] # NegInfty
        PROVE  \E r \in H[v] : r.tag = t /\ r.gain = B[<<v, t>>] /\ f[<<v, t, TRUE>>] = <<r.shape>>
    <3> DEFINE child == K[<<v, t>>].child
    <3>1. FoundBelow(B, f, H, v)
      BY <1>1, <1>3, <2>1 DEF FoundBelow
    <3>2. H[v] = PlainTrees(G, b, H, v) \cup UnaryTrees(G, b, PlainTrees(G, b, H, v), v)
      BY DEF TreeTable, TreesAt
    <3>3. CASE child = NoTag
      <4>1. Derived(G, B, K, v, t, B[<<v, t>>])
        BY <2>1, <3>3 DEF Sound
      <4>2. \E r \in PlainTrees(G, b, H, v) :
              r.tag = t /\ r.gain = B[<<v, t>>] /\ f[<<v, t, TRUE>>] = <<r.shape>>
        <5>1. Answered(K, f, PlainTrees(G, b, H, v), v, t, B[<<v, t>>])
          BY <3>1, <4>1, PlainFound
        <5> QED  BY <3>3, <5>1 DEF Answered
      <4> QED  BY <3>2, <4>2
    <3>4. CASE child # NoTag
      <4> DEFINE u == <<v, t, child>>
      <4>1. PICK x \in Int : u \in DOMAIN G.una /\ Derived(G, B, K, v, child, x) /\ B[<<v, t>>] = x + G.una[u]
        BY <2>1, <3>4 DEF Sound
      <4>2. u[1] = v /\ u[2] = t /\ u[3] = child
        OBVIOUS
      <4>3. child \in Tags /\ G.una[u] \in Int
        <5> HIDE DEF u
        <5> QED  BY <4>1, <4>2, UnaryFacts
      <4>4. PICK r \in PlainTrees(G, b, H, v) :
              r.tag = child /\ r.gain = x /\ f[<<v, child, FALSE>>] = <<r.shape>>
        <5>1. Answered(K, f, PlainTrees(G, b, H, v), v, child, x)
          BY <3>1, <4>1, <4>3, PlainFound
        <5> QED  BY <5>1 DEF Answered
      <4> DEFINE s == Tree(t, G.una[u] + r.gain, Joined(b, t, r.shape))
      <4>5. s \in UnaryTrees(G, b, PlainTrees(G, b, H, v), v)
        <5> HIDE DEF u
        <5> QED  BY <4>1, <4>2, <4>4, TreeOfUnary
      <4>6. s.tag = t /\ s.gain = G.una[u] + r.gain /\ s.shape = Node(t, Joined(b, t, r.shape))
        BY DEF Tree
      <4>7. s.gain = B[<<v, t>>]
        <5> HIDE DEF u, s
        <5> QED  BY <4>1, <4>3, <4>4, <4>6
      <4>8. f[<<v, t, TRUE>>] = <<Node(t, Joined(b, t, r.shape))>>
        <5>1. <<v, t, TRUE>> \in Goals
          BY DEF Goals
        <5>2. f[<<v, t, TRUE>>] = Built(K, b, f, <<v, t, TRUE>>)
          BY <5>1 DEF BuildTable
        <5>3. <<r.shape>> # <<>> /\ <<r.shape>>[1] = r.shape
          OBVIOUS
        <5> QED  BY <3>4, <4>4, <5>2, <5>3 DEF Built
      <4> HIDE DEF s
      <4> QED  BY <3>2, <4>5, <4>6, <4>7, <4>8
    <3> QED  BY <3>3, <3>4
  <2>2. \A v \in Spans : \A t \in Tags : Size(v) <= n + 1 => Found(B, f, H, v, t)
    BY <2>1 DEF Found
  <2> QED  BY <2>2
<1>4. NumWords \in S
  <2> HIDE DEF S
  <2> QED  BY <1>2, <1>3, SetInduction, Ends
<1> QED  BY <1>1, <1>4

-----------------------------------------------------------------------------
(* No tree has a higher score, if no gain is above 0.                      *)
LEMMA PlainScored ==
  ASSUME NEW G \in GainTables, NEW b, NEW H, NEW v \in Spans,
         \A w \in Spans : Size(w) < Size(v) =>
           \A r \in H[w] : r.tag \in Tags /\ r.gain \in Int /\ Within(r.gain, 4 * Size(w) - 2),
         NEW r \in PlainTrees(G, b, H, v)
  PROVE  r.tag \in Tags /\ r.gain \in Int /\ Within(r.gain, 4 * Size(v) - 3)
<1>1. Size(v) \in 1..NumWords /\ NumWords \in Nat
  BY SpanFacts, Ends
<1>2. ASSUME NEW u \in DOMAIN G.lex, u[1] = v, r = Tree(u[2], G.lex[u], <<Leaf(v[1])>>)
      PROVE  r.tag \in Tags /\ r.gain \in Int /\ Within(r.gain, 4 * Size(v) - 3)
  <2>1. r.tag = u[2] /\ r.gain = G.lex[u]
    BY <1>2 DEF Tree
  <2>2. G.lex[u] \in Int /\ Within(G.lex[u], 1) /\ u[2] \in Tags /\ Size(v) = 1
    BY <1>2, WordFacts
  <2>3. 4 * Size(v) - 3 = 1
    BY <2>2
  <2> QED  BY <2>1, <2>2, <2>3
<1>4. CASE ByWord(G, v, r)
  BY <1>2, <1>4 DEF ByWord
<1>5. CASE ByBinary(G, b, H, v, r)
  <2>1. PICK u \in DOMAIN G.bin : u[1] = v /\
           \E p \in H[<<v[1], u[5]>>], q \in H[<<u[5], v[2]>>] :
             /\ p.tag = u[3] /\ q.tag = u[4]
             /\ r = Tree(u[2], G.bin[u] + p.gain + q.gain,
                         Joined(b, u[2], p.shape) \o Joined(b, u[2], q.shape))
    BY <1>5 DEF ByBinary
  <2>2. PICK p \in H[<<v[1], u[5]>>], q \in H[<<u[5], v[2]>>] :
             /\ p.tag = u[3] /\ q.tag = u[4]
             /\ r = Tree(u[2], G.bin[u] + p.gain + q.gain,
                         Joined(b, u[2], p.shape) \o Joined(b, u[2], q.shape))
    BY <2>1
  <2> DEFINE kids == Joined(b, u[2], p.shape) \o Joined(b, u[2], q.shape)
  <2>3. r = Tree(u[2], G.bin[u] + p.gain + q.gain, kids)
    BY <2>2
  <2> HIDE DEF kids
  <2>4. r.tag = u[2] /\ r.gain = G.bin[u] + p.gain + q.gain
    BY <2>1, <2>2, <2>3 DEF Tree
  <2> DEFINE l == <<v[1], u[5]>>
             m == <<u[5], v[2]>>
  <2>5. /\ G.bin[u] \in Int /\ Within(G.bin[u], 1) /\ u[2] \in Tags
        /\ l \in Spans /\ m \in Spans /\ Size(l) + Size(m) = Size(v)
    BY <2>1, <2>2, <2>3, BinaryFacts
  <2> HIDE DEF l, m
  <2>6. Size(l) \in 1..NumWords /\ Size(m) \in 1..NumWords
    BY <2>5, SpanFacts
  <2>7. /\ p.gain \in Int /\ Within(p.gain, 4 * Size(l) - 2)
        /\ q.gain \in Int /\ Within(q.gain, 4 * Size(m) - 2)
    BY <1>1, <2>5, <2>6 DEF l, m
  <2> DEFINE i == 4 * Size(l) - 2
             j == 4 * Size(m) - 2
  <2>8. i \in Int /\ j \in Int /\ i + j \in Int /\ 1 + (i + j) = 4 * Size(v) - 3
    BY <1>1, <2>5, <2>6
  <2>9. Within(p.gain, i) /\ Within(q.gain, j)
    BY <2>7
  <2> HIDE DEF i, j
  <2>10. Within(p.gain + q.gain, i + j)
    BY <2>7, <2>8, <2>9, WithinSum
  <2>11. p.gain + q.gain \in Int
    BY <2>7
  <2>12. Within(G.bin[u] + (p.gain + q.gain), 1 + (i + j))
    BY <2>5, <2>8, <2>10, <2>11, WithinSum
  <2>13. G.bin[u] + (p.gain + q.gain) = r.gain /\ r.gain \in Int
    BY <2>4, <2>5, <2>7
  <2> QED  BY <2>4, <2>5, <2>8, <2>12, <2>13
<1> QED  BY <1>4, <1>5, PlainTreeCases

(* The gains of a tree over a span are few enough to be a score.           *)
LEMMA TreesScored ==
  ASSUME NEW G \in GainTables, NEW b, NEW H, H = TreeTable(G, b, H)
  PROVE  \A v \in Spans : \A r \in H[v] :
           r.tag \in Tags /\ r.gain \in Int /\ Within(r.gain, 4 * Size(v) - 2)
<1> DEFINE Good(v) == \A r \in H[v] : r.tag \in Tags /\ r.gain \in Int /\ Within(r.gain, 4 * Size(v) - 2)
           S == {n \in Nat : \A v \in Spans : Size(v) <= n => Good(v)}
<1>1. \A v \in Spans : Size(v) \in Nat \ {0} /\ Size(v) <= NumWords
  BY SpanFacts
<1>2. 0 \in S
  BY <1>1
<1>3. ASSUME NEW n \in Nat, n \in S PROVE n + 1 \in S
  <2>1. ASSUME NEW v \in Spans, Size(v) <= n + 1, NEW r \in H[v]
        PROVE  r.tag \in Tags /\ r.gain \in Int /\ Within(r.gain, 4 * Size(v) - 2)
    <3>1. \A w \in Spans : Size(w) < Size(v) =>
            \A s \in H[w] : s.tag \in Tags /\ s.gain \in Int /\ Within(s.gain, 4 * Size(w) - 2)
      BY <1>1, <1>3, <2>1
    <3>2. H[v] = PlainTrees(G, b, H, v) \cup UnaryTrees(G, b, PlainTrees(G, b, H, v), v)
      BY DEF TreeTable, TreesAt
    <3>3. \A s \in PlainTrees(G, b, H, v) :
            s.tag \in Tags /\ s.gain \in Int /\ Within(s.gain, 4 * Size(v) - 3)
      BY <3>1, PlainScored
    <3> DEFINE i == 4 * Size(v) - 3
    <3>4. i \in Int /\ i + 1 \in Int /\ 1 + i = 4 * Size(v) - 2 /\ i <= 1 + i
      BY <1>1
    <3>5. CASE r \in PlainTrees(G, b, H, v)
      BY <3>3, <3>4, <3>5, WithinMore
    <3>6. CASE r \in UnaryTrees(G, b, PlainTrees(G, b, H, v), v)
      <4>1. PICK u \in DOMAIN G.una : \E p \in PlainTrees(G, b, H, v) :
              p.tag = u[3] /\ r = Tree(u[2], G.una[u] + p.gain, Joined(b, u[2], p.shape))
        BY <3>6, UnaryTreeCases
      <4>2. PICK p \in PlainTrees(G, b, H, v) :
              p.tag = u[3] /\ r = Tree(u[2], G.una[u] + p.gain, Joined(b, u[2], p.shape))
        BY <4>1
      <4>3. r.tag = u[2] /\ r.gain = G.una[u] + p.gain
        BY <4>2 DEF Tree
      <4>4. G.una[u] \in Int /\ Within(G.una[u], 1) /\ u[2] \in Tags
        BY UnaryFacts
      <4>5. p.gain \in Int /\ Within(p.gain, i)
        BY <3>3
      <4> HIDE DEF i
      <4>6. Within(G.una[u] + p.gain, 1 + i)
        BY <3>4, <4>4, <4>5, WithinSum
      <4> QED  BY <3>4, <4>3, <4>4, <4>5, <4>6
    <3> QED  BY <3>2, <3>5, <3>6
  <2> QED  BY <2>1
<1>4. NumWords \in S
  <2> HIDE DEF S
  <2> QED  BY <1>2, <1>3, SetInduction, Ends
<1> QED  BY <1>1, <1>4

(* A score of a tree is one.                                               *)
LEMMA TreeHasScore ==
  ASSUME NEW G \in GainTables, NEW b, NEW H, H = TreeTable(G, b, H), NEW v \in Spans, NEW r \in H[v]
  PROVE  r.tag \in Tags /\ r.gain \in Int /\ r.gain > NegInfty
<1>1. r.tag \in Tags /\ r.gain \in Int /\ Within(r.gain, 4 * Size(v) - 2)
  BY TreesScored
<1>2. 4 * Size(v) - 2 \in Int /\ 4 * Size(v) - 2 <= 4 * NumWords
  BY SpanFacts, Ends
<1> QED  BY <1>1, <1>2, WithinScored

(* A tree without a unary rule on top has at most the score some rule      *)
(* offers.                                                                 *)
LEMMA PlainBounded ==
  ASSUME NEW G \in GainTables, NEW b, NEW B \in [Cells -> Int], NEW H, H = TreeTable(G, b, H),
         NEW v \in Spans, NEW r \in PlainTrees(G, b, H, v),
         \A w \in Spans : Size(w) < Size(v) => \A s \in H[w] : s.gain <= B[<<w, s.tag>>]
  PROVE  \E x \in Int : Offered(G, B, v, r.tag, x) /\ r.gain <= x
<1>1. ASSUME NEW u \in DOMAIN G.lex, u[1] = v, r = Tree(u[2], G.lex[u], <<Leaf(v[1])>>)
      PROVE  \E x \in Int : Offered(G, B, v, r.tag, x) /\ r.gain <= x
  <2>1. r.tag = u[2] /\ r.gain = G.lex[u]
    BY <1>1 DEF Tree
  <2>2. G.lex[u] \in Int /\ u = <<v, u[2]>>
    BY <1>1, WordFacts
  <2>3. Offered(G, B, v, r.tag, G.lex[u])
    BY <2>1, <2>2 DEF Offered
  <2> QED  BY <2>1, <2>2, <2>3
<1>3. CASE ByWord(G, v, r)
  BY <1>1, <1>3 DEF ByWord
<1>4. CASE ByBinary(G, b, H, v, r)
  <2>1. PICK u \in DOMAIN G.bin : u[1] = v /\
           \E p \in H[<<v[1], u[5]>>], q \in H[<<u[5], v[2]>>] :
             /\ p.tag = u[3] /\ q.tag = u[4]
             /\ r = Tree(u[2], G.bin[u] + p.gain + q.gain,
                         Joined(b, u[2], p.shape) \o Joined(b, u[2], q.shape))
    BY <1>4 DEF ByBinary
  <2>2. PICK p \in H[<<v[1], u[5]>>], q \in H[<<u[5], v[2]>>] :
             /\ p.tag = u[3] /\ q.tag = u[4]
             /\ r = Tree(u[2], G.bin[u] + p.gain + q.gain,
                         Joined(b, u[2], p.shape) \o Joined(b, u[2], q.shape))
    BY <2>1
  <2> DEFINE kids == Joined(b, u[2], p.shape) \o Joined(b, u[2], q.shape)
  <2>3. r = Tree(u[2], G.bin[u] + p.gain + q.gain, kids)
    BY <2>2
  <2> HIDE DEF kids
  <2>4. r.tag = u[2] /\ r.gain = G.bin[u] + p.gain + q.gain
    BY <2>1, <2>2, <2>3 DEF Tree
  <2>5. /\ G.bin[u] \in Int /\ <<v[1], u[5]>> \in Spans /\ <<u[5], v[2]>> \in Spans
        /\ LeftOf(u) \in Cells /\ RightOf(u) \in Cells
        /\ Size(<<v[1], u[5]>>) + Size(<<u[5], v[2]>>) = Size(v)
    BY <2>1, <2>2, <2>3, BinaryFacts
  <2>6. Size(<<v[1], u[5]>>) < Size(v) /\ Size(<<u[5], v[2]>>) < Size(v)
    BY <2>5, SpanFacts
  <2>7. LeftOf(u) = <<<<v[1], u[5]>>, p.tag>> /\ RightOf(u) = <<<<u[5], v[2]>>, q.tag>>
    BY <2>1, <2>2, <2>3 DEF LeftOf, RightOf
  <2>8. p.gain <= B[LeftOf(u)] /\ q.gain <= B[RightOf(u)]
    BY <2>5, <2>6, <2>7
  <2>9. p.gain \in Int /\ p.gain > NegInfty /\ q.gain \in Int /\ q.gain > NegInfty
    BY <2>5, TreeHasScore
  <2>10. B[LeftOf(u)] \in Int /\ B[RightOf(u)] \in Int
    BY <2>5
  <2>11. Ready(B, u)
    BY <2>8, <2>9, <2>10, SentenceAssumption DEF Ready
  <2>12. Offered(G, B, v, r.tag, Combined(G, B, u))
    BY <2>1, <2>2, <2>3, <2>4, <2>11 DEF Offered
  <2>13. Combined(G, B, u) \in Int /\ r.gain <= Combined(G, B, u)
    BY <2>4, <2>5, <2>8, <2>9, <2>10 DEF Combined
  <2> QED  BY <2>12, <2>13
<1> QED  BY <1>3, <1>4, PlainTreeCases

(* No tree has more than the score of its cell.                            *)
LEMMA AllBounded ==
  ASSUME NEW G \in GainTables, NEW b, NEW B \in [Cells -> Int], NEW H, H = TreeTable(G, b, H),
         \A v \in Spans : \A t \in Tags : Maximal(G, B, v, t)
  PROVE  \A v \in Spans : \A r \in H[v] : r.gain <= B[<<v, r.tag>>]
<1> DEFINE S == {n \in Nat : \A v \in Spans : Size(v) <= n => \A r \in H[v] : r.gain <= B[<<v, r.tag>>]}
<1>1. \A v \in Spans : Size(v) \in Nat \ {0} /\ Size(v) <= NumWords
  BY SpanFacts
<1>2. 0 \in S
  BY <1>1
<1>3. ASSUME NEW n \in Nat, n \in S PROVE n + 1 \in S
  <2>1. ASSUME NEW v \in Spans, Size(v) <= n + 1, NEW r \in H[v]
        PROVE  r.gain <= B[<<v, r.tag>>]
    <3>1. \A w \in Spans : Size(w) < Size(v) => \A s \in H[w] : s.gain <= B[<<w, s.tag>>]
      BY <1>1, <1>3, <2>1
    <3>2. H[v] = PlainTrees(G, b, H, v) \cup UnaryTrees(G, b, PlainTrees(G, b, H, v), v)
      BY DEF TreeTable, TreesAt
    <3>3. r.tag \in Tags /\ r.gain \in Int
      BY TreeHasScore
    <3>4. <<v, r.tag>> \in Cells
      BY <3>3 DEF Cells
    <3>5. B[<<v, r.tag>>] \in Int
      BY <3>4
    <3>6. CASE r \in PlainTrees(G, b, H, v)
      <4>1. PICK x \in Int : Offered(G, B, v, r.tag, x) /\ r.gain <= x
        BY <3>1, <3>6, PlainBounded
      <4>2. x <= B[<<v, r.tag>>]
        BY <3>3, <4>1 DEF Maximal
      <4> QED  BY <3>3, <3>5, <4>1, <4>2
    <3>7. CASE r \in UnaryTrees(G, b, PlainTrees(G, b, H, v), v)
      <4>1. PICK u \in DOMAIN G.una : u[1] = v /\ \E p \in PlainTrees(G, b, H, v) :
              p.tag = u[3] /\ r = Tree(u[2], G.una[u] + p.gain, Joined(b, u[2], p.shape))
        BY <3>7, UnaryTreeCases
      <4>2. PICK p \in PlainTrees(G, b, H, v) :
              p.tag = u[3] /\ r = Tree(u[2], G.una[u] + p.gain, Joined(b, u[2], p.shape))
        BY <4>1
      <4>3. r.tag = u[2] /\ r.gain = G.una[u] + p.gain /\ G.una[u] \in Int /\ p.gain \in Int
        <5>1. p \in H[v]
          BY <3>2
        <5> QED  BY <4>2, <5>1, UnaryFacts, TreeHasScore DEF Tree
      <4>4. PICK x \in Int : Offered(G, B, v, p.tag, x) /\ p.gain <= x
        BY <3>1, PlainBounded
      <4>5. x + G.una[u] <= B[<<v, r.tag>>]
        BY <3>3, <4>1, <4>2, <4>3, <4>4 DEF Maximal
      <4> QED  BY <3>3, <3>5, <4>3, <4>4, <4>5
    <3> QED  BY <3>2, <3>6, <3>7
  <2> QED  BY <2>1
<1>4. NumWords \in S
  <2> HIDE DEF S
  <2> QED  BY <1>2, <1>3, SetInduction, Ends
<1> QED  BY <1>1, <1>4

-----------------------------------------------------------------------------
(* With the chart full, buildTree returns a tree of its score.             *)
LEMMA Answer ==
  ASSUME TypeOK, Chart, pc \in {"tree", "done"}
  PROVE  /\ Len(BuildTree) <= 1
         /\ IF BuildTree = <<>> THEN best[<<Whole, Root>>] = NegInfty
            ELSE \E t \in TreesOf(gains, binarize)[Whole] :
                   t.tag = Root /\ t.gain = best[<<Whole, Root>>] /\ BuildTree = <<t.shape>>
<1>1. /\ gains \in GainTables /\ best \in [Cells -> Int] /\ back \in [Cells -> Pointers]
      /\ Whole \in Spans /\ Root \in Tags /\ Halved(back)
  BY Typed, Ends, SentenceAssumption DEF Chart
<1> DEFINE f == CHOOSE f : f = BuildTable(back, binarize, f)
           H == TreesOf(gains, binarize)
<1>2. f = BuildTable(back, binarize, f)
  BY <1>1, BuildExists
<1>3. H = TreeTable(gains, binarize, H)
  BY <1>1, TreesExist
<1>4. BuildTree = f[<<Whole, Root, TRUE>>]
  BY SameBuild DEF BuildOf
<1> HIDE DEF f, H
<1>5. \A v \in Spans : \A t \in Tags : Sound(gains, best, back, v, t)
  BY DEF Chart, FinishedRight, Finished
<1>6. Found(best, f, H, Whole, Root)
  BY <1>1, <1>2, <1>3, <1>5, AllFound
<1>7. CASE best[<<Whole, Root>>] = NegInfty
  <2>1. back[<<Whole, Root>>].child = NoTag
    BY <1>1, <1>5, <1>7 DEF Sound
  <2>2. <<Whole, Root, TRUE>> \in Goals
    BY <1>1 DEF Goals
  <2>3. BuildTree = <<>>
    BY <1>2, <1>4, <2>1, <2>2 DEF BuildTable, Built
  <2> QED  BY <1>7, <2>3
<1>8. CASE best[<<Whole, Root>>] # NegInfty
  <2>1. PICK t \in H[Whole] : t.tag = Root /\ t.gain = best[<<Whole, Root>>] /\ BuildTree = <<t.shape>>
    BY <1>4, <1>6, <1>8 DEF Found
  <2>2. BuildTree # <<>> /\ Len(BuildTree) = 1
    BY <2>1
  <2> QED  BY <2>1, <2>2 DEF H
<1> QED  BY <1>7, <1>8

(* buildTree keeps the chart and returns a tree that fits it.              *)
LEMMA BuildRight ==
  ASSUME TypeOK, Chart, Build
  PROVE  TypeOK' /\ Chart' /\ TreeMatchesScore'
<1>1. /\ pc = "tree" /\ pc' = "done" /\ parse' = BuildTree
      /\ UNCHANGED <<gains, binarize, span, pending, best, back, after>>
  BY DEF Build
<1>2. TypeOK'
  <2>1. Len(parse') <= 1
    BY <1>1, Answer
  <2> QED  BY <1>1, <2>1 DEF TypeOK
<1>3. FinishedRight'
  BY <1>1 DEF Chart, FinishedRight, Finished
<1>4. Floors' /\ Halved(back')
  BY <1>1 DEF Chart, Floors
<1>5. BinaryRight' /\ WordRight' /\ UnaryRight'
  BY <1>1 DEF BinaryRight, WordRight, UnaryRight
<1>6. TreeMatchesScore'
  <2>1. Complete' = {t \in TreesOf(gains, binarize)[Whole] : t.tag = Root}
    BY <1>1, SameTrees DEF Complete
  <2> QED  BY <1>1, <2>1, Answer DEF TreeMatchesScore
<1> QED  BY <1>2, <1>3, <1>4, <1>5, <1>6 DEF Chart

-----------------------------------------------------------------------------
IInv == TypeOK /\ Chart /\ TreeMatchesScore

(* The invariant holds at first.                                           *)
LEMMA InitInv == Init => IInv
<1> SUFFICES ASSUME Init PROVE IInv
  OBVIOUS
<1>1. <<0, 1>> \in Spans /\ NumWords \in Nat \ {0} /\ NegInfty \in Int /\ NegInfty < 0
  BY Ends, SentenceAssumption
<1>2. NoBack \in Pointers /\ NoBack.left = NoTag /\ NoBack.right = NoTag /\ NoBack.child = NoTag
      /\ NoBack.mid \in Int
  BY <1>1 DEF NoBack, Pointers
<1>3. back \in [Cells -> Pointers] /\ \A c \in Cells : back[c] = NoBack
  BY <1>2 DEF Init
<1>4. TypeOK
  BY <1>1, <1>3 DEF Init, TypeOK, Pointers
<1>5. Floors
  BY <1>1 DEF Init, Floors
<1>6. Halved(back)
  <2>1. \A v \in Spans : \A t \in Tags : back[<<v, t>>] = NoBack
    BY <1>3 DEF Cells
  <2> QED  BY <1>2, <2>1, SentenceAssumption DEF Halved
<1>7. FinishedRight
  <2>1. ASSUME NEW v \in Spans, Before(v, <<0, 1>>) PROVE FALSE
    BY <2>1, SpanFacts DEF Before, Size
  <2>2. Finished(pc, span) = {}
    BY <2>1 DEF Init, Finished
  <2> QED  BY <2>2 DEF FinishedRight
<1>8. BinaryRight /\ WordRight /\ UnaryRight /\ TreeMatchesScore
  BY DEF Init, BinaryRight, WordRight, UnaryRight, TreeMatchesScore
<1> QED  BY <1>4, <1>5, <1>6, <1>7, <1>8 DEF IInv, Chart

(* Every step keeps the invariant.                                         *)
LEMMA StepInv == IInv /\ [Next]_vars => IInv'
<1> SUFFICES ASSUME IInv, [Next]_vars PROVE IInv'
  OBVIOUS
<1> USE DEF IInv
<1>1. CASE InitCells
  BY <1>1, InitCellsRight DEF TreeMatchesScore, InitCells
<1>2. CASE TryBinary
  BY <1>2, TryBinaryRight DEF TreeMatchesScore, TryBinary
<1>3. CASE EndBinary
  BY <1>3, EndBinaryRight DEF TreeMatchesScore, EndBinary, StartUnary
<1>4. CASE SetWord
  BY <1>4, SetWordRight DEF TreeMatchesScore, SetWord, StartUnary, Advance
<1>5. CASE TryUnary
  BY <1>5, TryUnaryRight DEF TreeMatchesScore, TryUnary
<1>6. CASE EndUnary
  BY <1>6, EndUnaryRight DEF TreeMatchesScore, EndUnary, Advance
<1>7. CASE Build
  BY <1>7, BuildRight
<1>8. CASE UNCHANGED vars
  <2>1. UNCHANGED <<pc, gains, binarize, span, pending, best, back, after, parse>>
    BY <1>8 DEF vars
  <2>2. TypeOK'
    BY <2>1 DEF TypeOK
  <2>3. FinishedRight' /\ Floors' /\ Halved(back')
    BY <2>1 DEF Chart, FinishedRight, Floors, Finished
  <2>4. BinaryRight' /\ WordRight' /\ UnaryRight'
    <3>1. \A t : BaseSound(t)' = BaseSound(t) /\ AfterSound(t)' = AfterSound(t) /\ Cell(t)' = Cell(t)
      BY <2>1 DEF BaseSound, AfterSound, Cell
    <3> QED  BY <2>1, <3>1 DEF Chart, BinaryRight, WordRight, UnaryRight
  <2>5. TreeMatchesScore'
    <3>1. Complete' = {t \in TreesOf(gains, binarize)[Whole] : t.tag = Root}
      BY <2>1, SameTrees DEF Complete
    <3>2. Complete = {t \in TreesOf(gains, binarize)[Whole] : t.tag = Root}
      BY SameTrees DEF Complete
    <3> QED  BY <2>1, <3>1, <3>2 DEF TreeMatchesScore
  <2> QED  BY <2>2, <2>3, <2>4, <2>5 DEF Chart
<1> QED  BY <1>1, <1>2, <1>3, <1>4, <1>5, <1>6, <1>7, <1>8 DEF Next

(* The chart of scores and backpointers is right for the spans that are    *)
(* finished, and right as far as the loops have come for the current one.  *)
THEOREM Invariance == Spec => []IInv
BY InitInv, StepInv, PTL DEF Spec

(* Every variable keeps its type; in particular a candidate is written     *)
(* only into a cell of the chart, and the loops stay inside the sentence.  *)
THEOREM TypeCorrect == Spec => []TypeOK
<1>1. IInv => TypeOK
  BY DEF IInv
<1> QED  BY <1>1, Invariance, PTL

(* The tree that buildTree returns is a tree of the chart and has exactly  *)
(* the score the chart has for ROOT.                                       *)
THEOREM ScoreMatches == Spec => []TreeMatchesScore
<1>1. IInv => TreeMatchesScore
  BY DEF IInv
<1> QED  BY <1>1, Invariance, PTL

(* While no gain is above 0, no tree has a higher score than the one that  *)
(* is returned, and one is returned if there is one.                       *)
THEOREM Optimality == Spec => []MaxRuleOptimal
<1>1. IInv => MaxRuleOptimal
  <2> SUFFICES ASSUME IInv, pc = "done", NonPositive
               PROVE  /\ parse = <<>> <=> Complete = {}
                      /\ \A t \in Complete : t.gain <= best[<<Whole, Root>>]
    BY DEF MaxRuleOptimal
  <2> DEFINE H == TreesOf(gains, binarize)
  <2>1. gains \in GainTables /\ best \in [Cells -> Int] /\ Whole \in Spans /\ Gainless(gains)
    BY Typed, Ends DEF IInv, NonPositive, Gainless
  <2>2. H = TreeTable(gains, binarize, H)
    BY <2>1, TreesExist
  <2>3. \A v \in Spans : \A t \in Tags : Maximal(gains, best, v, t)
    BY <2>1 DEF IInv, Chart, FinishedRight, Finished
  <2>4. Complete = {t \in H[Whole] : t.tag = Root}
    BY SameTrees DEF Complete
  <2> HIDE DEF H
  <2>5. \A v \in Spans : \A r \in H[v] : r.gain <= best[<<v, r.tag>>]
    BY <2>1, <2>2, <2>3, AllBounded
  <2>6. \A t \in Complete : t.gain <= best[<<Whole, Root>>]
    BY <2>1, <2>4, <2>5
  <2>7. \A t \in Complete : t.gain \in Int /\ t.gain > NegInfty
    BY <2>1, <2>2, <2>4, TreeHasScore
  <2>8. best[<<Whole, Root>>] \in Int /\ NegInfty \in Int
    BY <2>1, SentenceAssumption DEF Cells
  <2>9. parse = <<>> => Complete = {}
    BY <2>6, <2>7, <2>8 DEF IInv, TreeMatchesScore
  <2>10. parse # <<>> => Complete # {}
    BY DEF IInv, TreeMatchesScore
  <2> QED  BY <2>6, <2>9, <2>10
<1> QED  BY <1>1, Invariance, PTL

-----------------------------------------------------------------------------
(* The rows of Leaves, from any sequence of nodes instead of one tree.     *)
Expanded(n) == IF n.kids = <<>> THEN <<n>> ELSE n.kids
Expansions(s) == [i \in DOMAIN s |-> Expanded(s[i])]
RowTable(s, f) == [k \in Depths |-> IF k = 0 THEN s ELSE FlattenSeq(Expansions(f[k - 1]))]
Rows(s) == CHOOSE f : f = RowTable(s, f)

(* Leaves, with its rows written out.                                      *)
LEMMA SameLeaves == \A tree : Leaves(tree) = Rows(<<tree>>)[3 * NumWords]
BY DEF Leaves, Rows, RowTable, Expansions, Expanded

(* The children of the nodes of W are in W.                                *)
Closed(W) == \A n \in W : n.kids \in Seq(W)

(* The depths are those up to three for each word.                         *)
LEMMA DepthFacts ==
  /\ 3 * NumWords \in Depths /\ 0 \in Depths /\ 1 \in Depths
  /\ \A k \in Depths : k \in Nat /\ k <= 3 * NumWords /\ (k # 0 => k - 1 \in Depths)
  /\ \A k \in Nat : k + 1 # 0 /\ (k + 1) - 1 = k /\ (k + 1 \in Depths => k \in Depths)
BY Ends DEF Depths

(* The rows exist.                                                         *)
LEMMA RowsExist == ASSUME NEW s PROVE \E f : f = RowTable(s, f)
<1> DEFINE Value(f, k) == IF k = 0 THEN s ELSE FlattenSeq(Expansions(f[k - 1]))
           Solved(n) == \E f : /\ f = [k \in Depths |-> f[k]]
                               /\ \A k \in Depths : k <= n => f[k] = Value(f, k)
           S == {n \in Nat : Solved(n)}
<1>1. \A k \in Depths : k \in Nat /\ k <= 3 * NumWords /\ (k # 0 => k - 1 \in Depths)
  BY DepthFacts
<1>2. 0 \in S
  <2> DEFINE f == [k \in Depths |-> s]
  <2>1. f = [k \in Depths |-> f[k]]
    OBVIOUS
  <2>2. \A k \in Depths : k <= 0 => k = 0
    BY <1>1
  <2>3. \A k \in Depths : k <= 0 => f[k] = Value(f, k)
    BY <2>2
  <2> HIDE DEF f, Value
  <2>4. Solved(0)
    BY <2>1, <2>3
  <2> QED  BY <2>4
<1>3. ASSUME NEW n \in Nat, n \in S PROVE n + 1 \in S
  <2>1. PICK f : f = [k \in Depths |-> f[k]] /\ \A k \in Depths : k <= n => f[k] = Value(f, k)
    BY <1>3
  <2> DEFINE h == [k \in Depths |-> IF k <= n THEN f[k] ELSE Value(f, k)]
  <2>2. h = [k \in Depths |-> h[k]]
    OBVIOUS
  <2>3. ASSUME NEW k \in Depths, k <= n + 1 PROVE h[k] = Value(h, k)
    <3>1. h[k] = Value(f, k)
      BY <2>1
    <3>2. k # 0 => k - 1 \in Depths /\ k - 1 <= n
      BY <1>1, <2>3
    <3>3. k # 0 => h[k - 1] = f[k - 1]
      BY <3>2
    <3> HIDE DEF h
    <3> QED  BY <3>1, <3>3
  <2>4. Solved(n + 1)
    <3> HIDE DEF h, Value
    <3> QED  BY <2>2, <2>3
  <2> HIDE DEF Solved
  <2> QED  BY <2>4
<1>4. 3 * NumWords \in S
  <2>1. 3 * NumWords \in Nat
    BY DepthFacts
  <2> HIDE DEF S
  <2> QED  BY <2>1, <1>2, <1>3, SetInduction
<1>5. PICK f : f = [k \in Depths |-> f[k]] /\ \A k \in Depths : k <= 3 * NumWords => f[k] = Value(f, k)
  BY <1>4
<1>6. f = [k \in Depths |-> Value(f, k)]
  <2>1. \A k \in Depths : f[k] = Value(f, k)
    BY <1>1, <1>5
  <2> HIDE DEF Value
  <2> QED  BY <1>5, <2>1
<1> QED  BY <1>6 DEF RowTable

(* Expanding the nodes of a row gives sequences of nodes.                  *)
LEMMA ExpansionsType ==
  ASSUME NEW W, Closed(W), NEW s \in Seq(W)
  PROVE  Expansions(s) \in Seq(Seq(W)) /\ Len(Expansions(s)) = Len(s)
<1>1. \A n \in W : Expanded(n) \in Seq(W)
  BY DEF Closed, Expanded
<1>2. Len(s) \in Nat /\ DOMAIN s = 1..Len(s) /\ \A i \in 1..Len(s) : s[i] \in W
  OBVIOUS
<1>3. Expansions(s) = [i \in 1..Len(s) |-> Expanded(s[i])]
  BY <1>2 DEF Expansions
<1> QED  BY <1>1, <1>2, <1>3

(* What a row is made of, and from.                                        *)
LEMMA RowFacts ==
  ASSUME NEW W, Closed(W), NEW s \in Seq(W)
  PROVE  /\ Rows(s)[0] = s
         /\ \A k \in Depths : k # 0 => Rows(s)[k] = FlattenSeq(Expansions(Rows(s)[k - 1]))
         /\ \A k \in Depths : Rows(s)[k] \in Seq(W)
<1>1. Rows(s) = RowTable(s, Rows(s))
  BY RowsExist DEF Rows
<1>2. /\ Rows(s)[0] = s
      /\ \A k \in Depths : k # 0 => Rows(s)[k] = FlattenSeq(Expansions(Rows(s)[k - 1]))
  BY <1>1, DepthFacts DEF RowTable
<1> DEFINE S == {n \in Nat : n \in Depths => Rows(s)[n] \in Seq(W)}
<1>3. 0 \in S
  BY <1>2
<1>4. ASSUME NEW n \in Nat, n \in S PROVE n + 1 \in S
  <2>1. ASSUME n + 1 \in Depths PROVE Rows(s)[n + 1] \in Seq(W)
    <3>1. n \in Depths /\ n + 1 # 0 /\ (n + 1) - 1 = n
      BY <2>1, DepthFacts
    <3>2. Rows(s)[n] \in Seq(W) /\ Rows(s)[n + 1] = FlattenSeq(Expansions(Rows(s)[n]))
      BY <1>2, <1>4, <2>1, <3>1
    <3> QED  BY <3>2, ExpansionsType, FlattenType
  <2> QED  BY <2>1
<1>5. Nat \subseteq S
  <2> HIDE DEF S
  <2> QED  BY <1>3, <1>4, SetInduction
<1> QED  BY <1>2, <1>5, DepthFacts

RowsOfParts(s, t) == \A k \in Depths : Rows(s \o t)[k] = Rows(s)[k] \o Rows(t)[k]

(* The rows of two sequences one after the other are those of each.        *)
LEMMA RowsConcat ==
  ASSUME NEW W, Closed(W), NEW s \in Seq(W), NEW t \in Seq(W)
  PROVE  RowsOfParts(s, t)
<1> USE DEF RowsOfParts
<1>1. s \o t \in Seq(W)
  BY ConcatProperties
<1>2. ASSUME NEW x \in Seq(W), NEW y \in Seq(W)
      PROVE  FlattenSeq(Expansions(x \o y)) = FlattenSeq(Expansions(x)) \o FlattenSeq(Expansions(y))
  <2>1. /\ Expansions(x) \in Seq(Seq(W)) /\ Len(Expansions(x)) = Len(x)
        /\ Expansions(y) \in Seq(Seq(W)) /\ Len(Expansions(y)) = Len(y)
    BY ExpansionsType
  <2>2. Expansions(x \o y) = Expansions(x) \o Expansions(y)
    <3> DEFINE m == Len(x)
               n == Len(y)
               z == x \o y
               p == Expansions(x)
               q == Expansions(y)
               e == Expansions(z)
    <3>1. /\ m \in Nat /\ n \in Nat /\ z \in Seq(W) /\ Len(z) = m + n
          /\ \A i \in 1..(m + n) : z[i] = IF i <= m THEN x[i] ELSE y[i - m]
      BY ConcatProperties
    <3>2. /\ e \in Seq(Seq(W)) /\ Len(e) = m + n
          /\ p \in Seq(Seq(W)) /\ Len(p) = m
          /\ q \in Seq(Seq(W)) /\ Len(q) = n
      BY <2>1, <3>1, ExpansionsType
    <3>3. /\ \A i \in 1..(m + n) : e[i] = Expanded(z[i])
          /\ \A i \in 1..m : p[i] = Expanded(x[i])
          /\ \A i \in 1..n : q[i] = Expanded(y[i])
      <4>1. DOMAIN z = 1..(m + n) /\ DOMAIN x = 1..m /\ DOMAIN y = 1..n
        BY <3>1
      <4>2. /\ e = [i \in 1..(m + n) |-> Expanded(z[i])]
            /\ p = [i \in 1..m |-> Expanded(x[i])]
            /\ q = [i \in 1..n |-> Expanded(y[i])]
        <5> HIDE DEF z
        <5> QED  BY <4>1, Zenon DEF Expansions
      <4> HIDE DEF e, p, q, z, m, n
      <4> QED  BY <4>2
    <3>4. p \o q \in Seq(Seq(W)) /\ Len(p \o q) = m + n
      <4> HIDE DEF m, n, p, q
      <4> QED  BY <3>2, ConcatProperties
    <3>5. ASSUME NEW i \in 1..(m + n) PROVE (p \o q)[i] = e[i]
      <4>1. (p \o q)[i] = IF i <= m THEN p[i] ELSE q[i - m]
        <5>1. \A j \in 1..(Len(p) + Len(q)) : (p \o q)[j] = IF j <= Len(p) THEN p[j] ELSE q[j - Len(p)]
          BY <3>2, ConcatProperties, SMTT(60)
        <5> QED  BY <3>2, <5>1
      <4>2. IF i <= m THEN i \in 1..m ELSE i - m \in 1..n
        BY <3>1
      <4> HIDE DEF m, n, p, q, e, z
      <4> QED  BY <3>1, <3>3, <4>1, <4>2
    <3> HIDE DEF m, n, p, q, e, z
    <3>6. p \o q = e
      BY <3>1, <3>2, <3>4, <3>5, SeqEqual
    <3> QED  BY <3>6 DEF p, q, e, z
  <2> QED  BY <2>1, <2>2, FlattenConcat
<1> DEFINE S == {n \in Nat : n \in Depths => Rows(s \o t)[n] = Rows(s)[n] \o Rows(t)[n]}
<1>3. 0 \in S
  BY <1>1, RowFacts
<1>4. ASSUME NEW n \in Nat, n \in S PROVE n + 1 \in S
  <2>1. ASSUME n + 1 \in Depths PROVE Rows(s \o t)[n + 1] = Rows(s)[n + 1] \o Rows(t)[n + 1]
    <3>1. n \in Depths /\ n + 1 # 0 /\ (n + 1) - 1 = n
      BY <2>1, DepthFacts
    <3>2. Rows(s)[n] \in Seq(W) /\ Rows(t)[n] \in Seq(W)
      BY <3>1, RowFacts
    <3>3. /\ Rows(s)[n + 1] = FlattenSeq(Expansions(Rows(s)[n]))
          /\ Rows(t)[n + 1] = FlattenSeq(Expansions(Rows(t)[n]))
          /\ Rows(s \o t)[n + 1] = FlattenSeq(Expansions(Rows(s \o t)[n]))
      <4>1. \A x \in Seq(W) : Rows(x)[n + 1] = FlattenSeq(Expansions(Rows(x)[n]))
        <5> TAKE x \in Seq(W)
        <5>1. Rows(x)[n + 1] = FlattenSeq(Expansions(Rows(x)[(n + 1) - 1]))
          BY <2>1, <3>1, RowFacts
        <5> QED  BY <3>1, <5>1
      <4> QED  BY <1>1, <4>1
    <3>4. Rows(s \o t)[n] = Rows(s)[n] \o Rows(t)[n]
      BY <1>4, <3>1
    <3> DEFINE x == Rows(s)[n]
               y == Rows(t)[n]
    <3>5. FlattenSeq(Expansions(x \o y)) = FlattenSeq(Expansions(x)) \o FlattenSeq(Expansions(y))
      <4>1. x \in Seq(W) /\ y \in Seq(W)
        BY <3>2
      <4> HIDE DEF x, y
      <4> QED  BY <1>2, <4>1
    <3> QED  BY <3>3, <3>4, <3>5
  <2>2. n + 1 \in Nat
    OBVIOUS
  <2> QED  BY <2>1, <2>2, Zenon
<1>5. Nat \subseteq S
  <2> HIDE DEF S
  <2> QED  BY <1>3, <1>4, SetInduction
<1> QED  BY <1>5, DepthFacts

(* Below a node, its rows are those of its children.                       *)
LEMMA RowsDown ==
  ASSUME NEW W, Closed(W), NEW n \in W, n.kids # <<>>
  PROVE  \A k \in Depths : k # 0 => Rows(<<n>>)[k] = Rows(n.kids)[k - 1]
<1>1. <<n>> \in Seq(W) /\ n.kids \in Seq(W)
  BY DEF Closed
<1>2. \A s \in Seq(W) : /\ Rows(s)[0] = s
                        /\ \A k \in Depths : k # 0 => Rows(s)[k] = FlattenSeq(Expansions(Rows(s)[k - 1]))
  BY RowFacts
<1> DEFINE S == {i \in Nat : i + 1 \in Depths => Rows(<<n>>)[i + 1] = Rows(n.kids)[i]}
<1>3. 0 \in S
  <2>1. Expansions(<<n>>) = <<n.kids>>
    BY DEF Expansions, Expanded
  <2>2. FlattenSeq(<<n.kids>>) = n.kids
    BY <1>1, FlattenOne
  <2>3. Rows(<<n>>)[1] = n.kids
    <3>1. 1 \in Depths /\ 1 # 0 /\ 1 - 1 = 0
      BY DepthFacts
    <3>2. Rows(<<n>>)[1] = FlattenSeq(Expansions(Rows(<<n>>)[1 - 1]))
      BY <1>1, <1>2, <3>1
    <3> QED  BY <1>1, <1>2, <2>1, <2>2, <3>1, <3>2
  <2>4. Rows(n.kids)[0] = n.kids
    BY <1>1, <1>2
  <2> QED  BY <2>3, <2>4
<1>4. ASSUME NEW i \in Nat, i \in S PROVE i + 1 \in S
  <2>1. ASSUME (i + 1) + 1 \in Depths PROVE Rows(<<n>>)[(i + 1) + 1] = Rows(n.kids)[i + 1]
    <3>1. i + 1 \in Nat /\ i + 1 \in Depths /\ i + 1 # 0 /\ (i + 1) + 1 # 0
          /\ (i + 1) - 1 = i /\ ((i + 1) + 1) - 1 = i + 1
      BY <2>1, DepthFacts
    <3>2. Rows(<<n>>)[i + 1] = Rows(n.kids)[i]
      BY <1>4, <3>1
    <3>3. Rows(<<n>>)[(i + 1) + 1] = FlattenSeq(Expansions(Rows(<<n>>)[((i + 1) + 1) - 1]))
      BY <1>1, <1>2, <2>1, <3>1
    <3>4. Rows(n.kids)[i + 1] = FlattenSeq(Expansions(Rows(n.kids)[(i + 1) - 1]))
      BY <1>1, <1>2, <3>1
    <3> QED  BY <3>1, <3>2, <3>3, <3>4
  <2>2. i + 1 \in Nat
    OBVIOUS
  <2> QED  BY <2>1, <2>2, Zenon
<1>5. Nat \subseteq S
  <2> HIDE DEF S
  <2> QED  BY <1>3, <1>4, SetInduction
<1>6. ASSUME NEW k \in Depths, k # 0 PROVE Rows(<<n>>)[k] = Rows(n.kids)[k - 1]
  <2>1. k - 1 \in Nat /\ (k - 1) + 1 = k
    BY <1>6, DepthFacts
  <2>2. k - 1 \in S
    BY <1>5, <2>1
  <2> QED  BY <2>1, <2>2
<1> QED  BY <1>6

(* A word has no children and stays as it is.                              *)
LEMMA LeafRows ==
  ASSUME NEW W, Closed(W), NEW n \in W, n.kids = <<>>
  PROVE  \A k \in Depths : Rows(<<n>>)[k] = <<n>>
<1>1. <<n>> \in Seq(W)
  OBVIOUS
<1>2. /\ Rows(<<n>>)[0] = <<n>>
      /\ \A k \in Depths : k # 0 => Rows(<<n>>)[k] = FlattenSeq(Expansions(Rows(<<n>>)[k - 1]))
  BY <1>1, RowFacts
<1>3. FlattenSeq(Expansions(<<n>>)) = <<n>>
  <2>1. Expansions(<<n>>) = <<<<n>>>>
    BY DEF Expansions, Expanded
  <2> QED  BY <1>1, <2>1, FlattenOne
<1> DEFINE S == {i \in Nat : i \in Depths => Rows(<<n>>)[i] = <<n>>}
<1>4. 0 \in S
  BY <1>2
<1>5. ASSUME NEW i \in Nat, i \in S PROVE i + 1 \in S
  <2>1. ASSUME i + 1 \in Depths PROVE Rows(<<n>>)[i + 1] = <<n>>
    <3>1. i \in Depths /\ i + 1 # 0 /\ (i + 1) - 1 = i
      BY <2>1, DepthFacts
    <3>2. Rows(<<n>>)[i + 1] = FlattenSeq(Expansions(Rows(<<n>>)[(i + 1) - 1]))
      BY <1>2, <2>1, <3>1
    <3> QED  BY <1>3, <1>5, <3>1, <3>2
  <2>2. i + 1 \in Nat
    OBVIOUS
  <2> QED  BY <2>1, <2>2, Zenon
<1>6. Nat \subseteq S
  <2> HIDE DEF S
  <2> QED  BY <1>4, <1>5, SetInduction
<1> QED  BY <1>6, DepthFacts

-----------------------------------------------------------------------------
(* No child of a node is the bar of its tag.                               *)
NoBar(n) ==
  \A i \in DOMAIN n.kids : n.label[1] = "tag" => n.kids[i].label # <<"tag", BarOf[n.label[2]]>>

(* What is true of every tree: its label, its children, and without bars   *)
(* unless they are asked for.                                              *)
Shaped(b, W, n, t) ==
  /\ n = Node(t, n.kids) /\ n.kids \in Seq(W) /\ n.kids # <<>>
  /\ ~b => NoBar(n)

(* The nodes of all trees of a table.                                      *)
Shapes(H) == {Leaf(i) : i \in 0..NumWords} \cup {r.shape : r \in UNION {H[v] : v \in Spans}}

(* What addChildOrCoalesce attaches is not empty and has no bar of the     *)
(* parent: a bar of a bar is the bar itself.                               *)
LEMMA JoinedShape ==
  ASSUME NEW W, NEW b, NEW t \in Tags, NEW x \in Tags, NEW n \in W, Shaped(b, W, n, x)
  PROVE  /\ Joined(b, t, n) \in Seq(W) /\ Joined(b, t, n) # <<>>
         /\ ~b => \A i \in DOMAIN Joined(b, t, n) : Joined(b, t, n)[i].label # <<"tag", BarOf[t]>>
<1>1. n.label = <<"tag", x>> /\ n.kids \in Seq(W) /\ n.kids # <<>>
  <2>1. n = [label |-> <<"tag", x>>, kids |-> n.kids]
    BY DEF Shaped, Node
  <2> QED  BY <2>1 DEF Shaped
<1>2. BarOf[t] \in Tags \cup {NoTag} /\ NoTag \notin Tags
  BY SentenceAssumption
<1>3. CASE ~b /\ BarOf[t] # NoTag /\ n.label = <<"tag", BarOf[t]>>
  <2>1. Joined(b, t, n) = n.kids
    BY <1>3 DEF Joined
  <2>2. x = BarOf[t]
    BY <1>1, <1>3
  <2>3. BarOf[x] = BarOf[t]
    BY <1>3, <2>2, SentenceAssumption
  <2>4. \A i \in DOMAIN n.kids : n.kids[i].label # <<"tag", BarOf[n.label[2]]>>
    BY <1>1, <1>3 DEF Shaped, NoBar
  <2>5. n.label[2] = x
    BY <1>1
  <2> QED  BY <1>1, <2>1, <2>3, <2>4, <2>5
<1>4. CASE ~(~b /\ BarOf[t] # NoTag /\ n.label = <<"tag", BarOf[t]>>)
  <2>1. Joined(b, t, n) = <<n>>
    BY <1>4 DEF Joined
  <2>2. <<n>> \in Seq(W) /\ <<n>> # <<>> /\ DOMAIN <<n>> = {1} /\ <<n>>[1] = n
    OBVIOUS
  <2>3. ~b => n.label # <<"tag", BarOf[t]>>
    <3>1. BarOf[t] = NoTag => n.label # <<"tag", BarOf[t]>>
      BY <1>1, <1>2
    <3> QED  BY <1>4, <3>1
  <2> QED  BY <2>1, <2>2, <2>3
<1> QED  BY <1>3, <1>4

(* So a node with what is attached to it is well shaped.                   *)
LEMMA NodeShape ==
  ASSUME NEW W, NEW b, NEW t \in Tags, NEW kids \in Seq(W), kids # <<>>,
         ~b => \A i \in DOMAIN kids : kids[i].label # <<"tag", BarOf[t]>>
  PROVE  Shaped(b, W, Node(t, kids), t)
<1>1. Node(t, kids).kids = kids /\ Node(t, kids).label = <<"tag", t>>
  BY DEF Node
<1>2. Node(t, kids).label[2] = t
  BY <1>1
<1>3. ~b => NoBar(Node(t, kids))
  BY <1>1, <1>2 DEF NoBar
<1> QED  BY <1>1, <1>3 DEF Shaped

(* Two sequences of children one after the other.                          *)
LEMMA BothJoined ==
  ASSUME NEW W, NEW p \in Seq(W), NEW q \in Seq(W), p # <<>>, NEW l,
         \A i \in DOMAIN p : p[i].label # l, \A i \in DOMAIN q : q[i].label # l
  PROVE  /\ p \o q \in Seq(W) /\ p \o q # <<>>
         /\ \A i \in DOMAIN (p \o q) : (p \o q)[i].label # l
<1> DEFINE m == Len(p)
           n == Len(q)
           z == p \o q
<1>1. /\ m \in Nat \ {0} /\ n \in Nat /\ z \in Seq(W) /\ Len(z) = m + n
      /\ \A i \in 1..(m + n) : z[i] = IF i <= m THEN p[i] ELSE q[i - m]
      /\ DOMAIN p = 1..m /\ DOMAIN q = 1..n
  BY ConcatProperties
<1>2. DOMAIN z = 1..(m + n)
  BY <1>1
<1>3. ASSUME NEW i \in DOMAIN z PROVE z[i].label # l
  <2>1. IF i <= m THEN i \in 1..m ELSE i - m \in 1..n
    BY <1>1, <1>2
  <2> HIDE DEF m, n, z
  <2> QED  BY <1>1, <1>2, <2>1
<1>4. z # <<>>
  <2> HIDE DEF m, n, z
  <2> QED  BY <1>1
<1> QED  BY <1>1, <1>3, <1>4

(* A tree without a unary rule on top is well shaped if those over shorter *)
(* spans are.                                                              *)
LEMMA PlainShaped ==
  ASSUME NEW G \in GainTables, NEW b, NEW H, NEW v \in Spans,
         \A w \in Spans : Size(w) < Size(v) =>
           \A s \in H[w] : s.tag \in Tags /\ Shaped(b, Shapes(H), s.shape, s.tag),
         NEW r \in PlainTrees(G, b, H, v)
  PROVE  r.tag \in Tags /\ Shaped(b, Shapes(H), r.shape, r.tag)
<1> DEFINE W == Shapes(H)
<1>1. v[1] \in 0..NumWords
  BY SpanFacts
<1>2. CASE ByWord(G, v, r)
  <2>1. PICK u \in DOMAIN G.lex : r = Tree(u[2], G.lex[u], <<Leaf(v[1])>>)
    BY <1>2 DEF ByWord
  <2>2. u[2] \in Tags
    BY WordFacts
  <2>3. r.tag = u[2] /\ r.shape = Node(u[2], <<Leaf(v[1])>>)
    BY <2>1 DEF Tree
  <2> DEFINE kids == <<Leaf(v[1])>>
  <2>4. Leaf(v[1]) \in W /\ Leaf(v[1]).label = <<"word", v[1]>>
    BY <1>1 DEF Shapes, Leaf
  <2>5. kids \in Seq(W) /\ kids # <<>> /\ \A i \in DOMAIN kids : kids[i] = Leaf(v[1])
    <3> HIDE DEF W
    <3> QED  BY <2>4
  <2>6. \A i \in DOMAIN kids : kids[i].label # <<"tag", BarOf[u[2]]>>
    BY <2>4, <2>5
  <2> HIDE DEF kids, W
  <2>7. Shaped(b, W, Node(u[2], kids), u[2])
    BY <2>2, <2>5, <2>6, NodeShape
  <2> QED  BY <2>2, <2>3, <2>7 DEF kids, W
<1>3. CASE ByBinary(G, b, H, v, r)
  <2>1. PICK u \in DOMAIN G.bin : u[1] = v /\
           \E p \in H[<<v[1], u[5]>>], q \in H[<<u[5], v[2]>>] :
             /\ p.tag = u[3] /\ q.tag = u[4]
             /\ r = Tree(u[2], G.bin[u] + p.gain + q.gain,
                         Joined(b, u[2], p.shape) \o Joined(b, u[2], q.shape))
    BY <1>3 DEF ByBinary
  <2>2. PICK p \in H[<<v[1], u[5]>>], q \in H[<<u[5], v[2]>>] :
             /\ p.tag = u[3] /\ q.tag = u[4]
             /\ r = Tree(u[2], G.bin[u] + p.gain + q.gain,
                         Joined(b, u[2], p.shape) \o Joined(b, u[2], q.shape))
    BY <2>1
  <2> DEFINE left == Joined(b, u[2], p.shape)
             right == Joined(b, u[2], q.shape)
             l == <<v[1], u[5]>>
             m == <<u[5], v[2]>>
  <2>3. r.tag = u[2] /\ r.shape = Node(u[2], left \o right)
    BY <2>2 DEF Tree
  <2>4. u[2] \in Tags /\ l \in Spans /\ m \in Spans /\ Size(l) < Size(v) /\ Size(m) < Size(v)
    <3>1. u[2] \in Tags /\ l \in Spans /\ m \in Spans /\ Size(l) + Size(m) = Size(v)
      BY <2>1, BinaryFacts
    <3> HIDE DEF l, m
    <3> QED  BY <3>1, SpanFacts
  <2>5. /\ p.tag \in Tags /\ Shaped(b, W, p.shape, p.tag) /\ p.shape \in W
        /\ q.tag \in Tags /\ Shaped(b, W, q.shape, q.tag) /\ q.shape \in W
    BY <2>4 DEF Shapes
  <2>6. /\ left \in Seq(W) /\ left # <<>>
        /\ ~b => \A i \in DOMAIN left : left[i].label # <<"tag", BarOf[u[2]]>>
    <3> HIDE DEF W
    <3> QED  BY <2>4, <2>5, JoinedShape
  <2>7. /\ right \in Seq(W)
        /\ ~b => \A i \in DOMAIN right : right[i].label # <<"tag", BarOf[u[2]]>>
    <3> HIDE DEF W
    <3> QED  BY <2>4, <2>5, JoinedShape
  <2> HIDE DEF W, left, right
  <2>8. left \o right \in Seq(W) /\ left \o right # <<>>
    <3>1. Len(left) \in Nat \ {0} /\ Len(right) \in Nat
      BY <2>6, <2>7
    <3>2. left \o right \in Seq(W) /\ Len(left \o right) = Len(left) + Len(right)
      BY <2>6, <2>7, ConcatProperties
    <3> QED  BY <3>1, <3>2
  <2>9. ~b => \A i \in DOMAIN (left \o right) : (left \o right)[i].label # <<"tag", BarOf[u[2]]>>
    BY <2>6, <2>7, BothJoined
  <2>10. Shaped(b, W, Node(u[2], left \o right), u[2])
    BY <2>4, <2>8, <2>9, NodeShape
  <2> QED  BY <2>3, <2>4, <2>10 DEF W
<1> QED  BY <1>2, <1>3, PlainTreeCases

(* Every tree is well shaped.                                              *)
LEMMA TreesShaped ==
  ASSUME NEW G \in GainTables, NEW b, NEW H, H = TreeTable(G, b, H)
  PROVE  \A v \in Spans :
           /\ \A r \in PlainTrees(G, b, H, v) : r.tag \in Tags /\ Shaped(b, Shapes(H), r.shape, r.tag)
           /\ \A r \in H[v] : r.tag \in Tags /\ Shaped(b, Shapes(H), r.shape, r.tag)
<1> DEFINE W == Shapes(H)
           Good(r) == r.tag \in Tags /\ Shaped(b, W, r.shape, r.tag)
           S == {n \in Nat : \A v \in Spans : Size(v) <= n => \A r \in H[v] : Good(r)}
<1>1. \A v \in Spans : Size(v) \in Nat \ {0} /\ Size(v) <= NumWords
  BY SpanFacts
<1>2. \A v \in Spans : H[v] = PlainTrees(G, b, H, v) \cup UnaryTrees(G, b, PlainTrees(G, b, H, v), v)
  BY DEF TreeTable, TreesAt
<1>3. 0 \in S
  BY <1>1
<1>4. ASSUME NEW n \in Nat, n \in S PROVE n + 1 \in S
  <2>1. ASSUME NEW v \in Spans, Size(v) <= n + 1, NEW r \in H[v] PROVE Good(r)
    <3>1. \A w \in Spans : Size(w) < Size(v) => \A s \in H[w] : Good(s)
      BY <1>1, <1>4, <2>1
    <3>2. \A s \in PlainTrees(G, b, H, v) : Good(s) /\ s.shape \in W
      <4>1. \A s \in PlainTrees(G, b, H, v) : Good(s)
        BY <3>1, PlainShaped
      <4>2. \A s \in PlainTrees(G, b, H, v) : s.shape \in W
        BY <1>2 DEF Shapes
      <4> HIDE DEF Good, W
      <4> QED  BY <4>1, <4>2
    <3>3. CASE r \in PlainTrees(G, b, H, v)
      BY <3>2, <3>3
    <3>4. CASE r \in UnaryTrees(G, b, PlainTrees(G, b, H, v), v)
      <4>1. PICK u \in DOMAIN G.una : \E p \in PlainTrees(G, b, H, v) :
              p.tag = u[3] /\ r = Tree(u[2], G.una[u] + p.gain, Joined(b, u[2], p.shape))
        BY <3>4, UnaryTreeCases
      <4>2. PICK p \in PlainTrees(G, b, H, v) :
              p.tag = u[3] /\ r = Tree(u[2], G.una[u] + p.gain, Joined(b, u[2], p.shape))
        BY <4>1
      <4>3. r.tag = u[2] /\ r.shape = Node(u[2], Joined(b, u[2], p.shape))
        BY <4>2 DEF Tree
      <4>4. u[2] \in Tags
        BY UnaryFacts
      <4>5. p.tag \in Tags /\ Shaped(b, W, p.shape, p.tag) /\ p.shape \in W
        BY <3>2
      <4> HIDE DEF W
      <4>6. /\ Joined(b, u[2], p.shape) \in Seq(W) /\ Joined(b, u[2], p.shape) # <<>>
            /\ ~b => \A i \in DOMAIN Joined(b, u[2], p.shape) :
                       Joined(b, u[2], p.shape)[i].label # <<"tag", BarOf[u[2]]>>
        BY <4>4, <4>5, JoinedShape
      <4>7. Shaped(b, W, Node(u[2], Joined(b, u[2], p.shape)), u[2])
        BY <4>4, <4>6, NodeShape
      <4> QED  BY <4>3, <4>4, <4>7
    <3> QED  BY <1>2, <3>3, <3>4
  <2>2. n + 1 \in Nat
    OBVIOUS
  <2> HIDE DEF Good
  <2> QED  BY <2>1, <2>2
<1>5. NumWords \in S
  <2> HIDE DEF S
  <2> QED  BY <1>3, <1>4, SetInduction, Ends
<1>6. \A v \in Spans : \A r \in H[v] : Good(r)
  <2> HIDE DEF Good
  <2> QED  BY <1>1, <1>5
<1> QED  BY <1>2, <1>6

(* So all nodes have their children among the nodes.                       *)
LEMMA ShapesClosed ==
  ASSUME NEW G \in GainTables, NEW b, NEW H, H = TreeTable(G, b, H)
  PROVE  /\ Closed(Shapes(H))
         /\ ~b => \A n \in Shapes(H) : NoBar(n)
<1>1. ASSUME NEW i \in 0..NumWords PROVE Leaf(i).kids = <<>>
  BY DEF Leaf
<1>2. ASSUME NEW n \in Shapes(H) PROVE n.kids \in Seq(Shapes(H)) /\ (~b => NoBar(n))
  <2>1. CASE n \in {Leaf(i) : i \in 0..NumWords}
    <3>1. n.kids = <<>>
      BY <1>1, <2>1
    <3> QED  BY <3>1 DEF NoBar
  <2>2. CASE n \in {r.shape : r \in UNION {H[v] : v \in Spans}}
    <3>1. PICK r \in UNION {H[v] : v \in Spans} : n = r.shape
      BY <2>2
    <3>2. PICK v \in Spans : r \in H[v]
      BY <3>1
    <3>3. Shaped(b, Shapes(H), r.shape, r.tag)
      BY <3>2, TreesShaped
    <3> QED  BY <3>1, <3>3 DEF Shaped
  <2> QED  BY <2>1, <2>2 DEF Shapes
<1> QED  BY <1>2 DEF Closed

-----------------------------------------------------------------------------
(* The words of a span.                                                    *)
WordsOf(v) == [i \in 1..Size(v) |-> Leaf(v[1] + i - 1)]

(* From the depth d on, nothing but the words of the span is left.         *)
Spelled(n, v, d) == \A k \in Depths : k >= d => Rows(<<n>>)[k] = WordsOf(v)

(* The words of two spans next to one another.                             *)
LEMMA WordsSplit ==
  ASSUME NEW v \in Spans, NEW m \in Nat, v[1] < m, m < v[2]
  PROVE  WordsOf(<<v[1], m>>) \o WordsOf(<<m, v[2]>>) = WordsOf(v)
<1> DEFINE T == {Leaf(i) : i \in Int}
           p == WordsOf(<<v[1], m>>)
           q == WordsOf(<<m, v[2]>>)
           w == WordsOf(v)
           a == m - v[1]
           c == v[2] - m
<1>1. v[1] \in Nat /\ v[2] \in Nat /\ a \in Nat /\ c \in Nat /\ Size(v) = a + c
  BY SpanFacts DEF Size
<1>2. /\ p = [i \in 1..a |-> Leaf(v[1] + i - 1)]
      /\ q = [i \in 1..c |-> Leaf(m + i - 1)]
      /\ w = [i \in 1..(a + c) |-> Leaf(v[1] + i - 1)]
  <2>1. <<v[1], m>>[1] = v[1] /\ <<m, v[2]>>[1] = m /\ Size(<<v[1], m>>) = a /\ Size(<<m, v[2]>>) = c
    BY DEF Size
  <2> QED  BY <1>1, <2>1, Zenon DEF WordsOf
<1>3. \A i \in Int : Leaf(v[1] + i - 1) \in T /\ Leaf(m + i - 1) \in T
  BY <1>1
<1>4. /\ p \in Seq(T) /\ Len(p) = a /\ q \in Seq(T) /\ Len(q) = c
      /\ w \in Seq(T) /\ Len(w) = a + c
  <2>1. a + c \in Nat /\ \A i \in 1..a : i \in Int
    BY <1>1
  <2>2. (\A i \in 1..c : i \in Int) /\ (\A i \in 1..(a + c) : i \in Int)
    BY <1>1
  <2>3. /\ p = [i \in 1..a |-> p[i]] /\ \A i \in 1..a : p[i] \in T
        /\ q = [i \in 1..c |-> q[i]] /\ \A i \in 1..c : q[i] \in T
        /\ w = [i \in 1..(a + c) |-> w[i]] /\ \A i \in 1..(a + c) : w[i] \in T
    <3> HIDE DEF p, q, w, T, a, c
    <3> QED  BY <1>2, <1>3, <2>1, <2>2
  <2> HIDE DEF p, q, w, T, a, c
  <2> QED  BY <1>1, <2>1, <2>3, SeqMade
<1>5. p \o q \in Seq(T) /\ Len(p \o q) = a + c
      /\ \A i \in 1..(a + c) : (p \o q)[i] = IF i <= a THEN p[i] ELSE q[i - a]
  <2> HIDE DEF p, q, w, T, a, c
  <2> QED  BY <1>4, ConcatProperties
<1>6. ASSUME NEW i \in 1..(a + c) PROVE (p \o q)[i] = w[i]
  <2>1. (p \o q)[i] = IF i <= a THEN p[i] ELSE q[i - a]
    BY <1>5
  <2>2. w[i] = Leaf(v[1] + i - 1)
    BY <1>2
  <2>3. CASE i <= a
    <3>1. i \in 1..a
      BY <1>1, <2>3
    <3>2. p[i] = Leaf(v[1] + i - 1)
      <4> HIDE DEF p, a, c
      <4> QED  BY <1>2, <3>1
    <3> QED  BY <2>1, <2>2, <2>3, <3>2
  <2>4. CASE ~(i <= a)
    <3>1. i - a \in 1..c /\ m + (i - a) - 1 = v[1] + i - 1
      BY <1>1, <2>4
    <3>2. q[i - a] = Leaf(m + (i - a) - 1)
      <4> HIDE DEF q, a, c
      <4> QED  BY <1>2, <3>1
    <3> HIDE DEF p, q, w, a, c
    <3> QED  BY <2>1, <2>2, <2>4, <3>1, <3>2
  <2> QED  BY <2>3, <2>4
<1> HIDE DEF p, q, w, T, a, c
<1>7. p \o q = w
  BY <1>4, <1>5, <1>6, SeqEqual
<1> QED  BY <1>7 DEF p, q, w

(* Attached or coalesced, a node leaves the same words.                    *)
LEMMA JoinedRows ==
  ASSUME NEW W, Closed(W), NEW n \in W, n.kids # <<>>, NEW b, NEW t, NEW v, NEW d \in Nat, Spelled(n, v, d),
         NEW k \in Depths, k # 0, k - 1 >= d
  PROVE  Rows(Joined(b, t, n))[k - 1] = WordsOf(v)
<1>1. k - 1 \in Depths /\ k >= d
  BY DepthFacts
<1>2. Rows(n.kids)[k - 1] = Rows(<<n>>)[k]
  BY RowsDown
<1> QED  BY <1>1, <1>2 DEF Joined, Spelled

(* The tree of a word or a binary rule spells the words of its span.       *)
LEMMA PlainSpelled ==
  ASSUME NEW G \in GainTables, NEW b, NEW H, H = TreeTable(G, b, H), NEW v \in Spans,
         \A w \in Spans : Size(w) < Size(v) => \A s \in H[w] : Spelled(s.shape, w, 2 * Size(w)),
         NEW r \in PlainTrees(G, b, H, v)
  PROVE  Spelled(r.shape, v, 2 * Size(v) - 1)
<1> DEFINE W == Shapes(H)
<1>1. Closed(W)
  BY ShapesClosed
<1>2. \A w \in Spans : \A s \in H[w] : s.shape \in W /\ s.shape.kids \in Seq(W) /\ s.shape.kids # <<>>
  <2>1. \A w \in Spans : \A s \in H[w] : s.shape \in W
    BY DEF Shapes
  <2>2. \A w \in Spans : \A s \in H[w] : Shaped(b, W, s.shape, s.tag)
    BY TreesShaped
  <2> HIDE DEF W
  <2> QED  BY <2>1, <2>2 DEF Shaped
<1>3. r \in H[v]
  BY DEF TreeTable, TreesAt
<1>4. Size(v) \in Nat \ {0}
  BY SpanFacts
<1> SUFFICES ASSUME NEW k \in Depths, k >= 2 * Size(v) - 1 PROVE Rows(<<r.shape>>)[k] = WordsOf(v)
  BY DEF Spelled
<1>5. k \in Nat /\ k # 0 /\ k - 1 \in Depths
  BY <1>4, DepthFacts
<1>6. Rows(<<r.shape>>)[k] = Rows(r.shape.kids)[k - 1]
  <2> HIDE DEF W
  <2> QED  BY <1>1, <1>2, <1>3, <1>5, RowsDown
<1>7. CASE ByWord(G, v, r)
  <2>1. PICK u \in DOMAIN G.lex : u[1] = v /\ r = Tree(u[2], G.lex[u], <<Leaf(v[1])>>)
    BY <1>7 DEF ByWord
  <2>2. Size(v) = 1 /\ v[1] \in 0..NumWords
    BY <2>1, WordFacts, SpanFacts
  <2>3. r.shape.kids = <<Leaf(v[1])>>
    BY <2>1 DEF Tree, Node
  <2>4. Leaf(v[1]) \in W /\ Leaf(v[1]).kids = <<>>
    BY <2>2 DEF Shapes, Leaf
  <2>5. Rows(<<Leaf(v[1])>>)[k - 1] = <<Leaf(v[1])>>
    <3> HIDE DEF W
    <3> QED  BY <1>1, <1>5, <2>4, LeafRows
  <2>6. WordsOf(v) = <<Leaf(v[1])>>
    <3>1. v[1] + 1 - 1 = v[1]
      BY <2>2
    <3>2. WordsOf(v) = [i \in 1..1 |-> Leaf(v[1] + i - 1)]
      BY <2>2 DEF WordsOf
    <3>3. \A i \in 1..1 : i = 1
      OBVIOUS
    <3> QED  BY <3>1, <3>2, <3>3
  <2> QED  BY <1>6, <2>3, <2>5, <2>6
<1>8. CASE ByBinary(G, b, H, v, r)
  <2>1. PICK u \in DOMAIN G.bin : u[1] = v /\
           \E p \in H[<<v[1], u[5]>>], q \in H[<<u[5], v[2]>>] :
             /\ p.tag = u[3] /\ q.tag = u[4]
             /\ r = Tree(u[2], G.bin[u] + p.gain + q.gain,
                         Joined(b, u[2], p.shape) \o Joined(b, u[2], q.shape))
    BY <1>8 DEF ByBinary
  <2>2. PICK p \in H[<<v[1], u[5]>>], q \in H[<<u[5], v[2]>>] :
             /\ p.tag = u[3] /\ q.tag = u[4]
             /\ r = Tree(u[2], G.bin[u] + p.gain + q.gain,
                         Joined(b, u[2], p.shape) \o Joined(b, u[2], q.shape))
    BY <2>1
  <2> DEFINE left == Joined(b, u[2], p.shape)
             right == Joined(b, u[2], q.shape)
             l == <<v[1], u[5]>>
             m == <<u[5], v[2]>>
  <2>3. r.shape.kids = left \o right
    BY <2>2 DEF Tree, Node
  <2>4. /\ u[2] \in Tags /\ l \in Spans /\ m \in Spans /\ Size(l) + Size(m) = Size(v)
        /\ u[5] \in Nat /\ v[1] < u[5] /\ u[5] < v[2]
    <3>1. u[2] \in Tags /\ l \in Spans /\ m \in Spans /\ Size(l) + Size(m) = Size(v)
      BY <2>1, BinaryFacts
    <3>2. u[1][1] < u[5] /\ u[5] < u[1][2] /\ u[5] \in Nat
      BY GainAssumption, SentenceAssumption
    <3> HIDE DEF l, m
    <3> QED  BY <2>1, <3>1, <3>2
  <2>5. Size(l) \in Nat \ {0} /\ Size(m) \in Nat \ {0} /\ Size(l) < Size(v) /\ Size(m) < Size(v)
    <3>1. Size(l) \in Nat \ {0} /\ Size(m) \in Nat \ {0}
      BY <2>4, SpanFacts
    <3> HIDE DEF l, m
    <3> QED  BY <2>4, <3>1
  <2>6. /\ 2 * Size(l) \in Nat /\ 2 * Size(m) \in Nat
        /\ k - 1 >= 2 * Size(l) /\ k - 1 >= 2 * Size(m)
    <3> HIDE DEF l, m
    <3> QED  BY <1>4, <1>5, <2>4, <2>5
  <2>7. Spelled(p.shape, l, 2 * Size(l)) /\ Spelled(q.shape, m, 2 * Size(m))
    BY <2>4, <2>5
  <2>8. p.shape \in W /\ p.shape.kids # <<>> /\ q.shape \in W /\ q.shape.kids # <<>>
    BY <1>2, <2>4
  <2>9. left \in Seq(W) /\ right \in Seq(W)
    <3>1. p.shape.kids \in Seq(W) /\ q.shape.kids \in Seq(W)
      BY <1>2, <2>4
    <3> HIDE DEF W
    <3> QED  BY <2>8, <3>1 DEF Joined
  <2> HIDE DEF W, l, m
  <2>10. Rows(left)[k - 1] = WordsOf(l)
    BY <1>1, <1>5, <2>6, <2>7, <2>8, JoinedRows
  <2>11. Rows(right)[k - 1] = WordsOf(m)
    BY <1>1, <1>5, <2>6, <2>7, <2>8, JoinedRows
  <2> HIDE DEF left, right
  <2>12. Rows(left \o right)[k - 1] = WordsOf(l) \o WordsOf(m)
    <3>1. RowsOfParts(left, right)
      BY ONLY <1>1, <2>9, RowsConcat
    <3>2. Rows(left \o right)[k - 1] = Rows(left)[k - 1] \o Rows(right)[k - 1]
      BY <1>5, <3>1 DEF RowsOfParts
    <3> QED  BY <2>10, <2>11, <3>2
  <2>13. WordsOf(l) \o WordsOf(m) = WordsOf(v)
    BY <2>4, WordsSplit DEF l, m
  <2> QED  BY <1>6, <2>3, <2>12, <2>13
<1> QED  BY <1>7, <1>8, PlainTreeCases

(* Every tree spells the words of its span.                                *)
LEMMA TreesSpelled ==
  ASSUME NEW G \in GainTables, NEW b, NEW H, H = TreeTable(G, b, H)
  PROVE  \A v \in Spans : \A r \in H[v] : Spelled(r.shape, v, 2 * Size(v))
<1> DEFINE W == Shapes(H)
           Good(v) == \A r \in H[v] : Spelled(r.shape, v, 2 * Size(v))
           S == {n \in Nat : \A v \in Spans : Size(v) <= n => Good(v)}
<1>1. \A v \in Spans : Size(v) \in Nat \ {0} /\ Size(v) <= NumWords
  BY SpanFacts
<1>2. \A v \in Spans : H[v] = PlainTrees(G, b, H, v) \cup UnaryTrees(G, b, PlainTrees(G, b, H, v), v)
  BY DEF TreeTable, TreesAt
<1>3. Closed(W)
  BY ShapesClosed
<1>4. \A v \in Spans : \A r \in H[v] : r.shape \in W /\ r.shape.kids # <<>>
  <2>1. \A v \in Spans : \A r \in H[v] : r.shape \in W
    BY DEF Shapes
  <2>2. \A v \in Spans : \A r \in H[v] : Shaped(b, W, r.shape, r.tag)
    BY TreesShaped
  <2> HIDE DEF W
  <2> QED  BY <2>1, <2>2 DEF Shaped
<1> HIDE DEF W
<1>5. 0 \in S
  BY <1>1
<1>6. ASSUME NEW n \in Nat, n \in S PROVE n + 1 \in S
  <2>1. ASSUME NEW v \in Spans, Size(v) <= n + 1, NEW r \in H[v] PROVE Spelled(r.shape, v, 2 * Size(v))
    <3>1. \A w \in Spans : Size(w) < Size(v) => \A s \in H[w] : Spelled(s.shape, w, 2 * Size(w))
      BY <1>1, <1>6, <2>1
    <3>2. \A s \in PlainTrees(G, b, H, v) : Spelled(s.shape, v, 2 * Size(v) - 1)
      BY <3>1, PlainSpelled
    <3> DEFINE d == 2 * Size(v) - 1
    <3>3. d \in Nat /\ 2 * Size(v) = d + 1
      BY <1>1
    <3>4. CASE r \in PlainTrees(G, b, H, v)
      <4>1. \A k \in Depths : k >= 2 * Size(v) => k >= 2 * Size(v) - 1
        BY <1>1, DepthFacts
      <4> QED  BY <3>2, <3>4, <4>1 DEF Spelled
    <3>5. CASE r \in UnaryTrees(G, b, PlainTrees(G, b, H, v), v)
      <4>1. PICK u \in DOMAIN G.una : \E p \in PlainTrees(G, b, H, v) :
              p.tag = u[3] /\ r = Tree(u[2], G.una[u] + p.gain, Joined(b, u[2], p.shape))
        BY <3>5, UnaryTreeCases
      <4>2. PICK p \in PlainTrees(G, b, H, v) :
              p.tag = u[3] /\ r = Tree(u[2], G.una[u] + p.gain, Joined(b, u[2], p.shape))
        BY <4>1
      <4>3. r.shape.kids = Joined(b, u[2], p.shape)
        BY <4>2 DEF Tree, Node
      <4>4. /\ p.shape \in W /\ p.shape.kids # <<>> /\ r.shape \in W /\ r.shape.kids # <<>>
            /\ Spelled(p.shape, v, d)
        BY <1>2, <1>4, <3>2
      <4>5. ASSUME NEW k \in Depths, k >= 2 * Size(v) PROVE Rows(<<r.shape>>)[k] = WordsOf(v)
        <5>1. k # 0 /\ k - 1 >= d
          <6> HIDE DEF d
          <6> QED  BY <3>3, <4>5, DepthFacts
        <5>2. Rows(<<r.shape>>)[k] = Rows(r.shape.kids)[k - 1]
          BY <1>3, <4>4, <5>1, RowsDown
        <5> HIDE DEF d
        <5>3. Rows(Joined(b, u[2], p.shape))[k - 1] = WordsOf(v)
          BY <1>3, <3>3, <4>4, <5>1, JoinedRows
        <5> QED  BY <4>3, <5>2, <5>3
      <4> QED  BY <4>5 DEF Spelled
    <3> QED  BY <1>2, <3>4, <3>5
  <2>2. n + 1 \in Nat
    OBVIOUS
  <2> QED  BY <2>1, <2>2
<1>7. NumWords \in S
  <2> HIDE DEF S
  <2> QED  BY <1>5, <1>6, SetInduction, Ends
<1>8. \A v \in Spans : Good(v)
  <2> HIDE DEF Good
  <2> QED  BY <1>1, <1>7
<1> QED  BY <1>8

-----------------------------------------------------------------------------
(* The nodes of a tree, level by level.                                    *)
Levels(tree, f) == [k \in Depths |-> IF k = 0 THEN {tree} ELSE UNION {Range(n.kids) : n \in f[k - 1]}]

(* The levels exist.                                                       *)
LEMMA LevelsExist == ASSUME NEW tree PROVE \E f : f = Levels(tree, f)
<1> DEFINE Value(f, k) == IF k = 0 THEN {tree} ELSE UNION {Range(n.kids) : n \in f[k - 1]}
           Solved(n) == \E f : /\ f = [k \in Depths |-> f[k]]
                               /\ \A k \in Depths : k <= n => f[k] = Value(f, k)
           S == {n \in Nat : Solved(n)}
<1>1. \A k \in Depths : k \in Nat /\ k <= 3 * NumWords /\ (k # 0 => k - 1 \in Depths)
  BY DepthFacts
<1>2. 0 \in S
  <2> DEFINE f == [k \in Depths |-> {tree}]
  <2>1. f = [k \in Depths |-> f[k]]
    OBVIOUS
  <2>2. \A k \in Depths : k <= 0 => k = 0
    BY <1>1
  <2>3. \A k \in Depths : k <= 0 => f[k] = Value(f, k)
    BY <2>2
  <2> HIDE DEF f, Value
  <2>4. Solved(0)
    BY <2>1, <2>3
  <2> QED  BY <2>4
<1>3. ASSUME NEW n \in Nat, n \in S PROVE n + 1 \in S
  <2>1. PICK f : f = [k \in Depths |-> f[k]] /\ \A k \in Depths : k <= n => f[k] = Value(f, k)
    BY <1>3
  <2> DEFINE h == [k \in Depths |-> IF k <= n THEN f[k] ELSE Value(f, k)]
  <2>2. h = [k \in Depths |-> h[k]]
    OBVIOUS
  <2>3. ASSUME NEW k \in Depths, k <= n + 1 PROVE h[k] = Value(h, k)
    <3>1. h[k] = Value(f, k)
      BY <2>1
    <3>2. k # 0 => k - 1 \in Depths /\ k - 1 <= n
      BY <1>1, <2>3
    <3>3. k # 0 => h[k - 1] = f[k - 1]
      BY <3>2
    <3> HIDE DEF h
    <3> QED  BY <3>1, <3>3
  <2>4. Solved(n + 1)
    <3> HIDE DEF h, Value
    <3> QED  BY <2>2, <2>3
  <2> HIDE DEF Solved
  <2> QED  BY <2>4
<1>4. 3 * NumWords \in S
  <2>1. 3 * NumWords \in Nat
    BY DepthFacts
  <2> HIDE DEF S
  <2> QED  BY <2>1, <1>2, <1>3, SetInduction
<1>5. PICK f : f = [k \in Depths |-> f[k]] /\ \A k \in Depths : k <= 3 * NumWords => f[k] = Value(f, k)
  BY <1>4
<1>6. f = [k \in Depths |-> Value(f, k)]
  <2>1. \A k \in Depths : f[k] = Value(f, k)
    BY <1>1, <1>5
  <2> HIDE DEF Value
  <2> QED  BY <1>5, <2>1
<1> QED  BY <1>6 DEF Levels

(* The nodes of a tree are among those of all trees.                       *)
LEMMA NodesClosed ==
  ASSUME NEW W, Closed(W), NEW tree \in W
  PROVE  Nodes(tree) \subseteq W
<1> DEFINE f == CHOOSE f : f = Levels(tree, f)
<1>1. f = Levels(tree, f)
  BY LevelsExist
<1>2. Nodes(tree) = UNION {f[k] : k \in Depths}
  BY DEF Nodes, Levels
<1> HIDE DEF f
<1> DEFINE S == {k \in Nat : k \in Depths => f[k] \subseteq W}
<1>3. 0 \in S
  BY <1>1, DepthFacts DEF Levels
<1>4. ASSUME NEW k \in Nat, k \in S PROVE k + 1 \in S
  <2>1. ASSUME k + 1 \in Depths PROVE f[k + 1] \subseteq W
    <3>1. k \in Depths /\ k + 1 # 0 /\ (k + 1) - 1 = k
      BY <2>1, DepthFacts
    <3>2. f[k + 1] = UNION {Range(n.kids) : n \in f[(k + 1) - 1]}
      BY <1>1, <2>1, <3>1 DEF Levels
    <3>3. \A n \in f[k] : n.kids \in Seq(W)
      BY <1>4, <3>1 DEF Closed
    <3>4. \A n \in f[k] : Range(n.kids) \subseteq W
      BY <3>3 DEF Range
    <3> QED  BY <3>1, <3>2, <3>4
  <2>2. k + 1 \in Nat
    OBVIOUS
  <2> QED  BY <2>1, <2>2, Zenon
<1>5. Nat \subseteq S
  <2> HIDE DEF S
  <2> QED  BY <1>3, <1>4, SetInduction
<1>6. \A k \in Depths : f[k] \subseteq W
  BY <1>5, DepthFacts
<1> QED  BY <1>2, <1>6

(* The tree that is returned has the words of the sentence in their order  *)
(* and, unless binarised output is asked for, no bar below its tag.        *)
THEOREM Unbinarized == Spec => []Debinarized
<1>1. IInv => Debinarized
  <2> SUFFICES ASSUME IInv, pc = "done", parse # <<>>
               PROVE  /\ [i \in 1..NumWords |-> Leaf(i - 1)] = Leaves(parse[1])
                      /\ ~binarize => \A n \in Nodes(parse[1]) : NoBar(n)
    BY DEF Debinarized, NoBar
  <2> DEFINE H == TreesOf(gains, binarize)
             W == Shapes(H)
  <2>1. gains \in GainTables /\ Whole \in Spans /\ Size(Whole) = NumWords /\ NumWords \in Nat \ {0}
    BY Typed, Ends DEF IInv
  <2>2. H = TreeTable(gains, binarize, H)
    BY <2>1, TreesExist
  <2>3. PICK t \in H[Whole] : parse = <<t.shape>>
    BY SameTrees DEF IInv, TreeMatchesScore, Complete
  <2>4. parse[1] = t.shape
    BY <2>3
  <2>5. t.shape \in W
    BY <2>1 DEF Shapes
  <2> HIDE DEF H
  <2>6. Closed(W) /\ (~binarize => \A n \in W : NoBar(n))
    BY <2>1, <2>2, ShapesClosed
  <2>7. ~binarize => \A n \in Nodes(parse[1]) : NoBar(n)
    <3> HIDE DEF W
    <3> QED  BY <2>4, <2>5, <2>6, NodesClosed
  <2>8. Spelled(t.shape, Whole, 2 * NumWords)
    BY <2>1, <2>2, TreesSpelled
  <2>9. Leaves(parse[1]) = WordsOf(Whole)
    <3>1. 3 * NumWords \in Depths /\ 3 * NumWords >= 2 * NumWords
      BY <2>1, DepthFacts
    <3> QED  BY <2>4, <2>8, <3>1, SameLeaves DEF Spelled
  <2>10. WordsOf(Whole) = [i \in 1..NumWords |-> Leaf(i - 1)]
    <3>1. \A i \in 1..NumWords : Whole[1] + i - 1 = i - 1
      BY <2>1 DEF Whole
    <3>2. WordsOf(Whole) = [i \in 1..NumWords |-> Leaf(Whole[1] + i - 1)]
      BY <2>1 DEF WordsOf
    <3> QED  BY <3>1, <3>2
  <2> QED  BY <2>7, <2>9, <2>10
<1> QED  BY <1>1, Invariance, PTL
=============================================================================
