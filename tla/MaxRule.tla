------------------------------ MODULE MaxRule ------------------------------
(***************************************************************************)
(* The last part of generateMaxRuleOneBestParse: among the trees left in   *)
(* the charts, find one whose rules have the largest product of            *)
(* posteriors, and build it.  A chart of log scores and backpointers is    *)
(* filled span by span; buildTree follows the backpointers and             *)
(* addChildOrCoalesce undoes the binarisation of the grammar.              *)
(*                                                                         *)
(* The gain of a rule over a span is log(rule_score) - log_normalizer; a   *)
(* rule that a pruned tag, a semi-terminal, the extents or a zero score    *)
(* exclude has no gain.  Gains are small integers here.  The order of the  *)
(* rules is that of the grammar file, which may be any.                    *)
(***************************************************************************)
EXTENDS Integers, Sequences, FiniteSetsExt, SequencesExt

CONSTANTS NumWords, Tags, Root,
          BarOf,     \* the tag named "@" and the tag's name, if any; a tag
                     \* named "@..." is its own; NoTag if there is none
          NoTag,
          NegInfty,  \* -1e20, less than any sum of gains
          GainTables \* records: bin, una, lex map anchored rules to gains,
                     \* abstract: positions of abstract tags in the sentence

Spans == {s \in (0..NumWords) \X (0..NumWords) : s[1] < s[2]}
Cells == Spans \X Tags
Whole == <<0, NumWords>>

ASSUME SentenceAssumption ==
  /\ NumWords \in Nat \ {0} /\ Root \in Tags /\ NoTag \notin Tags
  /\ BarOf \in [Tags -> Tags \cup {NoTag}]
  /\ \A t \in Tags : BarOf[t] # NoTag => BarOf[BarOf[t]] = BarOf[t]
  /\ NegInfty \in Int /\ NegInfty < 0

(* Anchored rules: <<span, P, L, R, mid>>, <<span, P, C>>, <<span, tag>>.  *)
(* No tag derives itself, and ROOT derives by unary rules only.  A tree    *)
(* has fewer than four rules for each of its words.                        *)
ASSUME GainAssumption ==
  \A g \in GainTables :
    /\ \A u \in DOMAIN g.bin : /\ u \in Spans \X Tags \X Tags \X Tags \X (1..NumWords)
                              /\ u[1][1] < u[5] /\ u[5] < u[1][2] /\ u[2] # Root
    /\ \A u \in DOMAIN g.una : u \in Spans \X Tags \X Tags /\ u[2] # u[3]
    /\ \A u \in DOMAIN g.lex : u \in Cells /\ u[1][2] = u[1][1] + 1 /\ u[2] # Root
    /\ \A h \in {g.bin, g.una, g.lex} :
         h \in [DOMAIN h -> Int] /\ \A u \in DOMAIN h : 4 * NumWords * h[u] > NegInfty

VARIABLES
  pc,        \* "init", "binary", "word", "unary", "tree", "done"
  gains, binarize,
  span,      \* begin and end of the loops
  pending,   \* anchored rules of the span not tried yet
  best,      \* maxc_log_score
  back,      \* maxc_left, maxc_right, maxc_mid, maxc_child
  after,     \* after_unary
  parse      \* the tree: no value or one

vars == <<pc, gains, binarize, span, pending, best, back, after, parse>>

NoBack == [left |-> NoTag, right |-> NoTag, mid |-> -1, child |-> NoTag]

Init ==
  /\ pc = "init"
  /\ gains \in GainTables /\ binarize \in BOOLEAN
  /\ span = <<0, 1>> /\ pending = {}
  /\ best = [c \in Cells |-> 0] /\ back = [c \in Cells |-> NoBack]
  /\ after = [t \in Tags |-> 0]
  /\ parse = <<>>

-----------------------------------------------------------------------------
(* Adding to -1e20 does not change it: its neighbours are 16384 away.      *)
Plus(x, y) == IF x = NegInfty \/ y = NegInfty THEN NegInfty ELSE x + y

Cell(t) == <<span, t>>

InitCells ==
  /\ pc = "init"
  /\ best' = [c \in Cells |-> IF c[1] = span THEN NegInfty ELSE best[c]]
  /\ back' = [c \in Cells |-> IF c[1] = span THEN NoBack ELSE back[c]]
  /\ pending' = {u \in DOMAIN gains.bin : u[1] = span}
  /\ pc' = IF span[2] - span[1] > 1 THEN "binary" ELSE "word"
  /\ UNCHANGED <<gains, binarize, span, after, parse>>

(* The loops take the parent tags one by one.                              *)
Turn == {u \in pending : u[2] = (CHOOSE t \in Tags : \E v \in pending : v[2] = t)}

(* Mutant: the parts are compared without the rule.                        *)
ImprovesByParts(base, gain, old) == base > old

(* A candidate is skipped when its parts alone score less than the best.   *)
Improves(base, gain, old) == base >= old /\ Plus(base, gain) > old

TryBinary ==
  /\ pc = "binary" /\ pending # {}
  /\ \E u \in Turn :
       LET base == Plus(best[<<<<span[1], u[5]>>, u[3]>>], best[<<<<u[5], span[2]>>, u[4]>>])
           c == Cell(u[2])
       IN  /\ pending' = pending \ {u}
           /\ IF Improves(base, gains.bin[u], best[c])
                THEN /\ best' = [best EXCEPT ![c] = base + gains.bin[u]]
                     /\ back' = [back EXCEPT ![c].left = u[3], ![c].right = u[4], ![c].mid = u[5]]
                ELSE UNCHANGED <<best, back>>
  /\ UNCHANGED <<pc, gains, binarize, span, after, parse>>

StartUnary ==
  /\ after' = [t \in Tags |-> best'[Cell(t)]]
  /\ pending' = {u \in DOMAIN gains.una : u[1] = span}
  /\ pc' = "unary"

EndBinary ==
  /\ pc = "binary" /\ pending = {}
  /\ UNCHANGED <<gains, binarize, span, best, back, parse>>
  /\ StartUnary

(* Mutant: the last span of a length is passed over.                       *)
NextSpanPast(s) == IF s[2] <= NumWords THEN <<s[1] + 1, s[2] + 1>> ELSE <<0, s[2] - s[1] + 1>>

NextSpan(s) == IF s[2] < NumWords THEN <<s[1] + 1, s[2] + 1>> ELSE <<0, s[2] - s[1] + 1>>

Advance ==
  /\ span' = IF span = Whole THEN span ELSE NextSpan(span)
  /\ pc' = IF span = Whole THEN "tree" ELSE "init"

(* The words.  An abstract tag without a score leaves the unary rules of   *)
(* its span out.                                                           *)
SetWord ==
  /\ pc = "word"
  /\ best' = [c \in Cells |-> IF c \in DOMAIN gains.lex /\ c[1] = span THEN gains.lex[c] ELSE best[c]]
  /\ IF span[1] \in gains.abstract /\ \A t \in Tags : Cell(t) \notin DOMAIN gains.lex
       THEN Advance /\ UNCHANGED <<after, pending>>
       ELSE StartUnary /\ UNCHANGED span
  /\ UNCHANGED <<gains, binarize, back, parse>>

(* Mutant: the child may itself be derived by a unary rule.                *)
UnaryBaseChained(u) == after[u[3]]

(* A unary rule above a word or a binary rule, never above another one.    *)
UnaryBase(u) == best[Cell(u[3])]

TryUnary ==
  /\ pc = "unary" /\ pending # {}
  /\ \E u \in Turn :
       LET base == UnaryBase(u)
       IN  /\ pending' = pending \ {u}
           /\ IF Improves(base, gains.una[u], after[u[2]])
                THEN /\ after' = [after EXCEPT ![u[2]] = base + gains.una[u]]
                     /\ back' = [back EXCEPT ![Cell(u[2])].child = u[3]]
                ELSE UNCHANGED <<after, back>>
  /\ UNCHANGED <<pc, gains, binarize, span, best, parse>>

EndUnary ==
  /\ pc = "unary" /\ pending = {}
  /\ best' = [c \in Cells |-> IF c[1] = span THEN after[c[2]] ELSE best[c]]
  /\ Advance
  /\ UNCHANGED <<gains, binarize, pending, back, after, parse>>

-----------------------------------------------------------------------------
Leaf(b) == [label |-> <<"word", b>>, kids |-> <<>>]
Node(t, kids) == [label |-> <<"tag", t>>, kids |-> kids]

(* Mutant: the bars are left in the tree.                                  *)
AttachedAsIs(t, child) == <<child>>

(* addChildOrCoalesce: the child, or the children of a bar of the parent.  *)
Attached(t, child) ==
  IF ~binarize /\ BarOf[t] # NoTag /\ child.label = <<"tag", BarOf[t]>>
    THEN child.kids ELSE <<child>>

(* buildTree; <<>> is nullptr.                                             *)
BuildTree ==
  LET build[x \in Spans \X Tags \X BOOLEAN] ==
        LET s == x[1]
            t == x[2]
            p == back[<<s, t>>]
            sub(v, u) == IF u = NoTag THEN <<>> ELSE build[<<v, u, TRUE>>]
        IN  IF p.child = NoTag /\ t = Root THEN <<>>
            ELSE IF p.child # NoTag /\ x[3] THEN
              LET kid == build[<<s, p.child, FALSE>>]
              IN  IF kid = <<>> THEN <<>> ELSE <<Node(t, Attached(t, kid[1]))>>
            ELSE IF s[2] - s[1] > 1 THEN
              LET left == sub(<<s[1], p.mid>>, p.left)
                  right == sub(<<p.mid, s[2]>>, p.right)
              IN  IF left = <<>> \/ right = <<>> THEN <<>>
                  ELSE <<Node(t, Attached(t, left[1]) \o Attached(t, right[1]))>>
            ELSE <<Node(t, <<Leaf(s[1])>>)>>
  IN  build[<<Whole, Root, TRUE>>]

Build ==
  /\ pc = "tree"
  /\ parse' = BuildTree
  /\ pc' = "done"
  /\ UNCHANGED <<gains, binarize, span, pending, best, back, after>>

Next ==
  \/ InitCells \/ TryBinary \/ EndBinary \/ SetWord \/ TryUnary \/ EndUnary \/ Build

Spec == Init /\ [][Next]_vars /\ WF_vars(Next)

-----------------------------------------------------------------------------
(* The trees over a span by definition: their label, total gain and shape. *)
(* A span of an abstract tag without a gain has none.                      *)
Tree(t, g, kids) == [tag |-> t, gain |-> g, shape |-> Node(t, kids)]

ParsesOver ==
  LET trees[s \in Spans] ==
        LET words == {Tree(u[2], gains.lex[u], <<Leaf(s[1])>>) : u \in {v \in DOMAIN gains.lex : v[1] = s}}
            pairs(u) == {p \in trees[<<s[1], u[5]>>] \X trees[<<u[5], s[2]>>] :
                           p[1].tag = u[3] /\ p[2].tag = u[4]}
            binary == UNION {{Tree(u[2], gains.bin[u] + p[1].gain + p[2].gain,
                                   Attached(u[2], p[1].shape) \o Attached(u[2], p[2].shape)) : p \in pairs(u)} :
                               u \in {v \in DOMAIN gains.bin : v[1] = s}}
            plain == words \cup binary
        IN  plain \cup UNION {{Tree(u[2], gains.una[u] + p.gain, Attached(u[2], p.shape)) :
                                 p \in {q \in plain : q.tag = u[3]}} :
                                u \in {v \in DOMAIN gains.una : v[1] = s}}
  IN  trees

Complete == {t \in ParsesOver[Whole] : t.tag = Root}

NonPositive == \A t \in {gains.bin, gains.una, gains.lex} : \A u \in DOMAIN t : t[u] <= 0

(* The tree as a sequence of leaves, and all its nodes.                    *)
Depths == 0..(3 * NumWords)
Leaves(tree) ==
  LET expanded(n) == IF n.kids = <<>> THEN <<n>> ELSE n.kids
      row[k \in Depths] ==
        IF k = 0 THEN <<tree>>
        ELSE LET above == row[k - 1] IN FlattenSeq([i \in DOMAIN above |-> expanded(above[i])])
  IN  row[3 * NumWords]

Nodes(tree) ==
  LET at[k \in Depths] == IF k = 0 THEN {tree} ELSE UNION {Range(n.kids) : n \in at[k - 1]}
  IN  UNION {at[k] : k \in Depths}

(* The type of every variable.                                             *)
TypeOK ==
  /\ pc \in {"init", "binary", "word", "unary", "tree", "done"}
  /\ gains \in GainTables /\ binarize \in BOOLEAN /\ span \in Spans
  /\ pending \subseteq DOMAIN gains.bin \cup DOMAIN gains.una
  /\ best \in [Cells -> Int] /\ after \in [Tags -> Int]
  /\ back \in [Cells -> [left : Tags \cup {NoTag}, right : Tags \cup {NoTag},
                         mid : -1..NumWords, child : Tags \cup {NoTag}]]
  /\ Len(parse) <= 1

(* The tree that is built is one of those of the chart and has exactly the *)
(* score the chart gives ROOT, although scores and backpointers of a span  *)
(* are written in two passes and one cell has the backpointers of both.    *)
TreeMatchesScore ==
  pc = "done" =>
    LET score == best[<<Whole, Root>>]
    IN  IF parse = <<>> THEN score = NegInfty
        ELSE \E t \in Complete : t.gain = score /\ parse = <<t.shape>>

(* No tree over the chart has a larger product of posteriors, and one is   *)
(* returned if there is one at all: skipping a candidate because its parts *)
(* score less than the best loses nothing while posteriors are at most 1.  *)
MaxRuleOptimal ==
  pc = "done" /\ NonPositive =>
    /\ parse = <<>> <=> Complete = {}
    /\ \A t \in Complete : t.gain <= best[<<Whole, Root>>]

(* The words of the returned tree are those of the sentence in order, and  *)
(* unless binarised output is asked for, no bar is left below its tag.     *)
Debinarized ==
  pc = "done" /\ parse # <<>> =>
    /\ [i \in 1..NumWords |-> Leaf(i - 1)] = Leaves(parse[1])
    /\ ~binarize => \A n \in Nodes(parse[1]) : \A i \in DOMAIN n.kids :
         n.label[1] = "tag" => n.kids[i].label # <<"tag", BarOf[n.label[2]]>>
=============================================================================
