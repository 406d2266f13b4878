---------------------------- MODULE ParseTrees ----------------------------
(***************************************************************************)
(* The parse trees of a sentence, by definition rather than by a chart: no *)
(* extents, no order of evaluation, no backpointers.  As in the parser, a  *)
(* tree has at most one unary rule above each word or binary rule.  This   *)
(* is the reference the chart passes are compared with.                    *)
(***************************************************************************)
EXTENDS Integers, Sequences, FiniteSetsExt

WordTree(sym, b, score) ==
  [sym |-> sym, span |-> <<b, b + 1>>, unary |-> FALSE, score |-> score,
   cells |-> {<<<<b, b + 1>>, sym>>}, kids |-> <<>>]

BinaryTree(P, left, right, score) ==
  LET span == <<left.span[1], right.span[2]>>
  IN  [sym |-> P, span |-> span, unary |-> FALSE,
       score |-> score * left.score * right.score,
       cells |-> left.cells \cup right.cells \cup {<<span, P>>},
       kids |-> <<left, right>>]

UnaryTree(P, child, score) ==
  [sym |-> P, span |-> child.span, unary |-> TRUE, score |-> score * child.score,
   cells |-> child.cells \cup {<<child.span, P>>}, kids |-> <<child>>]

(* The trees over every span of n words, where words(b) is the table of    *)
(* the symbols word b can have, and Ok(span, sym) says which symbols may   *)
(* be used where.                                                          *)
TreesOver(n, model, words(_), Ok(_, _)) ==
  LET trees[s \in {t \in (0..n) \X (0..n) : t[1] < t[2]}] ==
        LET b == s[1]
            e == s[2]
            split(m) ==
              LET lefts == trees[<<b, m>>]
                  rights == trees[<<m, e>>]
              IN  {u \in (DOMAIN model.bin) \X lefts \X rights :
                     Ok(s, u[1][1]) /\ u[1][2] = u[2].sym /\ u[1][3] = u[3].sym}
            plain ==
              IF e = b + 1
                THEN {WordTree(P, b, words(b)[P]) : P \in {Q \in DOMAIN words(b) : Ok(s, Q) /\ words(b)[Q] > 0}}
                ELSE UNION {{BinaryTree(u[1][1], u[2], u[3], model.bin[u[1]]) : u \in split(m)} :
                              m \in (b + 1)..(e - 1)}
        IN  plain \cup {UnaryTree(u[1][1], u[2], model.una[u[1]]) :
                          u \in {v \in (DOMAIN model.una) \X plain :
                                   Ok(s, v[1][1]) /\ v[1][2] = v[2].sym /\ v[1][1][1] # v[1][2][1]}}
  IN  trees

(* The trees over some of the constituents, from a table of the words.     *)
TreesOfCells(n, model, words, cells) ==
  TreesOver(n, model, LAMBDA b : words[b], LAMBDA s, S : <<s, S>> \in cells)

ScoreOf(trees) == MapThenSumSet(LAMBDA t : t.score, trees)
=============================================================================
