--------------------------- MODULE MCChartParser ---------------------------
(* Tags: n derives words, x and s are phrasal, ROOT.  At level 1 every tag *)
(* but ROOT has two subtags, with equal conditional probability.           *)
EXTENDS ChartParser

n == 0
x == 1
s == 2
ROOT == 3

NumSubDef == [t \in TagIds |-> [l \in AllLevels |-> IF t = ROOT \/ l = 0 THEN 1 ELSE 2]]
ParentDef == [t \in TagIds |-> [l \in AllLevels |-> [i \in 0..(NumSubDef[t][l] - 1) |->
                IF l = 2 THEN i ELSE 0]]]
Sub(t) == 0..(NumSubDef[t][Depth - 1] - 1)

(* Merged subtags share the probability 2.                                 *)
CondDef == [l \in AllLevels |->
  [S \in UNION {{<<t, i>> : i \in 0..(NumSubDef[t][l] - 1)} : t \in TagIds} |->
     IF S[1] = ROOT \/ l = 2 THEN 2 ELSE 1]]

(* Rules of the subtags of three tags, or of two, with uneven scores; some *)
(* of the combinations have no entry.                                      *)
Weight3(P, L, R) == (P[2] + 2 * L[2] + R[2] + L[1] + 1) % 3
Binaries(p, l, r) == {<<<<p, i>>, <<l, j>>, <<r, k>>>> : i \in Sub(p), j \in Sub(l), k \in Sub(r)}
Unaries(p, c) == {<<<<p, i>>, <<c, j>>>> : i \in Sub(p), j \in Sub(c)}

MakeModel(bins, unas, words) ==
  LET b == UNION {Binaries(q[1], q[2], q[3]) : q \in bins}
      u == UNION {Unaries(q[1], q[2]) : q \in unas}
  IN  [bin |-> [r \in {q \in b : Weight3(q[1], q[2], q[3]) > 0} |-> Weight3(r[1], r[2], r[3])],
       una |-> [r \in u |-> 2],
       lex |-> [r \in {<<<<n, i>>, w>> : i \in Sub(n), w \in words} |-> IF r[1][2] = 0 THEN 1 ELSE 2]]

Words == {"a", "UNK"}
W(w) == [wid |-> w, tid |-> NoTag]
T(t) == [wid |-> "none", tid |-> t]

(* Without phrasal unary rules; x -> n applies to single words only.       *)
CoreModels ==
  {MakeModel(bins \cup {<<s, n, x>>}, unas \cup {<<ROOT, s>>}, Words) :
     bins \in SUBSET {<<x, n, n>>, <<s, s, n>>, <<s, n, n>>},
     unas \in SUBSET {<<x, n>>}}
CoreSentences == {<<W("a"), W("b"), W("a")>>, <<W("a"), T(n), T(x)>>, <<>>}

(* With phrasal unary rules: x -> s and s -> x over phrases.               *)
UnaryModels ==
  {MakeModel(bins \cup {<<x, n, n>>, <<s, n, x>>}, unas \cup {<<ROOT, s>>}, Words) :
     bins \in SUBSET {<<s, n, s>>, <<x, s, n>>},
     unas \in SUBSET {<<s, x>>, <<x, s>>}}
UnarySentences == {<<W("a"), W("a"), W("a")>>, <<T(s), W("a"), W("a")>>}

SomeModels == CoreModels \cup UnaryModels
SomeSentences == CoreSentences \cup UnarySentences

(* A phrase that only the unary rule s -> x can derive below s -> n s.     *)
UnaryOnlyModels ==
  {MakeModel({<<x, n, n>>, <<s, n, s>>}, {<<ROOT, s>>, <<s, x>>}, Words)}
UnaryOnlySentences == {<<W("a"), W("a"), W("a")>>}

(* The two subtags of s at level 1 share the weight of s: each can fall    *)
(* below a threshold that s as a whole reaches.                            *)
SplitModels == {MakeModel({<<s, n, n>>, <<s, n, s>>}, {<<ROOT, s>>}, Words)}
=======================================================================
