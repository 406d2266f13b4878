---------------------------- MODULE MCM1Preparse ----------------------------
(* Tags n and m derive words, x and s are phrasal, ROOT; one level.  A rule *)
(* is of a tag of words and one has no score: level 0 uses neither.  In    *)
(* some models ROOT does not reach x, which may then have no count.        *)
EXTENDS M1Preparse

n == 0  m == 1  x == 2  s == 3  ROOT == 4

NumSubDef == [t \in TagIds |-> [l \in AllLevels |-> 1]]
ParentDef == [t \in TagIds |-> [l \in AllLevels |-> [i \in {0} |-> 0]]]
CondDef == [l \in AllLevels |-> [S \in {<<t, 0>> : t \in TagIds} |-> 1]]

Sym(t) == <<t, 0>>
Bins == {<<x, n, m>>, <<s, x, n>>, <<s, n, x>>, <<x, m, x>>, <<s, n, n>>, <<m, n, n>>, <<x, x, m>>}
Unas == {<<ROOT, s>>, <<x, m>>, <<s, x>>}

MakeModel(bins, unas, words) ==
  [bin |-> [r \in {<<Sym(q[1]), Sym(q[2]), Sym(q[3])>> : q \in bins} |->
            IF r = <<Sym(x), Sym(x), Sym(m)>> THEN 0 ELSE 1 + ((r[1][1] + r[2][1]) % 2)],
   una |-> [r \in {<<Sym(q[1]), Sym(q[2])>> : q \in unas} |-> 1 + (r[2][1] % 2)],
   lex |-> [r \in {<<Sym(t), w>> : t \in {n, m}, w \in words} |-> 1 + r[1][1]]]

ModelsDef == {MakeModel(Bins \ drop, Unas \ cut, words) :
                drop \in {{}, {<<s, x, n>>, <<s, n, n>>}, {<<s, x, n>>, <<s, n, x>>}},
                cut \in {{}, {<<x, m>>}, {<<s, x>>}},
                words \in {{"a"}, {"a", "UNK"}}}
WeightsDef == {[t \in TagIds |-> 1], [t \in TagIds |-> IF t = s THEN 3 ELSE 2],
               [t \in TagIds |-> IF t = x THEN 0 ELSE 1]}

W(w) == [wid |-> w, tid |-> NoTag]
T(t) == [wid |-> "none", tid |-> t]
SentencesDef == {<<W("a"), W("b"), W("a")>>, <<W("a"), W("a"), W("a")>>, <<W("a"), T(x), W("a")>>}
TagSentences == {<<W("a"), T(m), W("a")>>}
=============================================================================
