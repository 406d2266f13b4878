----------------------------- MODULE MCSession -----------------------------
(* Two or three lines of up to two words, brackets among them.             *)
EXTENDS Session

NamesDef == {"a", "b", "(", ")", "N", "S", "X", "ROOT", "?", "-LRB-", "-RRB-", "-EMPTY-"}

Lines == {<<>>, <<"a">>, <<"(", "b">>, <<"a", ")">>}
InputsDef == {<<l, m>> : l, m \in Lines} \cup {<<>>, <<<<"a">>, <<>>, <<"a", "b">>>>}

Words(ws) == [i \in DOMAIN ws |-> Node("N", <<Leaf(ws[i])>>)]

(* A flat tree, and one with the first word apart under a bracket tag.     *)
TreesForDef(ws) ==
  {Node("ROOT", <<Node("S", Words(ws))>>)} \cup
  (IF Len(ws) < 2 THEN {}
   ELSE {Node("ROOT", <<Node("S", <<Node("(", <<Leaf(ws[1])>>), Node("X", Words(Tail(ws)))>>)>>)})
=============================================================================
