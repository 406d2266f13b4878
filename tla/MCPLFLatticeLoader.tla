------------------------ MODULE MCPLFLatticeLoader ------------------------
(* Lattices of up to three columns, with edges that go back, stay, leap or *)
(* are repeated, and their lines with one token missing, out of place or   *)
(* there twice.                                                            *)
EXTENDS PLFLatticeLoader

Edge(w, n) == [word |-> w, score |-> 5, span |-> n]
SomeColumns ==
  {<<>>, <<Edge("a", 1)>>, <<Edge("a", 2), Edge("b", 1)>>, <<Edge("a", 1), Edge("b", 1), Edge("a", 3)>>,
   <<Edge("a", 1), Edge("b", 2), Edge("a", 1)>>, <<Edge("a", 0)>>, <<Edge("b", 1), Edge("a", -1)>>, <<Edge("a", -2)>>}
ColumnsDef == {<<>>} \cup {<<c>> : c \in SomeColumns} \cup {<<c, d>> : c, d \in SomeColumns}
              \cup {<<<<Edge("c", 3)>>, c, <<Edge("d", 1)>>>> : c \in SomeColumns}

(* The commas that may be left out: those after the last edge of a column  *)
(* and after the last column.                                              *)
Damaged(l) ==
  {RemoveAt(l, i) : i \in DOMAIN l} \cup {SubSeq(l, 1, i) : i \in DOMAIN l}
  \cup {[l EXCEPT ![i] = [kind |-> "other"]] : i \in DOMAIN l}
  \cup {InsertAt(l, i, l[i]) : i \in DOMAIN l}
LinesDef ==
  {<<>>} \cup {LineOf(c) : c \in ColumnsDef}
  \cup UNION {Damaged(LineOf(<<c, <<Edge("b", 1)>>>>)) :
                c \in {<<>>, <<Edge("a", 1)>>, <<Edge("a", 2), Edge("c", 1)>>}}
=============================================================================
