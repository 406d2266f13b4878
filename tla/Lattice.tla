------------------------------ MODULE Lattice ------------------------------
(***************************************************************************)
(* Lattice: the edges between two nodes, by the first node and by how far  *)
(* beyond the next one they end.  Node numbers are of type size_t, so that *)
(* arithmetic on them is modulo Wrap, and a vector has at most MaxSize     *)
(* elements.                                                               *)
(***************************************************************************)
EXTENDS Integers, SequencesExt

CONSTANTS Wrap,    \* 2^64 in the code
          MaxSize  \* max_size() of a vector

ASSUME SizeAssumption == Wrap \in Nat /\ MaxSize \in Nat \ {0} /\ 2 * MaxSize <= Wrap

GetEndPos(begin, end) == (end - begin - 1) % Wrap

Resized(list, n) == [i \in 1..n |-> IF i <= Len(list) THEN list[i] ELSE <<>>]
AtLeast(list, n) == IF Len(list) < n THEN Resized(list, n) ELSE list

(* getEdgeList, for end > begin.                                           *)
EdgeList(list, begin, end) ==
  IF begin >= Len(list) THEN <<>>
  ELSE IF GetEndPos(begin, end) >= Len(list[begin + 1]) THEN <<>>
  ELSE list[begin + 1][GetEndPos(begin, end) + 1]

(* addEdge throws on an edge that does not go forward, a length no vector  *)
(* has, and a word that is already between the two nodes.                  *)
Throws(list, begin, end, edge) ==
  \/ end <= begin
  \/ GetEndPos(begin, end) >= MaxSize
  \/ \E parallel \in Range(EdgeList(list, begin, end)) : parallel.word = edge.word

(* Mutant: the ends of a node are cut to the new edge.                     *)
WithEdgeCut(list, begin, end, edge) ==
  LET n == GetEndPos(begin, end) + 1
  IN  [AtLeast(list, begin + 1) EXCEPT ![begin + 1] = [Resized(@, n) EXCEPT ![n] = Append(@, edge)]]

WithEdge(list, begin, end, edge) ==
  LET n == GetEndPos(begin, end) + 1
  IN  [AtLeast(list, begin + 1) EXCEPT ![begin + 1] = [AtLeast(@, n) EXCEPT ![n] = Append(@, edge)]]

NumNodes(list) == Len(list) + 1
=============================================================================
