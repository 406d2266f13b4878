--------------------------- MODULE MCCoarseToFine ---------------------------
(* ROOT is never split; every other tag splits in two at level 1 and keeps *)
(* its two subtags, each its own parent, at level 2.                       *)
EXTENDS CoarseToFine

SubtagsByLevel == [l \in Levels |-> IF l = 0 THEN 1 ELSE 2]

NumSubDef ==
  [t \in Tags |-> IF t = Root THEN [l \in Levels |-> 1] ELSE SubtagsByLevel]

ParentDef ==
  [t \in Tags |-> [l \in Levels |-> [s \in 0..(NumSubDef[t][l] - 1) |->
     IF l = 2 THEN s ELSE 0]]]
=============================================================================
