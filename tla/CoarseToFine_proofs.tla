------------------------ MODULE CoarseToFine_proofs ------------------------
(***************************************************************************)
(* Proofs about the coarse-to-fine control, for every sentence length, tag *)
(* set, hierarchy of subtags and number of levels.  The strengthening says *)
(* where each attempt is with respect to the levels already scored         *)
(* (ControlOK), how the recorded charts follow from one another (SeenOK),  *)
(* and how the charts in use follow from the recorded ones (ChartsOK).     *)
(***************************************************************************)
EXTENDS CoarseToFine, TLAPS

Loop == {"charts", "score", "prune", "retrieve"}

(* Whether the M1 preparse allows a cell; without it, every cell is.       *)
Base(c) == \A f \in preparse : f[c]

ControlOK ==
  /\ pc = "setup" => attempt = 0
  /\ pc \in Loop => ~empty /\ attempt \in {1, 2}
  /\ pc \in {"charts", "score", "prune"} => level <= target
  /\ pc = "retrieve" => level = target + 1
  /\ attempt = 0 => pc \in {"setup", "call"} /\ seen = <<>> /\ preparse = {}
  /\ attempt = 1 /\ pc \in Loop => target = fine /\ Len(seen) = level
  /\ attempt = 2 => target < fine /\ target < Len(seen)
  /\ pc = "call" => attempt \in {0, 1}
  /\ attempt = 1 /\ pc = "call" =>
       ~empty /\ ~result.succeeded /\ result.final \in 1..fine /\ result.final <= Len(seen)
  /\ pc \in {"return", "done"} => attempt \in {1, 2}
  /\ pc \in {"return", "done"} /\ empty => attempt = 1 /\ result = Success(-1)
  /\ pc \in {"return", "done"} /\ ~empty /\ attempt = 1 =>
       \/ result = Success(fine)
       \/ result = Failure(result.final) /\ result.final \in 0..fine
            /\ result.final <= Len(seen)
  /\ pc \in {"return", "done"} /\ attempt = 2 => result.final = target
  /\ pc = "done" => ~MayRetry

PreparseOK ==
  /\ m1 /\ attempt > 0 /\ ~empty => \E f \in [Cells -> BOOLEAN] : preparse = {f}
  /\ ~m1 => preparse = {}

SeenOK ==
  /\ Lineage
  /\ \A k \in 1..(Len(seen) - 1), c \in Cells :
       seen[k + 1].tag[c] <=> seen[k].tag[c] /\ seen[k + 1].sub[c] # {}
  /\ Len(seen) > 0 => \A c \in Cells : seen[1].tag[c] <=> Base(c) /\ seen[1].sub[c] # {}

ChartsOK ==
  /\ pc = "charts" /\ level = 0 /\ m1 => \A c \in Cells : allowedTag[c] = Base(c)
  /\ pc \in {"score", "prune"} /\ level = 0 => \A c \in Cells : allowedTag[c] = Base(c)
  /\ pc \in {"charts", "score", "prune"} /\ level > 0 =>
       level <= Len(seen) /\ allowedTag = seen[level].tag
  /\ pc = "charts" /\ level > 0 =>
       /\ allowedSub = seen[level].sub
       /\ allowedTag[RootCell] /\ allowedSub[RootCell] = {0}
  /\ pc \in {"score", "prune"} /\ level > 0 =>
       \A c \in Cells : allowedTag[c] =>
         \A s \in allowedSub[c] : Parent[c[2]][level][s] \in seen[level].sub[c]
  /\ pc = "score" /\ allowedTag[RootCell] => allowedSub[RootCell] = {0}

IInv == /\ TypeOK /\ ControlOK /\ PreparseOK /\ SeenOK /\ ChartsOK
        /\ IndicesInside /\ RootReadable

-----------------------------------------------------------------------------
(* What the assumptions on sizes and subtags say of the cells used below.  *)
LEMMA Shapes ==
  /\ NumWords \in Nat \ {0} /\ Depth \in Nat \ {0} /\ 0 \in Levels
  /\ RootCell \in Cells /\ RootCell[2] = Root
  /\ \A c \in Cells : c[2] \in Tags
  /\ \A c \in Cells, l \in Levels : NumSub[c[2]][l] \in Nat \ {0}
  /\ \A c \in Cells, l \in Levels : Subs(c, l) \subseteq AllSubs /\ 0 \in Subs(c, l)
  /\ \A c \in Cells : Subs(c, 0) = {0} /\ NumSub[c[2]][0] = 1
  /\ \A l \in Levels : Subs(RootCell, l) = {0}
<1>1. NumWords \in Nat \ {0} /\ Depth \in Nat \ {0} /\ 0 \in Levels
  BY ShapeAssumption DEF Levels
<1>2. RootCell \in Cells /\ RootCell[2] = Root
  BY ShapeAssumption DEF RootCell, Cells, Spans
<1>3. \A c \in Cells : c[2] \in Tags
  BY DEF Cells
<1>4. \A c \in Cells, l \in Levels : NumSub[c[2]][l] \in Nat \ {0}
  BY <1>3, HierarchyAssumption
<1>5. \A c \in Cells, l \in Levels : Subs(c, l) \subseteq AllSubs
  BY DEF AllSubs
<1>6. \A c \in Cells, l \in Levels : 0 \in Subs(c, l)
  BY <1>4 DEF Subs
<1>7. \A c \in Cells : Subs(c, 0) = {0} /\ NumSub[c[2]][0] = 1
  BY <1>3, HierarchyAssumption DEF Subs
<1>8. \A l \in Levels : Subs(RootCell, l) = {0}
  BY <1>2, HierarchyAssumption DEF Subs
<1> QED  BY <1>1, <1>2, <1>3, <1>4, <1>5, <1>6, <1>7, <1>8

(* The parser starts with no level scored.                                 *)
LEMMA InitInv == Init => IInv
<1> SUFFICES ASSUME Init PROVE IInv
  OBVIOUS
<1>1. TypeOK
  BY Shapes DEF Init, TypeOK, Failure
<1>2. ControlOK
  BY DEF Init, ControlOK, Loop
<1>3. PreparseOK /\ SeenOK /\ ChartsOK /\ IndicesInside /\ RootReadable
  BY DEF Init, PreparseOK, SeenOK, Lineage, ChartsOK, IndicesInside, RootReadable
<1> QED  BY <1>1, <1>2, <1>3 DEF IInv

-----------------------------------------------------------------------------
(* Preservation, one lemma per action.                                     *)

(* The fine level is clamped to the levels there are.                      *)
LEMMA SetFineLevelInv == IInv /\ SetFineLevel => IInv'
<1> SUFFICES ASSUME IInv, SetFineLevel PROVE IInv'
  OBVIOUS
<1> USE DEF IInv
<1>1. fine' \in Levels
  BY Shapes DEF SetFineLevel, ClampedLevel, Levels
<1>2. TypeOK'
  BY <1>1 DEF TypeOK, SetFineLevel, charts
<1>3. ControlOK'
  BY DEF ControlOK, SetFineLevel, Loop, TypeOK
<1>4. PreparseOK' /\ SeenOK' /\ ChartsOK'
  BY DEF SetFineLevel, PreparseOK, SeenOK, ChartsOK, Lineage, charts, Base
<1>5. IndicesInside' /\ RootReadable'
  BY DEF SetFineLevel, IndicesInside, RootReadable
<1> QED  BY <1>2, <1>3, <1>4, <1>5

(* An empty sentence has its result at once.                               *)
LEMMA ParseEmptyInv == IInv /\ ParseEmpty => IInv'
<1> SUFFICES ASSUME IInv, ParseEmpty PROVE IInv'
  OBVIOUS
<1> USE DEF IInv
<1>1. attempt = 0
  BY DEF ParseEmpty, ControlOK, TypeOK
<1>2. TypeOK'
  BY <1>1, Shapes DEF TypeOK, ParseEmpty, charts, Success, Levels
<1>3. ControlOK'
  BY <1>1 DEF ControlOK, ParseEmpty, Loop, TypeOK
<1>4. PreparseOK' /\ SeenOK' /\ ChartsOK'
  BY DEF ParseEmpty, PreparseOK, SeenOK, ChartsOK, Lineage, charts, Base
<1>5. IndicesInside' /\ RootReadable'
  BY DEF ParseEmpty, IndicesInside, RootReadable
<1> QED  BY <1>2, <1>3, <1>4, <1>5

(* Each attempt has charts of its own; the second stops below the level    *)
(* that failed, which is a level already scored.                           *)
LEMMA StartAttemptInv == IInv /\ StartAttempt => IInv'
<1> SUFFICES ASSUME IInv, StartAttempt PROVE IInv'
  OBVIOUS
<1> USE DEF IInv
<1>1. /\ pc = "call" /\ ~empty /\ pc' = "charts" /\ level' = 0
      /\ target' = TargetOf(attempt) /\ attempt' = attempt + 1
      /\ empty' = empty /\ m1' = m1 /\ fine' = fine /\ seen' = seen /\ result' = result
      /\ attempt \in {0, 1}
  BY DEF StartAttempt, ControlOK
<1>2. /\ target' \in Levels
      /\ attempt = 0 => target' = fine /\ seen = <<>>
      /\ attempt = 1 => target' < fine /\ target' < Len(seen)
  <2>1. CASE attempt = 0
    BY <1>1, <2>1 DEF TargetOf, TypeOK, ControlOK
  <2>2. CASE attempt = 1
    <3>1. result.final \in 1..fine /\ result.final <= Len(seen)
      BY <1>1, <2>2 DEF ControlOK
    <3>2. fine \in Levels /\ Len(seen) \in Nat
      BY DEF TypeOK
    <3> QED  BY <1>1, <2>2, <3>1, <3>2, Shapes DEF TargetOf, Levels
  <2> QED  BY <1>1, <2>1, <2>2
<1>3. /\ allowedTag' \in [Cells -> BOOLEAN]
      /\ m1 => (\A f \in preparse : allowedTag' = f) /\ preparse' = {allowedTag'}
      /\ ~m1 => preparse' = preparse
  BY DEF StartAttempt, PreparseOutcomes
<1>4. TypeOK'
  <2>1. allowedSub' \in [Cells -> SUBSET AllSubs] /\ width' \in [Cells -> Nat]
           /\ scores' \in [Cells -> Nat]
    BY DEF StartAttempt
  <2>2. preparse' \subseteq [Cells -> BOOLEAN]
    BY <1>3 DEF TypeOK
  <2> QED  BY <1>1, <1>2, <1>3, <2>1, <2>2, Shapes DEF TypeOK, Levels
<1>5. ControlOK'
  <2>1. Len(seen) \in Nat /\ fine \in Nat /\ target' \in Nat
    BY <1>2, Shapes DEF TypeOK, Levels
  <2>2. attempt = 0 => Len(seen) = 0
    BY <1>2
  <2> QED  BY <1>1, <1>2, <2>1, <2>2 DEF ControlOK, Loop
<1>6. PreparseOK'
  BY <1>1, <1>3 DEF PreparseOK
<1>7. seen # <<>> => preparse' = preparse
  <2> SUFFICES ASSUME seen # <<>>, m1 PROVE preparse' = preparse
    BY <1>3
  <2>1. PICK f \in [Cells -> BOOLEAN] : preparse = {f}
    BY <1>1 DEF PreparseOK, ControlOK
  <2> QED  BY <1>3, <2>1
<1>8. SeenOK'
  <2>1. Len(seen) > 0 => seen # <<>>
    OBVIOUS
  <2>2. Lineage'
    BY <1>1 DEF SeenOK, Lineage
  <2>3. Len(seen) > 0 => \A c \in Cells : Base(c)' = Base(c)
    BY <1>7, <2>1 DEF Base
  <2> QED  BY <1>1, <2>2, <2>3 DEF SeenOK
<1>9. ChartsOK'
  <2>1. m1 => \A c \in Cells : allowedTag'[c] = Base(c)'
    BY <1>3 DEF Base
  <2> QED  BY <1>1, <2>1 DEF ChartsOK
<1>10. IndicesInside' /\ RootReadable'
  BY <1>1 DEF IndicesInside, RootReadable
<1> QED  BY <1>4, <1>5, <1>6, <1>8, <1>9, <1>10

(* Vectors of allowed tags take the size of the level, and their flags are *)
(* the refinements of those the level before has left.                     *)
LEMMA InitializeChartsInv == IInv /\ InitializeCharts => IInv'
<1> SUFFICES ASSUME IInv, InitializeCharts PROVE IInv'
  OBVIOUS
<1> USE DEF IInv
<1>1. /\ pc = "charts" /\ pc' = "score" /\ level' = level /\ target' = target
      /\ empty' = empty /\ m1' = m1 /\ fine' = fine /\ attempt' = attempt
      /\ seen' = seen /\ preparse' = preparse /\ result' = result
  BY DEF InitializeCharts
<1>2. level \in Levels /\ level <= target /\ Len(seen) \in Nat
  BY <1>1, Shapes DEF TypeOK, ControlOK, Levels
<1>3. /\ allowedTag' = [c \in Cells |-> InitTag(c)]
      /\ allowedSub' = [c \in Cells |-> InitSub(c)]
      /\ width' = [c \in Cells |-> IF level = 0 \/ allowedTag[c]
                                     THEN NumSub[c[2]][level] ELSE width[c]]
      /\ scores' = [c \in Cells |-> IF level = 0 \/ allowedTag[c]
                                      THEN NumSub[c[2]][level] ELSE 0]
  BY DEF InitializeCharts
<1>4. \A c \in Cells : InitTag(c) \in BOOLEAN
  BY DEF InitTag, TypeOK
<1>5. \A c \in Cells : Refine(c) \subseteq Subs(c, level)
  BY DEF Refine
<1>6. \A c \in Cells : InitSub(c) \subseteq AllSubs
  BY <1>2, <1>5, Shapes DEF InitSub, TypeOK
<1>7. \A c \in Cells : allowedTag'[c] =>
        /\ width'[c] = NumSub[c[2]][level] /\ scores'[c] = NumSub[c[2]][level]
        /\ allowedSub'[c] \subseteq Subs(c, level)
  BY <1>2, <1>3, <1>5, Shapes DEF InitTag, InitSub
<1>8. TypeOK'
  <2>1. width' \in [Cells -> Nat] /\ scores' \in [Cells -> Nat]
    BY <1>2, <1>3, Shapes DEF TypeOK
  <2> QED  BY <1>1, <1>3, <1>4, <1>6, <2>1 DEF TypeOK
<1>9. ControlOK'
  BY <1>1 DEF ControlOK, Loop, MayRetry
<1>10. PreparseOK' /\ SeenOK'
  BY <1>1 DEF PreparseOK, SeenOK, Lineage, Base
<1>11. ASSUME level = 0 PROVE ChartsOK' /\ RootReadable'
  <2>1. \A c \in Cells : allowedTag'[c] = Base(c)
    <3>1. CASE m1
      BY <1>1, <1>3, <1>11, <3>1 DEF InitTag, ChartsOK
    <3>2. CASE ~m1
      BY <1>3, <1>11, <3>2 DEF InitTag, PreparseOK, Base
    <3> QED  BY <3>1, <3>2
  <2>2. allowedTag'[RootCell] => allowedSub'[RootCell] = {0}
    BY <1>3, <1>11, Shapes DEF InitSub
  <2>3. ChartsOK'
    <3>1. \A c \in Cells : Base(c)' = Base(c)
      BY <1>1 DEF Base
    <3> QED  BY <1>1, <1>11, <2>1, <2>2, <3>1 DEF ChartsOK
  <2>4. scores'[RootCell] > 0
    BY <1>2, <1>3, <1>11, Shapes
  <2>5. RootReadable'
    BY <1>1, <2>4 DEF RootReadable
  <2> QED  BY <2>3, <2>5
<1>12. ASSUME level > 0 PROVE ChartsOK' /\ RootReadable'
  <2>1. /\ level <= Len(seen) /\ allowedTag = seen[level].tag
        /\ allowedSub = seen[level].sub
        /\ allowedTag[RootCell] /\ allowedSub[RootCell] = {0}
    BY <1>1, <1>12 DEF ChartsOK
  <2>2. allowedTag' = allowedTag
    <3>1. \A c \in Cells : InitTag(c) = allowedTag[c]
      <4>1. level # 0
        BY <1>2, <1>12 DEF Levels
      <4> QED  BY <4>1 DEF InitTag
    <3> QED  BY <1>3, <3>1 DEF TypeOK
  <2>3. \A c \in Cells : allowedTag'[c] =>
          \A s \in allowedSub'[c] : Parent[c[2]][level][s] \in seen[level].sub[c]
    BY <1>3, <1>12, <2>1, <2>2 DEF InitSub, Refine
  <2>4. allowedSub'[RootCell] = {0}
    <3>1. Subs(RootCell, level) = {0} /\ Subs(RootCell, level - 1) = {0}
      BY <1>2, <1>12, Shapes DEF Levels
    <3>2. Parent[Root][level] \in [Subs(RootCell, level) -> Subs(RootCell, level - 1)]
      BY <1>2, <1>12, HierarchyAssumption, ShapeAssumption, Shapes DEF Subs
    <3>3. Parent[RootCell[2]][level][0] = 0
      BY <3>1, <3>2, Shapes
    <3>4. Refine(RootCell) = {0}
      BY <2>1, <3>1, <3>3 DEF Refine
    <3> QED  BY <1>3, <1>12, <2>1, <3>4, Shapes DEF InitSub
  <2>5. ChartsOK'
    BY <1>1, <1>12, <2>1, <2>2, <2>3, <2>4 DEF ChartsOK
  <2>6. RootReadable'
    BY <1>1, <1>2, <1>3, <2>1, Shapes DEF RootReadable
  <2> QED  BY <2>5, <2>6
<1>13. level = 0 \/ level > 0
  BY <1>2 DEF Levels
<1>14. IndicesInside'
  BY <1>1, <1>7 DEF IndicesInside, Current, Subs
<1> QED  BY <1>8, <1>9, <1>10, <1>11, <1>12, <1>13, <1>14

(* A level is rejected only if no attempt has scored it before.            *)
LEMMA RejectLevelInv == IInv /\ RejectLevel => IInv'
<1> SUFFICES ASSUME IInv, RejectLevel PROVE IInv'
  OBVIOUS
<1> USE DEF IInv
<1>1. /\ pc = "score" /\ pc' = "return" /\ result' = Failure(level)
      /\ level' = level /\ target' = target /\ ~Known(level)
      /\ empty' = empty /\ m1' = m1 /\ fine' = fine /\ attempt' = attempt
      /\ seen' = seen /\ preparse' = preparse
      /\ allowedTag' = allowedTag /\ allowedSub' = allowedSub
      /\ width' = width /\ scores' = scores
  BY DEF RejectLevel, charts
<1>2. level \in Levels /\ level <= target /\ target \in Levels /\ fine \in Levels
      /\ Len(seen) \in Nat /\ Len(seen) <= level
  BY <1>1, Shapes DEF TypeOK, ControlOK, Levels, Known
<1>3. attempt = 1 /\ ~empty /\ target = fine /\ Len(seen) = level
  BY <1>1, <1>2 DEF ControlOK, Loop, Levels
<1>4. TypeOK'
  BY <1>1, <1>2 DEF TypeOK, Failure, Levels
<1>5. ControlOK'
  BY <1>1, <1>2, <1>3 DEF ControlOK, Loop, Failure, Levels
<1>6. PreparseOK' /\ SeenOK' /\ ChartsOK'
  BY <1>1 DEF PreparseOK, SeenOK, ChartsOK, Lineage, Base
<1>7. IndicesInside' /\ RootReadable'
  BY <1>1 DEF IndicesInside, RootReadable
<1> QED  BY <1>4, <1>5, <1>6, <1>7

(* A level with a score goes on to be pruned.                              *)
LEMMA AcceptLevelInv == IInv /\ AcceptLevel => IInv'
<1> SUFFICES ASSUME IInv, AcceptLevel PROVE IInv'
  OBVIOUS
<1> USE DEF IInv
<1>1. /\ pc = "score" /\ pc' = "prune" /\ result' = result
      /\ level' = level /\ target' = target /\ allowedTag[RootCell]
      /\ empty' = empty /\ m1' = m1 /\ fine' = fine /\ attempt' = attempt
      /\ seen' = seen /\ preparse' = preparse
      /\ allowedTag' = allowedTag /\ allowedSub' = allowedSub
      /\ width' = width /\ scores' = scores
  BY DEF AcceptLevel, charts
<1>2. TypeOK' /\ PreparseOK' /\ SeenOK'
  BY <1>1 DEF TypeOK, PreparseOK, SeenOK, Lineage, Base
<1>3. ControlOK'
  BY <1>1 DEF ControlOK, Loop, MayRetry
<1>4. ChartsOK'
  BY <1>1 DEF ChartsOK, Base
<1>5. IndicesInside'
  BY <1>1 DEF IndicesInside, Current
<1>6. RootReadable'
  BY <1>1 DEF RootReadable, ChartsOK
<1> QED  BY <1>2, <1>3, <1>4, <1>5, <1>6

(* Retrieval reports the target level, whether or not it finds a tree.     *)
LEMMA RetrieveInv == IInv /\ Retrieve => IInv'
<1> SUFFICES ASSUME IInv, Retrieve PROVE IInv'
  OBVIOUS
<1> USE DEF IInv
<1>1. /\ pc = "retrieve" /\ pc' = "return"
      /\ result' = Success(target) \/ result' = Failure(target)
      /\ level' = level /\ target' = target
      /\ empty' = empty /\ m1' = m1 /\ fine' = fine /\ attempt' = attempt
      /\ seen' = seen /\ preparse' = preparse
      /\ allowedTag' = allowedTag /\ allowedSub' = allowedSub
      /\ width' = width /\ scores' = scores
  BY DEF Retrieve, charts
<1>2. /\ target \in Levels /\ fine \in Levels /\ Len(seen) \in Nat /\ level = target + 1
      /\ ~empty /\ attempt \in {1, 2}
      /\ attempt = 1 => target = fine /\ Len(seen) = level
      /\ attempt = 2 => target < fine /\ target < Len(seen)
  BY <1>1 DEF TypeOK, ControlOK, Loop
<1>3. TypeOK'
  <2>1. result' \in [succeeded : BOOLEAN, final : -1..(Depth - 1)]
    <3>1. target \in -1..(Depth - 1)
      BY <1>2, Shapes DEF Levels
    <3>2. Success(target) \in [succeeded : BOOLEAN, final : -1..(Depth - 1)]
      BY <3>1 DEF Success
    <3>3. Failure(target) \in [succeeded : BOOLEAN, final : -1..(Depth - 1)]
      BY <3>1 DEF Failure
    <3> QED  BY <1>1, <3>2, <3>3
  <2> QED  BY <1>1, <2>1 DEF TypeOK
<1>4. ControlOK'
  BY <1>1, <1>2 DEF ControlOK, Loop, Failure, Success, Levels
<1>5. PreparseOK' /\ SeenOK' /\ ChartsOK'
  BY <1>1 DEF PreparseOK, SeenOK, ChartsOK, Lineage, Base
<1>6. IndicesInside' /\ RootReadable'
  BY <1>1 DEF IndicesInside, RootReadable
<1> QED  BY <1>3, <1>4, <1>5, <1>6

(* A retry follows the first attempt only, and from above level 0.         *)
LEMMA RetryInv == IInv /\ Retry => IInv'
<1> SUFFICES ASSUME IInv, Retry PROVE IInv'
  OBVIOUS
<1> USE DEF IInv
<1>1. /\ pc = "return" /\ pc' = "call" /\ MayRetry /\ result' = result
      /\ level' = level /\ target' = target
      /\ empty' = empty /\ m1' = m1 /\ fine' = fine /\ attempt' = attempt
      /\ seen' = seen /\ preparse' = preparse
      /\ allowedTag' = allowedTag /\ allowedSub' = allowedSub
      /\ width' = width /\ scores' = scores
  BY DEF Retry, charts
<1>2. ~result.succeeded /\ result.final > 0 /\ attempt = 1
  BY <1>1 DEF MayRetry
<1>3. ~empty /\ result.final \in 1..fine /\ result.final <= Len(seen)
  <2>1. ~empty
    BY <1>1, <1>2 DEF ControlOK, Success
  <2>2. result = Failure(result.final) /\ result.final \in 0..fine
          /\ result.final <= Len(seen)
    BY <1>1, <1>2, <2>1 DEF ControlOK, Success
  <2> QED  BY <1>2, <2>1, <2>2 DEF TypeOK, Levels
<1>4. TypeOK' /\ PreparseOK' /\ SeenOK' /\ ChartsOK'
  BY <1>1 DEF TypeOK, PreparseOK, SeenOK, ChartsOK, Lineage, Base
<1>5. ControlOK'
  BY <1>1, <1>2, <1>3 DEF ControlOK, Loop
<1>6. IndicesInside' /\ RootReadable'
  BY <1>1 DEF IndicesInside, RootReadable
<1> QED  BY <1>4, <1>5, <1>6

(* What is returned when no retry is due is what ResultOK says.            *)
LEMMA FinishInv == IInv /\ Finish => IInv'
<1> SUFFICES ASSUME IInv, Finish PROVE IInv'
  OBVIOUS
<1> USE DEF IInv
<1>1. /\ pc = "return" /\ pc' = "done" /\ ~MayRetry /\ result' = result
      /\ level' = level /\ target' = target
      /\ empty' = empty /\ m1' = m1 /\ fine' = fine /\ attempt' = attempt
      /\ seen' = seen /\ preparse' = preparse
      /\ allowedTag' = allowedTag /\ allowedSub' = allowedSub
      /\ width' = width /\ scores' = scores
  BY DEF Finish, charts
<1>2. TypeOK' /\ PreparseOK' /\ SeenOK' /\ ChartsOK'
  BY <1>1 DEF TypeOK, PreparseOK, SeenOK, ChartsOK, Lineage, Base
<1>3. ControlOK'
  BY <1>1 DEF ControlOK, Loop, MayRetry
<1>4. IndicesInside' /\ RootReadable'
  BY <1>1 DEF IndicesInside, RootReadable
<1> QED  BY <1>2, <1>3, <1>4

(* What pruning leaves, whether or not the level was scored before, is the *)
(* chart recorded for the level, and follows from the level before.        *)
LEMMA PruneChartsInv == IInv /\ PruneCharts => IInv'
<1> SUFFICES ASSUME IInv, PruneCharts PROVE IInv'
  OBVIOUS
<1> USE DEF IInv
<1>1. /\ pc = "prune" /\ level' = level + 1 /\ target' = target
      /\ pc' = IF level = target THEN "retrieve" ELSE "charts"
      /\ empty' = empty /\ m1' = m1 /\ fine' = fine /\ attempt' = attempt
      /\ preparse' = preparse /\ result' = result /\ width' = width /\ scores' = scores
      /\ Pruned(allowedSub')
      /\ allowedTag' = [c \in Cells |-> allowedTag[c] /\ allowedSub'[c] # {}]
      /\ seen' = IF Known(level) THEN seen ELSE Append(seen, Chart(allowedTag', allowedSub'))
      /\ Known(level) => allowedSub' = seen[level + 1].sub
      /\ ~Known(level) => allowedSub' \in [Cells -> SUBSET AllSubs]
  BY DEF PruneCharts
<1> DEFINE Recorded == [tag : [Cells -> BOOLEAN], sub : [Cells -> SUBSET AllSubs]]
<1>2. /\ level \in Nat /\ level \in Levels /\ target \in Levels /\ level <= target
      /\ Depth \in Nat /\ Len(seen) \in Nat /\ seen \in Seq(Recorded)
      /\ ~empty /\ attempt \in {1, 2}
  BY <1>1, Shapes DEF TypeOK, ControlOK, Levels, Loop
<1>3. \A k \in 1..Len(seen) : seen[k].tag \in [Cells -> BOOLEAN]
                             /\ seen[k].sub \in [Cells -> SUBSET AllSubs]
  <2> SUFFICES ASSUME NEW k \in 1..Len(seen)
               PROVE  seen[k] \in Recorded
    OBVIOUS
  <2> HIDE DEF Recorded
  <2> QED  BY <1>2
<1>4. /\ attempt = 1 => Len(seen) = level /\ target = fine
      /\ attempt = 2 => target < Len(seen) /\ target < fine
  BY <1>1 DEF ControlOK, Loop
<1>5. Known(level) => attempt = 2 /\ level + 1 \in 1..Len(seen)
  BY <1>2, <1>4 DEF Known
<1>6. ~Known(level) => attempt = 1 /\ Len(seen) = level
  BY <1>2, <1>4 DEF Known, Levels
<1>7. allowedSub' \in [Cells -> SUBSET AllSubs] /\ allowedTag' \in [Cells -> BOOLEAN]
  BY <1>1, <1>3, <1>5
<1>8. \A c \in Cells : allowedTag'[c] => allowedTag[c] /\ allowedSub'[c] \subseteq allowedSub[c]
  BY <1>1 DEF Pruned
<1>9. allowedTag[RootCell] /\ allowedTag'[RootCell] /\ allowedSub'[RootCell] = {0}
  <2>1. allowedTag[RootCell] /\ allowedSub[RootCell] = {0}
    BY <1>1 DEF RootReadable
  <2>2. allowedSub'[RootCell] = {0}
    BY <1>1, <2>1 DEF Pruned
  <2> QED  BY <1>1, <2>1, <2>2, Shapes
<1>10. level = 0 => \A c \in Cells : allowedTag'[c] <=> Base(c) /\ allowedSub'[c] # {}
  <2> SUFFICES ASSUME level = 0, NEW c \in Cells
               PROVE  allowedTag'[c] <=> Base(c) /\ allowedSub'[c] # {}
    OBVIOUS
  <2>1. allowedTag[c] = Base(c)
    BY <1>1 DEF ChartsOK
  <2> QED  BY <1>1, <2>1
<1>11. level > 0 =>
         /\ \A c \in Cells : allowedTag'[c] <=> seen[level].tag[c] /\ allowedSub'[c] # {}
         /\ \A c \in Cells : allowedTag'[c] =>
              \A s \in allowedSub'[c] : Parent[c[2]][level][s] \in seen[level].sub[c]
  <2> SUFFICES ASSUME level > 0, NEW c \in Cells
               PROVE  /\ allowedTag'[c] <=> seen[level].tag[c] /\ allowedSub'[c] # {}
                      /\ allowedTag'[c] =>
                           \A s \in allowedSub'[c] : Parent[c[2]][level][s] \in seen[level].sub[c]
    OBVIOUS
  <2>1. allowedTag = seen[level].tag
    BY <1>1 DEF ChartsOK
  <2>2. allowedTag[c] => \A s \in allowedSub[c] : Parent[c[2]][level][s] \in seen[level].sub[c]
    BY <1>1 DEF ChartsOK
  <2>3. allowedTag'[c] <=> allowedTag[c] /\ allowedSub'[c] # {}
    BY <1>1
  <2> QED  BY <1>8, <2>1, <2>2, <2>3
<1>12. level = 0 \/ level > 0
  BY <1>2
<1>13. \A c \in Cells : Base(c)' = Base(c)
  BY <1>1 DEF Base
<1>14. /\ seen' \in Seq(Recorded)
       /\ level + 1 <= Len(seen')
       /\ seen'[level + 1].tag = allowedTag' /\ seen'[level + 1].sub = allowedSub'
       /\ \A k \in 1..Len(seen) : seen'[k] = seen[k]
       /\ Known(level) => Len(seen') = Len(seen)
       /\ ~Known(level) => Len(seen') = level + 1
  <2>1. CASE Known(level)
    <3>1. seen' = seen /\ allowedSub' = seen[level + 1].sub /\ level + 1 \in 1..Len(seen)
      BY <1>1, <1>5, <2>1
    <3>2. seen[level + 1].tag \in [Cells -> BOOLEAN]
      BY <1>3, <3>1
    <3>3. \A c \in Cells : allowedTag'[c] <=> seen[level + 1].tag[c]
      <4>1. CASE level = 0
        BY <1>10, <3>1, <4>1 DEF SeenOK
      <4>2. CASE level > 0
        <5>1. level \in 1..(Len(seen) - 1)
          BY <1>2, <3>1, <4>2
        <5> QED  BY <1>11, <3>1, <4>2, <5>1 DEF SeenOK
      <4> QED  BY <1>12, <4>1, <4>2
    <3>4. allowedTag' = seen[level + 1].tag
      BY <1>7, <3>2, <3>3
    <3> QED  BY <1>2, <2>1, <3>1, <3>4
  <2>2. CASE ~Known(level)
    <3>1. seen' = Append(seen, Chart(allowedTag', allowedSub')) /\ Len(seen) = level
      BY <1>1, <1>6, <2>2
    <3>2. Chart(allowedTag', allowedSub') \in Recorded
      BY <1>7 DEF Chart
    <3> QED  BY <1>2, <2>2, <3>1, <3>2 DEF Chart
  <2> QED  BY <2>1, <2>2
<1>15. TypeOK'
  <2>1. level' \in 0..Depth
    BY <1>1, <1>2 DEF Levels
  <2> QED  BY <1>1, <1>7, <1>14, <2>1 DEF TypeOK
<1>16. ControlOK'
  <2>1. level' \in Nat /\ target \in Nat /\ Len(seen') \in Nat /\ fine \in Nat
    BY <1>1, <1>2, <1>14 DEF TypeOK, Levels
  <2>2. /\ pc' \in {"charts", "retrieve"}
        /\ pc' = "charts" => level' <= target
        /\ pc' = "retrieve" => level' = target + 1
    BY <1>1, <1>2 DEF Levels
  <2>3. /\ attempt = 1 => Len(seen') = level'
        /\ attempt = 2 => target < Len(seen')
    BY <1>1, <1>4, <1>5, <1>6, <1>14
  <2> QED  BY <1>1, <1>2, <1>4, <2>1, <2>2, <2>3 DEF ControlOK, Loop
<1>17. PreparseOK'
  BY <1>1 DEF PreparseOK
<1>18. SeenOK'
  <2>1. CASE Known(level)
    <3>1. seen' = seen
      BY <1>1, <2>1
    <3> QED  BY <1>13, <3>1 DEF SeenOK, Lineage
  <2>2. CASE ~Known(level)
    <3>1. Len(seen) = level /\ Len(seen') = level + 1
      BY <1>6, <1>14, <2>2
    <3>2. ASSUME NEW k \in 1..(Len(seen') - 1), NEW c \in Cells
          PROVE  /\ seen'[k + 1].tag[c] <=> seen'[k].tag[c] /\ seen'[k + 1].sub[c] # {}
                 /\ seen'[k + 1].tag[c] =>
                      \A s \in seen'[k + 1].sub[c] : Parent[c[2]][k][s] \in seen'[k].sub[c]
      <4>1. CASE k = level
        <5>1. level > 0 /\ seen'[k] = seen[level]
          BY <1>2, <1>14, <3>1, <4>1
        <5> QED  BY <1>11, <1>14, <4>1, <5>1
      <4>2. CASE k # level
        <5>1. k \in 1..(Len(seen) - 1) /\ seen'[k] = seen[k] /\ seen'[k + 1] = seen[k + 1]
          BY <1>2, <1>14, <3>1, <4>2
        <5> QED  BY <5>1 DEF SeenOK, Lineage
      <4> QED  BY <4>1, <4>2
    <3>3. \A c \in Cells : seen'[1].tag[c] <=> Base(c) /\ seen'[1].sub[c] # {}
      <4>1. CASE level = 0
        BY <1>10, <1>14, <4>1
      <4>2. CASE level > 0
        <5>1. seen'[1] = seen[1] /\ Len(seen) > 0
          BY <1>2, <1>14, <3>1, <4>2
        <5> QED  BY <5>1 DEF SeenOK
      <4> QED  BY <1>12, <4>1, <4>2
    <3>4. Lineage'
      BY <3>2 DEF Lineage
    <3> QED  BY <1>13, <3>2, <3>3, <3>4 DEF SeenOK
  <2> QED  BY <2>1, <2>2
<1>19. ChartsOK'
  BY <1>1, <1>2, <1>9, <1>14 DEF ChartsOK
<1>20. IndicesInside'
  <2> SUFFICES ASSUME pc' = "retrieve", NEW c \in Cells, allowedTag'[c]
               PROVE  /\ width[c] = NumSub[c[2]][target] /\ scores[c] = width[c]
                      /\ allowedSub'[c] \subseteq 0..(width[c] - 1)
    BY <1>1 DEF IndicesInside, Current
  <2>1. level = target
    BY <1>1
  <2> QED  BY <1>1, <1>8, <2>1 DEF IndicesInside, Current
<1>21. RootReadable'
  BY <1>1, <1>9 DEF RootReadable
<1> QED  BY <1>15, <1>16, <1>17, <1>18, <1>19, <1>20, <1>21

(* The invariant is inductive.                                             *)
LEMMA StepInv == IInv /\ [Next]_vars => IInv'
<1> SUFFICES ASSUME IInv, [Next]_vars PROVE IInv'
  OBVIOUS
<1>1. CASE UNCHANGED vars
  <2>0. TypeOK' /\ PreparseOK'
    BY <1>1 DEF vars, charts, IInv, TypeOK, PreparseOK
  <2>1. ControlOK'
    BY <1>1 DEF vars, charts, IInv, ControlOK, MayRetry
  <2>2. SeenOK' /\ ChartsOK' /\ IndicesInside' /\ RootReadable'
    BY <1>1 DEF vars, IInv, SeenOK, Lineage, ChartsOK, Base, IndicesInside, Current, RootReadable
  <2> QED  BY <2>0, <2>1, <2>2 DEF IInv
<1> QED
  BY <1>1, SetFineLevelInv, ParseEmptyInv, StartAttemptInv, InitializeChartsInv,
     RejectLevelInv, AcceptLevelInv, PruneChartsInv, RetrieveInv, RetryInv, FinishInv
  DEF Next

-----------------------------------------------------------------------------
(* Every variable keeps its type, and an attempt's charts are always those *)
(* the recorded levels determine.                                          *)
THEOREM Invariance == Spec => []IInv
<1>1. Init => IInv
  BY InitInv
<1>2. IInv /\ [Next]_vars => IInv'
  BY StepInv
<1> QED  BY <1>1, <1>2, PTL DEF Spec, SafeSpec

(* Every variable keeps its type.                                          *)
THEOREM TypeCorrect == Spec => []TypeOK
<1>1. IInv => TypeOK
  BY DEF IInv
<1> QED  BY <1>1, Invariance, PTL

(* No pass over the charts indexes a vector outside its current size.      *)
THEOREM IndexSafety == Spec => []IndicesInside
<1>1. IInv => IndicesInside
  BY DEF IInv
<1> QED  BY <1>1, Invariance, PTL

(* The score of the sentence can always be read, at subtag 0 of ROOT, and  *)
(* no pruning disallows ROOT over the whole sentence.                      *)
THEOREM RootSafety == Spec => []RootReadable
<1>1. IInv => RootReadable
  BY DEF IInv
<1> QED  BY <1>1, Invariance, PTL

(* What a level allows descends from what every coarser level left.        *)
THEOREM Narrowing == Spec => []Lineage
<1>1. IInv => Lineage
  BY DEF IInv, SeenOK
<1> QED  BY <1>1, Invariance, PTL

(* The second attempt is never turned down by the score of the sentence.   *)
THEOREM RetryReachesTarget == Spec => []RetryNotRejected
<1>1. IInv => RetryNotRejected
  BY Shapes DEF IInv, ControlOK, RetryNotRejected, Known, TypeOK, Levels
<1> QED  BY <1>1, Invariance, PTL

(* parse() reports the level its result really comes from.                 *)
THEOREM ResultLevels == Spec => []ResultOK
<1>1. IInv => ResultOK
  <2> SUFFICES ASSUME IInv, pc = "done" PROVE ResultOK
    BY DEF ResultOK
  <2>1. attempt \in {1, 2} /\ ~MayRetry /\ Len(seen) \in Nat /\ target \in Nat
    BY Shapes DEF IInv, ControlOK, TypeOK, Levels
  <2>2. empty => result = Success(-1)
    BY DEF IInv, ControlOK
  <2>3. CASE ~empty /\ attempt = 2
    BY <2>1, <2>3 DEF IInv, ControlOK, ResultOK
  <2>4. CASE ~empty /\ attempt = 1
    <3>1. \/ result = Success(fine)
          \/ result = Failure(result.final) /\ result.final \in 0..fine
      BY <2>4 DEF IInv, ControlOK
    <3>2. CASE result = Success(fine)
      BY <2>4, <3>2 DEF ResultOK
    <3>3. CASE result = Failure(result.final) /\ result.final \in 0..fine
      <4>1. ~(result.final > 0)
        BY <2>1, <2>4, <3>3 DEF MayRetry, Failure
      <4>2. result.final = 0
        BY <3>3, <4>1, Shapes DEF IInv, TypeOK, Levels
      <4> QED  BY <2>4, <3>3, <4>2 DEF ResultOK
    <3> QED  BY <3>1, <3>2, <3>3
  <2> QED  BY <2>1, <2>2, <2>3, <2>4 DEF ResultOK
<1> QED  BY <1>1, Invariance, PTL
=============================================================================
