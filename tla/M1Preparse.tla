----------------------------- MODULE M1Preparse -----------------------------
(***************************************************************************)
(* LAPCFGParser::doM1Preparse: before the coarsest level, the sentence is  *)
(* parsed with the G-1 grammar, in which all phrasal tags are one symbol X *)
(* (stored under ROOT), and only constituents of a sufficient posterior    *)
(* are left to level 0.                                                    *)
(*                                                                         *)
(* Level 0 is a LAPCFGModel of one level.  The expected counts by which    *)
(* M1ModelProjector weighs the rules of a tag are any numbers that are     *)
(* positive where its iteration reaches; scaling factors cancel, as in     *)
(* LAPCFGModel.                                                            *)
(***************************************************************************)
EXTENDS LAPCFGModel, ParseTrees

CONSTANTS NumWords,
          Sentences,   \* sequences of tokens [wid, tid]
          Models,      \* level-0 models that may be loaded
          Weights,     \* functions from tags to expected counts
          Thresholds, ThresholdDen, \* prune_threshold_
          Partial      \* setting.partial

(* setPruningThreshold refuses what is not between 0 and 1.  ROOT derives  *)
(* no word: M1ModelProjector has it for all the tags that do not.          *)
ASSUME InputAssumption ==
  /\ NumWords \in Nat \ {0}
  /\ \A m \in Models : IsModel(m, 0) /\ RootTag \notin LexicalTags(m)
  /\ \A w \in Weights : \A t \in TagIds : w[t] \in Nat
  /\ ThresholdDen \in Nat \ {0} /\ Thresholds \subseteq 0..ThresholdDen

NoTag == -1

Spans == {s \in (0..NumWords) \X (0..NumWords) : s[1] < s[2]}
Cells == Spans \X TagIds
Whole == <<0, NumWords>>

VARIABLES pc,  \* "terminals", "inside", "root", "outside", "prune", "done"
          sentence, model, weight, threshold, inside, outside, allowedTag,
          span  \* begin and end of the loops

vars == <<pc, sentence, model, weight, threshold, inside, outside, allowedTag, span>>
input == <<sentence, model, weight, threshold>>

Lexicals == LexicalTags(model)
Abstract(b) == Partial /\ sentence[b + 1].tid # NoTag

(* M1ModelProjector: phrasal tags become X, and every parent does.         *)
X == <<RootTag, 0>>
Up(S) == IF S[1] \in Lexicals THEN S ELSE X

M1Model ==
  LET w(r) == weight[r[1][1]]
  IN  [bin |-> ProjectTable(model.bin, LAMBDA r : <<X, Up(r[2]), Up(r[3])>>, w),
       una |-> ProjectTable(model.una, LAMBDA r : <<X, Up(r[2])>>, w),
       lex |-> model.lex]

Binary(l, r) == LET e == <<X, <<l, 0>>, <<r, 0>>>>
                IN  IF e \in DOMAIN M1Model.bin THEN M1Model.bin[e] ELSE 0
Unary(c) == LET e == <<X, <<c, 0>>>>
            IN  IF e \in DOMAIN M1Model.una THEN M1Model.una[e] ELSE 0

FirstSpan == <<0, 1>>
LastSpan == <<NumWords - 1, NumWords>>

(* Mutant: one span of each length too many.                               *)
NextSpanPast(s) == IF s[2] <= NumWords THEN <<s[1] + 1, s[2] + 1>> ELSE <<0, s[2] - s[1] + 1>>

(* From the shortest spans to the longest, and back.                       *)
NextSpan(s) == IF s[2] < NumWords THEN <<s[1] + 1, s[2] + 1>> ELSE <<0, s[2] - s[1] + 1>>

PreviousSpan(s) == IF s[2] < NumWords THEN <<s[1] + 1, s[2] + 1>> ELSE <<0, s[2] - s[1] - 1>>

(* M1ModelProjector counts from ROOT on, and every rule with a score hands *)
(* the count of its parent down.                                           *)
Counts(m, w) ==
  /\ w[RootTag] > 0
  /\ \A r \in DOMAIN m.bin : w[r[1][1]] > 0 /\ m.bin[r] > 0 => w[r[2][1]] > 0 /\ w[r[3][1]] > 0
  /\ \A r \in DOMAIN m.una : w[r[1][1]] > 0 /\ m.una[r] > 0 => w[r[2][1]] > 0

Init ==
  /\ pc = "terminals"
  /\ sentence \in Sentences /\ model \in Models /\ threshold \in Thresholds
  /\ weight \in {w \in Weights : Counts(model, w)}
  /\ inside = [c \in Cells |-> 0] /\ outside = [c \in Cells |-> 0]
  /\ allowedTag = [c \in Cells |-> FALSE] /\ span = FirstSpan

(* Mutant: no smoothing for the words that are not in the table.           *)
TerminalUnsmoothed(b, t) ==
  IF Abstract(b) THEN (IF t = RootTag THEN 1 ELSE 0)
                 ELSE Entry(model, <<t, 0>>, sentence[b + 1].wid)

(* An abstract tag counts as a phrase, whatever the tag is.                *)
Terminal(b, t) ==
  IF Abstract(b) THEN (IF t = RootTag THEN 1 ELSE 0)
                 ELSE WordScore(model, <<t, 0>>, sentence[b + 1].wid)

SetTerminals ==
  /\ pc = "terminals"
  /\ inside' = [c \in Cells |-> IF c[1][2] = c[1][1] + 1 THEN Terminal(c[1][1], c[2]) ELSE 0]
  /\ pc' = "inside"
  /\ UNCHANGED <<input, outside, allowedTag, span>>

M1Tags == Lexicals \cup {RootTag}
Pairs == M1Tags \X M1Tags
(* Mutant: the last split point is left out.                               *)
MidsShort(s) == (s[1] + 1)..(s[2] - 2)

Mids(s) == (s[1] + 1)..(s[2] - 1)

BinarySum(s) ==
  SumOver(Pairs \X Mids(s),
          LAMBDA u : Binary(u[1][1], u[1][2]) * inside[<<<<s[1], u[2]>>, u[1][1]>>]
                                              * inside[<<<<u[2], s[2]>>, u[1][2]>>])

UnarySum(s) == SumOver(Lexicals, LAMBDA t : Unary(t) * inside[<<s, t>>])

InsideSpan ==
  /\ pc = "inside"
  /\ inside' = [inside EXCEPT ![<<span, RootTag>>] =
                  (IF span[2] - span[1] > 1 THEN BinarySum(span) ELSE @) + UnarySum(span)]
  /\ span' = IF span = Whole THEN span ELSE NextSpan(span)
  /\ pc' = IF span = Whole THEN "root" ELSE "inside"
  /\ UNCHANGED <<input, outside, allowedTag>>

StartOutside ==
  /\ pc = "root"
  /\ outside' = [outside EXCEPT ![<<Whole, RootTag>>] = 1]
  /\ pc' = "outside"
  /\ UNCHANGED <<input, inside, allowedTag, span>>

Above == outside[<<span, RootTag>>]

(* What the unary rules of the span, and its binary rules to the left and  *)
(* to the right child, add to the outside score of a cell.                 *)
UnaryShare(c) ==
  IF c[1] = span /\ c[2] \in Lexicals THEN Unary(c[2]) * Above ELSE 0

LeftShare(c) ==
  IF c[1][1] = span[1] /\ c[1][2] \in Mids(span) /\ c[2] \in M1Tags
    THEN SumOver(M1Tags, LAMBDA r : Binary(c[2], r) * Above * inside[<<<<c[1][2], span[2]>>, r>>])
    ELSE 0

RightShare(c) ==
  IF c[1][2] = span[2] /\ c[1][1] \in Mids(span) /\ c[2] \in M1Tags
    THEN SumOver(M1Tags, LAMBDA l : Binary(l, c[2]) * Above * inside[<<<<span[1], c[1][1]>>, l>>])
    ELSE 0

OutsideSpan ==
  /\ pc = "outside"
  /\ outside' = [c \in Cells |-> outside[c] + UnaryShare(c) + LeftShare(c) + RightShare(c)]
  /\ span' = IF span = LastSpan THEN span ELSE PreviousSpan(span)
  /\ pc' = IF span = LastSpan THEN "prune" ELSE "outside"
  /\ UNCHANGED <<input, inside, allowedTag>>

(* Mutant: what just reaches the threshold is pruned.                      *)
KeptStrictly(s, t) ==
  inside[<<s, t>>] * outside[<<s, t>>] * ThresholdDen > threshold * inside[<<Whole, RootTag>>]

Kept(s, t) ==
  inside[<<s, t>>] * outside[<<s, t>>] * ThresholdDen >= threshold * inside[<<Whole, RootTag>>]

Prune ==
  /\ pc = "prune"
  /\ allowedTag' = [c \in Cells |-> Kept(c[1], IF c[2] \in Lexicals THEN c[2] ELSE RootTag)]
  /\ pc' = "done"
  /\ UNCHANGED <<input, inside, outside, span>>

Next == SetTerminals \/ InsideSpan \/ StartOutside \/ OutsideSpan \/ Prune

Spec == Init /\ [][Next]_vars

-----------------------------------------------------------------------------
(* The trees of the G-1 grammar and those of level 0, without any chart.   *)
M1Trees ==
  TreesOver(NumWords, M1Model,
            LAMBDA b : [S \in {<<t, 0>> : t \in TagIds} |-> Terminal(b, S[1])],
            LAMBDA s, S : TRUE)

Level0Terminal(b, S) ==
  IF Abstract(b) THEN (IF S[1] = sentence[b + 1].tid THEN 1 ELSE 0)
                 ELSE WordScore(model, S, sentence[b + 1].wid)

(* The rules level 0 uses: those with a score, of a tag without words.     *)
Used(f) == [r \in {q \in DOMAIN f : q[1][1] \notin Lexicals /\ f[q] > 0} |-> f[r]]
Level0Model == [bin |-> Used(model.bin), una |-> Used(model.una)]

Level0Trees ==
  TreesOver(NumWords, Level0Model, LAMBDA b : [S \in {<<t, 0>> : t \in TagIds} |-> Level0Terminal(b, S)],
            LAMBDA s, S : TRUE)

Complete(trees) == {t \in trees[Whole] : t.sym = X}

LexicalToken(b) == Abstract(b) /\ sentence[b + 1].tid \in Lexicals

(* The type of every variable.                                             *)
TypeOK ==
  /\ pc \in {"terminals", "inside", "root", "outside", "prune", "done"}
  /\ sentence \in Sentences /\ model \in Models /\ weight \in Weights /\ threshold \in Thresholds
  /\ inside \in [Cells -> Nat] /\ outside \in [Cells -> Nat]
  /\ allowedTag \in [Cells -> BOOLEAN] /\ span \in Spans

(* The preparse prunes by exact posteriors: after the two passes, inside   *)
(* times outside is the total score of the G-1 trees through a cell.       *)
PosteriorExact ==
  pc = "prune" =>
    LET complete == Complete(M1Trees)
    IN  \A s \in Spans, t \in M1Tags :
          inside[<<s, t>>] * outside[<<s, t>>] =
            ScoreOf({tree \in complete : <<s, <<t, 0>>>> \in tree.cells})

(* The preparse never rules out a constituent for want of a G-1 rule: all  *)
(* that occurs in a level-0 parse has a positive posterior, so that only   *)
(* the threshold can prune it.  (An abstract lexical tag is the exception: *)
(* see PartialTagAllowed.)                                                 *)
CoversLevel0 ==
  pc = "prune" /\ (\A b \in 0..(NumWords - 1) : ~LexicalToken(b)) =>
    \A tree \in Complete(Level0Trees) : \A x \in tree.cells :
      LET t == Up(x[2])[1] IN inside[<<x[1], t>>] * outside[<<x[1], t>>] > 0

(* A preparse that finds no parse itself prunes nothing, and one that does *)
(* leaves ROOT over the whole sentence: it never fails the sentence alone. *)
RootSurvives ==
  pc = "done" =>
    /\ allowedTag[<<Whole, RootTag>>]
    /\ inside[<<Whole, RootTag>>] = 0 => \A c \in Cells : allowedTag[c]

(* Stated by the options --partial and --do-m1-preparse, which may be      *)
(* given together: the abstract tags in a sentence are parsed, so a tag    *)
(* over its own position that is in a level-0 parse is left to level 0.    *)
(* Refuted for lexical tags, which the preparse enters as phrases.         *)
PartialTagAllowed ==
  pc = "done" /\ Complete(Level0Trees) # {} =>
    \A b \in 0..(NumWords - 1) : Abstract(b) => allowedTag[<<<<b, b + 1>>, sentence[b + 1].tid>>]
=============================================================================
