---------------------------- MODULE ChartParser ----------------------------
(***************************************************************************)
(* LAPCFGParser::generateMaxRuleOneBestParse with its scores: the charts,  *)
(* the inside pass with its extents, the outside pass, the pruning and the *)
(* retry of parse().  One action is one pass over a span, or the part of   *)
(* it that belongs to one parent tag where the order of the tags matters.  *)
(* Scores are exact naturals (see LAPCFGModel); rounding, underflow and    *)
(* the M1 preparse are not modelled here.                                  *)
(***************************************************************************)
EXTENDS LAPCFGModel, ParseTrees

CONSTANTS NumWords,      \* length of the sentences that are not empty
          Sentences,     \* sequences of tokens [wid, tid]; tid = NoTag for a word
          FinestModels,  \* the models that may be loaded
          Thresholds,    \* numerators of prune_threshold_
          ThresholdDen,
          Partial        \* setting.partial

NoTag == -1

(* setPruningThreshold refuses what is not between 0 and 1, and the file   *)
(* of a model holds finitely many rules of its own subtags.                *)
ASSUME InputAssumption ==
  /\ NumWords \in Nat \ {0}
  /\ ThresholdDen \in Nat /\ Thresholds \subseteq 0..ThresholdDen
  /\ \A m \in FinestModels : IsModel(m, Depth - 1)

(* ROOT is below no rule.  In data/ one line of either grammar has it      *)
(* there, the rule from ROOT to itself that the loader skips.              *)
ASSUME RootAssumption ==
  \A m \in FinestModels :
    /\ \A r \in DOMAIN m.bin : RootTag \notin {r[2][1], r[3][1]}
    /\ \A r \in DOMAIN m.una : r[2][1] # RootTag

Spans == {s \in (0..NumWords) \X (0..NumWords) : s[1] < s[2]}
Cells == Spans \X TagIds
Whole == <<0, NumWords>>
RootCell == <<Whole, RootTag>>

VARIABLES
  pc,
  sentence, models, threshold, fine,  \* inputs of the call
  attempt, target, level, result,     \* control, as in CoarseToFine
  allowedTag, allowedSub,             \* flags; a vector is a function on 0 .. size - 1
  inside, outside, extent,
  pos,          \* span (len, begin) and parent tag of the next step of a pass
  seen,         \* history: the flags each scored level has left
  retrievable   \* history: the levels at which a tree could be retrieved

flags == <<allowedTag, allowedSub>>
input == <<sentence, models, threshold, fine>>
control == <<attempt, target, level, result>>
history == <<seen, retrievable>>
vars == <<pc, input, control, flags, inside, outside, extent, pos, history>>

Vector(n, v) == [s \in 0..(n - 1) |-> v]
Size(v) == Cardinality(DOMAIN v)
NoVector == Vector(0, 0)

Model == models[level]
Lexicals == LexicalTags(Model)
Token(b) == sentence[b + 1]
Abstract(b) == Partial /\ Token(b).tid # NoTag

Failure(l) == [succeeded |-> FALSE, final |-> l]
Success(l) == [succeeded |-> TRUE, final |-> l]

FreshFlags ==
  /\ allowedTag' = [c \in Cells |-> FALSE]
  /\ allowedSub' = [c \in Cells |-> NoVector]
  /\ inside' = [c \in Cells |-> NoVector]
  /\ outside' = [c \in Cells |-> NoVector]

(* The ends of the spans a tag is known to have, from each position.       *)
FreshExtent == [nr |-> NumWords + 1, nl |-> -1, wr |-> -1, wl |-> NumWords + 1]
FreshExtents == [p \in 0..NumWords |-> [t \in TagIds |-> FreshExtent]]

FirstSpan == [len |-> 1, begin |-> 0, tag |-> 0]
LastSpan == [len |-> NumWords, begin |-> 0, tag |-> 0]

Init ==
  /\ pc = "setup"
  /\ sentence \in Sentences /\ threshold \in Thresholds /\ models = <<>> /\ fine = 0
  /\ attempt = 0 /\ target = 0 /\ level = 0 /\ result = Failure(-1)
  /\ allowedTag = [c \in Cells |-> FALSE]
  /\ allowedSub = [c \in Cells |-> NoVector]
  /\ inside = [c \in Cells |-> NoVector] /\ outside = [c \in Cells |-> NoVector]
  /\ extent = FreshExtents /\ pos = FirstSpan
  /\ seen = <<>> /\ retrievable = {}

-----------------------------------------------------------------------------
(* loadFromBerkeleyDump and the fine level, an option.                     *)
Load ==
  /\ pc = "setup"
  /\ \E m \in FinestModels : models' = ModelsOf(m)
  /\ fine' \in AllLevels
  /\ pc' = "call"
  /\ UNCHANGED <<sentence, threshold, control, flags, inside, outside, extent, pos, history>>

ParseEmpty ==
  /\ pc = "call" /\ sentence = <<>>
  /\ result' = Success(-1) /\ attempt' = attempt + 1
  /\ pc' = "return"
  /\ UNCHANGED <<input, target, level, flags, inside, outside, extent, pos, history>>

(* Mutant: the level that failed is tried again.                           *)
TargetOfSame(n) == IF n = 0 THEN fine ELSE result.final

TargetOf(n) == IF n = 0 THEN fine ELSE result.final - 1

StartAttempt ==
  /\ pc = "call" /\ sentence # <<>>
  /\ target' = TargetOf(attempt) /\ attempt' = attempt + 1 /\ level' = 0
  /\ FreshFlags
  /\ extent' = FreshExtents /\ pos' = FirstSpan
  /\ pc' = "charts"
  /\ UNCHANGED <<input, result, history>>

-----------------------------------------------------------------------------
(* initializeCharts.                                                       *)
RefinedSub(c) ==
  [s \in 0..(NumSub[c[2]][level] - 1) |-> allowedSub[c][Parent[c[2]][level][s]]]

InitSub(c) == IF level = 0 THEN Vector(1, TRUE)
              ELSE IF allowedTag[c] THEN RefinedSub(c) ELSE allowedSub[c]

InitScores(c) == IF level = 0 THEN Vector(1, 0)
                 ELSE IF allowedTag[c] THEN Vector(NumSub[c[2]][level], 0) ELSE NoVector

(* Mutant: the ends of the sentence are not tested.                        *)
InitExtentUnchecked(p, t) == [nr |-> p + 1, wr |-> p + 1, nl |-> p - 1, wl |-> p - 1]

InitExtent(p, t) ==
  [nr |-> IF p < NumWords THEN p + 1 ELSE extent[p][t].nr,
   wr |-> IF p < NumWords THEN p + 1 ELSE extent[p][t].wr,
   nl |-> IF p > 0 THEN p - 1 ELSE extent[p][t].nl,
   wl |-> IF p > 0 THEN p - 1 ELSE extent[p][t].wl]

InitTags == [c \in Cells |-> level = 0 \/ allowedTag[c]]
InitSubs == [c \in Cells |-> InitSub(c)]
InitCharts == [c \in Cells |-> InitScores(c)]
InitExtents == [p \in 0..NumWords |-> [t \in TagIds |-> InitExtent(p, t)]]

InitializeCharts ==
  /\ pc = "charts"
  /\ allowedTag' = InitTags /\ allowedSub' = InitSubs
  /\ inside' = InitCharts /\ outside' = InitCharts /\ extent' = InitExtents
  /\ pc' = "terminals"
  /\ UNCHANGED <<input, control, pos, history>>

(* setTerminalScores: an abstract tag in the sentence has score 1.         *)
Terminal(model, b, S) ==
  IF Abstract(b) THEN (IF S[1] = Token(b).tid THEN 1 ELSE 0)
                 ELSE WordScore(model, S, Token(b).wid)

TerminalScores ==
  [c \in Cells |->
     IF c[1][2] = c[1][1] + 1 /\ allowedTag[c]
       THEN [s \in DOMAIN inside[c] |-> IF allowedSub[c][s] THEN Terminal(Model, c[1][1], <<c[2], s>>) ELSE 0]
       ELSE inside[c]]

SetTerminals ==
  /\ pc = "terminals"
  /\ inside' = TerminalScores
  /\ pos' = FirstSpan
  /\ pc' = "unary"
  /\ UNCHANGED <<input, control, flags, outside, extent, history>>

-----------------------------------------------------------------------------
(* calculateInsideScores.                                                  *)
Usable(c, S) == allowedTag[c] /\ allowedSub[c][S[2]]

(* Mutant: the nearest end of a tag is excluded.                           *)
MidsStrict(b, e, ltag, rtag) ==
  {m \in (b + 1)..(e - 1) :
     /\ extent[b][ltag].nr < m /\ m <= extent[b][ltag].wr
     /\ extent[e][rtag].wl <= m /\ m <= extent[e][rtag].nl}

(* The split points the extents admit for a left and a right tag.          *)
Mids(b, e, ltag, rtag) ==
  {m \in (b + 1)..(e - 1) :
     /\ extent[b][ltag].nr <= m /\ m <= extent[b][ltag].wr
     /\ extent[e][rtag].wl <= m /\ m <= extent[e][rtag].nl}

(* The uses of the rules of one parent tag over a span: rule, split point. *)
BinaryUses(s, ptag) ==
  LET b == s[1]
      e == s[2]
      split(r) == {m \in Mids(b, e, r[2][1], r[3][1]) :
                     /\ Usable(<<<<b, m>>, r[2][1]>>, r[2])
                     /\ Usable(<<<<m, e>>, r[3][1]>>, r[3])
                     /\ m - b > 1 => r[2][1] \notin Lexicals
                     /\ e - m > 1 => r[3][1] \notin Lexicals}
  IN  IF allowedTag[<<s, ptag>>] /\ ptag \notin Lexicals
        THEN UNION {{<<r, m>> : m \in split(r)} :
               r \in {q \in DOMAIN Model.bin : q[1][1] = ptag /\ allowedSub[<<s, ptag>>][q[1][2]]}}
        ELSE {}

LeftScore(s, u) == inside[<<<<s[1], u[2]>>, u[1][2][1]>>][u[1][2][2]]
RightScore(s, u) == inside[<<<<u[2], s[2]>>, u[1][3][1]>>][u[1][3][2]]

Productive(s, ptag) ==
  {u \in BinaryUses(s, ptag) :
     Model.bin[u[1]] > 0 /\ LeftScore(s, u) > 0 /\ RightScore(s, u) > 0}

BinarySum(s, ptag, psub) ==
  SumOver({u \in Productive(s, ptag) : u[1][1][2] = psub},
          LAMBDA u : Model.bin[u[1]] * LeftScore(s, u) * RightScore(s, u))

(* The extents of a tag grow when a binary rule has derived it.            *)
Widened(s, t) ==
  LET b == s[1]
      e == s[2]
      left == extent[e][t]
      right == extent[b][t]
  IN  [extent EXCEPT
         ![e][t] = IF b > left.nl THEN [left EXCEPT !.nl = b, !.wl = b]
                   ELSE IF b < left.wl THEN [left EXCEPT !.wl = b] ELSE left,
         ![b][t] = IF e < right.nr THEN [right EXCEPT !.nr = e, !.wr = e]
                   ELSE IF e > right.wr THEN [right EXCEPT !.wr = e] ELSE right]

Span == <<pos.begin, pos.begin + pos.len>>

BinaryScores ==
  LET c == <<Span, pos.tag>>
  IN  IF allowedTag[c] /\ pos.tag \notin Lexicals
        THEN [inside EXCEPT ![c] = [s \in DOMAIN inside[c] |->
               IF allowedSub[c][s] THEN BinarySum(Span, pos.tag, s) ELSE inside[c][s]]]
        ELSE inside

BinaryExtents == IF Productive(Span, pos.tag) # {} THEN Widened(Span, pos.tag) ELSE extent

InsideBinary ==
  /\ pc = "binary" /\ pos.tag < NumTags
  /\ inside' = BinaryScores /\ extent' = BinaryExtents
  /\ pos' = [pos EXCEPT !.tag = @ + 1]
  /\ pc' = IF pos.tag = NumTags - 1 THEN "unary" ELSE "binary"
  /\ UNCHANGED <<input, control, flags, outside, history>>

(* Uses of unary rules over a span; a lexical child needs a single word.   *)
UnaryUses(s) ==
  {r \in DOMAIN Model.una :
     LET p == r[1][1]
         c == r[2][1]
     IN  /\ p # c /\ Usable(<<s, p>>, r[1]) /\ Usable(<<s, c>>, r[2])
         /\ s[2] - s[1] > 1 => c \notin Lexicals}

(* Mutant: the sums are added in place, so that unary rules chain.         *)
InsideUnaryDeltaInPlace(s, p) ==
  LET into(q) == {r \in UnaryUses(s) : r[1] = q /\ q[1] \notin Lexicals}
      score(S) == inside[<<s, S[1]>>][S[2]]
      updated(S) == score(S) + SumOver(into(S), LAMBDA r : Model.una[r] * score(r[2]))
  IN  SumOver(into(p), LAMBDA r : Model.una[r] * updated(r[2]))

InsideUnaryDelta(s, p) ==
  SumOver({r \in UnaryUses(s) : r[1] = p /\ p[1] \notin Lexicals},
          LAMBDA r : Model.una[r] * inside[<<s, r[2][1]>>][r[2][2]])

NextSpan(p) ==
  IF p.begin + p.len < NumWords THEN [p EXCEPT !.begin = @ + 1, !.tag = 0]
                                ELSE [len |-> p.len + 1, begin |-> 0, tag |-> 0]

UnaryScores ==
  [c \in Cells |->
     IF c[1] = Span /\ allowedTag[c]
       THEN [s \in DOMAIN inside[c] |-> inside[c][s] + InsideUnaryDelta(Span, <<c[2], s>>)]
       ELSE inside[c]]

InsideUnary ==
  /\ pc = "unary"
  /\ inside' = UnaryScores
  /\ pos' = NextSpan(pos)
  /\ pc' = IF pos'.len > NumWords THEN "score" ELSE IF pos'.len = 1 THEN "unary" ELSE "binary"
  /\ UNCHANGED <<input, control, flags, outside, extent, history>>

-----------------------------------------------------------------------------
(* The check of the sentence score.                                        *)
SentenceScore == inside[RootCell][0]

RejectLevel ==
  /\ pc = "score" /\ SentenceScore = 0
  /\ result' = Failure(level)
  /\ pc' = "return"
  /\ UNCHANGED <<input, attempt, target, level, flags, inside, outside, extent, pos, history>>

AcceptLevel ==
  /\ pc = "score" /\ SentenceScore # 0
  /\ outside' = [outside EXCEPT ![RootCell][0] = 1]
  /\ pos' = LastSpan
  /\ pc' = "outside"
  /\ UNCHANGED <<input, control, flags, inside, extent, history>>

(* calculateOutsideScores: for each span, from the longest, the unary      *)
(* rules above its symbols, then its binary rules down to their children.  *)
OutsideUnaryDelta(s, c) ==
  SumOver({r \in UnaryUses(s) : r[2] = c},
          LAMBDA r : Model.una[r] * outside[<<s, r[1][1]>>][r[1][2]])

AfterUnary(s) ==
  [c \in Cells |->
     IF c[1] = s /\ allowedTag[c]
       THEN [i \in DOMAIN outside[c] |-> outside[c][i] + OutsideUnaryDelta(s, <<c[2], i>>)]
       ELSE outside[c]]

(* Mutant: the right child gets nothing.                                   *)
OutsideLeftDelta(s, above, c, i) ==
  LET uses == UNION {Productive(s, t) : t \in TagIds}
  IN  SumOver({u \in uses : c[1] = <<s[1], u[2]>> /\ u[1][2] = <<c[2], i>>},
              LAMBDA u : Model.bin[u[1]] * above[<<s, u[1][1][1]>>][u[1][1][2]] * RightScore(s, u))

OutsideBinaryDelta(s, above, c, i) ==
  LET uses == UNION {Productive(s, t) : t \in TagIds}
      top(u) == Model.bin[u[1]] * above[<<s, u[1][1][1]>>][u[1][1][2]]
  IN  SumOver({u \in uses : c[1] = <<s[1], u[2]>> /\ u[1][2] = <<c[2], i>>},
              LAMBDA u : top(u) * RightScore(s, u))
      + SumOver({u \in uses : c[1] = <<u[2], s[2]>> /\ u[1][3] = <<c[2], i>>},
                LAMBDA u : top(u) * LeftScore(s, u))

Within(s, c) == c[1] # s /\ s[1] <= c[1][1] /\ c[1][2] <= s[2]

PreviousSpan(p) ==
  IF p.begin + p.len < NumWords THEN [p EXCEPT !.begin = @ + 1]
                                ELSE [p EXCEPT !.len = @ - 1, !.begin = 0]

OutsideScores ==
  LET above == AfterUnary(Span)
  IN  [c \in Cells |->
         IF Within(Span, c) /\ allowedTag[c]
           THEN [i \in DOMAIN outside[c] |->
                   above[c][i] + OutsideBinaryDelta(Span, above, c, i)]
           ELSE above[c]]

OutsideSpan ==
  /\ pc = "outside"
  /\ outside' = OutsideScores
  /\ pos' = PreviousSpan(pos)
  /\ pc' = IF pos'.len = 0 THEN "prune" ELSE "outside"
  /\ UNCHANGED <<input, control, flags, inside, extent, history>>

-----------------------------------------------------------------------------
(* Mutants: a constituent is judged by its inside, or outside, score.      *)
KeptByInside(c, s) == inside[c][s] * ThresholdDen >= threshold * SentenceScore
KeptByOutside(c, s) == outside[c][s] * ThresholdDen >= threshold * SentenceScore

(* pruneCharts.                                                            *)
Kept(c, s) ==
  inside[c][s] * outside[c][s] * ThresholdDen >= threshold * SentenceScore

PrunedSub == [c \in Cells |->
  IF allowedTag[c] THEN [s \in DOMAIN allowedSub[c] |-> allowedSub[c][s] /\ Kept(c, s)]
                   ELSE allowedSub[c]]

PrunedTag == [c \in Cells |-> allowedTag[c] /\ \E s \in DOMAIN PrunedSub[c] : PrunedSub[c][s]]

SetOf(sub) == [c \in Cells |-> {s \in DOMAIN sub[c] : sub[c][s]}]

(* The tags the max-rule chart gives a finite score over each span, first  *)
(* by words or binary rules, then by one unary rule.  MaxRule models the   *)
(* scores themselves and the backpointers.                                 *)
FiniteTags(tag, sub) ==
  LET on(c, S) == tag[c] /\ sub[c][S[2]]
      live(c, S) == on(c, S) /\ outside[c][S[2]] > 0
      word(b) ==
        {t \in TagIds :
           LET c == <<<<b, b + 1>>, t>>
           IN  tag[c] /\ \E s \in DOMAIN sub[c] : live(c, <<t, s>>) /\ Terminal(Model, b, <<t, s>>) > 0}
      finite[s \in Spans] ==
        LET b == s[1]
            e == s[2]
            split(m) ==
              LET lefts == finite[<<b, m>>].all
                  rights == finite[<<m, e>>].all
              IN  {u \in UNION {Productive(s, t) : t \in TagIds} :
                     /\ u[2] = m /\ live(<<s, u[1][1][1]>>, u[1][1])
                     /\ on(<<<<b, m>>, u[1][2][1]>>, u[1][2]) /\ u[1][2][1] \in lefts
                     /\ on(<<<<m, e>>, u[1][3][1]>>, u[1][3]) /\ u[1][3][1] \in rights}
            plain == IF e = b + 1 THEN word(b)
                     ELSE {u[1][1][1] : u \in UNION {split(m) : m \in (b + 1)..(e - 1)}}
            unary == {r \in UnaryUses(s) :
                        /\ live(<<s, r[1][1]>>, r[1]) /\ on(<<s, r[2][1]>>, r[2])
                        /\ r[1][1] \notin Lexicals /\ r[2][1] \in plain
                        /\ Model.una[r] > 0 /\ inside[<<s, r[2][1]>>][r[2][2]] > 0}
            skipped == e = b + 1 /\ Abstract(b) /\ plain = {}
        IN  [up |-> IF skipped THEN {} ELSE {r[1][1] : r \in unary},
             all |-> plain \cup (IF skipped THEN {} ELSE {r[1][1] : r \in unary})]
  IN  finite

(* Mutant: ROOT being allowed is taken for a tree below it.                *)
CanRetrieveAllowed(tag, sub) == tag[RootCell]

(* buildTree needs a unary rule at the root; its other test for ROOT, of a *)
(* child without one, never applies, see RootAssumption.                   *)
CanRetrieve(tag, sub) == RootTag \in FiniteTags(tag, sub)[Whole].up

PruneCharts ==
  /\ pc = "prune"
  /\ allowedTag' = PrunedTag /\ allowedSub' = PrunedSub
  /\ seen' = IF level < Len(seen) THEN seen
             ELSE Append(seen, [tag |-> PrunedTag, sub |-> SetOf(PrunedSub)])
  /\ retrievable' = retrievable \cup (IF CanRetrieve(PrunedTag, PrunedSub) THEN {level} ELSE {})
  /\ level' = level + 1
  /\ pc' = IF level = target THEN "retrieve" ELSE "charts"
  /\ UNCHANGED <<input, attempt, target, result, inside, outside, extent, pos>>

Retrieve ==
  /\ pc = "retrieve"
  /\ result' = IF target \in retrievable THEN Success(target) ELSE Failure(target)
  /\ pc' = "return"
  /\ UNCHANGED <<input, attempt, target, level, flags, inside, outside, extent, pos, history>>

(* parse().                                                                *)
MayRetry == ~result.succeeded /\ result.final > 0 /\ attempt = 1

Return ==
  /\ pc = "return"
  /\ pc' = IF MayRetry THEN "call" ELSE "done"
  /\ UNCHANGED <<input, control, flags, inside, outside, extent, pos, history>>

Next ==
  \/ Load \/ ParseEmpty \/ StartAttempt \/ InitializeCharts \/ SetTerminals
  \/ InsideBinary \/ InsideUnary \/ RejectLevel \/ AcceptLevel \/ OutsideSpan
  \/ PruneCharts \/ Retrieve \/ Return

Spec == Init /\ [][Next]_vars

-----------------------------------------------------------------------------
(* The control implements CoarseToFine: the scores of a level are one of   *)
(* its free choices, and the passes in between are no step of it.          *)
Stage == CASE pc \in {"terminals", "unary", "binary"} -> "score"
           [] pc = "outside" -> "prune"
           [] OTHER -> pc

Sizes(chart) == [c \in Cells |-> Size(chart[c])]

C2F == INSTANCE CoarseToFine
         WITH Tags <- TagIds, Root <- RootTag, Lexical <- {}, m1 <- FALSE,
              pc <- Stage, empty <- (sentence = <<>>),
              allowedSub <- SetOf(allowedSub),
              width <- Sizes(allowedSub), scores <- Sizes(inside),
              preparse <- {}

(* The rules a level uses: those with a score, of a tag without words.     *)
Used(f, lexicals) == [r \in {q \in DOMAIN f : q[1][1] \notin lexicals /\ f[q] > 0} |-> f[r]]
UsedModel(m) == [bin |-> Used(m.bin, LexicalTags(m)), una |-> Used(m.una, LexicalTags(m))]

(* The scores a level gives the words.                                     *)
WordTable(l) == [b \in 0..(NumWords - 1) |-> [S \in Symbols(l) |-> Terminal(models[l], b, S)]]

(* The trees of the rules used over the constituents still allowed.        *)
TreesAt(l) ==
  TreesOfCells(NumWords, UsedModel(models[l]), WordTable(l),
               {x \in Spans \X Symbols(l) : Usable(<<x[1], x[2][1]>>, x[2])})

Complete(trees) == {t \in trees[Whole] : t.sym = <<RootTag, 0>>}

-----------------------------------------------------------------------------
(* The type of every variable.                                             *)
TypeOK ==
  /\ pc \in {"setup", "call", "charts", "terminals", "unary", "binary", "score",
             "outside", "prune", "retrieve", "return", "done"}
  /\ sentence \in Sentences /\ threshold \in Thresholds /\ fine \in AllLevels
  /\ attempt \in 0..2 /\ target \in AllLevels /\ level \in 0..Depth
  /\ result \in [succeeded : BOOLEAN, final : -1..(Depth - 1)]
  /\ allowedTag \in [Cells -> BOOLEAN]
  /\ DOMAIN allowedSub = Cells /\ DOMAIN inside = Cells /\ DOMAIN outside = Cells
  /\ \A c \in Cells : \A v \in {inside[c], outside[c]} :
       \A s \in DOMAIN v : v[s] \in Nat
  /\ \A p \in 0..NumWords, t \in TagIds :
       extent[p][t] \in [nr : 1..(NumWords + 1), nl : -1..(NumWords - 1),
                         wr : -1..NumWords, wl : 0..(NumWords + 1)]
  /\ pos.len \in 0..(NumWords + 1) /\ pos.begin \in 0..(NumWords - 1) /\ pos.tag \in 0..NumTags
  /\ retrievable \subseteq AllLevels

(* The trees over a constituent, and whether the inside pass found all.    *)
TreeSum(trees, c, s) == ScoreOf({t \in trees[c[1]] : t.sym = <<c[2], s>>})

AllFound(trees) ==
  \A c \in Cells : allowedTag[c] => \A s \in DOMAIN inside[c] : inside[c][s] = TreeSum(trees, c, s)

(* No phrase is derived by a unary rule, unless it is ROOT, of which there *)
(* is nothing that a binary rule derives.                                  *)
NoPhrasalUnary ==
  /\ \A r \in DOMAIN Model.una : Model.una[r] > 0 => r[2][1] \in Lexicals \/ r[1][1] = RootTag
  /\ \A r \in DOMAIN Model.bin : Model.bin[r] > 0 => RootTag \notin {r[2][1], r[3][1]}

(* Whatever the grammar, the inside pass invents no tree.  Where only ROOT *)
(* derives a phrase by a unary rule, and is no child itself, it sums       *)
(* exactly the trees over every constituent, although it looks only at the *)
(* split points inside the extents, which it widens while it runs.         *)
InsideExact ==
  pc = "score" =>
    LET trees == TreesAt(level)
    IN  /\ \A c \in Cells : allowedTag[c] =>
             \A s \in DOMAIN inside[c] : inside[c][s] <= TreeSum(trees, c, s)
        /\ NoPhrasalUnary => AllFound(trees)

(* No tag of a word derives another by a unary rule.  The inside pass      *)
(* takes no such rule, whereas the outside pass hands down the score of    *)
(* its parent nevertheless.                                                *)
NoLexicalParent ==
  \A r \in DOMAIN Model.una : Model.una[r] > 0 => r[1][1] \notin Lexicals

(* The product of inside and outside never falls below the score of the    *)
(* complete trees through a constituent, wherever the inside pass found    *)
(* all trees: a constituent is pruned only if all its parses together      *)
(* weigh less than the threshold.  For the tags of the words the product   *)
(* is that score, unless such a tag derives another.                       *)
PosteriorCovers ==
  pc = "prune" =>
    LET trees == TreesAt(level)
        complete == Complete(trees)
    IN  AllFound(trees) =>
          \A c \in Cells : allowedTag[c] =>
            \A s \in DOMAIN inside[c] :
              LET through == ScoreOf({t \in complete : <<c[1], <<c[2], s>>>> \in t.cells})
              IN  /\ inside[c][s] * outside[c][s] >= through
                  /\ NoLexicalParent /\ c[2] \in Lexicals =>
                       inside[c][s] * outside[c][s] = through

(* Where the inside pass found all trees, pruning keeps whole every parse  *)
(* that alone reaches the threshold: none of its constituents loses its    *)
(* flag, at any level.                                                     *)
PruneKeepsDominant ==
  [][pc = "prune" /\ AllFound(TreesAt(level)) =>
       \A t \in Complete(TreesAt(level)) :
         t.score * ThresholdDen >= threshold * SentenceScore =>
           \A x \in t.cells : allowedTag'[<<x[1], x[2][1]>>]
                              /\ allowedSub'[<<x[1], x[2][1]>>][x[2][2]]]_vars

(* The trees that pruning leaves.                                          *)
PrunedTrees ==
  TreesOfCells(NumWords, UsedModel(Model), WordTable(level),
               {x \in Spans \X Symbols(level) :
                  PrunedTag[<<x[1], x[2][1]>>] /\ PrunedSub[<<x[1], x[2][1]>>][x[2][2]]})

(* The same by tags, whatever subtags the rules and the words have.        *)
TagOf(S) == <<S[1], 0>>
TagModel(m) ==
  [bin |-> [q \in {<<TagOf(r[1]), TagOf(r[2]), TagOf(r[3])>> : r \in DOMAIN m.bin} |-> 1],
   una |-> [q \in {<<TagOf(r[1]), TagOf(r[2])>> : r \in DOMAIN m.una} |-> 1]]

PrunedTagTrees ==
  TreesOfCells(NumWords, TagModel(UsedModel(Model)),
               [b \in 0..(NumWords - 1) |->
                  [T \in Symbols(0) |->
                     IF \E S \in Symbols(level) : TagOf(S) = T /\ Terminal(Model, b, S) > 0 THEN 1 ELSE 0]],
               {x \in Spans \X Symbols(0) : PrunedTag[<<x[1], x[2][1]>>]})

(* Retrieval does not stop at a dead end: where the inside pass found all  *)
(* trees, and pruning leaves a parse, one is retrieved.  Nor does it       *)
(* report success on a chart that fell apart: the tags left by pruning     *)
(* have a parse then.  At level 0, where every tag is one symbol, these    *)
(* parses are the same; the max-rule charts of the finer levels are by     *)
(* tags and may put subtags together that no parse has together.           *)
RetrievedIffConnected ==
  pc = "prune" =>
    LET retrieved == CanRetrieve(PrunedTag, PrunedSub)
    IN  /\ retrieved => \E t \in Complete(PrunedTagTrees) : t.unary
        /\ AllFound(TreesAt(level)) /\ (\E t \in Complete(PrunedTrees) : t.unary) => retrieved

ImplementsCoarseToFine == C2F!SafeSpec

-----------------------------------------------------------------------------
(* Stated by the code and its README, and refuted by the runs of the same  *)
(* name.                                                                   *)

(* "No any possible parses" at level 0, where nothing is pruned yet, means *)
(* that the grammar has no parse of the sentence.                          *)
RejectedOnlyWithoutParse ==
  pc = "score" /\ level = 0 /\ SentenceScore = 0 => Complete(TreesAt(0)) = {}

(* Rolling back to a coarser grammar avoids failures: no level at which a  *)
(* tree could have been retrieved is left untried.                         *)
RollbackExhaustive == pc = "done" /\ ~result.succeeded => retrievable = {}
=============================================================================
