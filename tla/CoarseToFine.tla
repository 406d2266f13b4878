---------------------------- MODULE CoarseToFine ----------------------------
(***************************************************************************)
(* The control of LAPCFGParser::parse: a sentence is parsed level by       *)
(* level, from the coarsest grammar (one subtag per tag) to the target     *)
(* level, and every level may use only the constituents the level before   *)
(* has left allowed.  When a level finds no parse, or no tree can be       *)
(* retrieved at the target, parse() tries once more, one level coarser.    *)
(*                                                                         *)
(* Scores are abstracted: which constituents survive a level, whether the  *)
(* sentence has a score and whether a tree is retrieved are free choices,  *)
(* except that parsing is a function of the sentence, so that the second   *)
(* attempt sees at every level what the first one saw there.  ChartParser  *)
(* computes the scores and implements this specification.                  *)
(***************************************************************************)
EXTENDS Integers, Sequences

CONSTANTS NumWords,  \* words of a sentence that is not empty
          Tags, Root,\* abstract tags; the tag of a complete parse
          Lexical,   \* tags with a lexicon entry (semi-terminals)
          Depth,     \* levels of refinement: 0 .. Depth - 1
          NumSub,    \* NumSub[tag][level]: subtags of a tag at a level
          Parent     \* Parent[tag][level][sub]: its subtag one level coarser

Levels == 0..(Depth - 1)

ASSUME ShapeAssumption ==
  /\ NumWords \in Nat \ {0} /\ Depth \in Nat \ {0}
  /\ Root \in Tags /\ Lexical \subseteq Tags

(* The subtags of a tag form a forest that splits from level to level; at  *)
(* level 0 a tag is its own only subtag, and ROOT is never split.          *)
ASSUME HierarchyAssumption ==
  /\ NumSub \in [Tags -> [Levels -> Nat \ {0}]]
  /\ \A t \in Tags : NumSub[t][0] = 1
  /\ \A l \in Levels : NumSub[Root][l] = 1
  /\ \A t \in Tags, l \in Levels \ {0} :
       Parent[t][l] \in [0..(NumSub[t][l] - 1) -> 0..(NumSub[t][l - 1] - 1)]

Spans == {s \in (0..NumWords) \X (0..NumWords) : s[1] < s[2]}
Cells == Spans \X Tags
RootCell == <<<<0, NumWords>>, Root>>

Subs(c, l) == 0..(NumSub[c[2]][l] - 1)

VARIABLES
  pc,         \* "setup", "call", "charts", "score", "prune", "retrieve", "return", "done"
  empty,      \* the sentence has no words
  m1,         \* do_m1_preparse_, an option
  fine,       \* fine_level_
  attempt,    \* calls of generateMaxRuleOneBestParse so far
  target,     \* final_level_to_try of the current call
  level,      \* level of the loop of the current call
  allowedTag, \* allowed_tag
  allowedSub, \* allowed_sub, as the set of subtags whose flag is set
  width,      \* size of each allowed_sub vector
  scores,     \* size of each inside and outside vector
  seen,       \* charts every level scored so far has left, coarsest first
  preparse,   \* memo of what the M1 preparse allowed: no value or one
  result      \* ParserResult: succeeded, final_level

vars == <<pc, empty, m1, fine, attempt, target, level,
          allowedTag, allowedSub, width, scores, seen, preparse, result>>

charts == <<allowedTag, allowedSub, width, scores>>

Failure(l) == [succeeded |-> FALSE, final |-> l]
Success(l) == [succeeded |-> TRUE, final |-> l]

Init ==
  /\ pc = "setup" /\ empty \in BOOLEAN /\ m1 \in BOOLEAN
  /\ fine = 0 /\ attempt = 0 /\ target = 0 /\ level = 0
  /\ allowedTag = [c \in Cells |-> FALSE]
  /\ allowedSub = [c \in Cells |-> {}]
  /\ width = [c \in Cells |-> 0] /\ scores = [c \in Cells |-> 0]
  /\ seen = <<>> /\ preparse = {}
  /\ result = Failure(-1)

-----------------------------------------------------------------------------
(* Mutant: the level one past the finest is let through.                   *)
ClampedLevelOff(v) == IF v < 0 \/ v > Depth THEN Depth - 1 ELSE v

(* setFineLevel: an option out of range selects the finest level.          *)
ClampedLevel(v) == IF v < 0 \/ v >= Depth THEN Depth - 1 ELSE v

SetFineLevel ==
  /\ pc = "setup"
  /\ \E v \in -1..Depth : fine' = ClampedLevel(v)
  /\ pc' = "call"
  /\ UNCHANGED <<empty, m1, attempt, target, level, charts, seen, preparse, result>>

(* An empty sentence succeeds with the default parse and level -1.         *)
ParseEmpty ==
  /\ pc = "call" /\ empty
  /\ result' = Success(-1)
  /\ attempt' = attempt + 1
  /\ pc' = "return"
  /\ UNCHANGED <<empty, m1, fine, target, level, charts, seen, preparse>>

(* The outcomes of the M1 preparse: one verdict per span for all phrasal   *)
(* tags, one per tag for the semi-terminals.                               *)
PreparseOutcomes ==
  {f \in [Cells -> BOOLEAN] :
     \A s \in Spans : \A t, u \in Tags \ Lexical : f[<<s, t>>] = f[<<s, u>>]}

(* Mutant: the level that failed is tried again.                           *)
TargetOfSame(n) == IF n = 0 THEN fine ELSE result.final

TargetOf(n) == IF n = 0 THEN fine ELSE result.final - 1

(* A call of generateMaxRuleOneBestParse up to its level loop.  Without    *)
(* the preparse, allowed_tag is not initialised yet.                       *)
StartAttempt ==
  /\ pc = "call" /\ ~empty
  /\ target' = TargetOf(attempt)
  /\ attempt' = attempt + 1
  /\ level' = 0
  /\ IF m1
       THEN /\ allowedTag' \in PreparseOutcomes
            /\ \A f \in preparse : allowedTag' = f
            /\ preparse' = {allowedTag'}
       ELSE /\ allowedTag' \in [Cells -> BOOLEAN]
            /\ UNCHANGED preparse
  /\ allowedSub' = [c \in Cells |-> {}]
  /\ width' = [c \in Cells |-> 0] /\ scores' = [c \in Cells |-> 0]
  /\ pc' = "charts"
  /\ UNCHANGED <<empty, m1, fine, seen, result>>

(* initializeCharts.  Level 0 has one subtag everywhere; later levels      *)
(* allow the refinements of what is still allowed, and release the score   *)
(* vectors of the other constituents but not their subtag flags.           *)
Refine(c) == {s \in Subs(c, level) : Parent[c[2]][level][s] \in allowedSub[c]}

(* Mutant: every level allows all tags anew.                               *)
InitTagAlways(c) == TRUE

InitTag(c) == IF level = 0 /\ ~m1 THEN TRUE ELSE allowedTag[c]

InitSub(c) ==
  IF level = 0 THEN (IF InitTag(c) THEN {0} ELSE {})
               ELSE (IF allowedTag[c] THEN Refine(c) ELSE allowedSub[c])

(* Mutant: every level starts from a full chart.                           *)
InitializeFullCharts ==
  /\ pc = "charts"
  /\ allowedTag' = [c \in Cells |-> TRUE]
  /\ allowedSub' = [c \in Cells |-> Subs(c, level)]
  /\ width' = [c \in Cells |-> NumSub[c[2]][level]] /\ scores' = width'
  /\ pc' = "score"
  /\ UNCHANGED <<empty, m1, fine, attempt, target, level, seen, preparse, result>>

InitializeCharts ==
  /\ pc = "charts"
  /\ allowedTag' = [c \in Cells |-> InitTag(c)]
  /\ allowedSub' = [c \in Cells |-> InitSub(c)]
  /\ width' = [c \in Cells |-> IF level = 0 \/ allowedTag[c]
                                 THEN NumSub[c[2]][level] ELSE width[c]]
  /\ scores' = [c \in Cells |-> IF level = 0 \/ allowedTag[c]
                                  THEN NumSub[c[2]][level] ELSE 0]
  /\ pc' = "score"
  /\ UNCHANGED <<empty, m1, fine, attempt, target, level, seen, preparse, result>>

(* The inside scores and the check of the sentence score.  A level scored  *)
(* by an earlier attempt had a positive score and has it again.            *)
Known(l) == l < Len(seen)

RejectLevel ==
  /\ pc = "score" /\ ~Known(level)
  /\ result' = Failure(level)
  /\ pc' = "return"
  /\ UNCHANGED <<empty, m1, fine, attempt, target, level, charts, seen, preparse>>

AcceptLevel ==
  /\ pc = "score" /\ allowedTag[RootCell]
  /\ pc' = "prune"
  /\ UNCHANGED <<empty, m1, fine, attempt, target, level, charts, seen, preparse, result>>

(* pruneCharts: subtags of small posterior lose their flag, and a tag with *)
(* none left is no longer allowed.  The posterior of the complete parse is *)
(* 1, so ROOT over the whole sentence stays.                               *)
Chart(tag, sub) == [tag |-> tag, sub |-> sub]

AllSubs == UNION {Subs(c, l) : c \in Cells, l \in Levels}

(* Mutant: the complete parse can fall below the threshold.                *)
PrunedAnywhere(f) ==
  \A c \in Cells : IF allowedTag[c] THEN f[c] \subseteq allowedSub[c]
                                     ELSE f[c] = allowedSub[c]

Pruned(f) ==
  /\ \A c \in Cells : IF allowedTag[c] THEN f[c] \subseteq allowedSub[c]
                                       ELSE f[c] = allowedSub[c]
  /\ f[RootCell] = allowedSub[RootCell]

PruneCharts ==
  /\ pc = "prune"
  /\ allowedSub' \in (IF Known(level) THEN {seen[level + 1].sub}
                                      ELSE [Cells -> SUBSET AllSubs])
  /\ Pruned(allowedSub')
  /\ allowedTag' = [c \in Cells |-> allowedTag[c] /\ allowedSub'[c] # {}]
  /\ seen' = IF Known(level) THEN seen ELSE Append(seen, Chart(allowedTag', allowedSub'))
  /\ level' = level + 1
  /\ pc' = IF level = target THEN "retrieve" ELSE "charts"
  /\ UNCHANGED <<empty, m1, fine, attempt, target, width, scores, preparse, result>>

Retrieve ==
  /\ pc = "retrieve"
  /\ \E r \in {Success(target), Failure(target)} : result' = r
  /\ pc' = "return"
  /\ UNCHANGED <<empty, m1, fine, attempt, target, level, charts, seen, preparse>>

(* Mutant: a failure at level 1 is final.                                  *)
MayRetryAboveOne == ~result.succeeded /\ result.final > 1 /\ attempt = 1

(* parse(): a failure above level 0 is retried, once, one level coarser.   *)
MayRetry == ~result.succeeded /\ result.final > 0 /\ attempt = 1

(* Mutant: parse() calls itself and forgets what has failed.               *)
RetryFromScratch ==
  /\ pc = "return" /\ MayRetry
  /\ pc' = "call" /\ attempt' = 0
  /\ UNCHANGED <<empty, m1, fine, target, level, charts, seen, preparse, result>>

Retry ==
  /\ pc = "return" /\ MayRetry
  /\ pc' = "call"
  /\ UNCHANGED <<empty, m1, fine, attempt, target, level, charts, seen, preparse, result>>

Finish ==
  /\ pc = "return" /\ ~MayRetry
  /\ pc' = "done"
  /\ UNCHANGED <<empty, m1, fine, attempt, target, level, charts, seen, preparse, result>>

Next ==
  \/ SetFineLevel \/ ParseEmpty \/ StartAttempt \/ InitializeCharts
  \/ RejectLevel \/ AcceptLevel \/ PruneCharts \/ Retrieve
  \/ Retry \/ Finish

SafeSpec == Init /\ [][Next]_vars

(* parse() runs on its own thread and waits for nothing.                   *)
Spec == SafeSpec /\ WF_vars(Next)

-----------------------------------------------------------------------------
(* The type of every variable.                                             *)
TypeOK ==
  /\ pc \in {"setup", "call", "charts", "score", "prune", "retrieve", "return", "done"}
  /\ empty \in BOOLEAN /\ m1 \in BOOLEAN /\ fine \in Levels /\ attempt \in 0..2
  /\ target \in Levels /\ level \in 0..Depth
  /\ allowedTag \in [Cells -> BOOLEAN] /\ allowedSub \in [Cells -> SUBSET AllSubs]
  /\ width \in [Cells -> Nat] /\ scores \in [Cells -> Nat]
  /\ seen \in Seq([tag : [Cells -> BOOLEAN], sub : [Cells -> SUBSET AllSubs]])
  /\ preparse \subseteq [Cells -> BOOLEAN]
  /\ result \in [succeeded : BOOLEAN, final : -1..(Depth - 1)]

(* The level whose subtag numbering the vectors of allowed cells follow:   *)
(* pruning at the target level ends the loop with the vectors of target.   *)
Current == IF pc = "retrieve" THEN target ELSE level

(* The passes over the charts index allowed_sub, inside and outside of an  *)
(* allowed tag with every subtag of the current level, although the three  *)
(* vectors change size from level to level and those of pruned tags do     *)
(* not: none of these reads is outside its vector, and no flag is set      *)
(* beyond it.                                                              *)
IndicesInside ==
  pc \in {"score", "prune", "retrieve"} =>
    \A c \in Cells : allowedTag[c] =>
      /\ width[c] = NumSub[c[2]][Current] /\ scores[c] = width[c]
      /\ allowedSub[c] \subseteq 0..(width[c] - 1)

(* The score of the sentence is read at subtag 0 of ROOT whatever has been *)
(* pruned, and its logarithm taken at the end: that entry always exists,   *)
(* and ROOT over the whole sentence is still allowed after every pruning.  *)
RootReadable ==
  /\ pc \in {"score", "prune", "retrieve"} => scores[RootCell] > 0
  /\ pc \in {"prune", "retrieve"} => allowedTag[RootCell] /\ allowedSub[RootCell] = {0}

(* Coarse-to-fine only narrows: what a level allows is a refinement of     *)
(* what every coarser level has left allowed, also in the second attempt,  *)
(* and the stale flags of pruned tags never bring a constituent back.      *)
Lineage ==
  \A k \in 1..(Len(seen) - 1), c \in Cells :
    seen[k + 1].tag[c] =>
      /\ seen[k].tag[c]
      /\ \A s \in seen[k + 1].sub[c] : Parent[c[2]][k][s] \in seen[k].sub[c]

(* The second attempt stops at a level the first one has passed, so its    *)
(* level loop can never end in "No any possible parses": only retrieving   *)
(* the tree may still fail.                                                *)
RetryNotRejected == pc = "score" /\ attempt = 2 => Known(level)

(* What the caller of parse() gets: an empty sentence level -1, a first    *)
(* success the level that was asked for, a second one exactly the level    *)
(* below the failure, and a failure at level 0 or after two attempts.      *)
ResultOK ==
  pc = "done" =>
    IF empty THEN result = Success(-1)
    ELSE \/ attempt = 1 /\ result = Success(fine)
         \/ attempt = 1 /\ result = Failure(0)
         \/ /\ attempt = 2 /\ result.final = target /\ target < fine
            /\ target <= Len(seen) - 1

(* Every call of parse() returns: no level fails for ever.                 *)
Terminates == <>(pc = "done")
=============================================================================
