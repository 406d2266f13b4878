# Ckylark in TLA+

Ckylark is a PCFG-LA constituent parser in C++. It loads a grammar with latent
annotations (every tag is split into subtags, in a hierarchy of levels), derives
coarser grammars from it, and parses a sentence with all of them, coarsest
first: each level prunes the chart the next one may use. The last chart gives a
max-rule tree. This directory holds TLA+ models of that program, the TLC
configurations that check them, and proofs checked by TLAPS.

## 1. Inventory

Paths are relative to `src/src/`; `P` is `lib/LAPCFGParser.cc`.

| Component | State | Operations | Correct when |
|---|---|---|---|
| Chart storage, `CKYTable.h` | offsets `shift_`, one array `mem_` | constructor, `at()` | entries never collide or leave the array |
| Control, `P` 139-209, 526-542 | `fine_level_`, level, allowed_tag, allowed_sub, sizes of inside/outside, result | `parse`, `generateMaxRuleOneBestParse`, `setFineLevel` | no vector is indexed outside, levels only narrow, the retry can work, the caller learns the right level |
| Scoring, `P` 775-1279 | inside, outside, extents, flags | `initializeCharts`, `setTerminalScores`, `calculateInside/OutsideScores`, `pruneCharts` | the passes weigh exactly the parses; pruning removes only light ones |
| M1 preparse, `P` 627-773 | its own inside/outside, allowed_tag | `doM1Preparse` | nothing level 0 needs is lost for want of a G-1 rule |
| Max-rule retrieval, `P` 211-532 | maxc score and backpointers | three rule passes, `buildTree`, `addChildOrCoalesce` | the tree has the score that was maximised, words in order, no bars |
| Tag hierarchy, `TagSet.cc`, `Mapping.cc`, `Dictionary.cc`, `Tree.h` | names, trees, depth, counts, two tables | `loadFromStream`, `Mapping` | ids are indices, subtags form a forest, uneven trees are refused |
| Grammar and lexicon, `Grammar.cc`, `Rule.h`, `Lexicon.cc` | rule objects, lists by parent and child, entries | `loadFromStream` of both | every score at its own rule, once, in all lists |
| Smoothing, `OOVLexiconSmoother.cc` | the UNK words, the scores of one tag | `prepare`, `getScore` | an unknown word has the share of the UNK entries |
| Projection, `ModelProjector.cc`, `M1ModelProjector.cc` | expected counts, conditional probabilities | constructor, `generateGrammar/Lexicon` | no score a parse can use becomes zero or nan; distributions stay distributions |
| Scaling factors, `*ScalingFactor.cc`, `M1Lexicon.cc` | one factor per level and word | constructors, `getScalingFactor` | a factor is positive and finite wherever a parse needs it |
| Streams, `StreamFactory.cc`, `GZipStream.cc` | an open file | `createInputStream`, `readLine` | the four files of a model belong together |
| Word and tag ids, `P` 580-625, `BerkeleySignatureEstimator.cc` | - | `makeWordIdList`, `makeTagIdList`, `getSignature` | every word has an id that the tables know, or is scored without one |
| Lattice, `Lattice.cc`, `PLFLatticeLoader.cc` | edge lists by node and length | `addEdge`, `getEdgeList`, `getNextData` | the edges are those of the line; bad edges are refused |
| Session, `main.cc`, formatters, `Timer.cc` | line, timer, counters, output | the read-parse-write loop | one well-formed line per line, in step with the input |
| Options, factories, tracing | - | - | not modelled (section 7) |

`main` loads a model through `ParserFactory` (`loadFromBerkeleyDump`: words,
tags, lexicon, grammar, then the coarse models and the scaling factors), then
calls `parse` for every line. `parse` calls `generateMaxRuleOneBestParse`, which
calls the chart passes in a fixed order over `CKYTable`s that live as long as
the call. Everything runs on one thread: no callback, lock, message or file
written but the output. What is hard here is therefore not concurrency but

* state of an earlier level left in the charts and read at a later one,
* two passes that must agree on the same set of rule uses although one of them
  skips split points by extents that change while it runs,
* an order of evaluation inside a span (unary after binary, children before the
  table is replaced) on which the meaning of the scores depends,
* a retry that starts over with a coarser target after pruning has failed,
* index arithmetic whose errors show only for some sentence lengths,
* loaders whose result must not depend on the order of the lines, and that check
  few of the ids and sizes they find in the files,
* divisions by counts and scores that may be zero, whose inf or nan spreads
  through a whole model or chart before anyone reads it.

`PROJECT.json` lists each of these as a hazard with its line and the properties
that would catch it.

## 2. Modules

| Module | Models | Relation to others |
|---|---|---|
| `ChartTable` | a chart: one variable per cell, errors outside the triangle | abstract specification of `CKYTable` |
| `CKYTable` | `CKYTable<T>`: the loop that fills the offsets, `at()` | implements `ChartTable` |
| `CoarseToFine` | the control with all scores left free | abstract specification of `ChartParser` |
| `LAPCFGModel` | grammars, projection to coarser levels, smoothing (no variables) | extended by the two below |
| `ParseTrees` | the set of parse trees of a sentence, by definition | reference for the chart passes |
| `ChartParser` | all passes of all levels, with exact scores | implements `CoarseToFine` |
| `M1Preparse` | `doM1Preparse` with `M1Grammar` | decides the first flags of `CoarseToFine` when `m1` holds |
| `MaxRule` | retrieval from the final charts | refines the step `Retrieve` of the control |
| `TagHierarchy` | `TagSet`, `Dictionary::addWord`, `Mapping` | establishes the assumptions of `CoarseToFine` on `NumSub` and `Parent` |
| `Doubles` | scores: exact fractions with inf and nan (no variables) | used by the four below |
| `ModelLoader` | `Grammar` and `Lexicon` loading | extends `TagHierarchy`; yields the rule tables of `LAPCFGModel` |
| `ModelProjector` | `ModelProjector`, `M1ModelProjector` | extends `ModelLoader`; yields the coarse scores that `LAPCFGModel` and `M1Preparse` project by given probabilities |
| `ScalingFactors` | the three strategies, both smoothers, the factors of the preparse | extends `ModelProjector` |
| `StreamFactory` | where a file of a model comes from (no variables) | used by `LAPCFGLoader` |
| `WordIds` | the signature of an unknown word (no variables) | used by `LAPCFGLoader` |
| `LAPCFGLoader` | `loadFromBerkeleyDump` and the first steps of `parse` | composes the modules from `TagHierarchy` to here into one machine |
| `Lattice` | `addEdge`, `getEdgeList` (no variables) | used by the next |
| `PLFLatticeLoader` | `getNextData` | |
| `Session` | the loop of `main`, default parse, formatters, timer | uses `parse` as a nondeterministic step |
| `DataLemmas` | lemmas on sums over finite sets, on induction over sets, on sequences put one after the other, and on the parse trees of a grammar over any set of constituents | used by the proofs below |
| `CKYTable_proofs`, `CoarseToFine_proofs`, `ChartParser_proofs`, `M1Preparse_proofs`, `MaxRule_proofs`, `LAPCFGLoader_proofs`, `Session_proofs` | theorems | each extends the module it is named for |
| `MC*` | constants of the TLC runs | |

Names follow the code. State and actions correspond as follows.

**CKYTable.** `i` and `shift` are the loop counter and the offsets of the
constructor (`StoreDummy` the entry for length 0, `FillShift` one iteration,
`Allocate` the array); `Load`, `Store` and `Throw` are the two `at()` and their
exception. `mem` starts with arbitrary contents, since `new T[]` does not
initialise.

**CoarseToFine.** One action per stage of a call: `SetFineLevel`, `ParseEmpty`,
`StartAttempt`, `InitializeCharts`, `RejectLevel`/`AcceptLevel` (the test of the
sentence score), `PruneCharts`, `Retrieve`, and `Retry`/`Finish` in `parse`.
`allowedSub`, `width` and `scores` are the flags and sizes of the vectors in the
charts; a pruned tag keeps its old flags, as in the code. `m1` is the option
`do_m1_preparse_`. `allowedTag` starts
arbitrary, because the table is allocated uninitialised. Scores are free choices,
with two facts about the code: parsing is deterministic, so the retry sees at
every level what the first attempt saw (`seen`, a history variable), and the
posterior of ROOT over the sentence is 1, so it is never pruned while the
threshold is at most 1.

**ChartParser.** The passes of a level, a span at a time (binary inside rules a
parent tag at a time, because the extents a tag widens are read by the next one
at other spans). `extent` has the four fields of `Extent`. Scores are exact
naturals. The scaling factors multiply all parses of a sentence alike and cancel
in every posterior; common denominators are dropped. `MaxRule` is represented
here only by whether ROOT gets a finite score (`FiniteTags`). The trees the charts are compared
with (`TreesAt`) use the rules with a score whose parent derives no words (`Used`).

**M1Preparse.** `span` goes through the loops of the two passes. The expected counts by
which `M1ModelProjector` weighs the rules of a tag are any numbers that its iteration can
end with: positive for ROOT, and for the children of every rule with a score whose parent's
count is positive (`Counts`; a tag ROOT does not reach may have none). What level 0 can use
of the same model are the rules with a score whose parent derives no words (`Used`).

**MaxRule.** `best`, `back`, `after` are `maxc_log_score`, the four backpointer
charts and `after_unary`; one action per candidate rule, in any order within a
parent tag (the order is that of the grammar file). Gains (logarithms of rule
posteriors) are small integers; `NegInfty` absorbs as `-1e20` does in doubles.

**TagHierarchy**, **ModelLoader.** One action per line, then one per step of the
loader. Numbers, names and S-expression tokens are values; lines that cannot
be tokenised are `"invalid"`. An id of -1 is 0 here, since sequences count from 1.
`pc = "undefined"` stands for a read outside a table, `"error"` for an exception.

**ModelProjector.** `transition`, `count`, `coarse` and `m1` are `transition_prob`,
`exp_count`, the coarser entries of `lexicon_` and `grammar_`, and `m1_lexicon_` and
`m1_grammar_`. `MakeTransitions` is the constructor up to its loop, `Iterate` one
round of it, `ProjectLevel` and `ProjectM1` the rest with the generated models. A
rule is keyed by its tags and its scores by the subtags; a row of scores appears in
the domain with the first score of the row, as the nested vectors do.

**ScalingFactors.** One action per level and strategy. The geometric and harmonic
strategies count first, with the actions of `ModelProjector`. Logarithms and
exponentials of finite scores are `SomePositive`.

**LAPCFGLoader.** `job` is the disk and the command line. Each step of
`loadFromBerkeleyDump` starts by opening its file (`Missing` when there is none).
`MakeIdLists` makes the two id lists of a sentence and `SetTerminals` is the first
read of scores by them, of the preparse if the option asks for it and then of level 0. Only the preparse
indexes a table with the id of a word that has none (`PreparseOutside`); to the levels such
a word has the factor 1 (`LexiconFactor`) and no entry, so that it has the score smoothing gives it.

**PLFLatticeLoader.** A line is a sequence of tokens; one action per part of the
grammar of the format. The loader drops spaces inside a field before it converts it, so that
adjacent numbers are read as one (`Number`). `Throws` and `WithEdge` are `addEdge`. Node numbers wrap at
`Wrap`, and a vector longer than `MaxSize` is refused, as `resize` does.

**Session.** `Read`, `Parse`, `Write`, `EndOfInput`; `Parse` returns any tree
over the words or the default parse. A formatter visits a tree recursively; here it is a
function on the `Nodes` of the tree, which are collected level by level down to `MaxDepth`.

Every module also holds operators marked *Mutant*: plausible wrong versions of the
definition that follows them. They are used by nothing in the specification; put in
place of the definition they show that the property can be violated.

## 3. Runs

| Run | States | Shows |
|---|---|---|
| `CKYTable` | 2 050 | bounds, no aliasing, refinement of `ChartTable` for 2 words, 3 tags |
| `CoarseToFine` | 6 489 | index safety, narrowing, retry and result for one word, three tags, 3 levels, with and without the M1 preparse, and every possible pruning; termination |
| `ChartParser` | 38 818 | inside exact, posteriors cover, dominant parses kept, retrieval follows what pruning leaves, implements `CoarseToFine` |
| `MaxRule` | 3 452 | score and tree agree, optimality, debinarisation |
| `M1Preparse` | 5 472 | exact posteriors, level-0 parses covered, ROOT survives |
| `LAPCFGLoader` | 112 773 | some six thousand disks and options: tag hierarchy, finest model, coarse models, factors, places of the files |
| `Lattice` | 3 653 | edges of whole and of damaged lines |
| `Session` | 10 928 | alignment and balance |
| `LevelZeroRejects` | - | violation, finding 1 below |
| `SingleRollback` | - | violation, finding 2 |
| `PartialTags` | - | violation, finding 3 |
| `UnknownWords` | - | violation, finding 4 |

Bounds, and why they are enough:

* *CKYTable* is small because the theorems cover every size.
* *CoarseToFine* enumerates all prunings, so the bound is on cells and levels.
  The control treats every cell alike but ROOT over the sentence, so one span with
  ROOT, a phrasal and a lexical tag shows all cases; three levels give a retry
  that passes through a level that is neither first nor last. ROOT is unsplit and
  the other tags split once: pruning one of two siblings, both, and none all
  occur. The theorems cover every size here too.
* *ChartParser* uses three words, the least length at which a split point can be
  wrongly excluded (a binary child that is itself binary, on either side), two
  levels with two subtags, and grammars made of every subset of four optional
  rules. Scores are uneven and some rule combinations missing, so siblings differ. The
  thresholds 0, 1/6, 1/2 and 2/3 prune nothing, little, and most. Sentences hold
  known words, an unknown word, abstract tags (phrasal and lexical) and none.
  Twelve of the grammars have unary rules over phrases, cycles included: with them the
  extents make the inside pass lose trees (finding 1). There `InsideExact` says that
  no inside score exceeds the trees, and equals them on the other grammars (`NoPhrasalUnary`).
  `PosteriorCovers` and `PruneKeepsDominant` speak of the attempts in which every parse
  was found. The equality of `PosteriorCovers` for tags of words needs `NoLexicalParent`:
  the inside pass takes no unary rule of a tag of words (line 1013), the outside pass hands its
  score down (line 1104), so that the product exceeds the parses. `RetrievedIffConnected` has a
  condition for each direction, since the max-rule charts are by tags (line 291): at a finer level
  a tree may be retrieved whose subtags no single parse combines, but a parse by tags there is;
  at level 0 the two are the same. Four words exceed the 32-bit integers of TLC.
* *MaxRule* takes three words so that a bar below a bar occurs, and unary rules in
  a cycle. Three seeds for the gains order the candidates differently, some
  tables with gains above 0 (no `MaxRuleOptimal` there, only `TreeMatchesScore`).
* *M1Preparse* has three words, two lexical and two phrasal tags with a unary
  chain, a rule without a score and one of a tag of words, dropped rules that may leave a
  phrasal tag out of ROOT's reach, a model without UNK entries, and three weightings.
* *LAPCFGLoader* varies one aspect of a model at a time. Trees: thirteen
  shapes of up to four levels, alone and in pairs, with labels out of order and uneven
  branches. Grammars: every one of
  three lines out of fifteen, with repeated and alternating rules that defeat
  the cache, self-loops, invalid lines, unknown tags and subtags. Lexicons: every one of
  two lines out of six. Scores: 27 models whose scores are distributions,
  most of two levels and some of three, under each scaling strategy, with and without smoothing.
  Disks: every way to find each of the four files of two models in one of
  six layouts, archives cut short included, with and without the preparse. The sentence has
  a word without an id where the model has no signature for it.
  `MaxDepth` is 8, twice the depth of the deepest tree.
* `NumIteration` is 3 instead of 50: the models reach every symbol in that many rounds
  or never, and what a count is does not matter to the properties, only whether it is
  zero. `CoarseNormalised` is exact whatever the counts are.
* Scores are exact fractions, so rounding and underflow are left out.
* *Lattice* has lines of up to three columns, and of three of them every variant with
  one token changed, missing or there twice or the end cut off; `Wrap` is 64 and `MaxSize` 16, so that a span below zero wraps to a number
  that is too long for a vector, as 2^64 does.
* *Session* has two or three lines of up to two words, with brackets and blank
  lines, all option combinations, trees of depth up to four (`MaxDepth`), and laps of 0 or 1 tick (`MaxLap`).

Deadlock is checked where the system runs for ever (`CKYTable`); the others model
a call that returns or a program that ends.

*Fairness.* `Terminates` assumes weak fairness of the whole next-state
relation. `parse()` runs on the only thread and waits for nothing, so a step that can be taken is taken; no fairness between actions is
assumed.

### Findings

1. **Level 0 rejects sentences that have a parse** (`LevelZeroRejects`,
   `RejectedOnlyWithoutParse`). The extents are widened only after a binary rule
   has contributed (`P` 990). A phrase that only a unary rule derives leaves no
   extent, so no binary rule above it considers the split point. A sentence
   whose only parse contains such a phrase gets score 0 at level 0, where
   nothing has been pruned, and is reported as "No any possible parses" by a
   check whose comment (`P` 195) is "check if all possible parses are pruned".
2. **One rollback only** (`SingleRollback`, `RollbackExhaustive`). The README names
   "Rollbacking coarse grammar if parsing failed" among the approaches by which
   failures are avoided; `parse` (`P` 146) does so once. With three levels it
   gives up although level 0 has a retrievable tree.
3. **`--partial` with `--do-m1-preparse`** (`PartialTags`, `PartialTagAllowed`). The
   preparse enters an abstract tag as a phrase whatever it is (`P` 660-662), so
   that a lexical tag given in the sentence is pruned at its own position.
4. **A signature that the word table lacks, with `--do-m1-preparse`** (`UnknownWords`,
   `UnknownWordsScored`). The README names the probabilities of unknown words among
   what avoids failures. The id of a word whose signature is not in the table
   stays -1 (`P` 591). The levels provide for that: the factor of the word is 1 and its score the
   share of the UNK entries (`FactorsUsable` includes it). The preparse does not: the id indexes the
   factors and the scores of the G-1 lexicon (`P` 665, 668; `M1Lexicon.cc` 28), outside both.
   `data/jdc.words.gz` has eight signatures; `Covid19` at the start of a sentence has
   UNK-INITC-NUM, which is in neither table of `data/`.

## 4. Properties by component

* **CKYTable**: `InBounds`, `NoAlias`, and the refinement `ChartSpec`.
* **CoarseToFine**: `IndicesInside` (sizes and flags left by another level are never
  used), `RootReadable` (the entry the code reads without a test exists),
  `Lineage` (a level refines all coarser ones, retry included),
  `RetryNotRejected`, `ResultOK`, `Terminates`.
* **ChartParser**: `InsideExact`, `PosteriorCovers`,
  `PruneKeepsDominant` (an action property: a parse that alone reaches the
  threshold loses no constituent), `RetrievedIffConnected` (a parse that pruning leaves is
  not missed, and a chart whose tags have fallen apart is not reported as parsed),
  `ImplementsCoarseToFine`.
* **M1Preparse**: `PosteriorExact`, `CoversLevel0`, `RootSurvives`.
* **MaxRule**: `TreeMatchesScore`, `MaxRuleOptimal`, `Debinarized`.
* **TagHierarchy**: `Forest`, `UnevenRejected`.
* **ModelLoader**: `GrammarExact`, `ListsAgree`, `LexiconExact`.
* **ModelProjector**: `CoarseExact` (a coarse score is positive exactly where a reachable
  fine one is, and always finite), `CoarseNormalised` (distributions project to
  distributions). Both hold where every group of merged subtags has a member that is
  reachable; elsewhere 0/0 spreads, which is what the condition says.
* **ScalingFactors**: `FactorsUsable`, under the same condition; at the levels for words
  without an id too.
* **LAPCFGLoader**: `OneModel`: files that are whole in one directory are not mixed with
  others, and a sound model makes nothing fail but what the options ask for: with the
  preparse, a word without an id (finding 4). Files of which neither directory has a whole set are mixed without an error;
  the run contains such disks, and the property does not speak of them.
* **Lattice**: `LatticeExact`. The reader does not look at what follows the closing
  parenthesis, and takes a prefix of a field as its number, so the property for
  damaged lines is about words, not about scores.
* **Session**: `Aligned`, `Balanced`.

The chart passes are compared with `ParseTrees`, which has no order of evaluation,
no extents and no backpointers, so an error in the passes cannot hide in the
reference.

## 5. Proofs

**CKYTable_proofs**, for every `NumWords` and `NumTags` (`SizeAssumption`).
`InBounds` and `NoAlias` are not inductive: they say nothing while the table is
being built. The strengthening is the closed form of what the loop has stored so
far, `2 * shift[j] = (j - 1) * (2 * NumWords - j + 2)` for all `j < i` (doubled, to
avoid the division). `RowInside`, `RowsDisjoint` and `StrideInjective` turn it into
facts about addresses. Theorems: `Invariance`, `TypeCorrect`, `Bounds`, `Disjoint`, and
`Refinement`, which uses both to show that a `Store` changes exactly one entry of
the abstract chart.

**CoarseToFine_proofs**, for every sentence length, set of tags, set of lexical tags,
number of levels and hierarchy that satisfies `ShapeAssumption` and
`HierarchyAssumption` (`TagHierarchy` checks that loading establishes the latter).
`IInv` adds to the stated invariants
`ControlOK` (where the attempt stands relative to the levels already scored),
`PreparseOK`, `SeenOK` (how the recorded charts follow from one another) and
`ChartsOK` (how the charts in use follow from the recorded ones). They are needed
because `RetryNotRejected` relates the two attempts: the second one stops below a
level that the first one reached, and only the record of the first says that
every level up to there has a score. Theorems: `Invariance`, `TypeCorrect`,
`IndexSafety` (`IndicesInside`), `RootSafety` (`RootReadable`), `Narrowing` (`Lineage`),
`RetryReachesTarget` (`RetryNotRejected`), `ResultLevels` (`ResultOK`). The proof of
each step of `Next` is a lemma of its own.

**LAPCFGLoader_proofs**, for every set of jobs that satisfies `JobsAssumption`: the
grammar has lines of the form that Berkeley's training writes, or invalid ones, in any number
and order, and the splits file has one S expression per line in which every node has at most two
children (`IsSExpression`), of any shape; they name any tags. `ListsAgree` is not
inductive. A line finds its rule object in the cache of its arity or in the list of
its parent, so no tags get two objects only because the lists are complete, and a list
has no repetitions only because a new object is new in it. `IInv` therefore joins
`ListsAgree` to `UniqueRules`, with `RulesOK` and `TagsOK` (every id of a rule is that
of a tag that has a tree, so that its lists exist) and `StageOK` (no rule exists before
the grammar is opened). `Found` says what the search returns, and `LoadRuleInv` is the
step of a line; the later steps, which project and scale, leave these objects alone
(`OtherStepsInv`).
`GrammarExact` speaks of the end of the file; `ScoresInv` says the same of the lines read so far,
which is inductive because a line replaces one score and fills its row with zeros only where there is
nothing yet (`Touched`): of the lines of a rule between the same subtags, the last one is the one that
counts (`LastIs`, `LinesStep`).
`TypeOK` needs to know which step finds what. `TInv` says of every `pc` what is there: names and
trees in pairs, of the lines read so far (`ReadLines`), and a depth once it is checked
(`TreesOK`); entries of tags and words that there are, with as many scores as the tag has subtags
(`EntriesOK`); a level between 0 and the finest, and as many factors as levels are done
(`ProjectionOK`).
`LexiconExact` needs both: a line is added to the entry of an id of a tag and one of a word, and only
because names and words have one id each (`TagFound`, `WordFound`) are these the lines of a tag and
a word. `LInv` says of the lines read so far that their sums are in the entries (`EntriesGrow`);
nothing needs to be known of `Add`, since the property adds in the order of the file, as the code does.
That the words of the table are distinct and those of the file is a fact about a
fold (`WordTable`), for which the fold is shown to have a solution (`WordTablesExist`). `MaxDepth` bounds
the first branch of a tree, by an assumption on the files (`Shallow`); the code has no bound. A second
assumption on the files is `LevelsNumbered`: the labels of each level of a tree are the numbers from 0, each once.
`Mapping` writes its tables at these labels and checks none of them, so the program is only meant for such files; the
Berkeley training numbers the subtags so, and the splits files of both models in `data/` were found to be so numbered.
The order in which the labels come is free, and the files of the run use that.
`UnevenRejected` needs the trees themselves. `MakeSubtagTree` recurs over positions, and where it takes up a
second child depends on where it left the first. So the tokens are gone through from the last to the first:
what the expression at a token is read as depends on later tokens only (`ReadAt`, `ReadsOn`, `ReadExists`), and is a
tree of nodes with at most two children (`NodeRead`). The levels of such a tree are sequences of nodes
(`Levels`, `LevelTypes`). `checkDepth` follows the first branch to the end, and then all branches; `EvenMeans` shows that this asks
every branch to end there and no branch to end earlier, and `RootEven` that the chain made for ROOT passes.
The invariant `UInv` carries this from the check to the end of loading.
`OneModel` speaks of the models on the disk. The four files are looked for one by one; `WholeOpened` shows
that each is taken from the directory that holds all of a model, and `Loads` what has been read of it at every step.
That a sound model (`Sound`: even trees, lines that name tags and subtags of the splits file) makes
nothing fail, and no table be read outside but by the preparse, needs all of the above: its trees pass the check (`SoundTrees`), and a count of subtags that the
loader compares or bounds a line by is the number of leaves of the tree of that name (`LeavesCounted`), because the trees
are those of the lines under their numbers and were counted at the depth that was checked (`CInv`).
`Forest` joins these: names, trees and counts stay what they were made (`FInv`), every tree ends at the depth
(`UInv`) and is numbered (`TreesNumbered`). That no leaf of a line is lost (`LeavesRead`) goes by the tokens again, from the last to
the first: what has been collected at the end of an expression is what was there before it, and the nodes of its
finest level, since the levels of a node are those of its children side by side (`LevelsOfKids`, `LevelsOfTwo`). For the tables of two
adjacent levels, `FlattenParts` says where the children of each node lie in the finer level. As many labels as numbers, and
each number taken, leave no label to be taken twice (`NumbersOnce`); so a subtag has one parent, and the children of a node are
found by its label alone (`LevelRefined`).
Theorems: `Invariance`, `Lists` (`ListsAgree`), `OneObject` (the uniqueness that `GrammarExact`
also states), `Scores` (`GrammarExact`), `TypeCorrect`, `Entries` (`LexiconExact`), `DepthsChecked` (`UnevenRejected`), `WholeModel` (`OneModel`),
`Hierarchy` (`Forest`), `TagNumbers` (the part of `Forest` that says which tree belongs to which id, without `LevelsNumbered`).

**ChartParser_proofs**, for every set of finest models whose rules name symbols of the
finest level, ROOT being below none, and have natural scores (`InputAssumption`,
`RootAssumption`; no proof rests on the latter, it says of which grammars `CanRetrieve` is all that
`buildTree` asks), every hierarchy, table of
conditional probabilities, smoothing, sentence and threshold. The abstract control lets
a level leave any charts, but insists that the second attempt sees at every level what
the first has left there; the parser has no memory to insist on it and computes
everything anew. So the invariant has three parts. `Own` is about the charts: vectors of
allowed cells have the size of the level, ROOT over the sentence is allowed and its
outside score is at least 1 when pruning starts, extents lie between the ends of the
sentence. The second part is the `IInv` of `CoarseToFine` under the refinement mapping:
proved there, it is used here. `Traced` says that the configuration of the level loop is
one of the deterministic run from the inputs of the call, and that every recorded level
was left by a configuration of that run; a run prunes a level at most once and never
rejects one that it prunes, so what the second attempt computes is what has been
recorded. `DataLemmas` supplies that sums of products of naturals over finite sets are naturals.
`InsideExact` has an invariant of its own, `Summed`, that needs only `Own` of the other. It says
which trees a cell has the scores of: all of them over the spans the pass is done with
(`Before`), those without a unary rule on top over spans of one word and for the tags whose
binary rules are done at the current span (`PlainDone`), none elsewhere (`SumsNear`). The scores
are `Near` the totals: at most as large for any grammar, and equal under `NoPhrasalUnary`, a case
that `CloseTo` carries through sums and products so that one proof serves both. Equality needs that
no split point which matters lies outside the extents: the nearest end of a tag is always the next
position, so the extents can only be too narrow at their far ends (`ExtentsKept`), and those reach over
every phrase the tag has a score for, except ROOT's (`ExtentsReach`). Unary rules do not widen them,
which is why `NoPhrasalUnary` is needed, and why it asks that no binary rule has ROOT as a child. The
trees over a
span are split by kind (`TreeKinds`) and by the rule and split point on top (`UseTerms`,
`RaiseTerms`): each such class is the product or image of the trees of the parts, so its total is a
product of totals (`JoinedScore`, `RaisedScore`), and a use that the pass skips has a zero there.
The invariant of all passes together, `Scored`, adds three parts to `Summed`. `OutsideFresh`: the
scores from outside are zero until the inside pass is over. `OutsideSummed`, for the pass downwards: a
symbol has exactly what the productive binary rules above it owe it, of all longer spans done with, and
what its unary rules owe it once its own span is. `Accounted`: an inside score is no more than the split points
*within the extents* account for. It is what makes the outside pass, which uses the same extents, safe:
where the inside score is that of all trees (`AllFound`), no rule that matters can have been hidden.
The property then needs the parses through a constituent. Such a parse is one of the trees of the whole
sentence with the constituent on top, or goes on by exactly one rule above it (`ThruSplit`), a left or right
child of a binary rule or the child of a unary one; each class is a product of the trees of the
constituent with the parses through the one above, and the totals are taken from
the longest span down (`AllClose`). `CellCovers` puts inside and outside together;
`PruneKeepsDominant` is one further step, since a sum is no less than any of its terms.
Retrieval is an induction upwards, once by symbols and once by tags. What `CanRetrieve` reaches over a span
is compared with `CellTrees`, the trees over a set of constituents, which split by kind like those of
a level (`CellKinds`, `TagKinds`): every tag that is reached has a tree of tags (`TagsHaveTrees`), and a tree that
pruning leaves has its tag reached (`FindsAll`). The trees over fewer constituents are those of the
full set that keep to them (`FewerTrees`), so a tree that is left had been counted before pruning. The second needs that a rule of
such a tree is productive by the posteriors the max-rule charts are made of: the children have
trees, so they have scores where all were found, and the parent is part of a parse, so it has a
score from outside (`ParseLive`).
Theorems: `TypeCorrect`, `Refinement` (`ImplementsCoarseToFine`: through it the theorems
of the control hold of the passes that compute scores), `SecondAttemptScored` (a level of
the second attempt always has a positive sentence score), `InsidesExact` (`InsideExact`),
`PosteriorsCover` (`PosteriorCovers`), `DominantParsesKept` (`PruneKeepsDominant`),
`RetrievalConnected` (`RetrievedIffConnected`), `DominantRetrieved` (pruning and retrieval together:
a level at which one parse alone reaches the threshold can give a tree).

**M1Preparse_proofs**, for every merged grammar, lexicon, sentence, expected counts and
threshold. `RootSurvives` needs of the outside pass only that the score of ROOT over the sentence,
which starts at 1, never shrinks (`RootScored`). `CoversLevel0` compares the charts with the
parses of another grammar, and needs to know when a score is final. The invariant `Passes`
says of every span that the inside pass has left behind that it is closed (`InsideClosed`: a rule
with a score whose children have an inside score gives one to ROOT over the span), and of every
span that the outside pass has left behind that its outside score has been passed on to the
children of all rules whose other child has an inside score (`OutsideClosed`); the order of
the spans (`SpanOrder`) is what makes a closed span stay closed, since a part is shorter than
the whole. The rest is about one state: each rule of level 0 of a tag with a count is part of a
sum of the G-1 grammar that is positive (`RulesUsed`), so by induction on the length of spans
every level-0 tree whose root has a count is `Covered`, and ROOT has one.
`PosteriorExact` compares sums with sums. The invariants `InsideSummed` and `OutsideSummed` say
that every finished span has the sum the loops write down, and that an outside score is the sum
of the shares of the spans that are done (`Share`); which rules and trees exist does not matter
for that. The rest is again about one state. Inside, the trees of a cell are the words, the
raised words and the joined trees (`TreeKinds`), without a common one, and the score of the trees
that one rule joins is a product (`JoinedScore`), so the scores are equal by induction on the
length of spans (`InsideIsTotal`). Outside, the induction goes from parents to children and is
about any set of trees of a cell: the parses through one of them have the outside score
times theirs (`OutsideExact`). A parse has at most one tree of a cell, and that has one parent, over
one span (`Proper`), so the parses through the trees are those through their parents, once each
(`ThruParents`); what the parents over a span have in score is the share of the span
(`SharePassed`: the children of a rule are independent). `InputAssumption` says that
ROOT derives no word, so that it is no tag of words in the merged grammar.
Theorems: `TypeCorrect`, `NeverFailsAlone` (`RootSurvives`), `CoversParses` (`CoversLevel0`),
`PosteriorsExact` (`PosteriorExact`).

**MaxRule_proofs**, for every sentence length, set of tags, bars, table of anchored rules
and order of the rules. Neither property of the result is inductive: before the last
action there is no tree, and what is written to a cell in the unary pass is read together
with what the binary pass has left there. The invariant `Chart` therefore says, of every
span the loops have left behind, that it is `Sound` (a cell without a score has no child;
one with a score has a child that derives it, or parts that do) and, if no gain is
positive, `Maximal` (no word, binary rule, or unary rule above one offers more). For the
current span `BinaryRight`, `WordRight` and `UnaryRight` say the same of the rules that
are not pending. Cells of longer spans are not read by shorter ones, so a finished span stays
right (`FinishedElsewhere`). That no sum of gains falls to -1e20 needs a bound that
counts rules: a tree over n words has at most 4n - 2 (`Within`; unary rules do not chain,
which is why there is a bound at all). From the finished chart two inductions on the length of
spans lead to the theorems: `AllFound` (where a cell has a score, `buildTree` returns a tree
of it; the recursion ends because every call is of a shorter span, or of the same one below
its unary rule) and `AllBounded` (no tree over a span has more than its cell).
Theorems: `Invariance`, `TypeCorrect`, `ScoreMatches` (`TreeMatchesScore`), `Optimality`
(`MaxRuleOptimal`).
`Unbinarized` (`Debinarized`) is about the shape of the trees. That the leaves are the
words in order goes by expanding rows of nodes: the row of a sequence is the rows of its
parts one after the other (`RowsConcat`), so a tree over n words spells them after 2n
expansions, one fewer without a unary rule on top (`TreesSpelled`). That no bar symbol is
left below its own tag goes by the length of spans, for the two kinds of rules apart
(`TreesShaped`); a bar is joined to its tag once, and the bar of a bar is itself, which is
why a chain of them disappears in one pass. `SentenceAssumption` and `GainAssumption` say what a sentence and a
chart give: no tag derives itself, ROOT has unary rules only, and -1e20 is below any sum of
logarithms of posteriors that a sentence can have.

**Session_proofs**, for every sequence of lines, set of words and tags (brackets among them), tree and
bound on its depth. Two assumptions connect it to its neighbours: splitting a trimmed line
leaves no empty word, and a parse is a tree over the words of its line, which `Unbinarized`
proves of `MaxRule`. The invariant of the loop is simple (`History`: the k-th line written
is the text of the k-th result, and that a result for the k-th line read; `Counts`: how many there
are of each in every state; `TimerOK`: the timer was not started in the future). The work is in the
formatters. `TableExists` shows that their recursion over the nodes has a solution, from
the last level up, and `TreeInduction` is the induction from the leaves to the root that
follows the same levels. `SExprRight` proves by it that the text of every node is
`Complete`: its words, escaped, are those below the node, and its height is never
negative and 0 at the end (`Printed`: above 0 before the end, if the node is no word). Complete texts can be put one after the other
(`CompleteConcat`, from `HeightConcat` and `SaidConcat`) and be put into brackets behind a tag
(`WrappedFacts`). A bracket as a word would break this; `Escape` is why there is none
(`WordComplete`). Theorems: `Invariance`, `TypeCorrect`, `Alignment` (`Aligned`),
`BalancedOutput` (`Balanced`).

## 6. Model-checked only

* **Liveness** (`Terminates`) and anything that needs `ENABLED`.
* **What recursive definitions compute.** Inductions over lengths, levels and finite sets are
  done above as inductions over sets (`SetInduction`, `SubsetInduction` in `DataLemmas` and its
  neighbours). Where this has not been done is named below.
* **Loading**: `CoarseExact`, `CoarseNormalised`, `FactorsUsable`. They are statements about exact
  fractions in lowest terms; nothing has been proved about the arithmetic of `Doubles` yet.
* **Lattice**: `LatticeExact`.

## 7. Not modelled

* **Options, factories, tracing** (`parseOptions`, `ParserFactory`, `FormatterFactory`,
  `Tracer`): dispatch on strings and logging, without state. The options are constants
  or parts of a job.
* **Output streams and standard input**: they pass lines on. That the output file is
  opened before the model is loaded is listed as a hazard.
* **Rounding, underflow and overflow of doubles**, and the values of logarithms and
  exponentials. In `ChartParser` the scaling factors are 1: they multiply all parses
  of a sentence alike and cancel in every posterior.
* **Expected counts as limits**: three rounds stand for fifty.
* Build files, model data and scripts.

## 8. Plan

Done, in this order: chart storage with its proofs; control with its proofs;
scoring and its refinement of the control; max-rule; M1 preparse; session; loaders;
projection, scaling factors, streams and word ids, composed in `LAPCFGLoader`; lattice; then the proofs
of the loaders, of the preparse, and of the inside pass, outside pass and retrieval of a level.

Next:

1. Projection and scaling factors, from the arithmetic of `Doubles`.
2. The lattice reader.
