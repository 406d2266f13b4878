---------------------------- MODULE LAPCFGLoader ----------------------------
(***************************************************************************)
(* LAPCFGParser::loadFromBerkeleyDump and what parse() does first with a   *)
(* sentence: the four files of a model are found and read, the coarser     *)
(* models and the scaling factors are made, and the words of a sentence    *)
(* are looked up in them.  TagHierarchy, ModelLoader, ModelProjector and   *)
(* ScalingFactors act one after the other on what the one before left.     *)
(***************************************************************************)
EXTENDS ScalingFactors, StreamFactory, WordIds

CONSTANT
  Jobs  \* [disk, scaling, smooth, preparse, partial, sentence]; disk[kind] is a function from
        \* some of the Places to files [dump, length]: the first lines, all unless
        \* it is damaged, of a model [words, splits, lexicon, grammar]

(* The first branch of the tree of a line is not deeper than the bound.    *)
Shallow(tokens) == \E d \in 1..MaxDepth : IsDepth(MakeSubtagTree(tokens), d)

(* The subtags of each level are numbered from 0, as training does it.     *)
LevelsNumbered(tokens) ==
  \A k \in 0..(MaxDepth - 1) :
    LET nodes == NodesAt(MakeSubtagTree(tokens), k)
    IN  Range(Labels(nodes)) = 0..(Len(nodes) - 1)

Kinds == {"words", "splits", "lexicon", "grammar"}

(* The models are such as Berkeley's training writes them.                 *)
ASSUME JobsAssumption ==
  \A job \in Jobs : \A kind \in Kinds : \A place \in DOMAIN job.disk[kind] :
    LET file == job.disk[kind][place]
    IN  /\ place \in Range(Places) /\ file.length \in 0..Len(file.dump[kind])
        /\ IsSplitsFile(file.dump.splits)
        /\ \A l \in Range(file.dump.splits) : Shallow(l.tokens) /\ LevelsNumbered(l.tokens)
        /\ file.dump.words \in Seq(Range(file.dump.words))
        /\ file.dump.lexicon \in Seq(Range(file.dump.lexicon))
        /\ file.dump.grammar \in Seq(GrammarLine)
ASSUME IterationAssumption == NumIteration \in Nat \ {0}

VARIABLES
  job,    \* the disk and the arguments of the program
  wids, tids  \* the ids of the words and of the tags of the sentence

loaderVars == <<job, wids, tids>>
vars == <<pc, line, tagVars, modelVars, projectorVars, scalingVars, loaderVars>>

Init ==
  /\ job \in Jobs
  /\ pc = "smoothing" /\ line = 1
  /\ TagsInit /\ ModelInit /\ ProjectorInit
  /\ scaling = "" /\ smooth = Zero /\ factors = <<>>
  /\ wids = <<>> /\ tids = <<>>

-----------------------------------------------------------------------------
(* setUNKLexiconSmoothing throws on what is no probability.                *)
SetSmoothing ==
  /\ pc = "smoothing"
  /\ IF job.smooth[1] <= job.smooth[2]
       THEN pc' = "words" /\ smooth' = job.smooth /\ scaling' = job.scaling
       ELSE pc' = "error" /\ UNCHANGED <<smooth, scaling>>
  /\ UNCHANGED <<line, factors, tagVars, modelVars, projectorVars, loaderVars>>

(* The lines of the file a step starts with.                               *)
File(kind) == LET file == Opened(job.disk[kind]) IN SubSeq(file.dump[kind], 1, file.length)

Starts(kind) ==
  \/ kind = "words" /\ pc = "words"
  \/ kind = "splits" /\ pc = "worded"
  \/ kind = "lexicon" /\ pc = "tagged"
  \/ kind = "grammar" /\ LexiconRead

Missing ==
  /\ \E kind \in Kinds : Starts(kind) /\ ~CanOpen(job.disk[kind])
  /\ pc' = "error"
  /\ UNCHANGED <<line, tagVars, modelVars, projectorVars, scalingVars, loaderVars>>

Starting(kind) == Starts(kind) /\ CanOpen(job.disk[kind])

LoadWords ==
  /\ Starting("words")
  /\ words' = FoldLeft(AddWord, <<>>, File("words"))
  /\ pc' = "worded"
  /\ UNCHANGED <<line, lexicon, grammar, entry, rules, parents, children, current,
                 tagVars, projectorVars, scalingVars, loaderVars>>

LoadSplits ==
  /\ \/ Starting("splits") /\ StartSplits(File("splits"))
     \/ TagsNext
  /\ UNCHANGED <<modelVars, projectorVars, scalingVars, loaderVars>>

LoadModel ==
  /\ \/ Starting("lexicon") /\ StartLexicon(File("lexicon"))
     \/ Starting("grammar") /\ StartGrammar(File("grammar"))
     \/ ModelNext
  /\ IF pc' = "loaded" THEN StartProjection ELSE UNCHANGED projectorVars
  /\ UNCHANGED <<tagVars, scalingVars, loaderVars>>

GenerateCoarseModels ==
  /\ ProjectorNext
  /\ UNCHANGED <<line, tagVars, modelVars, scalingVars, loaderVars>>

GenerateScalingFactors ==
  /\ ScalingNext
  /\ UNCHANGED <<line, tagVars, modelVars, loaderVars>>

-----------------------------------------------------------------------------
WordIdOf(sentence, i) ==
  LET word == sentence[i]
      id == WordId(word.text)
  IN  IF id # 0 THEN id ELSE WordId(Signature(word, i, WordId(word.lowered) # 0))

(* A token [FOO] stands for the tag FOO.                                   *)
TagIdOf(word) == IF word.bracketed = "" THEN 0 ELSE TagId(word.bracketed)

MakeIdLists ==
  /\ pc = "scaled"
  /\ wids' = [i \in DOMAIN job.sentence |-> WordIdOf(job.sentence, i)]
  /\ tids' = [i \in DOMAIN job.sentence |-> TagIdOf(job.sentence[i])]
  /\ pc' = "ids"
  /\ UNCHANGED <<line, tagVars, modelVars, projectorVars, scalingVars, job>>

Abstract(i) == job.partial /\ tids[i] # 0

Unknown(i) == wids[i] = 0 /\ ~Abstract(i)

(* doM1Preparse, where the option asks for it, indexes the factors and the *)
(* scores of the G-1 lexicon with the id of every word, -1 included.       *)
PreparseOutside == job.preparse /\ \E i \in DOMAIN wids : Unknown(i)

(* setTerminalScores itself reads nothing outside: for the id -1 the       *)
(* factor is 1 and there is no entry, see LexiconFactor and EntryScore.    *)
SetTerminals ==
  /\ pc = "ids"
  /\ pc' = IF PreparseOutside THEN "undefined" ELSE "terminals"
  /\ UNCHANGED <<line, tagVars, modelVars, projectorVars, scalingVars, loaderVars>>

Next ==
  \/ SetSmoothing \/ Missing \/ LoadWords \/ LoadSplits \/ LoadModel
  \/ GenerateCoarseModels \/ GenerateScalingFactors
  \/ MakeIdLists \/ SetTerminals

Spec == Init /\ [][Next]_vars

-----------------------------------------------------------------------------
(* The type of every variable.                                             *)
TypeOK ==
  /\ pc \in {"smoothing", "words", "worded", "splits", "root", "count", "tagged", "lexicon", "grammar",
             "loaded", "iterate", "scaled", "ids", "terminals", "error", "undefined"}
  /\ TagsTypeOK /\ ModelTypeOK
  /\ level \in 0..MaxDepth /\ iteration \in 0..NumIteration /\ DOMAIN coarse \subseteq 0..Fine
  /\ Len(factors) <= MaxDepth
  /\ \A i \in DOMAIN wids : wids[i] \in 0..Len(words) /\ tids[i] \in 0..Len(tags)

(* All files the program finds are those of dump d, undamaged: it sees     *)
(* nothing but them in the working directory, or nothing at all there and  *)
(* nothing but them in the shared one.                                     *)
From(d, places) ==
  \A kind \in Kinds :
    /\ DOMAIN job.disk[kind] \cap places # {}
    /\ \A place \in DOMAIN job.disk[kind] \cap places :
         job.disk[kind][place] = [dump |-> d, length |-> Len(d[kind])]

Whole(d) ==
  LET local == {"text", "gzip"}
  IN  \/ From(d, local)
      \/ From(d, Range(Places) \ local) /\ \A kind \in Kinds : DOMAIN job.disk[kind] \cap local = {}

(* The numbers of finest subtags of a tag: one, or none if there is no     *)
(* such tag.                                                               *)
Leaves(d, name) ==
  LET tree(i) == MakeSubtagTree(d.splits[i].tokens)
  IN  {Len(NodesAt(tree(i), DepthOf(tree(1)) - 1)) : i \in {j \in DOMAIN d.splits : d.splits[j].name = name}}
      \cup (IF name = "ROOT" THEN {1} ELSE {})

(* The trees are even, and the lines that are not skipped name tags and    *)
(* subtags that there are.                                                 *)
Sound(d) ==
  LET tree(i) == MakeSubtagTree(d.splits[i].tokens)
  IN  /\ d.splits # <<>> /\ \A i \in DOMAIN d.splits : EvenTo(tree(i), DepthOf(tree(1)))
      /\ \A e \in Range(d.lexicon) : e.word \in Range(d.words) => Len(e.scores) \in Leaves(d, e.tag)
      /\ \A l \in Range(d.grammar) :
           \/ l.kind = "unary" /\ l.rule[1] = l.rule[2] /\ l.sub[1] = l.sub[2]
           \/ /\ l.kind = "unary" \/ (l.kind = "binary" /\ l.rule[1] # "ROOT")
              /\ \A i \in DOMAIN l.rule : \E n \in Leaves(d, l.rule[i]) : l.sub[i] < n

Dumps == UNION {{file.dump : file \in Range(job.disk[kind])} : kind \in Kinds}

(* Each of the four files is looked for on its own, and still a model that *)
(* is whole in one directory is loaded as it is, whatever lies in the      *)
(* other one; and if it is sound, nothing but the options can make loading *)
(* fail, and no table is read outside its bounds but by the preparse of a  *)
(* sentence with a word that has no id.                                    *)
OneModel ==
  \A d \in Dumps : Whole(d) =>
    /\ pc \notin {"smoothing", "words", "error"} => words = FoldLeft(AddWord, <<>>, d.words)
    /\ splits \in {<<>>, d.splits} /\ lexicon \in {<<>>, d.lexicon} /\ grammar \in {<<>>, d.grammar}
    /\ m1 # <<>> => splits = d.splits /\ lexicon = d.lexicon /\ grammar = d.grammar
    /\ pc = "error" /\ Sound(d) =>
         ~(job.smooth[1] <= job.smooth[2]) \/ job.scaling \notin {"max", "geometric", "harmonic"}
    /\ pc = "undefined" /\ Sound(d) => PreparseOutside

(* A word without an id, its signature not being in the word table either, *)
(* is scored, and read from no table outside its bounds, with the preparse *)
(* as without it: among what avoids failures README.md:20-21 names the     *)
(* probabilities of unknown words, and the smoothers of both passes add a  *)
(* share of all UNK entries to the scores of any word.                     *)
UnknownWordsScored ==
  \A i \in DOMAIN wids : Unknown(i) => pc # "undefined"
=============================================================================
