------------------------ MODULE LAPCFGLoader_proofs ------------------------
(***************************************************************************)
(* Proofs about the rule objects of the finest model, for every disk whose *)
(* files have the form that JobsAssumption describes.  ListsAgree is not   *)
(* inductive: a rule object is found through the list of its parent, so    *)
(* that no tags get two objects only because the lists are complete, and   *)
(* the lists stay free of repetitions only because no rule is made twice.  *)
(* On it rest the scores of the rules, by the lines read so far, and the   *)
(* types of all variables, by what each step of loading leaves to the next.*)
(***************************************************************************)
EXTENDS LAPCFGLoader, DataLemmas, SequenceTheorems, TLAPS

(* The steps before the grammar is read.                                   *)
Early == {"smoothing", "words", "worded", "splits", "root", "count", "tagged", "lexicon"}

(* There are no rules before the grammar is read, and two from then on;    *)
(* and there is a tag, that of these two, once the trees are counted.      *)
StageOK ==
  /\ job \in Jobs /\ line \in Nat \ {0}
  /\ pc = "grammar" => rules # <<>>
  /\ pc \in Early => rules = <<>>
  /\ pc \in {"count", "tagged", "lexicon"} => trees # <<>>

(* Every tag has a tree, under the number of the tag.                      *)
TagsOK == tags \in Seq(Range(tags)) /\ trees \in Seq(Range(trees)) /\ Len(tags) <= Len(trees)

IsRule(r) ==
  /\ r = [rule |-> r.rule, score |-> r.score]
  /\ r.rule \in Seq(TagIds) /\ Len(r.rule) \in {2, 3}

RulesOK ==
  rules # <<>> =>
    /\ grammar \in Seq(GrammarLine)
    /\ rules \in Seq(Range(rules)) /\ \A i \in DOMAIN rules : IsRule(rules[i])
    /\ parents \in [{2, 3} -> [TagIds -> Seq(Nat)]] /\ children \in [TagIds -> Seq(Nat)]
    /\ current \in [{2, 3} -> DOMAIN rules]

(* No two rule objects are for the same tags.                              *)
UniqueRules == \A i, j \in DOMAIN rules : rules[i].rule = rules[j].rule => i = j

IInv == StageOK /\ TagsOK /\ RulesOK /\ UniqueRules /\ ListsAgree

-----------------------------------------------------------------------------
(* A sequence is over its own elements.                                    *)
LEMMA Extended ==
  ASSUME NEW s, s \in Seq(Range(s)), NEW x
  PROVE  /\ Append(s, x) \in Seq(Range(Append(s, x)))
         /\ Len(s) \in Nat /\ Len(Append(s, x)) = Len(s) + 1
         /\ DOMAIN s = 1..Len(s) /\ DOMAIN Append(s, x) = 1..(Len(s) + 1)
         /\ \A i \in 1..Len(s) : Append(s, x)[i] = s[i]
         /\ Append(s, x)[Len(s) + 1] = x
         /\ Append(s, x) # <<>>
<1> DEFINE T == Range(s) \cup {x}
<1>1. s \in Seq(T)
  BY SeqMonotonic
<1>2. Append(s, x) \in Seq(T)
  BY <1>1, AppendProperties
<1>3. Append(s, x) \in Seq(Range(Append(s, x)))
  <2>1. Append(s, x) \in [1..Len(Append(s, x)) -> T] /\ Len(Append(s, x)) \in Nat
    BY <1>2, LenProperties
  <2>2. Append(s, x) \in [1..Len(Append(s, x)) -> Range(Append(s, x))]
    BY <2>1 DEF Range
  <2> QED  BY <2>1, <2>2, SeqDef
<1>4. /\ Append(s, x) # <<>> /\ Len(Append(s, x)) = Len(s) + 1
      /\ \A i \in 1..Len(s) : Append(s, x)[i] = s[i]
      /\ Append(s, x)[Len(s) + 1] = x
  BY <1>1, AppendProperties
<1>5. /\ Len(s) \in Nat /\ DOMAIN s = 1..Len(s)
      /\ DOMAIN Append(s, x) = 1..Len(Append(s, x))
  BY <1>1, <1>2, LenProperties
<1> QED  BY <1>3, <1>4, <1>5

(* The elements of a longer sequence.                                      *)
LEMMA RangeExtended ==
  ASSUME NEW s \in Seq(Nat), NEW n \in Nat
  PROVE  /\ Append(s, n) \in Seq(Nat)
         /\ Range(Append(s, n)) = Range(s) \cup {n}
         /\ n \notin Range(s) /\ IsInjective(s) => IsInjective(Append(s, n))
<1>1. /\ Append(s, n) \in Seq(Nat) /\ Len(Append(s, n)) = Len(s) + 1
      /\ \A i \in 1..Len(s) : Append(s, n)[i] = s[i]
      /\ Append(s, n)[Len(s) + 1] = n
  BY AppendProperties
<1>2. Len(s) \in Nat /\ DOMAIN s = 1..Len(s) /\ DOMAIN Append(s, n) = 1..(Len(s) + 1)
  BY <1>1, LenProperties
<1>3. Range(Append(s, n)) = Range(s) \cup {n}
  <2>1. Range(s) = {s[i] : i \in 1..Len(s)}
    BY <1>2 DEF Range
  <2>2. Range(Append(s, n)) = {Append(s, n)[i] : i \in 1..(Len(s) + 1)}
    BY <1>2 DEF Range
  <2> QED  BY <1>1, <1>2, <2>1, <2>2
<1>4. n \notin Range(s) /\ IsInjective(s) => IsInjective(Append(s, n))
  <2>1. Range(s) = {s[i] : i \in 1..Len(s)}
    BY <1>2 DEF Range
  <2> QED  BY <1>1, <1>2, <2>1 DEF IsInjective
<1> QED  BY <1>1, <1>3, <1>4

(* Nothing is loaded at first.                                             *)
LEMMA InitInv == Init => IInv
<1> SUFFICES ASSUME Init PROVE IInv
  OBVIOUS
<1>1. /\ job \in Jobs /\ line = 1 /\ pc = "smoothing" /\ rules = <<>> /\ tags = <<>> /\ trees = <<>>
  BY DEF Init, TagsInit, ModelInit
<1>2. <<>> \in Seq(Range(<<>>))
  BY EmptySeq
<1>3. StageOK /\ TagsOK
  BY <1>1, <1>2 DEF StageOK, TagsOK
<1>4. RulesOK /\ ListsAgree
  BY <1>1 DEF RulesOK, ListsAgree
<1>5. UniqueRules
  BY <1>1 DEF UniqueRules
<1> QED  BY <1>3, <1>4, <1>5 DEF IInv

(* What the invariant says of the rules, by the variables it names.        *)
LEMMA RulesFrame ==
  ASSUME IInv, UNCHANGED <<tags, trees, grammar, rules, parents, children, current>>
  PROVE  TagsOK' /\ RulesOK' /\ UniqueRules' /\ ListsAgree'
<1>1. TagsOK'
  BY DEF IInv, TagsOK
<1>2. RulesOK'
  BY DEF IInv, RulesOK, IsRule, TagIds
<1>3. UniqueRules'
  BY DEF IInv, UniqueRules
<1>4. ListsAgree'
  BY DEF IInv, ListsAgree, TagIds
<1> QED  BY <1>1, <1>2, <1>3, <1>4

-----------------------------------------------------------------------------
(* Preservation, one lemma per kind of step.                               *)

(* What is done before any file is read, and when one is missing, and all  *)
(* that comes after the finest model, leaves trees and rules alone.        *)
LEMMA OtherStepsInv ==
  ASSUME IInv,
         SetSmoothing \/ Missing \/ LoadWords \/ GenerateCoarseModels \/ GenerateScalingFactors
           \/ MakeIdLists \/ SetTerminals
  PROVE  IInv'
<1>1. UNCHANGED <<tags, trees, grammar, rules, parents, children, current, job, line>>
  BY DEF SetSmoothing, Missing, LoadWords, GenerateCoarseModels, GenerateScalingFactors, MakeIdLists,
         SetTerminals, tagVars, modelVars, loaderVars
<1>2. pc' # "grammar" /\ (pc' \in Early => pc \in Early /\ pc' \in {"words", "worded"})
  <2>1. CASE SetSmoothing
    BY <2>1 DEF SetSmoothing, Early
  <2>2. CASE Missing
    BY <2>2 DEF Missing, Early
  <2>3. CASE LoadWords
    BY <2>3 DEF LoadWords, Starting, Starts, LexiconRead, Early
  <2>4. CASE GenerateCoarseModels
    <3>1. MakeTransitions => pc' = "iterate"
      BY DEF MakeTransitions
    <3>2. Iterate => pc' = pc /\ pc = "iterate"
      BY DEF Iterate
    <3>3. ProjectLevel => pc' = "loaded"
      BY DEF ProjectLevel
    <3>4. ProjectM1 => pc' = "loaded"
      BY DEF ProjectM1
    <3> QED  BY <2>4, <3>1, <3>2, <3>3, <3>4 DEF GenerateCoarseModels, ProjectorNext, Early
  <2>5. CASE GenerateScalingFactors
    <3>1. pc' \in {"iterate", "loaded", "scaled", "error"}
      BY <2>5 DEF GenerateScalingFactors, ScalingNext, CountForFactors, MakeTransitions, MakeMax,
                  MakeGeometric, MakeHarmonic, UnknownStrategy, AddFactors
    <3> QED  BY <3>1 DEF Early
  <2>6. CASE MakeIdLists \/ SetTerminals
    BY <2>6 DEF MakeIdLists, SetTerminals, Early
  <2> QED  BY <2>1, <2>2, <2>3, <2>4, <2>5, <2>6
<1>3. StageOK'
  BY <1>1, <1>2 DEF IInv, StageOK, Early
<1> QED  BY <1>1, <1>3, RulesFrame DEF IInv

(* A table grows by at most one word.                                      *)
LEMMA TableGrows ==
  ASSUME NEW table, table \in Seq(Range(table)), NEW w
  PROVE  /\ AddWord(table, w) \in Seq(Range(AddWord(table, w)))
         /\ Len(table) \in Nat /\ Len(AddWord(table, w)) \in {Len(table), Len(table) + 1}
  BY Extended DEF AddWord

(* Every line of the splits file, and ROOT, brings a tree and at most one  *)
(* tag.                                                                    *)
LEMMA LoadSplitsInv == ASSUME IInv, LoadSplits PROVE IInv'
<1>1. UNCHANGED <<grammar, rules, parents, children, current, job>>
  BY DEF LoadSplits, modelVars, loaderVars
<1>2. pc \in {"worded", "splits", "root", "count"} /\ pc' \notin {"lexicon", "grammar"}
  BY DEF LoadSplits, Starting, Starts, LexiconRead, StartSplits, TagsNext, LoadLine, CheckNothing,
         CheckDepth, AddRoot, CountSubtags
<1>3. rules = <<>>
  BY <1>2 DEF IInv, StageOK, Early
<1>4. TagsOK' /\ (pc' \in {"count", "tagged"} => trees' # <<>>)
  <2>1. CASE UNCHANGED <<tags, trees>> /\ pc' # "count" /\ (pc' = "tagged" => pc = "count")
    BY <2>1 DEF IInv, TagsOK, StageOK
  <2>2. ASSUME NEW name, NEW tree, tags' = AddWord(tags, name), trees' = Append(trees, tree)
        PROVE  TagsOK' /\ trees' # <<>>
    <3>1. trees' \in Seq(Range(trees')) /\ Len(trees) \in Nat /\ Len(trees') = Len(trees) + 1 /\ trees' # <<>>
      BY <2>2, Extended DEF IInv, TagsOK
    <3>2. tags' \in Seq(Range(tags')) /\ Len(tags) \in Nat /\ Len(tags') \in {Len(tags), Len(tags) + 1}
      BY <2>2, TableGrows DEF IInv, TagsOK
    <3> QED  BY <3>1, <3>2 DEF IInv, TagsOK
  <2>3. CASE LoadLine
    BY <2>2, <2>3 DEF LoadLine
  <2>4. CASE AddRoot
    BY <2>2, <2>4 DEF AddRoot
  <2>5. CASE (Starting("splits") /\ StartSplits(File("splits"))) \/ CheckNothing \/ CheckDepth \/ CountSubtags
    <3>1. UNCHANGED <<tags, trees>> /\ pc' # "count" /\ (pc' = "tagged" => pc = "count")
      BY <2>5 DEF StartSplits, CheckNothing, CheckDepth, CountSubtags, tagVars
    <3> QED  BY <2>1, <3>1
  <2> QED  BY <2>3, <2>4, <2>5 DEF LoadSplits, TagsNext
<1>5. line' \in {line, 1, line + 1}
  BY DEF LoadSplits, TagsNext, StartSplits, LoadLine, CheckNothing, CheckDepth, AddRoot, CountSubtags
<1>6. StageOK'
  BY <1>1, <1>2, <1>3, <1>4, <1>5 DEF IInv, StageOK
<1>7. RulesOK' /\ UniqueRules' /\ ListsAgree'
  BY <1>1, <1>3 DEF RulesOK, UniqueRules, ListsAgree
<1> QED  BY <1>4, <1>6, <1>7 DEF IInv

(* The lexicon is read before there are rules.                             *)
LEMMA LexiconInv ==
  ASSUME IInv, LoadModel, (Starting("lexicon") /\ StartLexicon(File("lexicon"))) \/ LoadEntry
  PROVE  IInv'
<1>1. UNCHANGED <<tags, trees, grammar, rules, parents, children, current, job>>
  BY DEF LoadModel, StartLexicon, LoadEntry, tagVars, loaderVars
<1>2. pc \in {"tagged", "lexicon"} /\ pc' \notin {"count", "tagged", "grammar"} /\ line' \in {1, line + 1}
  BY DEF Starting, Starts, LexiconRead, StartLexicon, LoadEntry
<1>3. StageOK'
  BY <1>1, <1>2 DEF IInv, StageOK, Early
<1> QED  BY <1>1, <1>3, RulesFrame DEF IInv

(* Steps that read a line of the grammar without effect on the rules, or   *)
(* end the file.                                                           *)
LEMMA IdleGrammarInv ==
  ASSUME IInv, LoadModel, SkipSelfLoop \/ RejectLine \/ LoadOutside \/ EndGrammar
  PROVE  IInv'
<1>1. UNCHANGED <<tags, trees, grammar, rules, parents, children, current, job>>
  BY DEF LoadModel, SkipSelfLoop, RejectLine, LoadOutside, EndGrammar, tagVars, modelVars, loaderVars
<1>2. pc = "grammar" /\ pc' \notin Early /\ line' \in {line, line + 1}
  BY DEF SkipSelfLoop, RejectLine, LoadOutside, EndGrammar, Early
<1>3. StageOK'
  BY <1>1, <1>2 DEF IInv, StageOK, Early
<1> QED  BY <1>1, <1>3, RulesFrame DEF IInv

-----------------------------------------------------------------------------
(* The file that is opened is the first that lies on the disk.             *)
LEMMA OpenedFile ==
  ASSUME NEW files, DOMAIN files \subseteq Range(Places), CanOpen(files)
  PROVE  \E i \in DOMAIN Places :
           /\ Places[i] \in DOMAIN files /\ \A j \in 1..(i - 1) : Places[j] \notin DOMAIN files
           /\ Opened(files) = files[Places[i]]
<1> DEFINE Is(i) == Places[i] \in DOMAIN files /\ \A j \in 1..(i - 1) : Places[j] \notin DOMAIN files
<1>1. DOMAIN Places = 1..4 /\ Range(Places) = {Places[1], Places[2], Places[3], Places[4]}
  BY DEF Places, Range
<1>2. \E i \in DOMAIN Places : Places[i] \in DOMAIN files
  BY <1>1 DEF CanOpen
<1>3. \E i \in DOMAIN Places : Is(i)
  <2>1. CASE Is(1)
    BY <1>1, <2>1
  <2>2. CASE ~Is(1) /\ Is(2)
    BY <1>1, <2>2
  <2>3. CASE ~Is(1) /\ ~Is(2) /\ Is(3)
    BY <1>1, <2>3
  <2>4. CASE ~Is(1) /\ ~Is(2) /\ ~Is(3)
    <3>1. Places[1] \notin DOMAIN files
      BY <2>4
    <3>2. Places[2] \notin DOMAIN files
      <4>1. \A j \in 1..(2 - 1) : j = 1
        OBVIOUS
      <4> QED  BY <2>4, <3>1, <4>1
    <3>3. Places[3] \notin DOMAIN files
      <4>1. \A j \in 1..(3 - 1) : j \in {1, 2}
        OBVIOUS
      <4> QED  BY <2>4, <3>1, <3>2, <4>1
    <3>4. Places[4] \in DOMAIN files
      BY <1>1, <1>2, <3>1, <3>2, <3>3
    <3>5. \A j \in 1..(4 - 1) : j \in {1, 2, 3}
      OBVIOUS
    <3>6. Is(4)
      BY <3>1, <3>2, <3>3, <3>4, <3>5
    <3> QED  BY <1>1, <3>6
  <2> QED  BY <2>1, <2>2, <2>3, <2>4
<1>4. PICK i \in DOMAIN Places : i = CHOOSE k \in DOMAIN Places : Is(k)
  BY <1>3
<1>5. Is(i)
  BY <1>3, <1>4
<1>6. Opened(files) = files[Places[i]]
  BY <1>4 DEF Opened
<1> QED  BY <1>5, <1>6

(* What is read of a file are its first lines.                             *)
LEMMA FirstLines ==
  ASSUME NEW T, NEW lines \in Seq(T), NEW n \in 0..Len(lines)
  PROVE  /\ SubSeq(lines, 1, n) \in Seq(T) /\ Len(SubSeq(lines, 1, n)) = n
         /\ DOMAIN SubSeq(lines, 1, n) = 1..n /\ 1..n \subseteq DOMAIN lines
         /\ \A i \in 1..n : SubSeq(lines, 1, n)[i] = lines[i]
<1>1. Len(lines) \in Nat /\ DOMAIN lines = 1..Len(lines)
  BY LenProperties
<1>2. \A i \in 1..n : lines[i] \in T
  BY <1>1, ElementOfSeq
<1>3. 1 \in Int /\ n \in Int /\ n \in Nat
  BY <1>1
<1>4. SubSeq(lines, 1, n) \in Seq(T)
  BY <1>2, <1>3, SubSeqProperties
<1>5. Len(SubSeq(lines, 1, n)) = n /\ \A i \in 1..n : SubSeq(lines, 1, n)[i] = lines[i]
  BY <1>2, <1>3, SubSeqProperties
<1>6. DOMAIN SubSeq(lines, 1, n) = 1..n
  BY <1>4, <1>5, LenProperties
<1> QED  BY <1>1, <1>4, <1>5, <1>6

(* What the loader reads of a file, by what the disk holds.                *)
LEMMA FileLines ==
  ASSUME job \in Jobs, NEW kind \in Kinds, CanOpen(job.disk[kind])
  PROVE  \E file : /\ file.length \in 0..Len(file.dump[kind])
                   /\ IsSplitsFile(file.dump.splits)
                   /\ \A l \in Range(file.dump.splits) : Shallow(l.tokens) /\ LevelsNumbered(l.tokens)
                   /\ file.dump.words \in Seq(Range(file.dump.words))
                   /\ file.dump.lexicon \in Seq(Range(file.dump.lexicon))
                   /\ file.dump.grammar \in Seq(GrammarLine)
                   /\ File(kind) = SubSeq(file.dump[kind], 1, file.length)
<1>1. \A place \in DOMAIN job.disk[kind] :
        LET file == job.disk[kind][place]
        IN  /\ place \in Range(Places) /\ file.length \in 0..Len(file.dump[kind])
            /\ IsSplitsFile(file.dump.splits)
            /\ \A l \in Range(file.dump.splits) : Shallow(l.tokens) /\ LevelsNumbered(l.tokens)
            /\ file.dump.words \in Seq(Range(file.dump.words))
            /\ file.dump.lexicon \in Seq(Range(file.dump.lexicon))
            /\ file.dump.grammar \in Seq(GrammarLine)
  BY JobsAssumption
<1>2. PICK place \in DOMAIN job.disk[kind] : Opened(job.disk[kind]) = job.disk[kind][place]
  <2>1. DOMAIN job.disk[kind] \subseteq Range(Places)
    BY <1>1
  <2> QED  BY <2>1, OpenedFile
<1> QED  BY <1>1, <1>2 DEF File

(* What is read of a grammar are lines of a grammar.                       *)
LEMMA OpenedGrammar ==
  ASSUME job \in Jobs, CanOpen(job.disk["grammar"])
  PROVE  File("grammar") \in Seq(GrammarLine)
<1>1. "grammar" \in Kinds
  BY DEF Kinds
<1>2. PICK file : /\ file.length \in 0..Len(file.dump["grammar"]) /\ file.dump.grammar \in Seq(GrammarLine)
                  /\ File("grammar") = SubSeq(file.dump["grammar"], 1, file.length)
  BY <1>1, FileLines
<1> DEFINE lines == file.dump["grammar"]
           n == file.length
<1>3. lines \in Seq(GrammarLine) /\ n \in 0..Len(lines) /\ File("grammar") = SubSeq(lines, 1, n)
  BY <1>2
<1> HIDE DEF lines, n
<1>4. SubSeq(lines, 1, n) \in Seq(GrammarLine)
  BY <1>3, FirstLines
<1> QED  BY <1>3, <1>4

(* The loader starts with two rule objects, both of the first tag.         *)
LEMMA StartGrammarInv ==
  ASSUME IInv, LoadModel, Starting("grammar"), StartGrammar(File("grammar"))
  PROVE  IInv'
<1>1. pc = "lexicon" /\ pc' = "grammar" /\ UNCHANGED <<tags, trees, job>>
  BY DEF Starting, Starts, LexiconRead, StartGrammar, LoadModel, tagVars, loaderVars
<1>2. 1 \in TagIds
  <2>1. trees \in Seq(Range(trees)) /\ trees # <<>>
    BY <1>1 DEF IInv, TagsOK, StageOK
  <2>2. DOMAIN trees = 1..Len(trees) /\ Len(trees) \in Nat /\ Len(trees) # 0
    BY <2>1, LenProperties, EmptySeq
  <2> QED  BY <2>2 DEF TagIds
<1>3. TagsOK' /\ line' = 1
  BY <1>1 DEF IInv, TagsOK, StartGrammar
<1> DEFINE b == [rule |-> <<1, 1, 1>>, score |-> <<>>]
           u == [rule |-> <<1, 1>>, score |-> <<>>]
<1>4. rules' = <<b, u>> /\ rules' \in Seq(Range(rules')) /\ DOMAIN rules' = {1, 2}
  <2>1. rules' = <<b, u>>
    BY DEF StartGrammar
  <2>2. DOMAIN <<b, u>> = {1, 2}
    OBVIOUS
  <2>3. Range(<<b, u>>) = {b, u}
    BY <2>2 DEF Range
  <2>4. <<b, u>> \in Seq({b, u})
    OBVIOUS
  <2> QED  BY <2>1, <2>2, <2>3, <2>4
<1>5. TagIds' = TagIds
  BY <1>1 DEF TagIds
<1>6. /\ parents' = [a \in {2, 3} |-> [t \in TagIds |-> IF t = 1 THEN <<4 - a>> ELSE <<>>]]
      /\ children' = [t \in TagIds |-> IF t = 1 THEN <<2>> ELSE <<>>]
      /\ current' = [a \in {2, 3} |-> 4 - a]
  BY DEF StartGrammar
<1>7. <<1, 1, 1>> \in Seq(TagIds) /\ <<1, 1>> \in Seq(TagIds) /\ Len(<<1, 1, 1>>) = 3 /\ Len(<<1, 1>>) = 2
  BY <1>2
<1>8. grammar' \in Seq(GrammarLine)
  BY OpenedGrammar DEF IInv, StageOK, Starting, StartGrammar
<1>9. rules'[1].rule = <<1, 1, 1>> /\ rules'[2].rule = <<1, 1>>
  BY <1>4
<1>10. RulesOK'
  <2>1. (\A i \in DOMAIN rules : IsRule(rules[i]))'
    <3>1. rules'[1] = b /\ rules'[2] = u
      BY <1>4
    <3>2. b = [rule |-> b.rule, score |-> b.score] /\ u = [rule |-> u.rule, score |-> u.score]
      OBVIOUS
    <3> HIDE DEF b, u
    <3>3. (IsRule(rules[1]) /\ IsRule(rules[2]))'
      BY <1>5, <1>7, <1>9, <3>1, <3>2 DEF IsRule
    <3> QED  BY <1>4, <3>3
  <2>2. /\ parents' \in [{2, 3} -> [TagIds' -> Seq(Nat)]] /\ children' \in [TagIds' -> Seq(Nat)]
        /\ current' \in [{2, 3} -> DOMAIN rules']
    BY <1>4, <1>5, <1>6
  <2> QED  BY <1>4, <1>8, <2>1, <2>2 DEF RulesOK
<1>11. UniqueRules'
  <2>1. <<1, 1, 1>> # <<1, 1>>
    BY <1>7
  <2> QED  BY <1>4, <1>9, <2>1 DEF UniqueRules
<1>12. ListsAgree'
  <2>1. \A n : IsInjective(<<n>>) /\ Range(<<n>>) = {n}
    BY DEF IsInjective, Range
  <2>2. IsInjective(<<>>) /\ Range(<<>>) = {}
    BY DEF IsInjective, Range
  <2>3. ASSUME NEW a \in {2, 3}, NEW t \in TagIds
        PROVE  /\ IsInjective(parents'[a][t])
               /\ Range(parents'[a][t]) = {i \in DOMAIN rules' : Len(rules'[i].rule) = a /\ rules'[i].rule[1] = t}
    <3>1. parents'[a][t] = IF t = 1 THEN <<4 - a>> ELSE <<>>
      BY <1>6
    <3>2. IsInjective(parents'[a][t]) /\ Range(parents'[a][t]) = IF t = 1 THEN {4 - a} ELSE {}
      BY <2>1, <2>2, <3>1
    <3>3. \A i \in DOMAIN rules' : Len(rules'[i].rule) = 4 - i /\ rules'[i].rule[1] = 1
      <4>1. <<1, 1, 1>>[1] = 1 /\ <<1, 1>>[1] = 1
        OBVIOUS
      <4>2. Len(rules'[1].rule) = 3 /\ rules'[1].rule[1] = 1
        BY <1>7, <1>9, <4>1
      <4>3. Len(rules'[2].rule) = 2 /\ rules'[2].rule[1] = 1
        BY <1>7, <1>9, <4>1
      <4>4. DOMAIN rules' = {1, 2}
        BY <1>4
      <4>5. 4 - 1 = 3 /\ 4 - 2 = 2
        OBVIOUS
      <4> QED  BY <4>2, <4>3, <4>4, <4>5, Zenon
    <3> QED  BY <1>4, <3>2, <3>3
  <2>4. ASSUME NEW t \in TagIds
        PROVE  /\ IsInjective(children'[t])
               /\ Range(children'[t]) = {i \in DOMAIN rules' : Len(rules'[i].rule) = 2 /\ rules'[i].rule[2] = t}
    BY <1>4, <1>6, <1>7, <1>9, <2>1, <2>2
  <2> QED  BY <1>5, <2>3, <2>4 DEF ListsAgree
<1>13. StageOK'
  BY <1>1, <1>3, <1>4 DEF IInv, StageOK, Early
<1> QED  BY <1>3, <1>10, <1>11, <1>12, <1>13 DEF IInv

-----------------------------------------------------------------------------
(* The tags of a line that is loaded are numbers of trees.                 *)
LEMMA LineIds ==
  ASSUME IInv, LoadRule
  PROVE  Ids \in Seq(TagIds) /\ Len(Ids) = Arity /\ Arity \in {2, 3} /\ Ids[1] \in TagIds /\ Ids[2] \in TagIds
<1>1. pc = "grammar" /\ line \in 1..Len(grammar) /\ ~Rejected /\ ~Outside /\ grammar \in Seq(GrammarLine)
  <2>1. pc = "grammar" /\ line <= Len(grammar) /\ ~Rejected /\ ~Outside
    BY DEF LoadRule
  <2>2. line \in Nat \ {0} /\ grammar \in Seq(GrammarLine)
    BY <2>1 DEF IInv, StageOK, RulesOK
  <2> QED  BY <2>1, <2>2, LenProperties
<1>2. Line \in GrammarLine /\ Line.kind # "invalid"
  BY <1>1, ElementOfSeq DEF Line, Rejected
<1>3. Line.rule \in STRING \X STRING \X STRING \/ Line.rule \in STRING \X STRING
  BY <1>2 DEF GrammarLine
<1>4. (DOMAIN Line.rule = 1..3 /\ Len(Line.rule) = 3) \/ (DOMAIN Line.rule = 1..2 /\ Len(Line.rule) = 2)
  BY <1>3
<1>5. Arity \in {2, 3} /\ DOMAIN Line.rule = 1..Arity
  BY <1>4 DEF Arity
<1>6. ASSUME NEW i \in DOMAIN Line.rule  PROVE Ids[i] \in TagIds
  <2>1. Ids[i] = TagId(Line.rule[i]) /\ Ids[i] # 0
    BY <1>1 DEF Ids, Outside
  <2>2. Line.rule[i] \in Range(tags)
    BY <2>1 DEF TagId, Range
  <2>3. \E k \in DOMAIN tags : tags[k] = Line.rule[i]
    BY <2>2 DEF Range
  <2>4. Ids[i] \in DOMAIN tags
    BY <2>1, <2>2, <2>3 DEF TagId
  <2>5. DOMAIN tags = 1..Len(tags) /\ DOMAIN trees = 1..Len(trees) /\ Len(tags) <= Len(trees)
        /\ Len(tags) \in Nat /\ Len(trees) \in Nat
    BY LenProperties DEF IInv, TagsOK
  <2> QED  BY <2>4, <2>5 DEF TagIds
<1>7. Ids \in [1..Arity -> TagIds]
  <2>1. Ids = [i \in 1..Arity |-> TagId(Line.rule[i])]
    BY <1>5 DEF Ids
  <2>2. \A i \in 1..Arity : TagId(Line.rule[i]) \in TagIds
    BY <1>5, <1>6, <2>1
  <2> QED  BY <2>1, <2>2
<1>8. Ids \in Seq(TagIds) /\ Len(Ids) = Arity
  <2>1. Ids \in Seq(TagIds)
    BY <1>5, <1>7, SeqDef
  <2>2. DOMAIN Ids = 1..Arity /\ DOMAIN Ids = 1..Len(Ids) /\ Len(Ids) \in Nat
    BY <1>7, <2>1, LenProperties
  <2> QED  BY <1>5, <2>1, <2>2
<1> QED  BY <1>5, <1>7, <1>8

(* The rule object of the line: one that is there has just the tags of     *)
(* the line, and a new one is made only if none has.                       *)
LEMMA Found ==
  ASSUME IInv, LoadRule, NEW i, i = IF Cached THEN current[Arity] ELSE Find(Ids)
  PROVE  \/ i \in DOMAIN rules /\ rules[i].rule = Ids
         \/ i = Len(rules) + 1 /\ \A k \in DOMAIN rules : rules[k].rule # Ids
<1>1. rules # <<>> /\ RulesOK /\ UniqueRules /\ ListsAgree
  BY DEF IInv, StageOK, LoadRule
<1>2. Arity \in {2, 3} /\ Len(Ids) = Arity /\ Ids[1] \in TagIds
  BY LineIds
<1>3. CASE Cached
  <2>1. current[Arity] \in DOMAIN rules
    BY <1>1, <1>2 DEF RulesOK
  <2> QED  BY <1>3, <2>1 DEF Cached
<1>4. Listed(Ids) = {k \in DOMAIN rules : rules[k].rule = Ids}
  <2>1. Range(parents[Arity][Ids[1]]) =
          {k \in DOMAIN rules : Len(rules[k].rule) = Arity /\ rules[k].rule[1] = Ids[1]}
    BY <1>1, <1>2 DEF ListsAgree
  <2> QED  BY <1>2, <2>1 DEF Listed
<1>5. CASE ~Cached /\ Listed(Ids) = {}
  BY <1>4, <1>5 DEF Find
<1>6. CASE ~Cached /\ Listed(Ids) # {}
  <2>1. PICK k \in Listed(Ids) : TRUE
    BY <1>6
  <2>2. Listed(Ids) = {k}
    BY <1>1, <1>4, <2>1 DEF UniqueRules
  <2>3. k <= k
    <3>1. k \in DOMAIN rules /\ rules \in Seq(Range(rules))
      BY <1>1, <1>4, <2>1 DEF RulesOK
    <3>2. k \in Nat
      BY <3>1, LenProperties
    <3> QED  BY <3>2
  <2>4. Find(Ids) = k
    BY <1>6, <2>2, <2>3 DEF Find
  <2> QED  BY <1>4, <1>6, <2>1, <2>4
<1> QED  BY <1>3, <1>5, <1>6

(* A score changes nothing but the scores of a rule.                       *)
LEMMA ScoredRule ==
  ASSUME NEW r, IsRule(r)
  PROVE  IsRule(Scored(r)) /\ Scored(r).rule = r.rule
<1>1. PICK x : Scored(r) = [r EXCEPT !.score = x]
  BY DEF Scored
<1>2. r = [rule |-> r.rule, score |-> r.score]
  BY DEF IsRule
<1>3. [[rule |-> r.rule, score |-> r.score] EXCEPT !.score = x] = [rule |-> r.rule, score |-> x]
  OBVIOUS
<1>4. Scored(r) = [rule |-> r.rule, score |-> x]
  BY <1>1, <1>2, <1>3
<1> QED  BY <1>4 DEF IsRule

(* A line of the grammar scores a rule object that is there, which leaves  *)
(* all tags and lists as they are, or enters a new one in its lists.       *)
LEMMA LoadRuleInv == ASSUME IInv, LoadModel, LoadRule PROVE IInv'
<1> DEFINE i == IF Cached THEN current[Arity] ELSE Find(Ids)
           a == Arity
           p == Ids[1]
<1>1. /\ pc = "grammar" /\ pc' = "grammar" /\ line' = line + 1
      /\ UNCHANGED <<tags, trees, grammar, job>>
  BY DEF LoadRule, LoadModel, tagVars, loaderVars
<1>2. /\ current' = [current EXCEPT ![a] = i]
      /\ i <= Len(rules) => /\ rules' = [rules EXCEPT ![i] = Scored(rules[i])]
                            /\ UNCHANGED <<parents, children>>
      /\ ~(i <= Len(rules)) =>
           /\ rules' = Append(rules, Scored([rule |-> Ids, score |-> <<>>]))
           /\ parents' = [parents EXCEPT ![a][p] = Append(@, i)]
           /\ children' = IF a = 2 THEN [children EXCEPT ![Ids[2]] = Append(@, i)] ELSE children
  BY DEF LoadRule
<1>3. /\ rules \in Seq(Range(rules)) /\ rules # <<>> /\ \A k \in DOMAIN rules : IsRule(rules[k])
      /\ parents \in [{2, 3} -> [TagIds -> Seq(Nat)]] /\ children \in [TagIds -> Seq(Nat)]
      /\ current \in [{2, 3} -> DOMAIN rules] /\ grammar \in Seq(GrammarLine)
      /\ UniqueRules /\ ListsAgree
  BY <1>1 DEF IInv, StageOK, RulesOK
<1>4. Ids \in Seq(TagIds) /\ Len(Ids) = a /\ a \in {2, 3} /\ p \in TagIds /\ Ids[2] \in TagIds
  BY LineIds
<1>5. \/ i \in DOMAIN rules /\ rules[i].rule = Ids
      \/ i = Len(rules) + 1 /\ \A k \in DOMAIN rules : rules[k].rule # Ids
  BY Found
<1>6. DOMAIN rules = 1..Len(rules) /\ Len(rules) \in Nat /\ Len(rules) # 0
  BY <1>3, LenProperties, EmptySeq
<1>7. TagIds' = TagIds
  BY <1>1 DEF TagIds
<1>8. TagsOK'
  BY <1>1 DEF IInv, TagsOK
<1> HIDE DEF i, a, p
<1>9. CASE i \in DOMAIN rules
  <2>1. rules' = [rules EXCEPT ![i] = Scored(rules[i])] /\ UNCHANGED <<parents, children>>
    <3>1. i <= Len(rules)
      BY <1>6, <1>9
    <3> QED  BY <1>2, <3>1, Zenon
  <2>2. DOMAIN rules' = DOMAIN rules
    BY <2>1
  <2>3. ASSUME NEW k \in DOMAIN rules  PROVE IsRule(rules'[k]) /\ rules'[k].rule = rules[k].rule
    <3>1. CASE k = i
      BY <1>3, <1>9, <2>1, <3>1, ScoredRule
    <3>2. CASE k # i
      BY <1>3, <2>1, <3>2
    <3> QED  BY <3>1, <3>2
  <2>4. rules' \in Seq(Range(rules'))
    <3>1. rules' \in [1..Len(rules) -> Range(rules')]
      BY <1>6, <2>1, <2>2 DEF Range
    <3> QED  BY <1>6, <3>1, SeqDef
  <2>5. RulesOK'
    <3>1. (\A k \in DOMAIN rules : IsRule(rules[k]))'
      BY <1>7, <2>2, <2>3 DEF IsRule
    <3>2. current' \in [{2, 3} -> DOMAIN rules']
      BY <1>2, <1>3, <1>4, <1>9, <2>2
    <3> QED  BY <1>1, <1>3, <1>7, <2>1, <2>4, <3>1, <3>2 DEF RulesOK
  <2>6. UniqueRules'
    BY <1>3, <2>2, <2>3 DEF UniqueRules
  <2> DEFINE Old(b, n, t) == {k \in DOMAIN rules : Len(rules[k].rule) = b /\ rules[k].rule[n] = t}
             Now(b, n, t) == {k \in DOMAIN rules' : Len(rules'[k].rule) = b /\ rules'[k].rule[n] = t}
  <2>7. ListsAgree'
    <3>1. ASSUME NEW b, NEW n, NEW t  PROVE Now(b, n, t) = Old(b, n, t)
      BY <2>2, <2>3
    <3>2. parents' = parents /\ children' = children
      BY <2>1
    <3>3. ASSUME NEW b \in {2, 3}, NEW t \in TagIds
          PROVE  IsInjective(parents[b][t]) /\ Range(parents[b][t]) = Now(b, 1, t)
      <4>1. IsInjective(parents[b][t]) /\ Range(parents[b][t]) = Old(b, 1, t)
        BY <1>3 DEF ListsAgree
      <4> HIDE DEF Old, Now
      <4>2. Now(b, 1, t) = Old(b, 1, t)
        BY <3>1
      <4> QED  BY <4>1, <4>2
    <3>4. ASSUME NEW t \in TagIds
          PROVE  IsInjective(children[t]) /\ Range(children[t]) = Now(2, 2, t)
      <4>1. IsInjective(children[t]) /\ Range(children[t]) = Old(2, 2, t)
        BY <1>3 DEF ListsAgree
      <4> HIDE DEF Old, Now
      <4>2. Now(2, 2, t) = Old(2, 2, t)
        BY <3>1
      <4> QED  BY <4>1, <4>2
    <3> QED  BY <1>7, <3>2, <3>3, <3>4 DEF ListsAgree
  <2>8. StageOK'
    <3>1. rules' # <<>>
      BY <1>6, <2>2
    <3> QED  BY <1>1, <3>1 DEF IInv, StageOK, Early
  <2> QED  BY <1>8, <2>5, <2>6, <2>7, <2>8 DEF IInv
<1>10. CASE i = Len(rules) + 1 /\ \A k \in DOMAIN rules : rules[k].rule # Ids
  <2> DEFINE new == Scored([rule |-> Ids, score |-> <<>>])
  <2>1. /\ rules' = Append(rules, new)
        /\ parents' = [parents EXCEPT ![a][p] = Append(@, i)]
        /\ children' = IF a = 2 THEN [children EXCEPT ![Ids[2]] = Append(@, i)] ELSE children
    BY <1>2, <1>6, <1>10
  <2>2. IsRule(new) /\ new.rule = Ids
    <3>1. IsRule([rule |-> Ids, score |-> <<>>])
      BY <1>4 DEF IsRule
    <3> QED  BY <3>1, ScoredRule
  <2> HIDE DEF new
  <2>3. /\ rules' \in Seq(Range(rules')) /\ rules' # <<>>
        /\ DOMAIN rules' = 1..i /\ rules'[i] = new
        /\ \A k \in DOMAIN rules : rules'[k] = rules[k]
        /\ DOMAIN rules = 1..(i - 1) /\ i \in Nat
    BY <1>3, <1>6, <1>10, <2>1, Extended
  <2>4. \A k \in DOMAIN rules' : k = i \/ k \in DOMAIN rules
    BY <2>3
  <2>5. UniqueRules'
    <3>1. \A k \in DOMAIN rules : rules'[k].rule # rules'[i].rule
      BY <1>10, <2>2, <2>3
    <3>2. \A k, m \in DOMAIN rules : rules'[k].rule = rules'[m].rule => k = m
      BY <1>3, <2>3 DEF UniqueRules
    <3> QED  BY <2>4, <3>1, <3>2 DEF UniqueRules
  <2>6. /\ parents' \in [{2, 3} -> [TagIds -> Seq(Nat)]]
        /\ \A b \in {2, 3}, t \in TagIds :
             parents'[b][t] = IF b = a /\ t = p THEN Append(parents[b][t], i) ELSE parents[b][t]
    <3>1. Append(parents[a][p], i) \in Seq(Nat)
      <4>1. parents[a][p] \in Seq(Nat)
        BY <1>3, <1>4
      <4> QED  BY <2>3, <4>1, AppendProperties
    <3> QED  BY <1>3, <1>4, <2>1, <3>1
  <2>7. /\ children' \in [TagIds -> Seq(Nat)]
        /\ \A t \in TagIds :
             children'[t] = IF a = 2 /\ t = Ids[2] THEN Append(children[t], i) ELSE children[t]
    <3>1. Append(children[Ids[2]], i) \in Seq(Nat)
      BY <1>3, <1>4, <2>3, AppendProperties
    <3> QED  BY <1>3, <1>4, <2>1, <3>1
  <2>8. RulesOK'
    <3>1. (\A k \in DOMAIN rules : IsRule(rules[k]))'
      <4>1. \A k \in DOMAIN rules' : IsRule(rules'[k])
        BY <1>3, <2>2, <2>3, <2>4
      <4> QED  BY <1>7, <4>1 DEF IsRule
    <3>2. current' \in [{2, 3} -> DOMAIN rules']
      <4>1. DOMAIN rules \subseteq DOMAIN rules' /\ i \in DOMAIN rules'
        BY <2>3, <1>6, <1>10
      <4> QED  BY <1>2, <1>3, <1>4, <4>1
    <3> QED  BY <1>1, <1>3, <1>7, <2>3, <2>6, <2>7, <3>1, <3>2 DEF RulesOK
  <2> DEFINE Old(b, n, t) == {k \in DOMAIN rules : Len(rules[k].rule) = b /\ rules[k].rule[n] = t}
             Now(b, n, t) == {k \in DOMAIN rules' : Len(rules'[k].rule) = b /\ rules'[k].rule[n] = t}
  <2>9. ASSUME NEW n \in {1, 2}, NEW list \in Seq(Nat), IsInjective(list), Range(list) = Old(a, n, Ids[n])
        PROVE  IsInjective(Append(list, i)) /\ Range(Append(list, i)) = Now(a, n, Ids[n])
    <3>1. Now(a, n, Ids[n]) = Old(a, n, Ids[n]) \cup {i}
      <4>1. \A k \in DOMAIN rules' : k \in Now(a, n, Ids[n]) <=> k = i \/ k \in Old(a, n, Ids[n])
        BY <1>4, <2>2, <2>3, <2>4
      <4>2. i \in DOMAIN rules' /\ DOMAIN rules \subseteq DOMAIN rules'
        BY <1>6, <1>10, <2>3
      <4>3. Now(a, n, Ids[n]) \subseteq DOMAIN rules' /\ Old(a, n, Ids[n]) \subseteq DOMAIN rules
        OBVIOUS
      <4> HIDE DEF Old, Now
      <4> QED  BY <4>1, <4>2, <4>3
    <3>2. i \notin Old(a, n, Ids[n]) /\ i \in Nat
      BY <1>6, <1>10, <2>3
    <3> HIDE DEF Old, Now
    <3> QED  BY <2>9, <3>1, <3>2, RangeExtended
  <2>10. ASSUME NEW b, NEW n, NEW t, ~(b = a /\ t = Ids[n])  PROVE Now(b, n, t) = Old(b, n, t)
    <3>1. i \notin Now(b, n, t)
      BY <1>4, <2>2, <2>3, <2>10
    <3>2. \A k \in DOMAIN rules : k \in DOMAIN rules' /\ (k \in Now(b, n, t) <=> k \in Old(b, n, t))
      BY <1>6, <1>10, <2>3
    <3>3. Now(b, n, t) \subseteq DOMAIN rules' /\ Old(b, n, t) \subseteq DOMAIN rules
      OBVIOUS
    <3> HIDE DEF Old, Now
    <3> QED  BY <2>4, <3>1, <3>2, <3>3
  <2>11. ListsAgree'
    <3>1. ASSUME NEW b \in {2, 3}, NEW t \in TagIds
          PROVE  IsInjective(parents'[b][t]) /\ Range(parents'[b][t]) = Now(b, 1, t)
      <4>1. parents[b][t] \in Seq(Nat)
        BY <1>3
      <4>2. IsInjective(parents[b][t]) /\ Range(parents[b][t]) = Old(b, 1, t)
        BY <1>3 DEF ListsAgree
      <4>3. parents'[b][t] = IF b = a /\ t = Ids[1] THEN Append(parents[b][t], i) ELSE parents[b][t]
        BY <2>6 DEF p
      <4> HIDE DEF Old, Now
      <4>4. CASE b = a /\ t = Ids[1]
        <5>1. IsInjective(Append(parents[b][t], i)) /\ Range(Append(parents[b][t], i)) = Now(a, 1, Ids[1])
          BY <2>9, <4>1, <4>2, <4>4
        <5> QED  BY <4>3, <4>4, <5>1
      <4>5. CASE ~(b = a /\ t = Ids[1])
        <5>1. Now(b, 1, t) = Old(b, 1, t) /\ parents'[b][t] = parents[b][t]
          BY <2>10, <4>3, <4>5
        <5> QED  BY <4>2, <5>1
      <4> QED  BY <4>4, <4>5
    <3>2. ASSUME NEW t \in TagIds
          PROVE  IsInjective(children'[t]) /\ Range(children'[t]) = Now(2, 2, t)
      <4>1. children[t] \in Seq(Nat)
        BY <1>3
      <4>2. IsInjective(children[t]) /\ Range(children[t]) = Old(2, 2, t)
        BY <1>3 DEF ListsAgree
      <4>3. children'[t] = IF 2 = a /\ t = Ids[2] THEN Append(children[t], i) ELSE children[t]
        BY <2>7
      <4> HIDE DEF Old, Now
      <4>4. CASE 2 = a /\ t = Ids[2]
        <5>1. IsInjective(Append(children[t], i)) /\ Range(Append(children[t], i)) = Now(a, 2, Ids[2])
          BY <2>9, <4>1, <4>2, <4>4
        <5> QED  BY <4>3, <4>4, <5>1
      <4>5. CASE ~(2 = a /\ t = Ids[2])
        <5>1. Now(2, 2, t) = Old(2, 2, t) /\ children'[t] = children[t]
          BY <2>10, <4>3, <4>5
        <5> QED  BY <4>2, <5>1
      <4> QED  BY <4>4, <4>5
    <3> QED  BY <1>7, <3>1, <3>2 DEF ListsAgree
  <2>12. StageOK'
    BY <1>1, <2>3 DEF IInv, StageOK, Early
  <2> QED  BY <1>8, <2>5, <2>8, <2>11, <2>12 DEF IInv
<1> QED  BY <1>5, <1>9, <1>10

-----------------------------------------------------------------------------
(* The strengthened invariant holds of every run of the loader.            *)
THEOREM Invariance == Spec => []IInv
<1>1. Init => IInv
  BY InitInv
<1>2. IInv /\ [Next]_vars => IInv'
  <2> SUFFICES ASSUME IInv, [Next]_vars PROVE IInv'
    OBVIOUS
  <2>1. CASE UNCHANGED vars
    <3>1. UNCHANGED <<pc, line, tags, trees, grammar, rules, parents, children, current, job>>
      BY <2>1 DEF vars, tagVars, modelVars, loaderVars
    <3>2. StageOK'
      BY <3>1 DEF IInv, StageOK
    <3> QED  BY <3>1, <3>2, RulesFrame DEF IInv
  <2>2. CASE SetSmoothing \/ Missing \/ LoadWords \/ GenerateCoarseModels \/ GenerateScalingFactors
               \/ MakeIdLists \/ SetTerminals
    BY <2>2, OtherStepsInv
  <2>3. CASE LoadSplits
    BY <2>3, LoadSplitsInv
  <2>4. CASE LoadModel
    <3>1. CASE (Starting("lexicon") /\ StartLexicon(File("lexicon"))) \/ LoadEntry
      BY <2>4, <3>1, LexiconInv
    <3>2. CASE Starting("grammar") /\ StartGrammar(File("grammar"))
      BY <2>4, <3>2, StartGrammarInv
    <3>3. CASE LoadRule
      BY <2>4, <3>3, LoadRuleInv
    <3>4. CASE SkipSelfLoop \/ RejectLine \/ LoadOutside \/ EndGrammar
      BY <2>4, <3>4, IdleGrammarInv
    <3> QED  BY <2>4, <3>1, <3>2, <3>3, <3>4 DEF LoadModel, ModelNext
  <2> QED  BY <2>1, <2>2, <2>3, <2>4 DEF Next
<1> QED  BY <1>1, <1>2, PTL DEF Spec

(* Every rule object is once in the list of its parent and, if unary, once *)
(* in that of its child, at any time while the grammar is read and after.  *)
THEOREM Lists == Spec => []ListsAgree
<1>1. IInv => ListsAgree
  BY DEF IInv
<1> QED  BY <1>1, Invariance, PTL

(* The parser, which adds up the rules of a list, never meets the same     *)
(* tags twice, whatever the order of the lines.                            *)
THEOREM OneObject == Spec => []UniqueRules
<1>1. IInv => UniqueRules
  BY DEF IInv
<1> QED  BY <1>1, Invariance, PTL

-----------------------------------------------------------------------------
(* The tags of a line by their numbers, and the lines that are left out.   *)
IdsOf(k) == [j \in DOMAIN grammar[k].rule |-> TagId(grammar[k].rule[j])]

LoopAt(k) == Len(IdsOf(k)) = 2 /\ IdsOf(k)[1] = IdsOf(k)[2] /\ grammar[k].sub[1] = grammar[k].sub[2]

(* The lines before line n for some tags and subtags, and the last of some. *)
LinesOf(r, s, n) == {k \in 1..(n - 1) : IdsOf(k) = r /\ grammar[k].sub = s /\ ~LoopAt(k)}

LastOf(S) == CHOOSE k \in S : \A j \in S : j <= k

ScoreBy(S) == IF S = {} THEN Zero ELSE grammar[LastOf(S)].score

(* As long as reading succeeds, the scores are those of the lines read.    *)
ScoresOf(n) ==
  /\ \A i \in DOMAIN rules : \A s \in DOMAIN rules[i].score :
       rules[i].score[s] = ScoreBy(LinesOf(rules[i].rule, s, n))
  /\ \A k \in 1..(n - 1) : ~LoopAt(k) =>
       \E i \in DOMAIN rules : rules[i].rule = IdsOf(k) /\ grammar[k].sub \in DOMAIN rules[i].score

ScoresInv ==
  rules # <<>> /\ pc \notin {"error", "undefined"} =>
    /\ line \in 1..(Len(grammar) + 1) /\ (pc # "grammar" => line = Len(grammar) + 1)
    /\ ScoresOf(line)

(* The greatest of some numbers is the last.                               *)
LEMMA LastIs ==
  ASSUME NEW S, S \subseteq Nat, NEW m \in S, \A j \in S : j <= m
  PROVE  LastOf(S) = m
<1> DEFINE Is(k) == \A j \in S : j <= k
<1>1. Is(m)
  OBVIOUS
<1>2. \A k \in S : Is(k) => k = m
  <2> SUFFICES ASSUME NEW k \in S, Is(k) PROVE k = m
    OBVIOUS
  <2>1. k <= m /\ m <= k /\ k \in Nat /\ m \in Nat
    OBVIOUS
  <2> QED  BY <2>1
<1>3. LastOf(S) = CHOOSE k \in S : Is(k)
  BY DEF LastOf
<1> HIDE DEF Is
<1>4. (CHOOSE k \in S : Is(k)) = m
  BY <1>1, <1>2
<1> QED  BY <1>3, <1>4

(* One more line is among those of its own tags and subtags, as the last   *)
(* of them, unless it is left out; all others have the lines they had.     *)
LEMMA LinesStep ==
  ASSUME NEW n \in Nat \ {0}, NEW r, NEW s
  PROVE  LET mine == IdsOf(n) = r /\ grammar[n].sub = s /\ ~LoopAt(n)
         IN  /\ mine => ScoreBy(LinesOf(r, s, n + 1)) = grammar[n].score
             /\ ~mine => LinesOf(r, s, n + 1) = LinesOf(r, s, n)
<1> DEFINE mine == IdsOf(n) = r /\ grammar[n].sub = s /\ ~LoopAt(n)
           Is(k) == IdsOf(k) = r /\ grammar[k].sub = s /\ ~LoopAt(k)
           A == LinesOf(r, s, n)
           B == LinesOf(r, s, n + 1)
<1>1. A = {k \in 1..(n - 1) : Is(k)} /\ B = {k \in 1..((n + 1) - 1) : Is(k)} /\ (Is(n) <=> mine)
  BY DEF LinesOf
<1> HIDE DEF mine, Is, A, B
<1>2. 1..((n + 1) - 1) = 1..(n - 1) \cup {n} /\ n \in Nat /\ n \notin 1..(n - 1)
  OBVIOUS
<1>3. CASE mine
  <2>1. n \in B /\ B \subseteq Nat /\ \A j \in B : j <= n
    BY <1>1, <1>2, <1>3
  <2>2. LastOf(B) = n
    BY <2>1, LastIs
  <2> QED  BY <1>3, <2>1, <2>2 DEF ScoreBy, B, mine
<1>4. CASE ~mine
  <2>1. B = A
    BY <1>1, <1>2, <1>4
  <2> QED  BY <1>4, <2>1 DEF A, B, mine
<1> QED  BY <1>3, <1>4

(* What is said of a line and of the scores names these variables only.    *)
LEMMA LineFrame ==
  ASSUME UNCHANGED <<tags, grammar>>
  PROVE  \A k : IdsOf(k)' = IdsOf(k) /\ LoopAt(k)' = LoopAt(k)
<1> SUFFICES ASSUME NEW k PROVE IdsOf(k)' = IdsOf(k) /\ LoopAt(k)' = LoopAt(k)
  OBVIOUS
<1>1. IdsOf(k)' = IdsOf(k)
  BY DEF IdsOf, TagId
<1>2. LoopAt(k)' = LoopAt(k)
  BY <1>1 DEF LoopAt
<1> QED  BY <1>1, <1>2

(* So are the lines of some tags and subtags, and the score they give.     *)
LEMMA LinesFrame ==
  ASSUME UNCHANGED <<tags, grammar>>
  PROVE  \A r, s, n : LinesOf(r, s, n)' = LinesOf(r, s, n) /\ ScoreBy(LinesOf(r, s, n))' = ScoreBy(LinesOf(r, s, n))
<1> SUFFICES ASSUME NEW r, NEW s, NEW n
             PROVE  /\ LinesOf(r, s, n)' = LinesOf(r, s, n)
                    /\ ScoreBy(LinesOf(r, s, n))' = ScoreBy(LinesOf(r, s, n))
  OBVIOUS
<1>1. LinesOf(r, s, n)' = LinesOf(r, s, n)
  BY LineFrame DEF LinesOf
<1>2. ScoreBy(LinesOf(r, s, n))' = ScoreBy(LinesOf(r, s, n))
  BY <1>1 DEF ScoreBy, LastOf
<1> QED  BY <1>1, <1>2

(* What is said of the scores, after a step that reads nothing.            *)
LEMMA ScoresFrame ==
  ASSUME ScoresOf(line), UNCHANGED <<tags, grammar, rules, line>>
  PROVE  ScoresOf(line)'
<1>1. \A k : IdsOf(k)' = IdsOf(k) /\ LoopAt(k)' = LoopAt(k)
  BY LineFrame
<1>2. \A r, s, n : ScoreBy(LinesOf(r, s, n))' = ScoreBy(LinesOf(r, s, n))
  BY LinesFrame
<1> QED  BY <1>1, <1>2 DEF ScoresOf

(* The steps that do not read the grammar keep what is known of it.        *)
LEMMA ScoresKept ==
  ASSUME ScoresInv, UNCHANGED <<tags, grammar, rules, line>>,
         pc' \notin {"error", "undefined"} => pc \notin {"error", "undefined", "grammar"} /\ pc' # "grammar"
  PROVE  ScoresInv'
<1> SUFFICES ASSUME (rules # <<>> /\ pc \notin {"error", "undefined"})'
             PROVE  /\ line' \in 1..(Len(grammar') + 1) /\ line' = Len(grammar') + 1
                    /\ ScoresOf(line)'
  BY DEF ScoresInv
<1>1. line \in 1..(Len(grammar) + 1) /\ line = Len(grammar) + 1 /\ ScoresOf(line)
  BY DEF ScoresInv
<1>2. ScoresOf(line)'
  BY <1>1, ScoresFrame
<1> QED  BY <1>1, <1>2

(* The tags of a line that is loaded or left out as a loop: Ids, and the   *)
(* loop is told in the same way, for the kind of a line says how many tags *)
(* it has.                                                                 *)
LEMMA LineAt ==
  ASSUME IInv, pc = "grammar", line <= Len(grammar), ~Rejected
  PROVE  /\ line \in 1..Len(grammar) /\ IdsOf(line) = Ids /\ (LoopAt(line) <=> SelfLoop)
         /\ Line.sub \in Seq(Nat) /\ Len(Line.sub) = Arity /\ Arity \in {2, 3}
         /\ DOMAIN Line.rule = 1..Arity
<1>1. line \in 1..Len(grammar) /\ grammar \in Seq(GrammarLine)
  <2>1. rules # <<>> /\ line \in Nat \ {0}
    BY DEF IInv, StageOK
  <2>2. grammar \in Seq(GrammarLine)
    BY <2>1 DEF IInv, RulesOK
  <2>3. Len(grammar) \in Nat
    BY <2>2, LenProperties
  <2> QED  BY <2>1, <2>2, <2>3
<1>2. Line \in GrammarLine /\ Line.kind # "invalid"
  BY <1>1, ElementOfSeq DEF Line, Rejected
<1>3. \/ /\ Line.kind = "binary" /\ Line.rule \in STRING \X STRING \X STRING
         /\ Line.sub \in Nat \X Nat \X Nat
      \/ Line.kind = "unary" /\ Line.rule \in STRING \X STRING /\ Line.sub \in Nat \X Nat
  BY <1>2 DEF GrammarLine
<1>4. \/ /\ Line.kind = "binary" /\ DOMAIN Line.rule = 1..3 /\ Len(Line.rule) = 3
         /\ Line.sub \in Seq(Nat) /\ Len(Line.sub) = 3
      \/ /\ Line.kind = "unary" /\ DOMAIN Line.rule = 1..2 /\ Len(Line.rule) = 2
         /\ Line.sub \in Seq(Nat) /\ Len(Line.sub) = 2
  <2>1. ASSUME NEW x \in STRING \X STRING \X STRING  PROVE DOMAIN x = 1..3 /\ Len(x) = 3
    OBVIOUS
  <2>2. ASSUME NEW x \in STRING \X STRING  PROVE DOMAIN x = 1..2 /\ Len(x) = 2
    OBVIOUS
  <2>3. ASSUME NEW x \in Nat \X Nat \X Nat  PROVE x \in Seq(Nat) /\ Len(x) = 3
    <3>1. PICK a, b, c \in Nat : x = <<a, b, c>>
      OBVIOUS
    <3> QED  BY <3>1
  <2>4. ASSUME NEW x \in Nat \X Nat  PROVE x \in Seq(Nat) /\ Len(x) = 2
    <3>1. PICK a, b \in Nat : x = <<a, b>>
      OBVIOUS
    <3> QED  BY <3>1
  <2> QED  BY <1>3, <2>1, <2>2, <2>3, <2>4, Zenon
<1>5. IdsOf(line) = Ids
  BY DEF IdsOf, Ids, Line
<1>6. Ids \in Seq({TagId(Line.rule[j]) : j \in DOMAIN Line.rule}) /\ Len(Ids) = Arity
  <2>1. \E a \in Nat : DOMAIN Line.rule = 1..a /\ a = Arity
    BY <1>4 DEF Arity
  <2>2. Ids \in [1..Arity -> {TagId(Line.rule[j]) : j \in DOMAIN Line.rule}] /\ Arity \in Nat
    BY <2>1 DEF Ids
  <2>3. Ids \in Seq({TagId(Line.rule[j]) : j \in DOMAIN Line.rule})
    BY <2>2, SeqDef
  <2>4. DOMAIN Ids = 1..Arity /\ DOMAIN Ids = 1..Len(Ids) /\ Len(Ids) \in Nat
    BY <2>2, <2>3, LenProperties
  <2> QED  BY <2>2, <2>3, <2>4
<1>7. LoopAt(line) <=> SelfLoop
  <2>1. Len(Ids) = 2 <=> Line.kind = "unary"
    <3>1. "binary" # "unary"
      OBVIOUS
    <3>2. Len(Ids) = Len(Line.rule)
      BY <1>6 DEF Arity
    <3>3. CASE Line.kind = "binary" /\ Len(Line.rule) = 3
      BY <3>1, <3>2, <3>3
    <3>4. CASE Line.kind = "unary" /\ Len(Line.rule) = 2
      BY <3>2, <3>4
    <3> QED  BY <1>4, <3>3, <3>4
  <2> QED  BY <1>5, <2>1 DEF LoopAt, SelfLoop, Line
<1> QED  BY <1>1, <1>4, <1>5, <1>7 DEF Arity

(* The scores of a rule after a line of its tags: that of the line, those  *)
(* there were, and zero for the others of the row.                         *)
LEMMA ScoredTable ==
  ASSUME IInv, LoadRule, NEW r, IsRule(r), r.rule = Ids
  PROVE  LET new == Scored(r).score
         IN  /\ Line.sub \in DOMAIN new /\ DOMAIN r.score \subseteq DOMAIN new
             /\ \A s \in DOMAIN new :
                  new[s] = IF s = Line.sub THEN Line.score ELSE IF s \in DOMAIN r.score THEN r.score[s] ELSE Zero
<1> DEFINE old == r.score
           D == DOMAIN old \cup Row(Ids, Line.sub, Fine)
           t == [s \in D |-> IF s = Line.sub THEN Line.score ELSE IF s \in DOMAIN old THEN old[s] ELSE Zero]
<1>1. Scored(r).score = t
  <2>1. r = [rule |-> Ids, score |-> old]
    BY DEF IsRule
  <2>2. Scored(r) = [[rule |-> Ids, score |-> old] EXCEPT !.score = t]
    BY <2>1 DEF Scored
  <2> HIDE DEF old, t
  <2> QED  BY <2>2
<1>2. Line.sub \in Row(Ids, Line.sub, Fine)
  <2>1. pc = "grammar" /\ line <= Len(grammar) /\ ~Rejected /\ ~Outside
    BY DEF LoadRule
  <2>2. Len(Ids) = Arity /\ Arity \in {2, 3} /\ Line.sub \in Seq(Nat) /\ Len(Line.sub) = Arity
        /\ Ids \in Seq(TagIds)
    BY <2>1, LineIds, LineAt
  <2>3. Arity \in DOMAIN Ids /\ Arity \in DOMAIN Line.sub
    <3>1. DOMAIN Ids = 1..Arity /\ DOMAIN Line.sub = 1..Arity
      BY <2>2, LenProperties
    <3> QED  BY <2>2, <3>1
  <2>4. Line.sub[Arity] \in Sub(Ids[Arity], Fine)
    BY <2>1, <2>3 DEF Outside
  <2>5. [Line.sub EXCEPT ![Arity] = Line.sub[Arity]] = Line.sub
    <3>1. Line.sub \in [1..Len(Line.sub) -> Nat]
      BY <2>2, LenProperties
    <3> QED  BY <3>1
  <2> QED  BY <2>2, <2>4, <2>5 DEF Row
<1>3. DOMAIN t = D /\ \A s \in D : t[s] = IF s = Line.sub THEN Line.score
                                          ELSE IF s \in DOMAIN old THEN old[s] ELSE Zero
  OBVIOUS
<1> HIDE DEF t
<1> QED  BY <1>1, <1>2, <1>3

(* A line that is loaded scores one rule object, which has its tags and    *)
(* whose scores were those of the lines before, and leaves the others.     *)
LEMMA Touched ==
  ASSUME IInv, LoadModel, LoadRule, ScoresOf(line)
  PROVE  \E i, old :
           /\ i \in DOMAIN rules' /\ IsRule(old) /\ old.rule = Ids /\ rules'[i] = Scored(old)
           /\ \A s \in DOMAIN old.score : old.score[s] = ScoreBy(LinesOf(Ids, s, line))
           /\ \A s : s \notin DOMAIN old.score => LinesOf(Ids, s, line) = {}
           /\ \A k \in DOMAIN rules' \ {i} : k \in DOMAIN rules /\ rules'[k] = rules[k] /\ rules[k].rule # Ids
           /\ \A k \in DOMAIN rules \ {i} : k \in DOMAIN rules' /\ rules'[k] = rules[k]
           /\ i \in DOMAIN rules => rules[i] = old
<1> DEFINE i == IF Cached THEN current[Arity] ELSE Find(Ids)
<1>1. /\ i <= Len(rules) => rules' = [rules EXCEPT ![i] = Scored(rules[i])]
      /\ ~(i <= Len(rules)) => rules' = Append(rules, Scored([rule |-> Ids, score |-> <<>>]))
  BY DEF LoadRule
<1>2. rules \in Seq(Range(rules)) /\ (\A k \in DOMAIN rules : IsRule(rules[k])) /\ UniqueRules
  BY DEF IInv, StageOK, RulesOK, LoadRule
<1>3. \/ i \in DOMAIN rules /\ rules[i].rule = Ids
      \/ i = Len(rules) + 1 /\ \A k \in DOMAIN rules : rules[k].rule # Ids
  BY Found
<1>4. DOMAIN rules = 1..Len(rules) /\ Len(rules) \in Nat
  BY <1>2, LenProperties
<1>5. Ids \in Seq(TagIds) /\ Len(Ids) \in {2, 3}
  BY LineIds
<1>6. ASSUME NEW s, NEW k \in LinesOf(Ids, s, line)
      PROVE  \E j \in DOMAIN rules : rules[j].rule = Ids /\ s \in DOMAIN rules[j].score
  <2>1. k \in 1..(line - 1) /\ IdsOf(k) = Ids /\ grammar[k].sub = s /\ ~LoopAt(k)
    BY <1>6 DEF LinesOf
  <2> QED  BY <2>1 DEF ScoresOf
<1> HIDE DEF i
<1>7. CASE i \in DOMAIN rules /\ rules[i].rule = Ids
  <2>1. rules' = [rules EXCEPT ![i] = Scored(rules[i])]
    <3>1. i <= Len(rules)
      BY <1>4, <1>7
    <3> QED  BY <1>1, <3>1, Zenon
  <2>2. DOMAIN rules' = DOMAIN rules /\ rules'[i] = Scored(rules[i])
        /\ \A k \in DOMAIN rules \ {i} : rules'[k] = rules[k]
    BY <1>7, <2>1
  <2>3. \A k \in DOMAIN rules : rules[k].rule = Ids => k = i
    BY <1>2, <1>7 DEF UniqueRules
  <2>4. \A s \in DOMAIN rules[i].score : rules[i].score[s] = ScoreBy(LinesOf(Ids, s, line))
    BY <1>7 DEF ScoresOf
  <2>5. \A s : s \notin DOMAIN rules[i].score => LinesOf(Ids, s, line) = {}
    BY <1>6, <2>3
  <2> QED  BY <1>2, <1>7, <2>2, <2>3, <2>4, <2>5
<1>8. CASE i = Len(rules) + 1 /\ \A k \in DOMAIN rules : rules[k].rule # Ids
  <2> DEFINE old == [rule |-> Ids, score |-> <<>>]
  <2>1. IsRule(old) /\ old.rule = Ids /\ old.score = <<>> /\ DOMAIN old.score = {}
    BY <1>5 DEF IsRule
  <2> HIDE DEF old
  <2>2. rules' = Append(rules, Scored(old))
    BY <1>1, <1>4, <1>8 DEF old
  <2>3. /\ DOMAIN rules' = 1..i /\ rules'[i] = Scored(old)
        /\ \A k \in DOMAIN rules : rules'[k] = rules[k]
        /\ DOMAIN rules = 1..(i - 1) /\ i \in Nat /\ i \in DOMAIN rules'
    BY <1>2, <1>4, <1>8, <2>2, Extended
  <2>4. \A k \in DOMAIN rules' \ {i} : k \in DOMAIN rules
    BY <2>3
  <2>5. \A s : LinesOf(Ids, s, line) = {}
    BY <1>6, <1>8
  <2>6. \A k \in DOMAIN rules : k \in DOMAIN rules'
    BY <2>3
  <2> QED  BY <1>8, <2>1, <2>3, <2>4, <2>5, <2>6
<1> QED  BY <1>3, <1>7, <1>8

(* A line that is loaded is the last of its tags and subtags.              *)
LEMMA LoadRuleScores ==
  ASSUME IInv, LoadModel, LoadRule, ScoresOf(line)
  PROVE  ScoresOf(line)'
<1>1. line' = line + 1 /\ UNCHANGED <<tags, grammar>> /\ line \in Nat \ {0}
  BY DEF LoadRule, LoadModel, tagVars, IInv, StageOK
<1>2. /\ line \in 1..Len(grammar) /\ IdsOf(line) = Ids /\ ~LoopAt(line)
  BY LineAt DEF LoadRule
<1>3. Line = grammar[line]
  BY DEF Line
<1>4. PICK i, old :
           /\ i \in DOMAIN rules' /\ IsRule(old) /\ old.rule = Ids /\ rules'[i] = Scored(old)
           /\ \A s \in DOMAIN old.score : old.score[s] = ScoreBy(LinesOf(Ids, s, line))
           /\ \A s : s \notin DOMAIN old.score => LinesOf(Ids, s, line) = {}
           /\ \A k \in DOMAIN rules' \ {i} : k \in DOMAIN rules /\ rules'[k] = rules[k] /\ rules[k].rule # Ids
           /\ \A k \in DOMAIN rules \ {i} : k \in DOMAIN rules' /\ rules'[k] = rules[k]
           /\ i \in DOMAIN rules => rules[i] = old
  BY Touched
<1>5. rules'[i].rule = Ids
  BY <1>4, ScoredRule
<1>6. /\ Line.sub \in DOMAIN rules'[i].score /\ DOMAIN old.score \subseteq DOMAIN rules'[i].score
      /\ \A s \in DOMAIN rules'[i].score :
           rules'[i].score[s] = IF s = Line.sub THEN Line.score
                                ELSE IF s \in DOMAIN old.score THEN old.score[s] ELSE Zero
  BY <1>4, ScoredTable
<1>7. ASSUME NEW r, NEW s
      PROVE  /\ r = Ids /\ s = Line.sub => ScoreBy(LinesOf(r, s, line + 1)) = Line.score
             /\ ~(r = Ids /\ s = Line.sub) => LinesOf(r, s, line + 1) = LinesOf(r, s, line)
  BY <1>1, <1>2, <1>3, LinesStep
<1>8. ASSUME NEW k \in DOMAIN rules', NEW s \in DOMAIN rules'[k].score
      PROVE  rules'[k].score[s] = ScoreBy(LinesOf(rules'[k].rule, s, line + 1))
  <2>1. CASE k # i
    <3>1. k \in DOMAIN rules /\ rules'[k] = rules[k] /\ rules[k].rule # Ids
      BY <1>4, <2>1
    <3>2. rules[k].score[s] = ScoreBy(LinesOf(rules[k].rule, s, line))
      BY <1>8, <3>1 DEF ScoresOf
    <3> QED  BY <1>7, <3>1, <3>2
  <2>2. CASE k = i /\ s = Line.sub
    BY <1>5, <1>6, <1>7, <1>8, <2>2
  <2>3. CASE k = i /\ s # Line.sub
    <3>1. LinesOf(Ids, s, line + 1) = LinesOf(Ids, s, line)
      BY <1>7, <2>3
    <3>2. CASE s \in DOMAIN old.score
      <4>1. rules'[i].score[s] = old.score[s]
        BY <1>6, <1>8, <2>3, <3>2
      <4> QED  BY <1>4, <1>5, <2>3, <3>1, <3>2, <4>1
    <3>3. CASE s \notin DOMAIN old.score
      <4>1. rules'[i].score[s] = Zero
        BY <1>6, <1>8, <2>3, <3>3
      <4>2. LinesOf(Ids, s, line) = {}
        BY <1>4, <3>3
      <4> QED  BY <1>5, <2>3, <3>1, <4>1, <4>2 DEF ScoreBy
    <3> QED  BY <3>2, <3>3
  <2> QED  BY <2>1, <2>2, <2>3
<1>9. ASSUME NEW k \in 1..line, ~LoopAt(k)
      PROVE  \E j \in DOMAIN rules' : rules'[j].rule = IdsOf(k) /\ grammar[k].sub \in DOMAIN rules'[j].score
  <2>1. CASE k = line
    BY <1>2, <1>3, <1>4, <1>5, <1>6, <2>1
  <2>2. CASE k # line
    <3>1. k \in 1..(line - 1)
      BY <1>1, <2>2
    <3>2. PICK j \in DOMAIN rules : rules[j].rule = IdsOf(k) /\ grammar[k].sub \in DOMAIN rules[j].score
      BY <1>9, <3>1 DEF ScoresOf
    <3>3. CASE j # i
      BY <1>4, <3>2, <3>3
    <3>4. CASE j = i
      <4>1. rules[j] = old
        BY <1>4, <3>4
      <4> QED  BY <1>4, <1>5, <1>6, <3>2, <3>4, <4>1
    <3> QED  BY <3>3, <3>4
  <2> QED  BY <2>1, <2>2
<1>10. (line + 1) - 1 = line
  BY <1>1
<1>11. \A k : IdsOf(k)' = IdsOf(k) /\ LoopAt(k)' = LoopAt(k)
  BY <1>1, LineFrame
<1>12. \A r, s, n : ScoreBy(LinesOf(r, s, n))' = ScoreBy(LinesOf(r, s, n))
  BY <1>1, LinesFrame
<1> QED  BY <1>1, <1>8, <1>9, <1>10, <1>11, <1>12 DEF ScoresOf

(* Before the first line there are no scores.                              *)
LEMMA StartScores ==
  ASSUME IInv, LoadModel, Starting("grammar"), StartGrammar(File("grammar"))
  PROVE  ScoresInv'
<1>1. pc' = "grammar" /\ line' = 1 /\ grammar' \in Seq(GrammarLine)
  BY OpenedGrammar DEF IInv, StageOK, Starting, StartGrammar
<1>2. rules' = <<[rule |-> <<1, 1, 1>>, score |-> <<>>], [rule |-> <<1, 1>>, score |-> <<>>]>>
  BY DEF StartGrammar
<1>3. DOMAIN rules' = {1, 2} /\ rules'[1].score = <<>> /\ rules'[2].score = <<>>
  BY <1>2
<1>4. \A i \in DOMAIN rules' : DOMAIN rules'[i].score = {}
  BY <1>3
<1>5. Len(grammar') \in Nat
  BY <1>1, LenProperties
<1>6. ScoresOf(line)'
  <2>1. 1..(1 - 1) = {}
    OBVIOUS
  <2> QED  BY <1>1, <1>4, <2>1 DEF ScoresOf
<1>7. line' \in 1..(Len(grammar') + 1)
  BY <1>1, <1>5
<1> QED  BY <1>1, <1>6, <1>7 DEF ScoresInv

(* A line that is left out is none of those that score.                    *)
LEMMA SkippedScores ==
  ASSUME IInv, LoadModel, SkipSelfLoop, ScoresOf(line)
  PROVE  ScoresOf(line)'
<1>1. line' = line + 1 /\ UNCHANGED <<tags, grammar, rules>> /\ line \in Nat \ {0}
  BY DEF SkipSelfLoop, LoadModel, tagVars, modelVars, IInv, StageOK
<1>2. LoopAt(line)
  BY LineAt DEF SkipSelfLoop
<1>3. \A r, s : LinesOf(r, s, line + 1) = LinesOf(r, s, line)
  BY <1>1, <1>2, LinesStep
<1>4. \A k \in 1..((line + 1) - 1) : k \in 1..(line - 1) \/ LoopAt(k)
  BY <1>1, <1>2
<1>5. \A k : IdsOf(k)' = IdsOf(k) /\ LoopAt(k)' = LoopAt(k)
  BY <1>1, LineFrame
<1>6. \A r, s, n : ScoreBy(LinesOf(r, s, n))' = ScoreBy(LinesOf(r, s, n))
  BY <1>1, LinesFrame
<1> QED  BY <1>1, <1>3, <1>4, <1>5, <1>6 DEF ScoresOf

(* The steps while the grammar is read.                                    *)
LEMMA GrammarScores ==
  ASSUME IInv, ScoresInv, LoadModel, LoadRule \/ SkipSelfLoop \/ RejectLine \/ LoadOutside \/ EndGrammar
  PROVE  ScoresInv'
<1>1. pc = "grammar" /\ rules # <<>> /\ UNCHANGED grammar
  BY DEF LoadRule, SkipSelfLoop, RejectLine, LoadOutside, EndGrammar, modelVars, IInv, StageOK
<1>2. line \in 1..(Len(grammar) + 1) /\ ScoresOf(line)
  BY <1>1 DEF ScoresInv
<1>3. Len(grammar) \in Nat
  BY <1>1, LenProperties DEF IInv, RulesOK
<1>4. CASE LoadRule \/ SkipSelfLoop
  <2>1. pc' = "grammar" /\ line' = line + 1 /\ line <= Len(grammar)
    BY <1>1, <1>4 DEF LoadRule, SkipSelfLoop
  <2>2. line' \in 1..(Len(grammar') + 1)
    BY <1>1, <1>2, <1>3, <2>1
  <2>3. ScoresOf(line)'
    BY <1>2, <1>4, LoadRuleScores, SkippedScores
  <2> QED  BY <2>1, <2>2, <2>3 DEF ScoresInv
<1>5. CASE RejectLine \/ LoadOutside
  BY <1>5 DEF RejectLine, LoadOutside, ScoresInv
<1>6. CASE EndGrammar
  <2>1. UNCHANGED <<tags, grammar, rules, line>> /\ line > Len(grammar)
    BY <1>6 DEF EndGrammar, LoadModel, tagVars, modelVars
  <2>2. line' = Len(grammar') + 1 /\ line' \in 1..(Len(grammar') + 1)
    BY <1>2, <1>3, <2>1
  <2>3. ScoresOf(line)'
    BY <1>2, <2>1, ScoresFrame
  <2> QED  BY <2>2, <2>3 DEF ScoresInv
<1> QED  BY <1>4, <1>5, <1>6

(* All other steps: there are no rules yet, or none is changed any more.   *)
LEMMA OtherScores ==
  ASSUME IInv, ScoresInv,
         \/ UNCHANGED vars
         \/ SetSmoothing \/ Missing \/ LoadWords \/ LoadSplits
         \/ LoadModel /\ ((Starting("lexicon") /\ StartLexicon(File("lexicon"))) \/ LoadEntry)
         \/ GenerateCoarseModels \/ GenerateScalingFactors \/ MakeIdLists \/ SetTerminals
  PROVE  ScoresInv'
<1>1. CASE UNCHANGED vars
  <2>1. UNCHANGED <<pc, line, tags, grammar, rules>>
    BY <1>1 DEF vars, tagVars, modelVars
  <2> QED  BY <2>1, ScoresFrame DEF ScoresInv
<1>2. CASE pc \in Early /\ rules' = rules
  <2>1. rules' = <<>>
    BY <1>2 DEF IInv, StageOK
  <2> QED  BY <2>1 DEF ScoresInv
<1>3. CASE SetSmoothing \/ LoadWords
  <2>1. pc \in Early /\ rules' = rules
    BY <1>3 DEF SetSmoothing, LoadWords, Starting, Starts, LexiconRead, modelVars, Early
  <2> QED  BY <1>2, <2>1
<1>4. CASE LoadSplits
  <2>1. pc \in Early /\ rules' = rules
    BY <1>4 DEF LoadSplits, Starting, Starts, LexiconRead, TagsNext, LoadLine, CheckNothing, CheckDepth,
                AddRoot, CountSubtags, modelVars, Early
  <2> QED  BY <1>2, <2>1
<1>5. CASE (Starting("lexicon") /\ StartLexicon(File("lexicon"))) \/ LoadEntry
  <2>1. pc \in Early /\ rules' = rules
    BY <1>5 DEF Starting, Starts, LexiconRead, StartLexicon, LoadEntry, Early
  <2> QED  BY <1>2, <2>1
<1>6. CASE Missing
  BY <1>6 DEF Missing, ScoresInv
<1>7. CASE GenerateCoarseModels
  <2>1. UNCHANGED <<tags, grammar, rules, line>>
    BY <1>7 DEF GenerateCoarseModels, tagVars, modelVars
  <2>2. pc \in {"loaded", "iterate"} /\ pc' \in {"loaded", "iterate"}
    <3>1. MakeTransitions => pc = "loaded" /\ pc' = "iterate"
      BY DEF MakeTransitions
    <3>2. Iterate => pc' = pc /\ pc = "iterate"
      BY DEF Iterate
    <3>3. ProjectLevel => pc = "iterate" /\ pc' = "loaded"
      BY DEF ProjectLevel
    <3>4. ProjectM1 => pc = "iterate" /\ pc' = "loaded"
      BY DEF ProjectM1
    <3> QED  BY <1>7, <3>1, <3>2, <3>3, <3>4 DEF GenerateCoarseModels, ProjectorNext
  <2>3. pc' \notin {"error", "undefined"} => pc \notin {"error", "undefined", "grammar"} /\ pc' # "grammar"
    BY <2>2
  <2> QED  BY <2>1, <2>3, ScoresKept
<1>8. CASE GenerateScalingFactors
  <2>1. UNCHANGED <<tags, grammar, rules, line>>
    BY <1>8 DEF GenerateScalingFactors, tagVars, modelVars
  <2>2. pc \in {"loaded", "iterate"} /\ pc' \in {"iterate", "loaded", "scaled", "error"}
    BY <1>8 DEF GenerateScalingFactors, ScalingNext, CountForFactors, MakeTransitions, MakeMax, Counted,
                MakeGeometric, MakeHarmonic, UnknownStrategy, AddFactors
  <2>3. pc' \notin {"error", "undefined"} => pc \notin {"error", "undefined", "grammar"} /\ pc' # "grammar"
    BY <2>2
  <2> QED  BY <2>1, <2>3, ScoresKept
<1>9. CASE MakeIdLists \/ SetTerminals
  <2>1. UNCHANGED <<tags, grammar, rules, line>>
    BY <1>9 DEF MakeIdLists, SetTerminals, tagVars, modelVars
  <2>2. pc \in {"scaled", "ids"} /\ pc' \in {"ids", "undefined", "terminals"}
    BY <1>9 DEF MakeIdLists, SetTerminals
  <2>3. pc' \notin {"error", "undefined"} => pc \notin {"error", "undefined", "grammar"} /\ pc' # "grammar"
    BY <2>2
  <2> QED  BY <2>1, <2>3, ScoresKept
<1> QED  BY <1>1, <1>3, <1>4, <1>5, <1>6, <1>7, <1>8, <1>9

(* The scores are those of the lines read, at any time.                    *)
LEMMA ScoresInvariance == Spec => []ScoresInv
<1>1. Init => ScoresInv
  BY DEF Init, ModelInit, ScoresInv
<1>2. IInv /\ ScoresInv /\ [Next]_vars => ScoresInv'
  <2> SUFFICES ASSUME IInv, ScoresInv, [Next]_vars PROVE ScoresInv'
    OBVIOUS
  <2>1. CASE LoadModel
    <3>1. CASE (Starting("lexicon") /\ StartLexicon(File("lexicon"))) \/ LoadEntry
      BY <2>1, <3>1, OtherScores
    <3>2. CASE Starting("grammar") /\ StartGrammar(File("grammar"))
      BY <2>1, <3>2, StartScores
    <3>3. CASE LoadRule \/ SkipSelfLoop \/ RejectLine \/ LoadOutside \/ EndGrammar
      BY <2>1, <3>3, GrammarScores
    <3> QED  BY <2>1, <3>1, <3>2, <3>3 DEF LoadModel, ModelNext
  <2>2. CASE UNCHANGED vars
    BY <2>2, OtherScores
  <2>3. CASE SetSmoothing \/ Missing \/ LoadWords \/ LoadSplits \/ GenerateCoarseModels
               \/ GenerateScalingFactors \/ MakeIdLists \/ SetTerminals
    BY <2>3, OtherScores
  <2> QED  BY <2>1, <2>2, <2>3 DEF Next
<1> QED  BY <1>1, <1>2, Invariance, PTL DEF Spec

(* The finest model has the scores of the file: the score of every rule    *)
(* between subtags is that of the last of its lines, wherever the other    *)
(* lines of its tags are, and no other is positive.                        *)
THEOREM Scores == Spec => []GrammarExact
<1>1. IInv /\ ScoresInv => GrammarExact
  <2> SUFFICES ASSUME IInv, ScoresInv, GrammarRead PROVE GrammarExact
    BY DEF GrammarExact
  <2> DEFINE ids(k) == [j \in DOMAIN grammar[k].rule |-> TagId(grammar[k].rule[j])]
             loop(k) == Len(ids(k)) = 2 /\ ids(k)[1] = ids(k)[2] /\ grammar[k].sub[1] = grammar[k].sub[2]
             lines(r, s) == {k \in DOMAIN grammar : ids(k) = r /\ grammar[k].sub = s /\ ~loop(k)}
  <2>1. rules # <<>> /\ pc \notin {"grammar", "error", "undefined"}
    BY DEF GrammarRead
  <2>2. line = Len(grammar) + 1 /\ ScoresOf(line)
    BY <2>1 DEF ScoresInv
  <2>3. DOMAIN grammar = 1..(line - 1)
    <3>1. grammar \in Seq(GrammarLine)
      BY <2>1 DEF IInv, RulesOK
    <3>2. DOMAIN grammar = 1..Len(grammar) /\ Len(grammar) \in Nat
      BY <3>1, LenProperties
    <3> QED  BY <2>2, <3>2
  <2>4. \A k : ids(k) = IdsOf(k) /\ (loop(k) <=> LoopAt(k))
    BY DEF IdsOf, LoopAt
  <2>5. \A r, s : lines(r, s) = LinesOf(r, s, line)
    <3> HIDE DEF ids, loop
    <3> QED  BY <2>3, <2>4 DEF LinesOf
  <2>6. \A i, j \in DOMAIN rules : rules[i].rule = rules[j].rule => i = j
    BY DEF IInv, UniqueRules
  <2>7. ASSUME NEW i \in DOMAIN rules, NEW s \in DOMAIN rules[i].score
        PROVE  LET of == lines(rules[i].rule, s)
               IN  rules[i].score[s] = IF of = {} THEN Zero
                                       ELSE grammar[CHOOSE k \in of : \A j \in of : j <= k].score
    <3>1. rules[i].score[s] = ScoreBy(LinesOf(rules[i].rule, s, line))
      BY <2>2 DEF ScoresOf
    <3>2. LinesOf(rules[i].rule, s, line) = lines(rules[i].rule, s)
      BY <2>5
    <3> HIDE DEF lines
    <3> QED  BY <3>1, <3>2 DEF ScoreBy, LastOf
  <2>8. ASSUME NEW k \in DOMAIN grammar, ~loop(k)
        PROVE  \E i \in DOMAIN rules : rules[i].rule = ids(k) /\ grammar[k].sub \in DOMAIN rules[i].score
    <3> HIDE DEF ids, loop
    <3> QED  BY <2>2, <2>3, <2>4, <2>8 DEF ScoresOf
  <2> QED  BY <2>6, <2>7, <2>8 DEF GrammarExact
<1> QED  BY <1>1, Invariance, ScoresInvariance, PTL

-----------------------------------------------------------------------------
(* The steps before there are tags, and those by which loading stops.      *)
NoTags == {"smoothing", "words", "worded"}
Stopped == {"error", "undefined"}

(* The lines of the splits file are such as IsSplitsFile says.             *)
SplitsOK ==
  /\ splits \in Seq(Range(splits))
  /\ \A i, j \in DOMAIN splits : splits[i].name = splits[j].name => i = j
  /\ \A i \in DOMAIN splits : splits[i].name # "ROOT" /\ Shallow(splits[i].tokens)

(* The first n lines of the splits file have the first n tags and trees.   *)
ReadLines(n) ==
  /\ Len(tags) = n
  /\ \A i \in 1..n : tags[i] = splits[i].name /\ trees[i] = MakeSubtagTree(splits[i].tokens)

(* The tags are those of the file and ROOT, numbered as their trees.       *)
Numbered ==
  /\ Len(tags) = Len(splits) + 1 /\ tags[RootTag] = "ROOT"
  /\ \A i \in DOMAIN splits : tags[i] = splits[i].name

(* Names and trees come in pairs, of the lines read so far, and there is a *)
(* depth once it is checked.                                               *)
TreesOK ==
  /\ Len(tags) = Len(trees) /\ SplitsOK
  /\ pc \in NoTags => tags = <<>>
  /\ pc \in {"splits", "root"} => line \in 1..(Len(splits) + 1) /\ ReadLines(line - 1)
  /\ pc = "root" => line = Len(splits) + 1
  /\ pc = "count" \/ numSub # <<>> => Numbered
  /\ pc \in NoTags \cup {"splits", "root", "count"} => numSub = <<>>
  /\ depth \in 0..MaxDepth
  /\ pc \notin NoTags \cup {"splits"} \cup Stopped => depth # 0

(* Entries and ids are those of tags and words that there are.             *)
EntriesOK ==
  /\ words \in Seq(Range(words))
  /\ \A e \in DOMAIN entry : e[1] \in TagIds /\ e[2] \in DOMAIN words /\ DOMAIN entry[e] = Sub(e[1], Fine)
  /\ pc \in Early \ {"lexicon"} => entry = <<>>
  /\ \A i \in DOMAIN wids : wids[i] \in 0..Len(words) /\ tids[i] \in 0..Len(tags)
  /\ pc \notin {"ids", "terminals", "undefined"} => wids = <<>>

(* No level is projected or scaled twice, or none that there is not.       *)
ProjectionOK ==
  /\ level \in 0..MaxDepth /\ iteration \in 0..NumIteration
  /\ DOMAIN coarse \subseteq 0..Fine
  /\ factors \in Seq(Range(factors)) /\ Len(factors) <= MaxDepth
  /\ pc \in Early \cup {"grammar"} => coarse = <<>> /\ m1 = <<>> /\ factors = <<>>
  /\ pc \in {"loaded", "iterate"} => level <= Fine /\ Len(factors) = IF m1 = <<>> THEN 0 ELSE level

(* All steps of loading.                                                   *)
Steps == {"smoothing", "words", "worded", "splits", "root", "count", "tagged", "lexicon", "grammar",
          "loaded", "iterate", "scaled", "ids", "terminals", "error", "undefined"}

(* No rule is the last one before there are rules.                         *)
CurrentOK == rules = <<>> => current = <<>>

(* What TypeOK needs in addition to IInv.                                  *)
TInv == pc \in Steps /\ TreesOK /\ EntriesOK /\ ProjectionOK /\ CurrentOK

-----------------------------------------------------------------------------
(* A nonempty set of numbers up to n has a greatest.                       *)
LEMMA GreatestTaken ==
  ASSUME NEW n \in Nat, NEW s \in SUBSET (1..n), s # {}
  PROVE  Max(s) \in s /\ \A y \in s : Max(s) >= y
<1> DEFINE Has(t) == \E x \in t : \A y \in t : x >= y
           S == {k \in Nat : \A t \in SUBSET (1..k) : t # {} => Has(t)}
<1>1. 0 \in S
  <2>1. 1..0 = {}
    OBVIOUS
  <2>2. \A t \in SUBSET (1..0) : t = {}
    BY <2>1
  <2> HIDE DEF Has
  <2> QED  BY <2>2
<1>2. ASSUME NEW k \in Nat, k \in S PROVE k + 1 \in S
  <2> SUFFICES ASSUME NEW t \in SUBSET (1..(k + 1)), t # {} PROVE Has(t)
    OBVIOUS
  <2>1. CASE k + 1 \in t
    BY <2>1
  <2>2. CASE k + 1 \notin t
    <3>1. t \in SUBSET (1..k)
      BY <2>2
    <3> QED  BY <1>2, <3>1
  <2> QED  BY <2>1, <2>2
<1>3. n \in S
  <2> HIDE DEF S
  <2> QED  BY <1>1, <1>2, SetInduction
<1>4. Has(s)
  BY <1>3
<1> QED  BY <1>4 DEF Max

(* The equation of the tables that the first lines of a file make.         *)
WordTables(s, g) ==
  [D \in SUBSET DOMAIN s |-> IF D = {} THEN <<>> ELSE AddWord(g[D \ {Max(D)}], s[Max(D)])]

(* It has a solution.                                                      *)
LEMMA WordTablesExist ==
  ASSUME NEW s, NEW n \in Nat, DOMAIN s = 1..n
  PROVE  \E g : g = WordTables(s, g)
<1> DEFINE UpTo(k) == {D \in SUBSET (1..n) : Cardinality(D) <= k}
           Value(g, D) == IF D = {} THEN <<>> ELSE AddWord(g[D \ {Max(D)}], s[Max(D)])
           Solved(k) == \E g : /\ g = [D \in SUBSET (1..n) |-> g[D]]
                               /\ \A D \in UpTo(k) : g[D] = Value(g, D)
           S == {k \in Nat : Solved(k)}
<1> HIDE DEF UpTo, Value, Solved, S
<1>1. IsFiniteSet(1..n) /\ \A D \in SUBSET (1..n) : IsFiniteSet(D) /\ Cardinality(D) \in Nat
  <2>1. 1 \in Int /\ n \in Int
    OBVIOUS
  <2>2. IsFiniteSet(1..n)
    BY <2>1, FS_Interval
  <2> QED  BY <2>2, FS_Subset, FS_CardinalityType
<1>2. \A D \in SUBSET (1..n) : Cardinality(D) = 0 <=> D = {}
  BY <1>1, FS_EmptySet
<1>3. \A D \in SUBSET (1..n) : D # {} =>
        /\ D \ {Max(D)} \in SUBSET (1..n) /\ Cardinality(D \ {Max(D)}) = Cardinality(D) - 1
  <2> TAKE D \in SUBSET (1..n)
  <2> HAVE D # {}
  <2>1. Max(D) \in D
    BY GreatestTaken
  <2>2. IsFiniteSet(D)
    BY <1>1
  <2>3. Cardinality(D \ {Max(D)}) = Cardinality(D) - 1
    BY <2>1, <2>2, FS_RemoveElement
  <2> QED  BY <2>3
<1> USE DEF UpTo, Value, Solved, S
<1>4. 0 \in S
  <2> DEFINE g == [D \in SUBSET (1..n) |-> <<>>]
  <2>1. \A D \in UpTo(0) : D = {}
    BY <1>1, <1>2
  <2>2. \A D \in UpTo(0) : g[D] = Value(g, D)
    BY <2>1
  <2>3. g = [D \in SUBSET (1..n) |-> g[D]]
    OBVIOUS
  <2> HIDE DEF g, UpTo, Value
  <2> QED  BY <2>2, <2>3
<1>5. ASSUME NEW k \in Nat, k \in S PROVE k + 1 \in S
  <2>1. PICK g : g = [D \in SUBSET (1..n) |-> g[D]] /\ \A D \in UpTo(k) : g[D] = Value(g, D)
    BY <1>5
  <2> DEFINE h == [D \in SUBSET (1..n) |-> Value(g, D)]
  <2>2. \A D \in UpTo(k) : h[D] = g[D]
    BY <2>1
  <2>3. \A D \in UpTo(k + 1) : D # {} => D \ {Max(D)} \in UpTo(k)
    <3> TAKE D \in UpTo(k + 1)
    <3> HAVE D # {}
    <3>1. D \in SUBSET (1..n) /\ Cardinality(D) <= k + 1
      OBVIOUS
    <3>2. D \ {Max(D)} \in SUBSET (1..n) /\ Cardinality(D \ {Max(D)}) = Cardinality(D) - 1
      BY <1>3, <3>1
    <3>3. Cardinality(D) \in Nat
      BY <1>1, <3>1
    <3> QED  BY <3>1, <3>2, <3>3
  <2>4. \A D \in UpTo(k + 1) : Value(h, D) = Value(g, D)
    <3> TAKE D \in UpTo(k + 1)
    <3> HIDE DEF h, UpTo
    <3> QED  BY <2>2, <2>3
  <2>5. \A D \in UpTo(k + 1) : h[D] = Value(h, D)
    BY <2>4
  <2>6. h = [D \in SUBSET (1..n) |-> h[D]]
    OBVIOUS
  <2>7. Solved(k + 1)
    <3> HIDE DEF h, UpTo, Value
    <3> QED  BY <2>5, <2>6
  <2> HIDE DEF Solved
  <2> QED  BY <2>7
<1>6. Cardinality(1..n) \in S
  <2> HIDE DEF S
  <2>1. Nat \subseteq S
    BY <1>4, <1>5, SetInduction
  <2> QED  BY <2>1, <1>1, FS_CardinalityType
<1>7. PICK g : g = [D \in SUBSET (1..n) |-> g[D]] /\ \A D \in UpTo(Cardinality(1..n)) : g[D] = Value(g, D)
  BY <1>6
<1>8. \A D \in SUBSET (1..n) : D \in UpTo(Cardinality(1..n))
  <2>1. \A D \in SUBSET (1..n) : Cardinality(D) <= Cardinality(1..n)
    BY <1>1, FS_Subset
  <2> QED  BY <2>1
<1>9. \A D \in SUBSET (1..n) : g[D] = Value(g, D)
  <2> HIDE DEF UpTo, Value
  <2> QED  BY <1>7, <1>8
<1>10. g = [D \in SUBSET (1..n) |-> Value(g, D)]
  <2> HIDE DEF Value
  <2> QED  BY <1>7, <1>9
<1> QED  BY <1>10 DEF WordTables

(* The fold of the community modules takes the last line last.             *)
LEMMA FoldTables ==
  ASSUME NEW s
  PROVE  FoldLeft(AddWord, <<>>, s) = (CHOOSE g : g = WordTables(s, g))[DOMAIN s]
BY DEF FoldLeft, MapThenFoldSet, WordTables

(* The table of the words of a file is a sequence, has each of its words   *)
(* once, and no others.                                                    *)
LEMMA WordTable ==
  ASSUME NEW T, NEW s \in Seq(T)
  PROVE  LET table == FoldLeft(AddWord, <<>>, s)
         IN  table \in Seq(T) /\ IsInjective(table) /\ Range(table) = Range(s)
<1> DEFINE n == Len(s)
           g == CHOOSE g : g = WordTables(s, g)
           Right(k) == g[1..k] \in Seq(T) /\ IsInjective(g[1..k]) /\ Range(g[1..k]) = {s[i] : i \in 1..k}
           S == {k \in Nat : k <= n => Right(k)}
<1>1. n \in Nat /\ DOMAIN s = 1..n /\ \A i \in 1..n : s[i] \in T
  BY LenProperties, ElementOfSeq
<1>2. g = WordTables(s, g)
  BY <1>1, WordTablesExist
<1>3. FoldLeft(AddWord, <<>>, s) = g[DOMAIN s]
  BY FoldTables
<1> HIDE DEF g, n
<1>4. \A D \in SUBSET (1..n) : g[D] = IF D = {} THEN <<>> ELSE AddWord(g[D \ {Max(D)}], s[Max(D)])
  BY <1>1, <1>2 DEF WordTables
<1>5. Right(0)
  <2>1. 1..0 = {} /\ {} \in SUBSET (1..n)
    OBVIOUS
  <2>3. g[1..0] = <<>>
    BY <1>4, <2>1
  <2>2. <<>> \in Seq(T) /\ IsInjective(<<>>) /\ Range(<<>>) = {}
    BY DEF IsInjective, Range
  <2> QED  BY <2>1, <2>2, <2>3
<1>6. ASSUME NEW k \in Nat, k + 1 <= n, Right(k) PROVE Right(k + 1)
  <2>1. 1..(k + 1) \in SUBSET (1..n) /\ k + 1 \in 1..(k + 1) /\ s[k + 1] \in T
    BY <1>1, <1>6
  <2>2. Max(1..(k + 1)) = k + 1
    <3>1. k + 1 \in Nat /\ 1..(k + 1) \in SUBSET (1..(k + 1)) /\ 1..(k + 1) # {}
      BY <2>1
    <3>2. Max(1..(k + 1)) \in 1..(k + 1) /\ Max(1..(k + 1)) >= k + 1
      BY <2>1, <3>1, GreatestTaken
    <3> QED  BY <3>2
  <2>3. (1..(k + 1)) \ {k + 1} = 1..k
    OBVIOUS
  <2>4. g[1..(k + 1)] = AddWord(g[1..k], s[k + 1])
    BY <1>4, <2>1, <2>2, <2>3
  <2>5. {s[i] : i \in 1..(k + 1)} = {s[i] : i \in 1..k} \cup {s[k + 1]}
    <3>1. 1..(k + 1) = 1..k \cup {k + 1}
      OBVIOUS
    <3> QED  BY <3>1
  <2> DEFINE t == g[1..k]
  <2>6. t \in Seq(T) /\ IsInjective(t) /\ Range(t) = {s[i] : i \in 1..k}
    BY <1>6
  <2>9. g[1..(k + 1)] = IF s[k + 1] \in Range(t) THEN t ELSE Append(t, s[k + 1])
    BY <2>4 DEF AddWord
  <2> HIDE DEF t
  <2>7. CASE s[k + 1] \in Range(t)
    BY <2>5, <2>6, <2>7, <2>9
  <2>8. CASE s[k + 1] \notin Range(t)
    <3>1. g[1..(k + 1)] = Append(t, s[k + 1])
      BY <2>8, <2>9
    <3>2. /\ Append(t, s[k + 1]) \in Seq(T) /\ Len(t) \in Nat /\ Len(Append(t, s[k + 1])) = Len(t) + 1
          /\ \A i \in 1..Len(t) : Append(t, s[k + 1])[i] = t[i]
          /\ Append(t, s[k + 1])[Len(t) + 1] = s[k + 1]
      BY <2>1, <2>6, AppendProperties, LenProperties
    <3>3. DOMAIN t = 1..Len(t) /\ DOMAIN Append(t, s[k + 1]) = 1..(Len(t) + 1)
      BY <2>6, <3>2, LenProperties
    <3> DEFINE u == Append(t, s[k + 1])
    <3>4. DOMAIN u = DOMAIN t \cup {Len(t) + 1} /\ (\A i \in DOMAIN t : u[i] = t[i]) /\ u[Len(t) + 1] = s[k + 1]
      BY <3>2, <3>3
    <3> HIDE DEF u
    <3>5. Range(u) = Range(t) \cup {s[k + 1]}
      BY <3>4 DEF Range
    <3>6. IsInjective(u)
      BY <2>6, <2>8, <3>4 DEF IsInjective, Range
    <3> QED  BY <2>5, <2>6, <3>1, <3>2, <3>5, <3>6 DEF u
  <2> QED  BY <2>7, <2>8
<1>7. n \in S
  <2>1. 0 \in S
    BY <1>5
  <2>2. ASSUME NEW k \in Nat, k \in S PROVE k + 1 \in S
    <3> SUFFICES ASSUME k + 1 <= n PROVE Right(k + 1)
      OBVIOUS
    <3>1. Right(k)
      BY <1>1, <2>2
    <3> HIDE DEF Right
    <3> QED  BY <1>6, <3>1
  <2> HIDE DEF S
  <2> QED  BY <1>1, <2>1, <2>2, SetInduction
<1>8. Right(n)
  BY <1>1, <1>7
<1> QED  BY <1>1, <1>3, <1>8 DEF Range

-----------------------------------------------------------------------------
(* The steps that are not those of the splits file.                        *)
LoadsNoTags ==
  \/ SetSmoothing \/ Missing \/ LoadWords \/ LoadModel \/ GenerateCoarseModels \/ GenerateScalingFactors
  \/ MakeIdLists \/ SetTerminals

(* Where they lead.                                                        *)
LEMMA Moves ==
  ASSUME LoadsNoTags
  PROVE  /\ UNCHANGED tagVars
         /\ \/ pc \in Steps \ {"splits", "root", "count", "ids", "terminals", "error", "undefined"} /\ pc' \in Stopped
            \/ pc = "smoothing" /\ pc' = "words"
            \/ pc = "words" /\ pc' = "worded"
            \/ pc = "tagged" /\ pc' = "lexicon"
            \/ pc = "lexicon" /\ pc' \in {"lexicon", "grammar"}
            \/ pc = "grammar" /\ pc' \in {"grammar", "loaded"}
            \/ pc \in {"loaded", "iterate"} /\ pc' \in {"loaded", "iterate", "scaled"}
            \/ pc = "scaled" /\ pc' = "ids"
            \/ pc = "ids" /\ pc' \in {"terminals", "undefined"}
<1>1. CASE SetSmoothing
  BY <1>1 DEF SetSmoothing, Steps, Stopped
<1>2. CASE Missing
  BY <1>2 DEF Missing, Starts, LexiconRead, Steps, Stopped
<1>3. CASE LoadWords
  BY <1>3 DEF LoadWords, Starting, Starts, LexiconRead
<1>4. CASE LoadModel
  <2>1. UNCHANGED tagVars
    BY <1>4 DEF LoadModel
  <2>2. CASE Starting("lexicon") /\ StartLexicon(File("lexicon"))
    BY <2>1, <2>2 DEF Starting, Starts, LexiconRead, StartLexicon
  <2>3. CASE Starting("grammar") /\ StartGrammar(File("grammar"))
    BY <2>1, <2>3 DEF Starting, Starts, LexiconRead, StartGrammar
  <2>4. CASE LoadEntry
    BY <2>1, <2>4 DEF LoadEntry, Steps, Stopped
  <2>5. CASE LoadRule \/ SkipSelfLoop
    BY <2>1, <2>5 DEF LoadRule, SkipSelfLoop
  <2>6. CASE RejectLine \/ LoadOutside \/ EndGrammar
    BY <2>1, <2>6 DEF RejectLine, LoadOutside, EndGrammar, Steps, Stopped
  <2> QED  BY <1>4, <2>2, <2>3, <2>4, <2>5, <2>6 DEF LoadModel, ModelNext
<1>5. CASE GenerateCoarseModels
  <2>1. MakeTransitions => pc = "loaded" /\ pc' = "iterate"
    BY DEF MakeTransitions
  <2>2. Iterate => pc' = pc /\ pc = "iterate"
    BY DEF Iterate
  <2>3. ProjectLevel => pc = "iterate" /\ pc' = "loaded"
    BY DEF ProjectLevel
  <2>4. ProjectM1 => pc = "iterate" /\ pc' = "loaded"
    BY DEF ProjectM1
  <2> QED  BY <1>5, <2>1, <2>2, <2>3, <2>4 DEF GenerateCoarseModels, ProjectorNext
<1>6. CASE GenerateScalingFactors
  <2>1. pc \in {"loaded", "iterate"} /\ pc' \in {"iterate", "loaded", "scaled", "error"}
    BY <1>6 DEF GenerateScalingFactors, ScalingNext, CountForFactors, MakeTransitions, MakeMax, Counted,
                MakeGeometric, MakeHarmonic, UnknownStrategy, AddFactors
  <2> QED  BY <1>6, <2>1 DEF GenerateScalingFactors, Steps, Stopped
<1>7. CASE MakeIdLists
  BY <1>7 DEF MakeIdLists
<1>8. CASE SetTerminals
  BY <1>8 DEF SetTerminals, Steps, Stopped
<1> QED  BY <1>1, <1>2, <1>3, <1>4, <1>5, <1>6, <1>7, <1>8 DEF LoadsNoTags

(* They leave what is known of tags and trees as it is.                    *)
LEMMA TreesKept ==
  ASSUME IInv, pc \in Steps, TreesOK, LoadsNoTags
  PROVE  pc' \in Steps /\ TreesOK'
<1>1. UNCHANGED <<splits, tags, trees, depth, numSub>>
  BY Moves DEF tagVars
<1>2. pc' \in Steps
  BY Moves DEF Steps, Stopped
<1>3. SplitsOK'
  BY <1>1 DEF TreesOK, SplitsOK, Shallow
<1>4. Numbered => Numbered'
  BY <1>1 DEF Numbered, RootTag
<1>5. /\ pc' \in NoTags => pc \in NoTags
      /\ pc' \notin {"splits", "root", "count"}
      /\ pc' \notin NoTags \cup {"splits"} \cup Stopped => pc \notin NoTags \cup {"splits"} \cup Stopped
  BY Moves DEF NoTags, Stopped
<1> QED  BY <1>1, <1>2, <1>3, <1>4, <1>5 DEF TreesOK

(* What the loader reads of the splits file are lines of such a file.      *)
LEMMA OpenedSplits ==
  ASSUME job \in Jobs, CanOpen(job.disk["splits"])
  PROVE  /\ File("splits") \in Seq(Range(File("splits")))
         /\ \A i, j \in DOMAIN File("splits") : File("splits")[i].name = File("splits")[j].name => i = j
         /\ \A i \in DOMAIN File("splits") : File("splits")[i].name # "ROOT" /\ Shallow(File("splits")[i].tokens)
<1>1. "splits" \in Kinds
  BY DEF Kinds
<1>2. PICK file : /\ file.length \in 0..Len(file.dump["splits"]) /\ IsSplitsFile(file.dump.splits)
                  /\ \A l \in Range(file.dump.splits) : Shallow(l.tokens)
                  /\ File("splits") = SubSeq(file.dump["splits"], 1, file.length)
  BY <1>1, FileLines
<1> DEFINE f == file.dump["splits"]
           n == file.length
           g == File("splits")
<1>3. n \in 0..Len(f) /\ IsSplitsFile(f) /\ (\A l \in Range(f) : Shallow(l.tokens)) /\ g = SubSeq(f, 1, n)
  BY <1>2
<1> HIDE DEF f, n, g
<1>4. /\ f \in Seq(Range(f)) /\ \A i, j \in DOMAIN f : f[i].name = f[j].name => i = j
      /\ \A i \in DOMAIN f : f[i].name # "ROOT" /\ f[i] \in Range(f)
  BY <1>3 DEF IsSplitsFile, Range
<1>5. /\ g \in Seq(Range(f)) /\ Len(g) = n /\ DOMAIN g = 1..n /\ 1..n \subseteq DOMAIN f
      /\ \A i \in 1..n : g[i] = f[i]
  BY <1>3, <1>4, FirstLines
<1>6. g \in Seq(Range(g))
  <2>1. g \in [1..n -> Range(g)] /\ n \in Nat
    <3>1. g \in [1..Len(g) -> Range(f)] /\ Len(g) \in Nat
      BY <1>5, LenProperties
    <3> QED  BY <1>5, <3>1 DEF Range
  <2> QED  BY <2>1, SeqDef
<1>7. \A i, j \in DOMAIN g : g[i].name = g[j].name => i = j
  BY <1>4, <1>5
<1>8. \A i \in DOMAIN g : g[i].name # "ROOT" /\ Shallow(g[i].tokens)
  BY <1>3, <1>4, <1>5
<1> QED  BY <1>6, <1>7, <1>8 DEF g

(* The depth of a tree by its first branch, if there is one within the     *)
(* bound.                                                                  *)
LEMMA DepthBounded ==
  ASSUME NEW tokens, Shallow(tokens)
  PROVE  DepthOf(MakeSubtagTree(tokens)) \in 1..MaxDepth
BY DEF DepthOf, Shallow

(* A name that is not in a table is entered at its end.                    *)
LEMMA Entered ==
  ASSUME NEW table, table \in Seq(Range(table)), NEW w, \A i \in 1..Len(table) : table[i] # w
  PROVE  /\ Len(AddWord(table, w)) = Len(table) + 1 /\ Len(table) \in Nat
         /\ AddWord(table, w)[Len(table) + 1] = w
         /\ \A i \in 1..Len(table) : AddWord(table, w)[i] = table[i]
<1>1. DOMAIN table = 1..Len(table)
  BY LenProperties
<1>2. w \notin Range(table)
  BY <1>1 DEF Range
<1>3. AddWord(table, w) = Append(table, w)
  BY <1>2 DEF AddWord
<1> QED  BY <1>3, Extended

(* The steps of the splits file.                                           *)
LEMMA TreesRead ==
  ASSUME IInv, pc \in Steps, TreesOK, LoadSplits
  PROVE  pc' \in Steps /\ TreesOK'
<1>1. /\ tags \in Seq(Range(tags)) /\ trees \in Seq(Range(trees)) /\ Len(tags) = Len(trees)
      /\ Len(tags) \in Nat /\ SplitsOK /\ depth \in 0..MaxDepth
  BY LenProperties DEF IInv, TagsOK, TreesOK
<1>2. splits \in Seq(Range(splits)) /\ Len(splits) \in Nat /\ DOMAIN splits = 1..Len(splits)
  BY <1>1, LenProperties DEF SplitsOK
<1>3. CASE Starting("splits") /\ StartSplits(File("splits"))
  <2>1. pc = "worded" /\ pc' = "splits" /\ splits' = File("splits") /\ line' = 1
        /\ UNCHANGED <<tags, trees, depth, numSub>>
    BY <1>3 DEF Starting, Starts, LexiconRead, StartSplits
  <2>2. SplitsOK'
    <3>1. job \in Jobs /\ CanOpen(job.disk["splits"])
      BY <1>3 DEF IInv, StageOK, Starting
    <3> QED  BY <2>1, <3>1, OpenedSplits DEF SplitsOK, Shallow
  <2>3. tags = <<>> /\ numSub = <<>>
    BY <2>1 DEF TreesOK, NoTags
  <2>4. Len(splits') \in Nat
    BY <2>2, LenProperties DEF SplitsOK
  <2>5. ReadLines(line - 1)'
    <3>1. Len(tags') = 0 /\ 1 - 1 = 0 /\ 1..0 = {}
      BY <2>1, <2>3, EmptySeq
    <3> QED  BY <2>1, <3>1 DEF ReadLines
  <2> QED  BY <1>1, <2>1, <2>2, <2>3, <2>4, <2>5 DEF TreesOK, NoTags, Stopped, Steps
<1>4. CASE LoadLine
  <2>1. /\ pc = "splits" /\ line \in 1..Len(splits) /\ pc' = pc /\ line' = line + 1
        /\ tags' = AddWord(tags, splits[line].name)
        /\ trees' = Append(trees, MakeSubtagTree(splits[line].tokens))
        /\ UNCHANGED <<splits, depth, numSub>> /\ ReadLines(line - 1)
    <3>1. line \in 1..(Len(splits) + 1) /\ line <= Len(splits)
      BY <1>4 DEF LoadLine, TreesOK
    <3> QED  BY <1>2, <1>4, <3>1 DEF LoadLine, TreesOK
  <2>2. Len(tags) = line - 1 /\ \A i \in 1..(line - 1) : tags[i] # splits[line].name
    <3>1. \A i \in 1..(line - 1) : i \in DOMAIN splits /\ i # line /\ line \in DOMAIN splits
      BY <1>2, <2>1
    <3> QED  BY <1>1, <2>1, <3>1 DEF ReadLines, SplitsOK
  <2>3. /\ Len(tags') = Len(tags) + 1 /\ tags'[line] = splits[line].name
        /\ \A i \in 1..(line - 1) : tags'[i] = tags[i]
    <3>1. Len(tags) + 1 = line
      BY <2>1, <2>2
    <3> QED  BY <1>1, <2>1, <2>2, <3>1, Entered
  <2>4. /\ Len(trees') = Len(trees) + 1 /\ trees'[line] = MakeSubtagTree(splits[line].tokens)
        /\ \A i \in 1..(line - 1) : trees'[i] = trees[i]
    <3>1. Len(trees) + 1 = line
      BY <1>1, <2>1, <2>2
    <3>2. 1..Len(trees) = 1..(line - 1)
      BY <1>1, <2>2
    <3> QED  BY <1>1, <2>1, <3>1, <3>2, Extended
  <2>5. line' - 1 = line /\ line' \in 1..(Len(splits') + 1) /\ \A i \in 1..line : i = line \/ i \in 1..(line - 1)
    BY <1>2, <2>1
  <2>6. ReadLines(line - 1)'
    <3>1. Len(tags') = line
      BY <2>1, <2>2, <2>3
    <3>2. \A i \in 1..line : tags'[i] = splits[i].name /\ trees'[i] = MakeSubtagTree(splits[i].tokens)
      BY <2>1, <2>3, <2>4, <2>5 DEF ReadLines
    <3> QED  BY <2>1, <2>5, <3>1, <3>2 DEF ReadLines
  <2>7. SplitsOK'
    BY <1>1, <2>1 DEF SplitsOK, Shallow
  <2>8. numSub = <<>>
    BY <2>1 DEF TreesOK, NoTags
  <2> QED  BY <1>1, <2>1, <2>3, <2>4, <2>5, <2>6, <2>7, <2>8 DEF TreesOK, NoTags, Stopped, Steps
<1>5. CASE CheckNothing
  <2>1. pc' = "undefined" /\ UNCHANGED <<line, splits, tags, trees, depth, numSub>> /\ pc = "splits"
    BY <1>5 DEF CheckNothing, tagVars
  <2>2. SplitsOK' /\ numSub = <<>>
    BY <1>1, <2>1 DEF SplitsOK, Shallow, TreesOK, NoTags
  <2> QED  BY <1>1, <2>1, <2>2 DEF TreesOK, NoTags, Stopped, Steps
<1>6. CASE CheckDepth
  <2>1. /\ pc = "splits" /\ line > Len(splits) /\ splits # <<>> /\ ReadLines(line - 1)
        /\ line \in 1..(Len(splits) + 1) /\ numSub = <<>>
        /\ UNCHANGED <<line, splits, tags, trees, numSub>>
        /\ \/ pc' = "root" /\ depth' = DepthOf(trees[1])
           \/ pc' = "error" /\ depth' = depth
    BY <1>6 DEF CheckDepth, TreesOK, NoTags
  <2>2. line = Len(splits) + 1
    BY <1>2, <2>1
  <2>3. DepthOf(trees[1]) \in 1..MaxDepth
    <3>1. 1 \in 1..(line - 1) /\ 1 \in DOMAIN splits
      <4>1. Len(splits) # 0
        BY <1>2, <2>1, EmptySeq
      <4> QED  BY <1>2, <2>2, <4>1
    <3>2. trees[1] = MakeSubtagTree(splits[1].tokens) /\ Shallow(splits[1].tokens)
      BY <1>1, <2>1, <3>1 DEF ReadLines, SplitsOK
    <3> QED  BY <3>2, DepthBounded
  <2>4. depth' \in 0..MaxDepth /\ (pc' = "root" => depth' # 0)
    BY <1>1, <2>1, <2>3, DepthAssumption
  <2>5. SplitsOK'
    BY <1>1, <2>1 DEF SplitsOK, Shallow
  <2>6. ReadLines(line - 1)'
    BY <2>1 DEF ReadLines
  <2> QED  BY <1>1, <2>1, <2>2, <2>4, <2>5, <2>6 DEF TreesOK, NoTags, Stopped, Steps
<1>7. CASE AddRoot
  <2>1. /\ pc = "root" /\ pc' = "count" /\ tags' = AddWord(tags, "ROOT")
        /\ (\E tree : trees' = Append(trees, tree)) /\ UNCHANGED <<line, splits, depth, numSub>>
        /\ ReadLines(Len(splits)) /\ numSub = <<>> /\ depth # 0
    <3>1. line = Len(splits) + 1 /\ ReadLines(line - 1) /\ numSub = <<>> /\ depth # 0
      BY <1>7 DEF AddRoot, TreesOK, NoTags, Stopped
    <3>2. line - 1 = Len(splits)
      BY <1>2, <3>1
    <3> QED  BY <1>7, <3>1, <3>2 DEF AddRoot
  <2>2. Len(tags) = Len(splits) /\ \A i \in 1..Len(tags) : tags[i] # "ROOT"
    BY <1>1, <1>2, <2>1 DEF ReadLines, SplitsOK
  <2>3. /\ Len(tags') = Len(splits) + 1 /\ tags'[Len(splits) + 1] = "ROOT"
        /\ \A i \in DOMAIN splits : tags'[i] = splits[i].name
    <3>1. /\ Len(tags') = Len(tags) + 1 /\ tags'[Len(tags) + 1] = "ROOT"
          /\ \A i \in 1..Len(tags) : tags'[i] = tags[i]
      BY <1>1, <2>1, <2>2, Entered
    <3> QED  BY <1>2, <2>1, <2>2, <3>1 DEF ReadLines
  <2>4. Len(trees') = Len(trees) + 1
    BY <1>1, <2>1, Extended
  <2>5. SplitsOK'
    BY <1>1, <2>1 DEF SplitsOK, Shallow
  <2>6. Numbered'
    BY <2>1, <2>3 DEF Numbered, RootTag
  <2>7. Len(tags') = Len(trees')
    BY <1>1, <2>2, <2>3, <2>4
  <2> QED  BY <1>1, <2>1, <2>5, <2>6, <2>7 DEF TreesOK, NoTags, Stopped, Steps
<1>8. CASE CountSubtags
  <2>1. pc = "count" /\ pc' = "tagged" /\ UNCHANGED <<line, splits, tags, trees, depth>> /\ Numbered /\ depth # 0
    BY <1>8 DEF CountSubtags, TreesOK, NoTags, Stopped
  <2>2. SplitsOK' /\ Numbered'
    BY <1>1, <2>1 DEF SplitsOK, Shallow, Numbered, RootTag
  <2> QED  BY <1>1, <2>1, <2>2 DEF TreesOK, NoTags, Stopped, Steps
<1> QED  BY <1>3, <1>4, <1>5, <1>6, <1>7, <1>8 DEF LoadSplits, TagsNext

-----------------------------------------------------------------------------
(* The id of a name is a number of the table, or 0.                        *)
LEMMA IdsBounded ==
  ASSUME words \in Seq(Range(words)), tags \in Seq(Range(tags))
  PROVE  /\ \A w : WordId(w) \in 0..Len(words) /\ (WordId(w) # 0 => WordId(w) \in DOMAIN words)
         /\ \A t : TagId(t) \in 0..Len(tags) /\ (TagId(t) # 0 => TagId(t) \in DOMAIN tags)
<1>1. /\ DOMAIN words = 1..Len(words) /\ Len(words) \in Nat
      /\ DOMAIN tags = 1..Len(tags) /\ Len(tags) \in Nat
  BY LenProperties
<1>2. ASSUME NEW w, w \in Range(words) PROVE WordId(w) \in DOMAIN words
  <2>1. \E i \in DOMAIN words : words[i] = w
    BY <1>2 DEF Range
  <2> QED  BY <1>2, <2>1 DEF WordId
<1>3. ASSUME NEW t, t \in Range(tags) PROVE TagId(t) \in DOMAIN tags
  <2>1. \E i \in DOMAIN tags : tags[i] = t
    BY <1>3 DEF Range
  <2> QED  BY <1>3, <2>1 DEF TagId
<1>4. ASSUME NEW w PROVE WordId(w) \in DOMAIN words \/ WordId(w) = 0
  BY <1>2 DEF WordId
<1>5. ASSUME NEW t PROVE TagId(t) \in DOMAIN tags \/ TagId(t) = 0
  BY <1>3 DEF TagId
<1> QED  BY <1>1, <1>4, <1>5

(* The words of the file are entered one after the other.                  *)
LEMMA OpenedWords ==
  ASSUME job \in Jobs, CanOpen(job.disk["words"])
  PROVE  LET table == FoldLeft(AddWord, <<>>, File("words")) IN table \in Seq(Range(table))
<1>1. "words" \in Kinds
  BY DEF Kinds
<1>2. PICK file : /\ file.length \in 0..Len(file.dump["words"]) /\ file.dump.words \in Seq(Range(file.dump.words))
                  /\ File("words") = SubSeq(file.dump["words"], 1, file.length)
  BY <1>1, FileLines
<1> DEFINE f == file.dump["words"]
           n == file.length
           T == Range(f)
           table == FoldLeft(AddWord, <<>>, File("words"))
<1>3. n \in 0..Len(f) /\ f \in Seq(T) /\ File("words") = SubSeq(f, 1, n)
  BY <1>2
<1> HIDE DEF f, n, T
<1>4. File("words") \in Seq(T)
  BY <1>3, FirstLines
<1>5. table \in Seq(T)
  BY <1>4, WordTable
<1> HIDE DEF table
<1>6. table \in [1..Len(table) -> Range(table)] /\ Len(table) \in Nat
  <2>1. table \in [1..Len(table) -> T] /\ Len(table) \in Nat
    BY <1>5, LenProperties
  <2> QED  BY <2>1 DEF Range
<1>7. table \in Seq(Range(table))
  BY <1>6, SeqDef
<1> QED  BY <1>7 DEF table

(* An entry that is made or added to has a score for each subtag.          *)
LEMMA EntryMade ==
  ASSUME LoadEntry, IInv, EntriesOK
  PROVE  \A e \in DOMAIN entry' : e[1] \in TagIds /\ e[2] \in DOMAIN words /\ DOMAIN entry'[e] = Sub(e[1], Fine)
<1> DEFINE l == lexicon[line]
           k == <<TagId(l.tag), WordId(l.word)>>
           old == IF k \in DOMAIN entry THEN entry[k] ELSE [s \in Sub(k[1], Fine) |-> Zero]
           new == IF Len(l.scores) = numSub[k[1]][Fine] THEN Added(old, l.scores) ELSE old
<1>1. \A e \in DOMAIN entry : e[1] \in TagIds /\ e[2] \in DOMAIN words /\ DOMAIN entry[e] = Sub(e[1], Fine)
  BY DEF EntriesOK
<1>2. CASE entry' = entry
  BY <1>1, <1>2
<1>3. CASE Known(k) /\ k[1] # 0 /\ entry' = Put(entry, k, new)
  <2>1. k[1] \in TagIds /\ k[2] \in DOMAIN words
    <3>1. TagId(l.tag) # 0 /\ WordId(l.word) # 0
      BY <1>3 DEF Known
    <3>2. TagId(l.tag) \in DOMAIN tags /\ WordId(l.word) \in DOMAIN words
      BY <3>1, IdsBounded DEF IInv, TagsOK, EntriesOK
    <3>3. DOMAIN tags \subseteq TagIds
      <4>1. DOMAIN tags = 1..Len(tags) /\ DOMAIN trees = 1..Len(trees) /\ Len(tags) <= Len(trees)
            /\ Len(tags) \in Nat /\ Len(trees) \in Nat
        BY LenProperties DEF IInv, TagsOK
      <4> QED  BY <4>1 DEF TagIds
    <3> QED  BY <3>2, <3>3
  <2>2. DOMAIN old = Sub(k[1], Fine)
    BY <1>1
  <2>3. DOMAIN new = Sub(k[1], Fine)
    BY <2>2 DEF Added
  <2> HIDE DEF k, new
  <2>4. DOMAIN entry' = {k} \cup DOMAIN entry /\ entry'[k] = new
        /\ \A e \in DOMAIN entry : e # k => entry'[e] = entry[e]
    BY <1>3 DEF Put
  <2> QED  BY <1>1, <2>1, <2>3, <2>4
<1> QED  BY <1>2, <1>3 DEF LoadEntry

(* The words, the entries and the ids of a sentence.                       *)
LEMMA EntriesStep ==
  ASSUME IInv, pc \in Steps, EntriesOK, LoadSplits \/ LoadsNoTags
  PROVE  EntriesOK'
<1>2. CASE LoadSplits
  <2>1. UNCHANGED <<words, entry, wids, tids>>
    BY <1>2 DEF LoadSplits, modelVars, loaderVars
  <2>2. pc \in {"worded", "splits", "root", "count"}
    BY <1>2 DEF LoadSplits, Starting, Starts, LexiconRead, TagsNext, LoadLine, CheckNothing, CheckDepth,
                AddRoot, CountSubtags
  <2>3. entry = <<>> /\ wids = <<>>
    BY <2>2 DEF EntriesOK, Early
  <2>4. DOMAIN <<>> = {}
    OBVIOUS
  <2>5. words' \in Seq(Range(words'))
    BY <2>1 DEF EntriesOK
  <2> QED  BY <2>1, <2>3, <2>4, <2>5 DEF EntriesOK
<1>3. CASE LoadWords
  <2>1. pc = "words" /\ pc' = "worded" /\ words' = FoldLeft(AddWord, <<>>, File("words"))
        /\ CanOpen(job.disk["words"]) /\ UNCHANGED <<entry, wids, tids>>
    BY <1>3 DEF LoadWords, Starting, Starts, LexiconRead, loaderVars
  <2>2. words' \in Seq(Range(words'))
    BY <2>1, OpenedWords DEF IInv, StageOK
  <2>3. entry = <<>> /\ wids = <<>>
    BY <2>1 DEF EntriesOK, Early
  <2>4. DOMAIN <<>> = {}
    OBVIOUS
  <2> QED  BY <2>1, <2>2, <2>3, <2>4 DEF EntriesOK
<1>4. CASE LoadModel /\ LoadEntry
  <2>1. pc = "lexicon" /\ pc' \in {"lexicon", "error", "undefined"} /\ UNCHANGED <<words, tags, trees, depth, numSub, wids, tids>>
    BY <1>4 DEF LoadEntry, LoadModel, tagVars, loaderVars
  <2>2. \A e \in DOMAIN entry' : e[1] \in TagIds' /\ e[2] \in DOMAIN words' /\ DOMAIN entry'[e] = Sub(e[1], Fine)'
    <3>1. TagIds' = TagIds /\ \A t : Sub(t, Fine)' = Sub(t, Fine)
      BY <2>1 DEF TagIds, Sub, Fine
    <3> QED  BY <1>4, <2>1, <3>1, EntryMade
  <2> QED  BY <2>1, <2>2 DEF EntriesOK, Early
<1>5. CASE MakeIdLists
  <2>1. /\ wids' = [i \in DOMAIN job.sentence |-> WordIdOf(job.sentence, i)]
        /\ tids' = [i \in DOMAIN job.sentence |-> TagIdOf(job.sentence[i])]
        /\ UNCHANGED <<words, entry, trees, depth, numSub, tags>> /\ pc' = "ids"
    BY <1>5 DEF MakeIdLists, tagVars, modelVars
  <2>2. /\ \A w : WordId(w) \in 0..Len(words)
        /\ \A t : TagId(t) \in 0..Len(tags)
    BY IdsBounded DEF IInv, TagsOK, EntriesOK
  <2>3. \A i : WordIdOf(job.sentence, i) \in 0..Len(words)
    BY <2>2 DEF WordIdOf
  <2>4. \A w : TagIdOf(w) \in 0..Len(tags)
    <3>1. 0 \in 0..Len(tags)
      BY LenProperties DEF IInv, TagsOK
    <3> QED  BY <2>2, <3>1 DEF TagIdOf
  <2>5. \A i \in DOMAIN wids' : wids'[i] \in 0..Len(words') /\ tids'[i] \in 0..Len(tags')
    BY <2>1, <2>3, <2>4
  <2>6. \A e \in DOMAIN entry' : e[1] \in TagIds' /\ e[2] \in DOMAIN words' /\ DOMAIN entry'[e] = Sub(e[1], Fine)'
    BY <2>1 DEF EntriesOK, TagIds, Sub, Fine
  <2> QED  BY <2>1, <2>5, <2>6 DEF EntriesOK, Early
<1>6. CASE \/ SetSmoothing \/ Missing \/ GenerateCoarseModels \/ GenerateScalingFactors \/ SetTerminals
           \/ LoadModel /\ ~LoadEntry
  <2>1. UNCHANGED <<words, entry>>
    <3>1. CASE SetSmoothing \/ Missing \/ GenerateCoarseModels \/ GenerateScalingFactors \/ SetTerminals
      BY <3>1 DEF SetSmoothing, Missing, GenerateCoarseModels, GenerateScalingFactors, SetTerminals, modelVars
    <3>2. CASE LoadModel /\ ~LoadEntry
      BY <3>2 DEF LoadModel, StartLexicon, StartGrammar, ModelNext, LoadRule, SkipSelfLoop, RejectLine,
                  LoadOutside, EndGrammar, modelVars
    <3> QED  BY <1>6, <3>1, <3>2
  <2>2. UNCHANGED <<wids, tids>>
    BY <1>6 DEF SetSmoothing, Missing, GenerateCoarseModels, GenerateScalingFactors, SetTerminals, LoadModel,
                loaderVars
  <2>3. UNCHANGED <<trees, depth, numSub, tags>>
    BY <1>6, Moves DEF LoadsNoTags, tagVars
  <2>4. ~(pc = "scaled" /\ pc' = "ids")
    <3>2. CASE SetSmoothing \/ Missing \/ GenerateCoarseModels \/ GenerateScalingFactors
      <4>1. CASE SetSmoothing \/ Missing
        BY <4>1 DEF SetSmoothing, Missing, Starts, LexiconRead
      <4>2. CASE GenerateCoarseModels
        BY <4>2 DEF GenerateCoarseModels, ProjectorNext, MakeTransitions, Iterate, ProjectLevel, ProjectM1
      <4>3. CASE GenerateScalingFactors
        BY <4>3 DEF GenerateScalingFactors, ScalingNext, CountForFactors, MakeTransitions, MakeMax, Counted,
                    MakeGeometric, MakeHarmonic, UnknownStrategy
      <4> QED  BY <3>2, <4>1, <4>2, <4>3
    <3>3. CASE SetTerminals
      BY <3>3 DEF SetTerminals
    <3>4. CASE LoadModel
      <4>1. pc # "scaled"
        BY <3>4 DEF LoadModel, Starting, Starts, LexiconRead, ModelNext, LoadEntry, LoadRule, SkipSelfLoop,
                    RejectLine, LoadOutside, EndGrammar
      <4> QED  BY <4>1
    <3> QED  BY <1>6, <3>2, <3>3, <3>4
  <2>5. /\ pc' \in Early \ {"lexicon"} => pc \in Early \ {"lexicon"}
        /\ pc' \notin {"ids", "terminals", "undefined"} => pc \notin {"ids", "terminals", "undefined"} \/ wids = <<>>
    <3>1. LoadsNoTags
      BY <1>6 DEF LoadsNoTags
    <3> QED  BY <2>4, <3>1, Moves DEF Early, Stopped
  <2> QED  BY <2>1, <2>2, <2>3, <2>5 DEF EntriesOK, TagIds, Sub, Fine
<1> QED  BY <1>2, <1>3, <1>4, <1>5, <1>6 DEF LoadsNoTags

-----------------------------------------------------------------------------
(* The levels that are projected and the factors that are made.            *)
LEMMA ProjectionStep ==
  ASSUME IInv, pc \in Steps, TreesOK, ProjectionOK, LoadSplits \/ LoadsNoTags
  PROVE  ProjectionOK'
<1>1. level \in 0..MaxDepth /\ depth \in 0..MaxDepth /\ MaxDepth \in Nat /\ NumIteration \in Nat \ {0}
      /\ Fine = depth - 1 /\ iteration \in 0..NumIteration
  BY DepthAssumption, IterationAssumption DEF TreesOK, ProjectionOK, Fine
<1>2. CASE LoadSplits
  <2>1. UNCHANGED <<projectorVars, factors>> /\ pc \in Early /\ pc' \notin {"loaded", "iterate"}
    BY <1>2 DEF LoadSplits, scalingVars, Starting, Starts, LexiconRead, TagsNext, LoadLine, CheckNothing, CheckDepth,
                AddRoot, CountSubtags, StartSplits, Early
  <2>2. coarse = <<>> /\ m1 = <<>> /\ factors = <<>>
    BY <2>1 DEF ProjectionOK
  <2>3. DOMAIN <<>> = {}
    OBVIOUS
  <2> QED  BY <2>1, <2>2, <2>3 DEF ProjectionOK, projectorVars
<1>3. CASE LoadModel
  <2>1. UNCHANGED <<factors, tagVars>> /\ pc \in Early \cup {"grammar"} /\ pc' # "iterate"
    BY <1>3 DEF LoadModel, scalingVars, Starting, Starts, LexiconRead, StartLexicon, StartGrammar, ModelNext, LoadEntry,
                LoadRule, SkipSelfLoop, RejectLine, LoadOutside, EndGrammar, Early
  <2>2. coarse = <<>> /\ m1 = <<>> /\ factors = <<>>
    BY <2>1 DEF ProjectionOK
  <2>3. DOMAIN <<>> = {} /\ Len(<<>>) = 0
    OBVIOUS
  <2>4. UNCHANGED <<coarse, iteration, m1, depth>>
    BY <1>3, <2>1 DEF LoadModel, StartProjection, projectorVars, tagVars
  <2>5. CASE pc' # "loaded"
    <3>1. UNCHANGED level
      BY <1>3, <2>5 DEF LoadModel, projectorVars
    <3> QED  BY <2>1, <2>2, <2>3, <2>4, <2>5, <3>1 DEF ProjectionOK
  <2>6. CASE pc' = "loaded"
    <3>1. level' = Fine /\ Fine' = Fine
      BY <1>3, <2>4, <2>6 DEF LoadModel, StartProjection, Fine
    <3>2. pc = "grammar"
      <4>1. LoadsNoTags
        BY <1>3 DEF LoadsNoTags
      <4>2. pc \notin {"loaded", "iterate"}
        BY <2>1 DEF Early
      <4> QED  BY <2>6, <4>1, <4>2, Moves DEF Stopped
    <3>3. Fine \in 0..MaxDepth
      BY <1>1, <3>2 DEF TreesOK, NoTags, Stopped
    <3> QED  BY <1>1, <2>2, <2>3, <2>4, <2>1, <2>6, <3>1, <3>3 DEF ProjectionOK, Early
  <2> QED  BY <2>5, <2>6
<1>4. CASE GenerateCoarseModels
  <2>1. UNCHANGED <<depth, factors>> /\ Fine' = Fine
    BY <1>4 DEF GenerateCoarseModels, tagVars, scalingVars, Fine
  <2>2. CASE m1 = <<>> /\ MakeTransitions
    <3>1. pc = "loaded" /\ pc' = "iterate" /\ UNCHANGED <<coarse, level, m1>> /\ iteration' = 0
      BY <2>2 DEF MakeTransitions
    <3> QED  BY <1>1, <2>1, <3>1 DEF ProjectionOK, Early
  <2>3. CASE Iterate
    <3>1. pc = "iterate" /\ UNCHANGED <<pc, coarse, level, m1>> /\ iteration' = iteration + 1 /\ iteration < NumIteration
      BY <2>3 DEF Iterate
    <3> QED  BY <1>1, <2>1, <3>1 DEF ProjectionOK, Early
  <2>4. CASE ProjectLevel
    <3>1. pc = "iterate" /\ pc' = "loaded" /\ UNCHANGED <<iteration, m1>> /\ m1 = <<>> /\ level > 0 /\ level' = level - 1
      BY <2>4 DEF ProjectLevel
    <3>2. PICK x : coarse' = Put(coarse, level - 1, x)
      BY <2>4 DEF ProjectLevel
    <3>3. DOMAIN coarse' = DOMAIN coarse \cup {level - 1}
      BY <3>2 DEF Put
    <3>4. level <= Fine /\ Len(factors) = 0 /\ DOMAIN coarse \subseteq 0..Fine
      BY <3>1 DEF ProjectionOK
    <3>5. level - 1 \in 0..Fine /\ level - 1 \in 0..MaxDepth /\ level - 1 <= Fine
      BY <1>1, <3>1, <3>4
    <3>6. DOMAIN coarse' \subseteq 0..Fine'
      BY <2>1, <3>3, <3>4, <3>5
    <3> QED  BY <1>1, <2>1, <3>1, <3>4, <3>5, <3>6 DEF ProjectionOK, Early
  <2>5. CASE ProjectM1
    <3>1. pc = "iterate" /\ pc' = "loaded" /\ UNCHANGED <<coarse, level, iteration>> /\ m1 = <<>> /\ level = 0
      BY <2>5 DEF ProjectM1
    <3>2. level <= Fine /\ Len(factors) = 0
      BY <3>1 DEF ProjectionOK
    <3> QED  BY <1>1, <2>1, <3>1, <3>2 DEF ProjectionOK, Early
  <2> QED  BY <1>4, <2>2, <2>3, <2>4, <2>5 DEF GenerateCoarseModels, ProjectorNext
<1>5. CASE GenerateScalingFactors
  <2>1. UNCHANGED depth /\ Fine' = Fine
    BY <1>5 DEF GenerateScalingFactors, tagVars, Fine
  <2>2. CASE CountForFactors
    <3>1. pc = "loaded" /\ pc' = "iterate" /\ UNCHANGED <<coarse, level, m1, factors>> /\ iteration' = 0
      BY <2>2 DEF CountForFactors, MakeTransitions, scalingVars
    <3> QED  BY <1>1, <2>1, <3>1 DEF ProjectionOK, Early
  <2>3. CASE MakeMax \/ MakeGeometric \/ MakeHarmonic
    <3>1. /\ pc \in {"loaded", "iterate"} /\ m1 # <<>> /\ UNCHANGED <<coarse, iteration, m1>>
          /\ IF level = Fine THEN pc' = "scaled" /\ UNCHANGED level ELSE pc' = "loaded" /\ level' = level + 1
      BY <2>3 DEF MakeMax, MakeGeometric, MakeHarmonic, Counted, AddFactors
    <3>2. \E f : factors' = Append(factors, f)
      BY <2>3 DEF MakeMax, MakeGeometric, MakeHarmonic, AddFactors
    <3>3. level <= Fine /\ Len(factors) = level
      BY <3>1 DEF ProjectionOK
    <3>4. factors' \in Seq(Range(factors')) /\ Len(factors') = level + 1
      BY <3>2, <3>3, Extended DEF ProjectionOK
    <3>5. Len(factors') <= MaxDepth
      BY <1>1, <3>3, <3>4
    <3>6. DOMAIN coarse' \subseteq 0..Fine'
      BY <2>1, <3>1 DEF ProjectionOK
    <3>7. CASE level = Fine
      BY <1>1, <2>1, <3>1, <3>4, <3>5, <3>6, <3>7 DEF ProjectionOK, Early
    <3>8. CASE level # Fine
      <4>1. level + 1 <= Fine /\ level + 1 \in 0..MaxDepth
        BY <1>1, <3>3, <3>8
      <4> QED  BY <1>1, <2>1, <3>1, <3>4, <3>5, <3>6, <3>8, <4>1 DEF ProjectionOK, Early
    <3> QED  BY <3>7, <3>8
  <2>4. CASE UnknownStrategy
    <3>1. pc' = "error" /\ UNCHANGED <<projectorVars, factors>>
      BY <2>4 DEF UnknownStrategy, scalingVars
    <3> QED  BY <2>1, <3>1 DEF ProjectionOK, projectorVars, Early
  <2> QED  BY <1>5, <2>2, <2>3, <2>4 DEF GenerateScalingFactors, ScalingNext
<1>6. CASE SetSmoothing \/ Missing \/ LoadWords \/ MakeIdLists \/ SetTerminals
  <2>1. UNCHANGED <<projectorVars, factors, depth>> /\ pc' \notin {"loaded", "iterate"}
    BY <1>6 DEF SetSmoothing, Missing, LoadWords, MakeIdLists, SetTerminals, tagVars, scalingVars
  <2>2. pc' \in Early \cup {"grammar"} => pc \in Early \cup {"grammar"}
    BY <1>6 DEF SetSmoothing, Missing, LoadWords, MakeIdLists, SetTerminals, Early, Starting, Starts, LexiconRead
  <2> QED  BY <2>1, <2>2 DEF ProjectionOK, projectorVars, Fine
<1> QED  BY <1>2, <1>3, <1>4, <1>5, <1>6 DEF LoadsNoTags

(* The last rule objects of the lines that are read are rule objects.      *)
LEMMA CurrentStep ==
  ASSUME IInv', CurrentOK, Next
  PROVE  CurrentOK'
<1>1. CASE pc' = "grammar"
  BY <1>1 DEF IInv, StageOK, CurrentOK
<1>2. CASE pc' # "grammar"
  <2>1. CASE LoadModel
    <3>1. UNCHANGED <<rules, current>>
      BY <1>2, <2>1 DEF LoadModel, StartLexicon, StartGrammar, ModelNext, LoadEntry, LoadRule, SkipSelfLoop,
                        RejectLine, LoadOutside, EndGrammar, modelVars
    <3> QED  BY <3>1 DEF CurrentOK
  <2>2. CASE ~LoadModel
    <3>1. UNCHANGED <<rules, current>>
      BY <2>2 DEF Next, SetSmoothing, Missing, LoadWords, LoadSplits, GenerateCoarseModels, GenerateScalingFactors,
                  MakeIdLists, SetTerminals, modelVars
    <3> QED  BY <3>1 DEF CurrentOK
  <2> QED  BY <2>1, <2>2
<1> QED  BY <1>1, <1>2

(* The initial states.                                                     *)
LEMMA TInvInit == Init => TInv
<1> SUFFICES ASSUME Init PROVE TInv
  OBVIOUS
<1>1. /\ pc = "smoothing" /\ tags = <<>> /\ trees = <<>> /\ splits = <<>> /\ depth = 0 /\ numSub = <<>>
      /\ words = <<>> /\ entry = <<>> /\ wids = <<>> /\ coarse = <<>> /\ level = 0 /\ iteration = 0 /\ m1 = <<>>
      /\ factors = <<>>
  BY DEF Init, TagsInit, ModelInit, ProjectorInit
<1>2. /\ Len(<<>>) = 0 /\ DOMAIN <<>> = {} /\ Range(<<>>) = {} /\ <<>> \in Seq({})
      /\ MaxDepth \in Nat /\ NumIteration \in Nat
  BY DepthAssumption, IterationAssumption DEF Range
<1>3. TreesOK
  BY <1>1, <1>2 DEF TreesOK, SplitsOK, NoTags
<1>4. EntriesOK
  BY <1>1, <1>2 DEF EntriesOK
<1>5. ProjectionOK
  BY <1>1, <1>2 DEF ProjectionOK
<1>6. CurrentOK
  BY DEF Init, ModelInit, CurrentOK
<1> QED  BY <1>1, <1>3, <1>4, <1>5, <1>6 DEF TInv, Steps

(* The invariant is kept.                                                  *)
LEMMA TInvNext == IInv /\ IInv' /\ TInv /\ [Next]_vars => TInv'
<1> SUFFICES ASSUME IInv, IInv', TInv, [Next]_vars PROVE TInv'
  OBVIOUS
<1>1. CASE UNCHANGED vars
  <2>1. UNCHANGED <<pc, line, splits, tags, trees, depth, numSub, words, entry, wids, tids, coarse, level, iteration, m1,
                    factors>>
    BY <1>1 DEF vars, tagVars, modelVars, projectorVars, scalingVars, loaderVars
  <2>2. TreesOK'
    BY <2>1 DEF TInv, TreesOK, SplitsOK, Shallow, ReadLines, Numbered, RootTag
  <2>3. EntriesOK'
    BY <2>1 DEF TInv, EntriesOK, TagIds, Sub, Fine
  <2>4. ProjectionOK'
    BY <2>1 DEF TInv, ProjectionOK, Fine
  <2>5. CurrentOK'
    BY <1>1 DEF TInv, CurrentOK, vars, modelVars
  <2> QED  BY <2>1, <2>2, <2>3, <2>4, <2>5 DEF TInv
<1>2. CASE Next
  <2>1. LoadSplits \/ LoadsNoTags
    BY <1>2 DEF Next, LoadsNoTags
  <2>2. pc' \in Steps /\ TreesOK'
    BY <2>1, TreesKept, TreesRead DEF TInv
  <2> QED  BY <1>2, <2>1, <2>2, EntriesStep, ProjectionStep, CurrentStep DEF TInv
<1> QED  BY <1>1, <1>2

(* The names, the trees, the tables and the levels are as each step of     *)
(* loading needs them.                                                     *)
THEOREM TypeInvariance == Spec => []TInv
<1>1. Spec => []IInv
  BY Invariance
<1> QED  BY <1>1, TInvInit, TInvNext, PTL DEF Spec

(* Every variable is of its type: in particular every entry is of a tag    *)
(* and a word that there are and has a score for each subtag of the tag,   *)
(* every rule is of tags that there are, no level of a model is below 0 or *)
(* above the finest one, and there is no factor too many.                  *)
THEOREM TypeCorrect == Spec => []TypeOK
<1>1. ASSUME IInv, TInv PROVE TypeOK
  <2>1. TagsTypeOK
    BY <1>1 DEF IInv, StageOK, TInv, TreesOK, TagsTypeOK
  <2>2. ASSUME NEW i \in DOMAIN rules PROVE Len(rules[i].rule) \in {2, 3} /\ Range(rules[i].rule) \subseteq TagIds
    <3>1. rules # <<>>
      OBVIOUS
    <3>2. rules[i].rule \in Seq(TagIds) /\ Len(rules[i].rule) \in {2, 3}
      BY <1>1, <3>1 DEF IInv, RulesOK, IsRule
    <3> QED  BY <3>2, LenProperties DEF Range
  <2>3. \A a \in DOMAIN current : current[a] \in DOMAIN rules
    <3>1. CASE rules = <<>>
      BY <1>1, <3>1 DEF TInv, CurrentOK
    <3>2. CASE rules # <<>>
      BY <1>1, <3>2 DEF IInv, RulesOK
    <3> QED  BY <3>1, <3>2
  <2>4. ModelTypeOK
    BY <1>1, <2>2, <2>3 DEF TInv, EntriesOK, ModelTypeOK
  <2> QED  BY <1>1, <2>1, <2>4 DEF TInv, Steps, EntriesOK, ProjectionOK, TypeOK
<1>2. IInv /\ TInv => TypeOK
  BY <1>1
<1> QED  BY <1>2, Invariance, TypeInvariance, PTL

(* The id of a tag is the number of its line and of its tree, and ROOT has *)
(* the last one, although ids are given by a dictionary, which numbers a   *)
(* name that it has met before no more, and trees by where they stand in   *)
(* the file (TagSet.cc:40).                                                *)
THEOREM TagNumbers == Spec => [](HaveTags => Numbered)
<1>1. TInv => (HaveTags => Numbered)
  BY DEF TInv, TreesOK, HaveTags
<1> QED  BY <1>1, TypeInvariance, PTL

-----------------------------------------------------------------------------
(* The entries are the sums of the first n lines.                          *)
SumsOf(n, lines, names, table, made, subs) ==
  \A t \in DOMAIN names, w \in DOMAIN table :
    /\ <<t, w>> \in DOMAIN made <=> \E k \in 1..n : lines[k].tag = names[t] /\ lines[k].word = table[w]
    /\ \A s \in 0..(subs[t] - 1) :
         LineSums(lines, names[t], table[w], s)[n] = IF <<t, w>> \in DOMAIN made THEN made[<<t, w>>][s] ELSE Zero

Subs == [t \in TagIds |-> numSub[t][Fine]]

EntriesOf(n) == SumsOf(n, lexicon, tags, words, entry, Subs)

(* Line k of the lexicon is one of a tag and a word.                       *)
EntryLine(k, t, w) == lexicon[k].tag = tags[t] /\ lexicon[k].word = words[w]

(* Names and words have one id, and the entries are those of the lines     *)
(* that are read.                                                          *)
LInv ==
  /\ IsInjective(words)
  /\ pc \in {"tagged", "lexicon"} => Numbered
  /\ pc = "lexicon" => /\ lexicon \in Seq(Range(lexicon)) /\ line <= Len(lexicon) + 1
                       /\ EntriesOf(line - 1)
  /\ rules # <<>> => /\ lexicon \in Seq(Range(lexicon)) /\ EntriesOf(Len(lexicon))
                     /\ Len(tags) = Len(trees)

-----------------------------------------------------------------------------
(* The sums of a lexicon are the solution of their equation.               *)
LEMMA LineSumsStep ==
  ASSUME NEW lines, Len(lines) \in Nat, NEW tag, NEW word, NEW s
  PROVE  /\ LineSums(lines, tag, word, s)[0] = Zero
         /\ \A k \in 1..Len(lines) : LineSums(lines, tag, word, s)[k] =
              IF lines[k].tag = tag /\ lines[k].word = word
                THEN Add(LineSums(lines, tag, word, s)[k - 1], lines[k].scores[s + 1])
                ELSE LineSums(lines, tag, word, s)[k - 1]
<1> DEFINE n == Len(lines)
           Value(g, k) == IF k = 0 THEN Zero
                          ELSE IF lines[k].tag = tag /\ lines[k].word = word THEN Add(g[k - 1], lines[k].scores[s + 1])
                          ELSE g[k - 1]
           Solves(g, m) == g = [k \in 0..n |-> g[k]] /\ \A k \in 0..m : g[k] = Value(g, k)
           S == {m \in Nat : m <= n => \E g : Solves(g, m)}
<1>1. n \in Nat
  OBVIOUS
<1> HIDE DEF n
<1>2. 0 \in S
  <2> DEFINE g == [k \in 0..n |-> Zero]
  <2>1. Solves(g, 0)
    BY <1>1
  <2> HIDE DEF Solves
  <2> QED  BY <2>1
<1>3. ASSUME NEW m \in Nat, m \in S PROVE m + 1 \in S
  <2> SUFFICES ASSUME m + 1 <= n PROVE \E g : Solves(g, m + 1)
    OBVIOUS
  <2>1. PICK g : Solves(g, m)
    BY <1>1, <1>3
  <2> DEFINE h == [k \in 0..n |-> IF k = m + 1 THEN Value(g, k) ELSE g[k]]
  <2>2. m + 1 \in 0..n /\ \A k \in 0..m : k \in 0..n /\ k # m + 1
    BY <1>1
  <2>3. h[m + 1] = Value(g, m + 1) /\ \A k \in 0..m : h[k] = g[k]
    <3> HIDE DEF Value
    <3> QED  BY <2>2
  <2>4. h = [k \in 0..n |-> h[k]]
    OBVIOUS
  <2> HIDE DEF h
  <2>5. Value(h, m + 1) = Value(g, m + 1)
    <3>1. (m + 1) - 1 \in 0..m
      OBVIOUS
    <3> QED  BY <2>3, <3>1
  <2>6. ASSUME NEW k \in 0..m PROVE h[k] = Value(h, k)
    <3>1. h[k] = g[k] /\ g[k] = Value(g, k)
      BY <2>1, <2>3
    <3>2. k # 0 => k - 1 \in 0..m
      OBVIOUS
    <3>3. k # 0 => h[k - 1] = g[k - 1]
      BY <2>3, <3>2
    <3> QED  BY <3>1, <3>3
  <2>7. \A k \in 0..(m + 1) : k = m + 1 \/ k \in 0..m
    OBVIOUS
  <2>8. Solves(h, m + 1)
    <3> HIDE DEF Value
    <3> QED  BY <2>3, <2>4, <2>5, <2>6, <2>7
  <2> HIDE DEF Solves
  <2> QED  BY <2>8
<1>4. n \in S
  <2> HIDE DEF S
  <2> QED  BY <1>1, <1>2, <1>3, SetInduction
<1>5. PICK g : Solves(g, n)
  <2> HIDE DEF Solves
  <2> QED  BY <1>1, <1>4
<1>6. g = [k \in 0..n |-> Value(g, k)]
  <2> HIDE DEF Value
  <2> QED  BY <1>5
<1> DEFINE f == LineSums(lines, tag, word, s)
<1>7. f = [k \in 0..n |-> Value(f, k)]
  BY <1>6 DEF LineSums, n
<1> HIDE DEF f
<1>8. \A k \in 0..n : f[k] = Value(f, k)
  <2> HIDE DEF Value
  <2> QED  BY <1>7
<1>9. f[0] = Zero
  BY <1>1, <1>8
<1>10. ASSUME NEW k \in 1..n
       PROVE  f[k] = IF lines[k].tag = tag /\ lines[k].word = word THEN Add(f[k - 1], lines[k].scores[s + 1])
                                                                  ELSE f[k - 1]
  <2>1. k \in 0..n /\ k # 0
    BY <1>1
  <2> QED  BY <1>8, <2>1
<1> QED  BY <1>9, <1>10 DEF f, n

(* A tag that there is is found under its number, and no other name is.    *)
LEMMA TagFound ==
  ASSUME IInv, TInv, Numbered, NEW name, NEW t \in DOMAIN tags
  PROVE  TagId(name) = t <=> name = tags[t]
<1>1. /\ DOMAIN tags = 1..(Len(splits) + 1) /\ RootTag = Len(splits) + 1 /\ tags[RootTag] = "ROOT"
      /\ DOMAIN splits = 1..Len(splits) /\ Len(splits) \in Nat
      /\ \A i \in 1..Len(splits) : tags[i] = splits[i].name
  BY LenProperties DEF TInv, TreesOK, SplitsOK, IInv, TagsOK, Numbered, RootTag
<1>2. \A i, j \in 1..Len(splits) : splits[i].name = splits[j].name => i = j
  BY <1>1 DEF TInv, TreesOK, SplitsOK
<1>3. \A i \in 1..Len(splits) : splits[i].name # "ROOT"
  BY <1>1 DEF TInv, TreesOK, SplitsOK
<1>4. \A i \in DOMAIN tags : i \in 1..Len(splits) \/ i = RootTag
  BY <1>1
<1>5. \A i, j \in DOMAIN tags : tags[i] = tags[j] => i = j
  BY <1>1, <1>2, <1>3, <1>4
<1>6. CASE name \in Range(tags)
  <2>1. TagId(name) \in DOMAIN tags /\ tags[TagId(name)] = name
    BY <1>6 DEF TagId, Range
  <2> QED  BY <1>5, <2>1
<1>7. CASE name \notin Range(tags)
  <2>1. TagId(name) = 0 /\ t # 0 /\ tags[t] # name
    BY <1>1, <1>7 DEF TagId, Range
  <2> QED  BY <2>1
<1> QED  BY <1>6, <1>7

(* So is a word.                                                           *)
LEMMA WordFound ==
  ASSUME TInv, LInv, NEW word, NEW w \in DOMAIN words
  PROVE  WordId(word) = w <=> word = words[w]
<1>1. DOMAIN words = 1..Len(words) /\ Len(words) \in Nat /\ \A i, j \in DOMAIN words : words[i] = words[j] => i = j
  BY LenProperties DEF TInv, EntriesOK, LInv, IsInjective
<1>2. CASE word \in Range(words)
  <2>1. WordId(word) \in DOMAIN words /\ words[WordId(word)] = word
    BY <1>2 DEF WordId, Range
  <2> QED  BY <1>1, <2>1
<1>3. CASE word \notin Range(words)
  <2>1. WordId(word) = 0 /\ w # 0 /\ words[w] # word
    BY <1>1, <1>3 DEF WordId, Range
  <2> QED  BY <2>1
<1> QED  BY <1>2, <1>3

(* The number of subtags changes with the trees only.                      *)
LEMMA SubsFrame == UNCHANGED <<trees, depth, numSub>> => Subs' = Subs
BY DEF Subs, TagIds, Fine

(* A line that is read adds to the sums and to the entry of its tag and    *)
(* its word, or to nothing.                                                *)
LEMMA EntriesGrow ==
  ASSUME IInv, TInv, LInv, LoadModel, LoadEntry, pc' = "lexicon"
  PROVE  EntriesOf(line - 1)'
<1> DEFINE l == lexicon[line]
           e == <<TagId(l.tag), WordId(l.word)>>
           old == IF e \in DOMAIN entry THEN entry[e] ELSE [s \in Sub(e[1], Fine) |-> Zero]
           valid == Len(l.scores) = numSub[e[1]][Fine]
           new == Added(old, l.scores)
<1>1. /\ pc = "lexicon" /\ line <= Len(lexicon) /\ line' = line + 1
      /\ UNCHANGED <<words, lexicon, tags, trees, depth, numSub>>
  BY DEF LoadModel, LoadEntry, tagVars
<1>2. line \in 1..Len(lexicon) /\ line' - 1 = line /\ line - 1 \in Nat /\ Len(lexicon) \in Nat
      /\ DOMAIN lexicon = 1..Len(lexicon) /\ 1..line = 1..(line - 1) \cup {line}
  BY <1>1, LenProperties DEF IInv, StageOK, LInv
<1>3. IF ~Known(e) THEN UNCHANGED entry
      ELSE e[1] # 0 /\ valid /\ entry' = Put(entry, e, new)
  BY <1>1 DEF LoadEntry
<1>7. DOMAIN tags \subseteq TagIds
  BY LenProperties DEF IInv, TagsOK, TInv, TreesOK, TagIds
<1>4. ASSUME NEW t \in DOMAIN tags, NEW w \in DOMAIN words
      PROVE  /\ <<t, w>> \in DOMAIN entry' <=> \E k \in 1..line : EntryLine(k, t, w)
             /\ \A s \in Sub(t, Fine) :
                  LineSums(lexicon, tags[t], words[w], s)[line] =
                    IF <<t, w>> \in DOMAIN entry' THEN entry'[<<t, w>>][s] ELSE Zero
  <2>1. /\ <<t, w>> \in DOMAIN entry <=> \E k \in 1..(line - 1) : EntryLine(k, t, w)
        /\ \A s \in Sub(t, Fine) :
             LineSums(lexicon, tags[t], words[w], s)[line - 1] =
               IF <<t, w>> \in DOMAIN entry THEN entry[<<t, w>>][s] ELSE Zero
    <3>1. \A s : s \in Sub(t, Fine) <=> s \in 0..(Subs[t] - 1)
      BY <1>7 DEF Sub, Subs
    <3> QED  BY <1>1, <3>1 DEF LInv, EntriesOf, SumsOf, EntryLine
  <2>2. \A s : LineSums(lexicon, tags[t], words[w], s)[line] =
          IF EntryLine(line, t, w) THEN Add(LineSums(lexicon, tags[t], words[w], s)[line - 1], l.scores[s + 1])
                                   ELSE LineSums(lexicon, tags[t], words[w], s)[line - 1]
    BY <1>2, LineSumsStep DEF EntryLine
  <2>3. (\E k \in 1..line : EntryLine(k, t, w)) <=>
          (\E k \in 1..(line - 1) : EntryLine(k, t, w)) \/ EntryLine(line, t, w)
    BY <1>2
  <2>4. EntryLine(line, t, w) <=> TagId(l.tag) = t /\ WordId(l.word) = w
    <3>1. Numbered
      BY <1>1 DEF LInv
    <3>2. TagId(l.tag) = t <=> l.tag = tags[t]
      BY <3>1, TagFound
    <3>3. WordId(l.word) = w <=> l.word = words[w]
      BY WordFound
    <3> QED  BY <3>2, <3>3 DEF EntryLine
  <2>5. CASE EntryLine(line, t, w)
    <3>1. e = <<t, w>>
      BY <2>4, <2>5
    <3>2. w # 0
      BY LenProperties DEF TInv, EntriesOK
    <3>3. entry' = Put(entry, e, new)
      BY <1>3, <3>1, <3>2 DEF Known
    <3>4. DOMAIN old = Sub(t, Fine)
      BY <3>1 DEF TInv, EntriesOK
    <3>5. \A s \in Sub(t, Fine) : old[s] = LineSums(lexicon, tags[t], words[w], s)[line - 1]
      BY <2>1, <3>1
    <3>6. \A s \in Sub(t, Fine) : new[s] = Add(old[s], l.scores[s + 1])
      <4> HIDE DEF old, l
      <4> QED  BY <3>4 DEF Added
    <3> HIDE DEF e, new, old
    <3>7. <<t, w>> \in DOMAIN entry' /\ entry'[<<t, w>>] = new
      BY <3>1, <3>3 DEF Put
    <3> HIDE DEF l
    <3> QED  BY <2>2, <2>3, <2>5, <3>5, <3>6, <3>7
  <2>6. CASE ~EntryLine(line, t, w)
    <3>1. e # <<t, w>>
      BY <2>4, <2>6
    <3> HIDE DEF e, new, valid
    <3>2. /\ <<t, w>> \in DOMAIN entry' <=> <<t, w>> \in DOMAIN entry
          /\ <<t, w>> \in DOMAIN entry => entry'[<<t, w>>] = entry[<<t, w>>]
      BY <1>3, <3>1 DEF Put
    <3> QED  BY <2>1, <2>2, <2>3, <2>6, <3>2
  <2> QED  BY <2>5, <2>6
<1> HIDE DEF l, e, old, valid, new
<1>5. \A t \in DOMAIN tags : \A s : s \in Sub(t, Fine) <=> s \in 0..(Subs[t] - 1)
  BY <1>7 DEF Sub, Subs
<1>6. SumsOf(line, lexicon, tags, words, entry', Subs)
  BY <1>4, <1>5 DEF SumsOf, EntryLine
<1>8. Subs' = Subs
  BY <1>1, SubsFrame
<1> QED  BY <1>1, <1>2, <1>6, <1>8 DEF EntriesOf

(* What the loader reads of the lexicon are lines of it.                   *)
LEMMA OpenedLexicon ==
  ASSUME job \in Jobs, CanOpen(job.disk["lexicon"])
  PROVE  File("lexicon") \in Seq(Range(File("lexicon")))
<1>1. "lexicon" \in Kinds
  BY DEF Kinds
<1>2. PICK file : /\ file.length \in 0..Len(file.dump["lexicon"]) /\ file.dump.lexicon \in Seq(Range(file.dump.lexicon))
                  /\ File("lexicon") = SubSeq(file.dump["lexicon"], 1, file.length)
  BY <1>1, FileLines
<1> DEFINE f == file.dump["lexicon"]
           n == file.length
           T == Range(f)
           g == File("lexicon")
<1>3. n \in 0..Len(f) /\ f \in Seq(T) /\ g = SubSeq(f, 1, n)
  BY <1>2
<1> HIDE DEF f, n, T
<1>4. g \in Seq(T)
  BY <1>3, FirstLines
<1> HIDE DEF g
<1>5. g \in [1..Len(g) -> Range(g)] /\ Len(g) \in Nat
  <2>1. g \in [1..Len(g) -> T] /\ Len(g) \in Nat
    BY <1>4, LenProperties
  <2> QED  BY <2>1 DEF Range
<1>6. g \in Seq(Range(g))
  BY <1>5, SeqDef
<1> QED  BY <1>6 DEF g

(* No word has two ids.                                                    *)
LEMMA WordsDistinct ==
  ASSUME IInv, IsInjective(words), Next
  PROVE  IsInjective(words')
<1>1. CASE LoadWords
  <2>1. words' = FoldLeft(AddWord, <<>>, File("words")) /\ CanOpen(job.disk["words"])
    BY <1>1 DEF LoadWords, Starting
  <2>2. "words" \in Kinds /\ job \in Jobs
    BY DEF Kinds, IInv, StageOK
  <2>3. PICK file : /\ file.length \in 0..Len(file.dump["words"]) /\ file.dump.words \in Seq(Range(file.dump.words))
                    /\ File("words") = SubSeq(file.dump["words"], 1, file.length)
    BY <2>1, <2>2, FileLines
  <2> DEFINE f == file.dump["words"]
             n == file.length
             T == Range(f)
  <2>4. n \in 0..Len(f) /\ f \in Seq(T) /\ File("words") = SubSeq(f, 1, n)
    BY <2>3
  <2> HIDE DEF f, n, T
  <2>5. File("words") \in Seq(T)
    BY <2>4, FirstLines
  <2> QED  BY <2>1, <2>5, WordTable
<1>2. CASE ~LoadWords
  <2>1. words' = words
    BY <1>2 DEF Next, SetSmoothing, Missing, LoadSplits, LoadModel, StartLexicon, StartGrammar, ModelNext, LoadEntry,
                LoadRule, SkipSelfLoop, RejectLine, LoadOutside, EndGrammar, GenerateCoarseModels,
                GenerateScalingFactors, MakeIdLists, SetTerminals, modelVars
  <2> QED  BY <2>1
<1> QED  BY <1>1, <1>2

(* The steps that read the lexicon.                                        *)
LEMMA LexiconStep ==
  ASSUME IInv, IInv', TInv, LInv, LoadsNoTags, pc' = "lexicon"
  PROVE  lexicon' \in Seq(Range(lexicon')) /\ line' <= Len(lexicon') + 1 /\ EntriesOf(line - 1)'
<1>1. UNCHANGED tagVars /\ pc \in {"tagged", "lexicon"}
  BY Moves DEF Stopped
<1>2. LoadModel
  BY <1>1 DEF LoadsNoTags, SetSmoothing, Missing, LoadWords, Starting, Starts, LexiconRead, GenerateCoarseModels,
              ProjectorNext, MakeTransitions, Iterate, ProjectLevel, ProjectM1, GenerateScalingFactors, ScalingNext,
              CountForFactors, MakeMax, Counted, MakeGeometric, MakeHarmonic, UnknownStrategy, MakeIdLists, SetTerminals
<1>3. (Starting("lexicon") /\ StartLexicon(File("lexicon"))) \/ LoadEntry
  BY <1>1, <1>2 DEF LoadModel, Starting, Starts, StartGrammar, ModelNext, LoadRule, SkipSelfLoop, RejectLine,
                    LoadOutside, EndGrammar
<1>4. CASE Starting("lexicon") /\ StartLexicon(File("lexicon"))
  <2>1. /\ lexicon' = File("lexicon") /\ line' = 1 /\ UNCHANGED <<words, entry>> /\ pc = "tagged"
        /\ CanOpen(job.disk["lexicon"])
    BY <1>4 DEF StartLexicon, Starting, Starts
  <2>2. lexicon' \in Seq(Range(lexicon'))
    BY <2>1, OpenedLexicon DEF IInv, StageOK
  <2>3. Len(lexicon') \in Nat
    BY <2>2, LenProperties
  <2>4. entry' = <<>> /\ DOMAIN <<>> = {}
    BY <2>1 DEF TInv, EntriesOK, Early
  <2>5. line' - 1 = 0 /\ 1..0 = {}
    BY <2>1
  <2>6. \A t, w, s : LineSums(lexicon', tags'[t], words'[w], s)[0] = Zero
    BY <2>3, LineSumsStep
  <2>7. EntriesOf(line - 1)'
    BY <2>4, <2>5, <2>6 DEF EntriesOf, SumsOf
  <2> QED  BY <2>1, <2>2, <2>3, <2>7
<1>5. CASE LoadEntry
  <2>1. EntriesOf(line - 1)'
    BY <1>2, <1>5, EntriesGrow
  <2>2. pc = "lexicon" /\ line <= Len(lexicon) /\ line' = line + 1 /\ lexicon' = lexicon
    BY <1>5 DEF LoadEntry
  <2>3. lexicon \in Seq(Range(lexicon)) /\ Len(lexicon) \in Nat /\ line \in Nat
    BY <2>2, LenProperties DEF LInv, IInv, StageOK
  <2> QED  BY <2>1, <2>2, <2>3
<1> QED  BY <1>3, <1>4, <1>5

(* The steps after it.                                                     *)
LEMMA LexiconLeft ==
  ASSUME IInv, IInv', TInv, TInv', LInv, LoadsNoTags, rules' # <<>>
  PROVE  lexicon' \in Seq(Range(lexicon')) /\ EntriesOf(Len(lexicon))' /\ Len(tags') = Len(trees')
<1>1. UNCHANGED tagVars /\ pc' \notin Early
  BY Moves DEF IInv, StageOK
<1>2. CASE LoadModel /\ Starting("grammar") /\ StartGrammar(File("grammar"))
  <2>1. pc = "lexicon" /\ line > Len(lexicon) /\ UNCHANGED <<words, lexicon, entry>>
    BY <1>2 DEF Starting, Starts, LexiconRead, StartGrammar
  <2>2. lexicon \in Seq(Range(lexicon)) /\ line <= Len(lexicon) + 1 /\ EntriesOf(line - 1)
    BY <2>1 DEF LInv
  <2>3. Len(lexicon) \in Nat /\ line \in Nat
    BY <2>2, LenProperties DEF IInv, StageOK
  <2>4. line - 1 = Len(lexicon)
    BY <2>1, <2>2, <2>3
  <2>5. EntriesOf(Len(lexicon)) /\ Len(lexicon') = Len(lexicon)
    BY <2>1, <2>2, <2>4
  <2>6. EntriesOf(Len(lexicon))'
    BY <1>1, <2>1, <2>5, SubsFrame DEF EntriesOf, tagVars
  <2> QED  BY <1>1, <2>1, <2>2, <2>6 DEF TInv, TreesOK
<1>3. CASE ~(LoadModel /\ Starting("grammar") /\ StartGrammar(File("grammar")))
  <2>1. rules # <<>> /\ UNCHANGED <<words, lexicon, entry>>
    <3>1. CASE LoadModel
      <4>1. ~(Starting("lexicon") /\ StartLexicon(File("lexicon")))
        BY <1>1 DEF StartLexicon, Early
      <4>2. ~LoadEntry
        <5>1. LoadEntry => pc = "lexicon" /\ rules' = rules
          BY DEF LoadEntry
        <5> QED  BY <5>1 DEF IInv, StageOK, Early
      <4>3. LoadRule => rules # <<>> /\ UNCHANGED <<words, lexicon, entry>>
        BY DEF LoadRule, IInv, StageOK
      <4>4. SkipSelfLoop \/ RejectLine \/ LoadOutside \/ EndGrammar => UNCHANGED modelVars
        BY DEF SkipSelfLoop, RejectLine, LoadOutside, EndGrammar
      <4> QED  BY <1>3, <3>1, <4>1, <4>2, <4>3, <4>4 DEF LoadModel, ModelNext, modelVars
    <3>2. CASE LoadWords
      BY <1>1, <3>2 DEF LoadWords, Early
    <3>3. CASE SetSmoothing \/ Missing \/ GenerateCoarseModels \/ GenerateScalingFactors \/ MakeIdLists \/ SetTerminals
      BY <3>3 DEF SetSmoothing, Missing, GenerateCoarseModels, GenerateScalingFactors, MakeIdLists, SetTerminals,
                  modelVars
    <3> QED  BY <3>1, <3>2, <3>3 DEF LoadsNoTags
  <2>2. lexicon \in Seq(Range(lexicon)) /\ EntriesOf(Len(lexicon)) /\ Len(lexicon') = Len(lexicon)
    BY <2>1 DEF LInv
  <2>3. EntriesOf(Len(lexicon))'
    BY <1>1, <2>1, <2>2, SubsFrame DEF EntriesOf, tagVars
  <2> QED  BY <1>1, <2>1, <2>2, <2>3 DEF TInv, TreesOK
<1> QED  BY <1>2, <1>3

(* The invariant is kept.                                                  *)
LEMMA LInvNext == IInv /\ IInv' /\ TInv /\ TInv' /\ LInv /\ [Next]_vars => LInv'
<1> SUFFICES ASSUME IInv, IInv', TInv, TInv', LInv, [Next]_vars PROVE LInv'
  OBVIOUS
<1>1. CASE UNCHANGED vars
  <2>1. UNCHANGED <<pc, line, splits, words, lexicon, entry, rules, tags, trees, depth, numSub>>
    BY <1>1 DEF vars, tagVars, modelVars
  <2>2. EntriesOf(line - 1) => EntriesOf(line - 1)'
    BY <2>1, SubsFrame DEF EntriesOf
  <2>3. EntriesOf(Len(lexicon)) => EntriesOf(Len(lexicon))'
    BY <2>1, SubsFrame DEF EntriesOf
  <2>4. Numbered => Numbered'
    BY <2>1 DEF Numbered, RootTag
  <2> HIDE DEF EntriesOf
  <2> QED  BY <2>1, <2>2, <2>3, <2>4 DEF LInv
<1>2. CASE LoadSplits
  <2>1. UNCHANGED <<words, rules>> /\ pc \in Early /\ pc' # "lexicon"
    BY <1>2 DEF LoadSplits, modelVars, Starting, Starts, LexiconRead, TagsNext, LoadLine, CheckNothing, CheckDepth,
                AddRoot, CountSubtags, StartSplits, Early
  <2>2. rules' = <<>>
    BY <2>1 DEF IInv, StageOK
  <2>3. ASSUME pc' = "tagged" PROVE Numbered'
    <3>1. CountSubtags
      BY <1>2, <2>3 DEF LoadSplits, Starting, TagsNext, LoadLine, CheckNothing, CheckDepth, AddRoot, StartSplits
    <3>2. pc = "count" /\ UNCHANGED <<splits, tags, trees>>
      BY <3>1 DEF CountSubtags
    <3> QED  BY <3>2 DEF TInv, TreesOK, Numbered, RootTag
  <2> QED  BY <2>1, <2>2, <2>3 DEF LInv
<1>3. CASE LoadsNoTags
  <2>1. IsInjective(words)'
    BY <1>3, WordsDistinct DEF LInv, LoadsNoTags, Next
  <2>2. pc' \in {"tagged", "lexicon"} => Numbered'
    <3>1. UNCHANGED tagVars /\ (pc' \in {"tagged", "lexicon"} => pc \in {"tagged", "lexicon"})
      BY <1>3, Moves DEF Stopped
    <3> QED  BY <3>1 DEF LInv, Numbered, RootTag, tagVars
  <2>3. pc' = "lexicon" => lexicon' \in Seq(Range(lexicon')) /\ line' <= Len(lexicon') + 1 /\ EntriesOf(line - 1)'
    BY <1>3, LexiconStep
  <2>4. rules' # <<>> => /\ lexicon' \in Seq(Range(lexicon')) /\ EntriesOf(Len(lexicon))'
                         /\ Len(tags') = Len(trees')
    BY <1>3, LexiconLeft
  <2> QED  BY <2>1, <2>2, <2>3, <2>4 DEF LInv
<1> QED  BY <1>1, <1>2, <1>3 DEF Next, LoadsNoTags

(* It holds from the beginning.                                            *)
LEMMA EntriesInvariance == Spec => []LInv
<1>1. Init => LInv
  <2> SUFFICES ASSUME Init PROVE LInv
    OBVIOUS
  <2>1. words = <<>> /\ rules = <<>> /\ pc = "smoothing"
    BY DEF Init, ModelInit
  <2>2. IsInjective(<<>>)
    BY DEF IsInjective
  <2> QED  BY <2>1, <2>2 DEF LInv
<1> QED  BY <1>1, LInvNext, Invariance, TypeInvariance, PTL DEF Spec

(* Once the lexicon is read, a tag and a word have an entry exactly if     *)
(* there is a line of them, whatever lines are skipped, and its scores are *)
(* the sums of those of their lines, in the order of the file.             *)
THEOREM Entries == Spec => []LexiconExact
<1>1. LInv /\ IInv => LexiconExact
  <2> SUFFICES ASSUME LInv, IInv, rules # <<>>, NEW t \in TagIds, NEW w \in DOMAIN words
               PROVE  /\ <<t, w>> \in DOMAIN entry <=>
                           \E k \in DOMAIN lexicon : lexicon[k].tag = tags[t] /\ lexicon[k].word = words[w]
                      /\ <<t, w>> \in DOMAIN entry => \A s \in Sub(t, Fine) :
                           entry[<<t, w>>][s] = LineSums(lexicon, tags[t], words[w], s)[Len(lexicon)]
    BY DEF LexiconExact
  <2>1. lexicon \in Seq(Range(lexicon)) /\ EntriesOf(Len(lexicon)) /\ Len(tags) = Len(trees)
    BY DEF LInv
  <2>2. DOMAIN lexicon = 1..Len(lexicon) /\ DOMAIN tags = 1..Len(tags) /\ DOMAIN trees = 1..Len(trees)
    BY <2>1, LenProperties DEF IInv, TagsOK
  <2>3. t \in DOMAIN tags
    BY <2>1, <2>2 DEF TagIds
  <2>4. Sub(t, Fine) = 0..(Subs[t] - 1)
    BY DEF Sub, Subs
  <2> QED  BY <2>1, <2>2, <2>3, <2>4 DEF EntriesOf, SumsOf
<1> QED  BY <1>1, EntriesInvariance, Invariance, PTL

-----------------------------------------------------------------------------
(* The equation of the ends of S expressions.                              *)
EndsAt(tok, f, p) ==
  {q \in p..Len(tok) :
     \/ q = p /\ tok[p] \notin {Open, Close}
     \/ /\ tok[p] = Open /\ tok[q] = Close /\ tok[p + 1] \notin {Open, Close}
        /\ \E a \in f[p + 2] : q = a + 1 \/ q - 1 \in f[a + 1]}

(* It has a solution, from the last token to the first.                    *)
LEMMA EndsExist ==
  ASSUME NEW tok, Len(tok) \in Nat
  PROVE  \E f : f = [p \in 1..(Len(tok) + 2) |-> EndsAt(tok, f, p)]
<1> DEFINE n == Len(tok)
           D == 1..(n + 2)
           Solved(k) == \E f : /\ f = [p \in D |-> f[p]]
                               /\ \A p \in D : p + k > n => f[p] = EndsAt(tok, f, p)
                               /\ \A p \in D : f[p] \subseteq p..n
           S == {k \in Nat : Solved(k)}
<1>1. n \in Nat
  OBVIOUS
<1> HIDE DEF n
<1>2. 0 \in S
  <2> DEFINE f == [p \in D |-> {}]
  <2>1. f = [p \in D |-> f[p]] /\ \A p \in D : f[p] \subseteq p..n
    OBVIOUS
  <2>2. \A p \in D : p + 0 > n => EndsAt(tok, f, p) = {}
    <3>1. \A p \in D : p + 0 > n => p..n = {}
      BY <1>1
    <3> QED  BY <3>1 DEF EndsAt, n
  <2>3. \A p \in D : p + 0 > n => f[p] = EndsAt(tok, f, p)
    BY <2>2
  <2> HIDE DEF f
  <2> QED  BY <2>1, <2>3
<1>3. ASSUME NEW k \in Nat, k \in S PROVE k + 1 \in S
  <2>1. PICK f : /\ f = [p \in D |-> f[p]]
                 /\ \A p \in D : p + k > n => f[p] = EndsAt(tok, f, p)
                 /\ \A p \in D : f[p] \subseteq p..n
    BY <1>3
  <2> DEFINE h == [p \in D |-> IF p + k > n THEN f[p] ELSE EndsAt(tok, f, p)]
  <2>2. h = [p \in D |-> h[p]]
    OBVIOUS
  <2>3. \A p \in D : h[p] \subseteq p..n
    BY <2>1 DEF EndsAt, n
  <2>4. ASSUME NEW p \in D, p + (k + 1) > n PROVE h[p] = EndsAt(tok, h, p)
    <3>1. h[p] = EndsAt(tok, f, p)
      BY <2>1
    <3>2. ASSUME NEW q \in p..n PROVE p + 2 \in D /\ h[p + 2] = f[p + 2]
      <4>1. p + 2 \in D /\ (p + 2) + k > n
        BY <1>1, <2>4
      <4> QED  BY <4>1
    <3>3. ASSUME NEW q \in p..n, NEW a \in f[p + 2] PROVE h[a + 1] = f[a + 1]
      <4>1. a \in (p + 2)..n
        BY <2>1, <3>2
      <4>2. a + 1 \in D /\ (a + 1) + k > n
        BY <1>1, <2>4, <4>1
      <4> QED  BY <4>2
    <3> HIDE DEF h, D
    <3> QED  BY <3>1, <3>2, <3>3 DEF EndsAt, n
  <2> HIDE DEF h
  <2>5. Solved(k + 1)
    BY <2>2, <2>3, <2>4
  <2> HIDE DEF Solved
  <2> QED  BY <2>5
<1>4. n \in S
  <2> HIDE DEF S
  <2> QED  BY <1>1, <1>2, <1>3, SetInduction
<1>5. PICK f : f = [p \in D |-> f[p]] /\ \A p \in D : p + n > n => f[p] = EndsAt(tok, f, p)
  BY <1>4
<1>6. \A p \in D : p + n > n
  BY <1>1
<1>7. f = [p \in D |-> EndsAt(tok, f, p)]
  <2> HIDE DEF D
  <2> QED  BY <1>5, <1>6
<1> QED  BY <1>7 DEF n

(* So the ends are what they are defined to be.                            *)
LEMMA EndsDefined ==
  ASSUME NEW tok, Len(tok) \in Nat
  PROVE  \A p \in 1..(Len(tok) + 2) : Ends(tok)[p] = EndsAt(tok, Ends(tok), p)
<1>1. Ends(tok) = CHOOSE f : f = [p \in 1..(Len(tok) + 2) |-> EndsAt(tok, f, p)]
  BY DEF Ends, EndsAt
<1>2. Ends(tok) = [p \in 1..(Len(tok) + 2) |-> EndsAt(tok, Ends(tok), p)]
  BY <1>1, EndsExist
<1> QED  BY <1>2

(* The node that is read from a token on, and where its last token is.     *)
ReadAt(tok, f, p) ==
  IF tok[p] # Open THEN [tree |-> Node(tok[p], <<>>), last |-> p]
  ELSE LET one == f[p + 2]
           next == one.last + 1
       IN  IF tok[next] = Close THEN [tree |-> Node(tok[p + 1], <<one.tree>>), last |-> next]
           ELSE LET two == f[next]
                IN  [tree |-> Node(tok[p + 1], <<one.tree, two.tree>>), last |-> two.last + 1]

(* The reader stays within a line that is an S expression, and ends where  *)
(* the expression does.                                                    *)
LEMMA ReadsOn ==
  ASSUME NEW tok, IsSExpression(tok), NEW p \in 1..Len(tok), NEW f,
         \A q \in 1..Len(tok) : q > p => \A e \in Ends(tok)[q] : f[q].last = e
  PROVE  /\ \A e \in Ends(tok)[p] : ReadAt(tok, f, p).last = e
         /\ tok[p] = Open =>
              LET next == f[p + 2].last + 1
              IN  /\ p + 2 \in 1..Len(tok) /\ next \in (p + 1)..Len(tok)
                  /\ tok[next] # Close => Ends(tok)[next] # {}
<1> DEFINE n == Len(tok)
           E == Ends(tok)
<1>1. n \in Nat /\ tok \in Seq(Range(tok)) /\ DOMAIN tok = 1..n
  BY LenProperties DEF IsSExpression
<1>2. \A q \in 1..(n + 2) : E[q] = EndsAt(tok, E, q)
  BY <1>1, EndsDefined
<1>3. \A q \in 1..(n + 2) : \A e \in E[q] : e \in q..n /\ q \in 1..n /\ tok[q] # Close
  <2> TAKE q \in 1..(n + 2)
  <2> TAKE e \in E[q]
  <2>1. e \in EndsAt(tok, E, q)
    BY <1>2
  <2>2. e \in q..n /\ (tok[q] \notin {Open, Close} \/ tok[q] = Open)
    BY <2>1 DEF EndsAt
  <2> QED  BY <1>1, <2>2, TokenAssumption
<1>4. CASE tok[p] # Open
  <2>1. ReadAt(tok, f, p).last = p
    BY <1>4 DEF ReadAt
  <2>2. \A e \in E[p] : e = p
    <3>1. p \in 1..(n + 2)
      BY <1>1
    <3> QED  BY <1>2, <1>4, <3>1 DEF EndsAt
  <2> QED  BY <1>4, <2>1, <2>2
<1>5. CASE tok[p] = Open
  <2>0. p \in 1..(n + 2) /\ p + 2 \in 1..(n + 2) /\ p \in DOMAIN tok /\ p + 2 > p
    BY <1>1
  <2>1. E[p] # {}
    BY <1>5, <2>0 DEF IsSExpression
  <2> DEFINE Above(q, a) == tok[q] = Close /\ (q = a + 1 \/ q - 1 \in E[a + 1])
  <2>2. \A q \in E[p] : q \in p..n /\ \E a \in E[p + 2] : Above(q, a)
    <3> TAKE q \in E[p]
    <3>1. q \in EndsAt(tok, E, p)
      BY <1>2, <2>0
    <3> QED  BY <1>5, <3>1 DEF EndsAt
  <2> HIDE DEF E, n
  <2>3. PICK q \in E[p], a \in E[p + 2] : Above(q, a) /\ q \in p..n
    BY <2>1, <2>2
  <2>4. p + 2 \in 1..n /\ a \in (p + 2)..n
    BY <1>3, <2>0, <2>3
  <2>5. f[p + 2].last = a /\ \A b \in E[p + 2] : b = a
    BY <2>0, <2>3, <2>4 DEF E, n
  <2>6. a + 1 \in (p + 1)..n /\ a + 1 > p /\ a + 1 \in 1..(n + 2)
    <3>1. a + 1 \in 1..(n + 2)
      BY <1>1, <2>0, <2>4
    <3>2. CASE q = a + 1
      BY <1>1, <2>0, <2>3, <2>4, <3>2
    <3>3. CASE q - 1 \in E[a + 1]
      <4>1. a + 1 \in 1..n
        BY <1>3, <3>1, <3>3
      <4> QED  BY <1>1, <2>0, <2>4, <4>1
    <3> QED  BY <2>3, <3>2, <3>3
  <2>7. a + 1 \in 1..n
    BY <1>1, <2>0, <2>6
  <2>8. CASE tok[a + 1] = Close
    <3>1. ReadAt(tok, f, p).last = a + 1
      BY <1>5, <2>5, <2>8 DEF ReadAt
    <3>2. ASSUME NEW e \in E[p] PROVE e = a + 1
      <4>1. Above(e, a)
        BY <2>2, <2>5
      <4>2. E[a + 1] = {}
        BY <1>3, <2>6, <2>8
      <4> QED  BY <4>1, <4>2
    <3> QED  BY <2>4, <2>5, <2>6, <2>8, <3>1, <3>2 DEF E, n
  <2>9. CASE tok[a + 1] # Close
    <3>1. ReadAt(tok, f, p).last = f[a + 1].last + 1
      BY <1>5, <2>5, <2>9 DEF ReadAt
    <3>2. \A e \in E[p] : e \in Int /\ e - 1 \in E[a + 1]
      <4> TAKE e \in E[p]
      <4>1. Above(e, a) /\ e \in p..n
        BY <2>2, <2>5
      <4> QED  BY <2>9, <4>1
    <3>3. \A e \in E[p] : f[a + 1].last + 1 = e
      <4> TAKE e \in E[p]
      <4>1. f[a + 1].last = e - 1 /\ e \in Int
        BY <2>6, <2>7, <3>2 DEF E, n
      <4> QED  BY <4>1
    <3>4. E[a + 1] # {}
      BY <2>1, <3>2
    <3> QED  BY <2>4, <2>5, <2>6, <3>1, <3>3, <3>4 DEF E, n
  <2> QED  BY <2>8, <2>9
<1> QED  BY <1>4, <1>5

(* Hence the equation of the reader has a solution.                        *)
LEMMA ReadExists ==
  ASSUME NEW tok, IsSExpression(tok)
  PROVE  \E f : f = [p \in 1..Len(tok) |-> ReadAt(tok, f, p)] /\ \A p \in 1..Len(tok) : \A e \in Ends(tok)[p] : f[p].last = e
<1> DEFINE n == Len(tok)
           D == 1..n
           E == Ends(tok)
           Solved(k) == \E f : /\ f = [p \in D |-> f[p]]
                               /\ \A p \in D : p + k > n => f[p] = ReadAt(tok, f, p) /\ \A e \in E[p] : f[p].last = e
           S == {k \in Nat : Solved(k)}
<1>1. n \in Nat
  BY LenProperties DEF IsSExpression
<1>2. 0 \in S
  <2> DEFINE f == [p \in D |-> 0]
  <2>1. \A p \in D : ~(p + 0 > n)
    BY <1>1
  <2>2. f = [p \in D |-> f[p]]
    OBVIOUS
  <2> HIDE DEF f, D, E, n
  <2> QED  BY <2>1, <2>2
<1>3. ASSUME NEW k \in Nat, k \in S PROVE k + 1 \in S
  <2>1. PICK f : /\ f = [p \in D |-> f[p]]
                 /\ \A p \in D : p + k > n => f[p] = ReadAt(tok, f, p) /\ \A e \in E[p] : f[p].last = e
    BY <1>3
  <2> DEFINE h == [p \in D |-> IF p + k > n THEN f[p] ELSE ReadAt(tok, f, p)]
  <2>2. h = [p \in D |-> h[p]]
    OBVIOUS
  <2>3. ASSUME NEW p \in D, p + (k + 1) > n
        PROVE  h[p] = ReadAt(tok, f, p) /\ ReadAt(tok, h, p) = ReadAt(tok, f, p) /\ \A e \in E[p] : ReadAt(tok, f, p).last = e
    <3>1. h[p] = ReadAt(tok, f, p)
      BY <2>1
    <3>2. \A q \in D : q > p => q + k > n /\ h[q] = f[q]
      BY <1>1, <2>3
    <3>3. \A q \in 1..Len(tok) : q > p => \A e \in Ends(tok)[q] : f[q].last = e
      BY <2>1, <3>2
    <3> HIDE DEF h, n
    <3>4. /\ \A e \in E[p] : ReadAt(tok, f, p).last = e
          /\ tok[p] = Open => p + 2 \in D /\ f[p + 2].last + 1 \in (p + 1)..n
      <4>1. p \in 1..Len(tok)
        BY DEF n
      <4> QED  BY <3>3, <4>1, ReadsOn DEF n
    <3>5. ReadAt(tok, h, p) = ReadAt(tok, f, p)
      <4>1. CASE tok[p] # Open
        BY <4>1 DEF ReadAt
      <4>2. CASE tok[p] = Open
        <5>1. p + 2 > p /\ h[p + 2] = f[p + 2]
          BY <1>1, <3>2, <3>4, <4>2
        <5>2. f[p + 2].last + 1 \in D /\ f[p + 2].last + 1 > p
          BY <1>1, <3>4, <4>2
        <5>3. h[f[p + 2].last + 1] = f[f[p + 2].last + 1]
          BY <3>2, <5>2
        <5> QED  BY <5>1, <5>3 DEF ReadAt
      <4> QED  BY <4>1, <4>2
    <3> QED  BY <3>1, <3>4, <3>5
  <2> HIDE DEF h
  <2>4. Solved(k + 1)
    <3> HIDE DEF n
    <3> QED  BY <2>2, <2>3
  <2> HIDE DEF Solved
  <2> QED  BY <2>4
<1>4. n \in S
  <2> HIDE DEF S
  <2> QED  BY <1>1, <1>2, <1>3, SetInduction
<1>5. PICK f : /\ f = [p \in D |-> f[p]]
               /\ \A p \in D : p + n > n => f[p] = ReadAt(tok, f, p) /\ \A e \in E[p] : f[p].last = e
  BY <1>4
<1> HIDE DEF n
<1>6. \A p \in D : p + n > n
  BY <1>1
<1>7. f = [p \in D |-> ReadAt(tok, f, p)] /\ \A p \in D : \A e \in E[p] : f[p].last = e
  <2> HIDE DEF D, E
  <2> QED  BY <1>5, <1>6
<1> QED  BY <1>7 DEF n

(* A node whose descendants are nodes of such a set.                       *)
IsNode(x) == \E T : x \in T /\ \A y \in T : y.kids \in Seq(T)

(* No, one or two members of a set are a sequence of them.                 *)
LEMMA ShortSeqs ==
  ASSUME NEW W, NEW a \in W
  PROVE  <<>> \in Seq(W) /\ <<a>> \in Seq(W) /\ \A b \in W : <<a, b>> \in Seq(W)
  OBVIOUS

(* What MakeSubtagTree reads: a node from every token on, that of the line *)
(* from the first, each with children from later ones.                     *)
LEMMA Reader ==
  ASSUME NEW tok, IsSExpression(tok)
  PROVE  \E f : /\ MakeSubtagTree(tok) = f[1].tree /\ 1 \in 1..Len(tok)
                /\ \A p \in 1..Len(tok) : f[p] = ReadAt(tok, f, p) /\ \A e \in Ends(tok)[p] : f[p].last = e
                /\ \A p \in 1..Len(tok) : f[p].tree.kids \in Seq({f[q].tree : q \in 1..Len(tok)})
<1> DEFINE n == Len(tok)
           D == 1..n
           f == CHOOSE f : f = [p \in D |-> ReadAt(tok, f, p)]
           T == {f[p].tree : p \in D}
<1>1. n \in Nat /\ Len(tok) \in Ends(tok)[1]
  BY LenProperties DEF IsSExpression
<1>2. PICK h : h = [p \in D |-> ReadAt(tok, h, p)] /\ \A p \in D : \A e \in Ends(tok)[p] : h[p].last = e
  BY ReadExists
<1>3. f = [p \in D |-> ReadAt(tok, f, p)]
  BY <1>2
<1>4. MakeSubtagTree(tok) = f[1].tree
  BY DEF MakeSubtagTree, ReadAt
<1> HIDE DEF f
<1>5. \A p \in D : f[p] = ReadAt(tok, f, p)
  BY <1>3
<1> DEFINE S == {k \in Nat : \A p \in D : p + k > n => \A e \in Ends(tok)[p] : f[p].last = e}
<1>6. n \in S
  <2>1. 0 \in S
    <3>1. \A p \in D : ~(p + 0 > n)
      BY <1>1
    <3> QED  BY <3>1
  <2>2. ASSUME NEW k \in Nat, k \in S PROVE k + 1 \in S
    <3>1. ASSUME NEW p \in D, p + (k + 1) > n PROVE \A e \in Ends(tok)[p] : f[p].last = e
      <4>1. \A q \in D : q > p => q + k > n
        BY <1>1, <3>1
      <4>2. \A q \in 1..Len(tok) : q > p => \A e \in Ends(tok)[q] : f[q].last = e
        BY <2>2, <4>1
      <4>3. \A e \in Ends(tok)[p] : ReadAt(tok, f, p).last = e
        BY <4>2, ReadsOn
      <4> QED  BY <1>5, <4>3
    <3> QED  BY <3>1
  <2> HIDE DEF S
  <2> QED  BY <1>1, <2>1, <2>2, SetInduction
<1>7. \A p \in D : \A e \in Ends(tok)[p] : f[p].last = e
  <2>1. \A p \in D : p + n > n
    BY <1>1
  <2> QED  BY <1>6, <2>1
<1>8. 1 \in D
  <2>1. n # 0
    <3>1. CASE n = 0
      <4>1. 1 \in 1..(Len(tok) + 2) /\ Ends(tok)[1] = EndsAt(tok, Ends(tok), 1)
        BY <1>1, EndsDefined
      <4>2. 0 \notin 1..Len(tok)
        OBVIOUS
      <4> QED  BY <1>1, <3>1, <4>1, <4>2 DEF EndsAt
    <3> QED  BY <3>1
  <2> QED  BY <1>1, <2>1
<1>9. ASSUME NEW p \in D PROVE f[p].tree.kids \in Seq(T)
  <2>1. CASE tok[p] # Open
    <3>1. ReadAt(tok, f, p).tree = Node(tok[p], <<>>)
      BY <2>1 DEF ReadAt
    <3>2. f[p] = ReadAt(tok, f, p)
      BY <1>5
    <3>3. f[p].tree.kids = <<>>
      BY <3>1, <3>2 DEF Node
    <3> HIDE DEF T
    <3> QED  BY <3>3
  <2>2. CASE tok[p] = Open
    <3>1. p + 2 \in D /\ f[p + 2].last + 1 \in D
      <4>1. p + 2 \in 1..Len(tok) /\ f[p + 2].last + 1 \in (p + 1)..Len(tok)
        BY <1>7, <2>2, ReadsOn
      <4> QED  BY <1>1, <4>1
    <3>2. f[p].tree.kids = <<f[p + 2].tree>> \/ f[p].tree.kids = <<f[p + 2].tree, f[f[p + 2].last + 1].tree>>
      <4>1. \/ ReadAt(tok, f, p).tree = Node(tok[p + 1], <<f[p + 2].tree>>)
            \/ ReadAt(tok, f, p).tree = Node(tok[p + 1], <<f[p + 2].tree, f[f[p + 2].last + 1].tree>>)
        BY <2>2 DEF ReadAt
      <4>2. f[p] = ReadAt(tok, f, p)
        BY <1>5
      <4> QED  BY <4>1, <4>2 DEF Node
    <3>3. f[p + 2].tree \in T /\ f[f[p + 2].last + 1].tree \in T
      BY <3>1
    <3> HIDE DEF T
    <3>4. /\ <<f[p + 2].tree>> \in Seq(T)
          /\ <<f[p + 2].tree, f[f[p + 2].last + 1].tree>> \in Seq(T)
      BY <3>3, ShortSeqs
    <3> QED  BY <3>2, <3>4
  <2> QED  BY <2>1, <2>2
<1>10. \A p \in 1..Len(tok) : f[p].tree.kids \in Seq({f[q].tree : q \in 1..Len(tok)})
  BY <1>9
<1>11. \A p \in 1..Len(tok) : f[p] = ReadAt(tok, f, p) /\ \A e \in Ends(tok)[p] : f[p].last = e
  BY <1>5, <1>7
<1>12. MakeSubtagTree(tok) = f[1].tree /\ 1 \in 1..Len(tok)
  BY <1>4, <1>8
<1> HIDE DEF D, n, T, S
<1> WITNESS f
<1> QED  BY <1>10, <1>11, <1>12, Zenon

(* What is read of an S expression is a node.                              *)
LEMMA NodeRead ==
  ASSUME NEW tok, IsSExpression(tok)
  PROVE  IsNode(MakeSubtagTree(tok))
<1>1. PICK f : /\ MakeSubtagTree(tok) = f[1].tree /\ 1 \in 1..Len(tok)
               /\ \A p \in 1..Len(tok) : f[p].tree.kids \in Seq({f[q].tree : q \in 1..Len(tok)})
  BY Reader
<1> DEFINE T == {f[q].tree : q \in 1..Len(tok)}
<1>2. f[1].tree \in T /\ \A y \in T : y.kids \in Seq(T)
  BY <1>1
<1> QED  BY <1>1, <1>2 DEF IsNode

(* The equation of the levels of a tree.                                   *)
LevelAt(x, f, i) ==
  IF i = 0 THEN <<x>> ELSE FlattenSeq([j \in DOMAIN f[i - 1] |-> f[i - 1][j].kids])

(* It has a solution down to any level.                                    *)
LEMMA LevelsExist ==
  ASSUME NEW x, NEW k \in Nat
  PROVE  \E f : f = [i \in 0..k |-> LevelAt(x, f, i)]
<1> DEFINE Solved(m) == \E f : f = [i \in 0..m |-> f[i]] /\ \A i \in 0..m : f[i] = LevelAt(x, f, i)
           S == {m \in Nat : Solved(m)}
<1>1. 0 \in S
  <2> DEFINE f == [i \in 0..0 |-> <<x>>]
  <2>1. f = [i \in 0..0 |-> f[i]] /\ \A i \in 0..0 : i = 0 /\ f[i] = <<x>>
    OBVIOUS
  <2> HIDE DEF f
  <2>2. \A i \in 0..0 : f[i] = LevelAt(x, f, i)
    BY <2>1 DEF LevelAt
  <2> QED  BY <2>1, <2>2
<1>2. ASSUME NEW m \in Nat, m \in S PROVE m + 1 \in S
  <2>1. PICK f : f = [i \in 0..m |-> f[i]] /\ \A i \in 0..m : f[i] = LevelAt(x, f, i)
    BY <1>2
  <2> DEFINE h == [i \in 0..(m + 1) |-> IF i <= m THEN f[i] ELSE LevelAt(x, f, i)]
  <2>2. h = [i \in 0..(m + 1) |-> h[i]]
    OBVIOUS
  <2>3. ASSUME NEW i \in 0..(m + 1) PROVE h[i] = LevelAt(x, h, i)
    <3>1. h[i] = LevelAt(x, f, i)
      BY <2>1
    <3>2. i # 0 => h[i - 1] = f[i - 1]
      <4>1. i # 0 => i - 1 \in 0..(m + 1) /\ i - 1 <= m
        OBVIOUS
      <4> QED  BY <4>1
    <3> HIDE DEF h
    <3> QED  BY <3>1, <3>2 DEF LevelAt
  <2> HIDE DEF h
  <2>4. Solved(m + 1)
    BY <2>2, <2>3
  <2> HIDE DEF Solved
  <2> QED  BY <2>4
<1>3. k \in S
  <2> HIDE DEF S
  <2> QED  BY <1>1, <1>2, SetInduction
<1>4. PICK f : f = [i \in 0..k |-> f[i]] /\ \A i \in 0..k : f[i] = LevelAt(x, f, i)
  BY <1>3
<1> QED  BY <1>4

(* Every level consists of the children of the one above, from left to     *)
(* right.                                                                  *)
LEMMA Levels ==
  ASSUME NEW x
  PROVE  /\ NodesAt(x, 0) = <<x>>
         /\ \A k \in Nat : NodesAt(x, k + 1) = FlattenSeq([j \in DOMAIN NodesAt(x, k) |-> NodesAt(x, k)[j].kids])
<1> DEFINE at(k) == CHOOSE f : f = [i \in 0..k |-> LevelAt(x, f, i)]
<1>1. ASSUME NEW k \in Nat PROVE NodesAt(x, k) = at(k)[k] /\ \A i \in 0..k : at(k)[i] = LevelAt(x, at(k), i)
  <2>1. at(k) = [i \in 0..k |-> LevelAt(x, at(k), i)]
    BY LevelsExist
  <2>2. NodesAt(x, k) = at(k)[k]
    BY DEF NodesAt, LevelAt
  <2> HIDE DEF at
  <2> QED  BY <2>1, <2>2
<1> HIDE DEF at
<1> DEFINE S == {i \in Nat : \A k \in Nat : i <= k => at(k)[i] = at(i)[i]}
<1>2. 0 \in S
  <2>1. ASSUME NEW k \in Nat PROVE at(k)[0] = <<x>>
    <3>1. 0 \in 0..k
      OBVIOUS
    <3>2. LevelAt(x, at(k), 0) = <<x>>
      BY DEF LevelAt
    <3> QED  BY <1>1, <3>1, <3>2
  <2> QED  BY <2>1
<1>3. ASSUME NEW i \in Nat, i \in S PROVE i + 1 \in S
  <2> SUFFICES ASSUME NEW k \in Nat, i + 1 <= k PROVE at(k)[i + 1] = at(i + 1)[i + 1]
    OBVIOUS
  <2>1. at(k)[i] = at(i)[i] /\ at(i + 1)[i] = at(i)[i]
    BY <1>3
  <2>2. /\ i + 1 \in 0..k /\ i + 1 \in 0..(i + 1) /\ i + 1 # 0 /\ (i + 1) - 1 = i /\ i + 1 \in Nat
    OBVIOUS
  <2>3. at(k)[i + 1] = LevelAt(x, at(k), i + 1) /\ at(i + 1)[i + 1] = LevelAt(x, at(i + 1), i + 1)
    BY <1>1, <2>2
  <2> QED  BY <2>1, <2>2, <2>3 DEF LevelAt
<1>4. Nat \subseteq S
  <2> HIDE DEF S
  <2> QED  BY <1>2, <1>3, SetInduction
<1>5. NodesAt(x, 0) = <<x>>
  <2>1. 0 \in Nat /\ 0 \in 0..0
    OBVIOUS
  <2>2. LevelAt(x, at(0), 0) = <<x>>
    BY DEF LevelAt
  <2> QED  BY <1>1, <2>1, <2>2
<1>6. ASSUME NEW k \in Nat
      PROVE  NodesAt(x, k + 1) = FlattenSeq([j \in DOMAIN NodesAt(x, k) |-> NodesAt(x, k)[j].kids])
  <2>1. k + 1 \in Nat /\ k + 1 \in 0..(k + 1) /\ k + 1 # 0 /\ (k + 1) - 1 = k
    OBVIOUS
  <2>2. NodesAt(x, k + 1) = LevelAt(x, at(k + 1), k + 1)
    BY <1>1, <2>1
  <2>3. at(k + 1)[k] = NodesAt(x, k)
    BY <1>1, <1>4, <2>1
  <2> QED  BY <2>1, <2>2, <2>3 DEF LevelAt
<1> QED  BY <1>5, <1>6

(* Sequences put together are empty if all of them are.                    *)
LEMMA FlattenEmpty ==
  ASSUME NEW W, NEW s \in Seq(Seq(W))
  PROVE  FlattenSeq(s) = <<>> <=> \A i \in 1..Len(s) : s[i] = <<>>
<1> DEFINE S == {n \in Nat : \A i \in 1..Len(s) : i <= n => (Flat(s)[i] = <<>> <=> \A j \in 1..i : s[j] = <<>>)}
<1>1. /\ \A i \in 1..Len(s) : Flat(s)[i] = IF i = 1 THEN s[i] ELSE Flat(s)[i - 1] \o s[i]
      /\ \A i \in 1..Len(s) : Flat(s)[i] \in Seq(W) /\ s[i] \in Seq(W)
      /\ FlattenSeq(s) = IF s = <<>> THEN <<>> ELSE Flat(s)[Len(s)]
      /\ Len(s) \in Nat /\ (s = <<>> <=> Len(s) = 0)
  BY FlatPrefixes
<1>2. 0 \in S
  <2>1. \A i \in 1..Len(s) : ~(i <= 0)
    BY <1>1
  <2> QED  BY <2>1
<1>3. ASSUME NEW n \in Nat, n \in S PROVE n + 1 \in S
  <2>1. ASSUME NEW i \in 1..Len(s), i <= n + 1 PROVE Flat(s)[i] = <<>> <=> \A j \in 1..i : s[j] = <<>>
    <3>1. CASE i = 1
      <4>1. 1..i = {1}
        BY <3>1
      <4> QED  BY <1>1, <3>1, <4>1
    <3>2. CASE i # 1
      <4>1. i - 1 \in 1..Len(s) /\ i - 1 <= n /\ 1..i = 1..(i - 1) \cup {i}
        BY <1>1, <2>1, <3>2
      <4>2. Flat(s)[i - 1] = <<>> <=> \A j \in 1..(i - 1) : s[j] = <<>>
        BY <1>3, <4>1
      <4>3. Flat(s)[i] = Flat(s)[i - 1] \o s[i] /\ Flat(s)[i - 1] \in Seq(W) /\ s[i] \in Seq(W)
        BY <1>1, <3>2, <4>1
      <4>4. \A u, v \in Seq(W) : u \o v = <<>> <=> u = <<>> /\ v = <<>>
        BY ConcatProperties
      <4>5. Flat(s)[i] = <<>> <=> Flat(s)[i - 1] = <<>> /\ s[i] = <<>>
        BY <4>3, <4>4
      <4> QED  BY <4>1, <4>2, <4>5
    <3> QED  BY <3>1, <3>2
  <2> QED  BY <2>1
<1>4. Len(s) \in S
  <2> HIDE DEF S
  <2> QED  BY <1>1, <1>2, <1>3, SetInduction
<1>5. CASE s = <<>>
  <2>1. 1..Len(s) = {}
    BY <1>1, <1>5
  <2> QED  BY <1>1, <1>5, <2>1
<1>6. CASE s # <<>>
  <2>1. Len(s) \in 1..Len(s)
    BY <1>1, <1>6
  <2> QED  BY <1>1, <1>4, <1>6, <2>1
<1> QED  BY <1>5, <1>6

(* The children of nodes, a sequence of sequences.                         *)
LEMMA KidsSeq ==
  ASSUME NEW T, \A w \in T : w.kids \in Seq(T), NEW v \in Seq(T)
  PROVE  /\ DOMAIN v = 1..Len(v) /\ Len(v) \in Nat
         /\ [j \in DOMAIN v |-> v[j].kids] \in Seq(Seq(T)) /\ Len([j \in DOMAIN v |-> v[j].kids]) = Len(v)
<1>1. DOMAIN v = 1..Len(v) /\ Len(v) \in Nat /\ \A j \in 1..Len(v) : v[j].kids \in Seq(T)
  BY LenProperties, ElementOfSeq
<1> DEFINE f == [j \in 1..Len(v) |-> v[j].kids]
<1>2. f = [i \in 1..Len(v) |-> f[i]] /\ \A i \in 1..Len(v) : f[i] \in Seq(T)
  BY <1>1
<1> HIDE DEF f
<1>3. f \in Seq(Seq(T)) /\ Len(f) = Len(v)
  BY <1>1, <1>2, SeqMade
<1> QED  BY <1>1, <1>3 DEF f

(* The levels of a node consist of nodes.                                  *)
LEMMA LevelNodes ==
  ASSUME NEW T, \A w \in T : w.kids \in Seq(T), NEW x \in T
  PROVE  \A k \in Nat : NodesAt(x, k) \in Seq(T)
<1> DEFINE S == {k \in Nat : NodesAt(x, k) \in Seq(T)}
<1>1. 0 \in S
  <2>1. <<x>> \in Seq(T)
    BY ShortSeqs
  <2> QED  BY <2>1, Levels
<1>2. ASSUME NEW k \in Nat, k \in S PROVE k + 1 \in S
  <2>1. NodesAt(x, k) \in Seq(T)
    BY <1>2
  <2>2. FlattenSeq([j \in DOMAIN NodesAt(x, k) |-> NodesAt(x, k)[j].kids]) \in Seq(T)
    BY <2>1, KidsSeq, FlattenType
  <2>3. NodesAt(x, k + 1) \in Seq(T)
    BY <2>2, Levels
  <2> QED  BY <2>3
<1>3. Nat \subseteq S
  <2> HIDE DEF S
  <2> QED  BY <1>1, <1>2, SetInduction
<1> QED  BY <1>3

(* The levels of a node are sequences of nodes; a level without nodes, or  *)
(* without children, is the last.                                          *)
LEMMA LevelTypes ==
  ASSUME NEW x, IsNode(x)
  PROVE  \A k \in Nat :
           /\ \E n \in Nat : DOMAIN NodesAt(x, k) = 1..n /\ n = Len(NodesAt(x, k)) /\ (NodesAt(x, k) = <<>> <=> n = 0)
           /\ NodesAt(x, k + 1) = <<>> <=> \A j \in DOMAIN NodesAt(x, k) : NodesAt(x, k)[j].kids = <<>>
<1>1. PICK T : x \in T /\ \A y \in T : y.kids \in Seq(T)
  BY DEF IsNode
<1>2. ASSUME NEW k \in Nat
      PROVE  /\ \E n \in Nat : DOMAIN NodesAt(x, k) = 1..n /\ n = Len(NodesAt(x, k)) /\ (NodesAt(x, k) = <<>> <=> n = 0)
             /\ NodesAt(x, k + 1) = <<>> <=> \A j \in DOMAIN NodesAt(x, k) : NodesAt(x, k)[j].kids = <<>>
  <2> DEFINE v == NodesAt(x, k)
             s == [j \in DOMAIN v |-> v[j].kids]
  <2>1. v \in Seq(T)
    BY <1>1, LevelNodes
  <2>2. NodesAt(x, k + 1) = FlattenSeq(s)
    BY Levels
  <2> HIDE DEF v
  <2>3. DOMAIN v = 1..Len(v) /\ Len(v) \in Nat /\ s \in Seq(Seq(T)) /\ Len(s) = Len(v)
    BY <1>1, <2>1, KidsSeq
  <2>4. v = <<>> <=> Len(v) = 0
    BY <2>1, EmptySeq
  <2>5. FlattenSeq(s) = <<>> <=> \A j \in 1..Len(v) : s[j] = <<>>
    <3> HIDE DEF s
    <3> QED  BY <2>3, FlattenEmpty
  <2>6. \A j \in DOMAIN v : s[j] = v[j].kids
    OBVIOUS
  <2> HIDE DEF s
  <2>7. NodesAt(x, k + 1) = <<>> <=> \A j \in DOMAIN v : v[j].kids = <<>>
    BY <2>2, <2>3, <2>5, <2>6
  <2> QED  BY <2>3, <2>4, <2>7 DEF v
<1> QED  BY <1>2

(* There are nodes down to that depth, and none below.                     *)
LEMMA EvenLevels ==
  ASSUME NEW x, IsNode(x), NEW d \in 1..MaxDepth,
         \A k \in 0..(d - 2) : \A j \in DOMAIN NodesAt(x, k) : NodesAt(x, k)[j].kids # <<>>
  PROVE  \A k \in 0..(d - 1) : 1 \in DOMAIN NodesAt(x, k)
<1> DEFINE S == {k \in Nat : k <= d - 1 => NodesAt(x, k) # <<>>}
<1>0. d \in Nat /\ d >= 1
  BY DepthAssumption
<1>1. 0 \in S
  BY Levels
<1>2. \A k \in Nat : NodesAt(x, k) # <<>> => 1 \in DOMAIN NodesAt(x, k)
  <2> TAKE k \in Nat
  <2>1. PICK n \in Nat : DOMAIN NodesAt(x, k) = 1..n /\ (NodesAt(x, k) = <<>> <=> n = 0)
    BY LevelTypes
  <2> QED  BY <2>1
<1>3. ASSUME NEW k \in Nat, k \in S, k + 1 <= d - 1 PROVE NodesAt(x, k + 1) # <<>>
  <2>1. k \in 0..(d - 2) /\ k <= d - 1
    BY <1>0, <1>3
  <2>2. 1 \in DOMAIN NodesAt(x, k) /\ NodesAt(x, k)[1].kids # <<>>
    BY <1>2, <1>3, <2>1
  <2> QED  BY <2>2, LevelTypes
<1>4. Nat \subseteq S
  <2>1. \A k \in Nat : k \in S => k + 1 \in S
    BY <1>3
  <2> HIDE DEF S
  <2> QED  BY <1>1, <2>1, SetInduction
<1>5. ASSUME NEW k \in 0..(d - 1) PROVE 1 \in DOMAIN NodesAt(x, k)
  <2>1. k \in Nat /\ k <= d - 1
    BY <1>0
  <2> QED  BY <1>2, <1>4, <2>1
<1> QED  BY <1>5

(* A node has one depth at most.                                           *)
LEMMA OneDepth ==
  ASSUME NEW x, NEW d \in 1..MaxDepth, IsDepth(x, d)
  PROVE  DepthOf(x) = d
<1>1. d \in Nat /\ d >= 1
  BY DepthAssumption
<1>2. DepthOf(x) \in 1..MaxDepth /\ IsDepth(x, DepthOf(x))
  BY DEF DepthOf
<1> DEFINE e == DepthOf(x)
<1> HIDE DEF e
<1>3. ASSUME NEW b \in 1..MaxDepth, NEW c \in 1..MaxDepth, IsDepth(x, b), IsDepth(x, c), b < c PROVE FALSE
  <2>1. b - 1 \in 0..(c - 2)
    BY <1>3, DepthAssumption
  <2> QED  BY <1>3, <2>1 DEF IsDepth
<1>4. e \in 1..MaxDepth /\ IsDepth(x, e)
  BY <1>2 DEF e
<1>5. ~(e < d) /\ ~(d < e)
  BY <1>3, <1>4
<1>6. e = d
  BY <1>1, <1>4, <1>5, DepthAssumption
<1> QED  BY <1>6 DEF e

(* The check of a tree says just that.                                     *)
LEMMA EvenMeans ==
  ASSUME NEW x, IsNode(x), NEW d \in 1..MaxDepth
  PROVE  Even(x) /\ DepthOf(x) = d /\ IsDepth(x, d) <=> EvenTo(x, d)
<1>0. d \in Nat /\ d >= 1 /\ d <= MaxDepth /\ MaxDepth \in Nat
  BY DepthAssumption
<1>1. \A k \in Nat : NodesAt(x, k + 1) = <<>> <=> \A j \in DOMAIN NodesAt(x, k) : NodesAt(x, k)[j].kids = <<>>
  BY LevelTypes
<1>2. d - 1 \in Nat /\ (d - 1) + 1 = d
  BY <1>0
<1>3. ASSUME Even(x), DepthOf(x) = d, IsDepth(x, d) PROVE EvenTo(x, d)
  <2>1. /\ \A k \in 0..(d - 2) : \A j \in DOMAIN NodesAt(x, k) : NodesAt(x, k)[j].kids # <<>>
        /\ NodesAt(x, d) = <<>>
    BY <1>3 DEF Even
  <2>2. \A j \in DOMAIN NodesAt(x, d - 1) : NodesAt(x, d - 1)[j].kids = <<>>
    BY <1>1, <1>2, <2>1
  <2> DEFINE S == {k \in Nat : NodesAt(x, d + k) = <<>>}
  <2>3. 0 \in S
    BY <1>0, <2>1
  <2>4. ASSUME NEW k \in Nat, k \in S PROVE k + 1 \in S
    <3>1. d + k \in Nat /\ d + (k + 1) = (d + k) + 1
      BY <1>0
    <3>2. NodesAt(x, d + k) = <<>>
      BY <2>4
    <3>3. \A j \in DOMAIN NodesAt(x, d + k) : NodesAt(x, d + k)[j].kids = <<>>
      BY <3>2
    <3>4. NodesAt(x, (d + k) + 1) = <<>>
      BY <1>1, <3>1, <3>3
    <3> QED  BY <3>1, <3>4
  <2>5. Nat \subseteq S
    <3> HIDE DEF S
    <3> QED  BY <2>3, <2>4, SetInduction
  <2> SUFFICES ASSUME NEW k \in 0..MaxDepth, NEW j \in DOMAIN NodesAt(x, k)
               PROVE  NodesAt(x, k)[j].kids = <<>> <=> k = d - 1
    BY DEF EvenTo
  <2>6. CASE k < d - 1
    <3>1. k \in 0..(d - 2) /\ k # d - 1
      BY <1>0, <2>6
    <3> QED  BY <2>1, <3>1
  <2>7. CASE k = d - 1
    BY <2>2, <2>7
  <2>8. CASE k > d - 1
    <3>1. k - d \in Nat /\ d + (k - d) = k
      BY <1>0, <2>8
    <3>2. NodesAt(x, d + (k - d)) = <<>>
      BY <2>5, <3>1
    <3>3. NodesAt(x, k) = <<>>
      BY <3>1, <3>2
    <3> QED  BY <3>3
  <2> QED  BY <1>0, <2>6, <2>7, <2>8
<1>4. ASSUME EvenTo(x, d) PROVE Even(x) /\ DepthOf(x) = d /\ IsDepth(x, d)
  <2>1. \A k \in 0..(d - 2) : \A j \in DOMAIN NodesAt(x, k) : NodesAt(x, k)[j].kids # <<>>
    <3> TAKE k \in 0..(d - 2)
    <3>1. k \in 0..MaxDepth /\ k # d - 1
      BY <1>0
    <3> QED  BY <1>4, <3>1 DEF EvenTo
  <2>2. \A j \in DOMAIN NodesAt(x, d - 1) : NodesAt(x, d - 1)[j].kids = <<>>
    <3>1. d - 1 \in 0..MaxDepth
      BY <1>0
    <3> QED  BY <1>4, <3>1 DEF EvenTo
  <2>3. NodesAt(x, d) = <<>>
    BY <1>1, <1>2, <2>2
  <2>4. \A k \in 0..(d - 1) : 1 \in DOMAIN NodesAt(x, k)
    BY <2>1, EvenLevels
  <2>5. IsDepth(x, d)
    <3>1. d - 1 \in 0..(d - 1) /\ \A k \in 0..(d - 2) : k \in 0..(d - 1)
      BY <1>0
    <3> QED  BY <2>1, <2>2, <2>4, <3>1 DEF IsDepth
  <2>6. DepthOf(x) = d
    BY <2>5, OneDepth
  <2> QED  BY <2>1, <2>3, <2>5, <2>6 DEF Even
<1> QED  BY <1>3, <1>4

(* The tree of ROOT: its nodes, the last first.                            *)
ChainAt(f, d) == IF d = 1 THEN Node(0, <<>>) ELSE Node(0, <<f[d - 1]>>)
RootTree(n) == (CHOOSE f : f = [d \in 1..n |-> ChainAt(f, d)])[n]

(* It has one node at every level, so it is as deep as it is made.         *)
LEMMA RootEven ==
  ASSUME NEW n \in 1..MaxDepth
  PROVE  /\ EvenTo(RootTree(n), n) /\ IsNode(RootTree(n))
         /\ \A k \in 0..(n - 1) : Len(NodesAt(RootTree(n), k)) = 1 /\ NodesAt(RootTree(n), k)[1].value = 0
<1>0. n \in Nat /\ n >= 1 /\ n <= MaxDepth /\ MaxDepth \in Nat
  BY DepthAssumption
<1> DEFINE f == CHOOSE f : f = [d \in 1..n |-> ChainAt(f, d)]
           Solved(m) == \E g : g = [d \in 1..n |-> g[d]] /\ \A d \in 1..n : d <= m => g[d] = ChainAt(g, d)
           S == {m \in Nat : Solved(m)}
<1>1. 0 \in S
  <2> DEFINE g == [d \in 1..n |-> 0]
  <2>1. g = [d \in 1..n |-> g[d]] /\ \A d \in 1..n : ~(d <= 0)
    OBVIOUS
  <2> HIDE DEF g
  <2> QED  BY <2>1
<1>2. ASSUME NEW m \in Nat, m \in S PROVE m + 1 \in S
  <2>1. PICK g : g = [d \in 1..n |-> g[d]] /\ \A d \in 1..n : d <= m => g[d] = ChainAt(g, d)
    BY <1>2
  <2> DEFINE h == [d \in 1..n |-> IF d <= m THEN g[d] ELSE ChainAt(g, d)]
  <2>2. h = [d \in 1..n |-> h[d]]
    OBVIOUS
  <2>3. ASSUME NEW d \in 1..n, d <= m + 1 PROVE h[d] = ChainAt(h, d)
    <3>1. h[d] = ChainAt(g, d)
      BY <2>1
    <3>2. d # 1 => h[d - 1] = g[d - 1]
      <4>1. d # 1 => d - 1 \in 1..n /\ d - 1 <= m
        BY <1>0, <2>3
      <4> QED  BY <4>1
    <3> HIDE DEF h
    <3> QED  BY <3>1, <3>2 DEF ChainAt
  <2> HIDE DEF h
  <2>4. Solved(m + 1)
    BY <2>2, <2>3
  <2> HIDE DEF Solved
  <2> QED  BY <2>4
<1>3. n \in S
  <2> HIDE DEF S
  <2> QED  BY <1>0, <1>1, <1>2, SetInduction
<1>4. \E g : g = [d \in 1..n |-> ChainAt(g, d)]
  <2>1. PICK g : g = [d \in 1..n |-> g[d]] /\ \A d \in 1..n : d <= n => g[d] = ChainAt(g, d)
    BY <1>3
  <2>2. \A d \in 1..n : g[d] = ChainAt(g, d)
    BY <1>0, <2>1
  <2> QED  BY <2>1, <2>2
<1>5. f = [d \in 1..n |-> ChainAt(f, d)]
  BY <1>4
<1>6. RootTree(n) = f[n]
  BY DEF RootTree
<1> HIDE DEF f
<1>7. f[1].kids = <<>> /\ (\A d \in 1..n : d # 1 => f[d].kids = <<f[d - 1]>>) /\ \A d \in 1..n : f[d].value = 0
  <2>1. \A d \in 1..n : f[d] = ChainAt(f, d)
    BY <1>5
  <2>2. 1 \in 1..n
    BY <1>0
  <2>3. /\ ChainAt(f, 1).kids = <<>> /\ \A d \in 1..n : d # 1 => ChainAt(f, d).kids = <<f[d - 1]>>
        /\ \A d \in 1..n : ChainAt(f, d).value = 0
    BY DEF ChainAt, Node
  <2> QED  BY <2>1, <2>2, <2>3
<1> DEFINE x == f[n]
<1>8. \A v : DOMAIN <<v>> = {1} /\ <<v>>[1] = v
  OBVIOUS
<1>9. \A v : [j \in DOMAIN <<v>> |-> <<v>>[j].kids] = <<v.kids>>
  <2> TAKE v
  <2>1. <<v.kids>> = [j \in 1..1 |-> v.kids]
    OBVIOUS
  <2>2. 1..1 = {1}
    OBVIOUS
  <2> QED  BY <1>8, <2>1, <2>2
<1> DEFINE G == {k \in Nat : k < n => NodesAt(x, k) = <<f[n - k]>>}
<1>10. 0 \in G
  <2>1. n - 0 = n
    BY <1>0
  <2> QED  BY <2>1, Levels
<1>11. ASSUME NEW k \in Nat, k \in G, k + 1 < n PROVE NodesAt(x, k + 1) = <<f[n - (k + 1)]>>
  <2>1. n - k \in 1..n /\ n - k # 1 /\ (n - k) - 1 = n - (k + 1) /\ k < n
    BY <1>0, <1>11
  <2>2. NodesAt(x, k) = <<f[n - k]>>
    BY <1>11, <2>1
  <2>3. NodesAt(x, k + 1) = FlattenSeq(<<f[n - k].kids>>)
    <3> HIDE DEF x
    <3>1. NodesAt(x, k + 1) = FlattenSeq([j \in DOMAIN NodesAt(x, k) |-> NodesAt(x, k)[j].kids])
      BY Levels
    <3> QED  BY <1>9, <2>2, <3>1
  <2>4. f[n - k].kids = <<f[n - (k + 1)]>>
    BY <1>7, <2>1
  <2>5. <<f[n - (k + 1)]>> \in Seq({f[n - (k + 1)]})
    OBVIOUS
  <2> QED  BY <2>3, <2>4, <2>5, FlattenOne
<1>12. Nat \subseteq G
  <2>1. \A k \in Nat : k \in G => k + 1 \in G
    BY <1>11
  <2> HIDE DEF G
  <2> QED  BY <1>10, <2>1, SetInduction
<1>13. \A k \in Nat : k < n => NodesAt(x, k) = <<f[n - k]>>
  BY <1>12
<1> DEFINE E == {k \in Nat : NodesAt(x, n + k) = <<>>}
<1>14. 0 \in E
  <2>1. n - 1 \in Nat /\ n - 1 < n /\ n - (n - 1) = 1 /\ (n - 1) + 1 = n /\ n + 0 = n
    BY <1>0
  <2>2. NodesAt(x, n - 1) = <<f[1]>>
    BY <1>13, <2>1
  <2>3. NodesAt(x, n) = FlattenSeq(<<f[1].kids>>)
    <3> HIDE DEF x
    <3>1. NodesAt(x, (n - 1) + 1) = FlattenSeq([j \in DOMAIN NodesAt(x, n - 1) |-> NodesAt(x, n - 1)[j].kids])
      BY <2>1, Levels
    <3> QED  BY <1>9, <2>1, <2>2, <3>1
  <2>4. <<>> \in Seq({})
    OBVIOUS
  <2> QED  BY <1>7, <2>1, <2>3, <2>4, FlattenOne
<1>15. ASSUME NEW k \in Nat, k \in E PROVE k + 1 \in E
  <2>1. n + k \in Nat /\ n + (k + 1) = (n + k) + 1
    BY <1>0
  <2>2. NodesAt(x, n + k) = <<>>
    BY <1>15
  <2>3. NodesAt(x, (n + k) + 1) = FlattenSeq([j \in DOMAIN NodesAt(x, n + k) |-> NodesAt(x, n + k)[j].kids])
    BY <2>1, Levels
  <2>4. [j \in DOMAIN <<>> |-> <<>>[j].kids] = <<>>
    OBVIOUS
  <2>5. FlattenSeq(<<>>) = <<>>
    <3>1. <<>> \in Seq(Seq({}))
      OBVIOUS
    <3> QED  BY <3>1, FlatPrefixes
  <2> HIDE DEF x
  <2>6. NodesAt(x, (n + k) + 1) = <<>>
    BY <2>2, <2>3, <2>4, <2>5
  <2> QED  BY <2>1, <2>6
<1>16. Nat \subseteq E
  <2> HIDE DEF E
  <2> QED  BY <1>14, <1>15, SetInduction
<1>17. ASSUME NEW k \in 0..MaxDepth, NEW j \in DOMAIN NodesAt(x, k) PROVE NodesAt(x, k)[j].kids = <<>> <=> k = n - 1
  <2>1. CASE k < n
    <3>1. n - k \in 1..n /\ (n - k = 1 <=> k = n - 1) /\ k \in Nat
      BY <1>0, <2>1
    <3>2. NodesAt(x, k) = <<f[n - k]>>
      BY <1>13, <2>1, <3>1
    <3>3. NodesAt(x, k)[j] = f[n - k]
      BY <1>8, <3>2
    <3>4. \A v : <<v>> # <<>>
      OBVIOUS
    <3> QED  BY <1>7, <3>1, <3>3, <3>4
  <2>2. CASE ~(k < n)
    <3>1. k - n \in Nat /\ n + (k - n) = k
      BY <1>0, <2>2
    <3>2. NodesAt(x, n + (k - n)) = <<>>
      BY <1>16, <3>1
    <3>3. NodesAt(x, k) = <<>>
      BY <3>1, <3>2
    <3> QED  BY <3>3
  <2> QED  BY <2>1, <2>2
<1>18. ASSUME NEW k \in 0..(n - 1) PROVE Len(NodesAt(x, k)) = 1 /\ NodesAt(x, k)[1].value = 0
  <2>1. k \in Nat /\ k < n /\ n - k \in 1..n
    BY <1>0
  <2>2. NodesAt(x, k) = <<f[n - k]>>
    BY <1>13, <2>1
  <2>3. f[n - k].value = 0
    BY <1>7, <2>1
  <2>4. \A v : Len(<<v>>) = 1 /\ <<v>>[1] = v
    OBVIOUS
  <2> HIDE DEF x
  <2> QED  BY <2>2, <2>3, <2>4
<1>19. IsNode(x)
  <2> DEFINE T == {f[d] : d \in 1..n}
  <2>1. x \in T
    BY <1>0
  <2>2. ASSUME NEW d \in 1..n PROVE f[d].kids \in Seq(T)
    <3>1. CASE d = 1
      BY <1>7, <3>1, EmptySeq
    <3>2. CASE d # 1
      <4>1. d - 1 \in 1..n
        BY <1>0, <3>2
      <4>2. f[d - 1] \in T
        BY <4>1
      <4> HIDE DEF T
      <4>3. <<f[d - 1]>> \in Seq(T)
        BY <4>2, ShortSeqs
      <4> QED  BY <1>7, <3>2, <4>3
    <3> QED  BY <3>1, <3>2
  <2>3. \A y \in T : y.kids \in Seq(T)
    BY <2>2
  <2> HIDE DEF T, x
  <2> QED  BY <2>1, <2>3 DEF IsNode
<1> QED  BY <1>6, <1>17, <1>18, <1>19 DEF EvenTo

-----------------------------------------------------------------------------
(* What UnevenRejected says of trees, a depth and a step.                  *)
AllEven(ts) == \A i \in DOMAIN ts : EvenTo(ts[i], DepthOf(ts[1]))
Rejects(ts, d, p) ==
  /\ d > 0 => AllEven(ts) /\ d = DepthOf(ts[1])
  /\ p = "error" /\ d = 0 /\ ts # <<>> => ~AllEven(ts)

(* There is a depth from the check on; the check alone rejects trees.      *)
UInv ==
  /\ \A i \in DOMAIN splits : \E tok : tok = splits[i].tokens /\ IsSExpression(tok) /\ LevelsNumbered(tok)
  /\ pc \in NoTags \cup {"splits"} => depth = 0
  /\ pc = "root" => trees # <<>>
  /\ \E ts, d, p : ts = trees /\ d = depth /\ p = pc /\ Rejects(ts, d, p)

(* The check accepts the trees exactly when every branch of every tree     *)
(* ends at the depth of the first tree.                                    *)
LEMMA CheckMeans ==
  ASSUME NEW ts, ts \in Seq(Range(ts)), ts # <<>>, \A i \in DOMAIN ts : IsNode(ts[i]),
         \A i \in DOMAIN ts : \E d \in 1..MaxDepth : IsDepth(ts[i], d)
  PROVE  (\A i \in DOMAIN ts : Even(ts[i]) /\ DepthOf(ts[i]) = DepthOf(ts[1])) <=> AllEven(ts)
<1>1. 1 \in DOMAIN ts
  OBVIOUS
<1> DEFINE d == DepthOf(ts[1])
<1>2. d \in 1..MaxDepth
  BY <1>1 DEF DepthOf
<1>3. ASSUME NEW i \in DOMAIN ts
      PROVE  Even(ts[i]) /\ DepthOf(ts[i]) = d <=> EvenTo(ts[i], d)
  <2>1. DepthOf(ts[i]) = d => IsDepth(ts[i], d)
    BY DEF DepthOf
  <2> HIDE DEF d
  <2> QED  BY <1>2, <2>1, EvenMeans
<1> HIDE DEF d
<1>4. (\A i \in DOMAIN ts : Even(ts[i]) /\ DepthOf(ts[i]) = d) <=> \A i \in DOMAIN ts : EvenTo(ts[i], d)
  BY <1>3
<1> QED  BY <1>4 DEF AllEven, d

(* The initial states.                                                     *)
LEMMA UInvInit == Init => UInv
<1> SUFFICES ASSUME Init PROVE UInv
  OBVIOUS
<1>1. pc = "smoothing" /\ splits = <<>> /\ trees = <<>> /\ depth = 0
  BY DEF Init, TagsInit
<1>2. Rejects(<<>>, 0, "smoothing")
  BY DEF Rejects
<1> QED  BY <1>1, <1>2 DEF UInv

(* Where neither trees nor depth change, and the step only stops where it  *)
(* may.                                                                    *)
LEMMA UInvKept ==
  ASSUME UInv, UNCHANGED <<splits, trees, depth>>,
         pc' \in NoTags \cup {"splits"} => pc \in NoTags \cup {"splits"}, pc' = "root" => pc = "root",
         pc' = "error" => pc = "error" \/ depth # 0 \/ trees = <<>>
  PROVE  UInv'
<1>1. Rejects(trees, depth, pc)
  BY DEF UInv
<1>2. Rejects(trees, depth, pc')
  BY <1>1 DEF Rejects
<1> QED  BY <1>2 DEF UInv, NoTags

(* The lines that are read are S expressions, numbered level by level.     *)
LEMMA OpenedExpressions ==
  ASSUME job \in Jobs, CanOpen(job.disk["splits"])
  PROVE  \A i \in DOMAIN File("splits") : IsSExpression(File("splits")[i].tokens) /\ LevelsNumbered(File("splits")[i].tokens)
<1>1. "splits" \in Kinds
  BY DEF Kinds
<1>2. PICK file : /\ file.length \in 0..Len(file.dump["splits"]) /\ IsSplitsFile(file.dump.splits)
                  /\ (\A l \in Range(file.dump.splits) : LevelsNumbered(l.tokens))
                  /\ File("splits") = SubSeq(file.dump["splits"], 1, file.length)
  BY <1>1, FileLines
<1> DEFINE f == file.dump["splits"]
           n == file.length
           g == File("splits")
<1>3. n \in 0..Len(f) /\ IsSplitsFile(f) /\ (\A l \in Range(f) : LevelsNumbered(l.tokens)) /\ g = SubSeq(f, 1, n)
  BY <1>2
<1> HIDE DEF f, n, g
<1>4. f \in Seq(Range(f)) /\ \A i \in DOMAIN f : IsSExpression(f[i].tokens) /\ LevelsNumbered(f[i].tokens)
  BY <1>3 DEF IsSplitsFile, Range
<1>5. DOMAIN g = 1..n /\ 1..n \subseteq DOMAIN f /\ \A i \in 1..n : g[i] = f[i]
  BY <1>3, <1>4, FirstLines
<1>6. \A i \in DOMAIN g : IsSExpression(g[i].tokens) /\ LevelsNumbered(g[i].tokens)
  BY <1>4, <1>5
<1> QED  BY <1>6 DEF g

(* While the lines are read, the trees are nodes of some depth.            *)
LEMMA NodesRead ==
  ASSUME IInv, TreesOK, UInv, pc \in {"splits", "root"}
  PROVE  /\ Len(trees) = line - 1 /\ DOMAIN trees = 1..(line - 1) /\ line \in 1..(Len(splits) + 1) /\ Len(splits) \in Nat
         /\ \A i \in DOMAIN trees : IsNode(trees[i]) /\ \E d \in 1..MaxDepth : IsDepth(trees[i], d)
<1>1. /\ trees \in Seq(Range(trees)) /\ Len(tags) = Len(trees) /\ line \in 1..(Len(splits) + 1)
      /\ ReadLines(line - 1) /\ SplitsOK
  BY DEF IInv, TagsOK, TreesOK
<1>2. splits \in Seq(Range(splits)) /\ Len(splits) \in Nat /\ DOMAIN splits = 1..Len(splits)
  BY <1>1, LenProperties DEF SplitsOK
<1>3. Len(trees) = line - 1 /\ DOMAIN trees = 1..(line - 1)
  <2>1. DOMAIN trees = 1..Len(trees)
    BY <1>1, LenProperties
  <2> QED  BY <1>1, <2>1 DEF ReadLines
<1>4. ASSUME NEW i \in DOMAIN trees PROVE IsNode(trees[i]) /\ \E d \in 1..MaxDepth : IsDepth(trees[i], d)
  <2>1. i \in 1..(line - 1) /\ i \in DOMAIN splits
    BY <1>1, <1>2, <1>3
  <2>2. trees[i] = MakeSubtagTree(splits[i].tokens)
    BY <1>1, <2>1 DEF ReadLines
  <2>3. IsSExpression(splits[i].tokens)
    BY <2>1 DEF UInv
  <2>4. Shallow(splits[i].tokens)
    BY <1>1, <2>1 DEF SplitsOK
  <2>5. IsNode(MakeSubtagTree(splits[i].tokens))
    BY <2>3, NodeRead
  <2>6. \E d \in 1..MaxDepth : IsDepth(MakeSubtagTree(splits[i].tokens), d)
    BY <2>4 DEF Shallow
  <2> QED  BY <2>2, <2>5, <2>6
<1> QED  BY <1>1, <1>2, <1>3, <1>4

(* The check of the depths.                                                *)
LEMMA CheckStep ==
  ASSUME IInv, TreesOK, UInv, CheckDepth
  PROVE  UInv'
<1>1. /\ pc = "splits" /\ line > Len(splits) /\ splits # <<>> /\ depth = 0
      /\ UNCHANGED <<splits, trees>>
  BY DEF CheckDepth, UInv
<1>2. /\ Len(trees) = line - 1 /\ DOMAIN trees = 1..(line - 1) /\ line \in 1..(Len(splits) + 1) /\ Len(splits) \in Nat
      /\ \A i \in DOMAIN trees : IsNode(trees[i]) /\ \E d \in 1..MaxDepth : IsDepth(trees[i], d)
  BY <1>1, NodesRead
<1>3. trees \in Seq(Range(trees)) /\ splits \in Seq(Range(splits))
  BY DEF IInv, TagsOK, TreesOK, SplitsOK
<1>4. trees # <<>> /\ 1 \in DOMAIN trees
  <2>1. Len(splits) # 0
    BY <1>1, <1>2, <1>3, EmptySeq
  <2>2. Len(trees) # 0 /\ 1 \in DOMAIN trees
    BY <1>1, <1>2, <2>1
  <2> QED  BY <1>3, <2>2, EmptySeq
<1>5. (\A i \in DOMAIN trees : Even(trees[i]) /\ DepthOf(trees[i]) = DepthOf(trees[1])) <=> AllEven(trees)
  BY <1>2, <1>3, <1>4, CheckMeans
<1>6. DepthOf(trees[1]) \in 1..MaxDepth
  BY <1>2, <1>4 DEF DepthOf
<1>7. CASE AllEven(trees)
  <2>1. depth' = DepthOf(trees[1]) /\ pc' = "root"
    BY <1>5, <1>7 DEF CheckDepth
  <2>2. Rejects(trees, depth', pc')
    BY <1>6, <1>7, <2>1, DepthAssumption DEF Rejects
  <2> QED  BY <1>1, <1>4, <2>1, <2>2 DEF UInv, NoTags
<1>8. CASE ~AllEven(trees)
  <2>1. depth' = depth /\ pc' = "error"
    BY <1>5, <1>8 DEF CheckDepth
  <2>2. Rejects(trees, depth', pc')
    BY <1>1, <1>8, <2>1 DEF Rejects
  <2> QED  BY <1>1, <2>1, <2>2 DEF UInv, NoTags
<1> QED  BY <1>7, <1>8

(* The tree of ROOT does not change what holds.                            *)
LEMMA RootStep ==
  ASSUME IInv, TreesOK, UInv, AddRoot
  PROVE  UInv'
<1>1. /\ pc = "root" /\ pc' = "count" /\ UNCHANGED <<splits, depth>> /\ trees # <<>> /\ depth # 0
      /\ depth \in 0..MaxDepth /\ trees \in Seq(Range(trees)) /\ Rejects(trees, depth, pc)
  BY DEF AddRoot, TreesOK, NoTags, Stopped, UInv, IInv, TagsOK
<1>2. trees' = Append(trees, RootTree(depth))
  BY DEF AddRoot, RootTree, ChainAt
<1>3. depth \in 1..MaxDepth /\ depth > 0
  BY <1>1, DepthAssumption
<1>4. /\ Len(trees') = Len(trees) + 1 /\ trees'[Len(trees) + 1] = RootTree(depth)
      /\ \A i \in 1..Len(trees) : trees'[i] = trees[i]
      /\ DOMAIN trees' = 1..(Len(trees) + 1) /\ DOMAIN trees = 1..Len(trees) /\ Len(trees) \in Nat \ {0}
  BY <1>1, <1>2, AppendProperties, LenProperties, EmptySeq
<1> DEFINE ts == trees'
<1> HIDE DEF ts
<1>5. ts[1] = trees[1]
  <2>1. 1 \in 1..Len(trees)
    BY <1>4
  <2> QED  BY <1>4, <2>1 DEF ts
<1>6. AllEven(trees) /\ depth = DepthOf(trees[1])
  BY <1>1, <1>3 DEF Rejects
<1>7. ASSUME NEW i \in DOMAIN ts PROVE EvenTo(ts[i], DepthOf(ts[1]))
  <2>1. CASE i \in 1..Len(trees)
    <3>1. ts[i] = trees[i] /\ i \in DOMAIN trees
      BY <1>4, <2>1 DEF ts
    <3> QED  BY <1>5, <1>6, <3>1 DEF AllEven
  <2>2. CASE i = Len(trees) + 1
    <3>1. ts[i] = RootTree(depth)
      BY <1>4, <2>2 DEF ts
    <3>2. EvenTo(RootTree(depth), depth)
      BY <1>3, RootEven
    <3> QED  BY <1>5, <1>6, <3>1, <3>2
  <2> QED  BY <1>4, <2>1, <2>2 DEF ts
<1>8. Rejects(ts, depth, "count")
  BY <1>5, <1>6, <1>7 DEF Rejects, AllEven
<1> QED  BY <1>1, <1>8 DEF UInv, NoTags, ts

(* The other steps.                                                        *)
LEMMA UInvNext == IInv /\ TInv /\ UInv /\ [Next]_vars => UInv'
<1> SUFFICES ASSUME IInv, TInv, UInv, [Next]_vars PROVE UInv'
  OBVIOUS
<1>0. TreesOK /\ pc \in Steps
  BY DEF TInv
<1>1. CASE UNCHANGED vars
  BY <1>1, UInvKept DEF vars, tagVars
<1>2. CASE LoadsNoTags
  <2>1. UNCHANGED <<splits, trees, depth>>
    BY <1>2, Moves DEF tagVars
  <2>2. pc \in NoTags => trees = <<>>
    <3>1. trees \in Seq(Range(trees)) /\ Len(tags) = Len(trees) /\ (pc \in NoTags => tags = <<>>)
      BY <1>0 DEF IInv, TagsOK, TreesOK
    <3> QED  BY <3>1, EmptySeq
  <2>3. /\ pc' \in NoTags \cup {"splits"} => pc \in NoTags \cup {"splits"}
        /\ pc' # "root"
        /\ pc' = "error" => pc \notin {"splits"} \cup Stopped
    BY <1>2, Moves DEF NoTags, Stopped
  <2>4. pc' = "error" => depth # 0 \/ trees = <<>>
    BY <1>0, <2>2, <2>3 DEF TreesOK
  <2> QED  BY <2>1, <2>3, <2>4, UInvKept
<1>3. CASE Starting("splits") /\ StartSplits(File("splits"))
  <2>1. pc = "worded" /\ pc' = "splits" /\ splits' = File("splits") /\ UNCHANGED <<trees, depth>>
    BY <1>3 DEF Starting, Starts, LexiconRead, StartSplits
  <2>2. \A i \in DOMAIN File("splits") : IsSExpression(File("splits")[i].tokens) /\ LevelsNumbered(File("splits")[i].tokens)
    <3>1. job \in Jobs /\ CanOpen(job.disk["splits"])
      BY <1>3 DEF IInv, StageOK, Starting
    <3> QED  BY <3>1, OpenedExpressions
  <2>3. depth = 0 /\ Rejects(trees, depth, pc)
    BY <2>1 DEF UInv, NoTags
  <2>4. Rejects(trees, depth, pc')
    BY <2>1, <2>3 DEF Rejects
  <2> QED  BY <2>1, <2>2, <2>3, <2>4 DEF UInv, NoTags
<1>4. CASE LoadLine
  <2>1. pc = "splits" /\ pc' = pc /\ UNCHANGED <<splits, depth>> /\ depth = 0
    BY <1>4 DEF LoadLine, UInv
  <2>2. \A ts : Rejects(ts, 0, "splits")
    BY DEF Rejects
  <2> QED  BY <2>1, <2>2 DEF UInv, NoTags
<1>5. CASE CheckNothing
  <2>1. pc' = "undefined" /\ UNCHANGED <<splits, trees, depth>>
    BY <1>5 DEF CheckNothing, tagVars
  <2> QED  BY <2>1, UInvKept DEF NoTags
<1>6. CASE CheckDepth
  BY <1>0, <1>6, CheckStep
<1>7. CASE AddRoot
  BY <1>0, <1>7, RootStep
<1>8. CASE CountSubtags
  <2>1. pc' = "tagged" /\ UNCHANGED <<splits, trees, depth>>
    BY <1>8 DEF CountSubtags
  <2> QED  BY <2>1, UInvKept DEF NoTags
<1> QED  BY <1>1, <1>2, <1>3, <1>4, <1>5, <1>6, <1>7, <1>8 DEF Next, LoadsNoTags, LoadSplits, TagsNext

(* The depths are those that the check has found.                          *)
LEMMA DepthsInvariance == Spec => []UInv
<1>1. Spec => []IInv /\ []TInv
  BY Invariance, TypeInvariance, PTL
<1> QED  BY <1>1, UInvInit, UInvNext, PTL DEF Spec

(* Loading fails on trees whose branches do not all have the depth of the  *)
(* first, and on no others: checkDepth compares a tree with its own first  *)
(* branch, and only the depths of the first branches with each other, yet  *)
(* no table is ever made by a branch that is too short.                    *)
THEOREM DepthsChecked == Spec => []UnevenRejected
<1>1. UInv => UnevenRejected
  <2> SUFFICES ASSUME UInv PROVE UnevenRejected
    OBVIOUS
  <2>1. Rejects(trees, depth, pc)
    BY DEF UInv
  <2> QED  BY <2>1 DEF Rejects, AllEven, EvenTo, UnevenRejected
<1> QED  BY <1>1, DepthsInvariance, PTL

-----------------------------------------------------------------------------
(* A model that is whole in one directory is the one whose files are       *)
(* opened.                                                                 *)
LEMMA WholeOpened ==
  ASSUME job \in Jobs, NEW d, Whole(d), NEW kind \in Kinds
  PROVE  CanOpen(job.disk[kind]) /\ Opened(job.disk[kind]) = [dump |-> d, length |-> Len(d[kind])]
<1> DEFINE files == job.disk[kind]
           local == {"text", "gzip"}
           all == [dump |-> d, length |-> Len(d[kind])]
<1>1. DOMAIN files \subseteq Range(Places)
  BY JobsAssumption
<1>2. /\ DOMAIN Places = 1..4
      /\ Places[1] = "text" /\ Places[2] = "gzip" /\ Places[3] = "sharedText" /\ Places[4] = "sharedGzip"
      /\ Range(Places) = {"text", "gzip", "sharedText", "sharedGzip"}
  BY DEF Places, Range
<1>3. \/ DOMAIN files \cap local # {} /\ \A place \in DOMAIN files \cap local : files[place] = all
      \/ /\ DOMAIN files \cap (Range(Places) \ local) # {}
         /\ \A place \in DOMAIN files \cap (Range(Places) \ local) : files[place] = all
         /\ DOMAIN files \cap local = {}
  BY DEF Whole, From
<1> HIDE DEF files, all
<1>4. CanOpen(files)
  BY <1>3 DEF CanOpen
<1>5. PICK i \in DOMAIN Places :
        /\ Places[i] \in DOMAIN files /\ \A j \in 1..(i - 1) : Places[j] \notin DOMAIN files
        /\ Opened(files) = files[Places[i]]
  BY <1>1, <1>4, OpenedFile
<1>6. i \in {1, 2, 3, 4} /\ 1 \in DOMAIN Places /\ 2 \in DOMAIN Places
  BY <1>2
<1>7. CASE i \in {1, 2}
  <2>1. Places[i] \in DOMAIN files \cap local
    BY <1>2, <1>5, <1>7
  <2> QED  BY <1>3, <1>4, <1>5, <2>1 DEF files, all
<1>8. CASE i \in {3, 4}
  <2>1. 1 \in 1..(i - 1) /\ 2 \in 1..(i - 1)
    BY <1>8
  <2>2. "text" \notin DOMAIN files /\ "gzip" \notin DOMAIN files
    BY <1>2, <1>5, <2>1
  <2>3. Places[i] \in DOMAIN files \cap (Range(Places) \ local)
    BY <1>2, <1>5, <1>8
  <2> QED  BY <1>3, <1>4, <1>5, <2>2, <2>3 DEF files, all
<1> QED  BY <1>6, <1>7, <1>8

(* All lines of a file are the file.                                       *)
LEMMA AllLines ==
  ASSUME NEW T, NEW lines \in Seq(T)
  PROVE  SubSeq(lines, 1, Len(lines)) = lines
<1>1. Len(lines) \in Nat /\ Len(lines) \in 0..Len(lines) /\ DOMAIN lines = 1..Len(lines)
  BY LenProperties
<1> DEFINE s == SubSeq(lines, 1, Len(lines))
<1>2. s \in Seq(T) /\ Len(s) = Len(lines) /\ \A i \in 1..Len(lines) : s[i] = lines[i]
  BY <1>1, FirstLines
<1> HIDE DEF s
<1>3. \A i \in 1..Len(s) : s[i] = lines[i]
  BY <1>2
<1> QED  BY <1>2, <1>3, SeqEqual DEF s

(* So its lines are read.                                                  *)
LEMMA WholeFile ==
  ASSUME job \in Jobs, NEW d, Whole(d), NEW kind \in Kinds
  PROVE  CanOpen(job.disk[kind]) /\ File(kind) = d[kind] /\ d.words \in Seq(Range(d.words))
<1>1. CanOpen(job.disk[kind]) /\ Opened(job.disk[kind]) = [dump |-> d, length |-> Len(d[kind])]
  BY WholeOpened
<1>2. PICK place \in DOMAIN job.disk[kind] : Opened(job.disk[kind]) = job.disk[kind][place]
  <2>1. DOMAIN job.disk[kind] \subseteq Range(Places)
    BY JobsAssumption
  <2> QED  BY <1>1, <2>1, OpenedFile
<1>3. /\ IsSplitsFile(d.splits) /\ d.words \in Seq(Range(d.words))
      /\ d.lexicon \in Seq(Range(d.lexicon)) /\ d.grammar \in Seq(GrammarLine)
  <2>1. job.disk[kind][place].dump = d
    BY <1>1, <1>2
  <2> QED  BY <2>1, JobsAssumption
<1>4. \E T : d[kind] \in Seq(T)
  <2>1. d.splits \in Seq(Range(d.splits))
    BY <1>3 DEF IsSplitsFile
  <2> QED  BY <1>3, <2>1 DEF Kinds
<1>5. SubSeq(d[kind], 1, Len(d[kind])) = d[kind]
  BY <1>4, AllLines
<1> QED  BY <1>1, <1>3, <1>5 DEF File

(* The files that have been read at a step are those of a model.           *)
Unread == NoTags \cup {"splits", "root", "count", "tagged"}
Loads(d) ==
  /\ pc \notin {"smoothing", "words", "error"} => words = FoldLeft(AddWord, <<>>, d.words)
  /\ splits \in {<<>>, d.splits} /\ lexicon \in {<<>>, d.lexicon} /\ grammar \in {<<>>, d.grammar}
  /\ pc \notin NoTags \cup Stopped => splits = d.splits
  /\ pc \notin Unread \cup Stopped => lexicon = d.lexicon
  /\ pc \notin Early \cup Stopped => grammar = d.grammar
  /\ m1 # <<>> => splits = d.splits /\ lexicon = d.lexicon /\ grammar = d.grammar

(* Where the steps lead that start with no file.                           *)
Ahead ==
  \/ pc' = "error"
  \/ pc' = "undefined" /\ pc \notin {"smoothing", "words", "error"}
  \/ pc = "smoothing" /\ pc' = "words"
  \/ pc \in {"splits", "root", "count"} /\ pc' \in {"splits", "root", "count", "tagged"}
  \/ pc = "lexicon" /\ pc' = "lexicon"
  \/ pc \notin Early \cup Stopped /\ pc' \notin Early \cup Stopped

(* They leave the files as they are.                                       *)
LEMMA LoadsKept ==
  ASSUME NEW d, Loads(d), Ahead, UNCHANGED <<words, splits, lexicon, grammar>>,
         m1' = m1 \/ pc \notin Early \cup Stopped
  PROVE  Loads(d)'
<1>1. pc' \notin {"smoothing", "words", "error"} => pc \notin {"smoothing", "words", "error"}
  BY DEF Ahead, Early, Stopped
<1>2. pc' \notin NoTags \cup Stopped => pc \notin NoTags \cup Stopped
  BY DEF Ahead, Early, Stopped, NoTags
<1>3. pc' \notin Unread \cup Stopped => pc \notin Unread \cup Stopped
  BY DEF Ahead, Early, Stopped, NoTags, Unread
<1>4. pc' \notin Early \cup Stopped => pc \notin Early \cup Stopped
  BY DEF Ahead, Early, Stopped
<1>5. pc \notin Early \cup Stopped => splits = d.splits /\ lexicon = d.lexicon /\ grammar = d.grammar
  BY DEF Loads, Early, Stopped, NoTags, Unread
<1> QED  BY <1>1, <1>2, <1>3, <1>4, <1>5 DEF Loads

(* The steps that start with no file.                                      *)
LEMMA OtherFilesKept ==
  ASSUME SetSmoothing \/ Missing \/ (LoadSplits /\ TagsNext) \/ (LoadModel /\ ModelNext)
           \/ GenerateCoarseModels \/ GenerateScalingFactors \/ MakeIdLists \/ SetTerminals
  PROVE  /\ Ahead /\ UNCHANGED <<words, splits, lexicon, grammar>>
         /\ m1' = m1 \/ pc \notin Early \cup Stopped
<1>1. CASE SetSmoothing
  BY <1>1 DEF SetSmoothing, tagVars, modelVars, projectorVars, Ahead
<1>2. CASE Missing
  BY <1>2 DEF Missing, tagVars, modelVars, projectorVars, Ahead
<1>3. CASE LoadSplits /\ TagsNext
  <2>1. UNCHANGED <<words, lexicon, grammar, m1>>
    BY <1>3 DEF LoadSplits, modelVars, projectorVars
  <2>2. CASE LoadLine
    BY <2>1, <2>2 DEF LoadLine, Ahead
  <2>3. CASE CheckNothing
    BY <2>1, <2>3 DEF CheckNothing, tagVars, Ahead
  <2>4. CASE CheckDepth
    BY <2>1, <2>4 DEF CheckDepth, Ahead
  <2>5. CASE AddRoot
    BY <2>1, <2>5 DEF AddRoot, Ahead
  <2>6. CASE CountSubtags
    BY <2>1, <2>6 DEF CountSubtags, Ahead
  <2> QED  BY <1>3, <2>2, <2>3, <2>4, <2>5, <2>6 DEF TagsNext
<1>4. CASE LoadModel /\ ModelNext
  <2>1. UNCHANGED splits
    BY <1>4 DEF LoadModel, tagVars
  <2>2. m1' = m1
    BY <1>4 DEF LoadModel, StartProjection, projectorVars
  <2>3. UNCHANGED <<words, lexicon, grammar>>
    BY <1>4 DEF ModelNext, LoadEntry, LoadRule, SkipSelfLoop, RejectLine, LoadOutside, EndGrammar, modelVars
  <2>4. Ahead
    BY <1>4 DEF ModelNext, LoadEntry, LoadRule, SkipSelfLoop, RejectLine, LoadOutside, EndGrammar, Ahead, Early, Stopped
  <2> QED  BY <2>1, <2>2, <2>3, <2>4
<1>5. CASE GenerateCoarseModels
  <2>1. UNCHANGED <<words, splits, lexicon, grammar>>
    BY <1>5 DEF GenerateCoarseModels, tagVars, modelVars
  <2>2. pc \in {"loaded", "iterate"} /\ pc' \in {"loaded", "iterate"}
    BY <1>5 DEF GenerateCoarseModels, ProjectorNext, MakeTransitions, Iterate, ProjectLevel, ProjectM1
  <2> QED  BY <2>1, <2>2 DEF Ahead, Early, Stopped
<1>6. CASE GenerateScalingFactors
  <2>1. UNCHANGED <<words, splits, lexicon, grammar>>
    BY <1>6 DEF GenerateScalingFactors, tagVars, modelVars
  <2>2. pc \in {"loaded", "iterate"} /\ pc' \in {"iterate", "loaded", "scaled", "error"}
    BY <1>6 DEF GenerateScalingFactors, ScalingNext, CountForFactors, MakeTransitions, MakeMax, Counted,
                MakeGeometric, MakeHarmonic, UnknownStrategy, AddFactors
  <2> QED  BY <2>1, <2>2 DEF Ahead, Early, Stopped
<1>7. CASE MakeIdLists
  BY <1>7 DEF MakeIdLists, tagVars, modelVars, projectorVars, Ahead, Early, Stopped
<1>8. CASE SetTerminals
  BY <1>8 DEF SetTerminals, tagVars, modelVars, projectorVars, Ahead, Early, Stopped
<1> QED  BY <1>1, <1>2, <1>3, <1>4, <1>5, <1>6, <1>7, <1>8

(* A step with a file reads that of the model.                             *)
LEMMA LoadsNext ==
  ASSUME IInv, TInv, NEW d, Whole(d), Loads(d), [Next]_vars
  PROVE  Loads(d)'
<1>0. job \in Jobs /\ (pc \in Early => m1 = <<>>)
  BY DEF IInv, StageOK, TInv, ProjectionOK
<1>1. CASE UNCHANGED vars
  BY <1>1 DEF vars, tagVars, modelVars, projectorVars, Loads, NoTags, Unread, Early, Stopped
<1>2. CASE \/ SetSmoothing \/ Missing \/ (LoadSplits /\ TagsNext) \/ (LoadModel /\ ModelNext)
           \/ GenerateCoarseModels \/ GenerateScalingFactors \/ MakeIdLists \/ SetTerminals
  BY <1>2, LoadsKept, OtherFilesKept
<1>3. CASE LoadWords
  <2>1. pc = "words" /\ pc' = "worded" /\ words' = FoldLeft(AddWord, <<>>, File("words"))
        /\ UNCHANGED <<splits, lexicon, grammar, m1>>
    BY <1>3 DEF LoadWords, Starting, Starts, LexiconRead, tagVars, projectorVars
  <2>2. File("words") = d.words
    BY <1>0, WholeFile DEF Kinds
  <2> QED  BY <1>0, <2>1, <2>2 DEF Loads, NoTags, Unread, Early, Stopped
<1>4. CASE LoadSplits /\ Starting("splits") /\ StartSplits(File("splits"))
  <2>1. pc = "worded" /\ pc' = "splits" /\ splits' = File("splits") /\ UNCHANGED <<words, lexicon, grammar, m1>>
    BY <1>4 DEF LoadSplits, Starting, Starts, LexiconRead, StartSplits, modelVars, projectorVars
  <2>2. File("splits") = d.splits
    BY <1>0, WholeFile DEF Kinds
  <2>3. m1 = <<>>
    BY <1>0, <2>1 DEF Early
  <2> QED  BY <2>1, <2>2, <2>3 DEF Loads, NoTags, Unread, Early, Stopped
<1>5. CASE LoadModel /\ Starting("lexicon") /\ StartLexicon(File("lexicon"))
  <2>1. pc = "tagged" /\ pc' = "lexicon" /\ lexicon' = File("lexicon") /\ UNCHANGED <<words, splits, grammar, m1>>
    BY <1>5 DEF LoadModel, Starting, Starts, LexiconRead, StartLexicon, tagVars, projectorVars
  <2>2. File("lexicon") = d.lexicon
    BY <1>0, WholeFile DEF Kinds
  <2>3. m1 = <<>>
    BY <1>0, <2>1 DEF Early
  <2> QED  BY <2>1, <2>2, <2>3 DEF Loads, NoTags, Unread, Early, Stopped
<1>6. CASE LoadModel /\ Starting("grammar") /\ StartGrammar(File("grammar"))
  <2>1. pc = "lexicon" /\ pc' = "grammar" /\ grammar' = File("grammar") /\ UNCHANGED <<words, splits, lexicon, m1>>
    BY <1>6 DEF LoadModel, Starting, Starts, LexiconRead, StartGrammar, tagVars, projectorVars
  <2>2. File("grammar") = d.grammar
    BY <1>0, WholeFile DEF Kinds
  <2>3. m1 = <<>>
    BY <1>0, <2>1 DEF Early
  <2> QED  BY <2>1, <2>2, <2>3 DEF Loads, NoTags, Unread, Early, Stopped
<1> QED  BY <1>1, <1>2, <1>3, <1>4, <1>5, <1>6 DEF Next, LoadSplits, LoadModel

-----------------------------------------------------------------------------
(* The trees are those of the lines of the splits file and that of ROOT,   *)
(* and their subtags are counted.                                          *)
Planted ==
  /\ Numbered /\ Len(trees) = Len(splits) + 1
  /\ \A i \in DOMAIN splits : trees[i] = MakeSubtagTree(splits[i].tokens)
  /\ trees[Len(splits) + 1] = RootTree(depth)
CountsOf(ts, n) == [t \in DOMAIN ts |-> [l \in 0..(n - 1) |-> Len(NodesAt(ts[t], l))]]
CInv ==
  /\ pc \notin NoTags \cup {"splits", "root"} \cup Stopped => Planted
  /\ pc \notin NoTags \cup {"splits", "root", "count"} \cup Stopped => numSub = CountsOf(trees, depth)

(* They are so from AddRoot and CountSubtags on.                           *)
LEMMA CInvNext == IInv /\ TInv /\ TInv' /\ CInv /\ [Next]_vars => CInv'
<1> SUFFICES ASSUME IInv, TInv, TInv', CInv, [Next]_vars PROVE CInv'
  OBVIOUS
<1>1. CASE UNCHANGED <<pc, tagVars>>
  BY <1>1 DEF tagVars, CInv, Planted, Numbered, RootTag, NoTags, Stopped
<1>2. CASE LoadsNoTags
  <2>1. UNCHANGED tagVars /\ (pc' \notin NoTags \cup Stopped => pc \notin NoTags \cup {"splits", "root", "count"} \cup Stopped)
    BY <1>2, Moves DEF NoTags, Stopped
  <2> QED  BY <2>1 DEF tagVars, CInv, Planted, Numbered, RootTag, NoTags, Stopped
<1>3. CASE (Starting("splits") /\ StartSplits(File("splits"))) \/ LoadLine \/ CheckNothing \/ CheckDepth
  <2>1. pc' \in {"splits", "undefined", "root", "error"}
    BY <1>3 DEF StartSplits, LoadLine, CheckNothing, CheckDepth
  <2> QED  BY <2>1 DEF CInv, NoTags, Stopped
<1>4. CASE AddRoot
  <2>1. /\ pc = "root" /\ pc' = "count" /\ trees' = Append(trees, RootTree(depth)) /\ UNCHANGED <<splits, depth>>
        /\ tags' = AddWord(tags, "ROOT")
    BY <1>4 DEF AddRoot, RootTree, ChainAt
  <2>2. /\ trees \in Seq(Range(trees)) /\ splits \in Seq(Range(splits)) /\ Len(tags) = Len(trees)
        /\ line = Len(splits) + 1 /\ ReadLines(line - 1)
    BY <2>1 DEF IInv, TagsOK, TInv, TreesOK, SplitsOK
  <2>3. Len(splits) \in Nat /\ DOMAIN splits = 1..Len(splits) /\ line - 1 = Len(splits)
    BY <2>2, LenProperties
  <2>4. Len(trees) = Len(splits) /\ \A i \in 1..Len(splits) : trees[i] = MakeSubtagTree(splits[i].tokens)
    BY <2>2, <2>3 DEF ReadLines
  <2>5. /\ Len(trees') = Len(trees) + 1 /\ trees'[Len(trees) + 1] = RootTree(depth)
        /\ \A i \in 1..Len(trees) : trees'[i] = trees[i]
    BY <2>1, <2>2, AppendProperties
  <2>6. Numbered'
    BY <2>1 DEF TInv, TreesOK
  <2>7. Planted'
    BY <2>1, <2>3, <2>4, <2>5, <2>6 DEF Planted
  <2> QED  BY <2>1, <2>7 DEF CInv
<1>5. CASE CountSubtags
  <2>1. pc = "count" /\ pc' = "tagged" /\ UNCHANGED <<splits, tags, trees, depth>> /\ numSub' = CountsOf(trees, depth)
    BY <1>5 DEF CountSubtags, CountsOf
  <2>2. Planted
    BY <2>1 DEF CInv, NoTags, Stopped
  <2>3. Planted'
    BY <2>1, <2>2 DEF Planted, Numbered, RootTag
  <2> QED  BY <2>1, <2>3 DEF CInv
<1> QED  BY <1>1, <1>2, <1>3, <1>4, <1>5 DEF Next, LoadsNoTags, LoadSplits, TagsNext, vars

-----------------------------------------------------------------------------
(* The tags and subtags that a model names are there.                      *)
LEMMA LeavesCounted ==
  ASSUME IInv, TInv, UInv, Planted, numSub = CountsOf(trees, depth), depth # 0,
         NEW d, splits = d.splits, NEW name, NEW n \in Leaves(d, name)
  PROVE  TagId(name) \in TagIds /\ TagId(name) # 0 /\ n = numSub[TagId(name)][Fine] /\ n \in Nat
<1>1. /\ trees \in Seq(Range(trees)) /\ splits \in Seq(Range(splits)) /\ tags \in Seq(Range(tags))
      /\ depth \in 1..MaxDepth /\ Len(tags) = Len(trees)
  BY DepthAssumption DEF IInv, TagsOK, TInv, TreesOK, SplitsOK
<1>2. /\ Len(splits) \in Nat /\ DOMAIN splits = 1..Len(splits)
      /\ DOMAIN trees = 1..(Len(splits) + 1) /\ DOMAIN tags = 1..(Len(splits) + 1)
      /\ RootTag = Len(splits) + 1 /\ tags[RootTag] = "ROOT"
      /\ \A i \in DOMAIN splits : tags[i] = splits[i].name /\ trees[i] = MakeSubtagTree(splits[i].tokens)
      /\ trees[Len(splits) + 1] = RootTree(depth)
  BY <1>1, LenProperties DEF Planted, Numbered, RootTag
<1>3. depth = DepthOf(trees[1])
  BY <1>1 DEF UInv, Rejects
<1>4. ASSUME NEW t \in DOMAIN trees PROVE numSub[t][Fine] = Len(NodesAt(trees[t], depth - 1))
  <2>1. Fine \in 0..(depth - 1) /\ Fine = depth - 1
    BY <1>1, DepthAssumption DEF Fine
  <2> QED  BY <2>1 DEF CountsOf
<1>5. ASSUME NEW t \in DOMAIN trees, tags[t] = name PROVE TagId(name) = t /\ t \in TagIds /\ t # 0
  <2>1. t \in DOMAIN tags /\ t # 0
    BY <1>2
  <2>2. Numbered
    BY DEF Planted
  <2> QED  BY <1>5, <2>1, <2>2, TagFound DEF TagIds
<1>6. CASE name = "ROOT" /\ n = 1
  <2>1. RootTag \in DOMAIN trees /\ trees[RootTag] = RootTree(depth)
    BY <1>2
  <2>2. Len(NodesAt(RootTree(depth), depth - 1)) = 1
    <3>1. depth - 1 \in 0..(depth - 1)
      BY <1>1, DepthAssumption
    <3> QED  BY <1>1, <3>1, RootEven
  <2> QED  BY <1>2, <1>4, <1>5, <1>6, <2>1, <2>2
<1>7. ASSUME NEW i \in DOMAIN splits, splits[i].name = name,
             n = Len(NodesAt(MakeSubtagTree(splits[i].tokens), DepthOf(MakeSubtagTree(splits[1].tokens)) - 1))
      PROVE  TagId(name) \in TagIds /\ TagId(name) # 0 /\ n = numSub[TagId(name)][Fine] /\ n \in Nat
  <2>1. i \in DOMAIN trees /\ 1 \in DOMAIN splits /\ tags[i] = name
    BY <1>2, <1>7
  <2>2. n = Len(NodesAt(trees[i], depth - 1))
    BY <1>2, <1>3, <1>7, <2>1
  <2>3. n \in Nat
    <3>1. IsNode(trees[i])
      BY <1>2, <2>1, NodeRead DEF UInv
    <3>2. depth - 1 \in Nat
      BY <1>1, DepthAssumption
    <3> QED  BY <2>2, <3>1, <3>2, LevelTypes
  <2> QED  BY <1>4, <1>5, <2>1, <2>2, <2>3
<1> QED  BY <1>6, <1>7 DEF Leaves

(* A line of the lexicon of a sound model is skipped or added.             *)
LEMMA SoundEntry ==
  ASSUME IInv, TInv, LInv, UInv, CInv, NEW d, Whole(d), Loads(d), Sound(d), LoadEntry
  PROVE  pc' = pc
<1>1. /\ pc = "lexicon" /\ line <= Len(lexicon) /\ lexicon = d.lexicon /\ splits = d.splits
      /\ words = FoldLeft(AddWord, <<>>, d.words)
      /\ Planted /\ numSub = CountsOf(trees, depth) /\ depth # 0
  BY DEF LoadEntry, Loads, CInv, TInv, TreesOK, NoTags, Unread, Stopped
<1>2. lexicon[line] \in Range(d.lexicon)
  <2>1. lexicon \in Seq(Range(lexicon)) /\ line \in Nat \ {0}
    BY <1>1 DEF LInv, IInv, StageOK
  <2>2. line \in DOMAIN lexicon
    BY <1>1, <2>1, LenProperties
  <2> QED  BY <1>1, <2>2 DEF Range
<1>3. Range(words) = Range(d.words)
  <2>1. d.words \in Seq(Range(d.words))
    BY WholeFile DEF IInv, StageOK, Kinds
  <2> QED  BY <1>1, <2>1, WordTable
<1> DEFINE l == lexicon[line]
           e == <<TagId(l.tag), WordId(l.word)>>
<1>4. CASE WordId(l.word) = 0
  BY <1>4 DEF LoadEntry, Known
<1>5. CASE WordId(l.word) # 0
  <2>1. l.word \in Range(d.words)
    BY <1>3, <1>5 DEF WordId
  <2>2. Len(l.scores) \in Leaves(d, l.tag)
    BY <1>2, <2>1 DEF Sound
  <2>3. e[1] # 0 /\ Len(l.scores) = numSub[e[1]][Fine]
    BY <1>1, <2>2, LeavesCounted
  <2> QED  BY <2>3 DEF LoadEntry
<1> QED  BY <1>4, <1>5

(* No line of its grammar is rejected, and none names what is not there.   *)
LEMMA SoundLine ==
  ASSUME IInv, TInv, UInv, CInv, NEW d, Loads(d), Sound(d), pc = "grammar", line <= Len(grammar)
  PROVE  ~Rejected /\ (SelfLoop \/ ~Outside)
<1>1. /\ grammar = d.grammar /\ splits = d.splits
      /\ Planted /\ numSub = CountsOf(trees, depth) /\ depth # 0
  BY DEF Loads, CInv, TInv, TreesOK, NoTags, Unread, Early, Stopped
<1>2. Line \in Range(d.grammar)
  <2>1. grammar \in Seq(GrammarLine) /\ line \in Nat \ {0}
    BY DEF IInv, StageOK, RulesOK
  <2>2. line \in DOMAIN grammar
    BY <2>1, LenProperties
  <2> QED  BY <1>1, <2>2 DEF Range, Line
<1>3. \/ Line.kind = "unary" /\ Line.rule[1] = Line.rule[2] /\ Line.sub[1] = Line.sub[2]
      \/ /\ Line.kind = "unary" \/ (Line.kind = "binary" /\ Line.rule[1] # "ROOT")
         /\ \A i \in DOMAIN Line.rule : \E n \in Leaves(d, Line.rule[i]) : Line.sub[i] < n
  BY <1>2 DEF Sound
<1>4. ~Rejected
  <2>1. "unary" # "invalid" /\ "binary" # "invalid" /\ "unary" # "binary"
    OBVIOUS
  <2> QED  BY <1>3, <2>1 DEF Rejected
<1>5. /\ Line.sub \in Seq(Nat) /\ Len(Line.sub) = Arity /\ Arity \in {2, 3} /\ DOMAIN Line.rule = 1..Arity
  BY <1>4, LineAt
<1>6. CASE Line.kind = "unary" /\ Line.rule[1] = Line.rule[2] /\ Line.sub[1] = Line.sub[2]
  <2>1. 1 \in DOMAIN Line.rule /\ 2 \in DOMAIN Line.rule
    BY <1>5
  <2>2. Ids[1] = Ids[2]
    BY <1>6, <2>1 DEF Ids
  <2> QED  BY <1>4, <1>6, <2>2 DEF SelfLoop
<1>7. CASE \A i \in DOMAIN Line.rule : \E n \in Leaves(d, Line.rule[i]) : Line.sub[i] < n
  <2>1. ASSUME NEW i \in DOMAIN Ids PROVE Ids[i] # 0 /\ Line.sub[i] \in Sub(Ids[i], Fine)
    <3>1. i \in DOMAIN Line.rule /\ Ids[i] = TagId(Line.rule[i])
      BY DEF Ids
    <3>2. PICK n \in Leaves(d, Line.rule[i]) : Line.sub[i] < n
      BY <1>7, <3>1
    <3>3. TagId(Line.rule[i]) # 0 /\ n = numSub[TagId(Line.rule[i])][Fine] /\ n \in Nat
      BY <1>1, LeavesCounted
    <3>4. Line.sub[i] \in Nat
      BY <1>5, <3>1, ElementOfSeq
    <3>5. Line.sub[i] \in 0..(n - 1)
      BY <3>2, <3>3, <3>4
    <3> QED  BY <3>1, <3>3, <3>5 DEF Sub
  <2> QED  BY <1>4, <2>1 DEF Outside
<1> QED  BY <1>3, <1>4, <1>6, <1>7

(* Its trees pass the check.                                               *)
LEMMA SoundTrees ==
  ASSUME IInv, TInv, UInv, UInv', NEW d, Loads(d), Sound(d), CheckDepth
  PROVE  pc' = "root"
<1>1. /\ pc = "splits" /\ line > Len(splits) /\ depth = 0 /\ UNCHANGED <<splits, trees>>
      /\ pc' = "root" \/ (pc' = "error" /\ depth' = depth)
      /\ splits = d.splits /\ splits # <<>>
  BY DEF CheckDepth, UInv, Loads, NoTags, Stopped
<1>2. /\ splits \in Seq(Range(splits)) /\ line \in 1..(Len(splits) + 1) /\ ReadLines(line - 1)
      /\ DOMAIN trees = 1..(line - 1)
  BY <1>1, NodesRead DEF TInv, TreesOK, SplitsOK
<1>3. Len(splits) \in Nat \ {0} /\ DOMAIN splits = 1..Len(splits) /\ line - 1 = Len(splits)
  <2>1. Len(splits) \in Nat /\ DOMAIN splits = 1..Len(splits) /\ (splits = <<>> <=> Len(splits) = 0)
    BY <1>2, LenProperties, EmptySeq
  <2> QED  BY <1>1, <1>2, <2>1
<1>4. \A i \in DOMAIN trees : trees[i] = MakeSubtagTree(d.splits[i].tokens) /\ i \in DOMAIN d.splits
  BY <1>1, <1>2, <1>3 DEF ReadLines
<1>5. AllEven(trees) /\ trees # <<>>
  <2>1. 1 \in DOMAIN trees
    BY <1>2, <1>3
  <2> QED  BY <1>4, <2>1 DEF Sound, AllEven
<1> QED  BY <1>1, <1>5 DEF UInv, Rejects

(* What a sound model is loaded with: only the options make it fail, and   *)
(* they are those of the program.                                          *)
Strategies == {"max", "geometric", "harmonic"}
LoadsWell ==
  /\ pc = "error" => ~(job.smooth[1] <= job.smooth[2]) \/ job.scaling \notin Strategies
  /\ pc = "undefined" => PreparseOutside
OptionsInv == pc \notin {"smoothing", "error"} => scaling = job.scaling

(* The options are set before all else, and for good.                      *)
LEMMA OptionsNext == OptionsInv /\ [Next]_vars => OptionsInv'
<1> SUFFICES ASSUME OptionsInv, [Next]_vars PROVE OptionsInv'
  OBVIOUS
<1>1. CASE UNCHANGED vars
  BY <1>1 DEF vars, scalingVars, loaderVars, OptionsInv
<1>2. CASE SetSmoothing
  BY <1>2 DEF SetSmoothing, loaderVars, OptionsInv
<1>3. CASE Missing
  BY <1>3 DEF Missing, OptionsInv
<1>4. CASE LoadWords \/ LoadSplits \/ LoadModel \/ GenerateCoarseModels
  <2>1. UNCHANGED <<scaling, job>>
    BY <1>4 DEF LoadWords, LoadSplits, LoadModel, GenerateCoarseModels, scalingVars, loaderVars
  <2>2. pc \notin {"smoothing", "error"}
    <3>1. CASE LoadSplits
      BY <3>1 DEF LoadSplits, Starting, Starts, LexiconRead, TagsNext, LoadLine, CheckNothing, CheckDepth,
                  AddRoot, CountSubtags
    <3>2. CASE LoadWords
      BY <3>2 DEF LoadWords, Starting, Starts, LexiconRead
    <3>3. CASE LoadModel
      BY <3>3 DEF LoadModel, Starting, Starts, LexiconRead, ModelNext, LoadEntry, LoadRule, SkipSelfLoop,
                  RejectLine, LoadOutside, EndGrammar
    <3>4. CASE GenerateCoarseModels
      BY <3>4 DEF GenerateCoarseModels, ProjectorNext, MakeTransitions, Iterate, ProjectLevel, ProjectM1
    <3> QED  BY <1>4, <3>1, <3>2, <3>3, <3>4
  <2> QED  BY <2>1, <2>2 DEF OptionsInv
<1>5. CASE GenerateScalingFactors
  <2>1. UNCHANGED <<scaling, job>> /\ pc \in {"loaded", "iterate"}
    BY <1>5 DEF GenerateScalingFactors, ScalingNext, CountForFactors, MakeTransitions, MakeMax, Counted,
                MakeGeometric, MakeHarmonic, UnknownStrategy, AddFactors, scalingVars, loaderVars
  <2> QED  BY <2>1 DEF OptionsInv
<1>6. CASE MakeIdLists \/ SetTerminals
  BY <1>6 DEF MakeIdLists, SetTerminals, scalingVars, loaderVars, OptionsInv
<1> QED  BY <1>1, <1>2, <1>3, <1>4, <1>5, <1>6 DEF Next

(* No other step of a sound model stops.                                   *)
LEMMA SoundNext ==
  ASSUME IInv, TInv, LInv, UInv, UInv', CInv, OptionsInv,
         NEW d, Whole(d), Loads(d), Sound(d), LoadsWell, [Next]_vars
  PROVE  LoadsWell'
<1>0. ASSUME pc' \notin Stopped PROVE LoadsWell'
  BY <1>0 DEF LoadsWell, Stopped
<1>1. CASE UNCHANGED vars
  BY <1>1 DEF vars, loaderVars, LoadsWell, PreparseOutside, Unknown, Abstract
<1>2. CASE SetSmoothing
  BY <1>2 DEF SetSmoothing, loaderVars, LoadsWell
<1>3. CASE Missing
  <2>1. job \in Jobs
    BY DEF IInv, StageOK
  <2>2. \A kind \in Kinds : CanOpen(job.disk[kind])
    BY <2>1, WholeFile
  <2> QED  BY <1>3, <2>2 DEF Missing
<1>4. CASE LoadWords
  BY <1>0, <1>4 DEF LoadWords, Stopped
<1>5. CASE LoadSplits
  <2>1. CASE CheckNothing
    BY <2>1 DEF CheckNothing, Loads, Sound, NoTags, Stopped
  <2>2. CASE CheckDepth
    BY <1>0, <2>2, SoundTrees DEF Stopped
  <2>3. CASE StartSplits(File("splits")) \/ LoadLine \/ AddRoot \/ CountSubtags
    BY <1>0, <2>3 DEF StartSplits, LoadLine, AddRoot, CountSubtags, Stopped
  <2> QED  BY <1>5, <2>1, <2>2, <2>3 DEF LoadSplits, TagsNext
<1>6. CASE LoadModel
  <2>1. CASE LoadEntry
    <3>1. pc' = pc /\ pc = "lexicon"
      BY <2>1, SoundEntry DEF LoadEntry
    <3> QED  BY <1>0, <3>1 DEF Stopped
  <2>2. CASE RejectLine \/ LoadOutside
    BY <2>2, SoundLine DEF RejectLine, LoadOutside
  <2>3. CASE StartLexicon(File("lexicon")) \/ StartGrammar(File("grammar")) \/ LoadRule \/ SkipSelfLoop \/ EndGrammar
    BY <1>0, <2>3 DEF StartLexicon, StartGrammar, LoadRule, SkipSelfLoop, EndGrammar, Stopped
  <2> QED  BY <1>6, <2>1, <2>2, <2>3 DEF LoadModel, ModelNext
<1>7. CASE GenerateCoarseModels
  BY <1>0, <1>7 DEF GenerateCoarseModels, ProjectorNext, MakeTransitions, Iterate, ProjectLevel, ProjectM1, Stopped
<1>8. CASE GenerateScalingFactors
  <2>1. CASE UnknownStrategy
    BY <1>8, <2>1 DEF UnknownStrategy, GenerateScalingFactors, loaderVars, OptionsInv, LoadsWell, Strategies
  <2>2. CASE CountForFactors \/ MakeMax \/ MakeGeometric \/ MakeHarmonic
    BY <1>0, <2>2 DEF CountForFactors, MakeTransitions, MakeMax, MakeGeometric, MakeHarmonic, Counted, AddFactors, Stopped
  <2> QED  BY <1>8, <2>1, <2>2 DEF GenerateScalingFactors, ScalingNext
<1>9. CASE MakeIdLists
  BY <1>0, <1>9 DEF MakeIdLists, Stopped
<1>10. CASE SetTerminals
  <2>1. pc' \in {"undefined", "terminals"} /\ (pc' = "undefined" => PreparseOutside)
    BY <1>10 DEF SetTerminals
  <2>2. PreparseOutside => PreparseOutside'
    BY <1>10 DEF SetTerminals, loaderVars, PreparseOutside, Unknown, Abstract
  <2> QED  BY <2>1, <2>2 DEF LoadsWell
<1> QED  BY <1>1, <1>2, <1>3, <1>4, <1>5, <1>6, <1>7, <1>8, <1>9, <1>10 DEF Next

-----------------------------------------------------------------------------
(* What holds of every model that is whole in one directory.               *)
WInv ==
  /\ OptionsInv /\ CInv
  /\ \A d \in Dumps : Whole(d) => Loads(d) /\ (Sound(d) => LoadsWell)

(* It holds at first.                                                      *)
LEMMA WInvInit == Init => WInv
BY DEF Init, TagsInit, ModelInit, ProjectorInit, WInv, OptionsInv, CInv, Loads, LoadsWell, NoTags, Unread, Early, Stopped

(* It is kept.                                                             *)
LEMMA WInvNext == IInv /\ TInv /\ TInv' /\ LInv /\ UInv /\ UInv' /\ WInv /\ [Next]_vars => WInv'
<1> SUFFICES ASSUME IInv, TInv, TInv', LInv, UInv, UInv', WInv, [Next]_vars PROVE WInv'
  OBVIOUS
<1>1. OptionsInv' /\ CInv'
  BY OptionsNext, CInvNext DEF WInv
<1>2. job' = job
  BY DEF Next, SetSmoothing, Missing, LoadWords, LoadSplits, LoadModel, GenerateCoarseModels,
         GenerateScalingFactors, MakeIdLists, SetTerminals, loaderVars, vars
<1>3. Dumps' = Dumps
  BY <1>2 DEF Dumps
<1>4. ASSUME NEW d \in Dumps PROVE Whole(d)' => Whole(d)
  BY <1>2 DEF Whole, From
<1>5. ASSUME NEW d \in Dumps, Whole(d) PROVE Loads(d)' /\ (Sound(d)' => LoadsWell')
  <2>1. Loads(d)
    BY <1>5 DEF WInv
  <2>2. Loads(d)'
    BY <1>5, <2>1, LoadsNext
  <2>3. Sound(d) => LoadsWell'
    BY <1>5, <2>1, SoundNext DEF WInv
  <2>4. Sound(d)' => Sound(d)
    OBVIOUS
  <2> QED  BY <2>2, <2>3, <2>4
<1> QED  BY <1>1, <1>3, <1>4, <1>5 DEF WInv

(* A model that is whole in one directory is loaded as it is, whatever     *)
(* lies in the other one, although its four files are looked for one by    *)
(* one; and unless a line names a tag or a subtag that there is not, or    *)
(* the trees are uneven, only the options make loading fail.               *)
THEOREM WholeModel == Spec => []OneModel
<1>1. WInv => OneModel
  BY DEF WInv, OneModel, Loads, LoadsWell, Strategies
<1>2. Spec => []IInv /\ []TInv /\ []LInv /\ []UInv
  BY Invariance, TypeInvariance, EntriesInvariance, DepthsInvariance, PTL
<1> QED  BY <1>1, <1>2, WInvInit, WInvNext, PTL DEF Spec

-----------------------------------------------------------------------------
(* Where the parts of a flattened sequence of sequences begin in it.       *)
Offset(s, i) == IF i = 1 THEN 0 ELSE Len(Flat(s)[i - 1])

(* The parts lie in it one after the other, and nothing else does.         *)
LEMMA FlattenParts ==
  ASSUME NEW W, NEW s \in Seq(Seq(W))
  PROVE  /\ \A i \in 1..Len(s) :
              /\ Offset(s, i) \in Nat /\ Offset(s, i) + Len(s[i]) <= Len(FlattenSeq(s))
              /\ \A m \in 1..Len(s[i]) : FlattenSeq(s)[Offset(s, i) + m] = s[i][m]
         /\ \A i, j \in 1..Len(s) : i < j => Offset(s, i) + Len(s[i]) <= Offset(s, j)
         /\ \A q \in 1..Len(FlattenSeq(s)) : \E i \in 1..Len(s) : \E m \in 1..Len(s[i]) : q = Offset(s, i) + m
<1> DEFINE f == Flat(s)
           n == Len(s)
           Within(i) == \A a \in 1..i : /\ Offset(s, a) \in Nat /\ Offset(s, a) + Len(s[a]) <= Len(f[i])
                                        /\ \A m \in 1..Len(s[a]) : f[i][Offset(s, a) + m] = s[a][m]
           Covered(i) == \A q \in 1..Len(f[i]) : \E a \in 1..i : \E m \in 1..Len(s[a]) : q = Offset(s, a) + m
           S == {k \in Nat : \A i \in 1..n : i <= k => Within(i) /\ Covered(i)}
<1>1. /\ \A i \in 1..n : f[i] = IF i = 1 THEN s[i] ELSE f[i - 1] \o s[i]
      /\ \A i \in 1..n : f[i] \in Seq(W) /\ s[i] \in Seq(W)
      /\ FlattenSeq(s) = IF s = <<>> THEN <<>> ELSE f[n]
      /\ n \in Nat /\ (s = <<>> <=> n = 0)
  BY FlatPrefixes
<1> HIDE DEF f, n
<1>2. \A i \in 1..n : Len(f[i]) \in Nat /\ Len(s[i]) \in Nat
  BY <1>1, LenProperties
<1>3. \A i \in 1..n : Offset(s, i) = IF i = 1 THEN 0 ELSE Len(f[i - 1])
  BY DEF Offset, f
<1>4. 0 \in S
  <2>1. \A i \in 1..n : ~(i <= 0)
    BY <1>1
  <2> QED  BY <2>1
<1>5. ASSUME NEW k \in Nat, k \in S PROVE k + 1 \in S
  <2>1. ASSUME NEW i \in 1..n, i <= k + 1 PROVE Within(i) /\ Covered(i)
    <3>1. CASE i = 1
      <4>1. 1..i = {1} /\ f[1] = s[1] /\ Offset(s, 1) = 0 /\ Len(s[1]) \in Nat
        BY <1>1, <1>2, <1>3, <3>1
      <4>2. \A m \in 1..Len(s[1]) : 0 + m = m
        BY <4>1
      <4> QED  BY <3>1, <4>1, <4>2
    <3>2. CASE i # 1
      <4>1. i - 1 \in 1..n /\ i - 1 <= k /\ 1..i = 1..(i - 1) \cup {i} /\ i \notin 1..(i - 1) /\ 1..i \subseteq 1..n
        BY <1>1, <2>1, <3>2
      <4>2. Within(i - 1) /\ Covered(i - 1)
        BY <1>5, <4>1
      <4> DEFINE u == f[i - 1]
                 v == s[i]
      <4>3. f[i] = u \o v /\ u \in Seq(W) /\ v \in Seq(W) /\ Offset(s, i) = Len(u) /\ Len(u) \in Nat /\ Len(v) \in Nat
        BY <1>1, <1>2, <1>3, <3>2, <4>1
      <4>4. Len(f[i]) = Len(u) + Len(v) /\ \A q \in 1..(Len(u) + Len(v)) : f[i][q] = IF q <= Len(u) THEN u[q] ELSE v[q - Len(u)]
        <5> HIDE DEF u, v
        <5>1. /\ Len(u \o v) = Len(u) + Len(v)
              /\ \A q \in 1..(Len(u) + Len(v)) : (u \o v)[q] = IF q <= Len(u) THEN u[q] ELSE v[q - Len(u)]
          BY <4>3, ConcatProperties
        <5> QED  BY <4>3, <5>1
      <4> HIDE DEF u, v
      <4>5. ASSUME NEW a \in 1..(i - 1)
            PROVE  /\ Offset(s, a) \in Nat /\ Offset(s, a) + Len(s[a]) <= Len(f[i])
                   /\ \A m \in 1..Len(s[a]) : f[i][Offset(s, a) + m] = s[a][m]
        <5>1. /\ Offset(s, a) \in Nat /\ Offset(s, a) + Len(s[a]) <= Len(u) /\ Len(s[a]) \in Nat
              /\ \A m \in 1..Len(s[a]) : u[Offset(s, a) + m] = s[a][m]
          BY <1>2, <4>1, <4>2 DEF u
        <5>2. \A m \in 1..Len(s[a]) : Offset(s, a) + m \in 1..(Len(u) + Len(v)) /\ Offset(s, a) + m <= Len(u)
          BY <4>3, <5>1
        <5>3. Offset(s, a) + Len(s[a]) <= Len(f[i])
          BY <4>3, <4>4, <5>1
        <5>4. \A m \in 1..Len(s[a]) : f[i][Offset(s, a) + m] = u[Offset(s, a) + m]
          BY <4>4, <5>2
        <5> QED  BY <5>1, <5>3, <5>4
      <4>6. Offset(s, i) \in Nat /\ Offset(s, i) + Len(s[i]) <= Len(f[i]) /\ \A m \in 1..Len(s[i]) : f[i][Offset(s, i) + m] = s[i][m]
        <5>1. \A m \in 1..Len(v) : Len(u) + m \in 1..(Len(u) + Len(v)) /\ ~(Len(u) + m <= Len(u)) /\ (Len(u) + m) - Len(u) = m
          BY <4>3
        <5> QED  BY <4>3, <4>4, <5>1 DEF v
      <4>7. Within(i)
        BY <4>1, <4>5, <4>6
      <4>8. ASSUME NEW q \in 1..Len(f[i]) PROVE \E a \in 1..i : \E m \in 1..Len(s[a]) : q = Offset(s, a) + m
        <5>1. CASE q <= Len(u)
          <6>1. q \in 1..Len(u)
            BY <4>3, <5>1
          <6> QED  BY <4>1, <4>2, <6>1 DEF u
        <5>2. CASE ~(q <= Len(u))
          <6>1. q - Len(u) \in 1..Len(v) /\ q = Len(u) + (q - Len(u))
            BY <4>3, <4>4, <5>2
          <6> QED  BY <4>1, <4>3, <6>1 DEF v
        <5> QED  BY <5>1, <5>2
      <4> QED  BY <4>7, <4>8
    <3> QED  BY <3>1, <3>2
  <2> QED  BY <2>1
<1>6. n \in S
  <2> HIDE DEF S
  <2> QED  BY <1>1, <1>4, <1>5, SetInduction
<1>7. \A i \in 1..n : Within(i) /\ Covered(i)
  BY <1>1, <1>6
<1>8. ASSUME NEW i \in 1..n, NEW j \in 1..n, i < j PROVE Offset(s, i) + Len(s[i]) <= Offset(s, j)
  <2>1. j - 1 \in 1..n /\ i \in 1..(j - 1) /\ j # 1
    BY <1>1, <1>8
  <2> QED  BY <1>3, <1>7, <2>1
<1>9. CASE n = 0
  <2>1. 1..n = {} /\ 1..Len(FlattenSeq(s)) = {}
    BY <1>1, <1>9, EmptySeq
  <2> QED  BY <2>1 DEF n
<1>10. CASE n # 0
  <2>1. n \in 1..n /\ FlattenSeq(s) = f[n]
    BY <1>1, <1>10
  <2>2. Within(n) /\ Covered(n)
    BY <1>7, <2>1
  <2> HIDE DEF Within, Covered
  <2>3. /\ \A i \in 1..n : /\ Offset(s, i) \in Nat /\ Offset(s, i) + Len(s[i]) <= Len(FlattenSeq(s))
                         /\ \A m \in 1..Len(s[i]) : FlattenSeq(s)[Offset(s, i) + m] = s[i][m]
    BY <2>1, <2>2 DEF Within
  <2>4. \A q \in 1..Len(FlattenSeq(s)) : \E i \in 1..n : \E m \in 1..Len(s[i]) : q = Offset(s, i) + m
    BY <2>1, <2>2 DEF Covered
  <2> QED  BY <1>8, <2>3, <2>4 DEF n
<1> QED  BY <1>9, <1>10

(* It is at least as long as there are parts that are not empty.           *)
LEMMA FlattenLength ==
  ASSUME NEW W, NEW s \in Seq(Seq(W)), \A i \in 1..Len(s) : s[i] # <<>>
  PROVE  Len(s) <= Len(FlattenSeq(s))
<1>1. /\ \A i \in 1..Len(s) : Offset(s, i) \in Nat /\ Offset(s, i) + Len(s[i]) <= Len(FlattenSeq(s))
      /\ \A i, j \in 1..Len(s) : i < j => Offset(s, i) + Len(s[i]) <= Offset(s, j)
  BY FlattenParts
<1>2. Len(s) \in Nat /\ \A i \in 1..Len(s) : Len(s[i]) \in Nat \ {0}
  BY EmptySeq, LenProperties, ElementOfSeq
<1> DEFINE n == Len(s)
           S == {k \in Nat : \A i \in 1..n : i <= k => i - 1 <= Offset(s, i)}
<1>3. FlattenSeq(s) \in Seq(W) /\ Len(FlattenSeq(s)) \in Nat
  BY FlattenType, LenProperties
<1> HIDE DEF n
<1>4. 0 \in S
  <2>1. \A i \in 1..n : ~(i <= 0)
    BY <1>2 DEF n
  <2> QED  BY <2>1
<1>5. ASSUME NEW k \in Nat, k \in S PROVE k + 1 \in S
  <2>1. ASSUME NEW i \in 1..n, i <= k + 1 PROVE i - 1 <= Offset(s, i)
    <3>1. CASE i = 1
      BY <1>1, <3>1 DEF n
    <3>2. CASE i # 1
      <4>1. i - 1 \in 1..n /\ i - 1 <= k /\ i - 1 < i
        BY <1>2, <2>1, <3>2 DEF n
      <4>2. (i - 1) - 1 <= Offset(s, i - 1) /\ Offset(s, i - 1) + Len(s[i - 1]) <= Offset(s, i)
        BY <1>1, <1>5, <4>1 DEF n
      <4>3. Offset(s, i - 1) \in Nat /\ Offset(s, i) \in Nat /\ Len(s[i - 1]) \in Nat \ {0}
        BY <1>1, <1>2, <4>1 DEF n
      <4> QED  BY <4>1, <4>2, <4>3
    <3> QED  BY <3>1, <3>2
  <2> QED  BY <2>1
<1>6. n \in S
  <2> HIDE DEF S
  <2> QED  BY <1>2, <1>4, <1>5, SetInduction DEF n
<1>7. CASE n = 0
  BY <1>3, <1>7 DEF n
<1>8. CASE n # 0
  <2>1. n \in 1..n /\ n <= n
    BY <1>2, <1>8 DEF n
  <2>2. n - 1 <= Offset(s, n)
    BY <1>6, <2>1
  <2>3. Offset(s, n) \in Nat /\ Len(s[n]) \in Nat \ {0} /\ Offset(s, n) + Len(s[n]) <= Len(FlattenSeq(s)) /\ n \in Nat
    BY <1>1, <1>2, <2>1 DEF n
  <2> QED  BY <1>3, <2>2, <2>3 DEF n
<1> QED  BY <1>7, <1>8

(* If only one part is not empty, it is that one.                          *)
LEMMA FlattenOnly ==
  ASSUME NEW W, NEW s \in Seq(Seq(W)), NEW j \in 1..Len(s), \A i \in 1..Len(s) : i # j => s[i] = <<>>
  PROVE  FlattenSeq(s) = s[j]
<1> DEFINE f == Flat(s)
           n == Len(s)
           S == {k \in Nat : \A i \in 1..n : i <= k => f[i] = IF i < j THEN <<>> ELSE s[j]}
<1>1. /\ \A i \in 1..n : f[i] = IF i = 1 THEN s[i] ELSE f[i - 1] \o s[i]
      /\ \A i \in 1..n : s[i] \in Seq(W)
      /\ FlattenSeq(s) = IF s = <<>> THEN <<>> ELSE f[n]
      /\ n \in Nat /\ j \in 1..n /\ (s = <<>> <=> n = 0)
  BY FlatPrefixes
<1>0. \A i \in 1..n : i # j => s[i] = <<>>
  OBVIOUS
<1> HIDE DEF f, n
<1>2. 0 \in S
  <2>1. \A i \in 1..n : ~(i <= 0)
    BY <1>1
  <2> QED  BY <2>1
<1>3. ASSUME NEW k \in Nat, k \in S PROVE k + 1 \in S
  <2>1. ASSUME NEW i \in 1..n, i <= k + 1 PROVE f[i] = IF i < j THEN <<>> ELSE s[j]
    <3>1. CASE i = 1
      BY <1>0, <1>1, <3>1
    <3>2. CASE i # 1
      <4>1. i - 1 \in 1..n /\ i - 1 <= k
        BY <1>1, <2>1, <3>2
      <4>2. f[i - 1] = (IF i - 1 < j THEN <<>> ELSE s[j]) /\ f[i] = f[i - 1] \o s[i]
        BY <1>1, <1>3, <3>2, <4>1
      <4>3. \A u \in Seq(W) : u \o <<>> = u /\ <<>> \o u = u
        BY ConcatEmptySeq
      <4>4. s[j] \in Seq(W) /\ <<>> \in Seq(W)
        BY <1>1, EmptySeq
      <4>5. CASE i < j
        <5>1. i - 1 < j /\ i # j
          BY <1>1, <4>5
        <5> QED  BY <1>0, <4>2, <4>3, <4>4, <4>5, <5>1
      <4>6. CASE i = j
        <5>1. i - 1 < j /\ ~(i < j)
          BY <1>1, <4>6
        <5> QED  BY <4>2, <4>3, <4>4, <4>6, <5>1
      <4>7. CASE j < i
        <5>1. ~(i - 1 < j) /\ ~(i < j) /\ i # j
          BY <1>1, <4>7
        <5> QED  BY <1>0, <4>2, <4>3, <4>4, <5>1
      <4> QED  BY <1>1, <4>5, <4>6, <4>7
    <3> QED  BY <3>1, <3>2
  <2> QED  BY <2>1
<1>4. n \in S
  <2> HIDE DEF S
  <2> QED  BY <1>1, <1>2, <1>3, SetInduction
<1>5. n \in 1..n /\ n <= n /\ ~(n < j)
  BY <1>1
<1>6. f[n] = s[j]
  BY <1>4, <1>5
<1> QED  BY <1>1, <1>5, <1>6

(* A sequence of n values that takes each of n values takes each once.     *)
LEMMA NumbersOnce ==
  ASSUME NEW W, NEW v \in Seq(W), Range(v) = 0..(Len(v) - 1)
  PROVE  \A i, j \in DOMAIN v : v[i] = v[j] => i = j
<1> DEFINE n == Len(v)
           T == 0..(n - 1)
<1>1. n \in Nat /\ DOMAIN v = 1..n /\ v \in [1..n -> W]
  BY LenProperties
<1>2. Range(v) = T /\ \A i \in 1..n : v[i] \in Range(v)
  BY <1>1 DEF Range
<1> HIDE DEF n
<1>3. v \in [1..n -> T]
  BY <1>1, <1>2
<1>4. \A t \in T : \E i \in 1..n : v[i] = t
  BY <1>1, <1>2 DEF Range
<1>5. v \in Surjection(1..n, T)
  BY <1>3, <1>4 DEF Surjection
<1>6. IsFiniteSet(1..n) /\ Cardinality(1..n) = n /\ Cardinality(T) = n
  <2>1. 0 \in Int /\ 1 \in Int /\ n \in Int /\ n - 1 \in Int
    BY <1>1
  <2>2. IsFiniteSet(1..n) /\ Cardinality(1..n) = IF 1 > n THEN 0 ELSE n - 1 + 1
    BY <2>1, FS_Interval
  <2>3. Cardinality(0..(n - 1)) = IF 0 > n - 1 THEN 0 ELSE (n - 1) - 0 + 1
    BY <2>1, FS_Interval
  <2> QED  BY <1>1, <2>2, <2>3
<1>7. v \in Injection(1..n, T)
  BY <1>5, <1>6, FS_SurjSameCardinalityImpliesInj
<1> QED  BY <1>1, <1>7 DEF Injection, IsInjective

-----------------------------------------------------------------------------
(* The labels of nodes are theirs one by one.                              *)
LEMMA LabelsOf ==
  ASSUME NEW T, NEW v \in Seq(T)
  PROVE  /\ Labels(v) \in Seq({y.value : y \in T}) /\ Len(Labels(v)) = Len(v) /\ DOMAIN Labels(v) = 1..Len(v)
         /\ \A i \in 1..Len(v) : Labels(v)[i] = v[i].value
         /\ \A x : x \in Range(Labels(v)) <=> \E i \in 1..Len(v) : v[i].value = x
<1> DEFINE V == {y.value : y \in T}
           f == Labels(v)
<1>1. DOMAIN v = 1..Len(v) /\ Len(v) \in Nat /\ \A i \in 1..Len(v) : v[i] \in T
  BY LenProperties, ElementOfSeq
<1>2. f = [i \in 1..Len(v) |-> v[i].value]
  BY <1>1 DEF Labels
<1>3. f = [i \in 1..Len(v) |-> f[i]] /\ \A i \in 1..Len(v) : f[i] \in V /\ f[i] = v[i].value
  BY <1>1, <1>2
<1> HIDE DEF f, V
<1>4. f \in Seq(V) /\ Len(f) = Len(v)
  BY <1>1, <1>3, SeqMade
<1>5. DOMAIN f = 1..Len(v)
  BY <1>3
<1> QED  BY <1>3, <1>4, <1>5 DEF Range, f, V

(* Nodes that are numbered from 0 have different labels.                   *)
LEMMA LabelsOnce ==
  ASSUME NEW T, NEW v \in Seq(T), Range(Labels(v)) = 0..(Len(v) - 1)
  PROVE  \A i, j \in 1..Len(v) : v[i].value = v[j].value => i = j
<1>1. /\ Labels(v) \in Seq({y.value : y \in T}) /\ Len(Labels(v)) = Len(v) /\ DOMAIN Labels(v) = 1..Len(v)
      /\ \A i \in 1..Len(v) : Labels(v)[i] = v[i].value
  BY LabelsOf
<1>2. Range(Labels(v)) = 0..(Len(Labels(v)) - 1)
  BY <1>1
<1>3. \A i, j \in DOMAIN Labels(v) : Labels(v)[i] = Labels(v)[j] => i = j
  BY <1>1, <1>2, NumbersOnce
<1> QED  BY <1>1, <1>3

(* The children of nodes, from left to right.                              *)
KidsOf(v) == FlattenSeq([j \in DOMAIN v |-> v[j].kids])

(* What FineToCoarse and CoarseToFineMaps make of two levels of a tree.    *)
Over(K, s) == {n \in Range(K) : s \in Range(Labels(n.kids))}
UpOf(K, F) == [s \in 0..(Len(F) - 1) |-> IF Over(K, s) = {} THEN -1 ELSE (CHOOSE n \in Over(K, s) : TRUE).value]
DownTo(K, s) == FlattenSeq([i \in DOMAIN K |-> IF K[i].value = s THEN Labels(K[i].kids) ELSE <<>>])

(* Two levels whose subtags are numbered from 0: every subtag of the fine  *)
(* one has one parent, and every subtag of the coarse one its children.    *)
LEMMA LevelRefined ==
  ASSUME NEW T, \A y \in T : y.kids \in Seq(T), NEW K \in Seq(T), \A j \in DOMAIN K : K[j].kids # <<>>,
         NEW F, F = KidsOf(K),
         Range(Labels(K)) = 0..(Len(K) - 1), Range(Labels(F)) = 0..(Len(F) - 1)
  PROVE  /\ Len(K) <= Len(F)
         /\ UpOf(K, F) \in [0..(Len(F) - 1) -> 0..(Len(K) - 1)]
         /\ \A p \in 0..(Len(K) - 1) :
              /\ DownTo(K, p) # <<>> /\ IsInjective(DownTo(K, p))
              /\ Range(DownTo(K, p)) = {s \in 0..(Len(F) - 1) : UpOf(K, F)[s] = p}
<1> DEFINE n == Len(K)
           V == {y.value : y \in T}
           parts == [j \in DOMAIN K |-> K[j].kids]
<1>1. n \in Nat /\ DOMAIN K = 1..n /\ \A j \in 1..n : K[j] \in T /\ K[j].kids \in Seq(T)
  BY LenProperties, ElementOfSeq
<1>2. parts \in Seq(Seq(T)) /\ Len(parts) = n /\ \A j \in 1..n : parts[j] = K[j].kids
  <2>1. parts = [j \in 1..n |-> parts[j]] /\ \A j \in 1..n : parts[j] = K[j].kids
    BY <1>1
  <2> HIDE DEF parts
  <2> QED  BY <1>1, <2>1, SeqMade
<1>3. F = FlattenSeq(parts) /\ \A j \in 1..n : parts[j] # <<>>
  BY <1>1, <1>2 DEF KidsOf
<1> HIDE DEF parts
<1>4. F \in Seq(T) /\ Len(F) \in Nat /\ DOMAIN F = 1..Len(F)
  BY <1>2, <1>3, FlattenType, LenProperties
<1>5. n <= Len(F)
  BY <1>2, <1>3, FlattenLength
<1>6. \A i, j \in 1..n : K[i].value = K[j].value => i = j
  BY LabelsOnce
<1>7. \A i, j \in 1..Len(F) : F[i].value = F[j].value => i = j
  BY <1>4, LabelsOnce
<1> DEFINE at(j) == Offset(parts, j)
<1>8. /\ \A j \in 1..n : /\ at(j) \in Nat /\ at(j) + Len(K[j].kids) <= Len(F) /\ Len(K[j].kids) \in Nat
                         /\ \A m \in 1..Len(K[j].kids) : F[at(j) + m] = K[j].kids[m]
      /\ \A i, j \in 1..n : i < j => at(i) + Len(K[i].kids) <= at(j)
      /\ \A q \in 1..Len(F) : \E j \in 1..n : \E m \in 1..Len(K[j].kids) : q = at(j) + m
  <2>1. \A j \in 1..n : Len(K[j].kids) \in Nat
    BY <1>1, LenProperties
  <2>2. /\ \A j \in 1..Len(parts) :
              /\ at(j) \in Nat /\ at(j) + Len(parts[j]) <= Len(FlattenSeq(parts))
              /\ \A m \in 1..Len(parts[j]) : FlattenSeq(parts)[at(j) + m] = parts[j][m]
        /\ \A i, j \in 1..Len(parts) : i < j => at(i) + Len(parts[i]) <= at(j)
        /\ \A q \in 1..Len(FlattenSeq(parts)) : \E j \in 1..Len(parts) : \E m \in 1..Len(parts[j]) : q = at(j) + m
    BY <1>2, FlattenParts
  <2> HIDE DEF n, at
  <2>3. Len(parts) = n /\ FlattenSeq(parts) = F /\ \A j \in 1..n : parts[j] = K[j].kids
    BY <1>2, <1>3
  <2>4. ASSUME NEW j \in 1..n
        PROVE  /\ at(j) \in Nat /\ at(j) + Len(K[j].kids) <= Len(F)
               /\ \A m \in 1..Len(K[j].kids) : F[at(j) + m] = K[j].kids[m]
    <3>1. j \in 1..Len(parts) /\ parts[j] = K[j].kids
      BY <2>3
    <3> QED  BY <2>2, <2>3, <3>1
  <2>5. ASSUME NEW i \in 1..n, NEW j \in 1..n, i < j PROVE at(i) + Len(K[i].kids) <= at(j)
    <3>1. i \in 1..Len(parts) /\ j \in 1..Len(parts) /\ parts[i] = K[i].kids
      BY <2>3
    <3> QED  BY <2>2, <2>5, <3>1
  <2>6. ASSUME NEW q \in 1..Len(F) PROVE \E j \in 1..n : \E m \in 1..Len(K[j].kids) : q = at(j) + m
    <3>1. PICK j \in 1..Len(parts) : \E m \in 1..Len(parts[j]) : q = at(j) + m
      BY <2>2, <2>3
    <3>2. j \in 1..n /\ parts[j] = K[j].kids
      BY <2>3
    <3> QED  BY <3>1, <3>2
  <2> QED  BY <2>1, <2>4, <2>5, <2>6
<1> HIDE DEF at
<1>0. \A a, l, z \in Nat : a + l <= z => \A m \in 1..l : a + m \in 1..z /\ m \in Nat
  OBVIOUS
(* A child of a node of the coarse level has its label from no other.      *)
<1>9. ASSUME NEW i \in 1..n, NEW j \in 1..n, NEW k \in 1..Len(K[i].kids), NEW m \in 1..Len(K[j].kids),
             K[i].kids[k].value = K[j].kids[m].value
      PROVE  i = j /\ k = m
  <2>1. /\ at(i) \in Nat /\ at(j) \in Nat /\ Len(K[i].kids) \in Nat /\ Len(K[j].kids) \in Nat
        /\ at(i) + Len(K[i].kids) <= Len(F) /\ at(j) + Len(K[j].kids) <= Len(F)
        /\ F[at(i) + k] = K[i].kids[k] /\ F[at(j) + m] = K[j].kids[m]
    BY <1>8
  <2>2. at(i) + k \in 1..Len(F) /\ at(j) + m \in 1..Len(F) /\ k \in Nat /\ m \in Nat
    BY <1>0, <1>4, <2>1
  <2>3. at(i) + k = at(j) + m
    BY <1>7, <1>9, <2>1, <2>2
  <2>4. ~(i < j) /\ ~(j < i)
    <3>1. i < j => at(i) + Len(K[i].kids) <= at(j)
      BY <1>8
    <3>2. j < i => at(j) + Len(K[j].kids) <= at(i)
      BY <1>8
    <3>3. k <= Len(K[i].kids) /\ m <= Len(K[j].kids) /\ k >= 1 /\ m >= 1
      BY <2>1
    <3>4. \A a, b, u, v \in Nat : a + k = b + m => (a + u <= b => k > u) /\ (b + v <= a => m > v)
      BY <2>2, <3>3
    <3>5. (at(i) + Len(K[i].kids) <= at(j) => k > Len(K[i].kids)) /\ (at(j) + Len(K[j].kids) <= at(i) => m > Len(K[j].kids))
      BY <2>1, <2>3, <3>4
    <3> QED  BY <2>1, <2>2, <3>1, <3>2, <3>3, <3>5
  <2>5. i = j
    BY <1>1, <2>4
  <2> QED  BY <2>1, <2>2, <2>3, <2>5
<1>10. \A s : s \in 0..(Len(F) - 1) <=> \E j \in 1..n : \E m \in 1..Len(K[j].kids) : K[j].kids[m].value = s
  <2>1. \A s : s \in 0..(Len(F) - 1) <=> \E q \in 1..Len(F) : F[q].value = s
    BY <1>4, LabelsOf
  <2>2. ASSUME NEW j \in 1..n, NEW m \in 1..Len(K[j].kids) PROVE at(j) + m \in 1..Len(F) /\ F[at(j) + m] = K[j].kids[m]
    <3>1. at(j) \in Nat /\ Len(K[j].kids) \in Nat /\ at(j) + Len(K[j].kids) <= Len(F)
      BY <1>8
    <3>2. at(j) + m \in 1..Len(F)
      BY <1>0, <1>4, <3>1
    <3> QED  BY <1>8, <3>2
  <2>3. ASSUME NEW s, NEW q \in 1..Len(F), F[q].value = s
        PROVE  \E j \in 1..n : \E m \in 1..Len(K[j].kids) : K[j].kids[m].value = s
    <3>1. PICK j \in 1..n : \E m \in 1..Len(K[j].kids) : q = at(j) + m
      BY <1>8
    <3> QED  BY <2>2, <2>3, <3>1
  <2>4. ASSUME NEW s, NEW j \in 1..n, NEW m \in 1..Len(K[j].kids), K[j].kids[m].value = s
        PROVE  \E q \in 1..Len(F) : F[q].value = s
    BY <2>2, <2>4
  <2> QED  BY <2>1, <2>3, <2>4
<1>11. \A j \in 1..n : \A s : s \in Range(Labels(K[j].kids)) <=> \E m \in 1..Len(K[j].kids) : K[j].kids[m].value = s
  BY <1>1, LabelsOf
<1>12. \A p : p \in 0..(n - 1) <=> \E j \in 1..n : K[j].value = p
  BY LabelsOf
<1>13. ASSUME NEW j \in 1..n, NEW m \in 1..Len(K[j].kids)
       PROVE  UpOf(K, F)[K[j].kids[m].value] = K[j].value
  <2> DEFINE s == K[j].kids[m].value
  <2>1. s \in 0..(Len(F) - 1)
    BY <1>10
  <2>2. K[j] \in Over(K, s)
    BY <1>1, <1>11 DEF Over, Range
  <2>3. \A x \in Over(K, s) : x = K[j]
    <3> TAKE x \in Over(K, s)
    <3>1. x \in Range(K) /\ s \in Range(Labels(x.kids))
      BY DEF Over
    <3>2. PICK i \in 1..n : x = K[i]
      BY <1>1, <3>1 DEF Range
    <3>3. PICK k \in 1..Len(K[i].kids) : K[i].kids[k].value = s
      BY <1>11, <3>1, <3>2
    <3> QED  BY <1>9, <3>2, <3>3
  <2> HIDE DEF s
  <2>4. (CHOOSE x \in Over(K, s) : TRUE) = K[j] /\ Over(K, s) # {}
    BY <2>2, <2>3
  <2>5. UpOf(K, F)[s] = K[j].value
    BY <2>1, <2>4 DEF UpOf
  <2> QED  BY <2>5 DEF s
<1>14. UpOf(K, F) \in [0..(Len(F) - 1) -> 0..(n - 1)]
  <2>1. ASSUME NEW s \in 0..(Len(F) - 1) PROVE UpOf(K, F)[s] \in 0..(n - 1)
    <3>1. PICK j \in 1..n : \E m \in 1..Len(K[j].kids) : K[j].kids[m].value = s
      BY <1>10
    <3>2. UpOf(K, F)[s] = K[j].value
      BY <1>13, <3>1
    <3> QED  BY <1>12, <3>2
  <2>2. UpOf(K, F) = [s \in 0..(Len(F) - 1) |-> UpOf(K, F)[s]]
    BY DEF UpOf
  <2> QED  BY <2>1, <2>2
<1>15. ASSUME NEW j \in 1..n PROVE DownTo(K, K[j].value) = Labels(K[j].kids)
  <2> DEFINE one == [i \in DOMAIN K |-> IF K[i].value = K[j].value THEN Labels(K[i].kids) ELSE <<>>]
  <2>1. \A i \in 1..n : one[i] = IF i = j THEN Labels(K[j].kids) ELSE <<>>
    BY <1>1, <1>6
  <2>2. one = [i \in 1..n |-> one[i]]
    BY <1>1
  <2>3. Labels(K[j].kids) \in Seq(V) /\ <<>> \in Seq(V)
    BY <1>1, LabelsOf, EmptySeq
  <2> HIDE DEF V
  <2>4. \A i \in 1..n : one[i] \in Seq(V)
    BY <2>1, <2>3
  <2>5. DownTo(K, K[j].value) = FlattenSeq(one)
    BY DEF DownTo
  <2> HIDE DEF one, n
  <2>6. one \in Seq(Seq(V)) /\ Len(one) = n
    BY <1>1, <2>2, <2>4, SeqMade
  <2>7. FlattenSeq(one) = one[j]
    BY <2>1, <2>6, FlattenOnly
  <2> QED  BY <2>1, <2>5, <2>7
<1>16. ASSUME NEW p \in 0..(n - 1)
       PROVE  /\ DownTo(K, p) # <<>> /\ IsInjective(DownTo(K, p))
              /\ Range(DownTo(K, p)) = {s \in 0..(Len(F) - 1) : UpOf(K, F)[s] = p}
  <2>1. PICK j \in 1..n : K[j].value = p
    BY <1>12
  <2> DEFINE v == K[j].kids
  <2>2. DownTo(K, p) = Labels(v)
    BY <1>15, <2>1
  <2>3. v \in Seq(T) /\ v # <<>> /\ Len(v) \in Nat \ {0}
    BY <1>1, EmptySeq
  <2>4. Len(Labels(v)) = Len(v) /\ DOMAIN Labels(v) = 1..Len(v) /\ \A i \in 1..Len(v) : Labels(v)[i] = v[i].value
    <3> HIDE DEF v
    <3> QED  BY <2>3, LabelsOf
  <2>5. Labels(v) # <<>>
    BY <2>3, <2>4
  <2>6. IsInjective(Labels(v))
    <3>1. \A i, k \in 1..Len(v) : v[i].value = v[k].value => i = k
      BY <1>9
    <3> HIDE DEF v
    <3> QED  BY <2>4, <3>1 DEF IsInjective
  <2>7. ASSUME NEW s PROVE s \in Range(Labels(v)) <=> s \in 0..(Len(F) - 1) /\ UpOf(K, F)[s] = p
    <3>1. ASSUME s \in Range(Labels(v)) PROVE s \in 0..(Len(F) - 1) /\ UpOf(K, F)[s] = p
      <4>1. PICK m \in 1..Len(v) : v[m].value = s
        BY <1>11, <3>1
      <4> QED  BY <1>10, <1>13, <2>1, <4>1
    <3>2. ASSUME s \in 0..(Len(F) - 1), UpOf(K, F)[s] = p PROVE s \in Range(Labels(v))
      <4>1. PICK i \in 1..n : \E m \in 1..Len(K[i].kids) : K[i].kids[m].value = s
        BY <1>10, <3>2
      <4>2. K[i].value = p
        BY <1>13, <3>2, <4>1
      <4>3. i = j
        BY <1>6, <2>1, <4>2
      <4> QED  BY <1>11, <4>1, <4>3
    <3> QED  BY <3>1, <3>2
  <2> HIDE DEF v
  <2> QED  BY <2>2, <2>5, <2>6, <2>7
<1> QED  BY <1>5, <1>14, <1>16

-----------------------------------------------------------------------------
(* Those of nodes of one sequence and of another come in that order.       *)
LEMMA KidsConcat ==
  ASSUME NEW T, \A y \in T : y.kids \in Seq(T), NEW u \in Seq(T), NEW v \in Seq(T)
  PROVE  KidsOf(u \o v) = KidsOf(u) \o KidsOf(v) /\ KidsOf(u) \in Seq(T)
<1> DEFINE kids(w) == [j \in 1..Len(w) |-> w[j].kids]
<1>1. ASSUME NEW w \in Seq(T)
      PROVE  /\ kids(w) \in Seq(Seq(T)) /\ Len(kids(w)) = Len(w) /\ \A j \in 1..Len(w) : kids(w)[j] = w[j].kids
             /\ KidsOf(w) = FlattenSeq(kids(w)) /\ Len(w) \in Nat
  <2>1. DOMAIN w = 1..Len(w) /\ Len(w) \in Nat /\ \A j \in 1..Len(w) : w[j].kids \in Seq(T)
    BY LenProperties, ElementOfSeq
  <2>2. kids(w) = [j \in 1..Len(w) |-> kids(w)[j]] /\ \A j \in 1..Len(w) : kids(w)[j] = w[j].kids
    OBVIOUS
  <2>3. KidsOf(w) = FlattenSeq(kids(w))
    BY <2>1 DEF KidsOf
  <2> HIDE DEF kids
  <2>4. kids(w) \in Seq(Seq(T)) /\ Len(kids(w)) = Len(w)
    BY <2>1, <2>2, SeqMade
  <2> QED  BY <2>1, <2>2, <2>3, <2>4
<1> HIDE DEF kids
<1>2. u \o v \in Seq(T) /\ Len(u \o v) = Len(u) + Len(v)
      /\ \A i \in 1..(Len(u) + Len(v)) : (u \o v)[i] = IF i <= Len(u) THEN u[i] ELSE v[i - Len(u)]
  BY ConcatProperties
<1> DEFINE a == kids(u)
           b == kids(v)
           c == kids(u \o v)
<1>3. /\ a \in Seq(Seq(T)) /\ Len(a) = Len(u) /\ \A j \in 1..Len(u) : a[j] = u[j].kids
      /\ b \in Seq(Seq(T)) /\ Len(b) = Len(v) /\ \A j \in 1..Len(v) : b[j] = v[j].kids
      /\ c \in Seq(Seq(T)) /\ Len(c) = Len(u) + Len(v) /\ \A j \in 1..(Len(u) + Len(v)) : c[j] = (u \o v)[j].kids
      /\ Len(u) \in Nat /\ Len(v) \in Nat
  BY <1>1, <1>2
<1> HIDE DEF a, b, c
<1>4. a \o b \in Seq(Seq(T)) /\ Len(a \o b) = Len(u) + Len(v)
      /\ \A i \in 1..(Len(u) + Len(v)) : (a \o b)[i] = IF i <= Len(u) THEN a[i] ELSE b[i - Len(u)]
  <2>1. a \in Seq(Seq(T)) /\ b \in Seq(Seq(T))
    BY <1>3
  <2>2. a \o b \in Seq(Seq(T)) /\ Len(a \o b) = Len(a) + Len(b)
        /\ \A i \in 1..(Len(a) + Len(b)) : (a \o b)[i] = IF i <= Len(a) THEN a[i] ELSE b[i - Len(a)]
    BY <2>1, ConcatProperties
  <2> QED  BY <1>3, <2>2
<1>5. ASSUME NEW i \in 1..Len(c) PROVE c[i] = (a \o b)[i]
  <2>1. i \in 1..(Len(u) + Len(v))
    BY <1>3
  <2>2. CASE i <= Len(u)
    <3>1. i \in 1..Len(u)
      BY <1>3, <2>1, <2>2
    <3> QED  BY <1>2, <1>3, <1>4, <2>1, <2>2, <3>1
  <2>3. CASE ~(i <= Len(u))
    <3>1. i - Len(u) \in 1..Len(v)
      BY <1>3, <2>1, <2>3
    <3> QED  BY <1>2, <1>3, <1>4, <2>1, <2>3, <3>1
  <2> QED  BY <2>2, <2>3
<1>6. c = a \o b
  <2>1. c \in Seq(Seq(T)) /\ a \o b \in Seq(Seq(T)) /\ Len(c) = Len(a \o b)
    BY <1>3, <1>4
  <2> QED  BY <1>5, <2>1, SeqEqual
<1>7. FlattenSeq(a \o b) = FlattenSeq(a) \o FlattenSeq(b) /\ FlattenSeq(a) \in Seq(T)
  BY <1>3, FlattenConcat, FlattenType
<1>8. KidsOf(u) = FlattenSeq(a) /\ KidsOf(v) = FlattenSeq(b) /\ KidsOf(u \o v) = FlattenSeq(c)
  BY <1>1, <1>2 DEF a, b, c
<1> QED  BY <1>6, <1>7, <1>8

(* The first level of a node below it is that of its children.            *)
LEMMA LevelOne ==
  ASSUME NEW T, \A w \in T : w.kids \in Seq(T), NEW x \in T
  PROVE  NodesAt(x, 1) = x.kids
<1>1. [j \in DOMAIN <<x>> |-> <<x>>[j].kids] = <<x.kids>>
  <2>1. <<x.kids>> = [j \in 1..1 |-> x.kids] /\ 1..1 = {1} /\ DOMAIN <<x>> = {1} /\ <<x>>[1] = x
    OBVIOUS
  <2> QED  BY <2>1
<1>2. x.kids \in Seq(T)
  OBVIOUS
<1>3. NodesAt(x, 0) = <<x>> /\ NodesAt(x, 0 + 1) = FlattenSeq([j \in DOMAIN NodesAt(x, 0) |-> NodesAt(x, 0)[j].kids])
  BY Levels
<1>4. NodesAt(x, 0 + 1) = FlattenSeq(<<x.kids>>)
  BY <1>1, <1>3
<1> QED  BY <1>2, <1>4, FlattenOne

(* The levels of a node are those of its children.                         *)
LEMMA LevelsOfKids ==
  ASSUME NEW T, \A w \in T : w.kids \in Seq(T), NEW x \in T, NEW y \in T, x.kids = <<y>>
  PROVE  \A k \in Nat : NodesAt(x, k + 1) = NodesAt(y, k)
<1>1. \A w \in T : \A k \in Nat : NodesAt(w, k) \in Seq(T) /\ NodesAt(w, k + 1) = KidsOf(NodesAt(w, k))
  BY LevelNodes, Levels DEF KidsOf
<1>2. \A w \in T : NodesAt(w, 0) = <<w>>
  BY Levels
<1>3. NodesAt(x, 1) = x.kids
  BY LevelOne
<1> DEFINE S == {k \in Nat : NodesAt(x, k + 1) = NodesAt(y, k)}
<1>4. 0 \in S
  BY <1>2, <1>3
<1>5. \A k \in Nat : k \in S => k + 1 \in S
  BY <1>1
<1>6. Nat \subseteq S
  <2> HIDE DEF S
  <2> QED  BY <1>4, <1>5, SetInduction
<1> QED  BY <1>6

(* The same of two children.                                               *)
LEMMA LevelsOfTwo ==
  ASSUME NEW T, \A w \in T : w.kids \in Seq(T), NEW x \in T, NEW y \in T, NEW z \in T, x.kids = <<y, z>>
  PROVE  \A k \in Nat : NodesAt(x, k + 1) = NodesAt(y, k) \o NodesAt(z, k)
<1>1. \A w \in T : \A k \in Nat : NodesAt(w, k) \in Seq(T) /\ NodesAt(w, k + 1) = KidsOf(NodesAt(w, k))
  BY LevelNodes, Levels DEF KidsOf
<1>2. \A w \in T : NodesAt(w, 0) = <<w>>
  BY Levels
<1>3. NodesAt(x, 1) = x.kids
  BY LevelOne
<1> DEFINE S == {k \in Nat : NodesAt(x, k + 1) = NodesAt(y, k) \o NodesAt(z, k)}
<1>4. 0 \in S
  <2>1. <<y>> \o <<z>> = <<y, z>>
    <3> DEFINE w == <<y>> \o <<z>>
    <3>1. <<y>> \in Seq(T) /\ <<z>> \in Seq(T) /\ <<y, z>> \in Seq(T)
      BY ShortSeqs
    <3>2. w \in Seq(T) /\ Len(w) = 2 /\ w[1] = y /\ w[2] = z
      <4>1. /\ w \in Seq(T) /\ Len(w) = Len(<<y>>) + Len(<<z>>)
            /\ \A i \in 1..(Len(<<y>>) + Len(<<z>>)) : w[i] = IF i <= Len(<<y>>) THEN <<y>>[i] ELSE <<z>>[i - Len(<<y>>)]
        BY <3>1, ConcatProperties
      <4>2. Len(<<y>>) = 1 /\ Len(<<z>>) = 1 /\ <<y>>[1] = y /\ <<z>>[1] = z
        OBVIOUS
      <4>3. 1 \in 1..2 /\ 2 \in 1..2 /\ 2 - 1 = 1 /\ 1 <= 1 /\ ~(2 <= 1) /\ 1 + 1 = 2
        OBVIOUS
      <4> HIDE DEF w
      <4> QED  BY <4>1, <4>2, <4>3
    <3> HIDE DEF w
    <3>3. Len(<<y, z>>) = 2 /\ <<y, z>>[1] = y /\ <<y, z>>[2] = z
      OBVIOUS
    <3>4. \A i \in 1..Len(w) : w[i] = <<y, z>>[i]
      <4>1. \A i \in 1..2 : i = 1 \/ i = 2
        OBVIOUS
      <4> QED  BY <3>2, <3>3, <4>1
    <3>5. w = <<y, z>>
      BY <3>1, <3>2, <3>3, <3>4, SeqEqual
    <3> QED  BY <3>5 DEF w
  <2>2. NodesAt(x, 0 + 1) = NodesAt(y, 0) \o NodesAt(z, 0)
    <3>1. 0 + 1 = 1
      OBVIOUS
    <3> QED  BY <1>2, <1>3, <2>1, <3>1, Zenon
  <2> QED  BY <2>2
<1>5. ASSUME NEW k \in Nat, k \in S PROVE k + 1 \in S
  <2>1. NodesAt(x, k + 1) = NodesAt(y, k) \o NodesAt(z, k)
    BY <1>5
  <2>2. NodesAt(x, (k + 1) + 1) = KidsOf(NodesAt(x, k + 1))
    BY <1>1
  <2>3. NodesAt(y, k) \in Seq(T) /\ NodesAt(z, k) \in Seq(T)
    BY <1>1
  <2>4. KidsOf(NodesAt(y, k) \o NodesAt(z, k)) = KidsOf(NodesAt(y, k)) \o KidsOf(NodesAt(z, k))
    BY <2>3, KidsConcat
  <2>5. NodesAt(y, k + 1) = KidsOf(NodesAt(y, k)) /\ NodesAt(z, k + 1) = KidsOf(NodesAt(z, k))
    BY <1>1
  <2>6. NodesAt(x, (k + 1) + 1) = NodesAt(y, k + 1) \o NodesAt(z, k + 1)
    BY <2>1, <2>2, <2>4, <2>5
  <2> QED  BY <2>6
<1>6. Nat \subseteq S
  <2> HIDE DEF S
  <2> QED  BY <1>4, <1>5, SetInduction
<1> QED  BY <1>6

(* The labels of sequences put together.                                   *)
LEMMA LabelsConcat ==
  ASSUME NEW T, NEW u \in Seq(T), NEW v \in Seq(T)
  PROVE  Labels(u \o v) = Labels(u) \o Labels(v)
<1> DEFINE V == {y.value : y \in T}
           a == Labels(u)
           b == Labels(v)
           c == Labels(u \o v)
<1>1. u \o v \in Seq(T) /\ Len(u \o v) = Len(u) + Len(v) /\ Len(u) \in Nat /\ Len(v) \in Nat
      /\ \A i \in 1..(Len(u) + Len(v)) : (u \o v)[i] = IF i <= Len(u) THEN u[i] ELSE v[i - Len(u)]
  BY ConcatProperties, LenProperties
<1>2. /\ a \in Seq(V) /\ Len(a) = Len(u) /\ \A i \in 1..Len(u) : a[i] = u[i].value
      /\ b \in Seq(V) /\ Len(b) = Len(v) /\ \A i \in 1..Len(v) : b[i] = v[i].value
  BY LabelsOf
<1>3. c \in Seq(V) /\ Len(c) = Len(u) + Len(v) /\ \A i \in 1..(Len(u) + Len(v)) : c[i] = (u \o v)[i].value
  <2>1. Labels(u \o v) \in Seq(V) /\ Len(Labels(u \o v)) = Len(u \o v) /\ \A i \in 1..Len(u \o v) : Labels(u \o v)[i] = (u \o v)[i].value
    BY <1>1, LabelsOf
  <2> QED  BY <1>1, <2>1
<1> HIDE DEF a, b, c, V
<1>4. a \o b \in Seq(V) /\ Len(a \o b) = Len(u) + Len(v)
      /\ \A i \in 1..(Len(u) + Len(v)) : (a \o b)[i] = IF i <= Len(u) THEN a[i] ELSE b[i - Len(u)]
  <2>1. a \in Seq(V) /\ b \in Seq(V)
    BY <1>2
  <2>2. a \o b \in Seq(V) /\ Len(a \o b) = Len(a) + Len(b)
        /\ \A i \in 1..(Len(a) + Len(b)) : (a \o b)[i] = IF i <= Len(a) THEN a[i] ELSE b[i - Len(a)]
    BY <2>1, ConcatProperties
  <2> QED  BY <1>2, <2>2
<1>5. ASSUME NEW i \in 1..Len(c) PROVE c[i] = (a \o b)[i]
  <2>1. i \in 1..(Len(u) + Len(v))
    BY <1>3
  <2>2. CASE i <= Len(u)
    <3>1. i \in 1..Len(u)
      BY <1>1, <2>1, <2>2
    <3> QED  BY <1>1, <1>2, <1>3, <1>4, <2>1, <2>2, <3>1
  <2>3. CASE ~(i <= Len(u))
    <3>1. i - Len(u) \in 1..Len(v)
      BY <1>1, <2>1, <2>3
    <3> QED  BY <1>1, <1>2, <1>3, <1>4, <2>1, <2>3, <3>1
  <2> QED  BY <2>2, <2>3
<1>6. c = a \o b
  BY <1>3, <1>4, <1>5, SeqEqual
<1> QED  BY <1>6 DEF a, b, c

-----------------------------------------------------------------------------
(* All branches of a node end at a depth, whatever level is looked at.     *)
Full(x, d) == \A k \in Nat : \A j \in DOMAIN NodesAt(x, k) : NodesAt(x, k)[j].kids = <<>> <=> k = d - 1

(* An even tree is such a node.                                            *)
LEMMA EvenDown ==
  ASSUME NEW x, IsNode(x), NEW d \in 1..MaxDepth, EvenTo(x, d)
  PROVE  Full(x, d)
<1>0. d \in Nat /\ d >= 1 /\ d <= MaxDepth /\ MaxDepth \in Nat
  BY DepthAssumption
<1>1. Even(x) /\ DepthOf(x) = d
  BY EvenMeans
<1> DEFINE S == {k \in Nat : NodesAt(x, d + k) = <<>>}
<1>2. 0 \in S
  BY <1>0, <1>1 DEF Even
<1>3. ASSUME NEW k \in Nat, k \in S PROVE k + 1 \in S
  <2>1. d + k \in Nat /\ d + (k + 1) = (d + k) + 1
    BY <1>0
  <2>2. NodesAt(x, d + k) = <<>>
    BY <1>3
  <2>3. \A j \in DOMAIN NodesAt(x, d + k) : NodesAt(x, d + k)[j].kids = <<>>
    BY <2>2
  <2>4. NodesAt(x, (d + k) + 1) = <<>>
    BY <2>1, <2>3, LevelTypes
  <2> QED  BY <2>1, <2>4
<1>4. Nat \subseteq S
  <2> HIDE DEF S
  <2> QED  BY <1>2, <1>3, SetInduction
<1>5. ASSUME NEW k \in Nat, NEW j \in DOMAIN NodesAt(x, k) PROVE NodesAt(x, k)[j].kids = <<>> <=> k = d - 1
  <2>1. CASE k <= MaxDepth
    <3>1. k \in 0..MaxDepth
      BY <1>0, <2>1
    <3> QED  BY <3>1 DEF EvenTo
  <2>2. CASE ~(k <= MaxDepth)
    <3>1. k - d \in Nat /\ d + (k - d) = k
      BY <1>0, <2>2
    <3>2. NodesAt(x, d + (k - d)) = <<>>
      BY <1>4, <3>1
    <3> QED  BY <3>1, <3>2
  <2> QED  BY <2>1, <2>2
<1> QED  BY <1>5 DEF Full

(* The nodes of each level of a node are among those of another one's next. *)
Under(w, x) ==
  \A k \in Nat : \A j \in 1..Len(NodesAt(w, k)) : \E i \in DOMAIN NodesAt(x, k + 1) : NodesAt(x, k + 1)[i] = NodesAt(w, k)[j]

(* So are the nodes below it, whose branches are shorter by one.           *)
LEMMA FullBelow ==
  ASSUME NEW T, \A v \in T : v.kids \in Seq(T), NEW x \in T, NEW w \in T, x.kids # <<>>, NEW d \in Nat \ {0}, Full(x, d), Under(w, x)
  PROVE  d - 1 \in Nat \ {0} /\ (d - 1) - 1 \in Nat /\ Full(w, d - 1)
<1>1. NodesAt(x, 0) = <<x>>
  BY Levels
<1>2. 0 # d - 1
  <2>1. 1 \in DOMAIN NodesAt(x, 0) /\ NodesAt(x, 0)[1] = x
    BY <1>1
  <2> QED  BY <2>1 DEF Full
<1>3. ASSUME NEW k \in Nat, NEW j \in DOMAIN NodesAt(w, k)
      PROVE  NodesAt(w, k)[j].kids = <<>> <=> k = (d - 1) - 1
  <2>1. j \in 1..Len(NodesAt(w, k))
    BY LevelNodes, LenProperties
  <2>2. PICK i \in DOMAIN NodesAt(x, k + 1) : NodesAt(x, k + 1)[i] = NodesAt(w, k)[j]
    BY <2>1 DEF Under
  <2>3. k + 1 \in Nat /\ (k + 1 = d - 1 <=> k = (d - 1) - 1)
    OBVIOUS
  <2> QED  BY <2>2, <2>3 DEF Full
<1> QED  BY <1>2, <1>3 DEF Full

(* So is an only child.                                                    *)
LEMMA FullOne ==
  ASSUME NEW T, \A w \in T : w.kids \in Seq(T), NEW x \in T, x.kids[1] \in T, x.kids = <<x.kids[1]>>,
         NEW d \in Nat \ {0}, Full(x, d)
  PROVE  /\ d - 1 \in Nat \ {0} /\ (d - 1) - 1 \in Nat /\ Full(x.kids[1], d - 1)
         /\ NodesAt(x, d - 1) = NodesAt(x.kids[1], (d - 1) - 1)
<1> DEFINE y == x.kids[1]
<1>1. y \in T /\ x.kids = <<y>> /\ x.kids # <<>>
  OBVIOUS
<1> HIDE DEF y
<1>2. \A k \in Nat : NodesAt(x, k + 1) = NodesAt(y, k)
  BY <1>1, LevelsOfKids
<1>3. Under(y, x)
  BY <1>1, <1>2, LevelNodes, LenProperties DEF Under
<1>4. d - 1 \in Nat \ {0} /\ (d - 1) - 1 \in Nat /\ Full(y, d - 1)
  BY <1>1, <1>3, FullBelow
<1>5. NodesAt(x, d - 1) = NodesAt(y, (d - 1) - 1)
  <2>1. ((d - 1) - 1) + 1 = d - 1
    OBVIOUS
  <2>2. NodesAt(x, ((d - 1) - 1) + 1) = NodesAt(y, (d - 1) - 1)
    BY <1>2, <1>4
  <2> QED  BY <2>1, <2>2
<1> QED  BY <1>4, <1>5 DEF y

(* So are two.                                                             *)
LEMMA FullTwo ==
  ASSUME NEW T, \A w \in T : w.kids \in Seq(T), NEW x \in T, x.kids[1] \in T, x.kids[2] \in T,
         x.kids = <<x.kids[1], x.kids[2]>>, NEW d \in Nat \ {0}, Full(x, d)
  PROVE  /\ d - 1 \in Nat \ {0} /\ (d - 1) - 1 \in Nat /\ Full(x.kids[1], d - 1) /\ Full(x.kids[2], d - 1)
         /\ NodesAt(x, d - 1) = NodesAt(x.kids[1], (d - 1) - 1) \o NodesAt(x.kids[2], (d - 1) - 1)
<1> DEFINE y == x.kids[1]
           z == x.kids[2]
<1>1. y \in T /\ z \in T /\ x.kids = <<y, z>> /\ x.kids # <<>>
  OBVIOUS
<1> HIDE DEF y, z
<1>2. \A k \in Nat : NodesAt(x, k + 1) = NodesAt(y, k) \o NodesAt(z, k)
  BY <1>1, LevelsOfTwo
<1>3. ASSUME NEW k \in Nat
      PROVE  /\ \A j \in 1..Len(NodesAt(y, k)) : \E i \in DOMAIN NodesAt(x, k + 1) : NodesAt(x, k + 1)[i] = NodesAt(y, k)[j]
             /\ \A j \in 1..Len(NodesAt(z, k)) : \E i \in DOMAIN NodesAt(x, k + 1) : NodesAt(x, k + 1)[i] = NodesAt(z, k)[j]
  <2> DEFINE u == NodesAt(y, k)
             v == NodesAt(z, k)
             r == NodesAt(x, k + 1)
  <2>1. u \in Seq(T) /\ v \in Seq(T) /\ r = u \o v
    BY <1>1, <1>2, LevelNodes
  <2> HIDE DEF u, v, r
  <2>2. r \in Seq(T) /\ Len(r) = Len(u) + Len(v)
        /\ \A i \in 1..(Len(u) + Len(v)) : r[i] = IF i <= Len(u) THEN u[i] ELSE v[i - Len(u)]
    BY <2>1, ConcatProperties
  <2>3. Len(u) \in Nat /\ Len(v) \in Nat /\ DOMAIN r = 1..(Len(u) + Len(v))
    BY <2>1, <2>2, LenProperties
  <2>4. \A j \in 1..Len(u) : j \in DOMAIN r /\ r[j] = u[j]
    BY <2>2, <2>3
  <2>5. ASSUME NEW j \in 1..Len(v) PROVE Len(u) + j \in DOMAIN r /\ r[Len(u) + j] = v[j]
    <3>1. Len(u) + j \in 1..(Len(u) + Len(v)) /\ ~(Len(u) + j <= Len(u)) /\ (Len(u) + j) - Len(u) = j
      BY <2>3
    <3> QED  BY <2>2, <2>3, <3>1
  <2> QED  BY <2>4, <2>5 DEF u, v, r
<1>4. d - 1 \in Nat \ {0} /\ (d - 1) - 1 \in Nat /\ Full(y, d - 1) /\ Full(z, d - 1)
  <2>1. Under(y, x) /\ Under(z, x)
    BY <1>3 DEF Under
  <2> QED  BY <1>1, <2>1, FullBelow
<1>5. NodesAt(x, d - 1) = NodesAt(y, (d - 1) - 1) \o NodesAt(z, (d - 1) - 1)
  <2>1. ((d - 1) - 1) + 1 = d - 1
    OBVIOUS
  <2>2. NodesAt(x, ((d - 1) - 1) + 1) = NodesAt(y, (d - 1) - 1) \o NodesAt(z, (d - 1) - 1)
    BY <1>2, <1>4
  <2> QED  BY <2>1, <2>2
<1> QED  BY <1>4, <1>5 DEF y, z

(* The finest subtags of a tree are those that the line names, in order.   *)
LEMMA LeavesRead ==
  ASSUME NEW tok, IsSExpression(tok), NEW d \in 1..MaxDepth, EvenTo(MakeSubtagTree(tok), d)
  PROVE  Labels(NodesAt(MakeSubtagTree(tok), d - 1)) = LeafTokens(tok)
<1> DEFINE n == Len(tok)
           E == Ends(tok)
           isLeaf(i) == tok[i] \notin {Open, Close} /\ (i = 1 \/ tok[i - 1] # Open)
           s == [i \in DOMAIN tok |-> IF isLeaf(i) THEN <<tok[i]>> ELSE <<>>]
           P(i) == IF i = 0 THEN <<>> ELSE Flat(s)[i]
<1>0. d \in Nat /\ d >= 1
  BY DepthAssumption
<1>1. n \in Nat /\ DOMAIN tok = 1..n /\ n \in E[1] /\ \A i \in 1..n : tok[i] \in Range(tok)
  <2>1. n \in Nat /\ DOMAIN tok = 1..n /\ n \in E[1]
    BY LenProperties DEF IsSExpression
  <2> QED  BY <2>1 DEF Range
<1>2. PICK f : /\ MakeSubtagTree(tok) = f[1].tree /\ 1 \in 1..n
               /\ \A p \in 1..n : f[p] = ReadAt(tok, f, p) /\ \A e \in E[p] : f[p].last = e
               /\ \A p \in 1..n : f[p].tree.kids \in Seq({f[q].tree : q \in 1..n})
  BY Reader
<1> DEFINE T == {f[q].tree : q \in 1..n}
           W == Range(tok) \cup {y.value : y \in T}
<1>3. (\A y \in T : y.kids \in Seq(T)) /\ \A p \in 1..n : f[p].tree \in T
  BY <1>2
<1>4. ASSUME NEW p \in 1..n, NEW e \in E[p]
      PROVE  /\ e \in p..n
             /\ tok[p] # Open => e = p /\ tok[p] \notin {Open, Close}
             /\ tok[p] = Open => /\ tok[e] = Close /\ tok[p + 1] \notin {Open, Close}
                                 /\ \E a \in E[p + 2] : e = a + 1 \/ e - 1 \in E[a + 1]
  <2>1. p \in 1..(Len(tok) + 2)
    BY <1>1
  <2>2. e \in EndsAt(tok, Ends(tok), p)
    BY <1>1, <2>1, EndsDefined
  <2> QED  BY <2>2 DEF EndsAt
<1>5. ASSUME NEW p \in 1..n, NEW a \in E[p + 2] PROVE p + 2 \in 1..n /\ a \in (p + 2)..n
  <2>1. p + 2 \in 1..(Len(tok) + 2)
    BY <1>1
  <2>2. a \in EndsAt(tok, Ends(tok), p + 2)
    BY <1>1, <2>1, EndsDefined
  <2>3. a \in (p + 2)..n
    BY <2>2 DEF EndsAt
  <2> QED  BY <1>1, <2>3
<1>6. ASSUME NEW p \in 1..n, NEW e \in E[p] PROVE tok[e] # Open
  BY <1>4, TokenAssumption
<1>7. s \in Seq(Seq(W)) /\ Len(s) = n /\ \A i \in 1..n : s[i] = IF isLeaf(i) THEN <<tok[i]>> ELSE <<>>
  <2>1. \A i \in 1..n : s[i] = IF isLeaf(i) THEN <<tok[i]>> ELSE <<>>
    BY <1>1
  <2>2. s = [i \in 1..n |-> s[i]]
    BY <1>1
  <2>3. \A i \in 1..n : <<tok[i]>> \in Seq(W) /\ <<>> \in Seq(W)
    <3>1. \A i \in 1..n : tok[i] \in W
      BY <1>1
    <3> HIDE DEF W
    <3> QED  BY <3>1, ShortSeqs
  <2> HIDE DEF s, W, isLeaf, n
  <2>4. \A i \in 1..n : s[i] \in Seq(W)
    BY <2>1, <2>3
  <2> QED  BY <1>1, <2>1, <2>2, <2>4, SeqMade
<1>8. LeafTokens(tok) = FlattenSeq(s)
  BY DEF LeafTokens
<1> HIDE DEF s, W
<1>9. /\ \A i \in 1..n : P(i) = P(i - 1) \o s[i]
      /\ \A i \in 0..n : P(i) \in Seq(W)
      /\ P(n) = LeafTokens(tok) /\ P(0) = <<>>
  <2>1. /\ \A i \in 1..n : Flat(s)[i] = IF i = 1 THEN s[i] ELSE Flat(s)[i - 1] \o s[i]
        /\ \A i \in 1..n : Flat(s)[i] \in Seq(W) /\ s[i] \in Seq(W)
        /\ FlattenSeq(s) = IF s = <<>> THEN <<>> ELSE Flat(s)[n]
        /\ (s = <<>> <=> n = 0)
    BY <1>7, FlatPrefixes, EmptySeq, ElementOfSeq
  <2>2. ASSUME NEW i \in 1..n PROVE P(i) = P(i - 1) \o s[i]
    <3>1. CASE i = 1
      <4>1. P(i - 1) = <<>> /\ P(i) = s[i] /\ s[i] \in Seq(W)
        BY <2>1, <3>1
      <4> QED  BY <4>1, ConcatEmptySeq
    <3>2. CASE i # 1
      <4>1. i - 1 # 0 /\ i # 0
        BY <1>1, <3>2
      <4> QED  BY <2>1, <3>2, <4>1
    <3> QED  BY <3>1, <3>2
  <2>3. ASSUME NEW i \in 0..n PROVE P(i) \in Seq(W)
    <3>1. CASE i = 0
      BY <3>1, EmptySeq
    <3>2. CASE i # 0
      <4>1. i \in 1..n
        BY <1>1, <3>2
      <4> QED  BY <2>1, <3>2, <4>1
    <3> QED  BY <3>1, <3>2
  <2>4. P(n) = LeafTokens(tok)
    BY <1>2, <1>8, <2>1
  <2> QED  BY <2>2, <2>3, <2>4
<1> DEFINE L(x, k) == Labels(NodesAt(x, k))
<1>10. \A x \in T : \A k \in Nat : NodesAt(x, k) \in Seq(T) /\ L(x, k) \in Seq(W)
  <2> TAKE x \in T
  <2> TAKE k \in Nat
  <2>1. NodesAt(x, k) \in Seq(T)
    BY <1>3, LevelNodes
  <2>2. L(x, k) \in Seq({y.value : y \in T})
    BY <2>1, LabelsOf
  <2>3. {y.value : y \in T} \subseteq W
    BY DEF W
  <2> HIDE DEF L
  <2>4. \A A : A \subseteq W => \A v \in Seq(A) : v \in Seq(W)
    OBVIOUS
  <2> QED  BY <2>1, <2>2, <2>3, <2>4
<1> DEFINE Done(p) == p = 1 \/ tok[p - 1] # Open =>
                        \A b \in Nat \ {0} : Full(f[p].tree, b) => \A e \in E[p] : P(e) = P(p - 1) \o L(f[p].tree, b - 1)
<1>11. ASSUME NEW p \in 1..n, \A q \in 1..n : q > p => Done(q) PROVE Done(p)
  <2> SUFFICES ASSUME p = 1 \/ tok[p - 1] # Open, NEW b \in Nat \ {0}, Full(f[p].tree, b), NEW e \in E[p]
               PROVE  P(e) = P(p - 1) \o L(f[p].tree, b - 1)
    OBVIOUS
  <2> DEFINE x == f[p].tree
  <2>0. e \in p..n /\ f[p] = ReadAt(tok, f, p) /\ f[p].last = e /\ x \in T /\ p - 1 \in 0..n
    BY <1>1, <1>2, <1>3, <1>4
  <2>1. CASE tok[p] # Open
    <3>1. e = p /\ tok[p] \notin {Open, Close}
      BY <1>4, <2>1
    <3>2. x = Node(tok[p], <<>>)
      BY <2>0, <2>1 DEF ReadAt
    <3>3. x.kids = <<>> /\ x.value = tok[p]
      BY <3>2 DEF Node
    <3>4. NodesAt(x, 0) = <<x>>
      BY Levels
    <3>5. b - 1 = 0
      <4>1. 1 \in DOMAIN NodesAt(x, 0) /\ NodesAt(x, 0)[1] = x
        BY <3>4
      <4>2. 0 \in Nat
        OBVIOUS
      <4> HIDE DEF x
      <4>3. Full(x, b)
        BY DEF x
      <4> QED  BY <3>3, <4>1, <4>2, <4>3 DEF Full
    <3>6. L(x, b - 1) = <<tok[p]>>
      <4>1. Labels(<<x>>) = <<x.value>>
        <5>1. <<x.value>> = [i \in 1..1 |-> x.value] /\ 1..1 = {1} /\ DOMAIN <<x>> = {1} /\ <<x>>[1] = x
          OBVIOUS
        <5> QED  BY <5>1 DEF Labels
      <4> QED  BY <3>3, <3>4, <3>5, <4>1
    <3>7. s[p] = <<tok[p]>>
      BY <1>7, <3>1
    <3> QED  BY <1>9, <3>1, <3>6, <3>7
  <2>2. CASE tok[p] = Open
    <3>1. PICK a \in E[p + 2] : e = a + 1 \/ e - 1 \in E[a + 1]
      BY <1>4, <2>2
    <3>2. p + 2 \in 1..n /\ a \in (p + 2)..n /\ p + 1 \in 1..n /\ a + 1 \in Nat /\ a \in 0..n /\ tok[e] = Close
          /\ tok[p + 1] \notin {Open, Close} /\ f[p + 2].last = a /\ p + 2 > p
      <4>1. p + 2 \in 1..n /\ a \in (p + 2)..n
        BY <1>5
      <4>2. p + 1 \in 1..n /\ a + 1 \in Nat /\ a \in 0..n /\ p + 2 > p
        BY <1>1, <4>1
      <4> QED  BY <1>2, <1>4, <2>2, <4>1, <4>2
    <3> DEFINE y == f[p + 2].tree
               z == f[a + 1].tree
    <3>3. P(p + 1) = P(p - 1)
      <4>1. s[p] = <<>> /\ s[p + 1] = <<>>
        <5>1. (p + 1) - 1 = p /\ p + 1 # 1
          BY <1>1
        <5> QED  BY <1>7, <2>2, <3>2, <5>1
      <4>2. P(p) = P(p - 1) \o <<>> /\ P(p + 1) = P(p) \o <<>>
        <5>1. (p + 1) - 1 = p
          BY <1>1
        <5>2. P(p) = P(p - 1) \o s[p] /\ P(p + 1) = P((p + 1) - 1) \o s[p + 1]
          BY <1>9, <3>2
        <5> QED  BY <4>1, <5>1, <5>2
      <4>3. P(p - 1) \in Seq(W) /\ P(p) \in Seq(W)
        <5>1. p \in 0..n
          BY <1>1
        <5> QED  BY <1>9, <2>0, <5>1
      <4> HIDE DEF P
      <4> QED  BY <4>2, <4>3, ConcatEmptySeq
    <3>4. ASSUME Full(y, b - 1), b - 1 \in Nat \ {0} PROVE P(a) = P(p - 1) \o L(y, (b - 1) - 1)
      <4>1. (p + 2) - 1 = p + 1
        BY <1>1
      <4>2. Done(p + 2)
        BY <1>11, <3>2
      <4>3. tok[(p + 2) - 1] # Open
        BY <3>2, <4>1
      <4>4. P(a) = P((p + 2) - 1) \o L(y, (b - 1) - 1)
        <5> HIDE DEF P, L
        <5> QED  BY <3>4, <4>2, <4>3
      <4> HIDE DEF P, L
      <4> QED  BY <3>3, <4>1, <4>4
    <3>5. y \in T /\ L(y, (b - 1) - 1) = L(y, (b - 1) - 1)
      BY <1>3, <3>2
    <3>6. x = IF tok[a + 1] = Close THEN Node(tok[p + 1], <<y>>) ELSE Node(tok[p + 1], <<y, z>>)
      BY <2>0, <2>2, <3>2 DEF ReadAt
    <3>7. x.kids = IF tok[a + 1] = Close THEN <<y>> ELSE <<y, z>>
      BY <3>6 DEF Node
    <3>8. CASE tok[a + 1] = Close
      <4>1. e = a + 1
        BY <2>0, <2>2, <3>2, <3>8 DEF ReadAt
      <4>2. x.kids = <<y>>
        BY <3>7, <3>8
      <4>3. b - 1 \in Nat \ {0} /\ (b - 1) - 1 \in Nat /\ Full(y, b - 1) /\ NodesAt(x, b - 1) = NodesAt(y, (b - 1) - 1)
        <5> HIDE DEF x, y
        <5>1. Full(x, b)
          BY DEF x
        <5>2. (\A w \in T : w.kids \in Seq(T)) /\ x \in T /\ y \in T /\ x.kids = <<y>>
          BY <1>3, <2>0, <3>5, <4>2
        <5>3. x.kids[1] = y
          BY <5>2
        <5> HIDE DEF T
        <5>4. x.kids[1] \in T /\ x.kids = <<x.kids[1]>>
          BY <5>2, <5>3
        <5> QED  BY <5>1, <5>2, <5>3, <5>4, FullOne
      <4>5. P(e) = P(a)
        <5>1. e \in 1..n /\ e - 1 = a
          BY <1>1, <2>0, <3>2, <4>1
        <5>2. s[e] = <<>>
          BY <1>7, <3>2, <5>1
        <5>3. P(e) = P(a) \o <<>> /\ P(a) \in Seq(W)
          BY <1>9, <3>2, <5>1, <5>2
        <5> HIDE DEF P
        <5> QED  BY <5>3, ConcatEmptySeq
      <4>6. P(a) = P(p - 1) \o L(y, (b - 1) - 1)
        BY <3>4, <4>3
      <4> HIDE DEF P
      <4> QED  BY <4>3, <4>5, <4>6
    <3>9. CASE tok[a + 1] # Close
      <4>1. e # a + 1 /\ e - 1 \in E[a + 1]
        BY <3>1, <3>2, <3>9
      <4>2. e \in 1..n /\ e - 1 \in 0..n /\ a + 1 \in 1..n /\ a + 1 > p /\ a + 1 # 1 /\ (a + 1) - 1 = a
        <5>1. e \in 1..n /\ e - 1 \in 0..n /\ a + 1 \in 1..(n + 2) /\ a + 1 > p /\ a + 1 # 1 /\ (a + 1) - 1 = a
          BY <1>1, <2>0, <3>2
        <5>2. e - 1 \in EndsAt(tok, Ends(tok), a + 1)
          BY <1>1, <4>1, <5>1, EndsDefined
        <5>3. e - 1 \in (a + 1)..n
          BY <5>2 DEF EndsAt
        <5> QED  BY <1>1, <5>1, <5>3
      <4>3. x.kids = <<y, z>> /\ z \in T
        BY <1>3, <3>7, <3>9, <4>2
      <4>4. b - 1 \in Nat \ {0} /\ (b - 1) - 1 \in Nat /\ Full(y, b - 1) /\ Full(z, b - 1)
            /\ NodesAt(x, b - 1) = NodesAt(y, (b - 1) - 1) \o NodesAt(z, (b - 1) - 1)
        <5> HIDE DEF x, y, z
        <5>1. Full(x, b)
          BY DEF x
        <5>2. (\A w \in T : w.kids \in Seq(T)) /\ x \in T /\ y \in T /\ z \in T /\ x.kids = <<y, z>>
          BY <1>3, <2>0, <3>5, <4>3
        <5>3. x.kids[1] = y /\ x.kids[2] = z
          BY <5>2
        <5> HIDE DEF T
        <5>4. x.kids[1] \in T /\ x.kids[2] \in T /\ x.kids = <<x.kids[1], x.kids[2]>>
          BY <5>2, <5>3
        <5>5. /\ b - 1 \in Nat \ {0} /\ (b - 1) - 1 \in Nat /\ Full(x.kids[1], b - 1) /\ Full(x.kids[2], b - 1)
              /\ NodesAt(x, b - 1) = NodesAt(x.kids[1], (b - 1) - 1) \o NodesAt(x.kids[2], (b - 1) - 1)
          BY <5>1, <5>2, <5>4, FullTwo
        <5> QED  BY <5>3, <5>5
      <4> DEFINE c == (b - 1) - 1
      <4>6. L(x, b - 1) = L(y, c) \o L(z, c)
        <5>1. NodesAt(y, c) \in Seq(T) /\ NodesAt(z, c) \in Seq(T)
          BY <1>10, <3>5, <4>3, <4>4
        <5> HIDE DEF c
        <5> QED  BY <4>4, <5>1, LabelsConcat DEF c
      <4>7. P(e) = P(e - 1)
        <5>1. s[e] = <<>>
          BY <1>7, <3>2, <4>2
        <5>2. P(e) = P(e - 1) \o <<>> /\ P(e - 1) \in Seq(W)
          BY <1>9, <4>2, <5>1
        <5> HIDE DEF P
        <5> QED  BY <5>2, ConcatEmptySeq
      <4>8. P(e - 1) = P(a) \o L(z, c)
        <5>1. Done(a + 1)
          BY <1>11, <4>2
        <5>2. tok[(a + 1) - 1] # Open
          <6>1. tok[a] # Open
            BY <1>6, <3>2
          <6> QED  BY <4>2, <6>1
        <5>3. P(e - 1) = P((a + 1) - 1) \o L(z, c)
          <6> HIDE DEF P, L
          <6> QED  BY <4>1, <4>4, <5>1, <5>2
        <5> HIDE DEF P, L
        <5> QED  BY <4>2, <5>3
      <4>9. P(a) = P(p - 1) \o L(y, c)
        BY <3>4, <4>4
      <4>10. P(p - 1) \in Seq(W) /\ L(y, c) \in Seq(W) /\ L(z, c) \in Seq(W)
        BY <1>9, <1>10, <2>0, <3>5, <4>3, <4>4
      <4> HIDE DEF P, L, c, x, y, z
      <4>11. (P(p - 1) \o L(y, c)) \o L(z, c) = P(p - 1) \o (L(y, c) \o L(z, c))
        BY <4>10, ConcatAssociative
      <4>12. P(e) = P(p - 1) \o L(x, b - 1)
        BY <4>6, <4>7, <4>8, <4>9, <4>11
      <4> QED  BY <4>12 DEF x
    <3> QED  BY <3>8, <3>9
  <2> QED  BY <2>1, <2>2
<1> DEFINE S == {k \in Nat : \A p \in 1..n : p + k > n => Done(p)}
<1> HIDE DEF Done
<1>12. n \in S
  <2>1. 0 \in S
    <3>1. \A p \in 1..n : ~(p + 0 > n)
      BY <1>1
    <3> QED  BY <3>1
  <2>2. ASSUME NEW k \in Nat, k \in S PROVE k + 1 \in S
    <3>1. ASSUME NEW p \in 1..n, p + (k + 1) > n PROVE Done(p)
      <4>1. \A q \in 1..n : q > p => q + k > n
        BY <1>1, <3>1
      <4> QED  BY <1>11, <2>2, <4>1
    <3> QED  BY <3>1
  <2> HIDE DEF S
  <2> QED  BY <1>1, <2>1, <2>2, SetInduction
<1>13. Done(1)
  <2>1. 1 + n > n
    BY <1>1
  <2> QED  BY <1>2, <1>12, <2>1
<1>14. Full(f[1].tree, d)
  BY <1>2, NodeRead, EvenDown
<1>15. P(n) = P(1 - 1) \o L(f[1].tree, d - 1)
  <2> HIDE DEF P, L
  <2> QED  BY <1>0, <1>1, <1>13, <1>14 DEF Done
<1>16. L(f[1].tree, d - 1) \in Seq(W) /\ P(1 - 1) = <<>>
  <2>1. d - 1 \in Nat /\ 1 - 1 = 0 /\ f[1].tree \in T
    BY <1>0, <1>2, <1>3
  <2> QED  BY <1>10, <2>1
<1>17. P(n) = L(f[1].tree, d - 1)
  <2> HIDE DEF P, L
  <2> QED  BY <1>15, <1>16, ConcatEmptySeq
<1> QED  BY <1>2, <1>9, <1>17

-----------------------------------------------------------------------------
(* Names, trees and counts stay as they were made, also where loading has  *)
(* stopped.                                                                *)
FInv == HaveTags => Planted /\ depth # 0 /\ numSub = CountsOf(trees, depth)

(* It is kept.                                                             *)
LEMMA FInvNext == TInv /\ CInv /\ CInv' /\ FInv /\ [Next]_vars => FInv'
<1> SUFFICES ASSUME TInv, CInv, CInv', FInv, [Next]_vars PROVE FInv'
  OBVIOUS
<1>1. CASE UNCHANGED tagVars
  BY <1>1 DEF tagVars, FInv, HaveTags, Planted, Numbered, RootTag
<1>2. CASE (Starting("splits") /\ StartSplits(File("splits"))) \/ LoadLine \/ CheckNothing \/ CheckDepth \/ AddRoot
  <2>1. pc \in NoTags \cup {"splits", "root"} /\ numSub' = numSub
    BY <1>2 DEF Starting, Starts, LexiconRead, StartSplits, LoadLine, CheckNothing, CheckDepth, AddRoot, tagVars, NoTags
  <2>2. numSub = <<>>
    BY <2>1 DEF TInv, TreesOK
  <2> QED  BY <2>1, <2>2 DEF FInv, HaveTags
<1>3. CASE CountSubtags
  <2>1. pc = "count" /\ pc' = "tagged" /\ depth' = depth
    BY <1>3 DEF CountSubtags
  <2>2. depth # 0
    BY <2>1 DEF TInv, TreesOK, NoTags, Stopped
  <2> QED  BY <2>1, <2>2 DEF CInv, FInv, NoTags, Stopped
<1>4. LoadsNoTags => UNCHANGED tagVars
  BY Moves
<1> QED  BY <1>1, <1>2, <1>3, <1>4 DEF Next, LoadsNoTags, LoadSplits, TagsNext, vars

(* It holds of all states.                                                 *)
LEMMA ForestInvariance == Spec => []FInv
<1>1. Init => CInv /\ FInv
  BY DEF Init, TagsInit, CInv, FInv, HaveTags, NoTags
<1>2. Spec => []IInv /\ []TInv
  BY Invariance, TypeInvariance, PTL
<1>3. Spec => []CInv
  BY <1>1, <1>2, CInvNext, PTL DEF Spec
<1> QED  BY <1>1, <1>2, <1>3, FInvNext, PTL DEF Spec

(* Every tree is as deep as the file says, and numbered level by level.    *)
LEMMA TreesNumbered ==
  ASSUME IInv, TInv, UInv, Planted, depth # 0, NEW t \in DOMAIN trees
  PROVE  /\ IsNode(trees[t]) /\ EvenTo(trees[t], depth)
         /\ \A k \in 0..(depth - 1) : Range(Labels(NodesAt(trees[t], k))) = 0..(Len(NodesAt(trees[t], k)) - 1)
<1>1. /\ trees \in Seq(Range(trees)) /\ splits \in Seq(Range(splits)) /\ depth \in 1..MaxDepth /\ MaxDepth \in Nat
  BY DepthAssumption DEF IInv, TagsOK, TInv, TreesOK, SplitsOK
<1>2. /\ Len(splits) \in Nat /\ DOMAIN splits = 1..Len(splits) /\ DOMAIN trees = 1..(Len(splits) + 1)
      /\ \A i \in DOMAIN splits : trees[i] = MakeSubtagTree(splits[i].tokens)
      /\ trees[Len(splits) + 1] = RootTree(depth)
  BY <1>1, LenProperties DEF Planted
<1>3. AllEven(trees) /\ depth = DepthOf(trees[1])
  BY <1>1 DEF UInv, Rejects
<1>4. EvenTo(trees[t], depth)
  BY <1>3 DEF AllEven
<1>5. CASE t \in DOMAIN splits
  <2> DEFINE tok == splits[t].tokens
  <2>1. IsSExpression(tok) /\ LevelsNumbered(tok) /\ trees[t] = MakeSubtagTree(tok)
    BY <1>2, <1>5 DEF UInv
  <2> HIDE DEF tok
  <2>2. IsNode(trees[t])
    BY <2>1, NodeRead
  <2>3. \A k \in 0..(depth - 1) : k \in 0..(MaxDepth - 1)
    BY <1>1
  <2>4. \A k \in 0..(depth - 1) : Range(Labels(NodesAt(trees[t], k))) = 0..(Len(NodesAt(trees[t], k)) - 1)
    BY <2>1, <2>3 DEF LevelsNumbered
  <2> QED  BY <1>4, <2>2, <2>4
<1>6. CASE t = Len(splits) + 1
  <2> DEFINE x == RootTree(depth)
  <2>1. trees[t] = x
    BY <1>2, <1>6
  <2>2. IsNode(x) /\ \A k \in 0..(depth - 1) : Len(NodesAt(x, k)) = 1 /\ NodesAt(x, k)[1].value = 0
    BY <1>1, RootEven
  <2> HIDE DEF x
  <2>3. PICK T : x \in T /\ \A y \in T : y.kids \in Seq(T)
    BY <2>2 DEF IsNode
  <2>4. ASSUME NEW k \in 0..(depth - 1) PROVE Range(Labels(NodesAt(x, k))) = 0..(Len(NodesAt(x, k)) - 1)
    <3> DEFINE v == NodesAt(x, k)
    <3>1. v \in Seq(T) /\ Len(v) = 1 /\ v[1].value = 0
      BY <1>1, <2>2, <2>3, LevelNodes
    <3> HIDE DEF v
    <3>2. DOMAIN Labels(v) = 1..1 /\ Labels(v)[1] = 0
      <4>1. Len(Labels(v)) = Len(v) /\ DOMAIN Labels(v) = 1..Len(v) /\ \A i \in 1..Len(v) : Labels(v)[i] = v[i].value
        BY <3>1, LabelsOf
      <4> QED  BY <3>1, <4>1
    <3>3. Range(Labels(v)) = {0} /\ 0..(1 - 1) = {0}
      BY <3>2 DEF Range
    <3> QED  BY <3>1, <3>3 DEF v
  <2> QED  BY <1>4, <2>1, <2>2, <2>4
<1> QED  BY <1>2, <1>5, <1>6

(* What Forest says of the tables of two levels of a tag.                  *)
LEMMA LevelTables ==
  ASSUME IInv, TInv, UInv, Planted, depth # 0, numSub = CountsOf(trees, depth), NEW l \in 0..(depth - 2), NEW t \in TagIds
  PROVE  /\ FineToCoarse(l)[t] \in [Sub(t, l + 1) -> Sub(t, l)]
         /\ \A p \in Sub(t, l) :
              /\ CoarseToFineMaps(l)[t][p] # <<>> /\ IsInjective(CoarseToFineMaps(l)[t][p])
              /\ Range(CoarseToFineMaps(l)[t][p]) = {s \in Sub(t, l + 1) : FineToCoarse(l)[t][s] = p}
<1> DEFINE K == NodesAt(trees[t], l)
           F == NodesAt(trees[t], l + 1)
<1>1. depth \in 1..MaxDepth /\ MaxDepth \in Nat /\ depth \in Nat
  BY DepthAssumption DEF TInv, TreesOK
<1>2. l \in Nat /\ l \in 0..(depth - 1) /\ l + 1 \in 0..(depth - 1) /\ l \in 0..MaxDepth /\ l # depth - 1
  BY <1>1
<1>3. t \in DOMAIN trees
  BY DEF TagIds
<1>4. /\ IsNode(trees[t]) /\ EvenTo(trees[t], depth)
      /\ \A k \in 0..(depth - 1) : Range(Labels(NodesAt(trees[t], k))) = 0..(Len(NodesAt(trees[t], k)) - 1)
  BY <1>3, TreesNumbered
<1>5. PICK T : trees[t] \in T /\ \A y \in T : y.kids \in Seq(T)
  BY <1>4 DEF IsNode
<1>6. K \in Seq(T) /\ F = KidsOf(K) /\ \A j \in DOMAIN K : K[j].kids # <<>>
  <2>1. K \in Seq(T)
    BY <1>2, <1>5, LevelNodes
  <2>2. F = KidsOf(K)
    BY <1>2, Levels DEF KidsOf
  <2>3. \A j \in DOMAIN K : K[j].kids # <<>>
    BY <1>2, <1>4 DEF EvenTo
  <2> QED  BY <2>1, <2>2, <2>3
<1>7. Range(Labels(K)) = 0..(Len(K) - 1) /\ Range(Labels(F)) = 0..(Len(F) - 1)
  BY <1>2, <1>4
<1>8. Sub(t, l) = 0..(Len(K) - 1) /\ Sub(t, l + 1) = 0..(Len(F) - 1)
  <2>1. \A k \in 0..(depth - 1) : numSub[t][k] = Len(NodesAt(trees[t], k))
    BY <1>3 DEF CountsOf
  <2> QED  BY <1>2, <2>1 DEF Sub
<1>9. FineToCoarse(l)[t] = UpOf(K, F)
  <2>1. FineToCoarse(l)[t] = [s \in Sub(t, l + 1) |-> IF Over(K, s) = {} THEN -1 ELSE (CHOOSE n \in Over(K, s) : TRUE).value]
    BY DEF FineToCoarse, Over
  <2> QED  BY <1>8, <2>1 DEF UpOf
<1>10. \A p \in Sub(t, l + 1) : CoarseToFineMaps(l)[t][p] = DownTo(K, p)
  BY DEF CoarseToFineMaps, DownTo
<1> HIDE DEF K, F
<1>11. /\ Len(K) <= Len(F) /\ UpOf(K, F) \in [0..(Len(F) - 1) -> 0..(Len(K) - 1)]
       /\ \A p \in 0..(Len(K) - 1) :
            /\ DownTo(K, p) # <<>> /\ IsInjective(DownTo(K, p))
            /\ Range(DownTo(K, p)) = {s \in 0..(Len(F) - 1) : UpOf(K, F)[s] = p}
  BY <1>5, <1>6, <1>7, LevelRefined
<1>12. \A p \in Sub(t, l) : CoarseToFineMaps(l)[t][p] = DownTo(K, p)
  <2>1. Len(K) \in Nat /\ Len(F) \in Nat
    <3>1. trees[t] \in T /\ \A k \in Nat : NodesAt(trees[t], k) \in Seq(T)
      BY <1>5, LevelNodes
    <3>2. F \in Seq(T)
      BY <1>2, <3>1 DEF F
    <3> QED  BY <1>6, <3>2, LenProperties
  <2>2. \A p \in 0..(Len(K) - 1) : p \in 0..(Len(F) - 1)
    BY <1>11, <2>1
  <2> QED  BY <1>8, <1>10, <2>2
<1> QED  BY <1>8, <1>9, <1>11, <1>12

(* The tables are read off every tree at all its levels.                   *)
LEMMA ForestGrown == IInv /\ TInv /\ UInv /\ FInv => Forest
<1> SUFFICES ASSUME IInv, TInv, UInv, FInv, HaveTags PROVE Forest
  BY DEF Forest
<1>1. Planted /\ depth # 0 /\ numSub = CountsOf(trees, depth)
  BY DEF FInv
<1>2. /\ trees \in Seq(Range(trees)) /\ splits \in Seq(Range(splits)) /\ tags \in Seq(Range(tags))
      /\ depth \in 1..MaxDepth /\ MaxDepth \in Nat /\ depth \in Nat
  BY <1>1, DepthAssumption DEF IInv, TagsOK, TInv, TreesOK, SplitsOK
<1>3. /\ Len(splits) \in Nat /\ DOMAIN splits = 1..Len(splits) /\ DOMAIN trees = 1..(Len(splits) + 1)
      /\ Len(tags) = Len(splits) + 1 /\ tags[RootTag] = "ROOT" /\ RootTag = Len(splits) + 1
      /\ \A i \in DOMAIN splits : tags[i] = splits[i].name /\ trees[i] = MakeSubtagTree(splits[i].tokens)
      /\ trees[Len(splits) + 1] = RootTree(depth)
  BY <1>1, <1>2, LenProperties DEF Planted, Numbered, RootTag
<1>4. \A t \in DOMAIN trees : \A l \in 0..(depth - 1) : numSub[t][l] = Len(NodesAt(trees[t], l))
  BY <1>1 DEF CountsOf
<1>5. ASSUME NEW i \in DOMAIN splits PROVE Labels(NodesAt(trees[i], depth - 1)) = LeafTokens(splits[i].tokens)
  <2> DEFINE tok == splits[i].tokens
  <2>1. IsSExpression(tok)
    BY DEF UInv
  <2>2. trees[i] = MakeSubtagTree(tok) /\ i \in DOMAIN trees
    BY <1>3
  <2>3. EvenTo(trees[i], depth)
    BY <1>1, <2>2, TreesNumbered
  <2> HIDE DEF tok
  <2>4. Labels(NodesAt(MakeSubtagTree(tok), depth - 1)) = LeafTokens(tok)
    BY <1>2, <2>1, <2>2, <2>3, LeavesRead
  <2> QED  BY <2>2, <2>4 DEF tok
<1>6. ASSUME NEW t \in TagIds PROVE numSub[t][0] = 1
  <2>1. 0 \in 0..(depth - 1) /\ t \in DOMAIN trees
    BY <1>2 DEF TagIds
  <2>2. NodesAt(trees[t], 0) = <<trees[t]>>
    BY Levels
  <2>3. \A v : Len(<<v>>) = 1
    OBVIOUS
  <2> QED  BY <1>4, <2>1, <2>2, <2>3
<1>7. ASSUME NEW l \in 0..(depth - 1) PROVE numSub[RootTag][l] = 1
  <2>1. RootTag \in DOMAIN trees /\ trees[RootTag] = RootTree(depth)
    BY <1>3
  <2>2. Len(NodesAt(RootTree(depth), l)) = 1
    BY <1>2, RootEven
  <2> QED  BY <1>4, <2>1, <2>2
<1>8. \A l \in 0..(depth - 2) : \A t \in TagIds :
        /\ FineToCoarse(l)[t] \in [Sub(t, l + 1) -> Sub(t, l)]
        /\ \A p \in Sub(t, l) :
             /\ CoarseToFineMaps(l)[t][p] # <<>> /\ IsInjective(CoarseToFineMaps(l)[t][p])
             /\ Range(CoarseToFineMaps(l)[t][p]) = {s \in Sub(t, l + 1) : FineToCoarse(l)[t][s] = p}
  BY <1>1, LevelTables
<1> QED  BY <1>3, <1>5, <1>6, <1>7, <1>8 DEF Forest

(* What is loaded is a hierarchy of subtags: no subtag that a line names   *)
(* is lost, every subtag of a level has one parent, which has it among its *)
(* children once, and at least one child, ROOT and the first level are     *)
(* whole.  The tables are written by label and by how many subtags the     *)
(* fine level has (Mapping.cc:52), so this takes what training does: the   *)
(* labels of a level are the numbers from 0.                               *)
THEOREM Hierarchy == Spec => []Forest
BY Invariance, TypeInvariance, DepthsInvariance, ForestInvariance, ForestGrown, PTL
============================================================================
