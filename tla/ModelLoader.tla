---------------------------- MODULE ModelLoader ----------------------------
(***************************************************************************)
(* The finest model is read from two files: Lexicon::loadFromStream and    *)
(* Grammar::loadFromStream.  A grammar line sets the score of one rule     *)
(* between subtags; the rules of the same tags share one rule object,      *)
(* which is found by a search of the lists unless it is that of the line   *)
(* before.  A lexicon line adds to the scores of a tag and a word.         *)
(* Lines hold names; a name that the tag set or the word table lacks has   *)
(* the id -1, here 0.  Where the code indexes a table with it, and reads   *)
(* outside, pc is "undefined".                                             *)
(***************************************************************************)
EXTENDS TagHierarchy, Doubles

(* The lines that Berkeley's training writes, and one of another form.     *)
GrammarLine ==
  [kind : {"binary"}, rule : STRING \X STRING \X STRING, sub : Nat \X Nat \X Nat, score : Nat \X Nat]
  \cup [kind : {"unary"}, rule : STRING \X STRING, sub : Nat \X Nat, score : Nat \X Nat]
  \cup [kind : {"invalid"}, rule : {<<>>}]

VARIABLES
  words,    \* word_table_
  lexicon,  \* the lines [tag, word, scores] of the lexicon file
  grammar,  \* the lines [kind, rule, sub, score] of the grammar file
  entry,    \* entry_: the scores of <<tag, word>>, by subtag
  rules,    \* all rule objects, oldest first: [rule, score]
  parents,  \* binary_parent_ and unary_parent_: indices into rules
  children, \* unary_child_
  current   \* the rule objects of the last binary and the last unary line

modelVars == <<words, lexicon, grammar, entry, rules, parents, children, current>>

Fine == depth - 1
WordId(word) == IF word \in Range(words) THEN CHOOSE i \in DOMAIN words : words[i] = word ELSE 0

ModelInit ==
  /\ words = <<>> /\ lexicon = <<>> /\ grammar = <<>> /\ entry = <<>>
  /\ rules = <<>> /\ parents = <<>> /\ children = <<>> /\ current = <<>>

-----------------------------------------------------------------------------
StartLexicon(lines) ==
  /\ pc' = "lexicon" /\ lexicon' = lines /\ line' = 1
  /\ UNCHANGED <<words, grammar, entry, rules, parents, children, current>>

(* A map with one value set, or set anew.                                  *)
Put(map, key, value) == [k \in DOMAIN map \cup {key} |-> IF k = key THEN value ELSE map[k]]

(* Mutant: the last line of a tag and a word replaces the others.          *)
Overwritten(old, scores) == [s \in DOMAIN old |-> scores[s + 1]]

Added(old, scores) == [s \in DOMAIN old |-> Add(old[s], scores[s + 1])]

(* Mutant: a word that is not in the table gets an entry.                  *)
KnownAlways(e) == TRUE

Known(e) == e[2] # 0

(* A word that is not in the table is skipped, whatever its tag; a line    *)
(* with a wrong number of scores creates its entry and throws.             *)
LoadEntry ==
  /\ pc = "lexicon" /\ line <= Len(lexicon)
  /\ LET l == lexicon[line]
         e == <<TagId(l.tag), WordId(l.word)>>
         old == IF e \in DOMAIN entry THEN entry[e] ELSE [s \in Sub(e[1], Fine) |-> Zero]
         valid == Len(l.scores) = numSub[e[1]][Fine]
     IN  IF ~Known(e) THEN UNCHANGED <<pc, entry>>
         ELSE IF e[1] = 0 THEN pc' = "undefined" /\ UNCHANGED entry
         ELSE /\ entry' = Put(entry, e, IF valid THEN Added(old, l.scores) ELSE old)
              /\ pc' = IF valid THEN pc ELSE "error"
  /\ line' = line + 1
  /\ UNCHANGED <<words, lexicon, grammar, rules, parents, children, current>>

LexiconRead == pc = "lexicon" /\ line > Len(lexicon)

-----------------------------------------------------------------------------
(* Mutant: the child list misses the first rule.                           *)
StartGrammarUnlisted(lines) ==
  /\ pc' = "grammar" /\ grammar' = lines /\ line' = 1
  /\ rules' = <<[rule |-> <<1, 1, 1>>, score |-> <<>>], [rule |-> <<1, 1>>, score |-> <<>>]>>
  /\ parents' = [a \in {2, 3} |-> [t \in TagIds |-> IF t = 1 THEN <<4 - a>> ELSE <<>>]]
  /\ children' = [t \in TagIds |-> <<>>]
  /\ current' = [a \in {2, 3} |-> 4 - a]
  /\ UNCHANGED <<words, lexicon, entry>>

(* The loader starts with two rules without scores, of the first tag       *)
(* alone: the binary one is number 1, the unary one number 2.              *)
StartGrammar(lines) ==
  /\ pc' = "grammar" /\ grammar' = lines /\ line' = 1
  /\ rules' = <<[rule |-> <<1, 1, 1>>, score |-> <<>>], [rule |-> <<1, 1>>, score |-> <<>>]>>
  /\ parents' = [a \in {2, 3} |-> [t \in TagIds |-> IF t = 1 THEN <<4 - a>> ELSE <<>>]]
  /\ children' = [t \in TagIds |-> IF t = 1 THEN <<2>> ELSE <<>>]
  /\ current' = [a \in {2, 3} |-> 4 - a]
  /\ UNCHANGED <<words, lexicon, entry>>

Line == grammar[line]
Ids == [i \in DOMAIN Line.rule |-> TagId(Line.rule[i])]
Arity == Len(Line.rule)

Rejected == Line.kind = "invalid" \/ (Line.kind = "binary" /\ Line.rule[1] = "ROOT")
SelfLoop == Line.kind = "unary" /\ Ids[1] = Ids[2] /\ Line.sub[1] = Line.sub[2]
Outside == \E i \in DOMAIN Ids : Ids[i] = 0 \/ (Ids[i] # 0 /\ Line.sub[i] \notin Sub(Ids[i], Fine))

(* getBinaryRule and getUnaryRule: the first rule of the parent's list     *)
(* with these tags, or a new one in all its lists.                         *)
Listed(rule) == {i \in Range(parents[Len(rule)][rule[1]]) : rules[i].rule = rule}

Find(rule) == IF Listed(rule) = {} THEN Len(rules) + 1
              ELSE CHOOSE i \in Listed(rule) : \A j \in Listed(rule) : i <= j

(* Mutant: only the parent is compared.                                    *)
CachedByParent == rules[current[Arity]].rule[1] = Ids[1]

Cached == rules[current[Arity]].rule = Ids

(* The scores of a rule fill up by rows, of one parent and, if binary, one *)
(* left child: a row that has one score has zero for the others.           *)
Row(rule, sub, l) == {[sub EXCEPT ![Len(rule)] = s] : s \in Sub(rule[Len(rule)], l)}

Scored(r) ==
  [r EXCEPT !.score = [s \in DOMAIN @ \cup Row(r.rule, Line.sub, Fine) |->
     IF s = Line.sub THEN Line.score ELSE IF s \in DOMAIN @ THEN @[s] ELSE Zero]]

LoadRule ==
  /\ pc = "grammar" /\ line <= Len(grammar) /\ ~Rejected /\ ~SelfLoop /\ ~Outside
  /\ LET i == IF Cached THEN current[Arity] ELSE Find(Ids)
     IN  /\ current' = [current EXCEPT ![Arity] = i]
         /\ IF i <= Len(rules)
              THEN /\ rules' = [rules EXCEPT ![i] = Scored(@)]
                   /\ UNCHANGED <<parents, children>>
              ELSE /\ rules' = Append(rules, Scored([rule |-> Ids, score |-> <<>>]))
                   /\ parents' = [parents EXCEPT ![Arity][Ids[1]] = Append(@, i)]
                   /\ children' = IF Arity = 2 THEN [children EXCEPT ![Ids[2]] = Append(@, i)]
                                               ELSE children
  /\ line' = line + 1
  /\ UNCHANGED <<pc, words, lexicon, grammar, entry>>

(* A unary rule from a subtag to itself is left out.                       *)
SkipSelfLoop ==
  /\ pc = "grammar" /\ line <= Len(grammar) /\ ~Rejected /\ SelfLoop
  /\ line' = line + 1
  /\ UNCHANGED <<pc, modelVars>>

RejectLine ==
  /\ pc = "grammar" /\ line <= Len(grammar) /\ Rejected
  /\ pc' = "error"
  /\ UNCHANGED <<line, modelVars>>

(* A tag or subtag that is not there indexes a list of rules, of subtag    *)
(* counts or of scores outside its bounds.                                 *)
LoadOutside ==
  /\ pc = "grammar" /\ line <= Len(grammar) /\ ~Rejected /\ ~SelfLoop /\ Outside
  /\ pc' = "undefined"
  /\ UNCHANGED <<line, modelVars>>

EndGrammar ==
  /\ pc = "grammar" /\ line > Len(grammar)
  /\ pc' = "loaded"
  /\ UNCHANGED <<line, modelVars>>

ModelNext == LoadEntry \/ LoadRule \/ SkipSelfLoop \/ RejectLine \/ LoadOutside \/ EndGrammar

-----------------------------------------------------------------------------
GrammarRead == rules # <<>> /\ pc \notin {"grammar", "error", "undefined"}

ModelTypeOK ==
  /\ \A e \in DOMAIN entry : e[1] \in TagIds /\ e[2] \in DOMAIN words /\ DOMAIN entry[e] = Sub(e[1], Fine)
  /\ \A i \in DOMAIN rules : Len(rules[i].rule) \in {2, 3} /\ Range(rules[i].rule) \subseteq TagIds
  /\ \A a \in DOMAIN current : current[a] \in DOMAIN rules

(* The score of a rule between subtags is that of its last line, wherever  *)
(* in the file the other lines of its tags are; no other rule has a        *)
(* positive score, a unary rule from a subtag to itself least of all, and  *)
(* no tags have two rule objects, of which the parser would use both.      *)
GrammarExact ==
  LET ids(k) == [j \in DOMAIN grammar[k].rule |-> TagId(grammar[k].rule[j])]
      loop(k) == Len(ids(k)) = 2 /\ ids(k)[1] = ids(k)[2] /\ grammar[k].sub[1] = grammar[k].sub[2]
      lines(r, s) == {k \in DOMAIN grammar : ids(k) = r /\ grammar[k].sub = s /\ ~loop(k)}
  IN  GrammarRead =>
        /\ \A i, j \in DOMAIN rules : rules[i].rule = rules[j].rule => i = j
        /\ \A i \in DOMAIN rules : \A s \in DOMAIN rules[i].score :
             LET of == lines(rules[i].rule, s)
             IN  rules[i].score[s] = IF of = {} THEN Zero
                                     ELSE grammar[CHOOSE k \in of : \A j \in of : j <= k].score
        /\ \A k \in DOMAIN grammar : ~loop(k) =>
             \E i \in DOMAIN rules : rules[i].rule = ids(k) /\ grammar[k].sub \in DOMAIN rules[i].score

(* The lists agree while the file is read: every rule is once in the list  *)
(* of its parent and, if unary, once in that of its child, by which the    *)
(* unary pass up and the unary pass down meet the same rules.              *)
ListsAgree ==
  rules # <<>> =>
    /\ \A a \in {2, 3}, t \in TagIds :
         /\ IsInjective(parents[a][t])
         /\ Range(parents[a][t]) = {i \in DOMAIN rules : Len(rules[i].rule) = a /\ rules[i].rule[1] = t}
    /\ \A t \in TagIds :
         /\ IsInjective(children[t])
         /\ Range(children[t]) = {i \in DOMAIN rules : Len(rules[i].rule) = 2 /\ rules[i].rule[2] = t}

(* The sums of the scores of a subtag in the first lines of a tag and a    *)
(* word.                                                                   *)
LineSums(lines, tag, word, s) ==
  LET upto[k \in 0..Len(lines)] ==
        IF k = 0 THEN Zero
        ELSE IF lines[k].tag = tag /\ lines[k].word = word THEN Add(upto[k - 1], lines[k].scores[s + 1])
        ELSE upto[k - 1]
  IN  upto

(* The lines of a tag and a word add up, and a tag derives words only if   *)
(* one of its words is in the table: an entry for no known word would make *)
(* a phrasal tag lexical and take its rules out of every chart.            *)
LexiconExact ==
  rules # <<>> =>
    \A t \in TagIds, w \in DOMAIN words :
      /\ <<t, w>> \in DOMAIN entry <=>
           \E k \in DOMAIN lexicon : lexicon[k].tag = tags[t] /\ lexicon[k].word = words[w]
      /\ <<t, w>> \in DOMAIN entry => \A s \in Sub(t, Fine) :
           entry[<<t, w>>][s] = LineSums(lexicon, tags[t], words[w], s)[Len(lexicon)]
=============================================================================
