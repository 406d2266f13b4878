------------------------------ MODULE Session ------------------------------
(***************************************************************************)
(* main: one parse and one line of output for every line of input, a timer *)
(* around the parser, and the formatters that print a tree.  How parse()   *)
(* finds a tree is CoarseToFine, ChartParser and MaxRule; here it returns  *)
(* some tree over the words, or its default parse.                         *)
(*                                                                         *)
(* Words and tags are strings without spaces; a printed line is a sequence *)
(* of the tokens "(", ")", words, tags and, for POS tags, <<word, tag>>.   *)
(***************************************************************************)
EXTENDS Integers, Sequences, FiniteSetsExt, SequencesExt

CONSTANTS Names,       \* words and tags, brackets among them
          Inputs,      \* sequences of lines; a line is a sequence of words
          TreesFor(_), \* the trees parse() may return for some words
          MaxDepth,    \* bound on the depth of a tree
          MaxLap       \* bound on the clock ticks of one parse

VARIABLES
  pc,           \* "read", "parse", "write", "done"
  input, next,  \* the lines and the number of the next one
  format, addRoot, force,  \* --output-format, --add-root-tag, --force-generate
  words,        \* the words of the current line
  parse,        \* ParserResult::best_parse
  clock, timer, \* clock(), and the Timer
  totalWords,
  output,       \* the lines written
  parses        \* history: the result of every parse

vars == <<pc, input, next, format, addRoot, force, words, parse, clock, timer, totalWords, output, parses>>
options == <<input, format, addRoot, force>>

Node(v, kids) == [value |-> v, kids |-> kids]
Leaf(v) == Node(v, <<>>)

(* The nodes of a tree, level by level, and the words at its leaves.       *)
Level(tree, k) ==
  LET at[j \in 0..MaxDepth] == IF j = 0 THEN {tree} ELSE UNION {Range(n.kids) : n \in at[j - 1]}
  IN  at[k]

Nodes(tree) == UNION {Level(tree, k) : k \in 0..MaxDepth}

Yield(tree) ==
  LET said[n \in Nodes(tree)] ==
        IF n.kids = <<>> THEN <<n.value>> ELSE FlattenSeq([i \in DOMAIN n.kids |-> said[n.kids[i]]])
  IN  said[tree]

(* A tree has names on all its nodes, and its root is above the tags of    *)
(* the words.                                                              *)
Shaped(tree) ==
  /\ \A n \in Nodes(tree) : n \in [value : Names, kids : Seq(Nodes(tree))]
  /\ \A n \in Level(tree, MaxDepth) : n.kids = <<>>
  /\ tree.kids # <<>> /\ \A i \in DOMAIN tree.kids : tree.kids[i].kids # <<>>

ASSUME NamesAssumption ==
  /\ {"(", ")", "-LRB-", "-RRB-", "-EMPTY-", "?", "ROOT"} \subseteq Names
  /\ "" \notin Names

ASSUME BoundAssumption == MaxDepth \in Nat /\ MaxDepth >= 3 /\ MaxLap \in Nat

(* Splitting a trimmed line leaves no empty word, and a parse is a tree    *)
(* over the words (Debinarized of MaxRule).                                *)
ASSUME InputAssumption ==
  /\ Inputs \subseteq Seq(Seq(Names))
  /\ \A lines \in Inputs : \A i \in DOMAIN lines :
       lines[i] # <<>> => \A t \in TreesFor(lines[i]) : Shaped(t) /\ Yield(t) = lines[i]

Init ==
  /\ pc = "read" /\ input \in Inputs /\ next = 1
  /\ format \in {"sexpr", "postag"} /\ addRoot \in BOOLEAN /\ force \in BOOLEAN
  /\ words = <<>> /\ parse = Leaf("") /\ clock = 0
  /\ timer = [running |-> FALSE, start |-> 0, elapsed |-> 0]
  /\ totalWords = 0 /\ output = <<>> /\ parses = <<>>

-----------------------------------------------------------------------------
(* getDefaultParse: for a sentence without words or without a parse.       *)
Unknown(w) == Node("?", <<Leaf(w)>>)

(* Mutant: no word stands for an empty sentence.                           *)
DefaultParseBare(ws) ==
  IF force THEN Node("ROOT", <<Node("?", [i \in DOMAIN ws |-> Unknown(ws[i])])>>)
           ELSE Leaf("")

DefaultParse(ws) ==
  IF force
    THEN Node("ROOT", <<Node("?", IF ws = <<>> THEN <<Unknown("-EMPTY-")>>
                                  ELSE [i \in DOMAIN ws |-> Unknown(ws[i])])>>)
    ELSE Leaf("")

Read ==
  /\ pc = "read" /\ next <= Len(input)
  /\ words' = input[next]
  /\ totalWords' = totalWords + Len(input[next])
  /\ next' = next + 1
  /\ ~timer.running /\ timer' = [timer EXCEPT !.running = TRUE, !.start = clock]
  /\ pc' = "parse"
  /\ UNCHANGED <<options, parse, clock, output, parses>>

(* Timer::stop.  Mutant: the difference is reversed.                       *)
LapReversed(now) == timer.start - now

Lap(now) == now - timer.start

Parse ==
  /\ pc = "parse"
  /\ \E lap \in 0..MaxLap :
       /\ clock' = clock + lap
       /\ timer.running
       /\ timer' = [timer EXCEPT !.running = FALSE, !.elapsed = @ + Lap(clock')]
       /\ \E t \in {DefaultParse(words)} \cup (IF words = <<>> THEN {} ELSE TreesFor(words)) :
            /\ parse' = t
            /\ parses' = Append(parses, t)
  /\ pc' = "write"
  /\ UNCHANGED <<options, next, words, totalWords, output>>

(* What the formatters print of a tree.                                    *)
(* Mutant: brackets are printed as they are.                               *)
EscapeNothing(v) == v

Escape(v) == IF v = "(" THEN "-LRB-" ELSE IF v = ")" THEN "-RRB-" ELSE v

SExpr(withRoot, tree) ==
  LET print[n \in Nodes(tree)] ==
        LET root == n = tree
            tag == IF n.value = "" \/ (root /\ ~withRoot /\ n.kids # <<>>) THEN <<>> ELSE <<Escape(n.value)>>
        IN  IF n.kids = <<>> THEN
              (IF tag = <<>> THEN (IF root THEN <<"(", "(", ")", ")">> ELSE <<"(", ")">>) ELSE tag)
            ELSE <<"(">> \o tag \o FlattenSeq([i \in DOMAIN n.kids |-> print[n.kids[i]]]) \o <<")">>
  IN  print[tree]

POSTags(tree) ==
  LET print[n \in Nodes(tree)] ==
        FlattenSeq([i \in DOMAIN n.kids |->
          IF n.kids[i].kids = <<>> THEN <<<<n.kids[i].value, n.value>>>> ELSE print[n.kids[i]]])
  IN  print[tree]

Write ==
  /\ pc = "write"
  /\ output' = Append(output, IF format = "sexpr" THEN SExpr(addRoot, parse) ELSE POSTags(parse))
  /\ pc' = "read"
  /\ UNCHANGED <<options, next, words, parse, clock, timer, totalWords, parses>>

EndOfInput ==
  /\ pc = "read" /\ next > Len(input)
  /\ pc' = "done"
  /\ UNCHANGED <<options, next, words, parse, clock, timer, totalWords, output, parses>>

Next == Read \/ Parse \/ Write \/ EndOfInput

Spec == Init /\ [][Next]_vars

-----------------------------------------------------------------------------
(* The type of every variable.                                             *)
TypeOK ==
  /\ pc \in {"read", "parse", "write", "done"}
  /\ input \in Inputs /\ next \in 1..(Len(input) + 1)
  /\ format \in {"sexpr", "postag"} /\ addRoot \in BOOLEAN /\ force \in BOOLEAN
  /\ clock \in Nat /\ totalWords \in Nat
  /\ timer.running \in BOOLEAN /\ timer.start \in Nat /\ timer.elapsed \in Nat
  /\ Len(output) <= Len(input) /\ Len(parses) <= Len(input)

(* What a printed line says again: the words in order.  In an S expression *)
(* a word follows no "(", a tag does.                                      *)
PrintedWords(line) ==
  IF format = "postag" THEN [i \in DOMAIN line |-> line[i][1]]
  ELSE FlattenSeq([i \in DOMAIN line |->
         IF line[i] \notin {"(", ")"} /\ i > 1 /\ line[i - 1] # "(" THEN <<line[i]>> ELSE <<>>])

(* Output stays aligned with input: line by line as it is read, whether a  *)
(* line is blank, fails or parses, and a tree that is printed has just the *)
(* words of its line, in order; the reader of the output, who knows        *)
(* nothing but line numbers, can join the two.                             *)
Aligned ==
  /\ Len(output) = (IF pc \in {"parse", "write"} THEN next - 2 ELSE next - 1)
  /\ \A k \in DOMAIN output :
       LET expected == IF input[k] = <<>> THEN (IF force THEN <<"-EMPTY-">> ELSE <<>>)
                       ELSE IF parses[k] = Leaf("") THEN <<>> ELSE input[k]
       IN  PrintedWords(output[k]) =
             [i \in DOMAIN expected |-> IF format = "sexpr" THEN Escape(expected[i]) ELSE expected[i]]

(* The expressions open after the first i tokens.                         *)
Height(line, i) == Cardinality({j \in 1..i : line[j] = "("}) - Cardinality({j \in 1..i : line[j] = ")"})

(* Every printed S expression is one balanced expression, brackets among   *)
(* the words and tags included.                                            *)
Balanced ==
  format = "sexpr" =>
    \A k \in DOMAIN output :
      /\ Height(output[k], Len(output[k])) = 0
      /\ \A i \in 1..(Len(output[k]) - 1) : Height(output[k], i) > 0
=============================================================================
