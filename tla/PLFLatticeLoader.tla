-------------------------- MODULE PLFLatticeLoader --------------------------
(***************************************************************************)
(* PLFLatticeLoader::getNextData: one line of the Python lattice format,   *)
(* as in  ((('a',0.5,1),('b',0.5,2),),(('c',1,1),),)  is read into a       *)
(* Lattice.  A line is a sequence of tokens [kind, ...]: open, close,      *)
(* comma, word [text], number [value] of one digit with or without a sign, *)
(* and other for what is none of these.  Spaces are skipped between tokens *)
(* and are not kept, so that the digits of adjacent numbers join up.       *)
(***************************************************************************)
EXTENDS Lattice

CONSTANTS Lines,   \* lines of an input
          Columns  \* lattices of which some of the lines are written

VARIABLES
  pc,     \* what is read next
  line,   \* the line that is read
  pos,    \* of the next token
  begin,  \* the number of the column, the first node of its edges
  list,   \* edge_list_ of the lattice
  word, score  \* of the edge that is read
vars == <<pc, line, pos, begin, list, word, score>>

Init == pc = "ready" /\ line = <<>> /\ pos = 1 /\ begin = 0 /\ list = <<>> /\ word = "" /\ score = 0

At(p, kind) == line[p].kind = kind

(* Mutant: the end of the line is not noticed.                             *)
CanSkipAlways(p) == TRUE

(* skip() from a token throws if it is the last.                           *)
CanSkip(p) == p < Len(line)

SkipComma(p) == IF At(p, "comma") THEN p + 1 ELSE p

Idle == pc \in {"ready", "returned", "error"}

Fail == pc' = "error" /\ UNCHANGED <<line, pos, begin, list, word, score>>

-----------------------------------------------------------------------------
EndOfStream ==
  /\ Idle
  /\ pc' = "end"
  /\ UNCHANGED <<line, pos, begin, list, word, score>>

(* An empty line is an empty lattice.                                      *)
GetLine ==
  /\ Idle
  /\ line' \in Lines
  /\ pos' = 1 /\ begin' = 0 /\ list' = <<>> /\ word' = "" /\ score' = 0
  /\ pc' = IF line' = <<>> THEN "returned" ELSE "lattice"

(* A parenthesis and what follows it.                                      *)
Open(from, to) ==
  /\ pc = from /\ ~(from = "columns" /\ At(pos, "close"))
  /\ IF At(pos, "open") /\ CanSkip(pos)
       THEN pos' = pos + 1 /\ pc' = to /\ UNCHANGED <<line, begin, list, word, score>>
       ELSE Fail

OpenEdge ==
  /\ pc = "column" /\ ~At(pos, "close")
  /\ IF /\ At(pos, "open") /\ CanSkip(pos)
        /\ At(pos + 1, "word") /\ CanSkip(pos + 1)
        /\ At(pos + 2, "comma") /\ CanSkip(pos + 2)
       THEN /\ word' = line[pos + 1].text
            /\ pos' = pos + 3 /\ pc' = "score"
            /\ UNCHANGED <<line, begin, list, score>>
       ELSE Fail

(* The numbers from pos on, up to what is none or has a sign, are one text *)
(* for stof and stoi, which ignore what follows it.                        *)
Number ==
  LET first == line[pos].value
      digits == {q \in (pos + 1)..Len(line) : \A p \in (pos + 1)..q : At(p, "number") /\ line[p].value >= 0}
      join(n, q) == 10 * n + (IF first < 0 THEN -line[q].value ELSE line[q].value)
  IN  FoldLeft(join, first, SetToSortSeq(digits, <))

(* The tokens up to one of some kinds.                                     *)
Ends(kinds) == {p \in pos..Len(line) : line[p].kind \in kinds}
End(kinds) == CHOOSE p \in Ends(kinds) : \A q \in Ends(kinds) : p <= q
HasNumber(kinds) == Ends(kinds) # {} /\ At(pos, "number")

ReadScore ==
  /\ pc = "score"
  /\ IF HasNumber({"comma"}) /\ CanSkip(End({"comma"}))
       THEN /\ score' = Number
            /\ pos' = End({"comma"}) + 1 /\ pc' = "span"
            /\ UNCHANGED <<line, begin, list, word>>
       ELSE Fail

(* The span is added to the unsigned column number.  What follows it is    *)
(* taken for the closing parenthesis.                                      *)
ReadSpan ==
  /\ pc = "span"
  /\ LET kinds == {"comma", "close"}
         last == SkipComma(End(kinds))
         end == (begin + Number) % Wrap
         edge == [word |-> word, score |-> score]
     IN  IF /\ HasNumber(kinds) /\ (At(End(kinds), "comma") => CanSkip(End(kinds))) /\ CanSkip(last)
            /\ ~Throws(list, begin, end, edge)
            /\ At(last + 1, "comma") => CanSkip(last + 1)
           THEN /\ list' = WithEdge(list, begin, end, edge)
                /\ pos' = SkipComma(last + 1) /\ pc' = "column"
                /\ UNCHANGED <<line, begin, word, score>>
           ELSE Fail

CloseColumn ==
  /\ pc = "column" /\ At(pos, "close")
  /\ IF CanSkip(pos) /\ (At(pos + 1, "comma") => CanSkip(pos + 1))
       THEN /\ pos' = SkipComma(pos + 1) /\ begin' = begin + 1 /\ pc' = "columns"
            /\ UNCHANGED <<line, list, word, score>>
       ELSE Fail

CloseLattice ==
  /\ pc = "columns" /\ At(pos, "close")
  /\ pc' = "returned"
  /\ UNCHANGED <<line, pos, begin, list, word, score>>

Next ==
  \/ EndOfStream \/ GetLine
  \/ Open("lattice", "columns") \/ Open("columns", "column")
  \/ OpenEdge \/ ReadScore \/ ReadSpan \/ CloseColumn \/ CloseLattice

Spec == Init /\ [][Next]_vars

-----------------------------------------------------------------------------
(* The type of every variable.                                             *)
TypeOK ==
  /\ pc \in {"ready", "lattice", "columns", "column", "score", "span", "returned", "error", "end"}
  /\ pos \in 1..(Len(line) + 1) /\ (Idle \/ pc = "end" \/ pos <= Len(line))
  /\ begin \in 0..Len(line)
  /\ \A b \in DOMAIN list : Len(list[b]) <= MaxSize

(* The line of columns of edges [word, score, span], each edge, column and *)
(* the whole in parentheses and with commas after all of them.             *)
Token(kind) == [kind |-> kind]
EdgeLine(e) == <<Token("open"), [kind |-> "word", text |-> e.word], Token("comma"), [kind |-> "number", value |-> e.score],
                 Token("comma"), [kind |-> "number", value |-> e.span], Token("close"), Token("comma")>>
ColumnLine(c) == <<Token("open")>> \o FlattenSeq([i \in DOMAIN c |-> EdgeLine(c[i])]) \o <<Token("close"), Token("comma")>>
LineOf(columns) == <<Token("open")>> \o FlattenSeq([i \in DOMAIN columns |-> ColumnLine(columns[i])]) \o <<Token("close")>>

Fits(columns) ==
  \A c \in DOMAIN columns : \A i \in DOMAIN columns[c] :
    /\ columns[c][i].span \in 1..MaxSize
    /\ \A j \in 1..(i - 1) : columns[c][j].span = columns[c][i].span => columns[c][j].word # columns[c][i].word

(* The lattice of a well-formed line has the edges of every column from    *)
(* its number to as far as they span, in their order, and its last node is *)
(* where the line ends; such a line is refused only if an edge does not go *)
(* forward or is there twice.  And of no damaged line is a lattice made    *)
(* that lacks a word of the part that was read, or has one twice; what     *)
(* follows the closing parenthesis is not looked at.                       *)
LatticeExact ==
  LET edges == FlattenSeq(FlattenSeq(list))
      spoken == {p \in 1..pos : p <= Len(line) /\ line[p].kind = "word"}
  IN  /\ pc = "returned" =>
           /\ Len(edges) = Cardinality(spoken)
           /\ {e.word : e \in Range(edges)} = {line[p].text : p \in spoken}
      /\ \A columns \in Columns : line = LineOf(columns) =>
           /\ pc = "error" => ~Fits(columns)
           /\ pc = "returned" =>
                /\ Fits(columns)
                /\ \A b \in DOMAIN columns : \A n \in 1..MaxSize :
                     LET of == SelectSeq(columns[b], LAMBDA e : e.span = n)
                     IN  EdgeList(list, b - 1, b - 1 + n) =
                           [i \in DOMAIN of |-> [word |-> of[i].word, score |-> of[i].score]]
                /\ (columns # <<>> => columns[Len(columns)] # <<>>) => NumNodes(list) = Len(columns) + 1
=============================================================================
