---------------------------- MODULE TagHierarchy ----------------------------
(***************************************************************************)
(* The subtags of the tags: TagSet::loadFromStream reads one S expression  *)
(* per tag, Tree holds it, and Mapping flattens two adjacent levels of all *)
(* trees into the tables by which models are projected and charts refined. *)
(* What is loaded here is what CoarseToFine and LAPCFGModel assume.  Tags  *)
(* are numbered from 1, as sequences are; the code numbers them from 0.    *)
(***************************************************************************)
EXTENDS Integers, SequencesExt

CONSTANTS
  Open, Close,  \* the tokens "(" and ")"; all others are numbers
  MaxDepth      \* bound on the depth of a tree; the code has none
ASSUME TokenAssumption == Open # Close
ASSUME DepthAssumption == MaxDepth \in Nat

(* Where the S expressions end that start at each token: a number, or a    *)
(* number and one or two S expressions in parentheses.                     *)
Ends(tok) ==
  LET ends[p \in 1..(Len(tok) + 2)] ==
        {q \in p..Len(tok) :
           \/ q = p /\ tok[p] \notin {Open, Close}
           \/ /\ tok[p] = Open /\ tok[q] = Close /\ tok[p + 1] \notin {Open, Close}
              /\ \E a \in ends[p + 2] : q = a + 1 \/ q - 1 \in ends[a + 1]}
  IN  ends

IsSExpression(tok) ==
  /\ tok \in Seq(Range(tok)) /\ Len(tok) \in Ends(tok)[1]
  /\ \A p \in DOMAIN tok : tok[p] = Open => Ends(tok)[p] # {}

(* A file, a sequence of lines [name, tokens], that Berkeley's training can *)
(* have written: names are new and not ROOT, a subtag is split in at most  *)
(* two.                                                                    *)
IsSplitsFile(f) ==
  /\ f \in Seq(Range(f))
  /\ \A i, j \in DOMAIN f : f[i].name = f[j].name => i = j
  /\ \A i \in DOMAIN f : f[i].name # "ROOT" /\ IsSExpression(f[i].tokens)

VARIABLES
  pc,       \* the step the loader is at
  line,     \* the next line of the file that is read
  splits,   \* the lines of the splits file
  tags,     \* tag_table_
  trees,    \* tree_list_
  depth, numSub

tagVars == <<splits, tags, trees, depth, numSub>>

Node(v, kids) == [value |-> v, kids |-> kids]

TagsInit == splits = <<>> /\ tags = <<>> /\ trees = <<>> /\ depth = 0 /\ numSub = <<>>

StartSplits(lines) ==
  /\ pc' = "splits" /\ splits' = lines /\ line' = 1
  /\ UNCHANGED <<tags, trees, depth, numSub>>

-----------------------------------------------------------------------------
(* Dictionary::addWord.                                                    *)
AddWord(table, w) == IF w \in Range(table) THEN table ELSE Append(table, w)

(* makeSubtagTree: a node from the token at p, and the position of its     *)
(* last token.                                                             *)
MakeSubtagTree(tok) ==
  LET make[p \in 1..Len(tok)] ==
        IF tok[p] # Open THEN [tree |-> Node(tok[p], <<>>), last |-> p]
        ELSE LET one == make[p + 2]
                 next == one.last + 1
             IN  IF tok[next] = Close THEN [tree |-> Node(tok[p + 1], <<one.tree>>), last |-> next]
                 ELSE LET two == make[next]
                      IN  [tree |-> Node(tok[p + 1], <<one.tree, two.tree>>), last |-> two.last + 1]
  IN  make[1].tree

LoadLine ==
  /\ pc = "splits" /\ line <= Len(splits)
  /\ tags' = AddWord(tags, splits[line].name)
  /\ trees' = Append(trees, MakeSubtagTree(splits[line].tokens))
  /\ line' = line + 1
  /\ UNCHANGED <<pc, splits, depth, numSub>>

(* The nodes of a tree at a depth, from left to right; the depth of a tree *)
(* by its first branch, and whether all its branches agree.                *)
NodesAt(tree, k) ==
  LET at[i \in 0..k] == IF i = 0 THEN <<tree>>
                        ELSE FlattenSeq([j \in DOMAIN at[i - 1] |-> at[i - 1][j].kids])
  IN  at[k]

IsDepth(tree, d) ==
  /\ NodesAt(tree, d - 1)[1].kids = <<>>
  /\ \A k \in 0..(d - 2) : NodesAt(tree, k)[1].kids # <<>>

DepthOf(tree) == CHOOSE d \in 1..MaxDepth : IsDepth(tree, d)

(* Mutant: only the first branch is followed.                              *)
EvenFirst(tree) == TRUE

Even(tree) ==
  LET d == DepthOf(tree)
  IN  /\ \A k \in 0..(d - 2) : \A i \in DOMAIN NodesAt(tree, k) : NodesAt(tree, k)[i].kids # <<>>
      /\ NodesAt(tree, d) = <<>>

(* checkDepth: the first tree against itself, then all trees in order.     *)
(* Without a tree it reads the first one nevertheless.                     *)
CheckNothing ==
  /\ pc = "splits" /\ splits = <<>>
  /\ pc' = "undefined"
  /\ UNCHANGED <<line, tagVars>>

CheckDepth ==
  /\ pc = "splits" /\ line > Len(splits) /\ splits # <<>>
  /\ IF \A i \in DOMAIN trees : Even(trees[i]) /\ DepthOf(trees[i]) = DepthOf(trees[1])
       THEN depth' = DepthOf(trees[1]) /\ pc' = "root"
       ELSE pc' = "error" /\ UNCHANGED depth
  /\ UNCHANGED <<line, splits, tags, trees, numSub>>

AddRoot ==
  /\ pc = "root"
  /\ tags' = AddWord(tags, "ROOT")
  /\ LET chain[d \in 1..depth] == IF d = 1 THEN Node(0, <<>>) ELSE Node(0, <<chain[d - 1]>>)
     IN  trees' = Append(trees, chain[depth])
  /\ pc' = "count"
  /\ UNCHANGED <<line, splits, depth, numSub>>

CountSubtags ==
  /\ pc = "count"
  /\ numSub' = [t \in DOMAIN trees |-> [l \in 0..(depth - 1) |-> Len(NodesAt(trees[t], l))]]
  /\ pc' = "tagged"
  /\ UNCHANGED <<line, splits, tags, trees, depth>>

(* Mutant: the subtags are numbered by position.                           *)
LabelsByPosition(nodes) == [i \in DOMAIN nodes |-> i - 1]

Labels(nodes) == [i \in DOMAIN nodes |-> nodes[i].value]

TagIds == DOMAIN trees
RootTag == Len(tags)
Sub(t, l) == 0..(numSub[t][l] - 1)

(* Mapping(l, l + 1): the labels at the fine level under each coarse node. *)
(* The code sizes the coarse side by the fine level too; the surplus stays *)
(* empty.                                                                  *)
FineToCoarse(l) ==
  [t \in TagIds |->
     LET over(s) == {n \in Range(NodesAt(trees[t], l)) : s \in Range(Labels(n.kids))}
     IN  [s \in Sub(t, l + 1) |-> IF over(s) = {} THEN -1 ELSE (CHOOSE n \in over(s) : TRUE).value]]

CoarseToFineMaps(l) ==
  [t \in TagIds |-> [s \in Sub(t, l + 1) |->
     LET nodes == NodesAt(trees[t], l)
     IN  FlattenSeq([i \in DOMAIN nodes |-> IF nodes[i].value = s THEN Labels(nodes[i].kids) ELSE <<>>])]]

(* Dictionary::getId over tag_table_; -1 is 0 here.                        *)
TagId(name) == IF name \in Range(tags) THEN CHOOSE i \in DOMAIN tags : tags[i] = name ELSE 0

TagsNext == LoadLine \/ CheckNothing \/ CheckDepth \/ AddRoot \/ CountSubtags

-----------------------------------------------------------------------------
TagsTypeOK ==
  /\ line \in Nat /\ Len(tags) = Len(trees) /\ depth \in 0..MaxDepth

HaveTags == numSub # <<>>

(* All branches of a tree end at a depth, and no sooner.                   *)
EvenTo(tree, d) ==
  \A k \in 0..MaxDepth : \A j \in DOMAIN NodesAt(tree, k) : NodesAt(tree, k)[j].kids = <<>> <=> k = d - 1

(* The numbers that stand for subtags of the finest level in a line.       *)
LeafTokens(tok) ==
  LET isLeaf(i) == tok[i] \notin {Open, Close} /\ (i = 1 \/ tok[i - 1] # Open)
  IN  FlattenSeq([i \in DOMAIN tok |-> IF isLeaf(i) THEN <<tok[i]>> ELSE <<>>])

(* The id of a name is the index of its tree, and ROOT has the last: that  *)
(* is how the grammar, the lexicon and the parser reach a tag's subtags.   *)
(* No subtag of the file is lost; every subtag of a level has one parent   *)
(* in the level below, which counts it among its children once, and none   *)
(* is left without children; level 0 and ROOT are never split.  This is    *)
(* the hierarchy that CoarseToFine and LAPCFGModel assume.                 *)
Forest ==
  HaveTags =>
    /\ Len(tags) = Len(splits) + 1 /\ tags[RootTag] = "ROOT"
    /\ \A i \in DOMAIN splits :
         /\ tags[i] = splits[i].name
         /\ Labels(NodesAt(trees[i], depth - 1)) = LeafTokens(splits[i].tokens)
    /\ \A t \in TagIds : numSub[t][0] = 1
    /\ \A l \in 0..(depth - 1) : numSub[RootTag][l] = 1
    /\ \A l \in 0..(depth - 2) :
         LET up == FineToCoarse(l)
             down == CoarseToFineMaps(l)
         IN  \A t \in TagIds :
               /\ up[t] \in [Sub(t, l + 1) -> Sub(t, l)]
               /\ \A p \in Sub(t, l) :
                    /\ down[t][p] # <<>> /\ IsInjective(down[t][p])
                    /\ Range(down[t][p]) = {s \in Sub(t, l + 1) : up[t][s] = p}

(* Loading fails exactly on trees of uneven depth, in one tag or between   *)
(* two, before any count or table is made of them: a branch that is too    *)
(* short would be indexed beyond its end.                                  *)
UnevenRejected ==
  LET even == \A i \in DOMAIN trees : EvenTo(trees[i], DepthOf(trees[1]))
  IN  /\ depth > 0 => even /\ depth = DepthOf(trees[1])
      /\ pc = "error" /\ depth = 0 /\ trees # <<>> => ~even
=============================================================================
