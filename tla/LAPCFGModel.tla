---------------------------- MODULE LAPCFGModel ----------------------------
(***************************************************************************)
(* The grammars a parser works with.  The loaded model is the finest one;  *)
(* generateCoarseModels projects it level by level to one subtag per tag.  *)
(*                                                                         *)
(* A symbol is a pair <<tag, subtag>>.  A model is a record of three score *)
(* tables over the rules that have an entry:                               *)
(*   bin[<<P, L, R>>], una[<<P, C>>], lex[<<P, word>>].                    *)
(* Scores are naturals: only their ratios matter.  The scaling factors     *)
(* multiply every binary rule, or every word, by one constant and a        *)
(* sentence has the same number of both in all its parses, so they cancel  *)
(* in every posterior and are left out, as are common denominators.        *)
(***************************************************************************)
EXTENDS Integers, FiniteSetsExt

CONSTANTS NumTags,    \* tags are numbered 0 .. NumTags - 1; ROOT is the last
          Depth,      \* levels 0 .. Depth - 1
          NumSub, Parent, \* the hierarchy of subtags, as in CoarseToFine
          UnkWords,   \* words of the table whose name starts with UNK
          SmoothNum, SmoothDen,  \* smooth_unklex_ as a fraction
          Cond, CondDen  \* cond_prob_ of a subtag among those merged with it:
                         \* Cond[level][symbol] / CondDen

TagIds == 0..(NumTags - 1)
RootTag == NumTags - 1
AllLevels == 0..(Depth - 1)

(* The hierarchy, as CoarseToFine assumes it.                              *)
ASSUME HierarchyAssumption ==
  /\ NumTags \in Nat \ {0} /\ Depth \in Nat \ {0}
  /\ NumSub \in [TagIds -> [AllLevels -> Nat \ {0}]]
  /\ \A t \in TagIds : NumSub[t][0] = 1
  /\ \A l \in AllLevels : NumSub[RootTag][l] = 1
  /\ \A t \in TagIds, l \in AllLevels \ {0} :
       Parent[t][l] \in [0..(NumSub[t][l] - 1) -> 0..(NumSub[t][l - 1] - 1)]

(* setUNKLexiconSmoothing refuses what is not between 0 and 1.             *)
ASSUME SmoothingAssumption ==
  SmoothDen \in Nat /\ SmoothNum \in 0..SmoothDen /\ IsFiniteSet(UnkWords)

(* The sum of f(x) over the elements of S.                                 *)
SumOver(S, f(_)) == SumFunction([x \in S |-> f(x)])

Symbols(l) == UNION {{<<t, s>> : s \in 0..(NumSub[t][l] - 1)} : t \in TagIds}

(* A model has finitely many rules, of symbols of its level and with a     *)
(* score that is not negative.                                             *)
IsModel(model, l) ==
  /\ \A f \in {model.bin, model.una, model.lex} :
       IsFiniteSet(DOMAIN f) /\ \A r \in DOMAIN f : f[r] \in Nat
  /\ \A r \in DOMAIN model.bin : r \in Symbols(l) \X Symbols(l) \X Symbols(l)
  /\ \A r \in DOMAIN model.una : r \in Symbols(l) \X Symbols(l)
  /\ \A r \in DOMAIN model.lex : r[1] \in Symbols(l)

(* Mapping: a symbol of level l and its parent one level coarser.          *)
Coarser(S, l) == <<S[1], Parent[S[1]][l][S[2]]>>

(* The subtags that are merged into one share their probability.           *)
ASSUME CondAssumption ==
  /\ CondDen \in Nat \ {0}
  /\ \A l \in AllLevels \ {0} : \A S \in Symbols(l) :
       /\ Cond[l][S] \in Nat
       /\ SumOver({P \in Symbols(l) : Coarser(P, l) = Coarser(S, l)}, LAMBDA P : Cond[l][P]) = CondDen

(* ModelProjector: a coarse rule's score is the sum over the fine rules it *)
(* stands for, weighted by the conditional probability of each fine        *)
(* parent.  The denominator is common to all binary rules and to all words *)
(* and is dropped there; the number of unary rules varies, and it stays.   *)
ProjectTable(f, Up(_), Weight(_)) ==
  [q \in {Up(r) : r \in DOMAIN f} |->
     SumOver({r \in DOMAIN f : Up(r) = q}, LAMBDA r : Weight(r) * f[r])]

Project(fine, l) ==
  LET weight(r) == Cond[l][r[1]]
      bin == ProjectTable(fine.bin, LAMBDA r : <<Coarser(r[1], l), Coarser(r[2], l), Coarser(r[3], l)>>, weight)
      una == ProjectTable(fine.una, LAMBDA r : <<Coarser(r[1], l), Coarser(r[2], l)>>, weight)
      lex == ProjectTable(fine.lex, LAMBDA r : <<Coarser(r[1], l), r[2]>>, weight)
  IN  [bin |-> bin, lex |-> lex, una |-> [q \in DOMAIN una |-> una[q] \div CondDen]]

(* generateCoarseModels: every level from the one above it.                *)
ModelsOf(finest) ==
  LET models[l \in AllLevels] ==
        IF l = Depth - 1 THEN finest ELSE Project(models[l + 1], l + 1)
  IN  [l \in AllLevels |-> models[l]]

(* Lexicon::hasEntry: the tags that derive words, and nothing but words.   *)
LexicalTags(model) == {r[1][1] : r \in DOMAIN model.lex}

(* OOVLexiconSmoother: a word's score mixed with that of the UNK words.    *)
Entry(model, P, w) == IF <<P, w>> \in DOMAIN model.lex THEN model.lex[<<P, w>>] ELSE 0

WordScore(model, P, w) ==
  (SmoothDen - SmoothNum) * Entry(model, P, w)
    + SmoothNum * SumOver(UnkWords, LAMBDA u : Entry(model, P, u))
=============================================================================
