--------------------------- MODULE ModelProjector ---------------------------
(***************************************************************************)
(* The coarser models: ModelProjector merges the subtags of a level into   *)
(* those of the level below, weighing each by its expected count among its *)
(* group, and M1ModelProjector merges all phrasal tags of level 0 into one *)
(* symbol, which has the number of ROOT.  Counts are what NumIteration     *)
(* rounds of the transition probabilities bring from ROOT.                 *)
(***************************************************************************)
EXTENDS ModelLoader

CONSTANT NumIteration  \* NUM_ITERATION, 50 in the code

VARIABLES
  coarse,     \* lexicon_ and grammar_ of the levels below the finest
  level,      \* the level whose symbols are counted
  iteration,
  transition, \* transition_prob of the model that is projected now
  count,      \* exp_count
  m1          \* m1_lexicon_ and m1_grammar_

projectorVars == <<coarse, level, iteration, transition, count, m1>>

ProjectorInit ==
  coarse = <<>> /\ level = 0 /\ iteration = 0 /\ transition = <<>> /\ count = <<>> /\ m1 = <<>>

(* A model: the scores of the entries and, by tags and subtags, the rules. *)
FinestModel ==
  [entry |-> entry,
   score |-> [r \in {rules[i].rule : i \in DOMAIN rules} |->
                rules[CHOOSE i \in DOMAIN rules : rules[i].rule = r].score]]

Model(l) == IF l = Fine THEN FinestModel ELSE coarse[l]

Symbols(l) == UNION {{<<t, s>> : s \in Sub(t, l)} : t \in TagIds}
RootSymbol == <<RootTag, 0>>
HasEntry(t) == \E e \in DOMAIN entry : e[1] = t

-----------------------------------------------------------------------------
Children(rule) == 2..Len(rule)

(* The occurrences of a symbol below another in a rule with a score.       *)
Occurrences(model, p, c) ==
  UNION {{<<r, s, i>> : s \in {x \in DOMAIN model.score[r] : <<r[1], x[1]>> = p},
                        i \in {j \in Children(r) : r[j] = c[1]}} : r \in DOMAIN model.score}

StartProjection == level' = Fine /\ UNCHANGED <<coarse, iteration, transition, count, m1>>

MakeTransitions ==
  /\ pc = "loaded"
  /\ LET model == Model(level)
         all(p, c) == {o \in Occurrences(model, p, c) : o[2][o[3]] = c[2]}
     IN  transition' = [p \in Symbols(level) |-> [c \in Symbols(level) |->
                          SumOf(all(p, c), LAMBDA o : model.score[o[1]][o[2]])]]
  /\ count' = [i \in Symbols(level) |-> IF i = RootSymbol THEN One ELSE Zero]
  /\ iteration' = 0 /\ pc' = "iterate"
  /\ UNCHANGED <<coarse, level, m1>>

(* Mutant: ROOT has only what reaches it.                                  *)
IncomingRoot(i) == SumOf(Symbols(level), LAMBDA j : Mul(transition[j][i], count[j]))

Incoming(i) ==
  IF i = RootSymbol THEN One
  ELSE SumOf(Symbols(level), LAMBDA j : Mul(transition[j][i], count[j]))

Iterate ==
  /\ pc = "iterate" /\ iteration < NumIteration
  /\ count' = [i \in Symbols(level) |-> Incoming(i)]
  /\ iteration' = iteration + 1
  /\ UNCHANGED <<pc, coarse, level, transition, m1>>

-----------------------------------------------------------------------------
(* Mutant: the counts are divided by those of the whole tag.               *)
TagGroup(up, i) == {<<i[1], s>> : s \in Sub(i[1], level)}

(* The symbols that become one with i, and the share of i among them.      *)
Group(up, i) == {<<i[1], s>> : s \in {x \in Sub(i[1], level) : up[i[1]][x] = up[i[1]][i[2]]}}

Cond(up) == [i \in Symbols(level) |-> Div(count[i], SumOf(Group(up, i), LAMBDA j : count[j]))]

ProjectEntry(up, cond, e) ==
  [s \in Sub(e[1], level - 1) |->
     SumOf({x \in Sub(e[1], level) : up[e[1]][x] = s},
           LAMBDA x : Mul(cond[<<e[1], x>>], Model(level).entry[e][x]))]

Weighted(cond, r, s) == Mul(cond[<<r[1], s[1]>>], Model(level).score[r][s])

ProjectRule(up, cond, r) ==
  LET fine == DOMAIN Model(level).score[r]
      image(s) == [i \in DOMAIN r |-> up[r[i]][s[i]]]
  IN  [x \in UNION {Row(r, image(s), level - 1) : s \in fine} |->
         SumOf({s \in fine : image(s) = x}, LAMBDA s : Weighted(cond, r, s))]

ProjectLevel ==
  /\ pc = "iterate" /\ iteration = NumIteration /\ m1 = <<>> /\ level > 0
  /\ LET up == FineToCoarse(level - 1)
         cond == Cond(up)
     IN  coarse' = Put(coarse, level - 1,
           [entry |-> [e \in DOMAIN entry |-> ProjectEntry(up, cond, e)],
            score |-> [r \in DOMAIN Model(level).score |-> ProjectRule(up, cond, r)]])
  /\ level' = level - 1 /\ pc' = "loaded"
  /\ UNCHANGED <<iteration, transition, count, m1>>

-----------------------------------------------------------------------------
(* The tag that stands for a tag in the G-1 model.                         *)
Class(t) == IF HasEntry(t) THEN t ELSE RootTag

(* getScore(0, 0, 0) of a rule that may have no scores.                    *)
Score0(r) == LET score == Model(0).score[r]
                 zero == [i \in DOMAIN r |-> 0]
             IN  IF zero \in DOMAIN score THEN score[zero] ELSE Zero

ProjectM1 ==
  /\ pc = "iterate" /\ iteration = NumIteration /\ m1 = <<>> /\ level = 0
  /\ LET total(c) == SumOf({t \in TagIds : Class(t) = c}, LAMBDA t : count[<<t, 0>>])
         cond == [t \in TagIds |-> Div(count[<<t, 0>>], total(Class(t)))]
         ruled == DOMAIN Model(0).score
         sum(S) == SumOf(S, LAMBDA r : Mul(cond[r[1]], Score0(r)))
     IN  m1' = [binary  |-> [p \in TagIds \X TagIds |-> sum({r \in ruled :
                               Len(r) = 3 /\ Class(r[2]) = p[1] /\ Class(r[3]) = p[2]})],
                unary   |-> [c \in TagIds |-> sum({r \in ruled : Len(r) = 2 /\ Class(r[2]) = c})],
                lexicon |-> [e \in TagIds \X DOMAIN words |->
                               IF e \in DOMAIN entry THEN Model(0).entry[e][0] ELSE Zero]]
  /\ pc' = "loaded"
  /\ UNCHANGED <<coarse, level, iteration, transition, count>>

ProjectorNext == (m1 = <<>> /\ MakeTransitions) \/ Iterate \/ ProjectLevel \/ ProjectM1

-----------------------------------------------------------------------------
(* What the finest model itself says.                                      *)

Ancestor(t, s, l) ==
  (CHOOSE n \in Range(NodesAt(trees[t], l)) : s \in Range(Labels(NodesAt(n, Fine - l)))).value

Live(r, s) == Positive(FinestModel.score[r][s])

(* The symbols that at most NumIteration live rules lead to from ROOT.     *)
Reached ==
  LET model == FinestModel
      live == UNION {{<<r, s>> : s \in {x \in DOMAIN model.score[r] : Positive(model.score[r][x])}} :
                       r \in DOMAIN model.score}
      within[k \in 0..NumIteration] ==
        IF k = 0 THEN {RootSymbol}
        ELSE within[k - 1] \cup
             UNION {{<<u[1][i], u[2][i]>> : i \in 2..Len(u[1])} :
                      u \in {x \in live : <<x[1][1], x[2][1]>> \in within[k - 1]}}
  IN  within[NumIteration]

(* Every group of subtags that are merged has a member that is reached.    *)
GroupsReached(reached) ==
  LET l == IF Fine = 0 THEN 0 ELSE Fine - 1
  IN  \A t \in TagIds : \A p \in Sub(t, l) : \E s \in Sub(t, Fine) :
        Ancestor(t, s, l) = p /\ <<t, s>> \in reached

Projected == m1 # <<>>

(* A rule or an entry of a coarser level or of the G-1 model has a         *)
(* positive and finite score exactly when some rule or entry of the finest *)
(* model that it stands for has one and a parent that a parse can reach:   *)
(* what has score zero in a coarse model is pruned for good by the parser, *)
(* and a nan would make every score above it a nan.                        *)
CoarseExact ==
  LET reached == Reached
      model == FinestModel
      used(r) == {s \in DOMAIN model.score[r] : Positive(model.score[r][s]) /\ <<r[1], s[1]>> \in reached}
      usedEntry(e) == {s \in Sub(e[1], Fine) : Positive(entry[e][s]) /\ <<e[1], s>> \in reached}
  IN  Projected /\ GroupsReached(reached) =>
        /\ \A l \in 0..(Fine - 1) :
             /\ \A r \in DOMAIN model.score : \A x \in DOMAIN coarse[l].score[r] :
                  /\ Finite(coarse[l].score[r][x])
                  /\ Positive(coarse[l].score[r][x]) <=>
                       \E s \in used(r) : \A i \in DOMAIN r : Ancestor(r[i], s[i], l) = x[i]
             /\ \A r \in DOMAIN model.score : \A s \in used(r) :
                  [i \in DOMAIN r |-> Ancestor(r[i], s[i], l)] \in DOMAIN coarse[l].score[r]
             /\ \A e \in DOMAIN entry : \A x \in Sub(e[1], l) :
                  /\ Finite(coarse[l].entry[e][x])
                  /\ Positive(coarse[l].entry[e][x]) <=> \E s \in usedEntry(e) : Ancestor(e[1], s, l) = x
        /\ \A p \in TagIds \X TagIds :
             /\ Finite(m1.binary[p])
             /\ Positive(m1.binary[p]) <=> \E r \in DOMAIN model.score :
                  Len(r) = 3 /\ Class(r[2]) = p[1] /\ Class(r[3]) = p[2] /\ used(r) # {}
        /\ \A c \in TagIds :
             /\ Finite(m1.unary[c])
             /\ Positive(m1.unary[c]) <=> \E r \in DOMAIN model.score :
                  Len(r) = 2 /\ Class(r[2]) = c /\ used(r) # {}
        /\ \A e \in TagIds \X DOMAIN words :
             Positive(m1.lexicon[e]) <=> e \in DOMAIN entry /\ usedEntry(e) # {}

(* The scores of the rules and the words of a symbol.                      *)
Mass(model, p) ==
  LET ruled == UNION {{<<r, s>> : s \in {x \in DOMAIN model.score[r] : <<r[1], x[1]>> = p}} :
                        r \in DOMAIN model.score}
  IN  Add(SumOf(ruled, LAMBDA u : model.score[u[1]][u[2]]),
          SumOf({e \in DOMAIN model.entry : e[1] = p[1]}, LAMBDA e : model.entry[e][p[2]]))

(* When the scores of every symbol are a probability distribution, they    *)
(* are one at every coarser level, and so are those of the phrases of the  *)
(* G-1 model, if no phrasal tag has words of its own and no lexical tag    *)
(* has rules.                                                              *)
CoarseNormalised ==
  LET proper == \A p \in Symbols(Fine) : Mass(FinestModel, p) = One
      apart == \A r \in DOMAIN FinestModel.score : FinestModel.score[r] # <<>> => ~HasEntry(r[1])
  IN  Projected /\ GroupsReached(Reached) /\ proper =>
        /\ \A l \in 0..(Fine - 1) : \A p \in Symbols(l) : Mass(coarse[l], p) = One
        /\ apart => Add(SumOf(TagIds \X TagIds, LAMBDA p : m1.binary[p]),
                        SumOf(TagIds, LAMBDA c : m1.unary[c])) = One
=============================================================================
