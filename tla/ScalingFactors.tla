--------------------------- MODULE ScalingFactors ---------------------------
(***************************************************************************)
(* By what the parser multiplies scores so that they stay in range: one    *)
(* factor per level for rules and one per word, by one of three            *)
(* strategies.  Logarithms and exponentials of finite positive scores are  *)
(* some finite positive number, here 1; what is kept is when a factor is   *)
(* inf or nan.  The word scores are those of OOVLexiconSmoother.           *)
(***************************************************************************)
EXTENDS ModelProjector

VARIABLES
  scaling,  \* the name of the strategy
  smooth,   \* smooth_unklex_
  factors   \* scaling_factor_ of the levels below level

scalingVars == <<scaling, smooth, factors>>

-----------------------------------------------------------------------------
(* OOVLexiconSmoother: the score of a word mixed with that of all words    *)
(* whose text starts with UNK.                                             *)
IsUnk(word) == word[1] = "UNK"

EntryScore(model, t, w, s) == IF <<t, w>> \in DOMAIN model.entry THEN model.entry[<<t, w>>][s] ELSE Zero

OOVScore(model, t, s) == SumOf({w \in DOMAIN words : IsUnk(words[w])}, LAMBDA w : EntryScore(model, t, w, s))

SmoothedScore(model, t, w, s) ==
  Add(Mul(Frac(smooth[2] - smooth[1], smooth[2]), EntryScore(model, t, w, s)), Mul(smooth, OOVScore(model, t, s)))

(* The same for the G-1 preparse, with its factors of words and of rules.  *)
M1Smoothed(t, w) ==
  Add(Mul(Frac(smooth[2] - smooth[1], smooth[2]), m1.lexicon[<<t, w>>]),
      Mul(smooth, SumOf({u \in DOMAIN words : IsUnk(words[u])}, LAMBDA u : m1.lexicon[<<t, u>>])))

M1WordScaling(w) ==
  LET best == MaxOf(TagIds, LAMBDA t : m1.lexicon[<<t, w>>])
  IN  IF Less(Zero, best) THEN Div(One, best) ELSE One

M1BinaryScaling == Div(One, m1.binary[<<RootTag, RootTag>>])

-----------------------------------------------------------------------------
(* getLexiconScalingFactor: a word without an id has the factor 1.         *)
LexiconFactor(l, w) == IF w = 0 THEN One ELSE factors[l + 1].lexicon[w]

SomePositive == One

Binaries(model) == {r \in DOMAIN model.score : Len(r) = 3}

HasPositive(model, r) == \E s \in DOMAIN model.score[r] : Positive(model.score[r][s])

(* One over the greatest score, or 1 if there is none.                     *)
MaxLexicon(model, w) ==
  LET best == MaxOf(Symbols(level), LAMBDA i : SmoothedScore(model, i[1], w, i[2]))
  IN  IF Less(Zero, best) THEN Div(One, best) ELSE One

(* exp(-log_prod / n), where n counts the rules with a positive score.     *)
MaxGrammar(model) == IF \E r \in Binaries(model) : HasPositive(model, r) THEN SomePositive ELSE NaN

(* The shares of the lexical and of the phrasal symbols in the counts.     *)
Share(i, lexical) ==
  IF HasEntry(i[1]) # lexical THEN Zero
  ELSE Div(count[i], SumOf({j \in Symbols(level) : HasEntry(j[1]) = lexical}, LAMBDA j : count[j]))

Scored1(model, w) == {i \in Symbols(level) : SmoothedScore(model, i[1], w, i[2]) # Zero}

(* The phrasal symbols that sumprob counts.                                *)
Parents(model) ==
  {i \in Symbols(level) : \E r \in Binaries(model) : r[1] = i[1] /\
     \E s \in DOMAIN model.score[r] : s[1] = i[2] /\ Positive(model.score[r][s])}

(* Mutant: the shares are those of the phrasal symbols.                    *)
HarmonicOfPhrases(model, w) ==
  Div(One, SumOf(Scored1(model, w), LAMBDA i : Mul(Share(i, FALSE), SmoothedScore(model, i[1], w, i[2]))))

HarmonicLexicon(model, w) ==
  Div(One, SumOf(Scored1(model, w), LAMBDA i : Mul(Share(i, TRUE), SmoothedScore(model, i[1], w, i[2]))))

HarmonicGrammar(model) == Div(One, SumOf(Parents(model), LAMBDA i : Mul(Share(i, FALSE), SomePositive)))

(* exp of a sum over shares, which is nan only if one of them is.          *)
GeometricLexicon(model, w) ==
  IF \E i \in Scored1(model, w) : NaN \in {Share(i, TRUE), SmoothedScore(model, i[1], w, i[2])}
    THEN NaN ELSE SomePositive

GeometricGrammar(model) == IF \E i \in Parents(model) : Share(i, FALSE) = NaN THEN NaN ELSE SomePositive

-----------------------------------------------------------------------------
(* The factors of the levels are made from level 0 up; all but "max" count *)
(* the symbols of the level first, as ModelProjector does.                 *)
Counted == pc = "iterate" /\ iteration = NumIteration /\ m1 # <<>>

AddFactors(word(_), rule) ==
  /\ factors' = Append(factors, [lexicon |-> [w \in DOMAIN words |-> word(w)], grammar |-> rule])
  /\ IF level = Fine THEN pc' = "scaled" /\ UNCHANGED level ELSE pc' = "loaded" /\ level' = level + 1
  /\ UNCHANGED <<coarse, iteration, transition, count, m1, scaling, smooth>>

CountForFactors ==
  /\ m1 # <<>> /\ scaling \in {"geometric", "harmonic"}
  /\ MakeTransitions
  /\ UNCHANGED scalingVars

MakeMax ==
  /\ pc = "loaded" /\ m1 # <<>> /\ scaling = "max"
  /\ AddFactors(LAMBDA w : MaxLexicon(Model(level), w), MaxGrammar(Model(level)))

MakeGeometric ==
  /\ Counted /\ scaling = "geometric"
  /\ AddFactors(LAMBDA w : GeometricLexicon(Model(level), w), GeometricGrammar(Model(level)))

MakeHarmonic ==
  /\ Counted /\ scaling = "harmonic"
  /\ AddFactors(LAMBDA w : HarmonicLexicon(Model(level), w), HarmonicGrammar(Model(level)))

UnknownStrategy ==
  /\ pc = "loaded" /\ m1 # <<>> /\ scaling \notin {"max", "geometric", "harmonic"}
  /\ pc' = "error"
  /\ UNCHANGED <<projectorVars, scalingVars>>

ScalingNext == CountForFactors \/ MakeMax \/ MakeGeometric \/ MakeHarmonic \/ UnknownStrategy

-----------------------------------------------------------------------------
(* Where every group of merged subtags can be reached, a word that an entry *)
(* of a reachable symbol derives, or that smoothing gives a share of the   *)
(* UNK entries of one, has finite scores at every level, and a positive    *)
(* one for a tag, even if it is a word without an id: a factor of inf      *)
(* would make the zero scores of the other tags nan and with them the      *)
(* whole chart.  Likewise the factor of the rules, if a reachable tag has  *)
(* a binary rule, and of the G-1 preparse, which reads words with an id,   *)
(* if one has a binary rule over two phrases.                              *)
FactorsUsable ==
  LET reached == Reached
      derives(w) == \E e \in DOMAIN entry : e[2] = w /\ \E s \in Sub(e[1], Fine) :
                      Positive(entry[e][s]) /\ <<e[1], s>> \in reached
      useful(w) == \/ smooth # One /\ derives(w)
                   \/ smooth # Zero /\ \E u \in DOMAIN words : IsUnk(words[u]) /\ derives(u)
      usable(r) == \E s \in DOMAIN FinestModel.score[r] : Live(r, s) /\ <<r[1], s[1]>> \in reached
      binaries == {r \in Binaries(FinestModel) : usable(r)}
  IN  pc = "scaled" /\ GroupsReached(reached) =>
        /\ \A l \in 0..Fine :
             LET terminal(i, w) == Mul(LexiconFactor(l, w), SmoothedScore(Model(l), i[1], w, i[2]))
             IN  /\ \A w \in DOMAIN words \cup {0} : useful(w) =>
                      /\ \A i \in Symbols(l) : Finite(terminal(i, w))
                      /\ \E i \in Symbols(l) : Positive(terminal(i, w))
                 /\ binaries # {} => Positive(factors[l + 1].grammar)
        /\ \A w \in DOMAIN words : useful(w) =>
             LET terminal(t) == Mul(M1WordScaling(w), M1Smoothed(t, w))
             IN  (\A t \in TagIds : Finite(terminal(t))) /\ \E t \in TagIds : Positive(terminal(t))
        /\ (\E r \in binaries : ~HasEntry(r[2]) /\ ~HasEntry(r[3])) => Positive(M1BinaryScaling)
=============================================================================
