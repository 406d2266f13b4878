--------------------------- MODULE MCLAPCFGLoader ---------------------------
(***************************************************************************)
(* Jobs for the loader.  Each family varies one aspect: the trees of the   *)
(* splits file, the lines of the grammar, those of the lexicon, the        *)
(* scores, or where the files lie; the other aspects are small and fixed.  *)
(***************************************************************************)
EXTENDS LAPCFGLoader

OpenDef == -2
CloseDef == -1

L(n, t) == [name |-> n, tokens |-> t]
B(p, l, r, subs, v) == [kind |-> "binary", rule |-> <<p, l, r>>, sub |-> subs, score |-> v]
U(p, c, subs, v) == [kind |-> "unary", rule |-> <<p, c>>, sub |-> subs, score |-> v]
E(t, w, v) == [tag |-> t, word |-> w, scores |-> v]
Half == <<1, 2>>
Quarter == <<1, 4>>

-----------------------------------------------------------------------------
(* Trees of one to four levels for one tag and for two; some have branches *)
(* of different depth.                                                     *)
Branch1(v, a) == <<OpenDef, v>> \o a \o <<CloseDef>>
Branch2(v, a, b) == <<OpenDef, v>> \o a \o b \o <<CloseDef>>

Flat1 == <<0>>
Flat == {Flat1}
Level1 == {Branch1(0, <<0>>), Branch2(0, <<0>>, <<1>>), Branch2(0, <<1>>, <<0>>)}
Level2 ==
  {Branch1(0, Branch1(0, <<0>>)), Branch1(0, Branch2(0, <<0>>, <<1>>)),
   Branch2(0, Branch1(0, <<0>>), Branch2(1, <<1>>, <<2>>)),
   Branch2(0, Branch2(0, <<0>>, <<2>>), Branch2(1, <<3>>, <<1>>)),
   Branch2(0, Branch2(1, <<0>>, <<1>>), Branch1(0, <<2>>))}
Level3 == {Branch2(0, Branch1(0, Branch2(0, <<0>>, <<1>>)), Branch2(1, Branch1(1, <<2>>), Branch2(2, <<3>>, <<4>>)))}
Uneven == {Branch2(0, Branch1(0, <<0>>), <<1>>), Branch2(0, <<1>>, Branch1(0, <<0>>)),
           Branch1(0, Branch2(0, <<0>>, Branch1(1, <<0>>)))}
Trees == Flat \cup Level1 \cup Level2 \cup Level3 \cup Uneven

UNK == <<"UNK">>
Ones(n) == [i \in 1..n |-> One]
TreeDump(f) ==
  [words |-> <<<<"a">>, UNK>>, splits |-> f,
   lexicon |-> <<E(f[1].name, <<"a">>, Ones(Len(LeafTokens(f[1].tokens))))>>,
   grammar |-> <<U("ROOT", f[1].name, <<0, 0>>, One)>>]

TreeDumps ==
  {TreeDump(<<L("S", t)>>) : t \in Trees} \cup {TreeDump(<<L("S", t), L("NP", u)>>) : t \in Trees, u \in Trees}

-----------------------------------------------------------------------------
(* Two tags of two subtags: every grammar of three lines out of these, and *)
(* every lexicon of two.  A line may name a tag or subtag there is not.    *)
TwoSplits == <<L("S", Branch2(0, <<0>>, <<1>>)), L("A", Branch2(0, <<0>>, <<1>>))>>
ABLexicon == <<E("A", <<"a">>, <<Half, One>>), E("A", UNK, <<Half, Zero>>)>>

Lines ==
  {B("S", "S", "S", <<0, 0, 1>>, Half), B("S", "A", "S", <<0, 1, 0>>, Half), B("S", "A", "S", <<1, 0, 0>>, Quarter),
   B("S", "A", "S", <<0, 1, 0>>, One), B("A", "S", "A", <<0, 0, 0>>, Half), B("ROOT", "S", "A", <<0, 0, 0>>, One),
   U("ROOT", "S", <<0, 1>>, One), U("S", "A", <<0, 0>>, Half), U("S", "A", <<1, 0>>, Quarter),
   U("S", "S", <<1, 1>>, One), U("S", "S", <<1, 0>>, Half), U("X", "Y", <<0, 0>>, One),
   B("S", "X", "A", <<0, 0, 0>>, One), U("S", "A", <<0, 2>>, One), [kind |-> "invalid", rule |-> <<>>]}

GrammarDumps ==
  {[words |-> <<<<"a">>, UNK>>, splits |-> TwoSplits, lexicon |-> ABLexicon, grammar |-> <<k, l, m>>] : k, l, m \in Lines}

Entries == {E("S", <<"a">>, <<Half, One>>), E("S", <<"a">>, <<Quarter, Zero>>), E("A", <<"a">>, <<One, One>>),
            E("A", <<"b">>, <<One, One>>), E("S", <<"a">>, <<One>>), E("X", <<"a">>, <<One, One>>)}
LexiconDumps ==
  {[words |-> <<<<"a">>, <<"a">>, UNK>>, splits |-> TwoSplits, lexicon |-> <<k, l>>,
    grammar |-> <<U("ROOT", "S", <<0, 0>>, One), U("X", "X", <<1, 1>>, One)>>] : k, l \in Entries}

-----------------------------------------------------------------------------
(* Models whose scores are distributions, over two phrasal tags and two    *)
(* lexical ones, at two levels and at three.                               *)
Split2 == Branch2(0, <<0>>, <<1>>)
Split3 == Branch2(0, Branch2(0, <<0>>, <<1>>), Branch1(1, <<2>>))

Roots == {<<U("ROOT", "S", <<0, 0>>, One)>>, <<U("ROOT", "S", <<0, 0>>, Half), U("ROOT", "S", <<0, 1>>, Half)>>}
First == {<<B("S", "A", "S", <<0, 0, 1>>, Half), B("S", "A", "A", <<0, 1, 0>>, Half)>>,
          <<B("S", "S", "A", <<0, 0, 1>>, Half), U("S", "A", <<0, 0>>, Half)>>,
          <<B("S", "S", "S", <<0, 1, 0>>, Quarter), U("S", "S", <<0, 1>>, Quarter), B("S", "A", "A", <<0, 1, 0>>, Half)>>}
Second == {<<B("S", "A", "A", <<1, 1, 0>>, One)>>,
           <<U("S", "S", <<1, 0>>, Half), B("S", "A", "S", <<1, 0, 1>>, Half)>>}
Words3 == <<<<"a">>, <<"b">>, UNK, <<"UNK", "LC">>>>
ProperLexicons ==
  {<<E("A", <<"a">>, <<Half, Zero>>), E("A", <<"b">>, <<Half, One>>)>>,
   <<E("A", <<"a">>, <<Half, One>>), E("A", UNK, <<Quarter, Zero>>), E("A", <<"UNK", "LC">>, <<Quarter, Zero>>)>>}

ProperDumps ==
  {[words |-> Words3, splits |-> <<L("A", Split2), L("S", Split2)>>, lexicon |-> x,
    grammar |-> r \o f \o g] : r \in Roots, f \in First, g \in Second, x \in ProperLexicons}

DeepRules ==
  {<<U("ROOT", "S", <<0, 0>>, Half), U("ROOT", "S", <<0, 2>>, Half),
     B("S", "A", "S", <<0, 0, 1>>, One), B("S", "A", "A", <<1, 1, 2>>, One), h, B("S", "A", "A", <<2, 2, 0>>, Half)>> :
       h \in {B("S", "A", "S", <<2, 0, 1>>, Half), U("S", "A", <<2, 1>>, Half), B("S", "S", "S", <<2, 1, 1>>, Half)}}
DeepDumps ==
  {[words |-> Words3, splits |-> <<L("A", Split3), L("S", Split3)>>, grammar |-> g,
    lexicon |-> <<E("A", <<"a">>, <<Half, One, Zero>>), E("A", UNK, <<Half, Zero, One>>)>>] : g \in DeepRules}

-----------------------------------------------------------------------------
(* Two models of different tags, each file of either of which may lie in   *)
(* any place; an archive may be cut short.                                 *)
Mine == [words |-> <<<<"a">>, UNK>>, splits |-> <<L("A", Split2), L("S", Split2)>>,
         lexicon |-> <<E("A", <<"a">>, <<One, One>>)>>,
         grammar |-> <<U("ROOT", "S", <<0, 0>>, One), B("S", "A", "A", <<0, 1, 0>>, One)>>]
Shared == [words |-> <<<<"c">>, <<"a">>, UNK>>, splits |-> <<L("A", Flat1), L("T", Flat1)>>,
           lexicon |-> <<E("T", <<"c">>, <<One>>), E("A", <<"a">>, <<One>>)>>,
           grammar |-> <<U("ROOT", "T", <<0, 0>>, One), U("T", "A", <<0, 0>>, One)>>]

All(d, kind) == [dump |-> d, length |-> Len(d[kind])]
Cut(d, kind) == [dump |-> d, length |-> Len(d[kind]) - 1]

Layouts(kind) ==
  {<<>>, [text |-> All(Mine, kind)], [gzip |-> All(Mine, kind)], [sharedGzip |-> All(Shared, kind)],
   [gzip |-> Cut(Mine, kind)], [gzip |-> All(Mine, kind), sharedText |-> All(Shared, kind)]}
MixedDisks == [words : Layouts("words"), splits : Layouts("splits"),
               lexicon : Layouts("lexicon"), grammar : Layouts("grammar")]

DiskOf(d) == [kind \in Kinds |-> [text |-> All(d, kind)]]

-----------------------------------------------------------------------------
(* Sentences: an unknown word, a known one and a tag; and for the model    *)
(* with the signatures of jdc.words a year and a name with digits, which   *)
(* has the signature UNK-INITC-NUM.                                        *)
W(text, lowered, bracketed, first, caps, lower, digit, dash, len, ending) ==
  [text |-> text, lowered |-> lowered, bracketed |-> bracketed, first |-> first, caps |-> caps,
   lower |-> lower, digit |-> digit, dash |-> dash, len |-> len, ending |-> ending]
InTable == W(<<"a">>, <<"a">>, "", "lower", 0, 1, 0, 0, 1, "none")
NotInTable == W(<<"zap">>, <<"zap">>, "", "lower", 0, 3, 0, 0, 3, "none")
TagA == W(<<"[A]">>, <<"[a]">>, "A", "other", 1, 0, 0, 0, 3, "none")

Job(disk, scale, ratio, preparse) ==
  [disk |-> disk, scaling |-> scale, smooth |-> ratio, preparse |-> preparse, partial |-> TRUE,
   sentence |-> <<NotInTable, InTable, TagA>>]

JobsDef ==
  {Job(DiskOf(d), "max", Quarter, FALSE) : d \in TreeDumps \cup GrammarDumps \cup LexiconDumps}
  \cup {Job(DiskOf(d), scale, ratio, TRUE) : d \in ProperDumps \cup DeepDumps,
          scale \in {"max", "geometric", "harmonic"}, ratio \in {Zero, Quarter}}
  \cup {Job(DiskOf(Mine), scale, ratio, TRUE) : scale \in {"max", "other"}, ratio \in {One, <<3, 2>>}}
  \cup {Job(disk, "max", Quarter, preparse) : preparse \in BOOLEAN, disk \in MixedDisks
           \cup {[DiskOf(Mine) EXCEPT !.splits = [gzip |-> [dump |-> Mine, length |-> 0]]]}}

Signatures ==
  <<UNK, <<"UNK", "LC">>, <<"UNK", "INITC">>, <<"UNK", "INITC", "KNOWNLC">>, <<"UNK", "CAPS">>, <<"UNK", "NUM">>,
    <<"UNK", "CAPS", "NUM">>, <<"UNK", "LC", "NUM">>>>
SignatureDump ==
  [Mine EXCEPT !.words = <<<<"a">>>> \o Signatures,
               !.lexicon = <<E("A", <<"a">>, <<Half, Half>>)>>
                           \o [i \in DOMAIN Signatures |-> E("A", Signatures[i], <<<<1, 16>>, <<1, 16>>>>)]]
Year == W(<<"1984">>, <<"1984">>, "", "other", 0, 0, 4, 0, 4, "none")
Name == W(<<"Covid19">>, <<"covid19">>, "", "upper", 1, 4, 2, 0, 7, "none")

UnknownJobs ==
  {[disk |-> DiskOf(SignatureDump), scaling |-> "harmonic", smooth |-> Quarter, preparse |-> preparse,
    partial |-> FALSE, sentence |-> s] : preparse \in BOOLEAN,
     s \in {<<NotInTable, Year>>, <<Year, NotInTable, Name>>, <<Name, InTable>>}}
=============================================================================
