----------------------------- MODULE MCMaxRule -----------------------------
(* Tags n (words), x, @x, s and ROOT.  @x is the bar of x and of itself.   *)
EXTENDS MaxRule

n == "n"  x == "x"  xbar == "@x"  s == "s"  ROOT == "ROOT"
TagsDef == {n, x, xbar, s, ROOT}
BarDef == [t \in TagsDef |-> IF t \in {x, xbar} THEN xbar ELSE "none"]

NegInftyDef == -1000

Code(t) == CASE t = n -> 0 [] t = x -> 1 [] t = xbar -> 2 [] t = s -> 3 [] OTHER -> 4

BinRules == {<<x, n, n>>, <<xbar, n, n>>, <<x, n, xbar>>, <<xbar, xbar, n>>, <<s, x, n>>, <<s, n, s>>}
UnaRules == {<<ROOT, s>>, <<s, x>>, <<x, s>>, <<x, xbar>>, <<x, n>>}

BinAnchors(rules) ==
  {u \in UNION {{<<v, r[1], r[2], r[3], m>> : v \in Spans, m \in 1..(NumWords - 1)} : r \in rules} :
     u[1][1] < u[5] /\ u[5] < u[1][2]}
UnaAnchors(rules) ==
  {u \in {<<v, r[1], r[2]>> : v \in Spans, r \in rules} : u[3] # n \/ u[1][2] = u[1][1] + 1}

(* Uneven gains from the seed k, at most hi.                               *)
Spread(k, hi, a) == hi - ((k * a) % 4)

MakeTable(bins, unas, words, abstract, k, hi) ==
  [bin |-> [u \in BinAnchors(bins) |-> Spread(k, hi, Code(u[2]) + 2 * Code(u[3]) + 3 * Code(u[4]) + u[5] + u[1][1])],
   una |-> [u \in UnaAnchors(unas) |-> Spread(k, hi, Code(u[2]) + 2 * Code(u[3]) + u[1][2])],
   lex |-> [u \in {<<<<b, b + 1>>, n>> : b \in words} |-> Spread(k, 0, u[1][1] + 1)],
   abstract |-> abstract]

TablesDef ==
  {MakeTable(BinRules, UnaRules \ drop, 0..(NumWords - 1), {}, k, hi) :
     k \in {1, 3, 5}, hi \in {0, 1}, drop \in {{}, {<<ROOT, s>>}, {<<s, x>>, <<x, s>>}}}
  \cup {MakeTable(BinRules, UnaRules, 1..(NumWords - 1), {0}, 1, 0),
        [MakeTable(BinRules, UnaRules, 1..(NumWords - 1), {0}, 1, 0)
           EXCEPT !.lex = [u \in DOMAIN @ \cup {<<<<0, 1>>, x>>} |-> -1]]}
=============================================================================
