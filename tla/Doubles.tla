------------------------------ MODULE Doubles ------------------------------
(***************************************************************************)
(* The scores of a model: doubles that are never negative, as exact        *)
(* fractions <<num, den>> in lowest terms.  Rounding is left out; what is  *)
(* kept is how a division by zero goes on: 0/0 gives nan, x/0 gives inf,   *)
(* and both spread as in floating-point arithmetic.                        *)
(***************************************************************************)
EXTENDS Integers, FiniteSetsExt

Zero == <<0, 1>>
One  == <<1, 1>>
Inf  == <<1, 0>>
NaN  == <<0, 0>>

gcd[a \in Nat, b \in Nat] == IF b = 0 THEN a ELSE gcd[b, a % b]

Frac(n, d) == LET g == gcd[n, d] IN IF g = 0 THEN NaN ELSE <<n \div g, d \div g>>

Add(a, b) ==
  IF a = Inf /\ b = Inf THEN Inf
  ELSE IF a[2] = 0 \/ b[2] = 0 THEN Frac(a[1] * b[2] + b[1] * a[2], 0)
  ELSE LET g == gcd[a[2], b[2]]
       IN  Frac(a[1] * (b[2] \div g) + b[1] * (a[2] \div g), a[2] * (b[2] \div g))

(* Crosswise reduction keeps the products small.                           *)
Mul(a, b) == LET x == Frac(a[1], b[2])
                 y == Frac(b[1], a[2])
             IN  Frac(x[1] * y[1], x[2] * y[2])

Div(a, b) == Mul(a, <<b[2], b[1]>>)

(* A comparison with nan is false.                                         *)
Less(a, b) == a # NaN /\ b # NaN /\ a[1] * b[2] < b[1] * a[2]

Finite(a) == a[2] # 0
Positive(a) == Finite(a) /\ a[1] > 0

(* The sum of f over a set.                                                *)
SumOf(S, f(_)) == MapThenFoldSet(Add, Zero, f, LAMBDA T : CHOOSE x \in T : TRUE, S)

MaxOf(S, f(_)) == MapThenFoldSet(LAMBDA a, b : IF Less(b, a) THEN a ELSE b, Zero, f,
                                 LAMBDA T : CHOOSE x \in T : TRUE, S)
=============================================================================
