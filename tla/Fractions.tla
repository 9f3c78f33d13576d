------------------------------ MODULE Fractions ------------------------------
(* Exact arithmetic for the solvers' doubles: a number is a pair <<n, d>> in     *)
(* lowest terms with d > 0, so that two equal numbers are the same value.        *)
EXTENDS Integers, Sequences

RECURSIVE Gcd(_, _)
Gcd(a, b) == IF b = 0 THEN a ELSE Gcd(b, a % b)
Abs(a) == IF a < 0 THEN -a ELSE a

\* n / d in lowest terms, d # 0.
Q(n, d) ==
  LET g == Gcd(Abs(n), Abs(d))
      k == IF d < 0 THEN -g ELSE g
  IN IF n = 0 THEN <<0, 1>> ELSE <<n \div k, d \div k>>
Zero == <<0, 1>>
One == <<1, 1>>
Plus(x, y) == Q(x[1] * y[2] + y[1] * x[2], x[2] * y[2])
Minus(x, y) == Q(x[1] * y[2] - y[1] * x[2], x[2] * y[2])
Times(x, y) == Q(x[1] * y[1], x[2] * y[2])
Over(x, y) == Q(x[1] * y[2], x[2] * y[1])
Less(x, y) == x[1] * y[2] < y[1] * x[2]
Larger(x, y) == IF Less(x, y) THEN y ELSE x
Smaller(x, y) == IF Less(y, x) THEN y ELSE x

\* The sum and the product of a sequence of numbers.  Concatenation makes it a tuple once,
\* where TLC would otherwise compute the elements again for every Head and Tail.
RECURSIVE SumOf(_)
SumOf(s) == IF s = <<>> THEN Zero ELSE Plus(Head(s), SumOf(Tail(s)))
SumQ(s) == SumOf(<<>> \o s)
RECURSIVE ProductOf(_)
ProductOf(s) == IF s = <<>> THEN One ELSE Times(Head(s), ProductOf(Tail(s)))
ProductQ(s) == ProductOf(<<>> \o s)
\* The sum of x[i] * y[i].
Dot(x, y) == SumQ([i \in 1 .. Len(x) |-> Times(x[i], y[i])])
=============================================================================
