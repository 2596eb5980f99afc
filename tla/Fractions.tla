----------------------------- MODULE Fractions -----------------------------
(* Exact fractions <<numerator, denominator>>, with a denominator above 0. *)
EXTENDS Integers, FiniteSetsExt

Num(n) == <<n, 1>>
Negative(x) == <<-x[1], x[2]>>
Less(x, y) == x[1] * y[2] < y[1] * x[2]
Same(x, y) == x[1] * y[2] = y[1] * x[2]
Plus(x, y) == <<x[1] * y[2] + y[1] * x[2], x[2] * y[2]>>
Distance(x, y) ==
    LET d == x[1] * y[2] - y[1] * x[2]
    IN  <<IF d < 0 THEN -d ELSE d, x[2] * y[2]>>
=============================================================================
