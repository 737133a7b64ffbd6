-------------------------------- MODULE Ratio --------------------------------
(* Fractions with a positive denominator, in lowest terms: what the code     *)
(* does with floats is modelled with them, without its rounding.             *)
EXTENDS Integers

Divisor[p \in Nat \X Nat] == IF p[2] = 0 THEN p[1] ELSE Divisor[<<p[2], p[1] % p[2]>>]
Magnitude(n) == IF n < 0 THEN -n ELSE n
Frac(n, d) == LET g == Divisor[<<Magnitude(n), d>>] IN <<n \div g, d \div g>>
Whole(n) == <<n, 1>>
Plus(a, b) == LET g == Divisor[<<a[2], b[2]>>]
                  d == b[2] \div g
              IN  Frac(a[1] * d + b[1] * (a[2] \div g), a[2] * d)
Minus(a, b) == Plus(a, <<-b[1], b[2]>>)
Times(a, b) == LET x == Frac(a[1], b[2])
                   y == Frac(b[1], a[2])
               IN  Frac(x[1] * y[1], x[2] * y[2])
Over(a, b) == Times(a, <<b[2], b[1]>>)
Less(a, b) == Minus(a, b)[1] < 0
Greater(a, b) == IF Less(a, b) THEN b ELSE a
=============================================================================
