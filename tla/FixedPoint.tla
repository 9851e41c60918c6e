------------------------------ MODULE FixedPoint ------------------------------
(* Decimal fractions as integers: scores in tenths, weights in hundredths, what is
   between in millionths, kept below the 2^31 of TLC's integers.              *)
EXTENDS Integers

Million == 1000000
\* the product of two numbers of at most a million
Times(a, b) == (a * (b \div 1000) + (a * (b % 1000)) \div 1000) \div 1000
Percent(x, weight) == (x * weight) \div 100
Least(a, b) == IF a < b THEN a ELSE b

\* x / unit, rounded up
CeilDiv(x, unit) == -((-x) \div unit)
\* x / unit, rounded to the next integer, half away from 0
Round(x, unit) == IF x >= 0 THEN (2 * x + unit) \div (2 * unit)
                            ELSE -((unit - 2 * x) \div (2 * unit))

\* x to the power n, for x from 0 to a million
Power(x, n) == LET p[k \in 0 .. n] == IF k = 0 THEN Million ELSE Times(p[k - 1], x) IN p[n]
=============================================================================
