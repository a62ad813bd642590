----------------------------- MODULE Arithmetic -----------------------------
(* Powers of whole numbers and the smaller of two, for Amounts and          *)
(* Worksheets.                                                              *)
EXTENDS Integers

\* b ** n of whole numbers.
Power(b, n) ==
    LET P[k \in 0 .. n] == IF k = 0 THEN 1 ELSE b * P[k - 1] IN P[n]

TenTo(n) == Power(10, n)

Lesser(a, b) == IF a < b THEN a ELSE b
Magnitude(n) == IF n < 0 THEN -n ELSE n
=============================================================================
