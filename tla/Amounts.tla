------------------------------ MODULE Amounts ------------------------------
(***************************************************************************)
(* Decimal amounts and exchange rates (packages/shared/src/money.ts): how  *)
(* what a user types becomes integer minor units, and back.  An amount     *)
(* that matched the parser's patterns is a record of its digits:           *)
(*   [neg |-> sign, int |-> digits, frac |-> digits, exp |-> exponent]     *)
(***************************************************************************)
EXTENDS Arithmetic, Sequences

CONSTANTS
    MaxSafeMinorUnits, \* 2^53 - 1
    MaxShown,    \* 10^15: up to here a quotient of doubles prints as its decimal
    MaxExponent  \* the 10,000 beyond which an exponent is refused

ASSUME AmountsAssumption ==
    MaxSafeMinorUnits \in Nat /\ MaxShown \in 0 .. MaxSafeMinorUnits /\ MaxExponent \in Nat

\* The number that a row of digits is.
Value(digits) ==
    LET V[i \in 0 .. Len(digits)] == IF i = 0 THEN 0 ELSE 10 * V[i - 1] + digits[i]
    IN V[Len(digits)]
Signed(neg, n) == IF neg THEN -n ELSE n

RangeError == [ok |-> FALSE, minor |-> 0]
InRange(n) == IF Magnitude(n) > MaxSafeMinorUnits THEN RangeError ELSE [ok |-> TRUE, minor |-> n]

\* intStr is "0" when nothing stands before the point.
Coefficient(a) == (IF a.int = <<>> THEN <<0>> ELSE a.int) \o a.frac
\* The power of ten that turns the coefficient into minor units.
TotalExp(a, digits) == a.exp - Len(a.frac) + digits

\* Mistake the runs must catch: a half is rounded down.
RoundsHalfDown(d, cut) ==
    IF cut >= Len(d) THEN cut = Len(d) /\ d[1] > 5 ELSE d[Len(d) - cut + 1] > 5

\* The digits after the cut are at least a half when the first of them is 5 or
\* more; cutting more digits than there are leaves less than a half.
RoundsUp(d, cut) ==
    IF cut >= Len(d) THEN cut = Len(d) /\ d[1] >= 5 ELSE d[Len(d) - cut + 1] >= 5

ParseMoneyToMinorUnits(a, digits) ==
    LET d == Coefficient(a)
        t == TotalExp(a, digits)
        kept == IF t >= 0 THEN Value(d) * TenTo(t)
                ELSE Value(SubSeq(d, 1, Len(d) + t))
        up == IF t < 0 /\ RoundsUp(d, -t) THEN 1 ELSE 0 IN
    IF Magnitude(a.exp) > MaxExponent THEN RangeError ELSE InRange(Signed(a.neg, kept + up))

\* The policy of the forms: positive, or not negative.
ParseMoneyInput(a, digits, allowZero) ==
    LET p == ParseMoneyToMinorUnits(a, digits) IN
    IF p.ok /\ (p.minor > 0 \/ (allowZero /\ p.minor = 0)) THEN p ELSE RangeError

\* String(fromMinorUnits(m)) of an amount in 1 .. MaxShown, as the edit forms send
\* it: no zeros at the end of the fraction.
FromMinorUnits(m, digits) ==
    LET all == [i \in 1 .. digits |-> (m \div TenTo(digits - i)) % 10]
        kept == {i \in 0 .. digits : \A k \in i + 1 .. digits : all[k] = 0} IN
    [neg |-> FALSE, int |-> <<m \div TenTo(digits)>>, exp |-> 0,
     frac |-> SubSeq(all, 1, CHOOSE i \in kept : \A k \in kept : i <= k)]

\* A rate of at most eight decimals as a fraction.
ParseRateFraction(r) ==
    [ok |-> r.int # <<>> /\ Value(r.int \o r.frac) > 0 /\ Len(r.frac) <= 8,
     numerator |-> Value(r.int \o r.frac), denominator |-> TenTo(Len(r.frac))]

\* Half-up conversion of the magnitude, with the sign put back.
ConvertMinorUnitsWithRate(minor, rate, sourceDigits, targetDigits) ==
    LET n == rate.numerator * TenTo(targetDigits)
        d == rate.denominator * TenTo(sourceDigits) IN
    InRange(Signed(minor < 0, (Magnitude(minor) * n * 2 + d) \div (2 * d)))

-----------------------------------------------------------------------------
\* The magnitude of n is the integer nearest to num/den, halves up.
IsNearest(n, num, den) ==
    /\ 2 * Magnitude(n) * den <= 2 * num + den
    /\ 2 * num + den < 2 * (Magnitude(n) + 1) * den

\* The exact value of an amount as a fraction of minor units.
ExactMinor(a, digits) ==
    LET t == TotalExp(a, digits) IN
    IF t >= 0 THEN [num |-> Value(Coefficient(a)) * TenTo(t), den |-> 1]
    ELSE [num |-> Value(Coefficient(a)), den |-> TenTo(-t)]

\* Of what has a sign no form takes more than a zero.
AmountRounds(a, digits) ==
    LET p == ParseMoneyToMinorUnits(a, digits)
        x == ExactMinor(a, digits) IN
    IF a.neg THEN \A allowZero \in BOOLEAN :
        ParseMoneyInput(a, digits, allowZero).ok => allowZero /\ p.minor = 0
    ELSE IF p.ok THEN p.minor >= 0 /\ IsNearest(p.minor, x.num, x.den)
    ELSE Magnitude(a.exp) > MaxExponent \/ 2 * x.num + x.den > 2 * MaxSafeMinorUnits * x.den

\* An amount a form sends back untouched is the amount it was.
RoundTrips(m, digits) ==
    m \in 1 .. MaxShown =>
        ParseMoneyInput(FromMinorUnits(m, digits), digits, FALSE) = [ok |-> TRUE, minor |-> m]

ConversionRounds(minor, r, sourceDigits, targetDigits) ==
    LET rate == ParseRateFraction(r)
        c == ConvertMinorUnitsWithRate(minor, rate, sourceDigits, targetDigits) IN
    rate.ok /\ c.ok =>
        /\ IsNearest(c.minor, Magnitude(minor) * Value(r.int \o r.frac) * TenTo(targetDigits),
                     TenTo(Len(r.frac) + sourceDigits))
        /\ c.minor * minor >= 0
=============================================================================
