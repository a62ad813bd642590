----------------------------- MODULE Worksheets -----------------------------
(***************************************************************************)
(* The two estimates MoneyPilot computes: the full-term interest of a debt *)
(* (packages/shared/src/debt-interest.ts) and the Kenya employment tax     *)
(* worksheet (kenya-tax.ts).  Amounts are minor units.                     *)
(***************************************************************************)
EXTENDS Arithmetic, Sequences, FiniteSetsExt

CONSTANTS
    MaxSafe,
    RateUnit,        \* 100 % in the unit of rates: 10,000 hundredths of a percent
    MaxRate,         \* the 1000 % a rate may not exceed
    MaxMonths,       \* 600
    Bands,           \* the tax bands: width and rate; the last holds any income
    TaxUnit,         \* 100 % in the unit of the bands' rates
    PersonalRelief,
    InsuranceCap,    \* of a year ...
    MonthlyCap       \* ... and of a payslip's month

ASSUME WorksheetsAssumption ==
    /\ MaxSafe \in Nat /\ RateUnit \in Nat \ {0} /\ MaxRate \in Nat /\ MaxMonths \in Nat
    /\ Bands \in Seq([width : Nat, rate : Nat]) /\ Bands # <<>>
    /\ Bands[Len(Bands)].width = MaxSafe /\ TaxUnit \in Nat \ {0}
    /\ PersonalRelief \in Nat /\ InsuranceCap \in Nat /\ MonthlyCap \in Nat

-----------------------------------------------------------------------------
(* calculateDebtInterest.  terms: method and period by name, rate in units   *)
(* of RateUnit or Absent, months or 0, start |-> whether a valid date is set.*)

Absent == -1
Round(n, d) == (n + d \div 2) \div d
Ceiling(n, d) == (n + d - 1) \div d

Projected(terms) == terms.method \in {"FLAT", "REDUCING"}

\* Every way the function throws, the overflow of the total aside.
TermsAreValid(principal, terms) ==
    /\ principal \in 1 .. MaxSafe
    /\ Projected(terms) => /\ terms.start
                           /\ terms.months \in 1 .. MaxMonths
                           /\ terms.rate \in 0 .. MaxRate

\* A year's rate is spread over twelve months.
Denominator(terms) == IF terms.period = "ANNUAL" THEN 12 * RateUnit ELSE RateUnit

FlatInterest(principal, terms) == Round(principal * terms.rate * terms.months, Denominator(terms))

\* Mistake the runs must catch: the instalment is rounded down.
InstalmentDown(principal, terms) ==
    LET d == Denominator(terms)
        growth == Power(d + terms.rate, terms.months)
        base == Power(d, terms.months) IN
    IF terms.rate = 0 THEN Ceiling(principal, terms.months)
    ELSE (principal * terms.rate * growth) \div (d * (growth - base))

\* The regular instalment of a reducing balance, rounded up.
Instalment(principal, terms) ==
    LET d == Denominator(terms)
        growth == Power(d + terms.rate, terms.months)
        base == Power(d, terms.months) IN
    IF terms.rate = 0 THEN Ceiling(principal, terms.months)
    ELSE Ceiling(principal * terms.rate * growth, d * (growth - base))

\* Balance and interest after k months, and what the k-th month paid.  The last
\* month settles whatever is left.
Schedule(principal, terms, payment) ==
    LET S[k \in 0 .. terms.months] ==
          IF k = 0 THEN [balance |-> principal, interest |-> 0, paid |-> 0]
          ELSE LET b == S[k - 1].balance
                   charged == Round(b * terms.rate, Denominator(terms))
                   due == b + charged
                   paid == IF k = terms.months \/ payment >= due THEN due ELSE payment IN
               IF b = 0 THEN [S[k - 1] EXCEPT !.paid = 0]
               ELSE [balance |-> due - paid, interest |-> S[k - 1].interest + charged,
                     paid |-> paid]
    IN S

NoEstimate == [ok |-> FALSE, interest |-> 0, total |-> 0, payment |-> 0]

CalculateDebtInterest(principal, terms) ==
    LET flat == FlatInterest(principal, terms)
        payment == Instalment(principal, terms)
        interest == IF terms.method = "FLAT" THEN flat
                    ELSE Schedule(principal, terms, payment)[terms.months].interest IN
    IF ~TermsAreValid(principal, terms) THEN NoEstimate
    ELSE IF ~Projected(terms)
    THEN [ok |-> TRUE, interest |-> 0, total |-> principal, payment |-> 0]
    ELSE IF principal + interest > MaxSafe THEN NoEstimate
    ELSE [ok |-> TRUE, interest |-> interest, total |-> principal + interest,
          payment |-> IF terms.method = "FLAT"
                      THEN Ceiling(principal + flat, terms.months) ELSE payment]

-----------------------------------------------------------------------------
(* calculateKenyaEmploymentTax.  A document: employer, kind ("P9" or         *)
(* "PAYSLIP"), month, first and last month of the employment, amounts.       *)

Annual == 0
PeriodOf(e) == IF e.kind = "P9" THEN Annual ELSE e.month

\* The periods the documents before the i-th cover for its employer.
Seen(docs, i) == {PeriodOf(docs[k]) : k \in {j \in 1 .. i - 1 : docs[j].employer = docs[i].employer}}

DocumentsAreValid(docs) ==
    /\ docs # <<>>
    /\ \A i \in DOMAIN docs :
         LET e == docs[i]
             periods == Seen(docs, i) IN
         /\ e.from <= e.to
         /\ e.kind = "PAYSLIP" => e.month \in e.from .. e.to
         /\ PeriodOf(e) \notin periods /\ Annual \notin periods
         /\ PeriodOf(e) = Annual => periods = {}

\* What the documents of set add up to in a field.
Total(docs, set, field) == SumFunctionOnSet([i \in DOMAIN docs |-> docs[i][field]], set)

\* sum throws where a total is not a safe integer.
TotalsAreSafe(docs) ==
    \A field \in {"chargeable", "paye", "insurance"} : Total(docs, DOMAIN docs, field) <= MaxSafe

\* Annual reliefs count whole; those of a month's payslips up to the monthly
\* cap; all of them up to the annual one.
InsuranceRelief(docs) ==
    LET ofPeriod(p) == Total(docs, {i \in DOMAIN docs : PeriodOf(docs[i]) = p}, "insurance")
        counted == [m \in 1 .. 12 |-> Lesser(MonthlyCap, ofPeriod(m))] IN
    Lesser(InsuranceCap, ofPeriod(Annual) + SumFunctionOnSet(counted, 1 .. 12))

\* What each band holds of the income, and the tax of it all in units of
\* TaxUnit.
BandNumerator(income) ==
    LET B[i \in 0 .. Len(Bands)] ==
          IF i = 0 THEN [left |-> income, sum |-> 0]
          ELSE LET amount == Lesser(B[i - 1].left, Bands[i].width) IN
               [left |-> B[i - 1].left - amount,
                sum |-> B[i - 1].sum + amount * Bands[i].rate]
    IN B[Len(Bands)].sum

CalculateKenyaEmploymentTax(docs) ==
    LET all == DOMAIN docs
        chargeable == Total(docs, all, "chargeable")
        paye == Total(docs, all, "paye")
        before == (BandNumerator(chargeable) + TaxUnit \div 2) \div TaxUnit
        relief == InsuranceRelief(docs)
        after == before - PersonalRelief - relief IN
    [before |-> before, relief |-> relief, after |-> IF after < 0 THEN 0 ELSE after,
     capped |-> Total(docs, all, "insurance") > relief,
     balance |-> (IF after < 0 THEN 0 ELSE after) - paye]

-----------------------------------------------------------------------------
(* What the two estimates are, said without their algorithms.              *)

\* n is num/den rounded to the nearest integer.
Nearest(n, num, den) == 2 * (n * den - num) \in -den .. den

\* What is owed, exactly, after each month of instalments of p: after k of them
\* in units of 1/d^k.
Owed(principal, terms, p) ==
    LET d == Denominator(terms)
        E[k \in 0 .. terms.months] ==
            IF k = 0 THEN principal ELSE E[k - 1] * (d + terms.rate) - p * Power(d, k)
    IN E

\* Each month may lose half a cent to rounding, and what is lost grows with the
\* rest: after k months in units of 1/(2 * d^(k-1)).
RoundingAllowed(terms) ==
    LET d == Denominator(terms)
        G[k \in 0 .. terms.months] ==
            IF k = 0 THEN 0 ELSE G[k - 1] * (d + terms.rate) + Power(d, k - 1)
    IN G

FlatAgrees(principal, terms, e) ==
    /\ Nearest(e.interest, principal * terms.rate * terms.months, Denominator(terms))
    /\ terms.months * (e.payment - 1) < e.total /\ e.total <= terms.months * e.payment

\* The instalment is the least that pays the loan off; the schedule pays it off,
\* its balance never grows, and its last payment differs from the instalment by
\* no more than the rounding of the months.
ReducingAgrees(principal, terms, e) ==
    LET s == Schedule(principal, terms, e.payment)
        n == terms.months IN
    /\ Owed(principal, terms, e.payment)[n] <= 0
    /\ Owed(principal, terms, e.payment - 1)[n] > 0
    /\ s[n].balance = 0
    /\ \A k \in 1 .. n : 0 <= s[k].balance /\ s[k].balance <= s[k - 1].balance
    /\ \A k \in 1 .. n - 1 : s[k].paid <= e.payment
    /\ SumFunctionOnSet([k \in 1 .. n |-> s[k].paid], 1 .. n) = e.total
    /\ 2 * (s[n].paid - e.payment) * Power(Denominator(terms), n - 1) <= RoundingAllowed(terms)[n]

\* Terms that are valid are refused only where the interest of a loan that pays
\* nothing back before its end would not fit.
LoanAgrees(principal, terms) ==
    LET e == CalculateDebtInterest(principal, terms) IN
    IF e.ok
    THEN /\ TermsAreValid(principal, terms) /\ e.total = principal + e.interest
         /\ terms.method = "FLAT" => FlatAgrees(principal, terms, e)
         /\ terms.method = "REDUCING" => ReducingAgrees(principal, terms, e)
    ELSE TermsAreValid(principal, terms) =>
            /\ Projected(terms)
            /\ principal + terms.months * Ceiling(principal * terms.rate, Denominator(terms)) > MaxSafe

\* An employer has one annual form and nothing else, or one payslip a month.
CoverageIsClean(docs) ==
    /\ docs # <<>>
    /\ \A i \in DOMAIN docs : docs[i].from <= docs[i].to
    /\ \A i \in DOMAIN docs : docs[i].kind = "PAYSLIP" => docs[i].month \in docs[i].from .. docs[i].to
    /\ \A i, k \in DOMAIN docs :
         i # k /\ docs[i].employer = docs[k].employer =>
           /\ docs[i].kind = "PAYSLIP" /\ docs[k].kind = "PAYSLIP"
           /\ docs[i].month # docs[k].month

\* The tax of an income unit by unit: each at the rate of the band it falls in.
BandTop(i) == SumFunctionOnSet([k \in DOMAIN Bands |-> Bands[k].width], 1 .. i)
BandOf(x) == CHOOSE i \in DOMAIN Bands : BandTop(i - 1) < x /\ x <= BandTop(i)
UnitTax(income) == SumFunctionOnSet([x \in 1 .. income |-> Bands[BandOf(x)].rate], 1 .. income)

TaxAgrees(docs) ==
    LET t == CalculateKenyaEmploymentTax(docs)
        backwards == [i \in DOMAIN docs |-> docs[Len(docs) + 1 - i]]
        claimed == Total(docs, DOMAIN docs, "insurance") IN
    /\ DocumentsAreValid(docs) <=> CoverageIsClean(docs)
    /\ DocumentsAreValid(backwards) <=> DocumentsAreValid(docs)
    /\ DocumentsAreValid(docs) /\ TotalsAreSafe(docs) =>
         /\ Nearest(t.before, UnitTax(Total(docs, DOMAIN docs, "chargeable")), TaxUnit)
         /\ TotalsAreSafe(backwards) /\ CalculateKenyaEmploymentTax(backwards) = t
         /\ t.relief <= claimed /\ t.relief <= InsuranceCap
         /\ t.capped <=> t.relief < claimed
         /\ t.after \in 0 .. t.before
=============================================================================
