---------------------------- MODULE Calculations ----------------------------
(***************************************************************************)
(* What the calculations of packages/shared promise of every input that    *)
(* reaches them: an input of each is chosen, and stays.                    *)
(***************************************************************************)
EXTENDS Amounts, Worksheets

CONSTANT Sample  \* bound: the inputs a run looks at

Digit == 0 .. 9

\* What the patterns of money.ts let through, and what the two worksheets take.
Decimal == [neg : BOOLEAN, int : Seq(Digit), frac : Seq(Digit), exp : Int]
RateText == [int : Seq(Digit), frac : Seq(Digit)]
LoanTerms == [method : {"NONE", "INCLUDED", "FLAT", "REDUCING"}, period : {"ANNUAL", "MONTHLY"},
              rate : Nat \cup {Absent}, months : Nat, start : BOOLEAN]
Document == [employer : Nat, kind : {"P9", "PAYSLIP"}, month : 1 .. 12, from : 1 .. 12, to : 1 .. 12,
             chargeable : 0 .. MaxSafe, paye : 0 .. MaxSafe, insurance : 0 .. MaxSafe]

\* A calculation, its input, and the currency's digits, the stored amount or the
\* principal that goes with it.
Inputs ==
    ({"amount"} \X Decimal \X Nat)
    \cup ({"shown"} \X Nat \X Nat)
    \cup ({"rate"} \X RateText \X Int)
    \cup ({"loan"} \X LoanTerms \X Nat)
    \cup ({"tax"} \X Seq(Document) \X {0})

ASSUME SampleAssumption == Sample \subseteq Inputs

VARIABLE sample

CalcInit == sample \in Sample
CalcSpec == CalcInit /\ [][UNCHANGED sample]_sample

-----------------------------------------------------------------------------
\* What a user types becomes the nearest minor unit, halves up, and nothing
\* negative gets past a form; what an edit form shows of a stored amount reads
\* back as that amount; and an exchange rate gives the nearest amount of the
\* other currency.
AmountsRoundHalfUp ==
    /\ sample[1] = "amount" => AmountRounds(sample[2], sample[3])
    /\ sample[1] = "shown" => RoundTrips(sample[2], sample[3])
    /\ sample[1] = "rate" => \A s, t \in 0 .. 2 : ConversionRounds(sample[3], sample[2], s, t)

\* The loan estimate and the tax worksheet are what their definitions say.
WorksheetsAgree ==
    /\ sample[1] = "loan" => LoanAgrees(sample[3], sample[2])
    /\ sample[1] = "tax" => TaxAgrees(sample[2])
=============================================================================
