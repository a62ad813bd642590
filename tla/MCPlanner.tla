------------------------------ MODULE MCPlanner -----------------------------
(* Planning and recurring items on the server and the forms in the browser, *)
(* each on its own, and the calculations on samples: amounts, rates, loans  *)
(* and documents.                                                           *)
EXTENDS Planning, Recurring, WebForms, Calculations, TLC

CONSTANTS u1, u2, home, wallet, dollars, other, KES, USD, Joint, food, pay, rent, r1, r2

VARIABLE part
vars == <<part, sample, planVars, recurVars, webVars>>

MCHolder == home :> Joint @@ wallet :> u1 @@ dollars :> u1 @@ other :> u2
MCCurrencyOf == home :> KES @@ wallet :> KES @@ dollars :> USD @@ other :> KES
MCOpening == home :> 0 @@ wallet :> 5 @@ dollars :> 0 @@ other :> 0
MCDefaults == {<<food, "EXPENSE">>, <<pay, "INCOME">>}
P(u, a, kind, x, m) == [who |-> u, acct |-> a, kind |-> kind, amt |-> x, month |-> m]
MCPost == {P(u1, wallet, "EXPENSE", 2, 6), P(u1, wallet, "INCOME", 3, 5),
           P(u1, dollars, "EXPENSE", 2, 6), P(u1, home, "EXPENSE", 2, 6)}
Loan(method, unit, rate, months, start) ==
    [method |-> method, period |-> unit, rate |-> rate, months |-> months, start |-> start]
MCTerms == {NoTerms, Loan("REDUCING", "ANNUAL", 30, 2, TRUE)}
MCPatch == [method : {"NONE", "FLAT"}] \cup [start : BOOLEAN]
           \cup [months : {0, 3}]
           \cup {[method |-> "REDUCING", period |-> "ANNUAL", rate |-> 30, months |-> 2, start |-> TRUE]}
MCTopics == {{"listing", "categories"}, {"debts", "terms"}, {"debts", "entries"},
             {"budgets", "entries"}, {"entries", "pair"},
             {"categories", "entries", "alone"}, {"accounts", "entries"}}

MCBands == << [width |-> 3, rate |-> 10], [width |-> 2, rate |-> 25], [width |-> 4, rate |-> 30],
              [width |-> 3, rate |-> 33], [width |-> MaxSafe, rate |-> 35] >>

Symmetry == Permutations({r1, r2})

Digits(D, n) == UNION {[1 .. k -> D] : k \in 0 .. n}
Decimals == [neg : BOOLEAN, int : Digits({0, 4, 5, 9}, 2), frac : Digits({0, 4, 5}, 2),
             exp : {-5, -3, -2, -1, 0, 1, 3}]
Rates == [int : Digits({0, 1, 9}, 2), frac : Digits({0, 5}, 2)]
Loans == [method : {"FLAT", "REDUCING", "INCLUDED"}, period : {"ANNUAL", "MONTHLY"},
          rate : {Absent, 0, 1, 5, 13, 30, 31}, months : 0 .. 4, start : BOOLEAN]
Paper == [employer : {1, 2}, kind : {"P9", "PAYSLIP"}, month : {1, 2}, from : {1, 2}, to : {1, 2},
          chargeable : {4, 14}, paye : {1}, insurance : {0, 3}]
Tenure(p, q) == p.from = q.from /\ p.to = q.to
MCSample ==
    ({"amount"} \X Decimals \X {0, 2})
    \cup ({"shown"} \X (1 .. 120) \X {0, 2})
    \cup ({"rate"} \X Rates \X {-7, 0, 1, 15})
    \cup ({"loan"} \X Loans \X {0, 1, 7, 12})
    \cup ({"loan"} \X [method : {"FLAT"}, period : {"MONTHLY"}, rate : {30}, months : {3},
                       start : {TRUE}] \X {9998, 99998})
    \cup {<<"tax", <<p>>, 0>> : p \in Paper}
    \cup {<<"tax", <<p, q>>, 0>> : <<p, q>> \in {x \in Paper \X Paper : Tenure(x[1], x[2])}}
NoSample == <<"none", 0, 0>>

Init ==
    /\ part \in {"planning", "recurring", "page", "sample"}
    /\ PlanInit /\ RecurInit /\ WebInit
    /\ IF part = "planning" THEN TRUE ELSE topic = CHOOSE t \in Topics : TRUE
    /\ IF part = "recurring" THEN TRUE ELSE price = [i \in Item |-> 1]
    /\ IF part = "page" THEN TRUE ELSE /\ concern = "post" /\ page = "accounts"
    /\ IF part = "sample" THEN CalcInit ELSE sample = NoSample

Next ==
    /\ \/ part = "planning" /\ PlanNext /\ UNCHANGED <<recurVars, webVars>>
       \/ part = "recurring" /\ RecurNext /\ UNCHANGED <<planVars, webVars>>
       \/ part = "page" /\ WebNext /\ UNCHANGED <<planVars, recurVars>>
    /\ UNCHANGED <<part, sample>>

Spec == Init /\ [][Next]_vars

=============================================================================
