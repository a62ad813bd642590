-------------------------- MODULE MCPlannerClaims ---------------------------
(* One user with one account, and amounts with a sign or without one.       *)
EXTENDS PlannerClaims, TLC

CONSTANTS u1, wallet, KES, Joint, food, pay

MCHolder == wallet :> u1
MCCurrencyOf == wallet :> KES
MCOpening == wallet :> 0
MCDefaults == {<<food, "EXPENSE">>, <<pay, "INCOME">>}
MCPost == {[who |-> u1, acct |-> wallet, kind |-> "EXPENSE", amt |-> 2, month |-> 6]}
MCTopics == {{"listing", "categories", "accounts", "entries"}}
MCBands == << [width |-> MaxSafe, rate |-> 10] >>
MCSample == {"amount"} \X [neg : BOOLEAN, int : {<<4>>}, frac : {<<>>}, exp : {0}] \X {2}
=============================================================================
