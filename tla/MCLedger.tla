------------------------------ MODULE MCLedger ------------------------------
(* A user with a share in joint account a2; a3 is in another currency.     *)
EXTENDS Ledger, TLC

CONSTANTS a1, a2, a3, u1

MCOwner == a1 :> u1 @@ a2 :> Joint @@ a3 :> u1
MCCurrency == a1 :> "KES" @@ a2 :> "KES" @@ a3 :> "USD"
MCPairs == {<<a1, a2>>, <<a2, a3>>}
=============================================================================
