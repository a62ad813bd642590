------------------------------ MODULE Movements ------------------------------
(***************************************************************************)
(* What a transfer promises: money leaves one account and arrives in       *)
(* another in the same instant, is amended as a whole, and when the        *)
(* transfer is deleted both sides are undone, for good.                    *)
(***************************************************************************)
EXTENDS Integers

CONSTANTS Transfer, Account,
          Worth(_, _, _)   \* what an amount may arrive as, given the accounts

VARIABLE moved   \* moved[t]: the state of transfer t and its two movements

Amounts == Nat \ {0}
Nothing(t) == moved[t].paid = 0 /\ moved[t].got = 0

MovementsInit ==
    \A t \in Transfer : moved[t].status = "absent" /\ Nothing(t)

Becomes(t, m) == moved' = [moved EXCEPT ![t] = m]

\* A new transfer, or an amended one: the accounts of an amended one stay.
Put(t) ==
    LET m == moved'[t] IN
    /\ moved[t].status \in {"absent", "open"} /\ m.status = "open"
    /\ moved[t].status = "open" => m.from = moved[t].from /\ m.to = moved[t].to
    /\ m.from # m.to
    /\ m.paid \in Amounts /\ m.got \in Worth(m.from, m.to, m.paid)
    /\ Becomes(t, m)

Undo(t) ==
    /\ moved[t].status = "open"
    /\ Becomes(t, [moved[t] EXCEPT !.status = "deleted", !.paid = 0, !.got = 0])

MovementsNext == \E t \in Transfer : Put(t) \/ Undo(t)

MovementsSpec == MovementsInit /\ [][MovementsNext]_moved
=============================================================================
