---------------------------- MODULE TokenFamilies ----------------------------
(***************************************************************************)
(* What the session store promises its clients: a sign-in opens a family   *)
(* of tokens with one live member; a refresh exchanges that member for a   *)
(* live new token; revocations close families.  A family without a live    *)
(* member stays so: no action revives it.                                  *)
(*                                                                         *)
(* There is one exception.  A password change spares the live token of its *)
(* own family but not the token an exchange is about to put in its place;  *)
(* an exchange so struck, and no other, is wasted.                         *)
(***************************************************************************)
CONSTANT Token            \* a family is named by its first token

VARIABLES live,           \* live[f]: the tokens of family f that still work
          used,           \* tokens ever handed out
          struck          \* families with an exchange under way that is struck

familyVars == <<live, used, struck>>

FamilyInit == live = [f \in Token |-> {}] /\ used = {} /\ struck = {}

Open(f) ==
    /\ f \notin used
    /\ live' = [live EXCEPT ![f] = {f}]
    /\ used' = used \cup {f}
    /\ UNCHANGED struck

\* Token old of family f is exchanged for a live one; only a live token can be.
Exchange(f, old, new) ==
    /\ old \in live[f] /\ new \notin used
    /\ live' = [live EXCEPT ![f] = (@ \ {old}) \cup {new}]
    /\ used' = used \cup {new}
    /\ struck' = struck \ {f}

\* The struck exchange hands out a token that is already dead.
Waste(f, old, new) ==
    /\ f \in struck /\ old \in live[f] /\ new \notin used
    /\ live' = [live EXCEPT ![f] = @ \ {old}]
    /\ used' = used \cup {new}
    /\ struck' = struck \ {f}

\* ... or it ends without handing out anything.
Forget(f) ==
    /\ f \in struck /\ struck' = struck \ {f}
    /\ UNCHANGED <<live, used>>

Close(F) ==
    /\ live' = [f \in Token |-> IF f \in F THEN {} ELSE live[f]]
    /\ struck' = struck \ F
    /\ UNCHANGED used

\* A password change closes every family but its own, whose live token stays.
Spare(f) ==
    /\ live[f] # {}
    /\ live' = [g \in Token |-> IF g = f THEN live[f] ELSE {}]
    /\ struck' \in {struck \cap {f}, {f}}
    /\ UNCHANGED used

FamilyNext ==
    \/ \E f \in Token : Open(f) \/ Forget(f) \/ Spare(f)
    \/ \E f \in Token : \E old \in live[f], new \in Token \ used :
          Exchange(f, old, new) \/ Waste(f, old, new)
    \/ \E F \in SUBSET Token : Close(F)

FamilySpec == FamilyInit /\ [][FamilyNext]_familyVars
=============================================================================
