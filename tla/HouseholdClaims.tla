--------------------------- MODULE HouseholdClaims ---------------------------
(***************************************************************************)
(* What the schema and the comments say of departures and invitations,     *)
(* stated over Households with the history they need.  The history         *)
(* variables only watch its steps.                                         *)
(***************************************************************************)
EXTENDS Households

VARIABLES
    deserted,  \* households whose last member left and that stayed open
    reused     \* invitations on which a second user joined

claimVars == <<vars, deserted, reused>>

ClaimsInit == Init /\ deserted = {} /\ reused = {}

Empties(r) ==
    LET h == job[r].home IN
    job[r].pc = "leave" /\ job'[r].pc = "idle" /\ Members(h) # {} /\ Members(h)' = {}

ClaimsNext ==
    /\ Next
    /\ deserted' = deserted \cup
           {h \in Home : home'[h] = "open" /\ \E r \in Req : job[r].home = h /\ Empties(r)}
    /\ reused' = reused \cup
           {i \in Iid : invite[i].status = "accepted" /\ invite'[i].by # invite[i].by}

ClaimsSpec == ClaimsInit /\ [][ClaimsNext]_claimVars

\* "when the last member leaves, the household and its joint accounts are
\* archived" (households.ts:351-352): the departure that empties a household
\* closes it.
LastLeaverArchives == deserted = {}

\* "Single-use invitation to join a household" (prisma/schema.prisma:116): no
\* two users join on one invitation.
InvitesAreSingleUse == reused = {}

\* The two fail together: their disjunction, which either of them implies, does
\* not hold, so one behaviour refutes both.
HouseholdsWorkAsDocumented == LastLeaverArchives \/ InvitesAreSingleUse
=============================================================================
