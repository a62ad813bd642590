---------------------------- MODULE PlannerClaims ----------------------------
(***************************************************************************)
(* What the README and the comments say of archived rows, of the default   *)
(* categories and of amounts, stated over Planning and Calculations with   *)
(* the history they need.  The history variables only watch the steps.     *)
(***************************************************************************)
EXTENDS Planning, Calculations

VARIABLES
    misfiled,  \* entries created on an account or category already archived
    refilled   \* persons who got the default categories on top of others

claimVars == <<planVars, sample, misfiled, refilled>>

ClaimsInit == PlanInit /\ CalcInit /\ misfiled = {} /\ refilled = {}

Archived(e) == e.acct \in closed \/ (e.tag # None /\ tag[e.tag].archived)

ClaimsNext ==
    /\ PlanNext
    /\ UNCHANGED sample
    /\ misfiled' = misfiled \cup
           {e \in EntryId : entry[e].state = "absent" /\ entry'[e].state = "open"
                            /\ Archived(entry'[e])}
    /\ refilled' = refilled \cup
           {task[r].who : r \in {q \in Req :
               /\ task[q].pc = "defaults" /\ task'[q].pc = "idle" /\ tag' # tag
               /\ \E i \in TagId : Owns(tag, task[q].who, i)}}

ClaimsSpec == ClaimsInit /\ [][ClaimsNext]_claimVars

\* "Archived accounts and categories can't receive new entries" (README.md:79):
\* no entry is created on a row archived before.
ArchivedGetNoEntries == misfiled = {}

\* "Creates the default category set for a user when they have no categories at
\* all" (categories.ts:17-18).
DefaultsOnlyForTheEmpty == refilled = {}

\* parseMoneyToMinorUnits throws "for non-finite, malformed, negative, or
\* overflowing values" (money.ts:48).
NegativeAmountsThrow ==
    sample[1] = "amount" /\ sample[2].neg /\ Value(Coefficient(sample[2])) > 0 =>
        ParseMoneyToMinorUnits(sample[2], sample[3]) = RangeError

\* The three fail together: their disjunction, which each of them implies, does
\* not hold, so one behaviour refutes them all.
PlannerWorksAsDocumented ==
    ArchivedGetNoEntries \/ DefaultsOnlyForTheEmpty \/ NegativeAmountsThrow
=============================================================================
