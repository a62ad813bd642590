---------------------------- MODULE SessionClaims ----------------------------
(***************************************************************************)
(* What the README and the comments say of revocation, stated over the     *)
(* session store with the history they need.  The history variables only   *)
(* watch the steps of Sessions.                                            *)
(***************************************************************************)
EXTENDS Sessions

VARIABLES
    condemned,  \* lineages whose reuse walk has committed
    stale,      \* sign-ins in progress that compared a password since replaced
    overtaken,  \* stale sign-ins the reset's revokeAllSessions has gone past
    outdated,   \* sessions created by an overtaken sign-in
    signedOut   \* lineages that a password change was to keep, and revoked

claimVars == <<vars, condemned, stale, overtaken, outdated, signedOut>>

ClaimsInit ==
    /\ Init
    /\ condemned = {} /\ stale = {} /\ overtaken = {} /\ outdated = {} /\ signedOut = {}

SigningIn == {r \in Req : job[r].pc = "create"}

ClaimsNext ==
    /\ Next
    /\ condemned' = condemned \cup
           {lineage[job[r].tok] : r \in {q \in Req : WalkCommit(q)}}
    /\ stale' = SigningIn' \cap
           (stale \cup IF \E r \in Req : PasswordUpdate(r) THEN SigningIn ELSE {})
    /\ overtaken' = SigningIn' \cap
           (overtaken \cup IF \E r \in Req : job[r].pc = "reset_sweep" /\ SweepAll(r)
                           THEN stale ELSE {})
    /\ outdated' = IF \E r \in overtaken : LoginCreate(r)
                   THEN outdated \cup {nextId} ELSE outdated
    /\ signedOut' = signedOut \cup
           {lineage[job[r].tok] : r \in {q \in Req :
               /\ job[q].pc = "change_sweep" /\ job'[q].pc = "idle"
               /\ LiveTokens[lineage[job[q].tok]] # {}
               /\ LiveTokens'[lineage[job[q].tok]] = {}}}

ClaimsSpec == ClaimsInit /\ [][ClaimsNext]_claimVars

\* "Reusing an already-rotated token revokes the whole descendant session
\* chain" (README.md:232): once the walk has committed, no token handed out
\* for that sign-in works.
ReuseKillsLineage ==
    \A s \in granted : lineage[s] \in condemned => s \in revoked

\* "Force re-authentication on every device after a password reset"
\* (routes/auth.ts:475): when the reset is through, nobody stays or becomes
\* signed in on the strength of the replaced password.
ResetForcesReauthentication == \A s \in outdated : ~Authorised(s)

\* "The device that changed the password stays signed in" (routes/auth.ts:513):
\* the sweep of a password change never ends the session it was asked to keep,
\* whatever refreshes of that session are under way.
KeptSessionSurvives == signedOut = {}

\* The last two claims fail together: their disjunction, which either of them
\* implies, does not hold, so one behaviour refutes both.
PasswordSweepsAreExact == ResetForcesReauthentication \/ KeptSessionSurvives
=============================================================================
