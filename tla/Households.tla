----------------------------- MODULE Households -----------------------------
(***************************************************************************)
(* Households (apps/api/src/lib/finance/households.ts): the members who    *)
(* share joint accounts, the one among them who owns the household, and    *)
(* the single-use invitations through which the others joined.             *)
(*                                                                         *)
(* A handler reads rows in steps of their own and writes later, so other   *)
(* requests run in between.  The statements that end a database            *)
(* transaction are one step with its commit: they are blind writes by id,  *)
(* and row locks order those of two transactions as a whole.               *)
(***************************************************************************)
EXTENDS Integers, FiniteSetsExt

CONSTANTS
    Req,       \* request slots
    User,
    MaxHome, MaxInvite, MaxRow, \* bounds: households, invitations, memberships
    Granted    \* bound: the permissions that invitations give

ASSUME HouseholdAssumption ==
    MaxHome \in Nat \ {0} /\ MaxInvite \in Nat \ {0} /\ MaxRow \in Nat \ {0}
    /\ Granted \subseteq BOOLEAN /\ User # {}

VARIABLES
    member,     \* the membership row of each user (userId is unique)
    home,       \* households
    invite,
    joint,      \* bound: each household has at most one joint account
    nextRow,    \* membership ids, in the order of joinedAt
    job,
    overlapped  \* history: two requests were ever in progress at once

rows == <<member, nextRow>>
vars == <<rows, home, invite, joint, job, overlapped>>

Home == 1 .. MaxHome
Iid == 1 .. MaxInvite
None == 0

NoRow == [id |-> None, home |-> 1, owner |-> FALSE, canRecord |-> FALSE]
NoInvite == [status |-> "none", home |-> 1, canRecord |-> FALSE, by |-> {}]

Row == [id : 0 .. MaxRow, home : Home, owner : BOOLEAN, canRecord : BOOLEAN]
\* "expired": still PENDING, but expiresAt has passed.
Invite == [status : {"none", "pending", "expired", "accepted", "revoked"}, home : Home,
           canRecord : BOOLEAN, by : SUBSET User]
Pc == {"idle", "found", "invite", "revoke", "accept_check", "join",
       "permission_target", "permission", "remove_target", "remove",
       "leave_read", "leave", "joint_create", "joint_update"}
Job == [pc : Pc, user : User, self : 0 .. MaxRow, home : Home, owner : BOOLEAN,
        other : 0 .. MaxRow \cup Iid, flag : BOOLEAN]

SomeUser == CHOOSE u \in User : TRUE
Idle == [pc |-> "idle", user |-> SomeUser, self |-> None, home |-> 1, owner |-> FALSE,
         other |-> None, flag |-> FALSE]

Init ==
    /\ member = [u \in User |-> NoRow] /\ nextRow = 1
    /\ home = [h \in Home |-> "none"] /\ joint = [h \in Home |-> "none"]
    /\ invite = [i \in Iid |-> NoInvite]
    /\ job = [r \in Req |-> Idle] /\ overlapped = FALSE

-----------------------------------------------------------------------------

Enrolled(u) == member[u].id # None
Members(h) == {u \in User : Enrolled(u) /\ member[u].home = h}
Owners(h) == {u \in Members(h) : member[u].owner}
Holder(id) == {u \in User : Enrolled(u) /\ member[u].id = id}

Start(r, j) ==
    /\ job[r].pc = "idle" /\ job' = [job EXCEPT ![r] = j]
    /\ overlapped' = (overlapped \/ \E q \in Req : job[q].pc # "idle")
    /\ UNCHANGED <<rows, home, invite, joint>>

\* A read decides that job r goes on as j.
Go(r, j) ==
    /\ job' = [job EXCEPT ![r] = j]
    /\ UNCHANGED <<rows, home, invite, joint, overlapped>>

Finish(r) == job' = [job EXCEPT ![r] = Idle] /\ UNCHANGED overlapped

\* The request fails; nothing it wrote is kept.
Fail(r) == Finish(r) /\ UNCHANGED <<rows, home, invite, joint>>

\* requireOwner.
AsOwner(r, u, pc, x, b) ==
    /\ Enrolled(u) /\ member[u].owner
    /\ Start(r, [pc |-> pc, user |-> u, self |-> None, home |-> member[u].home,
                 owner |-> TRUE, other |-> x, flag |-> b])

Enrol(u, h, owner, canRecord) ==
    /\ nextRow <= MaxRow
    /\ nextRow' = nextRow + 1
    /\ member' = [member EXCEPT ![u] = [id |-> nextRow, home |-> h, owner |-> owner,
                                        canRecord |-> canRecord]]

-----------------------------------------------------------------------------
(* createHousehold.                                                        *)

CreateHousehold(r, u) ==
    /\ ~Enrolled(u)
    /\ Start(r, [Idle EXCEPT !.pc = "found", !.user = u])

\* The household and its owner's row, in one transaction that the unique
\* userId fails when the user has joined one meanwhile.
Found(r) ==
    LET u == job[r].user IN
    /\ job[r].pc = "found"
    /\ \/ Enrolled(u) /\ Fail(r)
       \/ \E h \in Home :
             /\ ~Enrolled(u)
             /\ home[h] = "none" /\ \A g \in 1 .. h - 1 : home[g] # "none"
             /\ home' = [home EXCEPT ![h] = "open"]
             /\ Enrol(u, h, TRUE, TRUE)
             /\ Finish(r)
             /\ UNCHANGED <<invite, joint>>

-----------------------------------------------------------------------------
(* Invitations.                                                            *)

CreateInvite(r, u, b) ==
    /\ home[member[u].home] = "open"
    /\ AsOwner(r, u, "invite", None, b)

InsertInvite(r) ==
    /\ job[r].pc = "invite"
    /\ \E i \in Iid :
          /\ invite[i] = NoInvite /\ \A k \in 1 .. i - 1 : invite[k] # NoInvite
          /\ invite' = [invite EXCEPT ![i] =
                [NoInvite EXCEPT !.status = "pending", !.home = job[r].home,
                                 !.canRecord = job[r].flag]]
    /\ Finish(r)
    /\ UNCHANGED <<rows, home, joint>>

RevokeInvite(r, u, i) == AsOwner(r, u, "revoke", i, FALSE)

\* updateMany of this household's invitation, if it is still pending.
WriteRevoked(r) ==
    LET i == job[r].other IN
    /\ job[r].pc = "revoke"
    /\ invite' = IF invite[i].home = job[r].home /\ invite[i].status \in {"pending", "expired"}
                 THEN [invite EXCEPT ![i].status = "revoked"] ELSE invite
    /\ Finish(r)
    /\ UNCHANGED <<rows, home, joint>>

\* expiresAt passes.
Lapse(i) ==
    /\ invite[i].status = "pending"
    /\ invite' = [invite EXCEPT ![i].status = "expired"]
    /\ UNCHANGED <<rows, home, joint, job, overlapped>>

\* acceptHouseholdInvite reads the invitation and its household ...
AcceptInvite(r, u, i) ==
    /\ invite[i].status = "pending"
    /\ home[invite[i].home] = "open"
    /\ Start(r, [Idle EXCEPT !.pc = "accept_check", !.user = u, !.other = i])

\* ... then looks for a membership of the user ...
AcceptCheck(r) ==
    /\ job[r].pc = "accept_check"
    /\ IF Enrolled(job[r].user) THEN Fail(r) ELSE Go(r, [job[r] EXCEPT !.pc = "join"])

\* Mistake the runs must catch: the invitation is consumed in a transaction of
\* its own, before the membership is inserted.
JoinTorn(r) ==
    LET u == job[r].user
        i == job[r].other IN
    /\ job[r].pc = "join"
    /\ invite' = [invite EXCEPT ![i].status = "accepted", ![i].by = {u}]
    /\ IF Enrolled(u) THEN UNCHANGED rows
       ELSE Enrol(u, invite[i].home, FALSE, invite[i].canRecord)
    /\ Finish(r)
    /\ UNCHANGED <<home, joint>>

\* Mistake the runs must catch: the invitation is given the status USED, which
\* only invitations to register have, so nothing tells it was accepted.
JoinUsed(r) ==
    LET u == job[r].user
        i == job[r].other IN
    /\ job[r].pc = "join"
    /\ ~Enrolled(u)
    /\ invite' = [invite EXCEPT ![i].status = "used", ![i].by = {u}]
    /\ Enrol(u, invite[i].home, FALSE, invite[i].canRecord)
    /\ Finish(r)
    /\ UNCHANGED <<home, joint>>

\* ... and updates the invitation, whatever it has become, and inserts the
\* membership, which rolls both back if the user has one after all.
Join(r) ==
    LET u == job[r].user
        i == job[r].other IN
    /\ job[r].pc = "join"
    /\ \/ Enrolled(u) /\ Fail(r)
       \/ /\ ~Enrolled(u)
          /\ invite' = [invite EXCEPT ![i].status = "accepted", ![i].by = {u}]
          /\ Enrol(u, invite[i].home, FALSE, invite[i].canRecord)
          /\ Finish(r)
          /\ UNCHANGED <<home, joint>>

-----------------------------------------------------------------------------
(* updateHouseholdMemberPermission and removeHouseholdMember.              *)

SetPermission(r, u, x, b) == AsOwner(r, u, "permission_target", x, b)

RemoveMember(r, u, x) ==
    /\ x # member[u].id
    /\ AsOwner(r, u, "remove_target", x, FALSE)

\* Mistake the runs must catch: the target is looked up by id alone, in any
\* household and of any role.
FindTargetAnywhere(r) ==
    LET j == job[r] IN
    /\ j.pc \in {"permission_target", "remove_target"}
    /\ IF Holder(j.other) = {} THEN Fail(r)
       ELSE Go(r, [j EXCEPT !.pc = IF @ = "remove_target" THEN "remove" ELSE "permission"])

\* The target must be in the owner's household, and keeps its permissions if
\* it owns the household.
FindTarget(r) ==
    LET j == job[r]
        target == Holder(j.other) \cap Members(j.home) IN
    /\ \/ /\ j.pc = "permission_target"
          /\ IF target # {} /\ target \cap Owners(j.home) = {}
             THEN Go(r, [j EXCEPT !.pc = "permission"]) ELSE Fail(r)
       \/ /\ j.pc = "remove_target"
          /\ IF target # {} THEN Go(r, [j EXCEPT !.pc = "remove"]) ELSE Fail(r)

\* UPDATE or DELETE by id, which fails when the row is gone.
WriteTarget(r) ==
    LET j == job[r] IN
    /\ j.pc \in {"permission", "remove"}
    /\ member' = [u \in User |->
          IF u \notin Holder(j.other) THEN member[u]
          ELSE IF j.pc = "remove" THEN NoRow
          ELSE [member[u] EXCEPT !.canRecord = j.flag]]
    /\ Finish(r)
    /\ UNCHANGED <<nextRow, home, invite, joint>>

-----------------------------------------------------------------------------
(* leaveHousehold.                                                         *)

Leave(r, u) ==
    /\ Enrolled(u)
    /\ Start(r, [Idle EXCEPT !.pc = "leave_read", !.user = u, !.self = member[u].id,
                             !.home = member[u].home, !.owner = member[u].owner])

Others(j) == {member[u].id : u \in Members(j.home)} \ {j.self}

\* Mistake the runs must catch: the members are read in no order.
LeaveReadUnordered(r) ==
    LET j == job[r] IN
    /\ j.pc = "leave_read"
    /\ \E x \in IF Others(j) = {} THEN {None} ELSE Others(j) :
          Go(r, [j EXCEPT !.pc = "leave", !.other = x])

\* The other members, by joinedAt.
LeaveRead(r) ==
    LET j == job[r] IN
    /\ j.pc = "leave_read"
    /\ Go(r, [j EXCEPT !.pc = "leave",
                       !.other = IF Others(j) = {} THEN None ELSE Min(Others(j))])

\* Mistake the runs must catch: the promotion is not undone when the rest of
\* the transaction fails.
LeaveCommitTorn(r) ==
    LET j == job[r] IN
    /\ j.pc = "leave"
    /\ \E gone \in {Holder(j.self), {}} :
          member' = [u \in User |-> CASE u \in gone -> NoRow
                                      [] u \in Holder(j.other) /\ j.owner ->
                                            [member[u] EXCEPT !.owner = TRUE]
                                      [] OTHER -> member[u]]
    /\ home' = IF j.other = None THEN [home EXCEPT ![j.home] = "closed"] ELSE home
    /\ Finish(r)
    /\ UNCHANGED <<nextRow, invite, joint>>

\* Mistake the runs must catch: the joint account is left as it was.
LeaveCommitAccountOpen(r) ==
    LET j == job[r]
        heir == IF j.owner THEN Holder(j.other) ELSE {} IN
    /\ j.pc = "leave"
    /\ IF Holder(j.self) = {} \/ (j.owner /\ j.other # None /\ heir = {}) THEN Fail(r)
       ELSE /\ member' = [u \in User |-> CASE u \in Holder(j.self) -> NoRow
                                           [] u \in heir -> [member[u] EXCEPT !.owner = TRUE]
                                           [] OTHER -> member[u]]
            /\ home' = IF j.other = None THEN [home EXCEPT ![j.home] = "closed"] ELSE home
            /\ Finish(r)
            /\ UNCHANGED <<nextRow, invite, joint>>

\* Nobody else was there: the household and its open joint account are
\* archived.  Otherwise an owner makes the successor the owner.  Then the
\* member's own row goes.  A row that is missing fails the transaction.
LeaveCommit(r) ==
    LET j == job[r]
        heir == IF j.owner THEN Holder(j.other) ELSE {} IN
    /\ j.pc = "leave"
    /\ IF Holder(j.self) = {} \/ (j.owner /\ j.other # None /\ heir = {}) THEN Fail(r)
       ELSE /\ member' = [u \in User |-> CASE u \in Holder(j.self) -> NoRow
                                           [] u \in heir -> [member[u] EXCEPT !.owner = TRUE]
                                           [] OTHER -> member[u]]
            /\ home' = IF j.other = None THEN [home EXCEPT ![j.home] = "closed"] ELSE home
            /\ joint' = IF j.other = None /\ joint[j.home] = "open"
                        THEN [joint EXCEPT ![j.home] = "archived"] ELSE joint
            /\ Finish(r)
            /\ UNCHANGED <<nextRow, invite>>

-----------------------------------------------------------------------------
(* createJointAccount and updateJointAccount.                              *)

CreateJointAccount(r, u) ==
    /\ home[member[u].home] = "open"
    /\ AsOwner(r, u, "joint_create", None, FALSE)

InsertJointAccount(r) ==
    /\ job[r].pc = "joint_create" /\ joint[job[r].home] = "none"
    /\ joint' = [joint EXCEPT ![job[r].home] = "open"]
    /\ Finish(r)
    /\ UNCHANGED <<rows, home, invite>>

UpdateJointAccount(r, u, b) == AsOwner(r, u, "joint_update", None, b)

WriteJointAccount(r) ==
    LET j == job[r] IN
    /\ j.pc = "joint_update"
    /\ joint' = IF joint[j.home] = "none" THEN joint
                ELSE [joint EXCEPT ![j.home] = IF j.flag THEN "archived" ELSE "open"]
    /\ Finish(r)
    /\ UNCHANGED <<rows, home, invite>>

-----------------------------------------------------------------------------

\* A statement fails, the process dies, or the model has no id left.
Abort(r) == job[r].pc # "idle" /\ Fail(r)

\* Bound: of the requests that name a row, those that would change it now.
Arrive(r, u) ==
    \/ CreateHousehold(r, u) \/ Leave(r, u) \/ CreateJointAccount(r, u)
    \/ \E b \in Granted : CreateInvite(r, u, b)
    \/ UpdateJointAccount(r, u, joint[member[u].home] = "open")
    \/ \E i \in Iid :
          \/ AcceptInvite(r, u, i)
          \/ invite[i].status = "pending" /\ RevokeInvite(r, u, i)
    \/ \E v \in User :
          /\ Enrolled(v)
          /\ \/ SetPermission(r, u, member[v].id, ~member[v].canRecord)
             \/ RemoveMember(r, u, member[v].id)

Step(r) ==
    \/ Found(r) \/ InsertInvite(r) \/ WriteRevoked(r)
    \/ AcceptCheck(r) \/ Join(r)
    \/ FindTarget(r) \/ WriteTarget(r)
    \/ LeaveRead(r) \/ LeaveCommit(r)
    \/ InsertJointAccount(r) \/ WriteJointAccount(r)
    \/ Abort(r)

Next ==
    \/ \E r \in Req : Step(r) \/ \E u \in User : Arrive(r, u)
    \/ \E i \in Iid : Lapse(i)

Spec == Init /\ [][Next]_vars

-----------------------------------------------------------------------------
(* Properties.                                                             *)

TypeOK ==
    /\ member \in [User -> Row] /\ nextRow \in 1 .. MaxRow + 1
    /\ home \in [Home -> {"none", "open", "closed"}]
    /\ joint \in [Home -> {"none", "open", "archived"}]
    /\ invite \in [Iid -> Invite]
    /\ job \in [Req -> Job] /\ overlapped \in BOOLEAN

\* No interleaving of joins, departures and removals gives a household two
\* owners, each able to remove the other.
AtMostOneOwner == \A h \in Home : \A u, v \in Owners(h) : u = v

\* Ownership only ever passes in the step in which the owner leaves, and to
\* the longest-standing of the members who remain.
OwnershipPassesToSenior ==
    [][\A u \in User :
          (Enrolled(u) /\ member'[u].owner /\ ~member[u].owner) =>
              /\ \E v \in Owners(member[u].home) : member'[v] = NoRow
              /\ \A v \in Members(member[u].home) :
                    member'[v] # NoRow => member[u].id <= member[v].id]_vars

\* A failed join never burns the invitation: whoever an invitation is recorded
\* as accepted by joins its household, with its permission, in that same step.
FailedJoinKeepsInvite ==
    [][\A i \in Iid : \A u \in invite'[i].by \ invite[i].by :
          /\ ~Enrolled(u)
          /\ member'[u] = [id |-> nextRow, home |-> invite[i].home, owner |-> FALSE,
                           canRecord |-> invite[i].canRecord]]_vars

\* Nobody's membership ends or loses its permission by a hand from another
\* household: the request that changes it was made by that user or by someone
\* who owned the same household.
HandsOffOtherHouseholds ==
    [][\A u \in User :
          (Enrolled(u) /\ <<member'[u].id, member'[u].canRecord>>
                             # <<member[u].id, member[u].canRecord>>) =>
              \E r \in Req : /\ job[r].pc # "idle" /\ job'[r].pc = "idle"
                             /\ job[r].home = member[u].home
                             /\ job[r].owner \/ job[r].user = u]_vars

\* As long as requests do not overlap, an open household has exactly one owner,
\* and only an open one has members; a closed one has no open account.
SerialHouseholdsAreSound ==
    ~overlapped =>
        \A h \in Home :
            /\ home[h] = "open" => \E u \in User : Owners(h) = {u}
            /\ home[h] # "open" => Members(h) = {}
            /\ home[h] = "closed" => joint[h] # "open"
=============================================================================
