-------------------------- MODULE HouseholdsProofs --------------------------
(***************************************************************************)
(* Theorems about Households, for any number of users, requests,           *)
(* households, invitations and memberships.                                *)
(***************************************************************************)
EXTENDS Households, WellFoundedInduction, TLAPS

-----------------------------------------------------------------------------
(* The inductive invariant.                                                *)

\* Membership ids are handed out once, in order.
RowsAreNumbered ==
    /\ \A u \in User : member[u].id < nextRow
    /\ \A u, v \in User : (Enrolled(u) /\ member[u].id = member[v].id) => u = v

\* A household is founded before it has members or invitations.
HomesAreFounded ==
    /\ \A u \in User : Enrolled(u) => home[member[u].home] # "none"
    /\ \A i \in Iid : invite[i].status # "none" => home[invite[i].home] # "none"

Leaving == {"leave_read", "leave"}
Targeting == {"permission_target", "remove_target", "permission", "remove"}

\* What a request has read and may still rely on: a membership id stands for
\* the same user in the same household, and an owner owns until it goes.
Remembers(j) ==
    /\ j.pc \in Leaving =>
          /\ j.self # None /\ j.self < nextRow
          /\ \A u \in Holder(j.self) : /\ u = j.user /\ member[u].home = j.home
                                       /\ j.owner => member[u].owner
    /\ j.pc = "leave" =>
          /\ j.other # j.self /\ j.other < nextRow
          /\ \A u \in Holder(j.other) : member[u].home = j.home
          /\ j.other # None =>
                \A u \in Members(j.home) : member[u].id = j.self \/ j.other <= member[u].id
    /\ j.pc \in Targeting => j.owner /\ j.other < nextRow
    /\ j.pc \in {"permission", "remove"} =>
          \A u \in Holder(j.other) : member[u].home = j.home
    /\ j.pc = "invite" => home[j.home] # "none"
    /\ j.pc = "revoke" => j.other \in Iid
    /\ j.pc \in {"accept_check", "join"} => j.other \in Iid /\ invite[j.other].status # "none"

IInv ==
    /\ TypeOK
    /\ RowsAreNumbered
    /\ HomesAreFounded
    /\ \A r \in Req : Remembers(job[r])
    /\ AtMostOneOwner

-----------------------------------------------------------------------------
(* Lemmas.                                                                 *)

LEMMA IdleIsAJob ==
    ASSUME NEW u \in User
    PROVE  Idle \in Job /\ SomeUser \in User
<1>1. SomeUser \in User
  BY DEF SomeUser
<1>2. 1 \in Home /\ None \in 0 .. MaxRow
  BY HouseholdAssumption DEF Home, None
<1> QED BY <1>1, <1>2 DEF Idle, Job, Pc

LEMMA IdleRemembersNothing == Remembers(Idle)
  BY DEF Remembers, Idle, Leaving, Targeting

\* Steps that read: one request moves on, the rows stay.
LEMMA OneJob ==
    ASSUME IInv, NEW r \in Req, NEW j \in Job, Remembers(j),
           job' = [job EXCEPT ![r] = j], overlapped' \in BOOLEAN,
           UNCHANGED <<rows, home, invite, joint>>
    PROVE  IInv'
<1>1. /\ job' \in [Req -> Job] /\ job'[r] = j /\ \A q \in Req \ {r} : job'[q] = job[q]
      /\ UNCHANGED <<member, nextRow, home, invite, joint>>
  BY DEF IInv, TypeOK, rows
<1>2. TypeOK' /\ RowsAreNumbered' /\ HomesAreFounded' /\ AtMostOneOwner'
  BY <1>1 DEF IInv, TypeOK, RowsAreNumbered, HomesAreFounded, AtMostOneOwner, Enrolled,
              Owners, Members
<1>3. \A q \in Req : Remembers(job'[q])
  BY <1>1 DEF IInv
<1>4. (\A q \in Req : Remembers(job[q]))'
  BY <1>1, <1>3 DEF Remembers, Holder, Members, Enrolled
<1> QED BY <1>2, <1>4 DEF IInv

LEMMA FinishTypes ==
    ASSUME IInv, NEW r \in Req, Finish(r)
    PROVE  /\ job' \in [Req -> Job] /\ job'[r] = Idle /\ overlapped' \in BOOLEAN
           /\ \A q \in Req \ {r} : job'[q] = job[q]
<1>1. job[r].user \in User
  BY DEF IInv, TypeOK, Job
<1> QED BY <1>1, IdleIsAJob DEF IInv, TypeOK, Finish

LEMMA FailKeeps ==
    ASSUME IInv, NEW r \in Req, Fail(r)
    PROVE  IInv'
<1>1. job[r].user \in User
  BY DEF IInv, TypeOK, Job
<1> QED BY <1>1, FinishTypes, IdleIsAJob, IdleRemembersNothing, OneJob DEF Fail, Finish

LEMMA GoKeeps ==
    ASSUME IInv, NEW r \in Req, NEW j \in Job, Remembers(j), Go(r, j)
    PROVE  IInv'
  BY OneJob DEF Go, IInv, TypeOK

LEMMA StartKeeps ==
    ASSUME IInv, NEW r \in Req, NEW j \in Job, Remembers(j), Start(r, j)
    PROVE  IInv'
<1>1. overlapped' \in BOOLEAN
  BY DEF Start, IInv, TypeOK
<1> QED BY <1>1, OneJob DEF Start

\* Rows go, are changed without a loss of ownership, or are new.
RowsLiveOn ==
    /\ nextRow <= nextRow'
    /\ \A u \in User : member'[u].id # None =>
          \/ member'[u].id = nextRow
          \/ /\ Enrolled(u) /\ member'[u].id = member[u].id
             /\ member'[u].home = member[u].home
             /\ member[u].owner => member'[u].owner
    /\ \A h \in Home : home[h] # "none" => home'[h] # "none"
    /\ \A i \in Iid : invite[i].status # "none" => invite'[i].status # "none"

LEMMA OthersRemember ==
    ASSUME IInv, RowsLiveOn, nextRow' \in Nat, NEW q \in Req, job'[q] = job[q]
    PROVE  Remembers(job[q])'
<1> DEFINE j == job[q]
<1>1. /\ j \in Job /\ Remembers(j) /\ nextRow \in Nat /\ nextRow <= nextRow'
      /\ \A u \in User : member[u].id \in Nat /\ member[u].id < nextRow
  BY DEF IInv, TypeOK, Row, RowsAreNumbered, RowsLiveOn
<1>2. \A x \in Nat : x < nextRow => x < nextRow'
  BY <1>1
<1>3. ASSUME NEW x \in Nat, x < nextRow, NEW u \in Holder(x)'
      PROVE  /\ u \in Holder(x) /\ member'[u].home = member[u].home
             /\ member[u].owner => member'[u].owner
  BY <1>1, <1>3 DEF Holder, Enrolled, RowsLiveOn
<1>4. ASSUME NEW h \in Home, NEW u \in Members(h)'
      PROVE  \/ member'[u].id = nextRow
             \/ u \in Members(h) /\ member'[u].id = member[u].id
  BY <1>4 DEF Members, Enrolled, RowsLiveOn
<1>5. j.self \in Nat /\ j.other \in Nat /\ j.home \in Home
  BY <1>1, HouseholdAssumption DEF Job, Iid
<1>6. j.pc \in Leaving =>
         /\ j.self # None /\ j.self < nextRow'
         /\ \A u \in Holder(j.self)' : /\ u = j.user /\ member'[u].home = j.home
                                       /\ j.owner => member'[u].owner
  BY <1>1, <1>2, <1>3, <1>5 DEF Remembers, Holder, Enrolled
<1>7. j.pc = "leave" =>
         /\ j.other # j.self /\ j.other < nextRow'
         /\ \A u \in Holder(j.other)' : member'[u].home = j.home
         /\ j.other # None =>
               \A u \in Members(j.home)' : member'[u].id = j.self \/ j.other <= member'[u].id
  <2> SUFFICES ASSUME j.pc = "leave"
               PROVE  /\ j.other # j.self /\ j.other < nextRow'
                      /\ \A u \in Holder(j.other)' : member'[u].home = j.home
                      /\ j.other # None =>
                            \A u \in Members(j.home)' :
                                member'[u].id = j.self \/ j.other <= member'[u].id
    OBVIOUS
  <2>1. /\ j.other # j.self /\ j.other < nextRow
        /\ \A u \in Holder(j.other) : member[u].home = j.home
        /\ j.other # None =>
              \A u \in Members(j.home) : member[u].id = j.self \/ j.other <= member[u].id
    BY <1>1 DEF Remembers
  <2>2. \A u \in Holder(j.other)' : member'[u].home = j.home
    BY <1>3, <1>5, <2>1 DEF Holder, Enrolled
  <2>3. ASSUME j.other # None, NEW u \in Members(j.home)'
        PROVE  member'[u].id = j.self \/ j.other <= member'[u].id
    <3>1. CASE member'[u].id = nextRow
      BY <1>1, <1>5, <2>1, <3>1
    <3>2. CASE u \in Members(j.home) /\ member'[u].id = member[u].id
      BY <2>1, <2>3, <3>2
    <3> QED BY <1>4, <1>5, <2>3, <3>1, <3>2 DEF Members
  <2> QED BY <1>2, <1>5, <2>1, <2>2, <2>3
<1>8. j.pc \in Targeting => j.owner /\ j.other < nextRow'
  BY <1>1, <1>2, <1>5 DEF Remembers
<1>9. j.pc \in {"permission", "remove"} =>
         \A u \in Holder(j.other)' : member'[u].home = j.home
  BY <1>1, <1>3, <1>5 DEF Remembers, Holder, Enrolled, Targeting
<1>10. j.pc = "invite" => home'[j.home] # "none"
  BY <1>1, <1>5 DEF Remembers, RowsLiveOn
<1>11. /\ j.pc = "revoke" => j.other \in Iid
       /\ j.pc \in {"accept_check", "join"} =>
             j.other \in Iid /\ invite'[j.other].status # "none"
  BY <1>1 DEF Remembers, RowsLiveOn
<1> QED BY <1>6, <1>7, <1>8, <1>9, <1>10, <1>11 DEF Remembers

LEMMA WriterKeeps ==
    ASSUME IInv, RowsLiveOn,
           job' \in [Req -> Job], \A q \in Req : job'[q] = job[q] \/ job'[q] = Idle,
           overlapped' \in BOOLEAN,
           member' \in [User -> Row], nextRow' \in 1 .. MaxRow + 1,
           home' \in [Home -> {"none", "open", "closed"}],
           joint' \in [Home -> {"none", "open", "archived"}], invite' \in [Iid -> Invite],
           RowsAreNumbered', HomesAreFounded', AtMostOneOwner'
    PROVE  IInv'
<1>1. TypeOK'
  BY DEF TypeOK
<1>2. ASSUME NEW q \in Req PROVE Remembers(job[q])'
  <2>1. CASE job'[q] = Idle
    BY <2>1 DEF Remembers, Idle, Leaving, Targeting
  <2>2. CASE job'[q] = job[q]
    BY <2>2, OthersRemember, HouseholdAssumption
  <2> QED BY <2>1, <2>2
<1> QED BY <1>1, <1>2 DEF IInv

\* Steps that leave the memberships and the households alone.
LEMMA AsideKeeps ==
    ASSUME IInv, UNCHANGED <<rows, home>>,
           job' \in [Req -> Job], \A q \in Req : job'[q] = job[q] \/ job'[q] = Idle,
           overlapped' \in BOOLEAN,
           joint' \in [Home -> {"none", "open", "archived"}], invite' \in [Iid -> Invite],
           \A i \in Iid : invite[i].status # "none" => invite'[i].status # "none",
           \A i \in Iid : invite'[i].status # "none" => home[invite'[i].home] # "none"
    PROVE  IInv'
<1>1. UNCHANGED <<member, nextRow, home>>
  BY DEF rows
<1>2. RowsLiveOn
  BY <1>1, HouseholdAssumption DEF RowsLiveOn, Enrolled, IInv, TypeOK
<1>3. RowsAreNumbered' /\ HomesAreFounded' /\ AtMostOneOwner'
  BY <1>1 DEF IInv, RowsAreNumbered, HomesAreFounded, AtMostOneOwner, Enrolled, Owners,
              Members
<1> QED BY <1>1, <1>2, <1>3, WriterKeeps DEF IInv, TypeOK

\* A new membership, that does not own unless the household is new.
LEMMA EnrolKeeps ==
    ASSUME IInv, NEW u \in User, NEW h \in Home, NEW owner \in BOOLEAN, NEW b \in BOOLEAN,
           ~Enrolled(u), Enrol(u, h, owner, b), owner => home[h] = "none",
           NEW r \in Req, Finish(r), UNCHANGED joint,
           home' \in [Home -> {"none", "open", "closed"}], home'[h] # "none",
           \A g \in Home : home[g] # "none" => home'[g] # "none",
           invite' \in [Iid -> Invite],
           \A i \in Iid : invite'[i].home = invite[i].home,
           \A i \in Iid : invite[i].status # "none" <=> invite'[i].status # "none"
    PROVE  IInv'
<1> DEFINE new == [id |-> nextRow, home |-> h, owner |-> owner, canRecord |-> b]
<1>1. /\ nextRow \in 1 .. MaxRow /\ nextRow \in Nat /\ nextRow' = nextRow + 1
      /\ member' = [member EXCEPT ![u] = new] /\ nextRow # None
  BY HouseholdAssumption DEF IInv, TypeOK, Enrol, None
<1>2. new \in Row
  BY <1>1, HouseholdAssumption DEF Row
<1>3. /\ member' \in [User -> Row] /\ member'[u] = new
      /\ \A v \in User \ {u} : member'[v] = member[v]
      /\ nextRow' \in 1 .. MaxRow + 1
  BY <1>1, <1>2, HouseholdAssumption DEF IInv, TypeOK
<1>4. member'[u].id = nextRow /\ member'[u].home = h /\ member'[u].owner = owner
  BY <1>3
<1>5. \A v \in User : member[v].id \in Nat /\ member[v].id < nextRow
  BY HouseholdAssumption DEF IInv, TypeOK, RowsAreNumbered, Row
<1> HIDE DEF new
<1>6. RowsLiveOn
  BY <1>1, <1>3, <1>4 DEF RowsLiveOn, Enrolled
<1>7. RowsAreNumbered'
  BY <1>1, <1>3, <1>4, <1>5 DEF IInv, RowsAreNumbered, Enrolled
<1>8. HomesAreFounded'
  <2>1. \A v \in User : Enrolled(v)' => member'[v].home \in Home /\ home'[member'[v].home] # "none"
    BY <1>3, <1>4 DEF IInv, HomesAreFounded, Enrolled, TypeOK, Row
  <2>2. \A i \in Iid : invite'[i].status # "none" => home'[invite'[i].home] # "none"
    BY DEF IInv, HomesAreFounded, TypeOK, Invite
  <2> QED BY <2>1, <2>2 DEF HomesAreFounded
<1>9. AtMostOneOwner'
  <2> SUFFICES ASSUME NEW g \in Home, NEW v \in Owners(g)', NEW w \in Owners(g)'
               PROVE  v = w
    BY DEF AtMostOneOwner
  <2>1. \A x \in Owners(g)' : x # u => x \in Owners(g)
    BY <1>3 DEF Owners, Members, Enrolled
  <2>2. u \in Owners(g)' => Owners(g) = {}
    BY <1>4 DEF Owners, Members, IInv, HomesAreFounded
  <2> QED BY <2>1, <2>2 DEF IInv, AtMostOneOwner
<1>10. job' \in [Req -> Job] /\ overlapped' \in BOOLEAN
       /\ \A q \in Req : job'[q] = job[q] \/ job'[q] = Idle
  BY FinishTypes
<1> QED BY <1>3, <1>6, <1>7, <1>8, <1>9, <1>10, WriterKeeps DEF IInv, TypeOK

\* Some memberships go or change permission; none starts to own.
LEMMA LoseKeeps ==
    ASSUME IInv, member' \in [User -> Row],
           \A u \in User : member'[u].id # None =>
              /\ Enrolled(u) /\ member'[u].id = member[u].id
              /\ member'[u].home = member[u].home
              /\ member[u].owner => member'[u].owner,
           AtMostOneOwner',
           UNCHANGED <<nextRow, invite>>, NEW r \in Req, Finish(r),
           joint' \in [Home -> {"none", "open", "archived"}],
           home' \in [Home -> {"none", "open", "closed"}],
           \A h \in Home : home[h] # "none" => home'[h] # "none"
    PROVE  IInv'
<1>1. \A u \in User : member[u].id \in Nat /\ nextRow \in Nat /\ member[u].home \in Home
  BY HouseholdAssumption DEF IInv, TypeOK, Row
<1>2. RowsLiveOn
  BY <1>1 DEF RowsLiveOn, IInv, TypeOK
<1>3. RowsAreNumbered'
  <2>1. \A u \in User : member'[u].id < nextRow
    <3>1. \A u \in User : member'[u].id = None => member'[u].id < nextRow
      BY HouseholdAssumption DEF IInv, TypeOK, None
    <3> QED BY <3>1 DEF IInv, RowsAreNumbered
  <2>2. \A u, v \in User : (Enrolled(u)' /\ member'[u].id = member'[v].id) => u = v
    BY DEF IInv, RowsAreNumbered, Enrolled
  <2> QED BY <2>1, <2>2 DEF RowsAreNumbered
<1>4. HomesAreFounded'
  BY <1>1 DEF IInv, HomesAreFounded, Enrolled, TypeOK, Invite
<1>5. job' \in [Req -> Job] /\ overlapped' \in BOOLEAN
      /\ \A q \in Req : job'[q] = job[q] \/ job'[q] = Idle
  BY FinishTypes
<1> QED BY <1>2, <1>3, <1>4, <1>5, WriterKeeps DEF IInv, TypeOK

-----------------------------------------------------------------------------
(* Requests arrive and read.                                               *)

LEMMA AsOwnerKeeps ==
    ASSUME IInv, NEW r \in Req, NEW u \in User, NEW x \in 0 .. MaxRow \cup Iid,
           NEW b \in BOOLEAN,
           NEW pc \in {"permission_target", "remove_target", "invite", "revoke",
                       "joint_create", "joint_update"},
           pc \in Targeting => x < nextRow, pc = "revoke" => x \in Iid,
           AsOwner(r, u, pc, x, b)
    PROVE  IInv'
<1> DEFINE j == [pc |-> pc, user |-> u, self |-> None, home |-> member[u].home,
                 owner |-> TRUE, other |-> x, flag |-> b]
<1>1. Start(r, j) /\ Enrolled(u)
  BY DEF AsOwner
<1>2. j \in Job
  BY HouseholdAssumption DEF IInv, TypeOK, Row, Job, Pc, None
<1>3. Remembers(j)
  BY <1>1 DEF Remembers, Leaving, Targeting, IInv, HomesAreFounded
<1> QED BY <1>1, <1>2, <1>3, StartKeeps

LEMMA CreateHouseholdKeeps ==
    ASSUME IInv, NEW r \in Req, NEW u \in User, CreateHousehold(r, u)
    PROVE  IInv'
<1> DEFINE j == [Idle EXCEPT !.pc = "found", !.user = u]
<1>1. j \in Job
  BY IdleIsAJob DEF Job, Pc, Idle
<1>2. Remembers(j)
  BY DEF Remembers, Idle, Leaving, Targeting
<1> QED BY <1>1, <1>2, StartKeeps DEF CreateHousehold

LEMMA AcceptInviteKeeps ==
    ASSUME IInv, NEW r \in Req, NEW u \in User, NEW i \in Iid, AcceptInvite(r, u, i)
    PROVE  IInv'
<1> DEFINE j == [Idle EXCEPT !.pc = "accept_check", !.user = u, !.other = i]
<1>1. j \in Job
  BY IdleIsAJob DEF Job, Pc, Idle
<1>2. Remembers(j)
  BY DEF Remembers, Idle, Leaving, Targeting, AcceptInvite
<1> QED BY <1>1, <1>2, StartKeeps DEF AcceptInvite

LEMMA LeaveStarts ==
    ASSUME IInv, NEW r \in Req, NEW u \in User, Leave(r, u)
    PROVE  IInv'
<1> DEFINE j == [Idle EXCEPT !.pc = "leave_read", !.user = u, !.self = member[u].id,
                             !.home = member[u].home, !.owner = member[u].owner]
<1>1. /\ Start(r, j) /\ Enrolled(u) /\ member[u] \in Row
      /\ member[u].id < nextRow
  BY DEF Leave, IInv, TypeOK, RowsAreNumbered
<1>2. /\ j.pc = "leave_read" /\ j.user = u /\ j.self = member[u].id
      /\ j.home = member[u].home /\ j.owner = member[u].owner
  BY DEF Idle
<1>3. j \in Job
  BY <1>1, IdleIsAJob DEF Job, Pc, Idle, Row
<1> HIDE DEF j
<1>4. Remembers(j)
  BY <1>1, <1>2 DEF Remembers, Leaving, Targeting, Holder, Enrolled, IInv, RowsAreNumbered
<1> QED BY <1>1, <1>3, <1>4, StartKeeps

LEMMA AcceptCheckKeeps ==
    ASSUME IInv, NEW r \in Req, AcceptCheck(r)
    PROVE  IInv'
<1> DEFINE j == [job[r] EXCEPT !.pc = "join"]
<1>1. job[r] \in Job /\ Remembers(job[r]) /\ job[r].pc = "accept_check"
  BY DEF IInv, TypeOK, AcceptCheck
<1>2. j \in Job
  BY <1>1 DEF Job, Pc
<1>3. Remembers(j)
  BY <1>1 DEF Remembers, Leaving, Targeting, Job
<1> QED BY <1>2, <1>3, GoKeeps, FailKeeps DEF AcceptCheck

LEMMA FindTargetKeeps ==
    ASSUME IInv, NEW r \in Req, FindTarget(r)
    PROVE  IInv'
<1> DEFINE target == Holder(job[r].other) \cap Members(job[r].home)
<1>1. job[r] \in Job /\ Remembers(job[r]) /\ job[r].pc \in {"permission_target", "remove_target"}
  BY DEF IInv, TypeOK, FindTarget
<1>2. ASSUME NEW pc \in {"permission", "remove"}, target # {},
             Go(r, [job[r] EXCEPT !.pc = pc])
      PROVE  IInv'
  <2> DEFINE j == [job[r] EXCEPT !.pc = pc]
  <2>1. /\ j \in Job /\ j.pc = pc /\ j.owner = job[r].owner /\ j.other = job[r].other
        /\ j.home = job[r].home
    BY <1>1 DEF Job, Pc
  <2>2. \A u \in Holder(job[r].other) : member[u].home = job[r].home
    BY <1>2 DEF Holder, Members, IInv, RowsAreNumbered
  <2>3. job[r].owner /\ job[r].other < nextRow
    BY <1>1 DEF Remembers, Targeting
  <2> HIDE DEF j
  <2>4. Remembers(j)
    BY <2>1, <2>2, <2>3 DEF Remembers, Leaving, Targeting
  <2> QED BY <1>2, <2>1, <2>4, GoKeeps DEF j
<1> QED BY <1>2, FailKeeps DEF FindTarget

\* A set of naturals that is not empty has a least element.
LEMMA LeastExists ==
    ASSUME NEW S \in SUBSET Nat, S # {}
    PROVE  \E m \in S : \A x \in S : m <= x
<1> DEFINE R == {p \in Nat \X Nat : p[1] < p[2]}
<1>1. IsWellFoundedOn(R, Nat)
  BY NatLessThanWellFounded DEF OpToRel
<1> HIDE DEF R
<1>2. PICK m \in S : \A x \in S : ~(<<x, m>> \in R)
  BY <1>1, WFMin
<1>3. \A x \in S : x \in Nat /\ m \in Nat /\ ~(x < m)
  BY <1>2 DEF R
<1> QED BY <1>3

\* The successor is the smallest id among the other members of the household.
LEMMA SeniorIsLeast ==
    ASSUME IInv, NEW j \in Job, Others(j) # {}
    PROVE  /\ Min(Others(j)) \in Others(j)
           /\ \A x \in Others(j) : Min(Others(j)) <= x
<1>1. Others(j) \in SUBSET Nat
  BY HouseholdAssumption DEF Others, Members, IInv, TypeOK, Row
<1>2. \E m \in Others(j) : \A x \in Others(j) : m <= x
  BY <1>1, LeastExists
<1> QED BY <1>2 DEF Min

LEMMA LeaveReadKeeps ==
    ASSUME IInv, NEW r \in Req, LeaveRead(r)
    PROVE  IInv'
<1> DEFINE k == job[r]
           x == IF Others(k) = {} THEN None ELSE Min(Others(k))
           j == [k EXCEPT !.pc = "leave", !.other = x]
<1>1. k \in Job /\ Remembers(k) /\ k.pc = "leave_read" /\ Go(r, j)
  BY DEF IInv, TypeOK, LeaveRead
<1>2. /\ x \in 0 .. MaxRow /\ x < nextRow /\ x # k.self
      /\ \A u \in Holder(x) : member[u].home = k.home
      /\ x # None => \A u \in Members(k.home) : member[u].id = k.self \/ x <= member[u].id
  <2>1. CASE Others(k) = {}
    <3>1. x = None /\ Holder(x) = {}
      BY <2>1 DEF Holder, Enrolled
    <3>2. None \in 0 .. MaxRow /\ None < nextRow /\ k.self # None
      BY <1>1, HouseholdAssumption DEF None, IInv, TypeOK, Remembers, Leaving
    <3> QED BY <3>1, <3>2
  <2>2. CASE Others(k) # {}
    <3>1. x \in Others(k) /\ \A y \in Others(k) : x <= y
      BY <1>1, <2>2, SeniorIsLeast
    <3>2. PICK u \in Members(k.home) : x = member[u].id /\ x # k.self
      BY <3>1 DEF Others
    <3>3. x \in 0 .. MaxRow /\ x < nextRow
      BY <3>2 DEF Members, IInv, TypeOK, Row, RowsAreNumbered
    <3>4. \A v \in Holder(x) : member[v].home = k.home
      BY <3>2 DEF Holder, Members, IInv, RowsAreNumbered
    <3>5. \A v \in Members(k.home) : member[v].id = k.self \/ x <= member[v].id
      BY <3>1 DEF Others
    <3> HIDE DEF x
    <3> QED BY <3>2, <3>3, <3>4, <3>5
  <2> QED BY <2>1, <2>2
<1>3. j = [k EXCEPT !.pc = "leave", !.other = x]
  OBVIOUS
<1> HIDE DEF x, k, j
<1>4. j = [pc |-> "leave", user |-> k.user, self |-> k.self, home |-> k.home,
           owner |-> k.owner, other |-> x, flag |-> k.flag]
  BY <1>1, <1>3, Zenon DEF Job
<1>5. j \in Job
  BY <1>1, <1>2, <1>4 DEF Job, Pc
<1>6. Remembers(j)
  BY <1>1, <1>2, <1>4 DEF Remembers, Leaving, Targeting
<1> QED BY <1>1, <1>5, <1>6, GoKeeps

-----------------------------------------------------------------------------
(* Requests write.                                                         *)

LEMMA FoundKeeps ==
    ASSUME IInv, NEW r \in Req, Found(r)
    PROVE  IInv'
<1> DEFINE u == job[r].user
<1>1. u \in User
  BY DEF IInv, TypeOK, Job
<1>2. CASE Fail(r)
  BY <1>2, FailKeeps
<1>3. ASSUME NEW h \in Home, ~Enrolled(u), home[h] = "none",
             home' = [home EXCEPT ![h] = "open"], Enrol(u, h, TRUE, TRUE), Finish(r),
             UNCHANGED <<invite, joint>>
      PROVE  IInv'
  <2>1. home' \in [Home -> {"none", "open", "closed"}] /\ home'[h] # "none"
        /\ \A g \in Home : home[g] # "none" => home'[g] # "none"
    BY <1>3 DEF IInv, TypeOK
  <2>2. invite' \in [Iid -> Invite]
    BY <1>3 DEF IInv, TypeOK
  <2> HIDE DEF u
  <2> QED BY <1>1, <1>3, <2>1, <2>2, EnrolKeeps
<1> QED BY <1>2, <1>3 DEF Found

LEMMA JoinKeeps ==
    ASSUME IInv, NEW r \in Req, Join(r)
    PROVE  IInv'
<1> DEFINE u == job[r].user
           i == job[r].other
           h == invite[i].home
           b == invite[i].canRecord
<1>1. u \in User /\ i \in Iid /\ invite[i].status # "none"
  BY DEF IInv, TypeOK, Job, Remembers, Join
<1>2. CASE Fail(r)
  BY <1>2, FailKeeps
<1>3. ASSUME ~Enrolled(u), invite' = [invite EXCEPT ![i].status = "accepted", ![i].by = {u}],
             Enrol(u, h, FALSE, b), Finish(r), UNCHANGED <<home, joint>>
      PROVE  IInv'
  <2> HIDE DEF u, i
  <2>1. invite \in [Iid -> Invite]
    BY DEF IInv, TypeOK
  <2>2. /\ invite' \in [Iid -> Invite]
        /\ \A k \in Iid : invite'[k].home = invite[k].home
        /\ \A k \in Iid \ {i} : invite'[k] = invite[k]
        /\ invite'[i].status = "accepted"
    BY <1>1, <1>3, <2>1 DEF Invite
  <2>3. h \in Home /\ b \in BOOLEAN
    BY <1>1, <2>1 DEF Invite
  <2>4. home[h] # "none" /\ home' \in [Home -> {"none", "open", "closed"}]
    BY <1>1, <1>3 DEF IInv, HomesAreFounded, TypeOK
  <2>5. \A k \in Iid : invite[k].status # "none" <=> invite'[k].status # "none"
    BY <1>1, <2>2
  <2>6. /\ home'[h] # "none" /\ UNCHANGED joint
        /\ \A g \in Home : home[g] # "none" => home'[g] # "none"
    BY <1>3, <2>4
  <2> HIDE DEF h, b
  <2> DEFINE owner == FALSE
  <2>7. owner \in BOOLEAN /\ (owner => home[h] = "none") /\ Enrol(u, h, owner, b)
    BY <1>3
  <2> HIDE DEF owner
  <2> QED BY <1>1, <1>3, <2>2, <2>3, <2>4, <2>5, <2>6, <2>7, EnrolKeeps
<1> QED BY <1>2, <1>3 DEF Join

LEMMA InsertInviteKeeps ==
    ASSUME IInv, NEW r \in Req, InsertInvite(r)
    PROVE  IInv'
<1>1. PICK i \in Iid : invite' = [invite EXCEPT ![i] =
                [NoInvite EXCEPT !.status = "pending", !.home = job[r].home,
                                 !.canRecord = job[r].flag]]
  BY DEF InsertInvite
<1> DEFINE new == [NoInvite EXCEPT !.status = "pending", !.home = job[r].home,
                                   !.canRecord = job[r].flag]
<1>2. job[r] \in Job /\ home[job[r].home] # "none"
  BY DEF IInv, TypeOK, InsertInvite, Remembers
<1>3. new = [NoInvite EXCEPT !.status = "pending", !.home = job[r].home,
                             !.canRecord = job[r].flag]
  OBVIOUS
<1>4. invite' = [invite EXCEPT ![i] = new]
  BY <1>1
<1> HIDE DEF new
<1>5. new \in Invite /\ new.status = "pending" /\ home[new.home] # "none"
  <2>1. NoInvite \in Invite /\ NoInvite.by = {}
    BY HouseholdAssumption DEF NoInvite, Invite, Home
  <2>2. new = [status |-> "pending", home |-> job[r].home, canRecord |-> job[r].flag,
               by |-> NoInvite.by]
    BY <1>3, <2>1, Zenon DEF Invite
  <2> QED BY <1>2, <2>1, <2>2 DEF Job, Invite
<1>6. /\ invite' \in [Iid -> Invite]
      /\ \A k \in Iid : invite[k].status # "none" => invite'[k].status # "none"
      /\ \A k \in Iid : invite'[k].status # "none" => home[invite'[k].home] # "none"
  BY <1>4, <1>5 DEF IInv, TypeOK, HomesAreFounded
<1>7. /\ job' \in [Req -> Job] /\ \A q \in Req : job'[q] = job[q] \/ job'[q] = Idle
      /\ overlapped' \in BOOLEAN
  BY FinishTypes DEF InsertInvite
<1> QED BY <1>6, <1>7, AsideKeeps DEF InsertInvite, IInv, TypeOK

LEMMA StatusKeeps ==
    ASSUME IInv, NEW i \in Iid, NEW st \in {"expired", "revoked"},
           invite[i].status # "none", invite' = [invite EXCEPT ![i].status = st],
           UNCHANGED <<rows, home, joint>>,
           job' \in [Req -> Job], \A q \in Req : job'[q] = job[q] \/ job'[q] = Idle,
           overlapped' \in BOOLEAN
    PROVE  IInv'
<1>1. invite \in [Iid -> Invite]
  BY DEF IInv, TypeOK
<1>2. /\ invite' \in [Iid -> Invite]
      /\ \A k \in Iid : invite'[k].home = invite[k].home
      /\ \A k \in Iid \ {i} : invite'[k] = invite[k]
      /\ invite'[i].status # "none"
  BY <1>1 DEF Invite
<1>3. \A k \in Iid : invite'[k].status # "none" => home[invite'[k].home] # "none"
  BY <1>2 DEF IInv, HomesAreFounded
<1> QED BY <1>2, <1>3, AsideKeeps DEF IInv, TypeOK

LEMMA WriteRevokedKeeps ==
    ASSUME IInv, NEW r \in Req, WriteRevoked(r)
    PROVE  IInv'
<1>1. job[r].other \in Iid
  BY DEF IInv, Remembers, WriteRevoked
<1>2. /\ job' \in [Req -> Job] /\ \A q \in Req : job'[q] = job[q] \/ job'[q] = Idle
      /\ overlapped' \in BOOLEAN /\ UNCHANGED <<rows, home, joint>>
  BY FinishTypes DEF WriteRevoked
<1>3. CASE invite' = invite
  BY <1>2, <1>3, AsideKeeps DEF IInv, TypeOK, HomesAreFounded
<1>4. CASE invite' # invite
  BY <1>1, <1>2, <1>4, StatusKeeps DEF WriteRevoked
<1> QED BY <1>3, <1>4

LEMMA LapseKeeps ==
    ASSUME IInv, NEW i \in Iid, Lapse(i)
    PROVE  IInv'
  BY StatusKeeps DEF Lapse, IInv, TypeOK

LEMMA JointKeeps ==
    ASSUME IInv, NEW r \in Req, InsertJointAccount(r) \/ WriteJointAccount(r)
    PROVE  IInv'
<1>1. job[r].home \in Home /\ joint \in [Home -> {"none", "open", "archived"}]
  BY DEF IInv, TypeOK, Job
<1>2. joint' \in [Home -> {"none", "open", "archived"}]
  BY <1>1 DEF InsertJointAccount, WriteJointAccount
<1>3. /\ job' \in [Req -> Job] /\ \A q \in Req : job'[q] = job[q] \/ job'[q] = Idle
      /\ overlapped' \in BOOLEAN /\ UNCHANGED <<rows, home, invite>>
  BY FinishTypes DEF InsertJointAccount, WriteJointAccount
<1> QED BY <1>2, <1>3, AsideKeeps DEF IInv, TypeOK, HomesAreFounded

LEMMA WriteTargetKeeps ==
    ASSUME IInv, NEW r \in Req, WriteTarget(r)
    PROVE  IInv'
<1> DEFINE j == job[r]
<1>1. j \in Job /\ member \in [User -> Row] /\ NoRow \in Row /\ NoRow.id = None
  BY HouseholdAssumption DEF IInv, TypeOK, NoRow, Row, None, Home
<1>2. /\ member' = [u \in User |-> IF u \notin Holder(j.other) THEN member[u]
                                   ELSE IF j.pc = "remove" THEN NoRow
                                   ELSE [member[u] EXCEPT !.canRecord = j.flag]]
      /\ Finish(r) /\ UNCHANGED <<nextRow, home, invite, joint>>
  BY DEF WriteTarget
<1>3. ASSUME NEW u \in User
      PROVE  /\ member'[u] \in Row
             /\ member'[u].id # None =>
                   /\ Enrolled(u) /\ member'[u].id = member[u].id
                   /\ member'[u].home = member[u].home
                   /\ member'[u].owner = member[u].owner
  <2>1. member[u] \in Row /\ j.flag \in BOOLEAN
    BY <1>1 DEF Job
  <2>2. CASE member'[u] = member[u]
    BY <2>1, <2>2 DEF Enrolled
  <2>3. CASE member'[u] = NoRow
    BY <1>1, <2>3
  <2>4. CASE u \in Holder(j.other) /\ member'[u] = [member[u] EXCEPT !.canRecord = j.flag]
    BY <2>1, <2>4 DEF Row, Holder
  <2> QED BY <1>2, <2>2, <2>3, <2>4
<1>4. member' \in [User -> Row]
  BY <1>2, <1>3
<1>5. AtMostOneOwner'
  <2>1. \A h \in Home : \A u \in Owners(h)' : u \in Owners(h)
    BY <1>3 DEF Owners, Members, Enrolled
  <2> QED BY <2>1 DEF IInv, AtMostOneOwner
<1> QED BY <1>2, <1>3, <1>4, <1>5, LoseKeeps DEF IInv, TypeOK

\* What a departure does to the memberships.
LEMMA LeaveRows ==
    ASSUME IInv, NEW r \in Req, LeaveCommit(r), ~Fail(r)
    PROVE  LET j == job[r]
               u == j.user IN
           /\ u \in User /\ Holder(j.self) = {u} /\ Enrolled(u) /\ member[u].home = j.home
           /\ j.owner => member[u].owner
           /\ member' \in [User -> Row] /\ member'[u] = NoRow
           /\ \A v \in User \ {u} :
                 \/ member'[v] = member[v]
                 \/ /\ j.owner /\ v \in Holder(j.other) /\ Enrolled(v)
                    /\ member[v].home = j.home
                    /\ member'[v] = [member[v] EXCEPT !.owner = TRUE]
           /\ j.owner /\ j.other # None =>
                 \E v \in User \ {u} : /\ Holder(j.other) = {v}
                                       /\ member'[v] = [member[v] EXCEPT !.owner = TRUE]
<1> DEFINE j == job[r]
           u == j.user
           heir == IF j.owner THEN Holder(j.other) ELSE {}
<1>1. /\ j \in Job /\ Remembers(j) /\ j.pc = "leave" /\ u \in User
      /\ member \in [User -> Row] /\ NoRow \in Row
  BY HouseholdAssumption DEF IInv, TypeOK, LeaveCommit, Job, NoRow, Row, None, Home
<1>2. /\ Holder(j.self) # {}
      /\ (j.owner /\ j.other # None) => heir # {}
      /\ member' = [v \in User |-> CASE v \in Holder(j.self) -> NoRow
                                     [] v \in heir -> [member[v] EXCEPT !.owner = TRUE]
                                     [] OTHER -> member[v]]
  BY DEF LeaveCommit
<1>3. /\ Holder(j.self) = {u} /\ Enrolled(u) /\ member[u].id = j.self
      /\ member[u].home = j.home
      /\ j.owner => member[u].owner
  BY <1>1, <1>2 DEF Remembers, Leaving, Holder
<1>4. j.other # j.self /\ \A v \in Holder(j.other) : member[v].home = j.home /\ Enrolled(v)
  BY <1>1 DEF Remembers, Holder
<1>5. u \notin heir
  BY <1>3, <1>4 DEF Holder
<1>6. /\ member'[u] = NoRow
      /\ \A v \in heir : v \in User /\ member'[v] = [member[v] EXCEPT !.owner = TRUE]
      /\ \A v \in User \ {u} : v \notin heir => member'[v] = member[v]
  BY <1>1, <1>2, <1>3, <1>5 DEF Holder
<1>7. member' \in [User -> Row]
  <2>1. ASSUME NEW v \in User PROVE member'[v] \in Row
    <3>1. member[v] \in Row
      BY <1>1
    <3>2. CASE member'[v] = [member[v] EXCEPT !.owner = TRUE]
      BY <3>1, <3>2 DEF Row
    <3> QED BY <1>1, <1>6, <3>1, <3>2
  <2> QED BY <1>2, <2>1
<1>8. (j.owner /\ j.other # None) =>
         \E v \in User \ {u} : /\ Holder(j.other) = {v}
                               /\ member'[v] = [member[v] EXCEPT !.owner = TRUE]
  <2> SUFFICES ASSUME j.owner, j.other # None
               PROVE  \E v \in User \ {u} : /\ Holder(j.other) = {v}
                                            /\ member'[v] = [member[v] EXCEPT !.owner = TRUE]
    OBVIOUS
  <2>1. PICK v \in Holder(j.other) : v \in heir
    BY <1>2
  <2>2. Holder(j.other) = {v}
    BY <2>1 DEF Holder, IInv, RowsAreNumbered
  <2> QED BY <1>5, <1>6, <2>1, <2>2
<1> QED BY <1>1, <1>3, <1>4, <1>6, <1>7, <1>8

LEMMA LeaveCommitKeeps ==
    ASSUME IInv, NEW r \in Req, LeaveCommit(r)
    PROVE  IInv'
<1>1. CASE Fail(r)
  BY <1>1, FailKeeps
<1>2. CASE ~Fail(r)
  <2> DEFINE j == job[r]
             u == j.user
  <2>1. /\ u \in User /\ Enrolled(u) /\ member[u].home = j.home
        /\ j.owner => member[u].owner
        /\ member' \in [User -> Row] /\ member'[u] = NoRow
        /\ \A v \in User \ {u} :
              \/ member'[v] = member[v]
              \/ /\ j.owner /\ v \in Holder(j.other) /\ Enrolled(v) /\ member[v].home = j.home
                 /\ member'[v] = [member[v] EXCEPT !.owner = TRUE]
    BY <1>2, LeaveRows
  <2>2. /\ Finish(r) /\ UNCHANGED <<nextRow, invite>> /\ j.home \in Home
        /\ home' = IF j.other = None THEN [home EXCEPT ![j.home] = "closed"] ELSE home
        /\ joint' = IF j.other = None /\ joint[j.home] = "open"
                    THEN [joint EXCEPT ![j.home] = "archived"] ELSE joint
    BY <1>2 DEF LeaveCommit, IInv, TypeOK, Job
  <2> HIDE DEF j, u
  <2>3. /\ home' \in [Home -> {"none", "open", "closed"}]
        /\ joint' \in [Home -> {"none", "open", "archived"}]
        /\ \A h \in Home : home[h] # "none" => home'[h] # "none"
    BY <2>2 DEF IInv, TypeOK
  <2>4. ASSUME NEW v \in User, member'[v].id # None
        PROVE  /\ v # u /\ Enrolled(v) /\ member'[v].id = member[v].id
               /\ member'[v].home = member[v].home
               /\ member[v].owner => member'[v].owner
               /\ member'[v].owner =>
                     \/ member[v].owner
                     \/ j.owner /\ v \in Holder(j.other) /\ member[v].home = j.home
    <3>1. v # u
      BY <2>1, <2>4 DEF NoRow
    <3>2. CASE member'[v] = member[v]
      BY <2>4, <3>1, <3>2 DEF Enrolled
    <3>3. CASE /\ j.owner /\ v \in Holder(j.other) /\ Enrolled(v) /\ member[v].home = j.home
               /\ member'[v] = [member[v] EXCEPT !.owner = TRUE]
      BY <3>1, <3>3 DEF IInv, TypeOK, Row
    <3> QED BY <2>1, <3>1, <3>2, <3>3
  <2>5. AtMostOneOwner'
    <3> SUFFICES ASSUME NEW h \in Home, NEW v \in Owners(h)', NEW w \in Owners(h)'
                 PROVE  v = w
      BY DEF AtMostOneOwner
    <3>1. /\ v \in User /\ w \in User /\ v # u /\ w # u
          /\ v \in Owners(h) \/ (j.owner /\ v \in Holder(j.other) /\ h = j.home)
          /\ w \in Owners(h) \/ (j.owner /\ w \in Holder(j.other) /\ h = j.home)
      BY <2>4 DEF Owners, Members, Enrolled
    <3>2. CASE v \in Owners(h) /\ w \in Owners(h)
      BY <3>2 DEF IInv, AtMostOneOwner
    <3>3. CASE j.owner /\ h = j.home
      <4>1. u \in Owners(h)
        BY <2>1, <3>3 DEF Owners, Members
      <4>2. v \notin Owners(h) /\ w \notin Owners(h)
        BY <3>1, <4>1 DEF IInv, AtMostOneOwner
      <4> QED BY <3>1, <4>2 DEF Holder, IInv, RowsAreNumbered
    <3> QED BY <3>1, <3>2, <3>3
  <2> QED BY <2>1, <2>2, <2>3, <2>4, <2>5, LoseKeeps
<1> QED BY <1>1, <1>2

-----------------------------------------------------------------------------
(* The invariant is inductive.                                             *)

LEMMA InitHolds == Init => IInv
<1> SUFFICES ASSUME Init PROVE IInv
  OBVIOUS
<1>1. NoRow \in Row /\ NoRow.id = None /\ NoInvite \in Invite /\ NoInvite.status = "none"
  BY HouseholdAssumption DEF NoRow, Row, NoInvite, Invite, None, Home
<1>2. job \in [Req -> Job]
  <2>1. ASSUME NEW r \in Req PROVE Idle \in Job
    <3>1. 1 \in Home /\ None \in 0 .. MaxRow
      BY HouseholdAssumption DEF Home, None
    <3>2. SomeUser \in User
      BY HouseholdAssumption DEF SomeUser
    <3> QED BY <3>1, <3>2 DEF Idle, Job, Pc
  <2> QED BY <2>1 DEF Init
<1>3. TypeOK
  <2>1. nextRow \in 1 .. MaxRow + 1 /\ member \in [User -> Row] /\ invite \in [Iid -> Invite]
    BY <1>1, HouseholdAssumption DEF Init
  <2>2. /\ home \in [Home -> {"none", "open", "closed"}]
        /\ joint \in [Home -> {"none", "open", "archived"}] /\ overlapped \in BOOLEAN
    BY DEF Init
  <2> QED BY <1>2, <2>1, <2>2 DEF TypeOK
<1>4. \A u \in User : member[u].id = None /\ ~Enrolled(u)
  BY <1>1 DEF Init, Enrolled
<1>5. RowsAreNumbered /\ HomesAreFounded /\ AtMostOneOwner
  BY <1>1, <1>4 DEF Init, RowsAreNumbered, HomesAreFounded, AtMostOneOwner, Owners, Members,
                    None
<1> QED BY <1>3, <1>5, IdleRemembersNothing DEF Init, IInv

LEMMA ArriveKeeps ==
    ASSUME IInv, NEW r \in Req, NEW u \in User, Arrive(r, u)
    PROVE  IInv'
<1>1. None \in 0 .. MaxRow /\ TRUE \in BOOLEAN /\ FALSE \in BOOLEAN
  BY HouseholdAssumption DEF None
<1>2. \A v \in User : /\ member[v].id \in 0 .. MaxRow /\ member[v].id < nextRow
                      /\ member[v].canRecord \in BOOLEAN
  BY DEF IInv, TypeOK, Row, RowsAreNumbered
<1>3. ASSUME CreateJointAccount(r, u) PROVE IInv'
  BY <1>1, <1>3, AsOwnerKeeps DEF CreateJointAccount, Targeting
<1>4. ASSUME NEW b \in Granted, CreateInvite(r, u, b) PROVE IInv'
  <2>1. b \in BOOLEAN
    BY HouseholdAssumption
  <2> QED BY <1>1, <1>4, <2>1, AsOwnerKeeps DEF CreateInvite, Targeting
<1>5. ASSUME UpdateJointAccount(r, u, joint[member[u].home] = "open") PROVE IInv'
  <2> DEFINE b == joint[member[u].home] = "open"
  <2>1. b \in BOOLEAN /\ AsOwner(r, u, "joint_update", None, b)
    BY <1>5 DEF UpdateJointAccount
  <2> HIDE DEF b
  <2> QED BY <1>1, <2>1, AsOwnerKeeps DEF Targeting
<1>6. ASSUME NEW i \in Iid, RevokeInvite(r, u, i) PROVE IInv'
  BY <1>1, <1>6, AsOwnerKeeps DEF RevokeInvite, Targeting
<1>7. ASSUME NEW v \in User, SetPermission(r, u, member[v].id, ~member[v].canRecord)
      PROVE  IInv'
  <2> DEFINE b == ~member[v].canRecord
             x == member[v].id
  <2>1. b \in BOOLEAN /\ x \in 0 .. MaxRow /\ x < nextRow
        /\ AsOwner(r, u, "permission_target", x, b)
    BY <1>2, <1>7 DEF SetPermission
  <2> HIDE DEF b, x
  <2> QED BY <2>1, AsOwnerKeeps
<1>8. ASSUME NEW v \in User, RemoveMember(r, u, member[v].id) PROVE IInv'
  BY <1>1, <1>2, <1>8, AsOwnerKeeps DEF RemoveMember
<1> QED BY <1>3, <1>4, <1>5, <1>6, <1>7, <1>8, CreateHouseholdKeeps, LeaveStarts,
           AcceptInviteKeeps DEF Arrive

LEMMA StepKeeps ==
    ASSUME IInv, NEW r \in Req, Step(r)
    PROVE  IInv'
  BY FoundKeeps, InsertInviteKeeps, WriteRevokedKeeps, AcceptCheckKeeps, JoinKeeps,
     FindTargetKeeps, WriteTargetKeeps, LeaveReadKeeps, LeaveCommitKeeps, JointKeeps,
     FailKeeps DEF Step, Abort

LEMMA StutterKeeps == ASSUME IInv, UNCHANGED vars PROVE IInv'
<1>1. UNCHANGED <<rows, home, invite, joint, job, overlapped>>
  BY DEF vars
<1> QED BY <1>1, AsideKeeps DEF IInv, TypeOK, HomesAreFounded

LEMMA NextKeeps == IInv /\ [Next]_vars => IInv'
  BY ArriveKeeps, StepKeeps, LapseKeeps, StutterKeeps DEF Next

LEMMA Inductive == Spec => []IInv
<1>1. Init => IInv
  BY InitHolds
<1>2. IInv /\ [Next]_vars => IInv'
  BY NextKeeps
<1> QED BY <1>1, <1>2, PTL DEF Spec

\* The steps that change memberships, or who accepted an invitation.
LEMMA Writers ==
    ASSUME IInv, [Next]_vars
    PROVE  \/ member' = member /\ \A i \in Iid : invite'[i].by \subseteq invite[i].by
           \/ \E r \in Req : \/ (Found(r) \/ Join(r) \/ LeaveCommit(r)) /\ ~Fail(r)
                             \/ WriteTarget(r)
<1>1. ASSUME UNCHANGED <<rows, invite>>
      PROVE  member' = member /\ \A i \in Iid : invite'[i].by \subseteq invite[i].by
  BY <1>1 DEF rows
<1>2. ASSUME NEW r \in Req, NEW u \in User, Arrive(r, u) PROVE UNCHANGED <<rows, invite>>
  BY <1>2 DEF Arrive, CreateHousehold, Leave, CreateJointAccount, CreateInvite,
              UpdateJointAccount, AcceptInvite, RevokeInvite, SetPermission, RemoveMember,
              AsOwner, Start
<1>3. ASSUME NEW r \in Req, \/ AcceptCheck(r) \/ FindTarget(r) \/ LeaveRead(r)
                            \/ InsertJointAccount(r) \/ WriteJointAccount(r)
                            \/ Abort(r) \/ Fail(r)
      PROVE  UNCHANGED <<rows, invite>>
  BY <1>3 DEF AcceptCheck, FindTarget, LeaveRead, InsertJointAccount, WriteJointAccount,
              Abort, Fail, Go
<1>4. ASSUME NEW r \in Req, InsertInvite(r)
      PROVE  member' = member /\ \A i \in Iid : invite'[i].by \subseteq invite[i].by
  <2>1. PICK i \in Iid : /\ invite[i] = NoInvite
                         /\ invite' = [invite EXCEPT ![i] =
                               [NoInvite EXCEPT !.status = "pending", !.home = job[r].home,
                                                !.canRecord = job[r].flag]]
    BY <1>4 DEF InsertInvite
  <2>2. \A k \in Iid : invite'[k] = invite[k] \/ invite'[k].by = NoInvite.by
    BY <2>1 DEF IInv, TypeOK, NoInvite
  <2>3. NoInvite.by = {}
    BY DEF NoInvite
  <2> QED BY <1>4, <2>2, <2>3 DEF InsertInvite, rows
<1>5. ASSUME NEW r \in Req, WriteRevoked(r)
      PROVE  member' = member /\ \A i \in Iid : invite'[i].by \subseteq invite[i].by
  BY <1>5 DEF WriteRevoked, rows, IInv, TypeOK, Invite
<1>6. ASSUME NEW k \in Iid, Lapse(k)
      PROVE  member' = member /\ \A i \in Iid : invite'[i].by \subseteq invite[i].by
  BY <1>6 DEF Lapse, rows, IInv, TypeOK, Invite
<1>7. ASSUME UNCHANGED vars PROVE UNCHANGED <<rows, invite>>
  BY <1>7 DEF vars
<1> QED BY <1>1, <1>2, <1>3, <1>4, <1>5, <1>6, <1>7 DEF Next, Step

-----------------------------------------------------------------------------
(* The theorems.                                                           *)

\* Every variable of households.ts keeps its type.
THEOREM HouseholdTypes == Spec => []TypeOK
<1>1. IInv => TypeOK
  BY DEF IInv
<1> QED BY <1>1, Inductive, PTL

\* No interleaving of joins, departures, removals and handovers gives a
\* household two owners.
THEOREM OneOwnerAtMost == Spec => []AtMostOneOwner
<1>1. IInv => AtMostOneOwner
  BY DEF IInv
<1> QED BY <1>1, Inductive, PTL

\* Ownership passes only in the step in which the owner leaves, and to the
\* longest-standing of the members who remain, even when others join, leave or
\* are removed between the read of the successor and the commit.
THEOREM OwnershipPasses == Spec => OwnershipPassesToSenior
<1> DEFINE A == \A u \in User :
          (Enrolled(u) /\ member'[u].owner /\ ~member[u].owner) =>
              /\ \E v \in Owners(member[u].home) : member'[v] = NoRow
              /\ \A v \in Members(member[u].home) :
                    member'[v] # NoRow => member[u].id <= member[v].id
<1>1. IInv /\ [Next]_vars => [A]_vars
  <2> SUFFICES ASSUME IInv, [Next]_vars, NEW u \in User,
                      Enrolled(u), member'[u].owner, ~member[u].owner
               PROVE  /\ \E v \in Owners(member[u].home) : member'[v] = NoRow
                      /\ \A v \in Members(member[u].home) :
                            member'[v] # NoRow => member[u].id <= member[v].id
    OBVIOUS
  <2>1. ASSUME NEW r \in Req, Found(r) \/ Join(r), ~Fail(r) PROVE FALSE
    BY <2>1 DEF Found, Join, Enrol, IInv, TypeOK
  <2>2. ASSUME NEW r \in Req, WriteTarget(r) PROVE FALSE
    <3>1. member[u] \in Row /\ ~NoRow.owner
      BY DEF IInv, TypeOK, NoRow
    <3> QED BY <2>2, <3>1 DEF WriteTarget, Row
  <2>3. PICK r \in Req : LeaveCommit(r) /\ ~Fail(r)
    BY <2>1, <2>2, Writers
  <2> DEFINE j == job[r]
             w == j.user
  <2>4. /\ w \in User /\ Holder(j.self) = {w} /\ Enrolled(w) /\ member[w].home = j.home
        /\ j.owner => member[w].owner
        /\ member'[w] = NoRow
        /\ \A v \in User \ {w} :
              \/ member'[v] = member[v]
              \/ /\ j.owner /\ v \in Holder(j.other) /\ Enrolled(v) /\ member[v].home = j.home
                 /\ member'[v] = [member[v] EXCEPT !.owner = TRUE]
    BY <2>3, LeaveRows
  <2>5. u # w
    BY <2>4 DEF NoRow
  <2>6. j.owner /\ u \in Holder(j.other) /\ member[u].home = j.home
    BY <2>4, <2>5
  <2>7. w \in Owners(member[u].home)
    BY <2>4, <2>6 DEF Owners, Members
  <2>8. j.pc = "leave" /\ Remembers(j)
    BY <2>3 DEF LeaveCommit, IInv
  <2>9. ASSUME NEW v \in Members(member[u].home), member'[v] # NoRow
        PROVE  member[u].id <= member[v].id
    <3>1. j.other # None /\ member[u].id = j.other
      BY <2>6 DEF Holder, Enrolled
    <3>2. member[v].id # j.self
      BY <2>4, <2>9 DEF Holder, Members
    <3> QED BY <2>6, <2>8, <2>9, <3>1, <3>2 DEF Remembers
  <2> QED BY <2>4, <2>7, <2>9
<1> QED BY <1>1, Inductive, PTL DEF Spec, OwnershipPassesToSenior

\* A join that fails half-way never burns the invitation: whoever it is
\* recorded as accepted by becomes a member in that same step.
THEOREM FailedJoinsKeepTheInvite == Spec => FailedJoinKeepsInvite
<1> DEFINE A == \A i \in Iid : \A u \in invite'[i].by \ invite[i].by :
          /\ ~Enrolled(u)
          /\ member'[u] = [id |-> nextRow, home |-> invite[i].home, owner |-> FALSE,
                           canRecord |-> invite[i].canRecord]
<1>1. IInv /\ [Next]_vars => [A]_vars
  <2> SUFFICES ASSUME IInv, [Next]_vars, NEW i \in Iid, NEW u \in invite'[i].by \ invite[i].by
               PROVE  /\ ~Enrolled(u)
                      /\ member'[u] = [id |-> nextRow, home |-> invite[i].home,
                                       owner |-> FALSE, canRecord |-> invite[i].canRecord]
    OBVIOUS
  <2>1. ASSUME NEW r \in Req, Found(r) \/ LeaveCommit(r) \/ WriteTarget(r)
        PROVE  FALSE
    BY <2>1 DEF Found, LeaveCommit, WriteTarget, Fail
  <2>2. PICK r \in Req : Join(r) /\ ~Fail(r)
    BY <2>1, Writers
  <2>3. /\ invite' = [invite EXCEPT ![job[r].other].status = "accepted",
                                    ![job[r].other].by = {job[r].user}]
        /\ Enrol(job[r].user, invite[job[r].other].home, FALSE,
                 invite[job[r].other].canRecord)
        /\ ~Enrolled(job[r].user)
    BY <2>2 DEF Join
  <2>4. i = job[r].other /\ u = job[r].user /\ u \in User
    BY <2>3 DEF IInv, TypeOK, Invite, Job
  <2> QED BY <2>3, <2>4 DEF Enrol, IInv, TypeOK
<1> QED BY <1>1, Inductive, PTL DEF Spec, FailedJoinKeepsInvite

\* Nobody's membership ends or changes permission by a hand from another
\* household, however stale what the request has read.
THEOREM HandsStayInTheHousehold == Spec => HandsOffOtherHouseholds
<1> DEFINE A == \A u \in User :
          (Enrolled(u) /\ <<member'[u].id, member'[u].canRecord>>
                             # <<member[u].id, member[u].canRecord>>) =>
              \E r \in Req : /\ job[r].pc # "idle" /\ job'[r].pc = "idle"
                             /\ job[r].home = member[u].home
                             /\ job[r].owner \/ job[r].user = u
<1>1. IInv /\ [Next]_vars => [A]_vars
  <2> SUFFICES ASSUME IInv, [Next]_vars, NEW u \in User, Enrolled(u),
                      \/ member'[u].id # member[u].id
                      \/ member'[u].canRecord # member[u].canRecord
               PROVE  \E r \in Req : /\ job[r].pc # "idle" /\ job'[r].pc = "idle"
                                     /\ job[r].home = member[u].home
                                     /\ job[r].owner \/ job[r].user = u
    OBVIOUS
  <2>1. ASSUME NEW r \in Req, Finish(r) PROVE job'[r].pc = "idle"
    BY <2>1, FinishTypes DEF Idle
  <2>2. ASSUME NEW r \in Req, Found(r) \/ Join(r), ~Fail(r) PROVE FALSE
    BY <2>2 DEF Found, Join, Enrol, IInv, TypeOK
  <2>3. ASSUME NEW r \in Req, WriteTarget(r)
        PROVE  /\ job[r].pc # "idle" /\ job'[r].pc = "idle"
               /\ job[r].home = member[u].home /\ job[r].owner
    <3>1. Remembers(job[r]) /\ job[r].pc \in {"permission", "remove"} /\ Finish(r)
      BY <2>3 DEF IInv, WriteTarget
    <3>2. u \in Holder(job[r].other)
      BY <2>3 DEF WriteTarget, IInv, TypeOK
    <3> QED BY <2>1, <3>1, <3>2 DEF Remembers, Targeting
  <2>4. ASSUME NEW r \in Req, LeaveCommit(r), ~Fail(r)
        PROVE  /\ job[r].pc # "idle" /\ job'[r].pc = "idle"
               /\ job[r].home = member[u].home /\ job[r].user = u
    <3>1. member[job[r].user].home = job[r].home
          /\ \A v \in User \ {job[r].user} :
                \/ member'[v] = member[v]
                \/ member'[v] = [member[v] EXCEPT !.owner = TRUE]
      BY <2>4, LeaveRows
    <3>2. u = job[r].user
      <4> SUFFICES ASSUME u # job[r].user PROVE FALSE
        OBVIOUS
      <4>1. member'[u] = [member[u] EXCEPT !.owner = TRUE] /\ member[u] \in Row
        BY <3>1 DEF IInv, TypeOK
      <4> QED BY <4>1 DEF Row
    <3>3. job[r].pc = "leave" /\ Finish(r)
      BY <2>4 DEF LeaveCommit
    <3> QED BY <2>1, <3>1, <3>2, <3>3
  <2> QED BY <2>2, <2>3, <2>4, Writers
<1> QED BY <1>1, Inductive, PTL DEF Spec, HandsOffOtherHouseholds
-----------------------------------------------------------------------------
(* Requests that do not overlap.                                           *)

HomesAreSound ==
    \A h \in Home :
        /\ home[h] = "open" => \E u \in User : Owners(h) = {u}
        /\ home[h] # "open" => Members(h) = {}
        /\ home[h] = "closed" => joint[h] # "open"

\* What a request that runs alone has read is still so when it writes.
Recalls(j) ==
    /\ j.pc \in Leaving => \A u \in Holder(j.self) : member[u].owner => j.owner
    /\ j.pc = "leave" /\ j.other = None => Members(j.home) \subseteq Holder(j.self)
    /\ j.pc \in {"remove_target", "remove"} =>
          \A u \in Holder(j.other) \cap Members(j.home) : ~member[u].owner
    /\ j.pc \in {"accept_check", "join"} => home[invite[j.other].home] = "open"
    /\ j.pc \in {"joint_create", "joint_update"} => home[j.home] = "open"

OneAtATime == \A q, r \in Req : job[q].pc # "idle" /\ job[r].pc # "idle" => q = r

SerialInv ==
    ~overlapped => OneAtATime /\ HomesAreSound /\ \A r \in Req : Recalls(job[r])

LEMMA IdleRecallsNothing == \A j : j.pc = "idle" => Recalls(j)
  BY DEF Recalls, Leaving

\* Whether the homes are sound, and what a request recalls, depends on the rows.
LEMMA SoundnessIsInTheRows ==
    ASSUME UNCHANGED <<rows, home>>, HomesAreSound,
           \A h \in Home : joint'[h] = "open" => joint[h] = "open" \/ home[h] = "open"
    PROVE  HomesAreSound'
  BY DEF rows, HomesAreSound, Owners, Members, Enrolled

LEMMA RequestStartsAlone ==
    ASSUME IInv, SerialInv, NEW r \in Req, NEW j, Start(r, j), HomesAreSound => Recalls(j)
    PROVE  SerialInv'
<1> SUFFICES ASSUME ~overlapped' PROVE (OneAtATime /\ HomesAreSound /\ \A q \in Req : Recalls(job[q]))'
  BY DEF SerialInv
<1>1. /\ ~overlapped /\ \A q \in Req : job[q].pc = "idle"
      /\ HomesAreSound /\ Recalls(j)
      /\ job'[r] = j /\ \A q \in Req \ {r} : job'[q] = job[q]
      /\ UNCHANGED <<rows, home, invite, joint>>
  BY DEF SerialInv, Start, IInv, TypeOK
<1>2. OneAtATime'
  BY <1>1 DEF OneAtATime
<1>3. HomesAreSound'
  BY <1>1, SoundnessIsInTheRows
<1>4. \A q \in Req : Recalls(job'[q])
  BY <1>1, IdleRecallsNothing
<1>5. (\A q \in Req : Recalls(job[q]))'
  BY <1>1, <1>4 DEF Recalls, rows, Holder, Members, Enrolled
<1> QED BY <1>2, <1>3, <1>5

LEMMA RequestGoesOn ==
    ASSUME IInv, SerialInv, NEW r \in Req, NEW j, Go(r, j), job[r].pc # "idle",
           ~overlapped => Recalls(j)
    PROVE  SerialInv'
<1> SUFFICES ASSUME ~overlapped' PROVE (OneAtATime /\ HomesAreSound /\ \A q \in Req : Recalls(job[q]))'
  BY DEF SerialInv
<1>1. /\ ~overlapped /\ \A q \in Req \ {r} : job[q].pc = "idle"
      /\ HomesAreSound /\ Recalls(j)
      /\ job'[r] = j /\ \A q \in Req \ {r} : job'[q] = job[q]
      /\ UNCHANGED <<rows, home, invite, joint>>
  BY DEF SerialInv, OneAtATime, Go, IInv, TypeOK
<1>2. OneAtATime'
  BY <1>1 DEF OneAtATime
<1>3. HomesAreSound'
  BY <1>1, SoundnessIsInTheRows
<1>4. \A q \in Req : Recalls(job'[q])
  BY <1>1, IdleRecallsNothing
<1>5. (\A q \in Req : Recalls(job[q]))'
  BY <1>1, <1>4 DEF Recalls, rows, Holder, Members, Enrolled
<1> QED BY <1>2, <1>3, <1>5

LEMMA RequestEnds ==
    ASSUME IInv, SerialInv, NEW r \in Req, Finish(r), job[r].pc # "idle",
           ~overlapped => HomesAreSound'
    PROVE  SerialInv'
<1> SUFFICES ASSUME ~overlapped'
             PROVE  (OneAtATime /\ HomesAreSound /\ \A q \in Req : Recalls(job[q]))'
  BY DEF SerialInv
<1>1. /\ ~overlapped /\ HomesAreSound' /\ Idle.pc = "idle"
      /\ \A q \in Req : job'[q].pc = "idle"
  BY DEF SerialInv, OneAtATime, Finish, IInv, TypeOK, Idle
<1>2. OneAtATime'
  BY <1>1 DEF OneAtATime
<1>3. (\A q \in Req : Recalls(job[q]))'
  BY <1>1 DEF Recalls, Leaving
<1> QED BY <1>1, <1>2, <1>3

LEMMA FailSerial ==
    ASSUME IInv, SerialInv, NEW r \in Req, Fail(r), job[r].pc # "idle"
    PROVE  SerialInv'
<1>1. ~overlapped => HomesAreSound'
  BY SoundnessIsInTheRows DEF Fail, SerialInv
<1> QED BY <1>1, RequestEnds DEF Fail

\* Requests that arrive while no other is in progress.
LEMMA ArriveSerial ==
    ASSUME IInv, SerialInv, NEW r \in Req, NEW u \in User, Arrive(r, u)
    PROVE  SerialInv'
<1>1. ASSUME NEW pc \in {"permission_target", "invite", "revoke", "joint_create",
                         "joint_update"},
             NEW x, NEW b, AsOwner(r, u, pc, x, b)
      PROVE  SerialInv'
  <2> DEFINE j == [pc |-> pc, user |-> u, self |-> None, home |-> member[u].home,
                   owner |-> TRUE, other |-> x, flag |-> b]
  <2>1. Start(r, j) /\ u \in Members(member[u].home) /\ member[u].home \in Home
    BY <1>1 DEF AsOwner, Members, IInv, TypeOK, Row
  <2>2. HomesAreSound => Recalls(j)
    BY <2>1 DEF HomesAreSound, Recalls, Leaving
  <2> QED BY <2>1, <2>2, RequestStartsAlone
<1>2. ASSUME NEW x, RemoveMember(r, u, x)
      PROVE  SerialInv'
  <2> DEFINE j == [pc |-> "remove_target", user |-> u, self |-> None,
                   home |-> member[u].home, owner |-> TRUE, other |-> x, flag |-> FALSE]
  <2>1. /\ Start(r, j) /\ x # member[u].id /\ member[u].home \in Home
        /\ u \in Owners(member[u].home)
    BY <1>2 DEF RemoveMember, AsOwner, Owners, Members, IInv, TypeOK, Row
  <2>2. \A v \in Holder(x) \cap Members(member[u].home) : ~member[v].owner
    BY <2>1 DEF Holder, Owners, IInv, AtMostOneOwner
  <2>3. Recalls(j)
    BY <2>2 DEF Recalls, Leaving
  <2> QED BY <2>1, <2>3, RequestStartsAlone
<1>3. ASSUME CreateHousehold(r, u) PROVE SerialInv'
  <2>1. Recalls([Idle EXCEPT !.pc = "found", !.user = u])
    BY DEF Recalls, Leaving, Idle
  <2> QED BY <1>3, <2>1, RequestStartsAlone DEF CreateHousehold
<1>4. ASSUME NEW i \in Iid, AcceptInvite(r, u, i) PROVE SerialInv'
  <2> DEFINE j == [Idle EXCEPT !.pc = "accept_check", !.user = u, !.other = i]
  <2>1. Recalls(j)
    BY <1>4 DEF Recalls, Leaving, Idle, AcceptInvite
  <2> QED BY <1>4, <2>1, RequestStartsAlone DEF AcceptInvite
<1>5. ASSUME Leave(r, u) PROVE SerialInv'
  <2> DEFINE j == [Idle EXCEPT !.pc = "leave_read", !.user = u, !.self = member[u].id,
                               !.home = member[u].home, !.owner = member[u].owner]
  <2>1. Start(r, j) /\ Enrolled(u)
    BY <1>5 DEF Leave
  <2>2. j.pc = "leave_read" /\ j.self = member[u].id /\ j.owner = member[u].owner
    BY DEF Idle
  <2> HIDE DEF j
  <2>3. Recalls(j)
    BY <2>1, <2>2 DEF Recalls, Leaving, Holder, Enrolled, IInv, RowsAreNumbered
  <2> QED BY <2>1, <2>3, RequestStartsAlone
<1>6. ASSUME UpdateJointAccount(r, u, joint[member[u].home] = "open") PROVE SerialInv'
  <2> DEFINE b == joint[member[u].home] = "open"
  <2>1. AsOwner(r, u, "joint_update", None, b)
    BY <1>6 DEF UpdateJointAccount
  <2> HIDE DEF b
  <2> QED BY <1>1, <2>1
<1>7. ASSUME NEW v \in User, SetPermission(r, u, member[v].id, ~member[v].canRecord)
      PROVE  SerialInv'
  <2> DEFINE b == ~member[v].canRecord
  <2>1. AsOwner(r, u, "permission_target", member[v].id, b)
    BY <1>7 DEF SetPermission
  <2> HIDE DEF b
  <2> QED BY <1>1, <2>1
<1>8. ASSUME NEW b \in Granted, CreateInvite(r, u, b) PROVE SerialInv'
  BY <1>1, <1>8 DEF CreateInvite
<1>9. ASSUME NEW i \in Iid, RevokeInvite(r, u, i) PROVE SerialInv'
  BY <1>1, <1>9 DEF RevokeInvite
<1>10. ASSUME CreateJointAccount(r, u) PROVE SerialInv'
  BY <1>1, <1>10 DEF CreateJointAccount
<1> QED BY <1>2, <1>3, <1>4, <1>5, <1>6, <1>7, <1>8, <1>9, <1>10 DEF Arrive

\* A request reads on.
LEMMA ReadSerial ==
    ASSUME IInv, SerialInv, NEW r \in Req, AcceptCheck(r) \/ FindTarget(r) \/ LeaveRead(r)
    PROVE  SerialInv'
<1>1. job[r] \in Job /\ Remembers(job[r]) /\ ~overlapped => Recalls(job[r])
  BY DEF IInv, TypeOK, SerialInv
<1>2. job[r] \in Job /\ Remembers(job[r])
  BY DEF IInv, TypeOK
<1>3. CASE AcceptCheck(r)
  <2> DEFINE j == [job[r] EXCEPT !.pc = "join"]
  <2>1. Recalls(job[r]) => Recalls(j)
    BY <1>2, <1>3 DEF AcceptCheck, Recalls, Leaving, Job
  <2> QED BY <1>1, <1>2, <1>3, <2>1, FailSerial, RequestGoesOn DEF AcceptCheck
<1>4. CASE FindTarget(r)
  <2>1. ASSUME Recalls(job[r]), job[r].pc = "remove_target"
        PROVE  Recalls([job[r] EXCEPT !.pc = "remove"])
    BY <1>2, <2>1 DEF Recalls, Leaving, Job
  <2>2. ASSUME job[r].pc = "permission_target"
        PROVE  Recalls([job[r] EXCEPT !.pc = "permission"])
    BY <1>2 DEF Recalls, Leaving, Job
  <2> QED BY <1>1, <1>2, <1>4, <2>1, <2>2, FailSerial, RequestGoesOn DEF FindTarget
<1>5. CASE LeaveRead(r)
  <2> DEFINE k == job[r]
             x == IF Others(k) = {} THEN None ELSE Min(Others(k))
             j == [k EXCEPT !.pc = "leave", !.other = x]
  <2>1. k.pc = "leave_read" /\ Go(r, j)
    BY <1>5 DEF LeaveRead
  <2>2. x = None => Members(k.home) \subseteq Holder(k.self)
    <3>1. Others(k) # {} => x # None
      BY <1>2, SeniorIsLeast DEF Others, Members, Enrolled
    <3>2. Others(k) = {} => Members(k.home) \subseteq Holder(k.self)
      BY DEF Others, Members, Holder
    <3> QED BY <3>1, <3>2
  <2>3. j = [k EXCEPT !.pc = "leave", !.other = x]
    OBVIOUS
  <2> HIDE DEF x, k, j
  <2>4. k \in Job
    BY <1>2 DEF k
  <2>5. j = [pc |-> "leave", user |-> k.user, self |-> k.self, home |-> k.home,
             owner |-> k.owner, other |-> x, flag |-> k.flag]
    BY <2>3, <2>4, Zenon DEF Job
  <2>6. Recalls(k) => Recalls(j)
    BY <2>1, <2>2, <2>5 DEF Recalls, Leaving
  <2> QED BY <1>1, <1>2, <2>1, <2>6, RequestGoesOn DEF k
<1> QED BY <1>3, <1>4, <1>5

\* A new membership does not upset a household, nor found one twice.
LEMMA FoundSerial ==
    ASSUME IInv, SerialInv, NEW r \in Req, Found(r)
    PROVE  SerialInv'
<1>1. CASE Fail(r)
  BY <1>1, FailSerial DEF Found
<1>2. CASE ~Fail(r)
  <2> DEFINE u == job[r].user
  <2>1. PICK h \in Home : /\ ~Enrolled(u) /\ home[h] = "none"
                          /\ home' = [home EXCEPT ![h] = "open"]
                          /\ Enrol(u, h, TRUE, TRUE) /\ Finish(r) /\ UNCHANGED joint
    BY <1>2 DEF Found
  <2>2. /\ u \in User /\ nextRow # None
        /\ member'[u].id = nextRow /\ member'[u].home = h /\ member'[u].owner
        /\ \A v \in User \ {u} : member'[v] = member[v]
        /\ home'[h] = "open" /\ \A g \in Home \ {h} : home'[g] = home[g]
    BY <2>1, HouseholdAssumption DEF IInv, TypeOK, Job, Enrol, None
  <2>3. ASSUME HomesAreSound PROVE HomesAreSound'
    <3>1. Owners(h)' = {u}
      <4>1. Members(h) = {}
        BY <2>1, <2>3 DEF HomesAreSound
      <4>2. u \in Owners(h)'
        BY <2>2 DEF Owners, Members, Enrolled
      <4>3. \A v \in Owners(h)' : v = u
        BY <2>2, <4>1 DEF Owners, Members, Enrolled
      <4> QED BY <4>2, <4>3
    <3>2. ASSUME NEW g \in Home \ {h}
          PROVE  Members(g)' = Members(g) /\ Owners(g)' = Owners(g)
      BY <2>1, <2>2 DEF Owners, Members, Enrolled
    <3> QED BY <2>1, <2>2, <2>3, <3>1, <3>2 DEF HomesAreSound
  <2> QED BY <2>1, <2>3, RequestEnds DEF Found, SerialInv
<1> QED BY <1>1, <1>2

LEMMA JoinSerial ==
    ASSUME IInv, SerialInv, NEW r \in Req, Join(r)
    PROVE  SerialInv'
<1>1. CASE Fail(r)
  BY <1>1, FailSerial DEF Join
<1>2. CASE ~Fail(r)
  <2> DEFINE u == job[r].user
             i == job[r].other
             h == invite[i].home
  <2>1. /\ ~Enrolled(u) /\ Enrol(u, h, FALSE, invite[i].canRecord)
        /\ Finish(r) /\ UNCHANGED <<home, joint>> /\ job[r].pc = "join"
    BY <1>2 DEF Join
  <2>2. /\ u \in User /\ i \in Iid
        /\ member'[u].home = h /\ ~member'[u].owner
        /\ \A v \in User \ {u} : member'[v] = member[v]
    <3>1. job[r] \in Job /\ Remembers(job[r]) /\ member \in [User -> Row]
      BY DEF IInv, TypeOK
    <3> QED BY <2>1, <3>1 DEF Job, Remembers, Enrol
  <2>3. ASSUME HomesAreSound, Recalls(job[r]) PROVE HomesAreSound'
    <3>1. home[h] = "open"
      BY <2>1, <2>3 DEF Recalls
    <3>2. ASSUME NEW g \in Home PROVE Owners(g)' = Owners(g) /\ (g # h => Members(g)' = Members(g))
      BY <2>1, <2>2 DEF Owners, Members, Enrolled
    <3> QED BY <2>1, <2>3, <3>1, <3>2 DEF HomesAreSound
  <2> QED BY <2>1, <2>3, RequestEnds DEF SerialInv
<1> QED BY <1>1, <1>2

\* The member who is removed does not own the household.
LEMMA WriteTargetSerial ==
    ASSUME IInv, SerialInv, NEW r \in Req, WriteTarget(r)
    PROVE  SerialInv'
<1> DEFINE j == job[r]
<1>1. /\ j \in Job /\ Remembers(j) /\ member \in [User -> Row]
      /\ j.pc \in {"permission", "remove"} /\ Finish(r) /\ UNCHANGED <<home, joint>>
      /\ member' = [u \in User |-> IF u \notin Holder(j.other) THEN member[u]
                                   ELSE IF j.pc = "remove" THEN NoRow
                                   ELSE [member[u] EXCEPT !.canRecord = j.flag]]
  BY DEF WriteTarget, IInv, TypeOK
<1>2. ASSUME HomesAreSound, Recalls(j) PROVE HomesAreSound'
  <2>1. ASSUME NEW u \in User
        PROVE  /\ member'[u].id # None =>
                     /\ Enrolled(u) /\ member'[u].home = member[u].home
                     /\ member'[u].owner = member[u].owner
               /\ Enrolled(u) /\ member[u].owner =>
                     /\ member'[u].id # None /\ member'[u].home = member[u].home
                     /\ member'[u].owner
    <3>1. member[u] \in Row
      BY <1>1
    <3>2. CASE u \notin Holder(j.other)
      BY <1>1, <3>2 DEF Enrolled
    <3>3. CASE u \in Holder(j.other) /\ j.pc = "remove"
      <4>1. ~member[u].owner
        BY <1>1, <1>2, <3>3 DEF Recalls, Remembers, Holder, Members
      <4>2. member'[u] = NoRow /\ NoRow.id = None
        BY <1>1, <3>3 DEF NoRow
      <4> QED BY <4>1, <4>2
    <3>4. CASE u \in Holder(j.other) /\ j.pc # "remove"
      <4>1. member'[u] = [member[u] EXCEPT !.canRecord = j.flag]
        BY <1>1, <3>4
      <4> QED BY <3>1, <3>4, <4>1 DEF Row, Holder, Enrolled
    <3> QED BY <3>2, <3>3, <3>4
  <2>2. ASSUME NEW h \in Home PROVE Owners(h)' = Owners(h) /\ Members(h)' \subseteq Members(h)
    BY <2>1 DEF Owners, Members, Enrolled
  <2> QED BY <1>1, <1>2, <2>2 DEF HomesAreSound
<1> QED BY <1>1, <1>2, RequestEnds DEF SerialInv

\* The one who leaves passes the household on, or was its last member.
LEMMA LeaveSerial ==
    ASSUME IInv, SerialInv, NEW r \in Req, LeaveCommit(r)
    PROVE  SerialInv'
<1>1. CASE Fail(r)
  BY <1>1, FailSerial DEF LeaveCommit
<1>2. CASE ~Fail(r)
  <2>0. PICK j \in Job, u \in User, here \in Home :
           j = job[r] /\ u = j.user /\ here = j.home
    BY DEF IInv, TypeOK, Job
  <2>1. /\ u \in User /\ Holder(j.self) = {u} /\ Enrolled(u) /\ member[u].home = here
        /\ j.owner => member[u].owner
        /\ member' \in [User -> Row] /\ member'[u] = NoRow
        /\ \A v \in User \ {u} :
              \/ member'[v] = member[v]
              \/ /\ j.owner /\ v \in Holder(j.other) /\ Enrolled(v) /\ member[v].home = here
                 /\ member'[v] = [member[v] EXCEPT !.owner = TRUE]
        /\ j.owner /\ j.other # None =>
              \E v \in User \ {u} : /\ Holder(j.other) = {v}
                                    /\ member'[v] = [member[v] EXCEPT !.owner = TRUE]
    BY <1>2, <2>0, LeaveRows
  <2>2. /\ Finish(r) /\ here \in Home /\ j.pc = "leave" /\ Remembers(j)
        /\ home' = IF j.other = None THEN [home EXCEPT ![here] = "closed"] ELSE home
        /\ joint' = IF j.other = None /\ joint[here] = "open"
                    THEN [joint EXCEPT ![here] = "archived"] ELSE joint
    BY <1>2, <2>0 DEF LeaveCommit, IInv, TypeOK, Job
  <2>3. ASSUME HomesAreSound, Recalls(j) PROVE HomesAreSound'
    <3>1. ASSUME NEW v \in User
          PROVE  /\ member'[v].id # None =>
                       v # u /\ Enrolled(v) /\ member'[v].home = member[v].home
                 /\ v # u => member'[v].id = member[v].id
      <4>1. CASE v = u
        BY <2>1, <4>1 DEF NoRow
      <4>2. CASE v # u /\ member'[v] = member[v]
        BY <4>2 DEF Enrolled
      <4>3. CASE v # u /\ Enrolled(v) /\ member'[v] = [member[v] EXCEPT !.owner = TRUE]
        BY <4>3 DEF IInv, TypeOK, Row
      <4> QED BY <2>1, <4>1, <4>2, <4>3
    <3>2. ASSUME NEW g \in Home \ {here}
          PROVE  Owners(g)' = Owners(g) /\ Members(g)' = Members(g)
      <4>1. \A v \in Members(g) \cup Members(g)' : v \in User \ {u} /\ member'[v] = member[v]
        BY <2>1, <2>2, <3>1 DEF Members, Enrolled
      <4> QED BY <4>1 DEF Owners, Members, Enrolled
    <3>3. Members(here)' = Members(here) \ {u}
      <4>1. ASSUME NEW v \in User \ {u} PROVE v \in Members(here)' <=> v \in Members(here)
        BY <2>1, <3>1 DEF Members, Enrolled, IInv, TypeOK, Row
      <4>2. u \notin Members(here)'
        BY <3>1 DEF Members, Enrolled
      <4> QED BY <4>1, <4>2 DEF Members
    <3>4. CASE j.other = None
      <4>1. Members(here)' = {}
        BY <2>0, <2>1, <2>2, <2>3, <3>3, <3>4 DEF Recalls
      <4>2. home'[here] = "closed" /\ joint'[here] # "open"
            /\ \A g \in Home \ {here} : home'[g] = home[g] /\ joint'[g] = joint[g]
        BY <2>2, <3>4 DEF IInv, TypeOK
      <4> QED BY <2>3, <3>2, <4>1, <4>2 DEF HomesAreSound
    <3>5. CASE j.other # None
      <4>1. UNCHANGED <<home, joint>> /\ home[here] = "open"
        BY <2>1, <2>2, <2>3, <3>5 DEF HomesAreSound, Members
      <4>2. PICK w \in User : Owners(here) = {w}
        BY <2>2, <2>3, <4>1 DEF HomesAreSound
      <4>3. CASE j.owner
        <5>1. PICK v \in User \ {u} :
                 Holder(j.other) = {v} /\ member'[v] = [member[v] EXCEPT !.owner = TRUE]
          BY <2>1, <3>5, <4>3
        <5>2. w = u
          BY <2>1, <4>2, <4>3 DEF Owners, Members
        <5>3. v \in Owners(here)'
          <6>1. v \in Members(here) /\ member[v] \in Row
            BY <2>0, <2>2, <5>1 DEF Members, Remembers, Holder, IInv, TypeOK
          <6>2. member'[v].owner
            BY <5>1, <6>1 DEF Row
          <6> QED BY <3>3, <5>1, <6>1, <6>2 DEF Owners
        <5>4. \A x \in Owners(here)' : x = v
          BY <2>1, <3>3, <4>2, <5>1, <5>2 DEF Owners, Members
        <5> QED BY <2>3, <3>2, <4>1, <5>3, <5>4 DEF HomesAreSound
      <4>4. CASE ~j.owner
        <5>1. ~member[u].owner
          BY <2>1, <2>2, <2>3, <4>4 DEF Recalls, Leaving
        <5>2. Owners(here)' = Owners(here)
          <6>1. \A v \in Members(here) \ {u} : member'[v] = member[v]
            BY <2>1, <4>4 DEF Members
          <6> QED BY <3>3, <5>1, <6>1 DEF Owners
        <5> QED BY <2>3, <3>2, <4>1, <4>2, <5>2 DEF HomesAreSound
      <4> QED BY <4>3, <4>4
    <3> QED BY <3>4, <3>5
  <2> QED BY <2>0, <2>2, <2>3, RequestEnds DEF SerialInv
<1> QED BY <1>1, <1>2

\* The steps that leave memberships and households alone.
LEMMA AsideSerial ==
    ASSUME IInv, SerialInv, NEW r \in Req,
           InsertInvite(r) \/ WriteRevoked(r) \/ InsertJointAccount(r) \/ WriteJointAccount(r)
    PROVE  SerialInv'
<1>1. UNCHANGED <<rows, home>> /\ Finish(r) /\ job[r] \in Job
      /\ job[r].pc \in {"invite", "revoke", "joint_create", "joint_update"}
  BY DEF InsertInvite, WriteRevoked, InsertJointAccount, WriteJointAccount, IInv, TypeOK
<1>2. ASSUME ~overlapped
      PROVE  \A h \in Home : joint'[h] = "open" => joint[h] = "open" \/ home[h] = "open"
  <2>1. job[r].pc \in {"joint_create", "joint_update"} => home[job[r].home] = "open"
    BY <1>2 DEF SerialInv, Recalls
  <2>2. \A h \in Home : joint'[h] = joint[h] \/
                        (h = job[r].home /\ job[r].pc \in {"joint_create", "joint_update"})
    BY <1>1 DEF InsertInvite, WriteRevoked, InsertJointAccount, WriteJointAccount, IInv,
                TypeOK
  <2> QED BY <2>1, <2>2
<1>3. ~overlapped => HomesAreSound'
  BY <1>1, <1>2, SoundnessIsInTheRows DEF SerialInv
<1> QED BY <1>1, <1>3, RequestEnds

LEMMA QuietSerial ==
    ASSUME IInv, SerialInv, UNCHANGED <<rows, home, joint, job, overlapped>>,
           \A i \in Iid : invite'[i].home = invite[i].home
    PROVE  SerialInv'
<1> SUFFICES ASSUME ~overlapped'
             PROVE  (OneAtATime /\ HomesAreSound /\ \A q \in Req : Recalls(job[q]))'
  BY DEF SerialInv
<1>1. ~overlapped /\ OneAtATime /\ HomesAreSound /\ \A q \in Req : Recalls(job[q])
  BY DEF SerialInv
<1>2. OneAtATime' /\ HomesAreSound'
  BY <1>1, SoundnessIsInTheRows DEF OneAtATime
<1>3. ASSUME NEW q \in Req PROVE Recalls(job[q])'
  <2>1. job[q].pc \in {"accept_check", "join"} => job[q].other \in Iid
    BY DEF IInv, Remembers
  <2> QED BY <1>1, <2>1 DEF Recalls, rows, Holder, Members, Enrolled
<1> QED BY <1>2, <1>3

LEMMA SerialInductive == Spec => []SerialInv
<1>1. Init => SerialInv
  <2>1. Init => HomesAreSound
    BY DEF Init, HomesAreSound, Members, Enrolled, NoRow
  <2>2. Init => \A r \in Req : job[r].pc = "idle"
    BY DEF Init, Idle
  <2> QED BY <2>1, <2>2, IdleRecallsNothing DEF SerialInv, OneAtATime
<1>2. ASSUME IInv, SerialInv, [Next]_vars PROVE SerialInv'
  <2>1. ASSUME NEW r \in Req, Step(r) PROVE SerialInv'
    BY <1>2, <2>1, ReadSerial, FoundSerial, JoinSerial, WriteTargetSerial, LeaveSerial,
       AsideSerial, FailSerial DEF Step, Abort
  <2>2. ASSUME NEW i \in Iid, Lapse(i) PROVE SerialInv'
    BY <1>2, <2>2, QuietSerial DEF Lapse, IInv, TypeOK, Invite
  <2>3. ASSUME UNCHANGED vars PROVE SerialInv'
    BY <1>2, <2>3, QuietSerial DEF vars
  <2> QED BY <1>2, <2>1, <2>2, <2>3, ArriveSerial DEF Next
<1> QED BY <1>1, <1>2, Inductive, PTL DEF Spec

\* While requests to households.ts do not overlap, an open household has one
\* owner, a closed one neither members nor an open joint account: what
\* leaveHousehold, removeHouseholdMember and acceptHouseholdInvite each decide
\* from rows they read earlier still holds when they write.
THEOREM SerialRequestsAreSound == Spec => []SerialHouseholdsAreSound
<1>1. SerialInv => SerialHouseholdsAreSound
  BY DEF SerialInv, SerialHouseholdsAreSound, HomesAreSound
<1> QED BY <1>1, SerialInductive, PTL

=============================================================================
