--------------------------- MODULE IdentityProofs ---------------------------
(***************************************************************************)
(* Theorems about Identity, for any number of requests, addresses,         *)
(* accounts, links, invitations and Google accounts, and for every mix of  *)
(* the requests that meet.                                                 *)
(***************************************************************************)
EXTENDS Identity, FiniteSetTheorems, TLAPS

-----------------------------------------------------------------------------
(* The rate limiter, for any keys, limit, window and sweeping interval.    *)

\* What the buckets forget is too old to count: every request let through in
\* the last window, or since hits are swept, is still remembered.
LimiterInv ==
    /\ LimiterTypeOK
    /\ \A k \in Key : /\ IsFiniteSet(hits[k]) /\ IsFiniteSet(admitted[k])
                      /\ Recent(admitted[k], Shorter(Window, SweepEvery)) \subseteq hits[k]

Span == Shorter(Window, SweepEvery)

LEMMA SpanIsShort == Span \in Nat /\ Span <= Window /\ Span <= SweepEvery
  BY LimiterAssumption DEF Span, Shorter

\* A filter keeps the bounds of what it filters.
LEMMA RecentIsBounded ==
    ASSUME NEW s, IsFiniteSet(s), Cardinality(s) <= Limit, NEW span \in Nat
    PROVE  /\ Recent(s, span) \subseteq s /\ IsFiniteSet(Recent(s, span))
           /\ Cardinality(Recent(s, span)) <= Limit
<1>1. Recent(s, span) \subseteq s
  BY DEF Recent
<1>2. /\ IsFiniteSet(Recent(s, span)) /\ Cardinality(s) \in Nat
      /\ Cardinality(Recent(s, span)) \in Nat
      /\ Cardinality(Recent(s, span)) <= Cardinality(s)
  BY <1>1, FS_Subset, FS_CardinalityType
<1> QED BY <1>1, <1>2, LimiterAssumption

LEMMA SweptIsBounded ==
    ASSUME LimiterInv, NEW k \in Key
    PROVE  /\ Swept[k] \subseteq hits[k] /\ IsFiniteSet(Swept[k])
           /\ Cardinality(Swept[k]) <= Limit
           /\ Recent(admitted[k], Span) \subseteq Swept[k]
<1>1. /\ IsFiniteSet(hits[k]) /\ Cardinality(hits[k]) <= Limit
      /\ Recent(admitted[k], Span) \subseteq hits[k]
  BY DEF LimiterInv, LimiterTypeOK, Span
<1>2. CASE now - lastSweep < SweepEvery
  BY <1>1, <1>2 DEF Swept
<1>3. CASE ~(now - lastSweep < SweepEvery)
  <2>1. Swept[k] = Recent(hits[k], SweepEvery)
    BY <1>3 DEF Swept
  <2>2. Recent(admitted[k], Span) \subseteq Recent(hits[k], SweepEvery)
    BY <1>1, SpanIsShort, LimiterAssumption DEF Recent, LimiterInv, LimiterTypeOK
  <2> QED BY <1>1, <2>1, <2>2, RecentIsBounded, LimiterAssumption
<1> QED BY <1>2, <1>3

LEMMA LimiterStarts == LimiterInit => LimiterInv
<1> SUFFICES ASSUME LimiterInit PROVE LimiterInv
  OBVIOUS
<1>1. IsFiniteSet({}) /\ Cardinality({}) = 0
  BY FS_EmptySet
<1> QED BY <1>1, LimiterAssumption DEF LimiterInit, LimiterInv, LimiterTypeOK, Recent

LEMMA AttemptKeeps ==
    ASSUME LimiterInv, NEW k \in Key, Attempt(k)
    PROVE  LimiterInv'
<1> DEFINE h == Recent(Swept[k], Window)
           one == Hit(k)
           room == Cardinality(h) < Limit
           Times == [at : 0 .. now, nth : Nat]
<1>1. /\ now' = now /\ now \in 0 .. MaxTime /\ lastSweep' \in 0 .. now
      /\ hits \in [Key -> SUBSET Times] /\ admitted \in [Key -> SUBSET Times]
  BY LimiterAssumption DEF LimiterInv, LimiterTypeOK, Attempt, SweepTime
<1>2. /\ h \subseteq Swept[k] /\ IsFiniteSet(h) /\ Cardinality(h) <= Limit
      /\ Cardinality(h) \in Nat
  BY SweptIsBounded, RecentIsBounded, FS_CardinalityType, LimiterAssumption
<1>3. Recent(admitted[k], Span) \subseteq h
  BY <1>1, SweptIsBounded, SpanIsShort, LimiterAssumption DEF Recent
<1>4. Swept \in [Key -> SUBSET Times]
  <2>1. Swept = [q \in Key |-> Swept[q]]
    BY DEF Swept
  <2> QED BY <1>1, <2>1, SweptIsBounded
<1>5. CASE ~room
  <2>1. hits' = Swept /\ admitted' = admitted
    BY <1>2, <1>5, LimiterAssumption DEF Attempt
  <2>2. LimiterTypeOK'
    BY <1>1, <1>4, <2>1, SweptIsBounded DEF LimiterTypeOK
  <2> QED BY <1>1, <2>1, <2>2, SweptIsBounded DEF LimiterInv, Recent, Span, Shorter
<1>6. CASE room
  <2>1. /\ hits' = [Swept EXCEPT ![k] = h \cup {one}]
        /\ admitted' = [admitted EXCEPT ![k] = @ \cup {one}]
    BY <1>2, <1>6, LimiterAssumption DEF Attempt
  <2>2. one \in Times /\ one.at = now
    <3>1. Cardinality(admitted[k]) \in Nat
      BY FS_CardinalityType DEF LimiterInv
    <3> QED BY <1>1, <3>1 DEF Hit
  <2>3. IsFiniteSet(h \cup {one}) /\ Cardinality(h \cup {one}) <= Limit
    <3>1. /\ IsFiniteSet(h \cup {one})
          /\ Cardinality(h \cup {one}) = IF one \in h THEN Cardinality(h) ELSE Cardinality(h) + 1
      BY <1>2, FS_AddElement
    <3> QED BY <1>2, <1>6, <3>1, LimiterAssumption
  <2>4. IsFiniteSet(admitted[k] \cup {one})
    BY FS_AddElement DEF LimiterInv
  <2>5. Recent(admitted[k] \cup {one}, Span) \subseteq h \cup {one}
    BY <1>3 DEF Recent
  <2> HIDE DEF one, h, Times
  <2>6. h \cup {one} \in SUBSET Times /\ admitted[k] \cup {one} \in SUBSET Times
    BY <1>1, <1>2, <1>4, <2>2
  <2>7. hits' \in [Key -> SUBSET Times] /\ admitted' \in [Key -> SUBSET Times]
    BY <1>1, <1>4, <2>1, <2>6
  <2>8. /\ hits'[k] = h \cup {one} /\ admitted'[k] = admitted[k] \cup {one}
        /\ \A q \in Key \ {k} : hits'[q] = Swept[q] /\ admitted'[q] = admitted[q]
    BY <1>1, <1>4, <2>1
  <2>9. LimiterTypeOK'
    BY <1>1, <2>3, <2>7, <2>8, SweptIsBounded DEF LimiterTypeOK, Times
  <2>10. ASSUME NEW q \in Key
         PROVE  /\ IsFiniteSet(hits'[q]) /\ IsFiniteSet(admitted'[q])
                /\ Recent(admitted'[q], Span) \subseteq hits'[q]
    BY <2>3, <2>4, <2>5, <2>8, SweptIsBounded DEF LimiterInv
  <2> QED BY <1>1, <2>9, <2>10 DEF LimiterInv, Recent, Span, Shorter
<1> QED BY <1>5, <1>6

LEMMA TickKeeps == LimiterInv /\ Tick => LimiterInv'
<1> SUFFICES ASSUME LimiterInv, Tick PROVE LimiterInv'
  OBVIOUS
<1>1. /\ now \in Nat /\ now' = now + 1 /\ now < MaxTime /\ UNCHANGED <<hits, lastSweep, admitted>>
      /\ 0 .. now \subseteq 0 .. now' /\ now' \in 0 .. MaxTime
  BY LimiterAssumption DEF Tick, LimiterInv, LimiterTypeOK
<1>2. [at : 0 .. now, nth : Nat] \subseteq [at : 0 .. now', nth : Nat]
  BY <1>1
<1>3. LimiterTypeOK'
  <2>1. /\ hits' \in [Key -> SUBSET [at : 0 .. now', nth : Nat]]
        /\ admitted' \in [Key -> SUBSET [at : 0 .. now', nth : Nat]]
    BY <1>1, <1>2 DEF LimiterInv, LimiterTypeOK
  <2> QED BY <1>1, <2>1 DEF LimiterInv, LimiterTypeOK
<1>4. ASSUME NEW k \in Key, NEW h \in admitted[k], now' - h.at < Span
      PROVE  h \in hits[k]
  <2>1. h.at \in Nat /\ now - h.at < Span
    BY <1>1, <1>4, SpanIsShort DEF LimiterInv, LimiterTypeOK
  <2> QED BY <2>1 DEF LimiterInv, Recent, Span
<1> QED BY <1>1, <1>3, <1>4 DEF LimiterInv, Recent, Span, Shorter

LEMMA LimiterKeeps == LimiterInv /\ [LimiterNext]_limiter => LimiterInv'
<1>1. ASSUME LimiterInv, UNCHANGED limiter PROVE LimiterInv'
  BY <1>1 DEF limiter, LimiterInv, LimiterTypeOK, Recent
<1> QED BY <1>1, AttemptKeeps, TickKeeps DEF LimiterNext

LEMMA LimiterLimits == LimiterInv => LimiterTypeOK /\ WindowsAreLimited
<1> SUFFICES ASSUME LimiterInv, NEW k \in Key
             PROVE  Cardinality(Recent(admitted[k], Span)) <= Limit
  BY DEF LimiterInv, WindowsAreLimited, Span
<1>1. /\ Recent(admitted[k], Span) \subseteq hits[k] /\ IsFiniteSet(hits[k])
      /\ Cardinality(hits[k]) <= Limit
  BY DEF LimiterInv, LimiterTypeOK, Span
<1>2. /\ Cardinality(Recent(admitted[k], Span)) <= Cardinality(hits[k])
      /\ Cardinality(Recent(admitted[k], Span)) \in Nat /\ Cardinality(hits[k]) \in Nat
  BY <1>1, FS_Subset, FS_CardinalityType
<1> QED BY <1>1, <1>2, LimiterAssumption

-----------------------------------------------------------------------------
(* The inductive invariant.                                                *)

\* Accounts are numbered in the order in which they are inserted.
UsersInOrder ==
    \A u \in User : u >= nextUser => users[u].state = "absent" /\ cameBy[u] = None

\* So are links; one that was consumed is marked, and so are those that the
\* request for another one had invalidated.
LinksInOrder ==
    \A l \in Link :
        /\ l < nextLink => links[l].state # "absent" /\ links[l].user \in User
        /\ l >= nextLink => links[l].state = "absent" /\ uses[l] = 0
        /\ uses[l] # 0 => links[l].state = "used"
        /\ since[l] < nextLink
        /\ \A k \in Link : (/\ links[l].state # "absent" /\ k <= since[l]
                            /\ links[k].user = links[l].user
                            /\ links[k].kind = links[l].kind) => links[k].state = "used"

\* Requests inside a registration, and those whose transaction has inserted.
Registering == {"reg_insert", "reg_invite", "reg_commit"}
Open == {"reg_invite", "reg_commit"}

OneInsert ==
    \A q, r \in Req :
        (job[q].pc \in Open /\ job[r].pc \in Open /\ job[q].email = job[r].email) => q = r

\* The unique index holds an address for the transaction that inserted it.
Reserves(j) ==
    j.pc \in Open => UserBy(j.email) = {}

\* A registration's invitation names the role and admits the address.
Entitled(j) ==
    IF j.invite = None THEN ~privateMode
    ELSE /\ invites[j.invite].state # "absent"
         /\ j.role = invites[j.invite].role
         /\ invites[j.invite].email \in {NoEmail, j.email}

\* The links that a request for a new one has invalidated.
Superseded(j) ==
    \A l \in Link : (l <= j.link /\ links[l].user = j.user /\ links[l].kind = j.kind) =>
                        links[l].state = "used"

\* What a request carries, whatever others have written since.
Carries(j) ==
    /\ j.pc \in {"void", "create_link", "use_link", "apply", "reg_session",
                 "g_link", "g_autolink"} => j.user \in User
    /\ j.pc = "create_link" => j.link < nextLink /\ Superseded(j)
    /\ j.pc \in {"mail", "use_link"} => j.link \in Link /\ j.link < nextLink
    /\ j.pc \in Registering => Entitled(j)
    /\ j.pc = "g_create" => ~privateMode

\* What it has read stands until another request writes.
Fresh(j) ==
    /\ j.pc = "g_decide" => IF j.owner = None THEN OwnerOf(j.subject) = {}
                            ELSE /\ j.owner \in OwnerOf(j.subject)
                                 /\ j.usable => Active(j.owner)
    /\ j.pc = "g_autolink" => /\ Active(j.user) /\ users[j.user].verified
                              /\ users[j.user].email = j.email /\ OwnerOf(j.subject) = {}
    /\ j.pc = "g_session" => /\ Active(j.user)
                             /\ \/ j.user \in OwnerOf(j.subject)
                                \/ /\ OwnerOf(j.subject) = {} /\ users[j.user].verified
                                   /\ users[j.user].email = j.email
    /\ j.pc = "patch" => j.read = profile

Knows(j) == Carries(j) /\ Reserves(j) /\ (~j.overlapped => Fresh(j))

IInv ==
    /\ TypeOK
    /\ LimiterInv
    /\ UsersInOrder
    /\ LinksInOrder
    /\ IdentitiesAreUnique
    /\ OneInsert
    /\ \A r \in Req : Knows(job[r])

-----------------------------------------------------------------------------
(* Lemmas.                                                                 *)

LEMMA IdleIsAJob == Idle \in Job /\ Idle.pc = "idle"
<1>1. Default \in Value /\ AnySubject \in Subject
  BY IdentityAssumption DEF Default, AnySubject
<1>2. "idle" \in Pc /\ "EMAIL_VERIFY" \in Kinds
  BY DEF Pc, Kinds
<1>3. {} \in SUBSET Field /\ [f \in Field |-> Default] \in [Field -> Value]
  BY <1>1
<1> QED BY <1>1, <1>2, <1>3 DEF Idle, Job

LEMMA IdleKnows == ASSUME NEW j, j.pc = "idle" PROVE Knows(j) /\ Knows(j)'
  BY DEF Knows, Carries, Reserves, Fresh, Registering, Open

\* Writes that leave alone what other requests carry.
RowsLiveOn ==
    /\ mix' = mix /\ nextLink <= nextLink'
    /\ \A l \in Link : l < nextLink =>
          /\ links'[l].user = links[l].user /\ links'[l].kind = links[l].kind
          /\ links[l].state = "used" => links'[l].state = "used"
    /\ \A i \in Invite : invites[i].state # "absent" =>
          /\ invites'[i].state # "absent"
          /\ invites'[i].role = invites[i].role /\ invites'[i].email = invites[i].email

LEMMA OthersCarry ==
    ASSUME IInv, RowsLiveOn, nextLink' \in Nat, NEW j \in Job, Carries(j)
    PROVE  Carries(j)'
<1>1. /\ j.invite \in Invite \cup {None} /\ nextLink \in Nat /\ nextLink <= nextLink'
      /\ j.link \in Nat
  BY IdentityAssumption DEF IInv, TypeOK, RowsLiveOn, Job, Link, None
<1>2. j.pc \in Registering => Entitled(j)'
  BY <1>1 DEF Carries, RowsLiveOn, Entitled, privateMode
<1>3. j.pc = "create_link" => j.link < nextLink' /\ Superseded(j)'
  <2>1. \A l \in Link : l \in Nat
    BY DEF Link
  <2> QED BY <1>1, <2>1 DEF Carries, RowsLiveOn, Superseded
<1>4. j.pc \in {"mail", "use_link"} => j.link \in Link /\ j.link < nextLink'
  BY <1>1 DEF Carries
<1> QED BY <1>2, <1>3, <1>4 DEF Carries, RowsLiveOn, privateMode

LEMMA Lifted ==
    ASSUME NEW q \in Req, NEW j, j = job'[q], Knows(j)'
    PROVE  Knows(job[q])'
  BY DEF Knows, Carries, Reserves, Fresh, Entitled, Superseded, Usable, OwnerOf, UserBy, Active

LEMMA OthersKnow ==
    ASSUME IInv, RowsLiveOn, nextLink' \in Nat, NEW j \in Job, Knows(j),
           j.pc \in Open => (UserBy(j.email) = {})'
    PROVE  Knows(Touched(j))'
<1> DEFINE t == [j EXCEPT !.overlapped = TRUE]
<1>1. CASE j.pc = "idle"
  BY <1>1, IdleKnows DEF Touched
<1>2. CASE j.pc # "idle"
  <2>1. t \in Job /\ t.overlapped /\ t = Touched(j)
    BY <1>2 DEF Touched, Job
  <2>2. /\ t.pc = j.pc /\ t.user = j.user /\ t.kind = j.kind /\ t.link = j.link
        /\ t.email = j.email /\ t.invite = j.invite /\ t.role = j.role
    BY DEF Job
  <2> HIDE DEF t
  <2>3. Carries(t)
    BY <2>2 DEF Knows, Carries, Entitled, Superseded
  <2>4. Carries(t)'
    BY <2>1, <2>3, OthersCarry
  <2>5. Reserves(t)'
    BY <2>2 DEF Reserves, UserBy
  <2>6. Knows(t)'
    BY <2>1, <2>4, <2>5 DEF Knows
  <2> QED BY <2>1, <2>6
<1> QED BY <1>1, <1>2

\* An address that an open transaction of another request has inserted stays
\* out of the accounts.
Undisturbed(r) ==
    \A q \in Req \ {r} : job[q].pc \in Open =>
        \A u \in User : ~(users'[u].state = "active" /\ users'[u].email = job[q].email)

LEMMA OtherJobs ==
    ASSUME IInv, RowsLiveOn, nextLink' \in Nat, NEW r, NEW q \in Req \ {r}, Undisturbed(r),
           job'[q] = Touched(job[q])
    PROVE  /\ job'[q] \in Job /\ job'[q].pc = job[q].pc /\ job'[q].email = job[q].email
           /\ Knows(job[q])'
<1> DEFINE j == job[q]
           t == [j EXCEPT !.overlapped = TRUE]
           k == Touched(j)
<1>1. j \in Job /\ Knows(j)
  BY DEF IInv, TypeOK
<1>2. t \in Job /\ t.pc = j.pc /\ t.email = j.email
  BY <1>1 DEF Job
<1>3. k \in Job /\ k.pc = j.pc /\ k.email = j.email
  BY <1>1, <1>2 DEF Touched
<1>4. ASSUME NEW i, i = j PROVE Knows(Touched(i))'
  <2>1. i.pc \in Open => (UserBy(i.email) = {})'
    BY <1>4 DEF Undisturbed, UserBy
  <2> QED BY <1>1, <1>4, <2>1, OthersKnow
<1>5. ASSUME NEW i, i = k PROVE Knows(i)'
  <2>1. PICK h : h = j
    OBVIOUS
  <2>2. Knows(Touched(h))'
    BY <1>4, <2>1
  <2> QED BY <1>5, <2>1, <2>2 DEF Touched
<1>6. PICK i : i = job'[q]
  OBVIOUS
<1>7. Knows(i)'
  BY <1>5, <1>6
<1> QED BY <1>3, <1>6, <1>7, Lifted

\* One request writes and goes on, as j.
LEMMA JobsKnow ==
    ASSUME IInv, RowsLiveOn, nextLink' \in Nat, NEW r \in Req, NEW j \in Job, Knows(j)',
           j.pc \notin Open, Undisturbed(r), Wrote(r, j)
    PROVE  job' \in [Req -> Job] /\ OneInsert' /\ (\A q \in Req : Knows(job[q]))'
<1>1. ASSUME NEW q \in Req \ {r}
      PROVE  /\ job'[q] \in Job /\ job'[q].pc = job[q].pc /\ job'[q].email = job[q].email
             /\ Knows(job[q])'
  BY <1>1, OtherJobs DEF Wrote
<1>2. job'[r] = j
  BY DEF Wrote
<1>3. Knows(job[r])'
  BY <1>2, Lifted
<1>4. job' \in [Req -> Job]
  BY <1>1, <1>2 DEF Wrote
<1>5. OneInsert'
  BY <1>1, <1>2 DEF IInv, OneInsert
<1>6. ASSUME NEW q \in Req PROVE Knows(job[q])'
  BY <1>1, <1>3, <1>6
<1> QED BY <1>4, <1>5, <1>6

\* Somebody without a slot writes.
LEMMA AllJobsKnow ==
    ASSUME IInv, RowsLiveOn, nextLink' \in Nat, NEW r, r \notin Req, Undisturbed(r), WroteAll
    PROVE  job' \in [Req -> Job] /\ OneInsert' /\ (\A q \in Req : Knows(job[q]))'
<1>1. ASSUME NEW q \in Req
      PROVE  /\ job'[q] \in Job /\ job'[q].pc = job[q].pc /\ job'[q].email = job[q].email
             /\ Knows(job[q])'
  BY <1>1, OtherJobs DEF WroteAll
<1>2. job' \in [Req -> Job]
  BY <1>1 DEF WroteAll
<1>3. OneInsert'
  BY <1>1 DEF IInv, OneInsert
<1> QED BY <1>1, <1>2, <1>3

LEMMA LimiterRests ==
    ASSUME IInv, UNCHANGED limiter
    PROVE  LimiterInv' /\ LimiterTypeOK'
<1>1. LimiterInv'
  BY LimiterKeeps DEF IInv
<1>2. LimiterTypeOK'
  BY DEF limiter, LimiterTypeOK, IInv, LimiterInv
<1> QED BY <1>1, <1>2

\* Nothing of what requests carry changes.
LEMMA KnowsOn ==
    ASSUME UNCHANGED <<mix, users, invites, nextLink, identities, profile, uses>>,
           \A l \in Link : /\ links'[l].state = links[l].state
                           /\ links'[l].user = links[l].user /\ links'[l].kind = links[l].kind,
           NEW i, Knows(i)
    PROVE  Knows(i)'
<1>1. Carries(i)'
  <2>1. Entitled(i)' <=> Entitled(i)
    BY DEF Entitled, privateMode
  <2>2. Superseded(i)' <=> Superseded(i)
    BY DEF Superseded
  <2>3. privateMode' <=> privateMode
    BY DEF privateMode
  <2> QED BY <2>1, <2>2, <2>3 DEF Knows, Carries
<1>2. Reserves(i)'
  BY DEF Knows, Reserves, UserBy
<1>3. ~i.overlapped => Fresh(i)'
  BY DEF Knows, Fresh, Usable, OwnerOf, Active
<1> QED BY <1>1, <1>2, <1>3 DEF Knows

\* Steps that only read, or that change how a link was delivered.
LEMMA ReadKeeps ==
    ASSUME IInv, NEW r \in Req, NEW j \in Job, Knows(j), job' = [job EXCEPT ![r] = j],
           j.pc \in Open =>
              \A q \in Req \ {r} : job[q].pc \in Open => job[q].email # j.email,
           UNCHANGED <<setup, accounts, invites, nextLink, google, profile, history>>,
           cookie' \in Flow, links' \in [Link -> LinkRow],
           \A l \in Link : /\ links'[l].state = links[l].state
                           /\ links'[l].user = links[l].user /\ links'[l].kind = links[l].kind
    PROVE  IInv'
<1>1. /\ UNCHANGED <<mix, users, nextUser, invites, nextLink, identities, nextIdentity,
                     profile, cameBy, uses, since>>
      /\ UNCHANGED limiter
  BY DEF setup, accounts, google, history
<1>2. job' \in [Req -> Job] /\ job'[r] = j /\ \A q \in Req \ {r} : job'[q] = job[q]
  BY DEF IInv, TypeOK
<1>3. LimiterInv' /\ LimiterTypeOK'
  BY <1>1, LimiterRests
<1>4. TypeOK'
  BY <1>1, <1>2, <1>3 DEF IInv, TypeOK
<1>5. UsersInOrder' /\ LinksInOrder' /\ IdentitiesAreUnique'
  BY <1>1 DEF IInv, UsersInOrder, LinksInOrder, IdentitiesAreUnique, Active
<1>6. OneInsert'
  BY <1>2 DEF IInv, OneInsert
<1>7. ASSUME NEW i, Knows(i) PROVE Knows(i)'
  BY <1>1, <1>7, KnowsOn
<1>8. ASSUME NEW q \in Req PROVE Knows(job[q])'
  <2>1. PICK i : i = job'[q]
    OBVIOUS
  <2>2. i = j \/ i = job[q]
    BY <1>2, <2>1
  <2>3. Knows(i)
    <3>1. CASE i = j
      BY <3>1
    <3>2. CASE i = job[q]
      BY <3>2 DEF IInv
    <3> QED BY <2>2, <3>1, <3>2
  <2>4. Knows(i)'
    BY <1>7, <2>3
  <2> QED BY <2>1, <2>4, Lifted
<1> QED BY <1>3, <1>4, <1>5, <1>6, <1>8 DEF IInv

LEMMA PureReadKeeps ==
    ASSUME IInv, NEW r \in Req, NEW j \in Job, Knows(j), job' = [job EXCEPT ![r] = j],
           j.pc \in Open =>
              \A q \in Req \ {r} : job[q].pc \in Open => job[q].email # j.email,
           UNCHANGED <<setup, tables, history>>, cookie' \in Flow
    PROVE  IInv'
<1>1. UNCHANGED <<accounts, invites, links, nextLink, google, profile>>
  BY DEF tables, mail
<1> QED BY <1>1, ReadKeeps DEF IInv, TypeOK

\* A request that ends without a write.
LEMMA FinishKeeps ==
    ASSUME IInv, NEW r \in Req, Finish(r), UNCHANGED <<setup, tables, cookie, history>>
    PROVE  IInv'
<1>1. Idle \in Job /\ Knows(Idle) /\ Idle.pc \notin Open
  BY IdleIsAJob, IdleKnows DEF Open
<1> HIDE DEF Idle
<1> QED BY <1>1, PureReadKeeps DEF Finish, IInv, TypeOK

-----------------------------------------------------------------------------
(* Requests arrive.                                                        *)

LEMMA ForgotKeeps ==
    ASSUME IInv, NEW r \in Req, NEW e \in Email, Forgot(r, e)
    PROVE  IInv'
<1>1. PICK u \in UserBy(e) :
         job' = [job EXCEPT ![r] =
                    [Idle EXCEPT !.pc = "void", !.user = u, !.kind = "PASSWORD_RESET"]]
  BY DEF Forgot, Start
<1> DEFINE j == [Idle EXCEPT !.pc = "void", !.user = u, !.kind = "PASSWORD_RESET"]
<1>2. j \in Job /\ j.pc = "void" /\ j.user \in User
  <2>1. Idle \in Job /\ u \in User
    BY IdleIsAJob DEF UserBy
  <2> QED BY <2>1 DEF Idle, Job, Pc, Kinds
<1>3. Knows(j)
  BY <1>2 DEF Knows, Carries, Reserves, Fresh, Registering, Open
<1> HIDE DEF j
<1> QED BY <1>1, <1>2, <1>3, PureReadKeeps DEF Forgot, Open, IInv, TypeOK, j

LEMMA ResendKeeps ==
    ASSUME IInv, NEW r \in Req, NEW u \in User, Resend(r, u)
    PROVE  IInv'
<1> DEFINE j == [Idle EXCEPT !.pc = "void", !.user = u, !.kind = "EMAIL_VERIFY"]
<1>1. job' = [job EXCEPT ![r] = j]
  BY DEF Resend, Start
<1>2. j \in Job /\ j.pc = "void" /\ j.user \in User
  BY IdleIsAJob DEF Idle, Job, Pc, Kinds
<1>3. Knows(j)
  BY <1>2 DEF Knows, Carries, Reserves, Fresh, Registering, Open
<1> HIDE DEF j
<1> QED BY <1>1, <1>2, <1>3, PureReadKeeps DEF Resend, Open, IInv, TypeOK

LEMMA FindLinkKeeps ==
    ASSUME IInv, NEW r \in Req, NEW l \in Link, NEW kind \in Kinds, FindLink(r, l, kind)
    PROVE  IInv'
<1> DEFINE j == [Idle EXCEPT !.pc = "use_link", !.link = l, !.user = links[l].user,
                             !.kind = kind]
<1>1. job' = [job EXCEPT ![r] = j] /\ links[l].state = "unused"
  BY DEF FindLink, Start
<1>2. links[l].user \in User \cup {None} /\ l \in Nat /\ nextLink \in Nat
  BY IdentityAssumption DEF IInv, TypeOK, LinkRow, Link
<1>3. j \in Job /\ j.pc = "use_link" /\ j.user = links[l].user /\ j.link = l
  BY <1>2, IdleIsAJob DEF Idle, Job, Pc
<1>4. l < nextLink /\ links[l].user \in User
  BY <1>1, <1>2 DEF IInv, LinksInOrder
<1>5. Knows(j)
  BY <1>3, <1>4 DEF Knows, Carries, Reserves, Fresh, Registering, Open
<1> HIDE DEF j
<1> QED BY <1>1, <1>3, <1>5, PureReadKeeps DEF FindLink, Open, IInv, TypeOK

LEMMA RegisterKeeps ==
    ASSUME IInv, NEW r \in Req, NEW e \in Email, NEW i \in Invite \cup {None},
           Register(r, e, i)
    PROVE  IInv'
<1> DEFINE role == IF i = None THEN "USER" ELSE invites[i].role
           j == [Idle EXCEPT !.pc = "reg_insert", !.email = e, !.invite = i, !.role = role]
<1>1. job' = [job EXCEPT ![r] = j]
  BY DEF Register, Start
<1>2. role \in {"USER", "ADMIN"}
  BY DEF IInv, TypeOK, InviteRow
<1>3. /\ j \in Job /\ j.pc = "reg_insert" /\ j.email = e /\ j.invite = i /\ j.role = role
  <2> HIDE DEF role
  <2> QED BY <1>2, IdleIsAJob DEF Idle, Job, Pc
<1>4. Entitled(j)
  BY <1>3 DEF Register, Entitled, Usable
<1>5. Knows(j)
  BY <1>3, <1>4 DEF Knows, Carries, Reserves, Fresh, Open
<1> HIDE DEF j
<1> QED BY <1>1, <1>3, <1>5, PureReadKeeps DEF Register, Open, IInv, TypeOK

LEMMA UnlinkFindKeeps ==
    ASSUME IInv, NEW r \in Req, NEW i \in identities, UnlinkFind(r, i)
    PROVE  IInv'
<1> DEFINE j == [Idle EXCEPT !.pc = "unlink", !.user = i.user, !.ident = i.id]
<1>1. job' = [job EXCEPT ![r] = j]
  BY DEF UnlinkFind, Start
<1>2. i.user \in User /\ i.id \in Ident
  BY DEF IInv, TypeOK, IdentityRow
<1>3. j \in Job /\ j.pc = "unlink"
  BY <1>2, IdleIsAJob DEF Idle, Job, Pc
<1>4. Knows(j)
  BY <1>3 DEF Knows, Carries, Reserves, Fresh, Registering, Open
<1> HIDE DEF j
<1> QED BY <1>1, <1>3, <1>4, PureReadKeeps DEF UnlinkFind, Open, IInv, TypeOK

LEMMA PatchReadKeeps ==
    ASSUME IInv, NEW r \in Req, NEW form \in SUBSET Field, PatchRead(r, form)
    PROVE  IInv'
<1> DEFINE j == [Idle EXCEPT !.pc = "patch", !.form = form, !.read = profile]
<1>1. job' = [job EXCEPT ![r] = j]
  BY DEF PatchRead, Start
<1>2. profile \in [Field -> Value]
  BY DEF IInv, TypeOK
<1>3. j \in Job /\ j.pc = "patch" /\ j.read = profile
  BY <1>2, IdleIsAJob DEF Idle, Job, Pc
<1>4. Knows(j)
  BY <1>3 DEF Knows, Carries, Reserves, Fresh, Registering, Open
<1> HIDE DEF j
<1> QED BY <1>1, <1>3, <1>4, PureReadKeeps DEF PatchRead, Open, IInv, TypeOK

LEMMA OwnersAreUsers == ASSUME IInv, NEW s \in Subject PROVE OwnerOf(s) \subseteq User
  BY DEF IInv, TypeOK, IdentityRow, OwnerOf

LEMMA GoogleCallbackKeeps ==
    ASSUME IInv, NEW r \in Req, NEW s \in Subject, GoogleCallback(r, s)
    PROVE  IInv'
<1> DEFINE owners == OwnerOf(s)
           owner == IF owners = {} THEN None ELSE CHOOSE u \in owners : TRUE
           b == Active(owner)
           j == [Idle EXCEPT !.pc = "g_decide", !.subject = s, !.mode = cookie.mode,
                             !.user = cookie.user, !.owner = owner, !.usable = b,
                             !.email = SubjectEmail[s]]
<1>1. job' = [job EXCEPT ![r] = j] /\ cookie # NoFlow /\ cookie' = NoFlow
  BY DEF GoogleCallback, Start
<1>2. cookie.mode \in {"LOGIN", "LINK"} /\ cookie.user \in User \cup {None}
      /\ NoFlow \in Flow
  BY DEF GoogleCallback, Start, IInv, TypeOK, Flow, NoFlow
<1>3. owner \in User \cup {None} /\ b \in BOOLEAN /\ SubjectEmail[s] \in Email
  BY OwnersAreUsers, IdentityAssumption DEF Active
<1>4. IF owner = None THEN owners = {} ELSE owner \in owners
  <2>1. None \notin owners
    BY OwnersAreUsers, IdentityAssumption DEF User, None
  <2> QED BY <2>1
<1>5. /\ j \in Job /\ j.pc = "g_decide" /\ j.owner = owner /\ j.usable = b
      /\ j.subject = s /\ j.email = SubjectEmail[s]
  <2> DEFINE e == SubjectEmail[s]
             mode == cookie.mode
             user == cookie.user
             j1 == [Idle EXCEPT !.pc = "g_decide", !.subject = s, !.mode = mode]
             j2 == [j1 EXCEPT !.user = user, !.owner = owner]
             j3 == [j2 EXCEPT !.usable = b, !.email = e]
  <2>1. j = j3
    BY Zenon
  <2>2. mode \in {"LOGIN", "LINK"} /\ user \in User \cup {None} /\ e \in Email \cup {NoEmail}
    BY <1>2, <1>3
  <2> HIDE DEF b, owner, e, mode, user
  <2>3. j1 \in Job /\ j1.pc = "g_decide" /\ j1.subject = s
    <3>1. "g_decide" \in Pc
      BY DEF Pc
    <3> QED BY <2>2, <3>1, IdleIsAJob DEF Job
  <2> HIDE DEF j1
  <2>4. j2 \in Job /\ j2.pc = "g_decide" /\ j2.subject = s /\ j2.owner = owner
    BY <1>3, <2>2, <2>3 DEF Job
  <2> HIDE DEF j2
  <2>5. PICK x \in BOOLEAN : x = b
    BY <1>3
  <2>6. [j2 EXCEPT !.usable = x, !.email = e] = j3
    BY <2>5
  <2>7. /\ j3 \in Job /\ j3.pc = "g_decide" /\ j3.subject = s /\ j3.owner = owner
        /\ j3.usable = x /\ j3.email = e
    <3> DEFINE k == [j2 EXCEPT !.usable = x, !.email = e]
    <3>1. /\ k \in Job /\ k.pc = "g_decide" /\ k.subject = s /\ k.owner = owner
          /\ k.usable = x /\ k.email = e
      BY <2>2, <2>4 DEF Job
    <3> QED BY <2>6, <3>1, Zenon
  <2> QED BY <2>1, <2>5, <2>7 DEF e
<1>6. Knows(j)
  <2> HIDE DEF j, owner
  <2> QED BY <1>4, <1>5 DEF Knows, Carries, Reserves, Fresh, Registering, Open
<1> HIDE DEF j
<1> QED BY <1>1, <1>2, <1>5, <1>6, PureReadKeeps DEF GoogleCallback, Open

-----------------------------------------------------------------------------
(* Requests read and decide.                                               *)

LEMMA GotoIsAJob ==
    ASSUME IInv, NEW r \in Req, NEW pc \in Pc
    PROVE  LET j == [job[r] EXCEPT !.pc = pc] IN
           /\ j \in Job /\ j.pc = pc
           /\ j.user = job[r].user /\ j.kind = job[r].kind /\ j.link = job[r].link
           /\ j.email = job[r].email /\ j.invite = job[r].invite /\ j.role = job[r].role
           /\ j.subject = job[r].subject /\ j.ident = job[r].ident
           /\ j.overlapped = job[r].overlapped
<1>1. job[r] \in Job
  BY DEF IInv, TypeOK
<1> QED BY <1>1 DEF Job

\* An account that an address is free for stays reserved to who inserts it.
LEMMA RegisterInsertKeeps ==
    ASSUME IInv, NEW r \in Req, RegisterInsert(r)
    PROVE  IInv'
<1> DEFINE pc == IF job[r].invite = None THEN "reg_commit" ELSE "reg_invite"
           j == [job[r] EXCEPT !.pc = pc]
<1>1. CASE UserBy(job[r].email) # {}
  BY <1>1, FinishKeeps DEF RegisterInsert
<1>2. CASE UserBy(job[r].email) = {}
  <2>1. job' = [job EXCEPT ![r] = j]
    BY <1>2 DEF RegisterInsert, Goto
  <2>2. /\ j \in Job /\ j.pc = pc /\ j.email = job[r].email /\ j.invite = job[r].invite
        /\ j.role = job[r].role /\ j.overlapped = job[r].overlapped
    <3>1. pc \in Pc
      BY DEF Pc
    <3> HIDE DEF pc
    <3> QED BY <3>1, GotoIsAJob
  <2> HIDE DEF j
  <2>3. Entitled(j)
    BY <2>2 DEF RegisterInsert, IInv, Knows, Carries, Registering, Entitled
  <2>4. Knows(j)
    BY <1>2, <2>2, <2>3 DEF Knows, Carries, Reserves, Fresh, UserBy
  <2>5. \A q \in Req \ {r} : job[q].pc \in Open => job[q].email # j.email
    BY <2>2 DEF RegisterInsert, Inserting, Open
  <2> QED BY <2>1, <2>2, <2>4, <2>5, PureReadKeeps DEF RegisterInsert, IInv, TypeOK
<1> QED BY <1>1, <1>2

LEMMA RegisterInviteKeeps ==
    ASSUME IInv, NEW r \in Req, RegisterInvite(r)
    PROVE  IInv'
<1> DEFINE j == [job[r] EXCEPT !.pc = "reg_commit"]
<1>1. CASE ~Usable(job[r].invite)
  BY <1>1, FinishKeeps DEF RegisterInvite
<1>2. CASE Usable(job[r].invite)
  <2>1. job' = [job EXCEPT ![r] = j]
    BY <1>2 DEF RegisterInvite, Goto
  <2>2. /\ j \in Job /\ j.pc = "reg_commit" /\ j.email = job[r].email
        /\ j.invite = job[r].invite /\ j.role = job[r].role
    <3>1. "reg_commit" \in Pc
      BY DEF Pc
    <3> QED BY <3>1, GotoIsAJob
  <2> HIDE DEF j
  <2>3. Entitled(j) /\ UserBy(j.email) = {}
    BY <2>2 DEF RegisterInvite, IInv, Knows, Carries, Reserves, Registering, Open, Entitled
  <2>4. Knows(j)
    BY <1>2, <2>2, <2>3 DEF Knows, Carries, Reserves, Fresh
  <2>5. \A q \in Req \ {r} : job[q].pc \in Open => job[q].email # j.email
    BY <2>2 DEF RegisterInvite, IInv, OneInsert, Open
  <2> QED BY <2>1, <2>2, <2>4, <2>5, PureReadKeeps DEF RegisterInvite, IInv, TypeOK
<1> QED BY <1>1, <1>2

LEMMA RegisterSessionKeeps ==
    ASSUME IInv, NEW r \in Req, RegisterSession(r)
    PROVE  IInv'
<1> DEFINE i == job[r]
           j == [i EXCEPT !.pc = "void", !.kind = "EMAIL_VERIFY"]
<1>1. i \in Job /\ i.user \in User /\ job \in [Req -> Job]
  BY DEF RegisterSession, IInv, TypeOK, Knows, Carries
<1>2. job' = [job EXCEPT ![r] = j]
  BY <1>1 DEF RegisterSession
<1> HIDE DEF i
<1>3. j \in Job /\ j.pc = "void" /\ j.user \in User
  BY <1>1 DEF Job, Pc, Kinds
<1> HIDE DEF j
<1>4. Knows(j)
  BY <1>3 DEF Knows, Carries, Reserves, Fresh, Registering, Open
<1> QED BY <1>2, <1>3, <1>4, PureReadKeeps DEF RegisterSession, Open, IInv, TypeOK

\* What decideGoogleAction lets a request do is what its reads allow.
LEMMA GoogleDecideKeeps ==
    ASSUME IInv, NEW r \in Req, GoogleDecide(r)
    PROVE  IInv'
<1> DEFINE i == job[r]
           found == UserBy(i.email)
           byEmail == IF found = {} THEN None ELSE CHOOSE u \in found : TRUE
           v == byEmail # None /\ users[byEmail].verified
           d == IF i.mode = "LINK" /\ ~Active(i.user) THEN Refuse
                ELSE DecideGoogleAction(i.mode, i.owner, i.usable, byEmail, v, i.user,
                                        privateMode)
           j == [i EXCEPT !.pc = d.pc, !.user = d.user]
<1>1. /\ IF d = Refuse THEN Finish(r) ELSE job' = [job EXCEPT ![r].pc = d.pc, ![r].user = d.user]
      /\ UNCHANGED <<setup, tables, cookie, history>> /\ i.pc = "g_decide"
      /\ i \in Job /\ Knows(i) /\ job \in [Req -> Job] /\ cookie' \in Flow
  BY DEF GoogleDecide, IInv, TypeOK
<1>2. CASE d = Refuse
  BY <1>1, <1>2, FinishKeeps
<1>3. CASE d # Refuse
  <2>1. /\ byEmail # None => byEmail \in UserBy(i.email) /\ byEmail \in User
        /\ i.owner \in User \cup {None} /\ None \notin User
    <3>1. byEmail # None => byEmail \in found
      OBVIOUS
    <3>2. found \subseteq User
      BY DEF UserBy
    <3> HIDE DEF i
    <3>3. i.owner \in User \cup {None}
      BY <1>1 DEF Job
    <3>4. None \notin User
      BY DEF User, None
    <3> QED BY <3>1, <3>2, <3>3, <3>4
  <2>2. \/ d.pc = "g_link" /\ d.user = i.user /\ Active(i.user) /\ i.mode = "LINK"
        \/ d.pc = "g_session" /\ d.user = i.owner /\ i.owner # None /\ i.usable
        \/ d.pc = "g_autolink" /\ d.user = byEmail /\ byEmail # None /\ v /\ i.owner = None
        \/ d.pc = "g_create" /\ d.user = None /\ ~privateMode
    <3> HIDE DEF v, byEmail, i
    <3> QED BY <1>3 DEF DecideGoogleAction, Refuse
  <2> HIDE DEF d
  <2>3. job' = [job EXCEPT ![r] = j]
    BY <1>1, <1>3
  <2>4. d.pc \in Pc /\ d.user \in User \cup {None}
    BY <2>1, <2>2 DEF Pc, Active
  <2> HIDE DEF i
  <2>5. /\ j \in Job /\ j.pc = d.pc /\ j.user = d.user /\ j.email = i.email
        /\ j.subject = i.subject /\ j.overlapped = i.overlapped
    BY <1>1, <2>4 DEF Job
  <2> HIDE DEF j
  <2>6. Carries(j) /\ Reserves(j) /\ j.pc \notin Open
    BY <2>1, <2>2, <2>5 DEF Carries, Reserves, Registering, Open, Active
  <2>7. ASSUME ~j.overlapped PROVE Fresh(j)
    <3>1. IF i.owner = None THEN OwnerOf(i.subject) = {}
          ELSE i.owner \in OwnerOf(i.subject) /\ (i.usable => Active(i.owner))
      BY <1>1, <2>5, <2>7 DEF Knows, Fresh
    <3>2. CASE d.pc = "g_session"
      BY <2>2, <2>5, <3>1, <3>2 DEF Fresh
    <3>3. CASE d.pc = "g_autolink"
      BY <2>1, <2>2, <2>5, <3>1, <3>3 DEF Fresh, UserBy, Active
    <3>4. CASE d.pc \in {"g_link", "g_create"}
      BY <2>5, <3>4 DEF Fresh
    <3> QED BY <2>2, <3>2, <3>3, <3>4
  <2>8. Knows(j)
    BY <2>6, <2>7 DEF Knows
  <2> QED BY <1>1, <2>3, <2>5, <2>6, <2>8, PureReadKeeps
<1> QED BY <1>2, <1>3

LEMMA RestsKeep ==
    ASSUME IInv, NEW r \in Req, GoogleSession(r) \/ Abort(r)
    PROVE  IInv'
  BY FinishKeeps DEF GoogleSession, Abort

LEMMA FlowKeeps ==
    ASSUME IInv, UNCHANGED <<setup, tables, history, job>>, cookie' \in Flow
    PROVE  IInv'
<1>1. /\ UNCHANGED <<mix, users, nextUser, invites, links, nextLink, identities,
                     nextIdentity, profile, cameBy, uses, since, job>>
      /\ UNCHANGED limiter
  BY DEF setup, tables, mail, accounts, google, history
<1>2. LimiterInv' /\ LimiterTypeOK'
  BY <1>1, LimiterRests
<1>3. TypeOK'
  BY <1>1, <1>2 DEF IInv, TypeOK
<1>4. UsersInOrder' /\ LinksInOrder' /\ IdentitiesAreUnique' /\ OneInsert'
  BY <1>1 DEF IInv, UsersInOrder, LinksInOrder, IdentitiesAreUnique, Active, OneInsert
<1>5. ASSUME NEW r \in Req PROVE Knows(job[r])'
  <2>1. PICK i : i = job[r]
    OBVIOUS
  <2>2. Knows(i)'
    BY <1>1, <2>1, KnowsOn DEF IInv
  <2> QED BY <1>1, <2>1, <2>2, Lifted
<1> QED BY <1>2, <1>3, <1>4, <1>5 DEF IInv

-----------------------------------------------------------------------------
(* Requests write.                                                         *)

\* The tables, and what holds of them.
RowsOK ==
    /\ users \in [User -> UserRow] /\ nextUser \in 1 .. MaxUser + 1
    /\ invites \in [Invite -> InviteRow]
    /\ links \in [Link -> LinkRow] /\ nextLink \in 1 .. MaxLink + 1
    /\ identities \subseteq IdentityRow /\ nextIdentity \in 1 .. MaxIdentity + 1
    /\ profile \in [Field -> Value]
    /\ cameBy \in [User -> Invite \cup {None}] /\ uses \in [Link -> 0 .. 2]
    /\ since \in [Link -> Link \cup {None}]
    /\ UsersInOrder /\ LinksInOrder /\ IdentitiesAreUnique

LEMMA WriteKeeps ==
    ASSUME IInv, NEW r \in Req, NEW j \in Job, Wrote(r, j), Knows(j)', j.pc \notin Open,
           RowsLiveOn, Undisturbed(r), UNCHANGED <<setup, cookie>>, RowsOK'
    PROVE  IInv'
<1>1. nextLink' \in Nat /\ UNCHANGED <<limiter, cookie>>
  BY IdentityAssumption DEF RowsOK, setup
<1>2. LimiterInv' /\ LimiterTypeOK'
  BY <1>1, LimiterRests
<1>3. job' \in [Req -> Job] /\ OneInsert' /\ (\A q \in Req : Knows(job[q]))'
  BY <1>1, JobsKnow
<1>4. TypeOK'
  BY <1>1, <1>2, <1>3 DEF RowsOK, TypeOK, IInv
<1> QED BY <1>2, <1>3, <1>4 DEF RowsOK, IInv

LEMMA WriteAllKeeps ==
    ASSUME IInv, WroteAll, RowsLiveOn, NEW r, r \notin Req, Undisturbed(r),
           UNCHANGED <<setup, cookie>>, RowsOK'
    PROVE  IInv'
<1>1. nextLink' \in Nat /\ UNCHANGED <<limiter, cookie>>
  BY IdentityAssumption DEF RowsOK, setup
<1>2. LimiterInv' /\ LimiterTypeOK'
  BY <1>1, LimiterRests
<1>3. job' \in [Req -> Job] /\ OneInsert' /\ (\A q \in Req : Knows(job[q]))'
  BY <1>1, AllJobsKnow
<1>4. TypeOK'
  BY <1>1, <1>2, <1>3 DEF RowsOK, TypeOK, IInv
<1> QED BY <1>2, <1>3, <1>4 DEF RowsOK, IInv

LEMMA RowsAreOK == IInv => RowsOK
  BY DEF IInv, TypeOK, RowsOK

\* While the accounts keep their addresses, no open transaction is disturbed.
LEMMA SameAddresses ==
    ASSUME IInv, NEW r,
           \A u \in User : users'[u].state = "active" =>
                users[u].state = "active" /\ users'[u].email = users[u].email
    PROVE  Undisturbed(r)
  BY DEF IInv, Knows, Reserves, UserBy, Undisturbed

LEMMA SomeoneElse == \E r : r \notin Req
<1>1. ASSUME \A r : r \in Req PROVE FALSE
  <2> DEFINE S == {x \in Req : x \notin x}
  <2>1. S \in Req
    BY <1>1
  <2> QED BY <2>1
<1> QED BY <1>1

LEMMA VoidLinksKeeps ==
    ASSUME IInv, NEW r \in Req, VoidLinks(r)
    PROVE  IInv'
<1> DEFINE i == job[r]
<1>1. /\ i.pc = "void" /\ i \in Job /\ Knows(i)
      /\ Wrote(r, [i EXCEPT !.pc = "create_link", !.link = nextLink - 1])
      /\ UNCHANGED <<setup, mix, users, nextUser, invites, nextLink, identities, nextIdentity,
                     profile, cookie, cameBy, uses, since>>
      /\ nextLink \in 1 .. MaxLink + 1 /\ i.user \in User
      /\ links \in [Link -> LinkRow]
  BY DEF VoidLinks, IInv, TypeOK, accounts, google, history, setup, Knows, Carries
<1>2. /\ links' \in [Link -> LinkRow]
      /\ \A l \in Link :
            /\ links'[l].user = links[l].user /\ links'[l].kind = links[l].kind
            /\ \/ links'[l].state = links[l].state
               \/ (links[l].state = "unused" /\ links'[l].state = "used")
            /\ (links[l].state = "unused" /\ links[l].user = i.user /\ links[l].kind = i.kind)
                  => links'[l].state = "used"
  <2> DEFINE f(l) == IF l \in Unused(i.user, i.kind)
                     THEN [links[l] EXCEPT !.state = "used"] ELSE links[l]
  <2>1. links' = [l \in Link |-> f(l)]
    BY DEF VoidLinks
  <2>2. ASSUME NEW l \in Link
        PROVE  /\ f(l) \in LinkRow /\ f(l).user = links[l].user /\ f(l).kind = links[l].kind
               /\ \/ f(l).state = links[l].state
                  \/ (links[l].state = "unused" /\ f(l).state = "used")
               /\ (links[l].state = "unused" /\ links[l].user = i.user
                     /\ links[l].kind = i.kind) => f(l).state = "used"
    <3>1. links[l] \in LinkRow
      BY <1>1
    <3>2. CASE l \in Unused(i.user, i.kind)
      BY <3>1, <3>2 DEF LinkRow, Unused
    <3>3. CASE l \notin Unused(i.user, i.kind)
      <4>1. f(l) = links[l]
        BY <3>3
      <4>2. ~(/\ links[l].state = "unused" /\ links[l].user = i.user
              /\ links[l].kind = i.kind)
        BY <3>3 DEF Unused
      <4> HIDE DEF f
      <4> QED BY <3>1, <4>1, <4>2
    <3> QED BY <3>2, <3>3
  <2> HIDE DEF f
  <2> QED BY <2>1, <2>2
<1>3. PICK j \in Job : /\ j = [i EXCEPT !.pc = "create_link", !.link = nextLink - 1]
                      /\ j.pc = "create_link" /\ j.link = nextLink - 1
                      /\ j.user = i.user /\ j.kind = i.kind
  <2>1. nextLink - 1 \in Link \cup {None}
    BY <1>1, IdentityAssumption DEF Link, None
  <2> DEFINE k == [i EXCEPT !.pc = "create_link", !.link = nextLink - 1]
  <2> HIDE DEF i
  <2>2. /\ k \in Job /\ k.pc = "create_link" /\ k.link = nextLink - 1
        /\ k.user = i.user /\ k.kind = i.kind
    BY <1>1, <2>1 DEF Job, Pc
  <2> QED BY <2>2
<1>4. RowsLiveOn
  BY <1>1, <1>2, IdentityAssumption DEF RowsLiveOn
<1>5. Undisturbed(r)
  BY <1>1, SameAddresses
<1>6. RowsOK'
  <2>1. UsersInOrder' /\ IdentitiesAreUnique'
    BY <1>1 DEF IInv, UsersInOrder, IdentitiesAreUnique, Active
  <2>2. LinksInOrder'
    BY <1>1, <1>2 DEF IInv, LinksInOrder
  <2> QED BY <1>1, <1>2, <2>1, <2>2 DEF RowsOK, IInv, TypeOK
<1>7. Knows(j)'
  <2>1. Superseded(j)'
    <3>1. \A l \in Link : l <= nextLink - 1 =>
             l < nextLink /\ l \in Nat
      BY <1>1, IdentityAssumption DEF Link
    <3>2. \A l \in Link : l < nextLink =>
             links[l].state \in {"unused", "used"} /\ links[l].user \in User
      BY <1>1 DEF LinkRow, IInv, LinksInOrder
    <3> QED BY <1>1, <1>2, <1>3, <3>1, <3>2 DEF Superseded
  <2>2. Carries(j)'
    BY <1>1, <1>3, <2>1, IdentityAssumption DEF Carries, Registering
  <2> QED BY <1>3, <2>2 DEF Knows, Reserves, Fresh, Open
<1> QED BY <1>1, <1>3, <1>4, <1>5, <1>6, <1>7, WriteKeeps DEF Open

LEMMA CreateLinkKeeps ==
    ASSUME IInv, NEW r \in Req, CreateLink(r)
    PROVE  IInv'
<1> DEFINE i == job[r]
           new == [state |-> "unused", user |-> i.user, kind |-> i.kind, mailed |-> FALSE,
                   expired |-> FALSE]
<1>1. /\ i.pc = "create_link" /\ i \in Job /\ Knows(i) /\ nextLink \in Link
      /\ Wrote(r, [i EXCEPT !.pc = "mail", !.link = nextLink])
      /\ UNCHANGED <<setup, mix, users, nextUser, invites, identities, nextIdentity,
                     profile, cookie, cameBy, uses>>
      /\ i.link \in Link \cup {None} /\ i.link < nextLink /\ Superseded(i)
      /\ since \in [Link -> Link \cup {None}] /\ since' = [since EXCEPT ![nextLink] = i.link]
      /\ nextLink' = nextLink + 1 /\ i.user \in User
      /\ links \in [Link -> LinkRow] /\ links' = [links EXCEPT ![nextLink] = new]
  BY DEF CreateLink, IInv, TypeOK, Job, accounts, google, history, setup, Knows, Carries
<1>2. new \in LinkRow
  BY <1>1 DEF LinkRow, Job
<1>3. PICK j \in Job : /\ j = [i EXCEPT !.pc = "mail", !.link = nextLink]
                      /\ j.pc = "mail" /\ j.link = nextLink
  <2> DEFINE k == [i EXCEPT !.pc = "mail", !.link = nextLink]
  <2> HIDE DEF i
  <2>1. k \in Job /\ k.pc = "mail" /\ k.link = nextLink
    BY <1>1 DEF Job, Pc
  <2> QED BY <2>1
<1>4. /\ links' \in [Link -> LinkRow] /\ links'[nextLink].user = i.user
      /\ links'[nextLink].kind = i.kind
      /\ since' \in [Link -> Link \cup {None}] /\ since'[nextLink] = i.link
      /\ \A l \in Link \ {nextLink} : since'[l] = since[l]
      /\ links'[nextLink].state = "unused"
      /\ \A l \in Link \ {nextLink} : links'[l] = links[l]
  <2>1. links'[nextLink] = new
    BY <1>1
  <2> QED BY <1>1, <1>2, <2>1
<1> HIDE DEF new
<1>5. /\ nextLink \in Nat /\ nextLink' \in 1 .. MaxLink + 1 /\ \A l \in Link : l \in Nat
      /\ i.link \in Nat /\ \A l \in Link : since[l] \in Nat
  BY <1>1, IdentityAssumption DEF Link, None
<1>6. RowsLiveOn
  BY <1>1, <1>4, <1>5 DEF RowsLiveOn
<1>7. Undisturbed(r)
  BY <1>1, SameAddresses
<1>8. RowsOK'
  <2>1. UsersInOrder' /\ IdentitiesAreUnique'
    BY <1>1 DEF IInv, UsersInOrder, IdentitiesAreUnique, Active
  <2>2. LinksInOrder'
    <3>1. ASSUME NEW l \in Link
          PROVE  /\ l < nextLink' => links'[l].state # "absent" /\ links'[l].user \in User
                 /\ l >= nextLink' => links'[l].state = "absent" /\ uses'[l] = 0
                 /\ uses'[l] # 0 => links'[l].state = "used"
                 /\ since'[l] < nextLink'
      BY <1>1, <1>4, <1>5 DEF IInv, LinksInOrder
    <3>2. ASSUME NEW l \in Link, NEW k \in Link, links'[l].state # "absent", k <= since'[l],
                 links'[k].user = links'[l].user, links'[k].kind = links'[l].kind
          PROVE  links'[k].state = "used"
      <4>1. k # nextLink
        BY <1>1, <1>4, <1>5, <3>2 DEF IInv, LinksInOrder
      <4>2. CASE l = nextLink
        BY <1>1, <1>4, <3>2, <4>1, <4>2 DEF Superseded
      <4>3. CASE l # nextLink
        BY <1>4, <3>2, <4>1, <4>3 DEF IInv, LinksInOrder
      <4> QED BY <4>2, <4>3
    <3> QED BY <3>1, <3>2 DEF LinksInOrder
  <2> QED BY <1>1, <1>4, <1>5, <2>1, <2>2 DEF RowsOK, IInv, TypeOK
<1>9. Knows(j)'
  <2>1. Carries(j)'
    BY <1>1, <1>3, <1>5 DEF Carries, Registering
  <2> QED BY <1>3, <2>1 DEF Knows, Reserves, Fresh, Open
<1> QED BY <1>1, <1>3, <1>6, <1>7, <1>8, <1>9, WriteKeeps DEF Open

LEMMA MailKeeps ==
    ASSUME IInv, NEW r \in Req, Mail(r)
    PROVE  IInv'
<1>1. Idle \in Job /\ Knows(Idle) /\ Idle.pc \notin Open
  BY IdleIsAJob, IdleKnows DEF Open
<1>2. /\ links' \in [Link -> LinkRow]
      /\ \A l \in Link : /\ links'[l].state = links[l].state
                         /\ links'[l].user = links[l].user /\ links'[l].kind = links[l].kind
  <2>1. links \in [Link -> LinkRow]
    BY DEF IInv, TypeOK
  <2>2. CASE links' = [links EXCEPT ![job[r].link].mailed = TRUE]
    BY <2>1, <2>2 DEF LinkRow
  <2>3. CASE links' = links
    BY <2>1, <2>3
  <2> QED BY <2>2, <2>3 DEF Mail
<1> HIDE DEF Idle
<1> QED BY <1>1, <1>2, ReadKeeps DEF Mail, Finish, IInv, TypeOK

LEMMA UseLinkKeeps ==
    ASSUME IInv, NEW r \in Req, UseLink(r)
    PROVE  IInv'
<1> DEFINE i == job[r]
           n == IF uses[i.link] < 2 THEN uses[i.link] + 1 ELSE uses[i.link]
<1>1. /\ i.pc = "use_link" /\ i \in Job /\ Knows(i) /\ i.link \in Link /\ i.link < nextLink
      /\ Wrote(r, [i EXCEPT !.pc = "apply"])
      /\ UNCHANGED <<setup, mix, users, nextUser, invites, nextLink, identities, nextIdentity,
                     profile, cookie, cameBy, since>>
      /\ i.user \in User /\ nextLink \in 1 .. MaxLink + 1
      /\ links \in [Link -> LinkRow] /\ uses \in [Link -> 0 .. 2]
      /\ links' = [links EXCEPT ![i.link].state = "used"]
      /\ uses' = [uses EXCEPT ![i.link] = n]
  BY DEF UseLink, IInv, TypeOK, accounts, google, history, setup, Knows, Carries
<1>2. PICK j \in Job : j = [i EXCEPT !.pc = "apply"] /\ j.pc = "apply" /\ j.user = i.user
  <2>1. "apply" \in Pc
    BY DEF Pc
  <2> QED BY <2>1, GotoIsAJob
<1>3. /\ links' \in [Link -> LinkRow] /\ links'[i.link].state = "used"
      /\ \A l \in Link : links'[l].user = links[l].user /\ links'[l].kind = links[l].kind
      /\ \A l \in Link \ {i.link} : links'[l] = links[l]
  BY <1>1 DEF LinkRow
<1>4. uses' \in [Link -> 0 .. 2] /\ \A l \in Link \ {i.link} : uses'[l] = uses[l]
  <2>1. n \in 0 .. 2
    BY <1>1
  <2> HIDE DEF n
  <2> QED BY <1>1, <2>1
<1>5. nextLink \in Nat /\ \A l \in Link : l \in Nat
  BY <1>1, IdentityAssumption DEF Link
<1>6. RowsLiveOn
  BY <1>1, <1>3, <1>5 DEF RowsLiveOn
<1>7. Undisturbed(r)
  BY <1>1, SameAddresses
<1>8. RowsOK'
  <2>1. UsersInOrder' /\ IdentitiesAreUnique'
    BY <1>1 DEF IInv, UsersInOrder, IdentitiesAreUnique, Active
  <2>2. LinksInOrder'
    BY <1>1, <1>3, <1>4, <1>5 DEF IInv, LinksInOrder
  <2> QED BY <1>1, <1>3, <1>4, <2>1, <2>2 DEF RowsOK, IInv, TypeOK
<1>9. Knows(j)'
  <2>1. Carries(j)'
    BY <1>1, <1>2 DEF Carries, Registering
  <2> QED BY <1>2, <2>1 DEF Knows, Reserves, Fresh, Open
<1> QED BY <1>1, <1>2, <1>6, <1>7, <1>8, <1>9, WriteKeeps DEF Open

LEMMA ApplyLinkKeeps ==
    ASSUME IInv, NEW r \in Req, ApplyLink(r)
    PROVE  IInv'
<1>1. /\ job[r].user \in User /\ Wrote(r, Idle) /\ users \in [User -> UserRow]
      /\ users' = [users EXCEPT ![job[r].user].verified = TRUE]
      /\ UNCHANGED <<setup, mix, nextUser, invites, links, nextLink, identities, nextIdentity,
                     profile, cookie, cameBy, uses, since>>
  BY DEF ApplyLink, IInv, TypeOK, google, mail, history, setup, Knows, Carries
<1>2. /\ users' \in [User -> UserRow]
      /\ \A u \in User : users'[u].state = users[u].state /\ users'[u].email = users[u].email
  BY <1>1 DEF UserRow
<1>3. Undisturbed(r)
  BY <1>2, SameAddresses
<1>4. RowsLiveOn
  BY <1>1 DEF RowsLiveOn, IInv, TypeOK
<1>5. RowsOK'
  <2>1. UsersInOrder' /\ IdentitiesAreUnique' /\ LinksInOrder'
    BY <1>1, <1>2 DEF IInv, UsersInOrder, IdentitiesAreUnique, LinksInOrder, Active
  <2> QED BY <1>1, <1>2, <2>1 DEF RowsOK, IInv, TypeOK
<1>6. PICK j \in Job : j = Idle /\ j.pc = "idle"
  BY IdleIsAJob
<1>7. Knows(j)'
  BY <1>6, IdleKnows
<1> QED BY <1>1, <1>3, <1>4, <1>5, <1>6, <1>7, WriteKeeps DEF Open

LEMMA LinkExpiresKeeps ==
    ASSUME IInv, NEW l \in Link, LinkExpires(l)
    PROVE  IInv'
<1>1. /\ links' \in [Link -> LinkRow]
      /\ \A k \in Link : /\ links'[k].state = links[k].state
                         /\ links'[k].user = links[k].user /\ links'[k].kind = links[k].kind
  BY DEF LinkExpires, IInv, TypeOK, LinkRow
<1>2. /\ UNCHANGED <<mix, users, nextUser, invites, nextLink, identities, nextIdentity,
                     profile, cookie, cameBy, uses, since, job>>
      /\ UNCHANGED limiter
  BY DEF LinkExpires, setup, accounts, google, history
<1>3. LimiterInv' /\ LimiterTypeOK'
  BY <1>2, LimiterRests
<1>4. TypeOK'
  BY <1>1, <1>2, <1>3 DEF IInv, TypeOK
<1>5. UsersInOrder' /\ LinksInOrder' /\ IdentitiesAreUnique' /\ OneInsert'
  BY <1>1, <1>2 DEF IInv, UsersInOrder, LinksInOrder, IdentitiesAreUnique, Active, OneInsert
<1>6. ASSUME NEW r \in Req PROVE Knows(job[r])'
  <2>1. PICK i : i = job[r]
    OBVIOUS
  <2>2. Knows(i)'
    BY <1>1, <1>2, <2>1, KnowsOn DEF IInv
  <2> QED BY <1>2, <2>1, <2>2, Lifted
<1> QED BY <1>3, <1>4, <1>5, <1>6 DEF IInv

\* An administrator's change of an invitation keeps what was issued.
LEMMA InviteKeeps ==
    ASSUME IInv, WroteAll, invites' \in [Invite -> InviteRow],
           \A i \in Invite : invites[i].state # "absent" =>
              /\ invites'[i].state # "absent"
              /\ invites'[i].role = invites[i].role /\ invites'[i].email = invites[i].email,
           UNCHANGED <<setup, accounts, mail, google, profile, cookie, history>>
    PROVE  IInv'
<1>1. UNCHANGED <<setup, mix, users, nextUser, links, nextLink, identities, nextIdentity,
                  profile, cookie, cameBy, uses, since>>
  BY DEF accounts, mail, google, history, setup
<1>2. PICK r : r \notin Req
  BY SomeoneElse
<1>3. RowsLiveOn
  BY <1>1 DEF RowsLiveOn, IInv, TypeOK
<1>4. Undisturbed(r)
  BY <1>1, SameAddresses
<1>5. RowsOK'
  <2>1. UsersInOrder' /\ IdentitiesAreUnique' /\ LinksInOrder'
    BY <1>1 DEF IInv, UsersInOrder, IdentitiesAreUnique, LinksInOrder, Active
  <2> QED BY <1>1, <2>1 DEF RowsOK, IInv, TypeOK
<1> QED BY <1>1, <1>2, <1>3, <1>4, <1>5, WriteAllKeeps

LEMMA InvitationsKeep ==
    ASSUME IInv, NEW i \in Invite,
           \/ \E e \in Email \cup {NoEmail}, role \in {"USER", "ADMIN"} :
                 CreateInvitation(i, e, role)
           \/ RevokeInvitation(i) \/ InviteExpires(i)
    PROVE  IInv'
<1>1. invites \in [Invite -> InviteRow]
  BY DEF IInv, TypeOK
<1>2. ASSUME NEW e \in Email \cup {NoEmail}, NEW role \in {"USER", "ADMIN"},
             CreateInvitation(i, e, role)
      PROVE  IInv'
  <2>1. [state |-> "pending", expired |-> FALSE, email |-> e, role |-> role] \in InviteRow
    BY DEF InviteRow
  <2>2. /\ invites' \in [Invite -> InviteRow] /\ invites[i].state = "absent"
        /\ \A k \in Invite \ {i} : invites'[k] = invites[k]
    BY <1>1, <1>2, <2>1 DEF CreateInvitation
  <2> QED BY <1>2, <2>2, InviteKeeps DEF CreateInvitation, InviteRow
<1>3. ASSUME RevokeInvitation(i) PROVE IInv'
  <2>1. /\ invites' \in [Invite -> InviteRow]
        /\ \A k \in Invite : /\ invites[k].state # "absent" => invites'[k].state # "absent"
                             /\ invites'[k].role = invites[k].role
                             /\ invites'[k].email = invites[k].email
    BY <1>1, <1>3 DEF RevokeInvitation, InviteRow
  <2> QED BY <1>3, <2>1, InviteKeeps DEF RevokeInvitation
<1>4. ASSUME InviteExpires(i) PROVE IInv'
  <2>1. /\ invites' \in [Invite -> InviteRow]
        /\ \A k \in Invite : /\ invites'[k].state = invites[k].state
                             /\ invites'[k].role = invites[k].role
                             /\ invites'[k].email = invites[k].email
    BY <1>1, <1>4 DEF InviteExpires, InviteRow
  <2> QED BY <1>4, <2>1, InviteKeeps DEF InviteExpires
<1> QED BY <1>2, <1>3, <1>4

NewAccount(r, e, verified, role) ==
    /\ nextUser \in User /\ users[nextUser].state = "absent" /\ cameBy[nextUser] = None
    /\ users'[nextUser] = [state |-> "active", email |-> e, verified |-> verified,
                           role |-> role]
    /\ \A u \in User \ {nextUser} : users'[u] = users[u]
    /\ users' \in [User -> UserRow] /\ nextUser' \in 1 .. MaxUser + 1
    /\ \A u \in User : u >= nextUser' => users'[u].state = "absent" /\ u # nextUser
    /\ \A u \in User : u >= nextUser' => u >= nextUser
    /\ \A u, w \in User : (/\ users'[u].state = "active" /\ users'[w].state = "active"
                           /\ users'[u].email = users'[w].email) => u = w
    /\ Undisturbed(r)

\* A new account, with an address that no account has and that no other open
\* transaction has inserted.
LEMMA InsertedKeeps ==
    ASSUME IInv, NEW e \in Email \cup {NoEmail}, NEW verified \in BOOLEAN, NEW role \in {"USER", "ADMIN"},
           Inserted(nextUser, e, verified, role), UserBy(e) = {},
           NEW r \in Req, \A q \in Req \ {r} : job[q].pc \in Open => job[q].email # e
    PROVE  NewAccount(r, e, verified, role)
<1> DEFINE new == [state |-> "active", email |-> e, verified |-> verified, role |-> role]
<1>1. /\ nextUser \in User /\ nextUser' = nextUser + 1 /\ users' = [users EXCEPT ![nextUser] = new]
      /\ users \in [User -> UserRow] /\ \A u \in User : u \in Nat
  BY DEF Inserted, IInv, TypeOK, User
<1>2. new \in UserRow /\ new.state = "active" /\ new.email = e
  BY DEF UserRow
<1>3. users[nextUser].state = "absent" /\ cameBy[nextUser] = None
  BY <1>1 DEF IInv, UsersInOrder
<1>4. users'[nextUser] = new /\ \A u \in User \ {nextUser} : users'[u] = users[u]
  BY <1>1
<1> HIDE DEF new
<1>5. users' \in [User -> UserRow] /\ nextUser' \in 1 .. MaxUser + 1
  BY <1>1, <1>2, IdentityAssumption DEF User
<1>6. \A u \in User : u >= nextUser' => u >= nextUser /\ u # nextUser
  BY <1>1
<1>7. \A u \in User : u >= nextUser' => users'[u].state = "absent"
  BY <1>4, <1>6 DEF IInv, UsersInOrder
<1>8. \A u, w \in User : (/\ users'[u].state = "active" /\ users'[w].state = "active"
                          /\ users'[u].email = users'[w].email) => u = w
  <2>1. \A u \in User \ {nextUser} : users'[u].state = "active" => users'[u].email # e
    BY <1>4 DEF UserBy
  <2>2. \A u, w \in User \ {nextUser} :
           (/\ users'[u].state = "active" /\ users'[w].state = "active"
            /\ users'[u].email = users'[w].email) => u = w
    BY <1>4 DEF IInv, IdentitiesAreUnique, Active
  <2> QED BY <1>2, <1>4, <2>1, <2>2
<1>9. Undisturbed(r)
  BY <1>2, <1>4 DEF Undisturbed, IInv, Knows, Reserves, UserBy
<1> QED BY <1>1, <1>3, <1>4, <1>5, <1>6, <1>7, <1>8, <1>9 DEF NewAccount, new

LEMMA RegisterCommitKeeps ==
    ASSUME IInv, NEW r \in Req, RegisterCommit(r)
    PROVE  IInv'
<1> DEFINE i == job[r]
<1>1. /\ i.pc = "reg_commit" /\ i \in Job /\ Knows(i)
      /\ Inserted(nextUser, i.email, FALSE, i.role)
      /\ Wrote(r, [i EXCEPT !.pc = "reg_session", !.user = nextUser])
      /\ UNCHANGED <<setup, mix, links, nextLink, identities, nextIdentity, profile, cookie, uses, since>>
      /\ cameBy' = [cameBy EXCEPT ![nextUser] = i.invite]
      /\ invites' = IF i.invite = None THEN invites
                    ELSE [invites EXCEPT ![i.invite].state = "used"]
  BY DEF RegisterCommit, IInv, TypeOK, mail, google, setup
<1>2. /\ i.email \in Email \cup {NoEmail} /\ i.role \in {"USER", "ADMIN"}
      /\ i.invite \in Invite \cup {None} /\ FALSE \in BOOLEAN
  BY <1>1 DEF Job
<1>3. UserBy(i.email) = {} /\ \A q \in Req \ {r} : job[q].pc \in Open => job[q].email # i.email
  BY <1>1 DEF IInv, OneInsert, Knows, Reserves, Open
<1>4. NewAccount(r, i.email, FALSE, i.role) /\ nextUser \in User
  <2>1. PICK b \in BOOLEAN : b = FALSE
    OBVIOUS
  <2>2. Inserted(nextUser, i.email, b, i.role)
    BY <1>1, <2>1
  <2>3. NewAccount(r, i.email, b, i.role)
    BY <1>2, <1>3, <2>2, InsertedKeeps
  <2> QED BY <2>1, <2>3 DEF NewAccount
<1>5. PICK j \in Job : /\ j = [i EXCEPT !.pc = "reg_session", !.user = nextUser]
                      /\ j.pc = "reg_session" /\ j.user = nextUser
  <2> DEFINE k == [i EXCEPT !.pc = "reg_session", !.user = nextUser]
  <2> HIDE DEF i
  <2>1. k \in Job /\ k.pc = "reg_session" /\ k.user = nextUser
    <3>1. i \in Job /\ nextUser \in User
      BY <1>1, <1>4
    <3> QED BY <3>1 DEF Job, Pc
  <2> QED BY <2>1
<1>6. /\ invites' \in [Invite -> InviteRow]
      /\ \A v \in Invite : /\ invites[v].state # "absent" => invites'[v].state # "absent"
                           /\ invites'[v].role = invites[v].role
                           /\ invites'[v].email = invites[v].email
  <2>1. invites \in [Invite -> InviteRow]
    BY DEF IInv, TypeOK
  <2>2. CASE i.invite = None
    BY <1>1, <2>1, <2>2
  <2>3. CASE i.invite # None
    BY <1>1, <2>1, <2>3 DEF InviteRow
  <2> QED BY <2>2, <2>3
<1>7. /\ cameBy' \in [User -> Invite \cup {None}]
      /\ \A u \in User \ {nextUser} : cameBy'[u] = cameBy[u]
  BY <1>1, <1>2, <1>4 DEF IInv, TypeOK
<1>8. RowsLiveOn
  BY <1>1, <1>6 DEF RowsLiveOn, IInv, TypeOK
<1>9. RowsOK'
  <2>1. UsersInOrder'
    BY <1>4, <1>7 DEF NewAccount, IInv, UsersInOrder
  <2>2. IdentitiesAreUnique' /\ LinksInOrder'
    BY <1>1, <1>4 DEF NewAccount, IInv, IdentitiesAreUnique, LinksInOrder, Active
  <2> QED BY <1>1, <1>4, <1>6, <1>7, <2>1, <2>2 DEF NewAccount, RowsOK, IInv, TypeOK
<1>10. Knows(j)'
  <2>1. Carries(j)'
    BY <1>4, <1>5 DEF Carries, Registering
  <2> QED BY <1>5, <2>1 DEF Knows, Reserves, Fresh, Open
<1> QED BY <1>1, <1>4, <1>5, <1>8, <1>9, <1>10, WriteKeeps DEF NewAccount, Open

\* A new identity row, of a Google account that no account has.
LEMMA NewIdentityKeeps ==
    ASSUME IInv, NEW g \in Subject, NEW u \in User, OwnerOf(g) = {}, NewIdentity(g, u)
    PROVE  /\ identities' \subseteq IdentityRow /\ nextIdentity' \in 1 .. MaxIdentity + 1
           /\ \A i, k \in identities' : i.subject = k.subject => i = k
           /\ \E i \in identities' : i.subject = g /\ i.user = u
<1> DEFINE new == [id |-> nextIdentity, subject |-> g, user |-> u]
<1>1. /\ nextIdentity \in Ident /\ identities' = identities \cup {new}
      /\ nextIdentity' = nextIdentity + 1
  BY DEF NewIdentity
<1>2. new \in IdentityRow /\ new.subject = g /\ new.user = u
  BY <1>1 DEF IdentityRow
<1>3. \A i \in identities : i.subject # g
  BY DEF OwnerOf
<1>4. nextIdentity' \in 1 .. MaxIdentity + 1
  BY <1>1, IdentityAssumption DEF Ident
<1> HIDE DEF new
<1> QED BY <1>1, <1>2, <1>3, <1>4 DEF IInv, TypeOK, IdentitiesAreUnique

\* An identity row goes in, for one request that then rests or signs in.
LEMMA LinkedKeeps ==
    ASSUME IInv, NEW r \in Req, NEW g \in Subject, NEW u \in User, OwnerOf(g) = {},
           NewIdentity(g, u), NEW j \in Job, Wrote(r, j), Knows(j)', j.pc \notin Open,
           UNCHANGED <<setup, accounts, invites, mail, profile, cookie, history>>
    PROVE  IInv'
<1>1. UNCHANGED <<setup, mix, users, nextUser, invites, links, nextLink, profile, cookie, cameBy, uses, since>>
  BY DEF setup, accounts, mail, history
<1>2. RowsLiveOn
  BY <1>1 DEF RowsLiveOn, IInv, TypeOK
<1>3. Undisturbed(r)
  BY <1>1, SameAddresses
<1>4. RowsOK'
  <2>1. UsersInOrder' /\ LinksInOrder'
    BY <1>1 DEF IInv, UsersInOrder, LinksInOrder
  <2>2. IdentitiesAreUnique'
    BY <1>1, NewIdentityKeeps DEF IInv, IdentitiesAreUnique, Active
  <2> QED BY <1>1, <2>1, <2>2, NewIdentityKeeps DEF RowsOK, IInv, TypeOK
<1> QED BY <1>1, <1>2, <1>3, <1>4, WriteKeeps

LEMMA GoogleLinkKeeps ==
    ASSUME IInv, NEW r \in Req, GoogleLink(r)
    PROVE  IInv'
<1>1. CASE OwnerOf(job[r].subject) = {}
  <2>1. PICK j \in Job : j = Idle /\ j.pc = "idle"
    BY IdleIsAJob
  <2>2. Knows(j)'
    BY <2>1, IdleKnows
  <2>3. job[r].subject \in Subject /\ job[r].user \in User
    BY DEF GoogleLink, IInv, TypeOK, Job, Knows, Carries
  <2> QED BY <1>1, <2>1, <2>2, <2>3, LinkedKeeps DEF GoogleLink, Open
<1>2. CASE OwnerOf(job[r].subject) # {}
  BY <1>2, FinishKeeps DEF GoogleLink, tables
<1> QED BY <1>1, <1>2

LEMMA GoogleAutoLinkKeeps ==
    ASSUME IInv, NEW r \in Req, GoogleAutoLink(r)
    PROVE  IInv'
<1> DEFINE i == job[r]
<1>1. /\ i \in Job /\ Knows(i) /\ i.subject \in Subject /\ i.user \in User
      /\ i.pc = "g_autolink" /\ job \in [Req -> Job]
  BY DEF GoogleAutoLink, IInv, TypeOK, Job, Knows, Carries
<1>2. PICK j \in Job : /\ j = [i EXCEPT !.pc = "g_session"] /\ j.pc = "g_session"
                       /\ j.user = i.user /\ j.subject = i.subject
                       /\ j.email = i.email /\ j.overlapped = i.overlapped
  <2>1. "g_session" \in Pc
    BY DEF Pc
  <2> QED BY <2>1, GotoIsAJob
<1>3. CASE /\ OwnerOf(i.subject) = {} /\ NewIdentity(i.subject, i.user)
           /\ Wrote(r, [i EXCEPT !.pc = "g_session"])
  <2>1. Wrote(r, j) /\ NewIdentity(i.subject, i.user)
    BY <1>2, <1>3
  <2>2. ~i.overlapped => Active(i.user)
    BY <1>1 DEF Knows, Fresh
  <2>3. ~j.overlapped => Fresh(j)'
    <3>1. j.user \in OwnerOf(j.subject)'
      <4>1. \E k \in identities' : k.subject = i.subject /\ k.user = i.user
        BY <1>1, <1>3, <2>1, NewIdentityKeeps
      <4> HIDE DEF i
      <4> QED BY <1>2, <4>1 DEF OwnerOf
    <3>2. Active(i.user) => Active(j.user)'
      BY <1>2 DEF GoogleAutoLink, accounts, Active
    <3> QED BY <1>2, <2>2, <3>1, <3>2 DEF Fresh
  <2>4. Knows(j)'
    BY <1>2, <2>3 DEF Knows, Carries, Reserves, Registering, Open
  <2> QED BY <1>1, <1>2, <1>3, <2>1, <2>4, LinkedKeeps DEF GoogleAutoLink, Open
<1>4. CASE Goto(r, "g_session") /\ UNCHANGED <<google>>
  <2>1. job' = [job EXCEPT ![r] = j] /\ UNCHANGED <<setup, tables, cookie, history>>
    BY <1>1, <1>2, <1>4 DEF GoogleAutoLink, Goto, tables
  <2>2. ~j.overlapped => Fresh(j)
    BY <1>1, <1>2 DEF Knows, Fresh
  <2>3. Knows(j)
    BY <1>2, <2>2 DEF Knows, Carries, Reserves, Registering, Open
  <2> QED BY <1>2, <2>1, <2>3, PureReadKeeps DEF Open, IInv, TypeOK
<1> QED BY <1>3, <1>4 DEF GoogleAutoLink

LEMMA GoogleCreateKeeps ==
    ASSUME IInv, NEW r \in Req, GoogleCreate(r)
    PROVE  IInv'
<1> DEFINE i == job[r]
<1>1. CASE ~(UserBy(i.email) = {} /\ OwnerOf(i.subject) = {})
  BY <1>1, FinishKeeps DEF GoogleCreate, tables
<1>2. CASE UserBy(i.email) = {} /\ OwnerOf(i.subject) = {}
  <2>1. /\ i \in Job /\ i.subject \in Subject /\ i.email \in Email \cup {NoEmail}
        /\ TRUE \in BOOLEAN /\ "USER" \in {"USER", "ADMIN"}
    BY DEF IInv, TypeOK, Job
  <2>2. /\ Inserted(nextUser, i.email, TRUE, "USER") /\ NewIdentity(i.subject, nextUser)
        /\ Wrote(r, [i EXCEPT !.pc = "g_session", !.user = nextUser])
        /\ UNCHANGED <<setup, mix, invites, links, nextLink, profile, cookie, cameBy, uses, since>>
    BY <1>2 DEF GoogleCreate, setup, mail, history
  <2>3. NewAccount(r, i.email, TRUE, "USER") /\ nextUser \in User
    <3>1. PICK b \in BOOLEAN : b = TRUE
      OBVIOUS
    <3>2. Inserted(nextUser, i.email, b, "USER")
      BY <2>2, <3>1
    <3>3. \A q \in Req \ {r} : job[q].pc \in Open => job[q].email # i.email
      BY DEF GoogleCreate, Inserting, Open
    <3>4. NewAccount(r, i.email, b, "USER")
      BY <1>2, <2>1, <3>2, <3>3, InsertedKeeps
    <3> QED BY <3>1, <3>4 DEF NewAccount
  <2>4. /\ identities' \subseteq IdentityRow /\ nextIdentity' \in 1 .. MaxIdentity + 1
        /\ \A k, m \in identities' : k.subject = m.subject => k = m
        /\ \E k \in identities' : k.subject = i.subject /\ k.user = nextUser
    BY <1>2, <2>1, <2>2, <2>3, NewIdentityKeeps
  <2>5. PICK j \in Job : /\ j = [i EXCEPT !.pc = "g_session", !.user = nextUser]
                         /\ j.pc = "g_session" /\ j.user = nextUser /\ j.subject = i.subject
    <3> DEFINE k == [i EXCEPT !.pc = "g_session", !.user = nextUser]
    <3> HIDE DEF i
    <3>1. k \in Job /\ k.pc = "g_session" /\ k.user = nextUser /\ k.subject = i.subject
      BY <2>1, <2>3 DEF Job, Pc
    <3> QED BY <3>1
  <2>6. RowsLiveOn
    BY <2>2 DEF RowsLiveOn, IInv, TypeOK
  <2>7. RowsOK'
    <3>1. UsersInOrder' /\ LinksInOrder'
      BY <2>2, <2>3 DEF NewAccount, IInv, UsersInOrder, LinksInOrder
    <3>2. IdentitiesAreUnique'
      BY <2>3, <2>4 DEF NewAccount, IdentitiesAreUnique, Active
    <3> QED BY <2>2, <2>3, <2>4, <3>1, <3>2 DEF NewAccount, RowsOK, IInv, TypeOK
  <2>8. Knows(j)'
    <3>1. Active(j.user)' /\ j.user \in OwnerOf(j.subject)'
      BY <2>3, <2>4, <2>5 DEF NewAccount, Active, OwnerOf
    <3> QED BY <2>5, <3>1 DEF Knows, Carries, Reserves, Fresh, Registering, Open
  <2> QED BY <2>2, <2>3, <2>5, <2>6, <2>7, <2>8, WriteKeeps DEF NewAccount, Open
<1> QED BY <1>1, <1>2

LEMMA UnlinkDeleteKeeps ==
    ASSUME IInv, NEW r \in Req, UnlinkDelete(r)
    PROVE  IInv'
<1>1. /\ identities' \subseteq identities /\ Wrote(r, Idle)
      /\ UNCHANGED <<setup, mix, users, nextUser, invites, links, nextLink, nextIdentity,
                     profile, cookie, cameBy, uses, since>>
  BY DEF UnlinkDelete, accounts, mail, history, setup
<1>2. RowsLiveOn
  BY <1>1 DEF RowsLiveOn, IInv, TypeOK
<1>3. Undisturbed(r)
  BY <1>1, SameAddresses
<1>4. RowsOK'
  <2>1. UsersInOrder' /\ IdentitiesAreUnique' /\ LinksInOrder'
    BY <1>1 DEF IInv, UsersInOrder, IdentitiesAreUnique, LinksInOrder, Active
  <2> QED BY <1>1, <2>1 DEF RowsOK, IInv, TypeOK
<1>5. PICK j \in Job : j = Idle /\ j.pc = "idle"
  BY IdleIsAJob
<1>6. Knows(j)'
  BY <1>5, IdleKnows
<1> QED BY <1>1, <1>2, <1>3, <1>4, <1>5, <1>6, WriteKeeps DEF Open

LEMMA DeleteAccountKeeps ==
    ASSUME IInv, NEW u \in User, DeleteAccount(u)
    PROVE  IInv'
<1>1. /\ users \in [User -> UserRow] /\ Active(u)
      /\ users' = [users EXCEPT ![u].state = "deleted", ![u].email = NoEmail]
      /\ UNCHANGED <<setup, mix, nextUser, invites, links, nextLink, identities, nextIdentity,
                     profile, cookie, cameBy, uses, since>>
  BY DEF DeleteAccount, IInv, TypeOK, mail, google, history, setup
<1>2. /\ users' \in [User -> UserRow] /\ users'[u].state = "deleted"
      /\ \A v \in User \ {u} : users'[v] = users[v]
  BY <1>1 DEF UserRow
<1>3. PICK r : r \notin Req
  BY SomeoneElse
<1>4. Undisturbed(r)
  BY <1>2, SameAddresses
<1>5. RowsLiveOn
  BY <1>1 DEF RowsLiveOn, IInv, TypeOK
<1>6. RowsOK'
  <2>1. UsersInOrder' /\ IdentitiesAreUnique' /\ LinksInOrder'
    BY <1>1, <1>2 DEF IInv, UsersInOrder, IdentitiesAreUnique, LinksInOrder, Active
  <2> QED BY <1>1, <1>2, <2>1 DEF RowsOK, IInv, TypeOK
<1> QED BY <1>1, <1>3, <1>4, <1>5, <1>6, WriteAllKeeps DEF DeleteAccount

LEMMA PatchWriteKeeps ==
    ASSUME IInv, NEW r \in Req, PatchWrite(r)
    PROVE  IInv'
<1>1. /\ Wrote(r, Idle)
      /\ UNCHANGED <<setup, mix, users, nextUser, invites, links, nextLink, identities, nextIdentity,
                     cookie, cameBy, uses, since>>
  BY DEF PatchWrite, accounts, mail, google, history, setup
<1>2. profile' \in [Field -> Value]
  <2>1. job[r].read \in [Field -> Value] /\ job[r].form \subseteq Field
        /\ profile \in [Field -> Value]
    BY DEF IInv, TypeOK, Job
  <2> QED BY <2>1 DEF PatchWrite
<1>3. RowsLiveOn
  BY <1>1 DEF RowsLiveOn, IInv, TypeOK
<1>4. Undisturbed(r)
  BY <1>1, SameAddresses
<1>5. RowsOK'
  <2>1. UsersInOrder' /\ IdentitiesAreUnique' /\ LinksInOrder'
    BY <1>1 DEF IInv, UsersInOrder, IdentitiesAreUnique, LinksInOrder, Active
  <2> QED BY <1>1, <1>2, <2>1 DEF RowsOK, IInv, TypeOK
<1>6. PICK j \in Job : j = Idle /\ j.pc = "idle"
  BY IdleIsAJob
<1>7. Knows(j)'
  BY <1>6, IdleKnows
<1> QED BY <1>1, <1>3, <1>4, <1>5, <1>6, <1>7, WriteKeeps DEF Open

\* The limiter's buckets are nobody else's.
LEMMA LimitedKeeps ==
    ASSUME IInv, Limited
    PROVE  IInv'
<1>1. UNCHANGED <<mix, users, nextUser, invites, links, nextLink, identities, nextIdentity,
                  profile, cookie, cameBy, uses, since, job>>
  BY DEF Limited, tables, accounts, mail, google, history
<1>2. LimiterInv'
  BY LimiterKeeps DEF Limited, IInv
<1>3. LimiterTypeOK'
  BY <1>2 DEF LimiterInv
<1>4. TypeOK'
  BY <1>1, <1>3 DEF IInv, TypeOK
<1>5. UsersInOrder' /\ LinksInOrder' /\ IdentitiesAreUnique' /\ OneInsert'
  BY <1>1 DEF IInv, UsersInOrder, LinksInOrder, IdentitiesAreUnique, Active, OneInsert
<1>6. ASSUME NEW r \in Req PROVE Knows(job[r])'
  <2>1. PICK i : i = job[r]
    OBVIOUS
  <2>2. Knows(i)'
    BY <1>1, <2>1, KnowsOn DEF IInv
  <2> QED BY <1>1, <2>1, <2>2, Lifted
<1> QED BY <1>2, <1>4, <1>5, <1>6 DEF IInv

-----------------------------------------------------------------------------
(* The invariant is inductive.                                             *)

LEMMA InitHolds == Init => IInv
<1> SUFFICES ASSUME Init PROVE IInv
  OBVIOUS
<1>1. LimiterInv /\ LimiterTypeOK
  BY LimiterStarts DEF Init, LimiterInv
<1>2. job \in [Req -> Job] /\ \A r \in Req : job[r].pc = "idle"
  BY IdleIsAJob DEF Init
<1>3. users \in [User -> UserRow] /\ \A u \in User : u # 1 => users[u].state = "absent"
  <2>1. PICK v \in BOOLEAN :
          users = [u \in User |-> IF u = 1 THEN [state |-> "active", email |-> FirstEmail,
                                                 verified |-> v, role |-> "USER"]
                                  ELSE NoUser]
    BY DEF Init
  <2>2. [state |-> "active", email |-> FirstEmail, verified |-> v, role |-> "USER"] \in UserRow
    BY IdentityAssumption DEF UserRow
  <2>3. NoUser \in UserRow /\ NoUser.state = "absent"
    BY DEF NoUser, UserRow
  <2> QED BY <2>1, <2>2, <2>3
<1>4. invites \in [Invite -> InviteRow]
  <2>1. [state |-> "absent", expired |-> FALSE, email |-> NoEmail, role |-> "USER"] \in InviteRow
    BY DEF InviteRow
  <2> QED BY <2>1 DEF Init
<1>5. links \in [Link -> LinkRow] /\ nextLink = 1
  <2>1. [state |-> "absent", user |-> None, kind |-> "EMAIL_VERIFY", mailed |-> FALSE,
         expired |-> FALSE] \in LinkRow
    BY DEF LinkRow, Kinds
  <2> QED BY <2>1 DEF Init
<1>6. profile \in [Field -> Value] /\ cookie \in Flow
  <2>1. Default \in Value
    BY IdentityAssumption DEF Default
  <2> QED BY <2>1 DEF Init, Flow
<1>7. /\ nextUser = 2 /\ nextUser \in 1 .. MaxUser + 1 /\ nextLink \in 1 .. MaxLink + 1
      /\ identities = {} /\ nextIdentity \in 1 .. MaxIdentity + 1
      /\ cameBy \in [User -> Invite \cup {None}] /\ uses \in [Link -> 0 .. 2]
      /\ since \in [Link -> Link \cup {None}] /\ \A l \in Link : since[l] = 0
  BY <1>5, IdentityAssumption DEF Init, None
<1>8. TypeOK
  BY <1>1, <1>2, <1>3, <1>4, <1>5, <1>6, <1>7 DEF TypeOK
<1>9. UsersInOrder /\ LinksInOrder /\ OneInsert
  BY <1>2, <1>3, <1>5, <1>7 DEF Init, UsersInOrder, LinksInOrder, OneInsert, Open, Link, User
<1>10. IdentitiesAreUnique
  BY <1>3, <1>7 DEF IdentitiesAreUnique, Active
<1>11. \A r \in Req : Knows(job[r])
  BY <1>2, IdleKnows
<1> QED BY <1>1, <1>8, <1>9, <1>10, <1>11 DEF IInv

LEMMA RequestKeeps ==
    ASSUME IInv, NEW r \in Req,
           \/ \E e \in Email : Forgot(r, e) \/ \E i \in Invite \cup {None} : Register(r, e, i)
           \/ \E u \in User : Resend(r, u)
           \/ \E l \in Link, kind \in Kinds : FindLink(r, l, kind)
           \/ \E s \in Subject : GoogleCallback(r, s)
           \/ \E i \in identities : UnlinkFind(r, i)
           \/ \E form \in SUBSET Field \ {{}} : PatchRead(r, form)
           \/ LinkSteps(r) \/ RegisterSteps(r) \/ GoogleSteps(r) \/ PatchWrite(r) \/ Abort(r)
    PROVE  IInv'
<1>1. ASSUME LinkSteps(r) PROVE IInv'
  BY <1>1, VoidLinksKeeps, CreateLinkKeeps, MailKeeps, UseLinkKeeps, ApplyLinkKeeps
     DEF LinkSteps
<1>2. ASSUME RegisterSteps(r) PROVE IInv'
  BY <1>2, RegisterInsertKeeps, RegisterInviteKeeps, RegisterCommitKeeps,
     RegisterSessionKeeps DEF RegisterSteps
<1>3. ASSUME GoogleSteps(r) PROVE IInv'
  BY <1>3, GoogleDecideKeeps, GoogleLinkKeeps, GoogleAutoLinkKeeps, GoogleCreateKeeps,
     RestsKeep, UnlinkDeleteKeeps DEF GoogleSteps
<1> QED BY <1>1, <1>2, <1>3, ForgotKeeps, RegisterKeeps, ResendKeeps, FindLinkKeeps,
           GoogleCallbackKeeps, UnlinkFindKeeps, PatchReadKeeps, PatchWriteKeeps, RestsKeep

LEMMA NextKeeps == IInv /\ [Next]_vars => IInv'
<1> SUFFICES ASSUME IInv, [Next]_vars PROVE IInv'
  OBVIOUS
<1>1. ASSUME NEW mode \in {"LOGIN", "LINK"}, NEW u \in User \cup {None}, GoogleStart(mode, u)
      PROVE  IInv'
  BY <1>1, FlowKeeps DEF GoogleStart, Flow
<1>2. ASSUME GoogleRefused PROVE IInv'
  BY <1>2, FlowKeeps DEF GoogleRefused, Flow
<1>3. ASSUME UNCHANGED vars PROVE IInv'
  BY <1>3, FlowKeeps DEF vars, IInv, TypeOK
<1>4. ASSUME NEW r \in Req,
             \/ \E e \in Email : Forgot(r, e) \/ \E i \in Invite \cup {None} : Register(r, e, i)
             \/ \E u \in User : Resend(r, u)
             \/ \E l \in Link, kind \in Kinds : FindLink(r, l, kind)
             \/ \E s \in Subject : GoogleCallback(r, s)
             \/ \E i \in identities : UnlinkFind(r, i)
             \/ \E form \in SUBSET Field \ {{}} : PatchRead(r, form)
             \/ LinkSteps(r) \/ RegisterSteps(r) \/ GoogleSteps(r) \/ PatchWrite(r) \/ Abort(r)
      PROVE  IInv'
  BY <1>4, RequestKeeps
<1>5. ASSUME NEW i \in Invite,
             \/ \E e \in Email \cup {NoEmail}, role \in {"USER", "ADMIN"} :
                   CreateInvitation(i, e, role)
             \/ RevokeInvitation(i) \/ InviteExpires(i)
      PROVE  IInv'
  BY <1>5, InvitationsKeep
<1> QED BY <1>1, <1>2, <1>3, <1>4, <1>5, LimitedKeeps, LinkExpiresKeeps, DeleteAccountKeeps
           DEF Next

LEMMA Inductive == Spec => []IInv
<1>1. Init => IInv
  BY InitHolds
<1>2. IInv /\ [Next]_vars => IInv'
  BY NextKeeps
<1> QED BY <1>1, <1>2, PTL DEF Spec

\* Who writes what.
LEMMA Writers ==
    ASSUME [Next]_vars
    PROVE  /\ UNCHANGED uses \/ \E r \in Req : UseLink(r)
           /\ UNCHANGED profile \/ \E r \in Req : PatchWrite(r)
           /\ UNCHANGED mix
           /\ \/ UNCHANGED <<users, cameBy>>
              \/ \E r \in Req : ApplyLink(r) \/ RegisterCommit(r) \/ GoogleCreate(r)
              \/ \E u \in User : DeleteAccount(u)
           /\ \/ UNCHANGED invites
              \/ \E r \in Req : RegisterCommit(r)
              \/ \E i \in Invite :
                    \/ \E e \in Email \cup {NoEmail}, role \in {"USER", "ADMIN"} :
                          CreateInvitation(i, e, role)
                    \/ RevokeInvitation(i) \/ InviteExpires(i)
<1>1. ASSUME UNCHANGED <<tables, history, mix>>
      PROVE  UNCHANGED <<uses, profile, mix, users, cameBy, invites>>
  BY <1>1 DEF tables, history, accounts
<1>2. ASSUME NEW r \in Req,
             \/ \E e \in Email : Forgot(r, e) \/ \E i \in Invite \cup {None} : Register(r, e, i)
             \/ \E u \in User : Resend(r, u)
             \/ \E l \in Link, kind \in Kinds : FindLink(r, l, kind)
             \/ \E s \in Subject : GoogleCallback(r, s)
             \/ \E i \in identities : UnlinkFind(r, i)
             \/ \E form \in SUBSET Field \ {{}} : PatchRead(r, form)
             \/ RegisterInsert(r) \/ RegisterInvite(r) \/ RegisterSession(r)
             \/ GoogleDecide(r) \/ GoogleSession(r) \/ Abort(r)
      PROVE  UNCHANGED <<tables, history, mix>>
  BY <1>2 DEF Forgot, Register, Resend, FindLink, GoogleCallback, UnlinkFind, PatchRead,
              RegisterInsert, RegisterInvite, RegisterSession, GoogleDecide, GoogleSession,
              Abort, setup
<1>3. ASSUME \/ Limited \/ GoogleRefused \/ UNCHANGED vars
             \/ \E mode \in {"LOGIN", "LINK"}, u \in User \cup {None} : GoogleStart(mode, u)
      PROVE  UNCHANGED <<tables, history, mix>>
  BY <1>3 DEF Limited, GoogleRefused, GoogleStart, vars, setup
<1>4. ASSUME NEW r \in Req, VoidLinks(r) \/ CreateLink(r) \/ Mail(r)
      PROVE  UNCHANGED <<uses, profile, mix, users, cameBy, invites>>
  BY <1>4 DEF VoidLinks, CreateLink, Mail, setup, accounts, history
<1>5. ASSUME NEW l \in Link, LinkExpires(l)
      PROVE  UNCHANGED <<uses, profile, mix, users, cameBy, invites>>
  BY <1>5 DEF LinkExpires, setup, accounts, history
<1>6. ASSUME NEW r \in Req, GoogleLink(r) \/ GoogleAutoLink(r) \/ UnlinkDelete(r)
      PROVE  UNCHANGED <<uses, profile, mix, users, cameBy, invites>>
  BY <1>6 DEF GoogleLink, GoogleAutoLink, UnlinkDelete, setup, accounts, history
<1>7. ASSUME NEW r \in Req, UseLink(r)
      PROVE  UNCHANGED <<profile, mix, users, cameBy, invites>>
  BY <1>7 DEF UseLink, setup, accounts
<1>8. ASSUME NEW r \in Req, ApplyLink(r)
      PROVE  UNCHANGED <<uses, profile, mix, invites>>
  BY <1>8 DEF ApplyLink, setup, history
<1>9. ASSUME NEW r \in Req, RegisterCommit(r)
      PROVE  UNCHANGED <<uses, profile, mix>>
  BY <1>9 DEF RegisterCommit, setup
<1>10. ASSUME NEW r \in Req, GoogleCreate(r)
       PROVE  UNCHANGED <<uses, profile, mix, invites>>
  BY <1>10 DEF GoogleCreate, setup, history
<1>11. ASSUME NEW r \in Req, PatchWrite(r)
       PROVE  UNCHANGED <<uses, mix, users, cameBy, invites>>
  BY <1>11 DEF PatchWrite, setup, accounts, history
<1>12. ASSUME NEW i \in Invite,
              \/ \E e \in Email \cup {NoEmail}, role \in {"USER", "ADMIN"} :
                    CreateInvitation(i, e, role)
              \/ RevokeInvitation(i) \/ InviteExpires(i)
       PROVE  UNCHANGED <<uses, profile, mix, users, cameBy>>
  BY <1>12 DEF CreateInvitation, RevokeInvitation, InviteExpires, setup, accounts, history
<1>13. ASSUME NEW u \in User, DeleteAccount(u)
       PROVE  UNCHANGED <<uses, profile, mix, invites>>
  BY <1>13 DEF DeleteAccount, setup, history
<1> DEFINE Rests == UNCHANGED <<uses, profile, mix, users, cameBy, invites>>
<1>14. \/ Rests
       \/ \E r \in Req : UseLink(r) \/ ApplyLink(r) \/ RegisterCommit(r) \/ GoogleCreate(r)
                         \/ PatchWrite(r)
       \/ \E i \in Invite :
             \/ \E e \in Email \cup {NoEmail}, role \in {"USER", "ADMIN"} :
                   CreateInvitation(i, e, role)
             \/ RevokeInvitation(i) \/ InviteExpires(i)
       \/ \E u \in User : DeleteAccount(u)
  <2> HIDE DEF Rests
  <2>1. UNCHANGED <<tables, history, mix>> => Rests
    BY <1>1 DEF Rests
  <2>2. \A r \in Req : (\/ VoidLinks(r) \/ CreateLink(r) \/ Mail(r)
                        \/ GoogleLink(r) \/ GoogleAutoLink(r) \/ UnlinkDelete(r)) => Rests
    BY <1>4, <1>6 DEF Rests
  <2>3. \A l \in Link : LinkExpires(l) => Rests
    BY <1>5 DEF Rests
  <2> QED BY <1>2, <1>3, <2>1, <2>2, <2>3 DEF Next, LinkSteps, RegisterSteps, GoogleSteps
<1> QED BY <1>7, <1>8, <1>9, <1>10, <1>11, <1>12, <1>13, <1>14

\* Who changes the table of links.
LEMMA LinkWriters ==
    ASSUME [Next]_vars
    PROVE  \/ UNCHANGED <<links, since>>
           \/ \E r \in Req : VoidLinks(r) \/ CreateLink(r) \/ Mail(r) \/ UseLink(r)
           \/ \E l \in Link : LinkExpires(l)
<1>1. ASSUME UNCHANGED <<tables, history>> PROVE UNCHANGED <<links, since>>
  BY <1>1 DEF tables, mail, history
<1>2. ASSUME NEW r \in Req,
             \/ \E e \in Email : Forgot(r, e) \/ \E i \in Invite \cup {None} : Register(r, e, i)
             \/ \E u \in User : Resend(r, u)
             \/ \E l \in Link, kind \in Kinds : FindLink(r, l, kind)
             \/ \E s \in Subject : GoogleCallback(r, s)
             \/ \E i \in identities : UnlinkFind(r, i)
             \/ \E form \in SUBSET Field \ {{}} : PatchRead(r, form)
             \/ RegisterInsert(r) \/ RegisterInvite(r) \/ RegisterSession(r)
             \/ GoogleDecide(r) \/ GoogleSession(r) \/ Abort(r)
      PROVE  UNCHANGED <<tables, history>>
  BY <1>2 DEF Forgot, Register, Resend, FindLink, GoogleCallback, UnlinkFind, PatchRead,
              RegisterInsert, RegisterInvite, RegisterSession, GoogleDecide, GoogleSession, Abort
<1>3. ASSUME \/ Limited \/ GoogleRefused \/ UNCHANGED vars
             \/ \E mode \in {"LOGIN", "LINK"}, u \in User \cup {None} : GoogleStart(mode, u)
      PROVE  UNCHANGED <<tables, history>>
  BY <1>3 DEF Limited, GoogleRefused, GoogleStart, vars
<1>4. ASSUME NEW r \in Req,
             \/ ApplyLink(r) \/ RegisterCommit(r) \/ GoogleLink(r) \/ GoogleAutoLink(r)
             \/ GoogleCreate(r) \/ UnlinkDelete(r) \/ PatchWrite(r)
      PROVE  UNCHANGED <<links, since>>
  BY <1>4 DEF ApplyLink, RegisterCommit, GoogleLink, GoogleAutoLink, GoogleCreate,
              UnlinkDelete, PatchWrite, mail, history
<1>5. ASSUME NEW i \in Invite,
             \/ \E e \in Email \cup {NoEmail}, role \in {"USER", "ADMIN"} :
                   CreateInvitation(i, e, role)
             \/ RevokeInvitation(i) \/ InviteExpires(i)
      PROVE  UNCHANGED <<links, since>>
  BY <1>5 DEF CreateInvitation, RevokeInvitation, InviteExpires, mail, history
<1>6. ASSUME NEW u \in User, DeleteAccount(u) PROVE UNCHANGED <<links, since>>
  BY <1>6 DEF DeleteAccount, mail, history
<1> DEFINE Rests == UNCHANGED <<links, since>>
<1> HIDE DEF Rests
<1>7. UNCHANGED <<tables, history>> => Rests
  BY <1>1 DEF Rests
<1>8. \A r \in Req : (\/ ApplyLink(r) \/ RegisterCommit(r) \/ GoogleLink(r)
                      \/ GoogleAutoLink(r) \/ GoogleCreate(r) \/ UnlinkDelete(r)
                      \/ PatchWrite(r)) => Rests
  BY <1>4 DEF Rests
<1>9. \A u \in User : DeleteAccount(u) => Rests
  BY <1>6 DEF Rests
<1>10. \A i \in Invite : (\/ \E e \in Email \cup {NoEmail}, role \in {"USER", "ADMIN"} :
                               CreateInvitation(i, e, role)
                          \/ RevokeInvitation(i) \/ InviteExpires(i)) => Rests
  BY <1>5 DEF Rests
<1>11. \/ Rests
       \/ \E r \in Req : VoidLinks(r) \/ CreateLink(r) \/ Mail(r) \/ UseLink(r)
       \/ \E l \in Link : LinkExpires(l)
  BY <1>2, <1>3, <1>7, <1>8, <1>9, <1>10 DEF Next, LinkSteps, RegisterSteps, GoogleSteps
<1> QED BY <1>11 DEF Rests

\* A link stays superseded.
LEMMA SupersededStay ==
    ASSUME IInv, [Next]_vars, NEW l \in Link, NEW m \in Link, Supersedes(m, l)
    PROVE  Supersedes(m, l)'
<1>1. /\ links \in [Link -> LinkRow] /\ since \in [Link -> Link \cup {None}]
      /\ links[m].state # "absent" /\ links[m].user \in User
      /\ l <= since[m] /\ links[l].user = links[m].user /\ links[l].kind = links[m].kind
  <2>1. nextLink \in Nat /\ m \in Nat
    BY IdentityAssumption DEF IInv, TypeOK, Link
  <2>2. m < nextLink
    BY <2>1 DEF IInv, LinksInOrder, Supersedes
  <2> QED BY <2>2 DEF IInv, TypeOK, LinksInOrder, Supersedes
<1> SUFFICES /\ \A k \in {l, m} : links'[k].user = links[k].user /\ links'[k].kind = links[k].kind
             /\ links'[m].state # "absent" /\ since'[m] = since[m]
  BY <1>1 DEF Supersedes
<1>2. CASE UNCHANGED <<links, since>>
  BY <1>1, <1>2
<1>3. ASSUME NEW r \in Req, VoidLinks(r)
      PROVE  /\ \A k \in Link : /\ links'[k].user = links[k].user
                                /\ links'[k].kind = links[k].kind
                                /\ links'[k].state \in {"used", links[k].state}
             /\ since' = since
  <2>1. /\ links' = [k \in Link |-> IF k \in Unused(job[r].user, job[r].kind)
                                    THEN [links[k] EXCEPT !.state = "used"] ELSE links[k]]
        /\ since' = since
    BY <1>3 DEF VoidLinks, history
  <2> QED BY <1>1, <2>1 DEF LinkRow
<1>4. ASSUME NEW r \in Req, Mail(r) \/ UseLink(r)
      PROVE  /\ \A k \in Link : /\ links'[k].user = links[k].user
                                /\ links'[k].kind = links[k].kind
                                /\ links'[k].state \in {"used", links[k].state}
             /\ since' = since
  <2>1. since' = since
    BY <1>4 DEF Mail, UseLink, history
  <2>2. \/ links' = links
        \/ links' = [links EXCEPT ![job[r].link].mailed = TRUE]
        \/ links' = [links EXCEPT ![job[r].link].state = "used"]
    BY <1>4 DEF Mail, UseLink
  <2>3. CASE links' = links
    BY <2>1, <2>3
  <2>4. CASE links' = [links EXCEPT ![job[r].link].mailed = TRUE]
    BY <1>1, <2>1, <2>4 DEF LinkRow
  <2>5. CASE links' = [links EXCEPT ![job[r].link].state = "used"]
    BY <1>1, <2>1, <2>5 DEF LinkRow
  <2> QED BY <2>2, <2>3, <2>4, <2>5
<1>5. ASSUME NEW k \in Link, LinkExpires(k)
      PROVE  /\ \A n \in Link : /\ links'[n].user = links[n].user
                                /\ links'[n].kind = links[n].kind
                                /\ links'[n].state = links[n].state
             /\ since' = since
  BY <1>1, <1>5 DEF LinkExpires, LinkRow, history
<1>6. ASSUME NEW r \in Req, CreateLink(r)
      PROVE  links'[l] = links[l] /\ links'[m] = links[m] /\ since'[m] = since[m]
  <2>1. /\ links' = [links EXCEPT ![nextLink] = [state |-> "unused", user |-> job[r].user,
                                                 kind |-> job[r].kind, mailed |-> FALSE,
                                                 expired |-> FALSE]]
        /\ since' = [since EXCEPT ![nextLink] = job[r].link] /\ nextLink \in Link
    BY <1>6 DEF CreateLink
  <2>2. m # nextLink /\ l # nextLink
    <3>1. nextLink \in Nat /\ l \in Nat /\ m \in Nat /\ since[m] \in Nat /\ since[m] < nextLink
      BY <1>1, <2>1, IdentityAssumption DEF IInv, LinksInOrder, Link, None
    <3>2. m < nextLink
      BY <1>1, <3>1 DEF IInv, LinksInOrder
    <3> QED BY <1>1, <3>1, <3>2
  <2> QED BY <1>1, <2>1, <2>2
<1> QED BY <1>1, <1>2, <1>3, <1>4, <1>5, <1>6, LinkWriters

\* A step after which a request is about to redeem a link left it there, or
\* was that request's look-up.
LEMMA LooksOn ==
    ASSUME IInv, NEW q \in Req, NEW r, NEW j, j.pc # "use_link",
           \/ job' = [job EXCEPT ![r] = j] \/ Wrote(r, j) \/ WroteAll \/ UNCHANGED job,
           job'[q].pc = "use_link"
    PROVE  job[q].pc = "use_link" /\ job'[q].link = job[q].link
<1>1. job \in [Req -> Job]
  BY DEF IInv, TypeOK
<1>2. ASSUME job'[q] = Touched(job[q]) PROVE job[q].pc = "use_link" /\ job'[q].link = job[q].link
  BY <1>1, <1>2 DEF Touched, Job
<1> QED BY <1>1, <1>2 DEF Wrote, WroteAll

LEMMA LookUps ==
    ASSUME IInv, [Next]_vars, NEW q \in Req, job'[q].pc = "use_link"
    PROVE  \/ job[q].pc = "use_link" /\ job'[q].link = job[q].link
           \/ links[job'[q].link].state = "unused"
<1> DEFINE Quiet == \E r, j : /\ j.pc # "use_link"
                              /\ \/ job' = [job EXCEPT ![r] = j] \/ Wrote(r, j)
                                 \/ WroteAll \/ UNCHANGED job
<1>1. Idle.pc = "idle" /\ Idle \in Job /\ job \in [Req -> Job]
  BY IdleIsAJob DEF IInv, TypeOK
<1>2. ASSUME NEW r \in Req, NEW i \in Job, NEW pc \in Pc \ {"use_link"},
             NEW u \in User \cup {None}, NEW k \in Link \cup {None}
      PROVE  /\ [i EXCEPT !.pc = pc].pc # "use_link"
             /\ [i EXCEPT !.pc = pc, !.user = u].pc # "use_link"
             /\ [i EXCEPT !.pc = pc, !.link = k].pc # "use_link"
  BY DEF Job
<1>3. ASSUME \/ Limited \/ GoogleRefused \/ UNCHANGED vars
             \/ \E mode \in {"LOGIN", "LINK"}, u \in User \cup {None} : GoogleStart(mode, u)
             \/ \E l \in Link : LinkExpires(l)
             \/ \E u \in User : DeleteAccount(u)
             \/ \E i \in Invite :
                   \/ \E e \in Email \cup {NoEmail}, role \in {"USER", "ADMIN"} :
                         CreateInvitation(i, e, role)
                   \/ RevokeInvitation(i) \/ InviteExpires(i)
      PROVE  Quiet
  <2>1. WroteAll \/ UNCHANGED job
    BY <1>3 DEF Limited, GoogleRefused, vars, GoogleStart, LinkExpires, DeleteAccount,
                CreateInvitation, RevokeInvitation, InviteExpires
  <2> QED BY <1>1, <2>1
<1>4. ASSUME NEW r \in Req,
             \/ \E e \in Email : Forgot(r, e) \/ \E i \in Invite \cup {None} : Register(r, e, i)
             \/ \E u \in User : Resend(r, u)
             \/ \E s \in Subject : GoogleCallback(r, s)
             \/ \E i \in identities : UnlinkFind(r, i)
             \/ \E form \in SUBSET Field \ {{}} : PatchRead(r, form)
      PROVE  Quiet
  <2>2. ASSUME NEW e \in Email, Forgot(r, e) PROVE Quiet
    <3>1. PICK u \in UserBy(e) :
            job' = [job EXCEPT ![r] =
                       [Idle EXCEPT !.pc = "void", !.user = u, !.kind = "PASSWORD_RESET"]]
      BY <2>2 DEF Forgot, Start
    <3> DEFINE j == [Idle EXCEPT !.pc = "void", !.user = u, !.kind = "PASSWORD_RESET"]
    <3>2. j.pc # "use_link"
      BY DEF Idle
    <3> QED BY <3>1, <3>2
  <2>3. ASSUME NEW u \in User, Resend(r, u) PROVE Quiet
    <3> DEFINE j == [Idle EXCEPT !.pc = "void", !.user = u, !.kind = "EMAIL_VERIFY"]
    <3>1. job' = [job EXCEPT ![r] = j]
      BY <2>3 DEF Resend, Start
    <3>2. j.pc # "use_link"
      BY DEF Idle
    <3> QED BY <3>1, <3>2
  <2>4. ASSUME NEW e \in Email, NEW i \in Invite \cup {None}, Register(r, e, i) PROVE Quiet
    <3> DEFINE role == IF i = None THEN "USER" ELSE invites[i].role
               j == [Idle EXCEPT !.pc = "reg_insert", !.email = e, !.invite = i, !.role = role]
    <3>1. job' = [job EXCEPT ![r] = j]
      BY <2>4 DEF Register, Start
    <3>2. j.pc # "use_link"
      BY DEF Idle
    <3> QED BY <3>1, <3>2
  <2>5. ASSUME NEW g \in Subject, GoogleCallback(r, g) PROVE Quiet
    <3> DEFINE owners == OwnerOf(g)
               owner == IF owners = {} THEN None ELSE CHOOSE u \in owners : TRUE
               j == [Idle EXCEPT !.pc = "g_decide", !.subject = g, !.mode = cookie.mode,
                                 !.user = cookie.user, !.owner = owner,
                                 !.usable = Active(owner), !.email = SubjectEmail[g]]
    <3>1. job' = [job EXCEPT ![r] = j]
      BY <2>5 DEF GoogleCallback, Start
    <3>2. j.pc # "use_link"
      BY DEF Idle
    <3> QED BY <3>1, <3>2
  <2>6. ASSUME NEW i \in identities, UnlinkFind(r, i) PROVE Quiet
    <3> DEFINE j == [Idle EXCEPT !.pc = "unlink", !.user = i.user, !.ident = i.id]
    <3>1. job' = [job EXCEPT ![r] = j]
      BY <2>6 DEF UnlinkFind, Start
    <3>2. j.pc # "use_link"
      BY DEF Idle
    <3> QED BY <3>1, <3>2
  <2>7. ASSUME NEW form \in SUBSET Field, PatchRead(r, form) PROVE Quiet
    <3> DEFINE j == [Idle EXCEPT !.pc = "patch", !.form = form, !.read = profile]
    <3>1. job' = [job EXCEPT ![r] = j]
      BY <2>7 DEF PatchRead, Start
    <3>2. j.pc # "use_link"
      BY DEF Idle
    <3> QED BY <3>1, <3>2
  <2> HIDE DEF Quiet
  <2> QED BY <1>4, <2>2, <2>3, <2>4, <2>5, <2>6, <2>7
<1>5. ASSUME NEW r \in Req,
             \/ VoidLinks(r) \/ CreateLink(r) \/ Mail(r) \/ UseLink(r) \/ ApplyLink(r)
      PROVE  Quiet
  <2>1. job[r] \in Job
    BY <1>1
  <2>2. PICK j : j.pc # "use_link" /\ (job' = [job EXCEPT ![r] = j] \/ Wrote(r, j))
    BY <1>1, <1>5, <2>1 DEF VoidLinks, CreateLink, Mail, UseLink, ApplyLink, Finish, Job
  <2> QED BY <2>2
<1>6. ASSUME NEW r \in Req,
             \/ RegisterInsert(r) \/ RegisterInvite(r) \/ RegisterCommit(r) \/ RegisterSession(r)
      PROVE  Quiet
  <2>1. job[r] \in Job
    BY <1>1
  <2>2. ASSUME RegisterInsert(r) \/ RegisterInvite(r)
        PROVE  \E j : j.pc # "use_link" /\ job' = [job EXCEPT ![r] = j]
    <3>1. PICK j \in {Idle, [job[r] EXCEPT !.pc = "reg_commit"],
                      [job[r] EXCEPT !.pc = "reg_invite"]} : job' = [job EXCEPT ![r] = j]
      BY <2>2 DEF RegisterInsert, RegisterInvite, Finish, Goto
    <3> QED BY <1>1, <2>1, <3>1 DEF Job
  <2>3. ASSUME RegisterCommit(r) PROVE \E j : j.pc # "use_link" /\ Wrote(r, j)
    BY <2>1, <2>3 DEF RegisterCommit, Job
  <2>4. ASSUME RegisterSession(r)
        PROVE  \E j : j.pc # "use_link" /\ job' = [job EXCEPT ![r] = j]
    <3> DEFINE j == [job[r] EXCEPT !.pc = "void", !.kind = "EMAIL_VERIFY"]
    <3>1. j.pc # "use_link" /\ job' = [job EXCEPT ![r] = j]
      BY <1>1, <2>1, <2>4 DEF RegisterSession, Job
    <3> QED BY <3>1
  <2> QED BY <1>6, <2>2, <2>3, <2>4
<1>7. ASSUME NEW r \in Req,
             \/ GoogleLink(r) \/ GoogleAutoLink(r) \/ GoogleCreate(r) \/ GoogleSession(r)
             \/ UnlinkDelete(r) \/ PatchWrite(r) \/ Abort(r)
      PROVE  Quiet
  <2>1. job[r] \in Job
    BY <1>1
  <2>2. PICK j : j.pc # "use_link" /\ (job' = [job EXCEPT ![r] = j] \/ Wrote(r, j))
    BY <1>1, <1>7, <2>1 DEF GoogleLink, GoogleAutoLink, GoogleCreate, GoogleSession,
                            UnlinkDelete, PatchWrite, Abort, Finish, Goto, Job
  <2> QED BY <2>2
<1>8. ASSUME NEW r \in Req, GoogleDecide(r) PROVE Quiet
  <2>1. job[r] \in Job
    BY <1>1
  <2>2. PICK d : /\ d.pc # "use_link"
                 /\ Finish(r) \/ job' = [job EXCEPT ![r].pc = d.pc, ![r].user = d.user]
    <3> DEFINE i == job[r]
               found == UserBy(i.email)
               byEmail == IF found = {} THEN None ELSE CHOOSE u \in found : TRUE
               v == byEmail # None /\ users[byEmail].verified
               d == IF i.mode = "LINK" /\ ~Active(i.user) THEN Refuse
                    ELSE DecideGoogleAction(i.mode, i.owner, i.usable, byEmail, v, i.user,
                                            privateMode)
    <3>1. IF d = Refuse THEN Finish(r) ELSE job' = [job EXCEPT ![r].pc = d.pc, ![r].user = d.user]
      BY <1>8 DEF GoogleDecide
    <3>2. d.pc # "use_link"
      <4> HIDE DEF v, byEmail, i
      <4> QED BY DEF DecideGoogleAction, Refuse
    <3> HIDE DEF d
    <3> QED BY <3>1, <3>2
  <2> DEFINE j == [job[r] EXCEPT !.pc = d.pc, !.user = d.user]
  <2>3. j.pc # "use_link" /\ (Finish(r) \/ job' = [job EXCEPT ![r] = j])
    BY <1>1, <2>1, <2>2 DEF Job
  <2> QED BY <1>1, <2>3 DEF Finish
<1>9. ASSUME NEW r \in Req, NEW l \in Link, NEW kind \in Kinds, FindLink(r, l, kind)
      PROVE  \/ job[q].pc = "use_link" /\ job'[q].link = job[q].link
             \/ links[job'[q].link].state = "unused"
  <2> DEFINE j == [Idle EXCEPT !.pc = "use_link", !.link = l, !.user = links[l].user,
                               !.kind = kind]
  <2>1. job' = [job EXCEPT ![r] = j] /\ links[l].state = "unused"
    BY <1>9 DEF FindLink, Start
  <2>2. j.link = l
    BY DEF Idle
  <2> HIDE DEF j
  <2> QED BY <1>1, <2>1, <2>2
<1>10. Quiet => job[q].pc = "use_link" /\ job'[q].link = job[q].link
  BY LooksOn
<1> HIDE DEF Quiet
<1> QED BY <1>3, <1>4, <1>5, <1>6, <1>7, <1>8, <1>9, <1>10
        DEF Next, LinkSteps, RegisterSteps, GoogleSteps

-----------------------------------------------------------------------------
(* The theorems.                                                           *)

\* Every variable of the identity side, the limiter's buckets included, keeps
\* its type.
THEOREM IdentityTypes == Spec => []TypeOK
<1>1. IInv => TypeOK
  BY DEF IInv
<1> QED BY <1>1, Inductive, PTL

\* rateLimit.ts over its sweeps: within any window, cut at the interval after
\* which sweep forgets hits, no key gets more than Limit requests through,
\* whatever the window, the limit and that interval.
THEOREM LimiterHolds == Spec => []WindowsAreLimited
<1>1. IInv => WindowsAreLimited
  BY LimiterLimits DEF IInv
<1> QED BY <1>1, Inductive, PTL

\* However sign-ups by form and by Google, links and deletions overlap, no two
\* open accounts share an address, and no Google account has two rows.
THEOREM AccountsStayUnique == Spec => []IdentitiesAreUnique
<1>1. IInv => IdentitiesAreUnique
  BY DEF IInv
<1> QED BY <1>1, Inductive, PTL

\* issueVerificationToken invalidates before it inserts: of the links that a
\* request invalidated not one is unmarked when its own link exists, nor ever
\* after, however many requests for links overlap.
THEOREM SupersededLinksAreMarked == Spec => []SupersededLinksStayDead
<1>1. IInv => SupersededLinksStayDead
  BY DEF IInv, LinksInOrder, Knows, Carries, Superseded, Supersedes, SupersededLinksStayDead
<1> QED BY <1>1, Inductive, PTL

\* A sign-in with Google that nothing overlaps opens an active account that
\* owns the Google account or, when its insert of the link failed and nobody
\* owns that, one that proved the address; it links only such an account.
THEOREM GoogleSignsInToItsOwn == Spec => []GoogleOpensItsOwn
<1>1. IInv => GoogleOpensItsOwn
  BY DEF IInv, Knows, Fresh, GoogleOpensItsOwn
<1> QED BY <1>1, Inductive, PTL

\* consumeVerificationToken looks a link up and then marks it by its id: once
\* the requests that looked a redeemed or superseded link up are through, no
\* request finds or redeems it ever again.
THEOREM SpentLinksAreDead == Spec => SpentLinksStayDead
<1> DEFINE A == \A l \in Link : Spent(l) => Spent(l)' /\ uses'[l] = uses[l]
<1>1. IInv /\ [Next]_vars => [A]_vars
  <2> SUFFICES ASSUME IInv, [Next]_vars, NEW l \in Link, Spent(l)
               PROVE  Spent(l)' /\ uses'[l] = uses[l]
    OBVIOUS
  <2>1. uses'[l] = uses[l]
    <3>1. ASSUME NEW r \in Req, UseLink(r) PROVE uses'[l] = uses[l]
      <4>1. job[r].pc = "use_link" /\ job[r].link # l
        BY <3>1 DEF UseLink, Spent
      <4> QED BY <3>1, <4>1 DEF UseLink, IInv, TypeOK
    <3> QED BY <3>1, Writers
  <2>2. uses'[l] >= 1 \/ \E m \in Link : Supersedes(m, l)'
    BY <2>1, SupersededStay DEF Spent
  <2>3. links[l].state = "used"
    BY DEF Spent, Supersedes, IInv, TypeOK, LinksInOrder
  <2>4. \A r \in Req : job'[r].link = l => job'[r].pc # "use_link"
    BY <2>3, LookUps DEF Spent
  <2> QED BY <2>1, <2>2, <2>4 DEF Spent
<1> QED BY <1>1, Inductive, PTL DEF Spec, SpentLinksStayDead

\* A signup that fails half-way never burns its invitation: it becomes used
\* only in the step that commits an account registered with it.
THEOREM FailedSignupsKeepTheInvite == Spec => FailedSignupKeepsInvite
<1> DEFINE A == \A i \in Invite : invites[i].state = "pending" /\ invites'[i].state = "used" =>
          \E u \in User : cameBy[u] # i /\ cameBy'[u] = i
<1>1. IInv /\ [Next]_vars => [A]_vars
  <2> SUFFICES ASSUME IInv, [Next]_vars, NEW i \in Invite, invites[i].state = "pending",
                      invites'[i].state = "used"
               PROVE  \E u \in User : cameBy[u] # i /\ cameBy'[u] = i
    OBVIOUS
  <2>1. ASSUME NEW k \in Invite, NEW e \in Email \cup {NoEmail},
               NEW role \in {"USER", "ADMIN"}, CreateInvitation(k, e, role)
        PROVE  FALSE
    BY <2>1 DEF CreateInvitation, IInv, TypeOK
  <2>2. ASSUME NEW k \in Invite, RevokeInvitation(k) \/ InviteExpires(k) PROVE FALSE
    BY <2>2 DEF RevokeInvitation, InviteExpires, IInv, TypeOK, InviteRow
  <2>3. PICK r \in Req : RegisterCommit(r)
    BY <2>1, <2>2, Writers
  <2>4. i = job[r].invite
    BY <2>3 DEF RegisterCommit, IInv, TypeOK
  <2>5. nextUser \in User /\ cameBy[nextUser] = None /\ cameBy'[nextUser] = i
    BY <2>3, <2>4 DEF RegisterCommit, Inserted, IInv, TypeOK, UsersInOrder, User
  <2> QED BY <2>5, NoneAssumption
<1> QED BY <1>1, Inductive, PTL DEF Spec, FailedSignupKeepsInvite

\* PATCH /auth/me writes back columns it has read: alone it changes none that
\* was not in the form, and never the month start day.
THEOREM ProfileEditsKeep == Spec => ProfileEditsAreKept
<1> DEFINE A == \A f \in Field : profile'[f] # profile[f] =>
          \E r \in Req : /\ job[r].pc = "patch"
                         /\ \/ f \in job[r].form
                            \/ job[r].overlapped /\ f # "financialMonthStartDay"
<1>1. IInv /\ [Next]_vars => [A]_vars
  <2> SUFFICES ASSUME IInv, [Next]_vars, NEW f \in Field, profile'[f] # profile[f]
               PROVE  \E r \in Req : /\ job[r].pc = "patch"
                                     /\ \/ f \in job[r].form
                                        \/ /\ job[r].overlapped
                                           /\ f # "financialMonthStartDay"
    OBVIOUS
  <2>1. PICK r \in Req : PatchWrite(r)
    BY Writers
  <2> DEFINE j == job[r]
  <2>2. /\ j.pc = "patch" /\ j \in Job
        /\ f \in j.form \/ (f # "financialMonthStartDay" /\ profile'[f] = j.read[f])
    BY <2>1 DEF PatchWrite, IInv, TypeOK
  <2>3. ~j.overlapped => j.read = profile
    BY <2>2 DEF IInv, Knows, Fresh
  <2> QED BY <2>2, <2>3
<1> QED BY <1>1, Inductive, PTL DEF Spec, ProfileEditsAreKept

\* However registrations overlap each other and the administrator, an account
\* gets the role and the address its invitation was issued for, and in private
\* mode none comes without an invitation.
THEOREM InvitesAdmit == Spec => InvitesAdmitAsIssued
<1> DEFINE Entered(u) == \/ cameBy'[u] # cameBy[u]
                         \/ (users[u].state # users'[u].state /\ users'[u].state = "active")
           Admitted(u, i) ==
              IF i = None THEN ~privateMode
              ELSE /\ users'[u].role = invites[i].role
                   /\ invites[i].email \in {NoEmail, users'[u].email}
           A == \A u \in User : Entered(u) => Admitted(u, cameBy'[u])
<1>1. IInv /\ [Next]_vars => [A]_vars
  <2> SUFFICES ASSUME IInv, [Next]_vars, NEW u \in User, Entered(u)
               PROVE  Admitted(u, cameBy'[u])
    OBVIOUS
  <2>1. ASSUME NEW r \in Req, ApplyLink(r) PROVE FALSE
    <3>1. /\ users \in [User -> UserRow] /\ cameBy' = cameBy
          /\ users' = [users EXCEPT ![job[r].user].verified = TRUE]
      BY <2>1 DEF ApplyLink, history, IInv, TypeOK
    <3> QED BY <3>1 DEF UserRow
  <2>2. ASSUME NEW w \in User, DeleteAccount(w) PROVE FALSE
    <3>1. /\ users \in [User -> UserRow] /\ cameBy' = cameBy
          /\ users' = [users EXCEPT ![w].state = "deleted", ![w].email = NoEmail]
      BY <2>2 DEF DeleteAccount, history, IInv, TypeOK
    <3>2. \A v \in User : users'[v].state = "deleted" \/ users'[v] = users[v]
      BY <3>1 DEF UserRow
    <3> QED BY <3>1, <3>2
  <2>3. ASSUME NEW r \in Req, GoogleCreate(r) PROVE Admitted(u, cameBy'[u])
    <3>1. ~privateMode
      BY <2>3 DEF GoogleCreate, IInv, Knows, Carries
    <3>2. users' # users
      BY <2>3 DEF GoogleCreate, accounts, history
    <3>3. u = nextUser /\ cameBy' = cameBy /\ nextUser \in User
      BY <2>3, <3>2 DEF GoogleCreate, accounts, history, Inserted, IInv, TypeOK
    <3>4. cameBy[u] = None
      BY <3>3 DEF IInv, TypeOK, UsersInOrder, User
    <3> QED BY <3>1, <3>3, <3>4
  <2>4. ASSUME NEW r \in Req, RegisterCommit(r) PROVE Admitted(u, cameBy'[u])
    <3> DEFINE j == job[r]
    <3>1. /\ nextUser \in User /\ j \in Job /\ j.pc = "reg_commit" /\ Knows(j)
          /\ users' = [users EXCEPT ![nextUser] = [state |-> "active", email |-> j.email,
                                                   verified |-> FALSE, role |-> j.role]]
          /\ cameBy' = [cameBy EXCEPT ![nextUser] = j.invite]
          /\ users \in [User -> UserRow] /\ cameBy \in [User -> Invite \cup {None}]
      BY <2>4 DEF RegisterCommit, Inserted, IInv, TypeOK
    <3>2. u = nextUser
      BY <3>1
    <3>3. cameBy'[u] = j.invite /\ users'[u].role = j.role /\ users'[u].email = j.email
      BY <3>1, <3>2
    <3>4. Entitled(j)
      BY <3>1 DEF Knows, Carries, Registering
    <3>5. CASE j.invite = None
      BY <3>3, <3>4, <3>5 DEF Entitled
    <3>6. CASE j.invite # None
      BY <3>1, <3>3, <3>4, <3>6 DEF Entitled
    <3> QED BY <3>5, <3>6
  <2>5. users' # users \/ cameBy' # cameBy
    OBVIOUS
  <2> HIDE DEF Entered, Admitted
  <2> QED BY <2>1, <2>2, <2>3, <2>4, <2>5, Writers
<1>2. [A]_vars => [\A u \in User :
          cameBy'[u] # cameBy[u] \/ (users[u].state # users'[u].state
                                     /\ users'[u].state = "active") =>
          LET i == cameBy'[u] IN
          IF i = None THEN ~privateMode
          ELSE /\ users'[u].role = invites[i].role
               /\ invites[i].email \in {NoEmail, users'[u].email}]_vars
  OBVIOUS
<1> QED BY <1>1, <1>2, Inductive, PTL DEF Spec, InvitesAdmitAsIssued
=============================================================================
