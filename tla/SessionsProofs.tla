--------------------------- MODULE SessionsProofs ---------------------------
(***************************************************************************)
(* Theorems about Sessions, for any number of requests, processes, devices *)
(* and session rows.                                                       *)
(***************************************************************************)
EXTENDS Sessions, TLAPS

-----------------------------------------------------------------------------
(* The inductive invariant.                                                *)

\* Ids are handed out in order, and a row descends from an earlier one.
IdsInOrder ==
    /\ \A s \in rows : s < nextId
    /\ \A s \in Sid : lineage[s] <= s
    /\ \A f \in ended : f < nextId

\* Requests work on tokens that were handed out.
TokPc == RotatePc \cup {"rotate", "join", "logout", "change_update", "change_sweep"}
TokensWereGranted == \A r \in Req : job[r].pc \in TokPc => job[r].tok \in granted

\* The walk stands on a row while it reads or writes, and no rotation gets
\* that far with its hops used up.
WalkPc == {"walk_read", "walk_write"}
FreshPc == WalkPc \cup {"rotate", "read"}
WalkOnARow ==
    \A r \in Req : /\ job[r].pc \in WalkPc => job[r].at \in Sid
                   /\ job[r].pc \in FreshPc => job[r].hops < WalkCap

\* A row inserted by a rotation that has not consumed its token yet, or lost,
\* belongs to that rotation alone and was handed to nobody.
InsertedPc == {"consume", "discard"}
InsertedRowsArePrivate ==
    /\ \A r \in Req : job[r].pc \in InsertedPc =>
          /\ job[r].succ \in rows \ granted
          /\ lineage[job[r].succ] = lineage[job[r].tok]
    /\ \A q, r \in Req : (/\ job[q].pc \in InsertedPc /\ job[r].pc \in InsertedPc
                          /\ job[q].succ = job[r].succ) => q = r

OnlyRevokedRowsHaveSuccessors ==
    \A s \in Sid : replacedBy[s] # NoRow => s \in revoked

\* Between the two statements of an account deletion, the lineages it has
\* revoked have no other live token.
DeletionHoldsWholeLineages ==
    \A r \in Req : job[r].pc = "delete_commit" =>
        /\ \A x \in job[r].held : x < nextId
        /\ \A s \in granted \ revoked : \A x \in job[r].held :
              lineage[s] = lineage[x] => s \in job[r].held

IInv ==
    /\ TypeOK
    /\ IdsInOrder
    /\ TokensWereGranted
    /\ WalkOnARow
    /\ InsertedRowsArePrivate
    /\ OnlyRevokedRowsHaveSuccessors
    /\ DeletionHoldsWholeLineages
    /\ GrantedTokensKeepTheirRow
    /\ SingleLiveToken
    /\ SweptLineagesStayDead

-----------------------------------------------------------------------------
(* Lemmas.                                                                 *)

LEMMA IdleIsAJob == Idle \in Job
<1>1. SomeDevice \in Device
  BY NonEmptyAssumption DEF SomeDevice
<1>2. SomeProc \in Proc
  BY NonEmptyAssumption DEF SomeProc
<1>3. 0 \in 0 .. WalkCap
  BY CapAssumption
<1> QED BY <1>1, <1>2, <1>3 DEF Idle, Job, Pc

\* A request's state that asks nothing of the table.
Harmless(j) ==
    /\ j.pc \notin InsertedPc
    /\ j.pc # "delete_commit"
    /\ j.pc \in TokPc => j.tok \in granted
    /\ j.pc \in WalkPc => j.at \in Sid
    /\ j.pc \in FreshPc => j.hops < WalkCap

LEMMA IdleIsHarmless == Harmless(Idle)
  BY DEF Harmless, Idle, InsertedPc, TokPc, RotatePc, WalkPc, FreshPc

\* A step that neither inserts nor hands out nor deletes a row keeps the
\* invariant, whatever it revokes, if it leaves swept lineages dead.
LEMMA NoNewToken ==
    ASSUME IInv,
           job' \in [Req -> Job],
           \A q \in Req : job'[q] = job[q] \/ Harmless(job'[q]),
           inflight' \subseteq Proc \X Sid,
           revoked \subseteq revoked', revoked' \subseteq Sid,
           expired' \subseteq Sid,
           deviceRevoked' \subseteq Device, deleted' \in BOOLEAN,
           ended' \subseteq Sid, \A f \in ended' : f < nextId,
           \A s \in granted : lineage[s] \in ended' => s \in revoked',
           UNCHANGED <<nextId, rows, replacedBy, deviceOf, granted, lineage>>
    PROVE  IInv'
<1>1. TypeOK'
  BY DEF IInv, TypeOK
<1>2. IdsInOrder'
  BY DEF IInv, IdsInOrder
<1>3. TokensWereGranted'
  BY DEF IInv, TokensWereGranted, Harmless
<1>4. WalkOnARow'
  BY DEF IInv, WalkOnARow, Harmless
<1>5. InsertedRowsArePrivate'
  BY DEF IInv, InsertedRowsArePrivate, Harmless
<1>6. OnlyRevokedRowsHaveSuccessors'
  BY DEF IInv, OnlyRevokedRowsHaveSuccessors
<1>7. DeletionHoldsWholeLineages'
  BY DEF IInv, DeletionHoldsWholeLineages, Harmless
<1>8. GrantedTokensKeepTheirRow' /\ SingleLiveToken' /\ SweptLineagesStayDead'
  BY DEF IInv, GrantedTokensKeepTheirRow, SingleLiveToken, SweptLineagesStayDead
<1> QED BY <1>1, <1>2, <1>3, <1>4, <1>5, <1>6, <1>7, <1>8 DEF IInv

\* The same for steps that change nothing but what requests are doing.
LEMMA JobsOnly ==
    ASSUME IInv,
           job' \in [Req -> Job],
           \A q \in Req : job'[q] = job[q] \/ Harmless(job'[q]),
           inflight' \subseteq Proc \X Sid,
           UNCHANGED <<table, account, history>>
    PROVE  IInv'
<1>1. /\ UNCHANGED <<nextId, rows, replacedBy, deviceOf, granted, lineage>>
      /\ UNCHANGED <<revoked, expired, deviceRevoked, deleted, ended>>
  BY DEF table, account, history
<1>2. \A s \in granted : lineage[s] \in ended' => s \in revoked'
  BY <1>1 DEF IInv, SweptLineagesStayDead
<1>3. /\ ended' \subseteq Sid /\ \A f \in ended' : f < nextId
      /\ revoked \subseteq revoked' /\ revoked' \subseteq Sid
      /\ expired' \subseteq Sid
      /\ deviceRevoked' \subseteq Device /\ deleted' \in BOOLEAN
  BY <1>1 DEF IInv, TypeOK, IdsInOrder
<1> QED BY <1>1, <1>2, <1>3, NoNewToken

LEMMA StartKeeps ==
    ASSUME IInv, NEW r \in Req, NEW j \in Job, Harmless(j), Start(r, j),
           UNCHANGED <<table, account, inflight, history>>
    PROVE  IInv'
<1>1. job' \in [Req -> Job] /\ \A q \in Req : job'[q] = job[q] \/ job'[q] = j
  BY DEF IInv, TypeOK, Start
<1>2. inflight' \subseteq Proc \X Sid
  BY DEF IInv, TypeOK
<1> QED BY <1>1, <1>2, JobsOnly

LEMMA FinishTypes ==
    ASSUME IInv, NEW r \in Req, Finish(r)
    PROVE  /\ job' \in [Req -> Job]
           /\ \A q \in Req : job'[q] = job[q] \/ Harmless(job'[q])
  BY IdleIsAJob, IdleIsHarmless DEF IInv, TypeOK, Finish

LEMMA GotoTypes ==
    ASSUME IInv, NEW r \in Req, NEW pc \in Pc, Goto(r, pc),
           pc \notin InsertedPc \cup FreshPc \cup {"delete_commit"},
           pc \in TokPc => job[r].tok \in granted
    PROVE  /\ job' \in [Req -> Job]
           /\ \A q \in Req : job'[q] = job[q] \/ Harmless(job'[q])
<1>1. job \in [Req -> Job] /\ job[r] \in Job
  BY DEF IInv, TypeOK
<1>2. [job[r] EXCEPT !.pc = pc] \in Job
  BY <1>1 DEF Job
<1>3. Harmless([job[r] EXCEPT !.pc = pc])
  BY <1>1 DEF Harmless, Job, FreshPc
<1> QED BY <1>1, <1>2, <1>3 DEF Goto

LEMMA SettleTypes ==
    ASSUME IInv, NEW r \in Req, NEW j \in Job, Settle(r, j)
    PROVE  /\ job' \in [Req -> Job] /\ job'[r] = j
           /\ \A q \in Req \ {r} : job'[q] = job[q] \/ job'[q] = Idle
           /\ inflight' \subseteq Proc \X Sid
  BY IdleIsAJob DEF IInv, TypeOK, Settle

-----------------------------------------------------------------------------
(* One lemma per step that touches more than what a request is doing.      *)

LEMMA SweepKeeps ==
    ASSUME IInv, NEW r \in Req, Finish(r), NEW S \in SUBSET Sid,
           revoked' = revoked \cup S, NEW F \in SUBSET Sid,
           ended' = ended \cup F, \A f \in F : f < nextId,
           \A s \in granted \ (revoked \cup S) : lineage[s] \notin F,
           deleted' \in BOOLEAN,
           UNCHANGED <<nextId, rows, expired, replacedBy, deviceOf,
                       deviceRevoked, inflight, granted, lineage>>
    PROVE  IInv'
<1>1. \A s \in granted : lineage[s] \in ended' => s \in revoked'
  BY DEF IInv, SweptLineagesStayDead
<1>2. /\ ended' \subseteq Sid /\ \A f \in ended' : f < nextId
      /\ revoked \subseteq revoked' /\ revoked' \subseteq Sid
      /\ expired' \subseteq Sid /\ deviceRevoked' \subseteq Device
      /\ inflight' \subseteq Proc \X Sid
  BY DEF IInv, TypeOK, IdsInOrder
<1> QED BY <1>1, <1>2, FinishTypes, NoNewToken

LEMMA LineagesAreOld ==
    ASSUME IInv, NEW S \in SUBSET rows
    PROVE  LineagesOf(S) \subseteq Sid /\ \A f \in LineagesOf(S) : f < nextId
  BY DEF IInv, TypeOK, IdsInOrder, LineagesOf, Sid

LEMMA SweepAllKeeps ==
    ASSUME IInv, NEW r \in Req, SweepAll(r)
    PROVE  IInv'
<1>1. rows \ revoked \in SUBSET Sid
  BY DEF IInv, TypeOK
<1>2. LineagesOf(rows) \in SUBSET Sid /\ \A f \in LineagesOf(rows) : f < nextId
  BY LineagesAreOld
<1>3. \A s \in granted : s \in revoked \cup (rows \ revoked)
  BY DEF IInv, GrantedTokensKeepTheirRow
<1>4. deleted' \in BOOLEAN
  BY DEF IInv, TypeOK, SweepAll, account
<1> QED BY <1>1, <1>2, <1>3, <1>4, SweepKeeps DEF SweepAll, RevokeRows, account

LEMMA SweepOthersKeeps ==
    ASSUME IInv, NEW r \in Req, SweepOthers(r)
    PROVE  IInv'
<1> DEFINE S == rows \ (revoked \cup {job[r].tok})
           F == LineagesOf(rows) \ {lineage[job[r].tok]}
<1>1. S \in SUBSET Sid
  BY DEF IInv, TypeOK
<1>2. F \in SUBSET Sid /\ \A f \in F : f < nextId
  BY LineagesAreOld
<1>3. \A s \in granted \ (revoked \cup S) : lineage[s] \notin F
  BY DEF IInv, GrantedTokensKeepTheirRow
<1>4. deleted' \in BOOLEAN
  BY DEF IInv, TypeOK, SweepOthers, account
<1> HIDE DEF S, F
<1>5. revoked' = revoked \cup S /\ ended' = ended \cup F
  BY DEF SweepOthers, RevokeRows, S, F
<1> QED BY <1>1, <1>2, <1>3, <1>4, <1>5, SweepKeeps DEF SweepOthers, RevokeRows, account

LEMMA DeleteCommitKeeps ==
    ASSUME IInv, NEW r \in Req, DeleteCommit(r)
    PROVE  IInv'
<1> DEFINE S == job[r].held
<1>1. S \in SUBSET Sid
  BY DEF IInv, TypeOK, Job
<1>2. LineagesOf(S) \in SUBSET Sid /\ \A f \in LineagesOf(S) : f < nextId
  BY <1>1 DEF IInv, TypeOK, IdsInOrder, DeletionHoldsWholeLineages, DeleteCommit,
              LineagesOf, Sid
<1>3. \A s \in granted \ (revoked \cup S) : lineage[s] \notin LineagesOf(S)
  BY DEF IInv, DeletionHoldsWholeLineages, DeleteCommit, LineagesOf
<1> QED BY <1>1, <1>2, <1>3, SweepKeeps DEF DeleteCommit

LEMMA RevokeSomeKeeps ==
    ASSUME IInv, NEW r \in Req, NEW S \in SUBSET Sid, revoked' = revoked \cup S,
           job' \in [Req -> Job],
           \A q \in Req : job'[q] = job[q] \/ Harmless(job'[q]),
           inflight' \subseteq Proc \X Sid,
           UNCHANGED <<nextId, rows, expired, replacedBy, deviceOf, account, history>>
    PROVE  IInv'
<1>1. /\ \A s \in granted : lineage[s] \in ended' => s \in revoked'
      /\ ended' \subseteq Sid /\ \A f \in ended' : f < nextId
      /\ revoked \subseteq revoked' /\ revoked' \subseteq Sid
      /\ expired' \subseteq Sid
      /\ deviceRevoked' \subseteq Device /\ deleted' \in BOOLEAN
      /\ UNCHANGED <<nextId, rows, replacedBy, deviceOf, granted, lineage>>
  BY DEF IInv, TypeOK, IdsInOrder, SweptLineagesStayDead, account, history
<1> QED BY <1>1, NoNewToken

LEMMA LogoutRevokeKeeps ==
    ASSUME IInv, NEW r \in Req, LogoutRevoke(r)
    PROVE  IInv'
<1>1. job[r].tok \in granted
  BY DEF IInv, TokensWereGranted, LogoutRevoke, TokPc
<1>2. {job[r].tok} \ revoked \in SUBSET Sid /\ inflight' \subseteq Proc \X Sid
  BY <1>1 DEF IInv, TypeOK, LogoutRevoke
<1> QED BY <1>2, FinishTypes, RevokeSomeKeeps DEF LogoutRevoke, RevokeRows

LEMMA DeviceSessionsKeeps ==
    ASSUME IInv, NEW r \in Req, DeviceSessions(r)
    PROVE  IInv'
<1> DEFINE S == {s \in rows \ revoked : deviceOf[s] = job[r].dev}
<1>1. S \in SUBSET Sid /\ inflight' \subseteq Proc \X Sid
  BY DEF IInv, TypeOK, DeviceSessions
<1>2. "device_mark" \in Pc /\ "device_mark" \notin TokPc
      /\ "device_mark" \notin InsertedPc \cup FreshPc \cup {"delete_commit"}
  BY DEF Pc, TokPc, RotatePc, InsertedPc, FreshPc, WalkPc
<1> QED BY <1>1, <1>2, GotoTypes, RevokeSomeKeeps DEF DeviceSessions, RevokeRows

LEMMA WalkCommitKeeps ==
    ASSUME IInv, NEW r \in Req, WalkCommit(r)
    PROVE  IInv'
<1>1. job[r].held \in SUBSET Sid
  BY DEF IInv, TypeOK, Job
<1>2. /\ job' \in [Req -> Job]
      /\ \A q \in Req : job'[q] = job[q] \/ Harmless(job'[q])
      /\ inflight' \subseteq Proc \X Sid
  BY SettleTypes, IdleIsAJob, IdleIsHarmless DEF WalkCommit
<1> QED BY <1>1, <1>2, RevokeSomeKeeps DEF WalkCommit

LEMMA LoginCreateKeeps ==
    ASSUME IInv, NEW r \in Req, LoginCreate(r)
    PROVE  IInv'
<1> DEFINE j == [Idle EXCEPT !.pc = "reply", !.succ = nextId]
<1>1. /\ nextId \in Sid /\ nextId \in Nat /\ nextId' = nextId + 1
      /\ rows' = rows \cup {nextId}
      /\ deviceOf' = [deviceOf EXCEPT ![nextId] = job[r].dev]
      /\ lineage' = [lineage EXCEPT ![nextId] = nextId]
      /\ granted' = granted \cup {nextId}
      /\ job' = [job EXCEPT ![r] = j]
      /\ UNCHANGED <<revoked, expired, replacedBy, account, inflight, ended>>
  BY DEF LoginCreate, InsertRow, Sid
<1>2. job' \in [Req -> Job] /\ job'[r] = j /\ j.pc = "reply"
      /\ \A q \in Req \ {r} : job'[q] = job[q]
  BY <1>1, IdleIsAJob DEF IInv, TypeOK, Job, Pc, Idle
<1>3. nextId \notin rows /\ nextId \notin granted /\ nextId \notin ended
  BY <1>1 DEF IInv, IdsInOrder, GrantedTokensKeepTheirRow
<1>4. lineage' \in [Sid -> Sid] /\ \A s \in Sid : lineage'[s] <= s
  BY <1>1 DEF IInv, TypeOK, IdsInOrder, Sid
<1>5. \A s \in granted : lineage'[s] = lineage[s] /\ lineage'[s] # nextId
  <2>1. \A s \in granted : s \in Sid /\ s < nextId /\ lineage[s] <= s
    BY DEF IInv, TypeOK, IdsInOrder, GrantedTokensKeepTheirRow
  <2> QED BY <1>1, <2>1 DEF IInv, TypeOK, Sid
<1>6. TypeOK'
  <2>1. nextId' \in 1 .. MaxSession + 1
    BY <1>1, CapAssumption DEF Sid
  <2>2. deviceOf' \in [Sid -> Device]
    BY <1>1 DEF IInv, TypeOK, Job
  <2> QED BY <1>1, <1>2, <1>4, <2>1, <2>2 DEF IInv, TypeOK, account
<1>7. IdsInOrder'
  BY <1>1, <1>4 DEF IInv, TypeOK, IdsInOrder, Sid
<1>8. TokensWereGranted' /\ WalkOnARow'
  BY <1>1, <1>2 DEF IInv, TokensWereGranted, WalkOnARow, TokPc, RotatePc, WalkPc, FreshPc
<1>9. InsertedRowsArePrivate'
  <2>1. \A q \in Req : job'[q].pc \in InsertedPc => q # r
    BY <1>2 DEF InsertedPc
  <2>2. \A q \in Req : job'[q].pc \in InsertedPc =>
           job[q].succ \in rows \ granted /\ job[q].tok \in granted
    BY <1>2, <2>1 DEF IInv, InsertedRowsArePrivate, TokensWereGranted, InsertedPc,
                      TokPc, RotatePc
  <2> QED BY <1>1, <1>2, <1>3, <1>5, <2>1, <2>2
      DEF IInv, TypeOK, InsertedRowsArePrivate
<1>10. OnlyRevokedRowsHaveSuccessors'
  BY <1>1 DEF IInv, OnlyRevokedRowsHaveSuccessors
<1>11. DeletionHoldsWholeLineages'
  <2>1. ASSUME NEW q \in Req, job'[q].pc = "delete_commit", NEW x \in job'[q].held
        PROVE  /\ x < nextId' /\ job'[q] = job[q] /\ lineage'[x] = lineage[x]
               /\ lineage'[x] # nextId
    <3>1. q # r /\ job'[q] = job[q]
      BY <1>2, <2>1
    <3>2. x < nextId /\ x \in Sid
      BY <2>1, <3>1 DEF IInv, TypeOK, Job, DeletionHoldsWholeLineages
    <3> QED BY <1>1, <3>1, <3>2 DEF IInv, TypeOK, IdsInOrder, Sid
  <2> QED BY <1>1, <1>5, <2>1 DEF IInv, TypeOK, DeletionHoldsWholeLineages
<1>12. GrantedTokensKeepTheirRow'
  BY <1>1 DEF IInv, GrantedTokensKeepTheirRow
<1>13. SingleLiveToken'
  BY <1>1, <1>5 DEF IInv, TypeOK, SingleLiveToken
<1>14. SweptLineagesStayDead'
  BY <1>1, <1>3, <1>5 DEF IInv, TypeOK, SweptLineagesStayDead
<1> QED BY <1>6, <1>7, <1>8, <1>9, <1>10, <1>11, <1>12, <1>13, <1>14 DEF IInv

LEMMA RotateInsertKeeps ==
    ASSUME IInv, NEW r \in Req, RotateInsert(r)
    PROVE  IInv'
<1> DEFINE t == job[r].tok
<1>1. /\ nextId \in Sid /\ nextId \in Nat /\ nextId' = nextId + 1
      /\ rows' = rows \cup {nextId}
      /\ deviceOf' = [deviceOf EXCEPT ![nextId] = deviceOf[t]]
      /\ lineage' = [lineage EXCEPT ![nextId] = lineage[t]]
      /\ job' = [job EXCEPT ![r].pc = "consume", ![r].succ = nextId]
      /\ UNCHANGED <<revoked, expired, replacedBy, account, inflight, granted, ended>>
  BY DEF RotateInsert, InsertRow, Sid
<1>2. /\ job' \in [Req -> Job] /\ job'[r].pc = "consume" /\ job'[r].succ = nextId
      /\ job'[r].tok = t /\ \A q \in Req \ {r} : job'[q] = job[q]
  <2> DEFINE k == [job[r] EXCEPT !.pc = "consume", !.succ = nextId]
  <2>1. job \in [Req -> Job] /\ job[r] \in Job
    BY DEF IInv, TypeOK
  <2>2. k \in Job /\ k.pc = "consume" /\ k.succ = nextId /\ k.tok = t
    BY <1>1, <2>1 DEF Job, Pc, RotatePc
  <2>3. job' = [job EXCEPT ![r] = k]
    BY <1>1, <2>1 DEF Job
  <2> HIDE DEF k
  <2> QED BY <2>1, <2>2, <2>3
<1>3. nextId \notin rows /\ nextId \notin granted
  BY <1>1 DEF IInv, IdsInOrder, GrantedTokensKeepTheirRow
<1>4. t \in granted /\ t \in Sid /\ t < nextId
  BY DEF IInv, TypeOK, TokensWereGranted, IdsInOrder, GrantedTokensKeepTheirRow,
         RotateInsert, TokPc, RotatePc
<1>5. /\ lineage' \in [Sid -> Sid]
      /\ \A s \in Sid \ {nextId} : lineage'[s] = lineage[s]
      /\ lineage'[nextId] = lineage[t]
  BY <1>1, <1>4 DEF IInv, TypeOK
<1>6. TypeOK'
  <2>1. nextId' \in 1 .. MaxSession + 1
    BY <1>1, CapAssumption DEF Sid
  <2>2. deviceOf' \in [Sid -> Device]
    BY <1>1, <1>4 DEF IInv, TypeOK
  <2> QED BY <1>1, <1>2, <1>5, <2>1, <2>2 DEF IInv, TypeOK, account
<1>7. IdsInOrder'
  <2>1. \A s \in Sid : lineage'[s] <= s
    BY <1>1, <1>4, <1>5 DEF IInv, TypeOK, IdsInOrder, Sid
  <2> QED BY <1>1, <2>1 DEF IInv, TypeOK, IdsInOrder, Sid
<1>8. TokensWereGranted' /\ WalkOnARow'
  BY <1>1, <1>2, <1>4 DEF IInv, TokensWereGranted, WalkOnARow, WalkPc, FreshPc
<1>9. InsertedRowsArePrivate'
  <2>1. \A q \in Req \ {r} : job'[q].pc \in InsertedPc =>
           job[q].succ \in rows \ granted /\ job[q].tok \in granted
    BY <1>2 DEF IInv, InsertedRowsArePrivate, TokensWereGranted, InsertedPc,
                TokPc, RotatePc
  <2> QED BY <1>1, <1>2, <1>3, <1>4, <1>5, <2>1
      DEF IInv, TypeOK, InsertedRowsArePrivate
<1>10. OnlyRevokedRowsHaveSuccessors'
  BY <1>1 DEF IInv, OnlyRevokedRowsHaveSuccessors
<1>11. DeletionHoldsWholeLineages'
  <2>1. ASSUME NEW q \in Req, job'[q].pc = "delete_commit", NEW x \in job'[q].held
        PROVE  x < nextId' /\ job'[q] = job[q] /\ x \in Sid \ {nextId}
    <3>1. q # r /\ job'[q] = job[q]
      BY <1>2, <2>1
    <3>2. x < nextId /\ x \in Sid
      BY <2>1, <3>1 DEF IInv, TypeOK, Job, DeletionHoldsWholeLineages
    <3> QED BY <1>1, <3>1, <3>2 DEF Sid
  <2> QED BY <1>1, <1>3, <1>5, <2>1 DEF IInv, TypeOK, DeletionHoldsWholeLineages
<1>12. GrantedTokensKeepTheirRow' /\ SingleLiveToken' /\ SweptLineagesStayDead'
  BY <1>1, <1>3, <1>5 DEF IInv, TypeOK, GrantedTokensKeepTheirRow, SingleLiveToken,
                          SweptLineagesStayDead
<1> QED BY <1>6, <1>7, <1>8, <1>9, <1>10, <1>11, <1>12 DEF IInv

LEMMA RotateDiscardKeeps ==
    ASSUME IInv, NEW r \in Req, NEW b \in BOOLEAN, RotateDiscard(r, b)
    PROVE  IInv'
<1>1. /\ job' \in [Req -> Job] /\ job'[r] = Idle
      /\ \A q \in Req \ {r} : job'[q] = job[q] \/ job'[q] = Idle
      /\ inflight' \subseteq Proc \X Sid
  BY SettleTypes, IdleIsAJob DEF RotateDiscard
<1>2. \A q \in Req : (job'[q] = job[q] /\ q # r) \/ Harmless(job'[q])
  BY <1>1, IdleIsHarmless
<1>3. rows' \subseteq rows /\ rows \ rows' \subseteq {job[r].succ}
      /\ job[r].succ \notin granted
  BY DEF RotateDiscard, IInv, InsertedRowsArePrivate, InsertedPc
<1>4. UNCHANGED <<nextId, revoked, expired, replacedBy, deviceOf, account, history>>
  BY DEF RotateDiscard
<1>5. TypeOK' /\ IdsInOrder' /\ OnlyRevokedRowsHaveSuccessors'
  BY <1>1, <1>3, <1>4 DEF IInv, TypeOK, IdsInOrder, OnlyRevokedRowsHaveSuccessors,
                          account, history
<1>6. TokensWereGranted' /\ WalkOnARow'
  BY <1>2, <1>4 DEF IInv, TokensWereGranted, WalkOnARow, Harmless, history
<1>7. InsertedRowsArePrivate'
  BY <1>2, <1>3, <1>4 DEF IInv, InsertedRowsArePrivate, Harmless, history,
                          RotateDiscard, InsertedPc
<1>8. DeletionHoldsWholeLineages'
  BY <1>2, <1>4 DEF IInv, DeletionHoldsWholeLineages, Harmless, history
<1>9. GrantedTokensKeepTheirRow' /\ SingleLiveToken' /\ SweptLineagesStayDead'
  BY <1>3, <1>4 DEF IInv, GrantedTokensKeepTheirRow, SingleLiveToken,
                    SweptLineagesStayDead, history
<1> QED BY <1>5, <1>6, <1>7, <1>8, <1>9 DEF IInv

\* The winning consume: token s is spent, and its successor c takes its place.
LEMMA RotateConsumeKeeps ==
    ASSUME IInv, NEW r \in Req, RotateConsume(r), job[r].tok \notin revoked
    PROVE  IInv'
<1> DEFINE s == job[r].tok
           c == job[r].succ
           j == [Idle EXCEPT !.pc = "reply", !.succ = c]
<1>1. /\ job[r].pc = "consume" /\ ~Locked(r, s)
      /\ revoked' = revoked \cup {s}
      /\ replacedBy' = [replacedBy EXCEPT ![s] = c]
      /\ granted' = granted \cup {c}
      /\ Settle(r, j)
      /\ UNCHANGED <<nextId, rows, expired, deviceOf, account, lineage, ended>>
  BY DEF RotateConsume
<1>2. /\ s \in granted /\ s \in Sid /\ s \notin revoked
      /\ c \in rows \ granted /\ c \in Sid /\ lineage[c] = lineage[s]
  BY <1>1 DEF IInv, TypeOK, TokensWereGranted, InsertedRowsArePrivate, InsertedPc,
              TokPc, RotatePc, GrantedTokensKeepTheirRow
<1>3. j \in Job /\ j.pc = "reply"
  BY <1>2, IdleIsAJob DEF Job, Pc, Idle
<1> HIDE DEF j
<1>4. /\ job' \in [Req -> Job] /\ job'[r] = j
      /\ \A q \in Req \ {r} : job'[q] = job[q] \/ job'[q] = Idle
      /\ inflight' \subseteq Proc \X Sid
  BY <1>1, <1>3, SettleTypes
<1>5. \A q \in Req : (job'[q] = job[q] /\ q # r) \/ job'[q].pc \in {"idle", "reply"}
  BY <1>3, <1>4 DEF Idle
<1>6. TypeOK'
  BY <1>1, <1>2, <1>4 DEF IInv, TypeOK, account
<1>7. IdsInOrder'
  BY <1>1 DEF IInv, IdsInOrder
<1>8. TokensWereGranted' /\ WalkOnARow'
  BY <1>1, <1>5 DEF IInv, TokensWereGranted, WalkOnARow, TokPc, RotatePc, WalkPc, FreshPc
<1>9. InsertedRowsArePrivate'
  BY <1>1, <1>5 DEF IInv, InsertedRowsArePrivate, InsertedPc
<1>10. OnlyRevokedRowsHaveSuccessors'
  BY <1>1, <1>2 DEF IInv, TypeOK, OnlyRevokedRowsHaveSuccessors
<1>11. DeletionHoldsWholeLineages'
  <2>1. ASSUME NEW q \in Req, job'[q].pc = "delete_commit", NEW x \in job'[q].held,
               NEW t \in granted' \ revoked', lineage'[t] = lineage'[x]
        PROVE  t \in job'[q].held
    <3>1. q # r /\ job'[q] = job[q]
      BY <1>5, <2>1
    <3>2. s \notin job[q].held
      BY <1>1, <3>1 DEF Locked
    <3>3. lineage[s] # lineage[x]
      BY <1>2, <2>1, <3>1, <3>2 DEF IInv, DeletionHoldsWholeLineages
    <3>4. t # c
      BY <1>1, <1>2, <2>1, <3>3
    <3> QED BY <1>1, <2>1, <3>1, <3>4 DEF IInv, DeletionHoldsWholeLineages
  <2>2. ASSUME NEW q \in Req, job'[q].pc = "delete_commit", NEW x \in job'[q].held
        PROVE  x < nextId'
    BY <1>1, <1>5, <2>2 DEF IInv, DeletionHoldsWholeLineages
  <2> QED BY <2>1, <2>2 DEF DeletionHoldsWholeLineages
<1>12. GrantedTokensKeepTheirRow'
  BY <1>1, <1>2 DEF IInv, GrantedTokensKeepTheirRow
<1>13. SingleLiveToken'
  BY <1>1, <1>2 DEF IInv, SingleLiveToken
<1>14. SweptLineagesStayDead'
  BY <1>1, <1>2 DEF IInv, SweptLineagesStayDead
<1> QED BY <1>6, <1>7, <1>8, <1>9, <1>10, <1>11, <1>12, <1>13, <1>14 DEF IInv

\* The losing consume only moves on to the clean-up of its own row.
LEMMA RotateLoseKeeps ==
    ASSUME IInv, NEW r \in Req, RotateConsume(r), job[r].tok \in revoked
    PROVE  IInv'
<1> DEFINE k == [job[r] EXCEPT !.pc = "discard"]
<1>1. /\ job[r].pc = "consume" /\ Goto(r, "discard")
      /\ UNCHANGED <<table, account, inflight, history>>
  BY DEF RotateConsume, table, history
<1>2. job \in [Req -> Job] /\ job[r] \in Job
  BY DEF IInv, TypeOK
<1>3. /\ k \in Job /\ k.pc = "discard" /\ k.tok = job[r].tok
      /\ k.succ = job[r].succ /\ k.held = job[r].held
  BY <1>2 DEF Job, Pc, RotatePc
<1> HIDE DEF k
<1>4. /\ job' \in [Req -> Job] /\ job'[r] = k
      /\ \A q \in Req \ {r} : job'[q] = job[q]
  BY <1>1, <1>2, <1>3 DEF Goto, k
<1>5. UNCHANGED <<nextId, rows, revoked, expired, replacedBy, deviceOf>>
      /\ UNCHANGED <<deviceRevoked, deleted, inflight, granted, lineage, ended>>
  BY <1>1 DEF table, account, history
<1>6. TypeOK' /\ IdsInOrder'
  BY <1>4, <1>5 DEF IInv, TypeOK, IdsInOrder
<1>7. TokensWereGranted' /\ WalkOnARow'
  BY <1>1, <1>3, <1>4, <1>5 DEF IInv, TokensWereGranted, WalkOnARow, TokPc, RotatePc, WalkPc, FreshPc
<1>8. InsertedRowsArePrivate'
  BY <1>1, <1>3, <1>4, <1>5 DEF IInv, InsertedRowsArePrivate, InsertedPc
<1>9. OnlyRevokedRowsHaveSuccessors' /\ DeletionHoldsWholeLineages'
  BY <1>3, <1>4, <1>5 DEF IInv, OnlyRevokedRowsHaveSuccessors, DeletionHoldsWholeLineages
<1>10. GrantedTokensKeepTheirRow' /\ SingleLiveToken' /\ SweptLineagesStayDead'
  BY <1>5 DEF IInv, GrantedTokensKeepTheirRow, SingleLiveToken, SweptLineagesStayDead
<1> QED BY <1>6, <1>7, <1>8, <1>9, <1>10 DEF IInv

LEMMA DeleteSweepKeeps ==
    ASSUME IInv, NEW r \in Req, DeleteSweep(r)
    PROVE  IInv'
<1> DEFINE k == [job[r] EXCEPT !.pc = "delete_commit", !.held = rows \ revoked]
<1>1. job \in [Req -> Job] /\ job[r] \in Job
  BY DEF IInv, TypeOK
<1>2. k \in Job /\ k.pc = "delete_commit" /\ k.held = rows \ revoked
  BY <1>1 DEF IInv, TypeOK, Job, Pc
<1>3. job' = [job EXCEPT ![r] = k]
  BY <1>1 DEF DeleteSweep, Job
<1> HIDE DEF k
<1>4. /\ job' \in [Req -> Job] /\ job'[r] = k
      /\ \A q \in Req \ {r} : job'[q] = job[q]
  BY <1>1, <1>2, <1>3
<1>5. UNCHANGED <<nextId, rows, revoked, expired, replacedBy, deviceOf>>
      /\ UNCHANGED <<deviceRevoked, deleted, inflight, granted, lineage, ended>>
  BY DEF DeleteSweep, table, account, history
<1>6. TypeOK' /\ IdsInOrder'
  BY <1>4, <1>5 DEF IInv, TypeOK, IdsInOrder
<1>7. TokensWereGranted' /\ WalkOnARow' /\ InsertedRowsArePrivate'
  BY <1>2, <1>4, <1>5 DEF IInv, TokensWereGranted, WalkOnARow, InsertedRowsArePrivate,
                          InsertedPc, TokPc, RotatePc, WalkPc, FreshPc
<1>8. DeletionHoldsWholeLineages'
  BY <1>2, <1>4, <1>5 DEF IInv, DeletionHoldsWholeLineages, GrantedTokensKeepTheirRow,
                          IdsInOrder
<1>9. /\ OnlyRevokedRowsHaveSuccessors' /\ GrantedTokensKeepTheirRow'
      /\ SingleLiveToken' /\ SweptLineagesStayDead'
  BY <1>5 DEF IInv, OnlyRevokedRowsHaveSuccessors, GrantedTokensKeepTheirRow,
              SingleLiveToken, SweptLineagesStayDead
<1> QED BY <1>6, <1>7, <1>8, <1>9 DEF IInv

LEMMA RotateReadKeeps ==
    ASSUME IInv, NEW r \in Req, RotateRead(r)
    PROVE  IInv'
<1>1. job \in [Req -> Job] /\ job[r] \in Job /\ inflight \subseteq Proc \X Sid
  BY DEF IInv, TypeOK
<1>2. job[r].pc = "read" /\ job[r].tok \in granted /\ job[r].tok \in Sid
  BY DEF IInv, TypeOK, TokensWereGranted, RotateRead, TokPc, RotatePc
<1>3. CASE job' = [job EXCEPT ![r].pc = "walk_read", ![r].at = job[r].tok]
           /\ UNCHANGED inflight
  <2> DEFINE k == [job[r] EXCEPT !.pc = "walk_read", !.at = job[r].tok]
  <2>1. k \in Job /\ Harmless(k)
    BY <1>1, <1>2 DEF IInv, WalkOnARow, Job, Pc, RotatePc, Harmless, InsertedPc,
                      WalkPc, FreshPc
  <2>2. job' = [job EXCEPT ![r] = k]
    BY <1>1, <1>3 DEF Job
  <2> HIDE DEF k
  <2> QED BY <1>1, <1>3, <2>1, <2>2, JobsOnly DEF RotateRead
<1>4. CASE Settle(r, Idle)
  BY <1>4, SettleTypes, IdleIsAJob, IdleIsHarmless, JobsOnly DEF RotateRead
<1>5. CASE Goto(r, "insert") /\ UNCHANGED inflight
  <2>1. "insert" \in Pc /\ "insert" \notin InsertedPc \cup FreshPc \cup {"delete_commit"}
    BY DEF Pc, RotatePc, InsertedPc, FreshPc, WalkPc
  <2> QED BY <1>1, <1>2, <1>5, <2>1, GotoTypes, JobsOnly DEF RotateRead
<1> QED BY <1>3, <1>4, <1>5 DEF RotateRead

LEMMA RotateEnterKeeps ==
    ASSUME IInv, NEW r \in Req, RotateEnter(r)
    PROVE  IInv'
<1>1. job \in [Req -> Job] /\ job[r] \in Job /\ inflight \subseteq Proc \X Sid
  BY DEF IInv, TypeOK
<1>2. job[r].pc = "rotate" /\ job[r].tok \in granted /\ job[r].tok \in Sid
      /\ job[r].hops < WalkCap
  BY DEF IInv, TypeOK, TokensWereGranted, WalkOnARow, RotateEnter, TokPc, FreshPc
<1>3. ASSUME NEW pc \in {"join", "read"}
      PROVE  [job[r] EXCEPT !.pc = pc] \in Job /\ Harmless([job[r] EXCEPT !.pc = pc])
  BY <1>1, <1>2 DEF Job, Pc, RotatePc, Harmless, InsertedPc, TokPc, WalkPc, FreshPc
<1>4. PICK pc \in {"join", "read"} : Goto(r, pc)
  BY DEF RotateEnter
<1>5. /\ job' \in [Req -> Job]
      /\ \A q \in Req : job'[q] = job[q] \/ Harmless(job'[q])
  BY <1>1, <1>3, <1>4 DEF Goto
<1>6. inflight' \subseteq Proc \X Sid
  BY <1>1, <1>2 DEF RotateEnter, Job
<1> QED BY <1>5, <1>6, JobsOnly DEF RotateEnter

LEMMA WalkReadKeeps ==
    ASSUME IInv, NEW r \in Req, WalkRead(r)
    PROVE  IInv'
<1> DEFINE s == job[r].at
           pc == IF s \in rows THEN "walk_write" ELSE "walk_commit"
           k == [job[r] EXCEPT !.pc = pc, !.succ = replacedBy[s]]
<1>1. job \in [Req -> Job] /\ job[r] \in Job
  BY DEF IInv, TypeOK
<1>2. /\ job[r].pc = "walk_read" /\ s \in Sid /\ job[r].hops < WalkCap
      /\ job[r].tok \in granted /\ replacedBy[s] \in Sid \cup {NoRow}
  BY DEF IInv, TypeOK, TokensWereGranted, WalkOnARow, WalkRead, WalkPc, FreshPc,
         TokPc, RotatePc
<1>3. k \in Job /\ Harmless(k)
  BY <1>1, <1>2 DEF Job, Pc, RotatePc, Harmless, InsertedPc
<1>4. job' = [job EXCEPT ![r] = k]
  BY <1>1 DEF WalkRead, Job
<1> HIDE DEF k
<1>5. inflight' \subseteq Proc \X Sid
  BY DEF IInv, TypeOK, WalkRead
<1> QED BY <1>1, <1>3, <1>4, <1>5, JobsOnly DEF WalkRead

LEMMA WalkWriteKeeps ==
    ASSUME IInv, NEW r \in Req, WalkWrite(r)
    PROVE  IInv'
<1> DEFINE s == job[r].at
           more == job[r].succ # NoRow /\ job[r].hops + 1 < WalkCap
           pc == IF more THEN "walk_read" ELSE "walk_commit"
           k == [job[r] EXCEPT !.held = @ \cup ({s} \ revoked), !.at = job[r].succ,
                               !.hops = job[r].hops + 1, !.pc = pc]
<1>1. job \in [Req -> Job] /\ job[r] \in Job
  BY DEF IInv, TypeOK
<1>2. /\ job[r].pc = "walk_write" /\ s \in Sid /\ job[r].hops < WalkCap
      /\ job[r].tok \in granted
  BY DEF IInv, TypeOK, TokensWereGranted, WalkOnARow, WalkWrite, WalkPc, FreshPc,
         TokPc, RotatePc
<1>3. job[r].hops + 1 \in 0 .. WalkCap
  BY <1>1, <1>2, CapAssumption DEF Job
<1>4. k \in Job
  BY <1>1, <1>2, <1>3 DEF Job, Pc, RotatePc
<1>5. Harmless(k)
  <2>1. /\ k.pc = pc /\ k.tok = job[r].tok /\ k.at = job[r].succ
        /\ k.hops = job[r].hops + 1
    BY <1>1 DEF Job
  <2>2. job[r].succ \in Sid \cup {NoRow}
    BY <1>1 DEF Job
  <2> HIDE DEF k
  <2> QED BY <1>2, <2>1, <2>2 DEF Harmless, InsertedPc, WalkPc, FreshPc
<1>6. job' = [job EXCEPT ![r] = k]
  BY <1>1 DEF WalkWrite, Job
<1> HIDE DEF k
<1>7. inflight' \subseteq Proc \X Sid
  BY DEF IInv, TypeOK, WalkWrite
<1>8. UNCHANGED <<table, account, history>>
  BY DEF WalkWrite
<1>9. /\ job' \in [Req -> Job]
      /\ \A q \in Req : job'[q] = job[q] \/ Harmless(job'[q])
  BY <1>1, <1>4, <1>5, <1>6
<1> QED BY <1>7, <1>8, <1>9, JobsOnly

LEMMA PasswordUpdateKeeps ==
    ASSUME IInv, NEW r \in Req, PasswordUpdate(r)
    PROVE  IInv'
<1>1. inflight' \subseteq Proc \X Sid
  BY DEF IInv, TypeOK, PasswordUpdate
<1>2. CASE job[r].pc = "change_update"
  <2>1. job[r].tok \in granted /\ Goto(r, "change_sweep")
    BY <1>2 DEF IInv, TokensWereGranted, TokPc, PasswordUpdate
  <2>2. "change_sweep" \in Pc
        /\ "change_sweep" \notin InsertedPc \cup FreshPc \cup {"delete_commit"}
    BY DEF Pc, InsertedPc, FreshPc, WalkPc
  <2> QED BY <1>1, <2>1, <2>2, GotoTypes, JobsOnly DEF PasswordUpdate
<1>3. CASE job[r].pc = "reset_update"
  <2>1. Goto(r, "reset_sweep")
    BY <1>3 DEF PasswordUpdate
  <2>2. "reset_sweep" \in Pc /\ "reset_sweep" \notin TokPc
        /\ "reset_sweep" \notin InsertedPc \cup FreshPc \cup {"delete_commit"}
    BY DEF Pc, InsertedPc, FreshPc, WalkPc, TokPc, RotatePc
  <2> QED BY <1>1, <2>1, <2>2, GotoTypes, JobsOnly DEF PasswordUpdate
<1> QED BY <1>2, <1>3 DEF PasswordUpdate

LEMMA DeviceMarkKeeps ==
    ASSUME IInv, NEW r \in Req, DeviceMark(r)
    PROVE  IInv'
<1>1. deviceRevoked' \subseteq Device /\ deleted' \in BOOLEAN
  BY DEF IInv, TypeOK, DeviceMark, Job
<1>2. UNCHANGED <<nextId, rows, revoked, expired, replacedBy, deviceOf, inflight,
                  granted, lineage, ended>>
  BY DEF DeviceMark, table, history
<1>3. /\ revoked' \subseteq Sid /\ expired' \subseteq Sid /\ ended' \subseteq Sid
      /\ \A f \in ended' : f < nextId
      /\ \A s \in granted : lineage[s] \in ended' => s \in revoked'
      /\ inflight' \subseteq Proc \X Sid
  BY <1>2 DEF IInv, TypeOK, IdsInOrder, SweptLineagesStayDead
<1>4. Finish(r)
  BY DEF DeviceMark
<1> QED BY <1>1, <1>2, <1>3, <1>4, FinishTypes, NoNewToken

LEMMA ExpireKeeps ==
    ASSUME IInv, NEW s \in Sid, Expire(s)
    PROVE  IInv'
<1>1. UNCHANGED <<nextId, rows, revoked, replacedBy, deviceOf, deviceRevoked, deleted,
                  inflight, job, granted, lineage, ended>>
  BY DEF Expire, account, history
<1>2. /\ expired' \subseteq Sid /\ revoked' \subseteq Sid /\ ended' \subseteq Sid
      /\ deviceRevoked' \subseteq Device /\ deleted' \in BOOLEAN
      /\ \A f \in ended' : f < nextId
      /\ \A x \in granted : lineage[x] \in ended' => x \in revoked'
      /\ inflight' \subseteq Proc \X Sid /\ job' \in [Req -> Job]
  BY <1>1 DEF IInv, TypeOK, IdsInOrder, SweptLineagesStayDead, Expire
<1> QED BY <1>1, <1>2, NoNewToken

LEMMA AbortKeeps ==
    ASSUME IInv, NEW r \in Req, Abort(r)
    PROVE  IInv'
<1>1. UNCHANGED <<table, account, history>>
  BY DEF Abort
<1>2. /\ job' \in [Req -> Job]
      /\ \A q \in Req : job'[q] = job[q] \/ Harmless(job'[q])
      /\ inflight' \subseteq Proc \X Sid
  <2>1. CASE Settle(r, Idle)
    BY <2>1, SettleTypes, IdleIsAJob, IdleIsHarmless
  <2>2. CASE Finish(r) /\ UNCHANGED inflight
    BY <2>2, FinishTypes DEF IInv, TypeOK
  <2> QED BY <2>1, <2>2 DEF Abort
<1> QED BY <1>1, <1>2, JobsOnly

LEMMA ReplyKeeps ==
    ASSUME IInv, NEW r \in Req, Reply(r)
    PROVE  IInv'
<1>1. inflight' \subseteq Proc \X Sid
  BY DEF IInv, TypeOK, Reply
<1> QED BY <1>1, FinishTypes, JobsOnly DEF Reply

\* Requests start in a state that asks nothing of the table.
LEMMA ArriveKeeps ==
    ASSUME IInv, NEW r \in Req, Arrive(r)
    PROVE  IInv'
<1> USE IdleIsAJob, CapAssumption
    DEF Harmless, InsertedPc, TokPc, RotatePc, WalkPc, FreshPc, Idle, Pc
<1>1. ASSUME NEW d \in Device, LoginVerify(r, d)
      PROVE  IInv'
  <2>1. [Idle EXCEPT !.pc = "create", !.dev = d] \in Job
    BY DEF Job
  <2>2. Harmless([Idle EXCEPT !.pc = "create", !.dev = d])
    OBVIOUS
  <2> QED BY <1>1, <2>1, <2>2, StartKeeps DEF LoginVerify
<1>2. ASSUME ResetPassword(r)
      PROVE  IInv'
  <2>1. [Idle EXCEPT !.pc = "reset_update"] \in Job
    BY DEF Job
  <2>2. Harmless([Idle EXCEPT !.pc = "reset_update"])
    OBVIOUS
  <2> QED BY <1>2, <2>1, <2>2, StartKeeps DEF ResetPassword
<1>3. ASSUME NEW s \in Sid, NEW p \in Proc, RefreshFind(r, s, p)
      PROVE  IInv'
  <2>1. [Idle EXCEPT !.pc = "rotate", !.tok = s, !.home = p] \in Job
    BY DEF Job
  <2>2. s \in granted
    BY <1>3 DEF RefreshFind, Issued
  <2>3. Harmless([Idle EXCEPT !.pc = "rotate", !.tok = s, !.home = p])
    BY <2>2
  <2> QED BY <1>3, <2>1, <2>3, StartKeeps DEF RefreshFind
<1>4. ASSUME NEW s \in Sid,
             NEW pc \in {"logout", "change_update"},
             Authenticate(r, s, [Idle EXCEPT !.pc = pc, !.tok = s])
      PROVE  IInv'
  <2>1. [Idle EXCEPT !.pc = pc, !.tok = s] \in Job
    BY DEF Job
  <2>2. s \in granted
    BY <1>4 DEF Authenticate, Issued
  <2>3. Harmless([Idle EXCEPT !.pc = pc, !.tok = s])
    BY <2>2
  <2> QED BY <1>4, <2>1, <2>3, StartKeeps DEF Authenticate
<1>5. ASSUME NEW s \in Sid,
             NEW pc \in {"logout_all", "delete_sweep"},
             Authenticate(r, s, [Idle EXCEPT !.pc = pc])
      PROVE  IInv'
  <2>1. [Idle EXCEPT !.pc = pc] \in Job
    BY DEF Job
  <2>2. Harmless([Idle EXCEPT !.pc = pc])
    OBVIOUS
  <2> QED BY <1>5, <2>1, <2>2, StartKeeps DEF Authenticate
<1>6. ASSUME NEW s \in Sid, NEW d \in Device, RevokeDevice(r, s, d)
      PROVE  IInv'
  <2>1. [Idle EXCEPT !.pc = "device_sessions", !.dev = d] \in Job
    BY DEF Job
  <2>2. Harmless([Idle EXCEPT !.pc = "device_sessions", !.dev = d])
    OBVIOUS
  <2> QED BY <1>6, <2>1, <2>2, StartKeeps DEF RevokeDevice, Authenticate
<1> QED BY <1>1, <1>2, <1>3, <1>4, <1>5, <1>6
        DEF Arrive, Logout, LogoutAll, ChangePassword, DeleteAccount

-----------------------------------------------------------------------------
(* The invariant is inductive.                                             *)

LEMMA InitHolds == Init => IInv
<1> SUFFICES ASSUME Init PROVE IInv
  OBVIOUS
<1>1. TypeOK
  <2>1. SomeDevice \in Device
    BY NonEmptyAssumption DEF SomeDevice
  <2>2. nextId \in 1 .. MaxSession + 1
    BY CapAssumption DEF Init
  <2>3. job \in [Req -> Job]
    BY IdleIsAJob DEF Init
  <2> QED BY <2>1, <2>2, <2>3 DEF Init, TypeOK
<1>2. \A r \in Req : job[r].pc = "idle"
  BY DEF Init, Idle
<1> QED BY <1>1, <1>2
    DEF Init, IInv, IdsInOrder, TokensWereGranted, WalkOnARow, InsertedRowsArePrivate,
        OnlyRevokedRowsHaveSuccessors, DeletionHoldsWholeLineages,
        GrantedTokensKeepTheirRow, SingleLiveToken, SweptLineagesStayDead,
        TokPc, RotatePc, WalkPc, FreshPc, InsertedPc, Sid

LEMMA NextKeeps == IInv /\ [Next]_vars => IInv'
<1> SUFFICES ASSUME IInv, [Next]_vars PROVE IInv'
  OBVIOUS
<1>1. ASSUME NEW r \in Req, RotateStep(r) PROVE IInv'
  <2>1. RotateConsume(r) => IInv'
    BY RotateConsumeKeeps, RotateLoseKeeps
  <2> QED BY <1>1, <2>1, RotateEnterKeeps, RotateReadKeeps, RotateInsertKeeps,
             RotateDiscardKeeps, WalkReadKeeps, WalkWriteKeeps, WalkCommitKeeps
          DEF RotateStep
<1>2. ASSUME NEW r \in Req, RevokeStep(r) PROVE IInv'
  BY <1>2, LogoutRevokeKeeps, SweepAllKeeps, DeviceSessionsKeeps, DeviceMarkKeeps,
     PasswordUpdateKeeps, SweepOthersKeeps, DeleteSweepKeeps, DeleteCommitKeeps
     DEF RevokeStep
<1>3. ASSUME NEW r \in Req, Step(r) PROVE IInv'
  BY <1>1, <1>2, <1>3, LoginCreateKeeps, ReplyKeeps, AbortKeeps DEF Step, OutOfIds
<1>4. ASSUME UNCHANGED vars PROVE IInv'
  <2>1. inflight' \subseteq Proc \X Sid /\ job' \in [Req -> Job] /\ job' = job
    BY <1>4 DEF vars, IInv, TypeOK
  <2> QED BY <1>4, <2>1, JobsOnly DEF vars
<1> QED BY <1>3, <1>4, ArriveKeeps, AbortKeeps, ExpireKeeps DEF Next

LEMMA Inductive == Spec => []IInv
<1>1. Init => IInv
  BY InitHolds
<1>2. IInv /\ [Next]_vars => IInv'
  BY NextKeeps
<1> QED BY <1>1, <1>2, PTL DEF Spec

-----------------------------------------------------------------------------
(* The theorems.                                                           *)

\* Every variable of the session model keeps its type (sessions.ts, auth.ts).
THEOREM TypeCorrect == Spec => []TypeOK
<1>1. IInv => TypeOK
  BY DEF IInv
<1> QED BY <1>1, Inductive, PTL

\* However many requests and processes race in rotateSession, at most one
\* token handed out for a sign-in is unrevoked: a session never forks.
THEOREM SessionsNeverFork == Spec => []SingleLiveToken
<1>1. IInv => SingleLiveToken
  BY DEF IInv
<1> QED BY <1>1, Inductive, PTL

\* After revokeAllSessions, revokeOtherSessions or the deletion transaction
\* has covered a sign-in, none of its tokens is ever live again, even though
\* a rotation that had read the token before the sweep may still be running.
THEOREM SweepsAreFinal == Spec => []SweptLineagesStayDead
<1>1. IInv => SweptLineagesStayDead
  BY DEF IInv
<1> QED BY <1>1, Inductive, PTL

\* doRotate's clean-up never deletes the row of a token a client was given.
THEOREM CleanUpSparesGranted == Spec => []GrantedTokensKeepTheirRow
<1>1. IInv => GrantedTokensKeepTheirRow
  BY DEF IInv
<1> QED BY <1>1, Inductive, PTL

\* No statement of sessions.ts clears revokedAt or rewrites replacedById.
THEOREM RevocationNeverUndone == Spec => RevocationIsFinal
<1> DEFINE A == /\ revoked \subseteq revoked'
                /\ \A s \in Sid : replacedBy[s] # NoRow => replacedBy'[s] = replacedBy[s]
<1>1. IInv /\ [Next]_vars => [A]_vars
  <2> SUFFICES ASSUME IInv, Next PROVE A
    BY DEF vars
  <2>1. ASSUME NEW r \in Req, RotateConsume(r) PROVE A
    <3>1. CASE job[r].tok \notin revoked
      BY <2>1, <3>1 DEF IInv, TypeOK, OnlyRevokedRowsHaveSuccessors, RotateConsume
    <3>2. CASE job[r].tok \in revoked
      BY <2>1, <3>2 DEF RotateConsume
    <3> QED BY <3>1, <3>2
  <2>2. ASSUME NEW r \in Req, RotateStep(r) PROVE A
    BY <2>1, <2>2 DEF RotateStep, RotateEnter, RotateRead, RotateInsert, InsertRow,
                      RotateDiscard, WalkRead, WalkWrite, WalkCommit, table
  <2>3. ASSUME NEW r \in Req, RevokeStep(r) PROVE A
    BY <2>3 DEF RevokeStep, LogoutRevoke, SweepAll, DeviceSessions, DeviceMark,
                PasswordUpdate, SweepOthers, DeleteSweep, DeleteCommit, RevokeRows, table
  <2>4. ASSUME NEW r \in Req, Step(r) PROVE A
    BY <2>2, <2>3, <2>4 DEF Step, LoginCreate, InsertRow, Reply, OutOfIds, Abort, table
  <2>5. ASSUME NEW r \in Req, Arrive(r) PROVE A
    BY <2>5 DEF Arrive, LoginVerify, ResetPassword, RefreshFind, Logout, LogoutAll,
                ChangePassword, DeleteAccount, RevokeDevice, Authenticate, table
  <2> QED BY <2>4, <2>5 DEF Next, Abort, Expire, table
<1> QED BY <1>1, Inductive, PTL DEF Spec, RevocationIsFinal

-----------------------------------------------------------------------------
(* The in-flight map.                                                      *)

\* k rotates exactly if j does, and then the same token in the same process.
SameRotation(j, k) ==
    /\ j.pc \in RotatePc <=> k.pc \in RotatePc
    /\ j.pc \in RotatePc => k.home = j.home /\ k.tok = j.tok

LEMMA RotationsGoOn ==
    ASSUME OneRotationPerProcess, \A q \in Req : SameRotation(job[q], job'[q]),
           UNCHANGED inflight
    PROVE  OneRotationPerProcess'
<1>1. {q \in Req : job'[q].pc \in RotatePc} = {q \in Req : job[q].pc \in RotatePc}
  BY DEF SameRotation
<1>2. \A q \in Req : job[q].pc \in RotatePc =>
         job'[q].home = job[q].home /\ job'[q].tok = job[q].tok
  BY DEF SameRotation
<1> QED BY <1>1, <1>2 DEF OneRotationPerProcess

LEMMA OnlyOneMoves ==
    ASSUME IInv, OneRotationPerProcess, NEW r \in Req, NEW k,
           job' = [job EXCEPT ![r] = k], SameRotation(job[r], k), UNCHANGED inflight
    PROVE  OneRotationPerProcess'
<1>1. \A q \in Req : SameRotation(job[q], job'[q])
  BY DEF IInv, TypeOK, SameRotation
<1> QED BY <1>1, RotationsGoOn

LEMMA GotoRotates ==
    ASSUME IInv, OneRotationPerProcess, NEW r \in Req, NEW pc,
           job[r].pc \in RotatePc <=> pc \in RotatePc, Goto(r, pc), UNCHANGED inflight
    PROVE  OneRotationPerProcess'
<1> DEFINE k == [job[r] EXCEPT !.pc = pc]
<1>1. job \in [Req -> Job] /\ job[r] \in Job
  BY DEF IInv, TypeOK
<1>2. job' = [job EXCEPT ![r] = k]
  BY <1>1 DEF Goto
<1>3. SameRotation(job[r], k)
  BY <1>1 DEF SameRotation, Job
<1> HIDE DEF k
<1> QED BY <1>2, <1>3, OnlyOneMoves

LEMMA QuietStartRotates ==
    ASSUME IInv, OneRotationPerProcess, NEW r \in Req, NEW j, j.pc \notin RotatePc,
           Start(r, j), UNCHANGED inflight
    PROVE  OneRotationPerProcess'
<1>1. SameRotation(job[r], j)
  BY DEF Start, SameRotation, RotatePc
<1> QED BY <1>1, OnlyOneMoves DEF Start

LEMMA FinishRotates ==
    ASSUME IInv, OneRotationPerProcess, NEW r \in Req, job[r].pc \notin RotatePc,
           Finish(r), UNCHANGED inflight
    PROVE  OneRotationPerProcess'
<1>1. SameRotation(job[r], Idle)
  BY DEF SameRotation, RotatePc, Idle
<1> QED BY <1>1, OnlyOneMoves DEF Finish

\* The promise of a rotation settles: its entry goes with it, and no other
\* rotation had the same one.
LEMMA SettleRotates ==
    ASSUME IInv, OneRotationPerProcess, NEW r \in Req, job[r].pc \in RotatePc,
           NEW j, j.pc \notin RotatePc, Settle(r, j)
    PROVE  OneRotationPerProcess'
<1>1. job'[r] = j
  BY DEF Settle
<1>2. Idle.pc \notin RotatePc /\ "join" \notin RotatePc
  BY DEF Idle, RotatePc
<1>3. \A q \in Req \ {r} : \/ job'[q] = job[q]
                           \/ job'[q] = Idle /\ job[q].pc = "join"
  BY DEF Settle, Joiners
<1>4. ASSUME NEW q \in Req, job'[q].pc \in RotatePc
      PROVE  q # r /\ job'[q] = job[q] /\ job[q].pc \in RotatePc
  <2>1. q # r
    BY <1>1, <1>4
  <2> QED BY <1>2, <1>3, <1>4, <2>1
<1>5. ASSUME NEW q \in Req \ {r}, job[q].pc \in RotatePc
      PROVE  job'[q] = job[q]
  BY <1>2, <1>3, <1>5
<1>6. \A q \in Req \ {r} : job[q].pc \in RotatePc =>
         <<job[q].home, job[q].tok>> # <<job[r].home, job[r].tok>>
  BY DEF OneRotationPerProcess
<1>7. inflight' = {<<job'[q].home, job'[q].tok>> : q \in {x \in Req : job'[x].pc \in RotatePc}}
  <2>1. inflight' = inflight \ {<<job[r].home, job[r].tok>>}
    BY DEF Settle
  <2>2. inflight = {<<job[q].home, job[q].tok>> : q \in {x \in Req : job[x].pc \in RotatePc}}
    BY DEF OneRotationPerProcess
  <2>3. ASSUME NEW e \in inflight'
        PROVE  \E q \in Req : job'[q].pc \in RotatePc /\ e = <<job'[q].home, job'[q].tok>>
    <3>1. PICK q \in Req : job[q].pc \in RotatePc /\ e = <<job[q].home, job[q].tok>>
      BY <2>1, <2>2, <2>3
    <3>2. q # r
      BY <2>1, <2>3, <3>1
    <3> QED BY <1>5, <3>1, <3>2
  <2>4. ASSUME NEW q \in Req, job'[q].pc \in RotatePc
        PROVE  <<job'[q].home, job'[q].tok>> \in inflight'
    <3>1. <<job[q].home, job[q].tok>> \in inflight
      BY <1>4, <2>2, <2>4
    <3> QED BY <1>4, <1>6, <2>1, <2>4, <3>1
  <2> QED BY <2>3, <2>4
<1>8. \A q, t \in Req :
         (/\ job'[q].pc \in RotatePc /\ job'[t].pc \in RotatePc
          /\ job'[q].home = job'[t].home /\ job'[q].tok = job'[t].tok) => q = t
  BY <1>4 DEF OneRotationPerProcess
<1> QED BY <1>7, <1>8 DEF OneRotationPerProcess

\* A rotation starts only when the map has no entry for its token.
LEMMA EnterRotates ==
    ASSUME IInv, OneRotationPerProcess, NEW r \in Req, RotateEnter(r)
    PROVE  OneRotationPerProcess'
<1>1. job \in [Req -> Job] /\ job[r] \in Job /\ job[r].pc = "rotate"
  BY DEF IInv, TypeOK, RotateEnter
<1>2. CASE <<job[r].home, job[r].tok>> \in inflight
  <2>1. Goto(r, "join") /\ UNCHANGED inflight
    BY <1>2 DEF RotateEnter
  <2> QED BY <1>1, <2>1, GotoRotates DEF RotatePc
<1>3. CASE <<job[r].home, job[r].tok>> \notin inflight
  <2>1. Goto(r, "read") /\ inflight' = inflight \cup {<<job[r].home, job[r].tok>>}
    BY <1>3 DEF RotateEnter
  <2>2. /\ job'[r].pc = "read" /\ job'[r].home = job[r].home /\ job'[r].tok = job[r].tok
        /\ \A q \in Req \ {r} : job'[q] = job[q]
    BY <1>1, <2>1 DEF Goto, Job
  <2>3. "read" \in RotatePc /\ "rotate" \notin RotatePc
    BY DEF RotatePc
  <2>4. {q \in Req : job'[q].pc \in RotatePc} = {q \in Req : job[q].pc \in RotatePc} \cup {r}
    BY <1>1, <2>2, <2>3
  <2>5. \A q \in Req : job[q].pc \in RotatePc =>
           q # r /\ <<job[q].home, job[q].tok>> # <<job[r].home, job[r].tok>>
    BY <1>1, <1>3, <2>3 DEF OneRotationPerProcess
  <2>6. inflight' = {<<job'[q].home, job'[q].tok>> :
                        q \in {x \in Req : job'[x].pc \in RotatePc}}
    BY <2>1, <2>2, <2>4, <2>5 DEF OneRotationPerProcess
  <2>7. \A q, t \in Req :
           (/\ job'[q].pc \in RotatePc /\ job'[t].pc \in RotatePc
            /\ job'[q].home = job'[t].home /\ job'[q].tok = job'[t].tok) => q = t
    BY <2>2, <2>4, <2>5 DEF OneRotationPerProcess
  <2> QED BY <2>6, <2>7 DEF OneRotationPerProcess
<1> QED BY <1>2, <1>3

LEMMA RotateStepRotates ==
    ASSUME IInv, OneRotationPerProcess, NEW r \in Req, RotateStep(r)
    PROVE  OneRotationPerProcess'
<1>1. job \in [Req -> Job] /\ job[r] \in Job
  BY DEF IInv, TypeOK
<1>2. Idle.pc \notin RotatePc
  BY DEF Idle, RotatePc
<1>3. ASSUME RotateRead(r) PROVE OneRotationPerProcess'
  <2>1. job[r].pc \in RotatePc
    BY <1>3 DEF RotateRead, RotatePc
  <2>2. CASE job' = [job EXCEPT ![r].pc = "walk_read", ![r].at = job[r].tok]
             /\ UNCHANGED inflight
    <3> DEFINE k == [job[r] EXCEPT !.pc = "walk_read", !.at = job[r].tok]
    <3>1. job' = [job EXCEPT ![r] = k]
      BY <1>1, <2>2 DEF Job
    <3>2. SameRotation(job[r], k)
      BY <1>1, <2>1 DEF SameRotation, Job, RotatePc
    <3> HIDE DEF k
    <3> QED BY <2>2, <3>1, <3>2, OnlyOneMoves
  <2>3. CASE Settle(r, Idle)
    BY <1>2, <2>1, <2>3, SettleRotates
  <2>4. CASE Goto(r, "insert") /\ UNCHANGED inflight
    BY <2>1, <2>4, GotoRotates DEF RotatePc
  <2> QED BY <1>3, <2>2, <2>3, <2>4 DEF RotateRead
<1>4. ASSUME RotateInsert(r) PROVE OneRotationPerProcess'
  <2> DEFINE k == [job[r] EXCEPT !.pc = "consume", !.succ = nextId]
  <2>1. job' = [job EXCEPT ![r] = k]
    BY <1>1, <1>4 DEF RotateInsert, Job
  <2>2. SameRotation(job[r], k)
    BY <1>1, <1>4 DEF SameRotation, Job, RotatePc, RotateInsert
  <2> HIDE DEF k
  <2> QED BY <1>4, <2>1, <2>2, OnlyOneMoves DEF RotateInsert
<1>5. ASSUME RotateConsume(r) PROVE OneRotationPerProcess'
  <2>1. job[r].pc \in RotatePc
    BY <1>5 DEF RotateConsume, RotatePc
  <2>2. CASE Settle(r, [Idle EXCEPT !.pc = "reply", !.succ = job[r].succ])
    <3>1. [Idle EXCEPT !.pc = "reply", !.succ = job[r].succ].pc \notin RotatePc
      BY DEF Idle, RotatePc
    <3> QED BY <2>1, <2>2, <3>1, SettleRotates
  <2>3. CASE Goto(r, "discard") /\ UNCHANGED inflight
    BY <2>1, <2>3, GotoRotates DEF RotatePc
  <2> QED BY <1>5, <2>2, <2>3 DEF RotateConsume
<1>6. ASSUME NEW b \in BOOLEAN, RotateDiscard(r, b) PROVE OneRotationPerProcess'
  BY <1>2, <1>6, SettleRotates DEF RotateDiscard, RotatePc
<1>7. ASSUME WalkRead(r) PROVE OneRotationPerProcess'
  <2> DEFINE pc == IF job[r].at \in rows THEN "walk_write" ELSE "walk_commit"
  <2>1. pc \in RotatePc
    BY DEF RotatePc
  <2> HIDE DEF pc
  <2> DEFINE k == [job[r] EXCEPT !.pc = pc, !.succ = replacedBy[job[r].at]]
  <2>2. job' = [job EXCEPT ![r] = k]
    BY <1>1, <1>7 DEF WalkRead, Job, pc
  <2>3. SameRotation(job[r], k)
    BY <1>1, <1>7, <2>1 DEF SameRotation, Job, RotatePc, WalkRead
  <2> HIDE DEF k
  <2> QED BY <1>7, <2>2, <2>3, OnlyOneMoves DEF WalkRead
<1>8. ASSUME WalkWrite(r) PROVE OneRotationPerProcess'
  <2>1. /\ job'[r].pc \in {"walk_read", "walk_commit"}
        /\ job'[r].home = job[r].home /\ job'[r].tok = job[r].tok
        /\ \A q \in Req \ {r} : job'[q] = job[q]
    BY <1>1, <1>8 DEF WalkWrite, Job
  <2>2. \A q \in Req : SameRotation(job[q], job'[q])
    BY <1>8, <2>1 DEF SameRotation, RotatePc, WalkWrite
  <2> QED BY <1>8, <2>2, RotationsGoOn DEF WalkWrite
<1>9. ASSUME WalkCommit(r) PROVE OneRotationPerProcess'
  BY <1>2, <1>9, SettleRotates DEF WalkCommit, RotatePc
<1> QED BY EnterRotates, <1>3, <1>4, <1>5, <1>6, <1>7, <1>8, <1>9 DEF RotateStep

LEMMA RevokeStepRotates ==
    ASSUME IInv, OneRotationPerProcess, NEW r \in Req, RevokeStep(r)
    PROVE  OneRotationPerProcess'
<1>1. job \in [Req -> Job] /\ job[r] \in Job
  BY DEF IInv, TypeOK
<1>2. ASSUME LogoutRevoke(r) \/ SweepAll(r) \/ DeviceMark(r) \/ SweepOthers(r) \/ DeleteCommit(r)
      PROVE  OneRotationPerProcess'
  BY <1>2, FinishRotates
     DEF LogoutRevoke, SweepAll, DeviceMark, SweepOthers, DeleteCommit, RotatePc
<1>3. ASSUME DeviceSessions(r) \/ PasswordUpdate(r)
      PROVE  OneRotationPerProcess'
  BY <1>3, GotoRotates DEF DeviceSessions, PasswordUpdate, RotatePc
<1>4. ASSUME DeleteSweep(r) PROVE OneRotationPerProcess'
  <2> DEFINE k == [job[r] EXCEPT !.pc = "delete_commit", !.held = rows \ revoked]
  <2>1. job' = [job EXCEPT ![r] = k]
    BY <1>1, <1>4 DEF DeleteSweep, Job
  <2>2. SameRotation(job[r], k)
    BY <1>1, <1>4 DEF SameRotation, Job, RotatePc, DeleteSweep
  <2> HIDE DEF k
  <2> QED BY <1>4, <2>1, <2>2, OnlyOneMoves DEF DeleteSweep
<1> QED BY <1>2, <1>3, <1>4 DEF RevokeStep

LEMMA AbortRotates ==
    ASSUME IInv, OneRotationPerProcess, NEW r \in Req, Abort(r)
    PROVE  OneRotationPerProcess'
<1>1. Idle.pc \notin RotatePc
  BY DEF Idle, RotatePc
<1>2. CASE job[r].pc \in RotatePc
  BY <1>1, <1>2, SettleRotates DEF Abort
<1>3. CASE job[r].pc \notin RotatePc
  BY <1>3, FinishRotates DEF Abort
<1> QED BY <1>2, <1>3

LEMMA ArriveRotates ==
    ASSUME IInv, OneRotationPerProcess, NEW r \in Req, Arrive(r)
    PROVE  OneRotationPerProcess'
<1>1. \E j : j.pc \notin RotatePc /\ Start(r, j)
  BY DEF Arrive, LoginVerify, ResetPassword, RefreshFind, Logout, LogoutAll,
         ChangePassword, DeleteAccount, RevokeDevice, Authenticate, Idle, RotatePc
<1>2. UNCHANGED inflight
  BY DEF Arrive, LoginVerify, ResetPassword, RefreshFind, Logout, LogoutAll,
         ChangePassword, DeleteAccount, RevokeDevice, Authenticate
<1> QED BY <1>1, <1>2, QuietStartRotates

LEMMA NextRotates ==
    IInv /\ OneRotationPerProcess /\ [Next]_vars => OneRotationPerProcess'
<1> SUFFICES ASSUME IInv, OneRotationPerProcess, [Next]_vars
             PROVE  OneRotationPerProcess'
  OBVIOUS
<1>1. ASSUME NEW r \in Req, LoginCreate(r) PROVE OneRotationPerProcess'
  <2>1. SameRotation(job[r], [Idle EXCEPT !.pc = "reply", !.succ = nextId])
    BY <1>1 DEF SameRotation, LoginCreate, RotatePc, Idle
  <2> QED BY <1>1, <2>1, OnlyOneMoves DEF LoginCreate
<1>2. ASSUME NEW r \in Req, Reply(r) PROVE OneRotationPerProcess'
  BY <1>2, FinishRotates DEF Reply, RotatePc
<1>3. ASSUME NEW r \in Req, Step(r) PROVE OneRotationPerProcess'
  BY <1>1, <1>2, <1>3, RotateStepRotates, RevokeStepRotates, AbortRotates
     DEF Step, OutOfIds
<1>4. ASSUME UNCHANGED <<job, inflight>> PROVE OneRotationPerProcess'
  BY <1>4 DEF OneRotationPerProcess
<1> QED BY <1>3, <1>4, ArriveRotates, AbortRotates DEF Next, Expire, vars

\* rotateSession's inflightRotations map: within a process one request at most
\* rotates a given token, and the map has an entry exactly while one does, so
\* that no later refresh joins a rotation that has ended.
THEOREM RotationsAreShared == Spec => []OneRotationPerProcess
<1>1. Init => OneRotationPerProcess
  BY DEF Init, Idle, OneRotationPerProcess, RotatePc
<1>2. IInv /\ OneRotationPerProcess /\ [Next]_vars => OneRotationPerProcess'
  BY NextRotates
<1> QED BY <1>1, <1>2, Inductive, PTL DEF Spec

-----------------------------------------------------------------------------
(* The session table implements the families of tokens.                    *)

\* Nothing is revoked, or about to be by a transaction, before it is inserted.
OldIds ==
    /\ \A s \in revoked : s < nextId
    /\ \A r \in Req : /\ \A x \in job[r].held : x < nextId
                      /\ job[r].pc = "walk_write" => job[r].at < nextId

\* A request's next state that locks nothing new and does not reach a row.
LocksNothing(j, k) == k = j \/ (k.held \subseteq j.held /\ k.pc # "walk_write")

LEMMA IdsStayOld ==
    ASSUME IInv, OldIds, \A q \in Req : LocksNothing(job[q], job'[q]),
           \A s \in revoked' \ revoked : s \in rows \/ \E q \in Req : s \in job[q].held,
           nextId' \in {nextId, nextId + 1}
    PROVE  OldIds'
<1>1. /\ nextId \in Int /\ rows \subseteq Sid /\ revoked \subseteq Sid
      /\ job \in [Req -> Job] /\ \A s \in Sid : s \in Int
  BY DEF IInv, TypeOK, Sid
<1>2. \A s : s \in revoked' => s \in Int /\ s < nextId
  BY <1>1 DEF IInv, IdsInOrder, OldIds, Job
<1>3. \A q \in Req : \A x \in job'[q].held : x \in Int /\ x < nextId
  BY <1>1 DEF OldIds, LocksNothing, Job
<1>4. \A q \in Req : job'[q].pc = "walk_write" => job'[q] = job[q]
  BY DEF LocksNothing
<1>5. \A q \in Req : job'[q].pc = "walk_write" => job'[q].at \in Int /\ job'[q].at < nextId
  BY <1>1, <1>4 DEF OldIds, Job, NoRow
<1>6. \A x \in Int : x < nextId => x < nextId'
  BY <1>1
<1> QED BY <1>2, <1>3, <1>5, <1>6 DEF OldIds

LEMMA GotoLocksNothing ==
    ASSUME IInv, NEW r \in Req, NEW pc, pc # "walk_write", Goto(r, pc)
    PROVE  \A q \in Req : LocksNothing(job[q], job'[q])
  BY DEF IInv, TypeOK, Goto, Job, LocksNothing

LEMMA FinishLocksNothing ==
    ASSUME IInv, NEW r \in Req, Finish(r)
    PROVE  \A q \in Req : LocksNothing(job[q], job'[q])
  BY DEF IInv, TypeOK, Finish, Idle, LocksNothing

LEMMA BecomesLocksNothing ==
    ASSUME IInv, NEW r \in Req, NEW j, j.held = {}, j.pc # "walk_write",
           job' = [job EXCEPT ![r] = j]
    PROVE  \A q \in Req : LocksNothing(job[q], job'[q])
  BY DEF IInv, TypeOK, LocksNothing

LEMMA SettleLocksNothing ==
    ASSUME IInv, NEW r \in Req, NEW j, j.held = {}, j.pc # "walk_write", Settle(r, j)
    PROVE  \A q \in Req : LocksNothing(job[q], job'[q])
  BY DEF Settle, Idle, LocksNothing

LEMMA RotationKeepsIdsOld ==
    ASSUME IInv, OldIds, NEW r \in Req, RotateStep(r)
    PROVE  OldIds'
<1>1. job \in [Req -> Job] /\ job[r] \in Job
  BY DEF IInv, TypeOK
<1>2. Idle.held = {} /\ Idle.pc # "walk_write"
  BY DEF Idle
<1>3. ASSUME RotateEnter(r) PROVE OldIds'
  BY <1>3, GotoLocksNothing, IdsStayOld DEF RotateEnter, table
<1>4. ASSUME RotateRead(r) PROVE OldIds'
  <2>1. ASSUME job' = [job EXCEPT ![r].pc = "walk_read", ![r].at = job[r].tok]
        PROVE  \A q \in Req : LocksNothing(job[q], job'[q])
    BY <1>1, <2>1 DEF LocksNothing, Job
  <2>2. \A q \in Req : LocksNothing(job[q], job'[q])
    BY <1>2, <1>4, <2>1, GotoLocksNothing, SettleLocksNothing DEF RotateRead
  <2> QED BY <1>4, <2>2, IdsStayOld DEF RotateRead, table
<1>5. ASSUME RotateInsert(r) PROVE OldIds'
  <2>1. \A q \in Req : LocksNothing(job[q], job'[q])
    BY <1>1, <1>5 DEF RotateInsert, LocksNothing, Job
  <2> QED BY <1>5, <2>1, IdsStayOld DEF RotateInsert, InsertRow
<1>6. ASSUME RotateConsume(r) PROVE OldIds'
  <2>1. job[r].tok \in rows
    BY <1>6 DEF IInv, TokensWereGranted, GrantedTokensKeepTheirRow, RotateConsume,
                TokPc, RotatePc
  <2>2. LET j == [Idle EXCEPT !.pc = "reply", !.succ = job[r].succ]
        IN  j.held = {} /\ j.pc # "walk_write"
    BY DEF Idle
  <2>3. \A q \in Req : LocksNothing(job[q], job'[q])
    BY <1>6, <2>2, GotoLocksNothing, SettleLocksNothing DEF RotateConsume
  <2> QED BY <1>6, <2>1, <2>3, IdsStayOld DEF RotateConsume
<1>7. ASSUME NEW b \in BOOLEAN, RotateDiscard(r, b) PROVE OldIds'
  BY <1>2, <1>7, SettleLocksNothing, IdsStayOld DEF RotateDiscard
<1>8. ASSUME WalkRead(r) PROVE OldIds'
  <2>1. /\ job'[r].at = job[r].at /\ job'[r].held = job[r].held
        /\ job'[r].pc = "walk_write" => job[r].at \in rows
        /\ \A q \in Req \ {r} : job'[q] = job[q]
        /\ UNCHANGED <<revoked, nextId>>
    BY <1>1, <1>8 DEF WalkRead, Job, table
  <2> QED BY <2>1 DEF IInv, IdsInOrder, OldIds
<1>9. ASSUME WalkWrite(r) PROVE OldIds'
  <2>1. job[r].at < nextId
    BY <1>9 DEF OldIds, WalkWrite
  <2>2. /\ job'[r].held \subseteq job[r].held \cup {job[r].at}
        /\ job'[r].pc # "walk_write"
        /\ \A q \in Req \ {r} : job'[q] = job[q]
        /\ UNCHANGED <<revoked, nextId>>
    BY <1>1, <1>9 DEF WalkWrite, Job, table
  <2> QED BY <2>1, <2>2 DEF OldIds
<1>10. ASSUME WalkCommit(r) PROVE OldIds'
  BY <1>2, <1>10, SettleLocksNothing, IdsStayOld DEF WalkCommit
<1> QED BY <1>3, <1>4, <1>5, <1>6, <1>7, <1>8, <1>9, <1>10 DEF RotateStep

LEMMA RevocationKeepsIdsOld ==
    ASSUME IInv, OldIds, NEW r \in Req, RevokeStep(r)
    PROVE  OldIds'
<1>1. job \in [Req -> Job] /\ job[r] \in Job
  BY DEF IInv, TypeOK
<1>2. ASSUME LogoutRevoke(r) PROVE OldIds'
  <2>1. job[r].tok \in rows
    BY <1>2 DEF IInv, TokensWereGranted, GrantedTokensKeepTheirRow, LogoutRevoke, TokPc
  <2> QED BY <1>2, <2>1, FinishLocksNothing, IdsStayOld DEF LogoutRevoke, RevokeRows
<1>3. ASSUME SweepAll(r) \/ SweepOthers(r) PROVE OldIds'
  BY <1>3, FinishLocksNothing, IdsStayOld DEF SweepAll, SweepOthers, RevokeRows
<1>4. ASSUME DeviceSessions(r) PROVE OldIds'
  BY <1>4, GotoLocksNothing, IdsStayOld DEF DeviceSessions, RevokeRows
<1>5. ASSUME DeviceMark(r) PROVE OldIds'
  BY <1>5, FinishLocksNothing, IdsStayOld DEF DeviceMark, table
<1>6. ASSUME PasswordUpdate(r) PROVE OldIds'
  BY <1>6, GotoLocksNothing, IdsStayOld DEF PasswordUpdate, table
<1>7. ASSUME DeleteSweep(r) PROVE OldIds'
  <2>1. /\ job'[r].pc = "delete_commit" /\ job'[r].held \subseteq rows
        /\ \A q \in Req \ {r} : job'[q] = job[q]
        /\ UNCHANGED <<revoked, nextId>>
    BY <1>1, <1>7 DEF DeleteSweep, Job, table
  <2> QED BY <2>1 DEF IInv, IdsInOrder, OldIds
<1>8. ASSUME DeleteCommit(r) PROVE OldIds'
  BY <1>8, FinishLocksNothing, IdsStayOld DEF DeleteCommit
<1> QED BY <1>2, <1>3, <1>4, <1>5, <1>6, <1>7, <1>8 DEF RevokeStep

LEMMA NextKeepsIdsOld == IInv /\ OldIds /\ [Next]_vars => OldIds'
<1> SUFFICES ASSUME IInv, OldIds, [Next]_vars PROVE OldIds'
  OBVIOUS
<1>1. ASSUME NEW r \in Req, LoginCreate(r) PROVE OldIds'
  <2>1. LET j == [Idle EXCEPT !.pc = "reply", !.succ = nextId]
        IN  j.held = {} /\ j.pc # "walk_write"
    BY DEF Idle
  <2> QED BY <1>1, <2>1, BecomesLocksNothing, IdsStayOld DEF LoginCreate, InsertRow
<1>2. ASSUME NEW r \in Req, Abort(r) PROVE OldIds'
  <2>1. Idle.held = {} /\ Idle.pc # "walk_write"
    BY DEF Idle
  <2>2. \A q \in Req : LocksNothing(job[q], job'[q])
    BY <1>2, <2>1, FinishLocksNothing, SettleLocksNothing DEF Abort
  <2> QED BY <1>2, <2>2, IdsStayOld DEF Abort, table
<1>3. ASSUME NEW r \in Req, Reply(r) PROVE OldIds'
  BY <1>3, FinishLocksNothing, IdsStayOld DEF Reply, table
<1>4. ASSUME NEW r \in Req, Arrive(r) PROVE OldIds'
  <2>1. \E j : j.held = {} /\ j.pc # "walk_write" /\ job' = [job EXCEPT ![r] = j]
    BY <1>4 DEF Arrive, LoginVerify, ResetPassword, RefreshFind, Logout, LogoutAll,
                ChangePassword, DeleteAccount, RevokeDevice, Authenticate, Start, Idle
  <2>2. UNCHANGED table
    BY <1>4 DEF Arrive, LoginVerify, ResetPassword, RefreshFind, Logout, LogoutAll,
                ChangePassword, DeleteAccount, RevokeDevice, Authenticate
  <2> QED BY <2>1, <2>2, BecomesLocksNothing, IdsStayOld DEF table
<1>5. ASSUME NEW s \in Sid, Expire(s) PROVE OldIds'
  BY <1>5 DEF Expire, OldIds
<1>6. ASSUME UNCHANGED vars PROVE OldIds'
  BY <1>6 DEF vars, table, OldIds
<1> QED BY <1>1, <1>2, <1>3, <1>4, <1>5, <1>6, RotationKeepsIdsOld, RevocationKeepsIdsOld
        DEF Next, Step, OutOfIds

\* What an exchange under way can lose: the chain behind a token and the rows a
\* walk holds were all handed out, so no walk hits the new row of a rotation,
\* and that row is on the device of the row it replaces.
WalkingPc == {"rotate", "read", "walk_read", "walk_write", "walk_commit"}
ExchangesAreExposed ==
    /\ \A s \in Sid : replacedBy[s] = NoRow \/ replacedBy[s] \in granted
    /\ \A r \in Req :
          /\ job[r].pc \in WalkingPc => job[r].held \subseteq granted
          /\ job[r].pc \in WalkPc => job[r].at \in granted
          /\ job[r].pc = "walk_write" => job[r].succ \in granted \cup {NoRow}
          /\ job[r].pc = "consume" => deviceOf[job[r].succ] = deviceOf[job[r].tok]

\* A request's next state of which ExchangesAreExposed says nothing.
Aside(j) == j.pc \notin WalkingPc \cup {"consume"} \/ (j.pc = "rotate" /\ j.held = {})

LEMMA ExchangesStayExposed ==
    ASSUME IInv, ExchangesAreExposed, granted \subseteq granted', UNCHANGED replacedBy,
           \A s \in rows : deviceOf'[s] = deviceOf[s],
           \A q \in Req : job'[q] = job[q] \/ Aside(job'[q])
    PROVE  ExchangesAreExposed'
<1>1. \A q \in Req : job[q].pc = "consume" => job[q].succ \in rows /\ job[q].tok \in rows
  BY DEF IInv, InsertedRowsArePrivate, InsertedPc, TokensWereGranted, TokPc, RotatePc,
         GrantedTokensKeepTheirRow
<1>2. ASSUME NEW q \in Req, job'[q] = job[q]
      PROVE  /\ job'[q].pc \in WalkingPc => job'[q].held \subseteq granted'
             /\ job'[q].pc \in WalkPc => job'[q].at \in granted'
             /\ job'[q].pc = "walk_write" => job'[q].succ \in granted' \cup {NoRow}
             /\ job'[q].pc = "consume" => deviceOf'[job'[q].succ] = deviceOf'[job'[q].tok]
  BY <1>1, <1>2 DEF ExchangesAreExposed
<1>3. ASSUME NEW q \in Req, Aside(job'[q])
      PROVE  /\ job'[q].pc \in WalkingPc => job'[q].held \subseteq granted'
             /\ job'[q].pc \notin WalkPc /\ job'[q].pc # "consume"
  BY <1>3 DEF Aside, WalkingPc, WalkPc
<1>4. \A s \in Sid : replacedBy'[s] = NoRow \/ replacedBy'[s] \in granted'
  BY DEF ExchangesAreExposed
<1> QED BY <1>2, <1>3, <1>4 DEF ExchangesAreExposed, WalkPc

LEMMA SettledIsAside ==
    ASSUME IInv, NEW r \in Req, NEW j, Aside(j), Settle(r, j)
    PROVE  \A q \in Req : job'[q] = job[q] \/ Aside(job'[q])
  BY DEF Settle, Idle, Aside, WalkingPc

LEMMA BecomesAside ==
    ASSUME IInv, NEW r \in Req, NEW j, Aside(j), job' = [job EXCEPT ![r] = j]
    PROVE  \A q \in Req : job'[q] = job[q] \/ Aside(job'[q])
  BY DEF IInv, TypeOK

LEMMA GoesAside ==
    ASSUME IInv, NEW r \in Req, NEW pc, pc \notin WalkingPc \cup {"consume"}, Goto(r, pc)
    PROVE  \A q \in Req : job'[q] = job[q] \/ Aside(job'[q])
  BY DEF IInv, TypeOK, Job, Goto, Aside

LEMMA RotationKeepsExposed ==
    ASSUME IInv, ExchangesAreExposed, NEW r \in Req, RotateStep(r)
    PROVE  ExchangesAreExposed'
<1>1. job \in [Req -> Job] /\ job[r] \in Job /\ Aside(Idle)
  BY DEF IInv, TypeOK, Idle, Aside, WalkingPc
<1>2. ASSUME RotateEnter(r) PROVE ExchangesAreExposed'
  <2>1. CASE Goto(r, "join")
    BY <1>2, <2>1, GoesAside, ExchangesStayExposed DEF RotateEnter, table, history, WalkingPc
  <2>2. CASE Goto(r, "read")
    <3>1. /\ job[r].pc = "rotate" /\ job'[r] = [job[r] EXCEPT !.pc = "read"]
          /\ \A q \in Req \ {r} : job'[q] = job[q]
          /\ UNCHANGED <<granted, replacedBy, deviceOf>>
      BY <1>1, <1>2, <2>2 DEF RotateEnter, Goto, table, history
    <3>2. job'[r].pc = "read" /\ job'[r].held = job[r].held
      BY <1>1, <3>1 DEF Job
    <3>3. job'[r].held \subseteq granted'
      BY <3>1, <3>2 DEF ExchangesAreExposed, WalkingPc
    <3>4. job'[r].pc \notin WalkPc \cup {"walk_write", "consume"}
      BY <3>2 DEF WalkPc
    <3> QED BY <3>1, <3>3, <3>4 DEF ExchangesAreExposed
  <2> QED BY <1>2, <2>1, <2>2 DEF RotateEnter
<1>3. ASSUME RotateRead(r) PROVE ExchangesAreExposed'
  <2>1. ASSUME job' = [job EXCEPT ![r].pc = "walk_read", ![r].at = job[r].tok]
        PROVE  ExchangesAreExposed'
    <3>1. /\ job[r].pc = "read" /\ job[r].tok \in granted
          /\ job'[r].pc = "walk_read" /\ job'[r].at = job[r].tok
          /\ job'[r].held = job[r].held
          /\ \A q \in Req \ {r} : job'[q] = job[q]
          /\ UNCHANGED <<granted, replacedBy, deviceOf>>
      BY <1>1, <1>3, <2>1 DEF RotateRead, table, history, Job, IInv, TokensWereGranted,
                              TokPc, RotatePc
    <3> QED BY <3>1 DEF ExchangesAreExposed, WalkingPc, WalkPc
  <2>2. ASSUME Settle(r, Idle) \/ Goto(r, "insert") PROVE ExchangesAreExposed'
    <3>1. \A q \in Req : job'[q] = job[q] \/ Aside(job'[q])
      BY <1>1, <2>2, SettledIsAside, GoesAside DEF WalkingPc
    <3> QED BY <1>3, <3>1, ExchangesStayExposed DEF RotateRead, table, history
  <2> QED BY <1>3, <2>1, <2>2 DEF RotateRead
<1>4. ASSUME RotateInsert(r) PROVE ExchangesAreExposed'
  <2>1. /\ nextId \in Sid /\ deviceOf' = [deviceOf EXCEPT ![nextId] = deviceOf[job[r].tok]]
        /\ job' = [job EXCEPT ![r].pc = "consume", ![r].succ = nextId]
        /\ UNCHANGED <<granted, replacedBy>>
    BY <1>4 DEF RotateInsert, InsertRow
  <2>2. nextId \notin rows /\ deviceOf \in [Sid -> Device] /\ job[r].tok \in rows
    BY <1>4, <2>1 DEF IInv, TypeOK, IdsInOrder, RotateInsert, TokensWereGranted, TokPc,
                      RotatePc, GrantedTokensKeepTheirRow, Sid
  <2>3. /\ job'[r].pc = "consume" /\ job'[r].succ = nextId /\ job'[r].tok = job[r].tok
        /\ \A q \in Req \ {r} : job'[q] = job[q]
    BY <1>1, <2>1 DEF Job
  <2>4. \A s \in rows : deviceOf'[s] = deviceOf[s]
    BY <2>1, <2>2
  <2>5. deviceOf'[nextId] = deviceOf'[job[r].tok]
    BY <2>1, <2>2, <2>4
  <2>6. \A q \in Req : job[q].pc = "consume" => job[q].succ \in rows /\ job[q].tok \in rows
    BY DEF IInv, InsertedRowsArePrivate, InsertedPc, TokensWereGranted, TokPc, RotatePc,
           GrantedTokensKeepTheirRow
  <2>7. \A q \in Req \ {r} : job'[q].pc = "consume"
           => deviceOf'[job'[q].succ] = deviceOf'[job'[q].tok]
    BY <2>3, <2>4, <2>6 DEF ExchangesAreExposed
  <2>8. job'[r].pc \notin WalkingPc \cup WalkPc \cup {"walk_write"}
    BY <2>3 DEF WalkingPc, WalkPc
  <2>9. \A s \in Sid : replacedBy'[s] = NoRow \/ replacedBy'[s] \in granted'
    BY <2>1 DEF ExchangesAreExposed
  <2>10. ASSUME NEW q \in Req
         PROVE  /\ job'[q].pc \in WalkingPc => job'[q].held \subseteq granted'
                /\ job'[q].pc \in WalkPc => job'[q].at \in granted'
                /\ job'[q].pc = "walk_write" => job'[q].succ \in granted' \cup {NoRow}
                /\ job'[q].pc = "consume" => deviceOf'[job'[q].succ] = deviceOf'[job'[q].tok]
    <3>1. CASE q = r
      BY <2>3, <2>5, <2>8, <3>1
    <3>2. CASE q # r
      <4>1. job'[q] = job[q] /\ granted' = granted
        BY <2>1, <2>3, <3>2
      <4>2. /\ job[q].pc \in WalkingPc => job[q].held \subseteq granted
            /\ job[q].pc \in WalkPc => job[q].at \in granted
            /\ job[q].pc = "walk_write" => job[q].succ \in granted \cup {NoRow}
        BY DEF ExchangesAreExposed
      <4>3. job'[q].pc = "consume" => deviceOf'[job'[q].succ] = deviceOf'[job'[q].tok]
        BY <2>7, <3>2
      <4> QED BY <4>1, <4>2, <4>3
    <3> QED BY <3>1, <3>2
  <2> QED BY <2>9, <2>10 DEF ExchangesAreExposed
<1>5. ASSUME RotateConsume(r) PROVE ExchangesAreExposed'
  <2>1. LET j == [Idle EXCEPT !.pc = "reply", !.succ = job[r].succ] IN Aside(j)
    BY DEF Idle, Aside, WalkingPc
  <2>2. /\ granted \subseteq granted' /\ UNCHANGED deviceOf
        /\ \A q \in Req : job'[q] = job[q] \/ Aside(job'[q])
    BY <1>5, <2>1, SettledIsAside, GoesAside DEF RotateConsume, WalkingPc
  <2>3. CASE UNCHANGED replacedBy
    BY <2>2, <2>3, ExchangesStayExposed
  <2>4. CASE /\ replacedBy' = [replacedBy EXCEPT ![job[r].tok] = job[r].succ]
             /\ job[r].succ \in granted'
    <3>1. \A s \in Sid : replacedBy'[s] = NoRow \/ replacedBy'[s] \in granted'
      BY <2>2, <2>4 DEF ExchangesAreExposed, IInv, TypeOK
    <3> QED BY <2>2, <3>1 DEF ExchangesAreExposed, Aside, WalkingPc, WalkPc
  <2> QED BY <1>5, <2>3, <2>4 DEF RotateConsume
<1>6. ASSUME NEW b \in BOOLEAN, RotateDiscard(r, b) PROVE ExchangesAreExposed'
  BY <1>1, <1>6, SettledIsAside, ExchangesStayExposed DEF RotateDiscard, history
<1>7. ASSUME WalkRead(r) PROVE ExchangesAreExposed'
  <2>1. /\ job[r].pc = "walk_read" /\ job[r].at \in granted \cap Sid
        /\ job'[r].at = job[r].at /\ job'[r].held = job[r].held
        /\ job'[r].succ = replacedBy[job[r].at]
        /\ job'[r].pc \in {"walk_write", "walk_commit"}
        /\ \A q \in Req \ {r} : job'[q] = job[q]
        /\ UNCHANGED <<granted, replacedBy, deviceOf>>
    BY <1>1, <1>7 DEF WalkRead, Job, table, history, ExchangesAreExposed, WalkPc, IInv, TypeOK
  <2> QED BY <2>1 DEF ExchangesAreExposed, WalkingPc, WalkPc
<1>8. ASSUME WalkWrite(r) PROVE ExchangesAreExposed'
  <2>1. /\ job[r].pc = "walk_write" /\ job[r].at \in granted
        /\ job'[r].held = job[r].held \cup ({job[r].at} \ revoked)
        /\ job'[r].at = job[r].succ
        /\ job'[r].pc \in {"walk_read", "walk_commit"}
        /\ job'[r].pc = "walk_read" => job[r].succ # NoRow
        /\ \A q \in Req \ {r} : job'[q] = job[q]
        /\ UNCHANGED <<granted, replacedBy, deviceOf>>
    BY <1>1, <1>8 DEF WalkWrite, Job, table, history, ExchangesAreExposed, WalkPc
  <2> QED BY <2>1 DEF ExchangesAreExposed, WalkingPc, WalkPc
<1>9. ASSUME WalkCommit(r) PROVE ExchangesAreExposed'
  BY <1>1, <1>9, SettledIsAside, ExchangesStayExposed DEF WalkCommit, history
<1> QED BY <1>2, <1>3, <1>4, <1>5, <1>6, <1>7, <1>8, <1>9 DEF RotateStep

LEMMA NextKeepsExposed ==
    IInv /\ ExchangesAreExposed /\ [Next]_vars => ExchangesAreExposed'
<1> SUFFICES ASSUME IInv, ExchangesAreExposed, [Next]_vars PROVE ExchangesAreExposed'
  OBVIOUS
<1>1. Aside(Idle)
  BY DEF Idle, Aside, WalkingPc
<1>2. ASSUME NEW r \in Req, LoginCreate(r) PROVE ExchangesAreExposed'
  <2>1. Aside([Idle EXCEPT !.pc = "reply", !.succ = nextId])
    BY DEF Idle, Aside, WalkingPc
  <2>2. /\ granted \subseteq granted' /\ UNCHANGED replacedBy
        /\ \A s \in rows : deviceOf'[s] = deviceOf[s]
    BY <1>2 DEF LoginCreate, InsertRow, IInv, TypeOK, IdsInOrder, Sid
  <2> QED BY <1>2, <2>1, <2>2, BecomesAside, ExchangesStayExposed DEF LoginCreate
<1>3. ASSUME NEW r \in Req, RevokeStep(r) PROVE ExchangesAreExposed'
  <2>1. ASSUME Finish(r) PROVE \A q \in Req : job'[q] = job[q] \/ Aside(job'[q])
    BY <1>1, <2>1, BecomesAside DEF Finish
  <2>2. ASSUME DeleteSweep(r) PROVE \A q \in Req : job'[q] = job[q] \/ Aside(job'[q])
    BY <2>2 DEF DeleteSweep, IInv, TypeOK, Job, Aside, WalkingPc
  <2>3. \A q \in Req : job'[q] = job[q] \/ Aside(job'[q])
    BY <1>3, <2>1, <2>2, GoesAside
       DEF RevokeStep, LogoutRevoke, SweepAll, DeviceSessions, DeviceMark, PasswordUpdate,
           SweepOthers, DeleteCommit, WalkingPc
  <2>4. UNCHANGED <<granted, replacedBy, deviceOf>>
    BY <1>3 DEF RevokeStep, LogoutRevoke, SweepAll, DeviceSessions, DeviceMark,
                PasswordUpdate, SweepOthers, DeleteSweep, DeleteCommit, RevokeRows,
                table, history
  <2> QED BY <2>3, <2>4, ExchangesStayExposed
<1>4. ASSUME NEW r \in Req, Reply(r) \/ Abort(r) PROVE ExchangesAreExposed'
  <2>1. \A q \in Req : job'[q] = job[q] \/ Aside(job'[q])
    BY <1>1, <1>4, BecomesAside, SettledIsAside DEF Reply, Abort, Finish
  <2> QED BY <1>4, <2>1, ExchangesStayExposed DEF Reply, Abort, table, history
<1>5. ASSUME NEW r \in Req, Arrive(r) PROVE ExchangesAreExposed'
  <2>1. \E j : Aside(j) /\ job' = [job EXCEPT ![r] = j]
    BY <1>5 DEF Arrive, LoginVerify, ResetPassword, RefreshFind, Logout, LogoutAll,
                ChangePassword, DeleteAccount, RevokeDevice, Authenticate, Start, Idle,
                Aside, WalkingPc
  <2>2. UNCHANGED <<granted, replacedBy, deviceOf>>
    BY <1>5 DEF Arrive, LoginVerify, ResetPassword, RefreshFind, Logout, LogoutAll,
                ChangePassword, DeleteAccount, RevokeDevice, Authenticate, table, history
  <2> QED BY <2>1, <2>2, BecomesAside, ExchangesStayExposed
<1>6. ASSUME NEW s \in Sid, Expire(s) PROVE ExchangesAreExposed'
  BY <1>6 DEF Expire, history, ExchangesAreExposed
<1>7. ASSUME UNCHANGED vars PROVE ExchangesAreExposed'
  BY <1>7 DEF vars, table, history, ExchangesAreExposed
<1> QED BY <1>2, <1>3, <1>4, <1>5, <1>6, <1>7, RotationKeepsExposed
        DEF Next, Step, OutOfIds

\* A rotation that a password change has struck (the set Struck).
Hit(r) == job[r].pc = "consume" /\ job[r].succ \in revoked /\ job[r].tok \notin revoked

\* Its token is the live one of its family: by SingleLiveToken the only one.
LEMMA HitIsLive ==
    ASSUME IInv, NEW r \in Req, job[r].pc = "consume", job[r].tok \notin revoked
    PROVE  /\ job[r].tok \in granted \cap Sid /\ lineage[job[r].tok] \in Sid
           /\ LiveTokens[lineage[job[r].tok]] = {job[r].tok}
<1>1. /\ job[r].tok \in granted \ revoked /\ granted \subseteq Sid
      /\ lineage \in [Sid -> Sid]
  BY DEF IInv, TypeOK, TokensWereGranted, TokPc, RotatePc
<1>2. \A t \in granted \ revoked : lineage[t] = lineage[job[r].tok] => t = job[r].tok
  BY <1>1 DEF IInv, SingleLiveToken
<1> QED BY <1>1, <1>2 DEF LiveTokens

\* Revoking closes the families whose live token it hits: by SingleLiveToken
\* there was no other.  If it strikes no rotation whose token it spares, the
\* rotations struck before are those of the families that stay open.
LEMMA RevokingCloses ==
    ASSUME IInv, revoked \subseteq revoked', UNCHANGED <<granted, lineage>>,
           \A q \in Req : job'[q] = job[q] \/ (job'[q].pc # "consume" /\ ~Hit(q)),
           \A q \in Req : job[q].pc = "consume" /\ job[q].succ \in revoked' \ revoked
                             => job[q].tok \in revoked'
    PROVE  Family!FamilyNext
<1> DEFINE F == {f \in Sid : LiveTokens'[f] # LiveTokens[f]}
<1>1. /\ \A f \in Sid : LiveTokens[f] = {s \in granted \ revoked : lineage[s] = f}
      /\ \A f \in Sid : LiveTokens'[f] = {s \in granted \ revoked' : lineage[s] = f}
      /\ LiveTokens' = [f \in Sid |-> LiveTokens'[f]]
  BY DEF LiveTokens
<1>2. ASSUME NEW f \in Sid, LiveTokens'[f] # LiveTokens[f]
      PROVE  LiveTokens'[f] = {}
  <2>1. LiveTokens'[f] \subseteq LiveTokens[f]
    BY <1>1
  <2>2. PICK s \in LiveTokens[f] : s \notin LiveTokens'[f]
    BY <1>2, <2>1
  <2>3. \A t \in LiveTokens[f] : t = s
    BY <1>1, <2>2 DEF IInv, SingleLiveToken
  <2> QED BY <2>1, <2>2, <2>3
<1>3. LiveTokens' = [f \in Sid |-> IF f \in F THEN {} ELSE LiveTokens[f]]
  BY <1>1, <1>2
<1>4. F \in SUBSET Sid
  OBVIOUS
<1>5. /\ Struck = {lineage[job[r].tok] : r \in {q \in Req : Hit(q)}}
      /\ Struck' = {lineage[job'[r].tok] : r \in {q \in Req : Hit(q)'}}
  BY DEF Struck, Hit
<1>6. ASSUME NEW q \in Req, Hit(q)'
      PROVE  job'[q] = job[q] /\ Hit(q) /\ lineage[job[q].tok] \notin F
  <2>1. job'[q] = job[q] /\ Hit(q) /\ job[q].tok \notin revoked'
    BY <1>6 DEF Hit
  <2>2. LiveTokens[lineage[job[q].tok]] = {job[q].tok}
        /\ job[q].tok \in granted /\ lineage[job[q].tok] \in Sid
    BY <2>1, HitIsLive DEF Hit
  <2>3. job[q].tok \in LiveTokens'[lineage[job[q].tok]]
    BY <1>1, <2>1, <2>2
  <2> QED BY <1>2, <2>1, <2>2, <2>3
<1>7. ASSUME NEW q \in Req, Hit(q), lineage[job[q].tok] \notin F
      PROVE  job'[q] = job[q] /\ Hit(q)'
  <2>1. job'[q] = job[q]
    BY <1>7
  <2>2. LiveTokens'[lineage[job[q].tok]] = {job[q].tok} /\ lineage[job[q].tok] \in Sid
    BY <1>7, HitIsLive DEF Hit
  <2>3. job[q].tok \notin revoked'
    BY <1>1, <2>2
  <2> QED BY <1>7, <2>1, <2>3 DEF Hit
<1> HIDE DEF F
<1>8. Struck' = Struck \ F
  <2>1. ASSUME NEW f \in Struck' PROVE f \in Struck \ F
    BY <1>5, <1>6, <2>1
  <2>2. ASSUME NEW f \in Struck \ F PROVE f \in Struck'
    BY <1>5, <1>7, <2>2
  <2> QED BY <2>1, <2>2
<1>9. Family!Close(F)
  BY <1>3, <1>8 DEF Family!Close
<1> QED BY <1>4, <1>9 DEF Family!FamilyNext

\* A step that writes no row and leaves the rotations alone changes nothing.
LEMMA QuietSteps ==
    ASSUME IInv, UNCHANGED <<revoked, granted, lineage>>,
           \A q \in Req : job'[q] = job[q] \/ (job'[q].pc # "consume" /\ ~Hit(q))
    PROVE  Family!FamilyNext
  BY RevokingCloses

\* A new row that leaves the rows handed out and the struck rotations alone.
LEMMA StruckStay ==
    ASSUME IInv, UNCHANGED revoked, nextId \in Sid, nextId \notin revoked,
           \E f : lineage' = [lineage EXCEPT ![nextId] = f],
           \A q \in Req : \/ job'[q] = job[q]
                          \/ job[q].pc # "consume" /\ (job'[q].pc = "consume" => job'[q].succ = nextId)
    PROVE  Struck' = Struck
<1>1. \A q \in Req : job[q].pc = "consume" => lineage'[job[q].tok] = lineage[job[q].tok]
  <2>1. nextId \notin rows /\ rows \subseteq Sid
    BY DEF IInv, TypeOK, IdsInOrder, Sid
  <2>2. \A q \in Req : job[q].pc = "consume" => job[q].tok \in rows
    BY DEF IInv, TokensWereGranted, TokPc, RotatePc, GrantedTokensKeepTheirRow
  <2> QED BY <2>1, <2>2 DEF IInv, TypeOK
<1>2. \A q \in Req : Hit(q) <=> Hit(q)'
  BY DEF Hit
<1>3. \A q \in Req : Hit(q) => job'[q] = job[q] /\ lineage'[job[q].tok] = lineage[job[q].tok]
  BY <1>1 DEF Hit
<1>4. /\ Struck = {lineage[job[r].tok] : r \in {q \in Req : Hit(q)}}
      /\ Struck' = {lineage'[job'[r].tok] : r \in {q \in Req : Hit(q)'}}
  BY DEF Struck, Hit
<1> QED BY <1>2, <1>3, <1>4

\* A sign-in opens the family named by its session row.
LEMMA SigningInOpens ==
    ASSUME IInv, OldIds, NEW r \in Req, LoginCreate(r)
    PROVE  Family!FamilyNext
<1>1. /\ nextId \in Sid /\ granted' = granted \cup {nextId}
      /\ lineage' = [lineage EXCEPT ![nextId] = nextId] /\ revoked' = revoked
  BY DEF LoginCreate, InsertRow
<1>2. nextId \notin granted /\ nextId \notin revoked /\ granted \subseteq Sid
  BY <1>1 DEF IInv, TypeOK, GrantedTokensKeepTheirRow, IdsInOrder, OldIds, Sid
<1>3. lineage' \in [Sid -> Sid] /\ lineage'[nextId] = nextId
      /\ \A s \in granted : lineage'[s] = lineage[s] /\ lineage[s] # nextId
  BY <1>1, <1>2 DEF IInv, TypeOK, GrantedTokensKeepTheirRow, IdsInOrder, Sid
<1>4. LiveTokens' = [LiveTokens EXCEPT ![nextId] = {nextId}]
  <2>1. \A f \in Sid : {s \in granted' \ revoked' : lineage'[s] = f}
                       = IF f = nextId THEN {nextId}
                         ELSE {s \in granted \ revoked : lineage[s] = f}
    BY <1>1, <1>2, <1>3
  <2> QED BY <1>1, <2>1 DEF LiveTokens
<1>5. Struck' = Struck
  <2>1. \A q \in Req : job'[q] = job[q] \/ (job[q].pc # "consume" /\ job'[q].pc # "consume")
    BY DEF LoginCreate, IInv, TypeOK, Idle
  <2> QED BY <1>1, <1>2, <2>1, StruckStay
<1>6. Family!Open(nextId)
  BY <1>1, <1>2, <1>4, <1>5 DEF Family!Open
<1> QED BY <1>1, <1>6 DEF Family!FamilyNext

\* A row inserted by a rotation belongs to no family until it is handed out.
LEMMA InsertingStutters ==
    ASSUME IInv, OldIds, NEW r \in Req, RotateInsert(r)
    PROVE  UNCHANGED <<LiveTokens, granted, Struck>>
<1>1. /\ nextId \in Sid /\ UNCHANGED <<granted, revoked>>
      /\ \E f : lineage' = [lineage EXCEPT ![nextId] = f]
  BY DEF RotateInsert, InsertRow
<1>2. \A s \in granted : lineage'[s] = lineage[s]
  BY <1>1 DEF IInv, TypeOK, GrantedTokensKeepTheirRow, IdsInOrder, Sid
<1>3. \A f \in Sid : {s \in granted' \ revoked' : lineage'[s] = f}
                     = {s \in granted \ revoked : lineage[s] = f}
  BY <1>1, <1>2
<1>4. Struck' = Struck
  <2>1. nextId \notin revoked
    BY <1>1 DEF OldIds, Sid
  <2>2. \A q \in Req : \/ job'[q] = job[q]
                       \/ job[q].pc # "consume" /\ job'[q].succ = nextId
    BY DEF RotateInsert, IInv, TypeOK, Job
  <2> QED BY <1>1, <2>1, <2>2, StruckStay
<1> QED BY <1>1, <1>3, <1>4 DEF LiveTokens

\* A rotation that consumes its token exchanges it for the row it inserted, a
\* live one unless the rotation was struck.
LEMMA ConsumingExchanges ==
    ASSUME IInv, NEW r \in Req, RotateConsume(r), job[r].tok \notin revoked
    PROVE  Family!FamilyNext
<1> DEFINE s == job[r].tok
           c == job[r].succ
           f == lineage[s]
           k == [Idle EXCEPT !.pc = "reply", !.succ = c]
<1>1. /\ s \in granted \ revoked /\ c \in Sid \ granted /\ f \in Sid
      /\ lineage[c] = f /\ granted \subseteq Sid /\ job[r].pc = "consume"
      /\ LiveTokens[f] = {s}
  BY HitIsLive DEF IInv, TypeOK, TokensWereGranted, InsertedRowsArePrivate, InsertedPc,
     TokPc, RotatePc, RotateConsume
<1>2. /\ revoked' = revoked \cup {s} /\ granted' = granted \cup {c}
      /\ UNCHANGED lineage /\ Settle(r, k)
  BY DEF RotateConsume
<1>3. k.pc = "reply"
  BY DEF Idle
<1>4. /\ job'[r].pc # "consume"
      /\ \A q \in Req \ {r} : job'[q] = job[q] \/ (job[q].pc = "join" /\ job'[q].pc # "consume")
  BY <1>2, <1>3 DEF Settle, Joiners, Idle
<1>5. \A q \in Req : job[q].pc = "consume" => job[q].succ # s
  BY <1>1 DEF IInv, InsertedRowsArePrivate, InsertedPc
<1>6. ASSUME NEW q \in Req, Hit(q)
      PROVE  lineage[job[q].tok] = f <=> job[q].tok = s
  <2>1. LiveTokens[lineage[job[q].tok]] = {job[q].tok}
    BY <1>6, HitIsLive DEF Hit
  <2> QED BY <1>1, <2>1
<1> HIDE DEF s, c, f, k
<1>7. LiveTokens' = [LiveTokens EXCEPT ![f] = (@ \ {s}) \cup (IF c \in revoked THEN {} ELSE {c})]
  <2>1. \A g \in Sid : {t \in granted' \ revoked' : lineage'[t] = g}
                       = IF g = f THEN (LiveTokens[f] \ {s}) \cup (IF c \in revoked THEN {} ELSE {c})
                         ELSE {t \in granted \ revoked : lineage[t] = g}
    <3>1. LiveTokens[f] = {t \in granted \ revoked : lineage[t] = f}
      BY <1>1 DEF LiveTokens
    <3>2. lineage[s] = f
      BY DEF f
    <3> QED BY <1>1, <1>2, <3>1, <3>2
  <2> QED BY <1>1, <2>1 DEF LiveTokens
<1>8. Struck' = Struck \ {f}
  <2>1. /\ Struck = {lineage[job[q].tok] : q \in {p \in Req : Hit(p)}}
        /\ Struck' = {lineage[job'[q].tok] : q \in {p \in Req : Hit(p)'}}
    BY <1>2 DEF Struck, Hit
  <2>2. ASSUME NEW q \in Req, Hit(q)'
        PROVE  job'[q] = job[q] /\ Hit(q) /\ job[q].tok # s
    BY <1>2, <1>4, <1>5, <2>2 DEF Hit
  <2>3. ASSUME NEW q \in Req, Hit(q), job[q].tok # s
        PROVE  job'[q] = job[q] /\ Hit(q)'
    <3>1. q # r
      BY <2>3 DEF s
    <3> QED BY <1>2, <1>4, <2>3, <3>1 DEF Hit
  <2>4. ASSUME NEW g \in Struck' PROVE g \in Struck \ {f}
    BY <1>6, <2>1, <2>2, <2>4
  <2>5. ASSUME NEW g \in Struck \ {f} PROVE g \in Struck'
    BY <1>6, <2>1, <2>3, <2>5
  <2> QED BY <2>4, <2>5
<1>9. CASE c \notin revoked
  <2>1. LiveTokens' = [LiveTokens EXCEPT ![f] = (@ \ {s}) \cup {c}]
    BY <1>7, <1>9
  <2>2. Family!Exchange(f, s, c)
    BY <1>1, <1>2, <1>8, <2>1 DEF Family!Exchange
  <2> QED BY <1>1, <2>2 DEF Family!FamilyNext
<1>10. CASE c \in revoked
  <2>1. LiveTokens' = [LiveTokens EXCEPT ![f] = @ \ {s}]
    BY <1>7, <1>10
  <2>2. f \in Struck
    BY <1>1, <1>10 DEF Struck, s, c, f
  <2>3. Family!Waste(f, s, c)
    BY <1>1, <1>2, <1>8, <2>1, <2>2 DEF Family!Waste
  <2> QED BY <1>1, <2>3 DEF Family!FamilyNext
<1> QED BY <1>9, <1>10

\* A rotation that breaks off may have been the struck one of its family.
LEMMA AbortingForgets ==
    ASSUME IInv, NEW r \in Req, Abort(r)
    PROVE  Family!FamilyNext \/ UNCHANGED Family!familyVars
<1>1. /\ job'[r].pc = "idle"
      /\ \A q \in Req \ {r} : job'[q] = job[q] \/ (job[q].pc = "join" /\ job'[q].pc = "idle")
      /\ UNCHANGED <<revoked, granted, lineage>>
  BY DEF Abort, Settle, Joiners, Finish, Idle, table, history, IInv, TypeOK
<1>2. CASE ~Hit(r)
  <2>1. \A q \in Req : job'[q] = job[q] \/ (job'[q].pc # "consume" /\ ~Hit(q))
    BY <1>1, <1>2 DEF Hit
  <2> QED BY <1>1, <2>1, QuietSteps
<1>3. CASE Hit(r)
  <2> DEFINE f == lineage[job[r].tok]
  <2>1. /\ Struck = {lineage[job[q].tok] : q \in {p \in Req : Hit(p)}}
        /\ Struck' = {lineage[job'[q].tok] : q \in {p \in Req : Hit(p)'}}
    BY <1>1 DEF Struck, Hit
  <2>2. \A q \in Req : Hit(q)' => q # r /\ job'[q] = job[q] /\ Hit(q)
    BY <1>1 DEF Hit
  <2>3. \A q \in Req \ {r} : Hit(q) => job'[q] = job[q] /\ Hit(q)'
    BY <1>1 DEF Hit
  <2>4. f \in Struck /\ f \in Sid
    BY <1>3, <2>1, HitIsLive DEF Hit
  <2>5. \A g : g \in Struck' => g \in Struck
    BY <2>1, <2>2
  <2>6. \A g : g \in Struck => g = f \/ g \in Struck'
    BY <2>1, <2>3
  <2>7. UNCHANGED LiveTokens
    BY <1>1 DEF LiveTokens
  <2> HIDE DEF f
  <2>8. Struck' = Struck \/ Struck' = Struck \ {f}
    BY <2>5, <2>6
  <2>9. Struck' = Struck => UNCHANGED Family!familyVars
    BY <1>1, <2>7 DEF Family!familyVars
  <2>10. Struck' = Struck \ {f} => Family!Forget(f)
    BY <1>1, <2>4, <2>7 DEF Family!Forget
  <2> QED BY <2>4, <2>8, <2>9, <2>10 DEF Family!FamilyNext
<1> QED BY <1>2, <1>3

\* revokeOtherSessions closes every family but that of the row it keeps, and
\* may strike a rotation of that row.  Without a live row to keep it closes all.
LEMMA SparingSpares ==
    ASSUME IInv, NEW r \in Req, SweepOthers(r)
    PROVE  Family!FamilyNext
<1> DEFINE k == job[r].tok
           f == lineage[k]
<1>1. /\ revoked' = revoked \cup (rows \ (revoked \cup {k}))
      /\ UNCHANGED <<granted, lineage>> /\ job' = [job EXCEPT ![r] = Idle]
      /\ job[r].pc = "change_sweep"
  BY DEF SweepOthers, RevokeRows, Finish
<1>2. /\ k \in granted /\ granted \subseteq rows /\ granted \subseteq Sid
      /\ lineage \in [Sid -> Sid]
  BY <1>1 DEF IInv, TypeOK, TokensWereGranted, TokPc, GrantedTokensKeepTheirRow
<1>3. \A q \in Req : job'[q] = job[q] \/ (job'[q].pc # "consume" /\ ~Hit(q))
  BY <1>1 DEF Hit, Idle, IInv, TypeOK
<1>4. \A q \in Req : job[q].pc = "consume" => job[q].tok \in granted
  BY DEF IInv, TokensWereGranted, TokPc, RotatePc
<1> HIDE DEF k, f
<1>5. CASE k \in revoked
  <2>1. \A q \in Req : job[q].pc = "consume" => job[q].tok \in revoked'
    BY <1>1, <1>2, <1>4, <1>5
  <2> QED BY <1>1, <1>3, <2>1, RevokingCloses
<1>6. CASE k \notin revoked
  <2>1. /\ f \in Sid /\ lineage[k] = f
        /\ \A t \in granted \ revoked : lineage[t] = f => t = k
    BY <1>2, <1>6 DEF f, IInv, SingleLiveToken
  <2>2. granted \ revoked' = {k}
    BY <1>1, <1>2, <1>6
  <2>3. LiveTokens[f] = {k}
    BY <1>2, <1>6, <2>1 DEF LiveTokens
  <2>4. LiveTokens' = [g \in Sid |-> IF g = f THEN LiveTokens[f] ELSE {}]
    BY <1>1, <2>1, <2>2, <2>3 DEF LiveTokens
  <2>5. /\ Struck = {lineage[job[q].tok] : q \in {p \in Req : Hit(p)}}
        /\ Struck' = {lineage[job'[q].tok] : q \in {p \in Req : Hit(p)'}}
    BY <1>1 DEF Struck, Hit
  <2>6. \A q \in Req : Hit(q)' => lineage[job'[q].tok] = f
    <3>1. ASSUME NEW q \in Req, Hit(q)' PROVE lineage[job'[q].tok] = f
      <4>1. job'[q] = job[q] /\ job[q].tok \in granted \ revoked'
        BY <1>3, <1>4, <3>1 DEF Hit
      <4> QED BY <2>1, <2>2, <4>1
    <3> QED BY <3>1
  <2>7. \A q \in Req : Hit(q) /\ lineage[job[q].tok] = f => job'[q] = job[q] /\ Hit(q)'
    <3>1. ASSUME NEW q \in Req, Hit(q), lineage[job[q].tok] = f
          PROVE  job'[q] = job[q] /\ Hit(q)'
      <4>1. job[q].tok = k /\ job'[q] = job[q]
        BY <1>3, <1>4, <2>1, <3>1 DEF Hit
      <4>2. job[q].tok \notin revoked'
        BY <2>2, <4>1
      <4> QED BY <1>1, <3>1, <4>1, <4>2 DEF Hit
    <3> QED BY <3>1
  <2>8. \A g \in Struck' : g = f
    BY <2>5, <2>6
  <2>9. f \in Struck => f \in Struck'
    BY <2>5, <2>7
  <2>10. Struck' \in {Struck \cap {f}, {f}}
    BY <2>8, <2>9
  <2>11. Family!Spare(f)
    BY <1>1, <2>3, <2>4, <2>10 DEF Family!Spare
  <2> QED BY <2>1, <2>11 DEF Family!FamilyNext
<1> QED BY <1>5, <1>6

\* Every other revocation that hits the new row of a rotation hits the row it
\* was given as well: all rows are swept, or those of one device, or a whole
\* lineage is held; a walk and a logout touch only rows that were handed out.
LEMMA OtherRevocationsClose ==
    ASSUME IInv, ExchangesAreExposed, NEW r \in Req,
           \/ LogoutRevoke(r) \/ SweepAll(r) \/ DeviceSessions(r)
           \/ DeleteCommit(r) \/ WalkCommit(r)
    PROVE  Family!FamilyNext
<1>1. \A q \in Req : job'[q] = job[q] \/ (job'[q].pc # "consume" /\ ~Hit(q))
  <2>1. \A q \in Req \ {r} : job'[q] = job[q] \/ (job[q].pc = "join" /\ job'[q].pc = "idle")
    BY DEF LogoutRevoke, SweepAll, DeviceSessions, DeleteCommit, WalkCommit, Settle,
           Joiners, Finish, Goto, Idle, IInv, TypeOK
  <2>2. job[r].pc # "consume" /\ job'[r].pc # "consume"
    BY DEF LogoutRevoke, SweepAll, DeviceSessions, DeleteCommit, WalkCommit, Settle,
           Finish, Goto, Idle, IInv, TypeOK, Job
  <2> QED BY <2>1, <2>2 DEF Hit
<1>2. revoked \subseteq revoked' /\ UNCHANGED <<granted, lineage>>
  BY DEF LogoutRevoke, SweepAll, DeviceSessions, DeleteCommit, WalkCommit, RevokeRows, history
<1>3. ASSUME NEW q \in Req, job[q].pc = "consume", job[q].succ \in revoked' \ revoked
      PROVE  job[q].tok \in revoked'
  <2>1. /\ job[q].tok \in granted /\ job[q].tok \in rows /\ job[q].succ \notin granted
        /\ lineage[job[q].succ] = lineage[job[q].tok]
    BY <1>3 DEF IInv, TokensWereGranted, TokPc, RotatePc, GrantedTokensKeepTheirRow,
                InsertedRowsArePrivate, InsertedPc
  <2>2. CASE LogoutRevoke(r)
    <3>1. job[r].tok \in granted /\ revoked' = revoked \cup ({job[r].tok} \ revoked)
      BY <2>2 DEF LogoutRevoke, RevokeRows, IInv, TokensWereGranted, TokPc
    <3> QED BY <1>3, <2>1, <3>1
  <2>3. CASE SweepAll(r)
    BY <2>1, <2>3 DEF SweepAll, RevokeRows
  <2>4. CASE DeviceSessions(r)
    <3>1. revoked' = revoked \cup {s \in rows \ revoked : deviceOf[s] = job[r].dev}
      BY <2>4 DEF DeviceSessions, RevokeRows
    <3>2. deviceOf[job[q].succ] = deviceOf[job[q].tok]
      BY <1>3 DEF ExchangesAreExposed
    <3> QED BY <1>3, <2>1, <3>1, <3>2
  <2>5. CASE DeleteCommit(r)
    <3>1. revoked' = revoked \cup job[r].held /\ job[r].pc = "delete_commit"
      BY <2>5 DEF DeleteCommit
    <3> QED BY <1>3, <2>1, <3>1 DEF IInv, DeletionHoldsWholeLineages
  <2>6. CASE WalkCommit(r)
    <3>1. revoked' = revoked \cup job[r].held /\ job[r].held \subseteq granted
      BY <2>6 DEF WalkCommit, ExchangesAreExposed, WalkingPc
    <3> QED BY <1>3, <2>1, <3>1
  <2> QED BY <2>2, <2>3, <2>4, <2>5, <2>6
<1> QED BY <1>1, <1>2, <1>3, RevokingCloses

\* Reading, entering the map, losing a rotation and walking reach no client.
LEMMA RotationIsQuiet ==
    ASSUME IInv, NEW r \in Req,
           \/ RotateEnter(r) \/ RotateRead(r) \/ (\E b \in BOOLEAN : RotateDiscard(r, b))
           \/ WalkRead(r) \/ WalkWrite(r)
           \/ RotateConsume(r) /\ job[r].tok \in revoked
    PROVE  Family!FamilyNext
<1>1. UNCHANGED <<revoked, granted, lineage>>
  BY DEF RotateEnter, RotateRead, RotateDiscard, WalkRead, WalkWrite, RotateConsume,
         table, history
<1>2. job'[r].pc # "consume" /\ ~Hit(r)
  BY DEF RotateEnter, RotateRead, RotateDiscard, WalkRead, WalkWrite, RotateConsume,
         Settle, Goto, Idle, Hit, IInv, TypeOK, Job
<1>3. \A q \in Req \ {r} : job'[q] = job[q] \/ (job[q].pc = "join" /\ job'[q].pc = "idle")
  BY DEF RotateEnter, RotateRead, RotateDiscard, WalkRead, WalkWrite, RotateConsume,
         Settle, Joiners, Goto, Idle, IInv, TypeOK
<1>4. \A q \in Req : job'[q] = job[q] \/ (job'[q].pc # "consume" /\ ~Hit(q))
  BY <1>2, <1>3 DEF Hit
<1> QED BY <1>1, <1>4, QuietSteps

\* The session table promises the families of TokenFamilies: sign-in opens one,
\* a won rotation exchanges its live token for a live one unless a password
\* change that keeps this very session has struck it, the other revocations of
\* sessions.ts close families, and what else a request does reaches no client.
THEOREM SessionsImplementFamilies == Spec => ImplementsTokenFamilies
<1>1. Init => Family!FamilyInit
  BY DEF Init, Family!FamilyInit, LiveTokens, Struck, Idle
<1>2. Init => OldIds /\ ExchangesAreExposed
  BY DEF Init, OldIds, ExchangesAreExposed, Idle, WalkingPc, WalkPc
<1>3. IInv /\ OldIds /\ ExchangesAreExposed /\ [Next]_vars
         => [Family!FamilyNext]_(Family!familyVars)
  <2> SUFFICES ASSUME IInv, OldIds, ExchangesAreExposed, Next
               PROVE  Family!FamilyNext \/ UNCHANGED Family!familyVars
    BY DEF vars, table, history, Family!familyVars, LiveTokens, Struck
  <2>1. ASSUME NEW r \in Req, RotateStep(r)
        PROVE  Family!FamilyNext \/ UNCHANGED Family!familyVars
    <3>1. ASSUME RotateInsert(r) PROVE UNCHANGED Family!familyVars
      BY <3>1, InsertingStutters DEF Family!familyVars
    <3>2. RotateConsume(r) => Family!FamilyNext
      BY ConsumingExchanges, RotationIsQuiet
    <3> QED BY <2>1, <3>1, <3>2, RotationIsQuiet, OtherRevocationsClose DEF RotateStep
  <2>2. ASSUME NEW r \in Req, RevokeStep(r) PROVE Family!FamilyNext
    <3>1. ASSUME DeviceMark(r) \/ PasswordUpdate(r) \/ DeleteSweep(r)
          PROVE  Family!FamilyNext
      <4>1. UNCHANGED <<revoked, granted, lineage>>
        BY <3>1 DEF DeviceMark, PasswordUpdate, DeleteSweep, table, history
      <4>2. \A q \in Req : job'[q] = job[q] \/ (job'[q].pc # "consume" /\ ~Hit(q))
        BY <3>1 DEF DeviceMark, PasswordUpdate, DeleteSweep, Finish, Goto, Idle, Hit,
                    IInv, TypeOK, Job
      <4> QED BY <4>1, <4>2, QuietSteps
    <3> QED BY <2>2, <3>1, SparingSpares, OtherRevocationsClose DEF RevokeStep
  <2>3. ASSUME NEW r \in Req, Reply(r) \/ Arrive(r) PROVE Family!FamilyNext
    <3>1. UNCHANGED <<revoked, granted, lineage>>
      BY <2>3 DEF Reply, Arrive, LoginVerify, ResetPassword, RefreshFind, Logout,
                  LogoutAll, ChangePassword, DeleteAccount, RevokeDevice, Authenticate,
                  table, history
    <3>2. /\ job[r].pc \in {"idle", "reply"}
          /\ \E j : j.pc # "consume" /\ job' = [job EXCEPT ![r] = j]
      BY <2>3 DEF Reply, Finish, Arrive, LoginVerify, ResetPassword, RefreshFind, Logout,
                  LogoutAll, ChangePassword, DeleteAccount, RevokeDevice, Authenticate,
                  Start, Idle
    <3>3. \A q \in Req : job'[q] = job[q] \/ (job'[q].pc # "consume" /\ ~Hit(q))
      BY <3>2 DEF Hit, IInv, TypeOK
    <3> QED BY <3>1, <3>3, QuietSteps
  <2>4. ASSUME NEW s \in Sid, Expire(s) PROVE Family!FamilyNext
    BY <2>4, QuietSteps DEF Expire, history
  <2> QED BY <2>1, <2>2, <2>3, <2>4, SigningInOpens, AbortingForgets
          DEF Next, Step, OutOfIds
<1>4. IInv /\ OldIds /\ [Next]_vars => OldIds'
  BY NextKeepsIdsOld
<1>5. IInv /\ ExchangesAreExposed /\ [Next]_vars => ExchangesAreExposed'
  BY NextKeepsExposed
<1> QED BY <1>1, <1>2, <1>3, <1>4, <1>5, Inductive, PTL
        DEF Spec, ImplementsTokenFamilies, Family!FamilySpec
=============================================================================
