------------------------------ MODULE Sessions ------------------------------
(***************************************************************************)
(* Refresh-token sessions of ONE account: sign-in, rotation with reuse     *)
(* detection, and every way of revoking (apps/api/src/lib/sessions.ts and  *)
(* the handlers of routes/auth.ts and routes/users.ts that call it).       *)
(*                                                                         *)
(* A session row is a number; it stands for the row, for the only token    *)
(* whose digest it stores and for the access tokens naming it.  Requests   *)
(* are handled concurrently by several server processes.  Each awaited     *)
(* database statement is one atomic step of its request; the statements of *)
(* an interactive transaction are steps whose writes stay in job[r].held   *)
(* (row locks, invisible to others) until the transaction commits.         *)
(***************************************************************************)
EXTENDS Integers

CONSTANTS
    Req,         \* request slots: requests that may be in progress at once
    Proc,        \* server processes, each with its own inflightRotations map
    Device,      \* device rows of the account
    WalkCap,     \* rows the reuse walk visits at most (100 in the code)
    MaxSession,  \* bound: session rows ever created
    Serves,      \* bound: the kinds of request each slot receives
    MayExpire    \* bound: the session rows whose lifetime may run out

ASSUME NonEmptyAssumption == Device # {} /\ Proc # {}
Kind == {"login", "refresh", "logout", "logout_all", "revoke_device",
         "change_password", "reset_password", "delete_account"}

ASSUME ServesAssumption == Serves \in [Req -> SUBSET Kind]
ASSUME CapAssumption == WalkCap \in Nat \ {0} /\ MaxSession \in Nat \ {0}

VARIABLES
    nextId,        \* the next session id; ids are never used twice
    rows,          \* session rows present in the table
    revoked,       \* rows with revokedAt set (committed)
    expired,       \* rows whose expiresAt has passed
    replacedBy,    \* the replacedById column, NoRow when null
    deviceOf,      \* the deviceId column
    deviceRevoked, \* devices with revokedAt set
    deleted,       \* the account has deletedAt set and status DISABLED
    inflight,      \* keys of the processes' inflightRotations maps
    job,           \* what each request is doing
    granted,       \* history: tokens created by a sign-in or won by a rotation
    lineage,       \* history: the sign-in session a row descends from
    ended          \* history: lineages a revoke-all style sweep has covered

table == <<nextId, rows, revoked, expired, replacedBy, deviceOf>>
account == <<deviceRevoked, deleted>>
history == <<granted, lineage, ended>>
vars == <<table, account, inflight, job, history>>

Sid == 1 .. MaxSession
NoRow == 0

RotatePc == {"read", "insert", "consume", "discard",
             "walk_read", "walk_write", "walk_commit"}
Pc == RotatePc \cup
      {"idle", "create", "reply", "rotate", "join", "logout", "logout_all",
       "device_sessions", "device_mark", "change_update", "change_sweep",
       "reset_update", "reset_sweep", "delete_sweep", "delete_commit"}

Job == [pc : Pc, tok : Sid \cup {NoRow}, at : Sid \cup {NoRow},
        succ : Sid \cup {NoRow}, hops : 0 .. WalkCap, held : SUBSET Sid,
        dev : Device, home : Proc]

SomeDevice == CHOOSE d \in Device : TRUE
SomeProc == CHOOSE p \in Proc : TRUE
Idle == [pc |-> "idle", tok |-> NoRow, at |-> NoRow, succ |-> NoRow,
         hops |-> 0, held |-> {}, dev |-> SomeDevice, home |-> SomeProc]

Init ==
    /\ nextId = 1 /\ rows = {} /\ revoked = {} /\ expired = {}
    /\ replacedBy = [s \in Sid |-> NoRow]
    /\ deviceOf = [s \in Sid |-> SomeDevice]
    /\ deviceRevoked = {} /\ deleted = FALSE
    /\ inflight = {}
    /\ job = [r \in Req |-> Idle]
    /\ granted = {} /\ lineage = [s \in Sid |-> s] /\ ended = {}

-----------------------------------------------------------------------------
(* Helpers.                                                                *)

Live(s) == s \in rows \ (revoked \cup expired)

\* getAuthContext: what an access token naming session s is checked against.
Authorised(s) == Live(s) /\ deviceOf[s] \notin deviceRevoked /\ ~deleted

\* Row s is locked by a transaction of another request: an UPDATE of it waits.
Locked(r, s) == \E q \in Req \ {r} : s \in job[q].held

\* Tokens a client may hold: granted, and the response was sent.
Issued == granted \ {job[r].succ : r \in {q \in Req : job[q].pc = "reply"}}

LineagesOf(S) == {lineage[s] : s \in S}

Goto(r, pc) == job' = [job EXCEPT ![r].pc = pc]
Finish(r) == job' = [job EXCEPT ![r] = Idle]
Start(r, j) == job[r].pc = "idle" /\ job' = [job EXCEPT ![r] = j]

\* Requests of the same process waiting for r's rotation of the same token.
Joiners(r) == {q \in Req : /\ job[q].pc = "join"
                           /\ job[q].home = job[r].home
                           /\ job[q].tok = job[r].tok}

\* Mistake the runs must catch: the promise the joiners wait for never settles.
SettleAlone(r, j) ==
    /\ inflight' = inflight \ {<<job[r].home, job[r].tok>>}
    /\ job' = [job EXCEPT ![r] = j]

\* The rotation's promise settles: its map entry goes, r continues as j and
\* the joiners answer 401.
Settle(r, j) ==
    /\ inflight' = inflight \ {<<job[r].home, job[r].tok>>}
    /\ job' = [q \in Req |-> IF q = r THEN j
                             ELSE IF q \in Joiners(r) THEN Idle ELSE job[q]]

\* updateMany(... revokedAt: null) over the rows S, outside a transaction.
RevokeRows(r, S) ==
    /\ \A s \in S : ~Locked(r, s)
    /\ revoked' = revoked \cup S
    /\ UNCHANGED <<nextId, rows, expired, replacedBy, deviceOf>>

InsertRow(d, root) ==
    /\ nextId \in Sid
    /\ nextId' = nextId + 1
    /\ rows' = rows \cup {nextId}
    /\ deviceOf' = [deviceOf EXCEPT ![nextId] = d]
    /\ lineage' = [lineage EXCEPT ![nextId] = root]
    /\ UNCHANGED <<revoked, expired, replacedBy>>

-----------------------------------------------------------------------------
(* Sign-in (password login; registration and Google sign-in create their   *)
(* session the same way).                                                  *)

\* Read the user, compare the password, look up or create the device.
\* Re-using a device row never clears its revokedAt.
LoginVerify(r, d) ==
    /\ ~deleted
    /\ Start(r, [Idle EXCEPT !.pc = "create", !.dev = d])
    /\ UNCHANGED <<table, account, inflight, history>>

LoginCreate(r) ==
    /\ job[r].pc = "create"
    /\ InsertRow(job[r].dev, nextId)
    /\ granted' = granted \cup {nextId}
    /\ job' = [job EXCEPT ![r] = [Idle EXCEPT !.pc = "reply", !.succ = nextId]]
    /\ UNCHANGED <<account, inflight, ended>>

\* The response of a sign-in or a refresh carries the new token.  A lost
\* response is one whose token no client ever presents.
Reply(r) ==
    /\ job[r].pc = "reply"
    /\ Finish(r)
    /\ UNCHANGED <<table, account, inflight, history>>

-----------------------------------------------------------------------------
(* POST /auth/refresh and rotateSession.                                   *)

\* findSessionByToken, and the account check when it finds a live session.
\* A dead session still goes to rotateSession, which detects reuse there; it
\* stays dead, so that rotation can never return a token.
RefreshFind(r, s, p) ==
    /\ s \in Issued
    /\ Live(s) => ~deleted
    /\ Start(r, [Idle EXCEPT !.pc = "rotate", !.tok = s, !.home = p])
    /\ UNCHANGED <<table, account, inflight, history>>

\* Mistake the runs must catch: the in-flight map is written but not looked at.
RotateEnterUnseen(r) ==
    /\ job[r].pc = "rotate"
    /\ Goto(r, "read")
    /\ inflight' = inflight \cup {<<job[r].home, job[r].tok>>}
    /\ UNCHANGED <<table, account, history>>

RotateEnter(r) ==
    /\ job[r].pc = "rotate"
    /\ IF <<job[r].home, job[r].tok>> \in inflight
       THEN Goto(r, "join") /\ UNCHANGED inflight
       ELSE /\ Goto(r, "read")
            /\ inflight' = inflight \cup {<<job[r].home, job[r].tok>>}
    /\ UNCHANGED <<table, account, history>>

\* doRotate's first read: go on with a live token, walk the chain of a
\* rotated one, refuse any other.
RotateRead(r) ==
    LET s == job[r].tok IN
    /\ job[r].pc = "read"
    /\ \/ /\ s \in revoked /\ replacedBy[s] # NoRow
          /\ job' = [job EXCEPT ![r].pc = "walk_read", ![r].at = s]
          /\ UNCHANGED inflight
       \/ /\ \/ s \in revoked /\ replacedBy[s] = NoRow
             \/ s \notin revoked /\ s \in expired
          /\ Settle(r, Idle)
       \/ /\ Live(s)
          /\ Goto(r, "insert")
          /\ UNCHANGED inflight
    /\ UNCHANGED <<table, account, history>>

RotateInsert(r) ==
    /\ job[r].pc = "insert"
    /\ InsertRow(deviceOf[job[r].tok], lineage[job[r].tok])
    /\ job' = [job EXCEPT ![r].pc = "consume", ![r].succ = nextId]
    /\ UNCHANGED <<account, inflight, granted, ended>>

\* Mistake the runs must catch: a consume without "revokedAt: null".
RotateConsumeAnyway(r) ==
    LET s == job[r].tok
        c == job[r].succ IN
    /\ job[r].pc = "consume" /\ ~Locked(r, s)
    /\ revoked' = revoked \cup {s}
    /\ replacedBy' = [replacedBy EXCEPT ![s] = c]
    /\ granted' = granted \cup {c}
    /\ Settle(r, [Idle EXCEPT !.pc = "reply", !.succ = c])
    /\ UNCHANGED <<nextId, rows, expired, deviceOf, account, lineage, ended>>

\* Mistake the runs must catch: the count of consumed rows is not looked at.
RotateConsumeUncounted(r) ==
    LET s == job[r].tok
        c == job[r].succ IN
    /\ job[r].pc = "consume" /\ ~Locked(r, s)
    /\ revoked' = revoked \cup {s}
    /\ replacedBy' = IF s \in revoked THEN replacedBy ELSE [replacedBy EXCEPT ![s] = c]
    /\ granted' = granted \cup {c}
    /\ Settle(r, [Idle EXCEPT !.pc = "reply", !.succ = c])
    /\ UNCHANGED <<nextId, rows, expired, deviceOf, account, lineage, ended>>

\* The atomic consume: updateMany where revokedAt is null.
RotateConsume(r) ==
    LET s == job[r].tok
        c == job[r].succ IN
    /\ job[r].pc = "consume"
    /\ ~Locked(r, s)
    /\ \/ /\ s \notin revoked
          /\ revoked' = revoked \cup {s}
          /\ replacedBy' = [replacedBy EXCEPT ![s] = c]
          /\ granted' = granted \cup {c}
          /\ Settle(r, [Idle EXCEPT !.pc = "reply", !.succ = c])
       \/ /\ s \in revoked
          /\ Goto(r, "discard")
          /\ UNCHANGED <<revoked, replacedBy, granted, inflight>>
    /\ UNCHANGED <<nextId, rows, expired, deviceOf, account, lineage,
                   ended>>

\* Mistake the runs must catch: the loser deletes the row it presented.
RotateDiscardOwn(r, deletes) ==
    /\ job[r].pc = "discard"
    /\ rows' = IF deletes THEN rows \ {job[r].tok} ELSE rows
    /\ Settle(r, Idle)
    /\ UNCHANGED <<nextId, revoked, expired, replacedBy, deviceOf, account, history>>

\* The loser deletes its unissued row; a failing delete is ignored.
RotateDiscard(r, deletes) ==
    /\ job[r].pc = "discard"
    /\ deletes => ~Locked(r, job[r].succ)
    /\ rows' = IF deletes THEN rows \ {job[r].succ} ELSE rows
    /\ Settle(r, Idle)
    /\ UNCHANGED <<nextId, revoked, expired, replacedBy, deviceOf, account, history>>

\* revokeDescendantChain, one transaction.
WalkRead(r) ==
    LET s == job[r].at IN
    /\ job[r].pc = "walk_read"
    /\ job' = [job EXCEPT ![r].pc = IF s \in rows THEN "walk_write" ELSE "walk_commit",
                          ![r].succ = replacedBy[s]]
    /\ UNCHANGED <<table, account, inflight, history>>

\* Mistake the runs must catch: the walk's cap is off by one.
WalkWriteUncapped(r) ==
    LET s == job[r].at
        more == job[r].succ # NoRow /\ job[r].hops + 1 <= WalkCap IN
    /\ job[r].pc = "walk_write"
    /\ s \notin revoked => ~Locked(r, s)
    /\ job' = [job EXCEPT ![r].held = @ \cup ({s} \ revoked),
                          ![r].at = job[r].succ,
                          ![r].hops = job[r].hops + 1,
                          ![r].pc = IF more THEN "walk_read" ELSE "walk_commit"]
    /\ UNCHANGED <<table, account, inflight, history>>

WalkWrite(r) ==
    LET s == job[r].at
        more == job[r].succ # NoRow /\ job[r].hops + 1 < WalkCap IN
    /\ job[r].pc = "walk_write"
    /\ s \notin revoked => ~Locked(r, s)
    /\ job' = [job EXCEPT ![r].held = @ \cup ({s} \ revoked),
                          ![r].at = job[r].succ,
                          ![r].hops = job[r].hops + 1,
                          ![r].pc = IF more THEN "walk_read" ELSE "walk_commit"]
    /\ UNCHANGED <<table, account, inflight, history>>

WalkCommit(r) ==
    /\ job[r].pc = "walk_commit"
    /\ revoked' = revoked \cup job[r].held
    /\ Settle(r, Idle)
    /\ UNCHANGED <<nextId, rows, expired, replacedBy, deviceOf, account, history>>

-----------------------------------------------------------------------------
(* Revocation.  Each handler first passes getAuthContext.                  *)

Authenticate(r, s, j) ==
    /\ s \in Issued /\ Authorised(s)
    /\ Start(r, j)
    /\ UNCHANGED <<table, account, inflight, history>>

Logout(r, s) == Authenticate(r, s, [Idle EXCEPT !.pc = "logout", !.tok = s])

LogoutRevoke(r) ==
    /\ job[r].pc = "logout"
    /\ RevokeRows(r, {job[r].tok} \ revoked)
    /\ Finish(r)
    /\ UNCHANGED <<account, inflight, history>>

LogoutAll(r, s) == Authenticate(r, s, [Idle EXCEPT !.pc = "logout_all"])

\* revokeAllSessions (logout-all; the last step of a password reset).
SweepAll(r) ==
    /\ job[r].pc \in {"logout_all", "reset_sweep"}
    /\ RevokeRows(r, rows \ revoked)
    /\ ended' = ended \cup LineagesOf(rows)
    /\ Finish(r)
    /\ UNCHANGED <<account, inflight, granted, lineage>>

\* POST /auth/devices: sessions of the device first, then the device row.
RevokeDevice(r, s, d) ==
    /\ d \notin deviceRevoked
    /\ Authenticate(r, s, [Idle EXCEPT !.pc = "device_sessions", !.dev = d])

DeviceSessions(r) ==
    /\ job[r].pc = "device_sessions"
    /\ RevokeRows(r, {s \in rows \ revoked : deviceOf[s] = job[r].dev})
    /\ Goto(r, "device_mark")
    /\ UNCHANGED <<account, inflight, history>>

DeviceMark(r) ==
    /\ job[r].pc = "device_mark"
    /\ deviceRevoked' = deviceRevoked \cup {job[r].dev}
    /\ Finish(r)
    /\ UNCHANGED <<table, deleted, inflight, history>>

\* POST /auth/change-password: the current password was compared on the way in.
ChangePassword(r, s) ==
    Authenticate(r, s, [Idle EXCEPT !.pc = "change_update", !.tok = s])

\* POST /auth/reset-password, once the e-mailed token has been accepted (no
\* session is needed, nor that the account is still active).
ResetPassword(r) ==
    /\ Start(r, [Idle EXCEPT !.pc = "reset_update"])
    /\ UNCHANGED <<table, account, inflight, history>>

\* The stored hash is replaced: sign-ins that already compared the old one
\* carry on.
PasswordUpdate(r) ==
    /\ job[r].pc \in {"change_update", "reset_update"}
    /\ Goto(r, IF job[r].pc = "change_update" THEN "change_sweep" ELSE "reset_sweep")
    /\ UNCHANGED <<table, account, inflight, history>>

\* revokeOtherSessions(userId, keepSessionId).
SweepOthers(r) ==
    /\ job[r].pc = "change_sweep"
    /\ RevokeRows(r, rows \ (revoked \cup {job[r].tok}))
    /\ ended' = ended \cup (LineagesOf(rows) \ {lineage[job[r].tok]})
    /\ Finish(r)
    /\ UNCHANGED <<account, inflight, granted, lineage>>

\* POST /users/delete-account: one transaction of two statements.
DeleteAccount(r, s) == Authenticate(r, s, [Idle EXCEPT !.pc = "delete_sweep"])

DeleteSweep(r) ==
    /\ job[r].pc = "delete_sweep"
    /\ \A s \in rows \ revoked : ~Locked(r, s)
    /\ job' = [job EXCEPT ![r].pc = "delete_commit", ![r].held = rows \ revoked]
    /\ UNCHANGED <<table, account, inflight, history>>

DeleteCommit(r) ==
    /\ job[r].pc = "delete_commit"
    /\ revoked' = revoked \cup job[r].held
    /\ deleted' = TRUE
    /\ ended' = ended \cup LineagesOf(job[r].held)
    /\ Finish(r)
    /\ UNCHANGED <<nextId, rows, expired, replacedBy, deviceOf, deviceRevoked,
                   inflight, granted, lineage>>

-----------------------------------------------------------------------------
(* The environment.                                                        *)

\* The expiry of a revoked row is never looked at.
Expire(s) ==
    /\ s \in MayExpire \cap (rows \ (revoked \cup expired))
    /\ expired' = expired \cup {s}
    /\ UNCHANGED <<nextId, rows, revoked, replacedBy, deviceOf, account,
                   inflight, job, history>>

\* A statement of the request throws, or its process dies: the transaction
\* rolls back and the rotation's promise rejects, which frees its joiners.
Abort(r) ==
    /\ job[r].pc \notin {"idle", "join"}
    /\ IF job[r].pc \in RotatePc THEN Settle(r, Idle)
       ELSE Finish(r) /\ UNCHANGED inflight
    /\ UNCHANGED <<table, account, history>>

\* The model has no id left for a new row: the insert fails.
OutOfIds(r) == job[r].pc \in {"create", "insert"} /\ nextId \notin Sid /\ Abort(r)

RotateStep(r) ==
    \/ RotateEnter(r) \/ RotateRead(r) \/ RotateInsert(r) \/ RotateConsume(r)
    \/ \E b \in BOOLEAN : RotateDiscard(r, b)
    \/ WalkRead(r) \/ WalkWrite(r) \/ WalkCommit(r)

RevokeStep(r) ==
    \/ LogoutRevoke(r) \/ SweepAll(r) \/ DeviceSessions(r) \/ DeviceMark(r)
    \/ PasswordUpdate(r) \/ SweepOthers(r) \/ DeleteSweep(r) \/ DeleteCommit(r)

\* What the server does once a request has arrived.
Step(r) ==
    \/ LoginCreate(r)
    \/ Reply(r)
    \/ RotateStep(r)
    \/ RevokeStep(r)
    \/ OutOfIds(r)

Arrive(r) ==
    \/ "login" \in Serves[r] /\ \E d \in Device : LoginVerify(r, d)
    \/ "reset_password" \in Serves[r] /\ ResetPassword(r)
    \/ \E s \in Sid :
          \/ "refresh" \in Serves[r] /\ \E p \in Proc : RefreshFind(r, s, p)
          \/ "logout" \in Serves[r] /\ Logout(r, s)
          \/ "logout_all" \in Serves[r] /\ LogoutAll(r, s)
          \/ "change_password" \in Serves[r] /\ ChangePassword(r, s)
          \/ "delete_account" \in Serves[r] /\ DeleteAccount(r, s)
          \/ "revoke_device" \in Serves[r] /\ \E d \in Device : RevokeDevice(r, s, d)

Next ==
    \/ \E r \in Req : Arrive(r) \/ Step(r) \/ Abort(r)
    \/ \E s \in Sid : Expire(s)

Spec == Init /\ [][Next]_vars

\* Steps that update rows another request's transaction may have locked.
LockingStep(r) ==
    \/ RotateConsume(r) \/ WalkWrite(r) \/ RotateDiscard(r, TRUE)
    \/ LogoutRevoke(r) \/ SweepAll(r) \/ DeviceSessions(r) \/ SweepOthers(r)
    \/ DeleteSweep(r)

\* A process that is up runs the continuation of every settled await, and the
\* database grants a contended row lock to each waiter in turn.  Nothing
\* forces a request to arrive, a row to expire or a statement to fail.
FairSpec == Spec /\ \A r \in Req : WF_vars(Step(r)) /\ SF_vars(LockingStep(r))

-----------------------------------------------------------------------------
(* Properties.                                                             *)

TypeOK ==
    /\ nextId \in 1 .. MaxSession + 1
    /\ rows \subseteq Sid /\ revoked \subseteq Sid /\ expired \subseteq Sid
    /\ replacedBy \in [Sid -> Sid \cup {NoRow}]
    /\ deviceOf \in [Sid -> Device]
    /\ deviceRevoked \subseteq Device /\ deleted \in BOOLEAN
    /\ inflight \subseteq Proc \X Sid
    /\ job \in [Req -> Job]
    /\ granted \subseteq Sid /\ lineage \in [Sid -> Sid] /\ ended \subseteq Sid

\* However many requests and processes present the tokens of one sign-in, at
\* most one token handed out for it is unrevoked at any time: concurrent
\* rotations never fork a session (the consume of doRotate).
SingleLiveToken ==
    \A s, t \in granted \ revoked : lineage[s] = lineage[t] => s = t

\* Once a logout-all, a password reset or change, or an account deletion has
\* swept a sign-in, no token descending from it works again, not even one
\* whose rotation was half-way through when the sweep ran.
SweptLineagesStayDead ==
    \A s \in granted : lineage[s] \in ended => s \in revoked

\* A token handed to a client always keeps its row: the loser's clean-up only
\* deletes rows nobody was given.
GrantedTokensKeepTheirRow == granted \subseteq rows

\* Within a process at most one request is rotating a given token, and the map
\* has an entry exactly while one does.
OneRotationPerProcess ==
    /\ \A q, r \in Req :
          (/\ job[q].pc \in RotatePc /\ job[r].pc \in RotatePc
           /\ job[q].home = job[r].home /\ job[q].tok = job[r].tok) => q = r
    /\ inflight = {<<job[r].home, job[r].tok>> :
                     r \in {q \in Req : job[q].pc \in RotatePc}}

\* A revoked row stays revoked and a rotated row keeps its successor: nothing
\* revives a token, and the chain the reuse walk follows is never rewritten.
RevocationIsFinal ==
    [][/\ revoked \subseteq revoked'
       /\ \A s \in Sid : replacedBy[s] # NoRow => replacedBy'[s] = replacedBy[s]]_vars

\* Every request is answered; in particular a request that joined another's
\* rotation is released however that rotation ends.
RequestsFinish == \A r \in Req : job[r].pc # "idle" ~> job[r].pc = "idle"

\* A rotation under way whose new row a sweep has revoked while the row it was
\* given is still good: only revokeOtherSessions, sparing that row, does this.
Struck == {lineage[job[r].tok] :
             r \in {q \in Req : /\ job[q].pc = "consume"
                                /\ job[q].succ \in revoked
                                /\ job[q].tok \notin revoked}}

\* The session table implements the family of tokens each sign-in opens: the
\* live token of a family is the one handed out and not yet revoked, and a won
\* rotation hands out a live one unless a password change has struck it.  Rows
\* inserted but not handed out, locks, walks and joiners are all stutters.
LiveTokens == [f \in Sid |-> {s \in granted \ revoked : lineage[s] = f}]

Family == INSTANCE TokenFamilies WITH
    Token <- Sid, live <- LiveTokens, used <- granted, struck <- Struck

ImplementsTokenFamilies == Family!FamilySpec
=============================================================================
