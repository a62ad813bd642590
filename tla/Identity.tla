------------------------------ MODULE Identity ------------------------------
(***************************************************************************)
(* The identity side of the API: accounts, registration invitations,       *)
(* e-mailed links, Google identities and profile edits                     *)
(* (apps/api/src/routes/auth.ts with lib/verification.ts, invitations.ts,  *)
(* google-linking.ts, google-oauth.ts).  Sessions models what follows a    *)
(* sign-in; here a sign-in ends when its session is created.               *)
(*                                                                         *)
(* Each awaited database statement is one atomic step of its request.  The *)
(* rows a transaction has written stay in its job until it commits.  mix   *)
(* bounds the kinds of request that meet in one behaviour.                 *)
(***************************************************************************)
EXTENDS RateLimiter, FiniteSets

CONSTANTS
    Req,           \* request slots
    Email, NoEmail,
    FirstEmail,    \* the address of the account that exists at the start
    Subject,       \* Google accounts
    SubjectEmail,  \* the address each of them reports
    Invite,        \* bound: invitations ever created
    MaxUser,       \* bound: accounts ever created
    MaxLink,       \* bound: e-mailed links ever created
    MaxIdentity,   \* bound: identity rows ever created
    Value,         \* bound: values of a profile field
    Mixes          \* bound: the sets of request kinds that run together

ASSUME IdentityAssumption ==
    /\ NoEmail \notin Email /\ FirstEmail \in Email /\ Subject # {} /\ Value # {}
    /\ SubjectEmail \in [Subject -> Email]
    /\ MaxUser \in Nat \ {0} /\ MaxLink \in Nat \ {0} /\ MaxIdentity \in Nat \ {0}

VARIABLES
    mix,           \* the deployment's mode and the kinds of request it receives
    users, nextUser,
    invites,
    links, nextLink,
    identities, nextIdentity,
    cookie,        \* the mp_oauth_tx cookie of the browser
    profile,       \* the profile columns of the first account
    cameBy,        \* history: the invitation an account was registered with
    uses,          \* history: how often each link was consumed
    since,         \* history: the newest link when a link's issuer invalidated
    job

accounts == <<users, nextUser>>
mail == <<links, nextLink>>
google == <<identities, nextIdentity>>
tables == <<accounts, invites, mail, google, profile>>
history == <<cameBy, uses, since>>
setup == <<limiter, mix>>
vars == <<setup, tables, cookie, history, job>>

privateMode == "PRIVATE_MODE" \in mix

Kinds == {"EMAIL_VERIFY", "PASSWORD_RESET"}
User == 1 .. MaxUser
Link == 1 .. MaxLink
Ident == 1 .. MaxIdentity
None == 0
Field == {"name", "preferredCurrency", "financialMonthStartDay"}

UserRow == [state : {"absent", "active", "deleted"}, email : Email \cup {NoEmail},
            verified : BOOLEAN, role : {"USER", "ADMIN"}]
InviteRow == [state : {"absent", "pending", "used", "revoked"}, expired : BOOLEAN,
              email : Email \cup {NoEmail}, role : {"USER", "ADMIN"}]
LinkRow == [state : {"absent", "unused", "used"}, user : User \cup {None}, kind : Kinds,
            mailed : BOOLEAN, expired : BOOLEAN]
IdentityRow == [id : Ident, subject : Subject, user : User]
NoFlow == [mode |-> "NONE", user |-> None]
Flow == [mode : {"LOGIN", "LINK"}, user : User \cup {None}] \cup {NoFlow}
Pc == {"idle", "void", "create_link", "mail", "use_link", "apply",
       "reg_insert", "reg_invite", "reg_commit", "reg_session",
       "g_decide", "g_link", "g_autolink", "g_create", "g_session", "unlink", "patch"}
\* overlapped: another request or an administrator wrote while this one ran.
Job == [pc : Pc, user : User \cup {None}, kind : Kinds, link : Link \cup {None},
        email : Email \cup {NoEmail}, invite : Invite \cup {None}, role : {"USER", "ADMIN"},
        subject : Subject, mode : {"LOGIN", "LINK"}, ident : Ident \cup {None},
        owner : User \cup {None}, usable : BOOLEAN,
        form : SUBSET Field, read : [Field -> Value], overlapped : BOOLEAN]

ASSUME NoneAssumption == None \notin Invite

AnySubject == CHOOSE s \in Subject : TRUE
Default == CHOOSE v \in Value : TRUE
Idle == [pc |-> "idle", user |-> None, kind |-> "EMAIL_VERIFY", link |-> None,
         email |-> NoEmail, invite |-> None, role |-> "USER", subject |-> AnySubject,
         mode |-> "LOGIN", ident |-> None, owner |-> None, usable |-> FALSE,
         form |-> {}, read |-> [f \in Field |-> Default], overlapped |-> FALSE]
NoUser == [state |-> "absent", email |-> NoEmail, verified |-> FALSE, role |-> "USER"]

Init ==
    /\ LimiterInit
    /\ mix \in Mixes
    /\ \E v \in BOOLEAN :
         users = [u \in User |-> IF u = 1 THEN [state |-> "active", email |-> FirstEmail,
                                                verified |-> v, role |-> "USER"]
                                 ELSE NoUser]
    /\ nextUser = 2
    /\ invites = [i \in Invite |-> [state |-> "absent", expired |-> FALSE,
                                    email |-> NoEmail, role |-> "USER"]]
    /\ links = [l \in Link |-> [state |-> "absent", user |-> None, kind |-> "EMAIL_VERIFY",
                                mailed |-> FALSE, expired |-> FALSE]]
    /\ nextLink = 1
    /\ identities = {} /\ nextIdentity = 1
    /\ cookie = NoFlow
    /\ profile = [f \in Field |-> Default]
    /\ cameBy = [u \in User |-> None] /\ uses = [l \in Link |-> 0]
    /\ since = [l \in Link |-> None]
    /\ job = [r \in Req |-> Idle]

-----------------------------------------------------------------------------
(* Helpers.                                                                *)

Start(r, kind, j) == kind \in mix /\ job[r].pc = "idle" /\ job' = [job EXCEPT ![r] = j]
Finish(r) == job' = [job EXCEPT ![r] = Idle]
Goto(r, pc) == job' = [job EXCEPT ![r].pc = pc]

Touched(j) == IF j.pc = "idle" THEN j ELSE [j EXCEPT !.overlapped = TRUE]

\* r writes to the database and goes on as j.
Wrote(r, j) == job' = [q \in Req |-> IF q = r THEN j ELSE Touched(job[q])]
\* So does somebody without a slot.
WroteAll == job' = [q \in Req |-> Touched(job[q])]

Active(u) == u \in User /\ users[u].state = "active"
UserBy(e) == {u \in User : users[u].state = "active" /\ users[u].email = e}
OwnerOf(s) == {i.user : i \in {j \in identities : j.subject = s}}

\* Open transactions that have inserted an account with address e.
Inserting(e) == {q \in Req : job[q].pc \in {"reg_invite", "reg_commit"} /\ job[q].email = e}

-----------------------------------------------------------------------------
(* E-mailed links (verification.ts and the handlers that use it).          *)

\* POST /auth/forgot-password: nothing happens for an unknown, deleted or
\* unverified address.
Forgot(r, e) ==
    /\ \E u \in UserBy(e) :
         /\ users[u].verified
         /\ Start(r, "forgot", [Idle EXCEPT !.pc = "void", !.user = u, !.kind = "PASSWORD_RESET"])
    /\ UNCHANGED <<setup, tables, cookie, history>>

\* POST /auth/resend-verification of a signed-in account.
Resend(r, u) ==
    /\ Active(u) /\ ~users[u].verified
    /\ Start(r, "resend", [Idle EXCEPT !.pc = "void", !.user = u, !.kind = "EMAIL_VERIFY"])
    /\ UNCHANGED <<setup, tables, cookie, history>>

Unused(u, k) == {l \in Link : /\ links[l].state = "unused"
                              /\ links[l].user = u /\ links[l].kind = k}

\* Mistake the runs must catch: only the links that reached the inbox are
\* invalidated.
VoidMailedLinks(r) ==
    LET j == job[r] IN
    /\ j.pc = "void"
    /\ links' = [l \in Link |-> IF l \in Unused(j.user, j.kind) /\ links[l].mailed
                                THEN [links[l] EXCEPT !.state = "used"] ELSE links[l]]
    /\ Wrote(r, [j EXCEPT !.pc = "create_link", !.link = nextLink - 1])
    /\ UNCHANGED <<setup, accounts, invites, nextLink, google, profile, cookie, history>>

\* issueVerificationToken invalidates, and then inserts.  The job keeps the
\* last link that existed when it invalidated.
VoidLinks(r) ==
    LET j == job[r] IN
    /\ j.pc = "void"
    /\ links' = [l \in Link |-> IF l \in Unused(j.user, j.kind)
                                THEN [links[l] EXCEPT !.state = "used"] ELSE links[l]]
    /\ Wrote(r, [j EXCEPT !.pc = "create_link", !.link = nextLink - 1])
    /\ UNCHANGED <<setup, accounts, invites, nextLink, google, profile, cookie, history>>

CreateLink(r) ==
    LET j == job[r] IN
    /\ j.pc = "create_link" /\ nextLink \in Link
    /\ links' = [links EXCEPT ![nextLink] = [state |-> "unused", user |-> j.user,
                                             kind |-> j.kind, mailed |-> FALSE,
                                             expired |-> FALSE]]
    /\ nextLink' = nextLink + 1
    /\ since' = [since EXCEPT ![nextLink] = j.link]
    /\ Wrote(r, [j EXCEPT !.pc = "mail", !.link = nextLink])
    /\ UNCHANGED <<setup, accounts, invites, google, profile, cookie, cameBy, uses>>

\* Sending fails or succeeds; the link stays in the table either way.
Mail(r) ==
    /\ job[r].pc = "mail"
    /\ \/ links' = [links EXCEPT ![job[r].link].mailed = TRUE]
       \/ UNCHANGED links
    /\ Finish(r)
    /\ UNCHANGED <<setup, accounts, invites, nextLink, google, profile, cookie, history>>

\* consumeVerificationToken looks the digest up: the link must be unused, not
\* expired and of the handler's kind.
FindLink(r, l, kind) ==
    /\ links[l].mailed /\ links[l].state = "unused" /\ ~links[l].expired
    /\ links[l].kind = kind
    /\ Start(r, IF kind = "EMAIL_VERIFY" THEN "verify" ELSE "reset",
             [Idle EXCEPT !.pc = "use_link", !.link = l, !.user = links[l].user, !.kind = kind])
    /\ UNCHANGED <<setup, tables, cookie, history>>

\* Mistake the runs must catch: the link is only marked after the password or
\* the address has been updated.
UseLinkLate(r) ==
    LET j == job[r] IN
    /\ j.pc = "use_link"
    /\ uses' = [uses EXCEPT ![j.link] = IF @ < 2 THEN @ + 1 ELSE @]
    /\ Wrote(r, [j EXCEPT !.pc = "apply"])
    /\ UNCHANGED <<setup, tables, cookie, cameBy, since>>

\* ... and marks the row by its id, without asking for usedAt again.
UseLink(r) ==
    LET j == job[r] IN
    /\ j.pc = "use_link"
    /\ links' = [links EXCEPT ![j.link].state = "used"]
    /\ uses' = [uses EXCEPT ![j.link] = IF @ < 2 THEN @ + 1 ELSE @]
    /\ Wrote(r, [j EXCEPT !.pc = "apply"])
    /\ UNCHANGED <<setup, accounts, invites, nextLink, google, profile, cookie, cameBy,
                   since>>

\* verify-email and reset-password: both leave the address verified.  The new
\* password and the sweep of the sessions belong to Sessions.
ApplyLink(r) ==
    /\ job[r].pc = "apply"
    /\ users' = [users EXCEPT ![job[r].user].verified = TRUE]
    /\ Wrote(r, Idle)
    /\ UNCHANGED <<setup, nextUser, invites, mail, google, profile, cookie, history>>

LinkExpires(l) ==
    /\ "expire" \in mix /\ links[l].state = "unused" /\ ~links[l].expired
    /\ links' = [links EXCEPT ![l].expired = TRUE]
    /\ UNCHANGED <<setup, accounts, invites, nextLink, google, profile, cookie, history, job>>

-----------------------------------------------------------------------------
(* Invitations (invitations.ts, routes/admin.ts) and POST /auth/register.  *)

\* At most one bound email; the next invitation is the least absent one.
CreateInvitation(i, e, role) ==
    /\ "invite" \in mix
    /\ invites[i].state = "absent" /\ \A k \in Invite : k < i => invites[k].state # "absent"
    /\ invites' = [invites EXCEPT ![i] = [state |-> "pending", expired |-> FALSE,
                                          email |-> e, role |-> role]]
    /\ WroteAll
    /\ UNCHANGED <<setup, accounts, mail, google, profile, cookie, history>>

RevokeInvitation(i) ==
    /\ "invite" \in mix /\ invites[i].state = "pending"
    /\ invites' = [invites EXCEPT ![i].state = "revoked"]
    /\ WroteAll
    /\ UNCHANGED <<setup, accounts, mail, google, profile, cookie, history>>

InviteExpires(i) ==
    /\ "expire" \in mix /\ invites[i].state = "pending" /\ ~invites[i].expired
    /\ invites' = [invites EXCEPT ![i].expired = TRUE]
    /\ WroteAll
    /\ UNCHANGED <<setup, accounts, mail, google, profile, cookie, history>>

\* findInvitationByToken
Usable(i) == invites[i].state = "pending" /\ ~invites[i].expired

\* Mistake the runs must catch: the address an invitation was issued to is not
\* compared.
RegisterAnyEmail(r, e, i) ==
    /\ IF i = None THEN ~privateMode ELSE Usable(i)
    /\ UserBy(e) = {}
    /\ Start(r, "register", [Idle EXCEPT !.pc = "reg_insert", !.email = e, !.invite = i,
                             !.role = IF i = None THEN "USER" ELSE invites[i].role])
    /\ UNCHANGED <<setup, tables, cookie, history>>

\* The checks that precede the transaction: private mode, the invitation and
\* the address it was issued to, an account with this address.
Register(r, e, i) ==
    /\ IF i = None THEN ~privateMode
       ELSE Usable(i) /\ invites[i].email \in {NoEmail, e}
    /\ UserBy(e) = {}
    /\ Start(r, "register", [Idle EXCEPT !.pc = "reg_insert", !.email = e, !.invite = i,
                             !.role = IF i = None THEN "USER" ELSE invites[i].role])
    /\ UNCHANGED <<setup, tables, cookie, history>>

\* Mistake the runs must catch: no unique index on the address.
RegisterInsertUnlocked(r) ==
    LET j == job[r] IN
    /\ j.pc = "reg_insert"
    /\ Goto(r, IF j.invite = None THEN "reg_commit" ELSE "reg_invite")
    /\ UNCHANGED <<setup, tables, cookie, history>>

\* tx.user.create waits for another open insert of the address and fails on a
\* committed one.
RegisterInsert(r) ==
    LET j == job[r] IN
    /\ j.pc = "reg_insert" /\ Inserting(j.email) = {}
    /\ IF UserBy(j.email) # {} THEN Finish(r)
       ELSE Goto(r, IF j.invite = None THEN "reg_commit" ELSE "reg_invite")
    /\ UNCHANGED <<setup, tables, cookie, history>>

\* Mistake the runs must catch: the invitation is spent outside the
\* transaction, before the account is inserted.
RegisterInviteEarly(r) ==
    LET i == job[r].invite IN
    /\ job[r].pc = "reg_invite"
    /\ IF Usable(i)
       THEN /\ invites' = [invites EXCEPT ![i].state = "used"]
            /\ Wrote(r, [job[r] EXCEPT !.pc = "reg_commit"])
       ELSE Finish(r) /\ UNCHANGED invites
    /\ UNCHANGED <<setup, accounts, mail, google, profile, cookie, history>>

\* consumeInvitation reads the row again; if it is not usable any more the
\* account is rolled back.
RegisterInvite(r) ==
    /\ job[r].pc = "reg_invite"
    /\ IF Usable(job[r].invite) THEN Goto(r, "reg_commit") ELSE Finish(r)
    /\ UNCHANGED <<setup, tables, cookie, history>>

Inserted(u, e, verified, role) ==
    /\ nextUser \in User /\ u = nextUser /\ nextUser' = nextUser + 1
    /\ users' = [users EXCEPT ![u] = [state |-> "active", email |-> e,
                                      verified |-> verified, role |-> role]]

\* The invitation is updated by its id, without asking for PENDING, and the
\* transaction commits.
RegisterCommit(r) ==
    LET j == job[r] IN
    /\ j.pc = "reg_commit"
    /\ Inserted(nextUser, j.email, FALSE, j.role)
    /\ cameBy' = [cameBy EXCEPT ![nextUser] = j.invite]
    /\ invites' = IF j.invite = None THEN invites
                  ELSE [invites EXCEPT ![j.invite].state = "used"]
    /\ Wrote(r, [j EXCEPT !.pc = "reg_session", !.user = nextUser])
    /\ UNCHANGED <<setup, mail, google, profile, cookie, uses, since>>

\* Device and session, and then the first verification link.
RegisterSession(r) ==
    /\ job[r].pc = "reg_session"
    /\ job' = [job EXCEPT ![r].pc = "void", ![r].kind = "EMAIL_VERIFY"]
    /\ UNCHANGED <<setup, tables, cookie, history>>

-----------------------------------------------------------------------------
(* Continue with Google (routes/auth.ts, google-linking.ts).               *)

\* GET /auth/google/start: the flow and, to link, the signed-in account are
\* bound in a signed cookie, which replaces that of an earlier flow.
GoogleStart(mode, u) ==
    /\ "google" \in mix
    /\ IF mode = "LINK" THEN "link" \in mix /\ Active(u) ELSE u = None
    /\ cookie' = [mode |-> mode, user |-> u]
    /\ UNCHANGED <<setup, tables, history, job>>

\* The user cancels at Google, the state is that of a replaced flow, ten
\* minutes pass, or the profile has no verified address: back with an error
\* and without the cookie.
GoogleRefused ==
    /\ cookie # NoFlow
    /\ cookie' = NoFlow
    /\ UNCHANGED <<setup, tables, history, job>>

\* The callback redeems its code (Google takes it once) and reads the identity
\* of the subject with its owner.
GoogleCallback(r, s) ==
    LET owners == OwnerOf(s)
        owner == IF owners = {} THEN None ELSE CHOOSE u \in owners : TRUE IN
    /\ cookie # NoFlow
    /\ Start(r, "google", [Idle EXCEPT !.pc = "g_decide", !.subject = s,
                           !.mode = cookie.mode, !.user = cookie.user, !.owner = owner,
                           !.usable = Active(owner), !.email = SubjectEmail[s]])
    /\ cookie' = NoFlow
    /\ UNCHANGED <<setup, tables, history>>

Refuse == [pc |-> "idle", user |-> None]

\* Mistake the runs must catch: an account that never proved its address is
\* linked to the Google account of that address.
DecideUnverified(mode, owner, ownerUsable, byEmail, byEmailVerified, sessionUser, private) ==
    IF mode = "LINK"
    THEN IF owner # None THEN Refuse ELSE [pc |-> "g_link", user |-> sessionUser]
    ELSE IF owner # None
    THEN IF ownerUsable THEN [pc |-> "g_session", user |-> owner] ELSE Refuse
    ELSE IF byEmail # None THEN [pc |-> "g_autolink", user |-> byEmail]
    ELSE IF private THEN Refuse ELSE [pc |-> "g_create", user |-> None]

\* decideGoogleAction for a profile whose address is verified.  An account
\* found by its address is active: a deleted one has lost the address.
DecideGoogleAction(mode, owner, ownerUsable, byEmail, byEmailVerified, sessionUser, private) ==
    IF mode = "LINK"
    THEN IF owner # None THEN Refuse ELSE [pc |-> "g_link", user |-> sessionUser]
    ELSE IF owner # None
    THEN IF ownerUsable THEN [pc |-> "g_session", user |-> owner] ELSE Refuse
    ELSE IF byEmail # None
    THEN IF byEmailVerified THEN [pc |-> "g_autolink", user |-> byEmail] ELSE Refuse
    ELSE IF private THEN Refuse ELSE [pc |-> "g_create", user |-> None]

\* The second read, of the account by its address or of the account to link,
\* and the decision.
GoogleDecide(r) ==
    LET j == job[r]
        found == UserBy(j.email)
        byEmail == IF found = {} THEN None ELSE CHOOSE u \in found : TRUE
        d == IF j.mode = "LINK" /\ ~Active(j.user) THEN Refuse
             ELSE DecideGoogleAction(j.mode, j.owner, j.usable, byEmail,
                                     byEmail # None /\ users[byEmail].verified,
                                     j.user, privateMode) IN
    /\ j.pc = "g_decide"
    /\ IF d = Refuse THEN Finish(r)
       ELSE job' = [job EXCEPT ![r].pc = d.pc, ![r].user = d.user]
    /\ UNCHANGED <<setup, tables, cookie, history>>

NewIdentity(s, u) ==
    /\ nextIdentity \in Ident
    /\ identities' = identities \cup {[id |-> nextIdentity, subject |-> s, user |-> u]}
    /\ nextIdentity' = nextIdentity + 1

\* LINK: the unique index fails the insert of a subject linked meanwhile.
GoogleLink(r) ==
    LET j == job[r] IN
    /\ j.pc = "g_link"
    /\ IF OwnerOf(j.subject) = {}
       THEN NewIdentity(j.subject, j.user) /\ Wrote(r, Idle)
       ELSE Finish(r) /\ UNCHANGED <<google>>
    /\ UNCHANGED <<setup, accounts, invites, mail, profile, cookie, history>>

\* LOGIN of an account found by its address: the insert may fail, on the unique
\* index or for any other reason, and the sign-in goes on without it.
GoogleAutoLink(r) ==
    LET j == job[r] IN
    /\ j.pc = "g_autolink"
    /\ \/ /\ OwnerOf(j.subject) = {} /\ NewIdentity(j.subject, j.user)
          /\ Wrote(r, [j EXCEPT !.pc = "g_session"])
       \/ Goto(r, "g_session") /\ UNCHANGED <<google>>
    /\ UNCHANGED <<setup, accounts, invites, mail, profile, cookie, history>>

\* CREATE: account and identity in one transaction, either unique index ends it.
GoogleCreate(r) ==
    LET j == job[r] IN
    /\ j.pc = "g_create" /\ Inserting(j.email) = {}
    /\ IF UserBy(j.email) = {} /\ OwnerOf(j.subject) = {}
       THEN /\ Inserted(nextUser, j.email, TRUE, "USER")
            /\ NewIdentity(j.subject, nextUser)
            /\ Wrote(r, [j EXCEPT !.pc = "g_session", !.user = nextUser])
       ELSE Finish(r) /\ UNCHANGED <<accounts, google>>
    /\ UNCHANGED <<setup, invites, mail, profile, cookie, history>>

\* Device, session and cookies: the browser is signed in as the account.
GoogleSession(r) ==
    /\ job[r].pc = "g_session"
    /\ Finish(r)
    /\ UNCHANGED <<setup, tables, cookie, history>>

\* DELETE /auth/identities/google: some identity of the account is found ...
UnlinkFind(r, i) ==
    /\ i \in identities /\ Active(i.user)
    /\ Start(r, "unlink", [Idle EXCEPT !.pc = "unlink", !.user = i.user, !.ident = i.id])
    /\ UNCHANGED <<setup, tables, cookie, history>>

\* ... and, after the password check, deleted by its id.
UnlinkDelete(r) ==
    /\ job[r].pc = "unlink"
    /\ identities' = {i \in identities : i.id # job[r].ident}
    /\ Wrote(r, Idle)
    /\ UNCHANGED <<setup, accounts, invites, mail, nextIdentity, profile, cookie, history>>

\* POST /users/delete-account frees the address; identities and links stay.
DeleteAccount(u) ==
    /\ "delete" \in mix /\ Active(u)
    /\ users' = [users EXCEPT ![u].state = "deleted", ![u].email = NoEmail]
    /\ WroteAll
    /\ UNCHANGED <<setup, nextUser, invites, mail, google, profile, cookie, history>>

-----------------------------------------------------------------------------
(* PATCH /auth/me of the first account.                                    *)

\* getAuthContext reads the columns the handler falls back to.
PatchRead(r, form) ==
    /\ Active(1)
    /\ Start(r, "patch", [Idle EXCEPT !.pc = "patch", !.form = form, !.read = profile])
    /\ UNCHANGED <<setup, tables, cookie, history>>

\* Mistake the runs must catch: the month start day falls back to its default
\* as it does when the row is created.
PatchWriteDefault(r) ==
    LET j == job[r] IN
    /\ j.pc = "patch"
    /\ \E v \in [j.form -> Value] :
         profile' = [f \in Field |-> IF f \in j.form THEN v[f]
                                     ELSE IF f = "financialMonthStartDay" THEN Default
                                     ELSE j.read[f]]
    /\ Wrote(r, Idle)
    /\ UNCHANGED <<setup, accounts, invites, mail, google, cookie, history>>

\* A field that is not in the form is written as it was read, except for the
\* month start day, which is left alone.
PatchWrite(r) ==
    LET j == job[r] IN
    /\ j.pc = "patch"
    /\ \E v \in [j.form -> Value] :
         profile' = [f \in Field |-> IF f \in j.form THEN v[f]
                                     ELSE IF f = "financialMonthStartDay" THEN profile[f]
                                     ELSE j.read[f]]
    /\ Wrote(r, Idle)
    /\ UNCHANGED <<setup, accounts, invites, mail, google, cookie, history>>

\* A crash, a lost connection or a failed statement ends a request where it
\* stands: an open transaction is rolled back, what is committed stays.
Abort(r) ==
    /\ job[r].pc # "idle"
    /\ Finish(r)
    /\ UNCHANGED <<setup, tables, cookie, history>>

-----------------------------------------------------------------------------
LinkSteps(r) ==
    \/ VoidLinks(r) \/ CreateLink(r) \/ Mail(r) \/ UseLink(r) \/ ApplyLink(r)
RegisterSteps(r) ==
    RegisterInsert(r) \/ RegisterInvite(r) \/ RegisterCommit(r) \/ RegisterSession(r)
GoogleSteps(r) ==
    \/ GoogleDecide(r) \/ GoogleLink(r) \/ GoogleAutoLink(r) \/ GoogleCreate(r)
    \/ GoogleSession(r) \/ UnlinkDelete(r)

Limited ==
    /\ "limiter" \in mix /\ LimiterNext
    /\ UNCHANGED <<mix, tables, cookie, history, job>>

Next ==
    \/ Limited
    \/ \E mode \in {"LOGIN", "LINK"}, u \in User \cup {None} : GoogleStart(mode, u)
    \/ GoogleRefused
    \/ \E l \in Link : LinkExpires(l)
    \/ \E i \in Invite :
         \/ \E e \in Email \cup {NoEmail}, role \in {"USER", "ADMIN"} :
              CreateInvitation(i, e, role)
         \/ RevokeInvitation(i) \/ InviteExpires(i)
    \/ \E u \in User : DeleteAccount(u)
    \/ \E r \in Req :
         \/ \E e \in Email : Forgot(r, e) \/ \E i \in Invite \cup {None} : Register(r, e, i)
         \/ \E u \in User : Resend(r, u)
         \/ \E l \in Link, kind \in Kinds : FindLink(r, l, kind)
         \/ \E s \in Subject : GoogleCallback(r, s)
         \/ \E i \in identities : UnlinkFind(r, i)
         \/ \E form \in SUBSET Field \ {{}} : PatchRead(r, form)
         \/ LinkSteps(r) \/ RegisterSteps(r) \/ GoogleSteps(r) \/ PatchWrite(r) \/ Abort(r)

Spec == Init /\ [][Next]_vars

-----------------------------------------------------------------------------
TypeOK ==
    /\ LimiterTypeOK
    /\ users \in [User -> UserRow] /\ nextUser \in 1 .. MaxUser + 1
    /\ invites \in [Invite -> InviteRow]
    /\ links \in [Link -> LinkRow] /\ nextLink \in 1 .. MaxLink + 1
    /\ identities \subseteq IdentityRow /\ nextIdentity \in 1 .. MaxIdentity + 1
    /\ cookie \in Flow /\ profile \in [Field -> Value]
    /\ cameBy \in [User -> Invite \cup {None}] /\ uses \in [Link -> 0 .. 2]
    /\ since \in [Link -> Link \cup {None}]
    /\ job \in [Req -> Job]

(* register, the Google sign-up and both ways of linking check before they   *)
(* insert: still no two open accounts share an address and no Google account *)
(* belongs to two of them.                                                   *)
IdentitiesAreUnique ==
    /\ \A u, w \in User : Active(u) /\ Active(w) /\ users[u].email = users[w].email => u = w
    /\ \A i, k \in identities : i.subject = k.subject => i = k

\* Link m was issued by a request that had invalidated the older links, l one
\* of them.
Supersedes(m, l) ==
    /\ links[m].state # "absent" /\ l <= since[m]
    /\ links[l].user = links[m].user /\ links[l].kind = links[m].kind

(* issueVerificationToken invalidates and then inserts: the links of an      *)
(* account and kind that existed when it invalidated are marked before the   *)
(* new one exists, and stay so, however requests overlap.  (Two links made   *)
(* by overlapping requests may both work: OnlyLatestLinkWorks.)              *)
SupersededLinksStayDead ==
    \A l \in Link :
        \/ \E m \in Link : Supersedes(m, l)
        \/ \E r \in Req : /\ job[r].pc = "create_link" /\ l <= job[r].link
                          /\ links[l].user = job[r].user /\ links[l].kind = job[r].kind
        => links[l].state = "used"

\* A link that was redeemed or superseded, and that no request in progress
\* looked up before.
Spent(l) ==
    /\ uses[l] >= 1 \/ \E m \in Link : Supersedes(m, l)
    /\ \A r \in Req : job[r].link = l => job[r].pc # "use_link"

(* consumeVerificationToken looks the link up, and then marks it by its id:  *)
(* a request that looked it up in time redeems it whatever happened since    *)
(* (LinksAreSingleUse), but once such requests are through, a link that was  *)
(* redeemed or superseded is neither found nor redeemed ever again.          *)
SpentLinksStayDead ==
    [][\A l \in Link : Spent(l) => Spent(l)' /\ uses'[l] = uses[l]]_vars

(* register with an invitation: however it overlaps other registrations and  *)
(* the administrator, the account gets the role the invitation names and the *)
(* address it was issued to; in private mode nobody comes without one.  (How *)
(* many accounts one invitation admits is InvitationsAreSingleUse.)          *)
InvitesAdmitAsIssued ==
    [][\A u \in User : cameBy'[u] # cameBy[u] \/ (users[u].state # users'[u].state
                                                  /\ users'[u].state = "active") =>
          LET i == cameBy'[u] IN
          IF i = None THEN ~privateMode
          ELSE /\ users'[u].role = invites[i].role
               /\ invites[i].email \in {NoEmail, users'[u].email}]_vars

(* invitations.ts:55 "a failed signup never burns the invite": an invitation *)
(* becomes used only in the step that commits an account registered with it. *)
FailedSignupKeepsInvite ==
    [][\A i \in Invite : invites[i].state = "pending" /\ invites'[i].state = "used" =>
          \E u \in User : cameBy[u] # i /\ cameBy'[u] = i]_vars

(* The Google callback acts on rows it has read, and signs in even when it   *)
(* could not link: a request that nothing overlapped opens an active account *)
(* that owns the Google account or, when nobody owns that, one that proved   *)
(* the address Google vouches for; and it links only such an account.        *)
GoogleOpensItsOwn ==
    \A r \in Req :
        LET j == job[r]
            proved == users[j.user].verified /\ users[j.user].email = j.email IN
        ~j.overlapped =>
            /\ j.pc = "g_session" =>
                  /\ Active(j.user)
                  /\ j.user \in OwnerOf(j.subject) \/ (OwnerOf(j.subject) = {} /\ proved)
            /\ j.pc = "g_autolink" => proved

(* PATCH /auth/me writes columns that were not in the form: alone, it never  *)
(* changes one of them, and overlapped it never touches the month start day. *)
ProfileEditsAreKept ==
    [][\A f \in Field : profile'[f] # profile[f] =>
          \E r \in Req : /\ job[r].pc = "patch"
                         /\ \/ f \in job[r].form
                            \/ job[r].overlapped /\ f # "financialMonthStartDay"]_vars

-----------------------------------------------------------------------------
(* What comments and the README say of these tables, and overlapping         *)
(* requests or a failed statement refute.                                    *)

(* verification.ts:6 "so only the latest email link works": of the links of  *)
(* one account and kind at most one can be redeemed.                         *)
OnlyLatestLinkWorks ==
    \A l, m \in Link :
        LET works(k) == links[k].state = "unused" /\ ~links[k].expired IN
        works(l) /\ works(m) /\ links[l].user = links[m].user /\ links[l].kind = links[m].kind
        => l = m

(* verification.ts:5 "a single-use verification token".                      *)
LinksAreSingleUse == \A l \in Link : uses[l] <= 1

(* README.md:244 "Invitation tokens are stored only as digests and are       *)
(* single-use", and schema.prisma:239: one invitation, one account.          *)
InvitationsAreSingleUse ==
    \A u, w \in User : cameBy[u] = cameBy[w] /\ cameBy[u] # None => u = w

(* The three fail together: their disjunction, which each of them implies,   *)
(* does not hold, so one behaviour refutes them all.                         *)
CredentialsWorkAsDocumented ==
    OnlyLatestLinkWorks \/ LinksAreSingleUse \/ InvitationsAreSingleUse
=============================================================================
