# Money-Pilot in TLA+

This directory holds specifications of Money-Pilot (the API in `src/apps/api`,
the shared algorithms in `src/packages/shared`, the forms of `src/apps/web`) in
TLA+, the TLC configurations that check them on small instances, and proofs
that TLAPS checks. Every action is a translation of the handler that
`PROJECT.json` ("map") names for it.

## 1. The system and its parts

Money-Pilot is a personal-finance application: a Hono API over Prisma
(PostgreSQL in production, SQLite in development), a web interface, and a
package of shared algorithms. Requests are handled concurrently. A handler
awaits one SQL statement after another, so other requests run between any two
of its statements; several server processes may run against one database. No
handler takes an application lock; it relies on single statements being atomic,
on a few database transactions, and on unique indexes.

| Component | State | Operations | Interacts with | What makes it correct |
|---|---|---|---|---|
| **Sessions** `lib/sessions.ts`, `routes/auth.ts`, `routes/users.ts` | `Session` rows (token digest, `revokedAt`, `replacedById`, expiry, device), a per-process map of rotations in flight | sign-in, refresh, logout, logout-all, device revocation, password change and reset, account deletion | called by each authenticated request; writes devices and users | a sign-in never has two working tokens; a revocation is final |
| **Devices** `lib/devices.ts` | `Device` rows | upsert at sign-in, rename, revoke | sessions name a device | a revoked device authorises nothing |
| **Transaction log and transfers** `lib/finance/transactions.ts`, `transfers.ts` | `Transaction` and `Transfer` rows, soft-deleted | create, edit, delete; a leg deletes its bundle | account access is decided by households; every balance is derived from it | the log never shows half a transfer; a deleted row stays deleted |
| **Bills and recurring income** `bills.ts`, `recurringIncome.ts` | items, `BillPayment`, `IncomeReceipt` | create, edit, archive, record for the month | inserts into the log; the log is edited independently | a month is counted once; settlement and transaction are a pair |
| **Households** `households.ts`, `routes/household.ts` | `Household`, `HouseholdMember`, `HouseholdInvite`, joint accounts | found, invite, revoke, accept, permission, remove, leave, joint accounts | decides who may use joint accounts | never two owners; ownership passes by seniority; an invitation admits one member |
| **Verification tokens** `verification.ts` | `VerificationToken` rows | issue (invalidate, insert, mail), consume | registration, password reset | a link is dead once it is used or a later one was issued, up to requests that overlap |
| **Private-beta invitations, registration** `invitations.ts`, `routes/admin.ts`, `routes/auth.ts` | `Invitation` and `User` rows | create, revoke, consume inside the registration transaction | creates users and sessions | an address has one account; a failed registration keeps its invitation |
| **Rate limiter** `rateLimit.ts` | hit lists of a process | hit, sweep | the auth endpoints | at most `limit` hits in a window |
| **Google identities** `google-linking.ts`, `google-oauth.ts` | `UserIdentity` rows, OAuth cookie | link, unlink, sign in, register | creates users and sessions | an identity belongs to one account |
| **Debts** `debts.ts`, `debt-interest.ts` | debt terms | create, edit, archive; estimate | linked expenses of the log | stored terms are always valid; each payment counts once |
| **Budgets, categories** `budgets.ts`, `categories.ts` | rows of one user | create, edit, archive, default set | sums over the log | the default set arrives whole, once; a category has the kind of its entries |
| **Shared algorithms** `packages/shared/src` | none | parse and convert money, tax bands, interest | all of the above | exact rounding, no overflow |
| **Balances, dashboard, reports** `balances.ts`, `dashboard.ts`, `reports.ts` | none | read-only sums | the log | five different queries tell one story |
| **Access tokens, cookies, mail, audit** | audit rows nobody reads back | sign, format, send, append | all | — |
| **Web interface** `apps/web` | drafts, the busy flag, the rows a page has read | forms that create rows, forms that edit them | the API, through calls whose answer may be lost | one filled form makes one row; a save stores what it showed |

### What is hard here

* **Races between processes.** The in-flight map serialises the refreshes of
  one token inside a process only; between processes the conditional UPDATE of
  `doRotate` decides, and the loser has a row to clean up.
* **Decisions over stale reads.** Nearly each handler reads, awaits, and then
  writes by id. The writes that repeat the condition in their WHERE clause
  (`revokedAt: null`, `deletedAt: null`, `status: PENDING`) are the exceptions.
* **Sweeps against half-way operations.** A revoke-all covers the rows it
  finds; a rotation or a sign-in in progress inserts its row later.
* **Row locks.** An edit of a transfer locks its head, then one leg, then the
  other; a deletion locks the head and then both legs.
* **Failure in the middle.** A process may stop, or a statement fail, between
  any two statements.
* **Two rows that must agree**: transfer and legs, settlement and transaction,
  invitation and membership, household and its owner.
* **Requests nobody waits for any more.** A page unlocks its form when an answer
  is lost, while the request may still be applied; and an edit form sends every
  field as the page read it, however long ago.
* **Rounding.** Amounts, rates, instalments and tax bands are integers rounded
  at several places; each place has a half, a zero and an upper bound.

`PROJECT.json` lists these as hazards, each at its line, with the property that
catches it, or the reason why none does yet.

## 2. Modules

| Module | Models | Promise it is compared with |
|---|---|---|
| `Sessions` | the sessions of one account | `TokenFamilies` (refinement) |
| `SessionClaims`, `HouseholdClaims`, `PlannerClaims` | `Sessions`, `Households`, and `Planning` with `Calculations`, each with history variables, for what the docs say of them | — |
| `SessionsProofs` | theorems about `Sessions` | — |
| `Ledger` | plain transactions and transfers of accounts, some of them joint | `Movements` (refinement) |
| `Recurring` | bills and recurring incomes with the transactions they record | — |
| `Households` | members, owners, invitations, joint accounts | — |
| `RateLimiter` | the limiter of one process | its window |
| `Identity` (extends `RateLimiter`) | accounts, invitations, e-mailed links, Google identities, profile edits | — |
| `Arithmetic` | powers and the smaller of two numbers, for the next two | — |
| `Amounts` | parsing, showing and converting money | exact fractions |
| `Worksheets` | the loan estimate and the Kenya tax worksheet | exact amortisation; tax unit by unit |
| `Calculations` (extends `Amounts`, `Worksheets`) | an input of one of these functions, which is chosen and stays | their promises, as invariants |
| `Planning` (extends `Worksheets`) | categories, debts, budgets, archived accounts, the entries that refer to them, and the figures derived from the log | each figure with the others |
| `WebForms` | a page of the web application | — |
| `LedgerProofs`, `RecurringProofs`, `HouseholdsProofs`, `IdentityProofs`, `WebFormsProofs` | theorems about the module each is named after (`IdentityProofs` begins with the lemmas about `RateLimiter`) | — |
| `CalculationsProofs` | theorems about the functions of `Amounts` and `Worksheets`, after the lemmas on induction, sums, powers and tables they need | — |
| `PlanningProofs` (extends `CalculationsProofs` for its sums) | theorems about `Planning` | — |
| `MCSessions`, `MCSessionClaims`, `MCLedger`, `MCHouseholds`, `MCIdentity`, `MCPlannerClaims` | values of the constants, symmetry | — |
| `MCPlanner` | values for `Planning`, `Recurring` and `WebForms`, and samples for `Calculations`, in one specification | — |

### How state and actions correspond to the code

*One step per awaited statement.* `job[r]` is the control state of a request:
its `pc` names the statement that comes next and its other fields are the local
variables that the rest of the handler uses. A guard that the handler checks
between two awaits belongs to the step before it. Inside a database transaction
the rows already updated are in `job[r].held`: others do not see the new values
and an UPDATE of these rows waits. The commit publishes them. `Abort` is any
exception or crash: the request ends, uncommitted writes vanish, committed ones
stay.

*Sessions.* A session number stands for the row, for the refresh token whose
digest it stores and for the access tokens naming it. `granted` (tokens created
by a sign-in or won by a rotation), `lineage` (the sign-in a row descends from)
and `ended` (lineages a sweep has covered) are history: no guard of a server
step reads them. A client presents only tokens it was sent (`Issued`).
`RotateEnter` is the synchronous part of `rotateSession`: it looks the token up
in its process's map and becomes the rotation or a joiner. `Settle` is the
`finally`: the map entry goes and joiners answer 401. Registration and Google
sign-in create sessions by the same two calls as the login. The update of
`lastUsedAt` in the refresh handler is left out: it could only matter if the row
of a granted token were gone, which `GrantedTokensKeepTheirRow` excludes.

*TokenFamilies* is what a client may rely on. A family is a sign-in; it has at most one
live token. `Exchange` replaces it by a live one, `Close` ends families and
nothing revives them. A password change (`Spare`) is the exception that the code
makes: it keeps the row its own access token names and revokes all others, also
the row that a refresh of this very session has inserted. That family is then
`struck`: its exchange under way, if it is won, hands out a dead token (`Waste`),
or ends without handing out any (`Forget`). Only a struck exchange may do so; every
other one hands out a token that works. `Struck` in `Sessions` reads off the rows
which families these are. The run `claim_sweeps` shows that clients notice.

*Ledger.* `row[<<t, p>>]` is the head or a leg of transfer `t`. `CanUse` and
`LegsAgreed` are `resolveAccountForUser` and `legAmounts`; `Converted` is the
half-up conversion of `money.ts`, over rates with a common denominator.
Archiving accounts and changing a member's record permission happen between any
two steps. Dates and texts are left out: they travel with the amounts. A
partial edit fills a missing field with the value it has read, which is one of
the values a user could have sent.

*Recurring.* Bills and incomes run the same code up to the sign, and are one set
of items. The unique index on (item, month) fails an insert whose key is
committed and makes one wait whose key is in another open transaction. The item
and the month of a transaction are not columns; its description and notes carry
them, and the model keeps them to say what was counted.

*Households.* Membership ids are in the order of `joinedAt`. The statements that
end a transaction of this module are blind writes by id, so one step stands for
them and the commit: row locks order two such groups as a whole. The reads
before them are steps of their own. `overlapped` is history: two requests were
once in progress together.

*RateLimiter.* A bucket is a set of hits; a hit is its time, and a number that
tells it from others of the same time (the code's array holds the times in
order, and nothing asks for the order). `Attempt` is `rateLimit` with its call of
`sweep`: it looks at the hits of the key inside the window, refuses or adds one,
and once in `SweepEvery` forgets hits of every key. `admitted` is history. A restart is not an action:
it would empty `hits`, and no limit of the code survives it.

*Identity.* One step per awaited statement, as above. A link is created by
`VoidLinks` (invalidate), `CreateLink` (insert) and `Mail`, and redeemed by
`FindLink` (the lookup), `UseLink` (mark by id) and `ApplyLink`. Registration is
`Register` (the checks), `RegisterInsert`, `RegisterInvite`, `RegisterCommit`
(one transaction, whose rows nobody sees before the commit) and
`RegisterSession`. A Google sign-in is `GoogleStart` (the flow cookie),
`GoogleCallback` (the identity is looked up), `GoogleDecide` (the account is
looked up and `decideGoogleAction` is applied), and one of `GoogleLink`,
`GoogleAutoLink`, `GoogleCreate`, then `GoogleSession`. What Google answers is
an input: a subject and its verified address. `DeleteAccount`, `UnlinkFind` and
`UnlinkDelete`, `PatchRead` and `PatchWrite` are the other requests. `GoogleAutoLink`
signs in by an address that both sides have proved; its insert of the identity may
fail on the unique index or for any other reason, the code swallows the failure,
and the sign-in goes on without a link. `uses`,
`cameBy`, `since` (the links a request had invalidated before it made its own) and `overlapped` (somebody else wrote while a request ran) are history.
The new password and the sweep that follow a reset are in `Sessions`.

*Planning.* A handler checks in one step and writes in a later one, so that
another request may come between: `task[r]` holds the row or the fields to be
written. Handlers whose check the database repeats by itself (unique names) are
one step. The figures are operators over the rows, each with the scope of its
own query: `Balance` counts whoever recorded an entry, `TotalsByRange` and
`ByCategory` the personal accounts, `SpentForBudget` all of a user's entries,
`PaymentsForDebt` the entries linked to a debt. `late` and `overlapped` are
history. `UpdateAccount` archives and reopens accounts (`closed`): `CreateTransaction`
refuses an archived one, `Available` leaves it out (`Own`), and the totals still
count its entries, so what archived accounts hold (`Held`) is the difference
between the two. The dashboard's list of its six largest categories is left out; the
report's, which has them all, is `ByCategory`. Transfers and record permissions are
in `Ledger`.

*Amounts, Worksheets.* Functions without state. A number that matched the
parser's pattern is a record of its digits, so that rounding is rounding of
digits as in the code, with its sign: `ParseMoneyToMinorUnits` accepts negative
amounts, `ParseMoneyInput`, which the forms use, only those that round to a zero it may
take; the estimate and the bands are recursive functions over
integers, with the constants of the code (2^53 - 1, 10,000 basis points, the
bands and caps of the year) as CONSTANTS. The code computes with BigInt where these
functions use integers; `FromMinorUnits`, where it divides doubles, is restricted
to amounts up to `MaxShown` (10^15 minor units), below which such a quotient prints
as its decimal. The worksheet's sums throw where a total is not a safe integer
(`TotalsAreSafe`). `Calculations` makes invariants of what the functions promise:
its one variable is a calculation with its input.

*WebForms.* A behaviour follows one page. With `concern = "post"` these are the
page's forms that create rows: `Fill`, `Submit`, then the server's `Store` and
the answer `Posted`, `Refused` or `Lose`. With `concern = "edit"` it is one field
of the edit form of a row: `OpenEdit` copies what the page last read, `SaveEdit`
sends, `StoreEdit` applies, and `OtherWriter` is another tab or member. The sets
`...Fields`, `...Required`, `...Always` are the inputs of each form and the way its
save handler builds the request body (`x || undefined` or `x`), `...Takes` is the
schema of the route. `LocksOneForm` and `HeldWhileBusy` say where pages differ in
what the busy flag disables, `StaysFilled` that the form of a household invitation is
neither emptied nor hidden by its success, so that it can be sent `Again`. `promise`,
`unlocked` and `lost` are history.

### Assumptions about the database

A single statement is atomic; a transaction's writes become visible together; an
UPDATE waits for a row lock and then sees the committed row; unique indexes hold.
What a multi-row UPDATE under READ COMMITTED does about a row inserted while it
runs is finer than this, and is not modelled.

## 3. Runs

| Run | Bounds | What it shows |
|---|---|---|
| `sessions` | 3 requests (one sign-in or revocation, two refreshes), 2 processes, 1 device, 3 rows, walk cap 2, row 1 may expire | `SingleLiveToken`, `SweptLineagesStayDead`, `GrantedTokensKeepTheirRow`, `OneRotationPerProcess`, `RevocationIsFinal`, and that the rows implement `TokenFamilies` |
| `sessions_live` | the same with 2 rows and the other kinds of revocation, account deletion included | `RequestsFinish` |
| `ledger` | 2 requests, 1 user, a personal, a joint and a foreign-currency account, 2 amounts, 2 rates, 1 transfer, 1 plain row | `BundlesAreWhole`, `DeletionsStick`, `RequestsFinish`, and that the rows implement `Movements` |
| `households` | 3 users, 2 requests, 2 households, 1 invitation, 4 memberships | `AtMostOneOwner`, `OwnershipPassesToSenior`, `FailedJoinKeepsInvite`, `HandsOffOtherHouseholds`, `SerialHouseholdsAreSound` |
| `identity` | 2 requests; 3 accounts, 3 links, 3 addresses, 2 Google accounts, 1 invitation; limit 2, window 3, sweep 2, clock to 5 | `WindowsAreLimited`, `IdentitiesAreUnique`, `SupersededLinksStayDead`, `SpentLinksStayDead`, `InvitesAdmitAsIssued`, `FailedSignupKeepsInvite`, `GoogleOpensItsOwn`, `ProfileEditsAreKept` |
| `planner` | 2 requests; 2 users, 4 accounts, 2 currencies, 2 entries, 3 categories, 1 debt, 1 budget; 1 recurring item, 2 prices, 2 months, 2 transactions; 2 intents and 2 requests under way on a page; 14,154 samples | the shape of the planning state (`PlanTypeOK`; that of a page, `WebTypeOK`, is proved only), `ReadModelsAgree`, `DebtsStayListable`, `DefaultsOnlyForNewcomers`; `CountedOnce`, `PairedRows`, `SettlementsAreRecords`; `OneRowPerIntent`, `SavesAreFaithful`; `AmountsRoundHalfUp`, `WorksheetsAgree` |
| `claim_reuse` | 1 request, 4 rows, walk cap 2 | violated: a reuse kills the whole chain (README, "Refresh tokens") |
| `claim_sweeps` | 2 requests, 3 rows | violated: a password reset signs every device out (`ResetForcesReauthentication`); the device that changed the password stays signed in (`KeptSessionSurvives`) |
| `claim_paid` | 2 requests, 1 item, 2 prices, 2 months, 2 transactions | violated: a paid bill is a money movement |
| `claim_households` | 2 requests, 3 users, 1 invitation | violated: the last member to leave archives the household (`LastLeaverArchives`); a household invitation admits one user (`InvitesAreSingleUse`) |
| `claim_credentials` | 2 requests, 3 accounts, 3 links, 1 invitation | violated: only the latest link works (`OnlyLatestLinkWorks`); a link is single-use (`LinksAreSingleUse`); a private-beta invitation is single-use (`InvitationsAreSingleUse`) |
| `claim_planner` | 2 requests, 1 user, 1 account, 3 categories, 2 entries, an amount of either sign | violated: what is archived receives no new entries (`ArchivedGetNoEntries`); the default categories are for a user who has none (`DefaultsOnlyForTheEmpty`); the parser throws on a negative amount (`NegativeAmountsThrow`) |

A run that refutes several claims checks their disjunction, which each of them
implies: the behaviour that TLC reports breaks every one of them.

Each property of a passing run has a mutant in its module ("Mistake the runs must
catch"): a definition with a plausible bug, under which the same run reports the
property violated.

**Why the bounds are enough to be interesting.** A fork needs two rotations of
one token and two successors: three rows. Two processes with two refreshes give
joiners in one process as well as races across processes; the third request is
the sweep that runs in between. A chain of three rows is longer than a walk cap
of 2. Two requests on one transfer give every interleaving of an edit or a
deletion with another. Two households let a member leave one and join the other
while a request of the first still names it; three users are an owner, the
departing member and the heir. Handlers keep no state between requests, so a
race of three differs from one of two only in the sessions, where three are
used. The proofs of
section 4 remove the bounds: they hold for any number of requests, users, rows,
amounts and months.

In `identity`, three links let two requests for a link overlap after an older one
was mailed; three accounts are one from the start, one registered and one
created through Google, and of three addresses one belongs to no Google account.
The window of 3 is longer than the sweep of 2, as the code allows. `Mixes` groups
the kinds of request: those that read or write the same rows are together in
some group, and only such requests can disturb one another.

In `planner` the accounts are a joint one, two of one user in two currencies and
one of another user, so that each figure's scope leaves something out. One entry
is enough for a figure to count an entry it should not, or to miss one; the pair
makes sums of both signs and of two months. `Topics` groups the requests as
`Mixes` does: listing with creating categories, debts with edits of their terms,
debts, budgets and categories each with the entries that refer to them. The
pages are followed on their own because they meet the server only in requests.
The samples take the place of scale: the largest amount is 99,999 instead of
2^53 - 1, 100 % is 10 instead of 10,000, a loan has up to 3 months, the bands are
2 to 4 units wide. Every branch of the functions is met, on both sides of each
bound and each half, with values TLC's 32-bit integers can hold.

**What the properties allow, and where it is refuted.** Some properties excuse
overlapping requests, because the code gives way there. Where a line of the
repository promises more, a claim states that line without the excuse, and its run
shows how it fails:

* *E-mailed links.* `SupersededLinksStayDead` says that what a request invalidated stays
  so, and `SpentLinksStayDead` that a link, once redeemed or superseded, is neither found
  nor redeemed after the requests that had looked it up before. Two links that work
  and one link redeemed twice both need an overlap (`claim_credentials`).
* *Invitations.* `InvitesAdmitAsIssued` is about whom an invitation admits and with which
  role; how many, is in `claim_credentials`.
* *Sessions.* The exchange that a password change strikes is in `claim_sweeps`.
* *Default categories.* `DefaultsOnlyForNewcomers` excuses a listing that overlaps
  another one, or a first category; `DefaultsOnlyForTheEmpty` in `claim_planner` does not.
* *Archived accounts.* That the figures agree is `ReadModelsAgree`; that an entry may
  still arrive is in `claim_planner`.
* *Negative amounts.* `AmountsRoundHalfUp` gives them the rounding of their absolute
  value where the parser takes them, and says that no form does; that the parser
  should throw is refuted by `claim_planner`.

Two lines are contradicted by the code without a run of their own:

* *Google.* `routes/auth.ts:893` calls a failed insert of the identity "linked
  concurrently". The `catch` swallows every failure: `GoogleAutoLink` may fail with
  nobody else about, and the sign-in goes on with nothing linked. `GoogleOpensItsOwn`
  lets such a sign-in pass where nobody owns the Google account and the address was
  proved.
* *Limiter.* `rateLimit.ts:10` speaks of a sliding window, which the operator sets
  (README, `RATE_LIMIT_AUTH_WINDOW_SECONDS`). The sweep forgets hits older than 60 s
  whatever the window is, so in a longer window more requests get through than the
  limit. `WindowsAreLimited` measures the shorter of the two, which is the window as
  long as it is at most 60 s.

Other excuses contradict no line of the repository, and are as far as the properties
go: overlapping profile edits revert each other's fields, except for the month start
day (`ProfileEditsAreKept`); two edits of a debt, each valid against the row it read,
can store terms that make the list, the dashboard and the report fail
(`DebtsStayListable`); a lost answer can duplicate a row unless a unique name or month
forbids it, and so can the household page, where another form's answer unlocks a form
and the invitation's stays filled after success (`OneRowPerIntent`); an optional field
that was emptied in an edit form is left out of the request and keeps its value
(`SavesAreFaithful`). That property follows the field that a form shows and saves. It
says nothing of fields the user did not touch: a save from a page that has read an older
row writes them back as the page showed them, and takes back what others wrote since.

**Bounds in guards.** `MaxSession`, `MaxTransfer`, `MaxPlain`, `MaxTx`,
`MaxRow`, `MaxHome`, `MaxInvite` bound the rows ever created, `MaxPeriod` the
months, `Amount`, `Rate`, `Granted` what users enter, `Serves`, `Creating`,
`Pairs`, `Posted`, `MayArchive`, `MayExpire` which requests and events occur; an
insert beyond a bound fails as a statement may. In `households` a request that
names a row is one that would change it at that moment; what it finds later is
free. In `identity`, `Invite`, `MaxUser`, `MaxLink`, `MaxIdentity` bound the rows,
`Value` a profile field, `MaxTime` the clock, and `Mixes` the requests of a behaviour.
In `planner`, `MaxTag`, `MaxDebt`, `MaxBudget`, `MaxEntry` bound the rows; `Label`,
`Post`, `Cents`, `Principal`, `Terms`, `Patch`, `Planner` what users enter and who
does; `Topics` the requests of a behaviour (`Bounded`: one request at a time where
the topic says `alone`, one entry where it does not say `pair`). On a page,
`MaxIntent`, `MaxSent` and `MaxRows` bound the forms filled, the requests under way
and the rows of an intent, `Text` and `Optional` what is typed, `Concern` which forms
are followed; of the fields a page treats alike one is watched (`Watched`).

**Fairness.** `FairSpec` of `Sessions` and `Ledger` says that a process runs the
continuation of a settled await (weak fairness of a request's next step) and
that the database grants a contended row lock to each waiter in turn (strong
fairness of the steps that lock). Nothing forces a request to arrive, a row to
expire or a statement to fail. Deadlock is not checked as such: the system may
rest when the bounded ids are used up, and `RequestsFinish` finds a real one.
`Recurring`, `Households`, `Identity`, `Planning` and `WebForms` hold no locks across
steps but for the open transactions of a registration and of a recording, which wait
for nobody once they hold a key and may be aborted at any step: they state no fairness
and have no liveness property.

**The twelve violated claims** are sentences of the repository with which the code
disagrees; `PROJECT.json` quotes each with its line under "findings". In
`claim_reuse` the cap is 100 rows in the code and 2 in the run, and the shape of
the counterexample is the same.

## 4. Proofs

A run checks a small instance; a theorem holds for every value of the constants
that meets the named assumption of its module.

| Module | Theorems, with the property of a run that each states |
|---|---|
| `SessionsProofs` | `TypeCorrect`, `SessionsNeverFork` (`SingleLiveToken`), `SweepsAreFinal` (`SweptLineagesStayDead`), `CleanUpSparesGranted` (`GrantedTokensKeepTheirRow`), `RotationsAreShared` (`OneRotationPerProcess`), `RevocationNeverUndone` (`RevocationIsFinal`), `SessionsImplementFamilies` (`ImplementsTokenFamilies`) |
| `LedgerProofs` | `LedgerTypes`, `TransfersStayWhole` (`BundlesAreWhole`), `LocksStayExclusive`, `DeletedRowsStick` (`DeletionsStick`), `LedgerImplementsMovements` (`ImplementsMovements`) |
| `RecurringProofs` | `RecurringTypes`, `RowsStayPaired` (`PairedRows`), `MonthsCountOnce` (`CountedOnce`), `SettlementsAreFinal` (`SettlementsAreRecords`) |
| `HouseholdsProofs` | `HouseholdTypes`, `OneOwnerAtMost` (`AtMostOneOwner`), `OwnershipPasses` (`OwnershipPassesToSenior`), `FailedJoinsKeepTheInvite` (`FailedJoinKeepsInvite`), `HandsStayInTheHousehold` (`HandsOffOtherHouseholds`), `SerialRequestsAreSound` (`SerialHouseholdsAreSound`) |
| `IdentityProofs` | `IdentityTypes`, `LimiterHolds` (`WindowsAreLimited`), `AccountsStayUnique` (`IdentitiesAreUnique`), `SupersededLinksAreMarked` (`SupersededLinksStayDead`), `SpentLinksAreDead` (`SpentLinksStayDead`), `FailedSignupsKeepTheInvite` (`FailedSignupKeepsInvite`), `InvitesAdmit` (`InvitesAdmitAsIssued`), `GoogleSignsInToItsOwn` (`GoogleOpensItsOwn`), `ProfileEditsKeep` (`ProfileEditsAreKept`) |
| `WebFormsProofs` | `FormsKeepShape` (`WebTypeOK`), `IntentsMakeOneRow` (`OneRowPerIntent`), `SavesKeepTheirPromise` (`SavesAreFaithful`) |
| `PlanningProofs` | `PlanTypes` (`PlanTypeOK`), `FiguresAgree` (`ReadModelsAgree`), `ListsFailOnlyByOverlap` (`DebtsStayListable`), `DefaultsForNewcomers` (`DefaultsOnlyForNewcomers`) |
| `CalculationsProofs` | `TypedAmountsRoundHalfUp`, `ShownAmountsReadBack`, `ConversionsRoundHalfUp` and, from them, `AmountsAreRounded` (`AmountsRoundHalfUp`); `FlatLoansAgree`, `ReducingLoansAgree`, `LoansAgree`, `DocumentsInAnyOrder`, `BandsTaxEveryUnit`, `TaxWorksheetAgrees` and, from them, `WorksheetsAreRight` (`WorksheetsAgree`) |

**Assumptions.** They are about the shape of the constants: sets that the
initial states choose from are not empty (a process, a device, a user, an
account, an item, a value, a Google account), amounts, rates and bounds are
numbers, and positive where the code requires it, each account has an owner and
a currency, and what users send has the fields the input schema lets through (a
patch of a debt names neither its owner nor its currency). `Planning` adds that
accounts and default categories are finite, so that sums exist. `Amounts` and
`Worksheets` assume that their bounds are naturals, the units of rates positive, and
that the last tax band is as wide as the greatest amount; `Calculations`, that
its inputs are what the parsers and the schemas let through: digits for amounts and
rates, a sequence of documents of any length, terms of any kind. Nothing is
assumed about how many requests there are: `Req` may be any set.

**The form of the arguments.** None of the properties is inductive alone. Each
module has an inductive invariant `IInv`, a conjunction of named parts; a lemma
for each action says that it keeps the parts it could disturb, `NextKeeps`
collects them, `Inductive` is `Spec => []IInv`, and the theorems follow. TLC
checked every `IInv` on the run of its module before it was proved. The
heart of each is the same: a request works from what it has read, so the invariant
must say which part of that others cannot have changed.

*Sessions.*

1. `InsertedRowsArePrivate`: the row a rotation inserts is in no client's hands
   until the consume grants it, belongs to that request alone and to the lineage
   of the token being rotated. So the clean-up of a loser never meets a granted
   row, and granting adds a token to the right lineage.
2. `TokensWereGranted`: requests work on tokens that were handed out. The consume
   succeeds only on an unrevoked row; by `SingleLiveToken` that row is the one
   live token of its lineage, and it is revoked in the step that grants the
   successor. Hence never two; and hence nothing is granted in a swept lineage.
3. `OnlyRevokedRowsHaveSuccessors`: the consume is the only step that sets
   `replacedById`, on a row it finds unrevoked, so it never overwrites one.
4. `DeletionHoldsWholeLineages`: between the two statements of an account
   deletion the live tokens of the lineages it ends are exactly rows it has
   locked; no rotation may consume them before the commit.
5. `IdsInOrder`, `WalkOnARow`: a new row starts a lineage no sweep has covered;
   the reuse walk always stands on a row.

Given `IInv`, `OneRotationPerProcess` is kept by every step: `RotateEnter` makes the map entry in
the step in which it becomes the rotation, and `Settle` ends both at once. The
refinement of `TokenFamilies` needs two more facts. `OldIds`: nothing is revoked, or
about to be, before it was inserted. `ExchangesAreExposed`: a reuse walk goes over rows that were
handed out, so it never meets the row a rotation has inserted, and that row is on
the device of the row it replaces. From them, whatever revokes the new row of an
exchange under way revokes the old one as well, except the sweep of a password change
that keeps the old one: `HitIsLive`, `StruckStay`. So each action maps to a family's step:
a sign-in opens one, a consume exchanges its live token or, if struck, wastes it, a
password change spares, an abort or a lost consume forgets, the other sweeps close, the rest
stutters.

*Ledger.* `RowsInOrder` and `RoutesLeadElsewhere` are about the rows. `Sensible` says
that a request which amends a transfer carries amounts its two accounts agree
with, whichever accounts were archived since. `LocksTaken` says which rows a
request has locked at each statement: the head first, then the legs that are
open; with `LocksAreExclusive`, while a request has a head nobody else writes any
part of that bundle, and `BundlesAreWhole` is kept by the one commit. The
refinement of `Movements` follows, as the heads are what the log shows.

*Recurring.* `KeysAreUnique` is the unique index, `CommitsHoldTheirKey` its effect on
open transactions: a request about to commit shares its key neither with a
settlement nor with another open insert. So the pair it commits is new, and
`PairedRows` and `CountedOnce` are kept. `EditsNameARow` and `TxInOrder` keep the
edits of the log away from rows that do not exist yet.

*Households.* `Remembers` is what a request may rely on between its read and its
write: membership ids are never reused (`RowsAreNumbered`), so the id of a member
stands for the same user in the same household or for nobody; an owner stays one
until it goes; and every member who remains is at least as new as the successor
that was read, as joiners get later ids. This gives `OwnershipPassesToSenior` and
`HandsOffOtherHouseholds` under every interleaving. `SerialInv` is a second
invariant, for states in which no two requests have overlapped: at most one
request is in progress (`OneAtATime`), the homes are sound between requests
(`HomesAreSound`), and what a request has read is still so (`Recalls`).

*RateLimiter, Identity.* `LimiterInv` says that what the buckets forget is too old to
count: each hit let through in the shorter of the window and the sweep's interval
is still remembered, so counting the remembered ones is enough. `UsersInOrder` and
`LinksInOrder` say that rows come in order of their numbers, and that links which were
consumed or superseded are marked. `OneInsert` and
`Reserves` are the unique index seen by open registrations. `Knows` has three
parts: what a request carries whatever happens (`Carries`: e.g. all older links of
the account are void when the new one is inserted), what the index reserves for
it, and what is `Fresh` as long as no other request has written. From them follow
the properties that hold always and, from the last, those that are claimed of
requests nothing overlapped. `SpentLinksAreDead` needs no more than `LinksInOrder`: a
marked link is not found, and only a request that found a link redeems it.

*WebForms.* `FormsLock`: a request that is waited for locks its form unless the form
was let go before the answer, or stays filled after it. `IntentsKeepTheirForm`: an intent is asked for from one
form only. `RequestsAreAlone`: an intent that was neither lost nor let go has one
request, which the page waits for; after it is stored no other can come.
`EditsHoldValues` and `PostsPromiseNothing` keep the two kinds of page apart.

*Planning.* `EntriesFit` says that each entry, open or deleted, names a category and a
debt that suit its kind, account and author; `WillWrite` says the same of the rows
and fields that waiting requests are going to write, except of a debt edit marked
late. What others write in between cannot spoil it, because rows once made keep
their owner, kind and currency (`TagsLast`, `DebtsLast`, `EntriesLast`). Archiving an
account changes none of them; it moves a balance from `Own` to the archived, and
`ClosedStays` says that only accounts are. In
`FiguresAgree` the figures are sums over different sets of entries; `SumSplits`,
`SumByClass`, `SumOfSums` and `SumOfOpposites` relate them, and `EntriesFit` shows that
the sets split as they should. Sums over a set are folds; the lemmas obtain their
value for one more element by induction over sets (`SubsetsInOrder`), stated without an
operator parameter because the provers cannot instantiate one.

*Amounts.* `Reading` gives the number that each prefix of a row of digits is. By
`DigitsRefine` the first k digits are a whole number of units of the digit k, and
the rest is less than one such unit; so the first digit cut off says on which side of the half
the rest lies (`FirstDigitDecides`), and `CutRoundsHalfUp` follows, with its edges: more
digits cut than there are, as many, none. `ShownAmountsReadBack` needs that dropping the
zeros at the end of a fraction divides its number by the power of ten that the
parser multiplies it with again (`ZerosAtTheEnd`, `ShownDigitsRead`).

*Loans.* The interest and instalment of a flat loan are quotients (`FlatLoansAgree`). What a
reducing balance owes exactly, in units of 1/d^k after k months, has a closed form
(`OwedIs`); the quotient that the code rounds up is its zero, so the instalment is the
least that leaves nothing (`InstalmentIsLeast`), and it covers the first month's
interest. From this the balances never grow (`OneMonth`, `MonthsPass`). The schedule
rounds each month's interest; `WhatIsLeft` bounds by how much the rounded balance
can exceed the exact one, a bound that grows as a balance does (`RoundingAllowed`), and
`LastPaymentIsClose` turns it into one on the last payment. `LoansAreRepaid` shows by the
least month in which it would fail that the payments add up to the reported total.
Valid terms are refused only where the interest of the whole principal for
every month would not fit (`RefusedLoans`).

*Tax.* `DocumentsInAnyOrder` compares the walk over the documents, which stops at
the first conflict, with a condition on the set of them; that condition, and every
sum, is the same from the last document to the first (`CoverageTurned`, `TotalTurned`).
`BandsTaxEveryUnit` goes through the bands: after the first i of them, the tax so far is
that of the units below the top of band i, each at the rate of the one band it is in
(`BandOfIs`, `UnitTaxInBand`, `BandsGoOn`). Relief never exceeds what was paid, because
capping a month lowers its term of a sum over the periods (`ReliefIsBounded`).

Recursive functions are used through a table that satisfies their equation
(`TableExists`), as nothing is known of such a function before one is shown to exist.

**What the proofs changed in the model.** Two arms of the CASE in which `Ledger` says
what an UPDATE writes overlapped; they agreed on every state the run reached, but
nothing said so. Buckets of the limiter became sets, sums became
`SumFunctionOnSet`, the power in the instalment's bound became a recursive function,
and a few expressions got names (`Moves`, `LiveTokens`, `NewTag`). The fold that read
a row of digits became a recursive function. `WorksheetsAgree` had to say more than
its samples asked: that a worksheet is computed only where its totals are safe, that
valid terms are refused only for loans whose interest would not fit, and by how much
the rounding of the months may move the last payment.

**Only model-checked:**

* `RequestsFinish` of `Sessions` and `Ledger`. TLAPS proves neither liveness under
  fairness nor anything about ENABLED.
* The twelve claims, which the code violates.

## 5. Not modelled

* **Web interface:** the delete and archive buttons with their confirmations,
  filters, the sign-in, settings and tax pages, and pages that only show data.
  Edit forms parse the amount at each keystroke (`TransactionsManager.tsx:246`);
  the parser throws on an empty or unfinished number, which `Type` leaves out:
  it takes only values that parse.
* **Algorithms:** amounts beyond 10^15 minor units in an edit form, where the
  quotient of two doubles may print other digits (`MaxShown`); `formatMoney` (layout), the table of currencies,
  `suggestTaxFigures` (a proposal that the user edits).
* **Read models:** the dashboard's six largest categories, `listBills`, the income overview, household activity, the list
  of recent transactions.
* **HTTP shell:** cookies, JWT signing, the shapes of fields and error bodies,
  e-mail texts, the audit log (written after the effect, never read back, its
  failures are swallowed).
* **Devices:** renaming, and how a client key finds its row.
* **An owner's account that is deleted** keeps the household; `Households` and
  `Identity` are not composed, and `PROJECT.json` lists the hazard.
* Migrations, seeds, scripts, deployment. Names, colours, notes and dates of rows
  occur only where a unique index or a figure depends on them.

## 6. Plan

The most important behaviour comes first; items 1 to 10 are done.

1. `Sessions`, `TokenFamilies`, `MCSessions`; `SessionClaims` for the wording of
   the docs.
2. `SessionsProofs`: types, no fork, finality of sweeps and revocations.
3. `Ledger`, `Movements`, `MCLedger`.
4. `Recurring`.
5. `Households`, `MCHouseholds`, `HouseholdClaims`.
6. `RateLimiter`, `Identity`, `MCIdentity`.
7. `Amounts`, `Worksheets`, `Planning`: the algorithms, the planning tables and the
   figures derived from the log.
8. `WebForms`, `MCPlanner`, `PlannerClaims`, `MCPlannerClaims`.
9. Proofs of every safety and action property of these modules, and of the two
   refinements.
10. `Calculations`, `CalculationsProofs`: the algorithms, for every input.
11. An account that owns a household and is deleted: `Identity` composed with
    `Households`.
