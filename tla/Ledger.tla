------------------------------- MODULE Ledger -------------------------------
(***************************************************************************)
(* The transaction log that every balance is derived from                  *)
(* (apps/api/src/lib/finance/transactions.ts and transfers.ts): plain      *)
(* income and expense rows, and transfers, each a Transfer row (the head)  *)
(* with two linked rows, the legs.                                         *)
(*                                                                         *)
(* A request first reads what it needs to be allowed, in one step, and     *)
(* writes in later steps, so what it read may be stale when it writes.     *)
(* Inside an interactive transaction each UPDATE is a step that waits for  *)
(* the lock of the rows it changes; the new values are visible to others   *)
(* at the commit.  Dates and texts travel with the amounts and are left    *)
(* out.                                                                    *)
(***************************************************************************)
EXTENDS Integers

CONSTANTS
    Req,          \* request slots
    User, Account,
    Joint,        \* the owner of a household's joint accounts
    Owner,        \* the user who owns an account, or Joint
    Currency,     \* the currency of an account
    Amount,       \* bound: the amounts users enter, in minor units
    Rate, Scale,  \* bound: the exchange rates users enter, over Scale
    MaxTransfer, MaxPlain, \* bounds: rows ever created
    Creating,     \* bound: the slots that receive requests to create rows
    Pairs,        \* bound: the accounts users transfer between
    Posted,       \* bound: the accounts of plain rows
    MayArchive    \* bound: the accounts that may be archived

ASSUME AccountAssumption ==
    /\ Owner \in [Account -> User \cup {Joint}] /\ Account # {}
    /\ Creating \subseteq Req /\ Pairs \subseteq Account \X Account
    /\ Posted \subseteq Account /\ MayArchive \subseteq Account
ASSUME AmountAssumption ==
    Amount \subseteq Nat \ {0} /\ Rate \subseteq Nat \ {0} /\ Scale \in Nat \ {0}
ASSUME BoundAssumption == MaxTransfer \in Nat \ {0} /\ MaxPlain \in Nat \ {0}

VARIABLES
    route,      \* the accounts of each transfer
    row,        \* the head and the legs of each transfer, as committed
    plain,      \* income and expense rows, as committed
    nextTransfer, nextPlain,
    archived,   \* accounts with archivedAt set
    recorders,  \* members of the household with canRecord
    job         \* what each request is doing

bundles == <<route, row, nextTransfer>>
plains == <<plain, nextPlain>>
others == <<archived, recorders>>
vars == <<bundles, plains, others, job>>

Tid == 1 .. MaxTransfer
Pid == 1 .. MaxPlain
Part == {"head", "out", "in"}
Rid == Tid \X Part
Legs(t) == {<<t, "out">>, <<t, "in">>}
State == {"absent", "open", "deleted"}
NoRate == 0

Row == [amt : Int, rate : Nat, state : State]
Absent == [amt |-> 0, rate |-> NoRate, state |-> "absent"]
Plain == [acct : Account, amt : Int, state : State]

Pc == {"idle", "insert", "update_head", "update_out", "update_in",
       "delete_head", "delete_legs", "commit", "plain_insert", "plain_update",
       "plain_delete"}
Change == {"update", "delete"}
Job == [pc : Pc, change : Change, id : Tid \cup Pid, from : Account, to : Account,
        amt : Int, rate : Nat, held : SUBSET Rid]

SomeAccount == CHOOSE a \in Account : TRUE
Idle == [pc |-> "idle", change |-> "update", id |-> 1, from |-> SomeAccount,
         to |-> SomeAccount, amt |-> 0, rate |-> NoRate, held |-> {}]

Init ==
    /\ route = [t \in Tid |-> [from |-> SomeAccount, to |-> SomeAccount]]
    /\ row = [x \in Rid |-> Absent]
    /\ plain = [p \in Pid |-> [acct |-> SomeAccount, amt |-> 0, state |-> "absent"]]
    /\ nextTransfer = 1 /\ nextPlain = 1
    /\ archived = {} /\ recorders = {}
    /\ job = [r \in Req |-> Idle]

-----------------------------------------------------------------------------
(* Helpers.                                                                *)

\* resolveAccountForUser and the canUse of getAccessibleTransfer.
CanUse(u, a) == IF Owner[a] = Joint THEN u \in recorders ELSE Owner[a] = u

\* convertMinorUnitsWithRate: rounded half up.
Converted(x, k) == (2 * x * k + Scale) \div (2 * Scale)

\* legAmounts: same currency takes no rate; another one needs a rate that does
\* not round the amount away.
Arrives(x, k) == IF k = NoRate THEN x ELSE Converted(x, k)
LegsAgreed(a, b, x, k) ==
    IF Currency[a] = Currency[b] THEN k = NoRate
    ELSE k \in Rate /\ Converted(x, k) > 0

Open(x) == row[x].state = "open"
Locked(r, x) == \E q \in Req \ {r} : x \in job[q].held

Start(r, j) == job[r].pc = "idle" /\ job' = [job EXCEPT ![r] = j]
Finish(r) == job' = [job EXCEPT ![r] = Idle]

\* An UPDATE inside r's transaction of the rows S, then on to pc.
Write(r, S, pc) ==
    /\ \A x \in S : ~Locked(r, x)
    /\ job' = [job EXCEPT ![r].held = @ \cup S, ![r].pc = pc]
    /\ UNCHANGED <<bundles, plains, others>>

\* Mistake the runs must catch: an edit forgets that the source leg is negative.
WrittenUnsigned(j, x) ==
    IF j.change = "delete" THEN [row[x] EXCEPT !.state = "deleted"]
    ELSE CASE x[2] = "head" -> [row[x] EXCEPT !.amt = j.amt, !.rate = j.rate]
           [] x[2] = "out" -> [row[x] EXCEPT !.amt = j.amt]
           [] x[2] = "in" -> [row[x] EXCEPT !.amt = Arrives(j.amt, j.rate)]

\* The value the transaction of job j gives row x of its transfer.
Written(j, x) ==
    IF j.change = "delete" THEN [row[x] EXCEPT !.state = "deleted"]
    ELSE CASE x[2] = "head" -> [row[x] EXCEPT !.amt = j.amt, !.rate = j.rate]
           [] x[2] = "out" -> [row[x] EXCEPT !.amt = -j.amt]
           [] x[2] = "in" -> [row[x] EXCEPT !.amt = Arrives(j.amt, j.rate)]

-----------------------------------------------------------------------------
(* Transfers.                                                              *)

CreateTransfer(r, u, a, b, x, k) ==
    /\ a # b
    /\ CanUse(u, a) /\ CanUse(u, b)
    /\ {a, b} \cap archived = {}
    /\ LegsAgreed(a, b, x, k)
    /\ Start(r, [Idle EXCEPT !.pc = "insert", !.from = a, !.to = b, !.amt = x, !.rate = k])
    /\ UNCHANGED <<bundles, plains, others>>

\* Mistake the runs must catch: the three inserts are not one transaction, and
\* the request may stop after the second.
InsertTransferTorn(r) ==
    LET j == job[r]
        t == nextTransfer IN
    /\ j.pc = "insert" /\ t \in Tid
    /\ nextTransfer' = t + 1
    /\ route' = [route EXCEPT ![t] = [from |-> j.from, to |-> j.to]]
    /\ \E last \in {"out", "in"} :
         row' = [row EXCEPT
           ![<<t, "head">>] = [amt |-> j.amt, rate |-> j.rate, state |-> "open"],
           ![<<t, "out">>] = [amt |-> -j.amt, rate |-> NoRate, state |-> "open"],
           ![<<t, "in">>] = IF last = "in"
                THEN [amt |-> Arrives(j.amt, j.rate), rate |-> NoRate, state |-> "open"]
                ELSE @]
    /\ Finish(r)
    /\ UNCHANGED <<plains, others>>

\* The head and both legs, in one transaction.
InsertTransfer(r) ==
    LET j == job[r]
        t == nextTransfer IN
    /\ j.pc = "insert" /\ t \in Tid
    /\ nextTransfer' = t + 1
    /\ route' = [route EXCEPT ![t] = [from |-> j.from, to |-> j.to]]
    /\ row' = [row EXCEPT
           ![<<t, "head">>] = [amt |-> j.amt, rate |-> j.rate, state |-> "open"],
           ![<<t, "out">>] = [amt |-> -j.amt, rate |-> NoRate, state |-> "open"],
           ![<<t, "in">>] = [amt |-> Arrives(j.amt, j.rate), rate |-> NoRate,
                             state |-> "open"]]
    /\ Finish(r)
    /\ UNCHANGED <<plains, others>>

\* updateTransfer.  A field the user leaves out keeps the value just read,
\* which is one of the values the user could have sent.
UpdateTransfer(r, u, t, x, k) ==
    LET a == route[t].from
        b == route[t].to IN
    /\ Open(<<t, "head">>)
    /\ CanUse(u, a) /\ CanUse(u, b)
    /\ LegsAgreed(a, b, x, k)
    /\ Start(r, [Idle EXCEPT !.pc = "update_head", !.id = t, !.amt = x, !.rate = k])
    /\ UNCHANGED <<bundles, plains, others>>

UpdateHead(r) ==
    /\ job[r].pc = "update_head"
    /\ Write(r, {<<job[r].id, "head">>}, "update_out")

\* Mistake the runs must catch: only the source leg is recomputed.
UpdateOutOnly(r) ==
    /\ job[r].pc = "update_out"
    /\ Write(r, {x \in {<<job[r].id, "out">>} : Open(x)}, "commit")

UpdateOut(r) ==
    /\ job[r].pc = "update_out"
    /\ Write(r, {x \in {<<job[r].id, "out">>} : Open(x)}, "update_in")

UpdateIn(r) ==
    /\ job[r].pc = "update_in"
    /\ Write(r, {x \in {<<job[r].id, "in">>} : Open(x)}, "commit")

\* deleteTransfer, and deleteTransaction of a leg: the latter asks only for
\* the leg's own account.
DeleteTransfer(r, u, t) ==
    /\ Open(<<t, "head">>)
    /\ CanUse(u, route[t].from) /\ CanUse(u, route[t].to)
    /\ Start(r, [Idle EXCEPT !.pc = "delete_head", !.change = "delete", !.id = t])
    /\ UNCHANGED <<bundles, plains, others>>

DeleteLeg(r, u, t, p) ==
    /\ Open(<<t, p>>)
    /\ CanUse(u, IF p = "out" THEN route[t].from ELSE route[t].to)
    /\ Start(r, [Idle EXCEPT !.pc = "delete_head", !.change = "delete", !.id = t])
    /\ UNCHANGED <<bundles, plains, others>>

\* Mistake the runs must catch: the legs are locked before the head.
DeleteHeadLast(r) ==
    \/ /\ job[r].pc = "delete_head" /\ job[r].held = {}
       /\ Write(r, {x \in Legs(job[r].id) : Open(x)}, "delete_head")
    \/ /\ job[r].pc = "delete_head" /\ job[r].held # {}
       /\ Write(r, {<<job[r].id, "head">>}, "commit")

DeleteHead(r) ==
    /\ job[r].pc = "delete_head"
    /\ Write(r, {<<job[r].id, "head">>}, "delete_legs")

DeleteLegs(r) ==
    /\ job[r].pc = "delete_legs"
    /\ Write(r, {x \in Legs(job[r].id) : Open(x)}, "commit")

\* Mistake the runs must catch: an edit writes the whole row back as it was
\* read, open.
CommitAsRead(r) ==
    LET j == job[r] IN
    /\ j.pc = "commit"
    /\ row' = [x \in Rid |-> IF x \in j.held
                             THEN IF j.change = "delete" THEN Written(j, x)
                                  ELSE [Written(j, x) EXCEPT !.state = "open"]
                             ELSE row[x]]
    /\ Finish(r)
    /\ UNCHANGED <<route, nextTransfer, plains, others>>

Commit(r) ==
    LET j == job[r] IN
    /\ j.pc = "commit"
    /\ row' = [x \in Rid |-> IF x \in j.held THEN Written(j, x) ELSE row[x]]
    /\ Finish(r)
    /\ UNCHANGED <<route, nextTransfer, plains, others>>

-----------------------------------------------------------------------------
(* Plain transactions: an expense is stored negative.                      *)

CreateTransaction(r, u, a, x) ==
    /\ CanUse(u, a) /\ a \notin archived
    /\ Start(r, [Idle EXCEPT !.pc = "plain_insert", !.from = a, !.amt = x])
    /\ UNCHANGED <<bundles, plains, others>>

InsertTransaction(r) ==
    /\ job[r].pc = "plain_insert" /\ nextPlain \in Pid
    /\ nextPlain' = nextPlain + 1
    /\ plain' = [plain EXCEPT ![nextPlain] =
                    [acct |-> job[r].from, amt |-> job[r].amt, state |-> "open"]]
    /\ Finish(r)
    /\ UNCHANGED <<bundles, others>>

\* The new amount takes the sign of the stored kind.
UpdateTransaction(r, u, p, x) ==
    /\ plain[p].state = "open" /\ CanUse(u, plain[p].acct)
    /\ Start(r, [Idle EXCEPT !.pc = "plain_update", !.id = p,
                             !.amt = IF plain[p].amt < 0 THEN -x ELSE x])
    /\ UNCHANGED <<bundles, plains, others>>

DeleteTransaction(r, u, p) ==
    /\ plain[p].state = "open" /\ CanUse(u, plain[p].acct)
    /\ Start(r, [Idle EXCEPT !.pc = "plain_delete", !.id = p])
    /\ UNCHANGED <<bundles, plains, others>>

\* One UPDATE by id: it does not look at deletedAt again.
WriteTransaction(r) ==
    LET p == job[r].id IN
    /\ \/ /\ job[r].pc = "plain_update"
          /\ plain' = [plain EXCEPT ![p].amt = job[r].amt]
       \/ /\ job[r].pc = "plain_delete"
          /\ plain' = [plain EXCEPT ![p].state = "deleted"]
    /\ Finish(r)
    /\ UNCHANGED <<bundles, nextPlain, others>>

-----------------------------------------------------------------------------
(* The environment.                                                        *)

\* updateAccount, updateJointAccount.
SetArchived(a, b) ==
    /\ archived' = IF b THEN archived \cup {a} ELSE archived \ {a}
    /\ UNCHANGED <<bundles, plains, recorders, job>>

\* Joining or leaving the household, or a change of record permission.
SetRecorder(u, b) ==
    /\ recorders' = IF b THEN recorders \cup {u} ELSE recorders \ {u}
    /\ UNCHANGED <<bundles, plains, archived, job>>

\* A statement fails or the process dies: the transaction rolls back.
Abort(r) ==
    /\ job[r].pc # "idle"
    /\ Finish(r)
    /\ UNCHANGED <<bundles, plains, others>>

\* The model has no id left for a new row: the insert fails.
OutOfIds(r) ==
    /\ \/ job[r].pc = "insert" /\ nextTransfer \notin Tid
       \/ job[r].pc = "plain_insert" /\ nextPlain \notin Pid
    /\ Abort(r)

ArriveCreate(r, u) ==
    \/ \E e \in Pairs, x \in Amount, k \in Rate \cup {NoRate} :
          CreateTransfer(r, u, e[1], e[2], x, k)
    \/ \E a \in Posted, x \in Amount, s \in {-1, 1} : CreateTransaction(r, u, a, s * x)

ArriveChange(r, u) ==
    \/ \E t \in Tid :
          \/ \E x \in Amount, k \in Rate \cup {NoRate} : UpdateTransfer(r, u, t, x, k)
          \/ DeleteTransfer(r, u, t)
          \/ \E p \in {"out", "in"} : DeleteLeg(r, u, t, p)
    \/ \E p \in Pid :
          \/ \E x \in Amount : UpdateTransaction(r, u, p, x)
          \/ DeleteTransaction(r, u, p)

Arrive(r, u) == (r \in Creating /\ ArriveCreate(r, u)) \/ ArriveChange(r, u)

Step(r) ==
    \/ InsertTransfer(r)
    \/ UpdateHead(r) \/ UpdateOut(r) \/ UpdateIn(r)
    \/ DeleteHead(r) \/ DeleteLegs(r)
    \/ Commit(r)
    \/ InsertTransaction(r) \/ WriteTransaction(r)
    \/ OutOfIds(r)

Next ==
    \/ \E r \in Req : (\E u \in User : Arrive(r, u)) \/ Step(r) \/ Abort(r)
    \/ \E a \in MayArchive, b \in BOOLEAN : SetArchived(a, b)
    \/ \E u \in User, b \in BOOLEAN : SetRecorder(u, b)

Spec == Init /\ [][Next]_vars

\* The database grants a row lock to each waiter in turn; a process that is up
\* runs the continuation of every settled await.
FairSpec == Spec /\ \A r \in Req : SF_vars(Step(r))

-----------------------------------------------------------------------------
(* Properties.                                                             *)

TypeOK ==
    /\ route \in [Tid -> [from : Account, to : Account]]
    /\ row \in [Rid -> Row]
    /\ \A t \in Tid : -row[<<t, "out">>].amt \in Nat /\ row[<<t, "in">>].amt \in Nat
    /\ plain \in [Pid -> Plain]
    /\ nextTransfer \in 1 .. MaxTransfer + 1 /\ nextPlain \in 1 .. MaxPlain + 1
    /\ archived \subseteq Account /\ recorders \subseteq User
    /\ job \in [Req -> Job]

\* However edits and deletions of a transfer interleave or fail half-way, an
\* open transfer has two open legs that carry exactly its amount and rate, and
\* a deleted one has none: the log never shows half a transfer.
BundlesAreWhole ==
    \A t \in Tid :
        LET head == row[<<t, "head">>]
            out == row[<<t, "out">>]
            in == row[<<t, "in">>] IN
        /\ out.state = head.state /\ in.state = head.state
        /\ head.state = "open" => /\ out.amt = -head.amt
                                  /\ in.amt = Arrives(head.amt, head.rate)

\* A deleted row stays deleted, even when an edit that was allowed before the
\* deletion writes after it: no edit resurrects money.
DeletionsStick ==
    [][/\ \A x \in Rid : row[x].state = "deleted" => row'[x].state = "deleted"
       /\ \A p \in Pid : plain[p].state = "deleted" => plain'[p].state = "deleted"]_vars

\* Every request finishes: transactions on the same transfer take their locks
\* in the same order, so none waits for ever.
RequestsFinish == \A r \in Req : job[r].pc # "idle" ~> job[r].pc = "idle"

\* The rows implement transfers that move money in one instant.
Moved(x) == IF Open(x) THEN row[x].amt ELSE 0
Worth(a, b, x) ==
    IF Currency[a] = Currency[b] THEN {x} ELSE {Converted(x, k) : k \in Rate} \ {0}
Moves == [t \in Tid |-> [status |-> row[<<t, "head">>].state,
                        from |-> route[t].from, to |-> route[t].to,
                        paid |-> -Moved(<<t, "out">>), got |-> Moved(<<t, "in">>)]]
Books == INSTANCE Movements WITH Transfer <- Tid, moved <- Moves

ImplementsMovements == Books!MovementsSpec
=============================================================================
