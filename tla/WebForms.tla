------------------------------ MODULE WebForms ------------------------------
(***************************************************************************)
(* A page of the web application (apps/web/src/components): its forms send *)
(* requests that the server may apply and whose answers may be lost, while *)
(* other tabs, devices and household members change the same rows.         *)
(* A behaviour follows either the forms that create rows ("post") or one   *)
(* field of one row's edit form ("edit").                                  *)
(***************************************************************************)
EXTENDS Integers

CONSTANTS
    Text,       \* bound: what users write in a required field; never Empty
    Optional,   \* bound: what they write in another one, unless they leave it Empty
    MaxIntent,  \* bound: forms a user fills
    MaxSent,    \* bound: requests sent and not settled
    MaxRows,    \* bound: rows an intent makes
    Concern     \* bound: of "post" and "edit"

Empty == 0
ASSUME WebAssumption ==
    Text \cup Optional \subseteq Nat \ {Empty} /\ Text # {} /\ MaxIntent \in Nat

-----------------------------------------------------------------------------
(* The pages: what their edit forms show and insist on (asks, required),   *)
(* what a save sends whatever it holds (always) or only when it is filled  *)
(* in, and what the server's schema takes.                                 *)

TransactionsFields == {"amount", "transactionDate", "description", "merchant", "categoryId", "debtId"}
TransactionsRequired == {"amount", "transactionDate"}
TransactionsAlways == {"debtId", "amount", "transactionDate"}
TransactionsTakes == {"debtId", "amount", "transactionDate", "description", "merchant", "notes",
                      "categoryId"}

BillsFields == {"name", "amount", "dueDay", "categoryId", "notes"}
BillsRequired == {"name", "amount", "dueDay"}
BillsAlways == {"amount", "dueDay"}
BillsTakes == {"name", "amount", "dueDay", "categoryId", "notes", "archived"}

\* The four interest fields are shown by DebtInterestFields.
InterestFields == {"interestMethod", "interestPeriod", "interestRate", "startDate", "termMonths"}
DebtsFields == {"name", "principal", "institution", "minimumPayment", "dueDay", "categoryId", "notes"}
               \cup InterestFields
DebtsRequired == {"name", "principal", "interestMethod", "interestPeriod"}
DebtsAlways == {"principal", "minimumPayment"} \cup InterestFields
DebtsTakes == {"name", "type", "institution", "principal", "minimumPayment", "dueDay", "categoryId",
               "notes", "archived"} \cup InterestFields

BudgetsFields == {"name", "amount", "notes"}
BudgetsRequired == {"name", "amount"}
BudgetsAlways == {"amount"}
BudgetsTakes == {"name", "amount", "notes", "archived"}

TransfersFields == {"amount", "transactionDate", "description", "rate", "notes"}
TransfersRequired == {"amount", "transactionDate"}
TransfersAlways == {"amount", "transactionDate"}
TransfersTakes == {"amount", "transactionDate", "description", "notes", "rate"}

IncomeFields == {"name", "payee", "amount", "payDay", "categoryId", "notes"}
IncomeRequired == {"name", "amount", "payDay"}
IncomeAlways == {"amount", "payDay"}
IncomeTakes == {"name", "payee", "amount", "payDay", "categoryId", "notes", "archived"}

Fields == [transactions |-> TransactionsFields, bills |-> BillsFields, debts |-> DebtsFields,
           budgets |-> BudgetsFields, transfers |-> TransfersFields, income |-> IncomeFields]
Required == [transactions |-> TransactionsRequired, bills |-> BillsRequired, debts |-> DebtsRequired,
             budgets |-> BudgetsRequired, transfers |-> TransfersRequired, income |-> IncomeRequired]
Always == [transactions |-> TransactionsAlways, bills |-> BillsAlways, debts |-> DebtsAlways,
           budgets |-> BudgetsAlways, transfers |-> TransfersAlways, income |-> IncomeAlways]
Takes == [transactions |-> TransactionsTakes, bills |-> BillsTakes, debts |-> DebtsTakes,
          budgets |-> BudgetsTakes, transfers |-> TransfersTakes, income |-> IncomeTakes]

\* Where an open row cannot be exchanged while a request is under way.
HeldWhileBusy == {"transactions", "transfers"}

(* The forms of a page that post.  On most pages one flag locks them all; on *)
(* the household page the flag names the form, and locks that one alone.     *)

TransactionsPosts == {"create"}
BillsPosts == {"create", "pay"}
DebtsPosts == {"create", "pay"}
BudgetsPosts == {"create"}
TransfersPosts == {"create"}
IncomePosts == {"create", "record"}
AccountsPosts == {"create"}
CategoriesPosts == {"create"}
QuickAddPosts == {"create"}
GetStartedPosts == {"create"}
HouseholdPosts == {"create account", "create invite"}
Posts == [transactions |-> TransactionsPosts, bills |-> BillsPosts, debts |-> DebtsPosts,
          budgets |-> BudgetsPosts, transfers |-> TransfersPosts, income |-> IncomePosts,
          accounts |-> AccountsPosts, categories |-> CategoriesPosts, quickAdd |-> QuickAddPosts,
          getStarted |-> GetStartedPosts, household |-> HouseholdPosts]
LocksOneForm == {"household"}

\* createInvite shows the link and leaves its form as it is.
StaysFilled == {<<"household", "create invite">>}

\* The rows of which the database holds one: an account, a category or a budget
\* of a name, the payment or the receipt of a month.
NamedAccount == {<<"accounts", "create">>, <<"getStarted", "create">>, <<"household", "create account">>}
NamedCategory == {<<"categories", "create">>}
NamedBudget == {<<"budgets", "create">>}
PaidMonth == {<<"bills", "pay">>}
ReceivedMonth == {<<"income", "record">>}
Unique == NamedAccount \cup NamedCategory \cup NamedBudget \cup PaidMonth \cup ReceivedMonth

-----------------------------------------------------------------------------
VARIABLES
    page, concern,
    draft,      \* post: the intent each form is filled with, or 0
    intents,    \* post: intents so far
    busy,       \* the form whose request the page waits for, or ""
    sent,       \* requests not settled
    stored,     \* post: rows the server has for each intent
    unlocked,   \* post: intents whose filled form was unlocked though their
                \* request was under way, or had succeeded
    lost,       \* post: intents an answer to which was lost
    field,      \* edit: the field that is watched
    row, seen,  \* edit: its value at the server, and on the page
    form,       \* edit: the open form, and what the field shows there
    promise     \* edit: what the last save to be stored showed, nobody having
                \* written since

postVars == <<draft, intents, stored, unlocked, lost>>
editVars == <<field, row, seen, form, promise>>
webVars == <<page, concern, busy, sent, postVars, editVars>>

Nothing == -1
Closed == [open |-> FALSE, shown |-> Empty]
Request == [no |-> 0, form |-> "edit", intent |-> 0, shown |-> Empty,
            waiting |-> TRUE, applied |-> FALSE]
Intent == 1 .. MaxIntent

\* Bound: one field of a page is watched for all that it treats alike.
Treated(p, f) == <<f \in Required[p], f \in Always[p], f \in Takes[p]>>
Watched(p) == {CHOOSE f \in Fields[p] : Treated(p, f) = t : t \in {Treated(p, f) : f \in Fields[p]}}

Values == IF field \in Required[page] THEN Text ELSE Optional \cup {Empty}

WebInit ==
    /\ concern \in Concern
    /\ page \in IF concern = "post" THEN DOMAIN Posts ELSE DOMAIN Fields
    /\ draft = [f \in Posts[page] |-> 0] /\ intents = 0
    /\ busy = "" /\ sent = {}
    /\ stored = [i \in Intent |-> 0] /\ unlocked = {} /\ lost = {}
    /\ field \in IF concern = "post" THEN {""} ELSE Watched(page)
    /\ row \in IF concern = "post" THEN {Empty} ELSE Values
    /\ seen = row /\ form = Closed /\ promise = Nothing

FreeNo == {n \in 1 .. MaxSent : \A q \in sent : q.no # n}
NextNo == CHOOSE n \in FreeNo : \A k \in FreeNo : n <= k
Waiting(S) == {q \in S : q.waiting}
\* A request that waits is answered; what is neither waited for nor still to be
\* applied is forgotten.
Settle(q, new) == sent' = {x \in (sent \ {q}) \cup new : x.waiting \/ ~x.applied}

-----------------------------------------------------------------------------
(* Forms that post.                                                        *)

\* The user fills a form, or starts over while its request is under way.
Fill(f) ==
    /\ intents < MaxIntent
    /\ intents' = intents + 1
    /\ draft' = [draft EXCEPT ![f] = intents + 1]
    /\ UNCHANGED <<page, concern, busy, sent, stored, unlocked, lost, editVars>>

\* The intents whose form is open to the user while they are under way.
Uncovered(S, b) == {q.intent : q \in {x \in Waiting(S) : x.form # b}}

Locked(f) == IF page \in LocksOneForm THEN busy = f ELSE busy # ""

Submit(f) ==
    /\ draft[f] # 0 /\ ~Locked(f) /\ FreeNo # {}
    /\ sent' = sent \cup {[Request EXCEPT !.no = NextNo, !.form = f, !.intent = draft[f]]}
    /\ busy' = f
    /\ unlocked' = unlocked \cup Uncovered(sent', f)
    /\ UNCHANGED <<page, concern, draft, intents, stored, lost, editVars>>

Store(q) ==
    /\ q.form # "edit" /\ ~q.applied
    /\ stored[q.intent] < IF <<page, q.form>> \in Unique THEN 1 ELSE MaxRows
    /\ stored' = [stored EXCEPT ![q.intent] = @ + 1]
    /\ Settle(q, {[q EXCEPT !.applied = TRUE]})
    /\ UNCHANGED <<page, concern, busy, draft, intents, unlocked, lost, editVars>>

\* Mistake the runs must catch: success leaves the form filled.
PostedKeepsDraft(q) ==
    /\ q.form # "edit" /\ q.waiting /\ q.applied
    /\ Settle(q, {}) /\ busy' = ""
    /\ unlocked' = unlocked \cup Uncovered(sent', "")
    /\ UNCHANGED <<page, concern, draft, intents, stored, lost, editVars>>

\* What the user can send again though it succeeded.
Again(q) == IF <<page, q.form>> \in StaysFilled THEN {q.intent} ELSE {}

\* Success empties the form, whatever it holds by now, but for the invitation's.
Posted(q) ==
    /\ q.form # "edit" /\ q.waiting /\ q.applied
    /\ draft' = IF Again(q) = {} THEN [draft EXCEPT ![q.form] = 0] ELSE draft
    /\ Settle(q, {}) /\ busy' = ""
    /\ unlocked' = unlocked \cup Uncovered(sent', "") \cup Again(q)
    /\ UNCHANGED <<page, concern, intents, stored, lost, editVars>>

\* The server refuses, and the form stays filled.
Refused(q) ==
    /\ q.waiting /\ ~q.applied
    /\ Settle(q, {[q EXCEPT !.waiting = FALSE, !.applied = TRUE]}) /\ busy' = ""
    /\ unlocked' = unlocked \cup Uncovered(sent', "")
    /\ UNCHANGED <<page, concern, draft, intents, stored, lost, editVars>>

\* The answer is lost, and the request may still be on its way: the page shows
\* a failure, and the form stays filled.
Lose(q) ==
    /\ q.waiting
    /\ Settle(q, {[q EXCEPT !.waiting = FALSE]}) /\ busy' = ""
    /\ unlocked' = unlocked \cup Uncovered(sent', "")
    /\ lost' = lost \cup {q.intent}
    /\ UNCHANGED <<page, concern, draft, intents, stored, editVars>>

-----------------------------------------------------------------------------
(* The edit form of a row.                                                 *)

Editing == UNCHANGED <<page, concern, postVars, field>>

\* A row is opened with what the page shows of it, in place of the one open.
OpenEdit ==
    /\ page \in HeldWhileBusy => busy = ""
    /\ form' = [open |-> TRUE, shown |-> seen]
    /\ Editing /\ UNCHANGED <<busy, sent, row, seen, promise>>

Type(v) ==
    /\ form.open
    /\ form' = [form EXCEPT !.shown = v]
    /\ Editing /\ UNCHANGED <<busy, sent, row, seen, promise>>

CancelEdit ==
    /\ form.open
    /\ form' = Closed
    /\ Editing /\ UNCHANGED <<busy, sent, row, seen, promise>>

SaveEdit ==
    /\ form.open /\ busy = "" /\ FreeNo # {}
    /\ sent' = sent \cup {[Request EXCEPT !.no = NextNo, !.shown = form.shown]}
    /\ busy' = "edit"
    /\ Editing /\ UNCHANGED <<row, seen, form, promise>>

\* Mistake the runs must catch: the fields that are not always sent are
\* forgotten.
PayloadAlwaysOnly(q) == IF field \in Always[page] THEN q.shown ELSE Nothing

\* What a save sends of the field, or Nothing: an optional field that was emptied
\* is left out.
Payload(q) == IF field \in Always[page] \/ q.shown # Empty THEN q.shown ELSE Nothing

\* The server leaves alone what is not sent, and what its schema does not list.
Written(q) == IF Payload(q) # Nothing /\ field \in Takes[page] THEN Payload(q) ELSE row

StoreEdit(q) ==
    /\ q.form = "edit" /\ ~q.applied
    /\ row' = Written(q)
    /\ promise' = q.shown
    /\ Settle(q, {[q EXCEPT !.applied = TRUE]})
    /\ Editing /\ UNCHANGED <<busy, seen, form>>

\* "Saved successfully": whatever form is open by now is closed.
Saved(q) ==
    /\ q.form = "edit" /\ q.waiting /\ q.applied
    /\ form' = Closed
    /\ Settle(q, {}) /\ busy' = ""
    /\ Editing /\ UNCHANGED <<row, seen, promise>>

\* router.refresh, or the user reloads.
Refresh ==
    /\ seen' = row
    /\ Editing /\ UNCHANGED <<busy, sent, row, form, promise>>

\* Another tab, device or member of the household.
OtherWriter(v) ==
    /\ row' = v /\ promise' = Nothing
    /\ Editing /\ UNCHANGED <<busy, sent, seen, form>>

-----------------------------------------------------------------------------
PostStep ==
    \/ \E f \in Posts[page] : Fill(f) \/ Submit(f)
    \/ \E q \in sent : Store(q) \/ Posted(q) \/ Refused(q) \/ Lose(q)

EditStep ==
    \/ OpenEdit \/ CancelEdit \/ SaveEdit \/ Refresh
    \/ \E v \in Values : Type(v) \/ OtherWriter(v)
    \/ \E q \in sent : StoreEdit(q) \/ Saved(q) \/ Refused(q) \/ Lose(q)

WebNext ==
    \/ concern = "post" /\ PostStep
    \/ concern = "edit" /\ EditStep

WebSpec == WebInit /\ [][WebNext]_webVars

-----------------------------------------------------------------------------
\* The page's state keeps its shape.
WebTypeOK ==
    /\ \A f \in DOMAIN draft : draft[f] \in 0 .. intents
    /\ busy \in DOMAIN draft \cup {"", "edit"}
    /\ \A i \in Intent : stored[i] \in Nat
    /\ unlocked \subseteq Intent /\ lost \subseteq Intent \cup {0}
    /\ concern = "edit" => row \in Values /\ seen \in Values

\* One filled form makes one row, however often the user presses the button,
\* unless an answer was lost or the form is one of the household page: there it
\* is unlocked before the answer when another form is sent or answered, and the
\* invitation's stays filled after it.
OneRowPerIntent ==
    \A i \in Intent : stored[i] > 1 => i \in lost \/ (i \in unlocked /\ page \in LocksOneForm)

\* What the form showed is what is stored, until somebody else writes, but for
\* an optional field that was emptied.
SavesAreFaithful ==
    promise \notin {Nothing, row} => promise = Empty /\ field \notin Always[page]
=============================================================================
