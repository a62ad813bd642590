------------------------------ MODULE Planning ------------------------------
(***************************************************************************)
(* What a user plans with: categories, debts and budgets                   *)
(* (apps/api/src/lib/finance/categories.ts, debts.ts, budgets.ts), the     *)
(* log entries that refer to them (transactions.ts), the accounts that are *)
(* archived (accounts.ts), and the figures derived from the log on every   *)
(* read (balances.ts, dashboard.ts, reports.ts).  A handler checks what it *)
(* was asked in one step and writes in a later one, so that another        *)
(* request may come between.  Transfers and the members' record permission *)
(* are in Ledger.                                                          *)
(***************************************************************************)
EXTENDS Worksheets, FiniteSets, FiniteSetsExt

CONSTANTS
    Req,           \* request slots
    Person, Account,
    Shared,        \* the owner of the household's joint accounts
    Holder,        \* the person who owns an account, or Shared
    Money,         \* currencies
    CurrencyOf,    \* the currency of an account
    Opening,       \* the opening balance of an account
    ThisMonth,     \* the current month of the user's time zone
    Months,        \* the months of a report
    Label,         \* bound: names users give
    Defaults,      \* DEFAULT_CATEGORIES, as <<name, kind>>
    Post,          \* bound: what users post: who, acct, kind, amt, month
    Cents,         \* bound: the amounts users change an entry or a budget to
    Principal, Terms, \* bound: what users enter for a new debt
    Patch,         \* bound: fields an edit of a debt sends
    Planner,       \* bound: the persons who keep debts and budgets
    Topics,        \* bound: what the requests of a run may be about
    MaxEntry, MaxTag, MaxDebt, MaxBudget  \* bounds: rows ever created

ASSUME PlanningAssumption ==
    /\ Holder \in [Account -> Person \cup {Shared}] /\ Shared \notin Person
    /\ Person # {} /\ Money # {} /\ IsFiniteSet(Account)
    /\ CurrencyOf \in [Account -> Money] /\ Opening \in [Account -> Nat]
    /\ Planner \subseteq Person /\ ThisMonth \in Months
    /\ IsFiniteSet(Defaults)
    /\ \A d \in Defaults : d = <<d[1], d[2]>> /\ d[2] \in {"INCOME", "EXPENSE"}
    /\ Post \subseteq [who : Person, acct : Account, kind : {"INCOME", "EXPENSE"},
                      amt : Nat \ {0}, month : Nat]
    /\ Cents \subseteq Nat \ {0}
    /\ \A p \in Patch :
          DOMAIN p \subseteq {"principal", "method", "period", "rate", "months", "start"}
    /\ MaxEntry \in Nat /\ MaxTag \in Nat /\ MaxDebt \in Nat /\ MaxBudget \in Nat

VARIABLES
    tag,      \* categories
    debt, budget,
    entry,    \* income and expense rows of the log
    closed,   \* the archived accounts
    task,     \* what each request is doing
    topic     \* the part of Topics this behaviour exercises

tables == <<tag, debt, budget, entry, closed>>
planVars == <<tables, task, topic>>

Kind == {"INCOME", "EXPENSE"}
TagId == 1 .. MaxTag
DebtId == 1 .. MaxDebt
BudgetId == 1 .. MaxBudget
EntryId == 1 .. MaxEntry
None == 0
Somebody == CHOOSE u \in Person : TRUE

NoTag == [made |-> FALSE, owner |-> Somebody, name |-> "", kind |-> "EXPENSE", archived |-> FALSE]
NoTerms == [method |-> "NONE", period |-> "ANNUAL", rate |-> Absent, months |-> None, start |-> FALSE]
\* overlapped: the last edit wrote what it had checked against an older row.
NoDebtRow == [made |-> FALSE, owner |-> Somebody, currency |-> CHOOSE c \in Money : TRUE,
              principal |-> 0, terms |-> NoTerms, archived |-> FALSE,
              overlapped |-> FALSE]
NoBudget == [made |-> FALSE, owner |-> Somebody, name |-> "", currency |-> CHOOSE c \in Money : TRUE,
             month |-> ThisMonth, tag |-> None, amt |-> 0, archived |-> FALSE]
NoEntry == [state |-> "absent", by |-> Somebody, acct |-> CHOOSE a \in Account : TRUE,
            kind |-> "EXPENSE", amt |-> 0, tag |-> None, debt |-> None, month |-> ThisMonth]

\* A task: the row it is about, the row or fields it will write, and whether
\* what it read (the user's categories, or the debt) has changed since.
Idle == [pc |-> "idle", who |-> Somebody, id |-> None, row |-> <<>>, late |-> FALSE]

PlanInit ==
    /\ tag = [i \in TagId |-> NoTag] /\ debt = [i \in DebtId |-> NoDebtRow]
    /\ budget = [i \in BudgetId |-> NoBudget] /\ entry = [i \in EntryId |-> NoEntry]
    /\ closed = {} /\ task = [r \in Req |-> Idle]
    /\ topic \in Topics


EntryMonth == {p.month : p \in Post}
Poster == {p.who : p \in Post}

-----------------------------------------------------------------------------
(* Helpers.                                                                *)

Made(table) == {i \in DOMAIN table : table[i].made}
Unused(table) == {i \in DOMAIN table : ~table[i].made}
Merged(old, patch) == [f \in DOMAIN old |-> IF f \in DOMAIN patch THEN patch[f] ELSE old[f]]
Begin(r, pc, u, id, row) ==
    /\ task[r].pc = "idle"
    /\ task' = [task EXCEPT ![r] = [pc |-> pc, who |-> u, id |-> id, row |-> row, late |-> FALSE]]
    /\ UNCHANGED <<tables, topic>>
Done(r) == task' = [task EXCEPT ![r] = Idle]
\* r is done, and what the tasks of T read has changed.
DoneMarking(r, T) ==
    task' = [q \in Req |-> IF q = r THEN Idle
                           ELSE IF q \in T THEN [task[q] EXCEPT !.late = TRUE] ELSE task[q]]

Personal(a) == Holder[a] # Shared
MayRecord(u, a) == Holder[a] \in {u, Shared}
Owns(table, u, i) == table[i].made /\ table[i].owner = u

\* getOwnedCategory and the checks every user of it repeats.
TagFits(u, c, kind) ==
    c # None => Owns(tag, u, c) /\ ~tag[c].archived /\ tag[c].kind = kind

\* Mistake the runs must catch: a payment may sit on a joint account.
PaymentFitsAnywhere(u, d, kind, a) ==
    Owns(debt, u, d) /\ ~debt[d].archived /\ kind = "EXPENSE" /\ debt[d].currency = CurrencyOf[a]

\* validatePaymentDebt
PaymentFits(u, d, kind, a) ==
    /\ Owns(debt, u, d) /\ ~debt[d].archived
    /\ kind = "EXPENSE" /\ Personal(a) /\ debt[d].currency = CurrencyOf[a]

-----------------------------------------------------------------------------
(* Categories.                                                             *)

NameTaken(u, name, kind, but) ==
    \E i \in TagId \ {but} : Owns(tag, u, i) /\ tag[i].name = name /\ tag[i].kind = kind

\* Mistake the runs must catch: the name and the kind change places.
NewTagSwapped(u, name, kind) ==
    [made |-> TRUE, owner |-> u, name |-> kind, kind |-> name, archived |-> FALSE]

NewTag(u, name, kind) ==
    [made |-> TRUE, owner |-> u, name |-> name, kind |-> kind, archived |-> FALSE]

\* Requests of u that counted no category learn nothing of a new one.
Counted(u) == {q \in Req : task[q].pc = "defaults" /\ task[q].who = u}

\* Mistake the runs must catch: only the categories in use are counted.
ListCategoriesInUse(r, u) ==
    /\ \A i \in TagId : Owns(tag, u, i) => tag[i].archived
    /\ Begin(r, "defaults", u, None, <<>>)

\* listCategories reads, unless ensureDefaultCategories finds that the user has
\* no category at all.
ListCategories(r, u) ==
    /\ \A i \in TagId : ~Owns(tag, u, i)
    /\ Begin(r, "defaults", u, None, <<>>)

\* One statement: if one name is taken none is inserted and the listing fails.
InsertDefaults(r) ==
    LET u == task[r].who IN
    /\ task[r].pc = "defaults"
    /\ IF \E d \in Defaults : NameTaken(u, d[1], d[2], None)
       THEN Done(r) /\ UNCHANGED tag
       ELSE /\ Cardinality(Unused(tag)) >= Cardinality(Defaults)
            /\ LET at == CHOOSE f \in [Defaults -> Unused(tag)] :
                           \A d, e \in Defaults : f[d] = f[e] => d = e IN
               tag' = [i \in TagId |-> IF \E d \in Defaults : at[d] = i
                 THEN LET d == CHOOSE x \in Defaults : at[x] = i IN
                      NewTag(u, d[1], d[2])
                 ELSE tag[i]]
            /\ DoneMarking(r, Counted(u))
    /\ UNCHANGED <<debt, budget, entry, closed, topic>>

CreateCategory(r, u, name, kind) ==
    /\ task[r].pc = "idle" /\ Unused(tag) # {}
    /\ ~NameTaken(u, name, kind, None)
    /\ tag' = [tag EXCEPT ![Min(Unused(tag))] = NewTag(u, name, kind)]
    /\ DoneMarking(r, Counted(u))
    /\ UNCHANGED <<debt, budget, entry, closed, topic>>

UpdateCategory(r, u, c, patch) ==
    LET row == Merged(tag[c], patch) IN
    /\ task[r].pc = "idle" /\ Owns(tag, u, c)
    /\ ~NameTaken(u, row.name, row.kind, c)
    /\ tag' = [tag EXCEPT ![c] = row]
    /\ UNCHANGED <<debt, budget, entry, task, closed, topic>>

-----------------------------------------------------------------------------
(* Accounts.                                                               *)

\* updateAccount, and for a joint account updateJointAccount: who of the members
\* the owner is, is in Households.
UpdateAccount(r, u, a, gone) ==
    /\ task[r].pc = "idle" /\ Holder[a] \in {u, Shared}
    /\ closed' = IF gone THEN closed \cup {a} ELSE closed \ {a}
    /\ UNCHANGED <<tag, debt, budget, entry, task, topic>>

-----------------------------------------------------------------------------
(* Debts.                                                                  *)

CreateDebt(r, u, c, p, terms, g) ==
    /\ TagFits(u, g, "EXPENSE")
    /\ CalculateDebtInterest(p, terms).ok
    /\ Begin(r, "debt", u, None, [made |-> TRUE, owner |-> u, currency |-> c, principal |-> p,
                                  terms |-> terms, archived |-> FALSE, overlapped |-> FALSE])

InsertDebt(r) ==
    /\ task[r].pc = "debt" /\ Unused(debt) # {}
    /\ debt' = [debt EXCEPT ![Min(Unused(debt))] = task[r].row]
    /\ Done(r)
    /\ UNCHANGED <<tag, budget, entry, closed, topic>>

\* The debt the edit would leave if nobody else wrote.
Edited(d, patch) ==
    [Merged(debt[d], patch) EXCEPT !.terms = Merged(debt[d].terms, patch)]

\* Mistake the runs must catch: what is sent is checked by itself.
UpdateDebtUnmerged(r, u, d, patch) ==
    /\ Owns(debt, u, d)
    /\ LET row == Merged(NoTerms, patch) IN
       CalculateDebtInterest(debt[d].principal, IF "method" \in DOMAIN patch THEN row ELSE NoTerms).ok
    /\ Begin(r, "debt_edit", u, d, patch)

\* The terms are checked merged into the row that was read; only the fields that
\* were sent are written.
UpdateDebt(r, u, d, patch) ==
    /\ Owns(debt, u, d)
    /\ LET row == Edited(d, patch) IN CalculateDebtInterest(row.principal, row.terms).ok
    /\ Begin(r, "debt_edit", u, d, patch)

WriteDebt(r) ==
    LET t == task[r] IN
    /\ t.pc = "debt_edit"
    /\ debt' = [debt EXCEPT ![t.id] = [Edited(t.id, t.row) EXCEPT !.overlapped = t.late]]
    /\ DoneMarking(r, {q \in Req : task[q].pc = "debt_edit" /\ task[q].id = t.id})
    /\ UNCHANGED <<tag, budget, entry, closed, topic>>

-----------------------------------------------------------------------------
(* Entries of the log.                                                     *)

\* A debt sent with income is dropped.
CreateTransaction(r, p, g, d) ==
    LET u == p.who
        a == p.acct
        kind == p.kind
        link == IF kind = "EXPENSE" THEN d ELSE None IN
    /\ MayRecord(u, a) /\ a \notin closed /\ TagFits(u, g, kind)
    /\ link # None => PaymentFits(u, link, kind, a)
    /\ Begin(r, "entry", u, None, [state |-> "open", by |-> u, acct |-> a, kind |-> kind,
             amt |-> IF kind = "EXPENSE" THEN -p.amt ELSE p.amt,
             tag |-> g, debt |-> link, month |-> p.month])

InsertEntry(r) ==
    LET free == {e \in EntryId : entry[e].state = "absent"} IN
    /\ task[r].pc = "entry" /\ free # {}
    /\ entry' = [entry EXCEPT ![Min(free)] = task[r].row]
    /\ Done(r)
    /\ UNCHANGED <<tag, debt, budget, closed, topic>>

Editable(u, e) == entry[e].state = "open" /\ MayRecord(u, entry[e].acct)

\* sent: any of amt, month, tag and debt.  A debt the entry is linked to
\* already is not checked again.
UpdateTransaction(r, u, e, sent) ==
    /\ Editable(u, e)
    /\ "debt" \in DOMAIN sent /\ sent.debt \notin {None, entry[e].debt} =>
         PaymentFits(u, sent.debt, entry[e].kind, entry[e].acct)
    /\ "tag" \in DOMAIN sent => TagFits(u, sent.tag, entry[e].kind)
    /\ Begin(r, "entry_edit", u, e,
             IF "amt" \in DOMAIN sent /\ entry[e].kind = "EXPENSE"
             THEN [sent EXCEPT !.amt = -@] ELSE sent)

WriteEntry(r) ==
    /\ task[r].pc = "entry_edit"
    /\ entry' = [entry EXCEPT ![task[r].id] = Merged(@, task[r].row)]
    /\ Done(r)
    /\ UNCHANGED <<tag, debt, budget, closed, topic>>

DeleteTransaction(r, u, e) ==
    /\ task[r].pc = "idle" /\ Editable(u, e)
    /\ entry' = [entry EXCEPT ![e].state = "deleted"]
    /\ UNCHANGED <<tag, debt, budget, task, closed, topic>>

-----------------------------------------------------------------------------
(* Budgets: one of a name in a month.                                      *)

BudgetTaken(u, row, but) ==
    \E i \in BudgetId \ {but} : Owns(budget, u, i) /\ budget[i].name = row.name
                                /\ budget[i].month = row.month

CreateBudget(r, u, name, c, m, g, x) ==
    /\ TagFits(u, g, "EXPENSE")
    /\ Begin(r, "budget", u, None, [made |-> TRUE, owner |-> u, name |-> name, currency |-> c,
                                    month |-> m, tag |-> g, amt |-> x, archived |-> FALSE])

InsertBudget(r) ==
    LET row == task[r].row IN
    /\ task[r].pc = "budget" /\ Unused(budget) # {}
    /\ budget' = IF BudgetTaken(row.owner, row, None) THEN budget
                 ELSE [budget EXCEPT ![Min(Unused(budget))] = row]
    /\ Done(r)
    /\ UNCHANGED <<tag, debt, entry, closed, topic>>

UpdateBudget(r, u, b, patch) ==
    LET row == Merged(budget[b], patch) IN
    /\ task[r].pc = "idle" /\ Owns(budget, u, b) /\ ~BudgetTaken(u, row, b)
    /\ budget' = [budget EXCEPT ![b] = row]
    /\ UNCHANGED <<tag, debt, entry, task, closed, topic>>

-----------------------------------------------------------------------------
(* Figures derived from the log.                                           *)

Sum(S) == SumFunctionOnSet([e \in EntryId |-> entry[e].amt], S)
Open == {e \in EntryId : entry[e].state = "open"}
OfKind(S, kind) == {e \in S : entry[e].kind = kind}

\* accountBalances and withBalances: whoever recorded the entries.
Balance(a) == Opening[a] + Sum({e \in Open : entry[e].acct = a})

\* The rows of personal scope: recorded by u on accounts that are not joint.
Scope(u, c, months) ==
    {e \in Open : /\ entry[e].by = u /\ CurrencyOf[entry[e].acct] = c
                  /\ Personal(entry[e].acct) /\ entry[e].month \in months}

TotalsByRange(u, c, months) ==
    LET in == Sum(OfKind(Scope(u, c, months), "INCOME"))
        out == Sum(OfKind(Scope(u, c, months), "EXPENSE")) IN
    [income |-> in, expense |-> -out, net |-> in + out]

ByCategory(u, c, months) ==
    [g \in TagId \cup {None} |->
       -Sum({e \in OfKind(Scope(u, c, months), "EXPENSE") : entry[e].tag = g})]

PaymentsForDebt(u, d) ==
    -Sum({e \in OfKind(Scope(u, debt[d].currency, EntryMonth), "EXPENSE") : entry[e].debt = d})

\* One debt whose terms are refused fails the whole list.
DebtsOf(u) == {d \in DebtId : Owns(debt, u, d) /\ ~debt[d].archived}
Estimate(d) == CalculateDebtInterest(debt[d].principal, debt[d].terms)
ListDebts(u) ==
    [ok |-> \A d \in DebtsOf(u) : Estimate(d).ok,
     balance |-> [d \in DebtsOf(u) |-> Estimate(d).total - PaymentsForDebt(u, d)]]

DebtOverview(u, c) ==
    LET balance == ListDebts(u).balance
        owed == {d \in DebtsOf(u) : debt[d].currency = c /\ balance[d] > 0} IN
    SumFunctionOnSet(balance, owed)

\* All of the user's rows, joint accounts included.
SpentForBudget(b) ==
    -Sum({e \in OfKind(Open, "EXPENSE") :
            /\ entry[e].by = budget[b].owner /\ CurrencyOf[entry[e].acct] = budget[b].currency
            /\ entry[e].month = budget[b].month
            /\ budget[b].tag # None => entry[e].tag = budget[b].tag})

\* listAccounts leaves the archived ones out.
Personals(u, c) == {a \in Account : Holder[a] = u /\ CurrencyOf[a] = c}
Own(u, c) == Personals(u, c) \ closed
Held(S) == SumFunctionOnSet([a \in Account |-> Balance(a)], S)
Available(u, c) == Held(Own(u, c))

Dashboard(u, c) ==
    [available |-> Available(u, c),
     month |-> TotalsByRange(u, c, {ThisMonth}),
     allTime |-> TotalsByRange(u, c, EntryMonth),
     debt |-> DebtOverview(u, c)]

FinanceReport(u, c) ==
    LET balance == ListDebts(u).balance IN
    [trend |-> [m \in Months |-> TotalsByRange(u, c, {m})],
     categories |-> ByCategory(u, c, {ThisMonth}),
     debts |-> [d \in {x \in DebtsOf(u) : debt[x].currency = c} |->
                  IF balance[d] > 0 THEN balance[d] ELSE 0]]

-----------------------------------------------------------------------------
\* Bound: an edit of an entry sends one field, one that the topic is about.
EntryPatch ==
    (IF "categories" \in topic THEN [tag : TagId \cup {None}] ELSE [amt : Cents])
    \cup (IF "debts" \in topic THEN [debt : DebtId \cup {None}] ELSE {})
    \cup (IF "budgets" \in topic THEN [month : EntryMonth] ELSE {})

ListingRequest(r) == \E u \in Person : ListCategories(r, u)

CategoryRequest(r) ==
    \/ \E u \in Person, name \in Label, kind \in Kind : CreateCategory(r, u, name, kind)
    \/ \E u \in Person, c \in Made(tag), patch \in [archived : BOOLEAN] \cup [name : Label] :
         UpdateCategory(r, u, c, patch)

AccountRequest(r) == \E u \in Person, a \in Account, gone \in BOOLEAN : UpdateAccount(r, u, a, gone)

DebtRequest(r) ==
    \/ \E u \in Planner, c \in Money, p \in Principal, terms \in Terms, g \in Made(tag) \cup {None} :
         CreateDebt(r, u, c, p, terms, g)
    \/ \E u \in Planner, d \in Made(debt), gone \in BOOLEAN :
         UpdateDebt(r, u, d, [archived |-> gone])

TermsRequest(r) == \E u \in Planner, d \in Made(debt), patch \in Patch : UpdateDebt(r, u, d, patch)

EntryRequest(r) ==
    \/ \E p \in Post, g \in Made(tag) \cup {None}, d \in Made(debt) \cup {None} :
         CreateTransaction(r, p, g, d)
    \/ \E u \in Person, e \in EntryId, sent \in EntryPatch : UpdateTransaction(r, u, e, sent)
    \/ \E u \in Person, e \in EntryId : DeleteTransaction(r, u, e)

BudgetRequest(r) ==
    \/ \E u \in Planner, name \in Label, c \in Money, m \in EntryMonth, x \in Cents,
          g \in Made(tag) \cup {None} : CreateBudget(r, u, name, c, m, g, x)
    \/ \E u \in Planner, b \in Made(budget),
          patch \in [archived : BOOLEAN] \cup [name : Label] \cup [amt : Cents] :
         UpdateBudget(r, u, b, patch)

\* Bound: how many requests run together, and how many entries there are.
Bounded ==
    /\ "alone" \in topic => Cardinality({r \in Req : task'[r].pc # "idle"}) <= 1
    /\ "pair" \notin topic => Cardinality({e \in EntryId : entry'[e].state # "absent"}) <= 1

PlanStep == \E r \in Req :
    \/ /\ task[r].pc = "idle"
       /\ \/ "listing" \in topic /\ ListingRequest(r)
          \/ "categories" \in topic /\ CategoryRequest(r)
          \/ "accounts" \in topic /\ AccountRequest(r)
          \/ "debts" \in topic /\ DebtRequest(r)
          \/ "terms" \in topic /\ TermsRequest(r)
          \/ "entries" \in topic /\ EntryRequest(r)
          \/ "budgets" \in topic /\ BudgetRequest(r)
    \/ InsertDefaults(r)
    \/ InsertDebt(r) \/ WriteDebt(r)
    \/ InsertEntry(r) \/ WriteEntry(r)
    \/ InsertBudget(r)

PlanNext == PlanStep /\ Bounded

PlanSpec == PlanInit /\ [][PlanNext]_planVars

-----------------------------------------------------------------------------
(* Properties.                                                             *)

\* The rows keep their shape.
PlanTypeOK ==
    /\ \A i \in TagId : tag[i].owner \in Person /\ tag[i].kind \in Kind
    /\ \A d \in DebtId : debt[d].currency \in Money /\ debt[d].overlapped \in BOOLEAN
    /\ \A b \in BudgetId : budget[b].tag \in TagId \cup {None}
    /\ \A e \in EntryId : /\ entry[e].state \in {"absent", "open", "deleted"}
                          /\ entry[e].amt \in Int /\ entry[e].month \in EntryMonth \cup {ThisMonth}
                          /\ entry[e].tag \in TagId \cup {None}
                          /\ entry[e].debt \in DebtId \cup {None}
    /\ \A r \in Req : task[r].pc \in {"idle", "defaults", "debt", "debt_edit", "entry",
                                      "entry_edit", "budget"}
    /\ closed \subseteq Account

\* Every payment counts once: the payments a debt reports are all the entries
\* linked to it, whoever edited them and whatever became of the debt meanwhile.
PaymentsAreCounted ==
    \A d \in DebtId : debt[d].made =>
      PaymentsForDebt(debt[d].owner, d) = -Sum({e \in Open : entry[e].debt = d})

\* What came in less what went out is in the accounts: what the dashboard calls
\* available, and what the archived accounts it leaves out still hold, though
\* the totals beside it count their entries.
BalancesFollowTotals ==
    \A u \in Poster, c \in Money :
      Available(u, c) + Held(Personals(u, c) \cap closed)
        = TotalsByRange(u, c, EntryMonth).net + SumFunctionOnSet(Opening, Personals(u, c))

\* The dashboard and the report tell the same month and the same debts; the
\* report's categories add up to its expenses.
ReportFollowsDashboard ==
    \A u \in Poster, c \in Money :
      LET D == Dashboard(u, c)
          R == FinanceReport(u, c) IN
      ListDebts(u).ok =>
        /\ R.trend[ThisMonth] = D.month
        /\ D.month.expense = SumFunctionOnSet(R.categories, TagId \cup {None})
        /\ D.debt = SumFunction(R.debts)

\* An entry's category has its kind; on a personal account it is its owner's.
CategoriesFit ==
    \A e \in Open : entry[e].tag # None =>
      /\ tag[entry[e].tag].kind = entry[e].kind
      /\ Personal(entry[e].acct) => tag[entry[e].tag].owner = entry[e].by

\* A budget without a category adds to the month what its owner spent from the
\* joint accounts.
BudgetsFollowTotals ==
    \A b \in BudgetId : budget[b].made /\ budget[b].tag = None =>
      LET u == budget[b].owner
          c == budget[b].currency
          joint == {e \in Open : /\ entry[e].by = u /\ CurrencyOf[entry[e].acct] = c
                                 /\ ~Personal(entry[e].acct)
                                 /\ entry[e].month = budget[b].month} IN
      SpentForBudget(b) = TotalsByRange(u, c, {budget[b].month}).expense
                          - Sum(OfKind(joint, "EXPENSE"))

\* The figures that accounts, dashboard, report, budgets and debts derive from
\* the one log agree, though each asks it differently.
ReadModelsAgree ==
    /\ PaymentsAreCounted /\ BalancesFollowTotals
    /\ ReportFollowsDashboard /\ CategoriesFit /\ BudgetsFollowTotals

\* A debt whose stored terms make the whole list (and with it the dashboard and
\* the report) fail was last written by an edit that overlapped another one.
DebtsStayListable ==
    \A u \in Person : ~ListDebts(u).ok => \E d \in DebtsOf(u) : debt[d].overlapped /\ ~Estimate(d).ok

\* The default categories arrive whole, and in an account that has categories
\* already only when another request created those after this one counted none.
DefaultsOnlyForNewcomers ==
    [][\A r \in Req :
         LET u == task[r].who IN
         InsertDefaults(r) /\ tag' # tag =>
           /\ \A d \in Defaults : \E i \in TagId : ~tag[i].made /\ tag'[i].made
                                    /\ tag'[i].owner = u /\ <<tag'[i].name, tag'[i].kind>> = d
           /\ task[r].late \/ \A i \in TagId : ~Owns(tag, u, i)]_planVars
=============================================================================
