--------------------------- MODULE PlanningProofs ---------------------------
(***************************************************************************)
(* Theorems about Planning, for any number of persons, accounts, requests, *)
(* categories, debts, budgets and entries.                                 *)
(***************************************************************************)
EXTENDS Planning, CalculationsProofs

-----------------------------------------------------------------------------
(* The inductive invariant.                                                *)

TagFields == {"made", "owner", "name", "kind", "archived"}
DebtFields == {"made", "owner", "currency", "principal", "terms", "archived", "overlapped"}
BudgetFields == {"made", "owner", "name", "currency", "month", "tag", "amt", "archived"}
EntryFields == {"state", "by", "acct", "kind", "amt", "tag", "debt", "month"}
TaskFields == {"pc", "who", "id", "row", "late"}

\* What the rows are like.
TagShape(g) ==
    /\ DOMAIN g = TagFields /\ g.made \in BOOLEAN /\ g.owner \in Person /\ g.kind \in Kind
    /\ g.archived \in BOOLEAN
DebtShape(d) ==
    /\ DOMAIN d = DebtFields /\ d.made \in BOOLEAN /\ d.owner \in Person /\ d.currency \in Money
    /\ d.overlapped \in BOOLEAN
BudgetShape(b) == DOMAIN b = BudgetFields /\ b.made \in BOOLEAN /\ b.tag \in TagId \cup {None}
EntryShape(e) ==
    /\ DOMAIN e = EntryFields /\ e.state \in {"absent", "open", "deleted"} /\ e.amt \in Int
    /\ e.month \in EntryMonth \cup {ThisMonth}
    /\ e.tag \in TagId \cup {None} /\ e.debt \in DebtId \cup {None}

TermsHold(d) == CalculateDebtInterest(d.principal, d.terms).ok

\* A category or a debt that an entry of e's kind, account and author may name.
TagSuits(e, g) ==
    g # None => /\ tag[g].made /\ tag[g].kind = e.kind
                /\ Personal(e.acct) => tag[g].owner = e.by
DebtSuits(e, d) ==
    d # None => /\ debt[d].made /\ e.kind = "EXPENSE" /\ Personal(e.acct)
                /\ debt[d].owner = e.by /\ debt[d].currency = CurrencyOf[e.acct]

\* An entry that was ever made was one its author could make.
EntryFits(e) ==
    e.state # "absent" =>
        /\ e.by \in Person /\ e.acct \in Account /\ e.kind \in Kind /\ MayRecord(e.by, e.acct)
        /\ e.month \in EntryMonth /\ TagSuits(e, e.tag) /\ DebtSuits(e, e.debt)

\* What a task will write is right when it has nothing more to check.
WillWrite(t) ==
    /\ t.pc = "debt" =>
          DebtShape(t.row) /\ t.row.made /\ ~t.row.overlapped /\ TermsHold(t.row)
    /\ t.pc = "debt_edit" =>
          /\ t.id \in DebtId /\ debt[t.id].made
          /\ DOMAIN t.row \cap {"made", "owner", "currency", "overlapped", "terms"} = {}
          /\ ~t.late => TermsHold(Edited(t.id, t.row))
    /\ t.pc = "entry" => EntryShape(t.row) /\ t.row.state = "open" /\ EntryFits(t.row)
    /\ t.pc = "entry_edit" =>
          /\ t.id \in EntryId /\ entry[t.id].state # "absent"
          /\ DOMAIN t.row \subseteq {"amt", "month", "tag", "debt"}
          /\ "amt" \in DOMAIN t.row => t.row.amt \in Int
          /\ "month" \in DOMAIN t.row => t.row.month \in EntryMonth
          /\ "tag" \in DOMAIN t.row =>
                t.row.tag \in TagId \cup {None} /\ TagSuits(entry[t.id], t.row.tag)
          /\ "debt" \in DOMAIN t.row =>
                t.row.debt \in DebtId \cup {None} /\ DebtSuits(entry[t.id], t.row.debt)
    /\ t.pc = "budget" => BudgetShape(t.row) /\ t.row.made
    /\ t.pc = "defaults" => t.late \/ \A i \in TagId : ~Owns(tag, t.who, i)

TaskShape(t) ==
    /\ DOMAIN t = TaskFields /\ t.who \in Person /\ t.late \in BOOLEAN
    /\ t.pc \in {"idle", "defaults", "debt", "debt_edit", "entry", "entry_edit", "budget"}

TagsFit == DOMAIN tag = TagId /\ \A i \in TagId : TagShape(tag[i])
DebtsFit ==
    /\ DOMAIN debt = DebtId
    /\ \A d \in DebtId : DebtShape(debt[d]) /\ (debt[d].made => debt[d].overlapped \/ TermsHold(debt[d]))
BudgetsFit == DOMAIN budget = BudgetId /\ \A b \in BudgetId : BudgetShape(budget[b])
EntriesFit == DOMAIN entry = EntryId /\ \A e \in EntryId : EntryShape(entry[e]) /\ EntryFits(entry[e])
TasksFit == DOMAIN task = Req /\ \A r \in Req : TaskShape(task[r]) /\ WillWrite(task[r])

IInv == TagsFit /\ DebtsFit /\ BudgetsFit /\ EntriesFit /\ TasksFit

-----------------------------------------------------------------------------
(* Rows once made stay what they are.                                      *)

TagsLast == \A i \in TagId : tag[i].made =>
    tag'[i].made /\ tag'[i].owner = tag[i].owner /\ tag'[i].kind = tag[i].kind
DebtsLast == \A d \in DebtId : debt[d].made =>
    debt'[d].made /\ debt'[d].owner = debt[d].owner /\ debt'[d].currency = debt[d].currency
EntriesLast == \A e \in EntryId : entry[e].state # "absent" =>
    /\ entry'[e].state # "absent" /\ entry'[e].by = entry[e].by
    /\ entry'[e].acct = entry[e].acct /\ entry'[e].kind = entry[e].kind

LEMMA SuitsLast ==
    ASSUME TagsLast, DebtsLast, NEW e, NEW f, f.kind = e.kind, f.acct = e.acct, f.by = e.by
    PROVE  /\ \A g \in TagId \cup {None} : TagSuits(e, g) => TagSuits(f, g)'
           /\ \A d \in DebtId \cup {None} : DebtSuits(e, d) => DebtSuits(f, d)'
  BY DEF TagsLast, DebtsLast, TagSuits, DebtSuits

LEMMA FitsLast ==
    ASSUME TagsLast, DebtsLast, NEW e, EntryShape(e), EntryFits(e)
    PROVE  EntryFits(e)'
<1>1. TagSuits(e, e.tag) => TagSuits(e, e.tag)'
  BY SuitsLast DEF EntryShape
<1>2. DebtSuits(e, e.debt) => DebtSuits(e, e.debt)'
  BY SuitsLast DEF EntryShape
<1> QED BY <1>1, <1>2 DEF EntryFits

\* A request that waits: nothing it relies on has changed, or it is marked late.
Waits(q) ==
    /\ \/ task'[q] = task[q]
       \/ task'[q] = [task[q] EXCEPT !.late = TRUE]
    /\ task[q].pc = "debt_edit" =>
          task'[q].late \/ (task[q].id \in DebtId => debt'[task[q].id] = debt[task[q].id])
    /\ task[q].pc = "defaults" =>
          task'[q].late \/ \A i \in TagId : Owns(tag, task[q].who, i)' => Owns(tag, task[q].who, i)

LEMMA WaitingKeeps ==
    ASSUME IInv, TagsLast, DebtsLast, EntriesLast, NEW q \in Req, Waits(q)
    PROVE  (TaskShape(task[q]) /\ WillWrite(task[q]))'
<1> DEFINE t == task[q]
<1>1. TaskShape(t) /\ WillWrite(t)
  BY DEF IInv, TasksFit
<1>2. PICK u : u = task'[q]
  OBVIOUS
<1>3. /\ u.pc = t.pc /\ u.who = t.who /\ u.id = t.id /\ u.row = t.row /\ (t.late => u.late)
      /\ DOMAIN u = DOMAIN t /\ u.late \in BOOLEAN
  BY <1>1, <1>2 DEF Waits, TaskShape, TaskFields
<1>4. t.pc = "debt_edit" =>
         /\ u.id \in DebtId /\ debt'[u.id].made
         /\ ~u.late => /\ TermsHold(Edited(u.id, u.row))
                       /\ debt'[u.id] = debt[u.id]
  BY <1>1, <1>2, <1>3 DEF WillWrite, Waits, DebtsLast
<1>5. u.pc = "entry" => EntryFits(u.row)'
  <2> SUFFICES ASSUME u.pc = "entry" PROVE EntryFits(u.row)'
    OBVIOUS
  <2>1. PICK e : e = u.row
    OBVIOUS
  <2>2. EntryShape(e) /\ EntryFits(e)
    BY <1>1, <1>3, <2>1 DEF WillWrite
  <2>3. EntryFits(e)'
    BY <2>2, FitsLast
  <2> QED BY <2>1, <2>3
<1>6. u.pc = "entry_edit" =>
         /\ u.id \in EntryId /\ entry'[u.id].state # "absent"
         /\ "tag" \in DOMAIN u.row => TagSuits(entry[u.id], u.row.tag)'
         /\ "debt" \in DOMAIN u.row => DebtSuits(entry[u.id], u.row.debt)'
  <2> SUFFICES ASSUME u.pc = "entry_edit"
               PROVE  /\ u.id \in EntryId /\ entry'[u.id].state # "absent"
                      /\ "tag" \in DOMAIN u.row => TagSuits(entry[u.id], u.row.tag)'
                      /\ "debt" \in DOMAIN u.row => DebtSuits(entry[u.id], u.row.debt)'
    OBVIOUS
  <2>1. /\ u.id \in EntryId /\ entry[u.id].state # "absent"
        /\ "tag" \in DOMAIN u.row =>
              u.row.tag \in TagId \cup {None} /\ TagSuits(entry[u.id], u.row.tag)
        /\ "debt" \in DOMAIN u.row =>
              u.row.debt \in DebtId \cup {None} /\ DebtSuits(entry[u.id], u.row.debt)
    BY <1>1, <1>3 DEF WillWrite
  <2>2. PICK e, f : e = entry[u.id] /\ f = entry'[u.id]
    OBVIOUS
  <2>3. f.kind = e.kind /\ f.acct = e.acct /\ f.by = e.by /\ f.state # "absent"
    BY <2>1, <2>2 DEF EntriesLast
  <2>4. /\ "tag" \in DOMAIN u.row => TagSuits(f, u.row.tag)'
        /\ "debt" \in DOMAIN u.row => DebtSuits(f, u.row.debt)'
    BY <2>1, <2>2, <2>3, SuitsLast
  <2> QED BY <2>1, <2>2, <2>3, <2>4
<1>7. u.pc = "defaults" => u.late \/ \A i \in TagId : ~Owns(tag, u.who, i)'
  BY <1>1, <1>2, <1>3 DEF WillWrite, Waits
<1>8. (u.pc = "debt_edit" /\ ~u.late) => TermsHold(Edited(u.id, u.row))'
  BY <1>3, <1>4 DEF TermsHold, Edited
<1>9. TaskShape(u)
  BY <1>1, <1>3 DEF TaskShape
<1>10. WillWrite(u)'
  <2>1. /\ u.pc = "debt" =>
              DebtShape(u.row) /\ u.row.made /\ ~u.row.overlapped /\ TermsHold(u.row)
        /\ u.pc = "debt_edit" =>
              DOMAIN u.row \cap {"made", "owner", "currency", "overlapped", "terms"} = {}
        /\ u.pc = "entry" => EntryShape(u.row) /\ u.row.state = "open"
        /\ u.pc = "entry_edit" =>
              /\ DOMAIN u.row \subseteq {"amt", "month", "tag", "debt"}
              /\ "amt" \in DOMAIN u.row => u.row.amt \in Int
              /\ "month" \in DOMAIN u.row => u.row.month \in EntryMonth
              /\ "tag" \in DOMAIN u.row => u.row.tag \in TagId \cup {None}
              /\ "debt" \in DOMAIN u.row => u.row.debt \in DebtId \cup {None}
        /\ u.pc = "budget" => BudgetShape(u.row) /\ u.row.made
    BY <1>1, <1>3 DEF WillWrite
  <2> QED BY <1>3, <1>4, <1>5, <1>6, <1>7, <1>8, <2>1 DEF WillWrite
<1> QED BY <1>2, <1>9, <1>10

LEMMA NothingToWrite == TaskShape(Idle) /\ WillWrite(Idle) /\ WillWrite(Idle)'
<1>1. Somebody \in Person
  BY PlanningAssumption DEF Somebody
<1> QED BY <1>1 DEF TaskShape, TaskFields, WillWrite, Idle

LEMMA TablesKeep ==
    ASSUME IInv, TagsLast, DebtsLast, EntriesLast, TagsFit', DebtsFit', BudgetsFit',
           DOMAIN entry' = EntryId,
           \A e \in EntryId : entry'[e] = entry[e] \/ (EntryShape(entry[e]) /\ EntryFits(entry[e]))',
           DOMAIN task' = Req, \A q \in Req : Waits(q) \/ task'[q] = Idle
    PROVE  IInv'
<1>1. EntriesFit'
  <2>1. ASSUME NEW e \in EntryId, entry'[e] = entry[e]
        PROVE  (EntryShape(entry[e]) /\ EntryFits(entry[e]))'
    <3>1. PICK x : x = entry[e]
      OBVIOUS
    <3>2. EntryShape(x) /\ EntryFits(x)
      BY <3>1 DEF IInv, EntriesFit
    <3>3. EntryFits(x)'
      BY <3>2, FitsLast
    <3>4. EntryFits(entry'[e]) <=> EntryFits(x)
      BY <2>1, <3>1
    <3> QED BY <2>1, <3>1, <3>2, <3>3
  <2> QED BY <2>1 DEF EntriesFit
<1>2. TasksFit'
  <2>1. ASSUME NEW q \in Req, task'[q] = Idle PROVE (TaskShape(task[q]) /\ WillWrite(task[q]))'
    BY <2>1, NothingToWrite
  <2> QED BY <2>1, WaitingKeeps DEF TasksFit
<1> QED BY <1>1, <1>2 DEF IInv

LEMMA SameTables ==
    ASSUME IInv, UNCHANGED tables
    PROVE  /\ TagsLast /\ DebtsLast /\ EntriesLast /\ TagsFit' /\ DebtsFit' /\ BudgetsFit'
           /\ EntriesFit' /\ UNCHANGED <<tag, debt, budget, entry>>
<1>1. UNCHANGED <<tag, debt, budget, entry>>
  BY DEF tables
<1>2. TagsLast /\ DebtsLast /\ EntriesLast
  BY <1>1 DEF TagsLast, DebtsLast, EntriesLast
<1>3. TagsFit' /\ DebtsFit' /\ BudgetsFit'
  BY <1>1 DEF IInv, TagsFit, DebtsFit, BudgetsFit
<1>4. EntriesFit'
  BY <1>1 DEF IInv, EntriesFit, EntryFits, TagSuits, DebtSuits
<1> QED BY <1>1, <1>2, <1>3, <1>4

\* A request begins: it has checked what it will write.
LEMMA BeginKeeps ==
    ASSUME IInv, NEW r \in Req, NEW u \in Person, NEW pc, NEW id, NEW row,
           pc \in {"defaults", "debt", "debt_edit", "entry", "entry_edit", "budget"},
           Begin(r, pc, u, id, row),
           WillWrite([pc |-> pc, who |-> u, id |-> id, row |-> row, late |-> FALSE])
    PROVE  IInv'
<1> DEFINE t == [pc |-> pc, who |-> u, id |-> id, row |-> row, late |-> FALSE]
<1>1. /\ task' = [task EXCEPT ![r] = t] /\ UNCHANGED tables /\ WillWrite(t)
  BY DEF Begin
<1>2. TaskShape(t)
  BY DEF TaskShape, TaskFields
<1> HIDE DEF t
<1>3. /\ DOMAIN task' = Req /\ task'[r] = t /\ \A q \in Req \ {r} : task'[q] = task[q]
  BY <1>1 DEF IInv, TasksFit
<1>4. UNCHANGED <<tag, debt, budget, entry>>
  BY <1>1, SameTables
<1>5. \A q \in Req : TaskShape(task'[q]) /\ WillWrite(task'[q])
  BY <1>1, <1>2, <1>3 DEF IInv, TasksFit
<1>6. ASSUME NEW q \in Req PROVE WillWrite(task[q])'
  <2>1. PICK x : x = task'[q]
    OBVIOUS
  <2>2. WillWrite(x)
    BY <1>5, <2>1
  <2>3. \A e : EntryFits(e)' <=> EntryFits(e)
    BY <1>4 DEF EntryFits, TagSuits, DebtSuits
  <2>4. WillWrite(x)'
    BY <1>4, <2>2, <2>3 DEF WillWrite, Edited, TagSuits, DebtSuits, Owns
  <2> QED BY <2>1, <2>4
<1>7. TasksFit'
  BY <1>3, <1>5, <1>6 DEF TasksFit
<1> QED BY <1>1, <1>7, SameTables DEF IInv

-----------------------------------------------------------------------------
(* What requests check before they write.                                  *)

LEMMA ListingKeeps ==
    ASSUME IInv, NEW r \in Req, NEW u \in Person, ListCategories(r, u)
    PROVE  IInv'
<1> DEFINE t == [pc |-> "defaults", who |-> u, id |-> None, row |-> <<>>, late |-> FALSE]
<1>1. Begin(r, "defaults", u, None, <<>>) /\ \A i \in TagId : ~Owns(tag, u, i)
  BY DEF ListCategories
<1>2. WillWrite(t)
  BY <1>1 DEF WillWrite
<1> QED BY <1>1, <1>2, BeginKeeps

LEMMA CreateDebtKeeps ==
    ASSUME IInv, NEW r \in Req, NEW u \in Planner, NEW c \in Money, NEW p, NEW terms, NEW g,
           CreateDebt(r, u, c, p, terms, g)
    PROVE  IInv'
<1> DEFINE row == [made |-> TRUE, owner |-> u, currency |-> c, principal |-> p,
                   terms |-> terms, archived |-> FALSE, overlapped |-> FALSE]
           t == [pc |-> "debt", who |-> u, id |-> None, row |-> row, late |-> FALSE]
<1>1. u \in Person
  BY PlanningAssumption
<1>2. DebtShape(row) /\ row.made /\ ~row.overlapped /\ TermsHold(row)
  BY <1>1 DEF CreateDebt, DebtShape, DebtFields, TermsHold
<1>3. Begin(r, "debt", u, None, row)
  BY DEF CreateDebt
<1> HIDE DEF row
<1>4. WillWrite(t)
  BY <1>2 DEF WillWrite
<1> QED BY <1>1, <1>3, <1>4, BeginKeeps

LEMMA UpdateDebtKeeps ==
    ASSUME IInv, NEW r \in Req, NEW u \in Planner, NEW d \in DebtId,
           NEW patch \in Patch \cup [archived : BOOLEAN], UpdateDebt(r, u, d, patch)
    PROVE  IInv'
<1> DEFINE t == [pc |-> "debt_edit", who |-> u, id |-> d, row |-> patch, late |-> FALSE]
<1>1. u \in Person
  BY PlanningAssumption
<1>2. DOMAIN patch \cap {"made", "owner", "currency", "overlapped", "terms"} = {}
  <2>1. CASE patch \in Patch
    BY <2>1, PlanningAssumption
  <2>2. CASE patch \in [archived : BOOLEAN]
    BY <2>2
  <2> QED BY <2>1, <2>2
<1>3. Begin(r, "debt_edit", u, d, patch) /\ debt[d].made /\ TermsHold(Edited(d, patch))
  BY DEF UpdateDebt, Owns, TermsHold
<1>4. WillWrite(t)
  BY <1>2, <1>3 DEF WillWrite
<1> QED BY <1>1, <1>3, <1>4, BeginKeeps

\* What a person may name in an entry suits it, whoever recorded it: on a
\* personal account both are its owner.
LEMMA NamedFits ==
    ASSUME IInv, NEW u \in Person, NEW e, e.acct \in Account, e.by \in Person,
           MayRecord(u, e.acct), MayRecord(e.by, e.acct)
    PROVE  /\ \A g \in TagId \cup {None} : TagFits(u, g, e.kind) => TagSuits(e, g)
           /\ \A d \in DebtId : PaymentFits(u, d, e.kind, e.acct) => DebtSuits(e, d)
<1>1. Personal(e.acct) => u = e.by
  BY PlanningAssumption DEF Personal, MayRecord
<1> QED BY <1>1 DEF TagFits, TagSuits, PaymentFits, DebtSuits, Owns

LEMMA CreateTransactionKeeps ==
    ASSUME IInv, NEW r \in Req, NEW p \in Post, NEW g \in TagId \cup {None},
           NEW d \in DebtId \cup {None}, CreateTransaction(r, p, g, d)
    PROVE  IInv'
<1> DEFINE link == IF p.kind = "EXPENSE" THEN d ELSE None
           amt == IF p.kind = "EXPENSE" THEN -p.amt ELSE p.amt
           row == [state |-> "open", by |-> p.who, acct |-> p.acct, kind |-> p.kind,
                   amt |-> amt, tag |-> g, debt |-> link, month |-> p.month]
           t == [pc |-> "entry", who |-> p.who, id |-> None, row |-> row, late |-> FALSE]
<1>1. /\ p.who \in Person /\ p.acct \in Account /\ p.kind \in Kind /\ p.amt \in Nat
      /\ p.month \in EntryMonth
  BY PlanningAssumption DEF Kind, EntryMonth
<1>2. amt \in Int /\ link \in DebtId \cup {None}
  BY <1>1
<1>3. /\ Begin(r, "entry", p.who, None, row) /\ MayRecord(p.who, p.acct)
      /\ TagFits(p.who, g, p.kind) /\ link # None => PaymentFits(p.who, link, p.kind, p.acct)
  BY DEF CreateTransaction
<1>4. /\ Begin(r, "entry", p.who, None, row) /\ MayRecord(p.who, p.acct)
      /\ TagFits(p.who, g, p.kind)
  BY DEF CreateTransaction
<1> HIDE DEF amt, link
<1>5. /\ row.acct = p.acct /\ row.by = p.who /\ row.kind = p.kind /\ row.tag = g
      /\ row.debt = link /\ row.state = "open" /\ row.month = p.month /\ EntryShape(row)
  BY <1>1, <1>2 DEF EntryShape, EntryFields
<1> HIDE DEF row
<1>6. TagSuits(row, row.tag) /\ DebtSuits(row, row.debt)
  <2>1. TagSuits(row, g)
    BY <1>1, <1>4, <1>5, NamedFits
  <2>2. CASE link = None
    BY <1>5, <2>1, <2>2 DEF DebtSuits
  <2>3. CASE link # None
    BY <1>1, <1>2, <1>3, <1>4, <1>5, <2>1, <2>3, NamedFits
  <2> QED BY <2>2, <2>3
<1>7. EntryFits(row)
  BY <1>1, <1>4, <1>5, <1>6 DEF EntryFits
<1>8. WillWrite(t)
  BY <1>5, <1>7 DEF WillWrite
<1> QED BY <1>1, <1>4, <1>8, BeginKeeps

LEMMA UpdateTransactionKeeps ==
    ASSUME IInv, NEW r \in Req, NEW u \in Person, NEW e \in EntryId,
           NEW sent \in [tag : TagId \cup {None}] \cup [amt : Cents]
                        \cup [debt : DebtId \cup {None}] \cup [month : EntryMonth],
           UpdateTransaction(r, u, e, sent)
    PROVE  IInv'
<1> DEFINE row == IF "amt" \in DOMAIN sent /\ entry[e].kind = "EXPENSE"
                  THEN [sent EXCEPT !.amt = -@] ELSE sent
           t == [pc |-> "entry_edit", who |-> u, id |-> e, row |-> row, late |-> FALSE]
<1>1. /\ Begin(r, "entry_edit", u, e, row) /\ entry[e].state = "open"
      /\ MayRecord(u, entry[e].acct)
      /\ "tag" \in DOMAIN sent => TagFits(u, sent.tag, entry[e].kind)
  BY DEF UpdateTransaction, Editable
<1>2. "debt" \in DOMAIN sent /\ sent.debt \notin {None, entry[e].debt} =>
         PaymentFits(u, sent.debt, entry[e].kind, entry[e].acct)
  BY DEF UpdateTransaction
<1>3. /\ EntryShape(entry[e]) /\ EntryFits(entry[e])
  BY DEF IInv, EntriesFit
<1>4. entry[e].by \in Person /\ entry[e].acct \in Account /\ MayRecord(entry[e].by, entry[e].acct)
      /\ DebtSuits(entry[e], entry[e].debt)
  BY <1>1, <1>3 DEF EntryFits
<1>5. CASE sent \in [amt : Cents]
  <2>1. DOMAIN row = {"amt"} /\ row.amt \in Int
    <3>1. sent.amt \in Cents /\ DOMAIN sent = {"amt"}
      BY <1>5
    <3>2. Cents \subseteq Nat \ {0}
      BY PlanningAssumption
    <3>4. sent.amt \in Int /\ -sent.amt \in Int
      <4>1. PICK x \in Cents : x = sent.amt
        BY <3>1
      <4>2. x \in Int /\ -x \in Int
        BY <3>2
      <4> QED BY <4>1, <4>2
    <3>3. row = sent \/ row = [sent EXCEPT !.amt = -sent.amt]
      OBVIOUS
    <3> QED BY <3>1, <3>3, <3>4
  <2> HIDE DEF row
  <2>2. WillWrite(t)
    BY <1>1, <2>1 DEF WillWrite
  <2> QED BY <1>1, <2>2, BeginKeeps
<1>6. CASE sent \in [month : EntryMonth]
  <2>1. row = sent /\ DOMAIN row = {"month"} /\ row.month \in EntryMonth
    BY <1>6
  <2> HIDE DEF row
  <2>2. WillWrite(t)
    BY <1>1, <2>1 DEF WillWrite
  <2> QED BY <1>1, <2>2, BeginKeeps
<1>7. CASE sent \in [tag : TagId \cup {None}]
  <2>1. row = sent /\ DOMAIN row = {"tag"} /\ row.tag \in TagId \cup {None}
    BY <1>7
  <2>2. TagSuits(entry[e], row.tag)
    BY <1>1, <1>4, <2>1, NamedFits
  <2> HIDE DEF row
  <2>3. WillWrite(t)
    BY <1>1, <2>1, <2>2 DEF WillWrite
  <2> QED BY <1>1, <2>3, BeginKeeps
<1>8. CASE sent \in [debt : DebtId \cup {None}]
  <2>1. row = sent /\ DOMAIN row = {"debt"} /\ row.debt \in DebtId \cup {None}
    BY <1>8
  <2>2. DebtSuits(entry[e], row.debt)
    <3>1. CASE row.debt = None
      BY <3>1 DEF DebtSuits
    <3>2. CASE row.debt = entry[e].debt
      BY <1>4, <3>2
    <3>3. CASE row.debt \notin {None, entry[e].debt}
      BY <1>1, <1>2, <1>4, <2>1, <3>3, NamedFits
    <3> QED BY <3>1, <3>2, <3>3
  <2> HIDE DEF row
  <2>3. WillWrite(t)
    BY <1>1, <2>1, <2>2 DEF WillWrite
  <2> QED BY <1>1, <2>3, BeginKeeps
<1> QED BY <1>5, <1>6, <1>7, <1>8

LEMMA CreateBudgetKeeps ==
    ASSUME IInv, NEW r \in Req, NEW u \in Planner, NEW name, NEW c, NEW m, NEW x,
           NEW g \in TagId \cup {None}, CreateBudget(r, u, name, c, m, g, x)
    PROVE  IInv'
<1> DEFINE row == [made |-> TRUE, owner |-> u, name |-> name, currency |-> c, month |-> m,
                   tag |-> g, amt |-> x, archived |-> FALSE]
           t == [pc |-> "budget", who |-> u, id |-> None, row |-> row, late |-> FALSE]
<1>1. u \in Person /\ Begin(r, "budget", u, None, row)
  BY PlanningAssumption DEF CreateBudget
<1>2. BudgetShape(row) /\ row.made
  BY DEF BudgetShape, BudgetFields
<1> HIDE DEF row
<1>3. WillWrite(t)
  BY <1>2 DEF WillWrite
<1> QED BY <1>1, <1>3, BeginKeeps

-----------------------------------------------------------------------------
(* What requests write.                                                    *)

\* A table keeps its rows when one that was unused is made.
LEMMA FreeRow ==
    ASSUME NEW table, NEW n \in Nat, DOMAIN table = 1 .. n, Unused(table) # {}
    PROVE  Min(Unused(table)) \in 1 .. n /\ ~table[Min(Unused(table))].made
<1>1. Unused(table) \in SUBSET Nat
  BY DEF Unused
<1>2. Min(Unused(table)) \in Unused(table)
  BY <1>1, MinIsLeast
<1> QED BY <1>2 DEF Unused

\* Tables that do not change keep their part of the invariant.
LEMMA TagsStay == ASSUME IInv, UNCHANGED tag PROVE TagsLast /\ TagsFit'
  BY DEF IInv, TagsFit, TagsLast
LEMMA DebtsStay == ASSUME IInv, UNCHANGED debt PROVE DebtsLast /\ DebtsFit'
  BY DEF IInv, DebtsFit, DebtsLast
LEMMA BudgetsStay == ASSUME IInv, UNCHANGED budget PROVE BudgetsFit'
  BY DEF IInv, BudgetsFit
LEMMA EntriesStay ==
    ASSUME IInv, UNCHANGED entry
    PROVE  EntriesLast /\ DOMAIN entry' = EntryId /\ \A e \in EntryId : entry'[e] = entry[e]
  BY DEF IInv, EntriesFit, EntriesLast

\* What the tasks of T and r become.
LEMMA MarkedTasks ==
    ASSUME IInv, NEW r \in Req, NEW T, DoneMarking(r, T)
    PROVE  /\ DOMAIN task' = Req /\ task'[r] = Idle
           /\ \A q \in Req \ {r} : \/ q \in T /\ task'[q] = [task[q] EXCEPT !.late = TRUE]
                                             /\ task'[q].late
                                   \/ q \notin T /\ task'[q] = task[q]
<1>1. \A q \in Req : DOMAIN task[q] = TaskFields
  BY DEF IInv, TasksFit, TaskShape
<1>2. \A q \in Req : [task[q] EXCEPT !.late = TRUE].late
  BY <1>1 DEF TaskFields
<1> QED BY <1>2 DEF DoneMarking

LEMMA DoneTasks ==
    ASSUME IInv, NEW r \in Req, Done(r)
    PROVE  DOMAIN task' = Req /\ task'[r] = Idle /\ \A q \in Req \ {r} : task'[q] = task[q]
  BY DEF Done, IInv, TasksFit

\* A request waits when what it read did not change.
LEMMA WaitsThrough ==
    ASSUME NEW q, task'[q] = task[q],
           UNCHANGED debt \/ task[q].pc # "debt_edit",
           UNCHANGED tag \/ task[q].pc # "defaults"
    PROVE  Waits(q)
  BY DEF Waits, Owns

LEMMA InsertEntryKeeps ==
    ASSUME IInv, NEW r \in Req, InsertEntry(r)
    PROVE  IInv'
<1> DEFINE free == {e \in EntryId : entry[e].state = "absent"}
<1>1. PICK n \in EntryId : n = Min(free) /\ entry[n].state = "absent"
  <2>1. free \in SUBSET Nat /\ free # {}
    BY DEF EntryId, InsertEntry
  <2>2. Min(free) \in free
    BY <2>1, MinIsLeast
  <2> QED BY <2>2
<1>2. PICK row : row = task[r].row
  OBVIOUS
<1>3. /\ entry' = [entry EXCEPT ![n] = row] /\ Done(r) /\ UNCHANGED <<tag, debt, budget>>
      /\ task[r].pc = "entry"
  BY <1>1, <1>2 DEF InsertEntry
<1>4. EntryShape(row) /\ row.state = "open" /\ EntryFits(row)
  BY <1>2, <1>3 DEF IInv, TasksFit, WillWrite
<1>5. TagsLast /\ DebtsLast /\ TagsFit' /\ DebtsFit' /\ BudgetsFit'
  BY <1>3, TagsStay, DebtsStay, BudgetsStay
<1>6. /\ DOMAIN entry' = EntryId /\ entry'[n] = row /\ \A e \in EntryId \ {n} : entry'[e] = entry[e]
  BY <1>3 DEF IInv, EntriesFit
<1>7. EntriesLast
  BY <1>1, <1>6 DEF EntriesLast
<1>8. (EntryShape(entry[n]) /\ EntryFits(entry[n]))'
  <2>1. EntryFits(row)'
    BY <1>4, <1>5, FitsLast
  <2> QED BY <1>4, <1>6, <2>1
<1>9. DOMAIN task' = Req /\ \A q \in Req : Waits(q) \/ task'[q] = Idle
  BY <1>3, DoneTasks, WaitsThrough
<1> QED BY <1>5, <1>6, <1>7, <1>8, <1>9, TablesKeep

LEMMA UpdateAccountKeeps ==
    ASSUME IInv, NEW r \in Req, NEW u, NEW a, NEW gone, UpdateAccount(r, u, a, gone)
    PROVE  IInv'
<1>1. UNCHANGED <<tag, debt, budget, entry, task>>
  BY DEF UpdateAccount
<1>2. DOMAIN task' = Req /\ \A q \in Req : Waits(q)
  BY <1>1, WaitsThrough DEF IInv, TasksFit
<1> QED BY <1>1, <1>2, TagsStay, DebtsStay, BudgetsStay, EntriesStay, TablesKeep

LEMMA DeleteTransactionKeeps ==
    ASSUME IInv, NEW r \in Req, NEW u, NEW n \in EntryId, DeleteTransaction(r, u, n)
    PROVE  IInv'
<1>1. /\ entry' = [entry EXCEPT ![n].state = "deleted"] /\ UNCHANGED <<tag, debt, budget, task>>
      /\ entry[n].state = "open"
  BY DEF DeleteTransaction, Editable
<1>2. TagsLast /\ DebtsLast /\ TagsFit' /\ DebtsFit' /\ BudgetsFit'
  BY <1>1, TagsStay, DebtsStay, BudgetsStay
<1>3. PICK x, y : x = entry[n] /\ y = [x EXCEPT !.state = "deleted"]
  OBVIOUS
<1>4. DOMAIN entry = EntryId /\ EntryShape(x) /\ EntryFits(x)
  BY <1>3 DEF IInv, EntriesFit
<1>5. DOMAIN entry' = EntryId /\ entry'[n] = y /\ \A e \in EntryId \ {n} : entry'[e] = entry[e]
  BY <1>1, <1>3, <1>4
<1>6. /\ DOMAIN y = EntryFields /\ y.state = "deleted" /\ y.by = x.by /\ y.acct = x.acct
      /\ y.kind = x.kind /\ y.amt = x.amt /\ y.tag = x.tag /\ y.debt = x.debt /\ y.month = x.month
  BY <1>3, <1>4 DEF EntryShape, EntryFields
<1>7. EntriesLast
  BY <1>3, <1>5, <1>6 DEF EntriesLast
<1>8. EntryShape(y) /\ EntryFits(y)
  BY <1>1, <1>3, <1>4, <1>6 DEF EntryShape, EntryFits, TagSuits, DebtSuits
<1>9. (EntryShape(entry[n]) /\ EntryFits(entry[n]))'
  <2>1. EntryFits(y)'
    BY <1>2, <1>8, FitsLast
  <2> QED BY <1>5, <1>8, <2>1
<1>10. DOMAIN task' = Req /\ \A q \in Req : Waits(q)
  BY <1>1, WaitsThrough DEF IInv, TasksFit
<1> QED BY <1>2, <1>5, <1>7, <1>9, <1>10, TablesKeep

LEMMA WriteEntryKeeps ==
    ASSUME IInv, NEW r \in Req, WriteEntry(r)
    PROVE  IInv'
<1>1. PICK n, patch : n = task[r].id /\ patch = task[r].row
  OBVIOUS
<1>2. task[r].pc = "entry_edit" /\ WillWrite(task[r])
  BY DEF WriteEntry, IInv, TasksFit
<1>3. /\ n \in EntryId /\ entry[n].state # "absent"
      /\ DOMAIN patch \subseteq {"amt", "month", "tag", "debt"}
      /\ "amt" \in DOMAIN patch => patch.amt \in Int
      /\ "month" \in DOMAIN patch => patch.month \in EntryMonth
      /\ "tag" \in DOMAIN patch =>
            patch.tag \in TagId \cup {None} /\ TagSuits(entry[n], patch.tag)
      /\ "debt" \in DOMAIN patch =>
            patch.debt \in DebtId \cup {None} /\ DebtSuits(entry[n], patch.debt)
  BY <1>1, <1>2 DEF WillWrite
<1>4. PICK x, y : x = entry[n] /\ y = Merged(x, patch)
  OBVIOUS
<1>5. DOMAIN entry = EntryId /\ EntryShape(x) /\ EntryFits(x)
  BY <1>3, <1>4 DEF IInv, EntriesFit
<1>6. entry' = [entry EXCEPT ![n] = y] /\ Done(r) /\ UNCHANGED <<tag, debt, budget>>
  BY <1>1, <1>4, <1>5, <1>3 DEF WriteEntry
<1>7. TagsLast /\ DebtsLast /\ TagsFit' /\ DebtsFit' /\ BudgetsFit'
  BY <1>6, TagsStay, DebtsStay, BudgetsStay
<1>8. DOMAIN entry' = EntryId /\ entry'[n] = y /\ \A e \in EntryId \ {n} : entry'[e] = entry[e]
  BY <1>3, <1>5, <1>6
<1>9. /\ DOMAIN y = EntryFields /\ y.state = x.state /\ y.by = x.by /\ y.acct = x.acct
      /\ y.kind = x.kind
      /\ y.amt = IF "amt" \in DOMAIN patch THEN patch.amt ELSE x.amt
      /\ y.month = IF "month" \in DOMAIN patch THEN patch.month ELSE x.month
      /\ y.tag = IF "tag" \in DOMAIN patch THEN patch.tag ELSE x.tag
      /\ y.debt = IF "debt" \in DOMAIN patch THEN patch.debt ELSE x.debt
  BY <1>3, <1>4, <1>5 DEF EntryShape, EntryFields, Merged
<1>10. EntriesLast
  BY <1>3, <1>4, <1>8, <1>9 DEF EntriesLast
<1>11. EntryShape(y)
  BY <1>3, <1>5, <1>9 DEF EntryShape
<1>12. TagSuits(y, y.tag) /\ DebtSuits(y, y.debt)
  <2>1. TagSuits(x, y.tag) /\ DebtSuits(x, y.debt)
    BY <1>3, <1>4, <1>5, <1>9 DEF EntryFits
  <2> QED BY <1>9, <2>1 DEF TagSuits, DebtSuits
<1>13. EntryFits(y)
  BY <1>3, <1>4, <1>5, <1>9, <1>12 DEF EntryFits
<1>14. (EntryShape(entry[n]) /\ EntryFits(entry[n]))'
  <2>1. EntryFits(y)'
    BY <1>7, <1>11, <1>13, FitsLast
  <2> QED BY <1>8, <1>11, <2>1
<1>15. DOMAIN task' = Req /\ \A q \in Req : Waits(q) \/ task'[q] = Idle
  BY <1>6, DoneTasks, WaitsThrough
<1> QED BY <1>7, <1>8, <1>10, <1>14, <1>15, TablesKeep

LEMMA InsertDebtKeeps ==
    ASSUME IInv, NEW r \in Req, InsertDebt(r)
    PROVE  IInv'
<1>1. DOMAIN debt = DebtId /\ \A d \in DebtId : DebtShape(debt[d])
  BY DEF IInv, DebtsFit
<1>2. PICK n \in DebtId : n = Min(Unused(debt)) /\ ~debt[n].made
  BY <1>1, FreeRow, PlanningAssumption DEF DebtId, InsertDebt
<1>3. PICK row : row = task[r].row
  OBVIOUS
<1>4. /\ debt' = [debt EXCEPT ![n] = row] /\ Done(r) /\ UNCHANGED <<tag, budget, entry>>
      /\ task[r].pc = "debt"
  BY <1>2, <1>3 DEF InsertDebt
<1>5. DebtShape(row) /\ TermsHold(row)
  BY <1>3, <1>4 DEF IInv, TasksFit, WillWrite
<1>6. DOMAIN debt' = DebtId /\ debt'[n] = row /\ \A d \in DebtId \ {n} : debt'[d] = debt[d]
  BY <1>1, <1>4
<1>7. DebtsFit'
  <2>1. \A d \in DebtId : DebtShape(debt'[d])
                          /\ (debt'[d].made => debt'[d].overlapped \/ TermsHold(debt'[d]))
    BY <1>5, <1>6 DEF IInv, DebtsFit
  <2> QED BY <1>6, <2>1 DEF DebtsFit
<1>8. DebtsLast
  BY <1>2, <1>6 DEF DebtsLast
<1>9. DOMAIN task' = Req /\ \A q \in Req : Waits(q) \/ task'[q] = Idle
  <2>1. ASSUME NEW q \in Req \ {r} PROVE Waits(q)
    <3>1. task'[q] = task[q] /\ UNCHANGED tag
      BY <1>4, DoneTasks
    <3>2. task[q].pc = "debt_edit" => task[q].id \in DebtId \ {n}
      BY <1>2 DEF IInv, TasksFit, WillWrite
    <3> QED BY <1>6, <3>1, <3>2 DEF Waits, Owns
  <2> QED BY <1>4, <2>1, DoneTasks
<1> QED BY <1>4, <1>7, <1>8, <1>9, TagsStay, BudgetsStay, EntriesStay, TablesKeep

LEMMA WriteDebtKeeps ==
    ASSUME IInv, NEW r \in Req, WriteDebt(r)
    PROVE  IInv'
<1>1. PICK n, patch, late : n = task[r].id /\ patch = task[r].row /\ late = task[r].late
  OBVIOUS
<1>20. PICK T : T = {q \in Req : task[q].pc = "debt_edit" /\ task[q].id = n}
  OBVIOUS
<1>2. task[r].pc = "debt_edit" /\ WillWrite(task[r]) /\ TaskShape(task[r])
  BY DEF WriteDebt, IInv, TasksFit
<1>3. /\ n \in DebtId /\ debt[n].made
      /\ DOMAIN patch \cap {"made", "owner", "currency", "overlapped", "terms"} = {}
      /\ (late \/ TermsHold(Edited(n, patch)))
  BY <1>1, <1>2 DEF WillWrite, TaskShape
<1>4. late \in BOOLEAN
  BY <1>1, <1>2 DEF TaskShape
<1>5. PICK x, e, y : x = debt[n] /\ e = Edited(n, patch) /\ y = [e EXCEPT !.overlapped = late]
  OBVIOUS
<1>6. DOMAIN debt = DebtId /\ DebtShape(x)
  BY <1>3, <1>5 DEF IInv, DebtsFit
<1>7. /\ debt' = [debt EXCEPT ![n] = y] /\ DoneMarking(r, T) /\ UNCHANGED <<tag, budget, entry>>
  BY <1>1, <1>20, <1>5 DEF WriteDebt
<1>8. DOMAIN debt' = DebtId /\ debt'[n] = y /\ \A d \in DebtId \ {n} : debt'[d] = debt[d]
  BY <1>3, <1>6, <1>7
<1>9. /\ DOMAIN e = DebtFields /\ e.made = x.made /\ e.owner = x.owner
      /\ e.currency = x.currency
  <2> DEFINE m == Merged(x, patch)
  <2>1. /\ DOMAIN m = DebtFields /\ m.made = x.made /\ m.owner = x.owner
        /\ m.currency = x.currency
    BY <1>3, <1>6 DEF Merged, DebtShape, DebtFields
  <2>2. e = [m EXCEPT !.terms = Merged(x.terms, patch)]
    BY <1>5 DEF Edited
  <2> HIDE DEF m
  <2> QED BY <2>1, <2>2 DEF DebtFields
<1>10. /\ DOMAIN y = DebtFields /\ y.made = x.made /\ y.owner = x.owner
       /\ y.currency = x.currency /\ y.overlapped = late
       /\ y.principal = e.principal /\ y.terms = e.terms
  BY <1>5, <1>9 DEF DebtFields
<1>11. DebtShape(y) /\ (y.overlapped \/ TermsHold(y))
  BY <1>3, <1>4, <1>5, <1>6, <1>10 DEF DebtShape, TermsHold
<1>12. DebtsFit'
  <2>1. \A d \in DebtId : DebtShape(debt'[d])
                          /\ (debt'[d].made => debt'[d].overlapped \/ TermsHold(debt'[d]))
    BY <1>8, <1>11 DEF IInv, DebtsFit
  <2> QED BY <1>8, <2>1 DEF DebtsFit
<1>13. DebtsLast
  BY <1>5, <1>8, <1>10 DEF DebtsLast
<1>14. DOMAIN task' = Req /\ \A q \in Req : Waits(q) \/ task'[q] = Idle
  <2>1. ASSUME NEW q \in Req \ {r} PROVE Waits(q)
    <3>1. CASE q \in T
      <4>1. task'[q] = [task[q] EXCEPT !.late = TRUE] /\ task'[q].late
        BY <1>7, <3>1, MarkedTasks
      <4> QED BY <4>1 DEF Waits
    <3>2. CASE q \notin T
      <4>1. task'[q] = task[q] /\ UNCHANGED tag
        BY <1>7, <3>2, MarkedTasks
      <4> QED BY <1>8, <1>20, <3>2, <4>1 DEF Waits, Owns
    <3> QED BY <3>1, <3>2
  <2> QED BY <1>7, <2>1, MarkedTasks
<1> QED BY <1>7, <1>12, <1>13, <1>14, TagsStay, BudgetsStay, EntriesStay, TablesKeep

LEMMA InsertBudgetKeeps ==
    ASSUME IInv, NEW r \in Req, InsertBudget(r)
    PROVE  IInv'
<1>1. DOMAIN budget = BudgetId /\ \A b \in BudgetId : BudgetShape(budget[b])
  BY DEF IInv, BudgetsFit
<1>2. PICK n \in BudgetId : n = Min(Unused(budget))
  BY <1>1, FreeRow, PlanningAssumption DEF BudgetId, InsertBudget
<1>3. PICK row : row = task[r].row
  OBVIOUS
<1>4. /\ budget' = budget \/ budget' = [budget EXCEPT ![n] = row]
      /\ Done(r) /\ UNCHANGED <<tag, debt, entry>> /\ task[r].pc = "budget"
  BY <1>2, <1>3 DEF InsertBudget
<1>5. BudgetShape(row)
  BY <1>3, <1>4 DEF IInv, TasksFit, WillWrite
<1>6. BudgetsFit'
  BY <1>1, <1>4, <1>5 DEF BudgetsFit
<1>7. DOMAIN task' = Req /\ \A q \in Req : Waits(q) \/ task'[q] = Idle
  BY <1>4, DoneTasks, WaitsThrough
<1> QED BY <1>4, <1>6, <1>7, TagsStay, DebtsStay, EntriesStay, TablesKeep

LEMMA UpdateBudgetKeeps ==
    ASSUME IInv, NEW r \in Req, NEW u, NEW n \in BudgetId,
           NEW patch \in [archived : BOOLEAN] \cup [name : Label] \cup [amt : Cents],
           UpdateBudget(r, u, n, patch)
    PROVE  IInv'
<1>1. DOMAIN budget = BudgetId /\ \A b \in BudgetId : BudgetShape(budget[b])
  BY DEF IInv, BudgetsFit
<1>2. PICK x, y : x = budget[n] /\ y = Merged(x, patch)
  OBVIOUS
<1>3. budget' = [budget EXCEPT ![n] = y] /\ UNCHANGED <<tag, debt, entry, task>>
  BY <1>2 DEF UpdateBudget
<1>4. DOMAIN patch \subseteq {"archived", "name", "amt"}
  OBVIOUS
<1>5. BudgetShape(y)
  BY <1>1, <1>2, <1>4 DEF BudgetShape, BudgetFields, Merged
<1>6. BudgetsFit'
  BY <1>1, <1>3, <1>5 DEF BudgetsFit
<1>7. DOMAIN task' = Req /\ \A q \in Req : Waits(q)
  BY <1>3, WaitsThrough DEF IInv, TasksFit
<1> QED BY <1>3, <1>6, <1>7, TagsStay, DebtsStay, EntriesStay, TablesKeep

\* Requests that counted no category of u learn of a new one; the others that
\* are waiting are not concerned.
LEMMA CountersAreTold ==
    ASSUME IInv, NEW r \in Req, NEW u \in Person, DoneMarking(r, Counted(u)), UNCHANGED debt,
           \A w \in Person \ {u} : \A i \in TagId : Owns(tag, w, i)' => Owns(tag, w, i)
    PROVE  DOMAIN task' = Req /\ \A q \in Req : Waits(q) \/ task'[q] = Idle
<1>1. ASSUME NEW q \in Req \ {r} PROVE Waits(q)
  <2>1. CASE q \in Counted(u)
    <3>1. task'[q] = [task[q] EXCEPT !.late = TRUE] /\ task'[q].late
      BY <2>1, MarkedTasks
    <3> QED BY <3>1 DEF Waits
  <2>2. CASE q \notin Counted(u)
    <3>1. task'[q] = task[q]
      BY <2>2, MarkedTasks
    <3>2. PICK w : w = task[q].who
      OBVIOUS
    <3>3. task[q].pc = "defaults" => w \in Person \ {u}
      BY <2>2, <3>2 DEF Counted, IInv, TasksFit, TaskShape
    <3>4. task[q].pc = "defaults" => \A i \in TagId : Owns(tag, w, i)' => Owns(tag, w, i)
      BY <3>3
    <3>5. task[q].pc = "debt_edit" => (task[q].id \in DebtId => debt'[task[q].id] = debt[task[q].id])
      OBVIOUS
    <3> QED BY <3>1, <3>2, <3>4, <3>5 DEF Waits
  <2> QED BY <2>1, <2>2
<1> QED BY <1>1, MarkedTasks

LEMMA CreateCategoryKeeps ==
    ASSUME IInv, NEW r \in Req, NEW u \in Person, NEW name, NEW kind \in Kind,
           CreateCategory(r, u, name, kind)
    PROVE  IInv'
<1>1. DOMAIN tag = TagId /\ \A i \in TagId : TagShape(tag[i])
  BY DEF IInv, TagsFit
<1>2. PICK n \in TagId : n = Min(Unused(tag)) /\ ~tag[n].made
  BY <1>1, FreeRow, PlanningAssumption DEF TagId, CreateCategory
<1>3. PICK row : row = NewTag(u, name, kind)
  OBVIOUS
<1>4. /\ tag' = [tag EXCEPT ![n] = row] /\ DoneMarking(r, Counted(u))
      /\ UNCHANGED <<debt, budget, entry>>
  BY <1>2, <1>3 DEF CreateCategory
<1>5. TagShape(row) /\ row.made /\ row.owner = u
  BY <1>3 DEF NewTag, TagShape, TagFields
<1>6. DOMAIN tag' = TagId /\ tag'[n] = row /\ \A i \in TagId \ {n} : tag'[i] = tag[i]
  BY <1>1, <1>4
<1>7. TagsFit' /\ TagsLast
  BY <1>1, <1>2, <1>5, <1>6 DEF TagsFit, TagsLast
<1>8. \A w \in Person \ {u} : \A i \in TagId : Owns(tag, w, i)' => Owns(tag, w, i)
  BY <1>5, <1>6 DEF Owns
<1> QED BY <1>4, <1>7, <1>8, CountersAreTold, DebtsStay, BudgetsStay, EntriesStay, TablesKeep

LEMMA UpdateCategoryKeeps ==
    ASSUME IInv, NEW r \in Req, NEW u, NEW n \in TagId,
           NEW patch \in [archived : BOOLEAN] \cup [name : Label], UpdateCategory(r, u, n, patch)
    PROVE  IInv'
<1>1. DOMAIN tag = TagId /\ \A i \in TagId : TagShape(tag[i])
  BY DEF IInv, TagsFit
<1>2. PICK x, y : x = tag[n] /\ y = Merged(x, patch)
  OBVIOUS
<1>3. /\ tag' = [tag EXCEPT ![n] = y] /\ UNCHANGED <<debt, budget, entry, task>>
      /\ x.made
  BY <1>2 DEF UpdateCategory, Owns
<1>4. /\ DOMAIN patch \subseteq {"archived", "name"}
      /\ "archived" \in DOMAIN patch => patch.archived \in BOOLEAN
  OBVIOUS
<1>5. /\ TagShape(y) /\ y.made = x.made /\ y.owner = x.owner /\ y.kind = x.kind
  BY <1>1, <1>2, <1>4 DEF TagShape, TagFields, Merged
<1>6. DOMAIN tag' = TagId /\ tag'[n] = y /\ \A i \in TagId \ {n} : tag'[i] = tag[i]
  BY <1>1, <1>3
<1>7. TagsFit' /\ TagsLast
  BY <1>1, <1>2, <1>5, <1>6 DEF TagsFit, TagsLast
<1>8. \A w \in Person : \A i \in TagId : Owns(tag, w, i)' => Owns(tag, w, i)
  BY <1>2, <1>5, <1>6 DEF Owns
<1>9. DOMAIN task' = Req /\ \A q \in Req : Waits(q)
  <2>1. ASSUME NEW q \in Req PROVE Waits(q)
    <3>1. PICK w \in Person : w = task[q].who
      BY DEF IInv, TasksFit, TaskShape
    <3>2. \A i \in TagId : Owns(tag, w, i)' => Owns(tag, w, i)
      BY <1>8
    <3>3. task'[q] = task[q] /\ debt' = debt
      BY <1>3
    <3> QED BY <3>1, <3>2, <3>3 DEF Waits
  <2> QED BY <1>3, <2>1 DEF IInv, TasksFit
<1> QED BY <1>3, <1>7, <1>9, DebtsStay, BudgetsStay, EntriesStay, TablesKeep

-----------------------------------------------------------------------------
(* The default categories.                                                 *)

\* When there are rows enough, each default can have one of its own.
LEMMA RowsForDefaults ==
    ASSUME NEW D, NEW U, IsFiniteSet(D), IsFiniteSet(U), Cardinality(U) >= Cardinality(D)
    PROVE  \E f \in [D -> U] : \A d, e \in D : f[d] = f[e] => d = e
<1> DEFINE n == Cardinality(D)
           m == Cardinality(U)
<1>1. n \in Nat /\ m \in Nat /\ n <= m
  BY FS_CardinalityType
<1>2. PICK f \in Bijection(1 .. n, D) : TRUE
  BY FS_CardinalityType DEF ExistsBijection
<1>3. PICK g \in Bijection(1 .. m, U) : TRUE
  BY FS_CardinalityType DEF ExistsBijection
<1> HIDE DEF n, m
<1>4. \A i \in 1 .. n : i \in 1 .. m
  BY <1>1
<1>5. \A d \in D : \E i \in 1 .. n : f[i] = d
  BY <1>2 DEF Bijection, Surjection
<1>6. /\ g \in [1 .. m -> U] /\ \A i, j \in 1 .. m : g[i] = g[j] => i = j
  BY <1>3 DEF Bijection, Injection, IsInjective
<1> DEFINE at(d) == CHOOSE i \in 1 .. n : f[i] = d
           h == [d \in D |-> g[at(d)]]
<1>7. \A d \in D : at(d) \in 1 .. n /\ f[at(d)] = d
  BY <1>5
<1> HIDE DEF at
<1>8. h \in [D -> U]
  BY <1>4, <1>6, <1>7
<1>9. \A d, e \in D : h[d] = h[e] => d = e
  BY <1>4, <1>6, <1>7
<1> QED BY <1>8, <1>9

\* What InsertDefaults does: nothing, or it fills a free row for every default.
LEMMA DefaultsArrive ==
    ASSUME IInv, NEW r \in Req, NEW u, u = task[r].who, InsertDefaults(r)
    PROVE  \/ UNCHANGED tag /\ Done(r)
           \/ /\ DoneMarking(r, Counted(u))
              /\ \E at \in [Defaults -> Unused(tag)] :
                    /\ \A d, e \in Defaults : at[d] = at[e] => d = e
                    /\ DOMAIN tag' = TagId
                    /\ \A d \in Defaults : tag'[at[d]] = NewTag(u, d[1], d[2])
                    /\ \A i \in TagId : (\A d \in Defaults : at[d] # i) => tag'[i] = tag[i]
<1> SUFFICES ASSUME ~(UNCHANGED tag /\ Done(r))
             PROVE  /\ DoneMarking(r, Counted(u))
                    /\ \E at \in [Defaults -> Unused(tag)] :
                          /\ \A d, e \in Defaults : at[d] = at[e] => d = e
                          /\ DOMAIN tag' = TagId
                          /\ \A d \in Defaults : tag'[at[d]] = NewTag(u, d[1], d[2])
                          /\ \A i \in TagId : (\A d \in Defaults : at[d] # i) => tag'[i] = tag[i]
  OBVIOUS
<1>1. PICK at : at = CHOOSE f \in [Defaults -> Unused(tag)] :
                        \A d, e \in Defaults : f[d] = f[e] => d = e
  OBVIOUS
<1>2. /\ DoneMarking(r, Counted(u)) /\ Cardinality(Unused(tag)) >= Cardinality(Defaults)
      /\ tag' = [i \in TagId |-> IF \E d \in Defaults : at[d] = i
                  THEN LET d == CHOOSE x \in Defaults : at[x] = i IN NewTag(u, d[1], d[2])
                  ELSE tag[i]]
  BY <1>1 DEF InsertDefaults
<1>3. Unused(tag) \subseteq TagId /\ IsFiniteSet(Unused(tag))
  <2>1. Unused(tag) \subseteq TagId
    BY DEF Unused, IInv, TagsFit
  <2>2. IsFiniteSet(TagId)
    <3>1. MaxTag \in Int
      BY PlanningAssumption
    <3> QED BY <3>1, FS_Interval DEF TagId
  <2> QED BY <2>1, <2>2, FS_Subset
<1>4. at \in [Defaults -> Unused(tag)] /\ \A d, e \in Defaults : at[d] = at[e] => d = e
  <2>1. IsFiniteSet(Defaults)
    BY PlanningAssumption
  <2>2. \E f \in [Defaults -> Unused(tag)] : \A d, e \in Defaults : f[d] = f[e] => d = e
    BY <1>2, <1>3, <2>1, RowsForDefaults
  <2> QED BY <1>1, <2>2
<1>5. \A d \in Defaults : tag'[at[d]] = NewTag(u, d[1], d[2])
  <2>1. ASSUME NEW d \in Defaults PROVE tag'[at[d]] = NewTag(u, d[1], d[2])
    <3>1. at[d] \in TagId
      BY <1>3, <1>4
    <3>2. (CHOOSE x \in Defaults : at[x] = at[d]) = d
      BY <1>4
    <3> QED BY <1>2, <3>1, <3>2
  <2> QED BY <2>1
<1>6. DOMAIN tag' = TagId /\ \A i \in TagId : (\A d \in Defaults : at[d] # i) => tag'[i] = tag[i]
  BY <1>2
<1> QED BY <1>2, <1>4, <1>5, <1>6

LEMMA InsertDefaultsKeeps ==
    ASSUME IInv, NEW r \in Req, InsertDefaults(r)
    PROVE  IInv'
<1>1. PICK u \in Person : u = task[r].who
  BY DEF IInv, TasksFit, TaskShape
<1>2. UNCHANGED <<debt, budget, entry>>
  BY DEF InsertDefaults
<1>3. CASE UNCHANGED tag /\ Done(r)
  <2>1. DOMAIN task' = Req /\ \A q \in Req : Waits(q) \/ task'[q] = Idle
    BY <1>2, <1>3, DoneTasks, WaitsThrough
  <2> QED BY <1>2, <1>3, <2>1, TagsStay, DebtsStay, BudgetsStay, EntriesStay, TablesKeep
<1>4. CASE ~(UNCHANGED tag /\ Done(r))
  <2>1. DoneMarking(r, Counted(u))
    BY <1>1, <1>4, DefaultsArrive
  <2>2. PICK at \in [Defaults -> Unused(tag)] :
           /\ DOMAIN tag' = TagId
           /\ \A d \in Defaults : tag'[at[d]] = NewTag(u, d[1], d[2])
           /\ \A i \in TagId : (\A d \in Defaults : at[d] # i) => tag'[i] = tag[i]
    BY <1>1, <1>4, DefaultsArrive
  <2>3. \A i \in TagId : \/ tag'[i] = tag[i]
                         \/ /\ ~tag[i].made /\ TagShape(tag'[i])
                            /\ tag'[i].made /\ tag'[i].owner = u
    <3>1. ASSUME NEW d \in Defaults
          PROVE  /\ TagShape(NewTag(u, d[1], d[2])) /\ NewTag(u, d[1], d[2]).made
                 /\ NewTag(u, d[1], d[2]).owner = u
      <4>1. d[2] \in Kind
        BY PlanningAssumption DEF Kind
      <4> QED BY <4>1 DEF NewTag, TagShape, TagFields
    <3>2. ASSUME NEW d \in Defaults PROVE ~tag[at[d]].made
      BY DEF Unused
    <3> QED BY <2>2, <3>1, <3>2
  <2>4. TagsFit' /\ TagsLast
    <3>1. \A i \in TagId : TagShape(tag[i])
      BY DEF IInv, TagsFit
    <3>2. \A i \in TagId : TagShape(tag'[i])
      BY <2>3, <3>1
    <3> QED BY <2>2, <2>3, <3>2 DEF TagsFit, TagsLast
  <2>5. \A w \in Person \ {u} : \A i \in TagId : Owns(tag, w, i)' => Owns(tag, w, i)
    BY <2>3 DEF Owns
  <2> QED BY <1>2, <2>1, <2>4, <2>5, CountersAreTold, DebtsStay, BudgetsStay, EntriesStay, TablesKeep
<1> QED BY <1>3, <1>4

-----------------------------------------------------------------------------
(* The invariant is inductive.                                             *)

LEMMA InitFits == PlanInit => IInv
<1> SUFFICES ASSUME PlanInit PROVE IInv
  OBVIOUS
<1>1. Somebody \in Person /\ (CHOOSE c \in Money : TRUE) \in Money
  BY PlanningAssumption DEF Somebody
<1>2. TagShape(NoTag) /\ ~NoTag.made
  BY <1>1 DEF TagShape, TagFields, NoTag, Kind
<1>3. DebtShape(NoDebtRow) /\ ~NoDebtRow.made
  BY <1>1 DEF DebtShape, DebtFields, NoDebtRow
<1>4. BudgetShape(NoBudget)
  BY DEF BudgetShape, BudgetFields, NoBudget
<1>5. EntryShape(NoEntry) /\ EntryFits(NoEntry)
  BY DEF EntryShape, EntryFields, EntryFits, NoEntry
<1> HIDE DEF NoTag, NoDebtRow, NoBudget, NoEntry
<1>6. TagsFit /\ DebtsFit /\ BudgetsFit /\ EntriesFit
  BY <1>2, <1>3, <1>4, <1>5 DEF PlanInit, TagsFit, DebtsFit, BudgetsFit, EntriesFit
<1>7. TasksFit
  BY NothingToWrite DEF PlanInit, TasksFit
<1> QED BY <1>6, <1>7 DEF IInv

LEMMA StutterFits == ASSUME IInv, UNCHANGED planVars PROVE IInv'
<1>1. UNCHANGED <<tag, debt, budget, entry, task>>
  BY DEF planVars, tables
<1> QED BY <1>1, TagsStay, DebtsStay, BudgetsStay, EntriesStay, WaitsThrough, TablesKeep
    DEF IInv, TasksFit

LEMMA StepFits == ASSUME IInv, PlanNext PROVE IInv'
<1>1. PICK r \in Req :
         \/ ListingRequest(r) \/ CategoryRequest(r) \/ DebtRequest(r) \/ TermsRequest(r)
         \/ EntryRequest(r) \/ BudgetRequest(r) \/ AccountRequest(r)
         \/ InsertDefaults(r) \/ InsertDebt(r) \/ WriteDebt(r)
         \/ InsertEntry(r) \/ WriteEntry(r) \/ InsertBudget(r)
  BY DEF PlanNext, PlanStep
<1>2. /\ Made(tag) \subseteq TagId /\ Made(debt) \subseteq DebtId
      /\ Made(budget) \subseteq BudgetId
  BY DEF Made, IInv, TagsFit, DebtsFit, BudgetsFit
<1>3. CASE ListingRequest(r)
  BY <1>3, ListingKeeps DEF ListingRequest
<1>4. CASE CategoryRequest(r)
  BY <1>2, <1>4, CreateCategoryKeeps, UpdateCategoryKeeps DEF CategoryRequest
<1>5. CASE DebtRequest(r)
  <2>1. ASSUME NEW u \in Planner, NEW d \in Made(debt), NEW gone \in BOOLEAN,
               UpdateDebt(r, u, d, [archived |-> gone])
        PROVE  IInv'
    <3>1. PICK patch \in [archived : BOOLEAN] : patch = [archived |-> gone]
      OBVIOUS
    <3> QED BY <1>2, <2>1, <3>1, UpdateDebtKeeps
  <2> QED BY <1>5, <2>1, CreateDebtKeeps DEF DebtRequest
<1>6. CASE TermsRequest(r)
  BY <1>2, <1>6, UpdateDebtKeeps DEF TermsRequest
<1>7. CASE EntryRequest(r)
  <2>1. \A sent \in EntryPatch : sent \in [tag : TagId \cup {None}] \cup [amt : Cents]
                                    \cup [debt : DebtId \cup {None}] \cup [month : EntryMonth]
    BY DEF EntryPatch
  <2> QED BY <1>2, <1>7, <2>1, CreateTransactionKeeps, UpdateTransactionKeeps, DeleteTransactionKeeps
          DEF EntryRequest
<1>8. CASE BudgetRequest(r)
  BY <1>2, <1>8, CreateBudgetKeeps, UpdateBudgetKeeps DEF BudgetRequest
<1>10. CASE AccountRequest(r)
  BY <1>10, UpdateAccountKeeps DEF AccountRequest
<1>9. CASE \/ InsertDefaults(r) \/ InsertDebt(r) \/ WriteDebt(r)
           \/ InsertEntry(r) \/ WriteEntry(r) \/ InsertBudget(r)
  BY <1>9, InsertDefaultsKeeps, InsertDebtKeeps, WriteDebtKeeps, InsertEntryKeeps,
     WriteEntryKeeps, InsertBudgetKeeps
<1> QED BY <1>1, <1>3, <1>4, <1>5, <1>6, <1>7, <1>8, <1>9, <1>10

LEMMA Inductive == PlanSpec => []IInv
  BY InitFits, StutterFits, StepFits, PTL DEF PlanSpec

\* Only accounts are archived.
LEMMA ClosedStays ==
    ASSUME closed \subseteq Account, [PlanNext]_planVars
    PROVE  (closed \subseteq Account)'
<1>1. CASE \E r \in Req : AccountRequest(r)
  <2>1. PICK a \in Account, gone \in BOOLEAN :
          closed' = IF gone THEN closed \cup {a} ELSE closed \ {a}
    BY <1>1 DEF AccountRequest, UpdateAccount
  <2> QED BY <2>1
<1>2. CASE PlanNext /\ ~\E r \in Req : AccountRequest(r)
  <2>1. PICK r \in Req :
          \/ ListingRequest(r) \/ CategoryRequest(r) \/ DebtRequest(r) \/ TermsRequest(r)
          \/ EntryRequest(r) \/ BudgetRequest(r)
          \/ InsertDefaults(r) \/ InsertDebt(r) \/ WriteDebt(r)
          \/ InsertEntry(r) \/ WriteEntry(r) \/ InsertBudget(r)
    BY <1>2 DEF PlanNext, PlanStep
  <2>2. CASE \/ ListingRequest(r) \/ CategoryRequest(r) \/ DebtRequest(r)
             \/ EntryRequest(r) \/ BudgetRequest(r) \/ TermsRequest(r)
    BY <2>2 DEF ListingRequest, CategoryRequest, DebtRequest, TermsRequest, EntryRequest,
                BudgetRequest, ListCategories, CreateCategory, UpdateCategory, CreateDebt,
                UpdateDebt, CreateTransaction, UpdateTransaction, DeleteTransaction,
                CreateBudget, UpdateBudget, Begin, tables
  <2>3. CASE \/ InsertDefaults(r) \/ InsertDebt(r) \/ WriteDebt(r)
             \/ InsertEntry(r) \/ WriteEntry(r) \/ InsertBudget(r)
    BY <2>3 DEF InsertDefaults, InsertDebt, WriteDebt, InsertEntry, WriteEntry, InsertBudget
  <2> QED BY <2>1, <2>2, <2>3
<1>3. CASE UNCHANGED planVars
  BY <1>3 DEF planVars, tables
<1> QED BY <1>1, <1>2, <1>3

\* The rows keep their shape: every handler writes what its checks found right,
\* however many requests come between (PlanTypeOK).
THEOREM PlanTypes == PlanSpec => []PlanTypeOK
<1>1. IInv /\ closed \subseteq Account => PlanTypeOK
  BY DEF IInv, TagsFit, DebtsFit, BudgetsFit, EntriesFit, TasksFit, TagShape, DebtShape,
         BudgetShape, EntryShape, TaskShape, PlanTypeOK
<1>2. PlanInit => closed \subseteq Account
  BY DEF PlanInit
<1>3. (closed \subseteq Account) /\ [PlanNext]_planVars => (closed \subseteq Account)'
  BY ClosedStays
<1> QED BY <1>1, <1>2, <1>3, Inductive, PTL DEF PlanSpec

\* A list of debts that fails was broken by an edit that overlapped another
\* one: updateDebt checks its terms merged into the row it read, and nothing
\* else writes terms that were not checked (debts.ts).
THEOREM ListsFailOnlyByOverlap == PlanSpec => []DebtsStayListable
<1>1. IInv => DebtsStayListable
  BY DEF IInv, DebtsFit, DebtsStayListable, ListDebts, DebtsOf, Owns, Estimate, TermsHold
<1> QED BY <1>1, Inductive, PTL

\* The default categories arrive whole, and in an account that has categories
\* only when another request created those after this one counted none
\* (ensureDefaultCategories in categories.ts).
THEOREM DefaultsForNewcomers == PlanSpec => DefaultsOnlyForNewcomers
<1> DEFINE A == \A r \in Req :
                  LET u == task[r].who IN
                  InsertDefaults(r) /\ tag' # tag =>
                    /\ \A d \in Defaults : \E i \in TagId : ~tag[i].made /\ tag'[i].made
                            /\ tag'[i].owner = u /\ <<tag'[i].name, tag'[i].kind>> = d
                    /\ task[r].late \/ \A i \in TagId : ~Owns(tag, u, i)
<1>1. IInv => A
  <2> SUFFICES ASSUME IInv, NEW r \in Req, InsertDefaults(r), tag' # tag
               PROVE  /\ \A d \in Defaults : \E i \in TagId : ~tag[i].made /\ tag'[i].made
                            /\ tag'[i].owner = task[r].who /\ <<tag'[i].name, tag'[i].kind>> = d
                      /\ task[r].late \/ \A i \in TagId : ~Owns(tag, task[r].who, i)
    OBVIOUS
  <2>1. PICK u : u = task[r].who
    OBVIOUS
  <2>2. PICK at \in [Defaults -> Unused(tag)] :
           \A d \in Defaults : tag'[at[d]] = NewTag(u, d[1], d[2])
    BY <2>1, DefaultsArrive
  <2>3. ASSUME NEW d \in Defaults
        PROVE  \E i \in TagId : ~tag[i].made /\ tag'[i].made
                  /\ tag'[i].owner = u /\ <<tag'[i].name, tag'[i].kind>> = d
    <3>1. at[d] \in TagId /\ ~tag[at[d]].made
      BY DEF Unused, IInv, TagsFit
    <3>2. d = <<d[1], d[2]>>
      BY PlanningAssumption
    <3>3. PICK i \in TagId : i = at[d] /\ ~tag[i].made /\ tag'[i] = NewTag(u, d[1], d[2])
      BY <2>2, <3>1
    <3>4. PICK g : g = NewTag(u, d[1], d[2])
      OBVIOUS
    <3>5. g.made /\ g.owner = u /\ g.name = d[1] /\ g.kind = d[2]
      BY <3>4 DEF NewTag
    <3>6. <<g.name, g.kind>> = d
      BY <3>2, <3>5
    <3> QED BY <3>3, <3>4, <3>5, <3>6
  <2>4. task[r].late \/ \A i \in TagId : ~Owns(tag, task[r].who, i)
    BY DEF InsertDefaults, IInv, TasksFit, WillWrite
  <2> QED BY <2>1, <2>3, <2>4
<1> QED BY <1>1, Inductive, PTL DEF DefaultsOnlyForNewcomers

-----------------------------------------------------------------------------
(* The figures derived from the log agree.                                 *)

Amounts == [e \in EntryId |-> entry[e].amt]

\* Sums over the log are whole, and come in two parts wherever it is divided.
LEMMA LogAddsUp ==
    ASSUME IInv, NEW S \in SUBSET EntryId
    PROVE  /\ Whole(Amounts, S) /\ Sum(S) = SumFunctionOnSet(Amounts, S) /\ Sum(S) \in Int
           /\ \A T \in SUBSET S : /\ Sum(S) = Sum(T) + Sum(S \ T)
                                  /\ Sum(T) \in Int /\ Sum(S \ T) \in Int
<1>1. IsFiniteSet(EntryId)
  <2>1. MaxEntry \in Int
    BY PlanningAssumption
  <2> QED BY <2>1, FS_Interval DEF EntryId
<1>2. \A e \in EntryId : Amounts[e] \in Int
  BY DEF IInv, EntriesFit, EntryShape, Amounts
<1>3. \A R \in SUBSET EntryId : Whole(Amounts, R)
  BY <1>1, <1>2, FS_Subset DEF Whole
<1>4. \A R \in SUBSET EntryId : Sum(R) = SumFunctionOnSet(Amounts, R)
  BY DEF Sum, Amounts
<1>5. \A R \in SUBSET EntryId : Sum(R) \in Int
  BY <1>3, <1>4, SumIsWhole
<1>6. ASSUME NEW T \in SUBSET S
      PROVE  Sum(S) = Sum(T) + Sum(S \ T) /\ Sum(T) \in Int /\ Sum(S \ T) \in Int
  <2>1. T \in SUBSET EntryId /\ S \ T \in SUBSET EntryId
    OBVIOUS
  <2> QED BY <1>3, <1>4, <1>5, <2>1, SumSplits
<1> QED BY <1>3, <1>4, <1>5, <1>6

\* An open entry is one its author could make.
LEMMA OpenEntries ==
    ASSUME IInv, NEW e \in Open
    PROVE  /\ e \in EntryId /\ entry[e].by \in Person /\ entry[e].acct \in Account
           /\ entry[e].kind \in Kind /\ MayRecord(entry[e].by, entry[e].acct)
           /\ entry[e].month \in EntryMonth /\ entry[e].tag \in TagId \cup {None}
           /\ TagSuits(entry[e], entry[e].tag) /\ DebtSuits(entry[e], entry[e].debt)
<1>1. e \in EntryId /\ entry[e].state = "open"
  BY DEF Open
<1> QED BY <1>1 DEF IInv, EntriesFit, EntryFits, EntryShape

LEMMA PaymentsCount == ASSUME IInv PROVE PaymentsAreCounted
<1> SUFFICES ASSUME NEW d \in DebtId, debt[d].made
             PROVE  PaymentsForDebt(debt[d].owner, d) = -Sum({e \in Open : entry[e].debt = d})
  BY DEF PaymentsAreCounted
<1> DEFINE A == {e \in OfKind(Scope(debt[d].owner, debt[d].currency, EntryMonth), "EXPENSE") :
                   entry[e].debt = d}
           B == {e \in Open : entry[e].debt = d}
<1>1. d # None
  BY DEF DebtId, None
<1>2. \A e \in B : e \in A
  BY <1>1, OpenEntries DEF DebtSuits, OfKind, Scope
<1>3. \A e \in A : e \in B
  BY DEF OfKind, Scope
<1>4. A = B
  BY <1>2, <1>3
<1> QED BY <1>4 DEF PaymentsForDebt

LEMMA CategoriesSuit == ASSUME IInv PROVE CategoriesFit
  BY OpenEntries DEF CategoriesFit, TagSuits

LEMMA BalancesAddUp == ASSUME IInv PROVE BalancesFollowTotals
<1> SUFFICES ASSUME NEW u \in Poster, NEW c \in Money
             PROVE  Available(u, c) + Held(Personals(u, c) \cap closed)
                      = TotalsByRange(u, c, EntryMonth).net
                        + SumFunctionOnSet(Opening, Personals(u, c))
  BY DEF BalancesFollowTotals
<1> DEFINE X == Scope(u, c, EntryMonth)
           O == Personals(u, c)
           acct == [e \in EntryId |-> entry[e].acct]
           moved == [a \in Account |-> Sum({e \in Open : entry[e].acct = a})]
           held == [a \in Account |-> Balance(a)]
           in == OfKind(X, "INCOME")
           out == OfKind(X, "EXPENSE")
<1>1. u \in Person /\ u # Shared
  <2>1. PICK p \in Post : u = p.who
    BY DEF Poster
  <2>2. p.who \in Person
    BY PlanningAssumption
  <2> QED BY <2>1, <2>2, PlanningAssumption
<1>2. X \in SUBSET Open /\ Open \in SUBSET EntryId
  BY DEF Scope, Open
<1>3. O \in SUBSET Account /\ IsFiniteSet(O) /\ \A a \in O : Opening[a] \in Int
  <2>1. O \in SUBSET Account /\ IsFiniteSet(Account)
    BY PlanningAssumption DEF Personals
  <2>2. \A a \in Account : Opening[a] \in Int
    BY PlanningAssumption
  <2> QED BY <2>1, <2>2, FS_Subset
<1>4. \A a \in O : {e \in Open : entry[e].acct = a} = {e \in X : acct[e] = a}
  <2> SUFFICES ASSUME NEW a \in O
               PROVE  /\ \A e \in Open : entry[e].acct = a => e \in X
                      /\ \A e \in X : e \in EntryId
    BY <1>2
  <2>1. Holder[a] = u /\ CurrencyOf[a] = c
    BY DEF Personals
  <2>2. ASSUME NEW e \in Open, entry[e].acct = a PROVE e \in X
    BY <1>1, <2>1, <2>2, OpenEntries DEF Scope, MayRecord, Personal
  <2> QED BY <1>2, <2>2
<1>5. \A e \in X : acct[e] \in O
  <2> SUFFICES ASSUME NEW e \in X PROVE entry[e].acct \in O
    BY <1>2
  <2>1. e \in Open /\ entry[e].by = u /\ CurrencyOf[entry[e].acct] = c /\ Personal(entry[e].acct)
    BY DEF Scope
  <2> QED BY <2>1, OpenEntries DEF Personals, MayRecord, Personal
<1>6. \A a \in O : moved[a] = SumFunctionOnSet(Amounts, {e \in X : acct[e] = a})
  <2>1. ASSUME NEW a \in O PROVE moved[a] = SumFunctionOnSet(Amounts, {e \in X : acct[e] = a})
    <3>1. moved[a] = Sum({e \in Open : entry[e].acct = a})
      BY <1>3
    <3>2. {e \in X : acct[e] = a} \in SUBSET EntryId
      BY <1>2
    <3> QED BY <1>4, <3>1, <3>2, LogAddsUp
  <2> QED BY <2>1
<1>7. Whole(Amounts, X) /\ Sum(X) = SumFunctionOnSet(Amounts, X)
  BY <1>2, LogAddsUp
<1>8. SumFunctionOnSet(moved, O) = Sum(X)
  <2> HIDE DEF X, O, acct, moved
  <2>1. IsFiniteSet(O)
    BY <1>3
  <2>2. SumFunctionOnSet(moved, O) = SumFunctionOnSet(Amounts, X)
    BY <1>5, <1>6, <1>7, <2>1, SumByClass
  <2> QED BY <1>7, <2>2
<1>9. Whole(moved, O) /\ Whole(Opening, O) /\ \A a \in O : held[a] = Opening[a] + moved[a]
  <2>1. \A a \in Account : moved[a] \in Int
    BY <1>2, LogAddsUp
  <2>2. \A a \in Account : held[a] = Opening[a] + moved[a]
    BY DEF Balance
  <2> HIDE DEF moved, held
  <2> QED BY <1>3, <2>1, <2>2 DEF Whole
<1>10. SumFunctionOnSet(held, O) = SumFunctionOnSet(Opening, O) + SumFunctionOnSet(moved, O)
  <2> HIDE DEF moved, held, O
  <2> QED BY <1>9, SumOfSums
<1>11. in \in SUBSET X /\ X \ in = out
  <2>1. \A e \in X : entry[e].kind \in {"INCOME", "EXPENSE"}
    BY <1>2, OpenEntries DEF Kind
  <2> QED BY <2>1 DEF OfKind
<1>12. Sum(X) = Sum(in) + Sum(out) /\ Sum(in) \in Int /\ Sum(out) \in Int
  <2>1. X \in SUBSET EntryId
    BY <1>2
  <2> HIDE DEF X, in, out
  <2> QED BY <1>11, <2>1, LogAddsUp
<1>13. TotalsByRange(u, c, EntryMonth).net = Sum(in) + Sum(out)
  BY DEF TotalsByRange
<1>14. Available(u, c) + Held(O \cap closed) = SumFunctionOnSet(held, O)
  <2> DEFINE P == Own(u, c)
             Q == O \cap closed
  <2>1. P \in SUBSET O /\ O \ P = Q
    BY DEF Own
  <2>2. Available(u, c) = SumFunctionOnSet(held, P) /\ Held(Q) = SumFunctionOnSet(held, Q)
    BY DEF Available, Held
  <2>3. Whole(held, O)
    <3>1. \A a \in O : held[a] = Opening[a] + moved[a] /\ Opening[a] \in Int /\ moved[a] \in Int
      <4> HIDE DEF held, moved, O
      <4> QED BY <1>9 DEF Whole
    <3> HIDE DEF held, moved, O
    <3> QED BY <1>3, <3>1 DEF Whole
  <2> HIDE DEF P, O, held
  <2> QED BY <2>1, <2>2, <2>3, SumSplits
<1>15. SumFunctionOnSet(Opening, O) \in Int
  BY <1>9, SumIsWhole
<1> DEFINE told == Available(u, c) + Held(O \cap closed)
<1> HIDE DEF X, O, in, out, held, moved, told
<1>16. told = SumFunctionOnSet(Opening, O) + (Sum(in) + Sum(out))
  BY <1>8, <1>10, <1>12, <1>14 DEF told
<1>17. told = (Sum(in) + Sum(out)) + SumFunctionOnSet(Opening, O)
  BY <1>12, <1>15, <1>16
<1> QED BY <1>13, <1>17 DEF O, told

LEMMA BudgetsAddUp == ASSUME IInv PROVE BudgetsFollowTotals
<1> SUFFICES ASSUME NEW b \in BudgetId, budget[b].tag = None, NEW u, u = budget[b].owner,
                    NEW c, c = budget[b].currency, NEW m, m = budget[b].month
             PROVE  SpentForBudget(b) = TotalsByRange(u, c, {m}).expense
                      - Sum(OfKind({e \in Open : /\ entry[e].by = u /\ CurrencyOf[entry[e].acct] = c
                                                 /\ ~Personal(entry[e].acct)
                                                 /\ entry[e].month = m}, "EXPENSE"))
  BY DEF BudgetsFollowTotals
<1> DEFINE A == {e \in OfKind(Open, "EXPENSE") :
                   entry[e].by = u /\ CurrencyOf[entry[e].acct] = c /\ entry[e].month = m}
           B == OfKind(Scope(u, c, {m}), "EXPENSE")
           J == OfKind({e \in Open : /\ entry[e].by = u /\ CurrencyOf[entry[e].acct] = c
                                     /\ ~Personal(entry[e].acct)
                                     /\ entry[e].month = m}, "EXPENSE")
<1>1. A \in SUBSET EntryId /\ B \in SUBSET A /\ A \ B = J
  BY DEF Open, OfKind, Scope
<1>2. SpentForBudget(b) = -Sum(A)
  BY DEF SpentForBudget
<1>3. TotalsByRange(u, c, {m}).expense = -Sum(B)
  BY DEF TotalsByRange
<1> HIDE DEF A, B, J
<1>4. Sum(A) = Sum(B) + Sum(J) /\ Sum(B) \in Int /\ Sum(J) \in Int
  BY <1>1, LogAddsUp
<1>5. SpentForBudget(b) = TotalsByRange(u, c, {m}).expense - Sum(J)
  BY <1>2, <1>3, <1>4
<1> QED BY <1>5 DEF J

\* What is spent in a month is what is spent in its categories.
LEMMA CategoriesAddUp ==
    ASSUME IInv, NEW u, NEW c, NEW months
    PROVE  TotalsByRange(u, c, months).expense
             = SumFunctionOnSet(ByCategory(u, c, months), TagId \cup {None})
<1> DEFINE X == OfKind(Scope(u, c, months), "EXPENSE")
           K == TagId \cup {None}
           class == [e \in EntryId |-> entry[e].tag]
           spent == [g \in K |-> Sum({e \in X : entry[e].tag = g})]
           told == ByCategory(u, c, months)
<1>1. X \in SUBSET Open /\ Open \in SUBSET EntryId /\ X \in SUBSET EntryId
  BY DEF OfKind, Scope, Open
<1>2. IsFiniteSet(K)
  <2>1. MaxTag \in Int
    BY PlanningAssumption
  <2>2. IsFiniteSet(TagId)
    BY <2>1, FS_Interval DEF TagId
  <2> QED BY <2>2, FS_AddElement
<1>3. \A e \in X : class[e] \in K
  BY <1>1, OpenEntries
<1>4. \A g \in K : spent[g] = SumFunctionOnSet(Amounts, {e \in X : class[e] = g})
  <2>1. ASSUME NEW g \in K PROVE spent[g] = SumFunctionOnSet(Amounts, {e \in X : class[e] = g})
    <3>1. {e \in X : class[e] = g} = {e \in X : entry[e].tag = g}
      BY <1>1
    <3>2. {e \in X : entry[e].tag = g} \in SUBSET EntryId
      BY <1>1
    <3>3. spent[g] = Sum({e \in X : entry[e].tag = g})
      OBVIOUS
    <3> HIDE DEF X, class, spent
    <3> QED BY <3>1, <3>2, <3>3, LogAddsUp
  <2> QED BY <2>1
<1>5. Whole(Amounts, X) /\ Sum(X) = SumFunctionOnSet(Amounts, X)
  BY <1>1, LogAddsUp
<1>6. SumFunctionOnSet(spent, K) = Sum(X)
  <2> HIDE DEF X, K, class, spent
  <2> QED BY <1>2, <1>3, <1>4, <1>5, SumByClass
<1>7. \A g \in K : told[g] = -spent[g]
  BY DEF ByCategory
<1>8. Whole(spent, K)
  <2>1. ASSUME NEW g \in K PROVE spent[g] \in Int
    <3>1. {e \in X : entry[e].tag = g} \in SUBSET EntryId
      BY <1>1
    <3>2. spent[g] = Sum({e \in X : entry[e].tag = g})
      OBVIOUS
    <3> HIDE DEF X, spent
    <3> QED BY <3>1, <3>2, LogAddsUp
  <2> QED BY <1>2, <2>1 DEF Whole
<1>9. SumFunctionOnSet(told, K) = -Sum(X)
  <2> HIDE DEF X, K, spent, told
  <2> QED BY <1>6, <1>7, <1>8, SumOfOpposites
<1>10. TotalsByRange(u, c, months).expense = -Sum(X)
  BY DEF TotalsByRange
<1> QED BY <1>9, <1>10

\* What is owed in all is what the report says of each debt.
LEMMA DebtsAddUp ==
    ASSUME IInv, NEW u, NEW c, ListDebts(u).ok
    PROVE  DebtOverview(u, c) = SumFunction(FinanceReport(u, c).debts)
<1> DEFINE balance == ListDebts(u).balance
           mine == {d \in DebtsOf(u) : debt[d].currency = c}
           owed == {d \in DebtsOf(u) : debt[d].currency = c /\ balance[d] > 0}
           told == [d \in mine |-> IF balance[d] > 0 THEN balance[d] ELSE 0]
<1>1. DebtsOf(u) \in SUBSET DebtId /\ IsFiniteSet(DebtId)
  <2>1. MaxDebt \in Int
    BY PlanningAssumption
  <2> QED BY <2>1, FS_Interval DEF DebtsOf, DebtId
<1>2. \A d \in DebtsOf(u) : balance[d] \in Int
  <2> SUFFICES ASSUME NEW d \in DebtsOf(u) PROVE balance[d] \in Int
    OBVIOUS
  <2> DEFINE P == {e \in OfKind(Scope(u, debt[d].currency, EntryMonth), "EXPENSE") :
                     entry[e].debt = d}
  <2>1. balance[d] = Estimate(d).total - PaymentsForDebt(u, d)
    BY DEF ListDebts
  <2>2. Estimate(d).ok
    BY DEF ListDebts
  <2>3. Estimate(d).total \in Int
    BY <2>2, EstimateIsWhole DEF Estimate
  <2>4. P \in SUBSET EntryId /\ PaymentsForDebt(u, d) = -Sum(P)
    BY DEF PaymentsForDebt, OfKind, Scope, Open
  <2> HIDE DEF P, balance
  <2>5. PaymentsForDebt(u, d) \in Int
    BY <2>4, LogAddsUp
  <2> QED BY <2>1, <2>3, <2>5
<1>3. DebtOverview(u, c) = SumFunctionOnSet(balance, owed)
  BY DEF DebtOverview
<1>4. SumFunction(FinanceReport(u, c).debts) = SumFunctionOnSet(told, mine)
  <2>1. FinanceReport(u, c).debts = told
    BY DEF FinanceReport
  <2>2. DOMAIN told = mine
    OBVIOUS
  <2> HIDE DEF told, mine
  <2> QED BY <2>1, <2>2 DEF SumFunction
<1> HIDE DEF balance
<1>5. IsFiniteSet(mine) /\ owed \in SUBSET mine
  <2>1. mine \in SUBSET DebtId
    BY <1>1
  <2>2. IsFiniteSet(mine)
    BY <1>1, <2>1, FS_Subset
  <2> QED BY <2>2
<1>6. \A d \in mine : told[d] \in Int /\ (d \in owed => told[d] = balance[d])
                      /\ (d \notin owed => told[d] = 0)
  BY <1>2
<1> HIDE DEF owed, mine, told
<1>7. Whole(told, mine) /\ Whole(told, owed) /\ IsFiniteSet(mine \ owed)
  <2>1. Whole(told, mine)
    BY <1>5, <1>6 DEF Whole
  <2> QED BY <1>5, <2>1, WholePart, FS_Subset
<1>8. SumFunctionOnSet(told, mine)
        = SumFunctionOnSet(told, owed) + SumFunctionOnSet(told, mine \ owed)
  BY <1>5, <1>7, SumSplits
<1>9. SumFunctionOnSet(told, owed) = SumFunctionOnSet(balance, owed)
  BY <1>5, <1>6, <1>7, SumsOfEquals
<1>10. SumFunctionOnSet(told, mine \ owed) = 0
  BY <1>6, <1>7, SumOfZeros
<1>11. SumFunctionOnSet(told, owed) \in Int
  BY <1>7, SumIsWhole
<1> QED BY <1>3, <1>4, <1>8, <1>9, <1>10, <1>11

LEMMA ReportsAgree == ASSUME IInv PROVE ReportFollowsDashboard
<1> SUFFICES ASSUME NEW u \in Poster, NEW c \in Money, ListDebts(u).ok
             PROVE  /\ FinanceReport(u, c).trend[ThisMonth] = Dashboard(u, c).month
                    /\ Dashboard(u, c).month.expense
                         = SumFunctionOnSet(FinanceReport(u, c).categories, TagId \cup {None})
                    /\ Dashboard(u, c).debt = SumFunction(FinanceReport(u, c).debts)
  BY DEF ReportFollowsDashboard
<1>1. /\ Dashboard(u, c).month = TotalsByRange(u, c, {ThisMonth})
      /\ Dashboard(u, c).debt = DebtOverview(u, c)
  BY DEF Dashboard
<1>2. FinanceReport(u, c).categories = ByCategory(u, c, {ThisMonth})
  BY DEF FinanceReport
<1>3. FinanceReport(u, c).trend[ThisMonth] = TotalsByRange(u, c, {ThisMonth})
  <2>1. ThisMonth \in Months
    BY PlanningAssumption
  <2> QED BY <2>1 DEF FinanceReport
<1> QED BY <1>1, <1>2, <1>3, CategoriesAddUp, DebtsAddUp

\* The figures that accounts, dashboard, report, budgets and debts derive from
\* the one log agree, though each asks it differently (balances.ts,
\* dashboard.ts, reports.ts, debts.ts, budgets.ts).
THEOREM FiguresAgree == PlanSpec => []ReadModelsAgree
<1>1. IInv => ReadModelsAgree
  BY PaymentsCount, CategoriesSuit, BalancesAddUp, BudgetsAddUp, ReportsAgree DEF ReadModelsAgree
<1> QED BY <1>1, Inductive, PTL
=============================================================================
