----------------------------- MODULE Recurring -----------------------------
(***************************************************************************)
(* Bills and recurring incomes (apps/api/src/lib/finance/bills.ts and      *)
(* recurringIncome.ts): recording an item for a month inserts a            *)
(* transaction and a settlement row (BillPayment or IncomeReceipt) in one  *)
(* database transaction; the pair (item, month) is unique among the        *)
(* settlements.  The transactions are afterwards ordinary rows of the log, *)
(* which their owner edits and deletes (transactions.ts).                  *)
(***************************************************************************)
EXTENDS Integers

CONSTANTS
    Payer,      \* request slots
    Item,       \* the bills and recurring incomes of a user
    Amount,     \* bound: the amounts users enter
    MaxPeriod,  \* bound: months that pass
    MaxTx       \* bound: transactions ever created

ASSUME RecurringAssumption ==
    /\ Amount \subseteq Nat \ {0} /\ Amount # {} /\ Item # {}
    /\ MaxPeriod \in Nat \ {0} /\ MaxTx \in Nat \ {0}

VARIABLES
    period,       \* the current calendar month (UTC)
    price,        \* the amount of each item
    itemArchived, accountArchived,
    tx,           \* transactions, as committed
    nextTx,
    settled,      \* settlement rows, as committed
    job

log == <<tx, nextTx, settled>>
setup == <<price, itemArchived, accountArchived>>
recurVars == <<period, setup, log, job>>

Period == 1 .. MaxPeriod
Tx == 1 .. MaxTx
SomeItem == CHOOSE i \in Item : TRUE

\* The item and the month a transaction was recorded for are not columns: its
\* description and notes carry them.
TxRow == [state : {"absent", "open", "deleted"}, item : Item, for : Period, amt : Nat]
Settlement == [item : Item, for : Period, tx : Tx, amt : Nat]
Pc == {"idle", "insert", "commit", "tx_update", "tx_delete"}
Job == [pc : Pc, item : Item, for : Period, amt : Nat, tx : Tx]

NoWork == [pc |-> "idle", item |-> SomeItem, for |-> 1, amt |-> 0, tx |-> 1]

RecurInit ==
    /\ period = 1
    /\ price \in [Item -> Amount] /\ itemArchived = {} /\ accountArchived = FALSE
    /\ tx = [t \in Tx |-> [state |-> "absent", item |-> SomeItem, for |-> 1, amt |-> 0]]
    /\ nextTx = 1 /\ settled = {}
    /\ job = [r \in Payer |-> NoWork]

-----------------------------------------------------------------------------

Start(r, j) == job[r].pc = "idle" /\ job' = [job EXCEPT ![r] = j]
Finish(r) == job' = [job EXCEPT ![r] = NoWork]
Goto(r, pc) == job' = [job EXCEPT ![r].pc = pc]

\* payBill and recordIncome: the item and the account are read, and the month
\* is taken from the clock.
Record(r, i) ==
    /\ i \notin itemArchived /\ ~accountArchived
    /\ Start(r, [NoWork EXCEPT !.pc = "insert", !.item = i, !.for = period, !.amt = price[i]])
    /\ UNCHANGED <<period, setup, log>>

SameKey(j, k) == j.item = k.item /\ j.for = k.for

\* Mistake the runs must catch: no unique index, the code looks for a
\* settlement of the month instead.
InsertRowsUnlocked(r) ==
    /\ job[r].pc = "insert"
    /\ IF \E s \in settled : SameKey(s, job[r]) THEN Finish(r) ELSE Goto(r, "commit")
    /\ UNCHANGED <<period, setup, log>>

\* Mistake the runs must catch: the transaction row is not part of the database
\* transaction, and stays when the settlement fails.
InsertRowsTorn(r) ==
    /\ job[r].pc = "insert"
    /\ \A q \in Payer : job[q].pc = "commit" => ~SameKey(job[q], job[r])
    /\ IF \E s \in settled : SameKey(s, job[r])
       THEN /\ nextTx \in Tx /\ nextTx' = nextTx + 1
            /\ tx' = [tx EXCEPT ![nextTx] = [state |-> "open", item |-> job[r].item,
                                             for |-> job[r].for, amt |-> job[r].amt]]
            /\ Finish(r) /\ UNCHANGED settled
       ELSE Goto(r, "commit") /\ UNCHANGED log
    /\ UNCHANGED <<period, setup>>

\* The transaction row and then the settlement row are inserted.  The unique
\* index fails the insert of a committed key, which rolls both back; one of a
\* key in another open transaction waits for that transaction.
InsertRows(r) ==
    /\ job[r].pc = "insert"
    /\ \A q \in Payer : job[q].pc = "commit" => ~SameKey(job[q], job[r])
    /\ IF \E s \in settled : SameKey(s, job[r]) THEN Finish(r) ELSE Goto(r, "commit")
    /\ UNCHANGED <<period, setup, log>>

\* Mistake the runs must catch: the settlement copies the item's price at the
\* commit, not the amount of the transaction.
CommitRepriced(r) ==
    LET j == job[r]
        t == nextTx IN
    /\ j.pc = "commit" /\ t \in Tx
    /\ nextTx' = t + 1
    /\ tx' = [tx EXCEPT ![t] = [state |-> "open", item |-> j.item, for |-> j.for,
                                amt |-> j.amt]]
    /\ settled' = settled \cup {[item |-> j.item, for |-> j.for, tx |-> t, amt |-> price[j.item]]}
    /\ Finish(r)
    /\ UNCHANGED <<period, setup>>

\* Mistake the runs must catch: the month of the settlement is read again.
CommitRedated(r) ==
    LET j == job[r]
        t == nextTx IN
    /\ j.pc = "commit" /\ t \in Tx
    /\ nextTx' = t + 1
    /\ tx' = [tx EXCEPT ![t] = [state |-> "open", item |-> j.item, for |-> j.for,
                                amt |-> j.amt]]
    /\ settled' = settled \cup {[item |-> j.item, for |-> period, tx |-> t, amt |-> j.amt]}
    /\ Finish(r)
    /\ UNCHANGED <<period, setup>>

\* Mistake the runs must catch: the settlement copies the signed amount of the
\* expense.
CommitSigned(r) ==
    LET j == job[r]
        t == nextTx IN
    /\ j.pc = "commit" /\ t \in Tx
    /\ nextTx' = t + 1
    /\ tx' = [tx EXCEPT ![t] = [state |-> "open", item |-> j.item, for |-> j.for,
                                amt |-> j.amt]]
    /\ settled' = settled \cup {[item |-> j.item, for |-> j.for, tx |-> t, amt |-> -j.amt]}
    /\ Finish(r)
    /\ UNCHANGED <<period, setup>>

Commit(r) ==
    LET j == job[r]
        t == nextTx IN
    /\ j.pc = "commit" /\ t \in Tx
    /\ nextTx' = t + 1
    /\ tx' = [tx EXCEPT ![t] = [state |-> "open", item |-> j.item, for |-> j.for,
                                amt |-> j.amt]]
    /\ settled' = settled \cup {[item |-> j.item, for |-> j.for, tx |-> t, amt |-> j.amt]}
    /\ Finish(r)
    /\ UNCHANGED <<period, setup>>

-----------------------------------------------------------------------------
(* updateBill, updateRecurringIncome, updateAccount: reads that only decide  *)
(* who may do it, then one update.                                           *)

SetPrice(i, x) ==
    /\ price' = [price EXCEPT ![i] = x]
    /\ UNCHANGED <<period, itemArchived, accountArchived, log, job>>

SetItemArchived(i, b) ==
    /\ itemArchived' = IF b THEN itemArchived \cup {i} ELSE itemArchived \ {i}
    /\ UNCHANGED <<period, price, accountArchived, log, job>>

SetAccountArchived(b) ==
    /\ accountArchived' = b
    /\ UNCHANGED <<period, price, itemArchived, log, job>>

(* updateTransaction and deleteTransaction of a recorded row.                *)

EditTx(r, t, x) ==
    /\ tx[t].state = "open"
    /\ Start(r, [NoWork EXCEPT !.pc = "tx_update", !.tx = t, !.amt = x])
    /\ UNCHANGED <<period, setup, log>>

DeleteTx(r, t) ==
    /\ tx[t].state = "open"
    /\ Start(r, [NoWork EXCEPT !.pc = "tx_delete", !.tx = t])
    /\ UNCHANGED <<period, setup, log>>

WriteTx(r) ==
    /\ \/ job[r].pc = "tx_update" /\ tx' = [tx EXCEPT ![job[r].tx].amt = job[r].amt]
       \/ job[r].pc = "tx_delete" /\ tx' = [tx EXCEPT ![job[r].tx].state = "deleted"]
    /\ Finish(r)
    /\ UNCHANGED <<period, setup, nextTx, settled>>

MonthPasses ==
    /\ period + 1 \in Period
    /\ period' = period + 1
    /\ UNCHANGED <<setup, log, job>>

\* A statement fails or the process dies; also the model running out of ids.
Abort(r) ==
    /\ job[r].pc # "idle"
    /\ Finish(r)
    /\ UNCHANGED <<period, setup, log>>

RecurNext ==
    \/ \E r \in Payer :
          \/ \E i \in Item : Record(r, i)
          \/ InsertRows(r) \/ Commit(r)
          \/ \E t \in Tx : DeleteTx(r, t) \/ \E x \in Amount : EditTx(r, t, x)
          \/ WriteTx(r)
          \/ Abort(r)
    \/ \E i \in Item :
          \/ \E x \in Amount : SetPrice(i, x)
          \/ \E b \in BOOLEAN : SetItemArchived(i, b)
    \/ \E b \in BOOLEAN : SetAccountArchived(b)
    \/ MonthPasses

RecurSpec == RecurInit /\ [][RecurNext]_recurVars

-----------------------------------------------------------------------------
(* Properties.                                                             *)

RecurTypeOK ==
    /\ period \in Period
    /\ price \in [Item -> Amount] /\ itemArchived \subseteq Item
    /\ accountArchived \in BOOLEAN
    /\ tx \in [Tx -> TxRow] /\ nextTx \in 1 .. MaxTx + 1
    /\ settled \subseteq Settlement
    /\ job \in [Payer -> Job]

\* The month is never counted twice: however many requests record an item at
\* once, and whatever fails half-way, the log holds at most one transaction
\* recorded for an item and a month, deleted ones included.
CountedOnce ==
    \A t, u \in Tx :
        (tx[t].state # "absent" /\ tx[u].state # "absent" /\ SameKey(tx[t], tx[u]))
            => t = u

\* Transactions and settlements come in pairs: a recorded transaction has the
\* settlement that marks its month, a settlement its transaction, and neither
\* outlives a failure without the other.
PairedRows ==
    /\ \A t \in Tx : tx[t].state # "absent" =>
          \E s \in settled : s.tx = t /\ SameKey(s, tx[t])
    /\ \A s \in settled : tx[s.tx].state # "absent" /\ SameKey(s, tx[s.tx])

\* Settlements are written once, with the amount their transaction has at that
\* moment, however the price changes while the request runs.
SettlementsAreRecords ==
    [][/\ settled \subseteq settled'
       /\ \A s \in settled' \ settled : s.amt = tx'[s.tx].amt]_recurVars

\* "a paid bill is a genuine money movement visible in balances and budgets"
\* (prisma/schema.prisma:468-469): what an item shows as settled for a month is
\* backed by a transaction that counts.
SettledIsMoney == \A s \in settled : tx[s.tx].state = "open"
=============================================================================
