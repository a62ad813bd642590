--------------------------- MODULE RecurringProofs ---------------------------
(***************************************************************************)
(* Theorems about Recurring, for any number of requests, items, months and *)
(* transactions.                                                           *)
(***************************************************************************)
EXTENDS Recurring, TLAPS

-----------------------------------------------------------------------------
(* The inductive invariant.                                                *)

\* Transactions are numbered in the order of their inserts.
TxInOrder == \A t \in Tx : tx[t].state # "absent" => t < nextTx

\* The unique index (item, month): no two settlements share a key.
KeysAreUnique == \A s, u \in settled : SameKey(s, u) => s = u

\* An open transaction that has inserted a key holds it alone.
CommitsHoldTheirKey ==
    /\ \A r \in Payer, s \in settled : job[r].pc = "commit" => ~SameKey(s, job[r])
    /\ \A q, r \in Payer : (job[q].pc = "commit" /\ job[r].pc = "commit"
                            /\ SameKey(job[q], job[r])) => q = r

\* Edits and deletions are about recorded rows.
EditsNameARow ==
    \A r \in Payer : job[r].pc \in {"tx_update", "tx_delete"} => tx[job[r].tx].state # "absent"

IInv ==
    /\ RecurTypeOK
    /\ TxInOrder
    /\ KeysAreUnique
    /\ CommitsHoldTheirKey
    /\ EditsNameARow
    /\ PairedRows

-----------------------------------------------------------------------------
(* Lemmas.                                                                 *)

LEMMA IdleIsAJob == NoWork \in Job /\ SomeItem \in Item
<1>1. SomeItem \in Item
  BY RecurringAssumption DEF SomeItem
<1>2. 1 \in Period /\ 1 \in Tx
  BY RecurringAssumption DEF Period, Tx
<1> QED BY <1>1, <1>2 DEF NoWork, Job, Pc

\* A request's state that claims no key and no row.
Harmless(j) ==
    /\ j.pc # "commit"
    /\ j.pc \in {"tx_update", "tx_delete"} => tx[j.tx].state # "absent"

LEMMA IdleIsHarmless == Harmless(NoWork)
  BY DEF Harmless, NoWork

\* Steps that leave the log alone.
LEMMA JobsOnly ==
    ASSUME IInv, UNCHANGED log, job' \in [Payer -> Job],
           \A q \in Payer : job'[q] = job[q] \/ Harmless(job'[q]),
           period' \in Period, price' \in [Item -> Amount],
           itemArchived' \subseteq Item, accountArchived' \in BOOLEAN
    PROVE  IInv'
<1>1. RecurTypeOK' /\ TxInOrder' /\ KeysAreUnique' /\ PairedRows'
  BY DEF IInv, RecurTypeOK, TxInOrder, KeysAreUnique, PairedRows, log, SameKey
<1>2. CommitsHoldTheirKey'
  BY DEF IInv, CommitsHoldTheirKey, log, SameKey, Harmless
<1>3. EditsNameARow'
  BY DEF IInv, EditsNameARow, log, Harmless
<1> QED BY <1>1, <1>2, <1>3 DEF IInv

LEMMA RequestKeeps ==
    ASSUME IInv, UNCHANGED <<period, setup, log>>, job' \in [Payer -> Job],
           \A q \in Payer : job'[q] = job[q] \/ Harmless(job'[q])
    PROVE  IInv'
<1>1. /\ period' \in Period /\ price' \in [Item -> Amount]
      /\ itemArchived' \subseteq Item /\ accountArchived' \in BOOLEAN
  BY DEF IInv, RecurTypeOK, setup
<1> QED BY <1>1, JobsOnly

LEMMA FinishTypes ==
    ASSUME IInv, NEW r \in Payer, Finish(r)
    PROVE  /\ job' \in [Payer -> Job] /\ job'[r] = NoWork
           /\ \A q \in Payer \ {r} : job'[q] = job[q]
           /\ \A q \in Payer : job'[q] = job[q] \/ Harmless(job'[q])
  BY IdleIsAJob, IdleIsHarmless DEF IInv, RecurTypeOK, Finish

LEMMA StartKeeps ==
    ASSUME IInv, NEW r \in Payer, NEW j \in Job, Harmless(j), Start(r, j),
           UNCHANGED <<period, setup, log>>
    PROVE  IInv'
<1>1. /\ job' \in [Payer -> Job]
      /\ \A q \in Payer : job'[q] = job[q] \/ Harmless(job'[q])
  BY DEF IInv, RecurTypeOK, Start
<1> QED BY <1>1, RequestKeeps

-----------------------------------------------------------------------------
(* One lemma per step that inserts, commits or writes.                     *)

LEMMA RecordKeeps ==
    ASSUME IInv, NEW r \in Payer, NEW i \in Item, Record(r, i)
    PROVE  IInv'
<1> DEFINE j == [NoWork EXCEPT !.pc = "insert", !.item = i, !.for = period, !.amt = price[i]]
<1>1. j \in Job
  BY IdleIsAJob, RecurringAssumption DEF IInv, RecurTypeOK, Job, Pc
<1>2. Harmless(j)
  BY DEF Harmless, NoWork
<1> QED BY <1>1, <1>2, StartKeeps DEF Record

LEMMA EditTxKeeps ==
    ASSUME IInv, NEW r \in Payer, NEW t \in Tx, NEW x \in Amount, EditTx(r, t, x)
    PROVE  IInv'
<1> DEFINE j == [NoWork EXCEPT !.pc = "tx_update", !.tx = t, !.amt = x]
<1>1. j \in Job
  BY IdleIsAJob, RecurringAssumption DEF Job, Pc
<1>2. Harmless(j)
  BY DEF Harmless, NoWork, EditTx
<1> QED BY <1>1, <1>2, StartKeeps DEF EditTx

LEMMA DeleteTxKeeps ==
    ASSUME IInv, NEW r \in Payer, NEW t \in Tx, DeleteTx(r, t)
    PROVE  IInv'
<1> DEFINE j == [NoWork EXCEPT !.pc = "tx_delete", !.tx = t]
<1>1. j \in Job
  BY IdleIsAJob DEF Job, Pc
<1>2. Harmless(j)
  BY DEF Harmless, NoWork, DeleteTx
<1> QED BY <1>1, <1>2, StartKeeps DEF DeleteTx

\* The insert succeeds only for a key that is neither settled nor held.
LEMMA InsertRowsKeeps ==
    ASSUME IInv, NEW r \in Payer, InsertRows(r)
    PROVE  IInv'
<1>1. CASE \E s \in settled : SameKey(s, job[r])
  <2>1. Finish(r)
    BY <1>1 DEF InsertRows
  <2> QED BY <2>1, FinishTypes, RequestKeeps DEF InsertRows
<1>2. CASE ~ \E s \in settled : SameKey(s, job[r])
  <2>1. /\ job \in [Payer -> Job] /\ job[r] \in Job
        /\ job' = [job EXCEPT ![r].pc = "commit"] /\ UNCHANGED <<period, setup, log>>
        /\ \A q \in Payer : job[q].pc = "commit" => ~SameKey(job[q], job[r])
    BY <1>2 DEF IInv, RecurTypeOK, InsertRows, Goto
  <2>2. /\ job' \in [Payer -> Job] /\ \A q \in Payer \ {r} : job'[q] = job[q]
        /\ job'[r].pc = "commit" /\ job'[r].item = job[r].item /\ job'[r].for = job[r].for
    BY <2>1 DEF Job, Pc
  <2>3. RecurTypeOK' /\ TxInOrder' /\ KeysAreUnique' /\ PairedRows'
    BY <2>1, <2>2 DEF IInv, RecurTypeOK, TxInOrder, KeysAreUnique, PairedRows, log, setup, SameKey
  <2>4. CommitsHoldTheirKey'
    BY <1>2, <2>1, <2>2 DEF IInv, CommitsHoldTheirKey, log, SameKey
  <2>5. EditsNameARow'
    BY <2>1, <2>2 DEF IInv, EditsNameARow, log
  <2> QED BY <2>3, <2>4, <2>5 DEF IInv
<1> QED BY <1>1, <1>2

\* Both rows appear in one step, under a number nothing refers to yet.
LEMMA CommitKeeps ==
    ASSUME IInv, NEW r \in Payer, Commit(r)
    PROVE  IInv'
<1> DEFINE j == job[r]
           t == nextTx
           s == [item |-> j.item, for |-> j.for, tx |-> t, amt |-> j.amt]
<1>1. /\ j.pc = "commit" /\ j \in Job /\ t \in Tx /\ t \in Nat
      /\ nextTx' = t + 1 /\ settled' = settled \cup {s}
      /\ tx' = [tx EXCEPT ![t] = [state |-> "open", item |-> j.item, for |-> j.for,
                                  amt |-> j.amt]]
      /\ Finish(r) /\ UNCHANGED <<period, setup>>
  BY DEF Commit, IInv, RecurTypeOK, Tx
<1>2. /\ tx' \in [Tx -> TxRow] /\ tx'[t].state = "open" /\ tx[t].state = "absent"
      /\ tx'[t].item = j.item /\ tx'[t].for = j.for
      /\ \A u \in Tx \ {t} : tx'[u] = tx[u]
  BY <1>1 DEF IInv, RecurTypeOK, TxRow, Job, TxInOrder
<1>3. s \in Settlement /\ s.tx = t /\ SameKey(s, j)
  BY <1>1 DEF Settlement, Job, SameKey
<1>4. /\ job' \in [Payer -> Job] /\ job'[r].pc = "idle"
      /\ \A q \in Payer \ {r} : job'[q] = job[q]
  BY <1>1, FinishTypes DEF NoWork
<1>5. RecurTypeOK'
  <2>1. nextTx' \in 1 .. MaxTx + 1
    BY <1>1, RecurringAssumption DEF Tx
  <2> QED BY <1>1, <1>2, <1>3, <1>4, <2>1 DEF IInv, RecurTypeOK, setup
<1>6. TxInOrder'
  BY <1>1, <1>2 DEF IInv, TxInOrder, Tx
<1>7. \A u \in settled : ~SameKey(u, s) /\ u.tx # t /\ u.tx \in Tx
  <2>1. \A u \in settled : ~SameKey(u, j)
    BY <1>1 DEF IInv, CommitsHoldTheirKey
  <2>2. \A u \in settled : u.tx # t /\ u.tx \in Tx
    BY <1>2 DEF IInv, RecurTypeOK, Settlement, PairedRows
  <2> QED BY <1>3, <2>1, <2>2 DEF SameKey
<1>8. KeysAreUnique'
  BY <1>1, <1>7 DEF IInv, KeysAreUnique, SameKey
<1>9. CommitsHoldTheirKey'
  BY <1>1, <1>3, <1>4 DEF IInv, CommitsHoldTheirKey, SameKey
<1>10. EditsNameARow'
  BY <1>2, <1>4 DEF IInv, RecurTypeOK, Job, EditsNameARow
<1>11. PairedRows'
  <2>1. ASSUME NEW u \in Tx, tx'[u].state # "absent"
        PROVE  \E v \in settled' : v.tx = u /\ SameKey(v, tx'[u])
    <3>1. CASE u = t
      BY <1>1, <1>2, <1>3, <3>1 DEF SameKey
    <3>2. CASE u # t
      BY <1>1, <1>2, <2>1, <3>2 DEF IInv, PairedRows
    <3> QED BY <3>1, <3>2
  <2>2. ASSUME NEW v \in settled'
        PROVE  tx'[v.tx].state # "absent" /\ SameKey(v, tx'[v.tx])
    <3>1. CASE v = s
      BY <1>2, <1>3, <3>1 DEF SameKey
    <3>2. CASE v \in settled
      BY <1>2, <1>7, <3>2 DEF IInv, PairedRows
    <3> QED BY <1>1, <2>2, <3>1, <3>2
  <2> QED BY <2>1, <2>2 DEF PairedRows
<1> QED BY <1>5, <1>6, <1>8, <1>9, <1>10, <1>11 DEF IInv

\* An edit changes an amount and a deletion a state: the key and the pair stay.
LEMMA WriteTxKeeps ==
    ASSUME IInv, NEW r \in Payer, WriteTx(r)
    PROVE  IInv'
<1> DEFINE t == job[r].tx
<1>1. /\ job[r] \in Job /\ t \in Tx /\ tx[t] \in TxRow /\ tx[t].state # "absent"
      /\ Finish(r) /\ UNCHANGED <<period, setup, nextTx, settled>>
  BY DEF WriteTx, IInv, RecurTypeOK, EditsNameARow, Job
<1>2. tx' \in [Tx -> TxRow]
  BY <1>1 DEF WriteTx, IInv, RecurTypeOK, TxRow, Job
<1>3. \A u \in Tx : /\ tx'[u].item = tx[u].item /\ tx'[u].for = tx[u].for
                    /\ tx'[u].state = "absent" <=> tx[u].state = "absent"
  BY <1>1 DEF WriteTx, IInv, RecurTypeOK, TxRow
<1>4. /\ job' \in [Payer -> Job] /\ job'[r].pc = "idle"
      /\ \A q \in Payer \ {r} : job'[q] = job[q]
  BY <1>1, FinishTypes DEF NoWork
<1>5. RecurTypeOK' /\ TxInOrder' /\ KeysAreUnique'
  BY <1>1, <1>2, <1>3, <1>4 DEF IInv, RecurTypeOK, TxInOrder, KeysAreUnique, SameKey, setup
<1>6. CommitsHoldTheirKey'
  BY <1>1, <1>4 DEF IInv, CommitsHoldTheirKey, SameKey
<1>7. EditsNameARow'
  BY <1>3, <1>4 DEF IInv, RecurTypeOK, Job, EditsNameARow
<1>8. PairedRows'
  <2>1. \A s \in settled : s.tx \in Tx
    BY DEF IInv, RecurTypeOK, Settlement
  <2> QED BY <1>1, <1>3, <2>1 DEF IInv, PairedRows, SameKey
<1> QED BY <1>5, <1>6, <1>7, <1>8 DEF IInv

-----------------------------------------------------------------------------
(* The invariant is inductive.                                             *)

LEMMA InitHolds == RecurInit => IInv
<1> SUFFICES ASSUME RecurInit PROVE IInv
  OBVIOUS
<1>1. /\ \A r \in Payer : job[r].pc = "idle"
      /\ \A t \in Tx : tx[t].state = "absent"
      /\ settled = {}
  BY DEF RecurInit, NoWork
<1>2. RecurTypeOK
  <2>1. 1 \in Period /\ period \in Period /\ nextTx \in 1 .. MaxTx + 1
    BY RecurringAssumption DEF RecurInit, Period
  <2>2. tx \in [Tx -> TxRow] /\ job \in [Payer -> Job]
    BY <2>1, IdleIsAJob DEF RecurInit, TxRow
  <2> QED BY <2>1, <2>2 DEF RecurInit, RecurTypeOK
<1> QED BY <1>1, <1>2 DEF IInv, TxInOrder, KeysAreUnique, CommitsHoldTheirKey,
                          EditsNameARow, PairedRows

LEMMA NextKeeps == IInv /\ [RecurNext]_recurVars => IInv'
<1> SUFFICES ASSUME IInv, [RecurNext]_recurVars PROVE IInv'
  OBVIOUS
<1>1. ASSUME NEW r \in Payer, Abort(r) PROVE IInv'
  BY <1>1, FinishTypes, RequestKeeps DEF Abort
<1>2. ASSUME NEW i \in Item, NEW x \in Amount, SetPrice(i, x) PROVE IInv'
  BY <1>2, JobsOnly DEF SetPrice, IInv, RecurTypeOK
<1>3. ASSUME NEW i \in Item, NEW b \in BOOLEAN, SetItemArchived(i, b) PROVE IInv'
  BY <1>3, JobsOnly DEF SetItemArchived, IInv, RecurTypeOK
<1>4. ASSUME NEW b \in BOOLEAN, SetAccountArchived(b) PROVE IInv'
  BY <1>4, JobsOnly DEF SetAccountArchived, IInv, RecurTypeOK
<1>5. ASSUME MonthPasses PROVE IInv'
  BY <1>5, JobsOnly DEF MonthPasses, IInv, RecurTypeOK, setup
<1>6. ASSUME UNCHANGED recurVars PROVE IInv'
  <2>1. job' \in [Payer -> Job] /\ job' = job
    BY <1>6 DEF recurVars, IInv, RecurTypeOK
  <2> QED BY <1>6, <2>1, RequestKeeps DEF recurVars
<1> QED BY <1>1, <1>2, <1>3, <1>4, <1>5, <1>6, RecordKeeps, InsertRowsKeeps, CommitKeeps,
           DeleteTxKeeps, EditTxKeeps, WriteTxKeeps DEF RecurNext

LEMMA Inductive == RecurSpec => []IInv
<1>1. RecurInit => IInv
  BY InitHolds
<1>2. IInv /\ [RecurNext]_recurVars => IInv'
  BY NextKeeps
<1> QED BY <1>1, <1>2, PTL DEF RecurSpec

-----------------------------------------------------------------------------
(* The theorems.                                                           *)

\* Every variable of bills.ts and recurringIncome.ts keeps its type.
THEOREM RecurringTypes == RecurSpec => []RecurTypeOK
<1>1. IInv => RecurTypeOK
  BY DEF IInv
<1> QED BY <1>1, Inductive, PTL

\* recordIncome and payBill never leave a transaction without its settlement or
\* a settlement without its transaction, whatever fails or races.
THEOREM RowsStayPaired == RecurSpec => []PairedRows
<1>1. IInv => PairedRows
  BY DEF IInv
<1> QED BY <1>1, Inductive, PTL

\* However many requests pay a bill or receive an income at once, the log never
\* counts an item twice in a month.
THEOREM MonthsCountOnce == RecurSpec => []CountedOnce
<1>1. IInv => CountedOnce
  <2> SUFFICES ASSUME IInv, NEW t \in Tx, NEW u \in Tx, tx[t].state # "absent",
                      tx[u].state # "absent", SameKey(tx[t], tx[u])
               PROVE  t = u
    BY DEF CountedOnce
  <2>1. PICK s \in settled : s.tx = t /\ SameKey(s, tx[t])
    BY DEF IInv, PairedRows
  <2>2. PICK v \in settled : v.tx = u /\ SameKey(v, tx[u])
    BY DEF IInv, PairedRows
  <2>3. s = v
    BY <2>1, <2>2 DEF IInv, KeysAreUnique, SameKey
  <2> QED BY <2>1, <2>2, <2>3
<1> QED BY <1>1, Inductive, PTL

\* A settlement is written once and never changed, and carries the amount its
\* transaction is inserted with, whatever the price has become.
THEOREM SettlementsAreFinal == RecurSpec => SettlementsAreRecords
<1> DEFINE A == /\ settled \subseteq settled'
                /\ \A s \in settled' \ settled : s.amt = tx'[s.tx].amt
<1>1. IInv /\ [RecurNext]_recurVars => [A]_recurVars
  <2> SUFFICES ASSUME IInv, RecurNext PROVE A
    OBVIOUS
  <2>1. ASSUME NEW r \in Payer, Commit(r) PROVE A
    BY <2>1 DEF Commit, IInv, RecurTypeOK
  <2>2. ASSUME settled' = settled PROVE A
    BY <2>2
  <2> QED BY <2>1, <2>2 DEF RecurNext, Record, Start, InsertRows, DeleteTx, EditTx, WriteTx, Abort,
                            SetPrice, SetItemArchived, SetAccountArchived, MonthPasses, log
<1> QED BY <1>1, Inductive, PTL DEF RecurSpec, SettlementsAreRecords
=============================================================================
