---------------------------- MODULE LedgerProofs ----------------------------
(***************************************************************************)
(* Theorems about Ledger, for any number of requests, users, accounts,     *)
(* transfers and plain rows, and any amounts and rates.                    *)
(***************************************************************************)
EXTENDS Ledger, TLAPS

-----------------------------------------------------------------------------
(* The inductive invariant.                                                *)

\* Rows are numbered in the order of their inserts.
RowsInOrder ==
    /\ \A t \in Tid : \A p \in Part : row[<<t, p>>].state # "absent" => t < nextTransfer
    /\ \A p \in Pid : plain[p].state # "absent" => p < nextPlain

\* A transfer never leads from an account to itself.
RoutesLeadElsewhere ==
    \A t \in Tid : row[<<t, "head">>].state # "absent" => route[t].from # route[t].to

UpdatePc == {"update_head", "update_out", "update_in"}
DeletePc == {"delete_head", "delete_legs"}
HeadPc == {"update_out", "update_in", "delete_legs", "commit"}
Amends(j) == j.pc \in UpdatePc \/ (j.pc = "commit" /\ j.change = "update")

Agreed(a, b, x, k) == x \in Nat \ {0} /\ LegsAgreed(a, b, x, k)

\* What a request is about: amounts its accounts agree with, rows that exist.
Sensible(j) ==
    /\ j.pc = "insert" => j.from # j.to /\ Agreed(j.from, j.to, j.amt, j.rate)
    /\ Amends(j) => Agreed(route[j.id].from, route[j.id].to, j.amt, j.rate)
    /\ j.pc \in DeletePc => j.change = "delete"
    /\ j.pc \in UpdatePc \cup DeletePc \cup {"commit"} =>
          j.id \in Tid /\ row[<<j.id, "head">>].state # "absent"
    /\ j.pc \in {"plain_update", "plain_delete"} =>
          j.id \in Pid /\ plain[j.id].state # "absent"

\* The locks a request holds: the head first, and of the legs it has come to
\* those that are open.
LocksTaken(j) ==
    /\ j.pc \notin HeadPc => j.held = {}
    /\ j.pc \in HeadPc => /\ <<j.id, "head">> \in j.held
                          /\ j.held \subseteq {<<j.id, p>> : p \in Part}
                          /\ <<j.id, "out">> \in j.held <=>
                                Open(<<j.id, "out">>) /\ j.pc \in {"update_in", "commit"}
                          /\ <<j.id, "in">> \in j.held <=>
                                Open(<<j.id, "in">>) /\ j.pc = "commit"

LocksAreExclusive ==
    \A q, r \in Req : q # r => job[q].held \cap job[r].held = {}

IInv ==
    /\ TypeOK
    /\ RowsInOrder
    /\ RoutesLeadElsewhere
    /\ \A r \in Req : Sensible(job[r]) /\ LocksTaken(job[r])
    /\ LocksAreExclusive
    /\ BundlesAreWhole

-----------------------------------------------------------------------------
(* Lemmas about amounts and jobs.                                          *)

\* Half-up division by a positive number stays among the naturals.
LEMMA HalfUpIsNat ==
    ASSUME NEW n \in Nat, NEW d \in Nat \ {0}
    PROVE  (2 * n + d) \div (2 * d) \in Nat
  OBVIOUS

LEMMA ProductIsNat ==
    ASSUME NEW x \in Nat, NEW k \in Nat
    PROVE  x * k \in Nat
  OBVIOUS

LEMMA ArrivesIsNat ==
    ASSUME NEW x \in Nat, NEW k \in Nat
    PROVE  Arrives(x, k) \in Nat
<1>1. x * k \in Nat /\ 2 * x * k = 2 * (x * k)
  BY ProductIsNat
<1>2. Converted(x, k) \in Nat
  BY <1>1, HalfUpIsNat, AmountAssumption DEF Converted
<1> QED BY <1>2 DEF Arrives

LEMMA IdleIsAJob == Idle \in Job /\ SomeAccount \in Account
<1>1. SomeAccount \in Account
  BY AccountAssumption DEF SomeAccount
<1>2. 1 \in Tid /\ 1 \in Pid
  BY BoundAssumption DEF Tid, Pid
<1> QED BY <1>1, <1>2 DEF Idle, Job, Pc, Change, NoRate

LEMMA IdleIsSensible == Sensible(Idle) /\ LocksTaken(Idle)
  BY DEF Sensible, LocksTaken, Idle, UpdatePc, DeletePc, HeadPc, Amends

\* Steps that change what requests are doing, permissions and accounts.
LEMMA JobsOnly ==
    ASSUME IInv, UNCHANGED <<bundles, plains>>, job' \in [Req -> Job],
           archived' \subseteq Account, recorders' \subseteq User,
           \A q \in Req : Sensible(job'[q]) /\ LocksTaken(job'[q]),
           LocksAreExclusive'
    PROVE  IInv'
<1>1. UNCHANGED <<route, row, nextTransfer, plain, nextPlain>>
  BY DEF bundles, plains
<1>2. TypeOK' /\ RowsInOrder' /\ RoutesLeadElsewhere' /\ BundlesAreWhole'
  BY <1>1 DEF IInv, TypeOK, RowsInOrder, RoutesLeadElsewhere, BundlesAreWhole
<1>3. (\A q \in Req : Sensible(job[q]) /\ LocksTaken(job[q]))'
  BY <1>1 DEF Sensible, LocksTaken, Open
<1> QED BY <1>2, <1>3 DEF IInv

\* One request moves on, and takes only locks that are free.
LEMMA OneJob ==
    ASSUME IInv, NEW r \in Req, job' \in [Req -> Job],
           \A q \in Req \ {r} : job'[q] = job[q],
           Sensible(job'[r]), LocksTaken(job'[r]),
           \A x \in job'[r].held : x \in job[r].held \/ ~Locked(r, x),
           UNCHANGED <<bundles, plains, others>>
    PROVE  IInv'
<1>1. LocksAreExclusive'
  <2>1. \A q \in Req \ {r} : job[q].held \cap job'[r].held = {}
    BY DEF IInv, LocksAreExclusive, Locked
  <2> QED BY <2>1 DEF IInv, LocksAreExclusive
<1>2. \A q \in Req : Sensible(job'[q]) /\ LocksTaken(job'[q])
  BY DEF IInv
<1>3. archived' \subseteq Account /\ recorders' \subseteq User
  BY DEF IInv, TypeOK, others
<1> QED BY <1>1, <1>2, <1>3, JobsOnly

LEMMA StartKeeps ==
    ASSUME IInv, NEW r \in Req, NEW j \in Job, Sensible(j), j.held = {}, j.pc \notin HeadPc,
           Start(r, j), UNCHANGED <<bundles, plains, others>>
    PROVE  IInv'
<1>1. LocksTaken(j)
  BY DEF LocksTaken
<1>2. /\ job' \in [Req -> Job] /\ job'[r] = j
      /\ \A q \in Req \ {r} : job'[q] = job[q]
  BY DEF IInv, TypeOK, Start
<1> QED BY <1>1, <1>2, OneJob

LEMMA FinishTypes ==
    ASSUME IInv, NEW r \in Req, Finish(r)
    PROVE  /\ job' \in [Req -> Job] /\ job'[r] = Idle /\ job'[r].held = {}
           /\ \A q \in Req \ {r} : job'[q] = job[q]
           /\ LocksAreExclusive'
<1>1. /\ job' \in [Req -> Job] /\ job'[r] = Idle
      /\ \A q \in Req \ {r} : job'[q] = job[q]
  BY IdleIsAJob DEF IInv, TypeOK, Finish
<1>2. Idle.held = {}
  BY DEF Idle
<1>3. LocksAreExclusive'
  BY <1>1, <1>2 DEF IInv, LocksAreExclusive
<1> QED BY <1>1, <1>2, <1>3

LEMMA AbortKeeps ==
    ASSUME IInv, NEW r \in Req, Abort(r)
    PROVE  IInv'
  BY FinishTypes, IdleIsSensible, OneJob DEF Abort

\* A transaction's UPDATE takes the locks of the rows it changes.
LEMMA WriteTypes ==
    ASSUME IInv, NEW r \in Req, NEW S \in SUBSET Rid, NEW pc \in HeadPc, Write(r, S, pc)
    PROVE  /\ job' \in [Req -> Job] /\ \A q \in Req \ {r} : job'[q] = job[q]
           /\ job'[r].pc = pc /\ job'[r].held = job[r].held \cup S
           /\ job'[r].id = job[r].id /\ job'[r].change = job[r].change
           /\ job'[r].amt = job[r].amt /\ job'[r].rate = job[r].rate
           /\ \A x \in job'[r].held : x \in job[r].held \/ ~Locked(r, x)
           /\ UNCHANGED <<bundles, plains, others>>
<1>1. job \in [Req -> Job] /\ job[r] \in Job
  BY DEF IInv, TypeOK
<1>2. /\ job' \in [Req -> Job] /\ \A q \in Req \ {r} : job'[q] = job[q]
      /\ job'[r].pc = pc /\ job'[r].held = job[r].held \cup S
      /\ job'[r].id = job[r].id /\ job'[r].change = job[r].change
      /\ job'[r].amt = job[r].amt /\ job'[r].rate = job[r].rate
  BY <1>1 DEF Write, Job, Pc, HeadPc
<1> QED BY <1>2 DEF Write

LEMMA HeadSteps ==
    ASSUME IInv, NEW r \in Req, UpdateHead(r) \/ DeleteHead(r)
    PROVE  IInv'
<1> DEFINE t == job[r].id
           S == {<<t, "head">>}
<1>1. /\ job[r] \in Job /\ Sensible(job[r]) /\ LocksTaken(job[r])
      /\ job[r].pc \in {"update_head", "delete_head"}
  BY DEF IInv, TypeOK, UpdateHead, DeleteHead
<1>2. job[r].held = {} /\ t \in Tid /\ S \in SUBSET Rid
  BY <1>1 DEF LocksTaken, Sensible, HeadPc, UpdatePc, DeletePc, Rid, Part
<1>3. PICK pc \in {"update_out", "delete_legs"} :
        /\ Write(r, S, pc)
        /\ job[r].pc = "update_head" <=> pc = "update_out"
  BY DEF UpdateHead, DeleteHead
<1>4. pc \in HeadPc
  BY <1>3 DEF HeadPc
<1>5. /\ job' \in [Req -> Job] /\ \A q \in Req \ {r} : job'[q] = job[q]
      /\ job'[r].pc = pc /\ job'[r].held = S
      /\ job'[r].id = t /\ job'[r].change = job[r].change
      /\ job'[r].amt = job[r].amt /\ job'[r].rate = job[r].rate
      /\ \A x \in job'[r].held : x \in job[r].held \/ ~Locked(r, x)
      /\ UNCHANGED <<bundles, plains, others>>
  BY <1>2, <1>3, <1>4, WriteTypes
<1>6. Sensible(job'[r])
  BY <1>1, <1>3, <1>5 DEF Sensible, Amends, UpdatePc, DeletePc
<1>7. LocksTaken(job'[r])
  BY <1>3, <1>5 DEF LocksTaken, HeadPc, Part
<1> QED BY <1>5, <1>6, <1>7, OneJob

LEMMA LegSteps ==
    ASSUME IInv, NEW r \in Req, UpdateOut(r) \/ UpdateIn(r) \/ DeleteLegs(r)
    PROVE  IInv'
<1> DEFINE t == job[r].id
           S == IF job[r].pc = "update_out" THEN {x \in {<<t, "out">>} : Open(x)}
                ELSE IF job[r].pc = "update_in" THEN {x \in {<<t, "in">>} : Open(x)}
                ELSE {x \in Legs(t) : Open(x)}
           pc == IF job[r].pc = "update_out" THEN "update_in" ELSE "commit"
<1>1. /\ job[r] \in Job /\ Sensible(job[r]) /\ LocksTaken(job[r])
      /\ job[r].pc \in {"update_out", "update_in", "delete_legs"}
      /\ Write(r, S, pc)
  BY DEF IInv, TypeOK, UpdateOut, UpdateIn, DeleteLegs
<1>2. t \in Tid /\ S \in SUBSET Rid /\ pc \in HeadPc
  BY <1>1 DEF Sensible, UpdatePc, DeletePc, HeadPc, Rid, Part, Legs
<1>3. /\ job' \in [Req -> Job] /\ \A q \in Req \ {r} : job'[q] = job[q]
      /\ job'[r].pc = pc /\ job'[r].held = job[r].held \cup S
      /\ job'[r].id = t /\ job'[r].change = job[r].change
      /\ job'[r].amt = job[r].amt /\ job'[r].rate = job[r].rate
      /\ \A x \in job'[r].held : x \in job[r].held \/ ~Locked(r, x)
      /\ UNCHANGED <<bundles, plains, others>>
  BY <1>1, <1>2, WriteTypes
<1>4. Sensible(job'[r])
  BY <1>1, <1>3 DEF Sensible, Amends, UpdatePc, DeletePc
<1>5. LocksTaken(job'[r])
  BY <1>1, <1>3 DEF LocksTaken, HeadPc, Part, Legs
<1> QED BY <1>3, <1>4, <1>5, OneJob

-----------------------------------------------------------------------------
(* Requests arrive.                                                        *)

LEMMA CreateTransferKeeps ==
    ASSUME IInv, NEW r \in Req, NEW u \in User, NEW a \in Account, NEW b \in Account,
           NEW x \in Amount, NEW k \in Rate \cup {NoRate}, CreateTransfer(r, u, a, b, x, k)
    PROVE  IInv'
<1> DEFINE i == [Idle EXCEPT !.pc = "insert", !.from = a, !.to = b]
           j == [i EXCEPT !.amt = x, !.rate = k]
<1>1. x \in Nat \ {0} /\ x \in Int /\ k \in Nat
  BY AmountAssumption DEF NoRate
<1>2. i \in Job /\ i.pc = "insert" /\ i.from = a /\ i.to = b /\ i.held = {}
  BY IdleIsAJob DEF Job, Pc, Idle
<1>3. Start(r, j) /\ UNCHANGED <<bundles, plains, others>>
  BY DEF CreateTransfer
<1>4. j = [i EXCEPT !.amt = x, !.rate = k]
  OBVIOUS
<1> HIDE DEF i, j
<1>5. j = [pc |-> i.pc, change |-> i.change, id |-> i.id, from |-> i.from, to |-> i.to,
           amt |-> x, rate |-> k, held |-> i.held]
  BY <1>2, <1>4, Zenon DEF Job
<1>6. j \in Job /\ j.pc \notin HeadPc /\ j.held = {}
  BY <1>1, <1>2, <1>5 DEF Job, HeadPc
<1>7. Sensible(j)
  BY <1>1, <1>2, <1>5 DEF Sensible, Agreed, UpdatePc, DeletePc, Amends, CreateTransfer
<1> QED BY <1>3, <1>6, <1>7, StartKeeps

LEMMA UpdateTransferKeeps ==
    ASSUME IInv, NEW r \in Req, NEW u \in User, NEW t \in Tid,
           NEW x \in Amount, NEW k \in Rate \cup {NoRate}, UpdateTransfer(r, u, t, x, k)
    PROVE  IInv'
<1> DEFINE i == [Idle EXCEPT !.pc = "update_head", !.id = t]
           j == [i EXCEPT !.amt = x, !.rate = k]
<1>1. x \in Nat \ {0} /\ x \in Int /\ k \in Nat
  BY AmountAssumption DEF NoRate
<1>2. i \in Job /\ i.pc = "update_head" /\ i.id = t /\ i.held = {}
  BY IdleIsAJob DEF Job, Pc, Idle
<1>3. Start(r, j) /\ UNCHANGED <<bundles, plains, others>>
  BY DEF UpdateTransfer
<1>4. j = [i EXCEPT !.amt = x, !.rate = k]
  OBVIOUS
<1> HIDE DEF i, j
<1>5. j = [pc |-> i.pc, change |-> i.change, id |-> i.id, from |-> i.from, to |-> i.to,
           amt |-> x, rate |-> k, held |-> i.held]
  BY <1>2, <1>4, Zenon DEF Job
<1>6. j \in Job /\ j.pc \notin HeadPc /\ j.held = {}
  BY <1>1, <1>2, <1>5 DEF Job, HeadPc
<1>7. Sensible(j)
  BY <1>1, <1>2, <1>5 DEF Sensible, Agreed, UpdatePc, DeletePc, Amends, UpdateTransfer, Open
<1> QED BY <1>3, <1>6, <1>7, StartKeeps

\* A leg is open only while its head is, so deleting by the leg names a transfer.
LEMMA DeleteKeeps ==
    ASSUME IInv, NEW r \in Req, NEW u \in User, NEW t \in Tid,
           DeleteTransfer(r, u, t) \/ \E p \in {"out", "in"} : DeleteLeg(r, u, t, p)
    PROVE  IInv'
<1> DEFINE j == [Idle EXCEPT !.pc = "delete_head", !.change = "delete", !.id = t]
<1>1. Start(r, j) /\ UNCHANGED <<bundles, plains, others>>
  BY DEF DeleteTransfer, DeleteLeg
<1>2. j \in Job /\ j.held = {} /\ j.pc \notin HeadPc
  BY IdleIsAJob DEF Job, Pc, Change, Idle, HeadPc
<1>3. row[<<t, "head">>].state = "open"
  BY DEF DeleteTransfer, DeleteLeg, Open, IInv, BundlesAreWhole
<1>4. Sensible(j)
  BY <1>3 DEF Sensible, Idle, UpdatePc, DeletePc, Amends
<1> QED BY <1>1, <1>2, <1>4, StartKeeps

LEMMA CreateTransactionKeeps ==
    ASSUME IInv, NEW r \in Req, NEW u \in User, NEW a \in Account, NEW x \in Int,
           CreateTransaction(r, u, a, x)
    PROVE  IInv'
<1> DEFINE j == [Idle EXCEPT !.pc = "plain_insert", !.from = a, !.amt = x]
<1>1. j \in Job /\ j.held = {} /\ j.pc \notin HeadPc
  BY IdleIsAJob DEF Job, Pc, Idle, HeadPc
<1>2. Sensible(j)
  BY DEF Sensible, Idle, UpdatePc, DeletePc, Amends
<1> QED BY <1>1, <1>2, StartKeeps DEF CreateTransaction

LEMMA UpdateTransactionKeeps ==
    ASSUME IInv, NEW r \in Req, NEW u \in User, NEW p \in Pid, NEW x \in Amount,
           UpdateTransaction(r, u, p, x)
    PROVE  IInv'
<1> DEFINE y == IF plain[p].amt < 0 THEN -x ELSE x
           j == [Idle EXCEPT !.pc = "plain_update", !.id = p, !.amt = y]
<1>1. y \in Int
  BY AmountAssumption
<1>2. j \in Job /\ j.held = {} /\ j.pc \notin HeadPc
  BY <1>1, IdleIsAJob DEF Job, Pc, Idle, HeadPc
<1>3. Sensible(j)
  BY DEF Sensible, Idle, UpdatePc, DeletePc, Amends, UpdateTransaction
<1> QED BY <1>2, <1>3, StartKeeps DEF UpdateTransaction

LEMMA DeleteTransactionKeeps ==
    ASSUME IInv, NEW r \in Req, NEW u \in User, NEW p \in Pid, DeleteTransaction(r, u, p)
    PROVE  IInv'
<1> DEFINE j == [Idle EXCEPT !.pc = "plain_delete", !.id = p]
<1>1. j \in Job /\ j.held = {} /\ j.pc \notin HeadPc
  BY IdleIsAJob DEF Job, Pc, Idle, HeadPc
<1>2. Sensible(j)
  BY DEF Sensible, Idle, UpdatePc, DeletePc, Amends, DeleteTransaction
<1> QED BY <1>1, <1>2, StartKeeps DEF DeleteTransaction

LEMMA ArriveKeeps ==
    ASSUME IInv, NEW r \in Req, NEW u \in User, Arrive(r, u)
    PROVE  IInv'
<1>1. CASE ArriveCreate(r, u)
  <2>1. \A e \in Pairs : e[1] \in Account /\ e[2] \in Account
    BY AccountAssumption
  <2>2. \A a \in Posted : a \in Account
    BY AccountAssumption
  <2>3. \A x \in Amount, s \in {-1, 1} : s * x \in Int
    BY AmountAssumption
  <2> QED BY <1>1, <2>1, <2>2, <2>3, CreateTransferKeeps, CreateTransactionKeeps
          DEF ArriveCreate
<1>2. CASE ArriveChange(r, u)
  BY <1>2, UpdateTransferKeeps, DeleteKeeps, UpdateTransactionKeeps, DeleteTransactionKeeps
     DEF ArriveChange
<1> QED BY <1>1, <1>2 DEF Arrive

-----------------------------------------------------------------------------
(* Rows change.                                                            *)

\* A step that ends a request and changes the rows of at most one transfer,
\* which no other request holds.
LEMMA BundleKeeps ==
    ASSUME IInv, NEW r \in Req, NEW t \in Tid, Finish(r), UNCHANGED <<plains, others>>,
           route' \in [Tid -> [from : Account, to : Account]], row' \in [Rid -> Row],
           nextTransfer' \in 1 .. MaxTransfer + 1, nextTransfer <= nextTransfer',
           \A u \in Tid \ {t} : route'[u] = route[u],
           \A u \in Tid \ {t}, p \in Part : row'[<<u, p>>] = row[<<u, p>>],
           row[<<t, "head">>].state # "absent" => /\ route'[t] = route[t]
                                                  /\ row'[<<t, "head">>].state # "absent",
           \A q \in Req \ {r} : job[q].pc \in HeadPc => job[q].id # t,
           t < nextTransfer', route'[t].from # route'[t].to,
           -row'[<<t, "out">>].amt \in Nat, row'[<<t, "in">>].amt \in Nat,
           row'[<<t, "out">>].state = row'[<<t, "head">>].state,
           row'[<<t, "in">>].state = row'[<<t, "head">>].state,
           row'[<<t, "head">>].state = "open" =>
              /\ row'[<<t, "out">>].amt = -row'[<<t, "head">>].amt
              /\ row'[<<t, "in">>].amt =
                    Arrives(row'[<<t, "head">>].amt, row'[<<t, "head">>].rate)
    PROVE  IInv'
<1>1. UNCHANGED <<plain, nextPlain, archived, recorders>>
  BY DEF plains, others
<1>2. /\ job' \in [Req -> Job] /\ job'[r] = Idle /\ LocksAreExclusive'
      /\ \A q \in Req \ {r} : job'[q] = job[q]
  BY FinishTypes
<1>3. "head" \in Part /\ "out" \in Part /\ "in" \in Part
  BY DEF Part
<1>4. TypeOK'
  <2>1. \A u \in Tid : -row'[<<u, "out">>].amt \in Nat /\ row'[<<u, "in">>].amt \in Nat
    BY <1>3 DEF IInv, TypeOK
  <2> QED BY <1>1, <1>2, <2>1 DEF IInv, TypeOK
<1>5. RowsInOrder'
  <2>1. nextTransfer \in Nat /\ nextTransfer' \in Nat /\ \A u \in Tid : u \in Nat
    BY BoundAssumption DEF IInv, TypeOK, Tid
  <2>2. ASSUME NEW u \in Tid, NEW p \in Part, row'[<<u, p>>].state # "absent"
        PROVE  u < nextTransfer'
    <3>1. CASE u = t
      BY <3>1
    <3>2. CASE u # t
      <4>1. row[<<u, p>>].state # "absent"
        BY <2>2, <3>2
      <4>2. u < nextTransfer
        BY <4>1 DEF IInv, RowsInOrder
      <4> QED BY <2>1, <4>2
    <3> QED BY <3>1, <3>2
  <2>3. \A p \in Pid : plain'[p].state # "absent" => p < nextPlain'
    BY <1>1 DEF IInv, RowsInOrder
  <2> QED BY <2>2, <2>3 DEF RowsInOrder
<1>6. RoutesLeadElsewhere'
  BY <1>3 DEF IInv, RoutesLeadElsewhere
<1>7. BundlesAreWhole'
  <2> SUFFICES ASSUME NEW u \in Tid
               PROVE  /\ row'[<<u, "out">>].state = row'[<<u, "head">>].state
                      /\ row'[<<u, "in">>].state = row'[<<u, "head">>].state
                      /\ row'[<<u, "head">>].state = "open" =>
                            /\ row'[<<u, "out">>].amt = -row'[<<u, "head">>].amt
                            /\ row'[<<u, "in">>].amt =
                                 Arrives(row'[<<u, "head">>].amt, row'[<<u, "head">>].rate)
    BY DEF BundlesAreWhole, Arrives, Converted
  <2>1. CASE u = t
    BY <2>1
  <2>2. CASE u # t
    BY <1>3, <2>2 DEF IInv, BundlesAreWhole
  <2> QED BY <2>1, <2>2
<1>8. ASSUME NEW q \in Req
      PROVE  (Sensible(job[q]) /\ LocksTaken(job[q]))'
  <2>1. CASE q = r
    BY <1>2, <2>1 DEF Idle, Sensible, LocksTaken, UpdatePc, DeletePc, HeadPc, Amends
  <2>2. CASE q # r
    <3>1. /\ job'[q] = job[q] /\ Sensible(job[q]) /\ LocksTaken(job[q])
          /\ job[q].pc \in HeadPc => job[q].id # t
      BY <1>2, <2>2 DEF IInv
    <3>2. Sensible(job[q])'
      BY <1>1, <1>3, <3>1 DEF Sensible, Agreed, Amends
    <3>3. job[q].pc \in HeadPc => job[q].id \in Tid \ {t}
      BY <3>1 DEF Sensible, UpdatePc, DeletePc, HeadPc
    <3>4. job[q].pc \in HeadPc => /\ row'[<<job[q].id, "out">>] = row[<<job[q].id, "out">>]
                                  /\ row'[<<job[q].id, "in">>] = row[<<job[q].id, "in">>]
      BY <1>3, <3>3
    <3>5. LocksTaken(job[q])'
      BY <3>1, <3>4 DEF LocksTaken, Open
    <3> QED BY <3>2, <3>5
  <2> QED BY <2>1, <2>2
<1> QED BY <1>2, <1>4, <1>5, <1>6, <1>7, <1>8 DEF IInv

LEMMA InsertTransferKeeps ==
    ASSUME IInv, NEW r \in Req, InsertTransfer(r)
    PROVE  IInv'
<1> DEFINE j == job[r]
           t == nextTransfer
           h == [amt |-> j.amt, rate |-> j.rate, state |-> "open"]
           o == [amt |-> -j.amt, rate |-> NoRate, state |-> "open"]
           i == [amt |-> Arrives(j.amt, j.rate), rate |-> NoRate, state |-> "open"]
<1>1. /\ j.pc = "insert" /\ j \in Job /\ t \in Tid /\ Sensible(j)
      /\ nextTransfer' = t + 1 /\ Finish(r) /\ UNCHANGED <<plains, others>>
      /\ route' = [route EXCEPT ![t] = [from |-> j.from, to |-> j.to]]
      /\ row' = [row EXCEPT ![<<t, "head">>] = h, ![<<t, "out">>] = o, ![<<t, "in">>] = i]
  BY DEF IInv, TypeOK, InsertTransfer
<1>2. j.from # j.to /\ j.amt \in Nat \ {0} /\ j.rate \in Nat
  BY <1>1 DEF Sensible, Agreed, Job
<1>3. Arrives(j.amt, j.rate) \in Nat
  BY <1>2, ArrivesIsNat
<1>4. h \in Row /\ o \in Row /\ i \in Row
  BY <1>2, <1>3 DEF Row, State, NoRate
<1>5. <<t, "head">> \in Rid /\ <<t, "out">> \in Rid /\ <<t, "in">> \in Rid
  BY <1>1 DEF Rid, Part
<1> HIDE DEF h, o, i
<1>6. /\ row' \in [Rid -> Row]
      /\ row'[<<t, "head">>] = h /\ row'[<<t, "out">>] = o /\ row'[<<t, "in">>] = i
      /\ \A u \in Tid \ {t}, p \in Part : row'[<<u, p>>] = row[<<u, p>>]
  BY <1>1, <1>4, <1>5 DEF IInv, TypeOK, Rid
<1>7. /\ route' \in [Tid -> [from : Account, to : Account]]
      /\ route'[t].from # route'[t].to
      /\ \A u \in Tid \ {t} : route'[u] = route[u]
  BY <1>1, <1>2 DEF IInv, TypeOK, Job
<1>8. /\ nextTransfer' \in 1 .. MaxTransfer + 1
      /\ nextTransfer <= nextTransfer' /\ t < nextTransfer'
  BY <1>1, BoundAssumption DEF Tid
<1>9. row[<<t, "head">>].state = "absent"
  BY <1>1, BoundAssumption DEF IInv, RowsInOrder, Part, Tid
<1>10. \A q \in Req \ {r} : job[q].pc \in HeadPc => job[q].id # t
  BY <1>9 DEF IInv, Sensible, HeadPc, UpdatePc, DeletePc
<1>11. /\ row'[<<t, "out">>].amt = -j.amt /\ -(-j.amt) \in Nat
       /\ row'[<<t, "in">>].amt = Arrives(j.amt, j.rate)
       /\ row'[<<t, "head">>].amt = j.amt /\ row'[<<t, "head">>].rate = j.rate
       /\ row'[<<t, "head">>].state = "open" /\ row'[<<t, "out">>].state = "open"
       /\ row'[<<t, "in">>].state = "open"
  BY <1>2, <1>6 DEF h, o, i
<1> HIDE DEF t, j
<1> QED BY <1>1, <1>3, <1>6, <1>7, <1>8, <1>9, <1>10, <1>11, BundleKeeps

\* What a commit writes to a row it holds.
LEMMA WrittenRow ==
    ASSUME NEW j \in Job, NEW x \in Rid, row[x] \in Row,
           j.change = "update" => j.amt \in Nat
    PROVE  /\ Written(j, x) \in Row
           /\ j.change = "delete" => /\ Written(j, x).state = "deleted"
                                     /\ Written(j, x).amt = row[x].amt
           /\ j.change = "update" => /\ Written(j, x).state = row[x].state
                                     /\ x[2] = "head" => /\ Written(j, x).amt = j.amt
                                                         /\ Written(j, x).rate = j.rate
                                     /\ x[2] = "out" => Written(j, x).amt = -j.amt
                                     /\ x[2] = "in" =>
                                          Written(j, x).amt = Arrives(j.amt, j.rate)
<1>1. x[2] \in {"head", "out", "in"} /\ j.change \in {"update", "delete"}
      /\ j.rate \in Nat /\ j.amt \in Int
  BY DEF Rid, Part, Job, Change
<1>2. CASE j.change = "delete"
  <2>1. Written(j, x) = [row[x] EXCEPT !.state = "deleted"]
    BY <1>2 DEF Written
  <2> QED BY <1>2, <2>1 DEF Row, State
<1>3. CASE j.change = "update"
  <2>1. j.amt \in Nat /\ Arrives(j.amt, j.rate) \in Nat
    BY <1>1, <1>3, ArrivesIsNat
  <2>2. CASE x[2] = "head"
    <3>1. Written(j, x) = [row[x] EXCEPT !.amt = j.amt, !.rate = j.rate]
      BY <1>3, <2>2 DEF Written
    <3>2. Written(j, x) = [amt |-> j.amt, rate |-> j.rate, state |-> row[x].state]
      BY <3>1, Zenon DEF Row
    <3> QED BY <1>1, <1>3, <2>1, <2>2, <3>2 DEF Row
  <2>3. CASE x[2] = "out"
    BY <1>3, <2>1, <2>3 DEF Written, Row
  <2>4. CASE x[2] = "in"
    BY <1>3, <2>1, <2>4 DEF Written, Row
  <2> QED BY <1>1, <2>2, <2>3, <2>4
<1> QED BY <1>1, <1>2, <1>3

\* What a transaction that commits knows: it holds the head and the open legs.
LEMMA CommitHolds ==
    ASSUME IInv, NEW r \in Req, Commit(r)
    PROVE  LET j == job[r]
               t == j.id IN
           /\ j \in Job /\ t \in Tid /\ j.held \subseteq {<<t, p>> : p \in Part}
           /\ Finish(r) /\ UNCHANGED <<route, nextTransfer, plains, others>>
           /\ row[<<t, "head">>].state # "absent" /\ <<t, "head">> \in j.held
           /\ <<t, "out">> \in j.held <=> row[<<t, "head">>].state = "open"
           /\ <<t, "in">> \in j.held <=> row[<<t, "head">>].state = "open"
           /\ j.change = "update" => Agreed(route[t].from, route[t].to, j.amt, j.rate)
           /\ \A q \in Req \ {r} : job[q].pc \in HeadPc => job[q].id # t
<1> DEFINE j == job[r]
           t == j.id
<1>1. j \in Job /\ j.pc = "commit" /\ Sensible(j) /\ LocksTaken(j)
  BY DEF IInv, TypeOK, Commit
<1>2. t \in Tid /\ row[<<t, "head">>].state # "absent"
  BY <1>1 DEF Sensible
<1>3. /\ j.held \subseteq {<<t, p>> : p \in Part} /\ <<t, "head">> \in j.held
      /\ <<t, "out">> \in j.held <=> row[<<t, "out">>].state = "open"
      /\ <<t, "in">> \in j.held <=> row[<<t, "in">>].state = "open"
  BY <1>1 DEF LocksTaken, HeadPc, Open
<1>4. /\ row[<<t, "out">>].state = row[<<t, "head">>].state
      /\ row[<<t, "in">>].state = row[<<t, "head">>].state
  BY <1>2 DEF IInv, BundlesAreWhole
<1>5. \A q \in Req \ {r} : job[q].pc \in HeadPc => job[q].id # t
  <2> SUFFICES ASSUME NEW q \in Req \ {r}, job[q].pc \in HeadPc, job[q].id = t
               PROVE  FALSE
    OBVIOUS
  <2>1. <<t, "head">> \in job[q].held
    BY DEF IInv, LocksTaken
  <2> QED BY <1>3, <2>1 DEF IInv, LocksAreExclusive
<1>6. j.change = "update" => Agreed(route[t].from, route[t].to, j.amt, j.rate)
  BY <1>1 DEF Sensible, Amends
<1> HIDE DEF t, j
<1> QED BY <1>1, <1>2, <1>3, <1>4, <1>5, <1>6 DEF Commit, j, t

LEMMA CommitRows ==
    ASSUME IInv, NEW r \in Req, Commit(r)
    PROVE  LET j == job[r]
               t == j.id IN
           /\ row' \in [Rid -> Row]
           /\ \A u \in Tid \ {t}, p \in Part : row'[<<u, p>>] = row[<<u, p>>]
           /\ \A x \in j.held : row'[x] = Written(j, x)
           /\ \A x \in Rid \ j.held : row'[x] = row[x]
<1> DEFINE j == job[r]
           t == j.id
<1>1. row' = [x \in Rid |-> IF x \in j.held THEN Written(j, x) ELSE row[x]]
  BY DEF Commit
<1>2. /\ j \in Job /\ t \in Tid /\ j.held \subseteq {<<t, p>> : p \in Part}
      /\ j.change = "update" => j.amt \in Nat
  BY CommitHolds DEF Agreed
<1>3. j.held \subseteq Rid
  BY <1>2 DEF Rid
<1>4. \A x \in Rid : row[x] \in Row
  BY DEF IInv, TypeOK
<1> HIDE DEF t, j
<1>5. \A x \in Rid : Written(j, x) \in Row
  BY <1>2, <1>4, WrittenRow
<1>6. \A u \in Tid \ {t}, p \in Part : <<u, p>> \in Rid /\ <<u, p>> \notin j.held
  BY <1>2 DEF Rid
<1> QED BY <1>1, <1>3, <1>4, <1>5, <1>6 DEF t, j

LEMMA CommitKeeps ==
    ASSUME IInv, NEW r \in Req, Commit(r)
    PROVE  IInv'
<1> DEFINE j == job[r]
           t == j.id
           head == <<t, "head">>
           out == <<t, "out">>
           in == <<t, "in">>
<1>1. /\ j \in Job /\ t \in Tid /\ row[head].state # "absent" /\ head \in j.held
      /\ Finish(r) /\ UNCHANGED <<route, nextTransfer, plains, others>>
      /\ out \in j.held <=> row[head].state = "open"
      /\ in \in j.held <=> row[head].state = "open"
      /\ j.change = "update" => Agreed(route[t].from, route[t].to, j.amt, j.rate)
      /\ \A q \in Req \ {r} : job[q].pc \in HeadPc => job[q].id # t
  BY CommitHolds
<1>2. /\ row' \in [Rid -> Row]
      /\ \A u \in Tid \ {t}, p \in Part : row'[<<u, p>>] = row[<<u, p>>]
      /\ \A x \in j.held : row'[x] = Written(j, x)
      /\ \A x \in Rid \ j.held : row'[x] = row[x]
  BY CommitRows
<1>3. head \in Rid /\ out \in Rid /\ in \in Rid
  BY <1>1 DEF Rid, Part
<1>4. /\ row[head] \in Row /\ row[out] \in Row /\ row[in] \in Row
      /\ row[out].state = row[head].state /\ row[in].state = row[head].state
      /\ row[head].state = "open" => /\ row[out].amt = -row[head].amt
                                     /\ row[in].amt = Arrives(row[head].amt, row[head].rate)
      /\ -row[out].amt \in Nat /\ row[in].amt \in Nat
  BY <1>1, <1>3 DEF IInv, TypeOK, BundlesAreWhole
<1>5. j.change \in {"update", "delete"} /\ (j.change = "update" => j.amt \in Nat)
      /\ j.rate \in Nat
  BY <1>1 DEF Job, Change, Agreed
<1>6. head[2] = "head" /\ out[2] = "out" /\ in[2] = "in"
  OBVIOUS
<1>7. /\ row'[head].state # "absent"
      /\ row'[out].state = row'[head].state /\ row'[in].state = row'[head].state
      /\ row'[head].state = "open" => /\ row'[out].amt = -row'[head].amt
                                      /\ row'[in].amt = Arrives(row'[head].amt, row'[head].rate)
      /\ -row'[out].amt \in Nat /\ row'[in].amt \in Nat
  <2> HIDE DEF head, out, in, t, j
  <2>1. row[head].state \in {"open", "deleted"}
    BY <1>1, <1>4 DEF Row, State
  <2>2. row'[head] = Written(j, head)
    BY <1>1, <1>2
  <2>3. CASE row[head].state = "open"
    <3>1. row'[out] = Written(j, out) /\ row'[in] = Written(j, in)
      BY <1>1, <1>2, <2>3
    <3>2. CASE j.change = "delete"
      BY <1>1, <1>3, <1>4, <2>2, <2>3, <3>1, <3>2, WrittenRow
    <3>3. CASE j.change = "update"
      <4>1. /\ row'[head].state = "open" /\ row'[head].amt = j.amt /\ row'[head].rate = j.rate
            /\ row'[out].state = "open" /\ row'[out].amt = -j.amt
            /\ row'[in].state = "open" /\ row'[in].amt = Arrives(j.amt, j.rate)
        BY <1>1, <1>3, <1>4, <1>5, <1>6, <2>2, <2>3, <3>1, <3>3, WrittenRow
      <4>2. j.amt \in Nat /\ j.rate \in Nat
        BY <1>5, <3>3
      <4>3. Arrives(j.amt, j.rate) \in Nat
        BY <4>2, ArrivesIsNat
      <4>4. -(-j.amt) \in Nat
        BY <4>2
      <4> QED BY <4>1, <4>3, <4>4
    <3> QED BY <1>5, <3>2, <3>3
  <2>4. CASE row[head].state = "deleted"
    <3>1. row'[out] = row[out] /\ row'[in] = row[in]
      BY <1>1, <1>2, <1>3, <2>4
    <3>2. row'[head].state = "deleted"
      BY <1>1, <1>3, <1>4, <1>5, <2>2, <2>4, WrittenRow
    <3> QED BY <1>4, <2>4, <3>1, <3>2
  <2> QED BY <2>1, <2>3, <2>4
<1>8. /\ route' \in [Tid -> [from : Account, to : Account]] /\ route'[t].from # route'[t].to
      /\ nextTransfer' \in 1 .. MaxTransfer + 1 /\ nextTransfer <= nextTransfer'
      /\ \A u \in Tid \ {t} : route'[u] = route[u]
      /\ t < nextTransfer'
  <2>1. nextTransfer \in Nat /\ "head" \in Part
    BY BoundAssumption DEF IInv, TypeOK, Part
  <2> QED BY <1>1, <2>1 DEF IInv, TypeOK, RoutesLeadElsewhere, RowsInOrder
<1> HIDE DEF t, j
<1> QED BY <1>1, <1>2, <1>7, <1>8, BundleKeeps

LEMMA InsertTransactionKeeps ==
    ASSUME IInv, NEW r \in Req, InsertTransaction(r)
    PROVE  IInv'
<1> DEFINE p == nextPlain
           new == [acct |-> job[r].from, amt |-> job[r].amt, state |-> "open"]
<1>1. /\ job[r] \in Job /\ p \in Pid /\ nextPlain' = p + 1
      /\ plain' = [plain EXCEPT ![p] = new]
      /\ Finish(r) /\ UNCHANGED <<bundles, others>>
  BY DEF IInv, TypeOK, InsertTransaction
<1>2. new \in Plain
  BY <1>1 DEF Plain, Job, State
<1>3. /\ plain' \in [Pid -> Plain] /\ plain'[p].state = "open"
      /\ \A q \in Pid \ {p} : plain'[q] = plain[q]
      /\ nextPlain' \in 1 .. MaxPlain + 1 /\ p < nextPlain'
  BY <1>1, <1>2, BoundAssumption DEF IInv, TypeOK, Pid
<1>4. UNCHANGED <<route, row, nextTransfer, archived, recorders>>
  BY <1>1 DEF bundles, others
<1>5. /\ job' \in [Req -> Job] /\ job'[r] = Idle /\ LocksAreExclusive'
      /\ \A q \in Req \ {r} : job'[q] = job[q]
  BY <1>1, FinishTypes
<1>6. TypeOK' /\ RoutesLeadElsewhere' /\ BundlesAreWhole'
  BY <1>3, <1>4, <1>5 DEF IInv, TypeOK, RoutesLeadElsewhere, BundlesAreWhole
<1>7. RowsInOrder'
  BY <1>1, <1>3, <1>4, BoundAssumption DEF IInv, RowsInOrder, Pid
<1>8. ASSUME NEW q \in Req
      PROVE  (Sensible(job[q]) /\ LocksTaken(job[q]))'
  <2>1. CASE q = r
    BY <1>5, <2>1 DEF Idle, Sensible, LocksTaken, UpdatePc, DeletePc, HeadPc, Amends
  <2>2. CASE q # r
    BY <1>3, <1>4, <1>5, <2>2 DEF IInv, Sensible, LocksTaken, Agreed, Amends, Open
  <2> QED BY <2>1, <2>2
<1> QED BY <1>5, <1>6, <1>7, <1>8 DEF IInv

LEMMA WriteTransactionKeeps ==
    ASSUME IInv, NEW r \in Req, WriteTransaction(r)
    PROVE  IInv'
<1> DEFINE p == job[r].id
<1>1. /\ job[r] \in Job /\ p \in Pid /\ plain[p] \in Plain /\ plain[p].state # "absent"
      /\ Finish(r) /\ UNCHANGED <<bundles, nextPlain, others>>
  BY DEF IInv, TypeOK, Sensible, WriteTransaction
<1>2. /\ plain' \in [Pid -> Plain]
      /\ \A q \in Pid : plain[q].state # "absent" => plain'[q].state # "absent"
      /\ \A q \in Pid : plain'[q].state # "absent" => plain[q].state # "absent"
  <2>1. plain \in [Pid -> Plain] /\ job[r].amt \in Int
    BY <1>1 DEF IInv, TypeOK, Job
  <2>2. CASE plain' = [plain EXCEPT ![p].amt = job[r].amt]
    BY <1>1, <2>1, <2>2 DEF Plain
  <2>3. CASE plain' = [plain EXCEPT ![p].state = "deleted"]
    BY <1>1, <2>1, <2>3 DEF Plain, State
  <2> QED BY <2>2, <2>3 DEF WriteTransaction
<1>3. UNCHANGED <<route, row, nextTransfer, nextPlain, archived, recorders>>
  BY <1>1 DEF bundles, others
<1>4. /\ job' \in [Req -> Job] /\ job'[r] = Idle /\ LocksAreExclusive'
      /\ \A q \in Req \ {r} : job'[q] = job[q]
  BY <1>1, FinishTypes
<1>5. TypeOK' /\ RowsInOrder' /\ RoutesLeadElsewhere' /\ BundlesAreWhole'
  BY <1>2, <1>3, <1>4
     DEF IInv, TypeOK, RowsInOrder, RoutesLeadElsewhere, BundlesAreWhole
<1>6. ASSUME NEW q \in Req
      PROVE  (Sensible(job[q]) /\ LocksTaken(job[q]))'
  <2>1. CASE q = r
    BY <1>4, <2>1 DEF Idle, Sensible, LocksTaken, UpdatePc, DeletePc, HeadPc, Amends
  <2>2. CASE q # r
    <3>1. job'[q] = job[q] /\ Sensible(job[q]) /\ LocksTaken(job[q])
      BY <1>4, <2>2 DEF IInv
    <3>2. Sensible(job[q])'
      BY <1>2, <1>3, <3>1 DEF Sensible, Agreed, Amends
    <3>3. LocksTaken(job[q])'
      BY <1>3, <3>1 DEF LocksTaken, Open
    <3> QED BY <3>2, <3>3
  <2> QED BY <2>1, <2>2
<1> QED BY <1>4, <1>5, <1>6 DEF IInv

-----------------------------------------------------------------------------
(* The invariant is inductive.                                             *)

LEMMA InitHolds == Init => IInv
<1> SUFFICES ASSUME Init PROVE IInv
  OBVIOUS
<1>1. Idle \in Job /\ SomeAccount \in Account
  BY IdleIsAJob
<1>2. Absent \in Row /\ Absent.state = "absent" /\ Absent.amt = 0
  BY DEF Absent, Row, State, NoRate
<1>3. \A t \in Tid, p \in Part : <<t, p>> \in Rid /\ row[<<t, p>>] = Absent
  BY DEF Init, Rid
<1>4. "head" \in Part /\ "out" \in Part /\ "in" \in Part
  BY DEF Part
<1>5. TypeOK
  <2>1. nextTransfer \in 1 .. MaxTransfer + 1 /\ nextPlain \in 1 .. MaxPlain + 1
    BY BoundAssumption DEF Init
  <2>2. \A t \in Tid : -row[<<t, "out">>].amt \in Nat /\ row[<<t, "in">>].amt \in Nat
    BY <1>2, <1>3, <1>4
  <2>3. plain \in [Pid -> Plain]
    BY <1>1 DEF Init, Plain, State
  <2> QED BY <1>1, <1>2, <2>1, <2>2, <2>3 DEF Init, TypeOK
<1>6. RowsInOrder /\ RoutesLeadElsewhere /\ BundlesAreWhole
  BY <1>2, <1>3, <1>4 DEF Init, RowsInOrder, RoutesLeadElsewhere, BundlesAreWhole
<1>7. \A r \in Req : job[r] = Idle /\ Idle.held = {}
  BY DEF Init, Idle
<1> QED BY <1>5, <1>6, <1>7, IdleIsSensible DEF IInv, LocksAreExclusive

LEMMA StepKeeps ==
    ASSUME IInv, NEW r \in Req, Step(r)
    PROVE  IInv'
  BY InsertTransferKeeps, HeadSteps, LegSteps, CommitKeeps, InsertTransactionKeeps,
     WriteTransactionKeeps, AbortKeeps DEF Step, OutOfIds

LEMMA EnvironmentKeeps ==
    ASSUME IInv, \/ \E a \in MayArchive, b \in BOOLEAN : SetArchived(a, b)
                 \/ \E u \in User, b \in BOOLEAN : SetRecorder(u, b)
                 \/ UNCHANGED vars
    PROVE  IInv'
<1>1. UNCHANGED <<bundles, plains>> /\ job' = job
  BY DEF SetArchived, SetRecorder, vars
<1>2. archived' \subseteq Account /\ recorders' \subseteq User
  BY AccountAssumption DEF SetArchived, SetRecorder, vars, others, IInv, TypeOK
<1>3. job' \in [Req -> Job] /\ LocksAreExclusive'
  BY <1>1 DEF IInv, TypeOK, LocksAreExclusive
<1>4. \A q \in Req : Sensible(job'[q]) /\ LocksTaken(job'[q])
  BY <1>1 DEF IInv
<1> QED BY <1>1, <1>2, <1>3, <1>4, JobsOnly

LEMMA NextKeeps == IInv /\ [Next]_vars => IInv'
  BY ArriveKeeps, StepKeeps, AbortKeeps, EnvironmentKeeps DEF Next

LEMMA Inductive == Spec => []IInv
<1>1. Init => IInv
  BY InitHolds
<1>2. IInv /\ [Next]_vars => IInv'
  BY NextKeeps
<1> QED BY <1>1, <1>2, PTL DEF Spec

\* The four steps that change the log.
LEMMA Writers ==
    ASSUME [Next]_vars
    PROVE  \/ UNCHANGED <<bundles, plains>>
           \/ \E r \in Req : \/ InsertTransfer(r) \/ Commit(r)
                             \/ InsertTransaction(r) \/ WriteTransaction(r)
<1>1. ASSUME NEW r \in Req, NEW u \in User, Arrive(r, u)
      PROVE  UNCHANGED <<bundles, plains>>
  BY <1>1 DEF Arrive, ArriveCreate, ArriveChange, CreateTransfer, CreateTransaction,
              UpdateTransfer, DeleteTransfer, DeleteLeg, UpdateTransaction, DeleteTransaction
<1>2. ASSUME NEW r \in Req,
             UpdateHead(r) \/ UpdateOut(r) \/ UpdateIn(r) \/ DeleteHead(r) \/ DeleteLegs(r)
      PROVE  UNCHANGED <<bundles, plains>>
  BY <1>2 DEF UpdateHead, UpdateOut, UpdateIn, DeleteHead, DeleteLegs, Write
<1>3. ASSUME NEW r \in Req, Abort(r) PROVE UNCHANGED <<bundles, plains>>
  BY <1>3 DEF Abort
<1>4. ASSUME \/ \E a \in MayArchive, b \in BOOLEAN : SetArchived(a, b)
             \/ \E u \in User, b \in BOOLEAN : SetRecorder(u, b)
             \/ UNCHANGED vars
      PROVE  UNCHANGED <<bundles, plains>>
  BY <1>4 DEF SetArchived, SetRecorder, vars
<1> QED BY <1>1, <1>2, <1>3, <1>4 DEF Next, Step, OutOfIds

-----------------------------------------------------------------------------
(* The theorems.                                                           *)

\* Every variable of transactions.ts and transfers.ts keeps its type: in
\* particular the source leg of a transfer is never positive and the
\* destination leg never negative.
THEOREM LedgerTypes == Spec => []TypeOK
<1>1. IInv => TypeOK
  BY DEF IInv
<1> QED BY <1>1, Inductive, PTL

\* However edits and deletions of transfers interleave or fail half-way, the
\* log never shows half a transfer: the legs have the state of their head and,
\* while it is open, exactly its amounts.
THEOREM TransfersStayWhole == Spec => []BundlesAreWhole
<1>1. IInv => BundlesAreWhole
  BY DEF IInv
<1> QED BY <1>1, Inductive, PTL

\* Two transactions never hold the lock of the same row: the locks alone order
\* the writes of requests that read before they wait.
THEOREM LocksStayExclusive == Spec => []LocksAreExclusive
<1>1. IInv => LocksAreExclusive
  BY DEF IInv
<1> QED BY <1>1, Inductive, PTL

\* No edit that was allowed before a deletion brings a deleted row back.
THEOREM DeletedRowsStick == Spec => DeletionsStick
<1> DEFINE A == /\ \A x \in Rid : row[x].state = "deleted" => row'[x].state = "deleted"
                /\ \A p \in Pid : plain[p].state = "deleted" => plain'[p].state = "deleted"
<1>1. IInv /\ [Next]_vars => [A]_vars
  <2> SUFFICES ASSUME IInv, Next PROVE A
    OBVIOUS
  <2>1. ASSUME UNCHANGED <<row, plain>> PROVE A
    BY <2>1
  <2>2. ASSUME NEW r \in Req, InsertTransfer(r) PROVE A
    <3>1. /\ plain' = plain /\ nextTransfer \in Tid
          /\ \A x \in Rid : x[1] # nextTransfer => row'[x] = row[x]
      BY <2>2 DEF InsertTransfer, plains, IInv, TypeOK, Rid
    <3>2. \A x \in Rid : x[1] = nextTransfer => row[x].state = "absent"
      BY <3>1, BoundAssumption DEF IInv, RowsInOrder, Rid, Tid
    <3> QED BY <3>1, <3>2
  <2>3. ASSUME NEW r \in Req, Commit(r) PROVE A
    <3>1. /\ job[r] \in Job /\ job[r].change \in {"update", "delete"} /\ plain' = plain
          /\ job[r].change = "update" => job[r].amt \in Nat
      BY <2>3, CommitHolds DEF plains, Job, Change, Agreed
    <3>2. \A x \in Rid : row[x] \in Row
      BY DEF IInv, TypeOK
    <3>3. \A x \in Rid : row[x].state = "deleted" => row'[x].state = "deleted"
      BY <2>3, <3>1, <3>2, CommitRows, WrittenRow
    <3> QED BY <3>1, <3>3
  <2>4. ASSUME NEW r \in Req, InsertTransaction(r) PROVE A
    <3>1. /\ row' = row /\ nextPlain \in Pid
          /\ \A p \in Pid \ {nextPlain} : plain'[p] = plain[p]
      BY <2>4 DEF InsertTransaction, bundles, IInv, TypeOK
    <3>2. plain[nextPlain].state = "absent"
      BY <3>1, BoundAssumption DEF IInv, RowsInOrder, Pid
    <3> QED BY <3>1, <3>2
  <2>5. ASSUME NEW r \in Req, WriteTransaction(r) PROVE A
    <3>1. row' = row /\ plain \in [Pid -> Plain]
      BY <2>5 DEF WriteTransaction, bundles, IInv, TypeOK
    <3>2. CASE plain' = [plain EXCEPT ![job[r].id].amt = job[r].amt]
      BY <3>1, <3>2 DEF Plain
    <3>3. CASE plain' = [plain EXCEPT ![job[r].id].state = "deleted"]
      BY <3>1, <3>3 DEF Plain
    <3> QED BY <2>5, <3>2, <3>3 DEF WriteTransaction
  <2> HIDE DEF A
  <2> QED BY <2>1, <2>2, <2>3, <2>4, <2>5, Writers DEF bundles, plains
<1> QED BY <1>1, Inductive, PTL DEF Spec, DeletionsStick

-----------------------------------------------------------------------------
(* The rows implement Movements.                                           *)

LEMMA MovesAt ==
    ASSUME NEW t \in Tid
    PROVE  /\ Moves[t].status = row[<<t, "head">>].state
           /\ Moves[t].from = route[t].from /\ Moves[t].to = route[t].to
           /\ row[<<t, "out">>].state = "open" => Moves[t].paid = -row[<<t, "out">>].amt
           /\ row[<<t, "in">>].state = "open" => Moves[t].got = row[<<t, "in">>].amt
           /\ row[<<t, "out">>].state # "open" => Moves[t].paid = 0
           /\ row[<<t, "in">>].state # "open" => Moves[t].got = 0
  BY DEF Moves, Moved, Open

LEMMA MovesNext ==
    ASSUME NEW t \in Tid
    PROVE  /\ Moves'[t].status = row'[<<t, "head">>].state
           /\ Moves'[t].from = route'[t].from /\ Moves'[t].to = route'[t].to
           /\ row'[<<t, "out">>].state = "open" => Moves'[t].paid = -row'[<<t, "out">>].amt
           /\ row'[<<t, "in">>].state = "open" => Moves'[t].got = row'[<<t, "in">>].amt
           /\ row'[<<t, "out">>].state # "open" => Moves'[t].paid = 0
           /\ row'[<<t, "in">>].state # "open" => Moves'[t].got = 0
  BY DEF Moves, Moved, Open

LEMMA InitMaps == Init => Books!MovementsInit
<1> SUFFICES ASSUME Init PROVE Books!MovementsInit
  OBVIOUS
<1>1. ASSUME NEW t \in Tid
      PROVE  Moves[t].status = "absent" /\ Moves[t].paid = 0 /\ Moves[t].got = 0
  <2>1. \A p \in Part : row[<<t, p>>].state = "absent"
    BY DEF Init, Rid, Absent
  <2> QED BY <2>1, MovesAt DEF Part
<1> QED BY <1>1 DEF Books!MovementsInit, Books!Nothing

\* A step that changes the route and the rows of one transfer changes one entry.
LEMMA OneMove ==
    ASSUME NEW t \in Tid,
           \A u \in Tid \ {t} : route'[u] = route[u],
           \A u \in Tid \ {t}, p \in Part : row'[<<u, p>>] = row[<<u, p>>]
    PROVE  Moves' = [Moves EXCEPT ![t] = Moves'[t]]
<1>1. \A u \in Tid \ {t} : Moves'[u] = Moves[u]
  BY DEF Moves, Moved, Open, Part
<1>2. Moves' = [u \in Tid |-> Moves'[u]] /\ Moves = [u \in Tid |-> Moves[u]]
  BY DEF Moves, Moved, Open
<1> QED BY <1>1, <1>2

\* What the agreed amount arrives as.
LEMMA AgreedWorth ==
    ASSUME NEW a \in Account, NEW b \in Account, NEW x, NEW k, Agreed(a, b, x, k)
    PROVE  Arrives(x, k) \in Worth(a, b, x)
<1>1. CASE Currency[a] = Currency[b]
  BY <1>1 DEF Agreed, LegsAgreed, Arrives, Worth
<1>2. CASE Currency[a] # Currency[b]
  <2>1. k \in Rate /\ k # NoRate /\ Converted(x, k) # 0
    BY <1>2, AmountAssumption DEF Agreed, LegsAgreed, NoRate, Converted
  <2> QED BY <1>2, <2>1 DEF Arrives, Worth
<1> QED BY <1>1, <1>2

LEMMA InsertMaps ==
    ASSUME IInv, NEW r \in Req, InsertTransfer(r)
    PROVE  Books!MovementsNext
<1> DEFINE j == job[r]
           t == nextTransfer
<1>1. /\ j \in Job /\ t \in Tid /\ j.from # j.to /\ Agreed(j.from, j.to, j.amt, j.rate)
      /\ route' = [route EXCEPT ![t] = [from |-> j.from, to |-> j.to]]
      /\ j.amt \in Nat \ {0}
  BY DEF IInv, TypeOK, InsertTransfer, Sensible, Agreed
<1>2. /\ row'[<<t, "head">>].state = "open"
      /\ row'[<<t, "out">>].state = "open" /\ row'[<<t, "out">>].amt = -j.amt
      /\ row'[<<t, "in">>].state = "open" /\ row'[<<t, "in">>].amt = Arrives(j.amt, j.rate)
      /\ \A u \in Tid \ {t}, p \in Part : row'[<<u, p>>] = row[<<u, p>>]
  <2>1. <<t, "head">> \in Rid /\ <<t, "out">> \in Rid /\ <<t, "in">> \in Rid
    BY <1>1 DEF Rid, Part
  <2> QED BY <2>1 DEF InsertTransfer, IInv, TypeOK, Rid
<1>3. row[<<t, "head">>].state = "absent"
  <2>1. t \in Tid /\ t \in Nat
    BY <1>1, BoundAssumption DEF Tid
  <2>2. row[<<t, "head">>].state # "absent" => t < nextTransfer
    BY <2>1 DEF IInv, RowsInOrder, Part
  <2> QED BY <2>1, <2>2
<1>4. /\ route'[t].from = j.from /\ route'[t].to = j.to
      /\ \A u \in Tid \ {t} : route'[u] = route[u]
  BY <1>1 DEF IInv, TypeOK
<1>5. Moves' = [Moves EXCEPT ![t] = Moves'[t]]
  BY <1>1, <1>2, <1>4, OneMove
<1>6. Moves[t].status = "absent"
  BY <1>1, <1>3, MovesAt
<1>7. /\ Moves'[t].status = "open" /\ Moves'[t].from = j.from /\ Moves'[t].to = j.to
      /\ Moves'[t].paid = j.amt /\ Moves'[t].got = Arrives(j.amt, j.rate)
  <2>1. -(-j.amt) = j.amt
    BY <1>1
  <2> QED BY <1>1, <1>2, <1>4, <2>1, MovesNext
<1>8. j.from \in Account /\ j.to \in Account
  BY <1>1 DEF Job
<1>9. Arrives(j.amt, j.rate) \in Worth(j.from, j.to, j.amt)
  BY <1>1, <1>8, AgreedWorth
<1> HIDE DEF t, j
<1>10. Books!Put(t)
  BY <1>1, <1>5, <1>6, <1>7, <1>9 DEF Books!Put, Books!Becomes, Books!Amounts
<1> QED BY <1>1, <1>10 DEF Books!MovementsNext

LEMMA CommitMaps ==
    ASSUME IInv, NEW r \in Req, Commit(r)
    PROVE  Books!MovementsNext \/ Moves' = Moves
<1> DEFINE j == job[r]
           t == j.id
           head == <<t, "head">>
           out == <<t, "out">>
           in == <<t, "in">>
<1>1. /\ j \in Job /\ t \in Tid /\ row[head].state # "absent" /\ head \in j.held
      /\ Finish(r) /\ UNCHANGED <<route, nextTransfer, plains, others>>
      /\ out \in j.held <=> row[head].state = "open"
      /\ in \in j.held <=> row[head].state = "open"
      /\ j.change = "update" => Agreed(route[t].from, route[t].to, j.amt, j.rate)
  BY CommitHolds
<1>2. /\ \A u \in Tid \ {t}, p \in Part : row'[<<u, p>>] = row[<<u, p>>]
      /\ \A x \in j.held : row'[x] = Written(j, x)
      /\ \A x \in Rid \ j.held : row'[x] = row[x]
  BY CommitRows
<1>3. head \in Rid /\ out \in Rid /\ in \in Rid
  BY <1>1 DEF Rid, Part
<1>4. /\ row[head] \in Row /\ row[out] \in Row /\ row[in] \in Row
      /\ row[out].state = row[head].state /\ row[in].state = row[head].state
  BY <1>1, <1>3 DEF IInv, TypeOK, BundlesAreWhole
<1>5. j.change \in {"update", "delete"} /\ (j.change = "update" => j.amt \in Nat \ {0})
  BY <1>1 DEF Job, Change, Agreed
<1>6. head[2] = "head" /\ out[2] = "out" /\ in[2] = "in"
  OBVIOUS
<1>7. Moves' = [Moves EXCEPT ![t] = Moves'[t]] /\ Moves = [u \in Tid |-> Moves[u]]
  BY <1>1, <1>2, OneMove DEF Moves, Moved, Open
<1>8. route[t].from \in Account /\ route[t].to \in Account /\ route[t].from # route[t].to
  BY <1>1 DEF IInv, TypeOK, RoutesLeadElsewhere
<1>9. CASE row[head].state = "deleted"
  <2>1. row'[out] = row[out] /\ row'[in] = row[in]
    BY <1>1, <1>2, <1>3, <1>9
  <2>2. row'[head].state = "deleted"
    BY <1>1, <1>2, <1>3, <1>4, <1>5, <1>9, WrittenRow
  <2>3. /\ Moves'[t].status = Moves[t].status
        /\ Moves'[t].from = Moves[t].from /\ Moves'[t].to = Moves[t].to
        /\ Moves'[t].paid = Moves[t].paid /\ Moves'[t].got = Moves[t].got
    BY <1>1, <1>4, <1>9, <2>1, <2>2, MovesAt, MovesNext
  <2>4. Moves'[t] = Moves[t]
    BY <1>1, <2>3 DEF Moves, Moved, Open
  <2> QED BY <1>7, <2>4
<1>10. CASE row[head].state = "open"
  <2>1. row'[head] = Written(j, head) /\ row'[out] = Written(j, out) /\ row'[in] = Written(j, in)
    BY <1>1, <1>2, <1>10
  <2>2. CASE j.change = "delete"
    <3>1. /\ row'[head].state = "deleted" /\ row'[out].state = "deleted"
          /\ row'[in].state = "deleted"
      BY <1>1, <1>3, <1>4, <1>5, <2>1, <2>2, WrittenRow
    <3>2. /\ Moves'[t].status = "deleted"
          /\ Moves'[t].from = Moves[t].from /\ Moves'[t].to = Moves[t].to
          /\ Moves'[t].paid = 0 /\ Moves'[t].got = 0 /\ Moves[t].status = "open"
      BY <1>1, <1>10, <3>1, MovesAt, MovesNext
    <3>3. Moves'[t] = [Moves[t] EXCEPT !.status = "deleted", !.paid = 0, !.got = 0]
      <4>1. Moves[t] = [status |-> Moves[t].status, from |-> Moves[t].from,
                        to |-> Moves[t].to, paid |-> Moves[t].paid, got |-> Moves[t].got]
        BY <1>1 DEF Moves, Moved, Open
      <4>2. Moves'[t] = [status |-> Moves'[t].status, from |-> Moves'[t].from,
                         to |-> Moves'[t].to, paid |-> Moves'[t].paid, got |-> Moves'[t].got]
        BY <1>1 DEF Moves, Moved, Open
      <4> QED BY <3>2, <4>1, <4>2
    <3>4. Books!Undo(t)
      BY <1>7, <3>2, <3>3 DEF Books!Undo, Books!Becomes
    <3> QED BY <1>1, <3>4 DEF Books!MovementsNext
  <2>3. CASE j.change = "update"
    <3>1. /\ row'[head].state = "open"
          /\ row'[out].state = "open" /\ row'[out].amt = -j.amt
          /\ row'[in].state = "open" /\ row'[in].amt = Arrives(j.amt, j.rate)
      BY <1>1, <1>3, <1>4, <1>5, <1>6, <1>10, <2>1, <2>3, WrittenRow
    <3>2. -(-j.amt) = j.amt
      BY <1>5, <2>3
    <3>3. /\ Moves'[t].status = "open" /\ Moves[t].status = "open"
          /\ Moves'[t].from = route[t].from /\ Moves'[t].to = route[t].to
          /\ Moves[t].from = route[t].from /\ Moves[t].to = route[t].to
          /\ Moves'[t].paid = j.amt /\ Moves'[t].got = Arrives(j.amt, j.rate)
      BY <1>1, <1>10, <3>1, <3>2, MovesAt, MovesNext
    <3>4. Arrives(j.amt, j.rate) \in Worth(route[t].from, route[t].to, j.amt)
      BY <1>1, <1>8, <2>3, AgreedWorth
    <3> HIDE DEF t, j
    <3>5. Books!Put(t)
      BY <1>5, <1>7, <1>8, <2>3, <3>3, <3>4 DEF Books!Put, Books!Becomes, Books!Amounts
    <3> QED BY <1>1, <3>5 DEF Books!MovementsNext
  <2> QED BY <1>5, <2>2, <2>3
<1> QED BY <1>1, <1>4, <1>9, <1>10 DEF Row, State

\* What the log shows of transfers is money that moves in one instant: created,
\* amended or undone as a whole, at an agreed worth, and undone for good.
THEOREM LedgerImplementsMovements == Spec => ImplementsMovements
<1>1. Init => Books!MovementsInit
  BY InitMaps
<1>2. IInv /\ [Next]_vars => [Books!MovementsNext]_Moves
  <2> SUFFICES ASSUME IInv, [Next]_vars PROVE Books!MovementsNext \/ Moves' = Moves
    OBVIOUS
  <2>1. ASSUME UNCHANGED <<route, row>> PROVE Moves' = Moves
    BY <2>1 DEF Moves, Moved, Open
  <2>2. ASSUME NEW r \in Req, InsertTransaction(r) \/ WriteTransaction(r)
        PROVE  UNCHANGED <<route, row>>
    BY <2>2 DEF InsertTransaction, WriteTransaction, bundles
  <2> QED BY <2>1, <2>2, InsertMaps, CommitMaps, Writers DEF bundles
<1> QED BY <1>1, <1>2, Inductive, PTL DEF Spec, ImplementsMovements, Books!MovementsSpec
=============================================================================
