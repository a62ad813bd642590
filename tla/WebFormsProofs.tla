--------------------------- MODULE WebFormsProofs ---------------------------
(***************************************************************************)
(* Theorems about WebForms, for any texts, any number of forms filled and  *)
(* of requests under way.                                                  *)
(***************************************************************************)
EXTENDS WebForms, TLAPS, NaturalsInduction, WellFoundedInduction

-----------------------------------------------------------------------------
(* The pages.                                                              *)

\* No form that posts is the edit form, nor the lack of one.
LEMMA PostingForms ==
    ASSUME NEW p \in DOMAIN Posts
    PROVE  "" \notin Posts[p] /\ "edit" \notin Posts[p]
<1>1. \A F \in {TransactionsPosts, BillsPosts, DebtsPosts, BudgetsPosts, TransfersPosts,
                IncomePosts, AccountsPosts, CategoriesPosts, QuickAddPosts,
                GetStartedPosts, HouseholdPosts} : "" \notin F /\ "edit" \notin F
  BY DEF TransactionsPosts, BillsPosts, DebtsPosts, BudgetsPosts, TransfersPosts,
         IncomePosts, AccountsPosts, CategoriesPosts, QuickAddPosts, GetStartedPosts,
         HouseholdPosts
<1>2. DOMAIN Posts = {"transactions", "bills", "debts", "budgets", "transfers", "income",
                      "accounts", "categories", "quickAdd", "getStarted", "household"}
  BY DEF Posts
<1>3. /\ Posts["transactions"] = TransactionsPosts /\ Posts["bills"] = BillsPosts
      /\ Posts["debts"] = DebtsPosts /\ Posts["budgets"] = BudgetsPosts
      /\ Posts["transfers"] = TransfersPosts /\ Posts["income"] = IncomePosts
      /\ Posts["accounts"] = AccountsPosts /\ Posts["categories"] = CategoriesPosts
      /\ Posts["quickAdd"] = QuickAddPosts /\ Posts["getStarted"] = GetStartedPosts
      /\ Posts["household"] = HouseholdPosts
  BY DEF Posts
<1> QED BY <1>1, <1>2, <1>3

\* Every page with an edit form posts, and locks all its forms together.
LEMMA EditPages ==
    ASSUME NEW p \in DOMAIN Fields
    PROVE  p \in DOMAIN Posts /\ p \notin LocksOneForm
  BY DEF Fields, Posts, LocksOneForm

\* What an edit form shows, the server's schema takes.
LEMMA ServerTakesFields ==
    ASSUME NEW p \in DOMAIN Fields
    PROVE  Fields[p] \subseteq Takes[p]
<1>1. /\ TransactionsFields \subseteq TransactionsTakes
      /\ BillsFields \subseteq BillsTakes
      /\ DebtsFields \subseteq DebtsTakes
      /\ BudgetsFields \subseteq BudgetsTakes
      /\ TransfersFields \subseteq TransfersTakes
      /\ IncomeFields \subseteq IncomeTakes
  BY DEF TransactionsFields, TransactionsTakes, BillsFields, BillsTakes, DebtsFields,
         DebtsTakes, InterestFields, BudgetsFields, BudgetsTakes, TransfersFields,
         TransfersTakes, IncomeFields, IncomeTakes
<1> QED BY <1>1 DEF Fields, Takes

LEMMA WatchedAreFields ==
    ASSUME NEW p, NEW f \in Watched(p)
    PROVE  f \in Fields[p]
<1>1. PICK t \in {Treated(p, x) : x \in Fields[p]} :
         f = CHOOSE x \in Fields[p] : Treated(p, x) = t
  BY DEF Watched
<1>2. PICK x \in Fields[p] : Treated(p, x) = t
  BY <1>1
<1> QED BY <1>1, <1>2

-----------------------------------------------------------------------------
(* The inductive invariant.                                                *)

Requests == [no : Nat, form : Posts[page] \cup {"edit"}, intent : 0 .. MaxIntent,
             shown : Nat, waiting : BOOLEAN, applied : BOOLEAN]

WebShape ==
    /\ page \in DOMAIN Posts
    /\ intents \in 0 .. MaxIntent
    /\ draft \in [Posts[page] -> 0 .. MaxIntent]
    /\ \A f \in Posts[page] : draft[f] <= intents
    /\ sent \subseteq Requests
    /\ \A q \in sent : q.waiting \/ ~q.applied
    /\ busy \in Posts[page] \cup {"", "edit"}
    /\ stored \in [Intent -> Nat]
    /\ unlocked \subseteq Intent /\ lost \subseteq Intent \cup {0}

\* A request that is waited for locks its form, or the form was unlocked before
\* the answer; a page that locks all its forms waits for one request at a time.
FormsLock ==
    /\ \A q \in Waiting(sent) : q.form = busy \/ q.intent \in unlocked
    /\ page \notin LocksOneForm =>
          /\ unlocked = {}
          /\ \A p, q \in Waiting(sent) : p = q

Excused == lost \cup unlocked

\* An intent is drafted in one form and asked for from that form alone.
IntentsKeepTheirForm ==
    concern = "post" =>
        /\ \A f, g \in Posts[page] : draft[f] = draft[g] => draft[f] = 0 \/ f = g
        /\ \A q \in sent : /\ q.form \in Posts[page] /\ q.intent \in 1 .. intents
                           /\ \A g \in Posts[page] : draft[g] = q.intent => g = q.form

\* An intent that was neither lost nor unlocked has one request, which the page
\* waits for; once it is stored, no other can come.
RequestsAreAlone ==
    concern = "post" =>
        /\ \A q \in sent : q.intent \notin Excused =>
              /\ q.waiting
              /\ \A p \in sent : p.intent = q.intent => p = q
        /\ \A i \in Intent \ Excused : stored[i] # 0 =>
              /\ stored[i] = 1 /\ i <= intents
              /\ \A q \in sent : q.intent = i => q.applied
              /\ \/ \E q \in sent : q.intent = i
                 \/ \A f \in Posts[page] : draft[f] # i

\* The edit form holds and sends values of its field.
EditsHoldValues ==
    concern # "post" =>
        /\ page \in DOMAIN Fields /\ field \in Fields[page]
        /\ stored = [i \in Intent |-> 0]
        /\ \A q \in sent : q.form = "edit" /\ q.intent = 0 /\ q.shown \in Values
        /\ row \in Values /\ seen \in Values
        /\ form \in [open : BOOLEAN, shown : Values \cup {Empty}]
        /\ form.open => form.shown \in Values

\* Nothing is promised by forms that post.
PostsPromiseNothing == concern = "post" => promise = Nothing

IInv ==
    /\ WebShape
    /\ FormsLock
    /\ IntentsKeepTheirForm
    /\ RequestsAreAlone
    /\ EditsHoldValues
    /\ PostsPromiseNothing
    /\ SavesAreFaithful

-----------------------------------------------------------------------------
(* Lemmas.                                                                 *)

LEMMA ValuesAreNaturals == Values \subseteq Nat /\ Empty \in Nat /\ Nothing \notin Nat
  BY WebAssumption DEF Values, Empty, Nothing

\* A set of naturals that is not empty has a least element.
LEMMA LeastExists ==
    ASSUME NEW S \in SUBSET Nat, S # {}
    PROVE  \E m \in S : \A x \in S : m <= x
<1> DEFINE R == {p \in Nat \X Nat : p[1] < p[2]}
<1>1. IsWellFoundedOn(R, Nat)
  BY NatLessThanWellFounded DEF OpToRel
<1> HIDE DEF R
<1>2. PICK m \in S : \A x \in S : ~(<<x, m>> \in R)
  BY <1>1, WFMin
<1>3. \A x \in S : x \in Nat /\ m \in Nat /\ ~(x < m)
  BY <1>2 DEF R
<1> QED BY <1>3

LEMMA NextNoIsNatural ==
    ASSUME FreeNo # {}
    PROVE  NextNo \in Nat
<1>1. FreeNo \in SUBSET Nat
  BY DEF FreeNo
<1>2. \E n \in FreeNo : \A k \in FreeNo : n <= k
  BY <1>1, LeastExists
<1> QED BY <1>1, <1>2 DEF NextNo

\* What is settled leaves the others as they were.
LEMMA SettleLeaves ==
    ASSUME WebShape, NEW q, NEW new, Settle(q, new)
    PROVE  sent' = (sent \ {q}) \cup {x \in new : x.waiting \/ ~x.applied}
  BY DEF WebShape, Settle

LEMMA SettleForgets ==
    ASSUME WebShape, NEW q, NEW new, Settle(q, new), \A x \in new : ~x.waiting /\ x.applied
    PROVE  sent' = sent \ {q}
<1>1. {x \in new : x.waiting \/ ~x.applied} = {}
  OBVIOUS
<1> QED BY <1>1, SettleLeaves

LEMMA IntentOrNone ==
    ASSUME NEW n \in 0 .. MaxIntent
    PROVE  n \in Intent \cup {0}
<1>1. n \in Int /\ 0 <= n /\ n <= MaxIntent
  OBVIOUS
<1>2. n = 0 \/ 1 <= n
  BY <1>1
<1> QED BY <1>1, <1>2 DEF Intent

LEMMA IntentsAreCounted ==
    ASSUME intents \in 0 .. MaxIntent
    PROVE  /\ intents \in Nat /\ 0 \in 0 .. MaxIntent
           /\ \A i \in 1 .. intents : i \in Intent /\ i # 0 /\ i \in Nat
           /\ \A i \in Intent : i # 0 /\ i \in Nat /\ i \in 0 .. MaxIntent
  BY WebAssumption DEF Intent

\* Only the household page has a form that stays filled.
LEMMA OthersAreEmptied ==
    ASSUME NEW q, page \notin LocksOneForm
    PROVE  Again(q) = {}
  BY DEF Again, StaysFilled, LocksOneForm

\* The answer to a request, or its loss, frees the page.
LEMMA AnswerLocks ==
    ASSUME IInv, NEW q \in sent, q.waiting, NEW L, \A x \in L : ~x.waiting,
           sent' \subseteq (sent \ {q}) \cup L, busy' = "",
           unlocked \cup Uncovered(sent', "") \subseteq unlocked',
           unlocked' \subseteq unlocked \cup Uncovered(sent', "") \cup Again(q),
           UNCHANGED <<page, concern>>
    PROVE  FormsLock' /\ unlocked' \subseteq Intent /\ Waiting(sent') \subseteq Waiting(sent) \ {q}
<1>1. Waiting(sent') \subseteq Waiting(sent) \ {q}
  BY DEF Waiting
<1>2. \A x \in Waiting(sent) : x \in sent /\ x.form # ""
  BY PostingForms DEF IInv, WebShape, Requests, Waiting
<1>3. \A x \in Waiting(sent') : x.intent \in Uncovered(sent', "")
  BY <1>1, <1>2 DEF Uncovered
<1>4. page \notin LocksOneForm => Waiting(sent') = {} /\ unlocked' = {}
  <2>1. SUFFICES ASSUME page \notin LocksOneForm PROVE Waiting(sent') = {} /\ unlocked' = {}
    OBVIOUS
  <2>2. q \in Waiting(sent) /\ unlocked = {} /\ \A x \in Waiting(sent) : x = q
    BY <2>1 DEF IInv, FormsLock, Waiting
  <2>3. Waiting(sent') = {}
    BY <1>1, <2>2
  <2>4. Uncovered(sent', "") = {}
    BY <2>3 DEF Uncovered
  <2>5. Again(q) = {}
    BY <2>1, OthersAreEmptied
  <2> QED BY <2>2, <2>3, <2>4, <2>5
<1>5. unlocked' \subseteq Intent
  <2>1. CASE concern = "post"
    <3>1. \A x \in Waiting(sent') : x.intent \in Intent
      BY <1>1, <1>2, <2>1, IntentsAreCounted DEF IInv, WebShape, IntentsKeepTheirForm
    <3>2. q.intent \in Intent
      BY <2>1, IntentsAreCounted DEF IInv, WebShape, IntentsKeepTheirForm
    <3>3. Again(q) \subseteq Intent /\ Uncovered(sent', "") \subseteq Intent
      BY <3>1, <3>2 DEF Uncovered, Again
    <3>4. unlocked \subseteq Intent
      BY DEF IInv, WebShape
    <3> QED BY <3>3, <3>4
  <2>2. CASE concern # "post"
    BY <1>4, <2>2, EditPages DEF IInv, EditsHoldValues
  <2> QED BY <2>1, <2>2
<1> QED BY <1>1, <1>3, <1>4, <1>5 DEF FormsLock

\* The answer to a form that posts: its intent was lost or refused, or the
\* form is empty now.
LEMMA AnswerPosts ==
    ASSUME IInv, concern = "post", NEW q \in sent, q.waiting,
           NEW L, \A x \in L : ~x.waiting /\ x.form = q.form /\ x.intent = q.intent /\ x.intent \in lost',
           sent' = (sent \ {q}) \cup L,
           Waiting(sent') \subseteq Waiting(sent) \ {q},
           draft' = draft \/ draft' = [draft EXCEPT ![q.form] = 0],
           \/ q.intent \in lost' \cup unlocked'
           \/ ~q.applied
           \/ draft' = [draft EXCEPT ![q.form] = 0],
           lost \subseteq lost', unlocked \subseteq unlocked',
           UNCHANGED <<page, concern, intents, stored>>
    PROVE  IntentsKeepTheirForm' /\ RequestsAreAlone'
<1>1. q.form \in Posts[page] /\ q.intent \in 1 .. intents
      /\ \A g \in Posts[page] : draft[g] = q.intent => g = q.form
  BY DEF IInv, IntentsKeepTheirForm
<1>2. /\ draft' \in [Posts[page] -> 0 .. MaxIntent]
      /\ \A g \in Posts[page] : draft'[g] = draft[g] \/ draft'[g] = 0
  <2>1. draft \in [Posts[page] -> 0 .. MaxIntent] /\ 0 \in 0 .. MaxIntent
    BY IntentsAreCounted DEF IInv, WebShape
  <2>2. CASE draft' = draft
    BY <2>1, <2>2
  <2>3. CASE draft' = [draft EXCEPT ![q.form] = 0]
    BY <2>1, <2>3
  <2> QED BY <2>2, <2>3
<1>3. IntentsKeepTheirForm'
  <2>1. \A f, g \in Posts[page] : draft'[f] = draft'[g] => draft'[f] = 0 \/ f = g
    BY <1>2 DEF IInv, IntentsKeepTheirForm
  <2>2. ASSUME NEW x \in sent'
        PROVE  /\ x.form \in Posts[page] /\ x.intent \in 1 .. intents
               /\ \A g \in Posts[page] : draft[g] = x.intent => g = x.form
    BY <1>1 DEF IInv, IntentsKeepTheirForm
  <2>3. \A x \in sent' : x.intent # 0
    BY <2>2, IntentsAreCounted DEF IInv, WebShape
  <2> QED BY <1>2, <2>1, <2>2, <2>3 DEF IntentsKeepTheirForm
<1>4. Excused \subseteq Excused'
  BY DEF Excused
<1>5. ASSUME NEW x \in sent', x.intent \notin Excused'
      PROVE  x \in sent \ {q} /\ x.waiting /\ \A p \in sent : p.intent = x.intent => p = x
  <2>1. x \in sent \ {q}
    BY <1>5 DEF Excused
  <2> QED BY <1>4, <1>5, <2>1 DEF IInv, RequestsAreAlone
<1>6. ASSUME NEW i \in Intent \ Excused', stored[i] # 0
      PROVE  /\ stored[i] = 1 /\ i <= intents
             /\ \A x \in sent' : x.intent = i => x.applied
             /\ \/ \E x \in sent' : x.intent = i
                \/ \A f \in Posts[page] : draft'[f] # i
  <2>1. /\ stored[i] = 1 /\ i <= intents
        /\ \A x \in sent : x.intent = i => x.applied
        /\ \/ \E x \in sent : x.intent = i
           \/ \A f \in Posts[page] : draft[f] # i
    BY <1>4, <1>6 DEF IInv, RequestsAreAlone
  <2>2. i # 0
    BY DEF Intent
  <2>3. \A x \in sent' : x.intent = i => x \in sent \ {q}
    BY <1>6 DEF Excused
  <2>4. CASE \A f \in Posts[page] : draft[f] # i
    BY <1>2, <2>1, <2>2, <2>3, <2>4
  <2>5. CASE \E x \in sent \ {q} : x.intent = i
    BY <2>1, <2>3, <2>5
  <2>6. CASE q.intent = i
    <3>1. draft' = [draft EXCEPT ![q.form] = 0]
      BY <1>6, <2>1, <2>6 DEF Excused
    <3>2. \A f \in Posts[page] : draft'[f] # i
      BY <1>1, <2>2, <2>6, <3>1 DEF IInv, WebShape
    <3> QED BY <2>1, <2>3, <3>2
  <2> QED BY <2>1, <2>4, <2>5, <2>6
<1>7. RequestsAreAlone'
  <2>1. \A x \in sent' : x.intent \notin Excused' =>
           x.waiting /\ \A p \in sent' : p.intent = x.intent => p = x
    BY <1>5
  <2> QED BY <1>6, <2>1 DEF RequestsAreAlone
<1> QED BY <1>3, <1>7

-----------------------------------------------------------------------------
(* Forms that post.                                                        *)

LEMMA PostsOnly ==
    ASSUME IInv, concern = "post", UNCHANGED <<page, concern, editVars>>,
           WebShape', FormsLock', IntentsKeepTheirForm', RequestsAreAlone'
    PROVE  IInv'
<1>1. promise' = Nothing
  BY DEF IInv, PostsPromiseNothing, editVars
<1> QED BY <1>1 DEF IInv, EditsHoldValues, PostsPromiseNothing, SavesAreFaithful

LEMMA FillKeeps ==
    ASSUME IInv, concern = "post", NEW f \in Posts[page], Fill(f)
    PROVE  IInv'
<1> DEFINE n == intents + 1
<1>1. intents \in Nat /\ n \in 0 .. MaxIntent /\ n # 0 /\ n \notin 0 .. intents
      /\ 0 .. intents \subseteq 0 .. n /\ 1 .. intents \subseteq 1 .. n
  <2>1. intents \in 0 .. MaxIntent /\ intents < MaxIntent
    BY DEF Fill, IInv, WebShape
  <2> QED BY <2>1, WebAssumption
<1>2. /\ draft' = [draft EXCEPT ![f] = n] /\ intents' = n
      /\ UNCHANGED <<page, concern, busy, sent, stored, unlocked, lost>>
  BY DEF Fill
<1>3. /\ draft \in [Posts[page] -> 0 .. MaxIntent]
      /\ \A g \in Posts[page] : draft[g] \in 0 .. intents
  <2>1. /\ draft \in [Posts[page] -> 0 .. MaxIntent]
        /\ \A g \in Posts[page] : draft[g] <= intents
    BY DEF IInv, WebShape
  <2>2. \A g \in Posts[page] : draft[g] \in 0 .. MaxIntent
    BY <2>1
  <2> QED BY <1>1, <2>1, <2>2
<1>4. /\ draft' \in [Posts[page] -> 0 .. MaxIntent] /\ draft'[f] = n
      /\ \A g \in Posts[page] : draft'[g] \in 0 .. n
      /\ \A g \in Posts[page] \ {f} : draft'[g] = draft[g]
  BY <1>1, <1>2, <1>3
<1> HIDE DEF n
<1>5. WebShape'
  <2>1. \A g \in Posts[page]' : draft'[g] <= intents'
    BY <1>1, <1>2, <1>4
  <2>2. intents' \in 0 .. MaxIntent
    BY <1>1, <1>2
  <2>3. Requests' = Requests
    BY <1>2 DEF Requests
  <2> QED BY <1>2, <1>4, <2>1, <2>2, <2>3 DEF IInv, WebShape
<1>6. FormsLock'
  BY <1>2 DEF IInv, FormsLock, Waiting
<1>7. \A q \in sent : q.intent # n /\ q.intent \in 1 .. n
  BY <1>1 DEF IInv, IntentsKeepTheirForm
<1>8. IntentsKeepTheirForm'
  <2>1. \A g, h \in Posts[page] : draft'[g] = draft'[h] => draft'[g] = 0 \/ g = h
    BY <1>1, <1>3, <1>4 DEF IInv, IntentsKeepTheirForm
  <2>2. \A q \in sent : \A g \in Posts[page] : draft'[g] = q.intent => g = q.form
    BY <1>4, <1>7 DEF IInv, IntentsKeepTheirForm
  <2> QED BY <1>2, <1>7, <2>1, <2>2 DEF IInv, IntentsKeepTheirForm
<1>9. RequestsAreAlone'
  <2>1. ASSUME NEW i \in Intent \ Excused, stored[i] # 0
        PROVE  /\ stored[i] = 1 /\ i <= n /\ i # n
               /\ \A q \in sent : q.intent = i => q.applied
               /\ \/ \E q \in sent : q.intent = i
                  \/ \A g \in Posts[page] : draft[g] # i
    BY <1>1, <2>1 DEF IInv, RequestsAreAlone, Intent, n
  <2>2. ASSUME NEW i \in Intent \ Excused, stored[i] # 0
        PROVE  /\ stored[i] = 1 /\ i <= n
               /\ \A q \in sent : q.intent = i => q.applied
               /\ \/ \E q \in sent : q.intent = i
                  \/ \A g \in Posts[page] : draft'[g] # i
    BY <1>4, <2>1, <2>2
  <2> QED BY <1>2, <2>2 DEF IInv, RequestsAreAlone, Excused
<1> QED BY <1>2, <1>5, <1>6, <1>8, <1>9, PostsOnly DEF Fill

LEMMA SubmitKeeps ==
    ASSUME IInv, concern = "post", NEW f \in Posts[page], Submit(f)
    PROVE  IInv'
<1> DEFINE k == [Request EXCEPT !.no = NextNo, !.form = f, !.intent = draft[f]]
           i == draft[f]
<1>1. /\ sent' = sent \cup {k} /\ busy' = f /\ ~Locked(f) /\ i # 0
      /\ unlocked' = unlocked \cup Uncovered(sent', f)
      /\ UNCHANGED <<page, concern, draft, intents, stored, lost, editVars>>
  BY DEF Submit
<1>2. f # "" /\ f # "edit"
  BY PostingForms DEF IInv, WebShape
<1>3. i \in 1 .. intents /\ i \in Intent /\ i \in 0 .. MaxIntent
  <2>1. /\ intents \in 0 .. MaxIntent /\ i \in 0 .. MaxIntent /\ i <= intents
    BY DEF IInv, WebShape
  <2> QED BY <1>1, <2>1, WebAssumption DEF Intent
<1>4. k \in Requests /\ k.form = f /\ k.intent = i /\ k.waiting = TRUE /\ k.applied = FALSE
  BY <1>3, NextNoIsNatural, ValuesAreNaturals DEF Submit, Request, Requests
<1> HIDE DEF k
<1>5. /\ Waiting(sent') = Waiting(sent) \cup {k}
      /\ \A q \in Waiting(sent') : q.form # f => q.intent \in unlocked'
      /\ unlocked \subseteq unlocked'
  BY <1>1, <1>4 DEF Waiting, Uncovered
<1>6. page \notin LocksOneForm => Waiting(sent) = {} /\ unlocked' = {}
  <2>1. SUFFICES ASSUME page \notin LocksOneForm
                 PROVE  Waiting(sent) = {} /\ unlocked' = {}
    OBVIOUS
  <2>2. busy = "" /\ unlocked = {} /\ \A q \in Waiting(sent) : q.form = busy
    BY <1>1, <2>1 DEF IInv, FormsLock, Locked
  <2>3. Waiting(sent) = {}
    BY <2>2, PostingForms DEF IInv, WebShape, Requests, Waiting
  <2>4. Uncovered(sent', f) = {}
    BY <1>4, <1>5, <2>3 DEF Uncovered
  <2> QED BY <1>1, <2>2, <2>3, <2>4
<1>7. FormsLock'
  <2>1. \A q \in Waiting(sent)' : q.form = busy' \/ q.intent \in unlocked'
    BY <1>1, <1>5 DEF Waiting
  <2>2. page \notin LocksOneForm => \A p, q \in Waiting(sent)' : p = q
    BY <1>5, <1>6 DEF Waiting
  <2> QED BY <1>1, <1>6, <2>1, <2>2 DEF FormsLock
<1>8. WebShape'
  <2>1. Requests' = Requests
    BY <1>1 DEF Requests
  <2>2. unlocked' \subseteq Intent
    <3>1. \A q \in sent' : q.intent \in Intent
      BY <1>1, <1>3, <1>4, IntentsAreCounted DEF IInv, WebShape, IntentsKeepTheirForm
    <3> QED BY <1>1, <3>1 DEF IInv, WebShape, Uncovered, Waiting
  <2>3. \A q \in sent' : q.waiting \/ ~q.applied
    BY <1>1, <1>4 DEF IInv, WebShape
  <2> QED BY <1>1, <1>4, <2>1, <2>2, <2>3 DEF IInv, WebShape
<1>9. IntentsKeepTheirForm'
  <2>1. ASSUME NEW q \in sent'
        PROVE  /\ q.form \in Posts[page] /\ q.intent \in 1 .. intents
               /\ \A g \in Posts[page] : draft[g] = q.intent => g = q.form
    <3>1. CASE q = k
      BY <1>1, <1>3, <1>4, <3>1 DEF IInv, IntentsKeepTheirForm
    <3>2. CASE q \in sent
      BY <3>2 DEF IInv, IntentsKeepTheirForm
    <3> QED BY <1>1, <3>1, <3>2
  <2> QED BY <1>1, <2>1 DEF IInv, IntentsKeepTheirForm
<1>10. i \notin Excused => \A q \in sent : q.intent # i
  <2>1. SUFFICES ASSUME i \notin Excused, NEW q \in sent, q.intent = i PROVE FALSE
    OBVIOUS
  <2>2. q.waiting /\ q.form = f
    BY <2>1 DEF IInv, IntentsKeepTheirForm, RequestsAreAlone
  <2>3. busy = f
    BY <2>1, <2>2 DEF IInv, FormsLock, Excused, Waiting
  <2> QED BY <1>1, <1>2, <2>3 DEF Locked
<1>11. Excused \subseteq Excused'
  BY <1>1 DEF Excused
<1>12. RequestsAreAlone'
  <2>1. ASSUME NEW q \in sent', q.intent \notin Excused'
        PROVE  q.waiting /\ \A p \in sent' : p.intent = q.intent => p = q
    BY <1>1, <1>4, <1>10, <1>11, <2>1 DEF IInv, RequestsAreAlone
  <2>2. ASSUME NEW x \in Intent \ Excused', stored[x] # 0
        PROVE  /\ stored[x] = 1 /\ x <= intents
               /\ \A q \in sent' : q.intent = x => q.applied
               /\ \/ \E q \in sent' : q.intent = x
                  \/ \A g \in Posts[page] : draft[g] # x
    <3>1. /\ stored[x] = 1 /\ x <= intents
          /\ \A q \in sent : q.intent = x => q.applied
          /\ \/ \E q \in sent : q.intent = x
             \/ \A g \in Posts[page] : draft[g] # x
      BY <1>11, <2>2 DEF IInv, RequestsAreAlone
    <3>2. x # i
      BY <1>10, <1>11, <2>2, <3>1
    <3> QED BY <1>1, <1>4, <3>1, <3>2
  <2> QED BY <1>1, <2>1, <2>2 DEF RequestsAreAlone
<1> QED BY <1>1, <1>7, <1>8, <1>9, <1>12, PostsOnly

\* A request is stored: an intent that was neither lost nor unlocked had no row.
LEMMA StoreKeeps ==
    ASSUME IInv, concern = "post", NEW q \in sent, Store(q)
    PROVE  IInv'
<1> DEFINE k == [q EXCEPT !.applied = TRUE]
           i == q.intent
<1>1. /\ ~q.applied /\ stored' = [stored EXCEPT ![i] = @ + 1] /\ Settle(q, {k})
      /\ UNCHANGED <<page, concern, busy, draft, intents, unlocked, lost, editVars>>
  BY DEF Store
<1>2. q \in Requests /\ q.form \in Posts[page] /\ i \in 1 .. intents
      /\ i \in Intent
  BY IntentsAreCounted DEF IInv, WebShape, IntentsKeepTheirForm
<1>3. /\ k \in Requests /\ k.form = q.form /\ k.intent = i /\ k.waiting = q.waiting
      /\ k.applied = TRUE
  BY <1>2 DEF Requests
<1> HIDE DEF k
<1>4. sent' = (sent \ {q}) \cup {x \in {k} : x.waiting \/ ~x.applied}
  BY <1>1, SettleLeaves DEF IInv
<1>5. sent' \subseteq (sent \ {q}) \cup {k} /\ (q.waiting => k \in sent')
      /\ sent \ {q} \subseteq sent' /\ (k \in sent' => q.waiting \/ k \in sent)
  BY <1>3, <1>4
<1>6. WebShape'
  <2>1. Requests' = Requests
    BY <1>1 DEF Requests
  <2>2. stored' \in [Intent -> Nat]
    <3>1. stored \in [Intent -> Nat]
      BY DEF IInv, WebShape
    <3> HIDE DEF i
    <3> QED BY <1>1, <1>2, <3>1
  <2>3. \A x \in sent' : x.waiting \/ ~x.applied
    BY <1>4 DEF IInv, WebShape
  <2> QED BY <1>1, <1>3, <1>5, <2>1, <2>2, <2>3 DEF IInv, WebShape
<1>7. FormsLock'
  <2>1. \A x \in Waiting(sent') : x \in Waiting(sent) \/ (x = k /\ q \in Waiting(sent))
    BY <1>3, <1>4 DEF Waiting
  <2>2. \A x \in Waiting(sent') : x.form = busy \/ x.intent \in unlocked
    BY <1>3, <2>1 DEF IInv, FormsLock
  <2>3. page \notin LocksOneForm => \A x, y \in Waiting(sent') : x = y
    <3>1. SUFFICES ASSUME page \notin LocksOneForm, NEW x \in Waiting(sent'),
                          NEW y \in Waiting(sent')
                   PROVE  x = y
      OBVIOUS
    <3>2. \A p, r \in Waiting(sent) : p = r
      BY <3>1 DEF IInv, FormsLock
    <3>3. x \in Waiting(sent) \ {q} \/ (x = k /\ q \in Waiting(sent))
      BY <1>5, <2>1 DEF Waiting
    <3>4. y \in Waiting(sent) \ {q} \/ (y = k /\ q \in Waiting(sent))
      BY <1>5, <2>1 DEF Waiting
    <3> QED BY <3>2, <3>3, <3>4
  <2> QED BY <1>1, <2>2, <2>3 DEF IInv, FormsLock, Waiting
<1>8. IntentsKeepTheirForm'
  <2>1. ASSUME NEW x \in sent'
        PROVE  /\ x.form \in Posts[page] /\ x.intent \in 1 .. intents
               /\ \A g \in Posts[page] : draft[g] = x.intent => g = x.form
    BY <1>3, <1>5 DEF IInv, IntentsKeepTheirForm
  <2> QED BY <1>1, <2>1 DEF IInv, IntentsKeepTheirForm
<1>9. RequestsAreAlone'
  <2>1. Excused' = Excused
    BY <1>1 DEF Excused
  <2>2. i \notin Excused => /\ q.waiting /\ stored[i] = 0
                            /\ \A p \in sent : p.intent = i => p = q
    BY <1>1, <1>2 DEF IInv, RequestsAreAlone
  <2>3. i \notin Excused => k \in sent' /\ \A p \in sent' : p.intent = i => p = k
    BY <1>5, <2>2
  <2>4. ASSUME NEW x \in sent', x.intent \notin Excused
        PROVE  x.waiting /\ \A p \in sent' : p.intent = x.intent => p = x
    <3>1. CASE x.intent = i
      BY <1>3, <2>2, <2>3, <2>4, <3>1
    <3>2. CASE x.intent # i
      BY <1>3, <1>5, <2>4, <3>2 DEF IInv, RequestsAreAlone
    <3> QED BY <3>1, <3>2
  <2>5. ASSUME NEW x \in Intent \ Excused, stored'[x] # 0
        PROVE  /\ stored'[x] = 1 /\ x <= intents
               /\ \A p \in sent' : p.intent = x => p.applied
               /\ \/ \E p \in sent' : p.intent = x
                  \/ \A g \in Posts[page] : draft[g] # x
    <3>1. CASE x = i
      <4>1. stored'[x] = 1
        <5>1. stored \in [Intent -> Nat] /\ stored[i] = 0
          BY <2>1, <2>2, <2>5, <3>1 DEF IInv, WebShape
        <5> HIDE DEF i
        <5> QED BY <1>1, <1>2, <3>1, <5>1
      <4>2. x <= intents
        <5>1. intents \in 0 .. MaxIntent
          BY DEF IInv, WebShape
        <5> HIDE DEF i
        <5> QED BY <1>2, <3>1, <5>1, WebAssumption
      <4> QED BY <1>3, <2>3, <2>5, <3>1, <4>1, <4>2
    <3>2. CASE x # i
      <4>1. stored'[x] = stored[x]
        BY <1>1, <1>2, <3>2 DEF IInv, WebShape
      <4>2. /\ stored[x] = 1 /\ x <= intents
            /\ \A p \in sent : p.intent = x => p.applied
            /\ \/ \E p \in sent : p.intent = x
               \/ \A g \in Posts[page] : draft[g] # x
        BY <2>5, <4>1 DEF IInv, RequestsAreAlone
      <4> QED BY <1>3, <1>5, <3>2, <4>1, <4>2
    <3> QED BY <3>1, <3>2
  <2> QED BY <1>1, <2>1, <2>4, <2>5 DEF RequestsAreAlone
<1> QED BY <1>1, <1>6, <1>7, <1>8, <1>9, PostsOnly

LEMMA PostedKeeps ==
    ASSUME IInv, concern = "post", NEW q \in sent, Posted(q)
    PROVE  IInv'
<1>1. /\ q.waiting /\ q.applied /\ Settle(q, {}) /\ busy' = ""
      /\ \/ draft' = [draft EXCEPT ![q.form] = 0]
         \/ draft' = draft /\ q.intent \in unlocked'
      /\ unlocked' = unlocked \cup Uncovered(sent', "") \cup Again(q)
      /\ UNCHANGED <<page, concern, intents, stored, lost, editVars>>
  <2>1. Again(q) # {} => q.intent \in Again(q)
    BY DEF Again
  <2>2. /\ q.waiting /\ q.applied /\ Settle(q, {}) /\ busy' = ""
        /\ draft' = IF Again(q) = {} THEN [draft EXCEPT ![q.form] = 0] ELSE draft
        /\ unlocked' = unlocked \cup Uncovered(sent', "") \cup Again(q)
        /\ UNCHANGED <<page, concern, intents, stored, lost, editVars>>
    BY DEF Posted
  <2>3. Again(q) # {} => q.intent \in unlocked'
    BY <2>1, <2>2
  <2> QED BY <2>2, <2>3
<1>2. sent' = sent \ {q}
  <2> DEFINE N == {}
  <2>1. (\A x \in N : ~x.waiting /\ x.applied) /\ Settle(q, N)
    BY <1>1
  <2> HIDE DEF N
  <2> QED BY <2>1, SettleForgets DEF IInv
<1>3. FormsLock' /\ unlocked' \subseteq Intent /\ Waiting(sent') \subseteq Waiting(sent) \ {q}
  <2> DEFINE L == {}
  <2>1. \A x \in L : ~x.waiting
    OBVIOUS
  <2>2. sent' \subseteq (sent \ {q}) \cup L
    BY <1>2
  <2> HIDE DEF L
  <2> QED BY <1>1, <2>1, <2>2, AnswerLocks
<1>4. IntentsKeepTheirForm' /\ RequestsAreAlone'
  <2> DEFINE L == {}
  <2>1. /\ \A x \in L : ~x.waiting /\ x.form = q.form /\ x.intent = q.intent /\ x.intent \in lost'
        /\ sent' = (sent \ {q}) \cup L
    BY <1>2
  <2>2. unlocked \subseteq unlocked' /\ lost \subseteq lost'
    BY <1>1
  <2> HIDE DEF L
  <2> QED BY <1>1, <1>3, <2>1, <2>2, AnswerPosts
<1>5. WebShape'
  <2>1. q.form \in Posts[page] /\ 0 \in 0 .. MaxIntent /\ 0 <= intents
        /\ draft \in [Posts[page] -> 0 .. MaxIntent]
        /\ \A f \in Posts[page] : draft[f] <= intents
    <3>1. intents \in 0 .. MaxIntent
      BY DEF IInv, WebShape
    <3>2. 0 \in 0 .. MaxIntent /\ 0 <= intents
      BY <3>1, WebAssumption
    <3> QED BY <3>2 DEF IInv, WebShape, IntentsKeepTheirForm
  <2>2. /\ draft' \in [Posts[page] -> 0 .. MaxIntent]
        /\ \A f \in Posts[page] : draft'[f] <= intents
    BY <1>1, <2>1
  <2>3. Requests' = Requests
    BY <1>1 DEF Requests
  <2> QED BY <1>1, <1>2, <1>3, <2>2, <2>3 DEF IInv, WebShape
<1> QED BY <1>1, <1>3, <1>4, <1>5, PostsOnly

\* What a refusal or a lost answer does on either kind of page.
LEMMA UnansweredShape ==
    ASSUME IInv, NEW q \in sent, NEW k, k = [q EXCEPT !.waiting = FALSE],
           sent' \subseteq (sent \ {q}) \cup {k}, k \in sent' => ~q.applied,
           unlocked' \subseteq Intent, lost' \in {lost, lost \cup {q.intent}}, busy' = "",
           UNCHANGED <<page, concern, draft, intents, stored>>
    PROVE  WebShape'
<1>1. q \in Requests /\ q.intent \in 0 .. MaxIntent
  BY DEF IInv, WebShape, Requests
<1>2. k \in Requests /\ k.applied = q.applied
  BY <1>1 DEF Requests
<1>3. Requests' = Requests
  BY DEF Requests
<1>4. \A x \in sent' : x \in Requests /\ (x.waiting \/ ~x.applied)
  BY <1>2 DEF IInv, WebShape
<1>5. lost' \subseteq Intent \cup {0}
  <2>1. q.intent \in Intent \cup {0}
    BY <1>1, IntentOrNone
  <2> QED BY <2>1 DEF IInv, WebShape
<1> QED BY <1>3, <1>4, <1>5 DEF IInv, WebShape

LEMMA RefusedFacts ==
    ASSUME IInv, NEW q \in sent, Refused(q)
    PROVE  /\ q.waiting /\ ~q.applied /\ busy' = "" /\ sent' = sent \ {q}
           /\ unlocked' = unlocked \cup Uncovered(sent', "")
           /\ UNCHANGED <<page, concern, draft, intents, stored, lost, editVars>>
           /\ FormsLock' /\ Waiting(sent') \subseteq Waiting(sent) \ {q}
           /\ WebShape'
<1> DEFINE k == [q EXCEPT !.waiting = FALSE, !.applied = TRUE]
           j == [q EXCEPT !.waiting = FALSE]
           L == {}
<1>1. /\ q.waiting /\ ~q.applied /\ Settle(q, {k}) /\ busy' = ""
      /\ unlocked' = unlocked \cup Uncovered(sent', "")
      /\ UNCHANGED <<page, concern, draft, intents, stored, lost, editVars>>
  BY DEF Refused
<1>2. k.waiting = FALSE /\ k.applied = TRUE
  BY DEF IInv, WebShape, Requests
<1> HIDE DEF k, j
<1>3. sent' = sent \ {q}
  <2>1. \A x \in {k} : ~x.waiting /\ x.applied
    BY <1>2
  <2>2. WebShape /\ Settle(q, {k})
    BY <1>1 DEF IInv
  <2> QED BY <2>1, <2>2, SettleForgets
<1>4. (\A x \in L : ~x.waiting) /\ sent' \subseteq (sent \ {q}) \cup L
  BY <1>3
<1> HIDE DEF L
<1>5. FormsLock' /\ unlocked' \subseteq Intent /\ Waiting(sent') \subseteq Waiting(sent) \ {q}
  BY <1>1, <1>4, AnswerLocks
<1>6. WebShape'
  <2>1. sent' \subseteq (sent \ {q}) \cup {j} /\ (j \in sent' => ~q.applied)
    BY <1>1, <1>3
  <2>2. j = [q EXCEPT !.waiting = FALSE]
    BY DEF j
  <2> QED BY <1>1, <1>5, <2>1, <2>2, UnansweredShape
<1> QED BY <1>1, <1>3, <1>5, <1>6

LEMMA LoseFacts ==
    ASSUME IInv, NEW q \in sent, Lose(q)
    PROVE  \E L : /\ \A x \in L : /\ ~x.waiting /\ x.form = q.form /\ x.intent = q.intent
                                  /\ x.shown = q.shown
                  /\ q.waiting /\ busy' = "" /\ sent' = (sent \ {q}) \cup L
                  /\ unlocked' = unlocked \cup Uncovered(sent', "")
                  /\ lost' = lost \cup {q.intent}
                  /\ UNCHANGED <<page, concern, draft, intents, stored, editVars>>
                  /\ FormsLock' /\ Waiting(sent') \subseteq Waiting(sent) \ {q}
                  /\ WebShape'
<1> DEFINE k == [q EXCEPT !.waiting = FALSE]
           L == {x \in {k} : x.waiting \/ ~x.applied}
<1>1. /\ q.waiting /\ Settle(q, {k}) /\ busy' = ""
      /\ unlocked' = unlocked \cup Uncovered(sent', "")
      /\ lost' = lost \cup {q.intent}
      /\ UNCHANGED <<page, concern, draft, intents, stored, editVars>>
  BY DEF Lose
<1>2. /\ k.waiting = FALSE /\ k.form = q.form /\ k.intent = q.intent /\ k.shown = q.shown
      /\ k.applied = q.applied
  BY DEF IInv, WebShape, Requests
<1>3. k = [q EXCEPT !.waiting = FALSE]
  OBVIOUS
<1> HIDE DEF k
<1>4. sent' = (sent \ {q}) \cup L
  BY <1>1, SettleLeaves DEF IInv
<1>5. \A x \in L : ~x.waiting /\ x.form = q.form /\ x.intent = q.intent /\ x.shown = q.shown
  BY <1>2
<1>6. sent' \subseteq (sent \ {q}) \cup {k} /\ (k \in L => ~q.applied)
  BY <1>2, <1>4
<1>7. k \in sent' => ~q.applied
  <2>1. SUFFICES ASSUME k \in sent \ {q} PROVE ~q.applied
    BY <1>4, <1>6
  <2>2. k.waiting \/ ~k.applied
    BY <2>1 DEF IInv, WebShape
  <2> QED BY <1>2, <2>2
<1> HIDE DEF L
<1>8. FormsLock' /\ unlocked' \subseteq Intent /\ Waiting(sent') \subseteq Waiting(sent) \ {q}
  <2>1. (\A x \in L : ~x.waiting) /\ sent' \subseteq (sent \ {q}) \cup L
    BY <1>4, <1>5
  <2> QED BY <1>1, <2>1, AnswerLocks
<1>9. WebShape'
  BY <1>1, <1>3, <1>6, <1>7, <1>8, UnansweredShape
<1> QED BY <1>1, <1>4, <1>5, <1>8, <1>9

LEMMA RefusedPostKeeps ==
    ASSUME IInv, concern = "post", NEW q \in sent, Refused(q)
    PROVE  IInv'
<1> DEFINE L == {}
<1>1. (\A x \in L : ~x.waiting /\ x.form = q.form /\ x.intent = q.intent /\ x.intent \in lost')
      /\ sent \ {q} = (sent \ {q}) \cup L
  OBVIOUS
<1> HIDE DEF L
<1>2. unlocked \subseteq unlocked' /\ lost \subseteq lost'
  BY RefusedFacts
<1>3. IntentsKeepTheirForm' /\ RequestsAreAlone'
  BY <1>1, <1>2, RefusedFacts, AnswerPosts
<1> QED BY <1>3, RefusedFacts, PostsOnly

LEMMA LosePostKeeps ==
    ASSUME IInv, concern = "post", NEW q \in sent, Lose(q)
    PROVE  IInv'
<1>1. PICK L : /\ \A x \in L : /\ ~x.waiting /\ x.form = q.form /\ x.intent = q.intent
                               /\ x.shown = q.shown
               /\ q.waiting /\ busy' = "" /\ sent' = (sent \ {q}) \cup L
               /\ unlocked' = unlocked \cup Uncovered(sent', "")
               /\ lost' = lost \cup {q.intent}
               /\ UNCHANGED <<page, concern, draft, intents, stored, editVars>>
               /\ FormsLock' /\ Waiting(sent') \subseteq Waiting(sent) \ {q}
               /\ WebShape'
  BY LoseFacts
<1>2. /\ unlocked \subseteq unlocked' /\ lost \subseteq lost' /\ q.intent \in lost'
      /\ \A x \in L : x.intent \in lost'
  BY <1>1
<1>3. IntentsKeepTheirForm' /\ RequestsAreAlone'
  BY <1>1, <1>2, AnswerPosts
<1> QED BY <1>1, <1>3, PostsOnly

-----------------------------------------------------------------------------
(* The edit form.                                                          *)

\* On a page with an edit form nothing is unlocked, and one request is waited
\* for at most.
LEMMA EditsOnly ==
    ASSUME IInv, concern # "post", UNCHANGED <<page, concern, field>>,
           WebShape', FormsLock', EditsHoldValues', SavesAreFaithful'
    PROVE  IInv'
  BY DEF IInv, IntentsKeepTheirForm, RequestsAreAlone, PostsPromiseNothing

\* The user and the others touch the field, but no request.
LEMMA FieldOnly ==
    ASSUME IInv, concern # "post", UNCHANGED <<page, concern, field, postVars, busy, sent>>,
           row' \in Values, seen' \in Values,
           form' \in [open : BOOLEAN, shown : Values \cup {Empty}],
           form'.open => form'.shown \in Values,
           \/ promise' = Nothing
           \/ promise' = promise /\ row' = row
    PROVE  IInv'
<1>1. WebShape'
  BY DEF IInv, WebShape, Requests, postVars
<1>2. FormsLock'
  BY DEF IInv, FormsLock, Waiting, postVars
<1>3. Values' = Values
  BY DEF Values
<1>4. EditsHoldValues'
  BY <1>3 DEF IInv, EditsHoldValues, postVars
<1>5. SavesAreFaithful'
  BY DEF IInv, SavesAreFaithful
<1> QED BY <1>1, <1>2, <1>4, <1>5, EditsOnly

LEMMA EditingKeeps ==
    ASSUME IInv, concern # "post",
           \/ OpenEdit \/ CancelEdit \/ Refresh
           \/ \E v \in Values : Type(v) \/ OtherWriter(v)
    PROVE  IInv'
<1> DEFINE Form == [open : BOOLEAN, shown : Values \cup {Empty}]
<1>1. /\ row \in Values /\ seen \in Values /\ form \in Form
      /\ form.open => form.shown \in Values
  BY DEF IInv, EditsHoldValues
<1>2. CASE OpenEdit
  <2>1. form' \in Form /\ (form'.open => form'.shown \in Values)
    BY <1>1, <1>2 DEF OpenEdit
  <2> QED BY <1>1, <1>2, <2>1, FieldOnly DEF OpenEdit, Editing
<1>3. CASE CancelEdit
  <2>1. form' \in Form /\ ~form'.open
    BY <1>3 DEF CancelEdit, Closed
  <2> QED BY <1>1, <1>3, <2>1, FieldOnly DEF CancelEdit, Editing
<1>4. CASE Refresh
  BY <1>1, <1>4, FieldOnly DEF Refresh, Editing
<1>5. ASSUME NEW v \in Values, Type(v) PROVE IInv'
  <2>1. form' \in Form /\ form'.shown \in Values
    BY <1>1, <1>5 DEF Type
  <2> QED BY <1>1, <1>5, <2>1, FieldOnly DEF Type, Editing
<1>6. ASSUME NEW v \in Values, OtherWriter(v) PROVE IInv'
  BY <1>1, <1>6, FieldOnly DEF OtherWriter, Editing
<1> QED BY <1>2, <1>3, <1>4, <1>5, <1>6

LEMMA SaveEditKeeps ==
    ASSUME IInv, concern # "post", SaveEdit
    PROVE  IInv'
<1> DEFINE k == [Request EXCEPT !.no = NextNo, !.shown = form.shown]
<1>1. /\ form.open /\ busy = "" /\ sent' = sent \cup {k} /\ busy' = "edit"
      /\ UNCHANGED <<page, concern, field, postVars, row, seen, form, promise>>
  BY DEF SaveEdit, Editing
<1>2. /\ form.shown \in Values /\ form.shown \in Nat
  BY <1>1, ValuesAreNaturals DEF IInv, EditsHoldValues
<1>3. 0 \in 0 .. MaxIntent
  BY WebAssumption
<1>4. /\ k \in Requests /\ k.form = "edit" /\ k.intent = 0 /\ k.shown \in Values
      /\ k.waiting = TRUE /\ k.applied = FALSE
  BY <1>2, <1>3, NextNoIsNatural DEF SaveEdit, Request, Requests
<1> HIDE DEF k
<1>5. page \in DOMAIN Fields /\ page \notin LocksOneForm /\ page \in DOMAIN Posts
  BY EditPages DEF IInv, EditsHoldValues
<1>6. Waiting(sent) = {}
  <2>1. \A q \in Waiting(sent) : q.form = "" /\ q.form = "edit"
    BY <1>1, <1>5 DEF IInv, FormsLock, EditsHoldValues, Waiting
  <2> QED BY <2>1
<1>7. Waiting(sent') = {k}
  BY <1>1, <1>4, <1>6 DEF Waiting
<1>8. FormsLock'
  BY <1>1, <1>4, <1>5, <1>7 DEF IInv, FormsLock, Waiting, postVars
<1>9. WebShape'
  <2>1. Requests' = Requests
    BY <1>1 DEF Requests
  <2>2. \A q \in sent' : q \in Requests /\ (q.waiting \/ ~q.applied)
    BY <1>1, <1>4 DEF IInv, WebShape
  <2> QED BY <1>1, <2>1, <2>2 DEF IInv, WebShape, postVars
<1>10. EditsHoldValues'
  <2>1. Values' = Values
    BY <1>1 DEF Values
  <2> QED BY <1>1, <1>4, <2>1 DEF IInv, EditsHoldValues, postVars
<1>11. SavesAreFaithful'
  BY <1>1 DEF IInv, SavesAreFaithful
<1> QED BY <1>1, <1>8, <1>9, <1>10, <1>11, EditsOnly

\* What a save writes: what the form showed, or the row as it was when an
\* optional field was emptied.
LEMMA WrittenIsShown ==
    ASSUME IInv, concern # "post", NEW q \in sent
    PROVE  \/ Written(q) = q.shown
           \/ Written(q) = row /\ q.shown = Empty /\ field \notin Always[page]
<1>1. page \in DOMAIN Fields /\ field \in Takes[page]
  BY ServerTakesFields DEF IInv, EditsHoldValues
<1>2. q.shown \in Values /\ q.shown # Nothing
  BY ValuesAreNaturals DEF IInv, EditsHoldValues
<1>3. CASE field \in Always[page] \/ q.shown # Empty
  BY <1>1, <1>2, <1>3 DEF Payload, Written
<1>4. CASE ~(field \in Always[page] \/ q.shown # Empty)
  BY <1>4 DEF Payload, Written
<1> QED BY <1>3, <1>4

LEMMA StoreEditKeeps ==
    ASSUME IInv, concern # "post", NEW q \in sent, StoreEdit(q)
    PROVE  IInv'
<1> DEFINE k == [q EXCEPT !.applied = TRUE]
<1>1. /\ ~q.applied /\ row' = Written(q) /\ promise' = q.shown /\ Settle(q, {k})
      /\ UNCHANGED <<page, concern, field, postVars, busy, seen, form>>
  BY DEF StoreEdit, Editing
<1>2. q \in Requests /\ q.form = "edit" /\ q.intent = 0 /\ q.shown \in Values
      /\ row \in Values
  BY DEF IInv, WebShape, EditsHoldValues
<1>3. /\ k \in Requests /\ k.form = q.form /\ k.intent = q.intent /\ k.shown = q.shown
      /\ k.waiting = q.waiting /\ k.applied = TRUE
  BY <1>2 DEF Requests
<1> HIDE DEF k
<1>4. sent' = (sent \ {q}) \cup {x \in {k} : x.waiting \/ ~x.applied}
  BY <1>1, SettleLeaves DEF IInv
<1>5. WebShape'
  <2>1. Requests' = Requests
    BY <1>1 DEF Requests
  <2>2. \A x \in sent' : x \in Requests /\ (x.waiting \/ ~x.applied)
    BY <1>3, <1>4 DEF IInv, WebShape
  <2> QED BY <1>1, <2>1, <2>2 DEF IInv, WebShape, postVars
<1>6. FormsLock'
  <2>1. \A x \in Waiting(sent') : \/ x \in Waiting(sent) \ {q}
                                  \/ x = k /\ q \in Waiting(sent)
    BY <1>3, <1>4 DEF Waiting
  <2>2. page \notin LocksOneForm
    BY EditPages DEF IInv, EditsHoldValues
  <2>3. \A x, y \in Waiting(sent) : x = y
    BY <2>2 DEF IInv, FormsLock
  <2>4. \A x, y \in Waiting(sent') : x = y
    BY <2>1, <2>3
  <2>5. \A x \in Waiting(sent') : x.form = busy \/ x.intent \in unlocked
    BY <1>3, <2>1 DEF IInv, FormsLock
  <2> QED BY <1>1, <2>4, <2>5 DEF IInv, FormsLock, Waiting, postVars
<1>7. row' \in Values /\ (row' = q.shown \/ (row' = row /\ q.shown = Empty
                                             /\ field \notin Always[page]))
  BY <1>1, <1>2, WrittenIsShown
<1>8. EditsHoldValues'
  <2>1. Values' = Values
    BY <1>1 DEF Values
  <2>2. \A x \in sent' : x.form = "edit" /\ x.intent = 0 /\ x.shown \in Values
    BY <1>2, <1>3, <1>4 DEF IInv, EditsHoldValues
  <2> QED BY <1>1, <1>7, <2>1, <2>2 DEF IInv, EditsHoldValues, postVars
<1>9. SavesAreFaithful'
  BY <1>1, <1>7 DEF IInv, SavesAreFaithful
<1> QED BY <1>1, <1>5, <1>6, <1>8, <1>9, EditsOnly

\* An answer of either sort, or its loss: the field is as it was.
LEMMA AnswerEdits ==
    ASSUME IInv, concern # "post", UNCHANGED <<page, concern, field, draft, intents, stored>>,
           UNCHANGED <<row, seen, promise>>,
           form' \in {form, Closed},
           \A x \in sent' \ sent : x.form = "edit" /\ x.intent = 0 /\ x.shown \in Values,
           WebShape', FormsLock'
    PROVE  IInv'
<1>1. Values' = Values
  BY DEF Values
<1>2. EditsHoldValues'
  <2>1. \A x \in sent' : x.form = "edit" /\ x.intent = 0 /\ x.shown \in Values
    BY DEF IInv, EditsHoldValues
  <2>2. /\ form' \in [open : BOOLEAN, shown : Values \cup {Empty}]
        /\ form'.open => form'.shown \in Values
    <3>1. /\ form \in [open : BOOLEAN, shown : Values \cup {Empty}]
          /\ form.open => form.shown \in Values
      BY DEF IInv, EditsHoldValues
    <3>2. Closed \in [open : BOOLEAN, shown : Values \cup {Empty}]
          /\ ~Closed.open
      BY DEF Closed
    <3> HIDE DEF Closed
    <3> QED BY <1>1, <3>1, <3>2
  <2> QED BY <1>1, <2>1, <2>2 DEF IInv, EditsHoldValues
<1>3. SavesAreFaithful'
  BY DEF IInv, SavesAreFaithful
<1> QED BY <1>2, <1>3, EditsOnly

LEMMA SavedKeeps ==
    ASSUME IInv, concern # "post", NEW q \in sent, Saved(q)
    PROVE  IInv'
<1>1. /\ q.waiting /\ q.applied /\ Settle(q, {}) /\ busy' = "" /\ form' = Closed
      /\ UNCHANGED <<page, concern, field, postVars, row, seen, promise>>
  BY DEF Saved, Editing
<1>2. sent' = sent \ {q}
  <2> DEFINE N == {}
  <2>1. (\A x \in N : ~x.waiting /\ x.applied) /\ Settle(q, N)
    BY <1>1
  <2> HIDE DEF N
  <2> QED BY <2>1, SettleForgets DEF IInv
<1>3. page \notin LocksOneForm
  BY EditPages DEF IInv, EditsHoldValues
<1>4. Waiting(sent') = {}
  <2>1. q \in Waiting(sent) /\ \A x \in Waiting(sent) : x = q
    BY <1>1, <1>3 DEF IInv, FormsLock, Waiting
  <2>2. \A x \in Waiting(sent') : x \in Waiting(sent) /\ x # q
    BY <1>2 DEF Waiting
  <2> QED BY <2>1, <2>2
<1>5. FormsLock'
  BY <1>1, <1>4 DEF IInv, FormsLock, Waiting, postVars
<1>6. WebShape'
  <2>1. Requests' = Requests
    BY <1>1 DEF Requests
  <2> QED BY <1>1, <1>2, <2>1 DEF IInv, WebShape, postVars
<1>7. \A x \in sent' \ sent : x.form = "edit" /\ x.intent = 0 /\ x.shown \in Values
  BY <1>2
<1> QED BY <1>1, <1>5, <1>6, <1>7, AnswerEdits DEF postVars

LEMMA RefusedEditKeeps ==
    ASSUME IInv, concern # "post", NEW q \in sent, Refused(q)
    PROVE  IInv'
<1>1. /\ sent' = sent \ {q} /\ WebShape' /\ FormsLock'
      /\ UNCHANGED <<page, concern, draft, intents, stored, editVars>>
  BY RefusedFacts
<1>2. \A x \in sent' \ sent : x.form = "edit" /\ x.intent = 0 /\ x.shown \in Values
  BY <1>1
<1> QED BY <1>1, <1>2, AnswerEdits DEF editVars

LEMMA LoseEditKeeps ==
    ASSUME IInv, concern # "post", NEW q \in sent, Lose(q)
    PROVE  IInv'
<1>1. PICK L : /\ \A x \in L : /\ ~x.waiting /\ x.form = q.form /\ x.intent = q.intent
                               /\ x.shown = q.shown
               /\ q.waiting /\ busy' = "" /\ sent' = (sent \ {q}) \cup L
               /\ unlocked' = unlocked \cup Uncovered(sent', "")
               /\ lost' = lost \cup {q.intent}
               /\ UNCHANGED <<page, concern, draft, intents, stored, editVars>>
               /\ FormsLock' /\ Waiting(sent') \subseteq Waiting(sent) \ {q}
               /\ WebShape'
  BY LoseFacts
<1>2. q.form = "edit" /\ q.intent = 0 /\ q.shown \in Values
  BY DEF IInv, EditsHoldValues
<1>3. \A x \in sent' \ sent : x.form = "edit" /\ x.intent = 0 /\ x.shown \in Values
  BY <1>1, <1>2
<1> QED BY <1>1, <1>3, AnswerEdits DEF editVars

-----------------------------------------------------------------------------
(* The invariant is inductive.                                             *)

LEMMA InitHolds == WebInit => IInv
<1> SUFFICES ASSUME WebInit PROVE IInv
  OBVIOUS
<1>1. page \in DOMAIN Posts
      /\ (concern # "post" => page \in DOMAIN Fields /\ field \in Fields[page])
  BY EditPages, WatchedAreFields DEF WebInit
<1>2. /\ draft = [f \in Posts[page] |-> 0] /\ intents = 0 /\ busy = "" /\ sent = {}
      /\ stored = [i \in Intent |-> 0] /\ unlocked = {} /\ lost = {}
      /\ seen = row /\ form = Closed /\ promise = Nothing
      /\ concern # "post" => row \in Values
  BY DEF WebInit
<1>3. 0 \in 0 .. MaxIntent
  BY WebAssumption
<1>4. WebShape
  <2>1. draft \in [Posts[page] -> 0 .. MaxIntent] /\ \A f \in Posts[page] : draft[f] <= intents
    <3>1. draft \in [Posts[page] -> 0 .. MaxIntent]
      BY <1>2, <1>3
    <3>2. \A f \in Posts[page] : draft[f] = 0 /\ intents = 0
      BY <1>2
    <3> QED BY <3>1, <3>2
  <2>2. stored \in [Intent -> Nat]
    BY <1>2
  <2> QED BY <1>1, <1>2, <1>3, <2>1, <2>2 DEF WebShape
<1>5. FormsLock /\ IntentsKeepTheirForm /\ RequestsAreAlone
  BY <1>2 DEF FormsLock, IntentsKeepTheirForm, RequestsAreAlone, Waiting
<1>6. EditsHoldValues
  BY <1>1, <1>2 DEF EditsHoldValues, Closed
<1>7. PostsPromiseNothing /\ SavesAreFaithful
  BY <1>2 DEF PostsPromiseNothing, SavesAreFaithful
<1> QED BY <1>4, <1>5, <1>6, <1>7 DEF IInv

LEMMA NextKeeps == IInv /\ [WebNext]_webVars => IInv'
<1> SUFFICES ASSUME IInv, [WebNext]_webVars PROVE IInv'
  OBVIOUS
<1>1. ASSUME concern = "post", PostStep PROVE IInv'
  BY <1>1, FillKeeps, SubmitKeeps, StoreKeeps, PostedKeeps, RefusedPostKeeps, LosePostKeeps
     DEF PostStep
<1>2. ASSUME concern # "post", EditStep PROVE IInv'
  BY <1>2, EditingKeeps, SaveEditKeeps, StoreEditKeeps, SavedKeeps, RefusedEditKeeps,
     LoseEditKeeps DEF EditStep
<1>3. ASSUME UNCHANGED webVars PROVE IInv'
  <2>1. /\ UNCHANGED <<page, concern, busy, sent, draft, intents, stored, unlocked, lost>>
        /\ UNCHANGED <<field, row, seen, form, promise>>
    BY <1>3 DEF webVars, postVars, editVars
  <2>2. Requests' = Requests /\ Values' = Values /\ Excused' = Excused
        /\ Waiting(sent)' = Waiting(sent)
    BY <2>1 DEF Requests, Values, Excused, Waiting
  <2>3. WebShape' /\ FormsLock'
    BY <2>1, <2>2 DEF IInv, WebShape, FormsLock
  <2>4. IntentsKeepTheirForm' /\ RequestsAreAlone'
    BY <2>1, <2>2 DEF IInv, IntentsKeepTheirForm, RequestsAreAlone
  <2>5. EditsHoldValues' /\ PostsPromiseNothing' /\ SavesAreFaithful'
    BY <2>1, <2>2 DEF IInv, EditsHoldValues, PostsPromiseNothing, SavesAreFaithful
  <2> QED BY <2>3, <2>4, <2>5 DEF IInv
<1> QED BY <1>1, <1>2, <1>3 DEF WebNext

LEMMA Inductive == WebSpec => []IInv
<1> QED BY InitHolds, NextKeeps, PTL DEF WebSpec

-----------------------------------------------------------------------------
(* The theorems.                                                           *)

\* The pages of components/ keep the shape of their state, whatever they wait
\* for and whatever answers are lost.
THEOREM FormsKeepShape == WebSpec => []WebTypeOK
<1>1. IInv => WebTypeOK
  <2> SUFFICES ASSUME IInv PROVE WebTypeOK
    OBVIOUS
  <2>1. \A f \in DOMAIN draft : draft[f] \in 0 .. intents
    <3>1. /\ intents \in 0 .. MaxIntent /\ draft \in [Posts[page] -> 0 .. MaxIntent]
          /\ \A f \in Posts[page] : draft[f] \in 0 .. MaxIntent /\ draft[f] <= intents
      BY DEF IInv, WebShape
    <3> QED BY <3>1, WebAssumption
  <2>2. concern = "edit" => row \in Values /\ seen \in Values
    BY DEF IInv, EditsHoldValues
  <2> QED BY <2>1, <2>2 DEF IInv, WebShape, WebTypeOK
<1> QED BY <1>1, Inductive, PTL

\* A form that posts is locked until its request is answered and empty after it:
\* one intent makes one row, except where an answer was lost, or on the household
\* page (HouseholdManager.tsx), which locks the form named by its busy flag alone
\* and leaves the form of an invitation filled.
THEOREM IntentsMakeOneRow == WebSpec => []OneRowPerIntent
<1>1. IInv => OneRowPerIntent
  <2> SUFFICES ASSUME IInv, NEW i \in Intent, stored[i] > 1
               PROVE  i \in lost \/ (i \in unlocked /\ page \in LocksOneForm)
    BY DEF OneRowPerIntent
  <2>1. stored[i] \in Nat /\ stored[i] # 0 /\ stored[i] # 1
    <3>1. stored[i] \in Nat
      BY DEF IInv, WebShape
    <3> QED BY <3>1
  <2>2. concern = "post"
    BY <2>1 DEF IInv, EditsHoldValues
  <2>3. i \in Excused
    BY <2>1, <2>2 DEF IInv, RequestsAreAlone
  <2> QED BY <2>3 DEF IInv, FormsLock, Excused
<1> QED BY <1>1, Inductive, PTL

\* saveEdit sends every field the server's schema takes: what the form showed
\* is stored, but for an optional field that was emptied.
THEOREM SavesKeepTheirPromise == WebSpec => []SavesAreFaithful
<1>1. IInv => SavesAreFaithful
  BY DEF IInv
<1> QED BY <1>1, Inductive, PTL
=============================================================================
