---------------------------- MODULE LedgerProofs ----------------------------
(***************************************************************************)
(* Proofs of what billing promises to the books, for any messages, rows    *)
(* and faults: nothing is stored or billed more often than faults allow,   *)
(* and Consumption implements BillingLedger.                               *)
(*                                                                         *)
(* The argument is a budget.  A row that may still be billed has not used  *)
(* the one invoice it is due: it is on as many invoices as there were      *)
(* faults, at most.  So is an order that may still be stored, and a        *)
(* request whose invoice may still come into the registry.                 *)
(***************************************************************************)
EXTENDS ConsumptionProofs, FiniteSetTheorems

Times(n)    == Cardinality(InvoicesOf(n))
StoredAs(o) == {n \in Row : saved[n] = o}

Before  == {"account", "mapping", "invoice"}
Between == {"register", "pay", "clear"}

\* Where a pending row is on more invoices than there were faults, its handler is about to
\* clear it; what is about to be billed is pending.
Budgeted ==
  /\ \A n \in pending : Times(n) <= faults \/ (pc \in Between /\ n \in job.rows)
  /\ pc \in Before => job.rows \subseteq pending

\* An order about to be stored, now or when it comes again, has its rows from faults only.
Stored ==
  \A o \in Order : o \in inbox \ taken \/ (cur = o /\ pc = "save") =>
    Cardinality(StoredAs(o)) <= RowsOf[o] * faults

Candidates(q) == Cardinality(get_invoice_id_by_correlation_id(q))

\* A request whose invoice is yet to be registered, now or when it comes again, has its
\* candidates from faults only.
ToRegister(q) == \/ q \in inbox \ taken
                 \/ cur = q /\ pc \in {"meta", "account", "mapping", "invoice", "register"}

Resolving == \A q \in Request : /\ Candidates(q) <= 1 + faults
                                /\ ToRegister(q) => Candidates(q) <= faults

-----------------------------------------------------------------------------
(* Faults, and the invoices that carry a row *)

LEMMA FaultsCount ==
  ASSUME TypeOK, [Next]_vars
  PROVE  /\ faults \in Nat /\ faults' \in Nat
         /\ faults' = faults \/ faults' = faults + 1
         /\ Fail \/ Retry \/ Escape \/ Crash => faults' = faults + 1
<1> USE BoundAssumption DEF vars, delivery, database, billing, outcome
<1>1. faults \in Nat
  BY DEF TypeOK
<1>2. faults' = faults \/ faults' = faults + 1
  BY DEF Next, HandlerStep, Take, DropDuplicate, basic_ack, send_to_dlq, Escape, Crash, Fault,
     Fail, Retry, Continue, UseClient, save_items,
     get_items_by_correlation_id, save_invoice_correlation, mark_invoice_as_paid,
     get_pending_company_ids, EventEnds, get_items_for_company, _get_or_create_billing_client,
     save_company_client_id, _create_invoice, ClientNotFound, clear_by_ids, Announce, RemoveClient
<1>3. QED
  BY <1>1, <1>2 DEF Fail, Retry, Escape, Crash, Fault

LEMMA TimesType ==
  ASSUME TypeOK, NEW n
  PROVE  IsFiniteSet(InvoicesOf(n)) /\ Times(n) \in Nat
<1>1. Len(invoices) \in Nat /\ InvoicesOf(n) \subseteq 1..Len(invoices)
  BY LenProperties DEF TypeOK, InvoicesOf
<1>2. IsFiniteSet(1..Len(invoices))
  BY <1>1, FS_Interval
<1>3. IsFiniteSet(InvoicesOf(n))
  BY <1>1, <1>2, FS_Subset
<1>4. QED
  BY <1>3, FS_CardinalityType DEF Times

\* An invoice is added or paid in FossBilling, or none is touched.
LEMMA InvoiceWriters ==
  ASSUME [Next]_vars
  PROVE  \/ invoices' = invoices
         \/ mark_invoice_as_paid /\ invoices' = [invoices EXCEPT ![job.invoice].paid = TRUE]
         \/ /\ _create_invoice
            /\ invoices' = Append(invoices,
                 [client |-> job.client, rows |-> job.rows, company |-> job.company,
                  paid |-> FALSE, for |-> cur])
BY DEF vars, delivery, database, billing, outcome, Next, HandlerStep, Take, DropDuplicate,
   basic_ack, send_to_dlq, Escape, Crash, save_items,
   get_items_by_correlation_id, save_invoice_correlation, mark_invoice_as_paid,
   get_pending_company_ids, EventEnds, get_items_for_company, _get_or_create_billing_client,
   save_company_client_id, _create_invoice, ClientNotFound, clear_by_ids, Announce, RemoveClient

\* An invoice adds one to the rows it carries; nothing else changes on how many a row is.
LEMMA TimesStep ==
  ASSUME TypeOK, InHand, [Next]_vars
  PROVE  \/ \A n : Times(n)' = Times(n)
         \/ /\ _create_invoice /\ pc = "invoice"
            /\ \A n : Times(n)' = IF n \in job.rows THEN Times(n) + 1 ELSE Times(n)
<1>1. CASE invoices' = invoices
  BY <1>1 DEF Times, InvoicesOf
<1>2. CASE mark_invoice_as_paid /\ invoices' = [invoices EXCEPT ![job.invoice].paid = TRUE]
  <2>1. job.invoice \in DOMAIN invoices
    BY <1>2 DEF mark_invoice_as_paid, InHand, InvoiceSteps
  <2>2. DOMAIN invoices' = DOMAIN invoices /\ \A i \in DOMAIN invoices : invoices'[i].rows = invoices[i].rows
    BY <1>2, <2>1, PaidInvoice
  <2>3. \A n : InvoicesOf(n)' = InvoicesOf(n)
    BY <2>2 DEF InvoicesOf
  <2>4. QED
    BY <2>3 DEF Times
<1>3. CASE _create_invoice /\ invoices' = Append(invoices,
             [client |-> job.client, rows |-> job.rows, company |-> job.company,
              paid |-> FALSE, for |-> cur])
  <2> DEFINE k == Len(invoices) + 1
  <2>1. pc = "invoice"
    BY <1>3 DEF _create_invoice
  <2>2. /\ DOMAIN invoices' = DOMAIN invoices \cup {k} /\ k \notin DOMAIN invoices
        /\ \A i \in DOMAIN invoices : invoices'[i] = invoices[i]
        /\ invoices'[k].rows = job.rows
    BY <1>3, <2>1, NewInvoice
  <2> HIDE DEF k
  <2>3. ASSUME NEW n
        PROVE  Times(n)' = IF n \in job.rows THEN Times(n) + 1 ELSE Times(n)
    <3>1. InvoicesOf(n)' = IF n \in job.rows THEN InvoicesOf(n) \cup {k} ELSE InvoicesOf(n)
      BY <2>2 DEF InvoicesOf
    <3>2. k \notin InvoicesOf(n) /\ IsFiniteSet(InvoicesOf(n))
      BY <2>2, TimesType DEF InvoicesOf
    <3>3. Cardinality(InvoicesOf(n) \cup {k}) = Cardinality(InvoicesOf(n)) + 1
      BY <3>2, FS_AddElement
    <3>4. QED
      BY <3>1, <3>3 DEF Times
  <2>4. QED
    BY <1>3, <2>1, <2>3
<1>4. QED
  BY <1>1, <1>2, <1>3, InvoiceWriters

\* A row that is not stored yet is on no invoice.
LEMMA NewRowsUnbilled ==
  ASSUME TypeOK, InHand, [Next]_vars, NEW n, n \notin Row
  PROVE  Times(n) = 0 /\ Times(n)' = 0
<1>1. \A i \in DOMAIN invoices : invoices[i] \in Invoice
  BY LenProperties DEF TypeOK
<1>2. InvoicesOf(n) = {}
  BY <1>1 DEF InvoicesOf, Invoice
<1>3. Times(n) = 0
  BY <1>2, FS_EmptySet DEF Times
<1>4. n \notin job.rows
  BY DEF TypeOK, Job
<1>5. QED
  BY <1>3, <1>4, TimesStep

-----------------------------------------------------------------------------
(* The budget of a row *)

LEMMA BudgetStep ==
  ASSUME Inv, Budgeted, OverbillingNeedsFaults, [Next]_vars
  PROVE  Budgeted' /\ OverbillingNeedsFaults'
<1> USE DEF vars, delivery, database, billing, outcome, Before, Between
<1>1. /\ TypeOK /\ InHand /\ job \in Job /\ Row \subseteq Row' /\ pending \subseteq Row
      /\ \A n : Times(n) \in Nat
      /\ pc = "announce" => job.rows \cap pending = {}
  BY GrowStep, TimesType DEF Inv, TypeOK, Growing, Registered
<1>2. faults \in Nat /\ (faults' = faults \/ faults' = faults + 1)
  BY <1>1, FaultsCount
<1>3. \A n \in pending' : n \in pending \/ n \notin Row
  <2>1. save_items => pending' = pending \/ Inserted
    BY DEF save_items, Inserted
  <2>2. Inserted => \A n \in pending' : n \in pending \/ n \notin Row
    BY <1>1, LenProperties DEF Inserted, TypeOK, Row
  <2>3. ~save_items => pending' \subseteq pending
    BY DEF Next, HandlerStep, Take, DropDuplicate, basic_ack, send_to_dlq, Escape, Crash,
     get_items_by_correlation_id, save_invoice_correlation, mark_invoice_as_paid,
     get_pending_company_ids, EventEnds, get_items_for_company, _get_or_create_billing_client,
     save_company_client_id, _create_invoice, ClientNotFound, clear_by_ids, Announce, RemoveClient
  <2>4. QED
    BY <2>1, <2>2, <2>3
<1>4. \A n \in Row' \ Row : Times(n)' = 0
  BY <1>1, NewRowsUnbilled
<1>5. pc' \in Before => job'.rows \subseteq pending'
  <2>1. CASE HandlerStep
    <3>1. NextAttempt \/ Fail => job'.rows = job.rows
      BY <1>1, NextAttemptSame, FailSame DEF Same
    <3>2. CASE get_items_by_correlation_id
      BY <1>1, <3>1, <3>2 DEF get_items_by_correlation_id, RowsOfCompany, Continue, Fail, Job
    <3>3. CASE \E c \in Company : get_items_for_company(c)
      <4>1. PICK c \in Company : get_items_for_company(c)
        BY <3>3
      <4>2. [job EXCEPT !.todo = @ \ {c}, !.company = c, !.attempt = 1,
                        !.rows = RowsOfCompany(c)].rows = RowsOfCompany(c)
        BY <1>1 DEF Job
      <4>3. pc' = "account" => job'.rows = RowsOfCompany(c) /\ pending' = pending
        BY <4>1, <4>2 DEF get_items_for_company
      <4>4. pc' \in Before => pc' = "account"
        BY <4>1 DEF get_items_for_company
      <4>5. QED
        BY <4>3, <4>4 DEF RowsOfCompany
    <3>4. CASE _get_or_create_billing_client
      BY <1>1, <3>1, <3>4 DEF _get_or_create_billing_client, UseClient, Retry, Budgeted, Job
    <3>5. CASE save_company_client_id \/ ClientNotFound
      BY <3>1, <3>5 DEF save_company_client_id, ClientNotFound, Continue, Retry, Budgeted
    <3>6. CASE _create_invoice
      BY <3>1, <3>6 DEF _create_invoice, Retry, Budgeted
    <3>7. CASE save_items \/ save_invoice_correlation \/ mark_invoice_as_paid
               \/ get_pending_company_ids \/ EventEnds \/ clear_by_ids \/ Announce
               \/ basic_ack \/ send_to_dlq
      BY <3>7 DEF save_items, save_invoice_correlation, mark_invoice_as_paid,
         get_pending_company_ids, EventEnds, clear_by_ids, Announce, basic_ack, send_to_dlq,
         Continue, Fail, Idle
    <3>8. QED
      BY <2>1, <3>2, <3>3, <3>4, <3>5, <3>6, <3>7 DEF HandlerStep
  <2>2. CASE ~HandlerStep
    BY <2>2 DEF Next, Take, First, DropDuplicate, D!Discard, Escape, Crash, Idle, RemoveClient, Budgeted
  <2>3. QED
    BY <2>1, <2>2
<1>6. CASE _create_invoice /\ pc = "invoice"
           /\ \A n : Times(n)' = IF n \in job.rows THEN Times(n) + 1 ELSE Times(n)
  <2>1. job.rows \subseteq pending /\ pending' = pending /\ Row' = Row
    BY <1>6 DEF _create_invoice, Budgeted, Row
  <2>2. /\ pc' \in Between /\ job'.rows = job.rows
        \/ faults' = faults + 1
    BY <1>1, <1>6, FaultsCount DEF _create_invoice, Job
  <2>3. \A n \in pending : Times(n) <= faults
    BY <1>6 DEF Budgeted
  <2>4. \A n \in pending : Times(n)' <= faults' \/ (pc' \in Between /\ n \in job'.rows)
    BY <1>1, <1>2, <1>6, <2>2, <2>3
  <2>5. \A n \in Row : Times(n)' <= 1 + faults'
    BY <1>1, <1>2, <1>6, <2>1, <2>3 DEF OverbillingNeedsFaults, Times
  <2>6. QED
    BY <1>5, <2>1, <2>4, <2>5 DEF Budgeted, OverbillingNeedsFaults, Times
<1>7. CASE \A n : Times(n)' = Times(n)
  <2>1. pc \in Between => \/ faults' = faults + 1
                          \/ pc' \in Between /\ job' = job
                          \/ pending' = pending \ job.rows
    <3>1. CASE HandlerStep
      BY <1>1, <3>1, FaultsCount DEF HandlerStep, save_items, get_items_by_correlation_id,
         save_invoice_correlation, mark_invoice_as_paid, get_pending_company_ids, EventEnds,
         get_items_for_company, _get_or_create_billing_client, save_company_client_id,
         _create_invoice, ClientNotFound, clear_by_ids, Announce, basic_ack, send_to_dlq, Continue
    <3>2. CASE ~HandlerStep
      BY <1>1, <3>2, FaultsCount DEF Next, Take, D!Take, DropDuplicate, RemoveClient, Fault, InHand
    <3>3. QED
      BY <3>1, <3>2
  <2>2. \A n \in pending' : Times(n)' <= faults' \/ (pc' \in Between /\ n \in job'.rows)
    <3>1. \A n \in pending' \ Row : Times(n)' <= faults'
      BY <1>1, <1>2, <1>7, NewRowsUnbilled
    <3>2. \A n \in pending : Times(n) <= 1 + faults
      BY <1>1 DEF OverbillingNeedsFaults, Times
    <3>3. \A n \in pending : n \in pending' =>
             Times(n)' <= faults' \/ (pc' \in Between /\ n \in job'.rows)
      BY <1>1, <1>2, <1>7, <2>1, <3>2 DEF Budgeted
    <3>4. QED
      BY <1>3, <3>1, <3>3
  <2>3. \A n \in Row' : Times(n)' <= 1 + faults'
    BY <1>1, <1>2, <1>4, <1>7 DEF OverbillingNeedsFaults, Times
  <2>4. QED
    BY <1>5, <2>2, <2>3 DEF Budgeted, OverbillingNeedsFaults, Times
<1>8. QED
  BY <1>1, <1>6, <1>7, TimesStep

-----------------------------------------------------------------------------
(* The budget of an order *)

LEMMA Budgets ==
  ASSUME NEW r \in Nat, NEW f \in Nat
  PROVE  /\ r * f \in Nat /\ r * (1 + f) = r * f + r
         /\ r * f <= r * (1 + f)
         /\ r * (f + 1) = r * (1 + f)
         /\ r * (1 + f) <= r * (1 + (f + 1))
OBVIOUS

LEMMA StoredType ==
  ASSUME TypeOK, NEW o
  PROVE  IsFiniteSet(StoredAs(o)) /\ Cardinality(StoredAs(o)) \in Nat
<1>1. IsFiniteSet(Row)
  BY LenProperties, FS_Interval DEF TypeOK, Row
<1>2. QED
  BY <1>1, FS_Subset, FS_CardinalityType DEF StoredAs

\* save_items adds RowsOf[cur] rows of the order in hand.
LEMMA StoredMore ==
  ASSUME TypeOK, cur \in Order, Inserted, NEW o \in Order
  PROVE  Cardinality(StoredAs(o))' =
           IF o = cur THEN Cardinality(StoredAs(o)) + RowsOf[cur] ELSE Cardinality(StoredAs(o))
<1> DEFINE L   == Len(saved)
           R   == RowsOf[cur]
           new == (L + 1)..(L + R)
<1>1. R \in Nat /\ L \in Nat
  BY ContentAssumption, LenProperties DEF TypeOK
<1>2. /\ Row = 1..L /\ Row' = 1..(L + R)
      /\ \A n \in 1..L : saved'[n] = saved[n]
      /\ \A n \in new : saved'[n] = cur
  <2> DEFINE rows == [k \in 1..R |-> cur]
  <2>1. saved \in Seq(Order) /\ rows \in Seq(Order) /\ Len(rows) = R
    BY <1>1 DEF TypeOK
  <2>2. \A k \in 1..R : rows[k] = cur
    OBVIOUS
  <2>3. saved' = saved \o rows
    BY DEF Inserted
  <2> HIDE DEF rows
  <2>4. /\ Len(saved \o rows) = L + R
        /\ \A n \in 1..L + R : (saved \o rows)[n] = IF n <= L THEN saved[n] ELSE rows[n - L]
    BY <2>1, ConcatProperties
  <2>5. \A n \in new : n \in 1..L + R /\ ~(n <= L) /\ n - L \in 1..R
    BY <1>1
  <2>6. \A n \in 1..L : n \in 1..L + R /\ n <= L
    BY <1>1
  <2>7. QED
    BY <2>2, <2>3, <2>4, <2>5, <2>6 DEF Row
<1>3. 1..(L + R) = 1..L \cup new /\ 1..L \cap new = {}
  BY <1>1
<1>4. IsFiniteSet(new) /\ Cardinality(new) = R
  <2>1. L + 1 \in Int /\ L + R \in Int /\ R # 0 /\ (L + R) - (L + 1) + 1 = R /\ ~(L + 1 > L + R)
    BY <1>1, ContentAssumption
  <2> HIDE DEF R, L
  <2>2. QED
    BY ONLY <2>1, FS_Interval
<1> HIDE DEF new, R, L
<1>5. StoredAs(o)' = IF o = cur THEN StoredAs(o) \cup new ELSE StoredAs(o)
  BY <1>2, <1>3 DEF StoredAs
<1>6. StoredAs(o) \cap new = {}
  BY <1>2, <1>3 DEF StoredAs
<1>7. Cardinality(StoredAs(o) \cup new) = Cardinality(StoredAs(o)) + R
  <2>1. Cardinality(StoredAs(o) \cup new)
          = Cardinality(StoredAs(o)) + R - Cardinality(StoredAs(o) \cap new)
    BY <1>4, StoredType, FS_Union
  <2>2. Cardinality(StoredAs(o) \cap new) = 0 /\ Cardinality(StoredAs(o)) \in Nat
    BY <1>6, StoredType, FS_EmptySet
  <2>3. QED
    BY <1>1, <2>1, <2>2
<1>8. QED
  BY <1>5, <1>7 DEF R

Marked == cur \in taken \cup {NoMessage}

LEMMA StoredStep ==
  ASSUME Inv, Marked, Stored, OverstoringNeedsFaults, [Next]_vars
  PROVE  Marked' /\ Stored' /\ OverstoringNeedsFaults'
<1> USE DEF vars, delivery, database, billing, outcome
<1>1. TypeOK /\ InHand
  BY DEF Inv
<1>2. faults \in Nat /\ (faults' = faults \/ faults' = faults + 1)
  BY <1>1, FaultsCount
<1>3. Marked'
  BY DEF Marked, Self, Next, HandlerStep, Take, D!Take, DropDuplicate, D!Discard, basic_ack,
     send_to_dlq, D!Settle, Escape, D!Return, Crash, D!Restart, save_items,
     get_items_by_correlation_id, save_invoice_correlation, mark_invoice_as_paid,
     get_pending_company_ids, EventEnds, get_items_for_company, _get_or_create_billing_client,
     save_company_client_id, _create_invoice, ClientNotFound, clear_by_ids, Announce, RemoveClient
<1>4. SUFFICES ASSUME NEW o \in Order
               PROVE  /\ o \in inbox' \ taken' \/ (cur' = o /\ pc' = "save") =>
                           Cardinality(StoredAs(o))' <= RowsOf[o] * faults'
                      /\ Cardinality(StoredAs(o))' <= RowsOf[o] * (1 + faults')
  BY <1>3 DEF Stored, OverstoringNeedsFaults, StoredAs
<1> DEFINE r == RowsOf[o]
           c == Cardinality(StoredAs(o))
<1>5. /\ r \in Nat /\ c \in Nat /\ c <= r * (1 + faults)
      /\ o \in inbox \ taken \/ (cur = o /\ pc = "save") => c <= r * faults
  BY <1>1, ContentAssumption, StoredType DEF Stored, OverstoringNeedsFaults, StoredAs
<1>6. /\ r * faults \in Nat /\ r * (1 + faults) = r * faults + r
      /\ r * faults <= r * (1 + faults)
      /\ r * (faults + 1) = r * (1 + faults) /\ r * (1 + faults) <= r * (1 + (faults + 1))
  BY <1>2, <1>5, Budgets
<1>7. CASE save_items /\ Inserted
  <2>1. /\ cur \in Order /\ pc = "save" /\ cur' = cur /\ inbox' = inbox /\ taken' = taken
        /\ pc' # "save" /\ (faults' = faults \/ faults' = faults + 1)
    BY <1>1, <1>2, <1>7 DEF save_items, Continue, Fail, InHand, OrderSteps
  <2>2. Cardinality(StoredAs(o))' = IF o = cur THEN c + r ELSE c
    BY <1>1, <1>7, <2>1, StoredMore
  <2>3. CASE o = cur
    <3>1. c + r <= r * (1 + faults) /\ o \notin inbox' \ taken'
      BY <1>5, <1>6, <2>1, <2>3, KindAssumption DEF Marked, Message
    <3>2. QED
      BY <1>2, <1>5, <1>6, <2>1, <2>2, <2>3, <3>1
  <2>4. CASE o # cur
    BY <1>2, <1>5, <1>6, <2>1, <2>2, <2>4
  <2>5. QED
    BY <2>3, <2>4
<1>8. CASE ~(save_items /\ Inserted)
  <2>1. saved' = saved
    BY <1>8 DEF Inserted, Next, HandlerStep, Take, DropDuplicate, basic_ack,
     send_to_dlq, Escape, Crash, save_items,
     get_items_by_correlation_id, save_invoice_correlation, mark_invoice_as_paid,
     get_pending_company_ids, EventEnds, get_items_for_company, _get_or_create_billing_client,
     save_company_client_id, _create_invoice, ClientNotFound, clear_by_ids, Announce, RemoveClient
  <2>2. Cardinality(StoredAs(o))' = c
    BY <2>1 DEF StoredAs, Row
  <2>3. CASE Escape \/ Crash
    <3>1. faults' = faults + 1
      BY <1>1, <2>3, FaultsCount
    <3>2. QED
      BY <1>5, <1>6, <2>2, <3>1
  <2>4. CASE ~(Escape \/ Crash)
    <3>1. o \in inbox' \ taken' \/ (cur' = o /\ pc' = "save") =>
            o \in inbox \ taken \/ (cur = o /\ pc = "save")
      <4>1. CASE HandlerStep
        BY <1>1, <4>1, KindAssumption DEF HandlerStep, basic_ack, send_to_dlq, D!Settle, save_items,
         get_items_by_correlation_id, save_invoice_correlation, mark_invoice_as_paid,
         get_pending_company_ids, EventEnds, get_items_for_company,
         _get_or_create_billing_client, save_company_client_id, _create_invoice, ClientNotFound,
         clear_by_ids, Announce, Continue, Fail, Retry, NextAttempt, UseClient, Idle
      <4>2. CASE ~HandlerStep
        BY <2>4, <4>2, KindAssumption DEF Next, Self, Take, D!Take, DropDuplicate, D!Discard,
           RemoveClient, Message
      <4>3. QED
        BY <4>1, <4>2
    <3>2. QED
      BY <1>2, <1>5, <1>6, <2>2, <3>1
  <2>5. QED
    BY <2>3, <2>4
<1>9. QED
  BY <1>7, <1>8

-----------------------------------------------------------------------------
(* The budget of a request *)

LEMMA CandidatesType ==
  ASSUME TypeOK, NEW q
  PROVE  /\ IsFiniteSet(get_invoice_id_by_correlation_id(q))
         /\ Candidates(q) \in Nat
<1>1. IsFiniteSet(DOMAIN invoices)
  BY LenProperties, FS_Interval DEF TypeOK
<1>2. QED
  BY <1>1, FS_Subset, FS_CardinalityType DEF get_invoice_id_by_correlation_id, Candidates

\* save_invoice_correlation adds one candidate, for the request in hand.
LEMMA CandidatesStep ==
  ASSUME TypeOK, InHand, [Next]_vars, NEW q \in Request
  PROVE  \/ Candidates(q)' = Candidates(q)
         \/ /\ save_invoice_correlation /\ pc = "register" /\ cur = q
            /\ Candidates(q)' \in {Candidates(q), Candidates(q) + 1}
<1> USE DEF vars, delivery, database, billing, outcome
<1>1. CASE UNCHANGED registry
  <2>1. get_invoice_id_by_correlation_id(q)' = get_invoice_id_by_correlation_id(q)
    BY <1>1, GrowStep DEF get_invoice_id_by_correlation_id, TypeOK, Growing
  <2>2. QED
    BY <2>1 DEF Candidates
<1>2. CASE save_invoice_correlation /\ registry' = registry \cup {<<job.invoice, cur>>}
  <2>1. pc = "register" /\ job.invoice \in DOMAIN invoices /\ invoices' = invoices
    BY <1>2 DEF save_invoice_correlation, InHand, InvoiceSteps
  <2>2. get_invoice_id_by_correlation_id(q)' =
          IF q = cur THEN get_invoice_id_by_correlation_id(q) \cup {job.invoice}
                     ELSE get_invoice_id_by_correlation_id(q)
    BY <1>2, <2>1 DEF get_invoice_id_by_correlation_id
  <2>3. Candidates(q) \in Nat
        /\ Cardinality(get_invoice_id_by_correlation_id(q) \cup {job.invoice})
             \in {Candidates(q), Candidates(q) + 1}
    BY CandidatesType, FS_AddElement DEF Candidates
  <2>4. QED
    BY <1>2, <2>1, <2>2, <2>3 DEF Candidates
<1>3. UNCHANGED registry
      \/ (save_invoice_correlation /\ registry' = registry \cup {<<job.invoice, cur>>})
  BY DEF Next, HandlerStep, Take, DropDuplicate, basic_ack, send_to_dlq, Escape,
     Crash, save_items, get_items_by_correlation_id, save_invoice_correlation,
     mark_invoice_as_paid, get_pending_company_ids, EventEnds, get_items_for_company,
     _get_or_create_billing_client, save_company_client_id, _create_invoice, ClientNotFound,
     clear_by_ids, Announce, RemoveClient
<1>4. QED
  BY <1>1, <1>2, <1>3

LEMMA ResolvingStep ==
  ASSUME Inv, Marked, Resolving, [Next]_vars
  PROVE  Resolving'
<1> USE DEF vars, delivery, database, billing, outcome
<1>1. TypeOK /\ InHand
  BY DEF Inv
<1>2. faults \in Nat /\ (faults' = faults \/ faults' = faults + 1)
  BY <1>1, FaultsCount
<1>3. SUFFICES ASSUME NEW q \in Request
               PROVE  /\ Candidates(q)' <= 1 + faults'
                      /\ ToRegister(q)' => Candidates(q)' <= faults'
  BY DEF Resolving, Candidates, ToRegister
<1>4. /\ Candidates(q) \in Nat /\ Candidates(q) <= 1 + faults
      /\ ToRegister(q) => Candidates(q) <= faults
  BY <1>1, CandidatesType DEF Resolving
<1>5. CASE save_invoice_correlation /\ pc = "register" /\ cur = q
           /\ Candidates(q)' \in {Candidates(q), Candidates(q) + 1}
  <2>1. ToRegister(q)
    BY <1>5 DEF ToRegister
  <2>2. q \in taken /\ taken' = taken /\ pc' \in {"pay", "clear", "reject", "next"}
    BY <1>5, KindAssumption DEF Marked, Message, save_invoice_correlation, Continue, Fail
  <2>3. ~ToRegister(q)'
    BY <2>2 DEF ToRegister
  <2>4. QED
    BY <1>2, <1>4, <1>5, <2>1, <2>3
<1>6. CASE Candidates(q)' = Candidates(q)
  <2>1. CASE Escape \/ Crash
    <3>1. faults' = faults + 1
      BY <1>1, <2>1, FaultsCount
    <3>2. QED
      BY <1>2, <1>4, <1>6, <3>1
  <2>2. CASE ~(Escape \/ Crash)
    <3>1. ToRegister(q)' => ToRegister(q)
      <4>1. CASE HandlerStep
        BY <1>1, <4>1, KindAssumption DEF ToRegister, HandlerStep, basic_ack, send_to_dlq, D!Settle,
         save_items, get_items_by_correlation_id, save_invoice_correlation, mark_invoice_as_paid,
         get_pending_company_ids, EventEnds, get_items_for_company,
         _get_or_create_billing_client, save_company_client_id, _create_invoice, ClientNotFound,
         clear_by_ids, Announce, Continue, Fail, Retry, NextAttempt, UseClient, Idle, InHand,
         OrderSteps, EventSteps
      <4>2. CASE ~HandlerStep
        BY <2>2, <4>2, KindAssumption DEF ToRegister, Next, Self, Take, D!Take, DropDuplicate,
           D!Discard, RemoveClient, Message
      <4>3. QED
        BY <4>1, <4>2
    <3>2. QED
      BY <1>2, <1>4, <1>6, <3>1
  <2>3. QED
    BY <2>1, <2>2
<1>7. QED
  BY <1>1, <1>5, <1>6, CandidatesStep

-----------------------------------------------------------------------------
(* What the books see *)

\* The books of BillingLedger: on how many invoices each row is.
Balance == [n \in Row |-> Cardinality(InvoicesOf(n))]

\* The rows of a new order come to the books unbilled.
LEMMA AccrueStep ==
  ASSUME TypeOK, InHand, [Next]_vars, save_items, cur \in Order, Inserted
  PROVE  Balance' = Balance \o [k \in 1..RowsOf[cur] |-> 0]
<1> DEFINE L    == Len(saved)
           R    == RowsOf[cur]
           zero == [k \in 1..R |-> 0]
<1>1. R \in Nat /\ L \in Nat
  BY ContentAssumption, LenProperties DEF TypeOK
<1>2. Row = 1..L /\ Row' = 1..(L + R)
  <2> DEFINE rows == [k \in 1..R |-> cur]
  <2>1. saved \in Seq(Order) /\ rows \in Seq(Order) /\ Len(rows) = R
    BY <1>1 DEF TypeOK
  <2>2. saved' = saved \o rows
    BY DEF Inserted
  <2> HIDE DEF rows
  <2>3. saved \o rows \in Seq(Order) /\ Len(saved \o rows) = Len(saved) + Len(rows)
    BY ONLY <2>1, ConcatProperties
  <2>4. QED
    BY <2>1, <2>2, <2>3 DEF Row
<1>3. \A n : Times(n)' = Times(n) /\ Times(n) \in Nat
  BY TimesStep, TimesType DEF save_items, _create_invoice
<1>4. \A n : n \notin 1..L => Times(n) = 0
  BY <1>2, NewRowsUnbilled
<1>5. Balance = [n \in 1..L |-> Times(n)]
  BY <1>2 DEF Balance, Times
<1>6. Balance' = [n \in 1..(L + R) |-> Times(n)']
  BY <1>2 DEF Balance, Times
<1>7. Balance \in Seq(Nat) /\ Len(Balance) = L /\ zero \in Seq(Nat) /\ Len(zero) = R
      /\ Balance' \in Seq(Nat) /\ Len(Balance') = L + R
  <2>1. L + R \in Nat
    BY <1>1
  <2>2. \A n : Times(n)' \in Nat
    BY <1>3
  <2>3. Balance \in [1..L -> Nat] /\ zero \in [1..R -> Nat] /\ Balance' \in [1..(L + R) -> Nat]
    BY <1>3, <1>5, <1>6, <2>2
  <2>4. ASSUME NEW k \in Nat, NEW f \in [1..k -> Nat]
        PROVE  f \in Seq(Nat) /\ Len(f) = k
    OBVIOUS
  <2> HIDE DEF zero, L, R
  <2>5. QED
    BY ONLY <1>1, <2>1, <2>3, <2>4
<1>8. \A k \in 1..R : zero[k] = 0
  OBVIOUS
<1> HIDE DEF zero, L, R
<1>9. /\ Balance \o zero \in Seq(Nat) /\ Len(Balance \o zero) = L + R
      /\ \A n \in 1..L + R : (Balance \o zero)[n] = IF n <= L THEN Balance[n] ELSE zero[n - L]
  BY ONLY <1>7, ConcatProperties
<1>10. \A n \in 1..(L + R) : Balance'[n] = (Balance \o zero)[n]
  <2>1. SUFFICES ASSUME NEW n \in 1..(L + R) PROVE Balance'[n] = (Balance \o zero)[n]
    OBVIOUS
  <2>2. CASE n <= L
    <3>1. n \in 1..L
      BY <1>1, <2>2
    <3>2. QED
      BY <1>3, <1>5, <1>6, <1>9, <2>2, <3>1
  <2>3. CASE ~(n <= L)
    <3>1. n \notin 1..L /\ n - L \in 1..R
      BY <1>1, <2>3
    <3>2. QED
      BY <1>3, <1>4, <1>6, <1>8, <1>9, <2>3, <3>1
  <2>4. QED
    BY <2>2, <2>3
<1>11. Balance' = Balance \o zero
  BY ONLY <1>7, <1>9, <1>10, SeqEqual
<1>12. QED
  BY <1>11 DEF zero, R

\* Every other step of the handlers bills some rows, or none.
LEMMA BillStep ==
  ASSUME Inv, Budgeted, [Next]_vars, ~(save_items /\ Inserted)
  PROVE  \E rows \in SUBSET Row :
           /\ \A n \in rows : Balance[n] <= faults
           /\ Balance' = [n \in Row |-> IF n \in rows THEN Balance[n] + 1 ELSE Balance[n]]
<1>1. TypeOK /\ InHand /\ Row' = Row
  BY DEF Inv, Row, Inserted, vars, delivery, database, billing, outcome, Next, HandlerStep, Take,
     DropDuplicate, basic_ack, send_to_dlq, Escape, Crash, save_items,
     get_items_by_correlation_id, save_invoice_correlation, mark_invoice_as_paid,
     get_pending_company_ids, EventEnds, get_items_for_company, _get_or_create_billing_client,
     save_company_client_id, _create_invoice, ClientNotFound, clear_by_ids, Announce, RemoveClient
<1>2. /\ Balance = [n \in Row |-> Times(n)]
      /\ Balance' = [n \in Row |-> Times(n)']
  BY <1>1 DEF Balance, Times
<1>3. CASE \A n : Times(n)' = Times(n)
  <2>1. Balance' = [n \in Row |-> IF n \in {} THEN Balance[n] + 1 ELSE Balance[n]]
    BY <1>2, <1>3
  <2>2. {} \in SUBSET Row /\ \A n \in {} : Balance[n] <= faults
    OBVIOUS
  <2>3. QED
    BY ONLY <2>1, <2>2, Zenon
<1>4. CASE _create_invoice /\ pc = "invoice"
           /\ \A n : Times(n)' = IF n \in job.rows THEN Times(n) + 1 ELSE Times(n)
  <2>1. job.rows \subseteq pending /\ pending \subseteq Row
    BY <1>1, <1>4 DEF Budgeted, Before, TypeOK
  <2>2. \A n \in job.rows : Balance[n] <= faults
    BY <1>2, <1>4, <2>1 DEF Budgeted, Between
  <2>3. Balance' = [n \in Row |-> IF n \in job.rows THEN Balance[n] + 1 ELSE Balance[n]]
    BY <1>2, <1>4
  <2>4. QED
    BY <2>1, <2>2, <2>3
<1>5. QED
  BY <1>1, <1>3, <1>4, TimesStep

LEMMA LedgerStep ==
  ASSUME Inv, Budgeted, [Next]_vars
  PROVE  Ledger!Next
<1>1. /\ TypeOK /\ InHand /\ DOMAIN Balance = Row
      /\ faults' \in {faults, faults + 1}
  BY FaultsCount DEF Inv, Balance
<1>2. CASE save_items /\ Inserted
  <2>1. cur \in Order
    BY <1>1, <1>2 DEF save_items, InHand, OrderSteps
  <2>2. Balance' = Balance \o [k \in 1..RowsOf[cur] |-> 0]
    BY <1>1, <1>2, <2>1, AccrueStep
  <2>3. \E k \in {RowsOf[o] : o \in Order} : Balance' = Balance \o [j \in 1..k |-> 0]
    BY <2>1, <2>2
  <2>4. QED
    BY <1>1, <2>3 DEF Ledger!Next, Ledger!Accrue, Balance
<1>3. CASE ~(save_items /\ Inserted)
  BY <1>1, <1>3, BillStep DEF Ledger!Next, Ledger!Bill, Ledger!Consumed, Balance
<1>4. QED
  BY <1>2, <1>3

-----------------------------------------------------------------------------
LEMMA LedgerInit == Init => Ledger!Init /\ Budgeted /\ OverbillingNeedsFaults
                            /\ Marked /\ Stored /\ OverstoringNeedsFaults /\ Resolving
<1> SUFFICES ASSUME Init
             PROVE  Ledger!Init /\ Budgeted /\ OverbillingNeedsFaults
                    /\ Marked /\ Stored /\ OverstoringNeedsFaults /\ Resolving
  OBVIOUS
<1>1. Row = {} /\ pending = {} /\ pc = "idle" /\ faults = 0 /\ cur = NoMessage
  BY DEF Init, Row
<1>2. \A o \in Order : StoredAs(o) = {} /\ Cardinality(StoredAs(o)) = 0
  BY <1>1, FS_EmptySet DEF StoredAs
<1>3. [n \in Row |-> Cardinality(InvoicesOf(n))] = <<>>
  BY <1>1
<1>4. \A o \in Order : RowsOf[o] * faults = 0 /\ RowsOf[o] * (1 + faults) \in Nat
  BY <1>1, ContentAssumption
<1>5. Stored /\ OverstoringNeedsFaults
  BY <1>2, <1>4 DEF Stored, OverstoringNeedsFaults, StoredAs
<1>6. Resolving
  <2>1. \A q \in Request : get_invoice_id_by_correlation_id(q) = {}
    BY DEF Init, get_invoice_id_by_correlation_id
  <2>2. QED
    BY <1>1, <2>1, FS_EmptySet DEF Resolving, Candidates
<1>7. QED
  BY <1>1, <1>3, <1>5, <1>6 DEF Ledger!Init, Budgeted, OverbillingNeedsFaults, Marked, Before, Between

LEMMA BudgetsHold ==
  Spec => [](/\ Inv /\ Budgeted /\ OverbillingNeedsFaults
             /\ Marked /\ Stored /\ OverstoringNeedsFaults /\ Resolving)
<1> DEFINE Whole == /\ Inv /\ Budgeted /\ OverbillingNeedsFaults
                    /\ Marked /\ Stored /\ OverstoringNeedsFaults /\ Resolving
<1>1. Init => Whole
  BY InitInv, LedgerInit
<1>2. Inv /\ [Next]_vars => Inv'
  BY TypeStep, RowsStep, RegisteredStep, RequestStep, EventStep, MappedStep, OwnStep DEF Inv
<1>3. Whole /\ [Next]_vars => Whole'
  BY <1>2, BudgetStep, StoredStep, ResolvingStep
<1> HIDE DEF Whole
<1>4. Spec => []Whole
  BY <1>1, <1>3, PTL DEF Spec
<1>5. QED
  BY <1>4 DEF Whole

\* A consumption is on one invoice, and on one more at most for each fault, whatever retries,
\* redeliveries and second triggers repeat.
THEOREM OverbillingIsPaidFor == Spec => []OverbillingNeedsFaults
BY BudgetsHold, PTL

\* An order is stored once, and once more at most for each fault.
THEOREM OverstoringIsPaidFor == Spec => []OverstoringNeedsFaults
BY BudgetsHold, PTL

\* A payment that quotes a request resolves to the invoice the CRM was told of, or to another
\* invoice of that request; and without a fault there is no other one.
THEOREM ToldAreResolved == Spec => []ToldResolves
<1>1. Inv /\ Resolving => ToldResolves
  BY DEF Inv, TypeOK, ToldRegistered, RegistryOwn, Resolving, Candidates, ToldResolves,
     get_invoice_id_by_correlation_id
<1>2. QED
  BY <1>1, BudgetsHold, PTL

\* Seen from the books, the handlers, two databases, retries and restarts only ever store the
\* rows of an order or bill rows that are due.
THEOREM ConsumptionImplementsLedger == Spec => ImplementsLedger
<1>1. Inv /\ Budgeted /\ [Next]_vars => Ledger!Next
  BY LedgerStep
<1>2. Init => Ledger!Init
  BY LedgerInit
<1>3. QED
  BY <1>1, <1>2, BudgetsHold, PTL DEF Spec, ImplementsLedger, Ledger!Spec
=============================================================================
