-------------------------- MODULE ConsumptionProofs --------------------------
(***************************************************************************)
(* Proofs about the billing of consumptions, for any messages, companies,  *)
(* number of rows, attempts and faults.                                    *)
(*                                                                         *)
(* The handlers keep what they read in local variables and write two       *)
(* databases call by call.  The invariants say what the local variables    *)
(* still mean when the next call comes: which row ids the invoice carries  *)
(* that is about to be cleared (Carried), whose mapping an invoice is made *)
(* with (Mapped), whose rows it is about (Own), what event_ended has yet   *)
(* to do (Remaining).  StepsLeft bounds what a handler can still do.       *)
(***************************************************************************)
EXTENDS Consumption, SequenceTheorems, FiniteSetTheorems, TLAPS

OrderSteps   == {"save"}
RequestSteps == {"meta", "register", "pay"}
EventSteps   == {"list", "next"}
BillingSteps == {"account", "mapping", "invoice", "clear", "announce"}
InvoiceSteps == {"register", "pay", "clear", "announce"}

\* Which message a handler has, and what its local variables refer to.
InHand ==
  /\ pc = "idle" <=> cur = NoMessage
  /\ pc \in OrderSteps => cur \in Order
  /\ pc \in RequestSteps => cur \in Request
  /\ pc \in EventSteps => cur \in Event
  /\ pc \in BillingSteps => cur \in Request \cup Event
  /\ pc \in BillingSteps \cup {"register", "pay"} => job.company \in Company
  /\ pc \in {"mapping", "invoice"} => job.client \in Client
  /\ pc \in InvoiceSteps => job.invoice \in DOMAIN invoices

-----------------------------------------------------------------------------
(* Types *)

\* Local variables keep their types when the databases grow.
LEMMA JobGrows ==
  ASSUME TypeOK,
         saved' \in Seq(Order), Len(saved) <= Len(saved'),
         clients' \in Seq(Address), Len(clients) <= Len(clients'),
         invoices' \in Seq(Invoice'), Len(invoices) <= Len(invoices')
  PROVE  /\ Row \subseteq Row' /\ Client \subseteq Client'
         /\ DOMAIN invoices \subseteq DOMAIN invoices'
         /\ Job \subseteq Job'
<1>1. Len(saved) \in Nat /\ Len(saved') \in Nat /\ Len(clients) \in Nat /\ Len(clients') \in Nat
  BY LenProperties DEF TypeOK
<1>2. Len(invoices) \in Nat /\ Len(invoices') \in Nat
      /\ DOMAIN invoices = 1..Len(invoices) /\ DOMAIN invoices' = 1..Len(invoices')
  BY LenProperties DEF TypeOK
<1>3. Row \subseteq Row' /\ Client \subseteq Client' /\ DOMAIN invoices \subseteq DOMAIN invoices'
  BY <1>1, <1>2 DEF Row, Client
<1>4. 0..Len(invoices) \subseteq 0..Len(invoices')
  BY <1>2
<1>5. QED
  BY <1>3, <1>4 DEF Job

\* An invoice is added or paid.
LEMMA InvoicesGrow ==
  ASSUME TypeOK, Row \subseteq Row', Client \subseteq Client'
  PROVE  /\ invoices \in Seq(Invoice')
         /\ \A i \in Invoice' : /\ Append(invoices, i) \in Seq(Invoice')
                                /\ Len(Append(invoices, i)) = Len(invoices) + 1
         /\ \A n \in DOMAIN invoices :
              LET paid == [invoices EXCEPT ![n].paid = TRUE]
              IN  paid \in Seq(Invoice') /\ Len(paid) = Len(invoices)
<1>1. Invoice \subseteq Invoice'
  BY DEF Invoice
<1>2. invoices \in Seq(Invoice')
  BY <1>1, LenProperties, SeqDef DEF TypeOK
<1>3. ASSUME NEW n \in DOMAIN invoices
      PROVE  LET paid == [invoices EXCEPT ![n].paid = TRUE]
             IN  paid \in Seq(Invoice') /\ Len(paid) = Len(invoices)
  <2>1. n \in 1..Len(invoices) /\ invoices[n] \in Invoice'
    BY <1>2
  <2>2. [invoices[n] EXCEPT !.paid = TRUE] \in Invoice'
    BY <2>1 DEF Invoice
  <2>3. QED
    BY <1>2, <2>1, <2>2, ExceptSeq
<1>4. QED
  BY <1>2, <1>3, AppendProperties

\* A step that adds no row, client or invoice.
LEMMA SameStores ==
  ASSUME UNCHANGED <<saved, clients, invoices>>
  PROVE  Row' = Row /\ Client' = Client /\ Invoice' = Invoice /\ Job' = Job
BY DEF Row, Client, Invoice, Job

\* What the assignments to local variables leave of them.
LEMMA JobUpdates ==
  ASSUME NEW j \in Job
  PROVE  /\ [j EXCEPT !.errors = TRUE] \in Job
         /\ \A n \in 1..MAX_RETRIES : [j EXCEPT !.attempt = n] \in Job
         /\ \A c \in Company, r \in SUBSET Row :
              /\ [j EXCEPT !.company = c, !.rows = r] \in Job
              /\ [j EXCEPT !.todo = @ \ {c}, !.errors = TRUE] \in Job
              /\ [j EXCEPT !.todo = @ \ {c}, !.company = c, !.attempt = 1, !.rows = r] \in Job
         /\ \A t \in SUBSET Company, l \in SUBSET Row :
              [j EXCEPT !.todo = t, !.listed = l] \in Job
<1> USE BoundAssumption
<1>1. [j EXCEPT !.errors = TRUE] \in Job
  BY DEF Job
<1>2. \A n \in 1..MAX_RETRIES : [j EXCEPT !.attempt = n] \in Job
  BY DEF Job
<1>3. \A c \in Company, r \in SUBSET Row : [j EXCEPT !.company = c, !.rows = r] \in Job
  BY DEF Job
<1>4. \A c \in Company : [j EXCEPT !.todo = @ \ {c}, !.errors = TRUE] \in Job
  BY DEF Job
<1>5. \A c \in Company, r \in SUBSET Row :
        [j EXCEPT !.todo = @ \ {c}, !.company = c, !.attempt = 1, !.rows = r] \in Job
  <2> SUFFICES ASSUME NEW c \in Company, NEW r \in SUBSET Row
               PROVE  [j EXCEPT !.todo = @ \ {c}, !.company = c, !.attempt = 1, !.rows = r] \in Job
    OBVIOUS
  <2>1. \A t \in SUBSET Company : [j EXCEPT !.todo = t] \in Job
    BY DEF Job
  <2>2. j.todo \ {c} \in SUBSET Company
    BY DEF Job
  <2>3. \A k \in Job : [k EXCEPT !.company = c] \in Job /\ [k EXCEPT !.rows = r] \in Job
                       /\ [k EXCEPT !.attempt = 1] \in Job
    BY DEF Job
  <2>4. [[j EXCEPT !.todo = @ \ {c}] EXCEPT !.company = c, !.attempt = 1, !.rows = r] \in Job
    BY <2>1, <2>2, <2>3
  <2>5. QED
    BY <2>4
<1>6. \A t \in SUBSET Company, l \in SUBSET Row : [j EXCEPT !.todo = t, !.listed = l] \in Job
  BY DEF Job
<1>7. QED
  BY <1>1, <1>2, <1>3, <1>4, <1>5, <1>6

\* Neither another attempt nor a failure changes what the handler works on.
Same == /\ job' \in Job
        /\ job'.todo = job.todo /\ job'.listed = job.listed /\ job'.company = job.company
        /\ job'.rows = job.rows /\ job'.client = job.client /\ job'.invoice = job.invoice

LEMMA FailSame ==
  ASSUME job \in Job, Fail
  PROVE  /\ Same
         /\ IF cur \in Event THEN pc' = "next" /\ job'.errors ELSE pc' = "reject"
<1>1. CASE cur \in Event
  <2>1. pc' = "next" /\ job' = [job EXCEPT !.errors = TRUE]
    BY <1>1 DEF Fail
  <2>2. job' \in Job
    BY <2>1, JobUpdates
  <2>3. QED
    BY <1>1, <2>1, <2>2 DEF Job, Same
<1>2. CASE cur \notin Event
  BY <1>2 DEF Fail, Same
<1>3. QED
  BY <1>1, <1>2

LEMMA NextAttemptSame ==
  ASSUME job \in Job, NextAttempt
  PROVE  /\ Same
         /\ \/ pc' = "account" /\ job'.errors = job.errors
            \/ IF cur \in Event THEN pc' = "next" /\ job'.errors ELSE pc' = "reject"
<1>1. CASE job.attempt < MAX_RETRIES
  <2>1. job.attempt + 1 \in 1..MAX_RETRIES
    BY <1>1, BoundAssumption DEF Job
  <2>2. pc' = "account" /\ job' = [job EXCEPT !.attempt = job.attempt + 1]
    BY <1>1 DEF NextAttempt
  <2>3. job' \in Job
    BY <2>1, <2>2, JobUpdates
  <2>4. QED
    BY <2>2, <2>3 DEF Same, Job
<1>2. CASE cur \in Event /\ ~(job.attempt < MAX_RETRIES)
  <2>1. pc' = "next" /\ job' = [job EXCEPT !.errors = TRUE]
    BY <1>2 DEF NextAttempt
  <2>2. job' \in Job
    BY <2>1, JobUpdates
  <2>3. QED
    BY <1>2, <2>1, <2>2 DEF Job, Same
<1>3. CASE cur \notin Event /\ ~(job.attempt < MAX_RETRIES)
  BY <1>3 DEF NextAttempt, Same
<1>4. QED
  BY <1>1, <1>2, <1>3

Inserted ==
  /\ saved' = saved \o [k \in 1..RowsOf[cur] |-> cur]
  /\ pending' = pending \cup (Len(saved) + 1)..(Len(saved) + RowsOf[cur])

\* save_items adds rows of the order in hand, all of them pending.
LEMMA NewRows ==
  ASSUME TypeOK, cur \in Order, Inserted
  PROVE  /\ saved' \in Seq(Order)
         /\ Row \subseteq Row' /\ pending \subseteq pending' /\ pending' \subseteq Row'
         /\ \A n \in Row : saved'[n] = saved[n]
         /\ \A n \in Row' \ Row : n \in pending'
<1> DEFINE rows == [k \in 1..RowsOf[cur] |-> cur]
           L == Len(saved)
           R == RowsOf[cur]
<1>1. saved \in Seq(Order) /\ L \in Nat /\ pending \subseteq 1..L
  BY LenProperties DEF TypeOK, Row
<1>2. R \in Nat /\ rows \in [1..R -> Order]
  BY ContentAssumption
<1>3. rows \in Seq(Order) /\ Len(rows) = R
  BY <1>2
<1>4. saved' = saved \o rows /\ pending' = pending \cup (L + 1)..(L + R)
  BY DEF Inserted
<1> HIDE DEF rows, L, R
<1>5. /\ saved \o rows \in Seq(Order) /\ Len(saved \o rows) = L + R
      /\ \A n \in 1..L + R : (saved \o rows)[n] = IF n <= L THEN saved[n] ELSE rows[n - L]
  <2>1. Len(saved) = L
    BY DEF L
  <2>2. QED
    BY ONLY <1>1, <1>3, <2>1, ConcatProperties
<1>6. Row = 1..L /\ Row' = 1..(L + R)
  BY <1>4, <1>5 DEF Row, L
<1>7. /\ 1..L \subseteq 1..(L + R) /\ (L + 1)..(L + R) \subseteq 1..(L + R)
      /\ \A n \in 1..(L + R) \ 1..L : n \in (L + 1)..(L + R)
      /\ \A n \in 1..L : n <= L
  BY <1>1, <1>2
<1>8. \A n \in 1..L : saved'[n] = saved[n]
  BY <1>4, <1>5, <1>7
<1>9. QED
  BY <1>1, <1>4, <1>5, <1>6, <1>7, <1>8

\* A call that fails, or is tried again, keeps the types and what the handler has in hand.
LEMMA FailTypes ==
  ASSUME TypeOK, InHand, Same, pc # "idle", faults' \in 0..MaxFaults,
         accounts' \in [Company -> Client \cup {NoClient}], pending' \subseteq Row,
         UNCHANGED <<delivery, saved, registry, billing, outcome>>,
         \/ pc' = "account" /\ pc \in BillingSteps
         \/ pc' = "next" /\ cur \in Event
         \/ pc' = "reject"
  PROVE  TypeOK' /\ InHand'
<1>1. Row' = Row /\ Client' = Client /\ Invoice' = Invoice /\ Job' = Job
  BY SameStores DEF billing
<1>2. TypeOK'
  <2>1. job' \in Job /\ pc' \in Steps
    BY DEF Same, Steps
  <2>2. UNCHANGED <<inbox, taken, cur, saved, registry, clients, removed, invoices, told, acked, dead>>
    BY DEF delivery, billing, outcome
  <2>3. QED
    BY <1>1, <2>1, <2>2 DEF TypeOK
<1>3. InHand'
  <2>1. cur' = cur /\ invoices' = invoices /\ job'.company = job.company
    BY DEF delivery, billing, Same
  <2>2. cur # NoMessage
    BY DEF InHand
  <2>3. pc \in BillingSteps => cur \in Request \cup Event /\ job.company \in Company
    BY DEF InHand
  <2>4. QED
    BY <2>1, <2>2, <2>3
       DEF InHand, OrderSteps, RequestSteps, EventSteps, BillingSteps, InvoiceSteps
<1>4. QED
  BY <1>2, <1>3

\* Every step keeps the types, and what the handler has in hand.
LEMMA TypeStep ==
  ASSUME TypeOK, InHand, [Next]_vars
  PROVE  TypeOK' /\ InHand'
<1> USE KindAssumption, ContentAssumption, BoundAssumption
    DEF vars, delivery, database, billing, outcome, OrderSteps, RequestSteps, EventSteps,
        BillingSteps, InvoiceSteps, Message
<1>1. ASSUME NEW m \in Message, Take(m)
      PROVE  TypeOK' /\ InHand'
  BY <1>1, SameStores DEF Take, D!Take, First, NoJob, Job, TypeOK, InHand, Steps, Self
<1>2. ASSUME NEW m \in Message, DropDuplicate(m)
      PROVE  TypeOK' /\ InHand'
  BY <1>2, SameStores DEF DropDuplicate, D!Discard, TypeOK, InHand
<1>3. CASE basic_ack
  BY <1>3, SameStores DEF basic_ack, D!Settle, Idle, TypeOK, InHand, Steps
<1>4. CASE send_to_dlq
  BY <1>4, SameStores DEF send_to_dlq, D!Settle, Idle, TypeOK, InHand, Steps
<1>5. CASE Escape
  BY <1>5, SameStores DEF Escape, D!Return, Idle, Fault, TypeOK, InHand, Steps
<1>6. CASE Crash
  BY <1>6, SameStores DEF Crash, D!Restart, Idle, Fault, TypeOK, InHand, Steps
<1>8. CASE get_items_by_correlation_id
  <2>1. /\ pc = "meta" /\ cur \in Request
        /\ UNCHANGED <<delivery, database, billing, outcome>>
    BY <1>8 DEF get_items_by_correlation_id, InHand
  <2>2. CASE Continue("ack")
    BY <2>1, <2>2, SameStores DEF Continue, TypeOK, InHand, Steps
  <2>3. CASE Fail
    <3>1. Same /\ pc' \in {"next", "reject"} /\ (pc' = "next" => cur \in Event)
          /\ faults' \in 0..MaxFaults
      BY <2>3, FailSame DEF Fail, Fault, TypeOK
    <3>2. QED
      BY <2>1, <3>1, FailTypes DEF TypeOK
  <2>4. CASE pc' = "account" /\ UNCHANGED faults
    <3>1. CompanyOf[OrderOf[cur]] \in Company /\ RowsOfCompany(CompanyOf[OrderOf[cur]]) \in SUBSET Row
      BY <2>1 DEF RowsOfCompany, TypeOK
    <3>2. job' = [job EXCEPT !.company = CompanyOf[OrderOf[cur]],
                             !.rows = RowsOfCompany(CompanyOf[OrderOf[cur]])]
      BY <1>8, <2>1, <2>4 DEF get_items_by_correlation_id, Continue, Fail
    <3>3. job' \in Job /\ job'.company \in Company
      BY <3>1, <3>2, JobUpdates DEF TypeOK, Job
    <3>4. QED
      BY <2>1, <2>4, <3>3, SameStores DEF TypeOK, InHand, Steps
  <2>5. QED
    BY <1>8, <2>2, <2>3, <2>4 DEF get_items_by_correlation_id
<1>9. CASE save_invoice_correlation
  BY <1>9, SameStores DEF save_invoice_correlation, Continue, Fail, Fault, Job, TypeOK, InHand,
     Steps
<1>11. CASE get_pending_company_ids
  <2>1. /\ pc = "list" /\ cur \in Event
        /\ UNCHANGED <<delivery, database, billing, outcome, faults>>
    BY <1>11 DEF get_pending_company_ids, InHand
  <2>2. \/ pc' = "ack" /\ UNCHANGED job
        \/ pc' = "next" /\ job' = [job EXCEPT !.todo = {CompanyOf[saved[n]] : n \in pending},
                                              !.listed = pending]
    BY <1>11 DEF get_pending_company_ids
  <2>3. {CompanyOf[saved[n]] : n \in pending} \in SUBSET Company
    BY DEF TypeOK, Row
  <2> DEFINE C == {CompanyOf[saved[n]] : n \in pending}
  <2>4. job' \in Job
    <3> HIDE DEF C
    <3>1. [job EXCEPT !.todo = C, !.listed = pending] \in Job
      BY <2>3, JobUpdates DEF TypeOK, C
    <3>2. QED
      BY <2>2, <3>1 DEF TypeOK, C
  <2>5. QED
    BY <2>1, <2>2, <2>4, SameStores DEF TypeOK, InHand, Steps
<1>12. CASE EventEnds
  BY <1>12, SameStores DEF EventEnds, Continue, TypeOK, InHand, Steps
<1>13. ASSUME NEW c \in Company, get_items_for_company(c)
       PROVE  TypeOK' /\ InHand'
  <2>1. /\ pc = "next" /\ cur \in Event
        /\ UNCHANGED <<delivery, database, billing, outcome>>
    BY <1>13 DEF get_items_for_company, InHand
  <2>2. RowsOfCompany(c) \in SUBSET Row
    BY DEF RowsOfCompany, TypeOK
  <2>3. CASE UNCHANGED pc
    <3>1. faults' \in 0..MaxFaults
      BY <1>13 DEF get_items_for_company, Fault, TypeOK
    <3>2. \/ job' = [job EXCEPT !.todo = @ \ {c}, !.errors = TRUE]
          \/ job' = [job EXCEPT !.todo = @ \ {c}, !.company = c, !.attempt = 1,
                                !.rows = RowsOfCompany(c)]
      BY <1>13 DEF get_items_for_company
    <3>3. job' \in Job
      <4>1. [job EXCEPT !.todo = @ \ {c}, !.errors = TRUE] \in Job
        BY <2>2, JobUpdates DEF TypeOK
      <4>2. [job EXCEPT !.todo = @ \ {c}, !.company = c, !.attempt = 1,
                        !.rows = RowsOfCompany(c)] \in Job
        BY <2>2, JobUpdates DEF TypeOK
      <4>3. QED
        BY <3>2, <4>1, <4>2
    <3>4. QED
      BY <2>1, <2>3, <3>1, <3>3, SameStores DEF TypeOK, InHand, Steps
  <2>4. CASE pc' = "account" /\ UNCHANGED faults
    <3>1. job' = [job EXCEPT !.todo = @ \ {c}, !.company = c, !.attempt = 1,
                             !.rows = RowsOfCompany(c)]
      BY <1>13, <2>1, <2>4 DEF get_items_for_company
    <3>2. job' \in Job
      BY <2>2, <3>1, JobUpdates DEF TypeOK
    <3>3. job'.company = c
      BY <3>1 DEF TypeOK, Job
    <3>4. QED
      BY <2>1, <2>4, <3>2, <3>3, SameStores DEF TypeOK, InHand, Steps
  <2>5. QED
    BY <1>13, <2>1, <2>3, <2>4 DEF get_items_for_company
<1>15. CASE save_company_client_id
  <2>1. /\ pc = "mapping" /\ cur \in Request \cup Event /\ job.company \in Company
        /\ job.client \in Client /\ job \in Job
        /\ accounts' \in [Company -> Client \cup {NoClient}]
        /\ UNCHANGED <<delivery, saved, pending, registry, billing, outcome>>
    BY <1>15 DEF save_company_client_id, InHand, TypeOK
  <2>2. CASE Continue("invoice")
    BY <2>1, <2>2, SameStores DEF Continue, TypeOK, InHand, Steps
  <2>3. CASE Retry
    <3>1. Same /\ pc' \in {"account", "next", "reject"} /\ (pc' = "next" => cur \in Event)
          /\ faults' \in 0..MaxFaults
      BY <2>1, <2>3, NextAttemptSame DEF Retry, Fault, TypeOK
    <3>2. QED
      BY <2>1, <3>1, FailTypes DEF TypeOK
  <2>4. QED
    BY <1>15, <2>2, <2>3 DEF save_company_client_id
<1>17. CASE ClientNotFound
  <2>1. /\ pc = "invoice" /\ cur \in Request \cup Event /\ job.company \in Company
        /\ job \in Job
        /\ accounts' \in [Company -> Client \cup {NoClient}]
        /\ UNCHANGED <<delivery, saved, pending, registry, billing, outcome>>
    BY <1>17 DEF ClientNotFound, InHand, TypeOK
  <2>2. CASE NextAttempt /\ UNCHANGED faults
    <3>1. Same /\ pc' \in {"account", "next", "reject"} /\ (pc' = "next" => cur \in Event)
      BY <2>1, <2>2, NextAttemptSame
    <3>2. QED
      BY <2>1, <2>2, <3>1, FailTypes DEF TypeOK
  <2>3. CASE Fail
    <3>1. Same /\ pc' \in {"next", "reject"} /\ (pc' = "next" => cur \in Event)
          /\ faults' \in 0..MaxFaults
      BY <2>3, FailSame DEF Fail, Fault, TypeOK
    <3>2. QED
      BY <2>1, <3>1, FailTypes DEF TypeOK
  <2>4. QED
    BY <1>17, <2>2, <2>3 DEF ClientNotFound
<1>18. CASE clear_by_ids
  <2>1. /\ pc = "clear" /\ cur \in Request \cup Event /\ job.company \in Company
        /\ job.invoice \in DOMAIN invoices /\ job \in Job /\ pending' \subseteq Row
        /\ UNCHANGED <<delivery, saved, accounts, registry, billing, outcome>>
    BY <1>18 DEF clear_by_ids, InHand, TypeOK
  <2>2. CASE Continue("announce")
    BY <2>1, <2>2, SameStores DEF Continue, TypeOK, InHand, Steps
  <2>3. CASE Fail
    <3>1. Same /\ pc' \in {"next", "reject"} /\ (pc' = "next" => cur \in Event)
          /\ faults' \in 0..MaxFaults
      BY <2>3, FailSame DEF Fail, Fault, TypeOK
    <3>2. QED
      BY <2>1, <3>1, FailTypes DEF TypeOK
  <2>4. QED
    BY <1>18, <2>2, <2>3 DEF clear_by_ids
<1>19. CASE Announce
  <2>1. /\ pc = "announce" /\ cur \in Request \cup Event /\ job.invoice \in DOMAIN invoices
        /\ pc' = IF cur \in Event THEN "next" ELSE "ack"
        /\ told' \subseteq DOMAIN invoices /\ faults' \in 0..MaxFaults
        /\ UNCHANGED <<delivery, database, billing, acked, dead>>
    BY <1>19 DEF Announce, Fault, InHand, TypeOK
  <2>2. job' \in Job
    BY <1>19, JobUpdates DEF Announce, TypeOK
  <2>3. QED
    BY <2>1, <2>2, SameStores DEF TypeOK, InHand, Steps
<1>20. ASSUME NEW k \in Client, RemoveClient(k)
       PROVE  TypeOK' /\ InHand'
  BY <1>20, SameStores DEF RemoveClient, Fault, TypeOK, InHand
<1>21. CASE UNCHANGED vars
  BY <1>21, SameStores DEF TypeOK, InHand
<1>7. CASE save_items
  <2>1. /\ pc = "save" /\ cur \in Order /\ job \in Job
        /\ UNCHANGED <<delivery, accounts, registry, billing, outcome>>
        /\ Inserted \/ UNCHANGED <<saved, pending>>
        /\ Continue("ack") \/ Fail
    BY <1>7 DEF save_items, Inserted, InHand, TypeOK
  <2>2. saved' \in Seq(Order) /\ Row \subseteq Row' /\ pending' \subseteq Row'
    BY <2>1, NewRows, SameStores DEF TypeOK, Row
  <2>3. Client' = Client /\ Invoice \subseteq Invoice' /\ Job \subseteq Job'
    BY <2>1, <2>2 DEF Client, Invoice, Job
  <2>4. invoices' \in Seq(Invoice')
    BY <2>1, <2>2, <2>3, InvoicesGrow
  <2>5. job' \in Job /\ pc' \in {"ack", "reject"} /\ faults' \in 0..MaxFaults
    BY <2>1, FailSame DEF Continue, Fail, Fault, Same, TypeOK
  <2>6. QED
    BY <2>1, <2>2, <2>3, <2>4, <2>5 DEF TypeOK, InHand, Steps
<1>10. CASE mark_invoice_as_paid
  <2>1. /\ pc = "pay" /\ cur \in Request /\ job \in Job /\ job.invoice \in DOMAIN invoices
        /\ job.company \in Company
        /\ invoices' \in {invoices, [invoices EXCEPT ![job.invoice].paid = TRUE]}
        /\ UNCHANGED <<delivery, database, clients, removed, outcome>>
    BY <1>10 DEF mark_invoice_as_paid, InHand, TypeOK
  <2>2. Row' = Row /\ Client' = Client
    BY <2>1 DEF Row, Client
  <2>3. invoices' \in Seq(Invoice') /\ Len(invoices') = Len(invoices)
    <3>1. invoices \in Seq(Invoice')
          /\ [invoices EXCEPT ![job.invoice].paid = TRUE] \in Seq(Invoice')
          /\ Len([invoices EXCEPT ![job.invoice].paid = TRUE]) = Len(invoices)
      BY <2>1, <2>2, InvoicesGrow
    <3>2. QED
      BY <2>1, <3>1
  <2>4. DOMAIN invoices' = DOMAIN invoices /\ Job' = Job
    BY <2>2, <2>3, LenProperties DEF TypeOK, Job
  <2>5. job' \in Job /\ pc' \in {"clear", "reject"} /\ faults' \in 0..MaxFaults
        /\ (pc' = "clear" => job' = job)
    BY <1>10, <2>1, FailSame DEF mark_invoice_as_paid, Continue, Fail, Fault, Same, TypeOK
  <2>6. QED
    BY <2>1, <2>2, <2>3, <2>4, <2>5 DEF TypeOK, InHand, Steps
<1>14. CASE _get_or_create_billing_client
  <2>1. /\ pc = "account" /\ cur \in Request \cup Event /\ job \in Job /\ job.company \in Company
        /\ UNCHANGED <<delivery, database, removed, invoices, outcome>>
        /\ accounts[job.company] \in Client \cup {NoClient}
        /\ BillingAddress \in Address
    BY <1>14 DEF _get_or_create_billing_client, BillingAddress, InHand, TypeOK
  <2>2. /\ clients' \in {clients, Append(clients, BillingAddress)}
        /\ Len(clients) \in Nat /\ Len(clients') \in Nat /\ Len(clients) <= Len(clients')
        /\ clients' \in Seq(Address)
    <3>1. clients' \in {clients, Append(clients, BillingAddress)}
      BY <1>14 DEF _get_or_create_billing_client
    <3>2. Append(clients, BillingAddress) \in Seq(Address)
          /\ Len(Append(clients, BillingAddress)) = Len(clients) + 1 /\ Len(clients) \in Nat
      BY <2>1, AppendProperties, LenProperties DEF TypeOK
    <3>3. clients \in Seq(Address)
      BY DEF TypeOK
    <3>4. QED
      BY ONLY <3>1, <3>2, <3>3
  <2>3. Row' = Row /\ Client \subseteq Client' /\ Invoice \subseteq Invoice' /\ Job \subseteq Job'
    BY <2>1, <2>2 DEF Row, Client, Invoice, Job
  <2>4. invoices' \in Seq(Invoice')
    BY <2>1, <2>3, InvoicesGrow
  <2>5. ASSUME NEW k \in Client', NEW step \in {"invoice", "mapping"}, UseClient(k, step)
        PROVE  /\ job' \in Job' /\ job'.client \in Client' /\ job'.company = job.company
               /\ pc' = step /\ faults' = faults
    BY <2>1, <2>3, <2>5 DEF UseClient, Job
  <2>6. CASE Retry
    BY <2>1, <2>2, <2>3, <2>4, <2>6, NextAttemptSame DEF Retry, Fault, Same, TypeOK, InHand, Steps
  <2>7. CASE \E k \in Client', step \in {"invoice", "mapping"} : UseClient(k, step)
    BY <2>1, <2>2, <2>3, <2>4, <2>5, <2>7 DEF TypeOK, InHand, Steps
  <2>8. ASSUME clients' = Append(clients, BillingAddress) PROVE Len(clients) + 1 \in Client'
    BY <2>1, <2>2, <2>8, AppendProperties DEF Client, TypeOK
  <2>9. Retry \/ \E k \in Client', step \in {"invoice", "mapping"} : UseClient(k, step)
    BY <1>14, <2>1, <2>3, <2>8 DEF _get_or_create_billing_client, _get_client_by_email
  <2>10. QED
    BY <2>6, <2>7, <2>9
<1>16. CASE _create_invoice
  <2> DEFINE new == [client |-> job.client, rows |-> job.rows, company |-> job.company,
                     paid |-> FALSE, for |-> cur]
  <2>1. /\ pc = "invoice" /\ cur \in Request \cup Event /\ job \in Job /\ job.company \in Company
        /\ job.client \in Client
        /\ UNCHANGED <<delivery, database, clients, removed, outcome>>
        /\ invoices' \in {invoices, Append(invoices, new)}
    BY <1>16 DEF _create_invoice, InHand, TypeOK
  <2>2. Row' = Row /\ Client' = Client /\ Invoice' = Invoice
    BY <2>1 DEF Row, Client, Invoice
  <2>3. new \in Invoice
    BY <2>1 DEF Invoice, Job
  <2> HIDE DEF new
  <2>4. /\ invoices' \in Seq(Invoice') /\ Len(invoices) \in Nat /\ Len(invoices') \in Nat
        /\ Len(invoices) <= Len(invoices')
    <3>1. Append(invoices, new) \in Seq(Invoice)
          /\ Len(Append(invoices, new)) = Len(invoices) + 1 /\ Len(invoices) \in Nat
      BY <2>3, AppendProperties, LenProperties DEF TypeOK
    <3>2. invoices \in Seq(Invoice) /\ invoices' \in {invoices, Append(invoices, new)}
          /\ Invoice' = Invoice
      BY <2>1, <2>2 DEF TypeOK
    <3>3. QED
      BY ONLY <3>1, <3>2
  <2>5. DOMAIN invoices \subseteq DOMAIN invoices' /\ Job \subseteq Job'
    BY <2>1, <2>2, <2>4, LenProperties DEF TypeOK, Job
  <2>6. CASE Retry
    BY <2>1, <2>2, <2>4, <2>5, <2>6, NextAttemptSame DEF Retry, Fault, Same, TypeOK, InHand, Steps
  <2>7. CASE ~Retry
    <3>1. /\ pc' = IF cur \in Request THEN "register" ELSE "clear"
          /\ job' = [job EXCEPT !.invoice = Len(invoices) + 1]
          /\ invoices' = Append(invoices, new) /\ UNCHANGED faults
      BY <1>16, <2>7 DEF _create_invoice, new
    <3>2. Len(invoices) + 1 \in DOMAIN invoices' /\ Len(invoices) + 1 \in 0..Len(invoices')
      BY <2>3, <2>4, <3>1, AppendProperties, LenProperties DEF TypeOK
    <3>3. job' \in Job' /\ job'.invoice = Len(invoices) + 1 /\ job'.company = job.company
      BY <2>1, <2>5, <3>1, <3>2 DEF Job
    <3>4. QED
      BY <2>1, <2>2, <2>4, <2>5, <3>1, <3>2, <3>3 DEF TypeOK, InHand, Steps
  <2>8. QED
    BY <2>6, <2>7
<1>22. QED
  BY <1>1, <1>2, <1>3, <1>4, <1>5, <1>6, <1>7, <1>8, <1>9, <1>10, <1>11, <1>12, <1>13,
     <1>14, <1>15, <1>16, <1>17, <1>18, <1>19, <1>20, <1>21 DEF Next, HandlerStep

-----------------------------------------------------------------------------
(* What never changes *)

\* An invoice keeps what it is made of, and stays paid; rows keep their order; the registry
\* and the deletions only grow.
Growing ==
  /\ DOMAIN invoices \subseteq DOMAIN invoices'
  /\ \A i \in DOMAIN invoices :
       /\ invoices'[i].client = invoices[i].client
       /\ invoices'[i].rows = invoices[i].rows
       /\ invoices'[i].company = invoices[i].company
       /\ invoices'[i].for = invoices[i].for
       /\ invoices[i].paid => invoices'[i].paid
  /\ Row \subseteq Row'
  /\ \A n \in Row : saved'[n] = saved[n]
  /\ registry \subseteq registry'
  /\ removed \subseteq removed'

LEMMA NewInvoice ==
  ASSUME TypeOK, InHand, pc = "invoice"
  PROVE  LET new == [client |-> job.client, rows |-> job.rows, company |-> job.company,
                     paid |-> FALSE, for |-> cur]
             more == Append(invoices, new)
         IN  /\ DOMAIN more = DOMAIN invoices \cup {Len(invoices) + 1}
             /\ Len(invoices) + 1 \notin DOMAIN invoices
             /\ \A i \in DOMAIN invoices : more[i] = invoices[i]
             /\ more[Len(invoices) + 1] = new
<1> DEFINE new == [client |-> job.client, rows |-> job.rows, company |-> job.company,
                   paid |-> FALSE, for |-> cur]
           more == Append(invoices, new)
<1>1. invoices \in Seq(Invoice) /\ new \in Invoice
  BY DEF TypeOK, InHand, BillingSteps, Invoice, Job
<1> HIDE DEF new
<1>2. /\ more \in Seq(Invoice) /\ Len(more) = Len(invoices) + 1
      /\ \A i \in 1..Len(invoices) : more[i] = invoices[i]
      /\ more[Len(invoices) + 1] = new
  BY ONLY <1>1, AppendProperties
<1>3. /\ DOMAIN invoices = 1..Len(invoices) /\ DOMAIN more = 1..(Len(invoices) + 1)
      /\ Len(invoices) \in Nat
  BY ONLY <1>1, <1>2, LenProperties
<1>4. 1..(Len(invoices) + 1) = 1..Len(invoices) \cup {Len(invoices) + 1}
      /\ Len(invoices) + 1 \notin 1..Len(invoices)
  BY <1>3
<1>5. QED
  BY <1>2, <1>3, <1>4 DEF new

LEMMA PaidInvoice ==
  ASSUME TypeOK, NEW n \in DOMAIN invoices,
         invoices' = [invoices EXCEPT ![n].paid = TRUE]
  PROVE  /\ DOMAIN invoices' = DOMAIN invoices
         /\ \A i \in DOMAIN invoices : /\ invoices'[i].client = invoices[i].client
                                       /\ invoices'[i].rows = invoices[i].rows
                                       /\ invoices'[i].company = invoices[i].company
                                       /\ invoices'[i].for = invoices[i].for
                                       /\ invoices[i].paid => invoices'[i].paid
         /\ invoices'[n].paid
<1>1. DOMAIN invoices' = DOMAIN invoices
  OBVIOUS
<1>2. \A i \in DOMAIN invoices : invoices[i] \in Invoice
  BY LenProperties DEF TypeOK
<1>3. \A i \in DOMAIN invoices : i # n => invoices'[i] = invoices[i]
  OBVIOUS
<1>4. invoices'[n] = [invoices[n] EXCEPT !.paid = TRUE]
  OBVIOUS
<1>5. QED
  BY <1>1, <1>2, <1>3, <1>4 DEF Invoice

LEMMA GrowStep ==
  ASSUME TypeOK, InHand, [Next]_vars
  PROVE  Growing
<1> USE DEF vars, delivery, database, billing, outcome
<1>1. CASE UNCHANGED <<saved, invoices>> /\ registry \subseteq registry' /\ removed \subseteq removed'
  BY <1>1 DEF Growing, Row
<1>2. CASE save_items
  <2>1. /\ UNCHANGED <<invoices, registry, removed>> /\ cur \in Order
        /\ Inserted \/ UNCHANGED saved
    BY <1>2 DEF save_items, Inserted, InHand, OrderSteps
  <2>2. QED
    BY <2>1, NewRows DEF Growing, Row
<1>3. CASE mark_invoice_as_paid
  <2>1. CASE UNCHANGED invoices
    BY <1>1, <1>3, <2>1 DEF mark_invoice_as_paid
  <2>2. CASE invoices' = [invoices EXCEPT ![job.invoice].paid = TRUE]
    <3>1. job.invoice \in DOMAIN invoices /\ UNCHANGED <<saved, registry, removed>>
      BY <1>3 DEF mark_invoice_as_paid, InHand, InvoiceSteps
    <3>2. QED
      BY <2>2, <3>1, PaidInvoice DEF Growing, Row
  <2>3. QED
    BY <1>3, <2>1, <2>2 DEF mark_invoice_as_paid
<1>4. CASE _create_invoice
  <2>1. CASE UNCHANGED invoices
    BY <1>1, <1>4, <2>1 DEF _create_invoice
  <2>2. CASE ~UNCHANGED invoices
    BY <1>4, <2>2, NewInvoice DEF _create_invoice, Growing, Row
  <2>3. QED
    BY <2>1, <2>2
<1>5. [Next]_vars /\ ~(save_items \/ mark_invoice_as_paid \/ _create_invoice) =>
        UNCHANGED <<saved, invoices>> /\ registry \subseteq registry' /\ removed \subseteq removed'
  BY DEF Next, HandlerStep, Take, DropDuplicate, basic_ack, send_to_dlq, Escape, Crash,
     get_items_by_correlation_id, save_invoice_correlation, get_pending_company_ids, EventEnds,
     get_items_for_company, _get_or_create_billing_client, save_company_client_id,
     ClientNotFound, clear_by_ids, Announce, RemoveClient
<1>6. QED
  BY <1>1, <1>2, <1>3, <1>4, <1>5

-----------------------------------------------------------------------------
(* Rows: no one is lost *)

\* The invoice in hand carries the rows in hand: clear_by_ids gets the ids the invoice was
\* made from, whatever was stored or billed meanwhile.
Carried ==
  pc \in InvoiceSteps => /\ invoices[job.invoice].rows = job.rows
                         /\ invoices[job.invoice].for = cur

\* Steps that lead to a step of an invoice, and what they do.
LEMMA InvoiceStepsFrom ==
  ASSUME TypeOK, InHand, [Next]_vars, pc' \in InvoiceSteps
  PROVE  \/ pc \in InvoiceSteps /\ UNCHANGED <<job, cur>>
         \/ /\ pc = "invoice" /\ pc' = (IF cur \in Request THEN "register" ELSE "clear")
            /\ invoices' = Append(invoices,
                 [client |-> job.client, rows |-> job.rows, company |-> job.company,
                  paid |-> FALSE, for |-> cur])
            /\ job' = [job EXCEPT !.invoice = Len(invoices) + 1]
            /\ UNCHANGED <<cur, pending, told, registry>>
<1> USE DEF vars, delivery, database, billing, outcome, InvoiceSteps
<1>1. CASE HandlerStep
  BY <1>1 DEF HandlerStep, basic_ack, send_to_dlq, save_items, get_items_by_correlation_id,
     save_invoice_correlation, mark_invoice_as_paid, get_pending_company_ids, EventEnds,
     get_items_for_company, _get_or_create_billing_client, save_company_client_id,
     _create_invoice, ClientNotFound, clear_by_ids, Announce,
     Continue, Fail, Retry, NextAttempt, UseClient, Idle
<1>2. CASE ~HandlerStep
  BY <1>2, KindAssumption DEF Next, Take, DropDuplicate, D!Discard, First, Escape, Crash, Idle,
     RemoveClient
<1>3. QED
  BY <1>1, <1>2

LEMMA CarriedStep ==
  ASSUME TypeOK, InHand, Carried, [Next]_vars
  PROVE  Carried'
<1> SUFFICES ASSUME pc' \in InvoiceSteps
             PROVE  /\ invoices'[job'.invoice].rows = job'.rows
                    /\ invoices'[job'.invoice].for = cur'
  BY DEF Carried
<1>1. CASE pc \in InvoiceSteps /\ UNCHANGED <<job, cur>>
  BY <1>1, GrowStep DEF Growing, Carried, InHand
<1>2. CASE ~(pc \in InvoiceSteps /\ UNCHANGED <<job, cur>>)
  <2>1. /\ job'.invoice = Len(invoices) + 1 /\ job'.rows = job.rows
        /\ invoices'[Len(invoices) + 1].rows = job.rows
        /\ invoices'[Len(invoices) + 1].for = cur /\ cur' = cur
    BY <1>2, InvoiceStepsFrom, NewInvoice DEF TypeOK, Job
  <2>2. QED
    BY <2>1
<1>3. QED
  BY <1>1, <1>2

LEMMA BilledStays == ASSUME Growing PROVE Billed \subseteq Billed'
<1>1. SUFFICES ASSUME NEW i \in DOMAIN invoices, NEW n \in invoices[i].rows
               PROVE  \E k \in DOMAIN invoices' : n \in invoices'[k].rows
  BY DEF Billed
<1>2. QED
  BY DEF Growing

\* Nothing leaves pending_consumptions but what an invoice carries.
LEMMA PendingStep ==
  ASSUME TypeOK, InHand, Carried, [Next]_vars
  PROVE  /\ pending \subseteq pending' \cup Billed
         /\ \A n \in Row' \ Row : n \in pending'
<1> USE DEF vars, delivery, database, billing, outcome
<1>1. CASE save_items
  <2>1. cur \in Order /\ (Inserted \/ UNCHANGED <<saved, pending>>)
    BY <1>1 DEF save_items, Inserted, InHand, OrderSteps
  <2>2. QED
    BY <2>1, NewRows DEF Row
<1>2. CASE clear_by_ids
  <2>1. pc = "clear" /\ pending' \in {pending, pending \ job.rows} /\ UNCHANGED saved
    BY <1>2 DEF clear_by_ids
  <2>2. job.rows \subseteq Billed
    BY <2>1 DEF Carried, InHand, InvoiceSteps, Billed
  <2>3. QED
    BY <2>1, <2>2 DEF Row
<1>3. ~(save_items \/ clear_by_ids) => UNCHANGED <<saved, pending>>
  BY DEF Next, HandlerStep, Take, DropDuplicate, basic_ack, send_to_dlq, Escape, Crash,
     get_items_by_correlation_id, save_invoice_correlation, mark_invoice_as_paid,
     get_pending_company_ids, EventEnds, get_items_for_company, _get_or_create_billing_client,
     save_company_client_id, _create_invoice, ClientNotFound, Announce, RemoveClient
<1>4. QED
  BY <1>1, <1>2, <1>3 DEF Row

LEMMA RowsStep ==
  ASSUME TypeOK, InHand, Carried, NoRowLost, [Next]_vars
  PROVE  Carried' /\ NoRowLost'
<1>1. Billed \subseteq Billed'
  BY GrowStep, BilledStays
<1>2. QED
  BY <1>1, CarriedStep, PendingStep DEF NoRowLost

-----------------------------------------------------------------------------
(* Requests: registered, paid and cleared before they are told and acknowledged *)

Registered ==
  /\ pc \in {"pay", "clear", "announce"} /\ cur \in Request => <<job.invoice, cur>> \in registry
  /\ pc \in {"clear", "announce"} /\ cur \in PaidRequest => invoices[job.invoice].paid
  /\ pc = "announce" => job.rows \cap pending = {}
  /\ pc = "meta" => job.rows = {}
  /\ pc = "ack" /\ cur \in Request /\ job.rows # {} => job.invoice \in DOMAIN invoices

\* Steps of a handler that lead to the acknowledgement of a request.
LEMMA RequestAckFrom ==
  ASSUME TypeOK, InHand, [Next]_vars, pc' = "ack", cur' \in Request
  PROVE  /\ UNCHANGED <<cur, job, registry, invoices, pending>>
         /\ pc \in {"ack", "meta", "announce"}
<1> USE DEF vars, delivery, database, billing, outcome
<1>1. CASE HandlerStep
  BY <1>1, KindAssumption DEF HandlerStep, basic_ack, send_to_dlq, save_items,
     get_items_by_correlation_id, save_invoice_correlation, mark_invoice_as_paid,
     get_pending_company_ids, EventEnds, get_items_for_company, _get_or_create_billing_client,
     save_company_client_id, _create_invoice, ClientNotFound, clear_by_ids, Announce,
     Continue, Fail, Retry, NextAttempt, UseClient, Idle, InHand, OrderSteps, EventSteps
<1>2. CASE ~HandlerStep
  BY <1>2, KindAssumption DEF Next, Take, DropDuplicate, D!Discard, First, Escape, Crash, Idle,
     RemoveClient
<1>3. QED
  BY <1>1, <1>2

\* Steps from one step of an invoice to another one.
LEMMA InvoiceStepsOrder ==
  ASSUME TypeOK, InHand, [Next]_vars, pc' \in InvoiceSteps, pc \in InvoiceSteps
  PROVE  \/ UNCHANGED <<pc, registry, invoices, pending, told>>
         \/ /\ pc = "register" /\ pc' = (IF cur \in PaidRequest THEN "pay" ELSE "clear")
            /\ registry' = registry \cup {<<job.invoice, cur>>}
            /\ UNCHANGED <<invoices, pending, told>>
         \/ /\ pc = "pay" /\ pc' = "clear"
            /\ invoices' = [invoices EXCEPT ![job.invoice].paid = TRUE]
            /\ UNCHANGED <<registry, pending, told>>
         \/ /\ pc = "clear" /\ pc' = "announce"
            /\ pending' = pending \ job.rows
            /\ UNCHANGED <<registry, invoices, told>>
<1> USE DEF vars, delivery, database, billing, outcome, InvoiceSteps
<1>1. CASE HandlerStep
  BY <1>1 DEF HandlerStep, basic_ack, send_to_dlq, save_items, get_items_by_correlation_id,
     save_invoice_correlation, mark_invoice_as_paid, get_pending_company_ids, EventEnds,
     get_items_for_company, _get_or_create_billing_client, save_company_client_id,
     _create_invoice, ClientNotFound, clear_by_ids, Announce,
     Continue, Fail, Retry, NextAttempt, UseClient, Idle
<1>2. CASE ~HandlerStep
  BY <1>2, KindAssumption DEF Next, Take, DropDuplicate, D!Discard, First, Escape, Crash, Idle,
     RemoveClient
<1>3. QED
  BY <1>1, <1>2

LEMMA RegisteredStep ==
  ASSUME TypeOK, InHand, Carried, Registered, [Next]_vars
  PROVE  Registered'
<1> USE ContentAssumption
<1>1. CASE pc' \in InvoiceSteps /\ pc \in InvoiceSteps
  <2>1. UNCHANGED <<job, cur>> /\ job.invoice \in DOMAIN invoices
    BY <1>1, InvoiceStepsFrom DEF InHand, InvoiceSteps
  <2>2. /\ invoices[job.invoice].paid => invoices'[job.invoice].paid
        /\ registry \subseteq registry'
    BY <2>1, GrowStep DEF Growing
  <2>3. pc' = "clear" /\ pc = "pay" => invoices'[job.invoice].paid
    BY <1>1, <2>1, InvoiceStepsOrder, PaidInvoice
  <2>4. pc = "register" => cur \in Request
    BY DEF InHand, RequestSteps
  <2>5. QED
    BY <1>1, <2>1, <2>2, <2>3, <2>4, InvoiceStepsOrder DEF Registered, InvoiceSteps
<1>2. CASE pc' \in InvoiceSteps /\ pc \notin InvoiceSteps
  <2>1. pc = "invoice" /\ pc' = (IF cur \in Request THEN "register" ELSE "clear") /\ cur' = cur
    BY <1>2, InvoiceStepsFrom
  <2>2. QED
    BY <2>1 DEF Registered
<1>3. CASE pc' = "meta"
  <2>1. ~HandlerStep
    BY <1>3 DEF HandlerStep, basic_ack, send_to_dlq, Idle, save_items,
       get_items_by_correlation_id, save_invoice_correlation, mark_invoice_as_paid,
       get_pending_company_ids, EventEnds, get_items_for_company,
       _get_or_create_billing_client, save_company_client_id, _create_invoice, ClientNotFound,
       clear_by_ids, Announce, Continue, Fail, Retry, NextAttempt, UseClient
  <2>2. job' = NoJob \/ (pc = "meta" /\ job' = job)
    BY <1>3, <2>1 DEF vars, Next, Take, DropDuplicate, Escape, Crash, Idle, RemoveClient
  <2>3. job'.rows = {}
    BY <2>2 DEF NoJob, Registered
  <2>4. QED
    BY <1>3, <2>3 DEF Registered
<1>4. CASE pc' = "ack"
  <2>1. ASSUME cur' \in Request, job'.rows # {} PROVE job'.invoice \in DOMAIN invoices'
    BY <1>4, <2>1, RequestAckFrom DEF Registered, InHand, InvoiceSteps
  <2>2. QED
    BY <1>4, <2>1 DEF Registered
<1>5. CASE pc' \notin InvoiceSteps \cup {"meta", "ack"}
  BY <1>5 DEF Registered, InvoiceSteps
<1>6. QED
  BY <1>1, <1>2, <1>3, <1>4, <1>5

\* The registry has every invoice of a request that the CRM was told of, and has each
\* invoice under the request it was made for.
ToldRegistered == \A i \in told : invoices[i].for \in Request => <<i, invoices[i].for>> \in registry
RegistryOwn    == \A entry \in registry : invoices[entry[1]].for = entry[2]

LEMMA RequestStep ==
  ASSUME TypeOK, InHand, Carried, Registered, RequestAckMeansBilled, ToldRegistered,
         RegistryOwn, [Next]_vars
  PROVE  RequestAckMeansBilled' /\ ToldRegistered' /\ RegistryOwn'
<1> USE ContentAssumption
<1>1. RequestAckMeansBilled'
  <2> SUFFICES ASSUME pc' = "ack", cur' \in Request, job'.rows # {}
               PROVE  /\ invoices'[job'.invoice].rows = job'.rows
                      /\ <<job'.invoice, cur'>> \in registry'
                      /\ cur' \in PaidRequest => invoices'[job'.invoice].paid
                      /\ job'.rows \cap pending' = {}
    BY DEF RequestAckMeansBilled
  <2>1. /\ UNCHANGED <<cur, job, registry, invoices, pending>>
        /\ pc \in {"ack", "announce"}
    BY RequestAckFrom DEF Registered
  <2>2. QED
    BY <2>1 DEF RequestAckMeansBilled, Registered, Carried, InvoiceSteps
<1>2. ToldRegistered'
  <2>1. told' = told \/ (pc = "announce" /\ told' = told \cup {job.invoice})
    BY DEF vars, outcome, Next, HandlerStep, Take, DropDuplicate, basic_ack, send_to_dlq, Escape,
       Crash, save_items, get_items_by_correlation_id, save_invoice_correlation,
       mark_invoice_as_paid, get_pending_company_ids, EventEnds, get_items_for_company,
       _get_or_create_billing_client, save_company_client_id, _create_invoice, ClientNotFound,
       clear_by_ids, Announce, RemoveClient
  <2>2. pc = "announce" => /\ job.invoice \in DOMAIN invoices
                           /\ invoices[job.invoice].for = cur
                           /\ cur \in Request => <<job.invoice, cur>> \in registry
    BY DEF Registered, Carried, InHand, InvoiceSteps
  <2>3. told \subseteq DOMAIN invoices
    BY DEF TypeOK
  <2>4. QED
    BY <2>1, <2>2, <2>3, GrowStep DEF ToldRegistered, Growing
<1>3. RegistryOwn'
  <2>1. registry' = registry \/ (pc = "register" /\ registry' = registry \cup {<<job.invoice, cur>>})
    BY DEF vars, database, Next, HandlerStep, Take, DropDuplicate, basic_ack, send_to_dlq, Escape,
       Crash, save_items, get_items_by_correlation_id, save_invoice_correlation,
       mark_invoice_as_paid, get_pending_company_ids, EventEnds, get_items_for_company,
       _get_or_create_billing_client, save_company_client_id, _create_invoice, ClientNotFound,
       clear_by_ids, Announce, RemoveClient
  <2>2. pc = "register" => job.invoice \in DOMAIN invoices /\ invoices[job.invoice].for = cur
    BY DEF Carried, InHand, InvoiceSteps
  <2>3. \A entry \in registry : entry[1] \in DOMAIN invoices
    BY DEF TypeOK
  <2>4. QED
    BY <2>1, <2>2, <2>3, GrowStep DEF RegistryOwn, Growing
<1>4. QED
  BY <1>1, <1>2, <1>3

-----------------------------------------------------------------------------
(* event_ended: what it listed is billed and cleared when it is acknowledged *)

\* Of the rows listed, the company is still on the list, or they are done, or they are in
\* hand; unless an error was noted.
Remaining ==
  /\ pc = "list" => job.listed = {}
  /\ cur \in Event /\ pc \in BillingSteps \cup {"next"} /\ ~job.errors =>
       \A n \in job.listed : \/ CompanyOf[saved[n]] \in job.todo
                             \/ n \in Billed \ pending
                             \/ pc \in {"account", "mapping", "invoice", "clear"} /\ n \in job.rows

Untouched == job'.todo = job.todo /\ job'.listed = job.listed /\ job'.rows = job.rows
             /\ job'.errors = job.errors

\* How event_ended gets on without an error.
LEMMA EventGoesOn ==
  ASSUME TypeOK, InHand, HandlerStep, cur \in Event, cur' = cur, ~job'.errors,
         pc' \in BillingSteps \cup {"next"}
  PROVE  /\ saved' = saved
         /\ \/ /\ Untouched
               /\ \/ /\ pc \in {"account", "mapping", "invoice"} /\ pending' = pending
                     /\ pc' \in {"account", "mapping", "invoice", "clear"}
                  \/ /\ pc = "clear" /\ pc' = "announce" /\ pending' = pending \ job.rows
                     /\ UNCHANGED invoices
                  \/ pc = "announce" /\ pc' = "next" /\ pending' = pending
            \/ /\ pc = "list" /\ pc' = "next" /\ pending' = pending
               /\ job'.todo = {CompanyOf[saved[n]] : n \in pending} /\ job'.listed = pending
            \/ /\ pc = "next" /\ pc' \in {"next", "account"} /\ pending' = pending
               /\ \E c \in Company :
                    /\ job'.todo = job.todo \ {c} /\ job'.listed = job.listed
                    /\ job'.rows = RowsOfCompany(c) /\ job'.errors = job.errors
                    /\ pc' = IF RowsOfCompany(c) = {} THEN "next" ELSE "account"
<1> USE KindAssumption
    DEF vars, delivery, database, billing, outcome, InHand, OrderSteps, RequestSteps, BillingSteps
<1>1. job \in Job
  BY DEF TypeOK
<1>2. ~Fail
  BY <1>1, FailSame
<1>3. NextAttempt => pc' = "account" /\ Untouched
  BY <1>1, NextAttemptSame DEF Untouched, Same
<1>4. ~(basic_ack \/ send_to_dlq \/ save_items \/ get_items_by_correlation_id
        \/ save_invoice_correlation \/ mark_invoice_as_paid \/ EventEnds)
  BY <1>2 DEF basic_ack, send_to_dlq, save_items, get_items_by_correlation_id,
     save_invoice_correlation, mark_invoice_as_paid, EventEnds, Idle, D!Settle, Continue
<1>5. CASE get_pending_company_ids
  BY <1>1, <1>5 DEF get_pending_company_ids, Job
<1>6. ASSUME NEW c \in Company, get_items_for_company(c)
      PROVE  /\ UNCHANGED <<saved, pending>>
             /\ pc = "next" /\ pc' \in {"next", "account"}
             /\ job'.todo = job.todo \ {c} /\ job'.listed = job.listed
             /\ job'.rows = RowsOfCompany(c) /\ job'.errors = job.errors
             /\ pc' = IF RowsOfCompany(c) = {} THEN "next" ELSE "account"
  BY <1>1, <1>6 DEF get_items_for_company, Job
<1>7. CASE _get_or_create_billing_client
  BY <1>1, <1>3, <1>7 DEF _get_or_create_billing_client, UseClient, Retry, Job, Untouched
<1>8. CASE save_company_client_id
  BY <1>3, <1>8 DEF save_company_client_id, Continue, Retry, Untouched
<1>9. CASE _create_invoice
  BY <1>1, <1>3, <1>9 DEF _create_invoice, Retry, Job, Untouched
<1>10. CASE ClientNotFound
  BY <1>2, <1>3, <1>10 DEF ClientNotFound, Untouched
<1>11. CASE clear_by_ids
  BY <1>2, <1>11 DEF clear_by_ids, Continue, Untouched
<1>12. CASE Announce
  <2>1. job' # [job EXCEPT !.errors = TRUE]
    BY <1>1 DEF Job
  <2>2. QED
    BY <1>12, <2>1 DEF Announce, Untouched
<1>13. QED
  BY <1>4, <1>5, <1>6, <1>7, <1>8, <1>9, <1>10, <1>11, <1>12 DEF HandlerStep

\* Steps that are not the handler's leave its event alone, or end it.
LEMMA EventUntouched ==
  ASSUME TypeOK, InHand, [Next]_vars, ~HandlerStep, pc' # "idle"
  PROVE  \/ UNCHANGED <<pc, cur, job, saved, pending, invoices>>
         \/ cur' \in Message /\ pc' = First(cur') /\ job' = NoJob
BY DEF vars, delivery, database, billing, Next, Take, D!Take, DropDuplicate, D!Discard, Escape,
       Crash, Idle, RemoveClient

\* Steps of a handler that lead to the beginning or to the end of an event.
LEMMA EventTurns ==
  ASSUME TypeOK, InHand, HandlerStep, cur' \in Event
  PROVE  /\ cur' = cur
         /\ pc' # "list"
         /\ pc' = "ack" => /\ UNCHANGED <<saved, pending, invoices, job>>
                           /\ \/ pc = "list" /\ pending = {}
                              \/ pc = "next" /\ job.todo = {} /\ ~job.errors
<1> USE KindAssumption
    DEF delivery, database, billing, outcome, InHand, OrderSteps, RequestSteps, Message
<1>1. ~basic_ack /\ ~send_to_dlq
  BY DEF basic_ack, send_to_dlq, D!Settle
<1>2. cur' = cur
  BY <1>1 DEF HandlerStep, save_items, get_items_by_correlation_id,
     save_invoice_correlation, mark_invoice_as_paid, get_pending_company_ids, EventEnds,
     get_items_for_company, _get_or_create_billing_client, save_company_client_id,
     _create_invoice, ClientNotFound, clear_by_ids, Announce
<1>3. ~save_items /\ ~get_items_by_correlation_id /\ ~save_invoice_correlation
      /\ ~mark_invoice_as_paid
  BY <1>2 DEF save_items, get_items_by_correlation_id, save_invoice_correlation,
     mark_invoice_as_paid
<1>4. pc' # "list"
  BY <1>1, <1>3 DEF HandlerStep, get_pending_company_ids, EventEnds,
     get_items_for_company, _get_or_create_billing_client, save_company_client_id,
     _create_invoice, ClientNotFound, clear_by_ids, Announce,
     Continue, Fail, Retry, NextAttempt, UseClient
<1>5. ASSUME pc' = "ack"
      PROVE  /\ UNCHANGED <<saved, pending, invoices, job>>
             /\ \/ pc = "list" /\ pending = {}
                \/ pc = "next" /\ job.todo = {} /\ ~job.errors
  BY <1>1, <1>2, <1>3, <1>5 DEF HandlerStep, get_pending_company_ids, EventEnds,
     get_items_for_company, _get_or_create_billing_client, save_company_client_id,
     _create_invoice, ClientNotFound, clear_by_ids, Announce,
     Continue, Fail, Retry, NextAttempt, UseClient
<1>6. QED
  BY <1>2, <1>4, <1>5

LEMMA EventStep ==
  ASSUME TypeOK, InHand, Carried, NoRowLost, Remaining, EventAckMeansBilled, [Next]_vars
  PROVE  Remaining' /\ EventAckMeansBilled'
<1>1. CASE ~HandlerStep
  <2>1. CASE pc' = "idle"
    BY <2>1 DEF Remaining, EventAckMeansBilled, BillingSteps
  <2>2. CASE UNCHANGED <<pc, cur, job, saved, pending, invoices>>
    BY <2>2 DEF Remaining, EventAckMeansBilled, Billed
  <2>3. CASE cur' \in Message /\ pc' = First(cur') /\ job' = NoJob
    BY <2>3 DEF First, NoJob, Remaining, EventAckMeansBilled, BillingSteps
  <2>4. QED
    BY <1>1, <2>1, <2>2, <2>3, EventUntouched
<1>2. CASE HandlerStep /\ cur' \notin Event
  <2>1. pc' # "list"
    BY <1>2, TypeStep DEF InHand, EventSteps
  <2>2. QED
    BY <1>2, <2>1 DEF Remaining, EventAckMeansBilled
<1>3. CASE HandlerStep /\ cur' \in Event
  <2> USE <1>3
  <2>1. cur' = cur /\ pc' # "list"
    BY EventTurns
  <2>2. job.listed \subseteq Row /\ pending \subseteq Row /\ Row \subseteq pending \cup Billed
    BY DEF TypeOK, Job, NoRowLost
  <2>3. EventAckMeansBilled'
    <3> SUFFICES ASSUME pc' = "ack" PROVE job'.listed \subseteq Billed' \ pending'
      BY DEF EventAckMeansBilled
    <3>1. /\ UNCHANGED <<saved, pending, invoices, job>>
          /\ \/ pc = "list" /\ pending = {}
             \/ pc = "next" /\ job.todo = {} /\ ~job.errors
      BY EventTurns
    <3>2. Billed' = Billed
      BY <3>1 DEF Billed
    <3>3. QED
      BY <2>1, <3>1, <3>2 DEF Remaining
  <2>4. Remaining'
    <3> SUFFICES ASSUME pc' \in BillingSteps \cup {"next"}, ~job'.errors, NEW n \in job'.listed
                 PROVE  \/ CompanyOf[saved'[n]] \in job'.todo
                        \/ n \in Billed' \ pending'
                        \/ /\ pc' \in {"account", "mapping", "invoice", "clear"}
                           /\ n \in job'.rows
      BY <2>1 DEF Remaining
    <3>1. Billed \subseteq Billed'
      BY GrowStep, BilledStays
    <3>2. saved' = saved
      BY <2>1, EventGoesOn
    <3>3. CASE /\ Untouched
               /\ \/ /\ pc \in {"account", "mapping", "invoice"} /\ pending' = pending
                     /\ pc' \in {"account", "mapping", "invoice", "clear"}
                  \/ pc = "announce" /\ pc' = "next" /\ pending' = pending
      BY <2>1, <3>1, <3>2, <3>3 DEF Untouched, Remaining, BillingSteps
    <3>4. CASE Untouched /\ pc = "clear" /\ pc' = "announce" /\ pending' = pending \ job.rows
      <4>1. job.rows \subseteq Billed
        BY <3>4 DEF Carried, InHand, InvoiceSteps, Billed
      <4>2. QED
        BY <2>1, <3>1, <3>2, <3>4, <4>1 DEF Untouched, Remaining, BillingSteps
    <3>5. CASE /\ pc = "list" /\ job'.listed = pending
               /\ job'.todo = {CompanyOf[saved[k]] : k \in pending}
      BY <3>2, <3>5
    <3>6. ASSUME pc = "next", pc' \in {"next", "account"}, pending' = pending,
                 NEW c \in Company, job'.todo = job.todo \ {c}, job'.listed = job.listed,
                 job'.rows = RowsOfCompany(c), job'.errors = job.errors,
                 pc' = IF RowsOfCompany(c) = {} THEN "next" ELSE "account"
          PROVE  \/ CompanyOf[saved'[n]] \in job'.todo
                 \/ n \in Billed' \ pending'
                 \/ pc' \in {"account", "mapping", "invoice", "clear"} /\ n \in job'.rows
      <4>1. CASE CompanyOf[saved[n]] = c /\ n \in pending
        <5>1. n \in RowsOfCompany(c)
          BY <4>1 DEF RowsOfCompany
        <5>2. QED
          BY <3>6, <5>1
      <4>2. CASE CompanyOf[saved[n]] = c /\ n \notin pending
        BY <2>2, <3>1, <3>6, <4>2
      <4>3. CASE CompanyOf[saved[n]] # c
        BY <2>1, <3>1, <3>2, <3>6, <4>3 DEF Remaining
      <4>4. QED
        BY <4>1, <4>2, <4>3
    <3>7. QED
      BY <2>1, <3>3, <3>4, <3>5, <3>6, EventGoesOn
  <2>5. QED
    BY <2>3, <2>4
<1>4. QED
  BY <1>1, <1>2, <1>3

-----------------------------------------------------------------------------
(* One account for a company *)

\* What the handler knows of company_accounts: no mapping before it saves one, and an
\* invoice is made with the client of the mapping.
Mapped ==
  /\ pc = "mapping" => accounts[job.company] = NoClient
  /\ pc = "invoice" => accounts[job.company] = job.client

\* An invoice whose client still exists is with the client of its company's mapping.
InvoicesMapped ==
  \A i \in DOMAIN invoices :
    invoices[i].client \notin removed => accounts[invoices[i].company] = invoices[i].client

\* Every invoice has a client and a company.
LEMMA InvoiceTypes ==
  ASSUME TypeOK
  PROVE  \A i \in DOMAIN invoices : invoices[i].client \in Client /\ invoices[i].company \in Company
<1>1. invoices \in Seq(Invoice)
  BY DEF TypeOK
<1>2. \A i \in DOMAIN invoices : invoices[i] \in Invoice
  BY ONLY <1>1, LenProperties
<1>3. QED
  BY <1>2 DEF Invoice

LEMMA MappedStep ==
  ASSUME TypeOK, InHand, Mapped, InvoicesMapped, [Next]_vars
  PROVE  Mapped' /\ InvoicesMapped'
<1> USE BoundAssumption
    DEF vars, delivery, database, billing, outcome, BillingSteps
<1>1. CASE ~HandlerStep
  <2>1. UNCHANGED <<accounts, invoices>> /\ removed \subseteq removed'
    BY <1>1 DEF Next, Take, DropDuplicate, Escape, Crash, RemoveClient
  <2>2. pc' \in {"mapping", "invoice"} => UNCHANGED <<pc, job>>
    BY <1>1, KindAssumption DEF Next, Take, First, DropDuplicate, Escape, Crash, Idle, RemoveClient
  <2>3. QED
    BY <2>1, <2>2 DEF Mapped, InvoicesMapped
<1>2. CASE _get_or_create_billing_client
  <2>1. UNCHANGED <<accounts, invoices, removed>> /\ pc = "account" /\ job \in Job
    BY <1>2 DEF _get_or_create_billing_client, TypeOK
  <2>2. Retry => pc' \notin {"mapping", "invoice"}
    BY <2>1, NextAttemptSame DEF Retry
  <2>3. Mapped'
    BY <1>2, <2>1, <2>2 DEF _get_or_create_billing_client, UseClient, Mapped, Job
  <2>4. QED
    BY <2>1, <2>3 DEF InvoicesMapped
<1>3. CASE save_company_client_id
  <2>1. /\ UNCHANGED <<invoices, removed>> /\ pc = "mapping" /\ job \in Job
        /\ job.company \in Company /\ job.client \in Client
        /\ accounts[job.company] = NoClient
    BY <1>3 DEF save_company_client_id, TypeOK, InHand, Mapped
  <2>2. Retry => pc' \notin {"mapping", "invoice"}
    BY <2>1, NextAttemptSame DEF Retry
  <2>3. \A i \in DOMAIN invoices : invoices[i].client \in Client /\ invoices[i].company \in Company
    BY InvoiceTypes
  <2>4. \A i \in DOMAIN invoices :
          invoices[i].client \notin removed => invoices[i].company # job.company
    BY <2>1, <2>3 DEF InvoicesMapped, Client
  <2>5. accounts' \in {accounts, [accounts EXCEPT ![job.company] = job.client]}
        /\ accounts \in [Company -> Client \cup {NoClient}]
    BY <1>3 DEF save_company_client_id, TypeOK
  <2>6. InvoicesMapped'
    BY <2>1, <2>3, <2>4, <2>5 DEF InvoicesMapped
  <2>7. Mapped'
    BY <1>3, <2>1, <2>2, <2>5 DEF save_company_client_id, Continue, Mapped
  <2>8. QED
    BY <2>6, <2>7
<1>4. CASE _create_invoice
  <2>1. /\ UNCHANGED <<accounts, removed>> /\ pc = "invoice" /\ job \in Job
        /\ accounts[job.company] = job.client
    BY <1>4 DEF _create_invoice, TypeOK, Mapped
  <2>2. Retry => pc' \notin {"mapping", "invoice"}
    BY <2>1, NextAttemptSame DEF Retry
  <2>3. Mapped'
    BY <1>4, <2>2 DEF _create_invoice, Mapped
  <2>4. CASE UNCHANGED invoices
    BY <2>1, <2>3, <2>4 DEF InvoicesMapped
  <2>5. CASE ~UNCHANGED invoices
    <3>1. invoices' = Append(invoices,
            [client |-> job.client, rows |-> job.rows, company |-> job.company,
             paid |-> FALSE, for |-> cur])
      BY <1>4, <2>5 DEF _create_invoice
    <3>2. QED
      BY <2>1, <2>3, <3>1, NewInvoice DEF InvoicesMapped
  <2>6. QED
    BY <2>4, <2>5
<1>5. CASE ClientNotFound
  <2>1. /\ UNCHANGED <<invoices, removed>> /\ pc = "invoice" /\ job \in Job
        /\ job.company \in Company /\ job.client \in removed
        /\ accounts[job.company] = job.client
    BY <1>5 DEF ClientNotFound, TypeOK, InHand, Mapped
  <2>2. pc' \notin {"mapping", "invoice"}
    BY <1>5, <2>1, NextAttemptSame, FailSame DEF ClientNotFound
  <2>3. \A i \in DOMAIN invoices : invoices[i].company \in Company
    BY InvoiceTypes
  <2>4. \A i \in DOMAIN invoices :
          invoices[i].client \notin removed => invoices[i].company # job.company
    BY <2>1 DEF InvoicesMapped
  <2>5. accounts' \in {accounts, [accounts EXCEPT ![job.company] = NoClient]}
        /\ accounts \in [Company -> Client \cup {NoClient}]
    BY <1>5 DEF ClientNotFound, TypeOK
  <2>6. InvoicesMapped'
    BY <2>1, <2>3, <2>4, <2>5 DEF InvoicesMapped
  <2>7. QED
    BY <2>2, <2>6 DEF Mapped
<1>6. CASE mark_invoice_as_paid
  <2>1. /\ UNCHANGED <<accounts, removed>> /\ job.invoice \in DOMAIN invoices
        /\ invoices' \in {invoices, [invoices EXCEPT ![job.invoice].paid = TRUE]}
        /\ pc' \notin {"mapping", "invoice"}
    BY <1>6 DEF mark_invoice_as_paid, Continue, Fail, InHand, InvoiceSteps
  <2>2. InvoicesMapped'
    BY <2>1, PaidInvoice DEF InvoicesMapped
  <2>3. QED
    BY <2>1, <2>2 DEF Mapped
<1>7. CASE HandlerStep /\ ~(_get_or_create_billing_client \/ save_company_client_id
                            \/ _create_invoice \/ ClientNotFound \/ mark_invoice_as_paid)
  <2>1. UNCHANGED <<accounts, invoices, removed>> /\ pc' \notin {"mapping", "invoice"}
    BY <1>7 DEF HandlerStep, basic_ack, send_to_dlq, save_items, get_items_by_correlation_id,
       save_invoice_correlation, get_pending_company_ids, EventEnds, get_items_for_company,
       clear_by_ids, Announce, Continue, Fail, Idle
  <2>2. QED
    BY <2>1 DEF Mapped, InvoicesMapped
<1>8. QED
  BY <1>1, <1>2, <1>3, <1>4, <1>5, <1>6, <1>7

-----------------------------------------------------------------------------
(* Whose rows an invoice carries *)

\* The handler bills rows of one company, for a request of the company of its order.
Own ==
  pc \in {"account", "mapping", "invoice"} =>
    /\ \A n \in job.rows : CompanyOf[saved[n]] = job.company
    /\ cur \in Request => job.company = CompanyOf[OrderOf[cur]]

OwnInvoice(i) ==
  /\ \A n \in invoices[i].rows : n \in Row /\ CompanyOf[saved[n]] = invoices[i].company
  /\ invoices[i].for \in Request => invoices[i].company = CompanyOf[OrderOf[invoices[i].for]]

InvoicesOwn == \A i \in DOMAIN invoices : OwnInvoice(i)

\* Steps that lead to an attempt, or from one step of it to the next.
LEMMA AttemptFrom ==
  ASSUME TypeOK, InHand, [Next]_vars, pc' \in {"account", "mapping", "invoice"}
  PROVE  /\ UNCHANGED <<cur, saved, pending>>
         /\ \/ /\ pc \in {"account", "mapping", "invoice"}
               /\ job'.rows = job.rows /\ job'.company = job.company
            \/ /\ pc = "meta" /\ cur \in Request
               /\ job'.company = CompanyOf[OrderOf[cur]]
               /\ job'.rows = RowsOfCompany(CompanyOf[OrderOf[cur]])
            \/ /\ pc = "next" /\ cur \in Event
               /\ job'.rows = RowsOfCompany(job'.company)
<1> USE DEF vars, delivery, database, billing, outcome
<1>1. CASE ~HandlerStep
  BY <1>1 DEF Next, Take, First, DropDuplicate, D!Discard, Escape, Crash, Idle, RemoveClient
<1>2. job \in Job
  BY DEF TypeOK
<1>3. Fail => pc' \notin {"account", "mapping", "invoice"}
  BY DEF Fail
<1>4. NextAttempt => job'.rows = job.rows /\ job'.company = job.company
  BY <1>2, NextAttemptSame DEF Same
<1>5. CASE get_items_by_correlation_id
  BY <1>2, <1>3, <1>5 DEF get_items_by_correlation_id, Continue, Job, InHand, RequestSteps
<1>6. ASSUME NEW c \in Company, get_items_for_company(c)
      PROVE  /\ UNCHANGED <<cur, saved, pending>> /\ pc = "next" /\ cur \in Event
             /\ job'.rows = RowsOfCompany(job'.company)
  BY <1>2, <1>6 DEF get_items_for_company, Job, InHand, EventSteps
<1>7. CASE _get_or_create_billing_client
  BY <1>2, <1>4, <1>7 DEF _get_or_create_billing_client, UseClient, Retry, Job
<1>8. CASE save_company_client_id
  BY <1>2, <1>4, <1>8 DEF save_company_client_id, Continue, Retry, Job
<1>9. CASE _create_invoice
  BY <1>2, <1>4, <1>9 DEF _create_invoice, Retry, Job
<1>10. CASE ClientNotFound
  BY <1>2, <1>3, <1>4, <1>10 DEF ClientNotFound, Job
<1>11. ~(save_items \/ save_invoice_correlation \/ mark_invoice_as_paid
         \/ get_pending_company_ids \/ EventEnds \/ clear_by_ids \/ Announce
         \/ basic_ack \/ send_to_dlq)
  BY <1>3 DEF save_items, save_invoice_correlation, mark_invoice_as_paid,
     get_pending_company_ids, EventEnds, clear_by_ids, Announce, basic_ack, send_to_dlq,
     Continue, Idle
<1>12. QED
  BY <1>1, <1>5, <1>6, <1>7, <1>8, <1>9, <1>10, <1>11 DEF HandlerStep

\* Only _create_invoice adds an invoice.
LEMMA AppendingStep ==
  ASSUME TypeOK, InHand, [Next]_vars, DOMAIN invoices' # DOMAIN invoices
  PROVE  /\ pc = "invoice" /\ UNCHANGED saved
         /\ invoices' = Append(invoices,
              [client |-> job.client, rows |-> job.rows, company |-> job.company,
               paid |-> FALSE, for |-> cur])
<1> USE DEF vars, delivery, database, billing, outcome
<1>1. ~UNCHANGED invoices /\ ~mark_invoice_as_paid
  BY PaidInvoice DEF mark_invoice_as_paid
<1>2. _create_invoice
  BY <1>1 DEF Next, HandlerStep, Take, DropDuplicate, Escape, Crash, RemoveClient, basic_ack,
     send_to_dlq, save_items, get_items_by_correlation_id, save_invoice_correlation,
     get_pending_company_ids, EventEnds, get_items_for_company, _get_or_create_billing_client,
     save_company_client_id, ClientNotFound, clear_by_ids, Announce
<1>3. QED
  BY <1>1, <1>2 DEF _create_invoice

LEMMA OwnStep ==
  ASSUME TypeOK, InHand, Own, InvoicesOwn, [Next]_vars
  PROVE  Own' /\ InvoicesOwn'
<1>1. Own'
  <2> SUFFICES ASSUME pc' \in {"account", "mapping", "invoice"}
               PROVE  /\ \A n \in job'.rows : CompanyOf[saved'[n]] = job'.company
                      /\ cur' \in Request => job'.company = CompanyOf[OrderOf[cur']]
    BY DEF Own
  <2>1. Request \cap Event = {}
    BY KindAssumption
  <2>2. QED
    BY <2>1, AttemptFrom DEF Own, RowsOfCompany
<1>2. ASSUME NEW i \in DOMAIN invoices
      PROVE  OwnInvoice(i)'
  <2>1. i \in DOMAIN invoices'
    BY <1>2, GrowStep DEF Growing
  <2>2. /\ invoices'[i].rows = invoices[i].rows
        /\ invoices'[i].company = invoices[i].company
        /\ invoices'[i].for = invoices[i].for
    BY <1>2, GrowStep DEF Growing
  <2>3. \A n \in Row : n \in Row' /\ saved'[n] = saved[n]
    BY GrowStep DEF Growing
  <2>4. QED
    BY <1>2, <2>1, <2>2, <2>3 DEF InvoicesOwn, OwnInvoice
<1>3. CASE DOMAIN invoices' = DOMAIN invoices
  BY <1>1, <1>2, <1>3 DEF InvoicesOwn
<1>4. CASE DOMAIN invoices' # DOMAIN invoices
  <2>1. /\ pc = "invoice" /\ UNCHANGED saved
        /\ invoices' = Append(invoices,
             [client |-> job.client, rows |-> job.rows, company |-> job.company,
              paid |-> FALSE, for |-> cur])
    BY <1>4, AppendingStep
  <2>2. /\ DOMAIN invoices' = DOMAIN invoices \cup {Len(invoices) + 1}
        /\ invoices'[Len(invoices) + 1].rows = job.rows
        /\ invoices'[Len(invoices) + 1].company = job.company
        /\ invoices'[Len(invoices) + 1].for = cur
    BY <2>1, NewInvoice
  <2>3. job.rows \subseteq Row' /\ saved' = saved
    BY <2>1 DEF TypeOK, Job, Row
  <2>4. ASSUME NEW i, i = Len(invoices) + 1
        PROVE  OwnInvoice(i)'
    BY <2>4, <2>1, <2>2, <2>3 DEF OwnInvoice, Own
  <2>5. QED
    BY <1>1, <1>2, <2>2, <2>4 DEF InvoicesOwn
<1>5. QED
  BY <1>1, <1>3, <1>4

-----------------------------------------------------------------------------
(* A handler takes a bounded number of steps *)

PendingCompanies == {CompanyOf[saved[n]] : n \in pending}

\* The companies event_ended has yet to turn to.
Todo == IF pc = "list" THEN PendingCompanies ELSE job.todo

\* How many steps the attempt that runs can still take, and the end of the handler after it.
Ahead(step) == CASE step = "meta" -> 10
                 [] step = "account" -> 9
                 [] step = "mapping" -> 8
                 [] step = "invoice" -> 7
                 [] step = "register" -> 6
                 [] step = "pay" -> 5
                 [] step = "clear" -> 4
                 [] step \in {"announce", "list"} -> 3
                 [] step \in {"next", "save"} -> 2
                 [] step \in {"ack", "reject"} -> 1
                 [] OTHER -> 0

\* The steps for one company, with all the attempts.
PerCompany == 3 * MAX_RETRIES + 5

StepsLeft == Cardinality(Todo) * PerCompany + 3 * (MAX_RETRIES - job.attempt) + Ahead(pc)

\* Only event_ended has companies to do, and it lists them first.
FiniteTodo == /\ IsFiniteSet(job.todo)
              /\ pc = "list" => job.todo = {}
              /\ cur \in Order \cup Request => job.todo = {}

LEMMA CompaniesAreFinite ==
  ASSUME TypeOK
  PROVE  IsFiniteSet(PendingCompanies)
<1>1. IsFiniteSet(pending)
  <2>1. Len(saved) \in Nat /\ pending \subseteq 1..Len(saved)
    BY LenProperties DEF TypeOK, Row
  <2>2. IsFiniteSet(1..Len(saved))
    BY <2>1, FS_Interval
  <2>3. QED
    BY <2>1, <2>2, FS_Subset
<1>2. [n \in pending |-> CompanyOf[saved[n]]] \in Surjection(pending, PendingCompanies)
  BY DEF Surjection, PendingCompanies
<1>3. QED
  BY <1>1, <1>2, FS_Surjection

\* Three ways to come closer to the end: to the next step, to the next attempt, to the next
\* company.
NextStep    == Todo' = Todo /\ job'.attempt = job.attempt /\ Ahead(pc)' < Ahead(pc)
NextTry     == /\ Todo' = Todo /\ job'.attempt = job.attempt + 1
               /\ pc \in {"account", "mapping", "invoice"} /\ pc' = "account"
NextCompany == /\ \E c \in Todo : Todo' = Todo \ {c}
               /\ pc = "next" /\ pc' \in {"next", "account"}
               /\ job'.attempt \in {1, job.attempt}

LEMMA CloserIsLess ==
  ASSUME TypeOK, TypeOK', IsFiniteSet(Todo), NextStep \/ NextTry \/ NextCompany
  PROVE  StepsLeft' < StepsLeft
<1>1. /\ MAX_RETRIES \in Nat \ {0} /\ PerCompany \in Nat
      /\ job.attempt \in 1..MAX_RETRIES /\ job'.attempt \in 1..MAX_RETRIES
  BY BoundAssumption DEF TypeOK, Job, PerCompany
<1>2. Cardinality(Todo) \in Nat /\ Cardinality(Todo) * PerCompany \in Nat
  BY <1>1, FS_CardinalityType
<1>3. Ahead(pc) \in Nat /\ Ahead(pc)' \in Nat
  BY DEF Ahead
<1>4. CASE NextStep
  BY <1>1, <1>2, <1>3, <1>4 DEF NextStep, StepsLeft
<1>5. CASE NextTry
  <2>1. Ahead(pc) \in 7..9 /\ Ahead(pc)' = 9
    BY <1>5 DEF NextTry, Ahead
  <2>2. Todo' = Todo /\ job'.attempt = job.attempt + 1
    BY <1>5 DEF NextTry
  <2>3. QED
    BY <1>1, <1>2, <2>1, <2>2 DEF StepsLeft
<1>6. CASE NextCompany
  <2>1. PICK c \in Todo : Todo' = Todo \ {c}
    BY <1>6 DEF NextCompany
  <2>2. Cardinality(Todo') = Cardinality(Todo) - 1 /\ Cardinality(Todo') \in Nat
    BY <2>1, FS_RemoveElement, FS_CardinalityType
  <2>3. Cardinality(Todo') * PerCompany + PerCompany = Cardinality(Todo) * PerCompany
        /\ Cardinality(Todo') * PerCompany \in Nat
    BY <1>1, <1>2, <2>2
  <2>4. Ahead(pc) = 2 /\ Ahead(pc)' \in {2, 9}
    BY <1>6 DEF NextCompany, Ahead
  <2>5. QED
    BY <1>1, <1>2, <2>3, <2>4 DEF StepsLeft, PerCompany
<1>7. QED
  BY <1>4, <1>5, <1>6

\* Every step of a handler comes closer to its end.
LEMMA CloserStep ==
  ASSUME TypeOK, InHand, FiniteTodo, HandlerStep
  PROVE  NextStep \/ NextTry \/ NextCompany
<1>1. job \in Job /\ NoMessage \notin Message
  BY KindAssumption DEF TypeOK
<1>2. ASSUME pc # "list", pc' # "list", job'.todo = job.todo, job'.attempt = job.attempt,
             Ahead(pc)' < Ahead(pc)
      PROVE  NextStep
  BY <1>2 DEF NextStep, Todo
<1>3. ASSUME Retry \/ NextAttempt, pc \in {"account", "mapping", "invoice"}
      PROVE  NextStep \/ NextTry
  <2>1. NextAttempt
    BY <1>3 DEF Retry
  <2>2. CASE job.attempt < MAX_RETRIES
    <3>1. pc' = "account" /\ job' = [job EXCEPT !.attempt = @ + 1]
      BY <2>1, <2>2 DEF NextAttempt
    <3>2. QED
      BY <1>1, <1>3, <3>1 DEF NextTry, Todo, Job
  <2>3. CASE ~(job.attempt < MAX_RETRIES)
    <3>1. pc' \in {"next", "reject"} /\ job' \in {job, [job EXCEPT !.errors = TRUE]}
      BY <2>1, <2>3 DEF NextAttempt
    <3>2. job'.todo = job.todo /\ job'.attempt = job.attempt
      BY <1>1, <3>1 DEF Job
    <3>3. QED
      BY <1>2, <1>3, <3>1, <3>2 DEF Ahead
  <2>4. QED
    BY <2>2, <2>3
<1>4. ASSUME Fail
      PROVE  /\ job'.todo = job.todo /\ job'.attempt = job.attempt
             /\ pc' = (IF cur \in Event THEN "next" ELSE "reject")
  BY <1>1, <1>4 DEF Fail, Job
<1>5. CASE save_items \/ save_invoice_correlation \/ mark_invoice_as_paid
  <2>1. cur \notin Event
    BY <1>5, KindAssumption DEF save_items, save_invoice_correlation, mark_invoice_as_paid, InHand,
       OrderSteps, RequestSteps
  <2>2. QED
    BY <1>2, <1>4, <1>5, <2>1
    DEF save_items, save_invoice_correlation, mark_invoice_as_paid, Continue, Ahead
<1>6. CASE get_items_by_correlation_id
  <2>1. cur \notin Event
    BY <1>6, KindAssumption DEF get_items_by_correlation_id, InHand, RequestSteps
  <2>2. pc = "meta" /\ pc' \in {"ack", "account", "reject"}
    BY <1>4, <1>6, <2>1 DEF get_items_by_correlation_id, Continue
  <2>3. job'.todo = job.todo /\ job'.attempt = job.attempt
    <3>1. CASE Fail
      BY <1>4, <3>1
    <3>2. CASE ~Fail
      <4>1. \/ job' = job
            \/ job' = [job EXCEPT !.company = CompanyOf[OrderOf[cur]],
                                  !.rows = RowsOfCompany(CompanyOf[OrderOf[cur]])]
        BY <1>6, <3>2 DEF get_items_by_correlation_id, Continue
      <4>2. QED
        BY ONLY <1>1, <4>1 DEF Job
    <3>3. QED
      BY <3>1, <3>2
  <2>4. QED
    BY <1>2, <2>2, <2>3 DEF Ahead
<1>7. CASE get_pending_company_ids
  <2>1. pc = "list" /\ pc' \in {"ack", "next"}
    BY <1>7 DEF get_pending_company_ids
  <2>2. job'.attempt = job.attempt /\ job'.todo = PendingCompanies
    <3>1. CASE pending = {}
      BY <1>7, <2>1, <3>1 DEF get_pending_company_ids, FiniteTodo, PendingCompanies
    <3>2. CASE pending # {}
      BY <1>1, <1>7, <3>2 DEF get_pending_company_ids, PendingCompanies, Job
    <3>3. QED
      BY <3>1, <3>2
  <2>3. QED
    BY <2>1, <2>2 DEF NextStep, Todo, Ahead
<1>8. CASE EventEnds
  BY <1>2, <1>8 DEF EventEnds, Continue, Ahead
<1>9. ASSUME NEW c \in Company, get_items_for_company(c)
      PROVE  NextCompany
  <2>1. /\ pc = "next" /\ c \in job.todo /\ pc' \in {"next", "account"}
        /\ job'.todo = job.todo \ {c} /\ job'.attempt \in {1, job.attempt}
    BY <1>1, <1>9 DEF get_items_for_company, Job
  <2>2. QED
    BY <2>1 DEF NextCompany, Todo
<1>10. CASE _get_or_create_billing_client
  BY <1>1, <1>2, <1>3, <1>10 DEF _get_or_create_billing_client, UseClient, Ahead, Job
<1>11. CASE save_company_client_id
  BY <1>2, <1>3, <1>11 DEF save_company_client_id, Continue, Ahead
<1>12. CASE _create_invoice
  BY <1>1, <1>2, <1>3, <1>12 DEF _create_invoice, Ahead, Job
<1>13. CASE ClientNotFound
  BY <1>2, <1>3, <1>4, <1>13 DEF ClientNotFound, Ahead
<1>14. CASE clear_by_ids
  BY <1>2, <1>4, <1>14 DEF clear_by_ids, Continue, Ahead
<1>15. CASE Announce
  BY <1>1, <1>2, <1>15 DEF Announce, Ahead, Job
<1>16. CASE basic_ack \/ send_to_dlq
  BY <1>2, <1>16 DEF basic_ack, send_to_dlq, Idle, Ahead
<1>17. QED
  BY <1>5, <1>6, <1>7, <1>8, <1>9, <1>10, <1>11, <1>12, <1>13, <1>14, <1>15, <1>16
  DEF HandlerStep

\* Nobody but the handler touches its step, its variables and the rows it may list.
LEMMA OthersWait ==
  ASSUME InHand, [Next]_vars, ~HandlerStep, cur' = cur
  PROVE  UNCHANGED <<pc, job, saved, pending>>
BY KindAssumption
DEF Next, vars, delivery, database, billing, outcome, Take, D!Take, DropDuplicate, Escape,
    D!Return, Crash, D!Restart, RemoveClient, InHand, Message, Idle

LEMMA FiniteStep ==
  ASSUME TypeOK, InHand, FiniteTodo, [Next]_vars
  PROVE  FiniteTodo'
<1>1. CASE HandlerStep
  <2>1. IsFiniteSet(Todo)
    BY CompaniesAreFinite DEF Todo, FiniteTodo
  <2>2. IsFiniteSet(Todo')
    BY <1>1, <2>1, CloserStep, FS_Subset DEF NextStep, NextTry, NextCompany
  <2>3. pc' # "list"
    BY <1>1 DEF HandlerStep, basic_ack, send_to_dlq, Idle, save_items,
       get_items_by_correlation_id, save_invoice_correlation, mark_invoice_as_paid,
       get_pending_company_ids, EventEnds, get_items_for_company,
       _get_or_create_billing_client, save_company_client_id, _create_invoice, ClientNotFound,
       clear_by_ids, Announce, Continue, Fail, Retry, NextAttempt, UseClient
  <2>4. ASSUME cur' \in Order \cup Request
        PROVE  job'.todo = {}
    <3>1. cur' = cur
      BY <1>1, <2>4, KindAssumption
      DEF HandlerStep, basic_ack, send_to_dlq, Idle, D!Settle, save_items, delivery,
          get_items_by_correlation_id, save_invoice_correlation, mark_invoice_as_paid,
          get_pending_company_ids, EventEnds, get_items_for_company,
          _get_or_create_billing_client, save_company_client_id, _create_invoice, ClientNotFound,
          clear_by_ids, Announce, Message
    <3>2. pc \notin EventSteps /\ job.todo = {}
      BY <2>4, <3>1, KindAssumption DEF InHand, FiniteTodo
    <3>3. NextStep \/ NextTry
      BY <1>1, <3>2, CloserStep DEF NextCompany, EventSteps
    <3>4. QED
      BY <2>3, <3>2, <3>3 DEF NextStep, NextTry, Todo, EventSteps
  <2>5. QED
    BY <2>2, <2>3, <2>4 DEF Todo, FiniteTodo
<1>2. CASE ~HandlerStep
  <2>1. \/ UNCHANGED <<pc, job, cur>>
        \/ job' = NoJob
        \/ pc' = "idle" /\ UNCHANGED job /\ cur' = NoMessage
    BY <1>2 DEF Next, vars, delivery, Take, DropDuplicate, D!Discard, Escape, D!Return,
       Crash, D!Restart, RemoveClient, Idle
  <2>2. QED
    BY <2>1, FS_EmptySet, KindAssumption DEF FiniteTodo, NoJob, Message
<1>3. QED
  BY <1>1, <1>2

-----------------------------------------------------------------------------
Inv == /\ TypeOK
       /\ InHand
       /\ Carried /\ NoRowLost
       /\ Registered /\ RequestAckMeansBilled /\ ToldRegistered /\ RegistryOwn
       /\ Remaining /\ EventAckMeansBilled
       /\ Mapped /\ InvoicesMapped
       /\ Own /\ InvoicesOwn

LEMMA InitInv == Init => Inv
<1> SUFFICES ASSUME Init PROVE Inv
  OBVIOUS
<1>1. TypeOK /\ InHand
  BY KindAssumption, ContentAssumption, BoundAssumption
  DEF Init, TypeOK, InHand, NoJob, Job, Row, Client, Steps, OrderSteps, RequestSteps, EventSteps,
      BillingSteps, InvoiceSteps
<1>2. pc = "idle" /\ DOMAIN invoices = {} /\ told = {} /\ registry = {} /\ Row = {}
  BY DEF Init, Row
<1>3. QED
  BY <1>1, <1>2 DEF Inv, Carried, NoRowLost, Registered, RequestAckMeansBilled, ToldRegistered,
     RegistryOwn, Remaining, EventAckMeansBilled, Mapped, InvoicesMapped, Own, InvoicesOwn, InvoiceSteps,
     BillingSteps

LEMMA InvHolds == Spec => []Inv
<1>1. Inv /\ [Next]_vars => Inv'
  BY TypeStep, RowsStep, RegisteredStep, RequestStep, EventStep, MappedStep, OwnStep DEF Inv
<1>2. QED
  BY <1>1, InitInv, PTL DEF Spec

\* The variables keep their types, whatever is stored, billed and retried.
THEOREM TypeCorrect == Spec => []TypeOK
<1>1. Inv => TypeOK
  BY DEF Inv
<1>2. QED
  BY <1>1, InvHolds, PTL

\* No consumption is forgotten, whatever write fails and wherever the process dies.
THEOREM RowsAreKept == Spec => []NoRowLost
<1>1. Inv => NoRowLost
  BY DEF Inv
<1>2. QED
  BY <1>1, InvHolds, PTL

\* A request is acknowledged with nothing to bill, or billed, registered, paid if it was, and
\* cleared.
THEOREM RequestsAreBilled == Spec => []RequestAckMeansBilled
<1>1. Inv => RequestAckMeansBilled
  BY DEF Inv
<1>2. QED
  BY <1>1, InvHolds, PTL

\* event_ended is acknowledged when all that was pending when it began is billed and cleared.
THEOREM EventsAreBilled == Spec => []EventAckMeansBilled
<1>1. Inv => EventAckMeansBilled
  BY DEF Inv
<1>2. QED
  BY <1>1, InvHolds, PTL

\* The invoices of a company are with one client, as long as FossBilling keeps it.
THEOREM AccountsAreSingle == Spec => []OneAccountPerCompany
<1>1. Inv => OneAccountPerCompany
  BY DEF Inv, InvoicesMapped, OneAccountPerCompany
<1>2. QED
  BY <1>1, InvHolds, PTL

\* An invoice carries rows of one company only, that of the order a request names: whatever was
\* stored, billed or retried between get_items_by_correlation_id and _create_invoice.
THEOREM InvoicesKeepToOneCompany ==
  Spec => [](\A i \in DOMAIN invoices :
               /\ \A n \in invoices[i].rows : CompanyOf[saved[n]] = invoices[i].company
               /\ invoices[i].for \in Request =>
                    invoices[i].company = CompanyOf[OrderOf[invoices[i].for]])
<1>1. Inv => \A i \in DOMAIN invoices :
               /\ \A n \in invoices[i].rows : CompanyOf[saved[n]] = invoices[i].company
               /\ invoices[i].for \in Request =>
                    invoices[i].company = CompanyOf[OrderOf[invoices[i].for]]
  BY DEF Inv, InvoicesOwn, OwnInvoice
<1>2. QED
  BY <1>1, InvHolds, PTL

\* The documentation's words, that an invoice_request bills the rows of its order and no others,
\* hold when no two orders are of the same company.  (Otherwise not: run ConsumptionMatched.)
THEOREM MatchedIfOneOrderPerCompany ==
  ASSUME \A o, p \in Order : CompanyOf[o] = CompanyOf[p] => o = p
  PROVE  Spec => []OnlyMatchedRows
<1>1. Inv => OnlyMatchedRows
  <2> SUFFICES ASSUME Inv, NEW i \in DOMAIN invoices, invoices[i].for \in Request,
                      NEW n \in invoices[i].rows
               PROVE  saved[n] = OrderOf[invoices[i].for]
    BY DEF OnlyMatchedRows
  <2>1. n \in Row /\ CompanyOf[saved[n]] = CompanyOf[OrderOf[invoices[i].for]]
    BY DEF Inv, InvoicesOwn, OwnInvoice
  <2>2. saved[n] \in Order
    BY <2>1, LenProperties DEF Inv, TypeOK, Row
  <2>3. QED
    BY <2>1, <2>2, ContentAssumption
<1>2. QED
  BY <1>1, InvHolds, PTL

\* A handler ends, whatever fails: each of its steps leaves fewer to take, and nobody else's adds
\* one.  An order or a request takes 3 * MAX_RETRIES + 7 steps at most; an event takes PerCompany
\* at most for each company with pending rows, and 3 * MAX_RETRIES beside.
THEOREM HandlersDescend ==
  Spec => /\ [](/\ StepsLeft \in 0..(Cardinality(Todo) * PerCompany + 3 * MAX_RETRIES + 7)
                /\ IsFiniteSet(Todo)
                /\ cur \in Order \cup Request => Todo = {})
          /\ [][HandlerStep => StepsLeft' < StepsLeft]_vars
          /\ [][~HandlerStep /\ cur' = cur => StepsLeft' = StepsLeft]_vars
<1>1. Init => FiniteTodo
  BY FS_EmptySet DEF Init, NoJob, FiniteTodo
<1>2. Inv /\ FiniteTodo /\ [Next]_vars => FiniteTodo'
  BY FiniteStep DEF Inv
<1>3. Inv /\ FiniteTodo =>
        /\ StepsLeft \in 0..(Cardinality(Todo) * PerCompany + 3 * MAX_RETRIES + 7)
        /\ IsFiniteSet(Todo)
        /\ cur \in Order \cup Request => Todo = {}
  <2> SUFFICES ASSUME Inv, FiniteTodo
               PROVE  /\ StepsLeft \in 0..(Cardinality(Todo) * PerCompany + 3 * MAX_RETRIES + 7)
                      /\ IsFiniteSet(Todo)
                      /\ cur \in Order \cup Request => Todo = {}
    OBVIOUS
  <2>1. IsFiniteSet(Todo) /\ Cardinality(Todo) \in Nat
    BY CompaniesAreFinite, FS_CardinalityType DEF Inv, Todo, FiniteTodo
  <2>2. /\ MAX_RETRIES \in Nat /\ PerCompany \in Nat /\ job.attempt \in 1..MAX_RETRIES
        /\ Ahead(pc) \in 0..10
    BY BoundAssumption DEF PerCompany, Inv, TypeOK, Job, Ahead
  <2>3. Cardinality(Todo) * PerCompany \in Nat
    BY <2>1, <2>2
  <2>4. StepsLeft \in 0..(Cardinality(Todo) * PerCompany + 3 * MAX_RETRIES + 7)
    BY <2>2, <2>3 DEF StepsLeft
  <2>5. cur \in Order \cup Request => Todo = {}
    BY KindAssumption DEF Inv, InHand, EventSteps, Todo, FiniteTodo
  <2>6. QED
    BY <2>1, <2>4, <2>5
<1>4. Inv /\ Inv' /\ FiniteTodo /\ [Next]_vars =>
        [HandlerStep => StepsLeft' < StepsLeft]_vars
  <2>1. Inv /\ FiniteTodo => IsFiniteSet(Todo)
    BY <1>3
  <2>2. QED
    BY <2>1, CloserStep, CloserIsLess DEF Inv
<1>5. Inv /\ [Next]_vars => [~HandlerStep /\ cur' = cur => StepsLeft' = StepsLeft]_vars
  BY OthersWait DEF Inv, StepsLeft, Todo, PendingCompanies
<1>6. QED
  BY <1>1, <1>2, <1>3, <1>4, <1>5, InvHolds, PTL DEF Spec
=============================================================================
