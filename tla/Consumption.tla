----------------------------- MODULE Consumption -----------------------------
(***************************************************************************)
(* The billing of consumptions: consumption_order stores rows in MySQL     *)
(* (consumption_store), invoice_request and event_ended turn the pending   *)
(* rows of a company into a FossBilling invoice (process_consumption_order)*)
(* and then delete them.  MySQL and FossBilling share no transaction, so   *)
(* each write is a step of its own, which can succeed, fail without a      *)
(* trace, or take effect and fail to say so; and the process can die       *)
(* between any two.                                                        *)
(*                                                                         *)
(* Messages reach the handlers as module Delivery says, which module       *)
(* Receiver implements: each has an id of its own and is valid.            *)
(* Abstracted: item lines are their rows (grouping keeps the quantities),  *)
(* and the company_name and email columns, which nothing here depends on.  *)
(***************************************************************************)
EXTENDS Naturals, Sequences, FiniteSets

CONSTANTS
  Order, Request, Event,  \* consumption_order, invoice_request, event_ended messages
  Company,                \* values of company_id, the empty one included
  Address,                \* e-mail addresses FossBilling knows its clients by
  Finds,                  \* addresses that FossBilling's search for an address matches
  CompanyOf,              \* body/customer/id of an order
  RowsOf,                 \* number of items of an order
  OrderOf,                \* header/correlation_id of a request: an order's id
  AddressOf,              \* invoice_data/email of a request
  PaidRequest,            \* requests whose payment_status is paid
  NoVatRequest,           \* requests of a company that lack the vat_number
  _billing_email,         \* the address made up for a company at event_ended
  MAX_RETRIES,            \* attempts of process_consumption_order
  NoMessage, NoClient,
  MaxFaults               \* bound: failed writes, crashes, deleted clients

Message == Order \cup Request \cup Event

ASSUME KindAssumption == /\ Order \cap Request = {}
                         /\ Order \cap Event = {}
                         /\ Request \cap Event = {}
                         /\ NoMessage \notin Message
ASSUME ContentAssumption == /\ CompanyOf \in [Order -> Company]
                            /\ RowsOf \in [Order -> Nat \ {0}]
                            /\ OrderOf \in [Request -> Order]
                            /\ AddressOf \in [Request -> Address]
                            /\ Finds \in [Address -> SUBSET Address]
                            /\ \A a \in Address : a \in Finds[a]
                            /\ PaidRequest \subseteq Request
                            /\ NoVatRequest \subseteq Request
                            /\ _billing_email \in [Company -> Address]
ASSUME BoundAssumption == /\ MAX_RETRIES \in Nat \ {0}
                          /\ NoClient \notin Nat
                          /\ MaxFaults \in Nat

VARIABLES
  inbox,     \* messages waiting in facturatie.incoming
  taken,     \* seen_message_ids
  cur,       \* the message whose handler runs
  pc,        \* the write the handler does next
  job,       \* the local variables of the handler
  saved,     \* every row inserted so far: row n came from order saved[n]
  pending,   \* pending_consumptions: the ids of its rows
  accounts,  \* company_accounts
  registry,  \* invoice_registry
  clients,   \* FossBilling's clients: the address of each
  removed,   \* clients deleted in FossBilling
  invoices,  \* FossBilling's invoices
  told,      \* invoices whose invoice_status reached the CRM
  acked,     \* history: messages settled by basic_ack after their handler
  dead,      \* history: messages sent to the dead letter queue
  faults     \* how many faults happened (at most MaxFaults)

delivery == <<inbox, taken, cur>>
database == <<saved, pending, accounts, registry>>
billing  == <<clients, removed, invoices>>
outcome  == <<told, acked, dead>>
vars     == <<delivery, pc, job, database, billing, outcome, faults>>

Row     == 1..Len(saved)
Client  == 1..Len(clients)
Billed  == UNION {invoices[i].rows : i \in DOMAIN invoices}

RowsOfCompany(c) == {n \in pending : CompanyOf[saved[n]] = c}

NoJob == [todo |-> {}, listed |-> {}, errors |-> FALSE, company |-> NoMessage,
          rows |-> {}, attempt |-> 1, client |-> NoClient, invoice |-> 0]

Init ==
  /\ inbox = Message
  /\ taken = {}
  /\ cur = NoMessage
  /\ pc = "idle"
  /\ job = NoJob
  /\ saved = <<>>
  /\ pending = {}
  /\ accounts = [c \in Company |-> NoClient]
  /\ registry = {}
  /\ clients = <<>>
  /\ removed = {}
  /\ invoices = <<>>
  /\ told = {}
  /\ acked = {}
  /\ dead = {}
  /\ faults = 0

Fault == faults < MaxFaults /\ faults' = faults + 1

-----------------------------------------------------------------------------
(* How a handler begins and ends *)

Self == [m \in Message |-> m]

D == INSTANCE Delivery WITH Id <- Message, IdOf <- Self, Refused <- {}

First(m) == IF m \in Order THEN "save"
            ELSE IF m \in Event THEN "list"
            ELSE IF m \in NoVatRequest THEN "reject" ELSE "meta"

Take(m) ==
  /\ D!Take(m)
  /\ pc' = First(m)
  /\ job' = NoJob
  /\ UNCHANGED <<database, billing, outcome, faults>>

DropDuplicate(m) ==
  /\ D!Discard(m)
  /\ UNCHANGED <<pc, job, database, billing, outcome, faults>>

Idle == pc' = "idle" /\ UNCHANGED job

basic_ack ==
  /\ pc = "ack"
  /\ D!Settle /\ Idle
  /\ acked' = acked \cup {cur}
  /\ UNCHANGED <<database, billing, told, dead, faults>>

send_to_dlq ==
  /\ pc = "reject"
  /\ D!Settle /\ Idle
  /\ dead' = dead \cup {cur}
  /\ UNCHANGED <<database, billing, told, acked, faults>>

\* The connection died under the handler, or get_pending_company_ids failed: the
\* exception escapes and RabbitMQ keeps the message.
Escape ==
  /\ pc \in {"list", "ack", "reject"}
  /\ Fault
  /\ D!Return /\ Idle
  /\ UNCHANGED <<database, billing, outcome>>

Crash ==
  /\ Fault
  /\ D!Restart /\ Idle
  /\ UNCHANGED <<database, billing, outcome>>

-----------------------------------------------------------------------------
(* Where a handler goes on, and where its except clauses lead *)

Continue(step) == pc' = step /\ UNCHANGED <<job, faults>>

\* Mutation: event_ended forgets the error.
FailUnnoticed ==
  /\ Fault
  /\ IF cur \in Event THEN pc' = "next" ELSE pc' = "reject"
  /\ UNCHANGED job

\* event_ended notes the error and goes to the next company; the others reject.
Fail ==
  /\ Fault
  /\ IF cur \in Event
     THEN pc' = "next" /\ job' = [job EXCEPT !.errors = TRUE]
     ELSE pc' = "reject" /\ UNCHANGED job

\* Mutation: one attempt too many.
NextAttemptTooMany ==
  IF job.attempt <= MAX_RETRIES
  THEN pc' = "account" /\ job' = [job EXCEPT !.attempt = @ + 1]
  ELSE IF cur \in Event
  THEN pc' = "next" /\ job' = [job EXCEPT !.errors = TRUE]
  ELSE pc' = "reject" /\ UNCHANGED job

\* process_consumption_order tries everything again, MAX_RETRIES times in all.
NextAttempt ==
  IF job.attempt < MAX_RETRIES
  THEN pc' = "account" /\ job' = [job EXCEPT !.attempt = @ + 1]
  ELSE IF cur \in Event
  THEN pc' = "next" /\ job' = [job EXCEPT !.errors = TRUE]
  ELSE pc' = "reject" /\ UNCHANGED job

Retry == Fault /\ NextAttempt

-----------------------------------------------------------------------------
(* consumption_order *)

\* Mutation: inserts the items again after they were inserted.
save_items_again ==
  /\ pc = "save"
  /\ saved' = saved \o [k \in 1..RowsOf[cur] |-> cur]
  /\ pending' = pending \cup (Len(saved) + 1)..(Len(saved) + RowsOf[cur])
  /\ UNCHANGED faults
  /\ pc' \in {"save", "ack"}
  /\ UNCHANGED <<delivery, job, accounts, registry, billing, outcome>>

save_items ==
  /\ pc = "save"
  /\ LET rows == [k \in 1..RowsOf[cur] |-> cur]
         Insert == /\ saved' = saved \o rows
                   /\ pending' = pending \cup (Len(saved) + 1)..(Len(saved) + RowsOf[cur])
     IN \/ Insert /\ Continue("ack")
        \/ Insert /\ Fail
        \/ UNCHANGED <<saved, pending>> /\ Fail
  /\ UNCHANGED <<delivery, accounts, registry, billing, outcome>>

-----------------------------------------------------------------------------
(* invoice_request *)

\* update_meta_by_correlation_id; then get_items_by_correlation_id finds the company
\* by the order and takes every pending row of that company.
get_items_by_correlation_id ==
  /\ pc = "meta"
  /\ LET company == CompanyOf[OrderOf[cur]]
         matched == {n \in pending : saved[n] = OrderOf[cur]}
     IN \/ matched = {} /\ Continue("ack")
        \/ /\ matched # {}
           /\ pc' = "account"
           /\ job' = [job EXCEPT !.company = company, !.rows = RowsOfCompany(company)]
           /\ UNCHANGED faults
        \/ Fail
  /\ UNCHANGED <<delivery, database, billing, outcome>>

\* Mutation: payment_status is ignored.
save_invoice_correlation_unpaid ==
  /\ pc = "register"
  /\ registry' = registry \cup {<<job.invoice, cur>>}
  /\ Continue("clear")
  /\ UNCHANGED <<delivery, saved, pending, accounts, billing, outcome>>

save_invoice_correlation ==
  /\ pc = "register"
  /\ \/ /\ registry' = registry \cup {<<job.invoice, cur>>}
        /\ Continue(IF cur \in PaidRequest THEN "pay" ELSE "clear")
     \/ registry' = registry \cup {<<job.invoice, cur>>} /\ Fail
     \/ UNCHANGED registry /\ Fail
  /\ UNCHANGED <<delivery, saved, pending, accounts, billing, outcome>>

\* The candidates for what a payment that quotes q is booked on: the rows of the
\* registry for q, of which LIMIT 1 returns any one (correlation_id is no unique key).
get_invoice_id_by_correlation_id(q) == {i \in DOMAIN invoices : <<i, q>> \in registry}

mark_invoice_as_paid ==
  /\ pc = "pay"
  /\ \/ invoices' = [invoices EXCEPT ![job.invoice].paid = TRUE] /\ Continue("clear")
     \/ invoices' = [invoices EXCEPT ![job.invoice].paid = TRUE] /\ Fail
     \/ UNCHANGED invoices /\ Fail
  /\ UNCHANGED <<delivery, database, clients, removed, outcome>>

-----------------------------------------------------------------------------
(* event_ended *)

\* Mutation: finds one company only.
get_pending_company_ids_first ==
  /\ pc = "list"
  /\ IF pending = {}
     THEN pc' = "ack" /\ UNCHANGED job
     ELSE /\ pc' = "next"
          /\ job' = [job EXCEPT !.todo = {CHOOSE c \in Company : RowsOfCompany(c) # {}},
                                !.listed = pending]
  /\ UNCHANGED <<delivery, database, billing, outcome, faults>>

get_pending_company_ids ==
  /\ pc = "list"
  /\ IF pending = {}
     THEN pc' = "ack" /\ UNCHANGED job
     ELSE /\ pc' = "next"
          /\ job' = [job EXCEPT !.todo = {CompanyOf[saved[n]] : n \in pending},
                                !.listed = pending]
  /\ UNCHANGED <<delivery, database, billing, outcome, faults>>

\* Mutation: the company stays on the list.
get_items_for_company_again(c) ==
  /\ pc = "next"
  /\ c \in job.todo
  /\ job' = [job EXCEPT !.company = c, !.attempt = 1, !.rows = RowsOfCompany(c)]
  /\ pc' = IF RowsOfCompany(c) = {} THEN "next" ELSE "account"
  /\ UNCHANGED <<delivery, database, billing, outcome, faults>>

\* get_items_for_company and get_company_meta, for the next company of the list.
get_items_for_company(c) ==
  /\ pc = "next"
  /\ c \in job.todo
  /\ \/ /\ job' = [job EXCEPT !.todo = @ \ {c}, !.company = c, !.attempt = 1,
                              !.rows = RowsOfCompany(c)]
        /\ pc' = IF RowsOfCompany(c) = {} THEN "next" ELSE "account"
        /\ UNCHANGED faults
     \/ /\ Fault
        /\ job' = [job EXCEPT !.todo = @ \ {c}, !.errors = TRUE]
        /\ UNCHANGED pc
  /\ UNCHANGED <<delivery, database, billing, outcome>>

EventEnds ==
  /\ pc = "next"
  /\ job.todo = {}
  /\ Continue(IF job.errors THEN "reject" ELSE "ack")
  /\ UNCHANGED <<delivery, database, billing, outcome>>

-----------------------------------------------------------------------------
(* process_consumption_order *)

BillingAddress == IF cur \in Request THEN AddressOf[cur] ELSE _billing_email[job.company]

\* The code takes the first client the search returns, whatever its address.
_get_client_by_email == {k \in Client \ removed : clients[k] \in Finds[BillingAddress]}

UseClient(k, step) == pc' = step /\ job' = [job EXCEPT !.client = k] /\ UNCHANGED faults

\* The mapping of the company, else a client the search finds, else a new client.
_get_or_create_billing_client ==
  /\ pc = "account"
  /\ LET known  == accounts[job.company]
         Create == clients' = Append(clients, BillingAddress)
     IN \/ known # NoClient /\ UseClient(known, "invoice") /\ UNCHANGED clients
        \/ /\ known = NoClient
           /\ \E k \in _get_client_by_email : UseClient(k, "mapping")
           /\ UNCHANGED clients
        \/ /\ known = NoClient
           /\ _get_client_by_email = {}
           /\ Create
           /\ UseClient(Len(clients) + 1, "mapping") \/ Retry
        \/ UNCHANGED clients /\ Retry
  /\ UNCHANGED <<delivery, database, removed, invoices, outcome>>

\* Mutation: without a commit.
save_company_client_id_not ==
  /\ pc = "mapping"
  /\ Continue("invoice")
  /\ UNCHANGED <<delivery, database, billing, outcome>>

save_company_client_id ==
  /\ pc = "mapping"
  /\ LET Save == accounts' = [accounts EXCEPT ![job.company] = job.client]
     IN \/ Save /\ Continue("invoice")
        \/ Save /\ Retry
        \/ UNCHANGED accounts /\ Retry
  /\ UNCHANGED <<delivery, saved, pending, registry, billing, outcome>>

\* Mutations: a failure is swallowed; the registry is skipped.
_create_invoice_swallowed ==
  /\ pc = "invoice"
  /\ job.client \notin removed
  /\ Fault
  /\ pc' = "clear"
  /\ UNCHANGED <<delivery, job, database, billing, outcome>>

_create_invoice_unregistered ==
  /\ pc = "invoice"
  /\ job.client \notin removed
  /\ invoices' = Append(invoices, [client |-> job.client, rows |-> job.rows,
                          company |-> job.company, paid |-> FALSE, for |-> cur])
  /\ pc' = "clear"
  /\ job' = [job EXCEPT !.invoice = Len(invoices) + 1]
  /\ UNCHANGED <<delivery, database, clients, removed, outcome, faults>>

\* _create_invoice: one invoice for all the rows read.
_create_invoice ==
  /\ pc = "invoice"
  /\ LET Prepare == /\ job.client \notin removed
                    /\ invoices' = Append(invoices, [client |-> job.client, rows |-> job.rows,
                                     company |-> job.company, paid |-> FALSE, for |-> cur])
     IN \/ /\ Prepare
           /\ pc' = IF cur \in Request THEN "register" ELSE "clear"
           /\ job' = [job EXCEPT !.invoice = Len(invoices) + 1]
           /\ UNCHANGED faults
        \/ Prepare /\ Retry
        \/ UNCHANGED invoices /\ Retry
  /\ UNCHANGED <<delivery, database, clients, removed, outcome>>

\* FossBilling does not find the client: the mapping is deleted, for the next attempt.
\* A failure of the deletion escapes from the except clause and ends the attempts.
ClientNotFound ==
  /\ pc = "invoice"
  /\ job.client \in removed
  /\ LET Delete == accounts' = [accounts EXCEPT ![job.company] = NoClient]
     IN \/ Delete /\ NextAttempt /\ UNCHANGED faults
        \/ Delete /\ Fail
        \/ UNCHANGED accounts /\ Fail
  /\ UNCHANGED <<delivery, saved, pending, registry, billing, outcome>>

\* Mutation: without a commit.
clear_by_ids_not ==
  /\ pc = "clear"
  /\ Continue("announce")
  /\ UNCHANGED <<delivery, database, billing, outcome>>

clear_by_ids ==
  /\ pc = "clear"
  /\ LET Delete == pending' = pending \ job.rows
     IN \/ Delete /\ Continue("announce")
        \/ Delete /\ Fail
        \/ UNCHANGED pending /\ Fail
  /\ UNCHANGED <<delivery, saved, accounts, registry, billing, outcome>>

\* invoice_status, mailing and invoice_link: a failure is swallowed, except that
\* event_ended counts a failed mailing as an error.
Announce ==
  /\ pc = "announce"
  /\ pc' = IF cur \in Event THEN "next" ELSE "ack"
  /\ \/ told' = told \cup {job.invoice} /\ UNCHANGED <<job, faults>>
     \/ UNCHANGED <<told, job>> /\ Fault
     \/ /\ cur \in Event
        /\ told' = told \cup {job.invoice}
        /\ job' = [job EXCEPT !.errors = TRUE]
        /\ Fault
  /\ UNCHANGED <<delivery, database, billing, acked, dead>>

-----------------------------------------------------------------------------
(* An administrator deletes a client in FossBilling (external) *)
RemoveClient(k) ==
  /\ k \in Client \ removed
  /\ Fault
  /\ removed' = removed \cup {k}
  /\ UNCHANGED <<delivery, pc, job, database, clients, invoices, outcome>>

HandlerStep ==
  \/ save_items
  \/ get_items_by_correlation_id \/ save_invoice_correlation \/ mark_invoice_as_paid
  \/ get_pending_company_ids \/ EventEnds
  \/ \E c \in Company : get_items_for_company(c)
  \/ _get_or_create_billing_client \/ save_company_client_id
  \/ _create_invoice \/ ClientNotFound \/ clear_by_ids \/ Announce
  \/ basic_ack \/ send_to_dlq

Next ==
  \/ \E m \in Message : Take(m) \/ DropDuplicate(m)
  \/ HandlerStep
  \/ Escape \/ Crash
  \/ \E k \in Client : RemoveClient(k)

Spec == Init /\ [][Next]_vars

\* The receiver thread runs; nothing makes a fault happen.
FairSpec == /\ Spec
            /\ WF_vars(\E m \in Message : Take(m) \/ DropDuplicate(m))
            /\ WF_vars(HandlerStep)

-----------------------------------------------------------------------------
(* Properties *)

Job == [todo : SUBSET Company, listed : SUBSET Row, errors : BOOLEAN,
        company : Company \cup {NoMessage}, rows : SUBSET Row, attempt : 1..MAX_RETRIES,
        client : Client \cup {NoClient}, invoice : 0..Len(invoices)]

Steps == {"idle", "save", "meta", "register", "pay", "list", "next", "account", "mapping",
          "invoice", "clear", "announce", "ack", "reject"}

Invoice == [client : Client, rows : SUBSET Row, company : Company, paid : BOOLEAN,
            for : Request \cup Event]

TypeOK ==
  /\ inbox \subseteq Message
  /\ taken \subseteq Message
  /\ cur \in Message \cup {NoMessage}
  /\ pc \in Steps
  /\ job \in Job
  /\ saved \in Seq(Order)
  /\ pending \subseteq Row
  /\ accounts \in [Company -> Client \cup {NoClient}]
  /\ registry \subseteq (DOMAIN invoices) \X Request
  /\ clients \in Seq(Address)
  /\ removed \subseteq Client
  /\ invoices \in Seq(Invoice)
  /\ told \subseteq DOMAIN invoices
  /\ acked \subseteq Message
  /\ dead \subseteq Message
  /\ faults \in 0..MaxFaults

\* No consumption is forgotten: a row leaves pending_consumptions only when an invoice
\* carries it, whatever write fails and wherever the process dies (clear_by_ids comes
\* after the invoice and gets the ids the invoice was made from).
NoRowLost == Row \subseteq pending \cup Billed

InvoicesOf(n) == {i \in DOMAIN invoices : n \in invoices[i].rows}

\* A row is billed once, and once more at most for each fault: a retry, a redelivery
\* or a second trigger bills a row again only if a fault hid that it had been billed.
OverbillingNeedsFaults == \A n \in Row : Cardinality(InvoicesOf(n)) <= 1 + faults

\* An order is stored once, and once more at most for each fault.
OverstoringNeedsFaults ==
  \A o \in Order : Cardinality({n \in Row : saved[n] = o}) <= RowsOf[o] * (1 + faults)

\* A company has one billing account: its invoices are all with one client, as long as
\* FossBilling keeps that client (company_accounts over the two kinds of address).
OneAccountPerCompany ==
  \A i, j \in DOMAIN invoices :
    /\ invoices[i].company = invoices[j].company
    /\ {invoices[i].client, invoices[j].client} \cap removed = {}
    => invoices[i].client = invoices[j].client

\* event_ended is acknowledged only if every row pending when it began is billed and
\* cleared; the failure of one company neither stops the others nor goes unnoticed.
EventAckMeansBilled ==
  (pc = "ack" /\ cur \in Event) => job.listed \subseteq Billed \ pending

\* invoice_request is acknowledged only if it found nothing to bill, or its invoice
\* carries the rows, is in invoice_registry, is paid if it was paid at the counter,
\* and the rows are cleared.
RequestAckMeansBilled ==
  (pc = "ack" /\ cur \in Request /\ job.rows # {}) =>
    /\ invoices[job.invoice].rows = job.rows
    /\ <<job.invoice, cur>> \in registry
    /\ cur \in PaidRequest => invoices[job.invoice].paid
    /\ job.rows \cap pending = {}

\* When the CRM has been told of the invoice of a request, a payment that quotes the
\* request resolves to it: to no invoice of another request, and without a fault to that
\* very invoice; each other candidate of the lookup took a fault (a redelivery after a
\* crash registers a second invoice beside the first, and LIMIT 1 picks either).
ToldResolves ==
  \A i \in told : LET q     == invoices[i].for
                      found == get_invoice_id_by_correlation_id(q)
    IN q \in Request => /\ i \in found
                        /\ \A j \in found : invoices[j].for = q
                        /\ Cardinality(found) <= 1 + faults

\* What the documentation says of an invoice_request: it bills the rows of the order
\* it names, and no others.
OnlyMatchedRows ==
  \A i \in DOMAIN invoices : invoices[i].for \in Request =>
    \A n \in invoices[i].rows : saved[n] = OrderOf[invoices[i].for]

\* The retries end and the loop over the companies ends: every message taken is
\* settled, or back in the queue after a fault.
HandlersEnd == \A m \in Message : (cur = m) ~> (cur # m)

\* An event that left the queue without an ack or a dead letter: a fault cut its handler
\* short and its redelivery was discarded as a duplicate.
Lost(e) == e \notin inbox \cup {cur} \cup acked \cup dead

\* A row that is pending while an event_ended waits gets billed, through failed attempts
\* and restarts, unless the event shows up in the dead letter queue or is lost.
PendingGetsBilled ==
  \A n \in 1..Cardinality(Order) : \A e \in Event :
    (n \in pending /\ e \in inbox) ~> (n \in Billed \/ e \in dead \/ Lost(e))

-----------------------------------------------------------------------------
(* What the two databases promise together: module BillingLedger *)

Ledger == INSTANCE BillingLedger WITH
  Size    <- {RowsOf[o] : o \in Order},
  times   <- [n \in Row |-> Cardinality(InvoicesOf(n))],
  mishaps <- faults

\* Seen from the books, every step stores the consumptions of an order or puts some on
\* an invoice: one is billed again only after a fault that no other repetition used up.
ImplementsLedger == Ledger!Spec

=============================================================================
