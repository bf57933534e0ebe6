---------------------------- MODULE Registration ----------------------------
(***************************************************************************)
(* The handlers of new_registration and profile_update, which both find    *)
(* the client of an e-mail address with a search in FossBilling.  A        *)
(* registration first asks the identity service for the person's UUID, on  *)
(* a reply queue of its own and for five seconds, then makes client and    *)
(* invoice with retries, fetches the PDF over the admin web session, and   *)
(* mails it.                                                               *)
(*                                                                         *)
(* Messages are delivered as module Delivery says.  The identity service   *)
(* (external) may answer at any time, or never.  An identity stands as the *)
(* e-mail address it belongs to.  Names and addresses are abstracted.      *)
(***************************************************************************)
EXTENDS Naturals, Sequences, FiniteSets

CONSTANTS
  Registration, Update,  \* new_registration and profile_update messages
  Email,                 \* e-mail addresses, in lower case
  EmailOf,               \* the address a message carries
  Finds,                 \* addresses that FossBilling's search for an address matches
  Paid,                  \* registrations that were paid at the counter
  BadVat,                \* registrations whose VAT number has another format
  MAX_RETRIES,           \* attempts of create_registration_invoice
  NoMessage, NoClient,
  Traffic,               \* bound: the sets of messages that may come in one behaviour
  NoUuid, Refusal,       \* answers: ok without a master_uuid, and a status other than ok
  MaxFaults              \* bound: failed calls, crashes and bad answers

Message == Registration \cup Update

ASSUME KindAssumption == Registration \cap Update = {} /\ NoMessage \notin Message
ASSUME ContentAssumption == /\ EmailOf \in [Message -> Email]
                            /\ Finds \in [Email -> SUBSET Email]
                            /\ \A e \in Email : e \in Finds[e]
                            /\ Paid \subseteq Registration
                            /\ Traffic \subseteq SUBSET Message
                            /\ BadVat \subseteq Registration
                            /\ NoUuid \notin Email /\ Refusal \notin Email \cup {NoUuid}
ASSUME BoundAssumption == /\ MAX_RETRIES \in Nat \ {0}
                          /\ NoClient \notin Nat
                          /\ MaxFaults \in Nat

VARIABLES
  published, \* the messages of this behaviour
  inbox,     \* messages waiting in facturatie.incoming
  taken,     \* seen_message_ids
  cur,       \* the message whose handler runs
  pc,        \* the call the handler makes next
  job,       \* the local variables of the handler
  session,   \* the admin web session of get_invoice_pdf
  asked,     \* requests to the identity service: the address of each
  answers,   \* its answers, late ones included
  clients,   \* FossBilling's clients: the address of each
  invoices,  \* FossBilling's invoices
  mails,     \* send_mailing messages
  told,      \* messages whose invoice_status or vat_validation_error was sent
  acked,     \* history: messages settled by basic_ack
  dead,      \* history: messages sent to the dead letter queue
  slow,      \* history: registrations given up without an answer
  faults     \* how many faults happened (at most MaxFaults)

delivery == <<published, inbox, taken, cur>>
identity == <<asked, answers>>
books    == <<clients, invoices>>
outcome  == <<mails, told, acked, dead, slow>>
vars     == <<delivery, pc, job, session, identity, books, outcome, faults>>

Client == 1..Len(clients)

NoJob == [request |-> 0, uuid |-> NoUuid, attempt |-> 1, client |-> NoClient, invoice |-> 0]

Init ==
  /\ published \in Traffic
  /\ inbox = published
  /\ taken = {}
  /\ cur = NoMessage
  /\ pc = "idle"
  /\ job = NoJob
  /\ session = "none"
  /\ asked = <<>>
  /\ answers = {}
  /\ clients = <<>>
  /\ invoices = <<>>
  /\ mails = {}
  /\ told = {}
  /\ acked = {}
  /\ dead = {}
  /\ slow = {}
  /\ faults = 0

Fault == faults < MaxFaults /\ faults' = faults + 1

Continue(step) == pc' = step /\ UNCHANGED faults
Fail           == pc' = "reject" /\ Fault

-----------------------------------------------------------------------------
(* How a handler begins and ends *)

Self == [m \in Message |-> m]

D == INSTANCE Delivery WITH Id <- Message, IdOf <- Self, Refused <- {}

First(m) == IF m \in Update THEN "find" ELSE IF m \in BadVat THEN "refuse" ELSE "ask"

Take(m) ==
  /\ D!Take(m)
  /\ pc' = First(m)
  /\ job' = NoJob
  /\ UNCHANGED <<published, session, identity, books, outcome, faults>>

DropDuplicate(m) ==
  /\ D!Discard(m)
  /\ UNCHANGED <<published, pc, job, session, identity, books, outcome, faults>>

basic_ack ==
  /\ pc = "ack"
  /\ D!Settle
  /\ pc' = "idle"
  /\ acked' = acked \cup {cur}
  /\ UNCHANGED <<published, job, session, identity, books, mails, told, dead, slow, faults>>

send_to_dlq ==
  /\ pc = "reject"
  /\ D!Settle
  /\ pc' = "idle"
  /\ dead' = dead \cup {cur}
  /\ UNCHANGED <<published, job, session, identity, books, mails, told, acked, slow, faults>>

\* The settling of a message fails, on a connection that died under its handler.
Escape ==
  /\ pc \in {"ack", "reject"}
  /\ Fault
  /\ D!Return
  /\ pc' = "idle"
  /\ UNCHANGED <<published, job, session, identity, books, outcome>>

Crash ==
  /\ Fault
  /\ D!Restart
  /\ pc' = "idle"
  /\ session' = "none"
  /\ UNCHANGED <<published, job, identity, books, outcome>>

-----------------------------------------------------------------------------
(* new_registration: the VAT number, and the identity service *)

\* A failure is swallowed; the registration is acknowledged without an invoice.
publish_vat_validation_error ==
  /\ pc = "refuse"
  /\ pc' = "ack"
  /\ \/ told' = told \cup {cur} /\ UNCHANGED faults
     \/ UNCHANGED told /\ Fault
  /\ UNCHANGED <<delivery, job, session, identity, books, mails, acked, dead, slow>>

request_master_uuid ==
  /\ pc = "ask"
  /\ \/ /\ asked' = Append(asked, EmailOf[cur])
        /\ job' = [job EXCEPT !.request = Len(asked) + 1]
        /\ Continue("await")
     \/ UNCHANGED <<asked, job>> /\ Fail
  /\ UNCHANGED <<delivery, session, answers, books, outcome>>

\* The identity service (external) answers a request, in time or late.
Answer(k) ==
  /\ k \in 1..Len(asked)
  /\ \A a \in answers : a.to # k
  /\ \/ answers' = answers \cup {[to |-> k, uuid |-> asked[k]]} /\ UNCHANGED faults
     \/ \E bad \in {NoUuid, Refusal} : /\ answers' = answers \cup {[to |-> k, uuid |-> bad]}
                                      /\ Fault
  /\ UNCHANGED <<delivery, pc, job, session, asked, books, outcome>>

\* Mutation: one reply queue for all requests, and no look at the correlation_id.
AnyReply == answers

\* The answers in the request's own reply queue, with its correlation_id.
Replies == {a \in answers : a.to = job.request}

consume ==
  /\ pc = "await"
  /\ \/ \E a \in Replies :
          /\ job' = [job EXCEPT !.uuid = a.uuid]
          /\ Continue(IF a.uuid = Refusal THEN "reject" ELSE "client")
     \/ UNCHANGED job /\ Fail
  /\ UNCHANGED <<delivery, session, identity, books, outcome>>

\* Mutation: no inactivity_timeout.
NoDeadline == FALSE /\ UNCHANGED vars

\* Five seconds without an answer: the reply queue goes with the connection.
Deadline ==
  /\ pc = "await"
  /\ Replies = {}
  /\ slow' = slow \cup {cur}
  /\ Continue("reject")
  /\ UNCHANGED <<delivery, job, session, identity, books, mails, told, acked, dead>>

-----------------------------------------------------------------------------
(* create_registration_invoice: any failure leads to another attempt at all of it *)

\* Mutation: one attempt too many.
NextAttemptTooMany ==
  IF job.attempt <= MAX_RETRIES
  THEN pc' = "client" /\ job' = [job EXCEPT !.attempt = @ + 1]
  ELSE pc' = "reject" /\ UNCHANGED job

NextAttempt ==
  IF job.attempt < MAX_RETRIES
  THEN pc' = "client" /\ job' = [job EXCEPT !.attempt = @ + 1]
  ELSE pc' = "reject" /\ UNCHANGED job

Retry == Fault /\ NextAttempt

\* Mutation: the first client of the list, whatever its address.
_get_client_by_name == Client

\* The first of what the search finds: any of it, the order is FossBilling's.
_get_client_by_email == {k \in Client : clients[k] \in Finds[EmailOf[cur]]}

UseClient(k, step) == pc' = step /\ job' = [job EXCEPT !.client = k] /\ UNCHANGED faults

\* Mutation: creates without a search.
_create_client_always ==
  /\ pc = "client"
  /\ clients' = Append(clients, EmailOf[cur])
  /\ UseClient(Len(clients) + 1, "invoice") \/ Retry
  /\ UNCHANGED <<delivery, session, identity, invoices, outcome>>

_get_or_create_client ==
  /\ pc = "client"
  /\ \/ /\ \E k \in _get_client_by_email : UseClient(k, "invoice")
        /\ UNCHANGED clients
     \/ /\ _get_client_by_email = {}
        /\ clients' = Append(clients, EmailOf[cur])
        /\ UseClient(Len(clients) + 1, "invoice") \/ Retry
     \/ UNCHANGED clients /\ Retry
  /\ UNCHANGED <<delivery, session, identity, invoices, outcome>>

\* Mutation: the loop goes on after an invoice that needs no payment.
_create_invoice_again ==
  /\ pc = "invoice"
  /\ invoices' = Append(invoices, [client |-> job.client, for |-> cur, paid |-> FALSE])
  /\ IF cur \in Paid
     THEN pc' = "pay" /\ job' = [job EXCEPT !.invoice = Len(invoices) + 1]
     ELSE NextAttempt
  /\ UNCHANGED <<delivery, session, identity, clients, outcome, faults>>

_create_invoice ==
  /\ pc = "invoice"
  /\ LET Prepare == invoices' = Append(invoices, [client |-> job.client, for |-> cur,
                                                  paid |-> FALSE])
     IN \/ /\ Prepare
           /\ job' = [job EXCEPT !.invoice = Len(invoices) + 1]
           /\ Continue(IF cur \in Paid THEN "pay" ELSE "fetch")
        \/ Prepare /\ Retry
        \/ UNCHANGED invoices /\ Retry
  /\ UNCHANGED <<delivery, session, identity, clients, outcome>>

\* Mutation: a failure is logged, as in pay_invoice.
mark_invoice_as_paid_swallowed ==
  /\ pc = "pay"
  /\ Fault
  /\ pc' = "fetch"
  /\ UNCHANGED <<delivery, job, session, identity, books, outcome>>

\* The gateway, then the payment; a failure makes the next attempt invoice again.
mark_invoice_as_paid ==
  /\ pc = "pay"
  /\ LET Pay == invoices' = [invoices EXCEPT ![job.invoice].paid = TRUE]
     IN \/ Pay /\ Continue("fetch") /\ UNCHANGED job
        \/ Pay /\ Retry
        \/ UNCHANGED invoices /\ Retry
  /\ UNCHANGED <<delivery, session, identity, clients, outcome>>

-----------------------------------------------------------------------------
(* The PDF, the mail and the status *)

get_invoice ==
  /\ pc = "fetch"
  /\ Continue("pdf") \/ Fail
  /\ UNCHANGED <<delivery, job, session, identity, books, outcome>>

\* FossBilling (external) forgets the session; a request then gets the login page.
SessionExpires ==
  /\ session = "open"
  /\ session' = "expired"
  /\ UNCHANGED <<delivery, pc, job, identity, books, outcome, faults>>

LoggedIn == IF session = "none" THEN "open" ELSE session

\* Mutation: a login page is an error like any other.
get_invoice_pdf_once ==
  /\ pc = "pdf"
  /\ session' = LoggedIn
  /\ Continue(IF session = "expired" THEN "reject" ELSE "mail")
  /\ UNCHANGED <<delivery, job, identity, books, outcome>>

get_invoice_pdf ==
  /\ pc = "pdf"
  /\ \/ session' = LoggedIn /\ Continue(IF session = "expired" THEN "relogin" ELSE "mail")
     \/ session' \in {session, LoggedIn} /\ Fail
  /\ UNCHANGED <<delivery, job, identity, books, outcome>>

\* A new session, and the request once more.
_reset_admin_session ==
  /\ pc = "relogin"
  /\ \/ session' = "open" /\ Continue("mail")
     \/ session' \in {session, "open"} /\ Fail
  /\ UNCHANGED <<delivery, job, identity, books, outcome>>

\* send_mailing.xsd wants a UUID: without one the builder raises.  Neither that nor a
\* failure of send_message is caught.
send_mailing ==
  /\ pc = "mail"
  /\ \/ /\ job.uuid # NoUuid
        /\ mails' = mails \cup {[for |-> cur, invoice |-> job.invoice, uuid |-> job.uuid]}
        /\ Continue("status")
        /\ UNCHANGED delivery
     \/ /\ IF job.uuid = NoUuid THEN UNCHANGED faults ELSE Fault
        /\ D!Return
        /\ pc' = "idle"
        /\ UNCHANGED <<published, mails>>
  /\ UNCHANGED <<job, session, identity, books, told, acked, dead, slow>>

\* invoice_link, which never passes its XSD, and invoice_status: failures are swallowed.
publish_invoice_status ==
  /\ pc = "status"
  /\ pc' = "ack"
  /\ \/ told' = told \cup {cur} /\ UNCHANGED faults
     \/ UNCHANGED told /\ Fault
  /\ UNCHANGED <<delivery, job, session, identity, books, mails, acked, dead, slow>>

-----------------------------------------------------------------------------
(* profile_update *)

find_client ==
  /\ pc = "find"
  /\ \/ \E k \in _get_client_by_email : UseClient(k, "update")
     \/ /\ _get_client_by_email = {}
        /\ Continue("reject")
        /\ UNCHANGED job
     \/ UNCHANGED job /\ Fail
  /\ UNCHANGED <<delivery, session, identity, books, outcome>>

\* Writes every field of the client, its address too.
update_client ==
  /\ pc = "update"
  /\ LET Write == clients' = [clients EXCEPT ![job.client] = EmailOf[cur]]
     IN \/ Write /\ Continue("ack")
        \/ Write /\ Fail
        \/ UNCHANGED clients /\ Fail
  /\ UNCHANGED <<delivery, job, session, identity, invoices, outcome>>

HandlerStep ==
  \/ publish_vat_validation_error \/ request_master_uuid \/ consume \/ Deadline
  \/ _get_or_create_client \/ _create_invoice \/ mark_invoice_as_paid
  \/ get_invoice \/ get_invoice_pdf \/ _reset_admin_session
  \/ send_mailing \/ publish_invoice_status
  \/ find_client \/ update_client
  \/ basic_ack \/ send_to_dlq

Next ==
  \/ \E m \in Message : Take(m) \/ DropDuplicate(m)
  \/ HandlerStep
  \/ Escape \/ Crash
  \/ \E k \in 1..Len(asked) : Answer(k)
  \/ SessionExpires

Spec == Init /\ [][Next]_vars

\* The receiver thread runs, and its wait ends.  Nothing makes the identity service answer,
\* the session expire or a fault happen.
FairSpec == /\ Spec
            /\ WF_vars(\E m \in Message : Take(m) \/ DropDuplicate(m))
            /\ WF_vars(HandlerStep)

-----------------------------------------------------------------------------
(* Properties *)

Steps == {"idle", "refuse", "ask", "await", "client", "invoice", "pay", "fetch", "pdf",
          "relogin", "mail", "status", "find", "update", "ack", "reject"}

Job == [request : 0..Len(asked), uuid : Email \cup {NoUuid, Refusal}, attempt : 1..MAX_RETRIES,
        client : Client \cup {NoClient}, invoice : 0..Len(invoices)]

TypeOK ==
  /\ published \in Traffic
  /\ inbox \subseteq published
  /\ taken \subseteq Message
  /\ cur \in Message \cup {NoMessage}
  /\ pc \in Steps
  /\ job \in Job
  /\ session \in {"none", "open", "expired"}
  /\ asked \in Seq(Email)
  /\ answers \subseteq [to : 1..Len(asked), uuid : Email \cup {NoUuid, Refusal}]
  /\ clients \in Seq(Email)
  /\ invoices \in Seq([client : Client, for : Registration, paid : BOOLEAN])
  /\ mails \subseteq [for : Registration, invoice : 1..Len(invoices), uuid : Email]
  /\ told \subseteq Registration
  /\ acked \subseteq Message
  /\ dead \subseteq Message
  /\ slow \subseteq Registration
  /\ faults \in 0..MaxFaults

\* A registration is invoiced once, and once more at most for each fault: the attempts of
\* create_registration_invoice and a redelivery repeat an invoice only after a failure.
OverinvoicingNeedsFaults ==
  \A m \in Registration :
    Cardinality({i \in DOMAIN invoices : invoices[i].for = m}) <= 1 + faults

\* A registration with a good VAT number is acknowledged only when the invoice of the last
\* attempt is paid exactly if the registration was, and is the one that was mailed.
AckMeansMailed ==
  (pc = "ack" /\ cur \in Registration \ BadVat) =>
    /\ invoices[job.invoice].for = cur
    /\ invoices[job.invoice].paid <=> cur \in Paid
    /\ \E mail \in mails : mail.for = cur /\ mail.invoice = job.invoice

\* The mail carries the person's own UUID, however late the identity service answers the
\* requests before (request_master_uuid: its own reply queue and correlation_id).
MailsCarryOwnUuid == \A mail \in mails : mail.uuid = EmailOf[mail.for]

\* Addresses that the search does not confuse with another one.
Apart == {e \in Email : \A f \in Email : f \in Finds[e] \/ e \in Finds[f] => f = e}

\* An address has one client, through retries and redeliveries, unless the search takes it
\* for another's ("client creation is idempotent").
OneClientPerAddress ==
  \A j, k \in Client : clients[j] = clients[k] /\ clients[j] \in Apart => j = k

\* The invoice is with a client of the registration's address, after profile updates too,
\* unless the search takes the address for another's.
InvoiceWithItsOwner ==
  \A i \in DOMAIN invoices :
    EmailOf[invoices[i].for] \in Apart =>
      clients[invoices[i].client] = EmailOf[invoices[i].for]

\* A message that left the queue without an ack or a dead letter.
Lost(m) == m \in published \ (inbox \cup {cur} \cup acked \cup dead)

\* A registration ends badly, in the dead letter queue or nowhere, only for want of an
\* answer in time or at the cost of a fault of its own: a stale session costs nothing.
BadEndsNeedFaults ==
  Cardinality({m \in Registration \ slow : m \in dead \/ Lost(m)}) <= faults

\* Every registration comes to an end, although the identity service need never answer:
\* acknowledged, in the dead letter queue, or lost to a fault.
EveryRegistrationEnds ==
  \A m \in Registration : m \in inbox ~> (m \in acked \cup dead \/ Lost(m))
=============================================================================
