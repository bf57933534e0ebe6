------------------------- MODULE RegistrationProofs -------------------------
(***************************************************************************)
(* Proofs about registrations and profile updates, for any messages,       *)
(* addresses, searches, attempts and faults.                               *)
(*                                                                         *)
(* What a registration mails depends on an answer read long before, and on *)
(* an invoice of one of several attempts; whose invoice it is depends on a *)
(* search.  The invariants say what the local variables of the handler     *)
(* stand for at each call (InHand, OwnUuid, Mailed), what the search       *)
(* established of the client in hand (Found), what stays true of a mail    *)
(* once it is sent (TrueMail), and which faults the bad ends are charged   *)
(* to (Charged).  StepsLeft bounds what a handler can still do.            *)
(***************************************************************************)
EXTENDS Registration, SequenceTheorems, FiniteSetTheorems, TLAPS

PaperSteps   == {"fetch", "pdf", "relogin", "mail", "status"}
InvoiceSteps == {"pay"} \cup PaperSteps
ClientSteps  == {"invoice", "update"}
AskedSteps   == {"client", "invoice"} \cup InvoiceSteps

\* Which message a handler has, and what its local variables refer to.
InHand ==
  /\ cur \in published \cup {NoMessage}
  /\ pc = "idle" <=> cur = NoMessage
  /\ pc = "refuse" => cur \in BadVat
  /\ pc \in {"ask", "await"} \cup AskedSteps => cur \in Registration \ BadVat
  /\ pc \in {"find", "update"} => cur \in Update
  /\ pc \in ClientSteps => job.client \in Client
  /\ pc \in InvoiceSteps => job.invoice \in DOMAIN invoices

AnInvoice == [client : Client, for : Registration, paid : BOOLEAN]
AMail     == [for : Registration, invoice : 1..Len(invoices), uuid : Email]
AnAnswer  == [to : 1..Len(asked), uuid : Email \cup {NoUuid, Refusal}]

-----------------------------------------------------------------------------
(* Types *)

\* A sequence with one element more, or another one.
LEMMA AppendOne ==
  ASSUME NEW S, NEW q \in Seq(S), NEW e \in S
  PROVE  /\ Append(q, e) \in Seq(S)
         /\ Len(q) \in Nat /\ Len(Append(q, e)) = Len(q) + 1
         /\ DOMAIN q = 1..Len(q) /\ DOMAIN Append(q, e) = 1..(Len(q) + 1)
         /\ \A k \in 1..Len(q) : Append(q, e)[k] = q[k]
         /\ Append(q, e)[Len(q) + 1] = e
BY AppendProperties, LenProperties

LEMMA ReplaceOne ==
  ASSUME NEW S, NEW q \in Seq(S), NEW n \in DOMAIN q, NEW e \in S
  PROVE  /\ [q EXCEPT ![n] = e] \in Seq(S)
         /\ Len([q EXCEPT ![n] = e]) = Len(q) /\ Len(q) \in Nat
         /\ DOMAIN [q EXCEPT ![n] = e] = DOMAIN q
BY ExceptSeq, LenProperties

\* Only five calls write to FossBilling or to the identity service.
LEMMA Writers ==
  ASSUME [Next]_vars
  PROVE  /\ \/ clients' = clients
            \/ /\ _get_or_create_client
               /\ _get_client_by_email = {}
               /\ clients' = Append(clients, EmailOf[cur])
            \/ update_client /\ clients' = [clients EXCEPT ![job.client] = EmailOf[cur]]
         /\ \/ invoices' = invoices
            \/ /\ _create_invoice
               /\ invoices' = Append(invoices, [client |-> job.client, for |-> cur, paid |-> FALSE])
            \/ mark_invoice_as_paid /\ invoices' = [invoices EXCEPT ![job.invoice].paid = TRUE]
         /\ \/ asked' = asked
            \/ request_master_uuid /\ asked' = Append(asked, EmailOf[cur])
BY DEF vars, delivery, identity, books, outcome, Next, HandlerStep, Take, DropDuplicate, basic_ack,
   send_to_dlq, Escape, Crash, publish_vat_validation_error, request_master_uuid, Answer, consume,
   Deadline, _get_or_create_client, _create_invoice, mark_invoice_as_paid, get_invoice,
   SessionExpires, get_invoice_pdf, _reset_admin_session, send_mailing, publish_invoice_status,
   find_client, update_client

\* A step is one fault or none.
LEMMA FaultStep ==
  ASSUME [Next]_vars
  PROVE  UNCHANGED faults \/ Fault
BY DEF vars, delivery, identity, books, outcome, Next, HandlerStep, Take, DropDuplicate,
   basic_ack, send_to_dlq, Escape, Crash, publish_vat_validation_error, request_master_uuid,
   Answer, consume, Continue, Fail, Retry, Deadline, _get_or_create_client, _create_invoice,
   mark_invoice_as_paid, get_invoice, SessionExpires, get_invoice_pdf, _reset_admin_session,
   send_mailing, publish_invoice_status, find_client, update_client, UseClient

\* FossBilling's records and the requests are only added to; an invoice keeps its client and
\* the registration it is for.
Growing ==
  /\ clients' \in Seq(Email) /\ Client \subseteq Client'
  /\ invoices' \in Seq(AnInvoice') /\ Len(invoices) <= Len(invoices')
  /\ asked' \in Seq(Email) /\ Len(asked) <= Len(asked')
  /\ DOMAIN invoices \subseteq DOMAIN invoices'
  /\ \A i \in DOMAIN invoices : /\ invoices'[i].client = invoices[i].client
                                /\ invoices'[i].for = invoices[i].for
  /\ \A k \in 1..Len(asked) : asked'[k] = asked[k]

LEMMA GrowStep ==
  ASSUME TypeOK, InHand, [Next]_vars
  PROVE  Growing
<1> USE ContentAssumption, KindAssumption
<1>1. /\ clients \in Seq(Email) /\ asked \in Seq(Email) /\ invoices \in Seq(AnInvoice)
      /\ Len(clients) \in Nat /\ Len(asked) \in Nat /\ Len(invoices) \in Nat
      /\ DOMAIN clients = 1..Len(clients) /\ DOMAIN invoices = 1..Len(invoices)
  BY LenProperties DEF TypeOK, AnInvoice
<1>2. clients' \in Seq(Email) /\ Client \subseteq Client'
  <2>1. CASE clients' = clients
    BY <1>1, <2>1 DEF Client
  <2>2. CASE _get_or_create_client /\ clients' = Append(clients, EmailOf[cur])
    <3>1. EmailOf[cur] \in Email
      BY <2>2 DEF _get_or_create_client, InHand, AskedSteps, Message
    <3>2. clients' \in Seq(Email) /\ Len(clients') = Len(clients) + 1
      BY ONLY <1>1, <2>2, <3>1, AppendOne
    <3>3. QED
      BY <1>1, <3>2 DEF Client
  <2>3. CASE update_client /\ clients' = [clients EXCEPT ![job.client] = EmailOf[cur]]
    <3>1. EmailOf[cur] \in Email /\ job.client \in DOMAIN clients
      BY <1>1, <2>3 DEF update_client, InHand, ClientSteps, Message, Client
    <3>2. clients' \in Seq(Email) /\ Len(clients') = Len(clients)
      BY ONLY <1>1, <2>3, <3>1, ReplaceOne
    <3>3. QED
      BY <1>1, <3>2 DEF Client
  <2>4. QED
    BY <2>1, <2>2, <2>3, Writers
<1>3. AnInvoice \subseteq AnInvoice' /\ invoices \in Seq(AnInvoice')
  <2>1. AnInvoice \subseteq AnInvoice'
    BY <1>2 DEF AnInvoice
  <2>2. \A i \in 1..Len(invoices) : invoices[i] \in AnInvoice
    BY ONLY <1>1, LenProperties
  <2>3. QED
    BY <1>1, <2>1, <2>2, SeqDef
<1>4. /\ invoices' \in Seq(AnInvoice') /\ Len(invoices) <= Len(invoices')
      /\ DOMAIN invoices \subseteq DOMAIN invoices'
      /\ \A i \in DOMAIN invoices : /\ invoices'[i].client = invoices[i].client
                                    /\ invoices'[i].for = invoices[i].for
  <2>1. CASE invoices' = invoices
    BY <1>1, <1>3, <2>1
  <2>2. CASE _create_invoice
             /\ invoices' = Append(invoices, [client |-> job.client, for |-> cur, paid |-> FALSE])
    <3>1. [client |-> job.client, for |-> cur, paid |-> FALSE] \in AnInvoice
      BY <2>2 DEF _create_invoice, InHand, ClientSteps, AskedSteps, AnInvoice
    <3>2. [client |-> job.client, for |-> cur, paid |-> FALSE] \in AnInvoice'
      BY <1>3, <3>1
    <3>3. /\ invoices' \in Seq(AnInvoice') /\ Len(invoices') = Len(invoices) + 1
          /\ DOMAIN invoices' = 1..(Len(invoices) + 1)
          /\ \A i \in 1..Len(invoices) : invoices'[i] = invoices[i]
      BY ONLY <1>3, <2>2, <3>2, AppendOne
    <3>4. QED
      BY <1>1, <3>3
  <2>3. CASE mark_invoice_as_paid /\ invoices' = [invoices EXCEPT ![job.invoice].paid = TRUE]
    <3> DEFINE new == [invoices[job.invoice] EXCEPT !.paid = TRUE]
    <3>1. job.invoice \in DOMAIN invoices
      BY <2>3 DEF mark_invoice_as_paid, InHand, InvoiceSteps
    <3>2. invoices[job.invoice] \in AnInvoice'
      BY ONLY <1>3, <3>1, LenProperties
    <3>3. new \in AnInvoice' /\ new.client = invoices[job.invoice].client
          /\ new.for = invoices[job.invoice].for
      BY <3>2 DEF AnInvoice
    <3>4. invoices' = [invoices EXCEPT ![job.invoice] = new]
      BY <2>3
    <3> HIDE DEF new
    <3>5. invoices' \in Seq(AnInvoice') /\ Len(invoices') = Len(invoices)
          /\ DOMAIN invoices' = DOMAIN invoices
      BY ONLY <1>3, <3>1, <3>3, <3>4, ReplaceOne
    <3>6. \A i \in DOMAIN invoices : invoices'[i] = IF i = job.invoice THEN new ELSE invoices[i]
      BY <3>4
    <3>7. \A i \in DOMAIN invoices : /\ invoices'[i].client = invoices[i].client
                                     /\ invoices'[i].for = invoices[i].for
      BY ONLY <3>3, <3>6
    <3>8. QED
      BY <1>1, <3>5, <3>7
  <2>4. QED
    BY <2>1, <2>2, <2>3, Writers
<1>5. /\ asked' \in Seq(Email) /\ Len(asked) <= Len(asked')
      /\ \A k \in 1..Len(asked) : asked'[k] = asked[k]
  <2>1. CASE asked' = asked
    BY <1>1, <2>1
  <2>2. CASE request_master_uuid /\ asked' = Append(asked, EmailOf[cur])
    <3>1. EmailOf[cur] \in Email
      BY <2>2 DEF request_master_uuid, InHand, Message
    <3>2. /\ asked' \in Seq(Email) /\ Len(asked') = Len(asked) + 1
          /\ \A k \in 1..Len(asked) : asked'[k] = asked[k]
      BY ONLY <1>1, <2>2, <3>1, AppendOne
    <3>3. QED
      BY <1>1, <3>2
  <2>3. QED
    BY <2>1, <2>2, Writers
<1>6. QED
  BY <1>2, <1>4, <1>5 DEF Growing

\* The local variables of a handler are of the same types when the stores have grown.
LEMMA JobGrows ==
  ASSUME Growing, Len(clients) \in Nat, Len(invoices) \in Nat, Len(invoices') \in Nat,
         Len(asked) \in Nat, Len(asked') \in Nat
  PROVE  Job \subseteq Job' /\ AMail \subseteq AMail' /\ AnAnswer \subseteq AnAnswer'
<1>1. 0..Len(invoices) \subseteq 0..Len(invoices') /\ 0..Len(asked) \subseteq 0..Len(asked')
  BY DEF Growing
<1>2. 1..Len(invoices) \subseteq 1..Len(invoices') /\ 1..Len(asked) \subseteq 1..Len(asked')
  BY DEF Growing
<1>3. Client \subseteq Client'
  BY DEF Growing
<1>4. QED
  BY <1>1, <1>2, <1>3 DEF Job, AMail, AnAnswer

\* The updates the handlers make to their local variables.
LEMMA JobUpdates ==
  ASSUME TypeOK, Job \subseteq Job'
  PROVE  /\ NoJob \in Job /\ job \in Job'
         /\ \A k \in Client' \cup {NoClient} : [job EXCEPT !.client = k] \in Job'
         /\ \A i \in 0..Len(invoices)' : [job EXCEPT !.invoice = i] \in Job'
         /\ \A r \in 0..Len(asked)' : [job EXCEPT !.request = r] \in Job'
         /\ \A u \in Email \cup {NoUuid, Refusal} : [job EXCEPT !.uuid = u] \in Job'
         /\ job.attempt < MAX_RETRIES => [job EXCEPT !.attempt = @ + 1] \in Job'
<1> USE BoundAssumption
<1>1. job \in Job /\ job \in Job'
  BY DEF TypeOK
<1>2. NoJob \in Job
  <2>1. 0 \in 0..Len(asked) /\ 0 \in 0..Len(invoices)
    BY LenProperties DEF TypeOK
  <2>2. QED
    BY <2>1 DEF NoJob, Job
<1>3. job.attempt < MAX_RETRIES => job.attempt + 1 \in 1..MAX_RETRIES
  BY <1>1 DEF Job
<1>4. QED
  BY <1>1, <1>2, <1>3 DEF Job

\* Another attempt changes its number only.
LEMMA NextAttemptSame ==
  ASSUME job \in Job, NextAttempt
  PROVE  /\ pc' \in {"client", "reject"}
         /\ job'.client = job.client /\ job'.invoice = job.invoice /\ job'.uuid = job.uuid
         /\ job'.request = job.request
BY DEF NextAttempt, Job

-----------------------------------------------------------------------------
(* What is in hand *)

LEMMA HandStep ==
  ASSUME TypeOK, InHand, [Next]_vars
  PROVE  InHand'
<1> USE KindAssumption, ContentAssumption
    DEF vars, delivery, identity, books, outcome, Message, ClientSteps, AskedSteps,
        InvoiceSteps, PaperSteps
<1>1. Growing /\ job \in Job
  BY GrowStep DEF TypeOK
<1>2. CASE HandlerStep
  <2>1. CASE request_master_uuid \/ consume \/ Deadline
    BY <1>1, <2>1 DEF request_master_uuid, consume, Deadline, Continue, Fail, InHand
  <2>2. CASE _get_or_create_client
    <3>1. CASE Retry
      BY <1>1, <2>2, <3>1, NextAttemptSame DEF _get_or_create_client, Retry, InHand
    <3>2. CASE \E k \in Client' : UseClient(k, "invoice")
      BY <1>1, <2>2, <3>2 DEF _get_or_create_client, UseClient, InHand, Job
    <3>3. Len(clients) + 1 \in Client' \/ clients' # Append(clients, EmailOf[cur])
      BY <2>2, AppendOne DEF TypeOK, Client, _get_or_create_client, InHand
    <3>4. _get_client_by_email \subseteq Client'
      BY <1>1 DEF _get_client_by_email, Growing
    <3>5. QED
      BY <2>2, <3>1, <3>2, <3>3, <3>4 DEF _get_or_create_client
  <2>3. CASE _create_invoice
    <3>1. CASE Retry
      BY <1>1, <2>3, <3>1, NextAttemptSame DEF _create_invoice, Retry, InHand
    <3>2. CASE ~Retry
      <4>1. Len(invoices) + 1 \in DOMAIN invoices'
        BY <2>3, <3>2 DEF _create_invoice, TypeOK
      <4>2. QED
        BY <2>3, <3>2, <4>1 DEF _create_invoice, Continue, InHand, TypeOK, Job
    <3>3. QED
      BY <3>1, <3>2
  <2>4. CASE mark_invoice_as_paid
    <3>1. CASE Retry
      BY <1>1, <2>4, <3>1, NextAttemptSame DEF mark_invoice_as_paid, Retry, InHand
    <3>2. CASE ~Retry
      BY <1>1, <2>4, <3>2 DEF mark_invoice_as_paid, Continue, InHand, Growing
    <3>3. QED
      BY <3>1, <3>2
  <2>5. CASE find_client
    BY <1>1, <2>5 DEF find_client, UseClient, Continue, Fail, _get_client_by_email, InHand, Job,
       Client
  <2>6. CASE update_client
    BY <1>1, <2>6 DEF update_client, Continue, Fail, InHand
  <2>7. CASE get_invoice \/ get_invoice_pdf \/ _reset_admin_session \/ publish_invoice_status
             \/ publish_vat_validation_error
    BY <2>7 DEF get_invoice, get_invoice_pdf, _reset_admin_session, publish_invoice_status,
       publish_vat_validation_error, Continue, Fail, InHand, Client
  <2>8. CASE send_mailing \/ basic_ack \/ send_to_dlq
    BY <2>8 DEF send_mailing, basic_ack, send_to_dlq, Continue, D!Return, D!Settle, InHand, Client
  <2>9. QED
    BY <1>2, <2>1, <2>2, <2>3, <2>4, <2>5, <2>6, <2>7, <2>8 DEF HandlerStep
<1>3. CASE \E m \in Message : Take(m) \/ DropDuplicate(m)
  BY <1>3 DEF Take, DropDuplicate, First, D!Take, D!Discard, InHand, Client, TypeOK
<1>4. CASE Escape \/ Crash
  BY <1>4 DEF Escape, Crash, D!Return, D!Restart, InHand, Client
<1>5. CASE SessionExpires \/ (\E k \in 1..Len(asked) : Answer(k)) \/ UNCHANGED vars
  BY <1>5 DEF SessionExpires, Answer, InHand, Client
<1>6. QED
  BY <1>2, <1>3, <1>4, <1>5 DEF Next

LEMMA JobStep ==
  ASSUME TypeOK, InHand, Job \subseteq Job', Client \subseteq Client', [Next]_vars
  PROVE  job' \in Job'
<1> USE DEF vars, delivery, identity, books, outcome, AskedSteps, ClientSteps
<1>1. job' = job \/ job' = NoJob => job' \in Job'
  BY JobUpdates
<1>2. NextAttempt => job' \in Job'
  BY JobUpdates DEF NextAttempt
<1>3. CASE request_master_uuid
  <2>1. job' = job \/ (job' = [job EXCEPT !.request = Len(asked) + 1] /\ asked' = Append(asked, EmailOf[cur]))
    BY <1>3 DEF request_master_uuid
  <2>2. asked' = Append(asked, EmailOf[cur]) => Len(asked) + 1 \in 0..Len(asked)'
    BY LenProperties, AppendProperties DEF TypeOK
  <2>3. QED
    BY <1>1, <2>1, <2>2, JobUpdates
<1>4. CASE consume
  BY <1>1, <1>4, JobUpdates DEF consume, Replies, TypeOK
<1>5. CASE _get_or_create_client
  <2>1. \/ job' = job \/ NextAttempt
        \/ \E k \in Client : job' = [job EXCEPT !.client = k]
        \/ clients' = Append(clients, EmailOf[cur]) /\ job' = [job EXCEPT !.client = Len(clients) + 1]
    BY <1>5 DEF _get_or_create_client, _get_client_by_email, UseClient, Retry
  <2>2. clients' = Append(clients, EmailOf[cur]) => Len(clients) + 1 \in Client'
    BY LenProperties, AppendProperties DEF TypeOK, Client
  <2>3. QED
    BY <1>1, <1>2, <2>1, <2>2, JobUpdates
<1>6. CASE find_client
  BY <1>1, <1>6, JobUpdates DEF find_client, UseClient, _get_client_by_email
<1>7. CASE _create_invoice
  <2>1. \/ NextAttempt
        \/ /\ invoices' = Append(invoices, [client |-> job.client, for |-> cur, paid |-> FALSE])
           /\ job' = [job EXCEPT !.invoice = Len(invoices) + 1]
    BY <1>7 DEF _create_invoice, Retry
  <2>2. CASE invoices' = Append(invoices, [client |-> job.client, for |-> cur, paid |-> FALSE])
    <3>1. Len(invoices) + 1 \in 0..Len(invoices)'
      BY <2>2, LenProperties, AppendProperties DEF TypeOK
    <3>2. QED
      BY <1>2, <2>1, <3>1, JobUpdates
  <2>3. QED
    BY <1>2, <2>1, <2>2
<1>8. CASE mark_invoice_as_paid
  BY <1>1, <1>2, <1>8 DEF mark_invoice_as_paid, Retry
<1>9. CASE ~(request_master_uuid \/ consume \/ _get_or_create_client \/ find_client
              \/ _create_invoice \/ mark_invoice_as_paid)
  <2>1. job' = job \/ job' = NoJob
    BY <1>9 DEF Next, HandlerStep, Take, DropDuplicate, basic_ack, send_to_dlq, Escape, Crash,
       publish_vat_validation_error, Answer, Deadline, get_invoice, SessionExpires,
       get_invoice_pdf, _reset_admin_session, send_mailing, publish_invoice_status, update_client
  <2>2. QED
    BY <1>1, <2>1
<1>10. QED
  BY <1>3, <1>4, <1>5, <1>6, <1>7, <1>8, <1>9

-----------------------------------------------------------------------------
(* Whose UUID a handler has *)

\* The identity service answers a request with the person's UUID, without one or not at all;
\* the handler waits for the answer to its own request, and goes on with that answer.
OwnUuid ==
  /\ \A a \in answers : a.uuid \in {asked[a.to], NoUuid, Refusal}
  /\ pc = "await" => job.request \in 1..Len(asked) /\ asked[job.request] = EmailOf[cur]
  /\ pc \in AskedSteps => job.uuid \in {EmailOf[cur], NoUuid}

LEMMA UuidStep ==
  ASSUME TypeOK, InHand, OwnUuid, [Next]_vars
  PROVE  OwnUuid'
<1> USE DEF vars, delivery, identity, books, outcome, AskedSteps, InvoiceSteps, PaperSteps
<1>1. /\ Growing /\ job \in Job
      /\ \A a \in answers : a.to \in 1..Len(asked) /\ a.uuid \in Email \cup {NoUuid, Refusal}
  BY GrowStep DEF TypeOK
<1>2. \A a \in answers' : a.uuid \in {asked'[a.to], NoUuid, Refusal}
  <2>1. CASE answers' = answers
    BY <1>1, <2>1 DEF OwnUuid, Growing
  <2>2. CASE \E k \in 1..Len(asked) : Answer(k)
    BY <2>2 DEF Answer, OwnUuid
  <2>3. QED
    BY <2>1, <2>2 DEF Next, HandlerStep, Take, DropDuplicate, basic_ack, send_to_dlq, Escape,
       Crash, publish_vat_validation_error, request_master_uuid, consume,
       Deadline, _get_or_create_client, _create_invoice, mark_invoice_as_paid, get_invoice,
       SessionExpires, get_invoice_pdf, _reset_admin_session, send_mailing,
       publish_invoice_status, find_client, update_client
<1>3. CASE request_master_uuid
  <2>1. pc' \in {"await", "reject"}
    BY <1>3 DEF request_master_uuid, Continue, Fail
  <2>2. CASE pc' = "await"
    <3>1. /\ asked' = Append(asked, EmailOf[cur]) /\ cur' = cur
          /\ job' = [job EXCEPT !.request = Len(asked) + 1] /\ EmailOf[cur] \in Email
      BY <1>3, <2>2, ContentAssumption DEF request_master_uuid, Fail, InHand, Message
    <3>2. job'.request = Len(asked) + 1
      BY <1>1, <3>1 DEF Job
    <3>3. Len(asked) + 1 \in 1..Len(asked') /\ asked'[Len(asked) + 1] = EmailOf[cur]
      BY <3>1, AppendOne DEF TypeOK
    <3>4. QED
      BY <1>2, <2>2, <3>1, <3>2, <3>3 DEF OwnUuid
  <2>3. CASE pc' = "reject"
    BY <1>2, <2>3 DEF OwnUuid
  <2>4. QED
    BY <2>1, <2>2, <2>3
<1>4. CASE consume
  <2>1. pc' \in {"reject", "client"} /\ cur' = cur
    BY <1>4 DEF consume, Continue, Fail
  <2>2. pc' = "client" => job'.uuid \in {EmailOf[cur], NoUuid}
    BY <1>1, <1>4 DEF consume, Continue, Fail, Replies, OwnUuid, Job
  <2>3. QED
    BY <1>2, <2>1, <2>2 DEF OwnUuid
<1>5. CASE _get_or_create_client \/ _create_invoice \/ mark_invoice_as_paid
  <2>1. job'.uuid = job.uuid /\ cur' = cur /\ pc \in AskedSteps /\ pc' # "await"
    BY <1>1, <1>5, NextAttemptSame DEF _get_or_create_client, UseClient, Retry, _create_invoice,
       mark_invoice_as_paid, Continue, Job
  <2>2. QED
    BY <1>2, <2>1 DEF OwnUuid
<1>6. CASE ~(request_master_uuid \/ consume \/ _get_or_create_client \/ _create_invoice
              \/ mark_invoice_as_paid)
  <2>1. CASE HandlerStep
    <3>1. /\ pc' \in {"await"} \cup AskedSteps => UNCHANGED <<job, cur, asked>>
          /\ pc' # "await"
          /\ pc' \in AskedSteps => pc \in AskedSteps
      BY <1>6, <2>1 DEF HandlerStep, basic_ack, send_to_dlq, publish_vat_validation_error,
         Deadline, Continue, Fail, UseClient, get_invoice, get_invoice_pdf, _reset_admin_session,
         send_mailing, publish_invoice_status, find_client, update_client
    <3>2. QED
      BY <1>2, <3>1 DEF OwnUuid
  <2>2. CASE ~HandlerStep
    <3>1. \/ UNCHANGED <<pc, job, cur, asked>>
          \/ pc' \in {"idle", "ask", "find", "refuse"}
      BY <2>2 DEF Next, Take, DropDuplicate, D!Discard, First, Escape, Crash, Answer,
         SessionExpires
    <3>2. QED
      BY <1>2, <3>1 DEF OwnUuid
  <2>3. QED
    BY <2>1, <2>2
<1>7. QED
  BY <1>3, <1>4, <1>5, <1>6

\* A mail is sent for the registration in hand, with the invoice and the UUID in hand.
LEMMA MailStep ==
  ASSUME TypeOK, InHand, OwnUuid, [Next]_vars
  PROVE  /\ mails \subseteq mails'
         /\ \A mail \in mails' \ mails :
              /\ mail = [for |-> cur, invoice |-> job.invoice, uuid |-> job.uuid]
              /\ cur \in Registration /\ job.invoice \in DOMAIN invoices
              /\ job.uuid = EmailOf[cur]
<1>1. CASE send_mailing
  BY <1>1 DEF send_mailing, InHand, OwnUuid, AskedSteps, InvoiceSteps, PaperSteps
<1>2. CASE ~send_mailing
  <2>1. mails' = mails
    BY <1>2 DEF vars, delivery, identity, books, outcome, Next, HandlerStep, Take, DropDuplicate,
       basic_ack, send_to_dlq, Escape, Crash, publish_vat_validation_error, request_master_uuid,
       Answer, consume, Deadline, _get_or_create_client, _create_invoice, mark_invoice_as_paid,
       get_invoice, SessionExpires, get_invoice_pdf, _reset_admin_session, publish_invoice_status,
       find_client, update_client
  <2>2. QED
    BY <2>1
<1>3. QED
  BY <1>1, <1>2

LEMMA TypeStep ==
  ASSUME TypeOK, InHand, OwnUuid, [Next]_vars
  PROVE  TypeOK'
<1> USE KindAssumption, ContentAssumption
    DEF vars, delivery, identity, books, outcome, AskedSteps, InvoiceSteps, PaperSteps
<1>1. Growing
  BY GrowStep
<1>2. /\ Len(clients) \in Nat /\ Len(invoices) \in Nat /\ Len(asked) \in Nat
      /\ DOMAIN invoices = 1..Len(invoices)
  BY LenProperties DEF TypeOK
<1>3. Len(invoices') \in Nat /\ Len(asked') \in Nat
  BY <1>1, LenProperties DEF Growing
<1>4. Job \subseteq Job' /\ AMail \subseteq AMail' /\ AnAnswer \subseteq AnAnswer'
  BY <1>1, <1>2, <1>3, JobGrows
<1>5. /\ clients' \in Seq(Email) /\ asked' \in Seq(Email)
      /\ invoices' \in Seq([client : Client', for : Registration, paid : BOOLEAN])
  BY <1>1 DEF Growing, AnInvoice
<1>6. job' \in Job'
  BY <1>1, <1>4, JobStep DEF Growing
<1>7. /\ published' \in Traffic /\ inbox' \subseteq published' /\ taken' \subseteq Message
      /\ cur' \in Message \cup {NoMessage}
  BY DEF TypeOK, InHand, Self, D!Take, D!Discard, D!Settle, D!Return, D!Restart,
     Next, HandlerStep, Take, DropDuplicate, basic_ack, send_to_dlq, Escape, Crash,
     publish_vat_validation_error, request_master_uuid, Answer, consume,
     Deadline, _get_or_create_client, _create_invoice, mark_invoice_as_paid, get_invoice,
     SessionExpires, get_invoice_pdf, _reset_admin_session, send_mailing, publish_invoice_status,
     find_client, update_client
<1>8. pc' \in Steps
  BY DEF TypeOK, Steps, First, Continue, Fail, Retry, NextAttempt, UseClient,
     Next, HandlerStep, Take, DropDuplicate, basic_ack, send_to_dlq, Escape, Crash,
     publish_vat_validation_error, request_master_uuid, Answer, consume,
     Deadline, _get_or_create_client, _create_invoice, mark_invoice_as_paid, get_invoice,
     SessionExpires, get_invoice_pdf, _reset_admin_session, send_mailing, publish_invoice_status,
     find_client, update_client
<1>9. session' \in {"none", "open", "expired"}
  BY DEF TypeOK, LoggedIn,
     Next, HandlerStep, Take, DropDuplicate, basic_ack, send_to_dlq, Escape, Crash,
     publish_vat_validation_error, request_master_uuid, Answer, consume,
     Deadline, _get_or_create_client, _create_invoice, mark_invoice_as_paid, get_invoice,
     SessionExpires, get_invoice_pdf, _reset_admin_session, send_mailing, publish_invoice_status,
     find_client, update_client
<1>10. answers' \subseteq AnAnswer'
  <2>1. CASE UNCHANGED answers
    BY <1>4, <2>1 DEF TypeOK, AnAnswer
  <2>2. CASE \E k \in 1..Len(asked) : Answer(k)
    <3>1. \A k \in 1..Len(asked) : asked[k] \in Email
      BY LenProperties DEF TypeOK
    <3>2. answers' \subseteq AnAnswer
      BY <2>2, <3>1 DEF Answer, TypeOK, AnAnswer
    <3>3. QED
      BY <1>4, <3>2
  <2>3. QED
    BY <2>1, <2>2 DEF Next, HandlerStep, Take, DropDuplicate, basic_ack, send_to_dlq, Escape,
       Crash, publish_vat_validation_error, request_master_uuid, consume,
       Deadline, _get_or_create_client, _create_invoice, mark_invoice_as_paid, get_invoice,
       SessionExpires, get_invoice_pdf, _reset_admin_session, send_mailing,
       publish_invoice_status, find_client, update_client
<1>11. told' \subseteq Registration /\ acked' \subseteq Message /\ dead' \subseteq Message
       /\ slow' \subseteq Registration /\ faults' \in 0..MaxFaults
  <2>1. Fault => faults' \in 0..MaxFaults
    BY BoundAssumption DEF Fault, TypeOK
  <2>2. UNCHANGED faults \/ Fault
    BY FaultStep
  <2>3. told' \subseteq Registration /\ acked' \subseteq Message /\ dead' \subseteq Message
        /\ slow' \subseteq Registration
    BY DEF TypeOK, InHand, Message, Next, HandlerStep, Take, DropDuplicate, basic_ack, send_to_dlq, Escape, Crash,
     publish_vat_validation_error, request_master_uuid, Answer, consume,
     Deadline, _get_or_create_client, _create_invoice, mark_invoice_as_paid, get_invoice,
     SessionExpires, get_invoice_pdf, _reset_admin_session, send_mailing, publish_invoice_status,
     find_client, update_client
  <2>4. QED
    BY <2>1, <2>2, <2>3 DEF TypeOK
<1>12. mails' \subseteq AMail'
  <2>1. mails \subseteq AMail /\ Message = Registration \cup Update
    BY DEF TypeOK, AMail, Message
  <2>2. \A mail \in mails' \ mails : mail \in AMail
    BY <1>2, MailStep, <2>1 DEF AMail
  <2>3. QED
    BY <1>4, <2>1, <2>2
<1>13. QED
  BY <1>5, <1>6, <1>7, <1>8, <1>9, <1>10, <1>11, <1>12 DEF TypeOK, AnAnswer, AMail

LEMMA MailsStep ==
  ASSUME TypeOK, InHand, OwnUuid, MailsCarryOwnUuid, [Next]_vars
  PROVE  MailsCarryOwnUuid'
BY MailStep DEF MailsCarryOwnUuid

-----------------------------------------------------------------------------
(* What an acknowledged registration has had *)

\* The invoice in hand is the registration's, paid if it was to be, and mailed.
Mailed ==
  /\ pc \in InvoiceSteps => invoices[job.invoice].for = cur
  /\ pc = "pay" => cur \in Paid
  /\ pc \in PaperSteps => (invoices[job.invoice].paid <=> cur \in Paid)
  /\ pc = "status" => \E mail \in mails : mail.for = cur /\ mail.invoice = job.invoice

\* Steps that neither touch the invoice in hand nor take up another message.
LEMMA PaperworkSame ==
  ASSUME [Next]_vars, pc' \in InvoiceSteps \/ (pc' = "ack" /\ cur' \in Registration \ BadVat),
         TypeOK, InHand, ~_create_invoice, ~mark_invoice_as_paid
  PROVE  /\ UNCHANGED <<cur, job, invoices>>
         /\ pc' \in PaperSteps => pc \in PaperSteps
         /\ pc' = "pay" => pc = "pay"
         /\ pc' = "ack" => pc \in {"ack", "status"}
         /\ pc' = "status" /\ pc # "status" => send_mailing
<1> USE KindAssumption, ContentAssumption
    DEF vars, delivery, identity, books, outcome, InvoiceSteps, PaperSteps, AskedSteps
<1>1. CASE HandlerStep
  BY <1>1 DEF HandlerStep, basic_ack, send_to_dlq, publish_vat_validation_error, Deadline,
     request_master_uuid, consume, _get_or_create_client, Retry, NextAttempt,
     Continue, Fail, UseClient, get_invoice, get_invoice_pdf, _reset_admin_session,
     send_mailing, publish_invoice_status, find_client, update_client, InHand
<1>2. CASE ~HandlerStep
  BY <1>2 DEF Next, Take, DropDuplicate, D!Discard, First, Escape, Crash, Answer, SessionExpires
<1>3. QED
  BY <1>1, <1>2

LEMMA MailedStep ==
  ASSUME TypeOK, InHand, OwnUuid, Mailed, AckMeansMailed, [Next]_vars
  PROVE  Mailed' /\ AckMeansMailed'
<1> USE DEF InvoiceSteps, PaperSteps
<1>1. mails \subseteq mails' /\ job \in Job
  BY MailStep DEF TypeOK
<1>2. CASE _create_invoice
  <2>1. CASE Retry
    BY <1>1, <1>2, <2>1, NextAttemptSame DEF Retry, Mailed, AckMeansMailed
  <2>2. CASE ~Retry
    <3> DEFINE new == [client |-> job.client, for |-> cur, paid |-> FALSE]
    <3>1. /\ invoices' = Append(invoices, new) /\ cur' = cur
          /\ job' = [job EXCEPT !.invoice = Len(invoices) + 1]
          /\ pc' = (IF cur \in Paid THEN "pay" ELSE "fetch")
      BY <1>2, <2>2 DEF _create_invoice, Continue, delivery
    <3>2. job'.invoice = Len(invoices) + 1
      BY <1>1, <3>1 DEF Job
    <3>3. new \in AnInvoice
      BY <1>2 DEF _create_invoice, InHand, ClientSteps, AskedSteps, AnInvoice
    <3>4. invoices \in Seq(AnInvoice)
      BY DEF TypeOK, AnInvoice
    <3>5. new.for = cur /\ new.paid = FALSE
      OBVIOUS
    <3> HIDE DEF new
    <3>6. invoices'[Len(invoices) + 1] = new
      BY ONLY <3>1, <3>3, <3>4, AppendOne
    <3>7. QED
      BY <3>1, <3>2, <3>5, <3>6 DEF Mailed, AckMeansMailed
  <2>3. QED
    BY <2>1, <2>2
<1>3. CASE mark_invoice_as_paid
  <2>1. CASE Retry
    BY <1>1, <1>3, <2>1, NextAttemptSame DEF Retry, Mailed, AckMeansMailed
  <2>2. CASE ~Retry
    <3>1. /\ invoices' = [invoices EXCEPT ![job.invoice].paid = TRUE]
          /\ UNCHANGED <<cur, job>> /\ pc = "pay" /\ pc' = "fetch"
      BY <1>3, <2>2 DEF mark_invoice_as_paid, Continue, delivery
    <3>2. job.invoice \in DOMAIN invoices /\ invoices \in Seq(AnInvoice)
      BY <3>1 DEF InHand, TypeOK, AnInvoice
    <3>3. invoices[job.invoice] \in AnInvoice
      BY ONLY <3>2, LenProperties
    <3>4. invoices'[job.invoice].paid /\ invoices'[job.invoice].for = invoices[job.invoice].for
      BY <3>1, <3>2, <3>3 DEF AnInvoice
    <3>5. QED
      BY <3>1, <3>4 DEF Mailed, AckMeansMailed
  <2>3. QED
    BY <2>1, <2>2
<1>4. CASE ~_create_invoice /\ ~mark_invoice_as_paid
  <2>1. CASE pc' \in InvoiceSteps
    <3>1. pc' = "status" /\ pc # "status" =>
            \E mail \in mails' : mail.for = cur /\ mail.invoice = job.invoice
      <4>1. ASSUME pc' = "status", send_mailing
            PROVE  [for |-> cur, invoice |-> job.invoice, uuid |-> job.uuid] \in mails'
        BY <4>1 DEF send_mailing
      <4>2. \A u : LET mail == [for |-> cur, invoice |-> job.invoice, uuid |-> u]
                   IN mail.for = cur /\ mail.invoice = job.invoice
        OBVIOUS
      <4>3. pc' = "status" /\ pc # "status" => send_mailing
        BY <1>4, <2>1, PaperworkSame
      <4>4. QED
        BY <4>1, <4>2, <4>3
    <3>2. QED
      BY <1>1, <1>4, <2>1, <3>1, PaperworkSame DEF Mailed, AckMeansMailed
  <2>2. CASE pc' = "ack" /\ cur' \in Registration \ BadVat
    <3>1. UNCHANGED <<cur, job, invoices>> /\ pc \in {"ack", "status"}
      BY <1>4, <2>2, PaperworkSame
    <3>2. QED
      BY <1>1, <2>2, <3>1 DEF Mailed, AckMeansMailed
  <2>3. CASE pc' \notin InvoiceSteps /\ ~(pc' = "ack" /\ cur' \in Registration \ BadVat)
    BY <2>3 DEF Mailed, AckMeansMailed
  <2>4. QED
    BY <2>1, <2>2, <2>3
<1>5. QED
  BY <1>2, <1>3, <1>4

-----------------------------------------------------------------------------
(* What a mail says stays true *)

\* The invoice that was mailed is the registration's, and paid exactly if that was.
TrueMail(mail) == /\ mail.invoice \in DOMAIN invoices
                  /\ invoices[mail.invoice].for = mail.for
                  /\ invoices[mail.invoice].paid <=> mail.for \in Paid

MailsAreTrue == \A mail \in mails : TrueMail(mail)

\* What was acknowledged has been mailed.
AckedAreMailed == \A m \in acked \cap (Registration \ BadVat) : \E mail \in mails : mail.for = m

\* Payments reach only the invoice of a registration that is to be paid.
LEMMA PaidStep ==
  ASSUME TypeOK, InHand, Mailed, [Next]_vars, NEW i \in DOMAIN invoices
  PROVE  \/ invoices'[i].paid = invoices[i].paid
         \/ invoices'[i].paid /\ invoices[i].for \in Paid
<1>1. /\ invoices \in Seq(AnInvoice) /\ DOMAIN invoices = 1..Len(invoices)
      /\ invoices[i] \in AnInvoice
  <2>1. invoices \in Seq(AnInvoice) /\ i \in DOMAIN invoices
    BY DEF TypeOK, AnInvoice
  <2>2. QED
    BY ONLY <2>1, LenProperties
<1>2. CASE invoices' = invoices
  BY <1>2
<1>3. CASE _create_invoice /\ invoices' = Append(invoices,
             [client |-> job.client, for |-> cur, paid |-> FALSE])
  <2> DEFINE new == [client |-> job.client, for |-> cur, paid |-> FALSE]
  <2>1. new \in AnInvoice /\ invoices' = Append(invoices, new)
    BY <1>3 DEF _create_invoice, InHand, ClientSteps, AskedSteps, AnInvoice
  <2> HIDE DEF new
  <2>2. invoices'[i] = invoices[i]
    BY ONLY <1>1, <2>1, AppendOne
  <2>3. QED
    BY <2>2
<1>4. CASE mark_invoice_as_paid /\ invoices' = [invoices EXCEPT ![job.invoice].paid = TRUE]
  <2>1. job.invoice \in DOMAIN invoices /\ invoices[job.invoice].for \in Paid
    BY <1>4 DEF mark_invoice_as_paid, InHand, Mailed, InvoiceSteps, PaperSteps
  <2>2. CASE i = job.invoice
    BY <1>1, <1>4, <2>1, <2>2 DEF AnInvoice
  <2>3. CASE i # job.invoice
    BY <1>4, <2>1, <2>3
  <2>4. QED
    BY <2>2, <2>3
<1>5. QED
  BY <1>2, <1>3, <1>4, Writers

LEMMA TrueStep ==
  ASSUME TypeOK, InHand, OwnUuid, Mailed, MailsAreTrue, AckMeansMailed, AckedAreMailed, [Next]_vars
  PROVE  MailsAreTrue' /\ AckedAreMailed'
<1>1. ASSUME NEW mail \in mails
      PROVE  TrueMail(mail)'
  <2>1. TrueMail(mail)
    BY DEF MailsAreTrue
  <2>2. /\ mail.invoice \in DOMAIN invoices'
        /\ invoices'[mail.invoice].for = invoices[mail.invoice].for
    BY <2>1, GrowStep DEF TrueMail, Growing
  <2>3. QED
    BY <2>1, <2>2, PaidStep DEF TrueMail
<1>2. ASSUME NEW mail \in mails' \ mails
      PROVE  TrueMail(mail)'
  <2>1. /\ mail.for = cur /\ mail.invoice = job.invoice
        /\ job.invoice \in DOMAIN invoices
    BY MailStep
  <2>2. pc = "mail" /\ UNCHANGED invoices
    BY DEF vars, delivery, identity, books, outcome, Next, HandlerStep, Take, DropDuplicate,
       basic_ack, send_to_dlq, Escape, Crash, publish_vat_validation_error, request_master_uuid,
       Answer, consume, Deadline, _get_or_create_client, _create_invoice, mark_invoice_as_paid,
       get_invoice, SessionExpires, get_invoice_pdf, _reset_admin_session, send_mailing,
       publish_invoice_status, find_client, update_client
  <2>3. QED
    BY <2>1, <2>2 DEF TrueMail, Mailed, InvoiceSteps, PaperSteps
<1>3. AckedAreMailed'
  <2>1. mails \subseteq mails'
    BY MailStep
  <2>2. acked' = acked \/ (pc = "ack" /\ acked' = acked \cup {cur})
    BY DEF vars, delivery, identity, books, outcome, Next, HandlerStep, Take, DropDuplicate,
       basic_ack, send_to_dlq, Escape, Crash, publish_vat_validation_error, request_master_uuid,
       Answer, consume, Deadline, _get_or_create_client, _create_invoice, mark_invoice_as_paid,
       get_invoice, SessionExpires, get_invoice_pdf, _reset_admin_session, send_mailing,
       publish_invoice_status, find_client, update_client
  <2>3. QED
    BY <2>1, <2>2 DEF AckedAreMailed, AckMeansMailed
<1>4. QED
  BY <1>1, <1>2, <1>3 DEF MailsAreTrue

-----------------------------------------------------------------------------
(* Clients and their addresses *)

\* What the search established of the client in hand.
Found ==
  /\ pc = "invoice" /\ EmailOf[cur] \in Apart => clients[job.client] = EmailOf[cur]
  /\ pc = "update" => clients[job.client] \in Finds[EmailOf[cur]]

\* No client comes to or leaves an address that the search does not confuse, and a new client
\* has an address that no other has.
LEMMA ClientsStep ==
  ASSUME TypeOK, InHand, Found, [Next]_vars
  PROVE  /\ \A k \in Client : clients[k] \in Apart \/ clients'[k] \in Apart =>
                             clients'[k] = clients[k]
         /\ \A j, k \in Client' \ Client : j = k
         /\ \A k \in Client' \ Client, j \in Client : clients'[k] # clients[j]
<1> USE ContentAssumption
<1>1. /\ clients \in Seq(Email) /\ Len(clients) \in Nat /\ DOMAIN clients = 1..Len(clients)
      /\ \A k \in Client : clients[k] \in Email
  BY LenProperties DEF TypeOK, Client
<1>2. CASE clients' = clients
  BY <1>2 DEF Client
<1>3. CASE _get_or_create_client /\ _get_client_by_email = {}
           /\ clients' = Append(clients, EmailOf[cur])
  <2>1. EmailOf[cur] \in Email
    BY <1>3 DEF _get_or_create_client, InHand, AskedSteps, Message
  <2>2. /\ Len(clients') = Len(clients) + 1 /\ clients'[Len(clients) + 1] = EmailOf[cur]
        /\ \A k \in 1..Len(clients) : clients'[k] = clients[k]
    BY ONLY <1>1, <1>3, <2>1, AppendOne
  <2>3. \A j \in Client : clients[j] # EmailOf[cur]
    BY <1>3, <2>1 DEF _get_client_by_email
  <2>4. \A k \in Client' \ Client : k = Len(clients) + 1
    BY <1>1, <2>2 DEF Client
  <2>5. QED
    BY <2>2, <2>3, <2>4 DEF Client
<1>4. CASE update_client /\ clients' = [clients EXCEPT ![job.client] = EmailOf[cur]]
  <2>1. /\ EmailOf[cur] \in Email /\ job.client \in Client
        /\ clients[job.client] \in Finds[EmailOf[cur]]
    BY <1>4 DEF update_client, InHand, ClientSteps, Message, Found
  <2>2. clients' \in Seq(Email) /\ Len(clients') = Len(clients)
    BY ONLY <1>1, <1>4, <2>1, ReplaceOne DEF Client
  <2>3. \A k \in Client : clients'[k] = IF k = job.client THEN EmailOf[cur] ELSE clients[k]
    BY <1>1, <1>4 DEF Client
  <2>4. clients[job.client] \in Apart \/ EmailOf[cur] \in Apart =>
          clients[job.client] = EmailOf[cur]
    BY <1>1, <2>1 DEF Apart
  <2>5. QED
    BY <2>2, <2>3, <2>4 DEF Client
<1>5. QED
  BY <1>2, <1>3, <1>4, Writers

LEMMA OneClientStep ==
  ASSUME TypeOK, InHand, Found, OneClientPerAddress, [Next]_vars
  PROVE  OneClientPerAddress'
BY ClientsStep DEF OneClientPerAddress, Apart

LEMMA FoundStep ==
  ASSUME TypeOK, InHand, Found, [Next]_vars
  PROVE  Found'
<1> USE ContentAssumption, KindAssumption DEF vars, delivery, identity, books, outcome
<1>1. /\ clients \in Seq(Email) /\ job \in Job /\ \A k \in Client : clients[k] \in Email
  BY LenProperties DEF TypeOK, Client
<1>2. CASE _get_or_create_client
  <2>1. cur' = cur /\ EmailOf[cur] \in Email
    BY <1>2 DEF _get_or_create_client, InHand, AskedSteps, Message
  <2>2. CASE Retry
    BY <1>1, <2>2, NextAttemptSame DEF Retry, Found
  <2>3. CASE clients' = clients /\ \E k \in _get_client_by_email : UseClient(k, "invoice")
    BY <1>1, <2>1, <2>3 DEF _get_client_by_email, UseClient, Found, Job, Apart
  <2>4. CASE clients' = Append(clients, EmailOf[cur]) /\ UseClient(Len(clients) + 1, "invoice")
    <3>1. clients'[Len(clients) + 1] = EmailOf[cur]
      BY ONLY <1>1, <2>1, <2>4, AppendOne
    <3>2. QED
      BY <1>1, <2>1, <2>4, <3>1 DEF UseClient, Found, Job
  <2>5. QED
    BY <1>2, <2>2, <2>3, <2>4 DEF _get_or_create_client
<1>3. CASE find_client
  BY <1>1, <1>3 DEF find_client, _get_client_by_email, UseClient, Continue, Fail, Found, Job
<1>4. CASE ~_get_or_create_client /\ ~find_client
  <2>1. pc' \in {"invoice", "update"} => UNCHANGED <<pc, cur, job, clients>>
    <3>1. CASE HandlerStep
      BY <1>1, <1>4, <3>1, NextAttemptSame DEF HandlerStep, basic_ack, send_to_dlq,
         publish_vat_validation_error, Deadline, request_master_uuid, consume, _create_invoice,
         mark_invoice_as_paid, Retry, Continue, Fail, get_invoice, get_invoice_pdf,
         _reset_admin_session, send_mailing, publish_invoice_status, update_client
    <3>2. CASE ~HandlerStep
      BY <3>2 DEF Next, Take, DropDuplicate, D!Discard, First, Escape, Crash, Answer,
         SessionExpires
    <3>3. QED
      BY <3>1, <3>2
  <2>2. QED
    BY <2>1 DEF Found
<1>5. QED
  BY <1>2, <1>3, <1>4

LEMMA OwnerStep ==
  ASSUME TypeOK, InHand, Found, InvoiceWithItsOwner, [Next]_vars
  PROVE  InvoiceWithItsOwner'
<1>1. invoices \in Seq(AnInvoice) /\ Len(invoices) \in Nat /\ DOMAIN invoices = 1..Len(invoices)
  BY LenProperties DEF TypeOK, AnInvoice
<1>2. \A i \in DOMAIN invoices : invoices[i].client \in Client
  <2>1. \A i \in DOMAIN invoices : invoices[i] \in AnInvoice
    BY ONLY <1>1, LenProperties
  <2>2. QED
    BY <2>1 DEF AnInvoice
<1>3. \A i \in DOMAIN invoices :
        EmailOf[invoices[i].for] \in Apart => clients'[invoices[i].client] = EmailOf[invoices[i].for]
  BY <1>2, ClientsStep DEF InvoiceWithItsOwner
<1>4. \A i \in DOMAIN invoices : /\ invoices'[i].client = invoices[i].client
                                 /\ invoices'[i].for = invoices[i].for
  BY GrowStep DEF Growing
<1>5. CASE _create_invoice
           /\ invoices' = Append(invoices, [client |-> job.client, for |-> cur, paid |-> FALSE])
  <2> DEFINE new == [client |-> job.client, for |-> cur, paid |-> FALSE]
  <2>1. new \in AnInvoice /\ new.client = job.client /\ new.for = cur
    BY <1>5 DEF _create_invoice, InHand, ClientSteps, AskedSteps, AnInvoice
  <2>2. EmailOf[cur] \in Apart => clients'[job.client] = EmailOf[cur]
    BY <1>5 DEF _create_invoice, Found
  <2>3. invoices' = Append(invoices, new)
    BY <1>5
  <2> HIDE DEF new
  <2>4. /\ DOMAIN invoices' = 1..(Len(invoices) + 1)
        /\ invoices'[Len(invoices) + 1] = new
    BY ONLY <1>1, <2>1, <2>3, AppendOne
  <2>5. \A i \in DOMAIN invoices' : i \in DOMAIN invoices \/ i = Len(invoices) + 1
    BY <1>1, <2>4
  <2>6. QED
    BY <1>3, <1>4, <2>1, <2>2, <2>4, <2>5 DEF InvoiceWithItsOwner, Apart
<1>6. CASE DOMAIN invoices' = DOMAIN invoices
  BY <1>3, <1>4, <1>6 DEF InvoiceWithItsOwner, Apart
<1>7. mark_invoice_as_paid /\ invoices' = [invoices EXCEPT ![job.invoice].paid = TRUE]
        => DOMAIN invoices' = DOMAIN invoices
  OBVIOUS
<1>8. QED
  BY <1>5, <1>6, <1>7, Writers

-----------------------------------------------------------------------------
(* How often a registration is invoiced *)

InvoicesFor(m) == {i \in DOMAIN invoices : invoices[i].for = m}
Times(m)       == Cardinality(InvoicesFor(m))

Uninvoiced == {"refuse", "ask", "await", "client", "invoice"}

\* A registration that may still be invoiced has been so for faults only; the one in hand is
\* marked.
Due ==
  /\ cur \in taken \cup {NoMessage}
  /\ \A m \in Registration :
       m \in inbox \ taken \/ (cur = m /\ pc \in Uninvoiced) => Times(m) <= faults

\* An invoice adds one to the registration in hand; nothing else changes how many one has.
LEMMA TimesStep ==
  ASSUME TypeOK, InHand, [Next]_vars
  PROVE  /\ \A m : Times(m) \in Nat
         /\ \/ \A m : Times(m)' = Times(m)
            \/ /\ _create_invoice /\ cur \in Registration
               /\ \A m : Times(m)' = IF m = cur THEN Times(m) + 1 ELSE Times(m)
<1>1. invoices \in Seq(AnInvoice) /\ Len(invoices) \in Nat /\ DOMAIN invoices = 1..Len(invoices)
  BY LenProperties DEF TypeOK, AnInvoice
<1>2. \A m : IsFiniteSet(InvoicesFor(m)) /\ Times(m) \in Nat
  <2>1. IsFiniteSet(1..Len(invoices))
    BY <1>1, FS_Interval
  <2>2. \A m : InvoicesFor(m) \subseteq 1..Len(invoices)
    BY <1>1 DEF InvoicesFor
  <2>3. QED
    BY <2>1, <2>2, FS_Subset, FS_CardinalityType DEF Times
<1>3. CASE DOMAIN invoices' = DOMAIN invoices
  <2>1. \A m : InvoicesFor(m)' = InvoicesFor(m)
    BY <1>3, GrowStep DEF Growing, InvoicesFor
  <2>2. QED
    BY <1>2, <2>1 DEF Times
<1>4. CASE _create_invoice
           /\ invoices' = Append(invoices, [client |-> job.client, for |-> cur, paid |-> FALSE])
  <2> DEFINE new == [client |-> job.client, for |-> cur, paid |-> FALSE]
             k   == Len(invoices) + 1
  <2>1. new \in AnInvoice /\ new.for = cur /\ cur \in Registration
    BY <1>4 DEF _create_invoice, InHand, ClientSteps, AskedSteps, AnInvoice
  <2>2. invoices' = Append(invoices, new)
    BY <1>4
  <2> HIDE DEF new
  <2>3. /\ DOMAIN invoices' = 1..k /\ invoices'[k] = new
        /\ \A i \in 1..Len(invoices) : invoices'[i] = invoices[i]
    BY ONLY <1>1, <2>1, <2>2, AppendOne
  <2>4. 1..k = DOMAIN invoices \cup {k} /\ k \notin DOMAIN invoices
    BY <1>1
  <2> HIDE DEF k
  <2>5. ASSUME NEW m
        PROVE  Times(m)' = IF m = cur THEN Times(m) + 1 ELSE Times(m)
    <3>1. InvoicesFor(m)' = IF m = cur THEN InvoicesFor(m) \cup {k} ELSE InvoicesFor(m)
      BY <1>1, <2>1, <2>3, <2>4 DEF InvoicesFor
    <3>2. k \notin InvoicesFor(m) /\ IsFiniteSet(InvoicesFor(m))
      BY <1>2, <2>4 DEF InvoicesFor
    <3>3. Cardinality(InvoicesFor(m) \cup {k}) = Cardinality(InvoicesFor(m)) + 1
      BY <3>2, FS_AddElement
    <3>4. QED
      BY <3>1, <3>3 DEF Times
  <2>6. QED
    BY <1>2, <1>4, <2>1, <2>5
<1>5. mark_invoice_as_paid /\ invoices' = [invoices EXCEPT ![job.invoice].paid = TRUE]
        => DOMAIN invoices' = DOMAIN invoices
  OBVIOUS
<1>6. QED
  BY <1>3, <1>4, <1>5, Writers

LEMMA DueStep ==
  ASSUME TypeOK, InHand, Due, OverinvoicingNeedsFaults, [Next]_vars
  PROVE  Due' /\ OverinvoicingNeedsFaults'
<1> USE KindAssumption DEF vars, delivery, identity, books, outcome, Uninvoiced
<1>1. /\ faults \in Nat /\ (faults' = faults \/ faults' = faults + 1)
      /\ Retry \/ Crash => faults' = faults + 1
  <2>1. faults' = faults \/ faults' = faults + 1
    BY FaultStep DEF Fault
  <2>2. QED
    BY <2>1, BoundAssumption DEF TypeOK, Retry, Crash, Fault
<1>2. cur' \in taken' \cup {NoMessage}
  BY DEF Due, Self, D!Take, D!Discard, D!Settle, D!Return, D!Restart,
     Next, HandlerStep, Take, DropDuplicate, basic_ack, send_to_dlq, Escape, Crash,
     publish_vat_validation_error, request_master_uuid, Answer, consume,
     Deadline, _get_or_create_client, _create_invoice, mark_invoice_as_paid, get_invoice,
     SessionExpires, get_invoice_pdf, _reset_admin_session, send_mailing, publish_invoice_status,
     find_client, update_client
<1>3. SUFFICES ASSUME NEW m \in Registration
               PROVE  /\ m \in inbox' \ taken' \/ (cur' = m /\ pc' \in Uninvoiced) =>
                           Times(m)' <= faults'
                      /\ Times(m)' <= 1 + faults'
  BY <1>2 DEF Due, OverinvoicingNeedsFaults, Times, InvoicesFor
<1>4. Times(m) \in Nat /\ Times(m) <= 1 + faults
  BY TimesStep DEF OverinvoicingNeedsFaults, Times, InvoicesFor
<1>5. m \in inbox \ taken \/ (cur = m /\ pc \in Uninvoiced) => Times(m) <= faults
  BY DEF Due
<1>6. CASE _create_invoice /\ cur \in Registration
           /\ \A n : Times(n)' = IF n = cur THEN Times(n) + 1 ELSE Times(n)
  <2>1. /\ pc = "invoice" /\ UNCHANGED <<inbox, taken, cur>>
        /\ Retry \/ pc' \in {"pay", "fetch"}
    BY <1>6 DEF _create_invoice, Continue
  <2>2. cur \notin inbox \ taken
    BY <1>6 DEF Due, Message
  <2>3. Times(m)' = IF m = cur THEN Times(m) + 1 ELSE Times(m)
    BY <1>6
  <2>4. QED
    BY <1>1, <1>4, <1>5, <2>1, <2>2, <2>3
<1>7. CASE \A n : Times(n)' = Times(n)
  <2>1. CASE Retry \/ Crash
    BY <1>1, <1>4, <1>7, <2>1
  <2>2. CASE ~(Retry \/ Crash)
    <3>1. m \in inbox' \ taken' \/ (cur' = m /\ pc' \in Uninvoiced) =>
            m \in inbox \ taken \/ (cur = m /\ pc \in Uninvoiced)
      <4>1. CASE HandlerStep
        BY <2>2, <4>1 DEF HandlerStep, D!Settle, D!Return, Due, basic_ack, send_to_dlq,
           publish_vat_validation_error, request_master_uuid, consume, Deadline,
           _get_or_create_client, _create_invoice, mark_invoice_as_paid, get_invoice,
           get_invoice_pdf, _reset_admin_session, send_mailing, publish_invoice_status,
           find_client, update_client, Continue, Fail, UseClient
      <4>2. CASE ~HandlerStep
        BY <2>2, <4>2 DEF Next, Self, Take, D!Take, DropDuplicate, D!Discard, Escape, D!Return,
           Answer, SessionExpires, Due, Message
      <4>3. QED
        BY <4>1, <4>2
    <3>2. QED
      BY <1>1, <1>4, <1>5, <1>7, <3>1
  <2>3. QED
    BY <2>1, <2>2
<1>8. QED
  BY <1>6, <1>7, TimesStep

-----------------------------------------------------------------------------
(* What a registration that ends badly has cost *)

\* The handler of the registration in hand cannot end well any more, unless it is cut off: it
\* rejects, or it waits with a bad answer in its queue, or it works on without a UUID.
Doomed ==
  \/ pc = "reject"
  \/ pc = "await" /\ \E a \in Replies : a.uuid \in {NoUuid, Refusal}
  \/ pc \in AskedSteps /\ job.uuid = NoUuid

\* Registrations that ended badly, or will unless the process starts again: those that came
\* back marked will be discarded.
Charged ==
  {m \in Registration \ slow :
     \/ m \in dead
     \/ Lost(m)
     \/ m \in inbox \cap taken
     \/ m = cur /\ Doomed}

ChargedIsPaidFor == IsFiniteSet(Charged) /\ Cardinality(Charged) <= faults

\* A bad answer to the request that a handler waits for is a fault, and dooms that handler;
\* a good one dooms nobody.
LEMMA AnswerStep ==
  ASSUME TypeOK, NEW k \in 1..Len(asked), Answer(k), Doomed'
  PROVE  Doomed \/ Fault
<1>1. CASE pc = "await"
  <2>1. PICK a \in Replies' : a.uuid \in {NoUuid, Refusal}
    BY <1>1 DEF Answer, delivery, books, outcome, Doomed, AskedSteps, InvoiceSteps, PaperSteps
  <2>2. CASE a \in answers
    BY <1>1, <2>1, <2>2 DEF Answer, Replies, Doomed
  <2>3. CASE a \notin answers /\ a = [to |-> k, uuid |-> asked[k]]
    <3>1. asked[k] \in Email
      BY LenProperties DEF TypeOK
    <3>2. QED
      BY <2>1, <2>3, <3>1, ContentAssumption
  <2>4. QED
    BY <2>1, <2>2, <2>3 DEF Answer, Replies
<1>2. CASE pc # "await"
  BY <1>2 DEF Answer, Doomed
<1>3. QED
  BY <1>1, <1>2

\* Only a fault charges a registration, and it charges the one in hand.
LEMMA ChargeStep ==
  ASSUME TypeOK, InHand, OwnUuid, [Next]_vars
  PROVE  \A m \in Charged' \ Charged : Fault /\ m = cur
<1> SUFFICES ASSUME NEW m \in Charged', m \notin Charged
             PROVE  Fault /\ m = cur
  OBVIOUS
<1> USE KindAssumption, ContentAssumption DEF vars, delivery, identity, books, outcome
<1>1. job \in Job /\ (\A a \in answers : a.to \in 1..Len(asked)) /\ Len(asked) \in Nat
      /\ m \in Registration /\ m \in Message /\ m # NoMessage
  BY LenProperties DEF TypeOK, Charged, Message
<1>2. /\ m \notin slow'
      /\ \/ m \in dead'
         \/ m \in published' /\ m \notin inbox' /\ m # cur' /\ m \notin acked' /\ m \notin dead'
         \/ m \in inbox' /\ m \in taken'
         \/ m = cur' /\ Doomed'
  BY DEF Charged, Lost
<1>3. \/ m \in slow
      \/ /\ m \notin dead
         /\ m \in inbox \/ m = cur \/ m \in acked \/ m \in dead \/ m \notin published
         /\ m \notin inbox \/ m \notin taken
         /\ m # cur \/ ~Doomed
  BY <1>1 DEF Charged, Lost
<1> USE <1>1, <1>2, <1>3
<1>4. CASE request_master_uuid
  <2>1. m = cur
    BY <1>4 DEF request_master_uuid
  <2>2. CASE Fail
    BY <2>1, <2>2 DEF Fail
  <2>3. CASE job' = [job EXCEPT !.request = Len(asked) + 1] /\ Continue("await")
    <3>1. Replies' = {}
      BY <1>1, <1>4, <2>3 DEF request_master_uuid, Replies, Job
    <3>2. ~Doomed'
      BY <2>3, <3>1 DEF Continue, Doomed, AskedSteps, InvoiceSteps, PaperSteps
    <3>3. QED
      BY <1>4, <3>2 DEF request_master_uuid
  <2>4. QED
    BY <1>4, <2>2, <2>3 DEF request_master_uuid
<1>5. CASE consume
  <2>1. m = cur /\ Doomed' /\ ~Doomed
    BY <1>5 DEF consume
  <2>2. CASE Fail
    BY <2>1, <2>2 DEF Fail
  <2>3. ASSUME NEW a \in Replies, job' = [job EXCEPT !.uuid = a.uuid],
               Continue(IF a.uuid = Refusal THEN "reject" ELSE "client")
        PROVE  FALSE
    <3>1. a.uuid \notin {NoUuid, Refusal} /\ job'.uuid = a.uuid
      BY <1>1, <1>5, <2>1, <2>3 DEF consume, Doomed, Job
    <3>2. QED
      BY <2>1, <2>3, <3>1 DEF Continue, Doomed, AskedSteps, InvoiceSteps, PaperSteps
  <2>4. QED
    BY <1>5, <2>1, <2>2, <2>3 DEF consume
<1>6. CASE Deadline
  BY <1>6 DEF Deadline
<1>7. CASE _get_or_create_client \/ _create_invoice \/ mark_invoice_as_paid
  <2>1. m = cur /\ Doomed' /\ ~Doomed /\ pc \in AskedSteps
    BY <1>7 DEF _get_or_create_client, _create_invoice, mark_invoice_as_paid,
       AskedSteps, InvoiceSteps
  <2>2. CASE Retry
    BY <2>1, <2>2 DEF Retry
  <2>3. CASE ~Retry
    <3>1. job'.uuid = job.uuid /\ pc' \notin {"reject", "await"}
      BY <1>1, <1>7, <2>3 DEF _get_or_create_client, UseClient, _create_invoice,
         mark_invoice_as_paid, Continue, Job
    <3>2. QED
      BY <2>1, <3>1 DEF Doomed
  <2>4. QED
    BY <2>2, <2>3
<1>8. CASE get_invoice \/ get_invoice_pdf \/ _reset_admin_session
  <2>1. m = cur /\ Doomed' /\ ~Doomed /\ pc \in AskedSteps /\ UNCHANGED job
    BY <1>8 DEF get_invoice, get_invoice_pdf, _reset_admin_session, AskedSteps,
       InvoiceSteps, PaperSteps
  <2>2. Fault \/ pc' \in {"pdf", "relogin", "mail"}
    BY <1>8, <2>1 DEF get_invoice, get_invoice_pdf, _reset_admin_session, Continue, Fail, Doomed
  <2>3. QED
    BY <2>1, <2>2 DEF Doomed
<1>9. CASE send_mailing
  <2>1. CASE D!Return
    <3>1. m = cur
      BY <1>9, <2>1 DEF send_mailing, D!Return
    <3>2. job.uuid # NoUuid
      BY <1>1, <1>9, <2>1, <3>1 DEF send_mailing, D!Return, Doomed, AskedSteps,
         InvoiceSteps, PaperSteps
    <3>3. QED
      BY <1>9, <2>1, <3>1, <3>2 DEF send_mailing, D!Return
  <2>2. CASE UNCHANGED <<inbox, taken, cur>> /\ pc' = "status" /\ job.uuid # NoUuid
    BY <1>9, <2>2 DEF send_mailing, Doomed
  <2>3. QED
    BY <1>9, <2>1, <2>2 DEF send_mailing, Continue
<1>10. CASE publish_invoice_status \/ publish_vat_validation_error
  BY <1>10 DEF publish_invoice_status, publish_vat_validation_error, Doomed,
     AskedSteps, InvoiceSteps, PaperSteps
<1>11. CASE find_client \/ update_client
  <2>1. cur \in Update /\ m # cur
    BY <1>1, <1>11 DEF find_client, update_client, InHand
  <2>2. QED
    BY <1>11, <2>1 DEF find_client, update_client
<1>12. CASE basic_ack
  BY <1>12 DEF basic_ack, D!Settle, Doomed, AskedSteps, InvoiceSteps, PaperSteps
<1>13. CASE send_to_dlq
  BY <1>13 DEF send_to_dlq, D!Settle, Doomed
<1>14. CASE Escape
  BY <1>1, <1>14 DEF Escape, D!Return
<1>15. CASE Crash
  BY <1>1, <1>15 DEF Crash, D!Restart
<1>16. ASSUME NEW n \in Message, Take(n)
       PROVE  FALSE
  <2>1. ~Doomed'
    BY <1>16 DEF Take, First, Doomed, AskedSteps, InvoiceSteps, PaperSteps
  <2>2. QED
    BY <1>1, <1>16, <2>1 DEF Take, Self, D!Take
<1>17. ASSUME NEW n \in Message, DropDuplicate(n)
       PROVE  FALSE
  BY <1>1, <1>17 DEF DropDuplicate, Self, D!Discard
<1>18. ASSUME NEW k \in 1..Len(asked), Answer(k)
       PROVE  Fault /\ m = cur
  BY <1>18, AnswerStep DEF Answer
<1>19. CASE SessionExpires
  BY <1>19 DEF SessionExpires, Doomed, Replies
<1>20. CASE UNCHANGED vars
  BY <1>20 DEF Doomed, Replies
<1>21. QED
  BY <1>4, <1>5, <1>6, <1>7, <1>8, <1>9, <1>10, <1>11, <1>12, <1>13, <1>14, <1>15, <1>16, <1>17,
     <1>18, <1>19, <1>20 DEF Next, HandlerStep

LEMMA PaidForStep ==
  ASSUME TypeOK, InHand, OwnUuid, ChargedIsPaidFor, [Next]_vars
  PROVE  ChargedIsPaidFor'
<1>1. faults \in Nat /\ (UNCHANGED faults \/ Fault)
  BY FaultStep, BoundAssumption DEF TypeOK
<1>2. faults' \in Nat /\ faults <= faults' /\ (Fault => faults' = faults + 1)
  BY <1>1 DEF Fault
<1>3. CASE Charged' \subseteq Charged
  <2>1. IsFiniteSet(Charged') /\ Cardinality(Charged') <= Cardinality(Charged)
    BY <1>3, FS_Subset DEF ChargedIsPaidFor
  <2>2. Cardinality(Charged) \in Nat /\ Cardinality(Charged') \in Nat
    BY <2>1, FS_CardinalityType DEF ChargedIsPaidFor
  <2>3. QED
    BY <1>1, <1>2, <2>1, <2>2 DEF ChargedIsPaidFor
<1>4. CASE ~(Charged' \subseteq Charged)
  <2>1. Fault /\ Charged' \subseteq Charged \cup {cur}
    BY <1>4, ChargeStep
  <2>2. /\ IsFiniteSet(Charged \cup {cur}) /\ Cardinality(Charged) \in Nat
        /\ Cardinality(Charged \cup {cur}) <= Cardinality(Charged) + 1
        /\ Cardinality(Charged \cup {cur}) \in Nat
    BY FS_AddElement, FS_CardinalityType DEF ChargedIsPaidFor
  <2>3. IsFiniteSet(Charged') /\ Cardinality(Charged') <= Cardinality(Charged \cup {cur})
    BY <2>1, <2>2, FS_Subset
  <2>4. Cardinality(Charged') \in Nat
    BY <2>3, FS_CardinalityType
  <2>5. QED
    BY <1>1, <1>2, <2>1, <2>2, <2>3, <2>4 DEF ChargedIsPaidFor
<1>5. QED
  BY <1>3, <1>4

-----------------------------------------------------------------------------
(* A handler takes a bounded number of steps *)

\* How many steps the attempt that runs can still take, if it needs no other: the longest way
\* from each step to the end.
Ahead(step) == CASE step = "ask" -> 11
                 [] step = "await" -> 10
                 [] step = "client" -> 9
                 [] step = "invoice" -> 8
                 [] step = "pay" -> 7
                 [] step = "fetch" -> 6
                 [] step = "pdf" -> 5
                 [] step = "relogin" -> 4
                 [] step = "mail" -> 3
                 [] step \in {"status", "update", "refuse"} -> 2
                 [] step = "find" -> 3
                 [] step \in {"ack", "reject"} -> 1
                 [] OTHER -> 0

\* Another attempt repeats three steps at most: client, invoice and payment.
StepsLeft == 3 * (MAX_RETRIES - job.attempt) + Ahead(pc)

LEMMA StepsLeftType ==
  ASSUME TypeOK
  PROVE  StepsLeft \in 0..(3 * MAX_RETRIES + 8)
<1>1. job.attempt \in 1..MAX_RETRIES /\ MAX_RETRIES \in Nat
  BY BoundAssumption DEF TypeOK, Job
<1>2. Ahead(pc) \in 0..11
  BY DEF TypeOK, Steps, Ahead
<1>3. QED
  BY <1>1, <1>2 DEF StepsLeft

\* Another attempt, or none, leaves fewer steps.
LEMMA AttemptStepsLeft ==
  ASSUME TypeOK, NextAttempt, pc \in {"client", "invoice", "pay"}
  PROVE  StepsLeft' < StepsLeft
<1>1. job \in Job /\ MAX_RETRIES \in Nat /\ job.attempt \in 1..MAX_RETRIES
  BY BoundAssumption DEF TypeOK, Job
<1>2. Ahead(pc) \in 7..9 /\ Ahead("client") = 9 /\ Ahead("reject") = 1
  BY DEF Ahead
<1>3. CASE pc' = "client" /\ job' = [job EXCEPT !.attempt = @ + 1]
  <2>1. job'.attempt = job.attempt + 1
    BY <1>1, <1>3 DEF Job
  <2>2. QED
    BY <1>1, <1>2, <1>3, <2>1 DEF StepsLeft
<1>4. CASE pc' = "reject" /\ UNCHANGED job
  BY <1>1, <1>2, <1>4 DEF StepsLeft
<1>5. QED
  BY <1>3, <1>4 DEF NextAttempt

LEMMA DescentStep ==
  ASSUME TypeOK, InHand, [Next]_vars
  PROVE  /\ HandlerStep => StepsLeft' < StepsLeft
         /\ ~HandlerStep /\ cur' = cur => StepsLeft' = StepsLeft
<1>1. job \in Job /\ MAX_RETRIES \in Nat /\ job.attempt \in 1..MAX_RETRIES
  BY BoundAssumption DEF TypeOK, Job
<1>2. ASSUME job'.attempt = job.attempt, Ahead(pc)' < Ahead(pc), Ahead(pc)' \in Nat,
             Ahead(pc) \in Nat
      PROVE  StepsLeft' < StepsLeft
  BY <1>1, <1>2 DEF StepsLeft
<1>3. ASSUME _get_or_create_client
      PROVE  StepsLeft' < StepsLeft
  <2>1. CASE Retry
    BY <1>3, <2>1, AttemptStepsLeft DEF _get_or_create_client, Retry
  <2>2. CASE ~Retry
    BY <1>1, <1>2, <1>3, <2>2 DEF _get_or_create_client, UseClient, Job, Ahead
  <2>3. QED
    BY <2>1, <2>2
<1>4. ASSUME _create_invoice
      PROVE  StepsLeft' < StepsLeft
  <2>1. CASE Retry
    BY <1>4, <2>1, AttemptStepsLeft DEF _create_invoice, Retry
  <2>2. CASE ~Retry
    BY <1>1, <1>2, <1>4, <2>2 DEF _create_invoice, Continue, Job, Ahead
  <2>3. QED
    BY <2>1, <2>2
<1>5. ASSUME mark_invoice_as_paid
      PROVE  StepsLeft' < StepsLeft
  <2>1. CASE Retry
    BY <1>5, <2>1, AttemptStepsLeft DEF mark_invoice_as_paid, Retry
  <2>2. CASE ~Retry
    BY <1>2, <1>5, <2>2 DEF mark_invoice_as_paid, Continue, Ahead
  <2>3. QED
    BY <2>1, <2>2
<1>6. ASSUME request_master_uuid \/ consume \/ Deadline \/ find_client
      PROVE  StepsLeft' < StepsLeft
  BY <1>1, <1>2, <1>6
  DEF request_master_uuid, consume, Deadline, find_client, UseClient, Continue, Fail, Job, Ahead
<1>7. ASSUME \/ publish_vat_validation_error \/ get_invoice \/ get_invoice_pdf
             \/ _reset_admin_session \/ send_mailing \/ publish_invoice_status
             \/ update_client \/ basic_ack \/ send_to_dlq
      PROVE  StepsLeft' < StepsLeft
  BY <1>2, <1>7
  DEF publish_vat_validation_error, get_invoice, get_invoice_pdf, _reset_admin_session,
      send_mailing, publish_invoice_status, update_client, basic_ack, send_to_dlq, Continue,
      Fail, Ahead
<1>8. HandlerStep => StepsLeft' < StepsLeft
  BY <1>3, <1>4, <1>5, <1>6, <1>7 DEF HandlerStep
<1>9. ASSUME ~HandlerStep, cur' = cur
      PROVE  UNCHANGED <<pc, job>>
  BY <1>9, KindAssumption
  DEF Next, vars, delivery, Take, D!Take, DropDuplicate, Escape, D!Return, Crash, D!Restart,
      Answer, SessionExpires, InHand, Message
<1>10. QED
  BY <1>8, <1>9 DEF StepsLeft

-----------------------------------------------------------------------------
Inv == /\ TypeOK /\ InHand
       /\ OwnUuid /\ MailsCarryOwnUuid
       /\ Mailed /\ AckMeansMailed
       /\ MailsAreTrue /\ AckedAreMailed
       /\ Found /\ OneClientPerAddress /\ InvoiceWithItsOwner
       /\ Due /\ OverinvoicingNeedsFaults
       /\ ChargedIsPaidFor

LEMMA InitInv == Init => Inv
<1> SUFFICES ASSUME Init PROVE Inv
  OBVIOUS
<1> USE KindAssumption, ContentAssumption, BoundAssumption
<1>1. TypeOK /\ InHand
  BY DEF Init, TypeOK, InHand, NoJob, Job, Steps, Client, Message, AskedSteps, ClientSteps,
     InvoiceSteps, PaperSteps
<1>2. pc = "idle" /\ answers = {} /\ mails = {} /\ acked = {} /\ Client = {} /\ DOMAIN invoices = {}
  BY DEF Init, Client
<1>3. \A m \in Registration : Cardinality(InvoicesFor(m)) = 0
  <2>1. \A m \in Registration : InvoicesFor(m) = {}
    BY <1>2 DEF InvoicesFor
  <2>2. QED
    BY <2>1, FS_EmptySet
<1>4. Due /\ OverinvoicingNeedsFaults
  BY <1>3 DEF Init, Due, OverinvoicingNeedsFaults, Times, InvoicesFor
<1>5. ChargedIsPaidFor
  <2>1. Charged = {}
    BY DEF Init, Charged, Lost, Doomed, AskedSteps, InvoiceSteps, PaperSteps
  <2>2. QED
    BY <2>1, FS_EmptySet DEF Init, ChargedIsPaidFor
<1>6. QED
  BY <1>1, <1>2, <1>4, <1>5 DEF Inv, OwnUuid, MailsCarryOwnUuid, Mailed, AckMeansMailed, MailsAreTrue,
     AckedAreMailed, Found, OneClientPerAddress, InvoiceWithItsOwner, AskedSteps, InvoiceSteps, PaperSteps

LEMMA InvHolds == Spec => []Inv
<1>1. Inv /\ [Next]_vars => Inv'
  BY TypeStep, HandStep, UuidStep, MailsStep, MailedStep, TrueStep, FoundStep, OneClientStep,
     OwnerStep, DueStep, PaidForStep
  DEF Inv
<1>2. QED
  BY <1>1, InitInv, PTL DEF Spec

\* The variables keep their types, whatever the identity service answers and FossBilling finds.
THEOREM TypeCorrect == Spec => []TypeOK
<1>1. Inv => TypeOK
  BY DEF Inv
<1>2. QED
  BY <1>1, InvHolds, PTL

\* A mail carries the UUID of the person it is for, and of nobody who asked before.
THEOREM UuidsAreOwn == Spec => []MailsCarryOwnUuid
<1>1. Inv => MailsCarryOwnUuid
  BY DEF Inv
<1>2. QED
  BY <1>1, InvHolds, PTL

\* An acknowledged registration has its invoice, paid if it was to be, and its mail.
THEOREM AcknowledgedAreMailed == Spec => []AckMeansMailed
<1>1. Inv => AckMeansMailed
  BY DEF Inv
<1>2. QED
  BY <1>1, InvHolds, PTL

\* A registration that was ever acknowledged, its VAT number being good, has been sent a mail
\* under its own UUID with an invoice of its own, which is paid exactly if the registration was;
\* and so it stays, whatever the attempts, redeliveries and other registrations do after it.
THEOREM AcknowledgedStaysTrue ==
  Spec => [](\A m \in acked \cap (Registration \ BadVat) :
               \E mail \in mails : /\ mail.for = m
                                   /\ mail.uuid = EmailOf[m]
                                   /\ invoices[mail.invoice].for = m
                                   /\ invoices[mail.invoice].paid <=> m \in Paid)
<1>1. Inv => \A m \in acked \cap (Registration \ BadVat) :
               \E mail \in mails : /\ mail.for = m
                                   /\ mail.uuid = EmailOf[m]
                                   /\ invoices[mail.invoice].for = m
                                   /\ invoices[mail.invoice].paid <=> m \in Paid
  <2> SUFFICES ASSUME Inv, NEW m \in acked \cap (Registration \ BadVat)
               PROVE  \E mail \in mails : /\ mail.for = m
                                          /\ mail.uuid = EmailOf[m]
                                          /\ invoices[mail.invoice].for = m
                                          /\ invoices[mail.invoice].paid <=> m \in Paid
    OBVIOUS
  <2>1. PICK mail \in mails : mail.for = m
    BY DEF Inv, AckedAreMailed
  <2>2. mail.uuid = EmailOf[m] /\ TrueMail(mail)
    BY <2>1 DEF Inv, MailsCarryOwnUuid, MailsAreTrue
  <2>3. QED
    BY <2>1, <2>2 DEF TrueMail
<1>2. QED
  BY <1>1, InvHolds, PTL

\* An address that the search does not confuse with another has one client.
THEOREM ClientsAreSingle == Spec => []OneClientPerAddress
<1>1. Inv => OneClientPerAddress
  BY DEF Inv
<1>2. QED
  BY <1>1, InvHolds, PTL

\* An invoice stays with a client of the address that registered, unless the search confuses
\* it, profile updates included.
THEOREM InvoicesKeepOwners == Spec => []InvoiceWithItsOwner
<1>1. Inv => InvoiceWithItsOwner
  BY DEF Inv
<1>2. QED
  BY <1>1, InvHolds, PTL

\* A registration has one invoice, and one more at most for each fault: a retry or a redelivery
\* invoices again only after one.
THEOREM OverinvoicingIsPaidFor == Spec => []OverinvoicingNeedsFaults
<1>1. Inv => OverinvoicingNeedsFaults
  BY DEF Inv
<1>2. QED
  BY <1>1, InvHolds, PTL

\* Registrations that end in the dead letter queue or nowhere are no more than the faults,
\* those apart that nobody answered in time: a stale session, a late answer or a crash that
\* interrupts one of them costs no other.
THEOREM BadEndsArePaidFor == Spec => []BadEndsNeedFaults
<1>1. Inv => BadEndsNeedFaults
  <2> DEFINE Bad == {m \in Registration \ slow : m \in dead \/ Lost(m)}
  <2> SUFFICES ASSUME Inv PROVE Cardinality(Bad) <= faults
    BY DEF BadEndsNeedFaults
  <2>1. Bad \subseteq Charged /\ IsFiniteSet(Charged) /\ Cardinality(Charged) <= faults
    BY DEF Charged, Inv, ChargedIsPaidFor
  <2> HIDE DEF Bad
  <2>2. IsFiniteSet(Bad) /\ Cardinality(Bad) <= Cardinality(Charged)
    BY <2>1, FS_Subset
  <2>3. Cardinality(Bad) \in Nat /\ Cardinality(Charged) \in Nat /\ faults \in Nat
    BY <2>1, <2>2, BoundAssumption, FS_CardinalityType DEF Inv, TypeOK
  <2>4. QED
    BY <2>1, <2>2, <2>3
<1>2. QED
  BY <1>1, InvHolds, PTL

\* The handler of a registration or a profile update takes 3 * MAX_RETRIES + 8 steps at most,
\* whatever fails and whatever RabbitMQ, FossBilling and the identity service do meanwhile: each
\* of its steps leaves fewer to take, and nobody else's adds one.
THEOREM HandlersDescend ==
  Spec => /\ [](StepsLeft \in 0..(3 * MAX_RETRIES + 8))
          /\ [][HandlerStep => StepsLeft' < StepsLeft]_vars
          /\ [][~HandlerStep /\ cur' = cur => StepsLeft' = StepsLeft]_vars
<1>1. Inv => StepsLeft \in 0..(3 * MAX_RETRIES + 8)
  BY StepsLeftType DEF Inv
<1>2. Inv /\ [Next]_vars => /\ [HandlerStep => StepsLeft' < StepsLeft]_vars
                            /\ [~HandlerStep /\ cur' = cur => StepsLeft' = StepsLeft]_vars
  BY DescentStep DEF Inv
<1>3. QED
  BY <1>1, <1>2, InvHolds, PTL DEF Spec
=============================================================================
