-------------------------- MODULE InvoiceLifecycle --------------------------
(***************************************************************************)
(* What happens to an invoice after it was made: payment_registered and    *)
(* invoice_cancelled, handled one at a time by the receiver, and the MCP   *)
(* server, another process, through which an administrator marks an        *)
(* invoice as paid.  All of them read and write the status that FossBilling*)
(* keeps; the handlers read it once and write it some calls later.         *)
(*                                                                         *)
(* Messages are delivered as module Delivery says.  A call to FossBilling  *)
(* succeeds, fails without a trace, or takes effect and fails to say so.   *)
(***************************************************************************)
EXTENDS Integers, FiniteSets

CONSTANTS
  Invoice,               \* invoices FossBilling has at the start, unpaid
  Payment, Cancellation, \* payment_registered and invoice_cancelled messages
  InvoiceOf,             \* the invoice a message names, or its correlation_id leads to
  NoInvoice,             \* none: not in invoice_registry, or not in FossBilling
  Amount,                \* amount_paid of a payment, in cents
  Lacks,                 \* what a payment lacks of what its XSD leaves optional
  Total,                 \* total_with_tax of an invoice, in cents
  FloatError,            \* what the float that carries the total may add to it
  Priced,                \* invoices of which FossBilling gives a total
  ConsumptionInvoice,    \* invoices made for consumptions, not for a registration
  NoMessage,
  MaxMarks,              \* bound: how often an administrator makes an invoice paid
  MaxFaults              \* bound: failed calls and crashes

Message == Payment \cup Cancellation

Optional == {"transaction", "identity_uuid", "due_date"}

ASSUME KindAssumption == Payment \cap Cancellation = {} /\ NoMessage \notin Message
ASSUME ContentAssumption == /\ NoInvoice \notin Invoice
                            /\ InvoiceOf \in [Message -> Invoice \cup {NoInvoice}]
                            /\ Amount \in [Payment -> Nat]
                            /\ Lacks \in [Payment -> SUBSET Optional]
                            /\ Total \in [Invoice -> Nat]
                            /\ FloatError \in [Invoice -> SUBSET (-1..1)]
                            /\ Priced \subseteq Invoice
                            /\ ConsumptionInvoice \subseteq Invoice
ASSUME BoundAssumption == MaxMarks \in Nat /\ MaxFaults \in Nat

VARIABLES
  inbox,     \* messages waiting in facturatie.incoming
  taken,     \* seen_message_ids
  cur,       \* the message whose handler runs
  pc,        \* the call the handler makes next
  read,      \* the status invoice_cancelled read
  status,    \* FossBilling: the status of each invoice
  credits,   \* FossBilling: the credit notes of each invoice
  sent,      \* what went to crm.incoming, and for which message
  acked,     \* history: messages settled by basic_ack
  dead,      \* history: messages sent to the dead letter queue
  payments,  \* history: how often each invoice became paid
  marks,     \* history: how often the administrator made it paid
  booked,    \* history: payments that pay_invoice entered
  faults     \* how many faults happened (at most MaxFaults)

delivery == <<inbox, taken, cur>>
books    == <<status, credits, payments, marks, booked>>
outcome  == <<sent, acked, dead>>
vars     == <<delivery, pc, read, books, outcome, faults>>

Status == {"unpaid", "paid", "cancelled"}
Steps  == {"idle", "get_payment", "pay", "status", "confirm",
           "get", "credit", "cancel", "announce", "refuse", "ack", "reject"}
Notice == {"status_paid", "confirmed", "cancelled", "not_found", "already_cancelled"}

TypeOK ==
  /\ inbox \subseteq Message
  /\ taken \subseteq Message
  /\ cur \in Message \cup {NoMessage}
  /\ pc \in Steps
  /\ read \in Status \cup {"none"}
  /\ status \in [Invoice -> Status]
  /\ credits \in [Invoice -> Nat]
  /\ sent \subseteq Notice \X Message
  /\ acked \subseteq Message
  /\ dead \subseteq Message
  /\ payments \in [Invoice -> Nat]
  /\ marks \in [Invoice -> 0..MaxMarks]
  /\ booked \subseteq Payment
  /\ faults \in 0..MaxFaults

Init ==
  /\ inbox = Message
  /\ taken = {}
  /\ cur = NoMessage
  /\ pc = "idle"
  /\ read = "none"
  /\ status = [i \in Invoice |-> "unpaid"]
  /\ credits = [i \in Invoice |-> 0]
  /\ sent = {}
  /\ acked = {}
  /\ dead = {}
  /\ payments = [i \in Invoice |-> 0]
  /\ marks = [i \in Invoice |-> 0]
  /\ booked = {}
  /\ faults = 0

Fault == faults < MaxFaults /\ faults' = faults + 1

Continue(step) == pc' = step /\ UNCHANGED faults
Fail           == pc' = "reject" /\ Fault

-----------------------------------------------------------------------------
(* How a handler begins and ends *)

Self == [m \in Message |-> m]

D == INSTANCE Delivery WITH Id <- Message, IdOf <- Self, Refused <- {}

\* The exception escapes from process_message and RabbitMQ keeps the message.
Raise == Fault /\ D!Return /\ pc' = "idle"

Take(m) ==
  /\ D!Take(m)
  /\ pc' = IF m \in Payment THEN "get_payment" ELSE "get"
  /\ read' = "none"
  /\ UNCHANGED <<books, outcome, faults>>

DropDuplicate(m) ==
  /\ D!Discard(m)
  /\ UNCHANGED <<pc, read, books, outcome, faults>>

basic_ack ==
  /\ pc = "ack"
  /\ D!Settle
  /\ pc' = "idle"
  /\ acked' = acked \cup {cur}
  /\ UNCHANGED <<read, books, sent, dead, faults>>

send_to_dlq ==
  /\ pc = "reject"
  /\ D!Settle
  /\ pc' = "idle"
  /\ dead' = dead \cup {cur}
  /\ UNCHANGED <<read, books, sent, acked, faults>>

\* Mutation: gives back a message that nobody had.
EscapeAnything ==
  /\ Fault
  /\ inbox' = inbox \cup {cur}
  /\ cur' = NoMessage
  /\ pc' = "idle"
  /\ UNCHANGED <<taken, read, books, outcome>>

\* No try statement surrounds the registry lookup of invoice_cancelled, its credit note,
\* its answers to the CRM, nor the settling of any message.
Escape ==
  /\ \/ pc \in {"credit", "announce", "refuse", "ack", "reject"}
     \/ pc = "get" /\ cur \in Cancellation
  /\ Raise
  /\ UNCHANGED <<read, books, outcome>>

Crash ==
  /\ Fault
  /\ D!Restart
  /\ pc' = "idle"
  /\ UNCHANGED <<read, books, outcome>>

-----------------------------------------------------------------------------
(* payment_registered *)

\* What the total can be as the exact Decimal of FossBilling's float, in half cents: on
\* either side of the cents, by a fraction of one (a half: only the side matters).  An
\* answer without a total counts as zero.
Decimals(i) == IF i \in Priced THEN {2 * Total[i] + e : e \in FloatError[i]} ELSE {0}

\* Mutation: whole euros, here of two cents.
InFullInEuros(m, total) == Amount[m] \div 2 >= total \div 4

InFull(m, total) == 2 * Amount[m] >= total

\* Resolving the invoice, the transaction, and the invoice's total: the status is not
\* looked at.
get_payment ==
  /\ pc = "get_payment"
  /\ \/ /\ InvoiceOf[cur] = NoInvoice \/ "transaction" \in Lacks[cur]
        /\ Continue("reject")
     \/ /\ InvoiceOf[cur] # NoInvoice
        /\ "transaction" \notin Lacks[cur]
        /\ \E total \in Decimals(InvoiceOf[cur]) :
             Continue(IF InFull(cur, total) THEN "pay" ELSE "status")
     \/ Fail
  /\ UNCHANGED <<delivery, read, books, outcome>>

BecomesPaid(i) ==
  /\ status' = [status EXCEPT ![i] = "paid"]
  /\ payments' = IF status[i] = "paid" THEN payments ELSE [payments EXCEPT ![i] = @ + 1]

Book == BecomesPaid(InvoiceOf[cur]) /\ booked' = booked \cup {cur}

\* Mutation: no invoice_status after a payment in full.
pay_invoice_untold ==
  /\ pc = "pay"
  /\ Book
  /\ Continue("confirm")
  /\ UNCHANGED <<delivery, read, credits, marks, outcome>>

\* Mutation: its False is not looked at.
pay_invoice_unchecked ==
  /\ pc = "pay"
  /\ Fault
  /\ pc' = "status"
  /\ UNCHANGED <<delivery, read, books, outcome>>

pay_invoice ==
  /\ pc = "pay"
  /\ \/ Book /\ Continue("status")
     \/ Book /\ Fail
     \/ UNCHANGED <<status, payments, booked>> /\ Fail
  /\ UNCHANGED <<delivery, read, credits, marks, outcome>>

\* "paid" whatever the amount; a failure is logged and swallowed.  Its XSD wants the UUID
\* that the XSD of the payment leaves optional: without one it fails every time.
publish_invoice_status ==
  /\ pc = "status"
  /\ pc' = "confirm"
  /\ \/ /\ "identity_uuid" \notin Lacks[cur]
        /\ sent' = sent \cup {<<"status_paid", cur>>}
        /\ UNCHANGED faults
     \/ "identity_uuid" \in Lacks[cur] /\ UNCHANGED <<sent, faults>>
     \/ UNCHANGED sent /\ Fault
  /\ UNCHANGED <<delivery, read, books, acked, dead>>

\* The confirmation is built after the payment was booked, and is not valid without the
\* UUID and the due date.
confirm_payment ==
  /\ pc = "confirm"
  /\ \/ /\ Lacks[cur] = {}
        /\ sent' = sent \cup {<<"confirmed", cur>>}
        /\ Continue("ack")
     \/ /\ Lacks[cur] # {}
        /\ UNCHANGED sent
        /\ Continue("reject")
     \/ UNCHANGED sent /\ Fail
  /\ UNCHANGED <<delivery, read, books, acked, dead>>

-----------------------------------------------------------------------------
(* invoice_cancelled *)

\* Mutations: a paid invoice is cancelled like any other; a cancelled one is credited.
get_invoice_blindly ==
  /\ pc = "get"
  /\ InvoiceOf[cur] # NoInvoice
  /\ read' = status[InvoiceOf[cur]]
  /\ Continue(IF read' = "cancelled" THEN "refuse" ELSE "cancel")
  /\ UNCHANGED <<delivery, books, outcome>>

get_invoice_twice ==
  /\ pc = "get"
  /\ InvoiceOf[cur] # NoInvoice
  /\ read' = status[InvoiceOf[cur]]
  /\ Continue(IF read' = "unpaid" THEN "cancel" ELSE "credit")
  /\ UNCHANGED <<delivery, books, outcome>>

get_invoice ==
  /\ pc = "get"
  /\ \/ /\ InvoiceOf[cur] = NoInvoice
        /\ Continue("refuse")
        /\ UNCHANGED read
     \/ /\ InvoiceOf[cur] # NoInvoice
        /\ read' = status[InvoiceOf[cur]]
        /\ Continue(IF read' = "cancelled" THEN "refuse"
                    ELSE IF read' = "paid" THEN "credit" ELSE "cancel")
     \/ UNCHANGED read /\ Fail
  /\ UNCHANGED <<delivery, books, outcome>>

publish_cancellation_failed ==
  /\ pc = "refuse"
  /\ sent' = sent \cup {<<IF read = "none" THEN "not_found" ELSE "already_cancelled", cur>>}
  /\ Continue("ack")
  /\ UNCHANGED <<delivery, read, books, acked, dead>>

\* Mutation: the credit note instead of the cancellation.
create_credit_note_only ==
  /\ pc = "credit"
  /\ credits' = [credits EXCEPT ![InvoiceOf[cur]] = @ + 1]
  /\ Continue("announce")
  /\ UNCHANGED <<delivery, read, status, payments, marks, booked, outcome>>

\* Success goes on to cancel_invoice; a failure escapes (see also Escape), perhaps after
\* the credit note was made.
create_credit_note ==
  /\ pc = "credit"
  /\ credits' = [credits EXCEPT ![InvoiceOf[cur]] = @ + 1]
  /\ \/ Continue("cancel") /\ UNCHANGED delivery
     \/ Raise
  /\ UNCHANGED <<read, status, payments, marks, booked, outcome>>

\* Mutation: the CRM is not told.
cancel_invoice_untold ==
  /\ pc = "cancel"
  /\ status' = [status EXCEPT ![InvoiceOf[cur]] = "cancelled"]
  /\ Continue("ack")
  /\ UNCHANGED <<delivery, read, credits, payments, marks, booked, outcome>>

cancel_invoice ==
  /\ pc = "cancel"
  /\ LET Cancel == status' = [status EXCEPT ![InvoiceOf[cur]] = "cancelled"]
     IN \/ Cancel /\ Continue("announce")
        \/ Cancel /\ Fail
        \/ UNCHANGED status /\ Fail
  /\ UNCHANGED <<delivery, read, credits, payments, marks, booked, outcome>>

publish_invoice_cancelled ==
  /\ pc = "announce"
  /\ sent' = sent \cup {<<"cancelled", cur>>}
  /\ Continue("ack")
  /\ UNCHANGED <<delivery, read, books, acked, dead>>

-----------------------------------------------------------------------------
(* The MCP server, in a process of its own: an administrator marks an invoice as paid, as *)
(* often as he likes and whatever its status.                                            *)
mark_invoice_paid(i) ==
  /\ marks[i] < MaxMarks
  /\ BecomesPaid(i)
  /\ marks' = IF status[i] = "paid" THEN marks ELSE [marks EXCEPT ![i] = @ + 1]
  /\ UNCHANGED <<delivery, pc, read, credits, booked, outcome, faults>>

HandlerStep ==
  \/ get_payment \/ pay_invoice \/ publish_invoice_status \/ confirm_payment
  \/ get_invoice \/ publish_cancellation_failed
  \/ create_credit_note \/ cancel_invoice \/ publish_invoice_cancelled
  \/ basic_ack \/ send_to_dlq

Next ==
  \/ \E m \in Message : Take(m) \/ DropDuplicate(m)
  \/ HandlerStep
  \/ Escape \/ Crash
  \/ \E i \in Invoice : mark_invoice_paid(i)

Spec == Init /\ [][Next]_vars

\* The receiver thread runs; nothing makes a fault or an administrator happen.
FairSpec == /\ Spec
            /\ WF_vars(\E m \in Message : Take(m) \/ DropDuplicate(m))
            /\ WF_vars(HandlerStep)

-----------------------------------------------------------------------------
(* Properties *)

\* Each time an invoice became paid is credited before it is cancelled, whatever the order
\* of the messages.  The documentation says it without exception; an administrator who
\* marks the invoice between get_invoice and cancel_invoice breaks it.
PaidThenCancelledIsCredited ==
  \A i \in Invoice : status[i] = "cancelled" => credits[i] >= payments[i]

\* However the administrator and the receiver interleave, and whatever fails between
\* create_credit_note and cancel_invoice, a cancelled invoice lacks no more credit notes
\* than it was marked by hand: the receiver's own bookings are all credited.
OnlyMarksGoUncredited ==
  \A i \in Invoice : status[i] = "cancelled" => credits[i] + marks[i] >= payments[i]

\* Nothing is credited that was not paid: a second credit note for one payment needs a
\* fault between the first one and cancel_invoice, and each fault gives one at most.
CreditsNeedPayments ==
  \A i \in Invoice : credits[i] <= payments[i] + faults

\* What the CRM can conclude about the invoice of a message.
Told(kind, i) == \E m \in Message : InvoiceOf[m] = i /\ <<kind, m>> \in sent

\* The CRM is refused a cancellation as done already only after it heard of the
\* cancellation, unless a fault kept that from it (publish_invoice_cancelled comes last).
RefusalIsNoNews ==
  faults = 0 => \A i \in Invoice : Told("already_cancelled", i) => Told("cancelled", i)

\* Between two messages, if nothing fails, the CRM has heard of every payment that was booked
\* with an identity_uuid, even of one that lands in the dead letter queue for want of its
\* due date, and of every cancellation.  (A payment without the UUID is booked, rejected and
\* told to nobody; a mark by hand is told to nobody either.)
ChangesAreTold ==
  faults = 0 /\ pc = "idle" =>
    /\ \A m \in booked : "identity_uuid" \notin Lacks[m] => <<"status_paid", m>> \in sent
    /\ \A i \in Invoice : status[i] = "cancelled" => Told("cancelled", i)

\* A message that left the queue without an ack or a dead letter: a fault cut its handler
\* short and its redelivery was discarded as a duplicate.
Lost(m) == m \notin inbox \cup {cur} \cup acked \cup dead

\* A cancellation of a registration's invoice takes effect, through failures and restarts,
\* unless it shows up in the dead letter queue or is lost.  (Of a consumption invoice the
\* documentation says the opposite: see ConsumptionIsKept.)
CancellationTakesEffect ==
  \A m \in Cancellation : InvoiceOf[m] \in Invoice \ ConsumptionInvoice =>
    (m \in inbox ~> status[InvoiceOf[m]] = "cancelled" \/ m \in dead \/ Lost(m))

\* The receiver makes an invoice paid only for a payment that covers the total to the cent,
\* however the float of the total is rounded.  (Without a total any payment covers it.)
OnlyCoveredIsPaid ==
  [][\A i \in Invoice : payments'[i] > payments[i] /\ marks' = marks =>
       cur \in Payment /\ InvoiceOf[cur] = i /\ (i \in Priced => Amount[cur] >= Total[i])]_vars

Covers(m) == InvoiceOf[m] # NoInvoice /\ Amount[m] > Total[InvoiceOf[m]]

\* A payment of more than the total that was acknowledged has been booked, itself and not by
\* hand, through failures, crashes and redeliveries, however the float is rounded.  (A
\* payment of exactly the total may not be: a float above it asks for more.)
AckedCoverIsBooked == \A m \in acked \cap Payment : Covers(m) => m \in booked

\* What the documentation says of the invoices of consumptions: they are never cancelled.
\* The code asks no invoice for its type.
ConsumptionIsKept == \A i \in ConsumptionInvoice : status[i] # "cancelled"
=============================================================================
