# Facturatie: specification and proofs

TLA+ models of the Facturatie integration service: a Python process that takes XML messages
from RabbitMQ (`facturatie.incoming`), keeps consumptions in MySQL, makes invoices in
FossBilling and tells the CRM, Frontend, Mailing and Monitoring what happened. The models
say what the service does when messages are repeated, calls fail, connections and processes
die, and an administrator changes the books from outside. TLC checks them on small
instances; TLAPS proves every safety property of every module for every instance (a few theorems
have a premise, which section 4 gives), and that each of the two detailed modules implements its
abstract one.

## 1. Inventory

| Component | Code | State | Operations | Talks to |
|---|---|---|---|---|
| Message intake | `rabbitmq_receiver.py` 44-53, 132-213, 842-875; `main.py`; `rabbitmq_utils.py` | `seen_message_ids` (in memory), the connection, the delivery in hand | parse, `is_duplicate`, XSD, mark, dispatch, `basic_ack`/`send_to_dlq`+`basic_nack`, reconnect | RabbitMQ, every handler |
| Dead letter consumer | `dlq_consumer.py` | its connection | `process_dlq_message` | `errors.facturatie`, `main` |
| Consumption billing | handlers `consumption_order`, `invoice_request`, `event_ended`; `consumption_store.py`; `fossbilling_api.py` 187-207, 350-442, 548-568 | tables `pending_consumptions`, `company_accounts`, `invoice_registry`; FossBilling's clients and invoices | store, list, find the client, make the invoice, register, pay, clear, announce | MySQL, FossBilling, CRM, Mailing |
| Payments and cancellations | handlers `payment_registered`, `invoice_cancelled`; `fossbilling_api.py` 247-299, 454-495 | FossBilling's invoice status and credit notes | read status, pay, confirm, credit, cancel, announce | FossBilling, CRM |
| MCP server | `mcp_server.py` | none of its own | `mark_invoice_paid`, the reports; the rest hands on one read | FossBilling, MySQL |
| Registration | handler `new_registration`; `fossbilling_api.py` 20-94, 126-244, 548-568 | FossBilling client and invoice, the admin web session | VAT check, identity RPC, create and pay with retries, PDF, mailing, status | Identity service, FossBilling, Mailing, CRM |
| Identity client | `identity_client.py` | a reply queue and a correlation id for each request | ask, wait at most 5 s | Identity service |
| Profile update | handler `profile_update`; `fossbilling_api.py` 166-184, 506-545 | FossBilling client | search, update | FossBilling |
| Outgoing messages, schemas | `rabbitmq_sender.py`, `xsd/`, `xml_validator.py` | none | build, validate, publish | CRM, Frontend, Mailing, Monitoring |

What makes this hard:

* **Duplicate detection against redelivery.** An id is marked before the work is done, and
  forgotten in a restart. Delivery is at least once, processing is neither at least nor at
  most once.
* **Two stores without a transaction.** MySQL and FossBilling are written one after the
  other; a call may fail after it took effect (a lost reply), and then is retried.
* **Exceptions that escape.** Some calls stand outside every `try`; they end the connection,
  and the message comes back.
* **Several actors on one status.** The receiver reads an invoice's status and writes it some
  calls later; the MCP server is another process, and its reports are several reads.
* **Answers from elsewhere.** The identity service may answer late, badly or never; a session
  of FossBilling's web interface ends without notice; a search finds more than it was asked for.
* **Amounts.** FossBilling's totals are floats, a payment is a decimal string.
* **Threads that die.** The receiver reconnects for ever, the dead letter consumer never;
  `main` ends the process when either is dead.

What makes each component correct: the intake loses nothing silently and processes a message
once; billing charges every consumption, once, to one account; a cancellation credits what
was paid and the CRM learns of it, and only a payment that covers the total makes an invoice
paid; a registration ends with one invoice, of the right client, mailed under the right UUID;
a report does not count an invoice twice; nothing stays unserved. `PROJECT.json` lists each hazard
with its line and the properties that watch it.

## 2. Modules

| Module | Models |
|---|---|
| `Delivery` | abstract: what the receiver promises to a handler; `Receiver` implements it |
| `Receiver` | the intake, the dead letter consumer, `main`, RabbitMQ around them |
| `Consumption` | the three handlers of consumptions, call by call |
| `BillingLedger` | abstract: what billing promises to the books; `Consumption` implements it |
| `InvoiceLifecycle` | payments, cancellations and the MCP tool on an invoice's status |
| `Registration` | `new_registration` and `profile_update`, with the identity service |
| `Reports` | `get_revenue_summary` of the MCP server |
| `ReceiverProofs` | the inductive invariant of `Receiver` and its theorems |
| `FaultProofs` | what faults can cost the receiver: lost messages, restarts, repeated work |
| `ReceiverRefinementProofs` | that `Receiver` implements `Delivery` |
| `ConsumptionProofs` | the inductive invariant of `Consumption` and its theorems |
| `LedgerProofs` | how often `Consumption` stores and bills, and that it implements `BillingLedger` |
| `InvoiceLifecycleProofs`, `RegistrationProofs`, `ReportsProofs` | the same for these modules |
| `MC...` | the instances TLC checks |

`Receiver` knows a handler only by the three ways it ends: it acknowledges (`HandlerDone`),
it dead-letters (`HandlerRejects`), an exception escapes (`HandlerRaises`). `Consumption`,
`InvoiceLifecycle` and `Registration` open up the handlers and see of the receiver only what it
does to them. The two views meet in `Delivery`: one message at a time; a message runs once in a
life of the process, comes back marked if its handler did not end, and is discarded if it is
still marked then. The run `ReceiverLive` shows that `Receiver` implements it
(`ImplementsDelivery`), with connections, queues, threads and the screening hidden:
`inbox` stands for what RabbitMQ has or another team has yet to send, `taken` for
`seen_message_ids`, `cur` for the message whose handler runs. The handler modules `INSTANCE`
it, so their `Take`, `DropDuplicate`, `basic_ack`, `send_to_dlq`, `Escape` and `Crash` are its
actions with the handler's own effects conjoined.

**State and code.** `Receiver!pc` is the position in `process_message`; `link` is the
connection, which may be dead without the thread knowing; `inflight` the message of the
callback; `orphans` what a dead connection held until RabbitMQ requeues it. In the handler
modules `pc` names the next write or read of a store; each is a step with the outcomes success,
failure without effect, and effect with a failure reported. `job` holds the local
variables of a handler. `Registration!asked` and `answers` are the requests to the identity
service and its replies, which outlive the handler that asked; an identity stands as the address
it belongs to, so a wrong UUID is visible. `Finds` says which addresses FossBilling's search
for an address matches, for the code compares nothing; `Consumption` has it as well. The lookup
of a payment's request, `get_invoice_id_by_correlation_id`, is the set of the rows that
`LIMIT 1` may return. `Reports!summary` holds what each read of `get_revenue_summary` found: a
count, of all or of the page where FossBilling gives no total, and the invoices of the page.
Identifiers are the code's where TLA+ allows it (`save_items`, `_create_invoice`,
`clear_by_ids`, `get_invoice`, ...).

**Abstracted.** Contents of messages beyond ids, companies, addresses and the few flags the
code branches on; grouping of item lines (quantities are kept, so a line is its rows);
`company_name` and `email` columns; names and postal addresses; logs; retry delays. Amounts
matter in `InvoiceLifecycle` only: cents as integers, and the float that carries a total as the
sign of its error, which is all that its comparison with a decimal can tell.
XML is garbled (a `ParseError`), refused (`defusedxml` raises something else), invalid or valid;
of what the schema of a payment leaves optional, a payment may lack its transaction, its
`identity_uuid` or its due date (`Lacks`). Every message has an id: the schemas require
`header/message_id`.

**Mutations.** A definition marked `Mutation` is a plausible defect of the definition that
follows it. Nothing uses it; put in place of the original it makes the property named in
`PROJECT.json` fail, which shows that the property depends on that piece of code.

## 3. Runs

Run `tlc -config X.cfg M`. All runs allow deadlock: the messages are finite, and a service
with an empty queue stops. The liveness properties tell waiting for nothing from being stuck.

| Config | Instance | Shows |
|---|---|---|
| `ReceiverResend` | a message and its resend or correction under one id, another, a garbled one, a refused one; 2 faults | `AtMostOncePerLife`, `SettledIsAccounted`, `LossesNeedFaults`, `NackedIsDeadLettered`, `DuplicateOfTaken` |
| `ReceiverLive` | an invalid message and its corrected resend; 2 faults; fair | `EveryMessageSettles`, `EveryEntryAlerted`, `ImplementsDelivery` |
| `ReceiverLoss` | the same; 1 fault | **violates** `NothingLost` |
| `ReceiverRefused` | a valid, a garbled and a refused message; no fault; fair | **violates** `UnparseableIsDeadLettered` |
| `ConsumptionFaults` | 2 companies, a paid request, an event; 2 attempts, 2 faults; fair | `NoRowLost`, `OverbillingNeedsFaults`, `EventAckMeansBilled`, `RequestAckMeansBilled`, `HandlersEnd`, `PendingGetsBilled` |
| `ConsumptionShared` | 2 orders and 3 requests of one company, one without VAT number, an event; 2 faults | `OneAccountPerCompany`, `OverstoringNeedsFaults`, `ToldResolves`, `ImplementsLedger` |
| `ConsumptionMatched` | 2 orders of a company, one request; no fault | **violates** `OnlyMatchedRows` |
| `Lifecycle` | payments a cent below, on and above the total, its float on either side; one without UUID and due date, one without transaction; 3 cancellations, one of an unknown invoice; an administrator; 1 fault; fair | `OnlyMarksGoUncredited`, `CreditsNeedPayments`, `RefusalIsNoNews`, `ChangesAreTold`, `AckedCoverIsBooked`, `OnlyCoveredIsPaid`, `CancellationTakesEffect` |
| `LifecycleRace` | an administrator; no fault | **violates** `PaidThenCancelledIsCredited` |
| `LifecycleConsumption` | a consumption invoice, a cancellation; no fault | **violates** `ConsumptionIsKept` |
| `Registration` | a paid registration, one of another address, one with a bad VAT number, an update; 2 attempts, 2 faults; fair | `OverinvoicingNeedsFaults`, `AckMeansMailed`, `MailsCarryOwnUuid`, `OneClientPerAddress`, `InvoiceWithItsOwner`, `BadEndsNeedFaults`, `EveryRegistrationEnds` |
| `Reports` | 3 invoices, pages of 2, with or without a total, a failing read | `PaidIsNotOutstanding`, `SteadyInvoicesAreCounted` |

`TypeOK` of each module is checked with one of its runs.

**Bounds.** `MaxFaults` counts failed calls, lost connections, crashes and deleted clients
together. Two are enough for every pair of mishaps: a fault and a second one during recovery,
or all attempts of a retry (`MAX_RETRIES` is 2 where they must run out; the code has 3).
`Lifecycle` has one, beside an administrator who marks the invoice once, and seven messages: a
handler there retries nothing, and the theorems hold for any number of faults and marks. Three
messages give the cases the intake distinguishes: an id alone, an id twice, and something in
between; prefetch is one, so more only wait. `Traffic` (in `Receiver` and `Registration`) lists
the sets of messages that may come in one behaviour, so that one run has each combination that
matters without all of them at once. Two companies make `event_ended` loop, two orders
of one company make requests compete. The properties that count something (`1 + faults`) are
stated against the number of faults and not against the bound. The number of lives is bounded
because a process ends only by a fault, or after one. A total is three cents: the payments lie
one cent below it, on it, and one above, and the float of the total on either side. `PerPage` is
2 where the code has 200, and `MaxInvoices` 3, so that a page is exceeded, reached and missed.

**Violations.** Each is a sentence of the documentation that the code does not keep, quoted in
`PROJECT.json`: an escaped exception loses its message (mark before work); what `defusedxml`
refuses escapes before the mark and blocks the queue for ever; a request bills the other orders
of its company; a payment between the read and the write of a cancellation is cancelled without
a credit; a consumption invoice is cancelled like any other. For three of them a theorem of
section 4 says how far the sentence does hold: until the first fault (`NothingLostBeforeFaults`),
with one order per company (`MatchedIfOneOrderPerCompany`), but for what was marked by hand
(`BookingsAreCredited`). The passing properties step round the other two and say so:
`EveryMessageSettles` lets a message wait behind a refused one (`Blocked`), and
`CancellationTakesEffect` speaks of registrations' invoices.

Met while reading and not run:

* a partial payment is told as `paid` (`rabbitmq_receiver.py:662`) although
  `docs/invoice_status_flow.md:32` has it for full payments only; of a payment in full `paid` is
  told only once it is booked (`FullPaymentsAreBookedWhenTold`);
* a payment without `identity_uuid`, which its schema leaves optional, is booked, fails the
  schemas of `invoice_status` and of the confirmation, lands in the dead letter queue and is told
  to nobody (`rabbitmq_receiver.py:626`);
* when a request ran twice after a crash, `invoice_registry` has two invoices for it and a payment
  that quotes it is booked on either (`consumption_store.py:248`);
* `get_overdue_invoices` filters the newest 50 unpaid invoices (`limit`, 200 at most) by due date:
  older overdue ones behind them are missing (`mcp_server.py:295`);
* `invoice_status` `cancelled` is never sent although
  `docs/invoice_status_flow.md:33` lists it; `heartbeat` has no schema and is rejected although
  `docs/architecture.md:129` has it acknowledged;
* a payment of exactly the total is treated as partial when the total's float lies above it
  (`Decimal(2.2) > Decimal("2.20")`, `rabbitmq_receiver.py:639-643`); partial payments are not
  added up;
* a `profile_update` for an unknown address is dead-lettered although
  `docs/profile_update_flow.md:27` has it acknowledged, and a known client loses its postal
  address (`fossbilling_api.py:534`);
* a registration's payment is in the retry loop of its invoice (`fossbilling_api.py:229`)
  although `docs/registration_invoice_flow.md:134` has only client and invoice there;
* `publish_invoice_link` never passes its schema, which wants a PDF, and the failure is
  swallowed;
* `get_facturatie_overview` unpacks three results into four names (`mcp_server.py:674`) and
  `_get_client_by_email` of `mcp_server.py` returns nothing, so these two tools always fail;
  the amounts of `get_revenue_summary` are of at most 200 invoices per status although its
  docstring says all.

**Fairness.** `Receiver`: the two threads and `main`'s loop run; RabbitMQ comes back and
requeues. Nothing makes anybody start the process again: `docker-compose.yml` has no service for
`main` (`restart: always` is on `facturatie-dlq`, another container), so the two liveness
properties of the receiver have the premise that it is running again and again (`StartedAgain`). The handler modules: the
receiver thread takes messages and goes on; in `Registration` that includes the end of the wait
for the identity service (`inactivity_timeout=5`), which itself need never answer. Weak fairness is enough: each step stays possible
until taken, and a fault, which may always undo it, is bounded. No fairness is assumed for
faults, for other teams, for the administrator, or for the expiry of a session. `Reports` has
no fairness and no liveness property: a report is a sequence of reads that a client asks for.

## 4. What is proved

`ReceiverProofs`, for all sets of messages and ids, any shapes, any `MaxFaults`, from the
assumptions `MessageAssumption` and `FaultAssumption` of `Receiver`:

| Theorem | Property |
|---|---|
| `TypeCorrect` | `TypeOK` |
| `BeginsOnce` | `AtMostOncePerLife` |
| `NackIsSafe` | `NackedIsDeadLettered` |
| `DuplicatesAreReal` | `DuplicateOfTaken` |
| `NothingDisappears` | `SettledIsAccounted` |

None is inductive by itself. `Inv` adds what the code relies on without saying it: a message is
in hand exactly while the callback runs (`InHand`); a message about to be settled *on a live
connection* has been dealt with (`AckReady`, `NackReady`), which holds because a connection that
died never comes back in the same callback; a marked id stands for an accepted message
(`MarkedWasTaken`); an unmarked id has not begun in this life (`UnmarkedIsFresh`); and each
message is with RabbitMQ or its fate is known (`Somewhere`). Five lemmas show that each group
survives each action, three more what putting and taking does to a queue. `Inv` was checked
with TLC before it was proved.

`FaultProofs`, from the same assumptions and `ReceiverProofs!Inv`:

| Theorem | Property |
|---|---|
| `LossesArePaidFor` | `LossesNeedFaults` |
| `ExposureIsPaidFor` | no more ids can still be lost than there were faults |
| `NothingLostBeforeFaults` | `NothingLost`, as long as `faults = 0` |
| `RestartsArePaidFor` | lives, and the next one if it can no longer be avoided, against faults |
| `BeginsNeedFaults` | a handler begins for an id `1 + faults` times at most |
| `DeadLettersAreKept` | a settled message was handled or discarded, or its dead letter waits or was reported |

A count of losses is not inductive: a message is lost by its fault, and the loss shows when the
redelivery is discarded, much later. The proof counts at the fault. An id is `Exposed` when it is
lost, or marked with its handler over or cut off and no account of it (`AtRisk`), or when the
connection died under `process_message` (`CutShort`). Every step that exposes an id is a fault,
and exposes one (`ExposureStep`); a restart, which forgets `seen_message_ids`, only takes away.
So the exposed ids, and with them the lost ones, are as many as the faults at most. Restarts are
counted early as well: `Ending` holds from the moment a thread has died, or the dead letter
consumer must, so that the fault is charged once and not again when `main` ends the process.

`InvoiceLifecycleProofs`, for all invoices, messages, amounts and `MaxFaults`, from
`KindAssumption`, `ContentAssumption` and `BoundAssumption` of `InvoiceLifecycle`:

| Theorem | Property |
|---|---|
| `TypeCorrect` | `TypeOK` |
| `PaidIsCovered` | `OnlyCoveredIsPaid` (an action property) |
| `CoverIsBooked` | `AckedCoverIsBooked` |
| `FullPaymentsAreBookedWhenTold` | `paid` is told of a payment in full only once it is booked |
| `CreditsArePaidFor` | `CreditsNeedPayments` |
| `RefusalsAreNoNews` | `RefusalIsNoNews` |
| `BookingsAreCredited` | `OnlyMarksGoUncredited` |
| `CancelledIsCredited` | `PaidThenCancelledIsCredited`, if `MaxMarks = 0` |
| `ChangesAreHeard` | `ChangesAreTold` |
| `AcknowledgedAreAnswered` | what is acknowledged has been answered, and `not_found` only when true |
| `HandlersDescend` | a handler takes five steps at most |

A handler reads a status and acts on it some calls later; `Inv` says what is then still true. A
payment about to be booked covers the total (`Covered`): contents do not change. An invoice about
to be credited is paid (`StillPaid`): an administrator may make an invoice paid but never
takes that back. Each property adds one part: `Booked` (the payment has been booked when its
handler has gone past it), `Budget` (credits against payments and faults, with the one credit
being made), `CancellationsHeard` and `PaymentsHeard` (a change the CRM has not heard of is in
the hand of its handler), and `Accounts` (payments less credits, by status). A payment entered
by hand between `get_invoice` and `cancel_invoice` ends cancelled and not credited, which
`LifecycleRace` shows. The tool may be called again after each cancellation, so `marks` counts
how often it made an invoice paid, and `Accounts` allows for as many missing credits. Without
an administrator there are none: hence the premise `MaxMarks = 0` of `CancelledIsCredited`; it is
needed, and says whom the guarantee depends on. `ChangesAreHeard` needs no such premise, for it
speaks of what the receiver did. `ToldSoFar` has a payment in full booked before its status is told;
`Answers` has the answer sent before the handler comes to `basic_ack`, and kept.

`ReportsProofs`, for any `MaxInvoices`, `MaxFaults` and `PerPage`, from `BoundAssumption`:

| Theorem | Property |
|---|---|
| `TypeCorrect` | `TypeOK` |
| `CountedOnce` | `PaidIsNotOutstanding` |
| `SteadyAreCounted` | `SteadyInvoicesAreCounted` |

`Turn` orders the reads. What was read as paid is never unpaid again (`PaidStaysPaid`), so the
unpaid list, read next, cannot have it; what was read of an invoice that has not moved is still
true of it (`ReadIsTrue`). `PageFacts` derives from the theorems on finite sets and well-founded
orders that a page which leaves an invoice out is full: the newest one left out has a page of
newer ones before it (`NewestExists`). So even a count that is only the page's length shows it.

`ReceiverRefinementProofs`, for all sets of messages and ids, from the assumptions of `Receiver`:

| Theorem | Property |
|---|---|
| `CopiesAreSingle` | `OneCopy`: RabbitMQ never has a message twice |
| `ReceiverImplementsDelivery` | `ImplementsDelivery` |

The handler modules take `Delivery` for granted, so this theorem is what ties them to the
receiver. It needs that a message is in one place at RabbitMQ (`OneCopy`): what the receiver has
in hand waits elsewhere exactly if the connection it came over is dead. Then a settlement over a
live connection ends the message, and one over a dead connection gives it back. `Reasons` keeps
why a message is dead-lettered or discarded while the receiver does so. Most steps are stutters
(`QuietStep`, `UnnoticedStep`).

`ConsumptionProofs`, for all messages, companies, numbers of rows, attempts and faults, from
`KindAssumption`, `ContentAssumption` and `BoundAssumption` of `Consumption`:

| Theorem | Property |
|---|---|
| `TypeCorrect` | `TypeOK` |
| `RowsAreKept` | `NoRowLost` |
| `RequestsAreBilled` | `RequestAckMeansBilled` |
| `EventsAreBilled` | `EventAckMeansBilled` |
| `AccountsAreSingle` | `OneAccountPerCompany` |
| `InvoicesKeepToOneCompany` | an invoice has rows of its own company only, a request's of its order's company |
| `MatchedIfOneOrderPerCompany` | `OnlyMatchedRows`, if no two orders are of one company |
| `HandlersDescend` | each step of a handler leaves fewer to take |

The handlers keep what they read in local variables; the invariant says what these still mean
when the next call comes. The invoice in hand carries the row ids about to be deleted (`Carried`),
so `clear_by_ids` deletes nothing unbilled. The registry and the payment come before the deletion
and the news (`Registered`), and the registry has each invoice under its own request (`RegistryOwn`). What `event_ended` found and has not yet billed is of a company still
to do, or an error is noted (`Remaining`). An invoice is made with the client of the mapping
(`Mapped`), hence the stronger form of `AccountsAreSingle`: every invoice whose client exists is with
its company's mapping (`InvoicesMapped`). The rows in hand are of the company in hand, and
that of a request is its order's (`Own`, `InvoicesOwn`); one order per company then makes them the
order's. That premise is needed: `ConsumptionMatched` shows what happens without it.

`LedgerProofs`, from the same assumptions:

| Theorem | Property |
|---|---|
| `OverbillingIsPaidFor` | `OverbillingNeedsFaults` |
| `OverstoringIsPaidFor` | `OverstoringNeedsFaults` |
| `ToldAreResolved` | `ToldResolves` |
| `ConsumptionImplementsLedger` | `ImplementsLedger` |

The argument is a budget: a row that may still be billed is on as many invoices as there were
faults, at most (`Budgeted`), and an order that may still be stored has been stored as often, at
most (`Stored`); only between its invoice and its deletion may a pending row be one over. A
request that may still register an invoice has as many candidates as there were faults
(`Resolving`), so a payment that quotes it resolves without doubt as long as nothing failed. Making
an invoice is `Bill` of the ledger, storing an order is `Accrue`, and all else bills nothing.

`RegistrationProofs`, for all messages, addresses, searches (`Finds`), attempts and faults, from
`KindAssumption`, `ContentAssumption` and `BoundAssumption` of `Registration`:

| Theorem | Property |
|---|---|
| `TypeCorrect` | `TypeOK` |
| `UuidsAreOwn` | `MailsCarryOwnUuid` |
| `AcknowledgedAreMailed` | `AckMeansMailed` |
| `ClientsAreSingle` | `OneClientPerAddress` |
| `InvoicesKeepOwners` | `InvoiceWithItsOwner` |
| `OverinvoicingIsPaidFor` | `OverinvoicingNeedsFaults` |
| `BadEndsArePaidFor` | `BadEndsNeedFaults` |
| `AcknowledgedStaysTrue` | an acknowledged registration has for ever its mail, UUID, invoice and payment |
| `HandlersDescend` | a handler takes `3 * MAX_RETRIES + 8` steps at most |

`OwnUuid` follows the UUID from the request to the mail: the handler waits for its own request,
and an answer has the UUID of the address asked for, if any. `Mailed` says what the attempt in
hand has done. `Found` says what the search established of the client in hand; with it no client
comes to or leaves an address that the search does not confuse (`ClientsStep`), not even by
`update_client`, which writes the address of a client it only searched for. `Due` is the budget
again. `BadEndsNeedFaults` is counted at the fault, like the losses of the receiver: a registration
is `Charged` when it has ended badly, came back marked, or is in hand and can no longer end well
(`Doomed`: an answer without a UUID dooms it long before the mailing raises); only a fault charges
one, and only the one in hand. A registration that nobody answered in time (`slow`) is not
charged, for silence is no fault here. `AckMeansMailed` speaks of mails and invoices while other
attempts and registrations add to both; `MailsAreTrue` and `AckedAreMailed` make it last: an
invoice that was mailed is never touched again.

**Variants.** Liveness is beyond TLAPS, but what it rests on is not. In each handler module
`StepsLeft` is the longest way to the end of the handler: the rest of the attempt, three steps
for each attempt left and, for an event, a whole billing for each company left. `HandlersDescend`
says that each step of the handler makes it smaller, through every retry and failure, and that
while the handler has its message no step of anyone else, so not the administrator, the identity
service nor other messages, changes it. With the fairness of section 3 and a step enabled, which
the runs check (`HandlersEnd`, `CancellationTakesEffect`, `EveryRegistrationEnds`), no handler
runs for ever.

The invariants that carry a proof over several calls were checked with TLC before they were proved.

Only model-checked, because TLAPS reaches neither liveness nor `ENABLED`: `EveryMessageSettles`,
`EveryEntryAlerted`, `HandlersEnd`, `PendingGetsBilled`, `CancellationTakesEffect` and
`EveryRegistrationEnds`. Every invariant and action property of a passing run is a theorem.

## 5. Not modelled

XML builders and schemas are formatting: a message is garbled, refused, invalid or valid, a notice
was sent or not, or cannot be for want of a field. The separate `facturatie-dlq` container takes entries of `errors.facturatie` as the
thread does and restarts by itself; the model keeps the harder case, the thread alone. The
credit note of an invoice is a count. The other tools of the MCP server hand on the answer to
one read of FossBilling or MySQL and keep nothing. `get_connection_with_retry` is one step that
waits for the broker: its delays, and the connection `send_message` opens when it is given no
channel, are left out. Scripts, tests and deployment hold no logic of the service.

## 6. Plan

1. A bound on the steps of `process_message` and of the dead letter consumer, as for the
   handlers (`HandlersDescend`), and what an acknowledged `profile_update` has written.
2. A composition of `Receiver` with one handler module in place of `HandlerDone`,
   `HandlerRejects` and `HandlerRaises`.
3. `get_connection_with_retry` with its attempts, and `send_message` on its own connection.
