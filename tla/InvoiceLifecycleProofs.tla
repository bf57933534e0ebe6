----------------------- MODULE InvoiceLifecycleProofs -----------------------
(***************************************************************************)
(* Proofs about payments and cancellations, for any invoices, messages,    *)
(* amounts and number of faults.                                           *)
(*                                                                         *)
(* What a handler may do next depends on what it read some calls ago.      *)
(* Inv says what is still true of that when the call comes: a message is   *)
(* in hand with an invoice FossBilling has (InHand), a payment about to be *)
(* booked covers the total (Covered), and an invoice about to be credited  *)
(* is paid (StillPaid): nobody takes a status back from paid but the       *)
(* handler itself.                                                         *)
(***************************************************************************)
EXTENDS InvoiceLifecycle, TLAPS

PaymentSteps == {"get_payment", "pay", "status", "confirm"}
CancelSteps  == {"get", "credit", "cancel", "announce", "refuse"}

InHand == /\ pc = "idle" <=> cur = NoMessage
          /\ pc \in PaymentSteps => cur \in Payment
          /\ pc \in CancelSteps => cur \in Cancellation
          /\ pc \in {"pay", "status", "confirm", "credit", "cancel", "announce"} =>
               InvoiceOf[cur] \in Invoice

Covered == pc = "pay" /\ InvoiceOf[cur] \in Priced => Amount[cur] >= Total[InvoiceOf[cur]]

StillPaid == pc = "credit" => status[InvoiceOf[cur]] = "paid"

Inv == TypeOK /\ InHand /\ Covered /\ StillPaid

-----------------------------------------------------------------------------
\* Amounts are whole cents, so that half a cent of float does not make less than the total
\* enough, nor more than the total too little.
LEMMA InFullCovers ==
  ASSUME NEW m \in Payment, NEW i \in Priced, NEW total \in Decimals(i)
  PROVE  /\ InFull(m, total) => Amount[m] >= Total[i]
         /\ Amount[m] > Total[i] => InFull(m, total)
<1>1. PICK e \in -1..1 : total = 2 * Total[i] + e
  BY ContentAssumption DEF Decimals
<1>2. Amount[m] \in Nat /\ Total[i] \in Nat
  BY ContentAssumption
<1>3. QED
  BY <1>1, <1>2 DEF InFull

\* Whatever is paid covers an invoice without a total.
LEMMA InFullWithout ==
  ASSUME NEW m \in Payment, NEW i \in Invoice \ Priced, NEW total \in Decimals(i)
  PROVE  InFull(m, total)
BY ContentAssumption DEF Decimals, InFull

\* Every step keeps the types and what the handler knows.
LEMMA InvStep ==
  ASSUME Inv, [Next]_vars
  PROVE  Inv'
<1> USE KindAssumption, ContentAssumption, BoundAssumption
    DEF Inv, InHand, Covered, StillPaid, Message, PaymentSteps, CancelSteps,
        delivery, books, outcome, Fault, Continue, Fail, Raise
<1>1. ASSUME NEW m \in Message, Take(m)
      PROVE  Inv'
  BY <1>1 DEF Take, D!Take, TypeOK, Steps, Self
<1>2. ASSUME NEW m \in Message, DropDuplicate(m)
      PROVE  Inv'
  BY <1>2 DEF DropDuplicate, D!Discard, TypeOK
<1>3. CASE get_payment
  BY <1>3, InFullCovers DEF get_payment, TypeOK, Steps
<1>4. CASE pay_invoice
  BY <1>4 DEF pay_invoice, Book, BecomesPaid, TypeOK, Steps, Status
<1>5. CASE publish_invoice_status
  BY <1>5 DEF publish_invoice_status, TypeOK, Steps, Notice
<1>6. CASE confirm_payment
  BY <1>6 DEF confirm_payment, TypeOK, Steps, Notice
<1>7. CASE get_invoice
  BY <1>7 DEF get_invoice, TypeOK, Steps, Status
<1>8. CASE publish_cancellation_failed
  BY <1>8 DEF publish_cancellation_failed, TypeOK, Steps, Notice
<1>9. CASE create_credit_note
  BY <1>9 DEF create_credit_note, D!Return, TypeOK, Steps
<1>10. CASE cancel_invoice
  BY <1>10 DEF cancel_invoice, TypeOK, Steps, Status
<1>11. CASE publish_invoice_cancelled
  BY <1>11 DEF publish_invoice_cancelled, TypeOK, Steps, Notice
<1>12. CASE basic_ack
  BY <1>12 DEF basic_ack, D!Settle, TypeOK, Steps
<1>13. CASE send_to_dlq
  BY <1>13 DEF send_to_dlq, D!Settle, TypeOK, Steps
<1>14. CASE Escape
  BY <1>14 DEF Escape, D!Return, TypeOK, Steps
<1>15. CASE Crash
  BY <1>15 DEF Crash, D!Restart, TypeOK, Steps
<1>16. ASSUME NEW i \in Invoice, mark_invoice_paid(i)
       PROVE  Inv'
  BY <1>16 DEF mark_invoice_paid, BecomesPaid, TypeOK, Status
<1>17. CASE UNCHANGED vars
  BY <1>17 DEF vars, TypeOK
<1>18. QED
  BY <1>1, <1>2, <1>3, <1>4, <1>5, <1>6, <1>7, <1>8, <1>9, <1>10, <1>11, <1>12, <1>13,
     <1>14, <1>15, <1>16, <1>17 DEF Next, HandlerStep

LEMMA InvHolds == Spec => []Inv
<1>1. Init => Inv
  BY BoundAssumption, ContentAssumption, KindAssumption
  DEF Init, Inv, TypeOK, InHand, Covered, StillPaid, Steps, Status,
      PaymentSteps, CancelSteps
<1>2. Inv /\ [Next]_vars => Inv'
  BY InvStep
<1>3. QED
  BY <1>1, <1>2, PTL DEF Spec

\* The variables keep their types for any messages, invoices and number of faults.
THEOREM TypeCorrect == Spec => []TypeOK
<1>1. Inv => TypeOK
  BY DEF Inv
<1>2. QED
  BY <1>1, InvHolds, PTL

\* Only pay_invoice and the administrator make an invoice paid, and pay_invoice runs only
\* for a payment that get_payment found to cover the total, however its float is rounded.
THEOREM PaidIsCovered == Spec => OnlyCoveredIsPaid
<1>1. ASSUME Inv, [Next]_vars, NEW i \in Invoice, payments'[i] > payments[i], marks' = marks
      PROVE  cur \in Payment /\ InvoiceOf[cur] = i /\ (i \in Priced => Amount[cur] >= Total[i])
  <2> USE DEF books, outcome
  <2>1. CASE pay_invoice
    BY <2>1, <1>1, ContentAssumption
    DEF pay_invoice, Book, BecomesPaid, Inv, TypeOK, InHand, PaymentSteps, Covered
  <2>2. ASSUME NEW j \in Invoice, mark_invoice_paid(j)
        PROVE  FALSE
    BY <2>2, <1>1 DEF mark_invoice_paid, BecomesPaid, Inv, TypeOK
  <2>3. ASSUME payments' = payments
        PROVE  FALSE
    BY <2>3, <1>1 DEF Inv, TypeOK
  <2>4. QED
    BY <2>1, <2>2, <2>3, <1>1
    DEF Next, HandlerStep, Take, DropDuplicate, get_payment, publish_invoice_status,
        confirm_payment, get_invoice, publish_cancellation_failed, create_credit_note,
        cancel_invoice, publish_invoice_cancelled, basic_ack, send_to_dlq, Escape, Crash, vars
<1>2. Inv /\ [Next]_vars =>
        [\A i \in Invoice : payments'[i] > payments[i] /\ marks' = marks =>
           cur \in Payment /\ InvoiceOf[cur] = i /\ (i \in Priced => Amount[cur] >= Total[i])]_vars
  BY <1>1
<1>3. QED
  BY <1>2, InvHolds, PTL DEF Spec, OnlyCoveredIsPaid

-----------------------------------------------------------------------------
(* A payment above the total is booked before it is acknowledged *)

\* Only pay_invoice leads a payment that covers the total past get_payment.
Booked == (cur \in Payment /\ pc \in {"status", "confirm", "ack"} /\ Covers(cur)) =>
            cur \in booked

LEMMA CoverIsInFull ==
  ASSUME NEW m \in Payment, Covers(m), NEW total \in Decimals(InvoiceOf[m])
  PROVE  InFull(m, total)
<1>1. InvoiceOf[m] \in Invoice
  BY ContentAssumption DEF Covers, Message
<1>2. QED
  BY <1>1, InFullCovers, InFullWithout DEF Covers

LEMMA BookedStep ==
  ASSUME Inv, Booked, AckedCoverIsBooked, [Next]_vars
  PROVE  Booked' /\ AckedCoverIsBooked'
<1> USE KindAssumption, ContentAssumption
    DEF Inv, TypeOK, InHand, Message, PaymentSteps, CancelSteps, Booked, Covers,
        AckedCoverIsBooked, delivery, books, outcome, Continue, Fail, Raise
<1>1. ASSUME NEW m \in Message, Take(m)
      PROVE  (Booked /\ AckedCoverIsBooked)'
  BY <1>1 DEF Take, D!Take
<1>2. ASSUME NEW m \in Message, DropDuplicate(m)
      PROVE  (Booked /\ AckedCoverIsBooked)'
  BY <1>2 DEF DropDuplicate, D!Discard
<1>3. CASE get_payment
  BY <1>3, CoverIsInFull DEF get_payment
<1>4. CASE pay_invoice
  BY <1>4 DEF pay_invoice, Book, BecomesPaid
<1>5. CASE publish_invoice_status
  BY <1>5 DEF publish_invoice_status
<1>6. CASE confirm_payment
  BY <1>6 DEF confirm_payment
<1>7. CASE get_invoice
  BY <1>7 DEF get_invoice
<1>8. CASE publish_cancellation_failed
  BY <1>8 DEF publish_cancellation_failed
<1>9. CASE create_credit_note
  BY <1>9 DEF create_credit_note, D!Return
<1>10. CASE cancel_invoice
  BY <1>10 DEF cancel_invoice
<1>11. CASE publish_invoice_cancelled
  BY <1>11 DEF publish_invoice_cancelled
<1>12. CASE basic_ack
  BY <1>12 DEF basic_ack, D!Settle
<1>13. CASE send_to_dlq
  BY <1>13 DEF send_to_dlq, D!Settle
<1>14. CASE Escape
  BY <1>14 DEF Escape, D!Return
<1>15. CASE Crash
  BY <1>15 DEF Crash, D!Restart
<1>16. ASSUME NEW i \in Invoice, mark_invoice_paid(i)
       PROVE  (Booked /\ AckedCoverIsBooked)'
  BY <1>16 DEF mark_invoice_paid, BecomesPaid
<1>17. CASE UNCHANGED vars
  BY <1>17 DEF vars
<1>18. QED
  BY <1>1, <1>2, <1>3, <1>4, <1>5, <1>6, <1>7, <1>8, <1>9, <1>10, <1>11, <1>12, <1>13,
     <1>14, <1>15, <1>16, <1>17 DEF Next, HandlerStep

\* An acknowledged payment of more than the total has been booked, itself and not by hand.
THEOREM CoverIsBooked == Spec => []AckedCoverIsBooked
<1>1. Init => Booked /\ AckedCoverIsBooked
  BY DEF Init, Booked, AckedCoverIsBooked
<1>2. Inv /\ (Booked /\ AckedCoverIsBooked) /\ [Next]_vars => (Booked /\ AckedCoverIsBooked)'
  BY BookedStep
<1>3. QED
  BY <1>1, <1>2, InvHolds, PTL DEF Spec

-----------------------------------------------------------------------------
(* What invoice_status says of a payment of more than the total *)

ToldIsBooked ==
  \A m \in Payment : <<"status_paid", m>> \in sent /\ Covers(m) => m \in booked

LEMMA ToldStep ==
  ASSUME Inv, Booked, ToldIsBooked, [Next]_vars
  PROVE  ToldIsBooked'
<1> USE KindAssumption, ContentAssumption
    DEF Inv, TypeOK, InHand, PaymentSteps, CancelSteps, Booked, ToldIsBooked, delivery, books,
        outcome, Continue, Fail, Raise
<1>1. ASSUME NEW m \in Message, Take(m)
      PROVE  ToldIsBooked'
  BY <1>1 DEF Take, D!Take
<1>2. ASSUME NEW m \in Message, DropDuplicate(m)
      PROVE  ToldIsBooked'
  BY <1>2 DEF DropDuplicate, D!Discard
<1>3. CASE get_payment
  BY <1>3 DEF get_payment
<1>4. CASE pay_invoice
  BY <1>4 DEF pay_invoice, Book, BecomesPaid
<1>5. CASE publish_invoice_status
  BY <1>5 DEF publish_invoice_status
<1>6. CASE confirm_payment
  BY <1>6 DEF confirm_payment
<1>7. CASE get_invoice
  BY <1>7 DEF get_invoice
<1>8. CASE publish_cancellation_failed
  BY <1>8 DEF publish_cancellation_failed
<1>9. CASE create_credit_note
  BY <1>9 DEF create_credit_note, D!Return
<1>10. CASE cancel_invoice
  BY <1>10 DEF cancel_invoice
<1>11. CASE publish_invoice_cancelled
  BY <1>11 DEF publish_invoice_cancelled
<1>12. CASE basic_ack
  BY <1>12 DEF basic_ack, D!Settle
<1>13. CASE send_to_dlq
  BY <1>13 DEF send_to_dlq, D!Settle
<1>14. CASE Escape
  BY <1>14 DEF Escape, D!Return
<1>15. CASE Crash
  BY <1>15 DEF Crash, D!Restart
<1>16. ASSUME NEW i \in Invoice, mark_invoice_paid(i)
       PROVE  ToldIsBooked'
  BY <1>16 DEF mark_invoice_paid, BecomesPaid
<1>17. CASE UNCHANGED vars
  BY <1>17 DEF vars
<1>18. QED
  BY <1>1, <1>2, <1>3, <1>4, <1>5, <1>6, <1>7, <1>8, <1>9, <1>10, <1>11, <1>12, <1>13,
     <1>14, <1>15, <1>16, <1>17 DEF Next, HandlerStep

\* The CRM is told "paid" of a payment of more than the total only when it has been booked: a
\* failure of pay_invoice keeps the status back.  (Of a partial payment it is told "paid" as
\* well, and nothing is booked.)
THEOREM FullPaymentsAreBookedWhenTold == Spec => []ToldIsBooked
<1>1. Init => Booked /\ AckedCoverIsBooked /\ ToldIsBooked
  BY DEF Init, Booked, AckedCoverIsBooked, ToldIsBooked
<1>2. Inv /\ (Booked /\ AckedCoverIsBooked /\ ToldIsBooked) /\ [Next]_vars
        => (Booked /\ AckedCoverIsBooked /\ ToldIsBooked)'
  BY BookedStep, ToldStep
<1>3. QED
  BY <1>1, <1>2, InvHolds, PTL DEF Spec

-----------------------------------------------------------------------------
(* A credit note needs a payment, or a fault *)

\* The handler has made the credit note of invoice i and not yet cancelled it.
Credited(i) == pc = "cancel" /\ read = "paid" /\ InvoiceOf[cur] = i

\* Of what was paid and of what faults may repeat, a paid invoice has one credit note left,
\* unless its handler has just made it.
Budget ==
  \A i \in Invoice :
    credits[i] + (IF status[i] = "paid" /\ ~Credited(i) THEN 1 ELSE 0) <= payments[i] + faults

LEMMA BudgetStep ==
  ASSUME Inv, pc = "credit" => read = "paid", Budget, [Next]_vars
  PROVE  (pc = "credit" => read = "paid")' /\ Budget'
<1> USE KindAssumption, ContentAssumption, BoundAssumption
    DEF Inv, TypeOK, InHand, StillPaid, Message, PaymentSteps, CancelSteps, Budget, Credited,
        Status, delivery, books, outcome, Fault, Continue, Fail, Raise
<1>1. ASSUME NEW m \in Message, Take(m)
      PROVE  ((pc = "credit" => read = "paid") /\ Budget)'
  BY <1>1 DEF Take, D!Take
<1>2. ASSUME NEW m \in Message, DropDuplicate(m)
      PROVE  ((pc = "credit" => read = "paid") /\ Budget)'
  BY <1>2 DEF DropDuplicate, D!Discard
<1>3. CASE get_payment
  BY <1>3 DEF get_payment
<1>4. CASE pay_invoice
  BY <1>4 DEF pay_invoice, Book, BecomesPaid
<1>5. CASE publish_invoice_status
  BY <1>5 DEF publish_invoice_status
<1>6. CASE confirm_payment
  BY <1>6 DEF confirm_payment
<1>7. CASE get_invoice
  BY <1>7 DEF get_invoice
<1>8. CASE publish_cancellation_failed
  BY <1>8 DEF publish_cancellation_failed
<1>9. CASE create_credit_note
  BY <1>9 DEF create_credit_note, D!Return
<1>10. CASE cancel_invoice
  BY <1>10 DEF cancel_invoice
<1>11. CASE publish_invoice_cancelled
  BY <1>11 DEF publish_invoice_cancelled
<1>12. CASE basic_ack
  BY <1>12 DEF basic_ack, D!Settle
<1>13. CASE send_to_dlq
  BY <1>13 DEF send_to_dlq, D!Settle
<1>14. CASE Escape
  BY <1>14 DEF Escape, D!Return
<1>15. CASE Crash
  BY <1>15 DEF Crash, D!Restart
<1>16. ASSUME NEW i \in Invoice, mark_invoice_paid(i)
       PROVE  ((pc = "credit" => read = "paid") /\ Budget)'
  BY <1>16 DEF mark_invoice_paid, BecomesPaid
<1>17. CASE UNCHANGED vars
  BY <1>17 DEF vars
<1>18. QED
  BY <1>1, <1>2, <1>3, <1>4, <1>5, <1>6, <1>7, <1>8, <1>9, <1>10, <1>11, <1>12, <1>13,
     <1>14, <1>15, <1>16, <1>17 DEF Next, HandlerStep

\* An invoice has no more credit notes than payments and faults together.
THEOREM CreditsArePaidFor == Spec => []CreditsNeedPayments
<1>1. Init => (pc = "credit" => read = "paid") /\ Budget
  BY DEF Init, Budget
<1>2. Inv /\ ((pc = "credit" => read = "paid") /\ Budget) /\ [Next]_vars
        => ((pc = "credit" => read = "paid") /\ Budget)'
  BY BudgetStep
<1>3. Inv /\ Budget => CreditsNeedPayments
  BY BoundAssumption DEF Inv, TypeOK, Budget, CreditsNeedPayments
<1>4. QED
  BY <1>1, <1>2, <1>3, InvHolds, PTL DEF Spec

-----------------------------------------------------------------------------
(* What the CRM has heard, as long as nothing failed *)

\* The CRM has heard of every cancellation but the one about to be announced, and of the
\* one that a handler is about to refuse to repeat.
CancellationsHeard ==
  faults = 0 =>
    /\ \A i \in Invoice : status[i] = "cancelled" =>
         Told("cancelled", i) \/ (pc = "announce" /\ InvoiceOf[cur] = i)
    /\ pc = "refuse" /\ read # "none" => Told("cancelled", InvoiceOf[cur])
    /\ pc = "get" => read = "none"

\* What a notice adds to what the CRM was told.
LEMMA ToldMore ==
  ASSUME NEW kind, NEW i, NEW k, cur \in Message, sent' = sent \cup {<<k, cur>>}
  PROVE  Told(kind, i)' <=> Told(kind, i) \/ (kind = k /\ InvoiceOf[cur] = i)
<1>1. \A m \in Message : <<kind, m>> \in sent' <=> <<kind, m>> \in sent \/ (kind = k /\ m = cur)
  OBVIOUS
<1>2. QED
  BY <1>1 DEF Told

LEMMA ToldSame ==
  ASSUME sent' = sent
  PROVE  \A kind, i : Told(kind, i)' <=> Told(kind, i)
BY DEF Told

LEMMA HeardStep ==
  ASSUME Inv, CancellationsHeard, RefusalIsNoNews, [Next]_vars
  PROVE  CancellationsHeard' /\ RefusalIsNoNews'
<1> USE KindAssumption, ContentAssumption, BoundAssumption, ToldSame
    DEF Inv, TypeOK, InHand, Message, PaymentSteps, CancelSteps, CancellationsHeard,
        RefusalIsNoNews, Status, delivery, books, outcome, Fault, Continue, Fail, Raise
<1>1. ASSUME NEW m \in Message, Take(m)
      PROVE  (CancellationsHeard /\ RefusalIsNoNews)'
  BY <1>1 DEF Take, D!Take
<1>2. ASSUME NEW m \in Message, DropDuplicate(m)
      PROVE  (CancellationsHeard /\ RefusalIsNoNews)'
  BY <1>2 DEF DropDuplicate, D!Discard
<1>3. CASE get_payment
  BY <1>3 DEF get_payment
<1>4. CASE pay_invoice
  BY <1>4 DEF pay_invoice, Book, BecomesPaid
<1>5. CASE publish_invoice_status
  <2>1. ASSUME sent' = sent \cup {<<"status_paid", cur>>}, NEW i
        PROVE  /\ Told("cancelled", i)' <=> Told("cancelled", i)
               /\ Told("already_cancelled", i)' <=> Told("already_cancelled", i)
    BY <1>5, <2>1, ToldMore DEF publish_invoice_status
  <2>2. QED
    BY <1>5, <2>1 DEF publish_invoice_status
<1>6. CASE confirm_payment
  <2>1. ASSUME sent' = sent \cup {<<"confirmed", cur>>}, NEW i
        PROVE  /\ Told("cancelled", i)' <=> Told("cancelled", i)
               /\ Told("already_cancelled", i)' <=> Told("already_cancelled", i)
    BY <1>6, <2>1, ToldMore DEF confirm_payment
  <2>2. QED
    BY <1>6, <2>1 DEF confirm_payment
<1>7. CASE get_invoice
  BY <1>7 DEF get_invoice
<1>8. CASE publish_cancellation_failed
  <2>1. ASSUME NEW i
        PROVE  /\ Told("cancelled", i)' <=> Told("cancelled", i)
               /\ Told("already_cancelled", i)' <=>
                    Told("already_cancelled", i) \/ (read # "none" /\ InvoiceOf[cur] = i)
    BY <1>8, ToldMore DEF publish_cancellation_failed
  <2>2. QED
    BY <1>8, <2>1 DEF publish_cancellation_failed
<1>9. CASE create_credit_note
  BY <1>9 DEF create_credit_note, D!Return
<1>10. CASE cancel_invoice
  BY <1>10 DEF cancel_invoice
<1>11. CASE publish_invoice_cancelled
  <2>1. ASSUME sent' = sent \cup {<<"cancelled", cur>>}, NEW i
        PROVE  /\ Told("cancelled", i)' <=> Told("cancelled", i) \/ InvoiceOf[cur] = i
               /\ Told("already_cancelled", i)' <=> Told("already_cancelled", i)
    BY <1>11, <2>1, ToldMore DEF publish_invoice_cancelled
  <2>2. QED
    BY <1>11, <2>1 DEF publish_invoice_cancelled
<1>12. CASE basic_ack
  BY <1>12 DEF basic_ack, D!Settle
<1>13. CASE send_to_dlq
  BY <1>13 DEF send_to_dlq, D!Settle
<1>14. CASE Escape
  BY <1>14 DEF Escape, D!Return
<1>15. CASE Crash
  BY <1>15 DEF Crash, D!Restart
<1>16. ASSUME NEW i \in Invoice, mark_invoice_paid(i)
       PROVE  (CancellationsHeard /\ RefusalIsNoNews)'
  BY <1>16 DEF mark_invoice_paid, BecomesPaid
<1>17. CASE UNCHANGED vars
  BY <1>17 DEF vars
<1>18. QED
  BY <1>1, <1>2, <1>3, <1>4, <1>5, <1>6, <1>7, <1>8, <1>9, <1>10, <1>11, <1>12, <1>13,
     <1>14, <1>15, <1>16, <1>17 DEF Next, HandlerStep

\* The CRM is refused a cancellation as done already only after it heard of it.
THEOREM RefusalsAreNoNews == Spec => []RefusalIsNoNews
<1>1. Init => CancellationsHeard /\ RefusalIsNoNews
  BY DEF Init, CancellationsHeard, RefusalIsNoNews, Told
<1>2. Inv /\ (CancellationsHeard /\ RefusalIsNoNews) /\ [Next]_vars
        => (CancellationsHeard /\ RefusalIsNoNews)'
  BY HeardStep
<1>3. QED
  BY <1>1, <1>2, InvHolds, PTL DEF Spec

-----------------------------------------------------------------------------
(* What the administrator's marks can cost *)

\* Apart from the marks by hand, an invoice that is not paid, or about to be cancelled, has a
\* credit note for each of its payments; a paid one lacks at most one.
Accounts ==
  /\ \A i \in Invoice : /\ payments[i] <= credits[i] + marks[i] + 1
                        /\ status[i] # "paid" => payments[i] <= credits[i] + marks[i]
  /\ pc = "cancel" => payments[InvoiceOf[cur]] <= credits[InvoiceOf[cur]] + marks[InvoiceOf[cur]]

\* The CRM has heard of every payment that was booked with an identity_uuid, but the one it is
\* about to hear of.
PaymentsHeard ==
  faults = 0 => \A m \in booked : "identity_uuid" \notin Lacks[m] =>
    <<"status_paid", m>> \in sent \/ (pc = "status" /\ cur = m)

LEMMA AccountsStep ==
  ASSUME Inv, Accounts, PaymentsHeard, [Next]_vars
  PROVE  Accounts' /\ PaymentsHeard'
<1> USE KindAssumption, ContentAssumption, BoundAssumption
    DEF Inv, TypeOK, InHand, StillPaid, Message, PaymentSteps, CancelSteps, Accounts,
        PaymentsHeard, Status, delivery, books, outcome, Fault, Continue, Fail, Raise
<1>1. ASSUME NEW m \in Message, Take(m)
      PROVE  (Accounts /\ PaymentsHeard)'
  BY <1>1 DEF Take, D!Take
<1>2. ASSUME NEW m \in Message, DropDuplicate(m)
      PROVE  (Accounts /\ PaymentsHeard)'
  BY <1>2 DEF DropDuplicate, D!Discard
<1>3. CASE get_payment
  BY <1>3 DEF get_payment
<1>4. CASE pay_invoice
  BY <1>4 DEF pay_invoice, Book, BecomesPaid
<1>5. CASE publish_invoice_status
  BY <1>5 DEF publish_invoice_status
<1>6. CASE confirm_payment
  BY <1>6 DEF confirm_payment
<1>7. CASE get_invoice
  BY <1>7 DEF get_invoice
<1>8. CASE publish_cancellation_failed
  BY <1>8 DEF publish_cancellation_failed
<1>9. CASE create_credit_note
  BY <1>9 DEF create_credit_note, D!Return
<1>10. CASE cancel_invoice
  BY <1>10 DEF cancel_invoice
<1>11. CASE publish_invoice_cancelled
  BY <1>11 DEF publish_invoice_cancelled
<1>12. CASE basic_ack
  BY <1>12 DEF basic_ack, D!Settle
<1>13. CASE send_to_dlq
  BY <1>13 DEF send_to_dlq, D!Settle
<1>14. CASE Escape
  BY <1>14 DEF Escape, D!Return
<1>15. CASE Crash
  BY <1>15 DEF Crash, D!Restart
<1>16. ASSUME NEW i \in Invoice, mark_invoice_paid(i)
       PROVE  (Accounts /\ PaymentsHeard)'
  BY <1>16 DEF mark_invoice_paid, BecomesPaid
<1>17. CASE UNCHANGED vars
  BY <1>17 DEF vars
<1>18. QED
  BY <1>1, <1>2, <1>3, <1>4, <1>5, <1>6, <1>7, <1>8, <1>9, <1>10, <1>11, <1>12, <1>13,
     <1>14, <1>15, <1>16, <1>17 DEF Next, HandlerStep

LEMMA AccountsHold == Spec => []Accounts /\ []PaymentsHeard
<1>1. Init => Accounts /\ PaymentsHeard
  BY BoundAssumption DEF Init, Accounts, PaymentsHeard
<1>2. Inv /\ (Accounts /\ PaymentsHeard) /\ [Next]_vars => (Accounts /\ PaymentsHeard)'
  BY AccountsStep
<1>3. QED
  BY <1>1, <1>2, InvHolds, PTL DEF Spec

LEMMA CancellationsHold == Spec => []CancellationsHeard
<1>1. Init => CancellationsHeard /\ RefusalIsNoNews
  BY DEF Init, CancellationsHeard, RefusalIsNoNews, Told
<1>2. Inv /\ (CancellationsHeard /\ RefusalIsNoNews) /\ [Next]_vars
        => (CancellationsHeard /\ RefusalIsNoNews)'
  BY HeardStep
<1>3. QED
  BY <1>1, <1>2, InvHolds, PTL DEF Spec

\* However an administrator and the receiver interleave, a cancelled invoice lacks at most
\* the credit notes of what was entered by hand (the status that invoice_cancelled read may be
\* old when cancel_invoice runs): what the receiver booked is credited.
THEOREM BookingsAreCredited == Spec => []OnlyMarksGoUncredited
<1>1. Accounts /\ Inv => OnlyMarksGoUncredited
  BY DEF Accounts, Inv, TypeOK, OnlyMarksGoUncredited
<1>2. QED
  BY <1>1, AccountsHold, InvHolds, PTL

\* Each time an invoice became paid is credited before it is cancelled, if only the receiver
\* writes the status.  (With an administrator it is not: run LifecycleRace.)
THEOREM CancelledIsCredited == ASSUME MaxMarks = 0 PROVE Spec => []PaidThenCancelledIsCredited
<1>1. Accounts /\ Inv => PaidThenCancelledIsCredited
  BY DEF Accounts, Inv, TypeOK, PaidThenCancelledIsCredited
<1>2. QED
  BY <1>1, AccountsHold, InvHolds, PTL

\* Between two messages, as long as nothing failed, the CRM has heard of every payment that
\* was booked with an identity_uuid and of every cancellation.
THEOREM ChangesAreHeard == Spec => []ChangesAreTold
<1>1. Inv /\ CancellationsHeard /\ PaymentsHeard => ChangesAreTold
  BY DEF CancellationsHeard, PaymentsHeard, ChangesAreTold
<1>2. QED
  BY <1>1, InvHolds, AccountsHold, CancellationsHold, PTL

-----------------------------------------------------------------------------
(* What an acknowledged message has been answered *)

Answered(m) ==
  IF m \in Payment THEN <<"confirmed", m>> \in sent
  ELSE \E kind \in {"cancelled", "already_cancelled", "not_found"} : <<kind, m>> \in sent

\* "not_found" is said of a message without an invoice, the rest of one with an invoice.
TrueNotice(kind, m) == kind = "not_found" <=> InvoiceOf[m] = NoInvoice

Answers ==
  /\ pc = "ack" => Answered(cur)
  /\ \A m \in acked : Answered(m)
  /\ pc = "get" => read = "none"
  /\ pc = "refuse" => (read = "none" <=> InvoiceOf[cur] = NoInvoice)
  /\ \A m \in Cancellation, kind \in Notice : <<kind, m>> \in sent => TrueNotice(kind, m)

LEMMA AnsweredStays == ASSUME sent \subseteq sent' PROVE \A m : Answered(m) => Answered(m)'
BY DEF Answered

LEMMA AnswerStep ==
  ASSUME Inv, Answers, [Next]_vars
  PROVE  Answers'
<1> USE KindAssumption, ContentAssumption, AnsweredStays
    DEF Inv, TypeOK, InHand, Message, PaymentSteps, CancelSteps, Answers, TrueNotice, Status,
        Notice, delivery, books, outcome, Continue, Fail, Raise
<1>1. ASSUME NEW m \in Message, Take(m)
      PROVE  Answers'
  BY <1>1 DEF Take, D!Take
<1>2. ASSUME NEW m \in Message, DropDuplicate(m)
      PROVE  Answers'
  BY <1>2 DEF DropDuplicate, D!Discard
<1>3. CASE get_payment
  BY <1>3 DEF get_payment
<1>4. CASE pay_invoice
  BY <1>4 DEF pay_invoice, Book, BecomesPaid
<1>5. CASE publish_invoice_status
  BY <1>5 DEF publish_invoice_status
<1>6. CASE confirm_payment
  <2>1. cur \in Payment /\ pc' # "get" /\ pc' # "refuse"
    BY <1>6 DEF confirm_payment
  <2>2. pc' = "ack" => Answered(cur)'
    BY <1>6, <2>1 DEF confirm_payment, Answered
  <2>3. QED
    BY <1>6, <2>1, <2>2 DEF confirm_payment
<1>7. CASE get_invoice
  BY <1>7 DEF get_invoice
<1>8. CASE publish_cancellation_failed
  <2>1. cur \in Cancellation /\ cur' = cur
    BY <1>8 DEF publish_cancellation_failed
  <2>2. Answered(cur)'
    BY <1>8, <2>1 DEF publish_cancellation_failed, Answered
  <2>3. QED
    BY <1>8, <2>1, <2>2 DEF publish_cancellation_failed
<1>9. CASE create_credit_note
  BY <1>9 DEF create_credit_note, D!Return
<1>10. CASE cancel_invoice
  BY <1>10 DEF cancel_invoice
<1>11. CASE publish_invoice_cancelled
  <2>1. cur \in Cancellation /\ cur' = cur /\ InvoiceOf[cur] # NoInvoice
    BY <1>11 DEF publish_invoice_cancelled
  <2>2. Answered(cur)'
    BY <1>11, <2>1 DEF publish_invoice_cancelled, Answered
  <2>3. ASSUME NEW m \in Cancellation, NEW kind \in Notice, <<kind, m>> \in sent'
        PROVE  TrueNotice(kind, m)
    <3>1. <<kind, m>> \in sent \/ (kind = "cancelled" /\ m = cur)
      BY ONLY <1>11, <2>3 DEF publish_invoice_cancelled
    <3>2. <<kind, m>> \in sent => TrueNotice(kind, m)
      BY DEF Answers
    <3>3. kind = "cancelled" /\ m = cur => TrueNotice(kind, m)
      BY <2>1
    <3>4. QED
      BY ONLY <3>1, <3>2, <3>3
  <2>4. /\ pc' = "ack" /\ acked' = acked /\ sent \subseteq sent'
        /\ \A m \in acked : Answered(m)
    BY <1>11 DEF publish_invoice_cancelled
  <2>5. QED
    BY <2>1, <2>2, <2>3, <2>4
<1>12. CASE basic_ack
  BY <1>12 DEF basic_ack, D!Settle
<1>13. CASE send_to_dlq
  BY <1>13 DEF send_to_dlq, D!Settle
<1>14. CASE Escape
  BY <1>14 DEF Escape, D!Return
<1>15. CASE Crash
  BY <1>15 DEF Crash, D!Restart
<1>16. ASSUME NEW i \in Invoice, mark_invoice_paid(i)
       PROVE  Answers'
  BY <1>16 DEF mark_invoice_paid, BecomesPaid
<1>17. CASE UNCHANGED vars
  BY <1>17 DEF vars
<1>18. QED
  BY <1>1, <1>2, <1>3, <1>4, <1>5, <1>6, <1>7, <1>8, <1>9, <1>10, <1>11, <1>12, <1>13,
     <1>14, <1>15, <1>16, <1>17 DEF Next, HandlerStep

\* Nothing is acknowledged without its answer to the CRM, through failures and redeliveries: a
\* payment has its confirmation, a cancellation the news or the refusal; and a cancellation is
\* answered that there is no such invoice exactly when there is none.
THEOREM AcknowledgedAreAnswered ==
  Spec => [](/\ \A m \in acked : Answered(m)
             /\ \A m \in Cancellation, kind \in Notice : <<kind, m>> \in sent => TrueNotice(kind, m))
<1>1. Init => Answers
  BY DEF Init, Answers
<1>2. Inv /\ Answers /\ [Next]_vars => Answers'
  BY AnswerStep
<1>3. Answers => /\ \A m \in acked : Answered(m)
                 /\ \A m \in Cancellation, kind \in Notice :
                      <<kind, m>> \in sent => TrueNotice(kind, m)
  BY DEF Answers
<1>4. QED
  BY <1>1, <1>2, <1>3, InvHolds, PTL DEF Spec

-----------------------------------------------------------------------------
(* A handler takes a bounded number of steps *)

\* The longest way from each step to the end.
StepsLeft == CASE pc \in {"get_payment", "get"} -> 5
               [] pc \in {"pay", "credit"} -> 4
               [] pc \in {"status", "cancel"} -> 3
               [] pc \in {"confirm", "announce", "refuse"} -> 2
               [] pc \in {"ack", "reject"} -> 1
               [] OTHER -> 0

LEMMA DescentStep ==
  ASSUME Inv, [Next]_vars
  PROVE  /\ HandlerStep => StepsLeft' < StepsLeft
         /\ ~HandlerStep /\ cur' = cur => StepsLeft' = StepsLeft
<1>1. ASSUME HandlerStep
      PROVE  StepsLeft' < StepsLeft
  BY <1>1
  DEF HandlerStep, get_payment, pay_invoice, publish_invoice_status, confirm_payment, get_invoice,
      publish_cancellation_failed, create_credit_note, cancel_invoice, publish_invoice_cancelled,
      basic_ack, send_to_dlq, Continue, Fail, Raise, StepsLeft
<1>2. ASSUME ~HandlerStep, cur' = cur
      PROVE  pc' = pc
  BY <1>2, KindAssumption
  DEF Next, vars, delivery, Take, D!Take, DropDuplicate, Escape, Raise, D!Return, Crash,
      D!Restart, mark_invoice_paid, Inv, InHand, Message
<1>3. QED
  BY <1>1, <1>2 DEF StepsLeft

\* A payment or a cancellation takes five steps at most, whatever fails and whatever the
\* administrator does meanwhile: neither handler repeats anything by itself.
THEOREM HandlersDescend ==
  Spec => /\ [](StepsLeft \in 0..5)
          /\ [][HandlerStep => StepsLeft' < StepsLeft]_vars
          /\ [][~HandlerStep /\ cur' = cur => StepsLeft' = StepsLeft]_vars
<1>1. Inv => StepsLeft \in 0..5
  BY DEF StepsLeft
<1>2. Inv /\ [Next]_vars => /\ [HandlerStep => StepsLeft' < StepsLeft]_vars
                            /\ [~HandlerStep /\ cur' = cur => StepsLeft' = StepsLeft]_vars
  BY DescentStep
<1>3. QED
  BY <1>1, <1>2, InvHolds, PTL DEF Spec
=============================================================================
