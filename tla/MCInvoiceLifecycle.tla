------------------------- MODULE MCInvoiceLifecycle -------------------------
(* InvoiceLifecycle on one invoice that is paid, marked, cancelled, paid and cancelled  *)
(* again.  Payments lie a cent below the total (part), on it (bare, without UUID and    *)
(* due date) and a cent above (full); the total's float may lie on either side.         *)
EXTENDS InvoiceLifecycle, TLC

CONSTANTS i1, full, part, bare, lost, x1, x2, xlost

MCInvoiceOf == [m \in Message |-> IF m \in {lost, xlost} THEN NoInvoice ELSE i1]
MCTotal == [i \in Invoice |-> 3]
MCAmount == [m \in Payment |-> IF m = part THEN 2 ELSE IF m = full THEN 4 ELSE 3]
MCLacks == [m \in Payment |-> IF m = bare THEN {"identity_uuid", "due_date"}
                              ELSE IF m = lost THEN {"transaction"} ELSE {}]
EitherSide == [i \in Invoice |-> {-1, 1}]
=============================================================================
