--------------------------- MODULE BillingLedger ---------------------------
(***************************************************************************)
(* What the billing of consumptions promises to the books: consumptions    *)
(* are numbered as they are stored; an invoice carries a set of them; a    *)
(* consumption is put on one invoice, and on one more at most for each     *)
(* mishap that happened before; no invoice and no consumption disappears.  *)
(* MySQL, FossBilling, the retries and the restarts are not visible here:  *)
(* module Consumption implements this specification.                       *)
(***************************************************************************)
EXTENDS Naturals, Sequences

CONSTANT Size  \* the numbers of consumptions one order may hold

VARIABLES
  times,   \* times[n]: how many invoices carry consumption n
  mishaps  \* how many things went wrong so far

Consumed == DOMAIN times

Init == times = <<>> /\ mishaps = 0

Accrue(k) == times' = times \o [j \in 1..k |-> 0]

Bill(rows) ==
  /\ \A n \in rows : times[n] <= mishaps
  /\ times' = [n \in Consumed |-> IF n \in rows THEN times[n] + 1 ELSE times[n]]

Next ==
  /\ mishaps' \in {mishaps, mishaps + 1}
  /\ \/ \E k \in Size : Accrue(k)
     \/ \E rows \in SUBSET Consumed : Bill(rows)

Spec == Init /\ [][Next]_<<times, mishaps>>
=============================================================================
