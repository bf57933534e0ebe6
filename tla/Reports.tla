------------------------------- MODULE Reports -------------------------------
(***************************************************************************)
(* The revenue report of the MCP server: get_revenue_summary asks          *)
(* FossBilling for the invoices of one status after the other.  It is a    *)
(* process of its own: between two reads the receiver and the              *)
(* administrator go on.                                                    *)
(*                                                                         *)
(* Every invoice counts as one amount.  FossBilling (external) lists the   *)
(* newest invoices first.                                                  *)
(***************************************************************************)
EXTENDS Naturals, Sequences, FiniteSets

CONSTANTS
  MaxInvoices,  \* bound: invoices in the books
  MaxFaults,    \* bound: reads that fail
  PerPage       \* per_page of a read, 200 in the code

ASSUME BoundAssumption == MaxInvoices \in Nat /\ MaxFaults \in Nat /\ PerPage \in Nat \ {0}

Status == {"paid", "unpaid", "cancelled", "refunded"}

VARIABLES
  books,   \* FossBilling: the status of each invoice, oldest first
  step,    \* how many statuses get_revenue_summary has read
  summary, \* what it read of each: the total count and the invoices of the page
  moved,   \* history: invoices made or changed since its first read
  faults   \* how many reads failed (at most MaxFaults)

vars == <<books, step, summary, moved, faults>>

Invoice == 1..Len(books)

Of(status) == {i \in Invoice : books[i] = status}

\* The first page of a list: what has less than a page of newer ones before it.
Page(invoices) == {i \in invoices : Cardinality({j \in invoices : j > i}) < PerPage}

Unread == [count |-> 0, page |-> {}, error |-> FALSE]

\* Mutations: nothing but the message; a failed read looks like an empty list.
ErrorOnly == [error |-> TRUE]
ErrorSwallowed == [count |-> 0, page |-> {}, error |-> FALSE]

Error  == [count |-> 0, page |-> {}, error |-> TRUE]

Init ==
  /\ books = <<>>
  /\ step = 0
  /\ summary = [s \in Status |-> Unread]
  /\ moved = {}
  /\ faults = 0

-----------------------------------------------------------------------------
(* Meanwhile: what the other processes do to the books *)

Move(i) == moved' = IF step = 0 THEN moved ELSE moved \cup {i}

Prepare ==
  /\ Len(books) < MaxInvoices
  /\ books' = Append(books, "unpaid")
  /\ Move(Len(books) + 1)
  /\ UNCHANGED <<step, summary, faults>>

\* pay_invoice, mark_invoice_as_paid, cancel_invoice, mark_invoice_as_refunded: whatever
\* the status was; none of them makes an invoice unpaid.
Change(i, status) ==
  /\ status # "unpaid"
  /\ books[i] # status
  /\ books' = [books EXCEPT ![i] = status]
  /\ Move(i)
  /\ UNCHANGED <<step, summary, faults>>

-----------------------------------------------------------------------------
(* get_revenue_summary *)

\* Mutation: another order.
UnpaidFirst == <<"unpaid", "paid", "cancelled", "refunded">>

statuses == <<"paid", "unpaid", "cancelled", "refunded">>

Begin ==
  /\ step = Len(statuses)
  /\ step' = 0
  /\ summary' = [s \in Status |-> Unread]
  /\ moved' = {}
  /\ UNCHANGED <<books, faults>>

\* The total that FossBilling gives with the page, or if it gives none the page's length.
Total(status) == {Cardinality(Of(status)), Cardinality(Page(Of(status)))}

\* The count may be of all invoices of the status, the amount is of the page only; a failed
\* read leaves an error in the place of its status.
Read ==
  /\ step < Len(statuses)
  /\ step' = step + 1
  /\ LET status == statuses[step + 1]
     IN \/ /\ \E total \in Total(status) :
                summary' = [summary EXCEPT ![status] = [count |-> total,
                                                        page |-> Page(Of(status)),
                                                        error |-> FALSE]]
           /\ UNCHANGED faults
        \/ /\ summary' = [summary EXCEPT ![status] = Error]
           /\ faults < MaxFaults
           /\ faults' = faults + 1
  /\ UNCHANGED <<books, moved>>

Next ==
  \/ Prepare
  \/ \E i \in Invoice, s \in Status : Change(i, s)
  \/ Begin \/ Read

Spec == Init /\ [][Next]_vars

-----------------------------------------------------------------------------
(* Properties *)

TypeOK ==
  /\ books \in Seq(Status)
  /\ Len(books) <= MaxInvoices
  /\ step \in 0..Len(statuses)
  /\ summary \in [Status -> [count : 0..MaxInvoices, page : SUBSET Invoice, error : BOOLEAN]]
  /\ moved \subseteq Invoice
  /\ faults \in 0..MaxFaults

\* No amount is in total_paid_eur and in total_outstanding_eur of one summary, although the
\* invoice may be paid between the two reads: "paid" is read first and nothing that
\* Facturatie does makes an invoice unpaid again.
PaidIsNotOutstanding == summary["paid"].page \cap summary["unpaid"].page = {}

\* A summary counts every invoice that kept its status meanwhile, and counts it once; what
\* its amounts lack shows: the read failed, or its count reaches the length of a page.
SteadyInvoicesAreCounted ==
  step = Len(statuses) =>
    \A i \in Invoice \ moved :
      LET own == summary[books[i]]
      IN /\ i \in own.page \/ own.error \/ own.count >= PerPage
         /\ \A s \in Status \ {books[i]} : i \notin summary[s].page
=============================================================================
