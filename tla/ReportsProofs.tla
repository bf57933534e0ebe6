---------------------------- MODULE ReportsProofs ----------------------------
(***************************************************************************)
(* Proofs about the reports, for any size of the books and of a page.      *)
(*                                                                         *)
(* A summary is made of four reads of different times.  What makes it      *)
(* consistent is that paid is final as far as unpaid goes (PaidStaysPaid), *)
(* and that an invoice which did not move is still in the one list it was  *)
(* in when that list was read (ReadIsTrue, UnreadIsEmpty).                 *)
(***************************************************************************)
EXTENDS Reports, FiniteSetTheorems, SequenceTheorems, WellFoundedInduction, TLAPS

\* When get_revenue_summary reads a status.
Turn == [s \in Status |-> CASE s = "paid" -> 1 [] s = "unpaid" -> 2
                            [] s = "cancelled" -> 3 [] s = "refunded" -> 4]

UnreadIsEmpty == \A s \in Status : Turn[s] > step => summary[s] = Unread

\* No invoice of the paid page is unpaid, even if it is no longer paid.
PaidStaysPaid == \A i \in summary["paid"].page : i \in Invoice /\ books[i] # "unpaid"

\* What has been read holds of every invoice that did not move since.
ReadIsTrue ==
  \A i \in Invoice \ moved : \A s \in Status : Turn[s] <= step =>
    IF books[i] = s
    THEN i \in summary[s].page \/ summary[s].error \/ summary[s].count >= PerPage
    ELSE i \notin summary[s].page

Inv == /\ TypeOK
       /\ UnreadIsEmpty
       /\ PaidStaysPaid
       /\ PaidIsNotOutstanding
       /\ ReadIsTrue

-----------------------------------------------------------------------------
\* The order of the reads.
LEMMA Turns ==
  /\ Turn["paid"] = 1 /\ Turn["unpaid"] = 2 /\ Turn["cancelled"] = 3 /\ Turn["refunded"] = 4
  /\ \A k \in 1..4 : statuses[k] \in Status /\ Turn[statuses[k]] = k
  /\ \A s \in Status : Turn[s] \in 1..4 /\ statuses[Turn[s]] = s
  /\ Len(statuses) = 4
<1>1. /\ Turn["paid"] = 1 /\ Turn["unpaid"] = 2
      /\ Turn["cancelled"] = 3 /\ Turn["refunded"] = 4
  BY Zenon DEF Turn, Status
<1>2. /\ statuses[1] = "paid" /\ statuses[2] = "unpaid" /\ statuses[3] = "cancelled"
      /\ statuses[4] = "refunded" /\ Len(statuses) = 4
  BY DEF statuses
<1>3. QED
  BY <1>1, <1>2 DEF Status

LEMMA TurnType == \A s \in Status : Turn[s] \in Nat /\ Turn[s] >= 1 /\ Turn[s] <= 4
<1>1. \A s \in Status : Turn[s] \in 1..4
  BY Turns
<1>2. QED
  BY <1>1

\* A set of invoices that is not empty has a newest one.
LEMMA NewestExists ==
  ASSUME Len(books) \in Nat, NEW S \in SUBSET Invoice, S # {}
  PROVE  \E i \in S : \A j \in S : ~(j > i)
<1> DEFINE Age(i)  == Len(books) - i
           Ages    == {Age(i) : i \in S}
           Younger == OpToRel(<, Nat)
<1>1. \A i \in S : i \in Nat /\ Age(i) \in Nat
  BY DEF Invoice
<1>2. Ages \subseteq Nat /\ Ages # {}
  BY <1>1
<1>3. \A a, b \in Nat : a < b => <<a, b>> \in Younger
  BY DEF OpToRel
<1> HIDE DEF Younger
<1>4. IsWellFoundedOn(Younger, Nat)
  BY NatLessThanWellFounded DEF Younger
<1>5. PICK a \in Ages : \A b \in Ages : ~(<<b, a>> \in Younger)
  <2> HIDE DEF Ages
  <2>1. QED
    BY <1>2, <1>4, WFMin
<1>6. PICK i \in S : a = Age(i)
  OBVIOUS
<1>7. \A j \in S : ~(Age(j) < Age(i))
  BY <1>1, <1>3, <1>5, <1>6
<1>8. \A j \in S : ~(j > i)
  BY <1>1, <1>7
<1>9. QED
  BY <1>8

\* What a page holds; and that it is full if it leaves something out.
LEMMA PageFacts ==
  ASSUME books \in Seq(Status), Len(books) <= MaxInvoices, NEW S \in SUBSET Invoice
  PROVE  /\ Page(S) \subseteq S
         /\ Cardinality(S) \in 0..MaxInvoices /\ Cardinality(Page(S)) \in 0..MaxInvoices
         /\ S # Page(S) => /\ Cardinality(Page(S)) >= PerPage
                           /\ Cardinality(S) >= PerPage
<1> DEFINE Newer(i) == {j \in S : j > i}
<1>1. Len(books) \in Nat
  BY LenProperties
<1>2. IsFiniteSet(Invoice) /\ Cardinality(Invoice) = Len(books)
  <2>1. ASSUME NEW n \in Nat
        PROVE  IsFiniteSet(1..n) /\ Cardinality(1..n) = n
    <3>1. IsFiniteSet(1..n) /\ Cardinality(1..n) = IF 1 > n THEN 0 ELSE n - 1 + 1
      BY FS_Interval
    <3>2. QED
      BY <3>1
  <2>2. QED
    BY <1>1, <2>1 DEF Invoice
<1>3. IsFiniteSet(S) /\ Cardinality(S) \in Nat /\ Cardinality(S) <= Len(books)
  BY <1>2, FS_Subset, FS_CardinalityType
<1>4. Page(S) \subseteq S
  BY DEF Page
<1>5. /\ IsFiniteSet(Page(S)) /\ Cardinality(Page(S)) \in Nat
      /\ Cardinality(Page(S)) <= Cardinality(S)
  BY <1>3, <1>4, FS_Subset, FS_CardinalityType
<1>6. ASSUME S # Page(S)
      PROVE  Cardinality(Page(S)) >= PerPage
  <2>1. PICK i \in S \ Page(S) : \A j \in S \ Page(S) : ~(j > i)
    <3>1. S \ Page(S) \in SUBSET Invoice /\ S \ Page(S) # {}
      BY <1>4, <1>6
    <3>2. QED
      BY <1>1, <3>1, NewestExists
  <2>2. Newer(i) \subseteq Page(S)
    BY <2>1
  <2>3. Cardinality(Newer(i)) \in Nat /\ Cardinality(Newer(i)) <= Cardinality(Page(S))
    BY <1>5, <2>2, FS_Subset, FS_CardinalityType
  <2>4. ~(Cardinality(Newer(i)) < PerPage)
    BY <2>1 DEF Page
  <2>5. QED
    BY <1>5, <2>3, <2>4, BoundAssumption
<1>7. QED
  BY <1>1, <1>3, <1>4, <1>5, <1>6, BoundAssumption

-----------------------------------------------------------------------------
LEMMA PrepareStep == ASSUME Inv, Prepare PROVE Inv'
<1> USE DEF Inv, TypeOK
<1>1. /\ books' \in Seq(Status) /\ Len(books') = Len(books) + 1
      /\ \A i \in Invoice : books'[i] = books[i]
      /\ Len(books) \in Nat
  BY AppendProperties, LenProperties DEF Prepare, Status, Invoice
<1>2. /\ Invoice' = Invoice \cup {Len(books) + 1}
      /\ moved' = IF step = 0 THEN moved ELSE moved \cup {Len(books) + 1}
      /\ UNCHANGED <<step, summary, faults>>
      /\ Len(books) < MaxInvoices
  BY <1>1 DEF Prepare, Move, Invoice
<1>3. TypeOK'
  BY <1>1, <1>2, BoundAssumption
<1>4. UnreadIsEmpty' /\ PaidIsNotOutstanding'
  BY <1>2 DEF UnreadIsEmpty, PaidIsNotOutstanding
<1>5. PaidStaysPaid'
  BY <1>1, <1>2 DEF PaidStaysPaid
<1>6. ReadIsTrue'
  <2>1. CASE step = 0
    <3>1. \A r \in Status : ~(Turn[r] <= step')
      BY <2>1, <1>2, TurnType
    <3>2. QED
      BY <3>1 DEF ReadIsTrue
  <2>2. CASE step # 0
    BY <2>2, <1>1, <1>2 DEF ReadIsTrue
  <2>3. QED
    BY <2>1, <2>2
<1>7. QED
  BY <1>3, <1>4, <1>5, <1>6

LEMMA ChangeStep == ASSUME Inv, NEW i \in Invoice, NEW s \in Status, Change(i, s) PROVE Inv'
<1> USE DEF Inv, TypeOK
<1>1. /\ books' \in Seq(Status) /\ Len(books') = Len(books)
      /\ \A j \in Invoice : books'[j] = IF j = i THEN s ELSE books[j]
      /\ s # "unpaid"
  BY ExceptSeq DEF Change, Invoice
<1>2. /\ Invoice' = Invoice
      /\ moved' = IF step = 0 THEN moved ELSE moved \cup {i}
      /\ UNCHANGED <<step, summary, faults>>
  BY <1>1 DEF Change, Move, Invoice
<1>3. TypeOK'
  BY <1>1, <1>2
<1>4. UnreadIsEmpty' /\ PaidIsNotOutstanding'
  BY <1>2 DEF UnreadIsEmpty, PaidIsNotOutstanding
<1>5. PaidStaysPaid'
  BY <1>1, <1>2 DEF PaidStaysPaid
<1>6. ReadIsTrue'
  <2>1. CASE step = 0
    <3>1. \A r \in Status : ~(Turn[r] <= step')
      BY <2>1, <1>2, TurnType
    <3>2. QED
      BY <3>1 DEF ReadIsTrue
  <2>2. CASE step # 0
    BY <2>2, <1>1, <1>2 DEF ReadIsTrue
  <2>3. QED
    BY <2>1, <2>2
<1>7. QED
  BY <1>3, <1>4, <1>5, <1>6

LEMMA BeginStep == ASSUME Inv, Begin PROVE Inv'
<1>1. /\ step' = 0 /\ summary' = [s \in Status |-> Unread] /\ moved' = {}
      /\ UNCHANGED <<books, faults>>
  BY DEF Begin
<1>2. TypeOK'
  BY <1>1, Turns, BoundAssumption DEF Inv, TypeOK, Unread, Invoice
<1>3. UnreadIsEmpty' /\ PaidStaysPaid' /\ PaidIsNotOutstanding' /\ ReadIsTrue'
  BY <1>1, Turns
  DEF UnreadIsEmpty, PaidStaysPaid, PaidIsNotOutstanding, ReadIsTrue, Unread, Status
<1>4. QED
  BY <1>2, <1>3 DEF Inv

LEMMA ReadStep == ASSUME Inv, Read PROVE Inv'
<1> DEFINE status == statuses[step + 1]
           Result(total) == [count |-> total, page |-> Page(Of(status)), error |-> FALSE]
<1> USE DEF Inv, TypeOK
<1>1. /\ step \in 0..3 /\ step' = step + 1
      /\ status \in Status /\ Turn[status] = step + 1
      /\ \A s \in Status : Turn[s] <= step' <=> s = status \/ Turn[s] <= step
      /\ UNCHANGED <<books, moved>>
  <2>1. step \in 0..3 /\ step' = step + 1 /\ UNCHANGED <<books, moved>>
    BY Turns DEF Read
  <2>2. status \in Status /\ Turn[status] = step + 1
    BY <2>1, Turns
  <2>3. ASSUME NEW s \in Status
        PROVE  Turn[s] <= step' <=> s = status \/ Turn[s] <= step
    <3>1. Turn[s] \in 1..4 /\ statuses[Turn[s]] = s
      BY Turns
    <3>2. Turn[s] = step + 1 => s = status
      BY <3>1
    <3> HIDE DEF status
    <3>3. QED
      BY <2>1, <2>2, <3>1, <3>2
  <2>4. QED
    BY <2>1, <2>2, <2>3
<1>2. \/ \E total \in Total(status) : summary' = [summary EXCEPT ![status] = Result(total)]
      \/ summary' = [summary EXCEPT ![status] = Error]
  BY DEF Read
<1>3. /\ Page(Of(status)) \subseteq Of(status)
      /\ Total(status) \subseteq 0..MaxInvoices
      /\ Of(status) # Page(Of(status)) => \A total \in Total(status) : total >= PerPage
      /\ Of(status) \subseteq Invoice
  <2>1. Of(status) \in SUBSET Invoice
    BY DEF Of
  <2>2. QED
    BY <2>1, PageFacts DEF Total
<1>4. \A s \in Status : summary'[s] = IF s # status THEN summary[s]
                                      ELSE summary'[status]
  BY <1>1, <1>2
<1>5. /\ summary' \in [Status -> [count : 0..MaxInvoices, page : SUBSET Invoice, error : BOOLEAN]]
      /\ summary'[status].page \subseteq Of(status)
      /\ \A i \in Of(status) : \/ i \in summary'[status].page \/ summary'[status].error
                               \/ summary'[status].count >= PerPage
  <2>1. \A total \in Total(status) :
          Result(total) \in [count : 0..MaxInvoices, page : SUBSET Invoice, error : BOOLEAN]
    BY <1>3
  <2>2. Error \in [count : 0..MaxInvoices, page : SUBSET Invoice, error : BOOLEAN]
    BY BoundAssumption DEF Error
  <2>3. (\E total \in Total(status) : summary'[status] = Result(total)) \/ summary'[status] = Error
    BY <1>1, <1>2
  <2>4. summary' \in [Status -> [count : 0..MaxInvoices, page : SUBSET Invoice, error : BOOLEAN]]
    BY <1>1, <1>2, <2>1, <2>2
  <2>5. CASE \E total \in Total(status) : summary'[status] = Result(total)
    <3>1. PICK total \in Total(status) : summary'[status] = Result(total)
      BY <2>5
    <3>2. /\ summary'[status].page = Page(Of(status)) /\ summary'[status].count = total
      BY <3>1
    <3>3. \A i \in Of(status) : i \in Page(Of(status)) \/ total >= PerPage
      BY <1>3
    <3>4. QED
      BY <2>4, <3>2, <3>3, <1>3
  <2>6. CASE summary'[status] = Error
    BY <2>3, <2>4, <2>6 DEF Error
  <2>7. QED
    BY <2>3, <2>5, <2>6
<1>6. TypeOK'
  <2>1. faults' \in 0..MaxFaults
    BY BoundAssumption DEF Read
  <2>2. step' \in 0..Len(statuses)
    BY <1>1, Turns
  <2> HIDE DEF status, Result
  <2>3. Invoice' = Invoice
    BY <1>1 DEF Invoice
  <2>4. QED
    BY <2>1, <2>2, <2>3, <1>1, <1>5
<1>7. UnreadIsEmpty'
  <2> HIDE DEF status, Result
  <2>1. ASSUME NEW s \in Status, Turn[s] > step' PROVE Turn[s] > step /\ s # status
    BY <2>1, <1>1, TurnType
  <2>2. QED
    BY <2>1, <1>4 DEF UnreadIsEmpty
<1>8. PaidStaysPaid'
  BY <1>1, <1>4, <1>5 DEF PaidStaysPaid, Of, Invoice, Status
<1>9. PaidIsNotOutstanding'
  <2>1. CASE status = "paid"
    <3>1. summary["unpaid"] = Unread
      BY <2>1, <1>1, Turns DEF UnreadIsEmpty, Status
    <3>2. QED
      BY <2>1, <3>1, <1>4 DEF PaidIsNotOutstanding, Unread, Status
  <2>2. CASE status = "unpaid"
    BY <2>2, <1>4, <1>5 DEF PaidIsNotOutstanding, PaidStaysPaid, Of, Status
  <2>3. CASE status \notin {"paid", "unpaid"}
    BY <2>3, <1>4 DEF PaidIsNotOutstanding, Status
  <2>4. QED
    BY <2>1, <2>2, <2>3
<1>10. ReadIsTrue'
  <2> SUFFICES ASSUME NEW i \in Invoice \ moved, NEW s \in Status, s = status \/ Turn[s] <= step
               PROVE  IF books[i] = s
                      THEN \/ i \in summary'[s].page \/ summary'[s].error
                           \/ summary'[s].count >= PerPage
                      ELSE i \notin summary'[s].page
    BY <1>1 DEF ReadIsTrue, Invoice
  <2>1. CASE s = status
    BY <2>1, <1>5 DEF Of
  <2>2. CASE s # status
    BY <2>2, <1>4 DEF ReadIsTrue
  <2>3. QED
    BY <2>1, <2>2
<1>11. QED
  BY <1>6, <1>7, <1>8, <1>9, <1>10

LEMMA InvHolds == Spec => []Inv
<1>1. Init => Inv
  <2>1. ASSUME Init PROVE TypeOK
    BY <2>1, Turns, BoundAssumption DEF Init, TypeOK, Unread, Invoice, Status
  <2>2. ASSUME Init PROVE Invoice = {} /\ summary = [s \in Status |-> Unread]
    BY <2>2 DEF Init, Invoice
  <2>3. QED
    BY <2>1, <2>2 DEF Inv, UnreadIsEmpty, PaidStaysPaid, PaidIsNotOutstanding, ReadIsTrue,
                      Unread, Status
<1>2. Inv /\ [Next]_vars => Inv'
  <2>1. ASSUME Inv, UNCHANGED vars PROVE Inv'
    BY <2>1 DEF vars, Inv, TypeOK, UnreadIsEmpty, PaidStaysPaid, PaidIsNotOutstanding,
                ReadIsTrue, Invoice
  <2>2. QED
    BY <2>1, PrepareStep, ChangeStep, BeginStep, ReadStep DEF Next
<1>3. QED
  BY <1>1, <1>2, PTL DEF Spec

-----------------------------------------------------------------------------
\* The variables keep their types, whatever the size of the books and of a page.
THEOREM TypeCorrect == Spec => []TypeOK
<1>1. Inv => TypeOK
  BY DEF Inv
<1>2. QED
  BY <1>1, InvHolds, PTL

\* No invoice is in the paid and in the outstanding amount of one summary, whenever it is
\* paid: the statuses are read in the order in which an invoice can go through them.
THEOREM CountedOnce == Spec => []PaidIsNotOutstanding
<1>1. Inv => PaidIsNotOutstanding
  BY DEF Inv
<1>2. QED
  BY <1>1, InvHolds, PTL

\* A complete summary has every invoice that did not move in the list of its status, or
\* shows that it may lack it, and has it in no other.
THEOREM SteadyAreCounted == Spec => []SteadyInvoicesAreCounted
<1>1. Inv => SteadyInvoicesAreCounted
  <2>1. ASSUME Inv, NEW i \in Invoice PROVE books[i] \in Status
    BY <2>1 DEF Inv, TypeOK, Invoice
  <2>2. QED
    BY <2>1, Turns DEF Inv, ReadIsTrue, SteadyInvoicesAreCounted
<1>2. QED
  BY <1>1, InvHolds, PTL
==============================================================================
