CONSTANTS
  i1 = i1
  full = full
  part = part
  bare = bare
  lost = lost
  x1 = x1
  x2 = x2
  xlost = xlost
  Invoice = {i1}
  Payment = {full, part, bare, lost}
  Cancellation = {x1, x2, xlost}
  InvoiceOf <- MCInvoiceOf
  NoInvoice = NoInvoice
  Amount <- MCAmount
  Lacks <- MCLacks
  Total <- MCTotal
  FloatError <- EitherSide
  Priced = {i1}
  ConsumptionInvoice = {}
  NoMessage = NoMessage
  MaxMarks = 1
  MaxFaults = 1
SPECIFICATION FairSpec
CHECK_DEADLOCK FALSE
INVARIANT TypeOK
INVARIANT OnlyMarksGoUncredited
INVARIANT CreditsNeedPayments
INVARIANT RefusalIsNoNews
INVARIANT ChangesAreTold
INVARIANT AckedCoverIsBooked
PROPERTY OnlyCoveredIsPaid
PROPERTY CancellationTakesEffect
