CONSTANTS
  i1 = i1
  full = full
  part = part
  bare = bare
  lost = lost
  x1 = x1
  x2 = x2
  xlost = xlost
  Invoice = {i1}
  Payment = {full}
  Cancellation = {x1}
  InvoiceOf <- MCInvoiceOf
  NoInvoice = NoInvoice
  Amount <- MCAmount
  Lacks <- MCLacks
  Total <- MCTotal
  FloatError <- EitherSide
  Priced = {i1}
  ConsumptionInvoice = {i1}
  NoMessage = NoMessage
  MaxMarks = 0
  MaxFaults = 0
SPECIFICATION Spec
CHECK_DEADLOCK FALSE
INVARIANT ConsumptionIsKept
