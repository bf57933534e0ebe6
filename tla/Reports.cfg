CONSTANTS
  MaxInvoices = 3
  MaxFaults = 1
  PerPage = 2
SPECIFICATION Spec
INVARIANT TypeOK
INVARIANT PaidIsNotOutstanding
INVARIANT SteadyInvoicesAreCounted
CHECK_DEADLOCK FALSE
