CONSTANTS
  o1 = o1
  o2 = o2
  p = p
  r = r
  s = s
  t = t
  e = e
  c1 = c1
  c2 = c2
  m1 = m1
  b1 = b1
  b2 = b2
  Order = {o1, o2, p}
  Request = {r}
  Event = {e}
  Company = {c1, c2}
  Address = {m1, b1, b2}
  Finds <- MCFinds
  CompanyOf <- MCCompanyOf
  RowsOf <- MCRowsOf
  OrderOf <- MCOrderOf
  AddressOf <- MCAddressOf
  PaidRequest = {r}
  NoVatRequest = {}
  _billing_email <- MCbilling
  MAX_RETRIES = 3
  NoMessage = NoMessage
  NoClient = NoClient
  MaxFaults = 0
SPECIFICATION Spec
INVARIANT OnlyMatchedRows
CHECK_DEADLOCK FALSE
