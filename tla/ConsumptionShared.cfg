CONSTANTS
  o1 = o1
  o2 = o2
  p = p
  r = r
  s = s
  t = t
  e = e
  c1 = c1
  c2 = c2
  m1 = m1
  b1 = b1
  b2 = b2
  Order = {o1, o2}
  Request = {r, s, t}
  Event = {e}
  Company = {c1, c2}
  Address = {m1, b1, b2}
  Finds <- MCFinds
  CompanyOf <- MCCompanyOf
  RowsOf <- MCRowsOf
  OrderOf <- MCOrderOf
  AddressOf <- MCAddressOf
  PaidRequest = {r}
  NoVatRequest = {t}
  _billing_email <- MCbilling
  MAX_RETRIES = 2
  NoMessage = NoMessage
  NoClient = NoClient
  MaxFaults = 2
SPECIFICATION Spec
INVARIANT TypeOK
INVARIANT OneAccountPerCompany
INVARIANT OverstoringNeedsFaults
INVARIANT ToldResolves
PROPERTY ImplementsLedger
CHECK_DEADLOCK FALSE
