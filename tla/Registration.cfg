CONSTANTS
  r1 = r1
  r2 = r2
  v = v
  u = u
  ann = ann
  bob = bob
  ob = ob
  Registration = {r1, r2, v}
  Update = {u}
  Email = {ann, bob, ob}
  EmailOf <- MCEmailOf
  Finds <- MCFinds
  Paid = {r1}
  BadVat = {v}
  Traffic <- MCTraffic
  MAX_RETRIES = 2
  NoMessage = NoMessage
  NoClient = NoClient
  NoUuid = NoUuid
  Refusal = Refusal
  MaxFaults = 2
SPECIFICATION FairSpec
CHECK_DEADLOCK FALSE
INVARIANT TypeOK
INVARIANT OverinvoicingNeedsFaults
INVARIANT AckMeansMailed
INVARIANT MailsCarryOwnUuid
INVARIANT OneClientPerAddress
INVARIANT InvoiceWithItsOwner
INVARIANT BadEndsNeedFaults
PROPERTY EveryRegistrationEnds
