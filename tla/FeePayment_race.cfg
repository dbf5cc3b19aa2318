\* Two devices of one patron, with bulk payment.
SPECIFICATION Spec
CONSTANTS
  city = city
  county = county
  card1 = card1
  card2 = card2
  ann = ann
  bob = bob
  cyd = cyd
  fine1 = fine1
  fine2 = fine2
  bobs = bobs
  cyds = cyds
  NoPatron = NoPatron
  NoBarcode = NoBarcode
  NotUuid = NotUuid
  NoAccount = NoAccount
  Tenants = {city}
  Barcodes = {card1}
  Patrons = {ann}
  Home <- OneTenantHome
  Card <- OneTenantCard
  Accounts = {fine1, fine2}
  Owner <- OwnerAnn
  Conns = {c1, c2}
  MaxOwed = 2
  Settings <- BulkOnly
  Requests <- Payments
SYMMETRY ConnSymmetry
INVARIANTS OneCharge AcceptedMeansPaid ReportAddsUp
PROPERTIES BulkNeverExceeds
