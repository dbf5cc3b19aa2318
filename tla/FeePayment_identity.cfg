\* One device moving between two tenants, any card, CG and secret.
SPECIFICATION Spec
CONSTANTS
  city = city
  county = county
  card1 = card1
  card2 = card2
  ann = ann
  bob = bob
  cyd = cyd
  fine1 = fine1
  fine2 = fine2
  bobs = bobs
  cyds = cyds
  NoPatron = NoPatron
  NoBarcode = NoBarcode
  NotUuid = NotUuid
  NoAccount = NoAccount
  Tenants = {city, county}
  Barcodes = {card1, card2}
  Patrons = {ann, bob, cyd}
  Home <- TwoTenantHome
  Card <- TwoTenantCard
  Accounts = {fine1, bobs, cyds}
  Owner <- OwnerAll
  Conns = {c1}
  MaxOwed = 1
  Settings <- KioskSettings
  Requests <- Identities
PROPERTIES OwnAccountsOnly ProvenPayerOnly ImplementsLedger
