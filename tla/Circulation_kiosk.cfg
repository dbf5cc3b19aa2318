\* One device moving between two tenants, any card, item and secret,
\* and items in every state that staff may bring them to.
SPECIFICATION Spec
CONSTANTS
  city = city
  county = county
  card1 = card1
  card2 = card2
  ann = ann
  bob = bob
  cyd = cyd
  book = book
  film = film
  atlas = atlas
  NoPatron = NoPatron
  NoBarcode = NoBarcode
  NoItem = NoItem
  Tenants = {city, county}
  Barcodes = {card1, card2}
  Patrons = {ann, bob, cyd}
  Home <- TwoTenantHome
  Card <- TwoTenantCard
  Items = {book, atlas}
  ItemHome <- BothItems
  Conns = {c1}
  MaxRenewals = 1
  MaxItems = 2
  Settings <- KioskSettings
  Records <- KioskRecords
  Requests <- KioskRequests
PROPERTIES OwnLoansOnly ProvenPatronOnly ClaimsAreKept AlertMatchesItem
