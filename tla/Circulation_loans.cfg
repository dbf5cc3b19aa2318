\* Two devices of one patron with two items, one of which Renew All may try.
SPECIFICATION Spec
CONSTANTS
  city = city
  county = county
  card1 = card1
  card2 = card2
  ann = ann
  bob = bob
  cyd = cyd
  book = book
  film = film
  atlas = atlas
  NoPatron = NoPatron
  NoBarcode = NoBarcode
  NoItem = NoItem
  Tenants = {city}
  Barcodes = {card1}
  Patrons = {ann}
  Home <- OneTenantHome
  Card <- OneTenantCard
  Items = {book, film}
  ItemHome <- CityItems
  Conns = {c1, c2}
  MaxRenewals = 2
  MaxItems = 1
  Settings <- OpenSetting
  Records <- LoanRecords
  Requests <- LoanRequests
SYMMETRY ConnSymmetry
INVARIANT AnswerIsTrue
