\* A device asking about a patron around the end of January, staff at work.
SPECIFICATION Spec
CONSTANTS
  c1 = c1
  city = city
  card1 = card1
  ann = ann
  students = students
  h1 = h1
  h2 = h2
  l1 = l1
  l2 = l2
  f1 = f1
  b1 = b1
  b2 = b2
  NoPatron = NoPatron
  NoBarcode = NoBarcode
  NoDate = NoDate
  Tenants = {city}
  Barcodes = {card1}
  Patrons = {ann}
  Home <- HomeOf
  Card <- CardOf
  Settings <- KioskSettings
  Groups = {students}
  FirstYear = 2022
  LastMonth = 90
  Conns = {c1}
  FirstDay = 395
  LastDay = 396
  UserRecords <- StaffRecords
  Things = {h1, h2, l1, l2, f1, b1, b2}
  Accounts <- KioskAccounts
  Requests <- Inquiries
  MaxFailures = 2
INVARIANTS ValidMeansEntitled AnswerReportsAccount
PROPERTIES RenewalNeverShortens EditsSurviveRenewal
