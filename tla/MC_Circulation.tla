--------------------------- MODULE MC_Circulation ---------------------------
(* Instances of Circulation for TLC. *)
EXTENDS Circulation, TLC

CONSTANTS city, county, card1, card2, ann, bob, cyd, book, film, atlas

(* ann and bob are patrons of city; cyd of county has ann's barcode.        *)
OneTenantHome == [p \in {ann} |-> city]
OneTenantCard == [t \in {city} |-> [b \in {card1} |-> ann]]
TwoTenantHome == [p \in {ann, bob, cyd} |-> IF p = cyd THEN county ELSE city]
TwoTenantCard ==
  [t \in {city, county} |-> [b \in {card1, card2} |->
     IF t = county THEN IF b = card1 THEN cyd ELSE NoPatron
     ELSE IF b = card1 THEN ann ELSE bob]]

CityItems == [i \in {book, film} |-> city]
BothItems == [i \in {book, atlas} |-> IF i = book THEN city ELSE county]

Setting(verify, resolution) == [verify |-> verify, claimedReturnedResolution |-> resolution]
OpenSetting == {Setting("none", "none")}
KioskSettings == {Setting("pin", "none"), Setting("password", "library")}

Record(status, p, request, away) ==
  [status |-> status, borrower |-> p, renewals |-> 0, request |-> request, away |-> away]
Shelved == Record("Available", NoPatron, "none", FALSE)
Lent(p) == Record("Checked out", p, "none", FALSE)

(* On the shelf or lent. *)
LoanRecords == {Shelved, Lent(ann)}

(* What a checkin may find: lent and claimed items with and without a       *)
(* request, that stay or have to travel, and items that travel or wait.     *)
KioskRecords ==
  {Shelved} \cup {Lent(p) : p \in {ann, bob, cyd}}
    \cup {Record("Checked out", ann, "Hold", a) : a \in BOOLEAN}
    \cup {Record("Claimed returned", ann, q, q = "none") : q \in {"none", "Hold"}}
    \cup {Record("In transit", NoPatron, q, TRUE) : q \in {"none", "Hold", "Page"}}
    \cup {Record("Awaiting pickup", NoPatron, q, FALSE) : q \in {"Hold", "Page"}}

Say(code, b, i, p) == [code |-> code, aa |-> b, ab |-> i, secret |-> p]

LoanRequests ==
  {Say("11", card1, book, NoPatron), Say("29", card1, book, NoPatron),
   Say("65", card1, NoItem, NoPatron)}
KioskRequests ==
  {Say("09", NoBarcode, i, NoPatron) : i \in {book, atlas, NoItem}}
    \cup {Say(code, b, IF code = "65" THEN NoItem ELSE i, p) :
             code \in {"11", "29", "65"}, b \in {card1, card2}, i \in {book, atlas},
             p \in {NoPatron, ann, cyd}}

ConnSymmetry == Permutations(Conns)
=============================================================================
