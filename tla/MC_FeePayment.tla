--------------------------- MODULE MC_FeePayment ---------------------------
(* Instances of FeePayment for TLC. *)
EXTENDS FeePayment, TLC

CONSTANTS city, county, card1, card2, ann, bob, cyd, fine1, fine2, bobs, cyds

(* ann and bob are patrons of city; cyd of county has ann's barcode.        *)
OneTenantHome == [p \in {ann} |-> city]
OneTenantCard == [t \in {city} |-> [b \in {card1} |-> ann]]
TwoTenantHome == [p \in {ann, bob, cyd} |-> IF p = cyd THEN county ELSE city]
TwoTenantCard ==
  [t \in {city, county} |-> [b \in {card1, card2} |->
     IF t = county THEN IF b = card1 THEN cyd ELSE NoPatron
     ELSE IF b = card1 THEN ann ELSE bob]]

OwnerAnn == [a \in {fine1, fine2} |-> ann]
OwnerAll == [a \in {fine1, bobs, cyds} |->
               IF a = fine1 THEN ann ELSE IF a = bobs THEN bob ELSE cyd]

Setting(verify, bulk) == [verify |-> verify, acceptBulkPayment |-> bulk]
KioskSettings == {Setting("none", FALSE), Setting("pin", TRUE), Setting("password", TRUE)}
BulkOnly == {Setting("none", TRUE)}

Fee(b, cg, amount, secret) == [aa |-> b, cg |-> cg, amount |-> amount, secret |-> secret]

(* With and without a CG, above and below what is owed.                     *)
Payments ==
  {Fee(card1, NoAccount, 3, NoPatron), Fee(card1, fine1, 1, NoPatron)}

(* Any card with any CG and anybody's secret, and requests that are invalid.*)
Identities ==
  {Fee(b, cg, 1, p) : b \in {card1, card2}, cg \in {NoAccount, fine1, cyds},
                      p \in {ann, bob, cyd}}
    \cup {Fee(NoBarcode, fine1, 1, ann), Fee(card1, fine1, 0, ann),
          Fee(card1, NotUuid, 1, ann), Fee(card1, fine1, 1, NoPatron)}

ConnSymmetry == Permutations(Conns)

Overpaid == {Fee(card1, fine1, 3, NoPatron)}
===========================================================================
