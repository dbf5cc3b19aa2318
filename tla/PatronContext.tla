--------------------------- MODULE PatronContext ---------------------------
(***************************************************************************)
(* The patron a device's session remembers between messages, and the two   *)
(* steps that 11, 29, 37 and 65 share: taking the patron from the session  *)
(* or looking the barcode up in FOLIO, and verifying the PIN or password.  *)
(*                                                                         *)
(* A user id is a UUID and names a patron of one tenant; a barcode is what *)
(* is printed on a card, so two tenants may share one.  A secret is named  *)
(* by the patron whose secret it is.                                       *)
(***************************************************************************)
CONSTANTS
  Tenants, Barcodes, Patrons,
  NoPatron,    \* no patron id, an empty PIN or password
  NoBarcode,   \* an absent AA
  Home,        \* Home[p]: the tenant of patron p
  Card,        \* Card[t][b]: the user of tenant t with barcode b
  Settings     \* what a tenant may be configured to: verify, and more

ASSUME CardAssumption ==
  /\ NoPatron \notin Patrons
  /\ NoBarcode \notin Barcodes
  /\ Home \in [Patrons -> Tenants]
  /\ Card \in [Tenants -> [Barcodes -> Patrons \cup {NoPatron}]]
  /\ \A t \in Tenants, b \in Barcodes : Card[t][b] \in Patrons => Home[Card[t][b]] = t
  /\ \A s \in Settings : s.verify \in {"none", "pin", "password"}

(* The fields of types.Session that hold the patron, and the tenant that    *)
(* the device logged in to with the settings it had at that moment.         *)
Session == [tenant : Tenants, settings : Settings,
            patronID : Patrons \cup {NoPatron}, patronBarcode : Barcodes \cup {NoBarcode}]

NewSessions == {s \in Session : s.patronID = NoPatron /\ s.patronBarcode = NoBarcode}

(* Mutant: any remembered patron will do, whatever card is presented. *)
CachedAnyCard(s, barcode) == s.patronID # NoPatron

(* The remembered id answers for this barcode. *)
Cached(s, barcode) == s.patronID # NoPatron /\ s.patronBarcode = barcode

Remember(s, id, barcode) == [s EXCEPT !.patronID = id, !.patronBarcode = barcode]

ClearPatron(s) == Remember(s, NoPatron, NoBarcode)

(* The lookup by barcode in the device's tenant: none or several is an error. *)
GetUserByBarcode(s, barcode) == Card[s.tenant][barcode]

(* Mutant: an empty PIN or password is not verified. *)
VerifiesUnlessEmpty(s, userID, barcode, secret) ==
  \/ s.settings.verify = "none" \/ secret = NoPatron
  \/ s.settings.verify = "pin" /\ secret = userID
  \/ s.settings.verify = "password" /\ secret = Card[s.tenant][barcode]

(* What verification concludes when its FOLIO call is answered: the PIN is  *)
(* checked against the user id, the password against the barcode, both by  *)
(* the tenant the device is logged in to.                                  *)
Verifies(s, userID, barcode, secret) ==
  \/ s.settings.verify = "none"
  \/ s.settings.verify = "pin" /\ secret # NoPatron /\ secret = userID /\ Home[userID] = s.tenant
  \/ s.settings.verify = "password" /\ secret # NoPatron /\ secret = Card[s.tenant][barcode]

(* How the lookup may end: the patron and the session afterwards, NoPatron  *)
(* when FOLIO knows none or does not answer.  The session learns the patron *)
(* before anything is verified.                                            *)
Identified(s, barcode) ==
  IF Cached(s, barcode) THEN {[patronID |-> s.patronID, session |-> s]}
  ELSE {[patronID |-> NoPatron, session |-> s]}
         \cup {[patronID |-> p, session |-> Remember(s, p, barcode)] :
                 p \in {GetUserByBarcode(s, barcode)} \ {NoPatron}}

(* How the verification may end: a FOLIO call that fails does not verify.   *)
Verified(s, userID, barcode, secret) ==
  IF s.settings.verify = "none" THEN {TRUE}
  ELSE {FALSE, Verifies(s, userID, barcode, secret)}

(* 93 may move the device to another tenant, or to one whose settings are   *)
(* new; the patron is not forgotten.                                       *)
MovedTo(s, tenant, settings) == [s EXCEPT !.tenant = tenant, !.settings = settings]
===========================================================================
