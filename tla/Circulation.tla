----------------------------- MODULE Circulation -----------------------------
(***************************************************************************)
(* 11 Checkout, 09 Checkin, 29 Renew and 65 Renew All: what the handlers    *)
(* ask of FOLIO, what FOLIO does to the items, and what the device is told. *)
(*                                                                         *)
(* One handler per connection; every FOLIO call is a step, between which    *)
(* other devices and staff act, and any call may fail or be answered too    *)
(* late.  Of an item, FOLIO's record is its status, its open loan, and the  *)
(* request it is set aside for.  Items, like patrons, belong to one tenant. *)
(***************************************************************************)
EXTENDS PatronContext, Naturals, FiniteSets

CONSTANTS
  Conns,
  Items,
  ItemHome,     \* ItemHome[i]: the tenant of item i
  NoItem,       \* an absent AB
  MaxRenewals,  \* how often FOLIO renews a loan
  MaxItems,     \* GetRenewAllMaxItems
  Records,      \* the item records FOLIO may hold
  Requests      \* the messages devices send

Statuses == {"Available", "Checked out", "Claimed returned", "In transit", "Awaiting pickup"}

(* set is the type of the request an item is set aside for; away says that  *)
(* the item has to travel, to the pickup point or home.                     *)
ItemRecord ==
  [status : Statuses, borrower : Patrons \cup {NoPatron}, renewals : 0..MaxRenewals,
   request : {"none", "Hold", "Page"}, away : BOOLEAN]

Request == [code : {"09", "11", "29", "65"}, aa : Barcodes \cup {NoBarcode},
            ab : Items \cup {NoItem}, secret : Patrons \cup {NoPatron}]

ASSUME CirculationAssumption ==
  /\ NoItem \notin Items
  /\ ItemHome \in [Items -> Tenants]
  /\ MaxRenewals \in Nat /\ MaxItems \in Nat \ {0}
  /\ Records \subseteq ItemRecord
  /\ Requests \subseteq Request
  /\ \A s \in Settings : s.claimedReturnedResolution \in {"none", "patron", "library"}

VARIABLES
  item,      \* FOLIO's item records
  session,   \* session[c]: the patron fields of the device's session
  handler    \* handler[c]: the message being handled, or how it was answered

vars == <<item, session, handler>>

OnLoan(i) == item[i].status \in {"Checked out", "Claimed returned"}

NoRequest == [code |-> "09", aa |-> NoBarcode, ab |-> NoItem, secret |-> NoPatron]

(* A handler with nothing done for its message yet.                        *)
(*   todo      the loans 65 has still to renew                             *)
(*   seen      the item as read after the checkin                          *)
(*   done[i]   how often FOLIO did for i what was asked of it               *)
(*   lost      the items whose answer was lost                             *)
(*   answer    what the device is told; for 65, which items                 *)
Fresh(pc, request) ==
  [pc |-> pc, req |-> request, patronID |-> NoPatron, todo |-> {},
   seen |-> [status |-> "Available", request |-> "none"],
   done |-> [i \in Items |-> 0], lost |-> {}, failed |-> FALSE,
   answer |-> [ok |-> "none", alert |-> "", renewed |-> {}, unrenewed |-> {}]]

(* FOLIO lends an item to users of its own tenant. *)
RecordsOf(i) == {r \in Records : r.borrower = NoPatron \/ Home[r.borrower] = ItemHome[i]}

Init ==
  /\ item \in {record \in [Items -> Records] : \A i \in Items : record[i] \in RecordsOf(i)}
  /\ session \in [Conns -> NewSessions]
  /\ handler = [c \in Conns |-> Fresh("idle", NoRequest)]

---------------------------------------------------------------------------
(* FOLIO.  An item is in reach of a session of its own tenant only.         *)

Reaches(s, i) == i \in Items /\ ItemHome[i] = s.tenant

LentTo(r, p) ==
  [r EXCEPT !.status = "Checked out", !.borrower = p, !.renewals = 0, !.request = "none",
            !.away = FALSE]

Returned(r) ==
  [r EXCEPT !.status = IF r.away THEN "In transit"
                       ELSE IF r.request = "none" THEN "Available" ELSE "Awaiting pickup",
            !.borrower = NoPatron, !.renewals = 0]

Lendable(r) == r.status \in {"Available", "Awaiting pickup"}

(* A claimed return is only checked in with a resolution, and none is a     *)
(* configured value that is sent as no resolution.                         *)
Returnable(r, resolution) == r.status = "Claimed returned" => resolution # "none"

(* Mutant: a tenant without a resolution gets the library's. *)
ResolutionOrLibrary(s) ==
  IF s.settings.claimedReturnedResolution = "patron" THEN "patron" ELSE "library"

Resolution(s) == s.settings.claimedReturnedResolution

Renewable(r, p) == r.status = "Checked out" /\ r.borrower = p /\ r.renewals < MaxRenewals

---------------------------------------------------------------------------
(* The handlers. *)

At(c, pc) == handler[c].pc = pc

Goto(c, pc) == handler' = [handler EXCEPT ![c].pc = pc]

Answer(h, ok) == [h EXCEPT !.pc = "idle", !.answer.ok = ok]

Refuse(c) == handler' = [handler EXCEPT ![c] = Answer(@, "N")]

Did(h, i) == [h EXCEPT !.done[i] = @ + 1]

(* Required fields, for 09 and 11 the service point of the login, and the   *)
(* service account's token: without one of them the answer is N.            *)
Receive(c) ==
  \E r \in Requests :
    /\ At(c, "idle")
    /\ \/ /\ r.code # "65" => r.ab # NoItem
          /\ r.code # "09" => r.aa # NoBarcode
          /\ handler' = [handler EXCEPT ![c] =
                           Fresh(IF r.code = "09" THEN "claimed" ELSE "identify", r)]
       \/ handler' = [handler EXCEPT ![c] = Answer(Fresh("idle", r), "N")]
    /\ UNCHANGED <<item, session>>

Identify(c) ==
  /\ At(c, "identify")
  /\ \E found \in Identified(session[c], handler[c].req.aa) :
       /\ session' = [session EXCEPT ![c] = found.session]
       /\ IF found.patronID = NoPatron THEN Refuse(c)
          ELSE handler' = [handler EXCEPT ![c].pc = "verify", ![c].patronID = found.patronID]
  /\ UNCHANGED item

Verify(c) ==
  LET h == handler[c] IN
  /\ At(c, "verify")
  /\ \E verified \in Verified(session[c], h.patronID, h.req.aa, h.req.secret) :
       IF verified THEN Goto(c, IF h.req.code = "65" THEN "loans" ELSE "post") ELSE Refuse(c)
  /\ UNCHANGED <<item, session>>

(* Mutant: an answer that came with nothing but an error is a success. *)
CheckoutTakesAll(c) ==
  /\ At(c, "post") /\ handler[c].req.code = "11"
  /\ handler' = [handler EXCEPT ![c] = Answer(@, "Y")]
  /\ UNCHANGED <<item, session>>

(* 11 lends to whoever holds the barcode, not to the remembered patron.     *)
(* Once FOLIO has answered, nothing that fails makes it a 12N.              *)
Checkout(c) ==
  LET h == handler[c]
      i == h.req.ab
      s == session[c]
      p == GetUserByBarcode(s, h.req.aa)
  IN /\ At(c, "post") /\ h.req.code = "11"
     /\ \/ /\ p # NoPatron /\ Reaches(s, i) /\ Lendable(item[i])
           /\ item' = [item EXCEPT ![i] = LentTo(@, p)]
           /\ \/ handler' = [handler EXCEPT ![c] = Answer(Did(h, i), "Y")]
              \/ handler' = [handler EXCEPT ![c] = Answer([Did(h, i) EXCEPT !.lost = {i}], "N")]
        \/ Refuse(c) /\ UNCHANGED item
     /\ UNCHANGED session

(* 29 renews the loan that the holder of the barcode has of the item.       *)
Renew(c) ==
  LET h == handler[c]
      i == h.req.ab
      s == session[c]
      p == GetUserByBarcode(s, h.req.aa)
  IN /\ At(c, "post") /\ h.req.code = "29"
     /\ \/ /\ p # NoPatron /\ Reaches(s, i) /\ Renewable(item[i], p)
           /\ item' = [item EXCEPT ![i].renewals = @ + 1]
           /\ \/ handler' = [handler EXCEPT ![c] = Answer(Did(h, i), "Y")]
              \/ handler' = [handler EXCEPT ![c] = Answer([Did(h, i) EXCEPT !.lost = {i}], "N")]
        \/ Refuse(c) /\ UNCHANGED item
     /\ UNCHANGED session

(* 65: the open loans of the remembered patron, the first MaxItems of them  *)
(* in whatever order FOLIO lists them.                                     *)
OpenLoans(s, userID) == {i \in Items : Reaches(s, i) /\ OnLoan(i) /\ item[i].borrower = userID}

FirstLoans(loans) ==
  IF Cardinality(loans) <= MaxItems THEN {loans}
  ELSE {first \in SUBSET loans : Cardinality(first) = MaxItems}

GetLoans(c) ==
  LET h == handler[c] IN
  /\ At(c, "loans")
  /\ \/ \E first \in FirstLoans(OpenLoans(session[c], h.patronID)) :
          handler' = [handler EXCEPT ![c].pc = "renewing", ![c].todo = first]
     \/ Refuse(c)
  /\ UNCHANGED <<item, session>>

(* One renewal; an error of it, whatever it was, does not stop the others.  *)
RenewOne(c) ==
  LET h == handler[c]
      Over(g, i, list) == [g EXCEPT !.todo = @ \ {i}, !.answer[list] = @ \cup {i}]
  IN /\ At(c, "renewing")
     /\ \E i \in h.todo :
          \/ /\ Reaches(session[c], i) /\ Renewable(item[i], h.patronID)
             /\ item' = [item EXCEPT ![i].renewals = @ + 1]
             /\ \/ handler' = [handler EXCEPT ![c] = Over(Did(h, i), i, "renewed")]
                \/ handler' = [handler EXCEPT ![c] =
                     [Over(Did(h, i), i, "unrenewed") EXCEPT !.lost = @ \cup {i}]]
          \/ /\ handler' = [handler EXCEPT ![c] = Over(h, i, "unrenewed")]
             /\ UNCHANGED item
     /\ UNCHANGED session

RenewAllOK(h) == IF h.answer.renewed # {} THEN "Y" ELSE "N"

AnswerRenewAll(c) ==
  /\ At(c, "renewing") /\ handler[c].todo = {}
  /\ handler' = [handler EXCEPT ![c] = Answer(@, RenewAllOK(@))]
  /\ UNCHANGED <<item, session>>

(* 09 first looks whether the item is claimed returned, and goes on when    *)
(* it cannot tell.                                                         *)
CheckClaimed(c) ==
  LET h == handler[c]
      i == h.req.ab
      blocked == Reaches(session[c], i) /\ item[i].status = "Claimed returned"
                 /\ session[c].settings.claimedReturnedResolution = "none"
  IN /\ At(c, "claimed")
     /\ \/ blocked /\ Refuse(c)
        \/ Goto(c, "checkin")
     /\ UNCHANGED <<item, session>>

Checkin(c) ==
  LET h == handler[c]
      i == h.req.ab
  IN /\ At(c, "checkin")
     /\ \/ /\ Reaches(session[c], i)
           /\ Returnable(item[i], Resolution(session[c]))
           /\ item' = [item EXCEPT ![i] = Returned(@)]
           /\ \/ handler' = [handler EXCEPT ![c] = [Did(h, i) EXCEPT !.pc = "item"]]
              \/ handler' = [handler EXCEPT ![c] = Answer([Did(h, i) EXCEPT !.lost = {i}], "N")]
        \/ Refuse(c) /\ UNCHANGED item
     /\ UNCHANGED session

(* The item as it is now, for the response; without it, only the barcode.   *)
FetchItem(c) ==
  LET h == handler[c]
      i == h.req.ab
  IN /\ At(c, "item")
     /\ \/ handler' = [handler EXCEPT ![c].pc = "requests",
                         ![c].seen = [@ EXCEPT !.status = item[i].status]]
        \/ handler' = [handler EXCEPT ![c] = [Answer(@, "Y") EXCEPT !.failed = TRUE]]
     /\ UNCHANGED <<item, session>>

CalculateAlertType(inTransit, hasHoldOrRecall) ==
  IF ~inTransit THEN IF hasHoldOrRecall THEN "01" ELSE ""
  ELSE IF hasHoldOrRecall THEN "02" ELSE "04"

(* Mutant: the item's own status is forgotten. *)
AlertTypeOfRequest(status, request) ==
  CalculateAlertType(status = "In transit", request = "Hold")

AlertType(status, request) ==
  CalculateAlertType(status = "In transit", status = "Awaiting pickup" \/ request = "Hold")

(* The requests that the item travels or waits for.  They are read after    *)
(* the item; when that fails the answer knows of none.                      *)
FetchRequests(c) ==
  LET h == handler[c]
      i == h.req.ab
      Told(request, failed) ==
        [Answer(h, "Y") EXCEPT !.answer.alert = AlertType(h.seen.status, request),
                               !.seen.request = request, !.failed = failed]
  IN /\ At(c, "requests")
     /\ \/ handler' = [handler EXCEPT ![c] =
             Told(IF item[i].status \in {"In transit", "Awaiting pickup"}
                  THEN item[i].request ELSE "none", FALSE)]
        \/ handler' = [handler EXCEPT ![c] = Told("none", TRUE)]
     /\ UNCHANGED <<item, session>>

---------------------------------------------------------------------------
(* The device's other messages, and everybody else. *)

EndPatronSession(c) ==
  /\ At(c, "idle")
  /\ session' = [session EXCEPT ![c] = ClearPatron(@)]
  /\ UNCHANGED <<item, handler>>

Login(c) ==
  \E t \in Tenants \ {session[c].tenant}, s \in Settings :
    /\ At(c, "idle")
    /\ session' = [session EXCEPT ![c] = MovedTo(@, t, s)]
    /\ UNCHANGED <<item, handler>>

(* Staff lend, return, declare a claim, place or cancel a request, or move  *)
(* the item.                                                               *)
Staff(i) ==
  \E r \in RecordsOf(i) \ {item[i]} :
    /\ item' = [item EXCEPT ![i] = r]
    /\ UNCHANGED <<session, handler>>

Next ==
  \/ \E c \in Conns :
       \/ Receive(c) \/ Identify(c) \/ Verify(c)
       \/ Checkout(c) \/ Renew(c)
       \/ GetLoans(c) \/ RenewOne(c) \/ AnswerRenewAll(c)
       \/ CheckClaimed(c) \/ Checkin(c) \/ FetchItem(c) \/ FetchRequests(c)
       \/ EndPatronSession(c) \/ Login(c)
  \/ \E i \in Items : Staff(i)

Spec == Init /\ [][Next]_vars

---------------------------------------------------------------------------
(* Properties. *)

Handler ==
  [pc : {"idle", "identify", "verify", "post", "loans", "renewing", "claimed", "checkin",
         "item", "requests"},
   req : Request, patronID : Patrons \cup {NoPatron}, todo : SUBSET Items,
   seen : [status : Statuses, request : {"none", "Hold", "Page"}],
   done : [Items -> Nat], lost : SUBSET Items, failed : BOOLEAN,
   answer : [ok : {"none", "Y", "N"}, alert : {"", "01", "02", "04"},
             renewed : SUBSET Items, unrenewed : SUBSET Items]]

(* Every variable keeps to its type. *)
TypeOK ==
  /\ item \in [Items -> ItemRecord]
  /\ session \in [Conns -> Session]
  /\ handler \in [Conns -> Handler]

(* FOLIO does for i what the message of c asked. *)
Acts(c, i) == handler'[c].done[i] > handler[c].done[i]

Holder(c) == Card[session[c].tenant][handler[c].req.aa]

(* What 11, 29 and 65 lend or renew is lent to the patron who holds the     *)
(* card presented, whichever patron or tenant the session remembers         *)
(* (checkout.go:79-103, renew_all.go:65-91).                                *)
ActsForHolder ==
  \A c \in Conns, i \in Items :
    Acts(c, i) /\ handler[c].req.code # "09" => item'[i].borrower = Holder(c)
OwnLoansOnly == [][ActsForHolder]_vars

(* Where patrons are verified, the patron whose PIN or password was checked *)
(* is the one who borrows, although the PIN is checked against a remembered *)
(* user id and the loan is made by barcode (verification.go:94, 135;        *)
(* checkout.go:129-134).                                                   *)
ActsForProven ==
  \A c \in Conns, i \in Items :
    Acts(c, i) /\ handler[c].req.code # "09" =>
      session[c].settings.verify = "none" \/ handler[c].req.secret = item'[i].borrower
ProvenPatronOnly == [][ActsForProven]_vars

(* Once answered, what the device is told was done is what FOLIO did, once, *)
(* except for the items whose answers were lost: those the device is told   *)
(* were not done (checkout.go:136-146, renew_all.go:146-191).               *)
AnswerIsTrue ==
  \A c \in Conns :
    LET h == handler[c]
        told == IF h.req.code = "65" THEN h.answer.renewed
                ELSE IF h.answer.ok = "Y" THEN {h.req.ab} ELSE {}
    IN h.answer.ok # "none" =>
         \A i \in Items : h.done[i] = IF i \in told \cup h.lost THEN 1 ELSE 0

(* Where claimed returns are not to be resolved at a device, a checkin      *)
(* never ends one, not when the item was claimed after the look at it, nor  *)
(* when it could not be looked at (checkin.go:96-125, config.go:752-760).   *)
ClaimOutlivesCheckin ==
  \A c \in Conns, i \in Items :
    Acts(c, i) /\ handler[c].req.code = "09" /\ item[i].status = "Claimed returned" =>
      session[c].settings.claimedReturnedResolution # "none"
ClaimsAreKept == [][ClaimOutlivesCheckin]_vars

(* The alert that a checkin gives, when both reads succeed and nobody moves *)
(* the item between them, is the one that the state of the item calls for   *)
(* (checkin.go:349-352, 433-453; field_mapping.md:107-114).                 *)
DueAlert(r) ==
  IF r.status = "Awaiting pickup" THEN "01"
  ELSE IF r.status # "In transit" THEN ""
  ELSE IF r.request = "Hold" THEN "02" ELSE "04"

AlertsAsDue ==
  \A c \in Conns :
    LET i == handler[c].req.ab IN
    /\ At(c, "requests") /\ handler'[c].pc = "idle" /\ ~handler'[c].failed
    /\ handler[c].seen.status = item[i].status
    => handler'[c].answer.alert = DueAlert(item[i])
AlertMatchesItem == [][AlertsAsDue]_vars

(* field_mapping.md:111: the alert is 01 when a "Hold exists, not in        *)
(* transit".                                                               *)
AlertsIfHeld ==
  \A c \in Conns :
    LET i == handler[c].req.ab IN
    /\ handler[c].pc \in {"item", "requests"} /\ handler'[c].answer.ok = "Y"
    /\ item[i].status = "Awaiting pickup"
    => handler'[c].answer.alert = "01"
HeldItemAlerts == [][AlertsIfHeld]_vars

(* field_mapping.md:886: OK of 66 is "All renewals successful".             *)
OKMeansAllRenewed ==
  \A c \in Conns :
    handler[c].req.code = "65" /\ handler[c].answer.ok = "Y" => handler[c].answer.unrenewed = {}

(* What BM carries. *)
RenewedField(h) == {Cardinality(h.answer.renewed)}

(* field_mapping.md:892: BM is "Renewed item barcodes (repeatable)".        *)
RenewedItemsListed ==
  \A c \in Conns :
    handler[c].req.code = "65" /\ handler[c].answer.ok = "Y" =>
      RenewedField(handler[c]) = handler[c].answer.renewed

(* field_mapping.md:905: 65 starts with "Fetch all open loans for patron".  *)
GetsHoldersLoans ==
  \A c \in Conns :
    /\ At(c, "loans") /\ handler'[c].pc = "renewing"
    /\ OpenLoans(session[c], Holder(c)) # {}
    => handler'[c].todo # {}
HoldersLoansFetched == [][GetsHoldersLoans]_vars
===========================================================================
