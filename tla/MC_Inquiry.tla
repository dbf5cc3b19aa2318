---------------------------- MODULE MC_Inquiry ----------------------------
(* Instances of Inquiry for TLC. *)
EXTENDS Inquiry, TLC

CONSTANTS city, card1, ann, students, h1, h2, l1, l2, f1, b1, b2

HomeOf == [p \in {ann} |-> city]
CardOf == [t \in {city} |-> [b \in {card1} |-> ann]]

(* The documented window and extension, and two in which the days of a      *)
(* month are all that keeps the extension from being the shorter one.       *)
Days(n) == [value |-> n, period |-> "D"]
Months(n) == [value |-> n, period |-> "M"]
Years(n) == [value |-> n, period |-> "Y"]
Renewal(within, for, expired, limit) ==
  [enabled |-> TRUE, renewWithin |-> within, extendFor |-> for, extendExpired |-> expired,
   extendExpiredLimits |-> limit, dryRun |-> FALSE, groups |-> {students}]
Documented ==
  [verify |-> "pin", renewal |-> Renewal(Months(6), Years(6), TRUE, NoDate),
   patronItemsLimit |-> 1, listsUnavailable |-> FALSE]
Reviving ==
  [verify |-> "pin", renewal |-> Renewal(Months(1), Days(31), TRUE, Months(1)),
   patronItemsLimit |-> 1, listsUnavailable |-> FALSE]
Keeping ==
  [verify |-> "none", renewal |-> Renewal(Days(28), Months(1), FALSE, NoDate),
   patronItemsLimit |-> 0, listsUnavailable |-> TRUE]

KioskSettings == {Documented, Reviving, Keeping}

(* The calendar begins in 2022.  From January 31, 2023, day 395, a month    *)
(* reaches to March 3, from February 1 to March 1.                          *)
March(d) == 395 + 28 + d
January(d) == 365 + d - 1
User(active, expires, note) ==
  [active |-> active, expires |-> expires, group |-> students, note |-> note]

(* What staff may write, and what another device has renewed may look like. *)
StaffRecords ==
  {User(TRUE, March(1), 0), User(TRUE, March(3), 0), User(FALSE, January(21), 1)}

(* Two of everything that a limit may cut, one of them with a name to be    *)
(* listed by.  Of the account, h1 comes to the shelf, l2 falls due, f1 is   *)
(* paid and b1 lifted.                                                      *)
Entry_(kind, label, denies) == [kind |-> kind, label |-> label, denies |-> denies]
Before ==
  (h1 :> Entry_("waiting", "instance", {}) @@ h2 :> Entry_("ready", "barcode", {}) @@
   l1 :> Entry_("overdue", "barcode", {}) @@ l2 :> Entry_("lent", "none", {}) @@
   f1 :> Entry_("owed", "none", {}) @@
   b1 :> Entry_("manual", "none", {"renew"}) @@ b2 :> Entry_("automated", "none", {"borrow"}))
After_ ==
  (h1 :> Entry_("ready", "barcode", {}) @@ l2 :> Entry_("overdue", "none", {}) @@
   f1 :> Entry_("none", "none", {}) @@ b1 :> Entry_("none", "none", {})) @@ Before

KioskAccounts == {Before, After_}

Say(code, p, asks) == [code |-> code, aa |-> card1, secret |-> p, asks |-> asks]
Inquiries ==
  {Say("23", NoPatron, {}), Say("63", ann, Columns), Say("63", ann, {"overdue"})}
============================================================================
