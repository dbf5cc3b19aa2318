----------------------------- MODULE FeePayment -----------------------------
(***************************************************************************)
(* 37 Fee Paid: a payment to one account, or one bulk payment to all the   *)
(* open accounts of the patron, made with FOLIO calls between which other  *)
(* devices, staff and FOLIO itself change the accounts, and any of which   *)
(* may fail or be answered too late.                                       *)
(*                                                                         *)
(* One handler per connection, one request at a time; every FOLIO call is  *)
(* a step.  Amounts are whole cents.                                       *)
(***************************************************************************)
EXTENDS PatronContext, Naturals, Functions, FiniteSets

CONSTANTS
  Conns,
  Accounts,
  Owner,       \* Owner[a]: the userId of account a
  NotUuid,     \* a CG that FOLIO could not have issued
  NoAccount,   \* an absent CG
  MaxOwed,     \* bound on what an account may owe
  Requests     \* the 37 messages that devices send

Request == [aa : Barcodes \cup {NoBarcode}, cg : Accounts \cup {NotUuid, NoAccount},
            amount : Nat, secret : Patrons \cup {NoPatron}]

ASSUME PaymentAssumption ==
  /\ IsFiniteSet(Accounts)
  /\ NotUuid \notin Accounts /\ NoAccount \notin Accounts /\ NotUuid # NoAccount
  /\ Owner \in [Accounts -> Patrons]
  /\ MaxOwed \in Nat
  /\ \A s \in Settings : s.acceptBulkPayment \in BOOLEAN
  /\ Requests \subseteq Request

VARIABLES
  account,   \* FOLIO's accounts: what is owed, and claim-returned suspension
  session,   \* session[c]: the patron fields of the device's session
  handler    \* handler[c]: the request being handled, or its answer

vars == <<account, session, handler>>

Sum(f) == SumFunctionOnSet(f, DOMAIN f)

(* The eligible accounts of a user as the tenant of session s knows them:   *)
(* open, which FOLIO ends when nothing is owed, and not suspended.          *)
EligibleAccounts(s, userID) ==
  {a \in Accounts : /\ Owner[a] = userID /\ Home[userID] = s.tenant
                    /\ account[a].owed > 0 /\ ~account[a].suspended}

Unpaid == [a \in Accounts |-> 0]
Unreported == [a \in Accounts |-> [remaining |-> 0, applied |-> 0]]

(* What a GET saw: the balances of the accounts in s, all of them open.     *)
Read(s) == [a \in Accounts |-> IF a \in s THEN account[a].owed ELSE 0]
Listed(h) == {a \in Accounts : h.read[a] > 0}

Nobody == [aa |-> NoBarcode, cg |-> NoAccount, amount |-> 0, secret |-> NoPatron]

(* A handler with nothing done for its request yet. *)
Fresh(pc, request) ==
  [pc |-> pc, req |-> request, patronID |-> NoPatron, read |-> Unpaid, bulk |-> FALSE,
   posts |-> 0, applied |-> Unpaid, outcome |-> "none", reported |-> Unreported]

Init ==
  /\ account \in [Accounts -> [owed : 0..MaxOwed, suspended : {FALSE}]]
  /\ session \in [Conns -> NewSessions]
  /\ handler = [c \in Conns |-> Fresh("idle", Nobody)]

---------------------------------------------------------------------------
(* The handler. *)

At(c, pc) == handler[c].pc = pc

Goto(c, pc) == handler' = [handler EXCEPT ![c].pc = pc]

(* 38N; why tells the properties what FOLIO did. *)
Refuse(c, why) == handler' = [handler EXCEPT ![c].pc = "idle", ![c].outcome = why]

(* Where the handler goes once the patron is known and verified, and the   *)
(* CG, if any, turned out not to be payable.                               *)
BulkOrRefuse(c) ==
  IF session[c].settings.acceptBulkPayment THEN Goto(c, "list") ELSE Refuse(c, "refused")

(* Required fields, amount and the service account's token; a failure of   *)
(* any is a 38N.                                                           *)
Receive(c) ==
  \E r \in Requests :
    /\ At(c, "idle")
    /\ \/ /\ r.aa # NoBarcode /\ r.amount > 0
          /\ handler' = [handler EXCEPT ![c] = Fresh("identify", r)]
       \/ handler' = [handler EXCEPT ![c] = [Fresh("idle", r) EXCEPT !.outcome = "refused"]]
    /\ UNCHANGED <<account, session>>

Identify(c) ==
  /\ At(c, "identify")
  /\ \E found \in Identified(session[c], handler[c].req.aa) :
       /\ session' = [session EXCEPT ![c] = found.session]
       /\ IF found.patronID = NoPatron THEN Refuse(c, "refused")
          ELSE handler' = [handler EXCEPT ![c].pc = "verify", ![c].patronID = found.patronID]
  /\ UNCHANGED account

Verify(c) ==
  LET h == handler[c] IN
  /\ At(c, "verify")
  /\ \E verified \in Verified(session[c], h.patronID, h.req.aa, h.req.secret) :
       IF ~verified THEN Refuse(c, "refused")
       ELSE IF h.req.cg = NoAccount THEN BulkOrRefuse(c)
       ELSE Goto(c, "check")
  /\ UNCHANGED <<account, session>>

(* GetEligibleAccountByID: open, not suspended, and the patron's.  A CG    *)
(* that is no UUID is not asked about.                                     *)
Check(c) ==
  LET h == handler[c]
      cg == h.req.cg
      payable == cg \in EligibleAccounts(session[c], h.patronID)
  IN /\ At(c, "check")
     /\ \/ payable /\ handler' = [handler EXCEPT ![c].pc = "pay", ![c].read = Read({cg})]
        \/ ~payable /\ BulkOrRefuse(c)
        \/ cg # NotUuid /\ Refuse(c, "refused")
     /\ UNCHANGED <<account, session>>

(* GetOpenAccountsExcludingSuspended. *)
List(c) ==
  LET found == EligibleAccounts(session[c], handler[c].patronID)
  IN /\ At(c, "list")
     /\ \/ /\ found # {}
           /\ handler' = [handler EXCEPT ![c].pc = "pay", ![c].read = Read(found),
                                         ![c].bulk = TRUE]
        \/ Refuse(c, "refused")
     /\ UNCHANGED <<account, session>>

(* Mutant: the BV as it is. *)
ChargeUncapped(h) == h.req.amount

(* What is asked of FOLIO: a bulk payment is capped to what was read.       *)
Charge(h) ==
  IF h.bulk /\ h.req.amount > Sum(h.read) THEN Sum(h.read) ELSE h.req.amount

(* num / den printed with two decimals.                                    *)
Cents(num, den) == (2 * num + den) \div (2 * den)

(* Mutant: every account is reported to have taken the whole amount. *)
ReportUndivided(h, after) ==
  [a \in Accounts |-> IF a \notin Listed(h) THEN Unreported[a]
                      ELSE [remaining |-> after[a].owed, applied |-> Charge(h)]]

(* FA and FG of 38Y.  FOLIO tells what is left of a single account; after a *)
(* bulk payment both are computed from the accounts read before it, as if   *)
(* every account had taken the same share.                                 *)
Report(h, after) ==
  LET n == Cardinality(Listed(h))
      rest(a) == IF n * h.read[a] < Charge(h) THEN 0 ELSE Cents(n * h.read[a] - Charge(h), n)
  IN  [a \in Accounts |->
         IF a \notin Listed(h) THEN Unreported[a]
         ELSE IF h.bulk THEN [remaining |-> rest(a), applied |-> Cents(Charge(h), n)]
         ELSE [remaining |-> after[a].owed, applied |-> h.req.amount]]

(* FOLIO spreads a bulk payment over the accounts as it sees fit, and never *)
(* takes more than is owed.                                                *)
Distributions(h) ==
  {d \in [Accounts -> 0..Charge(h)] :
     /\ Sum(d) = Charge(h)
     /\ \A a \in Accounts : d[a] <= IF a \in Listed(h) THEN account[a].owed ELSE 0}

Paid(h, d) ==
  [h EXCEPT !.posts = @ + 1, !.applied = [a \in Accounts |-> @[a] + d[a]]]

(* Mutant: a single payment that failed falls back to a bulk payment. *)
PayAppliedThenBulk(c) ==
  \E d \in Distributions(handler[c]) :
    LET h == handler[c] IN
    /\ At(c, "pay")
    /\ account' = [a \in Accounts |-> [account[a] EXCEPT !.owed = @ - d[a]]]
    /\ handler' = [handler EXCEPT ![c] =
         IF h.bulk THEN [Paid(h, d) EXCEPT !.pc = "idle", !.outcome = "lost"]
         ELSE [Paid(h, d) EXCEPT !.pc = "list", !.read = Unpaid]]
    /\ UNCHANGED session

(* Mutant: the CG's failure is answered, not the bulk payment made instead. *)
PayAppliedUnreported(c) ==
  \E d \in Distributions(handler[c]) :
    LET h == handler[c] IN
    /\ At(c, "pay")
    /\ account' = [a \in Accounts |-> [account[a] EXCEPT !.owed = @ - d[a]]]
    /\ handler' = [handler EXCEPT ![c] =
         [Paid(h, d) EXCEPT !.pc = "idle",
            !.outcome = IF h.bulk /\ h.req.cg # NoAccount THEN "refused" ELSE "accepted"]]
    /\ UNCHANGED session

(* The POST, applied, and answered in time or not.  A 38N follows an error  *)
(* and nothing else is tried.                                              *)
PayApplied(c) ==
  \E d \in Distributions(handler[c]) :
    LET h == handler[c]
        after == [a \in Accounts |-> [account[a] EXCEPT !.owed = @ - d[a]]]
    IN /\ At(c, "pay")
       /\ account' = after
       /\ \/ handler' = [handler EXCEPT ![c] =
                [Paid(h, d) EXCEPT !.pc = "idle", !.outcome = "accepted", !.reported = Report(h, after)]]
          \/ handler' = [handler EXCEPT ![c] = [Paid(h, d) EXCEPT !.pc = "idle", !.outcome = "lost"]]
       /\ UNCHANGED session

(* Mutant: the error of the POST is dropped. *)
PayRefusedUnnoticed(c) ==
  /\ At(c, "pay")
  /\ handler' = [handler EXCEPT ![c].pc = "idle", ![c].outcome = "accepted"]
  /\ UNCHANGED <<account, session>>

(* The POST, never delivered or refused, as it is when it exceeds what is   *)
(* owed.                                                                   *)
PayRefused(c) ==
  LET owed == Sum(Read(Listed(handler[c])))
  IN /\ At(c, "pay")
     /\ Refuse(c, IF Charge(handler[c]) > owed THEN "excess" ELSE "refused")
     /\ UNCHANGED <<account, session>>

---------------------------------------------------------------------------
(* What else happens: the device's other messages and everybody else who   *)
(* changes accounts.                                                       *)

(* 11, 29 and 65 identify the patron as 37 does.                           *)
Circulate(c) ==
  \E b \in Barcodes : \E found \in Identified(session[c], b) :
    /\ At(c, "idle")
    /\ session' = [session EXCEPT ![c] = found.session]
    /\ UNCHANGED <<account, handler>>

(* 35 forgets the patron. *)
EndPatronSession(c) ==
  /\ At(c, "idle")
  /\ session' = [session EXCEPT ![c] = ClearPatron(@)]
  /\ UNCHANGED <<account, handler>>

(* 93 may move the device to another tenant; the patron is not forgotten.  *)
Login(c) ==
  \E t \in Tenants \ {session[c].tenant}, s \in Settings :
    /\ At(c, "idle")
    /\ session' = [session EXCEPT ![c] = MovedTo(@, t, s)]
    /\ UNCHANGED <<account, handler>>

(* Staff charge, waive or take a payment; claim a return, or find the item. *)
Staff(a) ==
  /\ \/ \E owed \in 0..MaxOwed \ {account[a].owed} : account' = [account EXCEPT ![a].owed = owed]
     \/ account' = [account EXCEPT ![a].suspended = ~@]
  /\ UNCHANGED <<session, handler>>

Next ==
  \/ \E c \in Conns :
       \/ Receive(c) \/ Identify(c) \/ Verify(c) \/ Check(c) \/ List(c)
       \/ PayApplied(c) \/ PayRefused(c)
       \/ Circulate(c) \/ EndPatronSession(c) \/ Login(c)
  \/ \E a \in Accounts : Staff(a)

Spec == Init /\ [][Next]_vars

---------------------------------------------------------------------------
(* Properties. *)

Handler == [pc : {"idle", "identify", "verify", "check", "list", "pay"}, req : Request,
            patronID : Patrons \cup {NoPatron}, read : [Accounts -> Nat],
            bulk : BOOLEAN, posts : Nat, applied : [Accounts -> Nat],
            outcome : {"none", "refused", "excess", "lost", "accepted"},
            reported : [Accounts -> [remaining : Nat, applied : Nat]]]

(* Every variable keeps to its type. *)
TypeOK ==
  /\ account \in [Accounts -> [owed : Nat, suspended : BOOLEAN]]
  /\ session \in [Conns -> Session]
  /\ handler \in [Conns -> Handler]

Pays(c, a) == handler'[c].applied[a] > handler[c].applied[a]

(* Only the accounts of the patron who holds the card presented in AA, in   *)
(* the tenant the device is logged in to, are ever paid, whatever the CG    *)
(* names and whichever patron or tenant the session remembers from before   *)
(* (fee_paid.go:104-111, fees.go:69; fee_fines.md:139).                     *)
PaysOwnAccounts ==
  \A c \in Conns, a \in Accounts :
    Pays(c, a) => Owner[a] = Card[session[c].tenant][handler[c].req.aa]
OwnAccountsOnly == [][PaysOwnAccounts]_vars

(* Where the tenant wants patrons verified, nothing is paid unless the      *)
(* owner of the account gave the PIN or password, although a patron whose   *)
(* verification failed stays in the session (fee_paid.go:129-152).          *)
PayerIsProven ==
  \A c \in Conns, a \in Accounts :
    Pays(c, a) => session[c].settings.verify = "none" \/ handler[c].req.secret = Owner[a]
ProvenPayerOnly == [][PayerIsProven]_vars

(* One 37 is charged at most once and never more than its BV, although a    *)
(* POST whose answer is lost looks like one that failed, and a bulk payment *)
(* can follow a single one (fee_paid.go:161-187, 269-277).                  *)
OneCharge ==
  \A c \in Conns :
    /\ handler[c].posts <= 1
    /\ Sum(handler[c].applied) <= handler[c].req.amount

(* 38N means that nothing was paid, unless FOLIO's answer was lost.         *)
RefusedMeansUnpaid ==
  \A c \in Conns :
    handler[c].outcome \in {"refused", "excess"} => handler[c].applied = Unpaid

(* 38Y means that FOLIO took the whole BV, or all that the patron owed, and *)
(* that every account it took from is named in a CG (fee_paid.go:200-223).  *)
AcceptedMeansPaid ==
  \A c \in Conns :
    LET h == handler[c] IN
    h.outcome = "accepted" =>
      /\ Sum(h.applied) > 0
      /\ Sum(h.applied) = h.req.amount \/ (h.bulk /\ Sum(h.applied) = Sum(h.read))
      /\ \A a \in Accounts : h.applied[a] > 0 => a \in Listed(h)

(* The FG amounts of a 38Y add up to what was paid, to within the rounding  *)
(* of half a cent an account (fee_paid.go:358, 457).                        *)
ReportAddsUp ==
  \A c \in Conns :
    LET h == handler[c]
        fg == Sum([a \in Accounts |-> h.reported[a].applied])
        half == Cardinality(Listed(h))
    IN h.outcome = "accepted" =>
         /\ 2 * fg <= 2 * Sum(h.applied) + half
         /\ 2 * Sum(h.applied) <= 2 * fg + half

Excess(c) == handler'[c].outcome = "excess" /\ handler[c].outcome = "none"

AccountsChanged(c) ==
  \E a \in Listed(handler[c]) : account[a].owed # handler[c].read[a]

(* FOLIO refuses a bulk payment as an over-payment only when an account     *)
(* changed after it was read (fee_paid.go:317-324).                         *)
BulkIsCapped == \A c \in Conns : Excess(c) /\ handler[c].bulk => AccountsChanged(c)
BulkNeverExceeds == [][BulkIsCapped]_vars

(* How the request of a handler ended, for whoever balances the books.      *)
Told(h) ==
  CASE h.pc # "idle" -> "waiting"
    [] h.pc = "idle" /\ h.outcome = "accepted" -> "paid"
    [] h.pc = "idle" /\ h.outcome = "lost" -> "lost"
    [] OTHER -> "refused"

(* The books balance: whatever fails, is answered late or is tried next, no *)
(* account is debited but for one request that ends with it, a debit is the *)
(* sum that is recorded for that request, and all of it is one patron's     *)
(* (fee_paid.go:161-198, 269-277; fees.go:69).                              *)
Ledger == INSTANCE PaymentLedger WITH
  Devices <- Conns,
  owed <- [a \in Accounts |-> account[a].owed],
  asked <- [c \in Conns |-> handler[c].req.amount],
  taken <- [c \in Conns |-> handler[c].applied],
  told <- [c \in Conns |-> Told(handler[c])]
ImplementsLedger == Ledger!Spec

(* fee_fines.md:250 says it of every payment: "422 if amount exceeds balance *)
(* -- fsip2 prevents this by capping the amount before the request".         *)
EveryPaymentIsCapped == \A c \in Conns : Excess(c) => AccountsChanged(c)
NeverExceeds == [][EveryPaymentIsCapped]_vars

(* fee_fines.md:170: FG is the "Amount applied to this specific account".   *)
AppliedPerAccount ==
  \A c \in Conns :
    LET h == handler[c] IN
    h.outcome = "accepted" => \A a \in Listed(h) : h.reported[a].applied = h.applied[a]

(* fee_fines.md:192 says of the 38N that tells the patron to see staff: "All *)
(* payment attempts failed, or the CG account was not found or not          *)
(* eligible".                                                               *)
FailedMeansUnpaid ==
  \A c \in Conns :
    handler[c].outcome \in {"refused", "excess", "lost"} => handler[c].applied = Unpaid
===========================================================================
