--------------------------- MODULE PaymentLedger ---------------------------
(* What the library's books say of the payments made at devices, without    *)
(* sessions, cards, settings, reads and FOLIO calls.  A request asks for an *)
(* amount; money leaves the accounts for it once or not at all, all of it   *)
(* from accounts of one patron, never more than was asked for or is owed;   *)
(* and with that the request is over.  A request that is refused has moved  *)
(* nothing.  Whatever else changes an account is somebody else's doing.     *)
EXTENDS Naturals, Functions

CONSTANTS Devices,   \* the devices, one request at a time each
          Accounts,
          Owner      \* Owner[a]: whose account a is

VARIABLES owed,      \* owed[a]: what is owed on account a
          asked,     \* asked[d]: the amount that the last request of d asked for
          taken,     \* taken[d]: what each account gave for it
          told       \* told[d]: how the request ended
vars == <<owed, asked, taken, told>>

Nothing == [a \in Accounts |-> 0]
Total(t) == SumFunctionOnSet(t, DOMAIN t)

Init ==
  /\ owed \in [Accounts -> Nat]
  /\ asked = [d \in Devices |-> 0]
  /\ taken = [d \in Devices |-> Nothing]
  /\ told = [d \in Devices |-> "refused"]

(* The next request of a device, which may be refused at once.              *)
Asks(d) ==
  /\ told[d] # "waiting"
  /\ asked'[d] \in Nat /\ asked' = [asked EXCEPT ![d] = asked'[d]]
  /\ taken' = [taken EXCEPT ![d] = Nothing]
  /\ \E end \in {"waiting", "refused"} : told' = [told EXCEPT ![d] = end]
  /\ UNCHANGED owed

(* Money leaves the accounts.  The device learns of it, unless the answer   *)
(* is lost on the way.                                                      *)
Takes(d) ==
  LET t == taken'[d] IN
  /\ told[d] = "waiting"
  /\ t \in [Accounts -> Nat] /\ \A a \in Accounts : t[a] <= owed[a]
  /\ Total(t) \in 1..asked[d]
  /\ \A a, b \in Accounts : t[a] > 0 /\ t[b] > 0 => Owner[a] = Owner[b]
  /\ taken' = [taken EXCEPT ![d] = t]
  /\ owed' = [a \in Accounts |-> owed[a] - t[a]]
  /\ \E end \in {"paid", "lost"} : told' = [told EXCEPT ![d] = end]
  /\ UNCHANGED asked

Refuses(d) ==
  /\ told[d] = "waiting"
  /\ told' = [told EXCEPT ![d] = "refused"]
  /\ UNCHANGED <<owed, asked, taken>>

(* Staff and FOLIO charge, waive and collect. *)
Adjusts(a) ==
  /\ owed'[a] \in Nat /\ owed' = [owed EXCEPT ![a] = owed'[a]]
  /\ UNCHANGED <<asked, taken, told>>

Next ==
  \/ \E d \in Devices : Asks(d) \/ Takes(d) \/ Refuses(d)
  \/ \E a \in Accounts : Adjusts(a)

Spec == Init /\ [][Next]_vars
=============================================================================
