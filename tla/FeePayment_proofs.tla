------------------------- MODULE FeePayment_proofs -------------------------
(***************************************************************************)
(* Whose accounts 37 pays, how often and how much, and whether 38 tells    *)
(* the truth, for any devices, tenants, cards, patrons, amounts and finite *)
(* number of accounts.                                                     *)
(***************************************************************************)
EXTENDS FeePayment, PatronContext_proofs

(* What a handler knows at its place, and what its session remembers.       *)
Paying(h, s) ==
  /\ Known(s)
  /\ h.pc # "idle" =>
       /\ h.req.aa \in Barcodes /\ h.req.amount > 0
       /\ h.posts = 0 /\ h.applied = Unpaid /\ h.outcome = "none"
  /\ h.pc \in {"verify", "check", "list", "pay"} =>
       h.patronID # NoPatron /\ s.patronID = h.patronID /\ s.patronBarcode = h.req.aa
  /\ h.pc \in {"check", "list", "pay"} => Verifies(s, h.patronID, h.req.aa, h.req.secret)
  /\ h.pc = "pay" =>
       /\ Listed(h) # {}
       /\ ~h.bulk => Listed(h) = {h.req.cg}
       /\ \A a \in Listed(h) : Owner[a] = h.patronID /\ Home[h.patronID] = s.tenant

(* AcceptedMeansPaid and ReportAddsUp, of one handler. *)
PaidInFull(h) ==
  /\ Sum(h.applied) > 0
  /\ Sum(h.applied) = h.req.amount \/ (h.bulk /\ Sum(h.applied) = Sum(h.read))
  /\ \A a \in Accounts : h.applied[a] > 0 => a \in Listed(h)

AddsUp(h) ==
  LET fg == Sum([a \in Accounts |-> h.reported[a].applied])
      half == Cardinality(Listed(h))
  IN  2 * fg <= 2 * Sum(h.applied) + half /\ 2 * Sum(h.applied) <= 2 * fg + half

(* What a handler has done and answered so far. *)
Settled(h) ==
  /\ h.posts <= 1
  /\ Sum(h.applied) <= h.req.amount
  /\ h.outcome \in {"refused", "excess"} => h.applied = Unpaid
  /\ h.outcome = "accepted" => PaidInFull(h) /\ AddsUp(h)

PaymentInv ==
  /\ TypeOK
  /\ \A c \in Conns : Paying(handler[c], session[c]) /\ Settled(handler[c])

---------------------------------------------------------------------------
(* Amounts. *)

LEMMA SumIsAmount ==
  ASSUME NEW f \in [Accounts -> Nat]
  PROVE  Sum(f) \in Nat /\ \A a \in Accounts : f[a] <= Sum(f)
BY SumBounds, PaymentAssumption DEF Sum

LEMMA UnpaidIsNothing == Unpaid \in [Accounts -> Nat] /\ Sum(Unpaid) = 0
<1>1. Unpaid \in [Accounts -> Nat] /\ {} \in SUBSET Accounts
      /\ \A a \in Accounts : Unpaid[a] = IF a \in {} THEN 0 ELSE 0
  BY DEF Unpaid
<1>2. SumFunctionOnSet(Unpaid, Accounts) = Cardinality({}) * 0
  BY <1>1, SumOfEqualShares, PaymentAssumption
<1> QED
  BY <1>1, <1>2, FS_EmptySet DEF Sum

(* What is charged is an amount, within the BV and, in bulk, within what was *)
(* read.  It is not nothing once something was read.                        *)
LEMMA ChargeBounds ==
  ASSUME NEW h \in Handler
  PROVE  /\ Charge(h) \in Nat /\ Charge(h) <= h.req.amount
         /\ Charge(h) = h.req.amount \/ (h.bulk /\ Charge(h) = Sum(h.read))
         /\ h.bulk => Charge(h) <= Sum(h.read)
         /\ h.req.amount > 0 /\ Listed(h) # {} => Charge(h) > 0
<1>1. h.req.amount \in Nat /\ h.read \in [Accounts -> Nat]
  BY DEF Handler, Request
<1>2. Sum(h.read) \in Nat /\ \A a \in Accounts : h.read[a] <= Sum(h.read) /\ h.read[a] \in Nat
  BY <1>1, SumIsAmount
<1>3. ASSUME Listed(h) # {} PROVE Sum(h.read) > 0
  <2>1. PICK a \in Accounts : h.read[a] > 0
    BY <1>3 DEF Listed
  <2> QED
    BY <2>1, <1>2
<1> QED
  BY <1>1, <1>2, <1>3 DEF Charge

LEMMA Division ==
  ASSUME NEW x \in Nat, NEW y \in Nat \ {0}
  PROVE  /\ x \div y \in Nat
         /\ y * (x \div y) <= x /\ x <= y * (x \div y) + (y - 1)
<1>1. x \div y \in Nat
  BY SMT
<1>2. x = y * (x \div y) + (x % y) /\ (x % y) \in 0..(y - 1)
  BY SMT
<1> QED
  BY <1>1, <1>2

(* Rounding to whole cents is off by half a cent at most. *)
LEMMA CentsRound ==
  ASSUME NEW num \in Nat, NEW den \in Nat \ {0}
  PROVE  /\ Cents(num, den) \in Nat
         /\ 2 * (den * Cents(num, den)) <= 2 * num + den
         /\ 2 * num <= 2 * (den * Cents(num, den)) + den
<1> DEFINE q == Cents(num, den)
<1>1. q \in Nat /\ (2 * den) * q <= 2 * num + den
      /\ 2 * num + den <= (2 * den) * q + (2 * den - 1)
  <2>1. \A x \in Nat, y \in Nat \ {0} :
          x \div y \in Nat /\ y * (x \div y) <= x /\ x <= y * (x \div y) + (y - 1)
    BY Division
  <2>2. 2 * num + den \in Nat /\ 2 * den \in Nat \ {0}
    OBVIOUS
  <2>3. q = (2 * num + den) \div (2 * den)
    BY DEF Cents
  <2> DEFINE x == 2 * num + den
             y == 2 * den
  <2> HIDE DEF x, y, q
  <2> QED
    BY <2>1, <2>2, <2>3 DEF x, y
<1> HIDE DEF q
<1>2. (2 * den) * q = 2 * (den * q) /\ den * q \in Nat
  BY <1>1
<1>3. 2 * (den * q) <= 2 * num + den /\ 2 * num <= 2 * (den * q) + den
  BY <1>1, <1>2
<1> QED
  BY <1>1, <1>3 DEF q

---------------------------------------------------------------------------
(* Handlers. *)

LEMMA FreshHandler ==
  ASSUME NEW r \in Request, NEW pc \in {"idle", "identify"}
  PROVE  /\ Fresh(pc, r) \in Handler
         /\ Fresh(pc, r).pc = pc /\ Fresh(pc, r).req = r /\ Fresh(pc, r).posts = 0
         /\ Fresh(pc, r).applied = Unpaid /\ Fresh(pc, r).outcome = "none"
BY UnpaidIsNothing DEF Fresh, Handler, Unreported

(* A handler that has paid nothing, and says so if it says anything, is     *)
(* settled.                                                                 *)
LEMMA UnpaidIsSettled ==
  ASSUME NEW h \in Handler, h.posts = 0, h.applied = Unpaid, h.outcome # "accepted"
  PROVE  Settled(h)
BY UnpaidIsNothing DEF Settled, Handler, Request

(* What the fields of a handler range over.                                 *)
Stages == {"idle", "identify", "verify", "check", "list", "pay"}
Outcomes == {"none", "refused", "excess", "lost", "accepted"}
Reports == [Accounts -> [remaining : Nat, applied : Nat]]

(* A handler is a record of nine fields. *)
LEMMA HandlerFields ==
  Handler = [pc : Stages, req : Request, patronID : Patrons \cup {NoPatron},
             read : [Accounts -> Nat], bulk : BOOLEAN, posts : Nat,
             applied : [Accounts -> Nat], outcome : Outcomes, reported : Reports]
BY DEF Handler, Stages, Outcomes, Reports

(* The handler and the session of a connection in a good state. *)
LEMMA AtHand ==
  ASSUME PaymentInv, NEW c \in Conns
  PROVE  /\ handler[c] \in Handler /\ session[c] \in Session
         /\ handler[c].req \in Request /\ handler[c].patronID \in Patrons \cup {NoPatron}
         /\ Known(session[c]) /\ Paying(handler[c], session[c]) /\ Settled(handler[c])
BY DEF PaymentInv, TypeOK, Handler, Paying

(* One handler moves, with its session and the accounts. *)
LEMMA HandlerMoves ==
  ASSUME PaymentInv, NEW c \in Conns, NEW h \in Handler, NEW s \in Session,
         handler' = [handler EXCEPT ![c] = h], session' = [session EXCEPT ![c] = s],
         Paying(h, s), Settled(h),
         account' \in [Accounts -> [owed : Nat, suspended : BOOLEAN]]
  PROVE  PaymentInv'
<1>1. /\ handler' \in [Conns -> Handler] /\ session' \in [Conns -> Session]
      /\ handler'[c] = h /\ session'[c] = s
      /\ \A d \in Conns \ {c} : handler'[d] = handler[d] /\ session'[d] = session[d]
  BY DEF PaymentInv, TypeOK
<1>2. \A d \in Conns : Paying(handler'[d], session'[d]) /\ Settled(handler'[d])
  BY <1>1 DEF PaymentInv
<1> QED
  BY <1>1, <1>2 DEF PaymentInv, TypeOK

(* One handler moves, and nothing else does. *)
LEMMA HandlerMovesAlone ==
  ASSUME PaymentInv, NEW c \in Conns, NEW h \in Handler,
         handler' = [handler EXCEPT ![c] = h], UNCHANGED <<account, session>>,
         Paying(h, session[c]), Settled(h)
  PROVE  PaymentInv'
<1>1. session[c] \in Session /\ session' = [session EXCEPT ![c] = session[c]]
      /\ account' \in [Accounts -> [owed : Nat, suspended : BOOLEAN]]
  BY DEF PaymentInv, TypeOK
<1> QED
  BY <1>1, HandlerMoves

(* Refusing is right for a handler that has paid nothing. *)
LEMMA RefusedHandler ==
  ASSUME PaymentInv, NEW c \in Conns, handler[c].pc # "idle",
         NEW why \in {"refused", "excess"}, NEW s, Known(s), NEW h,
         h = [handler[c] EXCEPT !.pc = "idle", !.outcome = why]
  PROVE  h \in Handler /\ Paying(h, s) /\ Settled(h)
<1>1. /\ h \in Handler /\ h.pc = "idle" /\ h.outcome = why
      /\ h.posts = handler[c].posts /\ h.applied = handler[c].applied
  <2>1. handler[c] \in Handler /\ "idle" \in Stages /\ why \in Outcomes
    BY AtHand DEF Stages, Outcomes
  <2> QED
    BY <2>1, HandlerFields
<1>2. h.posts = 0 /\ h.applied = Unpaid
  BY <1>1, AtHand DEF Paying
<1> QED
  BY <1>1, <1>2, UnpaidIsSettled DEF Paying

LEMMA RefuseKeeps ==
  ASSUME PaymentInv, NEW c \in Conns, handler[c].pc # "idle",
         NEW why \in {"refused", "excess"}, Refuse(c, why), UNCHANGED <<account, session>>
  PROVE  PaymentInv'
<1> DEFINE h == [handler[c] EXCEPT !.pc = "idle", !.outcome = why]
<1>1. handler' = [handler EXCEPT ![c] = h]
  BY DEF Refuse
<1>2. h \in Handler /\ Paying(h, session[c]) /\ Settled(h)
  BY AtHand, RefusedHandler
<1> HIDE DEF h
<1> QED
  BY <1>1, <1>2, HandlerMovesAlone

---------------------------------------------------------------------------
(* The actions. *)

LEMMA ReceiveKeeps ==
  ASSUME PaymentInv, NEW c \in Conns, Receive(c)
  PROVE  PaymentInv'
<1>1. PICK r \in Requests :
        \/ /\ r.aa # NoBarcode /\ r.amount > 0
           /\ handler' = [handler EXCEPT ![c] = Fresh("identify", r)]
        \/ handler' = [handler EXCEPT ![c] = [Fresh("idle", r) EXCEPT !.outcome = "refused"]]
  BY DEF Receive
<1>2. r \in Request /\ UNCHANGED <<account, session>>
  BY PaymentAssumption DEF Receive
<1>3. ASSUME r.aa # NoBarcode, r.amount > 0,
             handler' = [handler EXCEPT ![c] = Fresh("identify", r)]
      PROVE  PaymentInv'
  <2> DEFINE h == Fresh("identify", r)
  <2>1. /\ h \in Handler /\ h.pc = "identify" /\ h.req = r /\ h.posts = 0
        /\ h.applied = Unpaid /\ h.outcome = "none"
    BY <1>2, FreshHandler
  <2>2. r.aa \in Barcodes
    BY <1>2, <1>3 DEF Request
  <2>3. handler' = [handler EXCEPT ![c] = h]
    BY <1>3
  <2> HIDE DEF h
  <2>4. Paying(h, session[c])
    BY <2>1, <2>2, <1>3, AtHand DEF Paying
  <2> QED
    BY <1>2, <2>1, <2>3, <2>4, UnpaidIsSettled, HandlerMovesAlone
<1>4. CASE handler' = [handler EXCEPT ![c] = [Fresh("idle", r) EXCEPT !.outcome = "refused"]]
  <2> DEFINE g == Fresh("idle", r)
             h == [g EXCEPT !.outcome = "refused"]
  <2>1. g \in Handler /\ g.pc = "idle" /\ g.posts = 0 /\ g.applied = Unpaid
    BY <1>2, FreshHandler
  <2>2. handler' = [handler EXCEPT ![c] = h]
    BY <1>4
  <2> HIDE DEF g
  <2>3. h \in Handler /\ h.pc = "idle" /\ h.posts = 0 /\ h.applied = Unpaid
        /\ h.outcome = "refused"
    <3>1. "refused" \in Outcomes
      BY DEF Outcomes
    <3> QED
      BY <2>1, <3>1, HandlerFields
  <2> HIDE DEF h
  <2>4. Paying(h, session[c])
    BY <2>3, AtHand DEF Paying
  <2> QED
    BY <1>2, <2>2, <2>3, <2>4, UnpaidIsSettled, HandlerMovesAlone
<1> QED
  BY <1>1, <1>3, <1>4

LEMMA IdentifyKeeps ==
  ASSUME PaymentInv, NEW c \in Conns, Identify(c)
  PROVE  PaymentInv'
<1> DEFINE b == handler[c].req.aa
<1>1. handler[c].pc = "identify" /\ UNCHANGED account /\ b \in Barcodes
  BY AtHand DEF Identify, At, Paying
<1>2. PICK found \in Identified(session[c], b) :
        /\ session' = [session EXCEPT ![c] = found.session]
        /\ IF found.patronID = NoPatron THEN Refuse(c, "refused")
           ELSE handler' = [handler EXCEPT ![c].pc = "verify", ![c].patronID = found.patronID]
  BY DEF Identify
<1>3. /\ found.session \in Session /\ Known(found.session)
      /\ found.patronID \in Patrons \cup {NoPatron}
      /\ found.patronID # NoPatron =>
           found.session.patronID = found.patronID /\ found.session.patronBarcode = b
  BY <1>1, AtHand, IdentifiedIsKnown
<1>4. account' \in [Accounts -> [owed : Nat, suspended : BOOLEAN]]
  BY <1>1 DEF PaymentInv, TypeOK
<1>5. CASE found.patronID = NoPatron
  <2> DEFINE h == [handler[c] EXCEPT !.pc = "idle", !.outcome = "refused"]
  <2>1. handler' = [handler EXCEPT ![c] = h]
    BY <1>2, <1>5 DEF Refuse
  <2>2. h \in Handler /\ Paying(h, found.session) /\ Settled(h)
    BY <1>1, <1>3, RefusedHandler
  <2> HIDE DEF h
  <2> QED
    BY <1>2, <1>3, <1>4, <2>1, <2>2, HandlerMoves
<1>6. CASE found.patronID # NoPatron
  <2> DEFINE h == [handler[c] EXCEPT !.pc = "verify", !.patronID = found.patronID]
  <2>1. /\ h \in Handler /\ h.pc = "verify" /\ h.patronID = found.patronID
        /\ h.req = handler[c].req /\ h.posts = handler[c].posts
        /\ h.applied = handler[c].applied /\ h.outcome = handler[c].outcome
    <3>1. handler[c] \in Handler /\ "verify" \in Stages
      BY AtHand DEF Stages
    <3> QED
      BY <1>3, <3>1, HandlerFields
  <2>2. handler' = [handler EXCEPT ![c] = h]
    BY <1>2, <1>6
  <2> HIDE DEF h
  <2>3. h.posts = 0 /\ h.applied = Unpaid /\ h.outcome = "none" /\ h.req.amount > 0
    BY <1>1, <2>1, AtHand DEF Paying
  <2>4. Paying(h, found.session)
    BY <1>1, <1>3, <1>6, <2>1, <2>3 DEF Paying
  <2> QED
    BY <1>2, <1>3, <1>4, <2>1, <2>2, <2>3, <2>4, UnpaidIsSettled, HandlerMoves
<1> QED
  BY <1>5, <1>6

(* A verified handler goes on. *)
LEMMA GoesOn ==
  ASSUME PaymentInv, NEW c \in Conns, NEW pc \in {"check", "list"},
         handler[c].pc \in {"verify", "check"}, Goto(c, pc), UNCHANGED <<account, session>>,
         Verifies(session[c], handler[c].patronID, handler[c].req.aa, handler[c].req.secret)
  PROVE  PaymentInv'
<1> DEFINE h == [handler[c] EXCEPT !.pc = pc]
<1>1. /\ h \in Handler /\ h.pc = pc /\ h.patronID = handler[c].patronID
      /\ h.req = handler[c].req /\ h.posts = handler[c].posts
      /\ h.applied = handler[c].applied /\ h.outcome = handler[c].outcome
  <2>1. handler[c] \in Handler /\ pc \in Stages
    BY AtHand DEF Stages
  <2> QED
    BY <2>1, HandlerFields
<1>2. handler' = [handler EXCEPT ![c] = h]
  BY DEF Goto
<1> HIDE DEF h
<1>3. Paying(h, session[c])
  BY <1>1, AtHand DEF Paying
<1>4. Settled(h)
  BY <1>1, AtHand, UnpaidIsSettled DEF Paying
<1> QED
  BY <1>1, <1>2, <1>3, <1>4, HandlerMovesAlone

LEMMA BulkOrRefuseKeeps ==
  ASSUME PaymentInv, NEW c \in Conns, handler[c].pc \in {"verify", "check"},
         BulkOrRefuse(c), UNCHANGED <<account, session>>,
         Verifies(session[c], handler[c].patronID, handler[c].req.aa, handler[c].req.secret)
  PROVE  PaymentInv'
<1>1. Goto(c, "list") \/ Refuse(c, "refused")
  BY DEF BulkOrRefuse
<1> QED
  BY <1>1, GoesOn, RefuseKeeps

LEMMA VerifyKeeps ==
  ASSUME PaymentInv, NEW c \in Conns, Verify(c)
  PROVE  PaymentInv'
<1> DEFINE h == handler[c]
<1>1. h.pc = "verify" /\ UNCHANGED <<account, session>>
  BY DEF Verify, At
<1>2. PICK verified \in Verified(session[c], h.patronID, h.req.aa, h.req.secret) :
        IF ~verified THEN Refuse(c, "refused")
        ELSE IF h.req.cg = NoAccount THEN BulkOrRefuse(c)
        ELSE Goto(c, "check")
  BY DEF Verify
<1>3. CASE ~verified
  BY <1>1, <1>2, <1>3, RefuseKeeps
<1>4. CASE verified
  <2>1. TRUE \in Verified(session[c], h.patronID, h.req.aa, h.req.secret)
    BY <1>4 DEF Verified, Verifies
  <2>2. Verifies(session[c], h.patronID, h.req.aa, h.req.secret)
    BY <2>1, VerifiedVerifies
  <2>3. BulkOrRefuse(c) \/ Goto(c, "check")
    BY <1>2, <1>4
  <2> QED
    BY <1>1, <2>2, <2>3, GoesOn, BulkOrRefuseKeeps
<1> QED
  BY <1>3, <1>4

(* What was read of the accounts in S is listed, if they owe anything. *)
LEMMA ReadIsListed ==
  ASSUME PaymentInv, NEW S \in SUBSET Accounts, \A a \in S : account[a].owed > 0, NEW h,
         h.read = Read(S)
  PROVE  Read(S) \in [Accounts -> Nat] /\ Listed(h) = S
<1>1. \A a \in Accounts : account[a].owed \in Nat
  BY DEF PaymentInv, TypeOK
<1>2. \A a \in Accounts : Read(S)[a] = IF a \in S THEN account[a].owed ELSE 0
  BY DEF Read
<1> QED
  BY <1>1, <1>2 DEF Listed, Read

(* A verified handler has read the accounts in S, and comes to pay them. *)
LEMMA ReadKeeps ==
  ASSUME PaymentInv, NEW c \in Conns, handler[c].pc \in {"check", "list"},
         NEW S, S # {}, S \subseteq EligibleAccounts(session[c], handler[c].patronID),
         NEW bulk \in BOOLEAN, ~bulk => S = {handler[c].req.cg},
         handler' = [handler EXCEPT ![c] = [@ EXCEPT !.pc = "pay", !.read = Read(S), !.bulk = bulk]],
         UNCHANGED <<account, session>>
  PROVE  PaymentInv'
<1> DEFINE h == [handler[c] EXCEPT !.pc = "pay", !.read = Read(S), !.bulk = bulk]
<1>1. /\ S \in SUBSET Accounts /\ \A a \in S : account[a].owed > 0
      /\ \A a \in S : Owner[a] = handler[c].patronID /\ Home[handler[c].patronID] = session[c].tenant
  BY DEF EligibleAccounts
<1>2. /\ h.pc = "pay" /\ h.patronID = handler[c].patronID /\ h.read = Read(S) /\ h.bulk = bulk
      /\ h.req = handler[c].req /\ h.posts = handler[c].posts
      /\ h.applied = handler[c].applied /\ h.outcome = handler[c].outcome
  BY AtHand, HandlerFields
<1>3. Read(S) \in [Accounts -> Nat] /\ Listed(h) = S
  BY <1>1, <1>2, ReadIsListed
<1>4. h \in Handler
  <2>1. handler[c] \in Handler /\ "pay" \in Stages
    BY AtHand DEF Stages
  <2> QED
    BY <1>3, <2>1, HandlerFields
<1>5. handler' = [handler EXCEPT ![c] = h]
  OBVIOUS
<1> HIDE DEF h
<1>6. Paying(h, session[c])
  BY <1>1, <1>2, <1>3, AtHand DEF Paying
<1>7. Settled(h)
  BY <1>2, <1>4, AtHand, UnpaidIsSettled DEF Paying
<1> QED
  BY <1>4, <1>5, <1>6, <1>7, HandlerMovesAlone

LEMMA CheckKeeps ==
  ASSUME PaymentInv, NEW c \in Conns, Check(c)
  PROVE  PaymentInv'
<1> DEFINE h == handler[c]
           cg == h.req.cg
<1>1. /\ h.pc = "check" /\ UNCHANGED <<account, session>>
      /\ Verifies(session[c], h.patronID, h.req.aa, h.req.secret)
  BY AtHand DEF Check, At, Paying
<1>2. \/ /\ cg \in EligibleAccounts(session[c], h.patronID)
         /\ handler' = [handler EXCEPT ![c].pc = "pay", ![c].read = Read({cg})]
      \/ BulkOrRefuse(c)
      \/ Refuse(c, "refused")
  BY DEF Check
<1>3. ASSUME cg \in EligibleAccounts(session[c], h.patronID),
             handler' = [handler EXCEPT ![c].pc = "pay", ![c].read = Read({cg})]
      PROVE  PaymentInv'
  <2>1. h \in Handler /\ h.bulk \in BOOLEAN
    BY AtHand, HandlerFields
  <2>2. handler' = [handler EXCEPT ![c] =
                      [@ EXCEPT !.pc = "pay", !.read = Read({cg}), !.bulk = h.bulk]]
    BY <1>3, <2>1, HandlerFields
  <2>3. {cg} # {} /\ {cg} \subseteq EligibleAccounts(session[c], h.patronID)
    BY <1>3
  <2> QED
    BY <1>1, <2>1, <2>2, <2>3, ReadKeeps
<1>4. CASE BulkOrRefuse(c)
  BY <1>1, <1>4, BulkOrRefuseKeeps
<1>5. CASE Refuse(c, "refused")
  BY <1>1, <1>5, RefuseKeeps
<1> QED
  BY <1>2, <1>3, <1>4, <1>5

LEMMA ListKeeps ==
  ASSUME PaymentInv, NEW c \in Conns, List(c)
  PROVE  PaymentInv'
<1> DEFINE found == EligibleAccounts(session[c], handler[c].patronID)
<1>1. handler[c].pc = "list" /\ UNCHANGED <<account, session>>
  BY DEF List, At
<1>2. CASE /\ found # {}
           /\ handler' = [handler EXCEPT ![c].pc = "pay", ![c].read = Read(found), ![c].bulk = TRUE]
  <2>1. handler' = [handler EXCEPT ![c] =
                      [@ EXCEPT !.pc = "pay", !.read = Read(found), !.bulk = TRUE]]
    BY <1>2
  <2>2. found # {}
    BY <1>2
  <2> QED
    BY <1>1, <2>1, <2>2, ReadKeeps
<1>3. CASE Refuse(c, "refused")
  BY <1>1, <1>3, RefuseKeeps
<1> QED
  BY <1>2, <1>3 DEF List

LEMMA PayRefusedKeeps ==
  ASSUME PaymentInv, NEW c \in Conns, PayRefused(c)
  PROVE  PaymentInv'
<1>1. /\ handler[c].pc = "pay" /\ UNCHANGED <<account, session>>
      /\ Refuse(c, "excess") \/ Refuse(c, "refused")
  BY DEF PayRefused, At
<1> QED
  BY <1>1, RefuseKeeps

(* The FG amounts of a report add up to the charge, but for the rounding.   *)
LEMMA ReportHolds ==
  ASSUME NEW h \in Handler, Listed(h) # {}, ~h.bulk => Listed(h) = {h.req.cg},
         NEW after \in [Accounts -> [owed : Nat, suspended : BOOLEAN]]
  PROVE  LET n == Cardinality(Listed(h))
             fg == Sum([a \in Accounts |-> Report(h, after)[a].applied])
         IN  /\ Report(h, after) \in [Accounts -> [remaining : Nat, applied : Nat]]
             /\ 2 * fg <= 2 * Charge(h) + n /\ 2 * Charge(h) <= 2 * fg + n
<1> DEFINE n == Cardinality(Listed(h))
           rest(a) == IF n * h.read[a] < Charge(h) THEN 0 ELSE Cents(n * h.read[a] - Charge(h), n)
           share == IF h.bulk THEN Cents(Charge(h), n) ELSE h.req.amount
           f == [a \in Accounts |-> Report(h, after)[a].applied]
<1>1. h.req.amount \in Nat /\ h.read \in [Accounts -> Nat] /\ Charge(h) \in Nat
  BY ChargeBounds, HandlerFields DEF Request
<1>2. Listed(h) \in SUBSET Accounts /\ IsFiniteSet(Listed(h)) /\ n \in Nat \ {0}
  <2>1. Listed(h) \in SUBSET Accounts
    BY DEF Listed
  <2>2. IsFiniteSet(Listed(h))
    BY <2>1, FS_Subset, PaymentAssumption
  <2> QED
    BY <2>1, <2>2, FS_CardinalityType, FS_EmptySet
<1>3. share \in Nat
  BY <1>1, <1>2, CentsRound
<1>4. ASSUME NEW a \in Accounts PROVE rest(a) \in Nat
  <2> HIDE DEF n
  <2>1. n * h.read[a] \in Nat
    BY <1>1, <1>2
  <2>2. CASE n * h.read[a] < Charge(h)
    BY <2>2
  <2>3. CASE ~(n * h.read[a] < Charge(h))
    <3>1. n * h.read[a] - Charge(h) \in Nat
      BY <1>1, <2>1, <2>3
    <3> QED
      BY <2>3, <3>1, <1>2, CentsRound
  <2> QED
    BY <2>2, <2>3
<1>5. ASSUME NEW a \in Accounts
      PROVE  /\ Report(h, after)[a] \in [remaining : Nat, applied : Nat]
             /\ Report(h, after)[a].applied = IF a \in Listed(h) THEN share ELSE 0
  <2>1. Report(h, after)[a] =
          IF a \notin Listed(h) THEN [remaining |-> 0, applied |-> 0]
          ELSE IF h.bulk THEN [remaining |-> rest(a), applied |-> Cents(Charge(h), n)]
          ELSE [remaining |-> after[a].owed, applied |-> h.req.amount]
    BY DEF Report, Unreported
  <2>2. rest(a) \in Nat /\ after[a].owed \in Nat
    BY <1>4
  <2>3. h.bulk => share = Cents(Charge(h), n)
    OBVIOUS
  <2>4. ~h.bulk => share = h.req.amount
    OBVIOUS
  <2> HIDE DEF n, rest, share
  <2>5. CASE a \notin Listed(h)
    BY <2>1, <2>5
  <2>6. CASE a \in Listed(h) /\ h.bulk
    BY <2>1, <2>2, <2>3, <2>6, <1>3
  <2>7. CASE a \in Listed(h) /\ ~h.bulk
    BY <2>1, <2>2, <2>4, <2>7, <1>3
  <2> QED
    BY <2>5, <2>6, <2>7
<1>6. \A a \in Accounts : f[a] = IF a \in Listed(h) THEN share ELSE 0
  <2> HIDE DEF share
  <2> QED
    BY <1>5
<1>8. Report(h, after) \in [Accounts -> [remaining : Nat, applied : Nat]]
  <2>1. Report(h, after) = [a \in Accounts |-> Report(h, after)[a]]
    BY DEF Report
  <2> QED
    BY <1>5, <2>1
<1>9. Sum(f) = n * share
  <2>1. DOMAIN f = Accounts
    OBVIOUS
  <2> HIDE DEF f, share
  <2>2. SumFunctionOnSet(f, Accounts) = Cardinality(Listed(h)) * share
    BY <1>2, <1>3, <1>6, SumOfEqualShares, PaymentAssumption
  <2> QED
    BY <2>1, <2>2 DEF Sum
<1>10. 2 * (n * share) <= 2 * Charge(h) + n /\ 2 * Charge(h) <= 2 * (n * share) + n
  <2>1. CASE h.bulk
    BY <2>1, <1>1, <1>2, CentsRound
  <2>2. CASE ~h.bulk
    <3>1. n = 1
      BY <2>2, FS_Singleton
    <3>2. share = Charge(h)
      BY <2>2, ChargeBounds
    <3> HIDE DEF n, share
    <3> QED
      BY <3>1, <3>2, <1>1
  <2> QED
    BY <2>1, <2>2
<1>11. 2 * Sum(f) <= 2 * Charge(h) + n /\ 2 * Charge(h) <= 2 * Sum(f) + n
  <2> HIDE DEF n, share, f
  <2> QED
    BY <1>9, <1>10
<1> HIDE DEF share
<1> QED
  BY <1>8, <1>11

(* A payment is recorded as it was spread over the accounts. *)
LEMMA PaidHandler ==
  ASSUME PaymentInv, NEW c \in Conns, handler[c].pc = "pay",
         NEW d \in Distributions(handler[c])
  PROVE  /\ d \in [Accounts -> Nat] /\ Sum(d) = Charge(handler[c])
         /\ \A a \in Accounts : d[a] <= IF a \in Listed(handler[c]) THEN account[a].owed ELSE 0
         /\ Paid(handler[c], d) = [handler[c] EXCEPT !.posts = 1, !.applied = d]
<1> DEFINE g == handler[c]
<1>1. g \in Handler /\ g.posts = 0 /\ g.applied = Unpaid
  BY AtHand DEF Paying
<1>2. Charge(g) \in Nat
  BY <1>1, ChargeBounds
<1>3. d \in [Accounts -> Nat]
  BY <1>2 DEF Distributions
<1>4. [a \in Accounts |-> g.applied[a] + d[a]] = d
  BY <1>1, <1>3 DEF Unpaid
<1>5. g.posts + 1 = 1
  BY <1>1
<1> QED
  BY <1>3, <1>4, <1>5 DEF Paid, Distributions

LEMMA PayAppliedKeeps ==
  ASSUME PaymentInv, NEW c \in Conns, PayApplied(c)
  PROVE  PaymentInv'
<1> DEFINE g == handler[c]
<1>1. PICK d \in Distributions(g) :
        LET after == [a \in Accounts |-> [account[a] EXCEPT !.owed = @ - d[a]]]
        IN /\ account' = after
           /\ \/ handler' = [handler EXCEPT ![c] =
                    [Paid(g, d) EXCEPT !.pc = "idle", !.outcome = "accepted",
                                       !.reported = Report(g, after)]]
              \/ handler' = [handler EXCEPT ![c] = [Paid(g, d) EXCEPT !.pc = "idle", !.outcome = "lost"]]
  BY DEF PayApplied
<1> DEFINE after == [a \in Accounts |-> [account[a] EXCEPT !.owed = @ - d[a]]]
           report == Report(g, after)
<1>2. g.pc = "pay" /\ UNCHANGED session
  BY <1>1 DEF PayApplied, At
<1>3. /\ g \in Handler /\ g.req.amount \in Nat /\ g.req.amount > 0 /\ Known(session[c])
      /\ g.posts = 0 /\ g.applied = Unpaid /\ Listed(g) # {}
      /\ ~g.bulk => Listed(g) = {g.req.cg}
  BY <1>2, AtHand DEF Paying, Request
<1>4. /\ d \in [Accounts -> Nat] /\ Sum(d) = Charge(g)
      /\ \A a \in Accounts : d[a] <= IF a \in Listed(g) THEN account[a].owed ELSE 0
  BY <1>2, PaidHandler
<1>5. account \in [Accounts -> [owed : Nat, suspended : BOOLEAN]]
  BY DEF PaymentInv, TypeOK
<1>6. after \in [Accounts -> [owed : Nat, suspended : BOOLEAN]]
  <2>1. ASSUME NEW a \in Accounts
        PROVE  [account[a] EXCEPT !.owed = @ - d[a]] \in [owed : Nat, suspended : BOOLEAN]
    <3>1. account[a].owed \in Nat /\ d[a] \in Nat /\ d[a] <= account[a].owed
      BY <1>4, <1>5
    <3> QED
      BY <1>5, <3>1
  <2> QED
    BY <2>1
<1>7. Paid(g, d) = [g EXCEPT !.posts = 1, !.applied = d]
  BY <1>2, PaidHandler
<1>8. /\ report \in [Accounts -> [remaining : Nat, applied : Nat]]
      /\ LET fg == Sum([a \in Accounts |-> report[a].applied])
             half == Cardinality(Listed(g))
         IN  2 * fg <= 2 * Charge(g) + half /\ 2 * Charge(g) <= 2 * fg + half
  <2> HIDE DEF after
  <2> QED
    BY <1>3, <1>6, ReportHolds
<1>9. ASSUME NEW h,
             h = [[g EXCEPT !.posts = 1, !.applied = d] EXCEPT !.pc = "idle", !.outcome = "lost"],
             handler' = [handler EXCEPT ![c] = h]
      PROVE  PaymentInv'
  <2>1. /\ h \in Handler /\ h.pc = "idle" /\ h.posts = 1 /\ h.applied = d /\ h.outcome = "lost"
        /\ h.req = g.req
    <3>1. "idle" \in Stages /\ "lost" \in Outcomes
      BY DEF Stages, Outcomes
    <3> QED
      BY <1>3, <1>4, <1>9, <3>1, HandlerFields
  <2>2. Settled(h)
    BY <2>1, <1>3, <1>4, ChargeBounds DEF Settled
  <2>3. Paying(h, session[c])
    BY <2>1, <1>3 DEF Paying
  <2>4. session[c] \in Session /\ session' = [session EXCEPT ![c] = session[c]]
        /\ account' = after
    BY <1>1, <1>2 DEF PaymentInv, TypeOK
  <2> HIDE DEF after
  <2> QED
    BY <1>6, <1>9, <2>1, <2>2, <2>3, <2>4, HandlerMoves
<1>10. ASSUME NEW h,
              h = [[g EXCEPT !.posts = 1, !.applied = d] EXCEPT
                     !.pc = "idle", !.outcome = "accepted", !.reported = report],
              handler' = [handler EXCEPT ![c] = h]
       PROVE  PaymentInv'
  <2>0. session[c] \in Session /\ session' = [session EXCEPT ![c] = session[c]]
        /\ account' = after
    BY <1>1, <1>2 DEF PaymentInv, TypeOK
  <2> HIDE DEF after, report
  <2>1. /\ h \in Handler /\ h.pc = "idle" /\ h.posts = 1 /\ h.applied = d
        /\ h.outcome = "accepted" /\ h.req = g.req /\ h.read = g.read /\ h.bulk = g.bulk
        /\ h.reported = report
    <3>1. "idle" \in Stages /\ "accepted" \in Outcomes /\ report \in Reports
      BY <1>8 DEF Stages, Outcomes, Reports
    <3> QED
      BY <1>3, <1>4, <1>10, <3>1, HandlerFields
  <2>2. Listed(h) = Listed(g)
    BY <2>1 DEF Listed
  <2>3. PaidInFull(h)
    <3>1. \A a \in Accounts : d[a] > 0 => a \in Listed(g)
      BY <1>4
    <3> QED
      BY <2>1, <2>2, <3>1, <1>3, <1>4, ChargeBounds DEF PaidInFull
  <2>4. AddsUp(h)
    BY <2>1, <2>2, <1>4, <1>8 DEF AddsUp
  <2>5. Settled(h)
    BY <2>1, <2>3, <2>4, <1>3, <1>4, ChargeBounds DEF Settled
  <2>6. Paying(h, session[c])
    BY <2>1, <1>3 DEF Paying
  <2> QED
    BY <1>6, <1>10, <2>0, <2>1, <2>5, <2>6, HandlerMoves
<1> QED
  BY <1>1, <1>7, <1>9, <1>10

(* What the device says between two messages changes only its session.      *)
LEMMA SessionMoves ==
  ASSUME PaymentInv, NEW c \in Conns, handler[c].pc = "idle", NEW s \in Session, Known(s),
         session' = [session EXCEPT ![c] = s], UNCHANGED <<account, handler>>
  PROVE  PaymentInv'
<1>1. handler' = [handler EXCEPT ![c] = handler[c]] /\ handler[c] \in Handler
      /\ account' \in [Accounts -> [owed : Nat, suspended : BOOLEAN]]
  BY DEF PaymentInv, TypeOK
<1>2. Paying(handler[c], s) /\ Settled(handler[c])
  BY AtHand DEF Paying
<1> QED
  BY <1>1, <1>2, HandlerMoves

LEMMA CirculateKeeps ==
  ASSUME PaymentInv, NEW c \in Conns, Circulate(c)
  PROVE  PaymentInv'
<1>1. PICK b \in Barcodes : \E found \in Identified(session[c], b) :
        /\ handler[c].pc = "idle" /\ UNCHANGED <<account, handler>>
        /\ session' = [session EXCEPT ![c] = found.session]
  BY DEF Circulate, At
<1>2. PICK found \in Identified(session[c], b) :
        /\ handler[c].pc = "idle" /\ UNCHANGED <<account, handler>>
        /\ session' = [session EXCEPT ![c] = found.session]
  BY <1>1
<1>3. found.session \in Session /\ Known(found.session)
  BY AtHand, IdentifiedIsKnown
<1> QED
  BY <1>2, <1>3, SessionMoves

LEMMA EndPatronSessionKeeps ==
  ASSUME PaymentInv, NEW c \in Conns, EndPatronSession(c)
  PROVE  PaymentInv'
<1>1. /\ handler[c].pc = "idle" /\ UNCHANGED <<account, handler>>
      /\ session' = [session EXCEPT ![c] = ClearPatron(session[c])]
  BY DEF EndPatronSession, At
<1> QED
  BY <1>1, AtHand, ClearedIsKnown, SessionMoves

LEMMA LoginKeeps ==
  ASSUME PaymentInv, NEW c \in Conns, Login(c)
  PROVE  PaymentInv'
<1>1. PICK t \in Tenants, s \in Settings :
        /\ handler[c].pc = "idle" /\ UNCHANGED <<account, handler>>
        /\ session' = [session EXCEPT ![c] = MovedTo(session[c], t, s)]
  BY DEF Login, At
<1> QED
  BY <1>1, AtHand, MovedIsKnown, SessionMoves

LEMMA StaffKeeps ==
  ASSUME PaymentInv, NEW a \in Accounts, Staff(a)
  PROVE  PaymentInv'
<1>1. account \in [Accounts -> [owed : Nat, suspended : BOOLEAN]]
  BY DEF PaymentInv, TypeOK
<1>2. UNCHANGED <<session, handler>>
  BY DEF Staff
<1>3. account' \in [Accounts -> [owed : Nat, suspended : BOOLEAN]]
  <2>1. CASE \E owed \in 0..MaxOwed \ {account[a].owed} : account' = [account EXCEPT ![a].owed = owed]
    BY <1>1, <2>1, PaymentAssumption
  <2>2. CASE account' = [account EXCEPT ![a].suspended = ~@]
    BY <1>1, <2>2
  <2> QED
    BY <2>1, <2>2 DEF Staff
<1> QED
  BY <1>2, <1>3 DEF PaymentInv, TypeOK

LEMMA InitPayment == Init => PaymentInv
<1> SUFFICES ASSUME Init PROVE PaymentInv
  OBVIOUS
<1>1. Nobody \in Request
  BY DEF Nobody, Request
<1>2. /\ Fresh("idle", Nobody) \in Handler /\ Fresh("idle", Nobody).pc = "idle"
      /\ Fresh("idle", Nobody).posts = 0 /\ Fresh("idle", Nobody).applied = Unpaid
      /\ Fresh("idle", Nobody).outcome = "none"
  BY <1>1, FreshHandler
<1>3. session \in [Conns -> Session] /\ \A c \in Conns : Known(session[c])
  BY NewIsKnown DEF Init, NewSessions
<1>4. account \in [Accounts -> [owed : Nat, suspended : BOOLEAN]]
  <2>1. 0..MaxOwed \subseteq Nat /\ {FALSE} \subseteq BOOLEAN
    BY PaymentAssumption
  <2>2. ASSUME NEW r \in [owed : 0..MaxOwed, suspended : {FALSE}]
        PROVE  r \in [owed : Nat, suspended : BOOLEAN]
    BY <2>1
  <2> QED
    BY <2>2 DEF Init
<1>5. \A c \in Conns : Paying(Fresh("idle", Nobody), session[c])
  BY <1>2, <1>3 DEF Paying
<1>6. Settled(Fresh("idle", Nobody))
  BY <1>2, UnpaidIsSettled
<1> QED
  BY <1>2, <1>3, <1>4, <1>5, <1>6 DEF Init, PaymentInv, TypeOK

LEMMA StepPayment == PaymentInv /\ [Next]_vars => PaymentInv'
<1> SUFFICES ASSUME PaymentInv, [Next]_vars PROVE PaymentInv'
  OBVIOUS
<1>1. CASE UNCHANGED vars
  BY <1>1 DEF vars, PaymentInv, TypeOK
<1>2. CASE Next
  BY <1>2, ReceiveKeeps, IdentifyKeeps, VerifyKeeps, CheckKeeps, ListKeeps, PayAppliedKeeps,
     PayRefusedKeeps, CirculateKeeps, EndPatronSessionKeeps, LoginKeeps, StaffKeeps
  DEF Next
<1> QED
  BY <1>1, <1>2

---------------------------------------------------------------------------
(* Which steps pay, and which come back with FOLIO's refusal. *)

LEMMA RefuseChanges ==
  ASSUME PaymentInv, NEW c \in Conns, NEW why, Refuse(c, why)
  PROVE  handler'[c].applied = handler[c].applied /\ handler'[c].outcome = why
BY AtHand DEF Refuse, PaymentInv, TypeOK, Handler

LEMMA GotoChanges ==
  ASSUME PaymentInv, NEW c \in Conns, NEW pc, Goto(c, pc)
  PROVE  handler'[c].applied = handler[c].applied /\ handler'[c].outcome = handler[c].outcome
BY AtHand DEF Goto, PaymentInv, TypeOK, Handler

LEMMA OtherSteps ==
  ASSUME PaymentInv, [Next]_vars, NEW c \in Conns, ~PayApplied(c), ~PayRefused(c)
  PROVE  /\ handler'[c].applied \in {handler[c].applied, Unpaid}
         /\ handler'[c].outcome \in {handler[c].outcome, "none", "refused"}
<1> DEFINE Goal == /\ handler'[c].applied \in {handler[c].applied, Unpaid}
                   /\ handler'[c].outcome \in {handler[c].outcome, "none", "refused"}
<1>1. handler \in [Conns -> Handler] /\ handler[c] \in Handler
  BY DEF PaymentInv, TypeOK
<1>2. CASE UNCHANGED handler
  BY <1>2
<1>3. ASSUME NEW d \in Conns, d # c,
             \/ Receive(d) \/ Identify(d) \/ Verify(d) \/ Check(d) \/ List(d)
             \/ PayApplied(d) \/ PayRefused(d)
      PROVE  Goal
  <2>1. \E h : handler' = [handler EXCEPT ![d] = h]
    BY <1>3 DEF Receive, Identify, Verify, Check, List, PayApplied, PayRefused, BulkOrRefuse,
                Refuse, Goto
  <2> QED
    BY <1>1, <1>3, <2>1
<1>4. ASSUME BulkOrRefuse(c) PROVE Goal
  BY <1>4, RefuseChanges, GotoChanges DEF BulkOrRefuse
<1>5. ASSUME Receive(c) PROVE Goal
  <2>1. PICK r \in Requests :
          \/ handler' = [handler EXCEPT ![c] = Fresh("identify", r)]
          \/ handler' = [handler EXCEPT ![c] = [Fresh("idle", r) EXCEPT !.outcome = "refused"]]
    BY <1>5 DEF Receive
  <2> QED
    BY <1>1, <2>1 DEF Fresh
<1>6. ASSUME Identify(c) PROVE Goal
  <2>1. ASSUME NEW p, handler' = [handler EXCEPT ![c].pc = "verify", ![c].patronID = p]
        PROVE  Goal
    BY <1>1, <2>1, HandlerFields
  <2> QED
    BY <1>6, <2>1, RefuseChanges DEF Identify
<1>7. ASSUME Verify(c) PROVE Goal
  BY <1>7, <1>4, RefuseChanges, GotoChanges DEF Verify
<1>8. ASSUME Check(c) PROVE Goal
  <2>1. ASSUME NEW r, handler' = [handler EXCEPT ![c].pc = "pay", ![c].read = r]
        PROVE  Goal
    BY <1>1, <2>1, HandlerFields
  <2> QED
    BY <1>8, <1>4, <2>1, RefuseChanges DEF Check
<1>9. ASSUME List(c) PROVE Goal
  <2>1. ASSUME NEW r, handler' = [handler EXCEPT ![c].pc = "pay", ![c].read = r, ![c].bulk = TRUE]
        PROVE  Goal
    BY <1>1, <2>1, HandlerFields
  <2> QED
    BY <1>9, <2>1, RefuseChanges DEF List
<1> HIDE DEF Goal
<1>10. Goal
  <2>1. CASE \E d \in Conns :
               \/ Receive(d) \/ Identify(d) \/ Verify(d) \/ Check(d) \/ List(d)
               \/ PayApplied(d) \/ PayRefused(d)
    BY <2>1, <1>3, <1>5, <1>6, <1>7, <1>8, <1>9
  <2>2. CASE UNCHANGED handler
    BY <2>2, <1>2 DEF Goal
  <2> QED
    BY <2>1, <2>2 DEF Next, vars, Circulate, EndPatronSession, Login, Staff
<1> QED
  BY <1>10 DEF Goal

LEMMA PaymentChanges ==
  ASSUME PaymentInv, NEW c \in Conns, PayApplied(c)
  PROVE  \E d \in Distributions(handler[c]) : \E h :
           /\ account' = [a \in Accounts |-> [account[a] EXCEPT !.owed = @ - d[a]]]
           /\ handler' = [handler EXCEPT ![c] = h] /\ handler'[c] = h
           /\ h.applied = d /\ h.req = handler[c].req
           /\ h.pc = "idle" /\ h.outcome \in {"accepted", "lost"}
<1> DEFINE g == handler[c]
           lost(d) == [Paid(g, d) EXCEPT !.pc = "idle", !.outcome = "lost"]
           told(d, r) == [Paid(g, d) EXCEPT !.pc = "idle", !.outcome = "accepted", !.reported = r]
<1>1. handler \in [Conns -> Handler] /\ g \in Handler /\ g.pc = "pay"
  BY DEF PaymentInv, TypeOK, PayApplied, At
<1>2. PICK d \in Distributions(g) :
        /\ account' = [a \in Accounts |-> [account[a] EXCEPT !.owed = @ - d[a]]]
        /\ \/ \E r : handler' = [handler EXCEPT ![c] = told(d, r)]
           \/ handler' = [handler EXCEPT ![c] = lost(d)]
  BY DEF PayApplied
<1>3. Paid(g, d) = [g EXCEPT !.posts = 1, !.applied = d]
  BY <1>1, PaidHandler
<1>4. /\ lost(d).applied = d /\ lost(d).req = g.req
      /\ lost(d).pc = "idle" /\ lost(d).outcome = "lost"
  BY <1>1, <1>3, HandlerFields
<1>5. ASSUME NEW r
      PROVE  /\ told(d, r).applied = d /\ told(d, r).req = g.req
             /\ told(d, r).pc = "idle" /\ told(d, r).outcome = "accepted"
  BY <1>1, <1>3, HandlerFields
<1> HIDE DEF lost, told
<1>6. PICK h : /\ handler' = [handler EXCEPT ![c] = h]
               /\ h.applied = d /\ h.req = g.req
               /\ h.pc = "idle" /\ h.outcome \in {"accepted", "lost"}
  BY <1>2, <1>4, <1>5
<1>7. handler'[c] = h
  BY <1>1, <1>6
<1> QED
  BY <1>2, <1>6, <1>7

(* Accounts are paid by PayApplied only, and only those that were read. *)
LEMMA PayingSteps ==
  ASSUME PaymentInv, [Next]_vars, NEW c \in Conns, NEW a \in Accounts, Pays(c, a)
  PROVE  handler[c].pc = "pay" /\ a \in Listed(handler[c])
<1>1. handler[c].applied[a] \in Nat
  BY AtHand, HandlerFields
<1>2. handler'[c].applied \notin {handler[c].applied, Unpaid}
  BY <1>1 DEF Pays, Unpaid
<1>3. ~PayRefused(c)
  BY <1>2, RefuseChanges DEF PayRefused
<1>4. PayApplied(c) /\ handler[c].pc = "pay"
  BY <1>2, <1>3, OtherSteps DEF PayApplied, At
<1>5. PICK d \in Distributions(handler[c]) : handler'[c].applied = d
  BY <1>4, PaymentChanges
<1>6. d[a] \in Nat /\ d[a] > 0 /\ d[a] <= IF a \in Listed(handler[c]) THEN account[a].owed ELSE 0
  <2>1. /\ d \in [Accounts -> Nat]
        /\ d[a] <= IF a \in Listed(handler[c]) THEN account[a].owed ELSE 0
    BY <1>4, PaidHandler
  <2>2. d[a] > handler[c].applied[a]
    BY <1>5 DEF Pays
  <2> QED
    BY <1>1, <2>1, <2>2
<1> QED
  BY <1>4, <1>6

---------------------------------------------------------------------------
(* The payment ledger. *)

(* What the books see of one handler that moves: nothing of the others.     *)
LEMMA BooksOfOne ==
  ASSUME PaymentInv, NEW c \in Conns, NEW h, handler' = [handler EXCEPT ![c] = h]
  PROVE  /\ handler'[c] = h
         /\ [x \in Conns |-> handler'[x].req.amount]
              = [[x \in Conns |-> handler[x].req.amount] EXCEPT ![c] = h.req.amount]
         /\ [x \in Conns |-> handler'[x].applied]
              = [[x \in Conns |-> handler[x].applied] EXCEPT ![c] = h.applied]
         /\ [x \in Conns |-> Told(handler'[x])]
              = [[x \in Conns |-> Told(handler[x])] EXCEPT ![c] = Told(h)]
<1>1. handler \in [Conns -> Handler]
  BY DEF PaymentInv, TypeOK
<1>2. handler'[c] = h
  BY <1>1
<1>3. ASSUME NEW x \in Conns
      PROVE  handler'[x] = IF x = c THEN h ELSE handler[x]
  BY <1>1
<1>4. [x \in Conns |-> handler'[x].req.amount]
        = [[x \in Conns |-> handler[x].req.amount] EXCEPT ![c] = h.req.amount]
  <2>1. \A x \in Conns : handler'[x].req.amount = IF x = c THEN h.req.amount ELSE handler[x].req.amount
    BY <1>3
  <2> QED
    BY <2>1
<1>5. [x \in Conns |-> handler'[x].applied]
        = [[x \in Conns |-> handler[x].applied] EXCEPT ![c] = h.applied]
  <2>1. \A x \in Conns : handler'[x].applied = IF x = c THEN h.applied ELSE handler[x].applied
    BY <1>3
  <2> QED
    BY <2>1
<1>6. [x \in Conns |-> Told(handler'[x])]
        = [[x \in Conns |-> Told(handler[x])] EXCEPT ![c] = Told(h)]
  <2>1. \A x \in Conns : Told(handler'[x]) = IF x = c THEN Told(h) ELSE Told(handler[x])
    BY <1>3
  <2> QED
    BY <2>1
<1> QED
  BY <1>2, <1>4, <1>5, <1>6

(* A step that leaves requests, payments, answers and debts alone. *)
LEMMA BooksKeep ==
  ASSUME \A c \in Conns : /\ handler'[c].req = handler[c].req
                          /\ handler'[c].applied = handler[c].applied
                          /\ Told(handler'[c]) = Told(handler[c]),
         \A a \in Accounts : account'[a].owed = account[a].owed
  PROVE  UNCHANGED Ledger!vars
BY DEF Ledger!vars

(* A handler that is not idle moves on without a payment, or refuses.       *)
GoesOnUnpaid(c, h) ==
  /\ handler' = [handler EXCEPT ![c] = h]
  /\ h.req = handler[c].req /\ h.applied = handler[c].applied
  /\ Told(h) \in {"waiting", "refused"}

LEMMA UnpaidStepsImplement ==
  ASSUME PaymentInv, NEW c \in Conns, handler[c].pc # "idle", UNCHANGED account,
         NEW h, GoesOnUnpaid(c, h)
  PROVE  Ledger!Refuses(c) \/ UNCHANGED Ledger!vars
<1>1. handler \in [Conns -> Handler] /\ Told(handler[c]) = "waiting"
  BY DEF PaymentInv, TypeOK, Told
<1>2. /\ handler' = [handler EXCEPT ![c] = h] /\ h.req = handler[c].req
      /\ h.applied = handler[c].applied
  BY DEF GoesOnUnpaid
<1>3. CASE Told(h) = "waiting"
  <2>1. \A x \in Conns : /\ handler'[x].req = handler[x].req
                         /\ handler'[x].applied = handler[x].applied
                         /\ Told(handler'[x]) = Told(handler[x])
    BY <1>1, <1>2, <1>3
  <2> QED
    BY <2>1, BooksKeep
<1>4. CASE Told(h) = "refused"
  <2>1. /\ [x \in Conns |-> handler'[x].req.amount] = [x \in Conns |-> handler[x].req.amount]
        /\ [x \in Conns |-> handler'[x].applied] = [x \in Conns |-> handler[x].applied]
    BY <1>1, <1>2
  <2>2. [x \in Conns |-> Told(handler'[x])]
          = [[x \in Conns |-> Told(handler[x])] EXCEPT ![c] = "refused"]
    <3>1. [x \in Conns |-> Told(handler'[x])]
            = [[x \in Conns |-> Told(handler[x])] EXCEPT ![c] = Told(h)]
      BY <1>2, BooksOfOne
    <3> QED
      BY <1>4, <3>1
  <2> QED
    BY <1>1, <2>1, <2>2 DEF Ledger!Refuses
<1> QED
  BY <1>3, <1>4 DEF GoesOnUnpaid

LEMMA RefuseGoesOn ==
  ASSUME PaymentInv, NEW c \in Conns, NEW why \in {"refused", "excess"}, Refuse(c, why)
  PROVE  \E h : GoesOnUnpaid(c, h)
<1> DEFINE h == [handler[c] EXCEPT !.pc = "idle", !.outcome = why]
<1>1. handler' = [handler EXCEPT ![c] = h]
  BY DEF Refuse
<1>2. h.req = handler[c].req /\ h.applied = handler[c].applied /\ h.pc = "idle" /\ h.outcome = why
  BY AtHand, HandlerFields
<1> HIDE DEF h
<1>3. Told(h) = "refused"
  BY <1>2 DEF Told
<1> QED
  BY <1>1, <1>2, <1>3 DEF GoesOnUnpaid

LEMMA GotoGoesOn ==
  ASSUME PaymentInv, NEW c \in Conns, NEW pc, pc # "idle", Goto(c, pc)
  PROVE  \E h : GoesOnUnpaid(c, h)
<1> DEFINE h == [handler[c] EXCEPT !.pc = pc]
<1>1. handler' = [handler EXCEPT ![c] = h]
  BY DEF Goto
<1>2. h.req = handler[c].req /\ h.applied = handler[c].applied /\ h.pc = pc
  BY AtHand, HandlerFields
<1> HIDE DEF h
<1>3. Told(h) = "waiting"
  BY <1>2 DEF Told
<1> QED
  BY <1>1, <1>2, <1>3 DEF GoesOnUnpaid

LEMMA BulkOrRefuseGoesOn ==
  ASSUME PaymentInv, NEW c \in Conns, BulkOrRefuse(c)
  PROVE  \E h : GoesOnUnpaid(c, h)
<1>1. Goto(c, "list") \/ Refuse(c, "refused")
  BY DEF BulkOrRefuse
<1> QED
  BY <1>1, GotoGoesOn, RefuseGoesOn

LEMMA IdentifyGoesOn ==
  ASSUME PaymentInv, NEW c \in Conns, Identify(c)
  PROVE  \E h : GoesOnUnpaid(c, h)
<1>1. \/ Refuse(c, "refused")
      \/ \E p : handler' = [handler EXCEPT ![c].pc = "verify", ![c].patronID = p]
  BY DEF Identify
<1>2. ASSUME NEW p, handler' = [handler EXCEPT ![c].pc = "verify", ![c].patronID = p]
      PROVE  \E h : GoesOnUnpaid(c, h)
  <2> DEFINE h == [handler[c] EXCEPT !.pc = "verify", !.patronID = p]
  <2>1. handler' = [handler EXCEPT ![c] = h]
    BY <1>2
  <2>2. h.req = handler[c].req /\ h.applied = handler[c].applied /\ h.pc = "verify"
    BY AtHand, HandlerFields
  <2> HIDE DEF h
  <2>3. Told(h) = "waiting"
    BY <2>2 DEF Told
  <2> QED
    BY <2>1, <2>2, <2>3 DEF GoesOnUnpaid
<1> QED
  BY <1>1, <1>2, RefuseGoesOn

(* A handler that has read accounts comes to pay. *)
LEMMA ReadGoesOn ==
  ASSUME PaymentInv, NEW c \in Conns, NEW r, NEW bulk,
         handler' = [handler EXCEPT ![c] = [@ EXCEPT !.pc = "pay", !.read = r, !.bulk = bulk]]
  PROVE  \E h : GoesOnUnpaid(c, h)
<1> DEFINE h == [handler[c] EXCEPT !.pc = "pay", !.read = r, !.bulk = bulk]
<1>1. handler' = [handler EXCEPT ![c] = h]
  OBVIOUS
<1>2. h.req = handler[c].req /\ h.applied = handler[c].applied /\ h.pc = "pay"
  BY AtHand, HandlerFields
<1> HIDE DEF h
<1>3. Told(h) = "waiting"
  BY <1>2 DEF Told
<1> QED
  BY <1>1, <1>2, <1>3 DEF GoesOnUnpaid

LEMMA CheckGoesOn ==
  ASSUME PaymentInv, NEW c \in Conns, Check(c)
  PROVE  \E h : GoesOnUnpaid(c, h)
<1>1. \/ \E r : handler' = [handler EXCEPT ![c].pc = "pay", ![c].read = r]
      \/ BulkOrRefuse(c)
      \/ Refuse(c, "refused")
  BY DEF Check
<1>2. ASSUME NEW r, handler' = [handler EXCEPT ![c].pc = "pay", ![c].read = r]
      PROVE  \E h : GoesOnUnpaid(c, h)
  <2>1. handler[c] \in Handler
    BY AtHand
  <2>2. handler' = [handler EXCEPT ![c] =
                      [@ EXCEPT !.pc = "pay", !.read = r, !.bulk = handler[c].bulk]]
    BY <1>2, <2>1, HandlerFields
  <2> QED
    BY <2>2, ReadGoesOn
<1> QED
  BY <1>1, <1>2, BulkOrRefuseGoesOn, RefuseGoesOn

LEMMA ListGoesOn ==
  ASSUME PaymentInv, NEW c \in Conns, List(c)
  PROVE  \E h : GoesOnUnpaid(c, h)
<1>1. \/ \E r : handler' = [handler EXCEPT ![c].pc = "pay", ![c].read = r, ![c].bulk = TRUE]
      \/ Refuse(c, "refused")
  BY DEF List
<1>2. ASSUME NEW r, handler' = [handler EXCEPT ![c].pc = "pay", ![c].read = r, ![c].bulk = TRUE]
      PROVE  \E h : GoesOnUnpaid(c, h)
  <2>1. handler' = [handler EXCEPT ![c] = [@ EXCEPT !.pc = "pay", !.read = r, !.bulk = TRUE]]
    BY <1>2
  <2> QED
    BY <2>1, ReadGoesOn
<1> QED
  BY <1>1, <1>2, RefuseGoesOn

(* Everything a handler does before the POST, and a POST that is refused.   *)
LEMMA UnpaidSteps ==
  ASSUME PaymentInv, NEW c \in Conns,
         Identify(c) \/ Verify(c) \/ Check(c) \/ List(c) \/ PayRefused(c)
  PROVE  Ledger!Refuses(c) \/ UNCHANGED Ledger!vars
<1>1. handler[c].pc # "idle" /\ UNCHANGED account
  BY DEF Identify, Verify, Check, List, PayRefused, At
<1>2. ASSUME Verify(c) PROVE \E h : GoesOnUnpaid(c, h)
  <2>1. Refuse(c, "refused") \/ BulkOrRefuse(c) \/ Goto(c, "check")
    BY <1>2 DEF Verify
  <2> QED
    BY <2>1, RefuseGoesOn, BulkOrRefuseGoesOn, GotoGoesOn
<1>3. ASSUME PayRefused(c) PROVE \E h : GoesOnUnpaid(c, h)
  <2>1. Refuse(c, "refused") \/ Refuse(c, "excess")
    BY <1>3 DEF PayRefused
  <2> QED
    BY <2>1, RefuseGoesOn
<1>4. \E h : GoesOnUnpaid(c, h)
  BY <1>2, <1>3, IdentifyGoesOn, CheckGoesOn, ListGoesOn
<1> QED
  BY <1>1, <1>4, UnpaidStepsImplement

LEMMA ReceiveImplements ==
  ASSUME PaymentInv, NEW c \in Conns, Receive(c)
  PROVE  Ledger!Asks(c)
<1>1. PICK r \in Requests :
        \/ handler' = [handler EXCEPT ![c] = Fresh("identify", r)]
        \/ handler' = [handler EXCEPT ![c] = [Fresh("idle", r) EXCEPT !.outcome = "refused"]]
  BY DEF Receive
<1>2. /\ r \in Request /\ r.amount \in Nat /\ handler[c].pc = "idle" /\ UNCHANGED account
      /\ handler[c].outcome \in Outcomes
  BY PaymentAssumption, AtHand, HandlerFields DEF Receive, At, Request
<1>3. PICK h : /\ handler' = [handler EXCEPT ![c] = h] /\ h.req = r /\ h.applied = Unpaid
               /\ Told(h) \in {"waiting", "refused"}
  <2>1. CASE handler' = [handler EXCEPT ![c] = Fresh("identify", r)]
    <3>1. Told(Fresh("identify", r)) = "waiting"
      BY <1>2, FreshHandler DEF Told
    <3> QED
      BY <2>1, <3>1, <1>2, FreshHandler
  <2>2. CASE handler' = [handler EXCEPT ![c] = [Fresh("idle", r) EXCEPT !.outcome = "refused"]]
    <3> DEFINE g == Fresh("idle", r)
               h == [g EXCEPT !.outcome = "refused"]
    <3>1. g \in Handler /\ g.pc = "idle" /\ g.req = r /\ g.applied = Unpaid
      BY <1>2, FreshHandler
    <3>2. handler' = [handler EXCEPT ![c] = h]
      BY <2>2
    <3> HIDE DEF g
    <3>3. h.pc = "idle" /\ h.req = r /\ h.applied = Unpaid /\ h.outcome = "refused"
      BY <3>1, HandlerFields
    <3> HIDE DEF h
    <3>4. Told(h) = "refused"
      BY <3>3 DEF Told
    <3> QED
      BY <3>2, <3>3, <3>4
  <2> QED
    BY <1>1, <2>1, <2>2
<1>4. Told(handler[c]) # "waiting"
  BY <1>2 DEF Told
<1>5. /\ [x \in Conns |-> handler'[x].req.amount]
           = [[x \in Conns |-> handler[x].req.amount] EXCEPT ![c] = r.amount]
      /\ [x \in Conns |-> handler'[x].applied]
           = [[x \in Conns |-> handler[x].applied] EXCEPT ![c] = Unpaid]
      /\ [x \in Conns |-> Told(handler'[x])]
           = [[x \in Conns |-> Told(handler[x])] EXCEPT ![c] = Told(h)]
      /\ [x \in Conns |-> handler'[x].req.amount][c] = r.amount
  BY <1>3, BooksOfOne
<1>6. Ledger!Nothing = Unpaid
  BY DEF Ledger!Nothing, Unpaid
<1> QED
  BY <1>2, <1>3, <1>4, <1>5, <1>6 DEF Ledger!Asks

LEMMA PaymentImplements ==
  ASSUME PaymentInv, NEW c \in Conns, PayApplied(c)
  PROVE  Ledger!Takes(c)
<1>1. handler[c].pc = "pay" /\ handler[c] \in Handler /\ Told(handler[c]) = "waiting"
  BY AtHand DEF PayApplied, At, Told
<1> DEFINE Pay(d, h) ==
             /\ account' = [a \in Accounts |-> [account[a] EXCEPT !.owed = @ - d[a]]]
             /\ handler' = [handler EXCEPT ![c] = h]
             /\ h.applied = d /\ h.req = handler[c].req
             /\ h.pc = "idle" /\ h.outcome \in {"accepted", "lost"}
<1>0. PICK d \in Distributions(handler[c]) : \E h : Pay(d, h)
  BY PaymentChanges
<1>2. PICK h : Pay(d, h)
  BY <1>0
<1>3. /\ d \in [Accounts -> Nat] /\ Sum(d) = Charge(handler[c])
      /\ \A a \in Accounts : d[a] <= IF a \in Listed(handler[c]) THEN account[a].owed ELSE 0
  BY <1>1, PaidHandler
<1>4. account \in [Accounts -> [owed : Nat, suspended : BOOLEAN]]
  BY DEF PaymentInv, TypeOK
<1>5. \A a \in Accounts : d[a] <= account[a].owed /\ (d[a] > 0 => a \in Listed(handler[c]))
  BY <1>3, <1>4
<1>6. \A a, b \in Accounts : d[a] > 0 /\ d[b] > 0 => Owner[a] = Owner[b]
  BY <1>1, <1>5, AtHand DEF Paying
<1>7. Sum(d) \in 1..handler[c].req.amount
  <2>1. handler[c].req.amount \in Nat /\ handler[c].req.amount > 0 /\ Listed(handler[c]) # {}
    BY <1>1, AtHand DEF Paying, Request
  <2> QED
    BY <1>1, <1>3, <2>1, ChargeBounds
<1>8. Told(h) \in {"paid", "lost"}
  BY <1>2 DEF Told
<1>9. /\ [x \in Conns |-> handler'[x].req.amount] = [x \in Conns |-> handler[x].req.amount]
      /\ [x \in Conns |-> handler'[x].applied]
           = [[x \in Conns |-> handler[x].applied] EXCEPT ![c] = d]
      /\ [x \in Conns |-> Told(handler'[x])]
           = [[x \in Conns |-> Told(handler[x])] EXCEPT ![c] = Told(h)]
      /\ [x \in Conns |-> handler'[x].applied][c] = d
  <2>1. handler \in [Conns -> Handler]
    BY DEF PaymentInv, TypeOK
  <2>2. [x \in Conns |-> handler'[x].req.amount] = [x \in Conns |-> handler[x].req.amount]
    BY <1>2, <2>1
  <2> QED
    BY <1>2, <2>2, BooksOfOne
<1>10. [a \in Accounts |-> account'[a].owed]
         = [a \in Accounts |-> [x \in Accounts |-> account[x].owed][a] - d[a]]
  BY <1>2, <1>4
<1>11. Ledger!Total(d) = Sum(d)
  BY DEF Sum, SumFunctionOnSet, FoldFunctionOnSet, MapThenFoldSet, Ledger!Total,
         Ledger!SumFunctionOnSet, Ledger!FoldFunctionOnSet, Ledger!MapThenFoldSet
<1> QED
  BY <1>1, <1>3, <1>5, <1>6, <1>7, <1>8, <1>9, <1>10, <1>11 DEF Ledger!Takes

LEMMA StaffImplements ==
  ASSUME PaymentInv, NEW a \in Accounts, Staff(a)
  PROVE  Ledger!Adjusts(a) \/ UNCHANGED Ledger!vars
<1>1. account \in [Accounts -> [owed : Nat, suspended : BOOLEAN]] /\ UNCHANGED handler
  BY DEF PaymentInv, TypeOK, Staff
<1>2. CASE \E owed \in 0..MaxOwed \ {account[a].owed} : account' = [account EXCEPT ![a].owed = owed]
  <2>0. 0..MaxOwed \subseteq Nat
    BY PaymentAssumption
  <2>1. PICK owed \in Nat : account' = [account EXCEPT ![a].owed = owed]
    BY <1>2, <2>0
  <2>2. /\ [x \in Accounts |-> account'[x].owed]
             = [[x \in Accounts |-> account[x].owed] EXCEPT ![a] = owed]
        /\ [x \in Accounts |-> account'[x].owed][a] = owed
    BY <1>1, <2>1
  <2> QED
    BY <1>1, <2>2 DEF Ledger!Adjusts
<1>3. CASE account' = [account EXCEPT ![a].suspended = ~@]
  <2>1. \A x \in Accounts : account'[x].owed = account[x].owed
    BY <1>1, <1>3
  <2> QED
    BY <1>1, <2>1, BooksKeep
<1> QED
  BY <1>2, <1>3 DEF Staff

---------------------------------------------------------------------------
(* The theorems. *)

(* The invariant behind the others: a handler that has not answered has     *)
(* paid nothing, its session still remembers the patron it works for, and   *)
(* what it is about to pay is that patron's (fee_paid.go:93-187).           *)
THEOREM PaymentInvariant == Spec => []PaymentInv
BY InitPayment, StepPayment, PTL DEF Spec

(* Every reachable state is type correct (the handler of 37). *)
THEOREM PaymentTypes == Spec => []TypeOK
BY PaymentInvariant, PTL DEF PaymentInv

(* 37 pays accounts of the holder of the card presented only, in the tenant *)
(* of the device, for any CG and any tenants that share cards               *)
(* (fee_paid.go:104-111, fees.go:69).                                       *)
THEOREM HoldersAccountsOnly == Spec => OwnAccountsOnly
<1>1. PaymentInv /\ [Next]_vars => [PaysOwnAccounts]_vars
  <2> SUFFICES ASSUME PaymentInv, [Next]_vars, NEW c \in Conns, NEW a \in Accounts, Pays(c, a)
               PROVE  Owner[a] = Card[session[c].tenant][handler[c].req.aa]
    BY DEF PaysOwnAccounts
  <2>1. handler[c].pc = "pay" /\ a \in Listed(handler[c])
    BY PayingSteps
  <2>2. /\ session[c] \in Session /\ Known(session[c])
        /\ session[c].patronID # NoPatron /\ session[c].patronBarcode = handler[c].req.aa
        /\ Owner[a] = session[c].patronID /\ Home[session[c].patronID] = session[c].tenant
    BY <2>1, AtHand DEF Paying
  <2> QED
    BY <2>2, HomePatronHoldsCard
<1> QED
  BY <1>1, PaymentInvariant, PTL DEF Spec, OwnAccountsOnly

(* Where patrons are verified, 37 pays only for a patron who gave the PIN   *)
(* or the password (fee_paid.go:129-152, verification.go:94, 135).          *)
THEOREM ProvenPayersOnly == Spec => ProvenPayerOnly
<1>1. PaymentInv /\ [Next]_vars => [PayerIsProven]_vars
  <2> SUFFICES ASSUME PaymentInv, [Next]_vars, NEW c \in Conns, NEW a \in Accounts, Pays(c, a)
               PROVE  session[c].settings.verify = "none" \/ handler[c].req.secret = Owner[a]
    BY DEF PayerIsProven
  <2>1. handler[c].pc = "pay" /\ a \in Listed(handler[c])
    BY PayingSteps
  <2>2. /\ session[c] \in Session /\ Known(session[c])
        /\ session[c].patronID # NoPatron /\ session[c].patronBarcode = handler[c].req.aa
        /\ Owner[a] = session[c].patronID /\ Home[session[c].patronID] = session[c].tenant
        /\ Verifies(session[c], session[c].patronID, session[c].patronBarcode,
                    handler[c].req.secret)
    BY <2>1, AtHand DEF Paying
  <2> QED
    BY <2>2, HomePatronHoldsCard, VerifiedIsHolder
<1> QED
  BY <1>1, PaymentInvariant, PTL DEF Spec, ProvenPayerOnly

(* One 37 is charged once at most and within its BV (fee_paid.go:161-187).  *)
THEOREM ChargedOnce == Spec => []OneCharge
<1>1. PaymentInv => OneCharge
  BY DEF PaymentInv, Settled, OneCharge
<1> QED
  BY <1>1, PaymentInvariant, PTL

(* A 38N that follows an answer of FOLIO, or no call at all, means that     *)
(* nothing was paid (fee_paid.go:93-152, 189-198).                          *)
THEOREM RefusalsAreTrue == Spec => []RefusedMeansUnpaid
<1>1. PaymentInv => RefusedMeansUnpaid
  BY DEF PaymentInv, Settled, RefusedMeansUnpaid
<1> QED
  BY <1>1, PaymentInvariant, PTL

(* A 38Y means that the BV, or all that was read, was paid, to accounts it  *)
(* names, for any number of accounts and any amounts                        *)
(* (fee_paid.go:200-223).                                                   *)
THEOREM AcceptancesAreTrue == Spec => []AcceptedMeansPaid
<1>1. PaymentInv => AcceptedMeansPaid
  BY DEF PaymentInv, Settled, PaidInFull, AcceptedMeansPaid
<1> QED
  BY <1>1, PaymentInvariant, PTL

(* The FG amounts add up to the payment but for half a cent an account, for *)
(* any number of accounts and any amounts (fee_paid.go:358, 457).           *)
THEOREM ReportsAddUp == Spec => []ReportAddsUp
<1>1. PaymentInv => ReportAddsUp
  BY DEF PaymentInv, Settled, AddsUp, ReportAddsUp
<1> QED
  BY <1>1, PaymentInvariant, PTL

(* A bulk payment exceeds what is owed only when an account changed after   *)
(* it was read (fee_paid.go:317-324).                                       *)
THEOREM BulkStaysWithin == Spec => BulkNeverExceeds
<1>1. PaymentInv /\ [Next]_vars => [BulkIsCapped]_vars
  <2> SUFFICES ASSUME PaymentInv, [Next]_vars, NEW c \in Conns, Excess(c), handler[c].bulk,
                      \A a \in Listed(handler[c]) : account[a].owed = handler[c].read[a]
               PROVE  FALSE
    BY DEF BulkIsCapped, AccountsChanged
  <2> DEFINE h == handler[c]
  <2>1. h \in Handler /\ h.read \in [Accounts -> Nat]
    BY AtHand, HandlerFields
  <2>2. ~PayApplied(c)
    BY PaymentChanges DEF Excess
  <2>3. PayRefused(c)
    BY <2>2, OtherSteps DEF Excess
  <2>4. Charge(h) > Sum(Read(Listed(h)))
    BY <2>3, RefuseChanges DEF PayRefused, Excess
  <2>5. Read(Listed(h)) = h.read
    <3>1. \A a \in Accounts : Read(Listed(h))[a] = h.read[a]
      BY <2>1 DEF Read, Listed
    <3> QED
      BY <2>1, <3>1 DEF Read
  <2> QED
    BY <2>1, <2>4, <2>5, ChargeBounds, SumIsAmount
<1> QED
  BY <1>1, PaymentInvariant, PTL DEF Spec, BulkNeverExceeds

(* Every payment is one in the ledger: whatever fails, is answered late or  *)
(* is tried next, a debit is recorded for one request and ends it, within   *)
(* the BV and within what is owed, and all of it is one patron's            *)
(* (fee_paid.go:161-198, 269-277; fees.go:69).                              *)
THEOREM BooksBalance == Spec => ImplementsLedger
<1>1. Init => Ledger!Init
  <2> SUFFICES ASSUME Init PROVE Ledger!Init
    OBVIOUS
  <2>1. [a \in Accounts |-> account[a].owed] \in [Accounts -> Nat]
    BY InitPayment DEF PaymentInv, TypeOK
  <2>2. \A c \in Conns : /\ handler[c].req.amount = 0 /\ handler[c].applied = Unpaid
                         /\ handler[c].pc = "idle" /\ handler[c].outcome = "none"
    BY DEF Init, Fresh, Nobody
  <2>3. \A c \in Conns : Told(handler[c]) = "refused"
    BY <2>2 DEF Told
  <2>4. Ledger!Nothing = Unpaid
    BY DEF Ledger!Nothing, Unpaid
  <2> QED
    BY <2>1, <2>2, <2>3, <2>4 DEF Ledger!Init
<1>2. PaymentInv /\ [Next]_vars => [Ledger!Next]_(Ledger!vars)
  <2> SUFFICES ASSUME PaymentInv, [Next]_vars PROVE Ledger!Next \/ UNCHANGED Ledger!vars
    OBVIOUS
  <2>1. ASSUME NEW c \in Conns, Receive(c) PROVE Ledger!Next
    BY <2>1, ReceiveImplements DEF Ledger!Next
  <2>2. ASSUME NEW c \in Conns, Identify(c) \/ Verify(c) \/ Check(c) \/ List(c) \/ PayRefused(c)
        PROVE  Ledger!Next \/ UNCHANGED Ledger!vars
    BY <2>2, UnpaidSteps DEF Ledger!Next
  <2>3. ASSUME NEW c \in Conns, PayApplied(c) PROVE Ledger!Next
    BY <2>3, PaymentImplements DEF Ledger!Next
  <2>4. ASSUME NEW a \in Accounts, Staff(a) PROVE Ledger!Next \/ UNCHANGED Ledger!vars
    BY <2>4, StaffImplements DEF Ledger!Next
  <2>5. CASE UNCHANGED <<account, handler>>
    BY <2>5, BooksKeep
  <2> QED
    BY <2>1, <2>2, <2>3, <2>4, <2>5
    DEF Next, vars, Circulate, EndPatronSession, Login
<1> QED
  BY <1>1, <1>2, PaymentInvariant, PTL DEF Spec, ImplementsLedger, Ledger!Spec
===========================================================================
