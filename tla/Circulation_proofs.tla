------------------------- MODULE Circulation_proofs -------------------------
(***************************************************************************)
(* Whose loans 11, 29 and 65 touch, what 09 may end, and whether the       *)
(* answers are true, for any devices, tenants, cards, patrons and items.   *)
(***************************************************************************)
EXTENDS Circulation, PatronContext_proofs

(* FOLIO lends an item to patrons of the item's tenant only. *)
LentAtHome ==
  \A i \in Items : item[i].borrower # NoPatron => Home[item[i].borrower] = ItemHome[i]

(* What a handler knows at its place, and what its session remembers.       *)
Working(h, s) ==
  /\ Known(s)
  /\ h.pc \in {"claimed", "checkin", "item", "requests"} => h.req.code = "09"
  /\ h.pc \in {"item", "requests"} => h.req.ab \in Items
  /\ h.pc \in {"identify", "verify", "post", "loans", "renewing"} =>
       h.req.code # "09" /\ h.req.aa \in Barcodes
  /\ h.pc \in {"verify", "post", "loans", "renewing"} =>
       h.patronID # NoPatron /\ s.patronID = h.patronID /\ s.patronBarcode = h.req.aa
  /\ h.pc \in {"post", "loans", "renewing"} => Verifies(s, h.patronID, h.req.aa, h.req.secret)
  /\ h.pc = "post" => h.req.code \in {"11", "29"}
  /\ h.pc \in {"loans", "renewing"} => h.req.code = "65"

(* FOLIO did it for the items in S, once each, and for no others. *)
DidOnce(h, S) == \A i \in Items : h.done[i] = IF i \in S THEN 1 ELSE 0

(* What the device is told was done. *)
Told(h) ==
  IF h.req.code = "65" THEN h.answer.renewed
  ELSE IF h.answer.ok = "Y" THEN {h.req.ab} ELSE {}

(* What a handler has done for its message so far.  A renewal that is still *)
(* to do has not been done.                                                 *)
Accounted(h) ==
  /\ h.pc # "idle" => h.answer.ok = "none"
  /\ h.pc \in {"identify", "verify", "post", "loans", "claimed", "checkin"} =>
       DidOnce(h, {}) /\ h.lost = {} /\ h.answer.renewed = {}
  /\ h.pc \in {"item", "requests"} => DidOnce(h, {h.req.ab}) /\ h.lost = {}
  /\ h.pc = "renewing" =>
       /\ DidOnce(h, h.answer.renewed \cup h.lost)
       /\ h.todo \cap (h.answer.renewed \cup h.lost) = {}
  /\ h.answer.ok # "none" => DidOnce(h, Told(h) \cup h.lost)

CirculationInv ==
  /\ TypeOK
  /\ LentAtHome
  /\ \A c \in Conns : Working(handler[c], session[c]) /\ Accounted(handler[c])

---------------------------------------------------------------------------
(* Handlers. *)

LEMMA FreshHandler ==
  ASSUME NEW r \in Request,
         NEW pc \in {"idle", "identify", "claimed"}
  PROVE  /\ Fresh(pc, r) \in Handler
         /\ Fresh(pc, r).pc = pc /\ Fresh(pc, r).req = r
         /\ DidOnce(Fresh(pc, r), {}) /\ Fresh(pc, r).lost = {}
         /\ Fresh(pc, r).answer.ok = "none" /\ Fresh(pc, r).answer.renewed = {}
BY DEF Fresh, Handler, Statuses, DidOnce

(* What the fields of a handler range over.                                 *)
Stages == {"idle", "identify", "verify", "post", "loans", "renewing", "claimed", "checkin",
           "item", "requests"}
Seen == [status : Statuses, request : {"none", "Hold", "Page"}]
Answers == [ok : {"none", "Y", "N"}, alert : {"", "01", "02", "04"},
            renewed : SUBSET Items, unrenewed : SUBSET Items]

(* A handler is a record of nine fields. *)
LEMMA HandlerFields ==
  Handler = [pc : Stages, req : Request, patronID : Patrons \cup {NoPatron},
             todo : SUBSET Items, seen : Seen, done : [Items -> Nat], lost : SUBSET Items,
             failed : BOOLEAN, answer : Answers]
BY DEF Handler, Stages, Seen, Answers

(* Answering changes where the handler is and what the device is told.      *)
LEMMA AnsweredHandler ==
  ASSUME NEW h \in Handler, NEW ok \in {"Y", "N"}
  PROVE  /\ Answer(h, ok) \in Handler
         /\ Answer(h, ok).pc = "idle" /\ Answer(h, ok).answer.ok = ok
         /\ Answer(h, ok).req = h.req /\ Answer(h, ok).done = h.done
         /\ Answer(h, ok).lost = h.lost /\ Answer(h, ok).answer.renewed = h.answer.renewed
<1> DEFINE answer == [h.answer EXCEPT !.ok = ok]
<1>1. "idle" \in Stages /\ h.answer \in Answers
  BY HandlerFields DEF Stages
<1>2. answer \in Answers /\ answer.ok = ok /\ answer.renewed = h.answer.renewed
  BY <1>1 DEF Answers
<1>3. Answer(h, ok) = [h EXCEPT !.pc = "idle", !.answer = answer]
  BY DEF Answer
<1> HIDE DEF answer
<1> QED
  BY <1>1, <1>2, <1>3, HandlerFields

(* What FOLIO does for one item more. *)
LEMMA DidHandler ==
  ASSUME NEW h \in Handler, NEW i \in Items
  PROVE  /\ Did(h, i) \in Handler
         /\ Did(h, i).done = [h.done EXCEPT ![i] = @ + 1]
         /\ Did(h, i).pc = h.pc /\ Did(h, i).req = h.req /\ Did(h, i).patronID = h.patronID
         /\ Did(h, i).todo = h.todo /\ Did(h, i).lost = h.lost /\ Did(h, i).answer = h.answer
         /\ \A S : DidOnce(h, S) /\ i \notin S => DidOnce(Did(h, i), S \cup {i})
<1> DEFINE done == [h.done EXCEPT ![i] = @ + 1]
<1>1. Did(h, i) = [h EXCEPT !.done = done]
  BY DEF Did
<1>2. h.done \in [Items -> Nat]
  BY HandlerFields
<1>3. done \in [Items -> Nat]
  BY <1>2
<1>4. /\ Did(h, i) \in Handler /\ Did(h, i).done = done
      /\ Did(h, i).pc = h.pc /\ Did(h, i).req = h.req /\ Did(h, i).patronID = h.patronID
      /\ Did(h, i).todo = h.todo /\ Did(h, i).lost = h.lost /\ Did(h, i).answer = h.answer
  <2> HIDE DEF done
  <2> QED
    BY <1>1, <1>3, HandlerFields
<1> QED
  BY <1>2, <1>4 DEF DidOnce

(* One handler moves, with its session and the items. *)
LEMMA HandlerMoves ==
  ASSUME CirculationInv, NEW c \in Conns, NEW h \in Handler, NEW s \in Session,
         handler' = [handler EXCEPT ![c] = h], session' = [session EXCEPT ![c] = s],
         Working(h, s), Accounted(h), item' \in [Items -> ItemRecord], LentAtHome'
  PROVE  CirculationInv'
<1>1. /\ handler' \in [Conns -> Handler] /\ session' \in [Conns -> Session]
      /\ handler'[c] = h /\ session'[c] = s
      /\ \A d \in Conns \ {c} : handler'[d] = handler[d] /\ session'[d] = session[d]
  BY DEF CirculationInv, TypeOK
<1>2. \A d \in Conns : Working(handler'[d], session'[d]) /\ Accounted(handler'[d])
  BY <1>1 DEF CirculationInv
<1> QED
  BY <1>1, <1>2 DEF CirculationInv, TypeOK

(* One handler moves, and nothing else does. *)
LEMMA HandlerMovesAlone ==
  ASSUME CirculationInv, NEW c \in Conns, NEW h \in Handler,
         handler' = [handler EXCEPT ![c] = h], UNCHANGED <<item, session>>,
         Working(h, session[c]), Accounted(h)
  PROVE  CirculationInv'
<1>1. session[c] \in Session /\ session' = [session EXCEPT ![c] = session[c]]
  BY DEF CirculationInv, TypeOK
<1>2. item' \in [Items -> ItemRecord] /\ LentAtHome'
  BY DEF CirculationInv, TypeOK, LentAtHome
<1> QED
  BY <1>1, <1>2, HandlerMoves

(* One handler moves because FOLIO changed an item. *)
LEMMA HandlerChangesItem ==
  ASSUME CirculationInv, NEW c \in Conns, NEW h \in Handler, NEW i \in Items, NEW r \in ItemRecord,
         handler' = [handler EXCEPT ![c] = h], item' = [item EXCEPT ![i] = r],
         UNCHANGED session, r.borrower # NoPatron => Home[r.borrower] = ItemHome[i],
         Working(h, session[c]), Accounted(h)
  PROVE  CirculationInv'
<1>1. session[c] \in Session /\ session' = [session EXCEPT ![c] = session[c]]
  BY DEF CirculationInv, TypeOK
<1>2. item \in [Items -> ItemRecord]
  BY DEF CirculationInv, TypeOK
<1>3. item' \in [Items -> ItemRecord] /\ LentAtHome'
  BY <1>2 DEF CirculationInv, LentAtHome
<1> QED
  BY <1>1, <1>3, HandlerMoves

(* Refusing is always true of a handler that has done nothing.              *)
LEMMA RefusalHolds ==
  ASSUME CirculationInv, NEW c \in Conns, Refuse(c), UNCHANGED <<item, session>>,
         handler[c].pc \in {"identify", "verify", "post", "loans", "claimed", "checkin"}
  PROVE  CirculationInv'
<1> DEFINE h == Answer(handler[c], "N")
<1>1. handler[c] \in Handler
  BY DEF CirculationInv, TypeOK
<1>2. h \in Handler /\ h.pc = "idle" /\ h.answer.ok = "N" /\ DidOnce(h, {}) /\ h.lost = {}
      /\ h.answer.renewed = {}
  BY <1>1, AnsweredHandler DEF CirculationInv, Accounted, DidOnce
<1>3. Working(h, session[c])
  BY <1>2 DEF CirculationInv, Working
<1>4. Accounted(h)
  BY <1>2 DEF Accounted, Told
<1> QED
  BY <1>2, <1>3, <1>4, HandlerMovesAlone DEF Refuse

---------------------------------------------------------------------------
(* The actions. *)

(* The handler and the session of a connection in a good state. *)
LEMMA AtHand ==
  ASSUME CirculationInv, NEW c \in Conns
  PROVE  /\ handler[c] \in Handler /\ session[c] \in Session
         /\ handler[c].req \in Request /\ handler[c].patronID \in Patrons \cup {NoPatron}
         /\ Known(session[c]) /\ Working(handler[c], session[c]) /\ Accounted(handler[c])
BY DEF CirculationInv, TypeOK, Handler, Working

LEMMA ReceiveKeeps ==
  ASSUME CirculationInv, NEW c \in Conns, Receive(c)
  PROVE  CirculationInv'
<1>1. PICK r \in Requests :
        \/ /\ r.code # "09" => r.aa # NoBarcode
           /\ handler' = [handler EXCEPT ![c] =
                            Fresh(IF r.code = "09" THEN "claimed" ELSE "identify", r)]
        \/ handler' = [handler EXCEPT ![c] = Answer(Fresh("idle", r), "N")]
  BY DEF Receive
<1>2. r \in Request /\ UNCHANGED <<item, session>>
  BY CirculationAssumption DEF Receive
<1>3. ASSUME r.code # "09" => r.aa # NoBarcode,
             handler' = [handler EXCEPT ![c] =
                           Fresh(IF r.code = "09" THEN "claimed" ELSE "identify", r)]
      PROVE  CirculationInv'
  <2> DEFINE pc == IF r.code = "09" THEN "claimed" ELSE "identify"
             h == Fresh(pc, r)
  <2>1. pc \in {"idle", "identify", "claimed"}
    OBVIOUS
  <2>2. h \in Handler /\ h.pc = pc /\ h.req = r /\ DidOnce(h, {}) /\ h.lost = {}
        /\ h.answer.ok = "none" /\ h.answer.renewed = {}
    BY <1>2, <2>1, FreshHandler
  <2>3. r.code # "09" => r.aa \in Barcodes
    BY <1>2, <1>3 DEF Request
  <2> HIDE DEF h
  <2>4. Working(h, session[c]) /\ Accounted(h)
    BY <2>2, <2>3, AtHand DEF Working, Accounted
  <2>5. handler' = [handler EXCEPT ![c] = h]
    BY <1>3 DEF h
  <2> QED
    BY <1>2, <2>2, <2>4, <2>5, HandlerMovesAlone
<1>4. CASE handler' = [handler EXCEPT ![c] = Answer(Fresh("idle", r), "N")]
  <2> DEFINE h == Answer(Fresh("idle", r), "N")
  <2>1. h \in Handler /\ h.pc = "idle" /\ h.answer.ok = "N" /\ DidOnce(h, {}) /\ h.lost = {}
        /\ h.answer.renewed = {}
    BY <1>2, FreshHandler, AnsweredHandler DEF DidOnce
  <2>2. handler' = [handler EXCEPT ![c] = h]
    BY <1>4
  <2> HIDE DEF h
  <2>3. Working(h, session[c]) /\ Accounted(h)
    BY <2>1, AtHand DEF Working, Accounted, Told
  <2> QED
    BY <1>2, <2>1, <2>2, <2>3, HandlerMovesAlone
<1> QED
  BY <1>1, <1>3, <1>4

LEMMA IdentifyKeeps ==
  ASSUME CirculationInv, NEW c \in Conns, Identify(c)
  PROVE  CirculationInv'
<1> DEFINE b == handler[c].req.aa
<1>1. /\ handler[c].pc = "identify" /\ UNCHANGED item
      /\ b \in Barcodes /\ handler[c].req.code # "09"
  BY AtHand DEF Identify, At, Working
<1>2. PICK found \in Identified(session[c], b) :
        /\ session' = [session EXCEPT ![c] = found.session]
        /\ IF found.patronID = NoPatron THEN Refuse(c)
           ELSE handler' = [handler EXCEPT ![c].pc = "verify", ![c].patronID = found.patronID]
  BY DEF Identify
<1>3. /\ found.session \in Session /\ Known(found.session)
      /\ found.patronID \in Patrons \cup {NoPatron}
      /\ found.patronID # NoPatron =>
           found.session.patronID = found.patronID /\ found.session.patronBarcode = b
  BY <1>1, AtHand, IdentifiedIsKnown
<1>4. item' \in [Items -> ItemRecord] /\ LentAtHome'
  BY <1>1 DEF CirculationInv, TypeOK, LentAtHome
<1>5. CASE found.patronID = NoPatron
  <2> DEFINE h == Answer(handler[c], "N")
  <2>1. h \in Handler /\ h.pc = "idle" /\ h.answer.ok = "N" /\ DidOnce(h, {}) /\ h.lost = {}
        /\ h.answer.renewed = {}
    BY <1>1, AtHand, AnsweredHandler DEF Accounted, DidOnce
  <2>2. handler' = [handler EXCEPT ![c] = h]
    BY <1>2, <1>5 DEF Refuse
  <2> HIDE DEF h
  <2>3. Working(h, found.session) /\ Accounted(h)
    BY <1>3, <2>1 DEF Working, Accounted, Told
  <2> QED
    BY <1>2, <1>3, <1>4, <2>1, <2>2, <2>3, HandlerMoves
<1>6. CASE found.patronID # NoPatron
  <2> DEFINE h == [handler[c] EXCEPT !.pc = "verify", !.patronID = found.patronID]
  <2>1. /\ h \in Handler /\ h.pc = "verify" /\ h.patronID = found.patronID
        /\ h.req = handler[c].req /\ h.done = handler[c].done /\ h.lost = handler[c].lost
        /\ h.answer = handler[c].answer
    <3>1. "verify" \in Stages /\ handler[c] \in Handler
      BY AtHand DEF Stages
    <3> QED
      BY <1>3, <3>1, HandlerFields
  <2>2. handler' = [handler EXCEPT ![c] = h]
    BY <1>2, <1>6
  <2> HIDE DEF h
  <2>3. Working(h, found.session)
    BY <1>1, <1>3, <1>6, <2>1 DEF Working
  <2>4. Accounted(h)
    BY <1>1, <2>1, AtHand DEF Accounted, DidOnce
  <2> QED
    BY <1>2, <1>3, <1>4, <2>1, <2>2, <2>3, <2>4, HandlerMoves
<1> QED
  BY <1>5, <1>6

(* A handler that has done nothing yet goes on. *)
LEMMA GoesOn ==
  ASSUME CirculationInv, NEW c \in Conns, NEW pc \in {"post", "loans", "checkin"},
         handler[c].pc \in {"verify", "claimed"}, Goto(c, pc), UNCHANGED <<item, session>>,
         Working([handler[c] EXCEPT !.pc = pc], session[c])
  PROVE  CirculationInv'
<1> DEFINE h == [handler[c] EXCEPT !.pc = pc]
<1>1. /\ h \in Handler /\ h.pc = pc /\ h.done = handler[c].done /\ h.lost = handler[c].lost
      /\ h.answer = handler[c].answer
  <2>1. pc \in Stages /\ handler[c] \in Handler
    BY AtHand DEF Stages
  <2> QED
    BY <2>1, HandlerFields
<1>2. handler' = [handler EXCEPT ![c] = h]
  BY DEF Goto
<1>3. Working(h, session[c])
  OBVIOUS
<1> HIDE DEF h
<1>4. Accounted(h)
  BY <1>1, AtHand DEF Accounted, DidOnce
<1> QED
  BY <1>1, <1>2, <1>3, <1>4, HandlerMovesAlone

LEMMA VerifyKeeps ==
  ASSUME CirculationInv, NEW c \in Conns, Verify(c)
  PROVE  CirculationInv'
<1> DEFINE h == handler[c]
           next == IF h.req.code = "65" THEN "loans" ELSE "post"
<1>1. h.pc = "verify" /\ UNCHANGED <<item, session>>
  BY DEF Verify, At
<1>2. PICK verified \in Verified(session[c], h.patronID, h.req.aa, h.req.secret) :
        IF verified THEN Goto(c, next) ELSE Refuse(c)
  BY DEF Verify
<1>3. CASE ~verified
  BY <1>1, <1>2, <1>3, RefusalHolds
<1>4. CASE verified
  <2>1. TRUE \in Verified(session[c], h.patronID, h.req.aa, h.req.secret)
    BY <1>4 DEF Verified, Verifies
  <2>2. Verifies(session[c], h.patronID, h.req.aa, h.req.secret)
    BY <2>1, VerifiedVerifies
  <2>3. /\ [h EXCEPT !.pc = next].pc = next /\ [h EXCEPT !.pc = next].req = h.req
        /\ [h EXCEPT !.pc = next].patronID = h.patronID
        /\ h.req.code \in {"09", "11", "29", "65"}
    <3>1. h \in Handler /\ h.req \in Request
      BY AtHand
    <3>2. h.req.code \in {"09", "11", "29", "65"}
      BY <3>1 DEF Request
    <3> HIDE DEF h, next
    <3> QED
      BY <3>1, <3>2, HandlerFields
  <2>4. Working([h EXCEPT !.pc = next], session[c])
    BY <1>1, <2>2, <2>3, AtHand DEF Working
  <2> QED
    BY <1>1, <1>2, <1>4, <2>4, GoesOn
<1> QED
  BY <1>3, <1>4

LEMMA CheckClaimedKeeps ==
  ASSUME CirculationInv, NEW c \in Conns, CheckClaimed(c)
  PROVE  CirculationInv'
<1>1. /\ handler[c].pc = "claimed" /\ UNCHANGED <<item, session>>
      /\ Refuse(c) \/ Goto(c, "checkin")
  BY DEF CheckClaimed, At
<1>2. Working([handler[c] EXCEPT !.pc = "checkin"], session[c])
  <2>1. /\ [handler[c] EXCEPT !.pc = "checkin"].pc = "checkin"
        /\ [handler[c] EXCEPT !.pc = "checkin"].req = handler[c].req
    BY AtHand, HandlerFields
  <2> QED
    BY <1>1, <2>1, AtHand DEF Working
<1> QED
  BY <1>1, <1>2, RefusalHolds, GoesOn

(* The one thing that 09, 11 or 29 ask for is done, and the answer comes or *)
(* is lost.                                                                 *)
LEMMA PostHolds ==
  ASSUME CirculationInv, NEW c \in Conns, handler[c].pc \in {"post", "checkin"},
         NEW i \in Items, i = handler[c].req.ab,
         NEW h, h \in {Answer(Did(handler[c], i), "Y"),
                       Answer([Did(handler[c], i) EXCEPT !.lost = {i}], "N")}
  PROVE  h \in Handler /\ Working(h, session[c]) /\ Accounted(h)
<1> DEFINE g == Did(handler[c], i)
           l == [g EXCEPT !.lost = {i}]
<1>1. /\ handler[c].req.code # "65" /\ DidOnce(handler[c], {}) /\ handler[c].lost = {}
  BY AtHand DEF Working, Accounted
<1>2. /\ g \in Handler /\ DidOnce(g, {i}) /\ g.req = handler[c].req /\ g.lost = {}
  <2>1. g \in Handler /\ DidOnce(g, {} \cup {i})
    BY <1>1, AtHand, DidHandler
  <2>2. g.req = handler[c].req /\ g.lost = {}
    BY <1>1, AtHand, DidHandler
  <2> QED
    BY <2>1, <2>2
<1>3. l \in Handler /\ l.done = g.done /\ l.req = g.req /\ l.lost = {i}
  <2> HIDE DEF g
  <2> QED
    BY <1>2, HandlerFields
<1> HIDE DEF g, l
<1>4. h = Answer(g, "Y") \/ h = Answer(l, "N")
  BY DEF g, l
<1>5. CASE h = Answer(g, "Y")
  <2>1. /\ h \in Handler /\ h.pc = "idle" /\ h.answer.ok = "Y" /\ h.req = handler[c].req
        /\ DidOnce(h, {i}) /\ h.lost = {}
    BY <1>2, <1>5, AnsweredHandler DEF DidOnce
  <2>2. Told(h) \cup h.lost = {i}
    BY <1>1, <2>1 DEF Told
  <2> QED
    BY <2>1, <2>2, AtHand DEF Working, Accounted
<1>6. CASE h = Answer(l, "N")
  <2>1. /\ h \in Handler /\ h.pc = "idle" /\ h.answer.ok = "N" /\ h.req = handler[c].req
        /\ DidOnce(h, {i}) /\ h.lost = {i}
    BY <1>2, <1>3, <1>6, AnsweredHandler DEF DidOnce
  <2>2. Told(h) \cup h.lost = {i}
    BY <1>1, <2>1 DEF Told
  <2> QED
    BY <2>1, <2>2, AtHand DEF Working, Accounted
<1> QED
  BY <1>4, <1>5, <1>6

(* The holder of the card in the device's tenant. *)
LEMMA HolderAtHome ==
  ASSUME CirculationInv, NEW c \in Conns, handler[c].pc = "post",
         GetUserByBarcode(session[c], handler[c].req.aa) # NoPatron
  PROVE  /\ GetUserByBarcode(session[c], handler[c].req.aa) \in Patrons
         /\ Home[GetUserByBarcode(session[c], handler[c].req.aa)] = session[c].tenant
<1>1. session[c] \in Session /\ handler[c].req.aa \in Barcodes
  BY AtHand DEF Working
<1> QED
  BY <1>1, HolderIsAtHome

LEMMA CheckoutKeeps ==
  ASSUME CirculationInv, NEW c \in Conns, Checkout(c)
  PROVE  CirculationInv'
<1> DEFINE i == handler[c].req.ab
           p == GetUserByBarcode(session[c], handler[c].req.aa)
<1>1. handler[c].pc = "post" /\ UNCHANGED session
  BY DEF Checkout, At
<1>2. CASE Refuse(c) /\ UNCHANGED item
  BY <1>1, <1>2, RefusalHolds
<1>3. ASSUME p # NoPatron, Reaches(session[c], i), item' = [item EXCEPT ![i] = LentTo(@, p)],
             NEW h \in {Answer(Did(handler[c], i), "Y"),
                        Answer([Did(handler[c], i) EXCEPT !.lost = {i}], "N")},
             handler' = [handler EXCEPT ![c] = h]
      PROVE  CirculationInv'
  <2>1. h \in Handler /\ Working(h, session[c]) /\ Accounted(h)
    BY <1>1, <1>3, PostHolds DEF Reaches
  <2>2. p \in Patrons /\ Home[p] = ItemHome[i] /\ i \in Items
    BY <1>1, <1>3, HolderAtHome DEF Reaches
  <2> DEFINE r == LentTo(item[i], p)
  <2>3. item[i] \in ItemRecord /\ 0 \in 0..MaxRenewals
    BY <2>2, CirculationAssumption DEF CirculationInv, TypeOK
  <2>4. r \in ItemRecord /\ r.borrower = p
    BY <2>2, <2>3 DEF ItemRecord, LentTo, Statuses
  <2>5. item' = [item EXCEPT ![i] = r]
    BY <1>3
  <2> HIDE DEF r, p, i
  <2> QED
    BY <1>1, <1>3, <2>1, <2>2, <2>4, <2>5, HandlerChangesItem
<1>4. CASE /\ p # NoPatron /\ Reaches(session[c], i)
           /\ item' = [item EXCEPT ![i] = LentTo(@, p)]
           /\ \/ handler' = [handler EXCEPT ![c] = Answer(Did(handler[c], i), "Y")]
              \/ handler' = [handler EXCEPT ![c] =
                               Answer([Did(handler[c], i) EXCEPT !.lost = {i}], "N")]
  BY <1>3, <1>4
<1> QED
  BY <1>2, <1>4 DEF Checkout

(* A renewal counts, and leaves the borrower. *)
LEMMA RenewedRecord ==
  ASSUME CirculationInv, NEW i \in Items, NEW p, Renewable(item[i], p)
  PROVE  /\ [item[i] EXCEPT !.renewals = @ + 1] \in ItemRecord
         /\ [item[i] EXCEPT !.renewals = @ + 1].borrower = item[i].borrower
         /\ item[i].borrower # NoPatron => Home[item[i].borrower] = ItemHome[i]
<1>1. item[i] \in ItemRecord
  BY DEF CirculationInv, TypeOK
<1>2. item[i].renewals + 1 \in 0..MaxRenewals
  <2>1. MaxRenewals \in Nat /\ item[i].renewals \in 0..MaxRenewals
    BY <1>1, CirculationAssumption DEF ItemRecord
  <2>2. item[i].renewals < MaxRenewals
    BY DEF Renewable
  <2> QED
    BY <2>1, <2>2
<1> QED
  BY <1>1, <1>2 DEF ItemRecord, CirculationInv, LentAtHome

LEMMA RenewKeeps ==
  ASSUME CirculationInv, NEW c \in Conns, Renew(c)
  PROVE  CirculationInv'
<1> DEFINE i == handler[c].req.ab
           p == GetUserByBarcode(session[c], handler[c].req.aa)
<1>1. handler[c].pc = "post" /\ UNCHANGED session
  BY DEF Renew, At
<1>2. CASE Refuse(c) /\ UNCHANGED item
  BY <1>1, <1>2, RefusalHolds
<1>3. ASSUME Reaches(session[c], i), Renewable(item[i], p),
             item' = [item EXCEPT ![i].renewals = @ + 1],
             NEW h \in {Answer(Did(handler[c], i), "Y"),
                        Answer([Did(handler[c], i) EXCEPT !.lost = {i}], "N")},
             handler' = [handler EXCEPT ![c] = h]
      PROVE  CirculationInv'
  <2>1. h \in Handler /\ Working(h, session[c]) /\ Accounted(h) /\ i \in Items
    BY <1>1, <1>3, PostHolds DEF Reaches
  <2> DEFINE r == [item[i] EXCEPT !.renewals = @ + 1]
  <2>2. /\ r \in ItemRecord
        /\ r.borrower # NoPatron => Home[r.borrower] = ItemHome[i]
    BY <1>3, <2>1, RenewedRecord
  <2>3. item' = [item EXCEPT ![i] = r]
    BY <1>3
  <2> HIDE DEF r
  <2> QED
    BY <1>1, <1>3, <2>1, <2>2, <2>3, HandlerChangesItem
<1>4. CASE /\ Reaches(session[c], i) /\ Renewable(item[i], p)
           /\ item' = [item EXCEPT ![i].renewals = @ + 1]
           /\ \/ handler' = [handler EXCEPT ![c] = Answer(Did(handler[c], i), "Y")]
              \/ handler' = [handler EXCEPT ![c] =
                               Answer([Did(handler[c], i) EXCEPT !.lost = {i}], "N")]
  BY <1>3, <1>4
<1> QED
  BY <1>2, <1>4 DEF Renew

LEMMA GetLoansKeeps ==
  ASSUME CirculationInv, NEW c \in Conns, GetLoans(c)
  PROVE  CirculationInv'
<1>1. handler[c].pc = "loans" /\ UNCHANGED <<item, session>>
  BY DEF GetLoans, At
<1>2. ASSUME NEW first \in FirstLoans(OpenLoans(session[c], handler[c].patronID)),
             handler' = [handler EXCEPT ![c].pc = "renewing", ![c].todo = first]
      PROVE  CirculationInv'
  <2> DEFINE h == [handler[c] EXCEPT !.pc = "renewing", !.todo = first]
  <2>1. first \subseteq Items
    BY <1>2 DEF FirstLoans, OpenLoans
  <2>2. /\ h \in Handler /\ h.pc = "renewing" /\ h.patronID = handler[c].patronID
        /\ h.req = handler[c].req /\ h.done = handler[c].done /\ h.lost = handler[c].lost
        /\ h.answer = handler[c].answer
    <3>1. "renewing" \in Stages /\ handler[c] \in Handler
      BY AtHand DEF Stages
    <3> QED
      BY <2>1, <3>1, HandlerFields
  <2>3. handler' = [handler EXCEPT ![c] = h]
    BY <1>2
  <2> HIDE DEF h
  <2>4. Working(h, session[c])
    BY <1>1, <2>2, AtHand DEF Working
  <2>5. Accounted(h)
    BY <1>1, <2>2, AtHand DEF Accounted, DidOnce
  <2> QED
    BY <1>1, <2>2, <2>3, <2>4, <2>5, HandlerMovesAlone
<1> QED
  BY <1>1, <1>2, RefusalHolds DEF GetLoans

(* A renewal goes over to one list or the other, and with it to what was    *)
(* done or lost.                                                            *)
LEMMA RenewalHolds ==
  ASSUME CirculationInv, NEW c \in Conns, handler[c].pc = "renewing", NEW i \in handler[c].todo,
         NEW g \in Handler,
         g.pc = "renewing" /\ g.req = handler[c].req /\ g.patronID = handler[c].patronID,
         g.todo = handler[c].todo \ {i},
         g.answer.ok = "none",
         DidOnce(g, g.answer.renewed \cup g.lost),
         g.answer.renewed \cup g.lost \subseteq handler[c].answer.renewed \cup handler[c].lost \cup {i}
  PROVE  Working(g, session[c]) /\ Accounted(g)
<1>1. Working(g, session[c])
  BY AtHand DEF Working
<1>2. g.todo \cap (g.answer.renewed \cup g.lost) = {}
  BY AtHand DEF Accounted
<1>3. Accounted(g)
  BY <1>2 DEF Accounted
<1> QED
  BY <1>1, <1>3

LEMMA AnswerRenewAllKeeps ==
  ASSUME CirculationInv, NEW c \in Conns, AnswerRenewAll(c)
  PROVE  CirculationInv'
<1> DEFINE ok == RenewAllOK(handler[c])
           h == Answer(handler[c], ok)
<1>1. handler[c].pc = "renewing" /\ UNCHANGED <<item, session>> /\ handler[c].req.code = "65"
  BY AtHand DEF AnswerRenewAll, At, Working
<1>2. ok \in {"Y", "N"}
  BY DEF RenewAllOK
<1>3. /\ h \in Handler /\ h.pc = "idle" /\ h.req = handler[c].req /\ h.answer.ok = ok
      /\ h.done = handler[c].done /\ h.lost = handler[c].lost
      /\ h.answer.renewed = handler[c].answer.renewed
  BY <1>2, AtHand, AnsweredHandler
<1>4. handler' = [handler EXCEPT ![c] = h]
  BY DEF AnswerRenewAll
<1> HIDE DEF h
<1>5. Working(h, session[c])
  BY <1>3, AtHand DEF Working
<1>6. DidOnce(h, Told(h) \cup h.lost)
  BY <1>1, <1>3, AtHand DEF Accounted, Told, DidOnce
<1>7. Accounted(h)
  BY <1>3, <1>6 DEF Accounted
<1> QED
  BY <1>1, <1>3, <1>4, <1>5, <1>7, HandlerMovesAlone

LEMMA CheckinKeeps ==
  ASSUME CirculationInv, NEW c \in Conns, Checkin(c)
  PROVE  CirculationInv'
<1> DEFINE i == handler[c].req.ab
           r == Returned(item[i])
<1>1. handler[c].pc = "checkin" /\ UNCHANGED session
  BY DEF Checkin, At
<1>2. CASE Refuse(c) /\ UNCHANGED item
  BY <1>1, <1>2, RefusalHolds
<1>3. ASSUME i \in Items, item' = [item EXCEPT ![i] = Returned(@)],
             NEW h \in Handler, handler' = [handler EXCEPT ![c] = h],
             Working(h, session[c]), Accounted(h)
      PROVE  CirculationInv'
  <2>1. item[i] \in ItemRecord /\ 0 \in 0..MaxRenewals
    BY <1>3, CirculationAssumption DEF CirculationInv, TypeOK
  <2>2. r \in ItemRecord /\ r.borrower = NoPatron
    BY <2>1 DEF ItemRecord, Returned, Statuses
  <2>3. item' = [item EXCEPT ![i] = r]
    BY <1>3
  <2> HIDE DEF r, i
  <2> QED
    BY <1>1, <1>3, <2>2, <2>3, HandlerChangesItem
<1>4. ASSUME Reaches(session[c], i), item' = [item EXCEPT ![i] = Returned(@)],
             handler' = [handler EXCEPT ![c] = [Did(handler[c], i) EXCEPT !.pc = "item"]]
      PROVE  CirculationInv'
  <2> DEFINE g == Did(handler[c], i)
             h == [g EXCEPT !.pc = "item"]
  <2>1. i \in Items /\ handler[c].req.code = "09"
    BY <1>1, <1>4, AtHand DEF Reaches, Working
  <2>2. g \in Handler /\ DidOnce(g, {i})
    <3>1. DidOnce(handler[c], {})
      BY <1>1, AtHand DEF Accounted
    <3>2. g \in Handler /\ DidOnce(g, {} \cup {i})
      BY <2>1, <3>1, AtHand, DidHandler
    <3> QED
      BY <3>2
  <2>3. g.req = handler[c].req /\ g.lost = {} /\ g.answer.ok = "none"
    BY <1>1, <2>1, AtHand, DidHandler DEF Accounted
  <2>4. handler' = [handler EXCEPT ![c] = h]
    BY <1>4
  <2> HIDE DEF g
  <2>5. /\ h \in Handler /\ h.pc = "item" /\ h.req = handler[c].req /\ h.done = g.done
        /\ h.lost = {} /\ h.answer = g.answer
    <3>1. "item" \in Stages
      BY DEF Stages
    <3> QED
      BY <2>2, <2>3, <3>1, HandlerFields
  <2> HIDE DEF h
  <2>6. Working(h, session[c])
    BY <2>1, <2>5, AtHand DEF Working
  <2>7. Accounted(h)
    BY <2>2, <2>3, <2>5 DEF Accounted, DidOnce
  <2> QED
    BY <1>3, <1>4, <2>1, <2>4, <2>5, <2>6, <2>7
<1>5. ASSUME Reaches(session[c], i), item' = [item EXCEPT ![i] = Returned(@)],
             handler' = [handler EXCEPT ![c] =
                           Answer([Did(handler[c], i) EXCEPT !.lost = {i}], "N")]
      PROVE  CirculationInv'
  <2>1. i \in Items
    BY <1>5 DEF Reaches
  <2> DEFINE h == Answer([Did(handler[c], i) EXCEPT !.lost = {i}], "N")
  <2>2. h \in Handler /\ Working(h, session[c]) /\ Accounted(h)
    BY <1>1, <2>1, PostHolds
  <2> QED
    BY <1>3, <1>5, <2>1, <2>2
<1> QED
  BY <1>2, <1>4, <1>5 DEF Checkin

(* A checkin that was done is answered Y, whatever the reads after it give. *)
LEMMA CheckedInHolds ==
  ASSUME CirculationInv, NEW c \in Conns, handler[c].pc \in {"item", "requests"},
         NEW h \in Handler, h.pc = "idle", h.answer.ok = "Y", h.req = handler[c].req,
         h.done = handler[c].done, h.lost = handler[c].lost
  PROVE  Working(h, session[c]) /\ Accounted(h)
<1>1. handler[c].req.code = "09" /\ DidOnce(handler[c], {handler[c].req.ab})
      /\ handler[c].lost = {}
  BY AtHand DEF Working, Accounted
<1>2. DidOnce(h, Told(h) \cup h.lost)
  <2>1. Told(h) \cup h.lost = {handler[c].req.ab}
    BY <1>1 DEF Told
  <2> QED
    BY <1>1, <2>1 DEF DidOnce
<1> QED
  BY <1>2, AtHand DEF Working, Accounted

LEMMA FetchItemKeeps ==
  ASSUME CirculationInv, NEW c \in Conns, FetchItem(c)
  PROVE  CirculationInv'
<1> DEFINE i == handler[c].req.ab
<1>1. handler[c].pc = "item" /\ UNCHANGED <<item, session>>
  BY DEF FetchItem, At
<1>2. CASE handler' = [handler EXCEPT ![c] = [Answer(@, "Y") EXCEPT !.failed = TRUE]]
  <2> DEFINE g == Answer(handler[c], "Y")
             h == [g EXCEPT !.failed = TRUE]
  <2>1. /\ g \in Handler /\ g.pc = "idle" /\ g.answer.ok = "Y" /\ g.req = handler[c].req
        /\ g.done = handler[c].done /\ g.lost = handler[c].lost
    BY AtHand, AnsweredHandler
  <2>2. handler' = [handler EXCEPT ![c] = h]
    BY <1>2
  <2> HIDE DEF g
  <2>3. /\ h \in Handler /\ h.pc = "idle" /\ h.answer.ok = "Y" /\ h.req = handler[c].req
        /\ h.done = handler[c].done /\ h.lost = handler[c].lost
    BY <2>1, HandlerFields
  <2> HIDE DEF h
  <2> QED
    BY <1>1, <2>2, <2>3, CheckedInHolds, HandlerMovesAlone
<1>3. CASE handler' = [handler EXCEPT ![c].pc = "requests",
                                      ![c].seen = [@ EXCEPT !.status = item[i].status]]
  <2> DEFINE seen == [handler[c].seen EXCEPT !.status = item[i].status]
             h == [handler[c] EXCEPT !.pc = "requests", !.seen = seen]
  <2>1. i \in Items
    BY <1>1, AtHand DEF Working
  <2>2. item[i].status \in Statuses
    BY <2>1 DEF CirculationInv, TypeOK, ItemRecord
  <2>3. seen \in Seen
    <3>1. handler[c].seen \in Seen
      BY AtHand, HandlerFields
    <3> QED
      BY <2>2, <3>1 DEF Seen
  <2>4. handler' = [handler EXCEPT ![c] = h]
    BY <1>3
  <2> HIDE DEF seen
  <2>5. handler[c] \in Handler
    BY AtHand
  <2>6. /\ h \in Handler /\ h.pc = "requests" /\ h.req = handler[c].req
        /\ h.done = handler[c].done /\ h.lost = handler[c].lost /\ h.answer = handler[c].answer
    <3>1. "requests" \in Stages
      BY DEF Stages
    <3> QED
      BY <2>3, <2>5, <3>1, HandlerFields
  <2> HIDE DEF h
  <2>7. Working(h, session[c])
    BY <1>1, <2>1, <2>6, AtHand DEF Working
  <2>8. Accounted(h)
    BY <1>1, <2>6, AtHand DEF Accounted, DidOnce
  <2> QED
    BY <1>1, <2>4, <2>6, <2>7, <2>8, HandlerMovesAlone
<1> QED
  BY <1>1, <1>2, <1>3 DEF FetchItem

LEMMA FetchRequestsKeeps ==
  ASSUME CirculationInv, NEW c \in Conns, FetchRequests(c)
  PROVE  CirculationInv'
<1> DEFINE i == handler[c].req.ab
           g == Answer(handler[c], "Y")
           Answered(request, failed) ==
             [g EXCEPT !.answer.alert = AlertType(handler[c].seen.status, request),
                       !.seen.request = request, !.failed = failed]
<1>1. handler[c].pc = "requests" /\ UNCHANGED <<item, session>>
  BY DEF FetchRequests, At
<1>2. \E request \in {"none", item[i].request}, failed \in BOOLEAN :
        handler' = [handler EXCEPT ![c] = Answered(request, failed)]
  BY DEF FetchRequests
<1>3. PICK request \in {"none", item[i].request}, failed \in BOOLEAN :
        handler' = [handler EXCEPT ![c] = Answered(request, failed)]
  BY <1>2
<1>4. request \in {"none", "Hold", "Page"}
  <2>1. i \in Items
    BY <1>1, AtHand DEF Working
  <2> QED
    BY <2>1 DEF CirculationInv, TypeOK, ItemRecord
<1>5. /\ g \in Handler /\ g.pc = "idle" /\ g.answer.ok = "Y" /\ g.req = handler[c].req
      /\ g.done = handler[c].done /\ g.lost = handler[c].lost
  BY AtHand, AnsweredHandler
<1>6. AlertType(handler[c].seen.status, request) \in {"", "01", "02", "04"}
  BY DEF AlertType, CalculateAlertType
<1> DEFINE alert == AlertType(handler[c].seen.status, request)
           answer == [g.answer EXCEPT !.alert = alert]
           seen == [g.seen EXCEPT !.request = request]
           h == [g EXCEPT !.answer = answer, !.seen = seen, !.failed = failed]
<1>7. handler' = [handler EXCEPT ![c] = h]
  BY <1>3
<1> HIDE DEF alert, g
<1>8. answer \in Answers /\ answer.ok = "Y" /\ seen \in Seen
  <2>1. g.answer \in Answers /\ g.seen \in Seen
    BY <1>5, HandlerFields
  <2> QED
    BY <1>4, <1>5, <1>6, <2>1 DEF Answers, Seen, alert
<1> HIDE DEF answer, seen
<1>9. /\ h \in Handler /\ h.pc = "idle" /\ h.answer.ok = "Y" /\ h.req = handler[c].req
      /\ h.done = handler[c].done /\ h.lost = handler[c].lost
  BY <1>5, <1>8, HandlerFields
<1> HIDE DEF h
<1> QED
  BY <1>1, <1>7, <1>9, CheckedInHolds, HandlerMovesAlone

LEMMA RenewOneKeeps ==
  ASSUME CirculationInv, NEW c \in Conns, RenewOne(c)
  PROVE  CirculationInv'
<1> DEFINE h == handler[c]
           Over(g, j, list) == [g EXCEPT !.todo = @ \ {j}, !.answer[list] = @ \cup {j}]
<1>1. h.pc = "renewing" /\ UNCHANGED session /\ h.answer.ok = "none"
  BY AtHand DEF RenewOne, At, Accounted
<1>2. PICK i \in h.todo :
        \/ /\ Reaches(session[c], i) /\ Renewable(item[i], h.patronID)
           /\ item' = [item EXCEPT ![i].renewals = @ + 1]
           /\ \/ handler' = [handler EXCEPT ![c] = Over(Did(h, i), i, "renewed")]
              \/ handler' = [handler EXCEPT ![c] =
                               [Over(Did(h, i), i, "unrenewed") EXCEPT !.lost = @ \cup {i}]]
        \/ /\ handler' = [handler EXCEPT ![c] = Over(h, i, "unrenewed")]
           /\ UNCHANGED item
  BY DEF RenewOne
<1>3. i \in Items
  BY AtHand, HandlerFields
<1>4. DidOnce(h, h.answer.renewed \cup h.lost) /\ i \notin h.answer.renewed \cup h.lost
  BY <1>1, AtHand DEF Accounted
<1> DEFINE d == Did(h, i)
<1>5. /\ d \in Handler /\ d.pc = h.pc /\ d.req = h.req /\ d.patronID = h.patronID
      /\ d.todo = h.todo /\ d.lost = h.lost /\ d.answer = h.answer
      /\ DidOnce(d, h.answer.renewed \cup h.lost \cup {i})
  <2>1. d \in Handler /\ DidOnce(d, h.answer.renewed \cup h.lost \cup {i})
    BY <1>3, <1>4, AtHand, DidHandler
  <2>2. /\ d.pc = h.pc /\ d.req = h.req /\ d.patronID = h.patronID
        /\ d.todo = h.todo /\ d.lost = h.lost /\ d.answer = h.answer
    BY <1>3, AtHand, DidHandler
  <2> QED
    BY <2>1, <2>2
(* A loan that FOLIO renewed. *)
<1>6. ASSUME Reaches(session[c], i), Renewable(item[i], h.patronID),
             item' = [item EXCEPT ![i].renewals = @ + 1],
             NEW g \in Handler, handler' = [handler EXCEPT ![c] = g],
             Working(g, session[c]), Accounted(g)
      PROVE  CirculationInv'
  <2> DEFINE r == [item[i] EXCEPT !.renewals = @ + 1]
  <2>1. /\ r \in ItemRecord
        /\ r.borrower # NoPatron => Home[r.borrower] = ItemHome[i]
    BY <1>3, <1>6, RenewedRecord
  <2>2. item' = [item EXCEPT ![i] = r]
    BY <1>6
  <2> HIDE DEF r
  <2> QED
    BY <1>1, <1>3, <1>6, <2>1, <2>2, HandlerChangesItem
<1> HIDE DEF d
(* The three ways it goes over. *)
<1>7. /\ Over(d, i, "renewed") \in Handler
      /\ Working(Over(d, i, "renewed"), session[c]) /\ Accounted(Over(d, i, "renewed"))
  <2> DEFINE answer == [d.answer EXCEPT !.renewed = @ \cup {i}]
             todo == d.todo \ {i}
             g == [d EXCEPT !.todo = todo, !.answer = answer]
  <2>1. /\ answer \in Answers
        /\ answer.ok = "none" /\ answer.renewed = h.answer.renewed \cup {i}
    <3>1. d.answer \in Answers
      BY <1>5, HandlerFields
    <3> QED
      BY <1>1, <1>3, <1>5, <3>1 DEF Answers
  <2>2. todo \subseteq Items
    BY <1>5, HandlerFields
  <2> HIDE DEF answer, todo
  <2>3. /\ g \in Handler /\ g.pc = "renewing" /\ g.req = h.req /\ g.patronID = h.patronID
        /\ g.todo = todo /\ g.lost = h.lost /\ g.answer = answer /\ g.done = d.done
    <3> HIDE DEF h
    <3> QED
      BY <1>1, <1>5, <2>1, <2>2, HandlerFields
  <2> HIDE DEF g
  <2>4. DidOnce(g, g.answer.renewed \cup g.lost)
    BY <1>5, <2>1, <2>3 DEF DidOnce
  <2>5. Working(g, session[c]) /\ Accounted(g)
    BY <1>1, <1>5, <2>1, <2>3, <2>4, RenewalHolds DEF todo
  <2>6. Over(d, i, "renewed") = g
    BY DEF g, answer, todo
  <2> QED
    BY <2>3, <2>5, <2>6
<1>8. ASSUME NEW e \in Handler, e.pc = "renewing", e.req = h.req, e.patronID = h.patronID,
             e.todo = h.todo, e.lost = h.lost, e.answer = h.answer, NEW lost \in SUBSET Items,
             lost \in {h.lost, h.lost \cup {i}}, DidOnce(e, h.answer.renewed \cup lost),
             NEW f, f = Over(e, i, "unrenewed"), NEW g, g = [f EXCEPT !.lost = lost]
      PROVE  g \in Handler /\ Working(g, session[c]) /\ Accounted(g)
  <2> DEFINE answer == [e.answer EXCEPT !.unrenewed = @ \cup {i}]
             todo == e.todo \ {i}
  <2>1. answer \in Answers /\ answer.ok = "none" /\ answer.renewed = h.answer.renewed
    <3>1. e.answer \in Answers
      BY <1>8, HandlerFields
    <3> QED
      BY <1>1, <1>3, <1>8, <3>1 DEF Answers
  <2>2. todo \subseteq Items
    BY <1>8, HandlerFields
  <2>3. f = [e EXCEPT !.todo = todo, !.answer = answer]
    BY <1>8
  <2> HIDE DEF answer, todo
  <2>4. /\ g \in Handler /\ g.pc = "renewing" /\ g.req = h.req /\ g.patronID = h.patronID
        /\ g.todo = todo /\ g.lost = lost /\ g.answer = answer /\ g.done = e.done
    <3>1. /\ f \in Handler /\ f.pc = e.pc /\ f.req = e.req /\ f.patronID = e.patronID
          /\ f.todo = todo /\ f.answer = answer /\ f.done = e.done
      BY <2>1, <2>2, <2>3, HandlerFields
    <3> HIDE DEF h
    <3> QED
      BY <1>8, <3>1, HandlerFields
  <2>5. DidOnce(g, g.answer.renewed \cup g.lost)
    BY <1>8, <2>1, <2>4 DEF DidOnce
  <2>6. /\ g.todo = h.todo \ {i} /\ g.answer.ok = "none"
        /\ g.answer.renewed \cup g.lost \subseteq h.answer.renewed \cup h.lost \cup {i}
        /\ g.pc = "renewing" /\ g.req = h.req /\ g.patronID = h.patronID
    BY <1>8, <2>1, <2>4 DEF todo
  <2>7. Working(g, session[c]) /\ Accounted(g)
    BY <1>1, <2>4, <2>5, <2>6, RenewalHolds
  <2> QED
    BY <2>4, <2>7
<1>9. CASE /\ Reaches(session[c], i) /\ Renewable(item[i], h.patronID)
           /\ item' = [item EXCEPT ![i].renewals = @ + 1]
           /\ handler' = [handler EXCEPT ![c] = Over(d, i, "renewed")]
  BY <1>6, <1>7, <1>9
<1>10. CASE /\ Reaches(session[c], i) /\ Renewable(item[i], h.patronID)
            /\ item' = [item EXCEPT ![i].renewals = @ + 1]
            /\ handler' = [handler EXCEPT ![c] =
                             [Over(d, i, "unrenewed") EXCEPT !.lost = @ \cup {i}]]
  <2> DEFINE g == [Over(d, i, "unrenewed") EXCEPT !.lost = h.lost \cup {i}]
  <2>1. h.lost \cup {i} \in SUBSET Items /\ DidOnce(d, h.answer.renewed \cup (h.lost \cup {i}))
    <3>1. h.answer.renewed \cup (h.lost \cup {i}) = h.answer.renewed \cup h.lost \cup {i}
      OBVIOUS
    <3> QED
      BY <1>3, <1>5, <3>1, AtHand, HandlerFields
  <2>2. g \in Handler /\ Working(g, session[c]) /\ Accounted(g)
    BY <1>1, <1>5, <1>8, <2>1
  <2>3. Over(d, i, "unrenewed").lost = h.lost
    BY <1>5, HandlerFields
  <2>4. handler' = [handler EXCEPT ![c] = g]
    BY <1>10, <2>3
  <2> HIDE DEF g
  <2> QED
    BY <1>6, <1>10, <2>2, <2>4
<1>11. CASE /\ handler' = [handler EXCEPT ![c] = Over(h, i, "unrenewed")]
            /\ UNCHANGED item
  <2> DEFINE g == [Over(h, i, "unrenewed") EXCEPT !.lost = h.lost]
  <2>1. h \in Handler /\ h.lost \in SUBSET Items
    BY AtHand, HandlerFields
  <2>2. g \in Handler /\ Working(g, session[c]) /\ Accounted(g)
    BY <1>1, <1>4, <1>8, <2>1
  <2>3. Over(h, i, "unrenewed") = g
    BY <2>1, HandlerFields
  <2>4. handler' = [handler EXCEPT ![c] = g]
    BY <1>11, <2>3
  <2> HIDE DEF g
  <2> QED
    BY <1>1, <1>11, <2>2, <2>4, HandlerMovesAlone
<1> QED
  BY <1>2, <1>9, <1>10, <1>11 DEF d

(* What the device says between two messages changes only its session.      *)
LEMMA SessionMoves ==
  ASSUME CirculationInv, NEW c \in Conns, handler[c].pc = "idle", NEW s \in Session, Known(s),
         session' = [session EXCEPT ![c] = s], UNCHANGED <<item, handler>>
  PROVE  CirculationInv'
<1>1. handler' = [handler EXCEPT ![c] = handler[c]] /\ handler[c] \in Handler
  BY DEF CirculationInv, TypeOK
<1>2. item' \in [Items -> ItemRecord] /\ LentAtHome'
  BY DEF CirculationInv, TypeOK, LentAtHome
<1>3. Working(handler[c], s) /\ Accounted(handler[c])
  BY AtHand DEF Working
<1> QED
  BY <1>1, <1>2, <1>3, HandlerMoves

LEMMA EndPatronSessionKeeps ==
  ASSUME CirculationInv, NEW c \in Conns, EndPatronSession(c)
  PROVE  CirculationInv'
<1>1. /\ handler[c].pc = "idle" /\ UNCHANGED <<item, handler>>
      /\ session' = [session EXCEPT ![c] = ClearPatron(session[c])]
  BY DEF EndPatronSession, At
<1> QED
  BY <1>1, AtHand, ClearedIsKnown, SessionMoves

LEMMA LoginKeeps ==
  ASSUME CirculationInv, NEW c \in Conns, Login(c)
  PROVE  CirculationInv'
<1>1. PICK t \in Tenants, s \in Settings :
        /\ handler[c].pc = "idle" /\ UNCHANGED <<item, handler>>
        /\ session' = [session EXCEPT ![c] = MovedTo(session[c], t, s)]
  BY DEF Login, At
<1> QED
  BY <1>1, AtHand, MovedIsKnown, SessionMoves

(* Staff lend to patrons of the item's tenant, too. *)
LEMMA StaffKeeps ==
  ASSUME CirculationInv, NEW i \in Items, Staff(i)
  PROVE  CirculationInv'
<1>1. PICK r \in RecordsOf(i) : item' = [item EXCEPT ![i] = r] /\ UNCHANGED <<session, handler>>
  BY DEF Staff
<1>2. r \in ItemRecord /\ (r.borrower # NoPatron => Home[r.borrower] = ItemHome[i])
  BY CirculationAssumption DEF RecordsOf
<1>3. item' \in [Items -> ItemRecord] /\ LentAtHome'
  BY <1>1, <1>2 DEF CirculationInv, TypeOK, LentAtHome
<1> QED
  BY <1>1, <1>3 DEF CirculationInv, TypeOK

LEMMA InitCirculation == Init => CirculationInv
<1> SUFFICES ASSUME Init PROVE CirculationInv
  OBVIOUS
<1>1. NoRequest \in Request
  BY DEF NoRequest, Request
<1>2. Fresh("idle", NoRequest) \in Handler
  BY <1>1, FreshHandler
<1>3. session \in [Conns -> Session] /\ \A c \in Conns : Known(session[c])
  BY NewIsKnown DEF Init, NewSessions
<1>4. item \in [Items -> ItemRecord] /\ LentAtHome
  BY CirculationAssumption DEF Init, RecordsOf, LentAtHome
<1>5. \A c \in Conns : Working(Fresh("idle", NoRequest), session[c])
  BY <1>1, <1>3, FreshHandler DEF Working
<1>6. Accounted(Fresh("idle", NoRequest))
  BY <1>1, FreshHandler DEF Accounted
<1> QED
  BY <1>2, <1>3, <1>4, <1>5, <1>6 DEF Init, CirculationInv, TypeOK

LEMMA StepCirculation == CirculationInv /\ [Next]_vars => CirculationInv'
<1> SUFFICES ASSUME CirculationInv, [Next]_vars PROVE CirculationInv'
  OBVIOUS
<1>1. CASE UNCHANGED vars
  BY <1>1 DEF vars, CirculationInv, TypeOK, LentAtHome
<1>2. CASE Next
  BY <1>2, ReceiveKeeps, IdentifyKeeps, VerifyKeeps, CheckoutKeeps, RenewKeeps, GetLoansKeeps,
     RenewOneKeeps, AnswerRenewAllKeeps, CheckClaimedKeeps, CheckinKeeps, FetchItemKeeps,
     FetchRequestsKeeps, EndPatronSessionKeeps, LoginKeeps, StaffKeeps
  DEF Next
<1> QED
  BY <1>1, <1>2

---------------------------------------------------------------------------
(* Which steps make FOLIO do something for a message. *)

(* What FOLIO did for one item more, it did for that item. *)
LEMMA DoneFor ==
  ASSUME NEW h \in Handler, NEW j \in Items, NEW i \in Items, NEW g,
         g.done = Did(h, j).done, g.done[i] > h.done[i]
  PROVE  i = j
<1>1. h.done \in [Items -> Nat] /\ g.done = [h.done EXCEPT ![j] = @ + 1]
  BY DidHandler, HandlerFields
<1> QED
  BY <1>1

(* The answered handlers keep what was done. *)
LEMMA DoneKept ==
  ASSUME NEW h \in Handler, NEW j \in Items
  PROVE  /\ Answer(Did(h, j), "Y").done = Did(h, j).done
         /\ Answer([Did(h, j) EXCEPT !.lost = {j}], "N").done = Did(h, j).done
<1>1. Did(h, j) \in Handler
  BY DidHandler
<1> DEFINE l == [Did(h, j) EXCEPT !.lost = {j}]
<1>2. l \in Handler /\ l.done = Did(h, j).done
  BY <1>1, HandlerFields
<1> QED
  BY <1>1, <1>2, AnsweredHandler

(* A handler that acts comes to another account of what was done; a refusal *)
(* does not.                                                                *)
LEMMA ActingChanges ==
  ASSUME CirculationInv, NEW c \in Conns, NEW i \in Items, Acts(c, i)
  PROVE  /\ \A h : handler' = [handler EXCEPT ![c] = h] => h.done # handler[c].done
         /\ ~Refuse(c)
<1>1. handler[c] \in Handler /\ handler[c].done[i] \in Nat /\ DOMAIN handler = Conns
  <2>1. handler[c] \in Handler
    BY AtHand
  <2>2. handler[c].done \in [Items -> Nat]
    BY <2>1, HandlerFields
  <2> QED
    BY <2>1, <2>2 DEF CirculationInv, TypeOK
<1>2. ASSUME NEW h, handler' = [handler EXCEPT ![c] = h], h.done = handler[c].done
      PROVE  FALSE
  BY <1>1, <1>2 DEF Acts
<1>3. ~Refuse(c)
  <2>1. Answer(handler[c], "N").done = handler[c].done
    BY <1>1, AnsweredHandler
  <2> QED
    BY <1>2, <2>1 DEF Refuse
<1> QED
  BY <1>2, <1>3

(* Checkout, Renew, one renewal of 65 and Checkin are the only steps that   *)
(* act, and each acts for the item it asks for.                             *)
LEMMA Actors ==
  ASSUME CirculationInv, [Next]_vars, NEW c \in Conns, NEW i \in Items, Acts(c, i)
  PROVE  Checkout(c) \/ Renew(c) \/ RenewOne(c) \/ Checkin(c)
<1>1. handler[c] \in Handler /\ handler[c].done[i] \in Nat /\ DOMAIN handler = Conns
  <2>1. handler[c] \in Handler
    BY AtHand
  <2>2. handler[c].done \in [Items -> Nat]
    BY <2>1, HandlerFields
  <2> QED
    BY <2>1, <2>2 DEF CirculationInv, TypeOK
<1>2. ~UNCHANGED handler
  BY <1>1 DEF Acts
<1>3. PICK d \in Conns :
        \/ Receive(d) \/ Identify(d) \/ Verify(d) \/ Checkout(d) \/ Renew(d)
        \/ GetLoans(d) \/ RenewOne(d) \/ AnswerRenewAll(d)
        \/ CheckClaimed(d) \/ Checkin(d) \/ FetchItem(d) \/ FetchRequests(d)
  BY <1>2 DEF Next, vars, EndPatronSession, Login, Staff
<1>4. d = c
  <2>1. \E h : handler' = [handler EXCEPT ![d] = h]
    BY <1>3 DEF Receive, Identify, Verify, Checkout, Renew, GetLoans, RenewOne, AnswerRenewAll,
                CheckClaimed, Checkin, FetchItem, FetchRequests, Refuse, Goto
  <2> QED
    BY <1>1, <2>1 DEF Acts
<1>5. ASSUME NEW h, handler' = [handler EXCEPT ![c] = h], h.done = handler[c].done
      PROVE  FALSE
  BY <1>5, ActingChanges
<1>6. ~Refuse(c)
  BY ActingChanges
<1>7. \A pc : ~Goto(c, pc)
  BY <1>1, <1>5, HandlerFields DEF Goto
<1>8. ~Receive(c)
  <2>1. ASSUME NEW h, handler' = [handler EXCEPT ![c] = h], DidOnce(h, {})
        PROVE  FALSE
    BY <1>1, <2>1 DEF Acts, DidOnce
  <2> QED
    BY <2>1, FreshHandler, AnsweredHandler, CirculationAssumption DEF Receive, DidOnce
<1>9. ~Identify(c)
  BY <1>1, <1>5, <1>6, HandlerFields DEF Identify
<1>10. ~Verify(c) /\ ~CheckClaimed(c)
  BY <1>6, <1>7 DEF Verify, CheckClaimed
<1>11. ~GetLoans(c)
  <2>1. \A first : [handler[c] EXCEPT !.pc = "renewing", !.todo = first].done = handler[c].done
    BY <1>1, HandlerFields
  <2> QED
    BY <1>5, <1>6, <2>1 DEF GetLoans
<1>12. ~AnswerRenewAll(c)
  BY <1>1, <1>5, AnsweredHandler DEF AnswerRenewAll, RenewAllOK
<1>13. ~FetchItem(c)
  <2> DEFINE g == Answer(handler[c], "Y")
             status == item[handler[c].req.ab].status
             seen == [handler[c].seen EXCEPT !.status = status]
             h == [handler[c] EXCEPT !.pc = "requests", !.seen = seen]
             e == [g EXCEPT !.failed = TRUE]
  <2>1. g \in Handler /\ g.done = handler[c].done
    BY <1>1, AnsweredHandler
  <2>2. FetchItem(c) => handler' = [handler EXCEPT ![c] = h] \/ handler' = [handler EXCEPT ![c] = e]
    BY DEF FetchItem
  <2> HIDE DEF g, seen
  <2>3. h.done = handler[c].done /\ e.done = handler[c].done
    BY <1>1, <2>1, HandlerFields
  <2> HIDE DEF h, e
  <2> QED
    BY <1>5, <2>2, <2>3
<1>14. ~FetchRequests(c)
  <2> DEFINE g == Answer(handler[c], "Y")
             alert(request) == AlertType(handler[c].seen.status, request)
             h(request, failed) ==
               [g EXCEPT !.answer = [@ EXCEPT !.alert = alert(request)],
                         !.seen = [@ EXCEPT !.request = request], !.failed = failed]
  <2>1. g \in Handler /\ g.done = handler[c].done
    BY <1>1, AnsweredHandler
  <2> DEFINE j == handler[c].req.ab
             told == IF item[j].status \in {"In transit", "Awaiting pickup"}
                     THEN item[j].request ELSE "none"
  <2>2. FetchRequests(c) => \/ handler' = [handler EXCEPT ![c] = h(told, FALSE)]
                            \/ handler' = [handler EXCEPT ![c] = h("none", TRUE)]
    BY DEF FetchRequests
  <2> HIDE DEF g, alert
  <2>3. \A request, failed : h(request, failed).done = handler[c].done
    BY <2>1, HandlerFields
  <2> HIDE DEF h
  <2> QED
    BY <1>5, <2>2, <2>3
<1> QED
  BY <1>3, <1>4, <1>8, <1>9, <1>10, <1>11, <1>12, <1>13, <1>14

(* The step that acts for an item: a loan to the holder of the card, or a   *)
(* renewal of a loan of the holder or of the remembered patron.             *)
LEMMA LendingSteps ==
  ASSUME CirculationInv, [Next]_vars, NEW c \in Conns, NEW i \in Items, Acts(c, i),
         handler[c].req.code # "09"
  PROVE  /\ item'[i].borrower = Holder(c)
         /\ Working(handler[c], session[c]) /\ handler[c].pc \in {"post", "renewing"}
<1>1. handler[c] \in Handler /\ session[c] \in Session /\ Working(handler[c], session[c])
  BY AtHand
<1>2. item \in [Items -> ItemRecord] /\ DOMAIN handler = Conns
  BY DEF CirculationInv, TypeOK
<1> DEFINE j == handler[c].req.ab
           p == GetUserByBarcode(session[c], handler[c].req.aa)
<1>3. ASSUME j \in Items,
             \/ handler' = [handler EXCEPT ![c] = Answer(Did(handler[c], j), "Y")]
             \/ handler' = [handler EXCEPT ![c] =
                              Answer([Did(handler[c], j) EXCEPT !.lost = {j}], "N")]
      PROVE  i = j
  <2>1. handler'[c].done = Did(handler[c], j).done
    BY <1>1, <1>2, <1>3, DoneKept
  <2> QED
    BY <1>1, <1>3, <2>1, DoneFor DEF Acts
<1>4. ~Refuse(c)
  BY ActingChanges
<1>5. CASE Checkout(c)
  <2>1. /\ handler[c].pc = "post" /\ p # NoPatron /\ j \in Items
        /\ item' = [item EXCEPT ![j] = LentTo(@, p)] /\ i = j
    BY <1>3, <1>4, <1>5 DEF Checkout, At, Reaches
  <2>2. item'[i].borrower = p
    BY <1>2, <2>1 DEF LentTo, ItemRecord
  <2> QED
    BY <1>1, <2>1, <2>2 DEF Holder, GetUserByBarcode
<1>6. CASE Renew(c)
  <2>1. /\ handler[c].pc = "post" /\ j \in Items /\ Renewable(item[j], p)
        /\ item' = [item EXCEPT ![j].renewals = @ + 1] /\ i = j
    BY <1>3, <1>4, <1>6 DEF Renew, At, Reaches
  <2>2. item'[i].borrower = p
    BY <1>2, <2>1 DEF Renewable, ItemRecord
  <2> QED
    BY <1>1, <2>1, <2>2 DEF Holder, GetUserByBarcode
<1>7. CASE RenewOne(c)
  <2> DEFINE h == handler[c]
             Over(g, k, list) == [g EXCEPT !.todo = @ \ {k}, !.answer[list] = @ \cup {k}]
  <2>1. PICK k \in h.todo :
          \/ /\ Reaches(session[c], k) /\ Renewable(item[k], h.patronID)
             /\ item' = [item EXCEPT ![k].renewals = @ + 1]
             /\ \/ handler' = [handler EXCEPT ![c] = Over(Did(h, k), k, "renewed")]
                \/ handler' = [handler EXCEPT ![c] =
                                 [Over(Did(h, k), k, "unrenewed") EXCEPT !.lost = @ \cup {k}]]
          \/ handler' = [handler EXCEPT ![c] = Over(h, k, "unrenewed")]
    BY <1>7 DEF RenewOne
  <2>2. h.pc = "renewing" /\ k \in Items
    BY <1>1, <1>7, HandlerFields DEF RenewOne, At
  <2>3. handler' # [handler EXCEPT ![c] = Over(h, k, "unrenewed")]
    <3>1. Over(h, k, "unrenewed").done = h.done
      BY <1>1, HandlerFields
    <3> QED
      BY <3>1, ActingChanges
  <2>4. /\ Reaches(session[c], k) /\ Renewable(item[k], h.patronID)
        /\ item' = [item EXCEPT ![k].renewals = @ + 1]
        /\ handler'[c].done = Did(h, k).done
    <3> DEFINE d == Did(h, k)
    <3>1. d \in Handler
      BY <1>1, <2>2, DidHandler
    <3> HIDE DEF d
    <3>2. /\ Over(d, k, "renewed").done = d.done
          /\ [Over(d, k, "unrenewed") EXCEPT !.lost = @ \cup {k}].done = d.done
      BY <3>1, HandlerFields
    <3> QED
      BY <1>2, <2>1, <2>3, <3>2 DEF d
  <2>5. i = k
    BY <1>1, <2>2, <2>4, DoneFor DEF Acts
  <2>6. item'[i].borrower = h.patronID /\ item[i].borrower = h.patronID
    BY <1>2, <2>2, <2>4, <2>5 DEF Renewable, ItemRecord
  <2>7. h.patronID = session[c].patronID /\ h.patronID # NoPatron
        /\ session[c].patronBarcode = h.req.aa
    BY <1>1, <2>2 DEF Working
  <2>8. Home[session[c].patronID] = session[c].tenant
    BY <2>4, <2>5, <2>6, <2>7 DEF CirculationInv, LentAtHome, Reaches
  <2>9. Card[session[c].tenant][h.req.aa] = h.patronID
    BY <1>1, <2>7, <2>8, HomePatronHoldsCard DEF Working
  <2> QED
    BY <1>1, <2>2, <2>6, <2>9 DEF Holder
<1>8. ~Checkin(c)
  BY <1>1 DEF Checkin, At, Working
<1> QED
  BY <1>5, <1>6, <1>7, <1>8, Actors

(* A checkin that ends a claimed return has a resolution for it. *)
LEMMA CheckinSteps ==
  ASSUME CirculationInv, [Next]_vars, NEW c \in Conns, NEW i \in Items, Acts(c, i),
         handler[c].req.code = "09", item[i].status = "Claimed returned"
  PROVE  session[c].settings.claimedReturnedResolution # "none"
<1> DEFINE j == handler[c].req.ab
<1>1. handler[c] \in Handler /\ Working(handler[c], session[c]) /\ DOMAIN handler = Conns
  BY AtHand DEF CirculationInv, TypeOK
<1>2. Checkin(c)
  BY <1>1, Actors DEF Checkout, Renew, RenewOne, At, Working
<1>3. ~Refuse(c)
  BY ActingChanges
<1>4. /\ j \in Items /\ Returnable(item[j], Resolution(session[c]))
      /\ \/ handler' = [handler EXCEPT ![c] = [Did(handler[c], j) EXCEPT !.pc = "item"]]
         \/ handler' = [handler EXCEPT ![c] =
                          Answer([Did(handler[c], j) EXCEPT !.lost = {j}], "N")]
  BY <1>2, <1>3 DEF Checkin, Reaches
<1>5. [Did(handler[c], j) EXCEPT !.pc = "item"].done = Did(handler[c], j).done
  <2>1. Did(handler[c], j) \in Handler
    BY <1>1, <1>4, DidHandler
  <2> QED
    BY <2>1, HandlerFields
<1>6. handler'[c].done = Did(handler[c], j).done
  BY <1>1, <1>4, <1>5, DoneKept
<1>7. i = j
  BY <1>1, <1>4, <1>6, DoneFor DEF Acts
<1> QED
  BY <1>4, <1>7 DEF Returnable, Resolution

(* Only FetchRequests takes a handler from there to its answer. *)
LEMMA AlertSteps ==
  ASSUME CirculationInv, [Next]_vars, NEW c \in Conns, At(c, "requests"), handler'[c].pc = "idle"
  PROVE  FetchRequests(c)
<1>1. handler[c].pc = "requests" /\ DOMAIN handler = Conns
  BY DEF At, CirculationInv, TypeOK
<1>2. ~UNCHANGED handler
  BY <1>1
<1>3. PICK d \in Conns :
        \/ Receive(d) \/ Identify(d) \/ Verify(d) \/ Checkout(d) \/ Renew(d)
        \/ GetLoans(d) \/ RenewOne(d) \/ AnswerRenewAll(d)
        \/ CheckClaimed(d) \/ Checkin(d) \/ FetchItem(d) \/ FetchRequests(d)
  BY <1>2 DEF Next, vars, EndPatronSession, Login, Staff
<1>4. d = c
  <2>1. \E h : handler' = [handler EXCEPT ![d] = h]
    BY <1>3 DEF Receive, Identify, Verify, Checkout, Renew, GetLoans, RenewOne, AnswerRenewAll,
                CheckClaimed, Checkin, FetchItem, FetchRequests, Refuse, Goto
  <2> QED
    BY <1>1, <2>1
<1> QED
  BY <1>1, <1>3, <1>4 DEF Receive, Identify, Verify, Checkout, Renew, GetLoans, RenewOne,
     AnswerRenewAll, CheckClaimed, Checkin, FetchItem, At

---------------------------------------------------------------------------
(* The theorems. *)

(* The inductive invariant. *)
THEOREM CirculationInvariant == Spec => []CirculationInv
BY InitCirculation, StepCirculation, PTL DEF Spec

(* Every reachable state is type correct (the handlers of 09, 11, 29, 65). *)
THEOREM CirculationTypes == Spec => []TypeOK
BY CirculationInvariant, PTL DEF CirculationInv

(* What a device is told was done is what FOLIO did, once, except for the   *)
(* items whose answers were lost (checkout.go:136-146,                      *)
(* renew_all.go:146-191).                                                   *)
THEOREM AnswersAreTrue == Spec => []AnswerIsTrue
<1>1. CirculationInv => AnswerIsTrue
  BY DEF CirculationInv, Accounted, AnswerIsTrue, Told, DidOnce
<1> QED
  BY <1>1, CirculationInvariant, PTL

(* 11, 29 and 65 lend and renew for the holder of the card presented, for   *)
(* any tenants that share cards and any moves between them                  *)
(* (checkout.go:79-103, renew_all.go:65-91).                                *)
THEOREM HoldersLoansOnly == Spec => OwnLoansOnly
<1>1. CirculationInv /\ [Next]_vars => [ActsForHolder]_vars
  BY LendingSteps DEF ActsForHolder
<1> QED
  BY <1>1, CirculationInvariant, PTL DEF Spec, OwnLoansOnly

(* Where patrons are verified, whoever borrows or renews gave the PIN or    *)
(* the password (verification.go:94, 135; checkout.go:129-134).             *)
THEOREM ProvenLoansOnly == Spec => ProvenPatronOnly
<1>1. CirculationInv /\ [Next]_vars => [ActsForProven]_vars
  <2> SUFFICES ASSUME CirculationInv, [Next]_vars, NEW c \in Conns, NEW i \in Items,
                      Acts(c, i), handler[c].req.code # "09"
               PROVE  \/ session[c].settings.verify = "none"
                      \/ handler[c].req.secret = item'[i].borrower
    BY DEF ActsForProven
  <2>1. /\ item'[i].borrower = Holder(c) /\ Working(handler[c], session[c])
        /\ handler[c].pc \in {"post", "renewing"} /\ session[c] \in Session
    BY LendingSteps, AtHand
  <2>2. /\ session[c].patronID # NoPatron /\ session[c].patronBarcode = handler[c].req.aa
        /\ Verifies(session[c], session[c].patronID, session[c].patronBarcode,
                    handler[c].req.secret)
        /\ Known(session[c])
    BY <2>1 DEF Working
  <2> QED
    BY <2>1, <2>2, VerifiedIsHolder DEF Holder
<1> QED
  BY <1>1, CirculationInvariant, PTL DEF Spec, ProvenPatronOnly

(* A device whose tenant resolves no claimed returns never ends one,        *)
(* whenever the claim is made (checkin.go:96-125, config.go:752-760).       *)
THEOREM ClaimsKept == Spec => ClaimsAreKept
<1>1. CirculationInv /\ [Next]_vars => [ClaimOutlivesCheckin]_vars
  BY CheckinSteps DEF ClaimOutlivesCheckin
<1> QED
  BY <1>1, CirculationInvariant, PTL DEF Spec, ClaimsAreKept

(* The alert of a checkin fits the item, when both reads succeed and saw    *)
(* one state of it (checkin.go:349-352, 433-453).                           *)
THEOREM AlertsFit == Spec => AlertMatchesItem
<1>1. CirculationInv /\ [Next]_vars => [AlertsAsDue]_vars
  <2> SUFFICES ASSUME CirculationInv, [Next]_vars, NEW c \in Conns,
                      At(c, "requests"), handler'[c].pc = "idle", ~handler'[c].failed,
                      handler[c].seen.status = item[handler[c].req.ab].status
               PROVE  handler'[c].answer.alert = DueAlert(item[handler[c].req.ab])
    BY DEF AlertsAsDue
  <2> DEFINE g == Answer(handler[c], "Y")
             r == item[handler[c].req.ab]
             request == IF r.status \in {"In transit", "Awaiting pickup"} THEN r.request ELSE "none"
             h(q, failed) ==
               [g EXCEPT !.answer = [@ EXCEPT !.alert = AlertType(handler[c].seen.status, q)],
                         !.seen = [@ EXCEPT !.request = q], !.failed = failed]
  <2>1. g \in Handler /\ DOMAIN handler = Conns
    BY AtHand, AnsweredHandler DEF CirculationInv, TypeOK
  <2>2. \/ handler' = [handler EXCEPT ![c] = h(request, FALSE)]
        \/ handler' = [handler EXCEPT ![c] = h("none", TRUE)]
    <3>1. FetchRequests(c)
      BY AlertSteps
    <3> QED
      BY <3>1 DEF FetchRequests
  <2> HIDE DEF g, request
  <2>3. /\ h("none", TRUE).failed = TRUE
        /\ h(request, FALSE).answer.alert = AlertType(handler[c].seen.status, request)
    <3> DEFINE alert == AlertType(handler[c].seen.status, request)
               answer == [g.answer EXCEPT !.alert = alert]
               seen == [g.seen EXCEPT !.request = request]
    <3> HIDE DEF alert
    <3>1. answer.alert = alert
      BY <2>1, HandlerFields DEF Answers
    <3>2. h(request, FALSE) = [g EXCEPT !.answer = answer, !.seen = seen, !.failed = FALSE]
      BY DEF alert
    <3>3. h("none", TRUE).failed = TRUE
      BY <2>1, HandlerFields
    <3> HIDE DEF answer, seen
    <3>4. [g EXCEPT !.answer = answer, !.seen = seen, !.failed = FALSE].answer = answer
      BY <2>1, HandlerFields
    <3> QED
      BY <3>1, <3>2, <3>3, <3>4 DEF alert
  <2>4. handler'[c].answer.alert = AlertType(r.status, request)
    <3> HIDE DEF h
    <3> QED
      BY <2>1, <2>2, <2>3
  <2>5. AlertType(r.status, request) = DueAlert(r)
    <3>1. CASE r.status = "In transit"
      BY <3>1 DEF request, AlertType, CalculateAlertType, DueAlert
    <3>2. CASE r.status = "Awaiting pickup"
      BY <3>2 DEF request, AlertType, CalculateAlertType, DueAlert
    <3>3. CASE r.status \notin {"In transit", "Awaiting pickup"}
      BY <3>3 DEF request, AlertType, CalculateAlertType, DueAlert
    <3> QED
      BY <3>1, <3>2, <3>3
  <2> QED
    BY <2>4, <2>5
<1> QED
  BY <1>1, CirculationInvariant, PTL DEF Spec, AlertMatchesItem
===========================================================================
