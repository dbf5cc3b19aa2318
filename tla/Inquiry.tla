------------------------------ MODULE Inquiry ------------------------------
(***************************************************************************)
(* 23 Patron Status and 63 Patron Information: the patron is looked up,     *)
(* the account is renewed on the way, the PIN or password is verified, and  *)
(* what FOLIO knows of the patron is read and reported.                     *)
(*                                                                         *)
(* One handler per connection; every FOLIO call is a step, between which    *)
(* other devices and staff act, and any call may fail or be answered too    *)
(* late.  Of a user record FOLIO keeps whether it is active, until when, in *)
(* which group, and a note that stands for every other field.               *)
(***************************************************************************)
EXTENDS PatronContext, RollingRenewal, FiniteSets

CONSTANTS
  Conns,
  FirstDay, LastDay,  \* bound: the days that pass
  UserRecords,        \* the user records staff may write
  Things,             \* what FOLIO may list of a patron
  Accounts,           \* what the things may be at a moment
  Requests,           \* the messages devices send
  MaxFailures         \* bound: the account reads of a message that fail

Privileges == {"borrow", "renew", "request"}
(* The counts of an answer, the lists, and the flags of the summary.        *)
Columns == {"holds", "overdue", "charged", "fines", "unavailable"}

UserRecord == [active : BOOLEAN, expires : Nat \cup {NoDate}, group : Groups, note : Nat]

(* A hold on the shelf or one that waits, an open loan, a fee that is not   *)
(* suspended, a block; or what is none of these, as yet or any more.  What  *)
(* it can be listed by: the item's barcode, the title's instance id, or     *)
(* neither.  A block denies privileges.                                     *)
Entry ==
  [kind : {"none", "ready", "waiting", "lent", "overdue", "owed", "manual", "automated"},
   label : {"barcode", "instance", "none"}, denies : SUBSET Privileges]

(* asks: the positions of the summary that are Y.                           *)
Request == [code : {"23", "63"}, aa : Barcodes, secret : Patrons \cup {NoPatron},
            asks : SUBSET Columns]

(* The settings of a tenant say whether CD is enabled for 63.               *)
ASSUME InquiryAssumption ==
  /\ FirstDay \in Nat /\ LastDay \in Nat /\ FirstDay <= LastDay
  /\ UserRecords \subseteq UserRecord
  /\ Accounts \subseteq [Things -> Entry]
  /\ Requests \subseteq Request
  /\ MaxFailures \in Nat
  /\ \A s \in Settings : /\ s.renewal \in RenewalConfig
                         /\ s.patronItemsLimit \in Nat /\ s.listsUnavailable \in BOOLEAN
  /\ \A s \in Settings, d \in FirstDay..LastDay :
       InCalendar(d, s.renewal.extendFor) /\ InCalendar(d, s.renewal.renewWithin)

VARIABLES
  user,     \* FOLIO's user records
  account,  \* and the rest of what it knows of the patrons
  today,
  session,  \* session[c]: the patron fields of the device's session
  handler,  \* handler[c]: the message being handled, or none
  held,     \* held[c]: whether the patron asked about was active at any
            \* moment since the message came
  moved     \* moved[c]: what became of each thing since then

vars == <<user, account, today, session, handler, held, moved>>

(* An answer: the things each count is of, those that are listed, and the  *)
(* reads that failed.                                                      *)
NoThings == [col \in Columns |-> {}]
Nothing == [valid |-> FALSE, denied |-> Privileges, failed |-> {},
            counted |-> NoThings, listed |-> NoThings]
NoRequest == [code |-> "63", aa |-> NoBarcode, secret |-> NoPatron, asks |-> {}]
NoUser == [active |-> FALSE, expires |-> NoDate, group |-> NoPatron, note |-> 0]

(*   seen     the user record as read last                                  *)
(*   fetched  the one that the update of the expiration date has read       *)
(*   until    the expiration date to write                                 *)
Idle == [pc |-> "idle", req |-> NoRequest, patronID |-> NoPatron, seen |-> NoUser,
         fetched |-> NoUser, until |-> NoDate, answer |-> Nothing]

Init ==
  /\ user \in [Patrons -> UserRecords]
  /\ account \in [Patrons -> Accounts]
  /\ today = FirstDay
  /\ session \in [Conns -> NewSessions]
  /\ handler = [c \in Conns |-> Idle]
  /\ held = [c \in Conns |-> FALSE]
  /\ moved = [c \in Conns |-> [x \in Things |-> "same"]]

-----------------------------------------------------------------------------
At(c, pc) == handler[c].pc = pc

(* No valid patron: all privileges are denied, and nothing is counted.      *)
Invalid(h) == [Idle EXCEPT !.pc = "answer", !.req = h.req]

(* The device's next message.  Its account is the holder of the card.       *)
Receive(c) == \E r \in Requests :
  LET p == GetUserByBarcode(session[c], r.aa) IN
  /\ At(c, "idle")
  /\ handler' = [handler EXCEPT ![c] = [Idle EXCEPT !.pc = "lookup", !.req = r]]
  /\ held' = [held EXCEPT ![c] = p # NoPatron /\ user[p].active]
  /\ UNCHANGED <<user, account, today, session, moved>>

(* What follows the renewal: an inactive account is read again if it may    *)
(* have been renewed, and is refused if not.                                *)
ExtendsExpired(s) == s.settings.renewal.enabled /\ s.settings.renewal.extendExpired
Renewed(h) == [h EXCEPT !.fetched = NoUser, !.until = NoDate]
AfterRenewal(h, s) ==
  IF h.seen.active THEN [Renewed(h) EXCEPT !.pc = "verify"]
  ELSE IF ExtendsExpired(s) THEN [Renewed(h) EXCEPT !.pc = "refetch"]
  ELSE Invalid(h)

(* The token and the lookup: without them, or without one patron with this  *)
(* barcode, there is no valid patron.  The renewal is decided on the record *)
(* that the lookup returned.                                                *)
Lookup(c) ==
  LET s == session[c]
      p == GetUserByBarcode(s, handler[c].req.aa)
      cfg == s.settings.renewal
      found == [handler[c] EXCEPT !.patronID = p, !.seen = user[p]]
  IN /\ At(c, "lookup")
     /\ \/ handler' = [handler EXCEPT ![c] = Invalid(@)]
        \/ /\ p # NoPatron
           /\ handler' = [handler EXCEPT ![c] =
                IF ShouldRenew(user[p], cfg, today) /\ ~cfg.dryRun
                  THEN [found EXCEPT !.pc = "get", !.until = CalculateNewExpiration(today, cfg)]
                  ELSE AfterRenewal(found, s)]
     /\ UNCHANGED <<user, account, today, session, held, moved>>

(* UpdateUserExpiration: the record is read ...                             *)
GetsUser(c) ==
  LET h == handler[c] IN
  /\ At(c, "get")
  /\ \/ handler' = [handler EXCEPT ![c].pc = "put", ![c].fetched = user[h.patronID]]
     \/ handler' = [handler EXCEPT ![c] = AfterRenewal(h, session[c])]
  /\ UNCHANGED <<user, account, today, session, held, moved>>

(* Mutant: the record of the lookup is written back.                        *)
UpdatedFromLookup(h, s) ==
  [h.seen EXCEPT !.expires = h.until, !.active = @ \/ s.settings.renewal.extendExpired]

Updated(h, s) ==
  [h.fetched EXCEPT !.expires = h.until, !.active = @ \/ s.settings.renewal.extendExpired]

(* Whoever asks about p while its record becomes r.                         *)
Witnesses(p, r) ==
  held' = [c \in Conns |->
             \/ held[c]
             \/ ~At(c, "idle") /\ r.active /\ GetUserByBarcode(session[c], handler[c].req.aa) = p]

(* ... and written back as a whole.  Whether it was or not, the message     *)
(* goes on.                                                                 *)
PutsUser(c) ==
  LET h == handler[c]
      r == Updated(h, session[c])
  IN /\ At(c, "put")
     /\ handler' = [handler EXCEPT ![c] = AfterRenewal(h, session[c])]
     /\ \/ user' = [user EXCEPT ![h.patronID] = r] /\ Witnesses(h.patronID, r)
        \/ UNCHANGED <<user, held>>
     /\ UNCHANGED <<account, today, session, moved>>

(* Mutant: a reactivated account counts as active without being read again. *)
RefetchTrusting(c) ==
  /\ At(c, "refetch")
  /\ handler' = [handler EXCEPT ![c].pc = "verify"]
  /\ UNCHANGED <<user, account, today, session, held, moved>>

Refetch(c) ==
  LET h == handler[c] IN
  /\ At(c, "refetch")
  /\ \/ /\ user[h.patronID].active
        /\ handler' = [handler EXCEPT ![c].pc = "verify", ![c].seen = user[h.patronID]]
     \/ handler' = [handler EXCEPT ![c] = Invalid(@)]
  /\ UNCHANGED <<user, account, today, session, held, moved>>

(* The calls that follow, in the order of the two handlers.                 *)
Order23 == [verify |-> "manual", manual |-> "automated", automated |-> "fees", fees |-> "answer"]

(* Mutant: the holds that wait are read before those on the shelf.          *)
WaitingFirst ==
  [verify |-> "unavailable", unavailable |-> "loans", loans |-> "items", items |-> "fees",
   fees |-> "holds", holds |-> "manual", manual |-> "automated", automated |-> "answer"]

Order63 ==
  [verify |-> "holds", holds |-> "loans", loans |-> "items", items |-> "fees",
   fees |-> "unavailable", unavailable |-> "manual", manual |-> "automated",
   automated |-> "answer"]
After(h) == IF h.req.code = "23" THEN Order23[h.pc] ELSE Order63[h.pc]

(* A valid patron, of whom nothing is known as yet.                         *)
Verifying == [Nothing EXCEPT !.valid = TRUE, !.denied = {}]

VerifiesPatron(c) ==
  LET h == handler[c] IN
  /\ At(c, "verify")
  /\ \E verified \in Verified(session[c], h.patronID, h.req.aa, h.req.secret) :
       handler' = [handler EXCEPT ![c] =
         IF verified THEN [@ EXCEPT !.pc = After(h), !.seen = NoUser, !.answer = Verifying]
         ELSE Invalid(@)]
  /\ UNCHANGED <<user, account, today, session, held, moved>>

Of(a, kinds) == {x \in Things : a[x].kind \in kinds}

(* What a request with the tenant's limit may return of S.                  *)
Pages(s, S) ==
  IF s.settings.patronItemsLimit = 0 \/ Cardinality(S) <= s.settings.patronItemsLimit THEN {S}
  ELSE {T \in SUBSET S : Cardinality(T) = s.settings.patronItemsLimit}

(* A call has returned what makes the answer answer'.                       *)
Gets(c, answer) ==
  /\ handler' = [handler EXCEPT ![c].pc = After(handler[c]), ![c].answer = answer]
  /\ UNCHANGED <<user, account, today, session, held, moved>>

(* A read that fails is logged, and the message goes on.                    *)
ReadFails(c) ==
  LET h == handler[c] IN
  /\ h.pc \in {"holds", "loans", "fees", "unavailable", "manual", "automated"}
  /\ Cardinality(h.answer.failed) < MaxFailures
  /\ Gets(c, [h.answer EXCEPT !.failed = @ \cup {h.pc}])

(* Holds: up to the limit if their list is asked for, else only how many    *)
(* they are.  One that waits is listed by its title if it has no item, and  *)
(* only if the tenant enables CD.                                           *)
GetsHolds(c, col, kind, labels) ==
  LET h == handler[c]
      a == account[h.patronID]
      holds == Of(a, {kind})
  IN /\ At(c, col)
     /\ \E got \in IF col \in h.req.asks THEN Pages(session[c], holds) ELSE {holds} :
          Gets(c, [h.answer EXCEPT
                     !.counted[col] = got,
                     !.listed[col] = IF col \in h.req.asks
                                       THEN {x \in got : a[x].label \in labels} ELSE {}])
GetsAvailable(c) == GetsHolds(c, "holds", "ready", {"barcode"})
GetsUnavailable(c) ==
  GetsHolds(c, "unavailable", "waiting",
            IF session[c].settings.listsUnavailable THEN {"barcode", "instance"} ELSE {})

(* Loans: up to the limit in any case; one that is due is counted twice.    *)
GetsLoans(c) ==
  LET h == handler[c]
      a == account[h.patronID]
  IN /\ At(c, "loans")
     /\ \E got \in Pages(session[c], Of(a, {"lent", "overdue"})) :
          Gets(c, [h.answer EXCEPT !.counted["charged"] = got,
                                   !.counted["overdue"] = got \cap Of(a, {"overdue"})])

(* Which loans are attached their items (attachItemDetails).                *)
Attached(h) ==
  IF "charged" \in h.req.asks THEN h.answer.counted["charged"]
  ELSE IF "overdue" \in h.req.asks THEN h.answer.counted["overdue"] ELSE {}

(* The items of the loans to list, one lookup each.  They return nothing    *)
(* but a barcode, and are one step.  An item that is not found is logged.   *)
GetsItems(c) ==
  LET h == handler[c] IN
  /\ At(c, "items")
  /\ \E found \in SUBSET Attached(h) :
       LET missing == IF found = Attached(h) THEN {} ELSE {"items"}
           named == {x \in found : account[h.patronID][x].label = "barcode"}
           List(col) == IF col \in h.req.asks THEN h.answer.counted[col] \cap named ELSE {}
       IN /\ Cardinality(h.answer.failed \cup missing) <= MaxFailures
          /\ Gets(c, [h.answer EXCEPT !.failed = @ \cup missing,
                                      !.listed["overdue"] = List("overdue"),
                                      !.listed["charged"] = List("charged")])

GetsFees(c) ==
  LET h == handler[c]
      owed == Of(account[h.patronID], {"owed"})
  IN /\ At(c, "fees")
     /\ Gets(c, [h.answer EXCEPT !.counted["fines"] = owed,
                                 !.listed["fines"] = IF "fines" \in h.req.asks THEN owed ELSE {}])

GetsBlocks(c) ==
  LET h == handler[c]
      a == account[h.patronID]
  IN /\ h.pc \in {"manual", "automated"}
     /\ Gets(c, [h.answer EXCEPT !.denied = @ \cup UNION {a[x].denies : x \in Of(a, {h.pc})}])

GetsAccount(c) ==
  \/ GetsAvailable(c) \/ GetsLoans(c) \/ GetsItems(c) \/ GetsFees(c) \/ GetsUnavailable(c)
  \/ GetsBlocks(c) \/ ReadFails(c)

(* 23 remembers a valid patron (SetAuthenticated), 63 none.                 *)
RemembersPatron(s, h) ==
  IF h.answer.valid /\ h.req.code = "23" THEN Remember(s, h.patronID, h.req.aa) ELSE s

Answers(c) ==
  /\ At(c, "answer")
  /\ session' = [session EXCEPT ![c] = RemembersPatron(@, handler[c])]
  /\ handler' = [handler EXCEPT ![c] = Idle] /\ held' = [held EXCEPT ![c] = FALSE]
  /\ moved' = [moved EXCEPT ![c] = [x \in Things |-> "same"]]
  /\ UNCHANGED <<user, account, today>>

(* Between two of these messages: 93 and 35; and 11, 29, 37 and 65, which   *)
(* remember the patron before they verify.                                  *)
LogsIn(c) ==
  /\ At(c, "idle")
  /\ \E t \in Tenants, settings \in Settings :
       session' = [session EXCEPT ![c] = MovedTo(@, t, settings)]
  /\ UNCHANGED <<user, account, today, handler, held, moved>>

EndsSession(c) ==
  /\ At(c, "idle") /\ session' = [session EXCEPT ![c] = ClearPatron(@)]
  /\ UNCHANGED <<user, account, today, handler, held, moved>>

Circulates(c) ==
  \E b \in Barcodes : \E found \in Identified(session[c], b) :
    /\ At(c, "idle") /\ session' = [session EXCEPT ![c] = found.session]
    /\ UNCHANGED <<user, account, today, handler, held, moved>>

-----------------------------------------------------------------------------
(* The library: staff edit user records, things come and go, days pass.     *)
StaffEdits == \E p \in Patrons, r \in UserRecords :
  /\ user' = [user EXCEPT ![p] = r] /\ Witnesses(p, r)
  /\ UNCHANGED <<account, today, session, handler, moved>>

(* What has become of x, which was m since the message came, when it goes   *)
(* from old to new: a hold leaves the shelf, or it changes otherwise.       *)
Becomes(m, old, new) ==
  IF m = "left" \/ (old.kind = "ready" /\ new.kind # "ready") THEN "left"
  ELSE IF new = old THEN m ELSE "changed"

AccountChanges == \E p \in Patrons, a \in Accounts :
  /\ account' = [account EXCEPT ![p] = a]
  /\ moved' = [c \in Conns |->
       IF ~At(c, "idle") /\ GetUserByBarcode(session[c], handler[c].req.aa) = p
         THEN [x \in Things |-> Becomes(moved[c][x], account[p][x], a[x])]
         ELSE moved[c]]
  /\ UNCHANGED <<user, today, session, handler, held>>

NextDay ==
  /\ today < LastDay /\ today' = today + 1
  /\ UNCHANGED <<user, account, session, handler, held, moved>>

Step(c) ==
  \/ Receive(c) \/ Lookup(c) \/ GetsUser(c) \/ PutsUser(c) \/ Refetch(c) \/ VerifiesPatron(c)
  \/ GetsAccount(c) \/ Answers(c) \/ LogsIn(c) \/ EndsSession(c) \/ Circulates(c)

Next == (\E c \in Conns : Step(c)) \/ StaffEdits \/ AccountChanges \/ NextDay

Spec == Init /\ [][Next]_vars

(***************************************************************************)
(* Properties.                                                             *)
(***************************************************************************)
Reads == {"holds", "loans", "items", "fees", "unavailable", "manual", "automated"}
InFlight == {"lookup", "get", "put", "refetch", "verify", "answer"} \cup Reads
TypeOK ==
  /\ user \in [Patrons -> UserRecord] /\ account \in [Patrons -> Accounts]
  /\ today \in FirstDay..LastDay /\ session \in [Conns -> Session]
  /\ held \in [Conns -> BOOLEAN]
  /\ moved \in [Conns -> [Things -> {"same", "changed", "left"}]]
  /\ \A c \in Conns :
       LET h == handler[c] IN
       /\ h.pc \in InFlight \cup {"idle"} /\ h.req \in Requests \cup {NoRequest}
       /\ (h.pc \in InFlight => h.req \in Requests)
       /\ (h.pc \in InFlight \ {"lookup", "answer"} =>
             h.patronID \in Patrons /\ h.patronID = GetUserByBarcode(session[c], h.req.aa))

(* A device is told BLY only of an account that was active at some moment   *)
(* of the message, and with the PIN or password that the tenant asks for:   *)
(* not on the word of a renewal that failed or of one that staff undid.     *)
(* (Handle, lines 79-117 of 23, and its twin in 63.)                        *)
ValidMeansEntitled ==
  \A c \in Conns :
    LET h == handler[c] IN
    At(c, "answer") /\ h.answer.valid =>
      held[c] /\ Verifies(session[c], h.patronID, h.req.aa, h.req.secret)

(* The calls of a message, what each count is a count of, and the call that *)
(* it comes from.                                                           *)
ReadsOf(code) == IF code = "23" THEN {"manual", "automated", "fees"} ELSE Reads
KindsOf ==
  [holds |-> {"ready"}, unavailable |-> {"waiting"}, overdue |-> {"overdue"},
   charged |-> {"lent", "overdue"}, fines |-> {"owed"}]
ReadFor ==
  [holds |-> "holds", unavailable |-> "unavailable", overdue |-> "loans", charged |-> "loans",
   fines |-> "fees"]

(* A count is of things that are of its kind, and of all of them unless the *)
(* limit cut the list; what changed meanwhile may be missing or too much.   *)
Counts(col, h, s, a, m) ==
  LET same == {x \in Things : m[x] = "same"}
      page == IF col = "overdue" THEN "charged" ELSE col
  IN /\ h.answer.counted[col] \cap same \subseteq Of(a, KindsOf[col])
     /\ \/ Of(a, KindsOf[col]) \cap same \subseteq h.answer.counted[col]
        \/ /\ col \in h.req.asks \/ col \in {"overdue", "charged"}
           /\ Cardinality(h.answer.counted[page]) = s.settings.patronItemsLimit

(* A list is asked for and enabled, and of what is counted; what has a name *)
(* to be listed by is not left out.                                         *)
Lists(col, h, s, a, m) ==
  LET shown == col \in h.req.asks /\ (col = "unavailable" => s.settings.listsUnavailable)
      named(x) == \/ col = "fines" \/ a[x].label = "barcode"
                  \/ col = "unavailable" /\ a[x].label = "instance"
  IN /\ h.answer.listed[col] \subseteq h.answer.counted[col]
     /\ ~shown => h.answer.listed[col] = {}
     /\ shown => \A x \in h.answer.counted[col] :
                   m[x] = "same" => (x \in h.answer.listed[col] <=> named(x))

(* The blocks that were read deny what they deny, and nothing else does.    *)
Denies(got, h, a, m) ==
  LET read == {x \in Things : m[x] = "same" /\ a[x].kind \in {"manual", "automated"} \cap got}
  IN /\ \A x \in read : a[x].denies \subseteq h.answer.denied
     /\ \A p \in h.answer.denied : \/ \E x \in read : p \in a[x].denies
                                   \/ \E x \in Things : m[x] # "same"

(* What a valid patron is told is true although it comes from up to seven   *)
(* calls, any of which may fail, be cut at the limit or return a number     *)
(* only, over an account that changes between them.  What stayed the same   *)
(* during the message is counted, listed and denied exactly; only what was  *)
(* not read is missing.  And a hold is counted on the shelf and as waiting  *)
(* only if it was taken off the shelf meanwhile: the shelf is read first    *)
(* (patron_information.go:209-347; patron_status.go:146-180).               *)
AnswerReportsAccount ==
  \A c \in Conns :
    LET h == handler[c]
        a == account[h.patronID]
        got == ReadsOf(h.req.code) \ h.answer.failed
    IN At(c, "answer") /\ h.answer.valid =>
         /\ \A col \in Columns :
              IF ReadFor[col] \in got THEN Counts(col, h, session[c], a, moved[c])
              ELSE h.answer.counted[col] = {}
         /\ \A col \in Columns :
              h.req.code = "63" /\ (ReadFor[col] = "loans" => "items" \in got) =>
                Lists(col, h, session[c], a, moved[c])
         /\ Denies(got, h, a, moved[c])
         /\ \A x \in h.answer.counted["holds"] \cap h.answer.counted["unavailable"] :
              moved[c][x] = "left"

(* Steps of the gateway that change the record of p, and who takes them.    *)
Puts(p) == handler' # handler /\ user'[p] # user[p]
Writer(c, p) == At(c, "put") /\ handler[c].patronID = p /\ handler'[c] # handler[c]

(* Where the tenant's extension is at least as long as its window, be it in *)
(* days, months or years, the gateway never brings an expiration date       *)
(* forward: whatever the months' lengths, and unless the date was changed   *)
(* since the lookup, by staff or by another device on another day.          *)
RenewalNeverShortens ==
  [][\A p \in Patrons : Puts(p) =>
       \E c \in Conns :
         /\ Writer(c, p)
         /\ ExtendsBeyondWindow(session[c].settings.renewal) =>
              \/ handler[c].seen.expires # user[p].expires
              \/ user'[p].expires >= user[p].expires]_vars

(* The renewal undoes nothing that staff wrote before it read the record:   *)
(* the rest of the record stays, and the account is activated only if the   *)
(* tenant extends expired accounts.                                         *)
EditsSurviveRenewal ==
  [][\A p \in Patrons : Puts(p) =>
       \E c \in Conns :
         /\ Writer(c, p)
         /\ \/ handler[c].fetched # user[p]
            \/ /\ user'[p].note = user[p].note /\ user'[p].group = user[p].group
               /\ user'[p].active # user[p].active => ExtendsExpired(session[c])]_vars

-----------------------------------------------------------------------------
(* What documents say, and the code does not.                               *)

(* documentation/field_mapping.md:791: "Counts in fixed fields are ALWAYS   *)
(* accurate regardless of summary flags."                                   *)
Undisturbed(c) ==
  LET h == handler[c] IN
  At(c, "answer") /\ h.answer.valid /\ h.req.code = "63" /\ h.answer.failed = {}
CountsAreTotals ==
  \A c \in Conns :
    Undisturbed(c) /\ (\A x \in Things : moved[c][x] = "same") =>
      handler[c].answer.counted["holds"] = Of(account[handler[c].patronID], {"ready"})

(* Nor does the count of a hold get lost: patron_information.go:200, "counts *)
(* [...] must ALWAYS reflect actual totals on the patron account".          *)
EveryHoldIsCounted ==
  \A c \in Conns :
    LET h == handler[c] IN
    Undisturbed(c) /\ session[c].settings.patronItemsLimit = 0 =>
      \A x \in Of(account[h.patronID], {"ready"}) :
        moved[c][x] = "same" \/ x \in h.answer.counted["holds"] \cup h.answer.counted["unavailable"]

(* README.md:741: expiration dates are extended for patrons "when they      *)
(* authenticate via SIP2 messages 23 (Patron Status) or 63 (Patron          *)
(* Information)".                                                           *)
RenewedWhenAuthenticated ==
  [][\A p \in Patrons : Puts(p) =>
       \E c \in Conns :
         LET r == handler[c].req IN
         Writer(c, p) /\ Verifies(session[c], p, r.aa, r.secret)]_vars
=============================================================================
