# fsip2, specified

fsip2 is a SIP2 server in Go. Self-check machines, sorters and kiosks ("devices") speak SIP2 to it over
TCP; it answers by calling the REST API of a FOLIO library system, on behalf of a service account whose
Keycloak session it opens, renews and ends. This directory holds TLA+ specifications of its core logic,
the TLC configurations that check them on small instances, and proofs for any instance. Paths below are
relative to the repository's `src/`, `internal/` being left out.

    tlc -workers 2 -config TokenSession_tokens.cfg MC_TokenSession
    tlapm TokenSession_proofs.tla

## 1. The system

One goroutine per device connection handles that device's messages one after the other. Almost all
concurrency is therefore *between* connections, and between a connection and what it shares with others:
FOLIO's records (which staff and other devices change at any time), the configuration in force, the
server's wait group, and the goroutines that log sessions out. Every FOLIO call can be refused, fail, time
out, or be carried out with its answer lost.

| Component | State | Operations | Interacts with | What makes it correct |
|---|---|---|---|---|
| Session and tokens (`types/session.go`, `handlers/base.go`, `login.go`, `session_logout.go`, `folio/auth.go`) | tenant, credentials, token pair and its issuer, per connection; logouts in flight | 93, renewal (refresh, re-login), logout, close | gateway (Keycloak), tenant resolution | one owner per Keycloak session; no live session forgotten; tokens go to their issuer; "ok" means served as the 93 asked |
| Server (`server/`, `cmd/fsip2/main.go`) | listeners, accept loops, wait group, deadlines | Start, accept, handle, Stop | everything | no port left bound, exact wait group, nothing accepted after Stop, everything ends that no device keeps waiting |
| Configuration, reload (`config/`) | tenants in force, tenants being loaded | load, compare, replace, callback | tenant service | in force = loaded; a broken source does not empty the service |
| Tenant resolution (`tenant/`) | resolvers, default tenant | resolve at connect, at 93 | configuration, session | there is always a tenant; a 93 leads to one that is in force |
| Patron context (`handlers/verification.go`, `folio/patron.go`, session fields) | remembered patron id and barcode | look up, verify, 35 | FOLIO users | the patron acted for is the one who proved it |
| Fee Paid 37 (`handlers/fee_paid.go`, `folio/fees.go`) | the payment in progress | check or list accounts, pay | FOLIO accounts, patron context | one charge; what is reported was paid |
| Circulation 09 11 29 65 (`handlers/check*.go`, `renew*.go`, `folio/circulation.go`) | the message in progress | lend, return, renew | FOLIO items and loans, patron context | what is told was done; claims and holds respected |
| Patron Status 23, Information 63 (`handlers/patron_*.go`) | the message in progress | look up, renew, look again, verify, read blocks, fees, loans and holds | FOLIO, patron context, rolling renewal | valid only if active and proven; what is told is true of what did not change meanwhile |
| Rolling renewal (`renewal/`, `config/dateutil.go`, `folio/patron.go`) | none | decide, read the user, write it back | FOLIO users | no edit undone; dates never brought forward |
| Framing, parsing, building (`server/connection.go`, `sip2/`) | buffer of the read, delimiter it works with, tenant of parser and builder | split, check, parse, refuse, build | connection, tenant resolution | a message is what was sent, taken once, answered once |
| Item Information 17, Item Status Update 19, SC Status 99, Resend 97 | none | read and format, or acknowledge | FOLIO | framing only |
| Health, metrics, logging, localization | counters | observe | none | out of scope |

## 2. The modules

Each module is one component; an action is one handler, or one stretch of a handler between two calls to
the outside (its guard and effects are the code's up to the next call). Locals that live across a call
are fields of a record per connection, whose `pc` names the call the handler waits for.

**`TokenSession`** is the core, and implements **`ServiceAccount`** (below). Per connection: the `types.Session` fields that matter (`sess`), the locals
of the login or renewal in progress (`call`), and, when its last 93 was
told ok, the tenant and the credentials which *that 93* asked for (`loginOk`), to hold what the session has against. `logouts` is
the set of `LogoutTokens` calls in flight, each a goroutine of its own. The gateway is external: `life` of
each Keycloak session, its `origin`, and a history variable `cause` that records *why* fsip2 may have lost
track of a session (a lost reply, a failed logout, a refresh token sent to a tenant that did not issue it,
an expiration the gateway never named). Tokens are abstracted to how close each is to expiry.
`Device` gathers what the device does (connect, 93 in all its forms, a message that needs a token, close),
`Answered` every answer or loss of one, `LogoutStep` the steps of a logout, `Time` the ageing.
Two guards are redundant on purpose, as in the code: a blank refresh token is refused by `IsEmpty`, by
`LogoutTokens` and by `Logout` itself, so that no single change of one breaks a property. The renewal lock
is never contended (one goroutine per connection) and is folded into `pc`. `patron_status.go:182-188`
sets the session authenticated again, which changes nothing since a connection with a token always is
(`RenewalHasCredentials`).

**`ServiceAccount`** is what `TokenSession` promises, without tokens, tenants, credentials and retries: a
session is opened once, held by one connection, handed to a logout or dropped with an excuse, and never
taken up again; a logout ends that session and no other. The refinement mapping (`Opened`, `Holds`,
`Leaving`, `LivesOn`, `Excused` at the end of `TokenSession`) reads each from the pairs, the logouts and the gateway.

**`ServerLifecycle`**: the caller (`main`, or a test, `caller`), the goroutine of `Start`, one accept loop
per port, one goroutine per connection, devices, and a `Tick`. Of the real durations only "the 30 s of the
drain are less than the 5 min of a read" is used. A failed `Start` leaves `isRunning` true, as the code does.
A message is read, handled and answered in steps of their own: a write (`answering`, `apologizing`) has no deadline and may
never return.

**`TenantRouting`**: sources that operators edit and break, a reload that reads them one by one, the swap
of the configuration and the callback that rebuilds the resolvers as two steps, and connections that resolve
at connect and at a 93. Addresses, ports, location codes and user names are model values; a rule is the set of those it
accepts. The login resolvers the service builds are never used by the code and are not modelled.

**`PatronContext`** is a library of operators (no variables): the remembered patron, lookup, verification, move.
**`FeePayment`** and **`Circulation`** EXTEND it and compose it with FOLIO's accounts and items, other
devices' messages and the staff. FOLIO's side is modelled from how the code uses it: how it distributes a bulk payment is left
open, and each action that posts has three outcomes: refused, done and answered, done with the answer lost.
`FeePayment` counts in whole cents.
**`PaymentLedger`** is what `FeePayment` promises, without sessions, cards, settings and reads: money leaves the
accounts for a request once or not at all, no more than it asked for or than is owed, all of it one patron's; with
that the request is over, and the device knows or its answer was lost; a request that is refused has moved nothing.
The mapping takes what is owed from FOLIO's accounts and never from what a handler read or reports of them.

**`Framing`** is one connection down to the stream: what a device sends, how `readMessage` cuts it, how the
parser checks it and takes it apart, which answer is built, while a 93 moves the connection to a tenant with another
delimiter, another rule for checksums and other messages. The stream consists of units (a control character, a
code, the fixed part, a field, a part of the trailer), each with its length, the sum of its bytes and the
letters `AY` or `AZ` found in it: enough to tell where a message, a checksum and the first field begin, which is all that the code
derives from bytes. `StartsRead`, `ReadsUnit` and `EndOfStream` are `readMessage`; `Parses`, `Drops`, `Refuses`,
`Accepts` are `processMessage` up to the handler; `Handles` and `HandlerFails` the handler's return; `Sends`, `SendFails`
the two writes. A device may send ahead, garble a message, stop half-way, or leave.
**`MessageStream`** is the abstract queue of requests that it implements: taken one at a time and in order,
answered at most once with an answer that fits. The mapping reads the queue from the unread bytes (whatever lies
between line ends, `Complete`), so that it holds only if the code's several ways of finding a message's end agree with it.

**`RollingRenewal`** holds the calendar and the rules: days are numbered from January 1 of `FirstYear`,
`AddMonths` runs over at the end of a month as `time.AddDate` does, `ShouldRenew` is the service's decision.
**`Inquiry`** EXTENDS it and `PatronContext`: 23 and 63, each FOLIO call a step that may fail. `Lookup`
decides on the record it read; `GetsUser` and `PutsUser` are the read and the write of the update; `Refetch` is the
second look at an inactive account. The reads of holds, loans, items, fees and blocks follow one by one in the order of the
handler (`Order23`, `Order63`), and the account changes between them: an account says of each of a set of *things* whether
it is a hold on the shelf or one that waits, a loan, a fee, a block or nothing as yet, and what it can be listed by. A list
holds what is asked for and enabled (`CD`) and has a barcode, or for `CD` an instance id. Staff edit user
records at any point. Two history variables: `held`, whether the patron's account was active at any moment since the message
came, and `moved`, what became of each thing since then. `Circulates` stands for 11, 29, 37 and 65, which remember
a patron before they verify one. The item lookups of one message's loans are one step: each returns only an item's barcode.

The `*_proofs` modules EXTEND the module they are named after and hold its theorems (section 4);
**`PatronContext_proofs`** holds the lemmas that several of them share: about patrons, and about sums.

`MC_*` modules hold the constants of the instances. Definitions marked *Mutant* are plausible bugs; each is
named in `PROJECT.json` beside the property that TLC finds violated when it replaces the definition after it.
Every module states its types as `TypeOK`, which is proved for each of them.

## 3. What is checked

| Run | Instance | Distinct states | Question |
|---|---|---|---|
| `TokenSession_tokens` | 2 connections of one kiosk user, a right and a wrong password, 2 Keycloak sessions, 2 tenants | 2.0 M | ownership, nothing forgotten, origins of tokens, what "ok" promises |
| `TokenSession_live` | 1 connection, a right and a wrong password, 2 sessions, 2 retries, expirations named or not, fair | 242 k | the inductive invariant, `ServiceAccount`, sessions let go of end, every call returns |
| `TokenSession_moved` | (violation) | | section 5 |
| `ServerLifecycle_stop` | 2 ports, 1 device, both callers, fair | 123 k | start, failed start, stop at any moment, the wait group, what a complete drain has done, everything ends unless a write waits for the device |
| `ServerLifecycle_drain` | (violation) | | section 5 |
| `TenantRouting_reload` | 2 sources, 2 tenant names, 1 device, fair | 84 k | configuration and service agree, a default exists, convergence of the service and, by their 93s, of the devices |
| `FeePayment_race` | 2 devices, 2 accounts of up to 2 cents | 883 k | one charge, acceptances and reports true |
| `FeePayment_identity` | 1 device, 2 tenants sharing a barcode, 3 accounts | 238 k | only the card holder's accounts, only with proof, each debit a payment of `PaymentLedger` |
| `Circulation_loans` | 2 devices, 2 items, 2 renewals, limit of 1 | 24 k | answers true, whatever fails or is lost |
| `Circulation_kiosk` | 1 device, 2 tenants sharing a barcode, 2 items in every state | 289 k | only the card holder's loans, claims kept, alerts as due |
| `Framing_stream` | 2 messages ahead, 3 line ends, 3 tenants (CR, LF, CR LF), with and without checksums, fair | 278 k | messages as they were sent, once and in order (`MessageStream`), none kept waiting but behind an answer the device does not read |
| `Inquiry_renewal` | 1 device, one patron with 7 things in 2 states, staff, 3 settings, January 31 to February 1 | 637 k | valid means active and proven, answers true of an account that changes, no edit undone, no date brought forward |

**Bounds, and why they are enough.** The handlers of two connections meet only in FOLIO's records and in the
ownership of sessions, so two connections show every pairwise race; where a run has one, the staff (or, in
`TokenSession`, Keycloak and the logouts in flight) act at every point in between, and their steps include every
change of FOLIO's records another device could make. Two Keycloak sessions give an old and a new pair, which is
all a replacement ever relates; more logins than that wait in the model for a session to be unused. One password that a
tenant accepts and one that none does are enough for a 93 that does not match what the session stores. In the run with two connections Keycloak
names every expiration; one it does not name is in `TokenSession_live`, with one connection, since what is
concluded from it concerns one pair. Two tenants that share a barcode
are the least with which a remembered patron can be the wrong one. Two accounts of up to two cents already make
an equal share differ from every distribution. A limit of one for Renew All, with two loans, has the cut happen.
In `Framing` two messages are one that is being handled and one that was sent ahead, which is all a read ever
finds behind it; the three tenants have the three delimiters, two of them check checksums and one of them
supports fewer messages; one request, with its trailer, is 71 characters, so that it fits `MaxBytes` = 72
together with the first byte of a CR LF and would not fit 71, and one is too long for either. In `Inquiry` the
two days are the last of a month with 31 days and the first of one with 28, where adding months runs over. The
settings are the documented ones (`renewWithin` 6M, `extendFor` 6Y, `README.md:747`, a limit of 1 and CD disabled as in the
example configuration), and two where it depends on the month which of window and extension is longer: 1M and 31D, 28D and 1M.
Of the seven things, two each are holds and loans, so that the limit cuts, and one of each pair has no barcode; of the account's
two states, the second has a hold that came to the shelf, a loan that fell due, a fee paid and a block lifted, and it may change to and
fro at any point of a message. Two calls of a message may fail (`MaxFailures`). Its one device meets others only in the user
record, which staff change at the same points and in the same way (a later date, the flag, an older record put back); the proofs are about any
number of devices. The requests
are a 23, a 63 for all lists, and one for the loans that are due. `Circulation_kiosk` has two of the
settings of a tenant, a PIN without and a password with a resolution of claims. In `Framing` no device sends 97, which is
handled and answered like the 35 that it may send. Every bound is a constant of the module (`MaxOwed`, `MaxRenewals`, `MaxItems`, `MaxRetries`,
`ReadTimeout`, `DrainTimeout`, `MaxBytes`, `MaxSent`, `FirstDay`, `LastDay`, `LastMonth`, `MaxFailures`), and
none is part of a property's premise.

**Symmetry** is used for connections, Keycloak sessions and (in `TokenSession_tokens`) tenants, in the runs without liveness.

**Deadlock** is checked except for `ServerLifecycle`, where the process may exit, and `Framing`, where a connection ends.

**Fairness.** `TokenSession`: every FOLIO call ends, since the HTTP client has a time limit; every logout
goroutine runs; what is about to expire expires. `ServerLifecycle`: goroutines that can run do, time
passes, and a device's message is handled in the end (the same time limits). A write is a different matter: `conn.Write`
(`server/connection.go:396`) has no deadline, and is only assumed to return once the device has hung up. Devices, signals and a
kernel short of descriptors owe nothing: no property relies on a device sending, reading or hanging up, and so `GoroutinesEnd`
excepts a goroutine that waits for ever in a write to a device that is still there. `TenantRouting`: the reload
ticker fires and a reload that started goes on; operators owe nothing, and the properties are about the case that
they stop editing; a device owes no 93, and `LoginsLeaveRemovedTenants` is about one that sends them. `Framing`: the goroutine of
the connection goes on while it has bytes to read or a message to handle, since every handler returns (the same time limits);
the device and the read deadline owe nothing: as above a write returns once the device has left, and `MessagesAreTaken` excepts a
connection whose device for ever stays and does not take an answer.

## 4. What is proved

Every safety property and all three refinements that the passing runs check are proved for any values of the constants;
`RefusedMeansUnpaid`, `RenewalHasCredentials` and `LandsInDefined` are proved besides.
`tlapm` on each of the modules below checks it.

| Module | Theorem | States |
|---|---|---|
| `TokenSession_proofs` | `TypeCorrect`, `Invariant` | `[]TypeOK`, `[]IInv` |
| | `ExclusiveOwnership` | `[]Exclusive` |
| | `NothingForgotten` | `[]NoForgottenSession` |
| | `OriginsKnown` | `[]PairKnowsItsOrigin` |
| | `CredentialsAtHand` | `[]RenewalHasCredentials` |
| | `OkMeansServed` | `[]LoginOkHolds` |
| | `AuthenticationKept` | `AuthenticationSurvives` |
| | `KeepsPromise` | `ImplementsServiceAccount`: `TokenSession` implements `ServiceAccount` |
| `ServerLifecycle_proofs` | `ServerTypes`, `ServerInvariant` | `[]TypeOK`, `[]ServerInv` |
| | `WaitGroupCounts` | `[]WaitGroupExact` |
| | `FailedStartIsClean` | `[]FailedStartHoldsNoPort` |
| | `DrainedLoggedOut` | `[]DrainedIsLoggedOut` |
| | `StopEndsAccepting` | `NoAcceptAfterStop` |
| `TenantRouting_proofs` | `RoutingTypes`, `RoutingInvariant` | `[]TypeOK`, `[]RoutingInv` |
| | `NothingLeftBehind` | `[]ServiceFollowsConfig` |
| | `AlwaysATenant` | `[]NeverWithoutTenant` |
| | `LoginsReachDefinedTenants` | `[][LandsInDefined]_vars` |
| `FeePayment_proofs` | `PaymentTypes`, `PaymentInvariant` | `[]TypeOK`, `[]PaymentInv` |
| | `HoldersAccountsOnly`, `ProvenPayersOnly` | `OwnAccountsOnly`, `ProvenPayerOnly` |
| | `ChargedOnce` | `[]OneCharge` |
| | `RefusalsAreTrue`, `AcceptancesAreTrue` | `[]RefusedMeansUnpaid`, `[]AcceptedMeansPaid` |
| | `ReportsAddUp` | `[]ReportAddsUp` |
| | `BulkStaysWithin` | `BulkNeverExceeds` |
| | `BooksBalance` | `ImplementsLedger`: `FeePayment` implements `PaymentLedger` |
| `Circulation_proofs` | `CirculationTypes`, `CirculationInvariant` | `[]TypeOK`, `[]CirculationInv` |
| | `AnswersAreTrue` | `[]AnswerIsTrue` |
| | `HoldersLoansOnly`, `ProvenLoansOnly` | `OwnLoansOnly`, `ProvenPatronOnly` |
| | `ClaimsKept` | `ClaimsAreKept` |
| | `AlertsFit` | `AlertMatchesItem` |
| `Inquiry_proofs` | `InquiryTypes`, `InquiryInvariant` | `[]TypeOK`, `[]InquiryInv` |
| | `ValidAreEntitled` | `[]ValidMeansEntitled` |
| | `AnswersReportAccounts` | `[]AnswerReportsAccount` |
| | `DatesAreNotShortened` | `RenewalNeverShortens` |
| | `EditsSurvive` | `EditsSurviveRenewal` |
| `Framing_proofs` | `TypeCorrect`, `Invariant` | `[]TypeOK`, `[]IInv` |
| | `HandlersSeeRequests` | `[]HandlerSeesRequest` |
| | `KeepsTheStream` | `ImplementsMessageStream`: `Framing` implements `MessageStream` |

*Assumptions* are those named in the modules, and TLC evaluates them in the runs: absent values are not members;
at least one tenant, one retry, one source; connections (`ServerLifecycle`) and accounts (`FeePayment`) are
finitely many, since both are counted; a source that loads lists a tenant (the code refuses one that does not);
a user id belongs to one tenant and a card names a patron of its own tenant (`CardAssumption`); the calendar of
`RollingRenewal` is long enough for the days that pass and their extensions (`InCalendar`); a device ends its messages with
CR, LF or both, sends the whole fixed part of a request, and puts no control character into a field (`FramingAssumption`).

### The service account's sessions

*Why a stronger invariant.* "No live session is forgotten" is not inductive: a renewal that falls back to
a login drops the old pair without a logout when the refresh token was refused or too old, which
is harmless only because of what that *says of the session*. `IInv` adds what a pair's age says of its session
(`AgeOK`), what a renewal in progress knows of the pair it is about to replace (`RenewalOK`), that a
closed connection holds nothing, and that an unopened session has no owner.

*The argument.* A step has one of a few effects on owners, each a lemma: every owner keeps its pair
(`OwnersStay`); a connection lets go of its pair, to a logout or with an explanation (`OwnerLetsGo`, with
`DroppedIsExplained` for the pair a renewal drops); a connection's session is prolonged (`OwnerRenews`);
a logout goes on or ends (`LogoutGoesOn`, `LogoutOver`). They rest on one relation, that a session has only
*waned* (no livelier, no fewer causes: `Wanes`), under which everything owners know stays true
(`OwnershipWanes`, `OwnershipProlongs`). `Device…`, `Answered…`, `LogoutStep…` and `Time…` lemmas put each
action in its class for types, ownership, renewal and origins; `InvariantInit` and `InvariantStep` combine them.

*The refinement.* Under the invariant, each action maps to one abstract step or a stutter: a device's close to
`Leaves`; an accepted login to `Opens` with `LetsGoOf` the pair it replaces (dropped with an excuse by
`DroppedIsExplained`), one whose reply is lost to `OpensInVain`; a refresh to `Renews`; the end of a logout to
`LogoutOver`, where exclusive ownership shows that no other logout has the session, and the age of a pair that one it skips is over
or excused; time to `Fades`. A reopened connection stutters only because a closed one holds nothing (`RenewalOK`).

### The server

`ServerInv` adds to the properties what they need to be inductive: who can still have a port open, and since when
(`Bound`); in which order a shutdown passes its stages (`ShutdownOrder`); that nobody accepts once it is over
(`NobodyAccepts`); and that a connection closes its socket before it logs out (`ClosedFirst`). The wait group is compared with
the cardinality of a set that each step changes by one connection at most.

### Tenants

`RoutingInv` says that the configuration in force, and the one the service was built from, each came out of a
load that found a tenant. At startup that is a fold over the sources, whose recursion is shown to have one solution
(`LoadIsUnique`, `LoadExists`). `LoginsReachDefinedTenants` is the safety part of `LoginsLeaveRemovedTenants`: whichever entry accepts
the device, and whatever tenant a reload left it in, a 93 takes it to a tenant that the service then defines.
A rule's first match is a least position (`MinExists`).

### Patrons, money and items

37, 11, 29 and 65 act for a patron whom they, or a 23, may remember from an earlier message, perhaps in another tenant.
The lemmas of `PatronContext_proofs` are about that: what a session remembers was once looked up in *some* tenant
(`Known`); a remembered patron whose own tenant is the device's holds the card there, too (`HomePatronHoldsCard`); and so
a PIN that was checked against the remembered id, or a password that was checked against the card, is the card
holder's (`VerifiedIsHolder`). FOLIO answers for its own patrons only, which brings the first condition about.

`PaymentInv` says what a payment in progress knows (`Paying`) and what its outcome says of what was taken (`Settled`);
`CirculationInv` what a message has looked up and proved (`Working`) and what it has done so far (`Accounted`);
`InquiryInv` what an inquiry relies on (`Asking`), that no account is active unnoticed (`Watched`), and what its answer
tells so far (`Telling`, `Tells`).

*An account that changes.* `AnswersReportAccounts` is about the end of a message, its invariant about every moment of it: the
calls that are over (`Behind`, by their `Place` in the order of the handler) have counted, listed or denied exactly what they had
to of the things that are still what they were (`CountTold`, `ListTold`, `Denies`), and a hold that was counted on the shelf is still
there, or has left it (`ShelfTold`). A change of the account keeps that (`TellsThroughChanges`), and a call adds its own part
(`HoldsTell`, `LoansTell`, `ItemsTell`, `FeesTell`, `BlocksTell`, `FailureTells`). That the shelf is read before the holds that wait is what
makes `ShelfTold` enough: the other order could count one hold twice although nothing was ever taken off the shelf.

*The ledger.* A device's message maps to `Asks`, a POST that FOLIO applies to `Takes`, a 38N to `Refuses`, and what a
handler does before it (identify, verify, check, list) to a stutter: it leaves request, debits and outcome alone
(`GoesOnUnpaid`). A POST is a payment because of `PaymentInv`: the handler has paid nothing yet, everything it read
is its patron's, and it read something, so that the charge is more than nothing. The run has one device beside the
staff; the theorem has any number, whose payments may fall between each other's reads and POSTs. That a refusal
has moved nothing (`RefusedMeansUnpaid`) follows from the ledger and is proved on its own as well, so no run repeats it.

`ReportsAddUp` compares sums over any number of accounts. The library defines such a sum by recursion over subsets;
`PatronContext_proofs` shows that the recursion has exactly one solution, what bounds a sum, and what a sum of equal shares is.
`DatesAreNotShortened` needs that the months of the calendar follow one another, which is again a recursion
(`CalendarExists`, `MonthsFollow`), that adding more months leads to a later day even where a day runs over (`MonthsAdd`), and that
so many months are between 28 and 31 times as many days, which compares a window and an extension in different units
(`DurationReaches`, `ExtensionCovers`). `ExtendsBeyondWindow`, the premise, holds of 6M and 6Y as documented.
The library's induction theorems cannot be used here (they take an operator as a parameter), so that each of these
inductions looks at a least counterexample among finitely many (`Least`, `LeastNumber`).

### The stream of messages

*Why a stronger invariant.* What a handler gets depends on where the read began and ended, which depends on the
delimiters of *all* tenants the connection has been in: the LF of a CR LF may still be unread when the next
read begins with another delimiter. `IInv` therefore speaks of everything unread, collected or on the wire
(`Left`): its control characters come in the pairs the device sends (`Whole`, but for an LF at the very front), the messages
complete in it are those sent and not yet taken, encoded and in order (`AsSent`); what was collected has
no delimiter in it yet (`ReadSoFar`); and what is processed is the encoding of the last message taken
(`RawSent`), parsed and answered with the settings of *some* tenant (`MsgParsed`, `ReplyBuilt`).

*The argument.* Three groups of lemmas carry it. About the stream: the messages complete in a stretch do not depend on how it
is read (`Complete` of a concatenation: `Shift`, `ReadOn`), and the unit that ends a read ends exactly the first of them, or none if
it was a stray line end (`LineRead`, `LineSplit`, `Taken`). About the parser: of an encoded request it finds the trailer, the
sequence number and the checksum that were put there (`SummedShape`, `OnlySummed`), a garbled sum fails modulo 2^16
(`GarbledFails`), what `StripChecksum` leaves is the request (`Stripped`), and the fields begin where the
fixed part ends (`TextRead`, `ParseReads`). About answers: whatever tenant builds one, it fits the request.
The recursions of `Chars`, `Sum16`, `Split` and `FieldsFrom` are shown to have one solution, as above.
*The exceptions* are the code's. A field with the letters `AZ` hides the checksum from `ValidateChecksum`, so that a right message may be
refused (`ParsedIfRight`); with the letters `AY`, `StripChecksum` cuts fields off (`HandledAsSent`; TLC finds it violated without
the exception); with `AY` in one field and `AZ` in a later one, what lies between may pass for a sequence number (`Fits`).
Of every other request the proof says that it is parsed if and only if its checksum is right or not wanted (`ParseSucceeds`).

### Only model-checked

* Liveness (`ReleasedSessionEnds`, `EveryCallReturns`, `StopReturns`, `GoroutinesEnd`, `BindFailureEndsProcess`,
  `ReloadConverges`, `LoginsLeaveRemovedTenants`, `MessagesAreTaken`): the prover does not reason about fairness and ENABLED.
* That the code does *not* do what section 5 lists: a violation is a behaviour, and TLC finds it.

## 5. Where the documentation and the code part

Two disagreements have a run of their own, which finds the violation:

* `TokenSession_moved`, `DroppedPairIsGone`: the comment at `handlers/base.go:153-156` (and
  `documentation/eureka_capabilities.md:281`) says a pair replaced after a 4xx is already gone. After a 93
  without credentials, which moves the tenant and keeps the pair, the 4xx comes from a tenant that never issued it.
* `ServerLifecycle_drain`, `DrainWaits`: `server/doc.go:83` says "Wait up to 30 seconds for active
  connections to complete"; `main.go:149` cancels the context it hands to `Stop`.

The others are stated in the modules, at their ends. TLC finds each violated when it is put in the place of
the properties of the configuration named.

| Property | Configuration | The documentation | The code |
|---|---|---|---|
| `ForceClosed` | `ServerLifecycle_stop` | `server/doc.go:84` "Force close remaining connections after timeout" | `server.go:340` logs and returns |
| `DrainedMeansDone` | `ServerLifecycle_stop` | `server/doc.go:85` "Wait for all goroutines to finish" | `server.go:157` counts after Accept has returned |
| `CleanupClosesSocket` | `ServerLifecycle_stop` | `server/doc.go:23` "close socket" | `server.go:278` returns without closing it |
| `TimeoutMeansQuiet` | `ServerLifecycle_stop` | `server/doc.go:40` "reset after each message" | `connection.go:106` does not after a message that fails |
| `ReloadApplied` | `TenantRouting_reload` | `config/doc.go:59` "updating settings without restarting" | `reload.go:169` overlooks `scTenants` and three fields |
| `RollbackOnErrors` | `TenantRouting_reload` | `config/doc.go:68` "Rollback on validation errors" | `reload.go:150` goes on without the source |
| `DefaultIsInForce` | `TenantRouting_reload` | `config/doc.go:136` "Tenant IDs are unique" | `config.go:240` checks no such thing |
| `ConnectFirstMatch` | `TenantRouting_reload` | `README.md:790` "the first match wins" | `ip_resolver.go:24`: a subnet before any port |
| `NeverExceeds` | `FeePayment_race` with `Requests <- Overpaid` | `documentation/fee_fines.md:250` "capping the amount before the request" | `fee_paid.go:261` caps bulk payments only |
| `AppliedPerAccount` | `FeePayment_race` | `documentation/fee_fines.md:170` "Amount applied to this specific account" | `fee_paid.go:358` reports equal shares |
| `FailedMeansUnpaid` | `FeePayment_race` | `documentation/fee_fines.md:192` "All payment attempts failed" | `fee_paid.go:340` also when the answer was lost |
| `HeldItemAlerts` | `Circulation_kiosk` | `documentation/field_mapping.md:111` "Hold exists, not in transit" | `checkin.go:312` gives no alert when a read fails |
| `HoldersLoansFetched` | `Circulation_kiosk` | `documentation/field_mapping.md:905` "Fetch all open loans for patron" | `connection.go:352` keeps the other tenant's patron |
| `OKMeansAllRenewed` | `Circulation_loans` with `MaxItems = 2` | `documentation/field_mapping.md:886` "All renewals successful" | `renew_all.go:205`: any renewal |
| `RenewedItemsListed` | `Circulation_loans` | `documentation/field_mapping.md:892` "Renewed item barcodes" | `builder.go:773` sends counts |
| `AnswersCarryChecksum` | `Framing_stream` | `documentation/field_mapping.md:1048` "all responses include" AY and AZ, the sequence "echoed from request" | 36, 20 and 96 are put together without the builder; an 18 has sequence 0; the 94 of a 93 that moved from a tenant without error detection has none |
| `NoPhantomMessage` | `Framing_stream` | `server/connection.go:197` a leading LF "genuinely can't be an orphaned pairing byte" | it is, after a move from a CR tenant to a LF tenant, and is read as an empty message |
| `ExactSizeSucceeds` | `Framing_stream` with `MaxBytes = 71` | `server/connection.go:220` "exactly maxSIP2MessageBytes followed by a delimiter succeeds" | the first byte of CR LF already exceeds the limit (`connection.go:223`) |
| `CountsAreTotals` | `Inquiry_renewal` | `documentation/field_mapping.md:791` "Counts in fixed fields are ALWAYS accurate regardless of summary flags" | a list that was asked for is fetched up to the tenant's limit, and what was fetched is counted |
| `EveryHoldIsCounted` | `Inquiry_renewal` | `handlers/patron_information.go:200` counts "must ALWAYS reflect actual totals on the patron account" | a hold that comes to the shelf between the reads at 214/226 and 289/301 is in neither count, without a limit, too |
| `RenewedWhenAuthenticated` | `Inquiry_renewal` | `README.md:741` extended "when they authenticate via" 23 or 63 | `patron_status.go:84` renews before the PIN or password is verified |

## 6. What is not modelled

* Formatting, texts, logging, metrics, health, TLS: nothing else depends on them.
* What 17 and 99 read and format, and 19 and 97, which acknowledge and change nothing (the repository says so of
  19, and of 97 at `handlers/resend.go:35`); that they are answered, and how, is in `Framing`.
* Character sets, custom fields and media types of the answers; devices that leave out part of a fixed-length part.
* The Keycloak session a patron's password check opens at FOLIO and nobody ends: no action of fsip2 depends on it.
* Amounts below a cent and a float's special values; time zones; a panic of a handler (the process ends).
* FOLIO beyond what fsip2 observes of it: permissions, loan policies, how requests are queued.
* `Reloader.Stop` and the HTTP and S3 transports of configuration sources.
* `sort.Sort` over the resolvers is taken to keep the order of equals, as it does for at most 12 of them.

## 7. Plan

In order; the first ten items stand.

1. `TokenSession` with proofs: the service account's sessions are what every message depends on.
2. `ServerLifecycle`, `TenantRouting`: who is served, and as which tenant.
3. `PatronContext`, `FeePayment`: money.
4. `Circulation`.
5. `Framing` and the abstract `MessageStream`.
6. `RollingRenewal` and `Inquiry`: 23, 63, and the renewal on the way.
7. `ServiceAccount`, and the proof that `TokenSession` implements it.
8. The safety of the server, of tenant routing, and of 09, 11, 23, 29, 37, 63 and 65, proved.
9. The safety of `Framing`, and the proof that it implements `MessageStream`.
10. `PaymentLedger`, and the proof that `FeePayment` implements it.
11. `Reloader.Stop`; the reads of 17.
