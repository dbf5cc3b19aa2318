--------------------------- MODULE TokenSession ---------------------------
(***************************************************************************)
(* The life of the FOLIO (Keycloak) sessions that fsip2 opens for its SIP  *)
(* connections: how a 93 Login opens one, how the token pair that stands   *)
(* for it is renewed, replaced, moved to another tenant and handed over to *)
(* a logout, and what is left behind at the gateway when a reply is lost.  *)
(*                                                                         *)
(* A connection handles its messages one at a time (Connection.Handle), so *)
(* it is one process with a program counter that names the FOLIO call its  *)
(* handler waits for.  Every logout runs in a goroutine of its own, except *)
(* the one of a closing connection, which runs in the connection's own     *)
(* goroutine when nothing else is left in it; both are elements of         *)
(* `logouts'.  The gateway is external: it answers, refuses, fails, or     *)
(* does the work and loses its reply.                                      *)
(*                                                                         *)
(* Tokens are kept by what the code asks of them: which Keycloak session   *)
(* and tenant they belong to, and how close to expiry each one is.         *)
(***************************************************************************)
EXTENDS Naturals, FiniteSets

CONSTANTS
  Conns,         \* SIP connections (device sockets)
  Sids,          \* Keycloak sessions that can be opened: bounds the logins
  Tenants,       \* FOLIO tenants (gateway and tenant name together)
  Users,         \* kiosk user names
  Passwords,     \* kiosk passwords
  WrongPasswords,\* those no tenant accepts
  Expiries,      \* what a reply says of the refresh token's expiration
  MaxRetries,    \* logins of one re-login
  NoSid, NoTenant, NoCred

Creds == [user : Users, password : Passwords]

(* What opens a session: a tenant and credentials. *)
Origins == [tenant : Tenants \cup {NoTenant}, cred : Creds \cup {NoCred}]
NoOrigin == [tenant |-> NoTenant, cred |-> NoCred]

ASSUME ConstantsAssumption ==
  /\ NoSid \notin Sids
  /\ NoTenant \notin Tenants
  /\ NoCred \notin Creds
  /\ WrongPasswords \subseteq Passwords
  /\ Expiries \subseteq {"current", "unknown"}
  /\ MaxRetries \in Nat \ {0}
  /\ Tenants # {}

VARIABLES
  life,      \* life[s]: the Keycloak session s at the gateway
  origin,    \* origin[s]: the tenant and credentials that opened s
  cause,     \* cause[s]: history, what can have left s behind at the gateway
  pc,        \* pc[c]: what connection c is doing
  sess,      \* sess[c]: the types.Session of c
  call,      \* call[c]: the locals of the login or renewal in progress
  loginOk,   \* loginOk[c]: history, what the last 93 of c asked for, if it was answered "ok"
  logouts    \* the LogoutTokens calls in progress

keycloak == <<life, origin, cause>>
vars == <<life, origin, cause, pc, sess, call, loginOk, logouts>>

---------------------------------------------------------------------------
(* Token pairs and sessions. *)

(* "current": usable for longer than TokenExpiryBuffer; "expiring": within *)
(* the buffer; "unknown": the reply named no refresh token expiration.     *)
AccessAges == {"current", "expiring", "expired"}
RefreshAges == AccessAges \cup {"unknown"}

TokenPair ==
  [sid : Sids, issuer : Tenants, access : AccessAges, refresh : RefreshAges,
   stale : BOOLEAN]

EmptyPair ==
  [sid |-> NoSid, issuer |-> NoTenant, access |-> "blank", refresh |-> "blank",
   stale |-> FALSE]

(* A pair fresh from the gateway.  It is `stale' once the gateway rotated   *)
(* the refresh token in a reply that never arrived.                         *)
NewPair(s, t, expiry) ==
  [sid |-> s, issuer |-> t, access |-> "current", refresh |-> expiry,
   stale |-> FALSE]

Session ==
  [tenant : Tenants, cred : Creds \cup {NoCred}, isAuthenticated : BOOLEAN,
   pair : TokenPair \cup {EmptyPair}]

NewSession(t) ==
  [tenant |-> t, cred |-> NoCred, isAuthenticated |-> FALSE, pair |-> EmptyPair]

IsEmpty(p) == p.refresh = "blank"
IsTokenExpired(p) == p.access # "current"
HasValidRefreshToken(p) == p.refresh = "current"
HasTokensFromOtherTenant(z) == ~IsEmpty(z.pair) /\ z.pair.issuer # z.tenant
SessionCredentialsMatch(z, cr) == z.cred = cr

(* Mutant: the issuer of the first pair is kept. *)
StoresWithOldIssuer(z, s, expiry) ==
  [z EXCEPT !.pair = NewPair(s, IF IsEmpty(z.pair) THEN z.tenant ELSE z.pair.issuer, expiry)]

(* The session's current tenant is recorded as the issuer of the pair. *)
StoreTokens(z, s, expiry) == [z EXCEPT !.pair = NewPair(s, z.tenant, expiry)]

(* Mutant: the pair is read without being cleared. *)
CopiesTokens(z) == z

TakeTokens(z) == [z EXCEPT !.pair = EmptyPair]

Clear(z) == [TakeTokens(z) EXCEPT !.isAuthenticated = FALSE, !.cred = NoCred]

SetAuthenticated(z, cr) == [z EXCEPT !.isAuthenticated = TRUE, !.cred = cr]
UpdateTenant(z, t) == [z EXCEPT !.tenant = t]

NoCall == [cred |-> NoCred, attempt |-> 0, refreshErr |-> "none"]
Call ==
  [cred : Creds \cup {NoCred}, attempt : 0..MaxRetries,
   refreshErr : {"none", "rejected", "transient"}]

(* The logout of a pair, as LogoutTokens starts it. *)
Logout(p) == [pair |-> p, stage |-> "start", refreshedFirst |-> FALSE]
LogoutCall ==
  [pair : TokenPair, stage : {"start", "refresh", "logout"}, refreshedFirst : BOOLEAN]

(* logoutReplacedTokens starts nothing for an empty pair. *)
LogoutOf(p) == IF IsEmpty(p) THEN {} ELSE {Logout(p)}

---------------------------------------------------------------------------
(* The gateway. *)

Live(s) == life[s] \in {"alive", "expiring"}

(* A login of `cred' on tenant t creates a Keycloak session of its own; a   *)
(* wrong password is refused.                                               *)
Opens(s, t, cred) ==
  /\ cred.password \notin WrongPasswords
  /\ life[s] = "unused"
  /\ life' = [life EXCEPT ![s] = "alive"]
  /\ origin' = [origin EXCEPT ![s] = [tenant |-> t, cred |-> cred]]

(* Tenant t can honour the refresh token of p. *)
CanRefresh(p, t) == t = p.issuer /\ Live(p.sid)

(* Tenant t can reject it: not its own, the session is gone, or the token   *)
(* has been rotated away.                                                   *)
CanReject(p, t) == t # p.issuer \/ ~Live(p.sid) \/ p.stale

Refreshes(s) == life' = [life EXCEPT ![s] = "alive"]

(* What a logout ends: the session of the refresh token, whatever the age   *)
(* of that token.  Without a refresh token it ends every session of the     *)
(* user (the blank-refresh trap).                                           *)
EndedBy(p) ==
  IF p.refresh # "blank" THEN {p.sid}
  ELSE {s \in Sids : Live(s) /\ p.sid \in Sids
                       /\ origin[s].cred.user = origin[p.sid].cred.user}

(* Sessions end; what could have left them behind no longer matters. *)
Ends(S) ==
  /\ life' = [s \in Sids |-> IF s \in S THEN "ended" ELSE life[s]]
  /\ cause' = [s \in Sids |-> IF s \in S THEN {} ELSE cause[s]]

Blame(s, why) == cause' = [cause EXCEPT ![s] = @ \cup {why}]

---------------------------------------------------------------------------
Init ==
  /\ life = [s \in Sids |-> "unused"]
  /\ origin = [s \in Sids |-> NoOrigin]
  /\ cause = [s \in Sids |-> {}]
  /\ pc = [c \in Conns |-> "closed"]
  /\ \E t \in Tenants : sess = [c \in Conns |-> NewSession(t)]
  /\ call = [c \in Conns |-> NoCall]
  /\ loginOk = [c \in Conns |-> NoOrigin]
  /\ logouts = {}

(* A device connects: NewSession with the tenant resolved at connect. *)
Accept(c) ==
  /\ pc[c] = "closed"
  /\ pc' = [pc EXCEPT ![c] = "idle"]
  /\ \E t \in Tenants : sess' = [sess EXCEPT ![c] = NewSession(t)]
  /\ loginOk' = [loginOk EXCEPT ![c] = NoOrigin]
  /\ UNCHANGED <<keycloak, call, logouts>>

(* Connection.Handle returns (the device closed, the idle deadline passed,  *)
(* a read or write failed, or the context is cancelled between messages):   *)
(* the socket is closed and the pair is taken and logged out.               *)
Close(c) ==
  /\ pc[c] = "idle"
  /\ pc' = [pc EXCEPT ![c] = "closed"]
  /\ sess' = [sess EXCEPT ![c] = TakeTokens(@)]
  /\ logouts' = logouts \cup LogoutOf(sess[c].pair)
  /\ loginOk' = [loginOk EXCEPT ![c] = NoOrigin]
  /\ UNCHANGED <<keycloak, call>>

---------------------------------------------------------------------------
(* 93 Login.  The connection resolves the tenant before the handler sees    *)
(* the message; t is the tenant it resolves to, the current one when the    *)
(* resolution fails or finds no other.                                      *)

(* A 93 without a user name or a password is answered at once. *)
LoginIncomplete(c, t) ==
  /\ pc[c] = "idle"
  /\ sess' = [sess EXCEPT ![c] = UpdateTenant(@, t)]
  /\ loginOk' = [loginOk EXCEPT ![c] = NoOrigin]
  /\ UNCHANGED <<keycloak, pc, call, logouts>>

(* Mutant: the short-circuit does not compare the credentials. *)
SkipsLoginOfAnyone(z, cr) ==
  z.isAuthenticated /\ ~IsTokenExpired(z.pair) /\ ~HasTokensFromOtherTenant(z)

SkipsLogin(z, cr) ==
  /\ z.isAuthenticated
  /\ ~IsTokenExpired(z.pair)
  /\ ~HasTokensFromOtherTenant(z)
  /\ SessionCredentialsMatch(z, cr)

LoginSkipped(c, t, cr) ==
  /\ pc[c] = "idle"
  /\ SkipsLogin(UpdateTenant(sess[c], t), cr)
  /\ sess' = [sess EXCEPT ![c] = UpdateTenant(@, t)]
  /\ loginOk' = [loginOk EXCEPT ![c] = [tenant |-> t, cred |-> cr]]
  /\ UNCHANGED <<keycloak, pc, call, logouts>>

LoginSent(c, t, cr) ==
  /\ pc[c] = "idle"
  /\ ~SkipsLogin(UpdateTenant(sess[c], t), cr)
  /\ pc' = [pc EXCEPT ![c] = "login"]
  /\ sess' = [sess EXCEPT ![c] = UpdateTenant(@, t)]
  /\ call' = [call EXCEPT ![c] = [NoCall EXCEPT !.cred = cr]]
  /\ loginOk' = [loginOk EXCEPT ![c] = NoOrigin]
  /\ UNCHANGED <<keycloak, logouts>>

(* Mutant: what one renewal learned of its refresh is left to the next one. *)
ReturnsWithError(c) ==
  /\ pc' = [pc EXCEPT ![c] = "idle"]
  /\ UNCHANGED call

Return(c) ==
  /\ pc' = [pc EXCEPT ![c] = "idle"]
  /\ call' = [call EXCEPT ![c] = NoCall]

(* The new pair replaces the old one, which is logged out in the background.*)
LoginAccepted(c, s, expiry) ==
  /\ pc[c] = "login"
  /\ Opens(s, sess[c].tenant, call[c].cred)
  /\ sess' = [sess EXCEPT ![c] = SetAuthenticated(StoreTokens(@, s, expiry), call[c].cred)]
  /\ logouts' = logouts \cup LogoutOf(sess[c].pair)
  /\ loginOk' = [loginOk EXCEPT ![c] = [tenant |-> sess[c].tenant, cred |-> call[c].cred]]
  /\ Return(c)
  /\ UNCHANGED cause

(* Mutant: every failed login clears the session. *)
LoginErrorClears(c) ==
  /\ sess' = [sess EXCEPT ![c] = Clear(@)]
  /\ logouts' = logouts \cup LogoutOf(sess[c].pair)
  /\ loginOk' = [loginOk EXCEPT ![c] = NoOrigin]
  /\ Return(c)

(* A failed login leaves the session as it was, unless this 93 moved it to  *)
(* another tenant: then the pair is taken, the authentication dropped and   *)
(* the old tenant's session logged out.                                     *)
LoginError(c) ==
  /\ IF HasTokensFromOtherTenant(sess[c])
     THEN /\ sess' = [sess EXCEPT ![c] = Clear(@)]
          /\ logouts' = logouts \cup LogoutOf(sess[c].pair)
     ELSE UNCHANGED <<sess, logouts>>
  /\ loginOk' = [loginOk EXCEPT ![c] = NoOrigin]
  /\ Return(c)

LoginFailed(c) ==
  /\ pc[c] = "login"
  /\ LoginError(c)
  /\ UNCHANGED keycloak

(* The gateway opened a session and its reply did not arrive, or arrived    *)
(* without a token cookie: an error to the handler all the same.            *)
LoginReplyLost(c, s) ==
  /\ pc[c] = "login"
  /\ Opens(s, sess[c].tenant, call[c].cred)
  /\ Blame(s, "replyLost")
  /\ LoginError(c)

---------------------------------------------------------------------------
(* getAuthenticatedFolioClient, as the handlers of all other messages call  *)
(* it: a current access token is used as it is (no step here), an expired   *)
(* one is renewed, with a refresh where the refresh token allows it and     *)
(* with a login of the stored credentials otherwise.                        *)

RenewStart(c) ==
  /\ pc[c] = "idle"
  /\ sess[c].pair.access # "blank"
  /\ IsTokenExpired(sess[c].pair)
  /\ pc' = [pc EXCEPT ![c] =
              IF HasValidRefreshToken(sess[c].pair) THEN "refresh" ELSE "relogin"]
  /\ UNCHANGED <<keycloak, sess, call, loginOk, logouts>>

RefreshAccepted(c, expiry) ==
  /\ pc[c] = "refresh"
  /\ CanRefresh(sess[c].pair, sess[c].tenant)
  /\ Refreshes(sess[c].pair.sid)
  /\ sess' = [sess EXCEPT ![c] = StoreTokens(@, @.pair.sid, expiry)]
  /\ Return(c)
  /\ UNCHANGED <<origin, cause, loginOk, logouts>>

FallBack(c, err) ==
  /\ pc' = [pc EXCEPT ![c] = "relogin"]
  /\ call' = [call EXCEPT ![c].refreshErr = err]

RefreshRejected(c) ==
  /\ pc[c] = "refresh"
  /\ CanReject(sess[c].pair, sess[c].tenant)
  /\ FallBack(c, "rejected")
  /\ UNCHANGED <<keycloak, sess, loginOk, logouts>>

RefreshFailed(c) ==
  /\ pc[c] = "refresh"
  /\ FallBack(c, "transient")
  /\ UNCHANGED <<keycloak, sess, loginOk, logouts>>

(* The gateway rotated the refresh token and its reply did not arrive: the  *)
(* stored pair is stale from here on.                                       *)
RefreshReplyLost(c) ==
  /\ pc[c] = "refresh"
  /\ CanRefresh(sess[c].pair, sess[c].tenant)
  /\ Refreshes(sess[c].pair.sid)
  /\ Blame(sess[c].pair.sid, "replyLost")
  /\ sess' = [sess EXCEPT ![c].pair.stale = TRUE]
  /\ FallBack(c, "transient")
  /\ UNCHANGED <<origin, loginOk, logouts>>

(* Mutant: the two kinds of refresh failure are mixed up. *)
LogsOutRejected(c) == call[c].refreshErr = "rejected"

(* The pair a re-login replaces is logged out only when its refresh failed  *)
(* for a transient reason.                                                  *)
LogsOutReplaced(c) == call[c].refreshErr = "transient"

(* History: why a pair that is dropped without a logout may still stand for *)
(* a live session.                                                          *)
DropCauses(c) ==
  {why \in {"misrouted", "unknownExpiry"} :
     \/ why = "misrouted" /\ HasTokensFromOtherTenant(sess[c])
     \/ why = "unknownExpiry" /\ sess[c].pair.refresh = "unknown"}

ReloginAccepted(c, s, expiry) ==
  /\ pc[c] = "relogin"
  /\ Opens(s, sess[c].tenant, sess[c].cred)
  /\ sess' = [sess EXCEPT ![c] = StoreTokens(@, s, expiry)]
  /\ IF LogsOutReplaced(c)
     THEN /\ logouts' = logouts \cup LogoutOf(sess[c].pair)
          /\ UNCHANGED cause
     ELSE /\ cause' = [cause EXCEPT ![sess[c].pair.sid] = @ \cup DropCauses(c)]
          /\ UNCHANGED logouts
  /\ Return(c)
  /\ UNCHANGED loginOk

(* Mutant: a failed login is retried until one succeeds. *)
RetriesForever(c) == UNCHANGED <<pc, call, sess, loginOk, logouts>>

(* Up to MaxRetries logins; after the last one the session keeps its pair.  *)
ReloginError(c) ==
  /\ IF call[c].attempt + 1 < MaxRetries
     THEN /\ call' = [call EXCEPT ![c].attempt = @ + 1]
          /\ UNCHANGED pc
     ELSE Return(c)
  /\ UNCHANGED <<sess, loginOk, logouts>>

ReloginFailed(c) ==
  /\ pc[c] = "relogin"
  /\ ReloginError(c)
  /\ UNCHANGED keycloak

ReloginReplyLost(c, s) ==
  /\ pc[c] = "relogin"
  /\ Opens(s, sess[c].tenant, sess[c].cred)
  /\ Blame(s, "replyLost")
  /\ ReloginError(c)

---------------------------------------------------------------------------
(* LogoutTokens. *)

Replace(l, m) == logouts' = (logouts \ {l}) \cup {m}
Done(l) == logouts' = logouts \ {l}

(* Mutant: only a pair that can still be refreshed for sure is logged out. *)
SkipsUnlessValid(p) == ~HasValidRefreshToken(p)

SkipsLogout(p) == p.refresh = "expired"

LogoutSkipped(l) ==
  /\ l.stage = "start"
  /\ SkipsLogout(l.pair)
  /\ Done(l)
  /\ UNCHANGED <<keycloak, pc, sess, call, loginOk>>

(* An access token that has expired is refreshed first. *)
LogoutStart(l) ==
  /\ l.stage = "start"
  /\ ~SkipsLogout(l.pair)
  /\ Replace(l, [l EXCEPT !.stage =
                   IF l.pair.access \in {"blank", "expired"} THEN "refresh" ELSE "logout"])
  /\ UNCHANGED <<keycloak, pc, sess, call, loginOk>>

LogoutRefreshed(l, expiry) ==
  /\ l.stage = "refresh"
  /\ CanRefresh(l.pair, l.pair.issuer)
  /\ Refreshes(l.pair.sid)
  /\ Replace(l, [pair |-> NewPair(l.pair.sid, l.pair.issuer, expiry),
                 stage |-> "logout", refreshedFirst |-> TRUE])
  /\ UNCHANGED <<origin, cause, pc, sess, call, loginOk>>

(* A rejected refresh: the session is taken to be gone. *)
LogoutRefreshRejected(l) ==
  /\ l.stage = "refresh"
  /\ CanReject(l.pair, l.pair.issuer)
  /\ Done(l)
  /\ UNCHANGED <<keycloak, pc, sess, call, loginOk>>

LogoutRefreshFailed(l) ==
  /\ l.stage = "refresh"
  /\ Done(l)
  /\ Blame(l.pair.sid, "logoutFailed")
  /\ UNCHANGED <<life, origin, pc, sess, call, loginOk>>

(* A logout is honoured only with an access token that has not expired. *)
LogoutAccepted(l) ==
  /\ l.stage = "logout"
  /\ l.pair.access # "expired"
  /\ Ends(EndedBy(l.pair))
  /\ Done(l)
  /\ UNCHANGED <<origin, pc, sess, call, loginOk>>

(* Mutant: every 401 is followed by a refresh and a retry. *)
AlwaysRetries(l) == TRUE

(* A 401 on an access token fsip2 believed current: one refresh and retry.  *)
RetriesUnauthorized(l) == ~l.refreshedFirst

LogoutUnauthorized(l) ==
  /\ l.stage = "logout"
  /\ RetriesUnauthorized(l)
  /\ Replace(l, [l EXCEPT !.stage = "refresh"])
  /\ UNCHANGED <<keycloak, pc, sess, call, loginOk>>

(* Any other failure, a second 401 among them; the session may have ended   *)
(* all the same when it was the reply that got lost.                        *)
LogoutFailed(l) ==
  /\ l.stage = "logout"
  /\ Done(l)
  /\ \/ /\ Blame(l.pair.sid, "logoutFailed")
        /\ UNCHANGED life
     \/ /\ l.pair.access # "expired"
        /\ Ends(EndedBy(l.pair))
  /\ UNCHANGED <<origin, pc, sess, call, loginOk>>

---------------------------------------------------------------------------
(* Time.  While a pair is the session's newest one, its refresh token and   *)
(* the Keycloak session expire together.                                    *)

Older(age) == CASE age = "current" -> "expiring" [] age = "expiring" -> "expired"

SessionAges(p) ==
  IF p.stale \/ ~Live(p.sid) THEN UNCHANGED <<life, cause>>
  ELSE IF p.refresh = "expiring" THEN Ends({p.sid})
  ELSE /\ life' = [life EXCEPT ![p.sid] = "expiring"]
       /\ UNCHANGED cause

AccessAgesBy(c) ==
  /\ sess[c].pair.access \in {"current", "expiring"}
  /\ sess' = [sess EXCEPT ![c].pair.access = Older(@)]
  /\ UNCHANGED <<keycloak, pc, call, loginOk, logouts>>

RefreshAgesBy(c) ==
  /\ sess[c].pair.refresh \in {"current", "expiring"}
  /\ SessionAges(sess[c].pair)
  /\ sess' = [sess EXCEPT ![c].pair.refresh = Older(@)]
  /\ UNCHANGED <<origin, pc, call, loginOk, logouts>>

(* A pair waiting for its logout; one the logout itself has just refreshed  *)
(* outlives the three seconds a logout may take.                            *)
LogoutPairAges(l) ==
  /\ ~l.refreshedFirst
  /\ \/ /\ l.pair.access \in {"current", "expiring"}
        /\ Replace(l, [l EXCEPT !.pair.access = Older(@)])
        /\ UNCHANGED <<life, cause>>
     \/ /\ l.pair.refresh \in {"current", "expiring"}
        /\ Replace(l, [l EXCEPT !.pair.refresh = Older(@)])
        /\ SessionAges(l.pair)
  /\ UNCHANGED <<origin, pc, sess, call, loginOk>>

(* A session about to expire does. *)
KcExpires(s) ==
  /\ life[s] = "expiring"
  /\ Ends({s})
  /\ UNCHANGED <<origin, pc, sess, call, loginOk, logouts>>

(* A session ended by someone else: an administrator, a restart.            *)
KcRevoked(s) ==
  /\ life[s] = "alive"
  /\ Ends({s})
  /\ UNCHANGED <<origin, pc, sess, call, loginOk, logouts>>

---------------------------------------------------------------------------
(* A connection waiting for a FOLIO call gets an answer or its timeout. *)
Answered(c) ==
  \/ \E s \in Sids, e \in Expiries : LoginAccepted(c, s, e)
  \/ LoginFailed(c)
  \/ \E s \in Sids : LoginReplyLost(c, s)
  \/ \E e \in Expiries : RefreshAccepted(c, e)
  \/ RefreshRejected(c)
  \/ RefreshFailed(c)
  \/ RefreshReplyLost(c)
  \/ \E s \in Sids, e \in Expiries : ReloginAccepted(c, s, e)
  \/ ReloginFailed(c)
  \/ \E s \in Sids : ReloginReplyLost(c, s)

LogoutStep(l) ==
  \/ LogoutSkipped(l)
  \/ LogoutStart(l)
  \/ \E e \in Expiries : LogoutRefreshed(l, e)
  \/ LogoutRefreshRejected(l)
  \/ LogoutRefreshFailed(l)
  \/ LogoutAccepted(l)
  \/ LogoutUnauthorized(l)
  \/ LogoutFailed(l)

Device(c) ==
  \/ Accept(c)
  \/ Close(c)
  \/ \E t \in Tenants : LoginIncomplete(c, t)
  \/ \E t \in Tenants, cr \in Creds : LoginSkipped(c, t, cr)
  \/ \E t \in Tenants, cr \in Creds : LoginSent(c, t, cr)
  \/ RenewStart(c)

Time ==
  \/ \E c \in Conns : AccessAgesBy(c)
  \/ \E c \in Conns : RefreshAgesBy(c)
  \/ \E l \in logouts : LogoutPairAges(l)
  \/ \E s \in Sids : KcExpires(s)
  \/ \E s \in Sids : KcRevoked(s)

Next ==
  \/ \E c \in Conns : Device(c)
  \/ \E c \in Conns : Answered(c)
  \/ \E l \in logouts : LogoutStep(l)
  \/ Time

Spec == Init /\ [][Next]_vars

LogoutStepOf(s) == \E l \in logouts : l.pair.sid = s /\ LogoutStep(l)

(* Every FOLIO call returns within its timeout, every logout goroutine      *)
(* runs, and what is about to expire expires.  Devices owe nothing.         *)
Fairness ==
  /\ \A c \in Conns : WF_vars(Answered(c))
  /\ \A s \in Sids : WF_vars(LogoutStepOf(s))
  /\ \A s \in Sids : WF_vars(KcExpires(s))

FairSpec == Spec /\ Fairness

---------------------------------------------------------------------------
(* Properties. *)

LoggedOut(s) == \E l \in logouts : l.pair.sid = s
Held(s) == \E c \in Conns : sess[c].pair.sid = s
Owned(s) == Held(s) \/ LoggedOut(s)

Causes == {"replyLost", "logoutFailed", "misrouted", "unknownExpiry"}

(* Types, and the values the fields of a record may take together. *)
TypeOK ==
  /\ life \in [Sids -> {"unused", "alive", "expiring", "ended"}]
  /\ origin \in [Sids -> Origins]
  /\ cause \in [Sids -> SUBSET Causes]
  /\ pc \in [Conns -> {"closed", "idle", "login", "refresh", "relogin"}]
  /\ sess \in [Conns -> Session]
  /\ call \in [Conns -> Call]
  /\ loginOk \in [Conns -> Origins]
  /\ logouts \subseteq LogoutCall

(* A Keycloak session belongs to one connection, or to one logout, or to    *)
(* nobody: tokens are never shared between connections, a logout never ends *)
(* a session that a connection still uses, and no pair has two logouts      *)
(* (SwapTokens, TakeTokens, logoutReplacedTokens, closeAndLogout).          *)
Exclusive ==
  /\ \A c, d \in Conns :
       sess[c].pair.sid = sess[d].pair.sid /\ sess[c].pair # EmptyPair => c = d
  /\ \A l, m \in logouts : l.pair.sid = m.pair.sid => l = m
  /\ \A c \in Conns, l \in logouts : sess[c].pair.sid # l.pair.sid

(* fsip2 forgets no live Keycloak session: one that is alive is held by a   *)
(* connection, or about to be logged out, or there is a reason on record    *)
(* why it could not be: the gateway lost a reply, the logout itself failed, *)
(* its refresh token was sent to a tenant that did not issue it, or the     *)
(* gateway never said when it expires.                                      *)
NoForgottenSession ==
  \A s \in Sids : life[s] = "alive" => Owned(s) \/ cause[s] # {}

(* Whoever holds a pair sends it to the tenant that issued it: the issuer   *)
(* kept with a pair is the tenant that opened its session, however often    *)
(* the connection has been moved since, and the credentials kept with it    *)
(* are the ones that opened it, so a re-login opens another session of the  *)
(* same user (storeTokensLocked, SetAuthCredentials, LogoutTokens).         *)
PairKnowsItsOrigin ==
  /\ \A c \in Conns : sess[c].pair # EmptyPair =>
       origin[sess[c].pair.sid] = [tenant |-> sess[c].pair.issuer, cred |-> sess[c].cred]
  /\ \A l \in logouts : l.pair.issuer = origin[l.pair.sid].tenant

(* A renewal always finds credentials to fall back on: a connection with a  *)
(* token pair is authenticated and keeps the credentials of its login       *)
(* (tryRelogin's errNoCredentials cannot happen).                           *)
RenewalHasCredentials ==
  \A c \in Conns : sess[c].pair # EmptyPair =>
    sess[c].isAuthenticated /\ sess[c].cred # NoCred

(* A device whose last 93 was answered "ok" works in the tenant that 93     *)
(* resolved to, in a Keycloak session opened there with the credentials     *)
(* that 93 carried, whether FOLIO was asked or the 93 was answered from the *)
(* session, and through every renewal and re-login since: what an earlier   *)
(* 93 left behind never vouches for another password, user or tenant (the   *)
(* short-circuit of LoginHandler.Handle, SetAuthCredentials, tryRelogin).   *)
LoginOkHolds ==
  \A c \in Conns : loginOk[c] # NoOrigin =>
    /\ sess[c].tenant = loginOk[c].tenant
    /\ sess[c].pair # EmptyPair
    /\ origin[sess[c].pair.sid] = loginOk[c]

(* A connection loses its authentication only when it closes, or when a 93  *)
(* moved it to another tenant and failed there; a failed login or renewal   *)
(* leaves it the session it had (LoginHandler.Handle, renewToken).          *)
KeepsAuthentication ==
  \A c \in Conns :
    sess[c].isAuthenticated /\ ~sess'[c].isAuthenticated =>
      pc[c] = "closed" \/ sess[c].pair.issuer # sess[c].tenant

AuthenticationSurvives == [][KeepsAuthentication]_vars

(* The connections and logouts keep the service account's promise: a pair   *)
(* that was handed to a logout, or dropped, is never used again, not by a   *)
(* connection that reopens and not by a login or renewal that was under way *)
(* (closeAndLogout, SwapTokens, renewToken); a logout ends the session of   *)
(* its own pair only (LogoutTokens refuses a blank refresh token); and every*)
(* session left behind has a cause.                                         *)
Opened == {s \in Sids : life[s] # "unused"}
Holds == [c \in Conns |-> sess[c].pair.sid]
Leaving == {l.pair.sid : l \in logouts}
LivesOn == {s \in Sids : life[s] = "alive"}
Excused == {s \in Sids : cause[s] # {}}
Account == INSTANCE ServiceAccount WITH
  Holders <- Conns, Sessions <- Sids, None <- NoSid, opened <- Opened, holds <- Holds,
  leaving <- Leaving, live <- LivesOn, excused <- Excused
ImplementsServiceAccount == Account!Spec

(* renewToken drops a pair without a logout only if its session is gone or  *)
(* about to expire: after a 4xx to the refresh, or when the refresh was     *)
(* skipped (the comment of renewToken; eureka_capabilities.md).             *)
DroppedPairIsGone ==
  \A c \in Conns :
    /\ pc[c] = "relogin"
    /\ ~LogsOutReplaced(c)
    /\ "replyLost" \notin cause[sess[c].pair.sid]
    => life[sess[c].pair.sid] # "alive"

(* Every Keycloak session whose connection let go of it ends, unless one of *)
(* the recorded reasons prevents it.                                        *)
ReleasedSessionEnds ==
  \A s \in Sids : (Live(s) /\ ~Held(s)) ~> (~Live(s) \/ cause[s] # {})

(* Every message that waits for FOLIO is answered: the refresh and the      *)
(* logins of one renewal are bounded.                                       *)
EveryCallReturns ==
  \A c \in Conns : (pc[c] \in {"login", "refresh", "relogin"}) ~> (pc[c] = "idle")

---------------------------------------------------------------------------
(* The inductive invariant of the proofs. *)

(* What the age of a pair says of its session. *)
AgeOK(p) ==
  /\ p.stale => "replyLost" \in cause[p.sid] \/ life[p.sid] = "ended"
  /\ ~p.stale /\ p.refresh = "expiring" => life[p.sid] # "alive"
  /\ ~p.stale /\ p.refresh = "expired" => life[p.sid] = "ended"

(* What a connection knows of its pair: nothing is left in a closed one,    *)
(* and a renewal in progress knows what it is about to replace.             *)
RenewalOK(c) ==
  /\ pc[c] = "closed" => sess[c].pair = EmptyPair
  /\ pc[c] \in {"refresh", "relogin"} => sess[c].pair # EmptyPair
  /\ pc[c] # "relogin" => call[c].refreshErr = "none"
  /\ pc[c] = "relogin" /\ call[c].refreshErr = "none" => sess[c].pair.refresh # "current"
  /\ pc[c] = "relogin" /\ call[c].refreshErr = "rejected" =>
       \/ ~Live(sess[c].pair.sid)
       \/ "replyLost" \in cause[sess[c].pair.sid]
       \/ HasTokensFromOtherTenant(sess[c])

(* Ownership, and what the owners know of their sessions. *)
OwnershipInv ==
  /\ Exclusive
  /\ NoForgottenSession
  /\ \A s \in Sids : life[s] = "unused" => ~Owned(s)
  /\ \A c \in Conns : sess[c].pair # EmptyPair => AgeOK(sess[c].pair)
  /\ \A l \in logouts : AgeOK(l.pair)

(* Where the sessions come from, and what the devices were told. *)
OriginInv ==
  /\ PairKnowsItsOrigin
  /\ RenewalHasCredentials
  /\ LoginOkHolds
  /\ \A c \in Conns : pc[c] = "login" => call[c].cred # NoCred

RenewalInv == \A c \in Conns : RenewalOK(c)

IInv == TypeOK /\ OwnershipInv /\ OriginInv /\ RenewalInv
===========================================================================
