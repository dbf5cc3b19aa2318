----------------------- MODULE TokenSession_proofs -----------------------
(***************************************************************************)
(* Theorems about TokenSession, for any set of connections, Keycloak       *)
(* sessions, tenants, users and passwords, and the proof that it implements *)
(* the abstract ServiceAccount.                                            *)
(***************************************************************************)
EXTENDS TokenSession, TLAPS

(* What the operators on pairs and sessions return. *)
LEMMA PairTypes ==
  /\ \A s \in Sids, t \in Tenants, e \in Expiries : NewPair(s, t, e) \in TokenPair
  /\ EmptyPair \notin TokenPair
  /\ \A p \in TokenPair : p.refresh # "blank" /\ p.access # "blank" /\ p.sid \in Sids
BY ConstantsAssumption DEF NewPair, TokenPair, EmptyPair, AccessAges, RefreshAges

(* The methods of types.Session return sessions. *)
LEMMA SessionTypes ==
  ASSUME NEW z \in Session
  PROVE  /\ \A t \in Tenants : UpdateTenant(z, t) \in Session
         /\ TakeTokens(z) \in Session
         /\ Clear(z) \in Session
         /\ \A cr \in Creds : SetAuthenticated(z, cr) \in Session
         /\ \A s \in Sids, e \in Expiries : StoreTokens(z, s, e) \in Session
<1>1. \A t \in Tenants : UpdateTenant(z, t) \in Session
  BY DEF UpdateTenant, Session
<1>2. TakeTokens(z) \in Session
  BY DEF TakeTokens, Session
<1>3. Clear(z) \in Session
  BY <1>2 DEF Clear, Session
<1>4. \A cr \in Creds : SetAuthenticated(z, cr) \in Session
  BY DEF SetAuthenticated, Session
<1>5. \A s \in Sids, e \in Expiries : StoreTokens(z, s, e) \in Session
  <2> SUFFICES ASSUME NEW s \in Sids, NEW e \in Expiries
               PROVE  StoreTokens(z, s, e) \in Session
    OBVIOUS
  <2>1. z.tenant \in Tenants
    BY DEF Session
  <2>2. NewPair(s, z.tenant, e) \in TokenPair
    BY <2>1, PairTypes
  <2> QED
    BY <2>2 DEF StoreTokens, Session
<1> QED
  BY <1>1, <1>2, <1>3, <1>4, <1>5

(* A logout of a pair is a record of its type; logouts come and go one by one. *)
LEMMA LogoutTypes ==
  ASSUME NEW p \in TokenPair \cup {EmptyPair}
  PROVE  LogoutOf(p) \subseteq LogoutCall
<1>1. CASE p = EmptyPair
  BY <1>1 DEF LogoutOf, IsEmpty, EmptyPair
<1>2. CASE p \in TokenPair
  <2>1. Logout(p) \in LogoutCall
    BY <1>2 DEF Logout, LogoutCall
  <2> QED
    BY <2>1 DEF LogoutOf
<1> QED
  BY <1>1, <1>2

(* What a 93 can ask for is an origin, and "nothing" is one too. *)
LEMMA OriginTypes ==
  /\ NoOrigin \in Origins
  /\ \A t \in Tenants, cr \in Creds \cup {NoCred} : [tenant |-> t, cred |-> cr] \in Origins
BY DEF NoOrigin, Origins

---------------------------------------------------------------------------
(* What the device does keeps the types. *)
LEMMA DeviceType ==
  ASSUME TypeOK, NEW c \in Conns, Device(c)
  PROVE  TypeOK'
<1> USE DEF TypeOK
<1>1. sess[c] \in Session
  OBVIOUS
<1>2. CASE Accept(c)
  <2>1. \A t \in Tenants : NewSession(t) \in Session
    BY DEF NewSession, Session
  <2> QED
    BY <1>2, <2>1, OriginTypes DEF Accept, keycloak
<1>3. CASE Close(c)
  <2>1. LogoutOf(sess[c].pair) \subseteq LogoutCall
    BY <1>1, LogoutTypes DEF Session
  <2>2. TakeTokens(sess[c]) \in Session
    BY <1>1, SessionTypes
  <2> QED
    BY <1>3, <2>1, <2>2, OriginTypes DEF Close, keycloak
<1>4. \A t \in Tenants : UpdateTenant(sess[c], t) \in Session
  BY <1>1, SessionTypes
<1>5. ASSUME NEW t \in Tenants, LoginIncomplete(c, t)
      PROVE  TypeOK'
  BY <1>4, <1>5, OriginTypes DEF LoginIncomplete, keycloak
<1>6. ASSUME NEW t \in Tenants, NEW cr \in Creds, LoginSkipped(c, t, cr)
      PROVE  TypeOK'
  BY <1>4, <1>6, OriginTypes DEF LoginSkipped, keycloak
<1>7. ASSUME NEW t \in Tenants, NEW cr \in Creds, LoginSent(c, t, cr)
      PROVE  TypeOK'
  <2>1. [NoCall EXCEPT !.cred = cr] \in Call
    BY ConstantsAssumption DEF NoCall, Call
  <2> QED
    BY <1>4, <1>7, <2>1, OriginTypes DEF LoginSent, keycloak
<1>8. CASE RenewStart(c)
  BY <1>8 DEF RenewStart, keycloak
<1> QED
  BY <1>2, <1>3, <1>5, <1>6, <1>7, <1>8 DEF Device

(* The record of a connection that waits for nothing has its type. *)
LEMMA NoCallType == NoCall \in Call
BY ConstantsAssumption DEF NoCall, Call

(* What a step that opens a Keycloak session does to the gateway. *)
LEMMA OpensType ==
  ASSUME TypeOK, NEW s \in Sids, NEW t \in Tenants, NEW cr \in Creds \cup {NoCred},
         Opens(s, t, cr)
  PROVE  /\ life' \in [Sids -> {"unused", "alive", "expiring", "ended"}]
         /\ origin' \in [Sids -> Origins]
BY DEF TypeOK, Opens, Origins

(* A recorded cause keeps the gateway's types. *)
LEMMA BlameType ==
  ASSUME TypeOK, NEW s \in Sids, NEW why \in Causes, Blame(s, why)
  PROVE  cause' \in [Sids -> SUBSET Causes]
BY DEF TypeOK, Blame

(* A session that ends keeps the gateway's types. *)
LEMMA EndsType ==
  ASSUME TypeOK, NEW S, Ends(S)
  PROVE  /\ life' \in [Sids -> {"unused", "alive", "expiring", "ended"}]
         /\ cause' \in [Sids -> SUBSET Causes]
BY DEF TypeOK, Ends

(* A failed 93 keeps the types. *)
LEMMA LoginErrorType ==
  ASSUME TypeOK, NEW c \in Conns, LoginError(c)
  PROVE  /\ sess' \in [Conns -> Session]
         /\ logouts' \subseteq LogoutCall
         /\ loginOk' \in [Conns -> Origins]
         /\ pc' \in [Conns -> {"closed", "idle", "login", "refresh", "relogin"}]
         /\ call' \in [Conns -> Call]
<1> USE DEF TypeOK
<1>1. sess[c] \in Session
  OBVIOUS
<1>2. LogoutOf(sess[c].pair) \subseteq LogoutCall
  BY <1>1, LogoutTypes DEF Session
<1>3. Clear(sess[c]) \in Session
  BY <1>1, SessionTypes
<1> QED
  BY <1>2, <1>3, NoCallType, OriginTypes DEF LoginError, Return

(* A failed re-login keeps the types. *)
LEMMA ReloginErrorType ==
  ASSUME TypeOK, NEW c \in Conns, ReloginError(c)
  PROVE  /\ UNCHANGED <<sess, loginOk, logouts>>
         /\ pc' \in [Conns -> {"closed", "idle", "login", "refresh", "relogin"}]
         /\ call' \in [Conns -> Call]
<1> USE DEF TypeOK
<1>1. call[c] \in Call
  OBVIOUS
<1>2. call[c].attempt + 1 < MaxRetries => [call[c] EXCEPT !.attempt = @ + 1] \in Call
  BY <1>1, ConstantsAssumption DEF Call
<1>3. CASE call[c].attempt + 1 < MaxRetries
  BY <1>2, <1>3 DEF ReloginError
<1>4. CASE ~(call[c].attempt + 1 < MaxRetries)
  BY <1>4, NoCallType DEF ReloginError, Return
<1> QED
  BY <1>3, <1>4

(* Every answer of a FOLIO call keeps the types. *)
LEMMA AnsweredType ==
  ASSUME TypeOK, NEW c \in Conns, Answered(c)
  PROVE  TypeOK'
<1>0. /\ sess[c] \in Session
      /\ sess[c].tenant \in Tenants
      /\ sess[c].cred \in Creds \cup {NoCred}
      /\ call[c].cred \in Creds \cup {NoCred}
  BY DEF TypeOK, Session, Call
<1>1. ASSUME NEW s \in Sids, NEW e \in Expiries, LoginAccepted(c, s, e)
      PROVE  TypeOK'
  <2>1. Opens(s, sess[c].tenant, call[c].cred)
    BY <1>1 DEF LoginAccepted
  <2>2. StoreTokens(sess[c], s, e) \in Session
    BY <1>0, SessionTypes
  <2>3. SetAuthenticated(StoreTokens(sess[c], s, e), call[c].cred) \in Session
    BY <1>0, <2>2 DEF SetAuthenticated, Session
  <2>4. LogoutOf(sess[c].pair) \subseteq LogoutCall
    BY <1>0, LogoutTypes DEF Session
  <2>5. [tenant |-> sess[c].tenant, cred |-> call[c].cred] \in Origins
    BY <1>0, OriginTypes
  <2> QED
    BY <1>0, <1>1, <2>1, <2>3, <2>4, <2>5, OpensType, NoCallType
       DEF LoginAccepted, Return, TypeOK
<1>2. CASE LoginFailed(c)
  BY <1>2, LoginErrorType DEF LoginFailed, TypeOK, keycloak
<1>3. ASSUME NEW s \in Sids, LoginReplyLost(c, s)
      PROVE  TypeOK'
  BY <1>0, <1>3, LoginErrorType, OpensType, BlameType DEF LoginReplyLost, TypeOK, Causes
<1>4. ASSUME NEW e \in Expiries, RefreshAccepted(c, e)
      PROVE  TypeOK'
  <2>1. sess[c].pair.sid \in Sids
    BY <1>4, ConstantsAssumption, <1>0
       DEF RefreshAccepted, CanRefresh, Session, TokenPair, EmptyPair
  <2>2. StoreTokens(sess[c], sess[c].pair.sid, e) \in Session
    BY <1>0, <2>1, SessionTypes
  <2> QED
    BY <1>4, <2>1, <2>2, NoCallType DEF RefreshAccepted, Refreshes, Return, TypeOK
<1>5. ASSUME NEW err \in {"rejected", "transient"}, FallBack(c, err)
      PROVE  /\ pc' \in [Conns -> {"closed", "idle", "login", "refresh", "relogin"}]
             /\ call' \in [Conns -> Call]
  BY <1>5 DEF FallBack, TypeOK, Call
<1>6. CASE RefreshRejected(c)
  BY <1>5, <1>6 DEF RefreshRejected, keycloak, TypeOK
<1>7. CASE RefreshFailed(c)
  BY <1>5, <1>7 DEF RefreshFailed, keycloak, TypeOK
<1>8. CASE RefreshReplyLost(c)
  <2>1. sess[c].pair \in TokenPair
    BY <1>8, <1>0, ConstantsAssumption
       DEF RefreshReplyLost, CanRefresh, Session, TokenPair, EmptyPair
  <2>2. [sess[c] EXCEPT !.pair.stale = TRUE] \in Session
    BY <1>0, <2>1 DEF Session, TokenPair
  <2>3. sess[c].pair.sid \in Sids
    BY <2>1, PairTypes
  <2>4. sess' = [sess EXCEPT ![c] = [sess[c] EXCEPT !.pair.stale = TRUE]]
    BY <1>8 DEF RefreshReplyLost, TypeOK
  <2>5. sess' \in [Conns -> Session]
    BY <2>2, <2>4 DEF TypeOK
  <2>6. cause' \in [Sids -> SUBSET Causes]
    BY <1>8, <2>3, BlameType DEF RefreshReplyLost, Causes
  <2>7. life' \in [Sids -> {"unused", "alive", "expiring", "ended"}]
    BY <1>8, <2>3 DEF RefreshReplyLost, Refreshes, TypeOK
  <2>8. FallBack(c, "transient")
    BY <1>8 DEF RefreshReplyLost
  <2> QED
    BY <1>8, <1>5, <2>5, <2>6, <2>7, <2>8 DEF RefreshReplyLost, TypeOK
<1>9. ASSUME NEW s \in Sids, NEW e \in Expiries, ReloginAccepted(c, s, e)
      PROVE  TypeOK'
  <2>1. Opens(s, sess[c].tenant, sess[c].cred)
    BY <1>9 DEF ReloginAccepted
  <2>2. StoreTokens(sess[c], s, e) \in Session
    BY <1>0, SessionTypes
  <2>3. LogoutOf(sess[c].pair) \subseteq LogoutCall
    BY <1>0, LogoutTypes DEF Session
  <2>4. DropCauses(c) \subseteq Causes
    BY DEF DropCauses, Causes
  <2>5. cause' \in [Sids -> SUBSET Causes] /\ logouts' \subseteq LogoutCall
    BY <1>9, <2>3, <2>4 DEF ReloginAccepted, TypeOK
  <2> QED
    BY <1>0, <1>9, <2>1, <2>2, <2>5, OpensType, NoCallType DEF ReloginAccepted, Return, TypeOK
<1>10. CASE ReloginFailed(c)
  BY <1>10, ReloginErrorType DEF ReloginFailed, TypeOK, keycloak
<1>11. ASSUME NEW s \in Sids, ReloginReplyLost(c, s)
       PROVE  TypeOK'
  BY <1>0, <1>11, ReloginErrorType, OpensType, BlameType DEF ReloginReplyLost, TypeOK, Causes
<1> QED
  BY <1>1, <1>2, <1>3, <1>4, <1>6, <1>7, <1>8, <1>9, <1>10, <1>11 DEF Answered

(* Every step of a logout keeps the types. *)
LEMMA LogoutStepType ==
  ASSUME TypeOK, NEW l \in logouts, LogoutStep(l)
  PROVE  TypeOK'
<1>0. l \in LogoutCall /\ l.pair \in TokenPair /\ l.pair.sid \in Sids /\ l.pair.issuer \in Tenants
  BY DEF TypeOK, LogoutCall, TokenPair
<1> USE DEF TypeOK
<1>1. CASE LogoutSkipped(l)
  BY <1>1 DEF LogoutSkipped, Done, keycloak
<1>2. CASE LogoutStart(l)
  <2>1. \A g \in {"refresh", "logout"} : [l EXCEPT !.stage = g] \in LogoutCall
    BY <1>0 DEF LogoutCall
  <2> QED
    BY <1>2, <2>1 DEF LogoutStart, Replace, keycloak
<1>3. ASSUME NEW e \in Expiries, LogoutRefreshed(l, e)
      PROVE  TypeOK'
  <2>1. NewPair(l.pair.sid, l.pair.issuer, e) \in TokenPair
    BY <1>0, PairTypes
  <2>2. [pair |-> NewPair(l.pair.sid, l.pair.issuer, e), stage |-> "logout",
         refreshedFirst |-> TRUE] \in LogoutCall
    BY <2>1 DEF LogoutCall
  <2> QED
    BY <1>0, <1>3, <2>2 DEF LogoutRefreshed, Replace, Refreshes
<1>4. CASE LogoutRefreshRejected(l)
  BY <1>4 DEF LogoutRefreshRejected, Done, keycloak
<1>5. CASE LogoutRefreshFailed(l)
  BY <1>0, <1>5, BlameType DEF LogoutRefreshFailed, Done, Causes
<1>6. CASE LogoutAccepted(l)
  BY <1>6, EndsType DEF LogoutAccepted, Done
<1>7. CASE LogoutUnauthorized(l)
  <2>1. [l EXCEPT !.stage = "refresh"] \in LogoutCall
    BY <1>0 DEF LogoutCall
  <2> QED
    BY <1>7, <2>1 DEF LogoutUnauthorized, Replace, keycloak
<1>8. CASE LogoutFailed(l)
  BY <1>0, <1>8, BlameType, EndsType DEF LogoutFailed, Done, Causes
<1> QED
  BY <1>1, <1>2, <1>3, <1>4, <1>5, <1>6, <1>7, <1>8 DEF LogoutStep

(* An older pair is still a pair. *)
LEMMA AgedPairType ==
  ASSUME NEW p \in TokenPair
  PROVE  /\ p.access \in {"current", "expiring"} =>
              [p EXCEPT !.access = Older(@)] \in TokenPair
         /\ p.refresh \in {"current", "expiring"} =>
              [p EXCEPT !.refresh = Older(@)] \in TokenPair
<1>1. Older("current") = "expiring" /\ Older("expiring") = "expired"
  BY DEF Older
<1>2. CASE p.access = "current"
  BY <1>1, <1>2 DEF TokenPair, AccessAges, RefreshAges
<1> QED
  BY <1>1 DEF TokenPair, AccessAges, RefreshAges

(* A session that ages keeps the types. *)
LEMMA SessionAgesType ==
  ASSUME TypeOK, NEW p \in TokenPair, SessionAges(p)
  PROVE  /\ life' \in [Sids -> {"unused", "alive", "expiring", "ended"}]
         /\ cause' \in [Sids -> SUBSET Causes]
<1>1. p.sid \in Sids
  BY PairTypes
<1> QED
  BY <1>1, EndsType DEF SessionAges, TypeOK

(* What time does keeps the types. *)
LEMMA TimeType ==
  ASSUME TypeOK, Time
  PROVE  TypeOK'
<1>1. ASSUME NEW c \in Conns, AccessAgesBy(c)
      PROVE  TypeOK'
  <2>1. sess[c].pair \in TokenPair /\ sess[c] \in Session
    BY <1>1 DEF AccessAgesBy, TypeOK, Session, EmptyPair
  <2>2. [sess[c].pair EXCEPT !.access = Older(@)] \in TokenPair
    BY <1>1, <2>1, AgedPairType DEF AccessAgesBy
  <2>3. [sess[c] EXCEPT !.pair = [sess[c].pair EXCEPT !.access = Older(@)]] \in Session
    BY <2>1, <2>2 DEF Session
  <2>4. sess' = [sess EXCEPT ![c] =
                   [sess[c] EXCEPT !.pair = [sess[c].pair EXCEPT !.access = Older(@)]]]
    BY <1>1 DEF AccessAgesBy
  <2> QED
    BY <1>1, <2>3, <2>4 DEF AccessAgesBy, TypeOK, keycloak
<1>2. ASSUME NEW c \in Conns, RefreshAgesBy(c)
      PROVE  TypeOK'
  <2>1. sess[c].pair \in TokenPair /\ sess[c] \in Session
    BY <1>2 DEF RefreshAgesBy, TypeOK, Session, EmptyPair
  <2>2. [sess[c].pair EXCEPT !.refresh = Older(@)] \in TokenPair
    BY <1>2, <2>1, AgedPairType DEF RefreshAgesBy
  <2>3. [sess[c] EXCEPT !.pair = [sess[c].pair EXCEPT !.refresh = Older(@)]] \in Session
    BY <2>1, <2>2 DEF Session
  <2>4. sess' = [sess EXCEPT ![c] =
                   [sess[c] EXCEPT !.pair = [sess[c].pair EXCEPT !.refresh = Older(@)]]]
    BY <1>2 DEF RefreshAgesBy
  <2> QED
    BY <1>2, <2>1, <2>3, <2>4, SessionAgesType DEF RefreshAgesBy, TypeOK
<1>3. ASSUME NEW l \in logouts, LogoutPairAges(l)
      PROVE  TypeOK'
  <2>1. l \in LogoutCall /\ l.pair \in TokenPair
    BY DEF TypeOK, LogoutCall
  <2>2. ASSUME NEW p \in TokenPair
        PROVE  [l EXCEPT !.pair = p] \in LogoutCall
    BY <2>1 DEF LogoutCall
  <2>3. CASE /\ l.pair.access \in {"current", "expiring"}
             /\ Replace(l, [l EXCEPT !.pair.access = Older(@)])
             /\ UNCHANGED <<life, cause>>
    <3>1. [l EXCEPT !.pair = [l.pair EXCEPT !.access = Older(@)]] \in LogoutCall
      BY <2>1, <2>2, <2>3, AgedPairType
    <3>2. [l EXCEPT !.pair.access = Older(@)] = [l EXCEPT !.pair = [l.pair EXCEPT !.access = Older(@)]]
      OBVIOUS
    <3> QED
      BY <1>3, <2>3, <3>1, <3>2 DEF LogoutPairAges, Replace, TypeOK
  <2>4. CASE /\ l.pair.refresh \in {"current", "expiring"}
             /\ Replace(l, [l EXCEPT !.pair.refresh = Older(@)])
             /\ SessionAges(l.pair)
    <3>1. [l EXCEPT !.pair = [l.pair EXCEPT !.refresh = Older(@)]] \in LogoutCall
      BY <2>1, <2>2, <2>4, AgedPairType
    <3>2. [l EXCEPT !.pair.refresh = Older(@)] = [l EXCEPT !.pair = [l.pair EXCEPT !.refresh = Older(@)]]
      OBVIOUS
    <3> QED
      BY <1>3, <2>1, <2>4, <3>1, <3>2, SessionAgesType DEF LogoutPairAges, Replace, TypeOK
  <2> QED
    BY <1>3, <2>3, <2>4 DEF LogoutPairAges
<1>4. ASSUME NEW s \in Sids, KcExpires(s) \/ KcRevoked(s)
      PROVE  TypeOK'
  BY <1>4, EndsType DEF KcExpires, KcRevoked, TypeOK
<1> QED
  BY <1>1, <1>2, <1>3, <1>4 DEF Time

(* Type correctness: the types of the gateway's sessions, of every          *)
(* connection's session and of every logout in progress (TypeOK).           *)
THEOREM TypeCorrect == Spec => []TypeOK
<1>1. Init => TypeOK
  <2> SUFFICES ASSUME Init PROVE TypeOK
    OBVIOUS
  <2>1. \A t \in Tenants : NewSession(t) \in Session
    BY DEF NewSession, Session
  <2> QED
    BY <2>1, NoCallType, OriginTypes DEF Init, TypeOK
<1>2. TypeOK /\ [Next]_vars => TypeOK'
  <2> SUFFICES ASSUME TypeOK, [Next]_vars PROVE TypeOK'
    OBVIOUS
  <2>1. CASE \E c \in Conns : Device(c)
    BY <2>1, DeviceType
  <2>2. CASE \E c \in Conns : Answered(c)
    BY <2>2, AnsweredType
  <2>3. CASE \E l \in logouts : LogoutStep(l)
    BY <2>3, LogoutStepType
  <2>4. CASE Time
    BY <2>4, TimeType
  <2>5. CASE UNCHANGED vars
    BY <2>5 DEF vars, TypeOK
  <2> QED
    BY <2>1, <2>2, <2>3, <2>4, <2>5 DEF Next
<1> QED
  BY <1>1, <1>2, PTL DEF Spec

---------------------------------------------------------------------------
(* Ownership. *)

(* A pair is empty exactly when it names no Keycloak session. *)
LEMMA PairSids ==
  \A p \in TokenPair \cup {EmptyPair} :
    /\ p = EmptyPair <=> p.sid = NoSid
    /\ p # EmptyPair <=> p \in TokenPair
    /\ p # EmptyPair => p.sid \in Sids
BY ConstantsAssumption DEF TokenPair, EmptyPair, AccessAges, RefreshAges

(* The gateway made s no livelier, and forgot nothing of what can have left *)
(* it behind unless it ended.                                               *)
Wanes(s) ==
  \/ life'[s] = "ended"
  \/ /\ life'[s] = life[s] \/ (life[s] = "alive" /\ life'[s] = "expiring")
     /\ cause[s] \subseteq cause'[s]

(* A gateway that is left alone has only waned. *)
LEMMA UnchangedWanes ==
  ASSUME UNCHANGED <<life, cause>>, NEW s \in Sids
  PROVE  Wanes(s)
BY DEF Wanes

(* Ending sessions makes none livelier. *)
LEMMA EndsWanes ==
  ASSUME TypeOK, NEW S, Ends(S), NEW s \in Sids
  PROVE  Wanes(s)
BY DEF Wanes, Ends, TypeOK

(* Recording a cause makes no session livelier. *)
LEMMA BlameWanes ==
  ASSUME TypeOK, UNCHANGED life, NEW r, NEW why, Blame(r, why), NEW s \in Sids
  PROVE  Wanes(s)
BY DEF Wanes, Blame, TypeOK

(* Time makes no session livelier. *)
LEMMA AgesWanes ==
  ASSUME TypeOK, NEW p \in TokenPair, SessionAges(p), NEW s \in Sids
  PROVE  Wanes(s)
<1>1. p.sid \in Sids
  BY PairSids
<1> QED
  BY <1>1, EndsWanes DEF SessionAges, Wanes, TypeOK, Live

(* AgeOK of a pair p of the current state, in the next state. *)
AgeNextOK(p) ==
  /\ p.stale => "replyLost" \in cause'[p.sid] \/ life'[p.sid] = "ended"
  /\ ~p.stale /\ p.refresh = "expiring" => life'[p.sid] # "alive"
  /\ ~p.stale /\ p.refresh = "expired" => life'[p.sid] = "ended"

(* What a pair's age says of its session stays true while the session wanes.*)
LEMMA AgeKept ==
  ASSUME NEW p, AgeOK(p), Wanes(p.sid)
  PROVE  AgeNextOK(p)
BY DEF AgeOK, AgeNextOK, Wanes

(* A connection that keeps its session keeps its pair, if it has one.       *)
LEMMA PairsEmptied ==
  ASSUME TypeOK, TypeOK', \A c \in Conns : sess'[c].pair.sid = sess[c].pair.sid
  PROVE  \A c \in Conns : sess'[c].pair = EmptyPair <=> sess[c].pair = EmptyPair
<1> TAKE c \in Conns
<1>1. sess[c] \in Session /\ sess'[c] \in Session
  BY DEF TypeOK
<1>2. sess[c].pair \in TokenPair \cup {EmptyPair} /\ sess'[c].pair \in TokenPair \cup {EmptyPair}
  BY <1>1 DEF Session
<1> QED
  BY <1>2, PairSids

(* The sessions of the connections stay where they are and no logout        *)
(* starts: ownership stays exclusive.                                       *)
LEMMA ExclusiveKept ==
  ASSUME TypeOK, TypeOK', Exclusive,
         \A c \in Conns : sess'[c].pair.sid = sess[c].pair.sid,
         logouts' \subseteq logouts
  PROVE  Exclusive'
<1>1. \A c \in Conns : sess'[c].pair = EmptyPair <=> sess[c].pair = EmptyPair
  BY PairsEmptied
<1> QED
  BY <1>1 DEF Exclusive

(* The same when a logout goes on with its pair. *)
LEMMA ExclusiveReplaced ==
  ASSUME TypeOK, TypeOK', Exclusive,
         \A c \in Conns : sess'[c].pair.sid = sess[c].pair.sid,
         NEW l \in logouts, NEW m, m.pair.sid = l.pair.sid, Replace(l, m)
  PROVE  Exclusive'
<1>1. \A c \in Conns : sess'[c].pair = EmptyPair <=> sess[c].pair = EmptyPair
  BY PairsEmptied
<1>2. \A k \in logouts' : k = m \/ (k \in logouts /\ k # l)
  BY DEF Replace
<1>3. \A c, d \in Conns :
        sess'[c].pair.sid = sess'[d].pair.sid /\ sess'[c].pair # EmptyPair => c = d
  BY <1>1 DEF Exclusive
<1>4. \A k, n \in logouts' : k.pair.sid = n.pair.sid => k = n
  BY <1>2 DEF Exclusive
<1>5. \A c \in Conns, k \in logouts' : sess'[c].pair.sid # k.pair.sid
  BY <1>2 DEF Exclusive
<1> QED
  BY <1>3, <1>4, <1>5 DEF Exclusive

(* A connection lets go of its pair, for another one that nobody else owns  *)
(* or for none.  The old pair is logged out or dropped.                     *)
LEMMA ExclusiveLetGo ==
  ASSUME TypeOK, TypeOK', Exclusive, NEW c \in Conns,
         \A d \in Conns \ {c} : sess'[d].pair = sess[d].pair,
         sess'[c].pair.sid # NoSid => ~Owned(sess'[c].pair.sid),
         logouts' \subseteq logouts \cup LogoutOf(sess[c].pair)
  PROVE  Exclusive'
<1>0. /\ \A d \in Conns : sess[d].pair \in TokenPair \cup {EmptyPair}
      /\ \A d \in Conns : sess'[d].pair \in TokenPair \cup {EmptyPair}
      /\ \A l \in logouts : l.pair \in TokenPair
  BY DEF TypeOK, Session, LogoutCall
<1>1. \A l \in logouts' :
        l \in logouts \/ (l = Logout(sess[c].pair) /\ sess[c].pair # EmptyPair)
  BY DEF LogoutOf, IsEmpty, EmptyPair
<1>2. \A p : Logout(p).pair = p
  BY DEF Logout
<1>3. \A l \in logouts' : l \notin logouts =>
        l.pair.sid = sess[c].pair.sid /\ sess[c].pair # EmptyPair
  BY <1>1, <1>2
<1>4. \A d, e \in Conns :
        sess'[d].pair.sid = sess'[e].pair.sid /\ sess'[d].pair # EmptyPair => d = e
  <2> SUFFICES ASSUME NEW d \in Conns, NEW e \in Conns, d # e,
                      sess'[d].pair.sid = sess'[e].pair.sid, sess'[d].pair # EmptyPair
               PROVE  FALSE
    OBVIOUS
  <2>1. sess'[d].pair.sid # NoSid /\ sess'[e].pair # EmptyPair
    BY <1>0, PairSids
  <2> QED
    BY <2>1 DEF Exclusive, Owned, Held
<1>5. \A l, m \in logouts' : l.pair.sid = m.pair.sid => l = m
  BY <1>1, <1>3 DEF Exclusive
<1>6. \A d \in Conns, l \in logouts' : sess'[d].pair.sid # l.pair.sid
  <2> SUFFICES ASSUME NEW d \in Conns, NEW l \in logouts', sess'[d].pair.sid = l.pair.sid
               PROVE  FALSE
    OBVIOUS
  <2>1. l.pair.sid # NoSid
    BY <1>0, <1>3, PairSids
  <2>2. CASE d = c
    BY <2>1, <2>2, <1>3 DEF Owned, Held, LoggedOut
  <2>3. CASE d # c
    BY <2>1, <2>3, <1>3, <1>0, PairSids DEF Exclusive
  <2> QED
    BY <2>2, <2>3
<1> QED
  BY <1>4, <1>5, <1>6 DEF Exclusive

(* A step of the gateway and of the owners together: sessions of X are      *)
(* opened or prolonged, all others wane, and what loses its owner is dead   *)
(* or has a cause on record.                                                *)
LEMMA OwnershipStep ==
  ASSUME TypeOK, OwnershipInv, Exclusive', NEW X \in SUBSET Sids,
         \A s \in X : life'[s] = "alive" /\ (Owned(s)' \/ cause'[s] # {}),
         \A s \in Sids \ X : Wanes(s) /\ (Owned(s)' => Owned(s)),
         \A s \in Sids \ X :
           Owned(s) /\ ~Owned(s)' => life'[s] # "alive" \/ cause'[s] # {},
         \A c \in Conns : sess'[c].pair # EmptyPair => AgeNextOK(sess'[c].pair),
         \A l \in logouts' : AgeNextOK(l.pair)
  PROVE  OwnershipInv'
<1>1. NoForgottenSession'
  <2> SUFFICES ASSUME NEW s \in Sids, life'[s] = "alive", s \notin X
               PROVE  Owned(s)' \/ cause'[s] # {}
    BY DEF NoForgottenSession
  <2>1. life[s] = "alive" /\ cause[s] \subseteq cause'[s]
    BY DEF Wanes
  <2> QED
    BY <2>1 DEF OwnershipInv, NoForgottenSession
<1>2. \A s \in Sids : life'[s] = "unused" => ~Owned(s)'
  BY DEF OwnershipInv, Wanes
<1>3. \A c \in Conns : (sess[c].pair # EmptyPair => AgeOK(sess[c].pair))'
  BY DEF AgeOK, AgeNextOK
<1>4. \A l \in logouts' : AgeOK(l.pair)'
  BY DEF AgeOK, AgeNextOK
<1> QED
  BY <1>1, <1>2, <1>3, <1>4 DEF OwnershipInv

(* The same when every session wanes. *)
LEMMA OwnershipWanes ==
  ASSUME TypeOK, OwnershipInv, Exclusive',
         \A s \in Sids : Wanes(s) /\ (Owned(s)' => Owned(s)),
         \A s \in Sids : Owned(s) /\ ~Owned(s)' => life'[s] # "alive" \/ cause'[s] # {},
         \A c \in Conns : sess'[c].pair # EmptyPair => AgeNextOK(sess'[c].pair),
         \A l \in logouts' : AgeNextOK(l.pair)
  PROVE  OwnershipInv'
<1> DEFINE X == {s \in Sids : FALSE}
<1>1. X \in SUBSET Sids /\ \A s \in X : FALSE
  OBVIOUS
<1> HIDE DEF X
<1> QED
  BY <1>1, OwnershipStep

(* The same when one session, which keeps its owner, is prolonged. *)
LEMMA OwnershipProlongs ==
  ASSUME TypeOK, OwnershipInv, Exclusive', NEW r \in Sids,
         life'[r] = "alive" /\ Owned(r)',
         \A s \in Sids \ {r} : Wanes(s),
         \A s \in Sids : Owned(s)' <=> Owned(s),
         \A c \in Conns : sess'[c].pair # EmptyPair => AgeNextOK(sess'[c].pair),
         \A l \in logouts' : AgeNextOK(l.pair)
  PROVE  OwnershipInv'
<1> DEFINE X == {r}
<1>1. X \in SUBSET Sids /\ \A s \in X : s = r
  OBVIOUS
<1>2. \A s \in Sids \ X : Wanes(s)
  OBVIOUS
<1> HIDE DEF X
<1> QED
  BY <1>1, <1>2, OwnershipStep

(* Every owner keeps its pair: sessions wane, or are opened for nobody.     *)
LEMMA OwnersStay ==
  ASSUME TypeOK, TypeOK', OwnershipInv, NEW X \in SUBSET Sids,
         \A c \in Conns : sess'[c].pair = sess[c].pair,
         logouts' = logouts,
         \A s \in X : life[s] = "unused" /\ life'[s] = "alive" /\ cause'[s] # {},
         \A s \in Sids \ X : Wanes(s)
  PROVE  OwnershipInv'
<1>1. Exclusive'
  BY ExclusiveKept DEF OwnershipInv
<1>2. \A s \in Sids : Owned(s)' <=> Owned(s)
  BY DEF Owned, Held, LoggedOut
<1>3. \A c \in Conns : sess[c].pair # EmptyPair => sess[c].pair.sid \in Sids \ X
  BY PairSids DEF OwnershipInv, Owned, Held, TypeOK, Session
<1>4. \A l \in logouts : l.pair.sid \in Sids \ X
  BY PairSids DEF OwnershipInv, Owned, LoggedOut, TypeOK, LogoutCall
<1>5. \A c \in Conns : sess'[c].pair # EmptyPair => AgeNextOK(sess'[c].pair)
  <2> SUFFICES ASSUME NEW c \in Conns, sess[c].pair # EmptyPair
               PROVE  AgeNextOK(sess[c].pair)
    OBVIOUS
  <2>1. AgeOK(sess[c].pair) /\ Wanes(sess[c].pair.sid)
    BY <1>3 DEF OwnershipInv
  <2> QED
    BY <2>1, AgeKept
<1>6. \A l \in logouts' : AgeNextOK(l.pair)
  BY <1>4, AgeKept DEF OwnershipInv
<1> QED
  BY <1>1, <1>2, <1>5, <1>6, OwnershipStep

(* Connection c exchanges its pair for one of X, or for none.  The old pair *)
(* is logged out, or its session is no longer alive, or a cause is recorded.*)
LEMMA OwnerLetsGo ==
  ASSUME TypeOK, TypeOK', OwnershipInv, NEW X \in SUBSET Sids, NEW c \in Conns,
         \A d \in Conns \ {c} : sess'[d].pair = sess[d].pair,
         logouts' \in {logouts, logouts \cup LogoutOf(sess[c].pair)},
         \/ logouts' = logouts \cup LogoutOf(sess[c].pair)
         \/ life'[sess[c].pair.sid] # "alive"
         \/ cause'[sess[c].pair.sid] # {},
         \/ sess'[c].pair = EmptyPair /\ \A s \in X : cause'[s] # {}
         \/ /\ X = {sess'[c].pair.sid}
            /\ ~sess'[c].pair.stale
            /\ sess'[c].pair.refresh \in {"current", "unknown"},
         \A s \in X : life[s] = "unused" /\ life'[s] = "alive",
         \A s \in Sids \ X : Wanes(s)
  PROVE  OwnershipInv'
<1>0. /\ \A d \in Conns : sess[d].pair \in TokenPair \cup {EmptyPair}
      /\ \A d \in Conns : sess'[d].pair \in TokenPair \cup {EmptyPair}
      /\ \A l \in logouts : l.pair \in TokenPair
  BY DEF TypeOK, Session, LogoutCall
<1>1. Exclusive'
  <2>1. sess'[c].pair.sid # NoSid => ~Owned(sess'[c].pair.sid)
    BY <1>0, PairSids DEF OwnershipInv
  <2> QED
    BY <2>1, ExclusiveLetGo DEF OwnershipInv
<1>2. \A l \in logouts' :
        l \in logouts \/ (l = Logout(sess[c].pair) /\ sess[c].pair # EmptyPair)
  BY DEF LogoutOf, IsEmpty, EmptyPair
<1>3. sess[c].pair # EmptyPair => LogoutOf(sess[c].pair) = {Logout(sess[c].pair)}
  BY <1>0, PairTypes, PairSids DEF LogoutOf, IsEmpty
<1>4. \A p : Logout(p).pair = p
  BY DEF Logout
<1>5. \A s \in X : Owned(s)' \/ cause'[s] # {}
  BY DEF Owned, Held
<1>6. ASSUME NEW s \in Sids \ X
      PROVE  Owned(s)' => Owned(s)
  <2>1. ASSUME NEW d \in Conns, sess'[d].pair.sid = s
        PROVE  Owned(s)
    <3>1. d # c
      BY <2>1, <1>0, <1>6, ConstantsAssumption DEF EmptyPair
    <3> QED
      BY <2>1, <3>1 DEF Owned, Held
  <2>2. ASSUME NEW l \in logouts', l.pair.sid = s
        PROVE  Owned(s)
    BY <1>2, <1>4, <2>2 DEF Owned, Held, LoggedOut
  <2> QED
    BY <2>1, <2>2 DEF Owned, Held, LoggedOut
<1>7. ASSUME NEW s \in Sids \ X, Owned(s), ~Owned(s)'
      PROVE  life'[s] # "alive" \/ cause'[s] # {}
  <2>1. ~LoggedOut(s)
    BY <1>7 DEF Owned, LoggedOut
  <2>2. sess[c].pair.sid = s
    BY <1>7, <2>1 DEF Owned, Held
  <2>3. sess[c].pair # EmptyPair
    BY <1>0, <2>2, PairSids, ConstantsAssumption
  <2>4. Logout(sess[c].pair) \notin logouts'
    BY <1>4, <1>7, <2>2 DEF Owned, LoggedOut
  <2> QED
    BY <1>3, <2>2, <2>3, <2>4
<1>8. \A d \in Conns : sess[d].pair # EmptyPair => AgeNextOK(sess[d].pair)
  <2> SUFFICES ASSUME NEW d \in Conns, sess[d].pair # EmptyPair
               PROVE  AgeNextOK(sess[d].pair)
    OBVIOUS
  <2>1. AgeOK(sess[d].pair) /\ Wanes(sess[d].pair.sid)
    BY <1>0, PairSids DEF OwnershipInv, Owned, Held
  <2> QED
    BY <2>1, AgeKept
<1>9. \A d \in Conns : sess'[d].pair # EmptyPair => AgeNextOK(sess'[d].pair)
  <2>1. ASSUME NEW d \in Conns, d # c, sess'[d].pair # EmptyPair
        PROVE  AgeNextOK(sess'[d].pair)
    <3>1. sess'[d].pair = sess[d].pair
      BY <2>1
    <3> QED
      BY <1>8, <2>1, <3>1
  <2>2. sess'[c].pair # EmptyPair => AgeNextOK(sess'[c].pair)
    BY DEF AgeNextOK
  <2> QED
    BY <2>1, <2>2
<1>10. \A l \in logouts' : AgeNextOK(l.pair)
  <2>1. ASSUME NEW l \in logouts
        PROVE  AgeNextOK(l.pair)
    <3>1. AgeOK(l.pair) /\ Wanes(l.pair.sid)
      BY <1>0, PairSids DEF OwnershipInv, Owned, LoggedOut
    <3> QED
      BY <3>1, AgeKept
  <2> QED
    BY <1>2, <1>4, <1>8, <2>1
<1> QED
  BY <1>1, <1>5, <1>6, <1>7, <1>9, <1>10, OwnershipStep

(* Connection c keeps its session and the other owners keep theirs; the     *)
(* session of c may have been prolonged, or waned with c's own pair.        *)
LEMMA OwnerRenews ==
  ASSUME TypeOK, TypeOK', OwnershipInv, NEW c \in Conns, sess[c].pair # EmptyPair,
         \A d \in Conns \ {c} : sess'[d].pair = sess[d].pair,
         sess'[c].pair.sid = sess[c].pair.sid,
         logouts' = logouts,
         life'[sess[c].pair.sid] = "alive" \/ Wanes(sess[c].pair.sid),
         \A s \in Sids \ {sess[c].pair.sid} : Wanes(s),
         AgeNextOK(sess'[c].pair)
  PROVE  OwnershipInv'
<1>0. /\ \A d \in Conns : sess[d].pair \in TokenPair \cup {EmptyPair}
      /\ \A l \in logouts : l.pair \in TokenPair
      /\ sess[c].pair.sid \in Sids
  BY PairSids DEF TypeOK, Session, LogoutCall
<1>1. Exclusive'
  BY ExclusiveKept DEF OwnershipInv
<1>2. \A s \in Sids : Owned(s)' <=> Owned(s)
  BY DEF Owned, Held, LoggedOut
<1>3. Owned(sess[c].pair.sid)
  BY DEF Owned, Held
<1>4. \A d \in Conns : sess'[d].pair # EmptyPair => AgeNextOK(sess'[d].pair)
  <2> SUFFICES ASSUME NEW d \in Conns, d # c, sess[d].pair # EmptyPair
               PROVE  AgeNextOK(sess[d].pair)
    OBVIOUS
  <2>1. sess[d].pair.sid \in Sids \ {sess[c].pair.sid}
    BY <1>0, PairSids DEF OwnershipInv, Exclusive
  <2>2. AgeOK(sess[d].pair) /\ Wanes(sess[d].pair.sid)
    BY <2>1 DEF OwnershipInv
  <2> QED
    BY <2>2, AgeKept
<1>5. \A l \in logouts' : AgeNextOK(l.pair)
  <2> SUFFICES ASSUME NEW l \in logouts
               PROVE  AgeNextOK(l.pair)
    OBVIOUS
  <2>1. l.pair.sid \in Sids \ {sess[c].pair.sid}
    BY <1>0, PairSids DEF OwnershipInv, Exclusive
  <2>2. AgeOK(l.pair) /\ Wanes(l.pair.sid)
    BY <2>1 DEF OwnershipInv
  <2> QED
    BY <2>2, AgeKept
<1>6. CASE Wanes(sess[c].pair.sid)
  <2>1. \A s \in Sids : Wanes(s)
    BY <1>6
  <2> QED
    BY <1>1, <1>2, <1>4, <1>5, <2>1, OwnershipWanes
<1>7. CASE life'[sess[c].pair.sid] = "alive"
  BY <1>0, <1>1, <1>2, <1>3, <1>4, <1>5, <1>7, OwnershipProlongs
<1> QED
  BY <1>6, <1>7

(* Logout l goes on with its pair as m. *)
LEMMA LogoutGoesOn ==
  ASSUME TypeOK, TypeOK', OwnershipInv, NEW l \in logouts, NEW m, Replace(l, m),
         \A d \in Conns : sess'[d].pair = sess[d].pair,
         m.pair.sid = l.pair.sid,
         life'[l.pair.sid] = "alive" \/ Wanes(l.pair.sid),
         \A s \in Sids \ {l.pair.sid} : Wanes(s),
         AgeNextOK(m.pair)
  PROVE  OwnershipInv'
<1>0. /\ \A d \in Conns : sess[d].pair \in TokenPair \cup {EmptyPair}
      /\ \A k \in logouts : k.pair \in TokenPair /\ k.pair.sid \in Sids
      /\ l.pair.sid \in Sids
  BY PairSids DEF TypeOK, Session, LogoutCall
<1>1. Exclusive'
  BY ExclusiveReplaced DEF OwnershipInv
<1>2. \A s \in Sids : Owned(s)' <=> Owned(s)
  BY DEF Owned, Held, LoggedOut, Replace
<1>3. Owned(l.pair.sid)
  BY DEF Owned, LoggedOut
<1>4. \A d \in Conns : sess'[d].pair # EmptyPair => AgeNextOK(sess'[d].pair)
  <2> SUFFICES ASSUME NEW d \in Conns, sess[d].pair # EmptyPair
               PROVE  AgeNextOK(sess[d].pair)
    OBVIOUS
  <2>1. sess[d].pair.sid \in Sids \ {l.pair.sid}
    BY <1>0, PairSids DEF OwnershipInv, Exclusive
  <2>2. AgeOK(sess[d].pair) /\ Wanes(sess[d].pair.sid)
    BY <2>1 DEF OwnershipInv
  <2> QED
    BY <2>2, AgeKept
<1>5. \A k \in logouts' : AgeNextOK(k.pair)
  <2> SUFFICES ASSUME NEW k \in logouts, k # l
               PROVE  AgeNextOK(k.pair)
    BY DEF Replace
  <2>1. k.pair.sid \in Sids \ {l.pair.sid}
    BY <1>0 DEF OwnershipInv, Exclusive
  <2>2. AgeOK(k.pair) /\ Wanes(k.pair.sid)
    BY <2>1 DEF OwnershipInv
  <2> QED
    BY <2>2, AgeKept
<1>6. CASE Wanes(l.pair.sid)
  <2>1. \A s \in Sids : Wanes(s)
    BY <1>6
  <2> QED
    BY <1>1, <1>2, <1>4, <1>5, <2>1, OwnershipWanes
<1>7. CASE life'[l.pair.sid] = "alive"
  BY <1>0, <1>1, <1>2, <1>3, <1>4, <1>5, <1>7, OwnershipProlongs
<1> QED
  BY <1>6, <1>7

(* Logout l is over: its session is not alive, or a cause is recorded. *)
LEMMA LogoutOver ==
  ASSUME TypeOK, TypeOK', OwnershipInv, NEW l \in logouts, Done(l),
         \A d \in Conns : sess'[d].pair = sess[d].pair,
         life'[l.pair.sid] # "alive" \/ cause'[l.pair.sid] # {},
         \A s \in Sids : Wanes(s)
  PROVE  OwnershipInv'
<1>0. /\ \A d \in Conns : sess[d].pair \in TokenPair \cup {EmptyPair}
      /\ \A k \in logouts : k.pair \in TokenPair /\ k.pair.sid \in Sids
  BY PairSids DEF TypeOK, Session, LogoutCall
<1>1. Exclusive'
  BY ExclusiveKept DEF OwnershipInv, Done
<1>2. \A s \in Sids : Owned(s)' => Owned(s)
  BY DEF Owned, Held, LoggedOut, Done
<1>3. \A s \in Sids : Owned(s) /\ ~Owned(s)' => s = l.pair.sid
  BY DEF Owned, Held, LoggedOut, Done
<1>4. \A d \in Conns : sess'[d].pair # EmptyPair => AgeNextOK(sess'[d].pair)
  <2> SUFFICES ASSUME NEW d \in Conns, sess[d].pair # EmptyPair
               PROVE  AgeNextOK(sess[d].pair)
    OBVIOUS
  <2>1. AgeOK(sess[d].pair) /\ Wanes(sess[d].pair.sid)
    BY <1>0, PairSids DEF OwnershipInv
  <2> QED
    BY <2>1, AgeKept
<1>5. \A k \in logouts' : AgeNextOK(k.pair)
  <2> SUFFICES ASSUME NEW k \in logouts
               PROVE  AgeNextOK(k.pair)
    BY DEF Done
  <2>1. AgeOK(k.pair) /\ Wanes(k.pair.sid)
    BY <1>0 DEF OwnershipInv
  <2> QED
    BY <2>1, AgeKept
<1> QED
  BY <1>1, <1>2, <1>3, <1>4, <1>5, OwnershipWanes

(* What the device does keeps the ownership part of the invariant. *)
LEMMA DeviceOwnership ==
  ASSUME TypeOK, TypeOK', OwnershipInv, RenewalInv, NEW c \in Conns, Device(c)
  PROVE  OwnershipInv'
<1> DEFINE None == {s \in Sids : FALSE}
<1>1. None \in SUBSET Sids /\ \A s \in None : FALSE
  OBVIOUS
<1>2. ASSUME UNCHANGED <<life, cause>>
      PROVE  \A s \in Sids : Wanes(s)
  BY <1>2, UnchangedWanes
<1> HIDE DEF None
<1>3. ASSUME UNCHANGED <<life, cause, logouts>>,
             \A d \in Conns : sess'[d].pair = sess[d].pair
      PROVE  OwnershipInv'
  BY <1>1, <1>2, <1>3, OwnersStay
<1>4. CASE Accept(c)
  <2>1. sess[c].pair = EmptyPair
    BY <1>4 DEF Accept, RenewalInv, RenewalOK
  <2>2. \A d \in Conns : sess'[d].pair = sess[d].pair
    BY <1>4, <2>1 DEF Accept, NewSession, TypeOK
  <2> QED
    BY <1>3, <1>4, <2>2 DEF Accept, keycloak
<1>5. CASE Close(c)
  <2>1. sess'[c].pair = EmptyPair
    BY <1>5 DEF Close, TakeTokens, TypeOK, Session
  <2>2. \A d \in Conns \ {c} : sess'[d].pair = sess[d].pair
    BY <1>5 DEF Close, TypeOK
  <2>3. logouts' = logouts \cup LogoutOf(sess[c].pair) /\ UNCHANGED <<life, cause>>
    BY <1>5 DEF Close, keycloak
  <2> QED
    BY <1>1, <1>2, <2>1, <2>2, <2>3, OwnerLetsGo
<1>6. ASSUME NEW t \in Tenants, sess' = [sess EXCEPT ![c] = UpdateTenant(@, t)]
      PROVE  \A d \in Conns : sess'[d].pair = sess[d].pair
  BY <1>6 DEF UpdateTenant, TypeOK, Session
<1>7. ASSUME NEW t \in Tenants, LoginIncomplete(c, t)
      PROVE  OwnershipInv'
  BY <1>3, <1>6, <1>7 DEF LoginIncomplete, keycloak
<1>8. ASSUME NEW t \in Tenants, NEW cr \in Creds, LoginSkipped(c, t, cr)
      PROVE  OwnershipInv'
  BY <1>3, <1>6, <1>8 DEF LoginSkipped, keycloak
<1>9. ASSUME NEW t \in Tenants, NEW cr \in Creds, LoginSent(c, t, cr)
      PROVE  OwnershipInv'
  BY <1>3, <1>6, <1>9 DEF LoginSent, keycloak
<1>10. CASE RenewStart(c)
  BY <1>3, <1>10 DEF RenewStart, keycloak
<1> QED
  BY <1>4, <1>5, <1>7, <1>8, <1>9, <1>10 DEF Device

(* An opened session was unused, and no other one livens up. *)
LEMMA OpensWanes ==
  ASSUME TypeOK, NEW s \in Sids, NEW t, NEW cr, Opens(s, t, cr),
         \A r \in Sids : cause[r] \subseteq cause'[r]
  PROVE  /\ \A r \in {s} : life[r] = "unused" /\ life'[r] = "alive"
         /\ \A r \in Sids \ {s} : Wanes(r)
BY DEF Opens, Wanes, TypeOK

(* The pair of a successful login or refresh is what its session's age says. *)
LEMMA StoredPair ==
  ASSUME NEW z, NEW s, NEW e \in Expiries, z \in Session
  PROVE  /\ StoreTokens(z, s, e).pair.sid = s
         /\ ~StoreTokens(z, s, e).pair.stale
         /\ StoreTokens(z, s, e).pair.refresh \in {"current", "unknown"}
         /\ \A cr : SetAuthenticated(StoreTokens(z, s, e), cr).pair = StoreTokens(z, s, e).pair
BY ConstantsAssumption DEF StoreTokens, NewPair, Session, SetAuthenticated

(* A login error keeps the connection's pair, or hands it to a logout. *)
LEMMA LoginErrorPair ==
  ASSUME TypeOK, NEW c \in Conns, LoginError(c)
  PROVE  /\ \A d \in Conns \ {c} : sess'[d].pair = sess[d].pair
         /\ \/ /\ \A d \in Conns : sess'[d].pair = sess[d].pair
               /\ logouts' = logouts
            \/ /\ sess'[c].pair = EmptyPair
               /\ logouts' = logouts \cup LogoutOf(sess[c].pair)
<1>1. CASE HasTokensFromOtherTenant(sess[c])
  <2>1. sess' = [sess EXCEPT ![c] = Clear(@)] /\ logouts' = logouts \cup LogoutOf(sess[c].pair)
    BY <1>1 DEF LoginError
  <2>2. Clear(sess[c]).pair = EmptyPair
    BY DEF TypeOK, Session, Clear, TakeTokens
  <2> QED
    BY <2>1, <2>2 DEF TypeOK
<1>2. CASE ~HasTokensFromOtherTenant(sess[c])
  BY <1>2 DEF LoginError
<1> QED
  BY <1>1, <1>2

(* What a renewal knows when it drops a pair without a logout. *)
LEMMA DroppedIsExplained ==
  ASSUME TypeOK, OwnershipInv, RenewalInv, NEW c \in Conns, pc[c] = "relogin",
         ~LogsOutReplaced(c)
  PROVE  /\ sess[c].pair # EmptyPair
         /\ \/ life[sess[c].pair.sid] # "alive"
            \/ cause[sess[c].pair.sid] # {}
            \/ DropCauses(c) # {}
<1>1. sess[c].pair # EmptyPair /\ AgeOK(sess[c].pair) /\ sess[c].pair.sid \in Sids
  BY PairSids DEF RenewalInv, RenewalOK, OwnershipInv, TypeOK, Session
<1>2. CASE call[c].refreshErr = "none"
  <2>1. sess[c].pair.refresh \in {"expiring", "expired", "unknown"}
    BY <1>1, <1>2, PairSids
       DEF RenewalInv, RenewalOK, TypeOK, Session, TokenPair, RefreshAges, AccessAges
  <2>2. sess[c].pair.refresh = "unknown" => "unknownExpiry" \in DropCauses(c)
    BY DEF DropCauses
  <2> QED
    BY <1>1, <2>1, <2>2 DEF AgeOK
<1>3. CASE call[c].refreshErr = "rejected"
  <2>1. HasTokensFromOtherTenant(sess[c]) => "misrouted" \in DropCauses(c)
    BY DEF DropCauses
  <2> QED
    BY <1>1, <1>3, <2>1 DEF RenewalInv, RenewalOK, Live
<1> QED
  BY <1>1, <1>2, <1>3 DEF LogsOutReplaced, TypeOK, Call

(* Every answer of a FOLIO call keeps the ownership part. *)
LEMMA AnsweredOwnership ==
  ASSUME TypeOK, TypeOK', OwnershipInv, RenewalInv, NEW c \in Conns, Answered(c)
  PROVE  OwnershipInv'
<1> DEFINE None == {s \in Sids : FALSE}
<1>a. None \in SUBSET Sids /\ \A s \in None : FALSE
  OBVIOUS
<1>b. ASSUME UNCHANGED <<life, cause>>
      PROVE  \A s \in Sids : Wanes(s)
  BY <1>b, UnchangedWanes
<1> HIDE DEF None
<1>c. ASSUME UNCHANGED <<life, cause, logouts>>,
             \A d \in Conns : sess'[d].pair = sess[d].pair
      PROVE  OwnershipInv'
  BY <1>a, <1>b, <1>c, OwnersStay
<1>d. sess[c] \in Session /\ sess[c].pair \in TokenPair \cup {EmptyPair}
  BY DEF TypeOK, Session
<1>e. ASSUME NEW s \in Sids, Blame(s, "replyLost")
      PROVE  cause'[s] # {} /\ \A r \in Sids : cause[r] \subseteq cause'[r]
  BY <1>e DEF Blame, TypeOK
<1>1. ASSUME NEW s \in Sids, NEW e \in Expiries, LoginAccepted(c, s, e)
      PROVE  OwnershipInv'
  <2>1. Opens(s, sess[c].tenant, call[c].cred) /\ UNCHANGED cause
    BY <1>1 DEF LoginAccepted
  <2>2. /\ \A r \in {s} : life[r] = "unused" /\ life'[r] = "alive"
        /\ \A r \in Sids \ {s} : Wanes(r)
    BY <2>1, OpensWanes
  <2>3. sess'[c].pair = StoreTokens(sess[c], s, e).pair
    BY <1>1, <1>d, StoredPair DEF LoginAccepted, TypeOK
  <2>4. \A d \in Conns \ {c} : sess'[d].pair = sess[d].pair
    BY <1>1 DEF LoginAccepted, TypeOK
  <2>5. logouts' = logouts \cup LogoutOf(sess[c].pair)
    BY <1>1 DEF LoginAccepted
  <2>6. /\ {s} = {sess'[c].pair.sid}
        /\ ~sess'[c].pair.stale
        /\ sess'[c].pair.refresh \in {"current", "unknown"}
    BY <1>d, <2>3, StoredPair
  <2>7. {s} \in SUBSET Sids
    OBVIOUS
  <2> QED
    BY <2>2, <2>4, <2>5, <2>6, <2>7, OwnerLetsGo
<1>2. CASE LoginFailed(c)
  <2>1. UNCHANGED <<life, cause>> /\ LoginError(c)
    BY <1>2 DEF LoginFailed, keycloak
  <2>2. CASE \A d \in Conns : sess'[d].pair = sess[d].pair /\ logouts' = logouts
    BY <1>c, <2>1, <2>2
  <2>3. CASE sess'[c].pair = EmptyPair /\ logouts' = logouts \cup LogoutOf(sess[c].pair)
    BY <1>a, <1>b, <2>1, <2>3, LoginErrorPair, OwnerLetsGo
  <2> QED
    BY <2>1, <2>2, <2>3, LoginErrorPair
<1>3. ASSUME NEW s \in Sids, LoginReplyLost(c, s)
      PROVE  OwnershipInv'
  <2>1. Opens(s, sess[c].tenant, call[c].cred) /\ Blame(s, "replyLost") /\ LoginError(c)
    BY <1>3 DEF LoginReplyLost
  <2>2. /\ \A r \in {s} : life[r] = "unused" /\ life'[r] = "alive" /\ cause'[r] # {}
        /\ \A r \in Sids \ {s} : Wanes(r)
    BY <1>e, <2>1, OpensWanes
  <2>3. {s} \in SUBSET Sids
    OBVIOUS
  <2>4. CASE \A d \in Conns : sess'[d].pair = sess[d].pair /\ logouts' = logouts
    BY <2>2, <2>3, <2>4, OwnersStay
  <2>5. CASE sess'[c].pair = EmptyPair /\ logouts' = logouts \cup LogoutOf(sess[c].pair)
    BY <2>1, <2>2, <2>3, <2>5, LoginErrorPair, OwnerLetsGo
  <2> QED
    BY <2>1, <2>4, <2>5, LoginErrorPair
<1>4. ASSUME NEW e \in Expiries, RefreshAccepted(c, e)
      PROVE  OwnershipInv'
  <2>1. sess[c].pair # EmptyPair /\ sess[c].pair.sid \in Sids
    BY <1>4, <1>d, PairSids DEF RefreshAccepted, RenewalInv, RenewalOK
  <2>2. sess'[c].pair = StoreTokens(sess[c], sess[c].pair.sid, e).pair
    <3>1. sess' = [sess EXCEPT ![c] = StoreTokens(sess[c], sess[c].pair.sid, e)]
      BY <1>4 DEF RefreshAccepted
    <3> QED
      BY <3>1 DEF TypeOK
  <2>3. \A d \in Conns \ {c} : sess'[d].pair = sess[d].pair
    BY <1>4 DEF RefreshAccepted, TypeOK
  <2>4. life'[sess[c].pair.sid] = "alive" /\ \A s \in Sids \ {sess[c].pair.sid} : Wanes(s)
    BY <1>4, <2>1 DEF RefreshAccepted, Refreshes, Wanes, TypeOK
  <2>5. AgeNextOK(sess'[c].pair) /\ sess'[c].pair.sid = sess[c].pair.sid
    BY <1>d, <2>2, StoredPair DEF AgeNextOK
  <2>6. logouts' = logouts
    BY <1>4 DEF RefreshAccepted
  <2> QED
    BY <2>1, <2>3, <2>4, <2>5, <2>6, OwnerRenews
<1>5. CASE RefreshRejected(c)
  BY <1>c, <1>5 DEF RefreshRejected, keycloak
<1>6. CASE RefreshFailed(c)
  BY <1>c, <1>6 DEF RefreshFailed, keycloak
<1>7. CASE RefreshReplyLost(c)
  <2>1. sess[c].pair # EmptyPair /\ sess[c].pair.sid \in Sids
    BY <1>7, <1>d, PairSids DEF RefreshReplyLost, RenewalInv, RenewalOK
  <2>2. sess'[c].pair = [sess[c].pair EXCEPT !.stale = TRUE]
    <3>1. sess' = [sess EXCEPT ![c].pair = [sess[c].pair EXCEPT !.stale = TRUE]]
      BY <1>7 DEF RefreshReplyLost
    <3>2. sess[c] \in Session /\ DOMAIN sess = Conns
      BY DEF TypeOK
    <3> QED
      BY <3>1, <3>2 DEF Session
  <2>3. \A d \in Conns \ {c} : sess'[d].pair = sess[d].pair
    BY <1>7 DEF RefreshReplyLost, TypeOK
  <2>4. life'[sess[c].pair.sid] = "alive" /\ \A s \in Sids \ {sess[c].pair.sid} : Wanes(s)
    BY <1>7, <2>1 DEF RefreshReplyLost, Refreshes, Blame, Wanes, TypeOK
  <2>5. "replyLost" \in cause'[sess[c].pair.sid]
    BY <1>7, <2>1 DEF RefreshReplyLost, Blame, TypeOK
  <2>6. sess'[c].pair.stale /\ sess'[c].pair.sid = sess[c].pair.sid
    BY <1>d, <2>1, <2>2 DEF TokenPair
  <2>7. AgeNextOK(sess'[c].pair)
    BY <2>5, <2>6 DEF AgeNextOK
  <2>8. logouts' = logouts
    BY <1>7 DEF RefreshReplyLost
  <2> QED
    BY <2>1, <2>3, <2>4, <2>6, <2>7, <2>8, OwnerRenews
<1>8. ASSUME NEW s \in Sids, NEW e \in Expiries, ReloginAccepted(c, s, e)
      PROVE  OwnershipInv'
  <2>0. sess[c].pair # EmptyPair /\ sess[c].pair.sid \in Sids
    BY <1>8, <1>d, PairSids DEF ReloginAccepted, RenewalInv, RenewalOK
  <2>1. Opens(s, sess[c].tenant, sess[c].cred) /\ \A r \in Sids : cause[r] \subseteq cause'[r]
    BY <1>8, <2>0 DEF ReloginAccepted, TypeOK
  <2>2. /\ \A r \in {s} : life[r] = "unused" /\ life'[r] = "alive"
        /\ \A r \in Sids \ {s} : Wanes(r)
    BY <2>1, OpensWanes
  <2>3. sess'[c].pair = StoreTokens(sess[c], s, e).pair
    BY <1>8, <1>d DEF ReloginAccepted, TypeOK
  <2>4. \A d \in Conns \ {c} : sess'[d].pair = sess[d].pair
    BY <1>8 DEF ReloginAccepted, TypeOK
  <2>5. /\ {s} = {sess'[c].pair.sid}
        /\ ~sess'[c].pair.stale
        /\ sess'[c].pair.refresh \in {"current", "unknown"}
    BY <1>d, <2>3, StoredPair
  <2>6. {s} \in SUBSET Sids
    OBVIOUS
  <2>7. CASE LogsOutReplaced(c)
    <3>1. logouts' = logouts \cup LogoutOf(sess[c].pair)
      BY <1>8, <2>7 DEF ReloginAccepted
    <3> QED
      BY <2>2, <2>4, <2>5, <2>6, <3>1, OwnerLetsGo
  <2>8. CASE ~LogsOutReplaced(c)
    <3>1. logouts' = logouts
      BY <1>8, <2>8 DEF ReloginAccepted
    <3>2. cause'[sess[c].pair.sid] = cause[sess[c].pair.sid] \cup DropCauses(c)
      BY <1>8, <2>0, <2>8 DEF ReloginAccepted, TypeOK
    <3>3. sess[c].pair.sid # s
      BY <1>8, <2>0 DEF ReloginAccepted, Opens, OwnershipInv, Owned, Held
    <3>4. life'[sess[c].pair.sid] = life[sess[c].pair.sid]
      BY <2>0, <2>1, <3>3 DEF Opens, TypeOK
    <3>5. life'[sess[c].pair.sid] # "alive" \/ cause'[sess[c].pair.sid] # {}
      BY <1>8, <2>8, <3>2, <3>4, DroppedIsExplained DEF ReloginAccepted
    <3> QED
      BY <2>2, <2>4, <2>5, <2>6, <3>1, <3>5, OwnerLetsGo
  <2> QED
    BY <2>7, <2>8
<1>9. CASE ReloginFailed(c)
  BY <1>c, <1>9 DEF ReloginFailed, ReloginError, keycloak
<1>10. ASSUME NEW s \in Sids, ReloginReplyLost(c, s)
       PROVE  OwnershipInv'
  <2>1. Opens(s, sess[c].tenant, sess[c].cred) /\ Blame(s, "replyLost") /\ ReloginError(c)
    BY <1>10 DEF ReloginReplyLost
  <2>2. /\ \A r \in {s} : life[r] = "unused" /\ life'[r] = "alive" /\ cause'[r] # {}
        /\ \A r \in Sids \ {s} : Wanes(r)
    BY <1>e, <2>1, OpensWanes
  <2>3. {s} \in SUBSET Sids /\ UNCHANGED <<sess, logouts>>
    BY <2>1 DEF ReloginError
  <2> QED
    BY <2>2, <2>3, OwnersStay
<1> QED
  BY <1>1, <1>2, <1>3, <1>4, <1>5, <1>6, <1>7, <1>8, <1>9, <1>10 DEF Answered

(* Every step of a logout keeps the ownership part. *)
LEMMA LogoutStepOwnership ==
  ASSUME TypeOK, TypeOK', OwnershipInv, NEW l \in logouts, LogoutStep(l)
  PROVE  OwnershipInv'
<1>a. l.pair \in TokenPair /\ l.pair.sid \in Sids /\ AgeOK(l.pair)
  BY PairSids DEF TypeOK, LogoutCall, OwnershipInv
<1>b. ASSUME UNCHANGED <<life, cause>>
      PROVE  /\ \A s \in Sids : Wanes(s)
             /\ life'[l.pair.sid] = "alive" \/ Wanes(l.pair.sid)
             /\ \A s \in Sids \ {l.pair.sid} : Wanes(s)
  BY <1>a, <1>b, UnchangedWanes
<1>c. \A d \in Conns : sess'[d].pair = sess[d].pair
  BY DEF LogoutStep, LogoutSkipped, LogoutStart, LogoutRefreshed, LogoutRefreshRejected,
         LogoutRefreshFailed, LogoutAccepted, LogoutUnauthorized, LogoutFailed
<1>d. \A p \in TokenPair : \A k : Wanes(p.sid) /\ AgeOK(p) /\ k.pair = p => AgeNextOK(k.pair)
  BY AgeKept
<1>e. ASSUME Blame(l.pair.sid, "logoutFailed"), UNCHANGED life
      PROVE  cause'[l.pair.sid] # {} /\ \A s \in Sids : Wanes(s)
  BY <1>a, <1>e, BlameWanes DEF Blame, TypeOK
<1>f. ASSUME Ends(EndedBy(l.pair))
      PROVE  life'[l.pair.sid] # "alive" /\ \A s \in Sids : Wanes(s)
  BY <1>a, <1>f, EndsWanes, PairTypes DEF Ends, EndedBy
<1>1. CASE LogoutSkipped(l)
  <2>1. life'[l.pair.sid] # "alive" \/ cause'[l.pair.sid] # {}
    BY <1>1, <1>a DEF LogoutSkipped, SkipsLogout, AgeOK, keycloak
  <2> QED
    BY <1>1, <1>b, <1>c, <2>1, LogoutOver DEF LogoutSkipped, keycloak
<1>2. CASE LogoutStart(l)
  <2>1. PICK g : Replace(l, [l EXCEPT !.stage = g])
    BY <1>2 DEF LogoutStart
  <2>2. [l EXCEPT !.stage = g].pair = l.pair
    BY DEF TypeOK, LogoutCall
  <2>3. UNCHANGED <<life, cause>>
    BY <1>2 DEF LogoutStart, keycloak
  <2>4. AgeNextOK([l EXCEPT !.stage = g].pair)
    BY <1>a, <1>b, <2>2, <2>3, AgeKept
  <2> QED
    BY <1>b, <1>c, <2>1, <2>2, <2>3, <2>4, LogoutGoesOn
<1>3. ASSUME NEW e \in Expiries, LogoutRefreshed(l, e)
      PROVE  OwnershipInv'
  <2> DEFINE m == [pair |-> NewPair(l.pair.sid, l.pair.issuer, e), stage |-> "logout",
                   refreshedFirst |-> TRUE]
  <2>1. Replace(l, m)
    BY <1>3 DEF LogoutRefreshed
  <2>2. m.pair.sid = l.pair.sid
    BY DEF NewPair
  <2>3. life'[l.pair.sid] = "alive" /\ \A s \in Sids \ {l.pair.sid} : Wanes(s)
    BY <1>3, <1>a DEF LogoutRefreshed, Refreshes, Wanes, TypeOK
  <2>4. AgeNextOK(m.pair)
    BY ConstantsAssumption DEF AgeNextOK, NewPair
  <2> HIDE DEF m
  <2> QED
    BY <1>c, <2>1, <2>2, <2>3, <2>4, LogoutGoesOn
<1>4. CASE LogoutRefreshRejected(l)
  <2>1. life'[l.pair.sid] # "alive" \/ cause'[l.pair.sid] # {}
    BY <1>4, <1>a DEF LogoutRefreshRejected, CanReject, Live, AgeOK, keycloak
  <2> QED
    BY <1>4, <1>b, <1>c, <2>1, LogoutOver DEF LogoutRefreshRejected, keycloak
<1>5. CASE LogoutRefreshFailed(l)
  BY <1>5, <1>c, <1>e, LogoutOver DEF LogoutRefreshFailed
<1>6. CASE LogoutAccepted(l)
  BY <1>6, <1>c, <1>f, LogoutOver DEF LogoutAccepted
<1>7. CASE LogoutUnauthorized(l)
  <2>1. Replace(l, [l EXCEPT !.stage = "refresh"]) /\ UNCHANGED <<life, cause>>
    BY <1>7 DEF LogoutUnauthorized, keycloak
  <2>2. [l EXCEPT !.stage = "refresh"].pair = l.pair
    BY DEF TypeOK, LogoutCall
  <2>4. AgeNextOK([l EXCEPT !.stage = "refresh"].pair)
    BY <1>a, <1>b, <2>1, <2>2, AgeKept
  <2> QED
    BY <1>b, <1>c, <2>1, <2>2, <2>4, LogoutGoesOn
<1>8. CASE LogoutFailed(l)
  BY <1>8, <1>c, <1>e, <1>f, LogoutOver DEF LogoutFailed
<1> QED
  BY <1>1, <1>2, <1>3, <1>4, <1>5, <1>6, <1>7, <1>8 DEF LogoutStep

(* A pair whose refresh token ages knows what that did to its session. *)
LEMMA AgedPairOK ==
  ASSUME TypeOK, NEW p \in TokenPair, AgeOK(p), SessionAges(p), life[p.sid] # "unused",
         p.refresh \in {"current", "expiring"}
  PROVE  AgeNextOK([p EXCEPT !.refresh = Older(@)])
<1>1. /\ p.sid \in Sids
      /\ [p EXCEPT !.refresh = Older(@)].sid = p.sid
      /\ [p EXCEPT !.refresh = Older(@)].stale = p.stale
      /\ [p EXCEPT !.refresh = Older(@)].refresh = Older(p.refresh)
  BY DEF TokenPair
<1>2. Older("current") = "expiring" /\ Older("expiring") = "expired"
  BY DEF Older
<1>3. CASE p.stale
  <2>1. UNCHANGED <<life, cause>>
    BY <1>3 DEF SessionAges
  <2> QED
    BY <1>1, <1>3, <2>1 DEF AgeOK, AgeNextOK
<1>4. CASE ~p.stale /\ p.refresh = "current"
  <2>1. life'[p.sid] # "alive"
    BY <1>1, <1>4 DEF SessionAges, Live, TypeOK
  <2> QED
    BY <1>1, <1>2, <1>4, <2>1 DEF AgeNextOK
<1>5. CASE ~p.stale /\ p.refresh = "expiring"
  <2>1. life[p.sid] # "alive"
    BY <1>5 DEF AgeOK
  <2>2. life'[p.sid] = "ended"
    BY <1>1, <1>5, <2>1 DEF SessionAges, Live, TypeOK, Ends
  <2> QED
    BY <1>1, <1>2, <1>5, <2>2 DEF AgeNextOK
<1> QED
  BY <1>3, <1>4, <1>5

(* What time does keeps the ownership part. *)
LEMMA TimeOwnership ==
  ASSUME TypeOK, TypeOK', OwnershipInv, Time
  PROVE  OwnershipInv'
<1> DEFINE None == {s \in Sids : FALSE}
<1>a. None \in SUBSET Sids /\ \A s \in None : FALSE
  OBVIOUS
<1> HIDE DEF None
<1>1. ASSUME NEW c \in Conns, AccessAgesBy(c)
      PROVE  OwnershipInv'
  <2>1. sess[c].pair \in TokenPair /\ sess[c] \in Session /\ sess[c].pair # EmptyPair
    BY <1>1, PairTypes DEF AccessAgesBy, TypeOK, Session, EmptyPair
  <2>2. sess'[c].pair = [sess[c].pair EXCEPT !.access = Older(@)]
    BY <1>1, <2>1 DEF AccessAgesBy, TypeOK, Session
  <2>3. /\ sess'[c].pair.sid = sess[c].pair.sid
        /\ sess'[c].pair.stale = sess[c].pair.stale
        /\ sess'[c].pair.refresh = sess[c].pair.refresh
    BY <2>1, <2>2 DEF TokenPair
  <2>4. UNCHANGED <<life, cause, logouts>> /\ \A d \in Conns \ {c} : sess'[d].pair = sess[d].pair
    BY <1>1 DEF AccessAgesBy, keycloak, TypeOK
  <2>5. \A s \in Sids : Wanes(s)
    BY <2>4, UnchangedWanes
  <2>6. AgeNextOK(sess'[c].pair)
    BY <2>1, <2>3, <2>4 DEF OwnershipInv, AgeOK, AgeNextOK
  <2>7. sess[c].pair.sid \in Sids
    BY <2>1, PairTypes
  <2> QED
    BY <2>1, <2>3, <2>4, <2>5, <2>6, <2>7, OwnerRenews
<1>2. ASSUME NEW c \in Conns, RefreshAgesBy(c)
      PROVE  OwnershipInv'
  <2>1. sess[c].pair \in TokenPair /\ sess[c] \in Session /\ sess[c].pair # EmptyPair
    BY <1>2, PairTypes DEF RefreshAgesBy, TypeOK, Session, EmptyPair
  <2>2. sess'[c].pair = [sess[c].pair EXCEPT !.refresh = Older(@)]
    BY <1>2, <2>1 DEF RefreshAgesBy, TypeOK, Session
  <2>3. sess'[c].pair.sid = sess[c].pair.sid /\ sess[c].pair.sid \in Sids
    BY <2>1, <2>2, PairTypes DEF TokenPair
  <2>4. SessionAges(sess[c].pair) /\ logouts' = logouts
    BY <1>2 DEF RefreshAgesBy
  <2>5. \A d \in Conns \ {c} : sess'[d].pair = sess[d].pair
    BY <1>2 DEF RefreshAgesBy, TypeOK
  <2>6. \A s \in Sids : Wanes(s)
    BY <2>1, <2>4, AgesWanes
  <2>7. life[sess[c].pair.sid] # "unused" /\ AgeOK(sess[c].pair)
    BY <2>1, <2>3 DEF OwnershipInv, Owned, Held
  <2>8. AgeNextOK(sess'[c].pair)
    BY <1>2, <2>1, <2>2, <2>4, <2>7, AgedPairOK DEF RefreshAgesBy
  <2> QED
    BY <2>1, <2>3, <2>4, <2>5, <2>6, <2>8, OwnerRenews
<1>3. ASSUME NEW l \in logouts, LogoutPairAges(l)
      PROVE  OwnershipInv'
  <2>1. l \in LogoutCall /\ l.pair \in TokenPair /\ l.pair.sid \in Sids /\ AgeOK(l.pair)
    BY PairTypes DEF TypeOK, LogoutCall, OwnershipInv
  <2>2. life[l.pair.sid] # "unused"
    BY <2>1 DEF OwnershipInv, Owned, LoggedOut
  <2>3. sess' = sess
    BY <1>3 DEF LogoutPairAges
  <2>4. CASE /\ l.pair.access \in {"current", "expiring"}
             /\ Replace(l, [l EXCEPT !.pair.access = Older(@)])
             /\ UNCHANGED <<life, cause>>
    <3> DEFINE m == [l EXCEPT !.pair.access = Older(@)]
    <3>1. /\ m.pair.sid = l.pair.sid
          /\ m.pair.stale = l.pair.stale
          /\ m.pair.refresh = l.pair.refresh
      BY <2>1 DEF LogoutCall, TokenPair
    <3>2. Replace(l, m) /\ UNCHANGED <<life, cause>>
      BY <2>4
    <3> HIDE DEF m
    <3>3. \A s \in Sids : Wanes(s)
      BY <3>2, UnchangedWanes
    <3>4. AgeNextOK(m.pair)
      BY <2>1, <3>1, <3>2 DEF AgeOK, AgeNextOK
    <3> QED
      BY <2>1, <2>3, <3>1, <3>2, <3>3, <3>4, LogoutGoesOn
  <2>5. CASE /\ l.pair.refresh \in {"current", "expiring"}
             /\ Replace(l, [l EXCEPT !.pair.refresh = Older(@)])
             /\ SessionAges(l.pair)
    <3> DEFINE m == [l EXCEPT !.pair.refresh = Older(@)]
    <3>1. m.pair = [l.pair EXCEPT !.refresh = Older(@)] /\ m.pair.sid = l.pair.sid
      BY <2>1 DEF LogoutCall, TokenPair
    <3>2. Replace(l, m) /\ SessionAges(l.pair)
      BY <2>5
    <3>3. \A s \in Sids : Wanes(s)
      BY <2>1, <3>2, AgesWanes
    <3>4. AgeNextOK(m.pair)
      BY <2>1, <2>2, <2>5, <3>1, AgedPairOK
    <3> HIDE DEF m
    <3> QED
      BY <2>1, <2>3, <3>1, <3>2, <3>3, <3>4, LogoutGoesOn
  <2> QED
    BY <1>3, <2>4, <2>5 DEF LogoutPairAges
<1>4. ASSUME NEW s \in Sids, KcExpires(s) \/ KcRevoked(s)
      PROVE  OwnershipInv'
  <2>1. Ends({s}) /\ UNCHANGED <<sess, logouts>>
    BY <1>4 DEF KcExpires, KcRevoked
  <2>2. \A r \in Sids : Wanes(r)
    BY <2>1, EndsWanes
  <2> QED
    BY <1>a, <2>1, <2>2, OwnersStay
<1> QED
  BY <1>1, <1>2, <1>3, <1>4 DEF Time

---------------------------------------------------------------------------
(* Renewals. *)

(* A renewal that this step leaves alone still knows what it knew. *)
LEMMA RenewalKept ==
  ASSUME TypeOK, NEW d \in Conns, RenewalOK(d),
         pc'[d] = pc[d], call'[d].refreshErr = call[d].refreshErr,
         sess'[d].tenant = sess[d].tenant,
         sess'[d].pair = EmptyPair <=> sess[d].pair = EmptyPair,
         IsEmpty(sess'[d].pair) <=> IsEmpty(sess[d].pair),
         sess'[d].pair.sid = sess[d].pair.sid,
         sess'[d].pair.issuer = sess[d].pair.issuer,
         sess'[d].pair.refresh = "current" => sess[d].pair.refresh = "current",
         sess[d].pair # EmptyPair => Wanes(sess[d].pair.sid)
  PROVE  RenewalOK(d)'
BY DEF RenewalOK, Wanes, Live, HasTokensFromOtherTenant

(* What a FOLIO call of c can make livelier: the session of c, or a new one.*)
LEMMA AnsweredWanes ==
  ASSUME TypeOK, RenewalInv, NEW c \in Conns, Answered(c), NEW r \in Sids
  PROVE  r = sess[c].pair.sid \/ life[r] = "unused" \/ Wanes(r)
<1>1. ASSUME NEW s \in Sids, NEW t, NEW cr, Opens(s, t, cr),
             UNCHANGED cause \/ \E q \in Sids : \E W : cause' = [cause EXCEPT ![q] = @ \cup W]
      PROVE  life[r] = "unused" \/ Wanes(r)
  BY <1>1 DEF Opens, Wanes, TypeOK
<1>2. ASSUME NEW s \in Sids, LoginReplyLost(c, s) \/ ReloginReplyLost(c, s)
      PROVE  life[r] = "unused" \/ Wanes(r)
  <2>1. PICK t, cr : Opens(s, t, cr)
    BY <1>2 DEF LoginReplyLost, ReloginReplyLost
  <2>2. cause' = [cause EXCEPT ![s] = @ \cup {"replyLost"}]
    BY <1>2 DEF LoginReplyLost, ReloginReplyLost, Blame
  <2> QED
    BY <1>1, <2>1, <2>2
<1>3. ASSUME NEW s \in Sids, NEW e \in Expiries, LoginAccepted(c, s, e)
      PROVE  life[r] = "unused" \/ Wanes(r)
  BY <1>1, <1>3 DEF LoginAccepted
<1>4. ASSUME NEW s \in Sids, NEW e \in Expiries, ReloginAccepted(c, s, e)
      PROVE  life[r] = "unused" \/ Wanes(r)
  <2>1. sess[c].pair.sid \in Sids
    BY <1>4, PairSids DEF ReloginAccepted, RenewalInv, RenewalOK, TypeOK, Session
  <2> QED
    BY <1>1, <1>4, <2>1 DEF ReloginAccepted
<1>5. ASSUME UNCHANGED <<life, cause>>
      PROVE  Wanes(r)
  BY <1>5, UnchangedWanes
<1>6. ASSUME NEW e \in Expiries, RefreshAccepted(c, e)
      PROVE  r = sess[c].pair.sid \/ Wanes(r)
  BY <1>6 DEF RefreshAccepted, Refreshes, Wanes, TypeOK
<1>7. CASE RefreshReplyLost(c)
  BY <1>7 DEF RefreshReplyLost, Refreshes, Blame, Wanes, TypeOK
<1> QED
  BY <1>2, <1>3, <1>4, <1>5, <1>6, <1>7
     DEF Answered, LoginFailed, RefreshRejected, RefreshFailed, ReloginFailed, keycloak

(* A step of a logout makes no session livelier. *)
LEMMA LogoutStepWanes ==
  ASSUME TypeOK, NEW l \in logouts, LogoutStep(l), NEW r \in Sids
  PROVE  r = l.pair.sid \/ Wanes(r)
<1>1. ASSUME NEW e \in Expiries, LogoutRefreshed(l, e)
      PROVE  r = l.pair.sid \/ Wanes(r)
  BY <1>1 DEF LogoutRefreshed, Refreshes, Wanes, TypeOK
<1>2. ASSUME UNCHANGED <<life, cause>>
      PROVE  Wanes(r)
  BY <1>2, UnchangedWanes
<1>3. ASSUME UNCHANGED life, Blame(l.pair.sid, "logoutFailed")
      PROVE  Wanes(r)
  BY <1>3, BlameWanes
<1>4. ASSUME Ends(EndedBy(l.pair))
      PROVE  Wanes(r)
  BY <1>4, EndsWanes
<1> QED
  BY <1>1, <1>2, <1>3, <1>4
     DEF LogoutStep, LogoutSkipped, LogoutStart, LogoutRefreshRejected, LogoutRefreshFailed,
         LogoutAccepted, LogoutUnauthorized, LogoutFailed, keycloak

(* Time and Keycloak make no session livelier. *)
LEMMA TimeWanes ==
  ASSUME TypeOK, Time, NEW r \in Sids
  PROVE  Wanes(r)
<1>1. ASSUME NEW c \in Conns, AccessAgesBy(c)
      PROVE  Wanes(r)
  BY <1>1, UnchangedWanes DEF AccessAgesBy, keycloak
<1>2. ASSUME NEW c \in Conns, RefreshAgesBy(c)
      PROVE  Wanes(r)
  <2>1. sess[c].pair \in TokenPair
    BY <1>2 DEF RefreshAgesBy, TypeOK, Session, EmptyPair
  <2> QED
    BY <1>2, <2>1, AgesWanes DEF RefreshAgesBy
<1>3. ASSUME NEW l \in logouts, LogoutPairAges(l)
      PROVE  Wanes(r)
  <2>1. l.pair \in TokenPair
    BY DEF TypeOK, LogoutCall
  <2> QED
    BY <1>3, <2>1, AgesWanes, UnchangedWanes DEF LogoutPairAges
<1>4. ASSUME NEW s \in Sids, KcExpires(s) \/ KcRevoked(s)
      PROVE  Wanes(r)
  BY <1>4, EndsWanes DEF KcExpires, KcRevoked
<1> QED
  BY <1>1, <1>2, <1>3, <1>4 DEF Time

(* What the device does keeps what a renewal knows. *)
LEMMA DeviceRenewal ==
  ASSUME TypeOK, OwnershipInv, RenewalInv, NEW c \in Conns, Device(c)
  PROVE  RenewalInv'
<1>1. \A d \in Conns \ {c} : pc'[d] = pc[d] /\ call'[d] = call[d] /\ sess'[d] = sess[d]
  BY DEF Device, Accept, Close, LoginIncomplete, LoginSkipped, LoginSent, RenewStart, TypeOK
<1>2. UNCHANGED <<life, cause>>
  BY DEF Device, Accept, Close, LoginIncomplete, LoginSkipped, LoginSent, RenewStart, keycloak
<1>3. ASSUME NEW d \in Conns, d # c
      PROVE  RenewalOK(d)'
  <2>1. sess[d].pair # EmptyPair => Wanes(sess[d].pair.sid)
    BY <1>2 DEF Wanes
  <2> QED
    BY <1>1, <1>3, <2>1, RenewalKept DEF RenewalInv
<1>4. RenewalOK(c)'
  <2> USE DEF RenewalInv, RenewalOK
  <2>1. sess[c] \in Session /\ call[c] \in Call
    BY DEF TypeOK
  <2>2. CASE Accept(c)
    BY <2>2 DEF Accept, NewSession, TypeOK
  <2>3. CASE Close(c)
    BY <2>1, <2>3 DEF Close, TakeTokens, TypeOK, Session
  <2>4. ASSUME NEW t \in Tenants, LoginIncomplete(c, t)
        PROVE  RenewalOK(c)'
    BY <2>4 DEF LoginIncomplete, TypeOK
  <2>5. ASSUME NEW t \in Tenants, NEW cr \in Creds, LoginSkipped(c, t, cr)
        PROVE  RenewalOK(c)'
    BY <2>5 DEF LoginSkipped, TypeOK
  <2>6. ASSUME NEW t \in Tenants, NEW cr \in Creds, LoginSent(c, t, cr)
        PROVE  RenewalOK(c)'
    BY <2>6 DEF LoginSent, NoCall, TypeOK
  <2>7. CASE RenewStart(c)
    BY <2>7 DEF RenewStart, TypeOK, EmptyPair, HasValidRefreshToken
  <2> QED
    BY <2>2, <2>3, <2>4, <2>5, <2>6, <2>7 DEF Device
<1> QED
  BY <1>3, <1>4 DEF RenewalInv

(* Every answer of a FOLIO call keeps what a renewal knows. *)
LEMMA AnsweredRenewal ==
  ASSUME TypeOK, OwnershipInv, RenewalInv, NEW c \in Conns, Answered(c)
  PROVE  RenewalInv'
<1>1. \A d \in Conns \ {c} : pc'[d] = pc[d] /\ call'[d] = call[d] /\ sess'[d] = sess[d]
  BY DEF Answered, LoginAccepted, LoginFailed, LoginReplyLost, LoginError, RefreshAccepted,
         RefreshRejected, RefreshFailed, RefreshReplyLost, FallBack, ReloginAccepted,
         ReloginFailed, ReloginReplyLost, ReloginError, Return, TypeOK
<1>2. ASSUME NEW d \in Conns, d # c
      PROVE  RenewalOK(d)'
  <2>1. sess[d].pair # EmptyPair => Wanes(sess[d].pair.sid)
    <3> SUFFICES ASSUME sess[d].pair # EmptyPair PROVE Wanes(sess[d].pair.sid)
      OBVIOUS
    <3>1. sess[d].pair.sid \in Sids /\ sess[d].pair.sid # sess[c].pair.sid
      BY <1>2, PairSids DEF TypeOK, Session, OwnershipInv, Exclusive
    <3>2. life[sess[d].pair.sid] # "unused"
      BY <3>1 DEF OwnershipInv, Owned, Held
    <3> QED
      BY <3>1, <3>2, AnsweredWanes
  <2> QED
    BY <1>1, <1>2, <2>1, RenewalKept DEF RenewalInv
<1>3. RenewalOK(c)'
  <2>1. CASE Return(c)
    BY <2>1 DEF Return, NoCall, RenewalOK, TypeOK
  <2>2. sess[c] \in Session /\ call[c] \in Call /\ sess[c].pair \in TokenPair \cup {EmptyPair}
    BY DEF TypeOK, Session
  <2>3. ASSUME pc[c] = "refresh"
        PROVE  sess[c].pair # EmptyPair /\ AgeOK(sess[c].pair) /\ ~IsEmpty(sess[c].pair)
    BY <2>2, <2>3, PairSids, PairTypes DEF RenewalInv, RenewalOK, OwnershipInv, IsEmpty
  <2>4. CASE RefreshRejected(c)
    <3>1. /\ pc'[c] = "relogin" /\ call'[c].refreshErr = "rejected"
          /\ sess' = sess /\ UNCHANGED <<life, cause>>
      BY <2>2, <2>4 DEF RefreshRejected, FallBack, keycloak, TypeOK, Call
    <3>2. \/ ~Live(sess[c].pair.sid)
          \/ "replyLost" \in cause[sess[c].pair.sid]
          \/ HasTokensFromOtherTenant(sess[c])
      BY <2>3, <2>4 DEF RefreshRejected, CanReject, AgeOK, Live, HasTokensFromOtherTenant
    <3> QED
      BY <2>3, <2>4, <3>1, <3>2 DEF RefreshRejected, RenewalOK, Live, HasTokensFromOtherTenant
  <2>5. CASE RefreshFailed(c)
    <3>1. pc'[c] = "relogin" /\ call'[c].refreshErr = "transient" /\ sess' = sess
      BY <2>2, <2>5 DEF RefreshFailed, FallBack, TypeOK, Call
    <3> QED
      BY <2>3, <2>5, <3>1 DEF RefreshFailed, RenewalOK
  <2>6. CASE RefreshReplyLost(c)
    <3>1. pc'[c] = "relogin" /\ call'[c].refreshErr = "transient"
      BY <2>2, <2>6 DEF RefreshReplyLost, FallBack, TypeOK, Call
    <3>2. sess'[c].pair = [sess[c].pair EXCEPT !.stale = TRUE]
      BY <2>2, <2>6 DEF RefreshReplyLost, TypeOK, Session
    <3>3. sess'[c].pair.sid = sess[c].pair.sid /\ sess[c].pair.sid # NoSid
      BY <2>2, <2>3, <2>6, <3>2, PairSids DEF RefreshReplyLost, TokenPair
    <3> QED
      BY <3>1, <3>3 DEF RenewalOK, EmptyPair
  <2>7. ASSUME pc[c] = "relogin", ReloginError(c), pc' = pc,
               \A r \in Sids : life[r] = "unused" \/ Wanes(r)
        PROVE  RenewalOK(c)'
    <3>1. sess' = sess /\ call'[c].refreshErr = call[c].refreshErr
      BY <2>2, <2>7 DEF ReloginError, Return, TypeOK, Call
    <3>2. sess[c].pair # EmptyPair => Wanes(sess[c].pair.sid)
      BY <2>2, <2>7, PairSids DEF OwnershipInv, Owned, Held
    <3> QED
      BY <2>7, <3>1, <3>2, RenewalKept DEF RenewalInv
  <2>8. CASE ReloginFailed(c)
    <3>1. \A r \in Sids : Wanes(r)
      BY <2>8, UnchangedWanes DEF ReloginFailed, keycloak
    <3> QED
      BY <2>1, <2>7, <2>8, <3>1 DEF ReloginFailed, ReloginError
  <2>9. ASSUME NEW s \in Sids, ReloginReplyLost(c, s)
        PROVE  RenewalOK(c)'
    <3>1. \A r \in Sids : life[r] = "unused" \/ Wanes(r)
      BY <2>9 DEF ReloginReplyLost, Opens, Blame, Wanes, TypeOK
    <3> QED
      BY <2>1, <2>7, <2>9, <3>1 DEF ReloginReplyLost, ReloginError
  <2> QED
    BY <2>1, <2>4, <2>5, <2>6, <2>8, <2>9
       DEF Answered, LoginAccepted, LoginFailed, LoginReplyLost, LoginError, RefreshAccepted,
           ReloginAccepted
<1> QED
  BY <1>2, <1>3 DEF RenewalInv

(* A step of a logout keeps what a renewal knows. *)
LEMMA LogoutStepRenewal ==
  ASSUME TypeOK, OwnershipInv, RenewalInv, NEW l \in logouts, LogoutStep(l)
  PROVE  RenewalInv'
<1>1. UNCHANGED <<pc, call, sess>>
  BY DEF LogoutStep, LogoutSkipped, LogoutStart, LogoutRefreshed, LogoutRefreshRejected,
         LogoutRefreshFailed, LogoutAccepted, LogoutUnauthorized, LogoutFailed
<1>2. ASSUME NEW d \in Conns, sess[d].pair # EmptyPair
      PROVE  Wanes(sess[d].pair.sid)
  <2>1. sess[d].pair.sid \in Sids /\ sess[d].pair.sid # l.pair.sid
    BY <1>2, PairSids DEF TypeOK, Session, OwnershipInv, Exclusive
  <2> QED
    BY <2>1, LogoutStepWanes
<1> QED
  BY <1>1, <1>2, RenewalKept DEF RenewalInv

(* What time does keeps what a renewal knows. *)
LEMMA TimeRenewal ==
  ASSUME TypeOK, OwnershipInv, RenewalInv, Time
  PROVE  RenewalInv'
<1>1. UNCHANGED <<pc, call>>
  BY DEF Time, AccessAgesBy, RefreshAgesBy, LogoutPairAges, KcExpires, KcRevoked
<1>2. ASSUME NEW d \in Conns, sess[d].pair # EmptyPair
      PROVE  Wanes(sess[d].pair.sid)
  BY <1>2, PairSids, TimeWanes DEF TypeOK, Session
<1>3. ASSUME NEW d \in Conns, sess'[d] = sess[d]
      PROVE  RenewalOK(d)'
  BY <1>1, <1>2, <1>3, RenewalKept DEF RenewalInv
<1>4. ASSUME NEW c \in Conns, AccessAgesBy(c) \/ RefreshAgesBy(c), NEW d \in Conns
      PROVE  RenewalOK(d)'
  <2>1. CASE d # c
    BY <1>3, <1>4, <2>1 DEF AccessAgesBy, RefreshAgesBy, TypeOK
  <2>2. CASE d = c
    <3>1. sess[c].pair \in TokenPair /\ sess[c] \in Session /\ sess[c].pair # EmptyPair
      BY <1>4, PairTypes DEF AccessAgesBy, RefreshAgesBy, TypeOK, Session, EmptyPair
    <3>2. \/ sess'[c] = [sess[c] EXCEPT !.pair = [sess[c].pair EXCEPT !.access = Older(@)]]
          \/ /\ sess'[c] = [sess[c] EXCEPT !.pair = [sess[c].pair EXCEPT !.refresh = Older(@)]]
             /\ sess[c].pair.refresh \in {"current", "expiring"}
      BY <1>4 DEF AccessAgesBy, RefreshAgesBy, TypeOK
    <3>3. Older("current") = "expiring" /\ Older("expiring") = "expired"
      BY DEF Older
    <3>4. /\ sess'[c].tenant = sess[c].tenant
          /\ sess'[c].pair.sid = sess[c].pair.sid
          /\ sess'[c].pair.issuer = sess[c].pair.issuer
          /\ sess'[c].pair.refresh \in {sess[c].pair.refresh, "expiring", "expired"}
      BY <3>1, <3>2, <3>3 DEF Session, TokenPair
    <3>5. sess'[c].pair # EmptyPair /\ ~IsEmpty(sess'[c].pair) /\ ~IsEmpty(sess[c].pair)
      BY <3>1, <3>4, PairSids, PairTypes, ConstantsAssumption DEF IsEmpty, EmptyPair
    <3> QED
      BY <1>1, <1>2, <2>2, <3>1, <3>4, <3>5, RenewalKept DEF RenewalInv
  <2> QED
    BY <2>1, <2>2
<1> QED
  BY <1>3, <1>4 DEF Time, LogoutPairAges, KcExpires, KcRevoked, RenewalInv

---------------------------------------------------------------------------
(* Origins, credentials and what the devices were told. *)

(* The part of OriginInv that is about connection c. *)
OriginOK(c) ==
  /\ sess[c].pair # EmptyPair =>
       /\ origin[sess[c].pair.sid] = [tenant |-> sess[c].pair.issuer, cred |-> sess[c].cred]
       /\ sess[c].isAuthenticated
       /\ sess[c].cred # NoCred
  /\ loginOk[c] # NoOrigin =>
       /\ sess[c].tenant = loginOk[c].tenant
       /\ sess[c].pair # EmptyPair
       /\ origin[sess[c].pair.sid] = loginOk[c]
  /\ pc[c] = "login" => call[c].cred # NoCred

(* The part of the invariant about origins, split as the proofs need it. *)
LEMMA OriginParts ==
  OriginInv <=>
    /\ \A c \in Conns : OriginOK(c)
    /\ \A l \in logouts : l.pair.issuer = origin[l.pair.sid].tenant
BY DEF OriginInv, OriginOK, PairKnowsItsOrigin, RenewalHasCredentials, LoginOkHolds

(* The origin of a session that has an owner never changes. *)
LEMMA OriginStays ==
  ASSUME TypeOK, OwnershipInv,
         origin' = origin \/ \E s \in Sids : \E t, cr : Opens(s, t, cr)
  PROVE  /\ \A d \in Conns : sess[d].pair # EmptyPair =>
              origin'[sess[d].pair.sid] = origin[sess[d].pair.sid]
         /\ \A l \in logouts : origin'[l.pair.sid] = origin[l.pair.sid]
<1>1. \A s \in Sids : Owned(s) => origin'[s] = origin[s]
  BY DEF Opens, OwnershipInv, TypeOK
<1>2. \A d \in Conns : sess[d].pair # EmptyPair =>
        sess[d].pair.sid \in Sids /\ Owned(sess[d].pair.sid)
  BY PairSids DEF TypeOK, Session, Owned, Held
<1>3. \A l \in logouts : l.pair.sid \in Sids /\ Owned(l.pair.sid)
  BY PairTypes DEF TypeOK, LogoutCall, Owned, LoggedOut
<1> QED
  BY <1>1, <1>2, <1>3

(* Connection c does something; the logouts it may start are of its pair.   *)
LEMMA OriginOf ==
  ASSUME TypeOK, OwnershipInv, OriginInv, NEW c \in Conns,
         origin' = origin \/ \E s \in Sids : \E t, cr : Opens(s, t, cr),
         \A d \in Conns \ {c} : pc'[d] = pc[d] /\ call'[d] = call[d] /\ sess'[d] = sess[d]
                                  /\ loginOk'[d] = loginOk[d],
         logouts' \subseteq logouts \cup LogoutOf(sess[c].pair),
         OriginOK(c)'
  PROVE  OriginInv'
<1>1. ASSUME NEW d \in Conns, d # c
      PROVE  OriginOK(d)'
  BY <1>1, OriginStays, OriginParts DEF OriginOK
<1>2. ASSUME NEW l \in logouts'
      PROVE  l.pair.issuer = origin'[l.pair.sid].tenant
  <2>1. CASE l \in logouts
    BY <2>1, OriginStays, OriginParts
  <2>2. CASE l \notin logouts
    <3>1. l = Logout(sess[c].pair) /\ sess[c].pair # EmptyPair
      BY <1>2, <2>2 DEF LogoutOf, IsEmpty, EmptyPair
    <3>2. l.pair = sess[c].pair
      BY <3>1 DEF Logout
    <3>3. OriginOK(c)
      BY OriginParts
    <3>4. origin[sess[c].pair.sid].tenant = sess[c].pair.issuer
      BY <3>1, <3>3 DEF OriginOK
    <3> QED
      BY <3>1, <3>2, <3>4, OriginStays
  <2> QED
    BY <2>1, <2>2
<1> QED
  BY <1>1, <1>2 DEF OriginInv, OriginOK, PairKnowsItsOrigin, RenewalHasCredentials, LoginOkHolds

(* What the device does keeps the origins. *)
LEMMA DeviceOrigin ==
  ASSUME TypeOK, OwnershipInv, OriginInv, NEW c \in Conns, Device(c)
  PROVE  OriginInv'
<1>1. \A d \in Conns \ {c} : pc'[d] = pc[d] /\ call'[d] = call[d] /\ sess'[d] = sess[d]
                               /\ loginOk'[d] = loginOk[d]
  BY DEF Device, Accept, Close, LoginIncomplete, LoginSkipped, LoginSent, RenewStart, TypeOK
<1>2. origin' = origin /\ logouts' \subseteq logouts \cup LogoutOf(sess[c].pair)
  BY DEF Device, Accept, Close, LoginIncomplete, LoginSkipped, LoginSent, RenewStart, keycloak
<1>3. OriginOK(c)'
  <2>1. sess[c] \in Session /\ OriginOK(c)
    BY OriginParts DEF TypeOK
  <2>2. ASSUME NEW t \in Tenants, sess' = [sess EXCEPT ![c] = UpdateTenant(@, t)]
        PROVE  /\ sess'[c] = UpdateTenant(sess[c], t)
               /\ sess'[c].pair = sess[c].pair
               /\ sess'[c].cred = sess[c].cred
               /\ sess'[c].isAuthenticated = sess[c].isAuthenticated
    BY <2>1, <2>2 DEF UpdateTenant, TypeOK, Session
  <2>3. CASE Accept(c)
    BY <2>3 DEF Accept, NewSession, OriginOK, TypeOK
  <2>4. CASE Close(c)
    BY <2>1, <2>4 DEF Close, TakeTokens, OriginOK, TypeOK, Session
  <2>5. ASSUME NEW t \in Tenants, LoginIncomplete(c, t)
        PROVE  OriginOK(c)'
    BY <1>2, <2>1, <2>2, <2>5 DEF LoginIncomplete, OriginOK, TypeOK
  <2>6. ASSUME NEW t \in Tenants, NEW cr \in Creds, LoginSkipped(c, t, cr)
        PROVE  OriginOK(c)'
    <3>1. /\ sess'[c] = UpdateTenant(sess[c], t) /\ SkipsLogin(sess'[c], cr)
          /\ sess'[c].pair = sess[c].pair
      BY <2>2, <2>6 DEF LoginSkipped
    <3>4. sess[c].pair.access = "current"
      BY <3>1 DEF SkipsLogin, IsTokenExpired
    <3>5. sess[c].pair \in TokenPair \cup {EmptyPair}
      BY <2>1 DEF Session
    <3>2. sess[c].pair # EmptyPair /\ sess[c].pair.refresh # "blank"
      BY <3>4, <3>5, PairTypes DEF EmptyPair
    <3>3. sess'[c].tenant = sess[c].pair.issuer
      BY <2>2, <2>6, <3>1, <3>2
         DEF LoginSkipped, SkipsLogin, HasTokensFromOtherTenant, IsEmpty
    <3>6. /\ loginOk'[c] = [tenant |-> t, cred |-> sess[c].cred] /\ sess'[c].tenant = t
          /\ pc'[c] # "login"
      BY <2>1, <2>2, <2>6, <3>1
         DEF LoginSkipped, SkipsLogin, SessionCredentialsMatch, UpdateTenant, TypeOK, Session
    <3>7. /\ sess'[c].pair = sess[c].pair /\ sess'[c].cred = sess[c].cred
          /\ sess'[c].isAuthenticated = sess[c].isAuthenticated
      BY <2>2, <2>6 DEF LoginSkipped
    <3>8. /\ origin'[sess[c].pair.sid] = [tenant |-> sess[c].pair.issuer, cred |-> sess[c].cred]
          /\ sess[c].isAuthenticated /\ sess[c].cred # NoCred
      BY <1>2, <2>1, <3>2 DEF OriginOK
    <3>9. sess'[c].tenant = loginOk'[c].tenant
      BY <3>6
    <3>10. sess[c].pair.issuer = t
      BY <3>3, <3>6
    <3>11. origin'[sess'[c].pair.sid] = loginOk'[c]
      BY <3>6, <3>7, <3>8, <3>10
    <3>12. /\ sess'[c].pair # EmptyPair
           /\ origin'[sess'[c].pair.sid] = [tenant |-> sess'[c].pair.issuer, cred |-> sess'[c].cred]
           /\ sess'[c].isAuthenticated /\ sess'[c].cred # NoCred
      BY <3>2, <3>7, <3>8
    <3> QED
      BY <3>6, <3>9, <3>11, <3>12 DEF OriginOK
  <2>7. ASSUME NEW t \in Tenants, NEW cr \in Creds, LoginSent(c, t, cr)
        PROVE  OriginOK(c)'
    <3>1. call'[c].cred # NoCred /\ loginOk'[c] = NoOrigin
      BY <2>7, ConstantsAssumption DEF LoginSent, NoCall, TypeOK
    <3> QED
      BY <1>2, <2>1, <2>2, <2>7, <3>1 DEF LoginSent, OriginOK
  <2>8. CASE RenewStart(c)
    BY <1>2, <2>1, <2>8 DEF RenewStart, OriginOK, TypeOK
  <2> QED
    BY <2>3, <2>4, <2>5, <2>6, <2>7, <2>8 DEF Device
<1> QED
  BY <1>1, <1>2, <1>3, OriginOf

(* Every answer of a FOLIO call keeps the origins. *)
LEMMA AnsweredOrigin ==
  ASSUME TypeOK, OwnershipInv, OriginInv, RenewalInv, NEW c \in Conns, Answered(c)
  PROVE  OriginInv'
<1>1. \A d \in Conns \ {c} : pc'[d] = pc[d] /\ call'[d] = call[d] /\ sess'[d] = sess[d]
                               /\ loginOk'[d] = loginOk[d]
  BY DEF Answered, LoginAccepted, LoginFailed, LoginReplyLost, LoginError, RefreshAccepted,
         RefreshRejected, RefreshFailed, RefreshReplyLost, FallBack, ReloginAccepted,
         ReloginFailed, ReloginReplyLost, ReloginError, Return, TypeOK
<1>2. origin' = origin \/ \E s \in Sids : \E t, cr : Opens(s, t, cr)
  BY DEF Answered, LoginAccepted, LoginFailed, LoginReplyLost, RefreshAccepted, RefreshRejected,
         RefreshFailed, RefreshReplyLost, ReloginAccepted, ReloginFailed, ReloginReplyLost, keycloak
<1>3. logouts' \subseteq logouts \cup LogoutOf(sess[c].pair)
  BY DEF Answered, LoginAccepted, LoginFailed, LoginReplyLost, LoginError, RefreshAccepted,
         RefreshRejected, RefreshFailed, RefreshReplyLost, ReloginAccepted,
         ReloginFailed, ReloginReplyLost, ReloginError
<1>4. /\ sess[c] \in Session /\ OriginOK(c)
      /\ sess[c].pair # EmptyPair => origin'[sess[c].pair.sid] = origin[sess[c].pair.sid]
  BY <1>2, OriginStays, OriginParts DEF TypeOK
<1>5. OriginOK(c)'
  <2>1. ASSUME pc'[c] # "login", sess'[c] = sess[c], loginOk'[c] \in {loginOk[c], NoOrigin}
        PROVE  OriginOK(c)'
    BY <1>4, <2>1 DEF OriginOK
  <2>2. ASSUME NEW s \in Sids, NEW e \in Expiries, LoginAccepted(c, s, e)
        PROVE  OriginOK(c)'
    <3>1. origin'[s] = [tenant |-> sess[c].tenant, cred |-> call[c].cred]
      BY <2>2 DEF LoginAccepted, Opens, TypeOK
    <3>2. call[c].cred # NoCred /\ pc'[c] = "idle"
      BY <1>4, <2>2 DEF LoginAccepted, Return, OriginOK, TypeOK
    <3>3. sess'[c] = SetAuthenticated(StoreTokens(sess[c], s, e), call[c].cred)
      BY <2>2 DEF LoginAccepted, TypeOK
    <3>4. /\ sess'[c].tenant = sess[c].tenant /\ sess'[c].cred = call[c].cred
          /\ sess'[c].isAuthenticated = TRUE
          /\ sess'[c].pair.sid = s /\ sess'[c].pair.issuer = sess[c].tenant
      BY <1>4, <3>3 DEF SetAuthenticated, StoreTokens, NewPair, Session
    <3>5. sess'[c].pair # EmptyPair
      BY <3>4, ConstantsAssumption DEF EmptyPair
    <3>6. loginOk'[c] = [tenant |-> sess[c].tenant, cred |-> call[c].cred]
      BY <2>2 DEF LoginAccepted, TypeOK
    <3> QED
      BY <3>1, <3>2, <3>4, <3>5, <3>6 DEF OriginOK
  <2>3. CASE LoginError(c)
    <3>1. pc'[c] = "idle" /\ loginOk'[c] = NoOrigin
      BY <2>3 DEF LoginError, Return, TypeOK
    <3>2. CASE HasTokensFromOtherTenant(sess[c])
      <4>1. sess'[c] = Clear(sess[c])
        BY <2>3, <3>2 DEF LoginError, TypeOK
      <4>2. sess'[c].pair = EmptyPair
        BY <1>4, <4>1 DEF Clear, TakeTokens, Session
      <4> QED
        BY <3>1, <4>2 DEF OriginOK
    <3>3. CASE ~HasTokensFromOtherTenant(sess[c])
      BY <2>1, <2>3, <3>1, <3>3 DEF LoginError
    <3> QED
      BY <3>2, <3>3
  <2>4. ASSUME NEW e \in Expiries, RefreshAccepted(c, e)
        PROVE  OriginOK(c)'
    <3>1. pc'[c] = "idle" /\ sess[c].pair # EmptyPair /\ sess[c].tenant = sess[c].pair.issuer
      BY <2>4 DEF RefreshAccepted, Return, CanRefresh, RenewalInv, RenewalOK, TypeOK
    <3>2. sess'[c] = StoreTokens(sess[c], sess[c].pair.sid, e)
      BY <2>4 DEF RefreshAccepted, TypeOK
    <3>3. /\ sess'[c].tenant = sess[c].tenant /\ sess'[c].cred = sess[c].cred
          /\ sess'[c].isAuthenticated = sess[c].isAuthenticated
          /\ sess'[c].pair.sid = sess[c].pair.sid /\ sess'[c].pair.issuer = sess[c].tenant
      BY <1>4, <3>2 DEF StoreTokens, NewPair, Session
    <3>4. sess'[c].pair # EmptyPair
      <4>1. sess[c].pair \in TokenPair \cup {EmptyPair}
        BY <1>4 DEF Session
      <4>2. sess[c].pair.sid # NoSid
        BY <3>1, <4>1, PairSids
      <4> QED
        BY <3>3, <4>2 DEF EmptyPair
    <3>5. loginOk'[c] = loginOk[c]
      BY <2>4 DEF RefreshAccepted
    <3> QED
      BY <1>4, <3>1, <3>3, <3>4, <3>5 DEF OriginOK
  <2>5. CASE RefreshRejected(c) \/ RefreshFailed(c)
    BY <2>1, <2>5 DEF RefreshRejected, RefreshFailed, FallBack, TypeOK
  <2>6. CASE RefreshReplyLost(c)
    <3>1. pc'[c] = "relogin" /\ loginOk'[c] = loginOk[c] /\ sess[c].pair # EmptyPair
      BY <2>6 DEF RefreshReplyLost, FallBack, RenewalInv, RenewalOK, TypeOK
    <3>2. sess'[c] = [sess[c] EXCEPT !.pair = [sess[c].pair EXCEPT !.stale = TRUE]]
      BY <2>6 DEF RefreshReplyLost, TypeOK
    <3>3. /\ sess'[c].tenant = sess[c].tenant /\ sess'[c].cred = sess[c].cred
          /\ sess'[c].isAuthenticated = sess[c].isAuthenticated
          /\ sess'[c].pair.sid = sess[c].pair.sid
          /\ sess'[c].pair.issuer = sess[c].pair.issuer
      <4> DEFINE q == [sess[c].pair EXCEPT !.stale = TRUE]
      <4>1. sess[c] \in Session /\ sess[c].pair \in TokenPair \cup {EmptyPair}
        BY <1>4 DEF Session
      <4>2. sess[c].pair \in TokenPair
        BY <3>1, <4>1
      <4>3. q.sid = sess[c].pair.sid /\ q.issuer = sess[c].pair.issuer
        BY <4>2 DEF TokenPair
      <4>4. sess'[c] = [sess[c] EXCEPT !.pair = q]
        BY <3>2
      <4> HIDE DEF q
      <4> QED
        BY <4>1, <4>3, <4>4 DEF Session
    <3>4. sess'[c].pair # EmptyPair
      <4>1. sess[c].pair \in TokenPair \cup {EmptyPair}
        BY <1>4 DEF Session
      <4>2. sess[c].pair.sid # NoSid
        BY <3>1, <4>1, PairSids
      <4> QED
        BY <3>3, <4>2 DEF EmptyPair
    <3> QED
      BY <1>4, <3>1, <3>3, <3>4 DEF OriginOK
  <2>7. ASSUME NEW s \in Sids, NEW e \in Expiries, ReloginAccepted(c, s, e)
        PROVE  OriginOK(c)'
    <3>1. origin'[s] = [tenant |-> sess[c].tenant, cred |-> sess[c].cred]
      BY <2>7 DEF ReloginAccepted, Opens, TypeOK
    <3>2. pc'[c] = "idle" /\ loginOk'[c] = loginOk[c] /\ sess[c].pair # EmptyPair
      BY <2>7 DEF ReloginAccepted, Return, RenewalInv, RenewalOK, TypeOK
    <3>3. sess'[c] = StoreTokens(sess[c], s, e)
      BY <2>7 DEF ReloginAccepted, TypeOK
    <3>4. /\ sess'[c].tenant = sess[c].tenant /\ sess'[c].cred = sess[c].cred
          /\ sess'[c].isAuthenticated = sess[c].isAuthenticated
          /\ sess'[c].pair.sid = s /\ sess'[c].pair.issuer = sess[c].tenant
      BY <1>4, <3>3 DEF StoreTokens, NewPair, Session
    <3>5. sess'[c].pair # EmptyPair
      BY <3>4, ConstantsAssumption DEF EmptyPair
    <3> QED
      BY <1>4, <3>1, <3>2, <3>4, <3>5 DEF OriginOK
  <2>8. CASE ReloginError(c) /\ pc[c] = "relogin"
    <3>1. pc'[c] \in {"relogin", "idle"} /\ sess' = sess /\ loginOk' = loginOk
      BY <2>8 DEF ReloginError, Return, TypeOK
    <3> QED
      BY <2>1, <3>1
  <2> QED
    BY <2>2, <2>3, <2>4, <2>5, <2>6, <2>7, <2>8
       DEF Answered, LoginFailed, LoginReplyLost, ReloginFailed, ReloginReplyLost
<1> QED
  BY <1>1, <1>2, <1>3, <1>5, OriginOf

(* A step of a logout keeps the origins. *)
LEMMA LogoutStepOrigin ==
  ASSUME TypeOK, OriginInv, NEW l \in logouts, LogoutStep(l)
  PROVE  OriginInv'
<1>1. UNCHANGED <<origin, pc, sess, call, loginOk>>
  BY DEF LogoutStep, LogoutSkipped, LogoutStart, LogoutRefreshed, LogoutRefreshRejected,
         LogoutRefreshFailed, LogoutAccepted, LogoutUnauthorized, LogoutFailed, keycloak
<1>2. \A k \in logouts' : \E m \in logouts :
        k.pair.sid = m.pair.sid /\ k.pair.issuer = m.pair.issuer
  <2>1. \A g : [l EXCEPT !.stage = g].pair = l.pair
    BY DEF TypeOK, LogoutCall
  <2>2. CASE Done(l)
    BY <2>2 DEF Done
  <2>3. ASSUME NEW m, Replace(l, m), m.pair.sid = l.pair.sid, m.pair.issuer = l.pair.issuer,
               NEW k \in logouts'
        PROVE  \E n \in logouts : k.pair.sid = n.pair.sid /\ k.pair.issuer = n.pair.issuer
    BY <2>3 DEF Replace
  <2>4. CASE LogoutStart(l)
    BY <2>1, <2>3, <2>4 DEF LogoutStart
  <2>5. CASE LogoutUnauthorized(l)
    BY <2>1, <2>3, <2>5 DEF LogoutUnauthorized
  <2>6. ASSUME NEW e \in Expiries, LogoutRefreshed(l, e), NEW k \in logouts'
        PROVE  \E n \in logouts : k.pair.sid = n.pair.sid /\ k.pair.issuer = n.pair.issuer
    BY <2>3, <2>6 DEF LogoutRefreshed, NewPair
  <2> QED
    BY <2>2, <2>4, <2>5, <2>6 DEF LogoutStep, LogoutSkipped, LogoutRefreshRejected,
         LogoutRefreshFailed, LogoutAccepted, LogoutFailed
<1> QED
  BY <1>1, <1>2 DEF OriginInv, PairKnowsItsOrigin, RenewalHasCredentials, LoginOkHolds

(* What time does keeps the origins. *)
LEMMA TimeOrigin ==
  ASSUME TypeOK, OriginInv, Time
  PROVE  OriginInv'
<1>1. UNCHANGED <<origin, pc, call, loginOk>>
  BY DEF Time, AccessAgesBy, RefreshAgesBy, LogoutPairAges, KcExpires, KcRevoked, keycloak
<1>2. ASSUME NEW d \in Conns
      PROVE  /\ sess'[d].tenant = sess[d].tenant /\ sess'[d].cred = sess[d].cred
             /\ sess'[d].isAuthenticated = sess[d].isAuthenticated
             /\ sess'[d].pair.sid = sess[d].pair.sid
             /\ sess'[d].pair.issuer = sess[d].pair.issuer
             /\ sess'[d].pair = EmptyPair <=> sess[d].pair = EmptyPair
  <2>1. ASSUME NEW c \in Conns, AccessAgesBy(c) \/ RefreshAgesBy(c)
        PROVE  /\ sess'[d].tenant = sess[d].tenant /\ sess'[d].cred = sess[d].cred
               /\ sess'[d].isAuthenticated = sess[d].isAuthenticated
               /\ sess'[d].pair.sid = sess[d].pair.sid
               /\ sess'[d].pair.issuer = sess[d].pair.issuer
               /\ sess'[d].pair = EmptyPair <=> sess[d].pair = EmptyPair
    <3>1. sess[c].pair \in TokenPair /\ sess[c] \in Session /\ sess[c].pair.sid # NoSid
      BY <2>1, PairTypes, ConstantsAssumption
         DEF AccessAgesBy, RefreshAgesBy, TypeOK, Session, EmptyPair
    <3>2. PICK p : /\ sess' = [sess EXCEPT ![c] = [sess[c] EXCEPT !.pair = p]]
                   /\ p.sid = sess[c].pair.sid /\ p.issuer = sess[c].pair.issuer
      <4>1. CASE AccessAgesBy(c)
        <5>1. sess' = [sess EXCEPT ![c] =
                         [sess[c] EXCEPT !.pair = [sess[c].pair EXCEPT !.access = Older(@)]]]
          BY <4>1 DEF AccessAgesBy
        <5>2. /\ [sess[c].pair EXCEPT !.access = Older(@)].sid = sess[c].pair.sid
              /\ [sess[c].pair EXCEPT !.access = Older(@)].issuer = sess[c].pair.issuer
          BY <3>1 DEF TokenPair
        <5> QED
          BY <5>1, <5>2
      <4>2. CASE RefreshAgesBy(c)
        <5>1. sess' = [sess EXCEPT ![c] =
                         [sess[c] EXCEPT !.pair = [sess[c].pair EXCEPT !.refresh = Older(@)]]]
          BY <4>2 DEF RefreshAgesBy
        <5>2. /\ [sess[c].pair EXCEPT !.refresh = Older(@)].sid = sess[c].pair.sid
              /\ [sess[c].pair EXCEPT !.refresh = Older(@)].issuer = sess[c].pair.issuer
          BY <3>1 DEF TokenPair
        <5> QED
          BY <5>1, <5>2
      <4> QED
        BY <2>1, <4>1, <4>2
    <3>3. p # EmptyPair /\ sess[c].pair # EmptyPair
      BY <3>1, <3>2 DEF EmptyPair
    <3> QED
      BY <3>1, <3>2, <3>3 DEF TypeOK, Session
  <2>2. CASE sess' = sess
    BY <2>2
  <2> QED
    BY <2>1, <2>2 DEF Time, LogoutPairAges, KcExpires, KcRevoked
<1>3. \A k \in logouts' : \E m \in logouts :
        k.pair.sid = m.pair.sid /\ k.pair.issuer = m.pair.issuer
  <2>1. ASSUME NEW l \in logouts, LogoutPairAges(l), NEW k \in logouts'
        PROVE  \E m \in logouts : k.pair.sid = m.pair.sid /\ k.pair.issuer = m.pair.issuer
    <3>1. l \in LogoutCall /\ l.pair \in TokenPair
      BY DEF TypeOK, LogoutCall
    <3>2. ASSUME NEW m, Replace(l, m), m.pair.sid = l.pair.sid, m.pair.issuer = l.pair.issuer
          PROVE  \E n \in logouts : k.pair.sid = n.pair.sid /\ k.pair.issuer = n.pair.issuer
      BY <2>1, <3>2 DEF Replace
    <3>3. CASE Replace(l, [l EXCEPT !.pair.access = Older(@)])
      <4> DEFINE m == [l EXCEPT !.pair.access = Older(@)]
      <4>1. m.pair.sid = l.pair.sid /\ m.pair.issuer = l.pair.issuer
        BY <3>1 DEF LogoutCall, TokenPair
      <4>2. Replace(l, m)
        BY <3>3
      <4> HIDE DEF m
      <4> QED
        BY <3>2, <4>1, <4>2
    <3>4. CASE Replace(l, [l EXCEPT !.pair.refresh = Older(@)])
      <4> DEFINE m == [l EXCEPT !.pair.refresh = Older(@)]
      <4>1. m.pair.sid = l.pair.sid /\ m.pair.issuer = l.pair.issuer
        BY <3>1 DEF LogoutCall, TokenPair
      <4>2. Replace(l, m)
        BY <3>4
      <4> HIDE DEF m
      <4> QED
        BY <3>2, <4>1, <4>2
    <3> QED
      BY <2>1, <3>3, <3>4 DEF LogoutPairAges
  <2>2. CASE logouts' = logouts
    BY <2>2
  <2> QED
    BY <2>1, <2>2 DEF Time, AccessAgesBy, RefreshAgesBy, KcExpires, KcRevoked
<1> QED
  BY <1>1, <1>2, <1>3 DEF OriginInv, PairKnowsItsOrigin, RenewalHasCredentials, LoginOkHolds

---------------------------------------------------------------------------
(* The invariant holds of the initial states. *)
LEMMA InvariantInit == Init => IInv
<1> SUFFICES ASSUME Init PROVE IInv
  OBVIOUS
<1>1. TypeOK
  <2>1. \A t \in Tenants : NewSession(t) \in Session
    BY DEF NewSession, Session
  <2> QED
    BY <2>1, NoCallType, OriginTypes DEF Init, TypeOK
<1>2. /\ \A c \in Conns : sess[c].pair = EmptyPair
      /\ \A c \in Conns : pc[c] = "closed" /\ call[c] = NoCall /\ loginOk[c] = NoOrigin
      /\ \A s \in Sids : life[s] = "unused"
      /\ logouts = {}
  BY DEF Init, NewSession
<1>3. OwnershipInv
  <2>1. \A s \in Sids : ~Owned(s)
    BY <1>2, ConstantsAssumption DEF Owned, Held, LoggedOut, EmptyPair
  <2> QED
    BY <1>2, <2>1, ConstantsAssumption DEF OwnershipInv, Exclusive, NoForgottenSession
<1>4. OriginInv
  BY <1>2 DEF OriginInv, PairKnowsItsOrigin, RenewalHasCredentials, LoginOkHolds
<1>5. RenewalInv
  BY <1>2 DEF RenewalInv, RenewalOK, NoCall
<1> QED
  BY <1>1, <1>3, <1>4, <1>5 DEF IInv

(* Every step keeps the invariant. *)
LEMMA InvariantStep == IInv /\ [Next]_vars => IInv'
<1> SUFFICES ASSUME TypeOK, OwnershipInv, OriginInv, RenewalInv, [Next]_vars
             PROVE  IInv'
  BY DEF IInv
<1>1. ASSUME NEW c \in Conns, Device(c)
      PROVE  IInv'
  BY <1>1, DeviceType, DeviceOwnership, DeviceOrigin, DeviceRenewal DEF IInv
<1>2. ASSUME NEW c \in Conns, Answered(c)
      PROVE  IInv'
  BY <1>2, AnsweredType, AnsweredOwnership, AnsweredOrigin, AnsweredRenewal DEF IInv
<1>3. ASSUME NEW l \in logouts, LogoutStep(l)
      PROVE  IInv'
  BY <1>3, LogoutStepType, LogoutStepOwnership, LogoutStepOrigin, LogoutStepRenewal DEF IInv
<1>4. CASE Time
  BY <1>4, TimeType, TimeOwnership, TimeOrigin, TimeRenewal DEF IInv
<1>5. CASE UNCHANGED vars
  <2> USE <1>5 DEF vars
  <2>1. TypeOK'
    BY DEF TypeOK
  <2>2. OwnershipInv'
    <3>1. Exclusive'
      BY DEF OwnershipInv, Exclusive
    <3>2. \A s \in Sids : Owned(s)' <=> Owned(s)
      BY DEF Owned, Held, LoggedOut
    <3>3. (\A d \in Conns : sess[d].pair # EmptyPair => AgeOK(sess[d].pair))'
      BY DEF OwnershipInv, AgeOK
    <3>4. (\A l \in logouts : AgeOK(l.pair))'
      BY DEF OwnershipInv, AgeOK
    <3>5. NoForgottenSession' /\ (\A s \in Sids : life[s] = "unused" => ~Owned(s))'
      BY <3>2 DEF OwnershipInv, NoForgottenSession
    <3> QED
      BY <3>1, <3>3, <3>4, <3>5 DEF OwnershipInv
  <2>3. OriginInv'
    BY DEF OriginInv, PairKnowsItsOrigin, RenewalHasCredentials, LoginOkHolds
  <2>4. RenewalInv'
    BY DEF RenewalInv, RenewalOK, Live
  <2> QED
    BY <2>1, <2>2, <2>3, <2>4 DEF IInv
<1> QED
  BY <1>1, <1>2, <1>3, <1>4, <1>5 DEF Next

(* The inductive invariant: types, ownership, origins, and what a renewal   *)
(* in progress knows of the pair it replaces.                               *)
THEOREM Invariant == Spec => []IInv
BY InvariantInit, InvariantStep, PTL DEF Spec

(* A Keycloak session has at most one owner, whatever the number of         *)
(* connections, logouts and sessions.                                       *)
THEOREM ExclusiveOwnership == Spec => []Exclusive
<1>1. IInv => Exclusive
  BY DEF IInv, OwnershipInv
<1> QED
  BY <1>1, Invariant, PTL

(* No live Keycloak session is forgotten without a cause on record. *)
THEOREM NothingForgotten == Spec => []NoForgottenSession
<1>1. IInv => NoForgottenSession
  BY DEF IInv, OwnershipInv
<1> QED
  BY <1>1, Invariant, PTL

(* Every pair is kept with the tenant and the credentials it came from. *)
THEOREM OriginsKnown == Spec => []PairKnowsItsOrigin
<1>1. IInv => PairKnowsItsOrigin
  BY DEF IInv, OriginInv
<1> QED
  BY <1>1, Invariant, PTL

(* A renewal always has credentials to log in with. *)
THEOREM CredentialsAtHand == Spec => []RenewalHasCredentials
<1>1. IInv => RenewalHasCredentials
  BY DEF IInv, OriginInv
<1> QED
  BY <1>1, Invariant, PTL

(* A device told "ok" is served in the tenant its 93 resolved to, by a      *)
(* session that was opened there with the credentials this very 93 carried. *)
THEOREM OkMeansServed == Spec => []LoginOkHolds
<1>1. IInv => LoginOkHolds
  BY DEF IInv, OriginInv
<1> QED
  BY <1>1, Invariant, PTL

(* A step that ends a connection's authentication is its close, or the      *)
(* failure of a login that moved it to another tenant.                      *)
THEOREM AuthenticationKept == Spec => AuthenticationSurvives
<1>1. TypeOK /\ [Next]_vars => KeepsAuthentication
  <2> SUFFICES ASSUME TypeOK, [Next]_vars, NEW c \in Conns,
                      sess[c].isAuthenticated, ~sess'[c].isAuthenticated
               PROVE  pc[c] = "closed" \/ sess[c].pair.issuer # sess[c].tenant
    BY DEF KeepsAuthentication
  <2>1. sess[c] \in Session
    BY DEF TypeOK
  <2>2. ASSUME NEW d \in Conns, Device(d)
        PROVE  pc[c] = "closed"
    <3>1. ASSUME NEW t, sess' = [sess EXCEPT ![d] = UpdateTenant(@, t)]
          PROVE  FALSE
      BY <2>1, <3>1 DEF UpdateTenant, TypeOK, Session
    <3>2. CASE Close(d)
      BY <2>1, <3>2 DEF Close, TakeTokens, TypeOK, Session
    <3>3. CASE Accept(d)
      BY <2>1, <3>3 DEF Accept, TypeOK
    <3> QED
      BY <2>2, <3>1, <3>2, <3>3 DEF Device, LoginIncomplete, LoginSkipped, LoginSent, RenewStart
  <2>3. ASSUME NEW d \in Conns, Answered(d)
        PROVE  sess[c].pair.issuer # sess[c].tenant
    <3>1. CASE LoginError(d)
      BY <2>1, <3>1 DEF LoginError, HasTokensFromOtherTenant, TypeOK
    <3>2. ASSUME NEW s, NEW e, NEW cr,
                 \/ sess' = [sess EXCEPT ![d] = StoreTokens(@, s, e)]
                 \/ sess' = [sess EXCEPT ![d] = SetAuthenticated(StoreTokens(@, s, e), cr)]
          PROVE  FALSE
      <4>1. sess'[c] \in {sess[c], StoreTokens(sess[c], s, e),
                          SetAuthenticated(StoreTokens(sess[c], s, e), cr)}
        BY <3>2 DEF TypeOK
      <4>2. StoreTokens(sess[c], s, e).isAuthenticated = sess[c].isAuthenticated
        BY <2>1 DEF StoreTokens, Session
      <4>3. SetAuthenticated(StoreTokens(sess[c], s, e), cr).isAuthenticated
        BY <2>1 DEF SetAuthenticated, StoreTokens, Session
      <4> QED
        BY <4>1, <4>2, <4>3
    <3>3. CASE RefreshReplyLost(d)
      BY <2>1, <3>3 DEF RefreshReplyLost, TypeOK, Session
    <3> QED
      BY <2>3, <3>1, <3>2, <3>3
         DEF Answered, LoginAccepted, LoginFailed, LoginReplyLost, RefreshAccepted,
             RefreshRejected, RefreshFailed, ReloginAccepted, ReloginFailed, ReloginReplyLost,
             ReloginError
  <2>4. ASSUME NEW l \in logouts, LogoutStep(l)
        PROVE  FALSE
    BY <2>4 DEF LogoutStep, LogoutSkipped, LogoutStart, LogoutRefreshed, LogoutRefreshRejected,
         LogoutRefreshFailed, LogoutAccepted, LogoutUnauthorized, LogoutFailed
  <2>5. CASE Time
    <3>1. ASSUME NEW d \in Conns, AccessAgesBy(d) \/ RefreshAgesBy(d)
          PROVE  FALSE
      <4>1. \/ sess' = [sess EXCEPT ![d] =
                        [sess[d] EXCEPT !.pair = [sess[d].pair EXCEPT !.access = Older(@)]]]
            \/ sess' = [sess EXCEPT ![d] =
                        [sess[d] EXCEPT !.pair = [sess[d].pair EXCEPT !.refresh = Older(@)]]]
        BY <3>1 DEF AccessAgesBy, RefreshAgesBy
      <4>2. PICK p : sess' = [sess EXCEPT ![d] = [sess[d] EXCEPT !.pair = p]]
        BY <4>1
      <4>3. [sess[c] EXCEPT !.pair = p].isAuthenticated = sess[c].isAuthenticated
        BY <2>1 DEF Session
      <4> QED
        BY <4>2, <4>3 DEF TypeOK
    <3> QED
      BY <2>5, <3>1 DEF Time, LogoutPairAges, KcExpires, KcRevoked
  <2>6. CASE UNCHANGED vars
    BY <2>6 DEF vars
  <2> QED
    BY <2>2, <2>3, <2>4, <2>5, <2>6 DEF Next
<1> QED
  BY <1>1, TypeCorrect, PTL DEF Spec, AuthenticationSurvives

---------------------------------------------------------------------------
(* TokenSession implements ServiceAccount. *)

(* What each effect on the owners means for the abstract service account.   *)

(* No connection exchanges its pair. *)
LEMMA HoldsSame ==
  ASSUME \A c \in Conns : sess'[c].pair.sid = sess[c].pair.sid
  PROVE  Holds' = Holds
BY DEF Holds

(* One connection exchanges its pair. *)
LEMMA HoldsChanged ==
  ASSUME NEW c \in Conns, \A d \in Conns \ {c} : sess'[d].pair = sess[d].pair
  PROVE  /\ Holds' = [Holds EXCEPT ![c] = sess'[c].pair.sid]
         /\ Holds[c] = sess[c].pair.sid
BY DEF Holds

(* A pair is handed to a logout, if there is one. *)
LEMMA LeavingMore ==
  ASSUME TypeOK, NEW p \in TokenPair \cup {EmptyPair}, logouts' = logouts \cup LogoutOf(p)
  PROVE  /\ p = EmptyPair => Leaving' = Leaving
         /\ p # EmptyPair => Leaving' = Leaving \cup {p.sid}
<1>1. CASE p = EmptyPair
  BY <1>1 DEF LogoutOf, IsEmpty, EmptyPair, Leaving
<1>2. CASE p # EmptyPair
  <2>1. LogoutOf(p) = {Logout(p)}
    BY <1>2, PairTypes DEF LogoutOf, IsEmpty
  <2>2. Logout(p).pair = p
    BY DEF Logout
  <2> QED
    BY <1>2, <2>1, <2>2 DEF Leaving
<1> QED
  BY <1>1, <1>2

(* A logout goes on with its pair, or with a new one of the same session. *)
LEMMA LeavingSame ==
  ASSUME NEW l \in logouts, NEW m, m.pair.sid = l.pair.sid, Replace(l, m)
  PROVE  Leaving' = Leaving
BY DEF Replace, Leaving

(* A logout is over; no other logout has its session. *)
LEMMA LeavingLess ==
  ASSUME Exclusive, NEW l \in logouts, Done(l)
  PROVE  Leaving' = Leaving \ {l.pair.sid} /\ l.pair.sid \in Leaving
BY DEF Exclusive, Done, Leaving

(* A login opens a session that was not open. *)
LEMMA OpenedMore ==
  ASSUME TypeOK, NEW s \in Sids, NEW t, NEW cr, Opens(s, t, cr)
  PROVE  s \notin Opened /\ Opened' = Opened \cup {s} /\ LivesOn' = LivesOn \cup {s}
BY DEF TypeOK, Opens, Opened, LivesOn

(* A refresh makes its session live on. *)
LEMMA LivesOnMore ==
  ASSUME TypeOK, NEW s \in Sids, Live(s), Refreshes(s)
  PROVE  Opened' = Opened /\ LivesOn' = LivesOn \cup {s}
BY DEF TypeOK, Live, Refreshes, Opened, LivesOn

(* A session that ends needs no excuse. *)
LEMMA LivesOnLess ==
  ASSUME TypeOK, NEW s \in Sids, life[s] # "unused", Ends({s})
  PROVE  Opened' = Opened /\ LivesOn' = LivesOn \ {s} /\ Excused' = Excused \ {s}
BY DEF TypeOK, Ends, Opened, LivesOn, Excused

(* A recorded cause is an excuse. *)
LEMMA ExcusedMore ==
  ASSUME TypeOK, NEW s \in Sids, NEW why, Blame(s, why)
  PROVE  Excused' = Excused \cup {s}
BY DEF TypeOK, Blame, Excused

(* What the gateway knows is unchanged. *)
LEMMA GatewaySame ==
  /\ UNCHANGED life => Opened' = Opened /\ LivesOn' = LivesOn
  /\ UNCHANGED cause => Excused' = Excused
  /\ UNCHANGED logouts => Leaving' = Leaving
BY DEF Opened, LivesOn, Excused, Leaving

(* Time that passes for an owner's pair fades its session, or nothing.      *)
LEMMA SessionFades ==
  ASSUME TypeOK, NEW p \in TokenPair, SessionAges(p), UNCHANGED <<Holds, Leaving>>
  PROVE  [Account!Next]_(Account!vars)
<1>1. p.sid \in Sids
  BY PairSids
<1>2. CASE UNCHANGED <<life, cause>>
  BY <1>2, GatewaySame DEF Account!vars
<1>3. CASE Live(p.sid) /\ Ends({p.sid})
  <2>1. Opened' = Opened /\ LivesOn' = LivesOn \ {p.sid} /\ Excused' = Excused \ {p.sid}
    BY <1>1, <1>3, LivesOnLess DEF Live
  <2> QED
    BY <1>1, <2>1 DEF Account!Next, Account!Fades
<1>4. CASE Live(p.sid) /\ life' = [life EXCEPT ![p.sid] = "expiring"] /\ UNCHANGED cause
  <2>1. Opened' = Opened /\ LivesOn' = LivesOn \ {p.sid}
    BY <1>1, <1>4 DEF Opened, LivesOn, Live, TypeOK
  <2> QED
    BY <1>1, <1>4, <2>1, GatewaySame DEF Account!Next, Account!Fades
<1> QED
  BY <1>2, <1>3, <1>4 DEF SessionAges

---------------------------------------------------------------------------
(* The actions. *)

(* What a device does is a stutter, or its connection leaves. *)
LEMMA DeviceImplements ==
  ASSUME TypeOK, RenewalInv, NEW c \in Conns, Device(c)
  PROVE  [Account!Next]_(Account!vars)
<1>1. sess[c] \in Session
  BY DEF TypeOK
<1>2. ASSUME UNCHANGED <<life, cause, logouts>>,
             \A d \in Conns : sess'[d].pair = sess[d].pair
      PROVE  UNCHANGED Account!vars
  BY <1>2, HoldsSame, GatewaySame DEF Account!vars
<1>3. CASE Accept(c)
  <2>1. sess[c].pair = EmptyPair
    BY <1>3 DEF Accept, RenewalInv, RenewalOK
  <2>2. \A d \in Conns : sess'[d].pair = sess[d].pair
    BY <1>3, <2>1 DEF Accept, NewSession, TypeOK
  <2> QED
    BY <1>2, <1>3, <2>2 DEF Accept, keycloak
<1>4. CASE Close(c)
  <2>1. sess'[c].pair = EmptyPair /\ \A d \in Conns \ {c} : sess'[d].pair = sess[d].pair
    BY <1>1, <1>4 DEF Close, TakeTokens, TypeOK, Session
  <2>2. Opened' = Opened /\ LivesOn' = LivesOn /\ Excused' = Excused
    BY <1>4, GatewaySame DEF Close, keycloak
  <2>3. CASE sess[c].pair = EmptyPair
    <3>1. Leaving' = Leaving
      BY <1>4, <2>3, LeavingMore DEF Close
    <3>2. Holds' = Holds
      BY <2>1, <2>3, HoldsSame
    <3> QED
      BY <2>2, <3>1, <3>2 DEF Account!vars
  <2>4. CASE sess[c].pair # EmptyPair
    <3>1. Leaving' = Leaving \cup {sess[c].pair.sid}
      BY <1>1, <1>4, <2>4, LeavingMore DEF Close, Session
    <3>2. Holds' = [Holds EXCEPT ![c] = NoSid] /\ Holds[c] = sess[c].pair.sid
      BY <2>1, HoldsChanged DEF EmptyPair
    <3>3. sess[c].pair.sid # NoSid
      BY <1>1, <2>4, PairSids DEF Session
    <3> QED
      BY <2>2, <3>1, <3>2, <3>3 DEF Account!Next, Account!Leaves
  <2> QED
    BY <2>3, <2>4
<1>5. ASSUME NEW t \in Tenants, sess' = [sess EXCEPT ![c] = UpdateTenant(@, t)]
      PROVE  \A d \in Conns : sess'[d].pair = sess[d].pair
  BY <1>5 DEF UpdateTenant, TypeOK, Session
<1>6. ASSUME NEW t \in Tenants,
             LoginIncomplete(c, t) \/ \E cr \in Creds : LoginSkipped(c, t, cr) \/ LoginSent(c, t, cr)
      PROVE  UNCHANGED Account!vars
  BY <1>2, <1>5, <1>6 DEF LoginIncomplete, LoginSkipped, LoginSent, keycloak
<1>7. CASE RenewStart(c)
  BY <1>2, <1>7 DEF RenewStart, keycloak
<1> QED
  BY <1>3, <1>4, <1>6, <1>7 DEF Device

(* A logout renews its session, ends it and no other, or has an excuse. *)
LEMMA LogoutStepImplements ==
  ASSUME TypeOK, OwnershipInv, NEW l \in logouts, LogoutStep(l)
  PROVE  [Account!Next]_(Account!vars)
<1> DEFINE s == l.pair.sid
<1>1. l.pair \in TokenPair /\ s \in Sids /\ s \in Leaving /\ life[s] # "unused"
  BY PairSids DEF TypeOK, LogoutCall, Leaving, OwnershipInv, Owned, LoggedOut
<1>2. AgeOK(l.pair) /\ Exclusive
  BY DEF OwnershipInv
<1>3. Holds' = Holds
  <2>1. UNCHANGED sess
    BY DEF LogoutStep, LogoutSkipped, LogoutStart, LogoutRefreshed, LogoutRefreshRejected,
           LogoutRefreshFailed, LogoutAccepted, LogoutUnauthorized, LogoutFailed
  <2> QED
    BY <2>1, HoldsSame
<1> HIDE DEF s
<1>4. ASSUME Done(l), UNCHANGED <<life, cause>>, s \in LivesOn => s \in Excused
      PROVE  Account!LogoutOver(s)
  BY <1>1, <1>2, <1>3, <1>4, LeavingLess, GatewaySame DEF Account!LogoutOver, s
<1>5. ASSUME Done(l), NEW why, Blame(s, why), UNCHANGED life
      PROVE  Account!LogoutOver(s)
  <2>1. Excused' = Excused \cup {s}
    BY <1>1, <1>5, ExcusedMore
  <2> QED
    BY <1>1, <1>2, <1>3, <1>5, <2>1, LeavingLess, GatewaySame DEF Account!LogoutOver, s
<1>6. ASSUME Done(l), Ends(EndedBy(l.pair))
      PROVE  Account!LogoutOver(s)
  <2>1. EndedBy(l.pair) = {s}
    BY <1>1, PairTypes DEF EndedBy, s
  <2>2. Opened' = Opened /\ LivesOn' = LivesOn \ {s} /\ Excused' = Excused \ {s}
    BY <1>1, <1>6, <2>1, LivesOnLess
  <2> QED
    BY <1>1, <1>2, <1>3, <1>6, <2>2, LeavingLess DEF Account!LogoutOver, s
<1>7. ASSUME NEW m, m.pair.sid = s, Replace(l, m), UNCHANGED <<life, cause>>
      PROVE  UNCHANGED Account!vars
  BY <1>3, <1>7, LeavingSame, GatewaySame DEF Account!vars, s
<1>8. (LogoutSkipped(l) \/ LogoutRefreshRejected(l)) => (s \in LivesOn => s \in Excused)
  BY <1>1, <1>2 DEF LogoutSkipped, SkipsLogout, LogoutRefreshRejected, CanReject, AgeOK, Live,
     LivesOn, Excused, s
<1>9. CASE LogoutSkipped(l) \/ LogoutRefreshRejected(l)
  <2>1. Account!LogoutOver(s)
    BY <1>4, <1>8, <1>9 DEF LogoutSkipped, LogoutRefreshRejected, keycloak
  <2> QED
    BY <1>1, <2>1 DEF Account!Next
<1>10. CASE LogoutStart(l) \/ LogoutUnauthorized(l)
  <2>1. \A stage : [l EXCEPT !.stage = stage].pair = l.pair
    BY DEF TypeOK, LogoutCall
  <2> QED
    BY <1>7, <1>10, <2>1 DEF LogoutStart, LogoutUnauthorized, keycloak, s
<1>11. ASSUME NEW e \in Expiries, LogoutRefreshed(l, e)
       PROVE  Account!Renews(s)
  <2>1. Opened' = Opened /\ LivesOn' = LivesOn \cup {s}
    BY <1>1, <1>11, LivesOnMore DEF LogoutRefreshed, CanRefresh, s
  <2>2. Leaving' = Leaving
    BY <1>11, LeavingSame DEF LogoutRefreshed, NewPair
  <2>3. Excused' = Excused
    BY <1>11, GatewaySame DEF LogoutRefreshed
  <2> QED
    BY <1>1, <1>3, <2>1, <2>2, <2>3 DEF Account!Renews
<1>12. CASE LogoutRefreshFailed(l) \/ LogoutAccepted(l) \/ LogoutFailed(l)
  <2>1. Account!LogoutOver(s)
    BY <1>5, <1>6, <1>12 DEF LogoutRefreshFailed, LogoutAccepted, LogoutFailed, s
  <2> QED
    BY <1>1, <2>1 DEF Account!Next
<1> QED
  BY <1>1, <1>9, <1>10, <1>11, <1>12 DEF LogoutStep, Account!Next

(* Time fades sessions. *)
LEMMA TimeImplements ==
  ASSUME TypeOK, Time
  PROVE  [Account!Next]_(Account!vars)
<1>1. ASSUME NEW c \in Conns, AccessAgesBy(c) \/ RefreshAgesBy(c)
      PROVE  [Account!Next]_(Account!vars)
  <2>1. sess[c] \in Session /\ sess[c].pair.access # "blank" /\ UNCHANGED logouts
    BY <1>1 DEF TypeOK, AccessAgesBy, RefreshAgesBy, Session, TokenPair, AccessAges,
       RefreshAges, EmptyPair
  <2>2. sess[c].pair \in TokenPair
    BY <2>1 DEF Session, EmptyPair
  <2>3. \A d \in Conns : sess'[d].pair.sid = sess[d].pair.sid
    <3>1. PICK p : sess' = [sess EXCEPT ![c] = [sess[c] EXCEPT !.pair = p]]
                     /\ \E age : \/ p = [sess[c].pair EXCEPT !.access = age]
                                 \/ p = [sess[c].pair EXCEPT !.refresh = age]
      BY <1>1 DEF AccessAgesBy, RefreshAgesBy
    <3>2. p.sid = sess[c].pair.sid
      BY <2>2, <3>1 DEF TokenPair
    <3>3. [sess[c] EXCEPT !.pair = p].pair = p
      BY <2>1 DEF Session
    <3> QED
      BY <3>1, <3>2, <3>3 DEF TypeOK
  <2>4. UNCHANGED <<Holds, Leaving>>
    BY <2>1, <2>3, HoldsSame, GatewaySame
  <2>5. CASE AccessAgesBy(c)
    BY <2>4, <2>5, GatewaySame DEF AccessAgesBy, keycloak, Account!vars
  <2>6. CASE RefreshAgesBy(c)
    BY <2>2, <2>4, <2>6, SessionFades DEF RefreshAgesBy
  <2> QED
    BY <1>1, <2>5, <2>6
<1>2. ASSUME NEW l \in logouts, LogoutPairAges(l)
      PROVE  [Account!Next]_(Account!vars)
  <2>1. l \in LogoutCall /\ l.pair \in TokenPair
    BY DEF TypeOK, LogoutCall
  <2>2. Holds' = Holds
    BY <1>2, HoldsSame DEF LogoutPairAges
  <2>3. /\ \A age : [l EXCEPT !.pair.access = age].pair.sid = l.pair.sid
        /\ \A age : [l EXCEPT !.pair.refresh = age].pair.sid = l.pair.sid
    BY <2>1 DEF LogoutCall, TokenPair
  <2>4. Leaving' = Leaving
    BY <1>2, <2>3, LeavingSame DEF LogoutPairAges
  <2> QED
    BY <1>2, <2>1, <2>2, <2>4, SessionFades, GatewaySame DEF LogoutPairAges, Account!vars
<1>3. ASSUME NEW s \in Sids, KcExpires(s) \/ KcRevoked(s)
      PROVE  Account!Fades(s)
  <2>1. Opened' = Opened /\ LivesOn' = LivesOn \ {s} /\ Excused' = Excused \ {s}
    BY <1>3, LivesOnLess DEF KcExpires, KcRevoked
  <2>2. Holds' = Holds /\ Leaving' = Leaving
    BY <1>3, HoldsSame, GatewaySame DEF KcExpires, KcRevoked
  <2> QED
    BY <2>1, <2>2 DEF Account!Fades
<1> QED
  BY <1>1, <1>2, <1>3 DEF Time, Account!Next

(* A login error keeps the connection's session, or hands it to a logout. *)
LEMMA LoginErrorImplements ==
  ASSUME TypeOK, NEW c \in Conns, LoginError(c)
  PROVE  \/ UNCHANGED <<Holds, Leaving>>
         \/ /\ Holds[c] # NoSid
            /\ Holds' = [Holds EXCEPT ![c] = NoSid]
            /\ Leaving' = Leaving \cup {Holds[c]}
<1>1. sess[c].pair \in TokenPair \cup {EmptyPair}
  BY DEF TypeOK, Session
<1>2. \A d \in Conns \ {c} : sess'[d].pair = sess[d].pair
  BY LoginErrorPair
<1>3. CASE logouts' = logouts /\ \A d \in Conns : sess'[d].pair = sess[d].pair
  BY <1>3, HoldsSame, GatewaySame
<1>4. CASE sess'[c].pair = EmptyPair /\ logouts' = logouts \cup LogoutOf(sess[c].pair)
  <2>1. CASE sess[c].pair = EmptyPair
    BY <1>1, <1>2, <1>4, <2>1, LeavingMore, HoldsSame
  <2>2. CASE sess[c].pair # EmptyPair
    <3>1. Leaving' = Leaving \cup {sess[c].pair.sid} /\ sess[c].pair.sid # NoSid
      BY <1>1, <1>4, <2>2, LeavingMore, PairSids
    <3>2. Holds' = [Holds EXCEPT ![c] = NoSid] /\ Holds[c] = sess[c].pair.sid
      BY <1>2, <1>4, HoldsChanged DEF EmptyPair
    <3> QED
      BY <3>1, <3>2
  <2> QED
    BY <2>1, <2>2
<1> QED
  BY <1>3, <1>4, LoginErrorPair

(* An answered login or renewal opens a session or renews one, and lets go  *)
(* of the one it replaces.                                                  *)
LEMMA AnsweredImplements ==
  ASSUME TypeOK, OwnershipInv, RenewalInv, NEW c \in Conns, Answered(c)
  PROVE  [Account!Next]_(Account!vars)
<1>1. sess[c] \in Session /\ sess[c].pair \in TokenPair \cup {EmptyPair}
  BY DEF TypeOK, Session
<1>2. ASSUME LoginError(c), UNCHANGED <<life, cause>>
      PROVE  [Account!Next]_(Account!vars)
  BY <1>2, LoginErrorImplements, GatewaySame DEF Account!Next, Account!Leaves, Account!vars
<1>3. ASSUME NEW s \in Sids, NEW t, NEW cr, Opens(s, t, cr), NEW why, Blame(s, why),
             LoginError(c) \/ UNCHANGED <<sess, logouts>>
      PROVE  Account!OpensInVain(c, s)
  <2>1. s \notin Opened /\ Opened' = Opened \cup {s} /\ LivesOn' = LivesOn \cup {s}
    BY <1>3, OpenedMore
  <2>2. Excused' = Excused \cup {s}
    BY <1>3, ExcusedMore
  <2>3. UNCHANGED <<sess, logouts>> => UNCHANGED <<Holds, Leaving>>
    BY HoldsSame, GatewaySame
  <2> QED
    BY <1>3, <2>1, <2>2, <2>3, LoginErrorImplements DEF Account!OpensInVain
<1>4. ASSUME NEW s \in Sids, NEW t, NEW cr, Opens(s, t, cr),
             sess'[c].pair.sid = s, \A d \in Conns \ {c} : sess'[d].pair = sess[d].pair,
             \/ logouts' = logouts \cup LogoutOf(sess[c].pair) /\ UNCHANGED cause
             \/ /\ UNCHANGED logouts /\ sess[c].pair # EmptyPair
                /\ sess[c].pair.sid \in LivesOn => sess[c].pair.sid \in Excused'
                /\ Excused' \in {Excused, Excused \cup {sess[c].pair.sid}}
      PROVE  Account!Opens(c, s)
  <2>1. s \notin Opened /\ Opened' = Opened \cup {s} /\ LivesOn' = LivesOn \cup {s}
    BY <1>4, OpenedMore
  <2>2. Holds' = [Holds EXCEPT ![c] = s] /\ Holds[c] = sess[c].pair.sid
    BY <1>4, HoldsChanged
  <2>3. sess[c].pair = EmptyPair <=> Holds[c] = NoSid
    BY <1>1, <2>2, PairSids
  <2>4. Account!LetsGoOf(Holds[c])
    BY <1>1, <1>4, <2>2, <2>3, LeavingMore, GatewaySame DEF Account!LetsGoOf
  <2> QED
    BY <2>1, <2>2, <2>4 DEF Account!Opens
<1>5. ASSUME NEW s \in Sids, NEW e \in Expiries, LoginAccepted(c, s, e)
      PROVE  Account!Opens(c, s)
  <2>1. sess' = [sess EXCEPT ![c] = SetAuthenticated(StoreTokens(sess[c], s, e), call[c].cred)]
    BY <1>5 DEF LoginAccepted
  <2>2. sess'[c].pair.sid = s /\ \A d \in Conns \ {c} : sess'[d].pair = sess[d].pair
    BY <1>1, <2>1, StoredPair DEF TypeOK
  <2> QED
    BY <1>4, <1>5, <2>2 DEF LoginAccepted
<1>6. ASSUME NEW s \in Sids, NEW e \in Expiries, ReloginAccepted(c, s, e)
      PROVE  Account!Opens(c, s)
  <2>1. sess'[c].pair.sid = s /\ \A d \in Conns \ {c} : sess'[d].pair = sess[d].pair
    BY <1>1, <1>6, StoredPair DEF ReloginAccepted, TypeOK
  <2>2. CASE LogsOutReplaced(c)
    BY <1>4, <1>6, <2>1, <2>2 DEF ReloginAccepted
  <2>3. CASE ~LogsOutReplaced(c)
    <3> DEFINE r == sess[c].pair.sid
    <3>1. /\ sess[c].pair # EmptyPair
          /\ life[r] # "alive" \/ cause[r] # {} \/ DropCauses(c) # {}
      BY <1>6, <2>3, DroppedIsExplained DEF ReloginAccepted
    <3>2. r \in Sids
      BY <1>1, <3>1, PairSids
    <3> HIDE DEF r
    <3>3. cause' = [cause EXCEPT ![r] = @ \cup DropCauses(c)] /\ UNCHANGED logouts
      BY <1>6, <2>3 DEF ReloginAccepted, r
    <3>4. Excused' = IF DropCauses(c) = {} THEN Excused ELSE Excused \cup {r}
      BY <3>2, <3>3 DEF Excused, TypeOK
    <3>5. r \in LivesOn => r \in Excused'
      BY <3>1, <3>2, <3>4 DEF LivesOn, Excused
    <3> QED
      BY <1>4, <1>6, <2>1, <3>1, <3>3, <3>4, <3>5 DEF ReloginAccepted, r
  <2> QED
    BY <2>2, <2>3
<1>7. ASSUME RefreshReplyLost(c) \/ \E e \in Expiries : RefreshAccepted(c, e)
      PROVE  Account!Renews(sess[c].pair.sid)
  <2>1. sess[c].pair # EmptyPair
    BY <1>7 DEF RefreshReplyLost, RefreshAccepted, RenewalInv, RenewalOK
  <2>2. sess[c].pair.sid \in Sids /\ sess[c].pair \in TokenPair
    BY <1>1, <2>1, PairSids
  <2>3. Opened' = Opened /\ LivesOn' = LivesOn \cup {sess[c].pair.sid}
    BY <1>7, <2>2, LivesOnMore DEF RefreshReplyLost, RefreshAccepted, CanRefresh
  <2>4. \A d \in Conns : sess'[d].pair.sid = sess[d].pair.sid
    <3>1. CASE RefreshReplyLost(c)
      <4>1. sess' = [sess EXCEPT ![c] = [sess[c] EXCEPT !.pair = [sess[c].pair EXCEPT !.stale = TRUE]]]
        BY <3>1 DEF RefreshReplyLost
      <4>2. [sess[c].pair EXCEPT !.stale = TRUE].sid = sess[c].pair.sid
        BY <2>2 DEF TokenPair
      <4>3. \A p : [sess[c] EXCEPT !.pair = p].pair = p
        BY <1>1 DEF Session
      <4> QED
        BY <4>1, <4>2, <4>3 DEF TypeOK
    <3>2. ASSUME NEW e \in Expiries, RefreshAccepted(c, e)
          PROVE  \A d \in Conns : sess'[d].pair.sid = sess[d].pair.sid
      BY <1>1, <3>2, StoredPair DEF RefreshAccepted, TypeOK
    <3> QED
      BY <1>7, <3>1, <3>2
  <2>5. Holds' = Holds /\ Leaving' = Leaving
    BY <1>7, <2>4, HoldsSame, GatewaySame DEF RefreshReplyLost, RefreshAccepted
  <2>6. Excused' \in {Excused, Excused \cup {sess[c].pair.sid}}
    BY <1>7, <2>2, ExcusedMore, GatewaySame DEF RefreshReplyLost, RefreshAccepted
  <2> QED
    BY <2>3, <2>5, <2>6 DEF Account!Renews, Holds
<1>8. CASE LoginFailed(c)
  BY <1>2, <1>8 DEF LoginFailed, keycloak
<1>9. ASSUME NEW s \in Sids, LoginReplyLost(c, s) \/ ReloginReplyLost(c, s)
      PROVE  Account!OpensInVain(c, s)
  BY <1>3, <1>9 DEF LoginReplyLost, ReloginReplyLost, ReloginError
<1>10. CASE RefreshRejected(c) \/ RefreshFailed(c) \/ ReloginFailed(c)
  <2>1. UNCHANGED <<life, cause, sess, logouts>>
    BY <1>10 DEF RefreshRejected, RefreshFailed, ReloginFailed, ReloginError, keycloak
  <2> QED
    BY <2>1, HoldsSame, GatewaySame DEF Account!vars
<1>11. RefreshReplyLost(c) \/ (\E e \in Expiries : RefreshAccepted(c, e)) => sess[c].pair.sid \in Sids
  BY <1>1, PairSids DEF RefreshReplyLost, RefreshAccepted, RenewalInv, RenewalOK
<1> QED
  BY <1>5, <1>6, <1>7, <1>8, <1>9, <1>10, <1>11 DEF Answered, Account!Next

---------------------------------------------------------------------------
(* The service account's promise is kept: a session is opened once, held by *)
(* one connection, let go of once, never taken up again, and left behind    *)
(* only with an excuse; a logout ends the session of its own pair.          *)
THEOREM KeepsPromise == Spec => ImplementsServiceAccount
<1>1. Init => Account!Init
  BY ConstantsAssumption DEF Init, NewSession, EmptyPair, Account!Init, Opened, Holds, Leaving,
     LivesOn, Excused
<1>2. IInv /\ [Next]_vars => [Account!Next]_(Account!vars)
  <2> SUFFICES ASSUME TypeOK, OwnershipInv, RenewalInv, [Next]_vars
               PROVE  [Account!Next]_(Account!vars)
    BY DEF IInv
  <2>1. CASE \E c \in Conns : Device(c)
    BY <2>1, DeviceImplements
  <2>2. CASE \E c \in Conns : Answered(c)
    BY <2>2, AnsweredImplements
  <2>3. CASE \E l \in logouts : LogoutStep(l)
    BY <2>3, LogoutStepImplements
  <2>4. CASE Time
    BY <2>4, TimeImplements
  <2>5. CASE UNCHANGED vars
    BY <2>5, HoldsSame, GatewaySame DEF vars, Account!vars
  <2> QED
    BY <2>1, <2>2, <2>3, <2>4, <2>5 DEF Next
<1> QED
  BY <1>1, <1>2, Invariant, PTL DEF Spec, ImplementsServiceAccount, Account!Spec
===========================================================================
