------------------------ MODULE TenantRouting_proofs ------------------------
(***************************************************************************)
(* The tenant service is never without a tenant, never keeps a part of an  *)
(* earlier generation, and leaves no device that logs in to it in a tenant *)
(* it does not define, for any number of sources and whatever they hold.   *)
(***************************************************************************)
EXTENDS TenantRouting, FiniteSetTheorems, WellFoundedInduction, TLAPS

---------------------------------------------------------------------------
(* Least and greatest positions. *)

(* A set of finite sets has a minimal one, if it has any. *)
LEMMA Least ==
  ASSUME NEW S, NEW D, D \subseteq FiniteSubsetsOf(S), D # {}
  PROVE  \E s \in D : \A t \in D : ~(t \subseteq s /\ t # s)
<1>1. \E s \in D : \A t \in D : ~(<<t, s>> \in StrictSubsetOrdering(S))
  BY FS_StrictSubsetOrderingWellFounded, WFMin
<1> QED
  BY <1>1 DEF FiniteSubsetsOf, StrictSubsetOrdering

(* A finite set of numbers has a least one, if it has any. *)
LEMMA LeastNumber ==
  ASSUME NEW S, S # {}, S \subseteq Nat, IsFiniteSet(S)
  PROVE  \E m \in S : \A i \in S : m <= i
<1> DEFINE upto(i) == {j \in S : j <= i}
           D == {upto(i) : i \in S}
<1>1. D \subseteq FiniteSubsetsOf(S) /\ D # {}
  <2>1. ASSUME NEW i \in S PROVE IsFiniteSet(upto(i)) /\ upto(i) \in SUBSET S
    BY FS_Subset
  <2> QED
    BY <2>1 DEF FiniteSubsetsOf
<1>2. PICK s \in D : \A t \in D : ~(t \subseteq s /\ t # s)
  <2> HIDE DEF D
  <2> QED
    BY <1>1, Least
<1>3. PICK m \in S : s = upto(m)
  OBVIOUS
<1>4. ASSUME NEW i \in S PROVE m <= i
  <2>1. SUFFICES ASSUME i < m PROVE FALSE
    OBVIOUS
  <2>2. i \in Nat /\ m \in Nat /\ \A j \in S : j \in Nat
    OBVIOUS
  <2>3. ASSUME NEW j \in S, j <= i PROVE j <= m
    BY <2>1, <2>2, <2>3
  <2>4. m \in upto(m) /\ m \notin upto(i)
    BY <2>1, <2>2
  <2>5. upto(i) \subseteq upto(m)
    BY <2>3
  <2> QED
    BY <1>2, <1>3, <2>4, <2>5
<1> QED
  BY <1>4

LEMMA MinExists ==
  ASSUME NEW S, S # {}, S \subseteq Nat, IsFiniteSet(S)
  PROVE  Min(S) \in S /\ \A i \in S : Min(S) <= i
BY LeastNumber DEF Min

LEMMA MaxExists ==
  ASSUME NEW S, S # {}, S \subseteq Nat, IsFiniteSet(S)
  PROVE  Max(S) \in S /\ \A i \in S : i <= Max(S)
<1> DEFINE from(i) == {j \in S : j >= i}
           D == {from(i) : i \in S}
<1>1. D \subseteq FiniteSubsetsOf(S) /\ D # {}
  <2>1. ASSUME NEW i \in S PROVE IsFiniteSet(from(i)) /\ from(i) \in SUBSET S
    BY FS_Subset
  <2> QED
    BY <2>1 DEF FiniteSubsetsOf
<1>2. PICK s \in D : \A t \in D : ~(t \subseteq s /\ t # s)
  <2> HIDE DEF D
  <2> QED
    BY <1>1, Least
<1>3. PICK m \in S : s = from(m)
  OBVIOUS
<1>4. ASSUME NEW i \in S PROVE m >= i
  <2>1. SUFFICES ASSUME m < i PROVE FALSE
    OBVIOUS
  <2>2. i \in Nat /\ m \in Nat /\ \A j \in S : j \in Nat
    OBVIOUS
  <2>3. ASSUME NEW j \in S, j >= i PROVE j >= m
    BY <2>1, <2>2, <2>3
  <2>4. m \in from(m) /\ m \notin from(i)
    BY <2>1, <2>2
  <2>5. from(i) \subseteq from(m)
    BY <2>3
  <2> QED
    BY <1>2, <1>3, <2>4, <2>5
<1>5. Max(S) \in S /\ \A y \in S : Max(S) >= y
  BY <1>4 DEF Max
<1> QED
  BY <1>5

(* Positions of a sequence are numbers, and finitely many. *)
LEMMA Positions ==
  ASSUME NEW V, NEW s \in Seq(V), NEW S \in SUBSET DOMAIN s
  PROVE  S \subseteq Nat /\ IsFiniteSet(S)
<1>1. DOMAIN s = 1..Len(s) /\ Len(s) \in Nat
  OBVIOUS
<1>2. IsFiniteSet(1..Len(s))
  BY <1>1, FS_Interval
<1> QED
  BY <1>1, <1>2, FS_Subset

---------------------------------------------------------------------------
(* What a loaded configuration is. *)

(* Something was loaded. *)
Full(l) == l \in Loading /\ l.ordered # <<>>

(* Every name in the map names a tenant of that name. *)
LEMMA TenantsAreTenants ==
  ASSUME NEW ordered \in Seq(TenantConfig)
  PROVE  /\ TenantsOf(ordered) \in [DOMAIN TenantsOf(ordered) -> TenantConfig]
         /\ DOMAIN TenantsOf(ordered) \subseteq Names
         /\ \A n \in DOMAIN TenantsOf(ordered) : TenantsOf(ordered)[n].tenant = n
         /\ \A i \in DOMAIN ordered : ordered[i].tenant \in DOMAIN TenantsOf(ordered)
<1> DEFINE at(n) == {i \in DOMAIN ordered : ordered[i].tenant = n}
<1>1. \A i \in DOMAIN ordered : ordered[i] \in TenantConfig
  OBVIOUS
<1>2. ASSUME NEW n \in {t.tenant : t \in ToSet(ordered)}
      PROVE  /\ n \in Names /\ ordered[Max(at(n))] \in TenantConfig
             /\ ordered[Max(at(n))].tenant = n
  <2>1. PICK i \in DOMAIN ordered : ordered[i].tenant = n
    BY DEF ToSet
  <2>2. at(n) # {} /\ at(n) \subseteq Nat /\ IsFiniteSet(at(n))
    BY <2>1, Positions
  <2>3. Max(at(n)) \in at(n)
    BY <2>2, MaxExists
  <2> QED
    BY <1>1, <2>1, <2>3 DEF TenantConfig
<1>3. \A i \in DOMAIN ordered : ordered[i].tenant \in {t.tenant : t \in ToSet(ordered)}
  BY DEF ToSet
<1> QED
  BY <1>2, <1>3 DEF TenantsOf

(* The service built from a loaded configuration has a tenant to give in    *)
(* any case.                                                                *)
LEMMA ServiceGives ==
  ASSUME NEW l, Full(l), NEW z, z = ServiceOf(ConfigOf(l))
  PROVE  /\ z.scTenants \in Seq(SCTenantConfig)
         /\ z.defaultConfig \in TenantConfig
         /\ \A S \in SUBSET Known(z) : /\ FirstOr(z, S) \in TenantConfig
                                       /\ FirstOr(z, S).tenant \in DOMAIN z.tenants
<1> DEFINE c == ConfigOf(l)
<1>1. /\ l.ordered \in Seq(TenantConfig) /\ l.scTenants \in Seq(SCTenantConfig) /\ l.ordered # <<>>
      /\ c.tenants = TenantsOf(l.ordered) /\ c.ordered = l.ordered /\ c.scTenants = l.scTenants
  BY DEF Full, Loading, ConfigOf
<1> HIDE DEF c
<1>2. /\ c.tenants \in [DOMAIN c.tenants -> TenantConfig]
      /\ \A n \in DOMAIN c.tenants : c.tenants[n].tenant = n
      /\ \A i \in DOMAIN c.ordered : c.ordered[i].tenant \in DOMAIN c.tenants
      /\ z.tenants = c.tenants /\ z.scTenants = c.scTenants /\ z.defaultConfig = DefaultConfig(c)
  BY <1>1, TenantsAreTenants DEF ServiceOf, c
<1>3. ASSUME NEW S \in SUBSET Known(c), S # {}
      PROVE  /\ c.tenants[c.scTenants[Min(S)].tenant] \in TenantConfig
             /\ c.tenants[c.scTenants[Min(S)].tenant].tenant \in DOMAIN c.tenants
  <2>1. S \in SUBSET DOMAIN c.scTenants
    BY DEF Known
  <2>2. S \subseteq Nat /\ IsFiniteSet(S)
    BY <1>1, <2>1, Positions
  <2>3. Min(S) \in S
    BY <1>3, <2>2, MinExists
  <2> QED
    BY <1>2, <2>3 DEF Known
<1>4. Known(z) = Known(c)
  BY <1>2 DEF Known
<1>5. DefaultConfig(c) \in TenantConfig /\ DefaultConfig(c).tenant \in DOMAIN c.tenants
  <2> DEFINE catchAll == {i \in Known(c) : CatchAll(c.scTenants[i])}
             unreferenced == {i \in DOMAIN c.ordered :
               \A j \in DOMAIN c.scTenants : c.scTenants[j].tenant # c.ordered[i].tenant}
  <2>1. CASE catchAll # {}
    <3>1. DefaultConfig(c) = c.tenants[c.scTenants[Min(catchAll)].tenant]
      BY <2>1 DEF DefaultConfig
    <3>2. catchAll \in SUBSET Known(c)
      OBVIOUS
    <3> HIDE DEF catchAll
    <3> QED
      BY <1>3, <2>1, <3>1, <3>2
  <2>2. CASE catchAll = {} /\ unreferenced # {}
    <3>1. DefaultConfig(c) = c.ordered[Min(unreferenced)]
      BY <2>2 DEF DefaultConfig
    <3>2. unreferenced \in SUBSET DOMAIN c.ordered
      OBVIOUS
    <3> HIDE DEF unreferenced
    <3>3. Min(unreferenced) \in DOMAIN c.ordered
      BY <1>1, <2>2, <3>2, Positions, MinExists
    <3> QED
      BY <1>1, <1>2, <3>1, <3>3
  <2>3. CASE catchAll = {} /\ unreferenced = {}
    <3>1. DefaultConfig(c) = c.ordered[1]
      BY <1>1, <2>3 DEF DefaultConfig
    <3> QED
      BY <1>1, <1>2, <3>1
  <2> QED
    BY <2>1, <2>2, <2>3
<1>6. ASSUME NEW S \in SUBSET Known(z)
      PROVE  FirstOr(z, S) \in TenantConfig /\ FirstOr(z, S).tenant \in DOMAIN z.tenants
  BY <1>2, <1>3, <1>4, <1>5 DEF FirstOr
<1> QED
  BY <1>1, <1>2, <1>5, <1>6

---------------------------------------------------------------------------
(* The load at startup: every source after the other, the last one last.    *)

Step(g, src, s) == IF s = {} THEN Nothing ELSE Adds(g[s \ {Max(s)}], src[Max(s)])

(* g is the function that the recursion of FoldLeft chooses for the sources *)
(* in S.                                                                    *)
IsLoad(g, src, S) == g = [s \in SUBSET S |-> Step(g, src, s)]

LEMMA FoldUnfolds ==
  ASSUME NEW src
  PROVE  FoldLeft(Adds, Nothing, src) = (CHOOSE g : IsLoad(g, src, DOMAIN src))[DOMAIN src]
BY DEF FoldLeft, MapThenFoldSet, IsLoad, Step

Numbers(S) == S \subseteq Nat /\ IsFiniteSet(S)

(* The sources before the last one of some. *)
LEMMA Smaller ==
  ASSUME NEW t, t \subseteq Nat, IsFiniteSet(t), t # {}
  PROVE  /\ Max(t) \in t /\ t \ {Max(t)} \subseteq t /\ t \ {Max(t)} # t
         /\ IsFiniteSet(t \ {Max(t)})
BY MaxExists, FS_RemoveElement

LEMMA LoadIsUnique ==
  ASSUME NEW src, NEW S, NEW T, NEW g, NEW h, IsLoad(g, src, S), IsLoad(h, src, T),
         NEW s, s \subseteq S, s \subseteq T, Numbers(s)
  PROVE  g[s] = h[s]
<1> DEFINE D == {t \in FiniteSubsetsOf(s) : g[t] # h[t]}
<1> SUFFICES ASSUME D # {} PROVE FALSE
  BY DEF FiniteSubsetsOf, Numbers
<1>1. PICK t \in D : \A u \in D : ~(u \subseteq t /\ u # t)
  <2>1. D \subseteq FiniteSubsetsOf(s)
    OBVIOUS
  <2> HIDE DEF D
  <2> QED
    BY <2>1, Least
<1>2. t \in SUBSET s /\ t \in SUBSET S /\ t \in SUBSET T /\ IsFiniteSet(t) /\ t \subseteq Nat
  BY DEF FiniteSubsetsOf, Numbers
<1>3. g[t] = Step(g, src, t) /\ h[t] = Step(h, src, t)
  BY <1>2 DEF IsLoad
<1>4. ASSUME t # {} PROVE g[t \ {Max(t)}] = h[t \ {Max(t)}]
  <2>1. t \ {Max(t)} \in FiniteSubsetsOf(s) /\ t \ {Max(t)} # t
    BY <1>2, <1>4, Smaller DEF FiniteSubsetsOf
  <2> QED
    BY <1>1, <2>1
<1> QED
  BY <1>3, <1>4 DEF Step

LEMMA LoadExists ==
  ASSUME NEW src, NEW S, S \subseteq Nat, IsFiniteSet(S)
  PROVE  \E g : IsLoad(g, src, S)
<1> DEFINE D == {t \in FiniteSubsetsOf(S) : ~ \E g : IsLoad(g, src, t)}
<1> SUFFICES ASSUME D # {} PROVE FALSE
  BY DEF FiniteSubsetsOf
<1>1. PICK t \in D : \A u \in D : ~(u \subseteq t /\ u # t)
  <2>1. D \subseteq FiniteSubsetsOf(S)
    OBVIOUS
  <2> HIDE DEF D
  <2> QED
    BY <2>1, Least
<1>2. /\ t \in SUBSET S /\ IsFiniteSet(t) /\ t \subseteq Nat
      /\ ~ \E g : IsLoad(g, src, t)
  BY DEF FiniteSubsetsOf
<1>3. ASSUME NEW u \in SUBSET t, u # t
      PROVE  IsFiniteSet(u) /\ u \subseteq Nat /\ \E g : IsLoad(g, src, u)
  <2>1. IsFiniteSet(u) /\ u \in FiniteSubsetsOf(S)
    BY <1>2, FS_Subset DEF FiniteSubsetsOf
  <2> QED
    BY <1>1, <1>2, <1>3, <2>1
<1> DEFINE G(u) == CHOOSE g : IsLoad(g, src, u)
           whole == [u \in SUBSET t |-> G(u)[u]]
           g == [u \in SUBSET t |-> Step(whole, src, u)]
<1>4. ASSUME NEW u \in SUBSET t, u # t
      PROVE  IsLoad(G(u), src, u)
  BY <1>3, <1>4
<1>5. ASSUME NEW u \in SUBSET t, u # t
      PROVE  whole[u] = Step(whole, src, u)
  <2>1. IsLoad(G(u), src, u) /\ IsFiniteSet(u) /\ u \subseteq Nat
    BY <1>3, <1>4, <1>5
  <2>2. whole[u] = G(u)[u]
    OBVIOUS
  <2> HIDE DEF G
  <2>3. G(u)[u] = Step(G(u), src, u)
    BY <2>1 DEF IsLoad
  <2>4. ASSUME u # {} PROVE G(u)[u \ {Max(u)}] = whole[u \ {Max(u)}]
    <3> DEFINE v == u \ {Max(u)}
    <3>1. v \in SUBSET t /\ v # t /\ v \subseteq u /\ IsFiniteSet(v)
      BY <2>1, <2>4, Smaller
    <3>2. IsLoad(G(v), src, v)
      BY <3>1, <1>4
    <3>3. whole[v] = G(v)[v]
      BY <3>1
    <3> HIDE DEF v, whole
    <3>4. Numbers(v) /\ v \subseteq u /\ v \subseteq v
      BY <3>1, <2>1 DEF Numbers
    <3>5. \A a, b : IsLoad(a, src, u) /\ IsLoad(b, src, v) => a[v] = b[v]
      BY <3>4, LoadIsUnique
    <3>6. G(u)[v] = G(v)[v]
      BY <3>2, <3>5, <2>1
    <3> QED
      BY <3>3, <3>6 DEF v
  <2> HIDE DEF whole
  <2> QED
    BY <2>2, <2>3, <2>4 DEF Step
<1>6. ASSUME NEW u \in SUBSET t, u # t
      PROVE  g[u] = whole[u]
  BY <1>5, <1>6
<1>7. IsLoad(g, src, t)
  <2>1. ASSUME NEW u \in SUBSET t
        PROVE  g[u] = Step(g, src, u)
    <3>1. g[u] = Step(whole, src, u)
      OBVIOUS
    <3>2. ASSUME u # {} PROVE g[u \ {Max(u)}] = whole[u \ {Max(u)}]
      <4>1. u \subseteq Nat /\ IsFiniteSet(u)
        BY <1>2, FS_Subset
      <4>2. u \ {Max(u)} \in SUBSET t /\ u \ {Max(u)} # t
        BY <4>1, <3>2, Smaller
      <4> HIDE DEF g, whole
      <4> QED
        BY <4>2, <1>6
    <3> HIDE DEF g, whole
    <3> QED
      BY <3>1, <3>2 DEF Step
  <2>2. DOMAIN g = SUBSET t /\ g = [u \in DOMAIN g |-> g[u]]
    OBVIOUS
  <2> HIDE DEF g
  <2> QED
    BY <2>1, <2>2 DEF IsLoad
<1> QED
  BY <1>7, <1>2

(* Adding a file that lists a tenant gives a configuration with a tenant.   *)
LEMMA AddsIsLoading ==
  ASSUME NEW l \in Loading, NEW f \in Files \cup {Broken}
  PROVE  /\ Adds(l, f) \in Loading
         /\ f \in Files \/ l.ordered # <<>> => Adds(l, f).ordered # <<>>
<1>1. f.tenants \in Seq(TenantConfig) /\ f.scTenants \in Seq(SCTenantConfig)
      /\ (f \in Files => f.tenants # <<>>)
  <2>1. CASE f \in Files
    BY <2>1, RoutingAssumption
  <2>2. CASE f = Broken /\ f \notin Files
    BY <2>2 DEF Broken
  <2> QED
    BY <2>1, <2>2
<1>2. l.ordered \in Seq(TenantConfig) /\ l.scTenants \in Seq(SCTenantConfig)
  BY DEF Loading
<1>3. l.ordered \o f.tenants \in Seq(TenantConfig) /\ l.scTenants \o f.scTenants \in Seq(SCTenantConfig)
  BY <1>1, <1>2
<1>4. f.tenants # <<>> \/ l.ordered # <<>> => l.ordered \o f.tenants # <<>>
  BY <1>1, <1>2
<1> QED
  BY <1>1, <1>3, <1>4 DEF Adds, Loading

(* Startup loads every source or does not start, so it starts with a tenant. *)
LEMMA StartsFull ==
  ASSUME NEW src \in [1..Sources -> Files]
  PROVE  Full(FoldLeft(Adds, Nothing, src))
<1> DEFINE S == 1..Sources
<1>1. S \subseteq Nat /\ IsFiniteSet(S) /\ S # {} /\ DOMAIN src = S
  <2>1. Sources \in Nat /\ 1 \in S
    BY RoutingAssumption
  <2>2. IsFiniteSet(S)
    BY <2>1, FS_Interval
  <2> QED
    BY <2>1, <2>2
<1> HIDE DEF S
<1> DEFINE g == CHOOSE g : IsLoad(g, src, S)
<1>2. IsLoad(g, src, S)
  BY <1>1, LoadExists
<1>3. FoldLeft(Adds, Nothing, src) = g[S]
  BY <1>1, FoldUnfolds
<1> HIDE DEF g
<1> DEFINE Good(t) == g[t] \in Loading /\ (t # {} => g[t].ordered # <<>>)
           D == {t \in FiniteSubsetsOf(S) : ~Good(t)}
<1>4. D = {}
  <2> SUFFICES ASSUME D # {} PROVE FALSE
    OBVIOUS
  <2>1. PICK t \in D : \A u \in D : ~(u \subseteq t /\ u # t)
    <3>1. D \subseteq FiniteSubsetsOf(S)
      OBVIOUS
    <3> HIDE DEF D
    <3> QED
      BY <3>1, Least
  <2>2. t \in SUBSET S /\ IsFiniteSet(t) /\ ~Good(t) /\ t \subseteq Nat
    BY <1>1 DEF FiniteSubsetsOf
  <2>3. g[t] = Step(g, src, t)
    BY <1>2, <2>2 DEF IsLoad
  <2>4. CASE t = {}
    <3>1. g[t] = Nothing /\ Nothing \in Loading
      BY <2>3, <2>4 DEF Step, Nothing, Loading
    <3> QED
      BY <2>2, <2>4, <3>1
  <2>5. CASE t # {}
    <3> DEFINE u == t \ {Max(t)}
    <3>1. Max(t) \in t /\ u \subseteq t /\ u # t /\ IsFiniteSet(u)
      BY <2>2, <2>5, Smaller
    <3>2. u \in FiniteSubsetsOf(S)
      BY <2>2, <3>1 DEF FiniteSubsetsOf
    <3>3. src[Max(t)] \in Files
      BY <2>2, <3>1 DEF S
    <3>4. g[t] = Adds(g[u], src[Max(t)])
      BY <2>3, <2>5 DEF Step
    <3>5. Good(u)
      <4> HIDE DEF u, Good
      <4> QED
        BY <2>1, <3>1, <3>2
    <3>6. g[u] \in Loading
      BY <3>5
    <3>7. g[t] \in Loading /\ g[t].ordered # <<>>
      <4> HIDE DEF u
      <4> QED
        BY <3>3, <3>4, <3>6, AddsIsLoading
    <3> QED
      BY <2>2, <3>7
  <2> QED
    BY <2>4, <2>5
<1>5. Good(S)
  BY <1>1, <1>4 DEF FiniteSubsetsOf
<1> QED
  BY <1>1, <1>3, <1>5 DEF Full

---------------------------------------------------------------------------
(* The invariant. *)

Typed ==
  /\ source \in [1..Sources -> Files \cup {Broken}]
  /\ reload \in [at : 0..(Done + 1), loaded : Loading, failed : BOOLEAN]
  /\ session \in [Conns -> TenantConfig \cup {NoConfig}]
  /\ client \in [Conns -> [host : Hosts, port : Ports]]

(* The configuration in force, and the one that the service was built from, *)
(* came out of a load that found a tenant.                                  *)
InForceIsFull == \E l : Full(l) /\ cfg = ConfigOf(l)
ServesFull == \E l : Full(l) /\ service = ServiceOf(ConfigOf(l))

RoutingInv == Typed /\ InForceIsFull /\ ServesFull /\ ServiceFollowsConfig

LEMMA IdleTyped == Idle \in [at : 0..(Done + 1), loaded : Loading, failed : BOOLEAN]
<1>1. Nothing \in Loading
  BY DEF Nothing, Loading
<1>2. 0 \in 0..(Done + 1)
  BY RoutingAssumption DEF Done
<1> QED
  BY <1>1, <1>2 DEF Idle

LEMMA StartsInvariant == Init => RoutingInv
<1> SUFFICES ASSUME Init PROVE RoutingInv
  OBVIOUS
<1>1. Full(FoldLeft(Adds, Nothing, source))
  BY StartsFull DEF Init
<1>2. InForceIsFull /\ ServesFull
  BY <1>1 DEF Init, InForceIsFull, ServesFull
<1>3. Typed
  BY IdleTyped DEF Init, Typed
<1>4. ServiceFollowsConfig
  BY DEF Init, ServiceFollowsConfig
<1> QED
  BY <1>2, <1>3, <1>4 DEF RoutingInv

(* What a connection is given is a tenant. *)
LEMMA ResolvesToTenant ==
  ASSUME ServesFull, NEW cl, NEW user, NEW location
  PROVE  /\ ResolveAtConnect(service, cl) \in TenantConfig
         /\ ResolveComplete(service, cl, user, location) \in TenantConfig
<1> PICK l : Full(l) /\ service = ServiceOf(ConfigOf(l))
  BY DEF ServesFull
<1>1. ASSUME NEW S \in SUBSET Known(service) PROVE FirstOr(service, S) \in TenantConfig
  BY <1>1, ServiceGives
<1>2. ResolveAtConnect(service, cl) \in TenantConfig
  <2> DEFINE bySubnet == {i \in Known(service) : cl.host \in service.scTenants[i].subnet}
             byPort == {i \in Known(service) : cl.port \in service.scTenants[i].port}
             S == IF bySubnet # {} THEN bySubnet ELSE byPort
  <2>1. S \in SUBSET Known(service)
    OBVIOUS
  <2>2. ResolveAtConnect(service, cl) = FirstOr(service, S)
    BY DEF ResolveAtConnect
  <2> HIDE DEF S
  <2> QED
    BY <1>1, <2>1, <2>2
<1>3. ResolveComplete(service, cl, user, location) \in TenantConfig
  <2> DEFINE S == {i \in Known(service) :
                /\ Accepts(service.scTenants[i].port, cl.port)
                /\ Accepts(service.scTenants[i].subnet, cl.host)
                /\ Accepts(service.scTenants[i].usernamePrefixes, user)
                /\ Accepts(service.scTenants[i].locationCodes, location)}
  <2>1. S \in SUBSET Known(service)
    OBVIOUS
  <2>2. ResolveComplete(service, cl, user, location) = FirstOr(service, S)
    BY DEF ResolveComplete
  <2> HIDE DEF S
  <2> QED
    BY <1>1, <2>1, <2>2
<1> QED
  BY <1>2, <1>3

LEMMA StepKeepsInvariant == RoutingInv /\ [Next]_vars => RoutingInv'
<1> SUFFICES ASSUME RoutingInv, [Next]_vars PROVE RoutingInv'
  OBVIOUS
<1> USE DEF RoutingInv
<1>a. Sources \in Nat \ {0} /\ Done = Sources + 1
  BY RoutingAssumption DEF Done
<1>1. ASSUME NEW i \in 1..Sources, SourceChanges(i) PROVE RoutingInv'
  <2>1. source' \in [1..Sources -> Files \cup {Broken}]
    BY <1>1 DEF SourceChanges, Typed
  <2> QED
    BY <1>1, <2>1 DEF SourceChanges, Typed, InForceIsFull, ServesFull, ServiceFollowsConfig
<1>2. CASE ReloadStarts
  <2>1. reload' \in [at : 0..(Done + 1), loaded : Loading, failed : BOOLEAN]
    <3>1. 1 \in 0..(Done + 1)
      BY <1>a
    <3> QED
      BY <1>2, <3>1, IdleTyped DEF ReloadStarts, Idle
  <2>2. service = ServiceOf(cfg)
    BY <1>2, <1>a DEF ReloadStarts, Idle, ServiceFollowsConfig
  <2> QED
    BY <1>2, <2>1, <2>2 DEF ReloadStarts, Typed, InForceIsFull, ServesFull, ServiceFollowsConfig
<1>3. CASE LoadsNext
  <2> DEFINE file == source[reload.at]
  <2>1. file \in Files \cup {Broken} /\ reload.loaded \in Loading
    BY <1>3 DEF LoadsNext, Typed
  <2>2. Adds(reload.loaded, file) \in Loading
    BY <2>1, AddsIsLoading
  <2>3. reload.at + 1 \in 0..(Done + 1) /\ reload.at # Done + 1
    BY <1>3, <1>a DEF LoadsNext
  <2>4. reload' = [at |-> reload.at + 1, loaded |-> Adds(reload.loaded, file),
                   failed |-> reload.failed \/ file = Broken]
    BY <1>3 DEF LoadsNext
  <2>5. (reload.failed \/ file = Broken) \in BOOLEAN
    OBVIOUS
  <2> HIDE DEF file
  <2>6. reload' \in [at : 0..(Done + 1), loaded : Loading, failed : BOOLEAN]
    BY <2>2, <2>3, <2>4, <2>5
  <2>7. service = ServiceOf(cfg)
    BY <2>3 DEF ServiceFollowsConfig
  <2> QED
    BY <1>3, <2>6, <2>7 DEF LoadsNext, Typed, InForceIsFull, ServesFull, ServiceFollowsConfig
<1>4. CASE ReloadKeeps
  <2>1. service = ServiceOf(cfg)
    BY <1>4, <1>a DEF ReloadKeeps, ServiceFollowsConfig
  <2> QED
    BY <1>4, <2>1, IdleTyped
    DEF ReloadKeeps, Typed, InForceIsFull, ServesFull, ServiceFollowsConfig
<1>5. CASE SetsTenants
  <2>1. reload' = [reload EXCEPT !.at = Done + 1] /\ Done + 1 \in 0..(Done + 1)
    BY <1>5, <1>a DEF SetsTenants
  <2>2. reload' \in [at : 0..(Done + 1), loaded : Loading, failed : BOOLEAN]
        /\ reload'.at = Done + 1
    BY <2>1 DEF Typed
  <2>3. Full(reload.loaded) /\ cfg' = ConfigOf(reload.loaded)
    BY <1>5 DEF SetsTenants, Loaded, Full, Typed
  <2> QED
    BY <1>5, <2>2, <2>3 DEF SetsTenants, Typed, InForceIsFull, ServesFull, ServiceFollowsConfig
<1>6. CASE Reinitializes
  <2>1. ServesFull'
    BY <1>6 DEF Reinitializes, InForceIsFull, ServesFull
  <2> QED
    BY <1>6, <2>1, IdleTyped DEF Reinitializes, Typed, InForceIsFull, ServiceFollowsConfig
<1>7. ASSUME NEW c \in Conns, Connects(c) PROVE RoutingInv'
  <2>1. client' \in [Conns -> [host : Hosts, port : Ports]]
    BY <1>7 DEF Connects, Typed
  <2>2. ResolveAtConnect(service, client'[c]) \in TenantConfig
    BY ResolvesToTenant
  <2>3. session' \in [Conns -> TenantConfig \cup {NoConfig}]
    BY <1>7, <2>2 DEF Connects, Typed
  <2> QED
    BY <1>7, <2>1, <2>3 DEF Connects, Typed, InForceIsFull, ServesFull, ServiceFollowsConfig
<1>8. ASSUME NEW c \in Conns, LogsIn(c) PROVE RoutingInv'
  <2>1. PICK user \in Usernames, location \in LocationCodes :
          LET new == ResolveComplete(service, client[c], user, location) IN
          session' = [session EXCEPT ![c] =
                        IF new # NoConfig /\ new.tenant # @.tenant THEN new ELSE @]
    BY <1>8 DEF LogsIn
  <2>2. ResolveComplete(service, client[c], user, location) \in TenantConfig
    BY ResolvesToTenant
  <2>3. session' \in [Conns -> TenantConfig \cup {NoConfig}]
    BY <2>1, <2>2 DEF Typed
  <2> QED
    BY <1>8, <2>3 DEF LogsIn, Typed, InForceIsFull, ServesFull, ServiceFollowsConfig
<1>9. ASSUME NEW c \in Conns, Disconnects(c) PROVE RoutingInv'
  BY <1>9 DEF Disconnects, Typed, InForceIsFull, ServesFull, ServiceFollowsConfig
<1>10. CASE UNCHANGED vars
  BY <1>10 DEF vars, Typed, InForceIsFull, ServesFull, ServiceFollowsConfig
<1> QED
  BY <1>1, <1>2, <1>3, <1>4, <1>5, <1>6, <1>7, <1>8, <1>9, <1>10 DEF Next, Reloads

(* Whatever the sources come to hold, the configuration in force and the    *)
(* service are those of a load that found a tenant.                         *)
THEOREM RoutingInvariant == Spec => []RoutingInv
<1>1. RoutingInv /\ [Next]_vars => RoutingInv'
  BY StepKeepsInvariant
<1> QED
  BY StartsInvariant, <1>1, PTL DEF Spec

---------------------------------------------------------------------------
LEMMA FullHasTenant ==
  ASSUME NEW l, Full(l)
  PROVE  /\ [ordered |-> ConfigOf(l).ordered, scTenants |-> ConfigOf(l).scTenants] \in Loading
         /\ ConfigOf(l).ordered # <<>>
         /\ ConfigOf(l).tenants \in [DOMAIN ConfigOf(l).tenants -> TenantConfig]
         /\ DOMAIN ConfigOf(l).tenants \subseteq Names
<1>1. l.ordered \in Seq(TenantConfig) /\ l.scTenants \in Seq(SCTenantConfig) /\ l.ordered # <<>>
  BY DEF Full, Loading
<1>2. /\ ConfigOf(l).ordered = l.ordered /\ ConfigOf(l).scTenants = l.scTenants
      /\ ConfigOf(l).tenants = TenantsOf(l.ordered)
  BY DEF ConfigOf
<1>3. [ordered |-> l.ordered, scTenants |-> l.scTenants] \in Loading
  BY <1>1 DEF Loading
<1> QED
  BY <1>1, <1>2, <1>3, TenantsAreTenants

(* The types of the routing state. *)
THEOREM RoutingTypes == Spec => []TypeOK
<1>1. RoutingInv => TypeOK
  <2> SUFFICES ASSUME RoutingInv PROVE TypeOK
    OBVIOUS
  <2>1. PICK l : Full(l) /\ cfg = ConfigOf(l)
    BY DEF RoutingInv, InForceIsFull
  <2>2. /\ [ordered |-> cfg.ordered, scTenants |-> cfg.scTenants] \in Loading
        /\ cfg.tenants \in [DOMAIN cfg.tenants -> TenantConfig]
        /\ DOMAIN cfg.tenants \subseteq Names
    BY <2>1, FullHasTenant
  <2>3. service.defaultConfig \in TenantConfig
    BY ServiceGives DEF RoutingInv, ServesFull
  <2> QED
    BY <2>2, <2>3 DEF RoutingInv, Typed, TypeOK
<1> QED
  BY <1>1, RoutingInvariant, PTL

(* Outside the callback of a reload nothing of an earlier generation is     *)
(* left in the tenant service: it is the one that a restart with the        *)
(* configuration in force would build.                                      *)
THEOREM NothingLeftBehind == Spec => []ServiceFollowsConfig
<1>1. RoutingInv => ServiceFollowsConfig
  BY DEF RoutingInv
<1> QED
  BY <1>1, RoutingInvariant, PTL

(* However many sources fail, and however often, a device always has a      *)
(* tenant to fall back to.                                                  *)
THEOREM AlwaysATenant == Spec => []NeverWithoutTenant
<1>1. RoutingInv => NeverWithoutTenant
  <2> SUFFICES ASSUME RoutingInv PROVE NeverWithoutTenant
    OBVIOUS
  <2>1. cfg.ordered # <<>>
    BY FullHasTenant DEF RoutingInv, InForceIsFull
  <2>2. service.defaultConfig \in TenantConfig
    BY ServiceGives DEF RoutingInv, ServesFull
  <2> QED
    BY <2>1, <2>2, RoutingAssumption DEF NeverWithoutTenant
<1> QED
  BY <1>1, RoutingInvariant, PTL

(* The step behind LoginsLeaveRemovedTenants: whatever settings a device     *)
(* has kept through however many reloads, a 93 leaves it in a tenant that   *)
(* the service defines.                                                     *)
LandsInDefined ==
  \A c \in Conns : LogsIn(c) => session'[c].tenant \in DOMAIN service.tenants

THEOREM LoginsReachDefinedTenants == Spec => [][LandsInDefined]_vars
<1>1. ASSUME RoutingInv PROVE LandsInDefined
  <2> SUFFICES ASSUME NEW c \in Conns, LogsIn(c)
               PROVE  session'[c].tenant \in DOMAIN service.tenants
    BY DEF LandsInDefined
  <2>1. PICK user \in Usernames, location \in LocationCodes :
          LET new == ResolveComplete(service, client[c], user, location) IN
          session' = [session EXCEPT ![c] =
                        IF new # NoConfig /\ new.tenant # @.tenant THEN new ELSE @]
    BY DEF LogsIn
  <2> DEFINE new == ResolveComplete(service, client[c], user, location)
             S == {i \in Known(service) :
                /\ Accepts(service.scTenants[i].port, client[c].port)
                /\ Accepts(service.scTenants[i].subnet, client[c].host)
                /\ Accepts(service.scTenants[i].usernamePrefixes, user)
                /\ Accepts(service.scTenants[i].locationCodes, location)}
  <2>2. new = FirstOr(service, S) /\ S \in SUBSET Known(service)
    BY DEF ResolveComplete
  <2> HIDE DEF S, new
  <2>3. new \in TenantConfig /\ new.tenant \in DOMAIN service.tenants
    <3>1. PICK l : Full(l) /\ service = ServiceOf(ConfigOf(l))
      BY <1>1 DEF RoutingInv, ServesFull
    <3> QED
      BY <2>2, <3>1, ServiceGives
  <2>4. session \in [Conns -> TenantConfig \cup {NoConfig}]
    BY <1>1 DEF RoutingInv, Typed
  <2>5. session'[c] = IF new # NoConfig /\ new.tenant # session[c].tenant
                        THEN new ELSE session[c]
    BY <2>1, <2>4 DEF new
  <2>6. new # NoConfig
    BY <2>3, RoutingAssumption
  <2> QED
    BY <2>3, <2>5, <2>6
<1>2. RoutingInv /\ [Next]_vars => [LandsInDefined]_vars
  BY <1>1
<1> QED
  BY <1>2, RoutingInvariant, PTL DEF Spec

===========================================================================
