--------------------------- MODULE TenantRouting ---------------------------
(***************************************************************************)
(* Which FOLIO tenant serves a device: the configuration sources, the      *)
(* periodic reload that replaces the tenants while devices are connected,  *)
(* the tenant service rebuilt from them, and the two resolutions of a      *)
(* connection, at connect (address and port) and at 93 Login (all rules).  *)
(*                                                                         *)
(* A rule of an scTenants entry is the set of values it accepts, empty     *)
(* when the entry does not have it.  A tenant's settings are one revision  *)
(* of the fields that the reload compares and one of those it does not.    *)
(* The service's RWMutex makes a resolution and a Reinitialize atomic; the *)
(* reload itself is not: each source is read at its own moment, and the    *)
(* shared Config is replaced before the service is rebuilt.                *)
(***************************************************************************)
EXTENDS Naturals, SequencesExt

CONSTANTS
  Conns,       \* SIP connections
  Names,       \* tenant names
  Revisions,   \* revisions of a tenant's settings
  Hosts, Ports, LocationCodes, Usernames,
  Files,       \* what a source can hold: its tenants and its scTenants
  Sources,     \* number of configuration sources
  NoConfig     \* a nil *TenantConfig

TenantConfig == [tenant : Names, compared : Revisions, uncompared : Revisions]

SCTenantConfig ==
  [tenant : Names, subnet : SUBSET Hosts, port : SUBSET Ports,
   locationCodes : SUBSET LocationCodes, usernamePrefixes : SUBSET Usernames]

ASSUME RoutingAssumption ==
  /\ NoConfig \notin TenantConfig
  /\ Sources \in Nat \ {0}
  /\ \A f \in Files : /\ f.tenants \in Seq(TenantConfig) /\ f.tenants # <<>>
                      /\ f.scTenants \in Seq(SCTenantConfig)

VARIABLES
  source,    \* source[i]: the content of source i, or Broken
  cfg,       \* the shared config.Config
  reload,    \* the reload in progress: next source and what was loaded
  service,   \* tenant.Service
  session,   \* session[c]: Session.TenantConfig, NoConfig when closed
  client     \* client[c]: address and server port of c

vars == <<source, cfg, reload, service, session, client>>

---------------------------------------------------------------------------
(* Loading. *)

Nothing == [ordered |-> <<>>, scTenants |-> <<>>]

(* A later tenant of the same name replaces the earlier one in the map. *)
TenantsOf(ordered) ==
  [n \in {t.tenant : t \in ToSet(ordered)} |->
     ordered[Max({i \in DOMAIN ordered : ordered[i].tenant = n})]]

ConfigOf(loaded) ==
  [tenants |-> TenantsOf(loaded.ordered), ordered |-> loaded.ordered,
   scTenants |-> loaded.scTenants]

(* A source that cannot be read, parsed or validated, or lists no tenant. *)
Broken == [tenants |-> <<>>, scTenants |-> <<>>]

(* Load of one source: all of it, or nothing. *)
Adds(loaded, file) ==
  [ordered |-> loaded.ordered \o file.tenants,
   scTenants |-> loaded.scTenants \o file.scTenants]

---------------------------------------------------------------------------
(* The tenant service. *)

CatchAll(sc) ==
  /\ sc.subnet = {} /\ sc.port = {}
  /\ sc.locationCodes = {} /\ sc.usernamePrefixes = {}

(* Entries that name a tenant that is not defined are skipped. *)
Known(z) == {i \in DOMAIN z.scTenants : z.scTenants[i].tenant \in DOMAIN z.tenants}

DefaultConfig(c) ==
  LET catchAll == {i \in Known(c) : CatchAll(c.scTenants[i])}
      unreferenced == {i \in DOMAIN c.ordered :
                         \A j \in DOMAIN c.scTenants : c.scTenants[j].tenant # c.ordered[i].tenant}
  IN CASE catchAll # {} -> c.tenants[c.scTenants[Min(catchAll)].tenant]
       [] catchAll = {} /\ unreferenced # {} -> c.ordered[Min(unreferenced)]
       [] catchAll = {} /\ unreferenced = {} /\ c.ordered # <<>> -> c.ordered[1]
       [] OTHER -> NoConfig

(* NewService, Reinitialize. *)
ServiceOf(c) ==
  [tenants |-> c.tenants, scTenants |-> c.scTenants, defaultConfig |-> DefaultConfig(c)]

(* The tenant of the first of the entries S, the default when there is none. *)
FirstOr(z, S) ==
  IF S = {} THEN z.defaultConfig ELSE z.tenants[z.scTenants[Min(S)].tenant]

(* The connect resolvers: every subnet rule is asked before any port rule   *)
(* (their priorities are 100 and 90; the sort keeps the order of equals for *)
(* up to twelve of them).  A rule is asked alone, whatever else its entry   *)
(* says.                                                                    *)
ResolveAtConnect(z, cl) ==
  LET bySubnet == {i \in Known(z) : cl.host \in z.scTenants[i].subnet}
      byPort == {i \in Known(z) : cl.port \in z.scTenants[i].port}
  IN FirstOr(z, IF bySubnet # {} THEN bySubnet ELSE byPort)

Accepts(rule, value) == rule = {} \/ value \in rule

(* The first entry all of whose rules match. *)
ResolveComplete(z, cl, user, location) ==
  FirstOr(z, {i \in Known(z) :
                /\ Accepts(z.scTenants[i].port, cl.port)
                /\ Accepts(z.scTenants[i].subnet, cl.host)
                /\ Accepts(z.scTenants[i].usernamePrefixes, user)
                /\ Accepts(z.scTenants[i].locationCodes, location)})

---------------------------------------------------------------------------
(* The reload's idea of a change. *)

Differs(old, new) == old # new /\ old.compared # new.compared

(* Mutant: a tenant that is gone is no change. *)
HasGrown(old, new) ==
  \/ ~(DOMAIN new \subseteq DOMAIN old)
  \/ \E n \in DOMAIN old \cap DOMAIN new : Differs(old[n], new[n])

HasChanged(old, new) ==
  \/ DOMAIN old # DOMAIN new
  \/ \E n \in DOMAIN old \cap DOMAIN new : Differs(old[n], new[n])

Idle == [at |-> 0, loaded |-> Nothing, failed |-> FALSE]
Done == Sources + 1

---------------------------------------------------------------------------
(* Startup fails unless every source loads. *)
Init ==
  /\ source \in [1..Sources -> Files]
  /\ cfg = ConfigOf(FoldLeft(Adds, Nothing, source))
  /\ service = ServiceOf(cfg)
  /\ reload = Idle
  /\ session = [c \in Conns |-> NoConfig]
  /\ client \in [Conns -> [host : Hosts, port : Ports]]

(* An operator edits a source, or it cannot be reached or parsed. *)
SourceChanges(i) ==
  /\ \E f \in Files \cup {Broken} : f # source[i] /\ source' = [source EXCEPT ![i] = f]
  /\ UNCHANGED <<cfg, reload, service, session, client>>

(* The ticker, or TriggerReload. *)
ReloadStarts ==
  /\ reload = Idle
  /\ reload' = [Idle EXCEPT !.at = 1]
  /\ UNCHANGED <<source, cfg, service, session, client>>

(* A source that fails is logged and left out. *)
LoadsNext ==
  /\ reload.at \in 1..Sources
  /\ LET file == source[reload.at] IN
     reload' = [at |-> reload.at + 1, loaded |-> Adds(reload.loaded, file),
                failed |-> reload.failed \/ file = Broken]
  /\ UNCHANGED <<source, cfg, service, session, client>>

Loaded == ConfigOf(reload.loaded)

(* Every source failed, or nothing that is compared has changed: the        *)
(* configuration in force stays.                                            *)
ReloadKeeps ==
  /\ reload.at = Done
  /\ reload.loaded.ordered = <<>> \/ ~HasChanged(cfg.tenants, Loaded.tenants)
  /\ reload' = Idle
  /\ UNCHANGED <<source, cfg, service, session, client>>

(* Mutant: an empty load replaces the tenants. *)
SetsWhateverLoaded ==
  /\ reload.at = Done
  /\ HasChanged(cfg.tenants, Loaded.tenants)
  /\ cfg' = Loaded
  /\ reload' = [reload EXCEPT !.at = Done + 1]
  /\ UNCHANGED <<source, service, session, client>>

SetsTenants ==
  /\ reload.at = Done
  /\ reload.loaded.ordered # <<>> /\ HasChanged(cfg.tenants, Loaded.tenants)
  /\ cfg' = Loaded
  /\ reload' = [reload EXCEPT !.at = Done + 1]
  /\ UNCHANGED <<source, service, session, client>>

(* Mutant: the entries are not taken over. *)
ReinitializesTenantsOnly ==
  /\ reload.at = Done + 1
  /\ service' = [ServiceOf(cfg) EXCEPT !.scTenants = service.scTenants]
  /\ reload' = Idle
  /\ UNCHANGED <<source, cfg, session, client>>

(* onChange: Service.Reinitialize with the shared configuration. *)
Reinitializes ==
  /\ reload.at = Done + 1
  /\ service' = ServiceOf(cfg)
  /\ reload' = Idle
  /\ UNCHANGED <<source, cfg, session, client>>

---------------------------------------------------------------------------
(* Connections. *)

Connects(c) ==
  /\ session[c] = NoConfig
  /\ \E h \in Hosts, p \in Ports : client' = [client EXCEPT ![c] = [host |-> h, port |-> p]]
  /\ session' = [session EXCEPT ![c] = ResolveAtConnect(service, client'[c])]
  /\ UNCHANGED <<source, cfg, reload, service>>

(* Mutant: the settings are replaced when the tenant is the same one. *)
LogsInAnew(c) ==
  /\ session[c] # NoConfig
  /\ \E user \in Usernames, location \in LocationCodes :
       LET new == ResolveComplete(service, client[c], user, location) IN
       session' = [session EXCEPT ![c] =
                     IF new # NoConfig /\ new.tenant = @.tenant THEN new ELSE @]
  /\ UNCHANGED <<source, cfg, reload, service, client>>

(* 93 Login: the session moves only to a tenant of another name. *)
LogsIn(c) ==
  /\ session[c] # NoConfig
  /\ \E user \in Usernames, location \in LocationCodes :
       LET new == ResolveComplete(service, client[c], user, location) IN
       session' = [session EXCEPT ![c] =
                     IF new # NoConfig /\ new.tenant # @.tenant THEN new ELSE @]
  /\ UNCHANGED <<source, cfg, reload, service, client>>

Disconnects(c) ==
  /\ session[c] # NoConfig
  /\ session' = [session EXCEPT ![c] = NoConfig]
  /\ UNCHANGED <<source, cfg, reload, service, client>>

Reloads == ReloadStarts \/ LoadsNext \/ ReloadKeeps \/ SetsTenants \/ Reinitializes

Next ==
  \/ \E i \in 1..Sources : SourceChanges(i)
  \/ Reloads
  \/ \E c \in Conns : Connects(c) \/ LogsIn(c) \/ Disconnects(c)

Spec == Init /\ [][Next]_vars

(* The ticker fires for ever, and a reload ends (its loaders have time      *)
(* limits).                                                                 *)
FairSpec == Spec /\ WF_vars(Reloads)

---------------------------------------------------------------------------
Loading ==
  [ordered : Seq(TenantConfig), scTenants : Seq(SCTenantConfig)]

TypeOK ==
  /\ source \in [1..Sources -> Files \cup {Broken}]
  /\ reload.at \in 0..(Done + 1) /\ reload.loaded \in Loading /\ reload.failed \in BOOLEAN
  /\ [ordered |-> cfg.ordered, scTenants |-> cfg.scTenants] \in Loading
  /\ cfg.tenants \in [DOMAIN cfg.tenants -> TenantConfig] /\ DOMAIN cfg.tenants \subseteq Names
  /\ service.defaultConfig \in TenantConfig \cup {NoConfig}
  /\ session \in [Conns -> TenantConfig \cup {NoConfig}]
  /\ client \in [Conns -> [host : Hosts, port : Ports]]

(* Outside the callback of a reload the service is the one that a restart   *)
(* with the configuration in force would build: nothing of an earlier       *)
(* generation is left in it (service.go:80-130, main.go:118-124).           *)
ServiceFollowsConfig == reload.at = Done + 1 \/ service = ServiceOf(cfg)

(* However the sources fail, there is always a tenant to fall back to, so   *)
(* that no connection is turned away (reload.go:163-166).                   *)
NeverWithoutTenant == service.defaultConfig # NoConfig /\ cfg.ordered # <<>>

(* What a reload compares of a set of tenants. *)
Compared(tenants) == [n \in DOMAIN tenants |-> tenants[n].compared]
InForce == FoldLeft(Adds, Nothing, source)
SourcesRest == <>[][source' = source]_vars

(* Once the sources are left alone, the service comes to serve the tenants  *)
(* they define, in their latest revision, even if a reload read them while  *)
(* they changed.                                                            *)
ReloadConverges ==
  SourcesRest =>
    <>[](InForce.ordered = <<>>
         \/ Compared(service.tenants) = Compared(TenantsOf(InForce.ordered)))

(* A reload does not reach the devices that are connected, and a 93 leaves a *)
(* device the settings it has unless it resolves to a tenant of another     *)
(* name (connection.go:351).  Even so nobody is served by a tenant that was *)
(* taken out of the configuration for longer than until its next 93: once   *)
(* the sources are left alone, a device that goes on logging in comes to    *)
(* stay in tenants that are defined, however many reloads it has outlived.  *)
LoginsLeaveRemovedTenants ==
  SourcesRest =>
    \A c \in Conns :
      WF_vars(LogsIn(c)) =>
        <>[](session[c] = NoConfig \/ session[c].tenant \in DOMAIN service.tenants)

---------------------------------------------------------------------------
(* What the docs say and the code does not do.                              *)

(* config/doc.go:59: "Configuration hot-reload allows updating settings     *)
(* without restarting the server".                                          *)
ReloadApplied ==
  SourcesRest => <>[](InForce.ordered = <<>> \/ cfg = ConfigOf(InForce))

(* config/doc.go:68: "Rollback on validation errors".                       *)
Replaced == cfg' # cfg
RollbackOnErrors == [][Replaced => ~reload.failed]_vars

(* config/doc.go:136: the package validates that "Tenant IDs are unique";   *)
(* the fallback would then be one of the tenants in force.                  *)
DefaultIsInForce == service.defaultConfig \in {service.tenants[n] : n \in DOMAIN service.tenants}

(* README.md:790: "Rules are evaluated in declaration order; the first      *)
(* match wins."                                                             *)
ConnectFirstMatch ==
  \A h \in Hosts, p \in Ports :
    LET cl == [host |-> h, port |-> p]
        matching == {i \in Known(service) :
                       LET sc == service.scTenants[i] IN
                       /\ sc.subnet # {} \/ sc.port # {}
                       /\ Accepts(sc.subnet, h) /\ Accepts(sc.port, p)}
    IN matching # {} => ResolveAtConnect(service, cl) = FirstOr(service, matching)
===========================================================================
