------------------------- MODULE MC_TenantRouting -------------------------
(* Instances of TenantRouting for TLC. *)
EXTENDS TenantRouting

T(n, seen, unseen) == [tenant |-> n, compared |-> seen, uncompared |-> unseen]
R(n, subnet, port, location, user) ==
  [tenant |-> n, subnet |-> subnet, port |-> port, locationCodes |-> location,
   usernamePrefixes |-> user]
File(tenants, routes) == [tenants |-> tenants, scTenants |-> routes]

CONSTANTS city, county, lan, wan, main, kiosks, lobby, desk, sip, staff

(* Two tenants; by subnet, by port, by location code with a subnet, by      *)
(* user name, a catch-all, and an entry of a tenant that may be undefined.  *)
RichFiles ==
  {File(<<T(city, 1, 1)>>, <<R(city, {}, {kiosks}, {}, {}), R(county, {lan}, {}, {}, {})>>),
   File(<<T(city, 2, 1), T(county, 1, 1)>>,
        <<R(county, {lan}, {}, {lobby}, {}), R(city, {lan, wan}, {}, {}, {sip})>>),
   File(<<T(county, 1, 1)>>, <<R(county, {}, {kiosks}, {}, {}), R(city, {}, {}, {}, {})>>)}

(* One tenant per source.  The last two differ only in what is not compared.*)
PlainFiles ==
  {File(<<T(city, 1, 1)>>, <<>>), File(<<T(county, 1, 1)>>, <<>>),
   File(<<T(county, 1, 2)>>, <<R(county, {lan}, {}, {}, {})>>)}
===========================================================================
