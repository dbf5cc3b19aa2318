-------------------------- MODULE MC_TokenSession --------------------------
(* Instances of TokenSession for TLC. *)
EXTENDS TokenSession, TLC

(* Keycloak sessions, connections and tenants are interchangeable. *)
FullSymmetry ==
    Permutations(Sids) \cup Permutations(Conns) \cup Permutations(Tenants)
===========================================================================
