\* One device, one tenant, every FOLIO call answered in the end.  No symmetry:
\* the properties are liveness properties.
SPECIFICATION FairSpec
CONSTANTS
  Conns = {c1}
  Sids = {s1, s2}
  Tenants = {t1}
  Users = {kiosk}
  Passwords = {p1, p2}
  WrongPasswords = {p2}
  Expiries = {"current", "unknown"}
  MaxRetries = 2
  NoSid = NoSid
  NoTenant = NoTenant
  NoCred = NoCred
INVARIANT IInv
PROPERTIES ImplementsServiceAccount ReleasedSessionEnds EveryCallReturns
