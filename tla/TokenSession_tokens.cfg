\* Two devices that share one kiosk user, send its password or a wrong one, and move
\* between two tenants.
SPECIFICATION Spec
CONSTANTS
  Conns = {c1, c2}
  Sids = {s1, s2}
  Tenants = {t1, t2}
  Users = {kiosk}
  Passwords = {p1, p2}
  WrongPasswords = {p2}
  Expiries = {"current"}
  MaxRetries = 1
  NoSid = NoSid
  NoTenant = NoTenant
  NoCred = NoCred
SYMMETRY FullSymmetry
INVARIANTS Exclusive NoForgottenSession PairKnowsItsOrigin LoginOkHolds
PROPERTIES AuthenticationSurvives
