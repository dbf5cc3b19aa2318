\* An incomplete 93 moves the device to another tenant, and its token then expires.
SPECIFICATION Spec
CONSTANTS
  Conns = {c1}
  Sids = {s1, s2}
  Tenants = {t1, t2}
  Users = {kiosk}
  Passwords = {p1}
  WrongPasswords = {}
  Expiries = {"current"}
  MaxRetries = 2
  NoSid = NoSid
  NoTenant = NoTenant
  NoCred = NoCred
INVARIANTS DroppedPairIsGone
