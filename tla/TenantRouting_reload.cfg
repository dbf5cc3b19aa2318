\* Reloads of two sources racing edits, connections and logins, until the
\* sources are left alone.
SPECIFICATION FairSpec
CONSTANTS
  Conns = {c1}
  Names = {city, county}
  Revisions = {1, 2}
  Hosts = {lan, wan}
  Ports = {main, kiosks}
  LocationCodes = {lobby, desk}
  Usernames = {sip, staff}
  Files <- RichFiles
  Sources = 2
  NoConfig = NoConfig
  city = city
  county = county
  lan = lan
  wan = wan
  main = main
  kiosks = kiosks
  lobby = lobby
  desk = desk
  sip = sip
  staff = staff
INVARIANTS ServiceFollowsConfig NeverWithoutTenant
PROPERTIES ReloadConverges LoginsLeaveRemovedTenants
