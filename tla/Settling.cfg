CONSTANTS
  ing1 = ing1
  ing2 = ing2
  rg1 = rg1
  c1 = c1
  c2 = c2
  h1 = h1
  h2 = h2
  alb = alb
  sg1 = sg1
  waf1 = waf1
  waf2 = waf2
  pol1 = pol1
  quiet = quiet
  loud = loud
  None = None
  Name <- MCName
  NameOf <- MCNameOf
  BestMatch <- MCBestMatch
  Class = {alb}
  SupportedClass = {alb}
  SecurityGroup = {sg1}
  ACL = {None, waf1, waf2}
  GlobalACL = waf1
  Policy = {pol1}
  ClusterLocalDomain = ClusterLocalDomain
  Ident = {ing1, ing2}
  RouteGroup = {}
  Host = {h1}
  Cert = {c1}
  StackName = {1, 2, 3}
  Alarms = {quiet, loud}
  Resources <- MCVisibility
  MaxCerts = 2
  CertTTL = 1
  MinAge = 0
  MaxChanges = 1
  MaxFaults = 1
  FaultKinds = {"api", "crash", "create", "rollback", "delete"}
  Timely = FALSE
SPECIFICATION SettlingSpec
PROPERTIES
  Settles
