CONSTANTS
  ing1 = ing1
  ing2 = ing2
  rg1 = rg1
  c1 = c1
  c2 = c2
  wild = wild
  h1 = h1
  h2 = h2
  alb = alb
  old = old
  sg1 = sg1
  waf1 = waf1
  waf2 = waf2
  pol1 = pol1
  pol2 = pol2
  quiet = quiet
  None = None
  Ident = {ing1, ing2, rg1}
  RouteGroup = {rg1}
  Name <- MCName
  NameOf <- MCNameOf
  Host = {h1, h2}
  Cert = {c1, c2, wild}
  BestMatch <- MCBestMatch
  StackName = {1, 2}
  Class = {alb, old}
  SupportedClass = {alb}
  SecurityGroup = {sg1}
  ACL = {None, waf1, waf2}
  GlobalACL = waf1
  Policy = {pol1, pol2}
  Alarms = {quiet}
  ClusterLocalDomain = ClusterLocalDomain
  MaxCerts = 2
  CertTTL = 2
SPECIFICATION MCSpec
INVARIANTS
  TypeOK
  PlacedOnce
  OwnershipRespected
  OwnerDeterminate
  SettingsAgree
  CapacityRespected
CHECK_DEADLOCK FALSE
