------------------------- MODULE ProvisioningProofs -------------------------
(***************************************************************************)
(* Theorems about Provisioning, for all flags, annotations, VPCs, sets of  *)
(* certificates and stacks from earlier releases: its types, and that      *)
(* template, parameters and tags agree with each other, with the rules of  *)
(* the load balancer's type and with what is read back.                    *)
(***************************************************************************)
EXTENDS Provisioning, NetworkProofs

-----------------------------------------------------------------------------
(* Templates *)

(* The kinds of the resources of a template. *)
LEMMA Kinds ==
  ASSUME NEW spec
  PROVE  /\ \A r \in TargetGroups(spec) : r.kind = "TargetGroup"
         /\ \A r \in HTTPResources(spec) : r.kind \in {"Listener", "DenyRule"}
         /\ \A r \in HTTPSListener(spec) : r.kind \in {"Listener", "DenyRule"}
         /\ ListenerCertificate(spec).kind = "ListenerCertificate"
         /\ LoadBalancerResource(spec).kind = "LoadBalancer"
         /\ \A r \in WAFAssociation(spec) : r.kind = "WAFAssociation"
         /\ \A r \in CloudWatchAlarms(spec) : r.kind = "Alarm"
<1>1. \A r \in TargetGroups(spec) : r.kind = "TargetGroup"
  BY DEF TargetGroups, TargetGroup
<1>2. \A r \in HTTPResources(spec) : r.kind \in {"Listener", "DenyRule"}
  BY DEF HTTPResources, Listener, DenyRule
<1>3. \A r \in HTTPSListener(spec) : r.kind \in {"Listener", "DenyRule"}
  BY DEF HTTPSListener, Listener, DenyRule
<1>4. \A r \in WAFAssociation(spec) : r.kind = "WAFAssociation"
  BY DEF WAFAssociation
<1>5. \A r \in CloudWatchAlarms(spec) : r.kind = "Alarm"
  BY DEF CloudWatchAlarms
<1>6. QED
  BY <1>1, <1>2, <1>3, <1>4, <1>5 DEF ListenerCertificate, LoadBalancerResource

\* The resources of a template, by kind.
LEMMA ResourcesOfKind ==
  ASSUME NEW spec
  PROVE  LET t == generateTemplate(spec)
         IN  /\ Resources(t, "TargetGroup") = TargetGroups(spec)
             /\ Resources(t, "LoadBalancer") = {LoadBalancerResource(spec)}
             /\ Resources(t, "WAFAssociation") = WAFAssociation(spec)
             /\ Resources(t, "ListenerCertificate") =
                  {c \in {ListenerCertificate(spec)} : DOMAIN spec.certs # {}}
             /\ \A r \in Resources(t, "Listener") :
                  r \in HTTPResources(spec) \/ r \in HTTPSListener(spec)
<1> DEFINE R == generateTemplate(spec).resources
<1>1. R = TargetGroups(spec) \cup HTTPResources(spec) \cup HTTPSResources(spec)
            \cup {LoadBalancerResource(spec)} \cup WAFAssociation(spec)
            \cup CloudWatchAlarms(spec)
  BY DEF generateTemplate
<1>2. HTTPSResources(spec) = IF DOMAIN spec.certs = {} THEN {}
        ELSE HTTPSListener(spec) \cup {ListenerCertificate(spec)}
  BY DEF HTTPSResources
<1> HIDE DEF R
<1>3. {r \in R : r.kind = "TargetGroup"} = TargetGroups(spec)
  BY <1>1, <1>2, Kinds
<1>4. {r \in R : r.kind = "LoadBalancer"} = {LoadBalancerResource(spec)}
  BY <1>1, <1>2, Kinds
<1>5. {r \in R : r.kind = "WAFAssociation"} = WAFAssociation(spec)
  BY <1>1, <1>2, Kinds
<1>6. {r \in R : r.kind = "ListenerCertificate"}
        = {c \in {ListenerCertificate(spec)} : DOMAIN spec.certs # {}}
  BY <1>1, <1>2, Kinds
<1>7. \A r \in {x \in R : x.kind = "Listener"} :
        r \in HTTPResources(spec) \/ r \in HTTPSListener(spec)
  BY <1>1, <1>2, Kinds
<1>8. QED
  BY <1>3, <1>4, <1>5, <1>6, <1>7 DEF Resources, R

\* Every target group of a template is among its outputs.
LEMMA OutputsOf ==
  ASSUME NEW spec
  PROVE  targetGroupARNs(Outputs(spec)) =
           {"TG"} \cup {g \in {"TGHTTP"} : ExtraTargetGroup(spec)}
<1>1. DOMAIN Outputs(spec) = {"LoadBalancerARN", "LoadBalancerDNSName", "TargetGroupARN"}
        \cup {o \in {"HTTPTargetGroupARN"} : ExtraTargetGroup(spec)}
  BY DEF Outputs, Merge
<1>2. Outputs(spec)["TargetGroupARN"] = "TG"
  BY DEF Outputs, Merge
<1>3. ExtraTargetGroup(spec) => Outputs(spec)["HTTPTargetGroupARN"] = "TGHTTP"
  BY DEF Outputs, Merge
<1>4. QED
  BY <1>1, <1>2, <1>3 DEF targetGroupARNs

\* The logical names in a template.
LEMMA NamesOf ==
  ASSUME NEW spec
  PROVE  LET names == Names(generateTemplate(spec))
         IN  /\ "LB" \in names /\ "TG" \in names
             /\ ExtraTargetGroup(spec) => "TGHTTP" \in names
             /\ \A r \in generateTemplate(spec).resources : r.name \in names
<1> DEFINE t == generateTemplate(spec)
<1>1. /\ TargetGroups(spec) \subseteq t.resources
      /\ LoadBalancerResource(spec) \in t.resources
  BY DEF generateTemplate
<1>2. LoadBalancerResource(spec).name = "LB"
  BY DEF LoadBalancerResource
<1>3. /\ \E g \in TargetGroups(spec) : g.name = "TG"
      /\ ExtraTargetGroup(spec) => \E g \in TargetGroups(spec) : g.name = "TGHTTP"
  <2>1. \A name, p : TargetGroup(spec, name, p).name = name
    BY DEF TargetGroup
  <2>2. QED
    BY <2>1 DEF TargetGroups
<1> HIDE DEF t
<1>4. QED
  BY <1>1, <1>2, <1>3 DEF Names, t

(* What the listeners are, and what they refer to. *)
LEMMA HTTPListeners ==
  ASSUME NEW spec, spec.type \in Types, NEW r \in HTTPResources(spec)
  PROVE  \/ /\ r.kind = "Listener" /\ r.name = "HTTPListener"
            /\ r.target \in {None, HTTPTarget(spec)}
            /\ r.refs \subseteq {"LB", HTTPTarget(spec)}
            /\ spec.type = "application" /\ r.target # None /\ spec.denyInternal
                 => \E d \in HTTPResources(spec) :
                      d.kind = "DenyRule" /\ d.listener = "HTTPListener"
         \/ /\ r.kind = "DenyRule" /\ r.refs = {"HTTPListener"}
            /\ \E l \in HTTPResources(spec) : l.name = "HTTPListener"
<1>1. ~spec.httpDisabled
  BY DEF HTTPResources
<1> DEFINE plain == Listener("HTTPListener", 80, "HTTP", HTTPTarget(spec))
           deny == DenyRule("HTTPRuleBlockInternalTraffic", "HTTPListener")
           redirect == Listener("HTTPListener", 80, "HTTP", None)
           tcp == Listener("HTTPListener", 80, "TCP", HTTPTarget(spec))
<1>2. CASE spec.type = "application" /\ spec.httpRedirect
  <2>1. HTTPResources(spec) = {redirect}
    BY <1>1, <1>2 DEF HTTPResources
  <2>2. QED
    BY <2>1 DEF Listener
<1>3. CASE spec.type = "application" /\ ~spec.httpRedirect
  <2>1. HTTPResources(spec) = {plain} \cup {d \in {deny} : spec.denyInternal}
    BY <1>1, <1>3 DEF HTTPResources
  <2>2. plain.kind = "Listener" /\ plain.name = "HTTPListener"
        /\ plain.target = HTTPTarget(spec) /\ plain.refs \subseteq {"LB", HTTPTarget(spec)}
    BY DEF Listener
  <2>3. deny.kind = "DenyRule" /\ deny.listener = "HTTPListener" /\ deny.refs = {"HTTPListener"}
    BY DEF DenyRule
  <2> HIDE DEF plain, deny
  <2>4. QED
    BY <2>1, <2>2, <2>3
<1>4. CASE spec.type = "network"
  <2>1. HTTPResources(spec) = {tcp}
    BY <1>1, <1>4 DEF HTTPResources
  <2>2. QED
    BY <1>4, <2>1 DEF Listener
<1>5. QED
  BY <1>2, <1>3, <1>4 DEF Types

\* The listener for HTTPS and its rule.
LEMMA HTTPSListeners ==
  ASSUME NEW spec, NEW r \in HTTPSListener(spec)
  PROVE  \/ /\ r.kind = "Listener" /\ r.name = "HTTPSListener" /\ r.target = "TG"
            /\ r.refs \subseteq {"LB", "TG", "ListenerSslPolicyParameter"}
            /\ spec.type = "application" /\ spec.denyInternal
                 => \E d \in HTTPSListener(spec) :
                      d.kind = "DenyRule" /\ d.listener = "HTTPSListener"
         \/ /\ r.kind = "DenyRule" /\ r.refs = {"HTTPSListener"}
            /\ spec.type = "application"
<1> DEFINE listeners ==
             {Listener("HTTPSListener", 443, IF type = "application" THEN "HTTPS" ELSE "TLS",
                       "TG") : type \in {spec.type} \cap Types}
           deny == DenyRule("HTTPSRuleBlockInternalTraffic", "HTTPSListener")
<1>1. HTTPSListener(spec) = listeners
        \cup {d \in {deny} : spec.type = "application" /\ spec.denyInternal}
  BY DEF HTTPSListener
<1>2. \A l \in listeners :
        /\ l.kind = "Listener" /\ l.name = "HTTPSListener" /\ l.target = "TG"
        /\ l.refs \subseteq {"LB", "TG", "ListenerSslPolicyParameter"}
  BY DEF Listener
<1>3. deny.kind = "DenyRule" /\ deny.listener = "HTTPSListener" /\ deny.refs = {"HTTPSListener"}
  BY DEF DenyRule
<1> HIDE DEF listeners, deny
<1>4. QED
  BY <1>1, <1>2, <1>3

\* Load balancers with a type have a listener for HTTPS.
LEMMA HTTPSListenerNamed ==
  ASSUME NEW spec, spec.type \in Types
  PROVE  \E l \in HTTPSListener(spec) : l.name = "HTTPSListener"
<1>1. \A protocol : Listener("HTTPSListener", 443, protocol, "TG").name = "HTTPSListener"
  BY DEF Listener
<1>2. QED
  BY <1>1 DEF HTTPSListener

(* Everything that a template refers to is there. *)
LEMMA ReferencesResolve ==
  ASSUME NEW spec, spec.type \in Types, NEW r \in generateTemplate(spec).resources
  PROVE  r.refs \subseteq Names(generateTemplate(spec)) \cup Declared(spec)
                          \cup {"AWS::StackName"}
<1> DEFINE t == generateTemplate(spec)
           All == Names(t) \cup Declared(spec) \cup {"AWS::StackName"}
<1>1. /\ DOMAIN Defaults \subseteq All /\ "AWS::StackName" \in All
      /\ {"LoadBalancerSecurityGroupParameter", "LoadBalancerSubnetsParameter",
          "TargetGroupVPCIDParameter"} \subseteq All
      /\ spec.waf # None => WAFParameter \in All
      /\ ExtraTargetGroup(spec) => HTTPPort \in All
  BY DEF Declared
<1>2. /\ {"LB", "TG"} \subseteq All
      /\ ExtraTargetGroup(spec) => "TGHTTP" \in All
      /\ \A x \in t.resources : x.name \in All
  BY NamesOf
<1>3. {"TargetGroupHealthCheckIntervalParameter", "TargetGroupHealthCheckPathParameter",
       "TargetGroupHealthCheckPortParameter", "TargetGroupHealthCheckTimeoutParameter",
       "TargetGroupTargetPortParameter", "ListenerSslPolicyParameter", "IpAddressType",
       "LoadBalancerSchemeParameter", "Type"} \subseteq All
  BY <1>1 DEF Defaults
<1>4. HTTPTarget(spec) \in All
  BY <1>2 DEF HTTPTarget
<1> HIDE DEF All
<1>5. /\ TargetGroups(spec) \subseteq t.resources /\ HTTPResources(spec) \subseteq t.resources
      /\ WAFAssociation(spec) \subseteq t.resources
      /\ r \in TargetGroups(spec) \cup HTTPResources(spec) \cup HTTPSResources(spec)
               \cup {LoadBalancerResource(spec)} \cup WAFAssociation(spec)
               \cup CloudWatchAlarms(spec)
  BY DEF generateTemplate
<1>6. CASE r \in TargetGroups(spec)
  <2>1. \A name, p : p \in All => TargetGroup(spec, name, p).refs \subseteq All
    BY <1>1, <1>3 DEF TargetGroup
  <2>2. QED
    BY <1>1, <1>3, <1>6, <2>1 DEF TargetGroups, All
<1>7. CASE r \in HTTPResources(spec)
  BY <1>2, <1>4, <1>5, <1>7, HTTPListeners DEF All
<1>8. CASE r \in HTTPSResources(spec)
  <2>1. /\ HTTPSListener(spec) \subseteq t.resources
        /\ r \in HTTPSListener(spec) \cup {ListenerCertificate(spec)}
    BY <1>8 DEF HTTPSResources, generateTemplate
  <2>2. "HTTPSListener" \in All
    BY <1>2, <2>1, HTTPSListenerNamed
  <2>3. ListenerCertificate(spec).refs = {"HTTPSListener"}
    BY DEF ListenerCertificate
  <2>4. QED
    BY <1>2, <1>3, <2>1, <2>2, <2>3, HTTPSListeners DEF All
<1>9. CASE r = LoadBalancerResource(spec)
  BY <1>1, <1>3, <1>9 DEF LoadBalancerResource, All
<1>10. CASE r \in WAFAssociation(spec)
  <2>1. spec.waf # None /\ r.refs = {"LB", WAFParameter}
    BY <1>10 DEF WAFAssociation
  <2>2. QED
    BY <1>1, <1>2, <2>1 DEF All
<1>11. CASE r \in CloudWatchAlarms(spec)
  <2>1. \A a : AlarmReferences(a) \subseteq {"AWS::StackName", "LB", "TG"}
    BY DEF AlarmReferences
  <2>2. \E a : r.refs = AlarmReferences(a)
    BY <1>11 DEF CloudWatchAlarms
  <2>3. QED
    BY <1>1, <1>2, <2>1, <2>2 DEF All
<1>12. QED
  BY <1>5, <1>6, <1>7, <1>8, <1>9, <1>10, <1>11

(* Every declared parameter without a default is supplied, and no other. *)
LEMMA ParametersMatch ==
  ASSUME NEW spec
  PROVE  /\ DOMAIN Supplied(spec) \subseteq Declared(spec)
         /\ Declared(spec) \ DOMAIN Defaults \subseteq DOMAIN Supplied(spec)
<1>1. DOMAIN Optional(spec) = {p \in {WAFParameter} : spec.waf # None}
                              \cup {p \in {HTTPPort} : ExtraTargetGroup(spec)}
  BY DEF Optional, Merge
<1>2. DOMAIN Supplied(spec) = DOMAIN Parameters(spec) \cup DOMAIN Optional(spec)
  BY DEF Supplied, Merge
<1>3. /\ DOMAIN Parameters(spec) \subseteq Declared(spec)
      /\ {"LoadBalancerSecurityGroupParameter", "LoadBalancerSubnetsParameter",
          "TargetGroupVPCIDParameter"} \subseteq DOMAIN Parameters(spec)
  BY DEF Parameters, Declared, Defaults
<1>4. QED
  BY <1>1, <1>2, <1>3 DEF Declared

\* Every output is a resource of the template.
LEMMA OutputsResolve ==
  ASSUME NEW spec, NEW o \in DOMAIN Outputs(spec)
  PROVE  Outputs(spec)[o] \in Names(generateTemplate(spec))
<1>1. Outputs(spec)[o] \in {"LB", "TG"} \cup {n \in {"TGHTTP"} : ExtraTargetGroup(spec)}
  BY DEF Outputs, Merge
<1>2. QED
  BY <1>1, NamesOf

\* CloudFormation can resolve the whole template.
LEMMA TemplateResolves ==
  ASSUME NEW spec, spec.type \in Types
  PROVE  Resolves(generateTemplate(spec), Supplied(spec))
<1>1. /\ generateTemplate(spec).declared = Declared(spec)
      /\ generateTemplate(spec).outputs = Outputs(spec)
  BY DEF generateTemplate
<1>2. QED
  BY <1>1, ReferencesResolve, ParametersMatch, OutputsResolve DEF Resolves

(* A stack without a type has certificates but no HTTPS listener. *)
LEMMA UntypedRefused ==
  ASSUME NEW spec, spec.type = None, DOMAIN spec.certs # {}, NEW params
  PROVE  ~Resolves(generateTemplate(spec), params)
<1> DEFINE t == generateTemplate(spec)
<1>1. None \notin Types
  BY SettingsAssumption
<1>2. HTTPSListener(spec) = {} /\ HTTPResources(spec) = {} /\ WAFAssociation(spec) = {}
  <2>1. HTTPSListener(spec) = {}
    BY <1>1 DEF HTTPSListener, Types
  <2>2. HTTPResources(spec) = {}
    BY <1>1 DEF HTTPResources, Types
  <2>3. WAFAssociation(spec) = {}
    BY <1>1 DEF WAFAssociation, Types
  <2>4. QED
    BY <2>1, <2>2, <2>3
<1>3. t.resources = TargetGroups(spec) \cup {ListenerCertificate(spec), LoadBalancerResource(spec)}
                      \cup CloudWatchAlarms(spec)
  BY <1>2 DEF generateTemplate, HTTPSResources
<1>4. \A r \in TargetGroups(spec) : r.name # "HTTPSListener"
  <2>1. \A name, p : TargetGroup(spec, name, p).name = name
    BY DEF TargetGroup
  <2>2. QED
    BY <2>1 DEF TargetGroups
<1>5. \A r \in CloudWatchAlarms(spec) : r.name # "HTTPSListener"
  BY DEF CloudWatchAlarms
<1>6. /\ ListenerCertificate(spec).name # "HTTPSListener"
      /\ ListenerCertificate(spec).refs = {"HTTPSListener"}
      /\ LoadBalancerResource(spec).name # "HTTPSListener"
  BY DEF ListenerCertificate, LoadBalancerResource
<1>7. t.declared = Declared(spec) /\ "HTTPSListener" \notin Declared(spec)
  BY DEF generateTemplate, Declared, Defaults, WAFParameter, HTTPPort
<1> HIDE DEF t
<1>8. "HTTPSListener" \notin Names(t)
  BY <1>3, <1>4, <1>5, <1>6 DEF Names
<1>9. ListenerCertificate(spec) \in t.resources
  BY <1>3
<1>10. QED
  BY <1>6, <1>7, <1>8, <1>9 DEF Resolves, t

\* What is made for application load balancers suits them.
LEMMA ApplicationFits ==
  ASSUME NEW spec, spec.type = "application", spec.idle \in 1 .. 4000
  PROVE  FitsApplication(generateTemplate(spec))
<1>1. /\ LoadBalancerResource(spec).attributes = {"idle_timeout", "http2", "access_logs"}
      /\ LoadBalancerResource(spec).idle = spec.idle
  BY DEF LoadBalancerResource, Attributes
<1>2. \A name, p : TargetGroup(spec, name, p).protocol \in {"HTTP", "HTTPS"}
  BY DEF TargetGroup
<1>3. \A g \in TargetGroups(spec) : g.protocol \in {"HTTP", "HTTPS"}
  BY <1>2 DEF TargetGroups
<1>4. QED
  BY <1>1, <1>3, ResourcesOfKind DEF FitsApplication

\* What is made for network load balancers suits them.
LEMMA NetworkFits ==
  ASSUME NEW spec, spec.type = "network"
  PROVE  FitsNetwork(generateTemplate(spec))
<1>1. /\ LoadBalancerResource(spec).attributes
           = {"cross_zone", "client_routing_policy", "access_logs"}
      /\ "LoadBalancerSecurityGroupParameter" \notin LoadBalancerResource(spec).refs
  BY DEF LoadBalancerResource, Attributes
<1>2. \A name : \A p \in {"TargetGroupTargetPortParameter", HTTPPort} :
        LET g == TargetGroup(spec, name, p)
        IN  /\ g.protocol = "TCP" /\ g.healthy = g.unhealthy
            /\ "TargetGroupHealthCheckTimeoutParameter" \notin g.refs
  BY DEF TargetGroup, HTTPPort
<1>3. \A g \in TargetGroups(spec) :
        /\ g.protocol = "TCP" /\ g.healthy = g.unhealthy
        /\ "TargetGroupHealthCheckTimeoutParameter" \notin g.refs
  BY <1>2 DEF TargetGroups
<1>4. WAFAssociation(spec) = {}
  BY DEF WAFAssociation
<1>5. QED
  BY <1>1, <1>3, <1>4, ResourcesOfKind DEF FitsNetwork

\* Optional parameters take no place of another.
LEMMA SuppliedValues ==
  ASSUME NEW spec
  PROVE  /\ \A p \in DOMAIN Parameters(spec) :
              p \in DOMAIN Supplied(spec) /\ Supplied(spec)[p] = Parameters(spec)[p]
         /\ spec.waf # None => /\ WAFParameter \in DOMAIN Supplied(spec)
                               /\ Supplied(spec)[WAFParameter] = spec.waf
         /\ spec.waf = None => WAFParameter \notin DOMAIN Supplied(spec)
<1>1. WAFParameter \notin DOMAIN Parameters(spec) /\ WAFParameter # HTTPPort
  BY DEF Parameters, WAFParameter, HTTPPort
<1>2. /\ \A p \in DOMAIN Parameters(spec) :
           p \in DOMAIN Supplied(spec) /\ Supplied(spec)[p] = Parameters(spec)[p]
      /\ DOMAIN Supplied(spec) = DOMAIN Parameters(spec) \cup DOMAIN Optional(spec)
      /\ \A p \in DOMAIN Optional(spec) \ DOMAIN Parameters(spec) :
           Supplied(spec)[p] = Optional(spec)[p]
  BY DEF Supplied, Merge
<1>3. /\ DOMAIN Optional(spec) = {p \in {WAFParameter} : spec.waf # None}
                                 \cup {p \in {HTTPPort} : ExtraTargetGroup(spec)}
      /\ spec.waf # None => Optional(spec)[WAFParameter] = spec.waf
  BY DEF Optional, Merge
<1>4. QED
  BY <1>1, <1>2, <1>3

(* CloudFormation and Elastic Load Balancing accept the request. *)
LEMMA RequestAccepted ==
  ASSUME NEW spec, spec.type \in Types, spec.ip \in {"ipv4", "dualstack"},
         spec.subnets # {}, spec.type = "application" => spec.idle \in 1 .. 4000,
         NEW tags, NEW protected, NEW minutes, minutes >= 1,
         NEW r, r = [template |-> generateTemplate(spec), params |-> Supplied(spec),
                     tags |-> tags, minutes |-> minutes, protected |-> protected]
  PROVE  Acceptable(r)
<1>1. /\ r.params.IpAddressType = spec.ip
      /\ r.params.LoadBalancerSubnetsParameter = spec.subnets
      /\ r.params.Type = spec.type
  <2>1. /\ {"IpAddressType", "LoadBalancerSubnetsParameter", "Type"} \subseteq
              DOMAIN Parameters(spec)
        /\ Parameters(spec)["IpAddressType"] = spec.ip
        /\ Parameters(spec)["LoadBalancerSubnetsParameter"] = spec.subnets
        /\ Parameters(spec)["Type"] = spec.type
    BY DEF Parameters
  <2>2. r.params = Supplied(spec)
    OBVIOUS
  <2>3. QED
    BY <2>1, <2>2, SuppliedValues
<1>2. r.template = generateTemplate(spec) /\ Resolves(r.template, r.params)
  BY TemplateResolves
<1>3. spec.type = "network" => FitsNetwork(generateTemplate(spec))
  BY NetworkFits
<1>4. spec.type # "network" => FitsApplication(generateTemplate(spec))
  BY ApplicationFits DEF Types
<1>5. QED
  BY <1>1, <1>2, <1>3, <1>4 DEF Acceptable

(* Each listener that forwards has its rule. *)
LEMMA ListenersDenied ==
  ASSUME NEW spec, spec.type = "application", spec.denyInternal,
         NEW l \in Resources(generateTemplate(spec), "Listener"), l.target # None
  PROVE  \E r \in Resources(generateTemplate(spec), "DenyRule") : r.listener = l.name
<1> DEFINE t == generateTemplate(spec)
<1>1. /\ HTTPResources(spec) \subseteq t.resources
      /\ DOMAIN spec.certs # {} => HTTPSListener(spec) \subseteq t.resources
      /\ l \in t.resources /\ l.kind = "Listener"
  BY DEF generateTemplate, HTTPSResources, Resources
<1>2. CASE l \in HTTPResources(spec)
  BY <1>1, <1>2, HTTPListeners DEF Types, Resources
<1>3. CASE l \in HTTPSListener(spec) /\ DOMAIN spec.certs # {}
  BY <1>1, <1>3, HTTPSListeners DEF Resources
<1>4. l \in HTTPResources(spec) \/ (l \in HTTPSListener(spec) /\ DOMAIN spec.certs # {})
  BY <1>1, Kinds DEF generateTemplate, HTTPSResources
<1>5. QED
  BY <1>2, <1>3, <1>4

(* Listeners forward to target groups that are outputs of the stack. *)
LEMMA TargetsKnown ==
  ASSUME NEW spec, spec.type \in Types
  PROVE  Targets(generateTemplate(spec)) \subseteq targetGroupARNs(generateTemplate(spec).outputs)
<1>1. HTTPTarget(spec) \in {"TG"} \cup {g \in {"TGHTTP"} : ExtraTargetGroup(spec)}
  BY DEF HTTPTarget
<1>2. \A l \in Resources(generateTemplate(spec), "Listener") :
        l.target \in {None, "TG", HTTPTarget(spec)}
  <2> SUFFICES ASSUME NEW l \in Resources(generateTemplate(spec), "Listener")
               PROVE  l.target \in {None, "TG", HTTPTarget(spec)}
    OBVIOUS
  <2>1. l.kind = "Listener"
    BY DEF Resources
  <2>2. QED
    BY <2>1, ResourcesOfKind, HTTPListeners, HTTPSListeners
<1>3. generateTemplate(spec).outputs = Outputs(spec)
  BY DEF generateTemplate
<1>4. QED
  BY <1>1, <1>2, <1>3, OutputsOf DEF Targets

-----------------------------------------------------------------------------
(* Reading back *)

LEMMA ParametersReadBack ==
  ASSUME NEW spec, spec.http2 \in BOOLEAN,
         NEW st, st.params = Merge(Supplied(spec), Defaults)
  PROVE  LET m == mapToManagedStack(st)
         IN  /\ m.scheme = spec.scheme /\ m.sg = spec.sg /\ m.ssl = spec.ssl
             /\ m.ip = spec.ip /\ m.type = spec.type /\ m.waf = spec.waf
             /\ m.http2 = spec.http2
<1>1. \A d : \A p \in DOMAIN Parameters(spec) : valueOr(st.params, p, d) = Parameters(spec)[p]
  BY SuppliedValues DEF Merge, valueOr
<1>2. valueOr(st.params, WAFParameter, None) = spec.waf
  <2>1. WAFParameter \notin DOMAIN Defaults
    BY DEF WAFParameter, Defaults
  <2>2. QED
    BY <2>1, SuppliedValues DEF Merge, valueOr
<1>3. {"LoadBalancerSchemeParameter", "LoadBalancerSecurityGroupParameter",
       "ListenerSslPolicyParameter", "IpAddressType", "Type", "HTTP2"}
        \subseteq DOMAIN Parameters(spec)
  BY DEF Parameters
<1>4. /\ Parameters(spec)["LoadBalancerSchemeParameter"] = spec.scheme
      /\ Parameters(spec)["LoadBalancerSecurityGroupParameter"] = spec.sg
      /\ Parameters(spec)["ListenerSslPolicyParameter"] = spec.ssl
      /\ Parameters(spec)["IpAddressType"] = spec.ip
      /\ Parameters(spec)["Type"] = spec.type
      /\ Parameters(spec)["HTTP2"] = IF spec.http2 THEN "true" ELSE "false"
  BY DEF Parameters
<1>5. (valueOr(st.params, "HTTP2", "true") # "false") = spec.http2
  BY <1>1, <1>3, <1>4
<1>6. QED
  BY <1>1, <1>2, <1>3, <1>4, <1>5 DEF mapToManagedStack, TypeOf

-----------------------------------------------------------------------------
(* Tags *)

LEMMA KeyFacts ==
  /\ \A n : key(n)[1] = n
  /\ \A c : <<"ingress:certificate-arn/", c>>[1] = "ingress:certificate-arn/"
  /\ \A c : <<"ingress:certificate-arn/", c>>[2] = c
BY DEF key

\* What the tags of a stack are, by the sort of their names.
LEMMA TagsOf ==
  ASSUME NEW spec, \A k \in DOMAIN spec.tags : k = key(k[1]) /\ k[1] \notin StackTags
  PROVE  /\ \A k \in DOMAIN OwnTags :
              k \in DOMAIN Tags(spec) /\ Tags(spec)[k] = OwnTags[k]
         /\ {k \in DOMAIN Tags(spec) : k[1] = "ingress:certificate-arn/"}
              = DOMAIN CertificateTags(spec)
         /\ \A k \in DOMAIN CertificateTags(spec) : Tags(spec)[k] = CertificateTags(spec)[k]
         /\ {k \in DOMAIN Tags(spec) : k[1] = "ingress:certificate-arn"} = {}
         /\ valueOr(Tags(spec), key("ingress:owner"), None) = spec.owner
         /\ valueOr(Tags(spec), key("cloudwatch:alarm-config-hash"), <<>>) = spec.alarms
<1> DEFINE user == mergeTags(spec.tags, OwnTags)
           certs == CertificateTags(spec)
           more == OptionalTags(spec)
           tags == Tags(spec)
<1>1. /\ DOMAIN OwnTags = {key("kubernetes:application"), key("kubernetes.io/cluster/")}
      /\ DOMAIN certs = {<<"ingress:certificate-arn/", c>> : c \in DOMAIN spec.certs}
      /\ DOMAIN more = {k \in {key("ingress:owner")} : spec.owner # None}
                       \cup {k \in {key("cloudwatch:alarm-config-hash")} : spec.alarms # <<>>}
  BY DEF OwnTags, CertificateTags, OptionalTags, Merge
<1>2. /\ DOMAIN user = DOMAIN OwnTags \cup DOMAIN spec.tags
      /\ \A k \in DOMAIN OwnTags : user[k] = OwnTags[k]
  BY DEF mergeTags, Merge
<1>3. /\ DOMAIN tags = DOMAIN user \cup DOMAIN certs \cup DOMAIN more
      /\ \A k \in DOMAIN user : tags[k] = user[k]
      /\ \A k \in DOMAIN certs \ DOMAIN user : tags[k] = certs[k]
      /\ \A k \in DOMAIN more \ (DOMAIN user \cup DOMAIN certs) : tags[k] = more[k]
  BY DEF Tags, Merge
<1>4. /\ \A k \in DOMAIN user : k[1] \notin StackTags
      /\ \A k \in DOMAIN certs : k[1] = "ingress:certificate-arn/"
      /\ \A k \in DOMAIN more : k[1] \in {"ingress:owner", "cloudwatch:alarm-config-hash"}
  BY <1>1, <1>2, KeyFacts DEF StackTags
<1>5. key("ingress:owner") # key("cloudwatch:alarm-config-hash")
  BY KeyFacts
<1>6. /\ spec.owner # None => more[key("ingress:owner")] = spec.owner
      /\ spec.alarms # <<>> => more[key("cloudwatch:alarm-config-hash")] = spec.alarms
  BY <1>5 DEF OptionalTags, Merge
<1> HIDE DEF user, certs, more, tags
<1>7. \A k \in DOMAIN OwnTags : k \in DOMAIN tags /\ tags[k] = OwnTags[k]
  BY <1>2, <1>3
<1>8. {k \in DOMAIN tags : k[1] = "ingress:certificate-arn/"} = DOMAIN certs
  BY <1>3, <1>4 DEF StackTags
<1>9. {k \in DOMAIN tags : k[1] = "ingress:certificate-arn"} = {}
  BY <1>3, <1>4 DEF StackTags
<1>10. \A k \in DOMAIN certs : tags[k] = certs[k]
  BY <1>3, <1>4 DEF StackTags
<1>11. valueOr(tags, key("ingress:owner"), None) = spec.owner
  <2>1. /\ key("ingress:owner") \notin DOMAIN user \cup DOMAIN certs
        /\ key("ingress:owner") \in DOMAIN more <=> spec.owner # None
    BY <1>1, <1>4, <1>5, KeyFacts DEF StackTags
  <2>2. QED
    BY <1>3, <1>6, <2>1 DEF valueOr
<1>12. valueOr(tags, key("cloudwatch:alarm-config-hash"), <<>>) = spec.alarms
  <2>1. /\ key("cloudwatch:alarm-config-hash") \notin DOMAIN user \cup DOMAIN certs
        /\ key("cloudwatch:alarm-config-hash") \in DOMAIN more <=> spec.alarms # <<>>
    BY <1>1, <1>4, <1>5, KeyFacts DEF StackTags
  <2>2. QED
    BY <1>3, <1>6, <2>1 DEF valueOr
<1>13. QED
  BY <1>7, <1>8, <1>9, <1>10, <1>11, <1>12 DEF certs, tags

\* The tags of a stack are those of one of the controller's.
LEMMA TagsManaged ==
  ASSUME NEW spec, \A k \in DOMAIN spec.tags : k = key(k[1]) /\ k[1] \notin StackTags
  PROVE  isManagedStack(Tags(spec))
<1>1. key("kubernetes:application") # key("kubernetes.io/cluster/")
  BY KeyFacts
<1>2. /\ {key("kubernetes:application"), key("kubernetes.io/cluster/")} \subseteq DOMAIN OwnTags
      /\ OwnTags[key("kubernetes:application")] = "controller"
      /\ OwnTags[key("kubernetes.io/cluster/")] = "owned"
  BY <1>1 DEF OwnTags
<1>3. QED
  BY <1>2, TagsOf DEF isManagedStack, valueOr

\* The certificates of a stack are read back from its tags.
LEMMA CertificatesReadBack ==
  ASSUME NEW spec, \A k \in DOMAIN spec.tags : k = key(k[1]) /\ k[1] \notin StackTags
  PROVE  CertificateARNs(Tags(spec)) = [c \in DOMAIN spec.certs |-> FormatRFC3339(spec.certs[c])]
<1> DEFINE tags == Tags(spec)
           listed == {k[2] : k \in {x \in DOMAIN tags : x[1] = "ingress:certificate-arn/"}}
           legacy == {tags[k] : k \in {x \in DOMAIN tags : x[1] = "ingress:certificate-arn"}}
<1>1. DOMAIN CertificateTags(spec) = {<<"ingress:certificate-arn/", c>> : c \in DOMAIN spec.certs}
  BY DEF CertificateTags
<1>2. legacy = {}
  BY TagsOf
<1>3. listed = DOMAIN spec.certs
  <2>1. listed = {k[2] : k \in DOMAIN CertificateTags(spec)}
    BY TagsOf
  <2>2. \A k \in DOMAIN CertificateTags(spec) : k[2] \in DOMAIN spec.certs
    BY <1>1, KeyFacts
  <2>3. \A c \in DOMAIN spec.certs : \E k \in DOMAIN CertificateTags(spec) : k[2] = c
    BY <1>1, KeyFacts
  <2> HIDE DEF listed
  <2>4. QED
    BY <2>1, <2>2, <2>3
<1>4. \A c \in DOMAIN spec.certs :
        /\ <<"ingress:certificate-arn/", c>> \in DOMAIN tags
        /\ tags[<<"ingress:certificate-arn/", c>>] = FormatRFC3339(spec.certs[c])
  <2> SUFFICES ASSUME NEW c \in DOMAIN spec.certs
               PROVE  /\ <<"ingress:certificate-arn/", c>> \in DOMAIN tags
                      /\ tags[<<"ingress:certificate-arn/", c>>] = FormatRFC3339(spec.certs[c])
    OBVIOUS
  <2>1. <<"ingress:certificate-arn/", c>> \in DOMAIN CertificateTags(spec)
    BY <1>1
  <2>2. CertificateTags(spec)[<<"ingress:certificate-arn/", c>>] = FormatRFC3339(spec.certs[c])
    BY <2>1, KeyFacts DEF CertificateTags
  <2>3. QED
    BY <2>1, <2>2, TagsOf
<1> HIDE DEF tags
<1>5. CertificateARNs(tags) = [c \in listed \cup legacy |->
        IF <<"ingress:certificate-arn/", c>> \in DOMAIN tags
          THEN tags[<<"ingress:certificate-arn/", c>>] ELSE Zero]
  BY DEF CertificateARNs
<1> HIDE DEF listed, legacy
<1>6. CertificateARNs(tags) = [c \in DOMAIN spec.certs |->
        IF <<"ingress:certificate-arn/", c>> \in DOMAIN tags
          THEN tags[<<"ingress:certificate-arn/", c>>] ELSE Zero]
  BY <1>2, <1>3, <1>5
<1>7. QED
  BY <1>4, <1>6 DEF tags

-----------------------------------------------------------------------------
(* The inductive invariant *)

HasForm(st) ==
  st = [template |-> st.template, params |-> st.params, tags |-> st.tags,
        protected |-> st.protected]

ConfigInv ==
  /\ IsConfig(cfg)
  /\ pc \notin {"load", "exit"} => loadSettings(cfg)

SameSettings(l, m) ==
  \A f \in {"scheme", "sg", "ip", "type", "http2", "waf"} : l[f] = m[f]

\* What the resource asks for in order to be protected, l has.
Protects(l) ==
  object.a.type \in {None, "alb"} =>
    /\ object.a.waf # None => l.type = "application" /\ l.waf = object.a.waf
    /\ object.a.sg # None => l.type = "application" /\ l.sg = object.a.sg

CallInv ==
  /\ pc \in {"find", "sent"} =>
       /\ DOMAIN lb.certs # {}
       /\ stack # Absent => SameSettings(lb, Managed)
       /\ stack = Absent \/ applied # Absent => Protects(lb)
  /\ pc = "sent" => request = Request

\* st was made for l by the present template.
BuiltFor(st, l) ==
  LET m == mapToManagedStack(st)
  IN  /\ \A f \in {"scheme", "sg", "ssl", "ip", "type", "http2", "waf", "owner", "alarms"} :
           m[f] = l[f]
      /\ m.certs = [c \in DOMAIN l.certs |-> FormatRFC3339(l.certs[c])]
      /\ {b.typed : b \in Resources(st.template, "LoadBalancer")} = {TRUE}
      /\ l.type = "application" =>
           /\ l.waf # None => Resources(st.template, "WAFAssociation") # {}
           /\ \A b \in Resources(st.template, "LoadBalancer") :
                "LoadBalancerSecurityGroupParameter" \in b.refs

StackInv ==
  stack # Absent =>
    /\ HasForm(stack)
    /\ isManagedStack(stack.tags)
    /\ Targets(stack.template) \subseteq Managed.targetGroups
    /\ applied = Absent <=> Managed.type = None
    /\ applied # Absent => BuiltFor(stack, applied) /\ Protects(applied)

IInv == ProvisionTypeOK /\ ConfigInv /\ CallInv /\ StackInv

-----------------------------------------------------------------------------
(* Resources and load balancers *)

LEMMA IngType ==
  ASSUME IsConfig(cfg)
  PROVE  /\ Ing.scheme \in Schemes /\ Ing.ssl \in Policy
         /\ Ing.type \in Types /\ Ing.http2 \in BOOLEAN /\ Ing.shared \in BOOLEAN
<1>1. scheme(object) \in Schemes
  BY DEF scheme, Schemes
<1>2. sslPolicy(cfg, object) \in Policy
  BY DEF sslPolicy, IsConfig
<1>3. loadBalancerType(cfg, object) \in Types
  BY DEF loadBalancerType, ToAWS, Types
<1>4. QED
  BY <1>1, <1>2, <1>3 DEF Ing, newIngress, http2, shared

\* A resource that asks for protection becomes one that has it.
LEMMA IngProtects ==
  ASSUME Listed(cfg, object)
  PROVE  Protects(Ing)
<1> SUFFICES ASSUME object.a.type \in {None, "alb"}, NeedsALB(object)
             PROVE  /\ Ing.type = "application"
                    /\ object.a.waf # None => Ing.waf = object.a.waf
                    /\ object.a.sg # None => Ing.sg = object.a.sg
  BY DEF Protects, NeedsALB
<1>1. loadBalancerType(cfg, object) = "application"
  BY DEF loadBalancerType, ToAWS, FromAWS
<1>2. QED
  BY <1>1 DEF Ing, newIngress, annotationOr, securityGroup

\* A date that was written and read back once stays what it is.
LEMMA Expiries ==
  /\ FormatRFC3339(Zero) = Zero
  /\ FormatRFC3339(FormatRFC3339(CertTTL)) = FormatRFC3339(CertTTL)
<1>1. CertTTL \in Nat
  BY ProvisioningAssumption
<1>2. CertTTL - (CertTTL % 2) \in Nat /\ (CertTTL - (CertTTL % 2)) % 2 = 0
  BY <1>1
<1>3. QED
  BY <1>1, <1>2 DEF FormatRFC3339, Zero

\* The load balancer of a new stack.
LEMMA NewLBType ==
  ASSUME IsConfig(cfg), Listed(cfg, object), NEW certificates \in SUBSET Certificate
  PROVE  /\ IsLB(NewLB(certificates), {Zero, CertTTL, FormatRFC3339(CertTTL)})
         /\ DOMAIN NewLB(certificates).certs = certificates
         /\ Protects(NewLB(certificates))
         /\ NewLB(certificates) # Absent
<1> DEFINE l == NewLB(certificates)
<1>1. /\ l.scheme = Ing.scheme /\ l.ssl = Ing.ssl /\ l.type = Ing.type /\ l.http2 = Ing.http2
      /\ l.waf = Ing.waf /\ l.sg = Ing.sg /\ l.owner \in {None, "resource"}
      /\ l.certs = [c \in certificates |-> Zero]
      /\ l # Absent
  BY DEF NewLB, Absent
<1> HIDE DEF l
<1>2. IsLB(l, {Zero, CertTTL, FormatRFC3339(CertTTL)})
  BY <1>1, IngType DEF IsLB
<1>3. QED
  BY <1>1, <1>2, IngProtects DEF l, Protects

\* The load balancer of an update keeps what its stack has.
LEMMA StackLBType ==
  ASSUME IsConfig(cfg), IsLB(Managed, {Zero, FormatRFC3339(CertTTL)}),
         NEW needed \in NeededSets, NEW over \in SUBSET Expired,
         over # DOMAIN Managed.certs,
         NEW l, l = StackLB(needed, over), l.ssl \in Policy
  PROVE  /\ IsLB(l, {Zero, CertTTL, FormatRFC3339(CertTTL)})
         /\ DOMAIN l.certs # {}
         /\ SameSettings(l, Managed)
         /\ l # Absent
<1>1. /\ \A f \in {"scheme", "sg", "ip", "type", "http2", "waf"} : l[f] = Managed[f]
      /\ l.owner \in {None, "resource"}
      /\ l.certs = Renewed(needed, over)
      /\ l # Absent
  BY DEF StackLB, Absent
<1>2. needed \subseteq Certificate
  BY DEF NeededSets
<1>3. /\ DOMAIN Renewed(needed, over) = needed \cup (DOMAIN Managed.certs \ over)
      /\ \A c \in DOMAIN Renewed(needed, over) :
           Renewed(needed, over)[c] \in {Zero, CertTTL, FormatRFC3339(CertTTL)}
      /\ Renewed(needed, over) \in [DOMAIN Renewed(needed, over) ->
           {Zero, CertTTL, FormatRFC3339(CertTTL)}]
  BY DEF Renewed, IsLB
<1>4. over \subseteq DOMAIN Managed.certs
  BY DEF Expired
<1>5. QED
  BY <1>1, <1>2, <1>3, <1>4 DEF IsLB, SameSettings

-----------------------------------------------------------------------------
(* A request that is carried out *)

LEMMA SpecOfLB ==
  /\ stackSpec.scheme = lb.scheme /\ stackSpec.sg = lb.sg /\ stackSpec.ssl = lb.ssl
  /\ stackSpec.ip = lb.ip /\ stackSpec.type = lb.type /\ stackSpec.http2 = lb.http2
  /\ stackSpec.waf = lb.waf /\ stackSpec.owner = lb.owner /\ stackSpec.alarms = lb.alarms
  /\ stackSpec.certs = lb.certs /\ stackSpec.subnets = SubnetIDs
  /\ stackSpec.tags = cfg.tags /\ stackSpec.denyInternal = cfg.denyInternal
  /\ stackSpec.idle = idleConnectionTimeout(cfg)
BY DEF stackSpec

\* The fields of a stack that a request makes.
LEMMA StackFields ==
  ASSUME NEW r, NEW protected, NEW st, st = StackOf(r, protected)
  PROVE  /\ HasForm(st) /\ st # Absent
         /\ st.template = r.template /\ st.tags = r.tags /\ st.protected = protected
         /\ st.params = Merge(r.params, Defaults)
BY DEF StackOf, HasForm, Absent

\* The stack that the request for lb makes is one for lb.
LEMMA StackBuilt ==
  ASSUME IInv, pc = "sent", Acceptable(request), NEW protected,
         NEW st, st = StackOf(request, protected)
  PROVE  /\ HasForm(st) /\ st # Absent
         /\ lb.type \in Types
         /\ isManagedStack(st.tags)
         /\ Targets(st.template) \subseteq mapToManagedStack(st).targetGroups
         /\ BuiltFor(st, lb)
         /\ IsLB(mapToManagedStack(st), {Zero, FormatRFC3339(CertTTL)})
<1> DEFINE spec == stackSpec
           m == mapToManagedStack(st)
<1>1. /\ IsLB(lb, {Zero, CertTTL, FormatRFC3339(CertTTL)})
      /\ DOMAIN lb.certs # {} /\ request = Request
  BY DEF IInv, ProvisionTypeOK, CallInv
<1>2. /\ st.template = generateTemplate(spec) /\ st.tags = Tags(spec)
      /\ st.params = Merge(Supplied(spec), Defaults)
      /\ HasForm(st) /\ st # Absent
  BY <1>1, StackFields DEF Request
<1>3. lb.type \in Types
  <2>1. Resolves(generateTemplate(spec), Supplied(spec))
    BY <1>1 DEF Acceptable, Request
  <2>2. lb.type # None
    BY <1>1, <2>1, SpecOfLB, UntypedRefused
  <2>3. QED
    BY <1>1, <2>2 DEF IsLB
<1>4. \A k \in DOMAIN spec.tags : k = key(k[1]) /\ k[1] \notin StackTags
  BY SpecOfLB DEF IInv, ConfigInv, IsConfig, StackTags
<1> HIDE DEF spec
<1>5. isManagedStack(st.tags)
  BY <1>2, <1>4, TagsManaged
<1>6. /\ m.targetGroups = targetGroupARNs(st.template.outputs)
      /\ m.owner = valueOr(st.tags, key("ingress:owner"), None)
      /\ m.alarms = valueOr(st.tags, key("cloudwatch:alarm-config-hash"), <<>>)
      /\ m.certs = CertificateARNs(st.tags)
  BY DEF mapToManagedStack
<1>7. spec.type = lb.type /\ spec.http2 = lb.http2 /\ spec.certs = lb.certs /\ spec.waf = lb.waf
      /\ spec.owner = lb.owner /\ spec.alarms = lb.alarms /\ spec.scheme = lb.scheme
      /\ spec.sg = lb.sg /\ spec.ssl = lb.ssl /\ spec.ip = lb.ip
  BY SpecOfLB DEF spec
<1>8. Targets(st.template) \subseteq m.targetGroups
  BY <1>2, <1>3, <1>6, <1>7, TargetsKnown
<1>9. /\ m.scheme = lb.scheme /\ m.sg = lb.sg /\ m.ssl = lb.ssl /\ m.ip = lb.ip
      /\ m.type = lb.type /\ m.waf = lb.waf /\ m.http2 = lb.http2
  <2>1. spec.http2 \in BOOLEAN
    BY <1>1, <1>7 DEF IsLB
  <2>2. /\ m.scheme = spec.scheme /\ m.sg = spec.sg /\ m.ssl = spec.ssl /\ m.ip = spec.ip
        /\ m.type = spec.type /\ m.waf = spec.waf /\ m.http2 = spec.http2
    BY <1>2, <2>1, ParametersReadBack
  <2> HIDE DEF m
  <2>3. QED
    BY <1>7, <2>2
<1>10. /\ m.owner = lb.owner /\ m.alarms = lb.alarms
       /\ m.certs = [c \in DOMAIN lb.certs |-> FormatRFC3339(lb.certs[c])]
  <2>1. CertificateARNs(Tags(spec))
          = [c \in DOMAIN spec.certs |-> FormatRFC3339(spec.certs[c])]
    BY <1>4, CertificatesReadBack
  <2>2. /\ valueOr(Tags(spec), key("ingress:owner"), None) = spec.owner
        /\ valueOr(Tags(spec), key("cloudwatch:alarm-config-hash"), <<>>) = spec.alarms
    BY <1>4, TagsOf
  <2> HIDE DEF m
  <2>3. QED
    BY <1>2, <1>6, <1>7, <2>1, <2>2
<1>11. LoadBalancerResource(spec).typed = TRUE
  BY <1>3, <1>7 DEF LoadBalancerResource
<1>13. lb.type = "application" /\ lb.waf # None => WAFAssociation(spec) # {}
  BY <1>7 DEF WAFAssociation
<1>14. lb.type = "application" =>
         "LoadBalancerSecurityGroupParameter" \in LoadBalancerResource(spec).refs
  BY <1>7 DEF LoadBalancerResource
<1>15. IsLB(m, {Zero, FormatRFC3339(CertTTL)})
  BY <1>1, <1>9, <1>10, Expiries DEF IsLB
<1>16. BuiltFor(st, lb)
  <2>1. {b.typed : b \in Resources(st.template, "LoadBalancer")} = {TRUE}
    BY <1>2, <1>11, ResourcesOfKind
  <2>2. lb.type = "application" =>
          /\ lb.waf # None => Resources(st.template, "WAFAssociation") # {}
          /\ \A b \in Resources(st.template, "LoadBalancer") :
               "LoadBalancerSecurityGroupParameter" \in b.refs
    BY <1>2, <1>13, <1>14, ResourcesOfKind
  <2> HIDE DEF m
  <2>3. /\ \A f \in {"scheme", "sg", "ssl", "ip", "type", "http2", "waf", "owner", "alarms"} :
             m[f] = lb[f]
        /\ m.certs = [c \in DOMAIN lb.certs |-> FormatRFC3339(lb.certs[c])]
    BY <1>9, <1>10
  <2>4. QED
    BY <2>1, <2>2, <2>3 DEF BuiltFor, m
<1>17. QED
  BY <1>2, <1>3, <1>5, <1>8, <1>15, <1>16

-----------------------------------------------------------------------------
(* The invariant is kept *)

LEMMA NetStep ==
  ASSUME [ProvisionNext]_provVars
  PROVE  [NetworkNext]_netVars
<1>1. CASE ReadNetwork
  BY <1>1 DEF ReadNetwork, NetworkNext
<1>2. ASSUME CreateStack \/ UpdateStack
      PROVE  \E isInternal \in BOOLEAN : StartFinding(isInternal)
  <2>1. /\ (Ing.scheme = "internal") \in BOOLEAN
        /\ (Managed.scheme = "internal") \in BOOLEAN
    OBVIOUS
  <2>2. StartFinding(Ing.scheme = "internal") \/ StartFinding(Managed.scheme = "internal")
    BY <1>2 DEF CreateStack, UpdateStack
  <2>3. QED
    BY <2>1, <2>2
<1>3. CASE ConsiderSubnet
  BY <1>3 DEF ConsiderSubnet, NetworkNext
<1>4. CASE Restart
  BY <1>4 DEF Restart, NetworkNext
<1>5. CASE NetworkChanges
  BY <1>5, ProvisioningAssumption DEF NetworkChanges, NetworkNext, VPCChanges
<1>6. CASE LoadSettings \/ NoNetwork \/ DeleteStack \/ NothingToDo \/ SendRequest \/ Protect
  BY <1>6 DEF LoadSettings, NoNetwork, DeleteStack, NothingToDo, SendRequest, Protect
<1>7. CASE CloudFormationStep
  BY <1>7 DEF CloudFormationStep, Creates, Updates, Fails, EndCall
<1>8. CASE UNCHANGED provVars
  BY <1>8 DEF provVars
<1>9. QED
  BY <1>1, <1>2, <1>3, <1>4, <1>5, <1>6, <1>7, <1>8
  DEF ProvisionNext, ControllerStep, NetworkNext

\* So the types of Network are kept.
LEMMA NetworkTypeKept ==
  ASSUME IInv, [ProvisionNext]_provVars
  PROVE  NetworkTypeOK'
BY NetStep, NetworkTypeStep DEF IInv, ProvisionTypeOK

Between == {"load", "exit", "manifest", "idle"}

\* What is read back depends on template, tags and parameters only.
LEMMA ManagedKept ==
  ASSUME NEW st, NEW new, new.template = st.template, new.tags = st.tags, new.params = st.params
  PROVE  mapToManagedStack(new) = mapToManagedStack(st)
BY DEF mapToManagedStack, TypeOf

\* Nothing happens to the stack.
LEMMA StackKept ==
  ASSUME IInv, UNCHANGED <<object, cloudVars>>
  PROVE  /\ StackInv'
         /\ stack' = Absent => applied' = Absent
         /\ stack' # Absent => IsLB(Managed, {Zero, FormatRFC3339(CertTTL)})'
         /\ Managed' = Managed
<1>1. stack' = stack /\ applied' = applied /\ object' = object /\ Managed' = Managed
  BY DEF cloudVars, Managed
<1>2. \A l : Protects(l)' <=> Protects(l)
  BY <1>1 DEF Protects
<1>3. QED
  BY <1>1, <1>2 DEF IInv, ProvisionTypeOK, StackInv

\* The controller does something that has nothing to do with the stack.
LEMMA IdleStep ==
  ASSUME IInv, NetworkTypeOK', ConfigInv', UNCHANGED <<object, callVars, cloudVars>>,
         pc \in Between, pc' \in Between, firstRun' \in BOOLEAN
  PROVE  IInv'
<1>1. lb' = lb /\ request' = request /\ lb = Absent /\ request = Absent
  BY DEF callVars, IInv, ProvisionTypeOK, Between
<1>2. ProvisionTypeOK'
  BY <1>1, StackKept DEF ProvisionTypeOK, Between
<1>3. CallInv'
  BY DEF CallInv, Between
<1>4. QED
  BY <1>2, <1>3, StackKept DEF IInv

\* It holds at the start ...
LEMMA InitIInv == ProvisionInit => IInv
<1> SUFFICES ASSUME ProvisionInit PROVE IInv
  OBVIOUS
<1>1. PICK i \in Inputs : cfg = i.cfg /\ object = i.object /\ vpc = i.vpc /\ stack = i.stack
  BY DEF ProvisionInit
<1>2. IsConfig(cfg) /\ vpc \in VPC /\ (stack = Absent \/ IsOldStack(stack))
  BY <1>1, ProvisioningAssumption
<1>3. NetworkTypeOK
  BY <1>2, NetworkTypeInit DEF ProvisionInit, NetworkInit
<1>4. pc = "load" /\ firstRun = TRUE /\ lb = Absent /\ request = Absent /\ applied = Absent
  BY DEF ProvisionInit
<1>5. ProvisionTypeOK
  BY <1>2, <1>3, <1>4 DEF ProvisionTypeOK, IsOldStack, Managed
<1>6. StackInv
  <2>1. IsOldStack(stack) => Managed.type = None
    BY DEF IsOldStack, Managed, mapToManagedStack, TypeOf, valueOr
  <2>2. QED
    BY <1>2, <1>4, <2>1 DEF StackInv, IsOldStack, HasForm, Managed
<1>7. QED
  BY <1>2, <1>4, <1>5, <1>6 DEF IInv, ConfigInv, CallInv

\* ... and is kept by steps outside of a call,
LEMMA QuietStep ==
  ASSUME IInv, NetworkTypeOK',
         LoadSettings \/ ReadNetwork \/ NoNetwork \/ NothingToDo \/ Restart \/ NetworkChanges
  PROVE  IInv'
<1>1. firstRun \in BOOLEAN
  BY DEF IInv, ProvisionTypeOK
<1>2. CASE LoadSettings
  <2>1. ConfigInv'
    BY <1>2 DEF LoadSettings, IInv, ConfigInv
  <2>2. QED
    BY <1>1, <1>2, <2>1, IdleStep DEF LoadSettings, Between
<1>3. CASE ReadNetwork \/ NoNetwork \/ NothingToDo
  <2>1. ConfigInv'
    BY <1>3 DEF ReadNetwork, NoNetwork, NothingToDo, IInv, ConfigInv
  <2>2. QED
    BY <1>1, <1>3, <2>1, IdleStep DEF ReadNetwork, NoNetwork, NothingToDo, Between
<1>4. CASE Restart
  <2>1. ConfigInv'
    BY <1>4, ProvisioningAssumption DEF Restart, IInv, ConfigInv
  <2>2. QED
    BY <1>4, <2>1, IdleStep DEF Restart, Between
<1>5. CASE NetworkChanges
  <2>1. ConfigInv'
    BY <1>5 DEF NetworkChanges, IInv, ConfigInv
  <2>2. QED
    BY <1>1, <1>5, <2>1, IdleStep DEF NetworkChanges, Between
<1>6. QED
  BY <1>2, <1>3, <1>4, <1>5

\* by the start of one,
LEMMA CallStarts ==
  ASSUME IInv, NetworkTypeOK', CreateStack \/ UpdateStack
  PROVE  IInv'
<1>1. /\ pc = "idle" /\ pc' = "find" /\ UNCHANGED <<cfg, object, firstRun, request, cloudVars>>
      /\ request = Absent /\ firstRun \in BOOLEAN
      /\ IsConfig(cfg)
  BY DEF CreateStack, UpdateStack, IInv, ProvisionTypeOK, ConfigInv
<1>2. /\ IsLB(lb', {Zero, CertTTL, FormatRFC3339(CertTTL)}) /\ lb' # Absent
      /\ DOMAIN lb'.certs # {}
      /\ stack # Absent => SameSettings(lb', Managed)
      /\ stack = Absent \/ applied # Absent => Protects(lb')
  <2>1. CASE CreateStack
    <3>1. PICK certificates \in (SUBSET Certificate) \ {{}} : lb' = NewLB(certificates)
      BY <2>1 DEF CreateStack
    <3>2. stack = Absent /\ Listed(cfg, object)
      BY <2>1 DEF CreateStack, Served
    <3>3. QED
      BY <1>1, <3>1, <3>2, NewLBType
  <2>2. CASE UpdateStack
    <3>1. PICK needed \in NeededSets, over \in SUBSET Expired :
            /\ over # DOMAIN Managed.certs
            /\ StackLB(needed, over).ssl \in Policy
            /\ lb' = StackLB(needed, over)
      BY <2>2 DEF UpdateStack
    <3>2. stack # Absent
      BY <2>2 DEF UpdateStack
    <3>3. IsLB(Managed, {Zero, FormatRFC3339(CertTTL)})
      BY <3>2 DEF IInv, ProvisionTypeOK
    <3>4. /\ IsLB(lb', {Zero, CertTTL, FormatRFC3339(CertTTL)}) /\ lb' # Absent
          /\ DOMAIN lb'.certs # {} /\ SameSettings(lb', Managed)
      BY <1>1, <3>1, <3>3, StackLBType
    <3>5. applied # Absent => Protects(lb')
      <4>1. applied # Absent => BuiltFor(stack, applied) /\ Protects(applied)
        BY <3>2 DEF IInv, StackInv
      <4>2. applied # Absent => \A f \in {"waf", "sg", "type"} : lb'[f] = applied[f]
        BY <3>4, <4>1 DEF SameSettings, BuiltFor, Managed
      <4>3. QED
        BY <4>1, <4>2 DEF Protects
    <3>6. QED
      BY <3>2, <3>4, <3>5
  <2>3. QED
    BY <2>1, <2>2
<1>4. stack' = stack /\ applied' = applied
  BY <1>1 DEF cloudVars
<1>5. ProvisionTypeOK'
  BY <1>1, <1>2, StackKept DEF ProvisionTypeOK
<1>6. ConfigInv'
  BY <1>1 DEF IInv, ConfigInv
<1>7. CallInv'
  <2>1. Protects(lb)' <=> Protects(lb')
    BY <1>1 DEF Protects
  <2>2. QED
    BY <1>1, <1>2, <1>4, <2>1, StackKept DEF CallInv
<1>8. QED
  BY <1>1, <1>5, <1>6, <1>7, StackKept DEF IInv

\* by its search for subnets and its request,
LEMMA SubnetStep ==
  ASSUME IInv, NetworkTypeOK', ConsiderSubnet \/ SendRequest
  PROVE  IInv'
<1>1. /\ pc = "find" /\ UNCHANGED <<cfg, object, firstRun, lb, cloudVars>>
      /\ request = Absent /\ lb # Absent /\ firstRun \in BOOLEAN
      /\ IsLB(lb, {Zero, CertTTL, FormatRFC3339(CertTTL)})
  BY DEF ConsiderSubnet, SendRequest, callVars, IInv, ProvisionTypeOK
<1>2. \/ pc' = "find" /\ request' = Absent
      \/ pc' = "sent" /\ request' = Request /\ UNCHANGED netVars
  BY <1>1 DEF ConsiderSubnet, SendRequest, callVars
<1>3. Request # Absent
  BY DEF Request, Absent
<1>4. ProvisionTypeOK'
  BY <1>1, <1>2, <1>3, StackKept DEF ProvisionTypeOK
<1>5. ConfigInv'
  BY <1>1, <1>2 DEF IInv, ConfigInv
<1>6. CallInv'
  <2>1. pc' = "sent" => Request' = Request
    BY <1>1, <1>2 DEF Request, stackSpec, SubnetIDs, netVars, httpTargetPort, httpDisabled
  <2>2. stack' = stack /\ applied' = applied /\ lb' = lb /\ Managed' = Managed
    BY <1>1, StackKept DEF cloudVars
  <2>3. Protects(lb)' <=> Protects(lb)
    BY <1>1 DEF Protects
  <2>4. QED
    BY <1>1, <1>2, <2>1, <2>2, <2>3 DEF IInv, CallInv
<1>7. QED
  BY <1>1, <1>4, <1>5, <1>6, StackKept DEF IInv

\* Only the protection of the stack changes.
LEMMA ProtectionChanges ==
  ASSUME IInv, stack # Absent, UNCHANGED <<object, applied>>,
         NEW on, stack' = [stack EXCEPT !.protected = on]
  PROVE  /\ StackInv' /\ stack' # Absent
         /\ IsLB(Managed, {Zero, FormatRFC3339(CertTTL)})'
         /\ Managed' = Managed
<1>1. HasForm(stack)
  BY DEF IInv, StackInv
<1>2. /\ HasForm(stack') /\ stack' # Absent
      /\ stack'.template = stack.template /\ stack'.tags = stack.tags
      /\ stack'.params = stack.params
  BY <1>1 DEF HasForm, Absent
<1>3. Managed' = Managed
  BY <1>2, ManagedKept DEF Managed
<1>4. IsLB(Managed, {Zero, FormatRFC3339(CertTTL)})'
  BY <1>3 DEF IInv, ProvisionTypeOK
<1>5. BuiltFor(stack, applied)' <=> BuiltFor(stack, applied)
  <2>1. mapToManagedStack(stack') = mapToManagedStack(stack)
    BY <1>2, ManagedKept
  <2>2. applied' = applied /\ stack'.template = stack.template
    BY <1>2
  <2>3. QED
    BY <2>1, <2>2 DEF BuiltFor
<1>6. Protects(applied)' <=> Protects(applied)
  BY DEF Protects
<1>7. HasForm(stack)'
  BY <1>2
<1>8. StackInv'
  BY <1>2, <1>3, <1>5, <1>6, <1>7 DEF IInv, StackInv
<1>9. QED
  BY <1>2, <1>3, <1>4, <1>8

\* by turning the protection on,
LEMMA ProtectStep ==
  ASSUME IInv, NetworkTypeOK', Protect
  PROVE  IInv'
<1>1. /\ stack # Absent /\ stack' = [stack EXCEPT !.protected = TRUE]
      /\ UNCHANGED <<netVars, pc, cfg, object, firstRun, lb, request, applied>>
  BY DEF Protect, callVars
<1>2. ProvisionTypeOK'
  BY <1>1, ProtectionChanges DEF IInv, ProvisionTypeOK
<1>3. ConfigInv'
  BY <1>1 DEF IInv, ConfigInv
<1>4. CallInv'
  <2>1. Request' = Request
    BY <1>1 DEF Request, stackSpec, SubnetIDs, netVars, httpTargetPort, httpDisabled
  <2>2. stack' # Absent /\ Managed' = Managed
    BY <1>1, ProtectionChanges
  <2>3. Protects(lb)' <=> Protects(lb)
    BY <1>1 DEF Protects
  <2>4. QED
    BY <1>1, <2>1, <2>2, <2>3 DEF IInv, CallInv
<1>5. QED
  BY <1>1, <1>2, <1>3, <1>4, ProtectionChanges DEF IInv

\* by deletions,
LEMMA DeleteStep ==
  ASSUME IInv, NetworkTypeOK', DeleteStack
  PROVE  IInv'
<1>1. /\ pc = "idle" /\ stack # Absent /\ firstRun' = FALSE
      /\ UNCHANGED <<netVars, pc, cfg, object, lb, request>>
      /\ \/ stack' = Absent /\ applied' = Absent
         \/ stack' = [stack EXCEPT !.protected = FALSE] /\ applied' = applied
  BY DEF DeleteStack, callVars
<1>2. /\ StackInv'
      /\ stack' = Absent => applied' = Absent
      /\ stack' # Absent => IsLB(Managed, {Zero, FormatRFC3339(CertTTL)})'
  <2>1. CASE stack' = Absent /\ applied' = Absent
    BY <2>1 DEF StackInv
  <2>2. CASE stack' = [stack EXCEPT !.protected = FALSE] /\ applied' = applied
    BY <1>1, <2>2, ProtectionChanges
  <2>3. QED
    BY <1>1, <2>1, <2>2
<1>3. ProvisionTypeOK'
  BY <1>1, <1>2 DEF IInv, ProvisionTypeOK
<1>4. ConfigInv' /\ CallInv'
  BY <1>1 DEF IInv, ConfigInv, CallInv
<1>5. QED
  BY <1>2, <1>3, <1>4 DEF IInv

\* and by CloudFormation, which carries a request out or does not.
LEMMA CloudFormationKeeps ==
  ASSUME IInv, NetworkTypeOK', CloudFormationStep
  PROVE  IInv'
<1>1. /\ pc = "sent" /\ pc' = "idle" /\ firstRun' = FALSE
      /\ lb' = Absent /\ request' = Absent /\ UNCHANGED <<cfg, object>>
  BY DEF CloudFormationStep, Creates, Updates, Fails, EndCall
<1>2. /\ StackInv'
      /\ stack' = Absent => applied' = Absent
      /\ stack' # Absent => IsLB(Managed, {Zero, FormatRFC3339(CertTTL)})'
  <2>1. CASE Fails
    BY <1>1, <2>1, StackKept DEF Fails
  <2>2. CASE Creates \/ Updates
    <3>1. PICK protected : stack' = StackOf(request, protected) /\ applied' = lb
      BY <2>2 DEF Creates, Updates
    <3>2. Acceptable(request)
      BY <2>2 DEF Creates, Updates
    <3>3. lb # Absent
      BY <1>1 DEF IInv, ProvisionTypeOK
    <3>4. /\ HasForm(stack') /\ stack' # Absent /\ lb.type \in Types
          /\ isManagedStack(stack'.tags)
          /\ Targets(stack'.template) \subseteq mapToManagedStack(stack').targetGroups
          /\ BuiltFor(stack', lb)
          /\ IsLB(mapToManagedStack(stack'), {Zero, FormatRFC3339(CertTTL)})
      BY <1>1, <3>1, <3>2, StackBuilt
    <3>5. mapToManagedStack(stack').type # None
      <4>1. mapToManagedStack(stack').type = lb.type
        BY <3>4 DEF BuiltFor
      <4>2. QED
        BY <3>4, <4>1, SettingsAssumption
    <3>6. Protects(lb)
      <4>1. CASE Creates
        BY <1>1, <4>1 DEF Creates, IInv, CallInv
      <4>2. CASE Updates
        <5>1. stack # Absent /\ SameSettings(lb, Managed)
          BY <1>1, <4>2 DEF Updates, IInv, CallInv
        <5>2. Managed.type # None
          BY <3>4, <5>1, SettingsAssumption DEF SameSettings
        <5>3. applied # Absent
          BY <5>1, <5>2 DEF IInv, StackInv
        <5>4. QED
          BY <1>1, <5>3 DEF IInv, CallInv
      <4>3. QED
        BY <2>2, <4>1, <4>2
    <3>7. Protects(applied)'
      BY <1>1, <3>1, <3>6 DEF Protects
    <3>8. StackInv'
      BY <3>1, <3>3, <3>4, <3>5, <3>7 DEF StackInv, Managed
    <3>9. QED
      BY <3>4, <3>8 DEF Managed
  <2>3. QED
    BY <2>1, <2>2 DEF CloudFormationStep
<1>3. ProvisionTypeOK'
  BY <1>1, <1>2 DEF ProvisionTypeOK
<1>4. ConfigInv' /\ CallInv'
  BY <1>1 DEF IInv, ConfigInv, CallInv
<1>5. QED
  BY <1>2, <1>3, <1>4 DEF IInv

\* So it is kept by every step, and always holds.
LEMMA IInvStep ==
  ASSUME IInv, [ProvisionNext]_provVars
  PROVE  IInv'
<1>1. NetworkTypeOK'
  BY NetworkTypeKept
<1>2. CASE ControllerStep
  BY <1>1, <1>2, QuietStep, CallStarts, DeleteStep, SubnetStep, ProtectStep DEF ControllerStep
<1>3. CASE CloudFormationStep
  BY <1>1, <1>3, CloudFormationKeeps
<1>4. CASE Restart \/ NetworkChanges
  BY <1>1, <1>4, QuietStep
<1>5. CASE UNCHANGED provVars
  <2>1. UNCHANGED <<netVars, pc, cfg, object, firstRun, lb, request, stack, applied>>
    BY <1>5 DEF provVars, callVars, cloudVars
  <2>2. ProvisionTypeOK' /\ ConfigInv'
    BY <1>1, <2>1 DEF IInv, ProvisionTypeOK, ConfigInv, Managed
  <2>3. CallInv'
    <3>1. Request' = Request
      BY <2>1 DEF Request, stackSpec, SubnetIDs, netVars, httpTargetPort, httpDisabled
    <3>2. Managed' = Managed /\ (Protects(lb)' <=> Protects(lb))
      BY <2>1 DEF Managed, Protects
    <3>3. QED
      BY <2>1, <3>1, <3>2 DEF IInv, CallInv
  <2>4. StackInv'
    BY <2>1, StackKept DEF cloudVars
  <2>5. QED
    BY <2>2, <2>3, <2>4 DEF IInv
<1>6. QED
  BY <1>2, <1>3, <1>4, <1>5 DEF ProvisionNext

LEMMA IInvCorrect == ProvisionSpec => []IInv
<1>1. IInv /\ [ProvisionNext]_provVars => IInv'
  BY IInvStep
<1>2. QED
  BY InitIInv, <1>1, PTL DEF ProvisionSpec

-----------------------------------------------------------------------------
(* The theorems *)

(* The variables of worker.go's cycle and of the calls it makes stay in    *)
(* their types, and a call has a load balancer for as long as it runs.     *)
THEOREM ProvisionTypeCorrect == ProvisionSpec => []ProvisionTypeOK
<1>1. IInv => ProvisionTypeOK
  BY DEF IInv
<1>2. QED
  BY IInvCorrect, <1>1, PTL

(* FindLBSubnets of adapter.go finds the best subnets also as a part of    *)
(* the cycle, where it is called again and again and where tags of the VPC *)
(* change between the calls.                                               *)
THEOREM SubnetsCorrect == ProvisionSpec => []BestOfZone
<1>1. ProvisionInit => BestOfZone
  <2> SUFFICES ASSUME ProvisionInit PROVE BestOfZone
    OBVIOUS
  <2>1. vpc \in VPC
    BY ProvisioningAssumption DEF ProvisionInit
  <2>2. QED
    BY <2>1, BestOfZoneInit DEF ProvisionInit, NetworkInit
<1>2. BestOfZone /\ IInv /\ [ProvisionNext]_provVars => BestOfZone'
  BY NetStep, BestOfZoneStep DEF IInv, ProvisionTypeOK
<1>3. QED
  BY <1>1, <1>2, IInvCorrect, PTL DEF ProvisionSpec

\* The creation timeout is at least a minute.
LEMMA EnoughTime ==
  ASSUME NEW c, loadSettings(c), c.creationTimeout \in Int
  PROVE  c.creationTimeout \div 60 >= 1
<1>1. c.creationTimeout >= 60
  BY DEF loadSettings
<1>2. \A n \in Int : n >= 60 => n \div 60 >= 1
  OBVIOUS
<1>3. QED
  BY <1>1, <1>2

\* The invariant implies each of the properties.
LEMMA TemplateAcceptedHolds ==
  ASSUME IInv
  PROVE  TemplateAccepted
<1> SUFFICES ASSUME pc = "sent", lb.type # None, lb.ip \in {"ipv4", "dualstack"},
                    SubnetIDs # {}, lb.type = "application" => cfg.idle \in 1 .. 4000
             PROVE  Acceptable(request)
  BY DEF TemplateAccepted
<1>1. /\ lb.type \in Types /\ request = Request /\ loadSettings(cfg)
      /\ cfg.creationTimeout \in Int
  BY DEF IInv, ProvisionTypeOK, IsLB, CallInv, ConfigInv, IsConfig
<1>2. cfg.creationTimeout \div 60 >= 1
  BY <1>1, EnoughTime
<1>3. lb.type = "application" => idleConnectionTimeout(cfg) \in 1 .. 4000
  BY DEF idleConnectionTimeout
<1>4. /\ stackSpec.type \in Types /\ stackSpec.ip \in {"ipv4", "dualstack"}
      /\ stackSpec.subnets # {}
      /\ stackSpec.type = "application" => stackSpec.idle \in 1 .. 4000
  BY <1>1, <1>3, SpecOfLB
<1>5. QED
  BY <1>1, <1>2, <1>4, RequestAccepted DEF Request

(* generateTemplate, its parameters in createStack and updateStack, and    *)
(* the rules of load balancers agree, for every load balancer that the     *)
(* cycle can ask for and all flags that loadSettings lets pass.            *)
THEOREM RequestsAccepted == ProvisionSpec => []TemplateAccepted
<1>1. IInv => TemplateAccepted
  BY TemplateAcceptedHolds
<1>2. QED
  BY IInvCorrect, <1>1, PTL

LEMMA InternalTrafficDeniedHolds ==
  ASSUME IInv
  PROVE  InternalTrafficDenied
<1> SUFFICES ASSUME pc = "sent", cfg.denyInternal, lb.type = "application",
                    NEW l \in Resources(request.template, "Listener"), l.target # None
             PROVE  \E r \in Resources(request.template, "DenyRule") : r.listener = l.name
  BY DEF InternalTrafficDenied
<1>1. request.template = generateTemplate(stackSpec)
  BY DEF IInv, CallInv, Request
<1>2. QED
  BY <1>1, SpecOfLB, ListenersDenied

(* With --deny-internal-domains, generateDenyInternalTrafficRule of        *)
(* template.go guards every listener of an application load balancer.      *)
THEOREM InternalTrafficAlwaysDenied == ProvisionSpec => []InternalTrafficDenied
<1>1. IInv => InternalTrafficDenied
  BY InternalTrafficDeniedHolds
<1>2. QED
  BY IInvCorrect, <1>1, PTL

(* mapToManagedStack of cf.go finds every target group that a listener of  *)
(* the stack forwards to, also when plain HTTP has one of its own.         *)
THEOREM TargetGroupsAlwaysKnown == ProvisionSpec => []TargetGroupsKnown
<1>1. IInv => TargetGroupsKnown
  BY DEF IInv, StackInv, TargetGroupsKnown
<1>2. QED
  BY IInvCorrect, <1>1, PTL

(* mapToManagedStack of cf.go reads back what createStack and updateStack  *)
(* have written into parameters and tags.                                  *)
THEOREM AlwaysReadBack == ProvisionSpec => []ReadBack
<1>1. IInv => ReadBack
  BY DEF IInv, ProvisionTypeOK, StackInv, BuiltFor, ReadBack, Managed
<1>2. QED
  BY IInvCorrect, <1>1, PTL

(* isManagedStack of cf.go finds the stack again after every call, for all *)
(* additional tags.                                                        *)
THEOREM AlwaysManaged == ProvisionSpec => []StillManaged
<1>1. IInv => StillManaged
  BY DEF IInv, StackInv, StillManaged
<1>2. QED
  BY IInvCorrect, <1>1, PTL

LEMMA ProtectionHolds ==
  ASSUME IInv
  PROVE  ProtectionApplied
<1> SUFFICES ASSUME applied # Absent, object.a.type \in {None, "alb"}
             PROVE  /\ object.a.waf # None =>
                         /\ Resources(stack.template, "WAFAssociation") # {}
                         /\ stack.params[WAFParameter] = object.a.waf
                    /\ object.a.sg # None =>
                         /\ stack.params.LoadBalancerSecurityGroupParameter = object.a.sg
                         /\ \A b \in Resources(stack.template, "LoadBalancer") :
                              "LoadBalancerSecurityGroupParameter" \in b.refs
  BY DEF ProtectionApplied
<1>1. BuiltFor(stack, applied) /\ Protects(applied)
  BY DEF IInv, ProvisionTypeOK, StackInv
<1>2. /\ valueOr(stack.params, WAFParameter, None) = applied.waf
      /\ valueOr(stack.params, "LoadBalancerSecurityGroupParameter", None) = applied.sg
  BY <1>1 DEF BuiltFor, mapToManagedStack
<1>3. CASE object.a.waf # None
  BY <1>1, <1>2, <1>3 DEF Protects, BuiltFor, valueOr
<1>4. CASE object.a.sg # None
  BY <1>1, <1>2, <1>4 DEF Protects, BuiltFor, valueOr
<1>5. QED
  BY <1>3, <1>4

(* A web ACL or a security group that a resource asks for ends up on its   *)
(* load balancer: loadBalancerType of adapter.go turns the default into an *)
(* application load balancer, and no later update takes it away.           *)
THEOREM AlwaysProtected == ProvisionSpec => []ProtectionApplied
<1>1. IInv => ProtectionApplied
  BY ProtectionHolds
<1>2. QED
  BY IInvCorrect, <1>1, PTL

LEMMA InPlace ==
  ASSUME IInv, IInv', [ProvisionNext]_provVars, stack # Absent, stack' # Absent
  PROVE  /\ \A p \in {"LoadBalancerSchemeParameter", "Type"} :
              valueOr(stack'.params, p, None) = valueOr(stack.params, p, None)
         /\ {b.typed : b \in Resources(stack'.template, "LoadBalancer")}
              = {b.typed : b \in Resources(stack.template, "LoadBalancer")}
<1>1. HasForm(stack)
  BY DEF IInv, StackInv
<1>2. CASE Updates
  <2>1. /\ pc = "sent" /\ lb # Absent /\ applied' = lb
        /\ SameSettings(lb, Managed)
    BY <1>2 DEF Updates, IInv, ProvisionTypeOK, CallInv
  <2>2. lb.type # None
    <3>1. lb.type \in Types
      BY <1>2, <2>1, StackBuilt DEF Updates
    <3>2. QED
      BY <3>1, SettingsAssumption
  <2>3. applied # Absent
    BY <2>1, <2>2 DEF SameSettings, IInv, StackInv
  <2>4. BuiltFor(stack, applied)
    BY <2>3 DEF IInv, StackInv
  <2>5. BuiltFor(stack', lb)
    BY <1>2, <2>1, StackBuilt DEF Updates
  <2>6. /\ valueOr(stack'.params, "LoadBalancerSchemeParameter", None) = lb.scheme
        /\ valueOr(stack'.params, "Type", None) = lb.type
    BY <2>5 DEF BuiltFor, mapToManagedStack, TypeOf
  <2>7. /\ valueOr(stack.params, "LoadBalancerSchemeParameter", None) = lb.scheme
        /\ valueOr(stack.params, "Type", None) = lb.type
    BY <2>1 DEF SameSettings, Managed, mapToManagedStack, TypeOf
  <2>8. {b.typed : b \in Resources(stack'.template, "LoadBalancer")}
          = {b.typed : b \in Resources(stack.template, "LoadBalancer")}
    BY <2>4, <2>5 DEF BuiltFor
  <2>9. QED
    BY <1>1, <2>6, <2>7, <2>8
<1>3. CASE \E on : stack' = [stack EXCEPT !.protected = on]
  <2>1. stack'.template = stack.template /\ stack'.params = stack.params
    BY <1>1, <1>3 DEF HasForm
  <2>2. QED
    BY <1>1, <2>1
<1>4. CASE stack' = stack
  BY <1>1, <1>4
<1>5. Updates \/ stack' = stack \/ \E on : stack' = [stack EXCEPT !.protected = on]
  <2>1. CASE ControllerStep
    BY <2>1 DEF ControllerStep, LoadSettings, ReadNetwork, NoNetwork, CreateStack, UpdateStack,
                DeleteStack, NothingToDo, ConsiderSubnet, SendRequest, Protect, cloudVars
  <2>2. CASE CloudFormationStep
    BY <2>2 DEF CloudFormationStep, Creates, Fails, cloudVars
  <2>3. CASE Restart \/ NetworkChanges \/ UNCHANGED provVars
    BY <2>3 DEF Restart, NetworkChanges, provVars, cloudVars
  <2>4. QED
    BY <2>1, <2>2, <2>3 DEF ProvisionNext
<1>6. QED
  BY <1>2, <1>3, <1>4, <1>5

(* updateStack of cf.go never lets CloudFormation replace a load balancer. *)
THEOREM AlwaysUpdatedInPlace == ProvisionSpec => UpdatedInPlace
<1>1. IInv /\ IInv' /\ [ProvisionNext]_provVars =>
        [stack # Absent /\ stack' # Absent =>
           /\ \A p \in {"LoadBalancerSchemeParameter", "Type"} :
                valueOr(stack'.params, p, None) = valueOr(stack.params, p, None)
           /\ {b.typed : b \in Resources(stack'.template, "LoadBalancer")}
                = {b.typed : b \in Resources(stack.template, "LoadBalancer")}]_provVars
  BY InPlace
<1>2. QED
  BY IInvCorrect, <1>1, PTL DEF ProvisionSpec, UpdatedInPlace
=============================================================================
