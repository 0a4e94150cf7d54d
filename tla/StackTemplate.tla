---------------------------- MODULE StackTemplate ----------------------------
(***************************************************************************)
(* The CloudFormation template of a load balancer (generateTemplate), the  *)
(* parameters and tags that are sent with it (createStack, updateStack)    *)
(* and how a stack is read back (mapToManagedStack).  These are written in *)
(* different places of the code and must agree: what a resource refers to  *)
(* is declared, what is declared is supplied, and what is supplied is read *)
(* back under the same name.                                               *)
(*                                                                         *)
(* This module has no variables.  A template is a record of the parameters *)
(* it declares, its outputs and its resources; a resource is known by its  *)
(* logical name and by the names it refers to.                             *)
(***************************************************************************)
EXTENDS IngressSettings, Sequences

Zero == -1          \* Go's zero time: a certificate that is in use

(* What both maps hold; where both have an entry, that of f. *)
Merge(f, g) == [x \in DOMAIN f \cup DOMAIN g |-> IF x \in DOMAIN f THEN f[x] ELSE g[x]]

-----------------------------------------------------------------------------
(* Parameters *)

Defaults ==
  [LoadBalancerSchemeParameter |-> "internet-facing",
   TargetGroupHealthCheckPathParameter |-> "/kube-system/healthz",
   TargetGroupHealthCheckPortParameter |-> 9999,
   TargetGroupTargetPortParameter |-> 9999,
   TargetGroupHealthCheckIntervalParameter |-> 10,
   TargetGroupHealthCheckTimeoutParameter |-> 5,
   ListenerSslPolicyParameter |-> "ELBSecurityPolicy-2016-08",
   IpAddressType |-> "ipv4",
   Type |-> "application",
   HTTP2 |-> "true"]

HTTPPort == "TargetGroupHTTPTargetPortParameter"
WAFParameter == "LoadBalancerWAFWebACLIDParameter"

(* The HTTP listener gets a target group of its own if its port differs. *)
ExtraTargetGroup(spec) == ~spec.httpDisabled /\ spec.httpTargetPort # spec.targetPort

Declared(spec) ==
  DOMAIN Defaults
  \cup {"LoadBalancerSecurityGroupParameter", "LoadBalancerSubnetsParameter",
        "TargetGroupVPCIDParameter"}
  \cup {p \in {WAFParameter} : spec.waf # None}
  \cup {p \in {HTTPPort} : ExtraTargetGroup(spec)}

-----------------------------------------------------------------------------
(* Resources *)

(* newTargetGroup *)
TargetGroup(spec, name, portParameter) ==
  LET tcp      == spec.type = "network"
      protocol == IF tcp THEN "TCP" ELSE IF spec.targetHTTPS THEN "HTTPS" ELSE "HTTP"
  IN  [kind |-> "TargetGroup", name |-> name, protocol |-> protocol,
       targetType |-> spec.targetType,
       healthy |-> IF tcp THEN spec.nlbHealthy ELSE spec.albHealthy,
       unhealthy |-> IF tcp THEN spec.nlbHealthy ELSE spec.albUnhealthy,
       refs |-> {"TargetGroupHealthCheckIntervalParameter",
                 "TargetGroupHealthCheckPathParameter",
                 "TargetGroupHealthCheckPortParameter", portParameter,
                 "TargetGroupVPCIDParameter"}
                \cup {p \in {"TargetGroupHealthCheckTimeoutParameter"} : ~tcp}]

TargetGroups(spec) ==
  {TargetGroup(spec, "TG", "TargetGroupTargetPortParameter")}
  \cup {tg \in {TargetGroup(spec, "TGHTTP", HTTPPort)} : ExtraTargetGroup(spec)}

HTTPTarget(spec) == IF ExtraTargetGroup(spec) THEN "TGHTTP" ELSE "TG"

Listener(name, port, protocol, target) ==
  [kind |-> "Listener", name |-> name, port |-> port, protocol |-> protocol,
   target |-> target,      \* a target group, or None to redirect to HTTPS
   refs |-> {"LB"} \cup ({target} \ {None})
            \cup {p \in {"ListenerSslPolicyParameter"} : protocol \in {"HTTPS", "TLS"}}]

(* generateDenyInternalTrafficRule *)
DenyRule(name, listener) ==
  [kind |-> "DenyRule", name |-> name, listener |-> listener, refs |-> {listener}]

HTTPResources(spec) ==
  CASE spec.httpDisabled -> {}
    [] ~spec.httpDisabled /\ spec.type = "application" ->
         IF spec.httpRedirect
           THEN {Listener("HTTPListener", 80, "HTTP", None)}
           ELSE {Listener("HTTPListener", 80, "HTTP", HTTPTarget(spec))}
                \cup {r \in {DenyRule("HTTPRuleBlockInternalTraffic", "HTTPListener")} :
                        spec.denyInternal}
    [] ~spec.httpDisabled /\ spec.type = "network" ->
         {Listener("HTTPListener", 80, "TCP", HTTPTarget(spec))}
    [] OTHER -> {}

(* An error: only plain HTTP is protected. *)
HTTPSListenerOnly(spec) ==
  {Listener("HTTPSListener", 443, IF type = "application" THEN "HTTPS" ELSE "TLS", "TG") :
     type \in {spec.type} \cap Types}

HTTPSListener(spec) ==
  {Listener("HTTPSListener", 443, IF type = "application" THEN "HTTPS" ELSE "TLS", "TG") :
     type \in {spec.type} \cap Types}
  \cup {r \in {DenyRule("HTTPSRuleBlockInternalTraffic", "HTTPSListener")} :
          spec.type = "application" /\ spec.denyInternal}

(* Its name ends in a hash of the certificates, so that another list is    *)
(* another resource; nothing refers to it.                                 *)
ListenerCertificate(spec) ==
  [kind |-> "ListenerCertificate", certificates |-> DOMAIN spec.certs,
   name |-> "HTTPSListenerCertificate", refs |-> {"HTTPSListener"}]

HTTPSResources(spec) ==
  IF DOMAIN spec.certs = {} THEN {} ELSE HTTPSListener(spec) \cup {ListenerCertificate(spec)}

Attributes(spec) ==
  (CASE spec.type = "application" -> {"idle_timeout", "http2"}
     [] spec.type = "network"     -> {"cross_zone", "client_routing_policy"}
     [] OTHER                     -> {})
  \cup {"access_logs"}

(* A type is set only if the stack has one: adding it to the load balancer *)
(* of a stack without one would replace it.                                *)
LoadBalancerResource(spec) ==
  [kind |-> "LoadBalancer", name |-> "LB", attributes |-> Attributes(spec),
   idle |-> spec.idle, http2 |-> spec.http2, typed |-> spec.type \in Types,
   refs |-> {"IpAddressType", "LoadBalancerSchemeParameter",
             "LoadBalancerSubnetsParameter", "AWS::StackName"}
            \cup {p \in {"LoadBalancerSecurityGroupParameter"} : spec.type # "network"}
            \cup {p \in {"Type"} : spec.type \in Types}]

(* An error: network load balancers are not excepted. *)
WAFAssociationOfAny(spec) ==
  {[kind |-> "WAFAssociation", name |-> "WAFAssociation",
    refs |-> {"LB", WAFParameter}] : acl \in {spec.waf} \ {None}}

WAFAssociation(spec) ==
  {[kind |-> "WAFAssociation", name |-> "WAFAssociation",
    refs |-> {"LB", WAFParameter}] :
     type \in {spec.type} \cap (IF spec.waf # None THEN {"application"} ELSE {})}

(* normalizeCloudWatchAlarmName and normalizeCloudWatchAlarmDimensions: an *)
(* alarm without dimensions is about the load balancer.                    *)
AlarmReferences(alarm) ==
  {r \in {"AWS::StackName"} : alarm.named}
  \cup {r \in {"LB"} : alarm.dimensions = {} \/ "LoadBalancer" \in alarm.dimensions}
  \cup {r \in {"TG"} : "TargetGroup" \in alarm.dimensions}

CloudWatchAlarms(spec) ==
  {[kind |-> "Alarm", name |-> "CloudWatchAlarm", index |-> i,
    namespace |-> IF spec.alarms[i].namespace = None
                    THEN "AWS/ApplicationELB" ELSE spec.alarms[i].namespace,
    refs |-> AlarmReferences(spec.alarms[i])] : i \in DOMAIN spec.alarms}

(* An error: the second target group is not an output. *)
OutputsOfOneGroup(spec) ==
  [LoadBalancerARN |-> "LB", LoadBalancerDNSName |-> "LB", TargetGroupARN |-> "TG"]

Outputs(spec) ==
  Merge([LoadBalancerARN |-> "LB", LoadBalancerDNSName |-> "LB", TargetGroupARN |-> "TG"],
        [o \in {x \in {"HTTPTargetGroupARN"} : ExtraTargetGroup(spec)} |-> "TGHTTP"])

generateTemplate(spec) ==
  [declared |-> Declared(spec), outputs |-> Outputs(spec),
   resources |-> TargetGroups(spec) \cup HTTPResources(spec) \cup HTTPSResources(spec)
                 \cup {LoadBalancerResource(spec)} \cup WAFAssociation(spec)
                 \cup CloudWatchAlarms(spec)]

-----------------------------------------------------------------------------
(* What is sent with the template *)

(* An error: HTTP/2 is forgotten. *)
ParametersBeforeHTTP2(spec) ==
  [LoadBalancerSchemeParameter |-> spec.scheme,
   LoadBalancerSecurityGroupParameter |-> spec.sg,
   LoadBalancerSubnetsParameter |-> spec.subnets,
   TargetGroupVPCIDParameter |-> "vpc",
   TargetGroupTargetPortParameter |-> spec.targetPort,
   ListenerSslPolicyParameter |-> spec.ssl,
   IpAddressType |-> spec.ip, Type |-> spec.type,
   TargetGroupHealthCheckPathParameter |-> "/kube-system/healthz",
   TargetGroupHealthCheckPortParameter |-> 9999,
   TargetGroupHealthCheckIntervalParameter |-> 10,
   TargetGroupHealthCheckTimeoutParameter |-> 5]

Parameters(spec) ==
  [LoadBalancerSchemeParameter |-> spec.scheme,
   LoadBalancerSecurityGroupParameter |-> spec.sg,
   LoadBalancerSubnetsParameter |-> spec.subnets,
   TargetGroupVPCIDParameter |-> "vpc",
   TargetGroupTargetPortParameter |-> spec.targetPort,
   ListenerSslPolicyParameter |-> spec.ssl,
   IpAddressType |-> spec.ip, Type |-> spec.type,
   HTTP2 |-> IF spec.http2 THEN "true" ELSE "false",
   TargetGroupHealthCheckPathParameter |-> "/kube-system/healthz",
   TargetGroupHealthCheckPortParameter |-> 9999,
   TargetGroupHealthCheckIntervalParameter |-> 10,
   TargetGroupHealthCheckTimeoutParameter |-> 5]

Optional(spec) ==
  Merge([p \in {q \in {WAFParameter} : spec.waf # None} |-> spec.waf],
        [p \in {q \in {HTTPPort} : ExtraTargetGroup(spec)} |-> spec.httpTargetPort])

Supplied(spec) == Merge(Parameters(spec), Optional(spec))

(* Tags are known by a name and a certificate, which is None for the rest. *)
key(name) == <<name, None>>

(* An error: the tags of the administrator win. *)
mergeUserLast(user, own) == Merge(user, own)

mergeTags(user, own) == Merge(own, user)

(* Expiry dates are written in whole seconds; here two units are a second. *)
FormatRFC3339(t) == IF t = Zero THEN Zero ELSE t - (t % 2)

(* The hash of the alarm configuration is as good as the configuration. *)
OwnTags ==
  [k \in {key("kubernetes:application"), key("kubernetes.io/cluster/")} |->
     IF k = key("kubernetes:application") THEN "controller" ELSE "owned"]

CertificateTags(spec) ==
  [k \in {<<"ingress:certificate-arn/", c>> : c \in DOMAIN spec.certs} |->
     FormatRFC3339(spec.certs[k[2]])]

OptionalTags(spec) ==
  Merge([k \in {x \in {key("ingress:owner")} : spec.owner # None} |-> spec.owner],
        [k \in {x \in {key("cloudwatch:alarm-config-hash")} : spec.alarms # <<>>} |->
           spec.alarms])

Tags(spec) ==
  Merge(mergeTags(spec.tags, OwnTags), Merge(CertificateTags(spec), OptionalTags(spec)))

-----------------------------------------------------------------------------
(* How a stack is read back *)

valueOr(f, k, default) == IF k \in DOMAIN f THEN f[k] ELSE default

(* certificateARNTagLegacy holds a certificate instead of a date. *)
CertificateARNs(tags) ==
  [c \in {k[2] : k \in {x \in DOMAIN tags : x[1] = "ingress:certificate-arn/"}}
         \cup {tags[k] : k \in {x \in DOMAIN tags : x[1] = "ingress:certificate-arn"}} |->
     IF <<"ingress:certificate-arn/", c>> \in DOMAIN tags
       THEN tags[<<"ingress:certificate-arn/", c>>] ELSE Zero]

targetGroupARNs(outputs) ==
  {outputs[o] : o \in DOMAIN outputs \cap {"TargetGroupARN", "HTTPTargetGroupARN"}}

(* An error: a stack without a type is taken for an application load       *)
(* balancer.                                                               *)
TypeOrApplication(stack) == valueOr(stack.params, "Type", "application")

TypeOf(stack) == valueOr(stack.params, "Type", None)

mapToManagedStack(stack) ==
  [scheme |-> valueOr(stack.params, "LoadBalancerSchemeParameter", None),
   sg |-> valueOr(stack.params, "LoadBalancerSecurityGroupParameter", None),
   ssl |-> valueOr(stack.params, "ListenerSslPolicyParameter", None),
   ip |-> valueOr(stack.params, "IpAddressType", None),
   type |-> TypeOf(stack),
   waf |-> valueOr(stack.params, WAFParameter, None),
   http2 |-> valueOr(stack.params, "HTTP2", "true") # "false",
   owner |-> valueOr(stack.tags, key("ingress:owner"), None),
   alarms |-> valueOr(stack.tags, key("cloudwatch:alarm-config-hash"), <<>>),
   certs |-> CertificateARNs(stack.tags),
   targetGroups |-> targetGroupARNs(stack.template.outputs)]

isManagedStack(tags) ==
  /\ valueOr(tags, key("kubernetes:application"), None) = "controller"
  /\ \/ valueOr(tags, key("kubernetes.io/cluster/"), None) = "owned"
     \/ valueOr(tags, key("ClusterID"), None) = "cluster"
=============================================================================
