--------------------------- MODULE IngressSettings ---------------------------
(***************************************************************************)
(* What the Kubernetes adapter makes of an Ingress or a RouteGroup: which  *)
(* objects it lists at all, and which settings of a load balancer their    *)
(* annotations and the flags of the controller amount to.                  *)
(*                                                                         *)
(* This module has no variables.  An object is a record                    *)
(*   [kind, class, hosts, a], where a maps every annotation to its value   *)
(* or to None, class is an Ingress' spec.ingressClassName, and hosts says  *)
(* which sorts of hostnames its rules have.  cfg holds the flags.          *)
(***************************************************************************)
EXTENDS Integers

CONSTANTS
  None,    \* the empty string, or a missing annotation
  Policy   \* the TLS policies in SSLPolicies

Annotation == {"scheme", "shared", "ip", "ssl", "type", "sg", "waf", "http2",
               "class"}

HostSort == {"outside", "clusterLocal", "empty"}

(* The settings of a load balancer that a resource asks for. *)
Schemes == {"internal", "internet-facing"}
Types == {"application", "network"}

ASSUME SettingsAssumption == None \notin Types

-----------------------------------------------------------------------------
(* Which objects are listed *)

annotationOr(o, key, default) == IF o.a[key] # None THEN o.a[key] ELSE default

(* An Ingress has its class in the specification or, in the old way, in an *)
(* annotation; a RouteGroup has the annotation only.                       *)
ClassOf(o) ==
  IF o.kind = "ingress" /\ o.class # None
    THEN o.class ELSE annotationOr(o, "class", None)

Supported(cfg, o) ==
  cfg.ingressFilters = {} \/ ClassOf(o) \in cfg.ingressFilters

(* Hostnames that are empty or inside the cluster do not count, unless no  *)
(* domain for the inside is configured.                                    *)
hostnames(cfg, o) ==
  o.hosts \ (IF cfg.clusterLocalDomain THEN {"empty", "clusterLocal"} ELSE {"empty"})

-----------------------------------------------------------------------------
(* newIngress *)

scheme(o) == IF o.a.scheme = "internal" THEN "internal" ELSE "internet-facing"

shared(o) == o.a.shared # "false"

http2(o) == o.a.http2 # "false"

ipAddressType(cfg, o) == annotationOr(o, "ip", cfg.ipAddressType)

sslPolicy(cfg, o) == IF o.a.ssl \in Policy THEN o.a.ssl ELSE cfg.sslPolicy

HasSSLPolicyAnnotation(o) == o.a.ssl # None /\ o.a.ssl \in Policy

securityGroup(cfg, o) == annotationOr(o, "sg", cfg.securityGroup)

ToAWS(type) == IF type = "alb" THEN "application" ELSE "network"

FromAWS(type) == IF type = "application" THEN "alb" ELSE "nlb"

(* Network load balancers have neither security groups nor web ACLs. *)
NeedsALB(o) == o.a.sg # None \/ o.a.waf # None

(* newIngress returns an error, and the object is left out of the list. *)
Contradictory(o) == o.a.type = "nlb" /\ NeedsALB(o)

(* Errors: an annotation that is not supported is taken as it is; a web    *)
(* ACL does not turn the default into an application load balancer.        *)
loadBalancerTypeUnchecked(cfg, o) ==
  IF o.a.type # None
    THEN IF o.a.type \in {"alb", "nlb"} THEN ToAWS(o.a.type) ELSE o.a.type
  ELSE IF scheme(o) = "internal" \/ NeedsALB(o) THEN "application"
  ELSE cfg.loadBalancerType

loadBalancerTypeByDefault(cfg, o) ==
  IF o.a.type \in {"alb", "nlb"} THEN ToAWS(o.a.type)
  ELSE IF o.a.type = None /\ scheme(o) = "internal" THEN "application"
  ELSE cfg.loadBalancerType

loadBalancerType(cfg, o) ==
  LET default  == FromAWS(cfg.loadBalancerType)
      asked    == IF o.a.type # None THEN o.a.type
                  ELSE IF scheme(o) = "internal" THEN "alb" ELSE default
      suitable == IF asked = "nlb" /\ NeedsALB(o) THEN "alb" ELSE asked
  IN  ToAWS(IF suitable \in {"alb", "nlb"} THEN suitable ELSE default)

(* The resource as the controller sees it, with attachGlobalWAFACL. *)
newIngress(cfg, o) ==
  [shared |-> shared(o), scheme |-> scheme(o), ip |-> ipAddressType(cfg, o),
   type |-> loadBalancerType(cfg, o), http2 |-> http2(o),
   sg |-> securityGroup(cfg, o), waf |-> annotationOr(o, "waf", cfg.globalWAFACL),
   ssl |-> sslPolicy(cfg, o), hasSSL |-> HasSSLPolicyAnnotation(o),
   clusterLocal |-> hostnames(cfg, o) = {}]

(* Whether ListIngress or ListRoutegroups returns the object. *)
Listed(cfg, o) == Supported(cfg, o) /\ ~Contradictory(o)

-----------------------------------------------------------------------------
(* Start-up: what loadSettings refuses *)

ValidThreshold(n) == n \in 2 .. 10

ValidPort(n) == n \in 0 .. 65535

loadSettings(cfg) ==
  /\ cfg.creationTimeout >= 60
  /\ ValidThreshold(cfg.albHealthy)
  /\ ValidThreshold(cfg.albUnhealthy)
  /\ ValidThreshold(cfg.nlbHealthy)
  /\ ValidPort(cfg.targetPort) /\ cfg.targetPort # 0
  /\ ValidPort(cfg.albHTTPTargetPort)
  /\ ValidPort(cfg.nlbHTTPTargetPort)
  /\ cfg.nlbHTTPTargetPort > 0 => cfg.nlbHTTPEnabled

(* WithIdleConnectionTimeout ignores a time outside the range AWS allows,  *)
(* and NewAdapter has set none.                                            *)
idleConnectionTimeout(cfg) == IF cfg.idle \in 1 .. 4000 THEN cfg.idle ELSE 0

(* WithTargetAccessMode *)
targetType(cfg) ==
  CASE cfg.accessMode = "HostPort" -> "instance"
    [] cfg.accessMode = "AWSCNI"   -> "ip"
    [] cfg.accessMode = "Legacy"   -> None
=============================================================================
