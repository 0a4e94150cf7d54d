--------------------------- MODULE MCProvisioning ---------------------------
(***************************************************************************)
(* What Provisioning is checked with: families of inputs that each vary    *)
(* one part of them around a base, since their product is out of reach.    *)
(***************************************************************************)
EXTENDS Provisioning, TLC

(* [f EXCEPT ![k] = v] for one or for up to two of the choices. *)
Vary(f, choices) ==
  {f} \cup UNION {{[f EXCEPT ![k] = v] : v \in choices[k]} : k \in DOMAIN choices}

VaryTwice(f, choices) == UNION {Vary(g, choices) : g \in Vary(f, choices)}

BaseConfig ==
  [loadBalancerType |-> "application", sslPolicy |-> "policy1", ipAddressType |-> "ipv4",
   securityGroup |-> "sg", globalWAFACL |-> None, targetPort |-> 9999,
   albHTTPTargetPort |-> 0, nlbHTTPTargetPort |-> 0, nlbHTTPEnabled |-> FALSE,
   httpRedirect |-> FALSE, denyInternal |-> FALSE, targetHTTPS |-> FALSE,
   accessMode |-> "HostPort", albHealthy |-> 5, albUnhealthy |-> 2, nlbHealthy |-> 3,
   creationTimeout |-> 300, protection |-> FALSE, idle |-> 60, tags |-> <<>>,
   alarms |-> <<>>, ingressFilters |-> {}, clusterLocalDomain |-> TRUE]

NetworkConfig ==
  [BaseConfig EXCEPT !.loadBalancerType = "network", !.nlbHTTPEnabled = TRUE,
                     !.nlbHTTPTargetPort = 8888]

ReservedTag == key("kubernetes:application") :> "somebody"

Alarm == [named |-> TRUE, namespace |-> None, dimensions |-> {"LoadBalancer", "TargetGroup"}]

SomeConfig ==
  [loadBalancerType |-> {"network"}, albHTTPTargetPort |-> {8888},
   nlbHTTPTargetPort |-> {8888}, nlbHTTPEnabled |-> {TRUE}, httpRedirect |-> {TRUE},
   denyInternal |-> {TRUE}, globalWAFACL |-> {"acl"}]

OtherConfig ==
  [targetHTTPS |-> {TRUE}, accessMode |-> {"AWSCNI", "Legacy"}, albHealthy |-> {1},
   albUnhealthy |-> {11}, nlbHealthy |-> {0}, creationTimeout |-> {59, 60},
   protection |-> {TRUE}, idle |-> {0, 4001}, tags |-> {ReservedTag},
   alarms |-> {<<Alarm>>, <<[Alarm EXCEPT !.named = FALSE, !.dimensions = {}]>>},
   ingressFilters |-> {{"skipper"}, {"skipper", None}}, clusterLocalDomain |-> {FALSE},
   targetPort |-> {0, 8888}, sslPolicy |-> {"policy2"}, ipAddressType |-> {"dualstack"}]

Plain ==
  [kind |-> "ingress", class |-> None, hosts |-> {"outside"},
   a |-> [x \in Annotation |-> None]]

With(annotations) == [Plain EXCEPT !.a = annotations]

SomeAnnotation ==
  [scheme |-> {"internal", "other"}, shared |-> {"false"}, ip |-> {"dualstack", "other"},
   ssl |-> {"policy2", "other"}, type |-> {"alb", "nlb", "other"}, sg |-> {"sg2"},
   waf |-> {"acl2"}, http2 |-> {"false"}, class |-> {"skipper", "nginx"}]

Objects ==
  {[Plain EXCEPT !.kind = kind, !.class = class, !.hosts = hosts, !.a.class = annotation] :
     kind \in {"ingress", "routegroup"}, class \in {None, "skipper"},
     annotation \in {None, "skipper"},
     hosts \in {{"outside"}, {"clusterLocal"}, {"empty", "clusterLocal"}}}

OneSubnet ==
  [subnets |-> {1}, zone |-> [s \in Subnet |-> "a"], tags |-> [s \in Subnet |-> {}],
   explicit |-> [s \in Subnet |-> NoTable], main |-> "public", internet |-> {"public"}]

VPC3(two, three, one, main) ==
  [subnets |-> {1, 2, 3}, zone |-> [s \in Subnet |-> IF s = 3 THEN "b" ELSE "a"],
   tags |-> [s \in Subnet |-> IF s = 2 THEN two ELSE three],
   explicit |-> [s \in Subnet |-> IF s = 1 THEN one ELSE NoTable],
   main |-> main, internet |-> {"public"}]

(* Two of the subnets are in one zone, the first of them with a route table *)
(* of its own or without, the second with any tags.                         *)
VPCs ==
  {VPC3(two, {"cluster"}, one, main) :
     two \in SUBSET Tag, one \in {NoTable, "private"}, main \in {NoTable, "public"}}
  \cup {VPC3(two, {}, "private", "public") : two \in SUBSET Tag}
  \cup {[VPC3({}, {}, NoTable, "public") EXCEPT !.subnets = s] : s \in {{}, {1, 2}}}

(* A stack from before load balancers had a type or HTTP/2 could be chosen. *)
LegacyStack(c) ==
  [template |-> [declared |-> DOMAIN Defaults \ {"Type", "HTTP2"},
                 outputs |-> ("TargetGroupARN" :> "TG"),
                 resources |-> {[kind |-> "LoadBalancer", name |-> "LB", attributes |-> {},
                                 idle |-> 60, http2 |-> TRUE, typed |-> FALSE, refs |-> {}]}],
   params |-> [LoadBalancerSchemeParameter |-> "internet-facing",
               LoadBalancerSecurityGroupParameter |-> "sg",
               ListenerSslPolicyParameter |-> "policy1", IpAddressType |-> "ipv4"],
   tags |-> (key("kubernetes:application") :> "controller") @@ (key("ClusterID") :> "cluster")
            @@ (key("ingress:certificate-arn") :> c),
   protected |-> FALSE]

Input(c, o, v, s) == [cfg |-> c, object |-> o, vpc |-> v, stack |-> s]

MCInputs ==
  {Input(c, o, OneSubnet, Absent) :
     c \in VaryTwice(BaseConfig, SomeConfig) \cup Vary(BaseConfig, OtherConfig)
           \cup Vary(NetworkConfig, OtherConfig),
     o \in {Plain, With([Plain.a EXCEPT !.waf = "acl2"])}}
  \cup {Input(NetworkConfig, With(a), OneSubnet, Absent) : a \in VaryTwice(Plain.a, SomeAnnotation)}
  \cup {Input(BaseConfig, With(a), OneSubnet, Absent) : a \in Vary(Plain.a, SomeAnnotation)}
  \cup {Input([BaseConfig EXCEPT !.ingressFilters = filters, !.clusterLocalDomain = local],
              o, OneSubnet, Absent) :
          filters \in {{}, {"skipper"}}, local \in BOOLEAN, o \in Objects}
  \cup {Input(BaseConfig, o, v, Absent) :
          v \in VPCs, o \in {Plain, With([Plain.a EXCEPT !.scheme = "internal"])}}
  \cup {Input(c, Plain, OneSubnet, LegacyStack(certificate)) :
          c \in {BaseConfig, NetworkConfig}, certificate \in Certificate}

MCNextSettings ==
  {[NetworkConfig EXCEPT !.globalWAFACL = "acl", !.protection = TRUE, !.denyInternal = TRUE,
                         !.sslPolicy = "policy2", !.albHTTPTargetPort = 8888,
                         !.alarms = <<Alarm>>, !.securityGroup = "sg3"]}

Symmetry == Permutations(Certificate)

MCNextVPC == {OneSubnet}
=============================================================================
