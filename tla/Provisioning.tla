---------------------------- MODULE Provisioning ----------------------------
(***************************************************************************)
(* From the annotations of a resource, the flags of the controller and the *)
(* subnets of the VPC to a CloudFormation stack, and back: the way of one  *)
(* load balancer through newIngress, CreateStack or UpdateStack,           *)
(* FindLBSubnets, generateTemplate, CloudFormation and mapToManagedStack,  *)
(* whose result is what the next cycle works on.  The controller may be    *)
(* restarted with other flags, the VPC may change, and CloudFormation may  *)
(* refuse a request or fail to carry it out.                               *)
(*                                                                         *)
(* Which load balancer a resource is put on is the subject of Matching,    *)
(* when a stack is created or deleted that of Controller; here there is    *)
(* one resource and at most one stack.                                     *)
(***************************************************************************)
EXTENDS Network, StackTemplate

CONSTANTS
  Inputs,         \* [cfg, object, vpc, stack]: what a history starts with
  NextSettings,   \* the flags a restart may bring
  NextVPC,        \* what the VPC may become
  Certificate,
  CertTTL         \* in half seconds

VARIABLES
  pc,        \* what the controller does
  cfg,       \* its flags
  object,    \* the Ingress or RouteGroup
  firstRun,  \* whether this is the first cycle since the start
  lb,        \* the load balancer the call is about, or Absent
  request,   \* what was sent to CloudFormation, or Absent
  stack,     \* the stack, or Absent
  applied    \* the load balancer the stack was last created or updated for

callVars == <<lb, request>>
cloudVars == <<stack, applied>>
provVars == <<netVars, pc, cfg, object, firstRun, callVars, cloudVars>>

Absent == [x \in {} |-> x]     \* no load balancer, no request, no stack

-----------------------------------------------------------------------------
(* Start-up *)

LoadSettings ==
  /\ pc = "load"
  /\ pc' = IF loadSettings(cfg) THEN "manifest" ELSE "exit"
  /\ UNCHANGED <<netVars, cfg, object, firstRun, callVars, cloudVars>>

ReadNetwork ==
  /\ pc = "manifest"
  /\ BuildManifest
  /\ pc' = "idle"
  /\ UNCHANGED <<cfg, object, firstRun, callVars, cloudVars>>

NoNetwork ==
  /\ pc = "manifest"
  /\ ~Discoverable
  /\ pc' = "exit"
  /\ UNCHANGED <<netVars, cfg, object, firstRun, callVars, cloudVars>>

-----------------------------------------------------------------------------
(* The load balancer of a cycle *)

Ing == newIngress(cfg, object)

Served == Listed(cfg, object) /\ ~Ing.clusterLocal

Managed == mapToManagedStack(stack)

(* addIngress *)
Joins ==
  LET m == Managed
      i == Ing
  IN  /\ Served
      /\ ~i.shared => m.owner # None
      /\ m.ip = i.ip /\ m.scheme = i.scheme
      /\ m.type = i.type /\ m.http2 = i.http2
      /\ i.shared => /\ m.sg = i.sg
                     /\ i.hasSSL => m.ssl = i.ssl
                     /\ m.waf = i.waf

NewLB(certificates) ==
  [scheme |-> Ing.scheme, sg |-> Ing.sg, ssl |-> Ing.ssl, ip |-> Ing.ip,
   type |-> Ing.type, http2 |-> Ing.http2, waf |-> Ing.waf,
   owner |-> IF Ing.shared THEN None ELSE "resource", alarms |-> cfg.alarms,
   certs |-> [c \in certificates |-> Zero]]

(* Certificates that nobody needs any more stay until their time is over;  *)
(* which of them are over is up to the clock.                              *)
Renewed(needed, over) ==
  LET old == Managed.certs
  IN  [c \in needed \cup (DOMAIN old \ over) |->
         IF c \in needed THEN Zero ELSE IF old[c] = Zero THEN CertTTL ELSE old[c]]

Expired == {c \in DOMAIN Managed.certs : Managed.certs[c] # Zero}

(* The stack's load balancer, with the resource on it or without. *)
StackLB(needed, over) ==
  LET m == Managed
  IN  [scheme |-> m.scheme, sg |-> m.sg,
       ssl |-> IF needed # {} THEN Ing.ssl ELSE m.ssl, ip |-> m.ip,
       type |-> m.type, http2 |-> m.http2, waf |-> m.waf,
       owner |-> IF needed = {} \/ Ing.shared THEN None ELSE "resource",
       alarms |-> cfg.alarms, certs |-> Renewed(needed, over)]

InSync(l) ==
  LET m == Managed
  IN  l.certs = m.certs /\ l.alarms = m.alarms /\ l.waf = m.waf /\ l.ssl = m.ssl

(* The certificates the resource gets: none unless it joins. *)
NeededSets == IF Joins THEN SUBSET Certificate ELSE {{}}

CreateStack ==
  /\ pc = "idle" /\ stack = Absent
  /\ Served
  /\ \E certificates \in (SUBSET Certificate) \ {{}} :
       lb' = NewLB(certificates)
  /\ StartFinding(Ing.scheme = "internal")
  /\ pc' = "find"
  /\ UNCHANGED <<cfg, object, firstRun, request, cloudVars>>

UpdateStack ==
  /\ pc = "idle" /\ stack # Absent
  /\ \E needed \in NeededSets, over \in SUBSET Expired :
       LET l == StackLB(needed, over)
       IN  /\ over # DOMAIN Managed.certs
           /\ firstRun \/ ~InSync(l)
           /\ l.ssl \in Policy
           /\ lb' = l
  /\ StartFinding(Managed.scheme = "internal")
  /\ pc' = "find"
  /\ UNCHANGED <<cfg, object, firstRun, request, cloudVars>>

(* ShouldDelete: no certificate is left.  The protection of the stack is   *)
(* taken away first, and stays away if the second call fails.              *)
DeleteStack ==
  /\ pc = "idle" /\ stack # Absent
  /\ DOMAIN Managed.certs = Expired
  /\ \/ stack' = Absent /\ applied' = Absent
     \/ stack' = [stack EXCEPT !.protected = FALSE] /\ applied' = applied
  /\ firstRun' = FALSE
  /\ UNCHANGED <<netVars, pc, cfg, object, callVars>>

NothingToDo ==
  /\ pc = "idle"
  /\ stack # Absent =>
       /\ ~firstRun /\ DOMAIN Managed.certs # {}
       /\ \E needed \in NeededSets : InSync(StackLB(needed, {}))
  /\ firstRun' = FALSE
  /\ UNCHANGED <<netVars, pc, cfg, object, callVars, cloudVars>>

-----------------------------------------------------------------------------
(* Adapter.CreateStack and Adapter.UpdateStack *)

httpTargetPort(type) ==
  CASE type = "application" /\ cfg.albHTTPTargetPort # 0 -> cfg.albHTTPTargetPort
    [] type = "network" /\ cfg.nlbHTTPTargetPort # 0 -> cfg.nlbHTTPTargetPort
    [] OTHER -> cfg.targetPort

httpDisabled(type) == type = "network" /\ ~cfg.nlbHTTPEnabled

stackSpec ==
  [scheme |-> lb.scheme, owner |-> lb.owner, certs |-> lb.certs, sg |-> lb.sg,
   ssl |-> lb.ssl, ip |-> lb.ip, type |-> lb.type, waf |-> lb.waf,
   alarms |-> lb.alarms, http2 |-> lb.http2, subnets |-> SubnetIDs,
   albHealthy |-> cfg.albHealthy, albUnhealthy |-> cfg.albUnhealthy,
   nlbHealthy |-> cfg.nlbHealthy, targetType |-> targetType(cfg),
   targetPort |-> cfg.targetPort, targetHTTPS |-> cfg.targetHTTPS,
   httpTargetPort |-> httpTargetPort(lb.type), httpDisabled |-> httpDisabled(lb.type),
   httpRedirect |-> cfg.httpRedirect, denyInternal |-> cfg.denyInternal,
   idle |-> idleConnectionTimeout(cfg), tags |-> cfg.tags]

ConsiderSubnet ==
  /\ pc = "find"
  /\ \E d \in left : Ignore(d) \/ Consider(d)
  /\ UNCHANGED <<pc, cfg, object, firstRun, callVars, cloudVars>>

Request ==
  [template |-> generateTemplate(stackSpec), params |-> Supplied(stackSpec),
   tags |-> Tags(stackSpec), minutes |-> cfg.creationTimeout \div 60,
   protected |-> cfg.protection]

SendRequest ==
  /\ pc = "find" /\ left = {}
  /\ request' = Request
  /\ pc' = "sent"
  /\ UNCHANGED <<netVars, cfg, object, firstRun, lb, cloudVars>>

(* updateStack turns the protection on before anything else. *)
Protect ==
  /\ pc = "sent" /\ stack # Absent
  /\ request.protected /\ ~stack.protected
  /\ stack' = [stack EXCEPT !.protected = TRUE]
  /\ UNCHANGED <<netVars, pc, cfg, object, firstRun, callVars, applied>>

-----------------------------------------------------------------------------
(* CloudFormation *)

Names(template) == {r.name : r \in template.resources}

Resources(template, kind) == {r \in template.resources : r.kind = kind}

(* Everything that is referred to exists, and parameters agree. *)
Resolves(template, params) ==
  LET names == Names(template)
  IN  /\ \A r \in template.resources :
           r.refs \subseteq names \cup template.declared \cup {"AWS::StackName"}
      /\ \A o \in DOMAIN template.outputs : template.outputs[o] \in names
      /\ DOMAIN params \subseteq template.declared
      /\ template.declared \ DOMAIN Defaults \subseteq DOMAIN params

(* What Elastic Load Balancing demands of an application load balancer and *)
(* of a network load balancer.                                             *)
FitsApplication(template) ==
  /\ \A b \in Resources(template, "LoadBalancer") :
       /\ b.attributes \subseteq {"idle_timeout", "http2", "access_logs"}
       /\ "idle_timeout" \in b.attributes => b.idle \in 1 .. 4000
  /\ \A g \in Resources(template, "TargetGroup") : g.protocol \in {"HTTP", "HTTPS"}

FitsNetwork(template) ==
  /\ \A b \in Resources(template, "LoadBalancer") :
       /\ b.attributes \subseteq {"cross_zone", "client_routing_policy", "access_logs"}
       /\ "LoadBalancerSecurityGroupParameter" \notin b.refs
  /\ \A g \in Resources(template, "TargetGroup") :
       /\ g.protocol = "TCP" /\ g.healthy = g.unhealthy
       /\ "TargetGroupHealthCheckTimeoutParameter" \notin g.refs
  /\ Resources(template, "WAFAssociation") = {}

Acceptable(r) ==
  /\ Resolves(r.template, r.params)
  /\ r.params.IpAddressType \in {"ipv4", "dualstack"}
  /\ r.params.LoadBalancerSubnetsParameter # {}
  /\ r.minutes >= 1
  /\ IF r.params.Type = "network"
       THEN FitsNetwork(r.template) ELSE FitsApplication(r.template)

(* The stack a request makes. *)
StackOf(r, protected) ==
  [template |-> r.template, tags |-> r.tags, protected |-> protected,
   params |-> Merge(r.params, Defaults)]

EndCall ==
  /\ pc' = "idle" /\ firstRun' = FALSE
  /\ lb' = Absent /\ request' = Absent
  /\ UNCHANGED <<netVars, cfg, object>>

Creates ==
  /\ pc = "sent" /\ stack = Absent
  /\ Acceptable(request)
  /\ stack' = StackOf(request, request.protected) /\ applied' = lb
  /\ EndCall

Updates ==
  /\ pc = "sent" /\ stack # Absent
  /\ request.protected => stack.protected
  /\ Acceptable(request)
  /\ stack' = StackOf(request, stack.protected) /\ applied' = lb
  /\ EndCall

(* The call fails, the request is refused, the creation ends in a deletion *)
(* or the update is rolled back.                                           *)
Fails ==
  /\ pc = "sent"
  /\ EndCall
  /\ UNCHANGED cloudVars

-----------------------------------------------------------------------------
(* The environment *)

Restart ==
  /\ pc \in {"idle", "exit"}
  /\ cfg' \in {cfg} \cup NextSettings
  /\ pc' = "load" /\ firstRun' = TRUE
  /\ Reboot
  /\ UNCHANGED <<object, callVars, cloudVars>>

NetworkChanges ==
  /\ pc \in {"idle", "exit"}
  /\ vpc' \in NextVPC
  /\ UNCHANGED <<manifest, loopVars, pc, cfg, object, firstRun, callVars, cloudVars>>

-----------------------------------------------------------------------------
(* What a history starts with *)

IsLB(l, expiries) ==
  /\ l.scheme \in Schemes /\ l.ssl \in Policy
  /\ l.type \in Types \cup {None}
  /\ l.http2 \in BOOLEAN
  /\ l.owner \in {None, "resource"}
  /\ DOMAIN l.certs \subseteq Certificate
  /\ l.certs \in [DOMAIN l.certs -> expiries]

StackTags == {"ingress:certificate-arn/", "ingress:certificate-arn", "ingress:owner",
              "cloudwatch:alarm-config-hash"}

(* The administrator's tags have none of the names the controller gives to *)
(* tags that differ from stack to stack.                                   *)
IsConfig(c) ==
  /\ c.loadBalancerType \in Types /\ c.sslPolicy \in Policy
  /\ c.creationTimeout \in Int
  /\ \A k \in DOMAIN c.tags :
       /\ k = key(k[1])
       /\ k[1] \notin StackTags

Targets(template) == {l.target : l \in Resources(template, "Listener")} \ {None}

(* A stack of the controller from before load balancers had a type. *)
IsOldStack(s) ==
  /\ s = [template |-> s.template, params |-> s.params, tags |-> s.tags,
           protected |-> s.protected]
  /\ isManagedStack(s.tags)
  /\ IsLB(mapToManagedStack(s), {Zero, FormatRFC3339(CertTTL)})
  /\ "Type" \notin DOMAIN s.params
  /\ Targets(s.template) \subseteq mapToManagedStack(s).targetGroups

ASSUME ProvisioningAssumption ==
  /\ \A i \in Inputs : IsConfig(i.cfg) /\ i.vpc \in VPC
                      /\ (i.stack = Absent \/ IsOldStack(i.stack))
  /\ \A c \in NextSettings : IsConfig(c)
  /\ NextVPC \subseteq VPC
  /\ CertTTL \in Nat

ProvisionInit ==
  /\ \E i \in Inputs :
       cfg = i.cfg /\ object = i.object /\ vpc = i.vpc /\ stack = i.stack
  /\ NoManifest
  /\ pc = "load" /\ firstRun = TRUE
  /\ lb = Absent /\ request = Absent /\ applied = Absent

ControllerStep ==
  \/ LoadSettings \/ ReadNetwork \/ NoNetwork
  \/ CreateStack \/ UpdateStack \/ DeleteStack \/ NothingToDo
  \/ ConsiderSubnet \/ SendRequest \/ Protect

CloudFormationStep == Creates \/ Updates \/ Fails

ProvisionNext ==
  \/ ControllerStep
  \/ CloudFormationStep
  \/ Restart
  \/ NetworkChanges

ProvisionSpec == ProvisionInit /\ [][ProvisionNext]_provVars

-----------------------------------------------------------------------------
ProvisionTypeOK ==
  /\ NetworkTypeOK
  /\ pc \in {"load", "exit", "manifest", "idle", "find", "sent"}
  /\ firstRun \in BOOLEAN
  /\ lb = Absent \/ IsLB(lb, {Zero, CertTTL, FormatRFC3339(CertTTL)})
  /\ pc \in {"find", "sent"} <=> lb # Absent
  /\ pc = "sent" <=> request # Absent
  /\ stack = Absent => applied = Absent
  /\ stack # Absent => IsLB(Managed, {Zero, FormatRFC3339(CertTTL)})

(* CloudFormation refuses a request of the controller for three reasons    *)
(* only, all of them in the hands of its users: an IP address type that    *)
(* does not exist, an idle timeout that is out of range, or a VPC without  *)
(* a subnet for the scheme.  Whatever the flags and annotations are, the   *)
(* template, its parameters and the rules for the type of the load         *)
(* balancer agree.  (Stacks from before there were types are excepted.)    *)
TemplateAccepted ==
  pc = "sent" /\ lb.type # None /\ lb.ip \in {"ipv4", "dualstack"} /\ SubnetIDs # {}
    /\ (lb.type = "application" => cfg.idle \in 1 .. 4000)
  => Acceptable(request)

(* With --deny-internal-domains, no listener of an application load        *)
(* balancer forwards requests without the rule that denies internal hosts. *)
InternalTrafficDenied ==
  pc = "sent" /\ cfg.denyInternal /\ lb.type = "application" =>
    \A l \in Resources(request.template, "Listener") :
      l.target # None =>
        \E r \in Resources(request.template, "DenyRule") : r.listener = l.name

(* The controller knows every target group that a listener forwards to, so *)
(* that targets are registered with it; it finds them in the outputs.      *)
TargetGroupsKnown ==
  stack # Absent => Targets(stack.template) \subseteq Managed.targetGroups

(* What a stack was made for is what is read back from its parameters and  *)
(* tags in the next cycle, but for fractions of a second; otherwise        *)
(* it would be updated for ever, or a resource would leave its stack.      *)
ReadBack ==
  applied # Absent =>
    LET m == Managed
    IN  /\ \A f \in {"scheme", "sg", "ssl", "ip", "type", "http2", "waf", "owner", "alarms"} :
             m[f] = applied[f]
        /\ m.certs = [c \in DOMAIN applied.certs |-> FormatRFC3339(applied.certs[c])]

(* A stack is found again as one of the controller's, whatever additional  *)
(* tags the administrator has chosen.                                      *)
StillManaged == stack # Absent => isManagedStack(stack.tags)

(* A resource that asks for a web ACL or a security group, and does not    *)
(* ask for a type that does not exist, gets an application load balancer   *)
(* with both, also if the default is a network load balancer and also      *)
(* after restarts with other flags.                                        *)
ProtectionApplied ==
  applied # Absent /\ object.a.type \in {None, "alb"} =>
    /\ object.a.waf # None =>
         /\ Resources(stack.template, "WAFAssociation") # {}
         /\ stack.params[WAFParameter] = object.a.waf
    /\ object.a.sg # None =>
         /\ stack.params.LoadBalancerSecurityGroupParameter = object.a.sg
         /\ \A b \in Resources(stack.template, "LoadBalancer") :
              "LoadBalancerSecurityGroupParameter" \in b.refs

(* An update never makes CloudFormation replace the load balancer: it      *)
(* keeps its scheme, its type and whether it has one at all (worker.go,    *)
(* addIngress and cf_template.go, LoadBalancerResourceLogicalID), also     *)
(* after restarts with another default type.                               *)
UpdatedInPlace ==
  [][stack # Absent /\ stack' # Absent =>
       /\ \A p \in {"LoadBalancerSchemeParameter", "Type"} :
            valueOr(stack'.params, p, None) = valueOr(stack.params, p, None)
       /\ {b.typed : b \in Resources(stack'.template, "LoadBalancer")}
            = {b.typed : b \in Resources(stack.template, "LoadBalancer")}]_provVars
=============================================================================
