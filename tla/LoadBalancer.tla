---------------------------- MODULE LoadBalancer ----------------------------
(***************************************************************************)
(* The in-memory load balancer model of the controller (worker.go): which  *)
(* resources a load balancer accepts, which certificates it must carry and *)
(* what has to be done with the CloudFormation stack behind it.            *)
(*                                                                         *)
(* This module has no variables: Matching uses it to place resources on    *)
(* load balancers, Controller to drive CloudFormation from the result.     *)
(*                                                                         *)
(* A point in time is represented by the time left until it.  NoExpiry     *)
(* stands for Go's zero time, which marks a certificate that is in use.    *)
(***************************************************************************)
EXTENDS Integers, FiniteSets, Sequences

CONSTANTS
  Ident,               \* Ingress and RouteGroup resources
  RouteGroup,          \* those that are RouteGroups
  Name,                \* "namespace/name" of a resource
  NameOf,              \* [Ident -> Name]; an Ingress and a RouteGroup may agree
  Host,                \* hostnames in the rules of resources
  Cert,                \* certificate ARNs
  BestMatch,           \* [SUBSET Cert -> [Host -> Cert \cup {None}]]
  StackName,           \* names of CloudFormation stacks, totally ordered
  Class,               \* scheme, IP address type, type and HTTP/2 of a load balancer
  SupportedClass,      \* the classes whose type is application or network
  SecurityGroup,
  ACL,                 \* WAF web ACLs, None included
  GlobalACL,           \* the --aws-waf-web-acl-id of the controller
  Policy,              \* TLS policies
  Alarms,              \* CloudWatch alarm configurations
  ClusterLocalDomain,  \* the key of resources that are reachable inside only
  None,                \* the empty string or nil
  MaxCerts,            \* certificates per load balancer
  CertTTL              \* how long an unused certificate is kept

ASSUME ConstantsAssumption ==
  /\ IsFiniteSet(Ident) /\ RouteGroup \subseteq Ident
  /\ NameOf \in [Ident -> Name]
  /\ BestMatch \in [SUBSET Cert -> [Host -> Cert \cup {None}]]
  /\ \A available \in SUBSET Cert, h \in Host :
       BestMatch[available][h] \in available \cup {None}
  /\ SupportedClass \subseteq Class
  /\ StackName \subseteq Nat /\ IsFiniteSet(StackName)
  /\ IsFiniteSet(Cert)
  /\ GlobalACL \in ACL
  /\ MaxCerts \in Nat
  /\ CertTTL \in Nat
  /\ None \notin Name /\ None \notin StackName
  /\ None \notin Class /\ None \notin Cert
  /\ ClusterLocalDomain \notin Cert

-----------------------------------------------------------------------------
(* Data *)

NoExpiry == -1

Expiry == {NoExpiry} \cup 0 .. CertTTL

Status == {"creating", "complete", "updating", "deleting", "delete_failed"}

(* A resource as the Kubernetes adapter presents it (kubernetes.Ingress). *)
Resource ==
  [shared : BOOLEAN, hosts : SUBSET Host, pinned : Cert \cup {None},
   class : SupportedClass, sg : SecurityGroup, waf : ACL,
   ssl : Policy, hasSSL : BOOLEAN]

EmptyMap == [x \in {} |-> x]

PartialFunction(f, D, R) == DOMAIN f \subseteq D /\ f \in [DOMAIN f -> R]

IsSequence(s) == s \in Seq({s[i] : i \in DOMAIN s})

(* A CloudFormation stack as the AWS adapter presents it (aws.Stack). *)
IsStack(s) ==
  /\ s \in [status : Status, owner : Name \cup {None}, class : Class,
            sg : SecurityGroup, waf : ACL, ssl : Policy, alarms : Alarms,
            certs : [DOMAIN s.certs -> Expiry]]
  /\ DOMAIN s.certs \subseteq Cert

(* A load balancer of the model (worker.go's loadBalancer). *)
IsLB(lb) ==
  /\ lb \in [stack : StackName \cup {None}, owner : Name \cup {None},
             clusterLocal : BOOLEAN,
             ingresses : [DOMAIN lb.ingresses -> SUBSET Ident],
             existing : [DOMAIN lb.existing -> Expiry], shared : BOOLEAN,
             class : Class \cup {None}, sg : SecurityGroup \cup {None},
             waf : ACL \cup {None}, ssl : Policy \cup {None}]
  /\ DOMAIN lb.ingresses \subseteq Cert \cup {ClusterLocalDomain}
  /\ DOMAIN lb.existing \subseteq Cert

-----------------------------------------------------------------------------
(* Stacks *)

IsComplete(stack) == stack.status = "complete"

(* No certificate of the stack is in use or kept for a while longer. *)
ShouldDelete(stack) ==
  \A c \in DOMAIN stack.certs : stack.certs[c] = 0

-----------------------------------------------------------------------------
(* Resources *)

ClusterLocal(r) == r.hosts = {}

AttachGlobalACL(r) ==
  IF r.waf = None THEN [r EXCEPT !.waf = GlobalACL] ELSE r

(* An error: a hostname without a match is not skipped. *)
CertificatesOrNone(r, available) ==
  IF r.pinned # None
    THEN {r.pinned} \cap available
    ELSE {BestMatch[available][h] : h \in r.hosts}

(* The certificates a resource asks for: the pinned one, or the best match *)
(* of every hostname that has one.                                         *)
CertificatesFor(r, available) ==
  IF r.pinned # None
    THEN {r.pinned} \cap available
    ELSE {BestMatch[available][h] : h \in r.hosts} \ {None}

-----------------------------------------------------------------------------
(* Load balancers *)

FromStack(name, stack, available) ==
  [stack |-> name, owner |-> stack.owner, clusterLocal |-> FALSE,
   ingresses |-> [c \in DOMAIN stack.certs \cap available |-> {}],
   existing |-> [c \in DOMAIN stack.certs \cap available |-> stack.certs[c]],
   shared |-> stack.owner = None, class |-> stack.class, sg |-> stack.sg,
   waf |-> stack.waf, ssl |-> stack.ssl]

ClusterLocalLB ==
  [stack |-> None, owner |-> None, clusterLocal |-> TRUE,
   ingresses |-> EmptyMap, existing |-> EmptyMap, shared |-> FALSE,
   class |-> None, sg |-> None, waf |-> None, ssl |-> None]

NewLB(id, r, wanted) ==
  [stack |-> None, owner |-> None, clusterLocal |-> FALSE,
   ingresses |-> [c \in wanted |-> {id}], existing |-> EmptyMap,
   shared |-> r.shared, class |-> r.class, sg |-> r.sg,
   waf |-> r.waf, ssl |-> r.ssl]

(* Errors: the owner, sharing, the web ACL or the certificate limit is     *)
(* ignored.                                                                *)
AcceptsForeign(lb, id, r, wanted) ==
  /\ lb.class \in SupportedClass
  /\ ~r.shared => NameOf[id] = lb.owner
  /\ lb.class = r.class
  /\ r.shared => lb.sg = r.sg /\ (r.hasSSL => lb.ssl = r.ssl) /\ lb.waf = r.waf
  /\ Cardinality(DOMAIN lb.ingresses \cup wanted) <= MaxCerts

AcceptsUnshared(lb, id, r, wanted) ==
  /\ lb.class \in SupportedClass
  /\ lb.owner # None => NameOf[id] = lb.owner
  /\ lb.class = r.class
  /\ r.shared => lb.sg = r.sg /\ (r.hasSSL => lb.ssl = r.ssl) /\ lb.waf = r.waf
  /\ Cardinality(DOMAIN lb.ingresses \cup wanted) <= MaxCerts

AcceptsAnyACL(lb, id, r, wanted) ==
  /\ lb.class \in SupportedClass
  /\ lb.owner # None => NameOf[id] = lb.owner
  /\ ~r.shared => NameOf[id] = lb.owner
  /\ lb.class = r.class
  /\ r.shared => lb.sg = r.sg /\ (r.hasSSL => lb.ssl = r.ssl)
  /\ Cardinality(DOMAIN lb.ingresses \cup wanted) <= MaxCerts

AcceptsBeyondLimit(lb, id, r, wanted) ==
  /\ lb.class \in SupportedClass
  /\ lb.owner # None => NameOf[id] = lb.owner
  /\ ~r.shared => NameOf[id] = lb.owner
  /\ lb.class = r.class
  /\ r.shared => lb.sg = r.sg /\ (r.hasSSL => lb.ssl = r.ssl) /\ lb.waf = r.waf
  /\ Cardinality(DOMAIN lb.ingresses) <= MaxCerts

(* The conditions under which addIngress and its caller let a load         *)
(* balancer take resource id.                                              *)
Accepts(lb, id, r, wanted) ==
  /\ lb.class \in SupportedClass
  /\ lb.owner # None => NameOf[id] = lb.owner
  /\ ~r.shared => NameOf[id] = lb.owner
  /\ lb.class = r.class
  /\ r.shared => /\ lb.sg = r.sg
                 /\ r.hasSSL => lb.ssl = r.ssl
                 /\ lb.waf = r.waf
  /\ Cardinality(DOMAIN lb.ingresses \cup wanted) <= MaxCerts

(* An error: the resources that were there before are forgotten. *)
ReplaceIn(lb, id, keys) ==
  [lb EXCEPT !.ingresses =
     [k \in DOMAIN lb.ingresses \cup keys |->
        IF k \in keys THEN {id} ELSE lb.ingresses[k]]]

(* Resource id joins the load balancer under each of the keys. *)
AddTo(lb, id, keys) ==
  [lb EXCEPT !.ingresses =
     [k \in DOMAIN lb.ingresses \cup keys |->
        (IF k \in DOMAIN lb.ingresses THEN lb.ingresses[k] ELSE {})
        \cup (IF k \in keys THEN {id} ELSE {})]]

(* An error: whether the load balancer is shared is not brought up to date. *)
AddIngressOnly(lb, id, r, wanted) ==
  [AddTo(lb, id, wanted) EXCEPT !.ssl = r.ssl]

AddIngress(lb, id, r, wanted) ==
  [AddTo(lb, id, wanted) EXCEPT !.shared = r.shared, !.ssl = r.ssl]

Members(lb) == UNION {lb.ingresses[k] : k \in DOMAIN lb.ingresses}

Needed(lb) == {c \in DOMAIN lb.ingresses : lb.ingresses[c] # {}}

(* An error: certificates leave as soon as they are not needed. *)
NeededARNs(lb) == [c \in Needed(lb) |-> NoExpiry]

(* What the stack should carry: certificates that are needed, and those    *)
(* that were needed until not long ago.                                    *)
CertificateARNs(lb) ==
  LET kept == {c \in DOMAIN lb.existing \ Needed(lb) : lb.existing[c] # 0}
  IN  [c \in Needed(lb) \cup kept |->
         IF c \in Needed(lb) THEN NoExpiry
         ELSE IF lb.existing[c] = NoExpiry THEN CertTTL ELSE lb.existing[c]]

(* The resource that owns the load balancer; Go's iteration order decides  *)
(* if there are several.                                                   *)
Owners(lb) ==
  IF lb.shared \/ Members(lb) = {} THEN {None}
  ELSE {NameOf[id] : id \in Members(lb)}

(* Errors: a change of the certificates or the alarms goes unnoticed. *)
InSyncButCertificates(lb, stack, alarms) ==
  /\ alarms = stack.alarms
  /\ lb.waf = stack.waf
  /\ lb.ssl = stack.ssl

InSyncButAlarms(lb, stack, alarms) ==
  /\ CertificateARNs(lb) = stack.certs
  /\ lb.waf = stack.waf
  /\ lb.ssl = stack.ssl

InSync(lb, stack, alarms) ==
  /\ CertificateARNs(lb) = stack.certs
  /\ alarms = stack.alarms
  /\ lb.waf = stack.waf
  /\ lb.ssl = stack.ssl

LBStatus(lb, stack, alarms, firstRun) ==
  CASE lb.clusterLocal                -> "ready"
    [] ~lb.clusterLocal /\ lb.stack = None -> "missing"
    [] OTHER ->
         IF ShouldDelete(stack) THEN "delete"
         ELSE IF firstRun \/ (~InSync(lb, stack, alarms) /\ IsComplete(stack))
              THEN "update" ELSE "ready"
=============================================================================
