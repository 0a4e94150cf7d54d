----------------------------- MODULE Controller -----------------------------
(***************************************************************************)
(* The poll loop of the controller (worker.go: startPolling and doWork)    *)
(* against a Kubernetes API server, CloudFormation and ACM that change     *)
(* between any two of its calls.                                           *)
(*                                                                         *)
(* A cycle reads the resources, the stacks, the state of the load          *)
(* balancers, the certificates and the alarms one after the other; places  *)
(* the resources on load balancers (module Matching); and then walks over  *)
(* the load balancers, deleting, creating or updating the stack of each    *)
(* and writing its DNS name into the status of its resources.              *)
(*                                                                         *)
(* The DNS name of a load balancer is represented by the name of its       *)
(* stack, a point in time by the time left until it (see LoadBalancer).    *)
(***************************************************************************)
EXTENDS Matching

CONSTANTS
  Resources,    \* what users may write into a resource
  MinAge,       \* --min-load-balancer-age
  MaxChanges,   \* bound on the changes made by users and administrators
  MaxFaults,    \* bound on the failures
  FaultKinds,   \* which failures may happen
  Timely        \* does CertTTL exceed the time it takes to move a resource?

ASSUME ControllerAssumption ==
  /\ Resources \subseteq Resource
  /\ MinAge \in Nat
  /\ MaxChanges \in Nat /\ MaxFaults \in Nat
  /\ Timely \in BOOLEAN

VARIABLES
  kube,       \* API server: the resources
  hostname,   \* API server: the load balancer in the status of each resource
  alarms,     \* API server: the ConfigMap with the CloudWatch alarms
  certs,      \* ACM and IAM: the valid certificates
  stacks,     \* CloudFormation: the stacks of this controller
  previous,   \* CloudFormation: what to return to if an update fails
  elb,        \* EC2: the state of the load balancer of each stack
  young,      \* EC2: the time until that load balancer is MinAge old
  pc,         \* the next thing the controller does
  firstRun,   \* the controller has not completed a cycle since its start
  rgSupport,  \* Kubernetes adapter: routeGroupSupport
  view,       \* what the cycle has read, apart from snap, available, listed
  at,         \* the load balancer of the model that is worked on
  queue,      \* the resources whose status is still to be updated
  idle,       \* nothing has happened since a cycle that did nothing
  changes,    \* the number of changes left to happen
  faults      \* the number of failures left to happen

kubeVars == <<kube, hostname, alarms>>

cloudVars == <<stacks, previous, elb, young>>

cycleVars == <<matchVars, view, at, queue>>

budget == <<changes, faults>>

vars == <<kubeVars, certs, cloudVars, cycleVars, pc, firstRun, rgSupport,
          idle, budget>>

NoView == [hostname |-> [id \in Ident |-> None], active |-> {}, alarms |-> None]

Reading == {"resources", "stacks", "elbs", "certs", "alarms"}

Working == {"build", "match", "apply", "publish"}

-----------------------------------------------------------------------------
(* Failures *)

Fault(kind) ==
  /\ kind \in FaultKinds
  /\ faults > 0
  /\ faults' = faults - 1
  /\ UNCHANGED changes

(* What doWork keeps in local variables is gone when it returns. *)
ForgetCycle ==
  /\ snap' = EmptyMap /\ available' = {} /\ listed' = EmptyMap
  /\ todo' = {} /\ model' = <<>>
  /\ view' = NoView /\ at' = 0 /\ queue' = {}

(* doWork returns, with or without problems; startPolling clears firstRun  *)
(* in both cases.                                                          *)
EndCycle ==
  /\ ForgetCycle
  /\ pc' = "sleep"
  /\ firstRun' = FALSE

-----------------------------------------------------------------------------
(* Reading *)

Wake ==
  /\ pc = "sleep"
  /\ pc' = "resources"
  /\ idle' = Timely
  /\ UNCHANGED <<kubeVars, certs, cloudVars, cycleVars, firstRun, rgSupport, budget>>

ListResources ==
  /\ pc = "resources"
  /\ \/ rgSupport' = rgSupport /\ UNCHANGED budget
     \/ rgSupport /\ rgSupport' = FALSE /\ Fault("forbidden")
  /\ listed' = [id \in {i \in DOMAIN kube : i \in RouteGroup => rgSupport'} |-> kube[id]]
  /\ view' = [view EXCEPT !.hostname = hostname]
  /\ pc' = "stacks"
  /\ UNCHANGED <<kubeVars, certs, cloudVars, snap, available, todo, model, at,
                 queue, firstRun, idle>>

(* An error: stacks CloudFormation is working on are left out. *)
FindCompleteStacks ==
  /\ pc = "stacks"
  /\ snap' = [s \in {t \in DOMAIN stacks : IsComplete(stacks[t])} |-> stacks[s]]
  /\ pc' = "elbs"
  /\ UNCHANGED <<kubeVars, certs, cloudVars, available, listed, todo, model,
                 view, at, queue, firstRun, rgSupport, idle, budget>>

FindManagedStacks ==
  /\ pc = "stacks"
  /\ snap' = stacks
  /\ pc' = "elbs"
  /\ UNCHANGED <<kubeVars, certs, cloudVars, available, listed, todo, model,
                 view, at, queue, firstRun, rgSupport, idle, budget>>

GetStackLBStates ==
  /\ pc = "elbs"
  /\ view' = [view EXCEPT !.active = {s \in DOMAIN snap : elb[s] = "active"}]
  /\ pc' = "certs"
  /\ UNCHANGED <<kubeVars, certs, cloudVars, matchVars, at, queue, firstRun,
                 rgSupport, idle, budget>>

GetCertificates ==
  /\ pc = "certs"
  /\ IF certs = {}
       THEN EndCycle
       ELSE /\ available' = certs
            /\ pc' = "alarms"
            /\ UNCHANGED <<snap, listed, todo, model, view, at, queue, firstRun>>
  /\ UNCHANGED <<kubeVars, certs, cloudVars, rgSupport, idle, budget>>

GetCloudWatchAlarms ==
  /\ pc = "alarms"
  /\ view' = [view EXCEPT !.alarms = alarms]
  /\ pc' = "build"
  /\ UNCHANGED <<kubeVars, certs, cloudVars, matchVars, at, queue, firstRun,
                 rgSupport, idle, budget>>

(* Any of these calls may fail, and so may reading the EC2 instances. *)
CycleFails ==
  /\ pc \in Reading
  /\ Fault("api")
  /\ EndCycle
  /\ idle' = FALSE
  /\ UNCHANGED <<kubeVars, certs, cloudVars, rgSupport>>

-----------------------------------------------------------------------------
(* Building the model *)

BuildModel ==
  /\ pc = "build"
  /\ listed' = [id \in DOMAIN listed |-> AttachGlobalACL(listed[id])]
  /\ todo' = DOMAIN listed
  /\ \E order \in Orderings : model' = ModelOf(order)
  /\ pc' = "match"
  /\ UNCHANGED <<kubeVars, certs, cloudVars, snap, available, view, at, queue,
                 firstRun, rgSupport, idle, budget>>

MatchResource ==
  /\ pc = "match"
  /\ \E id \in Ident : Place(id)
  /\ UNCHANGED <<kubeVars, certs, cloudVars, view, at, queue, pc, firstRun,
                 rgSupport, idle, budget>>

StartApplying ==
  /\ pc = "match"
  /\ todo = {}
  /\ pc' = "apply"
  /\ at' = 1
  /\ UNCHANGED <<kubeVars, certs, cloudVars, matchVars, view, queue, firstRun,
                 rgSupport, idle, budget>>

-----------------------------------------------------------------------------
(* Working through the model *)

Current == model[at]

StatusIs(status) ==
  /\ pc = "apply"
  /\ at <= Len(model)
  /\ LBStatus(Current, snap[Current.stack], view.alarms, firstRun) = status

(* The resources of the current load balancer whose status updateIngress   *)
(* will write.  It judges the stack by what was read in this cycle.        *)
ToPublish ==
  IF \/ Current.clusterLocal
     \/ /\ Current.stack # None
        /\ IsComplete(snap[Current.stack])
        /\ Current.stack \in view.active
        /\ young[Current.stack] = 0
    THEN {id \in Members(Current) : view.hostname[id] # Current.stack}
    ELSE {}

NextLB ==
  /\ pc' = "apply"
  /\ at' = at + 1
  /\ UNCHANGED queue

(* An error: nothing to publish is not noticed. *)
PublishNothing ==
  pc' = "publish" /\ queue' = ToPublish /\ UNCHANGED at

Publish ==
  IF ToPublish = {}
    THEN NextLB
    ELSE pc' = "publish" /\ queue' = ToPublish /\ UNCHANGED at

(* CreateStack draws a UUID for the name.  A name nobody refers to any more *)
(* is as good as one that was never used; if there is none left, the        *)
(* account's quota of stacks is exhausted.                                  *)
Unused ==
  StackName \ (DOMAIN stacks \cup DOMAIN snap
               \cup {hostname[id] : id \in Ident}
               \cup {view.hostname[id] : id \in Ident})

CreatedStack(owner) ==
  [status |-> "creating", owner |-> owner, class |-> Current.class,
   sg |-> Current.sg, waf |-> Current.waf, ssl |-> Current.ssl,
   alarms |-> view.alarms,
   certs |-> [c \in DOMAIN Current.ingresses |-> NoExpiry]]

CreateStack ==
  /\ StatusIs("missing")
  /\ \E s \in Unused, owner \in Owners(Current) :
       /\ stacks' = [n \in DOMAIN stacks \cup {s} |->
            IF n \in DOMAIN stacks THEN stacks[n] ELSE CreatedStack(owner)]
       /\ young' = [young EXCEPT ![s] = MinAge]
  /\ NextLB
  /\ idle' = FALSE
  /\ UNCHANGED <<kubeVars, certs, previous, elb, matchVars, view, firstRun,
                 rgSupport, budget>>

UpdatedStack(owner) ==
  [status |-> "updating", owner |-> owner, class |-> Current.class,
   sg |-> Current.sg, waf |-> Current.waf, ssl |-> Current.ssl,
   alarms |-> view.alarms, certs |-> CertificateARNs(Current)]

(* CloudFormation refuses to update a stack that is not complete, and does *)
(* nothing if nothing changes.                                             *)
Updatable(s, new) ==
  /\ s \in DOMAIN stacks
  /\ IsComplete(stacks[s])
  /\ stacks[s] # [new EXCEPT !.status = "complete"]

UpdateStack ==
  /\ StatusIs("update")
  /\ \E owner \in Owners(Current) :
       LET s == Current.stack IN
       IF Updatable(s, UpdatedStack(owner))
         THEN /\ stacks' = [stacks EXCEPT ![s] = UpdatedStack(owner)]
              /\ previous' = [n \in DOMAIN previous \cup {s} |->
                                IF n = s THEN stacks[s] ELSE previous[n]]
              /\ idle' = FALSE
         ELSE UNCHANGED <<stacks, previous, idle>>
  /\ Publish
  /\ UNCHANGED <<kubeVars, certs, elb, young, matchVars, view, firstRun,
                 rgSupport, budget>>

DeleteStack ==
  /\ StatusIs("delete")
  /\ stacks' = [s \in DOMAIN stacks |->
       IF s = Current.stack THEN [stacks[s] EXCEPT !.status = "deleting"]
       ELSE stacks[s]]
  /\ previous' = [s \in DOMAIN previous \ {Current.stack} |-> previous[s]]
  /\ NextLB
  /\ idle' = FALSE
  /\ UNCHANGED <<kubeVars, certs, elb, young, matchVars, view, firstRun,
                 rgSupport, budget>>

(* The load balancer is ready: only the resources need a look. *)
Ready ==
  /\ StatusIs("ready")
  /\ Publish
  /\ UNCHANGED <<kubeVars, certs, cloudVars, matchVars, view, firstRun,
                 rgSupport, idle, budget>>

(* The call to CloudFormation fails; the cycle goes on. *)
StackCallFails ==
  /\ \/ StatusIs("missing") /\ NextLB
     \/ StatusIs("delete") /\ NextLB
     \/ StatusIs("update") /\ Publish
  /\ Fault("api")
  /\ idle' = FALSE
  /\ UNCHANGED <<kubeVars, certs, cloudVars, matchVars, view, firstRun, rgSupport>>

(* The account has no stack left: CreateStack fails with LimitExceeded. *)
QuotaExhausted ==
  /\ StatusIs("missing")
  /\ Unused = {}
  /\ NextLB
  /\ idle' = FALSE
  /\ UNCHANGED <<kubeVars, certs, cloudVars, matchVars, view, firstRun,
                 rgSupport, budget>>

Dequeue(id) ==
  /\ pc = "publish"
  /\ id \in queue
  /\ queue' = queue \ {id}
  /\ IF queue' = {} THEN pc' = "apply" /\ at' = at + 1 ELSE UNCHANGED <<pc, at>>
  /\ idle' = FALSE

(* The patch is applied to whatever bears the name of the resource now. *)
UpdateIngressLoadBalancer(id) ==
  /\ Dequeue(id)
  /\ hostname' = IF id \in DOMAIN kube
                   THEN [hostname EXCEPT ![id] = Current.stack] ELSE hostname
  /\ UNCHANGED <<kube, alarms, certs, cloudVars, matchVars, view, firstRun,
                 rgSupport, budget>>

PatchFails(id) ==
  /\ Dequeue(id)
  /\ Fault("api")
  /\ UNCHANGED <<kubeVars, certs, cloudVars, matchVars, view, firstRun, rgSupport>>

FinishCycle ==
  /\ pc = "apply"
  /\ at > Len(model)
  /\ EndCycle
  /\ UNCHANGED <<kubeVars, certs, cloudVars, rgSupport, idle, budget>>

(* The process dies anywhere and is started again. *)
Restart ==
  /\ Fault("crash")
  /\ ForgetCycle
  /\ pc' = "sleep"
  /\ firstRun' = TRUE
  /\ rgSupport' = TRUE
  /\ idle' = FALSE
  /\ UNCHANGED <<kubeVars, certs, cloudVars>>

-----------------------------------------------------------------------------
(* The environment *)

Environment ==
  /\ idle' = FALSE
  /\ UNCHANGED <<cycleVars, pc, firstRun, rgSupport>>

(* The matching reads nothing of what users change: no need to interleave. *)
Change ==
  /\ Environment
  /\ pc \notin {"build", "match"}
  /\ changes > 0
  /\ changes' = changes - 1
  /\ UNCHANGED <<cloudVars, faults>>

WriteResource(id) ==
  /\ Change
  /\ \E r \in Resources :
       /\ id \in DOMAIN kube => kube[id] # r
       /\ kube' = [i \in DOMAIN kube \cup {id} |-> IF i = id THEN r ELSE kube[i]]
  /\ UNCHANGED <<hostname, alarms, certs>>

RemoveResource(id) ==
  /\ Change
  /\ id \in DOMAIN kube
  /\ kube' = [i \in DOMAIN kube \ {id} |-> kube[i]]
  /\ hostname' = [hostname EXCEPT ![id] = None]
  /\ UNCHANGED <<alarms, certs>>

WriteAlarms ==
  /\ Change
  /\ \E a \in Alarms \ {alarms} : alarms' = a
  /\ UNCHANGED <<kube, hostname, certs>>

AddCertificate ==
  /\ Change
  /\ \E c \in Cert \ certs : certs' = certs \cup {c}
  /\ UNCHANGED kubeVars

CertificateExpires ==
  /\ "expiry" \in FaultKinds
  /\ Change
  /\ \E c \in certs : certs' = certs \ {c}
  /\ UNCHANGED kubeVars

(* CloudFormation works on stack s. *)
Progress(s, from, to) ==
  /\ Environment
  /\ s \in DOMAIN stacks
  /\ stacks[s].status = from
  /\ stacks' = [stacks EXCEPT ![s].status = to]
  /\ UNCHANGED <<kubeVars, certs, young>>

CreateCompletes(s) ==
  /\ Progress(s, "creating", "complete")
  /\ elb' = [elb EXCEPT ![s] = "provisioning"]
  /\ UNCHANGED <<previous, budget>>

(* The stacks are created with OnFailure=DELETE. *)
CreateFails(s) ==
  /\ Progress(s, "creating", "deleting")
  /\ Fault("create")
  /\ UNCHANGED <<previous, elb>>

Settle(s) == previous' = [n \in DOMAIN previous \ {s} |-> previous[n]]

UpdateCompletes(s) ==
  /\ Progress(s, "updating", "complete")
  /\ Settle(s)
  /\ UNCHANGED <<elb, budget>>

UpdateRollsBack(s) ==
  /\ Environment
  /\ s \in DOMAIN previous
  /\ Fault("rollback")
  /\ stacks' = [stacks EXCEPT ![s] = previous[s]]
  /\ Settle(s)
  /\ UNCHANGED <<kubeVars, certs, elb, young>>

DeleteCompletes(s) ==
  /\ Environment
  /\ s \in DOMAIN stacks
  /\ stacks[s].status = "deleting"
  /\ stacks' = [n \in DOMAIN stacks \ {s} |-> stacks[n]]
  /\ elb' = [elb EXCEPT ![s] = "none"]
  /\ UNCHANGED <<kubeVars, certs, previous, young, budget>>

DeleteFails(s) ==
  /\ Progress(s, "deleting", "delete_failed")
  /\ Fault("delete")
  /\ UNCHANGED <<previous, elb>>

LoadBalancerActive(s) ==
  /\ Environment
  /\ elb[s] = "provisioning"
  /\ elb' = [elb EXCEPT ![s] = "active"]
  /\ UNCHANGED <<kubeVars, certs, stacks, previous, young, budget>>

-----------------------------------------------------------------------------
(* Time passes: every date comes closer, also those the cycle remembers. *)

Later(t) == IF t > 0 THEN t - 1 ELSE t

Older(certificates) == [c \in DOMAIN certificates |-> Later(certificates[c])]

Aged(f) == [s \in DOMAIN f |-> [f[s] EXCEPT !.certs = Older(@)]]

(* CloudFormation has nothing to do for stack s. *)
Quiet(s) ==
  stacks[s].status \in {"complete", "delete_failed"} /\ elb[s] # "provisioning"

(* If Timely, an hour (CertTTL, MinAge) is long: it does not pass before   *)
(* CloudFormation is done and a poll cycle has found nothing left to do.   *)
Tick ==
  /\ Timely => pc = "sleep" /\ idle /\ \A s \in DOMAIN stacks : Quiet(s)
  /\ stacks' = Aged(stacks)
  /\ previous' = Aged(previous)
  /\ young' = [s \in StackName |-> Later(young[s])]
  /\ snap' = Aged(snap)
  /\ model' = [i \in DOMAIN model |-> [model[i] EXCEPT !.existing = Older(@)]]
  /\ <<stacks, young>>' # <<stacks, young>>
  /\ idle' = FALSE
  /\ UNCHANGED <<kubeVars, certs, elb, available, listed, todo, view, at, queue,
                 pc, firstRun, rgSupport, budget>>

-----------------------------------------------------------------------------
Installed ==
  /\ hostname = [id \in Ident |-> None]
  /\ stacks = EmptyMap /\ previous = EmptyMap
  /\ elb = [s \in StackName |-> "none"]
  /\ young = [s \in StackName |-> 0]
  /\ pc = "sleep" /\ firstRun = TRUE /\ rgSupport = TRUE /\ idle = FALSE
  /\ snap = EmptyMap /\ available = {} /\ listed = EmptyMap
  /\ todo = {} /\ model = <<>>
  /\ view = NoView /\ at = 0 /\ queue = {}

SystemInit ==
  /\ Installed
  /\ \E known \in SUBSET Ident : kube \in [known -> Resources]
  /\ alarms \in Alarms
  /\ certs \in SUBSET Cert
  /\ changes = MaxChanges /\ faults = MaxFaults

PollStep ==
  \/ Wake \/ ListResources \/ FindManagedStacks \/ GetStackLBStates
  \/ GetCertificates \/ GetCloudWatchAlarms \/ BuildModel \/ MatchResource
  \/ StartApplying \/ CreateStack \/ UpdateStack \/ DeleteStack \/ Ready
  \/ QuotaExhausted \/ FinishCycle
  \/ \E id \in Ident : UpdateIngressLoadBalancer(id)

PollFailure ==
  \/ CycleFails \/ StackCallFails \/ Restart
  \/ \E id \in Ident : PatchFails(id)

CloudProgress(s) ==
  \/ CreateCompletes(s) \/ UpdateCompletes(s) \/ DeleteCompletes(s)
  \/ LoadBalancerActive(s)

CloudFailure(s) == CreateFails(s) \/ UpdateRollsBack(s) \/ DeleteFails(s)

UserStep ==
  \/ \E id \in Ident : WriteResource(id) \/ RemoveResource(id)
  \/ WriteAlarms \/ AddCertificate \/ CertificateExpires

SystemNext ==
  \/ PollStep \/ PollFailure \/ UserStep \/ Tick
  \/ \E s \in StackName : CloudProgress(s) \/ CloudFailure(s)

SystemSpec == SystemInit /\ [][SystemNext]_vars

(* CloudFormation and the load balancers come to an end with what they are *)
(* doing, the controller keeps polling, and time passes.                   *)
Fairness ==
  /\ WF_vars(PollStep)
  /\ WF_vars(Tick)
  /\ \A s \in StackName : WF_vars(CloudProgress(s))

FairSpec == SystemSpec /\ Fairness

-----------------------------------------------------------------------------
(* Properties *)

SystemTypeOK ==
  /\ PartialFunction(kube, Ident, Resources)
  /\ hostname \in [Ident -> StackName \cup {None}]
  /\ alarms \in Alarms
  /\ certs \subseteq Cert
  /\ IsSnapshot(stacks)
  /\ IsSnapshot(previous)
  /\ DOMAIN previous = {s \in DOMAIN stacks : stacks[s].status = "updating"}
  /\ elb \in [StackName -> {"none", "provisioning", "active"}]
  /\ young \in [StackName -> 0 .. MinAge]
  /\ pc \in Reading \cup Working \cup {"sleep"}
  /\ firstRun \in BOOLEAN /\ rgSupport \in BOOLEAN /\ idle \in BOOLEAN
  /\ TypeOK
  /\ view \in [hostname : [Ident -> StackName \cup {None}],
               active : SUBSET StackName, alarms : Alarms \cup {None}]
  /\ at \in 0 .. Len(model) + 1
  /\ queue \subseteq Ident
  /\ pc = "publish" => at \in DOMAIN model /\ queue # {}
  /\ changes \in 0 .. MaxChanges /\ faults \in 0 .. MaxFaults

(* No resource is ever sent to a load balancer that another one owns:      *)
(* whatever the order of annotation changes, updates, rollbacks and        *)
(* restarts, a stack with an owner has not been published for anybody else.*)
ExclusiveHostnames ==
  \A id \in DOMAIN kube : \A s \in DOMAIN stacks :
    hostname[id] = s /\ stacks[s].owner # None => NameOf[id] = stacks[s].owner

(* Where all resources share and agree in their settings and all           *)
(* certificates fit on one load balancer, there is never a second stack:   *)
(* not while the first is being created, updated or deleted, not after a   *)
(* failure or a restart.                                                   *)
Uniform ==
  /\ \A q, r \in Resources :
       /\ q.shared /\ q.class = r.class /\ q.sg = r.sg /\ q.ssl = r.ssl
       /\ AttachGlobalACL(q).waf = AttachGlobalACL(r).waf
  /\ Cardinality(Cert) <= MaxCerts

Aggregated ==
  Uniform => Cardinality(DOMAIN stacks) <= 1

(* A certificate leaves a stack only after its time has run out, or if it  *)
(* is no longer valid, or because an update is rolled back                 *)
(* (controller.go:115: "how long a certificate is kept on an old ALB"), or *)
(* because a controller that has just started read the stack during an     *)
(* update: it writes what it read then, even if that was rolled back since.*)
GracePeriod ==
  [][\A s \in DOMAIN stacks \cap DOMAIN stacks' :
       \A c \in DOMAIN stacks[s].certs \ DOMAIN stacks'[s].certs :
         \/ stacks[s].certs[c] = 0
         \/ c \notin available
         \/ s \in DOMAIN previous
         \/ firstRun /\ s \in DOMAIN snap /\ snap[s].status = "updating"]_vars

(* The controller does not take down a load balancer that any resource is  *)
(* still published on, one that the cycle has not listed or finds no       *)
(* certificate for included, provided that CertTTL is long enough.         *)
DownFor(s) ==
  /\ s \in DOMAIN stacks /\ stacks[s].status # "deleting"
  /\ pc = "apply" /\ stacks'[s].status = "deleting"

StillServed ==
  [][\A s \in StackName : DownFor(s) =>
       \A id \in DOMAIN kube : hostname[id] # s]_vars

(* Once users leave it alone, the system settles: every resource with a    *)
(* certificate is published on an active load balancer that carries its    *)
(* certificates for good and that it owns or shares; no other stack is     *)
(* left, and nothing is changed any more.                                  *)
Served(id) ==
  LET r == AttachGlobalACL(kube[id])
      wanted == CertificatesFor(r, certs)
  IN  IF ClusterLocal(r) THEN hostname[id] = None
      ELSE wanted # {} =>
             \E s \in DOMAIN stacks :
               /\ hostname[id] = s
               /\ IsComplete(stacks[s]) /\ elb[s] = "active"
               /\ \A c \in wanted : c \in DOMAIN stacks[s].certs
                                   /\ stacks[s].certs[c] = NoExpiry
               /\ stacks[s].class = r.class
               /\ stacks[s].owner \in {NameOf[id]} \cup IF r.shared THEN {None} ELSE {}

Settled ==
  /\ \A id \in DOMAIN kube : (id \in RouteGroup => rgSupport) => Served(id)
  /\ \A s \in DOMAIN stacks :
       /\ stacks[s].alarms = alarms
       /\ \E id \in DOMAIN kube : hostname[id] = s

Settles == <>[](certs # {} => Settled)

-----------------------------------------------------------------------------
(* Claims of the documentation that the code does not keep. *)

(* README.md:260-261: "For each cycle it creates load balancers for new    *)
(* ingress resources".                                                     *)
NewResourcesServed == <>[](certs # {} => \A id \in DOMAIN kube : Served(id))

(* README.md:597-599: "The ingress annotation overrides the global         *)
(* setting, and the controller will create separate load balancers for     *)
(* those ingresses using a separate WAF association."                      *)
AnnotatedACLApplied ==
  <>[](certs # {} =>
         \A id \in DOMAIN kube : \A s \in DOMAIN stacks :
           hostname[id] = s => stacks[s].waf = AttachGlobalACL(kube[id]).waf)
=============================================================================
