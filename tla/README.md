# Kube Ingress AWS Controller: a TLA+ verification project

The controller watches Ingress and RouteGroup resources of a Kubernetes cluster
and maintains, through CloudFormation, the AWS load balancers that serve them.
This directory holds a TLA+ model of it, TLC configurations that check the model
on small instances, and proofs that TLAPS checks for all instances. All paths in
this text are relative to the repository.

## 1. Inventory

| Component | State | Operations | Interacts with |
|---|---|---|---|
| Poll loop (`worker.go`: `startPolling`, `doWork`) | `firstRun`; everything else is local to a cycle | read resources, stacks, load balancers, certificates, alarms; build the model; delete, create or update each stack; publish its DNS name | all below |
| Load balancer model (`worker.go`: `loadBalancer`, `matchIngressesToLoadBalancers`, `buildManagedModel`) | resources per certificate, owner, shared, policy, ACL of each load balancer | `addIngress`, `Status`, `inSync`, `CertificateARNs`, `Owner` | called by `doWork` |
| Stacks (`aws/cf.go`, `aws/adapter.go`) | tags and parameters of the CloudFormation stacks: owner, certificates with expiry, alarm hash, settings | find, create, update, delete | CloudFormation |
| Load balancer states (`aws/elbv2.go`) | none | `getLoadBalancerStates`, `IsActive`, `Age` | Elastic Load Balancing |
| Template (`aws/cf_template.go`) | none | `generateTemplate`: parameters, outputs, resources | called by `createStack`, `updateStack` |
| Subnets (`aws/ec2.go`, `aws/adapter.go`) | the manifest, read once at start-up | `getSubnets`, `buildManifest`, `FindLBSubnets` | EC2; called by `CreateStack`, `UpdateStack` |
| Start-up (`controller.go`) | flags | `loadSettings`, the setters of the adapter | all |
| Kubernetes adapter (`kubernetes/adapter.go`) | `routeGroupSupport` | `ListResources`, `UpdateIngressLoadBalancer`, `newIngress` | API server |
| Target groups, Auto Scaling groups, instances (`aws/adapter.go`, `aws/asg.go`, `aws/ec2.go`) | cached instances, single and obsolete instances, targeted and owned groups | `UpdateAutoScalingGroupsAndInstances`, `UpdateTargetGroupsAndAutoScalingGroups`, `DeleteStack` detaching | ASG, EC2, ELB |
| CNI targets (`worker.go`: `cniEventHandler`; `kubernetes/pods.go`; `aws/adapter.go`: `SetTargetsOnCNITargetGroups`) | last target groups and endpoints, informer's map of pods | two channels into one handler, rate limited | pods, target groups |
| Certificates (`certs/caching.go`, `certs/matching.go`, `aws/acm.go`, `aws/iam.go`) | cached certificates | background refresh, best match for a hostname | ACM, IAM |
| Alarms (`aws/cloudwatch.go`) | none | hash, references to the load balancer | `doWork`, template |
| Clients, metrics, problem lists, CloudFormation types | I/O or reporting | | |

What is hard in this code:

* **Everything is re-derived from AWS and Kubernetes in every cycle.** The calls
  of a cycle are not atomic: users, CloudFormation and the clock move between
  any two of them, and decisions rest on a mixture of old and new state.
* **The state is spread over tags.** The owner of a stack and the expiry of its
  certificates live in CloudFormation tags and change with updates, which may be
  rejected or rolled back.
* **The matching loop is stateful.** `addIngress` leaves `shared` and
  `sslPolicy` in the load balancer, and both decide about the next resource.
* **Crashes and failing calls at any point**, with no persistent memory: the
  next cycle must not create a second stack or take down one that is in use.
* **Time.** An unused certificate is kept for `--cert-ttl-timeout`; a new load
  balancer is not published before `--min-load-balancer-age`.

* **One setting is written down in many places.** An annotation or a flag becomes a
  setting in `newIngress`, a condition in `generateTemplate`, a parameter or a tag in
  `createStack` *and* `updateStack`, and is read back in `mapToManagedStack`. Each
  must agree with all the others.
* **Lists are put together from several calls** (certificates, target groups, Auto
  Scaling groups, tags), any of which may fail or be overtaken by a change.

What makes it correct: each resource is on exactly one load balancer that fits;
a load balancer with an owner serves nobody else; there are no more stacks than
needed; certificates and stacks do not go away while they are needed;
the instances and pods that run are targets of all load balancers, and nothing else is;
what is sent to CloudFormation is accepted and means what the resource asked for; and
everything settles once users leave it alone.

`PROJECT.json` lists the hazards with their lines and the properties that cover
them.

## 2. Modules

    LoadBalancer      operators: resources, stacks, load balancers     worker.go, aws/cf.go
      Matching        state machine: one step places one resource      worker.go
        MCMatching    instances of Matching for TLC
        MatchingProofs    theorems about Matching, checked by TLAPS
        Controller    state machine: the poll loop and its environment  worker.go, aws, kubernetes
          MCController    instances of Controller for TLC
          ControllerProofs    theorems about Controller
    CNITargets        state machine: pods as targets                  worker.go, aws, kubernetes/pods.go
      MCCNITargets    instances of CNITargets for TLC
      CNIProofs       theorems about CNITargets
    TargetGroups      state machine: instances as targets             aws/adapter.go, asg.go, ec2.go, elbv2.go
      MCTargetGroups  instances of TargetGroups for TLC
      TargetGroupsProofs  theorems about TargetGroups
    CertificateView   abstract specification of the cache
    CertCache         state machine: the cache, implements CertificateView   certs/caching.go, aws/acm.go, iam.go
      MCCertCache     instances of CertCache for TLC
      CertCacheProofs     theorems about CertCache
    CertMatching      state machine: the choice of a certificate      certs/matching.go, provider.go
      MCCertMatching  instances of CertMatching for TLC
      CertMatchingProofs  theorems about CertMatching
    Network           state machine: subnets at start-up and per stack     aws/adapter.go, ec2.go
      NetworkProofs   theorems about Network
    IngressSettings   operators: annotations and flags                kubernetes/adapter.go, controller.go
      StackTemplate   operators: template, parameters, tags, and back     aws/cf_template.go, cf.go
        Provisioning  state machine: one load balancer's way to a stack and back;
                      composes Network and StackTemplate              worker.go, aws, controller.go
          MCProvisioning  instances of Provisioning for TLC
          ProvisioningProofs  theorems about Provisioning

Each indented module extends the one above it. `map` in `PROJECT.json` names the
lines behind every definition.

### LoadBalancer

A resource (`kubernetes.Ingress`) is a record of what placement tells apart:
sharing, hostnames, the pinned certificate, class (scheme, IP address type, type
and HTTP/2, which are only ever compared for equality), security group, web ACL
and TLS policy. A stack (`aws.Stack`) is a record of its status, owner, class,
settings and certificates with expiry. A point in time is represented by the time
*left* until it, `NoExpiry` being Go's zero time; this makes time finite and
leaves all comparisons with `time.Now()` intact (`0` means "not after now").
`BestMatch`, a constant function, stands for `FindBestMatchingCertificate`; only
that it returns an available certificate or none is assumed. In-progress and
rolling-back statuses are one status, `updating`.

### Matching

`buildManagedModel`. `Init` allows any stacks, certificates and resources;
`PlaceClusterLocal`, `SkipWithoutCertificate`, `PlaceOnFirstFit` and `PlaceOnNew`
are the four ways through the body of the loop. Ingresses come before RouteGroups
(`ListResources` appends them); the order within a kind is the API server's and
is left open. `Accepts` joins the conditions of `addIngress` with the check for a
supported type that its caller makes. Go map iteration shows up in `Owners`,
which is a set: `OwnerDeterminate` is the claim that it never has two members.

### Controller

`pc` is the next call of `doWork`. The reading phase is one action per call
(`ListResources`, `FindManagedStacks`, `GetStackLBStates`, `GetCertificates`,
`GetCloudWatchAlarms`); then the actions of `Matching`; then, for each load
balancer, the case of `Status` (`DeleteStack`, `CreateStack`, `UpdateStack`,
`Ready`) and one `UpdateIngressLoadBalancer` for each resource whose hostname
differs. Snapshots (`snap`, `available`, `listed`, `view`) are variables of their
own, so that stale reads happen as they do in the code. `CycleFails`,
`StackCallFails`, `PatchFails` and `Restart` are its failures; a lost answer to
`CreateStack` has the same effect as a received one, since the answer is used only
for logging.

The environment: users write and remove resources and alarms, certificates come
and go; CloudFormation completes, fails or rolls back what it was asked to do; load
balancers become active; `Tick` lets time pass, for the snapshots, too.
CloudFormation accepts an update only for a complete stack and ignores one without
changes. UUIDs as stack names are any name that nothing refers to; if there is
none, the account's quota is exhausted and the call fails. The age of a load balancer counts
from `CreateStack`, in the code from its `CreatedTime` shortly after (`aws/elbv2.go:56`).

Reductions: users do not act during the in-memory matching, which reads nothing
of theirs; two patches of one resource in one cycle (it has two certificates on
the load balancer) are one step; settings that a restart changes (flags) are not
part of a stack.

### CNITargets

AWS CNI mode is a system of its own next to the poll loop. Its processes, each with
a variable that says what it does next: the informer (`informer`: `syncing`,
`listing`, `listed`, `watching`), the poll loop as far as it announces target groups
(`worker`), and the handler with the setter it calls (`handler`: `select`, `check`,
`limit`, `set`, `register`, `deregister`). Both channels are bounded sequences; a
send is an action that is enabled only while there is room.

The watch of the API server is a queue of phases per pod. `Deliver` moves the
informer's cache and, for an update of a cached pod, calls `UpdateFunc`; additions
and deletions change the cache only, as in the code, which leaves pods that were
added while they already ran to `Resync`. `WatchBreaks` replaces the queue by the
present phase, so that a termination can go unnoticed. A cluster without
target groups of type `ip` is announced as `None`, Go's nil, which is what the map lookup
in `UpdateTargetGroupsAndAutoScalingGroups` returns. `DescribeTargetHealth` lists
draining targets, too. `ControllerRestarts` resets everything but the cluster and
AWS.

Reductions: a pod has one life and one address, so the address is the pod; the order
of target groups within one call of the setter is open; target groups change only by
the setter, by draining and by being created and deleted. Two variables are history:
`notified`, the pods the informer has seen terminating, and `unready`, the targets that
were not ready at some moment while the present controller started, before it listed
the pods.

### TargetGroups

The other half of a cycle: `UpdateAutoScalingGroupsAndInstances` and
`UpdateTargetGroupsAndAutoScalingGroups`. `pc` is the next AWS call:
`DescribeInstances` and `DescribeAutoScalingGroups` refresh what the controller
remembers (`singleInstances`, `obsoleteInstances`, `targeted`, `owned`); `Categorize`
asks which target groups exist and takes addresses and instances apart; then, for each
Auto Scaling group, `ReadGroups`, `DetachGroups`, `AttachGroups`; then
`RegisterTargets` and `DeregisterTargets` group by group, up to the first that fails;
then the deletion of stacks that are not needed, which detaches first. Every call has
a failing twin: detaching and attaching, which the code does in chunks, may have reached some
of the target groups before (`DetachFails`, `AttachFails`, `AttachRefused`). `Restart` forgets the memory. Between the
calls stacks come and are deleted, instances start, stop, terminate or join an Auto Scaling
group, an instance may be overlooked by EC2, a target group may be deleted by hand and an Auto
Scaling group may change its tags.

Assumed of AWS: detaching a target group that is not attached is accepted; registering
is refused for a target group that does not exist and for an instance that does not
run, deregistering for a target group that does not exist. A stack stands for its
single target group; stacks and instances live once.

### CertificateView and CertCache

`CertificateView` says what the poll loop may rely on: the list is replaced as a whole
by one that has every certificate that existed all through the refresh and none that
did not exist at some time during it. `CertCache` is the code: `StartRefresh`, the
calls of each provider one by one (`ListCertificates`, then `ListTags` and, with the tag,
`GetCertificate` for every one listed), `Replace` once all have answered, `Keep` if one has failed. A process whose
first refresh fails exits and is restarted. `throughout` and `sometime` are history
variables that the refinement mapping needs; the mapping is the `INSTANCE` at the end of
`CertCache`, and `CacheIsView` the property that it is a refinement.

The two providers differ in the order of their calls (`TagsFirst`): ACM reads the tags of
all certificates before it gets the first one (`prodSummaries`), IAM gets a certificate
before it reads the tags of the next. A certificate deleted during the refresh is
`CertificateMissing` for both, an error of the provider. Which certificates have the filter
tag is told by the constant `Tagged`, and whether there is a filter by `filterTag`; without
one no tags are read.

### CertMatching

`FindBestMatchingCertificate` as a state machine: `Skip` passes over a certificate that
`Verify` rejects, `Match` looks at one name of one certificate. `Takes` is the
`switch` with its date comparisons, strict where the code's are. `now` stands still. A
name is a sequence of labels; `Characters` gives the length of each pattern as text,
since that is what the code compares. `MatchesName` stands for
`x509.Certificate.VerifyHostname` (one label for a `*`), while `prefixGlob` accepts
several, as the code does. Names are in lower case here, and what `crypto/x509` makes of a
`*` for a host of a single label is left out.

### Network

The subnets of the VPC and their route tables (`vpc`) may change at any time;
`BuildManifest` reads them once per start, `FindLBSubnets` walks through them in any
order, one `Consider` or `Ignore` per subnet. A VPC in which a subnet has no route table
is not `Discoverable`.

### IngressSettings, StackTemplate, Provisioning

`IngressSettings` has no variables: `newIngress` with one operator per setting, the class
and kind filters of `ListIngress` and `ListRoutegroups`, the checks of `loadSettings` and
the setters that ignore values out of range. `None` stands for an empty and for a
missing annotation. The checks of `loadSettings` on the port of the health check, the
maximum of certificates and the flags of CNI mode are left out: nothing here reads these.

`StackTemplate` has none either: `generateTemplate` yields the parameters it declares,
its outputs, and its resources, each with the names it refers to; `Parameters` and `Tags`
are what is sent, `mapToManagedStack` what is read back. Tags of the administrator are
merged with the controller's (`mergeTags`); those that differ from stack to stack are
appended after that.

`Provisioning` composes both with `Network`: a controller starts with some flags
(`LoadSettings`, `ReadNetwork`), creates or updates the stack of one resource
(`CreateStack`, `UpdateStack`, `ConsiderSubnet` for `FindLBSubnets`, `SendRequest`,
`Protect`) and deletes it. CloudFormation carries a request out if it is `Acceptable`, or
fails. Acceptable means that every reference is declared, every declared parameter
without a default is supplied and nothing else is, and that the load balancer, its
listeners, target groups, attributes and association fit its type. Restarts bring other
flags, so that stacks meet settings they were not made for; one of the initial stacks
is from before there were types. `Absent` stands for no stack, no request, no load balancer.

`ProvisioningAssumption` says what flags and initial stacks may be: types and policies are
those the flags accept; no tag of the administrator has a name that is appended to the merged
tags (`StackTags`), since nothing resolves such a conflict; a history begins without a stack
or with a stack of the controller from before there were types (`IsOldStack`). All other flags
may have any value: `loadSettings` decides.

## 3. Runs

| Run | Instance | Shows |
|---|---|---|
| `Placement` | three resources (an Ingress and a RouteGroup of one name among them), up to two stacks, three certificates, all listing orders | each resource is placed once under its certificates; owners, settings and the limit are respected; the owner is well defined |
| `Service` | a resource that shares and one that comes later, which start and stop sharing and move between load balancers by certificate, two stack names (so that the quota is reached), `CertTTL` of two ticks, two changes, one crash, rollback or failing stack | nobody is published on somebody else's load balancer; a load balancer a resource points to is not deleted |
| `Aggregation` | an Ingress and a RouteGroup of equal settings, two certificates that come and go, two changes, one failure of any kind | never a second stack; no certificate leaves a stack before its time |
| `Settling` | two resources that share and no failure, or one resource, sharing, not sharing or cluster-local, and any one failure; two alarm configurations, one change, three stack names, unrestricted time | everything settles |
| `CNITargets` | two pods that run, or one that is to come, with one failure of any kind (crash, broken watch, forced deletion, failing container, failing call), or a pod that runs and one to come without a failure; a target group that comes and goes, channels of capacity one | no running pod loses its targets; running pods are served and terminated ones removed in the end; the poll loop is never blocked |
| `TargetGroups` | a stack with targets by instance, together with one yet to come and with one with targets by address if nothing fails, with either of them and one failure or intervention of any kind; a target group of somebody else, an Auto Scaling group, an instance | addresses and instances are not mixed up; an Auto Scaling group loses only what is not needed and ends with exactly the target groups in use; single instances are registered, and deregistered when they are gone |
| `Certificates` | two providers with two certificates each, one of them on the blacklist, one without the tag, two failures | the cache implements `CertificateView` and catches up |
| `CertMatching` | all lists of up to two out of 66 certificates and of three that name the host or its domain, for hostnames shorter and longer than the wildcard and one without dots | no better certificate is passed over, by length and within a length |
| `Provisioning` | families of inputs around a base: every flag alone, the flags that interact in pairs, every annotation alone and in pairs under a network load balancer as default, kinds, classes and hostnames, VPCs of up to three subnets, one of them with any tags and some with route tables of their own, a stack of an old version; each followed by a restart with almost all flags changed | see the properties in `Provisioning`: what is sent is accepted, what comes back is what was meant, protection and denial rules are there, and nothing is replaced by an update |
| `ExpiringCertificate`, `StuckStack`, `ChangedACL` | as above, small | each refutes a statement of the documentation, see below |

Bounds. `MaxChanges` and `MaxFaults` bound what users do and what fails in a
behaviour, not when: every change and every failure is tried between any two
steps. Two resources, two certificates and two or three stacks are enough for
every relation the code evaluates: it compares one resource with one load
balancer, and one load balancer with the next in the list. `CertTTL` of one or two
ticks distinguishes in use, kept and expired; `MinAge` of one distinguishes young
and old. Initial states are a freshly started controller in a cluster with or
without resources and certificates; stacks come to exist only by the controller's
own actions. `CoveredSpec` starts with one resource that shares and with all certificates,
`InUseSpec` where all resources exist: what a resource suffers while it has no
certificate is not part of the questions of these runs.

Two properties of `Controller` name what they rest on. `Aggregated` is about resources that
are `Uniform`: all share, all ask for the same, and all certificates fit on one load
balancer. `GracePeriod` excepts certificates whose time is over, that are no longer valid,
that an update added which is rolled back, and, in the first cycle of a controller, those
of a stack it read while it was being updated. The last exception needs two failures (a
restart and a rollback), so that the run with one does not meet it; the proof did.

`Timely`, set in `Service` only, is the assumption that `CertTTL` (default one
hour) and `MinAge` are long against the time it takes to create a load balancer
(minutes) and to poll (30 seconds): time passes only after a poll cycle that found
nothing to do. Without it a resource may lose its load balancer before the next one
is ready.

In `CNITargets` a capacity of one makes both channels full as often as possible; the
code's ten only allows longer queues of the same messages; `MaxFaults` is one. The
theorem `RunningKept` covers all capacities and numbers of failures. It is the proof that
showed what `KeepsRunning` has to except: a container that fails while a controller starts
is not in its first list and may be deregistered after it runs again (`unready`).
`HandlerWaits` is an
assumption on time: the next announcement of target groups (30 seconds) does not
come before the handler has emptied its channels, unless it waits for the rate
limiter or AWS. Without it the handler could be kept receiving for ever.

In `TargetGroups`, `MaxFaults` of one lets every call fail once, anywhere; a second
failure meets the same code from a state the first one has already reached. One Auto
Scaling group suffices since they are treated one after the other without a memory of each
other. `SinglesServed` and `ObsoleteRemoved` say nothing of histories in which the
target group of a stack in use was deleted by hand, see below. In `Provisioning` the
product of all inputs is out of reach; pairs are taken where the code has conditions on
two settings. Its certificates are interchangeable, and the run uses that (`Symmetry`); it
checks no liveness. Stack names are not: the model is sorted by them.

Some initial states trade one dimension for another: `SettlingInit`, `ScaledInit` and
`TypicalInit` start with everything that may interact and no failure left, or with less
of it and a failure anywhere. Two running pods and a failure, two resources and a change
of one, or an Auto Scaling group, two stacks and a failure are each among them. What
needs more of everything at once is left to the theorems, where there is one.

Fairness (`Fairness`): the poll loop continues (`startPolling` is an endless loop
with a timer, `doWork` recovers from panics), time passes, and CloudFormation and
load balancers finish what they do for each stack. No failure and no change by
users is fair. `CNIFairness`: the informer, the delivery and the resync of every pod,
the poll loop, the handler and draining make progress. Go's `select` is not assumed to
be fair; the two channels are emptied since nothing refills them all the time. `TargetFairness`:
the poll loop continues, and CloudFormation deletes what it was told to. `CacheFairness`:
calls to the providers return, and a process that exits is started again by
Kubernetes.

`CHECK_DEADLOCK FALSE` is set for `Matching` and `CertMatching`, whose loops end, for
`Provisioning`, where a controller with refused flags exits and a stack in sync needs
nothing, and for runs that look for a counterexample. All other runs check for deadlocks.

Every property of a passing run has a mutant in `PROJECT.json`: a definition with
a plausible error (they are marked "An error" in the modules) under which TLC
finds the property violated.

### Where the code does something else than the documentation says

* `ExpiringCertificate`: the branch that is to give up a more specific certificate
  before it runs out requires `now.Before(candidate.NotBefore())`
  (`certs/matching.go:94`), which no certificate that passed `Verify` satisfies. So a
  certificate with fewer than seven days left is kept although another one would do
  (`README.md:354`).
* `StuckStack`: a stack whose creation failed and whose deletion failed after that
  (`DELETE_FAILED`) still takes its resources, for ever: its tags say the
  certificates are in use, so that it is neither deleted nor replaced
  (`aws/cf.go:514-529`, `worker.go:69-83`).
* `ChangedACL`: the web ACL (and the security group) of a load balancer that is not
  shared never follows its resource (`worker.go:133-139,161-162`).

Met while modelling, without a run:

* A controller that starts while a stack is updated reads what the update would make of it. If
  the update is then rolled back, the first cycle writes what was read over it, since it
  updates all stacks whatever their status (`worker.go:79`): certificates that the update
  dropped and the rollback brought back go before their time.
* A pod that is a target, is not ready while a controller starts and is ready again when the
  controller has listed the pods is deregistered first and registered again when the next
  update or resync of the pod arrives (`kubernetes/pods.go:45-49`).
* A shared resource without the TLS policy annotation replaces the policy another one
  asked for (`worker.go:136,162`).
* A shared resource joins the load balancer that the same cycle adds for a resource with
  `shared: "false"` (`worker.go:109-120`).
* A new load balancer ignores the certificate limit and is not accepted by its own
  resource afterwards (`worker.go:153,476`), and a stack with expired certificates is
  deleted although a resource was just matched to it (`worker.go:73`).
* Nothing makes a terminating pod wait until it is deregistered; the handler learns of it
  through a channel and waits for its rate limiter (`kubernetes/pods.go:64`,
  `worker.go:737-741`, against `README.md:744-745`).
* A target group that was deleted by hand makes registering stop at it in every cycle, so
  that single instances do not reach the groups behind it (`aws/elbv2.go:67-77`).
* An unsupported `aws-load-balancer-type` together with a web ACL or a security group gives
  a network load balancer if that is the default, and the ACL is ignored: the check for
  the fallback precedes the one for the type (`kubernetes/adapter.go:236-246`,
  `README.md:207-210`). `ProtectionApplied` is stated for the supported types.
* `--idle-connection-timeout` outside one to 4000 seconds is ignored without a word, and
  zero is sent instead, which makes CloudFormation refuse every application load balancer
  (`aws/adapter.go:391-396`); so is a deregistration delay out of range (`402`).
* Stacks from before there was a `Type` parameter are read back without a type; the
  template then refers to an `HTTPSListener` that it does not define, and every update
  is refused. `TemplateAccepted` excepts them.
* `firstRun` is cleared after a cycle that failed (`worker.go:263`). Subnets are read at
  start-up only (`aws/adapter.go:278`). Deleting a stack takes its termination protection
  away first, and it stays away if the deletion fails (`aws/cf.go:425`). One certificate
  that can be listed but not read fails every refresh (`certs/caching.go:69`).

## 4. Proofs

`MatchingProofs` proves for every number of resources, stacks and certificates,
and every best-match function, the six invariants of `Placement`: `TypeCorrect`,
`PlacementCorrect`, `OwnershipCorrect`, `OwnerIsDeterminate`, `SettingsCorrect`,
`CapacityCorrect`. The only assumption is `ConstantsAssumption` of `LoadBalancer`:
finite sets, `BestMatch` returns an available certificate or none, `None` and the
cluster-local domain are no certificates.

`SharingKept`, `OwnershipKept`, `SettingsKept` and `CapacityKept` together are the
inductive invariant `IInv`, one conjunction `LBInv` for each load balancer. It says
more than the properties about `shared`, `owner` and the origin of a load balancer:
an owner comes only from a stack, one made from a stack is not shared only if it has
an owner, and a new one that is not shared has a single member. Without this `SettingsAgree`,
`OwnershipRespected` and `CapacityRespected` are not inductive, since `Accepts` looks
at the load balancer and not at its members. `PlacedOnce` has a strengthening of its
own, `Placed`, over the resources the loop has come past. The proof has one
lemma for each of the four actions, and lemmas for `AddTo`, `AddIngress` and `NewLB`.

`CertMatchingProofs` proves `MatchTypeCorrect`, `MostSpecificCorrect` and
`BestOfItsLengthCorrect` for all lists of certificates, hostnames, patterns and dates. The
two properties speak of the names the pass has seen; together with two facts about
the candidate (it passed `Verify`, and `longestMatch` is the length of one of its names) they
are inductive, with the case split following `Takes`. The assumption
`CertMatchingAssumption` says only what kind of values the constants are.

`NetworkProofs` proves `NetworkTypeCorrect` and `BestOfZoneCorrect` for all VPCs and all
orders of subnets. `BestIsLeast` says that the best subnet of a zone is the least one in an
order that puts tagged subnets before others and then goes by id, `BetterOfTwo` that
`Preferred` takes the lesser of two, `ConsiderKeepsBest` that one step of the loop keeps the
choice best among the subnets seen. The type invariant provides that ids are unique.

`CertCacheProofs` proves `CacheTypeCorrect` and `CacheIsViewCorrect`, the refinement of
`CertificateView`, for all providers, certificates and numbers of failures. The
invariant `ViewInv` is needed because the view speaks of the moment the list is replaced
and the calls that make it up lie before that: during a refresh, what a provider has
answered so far and still has to fetch lies between `throughout` and `sometime`
(`Between`), and these two bounds move only outwards when certificates come and go. With
that `NewListIsView` shows that the list the code stores is one `Replace` of the view
allows, and `StepOfView` maps every other step to the view's `Begin`, `Keep`, `Lose`, to
a certificate that comes or goes, or to a stutter.

`TargetGroupsProofs` proves `TargetTypeCorrect`, `KindsKeptApart` and `OnlyObsoleteLost`
for all stacks, instances, Auto Scaling groups and numbers of failures. The cycle works on
two lists it has read at different times, the stacks in use and the target groups
that exist, and neither property is inductive without saying how they differ. `IInv` says
it: stacks live once, so that one that is known but does not exist is gone for ever
(`CreatedInv`); hence a group of addresses that was taken for one of instances because it did
not exist cannot be attached to later (`KindsInv`); what is attached and in use was listed
when the cycle began (`ListInv`), so that what is detached and what is deleted is not in use
(`DetachInv`). That stacks live once is the assumption that AWS uses an ARN once.

`CNIProofs` proves `CNITypeCorrect` and `RunningKept` (`KeepsRunning`) for all pods, target
groups, capacities and numbers of failures. The setter deregisters what is not in
`endpoints`, a list that may have waited in a channel while pods came and went. `ServedInv`
orders the lists: the informer has not seen the end of a pod that has not ended
(`PhaseInv`); such a pod, once it is in a list, is in all later ones and in `known`
(`ListsInv`), since only the end of a pod takes it out; and a target that was ready
throughout the start of the controller is in the first list, and so in all of them
(`StartInv`, `TargetInv`). Registering adds only members of `endpoints`, which keeps
`TargetInv`. The handler may thus be late, but never deregisters a pod that lives.

`ControllerProofs` proves five properties of the poll loop with its environment, for all
resources, stacks, certificates, quotas, times, and numbers of changes and failures:
`SystemTypeCorrect`, `HostnamesExclusive`, `CertificatesKept` (`GracePeriod`),
`StacksAggregated` (`Aggregated`) and `PublishedServed` (`StillServed`). It rests on `ConstantsAssumption`, the assumptions of
`Controller` on its constants, and on the lemmas of `MatchingProofs`, whose four actions are
steps of the cycle. In layers:

* `TypeInv` says what the variables hold at each stage of a cycle and includes the invariant
  of `Matching`, which must be kept while time passes: certificates of a load balancer
  under construction age, too.
* `SnapInv` is the heart of the other three. A cycle works on a snapshot of the stacks
  while CloudFormation moves them. What was read of a *complete* stack is still true when
  the cycle comes to that stack (`Pending`), because only the controller moves a complete
  stack; of a stack in another state only the certificates are known to agree, and nothing
  if it was read while being updated. `CertificatesKept` follows, with
  exactly the exceptions that `GracePeriod` names.
* `OwnerInv` says of all resources: the stack behind their hostname, the state an update
  of it would fall back to, what the cycle has read of it and what it is about to publish
  have no owner or that resource. A stack gets an owner only when a load
  balancer has one resource and no shared past (`LBInv`), so that a stack with somebody
  else behind it never gets one.
* `SettingsInv` and `CountInv` are for uniform resources. All stacks and load balancers
  are alike, hence each accepts each resource (`AllAccepted`) and the matching loop adds a load
  balancer only if there is none. At most one load balancer is still without a stack, and
  if there is one then no stack exists, also not one the snapshot does not know.

`PublishedServed` is about time and needs an argument of its own. A load balancer is taken
down when the controller has read that its certificates have run out, and time passes
only after a cycle that has found nothing to do (`Timely`). So the convergence of a cycle has to be
stated as an invariant, `ServingInv`:

* `CertificatesInv`: the certificates in `known` stay, and the controller never loses
  sight of them. So every resource is placed (`PlacedInv`, from `PlacedOnce` of `Matching`).
* `IdleInv`: what an idle cycle has read is still so (`UpToDate`), and where it has been there
  was nothing to do (`NothingLeft`). Hence when time passes, every resource is `AtHome`:
  published where it belongs, or some load balancer that suits it is not ready yet.
* `KeptInv`: the stack s a resource is published on has a certificate that lasts longer
  than `Youth(s)`, the time that may pass before the resource is published elsewhere: the
  other stacks, each of which may still have to reach `MinAge`. A unit of time that passes
  while the resource waits takes a unit from both (`KeptAfterTick`); a stack that
  replaces s has its certificates in use, so that the resource is safe there.
* `LifeInv` says that stacks last as long as the cycle thinks they do, `OpenedInv` that
  nobody is on a stack that is being created, which CloudFormation may take down by itself.

With that nobody is on a stack that a cycle deletes (`NobodyLeftDown`), whether the cycle has
listed the resource or not, which is `StillServed`. `PublishedServed` assumes `Covered` (one of the
certificates in `known` suits every resource that is to be served, and these exist from the
start) and `Patient`. TLC refutes `StillServed` when any of the conditions in `Patient` is
dropped:

* `CertTTL` exceeds `MinAge` times the number of other stacks. By default (an hour and six
  minutes) that is up to ten stacks. A `CertTTL` of one is too short for the run `Service`.
* No certificate becomes invalid, and RouteGroups stay readable.
* Not both a creation and a deletion fail: a stack that is stuck (`StuckStack`) keeps its
  resources waiting until the load balancer they are published on has expired.
* If `MinAge` is not zero, no call to AWS fails and no update is rolled back. The controller
  publishes a resource on a stack it is about to update, also if that update fails
  (`worker.go:609`). A resource that returns to a load balancer whose certificate it
  left almost a `CertTTL` ago, and whose update fails, is published there with that
  certificate about to run out; if it then moves to a new load balancer, the old one
  goes before the new one has reached `MinAge`. It takes three stacks.

The run `Service` has two stacks and includes rollbacks with a `MinAge` of one, the theorem
any number of resources, stacks, changes and crashes.

`ProvisioningProofs` proves all nine properties of the run `Provisioning`, for all flags,
annotations, VPCs and certificates and any number of restarts. The first half is about
operators: `ReferencesResolve`, `ParametersMatch`, `OutputsResolve`, `ApplicationFits` and
`NetworkFits` give `RequestAccepted`, by cases over the type of the load balancer and over
whether plain HTTP is off, redirected or has a target group of its own; `ParametersReadBack`,
`TagsOf` and `CertificatesReadBack` say that what is written is read back; `ListenersDenied`
and `TargetsKnown` are about listeners. The second half is the inductive invariant `IInv`:

* `ConfigInv`: the flags in use have passed `loadSettings`.
* `CallInv`: what was sent is the request for the load balancer of the call, which has
  a certificate, and which agrees with the stack in everything an update must not
  change. It has the protection the resource asks for if the stack is new or was made for one.
* `StackInv`: a stack was built for `applied` (`BuiltFor`) unless it has no type.

Neither of the last two is inductive alone: an update takes scheme, type, security group and
web ACL from the stack, and the stack has them from an earlier request. Stacks without a type
stay what they were because `UntypedRefused` shows that every update of them is refused;
without this `UpdatedInPlace` could not be proved for them. `SubnetsCorrect` follows from
`NetworkProofs`, since each step of the cycle is one of `Network` or leaves its variables alone
(`NetStep`).

Left to TLC: liveness (`Settles`, `AttachmentsSettle`, `SinglesServed`, `ObsoleteRemoved`,
`CatchesUp`, and those of `CNITargets`), which is out of the prover's reach. All other
properties that the passing runs check are proved, `StillServed` on the conditions above.

## 5. Plan

1. Done: all modules listed above, and the theorems about them.
2. Open: `StillServed` for two stack names, `MinAge` above zero and updates that are rolled
   back. The run `Service` has them and finds nothing; `PublishedServed` excludes them,
   since three stack names are enough for a counterexample.

## 6. Not modelled

Metrics, problem lists and logging (nothing reads them back); the parsing of the command
line and of custom filters (`parseFilters`, `testFilterTags`), of alarm configurations and
of certificate chains; HTTP clients, authentication and decoding; the vendored
CloudFormation types; the wording of stack names and of the template's descriptions, and the hash of the
certificates in the name of a template's resource (nothing refers to it).
