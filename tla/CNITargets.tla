---------------------------- MODULE CNITargets ----------------------------
(***************************************************************************)
(* AWS CNI mode: the addresses of the ingress pods are the targets of the  *)
(* target groups.  Three processes work on it: an informer follows the     *)
(* pods (kubernetes/pods.go), the poll loop announces the target groups    *)
(* (aws/adapter.go), and a handler (worker.go, cniEventHandler) receives   *)
(* from both over buffered channels and calls the setter.                  *)
(*                                                                         *)
(* A pod lives once and keeps its address, so that pods stand for their    *)
(* addresses.                                                              *)
(***************************************************************************)
EXTENDS Naturals, Sequences

CONSTANTS
    Pods,       \* the pods that may ever exist
    Groups,     \* the target groups of type ip that may ever exist
    Capacity,   \* of both channels
    MaxFaults,  \* bound on the failures of a behaviour
    None        \* Go's nil

ASSUME CNIAssumption ==
    /\ Capacity \in Nat \ {0}
    /\ MaxFaults \in Nat
    /\ \A s \in SUBSET Pods : s # None
    /\ \A s \in SUBSET Groups : s # None
    /\ None \notin Groups

VARIABLES
    phase,       \* of each pod, in the cluster
    unready,     \* targets that were not ready while the controller started (history)
    updates,     \* of each pod: phases the watch has not delivered yet
    cache,       \* of each pod: its phase in the informer's cache
    informer,    \* what PodInformer does
    known,       \* podEndpoints
    notified,    \* pods the informer has seen terminating (history)
    stage,       \* of each target group: absent, present or deleted
    registered,  \* of each target group: its targets
    draining,    \* of each target group: deregistered targets it still lists
    worker,      \* what the poll loop does
    found,       \* the target groups it has read
    TargetGroupCh, endpointCh,
    handler,     \* what cniEventHandler does
    cniTargetGroupARNs, endpoints,
    todo,        \* target groups the setter has not looked at
    current,     \* target group the setter looks at
    health,      \* targets DescribeTargetHealth has returned for it
    faults

podVars == <<phase, unready, updates>>
informerVars == <<cache, informer, known, notified, endpointCh>>
groupVars == <<stage, registered, draining>>
workerVars == <<worker, found, TargetGroupCh>>
setterVars == <<todo, current, health>>
handlerVars == <<handler, cniTargetGroupARNs, endpoints, setterVars>>
cniVars == <<podVars, informerVars, groupVars, workerVars, handlerVars, faults>>

Phases == {"absent", "pending", "running", "terminating", "gone"}
Running == {p \in Pods : phase[p] = "running"}
Present == {g \in Groups : stage[g] = "present"}
Targets == UNION {registered[g] : g \in Groups}
Starting == informer \in {"syncing", "listing"}
Cached == {p \in Pods : cache[p] \in {"pending", "running", "terminating"}}

Fault == faults < MaxFaults /\ faults' = faults + 1

-----------------------------------------------------------------------------
(* The cluster.                                                             *)

\* The watch reports a change, unless the informer has yet to list the pods.
Becomes(p, to) ==
    /\ phase' = [phase EXCEPT ![p] = to]
    /\ unready' = IF Starting /\ to = "pending" THEN unready \cup ({p} \cap Targets) ELSE unready
    /\ updates' = IF informer = "syncing" THEN updates
                  ELSE [updates EXCEPT ![p] = Append(@, to)]
    /\ UNCHANGED <<informerVars, groupVars, workerVars, handlerVars>>

PodCreated(p) == phase[p] = "absent" /\ Becomes(p, "pending") /\ UNCHANGED faults
PodStarts(p) == phase[p] = "pending" /\ Becomes(p, "running") /\ UNCHANGED faults
PodTerminates(p) ==
    phase[p] \in {"pending", "running"} /\ Becomes(p, "terminating") /\ UNCHANGED faults
PodRemoved(p) == phase[p] = "terminating" /\ Becomes(p, "gone") /\ UNCHANGED faults

ContainerFails(p) == Fault /\ phase[p] = "running" /\ Becomes(p, "pending")

\* A deletion without a grace period is never visible as a terminating pod.
ForcedDeletion(p) == Fault /\ phase[p] \in {"pending", "running"} /\ Becomes(p, "gone")

\* The watch breaks.  The next one starts from the pods as they are then.
WatchBreaks ==
    /\ Fault
    /\ informer # "syncing"
    /\ updates' = [p \in Pods |-> IF phase[p] = cache[p] THEN <<>> ELSE <<phase[p]>>]
    /\ UNCHANGED <<phase, unready, informerVars, groupVars, workerVars, handlerVars>>

-----------------------------------------------------------------------------
(* Target groups, which come and go with their stacks.                      *)

GroupCreated(g) ==
    /\ stage[g] = "absent"
    /\ stage' = [stage EXCEPT ![g] = "present"]
    /\ UNCHANGED <<podVars, informerVars, registered, draining, workerVars, handlerVars, faults>>

GroupDeleted(g) ==
    /\ stage[g] = "present"
    /\ stage' = [stage EXCEPT ![g] = "deleted"]
    /\ registered' = [registered EXCEPT ![g] = {}]
    /\ draining' = [draining EXCEPT ![g] = {}]
    /\ UNCHANGED <<podVars, informerVars, workerVars, handlerVars, faults>>

Drained(g) ==
    /\ draining[g] # {}
    /\ draining' = [draining EXCEPT ![g] = {}]
    /\ UNCHANGED <<podVars, informerVars, stage, registered, workerVars, handlerVars, faults>>

-----------------------------------------------------------------------------
(* PodInformer.                                                             *)

\* An error: the informer does not wait for room in the channel.
QueueWithoutWaiting(pods) == endpointCh' = Append(endpointCh, pods)

queueEndpoints(pods) ==
    Len(endpointCh) < Capacity /\ endpointCh' = Append(endpointCh, pods)

WaitForCacheSync ==
    /\ informer = "syncing"
    /\ informer' = "listing"
    /\ cache' = phase
    /\ notified' = {p \in Pods : phase[p] \in {"terminating", "gone"}}
    /\ UNCHANGED <<podVars, known, endpointCh, groupVars, workerVars, handlerVars, faults>>

\* Waits for the first pod, whatever its phase.
ListPods ==
    /\ informer = "listing"
    /\ Cached # {}
    /\ informer' = "listed"
    /\ known' = {p \in Pods : cache[p] = "running"}
    /\ queueEndpoints(known')
    /\ UNCHANGED <<podVars, cache, notified, groupVars, workerVars, handlerVars, faults>>

\* The handler is first called for the additions of all cached pods, and ignores them.
AddEventHandler ==
    /\ informer = "listed"
    /\ informer' = "watching"
    /\ UNCHANGED <<podVars, cache, known, notified, endpointCh, groupVars, workerVars,
                   handlerVars, faults>>

\* An error: a terminating pod is not forgotten.
ForgetNothing(p) == p \in known /\ UNCHANGED <<known, endpointCh>>

Forget(p) == p \in known /\ known' = known \ {p} /\ queueEndpoints(known')
\* An error: a new pod is remembered but not announced.
RememberQuietly(p) == p \notin known /\ known' = known \cup {p} /\ UNCHANGED endpointCh

Remember(p) == p \notin known /\ known' = known \cup {p} /\ queueEndpoints(known')

UpdateFunc(p, seen) ==
    /\ notified' = IF seen = "terminating" THEN notified \cup {p} ELSE notified
    /\ \/ seen = "terminating" /\ Forget(p)
       \/ seen = "running" /\ Remember(p)
       \/ /\ \/ seen = "terminating" /\ p \notin known
             \/ seen = "running" /\ p \in known
             \/ seen \notin {"terminating", "running"}
          /\ UNCHANGED <<known, endpointCh>>

\* Additions and deletions have no handler.
Deliver(p) ==
    /\ informer # "syncing"
    /\ updates[p] # <<>>
    /\ updates' = [updates EXCEPT ![p] = Tail(@)]
    /\ cache' = [cache EXCEPT ![p] = Head(updates[p])]
    /\ IF informer = "watching" /\ p \in Cached /\ Head(updates[p]) # "gone"
       THEN UpdateFunc(p, Head(updates[p]))
       ELSE UNCHANGED <<known, notified, endpointCh>>
    /\ UNCHANGED <<phase, unready, informer, groupVars, workerVars, handlerVars, faults>>

\* Once in a resyncInterval, UpdateFunc is called for every cached pod.
Resync(p) ==
    /\ informer = "watching"
    /\ p \in Cached
    /\ UpdateFunc(p, cache[p])
    /\ UNCHANGED <<podVars, cache, informer, groupVars, workerVars, handlerVars, faults>>

-----------------------------------------------------------------------------
(* The poll loop.                                                           *)

\* The handler's loop takes no time next to the polling interval, except
\* where it waits for the rate limiter or AWS.
HandlerWaits ==
    \/ handler \notin {"select", "check"}
    \/ handler = "select" /\ TargetGroupCh = <<>> /\ endpointCh = <<>>

categorizeTargetTypeInstance ==
    /\ worker = "polling"
    /\ HandlerWaits
    /\ worker' = "sending"
    /\ found' = IF Present = {} THEN None ELSE Present
    /\ UNCHANGED <<podVars, informerVars, groupVars, TargetGroupCh, handlerVars, faults>>

SendTargetGroups ==
    /\ worker = "sending"
    /\ Len(TargetGroupCh) < Capacity
    /\ TargetGroupCh' = Append(TargetGroupCh, found)
    /\ worker' = "polling"
    /\ found' = None
    /\ UNCHANGED <<podVars, informerVars, groupVars, handlerVars, faults>>

-----------------------------------------------------------------------------
(* cniEventHandler.                                                         *)

ReceiveTargetGroups ==
    /\ handler = "select"
    /\ TargetGroupCh # <<>>
    /\ cniTargetGroupARNs' = Head(TargetGroupCh)
    /\ TargetGroupCh' = Tail(TargetGroupCh)
    /\ handler' = "check"
    /\ UNCHANGED <<podVars, informerVars, groupVars, worker, found, endpoints, setterVars, faults>>

ReceiveEndpoints ==
    /\ handler = "select"
    /\ endpointCh # <<>>
    /\ endpoints' = Head(endpointCh)
    /\ endpointCh' = Tail(endpointCh)
    /\ handler' = "check"
    /\ UNCHANGED <<podVars, cache, informer, known, notified, groupVars, workerVars,
                   cniTargetGroupARNs, setterVars, faults>>

\* An error: lists that were never received count as empty.
CompleteUnseen == cniTargetGroupARNs # None

Complete == cniTargetGroupARNs # None /\ endpoints # None

Latest == endpointCh = <<>> /\ TargetGroupCh = <<>>

CheckMessages ==
    /\ handler = "check"
    /\ handler' = IF Complete /\ Latest THEN "limit" ELSE "select"
    /\ UNCHANGED <<podVars, informerVars, groupVars, workerVars, cniTargetGroupARNs, endpoints,
                   setterVars, faults>>

WaitForRateLimiter ==
    /\ handler = "limit"
    /\ handler' = "set"
    /\ todo' = cniTargetGroupARNs
    /\ UNCHANGED <<podVars, informerVars, groupVars, workerVars, cniTargetGroupARNs, endpoints,
                   current, health, faults>>

-----------------------------------------------------------------------------
(* SetTargetsOnCNITargetGroups.                                             *)

\* The members of a slice: a nil slice is empty.
Members(s) == IF s = None THEN {} ELSE s

difference(a, b) == Members(a) \ Members(b)

\* An error: the handler ends with the first call that fails.
ReturnForEver ==
    /\ handler' = "ended"
    /\ todo' = {}
    /\ current' = None
    /\ health' = {}

Return ==
    /\ handler' = "select"
    /\ todo' = {}
    /\ current' = None
    /\ health' = {}

\* Targets that are draining are listed, too.
DescribeTargetHealth(g) ==
    /\ handler = "set"
    /\ g \in todo
    /\ todo' = todo \ {g}
    /\ IF stage[g] = "present"
       THEN /\ handler' = "register"
            /\ current' = g
            /\ health' = registered[g] \cup draining[g]
       ELSE UNCHANGED <<handler, current, health>>
    /\ UNCHANGED <<podVars, informerVars, groupVars, workerVars, cniTargetGroupARNs, endpoints,
                   faults>>

DescribeFails(g) ==
    /\ Fault
    /\ handler = "set"
    /\ g \in todo
    /\ todo' = todo \ {g}
    /\ UNCHANGED <<podVars, informerVars, groupVars, workerVars, handler, cniTargetGroupARNs,
                   endpoints, current, health>>

RegisterTargets ==
    /\ handler = "register"
    /\ IF difference(endpoints, health) # {} /\ stage[current] # "present"
       THEN Return /\ UNCHANGED registered
       ELSE /\ registered' =
                 [registered EXCEPT ![current] = @ \cup difference(endpoints, health)]
            /\ handler' = "deregister"
            /\ UNCHANGED setterVars
    /\ UNCHANGED <<podVars, informerVars, stage, draining, workerVars, cniTargetGroupARNs,
                   endpoints, faults>>

DeregisterTargets ==
    /\ handler = "deregister"
    /\ LET gone == difference(health, endpoints)
       IN  IF gone # {} /\ stage[current] # "present"
           THEN Return /\ UNCHANGED <<registered, draining>>
           ELSE /\ registered' = [registered EXCEPT ![current] = @ \ gone]
                /\ draining' = [draining EXCEPT ![current] = @ \cup (registered[current] \cap gone)]
                /\ handler' = "set"
                /\ current' = None
                /\ health' = {}
                /\ UNCHANGED todo
    /\ UNCHANGED <<podVars, informerVars, stage, workerVars, cniTargetGroupARNs, endpoints, faults>>

SetterFails ==
    /\ Fault
    /\ \/ handler = "register" /\ difference(endpoints, health) # {}
       \/ handler = "deregister" /\ difference(health, endpoints) # {}
    /\ Return
    /\ UNCHANGED <<podVars, informerVars, groupVars, workerVars, cniTargetGroupARNs, endpoints>>

SetterReturns ==
    /\ handler = "set"
    /\ todo = {}
    /\ Return
    /\ UNCHANGED <<podVars, informerVars, groupVars, workerVars, cniTargetGroupARNs, endpoints,
                   faults>>

-----------------------------------------------------------------------------
(* The controller crashes and starts again, with nothing but AWS and the    *)
(* cluster to go by.                                                        *)

FreshController ==
    /\ informer = "syncing"
    /\ updates = [p \in Pods |-> <<>>]
    /\ cache = [p \in Pods |-> "absent"]
    /\ known = {}
    /\ notified = {}
    /\ worker = "polling"
    /\ found = None
    /\ TargetGroupCh = <<>>
    /\ endpointCh = <<>>
    /\ handler = "select"
    /\ cniTargetGroupARNs = None
    /\ endpoints = None
    /\ todo = {}
    /\ current = None
    /\ health = {}

ControllerRestarts ==
    /\ Fault
    /\ unready' = {p \in Targets : phase[p] \in {"absent", "pending"}}
    /\ informer' = "syncing"
    /\ updates' = [p \in Pods |-> <<>>]
    /\ cache' = [p \in Pods |-> "absent"]
    /\ known' = {}
    /\ notified' = {}
    /\ worker' = "polling"
    /\ found' = None
    /\ TargetGroupCh' = <<>>
    /\ endpointCh' = <<>>
    /\ handler' = "select"
    /\ cniTargetGroupARNs' = None
    /\ endpoints' = None
    /\ todo' = {}
    /\ current' = None
    /\ health' = {}
    /\ UNCHANGED <<phase, groupVars>>

CNIInit ==
    /\ phase \in [Pods -> {"absent", "running", "gone"}]
    /\ stage \in [Groups -> {"absent", "present"}]
    /\ registered = [g \in Groups |-> {}]
    /\ draining = [g \in Groups |-> {}]
    /\ unready = {}
    /\ faults \in 0..MaxFaults
    /\ FreshController

InformerStep ==
    \/ WaitForCacheSync
    \/ ListPods
    \/ AddEventHandler
    \/ \E p \in Pods : Deliver(p) \/ Resync(p)

PollLoop == categorizeTargetTypeInstance \/ SendTargetGroups

cniEventHandler ==
    \/ ReceiveTargetGroups
    \/ ReceiveEndpoints
    \/ CheckMessages
    \/ WaitForRateLimiter
    \/ \E g \in Groups : DescribeTargetHealth(g)
    \/ RegisterTargets
    \/ DeregisterTargets
    \/ SetterReturns

ClusterStep ==
    \/ \E p \in Pods : PodCreated(p) \/ PodStarts(p) \/ PodTerminates(p) \/ PodRemoved(p)
    \/ \E g \in Groups : GroupCreated(g) \/ GroupDeleted(g)

CNIFailure ==
    \/ \E p \in Pods : ContainerFails(p) \/ ForcedDeletion(p)
    \/ \E g \in Groups : DescribeFails(g)
    \/ WatchBreaks
    \/ SetterFails
    \/ ControllerRestarts

CNINext ==
    \/ InformerStep
    \/ PollLoop
    \/ cniEventHandler
    \/ ClusterStep
    \/ CNIFailure
    \/ \E g \in Groups : Drained(g)

CNISpec == CNIInit /\ [][CNINext]_cniVars

CNIFairness ==
    /\ WF_cniVars(WaitForCacheSync \/ ListPods \/ AddEventHandler)
    /\ \A p \in Pods : WF_cniVars(Deliver(p)) /\ WF_cniVars(Resync(p))
    /\ WF_cniVars(PollLoop)
    /\ WF_cniVars(cniEventHandler)
    /\ \A g \in Groups : WF_cniVars(Drained(g))

FairCNISpec == CNISpec /\ CNIFairness

-----------------------------------------------------------------------------
(* The states of the three processes and what their variables hold.         *)
CNITypeOK ==
    /\ phase \in [Pods -> Phases]
    /\ unready \in SUBSET Pods
    /\ updates \in [Pods -> Seq(Phases)]
    /\ cache \in [Pods -> Phases]
    /\ informer \in {"syncing", "listing", "listed", "watching"}
    /\ known \in SUBSET Pods
    /\ notified \in SUBSET Pods
    /\ stage \in [Groups -> {"absent", "present", "deleted"}]
    /\ registered \in [Groups -> SUBSET Pods]
    /\ draining \in [Groups -> SUBSET Pods]
    /\ worker \in {"polling", "sending"}
    /\ found \in {None} \cup SUBSET Groups
    /\ TargetGroupCh \in Seq({None} \cup SUBSET Groups)
    /\ endpointCh \in Seq(SUBSET Pods)
    /\ Len(TargetGroupCh) <= Capacity
    /\ Len(endpointCh) <= Capacity
    /\ handler \in {"select", "check", "limit", "set", "register", "deregister"}
    /\ cniTargetGroupARNs \in {None} \cup SUBSET Groups
    /\ endpoints \in {None} \cup SUBSET Pods
    /\ todo \in SUBSET Groups
    /\ current \in Groups \cup {None}
    /\ health \in SUBSET Pods
    /\ faults \in 0..MaxFaults

\* No running pod is taken out of a target group, whatever messages are
\* under way, and whatever a new controller has not heard of yet (worker.go,
\* "prevent cleanup due to startup inconsistency").  The exception are targets
\* that were not ready while the controller started: they are not in its first
\* list, and may be deregistered by it after they run again.
KeepsRunning ==
    [][\A g \in Groups :
          stage'[g] = "present" =>
            (registered[g] \ registered'[g]) \cap Running \subseteq unready]_cniVars

\* Once the cluster is quiet, every running pod is a target of every target
\* group, in spite of the additions that have no handler, of lists that were
\* received while the handler waited, and of targets that are still draining.
RunningServed == <>[](\A g \in Present : Running \subseteq registered[g])

\* Pods the informer has seen terminating are targets of nothing in the end, in
\* histories that leave a pod in the cache for good: a new controller that finds
\* none waits for one, and what follows the scaling to zero is not asked about.
NotifiedRemoved ==
    <>[](Cached # {}) => <>[](\A g \in Present : registered[g] \cap notified = {})

\* The poll loop, which sends into a channel that may be full, is never stopped
\* by what the handler does or by what AWS answers it.
PollingContinues == []<>(worker = "polling")
=============================================================================
