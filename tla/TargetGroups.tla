---------------------------- MODULE TargetGroups ----------------------------
(***************************************************************************)
(* Instances as targets: the poll loop attaches the target groups of its   *)
(* stacks to Auto Scaling groups and registers the instances outside any   *)
(* Auto Scaling group ("single" instances) one by one                      *)
(* (aws/adapter.go, UpdateTargetGroupsAndAutoScalingGroups; aws/asg.go).   *)
(*                                                                         *)
(* A stack has one target group, which stands for the stack.  Stacks and   *)
(* instances live once.                                                    *)
(***************************************************************************)
EXTENDS Naturals, FiniteSets

CONSTANTS
    Groups,     \* target groups of the controller's stacks
    IPGroups,   \* those of them whose targets are addresses of pods
    Foreign,    \* target groups of others, which exist all the time
    ASGs,       \* Auto Scaling groups
    Instances,  \* EC2 instances of the cluster
    MaxFaults,  \* bound on failures and on changes of an Auto Scaling group's tags
    None        \* Go's nil

ASSUME TargetGroupsAssumption ==
    /\ IPGroups \subseteq Groups
    /\ Groups \cap Foreign = {}
    /\ (Groups \cup ASGs) \cap {None} = {}
    /\ MaxFaults \in Nat

VARIABLES
    stack,       \* life of each stack
    existing,    \* target groups of stacks that exist in AWS
    attached,    \* of each Auto Scaling group: its target groups
    roles,       \* of each Auto Scaling group: what its tags say
    instances,   \* life of each instance
    registered,  \* of each target group: instances registered by themselves
    singleInstances,    \* of each instance: what the controller remembers
    obsoleteInstances,
    targeted, owned,    \* TargetedAutoScalingGroups, OwnedAutoScalingGroups
    pc,          \* the call the poll loop does next
    stacks,      \* FindManagedStacks' answer
    groups,      \* targetGroupARNs
    left,        \* target groups the present loop has not reached
    asgsLeft,    \* Auto Scaling groups the present loop has not reached
    current,     \* the Auto Scaling group, or stack, it works on
    detachARNs, attachARNs,
    met,         \* single instances the process has seen (history)
    faults

awsVars == <<stack, existing, attached, roles, instances, registered>>
memoryVars == <<singleInstances, obsoleteInstances, targeted, owned, met>>
cycleVars == <<stacks, groups, left, asgsLeft, current, detachARNs, attachARNs>>
targetVars == <<awsVars, memoryVars, cycleVars, pc, faults>>

Lives == {"none", "live", "unwanted", "deleting", "gone"}
Listed == {g \in Groups : stack[g] \in {"live", "unwanted", "deleting"}}
Unwanted == {g \in Groups : stack[g] \in {"unwanted", "deleting"}}

Visible == {i \in Instances : instances[i] \in {"running", "stopped", "grouped"}}
Up == {i \in Instances : instances[i] \in {"running", "grouped"}}

Fault == faults < MaxFaults /\ faults' = faults + 1

-----------------------------------------------------------------------------
(* The cluster and AWS.                                                     *)

StackCreated(g) ==
    /\ stack[g] = "none"
    /\ stack' = [stack EXCEPT ![g] = "live"]
    /\ existing' = existing \cup {g}
    /\ UNCHANGED <<attached, roles, instances, registered,
                   memoryVars, cycleVars, pc, faults>>

\* No resource needs the stack any more and its certificates have expired.
Unneeded(g) ==
    /\ stack[g] = "live"
    /\ stack' = [stack EXCEPT ![g] = "unwanted"]
    /\ UNCHANGED <<existing, attached, roles, instances, registered,
                   memoryVars, cycleVars, pc, faults>>

Removed(g) ==
    /\ existing' = existing \ {g}
    /\ registered' = [registered EXCEPT ![g] = {}]
    /\ UNCHANGED <<stack, attached, roles, instances, memoryVars, cycleVars, pc>>

GroupDeleted(g) ==
    g \in existing /\ stack[g] = "deleting" /\ Removed(g) /\ UNCHANGED faults

StackGone(g) ==
    /\ stack[g] = "deleting" /\ g \notin existing
    /\ stack' = [stack EXCEPT ![g] = "gone"]
    /\ UNCHANGED <<existing, attached, roles, instances, registered,
                   memoryVars, cycleVars, pc, faults>>

\* Somebody deletes the target group of a stack by hand.
GroupVanishes(g) == Fault /\ g \in existing /\ stack[g] = "live" /\ Removed(g)

\* The tags of an Auto Scaling group change.
Retag(a, r) ==
    /\ Fault
    /\ roles[a] # r
    /\ roles' = [roles EXCEPT ![a] = r]
    /\ UNCHANGED <<stack, existing, attached, instances, registered,
                   memoryVars, cycleVars, pc>>

Becomes(i, from, to) ==
    /\ instances[i] \in from
    /\ instances' = [instances EXCEPT ![i] = to]
    /\ UNCHANGED <<stack, existing, attached, roles, registered,
                   memoryVars, cycleVars, pc>>

InstanceStarts(i) == Becomes(i, {"absent", "stopped"}, "running") /\ UNCHANGED faults
InstanceTerminates(i) == Becomes(i, {"running", "stopped", "grouped"}, "gone") /\ UNCHANGED faults
InstanceStops(i) == Fault /\ Becomes(i, {"running"}, "stopped")
InstanceJoins(i) == Fault /\ Becomes(i, {"running"}, "grouped")

-----------------------------------------------------------------------------
(* A cycle of the poll loop.                                                *)

FindManagedStacks ==
    /\ pc = "idle"
    /\ stacks' = Listed
    /\ pc' = "instances"
    /\ UNCHANGED <<awsVars, memoryVars, groups, left, asgsLeft, current,
                   detachARNs, attachARNs, faults>>

\* An error: the details of an instance are read once.
KnownDetails(i) ==
    IF singleInstances[i] # "unknown" THEN singleInstances[i]
    ELSE IF instances[i] = "grouped" THEN "unknown" ELSE instances[i]

Details(i) == IF instances[i] = "grouped" THEN singleInstances[i] ELSE instances[i]

Singles == {i \in Instances : singleInstances[i] # "unknown"}

\* DescribeInstances has returned these instances.  One that has joined an
\* Auto Scaling group stays a single instance as it was.
Remember(seen) ==
    /\ obsoleteInstances' = obsoleteInstances \cup (Singles \ seen)
    /\ singleInstances' = [i \in Instances |->
                             IF i \in seen THEN Details(i) ELSE "unknown"]
    /\ met' = met \cup {i \in seen : Details(i) # "unknown"}
    /\ pc' = "asgs"
    /\ UNCHANGED <<awsVars, targeted, owned, cycleVars>>

DescribeInstances == pc = "instances" /\ Remember(Visible) /\ UNCHANGED faults

\* The answer misses an instance.
InstanceOverlooked(i) == Fault /\ pc = "instances" /\ i \in Visible /\ Remember(Visible \ {i})

DescribeAutoScalingGroups ==
    /\ pc = "asgs"
    /\ targeted' = {a \in ASGs : "targeted" \in roles[a]}
    /\ owned' = {a \in ASGs : "owned" \in roles[a]}
    /\ pc' = "categorize"
    /\ UNCHANGED <<awsVars, singleInstances, obsoleteInstances, met, cycleVars, faults>>

\* The next cycle reads all of these again before it uses them.
EndCycle ==
    /\ pc' = "idle"
    /\ stacks' = {} /\ groups' = {} /\ targeted' = {} /\ owned' = {}

\* An early return of doWork, the reading of certificates and alarms included.
CycleFails ==
    /\ Fault
    /\ pc \in {"instances", "asgs", "categorize"}
    /\ EndCycle
    /\ UNCHANGED <<awsVars, singleInstances, obsoleteInstances, met, left, asgsLeft,
                   current, detachARNs, attachARNs>>

ToModel ==
    /\ pc' = "model"
    /\ left' = stacks \cap Unwanted

\* An error: addresses of pods are not told from instances.
AllGroups == stacks

InstanceGroups == stacks \ (IPGroups \cap existing)

Categorize ==
    /\ pc = "categorize"
    /\ groups' = InstanceGroups
    /\ asgsLeft' = targeted \cup owned
    /\ pc' = "asg"
    /\ UNCHANGED <<awsVars, memoryVars, stacks, left, current,
                   detachARNs, attachARNs, faults>>

CategorizeFails ==
    /\ Fault
    /\ pc = "categorize"
    /\ ToModel
    /\ UNCHANGED <<awsVars, memoryVars, stacks, groups, asgsLeft, current,
                   detachARNs, attachARNs>>

-----------------------------------------------------------------------------
(* updateTargetGroupsForAutoScalingGroup.                                   *)

\* Those it has to have.
ARNsFor(a) == IF a \in targeted THEN groups ELSE {}

\* An error: the target groups of others are obsolete, too.
DetachUnlisted(a) == attached[a] \ (existing \cap ARNsFor(a))

\* An error: what does not exist any more is left alone.
DetachOwnedOnly(a) == (attached[a] \cap existing) \ ARNsFor(a)

\* Target groups that do not exist and obsolete ones of the controller.
ToDetach(a) == attached[a] \ (Foreign \cup (existing \cap ARNsFor(a)))

\* Targeted groups come first.
NextASG(a) == a \in asgsLeft /\ (a \notin targeted => asgsLeft \cap targeted = {})

\* Only this process changes what is attached, so the three calls that read
\* are one step.
ReadGroups(a) ==
    /\ pc = "asg" /\ NextASG(a)
    /\ asgsLeft' = asgsLeft \ {a}
    /\ current' = a
    /\ detachARNs' = ToDetach(a)
    /\ attachARNs' = existing \cap ARNsFor(a)
    /\ pc' = "detach"
    /\ UNCHANGED <<awsVars, memoryVars, stacks, groups, left, faults>>

ReadGroupsFails(a) ==
    /\ Fault
    /\ pc = "asg" /\ NextASG(a)
    /\ asgsLeft' = asgsLeft \ {a}
    /\ UNCHANGED <<awsVars, memoryVars, stacks, groups, left, current,
                   detachARNs, attachARNs, pc>>

\* An error: after a failure to detach, the loop goes on to attach.
LeaveDetaching ==
    /\ pc' = IF pc = "detach" THEN "attach" ELSE "asg"
    /\ current' = None
    /\ detachARNs' = {}
    /\ attachARNs' = {}

LeaveASG ==
    /\ pc' = "asg"
    /\ current' = None
    /\ detachARNs' = {}
    /\ attachARNs' = {}

DetachGroups ==
    /\ pc = "detach"
    /\ attached' = [attached EXCEPT ![current] = @ \ detachARNs]
    /\ pc' = "attach"
    /\ UNCHANGED <<stack, existing, roles, instances, registered,
                   memoryVars, cycleVars, faults>>

\* AWS is called for ten target groups at a time and the first error ends it: a
\* target group of the model stands for those of one call.
DetachFails ==
    /\ Fault
    /\ pc = "detach" /\ detachARNs # {}
    /\ \E done \in SUBSET detachARNs \ {detachARNs} :
         attached' = [attached EXCEPT ![current] = @ \ done]
    /\ LeaveASG
    /\ UNCHANGED <<stack, existing, roles, instances, registered,
                   memoryVars, stacks, groups, left, asgsLeft>>

Attach(done) ==
    /\ pc = "attach"
    /\ attached' = [attached EXCEPT ![current] = @ \cup done]
    /\ LeaveASG
    /\ UNCHANGED <<stack, existing, roles, instances, registered,
                   memoryVars, stacks, groups, left, asgsLeft>>

AttachGroups ==
    /\ attachARNs \subseteq existing
    /\ Attach(attachARNs)
    /\ UNCHANGED faults

\* A target group has been deleted since.
AttachRefused ==
    /\ ~ attachARNs \subseteq existing
    /\ \E done \in SUBSET (attachARNs \cap existing) : Attach(done)
    /\ UNCHANGED faults

AttachFails ==
    /\ Fault
    /\ \E done \in SUBSET (attachARNs \cap existing) \ {attachARNs} : Attach(done)

ASGsDone ==
    /\ pc = "asg" /\ asgsLeft = {}
    /\ pc' = "register"
    /\ left' = groups
    /\ UNCHANGED <<awsVars, memoryVars, stacks, groups, asgsLeft, current,
                   detachARNs, attachARNs, faults>>

-----------------------------------------------------------------------------
(* Single instances.                                                        *)

RunningSingleInstances == {i \in Instances : singleInstances[i] = "running"}

Deregister == pc' = "deregister" /\ left' = groups

\* AWS refuses a target group that does not exist and an instance that is
\* not running.
CanRegister(g) == g \in existing /\ RunningSingleInstances \subseteq Up

RegisterTargets(g) ==
    /\ pc = "register" /\ g \in left
    /\ CanRegister(g)
    /\ registered' = [registered EXCEPT ![g] = @ \cup RunningSingleInstances]
    /\ left' = left \ {g}
    /\ UNCHANGED <<stack, existing, attached, roles, instances, memoryVars,
                   stacks, groups, asgsLeft, current, detachARNs, attachARNs, pc, faults>>

\* The first error ends the loop.
RegisterRefused(g) ==
    /\ pc = "register" /\ g \in left
    /\ ~ CanRegister(g) /\ RunningSingleInstances # {}
    /\ Deregister
    /\ UNCHANGED <<awsVars, memoryVars, stacks, groups, asgsLeft, current,
                   detachARNs, attachARNs, faults>>

RegisterFails ==
    /\ Fault
    /\ pc = "register" /\ left # {} /\ RunningSingleInstances # {}
    /\ Deregister
    /\ UNCHANGED <<awsVars, memoryVars, stacks, groups, asgsLeft, current,
                   detachARNs, attachARNs>>

RegisterDone ==
    /\ pc = "register"
    /\ left = {} \/ RunningSingleInstances = {}
    /\ Deregister
    /\ UNCHANGED <<awsVars, memoryVars, stacks, groups, asgsLeft, current,
                   detachARNs, attachARNs, faults>>

DeregisterTargets(g) ==
    /\ pc = "deregister" /\ g \in left /\ obsoleteInstances # {}
    /\ g \in existing
    /\ registered' = [registered EXCEPT ![g] = @ \ obsoleteInstances]
    /\ left' = left \ {g}
    /\ UNCHANGED <<stack, existing, attached, roles, instances, memoryVars,
                   stacks, groups, asgsLeft, current, detachARNs, attachARNs, pc, faults>>

\* The list of obsolete instances is kept for the next cycle.
DeregisterRefused(g) ==
    /\ pc = "deregister" /\ g \in left \ existing /\ obsoleteInstances # {}
    /\ ToModel
    /\ UNCHANGED <<awsVars, memoryVars, stacks, groups, asgsLeft, current,
                   detachARNs, attachARNs, faults>>

\* An error: the list is cleared although a call has failed.
ClearAfterFailure ==
    /\ Fault
    /\ pc = "deregister" /\ left # {} /\ obsoleteInstances # {}
    /\ ToModel
    /\ obsoleteInstances' = {}
    /\ UNCHANGED <<awsVars, singleInstances, targeted, owned, met, stacks, groups,
                   asgsLeft, current, detachARNs, attachARNs>>

DeregisterFails ==
    /\ Fault
    /\ pc = "deregister" /\ left # {} /\ obsoleteInstances # {}
    /\ ToModel
    /\ UNCHANGED <<awsVars, memoryVars, stacks, groups, asgsLeft, current,
                   detachARNs, attachARNs>>

DeregisterDone ==
    /\ pc = "deregister"
    /\ left = {} \/ obsoleteInstances = {}
    /\ obsoleteInstances' = {}
    /\ ToModel
    /\ UNCHANGED <<awsVars, singleInstances, targeted, owned, met, stacks, groups,
                   asgsLeft, current, detachARNs, attachARNs, faults>>

-----------------------------------------------------------------------------
(* DeleteStack, for every stack that nothing needs.                         *)

StartDeletion(g) ==
    /\ pc = "model" /\ g \in left
    /\ left' = left \ {g}
    /\ current' = g
    /\ asgsLeft' = targeted
    /\ pc' = "delete"
    /\ UNCHANGED <<awsVars, memoryVars, stacks, groups, detachARNs, attachARNs, faults>>

DetachForDeletion(a) ==
    /\ pc = "delete" /\ a \in asgsLeft
    /\ attached' = [attached EXCEPT ![a] = @ \ {current}]
    /\ asgsLeft' = asgsLeft \ {a}
    /\ UNCHANGED <<stack, existing, roles, instances, registered, memoryVars,
                   stacks, groups, left, current, detachARNs, attachARNs, pc, faults>>

DeleteStack ==
    /\ pc = "delete" /\ asgsLeft = {}
    /\ stack' = [stack EXCEPT ![current] = IF @ = "gone" THEN @ ELSE "deleting"]
    /\ pc' = "model"
    /\ current' = None
    /\ UNCHANGED <<existing, attached, roles, instances, registered, memoryVars,
                   stacks, groups, left, asgsLeft, detachARNs, attachARNs, faults>>

\* A call of DeleteStack fails, the last one or one of those before it.
DeleteStackFails ==
    /\ Fault
    /\ pc = "delete"
    /\ pc' = "model"
    /\ current' = None
    /\ asgsLeft' = {}
    /\ UNCHANGED <<awsVars, memoryVars, stacks, groups, left, detachARNs, attachARNs>>

CycleDone ==
    /\ pc = "model" /\ left = {}
    /\ EndCycle
    /\ UNCHANGED <<awsVars, singleInstances, obsoleteInstances, met, left, asgsLeft,
                   current, detachARNs, attachARNs, faults>>

Restart ==
    /\ Fault
    /\ pc' = "idle"
    /\ singleInstances' = [i \in Instances |-> "unknown"]
    /\ obsoleteInstances' = {} /\ targeted' = {} /\ owned' = {} /\ met' = {}
    /\ stacks' = {} /\ groups' = {} /\ left' = {} /\ asgsLeft' = {}
    /\ current' = None /\ detachARNs' = {} /\ attachARNs' = {}
    /\ UNCHANGED awsVars

-----------------------------------------------------------------------------

TargetInit ==
    /\ stack \in [Groups -> {"none", "live", "gone"}]
    /\ existing = {g \in Groups : stack[g] = "live"}
    /\ attached = [a \in ASGs |-> Foreign]
    /\ roles \in [ASGs -> SUBSET {"owned", "targeted"}]
    /\ instances \in [Instances -> {"absent", "running"}]
    /\ registered = [g \in Groups |-> {}]
    /\ singleInstances = [i \in Instances |-> "unknown"]
    /\ obsoleteInstances = {} /\ targeted = {} /\ owned = {} /\ met = {}
    /\ pc = "idle"
    /\ stacks = {} /\ groups = {} /\ left = {} /\ asgsLeft = {}
    /\ current = None /\ detachARNs = {} /\ attachARNs = {}
    /\ faults \in 0 .. MaxFaults

Environment ==
    \/ \E g \in Groups : \/ StackCreated(g) \/ Unneeded(g)
                         \/ GroupDeleted(g) \/ StackGone(g) \/ GroupVanishes(g)
    \/ \E a \in ASGs, r \in SUBSET {"owned", "targeted"} : Retag(a, r)
    \/ \E i \in Instances : \/ InstanceStarts(i) \/ InstanceTerminates(i)
                            \/ InstanceStops(i) \/ InstanceJoins(i)

Failure ==
    \/ \E i \in Instances : InstanceOverlooked(i)
    \/ \E a \in ASGs : ReadGroupsFails(a)
    \/ CycleFails \/ CategorizeFails \/ DetachFails \/ AttachFails
    \/ RegisterFails \/ DeregisterFails \/ DeleteStackFails \/ Restart

Cycle ==
    \/ FindManagedStacks \/ DescribeInstances \/ DescribeAutoScalingGroups \/ Categorize
    \/ \E a \in ASGs : ReadGroups(a) \/ DetachForDeletion(a)
    \/ DetachGroups \/ AttachGroups \/ AttachRefused \/ ASGsDone
    \/ \E g \in Groups : \/ RegisterTargets(g) \/ RegisterRefused(g)
                         \/ DeregisterTargets(g) \/ DeregisterRefused(g)
                         \/ StartDeletion(g)
    \/ RegisterDone \/ DeregisterDone \/ DeleteStack \/ CycleDone

TargetNext == Environment \/ Failure \/ Cycle

\* The poll loop keeps running and CloudFormation finishes what it deletes.
TargetFairness ==
    /\ WF_targetVars(Cycle)
    /\ \A g \in Groups : WF_targetVars(GroupDeleted(g)) /\ WF_targetVars(StackGone(g))

TargetSpec == TargetInit /\ [][TargetNext]_targetVars /\ TargetFairness

-----------------------------------------------------------------------------

TargetTypeOK ==
    /\ stack \in [Groups -> Lives]
    /\ existing \subseteq Groups
    /\ attached \in [ASGs -> SUBSET (Groups \cup Foreign)]
    /\ roles \in [ASGs -> SUBSET {"owned", "targeted"}]
    /\ instances \in [Instances -> {"absent", "running", "stopped", "grouped", "gone"}]
    /\ registered \in [Groups -> SUBSET Instances]
    /\ singleInstances \in [Instances -> {"unknown", "running", "stopped"}]
    /\ {obsoleteInstances, met} \subseteq SUBSET Instances
    /\ {targeted, owned, asgsLeft} \subseteq SUBSET ASGs
    /\ {stacks, groups, left, attachARNs} \subseteq SUBSET Groups
    /\ detachARNs \subseteq Groups \cup Foreign
    /\ pc \in {"idle", "instances", "asgs", "categorize", "asg", "detach", "attach",
               "register", "deregister", "model", "delete"}
    /\ current \in {None} \cup ASGs \cup Groups
    /\ pc \in {"detach", "attach"} => current \in ASGs
    /\ pc = "delete" => current \in Groups
    /\ faults \in 0 .. MaxFaults

InstanceTargets == {g \in existing \ IPGroups : stack[g] = "live"}

\* A target group of the pods' addresses gets no instances, neither those of
\* an Auto Scaling group nor single ones, although the two kinds are told
\* apart by what exists when a cycle reads them (adapter.go, difference).
NoInstancesInIPGroups ==
    /\ \A a \in ASGs : attached[a] \cap IPGroups = {}
    /\ \A g \in IPGroups : registered[g] = {}

\* What an Auto Scaling group loses is gone, or is the target group of a
\* stack that is not needed any more, or the cycle has seen that the Auto
\* Scaling group is not targeted: nodes never drop out of a load balancer in
\* use, and the target groups of others stay (asg.go, describeTags).
LosesOnlyObsolete ==
    [][\A a \in ASGs : \A g \in attached[a] \ attached'[a] :
          /\ g \notin Foreign
          /\ g \notin InstanceTargets \/ a \notin targeted]_targetVars

\* In the end an Auto Scaling group that is targeted has the target groups of
\* the stacks in use, and one that is only owned has none of them, whatever
\* calls have failed and whichever stacks were deleted meanwhile.
AttachmentsSettle ==
    <>[](\A a \in ASGs : roles[a] # {} =>
           attached[a] = Foreign \cup IF "targeted" \in roles[a] THEN InstanceTargets ELSE {})

\* The target group of a stack in use has been deleted by hand.
Broken == {g \in Groups : stack[g] \in {"live", "unwanted"} /\ g \notin existing}

Served == \A i \in Instances : instances[i] = "running" =>
             \A g \in InstanceTargets : i \in registered[g]

\* In the end the single instances that run are registered in all target
\* groups, provided none is missing (elbv2.go, registerTargetsOnTargetGroups).
SinglesServed == <>[](Broken = {}) => <>[]Served

\* In the end an instance that has disappeared is registered nowhere if this
\* process has known it as a single instance (adapter.go, obsoleteInstances),
\* provided no target group is missing.
ObsoleteRemoved ==
    <>[](Broken = {}) =>
        <>[](\A i \in met : instances[i] = "gone" =>
               \A g \in Groups : i \notin registered[g])
=============================================================================
