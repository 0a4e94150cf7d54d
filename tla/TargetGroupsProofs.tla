------------------------- MODULE TargetGroupsProofs -------------------------
(***************************************************************************)
(* Theorems about TargetGroups, for any number of stacks, Auto Scaling     *)
(* groups, instances and failures.                                         *)
(***************************************************************************)
EXTENDS TargetGroups, TLAPS

-----------------------------------------------------------------------------
(* Types.                                                                   *)

LEMMA TargetTypeInit == TargetInit => TargetTypeOK
PROOF
<1> SUFFICES ASSUME TargetInit PROVE TargetTypeOK
  OBVIOUS
<1> USE TargetGroupsAssumption DEF TargetInit
<1>1. /\ stack \in [Groups -> Lives]
      /\ existing \subseteq Groups
      /\ attached \in [ASGs -> SUBSET (Groups \cup Foreign)]
  BY DEF Lives
<1>2. /\ instances \in [Instances -> {"absent", "running", "stopped", "grouped", "gone"}]
      /\ registered \in [Groups -> SUBSET Instances]
      /\ singleInstances \in [Instances -> {"unknown", "running", "stopped"}]
  OBVIOUS
<1>3. faults \in 0 .. MaxFaults
  OBVIOUS
<1>4. QED
  BY <1>1, <1>2, <1>3 DEF TargetTypeOK

LEMMA FaultType ==
    ASSUME TargetTypeOK, Fault
    PROVE  faults' \in 0 .. MaxFaults
  BY TargetGroupsAssumption DEF TargetTypeOK, Fault

LEMMA EnvironmentType ==
    ASSUME TargetTypeOK, Environment
    PROVE  TargetTypeOK'
PROOF
<1> USE DEF TargetTypeOK, memoryVars, cycleVars
<1>1. ASSUME NEW g \in Groups, StackCreated(g) \/ Unneeded(g) \/ StackGone(g)
      PROVE  TargetTypeOK'
  <2>1. stack' \in [Groups -> Lives] /\ existing' \subseteq Groups
    BY <1>1 DEF StackCreated, Unneeded, StackGone, Lives
  <2>2. QED
    BY <1>1, <2>1 DEF StackCreated, Unneeded, StackGone
<1>2. ASSUME NEW g \in Groups, Removed(g), faults' \in 0 .. MaxFaults
      PROVE  TargetTypeOK'
  <2>1. registered' \in [Groups -> SUBSET Instances] /\ existing' \subseteq Groups
    BY <1>2 DEF Removed
  <2>2. QED
    BY <1>2, <2>1 DEF Removed
<1>3. ASSUME NEW g \in Groups, GroupDeleted(g) \/ GroupVanishes(g)
      PROVE  TargetTypeOK'
  BY <1>2, <1>3, FaultType DEF GroupDeleted, GroupVanishes
<1>4. ASSUME NEW a \in ASGs, NEW r \in SUBSET {"owned", "targeted"}, Retag(a, r)
      PROVE  TargetTypeOK'
  <2>1. roles' \in [ASGs -> SUBSET {"owned", "targeted"}]
    BY <1>4 DEF Retag
  <2>2. QED
    BY <1>4, <2>1, FaultType DEF Retag
<1>5. ASSUME NEW i \in Instances, NEW from,
             NEW to \in {"absent", "running", "stopped", "grouped", "gone"},
             Becomes(i, from, to), faults' \in 0 .. MaxFaults
      PROVE  TargetTypeOK'
  <2>1. instances' \in [Instances -> {"absent", "running", "stopped", "grouped", "gone"}]
    BY <1>5 DEF Becomes
  <2>2. QED
    BY <1>5, <2>1 DEF Becomes
<1>6. ASSUME NEW i \in Instances,
             \/ InstanceStarts(i) \/ InstanceTerminates(i)
             \/ InstanceStops(i) \/ InstanceJoins(i)
      PROVE  TargetTypeOK'
  <2>1. faults' \in 0 .. MaxFaults
    BY <1>6, FaultType DEF InstanceStarts, InstanceTerminates, InstanceStops, InstanceJoins
  <2>2. QED
    BY <1>5, <1>6, <2>1
    DEF InstanceStarts, InstanceTerminates, InstanceStops, InstanceJoins
<1>7. QED
  BY <1>1, <1>3, <1>4, <1>6 DEF Environment

\* What the controller remembers of any instances it is told of.
LEMMA RememberType ==
    ASSUME TargetTypeOK, NEW seen \in SUBSET Visible, Remember(seen),
           faults' \in 0 .. MaxFaults
    PROVE  TargetTypeOK'
PROOF
<1> USE DEF TargetTypeOK, awsVars, cycleVars
<1>1. seen \subseteq Instances
  BY DEF Visible
<1>2. \A i \in seen : Details(i) \in {"unknown", "running", "stopped"}
  BY DEF Visible, Details
<1>3. singleInstances' \in [Instances -> {"unknown", "running", "stopped"}]
  BY <1>1, <1>2 DEF Remember
<1>4. obsoleteInstances' \subseteq Instances /\ met' \subseteq Instances
  BY <1>1 DEF Remember, Singles
<1>5. QED
  BY <1>3, <1>4 DEF Remember

\* Whichever of the target groups are attached.
LEMMA AttachType ==
    ASSUME TargetTypeOK, NEW done \in SUBSET Groups, Attach(done), faults' \in 0 .. MaxFaults
    PROVE  TargetTypeOK'
PROOF
<1> USE DEF TargetTypeOK
<1>1. attached' \in [ASGs -> SUBSET (Groups \cup Foreign)]
  BY DEF Attach
<1>2. QED
  BY <1>1 DEF Attach, LeaveASG, memoryVars

LEMMA FailureType ==
    ASSUME TargetTypeOK, Failure
    PROVE  TargetTypeOK'
PROOF
<1> USE FaultType
<1>1. ASSUME NEW i \in Instances, InstanceOverlooked(i)
      PROVE  TargetTypeOK'
  BY <1>1, RememberType DEF InstanceOverlooked
<1> USE DEF TargetTypeOK, awsVars
<1>2. ASSUME NEW a \in ASGs, ReadGroupsFails(a)
      PROVE  TargetTypeOK'
  BY <1>2 DEF ReadGroupsFails, memoryVars
<1>3. CASE CycleFails
  BY <1>3 DEF CycleFails, EndCycle
<1>4. CASE CategorizeFails \/ RegisterFails \/ DeregisterFails \/ DeleteStackFails
  BY <1>4 DEF CategorizeFails, RegisterFails, DeregisterFails, DeleteStackFails, ToModel,
              Deregister, memoryVars
<1>5. CASE DetachFails
  <2>1. attached' \in [ASGs -> SUBSET (Groups \cup Foreign)]
    BY <1>5 DEF DetachFails
  <2>2. QED
    BY <1>5, <2>1 DEF DetachFails, LeaveASG, memoryVars
<1>6. CASE AttachFails
  BY <1>6, AttachType DEF AttachFails
<1>7. CASE Restart
  BY <1>7 DEF Restart
<1>8. QED
  BY <1>1, <1>2, <1>3, <1>4, <1>5, <1>6, <1>7 DEF Failure

LEMMA CycleType ==
    ASSUME TargetTypeOK, Cycle
    PROVE  TargetTypeOK'
PROOF
<1>1. CASE DescribeInstances
  BY <1>1, RememberType DEF DescribeInstances, TargetTypeOK
<1> USE DEF TargetTypeOK, memoryVars
<1>2. CASE FindManagedStacks
  BY <1>2 DEF FindManagedStacks, Listed, awsVars
<1>3. CASE DescribeAutoScalingGroups
  BY <1>3 DEF DescribeAutoScalingGroups, awsVars, cycleVars
<1>4. CASE Categorize
  BY <1>4 DEF Categorize, InstanceGroups, awsVars
<1>5. ASSUME NEW a \in ASGs, ReadGroups(a)
      PROVE  TargetTypeOK'
  BY <1>5 DEF ReadGroups, ToDetach, awsVars
<1>6. ASSUME NEW a \in ASGs, DetachForDeletion(a)
      PROVE  TargetTypeOK'
  <2>1. attached' \in [ASGs -> SUBSET (Groups \cup Foreign)]
    BY <1>6 DEF DetachForDeletion
  <2>2. QED
    BY <1>6, <2>1 DEF DetachForDeletion
<1>7. CASE DetachGroups
  <2>1. attached' \in [ASGs -> SUBSET (Groups \cup Foreign)]
    BY <1>7 DEF DetachGroups
  <2>2. QED
    BY <1>7, <2>1 DEF DetachGroups, cycleVars
<1>8. CASE AttachGroups
  BY <1>8, AttachType DEF AttachGroups
<1>9. CASE AttachRefused
  BY <1>9, AttachType DEF AttachRefused
<1>10. ASSUME NEW g \in Groups, RegisterTargets(g) \/ DeregisterTargets(g)
       PROVE  TargetTypeOK'
  <2>1. registered' \in [Groups -> SUBSET Instances]
    BY <1>10 DEF RegisterTargets, DeregisterTargets, RunningSingleInstances
  <2>2. QED
    BY <1>10, <2>1 DEF RegisterTargets, DeregisterTargets
<1>11. ASSUME NEW g \in Groups,
              RegisterRefused(g) \/ DeregisterRefused(g) \/ StartDeletion(g)
       PROVE  TargetTypeOK'
  BY <1>11 DEF RegisterRefused, DeregisterRefused, StartDeletion, Deregister, ToModel, awsVars
<1>12. CASE ASGsDone \/ RegisterDone \/ DeregisterDone \/ CycleDone
  BY <1>12 DEF ASGsDone, RegisterDone, DeregisterDone, CycleDone, Deregister, ToModel,
               EndCycle, awsVars
<1>13. CASE DeleteStack
  <2>1. stack' \in [Groups -> Lives]
    BY <1>13 DEF DeleteStack, Lives
  <2>2. QED
    BY <1>13, <2>1 DEF DeleteStack
<1>14. QED
  BY <1>1, <1>2, <1>3, <1>4, <1>5, <1>6, <1>7, <1>8, <1>9, <1>10, <1>11, <1>12, <1>13
  DEF Cycle

LEMMA TargetTypeStep ==
    ASSUME TargetTypeOK, [TargetNext]_targetVars
    PROVE  TargetTypeOK'
PROOF
<1>1. CASE UNCHANGED targetVars
  BY <1>1 DEF TargetTypeOK, targetVars, awsVars, memoryVars, cycleVars
<1>2. QED
  BY <1>1, EnvironmentType, FailureType, CycleType DEF TargetNext

\* The calls of a cycle and what they work on are always well typed: there is
\* an Auto Scaling group when target groups are detached or attached, and a
\* stack when one is deleted.
THEOREM TargetTypeCorrect == TargetSpec => []TargetTypeOK
PROOF
<1>1. TargetInit => TargetTypeOK
  BY TargetTypeInit
<1>2. TargetTypeOK /\ [TargetNext]_targetVars => TargetTypeOK'
  BY TargetTypeStep
<1>3. QED
  BY <1>1, <1>2, PTL DEF TargetSpec

-----------------------------------------------------------------------------
(* The inductive invariant.                                                 *)

\* These target groups belong to stacks that have been created.
Created(S) == \A g \in S \cap Groups : stack[g] # "none"

\* What exists, is known or is attached has been created.  Since stacks live
\* once, what does not exist at some time but is known then never will.
CreatedInv ==
    /\ Created(existing) /\ Created(stacks) /\ Created(groups)
    /\ \A a \in ASGs : Created(attached[a])

\* What a cycle works on has no target group of addresses, but for those that
\* are gone.
KindsInv ==
    /\ groups \cap IPGroups \cap existing = {}
    /\ pc \in {"detach", "attach"} => attachARNs \subseteq groups \ IPGroups
    /\ pc \in {"register", "deregister"} => left \subseteq groups

\* A target group in use that is attached was listed when the cycle began.
ListInv ==
    /\ pc # "idle" =>
         \A a \in ASGs : \A g \in attached[a] \cap Groups : stack[g] = "live" => g \in stacks
    /\ pc \in {"asg", "detach", "attach"} => groups \subseteq stacks /\ stacks \ IPGroups \subseteq groups

\* What will be detached, and which stacks will be deleted.
DetachInv ==
    /\ pc = "detach" =>
         /\ detachARNs \subseteq Groups /\ Created(detachARNs)
         /\ current \in targeted => detachARNs \cap InstanceTargets = {}
    /\ pc = "model" => \A g \in left : stack[g] \notin {"none", "live"}
    /\ pc = "delete" => \A g \in left \cup {current} : stack[g] \notin {"none", "live"}

AttachInv == CreatedInv /\ KindsInv /\ ListInv /\ DetachInv /\ NoInstancesInIPGroups

IInv == TargetTypeOK /\ AttachInv

LEMMA IInvInit == TargetInit => IInv
PROOF
<1> SUFFICES ASSUME TargetInit PROVE AttachInv
  BY TargetTypeInit DEF IInv
<1>1. CreatedInv
  BY TargetGroupsAssumption DEF TargetInit, CreatedInv, Created
<1>2. KindsInv /\ ListInv /\ DetachInv
  BY DEF TargetInit, KindsInv, ListInv, DetachInv
<1>3. NoInstancesInIPGroups
  BY TargetGroupsAssumption DEF TargetInit, NoInstancesInIPGroups
<1>4. QED
  BY <1>1, <1>2, <1>3 DEF AttachInv

-----------------------------------------------------------------------------
(* The environment: stacks only ever get older.                             *)

\* Nothing comes to exist but with a stack that is created, and a stack in use
\* has been in use or is new.
Older ==
    /\ \A g \in Groups : stack[g] # "none" =>
         /\ stack'[g] # "none"
         /\ stack'[g] = "live" => stack[g] = "live"
         /\ g \in existing' => g \in existing
    /\ \A g \in existing' \ existing : stack'[g] # "none"

LEMMA EnvironmentFacts ==
    ASSUME TargetTypeOK, Environment
    PROVE  /\ Older
           /\ UNCHANGED <<attached, memoryVars, cycleVars, pc>>
           /\ \A g \in Groups : registered'[g] \subseteq registered[g]
PROOF
<1> USE DEF TargetTypeOK
<1>1. ASSUME NEW g \in Groups, StackCreated(g)
      PROVE  Older /\ UNCHANGED <<attached, registered, memoryVars, cycleVars, pc>>
  BY <1>1 DEF StackCreated, Older
<1>2. ASSUME NEW g \in Groups, Unneeded(g) \/ StackGone(g)
      PROVE  Older /\ UNCHANGED <<attached, registered, memoryVars, cycleVars, pc>>
  BY <1>2 DEF Unneeded, StackGone, Older
<1>3. ASSUME NEW g \in Groups, GroupDeleted(g) \/ GroupVanishes(g)
      PROVE  /\ Older /\ UNCHANGED <<attached, memoryVars, cycleVars, pc>>
             /\ \A h \in Groups : registered'[h] \subseteq registered[h]
  BY <1>3 DEF GroupDeleted, GroupVanishes, Removed, Older
<1>4. ASSUME NEW a \in ASGs, NEW r \in SUBSET {"owned", "targeted"}, Retag(a, r)
      PROVE  Older /\ UNCHANGED <<attached, registered, memoryVars, cycleVars, pc>>
  BY <1>4 DEF Retag, Older
<1>5. ASSUME NEW i \in Instances,
             \/ InstanceStarts(i) \/ InstanceTerminates(i)
             \/ InstanceStops(i) \/ InstanceJoins(i)
      PROVE  Older /\ UNCHANGED <<attached, registered, memoryVars, cycleVars, pc>>
  BY <1>5 DEF InstanceStarts, InstanceTerminates, InstanceStops, InstanceJoins, Becomes, Older
<1>6. QED
  BY <1>1, <1>2, <1>3, <1>4, <1>5 DEF Environment

LEMMA EnvironmentKeeps ==
    ASSUME IInv, Environment
    PROVE  AttachInv'
PROOF
<1>1. /\ Older
      /\ UNCHANGED <<attached, targeted, stacks, groups, left, current, detachARNs,
                     attachARNs, pc>>
      /\ \A g \in Groups : registered'[g] \subseteq registered[g]
  BY EnvironmentFacts DEF IInv, memoryVars, cycleVars
<1> USE <1>1, TargetGroupsAssumption DEF IInv, AttachInv, TargetTypeOK
<1>2. CreatedInv'
  BY DEF CreatedInv, Created, Older
<1>3. KindsInv'
  BY DEF CreatedInv, Created, KindsInv, Older
<1>4. ListInv'
  BY DEF CreatedInv, Created, ListInv, Older
<1>5. DetachInv'
  <2>1. CASE pc = "detach"
    <3>1. detachARNs \subseteq Groups /\ Created(detachARNs)
      BY <2>1 DEF DetachInv
    <3>2. Created(detachARNs)'
      BY <3>1 DEF Created, Older
    <3>3. \A g \in detachARNs : g \in InstanceTargets' => g \in InstanceTargets
      BY <3>1 DEF Created, Older, InstanceTargets
    <3>4. QED
      BY <2>1, <3>1, <3>2, <3>3 DEF DetachInv
  <2>2. CASE pc # "detach"
    BY <2>2 DEF DetachInv, Older
  <2>3. QED
    BY <2>1, <2>2
<1>6. NoInstancesInIPGroups'
  BY DEF NoInstancesInIPGroups
<1>7. QED
  BY <1>2, <1>3, <1>4, <1>5, <1>6
-----------------------------------------------------------------------------
(* The controller.                                                          *)

\* Calls that only read, fail or come to an end, one phase of the cycle after
\* the other.
LEMMA ReadingKeeps ==
    ASSUME IInv,
           \/ FindManagedStacks \/ DescribeInstances \/ DescribeAutoScalingGroups
           \/ CycleFails \/ CycleDone \/ Restart
           \/ \E i \in Instances : InstanceOverlooked(i)
    PROVE  AttachInv'
PROOF
<1> USE DEF IInv, AttachInv, TargetTypeOK
<1>1. UNCHANGED <<stack, existing, attached, registered>>
  BY DEF FindManagedStacks, DescribeInstances, DescribeAutoScalingGroups, CycleFails,
         CycleDone, Restart, InstanceOverlooked, Remember, awsVars
<1>2. NoInstancesInIPGroups'
  BY <1>1 DEF NoInstancesInIPGroups
<1>3. CASE FindManagedStacks
  <2>1. /\ pc' = "instances" /\ stacks' = Listed /\ groups' = groups
        /\ \A g \in Groups : stack[g] = "live" => g \in stacks'
    BY <1>3 DEF FindManagedStacks, Listed
  <2>2. CreatedInv'
    BY <1>1, <2>1 DEF CreatedInv, Created, Listed
  <2>3. KindsInv' /\ ListInv' /\ DetachInv'
    BY <1>1, <2>1 DEF KindsInv, ListInv, DetachInv
  <2>4. QED
    BY <1>2, <2>2, <2>3
<1>4. CASE DescribeInstances \/ DescribeAutoScalingGroups
           \/ \E i \in Instances : InstanceOverlooked(i)
  <2>1. /\ UNCHANGED <<stacks, groups, left, attachARNs, detachARNs, current>>
        /\ pc # "idle" /\ pc' \in {"asgs", "categorize"}
    BY <1>4 DEF DescribeInstances, DescribeAutoScalingGroups, InstanceOverlooked, Remember,
                cycleVars
  <2>2. CreatedInv' /\ KindsInv' /\ ListInv' /\ DetachInv'
    BY <1>1, <2>1 DEF CreatedInv, Created, KindsInv, ListInv, DetachInv
  <2>3. QED
    BY <1>2, <2>2
<1>5. CASE CycleFails \/ CycleDone \/ Restart
  <2>1. stacks' = {} /\ groups' = {} /\ pc' = "idle"
    BY <1>5 DEF CycleFails, CycleDone, Restart, EndCycle
  <2>2. CreatedInv' /\ KindsInv' /\ ListInv' /\ DetachInv'
    BY <1>1, <2>1 DEF CreatedInv, Created, KindsInv, ListInv, DetachInv
  <2>3. QED
    BY <1>2, <2>2
<1>6. QED
  BY <1>3, <1>4, <1>5

LEMMA AttachingKeeps ==
    ASSUME IInv,
           \/ Categorize \/ DetachGroups \/ DetachFails
           \/ AttachGroups \/ AttachRefused \/ AttachFails
           \/ \E a \in ASGs : ReadGroups(a) \/ ReadGroupsFails(a)
    PROVE  AttachInv'
PROOF
<1> USE TargetGroupsAssumption DEF IInv, AttachInv, TargetTypeOK
<1>1. UNCHANGED <<stack, existing, registered, stacks>> /\ pc # "idle"
  BY DEF Categorize, DetachGroups, DetachFails, AttachGroups, AttachRefused, AttachFails,
         Attach, ReadGroups, ReadGroupsFails, awsVars, cycleVars
<1>2. CASE Categorize
  <2>1. attached' = attached /\ groups' = stacks \ (IPGroups \cap existing) /\ pc' = "asg"
    BY <1>2 DEF Categorize, InstanceGroups, awsVars
  <2>2. QED
    BY <1>1, <2>1
    DEF CreatedInv, Created, KindsInv, ListInv, DetachInv, NoInstancesInIPGroups
<1>3. ASSUME NEW a \in ASGs, ReadGroups(a)
      PROVE  AttachInv'
  <2>1. /\ UNCHANGED <<attached, groups, targeted>>
        /\ pc = "asg" /\ pc' = "detach" /\ current' = a
        /\ detachARNs' = ToDetach(a) /\ attachARNs' = existing \cap ARNsFor(a)
    BY <1>3 DEF ReadGroups, awsVars, memoryVars
  <2>2. CreatedInv' /\ ListInv' /\ NoInstancesInIPGroups'
    BY <1>1, <2>1 DEF CreatedInv, Created, ListInv, NoInstancesInIPGroups
  <2>3. KindsInv'
    BY <1>1, <2>1 DEF KindsInv, ARNsFor
  <2>4. detachARNs' \subseteq Groups /\ Created(detachARNs)'
    BY <1>1, <2>1 DEF CreatedInv, Created, ToDetach
  <2>5. a \in targeted => detachARNs' \cap InstanceTargets' = {}
    <3>1. ASSUME a \in targeted, NEW g \in detachARNs', g \in InstanceTargets'
          PROVE  FALSE
      <4>1. g \in attached[a] /\ g \in Groups /\ g \in existing /\ g \notin IPGroups
            /\ stack[g] = "live" /\ g \notin groups
        BY <1>1, <2>1, <2>4, <3>1 DEF InstanceTargets, ToDetach, ARNsFor
      <4>2. g \in stacks
        BY <1>1, <4>1 DEF ListInv
      <4>3. QED
        BY <2>1, <4>1, <4>2 DEF ListInv
    <3>2. QED
      BY <3>1
  <2>6. DetachInv'
    BY <2>1, <2>4, <2>5 DEF DetachInv
  <2>7. QED
    BY <2>2, <2>3, <2>6
<1>4. CASE DetachGroups
  <2>1. /\ UNCHANGED <<groups, attachARNs>> /\ pc = "detach" /\ pc' = "attach"
        /\ \A a \in ASGs : attached'[a] \subseteq attached[a]
    BY <1>4 DEF DetachGroups, cycleVars
  <2>2. QED
    BY <1>1, <2>1
    DEF CreatedInv, Created, KindsInv, ListInv, DetachInv, NoInstancesInIPGroups
<1>5. CASE AttachGroups \/ AttachRefused \/ AttachFails
  <2>1. /\ groups' = groups /\ pc = "attach" /\ pc' = "asg"
        /\ \A a \in ASGs : attached'[a] \subseteq attached[a] \cup attachARNs
    BY <1>5 DEF AttachGroups, AttachRefused, AttachFails, Attach, LeaveASG
  <2>2. attachARNs \subseteq groups \ IPGroups /\ groups \subseteq stacks
    BY <2>1 DEF KindsInv, ListInv
  <2>3. CreatedInv'
    BY <1>1, <2>1, <2>2 DEF CreatedInv, Created
  <2>4. KindsInv' /\ DetachInv' /\ NoInstancesInIPGroups'
    BY <1>1, <2>1, <2>2 DEF KindsInv, DetachInv, NoInstancesInIPGroups
  <2>5. ListInv'
    BY <1>1, <2>1, <2>2 DEF ListInv
  <2>6. QED
    BY <2>3, <2>4, <2>5
<1>6. CASE DetachFails \/ \E a \in ASGs : ReadGroupsFails(a)
  <2>1. /\ groups' = groups /\ pc \in {"asg", "detach"} /\ pc' = "asg"
        /\ \A a \in ASGs : attached'[a] \subseteq attached[a]
    BY <1>6 DEF DetachFails, ReadGroupsFails, LeaveASG, awsVars
  <2>2. QED
    BY <1>1, <2>1
    DEF CreatedInv, Created, KindsInv, ListInv, DetachInv, NoInstancesInIPGroups
<1>7. QED
  BY <1>2, <1>3, <1>4, <1>5, <1>6

LEMMA RegisteringKeeps ==
    ASSUME IInv,
           \/ ASGsDone \/ RegisterFails \/ RegisterDone
           \/ \E g \in Groups : RegisterTargets(g) \/ RegisterRefused(g) \/ DeregisterTargets(g)
    PROVE  AttachInv'
PROOF
<1> USE TargetGroupsAssumption DEF IInv, AttachInv, TargetTypeOK
<1>1. /\ UNCHANGED <<stack, existing, attached, stacks, groups>>
      /\ pc # "idle" /\ pc' \in {"register", "deregister"}
      /\ left' \subseteq left \/ left' = groups
  BY DEF ASGsDone, RegisterFails, RegisterDone, RegisterTargets, RegisterRefused,
         DeregisterTargets, Deregister, awsVars
<1>2. pc \in {"register", "deregister"} \/ left' = groups
  BY DEF ASGsDone, RegisterFails, RegisterDone, RegisterTargets, RegisterRefused,
         DeregisterTargets
<1>3. CreatedInv' /\ KindsInv' /\ ListInv' /\ DetachInv'
  BY <1>1, <1>2 DEF CreatedInv, Created, KindsInv, ListInv, DetachInv
<1>4. NoInstancesInIPGroups'
  <2>1. ASSUME NEW g \in Groups, RegisterTargets(g) \/ DeregisterTargets(g)
        PROVE  NoInstancesInIPGroups'
    <3>1. g \in left /\ g \in existing /\ pc \in {"register", "deregister"}
      BY <2>1 DEF RegisterTargets, DeregisterTargets, CanRegister
    <3>2. g \notin IPGroups
      BY <3>1 DEF KindsInv
    <3>3. \A h \in Groups \ {g} : registered'[h] = registered[h]
      BY <2>1 DEF RegisterTargets, DeregisterTargets
    <3>4. QED
      BY <1>1, <3>2, <3>3 DEF NoInstancesInIPGroups
  <2>2. CASE UNCHANGED registered
    BY <1>1, <2>2 DEF NoInstancesInIPGroups
  <2>3. QED
    BY <2>1, <2>2 DEF ASGsDone, RegisterFails, RegisterDone, RegisterRefused, awsVars
<1>5. QED
  BY <1>3, <1>4

LEMMA DeletingKeeps ==
    ASSUME IInv,
           \/ CategorizeFails \/ DeregisterFails \/ DeregisterDone
           \/ DeleteStack \/ DeleteStackFails
           \/ \E g \in Groups : DeregisterRefused(g) \/ StartDeletion(g)
           \/ \E a \in ASGs : DetachForDeletion(a)
    PROVE  AttachInv'
PROOF
<1> USE TargetGroupsAssumption DEF IInv, AttachInv, TargetTypeOK
<1>1. /\ UNCHANGED <<existing, registered, stacks, groups>>
      /\ pc # "idle" /\ pc' \in {"model", "delete"}
      /\ \A a \in ASGs : attached'[a] \subseteq attached[a]
  BY DEF CategorizeFails, DeregisterFails, DeregisterDone, DeleteStack, DeleteStackFails,
         DeregisterRefused, StartDeletion, DetachForDeletion, ToModel, awsVars
<1>2. \A g \in Groups : /\ stack'[g] = "none" <=> stack[g] = "none"
                        /\ stack'[g] = "live" => stack[g] = "live"
  <2>1. CASE DeleteStack
    <3>1. current \in Groups /\ stack[current] \notin {"none", "live"}
      BY <2>1 DEF DeleteStack, DetachInv
    <3>2. QED
      BY <2>1, <3>1 DEF DeleteStack
  <2>2. CASE UNCHANGED stack
    BY <2>2
  <2>3. QED
    BY <2>1, <2>2 DEF CategorizeFails, DeregisterFails, DeregisterDone, DeleteStackFails,
         DeregisterRefused, StartDeletion, DetachForDeletion, awsVars
<1>3. CreatedInv' /\ KindsInv' /\ ListInv' /\ NoInstancesInIPGroups'
  BY <1>1, <1>2 DEF CreatedInv, Created, KindsInv, ListInv, NoInstancesInIPGroups
<1>4. DetachInv'
  <2>1. CASE CategorizeFails \/ DeregisterFails \/ DeregisterDone
             \/ \E g \in Groups : DeregisterRefused(g)
    <3>1. pc' = "model" /\ left' = stacks \cap Unwanted /\ stack' = stack
      BY <2>1 DEF CategorizeFails, DeregisterFails, DeregisterDone, DeregisterRefused,
                  ToModel, awsVars
    <3>2. QED
      BY <3>1 DEF DetachInv, Unwanted
  <2>2. ASSUME NEW g \in Groups, StartDeletion(g)
        PROVE  DetachInv'
    BY <2>2 DEF StartDeletion, DetachInv, awsVars
  <2>3. CASE DeleteStack \/ DeleteStackFails \/ \E a \in ASGs : DetachForDeletion(a)
    <3>1. /\ pc = "delete" /\ left' = left /\ pc' \in {"model", "delete"}
          /\ pc' = "delete" => current' = current
      BY <2>3 DEF DeleteStack, DeleteStackFails, DetachForDeletion
    <3>2. QED
      BY <1>2, <3>1 DEF DetachInv
  <2>4. QED
    BY <2>1, <2>2, <2>3
<1>5. QED
  BY <1>3, <1>4

LEMMA IInvStep ==
    ASSUME IInv, [TargetNext]_targetVars
    PROVE  IInv'
PROOF
<1>1. TargetTypeOK'
  BY TargetTypeStep DEF IInv
<1>2. CASE UNCHANGED targetVars
  BY <1>2 DEF IInv, AttachInv, CreatedInv, Created, KindsInv, ListInv, DetachInv,
              InstanceTargets, NoInstancesInIPGroups, TargetTypeOK, targetVars, awsVars,
              memoryVars, cycleVars
<1>3. CASE TargetNext
  <2>1. AttachInv'
    BY <1>3, EnvironmentKeeps, ReadingKeeps, AttachingKeeps, RegisteringKeeps, DeletingKeeps
    DEF TargetNext, Failure, Cycle
  <2>2. QED
    BY <1>1, <2>1 DEF IInv
<1>4. QED
  BY <1>2, <1>3

LEMMA InductiveInvariant == TargetSpec => []IInv
PROOF
<1>1. TargetInit => IInv
  BY IInvInit
<1>2. IInv /\ [TargetNext]_targetVars => IInv'
  BY IInvStep
<1>3. QED
  BY <1>1, <1>2, PTL DEF TargetSpec

-----------------------------------------------------------------------------
(* The theorems.                                                            *)

\* However many stacks come and go while the controller asks AWS which of their
\* target groups exist and of which kind they are: instances are neither
\* attached to nor registered with one for addresses of pods.
THEOREM KindsKeptApart == TargetSpec => []NoInstancesInIPGroups
PROOF
<1>1. IInv => NoInstancesInIPGroups
  BY DEF IInv, AttachInv
<1>2. QED
  BY <1>1, InductiveInvariant, PTL

\* What a step may take away from an Auto Scaling group.
LostOnlyObsolete ==
    \A a \in ASGs : \A g \in attached[a] \ attached'[a] :
       /\ g \notin Foreign
       /\ g \notin InstanceTargets \/ a \notin targeted

LEMMA StepLosesOnlyObsolete ==
    ASSUME IInv, [TargetNext]_targetVars
    PROVE  LostOnlyObsolete
PROOF
<1> USE TargetGroupsAssumption DEF IInv, AttachInv, TargetTypeOK
<1>1. CASE DetachGroups \/ DetachFails
  <2>1. /\ pc = "detach" /\ current \in ASGs
        /\ \A a \in ASGs : attached[a] \ attached'[a] \subseteq IF a = current THEN detachARNs ELSE {}
    BY <1>1 DEF DetachGroups, DetachFails
  <2>2. detachARNs \subseteq Groups /\ (current \in targeted => detachARNs \cap InstanceTargets = {})
    BY <2>1 DEF DetachInv
  <2>3. QED
    BY <2>1, <2>2 DEF LostOnlyObsolete
<1>2. ASSUME NEW b \in ASGs, DetachForDeletion(b)
      PROVE  LostOnlyObsolete
  <2>1. /\ pc = "delete" /\ current \in Groups
        /\ \A a \in ASGs : attached[a] \ attached'[a] \subseteq {current}
    BY <1>2 DEF DetachForDeletion
  <2>2. stack[current] # "live"
    BY <2>1 DEF DetachInv
  <2>3. QED
    BY <2>1, <2>2 DEF LostOnlyObsolete, InstanceTargets
<1>3. CASE \A a \in ASGs : attached[a] \subseteq attached'[a]
  BY <1>3 DEF LostOnlyObsolete
<1>4. CASE AttachGroups \/ AttachRefused \/ AttachFails
  <2>1. \A a \in ASGs : attached[a] \subseteq attached'[a]
    BY <1>4 DEF AttachGroups, AttachRefused, AttachFails, Attach
  <2>2. QED
    BY <1>3, <2>1
<1>5. CASE Environment
  <2>1. attached' = attached
    BY <1>5, EnvironmentFacts
  <2>2. QED
    BY <1>3, <2>1
<1>6. CASE Failure
  <2>1. CASE attached' = attached
    BY <1>3, <2>1
  <2>2. QED
    BY <1>1, <1>4, <1>6, <2>1
    DEF Failure, InstanceOverlooked, Remember, ReadGroupsFails, CycleFails,
        CategorizeFails, RegisterFails, DeregisterFails, DeleteStackFails, Restart, awsVars
<1>7. CASE Cycle
  <2>1. CASE attached' = attached
    BY <1>3, <2>1
  <2>2. QED
    BY <1>1, <1>2, <1>4, <1>7, <2>1
    DEF Cycle, FindManagedStacks, DescribeInstances, Remember, DescribeAutoScalingGroups,
        Categorize, ReadGroups, ASGsDone, RegisterTargets, RegisterRefused,
        DeregisterTargets, DeregisterRefused, StartDeletion, RegisterDone, DeregisterDone,
        DeleteStack, CycleDone, awsVars
<1>8. CASE UNCHANGED targetVars
  BY <1>3, <1>8 DEF targetVars, awsVars
<1>9. QED
  BY <1>5, <1>6, <1>7, <1>8 DEF TargetNext

\* No call that fails, no restart and no change between two calls ever makes the
\* controller take a target group in use away from an Auto Scaling group it has
\* seen to be targeted, nor one of somebody else from any.
THEOREM OnlyObsoleteLost == TargetSpec => LosesOnlyObsolete
PROOF
<1>1. IInv /\ [TargetNext]_targetVars => [LostOnlyObsolete]_targetVars
  BY StepLosesOnlyObsolete
<1>2. QED
  BY <1>1, InductiveInvariant, PTL DEF TargetSpec, LosesOnlyObsolete, LostOnlyObsolete
=============================================================================
