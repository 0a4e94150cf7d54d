----------------------------- MODULE CNIProofs -----------------------------
(***************************************************************************)
(* Theorems about CNITargets, for all pods, target groups, capacities and  *)
(* numbers of failures: its types, and that running pods stay targets.     *)
(***************************************************************************)
EXTENDS CNITargets, TLAPS

-----------------------------------------------------------------------------
(* Sequences.                                                               *)

LEMMA AppendMembers ==
    ASSUME NEW S, NEW s \in Seq(S), NEW e \in S
    PROVE  /\ Append(s, e) \in Seq(S)
           /\ Len(Append(s, e)) = Len(s) + 1
           /\ \A i \in 1 .. Len(s) : Append(s, e)[i] = s[i]
           /\ Append(s, e)[Len(s) + 1] = e
           /\ \A i \in 1 .. Len(Append(s, e)) : i \in 1 .. Len(s) \/ i = Len(s) + 1
OBVIOUS

LEMMA TailMembers ==
    ASSUME NEW S, NEW s \in Seq(S), s # <<>>
    PROVE  /\ Head(s) = s[1] /\ Head(s) \in S
           /\ Tail(s) \in Seq(S)
           /\ Len(s) \in Nat \ {0} /\ Len(Tail(s)) = Len(s) - 1
           /\ \A i \in 1 .. Len(Tail(s)) : Tail(s)[i] = s[i + 1]
OBVIOUS

-----------------------------------------------------------------------------
(* Type correctness.                                                        *)

LEMMA CNITypeInit == CNIInit => CNITypeOK
PROOF
<1> SUFFICES ASSUME CNIInit PROVE CNITypeOK
  OBVIOUS
<1>1. phase \in [Pods -> Phases]
  BY DEF CNIInit, Phases
<1>2. stage \in [Groups -> {"absent", "present", "deleted"}]
  BY DEF CNIInit
<1>3. updates \in [Pods -> Seq(Phases)]
  BY DEF CNIInit, FreshController
<1>4. QED
  BY <1>1, <1>2, <1>3, CNIAssumption DEF CNIInit, FreshController, CNITypeOK, Phases

LEMMA TargetsArePods == CNITypeOK => Targets \subseteq Pods
BY DEF CNITypeOK, Targets

\* A pod changes its phase.
LEMMA BecomesType ==
    ASSUME CNITypeOK, NEW p \in Pods, NEW to \in Phases, Becomes(p, to),
           faults' \in 0 .. MaxFaults
    PROVE  CNITypeOK'
PROOF
<1>1. phase' \in [Pods -> Phases]
  BY DEF CNITypeOK, Becomes
<1>2. unready' \in SUBSET Pods
  BY DEF CNITypeOK, Becomes
<1>3. updates' \in [Pods -> Seq(Phases)]
  <2>1. Append(updates[p], to) \in Seq(Phases)
    BY DEF CNITypeOK
  <2>2. QED
    BY <2>1 DEF CNITypeOK, Becomes
<1>4. QED
  BY <1>1, <1>2, <1>3
  DEF CNITypeOK, Becomes, informerVars, groupVars, workerVars, handlerVars, setterVars

LEMMA FaultType ==
    ASSUME CNITypeOK, Fault
    PROVE  faults' \in 0 .. MaxFaults
BY CNIAssumption DEF CNITypeOK, Fault

LEMMA ClusterType ==
    ASSUME CNITypeOK, ClusterStep
    PROVE  CNITypeOK'
PROOF
<1>1. ASSUME NEW p \in Pods, NEW to \in Phases, Becomes(p, to), UNCHANGED faults
      PROVE  CNITypeOK'
  BY <1>1, BecomesType DEF CNITypeOK
<1>2. ASSUME NEW p \in Pods,
             PodCreated(p) \/ PodStarts(p) \/ PodTerminates(p) \/ PodRemoved(p)
      PROVE  CNITypeOK'
  BY <1>1, <1>2 DEF PodCreated, PodStarts, PodTerminates, PodRemoved, Phases
<1>3. ASSUME NEW g \in Groups, GroupCreated(g)
      PROVE  CNITypeOK'
  BY <1>3 DEF CNITypeOK, GroupCreated, podVars, informerVars, workerVars, handlerVars, setterVars
<1>4. ASSUME NEW g \in Groups, GroupDeleted(g)
      PROVE  CNITypeOK'
  BY <1>4 DEF CNITypeOK, GroupDeleted, podVars, informerVars, workerVars, handlerVars, setterVars
<1>5. QED
  BY <1>2, <1>3, <1>4 DEF ClusterStep

\* What a handler call for a pod leaves in the informer.
LEMMA UpdateFuncType ==
    ASSUME CNITypeOK, NEW p \in Pods, NEW seen, UpdateFunc(p, seen)
    PROVE  /\ known' \in SUBSET Pods
           /\ notified' \in SUBSET Pods
           /\ endpointCh' \in Seq(SUBSET Pods)
           /\ Len(endpointCh') <= Capacity
PROOF
<1>1. ASSUME NEW pods \in SUBSET Pods, queueEndpoints(pods)
      PROVE  endpointCh' \in Seq(SUBSET Pods) /\ Len(endpointCh') <= Capacity
  BY <1>1, CNIAssumption DEF CNITypeOK, queueEndpoints
<1>2. CASE Forget(p)
  BY <1>1, <1>2 DEF CNITypeOK, Forget, UpdateFunc
<1>3. CASE Remember(p)
  BY <1>1, <1>3 DEF CNITypeOK, Remember, UpdateFunc
<1>4. CASE UNCHANGED <<known, endpointCh>>
  BY <1>4 DEF CNITypeOK, UpdateFunc
<1>5. QED
  BY <1>2, <1>3, <1>4 DEF UpdateFunc

LEMMA InformerType ==
    ASSUME CNITypeOK, InformerStep
    PROVE  CNITypeOK'
PROOF
<1> USE DEF podVars, groupVars, workerVars, handlerVars, setterVars
<1>1. CASE WaitForCacheSync
  BY <1>1 DEF CNITypeOK, WaitForCacheSync
<1>2. CASE ListPods
  <2>1. known' \in SUBSET Pods
    BY <1>2 DEF ListPods
  <2>2. endpointCh' \in Seq(SUBSET Pods) /\ Len(endpointCh') <= Capacity
    BY <1>2, <2>1, CNIAssumption DEF CNITypeOK, ListPods, queueEndpoints
  <2>3. QED
    BY <1>2, <2>1, <2>2 DEF CNITypeOK, ListPods
<1>3. CASE AddEventHandler
  BY <1>3 DEF CNITypeOK, AddEventHandler
<1>4. ASSUME NEW p \in Pods, Deliver(p)
      PROVE  CNITypeOK'
  <2>1. Head(updates[p]) \in Phases /\ Tail(updates[p]) \in Seq(Phases)
    BY <1>4 DEF CNITypeOK, Deliver
  <2>2. /\ updates' \in [Pods -> Seq(Phases)]
        /\ cache' \in [Pods -> Phases]
    BY <1>4, <2>1 DEF CNITypeOK, Deliver
  <2>3. /\ known' \in SUBSET Pods
        /\ notified' \in SUBSET Pods
        /\ endpointCh' \in Seq(SUBSET Pods)
        /\ Len(endpointCh') <= Capacity
    BY <1>4, UpdateFuncType DEF CNITypeOK, Deliver
  <2>4. QED
    BY <1>4, <2>2, <2>3 DEF CNITypeOK, Deliver
<1>5. ASSUME NEW p \in Pods, Resync(p)
      PROVE  CNITypeOK'
  <2>1. /\ known' \in SUBSET Pods
        /\ notified' \in SUBSET Pods
        /\ endpointCh' \in Seq(SUBSET Pods)
        /\ Len(endpointCh') <= Capacity
    BY <1>5, UpdateFuncType DEF Resync
  <2>2. QED
    BY <1>5, <2>1 DEF CNITypeOK, Resync
<1>6. QED
  BY <1>1, <1>2, <1>3, <1>4, <1>5 DEF InformerStep

LEMMA PollLoopType ==
    ASSUME CNITypeOK, PollLoop
    PROVE  CNITypeOK'
PROOF
<1> USE DEF podVars, informerVars, groupVars, handlerVars, setterVars
<1>1. CASE categorizeTargetTypeInstance
  BY <1>1 DEF CNITypeOK, categorizeTargetTypeInstance, Present
<1>2. CASE SendTargetGroups
  <2>1. /\ TargetGroupCh' \in Seq({None} \cup SUBSET Groups)
        /\ Len(TargetGroupCh') <= Capacity
    BY <1>2, CNIAssumption DEF CNITypeOK, SendTargetGroups
  <2>2. QED
    BY <1>2, <2>1 DEF CNITypeOK, SendTargetGroups
<1>3. QED
  BY <1>1, <1>2 DEF PollLoop

\* The setter is called with both lists, and looks at a target group between
\* its calls.
HandlerInv ==
    /\ handler \in {"limit", "set", "register", "deregister"} => Complete
    /\ handler \in {"register", "deregister"} => current \in Groups

LEMMA HandlerType ==
    ASSUME CNITypeOK, HandlerInv, cniEventHandler
    PROVE  CNITypeOK'
PROOF
<1> USE DEF podVars, informerVars, groupVars, workerVars, setterVars
<1>1. CASE ReceiveTargetGroups
  <2>1. /\ Head(TargetGroupCh) \in {None} \cup SUBSET Groups
        /\ Tail(TargetGroupCh) \in Seq({None} \cup SUBSET Groups)
        /\ Len(Tail(TargetGroupCh)) <= Capacity
    BY <1>1, CNIAssumption DEF CNITypeOK, ReceiveTargetGroups
  <2>2. QED
    BY <1>1, <2>1 DEF CNITypeOK, ReceiveTargetGroups
<1>2. CASE ReceiveEndpoints
  <2>1. /\ Head(endpointCh) \in SUBSET Pods
        /\ Tail(endpointCh) \in Seq(SUBSET Pods)
        /\ Len(Tail(endpointCh)) <= Capacity
    BY <1>2, CNIAssumption DEF CNITypeOK, ReceiveEndpoints
  <2>2. QED
    BY <1>2, <2>1 DEF CNITypeOK, ReceiveEndpoints
<1>3. CASE CheckMessages
  BY <1>3 DEF CNITypeOK, CheckMessages
<1>4. CASE WaitForRateLimiter
  BY <1>4 DEF CNITypeOK, WaitForRateLimiter, HandlerInv, Complete
<1>5. ASSUME NEW g \in Groups, DescribeTargetHealth(g)
      PROVE  CNITypeOK'
  BY <1>5 DEF CNITypeOK, DescribeTargetHealth
<1>6. CASE RegisterTargets
  BY <1>6 DEF CNITypeOK, RegisterTargets, Return, difference, Members
<1>7. CASE DeregisterTargets
  <2>1. /\ registered' \in [Groups -> SUBSET Pods]
        /\ draining' \in [Groups -> SUBSET Pods]
    <3> DEFINE gone == difference(health, endpoints)
    <3>1. current \in Groups
      BY <1>7 DEF DeregisterTargets, HandlerInv
    <3>2. /\ registered[current] \ gone \in SUBSET Pods
          /\ draining[current] \cup (registered[current] \cap gone) \in SUBSET Pods
      BY <3>1 DEF CNITypeOK
    <3>3. CASE UNCHANGED <<registered, draining>>
      BY <3>3 DEF CNITypeOK
    <3>4. CASE /\ registered' = [registered EXCEPT ![current] = @ \ gone]
               /\ draining' = [draining EXCEPT ![current] = @ \cup (registered[current] \cap gone)]
      BY <3>1, <3>2, <3>4 DEF CNITypeOK
    <3>5. QED
      BY <1>7, <3>3, <3>4 DEF DeregisterTargets
  <2>2. /\ handler' \in {"select", "set"}
        /\ todo' \in SUBSET Groups
        /\ current' = None
        /\ health' = {}
    BY <1>7 DEF CNITypeOK, DeregisterTargets, Return
  <2>3. QED
    BY <1>7, <2>1, <2>2 DEF CNITypeOK, DeregisterTargets
<1>8. CASE SetterReturns
  BY <1>8 DEF CNITypeOK, SetterReturns, Return
<1>9. QED
  BY <1>1, <1>2, <1>3, <1>4, <1>5, <1>6, <1>7, <1>8 DEF cniEventHandler

LEMMA FailureType ==
    ASSUME CNITypeOK, CNIFailure
    PROVE  CNITypeOK'
PROOF
<1>1. ASSUME NEW p \in Pods, ContainerFails(p) \/ ForcedDeletion(p)
      PROVE  CNITypeOK'
  BY <1>1, BecomesType, FaultType DEF ContainerFails, ForcedDeletion, Phases
<1>2. ASSUME NEW g \in Groups, DescribeFails(g)
      PROVE  CNITypeOK'
  BY <1>2, FaultType
  DEF CNITypeOK, DescribeFails, podVars, informerVars, groupVars, workerVars
<1>3. CASE WatchBreaks
  <2>1. updates' \in [Pods -> Seq(Phases)]
    <3>1. \A p \in Pods : <<>> \in Seq(Phases) /\ <<phase[p]>> \in Seq(Phases)
      BY DEF CNITypeOK
    <3>2. QED
      BY <1>3, <3>1 DEF WatchBreaks
  <2>2. QED
    BY <1>3, <2>1, FaultType
    DEF CNITypeOK, WatchBreaks, informerVars, groupVars, workerVars, handlerVars, setterVars
<1>4. CASE SetterFails
  BY <1>4, FaultType
  DEF CNITypeOK, SetterFails, Return, podVars, informerVars, groupVars, workerVars
<1>5. CASE ControllerRestarts
  <2>1. /\ updates' \in [Pods -> Seq(Phases)]
        /\ cache' \in [Pods -> Phases]
        /\ TargetGroupCh' \in Seq({None} \cup SUBSET Groups)
        /\ endpointCh' \in Seq(SUBSET Pods)
        /\ Len(TargetGroupCh') <= Capacity
        /\ Len(endpointCh') <= Capacity
    BY <1>5, CNIAssumption DEF ControllerRestarts, Phases
  <2>2. unready' \in SUBSET Pods
    BY <1>5, TargetsArePods DEF ControllerRestarts
  <2>3. QED
    BY <1>5, <2>1, <2>2, FaultType DEF CNITypeOK, ControllerRestarts, groupVars
<1>6. QED
  BY <1>1, <1>2, <1>3, <1>4, <1>5 DEF CNIFailure

LEMMA CNITypeStep ==
    ASSUME CNITypeOK, HandlerInv, [CNINext]_cniVars
    PROVE  CNITypeOK'
PROOF
<1>1. ASSUME NEW g \in Groups, Drained(g)
      PROVE  CNITypeOK'
  BY <1>1 DEF CNITypeOK, Drained, podVars, informerVars, workerVars, handlerVars, setterVars
<1>2. CASE UNCHANGED cniVars
  BY <1>2 DEF CNITypeOK, cniVars, podVars, informerVars, groupVars, workerVars, handlerVars,
              setterVars
<1>3. QED
  BY <1>1, <1>2, InformerType, PollLoopType, HandlerType, ClusterType, FailureType DEF CNINext

\* Only the handler moves the handler, and a restart.
LEMMA HandlerStep ==
    ASSUME CNITypeOK, HandlerInv, [CNINext]_cniVars
    PROVE  HandlerInv'
PROOF
<1> USE DEF HandlerInv, Complete
<1>1. CASE UNCHANGED handlerVars
  BY <1>1 DEF handlerVars, setterVars
<1>2. CASE cniEventHandler
  <2>1. CASE ReceiveTargetGroups \/ ReceiveEndpoints \/ CheckMessages
    BY <2>1 DEF ReceiveTargetGroups, ReceiveEndpoints, CheckMessages, setterVars
  <2>2. CASE WaitForRateLimiter \/ SetterReturns
    BY <2>2 DEF WaitForRateLimiter, SetterReturns, Return
  <2>3. ASSUME NEW g \in Groups, DescribeTargetHealth(g)
        PROVE  HandlerInv'
    BY <2>3 DEF DescribeTargetHealth
  <2>4. CASE RegisterTargets \/ DeregisterTargets
    BY <2>4 DEF RegisterTargets, DeregisterTargets, Return, setterVars
  <2>5. QED
    BY <1>2, <2>1, <2>2, <2>3, <2>4 DEF cniEventHandler
<1>3. CASE CNIFailure
  BY <1>1, <1>3
  DEF CNIFailure, ContainerFails, ForcedDeletion, Becomes, DescribeFails, WatchBreaks,
      SetterFails, Return, ControllerRestarts
<1>4. CASE InformerStep \/ PollLoop
  BY <1>1, <1>4
  DEF InformerStep, WaitForCacheSync, ListPods, AddEventHandler, Deliver, Resync,
      PollLoop, categorizeTargetTypeInstance, SendTargetGroups
<1>5. CASE ClusterStep \/ \E g \in Groups : Drained(g)
  BY <1>1, <1>5
  DEF ClusterStep, PodCreated, PodStarts, PodTerminates, PodRemoved, Becomes,
      GroupCreated, GroupDeleted, Drained
<1>6. QED
  BY <1>1, <1>2, <1>3, <1>4, <1>5 DEF CNINext, cniVars

TypeInv == CNITypeOK /\ HandlerInv

LEMMA TypeInvCorrect == CNISpec => []TypeInv
PROOF
<1>1. CNIInit => TypeInv
  BY CNITypeInit DEF TypeInv, HandlerInv, CNIInit, FreshController
<1>2. TypeInv /\ [CNINext]_cniVars => TypeInv'
  BY CNITypeStep, HandlerStep DEF TypeInv
<1>3. QED
  BY <1>1, <1>2, PTL DEF CNISpec

\* The three processes and their channels are always well typed: neither
\* channel holds more than its capacity, and the setter is never called with a
\* list that was not received.
THEOREM CNITypeCorrect == CNISpec => []CNITypeOK
PROOF
<1>1. TypeInv => CNITypeOK
  BY DEF TypeInv
<1>2. QED
  BY <1>1, TypeInvCorrect, PTL

-----------------------------------------------------------------------------
(* Why running pods stay targets.  A pod that has not ended is taken from   *)
(* no list: each list under way has all such pods of the lists before it,   *)
(* and known has those of all lists.                                        *)

Ends == {"terminating", "gone"}

Lasting(p) == phase[p] \notin Ends

\* The informer has seen no pod end that has not ended.
PhaseInv ==
    \A p \in Pods : Lasting(p) =>
        /\ cache[p] \notin Ends
        /\ \A i \in 1 .. Len(updates[p]) : updates[p][i] \notin Ends

Follows(p) == p \in known /\ \A i \in 1 .. Len(endpointCh) : p \in endpointCh[i]

ListsInv ==
    \A p \in Pods : Lasting(p) =>
        /\ endpoints # None /\ p \in endpoints => Follows(p)
        /\ \A i \in 1 .. Len(endpointCh) : p \in endpointCh[i] =>
              p \in known /\ \A j \in i .. Len(endpointCh) : p \in endpointCh[j]

\* A controller that has not listed the pods has sent nothing.
StartInv ==
    /\ Starting => endpoints = None /\ endpointCh = <<>>
    /\ informer = "syncing" => \A p \in Pods : updates[p] = <<>>

\* What becomes of a target that is ready while the controller starts.
WillBeListed(p) ==
    /\ phase[p] = "running"
    /\ informer = "listing" =>
         cache[p] = "running" /\ \A i \in 1 .. Len(updates[p]) : updates[p][i] = "running"

IsListed(p) == Follows(p) /\ (endpoints # None => p \in endpoints)

TargetInv ==
    \A p \in Targets \ unready : Lasting(p) =>
        IF Starting THEN WillBeListed(p) ELSE IsListed(p)

ServedInv == PhaseInv /\ ListsInv /\ StartInv /\ TargetInv

IInv == TypeInv /\ ServedInv

LEMMA IInvInit == CNIInit => IInv
PROOF
<1> SUFFICES ASSUME CNIInit PROVE IInv
  OBVIOUS
<1>1. TypeInv
  BY CNITypeInit DEF TypeInv, HandlerInv, CNIInit, FreshController
<1>2. Targets = {}
  BY DEF CNIInit, Targets
<1>3. QED
  BY <1>1, <1>2
  DEF IInv, ServedInv, PhaseInv, ListsInv, StartInv, TargetInv, CNIInit, FreshController, Ends,
      Follows

-----------------------------------------------------------------------------
(* Steps of the cluster.                                                    *)

\* A pod that has ended remains so, and its end is the last that is reported.
LEMMA BecomesKeeps ==
    ASSUME IInv, NEW p \in Pods, NEW to \in Phases, Becomes(p, to),
           Lasting(p) \/ to \in Ends,
           to = "pending" \/ to \in Ends \/ (phase[p] = "pending" /\ to = "running")
    PROVE  ServedInv'
PROOF
<1> USE DEF IInv, TypeInv, CNITypeOK, ServedInv
<1>1. /\ phase' = [phase EXCEPT ![p] = to]
      /\ UNCHANGED <<cache, informer, known, endpointCh, registered, endpoints>>
  BY DEF Becomes, informerVars, groupVars, handlerVars
<1>2. \A q \in Pods : Lasting(q)' => Lasting(q)
  BY <1>1 DEF Lasting
<1>3. \A q \in Pods : q # p => phase'[q] = phase[q] /\ updates'[q] = updates[q]
  BY DEF Becomes
<1>4. \/ informer = "syncing" /\ updates' = updates
      \/ informer # "syncing" /\ updates'[p] = Append(updates[p], to)
  BY DEF Becomes
<1>5. PhaseInv'
  <2>1. ASSUME NEW q \in Pods, Lasting(q)'
        PROVE  \A i \in 1 .. Len(updates'[q]) : updates'[q][i] \notin Ends
    <3>1. CASE q # p
      BY <1>2, <1>3, <2>1, <3>1 DEF PhaseInv
    <3>2. CASE q = p
      <4>1. to \notin Ends
        BY <1>1, <2>1, <3>2 DEF Lasting
      <4>2. \A i \in 1 .. Len(updates[p]) : updates[p][i] \notin Ends
        BY <1>2, <2>1, <3>2 DEF PhaseInv
      <4>3. \A i \in 1 .. Len(Append(updates[p], to)) : Append(updates[p], to)[i] \notin Ends
        BY <4>1, <4>2, AppendMembers
      <4>4. QED
        BY <1>4, <3>2, <4>2, <4>3
    <3>3. QED
      BY <3>1, <3>2
  <2>2. QED
    BY <1>1, <1>2, <2>1 DEF PhaseInv
<1>6. ListsInv'
  BY <1>1, <1>2 DEF ListsInv, Follows
<1>7. StartInv'
  BY <1>1, <1>4 DEF StartInv, Starting
<1>8. TargetInv'
  <2>1. Targets' = Targets /\ Starting' = Starting /\ unready \subseteq unready'
    BY <1>1 DEF Targets, Starting, Becomes
  <2>2. SUFFICES ASSUME NEW q \in Targets \ unready', Lasting(q)'
                 PROVE  IF Starting THEN WillBeListed(q)' ELSE IsListed(q)'
    BY <2>1 DEF TargetInv
  <2>3. q \in Pods /\ q \in Targets \ unready /\ Lasting(q)
    BY <1>2, <2>1, <2>2, TargetsArePods
  <2>4. CASE Starting
    <3>1. WillBeListed(q)
      BY <2>3, <2>4 DEF TargetInv
    <3>2. ASSUME q = p PROVE FALSE
      <4>1. phase'[p] = to /\ to \notin Ends
        BY <1>1, <2>2, <3>2 DEF Lasting
      <4>2. to # "pending"
        BY <2>2, <2>3, <2>4, <3>2 DEF Becomes
      <4>3. phase[p] = "running"
        BY <3>1, <3>2 DEF WillBeListed
      <4>4. QED
        BY <4>1, <4>2, <4>3
    <3>3. QED
      BY <1>1, <1>3, <2>3, <2>4, <3>1, <3>2 DEF WillBeListed
  <2>5. CASE ~Starting
    BY <1>1, <2>3, <2>5 DEF TargetInv, IsListed, Follows
  <2>6. QED
    BY <2>4, <2>5
<1>9. QED
  BY <1>5, <1>6, <1>7, <1>8

LEMMA PodsKeep ==
    ASSUME IInv, NEW p \in Pods,
           \/ PodCreated(p) \/ PodStarts(p) \/ PodTerminates(p) \/ PodRemoved(p)
           \/ ContainerFails(p) \/ ForcedDeletion(p)
    PROVE  ServedInv'
PROOF
<1> USE DEF Phases, Lasting, Ends
<1>1. CASE PodCreated(p) \/ ContainerFails(p)
  BY <1>1, BecomesKeeps DEF PodCreated, ContainerFails
<1>2. CASE PodStarts(p)
  BY <1>2, BecomesKeeps DEF PodStarts
<1>3. CASE PodTerminates(p) \/ PodRemoved(p) \/ ForcedDeletion(p)
  BY <1>3, BecomesKeeps DEF PodTerminates, PodRemoved, ForcedDeletion
<1>4. QED
  BY <1>1, <1>2, <1>3

\* Nothing but the targets changes, and there are no new ones.
LEMMA FewerTargetsKeep ==
    ASSUME IInv, UNCHANGED <<podVars, informerVars, endpoints>>, Targets' \subseteq Targets
    PROVE  ServedInv'
BY DEF IInv, ServedInv, PhaseInv, ListsInv, StartInv, TargetInv, Lasting, Follows, Starting,
       WillBeListed, IsListed, podVars, informerVars

LEMMA GroupsKeep ==
    ASSUME IInv, NEW g \in Groups, GroupCreated(g) \/ GroupDeleted(g) \/ Drained(g)
    PROVE  ServedInv'
PROOF
<1>1. \A h \in Groups : registered'[h] \subseteq registered[h]
  <2>1. CASE GroupCreated(g) \/ Drained(g)
    BY <2>1 DEF GroupCreated, Drained
  <2>2. CASE GroupDeleted(g)
    <3>1. registered \in [Groups -> SUBSET Pods]
      BY DEF IInv, TypeInv, CNITypeOK
    <3>2. QED
      BY <2>2, <3>1 DEF GroupDeleted
  <2>3. QED
    BY <2>1, <2>2
<1>2. Targets' \subseteq Targets
  BY <1>1 DEF Targets
<1>3. QED
  BY <1>2, FewerTargetsKeep DEF GroupCreated, GroupDeleted, Drained, handlerVars

-----------------------------------------------------------------------------
(* Steps of the informer.                                                   *)

LEMMA SyncKeeps ==
    ASSUME IInv, WaitForCacheSync
    PROVE  ServedInv'
PROOF
<1> USE DEF IInv, TypeInv, ServedInv, WaitForCacheSync, podVars, groupVars, handlerVars
<1>1. PhaseInv'
  BY DEF PhaseInv, StartInv, Lasting, CNITypeOK
<1>2. ListsInv' /\ StartInv'
  BY DEF ListsInv, StartInv, Starting, Follows, Lasting
<1>3. Targets' = Targets /\ Targets \subseteq Pods
  BY TargetsArePods DEF Targets
<1>4. TargetInv'
  BY <1>3 DEF TargetInv, StartInv, Starting, Lasting, WillBeListed
<1>5. QED
  BY <1>1, <1>2, <1>4

\* The first list has all targets that are ready.
LEMMA ListKeeps ==
    ASSUME IInv, ListPods
    PROVE  ServedInv'
PROOF
<1> USE DEF IInv, TypeInv, ServedInv, ListPods, podVars, groupVars, handlerVars
<1>1. endpointCh' = <<known'>> /\ endpoints' = None
  BY DEF StartInv, Starting, queueEndpoints
<1>2. PhaseInv'
  BY DEF PhaseInv, Lasting
<1>3. ListsInv'
  BY <1>1 DEF ListsInv
<1>4. StartInv'
  BY DEF StartInv, Starting
<1>5. Targets' = Targets /\ Targets \subseteq Pods
  BY TargetsArePods DEF Targets
<1>6. \A p \in Targets \ unready : Lasting(p) => p \in known'
  BY <1>5 DEF TargetInv, Starting, WillBeListed
<1>7. TargetInv'
  BY <1>1, <1>5, <1>6 DEF TargetInv, Starting, Lasting, IsListed, Follows
<1>8. QED
  BY <1>2, <1>3, <1>4, <1>7

\* A call of the handler for a pod that has been seen to end or to run: what is
\* known loses no lasting pod, and goes to the end of the channel.
LEMMA UpdateFuncKeeps ==
    ASSUME IInv, NEW p \in Pods, NEW seen \in Phases, UpdateFunc(p, seen),
           seen \in Ends => ~Lasting(p),
           informer = "watching",
           UNCHANGED <<phase, unready, informer, groupVars, handlerVars>>
    PROVE  \/ ListsInv' /\ StartInv' /\ TargetInv'
           \/ UNCHANGED <<known, endpointCh>>
PROOF
<1> USE DEF IInv, TypeInv, ServedInv
<1>1. SUFFICES ASSUME ~UNCHANGED <<known, endpointCh>>
               PROVE  ListsInv' /\ StartInv' /\ TargetInv'
  OBVIOUS
<1>2. (Forget(p) /\ seen = "terminating") \/ Remember(p)
  BY <1>1 DEF UpdateFunc
<1>3. known' \in SUBSET Pods /\ endpointCh' = Append(endpointCh, known')
  BY <1>2 DEF Forget, Remember, queueEndpoints, CNITypeOK
<1>4. \A q \in Pods : Lasting(q) /\ q \in known => q \in known'
  BY <1>2 DEF Forget, Remember, Ends
<1>5. /\ endpointCh \in Seq(SUBSET Pods)
      /\ Len(endpointCh') = Len(endpointCh) + 1
      /\ \A i \in 1 .. Len(endpointCh) : endpointCh'[i] = endpointCh[i]
      /\ endpointCh'[Len(endpointCh) + 1] = known'
      /\ \A i \in 1 .. Len(endpointCh') : i \in 1 .. Len(endpointCh) \/ i = Len(endpointCh) + 1
  BY <1>3, AppendMembers DEF CNITypeOK
<1>6. \A q \in Pods : Lasting(q) /\ Follows(q) => Follows(q)'
  BY <1>4, <1>5 DEF Follows
<1>7. ListsInv'
  <2>1. ASSUME NEW q \in Pods, Lasting(q), endpoints # None, q \in endpoints
        PROVE  Follows(q)'
    BY <1>6, <2>1 DEF ListsInv
  <2>2. ASSUME NEW q \in Pods, Lasting(q), NEW i \in 1 .. Len(endpointCh'), q \in endpointCh'[i]
        PROVE  q \in known' /\ \A j \in i .. Len(endpointCh') : q \in endpointCh'[j]
    <3>1. CASE i \in 1 .. Len(endpointCh)
      <4>1. q \in known /\ \A j \in i .. Len(endpointCh) : q \in endpointCh[j]
        BY <1>5, <2>2, <3>1 DEF ListsInv
      <4>2. q \in known'
        BY <1>4, <2>2, <4>1
      <4>3. ASSUME NEW j \in i .. Len(endpointCh')
            PROVE  q \in endpointCh'[j]
        <5>1. j \in i .. Len(endpointCh) \/ j = Len(endpointCh) + 1
          BY <1>5, <3>1, <4>3
        <5>2. QED
          BY <1>5, <3>1, <4>1, <4>2, <5>1
      <4>4. QED
        BY <4>2, <4>3
    <3>2. CASE i = Len(endpointCh) + 1
      BY <1>5, <2>2, <3>2
    <3>3. QED
      BY <1>5, <3>1, <3>2
  <2>3. QED
    BY <2>1, <2>2 DEF ListsInv, Lasting, handlerVars
<1>8. StartInv'
  BY DEF StartInv, Starting
<1>9. TargetInv'
  <2>1. Targets' = Targets /\ Targets \subseteq Pods
    BY TargetsArePods DEF Targets, groupVars
  <2>2. QED
    BY <1>6, <2>1 DEF TargetInv, Starting, Lasting, IsListed, handlerVars
<1>10. QED
  BY <1>7, <1>8, <1>9

LEMMA DeliverKeeps ==
    ASSUME IInv, NEW p \in Pods, Deliver(p)
    PROVE  ServedInv'
PROOF
<1> USE DEF IInv, TypeInv, ServedInv
<1>1. updates[p] \in Seq(Phases) /\ updates[p] # <<>>
  BY DEF CNITypeOK, Deliver
<1>2. /\ cache' = [cache EXCEPT ![p] = Head(updates[p])]
      /\ updates' = [updates EXCEPT ![p] = Tail(@)]
      /\ UNCHANGED <<phase, unready, informer, groupVars, handlerVars>>
  BY DEF Deliver
<1>3. /\ cache'[p] = updates[p][1] /\ cache'[p] \in Phases /\ 1 \in 1 .. Len(updates[p])
      /\ updates'[p] = Tail(updates[p])
      /\ \A i \in 1 .. Len(updates'[p]) :
           i + 1 \in 1 .. Len(updates[p]) /\ updates'[p][i] = updates[p][i + 1]
  BY <1>1, <1>2, TailMembers DEF CNITypeOK
<1>4. \A q \in Pods : q # p => cache'[q] = cache[q] /\ updates'[q] = updates[q]
  BY <1>2 DEF CNITypeOK
<1>5. PhaseInv'
  BY <1>2, <1>3, <1>4 DEF PhaseInv, Lasting
<1>6. ASSUME UNCHANGED <<known, endpointCh>>
      PROVE  ListsInv' /\ StartInv' /\ TargetInv'
  <2>1. ListsInv'
    BY <1>2, <1>6 DEF ListsInv, Lasting, Follows, handlerVars
  <2>2. StartInv'
    BY <1>2, <1>6 DEF StartInv, Starting, Deliver, handlerVars
  <2>3. Targets' = Targets /\ Targets \subseteq Pods
    BY <1>2, TargetsArePods DEF Targets, groupVars
  <2>4. \A q \in Pods : Starting /\ WillBeListed(q) => WillBeListed(q)'
    BY <1>2, <1>3, <1>4 DEF WillBeListed, Starting, Deliver
  <2>5. TargetInv'
    BY <1>2, <1>6, <2>3, <2>4
    DEF TargetInv, Starting, Lasting, IsListed, Follows, handlerVars
  <2>6. QED
    BY <2>1, <2>2, <2>5
<1>7. CASE informer = "watching" /\ UpdateFunc(p, cache'[p])
  <2>1. cache'[p] \in Ends => ~Lasting(p)
    BY <1>3 DEF PhaseInv
  <2>2. QED
    BY <1>2, <1>3, <1>5, <1>6, <1>7, <2>1, UpdateFuncKeeps
<1>8. QED
  BY <1>2, <1>5, <1>6, <1>7 DEF Deliver, CNITypeOK

LEMMA ResyncKeeps ==
    ASSUME IInv, NEW p \in Pods, Resync(p)
    PROVE  ServedInv'
PROOF
<1> USE DEF IInv, TypeInv, ServedInv
<1>1. UNCHANGED <<phase, unready, updates, cache, informer, groupVars, handlerVars>>
  BY DEF Resync, podVars
<1>2. PhaseInv'
  BY <1>1 DEF PhaseInv, Lasting
<1>3. cache[p] \in Phases /\ (cache[p] \in Ends => ~Lasting(p))
  BY DEF CNITypeOK, PhaseInv
<1>4. ASSUME UNCHANGED <<known, endpointCh>>
      PROVE  ServedInv'
  <2>1. Targets' = Targets
    BY <1>1 DEF Targets, groupVars
  <2>2. QED
    BY <1>1, <1>2, <1>4, <2>1
    DEF ListsInv, StartInv, TargetInv, Lasting, Follows, Starting, WillBeListed, IsListed,
        handlerVars
<1>5. QED
  BY <1>1, <1>2, <1>3, <1>4, UpdateFuncKeeps DEF Resync

LEMMA InformerKeeps ==
    ASSUME IInv, InformerStep
    PROVE  ServedInv'
PROOF
<1>1. CASE AddEventHandler
  <2>1. Targets' = Targets /\ ~Starting /\ ~Starting'
    BY <1>1 DEF AddEventHandler, Targets, groupVars, Starting
  <2>2. QED
    BY <1>1, <2>1
    DEF IInv, ServedInv, AddEventHandler, PhaseInv, ListsInv, StartInv, TargetInv, Lasting,
        Follows, IsListed, podVars, groupVars, handlerVars
<1>2. QED
  BY <1>1, SyncKeeps, ListKeeps, DeliverKeeps, ResyncKeeps DEF InformerStep

-----------------------------------------------------------------------------
(* Steps of the poll loop and the handler.                                  *)

LEMMA PollLoopKeeps ==
    ASSUME IInv, PollLoop
    PROVE  ServedInv'
PROOF
<1>1. UNCHANGED <<podVars, informerVars, groupVars, endpoints>>
  BY DEF PollLoop, categorizeTargetTypeInstance, SendTargetGroups, handlerVars
<1>2. QED
  BY <1>1, FewerTargetsKeep DEF groupVars, Targets

LEMMA ReceiveEndpointsKeeps ==
    ASSUME IInv, ReceiveEndpoints
    PROVE  ServedInv'
PROOF
<1> USE DEF IInv, TypeInv, ServedInv
<1>1. /\ UNCHANGED <<podVars, cache, informer, known, notified, groupVars>>
      /\ endpointCh \in Seq(SUBSET Pods) /\ endpointCh # <<>>
      /\ endpoints' = Head(endpointCh) /\ endpointCh' = Tail(endpointCh)
  BY DEF CNITypeOK, ReceiveEndpoints
<1>2. /\ endpoints' = endpointCh[1] /\ 1 \in 1 .. Len(endpointCh)
      /\ Len(endpointCh) \in Nat /\ Len(endpointCh') = Len(endpointCh) - 1
      /\ \A i \in 1 .. Len(endpointCh') :
           i + 1 \in 1 .. Len(endpointCh) /\ endpointCh'[i] = endpointCh[i + 1]
  BY <1>1, TailMembers
<1>3. PhaseInv'
  BY <1>1 DEF PhaseInv, Lasting, podVars
<1>4. \A q \in Pods : Follows(q) => Follows(q)' /\ q \in endpoints'
  BY <1>1, <1>2 DEF Follows
<1>5. ListsInv'
  <2>1. ASSUME NEW q \in Pods, Lasting(q), q \in endpoints'
        PROVE  Follows(q)'
    <3>1. Follows(q)
      BY <1>2, <2>1 DEF ListsInv, Follows
    <3>2. QED
      BY <1>4, <3>1
  <2>2. ASSUME NEW q \in Pods, Lasting(q), NEW i \in 1 .. Len(endpointCh'), q \in endpointCh'[i]
        PROVE  q \in known /\ \A j \in i .. Len(endpointCh') : q \in endpointCh'[j]
    <3>1. q \in known /\ \A j \in i + 1 .. Len(endpointCh) : q \in endpointCh[j]
      BY <1>2, <2>2 DEF ListsInv
    <3>2. QED
      BY <1>2, <3>1
  <2>3. QED
    BY <1>1, <2>1, <2>2 DEF ListsInv, Lasting, podVars
<1>6. StartInv'
  BY <1>1 DEF StartInv, Starting, podVars
<1>7. TargetInv'
  <2>1. Targets' = Targets /\ Targets \subseteq Pods
    BY <1>1, TargetsArePods DEF Targets, groupVars
  <2>2. ~Starting
    BY <1>1 DEF StartInv
  <2>3. QED
    BY <1>1, <1>4, <2>1, <2>2 DEF TargetInv, Starting, Lasting, IsListed, podVars
<1>8. QED
  BY <1>3, <1>5, <1>6, <1>7

\* What the setter does to the targets of any target group.
LEMMA SetterTargets ==
    ASSUME TypeInv, NEW h \in Groups
    PROVE  /\ RegisterTargets =>
                /\ registered[h] \subseteq registered'[h]
                /\ registered'[h] \subseteq registered[h] \cup Members(endpoints)
           /\ DeregisterTargets =>
                /\ registered'[h] \subseteq registered[h]
                /\ registered[h] \ registered'[h] \subseteq health \ Members(endpoints)
PROOF
<1> USE DEF TypeInv, CNITypeOK
<1>1. ASSUME RegisterTargets
      PROVE  /\ registered[h] \subseteq registered'[h]
             /\ registered'[h] \subseteq registered[h] \cup Members(endpoints)
  <2>1. \/ UNCHANGED registered
        \/ registered' = [registered EXCEPT ![current] = @ \cup (Members(endpoints) \ Members(health))]
    BY <1>1 DEF RegisterTargets, difference
  <2>2. QED
    BY <2>1
<1>2. ASSUME DeregisterTargets
      PROVE  /\ registered'[h] \subseteq registered[h]
             /\ registered[h] \ registered'[h] \subseteq health \ Members(endpoints)
  <2>1. Members(health) = health
    BY CNIAssumption DEF Members
  <2>2. \/ UNCHANGED registered
        \/ registered' = [registered EXCEPT ![current] = @ \ (health \ Members(endpoints))]
    BY <1>2, <2>1 DEF DeregisterTargets, difference
  <2>3. QED
    BY <2>2
<1>3. QED
  BY <1>1, <1>2

\* What becomes a target is on the handler's list, and hence on all that follow.
LEMMA RegisterKeeps ==
    ASSUME IInv, RegisterTargets
    PROVE  ServedInv'
PROOF
<1> USE DEF IInv, TypeInv, ServedInv
<1>1. /\ UNCHANGED <<podVars, informerVars, endpoints>>
      /\ Targets' \subseteq Targets \cup Members(endpoints)
  BY SetterTargets DEF RegisterTargets, Targets
<1>2. endpoints # None
  BY DEF RegisterTargets, HandlerInv, Complete
<1>3. \A q \in Pods : Lasting(q) /\ q \in Members(endpoints) => IsListed(q) /\ ~Starting
  BY <1>2 DEF ListsInv, StartInv, Members, IsListed
<1>4. Members(endpoints) \subseteq Pods /\ Targets \subseteq Pods
  BY TargetsArePods DEF CNITypeOK, Members
<1>5. TargetInv'
  BY <1>1, <1>3, <1>4
  DEF TargetInv, Starting, Lasting, IsListed, WillBeListed, Follows, podVars, informerVars
<1>6. QED
  BY <1>1, <1>5
  DEF PhaseInv, ListsInv, StartInv, Lasting, Follows, Starting, podVars, informerVars

LEMMA HandlerKeeps ==
    ASSUME IInv, cniEventHandler
    PROVE  ServedInv'
PROOF
<1>1. ASSUME UNCHANGED <<podVars, informerVars, endpoints, registered>>
      PROVE  ServedInv'
  BY <1>1, FewerTargetsKeep DEF Targets
<1>2. CASE \/ ReceiveTargetGroups \/ CheckMessages \/ WaitForRateLimiter \/ SetterReturns
           \/ \E g \in Groups : DescribeTargetHealth(g)
  BY <1>1, <1>2
  DEF ReceiveTargetGroups, CheckMessages, WaitForRateLimiter, SetterReturns,
      DescribeTargetHealth, groupVars
<1>3. CASE DeregisterTargets
  <2>1. Targets' \subseteq Targets /\ UNCHANGED <<podVars, informerVars, endpoints>>
    BY <1>3, SetterTargets DEF DeregisterTargets, IInv, Targets
  <2>2. QED
    BY <2>1, FewerTargetsKeep
<1>4. QED
  BY <1>2, <1>3, ReceiveEndpointsKeeps, RegisterKeeps DEF cniEventHandler

-----------------------------------------------------------------------------
(* Failures.                                                                *)

LEMMA WatchKeeps ==
    ASSUME IInv, WatchBreaks
    PROVE  ServedInv'
PROOF
<1> USE DEF IInv, TypeInv, ServedInv, informerVars, groupVars, handlerVars
<1>1. \A p \in Pods : \/ updates'[p] = <<>>
                     \/ updates'[p] = <<phase[p]>>
  BY DEF WatchBreaks
<1>2. PhaseInv'
  BY <1>1 DEF WatchBreaks, PhaseInv, Lasting
<1>3. ListsInv' /\ StartInv'
  BY DEF WatchBreaks, ListsInv, StartInv, Lasting, Follows, Starting
<1>4. Targets' = Targets /\ Targets \subseteq Pods
  BY TargetsArePods DEF WatchBreaks, Targets
<1>5. TargetInv'
  BY <1>1, <1>4
  DEF WatchBreaks, TargetInv, Starting, Lasting, WillBeListed, IsListed, Follows
<1>6. QED
  BY <1>2, <1>3, <1>5

LEMMA RestartKeeps ==
    ASSUME IInv, ControllerRestarts
    PROVE  ServedInv'
PROOF
<1> USE DEF IInv, TypeInv, ServedInv, ControllerRestarts, groupVars
<1>1. Targets' = Targets /\ Targets \subseteq Pods
  BY TargetsArePods DEF Targets
<1>2. \A p \in Pods : phase[p] \in Phases
  BY DEF CNITypeOK
<1>3. PhaseInv' /\ ListsInv' /\ StartInv'
  BY DEF PhaseInv, ListsInv, StartInv, Starting, Ends
<1>4. TargetInv'
  BY <1>1, <1>2 DEF TargetInv, Starting, WillBeListed, Lasting, Ends, Phases
<1>5. QED
  BY <1>3, <1>4

LEMMA FailureKeeps ==
    ASSUME IInv, CNIFailure
    PROVE  ServedInv'
PROOF
<1>1. CASE SetterFails \/ \E g \in Groups : DescribeFails(g)
  <2>1. UNCHANGED <<podVars, informerVars, endpoints, registered>>
    BY <1>1 DEF SetterFails, DescribeFails, groupVars
  <2>2. QED
    BY <2>1, FewerTargetsKeep DEF Targets
<1>2. QED
  BY <1>1, PodsKeep, WatchKeeps, RestartKeeps DEF CNIFailure

LEMMA IInvStep ==
    ASSUME IInv, [CNINext]_cniVars
    PROVE  IInv'
PROOF
<1>1. TypeInv'
  BY CNITypeStep, HandlerStep DEF IInv, TypeInv
<1>2. UNCHANGED cniVars => ServedInv'
  BY FewerTargetsKeep DEF cniVars, groupVars, handlerVars, Targets
<1>3. ServedInv'
  BY <1>2, InformerKeeps, PollLoopKeeps, HandlerKeeps, PodsKeep, GroupsKeep, FailureKeeps
  DEF CNINext, ClusterStep
<1>4. QED
  BY <1>1, <1>3 DEF IInv

\* Only a deregistration takes targets away, and the handler's list has all
\* that run.
LEMMA StepKeepsRunning ==
    ASSUME IInv, [CNINext]_cniVars, NEW g \in Groups, stage'[g] = "present"
    PROVE  (registered[g] \ registered'[g]) \cap Running \subseteq unready
PROOF
<1> USE DEF IInv, TypeInv
<1>1. CASE registered[g] \subseteq registered'[g]
  BY <1>1
<1>2. CASE DeregisterTargets
  <2>1. endpoints # None /\ ~Starting
    BY <1>2 DEF DeregisterTargets, HandlerInv, Complete, ServedInv, StartInv
  <2>2. registered[g] \ registered'[g] \subseteq health \ endpoints
    BY <1>2, <2>1, SetterTargets DEF Members
  <2>3. ASSUME NEW p \in registered[g], p \in Running, p \notin unready
        PROVE  p \in endpoints
    BY <2>1, <2>3 DEF ServedInv, TargetInv, Targets, Running, Lasting, Ends, IsListed
  <2>4. QED
    BY <2>2, <2>3
<1>3. ASSUME NEW h \in Groups, GroupCreated(h) \/ GroupDeleted(h) \/ Drained(h)
      PROVE  registered[g] \subseteq registered'[g]
  BY <1>3 DEF GroupCreated, GroupDeleted, Drained, CNITypeOK
<1>4. CASE RegisterTargets
  BY <1>1, <1>4, SetterTargets
<1>5. CASE UNCHANGED groupVars
  BY <1>1, <1>5 DEF groupVars
<1>6. InformerStep \/ PollLoop => UNCHANGED groupVars
  BY DEF InformerStep, WaitForCacheSync, ListPods, AddEventHandler, Deliver, Resync, PollLoop,
         categorizeTargetTypeInstance, SendTargetGroups
<1>7. cniEventHandler => UNCHANGED groupVars \/ RegisterTargets \/ DeregisterTargets
  BY DEF cniEventHandler, ReceiveTargetGroups, ReceiveEndpoints, CheckMessages,
         WaitForRateLimiter, DescribeTargetHealth, SetterReturns
<1>8. CNIFailure => UNCHANGED groupVars
  BY DEF CNIFailure, ContainerFails, ForcedDeletion, Becomes, DescribeFails, WatchBreaks,
         SetterFails, ControllerRestarts
<1>9. ClusterStep => UNCHANGED groupVars \/ \E h \in Groups : GroupCreated(h) \/ GroupDeleted(h)
  BY DEF ClusterStep, PodCreated, PodStarts, PodTerminates, PodRemoved, Becomes
<1>10. UNCHANGED cniVars => UNCHANGED groupVars
  BY DEF cniVars
<1>11. QED
  BY <1>1, <1>2, <1>3, <1>4, <1>5, <1>6, <1>7, <1>8, <1>9, <1>10 DEF CNINext

\* However many pods come, end and fail, however long the handler waits while
\* lists queue up, and however often the controller crashes: no running pod is
\* taken out of a target group, unless it was not ready when the controller
\* started.
THEOREM RunningKept == CNISpec => KeepsRunning
PROOF
<1>1. CNIInit => IInv
  BY IInvInit
<1>2. IInv /\ [CNINext]_cniVars => IInv'
  BY IInvStep
<1>3. IInv /\ [CNINext]_cniVars =>
        [\A g \in Groups :
           stage'[g] = "present" =>
             (registered[g] \ registered'[g]) \cap Running \subseteq unready]_cniVars
  BY StepKeepsRunning
<1>4. QED
  BY <1>1, <1>2, <1>3, PTL DEF CNISpec, KeepsRunning
=============================================================================
